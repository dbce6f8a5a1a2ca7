SPECIFICATION Spec
CONSTANTS
  Threads = {t1, t2}
  Takers = {k1, k2, k3}
  NULL = NULL
  MaxSwitches = 4
INVARIANTS TypeOK NoneLost FewLate
SYMMETRY Symmetry
CHECK_DEADLOCK FALSE
