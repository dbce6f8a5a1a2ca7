\* Configuration files line by line, then the start of the plugin.
SPECIFICATION Spec
CHECK_DEADLOCK FALSE
CONSTANTS
  NULL = NULL
  Args <- AllArgs
  ConfigLines <- GoodOrNameless
  ParamLines <- GoodParams
  Unreadable <- MissingFile
  MaxLines = 4
  HostStats <- SomeStats
  UintRange = 65536
  MaxCount = 1
INVARIANTS TypeOK LastWins FirstWins FirstServed CountsOwn
