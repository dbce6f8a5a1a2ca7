------------------------------- MODULE Lists -------------------------------
(***************************************************************************)
(* std::list and std::queue as the plugin uses them: sequences without     *)
(* duplicates, from the front to the back.                                 *)
(***************************************************************************)
EXTENDS Naturals, Sequences

\* The elements of a list.
Elements(s) == {s[k] : k \in DOMAIN s}

Injective(s) == \A k, m \in DOMAIN s : s[k] = s[m] => k = m

\* std::list::remove on a list without duplicates.
ListRemove(s, e) ==
  IF e \in Elements(s)
  THEN LET n == CHOOSE k \in DOMAIN s : s[k] = e
       IN  [k \in 1 .. Len(s) - 1 |-> IF k < n THEN s[k] ELSE s[k + 1]]
  ELSE s

=============================================================================
