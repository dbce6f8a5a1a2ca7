---------------------------- MODULE MCFcgiSystem ----------------------------
(***************************************************************************)
(* FcgiSystem for TLC. The requests of one kind are interchangeable; the   *)
(* connections are not, since a new object takes the first free address.   *)
(***************************************************************************)
EXTENDS ServiceRefinement, TLC

Symmetry == Permutations(Posts) \cup Permutations(Intercepts \ Posts)

=============================================================================
