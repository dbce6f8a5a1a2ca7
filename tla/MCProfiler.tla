----------------------------- MODULE MCProfiler -----------------------------
(* Profiler for TLC: threads and takers are interchangeable. *)
EXTENDS Profiler, TLC

Symmetry == Permutations(Threads) \cup Permutations(Takers)

=============================================================================
