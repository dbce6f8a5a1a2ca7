------------------------- MODULE MCServerThreads -------------------------
(* Two threads: the first has two requests, the second one. *)
EXTENDS ServerThreads, TLC

CONSTANTS t1, t2, i1, i2, i3, c1, c2, c3

MCHome == (i1 :> t1) @@ (i2 :> t1) @@ (i3 :> t2)

\* The host took key 0 before the plugin was loaded.
MCKeys == 0 .. 3

MCHostKeys == {0}

=============================================================================
