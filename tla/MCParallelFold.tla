--------------------------- MODULE MCParallelFold ---------------------------
(***************************************************************************)
(* Three workers for ParallelFold over four items, dispatched in an order *)
(* that is not their own, two of which trigger.                            *)
(***************************************************************************)
EXTENDS ParallelFold

CONSTANTS w1, w2, w3

MCWorkers == {w1, w2, w3}

MCOrder  == [s \in 0..3 |-> CASE s = 0 -> 2 [] s = 1 -> 0 [] s = 2 -> 3 [] s = 3 -> 1]
MCResult == [i \in 0..3 |-> CASE i = 0 -> "differs" [] i = 1 -> "agrees"
                              [] i = 2 -> "unknown" [] i = 3 -> "differs"]
MCTriggers == {"differs"}
=============================================================================
