---------------------------- MODULE MCWorkerPool ----------------------------
(***************************************************************************)
(* Pools for TLC: with a store, room for the reloaded row and the signal,  *)
(* or for one of them only; in memory, one worker that sends to itself or  *)
(* two workers.                                                            *)
(***************************************************************************)
EXTENDS WorkerPool

CONSTANTS w1, w2, c1, c2

MCReturns == [store \in BOOLEAN |-> IF store THEN {c1} ELSE {c1, c2}]

MCSetups ==
    {[durable |-> TRUE, pool |-> {w1, w2}, buffer |-> 2],
     [durable |-> TRUE, pool |-> {w1}, buffer |-> 1],
     [durable |-> FALSE, pool |-> {w1}, buffer |-> 1],
     [durable |-> FALSE, pool |-> {w1, w2}, buffer |-> 1]}

=============================================================================
