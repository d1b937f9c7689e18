---------------------------- MODULE MCWorkerPool ----------------------------
(* WorkerPool on small instances. *)
EXTENDS WorkerPool, TLC

CONSTANTS i1, i2, w1, w2

\* One instance with two workers.
OneInstance == [w \in {w1, w2} |-> i1]

\* Two instances on one database, a worker each.
TwoInstances == (w1 :> i1) @@ (w2 :> i2)

=============================================================================
