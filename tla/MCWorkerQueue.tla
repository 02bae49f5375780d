---------------------------- MODULE MCWorkerQueue ----------------------------
(* WorkerQueue on a small instance.  Nodes, and tasks not posted yet, are   *)
(* interchangeable, so only one of them is tried: a symmetry reduction that *)
(* the liveness check allows.  A step that is cut has a twin that is not,   *)
(* so no action loses its last enabled step.                                *)
EXTENDS WorkerQueue

First(S) == CHOOSE x \in S : TRUE

TakesFirst ==
    accepted' # accepted =>
        /\ free' = free \ {First(free)}
        /\ accepted' = accepted \cup {First(Tasks \ accepted)}
=============================================================================
