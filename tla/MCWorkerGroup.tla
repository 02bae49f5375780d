---------------------------- MODULE MCWorkerGroup ----------------------------
(* WorkerGroup with two members.                                            *)
EXTENDS WorkerGroup
CONSTANTS m1, m2
MCMembers == <<m1, m2>>
=============================================================================
