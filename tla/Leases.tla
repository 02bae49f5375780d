------------------------------- MODULE Leases -------------------------------
(***************************************************************************)
(* What pool_lease_scheduler promises                                      *)
(* (ruvia-core/include/ruvia/core/pool_lease_scheduler.h:39-62), without   *)
(* the queue, the timers or the cancellation behind it: a slot has one     *)
(* owner at a time, ownership passes only from a free slot or from the     *)
(* owner that gives it back, and an acquire is decided once, for ever.     *)
(***************************************************************************)
CONSTANTS Acquires, Slots, Nobody

VARIABLES
    owner,    \* the acquire that holds each slot
    outcome   \* what became of each acquire

Init ==
    /\ owner = [s \in Slots |-> Nobody]
    /\ outcome = [a \in Acquires |-> "undecided"]

\* A free slot is leased.
Lease(a, s) ==
    /\ outcome[a] = "undecided" /\ owner[s] = Nobody
    /\ owner' = [owner EXCEPT ![s] = a]
    /\ outcome' = [outcome EXCEPT ![a] = "leased"]

\* The owner gives its slot back, to be free or to be another's at once.
GiveBack(a, s) ==
    /\ owner[s] = a
    /\ \/ /\ owner' = [owner EXCEPT ![s] = Nobody]
          /\ outcome' = [outcome EXCEPT ![a] = "returned"]
       \/ \E b \in Acquires :
             /\ outcome[b] = "undecided"
             /\ owner' = [owner EXCEPT ![s] = b]
             /\ outcome' = [outcome EXCEPT ![a] = "returned", ![b] = "leased"]

\* Closed, cancelled or timed out; closing refuses several at once.
Refuse(as) ==
    /\ \A a \in as : outcome[a] = "undecided"
    /\ outcome' = [a \in Acquires |-> IF a \in as THEN "refused" ELSE outcome[a]]
    /\ UNCHANGED owner

Next ==
    \/ \E a \in Acquires, s \in Slots : Lease(a, s) \/ GiveBack(a, s)
    \/ \E as \in SUBSET Acquires : Refuse(as)

Spec == Init /\ [][Next]_<<owner, outcome>>
=============================================================================
