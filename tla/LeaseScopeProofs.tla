-------------------------- MODULE LeaseScopeProofs ---------------------------
(* What suspends the coroutines of a worker.                               *)
(*                                                                         *)
(* LeaseInv is an inductive invariant of PoolLease, and PoolLease          *)
(* implements Leases, for any finite sets of acquires and slots.           *)
(*                                                                         *)
(* ScopeInv is an inductive invariant of TaskScope, for any finite set of  *)
(* children, any set of failures and any depth of reentrant calls.         *)
EXTENDS PoolLease, TaskScope, ChainLemmas

USE LeaseAssumption, ScopeAssumption

-----------------------------------------------------------------------------
(* The invariant in a form without CHOOSE and Cardinality                   *)

BusyHeld == \A s \in Slots : s \in busy <=> \E a \in Acquires : Held(a) /\ result[a] = s

Core ==
    /\ TypeOK /\ NoIdleSlot /\ CoroutinesAgree /\ OneOwner
    /\ Elems(free) \cap busy = {} /\ BusyHeld

OwnersKnown ==
    /\ Owner \in [Slots -> Acquires \cup {None}]
    /\ \A s \in Slots, a \in Acquires : Owner[s] = a <=> Held(a) /\ result[a] = s
    /\ \A s \in Slots : Owner[s] = None <=> ~ \E a \in Acquires : Held(a) /\ result[a] = s

\* A slot's owner is the one acquire that was given it, if there is one.
LEMMA OwnerIs == OneOwner => OwnersKnown
<1> SUFFICES ASSUME OneOwner
             PROVE  \A s \in Slots :
                      /\ Owner[s] \in Acquires \cup {None}
                      /\ \A a \in Acquires : Owner[s] = a <=> Held(a) /\ result[a] = s
                      /\ Owner[s] = None <=> ~ \E a \in Acquires : Held(a) /\ result[a] = s
  BY DEF Owner, OwnersKnown
<1> TAKE s \in Slots
<1> DEFINE H(a) == Held(a) /\ result[a] = s
<1>1. \A a, b \in Acquires : H(a) /\ H(b) => a = b
  BY DEF OneOwner
<1>2. Owner[s] = IF \E a \in Acquires : H(a) THEN CHOOSE a \in Acquires : H(a) ELSE None
  BY DEF Owner
<1> HIDE DEF H
<1>3. CASE \E a \in Acquires : H(a)
  <2>1. Owner[s] \in Acquires /\ H(Owner[s])
    BY <1>2, <1>3
  <2> QED
    BY <1>1, <1>3, <2>1 DEF H
<1>4. CASE ~ \E a \in Acquires : H(a)
  BY <1>2, <1>4 DEF H
<1> QED
  BY <1>3, <1>4

\* Core is LeaseInv: the slots' number follows from the lists being disjoint
\* and covering all slots.
LEMMA CoreIs == Core <=> LeaseInv
<1>1. ASSUME Core PROVE LeaseInv
  <2>1. busy = {s \in Slots : Owner[s] # None}
    BY <1>1, OwnerIs DEF Core, BusyHeld, TypeOK, OwnersKnown
  <2>2. IsFiniteSet(Elems(free)) /\ Cardinality(Elems(free)) = Len(free)
    BY <1>1, ChainCardinality DEF Core, TypeOK, OneOwner
  <2>3. IsFiniteSet(busy)
    BY <1>1, FS_Subset DEF Core, TypeOK
  <2>4. Cardinality(Elems(free) \cup busy) = Cardinality(Elems(free)) + Cardinality(busy)
    BY <1>1, <2>2, <2>3, DisjointCardinality DEF Core
  <2>5. Len(free) + Cardinality(busy) = Cardinality(Slots)
    BY <1>1, <2>2, <2>4 DEF Core, OneOwner
  <2> QED
    BY <1>1, <2>1, <2>5 DEF Core, LeaseInv, SlotsConserved
<1>2. ASSUME LeaseInv PROVE Core
  <2>1. BusyHeld
    BY <1>2, OwnerIs DEF LeaseInv, SlotsConserved, BusyHeld, OwnersKnown
  <2> QED
    BY <1>2, <2>1 DEF Core, LeaseInv, SlotsConserved
<1> QED
  BY <1>1, <1>2

\* All slots are free at the start.
LEMMA LeaseInit == Init => Core
<1> SUFFICES ASSUME Init PROVE Core
  OBVIOUS
<1>1. PICK order \in [1..Cardinality(Slots) -> Slots] : Distinct(order) /\ free = order
  BY DEF Init
<1>2. Cardinality(Slots) \in Nat
  BY FS_CardinalityType
<1>3. free \in Seq(Slots) /\ Len(free) = Cardinality(Slots) /\ Distinct(free)
  BY <1>1, <1>2, IsASeq, LenProperties
<1>4. Elems(free) = Slots
  <2>1. Elems(free) \subseteq Slots
    BY <1>3 DEF Elems
  <2>2. Cardinality(Elems(free)) = Cardinality(Slots)
    BY <1>3, ChainCardinality
  <2> QED
    BY <2>1, <2>2, FS_Subset
<1>5. TypeOK
  <2>1. closing \in BOOLEAN /\ timersOff \in BOOLEAN
    BY DEF Init
  <2>2. /\ busy \subseteq Slots /\ queue \in Seq(Acquires)
        /\ at \in [Acquires -> {"cold", "suspending", "waiting", "resuming", "holding", "done"}]
        /\ result \in [Acquires -> Slots \cup Refusals \cup {None}]
        /\ suspending \in Acquires \cup {None}
        /\ \A as \in {timer, stop, hooked, callback, posted, deferred} : as \subseteq Acquires
    BY DEF Init
  <2> QED
    BY <1>3, <2>1, <2>2 DEF TypeOK
<1>6. NoIdleSlot
  BY ChainEmpty DEF Init, NoIdleSlot, Queued
<1>7. CoroutinesAgree
  BY DEF Init, CoroutinesAgree
<1>8. OneOwner /\ BusyHeld
  BY <1>3, <1>4, ChainEmpty DEF Init, OneOwner, BusyHeld, Held
<1> QED
  BY <1>4, <1>5, <1>6, <1>7, <1>8 DEF Core, Init
-----------------------------------------------------------------------------
(* Every step preserves Core                                                *)

\* An acquire that is queued is waiting, or inside await_suspend().
LEMMA QueuedWaits ==
    ASSUME Core, NEW a \in Acquires, Queued(a)
    PROVE  /\ result[a] = None /\ at[a] \in {"suspending", "waiting"}
           /\ Worker => at[a] = "waiting"
           /\ ~Held(a)
BY DEF Core, NoIdleSlot, CoroutinesAgree, Held, Worker

\* A refusal takes its acquire out of the queue and moves no slot.
LEMMA RefusalStep ==
    ASSUME Core, NEW a \in Acquires, NEW v \in Refusals,
           at[a] \in {"cold", "suspending", "waiting"},
           queue' = Without(queue, a), result' = [result EXCEPT ![a] = v],
           at' \in [Acquires -> {"cold", "suspending", "waiting", "resuming", "holding", "done"}],
           at'[a] \in {"resuming", "done"}, \A b \in Acquires \ {a} : at'[b] = at[b],
           deferred' = deferred \cup (IF at'[a] = "resuming" THEN {a} ELSE {}),
           suspending' = (IF suspending = a THEN None ELSE suspending),
           \A as \in {timer', stop', hooked', callback', posted'} : as \subseteq Acquires,
           UNCHANGED <<free, busy, closing, timersOff>>
    PROVE  Core'
<1>1. /\ queue' \in Seq(Acquires) /\ Elems(queue') = Elems(queue) \ {a} /\ Distinct(queue')
  BY ChainUnlink DEF Core, TypeOK, OneOwner
<1>2. result' \in [Acquires -> Slots \cup Refusals \cup {None}]
  BY DEF Core, TypeOK
<1>3. /\ result'[a] = v /\ v \notin Slots /\ v # None
      /\ \A b \in Acquires : b # a => result'[b] = result[b]
  BY DEF Core, TypeOK
<1>4. NoIdleSlot'
  <2>1. queue' # << >> => queue # << >>
    BY <1>1, ChainIsEmpty DEF Core, TypeOK
  <2> QED
    BY <1>1, <1>3, <2>1 DEF Core, NoIdleSlot, Queued
<1>5. CoroutinesAgree'
  BY <1>3 DEF Core, CoroutinesAgree, TypeOK
<1>6. \A b \in Acquires : /\ Held(b)' <=> Held(b)
                          /\ Held(b) => result'[b] = result[b]
  BY <1>3 DEF Core, CoroutinesAgree, Held
<1>7. OneOwner' /\ BusyHeld'
  BY <1>1, <1>6 DEF Core, OneOwner, BusyHeld
<1>8. TypeOK'
  BY <1>1, <1>2 DEF Core, TypeOK
<1> QED
  BY <1>4, <1>5, <1>7, <1>8 DEF Core

\* try_acquire() takes the top of the free stack, or refuses.
LEMMA AcquireNowStep ==
    ASSUME Core, NEW a \in Acquires, AcquireNow(a)
    PROVE  Core'
<1>1. /\ at[a] = "cold" /\ result[a] = None /\ ~Queued(a) /\ ~Held(a)
      /\ at' = [at EXCEPT ![a] = Outcome(result'[a])]
      /\ UNCHANGED <<closing, queue, timer, hooked, timersOff, stop, callback, posted, deferred, suspending>>
  BY DEF Core, NoIdleSlot, CoroutinesAgree, AcquireNow, waits, stops, Held
<1>2. ASSUME NEW v \in Refusals, result' = [result EXCEPT ![a] = v], UNCHANGED <<free, busy>>
      PROVE  Core'
  <2>1. at' = [at EXCEPT ![a] = "done"]
    BY <1>1, <1>2 DEF Outcome, Core, TypeOK
  <2>2. queue' = Without(queue, a)
    BY <1>1 DEF Without, Queued
  <2>3. /\ suspending' = (IF suspending = a THEN None ELSE suspending)
        /\ at' \in [Acquires -> {"cold", "suspending", "waiting", "resuming", "holding", "done"}]
        /\ at'[a] = "done" /\ \A b \in Acquires \ {a} : at'[b] = at[b]
        /\ deferred' = deferred \cup (IF at'[a] = "resuming" THEN {a} ELSE {})
    BY <1>1, <2>1 DEF Core, TypeOK, CoroutinesAgree
  <2>4. \A as \in {timer', stop', hooked', callback', posted'} : as \subseteq Acquires
    BY <1>1 DEF Core, TypeOK
  <2> QED
    BY <1>1, <1>2, <2>2, <2>3, <2>4, RefusalStep
<1>3. ASSUME ~closing, free # << >>,
             result' = [result EXCEPT ![a] = free[Len(free)]],
             busy' = busy \cup {free[Len(free)]},
             free' = SubSeq(free, 1, Len(free) - 1)
      PROVE  Core'
  <2> DEFINE s == free[Len(free)]
  <2>1. /\ s \in Slots /\ free' \in Seq(Slots) /\ Elems(free) = Elems(free') \cup {s}
        /\ Distinct(free') /\ s \notin Elems(free')
    BY <1>3, ChainFront DEF Core, TypeOK, OneOwner
  <2> HIDE DEF s
  <2>2. result' = [result EXCEPT ![a] = s] /\ busy' = busy \cup {s} /\ at' = [at EXCEPT ![a] = "holding"]
    BY <1>1, <1>3, <2>1 DEF s, Outcome, Core, TypeOK
  <2>3. TypeOK'
    BY <1>1, <2>1, <2>2 DEF Core, TypeOK
  <2>4. queue = << >>
    BY <1>3 DEF Core, NoIdleSlot
  <2>5. NoIdleSlot'
    BY <1>1, <2>2, <2>4, ChainEmpty DEF Core, NoIdleSlot, Queued, TypeOK
  <2>6. CoroutinesAgree'
    BY <1>1, <2>1, <2>2 DEF Core, CoroutinesAgree, TypeOK
  <2>7. \A b \in Acquires : Held(b) => result[b] # s
    BY <2>1 DEF Core, BusyHeld
  <2>8. \A b \in Acquires : /\ Held(b)' <=> Held(b) \/ b = a
                            /\ result'[b] = IF b = a THEN s ELSE result[b]
    BY <1>1, <2>1, <2>2 DEF Core, TypeOK, Held
  <2>9. OneOwner'
    BY <1>1, <2>1, <2>2, <2>7, <2>8 DEF Core, OneOwner
  <2>10. BusyHeld' /\ (Elems(free) \cap busy = {})'
    BY <1>1, <2>1, <2>2, <2>8 DEF Core, BusyHeld
  <2> QED
    BY <2>3, <2>5, <2>6, <2>9, <2>10 DEF Core
<1> QED
  BY <1>2, <1>3 DEF AcquireNow, Refusals

\* Queueing: the pool is open and has no free slot.
LEMMA AcquireQueueStep ==
    ASSUME Core, NEW a \in Acquires, NEW timed \in BOOLEAN, AcquireQueue(a, timed)
    PROVE  Core'
<1>1. /\ at[a] = "cold" /\ result[a] = None /\ ~Queued(a) /\ suspending = None
      /\ ~closing /\ free = << >> /\ a \notin deferred
      /\ queue' = Append(queue, a) /\ suspending' = a /\ at' = [at EXCEPT ![a] = "suspending"]
      /\ UNCHANGED <<free, busy, closing, result, hooked, timersOff, stop, callback, posted, deferred>>
  BY DEF Core, NoIdleSlot, CoroutinesAgree, AcquireQueue, Worker, stops
<1>2. queue' \in Seq(Acquires) /\ Elems(queue') = Elems(queue) \cup {a} /\ Distinct(queue')
  BY <1>1, ChainAppend DEF Core, TypeOK, OneOwner, Queued
<1>3. timer' \subseteq Acquires
  BY DEF Core, TypeOK, AcquireQueue
<1>4. TypeOK'
  BY <1>1, <1>2, <1>3 DEF Core, TypeOK
<1>5. NoIdleSlot' /\ CoroutinesAgree'
  BY <1>1, <1>2 DEF Core, TypeOK, NoIdleSlot, CoroutinesAgree, Queued
<1>6. OneOwner' /\ BusyHeld'
  BY <1>1, <1>2 DEF Core, TypeOK, OneOwner, BusyHeld, Held
<1> QED
  BY <1>1, <1>4, <1>5, <1>6 DEF Core

\* The two ends of an acquire inside await_suspend() that never waits.
LEMMA AcquireFailsStep ==
    ASSUME Core, NEW a \in Acquires, AcquireTimerThrows(a) \/ AcquireZero(a)
    PROVE  Core'
<1>1. /\ at[a] = "cold" /\ result[a] = None /\ ~Queued(a) /\ suspending = None /\ a \notin deferred
      /\ at' = [at EXCEPT ![a] = "done"]
      /\ UNCHANGED <<free, busy, closing, queue, timer, hooked, timersOff, stop, callback, posted,
                     deferred, suspending>>
  BY DEF Core, NoIdleSlot, CoroutinesAgree, AcquireTimerThrows, AcquireZero, Worker, waits, stops
<1>2. CASE UNCHANGED result
  <2>1. TypeOK'
    BY <1>1, <1>2 DEF Core, TypeOK
  <2>2. NoIdleSlot' /\ CoroutinesAgree'
    BY <1>1, <1>2 DEF Core, TypeOK, NoIdleSlot, CoroutinesAgree, Queued
  <2>3. OneOwner' /\ BusyHeld'
    BY <1>1, <1>2 DEF Core, TypeOK, OneOwner, BusyHeld, Held
  <2> QED
    BY <1>1, <2>1, <2>2, <2>3 DEF Core
<1>3. CASE result' = [result EXCEPT ![a] = "timed_out"]
  <2>1. queue' = Without(queue, a)
    BY <1>1 DEF Without, Queued
  <2>2. /\ suspending' = (IF suspending = a THEN None ELSE suspending)
        /\ at' \in [Acquires -> {"cold", "suspending", "waiting", "resuming", "holding", "done"}]
        /\ at'[a] = "done" /\ \A b \in Acquires \ {a} : at'[b] = at[b]
        /\ deferred' = deferred \cup (IF at'[a] = "resuming" THEN {a} ELSE {})
        /\ \A as \in {timer', stop', hooked', callback', posted'} : as \subseteq Acquires
    BY <1>1 DEF Core, TypeOK
  <2> QED
    BY <1>1, <1>3, <2>1, <2>2, RefusalStep DEF Refusals
<1> QED
  BY <1>2, <1>3 DEF AcquireTimerThrows, AcquireZero

\* await_suspend() ends: suspended, or refused by a stop that came first.
LEMMA SuspendStep ==
    ASSUME Core, NEW a \in Acquires, Suspend(a)
    PROVE  Core'
<1>1. /\ at[a] = "suspending" /\ result[a] = None /\ Queued(a) /\ a \notin deferred
      /\ suspending = a /\ suspending' = None
      /\ UNCHANGED <<free, busy, closing, timersOff, stop, callback, posted, deferred>>
  BY DEF Core, NoIdleSlot, CoroutinesAgree, Suspend, stops
<1>2. CASE a \in stop
  <2>1. /\ queue' = Without(queue, a) /\ result' = [result EXCEPT ![a] = "cancelled"]
        /\ timer' = timer \ {a} /\ hooked' = hooked \ {a} /\ at' = [at EXCEPT ![a] = "done"]
    BY <1>2 DEF Suspend, Decide, Unregister
  <2>2. /\ suspending' = (IF suspending = a THEN None ELSE suspending)
        /\ at' \in [Acquires -> {"cold", "suspending", "waiting", "resuming", "holding", "done"}]
        /\ at'[a] = "done" /\ \A b \in Acquires \ {a} : at'[b] = at[b]
        /\ deferred' = deferred \cup (IF at'[a] = "resuming" THEN {a} ELSE {})
        /\ \A as \in {timer', stop', hooked', callback', posted'} : as \subseteq Acquires
    BY <1>1, <2>1 DEF Core, TypeOK
  <2> QED
    BY <1>1, <2>1, <2>2, RefusalStep DEF Refusals
<1>3. CASE a \notin stop
  <2>1. /\ at' = [at EXCEPT ![a] = "waiting"] /\ hooked' = hooked \cup {a}
        /\ UNCHANGED <<queue, result, timer>>
    BY <1>3 DEF Suspend
  <2>2. TypeOK'
    BY <1>1, <2>1 DEF Core, TypeOK
  <2>3. NoIdleSlot' /\ CoroutinesAgree'
    BY <1>1, <2>1 DEF Core, TypeOK, NoIdleSlot, CoroutinesAgree, Queued
  <2>4. OneOwner' /\ BusyHeld'
    BY <1>1, <2>1 DEF Core, TypeOK, OneOwner, BusyHeld, Held
  <2> QED
    BY <1>1, <2>2, <2>3, <2>4 DEF Core
<1> QED
  BY <1>2, <1>3

\* A timeout, a posted cancellation and a stop on the worker refuse a waiter
\* that is still queued and nothing else.
LEMMA RefuseStep ==
    ASSUME Core, NEW a \in Acquires, Expire(a) \/ RunPosted(a) \/ StopOnWorker(a)
    PROVE  Core'
<1>1. /\ suspending = None /\ UNCHANGED <<free, busy, closing, timersOff, suspending>>
      /\ \A as \in {timer', stop', hooked', callback', posted'} : as \subseteq Acquires
  <2>1. CASE Expire(a)
    BY <2>1 DEF Expire, Worker, Unregister, stops, Core, TypeOK
  <2>2. CASE RunPosted(a)
    BY <2>2 DEF RunPosted, Worker, Unregister, waits, Core, TypeOK
  <2>3. CASE StopOnWorker(a)
    BY <2>3 DEF StopOnWorker, Worker, Core, TypeOK
  <2> QED
    BY <2>1, <2>2, <2>3
<1>2. CASE UNCHANGED <<queue, result, at, deferred>>
  <2>1. TypeOK'
    BY <1>1, <1>2 DEF Core, TypeOK
  <2>2. NoIdleSlot' /\ CoroutinesAgree' /\ OneOwner' /\ BusyHeld'
    BY <1>1, <1>2 DEF Core, NoIdleSlot, CoroutinesAgree, Queued, OneOwner, BusyHeld, Held
  <2> QED
    BY <1>1, <2>1, <2>2 DEF Core
<1>3. ASSUME Queued(a), NEW v \in Refusals, Decide(a, v),
             \/ at' = [at EXCEPT ![a] = "done"] /\ UNCHANGED deferred
             \/ Defer({a})
      PROVE  Core'
  <2>1. at[a] = "waiting" /\ a \notin deferred /\ suspending # a
    BY <1>1, <1>3, QueuedWaits DEF Worker, Core, CoroutinesAgree
  <2>2. /\ at' \in [Acquires -> {"cold", "suspending", "waiting", "resuming", "holding", "done"}]
        /\ at'[a] \in {"resuming", "done"} /\ \A b \in Acquires \ {a} : at'[b] = at[b]
        /\ deferred' = deferred \cup (IF at'[a] = "resuming" THEN {a} ELSE {})
    BY <1>3, <2>1 DEF Core, TypeOK, Defer
  <2>3. suspending' = (IF suspending = a THEN None ELSE suspending)
    BY <1>1, <2>1
  <2> QED
    BY <1>1, <1>3, <2>1, <2>2, <2>3, RefusalStep DEF Decide
<1> QED
  BY <1>2, <1>3 DEF Expire, RunPosted, StopOnWorker, Cancels, Refusals, waits

\* A release hands the slot to the first waiter, or frees it: the slot changes
\* its owner and no other slot does.
LEMMA ReleaseStep ==
    ASSUME Core, NEW a \in Acquires, Release(a)
    PROVE  Core'
<1> DEFINE s == result[a]
<1>1. /\ at[a] = "holding" /\ Held(a) /\ s \in Slots /\ s \in busy /\ suspending = None
      /\ a \notin deferred /\ ~Queued(a) /\ s \notin Elems(free)
      /\ UNCHANGED <<closing, timersOff, stop, callback, posted, suspending>>
  BY DEF Core, CoroutinesAgree, NoIdleSlot, BusyHeld, Release, Held, Worker, stops
<1>2. \A c \in Acquires : Held(c) /\ result[c] = s => c = a
  BY <1>1 DEF Core, OneOwner
<1>3. CASE ~closing /\ queue # << >>
  <2> DEFINE b == Head(queue)
  <2>1. b \in Acquires /\ Queued(b)
    BY <1>3, ChainTail DEF Core, TypeOK, Queued
  <2>2. /\ queue' = Without(queue, b) /\ result' = [result EXCEPT ![b] = s]
        /\ timer' = timer \ {b} /\ hooked' = hooked \ {b}
        /\ deferred' = deferred \cup {b} /\ at' = [at EXCEPT ![a] = "done", ![b] = "resuming"]
        /\ UNCHANGED <<free, busy>>
    BY <1>3 DEF Release, Decide, Unregister
  <2> HIDE DEF b, s
  <2>3. /\ at[b] = "waiting" /\ result[b] = None /\ ~Held(b) /\ b # a
    BY <1>1, <2>1, QueuedWaits DEF Worker
  <2>4. queue' \in Seq(Acquires) /\ Elems(queue') = Elems(queue) \ {b} /\ Distinct(queue')
    BY <2>2, ChainUnlink DEF Core, TypeOK, OneOwner
  <2>5. TypeOK'
    BY <1>1, <2>1, <2>2, <2>4 DEF Core, TypeOK
  <2>6. NoIdleSlot'
    BY <1>1, <1>3, <2>1, <2>2, <2>3, <2>4 DEF Core, TypeOK, NoIdleSlot, Queued
  <2>7. CoroutinesAgree'
    BY <1>1, <2>1, <2>2, <2>3 DEF Core, TypeOK, CoroutinesAgree
  <2>8. \A c \in Acquires : /\ Held(c)' <=> (Held(c) /\ c # a) \/ c = b
                            /\ result'[c] = IF c = b THEN s ELSE result[c]
    BY <1>1, <2>1, <2>2, <2>3 DEF Core, TypeOK, Held
  <2>9. OneOwner'
    BY <1>2, <2>1, <2>2, <2>4, <2>8 DEF Core, OneOwner
  <2>10. BusyHeld'
    BY <1>1, <1>2, <2>1, <2>2, <2>3, <2>8 DEF Core, BusyHeld, s
  <2> QED
    BY <2>2, <2>5, <2>6, <2>7, <2>9, <2>10 DEF Core
<1>4. CASE ~(~closing /\ queue # << >>)
  <2>1. /\ busy' = busy \ {s} /\ free' = Append(free, s) /\ at' = [at EXCEPT ![a] = "done"]
        /\ UNCHANGED <<queue, result, timer, hooked, deferred>>
    BY <1>4 DEF Release, waits
  <2>2. queue = << >>
    BY <1>4 DEF Core, NoIdleSlot
  <2> HIDE DEF s
  <2>3. free' \in Seq(Slots) /\ Elems(free') = Elems(free) \cup {s} /\ Distinct(free')
    BY <1>1, <2>1, ChainAppend DEF Core, TypeOK, OneOwner
  <2>4. TypeOK'
    BY <1>1, <2>1, <2>3 DEF Core, TypeOK
  <2>5. NoIdleSlot'
    BY <1>1, <2>1, <2>2 DEF Core, TypeOK, NoIdleSlot, Queued
  <2>6. CoroutinesAgree'
    BY <1>1, <2>1 DEF Core, TypeOK, CoroutinesAgree
  <2>7. \A c \in Acquires : Held(c)' <=> Held(c) /\ c # a
    BY <1>1, <2>1 DEF Core, TypeOK, Held
  <2>8. OneOwner'
    BY <1>1, <2>1, <2>3, <2>7 DEF Core, OneOwner
  <2>9. BusyHeld' /\ (Elems(free) \cap busy = {})'
    BY <1>1, <1>2, <2>1, <2>3, <2>7 DEF Core, BusyHeld, s
  <2> QED
    BY <2>4, <2>5, <2>6, <2>8, <2>9 DEF Core
<1> QED
  BY <1>3, <1>4

\* Closing refuses every waiter and moves no slot.
LEMMA CloseStep ==
    ASSUME Core, Close
    PROVE  Core'
<1>1. /\ suspending = None /\ closing' = TRUE /\ queue' = << >>
      /\ result' = [a \in Acquires |-> IF Queued(a) THEN "closed" ELSE result[a]]
      /\ timer' = timer \ Elems(queue) /\ hooked' = hooked \ Elems(queue)
      /\ UNCHANGED <<free, busy, timersOff, stop, callback, posted, suspending>>
  BY DEF Close, Worker, Unregister, stops
<1>2. \A a \in Acquires : Queued(a) <=> at[a] = "waiting"
  BY <1>1 DEF Core, NoIdleSlot, CoroutinesAgree
<1>3. /\ deferred' = deferred \cup {a \in Acquires : Queued(a)}
      /\ at' = [a \in Acquires |-> IF Queued(a) THEN "resuming" ELSE at[a]]
  <2>1. Elems(queue) \subseteq Acquires
    BY DEF Core, TypeOK, Elems
  <2> QED
    BY <1>2, <2>1 DEF Close, Defer, Queued
<1>4. TypeOK'
  BY <1>1, <1>3 DEF Core, TypeOK, Refusals
<1>5. NoIdleSlot'
  BY <1>1, <1>2, <1>3, ChainEmpty DEF Core, NoIdleSlot, Queued, CoroutinesAgree
<1>6. CoroutinesAgree'
  BY <1>1, <1>2, <1>3 DEF Core, CoroutinesAgree, Refusals
<1>7. \A a \in Acquires : /\ Held(a)' <=> Held(a)
                          /\ Held(a) => result'[a] = result[a]
  BY <1>1, <1>2, <1>3 DEF Held, Refusals
<1>8. OneOwner' /\ BusyHeld'
  BY <1>1, <1>7, ChainEmpty DEF Core, OneOwner, BusyHeld
<1> QED
  BY <1>1, <1>4, <1>5, <1>6, <1>8 DEF Core

\* The deferred turn moves the coroutine only.
LEMMA ResumeStep ==
    ASSUME Core, NEW a \in Acquires, Resume(a)
    PROVE  Core'
<1>1. /\ at[a] = "resuming" /\ result[a] # None /\ suspending = None /\ ~Queued(a)
      /\ deferred' = deferred \ {a} /\ at' = [at EXCEPT ![a] = Outcome(result[a])]
      /\ timer' = timer \ {a} /\ hooked' = hooked \ {a}
      /\ UNCHANGED <<free, busy, closing, queue, result, timersOff, stop, callback, posted, suspending>>
  BY DEF Core, NoIdleSlot, CoroutinesAgree, Resume, Worker, Unregister, stops
<1>2. Outcome(result[a]) = IF result[a] \in Slots THEN "holding" ELSE "done"
  BY DEF Outcome
<1>3. TypeOK'
  BY <1>1, <1>2 DEF Core, TypeOK
<1>4. NoIdleSlot'
  BY <1>1, <1>2 DEF Core, TypeOK, NoIdleSlot, Queued
<1>5. CoroutinesAgree'
  BY <1>1, <1>2 DEF Core, TypeOK, CoroutinesAgree
<1>6. \A b \in Acquires : Held(b)' <=> Held(b)
  BY <1>1, <1>2 DEF Core, TypeOK, Held
<1>7. OneOwner' /\ BusyHeld'
  BY <1>1, <1>6 DEF Core, OneOwner, BusyHeld
<1> QED
  BY <1>1, <1>3, <1>4, <1>5, <1>7 DEF Core

\* Steps of other threads and of the timers touch no wait.
LEMMA OtherStep ==
    ASSUME Core, \/ TimersStop \/ \E a \in Acquires : StopElsewhere(a) \/ CallbackPosts(a)
                 \/ UNCHANGED vars
    PROVE  Core' /\ UNCHANGED <<at, result>>
<1>1. UNCHANGED <<free, busy, closing, queue, at, result, deferred, suspending>>
  BY DEF TimersStop, StopElsewhere, CallbackPosts, vars
<1>2. \A as \in {timer', stop', hooked', callback', posted'} : as \subseteq Acquires
  <2>1. CASE TimersStop
    <3>1. timer' = {} /\ UNCHANGED <<stop, hooked, callback, posted>>
      BY <2>1 DEF TimersStop, stops
    <3>2. \A as \in {stop, hooked, callback, posted} : as \subseteq Acquires
      BY DEF Core, TypeOK
    <3> QED
      BY <3>1, <3>2
  <2>2. ASSUME NEW a \in Acquires, StopElsewhere(a) \/ CallbackPosts(a)
        PROVE  \A as \in {timer', stop', hooked', callback', posted'} : as \subseteq Acquires
    <3>1. CASE StopElsewhere(a)
      BY <3>1 DEF Core, TypeOK, StopElsewhere, waits
    <3>2. CASE CallbackPosts(a)
      BY <3>2 DEF Core, TypeOK, CallbackPosts, waits
    <3> QED
      BY <2>2, <3>1, <3>2
  <2>3. CASE UNCHANGED vars
    BY <2>3 DEF Core, TypeOK, vars, waits, stops
  <2> QED
    BY <2>1, <2>2, <2>3
<1>3. timersOff' \in BOOLEAN
  BY DEF Core, TypeOK, TimersStop, StopElsewhere, CallbackPosts, vars
<1>4. TypeOK'
  BY <1>1, <1>2, <1>3 DEF Core, TypeOK
<1>5. NoIdleSlot' /\ CoroutinesAgree' /\ OneOwner' /\ BusyHeld'
  BY <1>1 DEF Core, NoIdleSlot, CoroutinesAgree, Queued, OneOwner, BusyHeld, Held
<1> QED
  BY <1>1, <1>4, <1>5 DEF Core

\* Core is inductive.
LEMMA CoreStep == Core /\ [Next]_vars => Core'
BY AcquireNowStep, AcquireQueueStep, AcquireFailsStep, SuspendStep, RefuseStep, ReleaseStep,
   CloseStep, ResumeStep, OtherStep
   DEF Next

\* LeaseInv holds in every reachable state: every slot is free or has exactly
\* one owner, no waiter waits beside a free slot or in a closed pool, and a
\* waiter is queued exactly while it is undecided
\* (pool_lease_scheduler.cpp, try_acquire, release and close).
THEOREM LeaseInvariant == Spec => []LeaseInv
<1>1. Spec => []Core
  BY LeaseInit, CoreStep, PTL DEF Spec
<1> QED
  BY <1>1, CoreIs, PTL
-----------------------------------------------------------------------------
(* PoolLease implements Leases                                              *)

\* OwnerIs, about the next state.
LEMMA OwnerIsNext == OneOwner' => OwnersKnown'
BY OwnerIs, PTL

\* The outcomes, case by case.
LEMMA DecidedIs ==
    ASSUME Core, NEW a \in Acquires
    PROVE  /\ Held(a) => Decided[a] = "leased"
           /\ result[a] \in Slots /\ ~Held(a) => Decided[a] = "returned"
           /\ result[a] \in Refusals => Decided[a] = "refused"
           /\ result[a] = None => Decided[a] = "undecided"
BY DEF Core, TypeOK, Decided, Held

\* Who holds what decides the owners.
LEMMA SameOwners ==
    ASSUME Core, Core',
           \A a \in Acquires : (Held(a)' <=> Held(a)) /\ (Held(a) => result'[a] = result[a])
    PROVE  Owner' = Owner
<1>1. /\ Owner \in [Slots -> Acquires \cup {None}]
      /\ \A s \in Slots, a \in Acquires : Owner[s] = a <=> Held(a) /\ result[a] = s
  BY OwnerIs DEF Core, OwnersKnown
<1>2. /\ Owner' \in [Slots -> Acquires \cup {None}]
      /\ \A s \in Slots, a \in Acquires : Owner'[s] = a <=> Held(a)' /\ result'[a] = s
  BY OwnerIsNext DEF Core, OwnersKnown
<1>3. ASSUME NEW s \in Slots PROVE Owner'[s] = Owner[s]
  <2>1. \A a \in Acquires : Owner'[s] = a <=> Owner[s] = a
    BY <1>1, <1>2
  <2> QED
    BY <1>1, <1>2, <2>1
<1> QED
  BY <1>1, <1>2, <1>3

\* A step that decides the undecided acquires of as against them is a
\* Refuse(as) of Leases; with no such acquire it is a stutter.
LEMMA RefusalMaps ==
    ASSUME Core, Core', NEW as \in SUBSET Acquires,
           \A a \in as : result[a] = None /\ result'[a] \in Refusals,
           \A a \in Acquires \ as : result'[a] = result[a] /\ (Held(a)' <=> Held(a))
    PROVE  Promise!Next
<1>1. \A a \in Acquires : (Held(a)' <=> Held(a)) /\ (Held(a) => result'[a] = result[a])
  BY DEF Held
<1>2. Owner' = Owner
  BY <1>1, SameOwners
<1>3. \A a \in as : Decided[a] = "undecided"
  BY DecidedIs
<1>4. Decided' = [a \in Acquires |-> IF a \in as THEN "refused" ELSE Decided[a]]
  BY <1>1 DEF Decided
<1>5. Promise!Refuse(as)
  BY <1>2, <1>3, <1>4 DEF Promise!Refuse
<1> QED
  BY <1>5 DEF Promise!Next

\* At the start no slot has an owner and no acquire is decided.
LEMMA RefineInit == Init => Promise!Init
<1> SUFFICES ASSUME Init PROVE Promise!Init
  OBVIOUS
<1>1. \A a \in Acquires : ~Held(a) /\ result[a] = None
  BY DEF Init, Held
<1>2. Owner = [s \in Slots |-> None]
  BY <1>1 DEF Owner
<1>3. Decided = [a \in Acquires |-> "undecided"]
  BY <1>1 DEF Decided
<1> QED
  BY <1>2, <1>3 DEF Promise!Init

\* A free slot is leased by try_acquire(): Lease; otherwise Refuse.
LEMMA AcquireNowMaps ==
    ASSUME Core, Core', NEW a \in Acquires, AcquireNow(a)
    PROVE  Promise!Next
<1>1. /\ at[a] = "cold" /\ result[a] = None /\ ~Held(a)
      /\ at' = [at EXCEPT ![a] = Outcome(result'[a])]
  BY DEF Core, CoroutinesAgree, AcquireNow, Held
<1>2. ASSUME NEW v \in Refusals, result' = [result EXCEPT ![a] = v]
      PROVE  Promise!Next
  <2>1. /\ result'[a] = v
        /\ \A b \in Acquires \ {a} : result'[b] = result[b] /\ at'[b] = at[b]
    BY <1>1, <1>2 DEF Core, TypeOK
  <2>2. \A b \in Acquires \ {a} : result'[b] = result[b] /\ (Held(b)' <=> Held(b))
    BY <2>1 DEF Held
  <2> QED
    BY <1>1, <2>1, <2>2, RefusalMaps
<1>3. ASSUME ~closing, free # << >>,
             result' = [result EXCEPT ![a] = free[Len(free)]]
      PROVE  Promise!Next
  <2> DEFINE s == free[Len(free)]
  <2>1. s \in Slots /\ s \in Elems(free)
    BY <1>3, ChainFront DEF Core, TypeOK
  <2>2. \A b \in Acquires : Held(b) => result[b] # s
    BY <2>1 DEF Core, BusyHeld
  <2> HIDE DEF s
  <2>3. result' = [result EXCEPT ![a] = s] /\ at' = [at EXCEPT ![a] = "holding"]
    BY <1>1, <1>3, <2>1 DEF s, Outcome, Core, TypeOK
  <2>4. \A b \in Acquires : /\ Held(b)' <=> Held(b) \/ b = a
                            /\ result'[b] = IF b = a THEN s ELSE result[b]
    BY <1>1, <2>1, <2>3 DEF Core, TypeOK, Held
  <2>5. OwnersKnown /\ OwnersKnown'
    BY OwnerIs, OwnerIsNext DEF Core
  <2>6. Owner[s] = None
    BY <2>1, <2>2, <2>5 DEF OwnersKnown
  <2>7. Owner' = [Owner EXCEPT ![s] = a]
    <3>1. ASSUME NEW r \in Slots PROVE Owner'[r] = IF r = s THEN a ELSE Owner[r]
      <4>1. \A b \in Acquires : Owner'[r] = b <=> IF r = s THEN b = a ELSE Owner[r] = b
        BY <1>1, <2>2, <2>4, <2>5 DEF OwnersKnown
      <4>2. Owner'[r] \in Acquires \cup {None} /\ Owner[r] \in Acquires \cup {None}
        BY <2>5 DEF OwnersKnown
      <4> QED
        BY <4>1, <4>2
    <3> QED
      BY <2>1, <2>5, <3>1 DEF OwnersKnown
  <2>8. Decided[a] = "undecided"
    BY <1>1, DecidedIs
  <2>9. Decided' = [Decided EXCEPT ![a] = "leased"]
    BY <1>1, <2>1, <2>4 DEF Decided
  <2>10. Promise!Lease(a, s)
    BY <2>6, <2>7, <2>8, <2>9 DEF Promise!Lease
  <2> QED
    BY <2>1, <2>10 DEF Promise!Next
<1> QED
  BY <1>2, <1>3 DEF AcquireNow, Refusals

\* A release is a GiveBack, to the first waiter or to nobody.
LEMMA ReleaseMaps ==
    ASSUME Core, Core', NEW a \in Acquires, Release(a)
    PROVE  Promise!Next
<1> DEFINE s == result[a]
<1>1. at[a] = "holding" /\ Held(a) /\ s \in Slots /\ suspending = None
  BY DEF Core, CoroutinesAgree, Release, Held, Worker
<1>2. \A c \in Acquires : Held(c) /\ result[c] = s => c = a
  BY <1>1 DEF Core, OneOwner
<1>3. OwnersKnown /\ OwnersKnown'
  BY OwnerIs, OwnerIsNext DEF Core
<1>4. Owner[s] = a
  BY <1>1, <1>3 DEF OwnersKnown
<1>5. CASE ~closing /\ queue # << >>
  <2> DEFINE b == Head(queue)
  <2>1. b \in Acquires /\ Queued(b)
    BY <1>5, ChainTail DEF Core, TypeOK, Queued
  <2>2. result' = [result EXCEPT ![b] = s] /\ at' = [at EXCEPT ![a] = "done", ![b] = "resuming"]
    BY <1>5 DEF Release, Decide
  <2> HIDE DEF b, s
  <2>3. result[b] = None /\ ~Held(b) /\ b # a
    BY <1>1, <2>1, QueuedWaits
  <2>4. \A c \in Acquires : /\ Held(c)' <=> (Held(c) /\ c # a) \/ c = b
                            /\ result'[c] = IF c = b THEN s ELSE result[c]
    BY <1>1, <2>1, <2>2, <2>3 DEF Core, TypeOK, Held
  <2>5. Owner' = [Owner EXCEPT ![s] = b]
    <3>1. ASSUME NEW r \in Slots PROVE Owner'[r] = IF r = s THEN b ELSE Owner[r]
      <4>1. \A c \in Acquires : Owner'[r] = c <=> IF r = s THEN c = b ELSE Owner[r] = c
        BY <1>1, <1>2, <1>3, <2>1, <2>3, <2>4 DEF OwnersKnown, s
      <4>2. Owner'[r] \in Acquires \cup {None} /\ Owner[r] \in Acquires \cup {None}
        BY <1>3 DEF OwnersKnown
      <4> QED
        BY <2>1, <4>1, <4>2
    <3> QED
      BY <1>1, <1>3, <3>1 DEF OwnersKnown
  <2>6. Decided[b] = "undecided"
    BY <2>1, <2>3, DecidedIs
  <2>7. Decided' = [Decided EXCEPT ![a] = "returned", ![b] = "leased"]
    BY <1>1, <2>1, <2>3, <2>4 DEF Decided, s
  <2>8. Promise!GiveBack(a, s)
    BY <1>4, <2>1, <2>5, <2>6, <2>7 DEF Promise!GiveBack
  <2> QED
    BY <1>1, <2>8 DEF Promise!Next
<1>6. CASE ~(~closing /\ queue # << >>)
  <2>1. at' = [at EXCEPT ![a] = "done"] /\ UNCHANGED result
    BY <1>6 DEF Release
  <2> HIDE DEF s
  <2>2. \A c \in Acquires : Held(c)' <=> Held(c) /\ c # a
    BY <1>1, <2>1 DEF Core, TypeOK, Held
  <2>3. Owner' = [Owner EXCEPT ![s] = None]
    <3>1. ASSUME NEW r \in Slots PROVE Owner'[r] = IF r = s THEN None ELSE Owner[r]
      <4>1. \A c \in Acquires : Owner'[r] = c <=> r # s /\ Owner[r] = c
        BY <1>1, <1>2, <1>3, <2>1, <2>2 DEF OwnersKnown, s
      <4>2. Owner'[r] \in Acquires \cup {None} /\ Owner[r] \in Acquires \cup {None}
        BY <1>3 DEF OwnersKnown
      <4> QED
        BY <4>1, <4>2
    <3> QED
      BY <1>1, <1>3, <3>1 DEF OwnersKnown
  <2>4. Decided' = [Decided EXCEPT ![a] = "returned"]
    BY <1>1, <2>1, <2>2 DEF Decided, s
  <2>5. Promise!GiveBack(a, s)
    BY <1>4, <2>3, <2>4 DEF Promise!GiveBack
  <2> QED
    BY <1>1, <2>5 DEF Promise!Next
<1> QED
  BY <1>5, <1>6

\* Steps that decide nothing, and resumptions, are stutters of Leases.
LEMMA StutterMaps ==
    ASSUME Core, Core', UNCHANGED result,
           \A a \in Acquires : Held(a)' <=> Held(a)
    PROVE  UNCHANGED <<Owner, Decided>>
<1>1. Owner' = Owner
  BY SameOwners
<1>2. Decided' = Decided
  BY DEF Decided
<1> QED
  BY <1>1, <1>2

\* The steps that refuse one acquire, or find nothing to refuse.
LEMMA RefuseMaps ==
    ASSUME Core, Core', NEW a \in Acquires,
           \/ AcquireZero(a) \/ Suspend(a) \/ Expire(a) \/ RunPosted(a) \/ StopOnWorker(a)
    PROVE  Promise!Next \/ UNCHANGED <<Owner, Decided>>
<1>1. ASSUME NEW v \in Refusals, result[a] = None, result' = [result EXCEPT ![a] = v],
             \A b \in Acquires \ {a} : at'[b] = at[b]
      PROVE  Promise!Next
  <2>1. /\ result'[a] = v
        /\ \A b \in Acquires \ {a} : result'[b] = result[b]
    BY <1>1 DEF Core, TypeOK
  <2>2. \A b \in Acquires \ {a} : result'[b] = result[b] /\ (Held(b)' <=> Held(b))
    BY <1>1, <2>1 DEF Held
  <2>3. {a} \in SUBSET Acquires /\ \A b \in {a} : result[b] = None /\ result'[b] \in Refusals
    BY <1>1, <2>1
  <2> QED
    BY <2>2, <2>3, RefusalMaps
<1>2. Queued(a) => result[a] = None
  BY QueuedWaits
<1>3. CASE AcquireZero(a)
  <2>1. /\ result[a] = None /\ result' = [result EXCEPT ![a] = "timed_out"]
        /\ \A b \in Acquires \ {a} : at'[b] = at[b]
    BY <1>3 DEF AcquireZero, Core, TypeOK, CoroutinesAgree
  <2> QED
    BY <1>1, <2>1 DEF Refusals
<1>4. CASE Suspend(a)
  <2>1. result[a] = None /\ at[a] = "suspending" /\ \A b \in Acquires \ {a} : at'[b] = at[b]
    BY <1>4 DEF Suspend, Core, TypeOK, CoroutinesAgree
  <2>2. CASE a \in stop
    BY <1>1, <1>4, <2>1, <2>2 DEF Suspend, Decide, Refusals
  <2>3. CASE a \notin stop
    <3>1. UNCHANGED result /\ at'[a] = "waiting"
      BY <1>4, <2>3 DEF Suspend, Core, TypeOK
    <3>2. \A b \in Acquires : Held(b)' <=> Held(b)
      BY <2>1, <3>1 DEF Held
    <3> QED
      BY <3>1, <3>2, StutterMaps
  <2> QED
    BY <2>2, <2>3
<1>5. CASE Expire(a)
  <2>1. /\ result[a] = None /\ result' = [result EXCEPT ![a] = "timed_out"]
        /\ \A b \in Acquires \ {a} : at'[b] = at[b]
    BY <1>2, <1>5 DEF Expire, Decide, Core, TypeOK
  <2> QED
    BY <1>1, <2>1 DEF Refusals
<1>6. CASE RunPosted(a)
  <2>1. CASE Cancels(a)
    <3>1. /\ result[a] = None /\ result' = [result EXCEPT ![a] = "cancelled"]
          /\ \A b \in Acquires \ {a} : at'[b] = at[b]
      BY <1>2, <1>6, <2>1 DEF RunPosted, Cancels, Decide, Core, TypeOK
    <3> QED
      BY <1>1, <3>1 DEF Refusals
  <2>2. CASE ~Cancels(a)
    <3>1. UNCHANGED <<result, at>>
      BY <1>6, <2>2 DEF RunPosted
    <3> QED
      BY <3>1, StutterMaps DEF Held
  <2> QED
    BY <2>1, <2>2
<1>7. CASE StopOnWorker(a)
  <2>1. CASE a \in hooked /\ Queued(a)
    <3>1. /\ result[a] = None /\ result' = [result EXCEPT ![a] = "cancelled"]
          /\ \A b \in Acquires \ {a} : at'[b] = at[b]
      BY <1>2, <1>7, <2>1 DEF StopOnWorker, Decide, Defer
    <3> QED
      BY <1>1, <3>1 DEF Refusals
  <2>2. CASE ~(a \in hooked /\ Queued(a))
    <3>1. UNCHANGED <<result, at>>
      BY <1>7, <2>2 DEF StopOnWorker
    <3> QED
      BY <3>1, StutterMaps DEF Held
  <2> QED
    BY <2>1, <2>2
<1> QED
  BY <1>3, <1>4, <1>5, <1>6, <1>7

\* Closing refuses the whole queue at once.
LEMMA CloseMaps ==
    ASSUME Core, Core', Close
    PROVE  Promise!Next
<1> DEFINE as == {a \in Acquires : Queued(a)}
<1>1. /\ \A a \in as : result[a] = None /\ result'[a] = "closed"
      /\ \A a \in Acquires \ as : result'[a] = result[a] /\ at'[a] = at[a]
  BY QueuedWaits DEF Close, Defer, Queued
<1>2. \A a \in Acquires \ as : Held(a)' <=> Held(a)
  BY <1>1 DEF Held
<1> QED
  BY <1>1, <1>2, RefusalMaps DEF Refusals

\* The steps that give nobody a result.
LEMMA QuietMaps ==
    ASSUME Core, Core',
           \/ \E a \in Acquires : \/ AcquireTimerThrows(a) \/ Resume(a)
                                  \/ StopElsewhere(a) \/ CallbackPosts(a)
                                  \/ \E timed \in BOOLEAN : AcquireQueue(a, timed)
           \/ TimersStop \/ UNCHANGED vars
    PROVE  UNCHANGED <<Owner, Decided>>
<1>1. ASSUME NEW a \in Acquires,
             \/ AcquireTimerThrows(a) \/ \E timed \in BOOLEAN : AcquireQueue(a, timed)
      PROVE  UNCHANGED <<Owner, Decided>>
  <2>0. PICK p \in {"done", "suspending"} :
          at[a] = "cold" /\ UNCHANGED result /\ at' = [at EXCEPT ![a] = p]
    BY <1>1 DEF AcquireTimerThrows, AcquireQueue
  <2>1. at'[a] = p /\ \A b \in Acquires \ {a} : at'[b] = at[b]
    BY <2>0 DEF Core, TypeOK
  <2>2. \A b \in Acquires : Held(b)' <=> Held(b)
    BY <2>0, <2>1 DEF Held
  <2> QED
    BY <2>0, <2>2, StutterMaps
<1>2. ASSUME NEW a \in Acquires, Resume(a)
      PROVE  UNCHANGED <<Owner, Decided>>
  <2>1. /\ at[a] = "resuming" /\ UNCHANGED result
        /\ at'[a] = IF result[a] \in Slots THEN "holding" ELSE "done"
        /\ \A b \in Acquires \ {a} : at'[b] = at[b]
    BY <1>2 DEF Resume, Outcome, Core, TypeOK, CoroutinesAgree
  <2>2. \A b \in Acquires : Held(b)' <=> Held(b)
    BY <2>1 DEF Held
  <2> QED
    BY <2>1, <2>2, StutterMaps
<1>3. ASSUME \/ \E a \in Acquires : StopElsewhere(a) \/ CallbackPosts(a)
             \/ TimersStop \/ UNCHANGED vars
      PROVE  UNCHANGED <<Owner, Decided>>
  BY <1>3, OtherStep, StutterMaps DEF Held
<1> QED
  BY <1>1, <1>2, <1>3

\* The scheduler implements Leases: a committed acquisition is not replaced, a
\* slot has one owner at a time, and it passes from a free slot or from the
\* owner that gives it back (pool_lease_scheduler.h:39-62).
THEOREM LeasesRefined == Spec => Implements
<1>1. Core /\ [Next]_vars => [Promise!Next]_<<Owner, Decided>>
  <2> SUFFICES ASSUME Core, [Next]_vars
               PROVE  Promise!Next \/ UNCHANGED <<Owner, Decided>>
    OBVIOUS
  <2>1. Core'
    BY CoreStep
  <2> QED
    BY <2>1, AcquireNowMaps, ReleaseMaps, RefuseMaps, CloseMaps, QuietMaps DEF Next
<1>2. Spec => []Core
  BY LeaseInit, CoreStep, PTL DEF Spec
<1> QED
  BY <1>1, <1>2, RefineInit, PTL DEF Spec, Implements, Promise!Spec

-----------------------------------------------------------------------------
(* Task scopes                                                             *)

Frames == [at : Places, child : Children \cup {Nothing}, destroyed : BOOLEAN]
Stages == {"cold", "admitting", "running", "suspended", "completed", "retiring", "gone"}

-----------------------------------------------------------------------------
(* The stack of calls                                                       *)

\* A call makes its frame the innermost one.
LEMMA Push ==
    ASSUME NEW S, NEW s \in Seq(S), NEW f \in S
    PROVE  /\ <<f>> \o s \in Seq(S) /\ Len(<<f>> \o s) = Len(s) + 1
           /\ (<<f>> \o s)[1] = f
           /\ \A i \in 2..(Len(s) + 1) : (<<f>> \o s)[i] = s[i - 1]
OBVIOUS

\* A return uncovers the frame below.
LEMMA Pop ==
    ASSUME NEW S, NEW s \in Seq(S), s # << >>
    PROVE  /\ Head(s) = s[1] /\ s[1] \in S /\ Len(s) \in Nat /\ Len(s) >= 1
           /\ Tail(s) \in Seq(S) /\ Len(Tail(s)) = Len(s) - 1
           /\ \A i \in 1..(Len(s) - 1) : Tail(s)[i] = s[i + 1]
OBVIOUS

\* CallsAgree of any stack, stages of the children and life of the scope.
Agree(s, ch, al) ==
    /\ \A i \in 1..Len(s) :
          /\ s[i].at \in DOMAIN Stage => s[i].child \in Children /\ ch[s[i].child] = Stage[s[i].at]
          /\ s[i].at \in {"stop", "retire"} => i = Len(s)
          /\ s[i].destroyed <=> s[i].at = "retire" /\ ~al
    /\ \A i, j \in 1..Len(s) :
          s[i].at \in DOMAIN Stage /\ s[j].at \in DOMAIN Stage /\ s[i].child = s[j].child => i = j
    /\ \A c \in Children : ch[c] = "retiring" =>
          \E i \in 1..Len(s) : s[i].at = "retire" /\ s[i].child = c

\* CallsAgree as an operator of the stack and the children.
LEMMA AgreeIs == (CallsAgree <=> Agree(stack, child, alive)) /\ (CallsAgree' <=> Agree(stack', child', alive'))
BY DEF CallsAgree, Agree, OfChild

\* A frame that returns leaves the others in agreement, whatever becomes of the
\* child it was for.
LEMMA PopAgrees ==
    ASSUME NEW s \in Seq(Frames), s # << >>, NEW ch, NEW new, NEW al, Agree(s, ch, al),
           \A c \in Children : new[c] # ch[c] =>
               s[1].at \in DOMAIN Stage /\ c = s[1].child /\ new[c] # "retiring",
           s[1].at = "retire" => new[s[1].child] # "retiring"
    PROVE  Agree(Tail(s), new, al)
<1> DEFINE t == Tail(s)
<1>1. Len(s) \in Nat /\ Len(s) >= 1 /\ Len(t) = Len(s) - 1 /\ \A i \in 1..(Len(s) - 1) : t[i] = s[i + 1]
  BY Pop
<1> HIDE DEF t
<1>2. \A i \in 1..Len(t) : i + 1 \in 1..Len(s) /\ i + 1 # 1 /\ t[i] = s[i + 1]
  BY <1>1
<1>3. ASSUME NEW i \in 1..Len(t)
      PROVE  /\ t[i].at \in DOMAIN Stage => t[i].child \in Children /\ new[t[i].child] = Stage[t[i].at]
             /\ t[i].at \in {"stop", "retire"} => i = Len(t)
             /\ t[i].destroyed <=> t[i].at = "retire" /\ ~al
  <2>1. /\ t[i] = s[i + 1] /\ i + 1 \in 1..Len(s) /\ 1 \in 1..Len(s) /\ i + 1 # 1
        /\ i + 1 = Len(s) => i = Len(t)
    BY <1>1, <1>2
  <2>2. t[i].at \in DOMAIN Stage => t[i].child \in Children /\ ch[t[i].child] = Stage[t[i].at]
    BY <2>1 DEF Agree
  <2>3. t[i].at \in DOMAIN Stage /\ s[1].at \in DOMAIN Stage => t[i].child # s[1].child
    BY <2>1 DEF Agree
  <2>4. t[i].at \in DOMAIN Stage => new[t[i].child] = Stage[t[i].at]
    BY <2>2, <2>3
  <2>5. t[i].at \in {"stop", "retire"} => i = Len(t)
    BY <2>1 DEF Agree
  <2>6. t[i].destroyed <=> t[i].at = "retire" /\ ~al
    BY <2>1 DEF Agree
  <2> QED
    BY <2>2, <2>4, <2>5, <2>6
<1>4. \A i, j \in 1..Len(t) :
          t[i].at \in DOMAIN Stage /\ t[j].at \in DOMAIN Stage /\ t[i].child = t[j].child => i = j
  BY <1>1, <1>2 DEF Agree
<1>5. ASSUME NEW c \in Children, new[c] = "retiring"
      PROVE  \E i \in 1..Len(t) : t[i].at = "retire" /\ t[i].child = c
  <2>1. ch[c] = "retiring" /\ ~(s[1].at = "retire" /\ c = s[1].child)
    BY <1>5
  <2>2. PICK i \in 1..Len(s) : s[i].at = "retire" /\ s[i].child = c
    BY <2>1 DEF Agree
  <2>3. i # 1 /\ i - 1 \in 1..Len(t) /\ t[i - 1] = s[i]
    BY <1>1, <2>1, <2>2
  <2> QED
    BY <2>2, <2>3
<1> QED
  BY <1>3, <1>4, <1>5 DEF Agree, t

\* A new call of a child that has none, or of nobody, keeps the agreement.
LEMMA PushAgrees ==
    ASSUME NEW s \in Seq(Frames), NEW f \in Frames, NEW ch, NEW new, NEW al, Agree(s, ch, al),
           f.at \notin {"stop", "retire"}, ~f.destroyed,
           \A c \in Children : new[c] # ch[c] =>
               f.at \in DOMAIN Stage /\ c = f.child /\ ch[c] # "retiring",
           f.at \in DOMAIN Stage =>
               /\ f.child \in Children /\ new[f.child] = Stage[f.at] /\ new[f.child] # "retiring"
               /\ \A i \in 1..Len(s) : s[i].at \in DOMAIN Stage => s[i].child # f.child
    PROVE  Agree(<<f>> \o s, new, al)
<1> DEFINE t == <<f>> \o s
<1>1. Len(s) \in Nat /\ Len(t) = Len(s) + 1 /\ t[1] = f /\ \A i \in 2..(Len(s) + 1) : t[i] = s[i - 1]
  BY Push
<1> HIDE DEF t
<1>2. \A i \in 1..Len(t) : (i = 1 /\ t[i] = f) \/ (i - 1 \in 1..Len(s) /\ t[i] = s[i - 1] /\ i # 1)
  BY <1>1
<1>3. ASSUME NEW i \in 1..Len(t)
      PROVE  /\ t[i].at \in DOMAIN Stage => t[i].child \in Children /\ new[t[i].child] = Stage[t[i].at]
             /\ t[i].at \in {"stop", "retire"} => i = Len(t)
             /\ t[i].destroyed <=> t[i].at = "retire" /\ ~al
  <2>1. CASE t[i] = f
    BY <2>1
  <2>2. CASE i - 1 \in 1..Len(s) /\ t[i] = s[i - 1]
    <3>1. t[i].at \in DOMAIN Stage => t[i].child \in Children /\ ch[t[i].child] = Stage[t[i].at]
      BY <2>2 DEF Agree
    <3>2. t[i].at \in DOMAIN Stage /\ f.at \in DOMAIN Stage => t[i].child # f.child
      BY <2>2
    <3>3. t[i].at \in DOMAIN Stage => new[t[i].child] = Stage[t[i].at]
      BY <3>1, <3>2
    <3>4. t[i].at \in {"stop", "retire"} => i = Len(t)
      BY <1>1, <2>2 DEF Agree
    <3>5. t[i].destroyed <=> t[i].at = "retire" /\ ~al
      BY <2>2 DEF Agree
    <3> QED
      BY <3>1, <3>3, <3>4, <3>5
  <2> QED
    BY <1>2, <2>1, <2>2
<1>4. ASSUME NEW i \in 1..Len(t), NEW j \in 1..Len(t),
             t[i].at \in DOMAIN Stage, t[j].at \in DOMAIN Stage, t[i].child = t[j].child
      PROVE  i = j
  <2>1. CASE i = 1 \/ j = 1
    BY <1>1, <1>2, <1>4, <2>1
  <2>2. CASE i # 1 /\ j # 1
    <3>1. i - 1 \in 1..Len(s) /\ j - 1 \in 1..Len(s) /\ t[i] = s[i - 1] /\ t[j] = s[j - 1]
      BY <1>2, <2>2
    <3>2. i - 1 = j - 1
      BY <1>4, <3>1 DEF Agree
    <3> QED
      BY <3>2
  <2> QED
    BY <2>1, <2>2
<1>5. ASSUME NEW c \in Children, new[c] = "retiring"
      PROVE  \E i \in 1..Len(t) : t[i].at = "retire" /\ t[i].child = c
  <2>1. ch[c] = "retiring"
    BY <1>5
  <2>2. PICK i \in 1..Len(s) : s[i].at = "retire" /\ s[i].child = c
    BY <2>1 DEF Agree
  <2>3. i + 1 \in 1..Len(t) /\ t[i + 1] = s[i]
    BY <1>1
  <2> QED
    BY <2>2, <2>3
<1> QED
  BY <1>3, <1>4, <1>5 DEF Agree, t

\* The one frame of a handler that has just started.
LEMMA HandlerAgrees ==
    ASSUME NEW f \in Frames, f.at \in DOMAIN Stage, f.child \in Children,
           NEW ch, ch[f.child] = Stage[f.at], NEW al, f.destroyed <=> f.at = "retire" /\ ~al,
           \A c \in Children : ch[c] = "retiring" => c = f.child /\ f.at = "retire"
    PROVE  Agree(<<f>>, ch, al)
<1>1. Len(<<f>>) = 1 /\ <<f>>[1] = f /\ 1..1 = {1}
  OBVIOUS
<1> QED
  BY <1>1 DEF Agree

\* A scope that is idle has no child: active_ is zero and nothing retires.
LEMMA IdleIsEmpty ==
    ASSUME NEW s, NEW ch \in [Children -> Stages], Agree(s, ch, TRUE),
           Idle(Cardinality({c \in Children : ch[c] \in {"admitting", "running", "suspended", "completed"}}), s)
    PROVE  \A c \in Children : ch[c] \in {"cold", "gone"}
<1> DEFINE C == {c \in Children : ch[c] \in {"admitting", "running", "suspended", "completed"}}
<1>1. IsFiniteSet(C)
  BY FS_Subset
<1>2. C = {}
  BY <1>1, FS_EmptySet DEF Idle
<1>3. \A c \in Children : ch[c] # "retiring"
  BY DEF Agree, Idle, Retiring
<1> QED
  BY <1>2, <1>3 DEF Stages

-----------------------------------------------------------------------------
(* active_                                                                  *)

\* A child that is counted, or is not any more, changes the number by one.
LEMMA CountChild ==
    ASSUME NEW S, IsFiniteSet(S), NEW c
    PROVE  /\ Cardinality(S) \in Nat
           /\ c \notin S => Cardinality(S \cup {c}) = Cardinality(S) + 1
           /\ c \in S => Cardinality(S \ {c}) = Cardinality(S) - 1 /\ Cardinality(S) >= 1
<1>1. Cardinality(S) \in Nat
  BY FS_CardinalityType
<1>2. c \notin S => Cardinality(S \cup {c}) = Cardinality(S) + 1
  BY FS_AddElement
<1>3. c \in S => Cardinality(S \ {c}) = Cardinality(S) - 1
  BY FS_RemoveElement
<1>4. c \in S => Cardinality(S) # 0
  BY FS_EmptySet
<1> QED
  BY <1>1, <1>2, <1>3, <1>4

-----------------------------------------------------------------------------
(* The invariant without what follows from its other parts                  *)

SmallTypes ==
    /\ alive \in BOOLEAN /\ stopRequested \in BOOLEAN
    /\ lifecycle \in {"open", "joining", "joined"} /\ failure \in Failures \cup {Nothing}
    /\ source \in {"none", "live", "requested"} /\ outcome \in [Children -> Failures \cup {Nothing}]
    /\ failed \subseteq Failures /\ delivered \subseteq Failures /\ reported \subseteq Failures

ScopeCore ==
    /\ SmallTypes /\ stack \in Seq(Frames) /\ child \in [Children -> Stages]
    /\ JoinWaitsForAll /\ NothingTouchesTheDead /\ TokensAgree /\ FailuresTracked
    /\ Agree(stack, child, alive) /\ ActiveCounts

\* ScopeCore is ScopeInv with the bound on the count left to its proof.
LEMMA ScopeCoreIs == ScopeCore <=> ScopeInv
<1>1. ASSUME ScopeCore PROVE ScopeInv
  <2>1. IsFiniteSet(Counted) /\ Cardinality(Counted) <= Cardinality(Children)
    BY FS_Subset DEF Counted
  <2>2. Cardinality(Counted) \in Nat /\ Cardinality(Children) \in Nat
    BY <2>1, FS_CardinalityType
  <2>3. active \in 0..Cardinality(Children)
    BY <1>1, <2>1, <2>2 DEF ScopeCore, ActiveCounts
  <2>4. ScopeTypeOK
    BY <1>1, <2>3 DEF ScopeCore, SmallTypes, ScopeTypeOK, Frames, Stages
  <2>5. FailuresOwned
    BY <1>1 DEF ScopeCore, FailuresTracked, FailuresOwned
  <2> QED
    BY <1>1, <2>4, <2>5, AgreeIs DEF ScopeCore, ScopeInv
<1>2. ASSUME ScopeInv PROVE ScopeCore
  BY <1>2, AgreeIs DEF ScopeCore, ScopeInv, ScopeTypeOK, SmallTypes, Frames, Stages
<1> QED
  BY <1>1, <1>2

\* Nobody is admitted and nothing is called at the start.
LEMMA ScopeStarts == ScopeInit => ScopeCore
<1> SUFFICES ASSUME ScopeInit PROVE ScopeCore
  OBVIOUS
<1>1. SmallTypes
  BY DEF ScopeInit, SmallTypes
<1>2. stack \in Seq(Frames) /\ child \in [Children -> Stages]
  BY DEF ScopeInit, Stages
<1>3. JoinWaitsForAll /\ NothingTouchesTheDead /\ TokensAgree /\ FailuresTracked
  BY DEF ScopeInit, JoinWaitsForAll, NothingTouchesTheDead, TokensAgree, FailuresTracked
<1>4. Agree(stack, child, alive)
  BY DEF ScopeInit, Agree
<1>5. ActiveCounts
  <2>1. Counted = {}
    BY DEF ScopeInit, Counted
  <2> QED
    BY <2>1, FS_EmptySet DEF ScopeInit, ActiveCounts
<1> QED
  BY <1>1, <1>2, <1>3, <1>4, <1>5 DEF ScopeCore

\* The innermost call is one of spawn(), of a child or of finish(): the scope is
\* alive and not joined, and no other call is for the same child.
LEMMA TopCall ==
    ASSUME ScopeCore, NEW p \in {"alloc", "reject", "discard", "run", "stop"}, At(p)
    PROVE  /\ stack # << >> /\ Top = stack[1] /\ stack[1].at = p
           /\ Top.child \in Children /\ child[Top.child] = Stage[p] /\ Top.child \in Counted
           /\ alive /\ lifecycle # "joined"
<1>1. stack # << >> /\ Top = stack[1] /\ stack[1] \in Frames /\ 1 \in 1..Len(stack) /\ stack[1].at = p
  BY Pop DEF ScopeCore, At, Top
<1>2. p \in DOMAIN Stage /\ Stage[p] \in {"admitting", "running", "completed"}
  BY DEF Stage
<1>3. Top.child \in Children /\ child[Top.child] = Stage[p]
  BY <1>1, <1>2 DEF ScopeCore, Agree
<1>4. Top.child \in Counted /\ alive /\ lifecycle # "joined"
  BY <1>2, <1>3 DEF ScopeCore, Counted, NothingTouchesTheDead, JoinWaitsForAll
<1> QED
  BY <1>1, <1>3, <1>4

-----------------------------------------------------------------------------
(* Calls of user code                                                       *)

\* spawn() admits a child before it allocates.
LEMMA SpawnStep ==
    ASSUME ScopeCore, NEW c \in Children, Spawn(c)
    PROVE  ScopeCore'
<1>1. /\ alive /\ child[c] = "cold" /\ lifecycle = "open" /\ active' = active + 1
      /\ child' = [child EXCEPT ![c] = "admitting"] /\ stack' = <<Frame("alloc", c)>> \o stack
      /\ UNCHANGED <<alive, lifecycle, failure, stopRequested, source, outcome, failed, delivered, reported>>
  BY DEF Spawn, flags, history
<1> DEFINE f == Frame("alloc", c)
<1>2. f \in Frames /\ f.at = "alloc" /\ f.child = c /\ f.destroyed = FALSE
  BY DEF Frame, Frames, Places
<1> HIDE DEF f
<1>3. stack' \in Seq(Frames) /\ child' \in [Children -> Stages]
  BY <1>1, <1>2, Push DEF ScopeCore, Stages, f
<1>4. Agree(stack', child', alive')
  <2>1. \A i \in 1..Len(stack) : stack[i].at \in DOMAIN Stage => stack[i].child # c
    BY <1>1 DEF ScopeCore, Agree, Stage
  <2>2. /\ \A d \in Children : child'[d] # child[d] => d = c
        /\ child[c] # "retiring" /\ child'[c] = "admitting"
    BY <1>1 DEF ScopeCore
  <2>3. "alloc" \in DOMAIN Stage /\ Stage["alloc"] = "admitting"
    BY DEF Stage
  <2>4. Agree(<<f>> \o stack, child', alive)
    BY <1>2, <2>1, <2>2, <2>3, PushAgrees DEF ScopeCore
  <2> QED
    BY <1>1, <2>4 DEF f
<1>5. ActiveCounts'
  <2>1. Counted' = Counted \cup {c} /\ c \notin Counted
    BY <1>1 DEF ScopeCore, Counted
  <2>2. IsFiniteSet(Counted)
    BY FS_Subset DEF Counted
  <2> QED
    BY <1>1, <2>1, <2>2, CountChild DEF ScopeCore, ActiveCounts
<1>6. SmallTypes' /\ JoinWaitsForAll' /\ NothingTouchesTheDead' /\ TokensAgree' /\ FailuresTracked'
  BY <1>1 DEF ScopeCore, SmallTypes, JoinWaitsForAll, NothingTouchesTheDead, TokensAgree, FailuresTracked
<1> QED
  BY <1>3, <1>4, <1>5, <1>6 DEF ScopeCore

\* join() shuts admission.
LEMMA JoinStep ==
    ASSUME ScopeCore, Join
    PROVE  ScopeCore'
<1>1. /\ alive /\ lifecycle = "open"
      /\ UNCHANGED <<alive, active, failure, stopRequested, source, stack, child, outcome, failed, reported>>
  BY DEF Join, flags
<1>2. Counted' = Counted
  BY <1>1 DEF Counted
<1>3. CASE Idle(active, stack)
  <2>1. lifecycle' = "joined" /\ delivered' = delivered \cup Thrown(failure)
    BY <1>3 DEF Join
  <2>2. \A c \in Children : child[c] \in {"cold", "gone"}
    <3>1. alive = TRUE
      BY <1>1 DEF ScopeCore, SmallTypes
    <3> QED
      BY <1>3, <3>1, IdleIsEmpty DEF ScopeCore, ActiveCounts, Counted
  <2>3. SmallTypes' /\ JoinWaitsForAll' /\ NothingTouchesTheDead' /\ TokensAgree' /\ FailuresTracked'
    BY <1>1, <2>1, <2>2
       DEF ScopeCore, SmallTypes, JoinWaitsForAll, NothingTouchesTheDead, TokensAgree, FailuresTracked, Thrown
  <2> QED
    BY <1>1, <1>2, <2>3 DEF ScopeCore, ActiveCounts
<1>4. CASE ~Idle(active, stack)
  <2>1. lifecycle' = "joining" /\ delivered' = delivered
    BY <1>4 DEF Join
  <2>2. SmallTypes' /\ JoinWaitsForAll' /\ NothingTouchesTheDead' /\ TokensAgree' /\ FailuresTracked'
    BY <1>1, <2>1
       DEF ScopeCore, SmallTypes, JoinWaitsForAll, NothingTouchesTheDead, TokensAgree, FailuresTracked, Thrown
  <2> QED
    BY <1>1, <1>2, <2>2 DEF ScopeCore, ActiveCounts
<1> QED
  BY <1>3, <1>4

\* The stop callbacks run inside request_stop(), in a frame of nobody's.
LEMMA StopStep ==
    ASSUME ScopeCore, RequestStop \/ Token
    PROVE  ScopeCore'
<1>1. alive /\ UNCHANGED <<alive, active, lifecycle, failure, child, outcome, failed, delivered, reported>>
  BY DEF RequestStop, Token, history
<1>2. Counted' = Counted
  BY <1>1 DEF Counted
<1> DEFINE f == Frame("callback", Nothing)
<1>3. stack' = stack \/ stack' = <<f>> \o stack
  BY DEF RequestStop, Token
<1>4. f \in Frames /\ f.at = "callback" /\ f.destroyed = FALSE
  BY DEF Frame, Frames, Places
<1> HIDE DEF f
<1>5. stack' \in Seq(Frames)
  <2>1. stack \in Seq(Frames)
    BY DEF ScopeCore
  <2>2. <<f>> \o stack \in Seq(Frames)
    BY <1>4, <2>1, Push
  <2> QED
    BY <1>3, <2>1, <2>2
<1>6. Agree(stack', child', alive')
  <2>1. Agree(<<f>> \o stack, child, alive)
    <3>1. "callback" \notin DOMAIN Stage
      BY DEF Stage
    <3> QED
      BY <1>4, <3>1, PushAgrees DEF ScopeCore
  <2> QED
    BY <1>1, <1>3, <2>1 DEF ScopeCore
<1>7. SmallTypes' /\ TokensAgree'
  <2>1. CASE RequestStop
    BY <1>1, <2>1 DEF ScopeCore, SmallTypes, TokensAgree, RequestStop, StopsSource
  <2>2. CASE Token
    BY <1>1, <2>2 DEF ScopeCore, SmallTypes, TokensAgree, Token
  <2> QED
    BY <2>1, <2>2
<1>8. JoinWaitsForAll' /\ NothingTouchesTheDead' /\ FailuresTracked'
  BY <1>1 DEF ScopeCore, JoinWaitsForAll, NothingTouchesTheDead, FailuresTracked
<1> QED
  BY <1>1, <1>2, <1>5, <1>6, <1>7, <1>8 DEF ScopeCore, ActiveCounts

\* Destruction under its contract leaves only calls that are done with the
\* scope, and the retirement in progress learns of it.
LEMMA DestroyStep ==
    ASSUME ScopeCore, Destroy
    PROVE  ScopeCore'
<1>1. /\ alive /\ active = 0 /\ lifecycle # "joining" /\ alive' = FALSE
      /\ stack' = [i \in 1..Len(stack) |-> [stack[i] EXCEPT !.destroyed = stack[i].at = "retire"]]
      /\ reported' = reported \cup (IF lifecycle = "open" THEN Thrown(failure) ELSE {})
      /\ UNCHANGED <<active, lifecycle, failure, stopRequested, source, child, outcome, failed, delivered>>
  BY DEF Destroy, flags
<1>2. Counted' = Counted /\ Counted = {}
  <2>1. IsFiniteSet(Counted)
    BY FS_Subset DEF Counted
  <2>2. Cardinality(Counted) = 0
    BY <1>1 DEF ScopeCore, ActiveCounts
  <2> QED
    BY <1>1, <2>1, <2>2, FS_EmptySet DEF Counted
<1>3. \A c \in Children : child[c] \in {"cold", "retiring", "gone"}
  BY <1>2 DEF ScopeCore, Counted, Stages
<1>4. /\ Len(stack) \in Nat /\ stack' \in Seq(Frames) /\ Len(stack') = Len(stack)
      /\ \A i \in 1..Len(stack) :
            /\ stack'[i].at = stack[i].at /\ stack'[i].child = stack[i].child
            /\ stack'[i].destroyed = (stack[i].at = "retire")
  <2>1. ASSUME NEW i \in 1..Len(stack)
        PROVE  /\ stack'[i] \in Frames
               /\ stack'[i].at = stack[i].at /\ stack'[i].child = stack[i].child
               /\ stack'[i].destroyed = (stack[i].at = "retire")
    <3>1. stack[i] \in Frames
      BY DEF ScopeCore
    <3>2. stack'[i] = [stack[i] EXCEPT !.destroyed = stack[i].at = "retire"]
      BY <1>1
    <3>3. (stack[i].at = "retire") \in BOOLEAN
      OBVIOUS
    <3> QED
      BY <3>1, <3>2, <3>3 DEF Frames
  <2>2. Len(stack) \in Nat
    BY DEF ScopeCore
  <2>3. stack' \in [1..Len(stack) -> Frames]
    BY <1>1, <2>1
  <2> QED
    BY <2>1, <2>2, <2>3, IsASeq, LenProperties
<1>5. Agree(stack', child', alive')
  <2>0. child' = child
    BY <1>1
  <2>1. \A i \in 1..Len(stack') :
            stack'[i].destroyed <=> stack'[i].at = "retire" /\ ~alive'
    BY <1>1, <1>4
  <2>2. \A i \in 1..Len(stack') :
            /\ stack'[i].at \in DOMAIN Stage =>
                  stack'[i].child \in Children /\ child'[stack'[i].child] = Stage[stack'[i].at]
            /\ stack'[i].at \in {"stop", "retire"} => i = Len(stack')
    BY <1>4, <2>0 DEF ScopeCore, Agree
  <2>3. \A i, j \in 1..Len(stack') :
            stack'[i].at \in DOMAIN Stage /\ stack'[j].at \in DOMAIN Stage
              /\ stack'[i].child = stack'[j].child => i = j
    BY <1>4 DEF ScopeCore, Agree
  <2>4. \A c \in Children : child'[c] = "retiring" =>
            \E i \in 1..Len(stack') : stack'[i].at = "retire" /\ stack'[i].child = c
    BY <1>4, <2>0 DEF ScopeCore, Agree
  <2> QED
    BY <2>1, <2>2, <2>3, <2>4 DEF Agree
<1>6. NothingTouchesTheDead'
  <2>1. ASSUME NEW i \in 1..Len(stack')
        PROVE  stack'[i].at \in {"joiner", "callback"} \/ (stack'[i].at = "retire" /\ stack'[i].destroyed)
    <3>0. i \in 1..Len(stack)
      BY <1>4
    <3>1. stack[i] \in Frames /\ stack[i].at \in Places
      <4>1. stack[i] \in Frames
        BY <3>0 DEF ScopeCore
      <4> QED
        BY <4>1 DEF Frames
    <3>2. stack[i].at \in DOMAIN Stage => Stage[stack[i].at] \in {"cold", "retiring", "gone"}
      BY <1>3, <3>0 DEF ScopeCore, Agree
    <3>3. stack[i].at \in {"joiner", "callback", "retire"}
      BY <3>1, <3>2 DEF Stage, Places
    <3> QED
      BY <1>4, <3>3
  <2> QED
    BY <1>1, <1>3, <2>1 DEF NothingTouchesTheDead
<1>7. SmallTypes' /\ JoinWaitsForAll' /\ TokensAgree' /\ FailuresTracked'
  BY <1>1 DEF ScopeCore, SmallTypes, JoinWaitsForAll, TokensAgree, FailuresTracked, Thrown
<1> QED
  BY <1>1, <1>2, <1>4, <1>5, <1>6, <1>7 DEF ScopeCore, ActiveCounts

-----------------------------------------------------------------------------
(* Returns to the scope                                                     *)

\* The frame on top becomes another one of the same child.
LEMMA ReplaceAgrees ==
    ASSUME ScopeCore, stack # << >>, NEW g \in Frames, stack[1].at \in DOMAIN Stage \ {"stop", "retire"},
           g.at \in DOMAIN Stage \ {"stop", "retire"}, g.child = stack[1].child, ~g.destroyed,
           NEW new, new[g.child] = Stage[g.at],
           \A c \in Children : c # g.child => new[c] = child[c]
    PROVE  /\ <<g>> \o Tail(stack) \in Seq(Frames)
           /\ Agree(<<g>> \o Tail(stack), new, alive)
<1>1. /\ Tail(stack) \in Seq(Frames) /\ 1 \in 1..Len(stack) /\ Len(stack) \in Nat
      /\ Len(Tail(stack)) = Len(stack) - 1
      /\ \A i \in 1..(Len(stack) - 1) : Tail(stack)[i] = stack[i + 1]
  BY Pop DEF ScopeCore
<1>2. Stage[g.at] \in {"admitting", "running"} /\ Stage[stack[1].at] \in {"admitting", "running"}
  BY DEF Stage
<1>3. g.child \in Children /\ child[g.child] = Stage[stack[1].at]
  BY <1>1 DEF ScopeCore, Agree
<1>4. Agree(Tail(stack), new, alive)
  BY <1>2, PopAgrees DEF ScopeCore
<1>5. ASSUME NEW i \in 1..Len(Tail(stack)), Tail(stack)[i].at \in DOMAIN Stage
      PROVE  Tail(stack)[i].child # g.child
  <2>1. i + 1 \in 1..Len(stack) /\ i + 1 # 1 /\ Tail(stack)[i] = stack[i + 1]
    BY <1>1
  <2> QED
    BY <1>1, <1>5, <2>1 DEF ScopeCore, Agree
<1>6. Agree(<<g>> \o Tail(stack), new, alive)
  BY <1>1, <1>2, <1>3, <1>4, <1>5, PushAgrees
<1> QED
  BY <1>1, <1>6, Push

\* The node is there: the child runs, or goes again because a join started.
LEMMA AllocatedStep ==
    ASSUME ScopeCore, Allocated \/ AllocationThrows
    PROVE  ScopeCore'
<1> DEFINE c == Top.child
<1>1. At("alloc")
  BY DEF Allocated, AllocationThrows
<1>2. /\ stack # << >> /\ Top = stack[1] /\ stack[1].at = "alloc"
      /\ c \in Children /\ child[c] = Stage["alloc"] /\ c \in Counted /\ alive /\ lifecycle # "joined"
  BY <1>1, TopCall
<1>3. UNCHANGED <<alive, active, lifecycle, failure, stopRequested, source, outcome, failed, delivered, reported>>
  BY DEF Allocated, AllocationThrows, flags, history
<1>4. PICK p \in {"run", "reject", "discard"} :
        /\ stack' = <<Frame(p, c)>> \o Tail(stack)
        /\ child' = [child EXCEPT ![c] = Stage[p]]
  <2>1. Stage["run"] = "running" /\ Stage["reject"] = "admitting" /\ Stage["discard"] = "admitting"
        /\ Stage["alloc"] = "admitting"
    BY DEF Stage
  <2>2. child = [child EXCEPT ![c] = "admitting"]
    BY <1>2, <2>1 DEF ScopeCore
  <2> QED
    BY <2>1, <2>2 DEF Allocated, AllocationThrows
<1> DEFINE g == Frame(p, c)
<1>5. g \in Frames /\ g.at = p /\ g.child = c /\ g.destroyed = FALSE
  BY <1>2 DEF Frame, Frames, Places
<1> HIDE DEF g, c
<1>6. p \in DOMAIN Stage \ {"stop", "retire"} /\ "alloc" \in DOMAIN Stage \ {"stop", "retire"}
      /\ Stage[p] \in {"admitting", "running"}
  BY DEF Stage
<1>7. child' \in [Children -> Stages] /\ child'[c] = Stage[p] /\ \A d \in Children : d # c => child'[d] = child[d]
  BY <1>2, <1>4, <1>6 DEF ScopeCore, Stages
<1>8. stack' \in Seq(Frames) /\ Agree(stack', child', alive')
  <2>1. <<g>> \o Tail(stack) \in Seq(Frames) /\ Agree(<<g>> \o Tail(stack), child', alive)
    BY <1>2, <1>5, <1>6, <1>7, ReplaceAgrees DEF c
  <2> QED
    BY <1>3, <1>4, <2>1 DEF g
<1>9. Counted' = Counted
  BY <1>2, <1>6, <1>7 DEF Counted
<1>10. SmallTypes' /\ JoinWaitsForAll' /\ NothingTouchesTheDead' /\ TokensAgree' /\ FailuresTracked'
  BY <1>2, <1>3 DEF ScopeCore, SmallTypes, JoinWaitsForAll, NothingTouchesTheDead, TokensAgree, FailuresTracked
<1> QED
  BY <1>3, <1>7, <1>8, <1>9, <1>10 DEF ScopeCore, ActiveCounts

\* resume_join_if_idle(): the join ends only when every child is gone, and
\* takes the failure that was kept for it.
LEMMA ResumeJoin ==
    ASSUME ScopeCore, stack # << >>, alive, NEW count, ResumeJoinIfIdle(count),
           child' \in [Children -> Stages], Agree(Tail(stack), child', alive),
           count = Cardinality(Counted'), lifecycle # "joined",
           UNCHANGED <<alive, failure, stopRequested, source, outcome, failed, reported>>
    PROVE  ScopeCore'
<1> DEFINE calls == Tail(stack)
           resumes == Idle(count, calls) /\ lifecycle = "joining"
           f == Frame("joiner", Nothing)
<1>1. /\ active' = count /\ lifecycle' = (IF resumes THEN "joined" ELSE lifecycle)
      /\ delivered' = (IF resumes THEN delivered \cup Thrown(failure) ELSE delivered)
      /\ stack' = (IF resumes THEN <<f>> \o calls ELSE calls)
  BY DEF ResumeJoinIfIdle
<1>2. calls \in Seq(Frames)
  BY Pop DEF ScopeCore
<1>3. f \in Frames /\ f.at = "joiner" /\ f.destroyed = FALSE /\ "joiner" \notin DOMAIN Stage
  BY DEF Frame, Frames, Places, Stage
<1>4. resumes => \A c \in Children : child'[c] \in {"cold", "gone"}
  <2>1. alive = TRUE
    BY DEF ScopeCore, SmallTypes
  <2> QED
    BY <2>1, IdleIsEmpty DEF Counted
<1> HIDE DEF f, calls, resumes
<1>5. stack' \in Seq(Frames)
  BY <1>1, <1>2, <1>3, Push
<1>6. Agree(<<f>> \o calls, child', alive)
  <2>1. Agree(calls, child', alive)
    BY DEF calls
  <2> QED
    BY <1>2, <1>3, <2>1, PushAgrees
<1>7. Agree(stack', child', alive')
  BY <1>1, <1>6 DEF calls
<1>8. JoinWaitsForAll'
  BY <1>1, <1>4 DEF ScopeCore, JoinWaitsForAll
<1>9. SmallTypes' /\ NothingTouchesTheDead' /\ TokensAgree' /\ FailuresTracked'
  BY <1>1 DEF ScopeCore, SmallTypes, NothingTouchesTheDead, TokensAgree, FailuresTracked, Thrown
<1> QED
  BY <1>1, <1>5, <1>7, <1>8, <1>9 DEF ScopeCore, ActiveCounts

\* A spawn that failed counts its child out and lets a join go on.
LEMMA SpawnFailsStep ==
    ASSUME ScopeCore, SpawnFails
    PROVE  ScopeCore'
<1> DEFINE c == Top.child
<1>1. PICK p \in {"reject", "discard"} : At(p)
  BY DEF SpawnFails
<1>2. /\ stack # << >> /\ Top = stack[1] /\ stack[1].at = p
      /\ c \in Children /\ child[c] = Stage[p] /\ c \in Counted /\ alive /\ lifecycle # "joined"
  BY <1>1, TopCall
<1>3. /\ child' = [child EXCEPT ![c] = "gone"] /\ ResumeJoinIfIdle(active - 1)
      /\ UNCHANGED <<alive, failure, stopRequested, source, outcome, failed, reported>>
  BY DEF SpawnFails, flags
<1> HIDE DEF c
<1>4. child' \in [Children -> Stages] /\ child'[c] = "gone" /\ \A d \in Children : d # c => child'[d] = child[d]
  BY <1>2, <1>3 DEF ScopeCore, Stages
<1>5. Agree(Tail(stack), child', alive)
  <2>1. p \in DOMAIN Stage
    BY DEF Stage
  <2> QED
    BY <1>2, <1>4, <2>1, PopAgrees DEF ScopeCore, c
<1>6. active - 1 = Cardinality(Counted')
  <2>1. Counted' = Counted \ {c}
    BY <1>4 DEF Counted
  <2>2. IsFiniteSet(Counted)
    BY FS_Subset DEF Counted
  <2> QED
    BY <1>2, <2>1, <2>2, CountChild DEF ScopeCore, ActiveCounts
<1> QED
  BY <1>2, <1>3, <1>4, <1>5, <1>6, ResumeJoin

\* A child runs until it suspends or completes; it stays counted.
LEMMA RunStep ==
    ASSUME ScopeCore, Suspends \/ \E c \in Children : Completes(c)
    PROVE  ScopeCore'
<1> DEFINE c == Top.child
<1>1. At("run")
  BY DEF Suspends, Completes
<1>2. /\ stack # << >> /\ Top = stack[1] /\ stack[1].at = "run"
      /\ c \in Children /\ child[c] = Stage["run"] /\ c \in Counted /\ alive /\ lifecycle # "joined"
  BY <1>1, TopCall
<1>3. /\ stack' = Tail(stack)
      /\ UNCHANGED <<alive, active, lifecycle, failure, stopRequested, source, failed, delivered, reported>>
  BY DEF Suspends, Completes, flags, history
<1>4. PICK p \in {"suspended", "completed"} : child' = [child EXCEPT ![c] = p]
  BY DEF Suspends, Completes
<1>5. outcome' \in [Children -> Failures \cup {Nothing}]
  BY DEF Suspends, Completes, ScopeCore, SmallTypes
<1> HIDE DEF c
<1>6. child' \in [Children -> Stages] /\ child'[c] = p /\ \A d \in Children : d # c => child'[d] = child[d]
  BY <1>2, <1>4 DEF ScopeCore, Stages
<1>7. stack' \in Seq(Frames)
  BY <1>2, <1>3, Pop DEF ScopeCore
<1>8. Agree(stack', child', alive')
  <2>1. "run" \in DOMAIN Stage
    BY DEF Stage
  <2>2. Agree(Tail(stack), child', alive)
    BY <1>2, <1>6, <2>1, PopAgrees DEF ScopeCore, c
  <2> QED
    BY <1>3, <2>2
<1>9. Counted' = Counted
  BY <1>2, <1>6 DEF Counted
<1>10. SmallTypes' /\ JoinWaitsForAll' /\ NothingTouchesTheDead' /\ TokensAgree' /\ FailuresTracked'
  BY <1>2, <1>3, <1>5 DEF ScopeCore, SmallTypes, JoinWaitsForAll, NothingTouchesTheDead, TokensAgree, FailuresTracked
<1> QED
  BY <1>3, <1>6, <1>7, <1>8, <1>9, <1>10 DEF ScopeCore, ActiveCounts

\* A suspended child is resumed by a handler of the worker.
LEMMA ResumesStep ==
    ASSUME ScopeCore, NEW c \in Children, Resumes(c)
    PROVE  ScopeCore'
<1>1. /\ stack = << >> /\ child[c] = "suspended"
      /\ child' = [child EXCEPT ![c] = "running"] /\ stack' = <<Frame("run", c)>>
      /\ UNCHANGED <<alive, active, lifecycle, failure, stopRequested, source, outcome, failed, delivered, reported>>
  BY DEF Resumes, flags, history
<1> DEFINE f == Frame("run", c)
<1>2. f \in Frames /\ f.at = "run" /\ f.child = c /\ f.destroyed = FALSE
  BY DEF Frame, Frames, Places
<1>3. "run" \in DOMAIN Stage /\ Stage["run"] = "running"
  BY DEF Stage
<1>4. alive /\ lifecycle # "joined"
  BY <1>1 DEF ScopeCore, NothingTouchesTheDead, JoinWaitsForAll
<1>5. \A d \in Children : child[d] # "retiring"
  BY <1>1 DEF ScopeCore, Agree
<1>6. child' \in [Children -> Stages] /\ child'[c] = "running" /\ \A d \in Children : d # c => child'[d] = child[d]
  BY <1>1 DEF ScopeCore, Stages
<1> HIDE DEF f
<1>7. stack' \in Seq(Frames)
  BY <1>1, <1>2 DEF f
<1>8. Agree(stack', child', alive')
  <2>1. \A d \in Children : child'[d] # "retiring"
    BY <1>5, <1>6
  <2>2. Agree(<<f>>, child', alive)
    BY <1>2, <1>3, <1>6, <2>1, HandlerAgrees
  <2> QED
    BY <1>1, <2>2 DEF f
<1>9. Counted' = Counted
  BY <1>1, <1>6 DEF Counted
<1>10. SmallTypes' /\ JoinWaitsForAll' /\ NothingTouchesTheDead' /\ TokensAgree' /\ FailuresTracked'
  BY <1>1, <1>4 DEF ScopeCore, SmallTypes, JoinWaitsForAll, NothingTouchesTheDead, TokensAgree, FailuresTracked
<1> QED
  BY <1>1, <1>6, <1>7, <1>8, <1>9, <1>10 DEF ScopeCore, ActiveCounts

\* The retirement of a completed child counts it out and opens its frame.
LEMMA RetireAgrees ==
    ASSUME ScopeCore, alive, NEW c \in Children, child[c] = "completed", Retire(c), alive' = alive,
           \A d \in Children : child[d] # "retiring"
    PROVE  /\ stack' \in Seq(Frames) /\ child' \in [Children -> Stages]
           /\ Agree(stack', child', alive') /\ ActiveCounts'
<1> DEFINE f == Frame("retire", c)
<1>1. active' = active - 1 /\ stack' = <<f>> /\ child' = [child EXCEPT ![c] = "retiring"]
  BY DEF Retire
<1>2. f \in Frames /\ f.at = "retire" /\ f.child = c /\ f.destroyed = FALSE
  BY DEF Frame, Frames, Places
<1>3. "retire" \in DOMAIN Stage /\ Stage["retire"] = "retiring"
  BY DEF Stage
<1>4. child' \in [Children -> Stages] /\ child'[c] = "retiring" /\ \A d \in Children : d # c => child'[d] = child[d]
  BY <1>1 DEF ScopeCore, Stages
<1> HIDE DEF f
<1>5. stack' \in Seq(Frames)
  BY <1>1, <1>2
<1>6. Agree(stack', child', alive')
  BY <1>1, <1>2, <1>3, <1>4, HandlerAgrees
<1>7. ActiveCounts'
  <2>1. Counted' = Counted \ {c} /\ c \in Counted
    BY <1>4 DEF Counted
  <2>2. IsFiniteSet(Counted)
    BY FS_Subset DEF Counted
  <2> QED
    BY <1>1, <2>1, <2>2, CountChild DEF ScopeCore, ActiveCounts
<1> QED
  BY <1>4, <1>5, <1>6, <1>7

\* finish(): the failure is kept or reported before the child retires.
LEMMA FinishStep ==
    ASSUME ScopeCore, NEW c \in Children, Finish(c)
    PROVE  ScopeCore'
<1> DEFINE x == outcome[c]
<1>1. /\ stack = << >> /\ child[c] = "completed" /\ failed' = failed \cup Thrown(x)
      /\ UNCHANGED <<alive, lifecycle, outcome, delivered>>
  BY DEF Finish
<1>2. alive /\ lifecycle # "joined" /\ x \in Failures \cup {Nothing} /\ \A d \in Children : child[d] # "retiring"
  BY <1>1 DEF ScopeCore, NothingTouchesTheDead, JoinWaitsForAll, Agree, SmallTypes
<1>3. JoinWaitsForAll' /\ NothingTouchesTheDead'
  BY <1>1, <1>2 DEF JoinWaitsForAll, NothingTouchesTheDead
<1>4. /\ SmallTypes' /\ TokensAgree' /\ FailuresTracked'
  <2>1. CASE x # Nothing /\ failure = Nothing
    <3>1. failure' = x /\ StopsSource /\ reported' = reported
      BY <2>1 DEF Finish
    <3> QED
      BY <1>1, <1>2, <2>1, <3>1 DEF ScopeCore, SmallTypes, TokensAgree, FailuresTracked, StopsSource, Thrown
  <2>2. CASE ~(x # Nothing /\ failure = Nothing)
    <3>1. /\ reported' = reported \cup (Thrown(x) \ {failure})
          /\ UNCHANGED <<failure, stopRequested, source>>
      BY <2>2 DEF Finish, flags
    <3> QED
      BY <1>1, <1>2, <2>2, <3>1 DEF ScopeCore, SmallTypes, TokensAgree, FailuresTracked, Thrown
  <2> QED
    BY <2>1, <2>2
<1>5. CASE Retire(c)
  <2>1. /\ stack' \in Seq(Frames) /\ child' \in [Children -> Stages]
        /\ Agree(stack', child', alive') /\ ActiveCounts'
    BY <1>1, <1>2, <1>5, RetireAgrees
  <2> QED
    BY <1>3, <1>4, <2>1 DEF ScopeCore
<1>6. CASE stack' = <<Frame("stop", c)>> /\ UNCHANGED <<active, child>>
  <2> DEFINE f == Frame("stop", c)
  <2>1. f \in Frames /\ f.at = "stop" /\ f.child = c /\ f.destroyed = FALSE
    BY DEF Frame, Frames, Places
  <2>2. "stop" \in DOMAIN Stage /\ Stage["stop"] = "completed"
    BY DEF Stage
  <2> HIDE DEF f
  <2>3. stack' \in Seq(Frames)
    BY <1>6, <2>1 DEF f
  <2>4. Agree(<<f>>, child, alive)
    BY <1>1, <1>2, <2>1, <2>2, HandlerAgrees
  <2>5. Agree(stack', child', alive')
    BY <1>1, <1>6, <2>4 DEF f
  <2>6. ActiveCounts'
    BY <1>6 DEF ScopeCore, ActiveCounts, Counted
  <2> QED
    BY <1>3, <1>4, <1>6, <2>3, <2>5, <2>6 DEF ScopeCore
<1> QED
  BY <1>5, <1>6 DEF Finish

\* The stop callbacks have returned: the child that failed retires.
LEMMA StopReturnsStep ==
    ASSUME ScopeCore, StopReturns
    PROVE  ScopeCore'
<1> DEFINE c == Top.child
<1>1. /\ At("stop") /\ Retire(c)
      /\ UNCHANGED <<alive, lifecycle, failure, stopRequested, source, outcome, failed, delivered, reported>>
  BY DEF StopReturns, flags, history
<1>2. /\ stack # << >> /\ Top = stack[1] /\ stack[1].at = "stop"
      /\ c \in Children /\ child[c] = Stage["stop"] /\ alive /\ lifecycle # "joined"
  BY <1>1, TopCall
<1>3. child[c] = "completed"
  BY <1>2 DEF Stage
<1> HIDE DEF c
<1>4. \A d \in Children : child[d] # "retiring"
  <2>1. 1 \in 1..Len(stack)
    BY <1>2, Pop DEF ScopeCore
  <2>2. 1 = Len(stack)
    BY <1>2, <2>1 DEF ScopeCore, Agree
  <2> QED
    BY <1>2, <2>1, <2>2 DEF ScopeCore, Agree
<1>5. /\ stack' \in Seq(Frames) /\ child' \in [Children -> Stages]
      /\ Agree(stack', child', alive') /\ ActiveCounts'
  BY <1>1, <1>2, <1>3, <1>4, RetireAgrees
<1>6. SmallTypes' /\ JoinWaitsForAll' /\ NothingTouchesTheDead' /\ TokensAgree' /\ FailuresTracked'
  BY <1>1, <1>2 DEF ScopeCore, SmallTypes, JoinWaitsForAll, NothingTouchesTheDead, TokensAgree, FailuresTracked
<1> QED
  BY <1>5, <1>6 DEF ScopeCore

\* A call that is over leaves the calls below it as they were.
LEMMA TailOfDead ==
    ASSUME ScopeCore, stack # << >>
    PROVE  ~alive => \A i \in 1..Len(Tail(stack)) :
                        \/ Tail(stack)[i].at \in {"joiner", "callback"}
                        \/ Tail(stack)[i].at = "retire" /\ Tail(stack)[i].destroyed
<1> SUFFICES ASSUME ~alive, NEW i \in 1..Len(Tail(stack))
             PROVE  \/ Tail(stack)[i].at \in {"joiner", "callback"}
                    \/ Tail(stack)[i].at = "retire" /\ Tail(stack)[i].destroyed
  OBVIOUS
<1>1. i + 1 \in 1..Len(stack) /\ Tail(stack)[i] = stack[i + 1]
  BY Pop DEF ScopeCore
<1> QED
  BY <1>1 DEF ScopeCore, NothingTouchesTheDead

\* The retirement is over: nothing is left to touch if the scope went meanwhile,
\* else a join that waited for it goes on.
LEMMA RetiredStep ==
    ASSUME ScopeCore, Retired
    PROVE  ScopeCore'
<1> DEFINE c == Top.child
<1>1. /\ stack # << >> /\ Top = stack[1] /\ stack[1] \in Frames /\ 1 \in 1..Len(stack)
      /\ stack[1].at = "retire" /\ child' = [child EXCEPT ![c] = "gone"]
      /\ UNCHANGED <<alive, failure, stopRequested, source, outcome, failed, reported>>
  BY Pop DEF ScopeCore, Retired, At, Top, flags
<1>2. "retire" \in DOMAIN Stage /\ Stage["retire"] = "retiring"
  BY DEF Stage
<1>3. c \in Children /\ child[c] = "retiring" /\ (stack[1].destroyed <=> ~alive)
  BY <1>1, <1>2 DEF ScopeCore, Agree
<1>4. lifecycle # "joined"
  BY <1>3 DEF ScopeCore, JoinWaitsForAll
<1> HIDE DEF c
<1>5. child' \in [Children -> Stages] /\ child'[c] = "gone" /\ \A d \in Children : d # c => child'[d] = child[d]
  BY <1>1, <1>3 DEF ScopeCore, Stages
<1>6. Agree(Tail(stack), child', alive) /\ Tail(stack) \in Seq(Frames)
  <2>1. Agree(Tail(stack), child', alive)
    BY <1>1, <1>2, <1>5, PopAgrees DEF ScopeCore, c
  <2> QED
    BY <1>1, <2>1, Pop DEF ScopeCore
<1>7. Counted' = Counted
  BY <1>3, <1>5 DEF Counted
<1>8. CASE stack[1].destroyed
  <2>1. stack' = Tail(stack) /\ UNCHANGED <<active, lifecycle, delivered>>
    BY <1>1, <1>8 DEF Retired
  <2>2. NothingTouchesTheDead'
    BY <1>1, <1>3, <1>5, <1>8, <2>1, TailOfDead DEF ScopeCore, NothingTouchesTheDead
  <2>3. SmallTypes' /\ JoinWaitsForAll' /\ TokensAgree' /\ FailuresTracked'
    BY <1>1, <1>4, <2>1 DEF ScopeCore, SmallTypes, JoinWaitsForAll, TokensAgree, FailuresTracked
  <2> QED
    BY <1>1, <1>5, <1>6, <1>7, <2>1, <2>2, <2>3 DEF ScopeCore, ActiveCounts
<1>9. CASE ~stack[1].destroyed
  <2>1. ResumeJoinIfIdle(active)
    BY <1>1, <1>9 DEF Retired
  <2>2. active = Cardinality(Counted')
    BY <1>7 DEF ScopeCore, ActiveCounts
  <2> QED
    BY <1>1, <1>3, <1>4, <1>5, <1>6, <1>9, <2>1, <2>2, ResumeJoin
<1> QED
  BY <1>8, <1>9

\* The joiner or a stop callback returns.
LEMMA ReturnsStep ==
    ASSUME ScopeCore, Returns
    PROVE  ScopeCore'
<1>1. /\ stack # << >> /\ Top = stack[1] /\ stack[1].at \in {"joiner", "callback"} /\ stack' = Tail(stack)
      /\ UNCHANGED <<alive, active, lifecycle, failure, stopRequested, source, child, outcome,
                     failed, delivered, reported>>
  BY Pop DEF ScopeCore, Returns, At, Top, flags, history
<1>2. Agree(Tail(stack), child, alive) /\ Tail(stack) \in Seq(Frames)
  BY <1>1, PopAgrees, Pop DEF ScopeCore
<1>3. NothingTouchesTheDead'
  BY <1>1, TailOfDead DEF ScopeCore, NothingTouchesTheDead
<1>4. SmallTypes' /\ JoinWaitsForAll' /\ TokensAgree' /\ FailuresTracked' /\ ActiveCounts'
  BY <1>1 DEF ScopeCore, SmallTypes, JoinWaitsForAll, TokensAgree, FailuresTracked, ActiveCounts, Counted
<1> QED
  BY <1>1, <1>2, <1>3, <1>4 DEF ScopeCore

\* ScopeCore is inductive.
LEMMA ScopeStep == ScopeCore /\ [ScopeNext]_scopeVars => ScopeCore'
<1> SUFFICES ASSUME ScopeCore, [ScopeNext]_scopeVars PROVE ScopeCore'
  OBVIOUS
<1>1. CASE UNCHANGED scopeVars
  BY <1>1 DEF ScopeCore, scopeVars, flags, history, SmallTypes, JoinWaitsForAll, NothingTouchesTheDead, TokensAgree,
              FailuresTracked, ActiveCounts, Counted
<1>2. CASE ScopeNext
  BY <1>2, SpawnStep, JoinStep, StopStep, DestroyStep, AllocatedStep, SpawnFailsStep, RunStep,
     ResumesStep, FinishStep, StopReturnsStep, RetiredStep, ReturnsStep
     DEF ScopeNext, Running, Return
<1> QED
  BY <1>1, <1>2

\* ScopeInv holds in every reachable state, whichever call reenters the scope
\* from the allocator, a destructor, a stop callback, a child or the joiner
\* (task_scope.cpp).
THEOREM ScopeInvariant == ScopeSpec => []ScopeInv
<1>1. ScopeSpec => []ScopeCore
  BY ScopeStarts, ScopeStep, PTL DEF ScopeSpec
<1> QED
  BY <1>1, ScopeCoreIs, PTL

\* A join returns only when every child given to the scope is gone, in-progress
\* admissions and retirements included (resume_join_if_idle).
THEOREM JoinWaits == ScopeSpec => []JoinWaitsForAll
<1>1. ScopeInv => JoinWaitsForAll
  BY DEF ScopeInv
<1> QED
  BY <1>1, ScopeInvariant, PTL

\* After the scope is destroyed no call on the stack and no child touches it
\* again: the retiring guard sees the destruction (retiring_guard).
THEOREM DeadScopeUntouched == ScopeSpec => []NothingTouchesTheDead
<1>1. ScopeInv => NothingTouchesTheDead
  BY DEF ScopeInv
<1> QED
  BY <1>1, ScopeInvariant, PTL

\* A failure a child threw is rethrown by the join or reported, never dropped
\* (finish and ~task_scope).
THEOREM NoFailureDropped == ScopeSpec => []FailuresOwned
<1>1. ScopeInv => FailuresOwned
  BY DEF ScopeInv
<1> QED
  BY <1>1, ScopeInvariant, PTL
=============================================================================
