----------------------------- MODULE PoolLease ------------------------------
(***************************************************************************)
(* The lease scheduler of a connection pool                                *)
(* (ruvia-core/src/pool_lease_scheduler.cpp, pool_waiter_queue.h).         *)
(*                                                                         *)
(* Everything runs on one worker but the stop tokens, which any thread may *)
(* stop: a callback on another thread only posts the waiter's id.  A       *)
(* release hands its slot to the first waiter at once and resumes it in a  *)
(* later turn; until then its timeout, its stop and the pool's close must  *)
(* not decide it again.                                                    *)
(*                                                                         *)
(* An acquire is used once and is named by its waiter_id_, which is never  *)
(* reused.  cancel_registrations() waits for a stop callback that runs on  *)
(* another thread, so an action that calls it is enabled once that is over.*)
(***************************************************************************)
EXTENDS Naturals, Sequences, FiniteSets, Chains

CONSTANTS
    Acquires,  \* pool_lease_acquire objects
    Slots,     \* the pool's slots
    None

Refusals == {"closed", "cancelled", "timed_out"}

ASSUME LeaseAssumption ==
    /\ IsFiniteSet(Acquires) /\ IsFiniteSet(Slots) /\ Slots \cap Refusals = {}
    /\ None \notin Slots \cup Acquires \cup Refusals

VARIABLES
    free,        \* free_slots_, a stack
    busy,        \* busy_
    closing,     \* closing_
    queue,       \* pool_waiter_queue
    at,          \* each acquire's coroutine
    result,      \* result_: a slot, or why there is none
    timer,       \* acquires whose deadline_timer_ is armed
    timersOff,   \* the worker's timers_stopping_
    stop,        \* acquires whose stop token is stopped
    hooked,      \* acquires whose stop_registration_ is registered
    callback,    \* acquires whose stop callback runs on another thread
    posted,      \* cancellations posted to the worker, by waiter id
    deferred,    \* coroutines whose resumption is queued on the worker
    suspending   \* the acquire inside await_suspend(), before it registers

waits == <<timer, hooked>>
stops == <<stop, callback, posted>>
vars == <<free, busy, closing, queue, at, result, waits, timersOff, stops, deferred, suspending>>

TypeOK ==
    /\ free \in Seq(Slots) /\ busy \subseteq Slots /\ closing \in BOOLEAN /\ queue \in Seq(Acquires)
    /\ at \in [Acquires -> {"cold", "suspending", "waiting", "resuming", "holding", "done"}]
    /\ result \in [Acquires -> Slots \cup Refusals \cup {None}]
    /\ timersOff \in BOOLEAN /\ suspending \in Acquires \cup {None}
    /\ \A as \in {timer, stop, hooked, callback, posted, deferred} : as \subseteq Acquires

Init ==
    /\ \E order \in [1..Cardinality(Slots) -> Slots] :
          Distinct(order) /\ free = order
    /\ busy = {} /\ closing = FALSE /\ queue = << >>
    /\ at = [a \in Acquires |-> "cold"] /\ result = [a \in Acquires |-> None]
    /\ timer = {} /\ timersOff = FALSE
    /\ stop = {} /\ hooked = {} /\ callback = {} /\ posted = {}
    /\ deferred = {} /\ suspending = None

-----------------------------------------------------------------------------
(* The wait queue                                                           *)

Queued(a) == a \in Elems(queue)

\* The worker may start a turn, or user code on it may make a call.
Worker == suspending = None

\* cancel_registrations() of these acquires can finish.
Settled(as) == as \cap callback = {}

Unregister(as) == Settled(as) /\ timer' = timer \ as /\ hooked' = hooked \ as

\* complete(), which terminates the process on a second result, and the
\* removal from the queue that precedes it.
Decide(a, value) == queue' = Without(queue, a) /\ result' = [result EXCEPT ![a] = value]

\* defer_resume(take_continuation()): the coroutine runs in a later turn.
Defer(as) ==
    /\ deferred' = deferred \cup {a \in as : at[a] = "waiting"}
    /\ at' = [a \in Acquires |-> IF a \in as /\ at[a] = "waiting" THEN "resuming" ELSE at[a]]

\* await_resume(): the caller has its slot, or knows why it has none.
Outcome(value) == IF value \in Slots THEN "holding" ELSE "done"

-----------------------------------------------------------------------------
(* acquire(): await_ready() and await_suspend()                             *)

\* try_acquire() decides at once.
AcquireNow(a) ==
    /\ Worker /\ at[a] = "cold"
    /\ \/ /\ closing /\ result' = [result EXCEPT ![a] = "closed"] /\ UNCHANGED <<free, busy>>
       \/ /\ ~closing /\ a \in stop
          /\ result' = [result EXCEPT ![a] = "cancelled"] /\ UNCHANGED <<free, busy>>
       \/ /\ ~closing /\ a \notin stop /\ free # << >>
          /\ result' = [result EXCEPT ![a] = free[Len(free)]]
          /\ busy' = busy \cup {free[Len(free)]}
          /\ free' = SubSeq(free, 1, Len(free) - 1)
    /\ at' = [at EXCEPT ![a] = Outcome(result'[a])]
    /\ UNCHANGED <<closing, queue, waits, timersOff, stops, deferred, suspending>>

\* The pool is saturated: queue, then arm the timer.
AcquireQueue(a, timed) ==
    /\ Worker /\ at[a] = "cold" /\ ~closing /\ a \notin stop /\ free = << >>
    /\ queue' = Append(queue, a) /\ suspending' = a
    /\ at' = [at EXCEPT ![a] = "suspending"]
    /\ timer' = IF timed /\ ~timersOff THEN timer \cup {a} ELSE timer
    /\ UNCHANGED <<free, busy, closing, result, hooked, timersOff, stops, deferred>>

\* schedule_timer() throws out of await_suspend().
AcquireTimerThrows(a) ==
    /\ Worker /\ at[a] = "cold" /\ ~closing /\ a \notin stop /\ free = << >> /\ ~timersOff
    /\ at' = [at EXCEPT ![a] = "done"]
    /\ UNCHANGED <<free, busy, closing, queue, result, waits, timersOff, stops, deferred, suspending>>

\* A timeout of zero: queued, completed and taken out again.
AcquireZero(a) ==
    /\ Worker /\ at[a] = "cold" /\ ~closing /\ a \notin stop /\ free = << >> /\ ~timersOff
    /\ result' = [result EXCEPT ![a] = "timed_out"] /\ at' = [at EXCEPT ![a] = "done"]
    /\ UNCHANGED <<free, busy, closing, queue, waits, timersOff, stops, deferred, suspending>>

Suspend_MissesStop(a) ==
    /\ suspending = a /\ suspending' = None
    /\ at' = [at EXCEPT ![a] = "waiting"] /\ hooked' = hooked \cup ({a} \ stop)
    /\ UNCHANGED <<free, busy, closing, queue, result, timer, timersOff, stops, deferred>>

\* register_callback(): a stop that came meanwhile runs the callback here, and
\* the coroutine does not suspend.
Suspend(a) ==
    /\ suspending = a /\ suspending' = None
    /\ IF a \in stop
         THEN /\ Decide(a, "cancelled") /\ Unregister({a})
              /\ at' = [at EXCEPT ![a] = "done"]
         ELSE /\ at' = [at EXCEPT ![a] = "waiting"] /\ hooked' = hooked \cup {a}
              /\ UNCHANGED <<queue, result, timer>>
    /\ UNCHANGED <<free, busy, closing, timersOff, stops, deferred>>

-----------------------------------------------------------------------------
(* release() and close()                                                    *)

Release_AlsoFrees(a) ==
    /\ Worker /\ at[a] = "holding"
    /\ LET s == result[a]
       IN  IF ~closing /\ queue # << >>
             THEN LET b == Head(queue)
                  IN  /\ Decide(b, s) /\ Unregister({b})
                      /\ deferred' = deferred \cup {b}
                      /\ at' = [at EXCEPT ![a] = "done", ![b] = "resuming"]
                      /\ free' = Append(free, s) /\ UNCHANGED busy
             ELSE /\ busy' = busy \ {s} /\ free' = Append(free, s)
                  /\ at' = [at EXCEPT ![a] = "done"]
                  /\ UNCHANGED <<queue, result, waits, deferred>>
    /\ UNCHANGED <<closing, timersOff, stops, suspending>>

\* The holder gives its slot back: commit_handoff() to the first waiter, or
\* the slot is free.
Release(a) ==
    /\ Worker /\ at[a] = "holding"
    /\ LET s == result[a]
       IN  IF ~closing /\ queue # << >>
             THEN LET b == Head(queue)
                  IN  /\ Decide(b, s) /\ Unregister({b})
                      /\ deferred' = deferred \cup {b}
                      /\ at' = [at EXCEPT ![a] = "done", ![b] = "resuming"]
                      /\ UNCHANGED <<free, busy>>
             ELSE /\ busy' = busy \ {s} /\ free' = Append(free, s)
                  /\ at' = [at EXCEPT ![a] = "done"]
                  /\ UNCHANGED <<queue, result, waits, deferred>>
    /\ UNCHANGED <<closing, timersOff, stops, suspending>>

\* close_all(): every waiter is decided before any of them runs.
Close ==
    /\ Worker /\ ~closing /\ closing' = TRUE
    /\ queue' = << >>
    /\ result' = [a \in Acquires |-> IF Queued(a) THEN "closed" ELSE result[a]]
    /\ Unregister(Elems(queue)) /\ Defer(Elems(queue))
    /\ UNCHANGED <<free, busy, timersOff, stops, suspending>>

-----------------------------------------------------------------------------
(* Timeout and cancellation                                                 *)

\* The deadline expires: expire(), which resumes inline.
Expire(a) ==
    /\ Worker /\ a \in timer /\ Queued(a)
    /\ Decide(a, "timed_out") /\ Unregister({a})
    /\ at' = [at EXCEPT ![a] = "done"]
    /\ UNCHANGED <<free, busy, closing, timersOff, stops, deferred, suspending>>

\* stop_timers() delivers cancelled, which the waiter ignores.
TimersStop ==
    /\ Worker /\ ~timersOff /\ timersOff' = TRUE /\ timer' = {}
    /\ UNCHANGED <<free, busy, closing, queue, at, result, hooked, stops, deferred, suspending>>

\* A stop on another thread; a registered callback starts there.
StopElsewhere(a) ==
    /\ a \notin stop /\ stop' = stop \cup {a}
    /\ callback' = IF a \in hooked THEN callback \cup {a} ELSE callback
    /\ UNCHANGED <<free, busy, closing, queue, at, result, waits, timersOff, posted, deferred, suspending>>

\* request_cancellation() off the worker.
CallbackPosts(a) ==
    /\ a \in callback /\ callback' = callback \ {a} /\ posted' = posted \cup {a}
    /\ UNCHANGED <<free, busy, closing, queue, at, result, waits, timersOff, stop, deferred, suspending>>

Cancels_Always(a) == TRUE

Cancels(a) == Queued(a)

\* queue_.cancel(id): only a waiter that is still queued, resumed inline.
RunPosted(a) ==
    /\ Worker /\ a \in posted /\ posted' = posted \ {a}
    /\ IF Cancels(a)
         THEN /\ Decide(a, "cancelled") /\ Unregister({a})
              /\ at' = [at EXCEPT ![a] = "done"]
         ELSE UNCHANGED <<queue, result, waits, at>>
    /\ UNCHANGED <<free, busy, closing, timersOff, stop, callback, deferred, suspending>>

\* A stop on the worker itself: commit_cancellation() inside the callback, the
\* resumption deferred until the callback has returned.
StopOnWorker(a) ==
    /\ Worker /\ a \notin stop /\ stop' = stop \cup {a}
    /\ IF a \in hooked /\ Queued(a)
         THEN Decide(a, "cancelled") /\ timer' = timer \ {a} /\ Defer({a})
         ELSE UNCHANGED <<queue, result, timer, at, deferred>>
    /\ UNCHANGED <<free, busy, closing, hooked, timersOff, callback, posted, suspending>>

\* The deferred turn: await_resume().
Resume(a) ==
    /\ Worker /\ a \in deferred /\ deferred' = deferred \ {a}
    /\ Unregister({a})
    /\ at' = [at EXCEPT ![a] = Outcome(result[a])]
    /\ UNCHANGED <<free, busy, closing, queue, result, timersOff, stops, suspending>>

Next ==
    \/ \E a \in Acquires :
          \/ AcquireNow(a) \/ AcquireTimerThrows(a) \/ AcquireZero(a) \/ Suspend(a)
          \/ \E timed \in BOOLEAN : AcquireQueue(a, timed)
          \/ Release(a) \/ Expire(a) \/ StopElsewhere(a) \/ CallbackPosts(a) \/ RunPosted(a)
          \/ StopOnWorker(a) \/ Resume(a)
    \/ Close \/ TimersStop

Spec == Init /\ [][Next]_vars

(* Calls in progress go on, the worker runs what is queued on it, armed     *)
(* timers expire.  Nobody has to release, close or stop.                    *)
Fairness ==
    \A a \in Acquires :
        WF_vars(Suspend(a) \/ CallbackPosts(a) \/ RunPosted(a) \/ Resume(a) \/ Expire(a))

LiveSpec == Spec /\ Fairness

-----------------------------------------------------------------------------
(* Properties                                                               *)

\* A waiter never waits beside a free slot, nor in a closed pool, and a waiter
\* is queued exactly while it is undecided.
NoIdleSlot ==
    /\ queue # << >> => free = << >> /\ ~closing
    /\ \A a \in Acquires : Queued(a) <=> at[a] \in {"suspending", "waiting"} /\ result[a] = None

\* The scheduler implements Leases: a slot's owner is the acquire it was given
\* to, from the hand-off on and not only once its coroutine runs.
Held(a) == at[a] \in {"holding", "resuming"} /\ result[a] \in Slots
Owner == [s \in Slots |-> IF \E a \in Acquires : Held(a) /\ result[a] = s
                            THEN CHOOSE a \in Acquires : Held(a) /\ result[a] = s ELSE None]
Decided ==
    [a \in Acquires |->
        CASE result[a] \in Slots -> IF Held(a) THEN "leased" ELSE "returned"
          [] result[a] \in Refusals -> "refused"
          [] OTHER -> "undecided"]

Promise == INSTANCE Leases WITH owner <- Owner, outcome <- Decided, Nobody <- None

\* pool_lease_scheduler.h:54: a committed acquisition is not replaced, and a
\* slot never has two owners or is lost between them.
Implements == Promise!Spec

\* Every slot is free or has an owner: none leaks through a cancelled, closed
\* or timed out hand-off.
SlotsConserved ==
    /\ Len(free) + Cardinality(busy) = Cardinality(Slots)
    /\ Elems(free) \cap busy = {} /\ busy = {s \in Slots : Owner[s] # None}

\* A coroutine is where its result says: one acquire at a time is inside
\* await_suspend(), a wait has no result, a queued resumption has one.
CoroutinesAgree ==
    \A a \in Acquires :
        /\ at[a] = "suspending" <=> suspending = a
        /\ at[a] = "resuming" <=> a \in deferred
        /\ at[a] \in {"cold", "suspending", "waiting"} => result[a] = None
        /\ at[a] = "resuming" => result[a] # None
        /\ at[a] = "holding" => result[a] \in Slots

\* Nothing is listed twice, and no slot is given to two acquires.
OneOwner ==
    /\ Distinct(queue) /\ Distinct(free) /\ Elems(free) \cup busy = Slots
    /\ \A a, b \in Acquires : Held(a) /\ Held(b) /\ result[a] = result[b] => a = b

\* The queue, the slots and their owners agree (inductive).
LeaseInv == TypeOK /\ NoIdleSlot /\ CoroutinesAgree /\ OneOwner /\ SlotsConserved

\* A wait with a reason to end ends: closed, stopped, armed with a deadline, or
\* already decided.  (An acquire is used once, so this is a leads-to for each.)
Overdue(a) ==
    at[a] = "resuming" \/ (at[a] = "waiting" /\ (closing \/ a \in stop \/ a \in timer))

WaitEnds == []<>(\A a \in Acquires : ~Overdue(a))
=============================================================================
