----------------------------- MODULE WorkerQueue -----------------------------
(***************************************************************************)
(* The bounded task queue of a worker (ruvia-core/src/worker_dispatcher.cpp).*)
(*                                                                         *)
(* Any thread posts a task: it reserves a node under the mutex, moves the  *)
(* callable into it unlocked, and publishes it under the mutex again.  The *)
(* worker splices the ready list into a batch and runs it.  A task that    *)
(* throws, a failing handler or a detach abandons what is queued; a node   *)
(* abandoned is returned first and its payload destroyed afterwards.       *)
(*                                                                         *)
(* One action is one critical section of mutex_, or one call into user     *)
(* code between two of them.  What a running task, a destructor or an idle *)
(* callback does when it reenters the worker is a step of another thread   *)
(* here: none of them runs under the mutex.                                *)
(***************************************************************************)
EXTENDS Naturals, Sequences, FiniteSets, Chains

CONSTANTS
    Clients,     \* threads that post tasks
    Worker,      \* the thread that drives the io_context
    Nodes,       \* nodes_: the preallocated task nodes
    Capacity,    \* capacity_
    Tasks,       \* callables, each posted at most once
    Waiters,     \* when_idle callbacks, each registered at most once
    MaxFailures, \* bound on handlers other than drain() that throw
    None

ASSUME CapacityAssumption == Capacity \in Nat \ {0}
ASSUME NodesAssumption == IsFiniteSet(Nodes) /\ Cardinality(Nodes) = 2 * Capacity
ASSUME NoneAssumption == None \notin Tasks /\ Worker \notin Clients
ASSUME FailuresAssumption == MaxFailures \in Nat

Threads == Clients \cup {Worker}

VARIABLES
    accepting, attached,   \* accepting_, context_attached_
    abandon_drain,         \* abandon_drain_
    drain_scheduled,       \* drain_scheduled_
    free,                  \* the free list: nodes are interchangeable, so a set
    ready,                 \* the ready list, oldest first; ready_count_ is its length
    pending_count,         \* pending_count_
    active_count,          \* active_count_
    slot,                  \* nodes_[n].task_
    parked,                \* idle_waiters_
    drains,                \* drain() handlers queued on the io_context
    pc,                    \* where each thread is
    held,                  \* nodes a thread owns exclusively: reserved or abandoned
    finished, batch,       \* the batch drain() runs: nodes run, nodes left
    after,                 \* where abandon_queued() returns to
    doomed,                \* payload moved out of a released node, not destroyed yet
    cbs,                   \* idle callbacks taken and not called yet
    signal,                \* pending_changed_.notify_all() still due
    failures,              \* handlers other than drain() that threw
    published, started,    \* history: tasks in publication and in run order
    accepted, destroyed,   \* history: tasks that got a node, tasks never run
    notified               \* history: idle callbacks called

queue == <<free, ready, pending_count, active_count, slot>>
flags == <<accepting, attached, abandon_drain, drain_scheduled>>
local == <<pc, held, finished, batch, after, doomed, cbs, signal>>
history == <<published, started, accepted, destroyed, notified>>
vars == <<queue, flags, local, history, parked, drains, failures>>

TypeOK ==
    /\ accepting \in BOOLEAN /\ attached \in BOOLEAN
    /\ abandon_drain \in BOOLEAN /\ drain_scheduled \in BOOLEAN
    /\ free \subseteq Nodes
    /\ ready \in Seq(Nodes)
    /\ pending_count \in Nat /\ active_count \in Nat
    /\ slot \in [Nodes -> Tasks \cup {None}]
    /\ parked \subseteq Waiters
    /\ drains \in Nat
    /\ pc \in [Threads -> {"out", "reserved", "release", "loop", "batch", "purge",
                           "purging", "idle", "failure", "waiting", "blocked", "gone"}]
    /\ held \in [Threads -> Seq(Nodes)]
    /\ finished \subseteq Nodes
    /\ batch \in Seq(Nodes)
    /\ after \in {"loop", "idle"}
    /\ doomed \in [Threads -> Tasks \cup {None}]
    /\ cbs \in [Threads -> SUBSET Waiters]
    /\ signal \in [Threads -> BOOLEAN]
    /\ failures \in Nat
    /\ published \in Seq(Tasks) /\ started \in Seq(Tasks)
    /\ accepted \subseteq Tasks /\ destroyed \subseteq Tasks
    /\ notified \subseteq Waiters

Init ==
    /\ accepting = TRUE /\ attached = TRUE
    /\ abandon_drain = FALSE /\ drain_scheduled = FALSE
    /\ free = Nodes /\ ready = << >>
    /\ pending_count = 0 /\ active_count = 0
    /\ slot = [n \in Nodes |-> None]
    /\ parked = {} /\ drains = 0
    /\ pc = [t \in Threads |-> IF t = Worker THEN "loop" ELSE "out"]
    /\ held = [t \in Threads |-> << >>]
    /\ finished = {} /\ batch = << >> /\ after = "loop"
    /\ doomed = [t \in Threads |-> None]
    /\ cbs = [t \in Threads |-> {}]
    /\ signal = [t \in Threads |-> FALSE]
    /\ failures = 0
    /\ published = << >> /\ started = << >>
    /\ accepted = {} /\ destroyed = {} /\ notified = {}

\* The unlocked tail of a release is over: destruction, callbacks, notify_all.
Quiet(t) == doomed[t] = None /\ cbs[t] = {} /\ ~signal[t]

\* take_idle_callbacks_locked with the counts the critical section leaves.
IdleCallbacks(pending, active) == IF pending = 0 /\ active = 0 THEN parked ELSE {}

TakeIdleCallbacks_StaleCounts(t, pending, active) ==
    /\ cbs' = [cbs EXCEPT ![t] = IdleCallbacks(pending_count, active_count)]
    /\ parked' = parked \ IdleCallbacks(pending_count, active_count)

TakeIdleCallbacks(t, pending, active) ==
    /\ cbs' = [cbs EXCEPT ![t] = IdleCallbacks(pending, active)]
    /\ parked' = parked \ IdleCallbacks(pending, active)

\* schedule_drain_locked when asio::post succeeds.
ScheduleDrain ==
    /\ drains' = IF drain_scheduled THEN drains ELSE drains + 1
    /\ drain_scheduled' = TRUE

\* push_ready_locked
PushReady_Front(n) == ready' = <<n>> \o ready
PushReady(n) == ready' = Append(ready, n)

\* begin_stopping_locked(true)
BeginAbandon ==
    /\ accepting' = FALSE
    /\ drain_scheduled' = FALSE
    /\ abandon_drain' = TRUE

-----------------------------------------------------------------------------
(* post and post_factory.  A rejection hands the task back and changes      *)
(* nothing, so it is no step.                                               *)

Admits == attached /\ accepting /\ pending_count # Capacity

\* reserve() takes free_head_ without testing it for emptiness.
Reserve(c, t) ==
    /\ pc[c] = "out" /\ Quiet(c)
    /\ t \notin accepted
    /\ Admits
    /\ \E n \in free :
        /\ free' = free \ {n}
        /\ held' = [held EXCEPT ![c] = <<n>>]
        /\ slot' = [slot EXCEPT ![n] = t]
    /\ pending_count' = pending_count + 1
    /\ accepted' = accepted \cup {t}
    /\ pc' = [pc EXCEPT ![c] = "reserved"]
    /\ UNCHANGED <<flags, ready, active_count, parked, drains, finished, batch, after,
                   doomed, cbs, signal, failures, published, started, destroyed, notified>>

\* post_factory: the factory throws, so the node is released without a payload.
FactoryThrows(c) ==
    /\ pc[c] = "reserved"
    /\ slot' = [slot EXCEPT ![held[c][1]] = None]
    /\ destroyed' = destroyed \cup {slot[held[c][1]]}
    /\ pc' = [pc EXCEPT ![c] = "release"]
    /\ UNCHANGED <<flags, free, ready, pending_count, active_count, parked, drains, held,
                   finished, batch, after, doomed, cbs, signal, failures, published,
                   started, accepted, notified>>

Publishable == ~abandon_drain /\ attached

Publish(c) ==
    /\ pc[c] = "reserved"
    /\ Publishable
    /\ ScheduleDrain
    /\ PushReady(held[c][1])
    /\ published' = Append(published, slot[held[c][1]])
    /\ held' = [held EXCEPT ![c] = << >>]
    /\ pc' = [pc EXCEPT ![c] = "out"]
    /\ UNCHANGED <<accepting, attached, abandon_drain, free, pending_count, active_count,
                   slot, parked, finished, batch, after, doomed, cbs, signal, failures,
                   started, accepted, destroyed, notified>>

\* publish(): the drain was abandoned meanwhile, or scheduling it throws.
PublishFails(c) ==
    /\ pc[c] = "reserved"
    /\ Publishable => ~drain_scheduled
    /\ pc' = [pc EXCEPT ![c] = "release"]
    /\ UNCHANGED <<queue, flags, held, finished, batch, after, doomed, cbs, signal,
                   history, parked, drains, failures>>

-----------------------------------------------------------------------------
(* release_abandoned_node: the node and the count go back under the mutex,  *)
(* the payload is destroyed, the idle callbacks run, and waiters for the    *)
(* last reservation are woken, all after the unlock and in this order.      *)

Releasing(t) ==
    /\ held[t] # << >>
    /\ IF t = Worker THEN pc[t] \in {"purge", "purging"} ELSE pc[t] = "release"

\* Clients own one node, the worker a chain it keeps walking.
ReleaseNode(t) ==
    /\ Releasing(t) /\ Quiet(t)
    /\ free' = free \cup {Head(held[t])}
    /\ pending_count' = pending_count - 1
    /\ doomed' = [doomed EXCEPT ![t] = slot[Head(held[t])]]
    /\ slot' = [slot EXCEPT ![Head(held[t])] = None]
    /\ held' = [held EXCEPT ![t] = Tail(held[t])]
    /\ signal' = [signal EXCEPT ![t] = (pending_count' = 0)]
    /\ TakeIdleCallbacks(t, pending_count', active_count)
    /\ pc' = IF t = Worker THEN pc ELSE [pc EXCEPT ![t] = "out"]
    /\ UNCHANGED <<flags, ready, active_count, drains, finished, batch, after, failures, history>>

DestroyPayload(t) ==
    /\ doomed[t] # None
    /\ destroyed' = destroyed \cup {doomed[t]}
    /\ doomed' = [doomed EXCEPT ![t] = None]
    /\ UNCHANGED <<queue, flags, pc, held, finished, batch, after, cbs, signal, parked,
                   drains, failures, published, started, accepted, notified>>

\* notify_waiters, here and at the end of every drain().
RunCallbacks(t) ==
    /\ doomed[t] = None /\ cbs[t] # {}
    /\ notified' = notified \cup cbs[t]
    /\ cbs' = [cbs EXCEPT ![t] = {}]
    /\ UNCHANGED <<queue, flags, pc, held, finished, batch, after, doomed, signal, parked,
                   drains, failures, published, started, accepted, destroyed>>

\* pending_changed_.notify_all()
NotifyPending(t) ==
    /\ doomed[t] = None /\ cbs[t] = {} /\ signal[t]
    /\ signal' = [signal EXCEPT ![t] = FALSE]
    /\ pc' = IF pc[Worker] = "blocked" THEN [pc EXCEPT ![Worker] = "waiting"] ELSE pc
    /\ UNCHANGED <<queue, flags, held, finished, batch, after, doomed, cbs, history,
                   parked, drains, failures>>

-----------------------------------------------------------------------------
(* drain(): one handler of the io_context.                                  *)

\* A drain handler finds the queue abandoned, or (the ELSE) splices what is
\* ready into a batch; a batch of zero nodes goes straight back to the loop.
DrainBegin ==
    /\ pc[Worker] = "loop" /\ Quiet(Worker)
    /\ drains > 0
    /\ drains' = drains - 1
    /\ IF abandon_drain \/ ready = << >>
       THEN /\ drain_scheduled' = FALSE
            /\ TakeIdleCallbacks(Worker, pending_count, active_count)
            /\ pc' = [pc EXCEPT ![Worker] = IF abandon_drain THEN "purge" ELSE "loop"]
            /\ after' = "loop"
            /\ UNCHANGED <<ready, batch, pending_count, active_count>>
       ELSE /\ batch' = ready /\ ready' = << >>
            /\ pending_count' = pending_count - Len(ready)
            /\ active_count' = active_count + Len(ready)
            /\ pc' = [pc EXCEPT ![Worker] = "batch"]
            /\ UNCHANGED <<after, cbs, parked, drain_scheduled>>
    /\ UNCHANGED <<accepting, attached, abandon_drain, free, slot, held, finished, doomed,
                   signal, failures, history>>

BatchCount == Cardinality(finished) + Len(batch)

\* The nodes a batch hands back: all of it, or its prefix through a failed task.
FailedPrefix_OnlyFailed == {Head(batch)}
FailedPrefix == finished \cup {Head(batch)}

ReturnBatch ==
    /\ free' = free \cup finished
    /\ finished' = {}
    /\ active_count' = active_count - BatchCount

\* Work published during the batch needs a new handler.
DrainAgain_Never == FALSE
DrainAgain == ~abandon_drain /\ ready # << >>

\* The next task of the batch runs to its end.
RunTask ==
    /\ pc[Worker] = "batch" /\ batch # << >>
    /\ started' = Append(started, slot[Head(batch)])
    /\ slot' = [slot EXCEPT ![Head(batch)] = None]
    /\ finished' = finished \cup {Head(batch)}
    /\ batch' = Tail(batch)
    /\ UNCHANGED <<flags, free, ready, pending_count, active_count, pc, held, after, doomed,
                   cbs, signal, parked, drains, failures, published, accepted, destroyed, notified>>

TaskThrows_KeepsRunning ==
    /\ pc[Worker] = "batch" /\ batch # << >>
    /\ started' = Append(started, slot[Head(batch)])
    /\ slot' = [slot EXCEPT ![Head(batch)] = None]
    /\ finished' = finished \cup {Head(batch)}
    /\ batch' = Tail(batch)
    /\ BeginAbandon
    /\ UNCHANGED <<attached, free, ready, pending_count, active_count, pc, held, after, doomed,
                   cbs, signal, parked, drains, failures, published, accepted, destroyed, notified>>

\* The next task throws: it and the completed prefix are free, the remainder
\* is pending again and admission closes, in one critical section.
TaskThrows ==
    /\ pc[Worker] = "batch" /\ batch # << >>
    /\ started' = Append(started, slot[Head(batch)])
    /\ slot' = [slot EXCEPT ![Head(batch)] = None]
    /\ free' = free \cup FailedPrefix
    /\ active_count' = active_count - BatchCount
    /\ pending_count' = pending_count + Len(batch) - 1
    /\ held' = [held EXCEPT ![Worker] = Tail(batch)]
    /\ finished' = {} /\ batch' = << >>
    /\ BeginAbandon
    /\ pc' = [pc EXCEPT ![Worker] = "purge"]
    /\ after' = "idle"
    /\ UNCHANGED <<attached, ready, doomed, cbs, signal, parked, drains, failures, published,
                   accepted, destroyed, notified>>

\* The last critical section of a batch that ran through.
DrainFinish ==
    /\ pc[Worker] = "batch" /\ batch = << >>
    /\ ReturnBatch
    /\ drain_scheduled' = DrainAgain
    /\ drains' = IF drain_scheduled' THEN drains + 1 ELSE drains
    /\ TakeIdleCallbacks(Worker, pending_count, active_count')
    /\ pc' = [pc EXCEPT ![Worker] = IF abandon_drain THEN "purge" ELSE "loop"]
    /\ after' = "loop"
    /\ UNCHANGED <<accepting, attached, abandon_drain, ready, pending_count, slot, held, batch,
                   doomed, signal, failures, history>>

\* The same critical section when asio::post throws: drain() escapes with the
\* batch returned, no drain scheduled and no callback taken.
DrainFinishThrows ==
    /\ pc[Worker] = "batch" /\ batch = << >>
    /\ DrainAgain
    /\ ReturnBatch
    /\ drain_scheduled' = FALSE
    /\ pc' = [pc EXCEPT ![Worker] = "failure"]
    /\ UNCHANGED <<accepting, attached, abandon_drain, ready, pending_count, slot, held, batch,
                   after, doomed, cbs, signal, parked, drains, failures, history>>

AbandonQueued_Drops ==
    /\ pc[Worker] = "purge" /\ held[Worker] = << >> /\ Quiet(Worker)
    /\ ready' = << >>
    /\ pc' = [pc EXCEPT ![Worker] = "purging"]
    /\ UNCHANGED <<flags, free, pending_count, active_count, slot, held, finished, batch, after,
                   doomed, cbs, signal, history, parked, drains, failures>>

\* abandon_queued(): the ready list is spliced, then released node by node.
AbandonQueued ==
    /\ pc[Worker] = "purge" /\ held[Worker] = << >> /\ Quiet(Worker)
    /\ held' = [held EXCEPT ![Worker] = ready]
    /\ ready' = << >>
    /\ pc' = [pc EXCEPT ![Worker] = "purging"]
    /\ UNCHANGED <<flags, free, pending_count, active_count, slot, finished, batch, after,
                   doomed, cbs, signal, history, parked, drains, failures>>

AbandonDone ==
    /\ pc[Worker] = "purging" /\ held[Worker] = << >> /\ Quiet(Worker)
    /\ pc' = [pc EXCEPT ![Worker] = after]
    /\ UNCHANGED <<queue, flags, held, finished, batch, after, doomed, cbs, signal, history,
                   parked, drains, failures>>

\* The failed drain takes the idle callbacks before it rethrows.
FailedDrainIdle ==
    /\ pc[Worker] = "idle"
    /\ TakeIdleCallbacks(Worker, pending_count, active_count)
    /\ pc' = [pc EXCEPT ![Worker] = "failure"]
    /\ UNCHANGED <<queue, flags, held, finished, batch, after, doomed, signal, history,
                   drains, failures>>

-----------------------------------------------------------------------------
(* run_context, close, detach_context, wait_for_reservations, when_idle.    *)

\* A handler other than drain() throws out of io_context::run().
HandlerThrows ==
    /\ pc[Worker] = "loop" /\ Quiet(Worker)
    /\ attached /\ failures < MaxFailures
    /\ failures' = failures + 1
    /\ pc' = [pc EXCEPT ![Worker] = "failure"]
    /\ UNCHANGED <<queue, flags, held, finished, batch, after, doomed, cbs, signal, history,
                   parked, drains>>

\* handle_failure: begin_stopping(true), then abandon_queued() and back to run().
HandleFailure ==
    /\ pc[Worker] = "failure" /\ Quiet(Worker)
    /\ BeginAbandon
    /\ pc' = [pc EXCEPT ![Worker] = "purge"]
    /\ after' = "loop"
    /\ UNCHANGED <<attached, queue, held, finished, batch, doomed, cbs, signal, history,
                   parked, drains, failures>>

\* close(): begin_stopping(false) from any thread.  What was accepted still runs.
Close ==
    /\ accepting
    /\ accepting' = FALSE
    /\ UNCHANGED <<attached, abandon_drain, drain_scheduled, queue, local, history, parked,
                   drains, failures>>

\* detach_context(): serialised with the worker's handlers by its callers.
Detach ==
    /\ pc[Worker] = "loop" /\ Quiet(Worker)
    /\ attached
    /\ attached' = FALSE /\ accepting' = FALSE /\ abandon_drain' = TRUE
    /\ pc' = [pc EXCEPT ![Worker] = "purge"]
    /\ after' = "loop"
    /\ UNCHANGED <<drain_scheduled, queue, held, finished, batch, doomed, cbs, signal, history,
                   parked, drains, failures>>

\* wait_for_reservations(), called by the owner once the context is detached.
WaitForReservations ==
    /\ \/ pc[Worker] = "loop" /\ ~attached /\ Quiet(Worker)
       \/ pc[Worker] = "waiting"
    /\ pc' = [pc EXCEPT ![Worker] = IF pending_count = 0 THEN "gone" ELSE "blocked"]
    /\ UNCHANGED <<queue, flags, held, finished, batch, after, doomed, cbs, signal, history,
                   parked, drains, failures>>

\* when_idle(w): on a detached context it throws, which changes nothing.
WhenIdle(w) ==
    /\ w \notin notified \cup parked \cup UNION {cbs[t] : t \in Threads}
    /\ attached
    /\ IF pending_count # 0 \/ active_count # 0
       THEN parked' = parked \cup {w} /\ UNCHANGED notified
       ELSE notified' = notified \cup {w} /\ UNCHANGED parked
    /\ UNCHANGED <<queue, flags, local, drains, failures, published, started, accepted, destroyed>>

-----------------------------------------------------------------------------
Release(t) == ReleaseNode(t) \/ DestroyPayload(t) \/ RunCallbacks(t) \/ NotifyPending(t)

ClientStep(c) ==
    \/ \E t \in Tasks : Reserve(c, t)
    \/ FactoryThrows(c) \/ Publish(c) \/ PublishFails(c)

BatchStep == RunTask \/ TaskThrows \/ DrainFinish \/ DrainFinishThrows

WorkerStep ==
    \/ DrainBegin \/ BatchStep
    \/ AbandonQueued \/ AbandonDone \/ FailedDrainIdle \/ HandleFailure
    \/ HandlerThrows \/ Detach \/ WaitForReservations

Next ==
    \/ \E c \in Clients : ClientStep(c)
    \/ \E t \in Threads : Release(t)
    \/ WorkerStep
    \/ Close
    \/ \E w \in Waiters : WhenIdle(w)

(* A thread inside a call of this module finishes the call; an attached     *)
(* context is being run, so a queued drain() is reached.  After a detach    *)
(* the context may be destroyed with its handlers, and nobody is obliged to *)
(* post, throw, close or detach.                                            *)
Fairness ==
    /\ \A c \in Clients : WF_vars(Publish(c) \/ PublishFails(c))
    /\ \A t \in Threads : WF_vars(Release(t))
    /\ WF_vars(attached /\ DrainBegin)
    /\ WF_vars(BatchStep)
    /\ WF_vars(AbandonQueued \/ AbandonDone \/ FailedDrainIdle \/ HandleFailure)
    /\ WF_vars(pc[Worker] = "waiting" /\ WaitForReservations)

Spec == Init /\ [][Next]_vars
LiveSpec == Spec /\ Fairness

-----------------------------------------------------------------------------
(* Properties.                                                              *)

\* reserve() pops the free list without testing it (worker_dispatcher.cpp:110).
\* The constructor's claim that twice the capacity is enough: whenever admission
\* has room there is a free node to pop.
FreeNodeForAdmission == Admits => free # {}

\* The queue bound: while tasks are admitted, or still drained, pending work
\* stays within capacity; only an abandoned batch may push it past.
PendingBounded == pending_count > Capacity => ~accepting /\ abandon_drain

\* No lost drain: published work on a live queue always has a drain() queued
\* or a batch running that will look again; and at most one is ever queued.
DrainNeverLost ==
    /\ ready # << >> /\ ~abandon_drain =>
          drains = 1 \/ pc[Worker] \in {"batch", "failure"}
    /\ drains <= 1

\* A drain() handler that runs finds work or an abandoned queue: the
\* ready_count_ == 0 branch of drain() is never taken.
DrainFindsWork == drains > 0 => ready # << >> \/ abandon_drain

\* A failed drain() that has not reached its own idle check yet.
FailedDrainUnwinding ==
    \/ pc[Worker] = "idle"
    \/ pc[Worker] \in {"purge", "purging"} /\ after = "idle"

\* No lost idle callback: a parked one still has work to wait for, or the
\* failed drain() on its way to take it.
ParkedHasWork ==
    parked # {} => pending_count # 0 \/ active_count # 0 \/ FailedDrainUnwinding

\* Tasks run in publication order and a task that ran is never also
\* destroyed as abandoned.
RunInOrder ==
    /\ Len(started) <= Len(published)
    /\ \A i \in 1..Len(started) : started[i] = published[i]
    /\ Elems(started) \cap destroyed = {}

\* Once the drain is abandoned no further task starts.
NoStartAfterAbandon == [][started' # started => ~abandon_drain]_vars

\* wait_for_reservations() returns to an owner that may destroy the context:
\* no client then holds a node of the queue.
NothingReservedWhenGone ==
    pc[Worker] = "gone" => pending_count = 0 /\ \A t \in Threads : held[t] = << >>

\* Nobody who waits for the queue to empty is forgotten or let go too early.
WaitersServed == ParkedHasWork /\ NothingReservedWhenGone

\* Every accepted task is run or destroyed: the tasks are finitely many and both
\* are final, so from some point on none is left over.
TaskResolved == <>[](accepted \subseteq Elems(started) \cup destroyed)

\* Every registered idle callback is called (posts are bounded here).
IdleCallbackCalled == \A w \in Waiters : w \in parked ~> w \in notified

\* wait_for_reservations() never sleeps through the last release.
ReservationWaitReturns == pc[Worker] = "blocked" ~> pc[Worker] = "gone"

\* Nothing that was handed to the queue, and nobody who waits for it, is
\* forgotten.
QueueProgress == TaskResolved /\ IdleCallbackCalled /\ ReservationWaitReturns

-----------------------------------------------------------------------------
(* The inductive invariant the proofs rest on.                              *)

\* What a thread can own where it is.
Positions ==
    /\ \A c \in Clients :
        /\ pc[c] \in {"out", "reserved", "release"}
        /\ pc[c] = "out" => held[c] = << >>
        /\ pc[c] # "out" => \E n \in Nodes : held[c] = <<n>>
    /\ pc[Worker] \notin {"out", "reserved", "release"}
    /\ pc[Worker] \notin {"purge", "purging"} => held[Worker] = << >>
    /\ pc[Worker] # "batch" => batch = << >> /\ finished = {}

\* Every chain links its nodes once, and no node is free or elsewhere as well.
Ownership ==
    /\ Distinct(ready) /\ Distinct(batch)
    /\ Elems(ready) \cap free = {} /\ Elems(batch) \cap free = {} /\ finished \cap free = {}
    /\ Elems(ready) \cap Elems(batch) = {} /\ Elems(ready) \cap finished = {}
    /\ Elems(batch) \cap finished = {}
    /\ \A t \in Threads :
        /\ Distinct(held[t])
        /\ Elems(held[t]) \cap free = {} /\ Elems(held[t]) \cap Elems(ready) = {}
        /\ Elems(held[t]) \cap Elems(batch) = {} /\ Elems(held[t]) \cap finished = {}
    /\ \A t, u \in Threads : t # u => Elems(held[t]) \cap Elems(held[u]) = {}

\* No node leaks: what is not free is on some chain.
NoLeak ==
    \A n \in Nodes :
        \/ n \in free \/ n \in Elems(ready) \/ n \in Elems(batch) \/ n \in finished
        \/ \E t \in Threads : n \in Elems(held[t])

\* A node that will be published or run carries a task: drain() calls it untested.
Payloads ==
    /\ \A c \in Clients : pc[c] = "reserved" => slot[held[c][1]] \in Tasks
    /\ \A n \in Elems(ready) \cup Elems(batch) : slot[n] \in Tasks

\* The counters agree with the lists.
Counts ==
    /\ Cardinality(free) + pending_count + active_count = 2 * Capacity
    /\ active_count = BatchCount

\* Admission and draining are closed in the order the bounds need.
Stopping ==
    /\ abandon_drain => ~accepting
    /\ ~attached => abandon_drain
    /\ pc[Worker] \in {"purge", "purging", "idle"} => abandon_drain
    /\ ~abandon_drain => pending_count <= Capacity
    /\ active_count <= Capacity

\* A scheduled drain is queued or running, and one queued has work.
DrainState ==
    /\ drains \in {0, 1}
    /\ ~abandon_drain =>
        /\ drain_scheduled <=> (drains = 1 \/ pc[Worker] = "batch")
        /\ pc[Worker] = "batch" => drains = 0
        /\ drains = 1 => ready # << >>
        /\ ready # << >> => drain_scheduled \/ pc[Worker] = "failure"

\* A batch only runs on a live queue, and there the tasks that did not start
\* yet stand on the batch and then on the ready list in publication order.
InLine ==
    /\ Len(started) <= Len(published)
    /\ \A i \in 1..Len(started) : started[i] = published[i]
    /\ pc[Worker] = "batch" => ~abandon_drain
    /\ ~abandon_drain =>
        /\ Len(published) = Len(started) + Len(batch) + Len(ready)
        /\ \A i \in 1..Len(batch) : slot[batch[i]] = published[Len(started) + i]
        /\ \A i \in 1..Len(ready) : slot[ready[i]] = published[Len(started) + Len(batch) + i]

\* An accepted task is in one place: one node, one thread about to destroy it,
\* the tasks that ran, or the tasks destroyed.
Settled == Elems(started) \cup destroyed

OneFate ==
    /\ Elems(started) \cap destroyed = {} /\ Settled \subseteq accepted
    /\ \A n \in Nodes : slot[n] # None => slot[n] \in accepted \ Settled
    /\ \A t \in Threads : doomed[t] # None => doomed[t] \in accepted \ Settled
    /\ \A m, n \in Nodes : slot[m] # None /\ m # n => slot[m] # slot[n]
    /\ \A t, u \in Threads : doomed[t] # None /\ t # u => doomed[t] # doomed[u]
    /\ \A n \in Nodes, t \in Threads : slot[n] # None => slot[n] # doomed[t]

\* Only a detached context is waited for, and it is let go with nothing pending.
Waiting ==
    /\ ParkedHasWork
    /\ pc[Worker] \in {"waiting", "blocked", "gone"} => ~attached
    /\ pc[Worker] = "gone" => pending_count = 0

\* The node lists partition nodes_ and the counters agree with them, so no
\* node is lost, linked twice or returned while still in use.
NodesConserved == Positions /\ Ownership /\ NoLeak /\ Counts

QueueInv ==
    /\ TypeOK /\ NodesConserved /\ Payloads /\ Stopping /\ DrainState
    /\ InLine /\ OneFate /\ Waiting

-----------------------------------------------------------------------------
\* What the comment at worker_dispatcher.cpp:173 asks of releases: the payload's
\* destruction runs before idle callbacks.  It holds for the releasing thread's
\* own payload; this states it for every payload whose node was counted out.
DestroyedBeforeIdleCallbacks ==
    \A t \in Threads : cbs[t] # {} /\ doomed[t] = None => \A u \in Threads : doomed[u] = None

=============================================================================
