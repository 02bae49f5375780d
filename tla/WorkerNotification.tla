------------------------- MODULE WorkerNotification -------------------------
(***************************************************************************)
(* The cross-thread latched wake of a worker                               *)
(* (ruvia-core/src/worker_notification.cpp, POSIX build with an eventfd).  *)
(*                                                                         *)
(* A producer publishes some data and calls notify(): it enters (the       *)
(* count in activity_), sets the latch pending_, and writes a token only   *)
(* when the latch was clear.  The worker drains the tokens, clears the     *)
(* latch and looks at the data, or suspends until the descriptor is        *)
(* readable.  Each atomic access of either side is one action.             *)
(***************************************************************************)
EXTENDS Naturals, FiniteSets

CONSTANTS
    Producers,
    Full,        \* tokens the descriptor holds before a write would block
    MaxNotes,    \* bound: notify() calls that get in
    MaxErrors    \* bound: reads and waits that fail

ASSUME FullAssumption == Full \in Nat \ {0}
ASSUME BoundsAssumption == MaxNotes \in Nat /\ MaxErrors \in Nat

VARIABLES
    closed,      \* the closed bit of activity_
    latched,     \* pending_
    tokens,      \* what the native channel holds
    at,          \* where each producer is inside notify()
    pc,          \* where the waiting coroutine is
    got,         \* what drain_receiver() found: no token, a token, a read error
    stream,      \* receiver_stream_: the receiver adopted by the first wait
    completion,  \* the wait handler: none, armed in the reactor, or queued
    posted,      \* history: data published by producers that got in
    seen,        \* history: data published when the worker last cleared the latch
    errors       \* history: failed reads and waits

producer == <<at, posted>>
worker == <<pc, got, stream, completion, seen, errors>>
wakeVars == <<closed, latched, tokens, producer, worker>>

\* The count in activity_ is the number of producers between enter and leave.
Inside == {p \in Producers : at[p] # "out"}

\* wait_pending_: set by begin_wait(), cleared when the handler starts.
WaitPending == pc = "suspended"

WakeTypeOK ==
    /\ closed \in BOOLEAN /\ latched \in BOOLEAN
    /\ tokens \in 0..Full
    /\ at \in [Producers -> {"out", "latch", "check", "signal", "leave"}]
    /\ pc \in {"running", "drain", "unlatch", "suspending", "suspended", "handler", "relatch"}
    /\ got \in {"none", "token", "error"} /\ stream \in BOOLEAN
    /\ completion \in {"none", "armed", "ready", "aborted", "error"}
    /\ posted \in Nat /\ seen \in Nat /\ errors \in Nat

WakeInit ==
    /\ closed = FALSE /\ latched = FALSE /\ tokens = 0
    /\ at = [p \in Producers |-> "out"]
    /\ pc = "running" /\ got = "none" /\ stream = FALSE /\ completion = "none"
    /\ posted = 0 /\ seen = 0 /\ errors = 0

-----------------------------------------------------------------------------
(* notify().  A producer that finds the closed bit gets "closed" and        *)
(* changes nothing, so that return is no step.                              *)

\* enter_producer(): the compare-exchange that counts the producer in.
Enter(p) ==
    /\ at[p] = "out" /\ ~closed
    /\ posted < MaxNotes
    /\ posted' = posted + 1
    /\ at' = [at EXCEPT ![p] = "latch"]
    /\ UNCHANGED <<closed, latched, tokens, worker>>

\* pending_.exchange(true): an already set latch coalesces.
Latch(p) ==
    /\ at[p] = "latch"
    /\ latched' = TRUE
    /\ at' = [at EXCEPT ![p] = IF latched THEN "leave" ELSE "check"]
    /\ UNCHANGED <<closed, tokens, posted, worker>>

\* is_closed() after the latch was set.
CheckClosed(p) ==
    /\ at[p] = "check"
    /\ at' = [at EXCEPT ![p] = IF closed THEN "leave" ELSE "signal"]
    /\ UNCHANGED <<closed, latched, tokens, posted, worker>>

\* wake_.signal(): one token, or none on a full channel, which is readable.
Signal_DropsOneShort(p) ==
    /\ at[p] = "signal"
    /\ tokens' = IF tokens < Full - 1 THEN tokens + 1 ELSE tokens
    /\ at' = [at EXCEPT ![p] = "leave"]
    /\ UNCHANGED <<closed, latched, posted, worker>>

Signal(p) ==
    /\ at[p] = "signal"
    /\ tokens' = IF tokens < Full THEN tokens + 1 ELSE tokens
    /\ at' = [at EXCEPT ![p] = "leave"]
    /\ UNCHANGED <<closed, latched, posted, worker>>

\* leave_producer()
Leave(p) ==
    /\ at[p] = "leave"
    /\ at' = [at EXCEPT ![p] = "out"]
    /\ UNCHANGED <<closed, latched, tokens, posted, worker>>

-----------------------------------------------------------------------------
(* wait(): await_ready, await_suspend and the completion handler.           *)

\* wait_ready() on an open notification: adopt the receiver, then drain it.
WaitReady ==
    /\ pc = "running" /\ ~closed
    /\ stream' = TRUE
    /\ pc' = "drain"
    /\ UNCHANGED <<closed, latched, tokens, producer, got, completion, seen, errors>>

\* ensure_receiver() fails: the notification closes and the receiver retires.
AdoptFails ==
    /\ pc = "running" /\ ~closed /\ ~stream
    /\ closed' = TRUE
    /\ UNCHANGED <<latched, tokens, producer, worker>>

\* drain_receiver() in wait_ready() and in complete_wait().
AtDrain == pc = "drain" \/ (pc = "handler" /\ ~closed /\ completion = "ready")

Drain ==
    /\ AtDrain
    /\ got' = IF tokens > 0 THEN "token" ELSE "none"
    /\ tokens' = 0
    /\ pc' = IF pc = "drain" THEN "unlatch" ELSE "relatch"
    /\ UNCHANGED <<closed, latched, producer, stream, completion, seen, errors>>

\* The read fails and takes no token: wait_error_ is set.
DrainFails ==
    /\ AtDrain /\ errors < MaxErrors
    /\ errors' = errors + 1
    /\ got' = "error"
    /\ pc' = IF pc = "drain" THEN "unlatch" ELSE "relatch"
    /\ UNCHANGED <<closed, latched, tokens, producer, stream, completion, seen>>

\* An error reaches the coroutine as an exception, before it looks at the data.
Look == seen' = IF got = "error" THEN seen ELSE posted

\* pending_.exchange(false) in wait_ready(): notified, or go on to suspend.
Unlatch_KeepsLatch ==
    /\ pc = "unlatch"
    /\ latched' = (latched /\ got # "none")
    /\ IF got # "none" \/ latched THEN pc' = "running" /\ Look
                                  ELSE pc' = "suspending" /\ UNCHANGED seen
    /\ UNCHANGED <<closed, tokens, producer, got, stream, completion, errors>>

Unlatch ==
    /\ pc = "unlatch"
    /\ latched' = FALSE
    /\ IF got # "none" \/ latched THEN pc' = "running" /\ Look
                                  ELSE pc' = "suspending" /\ UNCHANGED seen
    /\ UNCHANGED <<closed, tokens, producer, got, stream, completion, errors>>

\* begin_wait(): the handler is armed without another poll of the receiver.
BeginWait ==
    /\ pc = "suspending"
    /\ pc' = "suspended" /\ completion' = "armed"
    /\ UNCHANGED <<closed, latched, tokens, producer, got, stream, seen, errors>>

\* ... or starting the asynchronous wait throws to the waiting coroutine.
BeginWaitThrows ==
    /\ pc = "suspending" /\ errors < MaxErrors
    /\ errors' = errors + 1
    /\ pc' = "running"
    /\ UNCHANGED <<closed, latched, tokens, producer, got, stream, completion, seen>>

\* complete_wait(): the handler runs on the worker and clears wait_pending_.
CompleteWait ==
    /\ pc = "suspended" /\ completion \in {"ready", "aborted", "error"}
    /\ pc' = "handler"
    /\ UNCHANGED <<closed, latched, tokens, producer, got, stream, completion, seen, errors>>

\* ... on a closed notification: retire the receiver and resume as closed.
CompleteClosed ==
    /\ pc = "handler" /\ closed
    /\ stream' = FALSE /\ completion' = "none"
    /\ pc' = "running"
    /\ UNCHANGED <<closed, latched, tokens, producer, got, seen, errors>>

\* ... with an error: the awaiting coroutine gets it as an exception.
CompleteError ==
    /\ pc = "handler" /\ ~closed /\ completion = "error"
    /\ completion' = "none"
    /\ pc' = "running"
    /\ UNCHANGED <<closed, latched, tokens, producer, got, stream, seen, errors>>

\* ... notified: after the drain the latch is cleared and the data looked at.
Relatch ==
    /\ pc = "relatch"
    /\ latched' = FALSE /\ Look
    /\ completion' = "none"
    /\ pc' = "running"
    /\ UNCHANGED <<closed, tokens, producer, got, stream, errors>>

\* close() on the worker: a latched wait is cancelled and retires the
\* receiver when it completes; otherwise the receiver retires here.
Close_ForgetsCancel ==
    /\ pc \in {"running", "suspended"} /\ ~closed
    /\ closed' = TRUE
    /\ stream' = (WaitPending /\ stream)
    /\ UNCHANGED <<latched, tokens, producer, pc, got, completion, seen, errors>>

Close ==
    /\ pc \in {"running", "suspended"} /\ ~closed
    /\ closed' = TRUE
    /\ IF WaitPending
       THEN completion' = (IF completion = "armed" THEN "aborted" ELSE completion) /\ UNCHANGED stream
       ELSE stream' = FALSE /\ UNCHANGED completion
    /\ UNCHANGED <<latched, tokens, producer, pc, got, seen, errors>>

-----------------------------------------------------------------------------
(* The reactor (external): an armed wait completes once the descriptor is   *)
(* readable, or with an error.                                              *)

Readable ==
    /\ completion = "armed" /\ tokens > 0
    /\ completion' = "ready"
    /\ UNCHANGED <<closed, latched, tokens, producer, pc, got, stream, seen, errors>>

ReactorError ==
    /\ completion = "armed" /\ errors < MaxErrors
    /\ completion' = "error" /\ errors' = errors + 1
    /\ UNCHANGED <<closed, latched, tokens, producer, pc, got, stream, seen>>

-----------------------------------------------------------------------------
Notify(p) == Latch(p) \/ CheckClosed(p) \/ Signal(p) \/ Leave(p)

WaitStep ==
    \/ WaitReady \/ Drain \/ DrainFails \/ Unlatch
    \/ BeginWait \/ BeginWaitThrows
    \/ CompleteWait \/ CompleteClosed \/ CompleteError \/ Relatch

WakeNext ==
    \/ \E p \in Producers : Enter(p) \/ Notify(p)
    \/ WaitStep \/ AdoptFails \/ Close
    \/ Readable \/ ReactorError

(* A producer inside notify() never blocks, the reactor reports a readable  *)
(* descriptor, and the owner waits again while the notification is open.    *)
WakeFairness ==
    /\ \A p \in Producers : WF_wakeVars(Notify(p))
    /\ WF_wakeVars(WaitStep)
    /\ WF_wakeVars(Readable)

WakeSpec == WakeInit /\ [][WakeNext]_wakeVars
WakeLiveSpec == WakeSpec /\ WakeFairness

-----------------------------------------------------------------------------
(* Properties.                                                              *)

\* The worker took a token and is between its drain and its exchange.
WorkerWillLook ==
    \/ pc = "unlatch" /\ got = "token"
    \/ pc = "relatch" /\ got # "error"

\* A set latch is never left without a wake: a token is in the channel, the
\* producer that set it has yet to write one, or the worker is between its
\* drain and its exchange and will find the latch.
LatchHasWake ==
    latched /\ ~closed =>
        \/ tokens > 0
        \/ \E p \in Producers : at[p] \in {"check", "signal"}
        \/ WorkerWillLook

\* No lost wake: while the worker sleeps, data it has not seen still has a
\* token in the channel or its producer inside notify().
NoLostWake ==
    pc = "suspended" /\ completion = "armed" /\ ~closed /\ seen < posted =>
        tokens > 0 \/ Inside # {}

\* The destructor's terms: closed with no wait outstanding, the receiver is
\* retired, and before the first wait there never was one.
RetiredWhenClosed == closed /\ pc = "running" => ~stream /\ completion = "none"

\* close() is worker-affine: it never falls between a drain and its exchange.
OpenWhileChecking == pc \in {"drain", "unlatch", "suspending", "relatch"} => ~closed

\* complete_wait() terminates on a handler without a latched wait: a handler
\* is armed or queued exactly while the wait is suspended or completing.
HandlerHasWait ==
    /\ completion # "none" <=> pc \in {"suspended", "handler", "relatch"}
    /\ pc # "running" => stream

\* Data the worker has not looked at keeps the latch, a token, a producer that
\* has yet to set the latch or signal, or a worker that is about to look.
UnseenIsPending ==
    seen < posted /\ ~closed =>
        \/ latched \/ tokens > 0
        \/ \E p \in Producers : at[p] \in {"latch", "check", "signal"}
        \/ WorkerWillLook

\* The inductive invariant behind the latch properties.
LatchInv ==
    /\ WakeTypeOK
    /\ LatchHasWake /\ UnseenIsPending
    /\ HandlerHasWait /\ RetiredWhenClosed /\ OpenWhileChecking

\* Data published by a producer that got in is seen, unless it closes first.
NotifySeen == \A k \in 1..MaxNotes : posted = k ~> seen >= k \/ closed

\* close() while a wait sleeps resumes it.
CloseResumes == closed /\ WaitPending ~> pc = "running"
=============================================================================
