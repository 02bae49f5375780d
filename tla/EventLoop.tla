------------------------------ MODULE EventLoop ------------------------------
(***************************************************************************)
(* The retirement of an event loop attached to a caller's io_context:      *)
(* ruvia-core/src/event_loop.cpp, event_loop_state.h and                   *)
(* worker_stop_chain.cpp, over the shutdown hooks of its worker.           *)
(*                                                                         *)
(* stop() may run on any thread, on the worker, or inside the stopping     *)
(* batch of a worker that failed.  It closes root admission, holds the     *)
(* retirement gate open with a count of its own, closes the worker, and    *)
(* seals the gate only after the notification batch and after the worker's *)
(* queued posts have drained.  The drained gate finalizes the stop chain   *)
(* on the worker, which detaches the context and drops its work guard.     *)
(*                                                                         *)
(* A post is admitted and published in one step here; WorkerQueue has the  *)
(* two.  The weak_ptr the callbacks lock is live until the claim is        *)
(* released, which every use of it precedes.                               *)
(***************************************************************************)
EXTENDS ShutdownHooks

CONSTANTS
    Loop,         \* the hook of event_loop_state
    Chain, Gate,  \* the callbacks request_stop() and stop() leave for the batch's end
    Roots,        \* root tasks given to start()
    Jobs          \* callers of defer_cleanup(): posted tasks, or threads

ASSUME LoopAssumption ==
    /\ Loop \in Hooks /\ Waiters = {Chain, Gate} /\ Chain # Gate
    /\ IsFiniteSet(Roots) /\ IsFiniteSet(Jobs) /\ Jobs \cap (Roots \cup Hooks) = {}
    /\ {"control", "finalize"} \cap (Hooks \cup Jobs) = {}

Listeners == Hooks \ {Loop}
Threads == {"worker", "other"}

VARIABLES
    pending, rootClosed, sealed, finalized,  \* event_loop_retirement
    finalizer,     \* finalize_: unset, set, with the thread that claimed it, spent
    requested, ran, finalization, released,  \* worker_stop_chain
    stopping,      \* stopping_
    stopPc, stopOn,  \* where the effective stop() call is; its thread, or the batch it runs in
    cb,            \* where the Gate callback is
    runner,        \* the thread of the stopping batch
    hand,          \* worker_stopping() has begun and not yet started or deferred
    listener,      \* event_loop_stop_listener
    reset,         \* registrations reset() was called on
    root, job,     \* a root task; a deferred cleanup
    queue,         \* handlers posted to the io_context
    workerPc,      \* where the handler of the finalizing stop control is
    failing,       \* a handler threw: queued posts are abandoned
    retained,      \* the context's service holds the loop
    destroyPc,     \* where shutdown_external_context() is
    aborted        \* std::terminate(), and its cause

gate == <<pending, rootClosed, sealed, finalized, finalizer>>
chain == <<requested, ran, finalization, released>>
call == <<stopping, stopPc, stopOn>>
users == <<listener, reset, root, job>>
context == <<workerPc, failing, retained, destroyPc>>
loopVars == <<gate, chain, call, cb, runner, hand, users, queue, context, aborted>>
allVars == <<vars, loopVars>>

Handlers == {"control", "finalize"} \cup Listeners \cup Jobs

LoopTypeOK ==
    /\ pending \in Nat
    /\ {rootClosed, sealed, finalized, requested, ran, finalization, released, stopping, hand,
        failing, retained} \subseteq BOOLEAN
    /\ finalizer \in {"unset", "set", "spent"} \cup Threads
    /\ stopPc \in {"none", "roots", "gate", "chain", "close", "batch", "wait", "then", "callback", "done", "refused"}
    /\ stopOn \in Threads \cup {"batch"} /\ runner \in Threads
    /\ cb \in {"none", "finish", "idle", "seal", "parked", "drained", "done"}
    /\ listener \in [Listeners -> {"idle", "begun", "running", "done", "cancelled"}]
    /\ reset \subseteq Listeners
    /\ root \in [Roots -> {"none", "leased", "posted", "running", "done"}]
    /\ job \in [Jobs -> {"none", "posted", "begun", "queued", "done", "refused", "denied"}]
    /\ queue \in Seq(Handlers)
    /\ workerPc \in {"free", "detach", "unlink", "claim"}
    /\ destroyPc \in {"none", "count", "abandon", "detach", "unlink", "done"}
    /\ aborted \in {"no", "context_pending", "begin", "underflow", "defer"}

LoopInit ==
    /\ InitLinked(<<Loop>>)
    /\ pending = 0 /\ rootClosed = FALSE /\ sealed = FALSE /\ finalized = FALSE /\ finalizer = "unset"
    /\ requested = FALSE /\ ran = FALSE /\ finalization = FALSE /\ released = FALSE
    /\ stopping = FALSE /\ stopPc = "none" /\ stopOn = "other" /\ cb = "none"
    /\ runner = "other" /\ hand = FALSE
    /\ listener = [h \in Listeners |-> "idle"] /\ reset = {}
    /\ root = [r \in Roots |-> "none"] /\ job = [j \in Jobs |-> "none"]
    /\ queue = << >> /\ workerPc = "free" /\ failing = FALSE /\ retained = TRUE
    /\ destroyPc = "none" /\ aborted = "no"

Posted == {r \in Roots : root[r] = "posted"} \cup {j \in Jobs : job[j] = "posted"}

CallbackRuns == cb \in {"finish", "idle", "seal"}

StopOver == stopPc \in {"none", "done", "refused"}
StopThread == IF stopOn = "batch" THEN runner ELSE stopOn

\* No call of the worker's own is unfinished.
WorkerIdle ==
    /\ aborted = "no" /\ destroyPc = "none" /\ workerPc = "free"
    /\ finalizer # "worker" /\ cb # "drained"
    /\ StopThread = "worker" => StopOver
    /\ runner = "worker" => stage \in {"none", "done"}

\* The worker can take its next handler.
WorkerFree == WorkerIdle /\ (failing => Posted = {})

-----------------------------------------------------------------------------
(* event_loop_retirement.  on is the thread that calls it.                  *)

\* take_finalize_locked()
Take(count, seal, on) ==
    IF seal /\ count = 0 /\ ~finalized
      THEN finalized' = TRUE /\ finalizer' = IF finalizer = "set" THEN on ELSE finalizer
      ELSE UNCHANGED <<finalized, finalizer>>

FinishCount(on) ==
    IF pending = 0
      THEN aborted' = "underflow" /\ UNCHANGED gate
      ELSE /\ pending' = pending - 1 /\ Take(pending - 1, sealed, on)
           /\ UNCHANGED <<rootClosed, sealed, aborted>>

\* The claimed callback, called without the gate's mutex: defer_finalize_stop().
DeferFinalize ==
    /\ aborted = "no" /\ finalizer \in Threads
    /\ queue' = IF finalizer = "worker" \/ attached THEN Append(queue, "finalize") ELSE queue
    /\ finalizer' = "spent"
    /\ UNCHANGED <<vars, pending, rootClosed, sealed, finalized, chain, call, cb, runner, hand, users,
                   context, aborted>>

\* defer_or_terminate()
Defer(handler, on) ==
    IF on = "worker" \/ attached
      THEN queue' = Append(queue, handler) /\ UNCHANGED aborted
      ELSE aborted' = "defer" /\ UNCHANGED queue

-----------------------------------------------------------------------------
(* event_loop_state::stop().  Only the call that sets stopping_ goes on.    *)

\* The public stop(), on a thread of the caller or in a handler.
Stop(on) ==
    /\ aborted = "no" /\ ~stopping /\ life[Loop] = "live"
    /\ on = "worker" => WorkerFree
    /\ stopping' = TRUE /\ stopPc' = "roots" /\ stopOn' = on
    /\ UNCHANGED <<vars, gate, chain, cb, runner, hand, users, queue, context, aborted>>

StopRoots ==
    /\ aborted = "no" /\ stopPc = "roots" /\ stopPc' = "gate"
    /\ rootClosed' = TRUE
    /\ UNCHANGED <<vars, pending, sealed, finalized, finalizer, chain, stopping, stopOn, cb, runner,
                   hand, users, queue, context, aborted>>

\* try_begin() and set_finalize(); a context already shut down refuses.
StopGate ==
    /\ aborted = "no" /\ stopPc = "gate"
    /\ IF sealed \/ finalized
         THEN stopPc' = "refused" /\ UNCHANGED <<pending, finalizer>>
         ELSE stopPc' = "chain" /\ pending' = pending + 1 /\ finalizer' = "set"
    /\ UNCHANGED <<vars, rootClosed, sealed, finalized, chain, stopping, stopOn, cb, runner, hand,
                   users, queue, context, aborted>>

\* worker_stop_chain::request_stop()
RequestChainStop ==
    /\ aborted = "no" /\ stopPc = "chain"
    /\ requested' = TRUE /\ stopPc' = IF requested THEN "then" ELSE "close"
    /\ UNCHANGED <<vars, gate, ran, finalization, released, stopping, stopOn, cb, runner, hand, users,
                   queue, context, aborted>>

\* context_.close(): this call runs the batch unless another one has begun it.
CloseWorker ==
    /\ aborted = "no" /\ stopPc = "close"
    /\ IF accepting
         THEN BeginStopping /\ runner' = StopThread /\ stopPc' = "batch"
         ELSE UNCHANGED <<vars, runner>> /\ stopPc' = "wait"
    /\ UNCHANGED <<gate, chain, stopping, stopOn, cb, hand, users, queue, context, aborted>>

CloseReturns ==
    /\ aborted = "no" /\ stopPc = "batch" /\ stage = "done" /\ stopPc' = "wait"
    /\ UNCHANGED <<vars, gate, chain, stopping, stopOn, cb, runner, hand, users, queue, context, aborted>>

AwaitBatchChain ==
    /\ aborted = "no" /\ stopPc = "wait" /\ stopPc' = "then"
    /\ WhenComplete(Chain)
    /\ IF active THEN UNCHANGED <<queue, aborted>> ELSE Defer("control", StopThread)
    /\ UNCHANGED <<gate, chain, stopping, stopOn, cb, runner, hand, users, context>>

AwaitBatchGate_AtOnce ==
    /\ aborted = "no" /\ stopPc = "then"
    /\ called' = called \cup {Gate}
    /\ stopPc' = "callback" /\ cb' = "finish"
    /\ UNCHANGED <<accepting, attached, active, parked, taken, registry, batch, detaching, heard>>
    /\ UNCHANGED <<gate, chain, stopping, stopOn, runner, hand, users, queue, context, aborted>>

AwaitBatchGate ==
    /\ aborted = "no" /\ stopPc = "then"
    /\ WhenComplete(Gate)
    /\ IF active
         THEN stopPc' = "done" /\ UNCHANGED cb
         ELSE stopPc' = "callback" /\ cb' = "finish"
    /\ UNCHANGED <<gate, chain, stopping, stopOn, runner, hand, users, queue, context, aborted>>

StopReturns ==
    /\ aborted = "no" /\ stopPc = "callback" /\ ~CallbackRuns /\ stopPc' = "done"
    /\ UNCHANGED <<vars, gate, chain, stopping, stopOn, cb, runner, hand, users, queue, context, aborted>>

-----------------------------------------------------------------------------
(* The Gate callback, on the thread of the batch or of stop().              *)

CallbackThread == IF stopPc = "callback" THEN StopThread ELSE runner

CallbackFinish ==
    /\ aborted = "no" /\ cb = "finish" /\ cb' = "idle"
    /\ FinishCount(CallbackThread)
    /\ UNCHANGED <<vars, chain, call, runner, hand, users, queue, context>>

AwaitIdle_Skipped ==
    /\ aborted = "no" /\ cb = "idle"
    /\ cb' = IF attached THEN "seal" ELSE "done"
    /\ UNCHANGED <<vars, gate, chain, call, runner, hand, users, queue, context, aborted>>

\* schedule_finalize_when_idle(); when_idle() on a detached context throws and
\* the throw is ignored.
AwaitIdle ==
    /\ aborted = "no" /\ cb = "idle"
    /\ cb' = IF ~attached THEN "done" ELSE IF Posted # {} THEN "parked" ELSE "seal"
    /\ UNCHANGED <<vars, gate, chain, call, runner, hand, users, queue, context, aborted>>

Seal ==
    /\ aborted = "no" /\ cb \in {"seal", "drained"} /\ cb' = "done"
    /\ sealed' = TRUE
    /\ Take(pending, TRUE, IF cb = "drained" THEN "worker" ELSE CallbackThread)
    /\ UNCHANGED <<vars, pending, rootClosed, chain, call, runner, hand, users, queue, context, aborted>>

\* The last queued post left the worker: its idle callbacks are taken.
Drained(left) == cb' = IF cb = "parked" /\ left = {} THEN "drained" ELSE cb

-----------------------------------------------------------------------------
(* The batch of the shutdown hooks                                          *)

\* event_loop_stop_listener::worker_stopping(); begin() terminates when the
\* gate refuses.
WorkerStopping(h) ==
    IF listener[h] # "idle" THEN UNCHANGED <<gate, listener, hand, aborted>>
    ELSE IF sealed \/ finalized THEN aborted' = "begin" /\ UNCHANGED <<gate, listener, hand>>
    ELSE /\ pending' = pending + 1
         /\ listener' = [listener EXCEPT ![h] = "begun"] /\ hand' = TRUE
         /\ UNCHANGED <<rootClosed, sealed, finalized, finalizer, aborted>>

NotifyListener ==
    /\ aborted = "no" /\ Callback /\ pin # Loop
    /\ IF stage = "stopping" THEN WorkerStopping(pin) ELSE UNCHANGED <<gate, listener, hand, aborted>>
    /\ UNCHANGED <<chain, call, cb, runner, reset, root, job, queue, context>>

\* event_loop_state::worker_stopping_complete(): stop() inside the batch.
NotifyLoop ==
    /\ aborted = "no" /\ Callback /\ pin = Loop
    /\ IF stage = "stopping_complete" /\ ~stopping
         THEN stopping' = TRUE /\ stopPc' = "roots" /\ stopOn' = "batch"
         ELSE UNCHANGED call
    /\ UNCHANGED <<gate, chain, cb, runner, hand, users, queue, context, aborted>>

Started(h) == listener' = [listener EXCEPT ![h] = IF @ = "begun" THEN "running" ELSE @]

\* start_callback() at once on the worker, deferred to it elsewhere.
HandOver ==
    /\ aborted = "no" /\ hand /\ hand' = FALSE
    /\ IF runner = "worker"
         THEN Started(pin) /\ UNCHANGED <<queue, aborted>>
         ELSE Defer(pin, runner) /\ UNCHANGED listener
    /\ UNCHANGED <<vars, gate, chain, call, cb, runner, reset, root, job, context>>

\* A callback that has not returned holds the walk: stop() called by the loop's
\* hook, before the batch's own waiters are called.
StopHoldsBatch == stopOn = "batch" /\ ~StopOver

WalkOn ==
    /\ aborted = "no" /\ ~hand /\ ~StopHoldsBatch
    /\ WalkFirst \/ WalkNext \/ DropPin \/ Finish
    /\ UNCHANGED loopVars

\* notify_waiters(): the chain's callback defers the stop control, the gate's
\* is taken step by step.
NotifyNext ==
    /\ aborted = "no" /\ (CallbackRuns => stopPc = "callback")
    /\ NotifyWaiters
    /\ IF taken # << >> /\ Head(taken) = Chain THEN Defer("control", runner)
                                              ELSE UNCHANGED <<queue, aborted>>
    /\ cb' = IF taken # << >> /\ Head(taken) = Gate THEN "finish" ELSE cb
    /\ UNCHANGED <<gate, chain, call, runner, hand, users, context>>

-----------------------------------------------------------------------------
(* Listeners, root tasks and cleanups                                       *)

\* register_stop_callback()
RegisterListener(h) ==
    /\ aborted = "no"
    /\ RegisterTest(h) \/ RegisterLink(h)
    /\ UNCHANGED loopVars

\* event_loop_stop_registration::reset(), event_loop_stop_listener::cancel()
ResetListener(h) ==
    /\ aborted = "no" /\ life[h] = "live" /\ mutex # h /\ h \notin reset
    /\ reset' = reset \cup {h}
    /\ listener' = IF listener[h] \in {"idle", "begun"} THEN [listener EXCEPT ![h] = "cancelled"] ELSE listener
    /\ IF listener[h] = "begun" THEN FinishCount("other") ELSE UNCHANGED <<gate, aborted>>
    /\ UNCHANGED <<vars, chain, call, cb, runner, hand, root, job, queue, context>>

\* The owner of a hook dies: a listener once no closure holds it, the loop
\* once its context has let it go.
ReleaseOwner(h) ==
    /\ aborted = "no"
    /\ \/ Unlink(h)
       \/ /\ Release(h)
          /\ IF h = Loop THEN ~retained /\ StopOver /\ destroyPc \in {"none", "done"}
                         ELSE h \in reset /\ listener[h] # "running" /\ h \notin Elems(queue)
    /\ UNCHANGED loopVars

\* The callback's task ends, or the callback threw.
ListenerEnds(h) ==
    /\ WorkerFree /\ listener[h] = "running"
    /\ listener' = [listener EXCEPT ![h] = "done"]
    /\ FinishCount("worker")
    /\ UNCHANGED <<vars, chain, call, cb, runner, hand, reset, root, job, queue, context>>

\* try_acquire(), then the post of start().
AcquireRoot(r) ==
    /\ aborted = "no" /\ root[r] = "none" /\ life[Loop] = "live"
    /\ ~finalized /\ ~rootClosed /\ ~sealed
    /\ pending' = pending + 1 /\ root' = [root EXCEPT ![r] = "leased"]
    /\ UNCHANGED <<vars, rootClosed, sealed, finalized, finalizer, chain, call, cb, runner, hand,
                   listener, reset, job, queue, context, aborted>>

\* A refused post drops the lease; the queue may be full at any time.
PostRoot(r) ==
    /\ aborted = "no" /\ root[r] = "leased"
    /\ \/ accepting /\ root' = [root EXCEPT ![r] = "posted"] /\ UNCHANGED <<gate, aborted>>
       \/ root' = [root EXCEPT ![r] = "done"] /\ FinishCount("other")
    /\ UNCHANGED <<vars, chain, call, cb, runner, hand, listener, reset, job, queue, context>>

StartRoot(r) ==
    /\ WorkerFree /\ root[r] = "posted"
    /\ root' = [root EXCEPT ![r] = "running"]
    /\ Drained(Posted \ {r})
    /\ UNCHANGED <<vars, gate, chain, call, runner, hand, listener, reset, job, queue, context, aborted>>

RootEnds(r) ==
    /\ WorkerFree /\ root[r] = "running"
    /\ root' = [root EXCEPT ![r] = "done"]
    /\ FinishCount("worker")
    /\ UNCHANGED <<vars, chain, call, cb, runner, hand, listener, reset, job, queue, context>>

PostJob(j) ==
    /\ aborted = "no" /\ job[j] = "none" /\ accepting
    /\ job' = [job EXCEPT ![j] = "posted"]
    /\ UNCHANGED <<vars, gate, chain, call, cb, runner, hand, listener, reset, root, queue, context, aborted>>

\* try_begin_cleanup() in a post the worker drains: the whole handler.
RunJob(j) ==
    /\ WorkerFree /\ job[j] = "posted"
    /\ IF finalized
         THEN job' = [job EXCEPT ![j] = "denied"] /\ UNCHANGED <<pending, queue>>
         ELSE /\ pending' = pending + 1
              /\ job' = [job EXCEPT ![j] = "queued"] /\ queue' = Append(queue, j)
    /\ Drained(Posted \ {j})
    /\ UNCHANGED <<vars, rootClosed, sealed, finalized, finalizer, chain, call, runner, hand,
                   listener, reset, root, context, aborted>>

\* try_begin_cleanup() on another thread
BeginCleanup(j) ==
    /\ aborted = "no" /\ job[j] = "none" /\ life[Loop] = "live"
    /\ job' = [job EXCEPT ![j] = IF finalized THEN "refused" ELSE "begun"]
    /\ pending' = IF finalized THEN pending ELSE pending + 1
    /\ UNCHANGED <<vars, rootClosed, sealed, finalized, finalizer, chain, call, cb, runner, hand,
                   listener, reset, root, queue, context, aborted>>

\* defer_if_attached(); a refused control is destroyed and leaves the gate.
DeferCleanup(j) ==
    /\ aborted = "no" /\ job[j] = "begun"
    /\ IF attached
         THEN /\ job' = [job EXCEPT ![j] = "queued"] /\ queue' = Append(queue, j)
              /\ UNCHANGED <<gate, aborted>>
         ELSE job' = [job EXCEPT ![j] = "refused"] /\ FinishCount("other") /\ UNCHANGED queue
    /\ UNCHANGED <<vars, chain, call, cb, runner, hand, listener, reset, root, context>>

-----------------------------------------------------------------------------
(* The worker                                                               *)

Pop(handler) == WorkerFree /\ queue # << >> /\ Head(queue) = handler /\ queue' = Tail(queue)

RunListener(h) ==
    /\ Pop(h) /\ Started(h)
    /\ UNCHANGED <<vars, gate, chain, call, cb, runner, hand, reset, root, job, context, aborted>>

RunCleanup(j) ==
    /\ Pop(j) /\ job' = [job EXCEPT ![j] = "done"]
    /\ FinishCount("worker")
    /\ UNCHANGED <<vars, chain, call, cb, runner, hand, listener, reset, root, context>>

\* apply_stop(): the admission hook finds stop() under way.  Once finalization
\* was asked for, the finalize hook follows.
ApplyStop ==
    /\ Pop("control")
    /\ ran' = TRUE
    /\ IF finalization /\ ~released
         THEN released' = TRUE /\ workerPc' = "detach"
         ELSE UNCHANGED <<released, workerPc>>
    /\ UNCHANGED <<vars, gate, requested, finalization, call, cb, runner, hand, users, failing, retained,
                   destroyPc, aborted>>

FinalizeChain_NeverDefers ==
    /\ WorkerFree /\ queue # << >> /\ Head(queue) = "finalize"
    /\ finalization' = TRUE /\ queue' = Tail(queue)
    /\ UNCHANGED <<vars, gate, requested, ran, released, call, cb, runner, hand, users, context, aborted>>

\* finalize_stop(), worker_stop_chain::finalize(): a stop control that has
\* not run yet consumes the request itself.
FinalizeChain ==
    /\ WorkerFree /\ queue # << >> /\ Head(queue) = "finalize"
    /\ finalization' = TRUE
    /\ queue' = IF ran /\ ~released /\ ~finalization THEN Append(Tail(queue), "control") ELSE Tail(queue)
    /\ UNCHANGED <<vars, gate, requested, ran, released, call, cb, runner, hand, users, context, aborted>>

\* The attached loop's finalize hook: detach, then release the claim.
FinalizeHook ==
    /\ aborted = "no"
    /\ \/ workerPc = "detach" /\ DetachFlags /\ workerPc' = "unlink" /\ UNCHANGED retained
       \/ workerPc = "unlink" /\ DetachHooks /\ workerPc' = "claim" /\ UNCHANGED retained
       \/ workerPc = "claim" /\ workerPc' = "free" /\ retained' = FALSE /\ UNCHANGED vars
    /\ UNCHANGED <<gate, chain, call, cb, runner, hand, users, queue, failing, destroyPc, aborted>>

\* A handler throws: the batch runs here unless another thread has begun it.
WorkerFails ==
    /\ WorkerFree /\ attached /\ ~failing /\ failing' = TRUE
    /\ IF accepting THEN BeginStopping /\ runner' = "worker" ELSE UNCHANGED <<vars, runner>>
    /\ UNCHANGED <<gate, chain, call, cb, hand, users, queue, workerPc, retained, destroyPc, aborted>>

\* abandon_queued() after the batch: a post is destroyed, a root's lease with it.
AbandonPost(x) ==
    /\ WorkerIdle /\ failing /\ x \in Posted
    /\ IF x \in Roots
         THEN root' = [root EXCEPT ![x] = "done"] /\ FinishCount("worker") /\ UNCHANGED job
         ELSE job' = [job EXCEPT ![x] = "done"] /\ UNCHANGED <<root, gate, aborted>>
    /\ Drained(Posted \ {x})
    /\ UNCHANGED <<vars, chain, call, runner, hand, listener, reset, queue, context>>

-----------------------------------------------------------------------------
(* shutdown_external_context(): the io_context is destroyed under the loop.  *)

CloseAdmission ==
    /\ WorkerFree /\ retained
    /\ rootClosed' = TRUE /\ sealed' = TRUE /\ finalized' = TRUE
    /\ finalizer' = IF finalizer \in Threads THEN finalizer ELSE "spent"
    /\ retained' = FALSE /\ destroyPc' = "count"
    /\ UNCHANGED <<vars, pending, chain, call, cb, runner, hand, users, queue, workerPc, failing, aborted>>

CountPending ==
    /\ aborted = "no" /\ destroyPc = "count" /\ destroyPc' = "abandon"
    /\ aborted' = IF pending = 0 THEN "no" ELSE "context_pending"
    /\ UNCHANGED <<vars, gate, chain, call, cb, runner, hand, users, queue, workerPc, failing, retained>>

Abandon ==
    /\ aborted = "no" /\ destroyPc = "abandon" /\ destroyPc' = "detach"
    /\ stopping' = TRUE /\ requested' = TRUE /\ released' = TRUE
    /\ UNCHANGED <<vars, gate, ran, finalization, stopPc, stopOn, cb, runner, hand, users, queue,
                   workerPc, failing, retained, aborted>>

\* Detached, the queued posts are destroyed; so are the handlers.
DetachDestroyed ==
    /\ aborted = "no"
    /\ \/ destroyPc = "detach" /\ DetachFlags /\ destroyPc' = "unlink" /\ UNCHANGED <<job, queue>>
       \/ /\ destroyPc = "unlink" /\ DetachHooks /\ destroyPc' = "done" /\ queue' = << >>
          /\ job' = [j \in Jobs |-> IF job[j] = "posted" THEN "done" ELSE job[j]]
    /\ UNCHANGED <<gate, chain, call, cb, runner, hand, listener, reset, root, workerPc, failing, retained,
                   aborted>>

-----------------------------------------------------------------------------
StopStep ==
    \/ StopRoots \/ StopGate \/ RequestChainStop \/ CloseWorker \/ CloseReturns
    \/ AwaitBatchChain \/ AwaitBatchGate \/ StopReturns

CallbackStep == CallbackFinish \/ AwaitIdle \/ Seal \/ DeferFinalize

LoopBatchStep == NotifyListener \/ NotifyLoop \/ HandOver \/ WalkOn \/ NotifyNext

WorkerStep ==
    \/ ApplyStop \/ FinalizeChain \/ FinalizeHook
    \/ \E h \in Listeners : RunListener(h)
    \/ \E j \in Jobs : RunCleanup(j)

PostStep(x) ==
    \/ AbandonPost(x)
    \/ x \in Roots /\ StartRoot(x)
    \/ x \in Jobs /\ RunJob(x)

DestroyStep == CountPending \/ Abandon \/ DetachDestroyed

LoopNext ==
    \/ \E on \in Threads : Stop(on)
    \/ StopStep \/ CallbackStep \/ LoopBatchStep \/ WorkerStep \/ WorkerFails
    \/ \E h \in Listeners : RegisterListener(h) \/ ResetListener(h) \/ ListenerEnds(h)
    \/ \E h \in Hooks : ReleaseOwner(h)
    \/ \E r \in Roots : AcquireRoot(r) \/ PostRoot(r) \/ RootEnds(r)
    \/ \E j \in Jobs : PostJob(j) \/ BeginCleanup(j) \/ DeferCleanup(j)
    \/ \E x \in Roots \cup Jobs : PostStep(x)
    \/ CloseAdmission \/ DestroyStep

LoopSpec == LoopInit /\ [][LoopNext]_allVars

(* A thread inside a call goes on, the context is run until it is out of    *)
(* work, and root tasks and stop callbacks end.  Nobody has to stop, fail,  *)
(* register, reset or destroy.                                              *)
LoopFairness ==
    /\ WF_allVars(StopStep) /\ WF_allVars(CallbackStep) /\ WF_allVars(WorkerStep) /\ WF_allVars(DestroyStep)
    /\ SF_allVars(LoopBatchStep)
    /\ \A h \in Listeners : WF_allVars(ListenerEnds(h)) /\ WF_allVars(RegisterListener(h) /\ mutex = h)
    /\ \A h \in Hooks : WF_allVars(ReleaseOwner(h) /\ life[h] = "expired")
    /\ \A r \in Roots : WF_allVars(PostRoot(r)) /\ WF_allVars(RootEnds(r))
    /\ \A j \in Jobs : WF_allVars(DeferCleanup(j))
    /\ \A x \in Roots \cup Jobs : WF_allVars(PostStep(x))

LoopLiveSpec == LoopSpec /\ LoopFairness

-----------------------------------------------------------------------------
(* Properties.                                                              *)

\* A retirement ends the process in one case, a context destroyed with work
\* pending (event_loop.cpp:282): begin() is never refused by a gate sealed
\* under the batch (event_loop_state.h:57), finish() never finds the count
\* empty (:85), and nothing is deferred to a detached context.
TerminatesOnlyOnPending == aborted # "no" => destroyPc \in {"count", "abandon"} /\ pending > 0

\* The claim at event_loop.cpp:337: every draining post can acquire its cleanup
\* lease, whatever else has already left the gate.
DrainingPostCleansUp == \A j \in Jobs : job[j] # "denied"

\* When the gate is drained nothing it protects is left: no root or stop
\* callback runs and no cleanup is queued (event_loop_state.h:25).  The count
\* agrees with what is outstanding at every step.
Count(D, f, states) == Cardinality({x \in D : f[x] \in states})
StopHolds == stopPc \notin {"none", "roots", "gate", "refused"} /\ cb \in {"none", "finish"}

Outstanding ==
    Count(Roots, root, {"leased", "posted", "running"}) + Count(Jobs, job, {"begun", "queued"})
      + Count(Listeners, listener, {"begun", "running"}) + (IF StopHolds THEN 1 ELSE 0)

GateCounts ==
    /\ pending = Outstanding
    /\ aborted = "no" /\ finalized /\ destroyPc # "count" => pending = 0

\* worker_stop_chain.h:59: at most one stop control is pending at a time, and
\* none once the chain may be destroyed.  No other handler is queued twice.
OneControl ==
    /\ Distinct(queue)
    /\ destroyPc = "none" /\ released => "control" \notin Elems(queue)

\* Whose turn it is with the stop control and the finalizer: the control is
\* queued by the batch's end or by the finalizer, the finalizer by the gate.
HandlersAgree ==
    /\ "control" \in Elems(queue) \/ ran => Chain \in called
    /\ ran /\ ~finalization => "control" \notin Elems(queue)
    /\ destroyPc = "none" /\ released => ran
    /\ "finalize" \in Elems(queue) \/ finalization => finalizer = "spent"
    /\ "finalize" \in Elems(queue) => ~finalization
    /\ \A j \in Jobs : j \in Elems(queue) => job[j] = "queued"
    /\ \A h \in Listeners : h \in Elems(queue) => listener[h] # "idle"
    /\ hand => /\ pin \in Listeners /\ told /\ stage = "stopping"
               /\ listener[pin] # "idle" /\ pin \notin Elems(queue)

\* The gate shuts for one of two reasons, the drained callback or a destroyed
\* context, and the context is detached only behind it.
GateShut ==
    /\ finalized => sealed
    /\ finalizer \in Threads \cup {"spent"} => finalized
    /\ ~attached => finalized /\ destroyPc # "count" /\ (retained => workerPc \in {"unlink", "claim"})
    /\ workerPc # "free" => finalized /\ destroyPc = "none"
    /\ destroyPc # "none" => finalized /\ ~retained
    /\ sealed /\ destroyPc = "none" => cb = "done"
    /\ requested /\ destroyPc = "none" => stopPc \notin {"none", "roots", "gate", "chain"}

\* Where stop() is, against the batch it may run, wait for or be called in.
StopAgrees ==
    /\ stopPc # "none" => stopping
    /\ cb # "none" => stopPc \in {"callback", "done"} /\ ~active /\ ~accepting
    /\ stopPc = "chain" => ~requested
    /\ stopPc \in {"batch", "wait", "then", "callback", "done"} \/ stopOn = "batch" => ~accepting
    /\ Gate \in Elems(parked) \cup Elems(taken) => stopPc = "done" /\ cb = "none"
    /\ stage \notin {"none", "done"} /\ runner = "other" => stopPc = "batch" /\ stopOn = "other"
    /\ destroyPc # "none" =>
          /\ StopThread = "worker" => StopOver
          /\ runner = "worker" => stage \in {"none", "done"}

\* The gate is sealed over a drained queue.
PostsDrained ==
    cb \in {"seal", "drained"} \/ (sealed /\ destroyPc = "none") => Posted = {}

\* The gate and the chain account for everything they keep alive, and let
\* whatever still drains in.
GateInv ==
    /\ LoopTypeOK /\ GateCounts /\ OneControl /\ DrainingPostCleansUp
    /\ HandlersAgree /\ GateShut /\ StopAgrees /\ PostsDrained

\* A stopped loop retires: its chain gives up the work guard and the context
\* lets the loop go, unless the process ended.
Retires == stopping ~> (released /\ ~retained) \/ aborted # "no"
=============================================================================
