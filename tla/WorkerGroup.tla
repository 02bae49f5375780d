----------------------------- MODULE WorkerGroup -----------------------------
(***************************************************************************)
(* Worker runtimes and the group that takes them through one lifecycle     *)
(* (ruvia-core/src/worker_runtime.cpp and worker_group.cpp).               *)
(*                                                                         *)
(* The lifecycle thread starts the group, lets it serve, joins and destroys*)
(* it.  Meanwhile any other thread stops the group, or stops, fails or     *)
(* joins one member, and every owner thread runs its member.  Stopping     *)
(* calls itself: a member that stops tells the group, which stops every    *)
(* member, from inside whatever call the thread was already in.  A thread  *)
(* is therefore a stack of frames, and one action is one critical section  *)
(* of a runtime's or the group's mutex, made by the frame on top.          *)
(*                                                                         *)
(* The dispatcher and the stop chain under a runtime are modules of their  *)
(* own; here they are what a runtime sees of them: admission, the batch of *)
(* shutdown hooks it runs once, and a work guard that is released on the   *)
(* owner after the stop was requested and that batch is over.              *)
(***************************************************************************)
EXTENDS Naturals, Sequences, FiniteSets

CONSTANTS
    Runtimes,      \* worker_runtime objects; a runtime names its owner thread too
    Members,       \* members_
    Lifecycle,     \* the lifecycle thread
    Other,         \* any other thread that calls the group or a runtime
    Failures,      \* exceptions, up to equivalent_failures()
    MaxEvents,     \* bound on the calls of Other, the exceptions raised and the
                   \* stops requested from shutdown hooks
    Null

Threads == Runtimes \cup {Lifecycle, Other}

ASSUME GroupAssumption ==
    /\ Members \in Seq(Runtimes)
    /\ \A m \in Runtimes : \E i \in DOMAIN Members : Members[i] = m
    /\ \A i, j \in DOMAIN Members : Members[i] = Members[j] => i = j
    /\ Lifecycle # Other /\ {Lifecycle, Other} \cap Runtimes = {}
    /\ {Null, "none", "true", "false", "stopped"} \cap (Runtimes \cup Failures) = {}
    /\ MaxEvents \in Nat

VARIABLES
    stack,                   \* the calls each thread is in, innermost last
    \* worker_runtime, per member
    lifecycle,               \* state_
    rt_dispatching,          \* stop_dispatching_
    ready, serving,          \* ready_, serving_
    failure, observed,       \* failure_
    rt_joining, rt_joined,   \* joining_, joined_
    bound, notifications,    \* group_ # nullptr, group_notifications_
    owner,                   \* the owner thread
    \* what a runtime sees of its dispatcher and stop chain
    accepting, notifying,    \* admission; the shutdown hooks are being run
    chain,                   \* the stop chain's work guard
    control,                 \* a serve control queued on the context
    \* worker_group
    stopping, dispatching,   \* stopping_, stop_dispatching_
    member_stopped,          \* member_stopped_
    group_failure,           \* failure_ and failed_member_
    stage, events,           \* the lifecycle thread's last call; events so far
    \* history
    outcome,                 \* what the last phase call ended with
    delivered, reported,     \* failures thrown or returned to the caller; reported as unhandled
    independent,             \* members whose stop did not come from the group
    asked                    \* the group was asked to stop

phases == <<ready, serving>>
failed == <<failure, observed>>
joins == <<rt_joining, rt_joined>>
binding == <<bound, notifications>>
worker == <<accepting, notifying, chain, control>>
group == <<stopping, dispatching, member_stopped, group_failure>>
history == <<outcome, delivered, reported, independent, asked>>
runtime == <<lifecycle, rt_dispatching, phases, failed, joins, binding, owner>>
groupVars == <<stack, runtime, worker, group, stage, events, history>>

\* Where a call can be, and who made it.
GroupFrames == {"group_stop", "group_members", "member_failed", "member_stopping"}
StopFrames == {"stop", "notify_stop", "stop_notified", "close", "chain", "abort"}
RecordFrames == {"record", "notify_failure", "failure_notified"}
PhaseFrames == {"launch", "member_start", "throw", "wait", "serve_member", "request_serve",
                "post_control", "settle", "settling", "verdict"}
JoinFrames == {"group_join", "join_members", "report"}
DestroyFrames == {"unbind", "unbound"}
LifecycleFrames == PhaseFrames \cup JoinFrames \cup DestroyFrames

MemberFrames == StopFrames \cup RecordFrames
                \cup {"hooks", "crash", "serve", "join_wait", "join_thread", "member_failed", "member_stopping"}
StoppedFrames == (StopFrames \ {"stop"}) \cup {"member_stopping", "join_thread"}
FailureFrames == RecordFrames \cup {"crash", "member_failed"}
Labels == GroupFrames \cup MemberFrames \cup LifecycleFrames
Kinds == {"group", "member", "last", "join", "fail", "stop", "hooks", "serve", "start", "launch", "destroy"}

Frames == [at : Labels, kind : Kinds,
           m : Runtimes \cup {Null}, i : Nat, flag : BOOLEAN, f : Failures \cup {Null}]

Phases == {"pending", "reached", "aborted"}

GroupTypeOK ==
    /\ stack \in [Threads -> Seq(Frames)]
    /\ lifecycle \in [Runtimes -> {"ready", "running", "stopping", "stopped"}]
    /\ rt_dispatching \subseteq Runtimes
    /\ ready \in [Runtimes -> Phases] /\ serving \in [Runtimes -> Phases]
    /\ failure \in [Runtimes -> Failures \cup {Null}] /\ observed \in [Runtimes -> BOOLEAN]
    /\ rt_joining \subseteq Runtimes /\ rt_joined \subseteq Runtimes
    /\ bound \subseteq Runtimes /\ notifications \in [Runtimes -> Nat]
    /\ owner \in [Runtimes -> {"none", "running", "done"}]
    /\ accepting \subseteq Runtimes /\ notifying \subseteq Runtimes /\ control \subseteq Runtimes
    /\ chain \in [Runtimes -> {"open", "requested", "released"}]
    /\ stopping \in BOOLEAN /\ dispatching \in BOOLEAN /\ member_stopped \in BOOLEAN
    /\ group_failure \in {<< >>} \cup (Failures \X Runtimes)
    /\ stage \in {"cold", "started", "serving", "over", "joined", "destroyed"}
    /\ events \in 0..MaxEvents
    /\ outcome \in Failures \cup {"none", "true", "false", "stopped"}
    /\ delivered \subseteq Failures /\ reported \subseteq Failures
    /\ independent \subseteq Runtimes /\ asked \in BOOLEAN

\* Every member has been added and bound to the group.
GroupInit ==
    /\ stack = [t \in Threads |-> << >>]
    /\ lifecycle = [m \in Runtimes |-> "ready"]
    /\ rt_dispatching = {}
    /\ ready = [m \in Runtimes |-> "pending"] /\ serving = [m \in Runtimes |-> "pending"]
    /\ failure = [m \in Runtimes |-> Null] /\ observed = [m \in Runtimes |-> FALSE]
    /\ rt_joining = {} /\ rt_joined = {}
    /\ bound = Runtimes /\ notifications = [m \in Runtimes |-> 0]
    /\ owner = [m \in Runtimes |-> "none"]
    /\ accepting = Runtimes /\ notifying = {} /\ control = {}
    /\ chain = [m \in Runtimes |-> "open"]
    /\ stopping = FALSE /\ dispatching = FALSE /\ member_stopped = FALSE
    /\ group_failure = << >>
    /\ stage = "cold" /\ events = 0
    /\ outcome = "none" /\ delivered = {} /\ reported = {} /\ independent = {} /\ asked = FALSE

-----------------------------------------------------------------------------
(* Frames: where the call is, who called, its runtime, the index of its     *)
(* loop over the members, a flag, and a failure.                            *)

Frame(at, kind, m) == [at |-> at, kind |-> kind, m |-> m, i |-> 1, flag |-> FALSE, f |-> Null]

Under(S) == SubSeq(S, 1, Len(S) - 1)
Top(t) == stack[t][Len(stack[t])]
At(t, label) == stack[t] # << >> /\ Top(t).at = label
Mine(t) == Top(t).m
Looping(frame) == frame.i <= Len(Members)

Event == events < MaxEvents /\ events' = events + 1

GroupStop == Frame("group_stop", "group", Null)
RuntimeStop(m, kind) == Frame("stop", kind, m)

\* The loops over the members, request_stop() of the group and join(), step on
\* without a step of their own.  A repeated group stop has nothing to do after
\* its last member, so that call ends it.
Continue(S) ==
    LET top == S[Len(S)]
        m == Members[top.i]
        next == Append(Under(S), [top EXCEPT !.i = @ + 1])
    IN  IF S = << >> \/ ~Looping(top) THEN S
        ELSE CASE top.at = "group_members" /\ ~top.flag /\ top.i = Len(Members) ->
                    Append(Under(S), RuntimeStop(m, "last"))
               [] top.at = "group_members" /\ (top.flag \/ top.i # Len(Members)) ->
                    Append(next, RuntimeStop(m, "member"))
               [] top.at = "join_members" ->
                    Append(Append(next, Frame("join_wait", "join", m)), RuntimeStop(m, "join"))
               [] OTHER -> S

\* The frame on top becomes the given frames; none: the call returns.
Become(t, frames) == stack' = [stack EXCEPT ![t] = Continue(Under(@) \o frames)]
Goto(t, label) == Become(t, <<[Top(t) EXCEPT !.at = label]>>)
Return(t) == Become(t, << >>)
\* Call, and go on at a label afterwards.
CallThen(t, callee, label) == Become(t, <<[Top(t) EXCEPT !.at = label], callee>>)
Begin(t, frames) == stack[t] = << >> /\ stack' = [stack EXCEPT ![t] = frames]

-----------------------------------------------------------------------------
(* worker_group::request_stop                                               *)

GroupStopBegin_RepeatWaits(t) ==
    /\ At(t, "group_stop") /\ ~dispatching
    /\ stopping' = TRUE
    /\ dispatching' = (dispatching \/ ~stopping)
    /\ Become(t, <<[Top(t) EXCEPT !.at = "group_members", !.flag = ~stopping]>>)
    /\ UNCHANGED <<runtime, worker, member_stopped, group_failure, stage, events, history>>

\* The first caller wins the dispatch; every caller stops every member.
GroupStopBegin(t) ==
    /\ At(t, "group_stop")
    /\ stopping' = TRUE
    /\ dispatching' = (dispatching \/ ~stopping)
    /\ Become(t, <<[Top(t) EXCEPT !.at = "group_members", !.flag = ~stopping]>>)
    /\ UNCHANGED <<runtime, worker, member_stopped, group_failure, stage, events, history>>

\* The winner ends the dispatch when every member has been stopped.
GroupStopEnds(t) ==
    /\ At(t, "group_members") /\ ~Looping(Top(t))
    /\ dispatching' = FALSE
    /\ Return(t)
    /\ UNCHANGED <<runtime, worker, stopping, member_stopped, group_failure, stage,
                   events, history>>

\* member_failed(): the first failure is the group's.
MemberFailed(t) ==
    /\ At(t, "member_failed")
    /\ group_failure' = IF group_failure = << >> THEN <<Top(t).f, Mine(t)>> ELSE group_failure
    /\ Become(t, <<GroupStop>>)
    /\ UNCHANGED <<runtime, worker, stopping, dispatching, member_stopped, stage, events,
                   history>>

\* member_stopping(): a stop the group did not order.
MemberStopping(t) ==
    /\ At(t, "member_stopping")
    /\ member_stopped' = (member_stopped \/ ~stopping)
    /\ Become(t, <<GroupStop>>)
    /\ UNCHANGED <<runtime, worker, stopping, dispatching, group_failure, stage, events,
                   history>>

-----------------------------------------------------------------------------
(* worker_runtime::request_stop                                             *)

Stoppable(m) == lifecycle[m] \in {"ready", "running"}

\* Called from the group's own stop.
FromGroup(t) == Top(t).kind \in {"member", "last"}

StopBegin_RepeatReturns(t) ==
    LET m == Mine(t) IN
    /\ At(t, "stop")
    /\ IF Stoppable(m)
         THEN /\ lifecycle' = [lifecycle EXCEPT ![m] = "stopping"]
              /\ rt_dispatching' = rt_dispatching \cup {m}
              /\ independent' = IF FromGroup(t) THEN independent ELSE independent \cup {m}
              /\ Become(t, <<[Top(t) EXCEPT !.at = "notify_stop", !.flag = TRUE]>>)
         ELSE /\ Return(t) /\ UNCHANGED <<lifecycle, rt_dispatching, independent>>
    /\ UNCHANGED <<phases, failed, joins, binding, owner, worker, group, stage, events,
                   outcome, delivered, reported, asked>>

\* One caller wins the transition and the dispatch; the others go on to close.
StopBegin(t) ==
    LET m == Mine(t) IN
    /\ At(t, "stop")
    /\ IF Stoppable(m)
         THEN /\ lifecycle' = [lifecycle EXCEPT ![m] = "stopping"]
              /\ rt_dispatching' = rt_dispatching \cup {m}
              /\ independent' = IF FromGroup(t) THEN independent ELSE independent \cup {m}
              /\ Become(t, <<[Top(t) EXCEPT !.at = "notify_stop", !.flag = TRUE]>>)
         ELSE /\ Goto(t, "close") /\ UNCHANGED <<lifecycle, rt_dispatching, independent>>
    /\ UNCHANGED <<phases, failed, joins, binding, owner, worker, group, stage, events,
                   outcome, delivered, reported, asked>>

\* notify_group(): counted, so that the group cannot go away meanwhile.
NotifyGroup(t, callee, notified, unbound) ==
    LET m == Mine(t) IN
    /\ IF m \in bound
         THEN notifications' = [notifications EXCEPT ![m] = @ + 1] /\ CallThen(t, callee, notified)
         ELSE Become(t, unbound) /\ UNCHANGED notifications
    /\ UNCHANGED <<lifecycle, rt_dispatching, phases, failed, joins, bound, owner, worker,
                   group, stage, events, history>>

GroupNotified(t, frames) ==
    /\ notifications' = [notifications EXCEPT ![Mine(t)] = @ - 1]
    /\ Become(t, frames)
    /\ UNCHANGED <<lifecycle, rt_dispatching, phases, failed, joins, bound, owner, worker,
                   group, stage, events, history>>

NotifyStop(t) ==
    LET close == <<[Top(t) EXCEPT !.at = "close"]>> IN
    \/ At(t, "notify_stop")
       /\ NotifyGroup(t, Frame("member_stopping", "group", Mine(t)), "stop_notified", close)
    \/ At(t, "stop_notified") /\ GroupNotified(t, close)

\* context_.close(): whoever closes admission runs the shutdown hooks.
CloseThen(t, m, frames) ==
    /\ accepting' = accepting \ {m}
    /\ IF m \in accepting
         THEN /\ notifying' = notifying \cup {m}
              /\ Become(t, frames \o <<Frame("hooks", "hooks", m)>>)
         ELSE Become(t, frames) /\ UNCHANGED notifying
    /\ UNCHANGED <<runtime, chain, control, group, stage, events, history>>

\* Every caller closes; the winner goes on with the stop chain.
StopCloses(t) ==
    /\ At(t, "close")
    /\ CloseThen(t, Mine(t), IF Top(t).flag THEN <<[Top(t) EXCEPT !.at = "chain"]>> ELSE << >>)

\* A shutdown hook may repeat the group's request_stop().
HookReenters(t) ==
    /\ At(t, "hooks") /\ Event
    /\ asked' = TRUE /\ stack' = [stack EXCEPT ![t] = Append(@, GroupStop)]
    /\ UNCHANGED <<runtime, worker, group, stage, outcome, delivered, reported, independent>>

HooksReturn(t) ==
    /\ At(t, "hooks")
    /\ notifying' = notifying \ {Mine(t)}
    /\ Return(t)
    /\ UNCHANGED <<runtime, accepting, chain, control, group, stage, events, history>>

\* stop_.request_stop()
RequestChain(t) ==
    /\ At(t, "chain")
    /\ chain' = [chain EXCEPT ![Mine(t)] = "requested"]
    /\ Goto(t, "abort")
    /\ UNCHANGED <<runtime, accepting, notifying, control, group, stage, events, history>>

Aborted(phase) == IF phase = "pending" THEN "aborted" ELSE phase

AbortPhases(m) ==
    /\ ready' = [ready EXCEPT ![m] = Aborted(@)]
    /\ serving' = [serving EXCEPT ![m] = Aborted(@)]

\* abort_phases() and the end of the dispatch
StopDispatched(t) ==
    /\ At(t, "abort")
    /\ AbortPhases(Mine(t))
    /\ rt_dispatching' = rt_dispatching \ {Mine(t)}
    /\ Return(t)
    /\ UNCHANGED <<lifecycle, failed, joins, binding, owner, worker, group, stage,
                   events, history>>

-----------------------------------------------------------------------------
(* fail() and record_failure()                                              *)

\* A failure of runtime m; held: a caller already has it.
Recording(m, kind, f, held) == [Frame("record", kind, m) EXCEPT !.f = f, !.flag = held]

\* fail() and start() request the stop next; join() only records.
AfterRecord(t) == IF Top(t).kind = "fail" THEN <<RuntimeStop(Mine(t), "fail")>> ELSE << >>

Record_KeepsObserved(t) ==
    LET m == Mine(t) IN
    /\ At(t, "record")
    /\ IF failure[m] = Null
         THEN /\ failure' = [failure EXCEPT ![m] = Top(t).f]
              /\ observed' = [observed EXCEPT ![m] = @ \/ Top(t).flag]
              /\ Goto(t, "notify_failure")
         ELSE Become(t, AfterRecord(t)) /\ UNCHANGED failed
    /\ UNCHANGED <<lifecycle, rt_dispatching, phases, joins, binding, owner, worker, group,
                   stage, events, history>>

\* The first failure of a runtime wins.
Record(t) ==
    LET m == Mine(t) IN
    /\ At(t, "record")
    /\ IF failure[m] = Null
         THEN /\ failure' = [failure EXCEPT ![m] = Top(t).f]
              /\ observed' = [observed EXCEPT ![m] = Top(t).flag]
              /\ Goto(t, "notify_failure")
         ELSE Become(t, AfterRecord(t)) /\ UNCHANGED failed
    /\ UNCHANGED <<lifecycle, rt_dispatching, phases, joins, binding, owner, worker, group,
                   stage, events, history>>

NotifyFailure(t) ==
    \/ At(t, "notify_failure")
       /\ NotifyGroup(t, [Frame("member_failed", "group", Mine(t)) EXCEPT !.f = Top(t).f],
                      "failure_notified", AfterRecord(t))
    \/ At(t, "failure_notified") /\ GroupNotified(t, AfterRecord(t))

-----------------------------------------------------------------------------
(* The owner thread: run()                                                  *)


\* A handler or the startup hook throws.
OwnerThrows(m) ==
    /\ owner[m] = "running" /\ Event
    /\ \E f \in Failures : Begin(m, <<[Frame("crash", "fail", m) EXCEPT !.f = f]>>)
    /\ UNCHANGED <<runtime, worker, group, stage, history>>

\* run_context() closes admission before it hands the failure over.
Crash(t) ==
    /\ At(t, "crash")
    /\ CloseThen(t, Mine(t), <<Recording(Mine(t), "fail", Top(t).f, FALSE)>>)

\* The startup work completes; a stop comes first and it counts for nothing.
MarkReady(m) ==
    /\ owner[m] = "running" /\ stack[m] = << >>
    /\ ready[m] = "pending" /\ lifecycle[m] = "running"
    /\ ready' = [ready EXCEPT ![m] = "reached"]
    /\ UNCHANGED <<stack, lifecycle, rt_dispatching, serving, failed, joins, binding, owner,
                   worker, group, stage, events, history>>

\* apply_serve(): looks at the state, runs serve_, looks again.
ApplyServe(m) ==
    /\ owner[m] = "running" /\ m \in control
    /\ control' = control \ {m}
    /\ IF lifecycle[m] = "running" THEN Begin(m, <<Frame("serve", "serve", m)>>)
                                   ELSE stack[m] = << >> /\ UNCHANGED stack
    /\ UNCHANGED <<runtime, accepting, notifying, chain, group, stage, events, history>>

ServeReturns(t) ==
    LET m == Mine(t) IN
    /\ At(t, "serve")
    /\ serving' = [serving EXCEPT ![m] = IF @ = "pending" /\ lifecycle[m] = "running" THEN "reached" ELSE @]
    /\ Return(t)
    /\ UNCHANGED <<lifecycle, rt_dispatching, ready, failed, joins, binding, owner, worker,
                   group, stage, events, history>>

ServeThrows(t) ==
    /\ At(t, "serve") /\ Event
    /\ \E f \in Failures : Become(t, <<Recording(Mine(t), "fail", f, FALSE)>>)
    /\ UNCHANGED <<runtime, worker, group, stage, history>>

\* The stop control, deferred until the shutdown hooks are through, finalizes
\* and releases the work guard.
ApplyStop(m) ==
    /\ owner[m] = "running" /\ stack[m] = << >>
    /\ chain[m] = "requested" /\ m \notin notifying
    /\ chain' = [chain EXCEPT ![m] = "released"]
    /\ UNCHANGED <<stack, runtime, accepting, notifying, control, group, stage, events, history>>

\* The context has run out of handlers: detach, abort_phases() and
\* complete_stop().
RunEnds(m) ==
    /\ owner[m] = "running" /\ stack[m] = << >>
    /\ chain[m] = "released" /\ m \notin control
    /\ AbortPhases(m)
    /\ owner' = [owner EXCEPT ![m] = "done"]
    /\ lifecycle' = [lifecycle EXCEPT ![m] = "stopped"]
    /\ UNCHANGED <<stack, rt_dispatching, failed, joins, binding, worker, group,
                   stage, events, history>>

-----------------------------------------------------------------------------
(* worker_runtime::join                                                     *)

\* Nobody else joins, and the stop has been dispatched.
JoinReady(m) == m \notin rt_joining \cup rt_dispatching

\* A runtime that never had a thread gets one now, to drain its work; when the
\* thread cannot be created the joining thread drains in its stead.
JoinBegin(t) ==
    LET m == Mine(t) IN
    /\ At(t, "join_wait") /\ JoinReady(m)
    /\ \/ /\ m \in rt_joined
          /\ Return(t) /\ UNCHANGED <<rt_joining, owner, events>>
       \/ /\ m \notin rt_joined
          /\ rt_joining' = rt_joining \cup {m}
          /\ owner' = [owner EXCEPT ![m] = IF @ = "none" THEN "running" ELSE @]
          /\ \/ Goto(t, "join_thread") /\ UNCHANGED events
             \/ /\ owner[m] = "none" /\ Event
                /\ \E f \in Failures : CallThen(t, Recording(m, "join", f, FALSE), "join_thread")
    /\ UNCHANGED <<lifecycle, rt_dispatching, phases, failed, rt_joined, binding, worker,
                   group, stage, history>>

JoinThread(t) ==
    LET m == Mine(t) IN
    /\ At(t, "join_thread") /\ owner[m] = "done"
    /\ rt_joining' = rt_joining \ {m} /\ rt_joined' = rt_joined \cup {m}
    /\ Return(t)
    /\ UNCHANGED <<lifecycle, rt_dispatching, phases, failed, binding, owner, worker, group,
                   stage, events, history>>

-----------------------------------------------------------------------------
(* worker_group::start, launch and serve                                    *)

Phase(t) == Top(t).kind
Current(t) == Members[Top(t).i]
Next_(t, label) == Become(t, <<[Top(t) EXCEPT !.at = label, !.i = @ + 1]>>)
Settle(t, reached) == Become(t, <<[Top(t) EXCEPT !.at = "settle", !.flag = reached]>>)
\* rethrow_phase_failure()
Rethrow(t, f) == Become(t, <<[Top(t) EXCEPT !.at = "settling", !.f = f], GroupStop>>)

\* The phase call returns or throws.
PhaseEnds(result) ==
    /\ Return(Lifecycle)
    /\ outcome' = result
    /\ stage' = IF result # "true" THEN "over" ELSE IF stage = "cold" THEN "started" ELSE "serving"
    /\ delivered' = delivered \cup ({result} \cap Failures)
    /\ UNCHANGED <<reported, independent, asked>>

\* seals the group
StartGroup ==
    /\ stage = "cold"
    /\ \E kind \in {"start", "launch"} : Begin(Lifecycle, <<Frame("launch", kind, Null)>>)
    /\ UNCHANGED <<runtime, worker, group, stage, events, history>>

ServeGroup ==
    /\ stage = "started"
    /\ Begin(Lifecycle, <<Frame("serve_member", "serve", Null)>>)
    /\ UNCHANGED <<runtime, worker, group, stage, events, history>>

\* launch(): a stopping group launches no more; start() then settles, launch()
\* just returns.
NotLaunched(t) ==
    IF Phase(t) = "start" THEN Settle(t, FALSE) /\ UNCHANGED <<stage, history>> ELSE PhaseEnds("none")

LaunchMember(t) ==
    /\ At(t, "launch")
    /\ \/ Looping(Top(t)) /\ ~stopping /\ Goto(t, "member_start") /\ UNCHANGED <<stage, history>>
       \/ Looping(Top(t)) /\ stopping /\ NotLaunched(t)
       \/ /\ ~Looping(Top(t))
          /\ IF Phase(t) = "start" THEN /\ Become(t, <<[Top(t) EXCEPT !.at = "wait", !.i = 1]>>)
                                        /\ UNCHANGED <<stage, history>>
                                   ELSE PhaseEnds("none")
    /\ UNCHANGED <<runtime, worker, group, events>>

\* worker_runtime::start: a stop may have won the transition.
MemberStart(t) ==
    LET m == Current(t) IN
    /\ At(t, "member_start")
    /\ \/ /\ lifecycle[m] # "ready"
          /\ NotLaunched(t) /\ UNCHANGED <<lifecycle, owner, events>>
       \/ /\ lifecycle[m] = "ready"
          /\ lifecycle' = [lifecycle EXCEPT ![m] = "running"]
          /\ UNCHANGED <<stage, history>>
          /\ \/ owner' = [owner EXCEPT ![m] = "running"] /\ Next_(t, "launch") /\ UNCHANGED events
             \/ /\ Event /\ UNCHANGED owner
                /\ \E f \in Failures :
                     Become(t, <<[Top(t) EXCEPT !.at = "throw", !.f = f], Recording(m, "fail", f, TRUE)>>)
    /\ UNCHANGED <<rt_dispatching, phases, failed, joins, binding, worker, group>>

\* launch() joins the group before it rethrows.
StartThrows(t) ==
    /\ At(t, "throw")
    /\ IF Phase(t) = "start" THEN Rethrow(t, Top(t).f) ELSE CallThen(t, GroupStop, "group_join")
    /\ UNCHANGED <<runtime, worker, group, stage, events, history>>

\* wait_until_ready() and wait_until_serving(): reading the failure takes it.
Awaited(t, m) == IF Phase(t) = "start" THEN ready[m] ELSE serving[m]

WaitForMember(t) ==
    /\ At(t, "wait")
    /\ IF ~Looping(Top(t))
         THEN Settle(t, TRUE) /\ UNCHANGED observed
         ELSE LET m == Current(t) IN
              /\ Awaited(t, m) # "pending" \/ failure[m] # Null
              /\ observed' = [observed EXCEPT ![m] = TRUE]
              /\ IF failure[m] # Null THEN Rethrow(t, failure[m]) ELSE Settle(t, Awaited(t, m) = "reached")
    /\ UNCHANGED <<lifecycle, rt_dispatching, phases, failure, joins, binding, owner, worker,
                   group, stage, events, history>>

\* serve() asks every member in turn, and gives up when the group stops.
ServeMember(t) ==
    /\ At(t, "serve_member")
    /\ \/ ~Looping(Top(t)) /\ Become(t, <<[Top(t) EXCEPT !.at = "wait", !.i = 1]>>)
       \/ Looping(Top(t)) /\ stopping /\ Settle(t, FALSE)
       \/ Looping(Top(t)) /\ ~stopping /\ Goto(t, "request_serve")
    /\ UNCHANGED <<runtime, worker, group, stage, events, history>>

RequestServe(t) ==
    LET m == Current(t) IN
    /\ At(t, "request_serve")
    /\ IF lifecycle[m] = "running" THEN Goto(t, "post_control") ELSE Next_(t, "serve_member")
    /\ UNCHANGED <<runtime, worker, group, stage, events, history>>

\* post_control(): not once the work guard is released.
Postable(m) == chain[m] # "released"

PostControl(t) ==
    /\ At(t, "post_control")
    /\ control' = IF Postable(Current(t)) THEN control \cup {Current(t)} ELSE control
    /\ Next_(t, "serve_member")
    /\ UNCHANGED <<runtime, accepting, notifying, chain, group, stage, events, history>>

\* settle(): a member reached the phase and nothing is wrong, or the group
\* stops.  i becomes 0 when the group was stopping already.
SettlePhase(t) ==
    /\ At(t, "settle")
    /\ IF Top(t).flag /\ ~stopping /\ group_failure = << >>
         THEN IF Looping(Top(t)) THEN Next_(t, "wait") /\ UNCHANGED <<stage, history>> ELSE PhaseEnds("true")
         ELSE /\ Become(t, <<[Top(t) EXCEPT !.at = "settling", !.i = IF stopping THEN 0 ELSE @],
                             GroupStop>>)
              /\ UNCHANGED <<stage, history>>
    /\ UNCHANGED <<runtime, worker, group, events>>

\* wait_for_stop_dispatch()
SettleWait(t) ==
    /\ At(t, "settling") /\ ~dispatching
    /\ Goto(t, "verdict")
    /\ UNCHANGED <<runtime, worker, group, stage, events, history>>

Blames_MemberOnly(t) == member_stopped

\* A member stopped of its own accord, or a stop of it was seen before the
\* group heard of it.
Blames(t) == member_stopped \/ (~Top(t).flag /\ Top(t).i # 0)

\* observe_phase_failure() and what settle() and rethrow_phase_failure() throw.
\* What settle() throws goes through rethrow_phase_failure() as well: its stop
\* finds the group stopped, and this step is its look, the last of the two.
Verdict(t) ==
    /\ At(t, "verdict")
    /\ IF group_failure # << >>
         THEN /\ observed' = [observed EXCEPT ![group_failure[2]] = TRUE]
              /\ PhaseEnds(group_failure[1])
         ELSE /\ UNCHANGED observed
              /\ PhaseEnds(IF Top(t).f # Null THEN Top(t).f ELSE IF Blames(t) THEN "stopped" ELSE "false")
    /\ UNCHANGED <<lifecycle, rt_dispatching, phases, failure, joins, binding, owner, worker,
                   group, events>>

-----------------------------------------------------------------------------
(* worker_group::join and the destructor                                    *)

\* The caller passes the failure a phase call threw.
JoinGroup ==
    LET primary == IF outcome \in Failures THEN outcome ELSE Null IN
    /\ stage \notin {"joined", "destroyed"}
    /\ Begin(Lifecycle, <<[Frame("group_join", "join", Null) EXCEPT !.f = primary], GroupStop>>)
    /\ asked' = TRUE
    /\ UNCHANGED <<runtime, worker, group, stage, events, outcome, delivered, reported, independent>>

\* Every member is joined once the stop has been dispatched.
JoinMembers(t) ==
    /\ At(t, "group_join") /\ ~dispatching
    /\ Become(t, <<[Top(t) EXCEPT !.at = "join_members", !.i = 1]>>)
    /\ UNCHANGED <<runtime, worker, group, stage, events, history>>

\* The first recorded failure in registration order.
FirstRecorded ==
    LET bad == {i \in DOMAIN Members : failure[Members[i]] # Null}
    IN  IF bad = {} THEN Null ELSE failure[Members[CHOOSE i \in bad : \A j \in bad : i <= j]]

ChoosePrimary(t) ==
    /\ At(t, "join_members")
    /\ Become(t, <<[Top(t) EXCEPT !.at = "report", !.f = IF @ # Null THEN @ ELSE FirstRecorded]>>)
    /\ UNCHANGED <<runtime, worker, group, stage, events, history>>

\* Every other failure is reported, equivalent ones once.
ReportRest(t) ==
    /\ At(t, "report")
    /\ observed' = [m \in Runtimes |-> TRUE]
    /\ reported' = reported \cup ({failure[m] : m \in Runtimes} \ {Null, Top(t).f})
    /\ delivered' = delivered \cup ({Top(t).f} \ {Null})
    /\ stage' = "joined"
    /\ Return(t)
    /\ UNCHANGED <<lifecycle, rt_dispatching, phases, failure, joins, binding, owner, worker,
                   stopping, dispatching, member_stopped, group_failure, events, outcome, independent, asked>>

\* The destructor unbinds the members in turn.
DestroyGroup ==
    /\ stage = "joined"
    /\ stack[Other] # << >> => stack[Other][1].kind \notin {"group", "last"}
    /\ Begin(Lifecycle, <<Frame("unbind", "destroy", Null)>>)
    /\ UNCHANGED <<runtime, worker, group, stage, events, history>>

Unbind(t) ==
    /\ At(t, "unbind")
    /\ IF Looping(Top(t))
         THEN bound' = bound \ {Current(t)} /\ Goto(t, "unbound") /\ UNCHANGED stage
         ELSE Return(t) /\ stage' = "destroyed" /\ UNCHANGED bound
    /\ UNCHANGED <<lifecycle, rt_dispatching, phases, failed, joins, notifications, owner,
                   worker, group, events, history>>

UnbindReady_AtOnce(m) == TRUE

\* No observation of the member is in flight.
UnbindReady(m) == notifications[m] = 0

Unbound(t) ==
    /\ At(t, "unbound") /\ UnbindReady(Current(t))
    /\ Next_(t, "unbind")
    /\ UNCHANGED <<runtime, worker, group, stage, events, history>>

-----------------------------------------------------------------------------
(* Another thread.  Its own calls of the group end before the group does.   *)

OtherCalls(frames) ==
    /\ Event
    /\ Begin(Other, frames)

OtherStopsGroup ==
    /\ stage \notin {"joined", "destroyed"}
    /\ OtherCalls(<<GroupStop>>) /\ asked' = TRUE
    /\ UNCHANGED <<runtime, worker, group, stage, outcome, delivered, reported, independent>>

OtherStops(m) ==
    /\ OtherCalls(<<RuntimeStop(m, "stop")>>)
    /\ UNCHANGED <<runtime, worker, group, stage, history>>

OtherFails(m) ==
    /\ \E f \in Failures : OtherCalls(<<Recording(m, "fail", f, FALSE)>>)
    /\ UNCHANGED <<runtime, worker, group, stage, history>>

OtherJoins(m) ==
    /\ OtherCalls(<<Frame("join_wait", "join", m), RuntimeStop(m, "join")>>)
    /\ UNCHANGED <<runtime, worker, group, stage, history>>

-----------------------------------------------------------------------------
\* A step inside a call; it may wait for another thread.
Inside(t) ==
    \/ GroupStopBegin(t) \/ GroupStopEnds(t) \/ MemberFailed(t) \/ MemberStopping(t)
    \/ StopBegin(t) \/ NotifyStop(t) \/ StopCloses(t) \/ HooksReturn(t)
    \/ RequestChain(t) \/ StopDispatched(t)
    \/ Record(t) \/ NotifyFailure(t) \/ Crash(t) \/ ServeReturns(t)
    \/ JoinBegin(t) \/ JoinThread(t)

PhaseStep(t) ==
    \/ LaunchMember(t) \/ MemberStart(t) \/ StartThrows(t) \/ WaitForMember(t)
    \/ ServeMember(t) \/ RequestServe(t) \/ PostControl(t)
    \/ SettlePhase(t) \/ SettleWait(t) \/ Verdict(t)

JoinStep(t) ==
    \/ JoinMembers(t) \/ ChoosePrimary(t) \/ ReportRest(t)
    \/ Unbind(t) \/ Unbound(t)

OwnerStep(m) ==
    MarkReady(m) \/ ApplyServe(m) \/ ApplyStop(m) \/ RunEnds(m)

\* What a thread does once it is in a call, and an owner with its handlers.
Running ==
    \/ \E t \in Threads : Inside(t)
    \/ PhaseStep(Lifecycle) \/ JoinStep(Lifecycle)
    \/ \E m \in Runtimes : OwnerStep(m)

GroupNext ==
    \/ Running
    \/ \E t \in Threads : HookReenters(t) \/ ServeThrows(t)
    \/ StartGroup \/ ServeGroup \/ JoinGroup \/ DestroyGroup
    \/ \E m \in Runtimes : OwnerThrows(m)
    \/ OtherStopsGroup \/ \E m \in Runtimes : OtherStops(m) \/ OtherFails(m) \/ OtherJoins(m)

(* While some thread can run one does, which is all the scheduler has to    *)
(* grant: no call loops.  Hooks return, an owner runs the handlers of its   *)
(* context and its startup work completes.  Nobody is obliged to call       *)
(* anything or to fail.                                                     *)
GroupFairness == WF_groupVars(Running)

GroupSpec == GroupInit /\ [][GroupNext]_groupVars
GroupLiveSpec == GroupSpec /\ GroupFairness

-----------------------------------------------------------------------------
(* Properties.                                                              *)

\* What a loop over the members has behind it.
ClosedTo(k) == \A j \in DOMAIN Members : j < k => Members[j] \notin accepting
JoinedTo(k) == \A j \in DOMAIN Members : j < k => Members[j] \in rt_joined
UnboundTo(k) == \A j \in DOMAIN Members : j < k => Members[j] \notin bound /\ notifications[Members[j]] = 0
ReachedTo(kind, k) == \A j \in DOMAIN Members : j < k =>
    (IF kind = "start" THEN ready[Members[j]] ELSE serving[Members[j]]) = "reached"

\* The group has a reason to stop that a phase call did not give it.
Cause == asked \/ member_stopped \/ group_failure # << >>

\* What a call of thread t, in frame f, relies on.
Sound(t, f) ==
    /\ f.at \in LifecycleFrames => t = Lifecycle
    /\ f.at \in GroupFrames <=> f.kind = "group"
    /\ f.kind \in {"member", "last"} => f.at \in StopFrames
    /\ f.kind \in {"member", "last"} \/ f.at = "group_members" => stopping
    /\ f.kind = "last" => ClosedTo(Len(Members)) /\ f.m = Members[Len(Members)]
    /\ f.at \in MemberFrames => f.m \in Runtimes
    /\ f.at \in StoppedFrames => ~Stoppable(f.m)
    /\ f.at = "group_stop" => f.i = 1
    /\ f.at \in {"group_members", "join_members"} => f.i # 0
    /\ f.at = "stop" => ~f.flag
    /\ f.at \in {"chain", "abort", "hooks"} => f.m \notin accepting
    /\ f.at = "join_thread" => f.m \notin rt_dispatching
    /\ f.at \in FailureFrames => f.f \in Failures
    /\ f.at = "record" /\ f.flag => t = Lifecycle

\* Control may come back to f.
Ready(f) ==
    /\ f.at = "group_members" => ClosedTo(f.i)
    /\ f.at = "join_members" => JoinedTo(f.i)
    /\ f.at = "join_wait" => ~Stoppable(f.m)
    /\ f.at = "group_join" => stopping

\* g, called by f, sees to it.
Owes(f, g) ==
    \/ f.at = "group_members" /\ g.kind = "member"
       /\ \E j \in DOMAIN Members : f.i = j + 1 /\ g.m = Members[j] /\ ClosedTo(j)
    \/ f.at = "join_members" /\ g.at \in {"join_wait", "join_thread"}
       /\ \E j \in DOMAIN Members : f.i = j + 1 /\ g.m = Members[j] /\ JoinedTo(j)
    \/ f.at = "join_wait" /\ g.at = "stop" /\ g.m = f.m
    \/ f.at = "group_join" /\ g.at = "group_stop"

\* The group is called under a counted notification, from a shutdown hook or
\* from the lifecycle thread's own calls.
Callers == {"stop_notified", "failure_notified", "hooks", "settling", "group_join"}

Above(f, g) ==
    /\ f.at \notin DestroyFrames /\ g.at \notin LifecycleFrames
    /\ g.at \in GroupFrames \/ g.kind = "last" => f.at \in Callers
    /\ g.at = "group_stop" => stopping \/ Cause \/ f.at \in {"settling", "group_join"}
    /\ Ready(f) \/ Owes(f, g)

Bottom(t, f) ==
    /\ t = Lifecycle => f.at \in LifecycleFrames
    /\ f.at \in GroupFrames \/ f.kind = "last" => t = Other
    /\ f.at = "group_stop" => stopping \/ Cause

Nested(t, S) ==
    /\ \A p \in 1..Len(S) : Sound(t, S[p])
    /\ \A p \in 1..Len(S) : p + 1 \in 1..Len(S) => Above(S[p], S[p + 1])
    /\ S # << >> => Bottom(t, S[1])

OnTop(f) == Ready(f) /\ (f.at \in {"group_members", "join_members"} => ~Looping(f))

\* Every call is made from a frame that waits for it, and finds what it relies on.
CallsNest ==
    \A t \in Threads : Nested(t, stack[t]) /\ (stack[t] # << >> => OnTop(Top(t)))

\* The thread that won a runtime's stop, and the one that runs its hooks.
Winning(f) == f.at \in {"notify_stop", "stop_notified", "chain", "abort"} \/ (f.at = "close" /\ f.flag)
Hooking(f) == f.at = "hooks"
Notifying(f) == f.at \in {"stop_notified", "failure_notified"}

\* Every call in progress, by thread and depth, and the ones for member m.
Calls == UNION {{t} \X (1..Len(stack[t])) : t \in Threads}
Called(x) == stack[x[1]][x[2]]

Winners(m) == {x \in Calls : Winning(Called(x)) /\ Called(x).m = m}
HookRuns(m) == {x \in Calls : Hooking(Called(x)) /\ Called(x).m = m}
Notifiers(m) == {x \in Calls : Notifying(Called(x)) /\ Called(x).m = m}

\* One thread each; the stop chain is still to be requested, the batch not over.
OneWinner ==
    \A m \in Runtimes :
        LET winners == Winners(m)
            runs == HookRuns(m)
        IN  /\ \A x, y \in winners : x = y
            /\ \A x \in winners : Called(x).at = "abort" \/ chain[m] = "open"
            /\ \A x, y \in runs : x = y
            /\ runs # {} => m \in notifying

\* A runtime counts the calls of the group made on its behalf.
NotificationsCounted ==
    \A m \in Runtimes :
        LET calls == Notifiers(m) IN IsFiniteSet(calls) /\ notifications[m] = Cardinality(calls)

\* Where the lifecycle thread is in start, serve, join or destruction.
PhaseSound(f) ==
    /\ f.kind \in {"start", "launch", "serve"}
    /\ stage = IF f.kind = "serve" THEN "started" ELSE "cold"
    /\ f.at \in {"launch", "member_start", "throw"} => f.kind # "serve"
    /\ f.at \in {"wait", "settle", "settling", "verdict"} => f.kind # "launch"
    /\ f.at \in {"serve_member", "request_serve", "post_control"} => f.kind = "serve"
    /\ f.at \in {"member_start", "request_serve", "post_control"} => f.i \in DOMAIN Members
    /\ f.at \notin {"settling", "verdict"} => f.i # 0
    /\ f.at \notin {"throw", "settling", "verdict"} => f.f = Null
    /\ f.at = "throw" => f.f # Null
    /\ f.at \in {"launch", "member_start"} =>
          \A j \in DOMAIN Members : j >= f.i => lifecycle[Members[j]] # "running"
    /\ f.at = "wait" => ReachedTo(f.kind, f.i)
    /\ f.at = "settle" => IF f.flag THEN ReachedTo(f.kind, f.i + 1) ELSE stopping \/ independent # {}
    /\ f.at \in {"settling", "verdict"} /\ f.f = Null =>
          IF f.flag \/ f.i = 0 THEN Cause ELSE independent # {}

EndSound(f) ==
    /\ f.at \in JoinFrames => stage \notin {"joined", "destroyed"}
    /\ f.at \in {"join_members", "report"} => stopping /\ ~dispatching
    /\ f.at = "report" => rt_joined = Runtimes
    /\ f.at \in DestroyFrames => stage = "joined" /\ f.i # 0 /\ UnboundTo(f.i)
    /\ f.at = "unbound" => f.i \in DOMAIN Members /\ Members[f.i] \notin bound

LifecycleAgrees ==
    stack[Lifecycle] # << >> =>
        LET f == stack[Lifecycle][1]
        IN  (f.at \in PhaseFrames => PhaseSound(f)) /\ EndSound(f)

\* The phase calls have given up, or the lifecycle thread has gone on to join.
GivenUp ==
    \/ stage \in {"over", "joined", "destroyed"}
    \/ /\ stack[Lifecycle] # << >>
       /\ stack[Lifecycle][1].at \in {"settling", "verdict"} \cup JoinFrames

\* A runtime's owner, its stop chain, its phases and its stop agree.
RuntimesAgree ==
    \A m \in Runtimes :
        /\ owner[m] = "done" =>
              /\ lifecycle[m] = "stopped" /\ chain[m] = "released" /\ m \notin control
              /\ ready[m] # "pending" /\ serving[m] # "pending"
        /\ owner[m] # "running" => stack[m] = << >>
        /\ chain[m] # "open" => ~Stoppable(m) /\ m \notin accepting
        /\ chain[m] = "released" => m \notin notifying
        /\ ready[m] = "aborted" \/ serving[m] = "aborted" => ~Stoppable(m)
        /\ ~Stoppable(m) => stopping \/ independent # {}
        /\ m \in rt_joined => owner[m] = "done" /\ m \notin rt_dispatching

\* The group is destroyed.
Gone == stage = "destroyed" \/ (stack[Lifecycle] # << >> /\ stack[Lifecycle][1].at \in DestroyFrames)

\* Before the first phase call no member runs.
BeforeStart == stage = "cold" /\ stack[Lifecycle] = << >> => \A m \in Runtimes : lifecycle[m] # "running"

GroupAgrees ==
    /\ BeforeStart
    /\ member_stopped => independent # {}
    /\ stopping => Cause \/ GivenUp
    /\ stage \in {"joined", "destroyed"} =>
          /\ rt_joined = Runtimes /\ ~dispatching /\ stopping
          /\ stack[Lifecycle] = << >> \/ stack[Lifecycle][1].at \in DestroyFrames
    /\ stage = "destroyed" => stack[Lifecycle] = << >> /\ UnboundTo(Len(Members) + 1)
    /\ Gone /\ stack[Other] # << >> => stack[Other][1].kind \notin {"group", "last"}

GroupInv ==
    /\ GroupTypeOK /\ CallsNest /\ OneWinner /\ NotificationsCounted
    /\ LifecycleAgrees /\ RuntimesAgree /\ GroupAgrees

\* "Its destruction removes and synchronizes member observations": once the
\* group is gone no thread is in a call of it, and none will be.
GroupOutlivesCalls ==
    stage = "destroyed" =>
        \A t \in Threads : \A i \in DOMAIN stack[t] : stack[t][i].at \notin GroupFrames

\* join() is a barrier: a joined runtime has no owner thread, no stop dispatch,
\* no shutdown hook and no control left, and nobody waits for its phases.
JoinIsBarrier ==
    \A m \in rt_joined :
        /\ owner[m] = "done" /\ stack[m] = << >> /\ lifecycle[m] = "stopped"
        /\ m \notin rt_dispatching \cup notifying \cup control
        /\ ready[m] # "pending" /\ serving[m] # "pending"

\* The group is joined only when all its members are.
GroupJoined == stage \in {"joined", "destroyed"} => rt_joined = Runtimes /\ ~dispatching

RetireInv == GroupTypeOK /\ GroupOutlivesCalls /\ JoinIsBarrier /\ GroupJoined

\* start() and serve() return true when all members got there, false only when
\* somebody asked the group to stop, and blame a member only when one really
\* stopped of its own accord.
PhaseVerdict ==
    /\ stage = "started" => \A m \in Runtimes : ready[m] = "reached"
    /\ stage = "serving" => \A m \in Runtimes : serving[m] = "reached"
    /\ outcome = "false" => asked
    /\ outcome = "stopped" => independent # {}

\* A failure that was read with ownership, so that the runtime's destructor
\* stays silent, reached the caller or was reported.
NoFailureVanishes ==
    stage \in {"joined", "destroyed"} =>
        \A m \in Runtimes :
            failure[m] # Null /\ observed[m] => failure[m] \in delivered \cup reported

Returns(t) == stack[t] # << >> /\ Len(stack'[t]) < Len(stack[t])

\* Every request_stop(), of a runtime or the group, won or repeated, has closed
\* admission when it returns.
StopHasClosed ==
    [][\A t \in Threads :
         /\ Returns(t) /\ Top(t).at \in {"stop", "close", "abort"} => Mine(t) \notin accepting'
         /\ Returns(t) /\ (Top(t).kind \in {"group", "last"}) => accepting' = {}]_groupVars

\* Whatever calls meet, every call returns: start, serve, join and destruction
\* on the lifecycle thread, stop, fail and join on the others.
CallsReturn == <>[](\A t \in Threads : stack[t] = << >>)
=============================================================================
