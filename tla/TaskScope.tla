----------------------------- MODULE TaskScope ------------------------------
(***************************************************************************)
(* A scope of child tasks (ruvia-core/src/task_scope.cpp).                 *)
(*                                                                         *)
(* Everything runs on one worker, but the scope calls user code in the     *)
(* middle of its own functions: the allocator in spawn(), the destructors  *)
(* of a child's frame, stop callbacks, the child itself and the joiner,    *)
(* which is resumed inline and may destroy the scope.  Any of them may     *)
(* call the scope again.  The worker is the stack of those calls; a frame  *)
(* is user code together with the function of the scope it returns to.     *)
(* Between two handlers of the worker the stack is empty, and a call made  *)
(* then is the call of some other coroutine.                               *)
(***************************************************************************)
EXTENDS Naturals, Sequences, FiniteSets

CONSTANTS
    Children,  \* tasks given to spawn(), once each
    Failures,  \* exceptions, up to equivalent_failures()
    Nothing

ASSUME ScopeAssumption == IsFiniteSet(Children) /\ Nothing \notin Failures

\* alloc, reject, discard: inside spawn().  stop, retire: inside finish().
Places == {"alloc", "reject", "discard", "run", "stop", "retire", "joiner", "callback"}

VARIABLES
    alive,          \* the scope has not been destroyed
    active,         \* active_
    lifecycle,      \* lifecycle_
    failure,        \* failure_
    stopRequested,  \* stop_requested_
    source,         \* stop_source_: not created, live, or requested
    stack,          \* the worker's calls, innermost first; a retire frame is retiring_
    child,          \* each task
    outcome,        \* what a completed child threw
    failed, delivered, reported  \* history: failures that were thrown, rethrown by join(),
                                 \* routed to report_unhandled_failure()

flags == <<stopRequested, source>>
history == <<failed, delivered, reported>>
scopeVars == <<alive, active, lifecycle, failure, flags, stack, child, outcome, history>>

Frame(at, c) == [at |-> at, child |-> c, destroyed |-> FALSE]

ScopeTypeOK ==
    /\ alive \in BOOLEAN /\ active \in 0..Cardinality(Children)
    /\ lifecycle \in {"open", "joining", "joined"} /\ failure \in Failures \cup {Nothing}
    /\ stopRequested \in BOOLEAN /\ source \in {"none", "live", "requested"}
    /\ stack \in Seq([at : Places, child : Children \cup {Nothing}, destroyed : BOOLEAN])
    /\ child \in [Children -> {"cold", "admitting", "running", "suspended", "completed", "retiring", "gone"}]
    /\ outcome \in [Children -> Failures \cup {Nothing}]
    /\ failed \subseteq Failures /\ delivered \subseteq Failures /\ reported \subseteq Failures

ScopeInit ==
    /\ alive = TRUE /\ active = 0 /\ lifecycle = "open" /\ failure = Nothing
    /\ stopRequested = FALSE /\ source = "none"
    /\ stack = << >> /\ child = [c \in Children |-> "cold"] /\ outcome = [c \in Children |-> Nothing]
    /\ failed = {} /\ delivered = {} /\ reported = {}

Top == Head(stack)
At(place) == stack # << >> /\ Top.at = place
Retiring(calls) == \E i \in 1..Len(calls) : calls[i].at = "retire" /\ ~calls[i].destroyed
Thrown(f) == {f} \ {Nothing}

Idle_CountOnly(count, calls) == count = 0
Idle(count, calls) == count = 0 /\ ~Retiring(calls)

-----------------------------------------------------------------------------
(* Calls of user code, in any frame or in a handler of its own.             *)

\* spawn(), up to the allocation of the node.
Spawn(c) ==
    /\ alive /\ child[c] = "cold" /\ lifecycle = "open"
    /\ active' = active + 1
    /\ child' = [child EXCEPT ![c] = "admitting"]
    /\ stack' = <<Frame("alloc", c)>> \o stack
    /\ UNCHANGED <<alive, lifecycle, failure, flags, outcome, history>>

\* A join that starts claims the scope; one that has nothing to wait for ends.
Join ==
    /\ alive /\ lifecycle = "open"
    /\ IF Idle(active, stack)
         THEN lifecycle' = "joined" /\ delivered' = delivered \cup Thrown(failure)
         ELSE lifecycle' = "joining" /\ UNCHANGED delivered
    /\ UNCHANGED <<alive, active, failure, flags, stack, child, outcome, failed, reported>>

\* request_stop(): the callbacks of a live source run now.
StopsSource == stopRequested' = TRUE /\ source' = IF source = "live" THEN "requested" ELSE source

RequestStop ==
    /\ alive /\ StopsSource
    /\ stack' = IF source = "live" THEN <<Frame("callback", Nothing)>> \o stack ELSE stack
    /\ UNCHANGED <<alive, active, lifecycle, failure, child, outcome, history>>

\* token() creates the source on first use.
Token ==
    /\ alive /\ source = "none"
    /\ source' = IF stopRequested THEN "requested" ELSE "live"
    /\ UNCHANGED <<alive, active, lifecycle, failure, stopRequested, stack, child, outcome, history>>

\* Destruction under its contract: no child active, no join pending.  (Without
\* it the destructor terminates the process.)  A retirement in progress learns
\* of it; a failure no join took is reported.
Destroy ==
    /\ alive /\ active = 0 /\ lifecycle # "joining"
    /\ alive' = FALSE
    /\ stack' = [i \in 1..Len(stack) |-> [stack[i] EXCEPT !.destroyed = stack[i].at = "retire"]]
    /\ reported' = reported \cup (IF lifecycle = "open" THEN Thrown(failure) ELSE {})
    /\ UNCHANGED <<active, lifecycle, failure, flags, child, outcome, failed, delivered>>

-----------------------------------------------------------------------------
(* Returns to the scope.                                                     *)

\* resume_join_if_idle(), as the last act of the frame on top: the joiner runs
\* in its place.
ResumeJoinIfIdle(count) ==
    LET calls == Tail(stack)
        resumes == Idle(count, calls) /\ lifecycle = "joining"
    IN  /\ active' = count
        /\ lifecycle' = IF resumes THEN "joined" ELSE lifecycle
        /\ delivered' = IF resumes THEN delivered \cup Thrown(failure) ELSE delivered
        /\ stack' = IF resumes THEN <<Frame("joiner", Nothing)>> \o calls ELSE calls

\* The allocation succeeded.  A join may have started meanwhile: then the node
\* and the cold child go again.  Otherwise the child runs.
Allocated ==
    /\ At("alloc")
    /\ LET c == Top.child IN
       \/ /\ lifecycle = "open"
          /\ stack' = <<Frame("run", c)>> \o Tail(stack) /\ child' = [child EXCEPT ![c] = "running"]
       \/ /\ lifecycle # "open"
          /\ stack' = <<Frame("reject", c)>> \o Tail(stack) /\ UNCHANGED child
    /\ UNCHANGED <<alive, active, lifecycle, failure, flags, outcome, history>>

\* It threw: the cold child is destroyed while it still counts.
AllocationThrows ==
    /\ At("alloc")
    /\ stack' = <<Frame("discard", Top.child)>> \o Tail(stack)
    /\ UNCHANGED <<alive, active, lifecycle, failure, flags, child, outcome, history>>

\* The child is destroyed; spawn() lets a join go on and throws.
SpawnFails_ForgetsJoin ==
    /\ At("reject") \/ At("discard")
    /\ child' = [child EXCEPT ![Top.child] = "gone"]
    /\ active' = active - 1 /\ stack' = Tail(stack)
    /\ UNCHANGED <<alive, lifecycle, failure, flags, outcome, history>>

SpawnFails ==
    /\ At("reject") \/ At("discard")
    /\ child' = [child EXCEPT ![Top.child] = "gone"]
    /\ ResumeJoinIfIdle(active - 1)
    /\ UNCHANGED <<alive, failure, flags, outcome, failed, reported>>

\* A child runs until it suspends or completes; child_complete() only defers
\* finish() to the worker.
Suspends ==
    /\ At("run")
    /\ child' = [child EXCEPT ![Top.child] = "suspended"] /\ stack' = Tail(stack)
    /\ UNCHANGED <<alive, active, lifecycle, failure, flags, outcome, history>>

Completes(c) ==
    /\ At("run") /\ Top.child = c
    /\ child' = [child EXCEPT ![c] = "completed"] /\ stack' = Tail(stack)
    /\ \E f \in Failures \cup {Nothing} : outcome' = [outcome EXCEPT ![c] = f]
    /\ UNCHANGED <<alive, active, lifecycle, failure, flags, history>>

Resumes(c) ==
    /\ stack = << >> /\ child[c] = "suspended"
    /\ child' = [child EXCEPT ![c] = "running"] /\ stack' = <<Frame("run", c)>>
    /\ UNCHANGED <<alive, active, lifecycle, failure, flags, outcome, history>>

\* The node and the child's frame are destroyed under the retiring guard.
Retire(c) ==
    /\ active' = active - 1 /\ stack' = <<Frame("retire", c)>>
    /\ child' = [child EXCEPT ![c] = "retiring"]

\* finish(): the first failure stops the siblings, another one is reported
\* unless it is the same.
Finish(c) ==
    /\ stack = << >> /\ child[c] = "completed"
    /\ LET f == outcome[c] IN
       /\ failed' = failed \cup Thrown(f)
       /\ IF f # Nothing /\ failure = Nothing
            THEN /\ failure' = f /\ StopsSource /\ UNCHANGED reported
                 /\ IF source = "live"
                      THEN stack' = <<Frame("stop", c)>> /\ UNCHANGED <<active, child>>
                      ELSE Retire(c)
            ELSE /\ Retire(c) /\ reported' = reported \cup (Thrown(f) \ {failure})
                 /\ UNCHANGED <<failure, flags>>
    /\ UNCHANGED <<alive, lifecycle, outcome, delivered>>

StopReturns ==
    /\ At("stop") /\ Retire(Top.child)
    /\ UNCHANGED <<alive, lifecycle, failure, flags, outcome, history>>

Retired ==
    /\ At("retire")
    /\ child' = [child EXCEPT ![Top.child] = "gone"]
    /\ IF Top.destroyed
         THEN stack' = Tail(stack) /\ UNCHANGED <<active, lifecycle, delivered>>
         ELSE ResumeJoinIfIdle(active)
    /\ UNCHANGED <<alive, failure, flags, outcome, failed, reported>>

\* The joiner, or a stop callback, returns to code that is done with the scope.
Returns ==
    /\ At("joiner") \/ At("callback")
    /\ stack' = Tail(stack)
    /\ UNCHANGED <<alive, active, lifecycle, failure, flags, child, outcome, history>>

-----------------------------------------------------------------------------
Return == Allocated \/ AllocationThrows \/ SpawnFails \/ StopReturns \/ Retired \/ Returns

Running ==
    \/ Return \/ Suspends
    \/ \E c \in Children : Completes(c) \/ Resumes(c) \/ Finish(c)

ScopeNext ==
    \/ Running
    \/ Join \/ RequestStop \/ Token \/ Destroy \/ \E c \in Children : Spawn(c)

ScopeSpec == ScopeInit /\ [][ScopeNext]_scopeVars

(* The worker runs: user code returns, suspended children are resumed and    *)
(* deferred handlers run, in any order; a child that runs again and again    *)
(* completes.  Nobody has to call the scope.                                 *)
ScopeFairness == WF_scopeVars(Running) /\ \A c \in Children : SF_scopeVars(Completes(c))

ScopeLiveSpec == ScopeSpec /\ ScopeFairness

-----------------------------------------------------------------------------
(* Properties.                                                              *)

\* "It waits for in-progress spawn admission and child node retirement": when
\* the join is over every child that was given to the scope is gone.
JoinWaitsForAll ==
    lifecycle = "joined" => \A c \in Children : child[c] \in {"cold", "gone"}

\* Nothing returns to a destroyed scope: the calls left on the stack, and the
\* children, are done with it.
NothingTouchesTheDead ==
    ~alive =>
        /\ \A i \in 1..Len(stack) :
              stack[i].at \in {"joiner", "callback"} \/ (stack[i].at = "retire" /\ stack[i].destroyed)
        /\ \A c \in Children : child[c] \in {"cold", "retiring", "gone"}

\* Every token observes the stop, also one asked for after it, and a failure
\* stops the siblings.
TokensAgree ==
    /\ source # "none" => (source = "requested") = stopRequested
    /\ failure # Nothing => stopRequested

\* Every failure has an owner: the join rethrows it, or it is reported.
FailuresOwned ==
    lifecycle = "joined" \/ ~alive => failed \subseteq delivered \cup reported

\* A child has at most one call on the stack, at the stage the child is in;
\* finish() starts its handler, so its frames are outermost.  Only a retirement
\* learns that the scope is gone.
Stage == [alloc |-> "admitting", reject |-> "admitting", discard |-> "admitting",
          run |-> "running", stop |-> "completed", retire |-> "retiring"]
OfChild(i) == stack[i].at \in DOMAIN Stage
CallsAgree ==
    /\ \A i \in 1..Len(stack) :
          /\ OfChild(i) => /\ stack[i].child \in Children
                           /\ child[stack[i].child] = Stage[stack[i].at]
          /\ stack[i].at \in {"stop", "retire"} => i = Len(stack)
          /\ stack[i].destroyed <=> stack[i].at = "retire" /\ ~alive
    /\ \A i, j \in 1..Len(stack) :
          OfChild(i) /\ OfChild(j) /\ stack[i].child = stack[j].child => i = j
    /\ \A c \in Children : child[c] = "retiring" =>
          \E i \in 1..Len(stack) : stack[i].at = "retire" /\ stack[i].child = c

\* active_ counts the children from their admission to their retirement.
Counted == {c \in Children : child[c] \in {"admitting", "running", "suspended", "completed"}}
ActiveCounts == active = Cardinality(Counted)

\* A failure is delivered, reported or kept for the join.
FailuresTracked ==
    /\ failed \subseteq delivered \cup reported \cup Thrown(failure)
    /\ lifecycle = "joined" => Thrown(failure) \subseteq delivered
    /\ ~alive => lifecycle # "joining" /\ Thrown(failure) \subseteq delivered \cup reported

\* The scope, its children and the calls in progress agree (inductive).
ScopeInv ==
    /\ ScopeTypeOK /\ JoinWaitsForAll /\ NothingTouchesTheDead /\ TokensAgree /\ FailuresOwned
    /\ CallsAgree /\ ActiveCounts /\ FailuresTracked

\* A join that started is resumed, wherever it started: inside an allocation
\* that then fails, inside a stop callback or inside a retirement.
JoinResumes == lifecycle = "joining" ~> lifecycle = "joined"
=============================================================================
