----------------------------- MODULE BlockingPool -----------------------------
(***************************************************************************)
(* The pool of threads that runs blocking callables                        *)
(* (ruvia-core/src/blocking_pool.cpp).                                     *)
(*                                                                         *)
(* submit() reserves a node under the mutex, moves the callable into it    *)
(* unlocked and publishes it under the mutex again.  The first stop()      *)
(* takes over what is queued and destroys it unlocked.  join() stops, lets *)
(* one caller join the threads, and waits for the drain and for the        *)
(* submissions still between their two critical sections.                  *)
(*                                                                         *)
(* One action is one critical section of mutex_, one notification, or one  *)
(* call into user code.  All waits share condition_: an actor in the set   *)
(* asleep needs a notification, one that is not evaluates its predicate.   *)
(***************************************************************************)
EXTENDS Naturals, Sequences, FiniteSets, Chains

CONSTANTS
    Threads,    \* the threads start() creates
    Callers,    \* threads that use the pool from outside
    Tasks,      \* callables, each submitted at most once
    Nodes,      \* nodes_
    Capacity,   \* queue_capacity_
    None

ASSUME PoolAssumption ==
    /\ IsFiniteSet(Threads) /\ Threads # {} /\ Threads \cap Callers = {}
    /\ Capacity \in Nat \ {0}
    /\ IsFiniteSet(Nodes) /\ Cardinality(Nodes) = Capacity + Cardinality(Threads)
    /\ None \notin Tasks \cup Nodes \cup Threads \cup Callers

Actors == Threads \cup Callers

VARIABLES
    stopping,                        \* stopping_
    drainer,                         \* stop_drain_thread_, None unless stop_draining_
    joining, joined,                 \* joining_, joined_
    handles,                         \* threads_: the handles nobody took yet
    free, ring,                      \* the free list, as a set; queue_, oldest first
    queued, reserved, running,       \* queued_, reserved_, running_
    completed, rejected, discarded,  \* the counters of stats()
    task,                            \* nodes_[n].task_
    pc,                              \* where each actor is
    node,                            \* the node an actor holds
    job,                             \* the callable a thread moved out, or a caller submits
    after,                           \* where an actor's stop() returns to
    nested,                          \* a join() called by a destructor of its own drain
    dropped, victim,                 \* the drain of stop(): nodes left, node being emptied
    mine,                            \* joining_threads of a join()
    asleep,                          \* actors blocked in condition_.wait
    ran, destroyed,                  \* history: callables run, callables never run
    gone                             \* history: ~blocking_pool() has begun

shared == <<stopping, drainer, joining, joined, handles>>
lists == <<free, ring, task>>
counts == <<queued, reserved, running>>
stats == <<completed, rejected, discarded>>
drain == <<dropped, victim>>
history == <<ran, destroyed, gone>>
vars == <<shared, lists, counts, stats, drain, history, pc, node, job, after, nested, mine, asleep>>

\* Where an actor stands between two steps.
Places == {"out", "publish", "notify", "drop", "dropped", "returned", "wait", "run", "retire", "exit",
           "stop", "stopped", "drain", "destroy", "drained", "detach",
           "elect", "joining", "mark", "settle"}

TypeOK ==
    /\ stopping \in BOOLEAN /\ joining \in BOOLEAN /\ joined \in BOOLEAN /\ gone \in BOOLEAN
    /\ drainer \in Actors \cup {None}
    /\ handles \subseteq Threads
    /\ free \subseteq Nodes /\ ring \in Seq(Nodes)
    /\ task \in [Nodes -> Tasks \cup {None}]
    /\ queued \in 0..Capacity /\ reserved \in 0..Capacity /\ running \in 0..Cardinality(Threads)
    /\ completed \in Nat /\ rejected \in Nat /\ discarded \in Nat /\ dropped \in Nat
    /\ pc \in [Actors -> Places]
    /\ node \in [Actors -> Nodes \cup {None}]
    /\ job \in [Actors -> Tasks \cup {None}]
    /\ after \in [Actors -> {"out", "run", "elect", "detach"}]
    /\ nested \in [Actors -> BOOLEAN]
    /\ victim \in Nodes \cup {None} /\ mine \in [Callers -> SUBSET Threads]
    /\ asleep \subseteq Actors
    /\ ran \subseteq Tasks /\ destroyed \subseteq Tasks

Init ==
    /\ stopping = FALSE /\ drainer = None /\ joining = FALSE /\ joined = FALSE
    /\ handles = Threads
    /\ free = Nodes /\ ring = << >> /\ task = [n \in Nodes |-> None]
    /\ queued = 0 /\ reserved = 0 /\ running = 0
    /\ completed = 0 /\ rejected = 0 /\ discarded = 0
    /\ pc = [a \in Actors |-> IF a \in Threads THEN "wait" ELSE "out"]
    /\ node = [a \in Actors |-> None]
    /\ job = [a \in Actors |-> None]
    /\ after = [a \in Actors |-> "out"]
    /\ nested = [a \in Actors |-> FALSE]
    /\ dropped = 0 /\ victim = None /\ mine = [c \in Callers |-> {}] /\ asleep = {}
    /\ ran = {} /\ destroyed = {} /\ gone = FALSE

Goto(a, place) == pc' = [pc EXCEPT ![a] = place]

NotifyAll == asleep' = {}

\* notify_one wakes any one waiter, whatever it waits for.
NotifyOne == IF asleep = {} THEN UNCHANGED asleep ELSE \E a \in asleep : asleep' = asleep \ {a}

\* Callables and nodes are interchangeable: which one is taken does not matter.
AnyOf(S) == CHOOSE x \in S : TRUE

Fresh == Tasks \ (ran \cup destroyed \cup {job[a] : a \in Actors} \cup {task[n] : n \in Nodes})

-----------------------------------------------------------------------------
(* submit()                                                                 *)

Admits_QueuedOnly == queued < Capacity

Admits == queued + reserved < Capacity

\* The first critical section: refused, or a node popped from the free list.
Reserve(c) ==
    /\ pc[c] = "out" /\ ~gone
    /\ Fresh # {}
    /\ LET k == AnyOf(Fresh) IN
        \/ /\ stopping
           /\ discarded' = discarded + 1 /\ destroyed' = destroyed \cup {k}
           /\ UNCHANGED <<pc, free, reserved, node, job, rejected>>
        \/ /\ ~stopping /\ ~Admits
           /\ rejected' = rejected + 1 /\ destroyed' = destroyed \cup {k}
           /\ UNCHANGED <<pc, free, reserved, node, job, discarded>>
        \/ /\ ~stopping /\ Admits
           /\ free # {} /\ free' = free \ {AnyOf(free)} /\ node' = [node EXCEPT ![c] = AnyOf(free)]
           /\ reserved' = reserved + 1
           /\ job' = [job EXCEPT ![c] = k]
           /\ Goto(c, "publish")
           /\ UNCHANGED <<rejected, discarded, destroyed>>
    /\ UNCHANGED <<shared, ring, task, queued, running, completed, after, nested, mine, drain,
                   asleep, ran, gone>>

Publish_Unchecked(c) ==
    /\ pc[c] = "publish"
    /\ task' = [task EXCEPT ![node[c]] = job[c]] /\ job' = [job EXCEPT ![c] = None]
    /\ ring' = Append(ring, node[c]) /\ queued' = queued + 1 /\ reserved' = reserved - 1
    /\ node' = [node EXCEPT ![c] = None] /\ Goto(c, "notify")
    /\ UNCHANGED <<shared, free, running, stats, after, nested, mine, drain, asleep, history>>

\* The callable is in its node; the second critical section queues it unless
\* the pool stopped meanwhile.
Publish(c) ==
    /\ pc[c] = "publish"
    /\ task' = [task EXCEPT ![node[c]] = job[c]] /\ job' = [job EXCEPT ![c] = None]
    /\ \/ /\ stopping
          /\ discarded' = discarded + 1 /\ Goto(c, "drop")
          /\ UNCHANGED <<ring, queued, reserved, node>>
       \/ /\ ~stopping
          /\ ring' = Append(ring, node[c]) /\ queued' = queued + 1 /\ reserved' = reserved - 1
          /\ node' = [node EXCEPT ![c] = None] /\ Goto(c, "notify")
          /\ UNCHANGED discarded
    /\ UNCHANGED <<shared, free, running, completed, rejected, after, nested, mine, drain, asleep,
                   history>>

\* The callable of a submission that lost against stop() dies unlocked.
Drop(c) ==
    /\ pc[c] = "drop"
    /\ destroyed' = destroyed \cup {task[node[c]]}
    /\ task' = [task EXCEPT ![node[c]] = None]
    /\ Goto(c, "dropped")
    /\ UNCHANGED <<shared, free, ring, counts, stats, node, job, after, nested, mine, drain, asleep,
                   ran, gone>>

\* The last reservation of a stopped pool notifies join() after its section.
ReturnReservation(c) ==
    /\ pc[c] = "dropped"
    /\ free' = free \cup {node[c]} /\ node' = [node EXCEPT ![c] = None]
    /\ reserved' = reserved - 1
    /\ Goto(c, IF reserved = 1 THEN "returned" ELSE "out")
    /\ UNCHANGED <<shared, ring, task, queued, running, stats, job, after, nested, mine, drain,
                   asleep, history>>

ReservationNotify(c) ==
    /\ pc[c] = "returned"
    /\ NotifyAll /\ Goto(c, "out")
    /\ UNCHANGED <<shared, lists, counts, stats, node, job, after, nested, mine, drain, history>>

\* condition_.notify_one() of an accepted submission.
SubmitNotify(c) ==
    /\ pc[c] = "notify"
    /\ NotifyOne /\ Goto(c, "out")
    /\ UNCHANGED <<shared, lists, counts, stats, node, job, after, nested, mine, drain, history>>

-----------------------------------------------------------------------------
(* run(): a pool thread                                                     *)

\* The wait of run(): leave, take the oldest node, or sleep.
Take(t) ==
    /\ pc[t] = "wait" /\ t \notin asleep
    /\ \/ /\ stopping /\ Goto(t, "exit")
          /\ UNCHANGED <<ring, queued, running, task, job, node, asleep>>
       \/ /\ ~stopping /\ queued # 0
          /\ node' = [node EXCEPT ![t] = Head(ring)] /\ ring' = Tail(ring)
          /\ job' = [job EXCEPT ![t] = task[Head(ring)]]
          /\ task' = [task EXCEPT ![Head(ring)] = None]
          /\ queued' = queued - 1 /\ running' = running + 1
          /\ Goto(t, "run") /\ UNCHANGED asleep
       \/ /\ ~stopping /\ queued = 0
          /\ asleep' = asleep \cup {t}
          /\ UNCHANGED <<ring, queued, running, task, job, node, pc>>
    /\ UNCHANGED <<shared, free, reserved, stats, after, nested, mine, drain, history>>

\* The callable returns, or its exception is reported, and it is destroyed.
Run(t) ==
    /\ pc[t] = "run"
    /\ ran' = ran \cup {job[t]} /\ job' = [job EXCEPT ![t] = None]
    /\ Goto(t, "retire")
    /\ UNCHANGED <<shared, lists, counts, stats, node, after, nested, mine, drain, asleep, destroyed,
                   gone>>

Retire(t) ==
    /\ pc[t] = "retire"
    /\ free' = free \cup {node[t]} /\ node' = [node EXCEPT ![t] = None]
    /\ running' = running - 1 /\ completed' = completed + 1
    /\ Goto(t, "wait")
    /\ UNCHANGED <<shared, ring, task, queued, reserved, rejected, discarded, job, after, nested,
                   mine, drain, asleep, history>>

-----------------------------------------------------------------------------
(* stop()                                                                   *)

\* stop() is called by a user, and by a callable the pool runs (once the pool
\* has stopped that call returns at once, and is left out).
CallStop(a) ==
    /\ \/ pc[a] = "out" /\ ~gone /\ after' = [after EXCEPT ![a] = "out"]
       \/ pc[a] = "run" /\ ~gone /\ ~stopping /\ after' = [after EXCEPT ![a] = "run"]
    /\ Goto(a, "stop")
    /\ UNCHANGED <<shared, lists, counts, stats, history, node, job, nested, mine, drain, asleep>>

\* The first stop() owns what is queued.
StopFirst(a) ==
    /\ pc[a] = "stop" /\ ~stopping
    /\ stopping' = TRUE
    /\ discarded' = discarded + queued
    /\ dropped' = queued /\ queued' = 0
    /\ drainer' = IF queued # 0 THEN a ELSE None
    /\ Goto(a, "stopped")
    /\ UNCHANGED <<joining, joined, handles, lists, reserved, running, completed, rejected,
                   victim, node, job, after, nested, mine, asleep, history>>

StopAgain(a) ==
    /\ pc[a] = "stop" /\ stopping
    /\ Goto(a, after[a])
    /\ UNCHANGED <<shared, lists, counts, stats, history, node, job, after, nested, mine, drain, asleep>>

StopNotify_Silent(a) ==
    /\ pc[a] = "stopped"
    /\ Goto(a, IF dropped = 0 THEN after[a] ELSE "drain")
    /\ UNCHANGED <<shared, lists, counts, stats, drain, history, node, job, after, nested, mine, asleep>>

StopNotify(a) ==
    /\ pc[a] = "stopped"
    /\ NotifyAll
    /\ Goto(a, IF dropped = 0 THEN after[a] ELSE "drain")
    /\ UNCHANGED <<shared, lists, counts, stats, drain, history, node, job, after, nested, mine>>

\* The drain pops the ring without the mutex.
DrainPop(a) ==
    /\ pc[a] = "drain" /\ dropped # 0
    /\ victim' = Head(ring) /\ ring' = Tail(ring) /\ dropped' = dropped - 1
    /\ Goto(a, "destroy")
    /\ UNCHANGED <<shared, free, task, counts, stats, history, node, job, after, nested, mine, asleep>>

\* The callable is destroyed unlocked, then release_node().
DrainDestroy(a) ==
    /\ pc[a] = "destroy"
    /\ destroyed' = destroyed \cup {task[victim]} /\ task' = [task EXCEPT ![victim] = None]
    /\ free' = free \cup {victim} /\ victim' = None
    /\ Goto(a, "drain")
    /\ UNCHANGED <<shared, ring, counts, stats, dropped, ran, gone, node, job, after, nested,
                   mine, asleep>>

DrainEnd(a) ==
    /\ pc[a] = "drain" /\ dropped = 0
    /\ drainer' = None
    /\ Goto(a, "drained")
    /\ UNCHANGED <<stopping, joining, joined, handles, lists, counts, stats, drain, history, node,
                   job, after, nested, mine, asleep>>

DrainNotify(a) ==
    /\ pc[a] = "drained"
    /\ NotifyAll /\ Goto(a, after[a])
    /\ UNCHANGED <<shared, lists, counts, stats, drain, history, node, job, after, nested, mine>>

-----------------------------------------------------------------------------
(* join() and the destructor                                                *)

\* A pool thread that calls join() gets an exception and changes nothing.
CallJoin(c) ==
    /\ pc[c] = "out" /\ ~gone
    /\ after' = [after EXCEPT ![c] = "elect"]
    /\ Goto(c, "stop")
    /\ UNCHANGED <<shared, lists, counts, stats, drain, history, node, job, nested, mine, asleep>>

\* A callable's destructor joins the pool from inside the drain, the only place
\* where stop_drain_thread_ lets it; its stop() returns at once.  Once the pool is joined such a call changes nothing.
NestedJoin(c) ==
    /\ pc[c] = "destroy" /\ ~gone /\ ~joined
    /\ nested' = [nested EXCEPT ![c] = TRUE]
    /\ Goto(c, "elect")
    /\ UNCHANGED <<shared, lists, counts, stats, drain, history, node, job, after, mine, asleep>>

\* One caller takes the thread handles, the others wait for it.
Elect(c) ==
    /\ pc[c] = "elect" /\ c \notin asleep
    /\ \/ /\ joining /\ asleep' = asleep \cup {c}
          /\ UNCHANGED <<pc, joining, handles, mine>>
       \/ /\ ~joining /\ ~joined
          /\ joining' = TRUE /\ handles' = {} /\ mine' = [mine EXCEPT ![c] = handles]
          /\ Goto(c, "joining") /\ UNCHANGED asleep
       \/ /\ ~joining /\ joined
          /\ Goto(c, "joining") /\ UNCHANGED <<joining, handles, mine, asleep>>
    /\ UNCHANGED <<stopping, drainer, joined, lists, counts, stats, drain, history, node, job,
                   after, nested>>

JoinThreads(c) ==
    /\ pc[c] = "joining" /\ \A t \in mine[c] : pc[t] = "exit"
    /\ Goto(c, "mark")
    /\ UNCHANGED <<shared, lists, counts, stats, drain, history, node, job, after, nested, mine, asleep>>

\* Enters the last critical section; Settle is the wait it ends with.
Mark(c) ==
    /\ pc[c] = "mark"
    /\ IF mine[c] # {} \/ ~joined
         THEN joining' = FALSE /\ joined' = TRUE /\ NotifyAll
         ELSE UNCHANGED <<joining, joined, asleep>>
    /\ mine' = [mine EXCEPT ![c] = {}]
    /\ Goto(c, "settle")
    /\ UNCHANGED <<stopping, drainer, handles, lists, counts, stats, drain, history, node, job,
                   after, nested>>

Settled_DrainOnly(c) == drainer \in {None, c}

Settled(c) == drainer \in {None, c} /\ reserved = 0

Settle(c) ==
    /\ pc[c] = "settle" /\ c \notin asleep
    /\ \/ /\ Settled(c)
          /\ Goto(c, IF nested[c] THEN "destroy" ELSE "out")
          /\ nested' = [nested EXCEPT ![c] = FALSE]
          /\ UNCHANGED asleep
       \/ /\ ~Settled(c) /\ asleep' = asleep \cup {c}
          /\ UNCHANGED <<pc, nested>>
    /\ UNCHANGED <<shared, lists, counts, stats, drain, history, node, job, after, mine>>

\* ~blocking_pool(): no other caller may be using the pool.
Destroy(c) ==
    /\ ~gone /\ \A d \in Callers : pc[d] = "out"
    /\ gone' = TRUE
    /\ after' = [after EXCEPT ![c] = "detach"]
    /\ Goto(c, "stop")
    /\ UNCHANGED <<shared, lists, counts, stats, drain, ran, destroyed, node, job, nested, mine, asleep>>

\* detach_threads(): the threads keep the state alive and exit on their own.
Detach(c) ==
    /\ pc[c] = "detach"
    /\ handles' = {}
    /\ Goto(c, "out")
    /\ UNCHANGED <<stopping, drainer, joining, joined, lists, counts, stats, drain, history, node,
                   job, after, nested, mine, asleep>>

\* condition_.wait may return without a notification.
SpuriousWakeup(a) ==
    /\ a \in asleep /\ asleep' = asleep \ {a}
    /\ UNCHANGED <<shared, lists, counts, stats, drain, history, pc, node, job, after, nested, mine>>

-----------------------------------------------------------------------------
\* What an actor inside a call does next.
StopStep(a) ==
    \/ StopFirst(a) \/ StopAgain(a) \/ StopNotify(a)
    \/ DrainPop(a) \/ DrainDestroy(a) \/ DrainEnd(a) \/ DrainNotify(a)

CallerStep(c) ==
    \/ Publish(c) \/ Drop(c) \/ ReturnReservation(c) \/ ReservationNotify(c) \/ SubmitNotify(c)
    \/ Elect(c) \/ JoinThreads(c) \/ Mark(c) \/ Settle(c) \/ Detach(c)

ThreadStep(t) == Take(t) \/ Run(t) \/ Retire(t)

Next ==
    \/ \E c \in Callers :
          CallerStep(c) \/ Reserve(c) \/ CallJoin(c) \/ NestedJoin(c) \/ Destroy(c)
    \/ \E t \in Threads : ThreadStep(t)
    \/ \E a \in Actors : StopStep(a) \/ CallStop(a) \/ SpuriousWakeup(a)

Spec == Init /\ [][Next]_vars

(* Every thread is scheduled, the callables the pool runs return and their  *)
(* destructors too.  Nobody is obliged to submit, stop or join.             *)
Fairness ==
    /\ \A c \in Callers : WF_vars(CallerStep(c))
    /\ \A t \in Threads : WF_vars(ThreadStep(t))
    /\ \A a \in Actors : WF_vars(StopStep(a))

LiveSpec == Spec /\ Fairness

-----------------------------------------------------------------------------
(* Properties.                                                              *)

\* submit() pops free_head_ without testing it (blocking_pool.cpp:339): while
\* a submission is admitted there is a node, because each thread holds at most
\* one besides the queued and the reserved ones.
FreeNodeForSubmit == ~stopping /\ Admits => free # {}

\* The std::terminate() calls behind try_pop and try_push are unreachable: the
\* ring holds what queued_ counts, and after a stop exactly what the drain has
\* still to pop, although the drain runs without the mutex.
RingAgrees ==
    /\ ~stopping => Len(ring) = queued
    /\ stopping => Len(ring) = dropped
    /\ Len(ring) <= Capacity

\* stats() counts every submission exactly once, whichever of run(), stop()
\* and the two critical sections of submit() resolved it.
CountedOnce ==
    completed + rejected + discarded + queued + running
        + Cardinality({c \in Callers : pc[c] = "publish"})
      = Cardinality(Tasks \ Fresh)

\* No node is in two places: the free list, the ring, the drain's hand, a
\* submission or a thread.  None is lost.
OneHolder ==
    /\ Distinct(ring) /\ Elems(ring) \cap free = {}
    /\ victim \notin free \cup Elems(ring)
    /\ \A a \in Actors : node[a] # None =>
          /\ node[a] \notin free \cup Elems(ring) \cup {victim}
          /\ \A b \in Actors \ {a} : node[b] # node[a]

NoNodeLost ==
    \A n \in Nodes : n \in free \cup Elems(ring) \cup {victim} \/ \E a \in Actors : node[a] = n

\* reserved_ and running_ count the nodes of submissions and of threads, and a
\* submission is admitted only into a place of the ring.
Held(A) == {node[a] : a \in A} \ {None}

CountsAgree ==
    /\ reserved = Cardinality(Held(Callers)) /\ running = Cardinality(Held(Threads))
    /\ queued + reserved <= Capacity

\* Exactly the nodes that are queued, being drained or refused late hold a
\* callable.
CallablesHeld ==
    \A n \in Nodes : task[n] # None <=>
        n \in Elems(ring) \cup {victim} \/ \E c \in Callers : pc[c] = "drop" /\ node[c] = n

\* Where an actor is says what it holds and where its stop() returns to.
InStop == {"stop", "stopped", "drain", "destroy", "drained"}
InJoin == {"elect", "joining", "mark", "settle"}

ActorsAgree ==
    /\ \A t \in Threads :
          /\ pc[t] \in {"wait", "run", "retire", "exit"} \cup InStop
          /\ pc[t] \in InStop => after[t] = "run"
          /\ node[t] # None <=> pc[t] \notin {"wait", "exit"}
          /\ job[t] # None <=> pc[t] \in InStop \cup {"run"}
    /\ \A c \in Callers :
          /\ pc[c] \notin {"wait", "run", "retire", "exit"}
          /\ pc[c] \in InStop => after[c] \in {"out", IF gone THEN "detach" ELSE "elect"}
          /\ nested[c] => after[c] \in {"out", "elect"}
          /\ pc[c] = "detach" => gone
          /\ node[c] # None <=> pc[c] \in {"publish", "drop", "dropped"}
          /\ job[c] # None <=> pc[c] = "publish"
    /\ \A a \in Actors : nested[a] => pc[a] \in InJoin

\* One stop() drains, on behalf of everyone, and only what was queued.
DrainAgrees ==
    /\ ~stopping => drainer = None /\ victim = None /\ dropped = 0
    /\ stopping => queued = 0
    /\ drainer = None => dropped = 0 /\ victim = None
    /\ \A a \in Actors :
          /\ pc[a] \in {"stopped", "drain", "destroy", "drained"} \/ nested[a] => stopping
          /\ pc[a] \in {"drain", "destroy"} \/ nested[a] \/ (pc[a] = "stopped" /\ dropped # 0) <=> drainer = a
          /\ drainer = a => (victim # None <=> pc[a] = "destroy" \/ nested[a])

\* One join() has the handles of all threads and waits for them; the others
\* go on once they are joined.
JoinAgrees ==
    /\ ~joining /\ ~joined /\ ~gone => handles = Threads
    /\ joined => ~joining /\ \A t \in Threads : pc[t] = "exit"
    /\ \A c \in Callers :
          /\ pc[c] \in InJoin => stopping /\ ~gone
          /\ pc[c] \in {"joining", "mark"} => mine[c] # {} \/ joined
          /\ pc[c] = "settle" => joined
          /\ mine[c] # {} =>
                /\ joining /\ mine[c] = Threads /\ pc[c] \in {"joining", "mark"}
                /\ pc[c] = "mark" => \A t \in Threads : pc[t] = "exit"
                /\ \A d \in Callers \ {c} : mine[d] = {}

\* Nodes, ring and counters agree after every step, and with what every actor
\* is doing.
PoolInv ==
    /\ TypeOK /\ FreeNodeForSubmit /\ RingAgrees /\ CountedOnce
    /\ OneHolder /\ NoNodeLost /\ CountsAgree /\ CallablesHeld
    /\ ActorsAgree /\ DrainAgrees /\ JoinAgrees

\* join() outside a drain returns to a quiet pool: every thread has exited, no
\* callable is left in a node, nobody is between the two halves of submit().
JoinLeavesQuiet ==
    [][\A c \in Callers : pc[c] = "settle" /\ pc'[c] = "out" =>
          /\ \A t \in Threads : pc'[t] = "exit"
          /\ \A n \in Nodes : task'[n] = None
          /\ free' = Nodes /\ drainer' = None]_vars

\* An accepted callable is run, or destroyed by the stop that found it queued.
CallableResolved ==
    \A k \in Tasks : (\E n \in Nodes : task[n] = k) ~> k \in ran \cup destroyed

\* join() returns, also when a drain, another join() or a late submission is
\* in its way, and when a destructor inside the drain joins again; and every
\* thread leaves a stopped pool, detached or not.
JoinReturns ==
    /\ \A c \in Callers : pc[c] = "elect" ~> pc[c] = "out"
    /\ stopping ~> \A t \in Threads : pc[t] = "exit"
=============================================================================
