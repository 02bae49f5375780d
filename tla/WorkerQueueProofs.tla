-------------------------- MODULE WorkerQueueProofs --------------------------
(* QueueInv is an inductive invariant of WorkerQueue, for any number of     *)
(* clients, tasks and idle callbacks and any capacity; what the queue       *)
(* promises about admission, draining, order and waiting follows from it.   *)
EXTENDS WorkerQueue, ChainLemmas

USE CapacityAssumption, NodesAssumption, NoneAssumption

\* Pending nodes are the ones that are neither free nor in the batch, so a
\* chain of pending nodes is never longer than pending_count_.
LEMMA PendingCovers ==
    ASSUME QueueInv
    PROVE  /\ Len(ready) \in Nat /\ Len(ready) <= pending_count
           /\ \A t \in Threads : held[t] # << >> => pending_count >= 1
<1> DEFINE Busy == finished \cup Elems(batch)
           Pend == Nodes \ (free \cup Busy)
<1>1. /\ free \subseteq Nodes /\ finished \subseteq Nodes /\ Elems(batch) \subseteq Nodes
      /\ batch \in Seq(Nodes) /\ ready \in Seq(Nodes) /\ pending_count \in Nat
  BY DEF QueueInv, TypeOK, Elems
<1>2. IsFiniteSet(free) /\ IsFiniteSet(finished) /\ IsFiniteSet(Pend)
  BY <1>1, FS_Subset
<1>3. IsFiniteSet(Elems(batch)) /\ Cardinality(Elems(batch)) = Len(batch)
  BY <1>1, ChainCardinality DEF QueueInv, NodesConserved, Ownership
<1>4. IsFiniteSet(Busy) /\ Cardinality(Busy) = active_count
  <2>1. finished \cap Elems(batch) = {}
    BY DEF QueueInv, NodesConserved, Ownership
  <2>2. IsFiniteSet(Busy) /\ Cardinality(Busy) = Cardinality(finished) + Len(batch)
    BY <1>2, <1>3, <2>1, DisjointCardinality
  <2> QED
    BY <2>2 DEF QueueInv, NodesConserved, Counts, BatchCount
<1>5. IsFiniteSet(free \cup Busy) /\ Cardinality(free \cup Busy) = Cardinality(free) + active_count
  <2>1. free \cap Busy = {}
    BY DEF QueueInv, NodesConserved, Ownership
  <2> QED
    BY <1>2, <1>4, <2>1, DisjointCardinality
<1>6. Cardinality(Pend) = pending_count
  <2>1. (free \cup Busy) \cap Pend = {} /\ (free \cup Busy) \cup Pend = Nodes
    BY <1>1
  <2>2. /\ Cardinality(Nodes) = Cardinality(free \cup Busy) + Cardinality(Pend)
        /\ Cardinality(Pend) \in Nat
    BY <1>2, <1>5, <2>1, DisjointCardinality
  <2>3. Cardinality(free) + pending_count + active_count = 2 * Capacity
    BY DEF QueueInv, NodesConserved, Counts
  <2>4. active_count \in Nat /\ Cardinality(free) \in Nat
    BY <1>2, FS_CardinalityType DEF QueueInv, TypeOK
  <2> QED
    BY <1>1, <1>5, <2>2, <2>3, <2>4
<1>7. Len(ready) \in Nat /\ Len(ready) <= pending_count
  <2>1. Elems(ready) \subseteq Pend
    <3>1. Elems(ready) \subseteq Nodes
      BY <1>1 DEF Elems
    <3>2. Elems(ready) \cap free = {} /\ Elems(ready) \cap Elems(batch) = {} /\ Elems(ready) \cap finished = {}
      BY DEF QueueInv, NodesConserved, Ownership
    <3> QED
      BY <3>1, <3>2
  <2>2. Cardinality(Elems(ready)) = Len(ready)
    BY <1>1, ChainCardinality DEF QueueInv, NodesConserved, Ownership
  <2>3. Cardinality(Elems(ready)) <= Cardinality(Pend)
    BY <1>2, <2>1, FS_Subset
  <2> QED
    BY <1>1, <1>6, <2>2, <2>3
<1>8. ASSUME NEW t \in Threads, held[t] # << >>
      PROVE  pending_count >= 1
  <2>1. held[t] \in Seq(Nodes)
    BY DEF QueueInv, TypeOK
  <2>2. Head(held[t]) \in Elems(held[t]) /\ Head(held[t]) \in Nodes
    BY <1>8, <2>1, ChainTail
  <2>3. Head(held[t]) \in Pend
    BY <2>2 DEF QueueInv, NodesConserved, Ownership
  <2>4. Cardinality(Pend) # 0
    BY <1>2, <2>3, FS_EmptySet
  <2> QED
    BY <1>1, <1>6, <2>4
<1> QED
  BY <1>7, <1>8

\* Nothing is queued, owned or scheduled at the start.
LEMMA QueueInit == Init => QueueInv
<1> SUFFICES ASSUME Init PROVE QueueInv
  OBVIOUS
<1>1. TypeOK
  <2>1. /\ accepting \in BOOLEAN /\ attached \in BOOLEAN
        /\ abandon_drain \in BOOLEAN /\ drain_scheduled \in BOOLEAN
        /\ signal \in [Threads -> BOOLEAN]
    BY Zenon DEF Init
  <2>2. free \subseteq Nodes /\ ready \in Seq(Nodes) /\ batch \in Seq(Nodes) /\ finished \subseteq Nodes
    BY DEF Init
  <2>3. held \in [Threads -> Seq(Nodes)] /\ slot \in [Nodes -> Tasks \cup {None}]
    BY DEF Init
  <2>4. doomed \in [Threads -> Tasks \cup {None}] /\ cbs \in [Threads -> SUBSET Waiters]
    BY DEF Init
  <2>5. pc \in [Threads -> {"out", "loop"}]
    BY DEF Init
  <2>6. published \in Seq(Tasks) /\ started \in Seq(Tasks)
    BY DEF Init
  <2> QED
    BY <2>1, <2>2, <2>3, <2>4, <2>5, <2>6 DEF Init, TypeOK
<1>2. Positions
  BY DEF Init, Positions, Threads
<1>3. Ownership /\ NoLeak
  BY ChainEmpty DEF Init, Ownership, NoLeak
<1>4. Counts
  <2>1. BatchCount = 0
    BY FS_EmptySet DEF Init, BatchCount
  <2> QED
    BY <2>1 DEF Init, Counts
<1>5. Stopping
  BY DEF Init, Stopping, Threads
<1>6. DrainState
  BY DEF Init, DrainState, Threads
<1>7. Payloads
  BY ChainEmpty DEF Init, Payloads, Threads
<1>8. InLine
  BY DEF Init, InLine
<1>9. OneFate
  <2>1. Settled = {}
    BY ChainEmpty DEF Init, Settled
  <2> QED
    BY <2>1, ChainEmpty DEF Init, OneFate
<1>10. Waiting
  BY DEF Init, Waiting, ParkedHasWork, Threads
<1> QED
  BY <1>1, <1>2, <1>3, <1>4, <1>5, <1>6, <1>7, <1>8, <1>9, <1>10 DEF QueueInv, NodesConserved
-----------------------------------------------------------------------------
(* Type correctness of every step.                                          *)

\* The steps of a posting client.
LEMMA TypeClient ==
    ASSUME QueueInv, NEW c \in Clients, ClientStep(c)
    PROVE  TypeOK'
<1> USE DEF Threads
<1>0. TypeOK /\ (pc[c] = "reserved" => held[c][1] \in Nodes /\ slot[held[c][1]] \in Tasks)
  BY DEF QueueInv, NodesConserved, Positions, Payloads
<1>1. ASSUME NEW t \in Tasks, Reserve(c, t) PROVE TypeOK'
  BY <1>0, <1>1 DEF TypeOK, Reserve, flags
<1>2. CASE FactoryThrows(c)
  BY <1>0, <1>2 DEF TypeOK, FactoryThrows, flags
<1>3. CASE Publish(c)
  BY <1>0, <1>3 DEF TypeOK, Publish, ScheduleDrain, PushReady
<1>4. CASE PublishFails(c)
  BY <1>0, <1>4 DEF TypeOK, PublishFails, flags, queue, history
<1> QED
  BY <1>1, <1>2, <1>3, <1>4 DEF ClientStep

\* The steps of a release, by any thread.
LEMMA TypeRelease ==
    ASSUME QueueInv, NEW t \in Threads, Release(t)
    PROVE  TypeOK'
<1>0. TypeOK
  BY DEF QueueInv
<1>1. CASE ReleaseNode(t)
  <2>1. Head(held[t]) \in Nodes /\ Tail(held[t]) \in Seq(Nodes)
    BY <1>0, <1>1, ChainTail DEF TypeOK, ReleaseNode, Releasing
  <2>2. pending_count - 1 \in Nat
    BY <1>0, <1>1, PendingCovers DEF TypeOK, ReleaseNode, Releasing
  <2> QED
    BY <1>0, <1>1, <2>1, <2>2
       DEF TypeOK, ReleaseNode, TakeIdleCallbacks, IdleCallbacks, flags, history
<1>2. CASE DestroyPayload(t)
  BY <1>0, <1>2 DEF TypeOK, DestroyPayload, flags, queue
<1>3. CASE RunCallbacks(t)
  BY <1>0, <1>3 DEF TypeOK, RunCallbacks, flags, queue
<1>4. CASE NotifyPending(t)
  BY <1>0, <1>4 DEF TypeOK, NotifyPending, flags, queue, history, Threads
<1> QED
  BY <1>1, <1>2, <1>3, <1>4 DEF Release

\* The steps of the worker thread.
LEMMA TypeWorker ==
    ASSUME QueueInv, WorkerStep
    PROVE  TypeOK'
<1> USE DEF Threads
<1>0. TypeOK
  BY DEF QueueInv
<1>1. CASE DrainBegin
  <2>1. Len(ready) \in Nat /\ pending_count - Len(ready) \in Nat
    BY <1>0, PendingCovers DEF TypeOK
  <2>2. CASE abandon_drain \/ ready = << >>
    <3>1. /\ pc' \in [Threads -> {"out", "reserved", "release", "loop", "batch", "purge",
                        "purging", "idle", "failure", "waiting", "blocked", "gone"}]
          /\ drains' \in Nat
      BY <1>0, <1>1, <2>2 DEF TypeOK, DrainBegin
    <3>2. cbs' \in [Threads -> SUBSET Waiters] /\ parked' \subseteq Waiters
      BY <1>0, <1>1, <2>2 DEF TypeOK, DrainBegin, TakeIdleCallbacks, IdleCallbacks
    <3> QED
      BY <1>0, <1>1, <2>2, <3>1, <3>2 DEF TypeOK, DrainBegin, history
  <2>3. CASE ~(abandon_drain \/ ready = << >>)
    BY <1>0, <1>1, <2>1, <2>3 DEF TypeOK, DrainBegin, history
  <2> QED
    BY <2>2, <2>3
<1>2. ASSUME batch # << >>
      PROVE  /\ Head(batch) \in Nodes /\ Tail(batch) \in Seq(Nodes)
             /\ Len(batch) \in Nat /\ Len(batch) >= 1
             /\ slot[Head(batch)] \in Tasks
  BY <1>0, <1>2, ChainTail DEF TypeOK, QueueInv, Payloads
<1>3. active_count - BatchCount \in Nat
  BY <1>0 DEF QueueInv, NodesConserved, Counts, TypeOK
<1>4. CASE RunTask
  BY <1>0, <1>2, <1>4 DEF TypeOK, RunTask, flags
<1>5. CASE TaskThrows
  <2>1. batch # << >> /\ pending_count + Len(batch) - 1 \in Nat
    BY <1>0, <1>2, <1>5 DEF TypeOK, TaskThrows
  <2>2. free' \subseteq Nodes /\ held' \in [Threads -> Seq(Nodes)] /\ slot' \in [Nodes -> Tasks \cup {None}]
    BY <1>0, <1>2, <1>5, <2>1 DEF TypeOK, TaskThrows, FailedPrefix
  <2>3. started' \in Seq(Tasks) /\ pending_count' \in Nat /\ active_count' \in Nat
    BY <1>0, <1>2, <1>3, <1>5, <2>1 DEF TypeOK, TaskThrows
  <2>4. /\ accepting' \in BOOLEAN /\ attached' \in BOOLEAN
        /\ abandon_drain' \in BOOLEAN /\ drain_scheduled' \in BOOLEAN
    BY <1>0, <1>5 DEF TypeOK, TaskThrows, BeginAbandon
  <2>5. batch' \in Seq(Nodes) /\ finished' \subseteq Nodes
    BY <1>5 DEF TaskThrows
  <2> QED
    BY <1>0, <1>5, <2>2, <2>3, <2>4, <2>5 DEF TypeOK, TaskThrows
<1>6. CASE DrainFinish
  BY <1>0, <1>3, <1>6
     DEF TypeOK, DrainFinish, ReturnBatch, DrainAgain, TakeIdleCallbacks, IdleCallbacks, history
<1>7. CASE DrainFinishThrows
  BY <1>0, <1>3, <1>7 DEF TypeOK, DrainFinishThrows, ReturnBatch, history
<1>8. CASE AbandonQueued
  BY <1>0, <1>8 DEF TypeOK, AbandonQueued, flags, history
<1>9. CASE AbandonDone
  BY <1>0, <1>9 DEF TypeOK, AbandonDone, flags, queue, history
<1>10. CASE FailedDrainIdle
  BY <1>0, <1>10 DEF TypeOK, FailedDrainIdle, TakeIdleCallbacks, IdleCallbacks, flags, queue, history
<1>11. CASE HandleFailure
  BY <1>0, <1>11 DEF TypeOK, HandleFailure, BeginAbandon, queue, history
<1>12. CASE HandlerThrows
  BY <1>0, <1>12 DEF TypeOK, HandlerThrows, flags, queue, history
<1>13. CASE Detach
  BY <1>0, <1>13 DEF TypeOK, Detach, queue, history
<1>14. CASE WaitForReservations
  BY <1>0, <1>14 DEF TypeOK, WaitForReservations, flags, queue, history
<1> QED
  BY <1>1, <1>4, <1>5, <1>6, <1>7, <1>8, <1>9, <1>10, <1>11, <1>12, <1>13, <1>14
     DEF WorkerStep, BatchStep
-----------------------------------------------------------------------------
(* The node lists.  Most steps leave them alone.                            *)

\* Steps that move no node.
ListsKept == UNCHANGED <<free, ready, pending_count, active_count, held, finished, batch>>

\* A step that moves no node keeps the lists disjoint and counted.
LEMMA KeptLists ==
    ASSUME QueueInv, ListsKept
    PROVE  Ownership' /\ NoLeak' /\ Counts'
BY DEF QueueInv, NodesConserved, ListsKept, Ownership, NoLeak, Counts, BatchCount

\* A reservation moves a free node to its client.
LEMMA ReserveLists ==
    ASSUME QueueInv, NEW c \in Clients, NEW t \in Tasks, Reserve(c, t)
    PROVE  NodesConserved'
<1> USE DEF Threads
<1>1. PICK n \in free : free' = free \ {n} /\ held' = [held EXCEPT ![c] = <<n>>]
  BY DEF Reserve
<1>2. /\ TypeOK /\ Ownership /\ NoLeak /\ Counts /\ Positions
      /\ n \in Nodes /\ held[c] = << >> /\ pc' = [pc EXCEPT ![c] = "reserved"]
      /\ UNCHANGED <<ready, batch, finished, active_count>> /\ pending_count' = pending_count + 1
  BY <1>1 DEF QueueInv, NodesConserved, Reserve, Positions, TypeOK
<1>3. /\ held'[c] = <<n>> /\ Elems(held'[c]) = {n} /\ Distinct(held'[c])
      /\ \A u \in Threads \ {c} : held'[u] = held[u]
      /\ Elems(held[c]) = {}
  BY <1>1, <1>2, ChainOne, ChainEmpty DEF TypeOK
<1>4. Ownership'
  <2>1. /\ n \notin Elems(ready) /\ n \notin Elems(batch) /\ n \notin finished
        /\ \A u \in Threads : n \notin Elems(held[u])
    BY <1>1, <1>2 DEF Ownership
  <2>2. ASSUME NEW u \in Threads
        PROVE  /\ Distinct(held'[u])
               /\ Elems(held'[u]) \cap free' = {} /\ Elems(held'[u]) \cap Elems(ready) = {}
               /\ Elems(held'[u]) \cap Elems(batch) = {} /\ Elems(held'[u]) \cap finished = {}
    <3>1. CASE u = c
      BY <1>1, <1>3, <2>1, <3>1
    <3>2. CASE u # c
      BY <1>1, <1>2, <1>3, <2>1, <3>2 DEF Ownership
    <3> QED
      BY <3>1, <3>2
  <2>3. ASSUME NEW u \in Threads, NEW v \in Threads, u # v
        PROVE  Elems(held'[u]) \cap Elems(held'[v]) = {}
    <3>1. Elems(held[u]) \cap Elems(held[v]) = {}
      BY <1>2, <2>3 DEF Ownership
    <3>2. CASE u = c
      BY <1>3, <2>1, <2>3, <3>2
    <3>3. CASE v = c
      BY <1>3, <2>1, <2>3, <3>3
    <3>4. CASE u # c /\ v # c
      BY <1>3, <3>1, <3>4
    <3> QED
      BY <3>2, <3>3, <3>4
  <2> QED
    BY <1>1, <1>2, <2>2, <2>3 DEF Ownership
<1>5. NoLeak'
  BY <1>1, <1>2, <1>3 DEF NoLeak
<1>6. Counts'
  <2>1. IsFiniteSet(free) /\ Cardinality(free) \in Nat
    BY <1>2, FS_Subset, FS_CardinalityType DEF TypeOK
  <2>2. Cardinality(free') = Cardinality(free) - 1
    BY <1>1, <2>1, FS_RemoveElement
  <2> QED
    BY <1>2, <2>1, <2>2 DEF Counts, BatchCount, TypeOK
<1>7. Positions'
  <2>1. pc'[c] = "reserved" /\ \A u \in Threads \ {c} : pc'[u] = pc[u]
    BY <1>2 DEF TypeOK
  <2>2. c # Worker
    BY NoneAssumption
  <2> QED
    BY <1>2, <1>3, <2>1, <2>2 DEF Positions
<1> QED
  BY <1>4, <1>5, <1>6, <1>7 DEF NodesConserved

\* A publication moves the client's node to the tail of the ready list.
LEMMA PublishLists ==
    ASSUME QueueInv, NEW c \in Clients, Publish(c)
    PROVE  NodesConserved'
<1> USE DEF Threads
<1>1. PICK n \in Nodes : held[c] = <<n>>
  BY DEF QueueInv, NodesConserved, Positions, Publish
<1>2. /\ TypeOK /\ Ownership /\ NoLeak /\ Counts /\ Positions
      /\ ready' = Append(ready, n) /\ held' = [held EXCEPT ![c] = << >>]
      /\ pc' = [pc EXCEPT ![c] = "out"]
      /\ UNCHANGED <<free, batch, finished, active_count, pending_count>>
  BY <1>1 DEF QueueInv, NodesConserved, Publish, PushReady
<1>3. /\ held'[c] = << >> /\ Elems(held'[c]) = {} /\ Distinct(held'[c])
      /\ \A u \in Threads \ {c} : held'[u] = held[u]
      /\ Elems(held[c]) = {n}
  BY <1>1, <1>2, ChainOne, ChainEmpty DEF TypeOK
<1>4. n \notin Elems(ready)
  BY <1>2, <1>3 DEF Ownership
<1>5. Elems(ready') = Elems(ready) \cup {n} /\ Distinct(ready')
  BY <1>2, <1>4, ChainAppend DEF TypeOK, Ownership
<1>6. Ownership'
  BY <1>2, <1>3, <1>5 DEF Ownership
<1>7. NoLeak'
  BY <1>2, <1>3, <1>5 DEF NoLeak
<1>8. Counts'
  BY <1>2 DEF Counts, BatchCount
<1>9. Positions'
  BY <1>2, <1>3 DEF Positions, TypeOK
<1> QED
  BY <1>6, <1>7, <1>8, <1>9 DEF NodesConserved

\* A release moves the head of the thread's chain to the free list.
LEMMA ReleaseLists ==
    ASSUME QueueInv, NEW t \in Threads, ReleaseNode(t)
    PROVE  NodesConserved'
<1> DEFINE n == Head(held[t])
<1>1. /\ TypeOK /\ Ownership /\ NoLeak /\ Counts /\ Positions
      /\ free' = free \cup {n} /\ held' = [held EXCEPT ![t] = Tail(held[t])]
      /\ pending_count' = pending_count - 1
      /\ pc' = IF t = Worker THEN pc ELSE [pc EXCEPT ![t] = "out"]
      /\ UNCHANGED <<ready, batch, finished, active_count>>
      /\ held[t] # << >> /\ held[t] \in Seq(Nodes)
  BY DEF QueueInv, NodesConserved, ReleaseNode, Releasing, TypeOK
<1>2. /\ n \in Nodes /\ Elems(held[t]) = Elems(Tail(held[t])) \cup {n}
      /\ Distinct(Tail(held[t])) /\ n \notin Elems(Tail(held[t]))
  BY <1>1, ChainTail DEF Ownership
<1>3. /\ held'[t] = Tail(held[t])
      /\ \A u \in Threads \ {t} : held'[u] = held[u]
  BY <1>1 DEF TypeOK
<1>4. Ownership'
  <2>1. n \notin Elems(ready) /\ n \notin Elems(batch) /\ n \notin finished
    BY <1>1, <1>2 DEF Ownership
  <2>2. \A u \in Threads \ {t} : n \notin Elems(held[u])
    BY <1>1, <1>2 DEF Ownership
  <2> QED
    BY <1>1, <1>2, <1>3, <2>1, <2>2 DEF Ownership
<1>5. NoLeak'
  BY <1>1, <1>2, <1>3 DEF NoLeak
<1>6. Counts'
  <2>1. IsFiniteSet(free) /\ Cardinality(free) \in Nat /\ n \notin free
    BY <1>1, <1>2, FS_Subset, FS_CardinalityType DEF TypeOK, Ownership
  <2>2. Cardinality(free') = Cardinality(free) + 1
    BY <1>1, <2>1, FS_AddElement
  <2> QED
    BY <1>1, <2>1, <2>2 DEF Counts, BatchCount, TypeOK
<1>7. Positions'
  <2>1. CASE t = Worker
    BY <1>1, <1>3, <2>1 DEF Positions, Threads, ReleaseNode, Releasing
  <2>2. CASE t # Worker
    <3>1. t \in Clients
      BY <2>2 DEF Threads
    <3>2. pc[t] = "release"
      BY <2>2 DEF ReleaseNode, Releasing
    <3>3. PICK m \in Nodes : held[t] = <<m>>
      BY <1>1, <3>1, <3>2 DEF Positions
    <3>4. held'[t] = << >>
      BY <1>3, <3>3
    <3>5. pc'[t] = "out" /\ \A u \in Threads \ {t} : pc'[u] = pc[u]
      BY <1>1, <2>2 DEF TypeOK
    <3> QED
      BY <1>1, <1>3, <2>2, <3>4, <3>5 DEF Positions, Threads
  <2> QED
    BY <2>1, <2>2
<1> QED
  BY <1>4, <1>5, <1>6, <1>7 DEF NodesConserved

\* A drain splices the ready list into an empty batch.
LEMMA DrainBeginLists ==
    ASSUME QueueInv, DrainBegin
    PROVE  NodesConserved'
<1> USE DEF Threads
<1>1. /\ TypeOK /\ Ownership /\ NoLeak /\ Counts /\ Positions /\ pc[Worker] = "loop"
      /\ UNCHANGED <<free, held, finished>>
      /\ batch = << >> /\ finished = {} /\ held[Worker] = << >>
  BY DEF QueueInv, NodesConserved, DrainBegin, Positions
<1>2. \A u \in Threads \ {Worker} : pc'[u] = pc[u]
  BY <1>1 DEF DrainBegin, TypeOK
<1>3. CASE abandon_drain \/ ready = << >>
  <2>1. ListsKept
    BY <1>1, <1>3 DEF DrainBegin, ListsKept
  <2>2. pc'[Worker] \in {"loop", "purge"}
    BY <1>1, <1>3 DEF DrainBegin, TypeOK
  <2>3. Positions'
    BY <1>1, <1>2, <2>1, <2>2 DEF Positions, ListsKept
  <2> QED
    BY <2>1, <2>3, KeptLists DEF NodesConserved
<1>4. CASE ~(abandon_drain \/ ready = << >>)
  <2>1. /\ batch' = ready /\ ready' = << >> /\ pc'[Worker] = "batch"
        /\ pending_count' = pending_count - Len(ready) /\ active_count' = active_count + Len(ready)
    BY <1>1, <1>4 DEF DrainBegin, TypeOK
  <2>2. /\ Elems(batch) = {} /\ Elems(ready') = {} /\ Distinct(ready')
    BY <1>1, <2>1, ChainEmpty
  <2>3. Ownership'
    BY <1>1, <2>1, <2>2 DEF Ownership
  <2>4. NoLeak'
    BY <1>1, <2>1, <2>2 DEF NoLeak
  <2>5. Counts'
    <3>1. Cardinality(finished) = 0 /\ Len(batch) = 0 /\ Len(ready) \in Nat
      BY <1>1, FS_EmptySet DEF TypeOK
    <3>2. IsFiniteSet(free) /\ Cardinality(free) \in Nat
      BY <1>1, FS_Subset, FS_CardinalityType DEF TypeOK
    <3>3. BatchCount' = Len(ready) /\ active_count = 0 /\ pending_count \in Nat
      <4>1. BatchCount' = Len(ready)
        BY <1>1, <2>1, <3>1 DEF BatchCount
      <4>2. BatchCount = 0
        BY <3>1 DEF BatchCount
      <4> QED
        BY <1>1, <4>1, <4>2 DEF Counts, TypeOK
    <3>4. Cardinality(free) + pending_count + active_count = 2 * Capacity
      BY <1>1 DEF Counts
    <3> QED
      BY <1>1, <2>1, <3>1, <3>2, <3>3, <3>4 DEF Counts
  <2>6. Positions'
    BY <1>1, <1>2, <2>1 DEF Positions
  <2> QED
    BY <2>3, <2>4, <2>5, <2>6 DEF NodesConserved
<1> QED
  BY <1>3, <1>4

\* A task that ran leaves its node in the finished prefix of the batch.
LEMMA RunTaskLists ==
    ASSUME QueueInv, RunTask
    PROVE  NodesConserved'
<1> USE DEF Threads
<1> DEFINE n == Head(batch)
<1>1. /\ TypeOK /\ Ownership /\ NoLeak /\ Counts /\ Positions /\ pc[Worker] = "batch"
      /\ finished' = finished \cup {n} /\ batch' = Tail(batch)
      /\ UNCHANGED <<free, ready, held, pc, pending_count, active_count>>
      /\ batch # << >> /\ batch \in Seq(Nodes)
  BY DEF QueueInv, NodesConserved, RunTask, TypeOK
<1>2. /\ n \in Nodes /\ Elems(batch) = Elems(Tail(batch)) \cup {n}
      /\ Distinct(Tail(batch)) /\ n \notin Elems(Tail(batch))
      /\ Len(Tail(batch)) = Len(batch) - 1 /\ Len(batch) \in Nat
  BY <1>1, ChainTail DEF Ownership
<1>3. Ownership'
  BY <1>1, <1>2 DEF Ownership
<1>4. NoLeak'
  BY <1>1, <1>2 DEF NoLeak
<1>5. Counts'
  <2>1. IsFiniteSet(finished) /\ Cardinality(finished) \in Nat /\ n \notin finished
    BY <1>1, <1>2, FS_Subset, FS_CardinalityType DEF TypeOK, Ownership
  <2>2. Cardinality(finished') = Cardinality(finished) + 1
    BY <1>1, <2>1, FS_AddElement
  <2>3. BatchCount' = BatchCount
    BY <1>1, <1>2, <2>1, <2>2 DEF BatchCount
  <2> QED
    BY <1>1, <2>3 DEF Counts
<1>6. Positions'
  BY <1>1 DEF Positions
<1> QED
  BY <1>3, <1>4, <1>5, <1>6 DEF NodesConserved

\* A task that throws splits the batch: the prefix is free, the rest pending.
LEMMA TaskThrowsLists ==
    ASSUME QueueInv, TaskThrows
    PROVE  NodesConserved'
<1> USE DEF Threads
<1> DEFINE n == Head(batch)
<1>1. /\ TypeOK /\ Ownership /\ NoLeak /\ Counts /\ Positions /\ pc[Worker] = "batch"
      /\ free' = free \cup (finished \cup {n}) /\ held' = [held EXCEPT ![Worker] = Tail(batch)]
      /\ finished' = {} /\ batch' = << >> /\ pc' = [pc EXCEPT ![Worker] = "purge"]
      /\ pending_count' = pending_count + Len(batch) - 1
      /\ active_count' = active_count - BatchCount
      /\ UNCHANGED ready
      /\ batch # << >> /\ batch \in Seq(Nodes) /\ held[Worker] = << >>
  BY DEF QueueInv, NodesConserved, TaskThrows, FailedPrefix, TypeOK, Positions
<1>2. /\ n \in Nodes /\ Elems(batch) = Elems(Tail(batch)) \cup {n}
      /\ Distinct(Tail(batch)) /\ n \notin Elems(Tail(batch))
      /\ Len(Tail(batch)) = Len(batch) - 1 /\ Len(batch) \in Nat
  BY <1>1, ChainTail DEF Ownership
<1>3. /\ held'[Worker] = Tail(batch) /\ pc'[Worker] = "purge"
      /\ \A u \in Threads \ {Worker} : held'[u] = held[u] /\ pc'[u] = pc[u]
      /\ Elems(held[Worker]) = {} /\ Elems(batch') = {} /\ Distinct(batch')
  BY <1>1, ChainEmpty DEF TypeOK
<1>4. Ownership'
  BY <1>1, <1>2, <1>3 DEF Ownership
<1>5. NoLeak'
  BY <1>1, <1>2, <1>3 DEF NoLeak
<1>6. Counts'
  <2>1. /\ IsFiniteSet(free) /\ Cardinality(free) \in Nat
        /\ IsFiniteSet(finished) /\ Cardinality(finished) \in Nat
    BY <1>1, FS_Subset, FS_CardinalityType DEF TypeOK
  <2>2. /\ IsFiniteSet(finished \cup {n})
        /\ Cardinality(finished \cup {n}) = Cardinality(finished) + 1
    BY <1>1, <1>2, <2>1, FS_AddElement DEF Ownership
  <2>3. Cardinality(free') = Cardinality(free) + Cardinality(finished) + 1
    <3>1. free \cap (finished \cup {n}) = {}
      BY <1>1, <1>2 DEF Ownership
    <3>2. Cardinality(free \cup (finished \cup {n})) = Cardinality(free) + Cardinality(finished \cup {n})
      BY <2>1, <2>2, <3>1, DisjointCardinality
    <3> QED
      BY <1>1, <2>1, <2>2, <3>2
  <2>4. BatchCount' = 0
    BY <1>1, FS_EmptySet DEF BatchCount
  <2>5. active_count = BatchCount /\ BatchCount = Cardinality(finished) + Len(batch)
    BY <1>1 DEF Counts, BatchCount
  <2>6. Cardinality(free) + pending_count + active_count = 2 * Capacity /\ pending_count \in Nat
    BY <1>1 DEF Counts, TypeOK
  <2>7. active_count' = 0 /\ pending_count' = pending_count + Len(batch) - 1
    BY <1>1, <1>2, <2>1, <2>5
  <2> QED
    BY <1>2, <2>1, <2>3, <2>4, <2>5, <2>6, <2>7 DEF Counts
<1>7. Positions'
  BY <1>1, <1>3 DEF Positions
<1> QED
  BY <1>4, <1>5, <1>6, <1>7 DEF NodesConserved

\* A finished batch goes back to the free list.
LEMMA ReturnBatchLists ==
    ASSUME QueueInv, ReturnBatch, pc[Worker] = "batch", batch = << >>, UNCHANGED <<ready, held, batch, pending_count>>,
           pc'[Worker] \notin {"batch", "out", "reserved", "release"},
           \A u \in Clients : pc'[u] = pc[u]
    PROVE  NodesConserved'
<1> USE DEF Threads
<1>1. /\ TypeOK /\ Ownership /\ NoLeak /\ Counts /\ Positions
      /\ free' = free \cup finished /\ finished' = {}
      /\ active_count' = active_count - BatchCount
  BY DEF QueueInv, NodesConserved, ReturnBatch
<1>2. Ownership'
  BY <1>1, ChainEmpty DEF Ownership
<1>3. NoLeak'
  BY <1>1 DEF NoLeak
<1>4. Counts'
  <2>1. /\ IsFiniteSet(free) /\ Cardinality(free) \in Nat
        /\ IsFiniteSet(finished) /\ Cardinality(finished) \in Nat
    BY <1>1, FS_Subset, FS_CardinalityType DEF TypeOK
  <2>2. Cardinality(free') = Cardinality(free) + Cardinality(finished)
    BY <1>1, <2>1, DisjointCardinality DEF Ownership
  <2>3. BatchCount' = 0 /\ BatchCount = Cardinality(finished)
    BY <1>1, <2>1, FS_EmptySet DEF BatchCount
  <2> QED
    BY <1>1, <2>1, <2>2, <2>3 DEF Counts, TypeOK
<1>5. Positions'
  BY <1>1 DEF Positions
<1> QED
  BY <1>2, <1>3, <1>4, <1>5 DEF NodesConserved

\* abandon_queued() moves the ready list to the worker's own chain.
LEMMA AbandonLists ==
    ASSUME QueueInv, AbandonQueued
    PROVE  NodesConserved'
<1> USE DEF Threads
<1>1. /\ TypeOK /\ Ownership /\ NoLeak /\ Counts /\ Positions
      /\ held' = [held EXCEPT ![Worker] = ready] /\ ready' = << >>
      /\ pc' = [pc EXCEPT ![Worker] = "purging"]
      /\ pc[Worker] = "purge" /\ held[Worker] = << >>
      /\ UNCHANGED <<free, batch, finished, pending_count, active_count>>
  BY DEF QueueInv, NodesConserved, AbandonQueued
<1>2. /\ held'[Worker] = ready /\ pc'[Worker] = "purging"
      /\ \A u \in Threads \ {Worker} : held'[u] = held[u] /\ pc'[u] = pc[u]
      /\ Elems(held[Worker]) = {} /\ Elems(ready') = {} /\ Distinct(ready')
  BY <1>1, ChainEmpty DEF TypeOK
<1>3. Ownership'
  BY <1>1, <1>2 DEF Ownership
<1>4. NoLeak'
  BY <1>1, <1>2 DEF NoLeak
<1>5. Counts' /\ Positions'
  BY <1>1, <1>2 DEF Counts, BatchCount, Positions
<1> QED
  BY <1>3, <1>4, <1>5 DEF NodesConserved
-----------------------------------------------------------------------------
(* The lists, over all steps.                                               *)

\* Every step keeps the node lists disjoint, complete and counted.
LEMMA ListsStep ==
    ASSUME QueueInv, [Next]_vars
    PROVE  NodesConserved'
<1> USE DEF Threads
<1>0. TypeOK /\ Positions /\ NodesConserved
  BY DEF QueueInv, NodesConserved
<1>1. ASSUME NEW c \in Clients, ClientStep(c) PROVE NodesConserved'
  <2>1. ASSUME FactoryThrows(c) \/ PublishFails(c) PROVE NodesConserved'
    <3>1. ListsKept /\ pc' = [pc EXCEPT ![c] = "release"] /\ pc[c] = "reserved"
      BY <2>1 DEF FactoryThrows, PublishFails, ListsKept, queue
    <3>2. Positions'
      BY <1>0, <3>1 DEF Positions, ListsKept, TypeOK
    <3> QED
      BY <3>1, <3>2, KeptLists DEF NodesConserved
  <2> QED
    BY <1>1, <2>1, ReserveLists, PublishLists DEF ClientStep
<1>2. ASSUME NEW t \in Threads, Release(t) PROVE NodesConserved'
  <2>1. ASSUME DestroyPayload(t) \/ RunCallbacks(t) PROVE NodesConserved'
    <3>1. ListsKept /\ pc' = pc
      BY <2>1 DEF DestroyPayload, RunCallbacks, ListsKept, queue
    <3>2. Positions'
      BY <1>0, <3>1 DEF Positions, ListsKept
    <3> QED
      BY <3>1, <3>2, KeptLists DEF NodesConserved
  <2>2. ASSUME NotifyPending(t) PROVE NodesConserved'
    <3>1. ListsKept /\ pc' = IF pc[Worker] = "blocked" THEN [pc EXCEPT ![Worker] = "waiting"] ELSE pc
      BY <2>2 DEF NotifyPending, ListsKept, queue
    <3>2. Positions'
      BY <1>0, <3>1 DEF Positions, ListsKept, TypeOK
    <3> QED
      BY <3>1, <3>2, KeptLists DEF NodesConserved
  <2> QED
    BY <1>2, <2>1, <2>2, ReleaseLists DEF Release
<1>3. ASSUME WorkerStep PROVE NodesConserved'
  <2>1. ASSUME DrainFinish \/ DrainFinishThrows PROVE NodesConserved'
    <3>1. /\ ReturnBatch /\ pc[Worker] = "batch" /\ batch = << >>
          /\ UNCHANGED <<ready, held, batch, pending_count>>
      BY <2>1 DEF DrainFinish, DrainFinishThrows
    <3>2. /\ pc'[Worker] \in {"purge", "loop", "failure"}
          /\ \A u \in Clients : pc'[u] = pc[u]
      BY <1>0, <2>1 DEF DrainFinish, DrainFinishThrows, TypeOK
    <3> QED
      BY <3>1, <3>2, ReturnBatchLists
  <2>2. ASSUME HandlerThrows \/ HandleFailure \/ Detach \/ WaitForReservations \/ FailedDrainIdle \/ AbandonDone
        PROVE  NodesConserved'
    <3>1. ListsKept
      BY <2>2 DEF HandlerThrows, HandleFailure, Detach, WaitForReservations, FailedDrainIdle,
                  AbandonDone, ListsKept, queue
    <3>2. /\ pc[Worker] # "batch" /\ held[Worker] = << >>
          /\ pc'[Worker] \in {"failure", "purge", "gone", "blocked", "loop", "idle"}
          /\ \A u \in Clients : pc'[u] = pc[u]
      BY <1>0, <2>2 DEF HandlerThrows, HandleFailure, Detach, WaitForReservations, FailedDrainIdle,
                        AbandonDone, TypeOK, Positions
    <3>3. Positions'
      BY <1>0, <3>1, <3>2 DEF Positions, ListsKept
    <3> QED
      BY <3>1, <3>3, KeptLists DEF NodesConserved
  <2> QED
    BY <1>3, <2>1, <2>2, DrainBeginLists, RunTaskLists, TaskThrowsLists, AbandonLists
       DEF WorkerStep, BatchStep
<1>4. ASSUME Close \/ (\E w \in Waiters : WhenIdle(w)) \/ UNCHANGED vars PROVE NodesConserved'
  <2>1. ListsKept /\ pc' = pc
    BY <1>4 DEF Close, WhenIdle, vars, ListsKept, queue, local
  <2>2. Positions'
    BY <1>0, <2>1 DEF Positions, ListsKept
  <2> QED
    BY <2>1, <2>2, KeptLists DEF NodesConserved
<1> QED
  BY <1>1, <1>2, <1>3, <1>4 DEF Next

\* Every step keeps admission closed once work is abandoned, and the bounds.
LEMMA StoppingStep ==
    ASSUME QueueInv, [Next]_vars
    PROVE  Stopping'
<1> USE DEF Threads
<1>0. /\ TypeOK /\ Positions /\ Stopping /\ Counts
      /\ Len(ready) \in Nat /\ Len(ready) <= pending_count
  BY PendingCovers DEF QueueInv, NodesConserved
<1>1. ASSUME NEW c \in Clients, ClientStep(c) PROVE Stopping'
  <2>0. c # Worker
    BY NoneAssumption
  <2>1. ASSUME NEW t \in Tasks, Reserve(c, t) PROVE Stopping'
    BY <1>0, <2>0, <2>1 DEF Stopping, Reserve, Admits, TypeOK, flags
  <2>2. CASE FactoryThrows(c)
    BY <1>0, <2>0, <2>2 DEF Stopping, FactoryThrows, TypeOK, flags
  <2>3. CASE Publish(c)
    BY <1>0, <2>0, <2>3 DEF Stopping, Publish, TypeOK
  <2>4. CASE PublishFails(c)
    BY <1>0, <2>0, <2>4 DEF Stopping, PublishFails, TypeOK, flags, queue
  <2> QED
    BY <1>1, <2>1, <2>2, <2>3, <2>4 DEF ClientStep
<1>2. ASSUME NEW t \in Threads, Release(t) PROVE Stopping'
  <2>1. CASE ReleaseNode(t)
    <3>1. pc'[Worker] = pc[Worker]
      BY <1>0, <2>1 DEF ReleaseNode, TypeOK
    <3> QED
      BY <1>0, <2>1, <3>1 DEF Stopping, ReleaseNode, TypeOK, flags
  <2>2. CASE DestroyPayload(t)
    BY <1>0, <2>2 DEF Stopping, DestroyPayload, flags, queue
  <2>3. CASE RunCallbacks(t)
    BY <1>0, <2>3 DEF Stopping, RunCallbacks, flags, queue
  <2>4. CASE NotifyPending(t)
    BY <1>0, <2>4 DEF Stopping, NotifyPending, TypeOK, flags, queue
  <2> QED
    BY <1>2, <2>1, <2>2, <2>3, <2>4 DEF Release
<1>3. ASSUME WorkerStep PROVE Stopping'
  <2>1. CASE DrainBegin
    <3>1. CASE abandon_drain \/ ready = << >>
      BY <1>0, <2>1, <3>1 DEF Stopping, DrainBegin, TypeOK
    <3>2. CASE ~(abandon_drain \/ ready = << >>)
      <4>1. active_count = 0
        <5>1. batch = << >> /\ finished = {}
          BY <1>0, <2>1 DEF DrainBegin, Positions
        <5>2. BatchCount = 0
          BY <5>1, FS_EmptySet DEF BatchCount
        <5> QED
          BY <1>0, <5>2 DEF Counts
      <4>2. /\ active_count' = Len(ready) /\ pending_count' = pending_count - Len(ready)
            /\ pending_count <= Capacity /\ pc'[Worker] = "batch"
            /\ UNCHANGED <<accepting, attached, abandon_drain>>
        BY <1>0, <2>1, <3>2, <4>1 DEF Stopping, DrainBegin, TypeOK
      <4>3. pending_count' <= Capacity /\ active_count' <= Capacity
        BY <1>0, <4>2 DEF TypeOK
      <4> QED
        BY <1>0, <4>2, <4>3 DEF Stopping
    <3> QED
      BY <3>1, <3>2
  <2>2. CASE RunTask
    BY <1>0, <2>2 DEF Stopping, RunTask, flags
  <2>3. CASE TaskThrows
    <3>1. active_count' = 0
      BY <1>0, <2>3 DEF TaskThrows, Counts, TypeOK
    <3> QED
      BY <1>0, <2>3, <3>1 DEF Stopping, TaskThrows, BeginAbandon, TypeOK
  <2>4. CASE DrainFinish
    <3>1. active_count' = 0
      BY <1>0, <2>4 DEF DrainFinish, ReturnBatch, Counts, TypeOK
    <3> QED
      BY <1>0, <2>4, <3>1 DEF Stopping, DrainFinish, TypeOK
  <2>5. CASE DrainFinishThrows
    <3>1. active_count' = 0
      BY <1>0, <2>5 DEF DrainFinishThrows, ReturnBatch, Counts, TypeOK
    <3> QED
      BY <1>0, <2>5, <3>1 DEF Stopping, DrainFinishThrows, TypeOK
  <2>6. CASE AbandonQueued
    BY <1>0, <2>6 DEF Stopping, AbandonQueued, TypeOK, flags
  <2>7. CASE AbandonDone
    BY <1>0, <2>7 DEF Stopping, AbandonDone, TypeOK, flags, queue
  <2>8. CASE FailedDrainIdle
    BY <1>0, <2>8 DEF Stopping, FailedDrainIdle, TypeOK, flags, queue
  <2>9. CASE HandleFailure
    BY <1>0, <2>9 DEF Stopping, HandleFailure, BeginAbandon, TypeOK, queue
  <2>10. CASE HandlerThrows
    BY <1>0, <2>10 DEF Stopping, HandlerThrows, TypeOK, flags, queue
  <2>11. CASE Detach
    BY <1>0, <2>11 DEF Stopping, Detach, TypeOK, queue
  <2>12. CASE WaitForReservations
    BY <1>0, <2>12 DEF Stopping, WaitForReservations, TypeOK, flags, queue
  <2> QED
    BY <1>3, <2>1, <2>2, <2>3, <2>4, <2>5, <2>6, <2>7, <2>8, <2>9, <2>10, <2>11, <2>12
       DEF WorkerStep, BatchStep
<1>4. ASSUME Close \/ (\E w \in Waiters : WhenIdle(w)) \/ UNCHANGED vars PROVE Stopping'
  BY <1>0, <1>4 DEF Stopping, Close, WhenIdle, vars, local, queue, flags
<1> QED
  BY <1>1, <1>2, <1>3, <1>4 DEF Next

\* Every step keeps one drain for work that must be drained.
LEMMA DrainStep ==
    ASSUME QueueInv, [Next]_vars
    PROVE  DrainState'
<1> USE DEF Threads
<1>0. TypeOK /\ Positions /\ Stopping /\ DrainState
  BY DEF QueueInv, NodesConserved
<1>1. ASSUME NEW c \in Clients, ClientStep(c) PROVE DrainState'
  <2>0. c # Worker
    BY NoneAssumption
  <2>1. ASSUME NEW t \in Tasks, Reserve(c, t) PROVE DrainState'
    BY <1>0, <2>0, <2>1 DEF DrainState, Reserve, TypeOK, flags
  <2>2. CASE FactoryThrows(c)
    BY <1>0, <2>0, <2>2 DEF DrainState, FactoryThrows, TypeOK, flags
  <2>3. CASE Publish(c)
    <3>1. ~abandon_drain /\ ~abandon_drain' /\ pc'[Worker] = pc[Worker] /\ drain_scheduled' = TRUE
      BY <1>0, <2>0, <2>3 DEF Publish, Publishable, ScheduleDrain, TypeOK
    <3>2. ready' # << >>
      BY <1>0, <2>3 DEF Publish, PushReady, TypeOK
    <3>3. drains' = IF drain_scheduled THEN drains ELSE drains + 1
      BY <2>3 DEF Publish, ScheduleDrain
    <3> QED
      BY <1>0, <3>1, <3>2, <3>3 DEF DrainState
  <2>4. CASE PublishFails(c)
    BY <1>0, <2>0, <2>4 DEF DrainState, PublishFails, TypeOK, flags, queue
  <2> QED
    BY <1>1, <2>1, <2>2, <2>3, <2>4 DEF ClientStep
<1>2. ASSUME NEW t \in Threads, Release(t) PROVE DrainState'
  <2>1. CASE ReleaseNode(t)
    <3>1. pc'[Worker] = pc[Worker]
      BY <1>0, <2>1 DEF ReleaseNode, TypeOK
    <3> QED
      BY <1>0, <2>1, <3>1 DEF DrainState, ReleaseNode, flags
  <2>2. CASE DestroyPayload(t)
    BY <1>0, <2>2 DEF DrainState, DestroyPayload, flags, queue
  <2>3. CASE RunCallbacks(t)
    BY <1>0, <2>3 DEF DrainState, RunCallbacks, flags, queue
  <2>4. CASE NotifyPending(t)
    BY <1>0, <2>4 DEF DrainState, NotifyPending, TypeOK, flags, queue
  <2> QED
    BY <1>2, <2>1, <2>2, <2>3, <2>4 DEF Release
<1>3. ASSUME WorkerStep PROVE DrainState'
  <2>1. CASE DrainBegin
    <3>1. CASE abandon_drain \/ ready = << >>
      BY <1>0, <2>1, <3>1 DEF DrainState, DrainBegin, TypeOK
    <3>2. CASE ~(abandon_drain \/ ready = << >>)
      BY <1>0, <2>1, <3>2 DEF DrainState, DrainBegin, TypeOK
    <3> QED
      BY <3>1, <3>2
  <2>2. CASE RunTask
    BY <1>0, <2>2 DEF DrainState, RunTask, flags
  <2>3. CASE TaskThrows
    BY <1>0, <2>3 DEF DrainState, TaskThrows, BeginAbandon, TypeOK
  <2>4. CASE DrainFinish
    <3>1. /\ pc[Worker] = "batch" /\ pc'[Worker] = IF abandon_drain THEN "purge" ELSE "loop"
          /\ UNCHANGED <<abandon_drain, ready>>
      BY <1>0, <2>4 DEF DrainFinish, TypeOK
    <3>2. CASE DrainAgain
      <4>1. drain_scheduled' /\ drains' = drains + 1
        BY <2>4, <3>2 DEF DrainFinish
      <4> QED
        BY <1>0, <3>1, <3>2, <4>1 DEF DrainState, DrainAgain
    <3>3. CASE ~DrainAgain
      <4>1. ~drain_scheduled' /\ drains' = drains
        BY <2>4, <3>3 DEF DrainFinish
      <4> QED
        BY <1>0, <3>1, <3>3, <4>1 DEF DrainState, DrainAgain
    <3> QED
      BY <3>2, <3>3
  <2>5. CASE DrainFinishThrows
    BY <1>0, <2>5 DEF DrainState, DrainFinishThrows, DrainAgain, TypeOK
  <2>6. CASE AbandonQueued
    BY <1>0, <2>6 DEF DrainState, Stopping, AbandonQueued, TypeOK, flags
  <2>7. CASE AbandonDone
    BY <1>0, <2>7 DEF DrainState, Stopping, AbandonDone, TypeOK, flags, queue
  <2>8. CASE FailedDrainIdle
    BY <1>0, <2>8 DEF DrainState, Stopping, FailedDrainIdle, TypeOK, flags, queue
  <2>9. CASE HandleFailure
    BY <1>0, <2>9 DEF DrainState, HandleFailure, BeginAbandon, TypeOK, queue
  <2>10. CASE HandlerThrows
    BY <1>0, <2>10 DEF DrainState, HandlerThrows, TypeOK, flags, queue
  <2>11. CASE Detach
    BY <1>0, <2>11 DEF DrainState, Detach, TypeOK, queue
  <2>12. CASE WaitForReservations
    BY <1>0, <2>12 DEF DrainState, Stopping, WaitForReservations, TypeOK, flags, queue
  <2> QED
    BY <1>3, <2>1, <2>2, <2>3, <2>4, <2>5, <2>6, <2>7, <2>8, <2>9, <2>10, <2>11, <2>12
       DEF WorkerStep, BatchStep
<1>4. ASSUME Close \/ (\E w \in Waiters : WhenIdle(w)) \/ UNCHANGED vars PROVE DrainState'
  BY <1>0, <1>4 DEF DrainState, Close, WhenIdle, vars, local, queue, flags
<1> QED
  BY <1>1, <1>2, <1>3, <1>4 DEF Next

\* Every step leaves a task in the nodes that will be published or run.
LEMMA PayloadStep ==
    ASSUME QueueInv, [Next]_vars
    PROVE  Payloads'
<1> USE DEF Threads
<1>0. TypeOK /\ Positions /\ Ownership /\ Payloads
  BY DEF QueueInv, NodesConserved
<1>1. ASSUME NEW c \in Clients, ClientStep(c) PROVE Payloads'
  <2>1. ASSUME NEW t \in Tasks, Reserve(c, t) PROVE Payloads'
    <3>1. PICK n \in free : held' = [held EXCEPT ![c] = <<n>>] /\ slot' = [slot EXCEPT ![n] = t]
      BY <2>1 DEF Reserve
    <3>2. /\ n \in Nodes /\ slot'[n] = t /\ held'[c][1] = n /\ UNCHANGED <<ready, batch>>
          /\ \A m \in Nodes \ {n} : slot'[m] = slot[m]
          /\ \A u \in Clients \ {c} : held'[u] = held[u] /\ pc'[u] = pc[u]
      BY <1>0, <2>1, <3>1 DEF Reserve, TypeOK
    <3>3. n \notin Elems(ready) /\ n \notin Elems(batch)
      BY <1>0 DEF Ownership
    <3>4. ASSUME NEW u \in Clients \ {c}, pc[u] = "reserved"
          PROVE  held[u][1] \in Nodes \ {n}
      <4>1. PICK m \in Nodes : held[u] = <<m>>
        BY <1>0, <3>4 DEF Positions
      <4>2. Elems(held[u]) = {m} /\ Elems(held[u]) \cap free = {}
        BY <1>0, <4>1, ChainOne DEF Ownership
      <4> QED
        BY <4>1, <4>2
    <3>5. Elems(ready) \subseteq Nodes /\ Elems(batch) \subseteq Nodes
      BY <1>0 DEF TypeOK, Elems
    <3> QED
      BY <1>0, <3>2, <3>3, <3>4, <3>5 DEF Payloads
  <2>2. pc[c] = "reserved" => \E n \in Nodes : held[c] = <<n>>
    BY <1>0 DEF Positions
  <2>3. CASE FactoryThrows(c)
    <3>0. PICK n \in Nodes : held[c] = <<n>>
      BY <2>2, <2>3 DEF FactoryThrows
    <3>1. /\ held[c] = <<n>> /\ slot' = [slot EXCEPT ![n] = None] /\ pc' = [pc EXCEPT ![c] = "release"]
          /\ UNCHANGED <<held, ready, batch>>
      BY <2>3, <3>0 DEF FactoryThrows
    <3>2. n \notin Elems(ready) /\ n \notin Elems(batch)
      BY <1>0, <3>1, ChainOne DEF Ownership
    <3>3. ASSUME NEW u \in Clients \ {c}, pc[u] = "reserved"
          PROVE  held[u][1] \in Nodes \ {n}
      <4>1. PICK m \in Nodes : held[u] = <<m>>
        BY <1>0, <3>3 DEF Positions
      <4>2. Elems(held[u]) = {m} /\ Elems(held[c]) = {n}
        BY <3>1, <4>1, ChainOne
      <4>3. Elems(held[u]) \cap Elems(held[c]) = {}
        BY <1>0 DEF Ownership
      <4> QED
        BY <4>1, <4>2, <4>3
    <3>4. Elems(ready) \subseteq Nodes /\ Elems(batch) \subseteq Nodes
      BY <1>0 DEF TypeOK, Elems
    <3>5. /\ pc'[c] = "release" /\ \A u \in Clients \ {c} : pc'[u] = pc[u]
          /\ \A m \in Nodes \ {n} : slot'[m] = slot[m]
      BY <1>0, <3>1 DEF TypeOK
    <3> QED
      BY <1>0, <3>1, <3>2, <3>3, <3>4, <3>5 DEF Payloads
  <2>4. CASE Publish(c)
    <3>0. PICK n \in Nodes : held[c] = <<n>>
      BY <2>2, <2>4 DEF Publish
    <3>1. /\ held[c] = <<n>> /\ ready' = Append(ready, n) /\ slot[n] \in Tasks
          /\ pc' = [pc EXCEPT ![c] = "out"] /\ held' = [held EXCEPT ![c] = << >>]
          /\ UNCHANGED <<slot, batch>>
      BY <1>0, <2>4, <3>0 DEF Publish, PushReady, Payloads
    <3>2. Elems(ready') = Elems(ready) \cup {n}
      BY <1>0, <3>1, ChainAppend DEF TypeOK
    <3>3. pc'[c] = "out" /\ \A u \in Clients \ {c} : held'[u] = held[u] /\ pc'[u] = pc[u]
      BY <1>0, <3>1 DEF TypeOK
    <3> QED
      BY <1>0, <3>1, <3>2, <3>3 DEF Payloads
  <2>5. CASE PublishFails(c)
    BY <1>0, <2>5 DEF Payloads, PublishFails, TypeOK, queue
  <2> QED
    BY <1>1, <2>1, <2>3, <2>4, <2>5 DEF ClientStep
<1>2. ASSUME NEW t \in Threads, Release(t) PROVE Payloads'
  <2>1. CASE ReleaseNode(t)
    <3> DEFINE n == Head(held[t])
    <3>1. /\ held[t] # << >> /\ held[t] \in Seq(Nodes) /\ slot' = [slot EXCEPT ![n] = None]
          /\ held' = [held EXCEPT ![t] = Tail(held[t])] /\ UNCHANGED <<ready, batch>>
          /\ pc' = IF t = Worker THEN pc ELSE [pc EXCEPT ![t] = "out"]
      BY <1>0, <2>1 DEF ReleaseNode, Releasing, TypeOK
    <3>2. n \in Nodes /\ n \in Elems(held[t])
      BY <3>1, ChainTail
    <3>3. /\ \A m \in Nodes \ {n} : slot'[m] = slot[m]
          /\ \A u \in Clients \ {t} : held'[u] = held[u] /\ pc'[u] = pc[u]
          /\ t \in Clients => pc'[t] = "out"
      BY <1>0, <3>1 DEF TypeOK
    <3>4. n \notin Elems(ready) /\ n \notin Elems(batch)
      BY <1>0, <3>2 DEF Ownership
    <3>5. ASSUME NEW u \in Clients \ {t}, pc[u] = "reserved"
          PROVE  held[u][1] \in Nodes \ {n}
      <4>1. PICK m \in Nodes : held[u] = <<m>>
        BY <1>0, <3>5 DEF Positions
      <4>2. Elems(held[u]) = {m}
        BY <4>1, ChainOne
      <4>3. Elems(held[u]) \cap Elems(held[t]) = {}
        BY <1>0 DEF Ownership
      <4> QED
        BY <3>2, <4>1, <4>2, <4>3
    <3>6. Elems(ready) \subseteq Nodes /\ Elems(batch) \subseteq Nodes
      BY <1>0 DEF TypeOK, Elems
    <3> QED
      BY <1>0, <3>1, <3>3, <3>4, <3>5, <3>6 DEF Payloads
  <2>2. CASE DestroyPayload(t)
    BY <1>0, <2>2 DEF Payloads, DestroyPayload, queue
  <2>3. CASE RunCallbacks(t)
    BY <1>0, <2>3 DEF Payloads, RunCallbacks, queue
  <2>4. CASE NotifyPending(t)
    BY <1>0, <2>4 DEF Payloads, NotifyPending, TypeOK, queue
  <2> QED
    BY <1>2, <2>1, <2>2, <2>3, <2>4 DEF Release
<1>3. ASSUME WorkerStep PROVE Payloads'
  <2>0. \A u \in Clients : pc'[u] = pc[u] /\ held'[u] = held[u]
    BY <1>0, <1>3 DEF WorkerStep, BatchStep, DrainBegin, RunTask, TaskThrows, DrainFinish,
       DrainFinishThrows, AbandonQueued, AbandonDone, FailedDrainIdle, HandleFailure, HandlerThrows,
       Detach, WaitForReservations, TypeOK
  <2>1. ASSUME RunTask \/ TaskThrows PROVE Payloads'
    <3> DEFINE n == Head(batch)
    <3>1. /\ batch # << >> /\ batch \in Seq(Nodes) /\ slot' = [slot EXCEPT ![n] = None]
          /\ (batch' = Tail(batch) \/ batch' = << >>) /\ UNCHANGED ready
      BY <1>0, <2>1 DEF RunTask, TaskThrows, TypeOK
    <3>2. /\ n \in Nodes /\ Elems(batch) = Elems(Tail(batch)) \cup {n} /\ n \notin Elems(Tail(batch))
      BY <1>0, <3>1, ChainTail DEF Ownership
    <3>3. UNCHANGED ready /\ Elems(batch') \subseteq Elems(Tail(batch))
      BY <2>1, <3>1, ChainEmpty DEF RunTask, TaskThrows
    <3>4. \A m \in Nodes \ {n} : slot'[m] = slot[m]
      BY <1>0, <3>1 DEF TypeOK
    <3>5. n \notin Elems(ready)
      BY <1>0, <3>2 DEF Ownership
    <3>6. ASSUME NEW u \in Clients, pc[u] = "reserved"
          PROVE  held[u][1] \in Nodes \ {n}
      <4>1. PICK m \in Nodes : held[u] = <<m>>
        BY <1>0, <3>6 DEF Positions
      <4>2. Elems(held[u]) = {m}
        BY <4>1, ChainOne
      <4>3. Elems(held[u]) \cap Elems(batch) = {}
        BY <1>0 DEF Ownership
      <4> QED
        BY <3>2, <4>1, <4>2, <4>3
    <3>7. Elems(ready) \subseteq Nodes /\ Elems(batch) \subseteq Nodes
      BY <1>0 DEF TypeOK, Elems
    <3> QED
      BY <1>0, <2>0, <3>2, <3>3, <3>4, <3>5, <3>6, <3>7 DEF Payloads
  <2>2. ASSUME ~RunTask, ~TaskThrows PROVE Payloads'
    <3>1. slot' = slot
      BY <1>3, <2>2 DEF WorkerStep, BatchStep, DrainBegin, DrainFinish, DrainFinishThrows,
         AbandonQueued, AbandonDone, FailedDrainIdle, HandleFailure, HandlerThrows, Detach,
         WaitForReservations, queue
    <3>2. Elems(ready') \cup Elems(batch') \subseteq Elems(ready) \cup Elems(batch)
      BY <1>3, <2>2, ChainEmpty DEF WorkerStep, BatchStep, DrainBegin, DrainFinish, DrainFinishThrows,
         AbandonQueued, AbandonDone, FailedDrainIdle, HandleFailure, HandlerThrows, Detach,
         WaitForReservations, queue
    <3> QED
      BY <1>0, <2>0, <3>1, <3>2 DEF Payloads
  <2> QED
    BY <2>1, <2>2
<1>4. ASSUME Close \/ (\E w \in Waiters : WhenIdle(w)) \/ UNCHANGED vars PROVE Payloads'
  BY <1>0, <1>4 DEF Payloads, Close, WhenIdle, vars, local, queue, flags
<1> QED
  BY <1>1, <1>2, <1>3, <1>4 DEF Next
-----------------------------------------------------------------------------
(* Publication order.                                                       *)

\* What keeps the line: neither history moves, and on a live queue the nodes
\* that wait keep their places and their tasks.
LEMMA LineKept ==
    ASSUME QueueInv, UNCHANGED <<published, started>>,
           pc'[Worker] = "batch" => ~abandon_drain',
           ~abandon_drain' =>
               /\ ~abandon_drain /\ UNCHANGED <<batch, ready>>
               /\ \A n \in Elems(ready) \cup Elems(batch) : slot'[n] = slot[n]
    PROVE  InLine'
<1>1. InLine
  BY DEF QueueInv
<1>2. \A i \in 1..Len(batch) : batch[i] \in Elems(batch)
  BY DEF Elems
<1>3. \A i \in 1..Len(ready) : ready[i] \in Elems(ready)
  BY DEF Elems
<1> QED
  BY <1>1, <1>2, <1>3 DEF InLine

\* The next task of the batch is the next one published.
LEMMA LineHead ==
    ASSUME QueueInv, pc[Worker] = "batch", batch # << >>,
           started' = Append(started, slot[Head(batch)]), UNCHANGED published
    PROVE  /\ ~abandon_drain
           /\ Len(batch) \in Nat /\ Len(batch) >= 1 /\ Len(ready) \in Nat
           /\ Len(started) \in Nat /\ Len(started') = Len(started) + 1
           /\ Len(started') <= Len(published')
           /\ \A i \in 1..Len(started') : started'[i] = published'[i]
<1>1. /\ InLine /\ batch \in Seq(Nodes) /\ ready \in Seq(Nodes) /\ started \in Seq(Tasks)
      /\ published \in Seq(Tasks)
  BY DEF QueueInv, TypeOK
<1>2. Len(batch) \in Nat /\ Len(batch) >= 1 /\ Head(batch) = batch[1] /\ 1 \in 1..Len(batch)
  BY <1>1
<1>3. /\ ~abandon_drain /\ slot[batch[1]] = published[Len(started) + 1]
      /\ Len(published) = Len(started) + Len(batch) + Len(ready)
  BY <1>1, <1>2 DEF InLine
<1>4. Len(started) \in Nat /\ Len(ready) \in Nat /\ Len(started') = Len(started) + 1
  BY <1>1
<1>5. ASSUME NEW i \in 1..Len(started') PROVE started'[i] = published'[i]
  <2>1. CASE i = Len(started) + 1
    BY <1>1, <1>2, <1>3, <2>1
  <2>2. CASE i # Len(started) + 1
    <3>1. i \in 1..Len(started)
      BY <1>4, <2>2
    <3>2. started'[i] = started[i] /\ started[i] = published[i]
      BY <1>1, <3>1 DEF InLine
    <3> QED
      BY <3>2
  <2> QED
    BY <2>1, <2>2
<1> QED
  BY <1>2, <1>3, <1>4, <1>5

\* A publication joins the line at its end.
LEMMA LinePublish ==
    ASSUME QueueInv, NEW c \in Clients, Publish(c)
    PROVE  InLine'
<1>1. PICK n \in Nodes : held[c] = <<n>>
  BY DEF QueueInv, NodesConserved, Positions, Publish
<1>2. /\ ready' = Append(ready, n) /\ published' = Append(published, slot[n])
      /\ UNCHANGED <<slot, batch, started, abandon_drain>> /\ ~abandon_drain
      /\ pc'[Worker] = pc[Worker]
  BY <1>1 DEF Publish, PushReady, Publishable, QueueInv, TypeOK, Threads
<1>3. /\ InLine /\ batch \in Seq(Nodes) /\ ready \in Seq(Nodes) /\ started \in Seq(Tasks)
      /\ published \in Seq(Tasks) /\ slot[n] \in Tasks
  BY <1>1 DEF QueueInv, TypeOK, Payloads, Publish
<1>4. /\ Len(ready) \in Nat /\ Len(batch) \in Nat /\ Len(started) \in Nat
      /\ Len(published) = Len(started) + Len(batch) + Len(ready)
      /\ Len(ready') = Len(ready) + 1 /\ Len(published') = Len(published) + 1
  BY <1>2, <1>3 DEF InLine
<1>5. \A i \in 1..Len(published) : published'[i] = published[i]
  BY <1>2, <1>3
<1>L. /\ \A i \in 1..Len(started) : started[i] = published[i]
      /\ \A i \in 1..Len(batch) : slot[batch[i]] = published[Len(started) + i]
      /\ \A i \in 1..Len(ready) : slot[ready[i]] = published[Len(started) + Len(batch) + i]
  BY <1>2, <1>3 DEF InLine
<1>6. \A i \in 1..Len(started) : started'[i] = published'[i]
  BY <1>2, <1>4, <1>5, <1>L
<1>7. ASSUME NEW i \in 1..Len(batch) PROVE slot[batch[i]] = published'[Len(started) + i]
  <2>1. Len(started) + i \in 1..Len(published)
    BY <1>4
  <2> QED
    BY <1>5, <1>L, <2>1
<1>8. ASSUME NEW i \in 1..Len(ready')
      PROVE  slot[ready'[i]] = published'[Len(started) + Len(batch) + i]
  <2>1. CASE i = Len(ready) + 1
    BY <1>2, <1>3, <1>4, <2>1
  <2>2. CASE i # Len(ready) + 1
    <3>1. i \in 1..Len(ready) /\ Len(started) + Len(batch) + i \in 1..Len(published)
      BY <1>4, <2>2
    <3>2. ready'[i] = ready[i] /\ slot[ready[i]] = published[Len(started) + Len(batch) + i]
      BY <1>2, <1>3, <1>L, <3>1
    <3> QED
      BY <1>5, <3>1, <3>2
  <2> QED
    BY <2>1, <2>2
<1>9. /\ Len(started') <= Len(published') /\ Len(published') = Len(started') + Len(batch') + Len(ready')
      /\ pc'[Worker] = "batch" => ~abandon_drain'
  BY <1>2, <1>4
<1> QED
  BY <1>2, <1>6, <1>7, <1>8, <1>9 DEF InLine

\* The splice makes the ready list the batch.
LEMMA LineSplice ==
    ASSUME QueueInv, DrainBegin
    PROVE  InLine'
<1>1. CASE abandon_drain \/ ready = << >>
  <2>1. /\ UNCHANGED <<published, started, batch, ready, slot, abandon_drain>>
        /\ pc'[Worker] # "batch"
    BY <1>1 DEF DrainBegin, history, QueueInv, TypeOK, Threads
  <2> QED
    BY <2>1, LineKept
<1>2. CASE ~(abandon_drain \/ ready = << >>)
  <2>1. /\ UNCHANGED <<published, started, slot, abandon_drain>> /\ ~abandon_drain
        /\ batch = << >> /\ batch' = ready /\ ready' = << >>
    BY <1>2 DEF DrainBegin, history, QueueInv, NodesConserved, Positions
  <2>2. InLine /\ started \in Seq(Tasks) /\ ready \in Seq(Nodes)
    BY DEF QueueInv, TypeOK
  <2>3. Len(batch) = 0 /\ Len(ready') = 0 /\ Len(ready) \in Nat /\ Len(started) \in Nat
    BY <2>1, <2>2
  <2> QED
    BY <2>1, <2>2, <2>3 DEF InLine
<1> QED
  BY <1>1, <1>2

\* A task that runs leaves the head of the line.
LEMMA LineRun ==
    ASSUME QueueInv, RunTask
    PROVE  InLine'
<1>1. /\ pc[Worker] = "batch" /\ batch # << >> /\ batch' = Tail(batch)
      /\ started' = Append(started, slot[Head(batch)])
      /\ slot' = [slot EXCEPT ![Head(batch)] = None]
      /\ UNCHANGED <<published, ready, abandon_drain, pc>>
  BY DEF RunTask, flags
<1>2. /\ InLine /\ batch \in Seq(Nodes) /\ ready \in Seq(Nodes) /\ slot \in [Nodes -> Tasks \cup {None}]
      /\ Distinct(batch) /\ Elems(ready) \cap Elems(batch) = {}
  BY DEF QueueInv, TypeOK, NodesConserved, Ownership
<1>3. /\ ~abandon_drain /\ Len(batch) \in Nat /\ Len(batch) >= 1 /\ Len(ready) \in Nat
      /\ Len(started) \in Nat /\ Len(started') = Len(started) + 1
      /\ Len(started') <= Len(published')
      /\ \A i \in 1..Len(started') : started'[i] = published'[i]
  BY <1>1, LineHead
<1>4. /\ Len(published) = Len(started) + Len(batch) + Len(ready)
      /\ \A i \in 1..Len(batch) : slot[batch[i]] = published[Len(started) + i]
      /\ \A i \in 1..Len(ready) : slot[ready[i]] = published[Len(started) + Len(batch) + i]
  BY <1>2, <1>3 DEF InLine
<1>5. /\ Len(batch') = Len(batch) - 1
      /\ \A i \in 1..(Len(batch) - 1) : batch'[i] = batch[i + 1]
      /\ Head(batch) = batch[1] /\ Head(batch) \in Elems(batch)
  BY <1>1, <1>2, <1>3, ChainTail
<1>6. \A m \in Nodes \ {Head(batch)} : slot'[m] = slot[m]
  BY <1>1, <1>2
<1>7. ASSUME NEW i \in 1..Len(batch')
      PROVE  slot'[batch'[i]] = published'[Len(started') + i]
  <2>1. i + 1 \in 1..Len(batch) /\ 1 \in 1..Len(batch) /\ i + 1 # 1 /\ i \in 1..(Len(batch) - 1)
    BY <1>3, <1>5
  <2>2. batch[i + 1] \in Nodes \ {Head(batch)}
    BY <1>2, <1>5, <2>1 DEF Distinct
  <2>3. slot[batch[i + 1]] = published[Len(started) + (i + 1)]
    BY <1>4, <2>1
  <2>4. Len(started) + (i + 1) = Len(started') + i
    BY <1>3
  <2> QED
    BY <1>1, <1>5, <1>6, <2>1, <2>2, <2>3, <2>4
<1>8. ASSUME NEW i \in 1..Len(ready')
      PROVE  slot'[ready'[i]] = published'[Len(started') + Len(batch') + i]
  <2>1. ready[i] \in Elems(ready) /\ ready[i] \in Nodes /\ i \in 1..Len(ready)
    BY <1>1, <1>2 DEF Elems
  <2>2. ready[i] \in Nodes \ {Head(batch)}
    BY <1>2, <1>5, <2>1
  <2>3. Len(started) + Len(batch) + i = Len(started') + Len(batch') + i
    BY <1>3, <1>5
  <2> QED
    BY <1>1, <1>4, <1>6, <2>1, <2>2, <2>3
<1>9. Len(published') = Len(started') + Len(batch') + Len(ready')
  BY <1>1, <1>3, <1>4, <1>5
<1> QED
  BY <1>1, <1>3, <1>7, <1>8, <1>9 DEF InLine

\* Every step keeps the line.
LEMMA LineStep ==
    ASSUME QueueInv, [Next]_vars
    PROVE  InLine'
<1> USE DEF Threads
<1>0. TypeOK /\ Positions /\ Ownership /\ Stopping /\ InLine
  BY DEF QueueInv, NodesConserved
<1>a. Elems(ready) \subseteq Nodes /\ Elems(batch) \subseteq Nodes
  BY <1>0 DEF TypeOK, Elems
<1>1. ASSUME NEW c \in Clients, ClientStep(c) PROVE InLine'
  <2>0. c # Worker
    BY NoneAssumption
  <2>1. ASSUME NEW t \in Tasks, Reserve(c, t) PROVE InLine'
    <3>1. PICK n \in free : slot' = [slot EXCEPT ![n] = t]
      BY <2>1 DEF Reserve
    <3>2. \A m \in Elems(ready) \cup Elems(batch) : m \in Nodes /\ m # n
      BY <1>0 DEF Ownership, TypeOK, Elems
    <3>3. \A m \in Elems(ready) \cup Elems(batch) : slot'[m] = slot[m]
      BY <1>0, <3>1, <3>2 DEF TypeOK
    <3>4. UNCHANGED <<published, started, batch, ready, abandon_drain>> /\ pc'[Worker] = pc[Worker]
      BY <1>0, <2>0, <2>1 DEF Reserve, TypeOK, flags
    <3> QED
      BY <1>0, <3>3, <3>4, LineKept DEF InLine
  <2>2. CASE FactoryThrows(c)
    <3>1. PICK n \in Nodes : held[c] = <<n>>
      BY <1>0, <2>2 DEF Positions, FactoryThrows
    <3>2. slot' = [slot EXCEPT ![n] = None] /\ Elems(held[c]) = {n}
      BY <2>2, <3>1, ChainOne DEF FactoryThrows
    <3>3. \A m \in Elems(ready) \cup Elems(batch) : m \in Nodes /\ m # n
      BY <1>0, <1>a, <3>2 DEF Ownership
    <3>4. \A m \in Elems(ready) \cup Elems(batch) : slot'[m] = slot[m]
      BY <1>0, <3>2, <3>3 DEF TypeOK
    <3>5. UNCHANGED <<published, started, batch, ready, abandon_drain>> /\ pc'[Worker] = pc[Worker]
      BY <1>0, <2>0, <2>2 DEF FactoryThrows, TypeOK, flags
    <3> QED
      BY <1>0, <3>4, <3>5, LineKept DEF InLine
  <2>3. CASE PublishFails(c)
    <3>1. UNCHANGED <<published, started, batch, ready, slot, abandon_drain>> /\ pc'[Worker] = pc[Worker]
      BY <1>0, <2>0, <2>3 DEF PublishFails, TypeOK, flags, queue, history
    <3> QED
      BY <1>0, <3>1, LineKept DEF InLine
  <2> QED
    BY <1>1, <2>1, <2>2, <2>3, LinePublish DEF ClientStep
<1>2. ASSUME NEW t \in Threads, Release(t) PROVE InLine'
  <2>1. CASE ReleaseNode(t)
    <3> DEFINE n == Head(held[t])
    <3>1. /\ held[t] # << >> /\ held[t] \in Seq(Nodes) /\ slot' = [slot EXCEPT ![n] = None]
          /\ UNCHANGED <<published, started, batch, ready, abandon_drain>>
          /\ pc'[Worker] = pc[Worker]
      BY <1>0, <2>1 DEF ReleaseNode, Releasing, TypeOK, flags, history
    <3>2. n \in Elems(held[t])
      BY <3>1, ChainTail
    <3>3. \A m \in Elems(ready) \cup Elems(batch) : m \in Nodes /\ m # n
      BY <1>0, <1>a, <3>2 DEF Ownership
    <3>4. \A m \in Elems(ready) \cup Elems(batch) : slot'[m] = slot[m]
      BY <1>0, <3>1, <3>3 DEF TypeOK
    <3> QED
      BY <1>0, <3>1, <3>4, LineKept DEF InLine
  <2>2. ASSUME DestroyPayload(t) \/ RunCallbacks(t) PROVE InLine'
    <3>1. UNCHANGED <<published, started, batch, ready, slot, abandon_drain, pc>>
      BY <2>2 DEF DestroyPayload, RunCallbacks, flags, queue
    <3> QED
      BY <1>0, <3>1, LineKept DEF InLine
  <2>3. CASE NotifyPending(t)
    <3>1. UNCHANGED <<published, started, batch, ready, slot, abandon_drain>>
      BY <2>3 DEF NotifyPending, flags, queue, history
    <3>2. pc'[Worker] = "batch" => pc[Worker] = "batch"
      BY <1>0, <2>3 DEF NotifyPending, TypeOK
    <3> QED
      BY <1>0, <3>1, <3>2, LineKept DEF InLine
  <2> QED
    BY <1>2, <2>1, <2>2, <2>3 DEF Release
<1>3. ASSUME WorkerStep PROVE InLine'
  <2>1. CASE TaskThrows
    <3>1. /\ pc[Worker] = "batch" /\ batch # << >> /\ UNCHANGED published
          /\ started' = Append(started, slot[Head(batch)]) /\ abandon_drain' = TRUE
          /\ pc'[Worker] = "purge"
      BY <1>0, <2>1 DEF TaskThrows, BeginAbandon, TypeOK
    <3> QED
      BY <3>1, LineHead DEF InLine
  <2>2. ASSUME DrainFinish \/ DrainFinishThrows PROVE InLine'
    <3>1. UNCHANGED <<published, started, batch, ready, slot, abandon_drain>> /\ pc'[Worker] # "batch"
      BY <1>0, <2>2 DEF DrainFinish, DrainFinishThrows, TypeOK, history
    <3> QED
      BY <3>1, LineKept
  <2>3. ASSUME AbandonQueued \/ HandleFailure \/ Detach PROVE InLine'
    <3>1. UNCHANGED <<published, started>> /\ abandon_drain' /\ pc'[Worker] # "batch"
      BY <1>0, <2>3 DEF AbandonQueued, HandleFailure, Detach, BeginAbandon, Stopping, TypeOK,
                        flags, history
    <3> QED
      BY <3>1, LineKept
  <2>4. ASSUME AbandonDone \/ FailedDrainIdle \/ HandlerThrows \/ WaitForReservations PROVE InLine'
    <3>1. UNCHANGED <<published, started, batch, ready, slot, abandon_drain>> /\ pc'[Worker] # "batch"
      BY <1>0, <2>4 DEF AbandonDone, FailedDrainIdle, HandlerThrows, WaitForReservations, TypeOK,
                        flags, queue, history
    <3> QED
      BY <3>1, LineKept
  <2> QED
    BY <1>3, <2>1, <2>2, <2>3, <2>4, LineSplice, LineRun DEF WorkerStep, BatchStep
<1>4. ASSUME Close \/ (\E w \in Waiters : WhenIdle(w)) \/ UNCHANGED vars PROVE InLine'
  <2>1. UNCHANGED <<published, started, batch, ready, slot, abandon_drain, pc>>
    BY <1>4 DEF Close, WhenIdle, vars, local, queue, flags, history
  <2> QED
    BY <1>0, <2>1, LineKept DEF InLine
<1> QED
  BY <1>1, <1>2, <1>3, <1>4 DEF Next
-----------------------------------------------------------------------------
(* The fate of a task.                                                      *)

\* Whatever a node's task becomes, it becomes nothing else.
LEMMA FateReserve ==
    ASSUME QueueInv, NEW c \in Clients, NEW t \in Tasks, Reserve(c, t)
    PROVE  OneFate'
<1>1. PICK n \in free : slot' = [slot EXCEPT ![n] = t]
  BY DEF Reserve
<1>2. /\ n \in Nodes /\ t \notin accepted /\ accepted' = accepted \cup {t} /\ t # None
      /\ UNCHANGED <<started, destroyed, doomed>>
      /\ OneFate /\ slot \in [Nodes -> Tasks \cup {None}]
  BY DEF Reserve, QueueInv, TypeOK
<1>3. slot'[n] = t /\ \A m \in Nodes \ {n} : slot'[m] = slot[m]
  BY <1>1, <1>2
<1>4. Settled' = Settled /\ t \notin Settled
  BY <1>2 DEF Settled, OneFate
<1>5. \A u \in Threads : doomed[u] # t
  BY <1>2 DEF OneFate
<1>6. \A m \in Nodes : slot[m] # t
  BY <1>2 DEF OneFate
<1> QED
  BY <1>2, <1>3, <1>4, <1>5, <1>6 DEF OneFate

\* The factory's callable dies with the factory.
LEMMA FateFactory ==
    ASSUME QueueInv, NEW c \in Clients, FactoryThrows(c)
    PROVE  OneFate'
<1>1. PICK n \in Nodes : held[c] = <<n>>
  BY DEF QueueInv, NodesConserved, Positions, FactoryThrows
<1>2. /\ slot' = [slot EXCEPT ![n] = None] /\ destroyed' = destroyed \cup {slot[n]} /\ slot[n] \in Tasks
      /\ UNCHANGED <<started, accepted, doomed>>
      /\ OneFate /\ slot \in [Nodes -> Tasks \cup {None}]
  BY <1>1 DEF FactoryThrows, QueueInv, TypeOK, Payloads
<1>3. slot'[n] = None /\ \A m \in Nodes \ {n} : slot'[m] = slot[m]
  BY <1>2
<1>4. /\ Settled' = Settled \cup {slot[n]} /\ slot[n] # None /\ slot[n] \in accepted \ Settled
      /\ slot[n] \notin Elems(started)
  BY <1>2 DEF Settled, OneFate
<1> QED
  BY <1>2, <1>3, <1>4 DEF OneFate

\* A release moves the task from its node to the thread that destroys it.
LEMMA FateRelease ==
    ASSUME QueueInv, NEW t \in Threads, ReleaseNode(t)
    PROVE  OneFate'
<1> DEFINE n == Head(held[t])
<1>1. /\ held[t] # << >> /\ held[t] \in Seq(Nodes) /\ slot' = [slot EXCEPT ![n] = None]
      /\ doomed' = [doomed EXCEPT ![t] = slot[n]]
      /\ UNCHANGED <<started, accepted, destroyed>>
      /\ OneFate /\ slot \in [Nodes -> Tasks \cup {None}] /\ doomed \in [Threads -> Tasks \cup {None}]
  BY DEF ReleaseNode, Releasing, QueueInv, TypeOK, history
<1>2. n \in Nodes
  BY <1>1, ChainTail
<1> HIDE DEF n
<1>3. /\ slot'[n] = None /\ \A m \in Nodes \ {n} : slot'[m] = slot[m]
      /\ doomed'[t] = slot[n] /\ \A u \in Threads \ {t} : doomed'[u] = doomed[u]
  BY <1>1, <1>2
<1>4. Settled' = Settled
  BY <1>1 DEF Settled
<1> QED
  BY <1>1, <1>2, <1>3, <1>4 DEF OneFate

\* A task destroyed is destroyed by one thread.
LEMMA FateDestroy ==
    ASSUME QueueInv, NEW t \in Threads, DestroyPayload(t)
    PROVE  OneFate'
<1>1. /\ doomed[t] # None /\ destroyed' = destroyed \cup {doomed[t]}
      /\ doomed' = [doomed EXCEPT ![t] = None]
      /\ UNCHANGED <<started, accepted, slot>>
      /\ OneFate /\ doomed \in [Threads -> Tasks \cup {None}]
  BY DEF DestroyPayload, QueueInv, TypeOK, queue
<1>2. doomed'[t] = None /\ \A u \in Threads \ {t} : doomed'[u] = doomed[u]
  BY <1>1
<1>3. Settled' = Settled \cup {doomed[t]} /\ doomed[t] \in accepted \ Settled /\ doomed[t] \notin Elems(started)
  BY <1>1 DEF Settled, OneFate
<1> QED
  BY <1>1, <1>2, <1>3 DEF OneFate

\* A task that starts leaves its node.
LEMMA FateRun ==
    ASSUME QueueInv, RunTask \/ TaskThrows
    PROVE  OneFate'
<1> DEFINE n == Head(batch)
<1>1. /\ batch # << >> /\ batch \in Seq(Nodes) /\ slot' = [slot EXCEPT ![n] = None]
      /\ started' = Append(started, slot[n]) /\ started \in Seq(Tasks)
      /\ UNCHANGED <<destroyed, accepted, doomed>>
      /\ OneFate /\ slot \in [Nodes -> Tasks \cup {None}]
  BY DEF RunTask, TaskThrows, QueueInv, TypeOK
<1>2. n \in Nodes /\ n \in Elems(batch)
  BY <1>1, ChainTail
<1>3. slot[n] \in Tasks
  BY <1>2 DEF QueueInv, Payloads
<1>4. Elems(started') = Elems(started) \cup {slot[n]}
  BY <1>1, <1>3, ChainAppend
<1> HIDE DEF n
<1>5. slot'[n] = None /\ \A m \in Nodes \ {n} : slot'[m] = slot[m]
  BY <1>1, <1>2
<1>6. /\ Settled' = Settled \cup {slot[n]} /\ slot[n] # None /\ slot[n] \in accepted \ Settled
      /\ slot[n] \notin destroyed
  BY <1>1, <1>2, <1>3, <1>4 DEF Settled, OneFate
<1> QED
  BY <1>1, <1>2, <1>4, <1>5, <1>6 DEF OneFate

\* Every other step leaves the tasks where they are.
LEMMA FateStep ==
    ASSUME QueueInv, [Next]_vars
    PROVE  OneFate'
<1>0. OneFate
  BY DEF QueueInv
<1> DEFINE Kept == UNCHANGED <<slot, doomed, started, destroyed, accepted>>
<1>1. ASSUME Kept PROVE OneFate'
  <2>1. Settled' = Settled
    BY <1>1 DEF Settled
  <2> QED
    BY <1>0, <1>1, <2>1 DEF OneFate
<1>2. ASSUME NEW c \in Clients, ClientStep(c) PROVE OneFate'
  <2>1. Publish(c) \/ PublishFails(c) => Kept
    BY DEF Publish, PublishFails, queue, history
  <2> QED
    BY <1>1, <1>2, <2>1, FateReserve, FateFactory DEF ClientStep
<1>3. ASSUME NEW t \in Threads, Release(t) PROVE OneFate'
  <2>1. RunCallbacks(t) \/ NotifyPending(t) => Kept
    BY DEF RunCallbacks, NotifyPending, queue, history
  <2> QED
    BY <1>1, <1>3, <2>1, FateRelease, FateDestroy DEF Release
<1>4. ASSUME WorkerStep PROVE OneFate'
  <2>1. DrainBegin \/ DrainFinish \/ DrainFinishThrows => Kept
    BY DEF DrainBegin, DrainFinish, DrainFinishThrows, history
  <2>2. AbandonQueued \/ AbandonDone \/ FailedDrainIdle \/ HandleFailure => Kept
    BY DEF AbandonQueued, AbandonDone, FailedDrainIdle, HandleFailure, queue, history
  <2>3. HandlerThrows \/ Detach \/ WaitForReservations => Kept
    BY DEF HandlerThrows, Detach, WaitForReservations, queue, history
  <2> QED
    BY <1>1, <1>4, <2>1, <2>2, <2>3, FateRun DEF WorkerStep, BatchStep
<1>5. Close \/ (\E w \in Waiters : WhenIdle(w)) \/ UNCHANGED vars => Kept
  BY DEF Close, WhenIdle, vars, local, queue, history
<1> QED
  BY <1>1, <1>2, <1>3, <1>4, <1>5 DEF Next
-----------------------------------------------------------------------------
(* Those who wait.                                                          *)

\* A critical section that takes the idle callbacks leaves none behind that
\* has nothing to wait for.
LEMMA TakenWhenIdle ==
    ASSUME NEW t \in Threads, TakeIdleCallbacks(t, pending_count', active_count')
    PROVE  parked' # {} => pending_count' # 0 \/ active_count' # 0
BY DEF TakeIdleCallbacks, IdleCallbacks

\* Every step keeps work, or the failed drain, for whoever is parked, and lets
\* the owner go only with nothing pending.
LEMMA WaitingStep ==
    ASSUME QueueInv, [Next]_vars
    PROVE  Waiting'
<1> USE DEF Threads
<1>0. /\ TypeOK /\ Positions /\ Stopping /\ Waiting
      /\ Len(ready) \in Nat /\ Len(ready) <= pending_count
  BY PendingCovers DEF QueueInv, NodesConserved
<1>1. ASSUME NEW c \in Clients, ClientStep(c) PROVE Waiting'
  <2>0. c # Worker
    BY NoneAssumption
  <2>1. ASSUME NEW t \in Tasks, Reserve(c, t) PROVE Waiting'
    <3>1. /\ attached /\ pending_count' = pending_count + 1 /\ pc'[Worker] = pc[Worker]
          /\ UNCHANGED attached
      BY <1>0, <2>0, <2>1 DEF Reserve, Admits, TypeOK, flags
    <3>2. pending_count' # 0
      BY <1>0, <3>1 DEF TypeOK
    <3> QED
      BY <1>0, <3>1, <3>2 DEF Waiting, ParkedHasWork
  <2>2. ASSUME FactoryThrows(c) \/ Publish(c) \/ PublishFails(c) PROVE Waiting'
    <3>1. UNCHANGED <<attached, pending_count, active_count, parked, after>> /\ pc'[Worker] = pc[Worker]
      BY <1>0, <2>0, <2>2 DEF FactoryThrows, Publish, PublishFails, TypeOK, flags, queue
    <3> QED
      BY <1>0, <3>1 DEF Waiting, ParkedHasWork, FailedDrainUnwinding
  <2> QED
    BY <1>1, <2>1, <2>2 DEF ClientStep
<1>2. ASSUME NEW t \in Threads, Release(t) PROVE Waiting'
  <2>1. CASE ReleaseNode(t)
    <3>1. /\ UNCHANGED <<attached, active_count>> /\ pc'[Worker] = pc[Worker]
          /\ TakeIdleCallbacks(t, pending_count', active_count') /\ held[t] # << >>
      BY <1>0, <2>1 DEF ReleaseNode, Releasing, TypeOK, flags
    <3>2. pc[Worker] # "gone"
      BY <1>0, <3>1, PendingCovers DEF Waiting
    <3> QED
      BY <1>0, <3>1, <3>2, TakenWhenIdle DEF Waiting, ParkedHasWork
  <2>2. ASSUME DestroyPayload(t) \/ RunCallbacks(t) PROVE Waiting'
    <3>1. UNCHANGED <<attached, pending_count, active_count, parked, after, pc>>
      BY <2>2 DEF DestroyPayload, RunCallbacks, flags, queue
    <3> QED
      BY <1>0, <3>1 DEF Waiting, ParkedHasWork, FailedDrainUnwinding
  <2>3. CASE NotifyPending(t)
    <3>1. UNCHANGED <<attached, pending_count, active_count, parked, after>>
      BY <2>3 DEF NotifyPending, flags, queue
    <3>2. \/ pc'[Worker] = pc[Worker]
          \/ pc[Worker] = "blocked" /\ pc'[Worker] = "waiting"
      BY <1>0, <2>3 DEF NotifyPending, TypeOK
    <3> QED
      BY <1>0, <3>1, <3>2 DEF Waiting, ParkedHasWork, FailedDrainUnwinding
  <2> QED
    BY <1>2, <2>1, <2>2, <2>3 DEF Release
<1>3. ASSUME WorkerStep PROVE Waiting'
  <2>1. CASE DrainBegin
    <3>1. CASE abandon_drain \/ ready = << >>
      <4>1. /\ UNCHANGED <<attached, pending_count, active_count>>
            /\ pc'[Worker] \in {"purge", "loop"}
            /\ TakeIdleCallbacks(Worker, pending_count', active_count')
        BY <1>0, <2>1, <3>1 DEF DrainBegin, TypeOK
      <4> QED
        BY <4>1, TakenWhenIdle DEF Waiting, ParkedHasWork
    <3>2. CASE ~(abandon_drain \/ ready = << >>)
      <4>1. /\ active_count' = active_count + Len(ready) /\ pc'[Worker] = "batch"
        BY <1>0, <2>1, <3>2 DEF DrainBegin, TypeOK
      <4>2. Len(ready) # 0
        BY <1>0, <3>2 DEF TypeOK
      <4>3. active_count' # 0
        BY <1>0, <4>1, <4>2 DEF TypeOK
      <4> QED
        BY <4>1, <4>3 DEF Waiting, ParkedHasWork
    <3> QED
      BY <3>1, <3>2
  <2>2. CASE RunTask
    <3>1. UNCHANGED <<attached, pending_count, active_count, parked, after, pc>>
      BY <2>2 DEF RunTask, flags
    <3> QED
      BY <1>0, <3>1 DEF Waiting, ParkedHasWork, FailedDrainUnwinding
  <2>3. CASE TaskThrows
    <3>1. pc'[Worker] = "purge" /\ after' = "idle"
      BY <1>0, <2>3 DEF TaskThrows, TypeOK
    <3> QED
      BY <3>1 DEF Waiting, ParkedHasWork, FailedDrainUnwinding
  <2>4. CASE DrainFinish
    <3>1. /\ UNCHANGED pending_count /\ pc'[Worker] \in {"purge", "loop"}
          /\ TakeIdleCallbacks(Worker, pending_count', active_count')
      BY <1>0, <2>4 DEF DrainFinish, TypeOK
    <3> QED
      BY <3>1, TakenWhenIdle DEF Waiting, ParkedHasWork
  <2>5. CASE DrainFinishThrows
    <3>1. ready # << >> /\ UNCHANGED pending_count /\ pc'[Worker] = "failure"
      BY <1>0, <2>5 DEF DrainFinishThrows, DrainAgain, TypeOK
    <3>2. Len(ready) # 0
      BY <1>0, <3>1 DEF TypeOK
    <3>3. pending_count' # 0
      BY <1>0, <3>1, <3>2 DEF TypeOK
    <3> QED
      BY <3>1, <3>3 DEF Waiting, ParkedHasWork
  <2>6. CASE AbandonQueued
    <3>1. /\ UNCHANGED <<attached, pending_count, active_count, parked, after>>
          /\ pc[Worker] = "purge" /\ pc'[Worker] = "purging"
      BY <1>0, <2>6 DEF AbandonQueued, TypeOK, flags
    <3> QED
      BY <1>0, <3>1 DEF Waiting, ParkedHasWork, FailedDrainUnwinding
  <2>7. CASE AbandonDone
    <3>1. /\ UNCHANGED <<attached, pending_count, active_count, parked, after>>
          /\ pc[Worker] = "purging" /\ pc'[Worker] = after /\ after \in {"loop", "idle"}
      BY <1>0, <2>7 DEF AbandonDone, TypeOK, flags, queue
    <3> QED
      BY <1>0, <3>1 DEF Waiting, ParkedHasWork, FailedDrainUnwinding
  <2>8. CASE FailedDrainIdle
    <3>1. /\ UNCHANGED <<pending_count, active_count>> /\ pc'[Worker] = "failure"
          /\ TakeIdleCallbacks(Worker, pending_count', active_count')
      BY <1>0, <2>8 DEF FailedDrainIdle, TypeOK, queue
    <3> QED
      BY <3>1, TakenWhenIdle DEF Waiting, ParkedHasWork
  <2>9. ASSUME HandleFailure \/ HandlerThrows \/ Detach PROVE Waiting'
    <3>1. /\ UNCHANGED <<pending_count, active_count, parked>>
          /\ pc[Worker] \in {"failure", "loop"} /\ pc'[Worker] \in {"failure", "purge"}
      BY <1>0, <2>9 DEF HandleFailure, HandlerThrows, Detach, TypeOK, queue
    <3> QED
      BY <1>0, <3>1 DEF Waiting, ParkedHasWork, FailedDrainUnwinding
  <2>10. CASE WaitForReservations
    <3>1. /\ UNCHANGED <<attached, pending_count, active_count, parked>>
          /\ (pc[Worker] = "loop" /\ ~attached) \/ pc[Worker] = "waiting"
          /\ pc'[Worker] = IF pending_count = 0 THEN "gone" ELSE "blocked"
      BY <1>0, <2>10 DEF WaitForReservations, TypeOK, flags, queue
    <3> QED
      BY <1>0, <3>1 DEF Waiting, ParkedHasWork, FailedDrainUnwinding
  <2> QED
    BY <1>3, <2>1, <2>2, <2>3, <2>4, <2>5, <2>6, <2>7, <2>8, <2>9, <2>10
       DEF WorkerStep, BatchStep
<1>4. ASSUME Close \/ UNCHANGED vars PROVE Waiting'
  <2>1. UNCHANGED <<attached, pending_count, active_count, parked, after, pc>>
    BY <1>4 DEF Close, vars, local, queue, flags
  <2> QED
    BY <1>0, <2>1 DEF Waiting, ParkedHasWork, FailedDrainUnwinding
<1>5. ASSUME NEW w \in Waiters, WhenIdle(w) PROVE Waiting'
  <2>1. /\ UNCHANGED <<attached, pending_count, active_count, after, pc>>
        /\ parked' # parked => pending_count # 0 \/ active_count # 0
    BY <1>5 DEF WhenIdle, local, queue, flags
  <2> QED
    BY <1>0, <2>1 DEF Waiting, ParkedHasWork, FailedDrainUnwinding
<1> QED
  BY <1>1, <1>2, <1>3, <1>4, <1>5 DEF Next
-----------------------------------------------------------------------------
(* The theorems.                                                            *)

\* The inductive step, from the lemmas above.
LEMMA QueueStep == QueueInv /\ [Next]_vars => QueueInv'
<1> SUFFICES ASSUME QueueInv, [Next]_vars PROVE QueueInv'
  OBVIOUS
<1>1. ASSUME Close \/ (\E w \in Waiters : WhenIdle(w)) \/ UNCHANGED vars PROVE TypeOK'
  BY <1>1 DEF QueueInv, TypeOK, Close, WhenIdle, vars, local, queue, flags, history
<1>2. TypeOK'
  BY <1>1, TypeClient, TypeRelease, TypeWorker DEF Next
<1> QED
  BY <1>2, ListsStep, StoppingStep, DrainStep, PayloadStep, LineStep, FateStep, WaitingStep DEF QueueInv

\* The node lists, the counters and the drain state stay consistent in every
\* behaviour of the queue (all of worker_dispatcher.cpp's admission and drain).
THEOREM QueueInvariant == Spec => []QueueInv
BY QueueInit, QueueStep, PTL DEF Spec

\* Type correctness of the queue.
THEOREM QueueTypes == Spec => []TypeOK
<1>1. QueueInv => TypeOK
  BY DEF QueueInv
<1> QED
  BY <1>1, QueueInvariant, PTL

\* reserve() may pop the free list untested: twice the capacity is enough nodes
\* for any number of posting threads (worker_dispatcher.cpp:60-63, 110-111).
THEOREM AdmissionFindsNode == Spec => []FreeNodeForAdmission
<1>1. QueueInv => FreeNodeForAdmission
  <2> SUFFICES ASSUME QueueInv, Admits, free = {} PROVE FALSE
    BY DEF FreeNodeForAdmission
  <2>1. pending_count + active_count = 2 * Capacity
    BY FS_EmptySet DEF QueueInv, NodesConserved, Counts, TypeOK
  <2>2. pending_count <= Capacity /\ pending_count # Capacity /\ active_count <= Capacity
    BY DEF QueueInv, Stopping, Admits
  <2> QED
    BY <2>1, <2>2 DEF QueueInv, TypeOK
<1> QED
  BY <1>1, QueueInvariant, PTL

\* No node is leaked, linked twice or freed while in use.
THEOREM NoNodeLost == Spec => []NodesConserved
<1>1. QueueInv => NodesConserved
  BY DEF QueueInv
<1> QED
  BY <1>1, QueueInvariant, PTL

\* Pending work passes capacity only after admission closed for good.
THEOREM PendingStaysBounded == Spec => []PendingBounded
<1>1. QueueInv => PendingBounded
  BY DEF QueueInv, Stopping, PendingBounded, TypeOK
<1> QED
  BY <1>1, QueueInvariant, PTL

\* Published work on a live queue always has its drain, and only one.
THEOREM NoDrainLost == Spec => []DrainNeverLost
<1>1. QueueInv => DrainNeverLost
  BY DEF QueueInv, DrainState, DrainNeverLost
<1> QED
  BY <1>1, QueueInvariant, PTL

\* A drain() handler never finds an empty queue that was not abandoned.
THEOREM DrainHasWork == Spec => []DrainFindsWork
<1>1. QueueInv => DrainFindsWork
  BY DEF QueueInv, DrainState, DrainFindsWork
<1> QED
  BY <1>1, QueueInvariant, PTL

\* Tasks run in publication order and a task that ran is never destroyed as
\* abandoned, whatever throws (worker_dispatcher.cpp's drain and abandon_queued).
THEOREM TasksRunInOrder == Spec => []RunInOrder
<1>1. QueueInv => RunInOrder
  BY DEF QueueInv, InLine, OneFate, RunInOrder
<1> QED
  BY <1>1, QueueInvariant, PTL

\* No idle callback is left behind, and the owner is let go only once no thread
\* holds a node (when_idle, wait_for_reservations).
THEOREM NobodyLeftWaiting == Spec => []WaitersServed
<1>1. QueueInv => WaitersServed
  <2> SUFFICES ASSUME QueueInv PROVE WaitersServed
    OBVIOUS
  <2>1. ParkedHasWork /\ (pc[Worker] = "gone" => pending_count = 0)
    BY DEF QueueInv, Waiting
  <2>2. ASSUME pc[Worker] = "gone" PROVE \A t \in Threads : held[t] = << >>
    BY <2>1, <2>2, PendingCovers
  <2> QED
    BY <2>1, <2>2 DEF WaitersServed, NothingReservedWhenGone
<1> QED
  BY <1>1, QueueInvariant, PTL

\* Once the drain is abandoned no task starts.
THEOREM NothingStartsAbandoned == Spec => NoStartAfterAbandon
<1>1. ASSUME QueueInv, [Next]_vars PROVE [started' # started => ~abandon_drain]_vars
  <2>1. ASSUME RunTask \/ TaskThrows PROVE ~abandon_drain
    BY <1>1, <2>1 DEF QueueInv, InLine, RunTask, TaskThrows
  <2>2. \A c \in Clients : ClientStep(c) => started' = started
    BY DEF ClientStep, Reserve, FactoryThrows, Publish, PublishFails, history
  <2>3. \A t \in Threads : Release(t) => started' = started
    BY DEF Release, ReleaseNode, DestroyPayload, RunCallbacks, NotifyPending, history
  <2>4. ASSUME WorkerStep, ~RunTask, ~TaskThrows PROVE started' = started
    <3>1. DrainBegin \/ DrainFinish \/ DrainFinishThrows => started' = started
      BY DEF DrainBegin, DrainFinish, DrainFinishThrows, history
    <3>2. AbandonQueued \/ AbandonDone \/ FailedDrainIdle \/ HandleFailure => started' = started
      BY DEF AbandonQueued, AbandonDone, FailedDrainIdle, HandleFailure, history
    <3>3. HandlerThrows \/ Detach \/ WaitForReservations => started' = started
      BY DEF HandlerThrows, Detach, WaitForReservations, history
    <3> QED
      BY <2>4, <3>1, <3>2, <3>3 DEF WorkerStep, BatchStep
  <2>5. Close \/ (\E w \in Waiters : WhenIdle(w)) => started' = started
    BY DEF Close, WhenIdle, history
  <2> QED
    BY <1>1, <2>1, <2>2, <2>3, <2>4, <2>5 DEF Next
<1> QED
  BY <1>1, QueueInvariant, PTL DEF Spec, NoStartAfterAbandon
=============================================================================
