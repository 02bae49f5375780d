-------------------------- MODULE BlockingPoolProofs --------------------------
(* PoolInv is an inductive invariant of BlockingPool, for any number of      *)
(* threads, callers and callables and any capacity, and a join() that        *)
(* returns leaves the pool quiet.                                            *)
EXTENDS BlockingPool, ChainLemmas

USE PoolAssumption DEF Actors

Publishing == {c \in Callers : pc[c] = "publish"}
Used == Tasks \ Fresh

\* What the counters count is finite, whatever the constants are.
PoolCore == PoolInv /\ IsFiniteSet(Publishing) /\ IsFiniteSet(Used)

\* Where every actor is, and nothing about the nodes.
Control == ActorsAgree /\ DrainAgrees /\ JoinAgrees

\* An element picked from a set is in it.
LEMMA AnyOfIn == ASSUME NEW S, S # {} PROVE AnyOf(S) \in S
BY DEF AnyOf

-----------------------------------------------------------------------------
(* Threads, callers, the drain and the joins stay in step                    *)

\* A submission moves one caller through submit() and nobody else.
LEMMA ControlSubmit ==
    ASSUME TypeOK, Control, RingAgrees, CallablesHeld, NEW c \in Callers,
           Reserve(c) \/ Publish(c) \/ Drop(c) \/ ReturnReservation(c)
             \/ ReservationNotify(c) \/ SubmitNotify(c)
    PROVE  Control'
<1> USE DEF TypeOK, Places, Control, shared, lists, counts, stats, drain, history, Goto
<1>1. CASE Reserve(c)
  <2> USE <1>1 DEF Reserve
  <2>0. AnyOf(Fresh) \in Tasks /\ (free # {} => AnyOf(free) \in Nodes)
    BY AnyOfIn DEF Fresh
  <2>1. ActorsAgree'
    BY <2>0 DEF ActorsAgree, InStop, InJoin
  <2>2. DrainAgrees'
    BY DEF DrainAgrees
  <2>3. JoinAgrees'
    BY DEF JoinAgrees, InJoin
  <2> QED
    BY <2>1, <2>2, <2>3
<1>2. CASE Publish(c)
  <2> USE <1>2 DEF Publish
  <2>1. ActorsAgree'
    BY DEF ActorsAgree, InStop, InJoin
  <2>2. DrainAgrees'
    BY DEF DrainAgrees, ActorsAgree, InStop, InJoin
  <2>3. JoinAgrees'
    BY DEF JoinAgrees, ActorsAgree, InStop, InJoin
  <2> QED
    BY <2>1, <2>2, <2>3
<1>3. CASE Drop(c)
  <2> USE <1>3 DEF Drop
  <2>1. ActorsAgree'
    BY DEF ActorsAgree, InStop, InJoin
  <2>2. DrainAgrees'
    BY DEF DrainAgrees, ActorsAgree, InStop, InJoin
  <2>3. JoinAgrees'
    BY DEF JoinAgrees, ActorsAgree, InStop, InJoin
  <2> QED
    BY <2>1, <2>2, <2>3
<1>4. CASE ReturnReservation(c)
  <2> USE <1>4 DEF ReturnReservation
  <2>1. ActorsAgree'
    BY DEF ActorsAgree, InStop, InJoin
  <2>2. DrainAgrees'
    BY DEF DrainAgrees, ActorsAgree, InStop, InJoin
  <2>3. JoinAgrees'
    BY DEF JoinAgrees, ActorsAgree, InStop, InJoin
  <2> QED
    BY <2>1, <2>2, <2>3
<1>5. CASE ReservationNotify(c)
  <2> USE <1>5 DEF ReservationNotify
  <2>1. ActorsAgree'
    BY DEF ActorsAgree, InStop, InJoin
  <2>2. DrainAgrees'
    BY DEF DrainAgrees, ActorsAgree, InStop, InJoin
  <2>3. JoinAgrees'
    BY DEF JoinAgrees, ActorsAgree, InStop, InJoin
  <2> QED
    BY <2>1, <2>2, <2>3
<1>6. CASE SubmitNotify(c)
  <2> USE <1>6 DEF SubmitNotify
  <2>1. ActorsAgree'
    BY DEF ActorsAgree, InStop, InJoin
  <2>2. DrainAgrees'
    BY DEF DrainAgrees, ActorsAgree, InStop, InJoin
  <2>3. JoinAgrees'
    BY DEF JoinAgrees, ActorsAgree, InStop, InJoin
  <2> QED
    BY <2>1, <2>2, <2>3
<1> QED
  BY <1>1, <1>2, <1>3, <1>4, <1>5, <1>6

\* A pool thread moves only itself; it leaves only a stopped pool.
LEMMA ControlRun ==
    ASSUME TypeOK, Control, RingAgrees, CallablesHeld, NEW t \in Threads,
           Take(t) \/ Run(t) \/ Retire(t)
    PROVE  Control'
<1> USE DEF TypeOK, Places, Control, shared, lists, counts, stats, drain, history, Goto
<1>1. CASE Take(t)
  <2> USE <1>1 DEF Take
  <2>0. ~stopping /\ queued # 0 => Head(ring) \in Nodes /\ task[Head(ring)] # None
    <3> SUFFICES ASSUME ~stopping, queued # 0
                 PROVE  Head(ring) \in Nodes /\ task[Head(ring)] # None
      OBVIOUS
    <3>1. ring # << >>
      BY DEF RingAgrees
    <3>2. Head(ring) \in Elems(ring) /\ Head(ring) \in Nodes
      BY <3>1, ChainTail
    <3> QED
      BY <3>2 DEF CallablesHeld
  <2>1. ActorsAgree'
    <3>1. CASE stopping
      BY <3>1 DEF ActorsAgree, InStop, InJoin
    <3>2. CASE ~stopping /\ queued # 0
      <4>1. node' = [node EXCEPT ![t] = Head(ring)] /\ job' = [job EXCEPT ![t] = task[Head(ring)]]
        BY <3>2
      <4>2. pc' = [pc EXCEPT ![t] = "run"] /\ UNCHANGED <<after, nested, gone>>
        BY <3>2
      <4>3. node'[t] # None /\ job'[t] # None /\ pc[t] = "wait"
        BY <2>0, <3>2, <4>1
      <4> HIDE <1>1 DEF Take
      <4> QED
        BY <4>1, <4>2, <4>3 DEF ActorsAgree, InStop, InJoin
    <3>3. CASE ~stopping /\ queued = 0
      BY <3>3 DEF ActorsAgree, InStop, InJoin
    <3> QED
      BY <3>1, <3>2, <3>3
  <2>2. DrainAgrees'
    BY DEF DrainAgrees, ActorsAgree, InStop, InJoin
  <2>3. JoinAgrees'
    BY DEF JoinAgrees, ActorsAgree, InStop, InJoin
  <2> QED
    BY <2>1, <2>2, <2>3
<1>2. CASE Run(t)
  <2> USE <1>2 DEF Run
  <2>1. ActorsAgree'
    BY DEF ActorsAgree, InStop, InJoin
  <2>2. DrainAgrees'
    BY DEF DrainAgrees, ActorsAgree, InStop, InJoin
  <2>3. JoinAgrees'
    BY DEF JoinAgrees, ActorsAgree, InStop, InJoin
  <2> QED
    BY <2>1, <2>2, <2>3
<1>3. CASE Retire(t)
  <2> USE <1>3 DEF Retire
  <2>1. ActorsAgree'
    BY DEF ActorsAgree, InStop, InJoin
  <2>2. DrainAgrees'
    BY DEF DrainAgrees, ActorsAgree, InStop, InJoin
  <2>3. JoinAgrees'
    BY DEF JoinAgrees, ActorsAgree, InStop, InJoin
  <2> QED
    BY <2>1, <2>2, <2>3
<1> QED
  BY <1>1, <1>2, <1>3

\* stop() makes at most one actor the drainer.
LEMMA ControlStop ==
    ASSUME TypeOK, Control, RingAgrees, CallablesHeld, NEW a \in Actors,
           StopFirst(a) \/ StopAgain(a) \/ StopNotify(a) \/ DrainPop(a) \/ DrainDestroy(a)
             \/ DrainEnd(a) \/ DrainNotify(a) \/ CallStop(a) \/ SpuriousWakeup(a)
    PROVE  Control'
<1> USE DEF TypeOK, Places, Control, shared, lists, counts, stats, drain, history, Goto
<1>1. CASE StopFirst(a)
  <2> USE <1>1 DEF StopFirst
  <2>1. ActorsAgree'
    BY DEF ActorsAgree, InStop, InJoin
  <2>2. DrainAgrees'
    BY DEF DrainAgrees, ActorsAgree, InStop, InJoin
  <2>3. JoinAgrees'
    BY DEF JoinAgrees, ActorsAgree, InStop, InJoin
  <2> QED
    BY <2>1, <2>2, <2>3
<1>2. CASE StopAgain(a)
  <2> USE <1>2 DEF StopAgain
  <2>1. ActorsAgree'
    BY DEF ActorsAgree, InStop, InJoin
  <2>2. DrainAgrees'
    BY DEF DrainAgrees, ActorsAgree, InStop, InJoin
  <2>3. JoinAgrees'
    BY DEF JoinAgrees, ActorsAgree, InStop, InJoin
  <2> QED
    BY <2>1, <2>2, <2>3
<1>3. CASE StopNotify(a)
  <2> USE <1>3 DEF StopNotify
  <2>1. ActorsAgree'
    BY DEF ActorsAgree, InStop, InJoin
  <2>2. DrainAgrees'
    BY DEF DrainAgrees, ActorsAgree, InStop, InJoin
  <2>3. JoinAgrees'
    BY DEF JoinAgrees, DrainAgrees, ActorsAgree, InStop, InJoin
  <2> QED
    BY <2>1, <2>2, <2>3
<1>4. CASE DrainPop(a)
  <2> USE <1>4 DEF DrainPop
  <2>0. Head(ring) \in Nodes /\ Head(ring) # None
    <3>1. ring # << >>
      BY DEF RingAgrees, DrainAgrees
    <3> QED
      BY <3>1, ChainTail
  <2>1. ActorsAgree'
    BY DEF ActorsAgree, InStop, InJoin
  <2>2. DrainAgrees'
    BY <2>0 DEF DrainAgrees, ActorsAgree, InStop, InJoin
  <2>3. JoinAgrees'
    BY DEF JoinAgrees, ActorsAgree, InStop, InJoin
  <2> QED
    BY <2>1, <2>2, <2>3
<1>5. CASE DrainDestroy(a)
  <2> USE <1>5 DEF DrainDestroy
  <2>1. ActorsAgree'
    BY DEF ActorsAgree, InStop, InJoin
  <2>2. DrainAgrees'
    BY DEF DrainAgrees, ActorsAgree, InStop, InJoin
  <2>3. JoinAgrees'
    BY DEF JoinAgrees, ActorsAgree, InStop, InJoin
  <2> QED
    BY <2>1, <2>2, <2>3
<1>6. CASE DrainEnd(a)
  <2> USE <1>6 DEF DrainEnd
  <2>1. ActorsAgree'
    BY DEF ActorsAgree, InStop, InJoin
  <2>2. DrainAgrees'
    BY DEF DrainAgrees, ActorsAgree, InStop, InJoin
  <2>3. JoinAgrees'
    BY DEF JoinAgrees, ActorsAgree, InStop, InJoin
  <2> QED
    BY <2>1, <2>2, <2>3
<1>7. CASE DrainNotify(a)
  <2> USE <1>7 DEF DrainNotify
  <2>1. ActorsAgree'
    BY DEF ActorsAgree, InStop, InJoin
  <2>2. DrainAgrees'
    BY DEF DrainAgrees, ActorsAgree, InStop, InJoin
  <2>3. JoinAgrees'
    BY DEF JoinAgrees, DrainAgrees, ActorsAgree, InStop, InJoin
  <2> QED
    BY <2>1, <2>2, <2>3
<1>8. CASE CallStop(a)
  <2> USE <1>8 DEF CallStop
  <2>1. ActorsAgree'
    BY DEF ActorsAgree, InStop, InJoin
  <2>2. DrainAgrees'
    BY DEF DrainAgrees, ActorsAgree, InStop, InJoin
  <2>3. JoinAgrees'
    BY DEF JoinAgrees, ActorsAgree, InStop, InJoin
  <2> QED
    BY <2>1, <2>2, <2>3
<1>9. CASE SpuriousWakeup(a)
  <2> USE <1>9 DEF SpuriousWakeup
  <2>1. ActorsAgree'
    BY DEF ActorsAgree, InStop, InJoin
  <2>2. DrainAgrees'
    BY DEF DrainAgrees, ActorsAgree, InStop, InJoin
  <2>3. JoinAgrees'
    BY DEF JoinAgrees, ActorsAgree, InStop, InJoin
  <2> QED
    BY <2>1, <2>2, <2>3
<1> QED
  BY <1>1, <1>2, <1>3, <1>4, <1>5, <1>6, <1>7, <1>8, <1>9

\* join() gives the handles to one caller; nobody joins a destroyed pool.
LEMMA ControlJoin ==
    ASSUME TypeOK, Control, RingAgrees, CallablesHeld, NEW c \in Callers,
           CallJoin(c) \/ NestedJoin(c) \/ Elect(c) \/ JoinThreads(c) \/ Mark(c)
             \/ Settle(c) \/ Destroy(c) \/ Detach(c)
    PROVE  Control'
<1> USE DEF TypeOK, Places, Control, shared, lists, counts, stats, drain, history, Goto
<1>1. CASE CallJoin(c)
  <2> USE <1>1 DEF CallJoin
  <2>1. ActorsAgree'
    BY DEF ActorsAgree, InStop, InJoin
  <2>2. DrainAgrees'
    BY DEF DrainAgrees, ActorsAgree, InStop, InJoin
  <2>3. JoinAgrees'
    BY DEF JoinAgrees, ActorsAgree, InStop, InJoin
  <2> QED
    BY <2>1, <2>2, <2>3
<1>2. CASE NestedJoin(c)
  <2> USE <1>2 DEF NestedJoin
  <2>1. ActorsAgree'
    BY DEF ActorsAgree, InStop, InJoin
  <2>2. DrainAgrees'
    BY DEF DrainAgrees, ActorsAgree, InStop, InJoin
  <2>3. JoinAgrees'
    BY DEF JoinAgrees, DrainAgrees, ActorsAgree, InStop, InJoin
  <2> QED
    BY <2>1, <2>2, <2>3
<1>3. CASE Elect(c)
  <2> USE <1>3 DEF Elect
  <2>1. ActorsAgree'
    BY DEF ActorsAgree, InStop, InJoin
  <2>2. DrainAgrees'
    BY DEF DrainAgrees, ActorsAgree, InStop, InJoin
  <2>3. JoinAgrees'
    BY DEF JoinAgrees, ActorsAgree, InStop, InJoin
  <2> QED
    BY <2>1, <2>2, <2>3
<1>4. CASE JoinThreads(c)
  <2> USE <1>4 DEF JoinThreads
  <2>1. ActorsAgree'
    BY DEF ActorsAgree, InStop, InJoin
  <2>2. DrainAgrees'
    BY DEF DrainAgrees, ActorsAgree, InStop, InJoin
  <2>3. JoinAgrees'
    BY DEF JoinAgrees, ActorsAgree, InStop, InJoin
  <2> QED
    BY <2>1, <2>2, <2>3
<1>5. CASE Mark(c)
  <2> USE <1>5 DEF Mark
  <2>1. ActorsAgree'
    BY DEF ActorsAgree, InStop, InJoin
  <2>2. DrainAgrees'
    BY DEF DrainAgrees, ActorsAgree, InStop, InJoin
  <2>3. JoinAgrees'
    BY DEF JoinAgrees, ActorsAgree, InStop, InJoin
  <2> QED
    BY <2>1, <2>2, <2>3
<1>6. CASE Settle(c)
  <2> USE <1>6 DEF Settle
  <2>1. ActorsAgree'
    <3>1. ~gone
      BY DEF JoinAgrees, InJoin
    <3>2. CASE Settled(c) /\ nested[c]
      <4>1. pc' = [pc EXCEPT ![c] = "destroy"] /\ nested' = [nested EXCEPT ![c] = FALSE]
        BY <3>2
      <4>2. UNCHANGED <<after, node, job, gone>>
        OBVIOUS
      <4>3. pc[c] = "settle"
        OBVIOUS
      <4> HIDE <1>6 DEF Settle
      <4> QED
        BY <3>1, <3>2, <4>1, <4>2, <4>3 DEF ActorsAgree, InStop, InJoin
    <3>3. CASE ~(Settled(c) /\ nested[c])
      BY <3>3 DEF ActorsAgree, InStop, InJoin
    <3> QED
      BY <3>2, <3>3
  <2>2. DrainAgrees'
    BY DEF DrainAgrees, ActorsAgree, InStop, InJoin
  <2>3. JoinAgrees'
    BY DEF JoinAgrees, ActorsAgree, InStop, InJoin
  <2> QED
    BY <2>1, <2>2, <2>3
<1>7. CASE Destroy(c)
  <2> USE <1>7 DEF Destroy
  <2>1. ActorsAgree'
    BY DEF ActorsAgree, InStop, InJoin
  <2>2. DrainAgrees'
    BY DEF DrainAgrees, ActorsAgree, InStop, InJoin
  <2>3. JoinAgrees'
    BY DEF JoinAgrees, ActorsAgree, InStop, InJoin
  <2> QED
    BY <2>1, <2>2, <2>3
<1>8. CASE Detach(c)
  <2> USE <1>8 DEF Detach
  <2>1. ActorsAgree'
    BY DEF ActorsAgree, InStop, InJoin
  <2>2. DrainAgrees'
    BY DEF DrainAgrees, ActorsAgree, InStop, InJoin
  <2>3. JoinAgrees'
    BY DEF JoinAgrees, ActorsAgree, InStop, InJoin
  <2> QED
    BY <2>1, <2>2, <2>3
<1> QED
  BY <1>1, <1>2, <1>3, <1>4, <1>5, <1>6, <1>7, <1>8

-----------------------------------------------------------------------------
(* The nodes                                                                 *)

\* A node is held by one actor, so holding one more or one less is counted.
LEMMA HeldFinite ==
    ASSUME NEW A, node \in [Actors -> Nodes \cup {None}], A \subseteq Actors
    PROVE  IsFiniteSet(Held(A)) /\ Cardinality(Held(A)) \in Nat
<1>1. Held(A) \in SUBSET Nodes
  BY DEF Held
<1> QED
  BY <1>1, FS_Subset, FS_CardinalityType

\* A node taken by a member of A.
LEMMA HeldTake ==
    ASSUME NEW A, node \in [Actors -> Nodes \cup {None}], A \subseteq Actors,
           NEW a \in A, NEW n \in Nodes, node[a] = None, \A b \in Actors : node[b] # n,
           node' = [node EXCEPT ![a] = n]
    PROVE  Cardinality(Held(A)') = Cardinality(Held(A)) + 1
<1>1. Held(A)' = Held(A) \cup {n}
  BY DEF Held
<1>2. n \notin Held(A)
  BY DEF Held
<1> QED
  BY <1>1, <1>2, HeldFinite, FS_AddElement

\* A node given back by a member of A.
LEMMA HeldGive ==
    ASSUME NEW A, node \in [Actors -> Nodes \cup {None}], A \subseteq Actors,
           NEW a \in A, node[a] # None, \A b \in Actors \ {a} : node[b] # node[a],
           node' = [node EXCEPT ![a] = None]
    PROVE  /\ Cardinality(Held(A)') = Cardinality(Held(A)) - 1
           /\ Cardinality(Held(A)) >= 1
<1>1. Held(A)' = Held(A) \ {node[a]}
  BY DEF Held
<1>2. node[a] \in Held(A)
  BY DEF Held
<1>3. IsFiniteSet(Held(A)) /\ Cardinality(Held(A)) \in Nat
  BY HeldFinite
<1>4. Cardinality(Held(A)) # 0
  BY <1>2, <1>3, FS_EmptySet
<1>5. Cardinality(Held(A) \ {node[a]}) = Cardinality(Held(A)) - 1
  BY <1>2, <1>3, FS_RemoveElement
<1> QED
  BY <1>1, <1>3, <1>4, <1>5

\* A node moved outside A.
LEMMA HeldOther ==
    ASSUME NEW A, node \in [Actors -> Nodes \cup {None}], A \subseteq Actors,
           NEW a \in Actors \ A, NEW n, node' = [node EXCEPT ![a] = n]
    PROVE  Held(A)' = Held(A)
BY DEF Held

\* Each thread holds at most one node.
LEMMA HoldersBounded ==
    ASSUME NEW f \in [Actors -> Nodes \cup {None}]
    PROVE  /\ Cardinality({f[c] : c \in Callers} \ {None}) \in Nat
           /\ Cardinality({f[t] : t \in Threads} \ {None}) \in 0..Cardinality(Threads)
<1> DEFINE C == {f[c] : c \in Callers} \ {None}
           T == {f[t] : t \in Threads} \ {None}
           Holders == {t \in Threads : f[t] # None}
           g == [t \in Holders |-> f[t]]
<1>1. C \in SUBSET Nodes /\ T \in SUBSET Nodes /\ Holders \in SUBSET Threads
  OBVIOUS
<1>2. IsFiniteSet(C) /\ IsFiniteSet(T)
  BY <1>1, FS_Subset
<1>3. IsFiniteSet(Holders) /\ Cardinality(Holders) <= Cardinality(Threads)
  BY <1>1, FS_Subset
<1>4. g \in Surjection(Holders, T)
  BY DEF Surjection
<1> HIDE DEF C, T, Holders, g
<1>5. Cardinality(T) <= Cardinality(Holders)
  BY <1>3, <1>4, FS_Surjection
<1>6. /\ Cardinality(C) \in Nat /\ Cardinality(T) \in Nat
      /\ Cardinality(Holders) \in Nat /\ Cardinality(Threads) \in Nat
  BY <1>2, <1>3, FS_CardinalityType
<1>7. Cardinality(C) \in Nat /\ Cardinality(T) \in 0..Cardinality(Threads)
  BY <1>3, <1>5, <1>6
<1> QED
  BY <1>7 DEF C, T

\* running_ is at most the number of threads.
LEMMA HeldByThreads ==
    ASSUME node \in [Actors -> Nodes \cup {None}]
    PROVE  Cardinality(Held(Threads)) <= Cardinality(Threads)
<1>1. Cardinality(Held(Threads)) \in 0..Cardinality(Threads)
  BY HoldersBounded DEF Held
<1>2. Cardinality(Threads) \in Nat
  BY FS_CardinalityType
<1> QED
  BY <1>1, <1>2

\* The nodes that are not free are on the ring, reserved or running, so an
\* admitted submission finds one.
LEMMA AdmittedFindsNode ==
    ASSUME TypeOK, RingAgrees, OneHolder, NoNodeLost, CountsAgree, DrainAgrees
    PROVE  FreeNodeForSubmit
<1> SUFFICES ASSUME ~stopping, queued + reserved < Capacity, free = {}
             PROVE  FALSE
  BY DEF FreeNodeForSubmit, Admits
<1> DEFINE R == Elems(ring) C == Held(Callers) T == Held(Threads)
<1>1. node \in [Actors -> Nodes \cup {None}] /\ ring \in Seq(Nodes)
  BY DEF TypeOK
<1>2. IsFiniteSet(R) /\ Cardinality(R) = queued
  BY <1>1, ChainCardinality DEF OneHolder, RingAgrees
<1>3. /\ IsFiniteSet(C) /\ Cardinality(C) = reserved /\ IsFiniteSet(T) /\ Cardinality(T) = running
      /\ running <= Cardinality(Threads)
  BY <1>1, HeldFinite, HeldByThreads DEF CountsAgree
<1>4. victim = None
  BY DEF DrainAgrees
<1>5. Nodes = R \cup (C \cup T)
  <2>1. ASSUME NEW n \in Nodes PROVE n \in R \cup (C \cup T)
    BY <1>4, <2>1 DEF NoNodeLost, Held
  <2>2. R \subseteq Nodes
    BY <1>1 DEF Elems
  <2>3. C \subseteq Nodes /\ T \subseteq Nodes
    BY <1>1 DEF Held
  <2> QED
    BY <2>1, <2>2, <2>3
<1>6. IsFiniteSet(C \cup T) /\ Cardinality(C \cup T) <= reserved + running
  <2>1. IsFiniteSet(C \cup T) /\ Cardinality(C \cup T) = reserved + running - Cardinality(C \cap T)
    BY <1>3, FS_Union
  <2>2. IsFiniteSet(C \cap T)
    BY <1>3, FS_Subset
  <2>3. Cardinality(C \cap T) \in Nat /\ reserved \in Nat /\ running \in Nat
    BY <1>3, <2>2, FS_CardinalityType
  <2> QED
    BY <2>1, <2>3
<1>7. Cardinality(Nodes) <= queued + reserved + running
  <2>1. Cardinality(Nodes) = queued + Cardinality(C \cup T) - Cardinality(R \cap (C \cup T))
    BY <1>2, <1>5, <1>6, FS_Union
  <2>2. IsFiniteSet(R \cap (C \cup T))
    BY <1>2, FS_Subset
  <2>3. Cardinality(R \cap (C \cup T)) \in Nat /\ Cardinality(C \cup T) \in Nat
    BY <1>6, <2>2, FS_CardinalityType
  <2>4. queued \in Nat /\ reserved \in Nat /\ running \in Nat
    BY DEF TypeOK
  <2> QED
    BY <1>6, <2>1, <2>3, <2>4
<1>8. queued \in Nat /\ reserved \in Nat /\ running \in Nat /\ Cardinality(Threads) \in Nat
  BY FS_CardinalityType DEF TypeOK
<1> QED
  BY <1>3, <1>7, <1>8

\* Where the nodes are, and what they hold.
Lists == RingAgrees /\ OneHolder /\ NoNodeLost /\ CountsAgree /\ CallablesHeld

\* A step that moves no node and starts or ends no late refusal keeps the lists.
LEMMA QuietLists ==
    ASSUME Lists, UNCHANGED <<stopping, lists, counts, node, drain>>,
           \A c \in Callers : pc'[c] = "drop" <=> pc[c] = "drop"
    PROVE  Lists'
BY DEF Lists, RingAgrees, OneHolder, NoNodeLost, CountsAgree, CallablesHeld, Held, lists, counts, drain

\* submit() takes a free node, or none.
LEMMA ListsReserve ==
    ASSUME TypeOK, Control, Lists, FreeNodeForSubmit, NEW c \in Callers, Reserve(c)
    PROVE  Lists'
<1> USE DEF TypeOK, Reserve, Goto, shared, drain
<1>1. CASE stopping \/ ~Admits
  BY <1>1, QuietLists DEF lists, counts
<1>2. CASE ~stopping /\ Admits
  <2> DEFINE n == AnyOf(free)
  <2>1. n \in free /\ n \in Nodes
    BY <1>2, AnyOfIn
  <2>2. /\ free' = free \ {n} /\ node' = [node EXCEPT ![c] = n] /\ reserved' = reserved + 1
        /\ pc' = [pc EXCEPT ![c] = "publish"]
        /\ UNCHANGED <<ring, queued, running, victim, dropped, task, stopping>>
    BY <1>2
  <2>3. node[c] = None /\ pc[c] = "out" /\ \A a \in Actors : node[a] # n
    BY <2>1 DEF Control, ActorsAgree, Lists, OneHolder
  <2> HIDE DEF n, Reserve
  <2>4. RingAgrees'
    BY <2>2 DEF Lists, RingAgrees
  <2>5. OneHolder'
    BY <2>1, <2>2, <2>3 DEF Lists, OneHolder
  <2>6. NoNodeLost'
    BY <2>1, <2>2, <2>3 DEF Lists, NoNodeLost
  <2>7. CountsAgree'
    <3>1. Cardinality(Held(Callers)') = Cardinality(Held(Callers)) + 1
      BY <2>1, <2>2, <2>3, HeldTake
    <3>2. Held(Threads)' = Held(Threads)
      BY <2>1, <2>2, HeldOther
    <3> QED
      BY <1>2, <2>2, <3>1, <3>2 DEF Lists, CountsAgree, Admits
  <2>8. CallablesHeld'
    BY <2>1, <2>2, <2>3 DEF Lists, CallablesHeld
  <2> QED
    BY <2>4, <2>5, <2>6, <2>7, <2>8 DEF Lists
<1> QED
  BY <1>1, <1>2

\* An accepted node moves from its submission to the end of the ring.
LEMMA ListsPublish ==
    ASSUME TypeOK, Control, Lists, NEW c \in Callers, Publish(c)
    PROVE  Lists'
<1> DEFINE n == node[c]
<1>1. n \in Nodes /\ job[c] \in Tasks /\ pc[c] = "publish" /\ job[c] # None
  BY DEF TypeOK, Publish, Control, ActorsAgree
<1>2. /\ task' = [task EXCEPT ![n] = job[c]]
      /\ UNCHANGED <<stopping, free, running, victim, dropped>>
  BY DEF Publish, shared, drain
<1>3. /\ n \notin free \cup Elems(ring) \cup {victim}
      /\ \A a \in Actors : a # c => node[a] # n
  BY <1>1 DEF Lists, OneHolder
<1>4. CASE stopping
  <2>1. /\ pc' = [pc EXCEPT ![c] = "drop"]
        /\ UNCHANGED <<ring, queued, reserved, node>>
    BY <1>4 DEF Publish, Goto
  <2>2. RingAgrees' /\ OneHolder' /\ NoNodeLost' /\ CountsAgree'
    BY <1>2, <2>1 DEF Lists, RingAgrees, OneHolder, NoNodeLost, CountsAgree, Held
  <2>3. CallablesHeld'
    BY <1>1, <1>2, <1>3, <2>1 DEF Lists, CallablesHeld, TypeOK
  <2> QED
    BY <2>2, <2>3 DEF Lists
<1>5. CASE ~stopping
  <2>1. /\ pc' = [pc EXCEPT ![c] = "notify"] /\ node' = [node EXCEPT ![c] = None]
        /\ ring' = Append(ring, n) /\ queued' = queued + 1 /\ reserved' = reserved - 1
    BY <1>5 DEF Publish, Goto
  <2>2. ring \in Seq(Nodes) /\ queued \in Nat /\ reserved \in Nat
    BY DEF TypeOK
  <2>3. /\ Elems(ring)' = Elems(ring) \cup {n} /\ Distinct(ring)' /\ Len(ring)' = Len(ring) + 1
    BY <1>1, <1>3, <2>1, <2>2, ChainAppend DEF Lists, OneHolder
  <2>4. CountsAgree' /\ queued' <= Capacity
    <3>1. Cardinality(Held(Callers)') = Cardinality(Held(Callers)) - 1 /\ Cardinality(Held(Callers)) >= 1
      BY <1>1, <1>3, <2>1, HeldGive DEF TypeOK
    <3>2. Held(Threads)' = Held(Threads)
      BY <2>1, HeldOther DEF TypeOK
    <3> QED
      BY <1>2, <2>1, <2>2, <3>1, <3>2 DEF Lists, CountsAgree
  <2>5. RingAgrees'
    BY <1>2, <1>5, <2>1, <2>3, <2>4 DEF Lists, RingAgrees
  <2>6. OneHolder'
    BY <1>1, <1>2, <1>3, <2>1, <2>3 DEF Lists, OneHolder, TypeOK
  <2>7. NoNodeLost'
    BY <1>1, <1>2, <2>1, <2>3 DEF Lists, NoNodeLost, TypeOK
  <2>8. CallablesHeld'
    BY <1>1, <1>2, <1>3, <2>1, <2>3 DEF Lists, CallablesHeld, TypeOK
  <2> QED
    BY <2>4, <2>5, <2>6, <2>7, <2>8 DEF Lists
<1> QED
  BY <1>4, <1>5

\* A late refusal empties the node before giving it back.
LEMMA ListsDrop ==
    ASSUME TypeOK, Control, Lists, NEW c \in Callers, Drop(c)
    PROVE  Lists'
<1>1. /\ pc' = [pc EXCEPT ![c] = "dropped"] /\ task' = [task EXCEPT ![node[c]] = None]
      /\ UNCHANGED <<stopping, free, ring, counts, node, drain>> /\ pc[c] = "drop"
  BY DEF Drop, Goto, shared
<1>2. /\ node[c] \in Nodes /\ node[c] \notin Elems(ring) \cup {victim}
      /\ \A a \in Actors : a # c => node[a] # node[c]
  BY <1>1 DEF TypeOK, Control, ActorsAgree, Lists, OneHolder
<1>3. RingAgrees' /\ OneHolder' /\ NoNodeLost' /\ CountsAgree'
  BY <1>1 DEF Lists, RingAgrees, OneHolder, NoNodeLost, CountsAgree, Held, counts, drain
<1>4. CallablesHeld'
  BY <1>1, <1>2 DEF Lists, CallablesHeld, TypeOK, counts, drain
<1> QED
  BY <1>3, <1>4 DEF Lists

\* A node given back by a submission or by a thread.
LEMMA ListsGiveBack ==
    ASSUME TypeOK, Control, Lists, NEW a \in Actors, node[a] # None,
           pc[a] \in {"dropped", "retire"}, pc'[a] # "drop",
           \A b \in Actors \ {a} : pc'[b] = pc[b],
           free' = free \cup {node[a]}, node' = [node EXCEPT ![a] = None],
           reserved' = IF a \in Callers THEN reserved - 1 ELSE reserved,
           running' = IF a \in Callers THEN running ELSE running - 1,
           UNCHANGED <<stopping, ring, task, queued, drain>>
    PROVE  Lists'
<1>1. /\ node[a] \in Nodes /\ node[a] \notin free \cup Elems(ring) \cup {victim}
      /\ \A b \in Actors : b # a => node[b] # node[a]
  BY DEF TypeOK, Lists, OneHolder
<1>2. RingAgrees'
  BY DEF Lists, RingAgrees, drain
<1>3. OneHolder' /\ NoNodeLost'
  BY <1>1 DEF Lists, OneHolder, NoNodeLost, drain, TypeOK
<1>4. CountsAgree'
  <2>1. CASE a \in Callers
    <3>1. Cardinality(Held(Callers)') = Cardinality(Held(Callers)) - 1 /\ Cardinality(Held(Callers)) >= 1
      BY <1>1, <2>1, HeldGive DEF TypeOK
    <3>2. Held(Threads)' = Held(Threads)
      BY <2>1, HeldOther DEF TypeOK
    <3> QED
      BY <2>1, <3>1, <3>2 DEF Lists, CountsAgree, TypeOK
  <2>2. CASE a \notin Callers
    <3>1. Cardinality(Held(Threads)') = Cardinality(Held(Threads)) - 1 /\ Cardinality(Held(Threads)) >= 1
      BY <1>1, <2>2, HeldGive DEF TypeOK
    <3>2. Held(Callers)' = Held(Callers)
      BY <2>2, HeldOther DEF TypeOK
    <3> QED
      BY <2>2, <3>1, <3>2 DEF Lists, CountsAgree, TypeOK
  <2> QED
    BY <2>1, <2>2
<1>5. CallablesHeld'
  BY <1>1 DEF Lists, CallablesHeld, drain, TypeOK
<1> QED
  BY <1>2, <1>3, <1>4, <1>5 DEF Lists

\* A thread takes the oldest node of the ring.
LEMMA ListsTake ==
    ASSUME TypeOK, Control, Lists, NEW t \in Threads, Take(t)
    PROVE  Lists'
<1>1. CASE stopping \/ queued = 0
  BY <1>1, QuietLists DEF Take, Goto, shared, lists, counts, TypeOK
<1>2. CASE ~stopping /\ queued # 0
  <2> DEFINE n == Head(ring)
  <2>1. ring # << >> /\ ring \in Seq(Nodes) /\ queued \in Nat
    BY <1>2 DEF TypeOK, Lists, RingAgrees
  <2>2. /\ n \in Nodes /\ Tail(ring) \in Seq(Nodes) /\ Len(Tail(ring)) = Len(ring) - 1
        /\ Elems(ring) = Elems(Tail(ring)) \cup {n}
        /\ Distinct(Tail(ring)) /\ n \notin Elems(Tail(ring))
    BY <2>1, ChainTail DEF Lists, OneHolder
  <2>3. /\ node' = [node EXCEPT ![t] = n] /\ ring' = Tail(ring)
        /\ task' = [task EXCEPT ![n] = None]
        /\ queued' = queued - 1 /\ running' = running + 1
        /\ pc' = [pc EXCEPT ![t] = "run"]
        /\ UNCHANGED <<stopping, free, reserved, drain>>
    BY <1>2 DEF Take, Goto, shared
  <2>4. pc[t] = "wait" /\ node[t] = None
    BY DEF Take, Control, ActorsAgree
  <2>5. n \notin free \cup {victim} /\ \A a \in Actors : node[a] # n
    BY <2>2 DEF Lists, OneHolder
  <2> HIDE DEF n
  <2>6. RingAgrees'
    BY <1>2, <2>1, <2>2, <2>3 DEF Lists, RingAgrees, drain
  <2>7. OneHolder'
    BY <2>2, <2>3, <2>4, <2>5 DEF Lists, OneHolder, drain, TypeOK
  <2>8. NoNodeLost'
    BY <2>2, <2>3, <2>4, <2>5 DEF Lists, NoNodeLost, drain, TypeOK
  <2>9. CountsAgree'
    <3>1. Cardinality(Held(Threads)') = Cardinality(Held(Threads)) + 1
      BY <2>2, <2>3, <2>4, <2>5, HeldTake DEF TypeOK
    <3>2. Held(Callers)' = Held(Callers)
      BY <2>2, <2>3, HeldOther DEF TypeOK
    <3> QED
      BY <2>1, <2>3, <3>1, <3>2 DEF Lists, CountsAgree, TypeOK
  <2>10. CallablesHeld'
    BY <2>2, <2>3, <2>4, <2>5 DEF Lists, CallablesHeld, drain, TypeOK
  <2> QED
    BY <2>6, <2>7, <2>8, <2>9, <2>10 DEF Lists
<1> QED
  BY <1>1, <1>2

\* The first stop() takes over what is queued without moving it.
LEMMA ListsStopFirst ==
    ASSUME TypeOK, Control, Lists, NEW a \in Actors, StopFirst(a)
    PROVE  Lists'
<1>1. RingAgrees'
  BY DEF StopFirst, lists, Lists, RingAgrees
<1>2. CountsAgree'
  BY DEF StopFirst, Lists, CountsAgree, Held, TypeOK
<1>3. OneHolder' /\ NoNodeLost'
  BY DEF StopFirst, lists, Lists, OneHolder, NoNodeLost
<1>4. CallablesHeld'
  BY DEF StopFirst, lists, Lists, CallablesHeld, TypeOK, Goto
<1> QED
  BY <1>1, <1>2, <1>3, <1>4 DEF Lists

\* The drain takes the oldest node of the ring.
LEMMA ListsDrainPop ==
    ASSUME TypeOK, Control, Lists, NEW a \in Actors, DrainPop(a)
    PROVE  Lists'
<1> DEFINE n == Head(ring)
<1>1. stopping /\ victim = None /\ dropped \in Nat \ {0}
  BY DEF DrainPop, Control, DrainAgrees, ActorsAgree, InJoin, TypeOK
<1>2. ring # << >> /\ ring \in Seq(Nodes)
  BY <1>1 DEF Lists, RingAgrees, TypeOK
<1>3. /\ n \in Nodes /\ Tail(ring) \in Seq(Nodes) /\ Len(Tail(ring)) = Len(ring) - 1
      /\ Elems(ring) = Elems(Tail(ring)) \cup {n}
      /\ Distinct(Tail(ring)) /\ n \notin Elems(Tail(ring))
  BY <1>2, ChainTail DEF Lists, OneHolder
<1>4. /\ victim' = n /\ ring' = Tail(ring) /\ dropped' = dropped - 1
      /\ pc' = [pc EXCEPT ![a] = "destroy"] /\ pc[a] = "drain"
      /\ UNCHANGED <<stopping, free, task, queued, reserved, running, node>>
  BY DEF DrainPop, Goto, shared, counts
<1> HIDE DEF n
<1>5. RingAgrees'
  BY <1>1, <1>2, <1>3, <1>4 DEF Lists, RingAgrees
<1>6. OneHolder' /\ NoNodeLost'
  BY <1>1, <1>3, <1>4 DEF Lists, OneHolder, NoNodeLost, TypeOK
<1>7. CountsAgree'
  BY <1>4 DEF Lists, CountsAgree, Held
<1>8. CallablesHeld'
  BY <1>1, <1>3, <1>4 DEF Lists, CallablesHeld, TypeOK
<1> QED
  BY <1>5, <1>6, <1>7, <1>8 DEF Lists

\* The drain gives its node back empty.
LEMMA ListsDrainDestroy ==
    ASSUME TypeOK, Control, Lists, NEW a \in Actors, DrainDestroy(a)
    PROVE  Lists'
<1>1. victim \in Nodes /\ pc[a] = "destroy" /\ victim # None
  BY DEF DrainDestroy, Control, DrainAgrees, TypeOK
<1>2. /\ task' = [task EXCEPT ![victim] = None] /\ free' = free \cup {victim} /\ victim' = None
      /\ pc' = [pc EXCEPT ![a] = "drain"]
      /\ UNCHANGED <<stopping, ring, queued, reserved, running, dropped, node>>
  BY DEF DrainDestroy, Goto, shared, counts
<1>3. RingAgrees' /\ CountsAgree'
  BY <1>2 DEF Lists, RingAgrees, CountsAgree, Held
<1>4. OneHolder' /\ NoNodeLost'
  <2>1. None \notin Elems(ring) /\ None \notin free
    BY DEF TypeOK, Elems
  <2>2. OneHolder'
    BY <1>1, <1>2, <2>1 DEF Lists, OneHolder, TypeOK
  <2>3. NoNodeLost'
    BY <1>1, <1>2 DEF Lists, NoNodeLost, TypeOK
  <2> QED
    BY <2>2, <2>3
<1>5. CallablesHeld'
  BY <1>1, <1>2 DEF Lists, OneHolder, CallablesHeld, TypeOK
<1> QED
  BY <1>3, <1>4, <1>5 DEF Lists

-----------------------------------------------------------------------------
(* Every submission is counted once                                          *)

Counted == CountedOnce /\ IsFiniteSet(Publishing) /\ IsFiniteSet(Used)

\* A callable moved between a caller or thread and a node stays submitted.
LEMMA MovedUsed ==
    ASSUME NEW a \in Actors, NEW n \in Nodes, NEW k \in Tasks,
           task \in [Nodes -> Tasks \cup {None}], job \in [Actors -> Tasks \cup {None}],
           UNCHANGED <<ran, destroyed>>,
           \/ /\ job[a] = k /\ task[n] = None
              /\ job' = [job EXCEPT ![a] = None] /\ task' = [task EXCEPT ![n] = k]
           \/ /\ job[a] = None /\ task[n] = k
              /\ job' = [job EXCEPT ![a] = k] /\ task' = [task EXCEPT ![n] = None]
    PROVE  Used' = Used
<1>1. ASSUME NEW x \in Tasks
      PROVE  (\E b \in Actors : job'[b] = x) \/ (\E m \in Nodes : task'[m] = x) <=>
             (\E b \in Actors : job[b] = x) \/ (\E m \in Nodes : task[m] = x)
  <2>1. ASSUME NEW b \in Actors, job[b] = x
        PROVE  (\E d \in Actors : job'[d] = x) \/ (\E m \in Nodes : task'[m] = x)
    BY <2>1
  <2>2. ASSUME NEW m \in Nodes, task[m] = x
        PROVE  (\E d \in Actors : job'[d] = x) \/ (\E j \in Nodes : task'[j] = x)
    BY <2>2
  <2>3. ASSUME NEW b \in Actors, job'[b] = x
        PROVE  (\E d \in Actors : job[d] = x) \/ (\E m \in Nodes : task[m] = x)
    BY <2>3
  <2>4. ASSUME NEW m \in Nodes, task'[m] = x
        PROVE  (\E d \in Actors : job[d] = x) \/ (\E j \in Nodes : task[j] = x)
    BY <2>4
  <2> QED
    BY <2>1, <2>2, <2>3, <2>4
<1> QED
  BY <1>1 DEF Used, Fresh

\* What the counters add up to.
Sum == completed + rejected + discarded + queued + running

\* A step that submits nothing and keeps the sum with the submissions under
\* way keeps the count.
LEMMA QuietCount ==
    ASSUME TypeOK, Counted, Used' = Used, Publishing' = Publishing, Sum' = Sum
    PROVE  Counted'
BY DEF Counted, CountedOnce, Publishing, Used, Sum

\* A step that touches neither callables nor counters.
LEMMA SameCount ==
    ASSUME TypeOK, Counted, UNCHANGED <<task, counts, stats, job, ran, destroyed>>,
           \A c \in Callers : pc'[c] = "publish" <=> pc[c] = "publish"
    PROVE  Counted'
<1>1. Used' = Used
  BY DEF Used, Fresh
<1>2. Publishing' = Publishing
  BY DEF Publishing
<1>3. Sum' = Sum
  BY DEF Sum, counts, stats
<1> QED
  BY <1>1, <1>2, <1>3, QuietCount

\* A submission enters the count once: refused, full or under way.
LEMMA CountReserve ==
    ASSUME TypeOK, Control, Counted, NEW c \in Callers, Reserve(c)
    PROVE  Counted'
<1> DEFINE k == AnyOf(Fresh)
<1>1. k \in Tasks /\ k \notin Used
  BY AnyOfIn DEF Reserve, Fresh, Used
<1>2. pc[c] = "out" /\ job[c] = None /\ c \notin Publishing
  BY DEF Reserve, Control, ActorsAgree, Publishing
<1>3. /\ completed \in Nat /\ rejected \in Nat /\ discarded \in Nat /\ queued \in Nat /\ running \in Nat
      /\ UNCHANGED <<task, queued, running, completed, ran>>
  BY DEF TypeOK, Reserve
<1> HIDE DEF k
<1>4. Used' = Used \cup {k}
  <2>1. CASE stopping \/ ~Admits
    <3>1. destroyed' = destroyed \cup {k} /\ UNCHANGED job
      BY <2>1 DEF Reserve, k
    <3> QED
      BY <1>1, <1>3, <3>1 DEF Used, Fresh
  <2>2. CASE ~stopping /\ Admits
    <3>1. job' = [job EXCEPT ![c] = k] /\ UNCHANGED destroyed
      BY <2>2 DEF Reserve, k
    <3>2. job \in [Actors -> Tasks \cup {None}]
      BY DEF TypeOK
    <3> QED
      BY <1>1, <1>2, <1>3, <3>1, <3>2 DEF Used, Fresh
  <2> QED
    BY <2>1, <2>2
<1>5. IsFiniteSet(Used') /\ Cardinality(Used') = Cardinality(Used) + 1
  BY <1>1, <1>4, FS_AddElement DEF Counted
<1>6. /\ IsFiniteSet(Publishing')
      /\ Sum' + Cardinality(Publishing') = Sum + Cardinality(Publishing) + 1
  <2>1. IsFiniteSet(Publishing) /\ Cardinality(Publishing) \in Nat
    BY FS_CardinalityType DEF Counted
  <2>2. CASE stopping \/ ~Admits
    <3>1. /\ Publishing' = Publishing
          /\ \/ discarded' = discarded + 1 /\ rejected' = rejected
             \/ rejected' = rejected + 1 /\ discarded' = discarded
      BY <2>2 DEF Reserve, Publishing
    <3> QED
      BY <1>3, <2>1, <3>1 DEF Sum
  <2>3. CASE ~stopping /\ Admits
    <3>1. /\ pc' = [pc EXCEPT ![c] = "publish"]
          /\ UNCHANGED <<rejected, discarded>>
      BY <2>3 DEF Reserve, Goto
    <3>2. Publishing' = Publishing \cup {c}
      BY <3>1 DEF Publishing, TypeOK
    <3>3. IsFiniteSet(Publishing') /\ Cardinality(Publishing') = Cardinality(Publishing) + 1
      BY <1>2, <2>1, <3>2, FS_AddElement
    <3> QED
      BY <1>3, <2>1, <3>1, <3>3 DEF Sum
  <2> QED
    BY <2>2, <2>3
<1>7. CountedOnce'
  <2>1. Sum + Cardinality(Publishing) = Cardinality(Used)
    BY DEF Counted, CountedOnce, Sum, Publishing, Used
  <2>2. Sum' + Cardinality(Publishing') = Cardinality(Used')
    <3>1. Cardinality(Publishing) \in Nat /\ Cardinality(Used) \in Nat
      BY FS_CardinalityType DEF Counted
    <3>2. Sum \in Nat
      BY <1>3 DEF Sum
    <3> QED
      BY <1>5, <1>6, <2>1, <3>1, <3>2
  <2> QED
    BY <2>2 DEF CountedOnce, Sum, Publishing, Used
<1> QED
  BY <1>5, <1>6, <1>7 DEF Counted

\* A submission under way becomes queued or discarded.
LEMMA CountPublish ==
    ASSUME TypeOK, Control, Lists, Counted, NEW c \in Callers, Publish(c)
    PROVE  Counted'
<1>1. /\ node[c] \in Nodes /\ pc[c] = "publish" /\ job[c] \in Tasks
      /\ task[node[c]] = None
  BY DEF TypeOK, Publish, Control, ActorsAgree, Lists, CallablesHeld, OneHolder
<1>2. /\ task' = [task EXCEPT ![node[c]] = job[c]] /\ job' = [job EXCEPT ![c] = None]
      /\ UNCHANGED <<ran, destroyed, running, completed, rejected>>
  BY DEF Publish, history
<1>3. Used' = Used
  <2>1. task \in [Nodes -> Tasks \cup {None}] /\ job \in [Actors -> Tasks \cup {None}]
    BY DEF TypeOK
  <2> QED
    BY <1>1, <1>2, <2>1, MovedUsed
<1>4. pc' = [pc EXCEPT ![c] = IF stopping THEN "drop" ELSE "notify"]
  BY DEF Publish, Goto
<1>5. Publishing' = Publishing \ {c} /\ c \in Publishing
  BY <1>1, <1>4 DEF Publishing, TypeOK
<1>6. /\ IsFiniteSet(Publishing') /\ Cardinality(Publishing') = Cardinality(Publishing) - 1
      /\ Cardinality(Publishing) \in Nat
  BY <1>5, FS_RemoveElement, FS_CardinalityType DEF Counted
<1>7. Sum' = Sum + 1 /\ Sum \in Nat
  BY <1>2 DEF Publish, Sum, TypeOK
<1>8. CountedOnce'
  <2>1. Sum + Cardinality(Publishing) = Cardinality(Used)
    BY DEF Counted, CountedOnce, Sum, Publishing, Used
  <2>2. Sum' + Cardinality(Publishing') = Cardinality(Used')
    BY <1>3, <1>6, <1>7, <2>1
  <2> QED
    BY <2>2 DEF CountedOnce, Sum, Publishing, Used
<1> QED
  BY <1>3, <1>6, <1>8 DEF Counted

\* A queued callable becomes a running one.
LEMMA CountTake ==
    ASSUME TypeOK, Control, Lists, Counted, NEW t \in Threads, Take(t)
    PROVE  Counted'
<1>1. CASE stopping \/ queued = 0
  BY <1>1, SameCount DEF Take, Goto, counts, stats, history, TypeOK
<1>2. CASE ~stopping /\ queued # 0
  <2>1. ring # << >> /\ ring \in Seq(Nodes)
    BY <1>2 DEF TypeOK, Lists, RingAgrees
  <2>2. Head(ring) \in Nodes /\ Head(ring) \in Elems(ring)
    BY <2>1, ChainTail
  <2>3. task[Head(ring)] \in Tasks
    BY <2>2 DEF Lists, CallablesHeld, TypeOK
  <2>4. job[t] = None /\ pc[t] = "wait"
    BY DEF Take, Control, ActorsAgree, InStop
  <2>5. /\ job' = [job EXCEPT ![t] = task[Head(ring)]] /\ task' = [task EXCEPT ![Head(ring)] = None]
        /\ queued' = queued - 1 /\ running' = running + 1 /\ pc' = [pc EXCEPT ![t] = "run"]
        /\ UNCHANGED <<completed, rejected, discarded, ran, destroyed>>
    BY <1>2 DEF Take, Goto, stats, history
  <2>6. Used' = Used
    BY <2>2, <2>3, <2>4, <2>5, MovedUsed DEF TypeOK
  <2>7. Publishing' = Publishing
    BY <2>5 DEF Publishing, TypeOK
  <2>8. Sum' = Sum
    BY <2>5 DEF Sum, TypeOK
  <2> QED
    BY <2>6, <2>7, <2>8, QuietCount
<1> QED
  BY <1>1, <1>2

\* A callable that ends, run or not, stays submitted.
LEMMA EndedUsed ==
    ASSUME TypeOK, NEW k \in Tasks,
           ran' \cup destroyed' = ran \cup destroyed \cup {k},
           \/ /\ UNCHANGED task
              /\ \E a \in Actors : job[a] = k /\ job' = [job EXCEPT ![a] = None]
           \/ /\ UNCHANGED job
              /\ \E n \in Nodes : task[n] = k /\ task' = [task EXCEPT ![n] = None]
    PROVE  Used' = Used
<1>1. task \in [Nodes -> Tasks \cup {None}] /\ job \in [Actors -> Tasks \cup {None}]
  BY DEF TypeOK
<1>2. k \in Used
  BY <1>1 DEF Used, Fresh
<1>3. ASSUME NEW x \in Tasks, x # k
      PROVE  (\E b \in Actors : job'[b] = x) \/ (\E m \in Nodes : task'[m] = x) <=>
             (\E b \in Actors : job[b] = x) \/ (\E m \in Nodes : task[m] = x)
  BY <1>1, <1>3
<1>4. ASSUME NEW x \in Tasks
      PROVE  x \in Used' <=> x \in Used
  BY <1>2, <1>3, <1>4 DEF Used, Fresh
<1> QED
  BY <1>4 DEF Used

\* Running a callable changes no count.
LEMMA CountRun ==
    ASSUME TypeOK, Control, Counted, NEW t \in Threads, Run(t)
    PROVE  Counted'
<1>1. /\ pc[t] = "run" /\ job[t] \in Tasks /\ ran' = ran \cup {job[t]}
      /\ job' = [job EXCEPT ![t] = None] /\ pc' = [pc EXCEPT ![t] = "retire"]
      /\ UNCHANGED <<task, counts, stats, destroyed>>
  BY DEF Run, Goto, lists, Control, ActorsAgree, TypeOK
<1>2. Used' = Used
  BY <1>1, EndedUsed
<1>3. Publishing' = Publishing
  BY <1>1 DEF Publishing, TypeOK
<1>4. Sum' = Sum
  BY <1>1 DEF Sum, counts, stats
<1> QED
  BY <1>2, <1>3, <1>4, QuietCount

\* A running callable becomes a completed one.
LEMMA CountRetire ==
    ASSUME TypeOK, Control, Lists, Counted, NEW t \in Threads, Retire(t)
    PROVE  Counted'
<1>1. /\ pc' = [pc EXCEPT ![t] = "wait"] /\ running' = running - 1 /\ completed' = completed + 1
      /\ UNCHANGED <<task, job, queued, rejected, discarded, ran, destroyed>> /\ pc[t] = "retire"
  BY DEF Retire, Goto, history
<1>2. Used' = Used
  BY <1>1 DEF Used, Fresh
<1>3. Publishing' = Publishing
  BY <1>1 DEF Publishing, TypeOK
<1>4. Sum' = Sum
  BY <1>1 DEF Sum, TypeOK
<1> QED
  BY <1>2, <1>3, <1>4, QuietCount

\* A refused callable was counted when it was refused.
LEMMA CountDrop ==
    ASSUME TypeOK, Control, Lists, Counted, NEW c \in Callers, Drop(c)
    PROVE  Counted'
<1>1. /\ pc[c] = "drop" /\ destroyed' = destroyed \cup {task[node[c]]}
      /\ task' = [task EXCEPT ![node[c]] = None] /\ pc' = [pc EXCEPT ![c] = "dropped"]
      /\ UNCHANGED <<job, counts, stats, ran>>
  BY DEF Drop, Goto
<1>2. node[c] \in Nodes /\ task[node[c]] \in Tasks
  BY <1>1 DEF Control, ActorsAgree, Lists, CallablesHeld, TypeOK
<1>3. Used' = Used
  BY <1>1, <1>2, EndedUsed
<1>4. Publishing' = Publishing
  BY <1>1 DEF Publishing, TypeOK
<1>5. Sum' = Sum
  BY <1>1 DEF Sum, counts, stats
<1> QED
  BY <1>3, <1>4, <1>5, QuietCount

\* A drained callable was counted by the stop() that took it.
LEMMA CountDrainDestroy ==
    ASSUME TypeOK, Control, Lists, Counted, NEW a \in Actors, DrainDestroy(a)
    PROVE  Counted'
<1>1. /\ pc[a] = "destroy" /\ destroyed' = destroyed \cup {task[victim]}
      /\ task' = [task EXCEPT ![victim] = None] /\ pc' = [pc EXCEPT ![a] = "drain"]
      /\ UNCHANGED <<job, counts, stats, ran>>
  BY DEF DrainDestroy, Goto
<1>2. victim \in Nodes /\ task[victim] \in Tasks
  BY <1>1 DEF Control, DrainAgrees, Lists, CallablesHeld, TypeOK
<1>3. Used' = Used
  BY <1>1, <1>2, EndedUsed
<1>4. Publishing' = Publishing
  BY <1>1 DEF Publishing, TypeOK
<1>5. Sum' = Sum
  BY <1>1 DEF Sum, counts, stats
<1> QED
  BY <1>3, <1>4, <1>5, QuietCount

\* What is queued becomes discarded.
LEMMA CountStopFirst ==
    ASSUME TypeOK, Counted, NEW a \in Actors, StopFirst(a)
    PROVE  Counted'
<1>1. /\ discarded' = discarded + queued /\ queued' = 0 /\ pc' = [pc EXCEPT ![a] = "stopped"]
      /\ UNCHANGED <<task, job, running, completed, rejected, ran, destroyed>> /\ pc[a] = "stop"
  BY DEF StopFirst, Goto, lists, history
<1>2. Used' = Used
  BY <1>1 DEF Used, Fresh
<1>3. Publishing' = Publishing
  BY <1>1 DEF Publishing, TypeOK
<1>4. Sum' = Sum
  BY <1>1 DEF Sum, TypeOK
<1> QED
  BY <1>2, <1>3, <1>4, QuietCount

-----------------------------------------------------------------------------
(* Types, and the whole invariant                                            *)

\* A step that moves neither nodes nor callables: it moves one actor, not into
\* or out of the middle of submit(), and the state of the stop and the join.
Quiet ==
    /\ UNCHANGED <<stopping, lists, counts, stats, node, job, drain, ran, destroyed>>
    /\ \A c \in Callers : \A p \in {"publish", "drop"} : pc'[c] = p <=> pc[c] = p

\* Notifications, join() and the destructor.
LEMMA QuietCaller ==
    ASSUME TypeOK, Control, NEW c \in Callers,
           ReservationNotify(c) \/ SubmitNotify(c) \/ CallJoin(c) \/ NestedJoin(c)
             \/ Elect(c) \/ JoinThreads(c) \/ Mark(c) \/ Settle(c) \/ Destroy(c)
             \/ Detach(c)
    PROVE  Quiet /\ TypeOK'
<1> USE DEF shared, lists, counts, stats, drain, history, Goto, NotifyAll, NotifyOne, Places
<1>1. CASE ReservationNotify(c)
  <2>1. Quiet
    BY <1>1 DEF ReservationNotify, Quiet, TypeOK
  <2>2. TypeOK'
    BY <1>1 DEF ReservationNotify, TypeOK
  <2> QED
    BY <2>1, <2>2
<1>2. CASE SubmitNotify(c)
  <2>1. Quiet
    BY <1>2 DEF SubmitNotify, Quiet, TypeOK
  <2>2. TypeOK'
    BY <1>2 DEF SubmitNotify, TypeOK
  <2> QED
    BY <2>1, <2>2
<1>3. CASE CallJoin(c)
  <2>1. Quiet
    BY <1>3 DEF CallJoin, Quiet, TypeOK
  <2>2. TypeOK'
    BY <1>3 DEF CallJoin, TypeOK
  <2> QED
    BY <2>1, <2>2
<1>4. CASE NestedJoin(c)
  <2>1. Quiet
    BY <1>4 DEF NestedJoin, Quiet, TypeOK
  <2>2. TypeOK'
    BY <1>4 DEF NestedJoin, TypeOK
  <2> QED
    BY <2>1, <2>2
<1>5. CASE Elect(c)
  <2>1. Quiet
    BY <1>5 DEF Elect, Quiet, TypeOK
  <2>2. TypeOK'
    <3>1. CASE joining
      BY <1>5, <3>1 DEF Elect, TypeOK
    <3>2. CASE ~joining /\ ~joined
      <4>1. pc' \in [Actors -> Places]
        BY <1>5, <3>2 DEF Elect, TypeOK
      <4>2. mine' \in [Callers -> SUBSET Threads]
        BY <1>5, <3>2 DEF Elect, TypeOK
      <4> HIDE DEF Places
      <4> QED
        BY <1>5, <3>2, <4>1, <4>2 DEF Elect, TypeOK
    <3>3. CASE ~joining /\ joined
      BY <1>5, <3>3 DEF Elect, TypeOK
    <3> QED
      BY <3>1, <3>2, <3>3
  <2> QED
    BY <2>1, <2>2
<1>6. CASE JoinThreads(c)
  <2>1. Quiet
    BY <1>6 DEF JoinThreads, Quiet, TypeOK
  <2>2. TypeOK'
    BY <1>6 DEF JoinThreads, TypeOK
  <2> QED
    BY <2>1, <2>2
<1>7. CASE Mark(c)
  <2>1. Quiet
    BY <1>7 DEF Mark, Quiet, TypeOK
  <2>2. TypeOK'
    BY <1>7 DEF Mark, TypeOK
  <2> QED
    BY <2>1, <2>2
<1>8. CASE Settle(c)
  <2>1. Quiet
    BY <1>8 DEF Settle, Quiet, TypeOK
  <2>2. TypeOK'
    <3>1. CASE Settled(c)
      <4>1. pc' \in [Actors -> Places]
        BY <1>8, <3>1 DEF Settle, TypeOK
      <4>2. nested' \in [Actors -> BOOLEAN]
        BY <1>8, <3>1 DEF Settle, TypeOK
      <4> HIDE DEF Places
      <4> QED
        BY <1>8, <3>1, <4>1, <4>2 DEF Settle, TypeOK
    <3>2. CASE ~Settled(c)
      BY <1>8, <3>2 DEF Settle, TypeOK
    <3> QED
      BY <3>1, <3>2
  <2> QED
    BY <2>1, <2>2
<1>9. CASE Destroy(c)
  <2>1. Quiet
    BY <1>9 DEF Destroy, Quiet, TypeOK
  <2>2. TypeOK'
    BY <1>9 DEF Destroy, TypeOK
  <2> QED
    BY <2>1, <2>2
<1>10. CASE Detach(c)
  <2>1. Quiet
    BY <1>10 DEF Detach, Quiet, TypeOK
  <2>2. TypeOK'
    BY <1>10 DEF Detach, TypeOK
  <2> QED
    BY <2>1, <2>2
<1> QED
  BY <1>1, <1>2, <1>3, <1>4, <1>5, <1>6, <1>7, <1>8, <1>9, <1>10

\* What stop() does outside its first critical section and its drain.
LEMMA QuietActor ==
    ASSUME TypeOK, Control, NEW a \in Actors,
           StopAgain(a) \/ StopNotify(a) \/ DrainEnd(a) \/ DrainNotify(a) \/ CallStop(a)
             \/ SpuriousWakeup(a)
    PROVE  Quiet /\ TypeOK'
<1> USE DEF shared, lists, counts, stats, drain, history, Goto, NotifyAll, NotifyOne, Places
<1>1. CASE StopAgain(a)
  <2>1. Quiet
    BY <1>1 DEF StopAgain, Quiet, TypeOK
  <2>2. TypeOK'
    BY <1>1 DEF StopAgain, TypeOK
  <2> QED
    BY <2>1, <2>2
<1>2. CASE StopNotify(a)
  <2>1. Quiet
    BY <1>2 DEF StopNotify, Quiet, TypeOK
  <2>2. TypeOK'
    BY <1>2 DEF StopNotify, TypeOK
  <2> QED
    BY <2>1, <2>2
<1>3. CASE DrainEnd(a)
  <2>1. Quiet
    BY <1>3 DEF DrainEnd, Quiet, TypeOK
  <2>2. TypeOK'
    BY <1>3 DEF DrainEnd, TypeOK
  <2> QED
    BY <2>1, <2>2
<1>4. CASE DrainNotify(a)
  <2>1. Quiet
    BY <1>4 DEF DrainNotify, Quiet, TypeOK
  <2>2. TypeOK'
    BY <1>4 DEF DrainNotify, TypeOK
  <2> QED
    BY <2>1, <2>2
<1>5. CASE CallStop(a)
  <2>1. Quiet
    BY <1>5 DEF CallStop, Quiet, TypeOK
  <2>2. TypeOK'
    BY <1>5 DEF CallStop, TypeOK
  <2> QED
    BY <2>1, <2>2
<1>6. CASE SpuriousWakeup(a)
  <2>1. Quiet
    BY <1>6 DEF SpuriousWakeup, Quiet, TypeOK
  <2>2. TypeOK'
    BY <1>6 DEF SpuriousWakeup, TypeOK
  <2> QED
    BY <2>1, <2>2
<1> QED
  BY <1>1, <1>2, <1>3, <1>4, <1>5, <1>6

\* The counters are within their bounds because they count nodes.
LEMMA CountTypes ==
    ASSUME node' \in [Actors -> Nodes \cup {None}], queued' \in Nat, CountsAgree'
    PROVE  queued' \in 0..Capacity /\ reserved' \in 0..Capacity /\ running' \in 0..Cardinality(Threads)
<1>1. reserved' \in Nat /\ running' \in 0..Cardinality(Threads)
  BY HoldersBounded DEF CountsAgree, Held
<1> QED
  BY <1>1 DEF CountsAgree

\* Types: a callable and a node are picked from where they are.
LEMMA TypesReserve ==
    ASSUME TypeOK, Control, Lists, Lists', NEW c \in Callers, Reserve(c)
    PROVE  TypeOK'
<1> USE DEF shared, lists, counts, stats, drain, history, Goto, Places
<1>0. AnyOf(Fresh) \in Tasks /\ (free # {} => AnyOf(free) \in Nodes)
  BY AnyOfIn DEF Reserve, Fresh, TypeOK
<1>1. node' \in [Actors -> Nodes \cup {None}] /\ queued' \in Nat
  BY <1>0, PoolAssumption DEF Reserve, TypeOK
<1>2. queued' \in 0..Capacity /\ reserved' \in 0..Capacity /\ running' \in 0..Cardinality(Threads)
  BY <1>1, CountTypes DEF Lists
<1> QED
  BY <1>0, <1>1, <1>2 DEF Reserve, TypeOK

\* Types: the ring gets a node.
LEMMA TypesPublish ==
    ASSUME TypeOK, Control, Lists, Lists', NEW c \in Callers, Publish(c)
    PROVE  TypeOK'
<1> USE DEF shared, lists, counts, stats, drain, history, Goto, Places
<1>0. node[c] \in Nodes /\ job[c] \in Tasks /\ Append(ring, node[c]) \in Seq(Nodes)
  BY DEF Publish, Control, ActorsAgree, TypeOK
<1>1. node' \in [Actors -> Nodes \cup {None}] /\ queued' \in Nat
  BY <1>0, PoolAssumption DEF Publish, TypeOK
<1>2. queued' \in 0..Capacity /\ reserved' \in 0..Capacity /\ running' \in 0..Cardinality(Threads)
  BY <1>1, CountTypes DEF Lists
<1>3. CASE stopping
  BY <1>0, <1>1, <1>2, <1>3 DEF Publish, TypeOK
<1>4. CASE ~stopping
  <2>1. pc' \in [Actors -> Places]
    BY <1>0, <1>1, <1>2, <1>4 DEF Publish, TypeOK
  <2>2. task' \in [Nodes -> Tasks \cup {None}]
    BY <1>0, <1>1, <1>2, <1>4 DEF Publish, TypeOK
  <2>3. job' \in [Actors -> Tasks \cup {None}]
    BY <1>0, <1>1, <1>2, <1>4 DEF Publish, TypeOK
  <2>4. ring' \in Seq(Nodes)
    BY <1>0, <1>1, <1>2, <1>4 DEF Publish, TypeOK
  <2> HIDE DEF Places
  <2> QED
    BY <1>0, <1>1, <1>2, <1>4, <2>1, <2>2, <2>3, <2>4 DEF Publish, TypeOK
<1> QED
  BY <1>3, <1>4

\* Types are kept by Drop.
LEMMA TypesDrop ==
    ASSUME TypeOK, Control, Lists, Lists', NEW c \in Callers, Drop(c)
    PROVE  TypeOK'
<1> USE DEF shared, lists, counts, stats, drain, history, Goto, Places
<1>0. node[c] \in Nodes /\ task[node[c]] \in Tasks
  BY DEF Drop, Control, ActorsAgree, Lists, CallablesHeld, TypeOK
<1>1. node' \in [Actors -> Nodes \cup {None}] /\ queued' \in Nat
  BY <1>0, PoolAssumption DEF Drop, TypeOK
<1>2. queued' \in 0..Capacity /\ reserved' \in 0..Capacity /\ running' \in 0..Cardinality(Threads)
  BY <1>1, CountTypes DEF Lists
<1> QED
  BY <1>0, <1>1, <1>2 DEF Drop, TypeOK

\* Types are kept by ReturnReservation.
LEMMA TypesReturnReservation ==
    ASSUME TypeOK, Control, Lists, Lists', NEW c \in Callers, ReturnReservation(c)
    PROVE  TypeOK'
<1> USE DEF shared, lists, counts, stats, drain, history, Goto, Places
<1>0. node[c] \in Nodes
  BY DEF ReturnReservation, Control, ActorsAgree, TypeOK
<1>1. node' \in [Actors -> Nodes \cup {None}] /\ queued' \in Nat
  BY <1>0, PoolAssumption DEF ReturnReservation, TypeOK
<1>2. queued' \in 0..Capacity /\ reserved' \in 0..Capacity /\ running' \in 0..Cardinality(Threads)
  BY <1>1, CountTypes DEF Lists
<1> QED
  BY <1>0, <1>1, <1>2 DEF ReturnReservation, TypeOK

\* Types are kept by Take.
LEMMA TypesTake ==
    ASSUME TypeOK, Control, Lists, Lists', NEW t \in Threads, Take(t)
    PROVE  TypeOK'
<1> USE DEF shared, lists, counts, stats, drain, history, Goto, Places
<1>0. ~stopping /\ queued # 0 => Head(ring) \in Nodes /\ Tail(ring) \in Seq(Nodes)
  <2>1. ~stopping /\ queued # 0 => ring # << >>
    BY DEF Lists, RingAgrees
  <2> QED
    BY <2>1, ChainTail DEF TypeOK
<1>1. node' \in [Actors -> Nodes \cup {None}] /\ queued' \in Nat
  BY <1>0, PoolAssumption DEF Take, TypeOK
<1>2. queued' \in 0..Capacity /\ reserved' \in 0..Capacity /\ running' \in 0..Cardinality(Threads)
  BY <1>1, CountTypes DEF Lists
<1>3. CASE stopping
  BY <1>0, <1>1, <1>2, <1>3 DEF Take, TypeOK
<1>4. CASE ~stopping /\ queued # 0
  <2>1. pc' \in [Actors -> Places]
    BY <1>0, <1>1, <1>2, <1>4 DEF Take, TypeOK
  <2>2. task' \in [Nodes -> Tasks \cup {None}]
    BY <1>0, <1>1, <1>2, <1>4 DEF Take, TypeOK
  <2>3. job' \in [Actors -> Tasks \cup {None}]
    BY <1>0, <1>1, <1>2, <1>4 DEF Take, TypeOK
  <2>4. ring' \in Seq(Nodes)
    BY <1>0, <1>1, <1>2, <1>4 DEF Take, TypeOK
  <2> HIDE DEF Places
  <2> QED
    BY <1>0, <1>1, <1>2, <1>4, <2>1, <2>2, <2>3, <2>4 DEF Take, TypeOK
<1>5. CASE ~stopping /\ queued = 0
  BY <1>0, <1>1, <1>2, <1>5 DEF Take, TypeOK
<1> QED
  BY <1>3, <1>4, <1>5

\* Types are kept by Run.
LEMMA TypesRun ==
    ASSUME TypeOK, Control, Lists, Lists', NEW t \in Threads, Run(t)
    PROVE  TypeOK'
<1> USE DEF shared, lists, counts, stats, drain, history, Goto, Places
<1>0. job[t] \in Tasks
  BY DEF Run, Control, ActorsAgree, TypeOK
<1>1. node' \in [Actors -> Nodes \cup {None}] /\ queued' \in Nat
  BY <1>0, PoolAssumption DEF Run, TypeOK
<1>2. queued' \in 0..Capacity /\ reserved' \in 0..Capacity /\ running' \in 0..Cardinality(Threads)
  BY <1>1, CountTypes DEF Lists
<1> QED
  BY <1>0, <1>1, <1>2 DEF Run, TypeOK

\* Types are kept by Retire.
LEMMA TypesRetire ==
    ASSUME TypeOK, Control, Lists, Lists', NEW t \in Threads, Retire(t)
    PROVE  TypeOK'
<1> USE DEF shared, lists, counts, stats, drain, history, Goto, Places
<1>0. node[t] \in Nodes
  BY DEF Retire, Control, ActorsAgree, TypeOK
<1>1. node' \in [Actors -> Nodes \cup {None}] /\ queued' \in Nat
  BY <1>0, PoolAssumption DEF Retire, TypeOK
<1>2. queued' \in 0..Capacity /\ reserved' \in 0..Capacity /\ running' \in 0..Cardinality(Threads)
  BY <1>1, CountTypes DEF Lists
<1> QED
  BY <1>0, <1>1, <1>2 DEF Retire, TypeOK

\* Types are kept by StopFirst.
LEMMA TypesStopFirst ==
    ASSUME TypeOK, Control, Lists, Lists', NEW a \in Actors, StopFirst(a)
    PROVE  TypeOK'
<1> USE DEF shared, lists, counts, stats, drain, history, Goto, Places
<1>1. node' \in [Actors -> Nodes \cup {None}] /\ queued' \in Nat
  BY PoolAssumption DEF StopFirst, TypeOK
<1>2. queued' \in 0..Capacity /\ reserved' \in 0..Capacity /\ running' \in 0..Cardinality(Threads)
  BY <1>1, CountTypes DEF Lists
<1> QED
  BY <1>1, <1>2 DEF StopFirst, TypeOK

\* Types are kept by DrainPop.
LEMMA TypesDrainPop ==
    ASSUME TypeOK, Control, Lists, Lists', NEW a \in Actors, DrainPop(a)
    PROVE  TypeOK'
<1> USE DEF shared, lists, counts, stats, drain, history, Goto, Places
<1>0. Head(ring) \in Nodes /\ Tail(ring) \in Seq(Nodes)
  <2>1. ring # << >>
    BY DEF DrainPop, Lists, RingAgrees, Control, DrainAgrees
  <2> QED
    BY <2>1, ChainTail DEF TypeOK
<1>1. node' \in [Actors -> Nodes \cup {None}] /\ queued' \in Nat
  BY <1>0, PoolAssumption DEF DrainPop, TypeOK
<1>2. queued' \in 0..Capacity /\ reserved' \in 0..Capacity /\ running' \in 0..Cardinality(Threads)
  BY <1>1, CountTypes DEF Lists
<1> QED
  BY <1>0, <1>1, <1>2 DEF DrainPop, TypeOK

\* Types are kept by DrainDestroy.
LEMMA TypesDrainDestroy ==
    ASSUME TypeOK, Control, Lists, Lists', NEW a \in Actors, DrainDestroy(a)
    PROVE  TypeOK'
<1> USE DEF shared, lists, counts, stats, drain, history, Goto, Places
<1>0. victim \in Nodes /\ task[victim] \in Tasks
  BY DEF DrainDestroy, Control, DrainAgrees, Lists, CallablesHeld, TypeOK
<1>1. node' \in [Actors -> Nodes \cup {None}] /\ queued' \in Nat
  BY <1>0, PoolAssumption DEF DrainDestroy, TypeOK
<1>2. queued' \in 0..Capacity /\ reserved' \in 0..Capacity /\ running' \in 0..Cardinality(Threads)
  BY <1>1, CountTypes DEF Lists
<1> QED
  BY <1>0, <1>1, <1>2 DEF DrainDestroy, TypeOK

\* At the start every node is free and every thread waits.
LEMMA PoolInit == Init => PoolCore
<1> SUFFICES ASSUME Init PROVE PoolCore
  OBVIOUS
<1>1. TypeOK
  <2>1. Cardinality(Threads) \in Nat /\ ring \in Seq(Nodes)
    BY FS_CardinalityType DEF Init
  <2>2. \A a \in Actors : pc[a] \in {"wait", "out"}
    BY DEF Init
  <2>3. pc \in [Actors -> Places] /\ mine \in [Callers -> SUBSET Threads]
    BY <2>2 DEF Init, Places
  <2>4. /\ task \in [Nodes -> Tasks \cup {None}] /\ node \in [Actors -> Nodes \cup {None}]
        /\ job \in [Actors -> Tasks \cup {None}] /\ nested \in [Actors -> BOOLEAN]
        /\ after \in [Actors -> {"out", "run", "elect", "detach"}]
    BY DEF Init
  <2>5. /\ queued \in 0..Capacity /\ reserved \in 0..Capacity /\ running \in 0..Cardinality(Threads)
        /\ completed \in Nat /\ rejected \in Nat /\ discarded \in Nat /\ dropped \in Nat
    BY <2>1 DEF Init
  <2>6. /\ stopping \in BOOLEAN /\ joining \in BOOLEAN /\ joined \in BOOLEAN /\ gone \in BOOLEAN
        /\ drainer \in Actors \cup {None} /\ handles \subseteq Threads /\ free \subseteq Nodes
        /\ victim \in Nodes \cup {None} /\ asleep \subseteq Actors
        /\ ran \subseteq Tasks /\ destroyed \subseteq Tasks
    BY DEF Init
  <2> QED
    BY <2>1, <2>3, <2>4, <2>5, <2>6 DEF TypeOK
<1>2. Held(Callers) = {} /\ Held(Threads) = {} /\ Publishing = {}
  BY DEF Init, Held, Publishing
<1>3. Used = {}
  BY DEF Init, Used, Fresh
<1>4. Elems(ring) = {} /\ Distinct(ring) /\ Len(ring) = 0
  BY ChainEmpty DEF Init
<1>5. Lists
  BY <1>2, <1>4, FS_EmptySet
     DEF Init, Lists, RingAgrees, OneHolder, NoNodeLost, CountsAgree, CallablesHeld
<1>6. Control
  <2>1. ActorsAgree
    BY DEF Init, ActorsAgree, InStop, InJoin
  <2>2. DrainAgrees
    BY DEF Init, DrainAgrees
  <2>3. JoinAgrees
    BY DEF Init, JoinAgrees, InJoin
  <2> QED
    BY <2>1, <2>2, <2>3 DEF Control
<1>7. Counted
  <2>1. IsFiniteSet(Publishing) /\ IsFiniteSet(Used)
    BY <1>2, <1>3, FS_EmptySet
  <2>2. Cardinality(Publishing) = 0 /\ Cardinality(Used) = 0
    BY <1>2, <1>3, FS_EmptySet
  <2>3. CountedOnce
    BY <2>2 DEF Init, CountedOnce, Publishing, Used
  <2> QED
    BY <2>1, <2>3 DEF Counted
<1>8. FreeNodeForSubmit
  BY <1>1, <1>5, <1>6, AdmittedFindsNode DEF Lists, Control
<1> QED
  BY <1>1, <1>5, <1>6, <1>7, <1>8 DEF PoolCore, PoolInv, Lists, Control, Counted

\* The parts of the invariant other than the free node, which follows from
\* them, are kept by every step.
LEMMA PoolMoves ==
    ASSUME TypeOK, Control, Lists, Counted, FreeNodeForSubmit, Next
    PROVE  TypeOK' /\ Control' /\ Lists' /\ Counted'
<1> USE DEF Lists
<1>1. ASSUME Quiet PROVE Lists' /\ Counted'
  <2>1. UNCHANGED <<stopping, lists, counts, node, drain>> /\ \A c \in Callers : pc'[c] = "drop" <=> pc[c] = "drop"
    BY <1>1 DEF Quiet
  <2>2. /\ UNCHANGED <<task, counts, stats, job, ran, destroyed>>
        /\ \A c \in Callers : pc'[c] = "publish" <=> pc[c] = "publish"
    BY <1>1 DEF Quiet, lists
  <2> QED
    BY <2>1, <2>2, QuietLists, SameCount
<1>2. ASSUME NEW c \in Callers,
             ReservationNotify(c) \/ SubmitNotify(c) \/ CallJoin(c) \/ NestedJoin(c)
               \/ Elect(c) \/ JoinThreads(c) \/ Mark(c) \/ Settle(c) \/ Destroy(c)
               \/ Detach(c)
      PROVE  TypeOK' /\ Control' /\ Lists' /\ Counted'
  BY <1>1, <1>2, QuietCaller, ControlSubmit, ControlJoin
<1>3. ASSUME NEW a \in Actors,
             StopAgain(a) \/ StopNotify(a) \/ DrainEnd(a) \/ DrainNotify(a)
               \/ CallStop(a) \/ SpuriousWakeup(a)
      PROVE  TypeOK' /\ Control' /\ Lists' /\ Counted'
  BY <1>1, <1>3, QuietActor, ControlStop
<1>4. ASSUME NEW c \in Callers, Reserve(c) \/ Publish(c) \/ Drop(c) \/ ReturnReservation(c)
      PROVE  TypeOK' /\ Control' /\ Lists' /\ Counted'
  <2>1. Control'
    BY <1>4, ControlSubmit
  <2>2. CASE Reserve(c)
    BY <2>1, <2>2, ListsReserve, CountReserve, TypesReserve
  <2>3. CASE Publish(c)
    BY <2>1, <2>3, ListsPublish, CountPublish, TypesPublish
  <2>4. CASE Drop(c)
    BY <2>1, <2>4, ListsDrop, CountDrop, TypesDrop
  <2>5. CASE ReturnReservation(c)
    <3>1. /\ pc[c] = "dropped" /\ node[c] # None /\ pc'[c] # "drop" /\ pc'[c] # "publish"
          /\ \A b \in Actors \ {c} : pc'[b] = pc[b]
      BY <2>5 DEF ReturnReservation, Goto, Control, ActorsAgree, TypeOK
    <3>2. Lists'
      <4> HIDE DEF Lists
      <4> QED
        BY <2>5, <3>1, ListsGiveBack DEF ReturnReservation, shared
    <3>3. Counted'
      <4>1. Used' = Used
        BY <2>5 DEF ReturnReservation, history, Used, Fresh
      <4>2. Publishing' = Publishing
        BY <3>1 DEF Publishing
      <4>3. Sum' = Sum
        BY <2>5 DEF ReturnReservation, stats, Sum
      <4> QED
        BY <4>1, <4>2, <4>3, QuietCount
    <3> QED
      BY <2>1, <2>5, <3>2, <3>3, TypesReturnReservation
  <2> QED
    BY <1>4, <2>2, <2>3, <2>4, <2>5
<1>5. ASSUME NEW t \in Threads, Take(t) \/ Run(t) \/ Retire(t)
      PROVE  TypeOK' /\ Control' /\ Lists' /\ Counted'
  <2>1. Control'
    BY <1>5, ControlRun
  <2>2. CASE Take(t)
    BY <2>1, <2>2, ListsTake, CountTake, TypesTake
  <2>3. CASE Run(t)
    <3>1. Lists'
      <4>1. /\ UNCHANGED <<stopping, lists, counts, node, drain>>
            /\ \A c \in Callers : pc'[c] = "drop" <=> pc[c] = "drop"
        BY <2>3 DEF Run, shared, Goto, TypeOK
      <4> QED
        BY <4>1, QuietLists
    <3> QED
      BY <2>1, <2>3, <3>1, CountRun, TypesRun
  <2>4. CASE Retire(t)
    <3>1. /\ pc[t] = "retire" /\ node[t] # None /\ pc'[t] # "drop"
          /\ \A b \in Actors \ {t} : pc'[b] = pc[b]
      BY <2>4 DEF Retire, Goto, Control, ActorsAgree, TypeOK
    <3>2. Lists'
      <4> HIDE DEF Lists
      <4> QED
        BY <2>4, <3>1, ListsGiveBack DEF Retire, shared
    <3> QED
      BY <2>1, <2>4, <3>2, CountRetire, TypesRetire
  <2> QED
    BY <1>5, <2>2, <2>3, <2>4
<1>6. ASSUME NEW a \in Actors, StopFirst(a) \/ DrainPop(a) \/ DrainDestroy(a)
      PROVE  TypeOK' /\ Control' /\ Lists' /\ Counted'
  <2>1. Control'
    BY <1>6, ControlStop
  <2>2. CASE StopFirst(a)
    BY <2>1, <2>2, ListsStopFirst, CountStopFirst, TypesStopFirst
  <2>3. CASE DrainPop(a)
    <3>1. Counted'
      <4>1. UNCHANGED <<task, counts, stats, job, ran, destroyed>>
        BY <2>3 DEF DrainPop, history
      <4>2. \A c \in Callers : pc'[c] = "publish" <=> pc[c] = "publish"
        BY <2>3 DEF DrainPop, Goto, TypeOK
      <4> QED
        BY <4>1, <4>2, SameCount
    <3> QED
      BY <2>1, <2>3, <3>1, ListsDrainPop, TypesDrainPop
  <2>4. CASE DrainDestroy(a)
    BY <2>1, <2>4, ListsDrainDestroy, CountDrainDestroy, TypesDrainDestroy
  <2> QED
    BY <1>6, <2>2, <2>3, <2>4
<1> QED
  BY <1>2, <1>3, <1>4, <1>5, <1>6 DEF Next, CallerStep, ThreadStep, StopStep

\* The same after a step.
LEMMA AdmittedNext ==
    (TypeOK /\ RingAgrees /\ OneHolder /\ NoNodeLost /\ CountsAgree /\ DrainAgrees
       => FreeNodeForSubmit)'
<1>1. TypeOK /\ RingAgrees /\ OneHolder /\ NoNodeLost /\ CountsAgree /\ DrainAgrees => FreeNodeForSubmit
  BY AdmittedFindsNode
<1> QED
  BY <1>1, PTL

\* PoolCore is inductive.
LEMMA PoolStep == PoolCore /\ [Next]_vars => PoolCore'
<1> SUFFICES ASSUME PoolCore, [Next]_vars PROVE PoolCore'
  OBVIOUS
<1>1. TypeOK /\ Control /\ Lists /\ Counted /\ FreeNodeForSubmit
  BY DEF PoolCore, PoolInv, Control, Lists, Counted
<1>2. TypeOK' /\ Control' /\ Lists' /\ Counted'
  <2>1. CASE Next
    BY <1>1, <2>1, PoolMoves
  <2>2. CASE UNCHANGED vars
    <3>1. TypeOK'
      BY <1>1, <2>2 DEF vars, shared, lists, counts, stats, drain, history, TypeOK
    <3>2. Control'
      BY <1>1, <2>2 DEF vars, shared, lists, counts, stats, drain, history, Control, ActorsAgree,
                        DrainAgrees, JoinAgrees
    <3>3. Lists'
      BY <1>1, <2>2, QuietLists DEF vars, shared
    <3>4. Counted'
      BY <1>1, <2>2, SameCount DEF vars, lists, history
    <3> QED
      BY <3>1, <3>2, <3>3, <3>4
  <2> QED
    BY <2>1, <2>2
<1>3. FreeNodeForSubmit'
  BY <1>2, AdmittedNext DEF Control, Lists
<1> QED
  BY <1>2, <1>3 DEF PoolCore, PoolInv, Control, Lists, Counted

\* PoolCore holds in every reachable state.
LEMMA PoolCoreInvariant == Spec => []PoolCore
BY PoolInit, PoolStep, PTL DEF Spec

\* In every pool, of any capacity, with any number of threads, callers and
\* callables: submit() finds a node whenever it admits, the ring is never over-
\* or underrun, every submission is counted once, one stop() drains and one
\* join() joins the threads (blocking_pool.cpp).
THEOREM PoolInvariant == Spec => []PoolInv
<1>1. PoolCore => PoolInv
  BY DEF PoolCore
<1> QED
  BY <1>1, PoolCoreInvariant, PTL

-----------------------------------------------------------------------------
(* join()                                                                    *)

\* A caller leaves the last wait of join() by that wait only.
LEMMA OnlySettle ==
    ASSUME TypeOK, Control, Next, NEW c \in Callers, pc[c] = "settle", pc'[c] # "settle"
    PROVE  Settle(c)
<1> USE DEF Goto, TypeOK
<1>1. ASSUME NEW d \in Callers, CallerStep(d), d # c
      PROVE  FALSE
  BY <1>1 DEF CallerStep, Publish, Drop, ReturnReservation, ReservationNotify, SubmitNotify, Elect,
              JoinThreads, Mark, Settle, Detach
<1>2. ASSUME CallerStep(c)
      PROVE  Settle(c)
  BY <1>2 DEF CallerStep, Publish, Drop, ReturnReservation, ReservationNotify, SubmitNotify, Elect,
              JoinThreads, Mark, Detach
<1>3. ASSUME NEW d \in Callers, Reserve(d) \/ CallJoin(d) \/ NestedJoin(d) \/ Destroy(d)
      PROVE  FALSE
  BY <1>3 DEF Reserve, CallJoin, NestedJoin, Destroy
<1>4. ASSUME NEW t \in Threads, ThreadStep(t)
      PROVE  FALSE
  BY <1>4 DEF ThreadStep, Take, Run, Retire
<1>5. ASSUME NEW a \in Actors, StopStep(a) \/ CallStop(a) \/ SpuriousWakeup(a)
      PROVE  FALSE
  BY <1>5 DEF StopStep, StopFirst, StopAgain, StopNotify, DrainPop, DrainDestroy, DrainEnd, DrainNotify,
              CallStop, SpuriousWakeup
<1> QED
  BY <1>1, <1>2, <1>3, <1>4, <1>5 DEF Next

\* Whoever else stops, drains, submits or joins at the same time, a join() that
\* returns outside a drain has waited for every thread, callable and node
\* (blocking_pool.cpp: join()).
THEOREM JoinQuiet == Spec => JoinLeavesQuiet
<1>1. ASSUME PoolCore, [Next]_vars, NEW c \in Callers, pc[c] = "settle", pc'[c] = "out"
      PROVE  /\ \A t \in Threads : pc'[t] = "exit"
             /\ \A n \in Nodes : task'[n] = None
             /\ free' = Nodes /\ drainer' = None
  <2>1. TypeOK /\ Control /\ Lists
    BY <1>1 DEF PoolCore, PoolInv, Control, Lists
  <2>2. Settle(c)
    BY <1>1, <2>1, OnlySettle DEF vars
  <2>3. /\ Settled(c) /\ ~nested[c] /\ pc' = [pc EXCEPT ![c] = "out"]
        /\ UNCHANGED <<task, free, drainer>>
    BY <1>1, <2>1, <2>2 DEF Settle, Goto, shared, lists, TypeOK
  <2>4. stopping /\ \A t \in Threads : pc[t] = "exit"
    BY <1>1, <2>1 DEF Control, JoinAgrees, InJoin
  <2>5. drainer = None
    BY <1>1, <2>1, <2>3 DEF Settled, Control, DrainAgrees
  <2>6. victim = None /\ ring = << >>
    BY <2>1, <2>4, <2>5 DEF Control, DrainAgrees, Lists, RingAgrees, TypeOK
  <2>7. Held(Callers) = {}
    <3>1. IsFiniteSet(Held(Callers)) /\ Cardinality(Held(Callers)) = 0
      BY <2>1, <2>3, HeldFinite DEF Settled, Lists, CountsAgree, TypeOK
    <3> QED
      BY <3>1, FS_EmptySet
  <2>8. \A a \in Actors : node[a] = None
    <3>1. \A d \in Callers : node[d] = None
      BY <2>7 DEF Held
    <3>2. \A t \in Threads : node[t] = None
      BY <2>1, <2>4 DEF Control, ActorsAgree
    <3> QED
      BY <3>1, <3>2
  <2>9. Elems(ring) = {}
    BY <2>6, ChainEmpty
  <2>10. free = Nodes
    <3>1. free \subseteq Nodes
      BY <2>1 DEF TypeOK
    <3>2. \A n \in Nodes : n \in free
      BY <2>1, <2>6, <2>8, <2>9 DEF Lists, NoNodeLost
    <3> QED
      BY <3>1, <3>2
  <2>11. \A n \in Nodes : task[n] = None
    BY <2>1, <2>6, <2>8, <2>9 DEF Lists, CallablesHeld
  <2>12. \A t \in Threads : pc'[t] = "exit"
    BY <2>1, <2>3, <2>4 DEF TypeOK
  <2> QED
    BY <2>3, <2>5, <2>10, <2>11, <2>12
<1> DEFINE A == \A c \in Callers : pc[c] = "settle" /\ pc'[c] = "out" =>
                   /\ \A t \in Threads : pc'[t] = "exit"
                   /\ \A n \in Nodes : task'[n] = None
                   /\ free' = Nodes /\ drainer' = None
<1>2. PoolCore /\ [Next]_vars => [A]_vars
  BY <1>1
<1>3. Spec => [][A]_vars
  <2> HIDE DEF A
  <2> QED
    BY <1>2, PoolCoreInvariant, PTL DEF Spec
<1> QED
  BY <1>3 DEF JoinLeavesQuiet
=============================================================================
