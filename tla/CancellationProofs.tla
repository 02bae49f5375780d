-------------------------- MODULE CancellationProofs --------------------------
(***************************************************************************)
(* How waits end early: the worker's timers and the stop tokens.           *)
(*                                                                         *)
(* For timers, HeapExact is inductive: every slot, heap entry, stale count *)
(* and removal in flight accounts for the others, for any timers, clock    *)
(* and number of slots.  For stop tokens, CallbackInv is inductive: what a *)
(* call in progress relies on is kept by every step of every other call,   *)
(* for any threads, states, registrations and calls from callbacks.  The   *)
(* two parts use nothing of each other.                                    *)
(***************************************************************************)
EXTENDS WorkerTimers, StopTokens, ChainLemmas

-----------------------------------------------------------------------------
(* Timers: the operators                                                    *)

\* A non-empty set of naturals has a least element.
LEMMA LeastNatural ==
    ASSUME NEW T \in SUBSET Nat, T # {}
    PROVE  \E k \in T : \A m \in T : k <= m
<1>1. PICK k \in T : \A m \in T : ~(<<m, k>> \in OpToRel(<, Nat))
  BY NatLessThanWellFounded, WFMin
<1>2. \A m \in T : ~(m < k)
  BY <1>1 DEF OpToRel
<1>3. \A m \in T : m \in Nat /\ k \in Nat
  OBVIOUS
<1>4. \A m \in T : k <= m
  BY <1>2, <1>3
<1> QED
  BY <1>4

\* Min() of a non-empty set of naturals is one of them.
LEMMA MinMember ==
    ASSUME NEW T \in SUBSET Nat, T # {}
    PROVE  Min(T) \in T /\ \A m \in T : Min(T) <= m
BY LeastNatural DEF Min

\* The entries of a heap have a first one, which is the heap's front.
LEMMA FrontIsFirst ==
    ASSUME NEW heap \in SUBSET Entries, heap # {},
           \A e, f \in heap : e.sequence = f.sequence => e = f
    PROVE  Front(heap) \in heap /\ \A f \in heap \ {Front(heap)} : Before(Front(heap), f)
<1> DEFINE D == {e.deadline : e \in heap}
<1>1. D \in SUBSET Nat /\ D # {}
  BY DEF Entries, Times
<1>2. PICK d \in D : \A m \in D : d <= m
  BY <1>1, LeastNatural
<1> DEFINE S == {e.sequence : e \in {f \in heap : f.deadline = d}}
<1>3. S \in SUBSET Nat /\ S # {}
  BY DEF Entries, Ids
<1>4. PICK s \in S : \A m \in S : s <= m
  BY <1>3, LeastNatural
<1>5. PICK e \in heap : e.deadline = d /\ e.sequence = s
  OBVIOUS
<1>6. \A f \in heap \ {e} : Before(e, f)
  <2> SUFFICES ASSUME NEW f \in heap, f # e PROVE Before(e, f)
    OBVIOUS
  <2>1. e.deadline \in Nat /\ f.deadline \in Nat /\ e.sequence \in Nat /\ f.sequence \in Nat
    BY DEF Entries, Times, Ids
  <2>2. d <= f.deadline
    BY <1>2
  <2>3. f.deadline = d => s <= f.sequence
    BY <1>4
  <2>4. f.sequence # e.sequence
    OBVIOUS
  <2> QED
    BY <2>1, <2>2, <2>3, <2>4, <1>5 DEF Before
<1> QED
  BY <1>6 DEF Front

\* So the front has the earliest deadline.
LEMMA FrontEarliest ==
    ASSUME NEW heap \in SUBSET Entries, heap # {},
           \A e, f \in heap : e.sequence = f.sequence => e = f
    PROVE  /\ Front(heap) \in heap
           /\ \A f \in heap : Front(heap).deadline <= f.deadline
           /\ \A f \in heap : f.deadline = Front(heap).deadline => Front(heap).sequence <= f.sequence
<1>1. Front(heap) \in heap /\ \A f \in heap \ {Front(heap)} : Before(Front(heap), f)
  BY FrontIsFirst
<1>2. \A f \in heap : f.deadline \in Nat /\ f.sequence \in Nat
  BY DEF Entries, Times, Ids
<1> QED
  BY <1>1, <1>2 DEF Before

\* A slot with another record in it.
LEMMA SlotUpdate ==
    ASSUME NEW sl \in Seq(Slots), NEW s \in 1..Len(sl), NEW v \in Slots
    PROVE  /\ [sl EXCEPT ![s] = v] \in Seq(Slots)
           /\ Len([sl EXCEPT ![s] = v]) = Len(sl)
           /\ \A z \in 1..Len(sl) : [sl EXCEPT ![s] = v][z] = IF z = s THEN v ELSE sl[z]
BY ExceptSeq

\* release_timer_slot() empties one slot.
LEMMA ReleasedSlot ==
    ASSUME NEW sl \in Seq(Slots), NEW s \in 1..Len(sl)
    PROVE  /\ Released(sl, s) \in Seq(Slots) /\ Len(Released(sl, s)) = Len(sl)
           /\ \A z \in 1..Len(sl) : z # s => Released(sl, s)[z] = sl[z]
           /\ Released(sl, s)[s].generation = sl[s].generation
           /\ Released(sl, s)[s].active = 0
           /\ Released(sl, s)[s].occupied = FALSE
           /\ Released(sl, s)[s].cancelRequested = FALSE
           /\ Released(sl, s)[s].completion = None
<1> DEFINE v == [sl[s] EXCEPT !.occupied = FALSE, !.cancelRequested = FALSE, !.completion = None,
                              !.active = 0]
<1>1. sl[s] \in Slots /\ 0 \in Generations
  BY TimersAssumption DEF Generations
<1>2. v \in Slots
  BY <1>1 DEF Slots
<1>3. Released(sl, s) = [sl EXCEPT ![s] = v]
  BY DEF Released
<1>4. v.generation = sl[s].generation /\ v.active = 0 /\ v.occupied = FALSE
      /\ v.cancelRequested = FALSE /\ v.completion = None
  BY <1>1 DEF Slots
<1> HIDE DEF v
<1> QED
  BY <1>2, <1>3, <1>4, SlotUpdate

\* The entries of a finite heap that are dropped without a live one are dead:
\* the count of dead entries goes down by as many.
LEMMA ShrinkExact ==
    ASSUME NEW sl, NEW H, IsFiniteSet(H), NEW K \in SUBSET H,
           \A e \in H : HasLiveEntry(sl, e) => e \in K
    PROVE  /\ IsFiniteSet(K) /\ Cardinality(K) \in Nat /\ Cardinality(H) \in Nat
           /\ Cardinality(Dead(sl, H)) \in Nat /\ Cardinality(Dead(sl, K)) \in Nat
           /\ Cardinality(K) <= Cardinality(H)
           /\ Cardinality(Dead(sl, K)) = Cardinality(Dead(sl, H)) - (Cardinality(H) - Cardinality(K))
<1>1. IsFiniteSet(K) /\ IsFiniteSet(H \ K) /\ IsFiniteSet(Dead(sl, H)) /\ IsFiniteSet(Dead(sl, K))
  BY FS_Subset DEF Dead
<1>2. H = K \cup (H \ K) /\ K \cap (H \ K) = {}
  OBVIOUS
<1>3. Dead(sl, H) = Dead(sl, K) \cup (H \ K) /\ Dead(sl, K) \cap (H \ K) = {}
  BY DEF Dead
<1>4. Cardinality(H) = Cardinality(K) + Cardinality(H \ K)
  BY <1>1, <1>2, DisjointCardinality
<1>5. Cardinality(Dead(sl, H)) = Cardinality(Dead(sl, K)) + Cardinality(H \ K)
  BY <1>1, <1>3, DisjointCardinality
<1>6. /\ Cardinality(K) \in Nat /\ Cardinality(H) \in Nat /\ Cardinality(H \ K) \in Nat
      /\ Cardinality(Dead(sl, H)) \in Nat /\ Cardinality(Dead(sl, K)) \in Nat
  BY <1>1, FS_CardinalityType
<1> QED
  BY <1>1, <1>4, <1>5, <1>6

\* A heap all of whose entries are dead has no live one.
LEMMA AllDead ==
    ASSUME NEW sl, NEW H, IsFiniteSet(H), Cardinality(Dead(sl, H)) = Cardinality(H)
    PROVE  \A e \in H : ~HasLiveEntry(sl, e)
<1>1. Dead(sl, H) \in SUBSET H
  BY DEF Dead
<1>2. Dead(sl, H) = H
  BY <1>1, FS_Subset
<1> QED
  BY <1>2 DEF Dead

\* Popping stale entries off the front keeps the live ones.
LEMMA FromFirstLiveKeeps ==
    ASSUME NEW sl, NEW H
    PROVE  /\ FromFirstLive(sl, H) \subseteq H
           /\ \A e \in H : HasLiveEntry(sl, e) => e \in FromFirstLive(sl, H)
BY DEF FromFirstLive

\* The count of dead entries is exact.
Exact(sl, Q) == Q \in Queues /\ IsFiniteSet(Q.heap) /\ Q.stale = Cardinality(Dead(sl, Q.heap))

\* Only dead entries went.
Keeps(sl, Q, R) ==
    R.heap \subseteq Q.heap /\ \A e \in Q.heap : HasLiveEntry(sl, e) => e \in R.heap

\* The wait is as it was, or went with the last entry.
SameWait(Q, R) ==
    \/ R.armed = Q.armed /\ R.wait = Q.wait /\ R.deadline = Q.deadline
    \/ R.armed = FALSE /\ R.wait = None /\ R.heap = {}

\* What clearing the queue leaves.
LEMMA DrainedQueue ==
    ASSUME NEW Q \in Queues
    PROVE  /\ Drained(Q) \in Queues /\ Drained(Q).heap = {} /\ Drained(Q).stale = 0
           /\ Drained(Q).armed = FALSE /\ Drained(Q).wait = None
           /\ Disarmed(Q) \in Queues /\ Disarmed(Q).heap = Q.heap /\ Disarmed(Q).stale = Q.stale
           /\ Disarmed(Q).armed = FALSE /\ Disarmed(Q).wait = None
<1>1. 0 \in Times
  BY TimersAssumption DEF Times
<1> QED
  BY <1>1 DEF Drained, Disarmed, Queues

\* note_stale_timer() keeps the count exact and drops no live entry.
LEMMA NoteStaleExact ==
    ASSUME NEW sl, NEW Q \in Queues, IsFiniteSet(Q.heap),
           Q.stale + 1 = Cardinality(Dead(sl, Q.heap))
    PROVE  /\ Exact(sl, NoteStale(sl, Q)) /\ Keeps(sl, Q, NoteStale(sl, Q))
           /\ SameWait(Q, NoteStale(sl, Q))
<1> DEFINE n == Q.stale + 1
           heap == FromFirstLive(sl, Q.heap)
           stale == n - (Cardinality(Q.heap) - Cardinality(heap))
           live == {e \in heap : HasLiveEntry(sl, e)}
<1>1. /\ heap \subseteq Q.heap /\ \A e \in Q.heap : HasLiveEntry(sl, e) => e \in heap
  BY FromFirstLiveKeeps
<1>2. /\ IsFiniteSet(heap) /\ Cardinality(heap) \in Nat /\ Cardinality(Q.heap) \in Nat
      /\ Cardinality(Dead(sl, heap)) \in Nat /\ stale = Cardinality(Dead(sl, heap))
  BY <1>1, ShrinkExact
<1>3. Q.stale \in Nat /\ Q.heap \in SUBSET Entries /\ heap \in SUBSET Entries
  BY <1>1 DEF Queues
<1>4. CASE n = Cardinality(Q.heap)
  <2>1. NoteStale(sl, Q) = Drained(Q)
    BY <1>4 DEF NoteStale
  <2>2. \A e \in Q.heap : ~HasLiveEntry(sl, e)
    BY <1>4, AllDead
  <2>3. Dead(sl, {}) = {} /\ Cardinality({}) = 0 /\ IsFiniteSet({})
    BY FS_EmptySet DEF Dead
  <2> QED
    BY <2>1, <2>2, <2>3, DrainedQueue DEF Exact, Keeps, SameWait
<1>5. CASE n # Cardinality(Q.heap) /\ stale >= CompactAt /\ stale * 2 >= Cardinality(heap)
  <2>1. NoteStale(sl, Q) = [Q EXCEPT !.heap = live, !.stale = 0]
    BY <1>5 DEF NoteStale
  <2>2. live \in SUBSET Entries /\ IsFiniteSet(live)
    BY <1>2, <1>3, FS_Subset
  <2>3. Dead(sl, live) = {} /\ Cardinality({}) = 0
    BY FS_EmptySet DEF Dead
  <2>4. \A e \in Q.heap : HasLiveEntry(sl, e) => e \in live
    BY <1>1
  <2>5. live \subseteq Q.heap
    BY <1>1
  <2> HIDE DEF live
  <2>6. /\ NoteStale(sl, Q) \in Queues /\ NoteStale(sl, Q).heap = live /\ NoteStale(sl, Q).stale = 0
        /\ NoteStale(sl, Q).armed = Q.armed /\ NoteStale(sl, Q).wait = Q.wait
        /\ NoteStale(sl, Q).deadline = Q.deadline
    <3>1. PICK k \in Nat : k = 0
      OBVIOUS
    <3>2. NoteStale(sl, Q) = [Q EXCEPT !.heap = live, !.stale = k]
      BY <2>1, <3>1
    <3> QED
      BY <2>2, <3>1, <3>2 DEF Queues
  <2> QED
    BY <2>2, <2>3, <2>4, <2>5, <2>6 DEF Exact, Keeps, SameWait
<1>6. CASE n # Cardinality(Q.heap) /\ ~(stale >= CompactAt /\ stale * 2 >= Cardinality(heap))
  <2>1. NoteStale(sl, Q) = [Q EXCEPT !.heap = heap, !.stale = stale]
    BY <1>6 DEF NoteStale
  <2>2. stale \in Nat
    BY <1>2
  <2> HIDE DEF stale, heap
  <2>3. /\ NoteStale(sl, Q) \in Queues /\ NoteStale(sl, Q).heap = heap
        /\ NoteStale(sl, Q).stale = stale
        /\ NoteStale(sl, Q).armed = Q.armed /\ NoteStale(sl, Q).wait = Q.wait
        /\ NoteStale(sl, Q).deadline = Q.deadline
    BY <2>1, <2>2, <1>3 DEF Queues
  <2> QED
    BY <2>3, <1>1, <1>2 DEF Exact, Keeps, SameWait
<1> QED
  BY <1>4, <1>5, <1>6

\* arm_timer() up to async_wait(): the same.
LEMMA PopStaleExact ==
    ASSUME NEW sl, NEW Q, Exact(sl, Q)
    PROVE  /\ Exact(sl, PopStale(sl, Q)) /\ Keeps(sl, Q, PopStale(sl, Q))
           /\ PopStale(sl, Q).armed = FALSE /\ PopStale(sl, Q).wait = None
<1> DEFINE heap == FromFirstLive(sl, Q.heap)
           popped == Cardinality(Q.heap) - Cardinality(heap)
<1>1. /\ heap \subseteq Q.heap /\ \A e \in Q.heap : HasLiveEntry(sl, e) => e \in heap
  BY FromFirstLiveKeeps
<1>2. /\ IsFiniteSet(heap) /\ Cardinality(heap) \in Nat /\ Cardinality(Q.heap) \in Nat
      /\ Cardinality(Dead(sl, heap)) \in Nat /\ Cardinality(heap) <= Cardinality(Q.heap)
      /\ Cardinality(Dead(sl, heap)) = Q.stale - popped
  BY <1>1, ShrinkExact DEF Exact
<1>3. Q.stale \in Nat /\ Q.heap \in SUBSET Entries /\ heap \in SUBSET Entries /\ Q \in Queues
  BY <1>1 DEF Exact, Queues
<1>4. popped \in Nat /\ ~(popped > Q.stale) /\ Q.stale - popped \in Nat
  BY <1>2, <1>3
<1>5. /\ Disarmed(Q) \in Queues /\ Disarmed(Q).heap = Q.heap /\ Disarmed(Q).stale = Q.stale
      /\ Disarmed(Q).armed = FALSE /\ Disarmed(Q).wait = None
  BY <1>3, DrainedQueue
<1>6. PopStale(sl, Q) = [Disarmed(Q) EXCEPT !.heap = heap, !.stale = Q.stale - popped]
  BY <1>4, <1>5 DEF PopStale
<1> HIDE DEF heap, popped
<1>7. /\ PopStale(sl, Q) \in Queues /\ PopStale(sl, Q).heap = heap
      /\ PopStale(sl, Q).stale = Q.stale - popped
      /\ PopStale(sl, Q).armed = FALSE /\ PopStale(sl, Q).wait = None
  BY <1>3, <1>4, <1>5, <1>6 DEF Queues
<1> QED
  BY <1>1, <1>2, <1>7 DEF Exact, Keeps

\* An empty queue has nothing to count.
LEMMA NoteStaleEmpty ==
    ASSUME NEW sl, NEW Q \in Queues, Q.heap = {}
    PROVE  /\ NoteStale(sl, Q) \in Queues /\ NoteStale(sl, Q).heap = {}
           /\ SameWait(Q, NoteStale(sl, Q))
<1>1. FromFirstLive(sl, Q.heap) = {} /\ {e \in {} : HasLiveEntry(sl, e)} = {} /\ Cardinality({}) = 0
  BY FS_EmptySet DEF FromFirstLive
<1>2. Q.stale \in Nat /\ (Q.stale + 1) - (0 - 0) = Q.stale + 1
  BY DEF Queues
<1>3. NoteStale(sl, Q) \in {Drained(Q), [Q EXCEPT !.heap = {}, !.stale = 0],
                            [Q EXCEPT !.heap = {}, !.stale = Q.stale + 1]}
  BY <1>1, <1>2 DEF NoteStale
<1>4. ASSUME NEW k \in Nat, NoteStale(sl, Q) = [Q EXCEPT !.heap = {}, !.stale = k]
      PROVE  /\ NoteStale(sl, Q) \in Queues /\ NoteStale(sl, Q).heap = {}
             /\ SameWait(Q, NoteStale(sl, Q))
  <2>1. PICK H \in SUBSET Entries : H = {}
    OBVIOUS
  <2>2. NoteStale(sl, Q) = [Q EXCEPT !.heap = H, !.stale = k]
    BY <1>4, <2>1
  <2>3. /\ NoteStale(sl, Q) \in Queues /\ NoteStale(sl, Q).heap = H
        /\ NoteStale(sl, Q).armed = Q.armed /\ NoteStale(sl, Q).wait = Q.wait
        /\ NoteStale(sl, Q).deadline = Q.deadline
    BY <2>2 DEF Queues
  <2> QED
    BY <2>1, <2>3 DEF SameWait
<1>5. 0 \in Nat /\ Q.stale + 1 \in Nat
  BY <1>2
<1>6. CASE NoteStale(sl, Q) = Drained(Q)
  BY <1>6, DrainedQueue DEF SameWait
<1> QED
  BY <1>3, <1>4, <1>5, <1>6

\* arm_timer(): the count stays exact, no live entry is dropped, and unless
\* async_wait() throws the wait is for the earliest entry.
LEMMA ArmExact ==
    ASSUME NEW sl, NEW Q, Exact(sl, Q), ~stopping, NEW a \in Arm(sl, Q),
           \A e, f \in Q.heap : e.sequence = f.sequence => e = f
    PROVE  /\ Exact(sl, a.queue) /\ Keeps(sl, Q, a.queue)
           /\ a.throws \in BOOLEAN
           /\ a.queue.armed <=> a.queue.wait # None
           /\ a.queue.armed => a.queue.wait = a.queue.deadline
           /\ ~a.throws => \A e \in a.queue.heap : a.queue.armed /\ a.queue.wait <= e.deadline
           /\ a.throws => a.queue = PopStale(sl, Q)
<1> DEFINE P == PopStale(sl, Q)
           d == Front(P.heap).deadline
<1>1. Exact(sl, P) /\ Keeps(sl, Q, P) /\ P.armed = FALSE /\ P.wait = None
  BY PopStaleExact
<1> HIDE DEF P
<1>2. CASE P.heap = {}
  <2>1. a = [queue |-> P, throws |-> FALSE]
    BY <1>2 DEF Arm, P
  <2>2. a.queue = P /\ a.throws = FALSE
    BY <2>1
  <2> QED
    BY <1>1, <1>2, <2>2
<1>3. CASE P.heap # {}
  <2>1. P.heap \in SUBSET Entries /\ P \in Queues
    BY <1>1 DEF Exact, Queues
  <2>2. \A e, f \in P.heap : e.sequence = f.sequence => e = f
    BY <1>1 DEF Keeps
  <2>3. Front(P.heap) \in P.heap /\ \A f \in P.heap : d <= f.deadline
    BY <1>3, <2>1, <2>2, FrontEarliest
  <2>4. d \in Times /\ d # None
    BY <2>1, <2>3, TimersAssumption DEF Entries, Times
  <2>5. \/ a = [queue |-> [P EXCEPT !.armed = TRUE, !.deadline = d, !.wait = d], throws |-> FALSE]
        \/ a = [queue |-> P, throws |-> TRUE]
    BY <1>3 DEF Arm, P
  <2>6. CASE a = [queue |-> P, throws |-> TRUE]
    <3>1. a.queue = P /\ a.throws = TRUE
      BY <2>6
    <3> QED
      BY <3>1, <1>1 DEF P
  <2>7. CASE a = [queue |-> [P EXCEPT !.armed = TRUE, !.deadline = d, !.wait = d], throws |-> FALSE]
    <3> HIDE DEF d
    <3>1. a.queue = [P EXCEPT !.armed = TRUE, !.deadline = d, !.wait = d] /\ a.throws = FALSE
      BY <2>7
    <3>2. /\ a.queue \in Queues /\ a.queue.heap = P.heap /\ a.queue.stale = P.stale
          /\ a.queue.armed = TRUE /\ a.queue.wait = d /\ a.queue.deadline = d
      BY <2>1, <2>4, <3>1 DEF Queues
    <3> QED
      BY <3>1, <3>2, <1>1, <2>3, <2>4 DEF Exact, Keeps
  <2> QED
    BY <2>5, <2>6, <2>7
<1> QED
  BY <1>2, <1>3

\* A stopping queue is only disarmed.
LEMMA ArmStopping ==
    ASSUME NEW sl, NEW Q \in Queues, stopping, NEW a \in Arm(sl, Q)
    PROVE  a.queue = Disarmed(Q) /\ a.throws = FALSE
<1>1. a = [queue |-> Disarmed(Q), throws |-> FALSE]
  BY DEF Arm
<1> QED
  BY <1>1

\* The slot schedule_timer() takes is new, or it is free.
LEMMA FreeSlotIsFree ==
    ASSUME TypeOK, LiveTimerInHeap, SlotsExact, ~stopping
    PROVE  /\ Len(slots) \in Nat
           /\ free = << >> => FreeSlot = Len(slots) + 1
           /\ free # << >> => /\ FreeSlot \in 1..Len(slots)
                              /\ slots[FreeSlot].occupied = FALSE
                              /\ slots[FreeSlot].active = 0
                              /\ slots[FreeSlot].cancelRequested = FALSE
<1>1. slots \in Seq(Slots) /\ free \in Seq(1..Len(slots)) /\ Len(slots) \in Nat
  BY DEF TypeOK
<1>2. CASE free = << >>
  BY <1>1, <1>2 DEF FreeSlot
<1>3. CASE free # << >>
  <2>1. FreeSlot = free[1] /\ 1 \in 1..Len(free)
    BY <1>1, <1>3 DEF FreeSlot
  <2>2. FreeSlot \in 1..Len(slots)
    BY <1>1, <2>1
  <2>3. slots[FreeSlot] \in Slots
    BY <1>1, <2>2
  <2>4. slots[FreeSlot].occupied = FALSE
    BY <2>1, <2>2, <2>3 DEF LiveTimerInHeap, Slots
  <2> QED
    BY <1>1, <1>3, <2>2, <2>3, <2>4 DEF SlotsExact, Slots
<1> QED
  BY <1>2, <1>3

\* The slots with one reserved: a generation later than any it had, and empty.
LEMMA ReservedSlot ==
    ASSUME TypeOK, LiveTimerInHeap, SlotsExact, ~stopping, sequence < MaxSchedules
    PROVE  /\ Reserved \in Seq(Slots) /\ FreeSlot \in 1..Len(Reserved) /\ FreeSlot \in Nat
           /\ Len(slots) \in Nat /\ Len(Reserved) \in Nat /\ Len(slots) <= Len(Reserved)
           /\ \A z \in 1..Len(Reserved) : z # FreeSlot => z \in 1..Len(slots) /\ Reserved[z] = slots[z]
           /\ Reserved[FreeSlot].generation \in 1..(sequence + 1)
           /\ Reserved[FreeSlot].generation \in Generations
           /\ FreeSlot \in 1..Len(slots) => /\ slots[FreeSlot].generation < Reserved[FreeSlot].generation
                                            /\ slots[FreeSlot].occupied = FALSE
           /\ Reserved[FreeSlot].active = 0 /\ Reserved[FreeSlot].occupied = FALSE
           /\ Reserved[FreeSlot].cancelRequested = FALSE
<1> DEFINE blank == [generation |-> 0, active |-> 0, occupied |-> FALSE, cancelRequested |-> FALSE,
                     completion |-> None]
           grown == IF free = << >> THEN Append(slots, blank) ELSE slots
           v == [grown[FreeSlot] EXCEPT !.generation = grown[FreeSlot].generation + 1]
<1>1. slots \in Seq(Slots) /\ Len(slots) \in Nat /\ sequence \in 0..MaxSchedules /\ MaxSchedules \in Nat
  BY TimersAssumption DEF TypeOK
<1>2. /\ free = << >> => FreeSlot = Len(slots) + 1
      /\ free # << >> => /\ FreeSlot \in 1..Len(slots)
                         /\ slots[FreeSlot].occupied = FALSE
                         /\ slots[FreeSlot].active = 0
                         /\ slots[FreeSlot].cancelRequested = FALSE
  BY FreeSlotIsFree
<1>3. blank \in Slots
  <2>1. 0 \in Generations
    BY <1>1 DEF Generations
  <2> QED
    BY <2>1 DEF Slots
<1>4. Reserved = [grown EXCEPT ![FreeSlot] = v]
  BY DEF Reserved
<1>5. /\ grown \in Seq(Slots) /\ FreeSlot \in 1..Len(grown) /\ Len(slots) <= Len(grown)
      /\ Len(grown) \in Nat /\ FreeSlot \in Nat
      /\ \A z \in 1..Len(grown) : z # FreeSlot => z \in 1..Len(slots) /\ grown[z] = slots[z]
      /\ FreeSlot \in 1..Len(slots) => grown[FreeSlot] = slots[FreeSlot] /\ free # << >>
      /\ FreeSlot \notin 1..Len(slots) => grown[FreeSlot] = blank
  <2> HIDE DEF blank
  <2>1. CASE free = << >>
    BY <1>1, <1>2, <1>3, <2>1
  <2>2. CASE free # << >>
    BY <1>1, <1>2, <2>2
  <2> QED
    BY <2>1, <2>2
<1>6. /\ blank.generation = 0 /\ blank.active = 0 /\ blank.occupied = FALSE
      /\ blank.cancelRequested = FALSE
  OBVIOUS
<1> HIDE DEF blank, grown
<1>7. /\ grown[FreeSlot] \in Slots /\ grown[FreeSlot].active = 0 /\ grown[FreeSlot].occupied = FALSE
      /\ grown[FreeSlot].cancelRequested = FALSE
      /\ grown[FreeSlot].generation \in 0..sequence
      /\ FreeSlot \in 1..Len(slots) => grown[FreeSlot].generation = slots[FreeSlot].generation
  <2>1. grown[FreeSlot] \in Slots
    BY <1>5
  <2>2. grown[FreeSlot].generation \in Nat
    BY <2>1 DEF Slots, Generations
  <2>3. CASE FreeSlot \in 1..Len(slots)
    BY <1>1, <1>2, <1>5, <2>1, <2>2, <2>3 DEF SlotsExact
  <2>4. CASE FreeSlot \notin 1..Len(slots)
    BY <1>1, <1>5, <1>6, <2>1, <2>4
  <2> QED
    BY <2>3, <2>4
<1>8. grown[FreeSlot].generation + 1 \in 1..(sequence + 1) /\ grown[FreeSlot].generation + 1 \in Generations
  BY <1>1, <1>7 DEF Generations
<1>9. /\ v \in Slots /\ v.generation = grown[FreeSlot].generation + 1 /\ v.active = 0
      /\ v.occupied = FALSE /\ v.cancelRequested = FALSE
  BY <1>7, <1>8 DEF Slots
<1> HIDE DEF v
<1>10. /\ Reserved \in Seq(Slots) /\ Len(Reserved) = Len(grown) /\ Reserved[FreeSlot] = v
       /\ \A z \in 1..Len(grown) : z # FreeSlot => Reserved[z] = grown[z]
  BY <1>4, <1>5, <1>9, SlotUpdate
<1>11. FreeSlot \in 1..Len(slots) => slots[FreeSlot].generation < grown[FreeSlot].generation + 1
  BY <1>7
<1> QED
  BY <1>1, <1>2, <1>5, <1>8, <1>9, <1>10, <1>11

\* The slots with the new timer in them.
LEMMA FilledSlot ==
    ASSUME TypeOK, LiveTimerInHeap, SlotsExact, ~stopping, sequence < MaxSchedules
    PROVE  /\ Filled \in Seq(Slots) /\ Len(Filled) = Len(Reserved)
           /\ \A z \in 1..Len(Reserved) : z # FreeSlot => Filled[z] = Reserved[z]
           /\ Filled[FreeSlot].generation = Reserved[FreeSlot].generation
           /\ Filled[FreeSlot].active = Reserved[FreeSlot].generation
           /\ Filled[FreeSlot].occupied = TRUE
           /\ Filled[FreeSlot].cancelRequested = FALSE
           /\ Filled[FreeSlot].completion = sequence
<1> DEFINE G == Reserved[FreeSlot].generation
           v == [Reserved[FreeSlot] EXCEPT !.occupied = TRUE, !.completion = sequence, !.active = G]
<1>1. /\ Reserved \in Seq(Slots) /\ FreeSlot \in 1..Len(Reserved) /\ G \in Generations
      /\ Reserved[FreeSlot].cancelRequested = FALSE
  BY ReservedSlot
<1>2. Reserved[FreeSlot] \in Slots
  BY <1>1
<1>3. sequence \in Ids \cup {None}
  BY TimersAssumption DEF TypeOK, Ids
<1>4. Filled = [Reserved EXCEPT ![FreeSlot] = v]
  BY DEF Filled
<1>5. /\ v \in Slots /\ v.generation = G /\ v.active = G /\ v.occupied = TRUE
      /\ v.cancelRequested = FALSE /\ v.completion = sequence
  <2> HIDE DEF G
  <2>1. PICK r \in Slots : r = Reserved[FreeSlot]
    BY <1>2
  <2>2. r.generation = G
    BY <2>1 DEF G
  <2>3. v = [r EXCEPT !.occupied = TRUE, !.completion = sequence, !.active = G]
    BY <2>1
  <2> QED
    BY <1>1, <1>3, <2>1, <2>2, <2>3 DEF Slots
<1> HIDE DEF v, G
<1> QED
  BY <1>1, <1>4, <1>5, SlotUpdate DEF G

-----------------------------------------------------------------------------
(* Timers: what a step does to the heap                                     *)

\* One live entry dies.
LEMMA OneMoreDead ==
    ASSUME NEW sl, NEW ss, NEW H, IsFiniteSet(H), NEW e \in H,
           HasLiveEntry(sl, e), ~HasLiveEntry(ss, e),
           \A f \in H : f # e => (HasLiveEntry(sl, f) <=> HasLiveEntry(ss, f))
    PROVE  Cardinality(Dead(ss, H)) = Cardinality(Dead(sl, H)) + 1
<1>1. Dead(ss, H) = Dead(sl, H) \cup {e} /\ e \notin Dead(sl, H)
  BY DEF Dead
<1>2. IsFiniteSet(Dead(sl, H))
  BY FS_Subset DEF Dead
<1> QED
  BY <1>1, <1>2, FS_AddElement

\* Entries that live and die in both live and die together.
LEMMA SameDead ==
    ASSUME NEW sl, NEW ss, NEW H,
           \A f \in H : HasLiveEntry(sl, f) <=> HasLiveEntry(ss, f)
    PROVE  Dead(ss, H) = Dead(sl, H)
BY DEF Dead

\* ss differs from the slots in slot s, where no timer is live.
EndsIn(ss, s) ==
    /\ ss \in Seq(Slots) /\ Len(ss) = Len(slots)
    /\ \A z \in 1..Len(slots) : z # s => ss[z] = slots[z]
    /\ ss[s].generation = slots[s].generation
    /\ ss[s].occupied => ss[s].cancelRequested

\* A timer that ends was counted as dead, has expired, or is one more to count.
LEMMA EndCounted ==
    ASSUME HeapExact, ~stopping, NEW s \in 1..Len(slots), slots[s].occupied, NEW ss, EndsIn(ss, s)
    PROVE  /\ slots[s].cancelRequested \/ Expiring(s) => q.stale = Cardinality(Dead(ss, q.heap))
           /\ ~slots[s].cancelRequested /\ ~Expiring(s) => q.stale + 1 = Cardinality(Dead(ss, q.heap))
<1>1. /\ IsFiniteSet(q.heap) /\ q.stale = Cardinality(Dead(slots, q.heap))
      /\ slots \in Seq(Slots) /\ Len(slots) \in Nat
  BY DEF HeapExact, TypeOK, StaleCountExact
<1>2. ASSUME NEW e \in q.heap, e.slot # s
      PROVE  HasLiveEntry(slots, e) <=> HasLiveEntry(ss, e)
  BY <1>2 DEF HasLiveEntry, HasOccupied, EndsIn
<1>3. ASSUME NEW e \in q.heap, e.slot = s
      PROVE  ~HasLiveEntry(ss, e)
  BY <1>3 DEF HasLiveEntry, HasOccupied, EndsIn
<1>4. CASE slots[s].cancelRequested \/ Expiring(s)
  <2>1. ASSUME NEW e \in q.heap, e.slot = s
        PROVE  ~HasLiveEntry(slots, e)
    BY <1>4, <2>1 DEF HeapExact, EntriesExact, HasLiveEntry, HasOccupied
  <2>2. Dead(ss, q.heap) = Dead(slots, q.heap)
    BY <1>2, <1>3, <2>1, SameDead
  <2> QED
    BY <1>1, <1>4, <2>2
<1>5. CASE ~slots[s].cancelRequested /\ ~Expiring(s)
  <2>1. PICK e \in q.heap : e.slot = s /\ e.generation = slots[s].generation
    BY <1>5 DEF HeapExact, LiveTimerInHeap
  <2>2. HasLiveEntry(slots, e)
    BY <1>5, <2>1 DEF HeapExact, SlotsExact, HasLiveEntry, HasOccupied
  <2>3. ASSUME NEW f \in q.heap, f # e
        PROVE  HasLiveEntry(slots, f) <=> HasLiveEntry(ss, f)
    <3>1. CASE f.slot = s
      <4>1. f.generation # slots[s].generation
        BY <2>1, <2>3, <3>1 DEF HeapExact, EntriesExact
      <4> QED
        BY <4>1, <3>1, <1>3 DEF HasLiveEntry, HasOccupied
    <3> QED
      BY <3>1, <1>2
  <2>4. Cardinality(Dead(ss, q.heap)) = Cardinality(Dead(slots, q.heap)) + 1
    BY <1>1, <1>3, <2>1, <2>2, <2>3, OneMoreDead
  <2> QED
    BY <1>1, <1>5, <2>4
<1> QED
  BY <1>4, <1>5

\* A step that keeps the generations and drops only dead entries.
HeapStep ==
    /\ slots' \in Seq(Slots) /\ Len(slots') = Len(slots)
    /\ \A s \in 1..Len(slots) : slots'[s].generation = slots[s].generation
    /\ \A e \in q.heap : HasLiveEntry(slots', e) => HasLiveEntry(slots, e)
    /\ q' \in Queues /\ IsFiniteSet(q'.heap)
    /\ ~stopping => q'.stale = Cardinality(Dead(slots', q'.heap))
    /\ Keeps(slots', q, q') /\ SameWait(q, q')
    /\ sequence' = sequence /\ round' = round /\ stopping' = stopping
    /\ \A s \in 1..Len(slots) : Expiring(s)' => Expiring(s)

\* Such a step keeps what the invariant says of the heap.
LEMMA HeapStepKeeps ==
    ASSUME HeapExact, HeapStep
    PROVE  StaleCountExact' /\ EntriesExact' /\ ArmedCoversHeap' /\ BehindRound'
<1>1. q'.heap \subseteq q.heap
  BY DEF HeapStep, Keeps
<1>2. StaleCountExact'
  BY DEF HeapStep, StaleCountExact
<1>3. EntriesExact'
  <2>1. stopping' => q'.heap = {}
    BY <1>1 DEF HeapStep, HeapExact, EntriesExact
  <2>2. ASSUME NEW e \in q'.heap
        PROVE  /\ e.sequence < sequence' /\ e.slot \in 1..Len(slots')
               /\ e.generation \in 1..slots'[e.slot].generation
               /\ Expiring(e.slot)' => e.generation # slots'[e.slot].generation
    <3>1. e \in q.heap /\ e.slot \in 1..Len(slots)
      BY <1>1 DEF HeapExact, EntriesExact
    <3>2. slots'[e.slot].generation = slots[e.slot].generation
      BY <3>1 DEF HeapStep
    <3>3. Expiring(e.slot)' => Expiring(e.slot)
      BY <3>1 DEF HeapStep
    <3>4. sequence' = sequence /\ Len(slots') = Len(slots)
      BY DEF HeapStep
    <3> QED
      BY <3>1, <3>2, <3>3, <3>4 DEF HeapExact, EntriesExact
  <2>3. \A e, f \in q'.heap :
          e.sequence = f.sequence \/ (e.slot = f.slot /\ e.generation = f.generation) => e = f
    BY <1>1 DEF HeapExact, EntriesExact
  <2> QED
    BY <2>1, <2>2, <2>3 DEF EntriesExact
<1>4. ArmedCoversHeap'
  <2>1. round' = round /\ stopping' = stopping
    BY DEF HeapStep
  <2>2. \A e \in q'.heap : HasLiveEntry(slots', e) => e \in q.heap /\ HasLiveEntry(slots, e)
    BY <1>1 DEF HeapStep
  <2>3. CASE q'.armed = q.armed /\ q'.wait = q.wait /\ q'.deadline = q.deadline
    BY <2>1, <2>2, <2>3 DEF HeapExact, ArmedCoversHeap
  <2>4. CASE q'.armed = FALSE /\ q'.wait = None /\ q'.heap = {}
    BY <2>1, <2>4 DEF ArmedCoversHeap
  <2> QED
    BY <2>3, <2>4 DEF HeapStep, SameWait
<1>5. BehindRound'
  BY <1>1 DEF HeapStep, HeapExact, BehindRound
<1> QED
  BY <1>2, <1>3, <1>4, <1>5

\* A step that leaves the heap and the slots alone is one.
LEMMA QuietHeap ==
    ASSUME HeapExact, q' = q, slots' = slots, sequence' = sequence, round' = round,
           stopping' = stopping, \A s \in 1..Len(slots) : Expiring(s)' => Expiring(s)
    PROVE  HeapStep
<1>1. q \in Queues /\ IsFiniteSet(q.heap) /\ slots \in Seq(Slots)
      /\ (~stopping => q.stale = Cardinality(Dead(slots, q.heap)))
  BY DEF HeapExact, TypeOK, StaleCountExact
<1> QED
  BY <1>1 DEF HeapStep, Keeps, SameWait

\* A timer ends, and its entry is counted when it was not yet.
LEMMA EndHeap ==
    ASSUME HeapExact, NEW s \in 1..Len(slots), slots[s].occupied, EndsIn(slots', s),
           NEW C \in BOOLEAN, q' = IF C THEN NoteStale(slots', q) ELSE q,
           ~stopping => (C <=> ~slots[s].cancelRequested /\ ~Expiring(s)),
           sequence' = sequence, round' = round, stopping' = stopping,
           \A z \in 1..Len(slots) : Expiring(z)' => Expiring(z)
    PROVE  HeapStep
<1>1. q \in Queues /\ IsFiniteSet(q.heap) /\ slots \in Seq(Slots)
  BY DEF HeapExact, TypeOK
<1>2. /\ slots' \in Seq(Slots) /\ Len(slots') = Len(slots)
      /\ \A z \in 1..Len(slots) : slots'[z].generation = slots[z].generation
  BY DEF EndsIn
<1>3. \A e \in q.heap : HasLiveEntry(slots', e) => HasLiveEntry(slots, e)
  BY DEF EndsIn, HasLiveEntry, HasOccupied
<1>4. CASE stopping
  <2>1. q.heap = {}
    BY <1>4 DEF HeapExact, EntriesExact
  <2>2. q' \in Queues /\ q'.heap = {} /\ SameWait(q, q')
    BY <1>1, <2>1, NoteStaleEmpty DEF SameWait
  <2>3. IsFiniteSet({})
    BY FS_EmptySet
  <2> QED
    BY <1>2, <1>3, <1>4, <2>1, <2>2, <2>3 DEF HeapStep, Keeps
<1>5. CASE ~stopping /\ C
  <2>1. q.stale + 1 = Cardinality(Dead(slots', q.heap))
    BY <1>5, EndCounted
  <2>2. Exact(slots', q') /\ Keeps(slots', q, q') /\ SameWait(q, q')
    BY <1>1, <1>5, <2>1, NoteStaleExact
  <2> QED
    BY <1>2, <1>3, <2>2 DEF HeapStep, Exact
<1>6. CASE ~stopping /\ ~C
  <2>1. q.stale = Cardinality(Dead(slots', q.heap))
    BY <1>6, EndCounted
  <2> QED
    BY <1>1, <1>2, <1>3, <1>6, <2>1 DEF HeapStep, Keeps, SameWait
<1> QED
  BY <1>4, <1>5, <1>6

\* A timer that goes on keeps its entry.
LEMMA EntryKept ==
    ASSUME HeapExact, HeapStep, ~stopping, NEW z \in 1..Len(slots), slots'[z] = slots[z],
           slots[z].occupied, ~slots[z].cancelRequested, ~Expiring(z)
    PROVE  \E e \in q'.heap : e.slot = z /\ e.generation = slots'[z].generation
<1>1. PICK e \in q.heap : e.slot = z /\ e.generation = slots[z].generation
  BY DEF HeapExact, LiveTimerInHeap
<1>2. HasLiveEntry(slots', e)
  BY <1>1 DEF HeapStep, HeapExact, SlotsExact, HasLiveEntry, HasOccupied
<1> QED
  BY <1>1, <1>2 DEF HeapStep, Keeps

\* A step in which no timer starts.
SlotStep ==
    /\ slots' \in Seq(Slots) /\ Len(slots') = Len(slots) /\ sequence' = sequence
    /\ \A z \in 1..Len(slots) :
          /\ slots'[z].generation = slots[z].generation
          /\ slots'[z].occupied => slots[z].occupied /\ slots'[z].completion = slots[z].completion
          /\ slots'[z].active # 0 => slots'[z].occupied /\ slots'[z].active = slots[z].active
          /\ slots'[z].cancelRequested => slots'[z].occupied
    /\ \A i \in Ids : status[i] # "pending" => status'[i] # "pending"

\* Such a step keeps what the invariant says of the slots ...
LEMMA SlotStepKeeps ==
    ASSUME HeapExact, SlotStep,
           held' # None => held'.slot \in 1..Len(slots') /\ slots'[held'.slot].occupied,
           sweep' > 0 => stopping'
    PROVE  SlotsExact'
<1>1. Len(slots') = Len(slots) /\ sequence' = sequence
  BY DEF SlotStep
<1>2. ASSUME NEW s \in 1..Len(slots)
      PROVE  /\ slots'[s].generation <= sequence
             /\ slots'[s].active # 0 => slots'[s].occupied /\ slots'[s].active = slots'[s].generation
             /\ slots'[s].cancelRequested => slots'[s].occupied
             /\ slots'[s].occupied => slots'[s].generation # 0 /\ slots'[s].completion \in 0..(sequence - 1)
  BY DEF SlotStep, HeapExact, SlotsExact
<1>3. ASSUME NEW s \in 1..Len(slots), NEW z \in 1..Len(slots),
             slots'[s].occupied, slots'[z].occupied, slots'[s].completion = slots'[z].completion
      PROVE  s = z
  BY <1>3 DEF SlotStep, HeapExact, SlotsExact
<1> QED
  BY <1>1, <1>2, <1>3 DEF SlotsExact

\* ... and of the removals.
LEMMA AskingKept ==
    ASSUME HeapExact, SlotStep, NEW p, Asking(p)
    PROVE  Asking(p)'
<1>1. Len(slots') = Len(slots) /\ p.slot \in 1..Len(slots) /\ slots'[p.slot].generation = slots[p.slot].generation
      /\ (slots'[p.slot].occupied => slots[p.slot].occupied /\ slots'[p.slot].completion = slots[p.slot].completion)
  BY DEF SlotStep, Asking
<1>2. slots[p.slot].occupied => slots[p.slot].completion \in Ids
  <2>1. slots[p.slot].occupied => slots[p.slot].completion \in 0..(sequence - 1)
    BY <1>1 DEF HeapExact, SlotsExact
  <2>2. 0..(sequence - 1) \subseteq Ids
    BY TimersAssumption DEF HeapExact, TypeOK, Ids
  <2> QED
    BY <2>1, <2>2
<1>3. \A i \in Ids : status[i] # "pending" => status'[i] # "pending"
  BY DEF SlotStep
<1> QED
  BY <1>1, <1>2, <1>3 DEF Asking, HasOccupied

\* The completion of an occupied slot names a timer.
LEMMA CompletionNames ==
    ASSUME TypeOK, SlotsExact, NEW s \in 1..Len(slots), slots[s].occupied
    PROVE  slots[s].completion \in Ids /\ slots[s].completion < sequence
<1>1. slots[s].completion \in 0..(sequence - 1)
  BY DEF SlotsExact
<1> QED
  BY <1>1, TimersAssumption DEF TypeOK, Ids

\* A step that leaves the slots alone starts no timer.
LEMMA QuietSlots ==
    ASSUME HeapExact, slots' = slots, sequence' = sequence,
           \A i \in Ids : status[i] # "pending" => status'[i] # "pending"
    PROVE  SlotStep
<1>1. slots \in Seq(Slots)
  BY DEF HeapExact, TypeOK
<1> QED
  BY <1>1 DEF SlotStep, HeapExact, SlotsExact

\* Nor does it change who is in the heap and on the free list.
LEMMA QuietLive ==
    ASSUME HeapExact, q' = q, slots' = slots, free' = free, stopping' = stopping,
           \A s \in 1..Len(slots) : Expiring(s) => Expiring(s)'
    PROVE  LiveTimerInHeap'
BY DEF HeapExact, LiveTimerInHeap

-----------------------------------------------------------------------------
(* Timers: the invariant is kept by every step                              *)

\* A step that leaves the heap, the slots and the round alone.
LEMMA QuietInv ==
    ASSUME HeapExact, TypeOK', RemovalsAsked',
           q' = q, slots' = slots, free' = free, sequence' = sequence, round' = round,
           stopping' = stopping,
           \A s \in 1..Len(slots) : Expiring(s)' <=> Expiring(s),
           \A i \in Ids : status[i] # "pending" => status'[i] # "pending",
           held' # None => held'.slot \in 1..Len(slots) /\ slots[held'.slot].occupied,
           sweep' > 0 => stopping
    PROVE  HeapExact'
<1>1. HeapStep
  BY QuietHeap
<1>2. SlotStep
  BY QuietSlots
<1>3. SlotsExact'
  BY <1>2, SlotStepKeeps
<1>4. LiveTimerInHeap'
  BY QuietLive
<1> QED
  BY <1>1, <1>3, <1>4, HeapStepKeeps DEF HeapExact

\* Removals nobody touched stay answered.
LEMMA QuietRemovals ==
    ASSUME HeapExact, SlotStep, posted' \subseteq posted, stopping' = stopping,
           \A r \in Regs : off'[r] \in {off[r], None},
           held' # None /\ held'.outcome = "cancelled" /\ held'.active /\ ~stopping =>
               held' = held /\ slots'[held.slot].occupied
    PROVE  RemovalsAsked'
<1>1. \A p \in posted' : Asking(p)'
  BY AskingKept DEF HeapExact, RemovalsAsked
<1>3. ASSUME NEW r \in Regs, off'[r] # None
      PROVE  Asking(off[r])'
  <2>1. off'[r] = off[r] /\ Asking(off[r])
    BY <1>3 DEF HeapExact, RemovalsAsked
  <2>2. PICK p : p = off[r]
    OBVIOUS
  <2>3. Asking(p)'
    BY <2>1, <2>2, AskingKept
  <2> QED
    BY <2>1, <2>2, <2>3 DEF Asking
<1>4. held' # None /\ held'.outcome = "cancelled" /\ held'.active /\ ~stopping' =>
         status'[slots'[held'.slot].completion] # "pending"
  <2> SUFFICES ASSUME held' # None, held'.outcome = "cancelled", held'.active, ~stopping'
               PROVE  status'[slots'[held'.slot].completion] # "pending"
    OBVIOUS
  <2>1. held' = held /\ slots'[held.slot].occupied /\ held.slot \in 1..Len(slots)
        /\ slots[held.slot].occupied
    BY DEF HeapExact, SlotsExact
  <2>2. slots'[held.slot].completion = slots[held.slot].completion /\ slots[held.slot].completion \in Ids
    BY <2>1, CompletionNames DEF SlotStep, HeapExact
  <2>3. status[slots[held.slot].completion] # "pending"
    BY <2>1 DEF HeapExact, RemovalsAsked
  <2> QED
    BY <2>1, <2>2, <2>3 DEF SlotStep
<1> QED
  BY <1>1, <1>3, <1>4 DEF RemovalsAsked

LEMMA TickKeeps ==
    ASSUME HeapExact, Tick
    PROVE  HeapExact'
<1> USE DEF Tick, slab, worker, firing, halt, threads
<1>1. TypeOK'
  BY TimersAssumption DEF HeapExact, TypeOK, Times
<1>2. SlotStep
  BY QuietSlots
<1>3. RemovalsAsked'
  BY <1>2, QuietRemovals DEF HeapExact, SlotsExact
<1> QED
  BY <1>1, <1>3, QuietInv DEF HeapExact, SlotsExact, Expiring

LEMMA CallbackReturnsKeeps ==
    ASSUME HeapExact, CallbackReturns
    PROVE  HeapExact'
<1> USE DEF CallbackReturns, slab, halt, threads
<1>1. TypeOK'
  BY DEF HeapExact, TypeOK
<1>2. SlotStep
  BY QuietSlots
<1>3. RemovalsAsked'
  BY <1>2, QuietRemovals DEF HeapExact, SlotsExact
<1> QED
  BY <1>1, <1>3, QuietInv DEF HeapExact, SlotsExact, Expiring

LEMMA StutterKeeps ==
    ASSUME HeapExact, UNCHANGED vars
    PROVE  HeapExact'
<1> USE DEF vars, slab, worker, firing, halt, threads
<1>1. TypeOK'
  BY DEF HeapExact, TypeOK
<1>2. SlotStep
  BY QuietSlots
<1>3. RemovalsAsked'
  BY <1>2, QuietRemovals DEF HeapExact, SlotsExact
<1> QED
  BY <1>1, <1>3, QuietInv DEF HeapExact, SlotsExact, Expiring

LEMMA PostCancellationKeeps ==
    ASSUME HeapExact, NEW r \in Regs, PostCancellation(r)
    PROVE  HeapExact'
<1> USE DEF PostCancellation, slab, worker, firing, halt
<1>1. off[r] \in Removals /\ off[r] # None /\ Asking(off[r])
  BY DEF HeapExact, TypeOK, RemovalsAsked
<1>2. TypeOK'
  BY <1>1 DEF HeapExact, TypeOK
<1>3. SlotStep
  BY QuietSlots
<1>4. RemovalsAsked'
  BY <1>1 DEF HeapExact, TypeOK, RemovalsAsked, Asking
<1> QED
  BY <1>2, <1>4, QuietInv DEF HeapExact, SlotsExact, Expiring

LEMMA TokenCancelElsewhereKeeps ==
    ASSUME HeapExact, NEW s \in 1..Len(slots), NEW g \in 1..slots[s].generation,
           TokenCancelElsewhere(s, g)
    PROVE  HeapExact'
<1> USE DEF TokenCancelElsewhere, slab, worker, firing, halt
<1> DEFINE p == [slot |-> s, generation |-> g, notify |-> TRUE]
<1>1. slots[s].generation \in Generations /\ s \in Nat /\ g \in Nat /\ Len(slots) \in Nat
  <2>1. slots[s] \in Slots /\ Len(slots) \in Nat
    BY DEF HeapExact, TypeOK
  <2> QED
    BY <2>1 DEF Slots, Generations
<1>2. p \in Removals
  <2>1. g \in Generations
    BY <1>1, TimersAssumption DEF Generations
  <2> QED
    BY <1>1, <2>1 DEF Removals
<1>3. HasOccupied(slots, s, g) => slots[s].occupied /\ slots[s].completion \in Ids
  BY CompletionNames DEF HeapExact, HasOccupied
<1>4. /\ status' \in [Ids -> {"none"} \cup Open \cup Settled]
      /\ \A i \in Ids : status[i] # "pending" => status'[i] # "pending"
      /\ HasOccupied(slots, s, g) => status'[slots[s].completion] # "pending"
  BY <1>3 DEF HeapExact, TypeOK, Asked, Open, Settled
<1>5. cancels' \in 0..MaxCancels
  BY TimersAssumption DEF Request, HeapExact, TypeOK
<1>6. TypeOK'
  BY <1>2, <1>4, <1>5 DEF HeapExact, TypeOK
<1>7. SlotStep
  BY <1>4, QuietSlots
<1>8. Asking(p)'
  BY <1>1, <1>4 DEF Asking
<1>9. RemovalsAsked'
  <2>1. \A x \in posted : Asking(x)'
    BY <1>7, AskingKept DEF HeapExact, RemovalsAsked
  <2>2. \A x \in posted' : Asking(x)'
    BY <1>8, <2>1
  <2>3. ASSUME NEW r \in Regs, off[r] # None PROVE Asking(off[r])'
    <3>1. PICK x : x = off[r]
      OBVIOUS
    <3>2. Asking(x)'
      BY <1>7, <2>3, <3>1, AskingKept DEF HeapExact, RemovalsAsked
    <3>3. off'[r] = off[r]
      OBVIOUS
    <3> QED
      BY <3>1, <3>2, <3>3 DEF Asking
  <2>4. held # None => held.slot \in 1..Len(slots) /\ slots[held.slot].completion \in Ids
    BY CompletionNames DEF HeapExact, SlotsExact
  <2> QED
    BY <1>4, <2>2, <2>3, <2>4 DEF RemovalsAsked, HeapExact
<1> QED
  BY <1>4, <1>6, <1>9, QuietInv DEF HeapExact, SlotsExact, Expiring

LEMMA RunPostedKeeps ==
    ASSUME HeapExact, NEW p \in posted, RunPosted(p)
    PROVE  HeapExact'
<1> USE DEF RunPosted, slab, firing, halt
<1>1. held = None /\ p \in Removals /\ Asking(p)
  BY DEF HeapExact, TypeOK, RemovalsAsked, Turn, UserCode
<1>2. /\ q' = q /\ slots' = slots /\ free' = free /\ sequence' = sequence /\ round' = round
      /\ stopping' = stopping /\ sweep' = sweep /\ status' = status /\ off' = off
      /\ posted' \subseteq posted
  OBVIOUS
<1>3. SlotStep
  BY <1>2, QuietSlots
<1>4. CASE ~Removes(p)
  <2>1. held' = None
    BY <1>1, <1>4
  <2>2. TypeOK'
    BY <2>1 DEF HeapExact, TypeOK
  <2>3. RemovalsAsked'
    BY <1>2, <1>3, <2>1, QuietRemovals
  <2> QED
    BY <1>1, <1>2, <2>1, <2>2, <2>3, QuietInv DEF HeapExact, SlotsExact, Expiring
<1>5. CASE Removes(p)
  <2> DEFINE h == [slot |-> p.slot, active |-> p.notify /\ slots[p.slot].active # 0,
                   outcome |-> "cancelled"]
  <2>1. held' = h
    BY <1>5 DEF Hold
  <2>2. h \in Holds
    BY <1>1 DEF Holds, Removals
  <2>3. p.slot \in 1..Len(slots) /\ slots[p.slot].occupied
        /\ (p.notify => status[slots[p.slot].completion] # "pending")
    BY <1>1, <1>5 DEF Removes, HasOccupied, Asking
  <2>4. h.slot = p.slot /\ h.outcome = "cancelled" /\ (h.active => p.notify)
    OBVIOUS
  <2> HIDE DEF h
  <2>5. TypeOK'
    BY <2>1, <2>2 DEF HeapExact, TypeOK
  <2>6. RemovalsAsked'
    <3>1. \A x \in posted : Asking(x)'
      BY <1>3, AskingKept DEF HeapExact, RemovalsAsked
    <3>2. \A r \in Regs : off'[r] # None => Asking(off[r])'
      BY <1>2 DEF HeapExact, RemovalsAsked, Asking
    <3> QED
      BY <1>2, <2>1, <2>3, <2>4, <3>1, <3>2 DEF RemovalsAsked
  <2>7. \A s \in 1..Len(slots) : Expiring(s)' <=> Expiring(s)
    BY <1>1, <2>1, <2>4 DEF Expiring
  <2>8. sweep' > 0 => stopping
    BY <1>2 DEF HeapExact, SlotsExact
  <2> QED
    BY <1>2, <2>1, <2>3, <2>4, <2>5, <2>6, <2>7, <2>8, QuietInv
<1> QED
  BY <1>4, <1>5

LEMMA SweepKeeps ==
    ASSUME HeapExact, Sweep
    PROVE  HeapExact'
<1> USE DEF Sweep, slab, firing, threads
<1> DEFINE occupied == {s \in sweep..Len(slots) : slots[s].occupied}
           s == Min(occupied)
           h == [slot |-> s, active |-> slots[s].active # 0, outcome |-> "cancelled"]
<1>1. held = None /\ stopping /\ sweep \in Nat /\ Len(slots) \in Nat
  BY DEF HeapExact, SlotsExact, TypeOK
<1>2. /\ q' = q /\ slots' = slots /\ free' = free /\ sequence' = sequence /\ round' = round
      /\ stopping' = stopping /\ status' = status /\ off' = off /\ posted' = posted
  OBVIOUS
<1>3. SlotStep
  BY <1>2, QuietSlots
<1>4. CASE occupied = {}
  <2>1. held' = None /\ sweep' = 0
    BY <1>1, <1>4
  <2>2. TypeOK'
    BY <1>1, <1>2, <2>1 DEF HeapExact, TypeOK
  <2>3. RemovalsAsked'
    BY <1>2, <1>3, <2>1, QuietRemovals
  <2> QED
    BY <1>1, <1>2, <2>1, <2>2, <2>3, QuietInv DEF Expiring
<1>5. CASE occupied # {}
  <2>1. held' = h /\ sweep' = s + 1
    BY <1>5 DEF Hold
  <2>2. s \in occupied
    <3>1. occupied \in SUBSET Nat
      BY <1>1
    <3> QED
      BY <1>5, <3>1, MinMember
  <2>3. s \in sweep..Len(slots) /\ slots[s].occupied
    BY <2>2
  <2> HIDE DEF s
  <2>4. s \in 1..Len(slots) /\ s \in Nat /\ s + 1 \in 0..(Len(slots) + 1)
    BY <1>1, <2>3
  <2>5. h \in Holds /\ h.slot = s /\ h.outcome = "cancelled"
    BY <2>4 DEF Holds
  <2> HIDE DEF h
  <2>6. TypeOK'
    BY <1>2, <2>1, <2>4, <2>5 DEF HeapExact, TypeOK
  <2>7. RemovalsAsked'
    BY <1>1, <1>2, <1>3, QuietRemovals
  <2>8. \A z \in 1..Len(slots) : Expiring(z)' <=> Expiring(z)
    BY <1>1, <2>1, <2>5 DEF Expiring
  <2> QED
    BY <1>1, <1>2, <2>1, <2>3, <2>4, <2>5, <2>6, <2>7, <2>8, QuietInv
<1> QED
  BY <1>4, <1>5

\* A timer ends on the worker: what an action that releases slot s, or marks
\* its timer as cancelled, has to show.
LEMMA EndInv ==
    ASSUME HeapExact, TypeOK', RemovalsAsked', HeapStep, SlotStep,
           NEW s \in 1..Len(slots), slots[s].occupied, EndsIn(slots', s),
           \/ slots'[s].occupied /\ free' = free
           \/ ~slots'[s].occupied /\ free' = <<s>> \o free,
           \A z \in 1..Len(slots) : z # s /\ Expiring(z) => Expiring(z)',
           held' # None => held'.slot \in 1..Len(slots) /\ slots'[held'.slot].occupied,
           sweep' > 0 => stopping
    PROVE  HeapExact'
<1>1. SlotsExact'
  BY SlotStepKeeps DEF SlotStep, HeapStep
<1>2. LiveTimerInHeap'
  <2> SUFFICES ASSUME ~stopping PROVE LiveTimerInHeap'
    BY DEF HeapStep, LiveTimerInHeap
  <2>1. Len(slots') = Len(slots) /\ free \in Seq(1..Len(slots)) /\ Len(free) \in Nat
    BY DEF HeapExact, TypeOK, SlotStep
  <2>2. ASSUME NEW z \in 1..Len(slots), slots'[z].occupied, ~slots'[z].cancelRequested, ~Expiring(z)'
        PROVE  \E e \in q'.heap : e.slot = z /\ e.generation = slots'[z].generation
    <3>1. z # s
      BY <2>2 DEF EndsIn
    <3>2. slots'[z] = slots[z] /\ ~Expiring(z)
      BY <2>2, <3>1 DEF EndsIn
    <3> QED
      BY <2>2, <3>2, EntryKept
  <2>3. CASE slots'[s].occupied /\ free' = free
    <3>1. \A z \in 1..Len(slots) : slots'[z].occupied <=> slots[z].occupied
      BY <2>3 DEF EndsIn
    <3> QED
      BY <2>1, <2>2, <2>3, <3>1 DEF HeapExact, LiveTimerInHeap
  <2>4. CASE ~slots'[s].occupied /\ free' = <<s>> \o free
    <3>1. /\ Len(free') = Len(free) + 1 /\ free'[1] = s
          /\ \A i \in 1..Len(free) : free'[i + 1] = free[i]
          /\ \A i \in 1..Len(free') : i # 1 => i - 1 \in 1..Len(free) /\ free'[i] = free[i - 1]
      BY <2>1, <2>4
    <3>2. \A i \in 1..Len(free) : free[i] # s
      BY DEF HeapExact, LiveTimerInHeap
    <3>3. \A i, j \in 1..Len(free') : free'[i] = free'[j] => i = j
      <4>1. \A i, j \in 1..Len(free) : free[i] = free[j] => i = j
        BY DEF HeapExact, LiveTimerInHeap
      <4>2. SUFFICES ASSUME NEW i \in 1..Len(free'), NEW j \in 1..Len(free'), free'[i] = free'[j]
                     PROVE  i = j
        OBVIOUS
      <4>3. CASE i = 1 \/ j = 1
        BY <3>1, <3>2, <4>2, <4>3
      <4>4. CASE i # 1 /\ j # 1
        <5>1. PICK a \in 1..Len(free) : a = i - 1 /\ free'[i] = free[a]
          BY <3>1, <4>4
        <5>2. PICK b \in 1..Len(free) : b = j - 1 /\ free'[j] = free[b]
          BY <3>1, <4>4
        <5>3. a = b
          BY <4>1, <4>2, <5>1, <5>2
        <5> QED
          BY <5>1, <5>2, <5>3, <2>1, <3>1
      <4> QED
        BY <4>3, <4>4
    <3>4. ASSUME NEW z \in 1..Len(slots)
          PROVE  slots'[z].occupied <=> \A i \in 1..Len(free') : free'[i] # z
      <4>1. CASE z = s
        BY <2>1, <2>4, <3>1, <4>1
      <4>2. CASE z # s
        <5>1. slots'[z] = slots[z]
          BY <4>2 DEF EndsIn
        <5>2. slots[z].occupied <=> \A i \in 1..Len(free) : free[i] # z
          BY DEF HeapExact, LiveTimerInHeap
        <5>3. \A i \in 1..Len(free) : i + 1 \in 1..Len(free')
          BY <2>1, <3>1
        <5>4. (\A i \in 1..Len(free) : free[i] # z) <=> (\A i \in 1..Len(free') : free'[i] # z)
          BY <3>1, <4>2, <5>3
        <5> QED
          BY <5>1, <5>2, <5>4
      <4> QED
        BY <4>1, <4>2
    <3> QED
      BY <2>1, <2>2, <3>3, <3>4 DEF LiveTimerInHeap
  <2> QED
    BY <2>3, <2>4
<1> QED
  BY <1>1, <1>2, HeapStepKeeps DEF HeapExact

\* The registration's timer is in its slot.
LEMMA PendingOccupies ==
    ASSUME HeapExact, NEW r \in Regs, Pending(r)
    PROVE  /\ bound[r].slot \in 1..Len(slots) /\ slots[bound[r].slot].occupied
           /\ bound[r].generation = slots[bound[r].slot].generation
           /\ bound[r].slot \in Nat /\ bound[r].generation \in Generations
BY DEF HeapExact, TypeOK, SlotsExact, Pending, HasTimer

\* A released slot.
LEMMA ReleaseEnds ==
    ASSUME HeapExact, NEW s \in 1..Len(slots), slots' = Released(slots, s), sequence' = sequence,
           \A i \in Ids : status[i] # "pending" => status'[i] # "pending"
    PROVE  EndsIn(slots', s) /\ SlotStep /\ ~slots'[s].occupied
<1>1. slots \in Seq(Slots)
  BY DEF HeapExact, TypeOK
<1>2. /\ slots' \in Seq(Slots) /\ Len(slots') = Len(slots)
      /\ \A z \in 1..Len(slots) : z # s => slots'[z] = slots[z]
      /\ slots'[s].generation = slots[s].generation /\ slots'[s].active = 0
      /\ slots'[s].occupied = FALSE /\ slots'[s].cancelRequested = FALSE
  BY <1>1, ReleasedSlot
<1>3. EndsIn(slots', s)
  BY <1>2 DEF EndsIn
<1>4. SlotStep
  BY <1>2 DEF SlotStep, HeapExact, SlotsExact
<1> QED
  BY <1>2, <1>3, <1>4

\* A slot put in front of the free list.
LEMMA FreedSlot ==
    ASSUME TypeOK, NEW s \in 1..Len(slots)
    PROVE  <<s>> \o free \in Seq(1..Len(slots))
BY DEF TypeOK

LEMMA CancelKeeps ==
    ASSUME HeapExact, NEW r \in Regs, Cancel(r)
    PROVE  HeapExact'
<1> USE DEF Cancel, worker, firing, halt
<1> DEFINE s == bound[r].slot
<1>1. /\ held = None /\ held' = None /\ sequence' = sequence /\ round' = round /\ off' = off
      /\ stopping' = stopping /\ sweep' = sweep /\ posted' = posted /\ clock' = clock
      /\ failures' = failures /\ inCallback' = inCallback
  BY DEF UserCode
<1>2. bound' \in [Regs -> [slot : Nat, generation : Generations]]
  <2>1. Unbound \in [slot : Nat, generation : Generations]
    BY TimersAssumption DEF Unbound, Generations
  <2> QED
    BY <2>1 DEF HeapExact, TypeOK
<1>3. cancels' \in 0..MaxCancels
  BY TimersAssumption DEF Request, HeapExact, TypeOK
<1>4. CASE ~Pending(r)
  <2>1. q' = q /\ slots' = slots /\ free' = free /\ status' = status
    BY <1>4
  <2>2. TypeOK'
    BY <1>1, <1>2, <1>3, <2>1 DEF HeapExact, TypeOK
  <2>3. SlotStep
    BY <1>1, <2>1, QuietSlots
  <2>4. RemovalsAsked'
    BY <1>1, <2>3, QuietRemovals
  <2> QED
    BY <1>1, <2>1, <2>2, <2>4, QuietInv DEF HeapExact, SlotsExact, Expiring
<1>5. CASE Pending(r)
  <2>1. s \in 1..Len(slots) /\ slots[s].occupied
    BY <1>5, PendingOccupies
  <2>2. slots[s].completion \in Ids
    BY <2>1, CompletionNames DEF HeapExact
  <2>3. /\ status' \in [Ids -> {"none"} \cup Open \cup Settled]
        /\ \A i \in Ids : status[i] # "pending" => status'[i] # "pending"
    BY <1>5, <2>2 DEF HeapExact, TypeOK, Settled
  <2>4. slots' = Released(slots, s)
    BY <1>5
  <2>5. EndsIn(slots', s) /\ SlotStep /\ ~slots'[s].occupied
    BY <1>1, <2>1, <2>3, <2>4, ReleaseEnds
  <2>6. HeapStep
    <3>1. slots[s] \in Slots
      BY <2>1 DEF HeapExact, TypeOK
    <3>2. PICK C \in BOOLEAN : C = ~slots[s].cancelRequested
      OBVIOUS
    <3>3. q' = IF C THEN NoteStale(slots', q) ELSE q
      BY <1>5, <3>2
    <3>4. \A z \in 1..Len(slots) : ~Expiring(z) /\ ~Expiring(z)'
      BY <1>1 DEF Expiring
    <3> QED
      BY <1>1, <2>1, <2>5, <3>2, <3>3, <3>4, EndHeap
  <2>7. TypeOK'
    <3>1. q' \in Queues /\ IsFiniteSet(q'.heap) /\ slots' \in Seq(Slots) /\ Len(slots') = Len(slots)
      BY <2>6 DEF HeapStep
    <3>2. free' \in Seq(1..Len(slots'))
      BY <1>5, <2>1, <3>1, FreedSlot DEF HeapExact
    <3> QED
      BY <1>1, <1>2, <1>3, <2>3, <3>1, <3>2 DEF HeapExact, TypeOK
  <2>8. RemovalsAsked'
    BY <1>1, <2>5, QuietRemovals
  <2>9. free' = <<s>> \o free
    BY <1>5
  <2>10. sweep' > 0 => stopping
    BY <1>1 DEF HeapExact, SlotsExact
  <2>11. \A z \in 1..Len(slots) : ~Expiring(z)
    BY <1>1 DEF Expiring
  <2> QED
    BY <1>1, <2>1, <2>5, <2>6, <2>7, <2>8, <2>9, <2>10, <2>11, EndInv
<1> QED
  BY <1>4, <1>5

LEMMA CancelAndNotifyKeeps ==
    ASSUME HeapExact, NEW s \in 1..Len(slots), NEW g \in 1..slots[s].generation,
           CancelAndNotify(s, g)
    PROVE  HeapExact'
<1> USE DEF CancelAndNotify, worker, firing, halt
<1> DEFINE p == [slot |-> s, generation |-> g, notify |-> TRUE]
           v == [slots[s] EXCEPT !.cancelRequested = TRUE]
<1>1. /\ held = None /\ held' = None /\ sequence' = sequence /\ round' = round /\ off' = off
      /\ stopping' = stopping /\ sweep' = sweep /\ free' = free /\ clock' = clock
      /\ failures' = failures /\ inCallback' = inCallback /\ posted' = posted \cup {p}
  BY DEF UserCode
<1>2. bound' \in [Regs -> [slot : Nat, generation : Generations]]
  <2>1. Unbound \in [slot : Nat, generation : Generations]
    BY TimersAssumption DEF Unbound, Generations
  <2> QED
    BY <2>1 DEF HeapExact, TypeOK
<1>3. cancels' \in 0..MaxCancels
  BY TimersAssumption DEF Request, HeapExact, TypeOK
<1>4. slots[s] \in Slots /\ slots[s].occupied /\ slots[s].generation = g /\ ~slots[s].cancelRequested
      /\ slots \in Seq(Slots)
  BY DEF HasOccupied, HeapExact, TypeOK
<1>5. p \in Removals
  <2>1. s \in Nat /\ g \in Generations
    BY <1>4 DEF Slots, HeapExact, TypeOK
  <2> QED
    BY <2>1 DEF Removals
<1>6. slots[s].completion \in Ids
  BY <1>4, CompletionNames DEF HeapExact
<1>7. /\ status' \in [Ids -> {"none"} \cup Open \cup Settled]
      /\ \A i \in Ids : status[i] # "pending" => status'[i] # "pending"
      /\ status'[slots[s].completion] # "pending"
  <2>1. PICK c \in Ids : c = slots[s].completion
    BY <1>6
  <2>2. status' = [status EXCEPT ![c] = IF status[c] = "claimed" THEN status[c] ELSE "asked"]
    BY <2>1 DEF Asked
  <2> QED
    BY <2>1, <2>2 DEF HeapExact, TypeOK, Open, Settled
<1>8. /\ v \in Slots /\ v.generation = slots[s].generation /\ v.active = slots[s].active
      /\ v.occupied = slots[s].occupied /\ v.cancelRequested = TRUE
      /\ v.completion = slots[s].completion
  BY <1>4 DEF Slots
<1>9. slots' = [slots EXCEPT ![s] = v]
  OBVIOUS
<1> HIDE DEF v
<1>10. /\ slots' \in Seq(Slots) /\ Len(slots') = Len(slots) /\ slots'[s] = v
       /\ \A z \in 1..Len(slots) : z # s => slots'[z] = slots[z]
  <2>1. v \in Slots /\ slots \in Seq(Slots) /\ s \in 1..Len(slots)
    BY <1>4, <1>8
  <2>2. /\ [slots EXCEPT ![s] = v] \in Seq(Slots) /\ Len([slots EXCEPT ![s] = v]) = Len(slots)
        /\ \A z \in 1..Len(slots) : [slots EXCEPT ![s] = v][z] = IF z = s THEN v ELSE slots[z]
    BY <2>1, SlotUpdate
  <2> QED
    BY <1>9, <2>1, <2>2
<1>11. EndsIn(slots', s)
  BY <1>8, <1>10 DEF EndsIn
<1>12. SlotStep
  BY <1>1, <1>4, <1>7, <1>8, <1>10 DEF SlotStep, HeapExact, SlotsExact
<1>13. \A z \in 1..Len(slots) : ~Expiring(z) /\ ~Expiring(z)'
  BY <1>1 DEF Expiring
<1>14. HeapStep
  <2>1. PICK C \in BOOLEAN : C = TRUE
    OBVIOUS
  <2>2. q' = IF C THEN NoteStale(slots', q) ELSE q
    BY <2>1
  <2> QED
    BY <1>1, <1>4, <1>11, <1>13, <2>1, <2>2, EndHeap
<1>15. TypeOK'
  <2>1. q' \in Queues /\ IsFiniteSet(q'.heap)
    BY <1>14 DEF HeapStep
  <2> QED
    BY <1>1, <1>2, <1>3, <1>5, <1>7, <1>10, <2>1 DEF HeapExact, TypeOK
<1>16. RemovalsAsked'
  <2>1. \A x \in posted : Asking(x)'
    BY <1>12, AskingKept DEF HeapExact, RemovalsAsked
  <2>2. Asking(p)'
    BY <1>4, <1>7, <1>8, <1>10 DEF Asking, HasOccupied
  <2>3. ASSUME NEW r \in Regs, off[r] # None PROVE Asking(off[r])'
    <3>1. PICK x : x = off[r]
      OBVIOUS
    <3>2. Asking(x)'
      BY <1>12, <2>3, <3>1, AskingKept DEF HeapExact, RemovalsAsked
    <3> QED
      BY <1>1, <3>1, <3>2 DEF Asking
  <2> QED
    BY <1>1, <2>1, <2>2, <2>3 DEF RemovalsAsked
<1>17. sweep' > 0 => stopping
  BY <1>1 DEF HeapExact, SlotsExact
<1>18. slots'[s].occupied
  BY <1>4, <1>8, <1>10
<1> QED
  BY <1>1, <1>4, <1>11, <1>12, <1>13, <1>14, <1>15, <1>16, <1>17, <1>18, EndInv

LEMMA CancelElsewhereKeeps ==
    ASSUME HeapExact, NEW r \in Regs, NEW notify \in BOOLEAN, CancelElsewhere(r, notify)
    PROVE  HeapExact'
<1> USE DEF CancelElsewhere, worker, firing, halt
<1> DEFINE s == bound[r].slot
           p == [slot |-> s, generation |-> bound[r].generation, notify |-> notify]
           v == [slots[s] EXCEPT !.active = 0]
<1>1. /\ q' = q /\ free' = free /\ sequence' = sequence /\ round' = round /\ held' = held
      /\ stopping' = stopping /\ sweep' = sweep /\ posted' = posted /\ clock' = clock
      /\ failures' = failures /\ inCallback' = inCallback
  OBVIOUS
<1>2. bound' \in [Regs -> [slot : Nat, generation : Generations]]
  <2>1. Unbound \in [slot : Nat, generation : Generations]
    BY TimersAssumption DEF Unbound, Generations
  <2> QED
    BY <2>1 DEF HeapExact, TypeOK
<1>3. cancels' \in 0..MaxCancels
  BY TimersAssumption DEF Request, HeapExact, TypeOK
<1>4. CASE ~Pending(r)
  <2>1. slots' = slots /\ off' = off /\ status' = status
    BY <1>4
  <2>2. TypeOK'
    BY <1>1, <1>2, <1>3, <2>1 DEF HeapExact, TypeOK
  <2>3. SlotStep
    BY <1>1, <2>1, QuietSlots
  <2>4. RemovalsAsked'
    BY <1>1, <2>1, <2>3, QuietRemovals DEF HeapExact, SlotsExact
  <2> QED
    BY <1>1, <2>1, <2>2, <2>4, QuietInv DEF HeapExact, SlotsExact, Expiring
<1>5. CASE Pending(r)
  <2>1. /\ s \in 1..Len(slots) /\ slots[s].occupied /\ bound[r].generation = slots[s].generation
        /\ s \in Nat /\ bound[r].generation \in Generations
    BY <1>5, PendingOccupies
  <2>2. slots[s] \in Slots /\ slots \in Seq(Slots) /\ slots[s].completion \in Ids
    BY <2>1, CompletionNames DEF HeapExact, TypeOK
  <2>3. p \in Removals /\ p.slot = s /\ p.generation = bound[r].generation /\ p.notify = notify
    BY <2>1 DEF Removals
  <2>4. /\ status' \in [Ids -> {"none"} \cup Open \cup Settled]
        /\ \A i \in Ids : status[i] # "pending" => status'[i] # "pending"
        /\ status'[slots[s].completion] # "pending"
    <3>1. PICK c \in Ids : c = slots[s].completion
      BY <2>2
    <3>2. PICK how \in {"asked", "claimed"} :
             status' = [status EXCEPT ![c] = IF status[c] = "claimed" THEN status[c] ELSE how]
      BY <1>5, <3>1 DEF Asked
    <3> QED
      BY <3>1, <3>2 DEF HeapExact, TypeOK, Open, Settled
  <2>5. off' = [off EXCEPT ![r] = p]
    BY <1>5
  <2> HIDE DEF p
  <2>6. /\ v \in Slots /\ v.generation = slots[s].generation /\ v.active = 0
        /\ v.occupied = slots[s].occupied /\ v.cancelRequested = slots[s].cancelRequested
        /\ v.completion = slots[s].completion
    <3>1. 0 \in Generations
      BY TimersAssumption DEF Generations
    <3> QED
      BY <2>2, <3>1 DEF Slots
  <2>7. slots' = slots \/ slots' = [slots EXCEPT ![s] = v]
    BY <1>5
  <2> HIDE DEF v
  <2>8. /\ slots' \in Seq(Slots) /\ Len(slots') = Len(slots)
        /\ \A z \in 1..Len(slots) :
              /\ slots'[z].generation = slots[z].generation
              /\ slots'[z].occupied = slots[z].occupied
              /\ slots'[z].cancelRequested = slots[z].cancelRequested
              /\ slots'[z].completion = slots[z].completion
              /\ slots'[z].active \in {slots[z].active, 0}
    <3>1. CASE slots' = slots
      BY <2>2, <3>1
    <3>2. CASE slots' = [slots EXCEPT ![s] = v]
      <4>1. /\ slots' \in Seq(Slots) /\ Len(slots') = Len(slots)
            /\ \A z \in 1..Len(slots) : slots'[z] = IF z = s THEN v ELSE slots[z]
        BY <2>1, <2>2, <2>6, <3>2, SlotUpdate
      <4> QED
        BY <2>6, <4>1
    <3> QED
      BY <2>7, <3>1, <3>2
  <2>9. \A e \in q.heap : HasLiveEntry(slots', e) <=> HasLiveEntry(slots, e)
    BY <2>8 DEF HasLiveEntry, HasOccupied
  <2>10. \A z \in 1..Len(slots) : Expiring(z)' <=> Expiring(z)
    BY <1>1 DEF Expiring
  <2>11. HeapStep
    <3>1. Dead(slots', q.heap) = Dead(slots, q.heap)
      BY <2>9, SameDead
    <3> QED
      BY <1>1, <2>8, <2>9, <2>10, <3>1 DEF HeapStep, HeapExact, TypeOK, StaleCountExact, Keeps, SameWait
  <2>12. SlotStep
    BY <1>1, <2>4, <2>8 DEF SlotStep, HeapExact, SlotsExact
  <2>13. SlotsExact'
    BY <1>1, <2>8, <2>12, SlotStepKeeps DEF HeapExact, SlotsExact
  <2>14. LiveTimerInHeap'
    BY <1>1, <2>8, <2>10 DEF HeapExact, LiveTimerInHeap
  <2>15. TypeOK'
    BY <1>1, <1>2, <1>3, <2>3, <2>4, <2>5, <2>8 DEF HeapExact, TypeOK
  <2>16. RemovalsAsked'
    <3>1. \A x \in posted : Asking(x)'
      BY <2>12, AskingKept DEF HeapExact, RemovalsAsked
    <3>2. ASSUME NEW u \in Regs, off'[u] # None PROVE Asking(off[u])'
      <4>1. CASE u = r
        <5>1. off'[u] = p
          BY <2>5, <4>1 DEF HeapExact, TypeOK
        <5>2. slots'[s].generation = slots[s].generation /\ slots'[s].completion = slots[s].completion
          BY <2>1, <2>8
        <5>3. bound[r].generation <= slots[s].generation
          BY <2>1 DEF Generations
        <5> QED
          BY <2>1, <2>3, <2>4, <2>8, <5>1, <5>2, <5>3 DEF Asking
      <4>2. CASE u # r
        <5>1. off'[u] = off[u]
          BY <2>5, <4>2 DEF HeapExact, TypeOK
        <5>2. PICK x : x = off[u]
          OBVIOUS
        <5>3. Asking(x)'
          BY <2>12, <3>2, <5>1, <5>2, AskingKept DEF HeapExact, RemovalsAsked
        <5> QED
          BY <5>1, <5>2, <5>3 DEF Asking
      <4> QED
        BY <4>1, <4>2
    <3>3. held # None /\ held.outcome = "cancelled" /\ held.active /\ ~stopping =>
             status'[slots'[held.slot].completion] # "pending"
      <4> SUFFICES ASSUME held # None, held.outcome = "cancelled", held.active, ~stopping
                   PROVE  status'[slots'[held.slot].completion] # "pending"
        OBVIOUS
      <4>1. held.slot \in 1..Len(slots) /\ slots[held.slot].occupied
        BY DEF HeapExact, SlotsExact
      <4>2. slots[held.slot].completion \in Ids
        BY <4>1, CompletionNames DEF HeapExact
      <4>3. status[slots[held.slot].completion] # "pending"
        BY DEF HeapExact, RemovalsAsked
      <4> QED
        BY <2>4, <2>8, <4>1, <4>2, <4>3
    <3> QED
      BY <1>1, <3>1, <3>2, <3>3 DEF RemovalsAsked
  <2> QED
    BY <2>11, <2>13, <2>14, <2>15, <2>16, HeapStepKeeps DEF HeapExact
<1> QED
  BY <1>4, <1>5

LEMMA ReleaseHeldKeeps ==
    ASSUME HeapExact, ReleaseHeld
    PROVE  HeapExact'
<1> USE DEF ReleaseHeld, halt, threads
<1> DEFINE s == held.slot
<1>1. /\ held \in Holds /\ s \in 1..Len(slots) /\ slots[s].occupied /\ held # None
      /\ slots[s] \in Slots
  BY DEF HeapExact, TypeOK, SlotsExact
<1>2. /\ held' = None /\ sequence' = sequence /\ round' = round /\ off' = off /\ bound' = bound
      /\ stopping' = stopping /\ sweep' = sweep /\ posted' = posted /\ clock' = clock
      /\ failures' = failures /\ cancels' = cancels
  OBVIOUS
<1>3. slots[s].completion \in Ids
  BY <1>1, CompletionNames DEF HeapExact
<1>4. /\ status' \in [Ids -> {"none"} \cup Open \cup Settled]
      /\ \A i \in Ids : status[i] # "pending" => status'[i] # "pending"
  <2>1. PICK c \in Ids : c = slots[s].completion
    BY <1>3
  <2>2. PICK how \in Settled : status' = [status EXCEPT ![c] = how]
    <3>1. held.outcome \in Settled /\ "withdrawn" \in Settled
      BY <1>1 DEF Holds, Settled
    <3> QED
      BY <2>1, <3>1
  <2> QED
    BY <2>2 DEF HeapExact, TypeOK, Settled
<1>5. EndsIn(slots', s) /\ SlotStep /\ ~slots'[s].occupied
  BY <1>1, <1>2, <1>4, ReleaseEnds
<1>6. HeapStep
  <2>1. PICK C \in BOOLEAN : C = Counts
    BY DEF Counts
  <2>2. q' = IF C THEN NoteStale(slots', q) ELSE q
    BY <2>1
  <2>3. \A z \in 1..Len(slots) : ~Expiring(z)'
    BY <1>2 DEF Expiring
  <2>4. ~stopping => sweep = 0
    BY DEF HeapExact, SlotsExact, TypeOK
  <2>5. ~stopping => (C <=> ~slots[s].cancelRequested /\ ~Expiring(s))
    BY <1>1, <2>1, <2>4 DEF Counts, Expiring, Holds
  <2> QED
    BY <1>1, <1>2, <1>5, <2>2, <2>3, <2>5, EndHeap
<1>7. TypeOK'
  <2>1. q' \in Queues /\ IsFiniteSet(q'.heap) /\ slots' \in Seq(Slots) /\ Len(slots') = Len(slots)
    BY <1>6 DEF HeapStep
  <2>2. free' \in Seq(1..Len(slots'))
    BY <1>1, <2>1, FreedSlot DEF HeapExact
  <2>3. inCallback' \in BOOLEAN
    BY <1>1 DEF HeapExact, TypeOK, Holds
  <2> QED
    BY <1>2, <1>4, <2>1, <2>2, <2>3 DEF HeapExact, TypeOK
<1>8. RemovalsAsked'
  BY <1>2, <1>5, QuietRemovals
<1>9. \A z \in 1..Len(slots) : z # s => ~Expiring(z)
  BY DEF Expiring
<1>10. sweep' > 0 => stopping
  BY <1>2 DEF HeapExact, SlotsExact
<1> QED
  BY <1>1, <1>2, <1>5, <1>6, <1>7, <1>8, <1>9, <1>10, EndInv

\* Once the timers are stopping the heap is empty, and nothing is armed.
LEMMA StoppedInv ==
    ASSUME TypeOK', SlotsExact', RemovalsAsked', stopping',
           q'.heap = {}, q'.armed = FALSE, q'.wait = None,
           round' # None => round'.limit <= sequence'
    PROVE  HeapExact'
BY DEF HeapExact, StaleCountExact, LiveTimerInHeap, EntriesExact, ArmedCoversHeap, BehindRound

LEMMA StopTimersKeeps ==
    ASSUME HeapExact, StopTimers
    PROVE  HeapExact'
<1> USE DEF StopTimers, BeginSweep, slab, firing, threads
<1>1. q \in Queues
  BY DEF HeapExact, TypeOK
<1>2. q' \in Queues /\ q'.heap = {} /\ q'.armed = FALSE /\ q'.wait = None /\ IsFiniteSet({})
  BY <1>1, DrainedQueue, FS_EmptySet
<1>3. held = None /\ held' = None /\ stopping' = TRUE /\ sweep' = 1
  BY DEF UserCode
<1>4. TypeOK'
  BY <1>2, <1>3 DEF HeapExact, TypeOK
<1>5. SlotStep
  BY QuietSlots
<1>6. SlotsExact'
  BY <1>3, <1>5, SlotStepKeeps
<1>7. RemovalsAsked'
  BY <1>3 DEF HeapExact, RemovalsAsked, Asking
<1> QED
  BY <1>2, <1>3, <1>4, <1>6, <1>7, StoppedInv DEF HeapExact, BehindRound

LEMMA DetachKeeps ==
    ASSUME HeapExact, Detach
    PROVE  HeapExact'
<1> USE DEF Detach, firing, threads
<1> DEFINE gone == {s \in 1..Len(slots) : slots[s].occupied}
<1>1. q \in Queues /\ slots \in Seq(Slots) /\ Len(slots) \in Nat
  BY DEF HeapExact, TypeOK
<1>2. q' \in Queues /\ q'.heap = {} /\ q'.armed = FALSE /\ q'.wait = None /\ IsFiniteSet({})
  BY <1>1, DrainedQueue, FS_EmptySet
<1>3. held = None /\ held' = None /\ stopping' = TRUE /\ sweep' = sweep /\ round' = round
      /\ sequence' = sequence /\ posted' = posted /\ off' = off /\ free' = free
  BY DEF Turn, UserCode
<1>4. /\ slots' \in Seq(Slots) /\ Len(slots') = Len(slots)
      /\ \A s \in 1..Len(slots) : slots'[s] = IF s \in gone THEN Released(slots, s)[s] ELSE slots[s]
  <2>1. \A s \in 1..Len(slots) : Released(slots, s)[s] \in Slots /\ slots[s] \in Slots
    <3> SUFFICES ASSUME NEW s \in 1..Len(slots)
                 PROVE  Released(slots, s)[s] \in Slots /\ slots[s] \in Slots
      OBVIOUS
    <3>1. Released(slots, s) \in Seq(Slots) /\ Len(Released(slots, s)) = Len(slots)
      BY <1>1, ReleasedSlot
    <3> QED
      BY <1>1, <3>1
  <2>2. slots' = [s \in 1..Len(slots) |-> IF s \in gone THEN Released(slots, s)[s] ELSE slots[s]]
    OBVIOUS
  <2> HIDE DEF gone
  <2>3. slots' \in [1..Len(slots) -> Slots]
    BY <2>1, <2>2
  <2>4. \A s \in 1..Len(slots) : slots'[s] = IF s \in gone THEN Released(slots, s)[s] ELSE slots[s]
    BY <2>2
  <2> QED
    BY <1>1, <2>3, <2>4, LenProperties, IsASeq
<1>5. ASSUME NEW s \in 1..Len(slots)
      PROVE  /\ slots'[s].generation = slots[s].generation /\ ~slots'[s].occupied
             /\ slots'[s].active = 0 /\ ~slots'[s].cancelRequested
  <2>1. CASE s \in gone
    BY <1>1, <1>4, <2>1, ReleasedSlot
  <2>2. CASE s \notin gone
    <3>1. slots'[s] = slots[s] /\ ~slots[s].occupied
      BY <1>4, <2>2
    <3> QED
      BY <3>1 DEF HeapExact, SlotsExact
  <2> QED
    BY <2>1, <2>2
<1>6. /\ status' \in [Ids -> {"none"} \cup Open \cup Settled]
      /\ \A i \in Ids : status[i] # "pending" => status'[i] # "pending"
  BY DEF HeapExact, TypeOK, Settled
<1>7. SlotStep
  BY <1>3, <1>4, <1>5, <1>6 DEF SlotStep
<1>8. TypeOK'
  BY <1>2, <1>3, <1>4, <1>6 DEF HeapExact, TypeOK
<1>9. SlotsExact'
  BY <1>3, <1>7, SlotStepKeeps
<1>10. RemovalsAsked'
  <2>1. \A p \in posted : Asking(p)'
    BY <1>7, AskingKept DEF HeapExact, RemovalsAsked
  <2>2. ASSUME NEW r \in Regs, off[r] # None PROVE Asking(off[r])'
    <3>1. PICK x : x = off[r]
      OBVIOUS
    <3>2. Asking(x)'
      BY <1>7, <2>2, <3>1, AskingKept DEF HeapExact, RemovalsAsked
    <3> QED
      BY <1>3, <3>1, <3>2 DEF Asking
  <2> QED
    BY <1>3, <2>1, <2>2 DEF RemovalsAsked
<1> QED
  BY <1>2, <1>3, <1>8, <1>9, <1>10, StoppedInv DEF HeapExact, BehindRound

LEMMA BeginRoundKeeps ==
    ASSUME HeapExact, BeginRound
    PROVE  HeapExact'
<1> USE DEF BeginRound, slab, halt, threads
<1>1. q \in Queues
  BY DEF HeapExact, TypeOK
<1>2. /\ q' \in Queues /\ q'.heap = q.heap /\ q'.stale = q.stale /\ q'.armed = FALSE /\ q'.wait = None
  BY <1>1, DrainedQueue
<1>3. held = None /\ held' = None
  BY DEF Turn, UserCode
<1>4. /\ round' \in Rounds /\ round' # None /\ round'.limit = sequence
  <2>1. clock \in Times /\ sequence \in Generations
    BY DEF HeapExact, TypeOK, Generations
  <2> QED
    BY <2>1, TimersAssumption DEF Rounds
<1>5. TypeOK'
  BY <1>2, <1>3, <1>4 DEF HeapExact, TypeOK
<1>6. SlotStep
  BY QuietSlots
<1>7. SlotsExact'
  BY <1>3, <1>6, SlotStepKeeps DEF HeapExact, SlotsExact
<1>8. RemovalsAsked'
  BY <1>3, <1>6, QuietRemovals
<1>9. StaleCountExact' /\ LiveTimerInHeap'
  BY <1>2, <1>3 DEF HeapExact, StaleCountExact, LiveTimerInHeap, Expiring
<1>10. EntriesExact'
  BY <1>2, <1>3 DEF HeapExact, EntriesExact, Expiring
<1>11. ArmedCoversHeap'
  BY <1>2, <1>4 DEF ArmedCoversHeap
<1>12. BehindRound'
  <2>1. \A e \in q'.heap : e.sequence < sequence /\ e.sequence \in Nat /\ sequence \in Nat
    <3>1. q.heap \in SUBSET Entries
      BY <1>1 DEF Queues
    <3>2. \A e \in q.heap : e.sequence < sequence /\ sequence \in Nat
      BY DEF HeapExact, EntriesExact, TypeOK
    <3> QED
      BY <1>2, <3>1, <3>2 DEF Entries, Ids
  <2>2. sequence' = sequence /\ sequence \in Nat
    BY DEF HeapExact, TypeOK
  <2> QED
    BY <1>4, <2>1, <2>2 DEF BehindRound
<1> QED
  BY <1>5, <1>7, <1>8, <1>9, <1>10, <1>11, <1>12 DEF HeapExact

LEMMA FireKeeps ==
    ASSUME HeapExact, Fire
    PROVE  HeapExact'
<1> USE DEF Fire, slab, firing, halt, threads
<1> DEFINE e == Front(q.heap)
           Q == [q EXCEPT !.heap = @ \ {e}]
           h == [slot |-> e.slot, active |-> HasTimer(e.slot, e.generation), outcome |-> "expired"]
<1>1. q \in Queues /\ IsFiniteSet(q.heap) /\ q.heap \in SUBSET Entries /\ q.stale \in Nat
  BY DEF HeapExact, TypeOK, Queues
<1>2. e \in q.heap
  <2>1. \A f, g \in q.heap : f.sequence = g.sequence => f = g
    BY DEF HeapExact, EntriesExact
  <2> QED
    BY <1>1, <2>1, FrontIsFirst DEF Due
<1>3. ~stopping /\ held = None /\ round # None
  BY <1>2 DEF HeapExact, EntriesExact
<1>4. q.stale = Cardinality(Dead(slots, q.heap)) /\ IsFiniteSet(Dead(slots, q.heap))
      /\ IsFiniteSet(q.heap \ {e})
  BY <1>1, <1>3, FS_Subset DEF HeapExact, StaleCountExact, Dead
<1>5. /\ slots' = slots /\ free' = free /\ sequence' = sequence /\ round' = round
      /\ stopping' = stopping /\ sweep' = sweep /\ status' = status /\ off' = off /\ posted' = posted
  OBVIOUS
<1>6. e.slot \in 1..Len(slots) /\ e.slot \in Nat /\ e \in Entries
  BY <1>1, <1>2 DEF HeapExact, EntriesExact, Entries
<1> HIDE DEF e
<1>7. SlotStep
  BY <1>5, QuietSlots
<1>8. \A r \in Regs : off'[r] \in {off[r], None}
  BY <1>5
<1>9. CASE HasLiveEntry(slots, e)
  <2>1. q' = Q /\ held' = h
    BY <1>9 DEF Hold, e
  <2>2. q' \in Queues /\ q'.heap = q.heap \ {e} /\ q'.stale = q.stale /\ q'.armed = q.armed
        /\ q'.wait = q.wait /\ q'.deadline = q.deadline
    <3>1. PICK H \in SUBSET Entries : H = q.heap \ {e}
      BY <1>1
    <3>2. q' = [q EXCEPT !.heap = H]
      BY <2>1, <3>1
    <3> QED
      BY <1>1, <3>1, <3>2 DEF Queues
  <2>3. h \in Holds /\ h.slot = e.slot /\ h.outcome = "expired" /\ h # None
    <3>1. PICK b \in BOOLEAN : b = HasTimer(e.slot, e.generation)
      BY DEF HasTimer
    <3>2. [slot |-> e.slot, active |-> b, outcome |-> "expired"] \in Holds
      BY <1>6 DEF Holds
    <3>3. h = [slot |-> e.slot, active |-> b, outcome |-> "expired"]
      BY <3>1
    <3> QED
      BY <3>2, <3>3, TimersAssumption
  <2> HIDE DEF h, Q
  <2>4. slots[e.slot].occupied /\ e.generation = slots[e.slot].generation
    BY <1>9 DEF HasLiveEntry, HasOccupied
  <2>5. TypeOK'
    BY <1>4, <1>5, <2>1, <2>2, <2>3 DEF HeapExact, TypeOK
  <2>6. StaleCountExact'
    <3>1. Dead(slots, q.heap \ {e}) = Dead(slots, q.heap)
      BY <1>9 DEF Dead
    <3> QED
      BY <1>4, <1>5, <2>2, <3>1 DEF StaleCountExact
  <2>7. \A z \in 1..Len(slots) : Expiring(z)' <=> z = e.slot
    BY <2>1, <2>3 DEF Expiring
  <2>8. LiveTimerInHeap'
    <3>1. ASSUME NEW z \in 1..Len(slots), slots[z].occupied, ~slots[z].cancelRequested, z # e.slot
          PROVE  \E f \in q'.heap : f.slot = z /\ f.generation = slots[z].generation
      BY <1>3, <2>2, <3>1 DEF HeapExact, LiveTimerInHeap, Expiring
    <3> QED
      BY <1>3, <1>5, <2>7, <3>1 DEF HeapExact, LiveTimerInHeap
  <2>9. EntriesExact'
    <3>1. \A f \in q'.heap : f \in q.heap /\ f # e
      BY <2>2
    <3>2. ASSUME NEW f \in q'.heap, Expiring(f.slot)'
          PROVE  f.generation # slots[f.slot].generation
      <4>1. f \in q.heap /\ f # e /\ f.slot \in 1..Len(slots)
        BY <3>1 DEF HeapExact, EntriesExact
      <4>2. f.slot = e.slot
        BY <2>7, <3>2, <4>1
      <4> QED
        BY <1>2, <2>4, <4>1, <4>2 DEF HeapExact, EntriesExact
    <3> QED
      BY <1>3, <1>5, <3>1, <3>2 DEF HeapExact, EntriesExact
  <2>10. SlotsExact'
    BY <1>5, <1>6, <1>7, <2>1, <2>3, <2>4, SlotStepKeeps DEF HeapExact, SlotsExact
  <2>11. ArmedCoversHeap' /\ BehindRound'
    BY <1>3, <1>5, <2>2 DEF HeapExact, ArmedCoversHeap, BehindRound
  <2>12. RemovalsAsked'
    BY <1>5, <1>7, <1>8, <2>1, <2>3, QuietRemovals
  <2> QED
    BY <2>5, <2>6, <2>8, <2>9, <2>10, <2>11, <2>12 DEF HeapExact
<1>10. CASE ~HasLiveEntry(slots, e)
  <2>1. e \in Dead(slots, q.heap) /\ Dead(slots, q.heap \ {e}) = Dead(slots, q.heap) \ {e}
    BY <1>2, <1>10 DEF Dead
  <2>2. Cardinality(Dead(slots, q.heap \ {e})) = q.stale - 1 /\ q.stale # 0
    <3>1. Cardinality(Dead(slots, q.heap) \ {e}) = Cardinality(Dead(slots, q.heap)) - 1
      BY <1>4, <2>1, FS_RemoveElement
    <3>2. IsFiniteSet(Dead(slots, q.heap) \ {e})
      BY <1>4, FS_Subset
    <3>3. Cardinality(Dead(slots, q.heap) \ {e}) \in Nat
      BY <3>2, FS_CardinalityType
    <3>4. PICK c : c = Cardinality(Dead(slots, q.heap) \ {e})
      OBVIOUS
    <3>5. c \in Nat /\ c = q.stale - 1
      BY <1>4, <3>1, <3>3, <3>4
    <3>6. q.stale # 0
      BY <1>1, <3>5
    <3> QED
      BY <2>1, <3>4, <3>5, <3>6
  <2>3. q' = [Q EXCEPT !.stale = q.stale - 1] /\ held' = None
    <3>1. Q.stale = q.stale
      BY <1>1 DEF Queues
    <3> QED
      BY <1>3, <1>10, <2>2, <3>1 DEF e
  <2>4. q' \in Queues /\ q'.heap = q.heap \ {e} /\ q'.stale = q.stale - 1 /\ q'.armed = q.armed
        /\ q'.wait = q.wait /\ q'.deadline = q.deadline
    <3>1. PICK H \in SUBSET Entries : H = q.heap \ {e}
      BY <1>1
    <3>2. PICK k \in Nat : k = q.stale - 1
      BY <1>1, <2>2
    <3>3. q' = [q EXCEPT !.heap = H, !.stale = k]
      BY <2>3, <3>1, <3>2
    <3> QED
      BY <1>1, <3>1, <3>2, <3>3 DEF Queues
  <2> HIDE DEF Q
  <2>5. \A z \in 1..Len(slots) : ~Expiring(z) /\ ~Expiring(z)'
    BY <1>3, <2>3 DEF Expiring
  <2>6. HeapStep
    BY <1>4, <1>5, <1>7, <1>10, <2>2, <2>4, <2>5 DEF HeapStep, SlotStep, Keeps, SameWait
  <2>7. TypeOK'
    BY <1>4, <1>5, <2>3, <2>4 DEF HeapExact, TypeOK
  <2>8. SlotsExact'
    BY <1>5, <1>7, <2>3, SlotStepKeeps DEF HeapExact, SlotsExact
  <2>9. RemovalsAsked'
    BY <1>5, <1>7, <1>8, <2>3, QuietRemovals
  <2>10. LiveTimerInHeap'
    <3>1. ASSUME NEW z \in 1..Len(slots), slots[z].occupied, ~slots[z].cancelRequested
          PROVE  \E f \in q'.heap : f.slot = z /\ f.generation = slots[z].generation
      BY <1>3, <1>5, <2>5, <2>6, <3>1, EntryKept
    <3> QED
      BY <1>3, <1>5, <3>1 DEF HeapExact, LiveTimerInHeap
  <2> QED
    BY <2>6, <2>7, <2>8, <2>9, <2>10, HeapStepKeeps DEF HeapExact
<1> QED
  BY <1>9, <1>10

LEMMA EndRoundKeeps ==
    ASSUME HeapExact, EndRound
    PROVE  HeapExact'
<1> USE DEF EndRound, slab, threads
<1>1. q \in Queues /\ IsFiniteSet(q.heap)
  BY DEF HeapExact, TypeOK
<1>2. /\ slots' = slots /\ free' = free /\ sequence' = sequence /\ round' = None /\ held' = held
      /\ status' = status /\ off' = off /\ posted' = posted /\ held = None /\ inCallback' = FALSE
      /\ clock' = clock /\ bound' = bound /\ cancels' = cancels
  OBVIOUS
<1>3. PICK a \in Arm(slots, q) :
          \/ ~a.throws /\ q' = a.queue /\ UNCHANGED <<halt, failures>>
          \/ /\ a.throws /\ failures < MaxFailures /\ failures' = failures + 1
             /\ BeginSweep(a.queue)
  OBVIOUS
<1>4. SlotStep
  BY <1>2, QuietSlots
<1>5. SlotsExact'
  BY <1>2, <1>3, <1>4, SlotStepKeeps DEF HeapExact, SlotsExact, halt, BeginSweep
<1>6. RemovalsAsked'
  BY <1>2 DEF HeapExact, RemovalsAsked, Asking
<1>7. failures' \in 0..MaxFailures
  BY <1>3, TimersAssumption DEF HeapExact, TypeOK
<1>8. CASE stopping
  <2>1. a.queue = Disarmed(q) /\ a.throws = FALSE
    BY <1>1, <1>8, ArmStopping
  <2>2. q' = Disarmed(q) /\ stopping' = stopping /\ sweep' = sweep
    BY <1>3, <2>1 DEF halt
  <2>3. q' \in Queues /\ q'.heap = {} /\ q'.armed = FALSE /\ q'.wait = None
    BY <1>1, <1>8, <2>2, DrainedQueue DEF HeapExact, EntriesExact
  <2>4. TypeOK'
    BY <1>1, <1>2, <1>7, <2>2, <2>3, FS_EmptySet DEF HeapExact, TypeOK
  <2> QED
    BY <1>2, <1>5, <1>6, <1>8, <2>2, <2>3, <2>4, StoppedInv
<1>9. CASE ~stopping
  <2>1. Exact(slots, q)
    BY <1>1, <1>9 DEF Exact, HeapExact, StaleCountExact
  <2>2. \A e, f \in q.heap : e.sequence = f.sequence => e = f
    BY DEF HeapExact, EntriesExact
  <2>3. /\ Exact(slots, a.queue) /\ Keeps(slots, q, a.queue) /\ a.throws \in BOOLEAN
        /\ a.queue.armed <=> a.queue.wait # None
        /\ a.queue.armed => a.queue.wait = a.queue.deadline
        /\ ~a.throws => \A e \in a.queue.heap : a.queue.armed /\ a.queue.wait <= e.deadline
    BY <1>9, <2>1, <2>2, ArmExact
  <2>4. CASE a.throws
    <3>1. q' = Drained(a.queue) /\ stopping' = TRUE /\ sweep' = 1 /\ a.queue \in Queues
      BY <1>3, <2>3, <2>4 DEF BeginSweep, Exact
    <3>2. q' \in Queues /\ q'.heap = {} /\ q'.armed = FALSE /\ q'.wait = None /\ IsFiniteSet({})
      BY <3>1, DrainedQueue, FS_EmptySet
    <3>3. TypeOK'
      <4>1. Len(slots) \in Nat
        BY DEF HeapExact, TypeOK
      <4>2. sweep' \in 0..(Len(slots) + 1) /\ stopping' \in BOOLEAN
        BY <3>1, <4>1
      <4> QED
        BY <1>2, <1>7, <3>2, <4>2 DEF HeapExact, TypeOK
    <3> QED
      BY <1>2, <1>5, <1>6, <3>1, <3>2, <3>3, StoppedInv
  <2>5. CASE ~a.throws
    <3>1. q' = a.queue /\ stopping' = stopping /\ sweep' = sweep /\ failures' = failures
      BY <1>3, <2>5 DEF halt
    <3>2. TypeOK'
      BY <1>2, <2>3, <3>1 DEF HeapExact, TypeOK, Exact
    <3>3. StaleCountExact'
      BY <1>2, <2>3, <3>1 DEF StaleCountExact, Exact
    <3>4. \A z \in 1..Len(slots) : ~Expiring(z) /\ ~Expiring(z)'
      BY <1>2 DEF Expiring
    <3>5. LiveTimerInHeap'
      <4>1. ASSUME NEW z \in 1..Len(slots), slots[z].occupied, ~slots[z].cancelRequested
            PROVE  \E f \in q'.heap : f.slot = z /\ f.generation = slots[z].generation
        <5>1. PICK f \in q.heap : f.slot = z /\ f.generation = slots[z].generation
          BY <1>9, <3>4, <4>1 DEF HeapExact, LiveTimerInHeap
        <5>2. HasLiveEntry(slots, f)
          BY <4>1, <5>1 DEF HeapExact, SlotsExact, HasLiveEntry, HasOccupied
        <5> QED
          BY <2>3, <3>1, <5>1, <5>2 DEF Keeps
      <4> QED
        BY <1>2, <1>9, <3>1, <4>1 DEF HeapExact, LiveTimerInHeap
    <3>6. EntriesExact'
      <4>1. q'.heap \subseteq q.heap
        BY <2>3, <3>1 DEF Keeps
      <4> QED
        BY <1>2, <1>9, <3>1, <3>4, <4>1 DEF HeapExact, EntriesExact, Expiring
    <3>7. ArmedCoversHeap'
      BY <1>2, <2>3, <2>5, <3>1 DEF ArmedCoversHeap
    <3>8. BehindRound'
      BY <1>2 DEF BehindRound
    <3> QED
      BY <1>5, <1>6, <3>2, <3>3, <3>5, <3>6, <3>7, <3>8 DEF HeapExact
  <2> QED
    BY <2>3, <2>4, <2>5
<1> QED
  BY <1>8, <1>9

-----------------------------------------------------------------------------
(* Timers: schedule_timer()                                                 *)

\* The free list holds the free slots, each once.
FreeListOf(sl, f) ==
    Distinct(f) /\ \A s \in 1..Len(sl) : sl[s].occupied <=> s \notin Elems(f)

\* The invariant's words for it.
LEMMA FreeListWords ==
    ASSUME NEW sl, NEW f
    PROVE  FreeListOf(sl, f) <=>
             /\ \A s \in 1..Len(sl) : sl[s].occupied <=> \A i \in 1..Len(f) : f[i] # s
             /\ \A i, j \in 1..Len(f) : f[i] = f[j] => i = j
<1>1. \A s : s \notin Elems(f) <=> \A i \in 1..Len(f) : f[i] # s
  BY DEF Elems
<1> QED
  BY <1>1 DEF FreeListOf, Distinct

\* The call may reach the heap.
Scheduling == HeapExact /\ ~stopping /\ sequence < MaxSchedules /\ held = None

\* ss is the slots with FreeSlot reserved, and filled or given up.
Starts(ss) ==
    /\ ss \in Seq(Slots) /\ Len(ss) = Len(Reserved)
    /\ \A z \in 1..Len(Reserved) : z # FreeSlot => z \in 1..Len(slots) /\ ss[z] = slots[z]
    /\ ss[FreeSlot].generation = Reserved[FreeSlot].generation
    /\ ss[FreeSlot].cancelRequested = FALSE
    /\ ss[FreeSlot].active # 0 => ss[FreeSlot].occupied /\ ss[FreeSlot].active = ss[FreeSlot].generation
    /\ ss[FreeSlot].occupied => ss[FreeSlot].completion = sequence

\* The slots the four outcomes of the call leave.
LEMMA StartsAll ==
    ASSUME Scheduling
    PROVE  /\ Starts(Filled) /\ Filled[FreeSlot].occupied
           /\ Starts(Reserved) /\ ~Reserved[FreeSlot].occupied
           /\ Starts(Released(Filled, FreeSlot)) /\ ~Released(Filled, FreeSlot)[FreeSlot].occupied
<1>1. TypeOK /\ LiveTimerInHeap /\ SlotsExact /\ ~stopping /\ sequence < MaxSchedules
  BY DEF Scheduling, HeapExact
<1>2. /\ Reserved \in Seq(Slots) /\ FreeSlot \in 1..Len(Reserved)
      /\ \A z \in 1..Len(Reserved) : z # FreeSlot => z \in 1..Len(slots) /\ Reserved[z] = slots[z]
      /\ Reserved[FreeSlot].active = 0 /\ Reserved[FreeSlot].occupied = FALSE
      /\ Reserved[FreeSlot].cancelRequested = FALSE
  BY <1>1, ReservedSlot
<1>3. /\ Filled \in Seq(Slots) /\ Len(Filled) = Len(Reserved)
      /\ \A z \in 1..Len(Reserved) : z # FreeSlot => Filled[z] = Reserved[z]
      /\ Filled[FreeSlot].generation = Reserved[FreeSlot].generation
      /\ Filled[FreeSlot].active = Reserved[FreeSlot].generation
      /\ Filled[FreeSlot].occupied = TRUE
      /\ Filled[FreeSlot].cancelRequested = FALSE
      /\ Filled[FreeSlot].completion = sequence
  BY <1>1, FilledSlot
<1>4. FreeSlot \in 1..Len(Filled)
  BY <1>2, <1>3
<1>5. PICK F \in Seq(Slots) : F = Filled
  BY <1>3
<1>6. /\ Released(F, FreeSlot) \in Seq(Slots) /\ Len(Released(F, FreeSlot)) = Len(F)
      /\ \A z \in 1..Len(F) : z # FreeSlot => Released(F, FreeSlot)[z] = F[z]
      /\ Released(F, FreeSlot)[FreeSlot].generation = F[FreeSlot].generation
      /\ Released(F, FreeSlot)[FreeSlot].active = 0
      /\ Released(F, FreeSlot)[FreeSlot].occupied = FALSE
      /\ Released(F, FreeSlot)[FreeSlot].cancelRequested = FALSE
  BY <1>4, <1>5, ReleasedSlot
<1>7. Starts(Filled)
  BY <1>2, <1>3 DEF Starts
<1>8. Starts(Reserved)
  BY <1>2 DEF Starts
<1>9. Starts(Released(Filled, FreeSlot))
  BY <1>2, <1>3, <1>5, <1>6 DEF Starts
<1> QED
  BY <1>2, <1>3, <1>5, <1>6, <1>7, <1>8, <1>9

\* What the call relies on.
LEMMA StartFacts ==
    ASSUME Scheduling
    PROVE  /\ Len(slots) \in Nat /\ Len(Reserved) \in Nat /\ Len(slots) <= Len(Reserved)
           /\ FreeSlot \in 1..Len(Reserved) /\ FreeSlot \in Nat
           /\ Reserved[FreeSlot].generation \in 1..(sequence + 1)
           /\ Reserved[FreeSlot].generation \in Generations
           /\ FreeSlot \in 1..Len(slots) => /\ slots[FreeSlot].generation < Reserved[FreeSlot].generation
                                            /\ slots[FreeSlot].occupied = FALSE
           /\ sequence \in Nat /\ sequence \in Ids /\ sequence + 1 \in 0..MaxSchedules
           /\ sweep = 0
<1>1. TypeOK /\ LiveTimerInHeap /\ SlotsExact /\ ~stopping /\ sequence < MaxSchedules
  BY DEF Scheduling, HeapExact
<1>2. sequence \in Nat /\ sequence \in Ids /\ sequence + 1 \in 0..MaxSchedules
  BY <1>1, TimersAssumption DEF TypeOK, Ids
<1>3. sweep = 0
  BY <1>1 DEF TypeOK, SlotsExact
<1> QED
  BY <1>1, <1>2, <1>3, ReservedSlot

\* The older timers are as live, or dead, as they were.
LEMMA StartLive ==
    ASSUME Scheduling, NEW ss, Starts(ss)
    PROVE  \A e \in q.heap : HasLiveEntry(ss, e) <=> HasLiveEntry(slots, e)
<1> SUFFICES ASSUME NEW e \in q.heap PROVE HasLiveEntry(ss, e) <=> HasLiveEntry(slots, e)
  OBVIOUS
<1>1. /\ e.slot \in 1..Len(slots) /\ e.generation \in 1..slots[e.slot].generation
      /\ slots[e.slot] \in Slots
  BY DEF Scheduling, HeapExact, EntriesExact, TypeOK
<1>2. /\ Len(slots) \in Nat /\ Len(Reserved) \in Nat /\ Len(slots) <= Len(Reserved)
      /\ Reserved[FreeSlot].generation \in 1..(sequence + 1) /\ sequence \in Nat
      /\ FreeSlot \in 1..Len(slots) => /\ slots[FreeSlot].generation < Reserved[FreeSlot].generation
                                       /\ slots[FreeSlot].occupied = FALSE
  BY StartFacts
<1>3. e.slot \in 1..Len(Reserved) /\ Len(ss) = Len(Reserved)
  BY <1>1, <1>2 DEF Starts
<1>4. CASE e.slot # FreeSlot
  BY <1>1, <1>3, <1>4 DEF Starts, HasLiveEntry, HasOccupied
<1>5. CASE e.slot = FreeSlot
  <2>1. slots[e.slot].generation \in Nat
    BY <1>1 DEF Slots, Generations
  <2>2. e.generation # ss[e.slot].generation /\ slots[e.slot].occupied = FALSE
    BY <1>1, <1>2, <1>5, <2>1 DEF Starts
  <2> QED
    BY <2>2 DEF HasLiveEntry, HasOccupied
<1> QED
  BY <1>4, <1>5

\* The free list without FreeSlot, or with it put back.
LEMMA StartFree ==
    ASSUME Scheduling, NEW ss, Starts(ss), NEW f,
           \/ ss[FreeSlot].occupied /\ f = FreeRest
           \/ ~ss[FreeSlot].occupied /\ f = <<FreeSlot>> \o FreeRest
    PROVE  f \in Seq(1..Len(ss)) /\ FreeListOf(ss, f)
<1>1. /\ Len(slots) \in Nat /\ Len(Reserved) \in Nat /\ Len(slots) <= Len(Reserved)
      /\ FreeSlot \in 1..Len(Reserved) /\ Len(ss) = Len(Reserved)
  BY StartFacts DEF Starts
<1>2. free \in Seq(1..Len(slots)) /\ FreeListOf(slots, free)
  BY FreeListWords DEF Scheduling, HeapExact, TypeOK, LiveTimerInHeap
<1>3. /\ FreeRest \in Seq(1..Len(slots)) /\ Distinct(FreeRest) /\ FreeSlot \notin Elems(FreeRest)
      /\ \A z \in 1..Len(slots) : z # FreeSlot => (z \in Elems(FreeRest) <=> z \in Elems(free))
  <2>1. CASE free = << >>
    <3>1. FreeRest = << >>
      BY <2>1 DEF FreeRest
    <3> QED
      BY <2>1, <3>1, ChainEmpty
  <2>2. CASE free # << >>
    <3>1. FreeRest = Tail(free) /\ FreeSlot = Head(free)
      BY <2>2 DEF FreeRest, FreeSlot
    <3>2. /\ Tail(free) \in Seq(1..Len(slots)) /\ Elems(free) = Elems(Tail(free)) \cup {Head(free)}
          /\ Distinct(Tail(free)) /\ Head(free) \notin Elems(Tail(free))
      BY <1>2, <2>2, ChainTail DEF FreeListOf
    <3> QED
      BY <3>1, <3>2
  <2> QED
    BY <2>1, <2>2
<1>4. FreeRest \in Seq(1..Len(ss))
  <2>1. 1..Len(slots) \subseteq 1..Len(ss)
    BY <1>1
  <2>2. /\ Len(FreeRest) \in Nat /\ DOMAIN FreeRest = 1..Len(FreeRest)
        /\ FreeRest \in [1..Len(FreeRest) -> 1..Len(slots)]
    BY <1>3
  <2>3. FreeRest \in [1..Len(FreeRest) -> 1..Len(ss)]
    BY <2>1, <2>2
  <2> QED
    BY <2>2, <2>3
<1>5. ASSUME NEW z \in 1..Len(ss), z # FreeSlot
      PROVE  ss[z].occupied <=> z \notin Elems(FreeRest)
  <2>1. z \in 1..Len(slots) /\ ss[z] = slots[z]
    BY <1>1, <1>5 DEF Starts
  <2> QED
    BY <1>2, <1>3, <1>5, <2>1 DEF FreeListOf
<1>6. CASE ss[FreeSlot].occupied /\ f = FreeRest
  BY <1>1, <1>3, <1>4, <1>5, <1>6 DEF FreeListOf
<1>7. CASE ~ss[FreeSlot].occupied /\ f = <<FreeSlot>> \o FreeRest
  <2>1. /\ f \in Seq(1..Len(ss)) /\ Elems(f) = Elems(FreeRest) \cup {FreeSlot}
        /\ Distinct(f)
    BY <1>1, <1>3, <1>4, <1>7, ChainPrepend
  <2> QED
    BY <1>5, <1>7, <2>1 DEF FreeListOf
<1> QED
  BY <1>6, <1>7

\* The slots are exact: the new timer has a sequence number of its own.
LEMMA StartSlots ==
    ASSUME Scheduling, Starts(slots'), sequence' = sequence + 1, held' = None,
           sweep' > 0 => stopping'
    PROVE  SlotsExact'
<1>1. /\ FreeSlot \in 1..Len(Reserved) /\ Reserved[FreeSlot].generation \in 1..(sequence + 1)
      /\ sequence \in Nat /\ Len(slots') = Len(Reserved) /\ slots \in Seq(Slots)
  BY StartFacts DEF Starts, Scheduling, HeapExact, TypeOK
<1>2. \A z \in 1..Len(slots') : z # FreeSlot => z \in 1..Len(slots) /\ slots'[z] = slots[z]
  BY <1>1 DEF Starts
<1>3. /\ slots'[FreeSlot].generation \in 1..(sequence + 1)
      /\ slots'[FreeSlot].cancelRequested = FALSE
      /\ slots'[FreeSlot].active # 0 => /\ slots'[FreeSlot].occupied
                                        /\ slots'[FreeSlot].active = slots'[FreeSlot].generation
      /\ slots'[FreeSlot].occupied => slots'[FreeSlot].completion = sequence
  BY <1>1 DEF Starts
<1>4. ASSUME NEW z \in 1..Len(slots')
      PROVE  /\ slots'[z].generation <= sequence'
             /\ slots'[z].active # 0 => slots'[z].occupied /\ slots'[z].active = slots'[z].generation
             /\ slots'[z].cancelRequested => slots'[z].occupied
             /\ slots'[z].occupied => slots'[z].generation # 0 /\ slots'[z].completion \in 0..(sequence' - 1)
  <2>1. CASE z = FreeSlot
    BY <1>1, <1>3, <2>1
  <2>2. CASE z # FreeSlot
    <3>1. z \in 1..Len(slots) /\ slots'[z] = slots[z]
      BY <1>2, <2>2
    <3>2. slots[z] \in Slots
      BY <1>1, <3>1
    <3>3. slots[z].generation \in Nat
      BY <3>2 DEF Slots, Generations
    <3> QED
      BY <1>1, <3>1, <3>3 DEF Scheduling, HeapExact, SlotsExact
  <2> QED
    BY <2>1, <2>2
<1>5. ASSUME NEW y \in 1..Len(slots'), NEW z \in 1..Len(slots'),
             slots'[y].occupied, slots'[z].occupied, slots'[y].completion = slots'[z].completion
      PROVE  y = z
  <2>1. CASE y # FreeSlot /\ z # FreeSlot
    BY <1>2, <1>5, <2>1 DEF Scheduling, HeapExact, SlotsExact
  <2>2. \A u \in 1..Len(slots') : u # FreeSlot /\ slots'[u].occupied => slots'[u].completion # sequence
    BY <1>1, <1>2 DEF Scheduling, HeapExact, SlotsExact
  <2>3. CASE y = FreeSlot \/ z = FreeSlot
    BY <1>3, <1>5, <2>2, <2>3
  <2> QED
    BY <2>1, <2>3
<1> QED
  BY <1>4, <1>5 DEF SlotsExact

\* A removal of an earlier timer of the slot does not name the new one.
LEMMA StartRemovals ==
    ASSUME Scheduling, Starts(slots'), held' = None, off' = off, posted' = posted,
           \A i \in Ids : i # sequence => status'[i] = status[i]
    PROVE  RemovalsAsked'
<1>1. ASSUME NEW p \in Removals, Asking(p)
      PROVE  Asking(p)'
  <2>1. /\ p.slot \in 1..Len(slots) /\ p.generation <= slots[p.slot].generation
        /\ p.generation \in Nat /\ p.slot \in Nat
    BY <1>1 DEF Asking, Removals, Generations
  <2>2. slots[p.slot] \in Slots
    BY <2>1 DEF Scheduling, HeapExact, TypeOK
  <2>3. slots[p.slot].generation \in Nat
    BY <2>2 DEF Slots, Generations
  <2>4. /\ Len(slots) \in Nat /\ Len(Reserved) \in Nat /\ Len(slots) <= Len(Reserved)
        /\ Len(slots') = Len(Reserved) /\ sequence \in Nat
        /\ Reserved[FreeSlot].generation \in 1..(sequence + 1)
        /\ slots'[FreeSlot].generation = Reserved[FreeSlot].generation
        /\ FreeSlot \in 1..Len(slots) => slots[FreeSlot].generation < Reserved[FreeSlot].generation
    BY StartFacts DEF Starts
  <2>5. p.slot \in 1..Len(slots')
    BY <2>1, <2>4
  <2>6. CASE p.slot = FreeSlot
    <3>1. p.generation < slots'[p.slot].generation
      BY <2>1, <2>3, <2>4, <2>6
    <3>2. slots'[p.slot].generation \in Nat
      BY <2>4, <2>6
    <3> QED
      BY <2>1, <2>5, <3>1, <3>2 DEF Asking, HasOccupied
  <2>7. CASE p.slot # FreeSlot
    <3>1. slots'[p.slot] = slots[p.slot]
      BY <2>4, <2>5, <2>7 DEF Starts
    <3>2. ASSUME p.notify, HasOccupied(slots', p.slot, p.generation)
          PROVE  status'[slots'[p.slot].completion] # "pending"
      <4>1. slots[p.slot].occupied /\ HasOccupied(slots, p.slot, p.generation)
        BY <2>1, <3>1, <3>2 DEF HasOccupied
      <4>2. slots[p.slot].completion \in 0..(sequence - 1)
        BY <2>1, <4>1 DEF Scheduling, HeapExact, SlotsExact
      <4>3. slots[p.slot].completion \in Ids /\ slots[p.slot].completion # sequence
        BY <2>4, <4>2, TimersAssumption DEF Scheduling, Ids
      <4> QED
        BY <1>1, <3>1, <3>2, <4>1, <4>3 DEF Asking
    <3> QED
      BY <2>1, <2>5, <3>1, <3>2 DEF Asking
  <2> QED
    BY <2>6, <2>7
<1>2. \A p \in posted : Asking(p)'
  BY <1>1 DEF Scheduling, HeapExact, TypeOK, RemovalsAsked
<1>3. ASSUME NEW r \in Regs, off[r] # None
      PROVE  Asking(off[r])'
  <2>1. off[r] \in Removals /\ Asking(off[r])
    BY <1>3 DEF Scheduling, HeapExact, TypeOK, RemovalsAsked
  <2>2. PICK x : x = off[r]
    OBVIOUS
  <2>3. Asking(x)'
    BY <1>1, <2>1, <2>2
  <2>4. off' = off
    OBVIOUS
  <2> QED
    BY <2>2, <2>3, <2>4 DEF Asking
<1> QED
  BY <1>2, <1>3 DEF RemovalsAsked

\* The entry pushed for the new timer.
NewEntry(d) == [deadline |-> d, sequence |-> sequence, slot |-> FreeSlot,
                generation |-> Reserved[FreeSlot].generation]

\* It is of no older timer.
LEMMA NewEntryFacts ==
    ASSUME Scheduling, NEW d \in Times
    PROVE  /\ NewEntry(d) \in Entries
           /\ NewEntry(d).deadline = d /\ NewEntry(d).sequence = sequence
           /\ NewEntry(d).slot = FreeSlot /\ NewEntry(d).generation = Reserved[FreeSlot].generation
           /\ \A e \in q.heap : /\ e.sequence # sequence
                                /\ ~(e.slot = FreeSlot /\ e.generation = Reserved[FreeSlot].generation)
<1>1. /\ FreeSlot \in Nat /\ Reserved[FreeSlot].generation \in Generations /\ sequence \in Ids
      /\ sequence \in Nat
      /\ FreeSlot \in 1..Len(slots) => slots[FreeSlot].generation < Reserved[FreeSlot].generation
  BY StartFacts
<1>2. NewEntry(d) \in Entries
  BY <1>1 DEF NewEntry, Entries
<1>3. ASSUME NEW e \in q.heap
      PROVE  /\ e.sequence # sequence
             /\ ~(e.slot = FreeSlot /\ e.generation = Reserved[FreeSlot].generation)
  <2>1. /\ e.sequence < sequence /\ e.slot \in 1..Len(slots)
        /\ e.generation \in 1..slots[e.slot].generation /\ e \in Entries /\ slots[e.slot] \in Slots
    BY DEF Scheduling, HeapExact, EntriesExact, TypeOK, Queues
  <2>2. e.sequence \in Nat /\ slots[e.slot].generation \in Nat
        /\ Reserved[FreeSlot].generation \in Nat
    BY <1>1, <2>1 DEF Entries, Ids, Slots, Generations
  <2> QED
    BY <1>1, <2>1, <2>2
<1> QED
  BY <1>2, <1>3 DEF NewEntry

\* The queue with it.
LEMMA PushedFacts ==
    ASSUME Scheduling, NEW d \in Times
    PROVE  /\ Exact(Filled, Pushed(d)) /\ Pushed(d).heap = q.heap \cup {NewEntry(d)}
           /\ Pushed(d).armed = q.armed /\ Pushed(d).wait = q.wait /\ Pushed(d).deadline = q.deadline
           /\ \A e, f \in Pushed(d).heap : e.sequence = f.sequence => e = f
           /\ HasLiveEntry(Filled, NewEntry(d))
<1>1. /\ NewEntry(d) \in Entries
      /\ NewEntry(d).deadline = d /\ NewEntry(d).sequence = sequence
      /\ NewEntry(d).slot = FreeSlot /\ NewEntry(d).generation = Reserved[FreeSlot].generation
      /\ \A e \in q.heap : e.sequence # sequence
  BY NewEntryFacts
<1>2. /\ q \in Queues /\ IsFiniteSet(q.heap) /\ q.stale = Cardinality(Dead(slots, q.heap))
      /\ q.heap \subseteq Entries
  BY DEF Scheduling, HeapExact, TypeOK, StaleCountExact, Queues
<1>3. PICK n \in Entries : n = NewEntry(d)
  BY <1>1
<1>4. PICK H \in SUBSET Entries : H = q.heap \cup {n}
  BY <1>2
<1>5. Pushed(d) = [q EXCEPT !.heap = H]
  BY <1>3, <1>4 DEF Pushed, NewEntry
<1>6. /\ Pushed(d) \in Queues /\ Pushed(d).heap = H /\ Pushed(d).stale = q.stale
      /\ Pushed(d).armed = q.armed /\ Pushed(d).wait = q.wait /\ Pushed(d).deadline = q.deadline
  BY <1>2, <1>5 DEF Queues
<1>7. IsFiniteSet(H)
  BY <1>2, <1>4, FS_AddElement
<1>8. HasLiveEntry(Filled, NewEntry(d))
  <2>1. /\ Starts(Filled) /\ Filled[FreeSlot].occupied /\ Len(Filled) = Len(Reserved)
        /\ Filled[FreeSlot].generation = Reserved[FreeSlot].generation
        /\ Filled[FreeSlot].cancelRequested = FALSE
    BY StartsAll DEF Starts
  <2>2. FreeSlot \in 1..Len(Reserved) /\ Reserved[FreeSlot].generation # 0
    BY StartFacts
  <2> QED
    BY <1>1, <2>1, <2>2 DEF HasLiveEntry, HasOccupied
<1>9. Dead(Filled, H) = Dead(slots, q.heap)
  <2>1. \A e \in q.heap : HasLiveEntry(Filled, e) <=> HasLiveEntry(slots, e)
    BY StartsAll, StartLive
  <2> QED
    BY <1>3, <1>4, <1>8, <2>1 DEF Dead
<1>10. \A e, f \in H : e.sequence = f.sequence => e = f
  <2>1. \A e, f \in q.heap : e.sequence = f.sequence => e = f
    BY DEF Scheduling, HeapExact, EntriesExact
  <2> QED
    BY <1>1, <1>3, <1>4, <2>1
<1> QED
  BY <1>2, <1>3, <1>4, <1>6, <1>7, <1>8, <1>9, <1>10 DEF Exact

\* Inside a round the deadline is not before the round's.
LEMMA DeadlineFacts ==
    ASSUME TypeOK, NEW at \in Times
    PROVE  Deadline(at) \in Times /\ (round # None => Deadline(at) >= round.now)
<1>1. CASE round = None
  BY <1>1 DEF Deadline
<1>2. CASE round # None
  <2>1. round.now \in Times
    BY <1>2 DEF TypeOK, Rounds
  <2>2. at \in Nat /\ round.now \in Nat
    BY <2>1 DEF Times
  <2>3. Max({at, round.now}) \in {at, round.now} /\ Max({at, round.now}) >= round.now
    <3>1. \E x \in {at, round.now} : \A y \in {at, round.now} : x >= y
      BY <2>2
    <3> QED
      BY <3>1 DEF Max
  <2> QED
    BY <1>2, <2>1, <2>3 DEF Deadline
<1> QED
  BY <1>1, <1>2

\* What the call does to the queue.
StartQueue(d) ==
    /\ q' \in Queues /\ IsFiniteSet(q'.heap) /\ q'.stale = Cardinality(Dead(slots', q'.heap))
    /\ q'.heap \subseteq q.heap \cup {NewEntry(d)}
    /\ \A e \in q.heap : HasLiveEntry(slots, e) => e \in q'.heap
    /\ slots'[FreeSlot].occupied => NewEntry(d) \in q'.heap
    /\ q'.armed <=> q'.wait # None
    /\ q'.armed => round = None /\ q'.wait = q'.deadline
    /\ round = None => \A e \in q'.heap : HasLiveEntry(slots', e) => q'.armed /\ q'.wait <= e.deadline

\* Such a call keeps the invariant.
LEMMA StartInv ==
    ASSUME Scheduling, TypeOK', Starts(slots'), sequence' = sequence + 1, NEW d \in Times,
           StartQueue(d), round # None => d >= round.now,
           \/ slots'[FreeSlot].occupied /\ free' = FreeRest
           \/ ~slots'[FreeSlot].occupied /\ free' = <<FreeSlot>> \o FreeRest,
           held' = None, stopping' = stopping, sweep' = sweep, round' = round,
           off' = off, posted' = posted, \A i \in Ids : i # sequence => status'[i] = status[i]
    PROVE  HeapExact'
<1>1. /\ FreeSlot \in 1..Len(Reserved) /\ Reserved[FreeSlot].generation \in 1..(sequence + 1)
      /\ sequence \in Nat /\ Len(slots') = Len(Reserved) /\ slots \in Seq(Slots) /\ sweep = 0
      /\ Len(slots) \in Nat /\ Len(Reserved) \in Nat /\ Len(slots) <= Len(Reserved)
      /\ FreeSlot \in 1..Len(slots) => slots[FreeSlot].generation < Reserved[FreeSlot].generation
      /\ slots'[FreeSlot].generation = Reserved[FreeSlot].generation
  BY StartFacts DEF Starts, Scheduling, HeapExact, TypeOK
<1>2. \A z \in 1..Len(slots') : z # FreeSlot => z \in 1..Len(slots) /\ slots'[z] = slots[z]
  BY <1>1 DEF Starts
<1>3. /\ NewEntry(d) \in Entries
      /\ NewEntry(d).deadline = d /\ NewEntry(d).sequence = sequence
      /\ NewEntry(d).slot = FreeSlot /\ NewEntry(d).generation = Reserved[FreeSlot].generation
      /\ \A e \in q.heap : /\ e.sequence # sequence
                           /\ ~(e.slot = FreeSlot /\ e.generation = Reserved[FreeSlot].generation)
  BY NewEntryFacts
<1>4. \A z : ~Expiring(z)'
  BY DEF Expiring
<1>5. PICK n : n = NewEntry(d)
  OBVIOUS
<1>6. SlotsExact'
  BY <1>1, StartSlots
<1>7. RemovalsAsked'
  BY StartRemovals
<1>8. StaleCountExact' /\ ArmedCoversHeap'
  BY DEF StartQueue, StaleCountExact, ArmedCoversHeap
<1>9. LiveTimerInHeap'
  <2>1. FreeListOf(slots', free')
    BY StartFree
  <2>2. /\ \A s \in 1..Len(slots') : slots'[s].occupied <=> \A i \in 1..Len(free') : free'[i] # s
        /\ \A i, j \in 1..Len(free') : free'[i] = free'[j] => i = j
    BY <2>1, FreeListWords
  <2>3. ASSUME NEW z \in 1..Len(slots'), slots'[z].occupied, ~slots'[z].cancelRequested
        PROVE  \E e \in q'.heap : e.slot = z /\ e.generation = slots'[z].generation
    <3>1. CASE z = FreeSlot
      BY <1>1, <1>3, <2>3, <3>1 DEF StartQueue
    <3>2. CASE z # FreeSlot
      <4>1. z \in 1..Len(slots) /\ slots'[z] = slots[z] /\ ~Expiring(z)
        BY <1>2, <3>2 DEF Expiring, Scheduling
      <4>2. PICK e \in q.heap : e.slot = z /\ e.generation = slots[z].generation
        BY <2>3, <4>1 DEF Scheduling, HeapExact, LiveTimerInHeap
      <4>3. HasLiveEntry(slots, e)
        BY <2>3, <4>1, <4>2 DEF Scheduling, HeapExact, SlotsExact, HasLiveEntry, HasOccupied
      <4> QED
        BY <4>1, <4>2, <4>3 DEF StartQueue
    <3> QED
      BY <3>1, <3>2
  <2> QED
    BY <2>2, <2>3 DEF LiveTimerInHeap
<1>10. EntriesExact'
  <2>1. ASSUME NEW e \in q'.heap
        PROVE  /\ e.sequence < sequence' /\ e.slot \in 1..Len(slots')
               /\ e.generation \in 1..slots'[e.slot].generation
    <3>1. CASE e = n
      BY <1>1, <1>3, <1>5, <3>1
    <3>2. CASE e \in q.heap
      <4>1. /\ e.sequence < sequence /\ e.slot \in 1..Len(slots)
            /\ e.generation \in 1..slots[e.slot].generation /\ e \in Entries
        BY <3>2 DEF Scheduling, HeapExact, EntriesExact, TypeOK, Queues
      <4>2. slots[e.slot] \in Slots
        BY <1>1, <4>1
      <4>3. slots[e.slot].generation \in Nat /\ e.sequence \in Nat
        BY <4>1, <4>2 DEF Slots, Generations, Entries, Ids
      <4>4. e.slot \in 1..Len(slots') /\ e.sequence < sequence'
        BY <1>1, <4>1, <4>3
      <4>5. CASE e.slot = FreeSlot
        BY <1>1, <4>1, <4>3, <4>4, <4>5
      <4>6. CASE e.slot # FreeSlot
        BY <1>2, <4>1, <4>4, <4>6
      <4> QED
        BY <4>4, <4>5, <4>6
    <3> QED
      BY <1>5, <3>1, <3>2 DEF StartQueue
  <2>2. ASSUME NEW e \in q'.heap, NEW f \in q'.heap,
               e.sequence = f.sequence \/ (e.slot = f.slot /\ e.generation = f.generation)
        PROVE  e = f
    <3>1. CASE e \in q.heap /\ f \in q.heap
      BY <2>2, <3>1 DEF Scheduling, HeapExact, EntriesExact
    <3>2. CASE e = n \/ f = n
      BY <1>3, <1>5, <2>2, <3>2 DEF StartQueue
    <3> QED
      BY <1>5, <3>1, <3>2 DEF StartQueue
  <2>3. ~stopping'
    BY DEF Scheduling
  <2> QED
    BY <1>4, <2>1, <2>2, <2>3 DEF EntriesExact
<1>11. BehindRound'
  <2>1. SUFFICES ASSUME round # None
                 PROVE  /\ round.limit <= sequence'
                        /\ \A e \in q'.heap : e.sequence >= round.limit => e.deadline >= round.now
    BY DEF BehindRound
  <2>2. round.limit <= sequence /\ round.limit \in Nat
    BY <2>1 DEF Scheduling, HeapExact, TypeOK, BehindRound, Rounds, Generations
  <2>3. \A e \in q.heap : e.sequence >= round.limit => e.deadline >= round.now
    BY <2>1 DEF Scheduling, HeapExact, BehindRound
  <2> QED
    BY <1>1, <1>3, <2>1, <2>2, <2>3 DEF StartQueue
<1> QED
  BY <1>6, <1>7, <1>8, <1>9, <1>10, <1>11 DEF HeapExact

\* The call leaves a well-formed state.
LEMMA StartType ==
    ASSUME Scheduling, Starts(slots'), sequence' = sequence + 1,
           q' \in Queues, IsFiniteSet(q'.heap),
           \/ slots'[FreeSlot].occupied /\ free' = FreeRest
           \/ ~slots'[FreeSlot].occupied /\ free' = <<FreeSlot>> \o FreeRest,
           clock' = clock, round' = round, inCallback' = inCallback, held' = None,
           stopping' \in BOOLEAN, sweep' \in {0, 1}, off' = off, posted' = posted,
           cancels' = cancels, failures' \in 0..MaxFailures,
           NEW r \in Regs, NEW b \in [slot : Nat, generation : Generations],
           bound' = [bound EXCEPT ![r] = b],
           NEW w \in {"pending", "withdrawn"}, status' = [status EXCEPT ![sequence] = w]
    PROVE  TypeOK' /\ \A i \in Ids : i # sequence => status'[i] = status[i]
<1>1. TypeOK
  BY DEF Scheduling, HeapExact
<1>2. free' \in Seq(1..Len(slots')) /\ slots' \in Seq(Slots)
  BY StartFree DEF Starts
<1>3. sequence' \in 0..MaxSchedules /\ Len(slots') \in Nat
  BY <1>2, StartFacts
<1>4. sweep' \in 0..(Len(slots') + 1)
  BY <1>3
<1>5. bound' \in [Regs -> [slot : Nat, generation : Generations]]
  BY <1>1 DEF TypeOK
<1>6. /\ status' \in [Ids -> {"none"} \cup Open \cup Settled]
      /\ \A i \in Ids : i # sequence => status'[i] = status[i]
  BY <1>1 DEF TypeOK, Open, Settled
<1> QED
  BY <1>1, <1>2, <1>3, <1>4, <1>5, <1>6 DEF TypeOK

LEMMA ScheduleKeeps ==
    ASSUME HeapExact, NEW r \in Regs, NEW at \in Times, Schedule(r, at)
    PROVE  HeapExact'
<1> USE DEF Schedule, MaySchedule, UserCode, worker, firing, halt
<1>1. Scheduling
  BY DEF Scheduling
<1>2. PICK d \in Times : d = Deadline(at) /\ (round # None => d >= round.now)
  BY DeadlineFacts DEF HeapExact
<1>3. Starts(slots') /\ slots'[FreeSlot].occupied
  BY <1>1, StartsAll
<1>4. /\ Exact(Filled, Pushed(d)) /\ Pushed(d).heap = q.heap \cup {NewEntry(d)}
      /\ Pushed(d).armed = q.armed /\ Pushed(d).wait = q.wait /\ Pushed(d).deadline = q.deadline
      /\ \A e, f \in Pushed(d).heap : e.sequence = f.sequence => e = f
      /\ HasLiveEntry(Filled, NewEntry(d))
  BY <1>1, PushedFacts
<1>5. \A e \in q.heap : HasLiveEntry(slots', e) <=> HasLiveEntry(slots, e)
  BY <1>1, <1>3, StartLive
<1>6. slots' = Filled
  OBVIOUS
<1>7. StartQueue(d)
  <2>1. CASE NeedsArm(d)
    <3>1. PICK a \in Arm(Filled, Pushed(d)) : ~a.throws /\ q' = a.queue
      BY <1>2, <2>1
    <3>2. /\ Exact(Filled, a.queue) /\ Keeps(Filled, Pushed(d), a.queue)
          /\ a.queue.armed <=> a.queue.wait # None
          /\ a.queue.armed => a.queue.wait = a.queue.deadline
          /\ ~a.throws => \A e \in a.queue.heap : a.queue.armed /\ a.queue.wait <= e.deadline
      BY <1>1, <1>4, ArmExact DEF Scheduling
    <3> QED
      BY <1>4, <1>5, <1>6, <2>1, <3>1, <3>2 DEF StartQueue, Exact, Keeps, NeedsArm
  <2>2. CASE ~NeedsArm(d)
    <3>1. q' = Pushed(d)
      BY <1>2, <2>2
    <3>2. /\ q.armed <=> q.wait # None
          /\ q.armed => round = None /\ q.wait = q.deadline
          /\ round = None => \A e \in q.heap : HasLiveEntry(slots, e) => q.armed /\ q.wait <= e.deadline
      BY <1>1 DEF Scheduling, HeapExact, ArmedCoversHeap
    <3>3. round = None => q.armed /\ q.wait <= d
      <4>1. q.deadline \in Nat /\ d \in Nat
        BY DEF HeapExact, TypeOK, Queues, Times
      <4> QED
        BY <2>2, <3>2, <4>1 DEF NeedsArm
    <3>4. NewEntry(d).deadline = d
      BY DEF NewEntry
    <3> QED
      BY <1>4, <1>5, <1>6, <3>1, <3>2, <3>3, <3>4 DEF StartQueue, Exact
  <2> QED
    BY <2>1, <2>2
<1>8. PICK b \in [slot : Nat, generation : Generations] : bound' = [bound EXCEPT ![r] = b]
  <2>1. FreeSlot \in Nat /\ Filled[FreeSlot].generation \in Generations
    BY <1>1, <1>3, <1>6, StartFacts DEF Starts
  <2> QED
    BY <2>1
<1>9. sweep = 0 /\ sweep' = sweep /\ stopping' = stopping /\ stopping \in BOOLEAN
      /\ failures \in 0..MaxFailures
  BY <1>1, StartFacts DEF Scheduling, HeapExact, TypeOK
<1>10. /\ clock' = clock /\ round' = round /\ inCallback' = inCallback /\ held' = None
       /\ off' = off /\ posted' = posted /\ cancels' = cancels /\ failures' = failures
       /\ sequence' = sequence + 1 /\ free' = FreeRest
       /\ status' = [status EXCEPT ![sequence] = "pending"]
  BY <1>1 DEF Scheduling
<1>11. TypeOK' /\ \A i \in Ids : i # sequence => status'[i] = status[i]
  BY <1>1, <1>3, <1>7, <1>8, <1>9, <1>10, StartType DEF StartQueue
<1> QED
  BY <1>1, <1>2, <1>3, <1>7, <1>9, <1>10, <1>11, StartInv

\* A call that fails, up to the slots and the queue.
LEMMA WithdrawType ==
    ASSUME Scheduling, NEW r \in Regs, Withdraw(r), Starts(slots'), ~slots'[FreeSlot].occupied,
           q' \in Queues, IsFiniteSet(q'.heap), stopping' \in BOOLEAN, sweep' \in {0, 1},
           failures' \in 0..MaxFailures
    PROVE  /\ TypeOK' /\ \A i \in Ids : i # sequence => status'[i] = status[i]
           /\ sequence' = sequence + 1 /\ round' = round /\ held' = None
           /\ off' = off /\ posted' = posted /\ free' = <<FreeSlot>> \o FreeRest
<1> USE DEF Withdraw, firing
<1>1. /\ clock' = clock /\ round' = round /\ inCallback' = inCallback /\ held' = None
      /\ off' = off /\ posted' = posted /\ cancels' = cancels
      /\ sequence' = sequence + 1 /\ free' = <<FreeSlot>> \o FreeRest
      /\ status' = [status EXCEPT ![sequence] = "withdrawn"]
  BY DEF Scheduling
<1>2. PICK b \in [slot : Nat, generation : Generations] : bound' = [bound EXCEPT ![r] = b]
  <2>1. 0 \in Generations
    BY TimersAssumption DEF Generations
  <2>2. Unbound \in [slot : Nat, generation : Generations]
    BY <2>1 DEF Unbound
  <2>3. bound' = [bound EXCEPT ![r] = Unbound]
    OBVIOUS
  <2> QED
    BY <2>2, <2>3
<1>3. TypeOK' /\ \A i \in Ids : i # sequence => status'[i] = status[i]
  BY <1>1, <1>2, StartType
<1> QED
  BY <1>1, <1>3

LEMMA SchedulePushThrowsKeeps ==
    ASSUME HeapExact, NEW r \in Regs, SchedulePushThrows(r)
    PROVE  HeapExact'
<1> USE DEF SchedulePushThrows, MaySchedule, UserCode, halt
<1>1. Scheduling /\ Withdraw(r)
  BY DEF Scheduling
<1>2. PICK d \in Times : round # None => d >= round.now
  <2>1. clock \in Times
    BY DEF HeapExact, TypeOK
  <2> QED
    BY <2>1, DeadlineFacts DEF HeapExact
<1>3. Starts(slots') /\ ~slots'[FreeSlot].occupied /\ slots' = Reserved
  BY <1>1, StartsAll
<1>4. \A e \in q.heap : HasLiveEntry(slots', e) <=> HasLiveEntry(slots, e)
  BY <1>1, <1>3, StartLive
<1>5. q' = q /\ q \in Queues /\ IsFiniteSet(q.heap) /\ q.stale = Cardinality(Dead(slots, q.heap))
  BY <1>1 DEF Scheduling, HeapExact, TypeOK, StaleCountExact
<1>6. Dead(slots', q.heap) = Dead(slots, q.heap)
  BY <1>4 DEF Dead
<1>7. StartQueue(d)
  BY <1>1, <1>3, <1>4, <1>5, <1>6 DEF StartQueue, Scheduling, HeapExact, ArmedCoversHeap
<1>8. sweep = 0 /\ sweep' = sweep /\ stopping' = stopping /\ stopping \in BOOLEAN
      /\ failures' \in 0..MaxFailures
  <2>1. failures \in 0..MaxFailures /\ stopping \in BOOLEAN
    BY DEF HeapExact, TypeOK
  <2>2. failures' \in 0..MaxFailures
    BY <2>1, TimersAssumption
  <2> QED
    BY <1>1, <2>1, <2>2, StartFacts
<1>9. /\ TypeOK' /\ \A i \in Ids : i # sequence => status'[i] = status[i]
      /\ sequence' = sequence + 1 /\ round' = round /\ held' = None
      /\ off' = off /\ posted' = posted /\ free' = <<FreeSlot>> \o FreeRest
  BY <1>1, <1>3, <1>5, <1>8, WithdrawType
<1> QED
  BY <1>1, <1>2, <1>3, <1>7, <1>8, <1>9, StartInv

\* A call that gives up on the queue.
LEMMA WithdrawStops ==
    ASSUME Scheduling, NEW r \in Regs, Withdraw(r), Starts(slots'), ~slots'[FreeSlot].occupied,
           NEW Q \in Queues, BeginSweep(Q), failures' \in 0..MaxFailures
    PROVE  HeapExact'
<1>1. q' = Drained(Q) /\ stopping' = TRUE /\ sweep' = 1
  BY DEF BeginSweep
<1>2. q' \in Queues /\ q'.heap = {} /\ q'.armed = FALSE /\ q'.wait = None /\ IsFiniteSet(q'.heap)
  BY <1>1, DrainedQueue, FS_EmptySet
<1>3. /\ TypeOK' /\ \A i \in Ids : i # sequence => status'[i] = status[i]
      /\ sequence' = sequence + 1 /\ round' = round /\ held' = None
      /\ off' = off /\ posted' = posted
  BY <1>1, <1>2, WithdrawType
<1>4. SlotsExact' /\ RemovalsAsked'
  BY <1>1, <1>3, StartSlots, StartRemovals
<1>5. round # None => round.limit <= sequence + 1
  <2>1. round # None => round.limit <= sequence /\ round.limit \in Nat
    BY DEF Scheduling, HeapExact, TypeOK, BehindRound, Rounds, Generations
  <2> QED
    BY <2>1, StartFacts
<1> QED
  BY <1>1, <1>2, <1>3, <1>4, <1>5, StoppedInv

LEMMA ScheduleStopsTimersKeeps ==
    ASSUME HeapExact, NEW r \in Regs, ScheduleStopsTimers(r)
    PROVE  HeapExact'
<1> USE DEF ScheduleStopsTimers, MaySchedule, UserCode
<1>1. Scheduling /\ Withdraw(r) /\ slots' = Reserved /\ BeginSweep(q)
  BY DEF Scheduling
<1>2. Starts(slots') /\ ~slots'[FreeSlot].occupied
  BY <1>1, StartsAll
<1>3. q \in Queues /\ failures' \in 0..MaxFailures
  BY DEF HeapExact, TypeOK
<1> QED
  BY <1>1, <1>2, <1>3, WithdrawStops

LEMMA ScheduleArmThrowsKeeps ==
    ASSUME HeapExact, NEW r \in Regs, NEW at \in Times, ScheduleArmThrows(r, at)
    PROVE  HeapExact'
<1> USE DEF ScheduleArmThrows, MaySchedule, UserCode
<1>1. Scheduling /\ Withdraw(r) /\ slots' = Released(Filled, FreeSlot)
  BY DEF Scheduling
<1>2. PICK d \in Times : d = Deadline(at) /\ (round # None => d >= round.now)
  BY DeadlineFacts DEF HeapExact
<1>3. /\ Starts(slots') /\ ~slots'[FreeSlot].occupied
      /\ \A e \in q.heap : HasLiveEntry(slots', e) <=> HasLiveEntry(slots, e)
      /\ \A e \in q.heap : HasLiveEntry(Filled, e) <=> HasLiveEntry(slots, e)
  BY <1>1, StartsAll, StartLive
<1>4. /\ Exact(Filled, Pushed(d)) /\ Pushed(d).heap = q.heap \cup {NewEntry(d)}
      /\ \A e, f \in Pushed(d).heap : e.sequence = f.sequence => e = f
      /\ HasLiveEntry(Filled, NewEntry(d))
  BY <1>1, PushedFacts
<1>5. NeedsArm(d) /\ round = None
  BY <1>2 DEF NeedsArm
<1>6. PICK a \in Arm(Filled, Pushed(d)) :
          /\ a.throws
          /\ \E b \in Arm(slots', NoteStale(slots', a.queue)) :
                /\ failures' = failures + (IF b.throws THEN 2 ELSE 1) /\ failures' <= MaxFailures
                /\ IF b.throws THEN BeginSweep(b.queue) ELSE q' = b.queue /\ UNCHANGED halt
  BY <1>2
<1>7. PICK b \in Arm(slots', NoteStale(slots', a.queue)) :
          /\ failures' = failures + (IF b.throws THEN 2 ELSE 1) /\ failures' <= MaxFailures
          /\ IF b.throws THEN BeginSweep(b.queue) ELSE q' = b.queue /\ UNCHANGED halt
  BY <1>6
<1>8. Exact(Filled, a.queue) /\ Keeps(Filled, Pushed(d), a.queue)
  BY <1>1, <1>4, ArmExact DEF Scheduling
<1>9. PICK n : n = NewEntry(d)
  OBVIOUS
<1>10. n \in a.queue.heap /\ a.queue.heap \subseteq q.heap \cup {n}
  BY <1>4, <1>8, <1>9 DEF Keeps
<1>11. ~HasLiveEntry(slots', n)
  BY <1>3, <1>9 DEF NewEntry, HasLiveEntry, HasOccupied
<1>12. a.queue.stale + 1 = Cardinality(Dead(slots', a.queue.heap))
  <2>1. PICK H : H = a.queue.heap
    OBVIOUS
  <2>2. PICK ss : ss = slots'
    OBVIOUS
  <2>3. /\ IsFiniteSet(H) /\ n \in H /\ HasLiveEntry(Filled, n) /\ ~HasLiveEntry(ss, n)
        /\ \A f \in H : f # n => (HasLiveEntry(Filled, f) <=> HasLiveEntry(ss, f))
    BY <1>3, <1>4, <1>8, <1>9, <1>10, <1>11, <2>1, <2>2 DEF Exact
  <2>4. Cardinality(Dead(ss, H)) = Cardinality(Dead(Filled, H)) + 1
    BY <2>3, OneMoreDead
  <2> QED
    BY <1>8, <2>1, <2>2, <2>4 DEF Exact
<1>13. PICK N : N = NoteStale(slots', a.queue)
  OBVIOUS
<1>14. Exact(slots', N) /\ Keeps(slots', a.queue, N)
  <2>1. a.queue \in Queues /\ IsFiniteSet(a.queue.heap)
    BY <1>8 DEF Exact
  <2> QED
    BY <1>12, <1>13, <2>1, NoteStaleExact
<1>15. \A e, f \in N.heap : e.sequence = f.sequence => e = f
  BY <1>4, <1>8, <1>14 DEF Keeps
<1>16. b \in Arm(slots', N) /\ ~stopping
  BY <1>7, <1>13
<1>17. /\ Exact(slots', b.queue) /\ Keeps(slots', N, b.queue) /\ b.throws \in BOOLEAN
       /\ b.queue.armed <=> b.queue.wait # None
       /\ b.queue.armed => b.queue.wait = b.queue.deadline
       /\ ~b.throws => \A e \in b.queue.heap : b.queue.armed /\ b.queue.wait <= e.deadline
  BY <1>14, <1>15, <1>16, ArmExact
<1>18. failures' \in 0..MaxFailures
  <2>1. failures \in Nat /\ MaxFailures \in Nat
    BY TimersAssumption DEF HeapExact, TypeOK
  <2> QED
    BY <1>7, <2>1
<1>19. CASE b.throws
  <2>1. BeginSweep(b.queue) /\ b.queue \in Queues
    BY <1>7, <1>17, <1>19 DEF Exact
  <2> QED
    BY <1>1, <1>3, <1>18, <2>1, WithdrawStops
<1>20. CASE ~b.throws
  <2>1. q' = b.queue /\ stopping' = stopping /\ sweep' = sweep
    BY <1>7, <1>20 DEF halt
  <2>2. StartQueue(d)
    <3>1. q'.heap \subseteq q.heap \cup {NewEntry(d)}
      BY <1>9, <1>10, <1>14, <1>17, <2>1 DEF Keeps
    <3>2. ASSUME NEW e \in q.heap, HasLiveEntry(slots, e)
          PROVE  e \in q'.heap
      <4>1. HasLiveEntry(Filled, e) /\ HasLiveEntry(slots', e)
        BY <1>3, <3>2
      <4>2. e \in a.queue.heap
        BY <1>4, <1>8, <4>1 DEF Keeps
      <4> QED
        BY <1>14, <1>17, <2>1, <4>1, <4>2 DEF Keeps
    <3> QED
      BY <1>3, <1>5, <1>17, <1>20, <2>1, <3>1, <3>2 DEF StartQueue, Exact
  <2>3. sweep = 0 /\ stopping \in BOOLEAN /\ q' \in Queues /\ IsFiniteSet(q'.heap)
    BY <1>1, <2>2, StartFacts DEF StartQueue, Scheduling, HeapExact, TypeOK
  <2>4. /\ TypeOK' /\ \A i \in Ids : i # sequence => status'[i] = status[i]
        /\ sequence' = sequence + 1 /\ round' = round /\ held' = None
        /\ off' = off /\ posted' = posted /\ free' = <<FreeSlot>> \o FreeRest
    BY <1>1, <1>3, <1>18, <2>1, <2>3, WithdrawType
  <2> QED
    BY <1>1, <1>2, <1>3, <2>1, <2>2, <2>4, StartInv
<1> QED
  BY <1>17, <1>19, <1>20

-----------------------------------------------------------------------------
(* Timers: the theorems                                                     *)

LEMMA InitTimers == Init => HeapExact
<1> SUFFICES ASSUME Init PROVE HeapExact
  OBVIOUS
<1> USE DEF Init
<1>1. 0 \in Times /\ 0 \in Generations
  BY TimersAssumption DEF Times, Generations
<1>2. q \in Queues /\ q.heap = {} /\ q.stale = 0 /\ q.armed = FALSE /\ q.wait = None
  BY <1>1 DEF Queues
<1>3. IsFiniteSet({}) /\ Cardinality({}) = 0
  BY FS_EmptySet
<1>4. slots \in Seq(Slots) /\ Len(slots) = 0 /\ free \in Seq(1..Len(slots)) /\ Len(free) = 0
  OBVIOUS
<1>5. bound \in [Regs -> [slot : Nat, generation : Generations]]
  <2>1. Unbound \in [slot : Nat, generation : Generations]
    BY <1>1 DEF Unbound
  <2> QED
    BY <2>1
<1>6. TypeOK
  <2>1. status \in [Ids -> {"none"} \cup Open \cup Settled] /\ off \in [Regs -> Removals \cup {None}]
    OBVIOUS
  <2>2. sequence \in 0..MaxSchedules /\ cancels \in 0..MaxCancels /\ failures \in 0..MaxFailures
        /\ sweep \in 0..(Len(slots) + 1) /\ clock \in Times
    BY <1>1, <1>4, TimersAssumption
  <2> QED
    BY <1>2, <1>3, <1>4, <1>5, <2>1, <2>2 DEF TypeOK
<1>7. Dead(slots, q.heap) = {}
  BY <1>2 DEF Dead
<1>8. StaleCountExact /\ EntriesExact /\ ArmedCoversHeap /\ BehindRound
  BY <1>2, <1>3, <1>7 DEF StaleCountExact, EntriesExact, ArmedCoversHeap, BehindRound
<1>9. LiveTimerInHeap /\ SlotsExact /\ RemovalsAsked
  BY <1>4 DEF LiveTimerInHeap, SlotsExact, RemovalsAsked
<1> QED
  BY <1>6, <1>8, <1>9 DEF HeapExact

LEMMA NextTimers ==
    ASSUME HeapExact, [Next]_vars
    PROVE  HeapExact'
<1>1. ASSUME NEW r \in Regs, NEW at \in 0..MaxTime, Schedule(r, at) \/ ScheduleArmThrows(r, at)
      PROVE  HeapExact'
  <2>1. at \in Times
    BY DEF Times
  <2> QED
    BY <1>1, <2>1, ScheduleKeeps, ScheduleArmThrowsKeeps
<1>2. ASSUME NEW r \in Regs, SchedulePushThrows(r) \/ ScheduleStopsTimers(r) \/ Cancel(r)
                               \/ PostCancellation(r)
      PROVE  HeapExact'
  BY <1>2, SchedulePushThrowsKeeps, ScheduleStopsTimersKeeps, CancelKeeps, PostCancellationKeeps
<1>3. ASSUME NEW r \in Regs, NEW notify \in BOOLEAN, CancelElsewhere(r, notify)
      PROVE  HeapExact'
  BY <1>3, CancelElsewhereKeeps
<1>4. ASSUME NEW s \in 1..Len(slots), NEW g \in 1..slots[s].generation,
             CancelAndNotify(s, g) \/ TokenCancelElsewhere(s, g)
      PROVE  HeapExact'
  BY <1>4, CancelAndNotifyKeeps, TokenCancelElsewhereKeeps
<1>5. ASSUME NEW p \in posted, RunPosted(p)
      PROVE  HeapExact'
  BY <1>5, RunPostedKeeps
<1>6. CASE Tick \/ BeginRound \/ Fire \/ CallbackReturns \/ EndRound \/ ReleaseHeld \/ Sweep
           \/ StopTimers \/ Detach \/ UNCHANGED vars
  BY <1>6, TickKeeps, BeginRoundKeeps, FireKeeps, CallbackReturnsKeeps, EndRoundKeeps,
     ReleaseHeldKeeps, SweepKeeps, StopTimersKeeps, DetachKeeps, StutterKeeps
<1> QED
  BY <1>1, <1>2, <1>3, <1>4, <1>5, <1>6 DEF Next, WorkerStep

\* The heap, the count of its dead entries, the slots, the free list, the armed
\* wait and the removals agree in every reachable state: note_stale_timer() and
\* arm_timer() never drop a live timer, and no live timer is without a wakeup.
THEOREM TimersInvariant == Spec => []HeapExact
<1>1. Init => HeapExact
  BY InitTimers
<1>2. HeapExact /\ [Next]_vars => HeapExact'
  BY NextTimers
<1> QED
  BY <1>1, <1>2, PTL DEF Spec

\* Only the end of a round ends it.
LEMMA OnlyEndRound ==
    ASSUME HeapExact, [Next]_vars, round # None, round' = None
    PROVE  EndRound
<1>1. ASSUME NEW r \in Regs, NEW at, Schedule(r, at) \/ ScheduleArmThrows(r, at)
      PROVE  round' = round
  BY <1>1 DEF Schedule, ScheduleArmThrows, Withdraw, worker, firing
<1>2. ASSUME NEW r \in Regs, SchedulePushThrows(r) \/ ScheduleStopsTimers(r) \/ Cancel(r)
                               \/ PostCancellation(r)
      PROVE  round' = round
  BY <1>2 DEF SchedulePushThrows, ScheduleStopsTimers, Cancel, PostCancellation, Withdraw, worker, firing
<1>3. ASSUME NEW r \in Regs, NEW notify, CancelElsewhere(r, notify)
      PROVE  round' = round
  BY <1>3 DEF CancelElsewhere, worker, firing
<1>4. ASSUME NEW s, NEW g, CancelAndNotify(s, g) \/ TokenCancelElsewhere(s, g)
      PROVE  round' = round
  BY <1>4 DEF CancelAndNotify, TokenCancelElsewhere, worker, firing
<1>5. ASSUME NEW p, RunPosted(p)
      PROVE  round' = round
  BY <1>5 DEF RunPosted, firing
<1>6. ASSUME BeginRound
      PROVE  FALSE
  BY <1>6 DEF BeginRound, Turn
<1>7. ASSUME Tick \/ Fire \/ CallbackReturns \/ ReleaseHeld \/ Sweep \/ StopTimers \/ Detach
             \/ UNCHANGED vars
      PROVE  round' = round
  BY <1>7 DEF Tick, Fire, CallbackReturns, ReleaseHeld, Sweep, StopTimers, Detach, vars, worker, firing
<1> QED
  BY <1>1, <1>2, <1>3, <1>4, <1>5, <1>6, <1>7 DEF Next, WorkerStep

\* What is not due when the front is not.
LEMMA NothingDue ==
    ASSUME HeapExact, round # None, ~Due, NEW e \in q.heap, e.sequence < round.limit
    PROVE  e.deadline > round.now
<1>1. PICK h \in SUBSET Entries : h = q.heap
  BY DEF HeapExact, TypeOK, Queues
<1>2. h # {} /\ \A f, g \in h : f.sequence = g.sequence => f = g
  BY <1>1 DEF HeapExact, EntriesExact
<1>3. /\ Front(h) \in h /\ \A f \in h : Front(h).deadline <= f.deadline
      /\ \A f \in h : f.deadline = Front(h).deadline => Front(h).sequence <= f.sequence
  BY <1>2, FrontEarliest
<1>4. PICK f \in h : f = Front(h)
  BY <1>3
<1>5. /\ e.deadline \in Nat /\ e.sequence \in Nat /\ f.deadline \in Nat /\ f.sequence \in Nat
      /\ round.now \in Nat /\ round.limit \in Nat
  <2>1. round \in Rounds /\ e \in Entries
    BY <1>1 DEF HeapExact, TypeOK
  <2> QED
    BY <2>1 DEF Entries, Rounds, Times, Ids, Generations
<1>6. f.deadline > round.now \/ f.sequence >= round.limit
  BY <1>1, <1>2, <1>4, <1>5 DEF Due
<1>7. f.sequence >= round.limit => f.deadline >= round.now
  BY <1>1 DEF HeapExact, BehindRound
<1>8. f.deadline <= e.deadline /\ (e.deadline = f.deadline => f.sequence <= e.sequence)
  BY <1>1, <1>3, <1>4
<1> QED
  BY <1>5, <1>6, <1>7, <1>8

\* fire_timers(): a round that ends by itself has fired every timer that was due
\* when it began; no completion could hide one by scheduling a timer before it.
THEOREM RoundComplete == Spec => RoundFiresAllDue
<1>1. HeapExact /\ [Next]_vars =>
        [round # None /\ round' = None /\ ~inCallback /\ ~stopping =>
           \A e \in q.heap : HasLiveEntry(slots, e) /\ e.sequence < round.limit =>
                 e.deadline > round.now]_vars
  <2> SUFFICES ASSUME HeapExact, [Next]_vars, round # None, round' = None, ~inCallback,
                      NEW e \in q.heap, e.sequence < round.limit
               PROVE  e.deadline > round.now
    OBVIOUS
  <2>1. ~Due
    BY OnlyEndRound DEF EndRound
  <2> QED
    BY <2>1, NothingDue
<1> QED
  BY <1>1, TimersInvariant, PTL DEF Spec, RoundFiresAllDue

\* Only a release delivers a cancellation.
LEMMA OnlyReleaseCancels ==
    ASSUME HeapExact, [Next]_vars, NEW i \in Ids, status[i] = "pending", status'[i] = "cancelled"
    PROVE  ReleaseHeld
<1>1. status \in [Ids -> {"none"} \cup Open \cup Settled]
  BY DEF HeapExact, TypeOK
<1>2. ASSUME NEW x, NEW w, status' = [status EXCEPT ![x] = w], w # "cancelled"
      PROVE  FALSE
  BY <1>1, <1>2
<1>3. ASSUME NEW r \in Regs, NEW at, Schedule(r, at)
      PROVE  FALSE
  BY <1>2, <1>3 DEF Schedule
<1>4. ASSUME NEW r \in Regs, Withdraw(r)
      PROVE  FALSE
  BY <1>2, <1>4 DEF Withdraw
<1>5. ASSUME status' = status
      PROVE  FALSE
  BY <1>5
<1>6. ASSUME NEW r \in Regs, Cancel(r)
      PROVE  FALSE
  BY <1>2, <1>5, <1>6 DEF Cancel
<1>7. ASSUME NEW s, NEW how \in {"asked", "claimed"}, status' = Asked(s, how)
      PROVE  FALSE
  <2>1. PICK x : x = slots[s].completion
    OBVIOUS
  <2>2. PICK w : w = IF status[x] = "claimed" THEN status[x] ELSE how
    OBVIOUS
  <2>3. w # "cancelled" /\ status' = [status EXCEPT ![x] = w]
    BY <1>7, <2>1, <2>2 DEF Asked
  <2> QED
    BY <1>2, <2>3
<1>8. ASSUME NEW r \in Regs, NEW notify \in BOOLEAN, CancelElsewhere(r, notify)
      PROVE  FALSE
  <2>1. status' = status \/ \E s : \E how \in {"asked", "claimed"} : status' = Asked(s, how)
    BY <1>8 DEF CancelElsewhere
  <2> QED
    BY <1>5, <1>7, <2>1
<1>9. ASSUME NEW s, NEW g, CancelAndNotify(s, g) \/ TokenCancelElsewhere(s, g)
      PROVE  FALSE
  <2>1. status' = status \/ status' = Asked(s, "asked")
    BY <1>9 DEF CancelAndNotify, TokenCancelElsewhere
  <2> QED
    BY <1>5, <1>7, <2>1
<1>10. ASSUME Detach
       PROVE  FALSE
  BY <1>10 DEF Detach
<1>11. ASSUME NEW p, RunPosted(p)
       PROVE  FALSE
  BY <1>5, <1>11 DEF RunPosted
<1>12. ASSUME NEW r \in Regs, PostCancellation(r)
       PROVE  FALSE
  BY <1>5, <1>12 DEF PostCancellation
<1>13. ASSUME Tick \/ BeginRound \/ Fire \/ CallbackReturns \/ EndRound \/ Sweep \/ StopTimers
              \/ UNCHANGED vars
       PROVE  FALSE
  BY <1>5, <1>13 DEF Tick, BeginRound, Fire, CallbackReturns, EndRound, Sweep, StopTimers, vars
<1> QED
  BY <1>3, <1>4, <1>6, <1>8, <1>9, <1>10, <1>11, <1>12, <1>13
     DEF Next, WorkerStep, ScheduleArmThrows, SchedulePushThrows, ScheduleStopsTimers

\* A stale token, a late removal handler or a reused slot never cancels another
\* timer: one that is delivered as cancelled was asked to, or the queue stops.
THEOREM CancellationsAsked == Spec => CancelledWhenAsked
<1>1. HeapExact /\ [Next]_vars =>
        [\A i \in Ids : status[i] = "pending" /\ status'[i] = "cancelled" => stopping]_vars
  <2> SUFFICES ASSUME HeapExact, [Next]_vars, NEW i \in Ids, status[i] = "pending",
                      status'[i] = "cancelled"
               PROVE  stopping
    OBVIOUS
  <2>1. ReleaseHeld /\ status \in [Ids -> {"none"} \cup Open \cup Settled]
    BY OnlyReleaseCancels DEF HeapExact, TypeOK
  <2>2. i = slots[held.slot].completion /\ held.active /\ held.outcome = "cancelled" /\ held # None
    BY <2>1 DEF ReleaseHeld
  <2> QED
    BY <2>2 DEF HeapExact, RemovalsAsked
<1> QED
  BY <1>1, TimersInvariant, PTL DEF Spec, CancelledWhenAsked

-----------------------------------------------------------------------------
(* Stop tokens: stacks                                                      *)

\* f and g stand at the same place of the same call.
Same(f, g) == f.op = g.op /\ f.arg = g.arg /\ f.at = g.at

\* A step of t that leaves the lowest n frames of its stack.
Moves(t, n) ==
    /\ stack' \in [Threads -> Seq(Frames)]
    /\ \A u \in Threads : u # t => stack'[u] = stack[u]
    /\ n \in Nat /\ n <= Len(stack[t]) /\ n <= Len(stack'[t])
    /\ \A i \in 1..n : Same(stack'[t][i], stack[t][i])

\* The stack below the call that is running.
LEMMA BelowFacts ==
    ASSUME StopTypeOK, StackShape, NEW t \in Threads
    PROVE  /\ stack[t] \in Seq(Frames) /\ Len(stack[t]) \in Nat /\ Len(stack[t]) >= 1
           /\ Top(t) \in Frames /\ Top(t) = stack[t][Len(stack[t])]
           /\ Below(t) \in Seq(Frames) /\ Len(Below(t)) = Len(stack[t]) - 1
           /\ \A i \in 1..(Len(stack[t]) - 1) : Below(t)[i] = stack[t][i]
           /\ Top(t).op # "main" => Len(stack[t]) >= 2
<1>1. stack[t] \in Seq(Frames) /\ stack[t] # << >>
  BY DEF StopTypeOK, StackShape
<1>2. Len(stack[t]) \in Nat /\ Len(stack[t]) >= 1 /\ Len(stack[t]) \in 1..Len(stack[t])
  BY <1>1
<1>3. Top(t) \in Frames /\ Top(t) = stack[t][Len(stack[t])]
  BY <1>1, <1>2 DEF Top
<1>4. /\ Below(t) \in Seq(Frames) /\ Len(Below(t)) = Len(stack[t]) - 1
      /\ \A i \in 1..(Len(stack[t]) - 1) : Below(t)[i] = stack[t][i]
  BY <1>1, <1>2 DEF Below
<1>5. stack[t][1].op = "main"
  BY <1>2 DEF StackShape
<1>6. Len(stack[t]) = 1 => Top(t).op = "main"
  BY <1>3, <1>5
<1>7. Top(t).op # "main" => Len(stack[t]) >= 2
  <2>1. PICK n \in Nat : n = Len(stack[t])
    BY <1>2
  <2>2. n >= 1 /\ (n = 1 => Top(t).op = "main")
    BY <1>2, <1>6, <2>1
  <2>3. n = 1 \/ n >= 2
    BY <2>2
  <2> QED
    BY <2>1, <2>2, <2>3
<1> QED
  BY <1>1, <1>2, <1>3, <1>4, <1>7

LEMMA MovesReturn ==
    ASSUME StopTypeOK, StackShape, NEW t \in Threads, Return(t)
    PROVE  Moves(t, Len(stack[t]) - 1) /\ Len(stack'[t]) = Len(stack[t]) - 1
           /\ \A i \in 1..(Len(stack[t]) - 1) : stack'[t][i] = stack[t][i]
<1>1. /\ stack[t] \in Seq(Frames) /\ Len(stack[t]) \in Nat /\ Len(stack[t]) >= 1
      /\ Below(t) \in Seq(Frames) /\ Len(Below(t)) = Len(stack[t]) - 1
      /\ \A i \in 1..(Len(stack[t]) - 1) : Below(t)[i] = stack[t][i]
  BY BelowFacts
<1>2. stack \in [Threads -> Seq(Frames)]
  BY DEF StopTypeOK
<1>3. /\ stack' \in [Threads -> Seq(Frames)] /\ stack'[t] = Below(t)
      /\ \A u \in Threads : u # t => stack'[u] = stack[u]
  BY <1>1, <1>2 DEF Return
<1> QED
  BY <1>1, <1>3 DEF Moves, Same

LEMMA MovesBecome ==
    ASSUME StopTypeOK, StackShape, NEW t \in Threads, NEW f \in Frames, Become(t, f)
    PROVE  /\ Moves(t, Len(stack[t]) - 1) /\ Len(stack'[t]) = Len(stack[t])
           /\ stack'[t][Len(stack[t])] = f
           /\ Same(f, Top(t)) => Moves(t, Len(stack[t]))
           /\ \A i \in 1..(Len(stack[t]) - 1) : stack'[t][i] = stack[t][i]
<1>1. /\ stack[t] \in Seq(Frames) /\ Len(stack[t]) \in Nat /\ Len(stack[t]) >= 1
      /\ Below(t) \in Seq(Frames) /\ Len(Below(t)) = Len(stack[t]) - 1
      /\ \A i \in 1..(Len(stack[t]) - 1) : Below(t)[i] = stack[t][i]
      /\ Top(t) = stack[t][Len(stack[t])]
  BY BelowFacts
<1>2. stack \in [Threads -> Seq(Frames)]
  BY DEF StopTypeOK
<1> DEFINE b == Append(Below(t), f)
<1>3. /\ b \in Seq(Frames) /\ Len(b) = Len(stack[t]) /\ b[Len(stack[t])] = f
      /\ \A i \in 1..(Len(stack[t]) - 1) : b[i] = stack[t][i]
  BY <1>1
<1> HIDE DEF b
<1>4. /\ stack' \in [Threads -> Seq(Frames)] /\ stack'[t] = b
      /\ \A u \in Threads : u # t => stack'[u] = stack[u]
  BY <1>2, <1>3 DEF Become, b
<1>5. Moves(t, Len(stack[t]) - 1)
  BY <1>1, <1>3, <1>4 DEF Moves, Same
<1>6. ASSUME Same(f, Top(t)) PROVE Moves(t, Len(stack[t]))
  <2>1. \A i \in 1..Len(stack[t]) : i = Len(stack[t]) \/ i \in 1..(Len(stack[t]) - 1)
    BY <1>1
  <2> QED
    BY <1>1, <1>3, <1>4, <1>6, <2>1 DEF Moves, Same
<1> QED
  BY <1>3, <1>4, <1>5, <1>6

\* A call from user code leaves the frame that made it where it was.
LEMMA MovesPush ==
    ASSUME StopTypeOK, StackShape, NEW t \in Threads, NEW c, NEW fs \in Seq(Frames), Push(t, c, fs)
    PROVE  /\ Moves(t, Len(stack[t])) /\ Len(stack'[t]) = Len(stack[t]) + Len(fs)
           /\ \A i \in 1..Len(fs) : stack'[t][Len(stack[t]) + i] = fs[i]
<1>1. /\ stack[t] \in Seq(Frames) /\ Len(stack[t]) \in Nat /\ Len(stack[t]) >= 1
      /\ Below(t) \in Seq(Frames) /\ Len(Below(t)) = Len(stack[t]) - 1
      /\ \A i \in 1..(Len(stack[t]) - 1) : Below(t)[i] = stack[t][i]
      /\ Top(t) = stack[t][Len(stack[t])] /\ Top(t) \in Frames
  BY BelowFacts
<1>2. stack \in [Threads -> Seq(Frames)]
  BY DEF StopTypeOK
<1>3. PICK g \in Frames : g = [Top(t) EXCEPT !.todo = @ \ {c}] /\ Same(g, Top(t))
  <2>1. PICK T \in SUBSET UserCalls : T = Top(t).todo \ {c}
    BY <1>1 DEF Frames
  <2>2. [Top(t) EXCEPT !.todo = T] \in Frames /\ Same([Top(t) EXCEPT !.todo = T], Top(t))
    BY <1>1 DEF Frames, Same
  <2> QED
    BY <2>1, <2>2
<1> DEFINE b == Append(Below(t), g)
           d == b \o fs
<1>4. /\ b \in Seq(Frames) /\ Len(b) = Len(stack[t]) /\ b[Len(stack[t])] = g
      /\ \A i \in 1..(Len(stack[t]) - 1) : b[i] = stack[t][i]
  BY <1>1
<1> HIDE DEF b
<1>5. /\ d \in Seq(Frames) /\ Len(d) = Len(stack[t]) + Len(fs) /\ Len(fs) \in Nat
      /\ \A i \in 1..Len(stack[t]) : d[i] = b[i]
      /\ \A i \in 1..Len(fs) : d[Len(stack[t]) + i] = fs[i]
  <2>1. PICK n \in Nat : n = Len(stack[t])
    BY <1>1
  <2>2. /\ d \in Seq(Frames) /\ Len(d) = n + Len(fs) /\ Len(fs) \in Nat
        /\ \A i \in 1..(n + Len(fs)) : d[i] = IF i <= n THEN b[i] ELSE fs[i - n]
    <3>1. b \in Seq(Frames) /\ Len(b) = n
      BY <1>4, <2>1
    <3>2. /\ b \o fs \in Seq(Frames) /\ Len(b \o fs) = Len(b) + Len(fs)
          /\ \A i \in 1..(Len(b) + Len(fs)) : (b \o fs)[i] = IF i <= Len(b) THEN b[i] ELSE fs[i - Len(b)]
      BY <3>1, ConcatProperties
    <3>3. Len(fs) \in Nat
      OBVIOUS
    <3> QED
      BY <3>1, <3>2, <3>3
  <2>3. \A i \in 1..n : d[i] = b[i]
    BY <2>1, <2>2
  <2>4. \A i \in 1..Len(fs) : d[n + i] = fs[i]
    BY <2>1, <2>2
  <2> QED
    BY <2>1, <2>2, <2>3, <2>4
<1> HIDE DEF d
<1>6. /\ stack' \in [Threads -> Seq(Frames)] /\ stack'[t] = d
      /\ \A u \in Threads : u # t => stack'[u] = stack[u]
  <2>1. Made(t, c) = b
    BY <1>3 DEF Made, b
  <2>2. stack' = [stack EXCEPT ![t] = d]
    BY <2>1 DEF Push, d
  <2> QED
    BY <1>2, <1>5, <2>2
<1>7. \A i \in 1..Len(stack[t]) : Same(d[i], stack[t][i])
  <2>1. \A i \in 1..Len(stack[t]) : i = Len(stack[t]) \/ i \in 1..(Len(stack[t]) - 1)
    BY <1>1
  <2> QED
    BY <1>1, <1>3, <1>4, <1>5, <2>1 DEF Same
<1> QED
  BY <1>1, <1>5, <1>6, <1>7 DEF Moves

\* Where the frames of a call may stand.
Typed(f) ==
    /\ f.op = "main" => f.at = "user"
    /\ f.op = "request" => f.arg \in States /\ f.at \in {"invoke", "user"}
    /\ f.op = "reset" => f.arg \in Registrations /\ f.at \in {"unlink", "wait", "clear"}
    /\ f.op = "register" =>
          f.arg \in Registrations /\ f.at \in {"check", "claim", "link", "undo", "settle", "user"}

\* The invariant's words on one frame.
LEMMA FrameShape ==
    ASSUME StopTypeOK, StackShape, NEW t \in Threads, NEW i \in 1..Len(stack[t])
    PROVE  /\ stack[t][i] \in Frames /\ Typed(stack[t][i])
           /\ stack[t][i].op = "main" <=> i = 1
           /\ i < Len(stack[t]) =>
                \/ stack[t][i].at = "user"
                \/ /\ stack[t][i].op = "register" /\ stack[t][i].at = "check" /\ i + 1 = Len(stack[t])
                   /\ Top(t).op = "reset" /\ Top(t).arg = stack[t][i].arg
<1>1. stack[t][i] \in Frames
  BY DEF StopTypeOK
<1> QED
  BY <1>1 DEF StackShape, Typed

\* And back.
LEMMA ShapeWords ==
    ASSUME \A t \in Threads :
        /\ stack'[t] # << >>
        /\ \A i \in 1..Len(stack'[t]) :
              /\ Typed(stack'[t][i])
              /\ stack'[t][i].op = "main" <=> i = 1
              /\ i < Len(stack'[t]) =>
                   \/ stack'[t][i].at = "user"
                   \/ /\ stack'[t][i].op = "register" /\ stack'[t][i].at = "check" /\ i + 1 = Len(stack'[t])
                      /\ stack'[t][Len(stack'[t])].op = "reset"
                      /\ stack'[t][Len(stack'[t])].arg = stack'[t][i].arg
    PROVE  StackShape'
BY DEF StackShape, Typed, Top

\* A frame that is not user code, and not a register() below its reset(), is on top.
LEMMA OnTop ==
    ASSUME StopTypeOK, StackShape, NEW t \in Threads, NEW i \in 1..Len(stack[t]),
           stack[t][i].at # "user", stack[t][i].at # "check"
    PROVE  i = Len(stack[t]) /\ stack[t][i] = Top(t)
<1>1. ~(i < Len(stack[t]))
  BY FrameShape
<1>2. Len(stack[t]) \in Nat /\ Top(t) = stack[t][Len(stack[t])]
  BY BelowFacts
<1>3. i = Len(stack[t])
  BY <1>1, <1>2
<1> QED
  BY <1>2, <1>3

\* The call that is running goes on.
LEMMA ShapeBecome ==
    ASSUME StopTypeOK, StackShape, OneCallEach, NEW t \in Threads, NEW f \in Frames, Become(t, f),
           f.op = Top(t).op, f.arg = Top(t).arg, Typed(f)
    PROVE  StackShape' /\ OneCallEach'
<1>1. PICK n \in Nat : n = Len(stack[t]) /\ n >= 1 /\ Top(t) = stack[t][n] /\ n \in 1..n
  BY BelowFacts
<1>2. /\ stack' \in [Threads -> Seq(Frames)] /\ \A u \in Threads : u # t => stack'[u] = stack[u]
      /\ Len(stack'[t]) = n /\ stack'[t][n] = f /\ \A i \in 1..(n - 1) : stack'[t][i] = stack[t][i]
  BY <1>1, MovesBecome DEF Moves
<1>3. \A i \in 1..n : i = n \/ i \in 1..(n - 1)
  BY <1>1
<1>4. \A u \in Threads : Len(stack'[u]) = Len(stack[u])
  BY <1>1, <1>2
<1>5. ASSUME NEW u \in Threads, NEW i \in 1..Len(stack[u])
      PROVE  stack'[u][i].op = stack[u][i].op /\ stack'[u][i].arg = stack[u][i].arg
  BY <1>1, <1>2, <1>3
<1>6. OneCallEach'
  BY <1>4, <1>5 DEF OneCallEach
<1>7. ASSUME NEW u \in Threads
      PROVE  /\ stack'[u] # << >>
             /\ \A i \in 1..Len(stack'[u]) :
                  /\ Typed(stack'[u][i])
                  /\ stack'[u][i].op = "main" <=> i = 1
                  /\ i < Len(stack'[u]) =>
                       \/ stack'[u][i].at = "user"
                       \/ /\ stack'[u][i].op = "register" /\ stack'[u][i].at = "check"
                          /\ i + 1 = Len(stack'[u])
                          /\ stack'[u][Len(stack'[u])].op = "reset"
                          /\ stack'[u][Len(stack'[u])].arg = stack'[u][i].arg
  <2>1. CASE u # t
    <3>1. stack'[u] = stack[u] /\ stack[u] # << >>
      BY <1>2, <2>1 DEF StackShape
    <3> QED
      BY <3>1, FrameShape DEF Top
  <2>2. CASE u = t
    <3>1. stack'[t] # << >>
      BY <1>1, <1>2
    <3>2. ASSUME NEW i \in 1..n, i # n
          PROVE  /\ stack'[t][i] = stack[t][i] /\ i < n /\ i \in 1..Len(stack[t])
      BY <1>1, <1>2, <1>3, <3>2
    <3>3. stack[t][n].op = "main" <=> n = 1
      BY <1>1, FrameShape
    <3> QED
      BY <1>1, <1>2, <2>2, <3>1, <3>2, <3>3, FrameShape
  <2> QED
    BY <2>1, <2>2
<1> QED
  BY <1>6, <1>7, ShapeWords

\* The call that is running returns.
LEMMA ShapeReturn ==
    ASSUME StopTypeOK, StackShape, OneCallEach, NEW t \in Threads, Return(t), Top(t).op # "main"
    PROVE  StackShape' /\ OneCallEach'
<1>1. PICK n \in Nat : n = Len(stack[t]) /\ n >= 2 /\ Top(t) = stack[t][n] /\ n \in 1..n
  BY BelowFacts
<1>2. /\ stack' \in [Threads -> Seq(Frames)] /\ \A u \in Threads : u # t => stack'[u] = stack[u]
      /\ Len(stack'[t]) = n - 1 /\ \A i \in 1..(n - 1) : stack'[t][i] = stack[t][i]
  BY <1>1, MovesReturn DEF Moves
<1>3. ASSUME NEW u \in Threads, NEW i \in 1..Len(stack'[u])
      PROVE  stack'[u][i] = stack[u][i] /\ i \in 1..Len(stack[u])
  BY <1>1, <1>2
<1>4. OneCallEach'
  <2> SUFFICES ASSUME NEW u \in Threads, NEW v \in Threads,
                      NEW i \in 1..Len(stack'[u]), NEW j \in 1..Len(stack'[v]),
                      stack'[u][i].op = stack'[v][j].op, stack'[u][i].op # "main",
                      stack'[u][i].arg = stack'[v][j].arg
               PROVE  u = v /\ i = j
    BY DEF OneCallEach
  <2>1. /\ stack'[u][i] = stack[u][i] /\ i \in 1..Len(stack[u])
        /\ stack'[v][j] = stack[v][j] /\ j \in 1..Len(stack[v])
    BY <1>3
  <2> QED
    BY <2>1 DEF OneCallEach
<1>5. ASSUME NEW u \in Threads
      PROVE  /\ stack'[u] # << >>
             /\ \A i \in 1..Len(stack'[u]) :
                  /\ Typed(stack'[u][i])
                  /\ stack'[u][i].op = "main" <=> i = 1
                  /\ i < Len(stack'[u]) =>
                       \/ stack'[u][i].at = "user"
                       \/ /\ stack'[u][i].op = "register" /\ stack'[u][i].at = "check"
                          /\ i + 1 = Len(stack'[u])
                          /\ stack'[u][Len(stack'[u])].op = "reset"
                          /\ stack'[u][Len(stack'[u])].arg = stack'[u][i].arg
  <2>1. CASE u # t
    <3>1. stack'[u] = stack[u] /\ stack[u] # << >>
      BY <1>2, <2>1 DEF StackShape
    <3> QED
      BY <3>1, FrameShape DEF Top
  <2>2. CASE u = t
    <3>1. stack'[t] # << >>
      BY <1>1, <1>2
    <3>2. ASSUME NEW i \in 1..(n - 1)
          PROVE  /\ i \in 1..Len(stack[t]) /\ i < Len(stack[t]) /\ stack'[t][i] = stack[t][i]
                 /\ i + 1 = Len(stack[t]) => i = n - 1
      BY <1>1, <1>2
    <3>3. \A i \in 1..(n - 1) : i < n - 1 => i # n - 1
      BY <1>1
    <3> QED
      BY <1>2, <2>2, <3>1, <3>2, <3>3, FrameShape
  <2> QED
    BY <2>1, <2>2
<1> QED
  BY <1>4, <1>5, ShapeWords

\* User code makes a call.
LEMMA ShapePush ==
    ASSUME StopTypeOK, StackShape, OneCallEach, NEW t \in Threads, NEW c, NEW fs \in Seq(Frames),
           Push(t, c, fs), Top(t).at = "user", Len(fs) <= 2,
           \A k \in 1..Len(fs) : Typed(fs[k]) /\ fs[k].op # "main",
           Len(fs) = 2 => /\ fs[1].op = "register" /\ fs[1].at = "check"
                          /\ fs[2].op = "reset" /\ fs[2].arg = fs[1].arg,
           \A u \in Threads : \A j \in 1..Len(stack[u]), k \in 1..Len(fs) :
               ~(stack[u][j].op = fs[k].op /\ stack[u][j].arg = fs[k].arg)
    PROVE  StackShape' /\ OneCallEach'
<1>1. PICK n \in Nat : n = Len(stack[t]) /\ n >= 1 /\ Top(t) = stack[t][n] /\ n \in 1..n
  BY BelowFacts
<1>2. PICK m \in Nat : m = Len(fs)
  OBVIOUS
<1>3. /\ stack' \in [Threads -> Seq(Frames)] /\ \A u \in Threads : u # t => stack'[u] = stack[u]
      /\ Len(stack'[t]) = n + m /\ \A i \in 1..n : Same(stack'[t][i], stack[t][i])
      /\ \A k \in 1..m : stack'[t][n + k] = fs[k]
  BY <1>1, <1>2, MovesPush DEF Moves
<1>4. \A i \in 1..(n + m) : i \in 1..n \/ \E k \in 1..m : i = n + k
  <2> TAKE i \in 1..(n + m)
  <2>1. CASE i <= n
    BY <2>1
  <2>2. CASE i > n
    <3>1. i - n \in 1..m /\ i = n + (i - n)
      BY <2>2
    <3> QED
      BY <3>1
  <2> QED
    BY <1>1, <1>2, <2>1, <2>2
<1>5. ASSUME NEW u \in Threads, NEW i \in 1..Len(stack'[u])
      PROVE  \/ i \in 1..Len(stack[u]) /\ Same(stack'[u][i], stack[u][i]) /\ (u = t => i <= n)
             \/ u = t /\ \E k \in 1..m : i = n + k /\ stack'[u][i] = fs[k]
  <2>1. CASE u # t
    BY <1>3, <2>1 DEF Same
  <2>2. CASE u = t
    <3>1. i \in 1..(n + m)
      BY <1>3, <2>2
    <3>2. CASE i \in 1..n
      <4>1. i <= n
        BY <3>2
      <4> QED
        BY <1>1, <1>3, <2>2, <3>2, <4>1
    <3>3. CASE \E k \in 1..m : i = n + k
      BY <1>3, <2>2, <3>3
    <3> QED
      BY <1>4, <3>1, <3>2, <3>3
  <2> QED
    BY <2>1, <2>2
<1>6. OneCallEach'
  <2> SUFFICES ASSUME NEW u \in Threads, NEW v \in Threads,
                      NEW i \in 1..Len(stack'[u]), NEW j \in 1..Len(stack'[v]),
                      stack'[u][i].op = stack'[v][j].op, stack'[u][i].op # "main",
                      stack'[u][i].arg = stack'[v][j].arg
               PROVE  u = v /\ i = j
    BY DEF OneCallEach
  <2>1. CASE /\ i \in 1..Len(stack[u]) /\ Same(stack'[u][i], stack[u][i])
             /\ j \in 1..Len(stack[v]) /\ Same(stack'[v][j], stack[v][j])
    <3>1. /\ stack[u][i].op = stack[v][j].op /\ stack[u][i].op # "main"
          /\ stack[u][i].arg = stack[v][j].arg
      BY <2>1 DEF Same
    <3> QED
      BY <2>1, <3>1 DEF OneCallEach
  <2>2. CASE /\ i \in 1..Len(stack[u]) /\ Same(stack'[u][i], stack[u][i])
             /\ \E k \in 1..m : stack'[v][j] = fs[k]
    BY <1>2, <2>2 DEF Same
  <2>3. CASE /\ j \in 1..Len(stack[v]) /\ Same(stack'[v][j], stack[v][j])
             /\ \E k \in 1..m : stack'[u][i] = fs[k]
    BY <1>2, <2>3 DEF Same
  <2>4. ASSUME u = t, v = t, NEW k \in 1..m, i = n + k, stack'[u][i] = fs[k],
               NEW l \in 1..m, j = n + l, stack'[v][j] = fs[l]
        PROVE  k = l
    <3>1. m <= 2
      BY <1>2
    <3>2. CASE m = 2
      <4>1. (k = 1 \/ k = 2) /\ (l = 1 \/ l = 2)
        BY <3>2
      <4> QED
        BY <1>2, <2>4, <3>2, <4>1
    <3>3. CASE m # 2
      <4>1. k = 1 /\ l = 1
        BY <1>2, <3>1, <3>3
      <4> QED
        BY <4>1
    <3> QED
      BY <3>2, <3>3
  <2> QED
    BY <1>5, <2>1, <2>2, <2>3, <2>4
<1>7. \A i \in 1..n : stack[t][i].at = "user"
  <2> TAKE i \in 1..n
  <2>1. Top(t).op # "reset"
    BY <1>1, FrameShape DEF Typed
  <2>2. CASE i = n
    BY <1>1, <2>2
  <2>3. CASE i # n
    <3>1. i < Len(stack[t]) /\ i \in 1..Len(stack[t])
      BY <1>1, <2>3
    <3> QED
      BY <2>1, <3>1, FrameShape
  <2> QED
    BY <2>2, <2>3
<1>8. ASSUME NEW u \in Threads
      PROVE  /\ stack'[u] # << >>
             /\ \A i \in 1..Len(stack'[u]) :
                  /\ Typed(stack'[u][i])
                  /\ stack'[u][i].op = "main" <=> i = 1
                  /\ i < Len(stack'[u]) =>
                       \/ stack'[u][i].at = "user"
                       \/ /\ stack'[u][i].op = "register" /\ stack'[u][i].at = "check"
                          /\ i + 1 = Len(stack'[u])
                          /\ stack'[u][Len(stack'[u])].op = "reset"
                          /\ stack'[u][Len(stack'[u])].arg = stack'[u][i].arg
  <2>1. CASE u # t
    <3>1. stack'[u] = stack[u] /\ stack[u] # << >>
      BY <1>3, <2>1 DEF StackShape
    <3> QED
      BY <3>1, FrameShape DEF Top
  <2>2. CASE u = t
    <3>1. stack'[t] # << >>
      BY <1>1, <1>2, <1>3
    <3>2. ASSUME NEW i \in 1..n
          PROVE  /\ Typed(stack'[t][i]) /\ (stack'[t][i].op = "main" <=> i = 1)
                 /\ stack'[t][i].at = "user"
      <4>1. Typed(stack[t][i]) /\ (stack[t][i].op = "main" <=> i = 1) /\ stack[t][i].at = "user"
        BY <1>1, <1>7, FrameShape
      <4> QED
        BY <1>3, <4>1 DEF Same, Typed
    <3>3. ASSUME NEW k \in 1..m
          PROVE  /\ Typed(stack'[t][n + k]) /\ stack'[t][n + k].op # "main" /\ n + k # 1
                 /\ n + k < n + m =>
                      /\ stack'[t][n + k].op = "register" /\ stack'[t][n + k].at = "check"
                      /\ n + k + 1 = n + m
                      /\ stack'[t][n + m].op = "reset"
                      /\ stack'[t][n + m].arg = stack'[t][n + k].arg
      <4>1. Typed(stack'[t][n + k]) /\ stack'[t][n + k].op # "main" /\ n + k # 1
        BY <1>1, <1>2, <1>3
      <4>2. ASSUME n + k < n + m PROVE k = 1 /\ m = 2
        BY <1>2, <4>2
      <4>3. 1 \in 1..m /\ m \in 1..m
        BY <1>2
      <4> QED
        BY <1>2, <1>3, <4>1, <4>2, <4>3
    <3>4. ASSUME NEW i \in 1..(n + m)
          PROVE  /\ Typed(stack'[t][i])
                 /\ stack'[t][i].op = "main" <=> i = 1
                 /\ i < n + m =>
                      \/ stack'[t][i].at = "user"
                      \/ /\ stack'[t][i].op = "register" /\ stack'[t][i].at = "check"
                         /\ i + 1 = n + m
                         /\ stack'[t][n + m].op = "reset"
                         /\ stack'[t][n + m].arg = stack'[t][i].arg
      <4>1. CASE i \in 1..n
        BY <3>2, <4>1
      <4>2. CASE \E k \in 1..m : i = n + k
        <5>1. PICK k \in 1..m : i = n + k
          BY <4>2
        <5> QED
          BY <3>3, <5>1
      <4> QED
        BY <1>4, <4>1, <4>2
    <3> QED
      BY <1>3, <2>2, <3>1, <3>4
  <2> QED
    BY <2>1, <2>2
<1> QED
  BY <1>6, <1>8, ShapeWords

-----------------------------------------------------------------------------
(* Stop tokens: frames                                                      *)

\* What the invariant says of a frame f of t.
FrameOK(t, f) ==
    /\ f.op = "request" => /\ running[f.arg] # Null /\ requester[f.arg] = t
                           /\ f.at = "invoke" => Alive(running[f.arg], f.arg)
    /\ f.op = "reset" => Resetting(t, f)
    /\ f.op = "register" => Registering(f)

\* ... and of all of them.
FramesOK == \A t \in Threads : \A i \in 1..Len(stack[t]) : FrameOK(t, stack[t][i])

LEMMA FramesAre ==
    ASSUME NodesAlive, CallsExact
    PROVE  FramesOK
BY DEF NodesAlive, CallsExact, FrameOK, FramesOK

\* The frames a step leaves, and those it makes, are all there are.
LEMMA FramesKept ==
    ASSUME NEW t \in Threads, NEW n, Moves(t, n), StopTypeOK,
           \A u \in Threads : \A i \in 1..Len(stack[u]) : \A f \in Frames :
               f = stack[u][i] /\ (u = t => i <= n) => FrameOK(u, f)',
           \A i \in 1..Len(stack'[t]) : i > n => \A f \in Frames : f = stack'[t][i] => FrameOK(t, f)'
    PROVE  FramesOK'
<1> SUFFICES ASSUME NEW u \in Threads, NEW i \in 1..Len(stack'[u])
             PROVE  FrameOK(u, stack[u][i])'
  BY DEF FramesOK
<1>1. PICK g \in Frames : g = stack'[u][i]
  BY DEF Moves
<1>2. stack \in [Threads -> Seq(Frames)] /\ n \in Nat
  BY DEF StopTypeOK, Moves
<1>3. FrameOK(u, g)'
  <2>1. CASE u = t /\ i > n
    BY <1>1, <2>1
  <2>2. CASE ~(u = t /\ i > n)
    <3>1. i \in 1..Len(stack[u]) /\ Same(g, stack[u][i]) /\ (u = t => i <= n)
      BY <1>1, <1>2, <2>2 DEF Moves, Same
    <3>2. PICK f \in Frames : f = stack[u][i]
      BY <1>2, <3>1
    <3>3. FrameOK(u, f)'
      BY <3>1, <3>2
    <3> QED
      BY <3>1, <3>2, <3>3 DEF FrameOK, Same, Alive, Resetting, Registering, MustWait
  <2> QED
    BY <2>1, <2>2
<1> QED
  BY <1>1, <1>3 DEF FrameOK, Alive, Resetting, Registering, MustWait

\* Linked nodes and running callbacks are alive.
Lists ==
    /\ \A s \in States : Distinct(list[s]) /\ \A r \in Elems(list[s]) : Alive(r, s)
    /\ \A s \in States : running[s] # Null => requested[s] /\ StateOf[running[s]] = s

\* A register() that is about to look at the state has nothing registered.
Fresh == \A t \in Threads : At(t, "register", "check") => phase[Top(t).arg] = "idle"

LEMMA InvParts ==
    CallbackInv <=> /\ StopTypeOK /\ StackShape /\ OneCallEach
                    /\ Lists /\ Fresh /\ FramesOK /\ CalledOnce
BY DEF CallbackInv, NodesAlive, CallsExact, FrameOK, FramesOK, Lists, Fresh

\* What is known of a frame on some stack.
LEMMA OldFrame ==
    ASSUME CallbackInv, NEW u \in Threads, NEW i \in 1..Len(stack[u]), NEW f \in Frames, f = stack[u][i]
    PROVE  /\ FrameOK(u, f) /\ Typed(f)
           /\ \A t \in Threads : f.op = Top(t).op /\ f.op # "main" /\ f.arg = Top(t).arg
                                    => u = t /\ i = Len(stack[t])
           /\ f.at \notin {"user", "check"} => i = Len(stack[u]) /\ f = Top(u)
<1>0. StopTypeOK /\ StackShape /\ OneCallEach /\ FramesOK
  BY InvParts
<1>1. FrameOK(u, f)
  BY <1>0 DEF FramesOK
<1>2. Typed(f)
  BY <1>0, FrameShape
<1>3. ASSUME NEW t \in Threads, f.op = Top(t).op, f.op # "main", f.arg = Top(t).arg
      PROVE  u = t /\ i = Len(stack[t])
  <2>1. Len(stack[t]) \in 1..Len(stack[t]) /\ Top(t) = stack[t][Len(stack[t])]
    BY <1>0, BelowFacts
  <2> QED
    BY <1>0, <1>3, <2>1 DEF OneCallEach
<1>4. f.at \notin {"user", "check"} => i = Len(stack[u]) /\ f = Top(u)
  BY <1>0, OnTop
<1> QED
  BY <1>1, <1>2, <1>3, <1>4

\* What is known of the call that is running.
LEMMA TopFrame ==
    ASSUME CallbackInv, NEW t \in Threads
    PROVE  /\ Top(t) \in Frames /\ FrameOK(t, Top(t)) /\ Typed(Top(t))
           /\ Len(stack[t]) \in Nat /\ Len(stack[t]) \in 1..Len(stack[t])
           /\ stack[t][Len(stack[t])] = Top(t)
<1>0. StopTypeOK /\ StackShape
  BY InvParts
<1>1. /\ Top(t) \in Frames /\ Len(stack[t]) \in Nat /\ Len(stack[t]) \in 1..Len(stack[t])
      /\ stack[t][Len(stack[t])] = Top(t)
  BY <1>0, BelowFacts
<1> QED
  BY <1>1, OldFrame

\* A call of user code.
LEMMA CallIs ==
    ASSUME CallbackInv, NEW t \in Threads, NEW c, NEW o, Calls(t, c, o)
    PROVE  /\ c.op = o /\ Top(t).at = "user"
           /\ o \in {"request", "retire"} => c.arg \in States
           /\ o \in {"reset", "register"} => c.arg \in Registrations
<1>1. Top(t) \in Frames
  BY TopFrame
<1>2. c \in UserCalls /\ c.op = o /\ Top(t).at = "user"
  BY <1>1 DEF Calls, Frames
<1>3. c \in [op : {"request", "retire"}, arg : States] =>
        c.arg \in States /\ c.op \in {"request", "retire"}
  OBVIOUS
<1>4. c \in [op : {"reset", "register"}, arg : Registrations] =>
        c.arg \in Registrations /\ c.op \in {"reset", "register"}
  OBVIOUS
<1> QED
  BY <1>2, <1>3, <1>4 DEF UserCalls

\* A frame pushed.
LEMMA FrameIs ==
    ASSUME NEW o \in {"request", "reset", "register"}, NEW a \in States \cup Registrations \cup {Null},
           NEW p \in {"user", "invoke", "unlink", "check"}
    PROVE  /\ Frame(o, a, p) \in Frames
           /\ Frame(o, a, p).op = o /\ Frame(o, a, p).arg = a /\ Frame(o, a, p).at = p
BY DEF Frame, Frames

LEMMA UserFrameIs ==
    ASSUME NEW o \in {"request", "register"}, NEW a \in States \cup Registrations \cup {Null},
           NEW r \in Registrations
    PROVE  /\ UserFrame(o, a, r) \in Frames
           /\ UserFrame(o, a, r).op = o /\ UserFrame(o, a, r).arg = a /\ UserFrame(o, a, r).at = "user"
<1>1. PICK T \in SUBSET UserCalls : T = Callback[r]
  BY StopAssumption
<1>2. PICK g \in Frames : g = Frame(o, a, "user") /\ g.op = o /\ g.arg = a /\ g.at = "user"
  BY FrameIs
<1>3. /\ [g EXCEPT !.todo = T] \in Frames
      /\ [g EXCEPT !.todo = T].op = o /\ [g EXCEPT !.todo = T].arg = a
      /\ [g EXCEPT !.todo = T].at = "user"
  BY <1>2 DEF Frames
<1> QED
  BY <1>1, <1>2, <1>3 DEF UserFrame

\* A call that goes on to another place.
LEMMA AtIs ==
    ASSUME NEW g \in Frames,
           NEW p \in {"user", "unlink", "clear", "claim", "link", "undo", "settle"}
    PROVE  /\ [g EXCEPT !.at = p] \in Frames
           /\ [g EXCEPT !.at = p].op = g.op /\ [g EXCEPT !.at = p].arg = g.arg
           /\ [g EXCEPT !.at = p].at = p
BY DEF Frames

\* Fresh after a step of t.
LEMMA FreshKept ==
    ASSUME NEW t \in Threads, NEW n, Moves(t, n),
           \A u \in Threads : u # t /\ At(u, "register", "check") => phase'[Top(u).arg] = "idle",
           At(t, "register", "check")' => phase'[Top(t)'.arg] = "idle"
    PROVE  Fresh'
<1> SUFFICES ASSUME NEW u \in Threads, At(u, "register", "check")'
             PROVE  phase'[Top(u)'.arg] = "idle"
  BY DEF Fresh
<1>1. CASE u # t
  <2>1. stack'[u] = stack[u]
    BY <1>1 DEF Moves
  <2> QED
    BY <1>1, <2>1 DEF At, Top
<1>2. CASE u = t
  BY <1>2
<1> QED
  BY <1>1, <1>2

-----------------------------------------------------------------------------
(* Stop tokens: steps                                                       *)

\* The types of all but the stacks.
StateTypes ==
    /\ source \in [States -> BOOLEAN] /\ requested \in [States -> BOOLEAN]
    /\ awaited \in [States -> BOOLEAN] /\ epoch \in [States -> Nat]
    /\ list \in [States -> Seq(Registrations)]
    /\ running \in [States -> Registrations \cup {Null}] /\ requester \in [States -> Threads \cup {Null}]
    /\ phase \in [Registrations -> {"idle", "registering", "reset_pending", "registered", "resetting"}]
    /\ node \in [Registrations -> BOOLEAN] /\ callback \in [Registrations -> {"none", "armed", "taken"}]
    /\ uses \in [Registrations -> Nat] /\ calls \in [Registrations -> Nat]

LEMMA TypeParts == StopTypeOK <=> StateTypes /\ stack \in [Threads -> Seq(Frames)]
BY DEF StopTypeOK, StateTypes

\* The lowest n frames of t, and those of the other threads, are as they should be.
KeptFrames(t, n) ==
    \A u \in Threads : \A i \in 1..Len(stack[u]) : \A f \in Frames :
        f = stack[u][i] /\ (u = t => i <= n) => FrameOK(u, f)'

\* No other thread's register() loses its fresh registration.
FreshElsewhere(t) ==
    \A u \in Threads : u # t /\ At(u, "register", "check") => phase'[Top(u).arg] = "idle"

\* A step in which the running call of t goes on as f.
LEMMA GoesOn ==
    ASSUME CallbackInv, NEW t \in Threads, NEW f \in Frames, Become(t, f),
           f.op = Top(t).op, f.arg = Top(t).arg, Typed(f), f.at # "check",
           StateTypes', Lists', CalledOnce', FreshElsewhere(t),
           KeptFrames(t, Len(stack[t]) - 1), FrameOK(t, f)'
    PROVE  CallbackInv'
<1>0. StopTypeOK /\ StackShape /\ OneCallEach
  BY InvParts
<1>1. PICK n \in Nat : n = Len(stack[t])
  BY TopFrame
<1>2. /\ Moves(t, n - 1) /\ Len(stack'[t]) = n /\ stack'[t][n] = f
  BY <1>0, <1>1, MovesBecome
<1>3. StackShape' /\ OneCallEach'
  BY <1>0, ShapeBecome
<1>4. StopTypeOK'
  BY <1>2, TypeParts DEF Moves, StopTypeOK, StateTypes
<1>5. Fresh'
  <2>1. ~At(t, "register", "check")'
    BY <1>2 DEF At, Top
  <2> QED
    BY <1>2, <2>1, FreshKept DEF FreshElsewhere
<1>6. FramesOK'
  <2>1. \A i \in 1..Len(stack'[t]) : i > n - 1 => \A g \in Frames : g = stack'[t][i] => FrameOK(t, g)'
    <3> SUFFICES ASSUME NEW i \in 1..n, i > n - 1 PROVE stack'[t][i] = f
      BY <1>2
    <3>1. i = n
      BY <1>1
    <3> QED
      BY <1>2, <3>1
  <2>2. \A u \in Threads : \A i \in 1..Len(stack[u]) : \A g \in Frames :
               g = stack[u][i] /\ (u = t => i <= n - 1) => FrameOK(u, g)'
    BY <1>1 DEF KeptFrames
  <2> QED
    BY <1>0, <1>2, <2>1, <2>2, FramesKept
<1> QED
  BY <1>3, <1>4, <1>5, <1>6, InvParts DEF CallbackInv, NodesAlive, CallsExact, FrameOK, FramesOK, Lists, Fresh

\* A step in which the running call of t returns.
LEMMA Returns ==
    ASSUME CallbackInv, NEW t \in Threads, Return(t), Top(t).op # "main",
           StateTypes', Lists', CalledOnce', FreshElsewhere(t),
           KeptFrames(t, Len(stack[t]) - 1),
           Top(t).op = "reset" => phase'[Top(t).arg] = "idle"
    PROVE  CallbackInv'
<1>0. StopTypeOK /\ StackShape /\ OneCallEach
  BY InvParts
<1>1. PICK n \in Nat : n = Len(stack[t]) /\ n >= 2
  BY <1>0, BelowFacts
<1>2. /\ Moves(t, n - 1) /\ Len(stack'[t]) = n - 1
      /\ \A i \in 1..(n - 1) : stack'[t][i] = stack[t][i]
  BY <1>0, <1>1, MovesReturn
<1>3. StackShape' /\ OneCallEach'
  BY <1>0, ShapeReturn
<1>4. StopTypeOK'
  BY <1>2, TypeParts DEF Moves, StopTypeOK, StateTypes
<1>5. Fresh'
  <2>1. PICK k \in Nat : k = n - 1 /\ k \in 1..Len(stack[t]) /\ k < Len(stack[t]) /\ k \in 1..(n - 1)
    <3>1. n - 1 \in Nat /\ n - 1 \in 1..n /\ n - 1 < n /\ n - 1 \in 1..(n - 1)
      BY <1>1
    <3> QED
      BY <1>1, <3>1
  <2>2. Top(t)' = stack[t][k]
    BY <1>2, <2>1 DEF Top
  <2>3. ASSUME At(t, "register", "check")' PROVE phase'[Top(t)'.arg] = "idle"
    <3>1. stack[t][k].op = "register" /\ stack[t][k].at = "check"
      BY <2>2, <2>3 DEF At
    <3>2. Top(t).op = "reset" /\ Top(t).arg = stack[t][k].arg
      BY <1>0, <2>1, <3>1, FrameShape
    <3> QED
      BY <2>2, <3>2
  <2> QED
    BY <1>2, <2>3, FreshKept DEF FreshElsewhere
<1>6. FramesOK'
  <2>1. \A i \in 1..Len(stack'[t]) : i > n - 1 => \A g \in Frames : g = stack'[t][i] => FrameOK(t, g)'
    <3>1. \A i \in 1..(n - 1) : ~(i > n - 1)
      BY <1>1
    <3> QED
      BY <1>2, <3>1
  <2>2. \A u \in Threads : \A i \in 1..Len(stack[u]) : \A g \in Frames :
               g = stack[u][i] /\ (u = t => i <= n - 1) => FrameOK(u, g)'
    BY <1>1 DEF KeptFrames
  <2> QED
    BY <1>0, <1>2, <2>1, <2>2, FramesKept
<1> QED
  BY <1>3, <1>4, <1>5, <1>6, InvParts DEF CallbackInv, NodesAlive, CallsExact, FrameOK, FramesOK, Lists, Fresh

\* A step in which user code on t makes a call.
LEMMA Pushes ==
    ASSUME CallbackInv, NEW t \in Threads, NEW c, NEW fs \in Seq(Frames), Push(t, c, fs),
           Top(t).at = "user", Len(fs) <= 2,
           \A k \in 1..Len(fs) : Typed(fs[k]) /\ fs[k].op # "main",
           Len(fs) = 2 => /\ fs[1].op = "register" /\ fs[1].at = "check"
                          /\ fs[2].op = "reset" /\ fs[2].arg = fs[1].arg,
           \A u \in Threads : \A j \in 1..Len(stack[u]), k \in 1..Len(fs) :
               ~(stack[u][j].op = fs[k].op /\ stack[u][j].arg = fs[k].arg),
           StateTypes', Lists', CalledOnce', FreshElsewhere(t), KeptFrames(t, Len(stack[t])),
           \A k \in 1..Len(fs) : \A f \in Frames : f = fs[k] => FrameOK(t, f)',
           Len(fs) = 1 /\ fs[1].op = "register" => phase'[fs[1].arg] = "idle"
    PROVE  CallbackInv'
<1>0. StopTypeOK /\ StackShape /\ OneCallEach
  BY InvParts
<1>1. PICK n \in Nat : n = Len(stack[t]) /\ n >= 1 /\ n \in 1..n /\ stack[t][n] = Top(t)
  BY <1>0, BelowFacts
<1>2. PICK m \in Nat : m = Len(fs) /\ m <= 2
  OBVIOUS
<1>3. /\ Moves(t, n) /\ Len(stack'[t]) = n + m /\ \A k \in 1..m : stack'[t][n + k] = fs[k]
  BY <1>0, <1>1, <1>2, MovesPush
<1>4. StackShape' /\ OneCallEach'
  BY <1>0, ShapePush
<1>5. StopTypeOK'
  BY <1>3, TypeParts DEF Moves, StopTypeOK, StateTypes
<1>6. Fresh'
  <2>1. ASSUME At(t, "register", "check")' PROVE phase'[Top(t)'.arg] = "idle"
    <3>1. CASE m = 0
      <4>1. Top(t)' = stack'[t][n] /\ Same(stack'[t][n], Top(t))
        BY <1>1, <1>3, <3>1 DEF Top, Moves
      <4> QED
        BY <2>1, <4>1 DEF At, Same
    <3>2. CASE m = 1
      <4>1. 1 \in 1..m /\ Top(t)' = stack'[t][n + 1]
        BY <1>1, <1>3, <3>2 DEF Top
      <4>2. Top(t)' = fs[1]
        BY <1>3, <4>1
      <4> QED
        BY <1>2, <2>1, <3>2, <4>2 DEF At
    <3>3. CASE m = 2
      <4>1. 2 \in 1..m /\ Top(t)' = stack'[t][n + 2]
        BY <1>1, <1>3, <3>3 DEF Top
      <4>2. Top(t)' = fs[2]
        BY <1>3, <4>1
      <4> QED
        BY <1>2, <2>1, <3>3, <4>2 DEF At
    <3>4. m = 0 \/ m = 1 \/ m = 2
      BY <1>2
    <3> QED
      BY <3>1, <3>2, <3>3, <3>4
  <2> QED
    BY <1>3, <2>1, FreshKept DEF FreshElsewhere
<1>7. FramesOK'
  <2>1. \A i \in 1..Len(stack'[t]) : i > n => \A g \in Frames : g = stack'[t][i] => FrameOK(t, g)'
    <3> SUFFICES ASSUME NEW i \in 1..(n + m), i > n PROVE \E k \in 1..m : stack'[t][i] = fs[k]
      BY <1>2, <1>3
    <3>1. PICK k \in 1..m : i = n + k
      <4>1. i - n \in 1..m /\ i = n + (i - n)
        BY <1>1, <1>2
      <4> QED
        BY <4>1
    <3> QED
      BY <1>3, <3>1
  <2>2. \A u \in Threads : \A i \in 1..Len(stack[u]) : \A g \in Frames :
               g = stack[u][i] /\ (u = t => i <= n) => FrameOK(u, g)'
    BY <1>1 DEF KeptFrames
  <2>3. StopTypeOK /\ Moves(t, n)
    BY <1>0, <1>3
  <2> QED
    BY <2>1, <2>2, <2>3, FramesKept
<1> QED
  BY <1>4, <1>5, <1>6, <1>7, InvParts DEF CallbackInv, NodesAlive, CallsExact, FrameOK, FramesOK, Lists, Fresh

LEMMA PushesNone ==
    ASSUME CallbackInv, NEW t \in Threads, NEW c, Push(t, c, << >>), Top(t).at = "user",
           StateTypes', Lists', CalledOnce', FreshElsewhere(t), KeptFrames(t, Len(stack[t]))
    PROVE  CallbackInv'
<1>1. PICK fs \in Seq(Frames) : fs = << >>
  <2>1. << >> \in Seq(Frames)
    OBVIOUS
  <2> QED
    BY <2>1
<1>2. Len(fs) = 0
  BY <1>1
<1>3. Len(fs) <= 2 /\ Len(fs) # 1 /\ Len(fs) # 2 /\ \A k \in 1..Len(fs) : FALSE
  BY <1>2
<1>4. Push(t, c, fs)
  BY <1>1
<1> QED
  BY <1>3, <1>4, Pushes

LEMMA PushesOne ==
    ASSUME CallbackInv, NEW t \in Threads, NEW c, NEW f \in Frames, Push(t, c, <<f>>), Top(t).at = "user",
           Typed(f), f.op # "main",
           \A u \in Threads : \A j \in 1..Len(stack[u]) : ~(stack[u][j].op = f.op /\ stack[u][j].arg = f.arg),
           StateTypes', Lists', CalledOnce', FreshElsewhere(t), KeptFrames(t, Len(stack[t])),
           FrameOK(t, f)', f.op = "register" => phase'[f.arg] = "idle"
    PROVE  CallbackInv'
<1>1. <<f>> \in Seq(Frames) /\ Len(<<f>>) = 1 /\ Len(<<f>>) <= 2 /\ Len(<<f>>) # 2 /\ <<f>>[1] = f
  OBVIOUS
<1>2. \A k \in 1..Len(<<f>>) : k = 1
  BY <1>1
<1>3. \A k \in 1..Len(<<f>>) : <<f>>[k] = f
  BY <1>1, <1>2
<1>4. PICK fs \in Seq(Frames) : fs = <<f>>
  BY <1>1
<1>5. /\ Len(fs) = 1 /\ Len(fs) <= 2 /\ Len(fs) # 2 /\ fs[1] = f
      /\ \A k \in 1..Len(fs) : fs[k] = f
  BY <1>1, <1>3, <1>4
<1>6. Push(t, c, fs)
  BY <1>4
<1>7. /\ \A k \in 1..Len(fs) : Typed(fs[k]) /\ fs[k].op # "main"
      /\ \A k \in 1..Len(fs) : \A g \in Frames : g = fs[k] => FrameOK(t, g)'
      /\ Len(fs) = 1 /\ fs[1].op = "register" => phase'[fs[1].arg] = "idle"
      /\ Len(fs) = 2 => /\ fs[1].op = "register" /\ fs[1].at = "check"
                        /\ fs[2].op = "reset" /\ fs[2].arg = fs[1].arg
  BY <1>5
<1>8. \A u \in Threads : \A j \in 1..Len(stack[u]), k \in 1..Len(fs) :
         ~(stack[u][j].op = fs[k].op /\ stack[u][j].arg = fs[k].arg)
  BY <1>5
<1>9. Len(fs) <= 2
  BY <1>5
<1> QED
  BY <1>6, <1>7, <1>8, <1>9, Pushes

\* A step that leaves the registrations and the runs of the callbacks alone.
LEMMA NothingTouched ==
    ASSUME CallbackInv, UNCHANGED <<requested, list, running, requester, registration, uses, calls>>,
           NEW t \in Threads, NEW n
    PROVE  Lists' /\ CalledOnce' /\ FreshElsewhere(t) /\ KeptFrames(t, n)
<1>0. Lists /\ CalledOnce /\ Fresh /\ FramesOK
  BY InvParts
<1>1. Lists'
  BY <1>0 DEF Lists, Alive, registration
<1>2. CalledOnce'
  BY <1>0 DEF CalledOnce, registration
<1>3. FreshElsewhere(t)
  BY <1>0 DEF Fresh, FreshElsewhere, registration
<1>4. KeptFrames(t, n)
  <2> SUFFICES ASSUME NEW u \in Threads, NEW i \in 1..Len(stack[u]), NEW f \in Frames, f = stack[u][i]
               PROVE  FrameOK(u, f)'
    BY DEF KeptFrames
  <2>1. FrameOK(u, f)
    BY OldFrame
  <2> QED
    BY <2>1 DEF FrameOK, Alive, Resetting, Registering, MustWait, registration
<1> QED
  BY <1>1, <1>2, <1>3, <1>4

LEMMA RetireSourceKeeps ==
    ASSUME CallbackInv, NEW t \in Threads, NEW c, RetireSource(t, c)
    PROVE  CallbackInv'
<1>0. StateTypes
  BY InvParts, TypeParts
<1>1. Top(t).at = "user" /\ Push(t, c, << >>)
  BY CallIs DEF RetireSource
<1>2. Lists' /\ CalledOnce' /\ FreshElsewhere(t) /\ KeptFrames(t, Len(stack[t]))
  BY NothingTouched DEF RetireSource
<1>3. StateTypes'
  BY <1>0 DEF StateTypes, RetireSource, registration
<1> QED
  BY <1>1, <1>2, <1>3, PushesNone

LEMMA WakeKeeps ==
    ASSUME CallbackInv, NEW t \in Threads, Wake(t)
    PROVE  CallbackInv'
<1>0. StateTypes /\ Top(t) \in Frames /\ FrameOK(t, Top(t)) /\ Typed(Top(t))
  BY InvParts, TypeParts, TopFrame
<1>1. PICK g \in Frames : /\ g = [Top(t) EXCEPT !.at = "unlink"] /\ g.op = Top(t).op
                          /\ g.arg = Top(t).arg /\ g.at = "unlink"
  BY <1>0, AtIs
<1>2. Top(t).op = "reset" /\ Become(t, g)
  BY <1>1 DEF Wake, At, GoTo
<1>3. UNCHANGED <<requested, list, running, requester, registration, uses, calls>>
  BY DEF Wake, state
<1>4. Lists' /\ CalledOnce' /\ FreshElsewhere(t) /\ KeptFrames(t, Len(stack[t]) - 1)
  BY <1>3, NothingTouched
<1>5. StateTypes'
  BY <1>0 DEF StateTypes, Wake, state, registration
<1>6. Typed(g)
  BY <1>0, <1>1, <1>2 DEF Typed
<1>7. FrameOK(t, g)'
  <2>1. phase[g.arg] = "resetting"
    BY <1>0, <1>1, <1>2 DEF FrameOK, Resetting
  <2> QED
    BY <1>1, <1>2, <1>3, <2>1 DEF FrameOK, Resetting, registration
<1> QED
  BY <1>1, <1>2, <1>4, <1>5, <1>6, <1>7, GoesOn

LEMMA RunHereReturnsKeeps ==
    ASSUME CallbackInv, NEW t \in Threads, RunHereReturns(t)
    PROVE  CallbackInv'
<1>0. StateTypes
  BY InvParts, TypeParts
<1>1. Top(t).op = "register" /\ Return(t)
  BY DEF RunHereReturns
<1>2. Lists' /\ CalledOnce' /\ FreshElsewhere(t) /\ KeptFrames(t, Len(stack[t]) - 1)
  <2>1. UNCHANGED <<requested, list, running, requester, registration, uses, calls>>
    BY DEF RunHereReturns, state
  <2> QED
    BY <2>1, NothingTouched
<1>3. StateTypes'
  BY <1>0 DEF StateTypes, RunHereReturns, state, registration
<1> QED
  BY <1>1, <1>2, <1>3, Returns

-----------------------------------------------------------------------------
(* Stop tokens: request_stop()                                              *)

\* The next callback of s is taken: no other frame depends on it.
LEMMA PopNextKeeps ==
    ASSUME CallbackInv, NEW s \in States, PopNext(s), UNCHANGED <<registration, uses, calls>>,
           \A x \in States : requested[x] => requested'[x], requested'[s],
           \A x \in States : x # s => requester'[x] = requester[x]
    PROVE  /\ Lists' /\ CalledOnce'
           /\ list' \in [States -> Seq(Registrations)] /\ running' \in [States -> Registrations \cup {Null}]
           /\ \A u \in Threads : \A i \in 1..Len(stack[u]) : \A f \in Frames :
                 f = stack[u][i] /\ (f.op = "request" => f.arg # s) => FrameOK(u, f)'
           /\ list[s] # << >> => running'[s] # Null /\ \A x \in Registrations : x = running'[s] => Alive(x, s)'
           /\ \A t \in Threads : FreshElsewhere(t)
<1>0. StateTypes /\ Lists /\ CalledOnce /\ Fresh
  BY InvParts, TypeParts
<1>1. list \in [States -> Seq(Registrations)] /\ running \in [States -> Registrations \cup {Null}]
  BY <1>0 DEF StateTypes
<1>2. \A x \in States : x # s => list'[x] = list[x] /\ running'[x] = running[x]
  BY <1>1 DEF PopNext
<1>3. /\ list' \in [States -> Seq(Registrations)] /\ running' \in [States -> Registrations \cup {Null}]
      /\ Elems(list'[s]) \subseteq Elems(list[s]) /\ Distinct(list'[s])
      /\ running'[s] = Null \/ running'[s] \in Elems(list[s])
      /\ list[s] # << >> => running'[s] \in Elems(list[s])
  <2>1. CASE list[s] = << >>
    BY <1>0, <1>1, <2>1 DEF PopNext, Lists
  <2>2. CASE list[s] # << >>
    <3>1. list[s] \in Seq(Registrations) /\ Distinct(list[s])
      BY <1>0, <1>1 DEF Lists
    <3>2. /\ Head(list[s]) \in Registrations /\ Tail(list[s]) \in Seq(Registrations)
          /\ Elems(list[s]) = Elems(Tail(list[s])) \cup {Head(list[s])} /\ Distinct(Tail(list[s]))
      BY <2>2, <3>1, ChainTail
    <3>3. /\ running' = [running EXCEPT ![s] = Head(list[s])]
          /\ list' = [list EXCEPT ![s] = Tail(list[s])]
      BY <2>2 DEF PopNext
    <3> QED
      BY <1>1, <3>2, <3>3
  <2> QED
    BY <2>1, <2>2
<1>4. \A r \in Elems(list[s]) : Alive(r, s) /\ r \in Registrations /\ r # Null
  <2>1. Elems(list[s]) \subseteq Registrations
    BY <1>1 DEF Elems
  <2> QED
    BY <1>0, <2>1, StopAssumption DEF Lists
<1>5. Lists'
  <2>1. ASSUME NEW x \in States PROVE Distinct(list'[x]) /\ Elems(list'[x]) \subseteq Elems(list[x])
    BY <1>0, <1>2, <1>3 DEF Lists
  <2>2. ASSUME NEW x \in States, running'[x] # Null PROVE requested'[x] /\ StateOf[running'[x]] = x
    <3>1. CASE x = s
      BY <1>3, <1>4, <2>2, <3>1 DEF Alive
    <3>2. CASE x # s
      BY <1>0, <1>2, <2>2, <3>2 DEF Lists
    <3> QED
      BY <3>1, <3>2
  <2>3. \A x \in States : \A r \in Elems(list'[x]) : Alive(r, x)'
    BY <1>0, <2>1 DEF Lists, Alive, registration
  <2> QED
    BY <2>1, <2>2, <2>3 DEF Lists
<1>6. CalledOnce'
  BY <1>0 DEF CalledOnce, registration
<1>7. ASSUME NEW u \in Threads, NEW i \in 1..Len(stack[u]), NEW f \in Frames, f = stack[u][i],
             f.op = "request" => f.arg # s
      PROVE  FrameOK(u, f)'
  <2>1. FrameOK(u, f) /\ Typed(f)
    BY <1>7, OldFrame
  <2>2. CASE f.op = "request"
    <3>1. f.arg \in States /\ f.arg # s
      BY <1>7, <2>1, <2>2 DEF Typed
    <3> QED
      BY <1>2, <2>1, <2>2, <3>1 DEF FrameOK, Alive, registration
  <2>3. CASE f.op = "reset"
    <3>1. PICK r \in Registrations : r = f.arg /\ StateOf[r] \in States
      BY <2>1, <2>3, StopAssumption DEF Typed
    <3>2. Resetting(u, f) /\ f.at \in {"unlink", "wait", "clear"}
      BY <2>1, <2>3 DEF FrameOK, Typed
    <3>3. f.at # "unlink" => r \notin Elems(list[StateOf[r]]) /\ r \notin Elems(list'[StateOf[r]])
      BY <1>2, <1>3, <3>1, <3>2 DEF Resetting
    <3>4. ASSUME f.at = "clear" PROVE ~(running'[StateOf[r]] = r /\ requester'[StateOf[r]] # u)
      <4>1. CASE StateOf[r] = s
        BY <1>3, <3>1, <3>3, <3>4, <4>1, StopAssumption
      <4>2. CASE StateOf[r] # s
        BY <1>2, <3>1, <3>2, <3>4, <4>2 DEF Resetting, MustWait
      <4> QED
        BY <4>1, <4>2
    <3> QED
      BY <2>3, <3>1, <3>2, <3>3, <3>4 DEF FrameOK, Resetting, MustWait, registration
  <2>4. CASE f.op = "register"
    <3>1. PICK r \in Registrations : r = f.arg /\ StateOf[r] \in States
      BY <2>1, <2>4, StopAssumption DEF Typed
    <3>2. Registering(f)
      BY <2>1, <2>4 DEF FrameOK
    <3>3. ASSUME f.at \in {"claim", "link", "undo", "settle"} PROVE running'[StateOf[r]] # r
      <4>1. phase[r] \in {"idle", "registering", "reset_pending"}
        BY <3>1, <3>2, <3>3 DEF Registering
      <4>2. CASE StateOf[r] = s
        <5>1. r \notin Elems(list[s])
          BY <1>4, <4>1 DEF Alive
        <5>2. r # Null
          BY StopAssumption
        <5> QED
          BY <1>3, <4>2, <5>1, <5>2
      <4>3. CASE StateOf[r] # s
        BY <1>2, <3>1, <3>2, <3>3, <4>3 DEF Registering
      <4> QED
        BY <4>2, <4>3
    <3> QED
      BY <2>4, <3>1, <3>2, <3>3 DEF FrameOK, Registering, registration
  <2> QED
    BY <2>2, <2>3, <2>4 DEF FrameOK
<1>8. list[s] # << >> => running'[s] # Null /\ \A x \in Registrations : x = running'[s] => Alive(x, s)'
  BY <1>3, <1>4 DEF Alive, registration
<1>9. \A t \in Threads : FreshElsewhere(t)
  BY <1>0 DEF Fresh, FreshElsewhere, registration
<1> QED
  BY <1>3, <1>5, <1>6, <1>7, <1>8, <1>9

\* A frame of s that is about to invoke.
LEMMA InvokeFrame ==
    ASSUME NEW s \in States
    PROVE  \E g \in Frames : /\ g = Frame("request", s, "invoke") /\ g.op = "request" /\ g.arg = s
                             /\ g.at = "invoke" /\ Typed(g)
BY FrameIs DEF Typed

LEMMA InvokeFrameOK ==
    ASSUME StateTypes', NEW t \in Threads, NEW s \in States, NEW g \in Frames,
           g.op = "request", g.arg = s, requester'[s] = t, running'[s] # Null,
           \A x \in Registrations : x = running'[s] => Alive(x, s)'
    PROVE  FrameOK(t, g)'
<1>1. PICK x \in Registrations : x = running'[s]
  BY DEF StateTypes
<1>2. Alive(x, s)'
  BY <1>1
<1> QED
  BY <1>1, <1>2 DEF FrameOK, Alive

LEMMA RequestStopKeeps ==
    ASSUME CallbackInv, NEW t \in Threads, NEW c, RequestStop(t, c)
    PROVE  CallbackInv'
<1>0. StateTypes /\ Lists
  BY InvParts, TypeParts
<1>1. PICK s \in States : s = c.arg /\ Top(t).at = "user"
  BY CallIs DEF RequestStop
<1>2. CASE requested[s]
  <2>1. Push(t, c, << >>) /\ UNCHANGED <<state, registration, uses, calls>>
    BY <1>1, <1>2 DEF RequestStop
  <2>2. Lists' /\ CalledOnce' /\ FreshElsewhere(t) /\ KeptFrames(t, Len(stack[t]))
    <3>1. UNCHANGED <<requested, list, running, requester, registration, uses, calls>>
      BY <2>1 DEF state
    <3> QED
      BY <3>1, NothingTouched
  <2>3. StateTypes'
    BY <1>0, <2>1 DEF StateTypes, state, registration
  <2> QED
    BY <1>1, <2>1, <2>2, <2>3, PushesNone
<1>3. CASE ~requested[s]
  <2>1. /\ Push(t, c, IF list[s] = << >> THEN << >> ELSE <<Frame("request", s, "invoke")>>)
        /\ requested' = [requested EXCEPT ![s] = TRUE]
        /\ requester' = [requester EXCEPT ![s] = t]
        /\ PopNext(s) /\ UNCHANGED <<source, awaited, epoch, registration, uses, calls>>
    BY <1>1, <1>3 DEF RequestStop
  <2>2. /\ \A x \in States : requested[x] => requested'[x]
        /\ requested'[s] /\ requester'[s] = t /\ \A x \in States : x # s => requester'[x] = requester[x]
    BY <1>0, <2>1 DEF StateTypes
  <2>3. running[s] = Null
    BY <1>0, <1>3 DEF Lists
  <2>4. \A u \in Threads : \A j \in 1..Len(stack[u]) : ~(stack[u][j].op = "request" /\ stack[u][j].arg = s)
    <3>1. FramesOK
      BY InvParts
    <3> QED
      BY <2>3, <3>1 DEF FramesOK, FrameOK
  <2>5. Lists' /\ CalledOnce' /\ FreshElsewhere(t)
    BY <2>1, <2>2, PopNextKeeps
  <2>6. KeptFrames(t, Len(stack[t]))
    <3> SUFFICES ASSUME NEW u \in Threads, NEW i \in 1..Len(stack[u]), NEW f \in Frames, f = stack[u][i]
                 PROVE  FrameOK(u, f)'
      BY DEF KeptFrames
    <3>1. f.op = "request" => f.arg # s
      BY <2>4
    <3> QED
      BY <2>1, <2>2, <3>1, PopNextKeeps
  <2>7. StateTypes'
    <3>1. list' \in [States -> Seq(Registrations)] /\ running' \in [States -> Registrations \cup {Null}]
      BY <2>1, <2>2, PopNextKeeps
    <3> QED
      BY <1>0, <2>1, <3>1 DEF StateTypes, registration
  <2>8. CASE list[s] = << >>
    <3>1. Push(t, c, << >>)
      BY <2>1, <2>8
    <3> QED
      BY <1>1, <2>5, <2>6, <2>7, <3>1, PushesNone
  <2>9. CASE list[s] # << >>
    <3>1. PICK g \in Frames : /\ g = Frame("request", s, "invoke") /\ g.op = "request" /\ g.arg = s
                              /\ g.at = "invoke" /\ Typed(g)
      BY InvokeFrame
    <3>2. Push(t, c, <<g>>)
      BY <2>1, <2>9, <3>1
    <3>3. running'[s] # Null /\ \A x \in Registrations : x = running'[s] => Alive(x, s)'
      BY <2>1, <2>2, <2>9, PopNextKeeps
    <3>4. FrameOK(t, g)'
      BY <2>2, <2>7, <3>1, <3>3, InvokeFrameOK
    <3>5. \A u \in Threads : \A j \in 1..Len(stack[u]) : ~(stack[u][j].op = g.op /\ stack[u][j].arg = g.arg)
      BY <2>4, <3>1
    <3> QED
      BY <1>1, <2>5, <2>6, <2>7, <3>1, <3>2, <3>4, <3>5, PushesOne
  <2> QED
    BY <2>8, <2>9
<1> QED
  BY <1>2, <1>3

LEMMA RunReturnsKeeps ==
    ASSUME CallbackInv, NEW t \in Threads, RunReturns(t)
    PROVE  CallbackInv'
<1>0. StateTypes /\ Lists /\ FrameOK(t, Top(t)) /\ Typed(Top(t)) /\ Top(t) \in Frames
  BY InvParts, TypeParts, TopFrame
<1>1. PICK s \in States : s = Top(t).arg /\ Top(t).op = "request" /\ requester[s] = t /\ running[s] # Null
  BY <1>0 DEF RunReturns, FrameOK, Typed
<1>2. /\ EndRun(s) /\ PopNext(s)
      /\ IF list[s] = << >> THEN Return(t) ELSE Become(t, Frame("request", s, "invoke"))
      /\ UNCHANGED <<source, requested, requester, registration, uses, calls>>
  BY <1>1 DEF RunReturns
<1>3. /\ requested[s] /\ \A x \in States : requested[x] => requested'[x]
      /\ requested'[s] /\ requester'[s] = t /\ \A x \in States : x # s => requester'[x] = requester[x]
  BY <1>0, <1>1, <1>2 DEF Lists
<1>4. Lists' /\ CalledOnce' /\ FreshElsewhere(t)
  BY <1>2, <1>3, PopNextKeeps
<1>5. KeptFrames(t, Len(stack[t]) - 1)
  <2> SUFFICES ASSUME NEW u \in Threads, NEW i \in 1..Len(stack[u]), NEW f \in Frames, f = stack[u][i],
                      u = t => i <= Len(stack[t]) - 1
               PROVE  FrameOK(u, f)'
    BY DEF KeptFrames
  <2>1. ASSUME f.op = "request", f.arg = s PROVE FALSE
    <3>1. u = t /\ i = Len(stack[t])
      BY <1>1, <2>1, OldFrame
    <3>2. Len(stack[t]) \in Nat
      BY TopFrame
    <3> QED
      BY <3>1, <3>2
  <2> QED
    BY <1>2, <1>3, <2>1, PopNextKeeps
<1>6. StateTypes'
  <2>1. list' \in [States -> Seq(Registrations)] /\ running' \in [States -> Registrations \cup {Null}]
    BY <1>2, <1>3, PopNextKeeps
  <2>2. awaited' \in [States -> BOOLEAN] /\ epoch' \in [States -> Nat]
    <3>1. CASE awaited[s]
      <4>1. PICK k \in Nat : k = epoch[s] + 1
        BY <1>0 DEF StateTypes
      <4>2. awaited' = [awaited EXCEPT ![s] = FALSE] /\ epoch' = [epoch EXCEPT ![s] = k]
        BY <1>2, <3>1, <4>1 DEF EndRun
      <4> QED
        BY <1>0, <4>2 DEF StateTypes
    <3>2. CASE ~awaited[s]
      BY <1>0, <1>2, <3>2 DEF EndRun, StateTypes
    <3> QED
      BY <3>1, <3>2
  <2> QED
    BY <1>0, <1>2, <2>1, <2>2 DEF StateTypes, registration
<1>7. CASE list[s] = << >>
  BY <1>1, <1>2, <1>4, <1>5, <1>6, <1>7, Returns
<1>8. CASE list[s] # << >>
  <2>1. PICK g \in Frames : /\ g = Frame("request", s, "invoke") /\ g.op = "request" /\ g.arg = s
                            /\ g.at = "invoke" /\ Typed(g)
    BY InvokeFrame
  <2>2. Become(t, g)
    BY <1>2, <1>8, <2>1
  <2>3. running'[s] # Null /\ \A x \in Registrations : x = running'[s] => Alive(x, s)'
    BY <1>2, <1>3, <1>8, PopNextKeeps
  <2>4. FrameOK(t, g)'
    BY <1>3, <1>6, <2>1, <2>3, InvokeFrameOK
  <2> QED
    BY <1>1, <1>4, <1>5, <1>6, <2>1, <2>2, <2>4, GoesOn
<1> QED
  BY <1>7, <1>8

LEMMA InvokeKeeps ==
    ASSUME CallbackInv, NEW t \in Threads, Invoke(t)
    PROVE  CallbackInv'
<1>0. StateTypes /\ Lists /\ CalledOnce /\ Fresh /\ FrameOK(t, Top(t)) /\ Typed(Top(t)) /\ Top(t) \in Frames
  BY InvParts, TypeParts, TopFrame
<1>1. PICK s \in States : /\ s = Top(t).arg /\ Top(t).op = "request" /\ requester[s] = t
                          /\ running[s] # Null /\ Alive(running[s], s)
  BY <1>0 DEF Invoke, At, FrameOK, Typed
<1>2. PICK r \in Registrations : r = running[s] /\ Alive(r, s)
  BY <1>0, <1>1 DEF StateTypes
<1>3. CASE callback[r] = "armed"
  <2>1. /\ Become(t, UserFrame("request", s, r))
        /\ callback' = [callback EXCEPT ![r] = "taken"]
        /\ calls' = [calls EXCEPT ![r] = calls[r] + 1]
        /\ UNCHANGED <<state, phase, node, uses>>
    BY <1>1, <1>2, <1>3 DEF Invoke
  <2>2. PICK g \in Frames : /\ g = UserFrame("request", s, r) /\ g.op = "request" /\ g.arg = s
                            /\ g.at = "user"
    BY UserFrameIs
  <2>3. /\ Become(t, g) /\ Typed(g)
    BY <2>1, <2>2 DEF Typed
  <2>4. /\ calls' \in [Registrations -> Nat] /\ callback' \in [Registrations -> {"none", "armed", "taken"}]
        /\ calls'[r] = calls[r] + 1 /\ callback'[r] = "taken"
        /\ \A x \in Registrations : x # r => calls'[x] = calls[x] /\ callback'[x] = callback[x]
    BY <1>0, <2>1 DEF StateTypes
  <2>5. StateTypes'
    BY <1>0, <2>1, <2>4 DEF StateTypes, state
  <2>6. \A x \in Registrations, y \in States : Alive(x, y) => Alive(x, y)'
    BY <2>1, <2>4 DEF Alive
  <2>7. Lists'
    <3>1. \A x \in States : Elems(list[x]) \subseteq Registrations
      BY <1>0 DEF StateTypes, Elems
    <3> QED
      BY <1>0, <2>1, <2>6, <3>1 DEF Lists, state
  <2>8. CalledOnce'
    <3> SUFFICES ASSUME NEW x \in Registrations
                 PROVE  /\ calls'[x] <= uses'[x]
                        /\ phase'[x] = "registering" \/ callback'[x] = "armed" => calls'[x] < uses'[x]
      BY DEF CalledOnce
    <3>1. CASE x = r
      <4>1. calls[r] < uses[r] /\ calls[r] \in Nat /\ uses[r] \in Nat
        BY <1>0, <1>3 DEF CalledOnce, StateTypes
      <4>2. phase'[r] # "registering"
        BY <1>2, <2>1 DEF Alive
      <4> QED
        BY <2>1, <2>4, <3>1, <4>1, <4>2
    <3>2. CASE x # r
      BY <1>0, <2>1, <2>4, <3>2 DEF CalledOnce
    <3> QED
      BY <3>1, <3>2
  <2>9. FreshElsewhere(t)
    BY <1>0, <2>1 DEF Fresh, FreshElsewhere
  <2>10. KeptFrames(t, Len(stack[t]) - 1)
    <3> SUFFICES ASSUME NEW u \in Threads, NEW i \in 1..Len(stack[u]), NEW f \in Frames, f = stack[u][i]
                 PROVE  FrameOK(u, f)'
      BY DEF KeptFrames
    <3>1. FrameOK(u, f) /\ Typed(f)
      BY OldFrame
    <3>2. CASE f.op = "request"
      <4>1. PICK x \in Registrations : x = running[f.arg]
        BY <1>0, <3>1, <3>2 DEF FrameOK, Typed, StateTypes
      <4>2. f.at = "invoke" => Alive(x, f.arg)'
        BY <2>6, <3>1, <3>2, <4>1 DEF FrameOK, Typed
      <4> QED
        BY <2>1, <3>1, <3>2, <4>1, <4>2 DEF FrameOK, Alive, state
    <3>3. CASE f.op = "reset"
      BY <2>1, <3>1, <3>3 DEF FrameOK, Resetting, MustWait, state
    <3>4. CASE f.op = "register"
      <4>1. f.arg \in Registrations /\ Registering(f)
        BY <3>1, <3>4 DEF FrameOK, Typed
      <4>2. f.at \in {"link", "undo", "settle"} => f.arg # r
        BY <1>2, <4>1 DEF Registering, Alive
      <4> QED
        BY <2>1, <2>4, <3>4, <4>1, <4>2 DEF FrameOK, Registering, state
    <3> QED
      BY <3>2, <3>3, <3>4 DEF FrameOK
  <2>11. FrameOK(t, g)'
    BY <1>1, <2>1, <2>2 DEF FrameOK, state
  <2> QED
    BY <1>1, <2>2, <2>3, <2>5, <2>7, <2>8, <2>9, <2>10, <2>11, GoesOn
<1>4. CASE callback[r] # "armed"
  <2>1. PICK g \in Frames : /\ g = [Top(t) EXCEPT !.at = "user"] /\ g.op = Top(t).op
                            /\ g.arg = Top(t).arg /\ g.at = "user"
    <3>1. /\ [Top(t) EXCEPT !.at = "user"] \in Frames
          /\ [Top(t) EXCEPT !.at = "user"].op = Top(t).op
          /\ [Top(t) EXCEPT !.at = "user"].arg = Top(t).arg
          /\ [Top(t) EXCEPT !.at = "user"].at = "user"
      BY <1>0, AtIs
    <3> QED
      BY <3>1
  <2>2. Become(t, g) /\ UNCHANGED <<state, registration, uses, calls>>
    BY <1>1, <1>2, <1>4, <2>1 DEF Invoke, GoTo, registration
  <2>3. UNCHANGED <<requested, list, running, requester, registration, uses, calls>>
    BY <2>2 DEF state
  <2>4. Lists' /\ CalledOnce' /\ FreshElsewhere(t) /\ KeptFrames(t, Len(stack[t]) - 1)
    BY <2>3, NothingTouched
  <2>5. StateTypes'
    BY <1>0, <2>2 DEF StateTypes, state, registration
  <2>6. Typed(g)
    BY <1>1, <2>1 DEF Typed
  <2>7. FrameOK(t, g)'
    BY <1>1, <2>1, <2>3 DEF FrameOK
  <2> QED
    BY <1>1, <2>1, <2>2, <2>4, <2>5, <2>6, <2>7, GoesOn
<1> QED
  BY <1>3, <1>4

-----------------------------------------------------------------------------
(* Stop tokens: reset()                                                     *)

\* What a reset makes of a phase disturbs no call in progress.
LEMMA ResetPhaseKeeps ==
    ASSUME CallbackInv, NEW r \in Registrations, phase' = [phase EXCEPT ![r] = ResetPhase(r)],
           UNCHANGED <<state, node, callback, uses, calls>>, NEW t \in Threads, NEW n
    PROVE  /\ StateTypes' /\ Lists' /\ CalledOnce' /\ FreshElsewhere(t) /\ KeptFrames(t, n)
           /\ phase[r] = "idle" => phase'[r] = "idle"
           /\ phase[r] = "registered" => phase'[r] = "resetting"
<1>0. StateTypes /\ Lists /\ CalledOnce /\ Fresh /\ StackShape /\ StopTypeOK
  BY InvParts, TypeParts
<1>1. phase \in [Registrations -> {"idle", "registering", "reset_pending", "registered", "resetting"}]
  BY <1>0 DEF StateTypes
<1>2. /\ phase[r] = "registering" => ResetPhase(r) = "reset_pending"
      /\ phase[r] = "registered" => ResetPhase(r) = "resetting"
      /\ phase[r] \notin {"registering", "registered"} => ResetPhase(r) = phase[r]
  BY DEF ResetPhase
<1>3. ResetPhase(r) \in {"idle", "registering", "reset_pending", "registered", "resetting"}
  BY <1>1, <1>2
<1>4. /\ phase' \in [Registrations -> {"idle", "registering", "reset_pending", "registered", "resetting"}]
      /\ phase'[r] = ResetPhase(r) /\ \A x \in Registrations : x # r => phase'[x] = phase[x]
  BY <1>1, <1>3
<1>5. ASSUME NEW x \in Registrations
      PROVE  /\ phase[x] = "idle" => phase'[x] = "idle"
             /\ phase[x] = "resetting" => phase'[x] = "resetting"
             /\ phase[x] = "registered" => phase'[x] \in {"registered", "resetting"}
             /\ phase[x] \in {"registering", "reset_pending"} => phase'[x] \in {"registering", "reset_pending"}
             /\ phase'[x] = "registering" => phase[x] = "registering"
  BY <1>2, <1>4
<1>6. StateTypes'
  BY <1>0, <1>4 DEF StateTypes, state
<1>7. \A x \in Registrations, y \in States : Alive(x, y) => Alive(x, y)'
  BY <1>5 DEF Alive
<1>8. Lists'
  <2>1. \A x \in States : Elems(list[x]) \subseteq Registrations
    BY <1>0 DEF StateTypes, Elems
  <2> QED
    BY <1>0, <1>7, <2>1 DEF Lists, state
<1>9. CalledOnce'
  BY <1>0, <1>5 DEF CalledOnce
<1>10. FreshElsewhere(t)
  <2>1. ASSUME NEW u \in Threads, At(u, "register", "check") PROVE Top(u).arg \in Registrations
    BY <2>1, TopFrame DEF At, Typed
  <2> QED
    BY <1>0, <1>5, <2>1 DEF Fresh, FreshElsewhere
<1>11. KeptFrames(t, n)
  <2> SUFFICES ASSUME NEW u \in Threads, NEW i \in 1..Len(stack[u]), NEW f \in Frames, f = stack[u][i]
               PROVE  FrameOK(u, f)'
    BY DEF KeptFrames
  <2>1. FrameOK(u, f) /\ Typed(f)
    BY OldFrame
  <2>2. CASE f.op = "request"
    <3>1. PICK x \in Registrations : x = running[f.arg]
      BY <1>0, <2>1, <2>2 DEF FrameOK, Typed, StateTypes
    <3>2. f.at = "invoke" => Alive(x, f.arg)'
      BY <1>7, <2>1, <2>2, <3>1 DEF FrameOK, Typed
    <3> QED
      BY <2>1, <2>2, <3>1, <3>2 DEF FrameOK, Alive, state
  <2>3. CASE f.op = "reset"
    <3>1. f.arg \in Registrations /\ Resetting(u, f)
      BY <2>1, <2>3 DEF FrameOK, Typed
    <3>2. phase'[f.arg] = "resetting"
      BY <1>5, <3>1 DEF Resetting
    <3> QED
      BY <2>3, <3>1, <3>2 DEF FrameOK, Resetting, MustWait, state
  <2>4. CASE f.op = "register"
    <3>1. f.arg \in Registrations /\ Registering(f)
      BY <2>1, <2>4 DEF FrameOK, Typed
    <3>2. PICK x \in Registrations : x = f.arg
      BY <3>1
    <3> QED
      BY <1>5, <2>4, <3>1, <3>2 DEF FrameOK, Registering, state
  <2> QED
    BY <2>2, <2>3, <2>4 DEF FrameOK
<1> QED
  BY <1>2, <1>4, <1>6, <1>8, <1>9, <1>10, <1>11

\* The frame of a reset() that has begun.
LEMMA UnlinkFrame ==
    ASSUME NEW r \in Registrations
    PROVE  \E g \in Frames : /\ g = Frame("reset", r, "unlink") /\ g.op = "reset" /\ g.arg = r
                             /\ g.at = "unlink" /\ Typed(g)
BY FrameIs DEF Typed

\* A registered registration is not being reset.
LEMMA NotResetting ==
    ASSUME CallbackInv, NEW r \in Registrations, phase[r] # "resetting",
           NEW u \in Threads, NEW j \in 1..Len(stack[u])
    PROVE  ~(stack[u][j].op = "reset" /\ stack[u][j].arg = r)
<1>1. FramesOK
  BY InvParts
<1> QED
  BY <1>1 DEF FramesOK, FrameOK, Resetting

LEMMA ResetKeeps ==
    ASSUME CallbackInv, NEW t \in Threads, NEW c, Reset(t, c)
    PROVE  CallbackInv'
<1>1. PICK r \in Registrations : r = c.arg /\ Top(t).at = "user"
  BY CallIs DEF Reset
<1>2. /\ Push(t, c, IF phase[r] = "registered" THEN <<Frame("reset", r, "unlink")>> ELSE << >>)
      /\ phase' = [phase EXCEPT ![r] = ResetPhase(r)] /\ UNCHANGED <<state, node, callback, uses, calls>>
  BY <1>1 DEF Reset
<1>3. /\ StateTypes' /\ Lists' /\ CalledOnce' /\ FreshElsewhere(t) /\ KeptFrames(t, Len(stack[t]))
      /\ phase[r] = "registered" => phase'[r] = "resetting"
  BY <1>2, ResetPhaseKeeps
<1>4. CASE phase[r] = "registered"
  <2>1. PICK g \in Frames : /\ g = Frame("reset", r, "unlink") /\ g.op = "reset" /\ g.arg = r
                            /\ g.at = "unlink" /\ Typed(g)
    BY UnlinkFrame
  <2>2. Push(t, c, <<g>>)
    BY <1>2, <1>4, <2>1
  <2>3. FrameOK(t, g)'
    BY <1>3, <1>4, <2>1 DEF FrameOK, Resetting
  <2>4. \A u \in Threads : \A j \in 1..Len(stack[u]) : ~(stack[u][j].op = g.op /\ stack[u][j].arg = g.arg)
    BY <1>4, <2>1, NotResetting
  <2> QED
    BY <1>1, <1>3, <2>1, <2>2, <2>3, <2>4, PushesOne
<1>5. CASE phase[r] # "registered"
  <2>1. Push(t, c, << >>)
    BY <1>2, <1>5
  <2> QED
    BY <1>1, <1>3, <2>1, PushesNone
<1> QED
  BY <1>4, <1>5

LEMMA UnlinkKeeps ==
    ASSUME CallbackInv, NEW t \in Threads, Unlink(t)
    PROVE  CallbackInv'
<1>0. StateTypes /\ Lists /\ CalledOnce /\ Fresh /\ FrameOK(t, Top(t)) /\ Typed(Top(t)) /\ Top(t) \in Frames
  BY InvParts, TypeParts, TopFrame
<1>1. PICK r \in Registrations : /\ r = Top(t).arg /\ Top(t).op = "reset" /\ phase[r] = "resetting"
                                 /\ StateOf[r] \in States
  BY <1>0, StopAssumption DEF Unlink, At, FrameOK, Typed, Resetting
<1>2. PICK s \in States : s = StateOf[r]
  BY <1>1
<1>3. /\ list' = [list EXCEPT ![s] = Without(list[s], r)]
      /\ IF MustWait(t, r)
           THEN /\ awaited' = [awaited EXCEPT ![s] = TRUE]
                /\ Become(t, [Top(t) EXCEPT !.at = "wait", !.epoch = epoch[s]])
           ELSE GoTo(t, "clear") /\ UNCHANGED awaited
      /\ UNCHANGED <<source, requested, running, requester, epoch, registration, uses, calls>>
  BY <1>1, <1>2 DEF Unlink
<1>4. list[s] \in Seq(Registrations) /\ Distinct(list[s])
  BY <1>0 DEF StateTypes, Lists
<1>5. /\ Without(list[s], r) \in Seq(Registrations) /\ Distinct(Without(list[s], r))
      /\ Elems(Without(list[s], r)) = Elems(list[s]) \ {r}
  BY <1>4, ChainUnlink
<1>6. /\ list' \in [States -> Seq(Registrations)] /\ list'[s] = Without(list[s], r)
      /\ \A x \in States : x # s => list'[x] = list[x]
  BY <1>0, <1>3, <1>5 DEF StateTypes
<1>7. /\ \A x \in States : Distinct(list'[x]) /\ Elems(list'[x]) \subseteq Elems(list[x])
      /\ r \notin Elems(list'[s])
  BY <1>0, <1>5, <1>6 DEF Lists
<1>8. StateTypes'
  BY <1>0, <1>3, <1>6 DEF StateTypes, registration
<1>9. Lists'
  BY <1>0, <1>3, <1>7 DEF Lists, Alive, registration
<1>10. CalledOnce'
  BY <1>0, <1>3 DEF CalledOnce, registration
<1>11. FreshElsewhere(t)
  BY <1>0, <1>3 DEF Fresh, FreshElsewhere, registration
<1>12. KeptFrames(t, Len(stack[t]) - 1)
  <2> SUFFICES ASSUME NEW u \in Threads, NEW i \in 1..Len(stack[u]), NEW f \in Frames, f = stack[u][i]
               PROVE  FrameOK(u, f)'
    BY DEF KeptFrames
  <2>1. FrameOK(u, f) /\ Typed(f)
    BY OldFrame
  <2>2. CASE f.op = "request"
    BY <1>3, <2>1, <2>2 DEF FrameOK, Alive, registration
  <2>3. CASE f.op = "reset"
    <3>1. f.arg \in Registrations /\ Resetting(u, f) /\ StateOf[f.arg] \in States
      BY <2>1, <2>3, StopAssumption DEF FrameOK, Typed
    <3> QED
      BY <1>3, <1>7, <2>3, <3>1 DEF FrameOK, Resetting, MustWait, registration
  <2>4. CASE f.op = "register"
    BY <1>3, <2>1, <2>4 DEF FrameOK, Registering, registration
  <2> QED
    BY <2>2, <2>3, <2>4 DEF FrameOK
<1>13. ASSUME NEW g \in Frames, g.op = "reset", g.arg = r, g.at = "clear" => ~MustWait(t, r)
       PROVE  FrameOK(t, g)'
  BY <1>1, <1>2, <1>3, <1>7, <1>13 DEF FrameOK, Resetting, MustWait, registration
<1>14. CASE MustWait(t, r)
  <2>1. PICK k \in Nat : k = epoch[s]
    BY <1>0 DEF StateTypes
  <2>2. PICK g \in Frames : /\ g = [Top(t) EXCEPT !.at = "wait", !.epoch = k]
                            /\ g.op = Top(t).op /\ g.arg = Top(t).arg /\ g.at = "wait"
    <3>1. /\ [Top(t) EXCEPT !.at = "wait", !.epoch = k] \in Frames
          /\ [Top(t) EXCEPT !.at = "wait", !.epoch = k].op = Top(t).op
          /\ [Top(t) EXCEPT !.at = "wait", !.epoch = k].arg = Top(t).arg
          /\ [Top(t) EXCEPT !.at = "wait", !.epoch = k].at = "wait"
      BY <1>0 DEF Frames
    <3> QED
      BY <3>1
  <2>3. Become(t, g)
    BY <1>3, <1>14, <2>1, <2>2
  <2>4. Typed(g) /\ FrameOK(t, g)'
    BY <1>1, <1>13, <2>2 DEF Typed
  <2> QED
    BY <1>8, <1>9, <1>10, <1>11, <1>12, <2>2, <2>3, <2>4, GoesOn
<1>15. CASE ~MustWait(t, r)
  <2>1. PICK g \in Frames : /\ g = [Top(t) EXCEPT !.at = "clear"]
                            /\ g.op = Top(t).op /\ g.arg = Top(t).arg /\ g.at = "clear"
    <3>1. /\ [Top(t) EXCEPT !.at = "clear"] \in Frames
          /\ [Top(t) EXCEPT !.at = "clear"].op = Top(t).op
          /\ [Top(t) EXCEPT !.at = "clear"].arg = Top(t).arg
          /\ [Top(t) EXCEPT !.at = "clear"].at = "clear"
      BY <1>0, AtIs
    <3> QED
      BY <3>1
  <2>2. Become(t, g)
    BY <1>3, <1>15, <2>1 DEF GoTo
  <2>3. Typed(g) /\ FrameOK(t, g)'
    BY <1>1, <1>13, <1>15, <2>1 DEF Typed
  <2> QED
    BY <1>8, <1>9, <1>10, <1>11, <1>12, <2>1, <2>2, <2>3, GoesOn
<1> QED
  BY <1>14, <1>15

\* A reset() that is past its wait owns the run of its callback, if there is one.
LEMMA ClearedIsNotRun ==
    ASSUME CallbackInv, NEW t \in Threads, At(t, "reset", "clear"),
           NEW u \in Threads, NEW i \in 1..Len(stack[u]),
           stack[u][i].op = "request", running[stack[u][i].arg] = Top(t).arg
    PROVE  u = t
<1>0. StateTypes /\ Lists /\ FrameOK(t, Top(t)) /\ Typed(Top(t)) /\ StopTypeOK
  BY InvParts, TypeParts, TopFrame
<1>1. PICK f \in Frames : f = stack[u][i]
  BY <1>0 DEF StopTypeOK
<1>2. FrameOK(u, f) /\ Typed(f)
  BY <1>1, OldFrame
<1>3. PICK s \in States : s = f.arg /\ running[s] = Top(t).arg /\ running[s] # Null /\ requester[s] = u
  BY <1>1, <1>2 DEF FrameOK, Typed
<1>4. StateOf[Top(t).arg] = s
  BY <1>0, <1>3 DEF Lists
<1>5. ~MustWait(t, Top(t).arg)
  BY <1>0 DEF At, FrameOK, Resetting
<1> QED
  BY <1>3, <1>4, <1>5 DEF MustWait

LEMMA ClearKeeps ==
    ASSUME CallbackInv, NEW t \in Threads, Clear(t)
    PROVE  CallbackInv'
<1>0. StateTypes /\ Lists /\ CalledOnce /\ Fresh /\ FrameOK(t, Top(t)) /\ Typed(Top(t)) /\ Top(t) \in Frames
  BY InvParts, TypeParts, TopFrame
<1>1. PICK r \in Registrations : /\ r = Top(t).arg /\ Top(t).op = "reset" /\ Top(t).at = "clear"
                                 /\ Resetting(t, Top(t))
  BY <1>0 DEF Clear, At, FrameOK, Typed
<1>2. phase[r] = "resetting" /\ r \notin Elems(list[StateOf[r]])
  BY <1>1 DEF Resetting
<1>3. /\ Return(t) /\ node' = [node EXCEPT ![r] = FALSE] /\ callback' = [callback EXCEPT ![r] = "none"]
      /\ phase' = [phase EXCEPT ![r] = "idle"] /\ UNCHANGED <<state, uses, calls>>
  BY <1>1 DEF Clear
<1>4. StateTypes'
  BY <1>0, <1>3 DEF StateTypes, state
<1>5. /\ phase'[r] = "idle" /\ callback'[r] = "none"
      /\ \A x \in Registrations : x # r => phase'[x] = phase[x] /\ callback'[x] = callback[x] /\ node'[x] = node[x]
  BY <1>0, <1>3 DEF StateTypes
<1>6. \A x \in Registrations, y \in States : x # r /\ Alive(x, y) => Alive(x, y)'
  BY <1>5 DEF Alive
<1>7. Lists'
  <2>1. \A y \in States : \A x \in Elems(list[y]) : x \in Registrations /\ x # r
    <3>1. \A y \in States : Elems(list[y]) \subseteq Registrations
      BY <1>0 DEF StateTypes, Elems
    <3> QED
      BY <1>0, <1>2, <3>1 DEF Lists, Alive
  <2> QED
    BY <1>0, <1>3, <1>6, <2>1 DEF Lists, state
<1>8. CalledOnce'
  BY <1>0, <1>3, <1>5 DEF CalledOnce
<1>9. FreshElsewhere(t)
  <2>1. ASSUME NEW u \in Threads, At(u, "register", "check") PROVE Top(u).arg \in Registrations
    BY <2>1, TopFrame DEF At, Typed
  <2> QED
    BY <1>0, <1>5, <2>1 DEF Fresh, FreshElsewhere
<1>10. KeptFrames(t, Len(stack[t]) - 1)
  <2> SUFFICES ASSUME NEW u \in Threads, NEW i \in 1..Len(stack[u]), NEW f \in Frames, f = stack[u][i],
                      u = t => i <= Len(stack[t]) - 1
               PROVE  FrameOK(u, f)'
    BY DEF KeptFrames
  <2>0. Len(stack[t]) \in Nat
    BY TopFrame
  <2>1. FrameOK(u, f) /\ Typed(f)
    BY OldFrame
  <2>2. CASE f.op = "request"
    <3>1. PICK x \in Registrations : x = running[f.arg]
      BY <1>0, <2>1, <2>2 DEF FrameOK, Typed, StateTypes
    <3>2. ASSUME f.at = "invoke" PROVE x # r
      <4>1. f = Top(u)
        BY <3>2, OldFrame
      <4>2. x = r => u = t
        BY <1>1, <2>2, <3>1, ClearedIsNotRun DEF At
      <4> QED
        BY <1>1, <2>2, <4>1, <4>2
    <3>3. f.at = "invoke" => Alive(x, f.arg)'
      BY <1>6, <2>1, <2>2, <3>1, <3>2 DEF FrameOK, Typed
    <3> QED
      BY <1>3, <2>1, <2>2, <3>1, <3>3 DEF FrameOK, Alive, state
  <2>3. CASE f.op = "reset"
    <3>1. f.arg \in Registrations /\ Resetting(u, f)
      BY <2>1, <2>3 DEF FrameOK, Typed
    <3>2. f.arg # r
      <4>1. f.arg = r => u = t /\ i = Len(stack[t])
        BY <1>1, <2>3, OldFrame
      <4> QED
        BY <2>0, <4>1
    <3> QED
      BY <1>3, <1>5, <2>3, <3>1, <3>2 DEF FrameOK, Resetting, MustWait, state
  <2>4. CASE f.op = "register"
    <3>1. f.arg \in Registrations /\ Registering(f) /\ f.at \in {"check", "claim", "link", "undo", "settle", "user"}
      BY <2>1, <2>4 DEF FrameOK, Typed
    <3>2. CASE f.arg = r
      <4>1. f.at = "check"
        BY <1>2, <3>1, <3>2 DEF Registering
      <4> QED
        BY <1>5, <2>4, <3>2, <4>1 DEF FrameOK, Registering
    <3>3. CASE f.arg # r
      BY <1>3, <1>5, <2>4, <3>1, <3>3 DEF FrameOK, Registering, state
    <3> QED
      BY <3>2, <3>3
  <2> QED
    BY <2>2, <2>3, <2>4 DEF FrameOK
<1> QED
  BY <1>1, <1>3, <1>4, <1>5, <1>7, <1>8, <1>9, <1>10, Returns

-----------------------------------------------------------------------------
(* Stop tokens: register_callback()                                         *)

LEMMA RegisterKeeps ==
    ASSUME CallbackInv, NEW t \in Threads, NEW c, Register(t, c)
    PROVE  CallbackInv'
<1>1. PICK r \in Registrations : r = c.arg /\ Top(t).at = "user"
  BY CallIs DEF Register
<1>2. /\ phase[r] \in {"idle", "registered"}
      /\ \A u \in Threads : \A i \in 1..Len(stack[u]) : ~(stack[u][i].op = "register" /\ stack[u][i].arg = r)
      /\ Push(t, c, <<Frame("register", r, "check")>>
                    \o (IF phase[r] = "registered" THEN <<Frame("reset", r, "unlink")>> ELSE << >>))
      /\ phase' = [phase EXCEPT ![r] = ResetPhase(r)] /\ UNCHANGED <<state, node, callback, uses, calls>>
  BY <1>1 DEF Register
<1>3. /\ StateTypes' /\ Lists' /\ CalledOnce' /\ FreshElsewhere(t) /\ KeptFrames(t, Len(stack[t]))
      /\ phase[r] = "idle" => phase'[r] = "idle"
      /\ phase[r] = "registered" => phase'[r] = "resetting"
  BY <1>2, ResetPhaseKeeps
<1>4. PICK g \in Frames : /\ g = Frame("register", r, "check") /\ g.op = "register" /\ g.arg = r
                          /\ g.at = "check" /\ Typed(g)
  BY FrameIs DEF Typed
<1>5. FrameOK(t, g)'
  BY <1>2, <1>3, <1>4 DEF FrameOK, Registering
<1>6. CASE phase[r] = "idle"
  <2>1. Push(t, c, <<g>>)
    <3>1. <<g>> \in Seq(Frames)
      OBVIOUS
    <3>2. <<g>> \o << >> = <<g>>
      BY <3>1, ConcatEmptySeq
    <3> QED
      BY <1>2, <1>4, <1>6, <3>2
  <2>2. \A u \in Threads : \A j \in 1..Len(stack[u]) : ~(stack[u][j].op = g.op /\ stack[u][j].arg = g.arg)
    BY <1>2, <1>4
  <2> QED
    BY <1>1, <1>3, <1>4, <1>5, <1>6, <2>1, <2>2, PushesOne
<1>7. CASE phase[r] = "registered"
  <2>1. PICK h \in Frames : /\ h = Frame("reset", r, "unlink") /\ h.op = "reset" /\ h.arg = r
                            /\ h.at = "unlink" /\ Typed(h)
    BY UnlinkFrame
  <2>2. FrameOK(t, h)'
    BY <1>3, <1>7, <2>1 DEF FrameOK, Resetting
  <2>3. PICK fs \in Seq(Frames) : fs = <<g>> \o <<h>> /\ Len(fs) = 2 /\ fs[1] = g /\ fs[2] = h
    <3>1. PICK a \in Seq(Frames) : a = <<g>> /\ Len(a) = 1 /\ a[1] = g
      <4>1. <<g>> \in Seq(Frames) /\ Len(<<g>>) = 1 /\ <<g>>[1] = g
        OBVIOUS
      <4> QED
        BY <4>1
    <3>2. PICK b \in Seq(Frames) : b = <<h>> /\ Len(b) = 1 /\ b[1] = h
      <4>1. <<h>> \in Seq(Frames) /\ Len(<<h>>) = 1 /\ <<h>>[1] = h
        OBVIOUS
      <4> QED
        BY <4>1
    <3>3. /\ a \o b \in Seq(Frames) /\ Len(a \o b) = Len(a) + Len(b)
          /\ \A i \in 1..(Len(a) + Len(b)) : (a \o b)[i] = IF i <= Len(a) THEN a[i] ELSE b[i - Len(a)]
      BY ConcatProperties
    <3>4. Len(a \o b) = 2 /\ (a \o b)[1] = g /\ (a \o b)[2] = h
      BY <3>1, <3>2, <3>3
    <3> QED
      BY <3>1, <3>2, <3>3, <3>4
  <2>4. \A k \in 1..Len(fs) : k = 1 \/ k = 2
    BY <2>3
  <2>5. \A k \in 1..Len(fs) : fs[k] = g \/ fs[k] = h
    BY <2>3, <2>4
  <2>6. Push(t, c, fs)
    BY <1>2, <1>4, <1>7, <2>1, <2>3
  <2>7. \A u \in Threads : \A j \in 1..Len(stack[u]), k \in 1..Len(fs) :
               ~(stack[u][j].op = fs[k].op /\ stack[u][j].arg = fs[k].arg)
    <3>1. \A u \in Threads : \A j \in 1..Len(stack[u]) : ~(stack[u][j].op = g.op /\ stack[u][j].arg = g.arg)
      BY <1>2, <1>4
    <3>2. \A u \in Threads : \A j \in 1..Len(stack[u]) : ~(stack[u][j].op = h.op /\ stack[u][j].arg = h.arg)
      BY <1>7, <2>1, NotResetting
    <3> QED
      BY <2>5, <3>1, <3>2
  <2>8. /\ \A k \in 1..Len(fs) : Typed(fs[k]) /\ fs[k].op # "main"
        /\ \A k \in 1..Len(fs) : \A f \in Frames : f = fs[k] => FrameOK(t, f)'
    BY <1>4, <1>5, <2>1, <2>2, <2>5
  <2>9. /\ Len(fs) <= 2 /\ (Len(fs) = 2 => /\ fs[1].op = "register" /\ fs[1].at = "check"
                                          /\ fs[2].op = "reset" /\ fs[2].arg = fs[1].arg)
        /\ (Len(fs) = 1 /\ fs[1].op = "register" => phase'[fs[1].arg] = "idle")
    BY <1>4, <2>1, <2>3
  <2> QED
    BY <1>1, <1>3, <2>6, <2>7, <2>8, <2>9, Pushes
<1> QED
  BY <1>2, <1>6, <1>7

\* What one register() does to its registration before it is linked no other call sees.
LEMMA PrivateKeeps ==
    ASSUME CallbackInv, NEW t \in Threads, NEW r \in Registrations,
           Top(t).op = "register", Top(t).arg = r, phase[r] \notin {"registered", "resetting"},
           \A x \in Registrations : x # r => /\ phase'[x] = phase[x] /\ node'[x] = node[x]
                                             /\ callback'[x] = callback[x]
                                             /\ uses'[x] = uses[x] /\ calls'[x] = calls[x],
           UNCHANGED <<requested, running, requester>>,
           \A y \in States : Elems(list'[y]) \subseteq Elems(list[y]) \cup {r}
    PROVE  /\ FreshElsewhere(t) /\ KeptFrames(t, Len(stack[t]) - 1)
           /\ UNCHANGED list => Lists'
           /\ \A y \in States : r \notin Elems(list[y])
           /\ \A x \in Registrations, y \in States : x # r /\ Alive(x, y) => Alive(x, y)'
<1>0. StateTypes /\ Lists /\ Fresh
  BY InvParts, TypeParts
<1>1. \A x \in Registrations, y \in States : x # r /\ Alive(x, y) => Alive(x, y)'
  BY DEF Alive
<1>2. \A y \in States : \A x \in Elems(list[y]) : x \in Registrations /\ x # r
  <2>1. \A y \in States : Elems(list[y]) \subseteq Registrations
    BY <1>0 DEF StateTypes, Elems
  <2> QED
    BY <1>0, <2>1 DEF Lists, Alive
<1>3. UNCHANGED list => Lists'
  BY <1>0, <1>1, <1>2 DEF Lists
<1>4. FreshElsewhere(t)
  <2> SUFFICES ASSUME NEW u \in Threads, u # t, At(u, "register", "check")
               PROVE  phase'[Top(u).arg] = "idle"
    BY DEF FreshElsewhere
  <2>1. Top(u) \in Frames /\ Top(u).arg \in Registrations /\ Len(stack[u]) \in 1..Len(stack[u])
        /\ Top(u) = stack[u][Len(stack[u])] /\ Top(u).op = "register"
    BY TopFrame DEF At, Typed
  <2>2. Top(u).arg # r
    BY <2>1, OldFrame
  <2> QED
    BY <1>0, <2>1, <2>2 DEF Fresh
<1>5. KeptFrames(t, Len(stack[t]) - 1)
  <2> SUFFICES ASSUME NEW u \in Threads, NEW i \in 1..Len(stack[u]), NEW f \in Frames, f = stack[u][i],
                      u = t => i <= Len(stack[t]) - 1
               PROVE  FrameOK(u, f)'
    BY DEF KeptFrames
  <2>0. Len(stack[t]) \in Nat
    BY TopFrame
  <2>1. FrameOK(u, f) /\ Typed(f)
    BY OldFrame
  <2>2. CASE f.op = "request"
    <3>1. PICK x \in Registrations : x = running[f.arg]
      BY <1>0, <2>1, <2>2 DEF FrameOK, Typed, StateTypes
    <3>2. f.at = "invoke" => Alive(x, f.arg) /\ x # r
      BY <2>1, <2>2, <3>1 DEF FrameOK, Alive
    <3>3. f.at = "invoke" => Alive(x, f.arg)'
      BY <1>1, <2>1, <2>2, <3>2 DEF Typed
    <3> QED
      BY <2>1, <2>2, <3>1, <3>3 DEF FrameOK, Alive
  <2>3. CASE f.op = "reset"
    <3>1. f.arg \in Registrations /\ Resetting(u, f) /\ StateOf[f.arg] \in States
      BY <2>1, <2>3, StopAssumption DEF FrameOK, Typed
    <3>2. f.arg # r
      BY <3>1 DEF Resetting
    <3> QED
      BY <2>3, <3>1, <3>2 DEF FrameOK, Resetting, MustWait
  <2>4. CASE f.op = "register"
    <3>1. f.arg \in Registrations /\ Registering(f)
      BY <2>1, <2>4 DEF FrameOK, Typed
    <3>2. f.arg # r
      <4>1. f.arg = r => u = t /\ i = Len(stack[t])
        BY <2>4, OldFrame
      <4> QED
        BY <2>0, <4>1
    <3> QED
      BY <2>4, <3>1, <3>2 DEF FrameOK, Registering
  <2> QED
    BY <2>2, <2>3, <2>4 DEF FrameOK
<1> QED
  BY <1>1, <1>2, <1>3, <1>4, <1>5

\* A callback run inside the registration.
LEMMA RunHereIs ==
    ASSUME CallbackInv, NEW t \in Threads, NEW r \in Registrations, RunHere(t, r),
           Top(t).op = "register", Top(t).arg = r
    PROVE  /\ \E g \in Frames : /\ Become(t, g) /\ g.op = Top(t).op /\ g.arg = Top(t).arg
                                /\ g.at = "user" /\ g.op = "register" /\ g.arg = r /\ Typed(g)
           /\ calls' \in [Registrations -> Nat] /\ calls'[r] = calls[r] + 1
           /\ \A x \in Registrations : x # r => calls'[x] = calls[x]
<1>0. StateTypes
  BY InvParts, TypeParts
<1>1. PICK g \in Frames : /\ g = UserFrame("register", r, r) /\ g.op = "register" /\ g.arg = r
                          /\ g.at = "user"
  BY UserFrameIs
<1>2. Become(t, g) /\ Typed(g) /\ g.op = Top(t).op /\ g.arg = Top(t).arg
  BY <1>1 DEF RunHere, Typed
<1>3. /\ calls' \in [Registrations -> Nat] /\ calls'[r] = calls[r] + 1
      /\ \A x \in Registrations : x # r => calls'[x] = calls[x]
  BY <1>0 DEF RunHere, StateTypes
<1> QED
  BY <1>1, <1>2, <1>3

LEMMA CheckKeeps ==
    ASSUME CallbackInv, NEW t \in Threads, Check(t)
    PROVE  CallbackInv'
<1>0. StateTypes /\ Lists /\ CalledOnce /\ Fresh /\ Typed(Top(t)) /\ Top(t) \in Frames
  BY InvParts, TypeParts, TopFrame
<1>1. PICK r \in Registrations : /\ r = Top(t).arg /\ Top(t).op = "register" /\ phase[r] = "idle"
                                 /\ StateOf[r] \in States
  BY <1>0, StopAssumption DEF Check, At, Typed, Fresh
<1>2. /\ IF requested[StateOf[r]] THEN RunHere(t, r) /\ uses' = [uses EXCEPT ![r] = uses[r] + 1]
         ELSE /\ IF source[StateOf[r]] THEN GoTo(t, "claim") ELSE Return(t)
              /\ UNCHANGED <<uses, calls>>
      /\ UNCHANGED <<state, registration>>
  BY <1>1 DEF Check
<1>3. CASE requested[StateOf[r]]
  <2>1. /\ RunHere(t, r) /\ uses' = [uses EXCEPT ![r] = uses[r] + 1] /\ UNCHANGED <<state, registration>>
    BY <1>2, <1>3
  <2>2. PICK g \in Frames : /\ Become(t, g) /\ g.op = Top(t).op /\ g.arg = Top(t).arg
                            /\ g.at = "user" /\ g.op = "register" /\ g.arg = r /\ Typed(g)
    BY <1>1, <2>1, RunHereIs
  <2>3. /\ calls' \in [Registrations -> Nat] /\ calls'[r] = calls[r] + 1
        /\ \A x \in Registrations : x # r => calls'[x] = calls[x]
    BY <1>1, <2>1, RunHereIs
  <2>4. /\ uses' \in [Registrations -> Nat] /\ uses'[r] = uses[r] + 1
        /\ \A x \in Registrations : x # r => uses'[x] = uses[x]
    BY <1>0, <2>1 DEF StateTypes
  <2>5. StateTypes'
    BY <1>0, <2>1, <2>3, <2>4 DEF StateTypes, state, registration
  <2>6. FreshElsewhere(t) /\ KeptFrames(t, Len(stack[t]) - 1) /\ Lists'
    <3>1. /\ \A x \in Registrations : x # r => /\ phase'[x] = phase[x] /\ node'[x] = node[x]
                                               /\ callback'[x] = callback[x]
                                               /\ uses'[x] = uses[x] /\ calls'[x] = calls[x]
          /\ UNCHANGED <<requested, running, requester, list>> /\ phase[r] \notin {"registered", "resetting"}
      BY <1>1, <2>1, <2>3, <2>4 DEF state, registration
    <3>2. \A y \in States : Elems(list'[y]) \subseteq Elems(list[y]) \cup {r}
      BY <3>1
    <3> QED
      BY <1>1, <3>1, <3>2, PrivateKeeps
  <2>7. CalledOnce'
    <3> SUFFICES ASSUME NEW x \in Registrations
                 PROVE  /\ calls'[x] <= uses'[x]
                        /\ phase'[x] = "registering" \/ callback'[x] = "armed" => calls'[x] < uses'[x]
      BY DEF CalledOnce
    <3>1. /\ calls[x] \in Nat /\ uses[x] \in Nat /\ calls[x] <= uses[x]
          /\ phase[x] = "registering" \/ callback[x] = "armed" => calls[x] < uses[x]
      BY <1>0 DEF CalledOnce, StateTypes
    <3>2. phase'[x] = phase[x] /\ callback'[x] = callback[x]
      BY <2>1 DEF registration
    <3>3. CASE x = r
      BY <2>3, <2>4, <3>1, <3>2, <3>3
    <3>4. CASE x # r
      BY <2>3, <2>4, <3>1, <3>2, <3>4
    <3> QED
      BY <3>3, <3>4
  <2>8. FrameOK(t, g)'
    BY <1>1, <2>1, <2>2 DEF FrameOK, Registering, registration
  <2> QED
    BY <2>2, <2>5, <2>6, <2>7, <2>8, GoesOn
<1>4. CASE ~requested[StateOf[r]]
  <2>1. /\ IF source[StateOf[r]] THEN GoTo(t, "claim") ELSE Return(t)
        /\ UNCHANGED <<state, registration, uses, calls>>
    BY <1>2, <1>4
  <2>2. UNCHANGED <<requested, list, running, requester, registration, uses, calls>>
    BY <2>1 DEF state
  <2>3. Lists' /\ CalledOnce' /\ FreshElsewhere(t) /\ KeptFrames(t, Len(stack[t]) - 1)
    BY <2>2, NothingTouched
  <2>4. StateTypes'
    BY <1>0, <2>1 DEF StateTypes, state, registration
  <2>5. CASE source[StateOf[r]]
    <3>1. PICK g \in Frames : /\ g = [Top(t) EXCEPT !.at = "claim"]
                              /\ g.op = Top(t).op /\ g.arg = Top(t).arg /\ g.at = "claim"
      <4>1. /\ [Top(t) EXCEPT !.at = "claim"] \in Frames
            /\ [Top(t) EXCEPT !.at = "claim"].op = Top(t).op
            /\ [Top(t) EXCEPT !.at = "claim"].arg = Top(t).arg
            /\ [Top(t) EXCEPT !.at = "claim"].at = "claim"
        BY <1>0, AtIs
      <4> QED
        BY <4>1
    <3>2. Become(t, g)
      BY <2>1, <2>5, <3>1 DEF GoTo
    <3>3. running[StateOf[r]] # r
      <4>1. running[StateOf[r]] = Null
        BY <1>0, <1>1, <1>4 DEF Lists
      <4> QED
        BY <4>1, StopAssumption
    <3>4. Typed(g) /\ FrameOK(t, g)'
      BY <1>1, <2>2, <3>1, <3>3 DEF Typed, FrameOK, Registering, registration
    <3> QED
      BY <2>3, <2>4, <3>1, <3>2, <3>4, GoesOn
  <2>6. CASE ~source[StateOf[r]]
    <3>1. Return(t)
      BY <2>1, <2>6
    <3> QED
      BY <1>1, <2>3, <2>4, <3>1, Returns
  <2> QED
    BY <2>5, <2>6
<1> QED
  BY <1>3, <1>4

LEMMA ClaimKeeps ==
    ASSUME CallbackInv, NEW t \in Threads, Claim(t)
    PROVE  CallbackInv'
<1>0. /\ StateTypes /\ Lists /\ CalledOnce /\ Fresh /\ FrameOK(t, Top(t)) /\ Typed(Top(t)) /\ Top(t) \in Frames
  BY InvParts, TypeParts, TopFrame
<1>1. PICK r \in Registrations : /\ r = Top(t).arg /\ Top(t).op = "register" /\ Top(t).at = "claim"
                                 /\ phase[r] = "idle" /\ running[StateOf[r]] # r
  BY <1>0 DEF Claim, At, Typed, FrameOK, Registering
<1>2. /\ GoTo(t, "link") /\ phase' = [phase EXCEPT ![r] = "registering"]
      /\ node' = [node EXCEPT ![r] = TRUE] /\ callback' = [callback EXCEPT ![r] = "armed"]
      /\ uses' = [uses EXCEPT ![r] = uses[r] + 1] /\ UNCHANGED <<state, calls>>
  BY <1>1 DEF Claim
<1>3. /\ uses' \in [Registrations -> Nat] /\ uses'[r] = uses[r] + 1 /\ phase'[r] = "registering" /\ node'[r]
      /\ callback'[r] = "armed"
      /\ \A x \in Registrations : x # r => /\ phase'[x] = phase[x] /\ node'[x] = node[x]
                                           /\ callback'[x] = callback[x]
                                           /\ uses'[x] = uses[x] /\ calls'[x] = calls[x]
  BY <1>0, <1>2 DEF StateTypes
<1>4. StateTypes'
  BY <1>0, <1>2, <1>3 DEF StateTypes, state
<1>5. FreshElsewhere(t) /\ KeptFrames(t, Len(stack[t]) - 1) /\ Lists'
  <2>1. /\ UNCHANGED <<requested, running, requester, list>> /\ phase[r] \notin {"registered", "resetting"}
    BY <1>1, <1>2 DEF state
  <2>2. \A y \in States : Elems(list'[y]) \subseteq Elems(list[y]) \cup {r}
    BY <2>1
  <2> QED
    BY <1>1, <1>3, <2>1, <2>2, PrivateKeeps
<1>6. CalledOnce'
  <2> SUFFICES ASSUME NEW x \in Registrations
               PROVE  /\ calls'[x] <= uses'[x]
                      /\ phase'[x] = "registering" \/ callback'[x] = "armed" => calls'[x] < uses'[x]
    BY DEF CalledOnce
  <2>1. CASE x = r
    <3>1. calls[r] \in Nat /\ uses[r] \in Nat /\ calls[r] <= uses[r] /\ calls'[r] = calls[r]
      BY <1>0, <1>2 DEF CalledOnce, StateTypes
    <3> QED
      BY <1>3, <2>1, <3>1
  <2>2. CASE x # r
    BY <1>0, <1>3, <2>2 DEF CalledOnce
  <2> QED
    BY <2>1, <2>2
<1>7. PICK g \in Frames : /\ g = [Top(t) EXCEPT !.at = "link"]
                          /\ g.op = Top(t).op /\ g.arg = Top(t).arg /\ g.at = "link"
  <2>1. /\ [Top(t) EXCEPT !.at = "link"] \in Frames
        /\ [Top(t) EXCEPT !.at = "link"].op = Top(t).op
        /\ [Top(t) EXCEPT !.at = "link"].arg = Top(t).arg
        /\ [Top(t) EXCEPT !.at = "link"].at = "link"
    BY <1>0, AtIs
  <2> QED
    BY <2>1
<1>8. Become(t, g)
  BY <1>2, <1>7 DEF GoTo
<1>9. Typed(g) /\ FrameOK(t, g)'
  BY <1>1, <1>2, <1>3, <1>7 DEF Typed, FrameOK, Registering, state
<1> QED
  BY <1>4, <1>5, <1>6, <1>7, <1>8, <1>9, GoesOn

LEMMA LinkKeeps ==
    ASSUME CallbackInv, NEW t \in Threads, Link(t)
    PROVE  CallbackInv'
<1>0. /\ StateTypes /\ Lists /\ CalledOnce /\ Fresh /\ FrameOK(t, Top(t)) /\ Typed(Top(t)) /\ Top(t) \in Frames
  BY InvParts, TypeParts, TopFrame
<1>1. PICK r \in Registrations : /\ r = Top(t).arg /\ Top(t).op = "register" /\ Top(t).at = "link"
                                 /\ Registering(Top(t)) /\ StateOf[r] \in States
  BY <1>0, StopAssumption DEF Link, At, Typed, FrameOK
<1>2. /\ phase[r] \in {"registering", "reset_pending"} /\ running[StateOf[r]] # r /\ node[r]
      /\ callback[r] = "armed"
  BY <1>1 DEF Registering
<1>3. PICK s \in States : s = StateOf[r]
  BY <1>1
<1>4. CASE Linkable(r)
  <2>1. /\ phase' = [phase EXCEPT ![r] = "registered"] /\ list' = [list EXCEPT ![s] = <<r>> \o list[s]]
        /\ Return(t)
        /\ UNCHANGED <<source, requested, running, requester, awaited, epoch, node, callback, uses, calls>>
    BY <1>1, <1>3, <1>4 DEF Link
  <2>2. list[s] \in Seq(Registrations) /\ Distinct(list[s])
    BY <1>0 DEF StateTypes, Lists
  <2>3. /\ <<r>> \o list[s] \in Seq(Registrations) /\ Elems(<<r>> \o list[s]) = Elems(list[s]) \cup {r}
        /\ Distinct(list[s]) /\ r \notin Elems(list[s]) => Distinct(<<r>> \o list[s])
    BY <2>2, ChainPrepend
  <2>4. /\ list' \in [States -> Seq(Registrations)] /\ list'[s] = <<r>> \o list[s]
        /\ \A y \in States : y # s => list'[y] = list[y]
    BY <1>0, <2>1, <2>3 DEF StateTypes
  <2>5. \A y \in States : Elems(list'[y]) \subseteq Elems(list[y]) \cup {r}
    BY <2>3, <2>4
  <2>6. /\ phase'[r] = "registered"
        /\ \A x \in Registrations : x # r => /\ phase'[x] = phase[x] /\ node'[x] = node[x]
                                             /\ callback'[x] = callback[x]
                                             /\ uses'[x] = uses[x] /\ calls'[x] = calls[x]
    BY <1>0, <2>1 DEF StateTypes
  <2>7. /\ FreshElsewhere(t) /\ KeptFrames(t, Len(stack[t]) - 1) /\ \A y \in States : r \notin Elems(list[y])
        /\ \A x \in Registrations, y \in States : x # r /\ Alive(x, y) => Alive(x, y)'
    BY <1>1, <1>2, <2>1, <2>5, <2>6, PrivateKeeps
  <2>8. StateTypes'
    BY <1>0, <2>1, <2>4 DEF StateTypes
  <2>9. Lists'
    <3>1. Alive(r, s)'
      BY <1>2, <1>3, <2>1, <2>6 DEF Alive
    <3>2. ASSUME NEW y \in States, NEW x \in Elems(list[y]) PROVE Alive(x, y)'
      <4>1. x \in Registrations /\ x # r /\ Alive(x, y)
        BY <1>0, <2>7 DEF StateTypes, Elems, Lists
      <4> QED
        BY <2>7, <4>1
    <3>3. ASSUME NEW y \in States, NEW x \in Elems(list'[y]) PROVE Alive(x, y)'
      <4>1. CASE y = s
        <5>1. x \in Elems(list[y]) \/ x = r
          BY <2>3, <2>4, <4>1
        <5>2. CASE x = r
          BY <3>1, <4>1, <5>2
        <5> QED
          BY <3>2, <5>1, <5>2
      <4>2. CASE y # s
        BY <2>4, <3>2, <4>2
      <4> QED
        BY <4>1, <4>2
    <3>4. \A y \in States : Distinct(list'[y])
      BY <1>0, <2>2, <2>3, <2>4, <2>7 DEF Lists
    <3> QED
      BY <1>0, <2>1, <3>3, <3>4 DEF Lists
  <2>10. CalledOnce'
    <3> SUFFICES ASSUME NEW x \in Registrations
                 PROVE  /\ calls'[x] <= uses'[x]
                        /\ phase'[x] = "registering" \/ callback'[x] = "armed" => calls'[x] < uses'[x]
      BY DEF CalledOnce
    <3>1. phase'[x] = "registering" => phase[x] = "registering"
      BY <2>6
    <3> QED
      BY <1>0, <2>1, <3>1 DEF CalledOnce
  <2> QED
    BY <1>1, <2>1, <2>7, <2>8, <2>9, <2>10, Returns
<1>5. CASE ~Linkable(r)
  <2>1. /\ GoTo(t, "undo") /\ UNCHANGED <<state, registration, uses, calls>>
    BY <1>1, <1>5 DEF Link, state, registration
  <2>2. UNCHANGED <<requested, list, running, requester, registration, uses, calls>>
    BY <2>1 DEF state
  <2>3. Lists' /\ CalledOnce' /\ FreshElsewhere(t) /\ KeptFrames(t, Len(stack[t]) - 1)
    BY <2>2, NothingTouched
  <2>4. StateTypes'
    BY <1>0, <2>1 DEF StateTypes, state, registration
  <2>5. PICK g \in Frames : /\ g = [Top(t) EXCEPT !.at = "undo"]
                            /\ g.op = Top(t).op /\ g.arg = Top(t).arg /\ g.at = "undo"
    <3>1. /\ [Top(t) EXCEPT !.at = "undo"] \in Frames
          /\ [Top(t) EXCEPT !.at = "undo"].op = Top(t).op
          /\ [Top(t) EXCEPT !.at = "undo"].arg = Top(t).arg
          /\ [Top(t) EXCEPT !.at = "undo"].at = "undo"
      BY <1>0, AtIs
    <3> QED
      BY <3>1
  <2>6. Become(t, g)
    BY <2>1, <2>5 DEF GoTo
  <2>7. Typed(g) /\ FrameOK(t, g)'
    BY <1>1, <1>2, <2>2, <2>5 DEF Typed, FrameOK, Registering, registration
  <2> QED
    BY <2>3, <2>4, <2>5, <2>6, <2>7, GoesOn
<1> QED
  BY <1>4, <1>5

LEMMA UndoKeeps ==
    ASSUME CallbackInv, NEW t \in Threads, Undo(t)
    PROVE  CallbackInv'
<1>0. /\ StateTypes /\ Lists /\ CalledOnce /\ Fresh /\ FrameOK(t, Top(t)) /\ Typed(Top(t)) /\ Top(t) \in Frames
  BY InvParts, TypeParts, TopFrame
<1>1. PICK r \in Registrations : /\ r = Top(t).arg /\ Top(t).op = "register" /\ Top(t).at = "undo"
                                 /\ Registering(Top(t))
  BY <1>0 DEF Undo, At, Typed, FrameOK
<1>2. /\ phase[r] \in {"registering", "reset_pending"} /\ running[StateOf[r]] # r /\ callback[r] = "armed"
  BY <1>1 DEF Registering
<1>3. /\ GoTo(t, "settle") /\ node' = [node EXCEPT ![r] = FALSE]
      /\ callback' = [callback EXCEPT ![r] = "none"] /\ UNCHANGED <<state, phase, uses, calls>>
  BY <1>1 DEF Undo
<1>4. /\ callback'[r] = "none"
      /\ \A x \in Registrations : x # r => /\ phase'[x] = phase[x] /\ node'[x] = node[x]
                                           /\ callback'[x] = callback[x]
                                           /\ uses'[x] = uses[x] /\ calls'[x] = calls[x]
  BY <1>0, <1>3 DEF StateTypes
<1>5. StateTypes'
  BY <1>0, <1>3 DEF StateTypes, state
<1>6. FreshElsewhere(t) /\ KeptFrames(t, Len(stack[t]) - 1) /\ Lists'
  <2>1. /\ UNCHANGED <<requested, running, requester, list>> /\ phase[r] \notin {"registered", "resetting"}
    BY <1>2, <1>3 DEF state
  <2>2. \A y \in States : Elems(list'[y]) \subseteq Elems(list[y]) \cup {r}
    BY <2>1
  <2> QED
    BY <1>1, <1>4, <2>1, <2>2, PrivateKeeps
<1>7. CalledOnce'
  <2> SUFFICES ASSUME NEW x \in Registrations
               PROVE  /\ calls'[x] <= uses'[x]
                      /\ phase'[x] = "registering" \/ callback'[x] = "armed" => calls'[x] < uses'[x]
    BY DEF CalledOnce
  <2>1. callback'[x] = "armed" => callback[x] = "armed"
    BY <1>4
  <2> QED
    BY <1>0, <1>3, <2>1 DEF CalledOnce
<1>8. PICK g \in Frames : /\ g = [Top(t) EXCEPT !.at = "settle"]
                          /\ g.op = Top(t).op /\ g.arg = Top(t).arg /\ g.at = "settle"
  <2>1. /\ [Top(t) EXCEPT !.at = "settle"] \in Frames
        /\ [Top(t) EXCEPT !.at = "settle"].op = Top(t).op
        /\ [Top(t) EXCEPT !.at = "settle"].arg = Top(t).arg
        /\ [Top(t) EXCEPT !.at = "settle"].at = "settle"
    BY <1>0, AtIs
  <2> QED
    BY <2>1
<1>9. Become(t, g)
  BY <1>3, <1>8 DEF GoTo
<1>10. calls[r] < uses[r]
  BY <1>0, <1>2 DEF CalledOnce
<1>11. Typed(g) /\ FrameOK(t, g)'
  BY <1>1, <1>2, <1>3, <1>4, <1>8, <1>10 DEF Typed, FrameOK, Registering, state
<1> QED
  BY <1>5, <1>6, <1>7, <1>8, <1>9, <1>11, GoesOn

LEMMA SettleKeeps ==
    ASSUME CallbackInv, NEW t \in Threads, Settle(t)
    PROVE  CallbackInv'
<1>0. /\ StateTypes /\ Lists /\ CalledOnce /\ Fresh /\ FrameOK(t, Top(t)) /\ Typed(Top(t)) /\ Top(t) \in Frames
  BY InvParts, TypeParts, TopFrame
<1>1. PICK r \in Registrations : /\ r = Top(t).arg /\ Top(t).op = "register" /\ Top(t).at = "settle"
                                 /\ Registering(Top(t))
  BY <1>0 DEF Settle, At, Typed, FrameOK
<1>2. /\ phase[r] \in {"registering", "reset_pending"} /\ callback[r] = "none" /\ calls[r] < uses[r]
      /\ calls[r] \in Nat /\ uses[r] \in Nat
  BY <1>0, <1>1 DEF Registering, StateTypes
<1>3. /\ phase' = [phase EXCEPT ![r] = "idle"]
      /\ IF phase[r] = "reset_pending" THEN Return(t) /\ UNCHANGED calls ELSE RunHere(t, r)
      /\ UNCHANGED <<state, node, callback, uses>>
  BY <1>1 DEF Settle
<1>4. /\ calls' \in [Registrations -> Nat] /\ calls'[r] <= uses[r]
      /\ \A x \in Registrations : x # r => calls'[x] = calls[x]
  <2>1. CASE phase[r] = "reset_pending"
    BY <1>0, <1>2, <1>3, <2>1 DEF StateTypes
  <2>2. CASE phase[r] # "reset_pending"
    <3>1. /\ calls' \in [Registrations -> Nat] /\ calls'[r] = calls[r] + 1
          /\ \A x \in Registrations : x # r => calls'[x] = calls[x]
      BY <1>1, <1>3, <2>2, RunHereIs
    <3> QED
      BY <1>2, <3>1
  <2> QED
    BY <2>1, <2>2
<1>5. /\ phase'[r] = "idle"
      /\ \A x \in Registrations : x # r => /\ phase'[x] = phase[x] /\ node'[x] = node[x]
                                           /\ callback'[x] = callback[x]
                                           /\ uses'[x] = uses[x] /\ calls'[x] = calls[x]
  BY <1>0, <1>3, <1>4 DEF StateTypes
<1>6. StateTypes'
  BY <1>0, <1>3, <1>4 DEF StateTypes, state
<1>7. FreshElsewhere(t) /\ KeptFrames(t, Len(stack[t]) - 1) /\ Lists'
  <2>1. /\ UNCHANGED <<requested, running, requester, list>> /\ phase[r] \notin {"registered", "resetting"}
    BY <1>2, <1>3 DEF state
  <2>2. \A y \in States : Elems(list'[y]) \subseteq Elems(list[y]) \cup {r}
    BY <2>1
  <2> QED
    BY <1>1, <1>5, <2>1, <2>2, PrivateKeeps
<1>8. CalledOnce'
  <2> SUFFICES ASSUME NEW x \in Registrations
               PROVE  /\ calls'[x] <= uses'[x]
                      /\ phase'[x] = "registering" \/ callback'[x] = "armed" => calls'[x] < uses'[x]
    BY DEF CalledOnce
  <2>1. CASE x = r
    BY <1>2, <1>3, <1>4, <1>5, <2>1
  <2>2. CASE x # r
    BY <1>0, <1>5, <2>2 DEF CalledOnce
  <2> QED
    BY <2>1, <2>2
<1>9. CASE phase[r] = "reset_pending"
  <2>1. Return(t)
    BY <1>3, <1>9
  <2> QED
    BY <1>1, <1>6, <1>7, <1>8, <2>1, Returns
<1>10. CASE phase[r] # "reset_pending"
  <2>1. PICK g \in Frames : /\ Become(t, g) /\ g.op = Top(t).op /\ g.arg = Top(t).arg
                            /\ g.at = "user" /\ g.op = "register" /\ g.arg = r /\ Typed(g)
    BY <1>1, <1>3, <1>10, RunHereIs
  <2>2. FrameOK(t, g)'
    BY <1>5, <2>1 DEF FrameOK, Registering
  <2> QED
    BY <1>6, <1>7, <1>8, <2>1, <2>2, GoesOn
<1> QED
  BY <1>9, <1>10

-----------------------------------------------------------------------------
(* Stop tokens: the theorems                                                *)

LEMMA StopStart ==
    ASSUME StopInit
    PROVE  CallbackInv
<1>1. \A t \in Threads : /\ Main(t) \in Frames /\ Main(t).op = "main" /\ Main(t).at = "user"
  <2> TAKE t \in Threads
  <2>1. PICK T \in SUBSET UserCalls : T = Program[t]
    BY StopAssumption
  <2>2. PICK g \in Frames : g = Frame("main", Null, "user") /\ g.op = "main" /\ g.at = "user"
    <3>1. /\ Frame("main", Null, "user") \in Frames
          /\ Frame("main", Null, "user").op = "main" /\ Frame("main", Null, "user").at = "user"
      BY DEF Frame, Frames
    <3> QED
      BY <3>1
  <2>3. [g EXCEPT !.todo = T] \in Frames /\ [g EXCEPT !.todo = T].op = "main" /\ [g EXCEPT !.todo = T].at = "user"
    BY <2>2 DEF Frames
  <2> QED
    BY <2>1, <2>2, <2>3 DEF Main
<1>2. /\ stack \in [Threads -> Seq(Frames)]
      /\ \A t \in Threads : stack[t] # << >> /\ Len(stack[t]) = 1 /\ stack[t][1] = Main(t)
  BY <1>1 DEF StopInit
<1>3. \A t \in Threads : \A i \in 1..Len(stack[t]) : i = 1 /\ stack[t][i].op = "main" /\ stack[t][i].at = "user"
  <2> TAKE t \in Threads
  <2>1. \A i \in 1..1 : i = 1
    OBVIOUS
  <2>2. Len(stack[t]) = 1
    BY <1>2
  <2> QED
    BY <1>1, <1>2, <2>1, <2>2
<1>4. StopTypeOK
  <2>1. << >> \in Seq(Registrations)
    OBVIOUS
  <2> QED
    BY <1>2, <2>1 DEF StopInit, StopTypeOK
<1>5. StackShape
  <2>1. \A t \in Threads : \A i \in 1..Len(stack[t]) : ~(i < Len(stack[t]))
    BY <1>2
  <2> QED
    BY <1>2, <1>3, <2>1 DEF StackShape
<1>6. OneCallEach
  BY <1>3 DEF OneCallEach
<1>7. Lists
  BY ChainEmpty DEF StopInit, Lists
<1>8. Fresh
  BY <1>1, <1>2 DEF Fresh, At, Top
<1>9. FramesOK
  BY <1>3 DEF FramesOK, FrameOK
<1>10. CalledOnce
  BY DEF CalledOnce, StopInit
<1> QED
  BY <1>4, <1>5, <1>6, <1>7, <1>8, <1>9, <1>10, InvParts

LEMMA StopStutter ==
    ASSUME CallbackInv, UNCHANGED stopVars
    PROVE  CallbackInv'
<1>0. StopTypeOK /\ StackShape /\ OneCallEach /\ NodesAlive /\ CallsExact /\ CalledOnce
  BY DEF CallbackInv
<1>1. StopTypeOK'
  BY <1>0 DEF StopTypeOK, stopVars, state, registration
<1>2. StackShape' /\ OneCallEach'
  BY <1>0 DEF StackShape, OneCallEach, Top, stopVars
<1>3. NodesAlive'
  BY <1>0 DEF NodesAlive, Alive, stopVars, state, registration
<1>4. CallsExact'
  BY <1>0 DEF CallsExact, At, Top, Resetting, Registering, MustWait, stopVars, state, registration
<1>5. CalledOnce'
  BY <1>0 DEF CalledOnce, stopVars, registration
<1> QED
  BY <1>1, <1>2, <1>3, <1>4, <1>5 DEF CallbackInv

\* Every step keeps what the calls in progress rely on.
LEMMA StopStep ==
    ASSUME CallbackInv, [StopNext]_stopVars
    PROVE  CallbackInv'
<1>1. ASSUME NEW t \in Threads, NEW c,
             RequestStop(t, c) \/ RetireSource(t, c) \/ Reset(t, c) \/ Register(t, c)
      PROVE  CallbackInv'
  BY <1>1, RequestStopKeeps, RetireSourceKeeps, ResetKeeps, RegisterKeeps
<1>2. ASSUME NEW t \in Threads,
             \/ Invoke(t) \/ RunReturns(t) \/ Unlink(t) \/ Wake(t) \/ Clear(t)
             \/ Check(t) \/ Claim(t) \/ Link(t) \/ Undo(t) \/ Settle(t) \/ RunHereReturns(t)
      PROVE  CallbackInv'
  BY <1>2, InvokeKeeps, RunReturnsKeeps, UnlinkKeeps, WakeKeeps, ClearKeeps, CheckKeeps, ClaimKeeps,
     LinkKeeps, UndoKeeps, SettleKeeps, RunHereReturnsKeeps
<1> QED
  BY <1>1, <1>2, StopStutter DEF StopNext

\* The callback protocol of stop_token.cpp, for any threads, states and
\* registrations and whatever calls their callbacks make: request_stop() only
\* invokes registrations that are constructed and linked with its state, each
\* registration is registered and reset by one call at a time, and no callback
\* runs more often than it was registered.
THEOREM StopTokenInvariant == StopSpec => []CallbackInv
<1>1. StopInit => CallbackInv
  BY StopStart
<1>2. CallbackInv /\ [StopNext]_stopVars => CallbackInv'
  BY StopStep
<1> QED
  BY <1>1, <1>2, PTL DEF StopSpec

\* A registration whose reset waits for its register() is neither called nor linked.
LEMMA PendingNotCalled ==
    ASSUME CallbackInv, [StopNext]_stopVars, NEW r \in Registrations, phase[r] = "reset_pending"
    PROVE  calls'[r] = calls[r] /\ r \notin Elems(list'[StateOf[r]])
<1>0. StateTypes /\ Lists /\ StateOf[r] \in States /\ Fresh
  BY InvParts, TypeParts, StopAssumption
<1>1. r \notin Elems(list[StateOf[r]])
  BY <1>0 DEF Lists, Alive
<1>2. ASSUME UNCHANGED <<list, calls>> PROVE calls'[r] = calls[r] /\ r \notin Elems(list'[StateOf[r]])
  BY <1>1, <1>2
<1>3. ASSUME NEW s \in States, PopNext(s) PROVE r \notin Elems(list'[StateOf[r]])
  <2>1. CASE list[s] = << >>
    BY <1>1, <1>3, <2>1 DEF PopNext
  <2>2. CASE list[s] # << >>
    <3>1. list[s] \in Seq(Registrations)
      BY <1>0 DEF StateTypes
    <3>2. Elems(Tail(list[s])) \subseteq Elems(list[s])
      BY <2>2, <3>1, ChainTail
    <3>3. list' = [list EXCEPT ![s] = Tail(list[s])] /\ list \in [States -> Seq(Registrations)]
      BY <1>0, <1>3, <2>2 DEF PopNext, StateTypes
    <3>4. list'[StateOf[r]] = IF StateOf[r] = s THEN Tail(list[s]) ELSE list[StateOf[r]]
      BY <1>0, <3>3
    <3> QED
      BY <1>1, <3>2, <3>4
  <2> QED
    BY <2>1, <2>2
<1>4. ASSUME NEW t \in Threads, NEW x \in Registrations, x # r, RunHere(t, x)
      PROVE  calls'[r] = calls[r]
  BY <1>0, <1>4 DEF RunHere, StateTypes
<1>5. ASSUME NEW t \in Threads, NEW c, RequestStop(t, c)
      PROVE  calls'[r] = calls[r] /\ r \notin Elems(list'[StateOf[r]])
  <2>1. PICK s \in States : s = c.arg
    BY <1>5, CallIs DEF RequestStop
  <2>2. CASE requested[s]
    BY <1>1, <1>5, <2>1, <2>2 DEF RequestStop, state
  <2>3. CASE ~requested[s]
    <3>1. PopNext(s) /\ UNCHANGED calls
      BY <1>5, <2>1, <2>3 DEF RequestStop
    <3> QED
      BY <1>3, <3>1
  <2> QED
    BY <2>2, <2>3
<1>6. ASSUME NEW t \in Threads, Invoke(t)
      PROVE  calls'[r] = calls[r] /\ r \notin Elems(list'[StateOf[r]])
  <2>1. FrameOK(t, Top(t)) /\ Typed(Top(t)) /\ Top(t).op = "request" /\ Top(t).at = "invoke"
    BY <1>6, TopFrame DEF Invoke, At
  <2>2. PICK x : x = running[Top(t).arg] /\ x # r
    <3>1. Alive(running[Top(t).arg], Top(t).arg)
      BY <2>1 DEF FrameOK
    <3>2. running[Top(t).arg] # r
      BY <3>1 DEF Alive
    <3> QED
      BY <3>2
  <2>3. UNCHANGED list /\ (calls' = [calls EXCEPT ![x] = calls[x] + 1] \/ UNCHANGED calls)
    BY <1>6, <2>2 DEF Invoke, state
  <2>4. calls'[r] = calls[r]
    BY <1>0, <2>2, <2>3 DEF StateTypes
  <2> QED
    BY <1>1, <2>3, <2>4
<1>7. ASSUME NEW t \in Threads, RunReturns(t)
      PROVE  calls'[r] = calls[r] /\ r \notin Elems(list'[StateOf[r]])
  <2>1. Typed(Top(t)) /\ Top(t).op = "request"
    BY <1>7, TopFrame DEF RunReturns
  <2>2. Top(t).arg \in States /\ PopNext(Top(t).arg) /\ UNCHANGED calls
    BY <1>7, <2>1 DEF RunReturns, Typed
  <2> QED
    BY <1>3, <2>2
<1>8. ASSUME NEW t \in Threads, Unlink(t)
      PROVE  calls'[r] = calls[r] /\ r \notin Elems(list'[StateOf[r]])
  <2>1. Typed(Top(t)) /\ Top(t).op = "reset"
    BY <1>8, TopFrame DEF Unlink, At
  <2>2. PICK x \in Registrations : x = Top(t).arg /\ StateOf[x] \in States
    BY <2>1, StopAssumption DEF Typed
  <2>3. list' = [list EXCEPT ![StateOf[x]] = Without(list[StateOf[x]], x)] /\ UNCHANGED calls
    BY <1>8, <2>2 DEF Unlink
  <2>4. list[StateOf[x]] \in Seq(Registrations) /\ Distinct(list[StateOf[x]])
    BY <1>0, <2>2 DEF StateTypes, Lists
  <2>5. Elems(Without(list[StateOf[x]], x)) = Elems(list[StateOf[x]]) \ {x}
    BY <2>4, ChainUnlink
  <2>6. list'[StateOf[r]] = IF StateOf[r] = StateOf[x] THEN Without(list[StateOf[x]], x) ELSE list[StateOf[r]]
    BY <1>0, <2>2, <2>3 DEF StateTypes
  <2> QED
    BY <1>1, <2>3, <2>5, <2>6
<1>9. ASSUME NEW t \in Threads, Check(t)
      PROVE  calls'[r] = calls[r] /\ r \notin Elems(list'[StateOf[r]])
  <2>1. PICK x \in Registrations : x = Top(t).arg /\ x # r
    BY <1>0, <1>9, TopFrame DEF Check, At, Typed, Fresh
  <2>2. UNCHANGED list /\ (RunHere(t, x) \/ UNCHANGED calls)
    BY <1>9, <2>1 DEF Check, state
  <2> QED
    BY <1>1, <1>4, <2>1, <2>2
<1>10. ASSUME NEW t \in Threads, Link(t)
       PROVE  calls'[r] = calls[r] /\ r \notin Elems(list'[StateOf[r]])
  <2>1. PICK x \in Registrations : x = Top(t).arg /\ StateOf[x] \in States
    BY <1>10, TopFrame, StopAssumption DEF Link, At, Typed
  <2>2. CASE Linkable(x)
    <3>1. x # r
      BY <2>2 DEF Linkable
    <3>2. list' = [list EXCEPT ![StateOf[x]] = <<x>> \o list[StateOf[x]]] /\ UNCHANGED calls
      BY <1>10, <2>1, <2>2 DEF Link
    <3>3. list[StateOf[x]] \in Seq(Registrations)
      BY <1>0, <2>1 DEF StateTypes
    <3>4. Elems(<<x>> \o list[StateOf[x]]) = Elems(list[StateOf[x]]) \cup {x}
      BY <3>3, ChainPrepend
    <3>5. list'[StateOf[r]] = IF StateOf[r] = StateOf[x] THEN <<x>> \o list[StateOf[x]] ELSE list[StateOf[r]]
      BY <1>0, <2>1, <3>2 DEF StateTypes
    <3> QED
      BY <1>1, <3>1, <3>2, <3>4, <3>5
  <2>3. CASE ~Linkable(x)
    BY <1>1, <1>10, <2>1, <2>3 DEF Link
  <2> QED
    BY <2>2, <2>3
<1>11. ASSUME NEW t \in Threads, Settle(t)
       PROVE  calls'[r] = calls[r] /\ r \notin Elems(list'[StateOf[r]])
  <2>1. PICK x \in Registrations : x = Top(t).arg
    BY <1>11, TopFrame DEF Settle, At, Typed
  <2>2. UNCHANGED list /\ (UNCHANGED calls \/ (RunHere(t, x) /\ x # r))
    BY <1>11, <2>1 DEF Settle, state
  <2> QED
    BY <1>1, <1>4, <2>1, <2>2
<1>12. ASSUME NEW t \in Threads, Wake(t) \/ Clear(t) \/ Claim(t) \/ Undo(t) \/ RunHereReturns(t)
       PROVE  UNCHANGED <<list, calls>>
  BY <1>12 DEF Wake, Clear, Claim, Undo, RunHereReturns, state
<1>13. ASSUME NEW t \in Threads, NEW c, RetireSource(t, c) \/ Reset(t, c) \/ Register(t, c)
       PROVE  UNCHANGED <<list, calls>>
  BY <1>13 DEF RetireSource, Reset, Register, state
<1>14. UNCHANGED stopVars => UNCHANGED <<list, calls>>
  BY DEF stopVars, state
<1> QED
  BY <1>2, <1>5, <1>6, <1>7, <1>8, <1>9, <1>10, <1>11, <1>12, <1>13, <1>14 DEF StopNext

\* stop_registration::reset() is final, for any threads and registrations: a
\* reset that retires a registration returns only when no other thread runs its
\* callback, and one that meets a registration in progress keeps the callback
\* from being linked or run for it.
THEOREM ResetReturnsFinal == StopSpec => ResetIsFinal
<1> DEFINE A == /\ \A t \in Threads : At(t, "reset", "clear") /\ stack'[t] # stack[t] =>
                     \A u \in Threads \ {t} : \A i \in 1..Len(stack[u]) :
                         stack[u][i].op = "request" => running[stack[u][i].arg] # Top(t).arg
                /\ \A r \in Registrations : phase[r] = "reset_pending" =>
                     calls'[r] = calls[r] /\ r \notin Elems(list'[StateOf[r]])
<1>1. CallbackInv /\ [StopNext]_stopVars => A
  <2> SUFFICES ASSUME CallbackInv, [StopNext]_stopVars PROVE A
    OBVIOUS
  <2>1. ASSUME NEW t \in Threads, At(t, "reset", "clear"), NEW u \in Threads \ {t},
               NEW i \in 1..Len(stack[u]), stack[u][i].op = "request"
        PROVE  running[stack[u][i].arg] # Top(t).arg
    BY <2>1, ClearedIsNotRun
  <2>2. \A r \in Registrations : phase[r] = "reset_pending" =>
            calls'[r] = calls[r] /\ r \notin Elems(list'[StateOf[r]])
    BY PendingNotCalled
  <2> QED
    BY <2>1, <2>2
<1>2. [][A]_stopVars => ResetIsFinal
  BY DEF ResetIsFinal
<1> HIDE DEF A
<1> QED
  BY <1>1, <1>2, StopTokenInvariant, PTL DEF StopSpec
===============================================================================
