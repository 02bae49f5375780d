---------------------------- MODULE ChannelProofs ----------------------------
(* ChannelInv is an inductive invariant of Channel and values arrive in     *)
(* publication order, for any number of senders, receivers and values and   *)
(* any capacity.                                                            *)
EXTENDS Channel, ChainLemmas

USE ChannelAssumption

(* The invariant of the waits, by receiver: what holds of one receive, of   *)
(* the attached one, and between receives.                                  *)

\* ReceivesAgree, ResumedOnce and CancelledByOwnStop at r, but for busy.
ReceiveAt(r) ==
    /\ rpc[r] = "out" => phase[r] = "pending" /\ mygen[r] = 0
    /\ rpc[r] \in {"out", "unwind"} => result[r] = None
    /\ rpc[r] \notin Suspended \cup {"suspend"} => waiter # r
    /\ rpc[r] = "suspend" /\ waiter # r => phase[r] = "early" /\ result[r] # None
    /\ rpc[r] \in Suspended /\ waiter # r => r \in posted
    /\ rpc[r] = "register" => mygen[r] # 0
    /\ r \in linked \cup calling => mygen[r] # 0 /\ rpc[r] \notin {"out", "suspend", "register"}
    /\ r \in calling => r \in stop
    /\ r \in posted => rpc[r] \in Suspended /\ phase[r] = "ready" /\ result[r] # None /\ waiter # r
    /\ rpc[r] = "resume" => r \notin posted /\ result[r] # None /\ waiter # r
    /\ timer[r] => rpc[r] \in {"register", "waiting"} /\ waiter = r
    /\ result[r] = "cancelled" => r \in stop /\ mygen[r] # 0
    /\ mygen[r] <= next_generation

OneBusy == \A r \in Receivers : rpc[r] \in Inside <=> busy = r

\* WaiterUnserved, StopDetaches and the generation of the attached wait.
Attached ==
    /\ waiter = None => generation = 0
    /\ waiter # None =>
        /\ lifecycle = "open" /\ buffer = << >> /\ result[waiter] = None
        /\ \/ rpc[waiter] = "suspend" /\ phase[waiter] = "pending"
           \/ rpc[waiter] \in Suspended /\ phase[waiter] = "suspended"
        /\ generation = mygen[waiter]
        /\ mygen[waiter] # 0 =>
              \/ rpc[waiter] \in {"suspend", "register"}
              \/ waiter \in calling
              \/ waiter \in linked /\ waiter \notin stop

Generations == \A q, r \in Receivers : mygen[q] # 0 /\ q # r => mygen[q] # mygen[r]

Waits ==
    /\ \A r \in Receivers : ReceiveAt(r)
    /\ OneBusy /\ Attached /\ Generations /\ NothingAfterRetire

Core == TypeOK /\ SlotsConserved /\ Waits

\* The invariant by receiver is at least as strong.
LEMMA CoreIs == Core => ChannelInv
<1> SUFFICES ASSUME Core PROVE ChannelInv
  OBVIOUS
<1>1. TypeOK /\ SlotsConserved /\ Waits
  BY DEF Core
<1>2. waiter # None => waiter \in Receivers
  BY <1>1 DEF TypeOK
<1>3. WaiterUnserved
  BY <1>1 DEF Waits, Attached, WaiterUnserved, Suspended
<1>4. ResumedOnce
  BY <1>1 DEF Waits, ReceiveAt, ResumedOnce, Suspended
<1>5. StopDetaches
  BY <1>1 DEF Waits, Attached, StopDetaches
<1>6. CancelledByOwnStop /\ NothingAfterRetire
  BY <1>1 DEF Waits, ReceiveAt, CancelledByOwnStop
<1>7. ReceivesAgree
  BY <1>1 DEF Waits, ReceiveAt, OneBusy, ReceivesAgree
<1>8. GenerationsAgree
  BY <1>1 DEF Waits, ReceiveAt, Attached, Generations, GenerationsAgree
<1> QED
  BY <1>1, <1>3, <1>4, <1>5, <1>6, <1>7, <1>8 DEF ChannelInv

\* Nothing is sent, received or closed at the start.
LEMMA CoreInit == Init => Core
<1> SUFFICES ASSUME Init PROVE Core
  OBVIOUS
<1>1. TypeOK
  <2>1. /\ receiver_closed \in BOOLEAN /\ accepting \in BOOLEAN /\ timers_stopping \in BOOLEAN
        /\ timed \in [Receivers -> BOOLEAN] /\ timer \in [Receivers -> BOOLEAN] /\ retiring \in BOOLEAN
    BY Zenon DEF Init
  <2>2. /\ free \subseteq Slots /\ buffer \in Seq(Slots) /\ reserved \in 0..Capacity
        /\ Len(buffer) + reserved <= Capacity /\ value \in [Slots -> Values \cup {None}]
    BY DEF Init
  <2>3. /\ generation \in 0..MaxWaits /\ next_generation \in 0..MaxWaits
        /\ mygen \in [Receivers -> 0..MaxWaits]
    BY DEF Init
  <2>4. /\ spc \in [Senders -> {"out", "fill", "reject"}] /\ snode \in [Senders -> Slots \cup {None}]
        /\ rpc \in [Receivers -> {"out"}] /\ phase \in [Receivers -> {"pending"}]
        /\ result \in [Receivers -> {None}]
    BY DEF Init
  <2>5. published \in Seq(Values) /\ delivered \in Seq(Values)
    BY DEF Init
  <2> QED
    BY <2>1, <2>2, <2>3, <2>4, <2>5 DEF Init, TypeOK
<1>2. SlotsConserved
  <2>1. Filling = {}
    BY DEF Init, Filling
  <2>2. reserved = Cardinality(Filling)
    BY <2>1, FS_EmptySet DEF Init
  <2>3. OneOwner
    BY ChainEmpty DEF Init, OneOwner
  <2> QED
    BY <2>2, <2>3, ChainEmpty DEF Init, SlotsConserved, NoLeak, SlotValues
<1>3. Waits
  <2>1. ASSUME NEW r \in Receivers PROVE ReceiveAt(r)
    BY DEF Init, ReceiveAt, Suspended, Statuses
  <2>2. OneBusy
    BY DEF Init, OneBusy, Inside
  <2>3. Attached /\ Generations /\ NothingAfterRetire
    BY DEF Init, Attached, Generations, NothingAfterRetire
  <2> QED
    BY <2>1, <2>2, <2>3 DEF Waits
<1> QED
  BY <1>1, <1>2, <1>3 DEF Core
-----------------------------------------------------------------------------
(* The slots.                                                               *)

\* The variables that say who owns a slot.
SlotsKept == UNCHANGED <<free, buffer, reserved, value, spc, snode, result, doomed>>

\* Slots that nobody moves stay conserved.
LEMMA KeptSlots ==
    ASSUME Core, SlotsKept
    PROVE  SlotsConserved'
BY DEF Core, SlotsConserved, SlotsKept, OneOwner, NoLeak, SlotValues, Filling

\* A wait that completes with a status takes no slot.
LEMMA StatusSlots ==
    ASSUME Core, NEW r \in Receivers, NEW o \in Statuses, result[r] = None,
           result' = [result EXCEPT ![r] = o],
           UNCHANGED <<free, buffer, reserved, value, spc, snode, doomed>>
    PROVE  SlotsConserved'
<1>1. TypeOK /\ SlotsConserved
  BY DEF Core
<1>2. result'[r] = o /\ \A q \in Receivers \ {r} : result'[q] = result[q]
  BY <1>1 DEF TypeOK
<1>3. o \notin Slots /\ o # None
  OBVIOUS
<1>4. /\ Elems(buffer) \subseteq Slots /\ free \subseteq Slots /\ doomed \in Slots \cup {None}
      /\ \A s \in Senders : snode[s] \in Slots \cup {None}
  BY <1>1 DEF TypeOK, Elems
<1>5. OneOwner'
  BY <1>1, <1>2, <1>3, <1>4 DEF SlotsConserved, OneOwner
<1>6. NoLeak'
  BY <1>1, <1>2 DEF SlotsConserved, NoLeak
<1> QED
  BY <1>1, <1>5, <1>6 DEF SlotsConserved, SlotValues, Filling

\* The sends between their critical sections are finitely many.
LEMMA FillingFinite ==
    ASSUME Core
    PROVE  /\ IsFiniteSet(Filling) /\ Cardinality(Filling) \in Nat
           /\ \A s \in Filling : Cardinality(Filling) >= 1
<1>1. IsFiniteSet(Filling)
  BY FS_Subset DEF Filling
<1>2. Cardinality(Filling) \in Nat
  BY <1>1, FS_CardinalityType
<1>3. Filling # {} => Cardinality(Filling) # 0
  BY <1>1, FS_EmptySet
<1> QED
  BY <1>1, <1>2, <1>3

\* A send takes a free slot.
LEMMA ReserveSlots ==
    ASSUME Core, NEW s \in Senders, Reserve(s)
    PROVE  SlotsConserved' /\ reserved' \in 0..Capacity /\ Len(buffer') + reserved' <= Capacity
<1>1. TypeOK /\ SlotsConserved
  BY DEF Core
<1>2. PICK n \in free : free' = free \ {n} /\ snode' = [snode EXCEPT ![s] = n]
  BY DEF Reserve
<1>3. /\ spc[s] = "out" /\ snode[s] = None /\ spc' = [spc EXCEPT ![s] = "fill"]
      /\ reserved' = reserved + 1 /\ Len(buffer) + reserved # Capacity
      /\ UNCHANGED <<buffer, value, result, doomed>> /\ n \in Slots
  BY <1>1, <1>2 DEF Reserve, SGoto, Reservable, SlotsConserved, awaiter, TypeOK
<1>4. /\ snode'[s] = n /\ spc'[s] = "fill"
      /\ \A u \in Senders \ {s} : snode'[u] = snode[u] /\ spc'[u] = spc[u]
  BY <1>1, <1>2, <1>3 DEF TypeOK
<1>5. OneOwner'
  <2>1. n \notin Elems(buffer) /\ n # doomed /\ n # None
    BY <1>1, <1>2, <1>3 DEF SlotsConserved, OneOwner
  <2>2. (\A u \in Senders : snode[u] # n) /\ (\A r \in Receivers : result[r] # n)
    BY <1>1, <1>2, <1>3 DEF SlotsConserved, OneOwner
  <2> QED
    BY <1>1, <1>2, <1>3, <1>4, <2>1, <2>2 DEF SlotsConserved, OneOwner
<1>6. NoLeak'
  BY <1>1, <1>2, <1>3, <1>4 DEF SlotsConserved, NoLeak
<1>7. SlotValues'
  BY <1>1, <1>2, <1>3, <1>4 DEF SlotsConserved, SlotValues
<1>8. reserved' = Cardinality(Filling')
  <2>1. Filling' = Filling \cup {s} /\ s \notin Filling
    BY <1>3, <1>4 DEF Filling
  <2>2. Cardinality(Filling \cup {s}) = Cardinality(Filling) + 1
    BY <2>1, FillingFinite, FS_AddElement
  <2> QED
    BY <1>1, <1>3, <2>1, <2>2 DEF SlotsConserved
<1>9. \A u \in Senders : spc'[u] = "out" <=> snode'[u] = None
  BY <1>1, <1>3, <1>4 DEF SlotsConserved
<1>10. reserved' \in 0..Capacity /\ Len(buffer') + reserved' <= Capacity
  BY <1>1, <1>3 DEF TypeOK
<1> QED
  BY <1>5, <1>6, <1>7, <1>8, <1>9, <1>10 DEF SlotsConserved

\* A slot given back by its send, whose value is gone.
LEMMA ReturnSlots ==
    ASSUME Core, NEW s \in Senders, FillThrows(s) \/ Reject(s)
    PROVE  SlotsConserved' /\ reserved' \in 0..Capacity /\ Len(buffer') + reserved' <= Capacity
<1> DEFINE n == snode[s]
<1>1. TypeOK /\ SlotsConserved
  BY DEF Core
<1>2. /\ spc[s] \in {"fill", "reject"} /\ spc' = [spc EXCEPT ![s] = "out"]
      /\ free' = free \cup {n} /\ snode' = [snode EXCEPT ![s] = None]
      /\ UNCHANGED <<buffer, result, doomed>> /\ n \in Slots
      /\ value' = value \/ value' = [value EXCEPT ![n] = None]
  BY <1>1 DEF FillThrows, Reject, SGoto, SlotsConserved, awaiter, TypeOK
<1>3. /\ snode'[s] = None /\ spc'[s] = "out"
      /\ \A u \in Senders \ {s} : snode'[u] = snode[u] /\ spc'[u] = spc[u]
  BY <1>1, <1>2 DEF TypeOK
<1>4. value'[n] = None /\ \A m \in Slots \ {n} : value'[m] = value[m]
  <2>1. CASE FillThrows(s)
    BY <1>1, <2>1 DEF FillThrows, SlotsConserved, SlotValues
  <2>2. CASE Reject(s)
    BY <1>1, <1>2, <2>2 DEF Reject, TypeOK
  <2> QED
    BY <2>1, <2>2
<1>5. /\ n \notin free \cup Elems(buffer) \cup {doomed} /\ n # None
      /\ \A u \in Senders \ {s} : snode[u] # n
      /\ \A r \in Receivers : result[r] # n
  BY <1>1, <1>2 DEF SlotsConserved, OneOwner
<1>6. Elems(buffer) \subseteq Slots /\ free \subseteq Slots /\ \A u \in Senders : snode[u] \in Slots \cup {None}
  BY <1>1 DEF TypeOK, Elems
<1> HIDE DEF n
<1>7. OneOwner'
  BY <1>1, <1>2, <1>3, <1>5 DEF SlotsConserved, OneOwner
<1>8. NoLeak'
  BY <1>1, <1>2, <1>3 DEF SlotsConserved, NoLeak, n
<1>9. SlotValues'
  <2>1. \A m \in Elems(buffer) : value'[m] # None
    BY <1>1, <1>4, <1>5, <1>6 DEF SlotsConserved, SlotValues
  <2>2. ASSUME NEW u \in Senders, spc'[u] = "fill" PROVE value'[snode'[u]] = None
    <3>1. u # s /\ spc[u] = "fill" /\ snode'[u] = snode[u]
      BY <1>3, <2>2
    <3>2. snode[u] \in Slots \ {n} /\ value[snode[u]] = None
      BY <1>1, <1>5, <1>6, <3>1 DEF SlotsConserved, SlotValues
    <3> QED
      BY <1>4, <3>1, <3>2
  <2> QED
    BY <1>1, <1>2, <1>4, <1>6, <2>1, <2>2 DEF SlotsConserved, SlotValues
<1>10. reserved' = Cardinality(Filling') /\ reserved' \in 0..Capacity /\ Len(buffer') + reserved' <= Capacity
  <2>1. CASE FillThrows(s)
    <3>1. Filling' = Filling \ {s} /\ s \in Filling /\ reserved' = reserved - 1
      BY <1>3, <2>1 DEF Filling, FillThrows
    <3>2. Cardinality(Filling \ {s}) = Cardinality(Filling) - 1
      BY <3>1, FillingFinite, FS_RemoveElement
    <3>3. reserved >= 1
      BY <1>1, <3>1, FillingFinite DEF SlotsConserved
    <3> QED
      BY <1>1, <1>2, <3>1, <3>2, <3>3 DEF SlotsConserved, TypeOK
  <2>2. CASE Reject(s)
    <3>1. Filling' = Filling /\ reserved' = reserved
      BY <1>3, <2>2 DEF Filling, Reject
    <3> QED
      BY <1>1, <1>2, <3>1 DEF SlotsConserved, TypeOK
  <2> QED
    BY <2>1, <2>2
<1>11. \A u \in Senders : spc'[u] = "out" <=> snode'[u] = None
  BY <1>1, <1>2, <1>3 DEF SlotsConserved
<1> QED
  BY <1>7, <1>8, <1>9, <1>10, <1>11 DEF SlotsConserved

\* A value published becomes the waiter's, the buffer's, or the sender's again.
LEMMA PublishSlots ==
    ASSUME Core, NEW s \in Senders, Publish(s)
    PROVE  SlotsConserved' /\ reserved' \in 0..Capacity /\ Len(buffer') + reserved' <= Capacity
<1> DEFINE n == snode[s]
<1>1. TypeOK /\ SlotsConserved /\ Attached
  BY DEF Core, Waits
<1>2. PICK v \in Values :
        /\ value' = [value EXCEPT ![n] = v]
        /\ \/ /\ SGoto(s, "reject") /\ UNCHANGED <<result, buffer, snode>>
           \/ /\ SGoto(s, "out") /\ snode' = [snode EXCEPT ![s] = None]
              /\ \/ waiter # None /\ Complete(waiter, n) /\ UNCHANGED buffer
                 \/ waiter = None /\ buffer' = Append(buffer, n) /\ UNCHANGED result
  BY DEF Publish
<1>3. /\ spc[s] = "fill" /\ n \in Slots /\ n # None /\ reserved' = reserved - 1
      /\ UNCHANGED <<free, doomed>>
  BY <1>1 DEF Publish, SlotsConserved, TypeOK
<1>4. /\ n \notin free \cup Elems(buffer) \cup {doomed}
      /\ \A u \in Senders \ {s} : snode[u] # n
      /\ \A r \in Receivers : result[r] # n
  BY <1>1, <1>3 DEF SlotsConserved, OneOwner
<1>5. /\ Elems(buffer) \subseteq Slots /\ free \subseteq Slots /\ buffer \in Seq(Slots)
      /\ \A u \in Senders : snode[u] \in Slots \cup {None}
      /\ waiter # None => waiter \in Receivers
  BY <1>1 DEF TypeOK, Elems
<1> HIDE DEF n
<1>6. value'[n] = v /\ v # None /\ \A m \in Slots \ {n} : value'[m] = value[m]
  BY <1>1, <1>2, <1>3 DEF TypeOK
<1>7. spc'[s] # "fill" /\ \A u \in Senders \ {s} : spc'[u] = spc[u]
  BY <1>1, <1>2 DEF TypeOK, SGoto
<1>8. reserved' = Cardinality(Filling') /\ reserved' \in 0..Capacity /\ reserved' = reserved - 1
  <2>1. Filling' = Filling \ {s} /\ s \in Filling
    BY <1>3, <1>7 DEF Filling
  <2>2. Cardinality(Filling \ {s}) = Cardinality(Filling) - 1
    BY <2>1, FillingFinite, FS_RemoveElement
  <2>3. reserved >= 1
    BY <1>1, <2>1, FillingFinite DEF SlotsConserved
  <2> QED
    BY <1>1, <1>3, <2>1, <2>2, <2>3 DEF SlotsConserved, TypeOK
<1>9. ASSUME NEW u \in Senders, spc'[u] = "fill", u # s => snode'[u] = snode[u]
      PROVE  value'[snode'[u]] = None
  <2>1. u # s /\ spc[u] = "fill" /\ snode'[u] = snode[u]
    BY <1>7, <1>9
  <2>2. snode[u] \in Slots \ {n} /\ value[snode[u]] = None
    BY <1>1, <1>4, <1>5, <2>1 DEF SlotsConserved, SlotValues
  <2> QED
    BY <1>6, <2>1, <2>2
<1>10. CASE SGoto(s, "reject") /\ UNCHANGED <<result, buffer, snode>>
  <2>1. OneOwner' /\ NoLeak'
    BY <1>1, <1>3, <1>10 DEF SlotsConserved, OneOwner, NoLeak
  <2>2. SlotValues'
    <3>1. \A m \in free : value'[m] = None
      BY <1>1, <1>4, <1>5, <1>6 DEF SlotsConserved, SlotValues
    <3>2. \A m \in Elems(buffer) : value'[m] # None
      BY <1>1, <1>4, <1>5, <1>6 DEF SlotsConserved, SlotValues
    <3> QED
      BY <1>3, <1>9, <1>10, <3>1, <3>2 DEF SlotValues
  <2>3. \A u \in Senders : spc'[u] = "out" <=> snode'[u] = None
    BY <1>1, <1>3, <1>7, <1>10 DEF SlotsConserved, SGoto, TypeOK, n
  <2> QED
    BY <1>1, <1>8, <1>10, <2>1, <2>2, <2>3 DEF SlotsConserved, TypeOK
<1>11. ASSUME SGoto(s, "out"), snode' = [snode EXCEPT ![s] = None],
              \/ waiter # None /\ Complete(waiter, n) /\ UNCHANGED buffer
              \/ waiter = None /\ buffer' = Append(buffer, n) /\ UNCHANGED result
       PROVE  /\ SlotsConserved' /\ Len(buffer') + reserved' <= Capacity
  <2>1. /\ snode'[s] = None /\ spc'[s] = "out" /\ \A u \in Senders \ {s} : snode'[u] = snode[u]
    BY <1>1, <1>11 DEF TypeOK, SGoto
  <2>2. \A u \in Senders : spc'[u] = "out" <=> snode'[u] = None
    BY <1>1, <1>7, <2>1 DEF SlotsConserved
  <2>3. /\ \A m \in free : value'[m] = None
        /\ \A u \in Senders : spc'[u] = "fill" => value'[snode'[u]] = None
    <3>1. \A m \in free : value'[m] = None
      BY <1>1, <1>4, <1>5, <1>6 DEF SlotsConserved, SlotValues
    <3> QED
      BY <1>9, <2>1, <3>1
  <2>4. \A m \in Elems(buffer) : value'[m] # None
    BY <1>1, <1>4, <1>5, <1>6 DEF SlotsConserved, SlotValues
  <2>5. CASE waiter # None /\ Complete(waiter, n) /\ UNCHANGED buffer
    <3>1. /\ waiter \in Receivers /\ result[waiter] = None /\ result'[waiter] = n
          /\ \A q \in Receivers \ {waiter} : result'[q] = result[q]
      BY <1>1, <1>5, <2>5 DEF Attached, Complete, TypeOK
    <3>2. OneOwner'
      BY <1>1, <1>3, <1>4, <2>1, <2>5, <3>1 DEF SlotsConserved, OneOwner
    <3>3. NoLeak'
      BY <1>1, <1>3, <2>1, <2>5, <3>1 DEF SlotsConserved, NoLeak, n
    <3>4. SlotValues'
      BY <1>3, <2>3, <2>4, <2>5 DEF SlotValues
    <3> QED
      BY <1>1, <1>8, <2>2, <2>5, <3>2, <3>3, <3>4 DEF SlotsConserved, TypeOK
  <2>6. CASE waiter = None /\ buffer' = Append(buffer, n) /\ UNCHANGED result
    <3>1. Elems(buffer') = Elems(buffer) \cup {n} /\ Distinct(buffer') /\ Len(buffer') = Len(buffer) + 1
      BY <1>1, <1>3, <1>4, <1>5, <2>6, ChainAppend DEF SlotsConserved, OneOwner
    <3>2. OneOwner'
      BY <1>1, <1>3, <1>4, <2>1, <2>6, <3>1 DEF SlotsConserved, OneOwner
    <3>3. NoLeak'
      BY <1>1, <1>3, <2>1, <2>6, <3>1 DEF SlotsConserved, NoLeak, n
    <3>4. SlotValues'
      BY <1>3, <1>6, <2>3, <2>4, <3>1 DEF SlotValues
    <3>5. Len(buffer') + reserved' <= Capacity
      BY <1>1, <1>5, <1>8, <3>1 DEF TypeOK
    <3> QED
      BY <1>8, <2>2, <3>2, <3>3, <3>4, <3>5 DEF SlotsConserved
  <2> QED
    BY <1>11, <2>5, <2>6
<1> QED
  BY <1>2, <1>8, <1>10, <1>11

\* The oldest buffered slot leaves the buffer, to a receive or to the drain.
LEMMA HeadSlots ==
    ASSUME Core, buffer # << >>, buffer' = Tail(buffer),
           UNCHANGED <<free, reserved, value, spc, snode>>,
           \/ /\ UNCHANGED doomed
              /\ \E r \in Receivers : result[r] = None /\ result' = [result EXCEPT ![r] = Head(buffer)]
           \/ doomed = None /\ doomed' = Head(buffer) /\ UNCHANGED result
    PROVE  SlotsConserved' /\ Len(buffer') + reserved' <= Capacity
<1> DEFINE n == Head(buffer)
<1>1. TypeOK /\ SlotsConserved /\ buffer \in Seq(Slots)
  BY DEF Core, TypeOK
<1>2. /\ n \in Slots /\ n # None /\ Elems(buffer) = Elems(buffer') \cup {n}
      /\ Distinct(buffer') /\ n \notin Elems(buffer') /\ Len(buffer') = Len(buffer) - 1
      /\ Len(buffer) \in Nat
  BY <1>1, ChainTail DEF SlotsConserved, OneOwner
<1>3. /\ n \notin free \cup {doomed} /\ \A u \in Senders : snode[u] # n
      /\ \A r \in Receivers : result[r] # n
  BY <1>1, <1>2 DEF SlotsConserved, OneOwner
<1>4. SlotValues'
  BY <1>1, <1>2 DEF SlotsConserved, SlotValues
<1>5. Filling' = Filling
  BY DEF Filling
<1>6. Len(buffer') + reserved' <= Capacity
  BY <1>1, <1>2 DEF TypeOK
<1>7. ASSUME UNCHANGED doomed, NEW r \in Receivers, result[r] = None, result' = [result EXCEPT ![r] = n]
      PROVE  OneOwner' /\ NoLeak'
  <2> HIDE DEF n
  <2>1. result'[r] = n /\ \A q \in Receivers \ {r} : result'[q] = result[q]
    BY <1>1, <1>7 DEF TypeOK
  <2>2. OneOwner'
    BY <1>1, <1>2, <1>3, <1>7, <2>1 DEF SlotsConserved, OneOwner
  <2>3. NoLeak'
    BY <1>1, <1>2, <1>7, <2>1 DEF SlotsConserved, NoLeak
  <2> QED
    BY <2>2, <2>3
<1>8. ASSUME doomed = None, doomed' = n, UNCHANGED result
      PROVE  OneOwner' /\ NoLeak'
  <2> HIDE DEF n
  <2>1. OneOwner'
    BY <1>1, <1>2, <1>3, <1>8 DEF SlotsConserved, OneOwner
  <2>2. NoLeak'
    BY <1>1, <1>2, <1>8 DEF SlotsConserved, NoLeak
  <2> QED
    BY <2>1, <2>2
<1>9. OneOwner' /\ NoLeak'
  BY <1>7, <1>8
<1> QED
  BY <1>1, <1>4, <1>5, <1>6, <1>9 DEF SlotsConserved

\* A slot emptied by its receive or by the drain is free again.
LEMMA EmptySlots ==
    ASSUME Core, NEW n \in Slots, value' = [value EXCEPT ![n] = None], free' = free \cup {n},
           UNCHANGED <<buffer, reserved, spc, snode>>,
           \/ /\ UNCHANGED doomed
              /\ \E r \in Receivers : result[r] = n /\ result' = [result EXCEPT ![r] = None]
           \/ doomed = n /\ doomed' = None /\ UNCHANGED result
    PROVE  SlotsConserved'
<1>1. TypeOK /\ SlotsConserved /\ n # None
  BY DEF Core
<1>2. n \notin Elems(buffer) /\ \A u \in Senders : snode[u] # n
  BY <1>1 DEF SlotsConserved, OneOwner
<1>3. value'[n] = None /\ \A m \in Slots \ {n} : value'[m] = value[m]
  BY <1>1 DEF TypeOK
<1>4. Elems(buffer) \subseteq Slots /\ free \subseteq Slots /\ \A u \in Senders : snode[u] \in Slots \cup {None}
  BY <1>1 DEF TypeOK, Elems
<1>5. SlotValues'
  <2>1. ASSUME NEW u \in Senders, spc[u] = "fill" PROVE value'[snode[u]] = None
    BY <1>1, <1>2, <1>3, <1>4, <2>1 DEF SlotsConserved, SlotValues
  <2> QED
    BY <1>1, <1>2, <1>3, <1>4, <2>1 DEF SlotsConserved, SlotValues
<1>6. ASSUME UNCHANGED doomed, NEW r \in Receivers, result[r] = n, result' = [result EXCEPT ![r] = None]
      PROVE  OneOwner' /\ NoLeak'
  <2>1. result'[r] = None /\ \A q \in Receivers \ {r} : result'[q] = result[q]
    BY <1>1, <1>6 DEF TypeOK
  <2>2. n # doomed /\ \A q \in Receivers \ {r} : result[q] # n
    BY <1>1, <1>6 DEF SlotsConserved, OneOwner
  <2>3. OneOwner'
    BY <1>1, <1>2, <1>6, <2>1, <2>2 DEF SlotsConserved, OneOwner
  <2>4. NoLeak'
    BY <1>1, <1>6, <2>1 DEF SlotsConserved, NoLeak
  <2> QED
    BY <2>3, <2>4
<1>7. ASSUME doomed = n, doomed' = None, UNCHANGED result
      PROVE  OneOwner' /\ NoLeak'
  <2>1. \A r \in Receivers : result[r] # n
    BY <1>1, <1>7 DEF SlotsConserved, OneOwner
  <2>2. OneOwner'
    BY <1>1, <1>2, <1>4, <1>7, <2>1 DEF SlotsConserved, OneOwner
  <2>3. NoLeak'
    BY <1>1, <1>7 DEF SlotsConserved, NoLeak
  <2> QED
    BY <2>2, <2>3
<1>8. OneOwner' /\ NoLeak'
  BY <1>6, <1>7
<1>9. Filling' = Filling
  BY DEF Filling
<1> QED
  BY <1>1, <1>5, <1>8, <1>9 DEF SlotsConserved
-----------------------------------------------------------------------------
(* The waits.                                                               *)

\* A step of one receive leaves the others alone.
OthersKept(r) ==
    \A q \in Receivers \ {r} :
        /\ rpc'[q] = rpc[q] /\ mygen'[q] = mygen[q] /\ phase'[q] = phase[q]
        /\ result'[q] = result[q] /\ timer'[q] = timer[q]
        /\ q \in posted' <=> q \in posted
        /\ q \in stop' <=> q \in stop
        /\ q \in linked' <=> q \in linked
        /\ q \in calling' <=> q \in calling

\* The invariant is kept for the receives a step leaves alone.
LEMMA Others ==
    ASSUME Core, NEW r \in Receivers, OthersKept(r),
           next_generation' \in Nat, next_generation' >= next_generation,
           waiter' = waiter \/ {waiter, waiter'} \subseteq {r, None}
    PROVE  \A q \in Receivers \ {r} : ReceiveAt(q)'
<1> SUFFICES ASSUME NEW q \in Receivers \ {r} PROVE ReceiveAt(q)'
  OBVIOUS
<1>1. ReceiveAt(q) /\ mygen[q] \in Nat /\ next_generation \in Nat /\ q # None
  BY DEF Core, Waits, TypeOK
<1>2. waiter' = q <=> waiter = q
  BY <1>1
<1>3. /\ rpc'[q] = rpc[q] /\ mygen'[q] = mygen[q] /\ phase'[q] = phase[q]
      /\ result'[q] = result[q] /\ timer'[q] = timer[q]
      /\ q \in posted' <=> q \in posted
      /\ q \in stop' <=> q \in stop
      /\ q \in linked' <=> q \in linked
      /\ q \in calling' <=> q \in calling
  BY DEF OthersKept
<1>4. mygen'[q] <= next_generation'
  BY <1>1, <1>3 DEF ReceiveAt
<1> QED
  BY <1>1, <1>2, <1>3, <1>4 DEF ReceiveAt

\* A step that moves no wait.
WaitsKept ==
    UNCHANGED <<waiter, generation, next_generation, rpc, mygen, phase, result, timer, posted,
                stop, linked, calling, busy>>

\* Waits that nobody touches stay in agreement, while the channel does not
\* change under them.
LEMMA KeptWaits ==
    ASSUME Core, WaitsKept, NothingAfterRetire',
           waiter # None => UNCHANGED <<lifecycle, buffer>>
    PROVE  Waits'
<1>1. ASSUME NEW r \in Receivers PROVE ReceiveAt(r)'
  <2>1. ReceiveAt(r)
    BY DEF Core, Waits
  <2> QED
    BY <2>1 DEF WaitsKept, ReceiveAt
<1>2. OneBusy' /\ Generations'
  BY DEF Core, Waits, WaitsKept, OneBusy, Generations
<1>3. Attached'
  BY DEF Core, Waits, WaitsKept, Attached
<1> QED
  BY <1>1, <1>2, <1>3 DEF Waits

\* The critical section that detaches the waiter hands it its outcome, and its
\* resume, once.
LEMMA CompleteWaits ==
    ASSUME Core, NEW r \in Receivers, waiter = r, NEW o, Complete(r, o), o # None,
           o = "cancelled" => r \in stop /\ mygen[r] # 0,
           \A q \in Receivers \ {r} : rpc'[q] = rpc[q] /\ (q \in calling' <=> q \in calling),
           rpc'[r] = rpc[r] \/ (rpc[r] = "register" /\ rpc'[r] = "waiting"),
           r \in calling' => r \in calling,
           UNCHANGED <<mygen, stop, linked>>, OneBusy', NothingAfterRetire'
    PROVE  Waits'
<1>1. TypeOK /\ ReceiveAt(r) /\ Attached /\ Generations /\ r # None
  BY DEF Core, Waits
<1>2. /\ waiter' = None /\ generation' = 0 /\ next_generation' = next_generation
      /\ result'[r] = o /\ \A q \in Receivers \ {r} : result'[q] = result[q]
  BY <1>1 DEF Complete, Detach, TypeOK
<1>3. next_generation \in Nat
  BY <1>1 DEF TypeOK
<1>4. \/ rpc[r] = "suspend" /\ phase[r] = "pending"
      \/ rpc[r] \in Suspended /\ phase[r] = "suspended"
  BY <1>1 DEF Attached
<1>5. CASE rpc[r] = "suspend" /\ phase[r] = "pending"
  <2>1. /\ phase'[r] = "early" /\ \A q \in Receivers \ {r} : phase'[q] = phase[q]
        /\ UNCHANGED <<timer, posted>>
    BY <1>1, <1>5 DEF Complete, TypeOK
  <2>2. OthersKept(r)
    BY <1>2, <2>1 DEF OthersKept
  <2>3. \A q \in Receivers \ {r} : ReceiveAt(q)'
    BY <1>2, <1>3, <2>2, Others
  <2>4. ReceiveAt(r)'
    BY <1>1, <1>2, <1>5, <2>1 DEF ReceiveAt, Suspended
  <2>5. Attached' /\ Generations'
    BY <1>1, <1>2 DEF Attached, Generations
  <2> QED
    BY <2>3, <2>4, <2>5 DEF Waits
<1>6. CASE rpc[r] \in Suspended /\ phase[r] = "suspended"
  <2>1. /\ phase'[r] = "ready" /\ \A q \in Receivers \ {r} : phase'[q] = phase[q]
        /\ timer'[r] = FALSE /\ \A q \in Receivers \ {r} : timer'[q] = timer[q]
        /\ posted' = posted \cup {r}
    BY <1>1, <1>6 DEF Complete, TypeOK
  <2>2. OthersKept(r)
    BY <1>2, <2>1 DEF OthersKept
  <2>3. \A q \in Receivers \ {r} : ReceiveAt(q)'
    BY <1>2, <1>3, <2>2, Others
  <2>4. rpc'[r] \in Suspended /\ (rpc'[r] = "register" => rpc[r] = "register")
    BY <1>6 DEF Suspended
  <2>5. ReceiveAt(r)'
    BY <1>1, <1>2, <1>6, <2>1, <2>4 DEF ReceiveAt, Suspended
  <2>6. Attached' /\ Generations'
    BY <1>1, <1>2 DEF Attached, Generations
  <2> QED
    BY <2>3, <2>5, <2>6 DEF Waits
<1> QED
  BY <1>4, <1>5, <1>6

\* Closing and stopping complete whoever is attached.
LEMMA StatusWaits ==
    ASSUME Core, NEW o \in Statuses \ {"cancelled"}, CompleteAttached(o),
           UNCHANGED <<rpc, busy, mygen, stops>>, NothingAfterRetire'
    PROVE  Waits'
<1>1. TypeOK /\ Attached /\ OneBusy
  BY DEF Core, Waits
<1>2. OneBusy' /\ o # None /\ o # "cancelled" /\ UNCHANGED <<stop, linked, calling>>
  BY <1>1 DEF OneBusy, stops
<1>3. CASE waiter = None
  <2>1. WaitsKept
    BY <1>1, <1>2, <1>3 DEF CompleteAttached, Detach, WaitsKept, Attached
  <2> QED
    BY <1>3, <2>1, KeptWaits
<1>4. CASE waiter # None
  <2>1. waiter \in Receivers /\ Complete(waiter, o)
    BY <1>1, <1>4 DEF TypeOK, CompleteAttached
  <2> QED
    BY <1>2, <2>1, CompleteWaits
<1> QED
  BY <1>3, <1>4

\* A cancellation ends the wait it was registered for, or nothing.
LEMMA CancelWaits ==
    ASSUME Core, NEW r \in Receivers, mygen[r] # 0, r \in stop, Cancel(mygen[r]),
           \A q \in Receivers \ {r} : rpc'[q] = rpc[q] /\ (q \in calling' <=> q \in calling),
           rpc'[r] = rpc[r] \/ (rpc[r] = "register" /\ rpc'[r] = "waiting"),
           r \in calling' => r \in calling,
           UNCHANGED <<mygen, stop, linked, lifecycle, buffer>>, OneBusy', NothingAfterRetire'
    PROVE  Waits'
<1>1. TypeOK /\ ReceiveAt(r) /\ Attached /\ Generations
  BY DEF Core, Waits
<1>2. CASE waiter # None /\ generation = mygen[r]
  <2>1. waiter \in Receivers /\ mygen[waiter] = mygen[r]
    BY <1>1, <1>2 DEF Attached, TypeOK
  <2>2. waiter = r
    BY <1>1, <2>1 DEF Generations
  <2>3. Complete(r, "cancelled")
    BY <1>2, <2>2 DEF Cancel, CompleteAttached
  <2>4. "cancelled" # None
    BY DEF Statuses
  <2> QED
    BY <2>2, <2>3, <2>4, CompleteWaits
<1>3. CASE ~(waiter # None /\ generation = mygen[r])
  <2>1. UNCHANGED <<waiter, generation, next_generation, result, phase, timer, posted>>
    BY <1>3 DEF Cancel, wait
  <2>2. waiter # r /\ r # None
    BY <1>1, <1>3 DEF Attached
  <2>3. OthersKept(r) /\ next_generation \in Nat
    BY <1>1, <2>1 DEF OthersKept, TypeOK
  <2>4. \A q \in Receivers \ {r} : ReceiveAt(q)'
    BY <2>1, <2>3, Others
  <2>5. ReceiveAt(r)'
    BY <1>1, <2>1, <2>2 DEF ReceiveAt, Suspended
  <2>6. Attached'
    <3>1. waiter # None => waiter \in Receivers \ {r}
      BY <1>1, <2>2 DEF TypeOK
    <3> QED
      BY <1>1, <2>1, <3>1 DEF Attached
  <2>7. Generations'
    BY <1>1 DEF Generations
  <2> QED
    BY <2>4, <2>5, <2>6, <2>7 DEF Waits
<1> QED
  BY <1>2, <1>3
-----------------------------------------------------------------------------
(* The steps of a receive.                                                  *)

\* Another wait in the slot is not disturbed.
LEMMA OtherAttached ==
    ASSUME Core, NEW r \in Receivers, OthersKept(r), waiter # r,
           UNCHANGED <<waiter, generation, lifecycle>>, waiter # None => UNCHANGED buffer
    PROVE  Attached'
<1>1. TypeOK /\ Attached
  BY DEF Core, Waits
<1>2. waiter # None => waiter \in Receivers \ {r}
  BY <1>1 DEF TypeOK
<1> QED
  BY <1>1, <1>2 DEF OthersKept, Attached

\* The thread enters or leaves the receive it steps.
LEMMA BusyStep ==
    ASSUME Core, NEW r \in Receivers, \A q \in Receivers \ {r} : rpc'[q] = rpc[q],
           busy \in {r, None},
           IF rpc'[r] \in Inside THEN busy' = r ELSE busy' = None
    PROVE  OneBusy'
<1>1. OneBusy /\ r # None
  BY DEF Core, Waits
<1>2. ASSUME NEW q \in Receivers \ {r} PROVE rpc'[q] \in Inside <=> busy' = q
  BY <1>1 DEF OneBusy
<1>3. rpc'[r] \in Inside <=> busy' = r
  BY <1>1
<1> QED
  BY <1>2, <1>3 DEF OneBusy

\* A receive takes a buffered value.
LEMMA ReceiveBufferedWaits ==
    ASSUME Core, NEW r \in Receivers, ReceiveBuffered(r)
    PROVE  Waits'
<1>1. TypeOK /\ ReceiveAt(r) /\ Attached /\ Generations /\ NothingAfterRetire
  BY DEF Core, Waits
<1>2. /\ busy = None /\ rpc[r] = "out" /\ ~receiver_closed /\ buffer # << >> /\ busy' = r
      /\ Head(buffer) \in Slots /\ Head(buffer) # None
      /\ UNCHANGED <<receiver_closed, retiring, lifecycle, waiter, generation, next_generation, mygen,
                     timer, posted, stop, linked, calling>>
  BY <1>1, ChainTail DEF ReceiveBuffered, TypeOK, state, wait, stops
<1>3. /\ result'[r] = Head(buffer) /\ phase'[r] = "early" /\ rpc'[r] = "resume"
      /\ \A q \in Receivers \ {r} : result'[q] = result[q] /\ phase'[q] = phase[q] /\ rpc'[q] = rpc[q]
  BY <1>1 DEF ReceiveBuffered, RGoto, TypeOK
<1>4. waiter = None
  BY <1>1, <1>2 DEF Attached
<1>5. OthersKept(r) /\ next_generation \in Nat
  BY <1>1, <1>2, <1>3 DEF OthersKept, TypeOK
<1>6. \A q \in Receivers \ {r} : ReceiveAt(q)'
  BY <1>2, <1>5, Others
<1>7. ReceiveAt(r)'
  BY <1>1, <1>2, <1>3, <1>4 DEF ReceiveAt, Suspended, Statuses
<1>8. OneBusy'
  BY <1>2, <1>3, BusyStep DEF Inside
<1>9. Attached' /\ Generations' /\ NothingAfterRetire'
  BY <1>1, <1>2, <1>4 DEF Attached, Generations, NothingAfterRetire
<1> QED
  BY <1>6, <1>7, <1>8, <1>9 DEF Waits

\* A receive publishes its waiter.
LEMMA ReceiveWaitWaits ==
    ASSUME Core, NEW r \in Receivers, ReceiveWait(r)
    PROVE  Waits'
<1>1. TypeOK /\ ReceiveAt(r) /\ Attached /\ Generations /\ NothingAfterRetire
  BY DEF Core, Waits
<1>2. /\ busy = None /\ rpc[r] = "out" /\ ~receiver_closed /\ buffer = << >> /\ busy' = r
      /\ lifecycle = "open" /\ waiter = None /\ waiter' = r
      /\ UNCHANGED <<receiver_closed, retiring, lifecycle, buffer, result, phase, timer,
                     posted, stop, linked, calling>>
  BY DEF ReceiveWait, state, store, stops
<1>3. \/ next_generation' = next_generation + 1 /\ generation' = next_generation + 1
      \/ next_generation' = next_generation /\ generation' = 0
  BY DEF ReceiveWait
<1>4. /\ mygen'[r] = generation' /\ rpc'[r] = "suspend"
      /\ \A q \in Receivers \ {r} : mygen'[q] = mygen[q] /\ rpc'[q] = rpc[q]
  BY <1>1 DEF ReceiveWait, RGoto, TypeOK
<1>5. OthersKept(r) /\ next_generation' \in Nat /\ next_generation' >= next_generation
  BY <1>1, <1>2, <1>3, <1>4 DEF OthersKept, TypeOK
<1>6. \A q \in Receivers \ {r} : ReceiveAt(q)'
  BY <1>2, <1>5, Others
<1>7. ReceiveAt(r)'
  <2>1. mygen'[r] <= next_generation'
    BY <1>1, <1>3, <1>4, <1>5 DEF TypeOK
  <2>2. None # "cancelled"
    BY DEF Statuses
  <2> QED
    BY <1>1, <1>2, <1>4, <2>1, <2>2 DEF ReceiveAt, Suspended
<1>8. OneBusy'
  BY <1>2, <1>4, BusyStep DEF Inside
<1>9. Generations'
  <2>1. \A q \in Receivers : mygen[q] <= next_generation /\ mygen[q] \in Nat
    BY <1>1 DEF Core, Waits, ReceiveAt, TypeOK
  <2>2. mygen'[r] # 0 => \A q \in Receivers \ {r} : mygen'[q] # mygen'[r]
    BY <1>1, <1>3, <1>4, <2>1 DEF TypeOK
  <2> QED
    BY <1>1, <1>4, <2>2 DEF Generations
<1>10. Attached'
  BY <1>1, <1>2, <1>4 DEF Attached, ReceiveAt
<1>11. NothingAfterRetire'
  BY <1>1, <1>2 DEF NothingAfterRetire
<1> QED
  BY <1>6, <1>7, <1>8, <1>9, <1>10, <1>11 DEF Waits

\* A wait refused or thrown out of its suspension.
LEMMA SuspendEndsWaits ==
    ASSUME Core, NEW r \in Receivers, SuspendRefused(r) \/ SuspendThrows(r)
    PROVE  Waits'
<1>1. TypeOK /\ ReceiveAt(r) /\ Attached /\ Generations /\ NothingAfterRetire /\ OneBusy
  BY DEF Core, Waits
<1>2. /\ rpc[r] = "suspend" /\ waiter = r /\ waiter' = None /\ generation' = 0
      /\ UNCHANGED <<receiver_closed, retiring, lifecycle, buffer, timer, next_generation, busy, mygen,
                     posted, stop, linked, calling>>
      /\ \A q \in Receivers \ {r} : result'[q] = result[q] /\ phase'[q] = phase[q] /\ rpc'[q] = rpc[q]
      /\ \/ rpc'[r] = "resume" /\ result'[r] = "worker_stopping"
         \/ rpc'[r] = "unwind" /\ result'[r] = result[r]
  BY <1>1 DEF SuspendRefused, SuspendThrows, Detach, RGoto, TypeOK, state, store, stops, awaiter
<1>3. OthersKept(r) /\ next_generation \in Nat
  BY <1>1, <1>2 DEF OthersKept, TypeOK
<1>4. \A q \in Receivers \ {r} : ReceiveAt(q)'
  BY <1>2, <1>3, Others
<1>5. result[r] = None /\ "worker_stopping" # None /\ None # "cancelled"
  BY <1>1, <1>2 DEF Attached, Statuses
<1>6. ReceiveAt(r)'
  BY <1>1, <1>2, <1>5 DEF ReceiveAt, Suspended
<1>7. OneBusy'
  BY <1>1, <1>2 DEF OneBusy, Inside
<1>8. Attached' /\ Generations' /\ NothingAfterRetire'
  BY <1>1, <1>2 DEF Attached, Generations, NothingAfterRetire
<1> QED
  BY <1>4, <1>6, <1>7, <1>8 DEF Waits

\* The continuation is published unless the wait is over already.
LEMMA SuspendWaits ==
    ASSUME Core, NEW r \in Receivers, Suspend(r)
    PROVE  Waits'
<1>1. TypeOK /\ ReceiveAt(r) /\ Attached /\ Generations /\ NothingAfterRetire /\ OneBusy
  BY DEF Core, Waits
<1>2. /\ rpc[r] = "suspend"
      /\ UNCHANGED <<receiver_closed, retiring, lifecycle, buffer, waiter, generation, next_generation,
                     mygen, result, posted, stop, linked, calling>>
      /\ timer'[r] = (timed[r] /\ waiter = r) /\ \A q \in Receivers \ {r} : timer'[q] = timer[q]
  BY <1>1 DEF Suspend, TypeOK, state, store, wait, stops
<1>3. busy = r
  BY <1>1, <1>2 DEF OneBusy, Inside
<1>4. next_generation \in Nat
  BY <1>1 DEF TypeOK
<1>5. CASE phase[r] = "early"
  <2>1. /\ rpc'[r] = "resume" /\ UNCHANGED <<phase, busy>>
        /\ \A q \in Receivers \ {r} : rpc'[q] = rpc[q]
    BY <1>1, <1>5 DEF Suspend, RGoto, TypeOK
  <2>2. waiter # r
    BY <1>1, <1>2, <1>5 DEF Attached, Suspended
  <2>3. OthersKept(r)
    BY <1>2, <2>1 DEF OthersKept
  <2>4. \A q \in Receivers \ {r} : ReceiveAt(q)'
    BY <1>2, <1>4, <2>3, Others
  <2>5. ReceiveAt(r)'
    BY <1>1, <1>2, <2>1, <2>2 DEF ReceiveAt, Suspended
  <2>6. OneBusy'
    BY <1>3, <2>1, BusyStep DEF Inside
  <2>7. Attached'
    BY <1>2, <2>2, <2>3, OtherAttached
  <2>8. Generations' /\ NothingAfterRetire'
    BY <1>1, <1>2 DEF Generations, NothingAfterRetire
  <2> QED
    BY <2>4, <2>5, <2>6, <2>7, <2>8 DEF Waits
<1>6. CASE phase[r] = "pending"
  <2>1. /\ rpc'[r] = IF mygen[r] # 0 THEN "register" ELSE "waiting"
        /\ phase'[r] = "suspended" /\ busy' = IF mygen[r] # 0 THEN r ELSE None
        /\ \A q \in Receivers \ {r} : rpc'[q] = rpc[q] /\ phase'[q] = phase[q]
    BY <1>1, <1>6 DEF Suspend, RGoto, TypeOK
  <2>2. waiter = r /\ r # None
    BY <1>1, <1>2, <1>6 DEF ReceiveAt
  <2>3. OthersKept(r)
    BY <1>2, <2>1 DEF OthersKept
  <2>4. \A q \in Receivers \ {r} : ReceiveAt(q)'
    BY <1>2, <1>4, <2>3, Others
  <2>5. ReceiveAt(r)'
    BY <1>1, <1>2, <2>1, <2>2 DEF ReceiveAt, Suspended
  <2>6. OneBusy'
    BY <1>3, <2>1, BusyStep DEF Inside
  <2>7. Attached'
    BY <1>1, <1>2, <2>1, <2>2 DEF Attached, Suspended
  <2>8. Generations' /\ NothingAfterRetire'
    BY <1>1, <1>2 DEF Generations, NothingAfterRetire
  <2> QED
    BY <2>4, <2>5, <2>6, <2>7, <2>8 DEF Waits
<1> QED
  BY <1>5, <1>6 DEF Suspend

\* The stop callback is registered, or runs at once.
LEMMA RegisterWaits ==
    ASSUME Core, NEW r \in Receivers, Register(r)
    PROVE  Waits'
<1>1. TypeOK /\ ReceiveAt(r) /\ Attached /\ Generations /\ NothingAfterRetire /\ OneBusy
  BY DEF Core, Waits
<1>2. /\ rpc[r] = "register" /\ rpc'[r] = "waiting" /\ busy' = None
      /\ \A q \in Receivers \ {r} : rpc'[q] = rpc[q]
      /\ UNCHANGED <<receiver_closed, retiring, lifecycle, buffer, mygen, stop, calling>>
  BY <1>1 DEF Register, RGoto, TypeOK, state, store
<1>3. busy = r /\ mygen[r] # 0
  BY <1>1, <1>2 DEF OneBusy, Inside, ReceiveAt
<1>4. OneBusy'
  BY <1>2, <1>3, BusyStep DEF Inside
<1>5. CASE r \in stop
  <2>1. Cancel(mygen[r]) /\ UNCHANGED linked
    BY <1>5 DEF Register
  <2>2. NothingAfterRetire'
    BY <1>1, <1>2, <2>1 DEF NothingAfterRetire, Cancel, CompleteAttached, Complete, Detach, wait
  <2> QED
    BY <1>2, <1>3, <1>4, <1>5, <2>1, <2>2, CancelWaits
<1>6. CASE r \notin stop
  <2>1. /\ linked' = linked \cup {r}
        /\ UNCHANGED <<waiter, generation, next_generation, result, phase, timer, posted>>
    BY <1>6 DEF Register, wait
  <2>2. OthersKept(r) /\ next_generation \in Nat
    BY <1>1, <1>2, <2>1 DEF OthersKept, TypeOK
  <2>3. \A q \in Receivers \ {r} : ReceiveAt(q)'
    BY <2>1, <2>2, Others
  <2>4. ReceiveAt(r)'
    BY <1>1, <1>2, <1>3, <2>1 DEF ReceiveAt, Suspended
  <2>5. Attached'
    <3>1. CASE waiter = r
      BY <1>1, <1>2, <1>6, <2>1, <3>1 DEF Attached, Suspended
    <3>2. CASE waiter # r
      BY <1>2, <2>1, <2>2, <3>2, OtherAttached
    <3> QED
      BY <3>1, <3>2
  <2>6. Generations' /\ NothingAfterRetire'
    BY <1>1, <1>2, <2>1 DEF Generations, NothingAfterRetire
  <2> QED
    BY <1>4, <2>3, <2>4, <2>5, <2>6 DEF Waits
<1> QED
  BY <1>5, <1>6

\* The worker runs a queued resume.
LEMMA RunPostedWaits ==
    ASSUME Core, NEW r \in Receivers, RunPosted(r)
    PROVE  Waits'
<1>1. TypeOK /\ ReceiveAt(r) /\ Generations /\ NothingAfterRetire
  BY DEF Core, Waits
<1>2. /\ busy = None /\ r \in posted /\ posted' = posted \ {r} /\ busy' = r /\ rpc'[r] = "resume"
      /\ \A q \in Receivers \ {r} : rpc'[q] = rpc[q]
      /\ UNCHANGED <<receiver_closed, retiring, lifecycle, buffer, waiter, generation, next_generation,
                     mygen, phase, result, timer, stop, linked, calling>>
  BY <1>1 DEF RunPosted, RGoto, TypeOK, state, store, wait, awaiter, stops
<1>3. waiter # r
  BY <1>1, <1>2 DEF ReceiveAt
<1>4. OthersKept(r) /\ next_generation \in Nat
  BY <1>1, <1>2 DEF OthersKept, TypeOK
<1>5. \A q \in Receivers \ {r} : ReceiveAt(q)'
  BY <1>2, <1>4, Others
<1>6. ReceiveAt(r)'
  BY <1>1, <1>2, <1>3 DEF ReceiveAt, Suspended
<1>7. OneBusy'
  BY <1>2, BusyStep DEF Inside
<1>8. Attached'
  BY <1>2, <1>3, <1>4, OtherAttached
<1>9. Generations' /\ NothingAfterRetire'
  BY <1>1, <1>2 DEF Generations, NothingAfterRetire
<1> QED
  BY <1>5, <1>6, <1>7, <1>8, <1>9 DEF Waits

\* await_resume takes the outcome.
LEMMA TakeResultWaits ==
    ASSUME Core, NEW r \in Receivers, TakeResult(r)
    PROVE  Waits'
<1>1. TypeOK /\ ReceiveAt(r) /\ Generations /\ NothingAfterRetire /\ OneBusy
  BY DEF Core, Waits
<1>2. /\ rpc[r] = "resume" /\ rpc'[r] = "unwind" /\ result'[r] = None
      /\ \A q \in Receivers \ {r} : rpc'[q] = rpc[q] /\ result'[q] = result[q]
      /\ UNCHANGED <<receiver_closed, retiring, lifecycle, buffer, waiter, generation, next_generation,
                     busy, mygen, phase, timer, posted, stop, linked, calling>>
  BY <1>1 DEF TakeResult, RGoto, TypeOK, state, wait, stops
<1>3. waiter # r /\ None # "cancelled"
  BY <1>1, <1>2 DEF ReceiveAt, Statuses
<1>4. OthersKept(r) /\ next_generation \in Nat
  BY <1>1, <1>2 DEF OthersKept, TypeOK
<1>5. \A q \in Receivers \ {r} : ReceiveAt(q)'
  BY <1>2, <1>4, Others
<1>6. ReceiveAt(r)'
  BY <1>1, <1>2, <1>3 DEF ReceiveAt, Suspended
<1>7. OneBusy'
  BY <1>1, <1>2 DEF OneBusy, Inside
<1>8. Attached'
  BY <1>2, <1>3, <1>4, OtherAttached
<1>9. Generations' /\ NothingAfterRetire'
  BY <1>1, <1>2 DEF Generations, NothingAfterRetire
<1> QED
  BY <1>5, <1>6, <1>7, <1>8, <1>9 DEF Waits

\* The awaiter dies with its registrations.
LEMMA UnwindWaits ==
    ASSUME Core, NEW r \in Receivers, Unwind(r)
    PROVE  Waits'
<1>1. TypeOK /\ ReceiveAt(r) /\ Generations /\ NothingAfterRetire /\ OneBusy
  BY DEF Core, Waits
<1>2. /\ rpc[r] = "unwind" /\ r \notin calling /\ rpc'[r] = "out" /\ timer'[r] = FALSE
      /\ phase'[r] = "pending" /\ mygen'[r] = 0 /\ linked' = linked \ {r} /\ busy' = None
      /\ \A q \in Receivers \ {r} : /\ rpc'[q] = rpc[q] /\ timer'[q] = timer[q]
                                    /\ phase'[q] = phase[q] /\ mygen'[q] = mygen[q]
      /\ UNCHANGED <<receiver_closed, retiring, lifecycle, buffer, waiter, generation, next_generation,
                     result, posted, stop, calling>>
  BY <1>1 DEF Unwind, RGoto, TypeOK, state, store, wait
<1>3. waiter # r /\ busy = r
  BY <1>1, <1>2 DEF ReceiveAt, Suspended, OneBusy, Inside
<1>4. OthersKept(r) /\ next_generation \in Nat
  BY <1>1, <1>2 DEF OthersKept, TypeOK
<1>5. \A q \in Receivers \ {r} : ReceiveAt(q)'
  BY <1>2, <1>4, Others
<1>6. ReceiveAt(r)'
  <2>1. None # "cancelled"
    BY DEF Statuses
  <2> QED
    BY <1>1, <1>2, <1>3, <1>4, <2>1 DEF ReceiveAt, Suspended
<1>7. OneBusy'
  BY <1>2, <1>3, BusyStep DEF Inside
<1>8. Attached'
  BY <1>2, <1>3, <1>4, OtherAttached
<1>9. Generations' /\ NothingAfterRetire'
  BY <1>1, <1>2 DEF Generations, NothingAfterRetire
<1> QED
  BY <1>5, <1>6, <1>7, <1>8, <1>9 DEF Waits

\* The worker takes a deadline that is due, or cancelled by its stop.
LEMMA DeadlineWaits ==
    ASSUME Core, NEW r \in Receivers, busy = None, timer[r],
           timer' = [timer EXCEPT ![r] = FALSE], busy' = r,
           RGoto(r, "expired") \/ RGoto(r, "stopped"),
           UNCHANGED <<lifecycle, receiver_closed, retiring, buffer, waiter, generation,
                       next_generation, mygen, phase, result, posted, stop, linked, calling>>
    PROVE  Waits'
<1>1. TypeOK /\ ReceiveAt(r) /\ Attached /\ Generations /\ NothingAfterRetire /\ OneBusy
  BY DEF Core, Waits
<1>2. /\ rpc'[r] \in {"expired", "stopped"} /\ timer'[r] = FALSE
      /\ \A q \in Receivers \ {r} : rpc'[q] = rpc[q] /\ timer'[q] = timer[q]
  BY <1>1 DEF RGoto, TypeOK
<1>3. waiter = r /\ r # None /\ rpc[r] = "waiting"
  BY <1>1 DEF ReceiveAt, OneBusy, Inside
<1>4. OthersKept(r) /\ next_generation \in Nat
  BY <1>1, <1>2 DEF OthersKept, TypeOK
<1>5. \A q \in Receivers \ {r} : ReceiveAt(q)'
  BY <1>4, Others
<1>6. ReceiveAt(r)'
  BY <1>1, <1>2, <1>3 DEF ReceiveAt, Suspended
<1>7. OneBusy'
  BY <1>2, BusyStep DEF Inside
<1>8. Attached'
  BY <1>1, <1>2, <1>3 DEF Attached, Suspended
<1>9. Generations' /\ NothingAfterRetire'
  BY <1>1 DEF Generations, NothingAfterRetire
<1> QED
  BY <1>5, <1>6, <1>7, <1>8, <1>9 DEF Waits

\* A deadline ends the wait that is still attached, and only that one.
LEMMA TimerCompletedWaits ==
    ASSUME Core, NEW r \in Receivers, TimerCompleted(r)
    PROVE  Waits'
<1>1. TypeOK /\ ReceiveAt(r) /\ Attached /\ Generations /\ NothingAfterRetire /\ OneBusy
  BY DEF Core, Waits
<1>2. /\ rpc[r] \in {"expired", "stopped"}
      /\ UNCHANGED <<receiver_closed, retiring, lifecycle, buffer, next_generation,
                     mygen, timer, posted, stop, linked, calling>>
  BY DEF TimerCompleted, state, store, stops
<1>3. busy = r /\ r # None /\ next_generation \in Nat
  BY <1>1, <1>2 DEF OneBusy, Inside, TypeOK
<1>4. CASE waiter # r
  <2>1. /\ busy' = None /\ rpc'[r] = "waiting" /\ \A q \in Receivers \ {r} : rpc'[q] = rpc[q]
        /\ UNCHANGED <<waiter, generation, result, phase>>
    BY <1>1, <1>4 DEF TimerCompleted, RGoto, TypeOK
  <2>2. OthersKept(r)
    BY <1>2, <2>1 DEF OthersKept
  <2>3. \A q \in Receivers \ {r} : ReceiveAt(q)'
    BY <1>2, <1>3, <2>1, <2>2, Others
  <2>4. ReceiveAt(r)'
    BY <1>1, <1>2, <1>4, <2>1 DEF ReceiveAt, Suspended
  <2>5. OneBusy'
    BY <1>3, <2>1, BusyStep DEF Inside
  <2>6. Attached'
    BY <1>2, <1>4, <2>1, <2>2, OtherAttached
  <2>7. Generations' /\ NothingAfterRetire'
    BY <1>1, <1>2, <2>1 DEF Generations, NothingAfterRetire
  <2> QED
    BY <2>3, <2>4, <2>5, <2>6, <2>7 DEF Waits
<1>5. CASE waiter = r
  <2>1. /\ waiter' = None /\ generation' = 0 /\ phase'[r] = "ready" /\ rpc'[r] = "resume"
        /\ result'[r] \in {"timed_out", "worker_stopping"} /\ UNCHANGED busy
        /\ \A q \in Receivers \ {r} : rpc'[q] = rpc[q] /\ result'[q] = result[q] /\ phase'[q] = phase[q]
    BY <1>1, <1>5 DEF TimerCompleted, RGoto, Detach, TypeOK
  <2>2. r \notin posted /\ result'[r] # None /\ result'[r] # "cancelled"
    BY <1>1, <1>5, <2>1 DEF ReceiveAt, Statuses
  <2>3. OthersKept(r)
    BY <1>2, <2>1 DEF OthersKept
  <2>4. \A q \in Receivers \ {r} : ReceiveAt(q)'
    BY <1>2, <1>3, <1>5, <2>1, <2>3, Others
  <2>5. ReceiveAt(r)'
    BY <1>1, <1>2, <1>3, <2>1, <2>2 DEF ReceiveAt, Suspended
  <2>6. OneBusy'
    BY <1>3, <2>1, BusyStep DEF Inside
  <2>7. Attached' /\ Generations' /\ NothingAfterRetire'
    BY <1>1, <1>2, <2>1 DEF Attached, Generations, NothingAfterRetire
  <2> QED
    BY <2>4, <2>5, <2>6, <2>7 DEF Waits
<1> QED
  BY <1>4, <1>5

\* A stop request takes the linked callback.
LEMMA RequestStopWaits ==
    ASSUME Core, NEW r \in Receivers, RequestStop(r)
    PROVE  Waits'
<1>1. TypeOK /\ ReceiveAt(r) /\ Attached /\ Generations /\ NothingAfterRetire /\ OneBusy
  BY DEF Core, Waits
<1>2. /\ stop' = stop \cup {r} /\ linked' = linked \ {r} /\ calling' = calling \cup (linked \cap {r})
      /\ UNCHANGED <<receiver_closed, retiring, lifecycle, buffer, waiter, generation, next_generation,
                     busy, rpc, mygen, phase, result, timer, posted>>
  BY DEF RequestStop, state, store, wait, awaiter
<1>3. OthersKept(r) /\ next_generation \in Nat
  BY <1>1, <1>2 DEF OthersKept, TypeOK
<1>4. \A q \in Receivers \ {r} : ReceiveAt(q)'
  BY <1>2, <1>3, Others
<1>5. ReceiveAt(r)'
  BY <1>1, <1>2 DEF ReceiveAt
<1>6. Attached'
  <2>1. CASE waiter = r
    BY <1>1, <1>2, <2>1 DEF Attached
  <2>2. CASE waiter # r
    BY <1>2, <1>3, <2>2, OtherAttached
  <2> QED
    BY <2>1, <2>2
<1>7. OneBusy' /\ Generations' /\ NothingAfterRetire'
  BY <1>1, <1>2 DEF OneBusy, Generations, NothingAfterRetire
<1> QED
  BY <1>4, <1>5, <1>6, <1>7 DEF Waits

\* The callback cancels its own wait.
LEMMA StopCallbackWaits ==
    ASSUME Core, NEW r \in Receivers, StopCallback(r)
    PROVE  Waits'
<1>1. TypeOK /\ ReceiveAt(r) /\ NothingAfterRetire /\ OneBusy
  BY DEF Core, Waits
<1>2. /\ r \in calling /\ calling' = calling \ {r} /\ Cancel(mygen[r])
      /\ UNCHANGED <<receiver_closed, retiring, lifecycle, buffer, busy, rpc, mygen, stop, linked>>
  BY DEF StopCallback, state, store
<1>3. mygen[r] # 0 /\ r \in stop
  BY <1>1, <1>2 DEF ReceiveAt
<1>4. OneBusy'
  BY <1>1, <1>2 DEF OneBusy
<1>5. NothingAfterRetire'
  BY <1>1, <1>2 DEF NothingAfterRetire, Cancel, CompleteAttached, Complete, Detach, wait
<1> QED
  BY <1>2, <1>3, <1>4, <1>5, CancelWaits

\* close() and worker_stopping().
LEMMA CloseWaits ==
    ASSUME Core, CloseSender \/ RetireReceiver \/ WorkerStopping
    PROVE  Waits'
<1>1. TypeOK /\ Attached /\ NothingAfterRetire
  BY DEF Core, Waits
<1>2. UNCHANGED <<buffer, rpc, busy, mygen, stops>>
  BY DEF CloseSender, RetireReceiver, Close, WorkerStopping, store
<1>3. CASE WorkerStopping
  <2>1. CompleteAttached("worker_stopping") /\ lifecycle' = "stopping" /\ UNCHANGED <<receiver_closed, retiring>>
    BY <1>3 DEF WorkerStopping
  <2>2. waiter' = None
    BY <2>1 DEF CompleteAttached, Complete, Detach
  <2>3. NothingAfterRetire'
    BY <1>1, <1>2, <2>1, <2>2 DEF NothingAfterRetire
  <2> QED
    BY <1>2, <2>1, <2>3, StatusWaits DEF Statuses
<1>4. CASE (CloseSender \/ RetireReceiver) /\ lifecycle = "open"
  <2>1. CompleteAttached("closed") /\ lifecycle' = "closed"
    BY <1>4 DEF CloseSender, RetireReceiver, Close
  <2>2. waiter' = None
    BY <2>1 DEF CompleteAttached, Complete, Detach
  <2>3. /\ receiver_closed' /\ ~retiring' => receiver_closed /\ ~retiring
        /\ receiver_closed' \/ (retiring' = retiring /\ ~receiver_closed)
    BY <1>1, <1>4 DEF CloseSender, RetireReceiver, Close, TypeOK
  <2>4. NothingAfterRetire'
    BY <1>1, <1>2, <2>1, <2>2, <2>3 DEF NothingAfterRetire
  <2> QED
    BY <1>2, <2>1, <2>4, StatusWaits DEF Statuses
<1>5. CASE RetireReceiver /\ lifecycle # "open"
  <2>1. /\ UNCHANGED <<lifecycle, waiter, generation, next_generation, result, phase, timer, posted>>
        /\ retiring' /\ receiver_closed'
    BY <1>5 DEF RetireReceiver, Close, wait
  <2>2. waiter = None
    BY <1>1, <1>5 DEF Attached
  <2>3. NothingAfterRetire'
    BY <1>5, <2>1, <2>2 DEF NothingAfterRetire
  <2>4. WaitsKept
    BY <1>2, <2>1 DEF WaitsKept, stops
  <2> QED
    BY <2>2, <2>3, <2>4, KeptWaits
<1> QED
  BY <1>3, <1>4, <1>5 DEF CloseSender

\* A published value completes the wait it finds.
LEMMA PublishWaits ==
    ASSUME Core, NEW s \in Senders, Publish(s)
    PROVE  Waits'
<1>1. TypeOK /\ SlotsConserved /\ Attached /\ NothingAfterRetire /\ OneBusy
  BY DEF Core, Waits
<1>2. UNCHANGED <<lifecycle, receiver_closed, retiring, busy, rpc, mygen, stop, linked, calling>>
  BY DEF Publish, state, stops
<1>3. \/ /\ UNCHANGED <<waiter, generation, next_generation, result, phase, timer, posted>>
         /\ UNCHANGED buffer \/ (~Refuses /\ waiter = None)
      \/ ~Refuses /\ waiter # None /\ Complete(waiter, snode[s]) /\ UNCHANGED buffer
  BY DEF Publish, wait
<1>4. ~Refuses => ~receiver_closed
  BY <1>1 DEF Refuses, NothingAfterRetire
<1>5. CASE /\ UNCHANGED <<waiter, generation, next_generation, result, phase, timer, posted>>
           /\ UNCHANGED buffer \/ (~Refuses /\ waiter = None)
  <2>1. WaitsKept
    BY <1>2, <1>5 DEF WaitsKept
  <2>2. NothingAfterRetire'
    BY <1>1, <1>2, <1>4, <1>5 DEF NothingAfterRetire
  <2> QED
    BY <1>2, <1>5, <2>1, <2>2, KeptWaits
<1>6. CASE ~Refuses /\ waiter # None /\ Complete(waiter, snode[s]) /\ UNCHANGED buffer
  <2>1. waiter \in Receivers
    BY <1>1, <1>6 DEF TypeOK
  <2>2. snode[s] # None /\ snode[s] \in Slots
    BY <1>1 DEF Publish, SlotsConserved, TypeOK
  <2>3. snode[s] # "cancelled"
    BY <2>2 DEF Statuses
  <2>4. OneBusy'
    BY <1>1, <1>2 DEF OneBusy
  <2>5. NothingAfterRetire'
    BY <1>1, <1>2, <1>4, <1>6 DEF NothingAfterRetire
  <2> QED
    BY <1>2, <1>6, <2>1, <2>2, <2>3, <2>4, <2>5, CompleteWaits
<1> QED
  BY <1>3, <1>5, <1>6
-----------------------------------------------------------------------------
(* Type correctness.                                                        *)

\* Completing a wait keeps the types of what it writes.
WaitTypes ==
    /\ waiter \in Receivers \cup {None} /\ generation \in 0..MaxWaits /\ next_generation \in 0..MaxWaits
    /\ phase \in [Receivers -> {"pending", "suspended", "early", "ready"}]
    /\ result \in [Receivers -> Slots \cup Statuses \cup {None}]
    /\ timer \in [Receivers -> BOOLEAN] /\ posted \subseteq Receivers

\* Completing a wait keeps the types.
LEMMA CompleteTypes ==
    ASSUME TypeOK, NEW r \in Receivers, NEW o \in Slots \cup Statuses, Complete(r, o)
    PROVE  WaitTypes'
<1>1. /\ waiter' \in Receivers \cup {None} /\ generation' \in 0..MaxWaits
      /\ next_generation' \in 0..MaxWaits
  BY DEF TypeOK, Complete, Detach
<1>2. result' \in [Receivers -> Slots \cup Statuses \cup {None}]
  BY DEF TypeOK, Complete
<1>3. phase' \in [Receivers -> {"pending", "suspended", "early", "ready"}]
  <2>1. phase' = [phase EXCEPT ![r] = "ready"] \/ phase' = [phase EXCEPT ![r] = "early"]
    BY DEF Complete
  <2> QED
    BY <2>1 DEF TypeOK
<1>4. timer' \in [Receivers -> BOOLEAN] /\ posted' \subseteq Receivers
  <2>1. /\ timer' = timer \/ timer' = [timer EXCEPT ![r] = FALSE]
        /\ posted' = posted \/ posted' = posted \cup {r}
    BY DEF Complete
  <2>2. timer' \in [Receivers -> BOOLEAN]
    BY <2>1 DEF TypeOK
  <2> QED
    BY <2>1, <2>2 DEF TypeOK
<1> QED
  BY <1>1, <1>2, <1>3, <1>4 DEF WaitTypes

\* Completing whichever wait is attached keeps the types.
LEMMA AttachedTypes ==
    ASSUME TypeOK, NEW o \in Statuses, CompleteAttached(o)
    PROVE  WaitTypes'
<1>1. CASE waiter = None
  BY <1>1 DEF TypeOK, CompleteAttached, Detach, WaitTypes
<1>2. CASE waiter # None
  BY <1>2, CompleteTypes DEF TypeOK, CompleteAttached
<1> QED
  BY <1>1, <1>2

\* A cancellation keeps the types, stale or not.
LEMMA CancelTypes ==
    ASSUME TypeOK, NEW g, Cancel(g)
    PROVE  WaitTypes'
<1>1. "cancelled" \in Statuses
  BY DEF Statuses
<1>2. CASE waiter # None /\ generation = g
  BY <1>1, <1>2, AttachedTypes DEF Cancel
<1>3. CASE ~(waiter # None /\ generation = g)
  BY <1>3 DEF TypeOK, Cancel, wait, WaitTypes
<1> QED
  BY <1>2, <1>3

\* The steps of a send.
LEMMA SendTypes ==
    ASSUME Core, NEW s \in Senders, Reserve(s) \/ FillThrows(s) \/ Publish(s) \/ Reject(s)
    PROVE  TypeOK'
<1>0. TypeOK /\ (spc[s] # "out" => snode[s] \in Slots)
  BY DEF Core, SlotsConserved, TypeOK
<1>1. reserved' \in 0..Capacity /\ Len(buffer') + reserved' <= Capacity
  BY ReserveSlots, ReturnSlots, PublishSlots
<1>2. CASE Reserve(s)
  BY <1>0, <1>1, <1>2 DEF TypeOK, Reserve, SGoto, state, wait, awaiter, stops
<1>3. CASE FillThrows(s)
  BY <1>0, <1>1, <1>3 DEF TypeOK, FillThrows, SGoto, state, wait, awaiter, stops
<1>4. CASE Reject(s)
  BY <1>0, <1>1, <1>4 DEF TypeOK, Reject, SGoto, state, wait, awaiter, stops
<1>5. CASE Publish(s)
  <2>1. PICK v \in Values :
          /\ value' = [value EXCEPT ![snode[s]] = v]
          /\ \/ /\ SGoto(s, "reject")
                /\ UNCHANGED <<wait, result, phase, timer, posted, buffer, snode, published, delivered>>
             \/ /\ SGoto(s, "out") /\ snode' = [snode EXCEPT ![s] = None]
                /\ published' = Append(published, v)
                /\ \/ /\ waiter # None
                      /\ Complete(waiter, snode[s])
                      /\ delivered' = Append(delivered, v) /\ UNCHANGED buffer
                   \/ /\ waiter = None
                      /\ buffer' = Append(buffer, snode[s])
                      /\ UNCHANGED <<wait, result, phase, timer, posted, delivered>>
    BY <1>5 DEF Publish
  <2>2. snode[s] \in Slots /\ UNCHANGED <<state, free, busy, rpc, mygen, timed, stops, retiring, doomed>>
    BY <1>0, <1>5 DEF Publish
  <2>3. WaitTypes'
    <3>1. CASE waiter # None /\ Complete(waiter, snode[s])
      BY <1>0, <2>2, <3>1, CompleteTypes DEF TypeOK
    <3>2. CASE UNCHANGED <<wait, result, phase, timer, posted>>
      BY <1>0, <3>2 DEF TypeOK, wait, WaitTypes
    <3> QED
      BY <2>1, <3>1, <3>2
  <2>4. value' \in [Slots -> Values \cup {None}] /\ buffer' \in Seq(Slots)
    <3>1. value' \in [Slots -> Values \cup {None}]
      BY <1>0, <2>1, <2>2 DEF TypeOK
    <3>2. buffer' = buffer \/ buffer' = Append(buffer, snode[s])
      BY <2>1
    <3>3. buffer' \in Seq(Slots)
      <4>1. buffer \in Seq(Slots)
        BY <1>0 DEF TypeOK
      <4>2. Append(buffer, snode[s]) \in Seq(Slots)
        BY <2>2, <4>1
      <4> QED
        BY <3>2, <4>1, <4>2
    <3> QED
      BY <3>1, <3>3
  <2>5. /\ spc' \in [Senders -> {"out", "fill", "reject"}] /\ snode' \in [Senders -> Slots \cup {None}]
    BY <1>0, <2>1 DEF TypeOK, SGoto
  <2>6. published' \in Seq(Values) /\ delivered' \in Seq(Values)
    <3>1. /\ published' = published \/ published' = Append(published, v)
          /\ delivered' = delivered \/ delivered' = Append(delivered, v)
      BY <2>1
    <3>2. published \in Seq(Values) /\ delivered \in Seq(Values)
      BY <1>0 DEF TypeOK
    <3>3. Append(published, v) \in Seq(Values) /\ Append(delivered, v) \in Seq(Values)
      BY <3>2
    <3> QED
      BY <3>1, <3>2, <3>3
  <2> QED
    BY <1>0, <1>1, <2>2, <2>3, <2>4, <2>5, <2>6 DEF TypeOK, WaitTypes, state, stops
<1> QED
  BY <1>2, <1>3, <1>4, <1>5

\* The steps of a receive.
LEMMA ReceiveTypes ==
    ASSUME Core, NEW r \in Receivers,
           ReceiveBuffered(r) \/ ReceiveWait(r) \/ ReceiveStep(r) \/ Expire(r)
           \/ RequestStop(r) \/ StopCallback(r)
    PROVE  TypeOK'
<1>0. TypeOK
  BY DEF Core
<1>1. CASE ReceiveBuffered(r)
  <2>1. /\ Head(buffer) \in Slots /\ Tail(buffer) \in Seq(Slots) /\ value[Head(buffer)] \in Values
        /\ Len(Tail(buffer)) = Len(buffer) - 1 /\ Len(buffer) \in Nat
    <3>1. buffer # << >> /\ buffer \in Seq(Slots)
      BY <1>0, <1>1 DEF TypeOK, ReceiveBuffered
    <3>2. Head(buffer) \in Slots /\ Head(buffer) \in Elems(buffer)
      BY <3>1, ChainTail
    <3>3. value[Head(buffer)] \in Values
      BY <1>0, <3>2 DEF Core, SlotsConserved, SlotValues, TypeOK
    <3> QED
      BY <3>1, <3>2, <3>3, ChainTail
  <2>2. Len(buffer') + reserved' <= Capacity
    BY <1>0, <1>1, <2>1 DEF TypeOK, ReceiveBuffered
  <2> QED
    BY <1>0, <1>1, <2>1, <2>2 DEF TypeOK, ReceiveBuffered, RGoto, state, wait, sends, stops
<1>2. CASE ReceiveWait(r)
  <2>1. /\ next_generation' \in 0..MaxWaits /\ generation' \in 0..MaxWaits
        /\ mygen' \in [Receivers -> 0..MaxWaits] /\ timed' \in [Receivers -> BOOLEAN]
    <3>1. PICK stoppable \in BOOLEAN, deadline \in BOOLEAN :
            /\ stoppable => next_generation < MaxWaits
            /\ next_generation' = IF stoppable THEN next_generation + 1 ELSE next_generation
            /\ generation' = IF stoppable THEN next_generation + 1 ELSE 0
            /\ mygen' = [mygen EXCEPT ![r] = generation']
            /\ timed' = [timed EXCEPT ![r] = deadline]
      BY <1>2 DEF ReceiveWait
    <3>2. next_generation' \in 0..MaxWaits /\ generation' \in 0..MaxWaits
      BY <1>0, <3>1 DEF TypeOK
    <3> QED
      BY <1>0, <3>1, <3>2 DEF TypeOK
  <2> QED
    BY <1>0, <1>2, <2>1 DEF TypeOK, ReceiveWait, RGoto, state, store, sends, stops
<1>3. CASE SuspendRefused(r)
  BY <1>0, <1>3 DEF TypeOK, SuspendRefused, Detach, RGoto, Statuses, state, store, sends, stops
<1>4. CASE SuspendThrows(r)
  BY <1>0, <1>4 DEF TypeOK, SuspendThrows, Detach, RGoto, state, store, sends, stops, awaiter
<1>5. CASE Suspend(r)
  <2>1. /\ timer' \in [Receivers -> BOOLEAN]
        /\ phase' \in [Receivers -> {"pending", "suspended", "early", "ready"}]
        /\ busy' \in Receivers \cup {None}
    BY <1>0, <1>5 DEF TypeOK, Suspend
  <2>2. rpc' \in [Receivers -> {"out", "suspend", "register", "waiting", "expired", "stopped",
                                "resume", "unwind"}]
    <3>1. \E p \in {"resume", "register", "waiting"} : rpc' = [rpc EXCEPT ![r] = p]
      BY <1>5 DEF Suspend, RGoto
    <3> QED
      BY <1>0, <3>1 DEF TypeOK
  <2> QED
    BY <1>0, <1>5, <2>1, <2>2 DEF TypeOK, Suspend, state, store, wait, sends, stops
<1>6. CASE Register(r)
  <2>1. WaitTypes' /\ linked' \subseteq Receivers
    <3>1. CASE r \in stop
      BY <1>0, <1>6, <3>1, CancelTypes DEF Register, TypeOK
    <3>2. CASE r \notin stop
      BY <1>0, <1>6, <3>2 DEF Register, TypeOK, WaitTypes, wait
    <3> QED
      BY <3>1, <3>2
  <2> QED
    BY <1>0, <1>6, <2>1 DEF TypeOK, WaitTypes, Register, RGoto, state, store, sends
<1>7. CASE RunPosted(r)
  BY <1>0, <1>7 DEF TypeOK, RunPosted, RGoto, state, store, wait, sends, awaiter, stops
<1>8. CASE TakeResult(r)
  <2>1. value' \in [Slots -> Values \cup {None}] /\ free' \subseteq Slots
    <3>1. CASE result[r] \in Slots
      <4>1. value' = [value EXCEPT ![result[r]] = None] /\ free' = free \cup {result[r]}
        BY <1>8, <3>1 DEF TakeResult
      <4>2. value \in [Slots -> Values \cup {None}] /\ free \subseteq Slots
        BY <1>0 DEF TypeOK
      <4>3. value' \in [Slots -> Values \cup {None}]
        BY <4>1, <4>2
      <4>4. free' \subseteq Slots
        BY <3>1, <4>1, <4>2
      <4> QED
        BY <4>3, <4>4
    <3>2. CASE result[r] \notin Slots
      BY <1>0, <1>8, <3>2 DEF TypeOK, TakeResult
    <3> QED
      BY <3>1, <3>2
  <2> QED
    BY <1>0, <1>8, <2>1 DEF TypeOK, TakeResult, RGoto, state, wait, sends, stops
<1>9. CASE Unwind(r)
  BY <1>0, <1>9 DEF TypeOK, Unwind, RGoto, state, store, wait, sends
<1>10. CASE TimerCompleted(r)
  <2>1. /\ UNCHANGED <<state, store, next_generation, sends, mygen, timed, timer, posted, stops,
                      retiring, doomed, published, delivered>>
        /\ waiter' = waiter \/ waiter' = None
        /\ generation' = generation \/ generation' = 0
        /\ result' = result \/ \E o \in Statuses : result' = [result EXCEPT ![r] = o]
        /\ phase' = phase \/ phase' = [phase EXCEPT ![r] = "ready"]
        /\ busy' = busy \/ busy' = None
        /\ rpc' = [rpc EXCEPT ![r] = "waiting"] \/ rpc' = [rpc EXCEPT ![r] = "resume"]
    BY <1>10 DEF TimerCompleted, Detach, RGoto, Statuses
  <2>2. waiter' \in Receivers \cup {None} /\ generation' \in 0..MaxWaits /\ busy' \in Receivers \cup {None}
    BY <1>0, <2>1, ChannelAssumption DEF TypeOK
  <2>3. rpc' \in [Receivers -> {"out", "suspend", "register", "waiting", "expired", "stopped",
                                "resume", "unwind"}]
    <3>1. CASE rpc' = [rpc EXCEPT ![r] = "waiting"]
      BY <1>0, <3>1 DEF TypeOK
    <3>2. CASE rpc' = [rpc EXCEPT ![r] = "resume"]
      BY <1>0, <3>2 DEF TypeOK
    <3> QED
      BY <2>1, <3>1, <3>2
  <2>4. phase' \in [Receivers -> {"pending", "suspended", "early", "ready"}]
    BY <1>0, <2>1 DEF TypeOK
  <2>5. result' \in [Receivers -> Slots \cup Statuses \cup {None}]
    <3>1. ASSUME NEW o \in Statuses, result' = [result EXCEPT ![r] = o]
          PROVE  result' \in [Receivers -> Slots \cup Statuses \cup {None}]
      BY <1>0, <3>1 DEF TypeOK
    <3>2. CASE result' = result
      BY <1>0, <3>2 DEF TypeOK
    <3> QED
      BY <2>1, <3>1, <3>2
  <2> QED
    BY <1>0, <2>1, <2>2, <2>3, <2>4, <2>5 DEF TypeOK, state, store, sends, stops
<1>11. CASE Expire(r)
  BY <1>0, <1>11 DEF TypeOK, Expire, RGoto, state, store, wait, sends, stops
<1>12. CASE RequestStop(r)
  BY <1>0, <1>12 DEF TypeOK, RequestStop, state, store, wait, sends, awaiter
<1>13. CASE StopCallback(r)
  <2>1. WaitTypes'
    BY <1>0, <1>13, CancelTypes DEF StopCallback
  <2> QED
    BY <1>0, <1>13, <2>1 DEF TypeOK, WaitTypes, StopCallback, state, store, sends
<1> QED
  BY <1>1, <1>2, <1>3, <1>4, <1>5, <1>6, <1>7, <1>8, <1>9, <1>10, <1>11, <1>12, <1>13
     DEF ReceiveStep

\* The steps of the worker and of the channel's ends.
LEMMA EndTypes ==
    ASSUME Core, StopTimers \/ CloseSender \/ RetireReceiver \/ Discard \/ WorkerCloses \/ WorkerStopping
    PROVE  TypeOK'
<1>0. TypeOK
  BY DEF Core
<1>1. CASE StopTimers
  <2>1. CASE UNCHANGED <<timer, busy, rpc>>
    BY <1>0, <1>1, <2>1 DEF TypeOK, StopTimers, store, wait, sends, stops
  <2>2. ASSUME NEW r \in Receivers, timer' = [timer EXCEPT ![r] = FALSE], busy' = r, RGoto(r, "stopped")
        PROVE  TypeOK'
    <3>1. /\ timer' \in [Receivers -> BOOLEAN] /\ busy' \in Receivers
          /\ rpc' \in [Receivers -> {"out", "suspend", "register", "waiting", "expired", "stopped",
                                     "resume", "unwind"}]
      BY <1>0, <2>2 DEF TypeOK, RGoto
    <3>2. timers_stopping' = TRUE /\ UNCHANGED <<lifecycle, receiver_closed, accepting, store, wait,
              sends, mygen, timed, phase, result, posted, stops, retiring, doomed, published, delivered>>
      BY <1>1 DEF StopTimers
    <3> QED
      BY <1>0, <3>1, <3>2 DEF TypeOK, store, wait, sends, stops
  <2> QED
    BY <1>1, <2>1, <2>2 DEF StopTimers
<1>2. CASE CloseSender \/ RetireReceiver
  <2>1. WaitTypes'
    <3>1. CASE lifecycle = "open"
      BY <1>0, <1>2, <3>1, AttachedTypes DEF CloseSender, RetireReceiver, Close, Statuses
    <3>2. CASE lifecycle # "open"
      BY <1>0, <1>2, <3>2 DEF CloseSender, RetireReceiver, Close, WaitTypes, TypeOK, wait
    <3> QED
      BY <3>1, <3>2
  <2>2. /\ lifecycle' \in {"open", "closed", "stopping"} /\ receiver_closed' \in BOOLEAN
        /\ retiring' \in BOOLEAN
    BY <1>0, <1>2 DEF TypeOK, CloseSender, RetireReceiver, Close
  <2>3. UNCHANGED <<accepting, timers_stopping, store, sends, busy, rpc, mygen, timed, stops, doomed,
                    published, delivered>>
    BY <1>2 DEF CloseSender, RetireReceiver, Close
  <2> QED
    BY <1>0, <2>1, <2>2, <2>3 DEF TypeOK, WaitTypes, store, sends, stops
<1>3. CASE DiscardPop
  <2>1. /\ Head(buffer) \in Slots /\ Tail(buffer) \in Seq(Slots)
        /\ Len(Tail(buffer)) = Len(buffer) - 1 /\ Len(buffer) \in Nat
    BY <1>0, <1>3, ChainTail DEF TypeOK, DiscardPop
  <2>2. Len(buffer') + reserved' <= Capacity
    BY <1>0, <1>3, <2>1 DEF TypeOK, DiscardPop
  <2> QED
    BY <1>0, <1>3, <2>1, <2>2 DEF TypeOK, DiscardPop, state, wait, sends, awaiter, stops
<1>4. CASE DiscardDestroy
  BY <1>0, <1>4 DEF TypeOK, DiscardDestroy, state, wait, sends, awaiter, stops
<1>5. CASE RetireDone
  BY <1>0, <1>5 DEF TypeOK, RetireDone, state, store, wait, sends, awaiter, stops
<1>6. CASE WorkerCloses
  BY <1>0, <1>6 DEF TypeOK, WorkerCloses, store, wait, sends, awaiter, stops
<1>7. CASE WorkerStopping
  <2>1. WaitTypes'
    BY <1>0, <1>7, AttachedTypes DEF WorkerStopping, Statuses
  <2> QED
    BY <1>0, <1>7, <2>1 DEF TypeOK, WaitTypes, WorkerStopping, store, sends, stops
<1> QED
  BY <1>1, <1>2, <1>3, <1>4, <1>5, <1>6, <1>7 DEF Discard
-----------------------------------------------------------------------------
(* All steps.                                                               *)

\* Every send keeps slots and waits.
LEMMA SendStep ==
    ASSUME Core, NEW s \in Senders, Reserve(s) \/ FillThrows(s) \/ Publish(s) \/ Reject(s)
    PROVE  Core'
<1>1. SlotsConserved'
  BY ReserveSlots, ReturnSlots, PublishSlots
<1>2. Waits'
  <2>1. ASSUME Reserve(s) \/ FillThrows(s) \/ Reject(s) PROVE Waits'
    <3>1. WaitsKept /\ UNCHANGED <<lifecycle, buffer, receiver_closed, retiring>>
      BY <2>1 DEF Reserve, FillThrows, Reject, WaitsKept, state, wait, awaiter, stops
    <3>2. NothingAfterRetire'
      BY <3>1 DEF Core, Waits, WaitsKept, NothingAfterRetire
    <3> QED
      BY <3>1, <3>2, KeptWaits
  <2> QED
    BY <2>1, PublishWaits
<1> QED
  BY <1>1, <1>2, SendTypes DEF Core

\* Every step of a receive keeps slots and waits.
LEMMA ReceiveKeeps ==
    ASSUME Core, NEW r \in Receivers,
           ReceiveBuffered(r) \/ ReceiveWait(r) \/ ReceiveStep(r) \/ Expire(r)
           \/ RequestStop(r) \/ StopCallback(r)
    PROVE  Core'
<1>0. TypeOK /\ ReceiveAt(r) /\ Attached
  BY DEF Core, Waits
<1>1. Waits'
  <2>1. ASSUME Expire(r) PROVE Waits'
    BY <2>1, DeadlineWaits DEF Expire, state, store, wait, stops
  <2> QED
    BY <2>1, ReceiveBufferedWaits, ReceiveWaitWaits, SuspendEndsWaits, SuspendWaits, RegisterWaits,
       RunPostedWaits, TakeResultWaits, UnwindWaits, TimerCompletedWaits, RequestStopWaits,
       StopCallbackWaits DEF ReceiveStep
<1>2. SlotsConserved'
  <2>1. ASSUME ReceiveWait(r) \/ SuspendThrows(r) \/ Suspend(r) \/ RunPosted(r) \/ Unwind(r)
               \/ Expire(r) \/ RequestStop(r)
        PROVE  SlotsConserved'
    <3>1. SlotsKept
      BY <2>1 DEF ReceiveWait, SuspendThrows, Suspend, RunPosted, Unwind, Expire, RequestStop,
                  SlotsKept, store, sends, awaiter
    <3> QED
      BY <3>1, KeptSlots
  <2>2. CASE ReceiveBuffered(r)
    BY <1>0, <2>2, HeadSlots DEF ReceiveBuffered, ReceiveAt, sends
  <2>3. CASE TakeResult(r)
    <3>1. CASE result[r] \in Slots
      BY <2>3, <3>1, EmptySlots DEF TakeResult, sends
    <3>2. CASE result[r] \notin Slots
      <4>1. /\ result' = [result EXCEPT ![r] = None]
            /\ UNCHANGED <<free, buffer, reserved, value, spc, snode, doomed>>
        BY <2>3, <3>2 DEF TakeResult, sends
      <4>2. result'[r] = None /\ \A q \in Receivers \ {r} : result'[q] = result[q]
        BY <1>0, <4>1 DEF TypeOK
      <4>3. SlotsConserved /\ Filling' = Filling
        BY <4>1 DEF Core, Filling
      <4>4. OneOwner'
        BY <4>1, <4>2, <4>3 DEF SlotsConserved, OneOwner
      <4>5. NoLeak' /\ SlotValues'
        BY <3>2, <4>1, <4>2, <4>3 DEF SlotsConserved, NoLeak, SlotValues
      <4> QED
        BY <4>1, <4>3, <4>4, <4>5 DEF SlotsConserved
    <3> QED
      BY <3>1, <3>2
  <2>4. ASSUME SuspendRefused(r) \/ TimerCompleted(r) PROVE SlotsConserved'
    <3>1. UNCHANGED <<free, buffer, reserved, value, spc, snode, doomed>>
      BY <2>4 DEF SuspendRefused, TimerCompleted, store, sends
    <3>2. \/ UNCHANGED result
          \/ waiter = r /\ \E o \in Statuses : result' = [result EXCEPT ![r] = o]
      BY <2>4 DEF SuspendRefused, TimerCompleted, Statuses
    <3>3. waiter = r => result[r] = None
      BY <1>0 DEF Attached
    <3> QED
      BY <3>1, <3>2, <3>3, KeptSlots, StatusSlots DEF SlotsKept
  <2>5. ASSUME Register(r) \/ StopCallback(r) PROVE SlotsConserved'
    <3>1. UNCHANGED <<free, buffer, reserved, value, spc, snode, doomed>>
      BY <2>5 DEF Register, StopCallback, store, sends
    <3>2. \/ UNCHANGED result
          \/ waiter # None /\ result' = [result EXCEPT ![waiter] = "cancelled"]
      BY <2>5 DEF Register, StopCallback, Cancel, CompleteAttached, Complete
    <3>3. waiter # None => waiter \in Receivers /\ result[waiter] = None
      BY <1>0 DEF Attached, TypeOK
    <3>4. "cancelled" \in Statuses
      BY DEF Statuses
    <3> QED
      BY <3>1, <3>2, <3>3, <3>4, KeptSlots, StatusSlots DEF SlotsKept
  <2> QED
    BY <2>1, <2>2, <2>3, <2>4, <2>5 DEF ReceiveStep
<1> QED
  BY <1>1, <1>2, ReceiveTypes DEF Core

\* The remaining steps keep slots and waits.
LEMMA EndStep ==
    ASSUME Core, StopTimers \/ CloseSender \/ RetireReceiver \/ Discard \/ WorkerCloses \/ WorkerStopping
    PROVE  Core'
<1>0. TypeOK /\ SlotsConserved /\ Attached /\ NothingAfterRetire
  BY DEF Core, Waits
<1>1. CASE StopTimers
  <2>1. SlotsKept /\ UNCHANGED <<lifecycle, receiver_closed, retiring>>
    BY <1>1 DEF StopTimers, SlotsKept, store, sends
  <2>2. CASE UNCHANGED <<timer, busy, rpc>>
    <3>1. WaitsKept /\ NothingAfterRetire'
      BY <1>0, <1>1, <2>1, <2>2 DEF StopTimers, WaitsKept, SlotsKept, NothingAfterRetire, wait, stops
    <3> QED
      BY <2>1, <3>1, KeptSlots, KeptWaits, EndTypes, <1>1 DEF Core, SlotsKept
  <2>3. ASSUME NEW r \in Receivers, timer[r], timer' = [timer EXCEPT ![r] = FALSE], busy' = r,
               RGoto(r, "stopped")
        PROVE  Core'
    <3>1. Waits'
      BY <1>1, <2>1, <2>3, DeadlineWaits DEF StopTimers, SlotsKept, wait, stops
    <3> QED
      BY <1>1, <2>1, <3>1, KeptSlots, EndTypes DEF Core
  <2> QED
    BY <1>1, <2>2, <2>3 DEF StopTimers
<1>2. CASE CloseSender \/ RetireReceiver \/ WorkerStopping
  <2>1. UNCHANGED <<free, buffer, reserved, value, spc, snode, doomed>>
    BY <1>2 DEF CloseSender, RetireReceiver, Close, WorkerStopping, store, sends
  <2>2. \/ UNCHANGED result
        \/ /\ waiter # None
           /\ \E o \in Statuses : result' = [result EXCEPT ![waiter] = o]
    BY <1>2 DEF CloseSender, RetireReceiver, Close, WorkerStopping, CompleteAttached, Complete, Statuses
  <2>3. waiter # None => waiter \in Receivers /\ result[waiter] = None
    BY <1>0 DEF Attached, TypeOK
  <2>4. SlotsConserved'
    BY <2>1, <2>2, <2>3, KeptSlots, StatusSlots DEF SlotsKept
  <2> QED
    BY <1>2, <2>4, CloseWaits, EndTypes DEF Core
<1>3. CASE DiscardPop
  <2>1. WaitsKept /\ UNCHANGED <<lifecycle, receiver_closed, retiring>> /\ retiring /\ buffer # << >>
    BY <1>3 DEF DiscardPop, WaitsKept, state, wait, awaiter, stops
  <2>2. waiter = None
    BY <1>0, <2>1 DEF Attached
  <2>3. NothingAfterRetire'
    BY <1>0, <2>1 DEF NothingAfterRetire, WaitsKept
  <2>4. Waits'
    BY <2>1, <2>2, <2>3, KeptWaits
  <2>5. SlotsConserved'
    BY <1>3, HeadSlots DEF DiscardPop, sends, awaiter
  <2> QED
    BY <1>3, <2>4, <2>5, EndTypes DEF Core, Discard
<1>4. CASE DiscardDestroy
  <2>1. WaitsKept /\ UNCHANGED <<lifecycle, receiver_closed, retiring, buffer>>
    BY <1>4 DEF DiscardDestroy, WaitsKept, state, wait, awaiter, stops
  <2>2. NothingAfterRetire'
    BY <1>0, <2>1 DEF NothingAfterRetire, WaitsKept
  <2>3. Waits'
    BY <2>1, <2>2, KeptWaits
  <2>4. doomed \in Slots
    BY <1>0, <1>4 DEF DiscardDestroy, TypeOK
  <2>5. SlotsConserved'
    BY <1>4, <2>4, EmptySlots DEF DiscardDestroy, sends, awaiter
  <2> QED
    BY <1>4, <2>3, <2>5, EndTypes DEF Core, Discard
<1>5. CASE RetireDone \/ WorkerCloses
  <2>1. WaitsKept /\ SlotsKept /\ UNCHANGED lifecycle
    BY <1>5 DEF RetireDone, WorkerCloses, WaitsKept, SlotsKept, state, store, wait, sends, awaiter, stops
  <2>2. NothingAfterRetire'
    BY <1>0, <1>5, <2>1 DEF RetireDone, WorkerCloses, NothingAfterRetire, WaitsKept, SlotsKept, state
  <2> QED
    BY <1>5, <2>1, <2>2, KeptSlots, KeptWaits, EndTypes DEF Core, SlotsKept, Discard
<1> QED
  BY <1>1, <1>2, <1>3, <1>4, <1>5 DEF Discard

\* The inductive step.
LEMMA CoreStep == Core /\ [Next]_vars => Core'
<1> SUFFICES ASSUME Core, [Next]_vars PROVE Core'
  OBVIOUS
<1>1. CASE UNCHANGED vars
  <2>1. WaitsKept /\ SlotsKept /\ UNCHANGED <<lifecycle, receiver_closed, retiring>>
    BY <1>1 DEF vars, WaitsKept, SlotsKept, state, store, wait, sends, awaiter, stops
  <2>2. NothingAfterRetire'
    BY <2>1 DEF Core, Waits, NothingAfterRetire, WaitsKept, SlotsKept
  <2>3. TypeOK'
    BY <1>1 DEF Core, TypeOK, vars, state, store, wait, sends, awaiter, stops
  <2> QED
    BY <2>1, <2>2, <2>3, KeptSlots, KeptWaits DEF Core, SlotsKept
<1> QED
  BY <1>1, SendStep, ReceiveKeeps, EndStep DEF Next
-----------------------------------------------------------------------------
(* The order of delivery.                                                   *)

\* Steps that neither publish nor deliver, and leave what is buffered alone
\* unless the receiver is closed.
LEMMA OrderKept ==
    ASSUME Core, DeliveredInOrder, UNCHANGED <<published, delivered>>,
           ~receiver_closed' =>
               /\ ~receiver_closed /\ UNCHANGED buffer
               /\ \A n \in Elems(buffer) : value'[n] = value[n]
    PROVE  DeliveredInOrder'
<1>1. \A i \in 1..Len(buffer) : buffer[i] \in Elems(buffer)
  BY DEF Elems
<1> QED
  BY <1>1 DEF DeliveredInOrder

\* A publication goes to the waiter only when nothing is buffered before it.
LEMMA OrderPublish ==
    ASSUME Core, DeliveredInOrder, NEW s \in Senders, Publish(s)
    PROVE  DeliveredInOrder'
<1> DEFINE n == snode[s]
<1>1. TypeOK /\ SlotsConserved /\ Attached /\ NothingAfterRetire
  BY DEF Core, Waits
<1>2. PICK v \in Values :
        /\ value' = [value EXCEPT ![n] = v]
        /\ \/ UNCHANGED <<buffer, published, delivered>>
           \/ /\ ~Refuses /\ published' = Append(published, v)
              /\ \/ waiter # None /\ delivered' = Append(delivered, v) /\ UNCHANGED buffer
                 \/ waiter = None /\ buffer' = Append(buffer, n) /\ UNCHANGED delivered
  BY DEF Publish
<1>3. n \in Slots /\ n \notin Elems(buffer) /\ UNCHANGED receiver_closed
  BY <1>1 DEF Publish, SlotsConserved, OneOwner, TypeOK, state
<1>4. /\ buffer \in Seq(Slots) /\ published \in Seq(Values) /\ delivered \in Seq(Values)
      /\ Elems(buffer) \subseteq Slots /\ value \in [Slots -> Values \cup {None}]
  BY <1>1 DEF TypeOK, Elems
<1> HIDE DEF n
<1>5. value'[n] = v /\ \A m \in Elems(buffer) : value'[m] = value[m]
  BY <1>2, <1>3, <1>4
<1>6. CASE UNCHANGED <<buffer, published, delivered>>
  BY <1>3, <1>5, <1>6, OrderKept
<1>7. ASSUME ~Refuses, published' = Append(published, v)
      PROVE  /\ ~receiver_closed
             /\ Len(published) \in Nat /\ Len(delivered) \in Nat /\ Len(buffer) \in Nat
             /\ Len(published) = Len(delivered) + Len(buffer)
             /\ Len(published') = Len(published) + 1
             /\ \A i \in 1..Len(published) : published'[i] = published[i]
             /\ published'[Len(published) + 1] = v
             /\ \A i \in 1..Len(delivered) : delivered[i] = published[i]
             /\ \A i \in 1..Len(buffer) : value[buffer[i]] = published[Len(delivered) + i]
  <2>1. ~receiver_closed
    BY <1>1, <1>7 DEF Refuses, NothingAfterRetire
  <2> QED
    BY <1>4, <1>7, <2>1 DEF DeliveredInOrder
<1>8. CASE /\ ~Refuses /\ published' = Append(published, v)
           /\ waiter # None /\ delivered' = Append(delivered, v) /\ UNCHANGED buffer
  <2>1. Len(buffer) = 0 /\ Len(published) = Len(delivered)
    BY <1>1, <1>7, <1>8 DEF Attached
  <2>2. /\ Len(delivered') = Len(delivered) + 1 /\ delivered'[Len(delivered) + 1] = v
        /\ \A i \in 1..Len(delivered) : delivered'[i] = delivered[i]
    BY <1>4, <1>8
  <2>3. ASSUME NEW i \in 1..Len(delivered') PROVE delivered'[i] = published'[i]
    <3>1. i = Len(delivered) + 1 \/ i \in 1..Len(delivered)
      BY <1>7, <1>8, <2>2
    <3> QED
      BY <1>7, <1>8, <2>1, <2>2, <3>1
  <2> QED
    BY <1>7, <1>8, <2>1, <2>2, <2>3 DEF DeliveredInOrder
<1>9. CASE /\ ~Refuses /\ published' = Append(published, v)
           /\ waiter = None /\ buffer' = Append(buffer, n) /\ UNCHANGED delivered
  <2>1. /\ Len(buffer') = Len(buffer) + 1 /\ buffer'[Len(buffer) + 1] = n
        /\ \A i \in 1..Len(buffer) : buffer'[i] = buffer[i] /\ buffer[i] \in Elems(buffer)
    BY <1>3, <1>4, <1>9 DEF Elems
  <2>2. \A i \in 1..Len(delivered) : delivered'[i] = published'[i]
    BY <1>7, <1>9
  <2>3. ASSUME NEW i \in 1..Len(buffer') PROVE value'[buffer'[i]] = published'[Len(delivered') + i]
    <3>1. CASE i = Len(buffer) + 1
      <4>1. Len(delivered') + i = Len(published) + 1
        <5>1. /\ Len(published) = Len(delivered) + Len(buffer)
              /\ Len(delivered) \in Nat /\ Len(buffer) \in Nat
          BY <1>7, <1>9
        <5>2. delivered' = delivered
          BY <1>9
        <5> QED
          BY <3>1, <5>1, <5>2
      <4>2. published'[Len(published) + 1] = v
        BY <1>7, <1>9
      <4>3. buffer'[i] = n /\ value'[n] = v
        BY <1>5, <2>1, <3>1
      <4> QED
        BY <4>1, <4>2, <4>3
    <3>2. CASE i # Len(buffer) + 1
      <4>1. i \in 1..Len(buffer) /\ Len(delivered) + i \in 1..Len(published)
        BY <1>7, <1>9, <2>1, <3>2
      <4>2. buffer'[i] = buffer[i] /\ value'[buffer[i]] = value[buffer[i]]
        BY <1>5, <2>1, <4>1
      <4>3. value[buffer[i]] = published[Len(delivered) + i]
        BY <1>7, <1>9, <4>1
      <4>4. published'[Len(delivered) + i] = published[Len(delivered) + i]
        BY <1>7, <1>9, <4>1
      <4> QED
        BY <1>9, <4>2, <4>3, <4>4
    <3> QED
      BY <3>1, <3>2
  <2> QED
    BY <1>7, <1>9, <2>1, <2>2, <2>3 DEF DeliveredInOrder
<1> QED
  BY <1>2, <1>6, <1>8, <1>9

\* A receive takes the oldest value not yet delivered.
LEMMA OrderReceive ==
    ASSUME Core, DeliveredInOrder, NEW r \in Receivers, ReceiveBuffered(r)
    PROVE  DeliveredInOrder'
<1>1. /\ buffer \in Seq(Slots) /\ published \in Seq(Values) /\ delivered \in Seq(Values)
      /\ value \in [Slots -> Values \cup {None}]
  BY DEF Core, TypeOK
<1>2. /\ buffer # << >> /\ ~receiver_closed /\ buffer' = Tail(buffer)
      /\ delivered' = Append(delivered, value[Head(buffer)])
      /\ UNCHANGED <<published, value, receiver_closed>>
  BY DEF ReceiveBuffered, state
<1>3. /\ Len(buffer) \in Nat /\ Len(buffer) >= 1 /\ Len(delivered) \in Nat /\ Head(buffer) = buffer[1]
      /\ Len(buffer') = Len(buffer) - 1
      /\ \A i \in 1..(Len(buffer) - 1) : buffer'[i] = buffer[i + 1]
  BY <1>1, <1>2
<1>4. /\ Len(published) = Len(delivered) + Len(buffer)
      /\ \A i \in 1..Len(delivered) : delivered[i] = published[i]
      /\ \A i \in 1..Len(buffer) : value[buffer[i]] = published[Len(delivered) + i]
  BY <1>2 DEF DeliveredInOrder
<1>5. value[Head(buffer)] = published[Len(delivered) + 1] /\ value[Head(buffer)] \in Values
  <2>1. 1 \in 1..Len(buffer) /\ Len(delivered) + 1 \in 1..Len(published)
    BY <1>3, <1>4
  <2> QED
    BY <1>1, <1>3, <1>4, <2>1
<1>6. /\ Len(delivered') = Len(delivered) + 1 /\ delivered'[Len(delivered) + 1] = value[Head(buffer)]
      /\ \A i \in 1..Len(delivered) : delivered'[i] = delivered[i]
  BY <1>1, <1>2, <1>5
<1>7. ASSUME NEW i \in 1..Len(delivered') PROVE delivered'[i] = published'[i]
  <2>1. i = Len(delivered) + 1 \/ i \in 1..Len(delivered)
    BY <1>3, <1>6
  <2> QED
    BY <1>2, <1>4, <1>5, <1>6, <2>1
<1>8. ASSUME NEW i \in 1..Len(buffer') PROVE value'[buffer'[i]] = published'[Len(delivered') + i]
  <2>1. i \in 1..(Len(buffer) - 1) /\ i + 1 \in 1..Len(buffer)
    BY <1>3
  <2>2. value[buffer[i + 1]] = published[Len(delivered) + (i + 1)]
    BY <1>4, <2>1
  <2>3. Len(delivered) + (i + 1) = Len(delivered') + i
    BY <1>3, <1>6
  <2> QED
    BY <1>2, <1>3, <2>1, <2>2, <2>3
<1>9. Len(published') = Len(delivered') + Len(buffer') /\ Len(delivered') <= Len(published')
  BY <1>2, <1>3, <1>4, <1>6
<1> QED
  BY <1>7, <1>8, <1>9 DEF DeliveredInOrder

\* Every step keeps the order.
LEMMA OrderStep == Core /\ DeliveredInOrder /\ [Next]_vars => DeliveredInOrder'
<1> SUFFICES ASSUME Core, DeliveredInOrder, [Next]_vars PROVE DeliveredInOrder'
  OBVIOUS
<1>0. TypeOK /\ OneOwner /\ Elems(buffer) \subseteq Slots /\ NothingAfterRetire
  BY DEF Core, SlotsConserved, TypeOK, Elems, Waits
<1> DEFINE Kept == UNCHANGED <<published, delivered, buffer, value, receiver_closed>>
<1>1. ASSUME Kept PROVE DeliveredInOrder'
  BY <1>1, OrderKept
<1>2. ASSUME NEW n \in Slots, value' = [value EXCEPT ![n] = None], n \notin Elems(buffer),
             UNCHANGED <<published, delivered, buffer, receiver_closed>>
      PROVE  DeliveredInOrder'
  <2>1. \A m \in Elems(buffer) : value'[m] = value[m]
    BY <1>0, <1>2 DEF TypeOK
  <2> QED
    BY <1>2, <2>1, OrderKept
<1>3. ASSUME NEW s \in Senders, Reserve(s) \/ FillThrows(s) \/ Publish(s) \/ Reject(s)
      PROVE  DeliveredInOrder'
  <2>1. Reserve(s) \/ FillThrows(s) => Kept
    BY DEF Reserve, FillThrows, state
  <2>2. CASE Reject(s)
    <3>1. snode[s] \in Slots /\ snode[s] # None
      BY <1>0, <2>2 DEF Reject, Core, SlotsConserved, TypeOK
    <3>2. snode[s] \notin Elems(buffer)
      BY <1>0, <3>1 DEF OneOwner
    <3> QED
      BY <1>2, <2>2, <3>1, <3>2 DEF Reject, state
  <2> QED
    BY <1>1, <1>3, <2>1, <2>2, OrderPublish
<1>4. ASSUME NEW r \in Receivers,
             ReceiveBuffered(r) \/ ReceiveWait(r) \/ ReceiveStep(r) \/ Expire(r)
             \/ RequestStop(r) \/ StopCallback(r)
      PROVE  DeliveredInOrder'
  <2>1. ReceiveWait(r) \/ SuspendRefused(r) \/ SuspendThrows(r) \/ Suspend(r) \/ Register(r) => Kept
    BY DEF ReceiveWait, SuspendRefused, SuspendThrows, Suspend, Register, state, store
  <2>2. RunPosted(r) \/ Unwind(r) \/ TimerCompleted(r) \/ Expire(r) \/ RequestStop(r) \/ StopCallback(r) => Kept
    BY DEF RunPosted, Unwind, TimerCompleted, Expire, RequestStop, StopCallback, state, store
  <2>3. CASE TakeResult(r)
    <3>1. CASE result[r] \in Slots
      <4>1. result[r] \notin Elems(buffer) /\ result[r] # None
        BY <1>0, <3>1 DEF OneOwner
      <4> QED
        BY <1>2, <2>3, <3>1, <4>1 DEF TakeResult, state
    <3>2. CASE result[r] \notin Slots
      BY <1>1, <2>3, <3>2 DEF TakeResult, state
    <3> QED
      BY <3>1, <3>2
  <2> QED
    BY <1>1, <1>4, <2>1, <2>2, <2>3, OrderReceive DEF ReceiveStep
<1>5. ASSUME StopTimers \/ CloseSender \/ RetireReceiver \/ Discard \/ WorkerCloses \/ WorkerStopping
      PROVE  DeliveredInOrder'
  <2>1. StopTimers \/ RetireDone \/ WorkerCloses \/ WorkerStopping => Kept
    BY DEF StopTimers, RetireDone, WorkerCloses, WorkerStopping, state, store
  <2>2. ASSUME CloseSender \/ RetireReceiver PROVE DeliveredInOrder'
    <3>1. UNCHANGED <<published, delivered, buffer, value>> /\ (receiver_closed => receiver_closed')
      BY <2>2 DEF CloseSender, RetireReceiver, Close, store
    <3> QED
      BY <3>1, OrderKept
  <2>3. CASE DiscardPop
    <3>1. UNCHANGED <<published, delivered, receiver_closed>> /\ retiring
      BY <2>3 DEF DiscardPop, state
    <3>2. receiver_closed
      BY <3>1 DEF Core, Waits, NothingAfterRetire
    <3> QED
      BY <3>1, <3>2, OrderKept
  <2>4. CASE DiscardDestroy
    <3>1. doomed \in Slots /\ doomed \notin Elems(buffer)
      BY <1>0, <2>4 DEF DiscardDestroy, TypeOK, OneOwner
    <3> QED
      BY <1>2, <2>4, <3>1 DEF DiscardDestroy, state
  <2> QED
    BY <1>1, <1>5, <2>1, <2>2, <2>3, <2>4 DEF Discard
<1>6. UNCHANGED vars => Kept
  BY DEF vars, state, store
<1> QED
  BY <1>1, <1>3, <1>4, <1>5, <1>6 DEF Next
-----------------------------------------------------------------------------
(* The theorems.                                                            *)

\* Both parts are invariant together.
LEMMA CoreInvariant == Spec => [](Core /\ DeliveredInOrder)
<1>1. Init => DeliveredInOrder
  BY DEF Init, DeliveredInOrder
<1> QED
  BY <1>1, CoreInit, CoreStep, OrderStep, PTL DEF Spec

\* No slot of the channel is lost or owned twice, no receive waits beside a
\* value, a stop or a close meant for it, and each is resumed once (channel.h,
\* worker_wait_awaiter.h).
THEOREM ChannelInvariant == Spec => []ChannelInv
BY CoreInvariant, CoreIs, PTL

\* Values arrive in the order their sends published them (channel.h).
THEOREM OrderInvariant == Spec => []DeliveredInOrder
BY CoreInvariant, PTL
=============================================================================
