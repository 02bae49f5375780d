--------------------------- MODULE EventLoopProofs ---------------------------
(***************************************************************************)
(* The shutdown batch and the retirement of an attached event loop, for    *)
(* any set of hooks, roots and cleanups.  The registry and its walk are    *)
(* proved first, on ShutdownHooks alone; every step of the loop is a step  *)
(* of the registry or leaves it alone, so that what the walk guarantees    *)
(* carries over, and the gate is proved over it.  The notification that    *)
(* wakes a worker is proved last, on its own.                              *)
(***************************************************************************)
EXTENDS EventLoop, WorkerNotification, ChainLemmas

HookCore ==
    /\ TypeOK /\ PinnedIsLinked /\ NothingLinkedOnceDetached
    /\ Registering /\ WalkAt /\ WalkHeard /\ WaitersOnce

\* Who has heard both phases has heard all there is.
LEMMA HookCoreInv == HookCore => HookInv
<1> SUFFICES ASSUME HookCore PROVE NoHookMissed
  BY DEF HookCore, HookInv
<1>1. \A h \in Listening : h \in Hooks /\ heard[h] \subseteq Phases
  BY DEF HookCore, TypeOK, Listening, Elems
<1>2. stage \in {"finish", "notify", "done"} => Heard("stopping") /\ Heard("stopping_complete")
  BY DEF HookCore, WalkHeard
<1> QED
  BY <1>1, <1>2 DEF NoHookMissed, Heard, Phases

-----------------------------------------------------------------------------
(* Where the walk goes.                                                     *)

\* first_live() finds the first owner alive, if there is one.
LEMMA FirstLiveIs ==
    ASSUME NEW s \in Seq(Hooks)
    PROVE  \/ FirstLive(s) = None /\ \A i \in 1..Len(s) : life[s[i]] # "live"
           \/ \E i \in 1..Len(s) : /\ FirstLive(s) = s[i] /\ life[s[i]] = "live"
                                   /\ \A j \in 1..(i - 1) : life[s[j]] # "live"
<1> DEFINE K == {h \in Hooks : life[h] = "live"}
           First(i) == life[s[i]] = "live" /\ \A j \in 1..(i - 1) : life[s[j]] # "live"
<1>1. CASE \A i \in 1..Len(s) : life[s[i]] # "live"
  BY <1>1 DEF FirstLive
<1>2. CASE \E i \in 1..Len(s) : life[s[i]] = "live"
  <2>1. PICK i \in 1..Len(s) : life[s[i]] = "live"
    BY <1>2
  <2>2. s[i] \in K
    BY <2>1
  <2>3. PICK k \in 1..Len(s) : s[k] \in K /\ \A j \in 1..(k - 1) : s[j] \notin K
    BY <2>2, ChainFirst
  <2>4. \A j \in 1..(k - 1) : j \in 1..Len(s) /\ s[j] \in Hooks
    BY <2>3
  <2>5. First(k)
    BY <2>3, <2>4
  <2>6. FirstLive(s) = s[CHOOSE m \in 1..Len(s) : First(m)]
    BY <1>2 DEF FirstLive
  <2> DEFINE m == CHOOSE m \in 1..Len(s) : First(m)
  <2>7. m \in 1..Len(s) /\ First(m)
    BY <2>5
  <2> QED
    BY <2>6, <2>7
<1> QED
  BY <1>1, <1>2

\* What is behind the k-th hook of the registry.
LEMMA BehindIs ==
    ASSUME hooks \in Seq(Hooks), Distinct(hooks), NEW k \in 1..Len(hooks)
    PROVE  /\ Behind(hooks[k]) \in Seq(Hooks)
           /\ Len(Behind(hooks[k])) = Len(hooks) - k
           /\ \A i \in 1..(Len(hooks) - k) : Behind(hooks[k])[i] = hooks[k + i]
<1> DEFINE n == Len(hooks)
           after == {i \in 1..n : \E j \in 1..(i - 1) : hooks[j] = hooks[k]}
<1>1. n \in Nat /\ k \in Nat /\ k >= 1 /\ k <= n
  OBVIOUS
<1>2. after = (k + 1)..n
  <2>1. ASSUME NEW i \in after PROVE i \in (k + 1)..n
    <3>1. PICK j \in 1..(i - 1) : hooks[j] = hooks[k]
      BY <2>1
    <3>2. j \in 1..n /\ j < i
      BY <1>1, <2>1
    <3>3. j = k
      BY <3>1, <3>2 DEF Distinct
    <3> QED
      BY <1>1, <2>1, <3>2, <3>3
  <2>2. ASSUME NEW i \in (k + 1)..n PROVE i \in after
    BY <1>1, k \in 1..(i - 1)
  <2> QED
    BY <2>1, <2>2
<1>3. Cardinality(after) = n - k
  <2>1. Cardinality((k + 1)..n) = n - k
    <3>1. CASE k + 1 > n
      BY <1>1, <3>1, FS_Interval
    <3>2. CASE k + 1 <= n
      BY <1>1, <3>2, FS_Interval
    <3> QED
      BY <1>1, <3>1, <3>2
  <2> QED
    BY <1>2, <2>1
<1>4. Behind(hooks[k]) = SubSeq(hooks, k + 1, n)
  <2>1. Behind(hooks[k]) = SubSeq(hooks, n + 1 - Cardinality(after), n)
    BY DEF Behind
  <2>2. n + 1 - Cardinality(after) = k + 1
    BY <1>1, <1>3
  <2> QED
    BY <2>1, <2>2
<1>5. \A i \in (k + 1)..n : hooks[i] \in Hooks
  BY <1>1
<1>6. SubSeq(hooks, k + 1, n) \in Seq(Hooks) /\ Len(SubSeq(hooks, k + 1, n)) = n - k
  BY <1>1, <1>5, SubSeqProperties
<1>7. \A i \in 1..(n - k) : SubSeq(hooks, k + 1, n)[i] = hooks[k + i]
  BY <1>1, <1>5, SubSeqProperties
<1> QED
  BY <1>4, <1>6, <1>7

\* Nothing is behind a hook that is not linked.
LEMMA BehindNothing ==
    ASSUME hooks \in Seq(Hooks), NEW h, h \notin Elems(hooks)
    PROVE  Behind(h) = << >>
<1> DEFINE after == {i \in 1..Len(hooks) : \E j \in 1..(i - 1) : hooks[j] = h}
<1>1. after = {}
  BY DEF Elems
<1>2. Cardinality(after) = 0
  BY <1>1, FS_EmptySet
<1>3. Behind(h) = SubSeq(hooks, Len(hooks) + 1 - Cardinality(after), Len(hooks))
  BY DEF Behind
<1> HIDE DEF after
<1> QED
  BY <1>2, <1>3

\* The next stop of the walk: the next owner alive behind the k-th, or none.
LEMMA NextStop ==
    ASSUME hooks \in Seq(Hooks), Distinct(hooks), NEW k \in 1..Len(hooks)
    PROVE  \/ /\ FirstLive(Behind(hooks[k])) = None
              /\ \A j \in 1..Len(hooks) : k < j => life[hooks[j]] # "live"
           \/ \E m \in 1..Len(hooks) :
                /\ k < m /\ FirstLive(Behind(hooks[k])) = hooks[m] /\ life[hooks[m]] = "live"
                /\ \A j \in 1..Len(hooks) : k < j /\ j < m => life[hooks[j]] # "live"
<1> DEFINE b == Behind(hooks[k])
<1>1. /\ b \in Seq(Hooks) /\ Len(b) = Len(hooks) - k
      /\ \A i \in 1..(Len(hooks) - k) : b[i] = hooks[k + i]
  BY BehindIs
<1>2. \A j \in 1..Len(hooks) : k < j => j - k \in 1..Len(b) /\ k + (j - k) = j /\ b[j - k] = hooks[j]
  <2>1. \A j \in 1..Len(hooks) : k < j => j - k \in 1..(Len(hooks) - k) /\ k + (j - k) = j
    OBVIOUS
  <2> QED
    BY <1>1, <2>1
<1> HIDE DEF b
<1>3. CASE FirstLive(b) = None /\ \A i \in 1..Len(b) : life[b[i]] # "live"
  BY <1>2, <1>3 DEF b
<1>4. ASSUME NEW i \in 1..Len(b), FirstLive(b) = b[i], life[b[i]] = "live",
             \A j \in 1..(i - 1) : life[b[j]] # "live"
      PROVE  \E m \in 1..Len(hooks) :
                /\ k < m /\ FirstLive(b) = hooks[m] /\ life[hooks[m]] = "live"
                /\ \A j \in 1..Len(hooks) : k < j /\ j < m => life[hooks[j]] # "live"
  <2>1. k + i \in 1..Len(hooks) /\ k < k + i /\ b[i] = hooks[k + i]
    BY <1>1
  <2>2. ASSUME NEW j \in 1..Len(hooks), k < j, j < k + i PROVE life[hooks[j]] # "live"
    <3>1. j - k \in 1..(i - 1) /\ b[j - k] = hooks[j]
      BY <1>1, <1>2, <2>2
    <3> QED
      BY <1>4, <3>1
  <2> QED
    BY <1>4, <2>1, <2>2
<1> QED
  BY <1>1, <1>3, <1>4, FirstLiveIs DEF b

-----------------------------------------------------------------------------
(* The registry, step by step.                                              *)

\* Nothing is linked, pinned or parked at the start.
LEMMA HookInit ==
    ASSUME NEW linked \in Seq(Hooks), Distinct(linked), InitLinked(linked)
    PROVE  HookCore
<1>1. Elems(linked) \subseteq Hooks
  BY DEF Elems
<1>2. TypeOK
  <2>1. parked \in Seq(Waiters) /\ taken \in Seq(Waiters)
    BY DEF InitLinked
  <2>2. hooks \in Seq(Hooks) /\ Distinct(hooks)
    BY DEF InitLinked
  <2>3. life \in [Hooks -> {"none", "live", "expired", "gone"}] /\ heard \in [Hooks -> SUBSET Phases]
    BY DEF InitLinked
  <2> QED
    BY <1>1, <2>1, <2>2, <2>3 DEF InitLinked, TypeOK
<1>3. Registering
  <2>1. \A h \in Elems(linked) : life[h] = "live"
    BY <1>1 DEF InitLinked
  <2> QED
    BY <2>1 DEF InitLinked, Registering
<1>4. \A h \in Elems(linked) : h # None
  BY <1>1, HooksAssumption
<1>5. WalkHeard
  BY <1>4 DEF InitLinked, WalkHeard, Phases, Elems
<1> QED
  BY <1>2, <1>3, <1>5, ChainEmpty
     DEF InitLinked, HookCore, PinnedIsLinked, NothingLinkedOnceDetached, WalkAt, WaitersOnce, Phases

\* The walk's view survives an owner that dies, is unlinked or is not linked yet.
LEMMA KeptHeard ==
    ASSUME WalkHeard, UNCHANGED <<stage, pin, unpin, heard>>,
           \A i, j \in 1..Len(hooks') : i < j =>
               \E p, q \in 1..Len(hooks) : p < q /\ hooks'[i] = hooks[p] /\ hooks'[j] = hooks[q],
           \A h \in Elems(hooks') : h \in Elems(hooks) /\ (life'[h] = "live" => life[h] = "live"),
           Len(hooks') \in Nat
    PROVE  WalkHeard'
<1>1. Listening' \subseteq Listening
  BY DEF Listening
<1>2. ASSUME NEW i \in 1..Len(hooks'), NEW j \in 1..Len(hooks'), pin = hooks'[i]
      PROVE  /\ j < i /\ life'[hooks'[j]] = "live" => stage \in heard[hooks'[j]]
             /\ i < j => stage \notin heard[hooks'[j]]
  <2>1. ASSUME j < i, life'[hooks'[j]] = "live" PROVE stage \in heard[hooks'[j]]
    <3>1. PICK p, q \in 1..Len(hooks) : p < q /\ hooks'[j] = hooks[p] /\ hooks'[i] = hooks[q]
      BY <2>1
    <3>2. life[hooks[p]] = "live"
      BY <2>1, <3>1 DEF Elems
    <3> QED
      BY <1>2, <3>1, <3>2 DEF WalkHeard
  <2>2. ASSUME i < j PROVE stage \notin heard[hooks'[j]]
    <3>1. PICK p, q \in 1..Len(hooks) : p < q /\ hooks'[i] = hooks[p] /\ hooks'[j] = hooks[q]
      BY <2>2
    <3> QED
      BY <1>2, <3>1 DEF WalkHeard
  <2> QED
    BY <2>1, <2>2
<1> QED
  BY <1>1, <1>2 DEF WalkHeard, Heard

\* The same, with the registry unchanged.
LEMMA SameHeard ==
    ASSUME WalkHeard, TypeOK, UNCHANGED <<stage, pin, unpin, heard, hooks>>,
           \A h \in Elems(hooks) : life'[h] = "live" => life[h] = "live"
    PROVE  WalkHeard'
<1>1. Len(hooks) \in Nat
  BY DEF TypeOK
<1> QED
  BY <1>1, KeptHeard

\* A registration takes the mutex only if it saw accepting_.
LEMMA RegisterTestKeeps == ASSUME HookCore, NEW h \in Hooks, RegisterTest(h) PROVE HookCore'
<1>1. TypeOK /\ Registering /\ WalkHeard
  BY DEF HookCore
<1>2. /\ life[h] = "none" /\ mutex = None /\ accepting /\ mutex' = h /\ life' = [life EXCEPT ![h] = "live"]
      /\ UNCHANGED <<accepting, attached, active, parked, taken, hooks, stage, pin, told, unpin,
                     detaching, heard, called>>
  BY DEF RegisterTest, batch
<1>3. h \notin Elems(hooks) /\ h # None
  BY <1>1, <1>2, HooksAssumption DEF Registering
<1>4. TypeOK'
  BY <1>1, <1>2 DEF TypeOK, RegisterTest
<1>5. \A g \in Elems(hooks) : g \in Hooks /\ life'[g] = life[g]
  BY <1>1, <1>2, <1>3 DEF TypeOK, Elems
<1>6. WalkHeard'
  BY <1>1, <1>2, <1>5, SameHeard
<1>7. Registering'
  BY <1>1, <1>2, <1>3, <1>5 DEF Registering, TypeOK
<1>8. PinnedIsLinked'
  BY <1>1, <1>2 DEF HookCore, PinnedIsLinked, Registering, WalkAt, Phases
<1> QED
  BY <1>2, <1>4, <1>6, <1>7, <1>8 DEF HookCore, NothingLinkedOnceDetached, WalkAt, WaitersOnce

\* A linked hook is at the tail, where the walk has still to come.
LEMMA RegisterLinkKeeps == ASSUME HookCore, NEW h \in Hooks, RegisterLink(h) PROVE HookCore'
<1>1. TypeOK /\ Registering /\ WalkHeard /\ WalkAt /\ h # None
  BY HooksAssumption DEF HookCore
<1>2. /\ mutex = h /\ hooks' = Append(hooks, h) /\ mutex' = None
      /\ UNCHANGED <<accepting, attached, active, parked, taken, life, owned, stage, pin, told, unpin,
                     detaching, heard, called>>
  BY DEF RegisterLink, batch
<1>3. h \notin Elems(hooks) /\ life[h] = "live" /\ pin = None /\ unpin = None /\ (attached \/ detaching)
      /\ stage \in {"none", "stopping"}
  BY <1>1, <1>2 DEF Registering, WalkAt, Phases
<1>4. hooks' \in Seq(Hooks) /\ Elems(hooks') = Elems(hooks) \cup {h} /\ Distinct(hooks')
  <2>1. hooks \in Seq(Hooks) /\ Distinct(hooks)
    BY <1>1 DEF TypeOK
  <2> QED
    BY <1>2, <1>3, <2>1, ChainAppend
<1>5. TypeOK'
  BY <1>1, <1>2, <1>4 DEF TypeOK
<1>6. \A i \in 1..Len(hooks') : hooks'[i] # None
  BY <1>4, HooksAssumption
<1>7. WalkHeard'
  BY <1>1, <1>2, <1>3, <1>6 DEF WalkHeard
<1>8. Registering'
  BY <1>1, <1>2, <1>3, <1>4 DEF Registering
<1> QED
  BY <1>2, <1>3, <1>5, <1>7, <1>8
     DEF HookCore, PinnedIsLinked, NothingLinkedOnceDetached, WalkAt, WaitersOnce

\* An owner dies at its release, unless the walk has it pinned.
LEMMA ReleaseKeeps == ASSUME HookCore, NEW h \in Hooks, Release(h) PROVE HookCore'
<1>1. TypeOK /\ Registering /\ WalkHeard
  BY DEF HookCore
<1>2. /\ mutex # h /\ (life' = life \/ (h # pin /\ h # unpin /\ life' = [life EXCEPT ![h] = "expired"]))
      /\ UNCHANGED <<accepting, attached, active, parked, taken, hooks, mutex, stage, pin, told, unpin,
                     detaching, heard, called>>
  BY DEF Release, batch
<1>3. \A g \in Hooks : /\ life'[g] = "live" => life[g] = "live"
                       /\ life'[g] = "none" => life[g] = "none"
                       /\ g = mutex \/ g = pin => life'[g] = life[g]
  BY <1>1, <1>2 DEF TypeOK
<1>4. TypeOK'
  <2>1. life' \in [Hooks -> {"none", "live", "expired", "gone"}]
    BY <1>1, <1>2 DEF TypeOK
  <2>2. owned' \subseteq Hooks
    BY <1>1 DEF TypeOK, Release
  <2> QED
    BY <1>1, <1>2, <2>1, <2>2 DEF TypeOK
<1>5. Elems(hooks) \subseteq Hooks
  BY <1>1 DEF TypeOK, Elems
<1>6. WalkHeard'
  BY <1>1, <1>2, <1>3, <1>5, SameHeard
<1>7. Registering'
  BY <1>1, <1>2, <1>3, <1>5 DEF Registering, TypeOK
<1>8. PinnedIsLinked'
  BY <1>1, <1>2, <1>3 DEF HookCore, PinnedIsLinked, TypeOK
<1> QED
  BY <1>2, <1>4, <1>6, <1>7, <1>8 DEF HookCore, NothingLinkedOnceDetached, WalkAt, WaitersOnce

\* Unlinking a dead owner moves no other.
LEMMA UnlinkKeeps == ASSUME HookCore, NEW h \in Hooks, Unlink(h) PROVE HookCore'
<1>1. TypeOK /\ Registering /\ WalkHeard /\ PinnedIsLinked
  BY DEF HookCore
<1>2. /\ life[h] = "expired" /\ mutex = None /\ hooks' = Without(hooks, h)
      /\ life' = [life EXCEPT ![h] = "gone"]
      /\ UNCHANGED <<accepting, attached, active, parked, taken, mutex, owned, stage, pin, told, unpin,
                     detaching, heard, called>>
  BY DEF Unlink, batch
<1>3. hooks' \in Seq(Hooks) /\ Elems(hooks') = Elems(hooks) \ {h} /\ Distinct(hooks')
  <2>1. hooks \in Seq(Hooks) /\ Distinct(hooks)
    BY <1>1 DEF TypeOK
  <2> QED
    BY <1>2, <2>1, ChainUnlink
<1>4. \A i, j \in 1..Len(hooks') : i < j =>
          \E p, q \in 1..Len(hooks) : p < q /\ hooks'[i] = hooks[p] /\ hooks'[j] = hooks[q]
  <2>1. hooks \in Seq(Hooks)
    BY <1>1 DEF TypeOK
  <2> QED
    BY <1>2, <2>1, ChainUnlinkOrder
<1>5. \A g \in Hooks \ {h} : life'[g] = life[g]
  BY <1>1, <1>2 DEF TypeOK
<1>6. Elems(hooks) \subseteq Hooks /\ Len(hooks') \in Nat
  BY <1>1, <1>3 DEF TypeOK, Elems
<1>7. TypeOK'
  BY <1>1, <1>2, <1>3 DEF TypeOK
<1>8. WalkHeard'
  BY <1>1, <1>2, <1>3, <1>4, <1>5, <1>6, KeptHeard
<1>9. Registering'
  BY <1>1, <1>2, <1>3, <1>5, <1>6 DEF Registering
<1>10. pin # None => pin # h /\ pin \in Hooks
  BY <1>1, <1>2 DEF PinnedIsLinked, TypeOK
<1>11. PinnedIsLinked'
  BY <1>1, <1>2, <1>3, <1>5, <1>10 DEF PinnedIsLinked
<1>12. NothingLinkedOnceDetached'
  <2>1. hooks = << >> => hooks' = << >>
    BY <1>2, ChainEmpty DEF Without
  <2> QED
    BY <1>2, <2>1 DEF HookCore, NothingLinkedOnceDetached
<1> QED
  BY <1>2, <1>7, <1>8, <1>9, <1>11, <1>12 DEF HookCore, WalkAt, WaitersOnce

\* The batch begins once, with nothing heard.
LEMMA BeginStoppingKeeps == ASSUME HookCore, BeginStopping PROVE HookCore'
<1>1. TypeOK /\ Registering /\ WalkHeard /\ WalkAt
  BY DEF HookCore
<1>2. /\ accepting /\ accepting' = FALSE /\ active' = TRUE /\ stage' = "stopping"
      /\ UNCHANGED <<attached, parked, taken, hooks, mutex, life, owned, pin, told, unpin, detaching,
                     heard, called>>
  BY DEF BeginStopping, registry
<1>3. stage = "none" /\ pin = None /\ unpin = None /\ ~told /\ \A h \in Hooks : heard[h] = {}
  BY <1>1, <1>2 DEF Registering, WalkAt, WalkHeard, Phases
<1>4. TypeOK'
  BY <1>1, <1>2 DEF TypeOK
<1>5. \A i \in 1..Len(hooks) : hooks[i] # None
  BY <1>1, HooksAssumption DEF TypeOK
<1>6. WalkHeard'
  BY <1>2, <1>3, <1>5 DEF WalkHeard
<1> QED
  BY <1>1, <1>2, <1>3, <1>4, <1>6
     DEF HookCore, PinnedIsLinked, NothingLinkedOnceDetached, Registering, WalkAt, WaitersOnce, Phases

\* A phase begins at the first live owner, or ends at once.
LEMMA WalkFirstKeeps == ASSUME HookCore, WalkFirst PROVE HookCore'
<1>1. TypeOK /\ Registering /\ WalkHeard /\ WalkAt /\ WaitersOnce /\ NothingLinkedOnceDetached
  BY DEF HookCore
<1>2. /\ stage \in Phases /\ pin = None /\ unpin = None /\ ~told /\ mutex = None
      /\ pin' = FirstLive(hooks) /\ stage' = IF pin' = None THEN NextStage ELSE stage
      /\ UNCHANGED <<accepting, attached, active, parked, taken, hooks, mutex, life, owned, told, unpin,
                     detaching, heard, called>>
  BY DEF WalkFirst, registry
<1>3. hooks \in Seq(Hooks) /\ Distinct(hooks) /\ Elems(hooks) \subseteq Hooks
      /\ \A i \in 1..Len(hooks) : hooks[i] \in Hooks /\ hooks[i] # None
  BY <1>1, HooksAssumption DEF TypeOK, Elems
<1>4. \A h \in Hooks : stage \notin heard[h] /\ (stage = "stopping" => "stopping_complete" \notin heard[h])
  BY <1>1, <1>2 DEF WalkHeard
<1>5. ~accepting
  BY <1>1, <1>2 DEF Registering, Phases
<1>6. CASE FirstLive(hooks) = None /\ \A i \in 1..Len(hooks) : life[hooks[i]] # "live"
  <2>1. pin' = None /\ stage' = NextStage /\ stage' \in {"stopping_complete", "finish"}
        /\ (stage' = "stopping_complete" => stage = "stopping")
    BY <1>2, <1>6 DEF NextStage, Phases
  <2>2. Listening' = {}
    BY <1>2, <1>3, <1>6 DEF Listening, Elems
  <2>3. TypeOK'
    BY <1>1, <1>2, <2>1 DEF TypeOK
  <2>4. WalkHeard'
    BY <1>2, <1>3, <1>4, <2>1, <2>2 DEF WalkHeard, Heard, Phases
  <2> QED
    BY <1>1, <1>2, <1>5, <2>1, <2>3, <2>4
       DEF HookCore, PinnedIsLinked, NothingLinkedOnceDetached, Registering, WalkAt, WaitersOnce, Phases
<1>7. ASSUME NEW i \in 1..Len(hooks), FirstLive(hooks) = hooks[i], life[hooks[i]] = "live",
             \A j \in 1..(i - 1) : life[hooks[j]] # "live"
      PROVE  HookCore'
  <2>1. pin' = hooks[i] /\ pin' \in Hooks /\ pin' # None /\ stage' = stage /\ hooks[i] \in Elems(hooks)
    BY <1>2, <1>3, <1>7 DEF Elems
  <2>2. TypeOK'
    BY <1>1, <1>2, <2>1 DEF TypeOK
  <2>3. Listening' = Listening
    BY <1>2 DEF Listening
  <2>4. ASSUME NEW k \in 1..Len(hooks), NEW j \in 1..Len(hooks), pin' = hooks[k]
        PROVE  /\ j < k => life[hooks[j]] # "live"
               /\ k < j => stage \notin heard[hooks[j]]
    <3>1. k = i
      BY <1>3, <2>1, <2>4 DEF Distinct
    <3>2. j < k => j \in 1..(i - 1)
      BY <1>3, <3>1
    <3> QED
      BY <1>3, <1>4, <1>7, <3>2
  <2>5. WalkHeard'
    BY <1>1, <1>2, <2>1, <2>3, <2>4 DEF WalkHeard, Heard
  <2>6. PinnedIsLinked'
    BY <1>2, <1>7, <2>1 DEF PinnedIsLinked
  <2>7. WalkAt'
    BY <1>2, <1>4, <2>1 DEF WalkAt
  <2> QED
    BY <1>1, <1>2, <1>5, <2>1, <2>2, <2>5, <2>6, <2>7
       DEF HookCore, NothingLinkedOnceDetached, Registering, WaitersOnce
<1> QED
  BY <1>3, <1>6, <1>7, FirstLiveIs

\* The pinned owner hears the phase.
LEMMA CallbackKeeps == ASSUME HookCore, Callback PROVE HookCore'
<1>1. TypeOK /\ Registering /\ WalkHeard /\ WalkAt /\ PinnedIsLinked
  BY DEF HookCore
<1>2. /\ stage \in Phases /\ pin # None /\ unpin = None /\ ~told /\ told' = TRUE
      /\ heard' = [heard EXCEPT ![pin] = @ \cup {stage}]
      /\ UNCHANGED <<accepting, attached, active, parked, taken, hooks, mutex, life, owned, stage, pin,
                     unpin, detaching, called>>
  BY DEF Callback, registry
<1>3. /\ pin \in Hooks /\ heard'[pin] = heard[pin] \cup {stage}
      /\ \A h \in Hooks \ {pin} : heard'[h] = heard[h]
  BY <1>1, <1>2 DEF TypeOK
<1>4. hooks \in Seq(Hooks) /\ Distinct(hooks) /\ Elems(hooks) \subseteq Hooks
      /\ \A i \in 1..Len(hooks) : hooks[i] \in Hooks
  BY <1>1 DEF TypeOK, Elems
<1>5. TypeOK'
  <2>1. heard' \in [Hooks -> SUBSET Phases]
    BY <1>1, <1>2 DEF TypeOK
  <2> QED
    BY <1>1, <1>2, <2>1 DEF TypeOK
<1>6. Listening' = Listening /\ Listening \subseteq Hooks
  BY <1>2, <1>4 DEF Listening
<1>7. \A p \in Phases : Heard(p) => Heard(p)'
  BY <1>3, <1>6 DEF Heard
<1>8. ASSUME NEW i \in 1..Len(hooks), NEW j \in 1..Len(hooks), pin = hooks[i]
      PROVE  /\ j < i /\ life[hooks[j]] = "live" => stage \in heard'[hooks[j]]
             /\ i < j => stage \notin heard'[hooks[j]]
  <2>1. i < j => hooks[j] # pin
    BY <1>4, <1>8 DEF Distinct
  <2> QED
    BY <1>1, <1>3, <1>4, <1>8, <2>1 DEF WalkHeard
<1>9. WalkHeard'
  BY <1>1, <1>2, <1>3, <1>7, <1>8 DEF WalkHeard, Phases
<1>10. WalkAt'
  BY <1>1, <1>2, <1>3 DEF WalkAt
<1> QED
  BY <1>1, <1>2, <1>5, <1>9, <1>10
     DEF HookCore, PinnedIsLinked, NothingLinkedOnceDetached, Registering, WaitersOnce

\* The walk goes on to the next live owner; who is left behind has heard or is
\* dead.
LEMMA WalkNextKeeps == ASSUME HookCore, WalkNext PROVE HookCore'
<1>1. TypeOK /\ Registering /\ WalkHeard /\ WalkAt /\ PinnedIsLinked /\ NothingLinkedOnceDetached
  BY DEF HookCore
<1>2. /\ stage \in Phases /\ told /\ mutex = None
      /\ pin' = FirstLive(Behind(pin)) /\ unpin' = pin /\ told' = FALSE
      /\ UNCHANGED <<accepting, attached, active, parked, taken, hooks, mutex, life, owned, stage,
                     detaching, heard, called>>
  BY DEF WalkNext, registry
<1>3. hooks \in Seq(Hooks) /\ Distinct(hooks) /\ \A i \in 1..Len(hooks) : hooks[i] \in Hooks /\ hooks[i] # None
  BY <1>1, HooksAssumption DEF TypeOK
<1>4. pin # None /\ pin \in Hooks /\ unpin = None /\ stage \in heard[pin] /\ ~accepting
  BY <1>1, <1>2 DEF WalkAt, TypeOK, Registering, Phases
<1>5. CASE pin \notin Elems(hooks)
  <2>1. hooks = << >>
    BY <1>1, <1>4, <1>5 DEF PinnedIsLinked, NothingLinkedOnceDetached
  <2>2. pin' = None
    <3>1. Behind(pin) = << >>
      BY <1>3, <1>5, BehindNothing
    <3> QED
      BY <1>2, <3>1 DEF FirstLive
  <2>3. TypeOK'
    BY <1>1, <1>2, <1>4, <2>2 DEF TypeOK
  <2>4. Len(hooks) = 0 /\ Listening' = {}
    BY <1>2, <2>1, ChainEmpty DEF Listening
  <2>5. WalkHeard'
    BY <1>1, <1>2, <1>4, <2>2, <2>4 DEF WalkHeard, Heard
  <2> QED
    BY <1>1, <1>2, <1>4, <2>2, <2>3, <2>5
       DEF HookCore, PinnedIsLinked, NothingLinkedOnceDetached, Registering, WalkAt, WaitersOnce
<1>6. CASE pin \in Elems(hooks)
  <2>1. PICK k \in 1..Len(hooks) : hooks[k] = pin
    BY <1>6 DEF Elems
  <2>2. \A j \in 1..Len(hooks) :
           /\ j < k /\ life[hooks[j]] = "live" => stage \in heard[hooks[j]]
           /\ k < j => stage \notin heard[hooks[j]]
    BY <1>1, <2>1 DEF WalkHeard
  <2>3. Listening' = Listening
    BY <1>2 DEF Listening
  <2>4. CASE pin' = None /\ \A j \in 1..Len(hooks) : k < j => life[hooks[j]] # "live"
    <3>1. ASSUME NEW j \in 1..Len(hooks), life[hooks[j]] = "live" PROVE stage \in heard[hooks[j]]
      <4>1. j < k \/ j = k
        BY <2>4, <3>1
      <4>2. CASE j = k
        BY <1>4, <2>1, <4>2
      <4>3. CASE j < k
        BY <2>2, <3>1, <4>3
      <4> QED
        BY <4>1, <4>2, <4>3
    <3>2. Heard(stage)
      BY <3>1 DEF Heard, Listening, Elems
    <3>3. TypeOK'
      BY <1>1, <1>2, <1>4, <2>4 DEF TypeOK
    <3>4. WalkHeard'
      BY <1>1, <1>2, <1>3, <1>4, <2>3, <2>4, <3>2 DEF WalkHeard, Heard
    <3> QED
      BY <1>1, <1>2, <1>4, <2>4, <3>3, <3>4
         DEF HookCore, PinnedIsLinked, NothingLinkedOnceDetached, Registering, WalkAt, WaitersOnce
  <2>5. ASSUME NEW m \in 1..Len(hooks), k < m, pin' = hooks[m], life[hooks[m]] = "live",
               \A j \in 1..Len(hooks) : k < j /\ j < m => life[hooks[j]] # "live"
        PROVE  HookCore'
    <3>1. pin' \in Hooks /\ pin' # None /\ pin' # pin /\ pin' \in Elems(hooks)
      BY <1>3, <2>1, <2>5 DEF Distinct, Elems
    <3>2. stage \notin heard[pin']
      BY <2>2, <2>5
    <3>3. ASSUME NEW i \in 1..Len(hooks), NEW j \in 1..Len(hooks), pin' = hooks[i]
          PROVE  /\ j < i /\ life[hooks[j]] = "live" => stage \in heard[hooks[j]]
                 /\ i < j => stage \notin heard[hooks[j]]
      <4>1. i = m
        BY <1>3, <2>5, <3>3 DEF Distinct
      <4>2. ASSUME j < i, life[hooks[j]] = "live" PROVE stage \in heard[hooks[j]]
        <5>1. j < k \/ j = k
          BY <2>5, <4>1, <4>2
        <5>2. CASE j = k
          BY <1>4, <2>1, <5>2
        <5>3. CASE j < k
          BY <2>2, <4>2, <5>3
        <5> QED
          BY <5>1, <5>2, <5>3
      <4>3. ASSUME i < j PROVE stage \notin heard[hooks[j]]
        <5>1. k < j
          BY <2>5, <4>1, <4>3
        <5> QED
          BY <2>2, <5>1
      <4> QED
        BY <4>2, <4>3
    <3>4. TypeOK'
      BY <1>1, <1>2, <1>4, <3>1 DEF TypeOK
    <3>5. WalkHeard'
      BY <1>1, <1>2, <1>4, <2>3, <3>1, <3>3 DEF WalkHeard, Heard
    <3>6. WalkAt'
      BY <1>2, <1>4, <3>1, <3>2 DEF WalkAt
    <3>7. PinnedIsLinked'
      BY <1>2, <2>5, <3>1 DEF PinnedIsLinked
    <3> QED
      BY <1>1, <1>2, <1>4, <3>4, <3>5, <3>6, <3>7
         DEF HookCore, NothingLinkedOnceDetached, Registering, WaitersOnce
  <2> QED
    BY <1>2, <1>3, <2>1, <2>4, <2>5, NextStop
<1> QED
  BY <1>5, <1>6

\* Giving the last pin back ends the phase or goes on with it.
LEMMA DropPinKeeps == ASSUME HookCore, DropPin PROVE HookCore'
<1>1. TypeOK /\ Registering /\ WalkHeard /\ WalkAt /\ PinnedIsLinked /\ WaitersOnce
  BY DEF HookCore
<1>2. /\ unpin # None /\ unpin' = None /\ (life' = life \/ life' = [life EXCEPT ![unpin] = "expired"])
      /\ stage' = IF pin = None THEN NextStage ELSE stage
      /\ UNCHANGED <<accepting, attached, active, parked, taken, hooks, mutex, owned, pin, told,
                     detaching, heard, called>>
  BY DEF DropPin
<1>3. stage \in Phases /\ pin # unpin /\ ~told /\ mutex = None /\ ~accepting /\ unpin \in Hooks
  BY <1>1, <1>2 DEF WalkAt, Registering, Phases, TypeOK
<1>4. \A g \in Hooks : /\ life'[g] = "live" => life[g] = "live"
                       /\ life'[g] = "none" => life[g] = "none"
                       /\ g = pin => life'[g] = life[g]
  BY <1>1, <1>2, <1>3 DEF TypeOK
<1>5. stage' \in {"stopping", "stopping_complete", "finish"}
  BY <1>2, <1>3 DEF NextStage, Phases
<1>6. TypeOK'
  <2>1. life' \in [Hooks -> {"none", "live", "expired", "gone"}]
    BY <1>1, <1>2 DEF TypeOK
  <2> QED
    BY <1>1, <1>2, <1>5, <2>1 DEF TypeOK
<1>7. Elems(hooks) \subseteq Hooks /\ \A i \in 1..Len(hooks) : hooks[i] \in Hooks /\ hooks[i] # None
  BY <1>1, HooksAssumption DEF TypeOK, Elems
<1>8. Listening' \subseteq Listening
  BY <1>2, <1>4, <1>7 DEF Listening
<1>9. Registering'
  BY <1>1, <1>2, <1>3, <1>4, <1>7 DEF Registering
<1>10. PinnedIsLinked'
  BY <1>1, <1>2, <1>4 DEF PinnedIsLinked, TypeOK
<1>11. CASE pin # None
  <2>1. WalkHeard'
    BY <1>1, <1>2, <1>4, <1>7, <1>8, <1>11 DEF WalkHeard, Heard
  <2> QED
    BY <1>1, <1>2, <1>3, <1>6, <1>9, <1>10, <1>11, <2>1
       DEF HookCore, NothingLinkedOnceDetached, WalkAt, WaitersOnce
<1>12. CASE pin = None
  <2>1. Heard(stage) /\ (stage = "stopping_complete" => Heard("stopping"))
    BY <1>1, <1>2, <1>3, <1>12 DEF WalkHeard
  <2>2. \A p \in Phases : Heard(p) => Heard(p)'
    BY <1>2, <1>8 DEF Heard
  <2>3. \/ stage = "stopping" /\ stage' = "stopping_complete"
        \/ stage = "stopping_complete" /\ stage' = "finish"
    BY <1>2, <1>3, <1>12 DEF NextStage, Phases
  <2>4. WalkHeard'
    BY <1>1, <1>2, <1>7, <1>12, <2>1, <2>2, <2>3 DEF WalkHeard, Phases
  <2>5. WalkAt' /\ WaitersOnce'
    BY <1>1, <1>2, <1>3, <1>12, <2>3 DEF WalkAt, WaitersOnce, Phases
  <2> QED
    BY <1>2, <1>6, <1>9, <1>10, <2>4, <2>5 DEF HookCore, NothingLinkedOnceDetached
<1> QED
  BY <1>11, <1>12

\* The batch's end: the waiters are taken and called.
LEMMA FinishKeeps == ASSUME HookCore, Finish \/ NotifyWaiters PROVE HookCore'
<1>1. TypeOK /\ Registering /\ WalkHeard /\ WalkAt /\ WaitersOnce
  BY DEF HookCore
<1>2. UNCHANGED <<accepting, attached, hooks, mutex, life, owned, pin, told, unpin, detaching, heard>>
  BY DEF Finish, NotifyWaiters, registry
<1>3. stage \in {"finish", "notify"} /\ stage' \in {"notify", "done"} /\ ~accepting /\ mutex = None
  BY <1>1 DEF Finish, NotifyWaiters, Registering
<1>4. pin = None /\ unpin = None /\ ~told
  BY <1>1, <1>3 DEF WalkAt, Phases
<1>5. \A i \in 1..Len(hooks) : hooks[i] # None
  BY <1>1, HooksAssumption DEF TypeOK
<1>6. WalkHeard'
  <2>1. Listening' = Listening
    BY <1>2 DEF Listening
  <2> QED
    BY <1>1, <1>2, <1>3, <1>4, <1>5, <2>1 DEF WalkHeard, Heard, Phases
<1>7. active' <=> stage' \in Phases \cup {"finish"}
  BY <1>1, <1>3 DEF WaitersOnce, Finish, NotifyWaiters, Phases
<1>8. TypeOK' /\ WaitersOnce'
  <2>1. CASE Finish
    <3>1. taken' = parked /\ parked' = << >> /\ active' = FALSE /\ UNCHANGED called
      BY <2>1 DEF Finish
    <3>2. parked' \in Seq(Waiters) /\ taken' \in Seq(Waiters)
      BY <1>1, <3>1 DEF TypeOK
    <3>3. TypeOK'
      BY <1>1, <1>2, <1>3, <3>1, <3>2 DEF TypeOK
    <3>4. Elems(parked') = {} /\ Distinct(parked')
      BY <3>1, ChainEmpty
    <3>5. Distinct(taken') /\ Elems(taken') \cap called' = {}
      BY <1>1, <3>1 DEF WaitersOnce
    <3>6. WaitersOnce'
      BY <1>7, <3>1, <3>4, <3>5 DEF WaitersOnce
    <3> QED
      BY <3>3, <3>6
  <2>2. CASE NotifyWaiters /\ taken = << >>
    BY <1>1, <1>2, <1>3, <1>7, <2>2 DEF TypeOK, NotifyWaiters, WaitersOnce
  <2>3. CASE NotifyWaiters /\ taken # << >>
    <3>1. /\ taken' = Tail(taken) /\ called' = called \cup {Head(taken)} /\ UNCHANGED <<active, parked, stage>>
      BY <2>3 DEF NotifyWaiters
    <3>2. /\ Head(taken) \in Waiters /\ taken' \in Seq(Waiters)
          /\ Elems(taken) = Elems(taken') \cup {Head(taken)}
          /\ Distinct(taken') /\ Head(taken) \notin Elems(taken')
      <4>1. taken \in Seq(Waiters) /\ Distinct(taken)
        BY <1>1 DEF TypeOK, WaitersOnce
      <4> QED
        BY <2>3, <3>1, <4>1, ChainTail
    <3>3. TypeOK'
      BY <1>1, <1>2, <3>1, <3>2 DEF TypeOK
    <3>4. WaitersOnce'
      BY <1>1, <3>1, <3>2 DEF WaitersOnce
    <3> QED
      BY <3>3, <3>4
  <2> QED
    BY <2>1, <2>2, <2>3
<1> QED
  BY <1>1, <1>2, <1>3, <1>4, <1>6, <1>8
     DEF HookCore, PinnedIsLinked, NothingLinkedOnceDetached, Registering, WalkAt, Phases

\* A waiter is parked during the batch and called at once outside it.
LEMMA WhenCompleteKeeps == ASSUME HookCore, NEW w \in Waiters, WhenComplete(w) PROVE HookCore'
<1>1. TypeOK /\ WalkHeard /\ WaitersOnce
  BY DEF HookCore
<1>2. UNCHANGED <<accepting, attached, active, taken, hooks, mutex, life, owned, stage, pin, told, unpin,
                  detaching, heard>>
  BY DEF WhenComplete, registry, batch
<1>3. WalkHeard'
  BY <1>1, <1>2, SameHeard
<1>4. TypeOK' /\ WaitersOnce'
  <2>1. CASE active
    <3>1. parked' = Append(parked, w) /\ UNCHANGED called /\ w \notin Elems(parked) \cup Elems(taken) \cup called
      BY <2>1 DEF WhenComplete
    <3>2. parked' \in Seq(Waiters) /\ Elems(parked') = Elems(parked) \cup {w} /\ Distinct(parked')
      <4>1. parked \in Seq(Waiters) /\ Distinct(parked)
        BY <1>1 DEF TypeOK, WaitersOnce
      <4> QED
        BY <3>1, <4>1, ChainAppend
    <3> QED
      BY <1>1, <1>2, <2>1, <3>1, <3>2 DEF TypeOK, WaitersOnce
  <2>2. CASE ~active
    BY <1>1, <1>2, <2>2 DEF TypeOK, WaitersOnce, WhenComplete
  <2> QED
    BY <2>1, <2>2
<1> QED
  BY <1>2, <1>3, <1>4 DEF HookCore, PinnedIsLinked, NothingLinkedOnceDetached, Registering, WalkAt

\* A detach unlinks every hook under the mutex.
LEMMA DetachKeeps == ASSUME HookCore, DetachFlags \/ DetachHooks PROVE HookCore'
<1>1. TypeOK /\ Registering /\ WalkHeard
  BY DEF HookCore
<1>2. UNCHANGED <<active, parked, taken, mutex, life, owned, stage, pin, told, unpin, heard, called>>
  BY DEF DetachFlags, DetachHooks, registry, batch
<1>3. CASE DetachFlags
  <2>1. attached /\ attached' = FALSE /\ accepting' = FALSE /\ detaching' = TRUE /\ UNCHANGED hooks
    BY <1>3 DEF DetachFlags, registry
  <2>2. WalkHeard'
    BY <1>1, <1>2, <2>1, SameHeard
  <2>3. TypeOK'
    BY <1>1, <1>2, <2>1 DEF TypeOK
  <2> QED
    BY <1>1, <1>2, <2>1, <2>2, <2>3
       DEF HookCore, PinnedIsLinked, NothingLinkedOnceDetached, Registering, WalkAt, WaitersOnce
<1>4. CASE DetachHooks
  <2>1. /\ detaching /\ mutex = None /\ hooks' = << >> /\ detaching' = FALSE
        /\ UNCHANGED <<accepting, attached>>
    BY <1>4 DEF DetachHooks
  <2>2. Len(hooks') = 0 /\ Elems(hooks') = {} /\ Distinct(hooks')
    BY <2>1, ChainEmpty
  <2>3. WalkHeard'
    BY <1>1, <1>2, <2>2, KeptHeard
  <2>4. TypeOK'
    <3>1. hooks' \in Seq(Hooks)
      BY <2>1
    <3> QED
      BY <1>1, <1>2, <2>1, <2>2, <3>1 DEF TypeOK
  <2> QED
    BY <1>1, <1>2, <2>1, <2>2, <2>3, <2>4
       DEF HookCore, PinnedIsLinked, NothingLinkedOnceDetached, Registering, WalkAt, WaitersOnce
<1> QED
  BY <1>3, <1>4

\* HookCore is inductive on the registry.
LEMMA HookStep == HookCore /\ [Next]_vars => HookCore'
<1> SUFFICES ASSUME HookCore, [Next]_vars PROVE HookCore'
  OBVIOUS
<1>1. CASE UNCHANGED vars
  <2>1. UNCHANGED <<accepting, attached, active, parked, taken, hooks, mutex, life, owned, stage, pin,
                    told, unpin, detaching, heard, called>>
    BY <1>1 DEF vars, registry, batch
  <2> QED
    BY <2>1 DEF HookCore, TypeOK, PinnedIsLinked, NothingLinkedOnceDetached, Registering, WalkAt,
                WalkHeard, Heard, Listening, WaitersOnce
<1>2. CASE BatchStep
  BY <1>2, WalkFirstKeeps, CallbackKeeps, WalkNextKeeps, DropPinKeeps, FinishKeeps DEF BatchStep
<1> QED
  BY <1>1, <1>2, RegisterTestKeeps, RegisterLinkKeeps, ReleaseKeeps, UnlinkKeeps, BeginStoppingKeeps,
     WhenCompleteKeeps, DetachKeeps DEF Next

\* A pinned owner is called once in a phase, and nobody hears the second phase
\* before all have heard the first.
LEMMA PhaseStep ==
    ASSUME HookCore, [Next]_vars, NEW h \in Hooks
    PROVE  /\ pin = h /\ told' /\ ~told => stage \notin heard[h]
           /\ "stopping_complete" \in heard'[h] \ heard[h] /\ attached =>
                 \A g \in Listening : "stopping" \in heard[g]
<1>1. TypeOK /\ WalkAt /\ WalkHeard /\ h # None
  BY HooksAssumption DEF HookCore
<1>2. pin = h /\ ~told => stage \notin heard[h]
  BY <1>1 DEF WalkAt
<1>3. heard' = heard \/ Callback
  BY DEF Next, vars, BatchStep, RegisterTest, RegisterLink, Release, Unlink, BeginStopping, WalkFirst,
         WalkNext, DropPin, Finish, NotifyWaiters, WhenComplete, DetachFlags, DetachHooks
<1>4. ASSUME Callback, "stopping_complete" \in heard'[h] \ heard[h] PROVE Heard("stopping")
  <2>1. heard'[h] \subseteq heard[h] \cup {stage}
    BY <1>1, <1>4 DEF Callback, TypeOK
  <2>2. stage = "stopping_complete"
    BY <1>4, <2>1
  <2> QED
    BY <1>1, <2>2 DEF WalkHeard
<1> QED
  BY <1>2, <1>3, <1>4 DEF Heard

\* For every registry: no registration is missed by the stopping batch, nothing
\* dead is pinned, and nothing stays linked to a detached worker.
THEOREM HookInvariant == Spec => []HookInv
<1>1. Init => HookCore
  <2>1. << >> \in Seq(Hooks)
    OBVIOUS
  <2> QED
    BY <2>1, HookInit, ChainEmpty DEF Init
<1> QED
  BY <1>1, HookStep, HookCoreInv, PTL DEF Spec

-----------------------------------------------------------------------------
(* The loop over its registry.                                              *)

\* Every step of the loop is a step of its registry, or leaves it alone.
LEMMA LoopIsHookStep == [LoopNext]_allVars => [Next]_vars
<1> SUFFICES ASSUME [LoopNext]_allVars PROVE [Next]_vars
  OBVIOUS
<1>1. CASE UNCHANGED allVars
  BY <1>1 DEF allVars
<1>2. CASE StopStep
  <2>1. AwaitBatchChain => WhenComplete(Chain)
    BY DEF AwaitBatchChain
  <2>2. AwaitBatchGate => WhenComplete(Gate)
    BY DEF AwaitBatchGate
  <2>3. CloseWorker => BeginStopping \/ UNCHANGED vars
    BY DEF CloseWorker
  <2>4. Chain \in Waiters /\ Gate \in Waiters
    BY LoopAssumption
  <2> QED
    BY <1>2, <2>1, <2>2, <2>3, <2>4
       DEF StopStep, Next, StopRoots, StopGate, RequestChainStop, CloseReturns, StopReturns
<1>3. CASE CallbackStep
  BY <1>3 DEF CallbackStep, CallbackFinish, AwaitIdle, Seal, DeferFinalize
<1>4. CASE LoopBatchStep
  BY <1>4 DEF LoopBatchStep, NotifyListener, NotifyLoop, HandOver, WalkOn, NotifyNext, Next, BatchStep
<1>5. CASE WorkerStep \/ WorkerFails
  BY <1>5 DEF WorkerStep, WorkerFails, ApplyStop, FinalizeChain, FinalizeHook, RunListener, RunCleanup, Next
<1>6. ASSUME NEW h \in Listeners, RegisterListener(h) \/ ResetListener(h) \/ ListenerEnds(h)
      PROVE  [Next]_vars
  <2>1. h \in Hooks
    BY DEF Listeners
  <2> QED
    BY <1>6, <2>1 DEF RegisterListener, ResetListener, ListenerEnds, Next
<1>7. ASSUME NEW h \in Hooks, ReleaseOwner(h) PROVE [Next]_vars
  BY <1>7 DEF ReleaseOwner, Next
<1>8. ASSUME NEW r \in Roots, AcquireRoot(r) \/ PostRoot(r) \/ RootEnds(r) PROVE [Next]_vars
  BY <1>8 DEF AcquireRoot, PostRoot, RootEnds
<1>9. ASSUME NEW j \in Jobs, PostJob(j) \/ BeginCleanup(j) \/ DeferCleanup(j) PROVE [Next]_vars
  BY <1>9 DEF PostJob, BeginCleanup, DeferCleanup
<1>10. ASSUME NEW x \in Roots \cup Jobs, PostStep(x) PROVE [Next]_vars
  BY <1>10 DEF PostStep, AbandonPost, StartRoot, RunJob
<1>11. CASE CloseAdmission \/ DestroyStep
  BY <1>11 DEF CloseAdmission, DestroyStep, CountPending, Abandon, DetachDestroyed, Next
<1>12. ASSUME NEW on \in Threads, Stop(on) PROVE [Next]_vars
  BY <1>12 DEF Stop
<1> QED
  BY <1>1, <1>2, <1>3, <1>4, <1>5, <1>6, <1>7, <1>8, <1>9, <1>10, <1>11, <1>12 DEF LoopNext

\* The loop starts with its own hook linked.
LEMMA LoopHookInit == LoopInit => HookCore
<1>1. <<Loop>> \in Seq(Hooks)
  BY LoopAssumption
<1> QED
  BY <1>1, ChainOne, HookInit DEF LoopInit

\* What the walk guarantees holds in every event loop: whoever stops it, from
\* whichever thread, and whatever is registered, reset or destroyed meanwhile.
THEOREM LoopHooks == LoopSpec => []HookInv
<1>1. HookCore /\ [LoopNext]_allVars => HookCore'
  BY HookStep, LoopIsHookStep
<1> QED
  BY <1>1, LoopHookInit, HookCoreInv, PTL DEF LoopSpec

\* In every event loop the batch offers each hook each phase at most once, and
\* nobody the second while a live listener has still to hear the first.
THEOREM LoopPhases == LoopSpec => PhasesInOrder
<1> DEFINE Ordered == \A h \in Hooks :
              /\ pin = h /\ told' /\ ~told => stage \notin heard[h]
              /\ "stopping_complete" \in heard'[h] \ heard[h] /\ attached =>
                    \A g \in Listening : "stopping" \in heard[g]
<1>1. HookCore /\ [LoopNext]_allVars => HookCore'
  BY HookStep, LoopIsHookStep
<1>2. HookCore /\ [LoopNext]_allVars => [Ordered]_vars
  BY PhaseStep, LoopIsHookStep
<1>3. LoopSpec => [][Ordered]_vars
  BY <1>1, <1>2, LoopHookInit, PTL DEF LoopSpec
<1> QED
  BY <1>3 DEF PhasesInOrder

-----------------------------------------------------------------------------
(* The gate's count.                                                        *)

LoopCore ==
    /\ HookCore /\ LoopTypeOK /\ TerminatesOnlyOnPending
    /\ GateCounts /\ OneControl /\ DrainingPostCleansUp
    /\ HandlersAgree /\ GateShut /\ StopAgrees /\ PostsDrained

\* One entry of a table changes: the count follows.
LEMMA CountStep ==
    ASSUME NEW D, IsFiniteSet(D), NEW f, NEW g, NEW d \in D, NEW states,
           \A x \in D \ {d} : g[x] = f[x]
    PROVE  /\ Count(D, f, states) \in Nat /\ Count(D, g, states) \in Nat
           /\ f[d] \in states => Count(D, f, states) >= 1
           /\ Count(D, g, states) = Count(D, f, states) - (IF f[d] \in states THEN 1 ELSE 0)
                                                        + (IF g[d] \in states THEN 1 ELSE 0)
<1> DEFINE F == {x \in D : f[x] \in states}
           G == {x \in D : g[x] \in states}
           R == {x \in D \ {d} : f[x] \in states}
<1>1. IsFiniteSet(F) /\ IsFiniteSet(G) /\ IsFiniteSet(R)
  BY FS_Subset
<1>2. Cardinality(F) \in Nat /\ Cardinality(G) \in Nat /\ Cardinality(R) \in Nat
  BY <1>1, FS_CardinalityType
<1>3. Cardinality(F) = Cardinality(R) + (IF f[d] \in states THEN 1 ELSE 0)
  <2>1. CASE f[d] \in states
    <3>1. F = R \cup {d} /\ d \notin R
      BY <2>1
    <3> HIDE DEF F, G, R
    <3>2. Cardinality(R \cup {d}) = Cardinality(R) + 1
      BY <1>1, <3>1, FS_AddElement
    <3> QED
      BY <2>1, <3>1, <3>2
  <2>2. CASE f[d] \notin states
    <3>1. F = R
      BY <2>2
    <3> HIDE DEF F, G, R
    <3> QED
      BY <1>2, <2>2, <3>1
  <2> QED
    BY <2>1, <2>2
<1>4. Cardinality(G) = Cardinality(R) + (IF g[d] \in states THEN 1 ELSE 0)
  <2>1. CASE g[d] \in states
    <3>1. G = R \cup {d} /\ d \notin R
      BY <2>1
    <3> HIDE DEF F, G, R
    <3>2. Cardinality(R \cup {d}) = Cardinality(R) + 1
      BY <1>1, <3>1, FS_AddElement
    <3> QED
      BY <2>1, <3>1, <3>2
  <2>2. CASE g[d] \notin states
    <3>1. G = R
      BY <2>2
    <3> HIDE DEF F, G, R
    <3> QED
      BY <1>2, <2>2, <3>1
  <2> QED
    BY <2>1, <2>2
<1>5. Count(D, f, states) = Cardinality(F) /\ Count(D, g, states) = Cardinality(G)
  BY DEF Count
<1> HIDE DEF F, G, R
<1> QED
  BY <1>2, <1>3, <1>4, <1>5

\* An entry in one of the states is counted.
LEMMA CountHolds ==
    ASSUME NEW D, IsFiniteSet(D), NEW f, NEW states, NEW d \in D, f[d] \in states
    PROVE  Count(D, f, states) >= 1
BY CountStep

RootsOut == Count(Roots, root, {"leased", "posted", "running"})
JobsOut == Count(Jobs, job, {"begun", "queued"})
ListenersOut == Count(Listeners, listener, {"begun", "running"})

\* The tables are finite, so each count is a number.
LEMMA CountsAreNumbers ==
    /\ IsFiniteSet(Roots) /\ IsFiniteSet(Jobs) /\ IsFiniteSet(Listeners)
    /\ RootsOut \in Nat /\ JobsOut \in Nat /\ ListenersOut \in Nat
<1>1. IsFiniteSet(Roots) /\ IsFiniteSet(Jobs) /\ IsFiniteSet(Listeners)
  <2>1. Listeners \subseteq Hooks
    BY DEF Listeners
  <2> QED
    BY <2>1, LoopAssumption, HooksAssumption, FS_Subset
<1>2. \A D, f, states : IsFiniteSet(D) => Count(D, f, states) \in Nat
  <2> SUFFICES ASSUME NEW D, NEW f, NEW states, IsFiniteSet(D) PROVE Count(D, f, states) \in Nat
    OBVIOUS
  <2>1. IsFiniteSet({x \in D : f[x] \in states})
    BY FS_Subset
  <2> QED
    BY <2>1, FS_CardinalityType DEF Count
<1> QED
  BY <1>1, <1>2 DEF RootsOut, JobsOut, ListenersOut

\* Whatever is outstanding keeps the count from zero.
LEMMA Holding ==
    ASSUME pending = Outstanding
    PROVE  /\ StopHolds => pending >= 1
           /\ \A r \in Roots : root[r] \in {"leased", "posted", "running"} => pending >= 1
           /\ \A j \in Jobs : job[j] \in {"begun", "queued"} => pending >= 1
           /\ \A h \in Listeners : listener[h] \in {"begun", "running"} => pending >= 1
<1>1. pending = RootsOut + JobsOut + ListenersOut + (IF StopHolds THEN 1 ELSE 0)
  BY DEF Outstanding, RootsOut, JobsOut, ListenersOut
<1>2. ASSUME NEW r \in Roots, root[r] \in {"leased", "posted", "running"} PROVE RootsOut >= 1
  BY <1>2, CountsAreNumbers, CountHolds DEF RootsOut
<1>3. ASSUME NEW j \in Jobs, job[j] \in {"begun", "queued"} PROVE JobsOut >= 1
  BY <1>3, CountsAreNumbers, CountHolds DEF JobsOut
<1>4. ASSUME NEW h \in Listeners, listener[h] \in {"begun", "running"} PROVE ListenersOut >= 1
  BY <1>4, CountsAreNumbers, CountHolds DEF ListenersOut
<1> HIDE DEF RootsOut, JobsOut, ListenersOut
<1> QED
  BY <1>1, <1>2, <1>3, <1>4, CountsAreNumbers

\* finish() while something is outstanding: the count goes down, and the last
\* one out of a sealed gate claims the finalizer.
LEMMA FinishCountIs ==
    ASSUME LoopTypeOK, pending >= 1, NEW on \in Threads, FinishCount(on)
    PROVE  /\ pending' = pending - 1 /\ pending' \in Nat /\ UNCHANGED <<rootClosed, sealed, aborted>>
           /\ \/ UNCHANGED <<finalized, finalizer>>
              \/ /\ sealed /\ pending' = 0 /\ ~finalized /\ finalized' = TRUE
                 /\ finalizer' = finalizer \/ (finalizer = "set" /\ finalizer' = on)
<1>1. pending \in Nat /\ pending # 0
  BY DEF LoopTypeOK
<1>2. /\ pending' = pending - 1 /\ Take(pending - 1, sealed, on) /\ UNCHANGED <<rootClosed, sealed, aborted>>
  BY <1>1 DEF FinishCount
<1> QED
  BY <1>1, <1>2 DEF Take

\* The types of the gate survive a finish().
LEMMA FinishCountTypes ==
    ASSUME LoopTypeOK, pending >= 1, NEW on \in Threads, FinishCount(on)
    PROVE  /\ pending' \in Nat /\ rootClosed' \in BOOLEAN /\ sealed' \in BOOLEAN /\ finalized' \in BOOLEAN
           /\ finalizer' \in {"unset", "set", "spent"} \cup Threads /\ aborted' = aborted
<1>1. rootClosed \in BOOLEAN /\ sealed \in BOOLEAN /\ finalized \in BOOLEAN
      /\ finalizer \in {"unset", "set", "spent"} \cup Threads
  BY DEF LoopTypeOK
<1> QED
  BY <1>1, FinishCountIs

\* The threads stop() and its callback run on.
LEMMA ThreadsAre ==
    ASSUME LoopTypeOK
    PROVE  StopThread \in Threads /\ CallbackThread \in Threads /\ "worker" \in Threads /\ "other" \in Threads
BY DEF LoopTypeOK, StopThread, CallbackThread, Threads

\* A context is detached only with nothing outstanding, so that whoever is
\* still counted finds it attached.
LEMMA AttachedWhileCounted ==
    ASSUME LoopCore, aborted = "no", pending >= 1
    PROVE  attached /\ (finalized => destroyPc = "count")
BY DEF LoopCore, GateCounts, GateShut, LoopTypeOK

\* defer_or_terminate() never terminates: the batch of another thread is that of
\* a stop() that is counted.
LEMMA DeferIs ==
    ASSUME LoopCore, aborted = "no", NEW handler, NEW on, Defer(handler, on), on = "worker" \/ pending >= 1
    PROVE  queue' = Append(queue, handler) /\ aborted' = "no"
BY AttachedWhileCounted DEF Defer

\* A batch runs on the worker, or inside a stop() that holds the gate.
LEMMA BatchCounted ==
    ASSUME LoopCore, stage \notin {"none", "done"}
    PROVE  runner = "worker" \/ (stopPc = "batch" /\ pending >= 1)
<1>1. runner \in {"worker", "other"}
  BY DEF LoopCore, LoopTypeOK, Threads
<1>2. runner = "other" => stopPc = "batch" /\ cb = "none"
  BY DEF LoopCore, StopAgrees, LoopTypeOK
<1>3. runner = "other" => StopHolds
  BY <1>2 DEF StopHolds
<1> QED
  BY <1>1, <1>2, <1>3, Holding DEF LoopCore, GateCounts

\* worker_stopping() is refused by the gate in one case: the context is being
\* destroyed under a stop() that is counted.
LEMMA BeginRefused ==
    ASSUME LoopCore, aborted = "no", stage = "stopping", sealed \/ finalized
    PROVE  destroyPc = "count" /\ pending >= 1
<1>1. finalized => sealed
  BY DEF LoopCore, GateShut
<1>2. active
  BY DEF LoopCore, HookCore, WaitersOnce, Phases
<1>3. destroyPc # "none"
  BY <1>1, <1>2 DEF LoopCore, GateShut, StopAgrees
<1>4. runner # "worker" /\ finalized
  BY <1>3 DEF LoopCore, StopAgrees, GateShut
<1>5. pending >= 1
  BY <1>4, BatchCounted
<1> QED
  BY <1>4, <1>5, AttachedWhileCounted

\* Whoever leaves the gate is counted.
LEMMA Counted ==
    ASSUME LoopCore
    PROVE  /\ stopPc \in {"chain", "close", "batch", "wait", "then"} => pending >= 1 /\ cb = "none"
           /\ cb = "finish" => pending >= 1
           /\ \A r \in Roots : root[r] \in {"leased", "posted", "running"} => pending >= 1
           /\ \A j \in Jobs : job[j] \in {"begun", "queued"} => pending >= 1
           /\ \A h \in Listeners : listener[h] \in {"begun", "running"} => pending >= 1
<1>1. pending = Outstanding
  BY DEF LoopCore, GateCounts
<1>2. stopPc \in {"chain", "close", "batch", "wait", "then"} => cb = "none"
  BY DEF LoopCore, StopAgrees
<1>3. cb = "finish" => stopPc \in {"callback", "done"}
  BY DEF LoopCore, StopAgrees
<1> QED
  BY <1>1, <1>2, <1>3, Holding DEF StopHolds

-----------------------------------------------------------------------------
(* Types.                                                                   *)

\* stop() keeps the types.
LEMMA StopTypes ==
    ASSUME LoopCore, StopStep \/ \E on \in Threads : Stop(on)
    PROVE  LoopTypeOK'
<1>0. LoopTypeOK /\ LoopCore
  BY DEF LoopCore
<1>1. ASSUME NEW on \in Threads, Stop(on) PROVE LoopTypeOK'
  BY <1>0, <1>1 DEF LoopTypeOK, Stop, gate, chain, users, context
<1>2. CASE StopRoots
  BY <1>0, <1>2 DEF LoopTypeOK, StopRoots, chain, users, context
<1>3. CASE StopGate
  BY <1>0, <1>3 DEF LoopTypeOK, StopGate, chain, users, context
<1>4. CASE RequestChainStop
  BY <1>0, <1>4 DEF LoopTypeOK, RequestChainStop, gate, users, context
<1>5. CASE CloseWorker
  BY <1>0, <1>5, ThreadsAre DEF LoopTypeOK, CloseWorker, gate, chain, users, context
<1>6. CASE CloseReturns
  BY <1>0, <1>6 DEF LoopTypeOK, CloseReturns, gate, chain, users, context
<1>7. CASE AwaitBatchChain
  <2>1. aborted' = "no" /\ (queue' = queue \/ queue' = Append(queue, "control"))
    <3>1. aborted = "no" /\ pending >= 1
      BY <1>0, <1>7, Counted DEF AwaitBatchChain
    <3> QED
      BY <1>7, <3>1, DeferIs DEF AwaitBatchChain
  <2>2. queue \in Seq(Handlers) /\ "control" \in Handlers
    BY <1>0 DEF LoopTypeOK, Handlers
  <2>3. queue' \in Seq(Handlers)
    BY <2>1, <2>2
  <2> QED
    BY <1>0, <1>7, <2>1, <2>3 DEF LoopTypeOK, AwaitBatchChain, gate, chain, users, context
<1>8. CASE AwaitBatchGate
  BY <1>0, <1>8 DEF LoopTypeOK, AwaitBatchGate, gate, chain, users, context
<1>9. CASE StopReturns
  BY <1>0, <1>9 DEF LoopTypeOK, StopReturns, gate, chain, users, context
<1> QED
  BY <1>1, <1>2, <1>3, <1>4, <1>5, <1>6, <1>7, <1>8, <1>9 DEF StopStep

\* The callbacks that seal the gate keep the types.
LEMMA CallbackTypes ==
    ASSUME LoopCore, CallbackStep
    PROVE  LoopTypeOK'
<1>0. LoopTypeOK /\ LoopCore
  BY DEF LoopCore
<1>1. CASE CallbackFinish
  <2>1. pending >= 1 /\ CallbackThread \in Threads /\ FinishCount(CallbackThread)
    BY <1>0, <1>1, Counted, ThreadsAre DEF CallbackFinish
  <2> QED
    BY <1>0, <1>1, <2>1, FinishCountTypes DEF LoopTypeOK, CallbackFinish, chain, call, users, context
<1>2. CASE AwaitIdle
  BY <1>0, <1>2 DEF LoopTypeOK, AwaitIdle, gate, chain, call, users, context
<1>3. CASE Seal
  <2>1. /\ finalized' \in BOOLEAN /\ finalizer' \in {"unset", "set", "spent"} \cup Threads
    BY <1>0, <1>3, ThreadsAre DEF LoopTypeOK, Seal, Take
  <2> QED
    BY <1>0, <1>3, <2>1 DEF LoopTypeOK, Seal, chain, call, users, context
<1>4. CASE DeferFinalize
  <2>1. queue \in Seq(Handlers) /\ "finalize" \in Handlers
    BY <1>0 DEF LoopTypeOK, Handlers
  <2>2. Append(queue, "finalize") \in Seq(Handlers)
    BY <2>1
  <2>3. queue' \in Seq(Handlers)
    BY <1>4, <2>1, <2>2 DEF DeferFinalize
  <2> QED
    BY <1>0, <1>4, <2>3 DEF LoopTypeOK, DeferFinalize, chain, call, users, context
<1> QED
  BY <1>1, <1>2, <1>3, <1>4 DEF CallbackStep

\* The batch keeps the types.
LEMMA BatchTypes ==
    ASSUME LoopCore, LoopBatchStep
    PROVE  LoopTypeOK'
<1>0. LoopTypeOK /\ LoopCore
  BY DEF LoopCore
<1>1. CASE NotifyListener
  <2>1. pin \in Listeners
    BY <1>0, <1>1 DEF NotifyListener, Callback, LoopCore, HookCore, TypeOK, Listeners
  <2>2. /\ pending' \in Nat /\ UNCHANGED <<rootClosed, sealed, finalized, finalizer>>
        /\ listener' \in [Listeners -> {"idle", "begun", "running", "done", "cancelled"}]
        /\ hand' \in BOOLEAN /\ aborted' \in {"no", "begin"}
    <3>0. aborted = "no" /\ (WorkerStopping(pin) \/ UNCHANGED <<gate, listener, hand, aborted>>)
      BY <1>1 DEF NotifyListener
    <3>1. CASE UNCHANGED <<gate, listener, hand, aborted>>
      BY <1>0, <3>0, <3>1 DEF LoopTypeOK, gate
    <3>2. CASE aborted' = "begin" /\ UNCHANGED <<gate, listener, hand>>
      BY <1>0, <3>2 DEF LoopTypeOK, gate
    <3>3. CASE /\ pending' = pending + 1 /\ listener' = [listener EXCEPT ![pin] = "begun"] /\ hand' = TRUE
               /\ UNCHANGED <<rootClosed, sealed, finalized, finalizer, aborted>>
      BY <1>0, <2>1, <3>0, <3>3 DEF LoopTypeOK
    <3> QED
      BY <3>0, <3>1, <3>2, <3>3 DEF WorkerStopping
  <2> QED
    BY <1>0, <1>1, <2>2 DEF LoopTypeOK, NotifyListener, chain, call, users, context
<1>2. CASE NotifyLoop
  <2>1. UNCHANGED <<gate, chain, cb, runner, hand, users, queue, context, aborted>>
    BY <1>2 DEF NotifyLoop
  <2>2. CASE stopping' = TRUE /\ stopPc' = "roots" /\ stopOn' = "batch"
    BY <1>0, <2>1, <2>2 DEF LoopTypeOK, gate, chain, users, context
  <2>3. CASE UNCHANGED call
    BY <1>0, <2>1, <2>3 DEF LoopTypeOK, gate, chain, call, users, context
  <2> QED
    BY <1>2, <2>2, <2>3 DEF NotifyLoop
<1>3. CASE HandOver
  <2>0. hand' = FALSE /\ UNCHANGED <<gate, chain, call, cb, runner, reset, root, job, context>>
    BY <1>3 DEF HandOver
  <2>1. pin \in Listeners /\ stage = "stopping" /\ aborted = "no"
    BY <1>0, <1>3 DEF HandOver, LoopCore, HandlersAgree
  <2>4. {rootClosed', sealed', finalized', requested', ran', finalization', released', stopping', hand',
         failing', retained'} \subseteq BOOLEAN
    BY <1>0, <2>0 DEF LoopTypeOK, gate, chain, call, context
  <2>2. CASE runner = "worker"
    <3>1. listener' \in [Listeners -> {"idle", "begun", "running", "done", "cancelled"}]
      BY <1>0, <1>3, <2>1, <2>2 DEF LoopTypeOK, HandOver, Started
    <3>2. UNCHANGED <<queue, aborted>>
      BY <1>3, <2>2 DEF HandOver
    <3> QED
      BY <1>0, <2>0, <2>4, <3>1, <3>2 DEF LoopTypeOK, gate, chain, call, context
  <2>3. CASE runner # "worker"
    <3>1. pending >= 1
      BY <1>0, <2>1, <2>3, BatchCounted
    <3>2. queue' = Append(queue, pin) /\ aborted' = "no" /\ UNCHANGED listener
      BY <1>0, <1>3, <2>1, <2>3, <3>1, DeferIs DEF HandOver
    <3>3. queue \in Seq(Handlers) /\ pin \in Handlers
      BY <1>0, <2>1 DEF LoopTypeOK, Handlers
    <3>4. queue' \in Seq(Handlers)
      BY <3>2, <3>3
    <3> QED
      BY <1>0, <2>0, <2>1, <2>4, <3>2, <3>4 DEF LoopTypeOK, gate, chain, call, context
  <2> QED
    BY <2>2, <2>3
<1>4. CASE WalkOn
  BY <1>0, <1>4 DEF LoopTypeOK, WalkOn, loopVars, gate, chain, call, users, context
<1>5. CASE NotifyNext
  <2>1. aborted' = "no" /\ (queue' = queue \/ queue' = Append(queue, "control"))
    <3>1. aborted = "no" /\ stage = "notify"
      BY <1>5 DEF NotifyNext, NotifyWaiters
    <3>2. runner = "worker" \/ pending >= 1
      BY <1>0, <3>1, BatchCounted
    <3> QED
      BY <1>0, <1>5, <3>1, <3>2, DeferIs DEF NotifyNext
  <2>2. queue \in Seq(Handlers) /\ "control" \in Handlers
    BY <1>0 DEF LoopTypeOK, Handlers
  <2>3. queue' \in Seq(Handlers)
    BY <2>1, <2>2
  <2> QED
    BY <1>0, <1>5, <2>1, <2>3 DEF LoopTypeOK, NotifyNext, gate, chain, call, users, context
<1> QED
  BY <1>1, <1>2, <1>3, <1>4, <1>5 DEF LoopBatchStep

\* Registrations, roots and cleanups keep the types.
LEMMA UserTypes ==
    ASSUME LoopCore,
           \/ \E h \in Listeners : RegisterListener(h) \/ ResetListener(h) \/ ListenerEnds(h)
           \/ \E h \in Hooks : ReleaseOwner(h)
           \/ \E r \in Roots : AcquireRoot(r) \/ PostRoot(r) \/ RootEnds(r)
           \/ \E j \in Jobs : PostJob(j) \/ BeginCleanup(j) \/ DeferCleanup(j)
    PROVE  LoopTypeOK'
<1>0. LoopTypeOK /\ LoopCore /\ "worker" \in Threads /\ "other" \in Threads
  BY ThreadsAre DEF LoopCore
<1>1. ASSUME NEW h \in Hooks, RegisterListener(h) \/ ReleaseOwner(h) PROVE LoopTypeOK'
  BY <1>0, <1>1 DEF LoopTypeOK, RegisterListener, ReleaseOwner, loopVars, gate, chain, call, users, context
<1>2. ASSUME NEW h \in Listeners, ResetListener(h) PROVE LoopTypeOK'
  <2>1. listener' \in [Listeners -> {"idle", "begun", "running", "done", "cancelled"}] /\ reset' \subseteq Listeners
    BY <1>0, <1>2 DEF LoopTypeOK, ResetListener
  <2>2. CASE listener[h] = "begun"
    <3>1. pending >= 1 /\ FinishCount("other")
      BY <1>0, <1>2, <2>2, Counted DEF ResetListener
    <3> QED
      BY <1>0, <1>2, <2>1, <3>1, FinishCountTypes DEF LoopTypeOK, ResetListener, chain, call, context
  <2>3. CASE listener[h] # "begun"
    BY <1>0, <1>2, <2>1, <2>3 DEF LoopTypeOK, ResetListener, gate, chain, call, context
  <2> QED
    BY <2>2, <2>3
<1>3. ASSUME NEW h \in Listeners, ListenerEnds(h) PROVE LoopTypeOK'
  <2>1. pending >= 1 /\ FinishCount("worker")
    BY <1>0, <1>3, Counted DEF ListenerEnds
  <2>2. listener' \in [Listeners -> {"idle", "begun", "running", "done", "cancelled"}]
    BY <1>0, <1>3 DEF LoopTypeOK, ListenerEnds
  <2> QED
    BY <1>0, <1>3, <2>1, <2>2, FinishCountTypes DEF LoopTypeOK, ListenerEnds, chain, call, context
<1>4. ASSUME NEW r \in Roots, AcquireRoot(r) PROVE LoopTypeOK'
  BY <1>0, <1>4 DEF LoopTypeOK, AcquireRoot, chain, call, context
<1>5. ASSUME NEW r \in Roots, PostRoot(r) PROVE LoopTypeOK'
  <2>1. root' \in [Roots -> {"none", "leased", "posted", "running", "done"}]
    BY <1>0, <1>5 DEF LoopTypeOK, PostRoot
  <2>2. CASE UNCHANGED <<gate, aborted>>
    BY <1>0, <1>5, <2>1, <2>2 DEF LoopTypeOK, PostRoot, gate, chain, call, context
  <2>3. CASE FinishCount("other")
    <3>1. pending >= 1
      BY <1>0, <1>5, Counted DEF PostRoot
    <3> QED
      BY <1>0, <1>5, <2>1, <2>3, <3>1, FinishCountTypes DEF LoopTypeOK, PostRoot, chain, call, context
  <2> QED
    BY <1>5, <2>2, <2>3 DEF PostRoot
<1>6. ASSUME NEW r \in Roots, RootEnds(r) PROVE LoopTypeOK'
  <2>1. pending >= 1 /\ FinishCount("worker")
    BY <1>0, <1>6, Counted DEF RootEnds
  <2>2. root' \in [Roots -> {"none", "leased", "posted", "running", "done"}]
    BY <1>0, <1>6 DEF LoopTypeOK, RootEnds
  <2> QED
    BY <1>0, <1>6, <2>1, <2>2, FinishCountTypes DEF LoopTypeOK, RootEnds, chain, call, context
<1>7. ASSUME NEW j \in Jobs, PostJob(j) \/ BeginCleanup(j) PROVE LoopTypeOK'
  BY <1>0, <1>7 DEF LoopTypeOK, PostJob, BeginCleanup, gate, chain, call, context
<1>8. ASSUME NEW j \in Jobs, DeferCleanup(j) PROVE LoopTypeOK'
  <2>1. job' \in [Jobs -> {"none", "posted", "begun", "queued", "done", "refused", "denied"}]
    BY <1>0, <1>8 DEF LoopTypeOK, DeferCleanup
  <2>2. CASE attached
    <3>1. queue \in Seq(Handlers) /\ j \in Handlers /\ queue' = Append(queue, j)
      BY <1>0, <1>8, <2>2 DEF LoopTypeOK, Handlers, DeferCleanup
    <3>2. queue' \in Seq(Handlers)
      BY <3>1
    <3> QED
      BY <1>0, <1>8, <2>1, <2>2, <3>2 DEF LoopTypeOK, DeferCleanup, gate, chain, call, context
  <2>3. CASE ~attached
    <3>1. pending >= 1 /\ FinishCount("other")
      BY <1>0, <1>8, <2>3, Counted DEF DeferCleanup
    <3> QED
      BY <1>0, <1>8, <2>1, <2>3, <3>1, FinishCountTypes DEF LoopTypeOK, DeferCleanup, chain, call, context
  <2> QED
    BY <2>2, <2>3
<1>9. ASSUME NEW h \in Listeners, RegisterListener(h) PROVE LoopTypeOK'
  BY <1>1, <1>9 DEF Listeners
<1> QED
  BY <1>1, <1>2, <1>3, <1>4, <1>5, <1>6, <1>7, <1>8, <1>9

\* The worker and the destruction of its context keep the types.
LEMMA WorkerTypes ==
    ASSUME LoopCore,
           \/ WorkerStep \/ WorkerFails \/ CloseAdmission \/ DestroyStep
           \/ \E x \in Roots \cup Jobs : PostStep(x)
    PROVE  LoopTypeOK'
<1>0. LoopTypeOK /\ LoopCore /\ "worker" \in Threads /\ "other" \in Threads /\ queue \in Seq(Handlers)
  BY ThreadsAre DEF LoopCore, LoopTypeOK
<1>1. ASSUME queue # << >> PROVE Tail(queue) \in Seq(Handlers) /\ Head(queue) \in Elems(queue)
  BY <1>0, <1>1, ChainTail
<1>2. CASE ApplyStop
  <2>1. queue' \in Seq(Handlers) /\ ran' = TRUE
    BY <1>1, <1>2 DEF ApplyStop, Pop
  <2>2. /\ UNCHANGED <<gate, requested, finalization, call, cb, runner, hand, users, failing, retained,
                       destroyPc, aborted>>
        /\ (released' = TRUE /\ workerPc' = "detach") \/ UNCHANGED <<released, workerPc>>
    BY <1>2 DEF ApplyStop
  <2>3. CASE released' = TRUE /\ workerPc' = "detach"
    BY <1>0, <2>1, <2>2, <2>3 DEF LoopTypeOK, gate, call, users
  <2>4. CASE UNCHANGED <<released, workerPc>>
    BY <1>0, <2>1, <2>2, <2>4 DEF LoopTypeOK, gate, call, users
  <2> QED
    BY <2>2, <2>3, <2>4
<1>3. CASE FinalizeChain
  <2>1. Tail(queue) \in Seq(Handlers) /\ "control" \in Handlers
    BY <1>1, <1>3 DEF FinalizeChain, Handlers
  <2>2. Append(Tail(queue), "control") \in Seq(Handlers)
    BY <2>1
  <2>3. queue' \in Seq(Handlers)
    BY <1>3, <2>1, <2>2 DEF FinalizeChain
  <2> QED
    BY <1>0, <1>3, <2>3 DEF LoopTypeOK, FinalizeChain, gate, call, users, context
<1>4. CASE FinalizeHook
  <2>1. /\ UNCHANGED <<gate, chain, call, cb, runner, hand, users, queue, failing, destroyPc, aborted>>
        /\ workerPc' \in {"unlink", "claim", "free"} /\ (retained' = retained \/ retained' = FALSE)
    BY <1>4 DEF FinalizeHook
  <2>2. retained' \in BOOLEAN
    BY <1>0, <2>1 DEF LoopTypeOK
  <2> QED
    BY <1>0, <2>1, <2>2 DEF LoopTypeOK, gate, chain, call, users
<1>5. ASSUME NEW h \in Listeners, RunListener(h) PROVE LoopTypeOK'
  <2>1. queue' \in Seq(Handlers) /\ listener' \in [Listeners -> {"idle", "begun", "running", "done", "cancelled"}]
    BY <1>0, <1>1, <1>5 DEF LoopTypeOK, RunListener, Pop, Started
  <2> QED
    BY <1>0, <1>5, <2>1 DEF LoopTypeOK, RunListener, gate, chain, call, context
<1>6. ASSUME NEW j \in Jobs, RunCleanup(j) PROVE LoopTypeOK'
  <2>1. queue' \in Seq(Handlers) /\ j \in Elems(queue) /\ FinishCount("worker")
    BY <1>1, <1>6 DEF RunCleanup, Pop
  <2>2. job' \in [Jobs -> {"none", "posted", "begun", "queued", "done", "refused", "denied"}]
    BY <1>0, <1>6 DEF LoopTypeOK, RunCleanup
  <2>3. pending >= 1
    BY <1>0, <2>1, Counted DEF LoopCore, HandlersAgree
  <2> QED
    BY <1>0, <1>6, <2>1, <2>2, <2>3, FinishCountTypes DEF LoopTypeOK, RunCleanup, chain, call, context
<1>7. CASE WorkerFails
  BY <1>0, <1>7 DEF LoopTypeOK, WorkerFails, gate, chain, call, users
<1>8. CASE CloseAdmission
  <2>1. finalizer' \in {"unset", "set", "spent"} \cup Threads
    BY <1>0, <1>8 DEF LoopTypeOK, CloseAdmission
  <2>2. /\ rootClosed' = TRUE /\ sealed' = TRUE /\ finalized' = TRUE /\ retained' = FALSE /\ destroyPc' = "count"
        /\ UNCHANGED <<pending, chain, call, cb, runner, hand, users, queue, workerPc, failing, aborted>>
    BY <1>8 DEF CloseAdmission
  <2>3. {rootClosed', sealed', finalized', requested', ran', finalization', released', stopping', hand',
         failing', retained'} \subseteq BOOLEAN
    BY <1>0, <2>2 DEF LoopTypeOK, chain, call
  <2> QED
    BY <1>0, <2>1, <2>2, <2>3 DEF LoopTypeOK, chain, call, users
<1>9. CASE CountPending
  BY <1>0, <1>9 DEF LoopTypeOK, CountPending, gate, chain, call, users
<1>10. CASE Abandon
  BY <1>0, <1>10 DEF LoopTypeOK, Abandon, gate, users
<1>11. CASE DetachDestroyed
  <2>1. /\ queue' \in Seq(Handlers)
        /\ job' \in [Jobs -> {"none", "posted", "begun", "queued", "done", "refused", "denied"}]
    <3>1. CASE UNCHANGED <<job, queue>>
      BY <1>0, <3>1 DEF LoopTypeOK
    <3>2. CASE queue' = << >> /\ job' = [j \in Jobs |-> IF job[j] = "posted" THEN "done" ELSE job[j]]
      <4>1. queue' \in Seq(Handlers)
        BY <3>2
      <4>2. \A j \in Jobs : job[j] \in {"none", "posted", "begun", "queued", "done", "refused", "denied"}
        BY <1>0 DEF LoopTypeOK
      <4> QED
        BY <3>2, <4>1, <4>2
    <3> QED
      BY <1>11, <3>1, <3>2 DEF DetachDestroyed
  <2> QED
    BY <1>0, <1>11, <2>1 DEF LoopTypeOK, DetachDestroyed, gate, chain, call
<1>12. ASSUME NEW left, Drained(left) PROVE cb' \in {cb, "drained"}
  BY <1>12 DEF Drained
<1>13. ASSUME NEW x \in Roots \cup Jobs, AbandonPost(x) PROVE LoopTypeOK'
  <2>0. cb' \in {cb, "drained"}
    BY <1>12, <1>13 DEF AbandonPost
  <2>1. CASE x \in Roots
    <3>1. x \notin Jobs /\ root[x] = "posted"
      BY <1>13, <2>1, LoopAssumption DEF AbandonPost, Posted
    <3>2. pending >= 1 /\ FinishCount("worker") /\ UNCHANGED job
      BY <1>0, <1>13, <2>1, <3>1, Counted DEF AbandonPost
    <3>3. root' \in [Roots -> {"none", "leased", "posted", "running", "done"}]
      BY <1>0, <1>13, <2>1 DEF LoopTypeOK, AbandonPost
    <3> QED
      BY <1>0, <1>13, <2>0, <3>2, <3>3, FinishCountTypes DEF LoopTypeOK, AbandonPost, chain, call, context
  <2>2. CASE x \notin Roots
    <3>1. job' \in [Jobs -> {"none", "posted", "begun", "queued", "done", "refused", "denied"}]
          /\ UNCHANGED <<root, gate, aborted>>
      BY <1>0, <1>13, <2>2 DEF LoopTypeOK, AbandonPost
    <3> QED
      BY <1>0, <1>13, <2>0, <3>1 DEF LoopTypeOK, AbandonPost, gate, chain, call, context
  <2> QED
    BY <2>1, <2>2
<1>14. ASSUME NEW r \in Roots, StartRoot(r) PROVE LoopTypeOK'
  <2>1. cb' \in {cb, "drained"}
    BY <1>12, <1>14 DEF StartRoot
  <2> QED
    BY <1>0, <1>14, <2>1 DEF LoopTypeOK, StartRoot, gate, chain, call, context
<1>15. ASSUME NEW j \in Jobs, RunJob(j) PROVE LoopTypeOK'
  <2>1. cb' \in {cb, "drained"}
    BY <1>12, <1>15 DEF RunJob
  <2>2. Append(queue, j) \in Seq(Handlers)
    BY <1>0 DEF Handlers
  <2>3. queue' \in Seq(Handlers) /\ pending' \in Nat
    BY <1>0, <1>15, <2>2 DEF RunJob, LoopTypeOK
  <2>4. job' \in [Jobs -> {"none", "posted", "begun", "queued", "done", "refused", "denied"}]
    BY <1>0, <1>15 DEF LoopTypeOK, RunJob
  <2> QED
    BY <1>0, <1>15, <2>1, <2>3, <2>4 DEF LoopTypeOK, RunJob, chain, call, context
<1> QED
  BY <1>2, <1>3, <1>4, <1>5, <1>6, <1>7, <1>8, <1>9, <1>10, <1>11, <1>13, <1>14, <1>15
     DEF WorkerStep, DestroyStep, PostStep

\* LoopTypeOK is kept by every step.
LEMMA LoopTypeStep == LoopCore /\ [LoopNext]_allVars => LoopTypeOK'
<1> SUFFICES ASSUME LoopCore, [LoopNext]_allVars PROVE LoopTypeOK'
  OBVIOUS
<1>1. CASE UNCHANGED allVars
  BY <1>1 DEF LoopCore, LoopTypeOK, allVars, loopVars, gate, chain, call, users, context
<1> QED
  BY <1>1, StopTypes, CallbackTypes, BatchTypes, UserTypes, WorkerTypes DEF LoopNext

-----------------------------------------------------------------------------
(* When the gate shuts.                                                     *)

\* What GateShut is about.
shutVars == <<finalized, sealed, finalizer, attached, destroyPc, retained, workerPc, cb, requested, stopPc>>

\* GateShut depends on these variables only.
LEMMA SameShut ==
    ASSUME GateShut, UNCHANGED shutVars
    PROVE  GateShut'
BY DEF GateShut, shutVars

\* A finish() moves nothing but the finalizer, out of a sealed gate.
LEMMA CountShut ==
    ASSUME GateShut, LoopTypeOK, pending >= 1, NEW on \in Threads, FinishCount(on),
           UNCHANGED <<attached, destroyPc, retained, workerPc, requested, stopPc>>,
           cb = "done" => cb' = "done"
    PROVE  GateShut'
<1>1. /\ UNCHANGED sealed
      /\ \/ UNCHANGED <<finalized, finalizer>>
         \/ /\ sealed /\ finalized' = TRUE
            /\ finalizer' = finalizer \/ (finalizer = "set" /\ finalizer' = on)
  BY FinishCountIs
<1> QED
  BY <1>1 DEF GateShut

\* stop() shuts no gate.
LEMMA StopShut ==
    ASSUME LoopCore, StopStep \/ \E on \in Threads : Stop(on)
    PROVE  GateShut'
<1>0. GateShut /\ LoopTypeOK /\ LoopCore
  BY DEF LoopCore
<1>1. ASSUME NEW on \in Threads, Stop(on) PROVE GateShut'
  <2>1. requested /\ destroyPc = "none" => stopPc # "none"
    BY <1>0 DEF GateShut
  <2>2. stopPc # "none" => stopping
    BY <1>0 DEF LoopCore, StopAgrees
  <2> QED
    BY <1>0, <1>1, <2>1, <2>2 DEF GateShut, Stop, vars, gate, chain, context
<1>2. CASE StopRoots
  BY <1>0, <1>2 DEF GateShut, StopRoots, vars, chain, context
<1>3. CASE StopGate
  BY <1>0, <1>3 DEF GateShut, StopGate, vars, chain, context, Threads
<1>4. CASE RequestChainStop
  BY <1>0, <1>4 DEF GateShut, RequestChainStop, vars, gate, context
<1>5. CASE CloseWorker
  BY <1>0, <1>5 DEF GateShut, CloseWorker, BeginStopping, vars, gate, chain, context
<1>6. CASE CloseReturns
  BY <1>0, <1>6 DEF GateShut, CloseReturns, vars, gate, chain, context
<1>7. CASE AwaitBatchChain
  BY <1>0, <1>7 DEF GateShut, AwaitBatchChain, WhenComplete, gate, chain, context
<1>8. CASE AwaitBatchGate
  <2>1. cb = "none" /\ aborted = "no"
    BY <1>0, <1>8, Counted DEF AwaitBatchGate
  <2> QED
    BY <1>0, <1>8, <2>1 DEF GateShut, AwaitBatchGate, WhenComplete, gate, chain, context
<1>9. CASE StopReturns
  BY <1>0, <1>9 DEF GateShut, StopReturns, vars, gate, chain, context
<1> QED
  BY <1>1, <1>2, <1>3, <1>4, <1>5, <1>6, <1>7, <1>8, <1>9 DEF StopStep

\* The gate is sealed by the last callback of stop().
LEMMA CallbackShut ==
    ASSUME LoopCore, CallbackStep
    PROVE  GateShut'
<1>0. GateShut /\ LoopTypeOK /\ LoopCore
  BY DEF LoopCore
<1>1. CASE CallbackFinish
  <2>1. pending >= 1 /\ CallbackThread \in Threads /\ FinishCount(CallbackThread)
    BY <1>0, <1>1, Counted, ThreadsAre DEF CallbackFinish
  <2>2. UNCHANGED <<attached, destroyPc, retained, workerPc, requested, stopPc>> /\ cb # "done"
    BY <1>1 DEF CallbackFinish, vars, chain, call, context
  <2> QED
    BY <1>0, <2>1, <2>2, CountShut
<1>2. CASE AwaitIdle
  BY <1>0, <1>2 DEF GateShut, AwaitIdle, vars, gate, chain, call, context
<1>3. CASE Seal
  <2>1. /\ cb' = "done" /\ sealed' = TRUE
        /\ UNCHANGED <<attached, destroyPc, retained, workerPc, requested, stopPc>>
    BY <1>3 DEF Seal, vars, chain, call, context
  <2>2. \/ UNCHANGED <<finalized, finalizer>>
        \/ finalized' = TRUE
    BY <1>3 DEF Seal, Take
  <2> QED
    BY <1>0, <2>1, <2>2 DEF GateShut
<1>4. CASE DeferFinalize
  BY <1>0, <1>4 DEF GateShut, DeferFinalize, vars, chain, call, context
<1> QED
  BY <1>1, <1>2, <1>3, <1>4 DEF CallbackStep

\* The batch shuts no gate.
LEMMA BatchShut ==
    ASSUME LoopCore, LoopBatchStep
    PROVE  GateShut'
<1>0. GateShut /\ LoopTypeOK /\ LoopCore
  BY DEF LoopCore
<1>1. CASE NotifyListener
  <2>1. UNCHANGED <<sealed, finalized, finalizer>>
    BY <1>1 DEF NotifyListener, WorkerStopping, gate
  <2> QED
    BY <1>0, <1>1, <2>1, SameShut DEF shutVars, NotifyListener, Callback, chain, call, context
<1>2. CASE NotifyLoop
  <2>1. /\ UNCHANGED <<finalized, sealed, finalizer, attached, destroyPc, retained, workerPc, cb, requested>>
        /\ UNCHANGED stopPc \/ ~stopping
    BY <1>2 DEF NotifyLoop, Callback, gate, chain, call, context
  <2>2. ~stopping => stopPc = "none"
    BY <1>0 DEF LoopCore, StopAgrees
  <2> QED
    BY <1>0, <2>1, <2>2 DEF GateShut
<1>3. CASE HandOver
  BY <1>0, <1>3, SameShut DEF shutVars, HandOver, vars, gate, chain, call, context
<1>4. CASE WalkOn
  BY <1>0, <1>4, SameShut
     DEF shutVars, WalkOn, WalkFirst, WalkNext, DropPin, Finish, loopVars, gate, chain, call, context
<1>5. CASE NotifyNext
  <2>1. /\ UNCHANGED <<finalized, sealed, finalizer, attached, destroyPc, retained, workerPc, requested, stopPc>>
        /\ UNCHANGED cb \/ (taken # << >> /\ Head(taken) = Gate)
    BY <1>5 DEF NotifyNext, NotifyWaiters, gate, chain, call, context
  <2>2. taken # << >> => Head(taken) \in Elems(taken)
    <3>1. taken \in Seq(Waiters)
      BY <1>0 DEF LoopCore, HookCore, TypeOK
    <3> QED
      BY <3>1, ChainTail
  <2>3. taken # << >> /\ Head(taken) = Gate => cb = "none"
    BY <1>0, <2>2 DEF LoopCore, StopAgrees
  <2> QED
    BY <1>0, <2>1, <2>3 DEF GateShut
<1> QED
  BY <1>1, <1>2, <1>3, <1>4, <1>5 DEF LoopBatchStep

\* A root, a listener or a cleanup leaves a gate, and finalizes it only when
\* sealed.
LEMMA UserShut ==
    ASSUME LoopCore,
           \/ \E h \in Listeners : RegisterListener(h) \/ ResetListener(h) \/ ListenerEnds(h)
           \/ \E h \in Hooks : ReleaseOwner(h)
           \/ \E r \in Roots : AcquireRoot(r) \/ PostRoot(r) \/ RootEnds(r)
           \/ \E j \in Jobs : PostJob(j) \/ BeginCleanup(j) \/ DeferCleanup(j)
    PROVE  GateShut'
<1>0. GateShut /\ LoopTypeOK /\ LoopCore /\ "worker" \in Threads /\ "other" \in Threads
  BY ThreadsAre DEF LoopCore
<1> DEFINE Rest == UNCHANGED <<attached, destroyPc, retained, workerPc, cb, requested, stopPc>>
<1>1. ASSUME NEW h, RegisterListener(h) \/ ReleaseOwner(h) PROVE GateShut'
  BY <1>0, <1>1, SameShut
     DEF shutVars, RegisterListener, RegisterTest, RegisterLink, ReleaseOwner, Release, Unlink, loopVars, gate,
         chain, call, context
<1>2. ASSUME NEW on \in Threads, FinishCount(on), pending >= 1, Rest PROVE GateShut'
  BY <1>0, <1>2, CountShut
<1>3. ASSUME NEW h \in Listeners, ResetListener(h) PROVE GateShut'
  <2>1. Rest /\ (UNCHANGED gate \/ (pending >= 1 /\ FinishCount("other")))
    BY <1>0, <1>3, Counted DEF ResetListener, vars, chain, call, context
  <2>2. UNCHANGED gate => UNCHANGED shutVars
    BY <2>1 DEF gate, shutVars
  <2> QED
    BY <1>0, <1>2, <2>1, <2>2, SameShut
<1>4. ASSUME NEW h \in Listeners, ListenerEnds(h) PROVE GateShut'
  BY <1>0, <1>2, <1>4, Counted DEF ListenerEnds, vars, chain, call, context
<1>5. ASSUME NEW r \in Roots, AcquireRoot(r) PROVE GateShut'
  BY <1>0, <1>5, SameShut DEF shutVars, AcquireRoot, vars, chain, call, context
<1>6. ASSUME NEW r \in Roots, PostRoot(r) PROVE GateShut'
  <2>1. Rest /\ (UNCHANGED gate \/ (pending >= 1 /\ FinishCount("other")))
    BY <1>0, <1>6, Counted DEF PostRoot, vars, chain, call, context
  <2>2. UNCHANGED gate => UNCHANGED shutVars
    BY <2>1 DEF gate, shutVars
  <2> QED
    BY <1>0, <1>2, <2>1, <2>2, SameShut
<1>7. ASSUME NEW r \in Roots, RootEnds(r) PROVE GateShut'
  BY <1>0, <1>2, <1>7, Counted DEF RootEnds, vars, chain, call, context
<1>8. ASSUME NEW j \in Jobs, PostJob(j) \/ BeginCleanup(j) PROVE GateShut'
  BY <1>0, <1>8, SameShut DEF shutVars, PostJob, BeginCleanup, vars, gate, chain, call, context
<1>9. ASSUME NEW j \in Jobs, DeferCleanup(j) PROVE GateShut'
  <2>1. Rest /\ (UNCHANGED gate \/ (pending >= 1 /\ FinishCount("other")))
    BY <1>0, <1>9, Counted DEF DeferCleanup, vars, chain, call, context
  <2>2. UNCHANGED gate => UNCHANGED shutVars
    BY <2>1 DEF gate, shutVars
  <2> QED
    BY <1>0, <1>2, <2>1, <2>2, SameShut
<1> QED
  BY <1>1, <1>3, <1>4, <1>5, <1>6, <1>7, <1>8, <1>9

\* The worker detaches only behind a finalized gate; a destroyed context shuts
\* it.
LEMMA WorkerShut ==
    ASSUME LoopCore,
           \/ WorkerStep \/ WorkerFails \/ CloseAdmission \/ DestroyStep
           \/ \E x \in Roots \cup Jobs : PostStep(x)
    PROVE  GateShut'
<1>0. GateShut /\ LoopTypeOK /\ LoopCore /\ "worker" \in Threads
  BY ThreadsAre DEF LoopCore
<1>2. CASE ApplyStop
  <2>1. /\ UNCHANGED <<finalized, sealed, finalizer, attached, destroyPc, retained, cb, requested, stopPc>>
        /\ destroyPc = "none" /\ workerPc = "free" /\ (UNCHANGED workerPc \/ finalization)
    BY <1>2 DEF ApplyStop, Pop, WorkerFree, WorkerIdle, vars, gate, call
  <2>2. finalization => finalized
    BY <1>0 DEF LoopCore, HandlersAgree, GateShut
  <2>3. CASE UNCHANGED workerPc
    BY <1>0, <2>1, <2>3, SameShut DEF shutVars
  <2>4. CASE finalization
    BY <1>0, <2>1, <2>2, <2>4 DEF GateShut
  <2> QED
    BY <2>1, <2>3, <2>4
<1>3. CASE FinalizeChain
  BY <1>0, <1>3, SameShut DEF shutVars, FinalizeChain, vars, gate, call, context
<1>4. CASE FinalizeHook
  <2>1. UNCHANGED <<gate, destroyPc, cb, requested, stopPc>> /\ finalized /\ destroyPc = "none"
    BY <1>0, <1>4 DEF FinalizeHook, GateShut, chain, call
  <2>2. \/ workerPc' = "unlink" /\ attached' = FALSE /\ UNCHANGED retained
        \/ workerPc' = "claim" /\ UNCHANGED <<retained, attached>>
        \/ workerPc' = "free" /\ retained' = FALSE /\ UNCHANGED attached
    BY <1>4 DEF FinalizeHook, DetachFlags, DetachHooks, vars
  <2> QED
    BY <1>0, <2>1, <2>2 DEF GateShut, gate
<1>5. ASSUME NEW h \in Listeners, RunListener(h) PROVE GateShut'
  BY <1>0, <1>5, SameShut DEF shutVars, RunListener, vars, gate, chain, call, context
<1>6. ASSUME NEW j \in Jobs, RunCleanup(j) PROVE GateShut'
  <2>1. queue # << >> /\ Head(queue) = j /\ queue \in Seq(Handlers) /\ FinishCount("worker")
    BY <1>0, <1>6 DEF RunCleanup, Pop, LoopTypeOK
  <2>2. j \in Elems(queue)
    BY <2>1, ChainTail
  <2>3. pending >= 1
    BY <1>0, <2>2, Counted DEF LoopCore, HandlersAgree
  <2> QED
    BY <1>0, <1>6, <2>1, <2>3, CountShut DEF RunCleanup, vars, chain, call, context
<1>7. CASE WorkerFails
  BY <1>0, <1>7, SameShut DEF shutVars, WorkerFails, BeginStopping, vars, gate, chain, call
<1>8. CASE CloseAdmission
  <2>1. /\ destroyPc = "none" /\ workerPc = "free" /\ retained
        /\ sealed' = TRUE /\ finalized' = TRUE /\ retained' = FALSE /\ destroyPc' = "count"
        /\ UNCHANGED <<attached, workerPc, cb, requested, stopPc>>
    BY <1>8 DEF CloseAdmission, WorkerFree, WorkerIdle, vars, chain, call
  <2>2. attached
    BY <1>0, <2>1 DEF GateShut
  <2> QED
    BY <2>1, <2>2 DEF GateShut
<1>9. CASE CountPending
  BY <1>0, <1>9 DEF GateShut, CountPending, vars, gate, chain, call
<1>10. CASE Abandon
  BY <1>0, <1>10 DEF GateShut, Abandon, vars, gate
<1>11. CASE DetachDestroyed
  <2>1. /\ UNCHANGED <<gate, retained, workerPc, cb, requested, stopPc>> /\ destroyPc \notin {"none", "count"}
        /\ destroyPc' \in {"unlink", "done"}
    BY <1>11 DEF DetachDestroyed, chain, call
  <2> QED
    BY <1>0, <2>1 DEF GateShut, gate
<1>13. ASSUME NEW x \in Roots \cup Jobs, AbandonPost(x) PROVE GateShut'
  <2>1. /\ UNCHANGED <<attached, destroyPc, retained, workerPc, requested, stopPc>>
        /\ cb = "done" => cb' = "done"
    BY <1>13 DEF AbandonPost, Drained, vars, chain, call, context
  <2>2. CASE x \in Roots
    <3>1. root[x] = "posted" /\ FinishCount("worker")
      BY <1>13, <2>2, LoopAssumption DEF AbandonPost, Posted
    <3> QED
      BY <1>0, <2>1, <2>2, <3>1, Counted, CountShut
  <2>3. CASE x \notin Roots
    <3>1. UNCHANGED gate
      BY <1>13, <2>3 DEF AbandonPost
    <3> QED
      BY <1>0, <2>1, <3>1 DEF GateShut, gate
  <2> QED
    BY <2>2, <2>3
<1>14. ASSUME NEW r \in Roots, StartRoot(r) PROVE GateShut'
  BY <1>0, <1>14 DEF GateShut, StartRoot, Drained, vars, gate, chain, call, context
<1>15. ASSUME NEW j \in Jobs, RunJob(j) PROVE GateShut'
  BY <1>0, <1>15 DEF GateShut, RunJob, Drained, vars, chain, call, context
<1> QED
  BY <1>2, <1>3, <1>4, <1>5, <1>6, <1>7, <1>8, <1>9, <1>10, <1>11, <1>13, <1>14, <1>15
     DEF WorkerStep, DestroyStep, PostStep

\* GateShut is kept by every step.
LEMMA ShutStep == LoopCore /\ [LoopNext]_allVars => GateShut'
<1> SUFFICES ASSUME LoopCore, [LoopNext]_allVars PROVE GateShut'
  OBVIOUS
<1>1. CASE UNCHANGED allVars
  BY <1>1, SameShut DEF LoopCore, shutVars, allVars, vars, loopVars, gate, chain, call, context
<1> QED
  BY <1>1, StopShut, CallbackShut, BatchShut, UserShut, WorkerShut DEF LoopNext

-----------------------------------------------------------------------------
(* Where stop() is.                                                         *)

\* What StopAgrees is about.
stopVars == <<stopPc, stopping, cb, active, accepting, requested, stopOn, parked, taken, stage, runner, destroyPc>>

\* StopAgrees depends on these variables only.
LEMMA SameAgrees ==
    ASSUME StopAgrees, UNCHANGED stopVars
    PROVE  StopAgrees'
BY DEF StopAgrees, stopVars, StopThread, StopOver

\* Where stop() goes it agrees with the batch.
LEMMA StopAgreesOnStop ==
    ASSUME LoopCore, StopStep \/ \E on \in Threads : Stop(on)
    PROVE  StopAgrees'
<1>0. /\ StopAgrees /\ LoopTypeOK /\ LoopCore /\ GateShut /\ stopOn \in {"worker", "other", "batch"}
      /\ runner \in {"worker", "other"} /\ Chain # Gate
      /\ stage \in {"none", "stopping", "stopping_complete", "finish", "notify", "done"}
  BY LoopAssumption DEF LoopCore, LoopTypeOK, Threads, HookCore, TypeOK
<1>1. ASSUME NEW on \in Threads, Stop(on) PROVE StopAgrees'
  <2>1. /\ stopPc = "none" /\ stopping' = TRUE /\ stopPc' = "roots" /\ stopOn' = on
        /\ UNCHANGED <<cb, active, accepting, requested, parked, taken, stage, runner, destroyPc>>
        /\ on \in {"worker", "other"} /\ (on = "worker" => destroyPc = "none")
    BY <1>0, <1>1 DEF Stop, StopAgrees, Threads, WorkerFree, WorkerIdle, vars, batch, chain, context
  <2> QED
    BY <1>0, <2>1 DEF StopAgrees, StopThread, StopOver
<1>2. CASE StopRoots
  <2>1. /\ stopPc = "roots" /\ stopPc' = "gate"
        /\ UNCHANGED <<stopping, cb, active, accepting, requested, stopOn, parked, taken, stage, runner, destroyPc>>
    BY <1>2 DEF StopRoots, vars, batch, chain, context
  <2> QED
    BY <1>0, <2>1 DEF StopAgrees, StopThread, StopOver
<1>3. CASE StopGate
  <2>1. /\ stopPc = "gate" /\ (stopPc' = "refused" \/ (stopPc' = "chain" /\ ~sealed))
        /\ UNCHANGED <<stopping, cb, active, accepting, requested, stopOn, parked, taken, stage, runner, destroyPc>>
    BY <1>3 DEF StopGate, vars, batch, chain, context
  <2>2. ~sealed => ~requested
    BY <1>0, <2>1 DEF GateShut
  <2> QED
    BY <1>0, <2>1, <2>2 DEF StopAgrees, StopThread, StopOver
<1>4. CASE RequestChainStop
  <2>1. /\ stopPc = "chain" /\ stopPc' \in {"close", "then"} /\ (stopPc' = "then" => requested)
        /\ UNCHANGED <<stopping, cb, active, accepting, stopOn, parked, taken, stage, runner, destroyPc>>
    BY <1>4 DEF RequestChainStop, vars, batch, context
  <2> QED
    BY <1>0, <2>1 DEF StopAgrees, StopThread, StopOver
<1>5. CASE CloseWorker
  <2>1. stopPc = "close" /\ UNCHANGED <<stopping, cb, requested, stopOn, parked, taken, destroyPc>> /\ cb = "none"
    BY <1>0, <1>5, Counted DEF CloseWorker, BeginStopping, vars, chain, context
  <2>2. CASE accepting
    <3>1. /\ accepting' = FALSE /\ active' = TRUE /\ stage' = "stopping" /\ runner' = stopOn /\ stopPc' = "batch"
          /\ stopOn # "batch"
      BY <1>0, <1>5, <2>2 DEF CloseWorker, BeginStopping, StopAgrees, StopThread
    <3> QED
      BY <1>0, <2>1, <3>1 DEF StopAgrees, StopThread, StopOver
  <2>3. CASE ~accepting
    <3>1. UNCHANGED <<accepting, active, stage, runner>> /\ stopPc' = "wait"
      BY <1>5, <2>3 DEF CloseWorker, vars, batch
    <3> QED
      BY <1>0, <2>1, <2>3, <3>1 DEF StopAgrees, StopThread, StopOver
  <2> QED
    BY <2>2, <2>3
<1>6. CASE CloseReturns
  <2>1. /\ stopPc = "batch" /\ stage = "done" /\ stopPc' = "wait"
        /\ UNCHANGED <<stopping, cb, active, accepting, requested, stopOn, parked, taken, stage, runner, destroyPc>>
    BY <1>6 DEF CloseReturns, vars, batch, chain, context
  <2> QED
    BY <1>0, <2>1 DEF StopAgrees, StopThread, StopOver
<1>7. CASE AwaitBatchChain
  <2>1. /\ stopPc = "wait" /\ stopPc' = "then"
        /\ UNCHANGED <<stopping, cb, active, accepting, requested, stopOn, taken, stage, runner, destroyPc>>
        /\ parked' = parked \/ parked' = Append(parked, Chain)
    BY <1>7 DEF AwaitBatchChain, WhenComplete, batch, chain, context
  <2>2. Elems(parked') \subseteq Elems(parked) \cup {Chain}
    <3>1. parked \in Seq(Waiters) /\ Chain \in Waiters
      BY <1>0, LoopAssumption DEF LoopCore, HookCore, TypeOK
    <3>2. Elems(Append(parked, Chain)) = Elems(parked) \cup {Chain}
      BY <3>1, ChainAppend
    <3> QED
      BY <2>1, <3>2
  <2> QED
    BY <1>0, <2>1, <2>2 DEF StopAgrees, StopThread, StopOver
<1>8. CASE AwaitBatchGate
  <2>1. stopPc = "then" /\ UNCHANGED <<stopping, active, accepting, requested, stopOn, taken, stage, runner, destroyPc>>
    BY <1>8 DEF AwaitBatchGate, WhenComplete, batch, chain, context
  <2>2. cb = "none"
    BY <1>0, <2>1, Counted
  <2>3. CASE active
    <3>1. stopPc' = "done" /\ UNCHANGED cb
      BY <1>8, <2>3 DEF AwaitBatchGate
    <3> QED
      BY <1>0, <2>1, <2>2, <3>1 DEF StopAgrees, StopThread, StopOver
  <2>4. CASE ~active
    <3>1. stopPc' = "callback" /\ cb' = "finish" /\ UNCHANGED parked
      BY <1>8, <2>4 DEF AwaitBatchGate, WhenComplete
    <3> QED
      BY <1>0, <2>1, <2>2, <2>4, <3>1 DEF StopAgrees, StopThread, StopOver
  <2> QED
    BY <2>3, <2>4
<1>9. CASE StopReturns
  <2>1. /\ stopPc = "callback" /\ stopPc' = "done"
        /\ UNCHANGED <<stopping, cb, active, accepting, requested, stopOn, parked, taken, stage, runner, destroyPc>>
    BY <1>9 DEF StopReturns, vars, batch, chain, context
  <2> QED
    BY <1>0, <2>1 DEF StopAgrees, StopThread, StopOver
<1> QED
  BY <1>1, <1>2, <1>3, <1>4, <1>5, <1>6, <1>7, <1>8, <1>9 DEF StopStep

\* The Gate callback goes on: its place changes, nothing else here does.
LEMMA StopAgreesOnCallback ==
    ASSUME StopAgrees, cb # "none", cb' # "none",
           UNCHANGED <<stopPc, stopping, active, accepting, requested, stopOn, parked, taken, stage, runner, destroyPc>>
    PROVE  StopAgrees'
BY DEF StopAgrees, StopThread, StopOver

\* The batch takes and calls the waiters stop() left.
LEMMA StopAgreesInBatch ==
    ASSUME LoopCore, LoopBatchStep
    PROVE  StopAgrees'
<1>0. /\ StopAgrees /\ LoopTypeOK /\ LoopCore /\ runner \in {"worker", "other"}
      /\ taken \in Seq(Waiters) /\ parked \in Seq(Waiters) /\ Distinct(taken)
      /\ Registering /\ WaitersOnce /\ WalkAt
  BY DEF LoopCore, LoopTypeOK, Threads, HookCore, TypeOK, WaitersOnce
<1>1. CASE NotifyListener
  BY <1>0, <1>1, SameAgrees DEF stopVars, NotifyListener, Callback, chain, call, context
<1>2. CASE NotifyLoop
  <2>1. /\ UNCHANGED <<cb, active, accepting, requested, parked, taken, stage, runner, destroyPc>>
        /\ stage \in Phases
    BY <1>2 DEF NotifyLoop, Callback, chain, context
  <2>2. CASE UNCHANGED call
    BY <1>0, <2>1, <2>2, SameAgrees DEF stopVars, call
  <2>3. CASE ~stopping /\ stopping' = TRUE /\ stopPc' = "roots" /\ stopOn' = "batch"
    <3>1. stopPc = "none" /\ ~accepting /\ stage \notin {"none", "done"}
      BY <1>0, <2>1, <2>3 DEF StopAgrees, Registering, Phases
    <3>2. runner = "worker" /\ destroyPc = "none"
      BY <1>0, <3>1 DEF StopAgrees
    <3> QED
      BY <1>0, <2>1, <2>3, <3>1, <3>2 DEF StopAgrees, StopThread, StopOver
  <2> QED
    BY <1>2, <2>2, <2>3 DEF NotifyLoop
<1>3. CASE HandOver
  BY <1>0, <1>3, SameAgrees DEF stopVars, HandOver, vars, batch, chain, call, context
<1>4. CASE WalkOn
  <2>1. UNCHANGED <<stopPc, stopping, cb, accepting, requested, stopOn, runner, destroyPc>>
    BY <1>4 DEF WalkOn, WalkFirst, WalkNext, DropPin, Finish, loopVars, chain, call, context
  <2>2. CASE WalkFirst \/ WalkNext \/ DropPin
    <3>1. UNCHANGED <<active, parked, taken>> /\ stage \in Phases /\ stage' \in {stage, NextStage}
      BY <1>0, <2>2 DEF WalkFirst, WalkNext, DropPin, WalkAt
    <3>2. stage \notin {"none", "done"}
      BY <3>1 DEF Phases
    <3>3. stage' \notin {"none", "done"}
      BY <3>1, <3>2 DEF NextStage
    <3> QED
      BY <1>0, <2>1, <3>1, <3>2, <3>3 DEF StopAgrees, StopThread, StopOver
  <2>3. CASE Finish
    <3>1. active' = FALSE /\ taken' = parked /\ parked' = << >> /\ stage' = "notify" /\ stage = "finish"
      BY <2>3 DEF Finish
    <3>2. Elems(parked') \cup Elems(taken') \subseteq Elems(parked) \cup Elems(taken)
      BY <3>1, ChainEmpty
    <3> QED
      BY <1>0, <2>1, <3>1, <3>2 DEF StopAgrees, StopThread, StopOver
  <2> QED
    BY <1>4, <2>2, <2>3 DEF WalkOn
<1>5. CASE NotifyNext
  <2>1. /\ UNCHANGED <<stopPc, stopping, active, accepting, requested, parked, stopOn, runner, destroyPc>>
        /\ stage = "notify"
    BY <1>5 DEF NotifyNext, NotifyWaiters, chain, call, context
  <2>2. ~active /\ parked = << >> /\ Elems(parked) = {}
    BY <1>0, <2>1, ChainEmpty DEF WaitersOnce, Phases
  <2>3. CASE taken # << >> /\ Head(taken) = Gate
    <3>1. cb' = "finish" /\ taken' = Tail(taken) /\ UNCHANGED stage
      BY <1>5, <2>3 DEF NotifyNext, NotifyWaiters
    <3>2. Gate \in Elems(taken) /\ Gate \notin Elems(taken')
      BY <1>0, <2>3, <3>1, ChainTail
    <3>3. stopPc = "done" /\ ~accepting
      BY <1>0, <3>2 DEF StopAgrees
    <3> QED
      BY <1>0, <2>1, <2>2, <3>1, <3>2, <3>3 DEF StopAgrees, StopThread, StopOver
  <2>4. CASE ~(taken # << >> /\ Head(taken) = Gate)
    <3>1. UNCHANGED cb /\ (stage' = stage \/ stage' = "done")
      BY <1>5, <2>4 DEF NotifyNext, NotifyWaiters
    <3>2. Elems(taken') \subseteq Elems(taken)
      BY <1>0, <1>5, ChainTail DEF NotifyNext, NotifyWaiters
    <3> QED
      BY <1>0, <2>1, <2>2, <3>1, <3>2 DEF StopAgrees, StopThread, StopOver
  <2> QED
    BY <2>3, <2>4
<1> QED
  BY <1>1, <1>2, <1>3, <1>4, <1>5 DEF LoopBatchStep

\* The worker fails into a batch of its own, or dies with stop() over.
LEMMA StopAgreesOnWorker ==
    ASSUME LoopCore,
           \/ WorkerStep \/ WorkerFails \/ CloseAdmission \/ DestroyStep
           \/ \E x \in Roots \cup Jobs : PostStep(x)
    PROVE  StopAgrees'
<1>0. StopAgrees /\ LoopCore /\ runner \in {"worker", "other"}
  BY DEF LoopCore, LoopTypeOK, Threads
<1>1. ASSUME \/ ApplyStop \/ FinalizeChain
             \/ \E h \in Listeners : RunListener(h)
             \/ \E j \in Jobs : RunCleanup(j)
      PROVE  StopAgrees'
  BY <1>0, <1>1, SameAgrees
     DEF stopVars, ApplyStop, FinalizeChain, RunListener, RunCleanup, vars, batch, chain, call, context
<1>2. ASSUME accepting' => accepting,
             UNCHANGED <<stopPc, stopping, cb, active, requested, stopOn, parked, taken, stage, runner>>,
             destroyPc' # "none" => destroyPc # "none"
      PROVE  StopAgrees'
  BY <1>0, <1>2 DEF StopAgrees, StopThread, StopOver
<1>3. CASE FinalizeHook
  BY <1>2, <1>3 DEF FinalizeHook, DetachFlags, DetachHooks, vars, batch, chain, call
<1>4. CASE WorkerFails
  <2>1. /\ destroyPc = "none" /\ UNCHANGED <<stopPc, stopping, cb, requested, stopOn, destroyPc>>
    BY <1>4 DEF WorkerFails, WorkerFree, WorkerIdle, chain, call
  <2>2. CASE accepting
    <3>1. /\ accepting' = FALSE /\ active' = TRUE /\ stage' = "stopping" /\ runner' = "worker"
          /\ UNCHANGED <<parked, taken>>
      BY <1>4, <2>2 DEF WorkerFails, BeginStopping
    <3> QED
      BY <1>0, <2>1, <2>2, <3>1 DEF StopAgrees
  <2>3. CASE ~accepting
    BY <1>0, <1>4, <2>1, <2>3, SameAgrees DEF stopVars, WorkerFails, vars, batch
  <2> QED
    BY <2>2, <2>3
<1>5. CASE CloseAdmission
  <2>1. /\ UNCHANGED <<stopPc, stopping, cb, active, accepting, requested, stopOn, parked, taken, stage, runner>>
        /\ StopThread = "worker" => StopOver
        /\ runner = "worker" => stage \in {"none", "done"}
    BY <1>5 DEF CloseAdmission, WorkerFree, WorkerIdle, vars, batch, chain, call
  <2> QED
    BY <1>0, <2>1 DEF StopAgrees, StopThread, StopOver
<1>6. CASE CountPending
  BY <1>2, <1>6 DEF CountPending, vars, batch, chain, call
<1>7. CASE Abandon
  <2>1. /\ aborted = "no" /\ destroyPc = "abandon" /\ destroyPc' = "detach" /\ stopping' = TRUE
        /\ UNCHANGED <<stopPc, cb, active, accepting, stopOn, parked, taken, stage, runner>>
    BY <1>7 DEF Abandon, vars, batch
  <2>2. stopPc # "chain"
    BY <1>0, <2>1, Counted, AttachedWhileCounted DEF LoopCore, GateShut
  <2> QED
    BY <1>0, <2>1, <2>2 DEF StopAgrees, StopThread, StopOver
<1>8. CASE DetachDestroyed
  BY <1>2, <1>8 DEF DetachDestroyed, DetachFlags, DetachHooks, batch, chain, call
<1>9. ASSUME NEW x \in Roots \cup Jobs, PostStep(x) PROVE StopAgrees'
  <2>1. UNCHANGED <<stopPc, stopping, active, accepting, requested, stopOn, parked, taken, stage, runner, destroyPc>>
    BY <1>9 DEF PostStep, AbandonPost, StartRoot, RunJob, vars, batch, chain, call, context
  <2>2. UNCHANGED cb \/ (cb = "parked" /\ cb' = "drained")
    BY <1>9 DEF PostStep, AbandonPost, StartRoot, RunJob, Drained
  <2> QED
    BY <1>0, <2>1, <2>2, SameAgrees, StopAgreesOnCallback DEF stopVars
<1> QED
  BY <1>1, <1>3, <1>4, <1>5, <1>6, <1>7, <1>8, <1>9 DEF WorkerStep, DestroyStep

\* StopAgrees is kept by every step.
LEMMA StopAgreesStep == LoopCore /\ [LoopNext]_allVars => StopAgrees'
<1> SUFFICES ASSUME LoopCore, [LoopNext]_allVars PROVE StopAgrees'
  OBVIOUS
<1>0. StopAgrees
  BY DEF LoopCore
<1>1. CASE UNCHANGED allVars
  BY <1>0, <1>1, SameAgrees DEF stopVars, allVars, vars, batch, loopVars, chain, call, context
<1>2. CASE CallbackStep
  <2>1. CASE DeferFinalize
    BY <1>0, <2>1, SameAgrees DEF stopVars, DeferFinalize, vars, batch, chain, call, context
  <2>2. CASE CallbackFinish \/ AwaitIdle \/ Seal
    BY <1>0, <2>2, StopAgreesOnCallback DEF CallbackFinish, AwaitIdle, Seal, vars, batch, chain, call, context
  <2> QED
    BY <1>2, <2>1, <2>2 DEF CallbackStep
<1>3. ASSUME NEW h, RegisterListener(h) \/ ReleaseOwner(h) PROVE StopAgrees'
  BY <1>0, <1>3, SameAgrees
     DEF stopVars, RegisterListener, RegisterTest, RegisterLink, ReleaseOwner, Release, Unlink, loopVars, batch,
         chain, call, context
<1>4. ASSUME NEW h, ResetListener(h) \/ ListenerEnds(h) PROVE StopAgrees'
  BY <1>0, <1>4, SameAgrees DEF stopVars, ResetListener, ListenerEnds, vars, batch, chain, call, context
<1>5. ASSUME NEW r, AcquireRoot(r) \/ PostRoot(r) \/ RootEnds(r) PROVE StopAgrees'
  BY <1>0, <1>5, SameAgrees DEF stopVars, AcquireRoot, PostRoot, RootEnds, vars, batch, chain, call, context
<1>6. ASSUME NEW j, PostJob(j) \/ BeginCleanup(j) \/ DeferCleanup(j) PROVE StopAgrees'
  BY <1>0, <1>6, SameAgrees DEF stopVars, PostJob, BeginCleanup, DeferCleanup, vars, batch, chain, call, context
<1> QED
  BY <1>1, <1>2, <1>3, <1>4, <1>5, <1>6, StopAgreesOnStop, StopAgreesInBatch, StopAgreesOnWorker DEF LoopNext

-----------------------------------------------------------------------------
(* The count is what is outstanding, and only a context destroyed with      *)
(* something outstanding ends the process.                                  *)

Out == {"leased", "posted", "running"}
CleaningUp == {"begun", "queued"}
Called == {"begun", "running"}
One(b) == IF b THEN 1 ELSE 0

\* Outstanding by its parts.
LEMMA OutstandingIs ==
    /\ Outstanding = RootsOut + JobsOut + ListenersOut + One(StopHolds)
    /\ Outstanding' = RootsOut' + JobsOut' + ListenersOut' + One(StopHolds)'
    /\ Outstanding \in Nat
<1>1. Outstanding = RootsOut + JobsOut + ListenersOut + One(StopHolds)
  BY DEF Outstanding, RootsOut, JobsOut, ListenersOut, One
<1>2. Outstanding' = RootsOut' + JobsOut' + ListenersOut' + One(StopHolds)'
  BY DEF Outstanding, RootsOut, JobsOut, ListenersOut, One
<1>3. One(StopHolds) \in Nat
  BY DEF One
<1> HIDE DEF RootsOut, JobsOut, ListenersOut
<1> QED
  BY <1>1, <1>2, <1>3, CountsAreNumbers

\* What is outstanding changes with the hold of stop().
LEMMA HoldMoves ==
    ASSUME UNCHANGED <<root, job, listener>>
    PROVE  Outstanding' = Outstanding - One(StopHolds) + One(StopHolds)'
<1>1. RootsOut' = RootsOut /\ JobsOut' = JobsOut /\ ListenersOut' = ListenersOut
  BY DEF RootsOut, JobsOut, ListenersOut, Count
<1>2. One(StopHolds) \in Nat /\ One(StopHolds)' \in Nat
  BY DEF One
<1> HIDE DEF RootsOut, JobsOut, ListenersOut, One
<1> QED
  BY <1>1, <1>2, OutstandingIs, CountsAreNumbers

\* What is outstanding changes with one root.
LEMMA RootMoves ==
    ASSUME LoopTypeOK, NEW r \in Roots, NEW s, root' = [root EXCEPT ![r] = s],
           UNCHANGED <<job, listener>>, StopHolds' <=> StopHolds
    PROVE  Outstanding' = Outstanding - One(root[r] \in Out) + One(s \in Out)
<1>1. JobsOut' = JobsOut /\ ListenersOut' = ListenersOut /\ One(StopHolds)' = One(StopHolds)
  BY DEF JobsOut, ListenersOut, Count, One
<1>2. \A x \in Roots \ {r} : root'[x] = root[x]
  BY DEF LoopTypeOK
<1>3. root'[r] = s
  BY DEF LoopTypeOK
<1>4. RootsOut' = RootsOut - One(root[r] \in Out) + One(s \in Out)
  <2>1. Count(Roots, root', Out) = Count(Roots, root, Out) - (IF root[r] \in Out THEN 1 ELSE 0)
                                    + (IF root'[r] \in Out THEN 1 ELSE 0)
    <3>1. IsFiniteSet(Roots)
      BY CountsAreNumbers
    <3>2. PICK f, g : f = root /\ g = root'
      OBVIOUS
    <3>3. \A x \in Roots \ {r} : g[x] = f[x]
      BY <1>2, <3>2
    <3>4. Count(Roots, g, Out) = Count(Roots, f, Out) - (IF f[r] \in Out THEN 1 ELSE 0)
                                    + (IF g[r] \in Out THEN 1 ELSE 0)
      BY <3>1, <3>3, CountStep
    <3> QED
      BY <3>2, <3>4
  <2>2. RootsOut = Count(Roots, root, Out) /\ RootsOut' = Count(Roots, root', Out)
    BY DEF RootsOut, Out
  <2> QED
    BY <1>3, <2>1, <2>2 DEF One
<1>5. {One(root[r] \in Out), One(s \in Out), One(StopHolds)} \subseteq Nat
  BY DEF One
<1> HIDE DEF RootsOut, JobsOut, ListenersOut, One
<1> QED
  BY <1>1, <1>4, <1>5, OutstandingIs, CountsAreNumbers

\* What is outstanding changes with one cleanup.
LEMMA JobMoves ==
    ASSUME LoopTypeOK, NEW j \in Jobs, NEW s, job' = [job EXCEPT ![j] = s],
           UNCHANGED <<root, listener>>, StopHolds' <=> StopHolds
    PROVE  Outstanding' = Outstanding - One(job[j] \in CleaningUp) + One(s \in CleaningUp)
<1>1. RootsOut' = RootsOut /\ ListenersOut' = ListenersOut /\ One(StopHolds)' = One(StopHolds)
  BY DEF RootsOut, ListenersOut, Count, One
<1>2. \A x \in Jobs \ {j} : job'[x] = job[x]
  BY DEF LoopTypeOK
<1>3. job'[j] = s
  BY DEF LoopTypeOK
<1>4. JobsOut' = JobsOut - One(job[j] \in CleaningUp) + One(s \in CleaningUp)
  <2>1. Count(Jobs, job', CleaningUp) = Count(Jobs, job, CleaningUp) - (IF job[j] \in CleaningUp THEN 1 ELSE 0)
                                    + (IF job'[j] \in CleaningUp THEN 1 ELSE 0)
    <3>1. IsFiniteSet(Jobs)
      BY CountsAreNumbers
    <3>2. PICK f, g : f = job /\ g = job'
      OBVIOUS
    <3>3. \A x \in Jobs \ {j} : g[x] = f[x]
      BY <1>2, <3>2
    <3>4. Count(Jobs, g, CleaningUp) = Count(Jobs, f, CleaningUp) - (IF f[j] \in CleaningUp THEN 1 ELSE 0)
                                    + (IF g[j] \in CleaningUp THEN 1 ELSE 0)
      BY <3>1, <3>3, CountStep
    <3> QED
      BY <3>2, <3>4
  <2>2. JobsOut = Count(Jobs, job, CleaningUp) /\ JobsOut' = Count(Jobs, job', CleaningUp)
    BY DEF JobsOut, CleaningUp
  <2> QED
    BY <1>3, <2>1, <2>2 DEF One
<1>5. {One(job[j] \in CleaningUp), One(s \in CleaningUp), One(StopHolds)} \subseteq Nat
  BY DEF One
<1> HIDE DEF RootsOut, JobsOut, ListenersOut, One
<1> QED
  BY <1>1, <1>4, <1>5, OutstandingIs, CountsAreNumbers

\* What is outstanding changes with one stop callback.
LEMMA ListenerMoves ==
    ASSUME LoopTypeOK, NEW h \in Listeners, NEW s, listener' = [listener EXCEPT ![h] = s],
           UNCHANGED <<root, job>>, StopHolds' <=> StopHolds
    PROVE  Outstanding' = Outstanding - One(listener[h] \in Called) + One(s \in Called)
<1>1. RootsOut' = RootsOut /\ JobsOut' = JobsOut /\ One(StopHolds)' = One(StopHolds)
  BY DEF RootsOut, JobsOut, Count, One
<1>2. \A x \in Listeners \ {h} : listener'[x] = listener[x]
  BY DEF LoopTypeOK
<1>3. listener'[h] = s
  BY DEF LoopTypeOK
<1>4. ListenersOut' = ListenersOut - One(listener[h] \in Called) + One(s \in Called)
  <2>1. Count(Listeners, listener', Called) = Count(Listeners, listener, Called) - (IF listener[h] \in Called THEN 1 ELSE 0)
                                    + (IF listener'[h] \in Called THEN 1 ELSE 0)
    <3>1. IsFiniteSet(Listeners)
      BY CountsAreNumbers
    <3>2. PICK f, g : f = listener /\ g = listener'
      OBVIOUS
    <3>3. \A x \in Listeners \ {h} : g[x] = f[x]
      BY <1>2, <3>2
    <3>4. Count(Listeners, g, Called) = Count(Listeners, f, Called) - (IF f[h] \in Called THEN 1 ELSE 0)
                                    + (IF g[h] \in Called THEN 1 ELSE 0)
      BY <3>1, <3>3, CountStep
    <3> QED
      BY <3>2, <3>4
  <2>2. ListenersOut = Count(Listeners, listener, Called) /\ ListenersOut' = Count(Listeners, listener', Called)
    BY DEF ListenersOut, Called
  <2> QED
    BY <1>3, <2>1, <2>2 DEF One
<1>5. {One(listener[h] \in Called), One(s \in Called), One(StopHolds)} \subseteq Nat
  BY DEF One
<1> HIDE DEF RootsOut, JobsOut, ListenersOut, One
<1> QED
  BY <1>1, <1>4, <1>5, OutstandingIs, CountsAreNumbers

\* A step that leaves the gate alone, one that enters it, one that leaves it.
GateStands == GateCounts /\ TerminatesOnlyOnPending

\* A step that neither enters nor leaves the gate.
LEMMA StaysInGate ==
    ASSUME LoopCore, Outstanding' = Outstanding, UNCHANGED <<pending, finalized, destroyPc>>,
           aborted = "no", aborted' = "no"
    PROVE  GateStands'
BY DEF LoopCore, GateStands, GateCounts, TerminatesOnlyOnPending

\* begin(): one more outstanding, one more counted.
LEMMA EntersGate ==
    ASSUME LoopCore, Outstanding' = Outstanding + 1, pending' = pending + 1, ~finalized, UNCHANGED finalized,
           aborted' = "no"
    PROVE  GateStands'
BY DEF LoopCore, GateStands, GateCounts, TerminatesOnlyOnPending

\* finish(): one less outstanding, one less counted.
LEMMA LeavesGate ==
    ASSUME LoopCore, aborted = "no", pending >= 1, NEW on \in Threads, FinishCount(on), UNCHANGED destroyPc,
           Outstanding' = Outstanding - 1
    PROVE  GateStands'
<1>1. LoopTypeOK /\ pending = Outstanding
  BY DEF LoopCore, GateCounts
<1>2. /\ pending' = pending - 1 /\ aborted' = "no"
      /\ UNCHANGED finalized \/ pending' = 0
  BY <1>1, FinishCountIs
<1>3. finalized => destroyPc = "count"
  BY AttachedWhileCounted
<1> QED
  BY <1>1, <1>2, <1>3 DEF GateStands, GateCounts, TerminatesOnlyOnPending

\* A step that is none of the gate's business.
LEMMA AsideOfGate ==
    ASSUME LoopCore, UNCHANGED <<pending, finalized, destroyPc, root, job, listener, stopPc, cb>>,
           aborted = "no", aborted' = "no"
    PROVE  GateStands'
<1>1. Outstanding' = Outstanding
  BY DEF Outstanding, Count, StopHolds
<1> QED
  BY <1>1, StaysInGate

\* The same when only the place of stop() or of its callback changes.
LEMMA HoldStays ==
    ASSUME LoopCore, UNCHANGED <<pending, finalized, destroyPc, root, job, listener>>, StopHolds' <=> StopHolds,
           aborted = "no", aborted' = "no"
    PROVE  GateStands'
<1>1. One(StopHolds)' = One(StopHolds) /\ One(StopHolds) \in Nat
  BY DEF One
<1>2. Outstanding' = Outstanding
  BY <1>1, HoldMoves, OutstandingIs
<1> QED
  BY <1>2, StaysInGate

\* stop() takes its own hold of the gate and keeps it.
LEMMA StopStands ==
    ASSUME LoopCore, StopStep \/ \E on \in Threads : Stop(on)
    PROVE  GateStands'
<1>0. StopAgrees /\ LoopTypeOK /\ LoopCore
  BY DEF LoopCore
<1>1. ASSUME NEW on \in Threads, Stop(on) PROVE GateStands'
  <2>1. stopPc = "none" /\ stopPc' = "roots"
    BY <1>0, <1>1 DEF Stop, StopAgrees
  <2> QED
    BY <1>0, <1>1, <2>1, HoldStays DEF Stop, StopHolds, gate, users, context
<1>2. CASE StopRoots
  BY <1>0, <1>2, HoldStays DEF StopRoots, StopHolds, users, context
<1>3. CASE StopGate
  <2>1. /\ stopPc = "gate" /\ cb = "none" /\ aborted = "no"
        /\ UNCHANGED <<finalized, cb, destroyPc, root, job, listener, aborted>>
    BY <1>0, <1>3 DEF StopGate, StopAgrees, users, context
  <2>2. CASE sealed \/ finalized
    <3>1. UNCHANGED pending /\ (StopHolds' <=> StopHolds)
      BY <1>3, <2>1, <2>2 DEF StopGate, StopHolds
    <3> QED
      BY <1>0, <2>1, <3>1, HoldStays
  <2>3. CASE ~sealed /\ ~finalized
    <3>1. pending' = pending + 1 /\ StopHolds' /\ ~StopHolds
      BY <1>3, <2>1, <2>3 DEF StopGate, StopHolds
    <3>2. One(StopHolds)' = 1 /\ One(StopHolds) = 0
      BY <3>1 DEF One
    <3>3. Outstanding' = Outstanding + 1
      BY <2>1, <3>2, HoldMoves, OutstandingIs
    <3> QED
      BY <1>0, <2>1, <2>3, <3>1, <3>3, EntersGate
  <2> QED
    BY <2>2, <2>3
<1>4. CASE RequestChainStop
  BY <1>0, <1>4, HoldStays DEF RequestChainStop, StopHolds, gate, users, context
<1>5. CASE CloseWorker
  BY <1>0, <1>5, HoldStays DEF CloseWorker, StopHolds, gate, users, context
<1>6. CASE CloseReturns
  BY <1>0, <1>6, HoldStays DEF CloseReturns, StopHolds, gate, users, context
<1>7. CASE AwaitBatchChain
  <2>1. /\ stopPc = "wait" /\ stopPc' = "then" /\ aborted = "no"
        /\ UNCHANGED <<pending, finalized, destroyPc, root, job, listener, cb>>
    BY <1>7 DEF AwaitBatchChain, gate, users, context
  <2>2. aborted' = "no"
    BY <1>0, <1>7, <2>1, Counted, DeferIs DEF AwaitBatchChain
  <2> QED
    BY <1>0, <2>1, <2>2, HoldStays DEF StopHolds
<1>8. CASE AwaitBatchGate
  <2>1. cb = "none" /\ stopPc = "then" /\ cb' \in {"none", "finish"} /\ stopPc' \in {"done", "callback"}
    BY <1>0, <1>8, Counted DEF AwaitBatchGate
  <2> QED
    BY <1>0, <1>8, <2>1, HoldStays DEF AwaitBatchGate, StopHolds, gate, users, context
<1>9. CASE StopReturns
  BY <1>0, <1>9, HoldStays DEF StopReturns, StopHolds, gate, users, context
<1> QED
  BY <1>1, <1>2, <1>3, <1>4, <1>5, <1>6, <1>7, <1>8, <1>9 DEF StopStep

\* The hold of stop() ends in its callback, once.
LEMMA CallbackStands ==
    ASSUME LoopCore, CallbackStep
    PROVE  GateStands'
<1>0. StopAgrees /\ LoopTypeOK /\ LoopCore
  BY DEF LoopCore
<1>1. CASE CallbackFinish
  <2>1. pending >= 1 /\ CallbackThread \in Threads /\ FinishCount(CallbackThread)
    BY <1>0, <1>1, Counted, ThreadsAre DEF CallbackFinish
  <2>2. /\ aborted = "no" /\ cb = "finish" /\ cb' = "idle" /\ stopPc \in {"callback", "done"}
        /\ UNCHANGED <<destroyPc, root, job, listener, stopPc>>
    BY <1>0, <1>1 DEF CallbackFinish, StopAgrees, call, users, context
  <2>3. One(StopHolds) = 1 /\ One(StopHolds)' = 0
    BY <2>2 DEF One, StopHolds
  <2>4. Outstanding' = Outstanding - 1
    BY <2>2, <2>3, HoldMoves, OutstandingIs
  <2> QED
    BY <1>0, <2>1, <2>2, <2>4, LeavesGate
<1>2. CASE AwaitIdle
  BY <1>0, <1>2, HoldStays DEF AwaitIdle, StopHolds, gate, call, users, context
<1>3. CASE Seal
  <2>1. /\ cb \in {"seal", "drained"} /\ cb' = "done" /\ aborted = "no" /\ aborted' = "no"
        /\ UNCHANGED <<pending, destroyPc, root, job, listener, stopPc>>
    BY <1>3 DEF Seal, call, users, context
  <2>2. One(StopHolds) = 0 /\ One(StopHolds)' = 0
    BY <2>1 DEF One, StopHolds
  <2>3. Outstanding' = Outstanding
    BY <2>1, <2>2, HoldMoves, OutstandingIs
  <2>4. UNCHANGED finalized \/ pending = 0
    BY <1>3 DEF Seal, Take
  <2> QED
    BY <1>0, <2>1, <2>3, <2>4 DEF LoopCore, GateStands, GateCounts, TerminatesOnlyOnPending
<1>4. CASE DeferFinalize
  BY <1>0, <1>4, AsideOfGate DEF DeferFinalize, call, users, context
<1> QED
  BY <1>1, <1>2, <1>3, <1>4 DEF CallbackStep

\* A callback that starts is counted as it was.
LEMMA StartedStands ==
    ASSUME LoopCore, NEW h \in Listeners, Started(h), aborted = "no", aborted' = "no",
           UNCHANGED <<pending, finalized, destroyPc, root, job, stopPc, cb>>
    PROVE  GateStands'
<1>0. LoopTypeOK
  BY DEF LoopCore
<1>1. PICK s : s = IF listener[h] = "begun" THEN "running" ELSE listener[h]
  OBVIOUS
<1>2. listener' = [listener EXCEPT ![h] = s]
  BY <1>1 DEF Started
<1>3. StopHolds' <=> StopHolds
  BY DEF StopHolds
<1>4. One(listener[h] \in Called) = One(s \in Called) /\ One(s \in Called) \in Nat
  BY <1>1 DEF One, Called
<1>5. Outstanding' = Outstanding - One(listener[h] \in Called) + One(s \in Called)
  BY <1>0, <1>2, <1>3, ListenerMoves
<1>6. Outstanding' = Outstanding
  BY <1>4, <1>5, OutstandingIs
<1> QED
  BY <1>6, StaysInGate

\* A stop callback enters the gate from the batch, before the gate can be
\* sealed.
LEMMA BatchStands ==
    ASSUME LoopCore, LoopBatchStep
    PROVE  GateStands'
<1>0. StopAgrees /\ LoopTypeOK /\ LoopCore
  BY DEF LoopCore
<1>1. CASE NotifyListener
  <2>1. /\ aborted = "no" /\ UNCHANGED <<destroyPc, root, job, stopPc, cb>> /\ pin \in Listeners
        /\ \/ UNCHANGED <<gate, listener, hand, aborted>>
           \/ stage = "stopping" /\ WorkerStopping(pin)
    BY <1>0, <1>1 DEF NotifyListener, Callback, LoopCore, HookCore, TypeOK, Listeners, call, context
  <2>2. CASE UNCHANGED <<gate, listener, hand, aborted>>
    BY <1>0, <2>1, <2>2, AsideOfGate DEF gate
  <2>3. CASE stage = "stopping" /\ aborted' = "begin" /\ (sealed \/ finalized) /\ UNCHANGED <<gate, listener, hand>>
    <3>1. destroyPc = "count" /\ pending >= 1 /\ pending' = pending
      BY <1>0, <2>1, <2>3, BeginRefused DEF gate
    <3>2. Outstanding' = Outstanding /\ pending = Outstanding
      <4>1. pending = Outstanding
        BY <1>0 DEF LoopCore, GateCounts
      <4>2. UNCHANGED <<root, job, listener, stopPc, cb>>
        BY <2>1, <2>3
      <4> QED
        BY <4>1, <4>2 DEF Outstanding, Count, StopHolds
    <3>3. pending > 0
      BY <1>0, <3>1 DEF LoopTypeOK
    <3> QED
      BY <2>1, <2>3, <3>1, <3>2, <3>3 DEF GateStands, GateCounts, TerminatesOnlyOnPending
  <2>4. CASE /\ listener[pin] = "idle" /\ ~finalized /\ pending' = pending + 1
             /\ listener' = [listener EXCEPT ![pin] = "begun"] /\ UNCHANGED <<finalized, aborted>>
    <3>1. StopHolds' <=> StopHolds
      BY <2>1 DEF StopHolds
    <3>2. One(listener[pin] \in Called) = 0 /\ One("begun" \in Called) = 1
      BY <2>4 DEF One, Called
    <3>3. Outstanding' = Outstanding - One(listener[pin] \in Called) + One("begun" \in Called)
      BY <1>0, <2>1, <2>4, <3>1, ListenerMoves
    <3>4. Outstanding' = Outstanding + 1
      BY <3>2, <3>3, OutstandingIs
    <3> QED
      BY <1>0, <2>1, <2>4, <3>4, EntersGate
  <2> QED
    BY <2>1, <2>2, <2>3, <2>4 DEF WorkerStopping
<1>2. CASE NotifyLoop
  <2>1. /\ aborted = "no" /\ UNCHANGED <<pending, finalized, destroyPc, root, job, listener, cb, aborted>>
        /\ UNCHANGED stopPc \/ (~stopping /\ stopPc' = "roots")
    BY <1>2 DEF NotifyLoop, gate, call, users, context
  <2>2. ~stopping => stopPc = "none"
    BY <1>0 DEF StopAgrees
  <2> QED
    BY <1>0, <2>1, <2>2, HoldStays DEF StopHolds
<1>3. CASE HandOver
  <2>1. /\ aborted = "no" /\ UNCHANGED <<pending, finalized, destroyPc, root, job, stopPc, cb>>
        /\ pin \in Listeners /\ stage = "stopping"
    BY <1>0, <1>3 DEF HandOver, LoopCore, HandlersAgree, gate, call, context
  <2>2. CASE runner = "worker"
    BY <1>0, <1>3, <2>1, <2>2, StartedStands DEF HandOver
  <2>3. CASE runner # "worker"
    <3>1. aborted' = "no" /\ UNCHANGED listener
      BY <1>0, <1>3, <2>1, <2>3, BatchCounted, DeferIs DEF HandOver
    <3> QED
      BY <1>0, <2>1, <3>1, AsideOfGate
  <2> QED
    BY <2>2, <2>3
<1>4. CASE WalkOn
  BY <1>0, <1>4, AsideOfGate DEF WalkOn, loopVars, gate, call, users, context
<1>5. CASE NotifyNext
  <2>1. /\ aborted = "no" /\ stage = "notify" /\ taken \in Seq(Waiters)
        /\ UNCHANGED <<pending, finalized, destroyPc, root, job, listener, stopPc>>
    BY <1>0, <1>5 DEF NotifyNext, NotifyWaiters, LoopCore, HookCore, TypeOK, gate, call, users, context
  <2>2. aborted' = "no"
    BY <1>0, <1>5, <2>1, BatchCounted, DeferIs DEF NotifyNext
  <2>3. CASE UNCHANGED cb
    BY <1>0, <2>1, <2>2, <2>3, AsideOfGate
  <2>4. CASE taken # << >> /\ Head(taken) = Gate /\ cb' = "finish"
    <3>1. Gate \in Elems(taken)
      BY <2>1, <2>4, ChainTail
    <3>2. stopPc = "done" /\ cb = "none"
      BY <1>0, <3>1 DEF StopAgrees
    <3> QED
      BY <1>0, <2>1, <2>2, <2>4, <3>2, HoldStays DEF StopHolds
  <2> QED
    BY <1>5, <2>3, <2>4 DEF NotifyNext
<1> QED
  BY <1>1, <1>2, <1>3, <1>4, <1>5 DEF LoopBatchStep

\* An entry leaves the gate, or moves and is counted as it was.
LEMMA RootStands ==
    ASSUME LoopCore, NEW r \in Roots, NEW s, root' = [root EXCEPT ![r] = s], root[r] \in Out,
           UNCHANGED <<job, listener, destroyPc>>, StopHolds' <=> StopHolds, aborted = "no",
           \/ s \in Out /\ UNCHANGED <<pending, finalized, aborted>>
           \/ s \notin Out /\ \E on \in Threads : FinishCount(on)
    PROVE  GateStands'
<1>0. LoopTypeOK /\ pending >= 1
  BY Counted DEF LoopCore, Out
<1>1. Outstanding' = Outstanding - One(root[r] \in Out) + One(s \in Out)
  BY <1>0, RootMoves
<1>2. One(root[r] \in Out) = 1
  BY DEF One
<1>3. CASE s \in Out
  <2>1. One(s \in Out) = 1
    BY <1>3 DEF One
  <2> QED
    BY <1>1, <1>2, <1>3, <2>1, OutstandingIs, StaysInGate
<1>4. CASE s \notin Out
  <2>1. One(s \in Out) = 0
    BY <1>4 DEF One
  <2>2. Outstanding' = Outstanding - 1
    BY <1>1, <1>2, <2>1, OutstandingIs
  <2> QED
    BY <1>0, <1>4, <2>2, LeavesGate
<1> QED
  BY <1>3, <1>4

\* A cleanup moves.
LEMMA JobStands ==
    ASSUME LoopCore, NEW j \in Jobs, NEW s, job' = [job EXCEPT ![j] = s],
           UNCHANGED <<root, listener, destroyPc>>, StopHolds' <=> StopHolds, aborted = "no",
           \/ (job[j] \in CleaningUp <=> s \in CleaningUp) /\ UNCHANGED <<pending, finalized, aborted>>
           \/ job[j] \in CleaningUp /\ s \notin CleaningUp /\ \E on \in Threads : FinishCount(on)
           \/ /\ job[j] \notin CleaningUp /\ s \in CleaningUp
              /\ pending' = pending + 1 /\ ~finalized /\ UNCHANGED <<finalized, aborted>>
    PROVE  GateStands'
<1>0. LoopTypeOK
  BY DEF LoopCore
<1>1. Outstanding' = Outstanding - One(job[j] \in CleaningUp) + One(s \in CleaningUp)
  BY <1>0, JobMoves
<1>2. CASE (job[j] \in CleaningUp <=> s \in CleaningUp) /\ UNCHANGED <<pending, finalized, aborted>>
  <2>1. One(job[j] \in CleaningUp) = One(s \in CleaningUp) /\ One(s \in CleaningUp) \in Nat
    BY <1>2 DEF One
  <2>2. Outstanding' = Outstanding
    BY <1>1, <2>1, OutstandingIs
  <2> QED
    BY <1>2, <2>2, StaysInGate
<1>3. CASE job[j] \in CleaningUp /\ s \notin CleaningUp /\ \E on \in Threads : FinishCount(on)
  <2>1. One(job[j] \in CleaningUp) = 1 /\ One(s \in CleaningUp) = 0 /\ pending >= 1
    BY <1>3, Counted DEF One, CleaningUp
  <2>2. Outstanding' = Outstanding - 1
    BY <1>1, <2>1, OutstandingIs
  <2> QED
    BY <1>3, <2>1, <2>2, LeavesGate
<1>4. CASE /\ job[j] \notin CleaningUp /\ s \in CleaningUp
           /\ pending' = pending + 1 /\ ~finalized /\ UNCHANGED <<finalized, aborted>>
  <2>1. One(job[j] \in CleaningUp) = 0 /\ One(s \in CleaningUp) = 1
    BY <1>4 DEF One
  <2>2. Outstanding' = Outstanding + 1
    BY <1>1, <2>1, OutstandingIs
  <2> QED
    BY <1>4, <2>2, EntersGate
<1> QED
  BY <1>2, <1>3, <1>4

\* A stop callback moves.
LEMMA ListenerStands ==
    ASSUME LoopCore, NEW h \in Listeners, NEW s, listener' = [listener EXCEPT ![h] = s], s \notin Called,
           UNCHANGED <<root, job, destroyPc>>, StopHolds' <=> StopHolds, aborted = "no",
           \/ listener[h] \notin Called /\ UNCHANGED <<pending, finalized, aborted>>
           \/ listener[h] \in Called /\ \E on \in Threads : FinishCount(on)
    PROVE  GateStands'
<1>0. LoopTypeOK
  BY DEF LoopCore
<1>1. Outstanding' = Outstanding - One(listener[h] \in Called) + One(s \in Called)
  BY <1>0, ListenerMoves
<1>2. One(s \in Called) = 0
  BY DEF One
<1>3. CASE listener[h] \notin Called /\ UNCHANGED <<pending, finalized, aborted>>
  <2>1. One(listener[h] \in Called) = 0
    BY <1>3 DEF One
  <2>2. Outstanding' = Outstanding
    BY <1>1, <1>2, <2>1, OutstandingIs
  <2> QED
    BY <1>3, <2>2, StaysInGate
<1>4. CASE listener[h] \in Called /\ \E on \in Threads : FinishCount(on)
  <2>1. One(listener[h] \in Called) = 1 /\ pending >= 1
    BY <1>4, Counted DEF One, Called
  <2>2. Outstanding' = Outstanding - 1
    BY <1>1, <1>2, <2>1, OutstandingIs
  <2> QED
    BY <1>4, <2>1, <2>2, LeavesGate
<1> QED
  BY <1>3, <1>4

\* Roots, stop callbacks and cleanups are counted.
LEMMA UserStands ==
    ASSUME LoopCore,
           \/ \E h \in Listeners : RegisterListener(h) \/ ResetListener(h) \/ ListenerEnds(h)
           \/ \E h \in Hooks : ReleaseOwner(h)
           \/ \E r \in Roots : AcquireRoot(r) \/ PostRoot(r) \/ RootEnds(r)
           \/ \E j \in Jobs : PostJob(j) \/ BeginCleanup(j) \/ DeferCleanup(j)
    PROVE  GateStands'
<1>0. LoopTypeOK /\ LoopCore /\ "worker" \in Threads /\ "other" \in Threads
  BY ThreadsAre DEF LoopCore
<1> DEFINE Rest == aborted = "no" /\ UNCHANGED <<destroyPc, stopPc, cb>>
<1>1. ASSUME NEW h, RegisterListener(h) \/ ReleaseOwner(h) PROVE GateStands'
  BY <1>0, <1>1, AsideOfGate DEF RegisterListener, ReleaseOwner, loopVars, gate, call, users, context
<1>2. ASSUME Rest PROVE StopHolds' <=> StopHolds
  BY <1>2 DEF StopHolds
<1>3. ASSUME NEW h \in Listeners, ResetListener(h) PROVE GateStands'
  <2>1. Rest /\ UNCHANGED <<root, job>>
    BY <1>3 DEF ResetListener, call, context
  <2>2. CASE listener[h] \in {"idle", "begun"}
    <3>1. listener' = [listener EXCEPT ![h] = "cancelled"] /\ "cancelled" \notin Called
      BY <1>3, <2>2 DEF ResetListener, Called
    <3>2. \/ listener[h] \notin Called /\ UNCHANGED <<pending, finalized, aborted>>
          \/ listener[h] \in Called /\ FinishCount("other")
      BY <1>3, <2>2 DEF ResetListener, Called, gate
    <3> QED
      BY <1>0, <1>2, <2>1, <3>1, <3>2, ListenerStands
  <2>3. CASE listener[h] \notin {"idle", "begun"}
    <3>1. UNCHANGED <<listener, pending, finalized, aborted>>
      BY <1>3, <2>3 DEF ResetListener, gate
    <3> QED
      BY <1>0, <2>1, <3>1, AsideOfGate
  <2> QED
    BY <2>2, <2>3
<1>4. ASSUME NEW h \in Listeners, ListenerEnds(h) PROVE GateStands'
  <2>1. /\ Rest /\ UNCHANGED <<root, job>> /\ FinishCount("worker")
        /\ listener' = [listener EXCEPT ![h] = "done"] /\ "done" \notin Called /\ listener[h] \in Called
    BY <1>4 DEF ListenerEnds, WorkerFree, WorkerIdle, Called, call, context
  <2> QED
    BY <1>0, <1>2, <2>1, ListenerStands
<1>5. ASSUME NEW r \in Roots, AcquireRoot(r) PROVE GateStands'
  <2>1. /\ Rest /\ UNCHANGED <<job, listener, finalized, aborted>> /\ ~finalized /\ pending' = pending + 1
        /\ root' = [root EXCEPT ![r] = "leased"] /\ root[r] = "none"
    BY <1>5 DEF AcquireRoot, call, context
  <2>2. One(root[r] \in Out) = 0 /\ One("leased" \in Out) = 1
    BY <2>1 DEF One, Out
  <2>3. Outstanding' = Outstanding - One(root[r] \in Out) + One("leased" \in Out)
    BY <1>0, <1>2, <2>1, RootMoves
  <2>4. Outstanding' = Outstanding + 1
    BY <2>2, <2>3, OutstandingIs
  <2> QED
    BY <1>0, <2>1, <2>4, EntersGate
<1>6. ASSUME NEW r \in Roots, PostRoot(r) PROVE GateStands'
  <2>1. Rest /\ UNCHANGED <<job, listener>> /\ root[r] \in Out /\ "posted" \in Out /\ "done" \notin Out
    BY <1>6 DEF PostRoot, Out, call, context
  <2>2. \/ root' = [root EXCEPT ![r] = "posted"] /\ UNCHANGED <<pending, finalized, aborted>>
        \/ root' = [root EXCEPT ![r] = "done"] /\ FinishCount("other")
    BY <1>6 DEF PostRoot, gate
  <2> QED
    BY <1>0, <1>2, <2>1, <2>2, RootStands
<1>7. ASSUME NEW r \in Roots, RootEnds(r) PROVE GateStands'
  <2>1. /\ Rest /\ UNCHANGED <<job, listener>> /\ root[r] \in Out /\ "done" \notin Out
        /\ root' = [root EXCEPT ![r] = "done"] /\ FinishCount("worker")
    BY <1>7 DEF RootEnds, WorkerFree, WorkerIdle, Out, call, context
  <2> QED
    BY <1>0, <1>2, <2>1, RootStands
<1>8. ASSUME NEW j \in Jobs, PostJob(j) \/ BeginCleanup(j) PROVE GateStands'
  <2>1. /\ Rest /\ UNCHANGED <<root, listener, finalized, aborted>> /\ job[j] \notin CleaningUp
        /\ "posted" \notin CleaningUp /\ "refused" \notin CleaningUp /\ "begun" \in CleaningUp
    BY <1>8 DEF PostJob, BeginCleanup, CleaningUp, gate, call, context
  <2>2. \/ job' = [job EXCEPT ![j] = "posted"] /\ UNCHANGED pending
        \/ job' = [job EXCEPT ![j] = "refused"] /\ UNCHANGED pending
        \/ job' = [job EXCEPT ![j] = "begun"] /\ pending' = pending + 1 /\ ~finalized
    BY <1>8 DEF PostJob, BeginCleanup, gate
  <2> QED
    BY <1>0, <1>2, <2>1, <2>2, JobStands
<1>9. ASSUME NEW j \in Jobs, DeferCleanup(j) PROVE GateStands'
  <2>1. /\ Rest /\ UNCHANGED <<root, listener>> /\ job[j] \in CleaningUp
        /\ "queued" \in CleaningUp /\ "refused" \notin CleaningUp
    BY <1>9 DEF DeferCleanup, CleaningUp, call, context
  <2>2. \/ job' = [job EXCEPT ![j] = "queued"] /\ UNCHANGED <<pending, finalized, aborted>>
        \/ job' = [job EXCEPT ![j] = "refused"] /\ FinishCount("other")
    BY <1>9 DEF DeferCleanup, gate
  <2> QED
    BY <1>0, <1>2, <2>1, <2>2, JobStands
<1> QED
  BY <1>1, <1>3, <1>4, <1>5, <1>6, <1>7, <1>8, <1>9

\* The worker runs what is counted; a destroyed context counts what is left.
LEMMA WorkerStands ==
    ASSUME LoopCore,
           \/ WorkerStep \/ WorkerFails \/ CloseAdmission \/ DestroyStep
           \/ \E x \in Roots \cup Jobs : PostStep(x)
    PROVE  GateStands'
<1>0. LoopTypeOK /\ LoopCore /\ "worker" \in Threads /\ queue \in Seq(Handlers)
  BY ThreadsAre DEF LoopCore, LoopTypeOK
<1>1. CASE ApplyStop \/ FinalizeChain \/ FinalizeHook \/ WorkerFails
  BY <1>0, <1>1, AsideOfGate
     DEF ApplyStop, FinalizeChain, FinalizeHook, WorkerFails, Pop, WorkerFree, WorkerIdle, gate, chain, call, users,
         context
<1>2. ASSUME NEW h \in Listeners, RunListener(h) PROVE GateStands'
  BY <1>0, <1>2, StartedStands DEF RunListener, Pop, WorkerFree, WorkerIdle, gate, call, context
<1>3. ASSUME NEW j \in Jobs, RunCleanup(j) PROVE GateStands'
  <2>1. /\ queue # << >> /\ Head(queue) = j /\ FinishCount("worker") /\ aborted = "no"
        /\ job' = [job EXCEPT ![j] = "done"] /\ UNCHANGED <<root, listener, destroyPc, stopPc, cb>>
        /\ "done" \notin CleaningUp
    BY <1>3 DEF RunCleanup, Pop, WorkerFree, WorkerIdle, call, context, CleaningUp
  <2>2. j \in Elems(queue)
    BY <1>0, <2>1, ChainTail
  <2>3. job[j] \in CleaningUp
    BY <1>0, <2>2 DEF LoopCore, HandlersAgree, CleaningUp
  <2>4. StopHolds' <=> StopHolds
    BY <2>1 DEF StopHolds
  <2> QED
    BY <1>0, <2>1, <2>3, <2>4, JobStands
<1>4. ASSUME UNCHANGED <<pending, stopPc, cb, root, job, listener>>
      PROVE  pending' = Outstanding'
  BY <1>0, <1>4 DEF LoopCore, GateCounts, Outstanding, Count, StopHolds
<1>5. CASE CloseAdmission
  <2>1. /\ UNCHANGED <<pending, stopPc, cb, root, job, listener>> /\ destroyPc' = "count" /\ aborted' = "no"
    BY <1>5 DEF CloseAdmission, WorkerFree, WorkerIdle, call, users
  <2> QED
    BY <1>4, <2>1 DEF GateStands, GateCounts, TerminatesOnlyOnPending
<1>6. CASE CountPending
  <2>1. /\ UNCHANGED <<pending, stopPc, cb, root, job, listener>> /\ destroyPc' = "abandon"
        /\ aborted' = IF pending = 0 THEN "no" ELSE "context_pending"
    BY <1>6 DEF CountPending, gate, call, users
  <2>2. aborted' # "no" => pending > 0
    BY <1>0, <2>1 DEF LoopTypeOK
  <2> QED
    BY <1>4, <2>1, <2>2 DEF GateStands, GateCounts, TerminatesOnlyOnPending
<1>7. CASE Abandon
  <2>1. /\ UNCHANGED <<pending, finalized, stopPc, cb, root, job, listener>> /\ destroyPc = "abandon"
        /\ aborted = "no" /\ aborted' = "no"
    BY <1>7 DEF Abandon, gate, users
  <2> QED
    BY <1>0, <1>4, <2>1 DEF LoopCore, GateStands, GateCounts, TerminatesOnlyOnPending
<1>8. CASE DetachDestroyed
  <2>1. /\ UNCHANGED <<pending, finalized, stopPc, cb, root, listener>> /\ destroyPc \in {"detach", "unlink"}
        /\ aborted = "no" /\ aborted' = "no"
        /\ UNCHANGED job \/ job' = [j \in Jobs |-> IF job[j] = "posted" THEN "done" ELSE job[j]]
    BY <1>8 DEF DetachDestroyed, gate, call
  <2>2. {j \in Jobs : job'[j] \in {"begun", "queued"}} = {j \in Jobs : job[j] \in {"begun", "queued"}}
    BY <2>1
  <2>3. Outstanding' = Outstanding
    BY <2>1, <2>2 DEF Outstanding, Count, StopHolds
  <2> QED
    BY <1>0, <2>1, <2>3 DEF LoopCore, GateStands, GateCounts, TerminatesOnlyOnPending
<1>9. ASSUME NEW x \in Roots \cup Jobs, PostStep(x) PROVE StopHolds' <=> StopHolds
  <2>1. UNCHANGED stopPc /\ (UNCHANGED cb \/ (cb = "parked" /\ cb' = "drained"))
    BY <1>9 DEF PostStep, AbandonPost, StartRoot, RunJob, Drained, call
  <2> QED
    BY <2>1 DEF StopHolds
<1>10. ASSUME NEW x \in Roots \cup Jobs, AbandonPost(x) PROVE GateStands'
  <2>1. UNCHANGED <<listener, destroyPc>> /\ aborted = "no" /\ (StopHolds' <=> StopHolds) /\ x \in Posted
    BY <1>9, <1>10 DEF PostStep, AbandonPost, WorkerIdle, context
  <2>2. CASE x \in Roots
    <3>1. /\ root' = [root EXCEPT ![x] = "done"] /\ FinishCount("worker") /\ UNCHANGED job
          /\ root[x] \in Out /\ "done" \notin Out
      BY <1>10, <2>1, <2>2, LoopAssumption DEF AbandonPost, Posted, Out
    <3> QED
      BY <1>0, <2>1, <2>2, <3>1, RootStands
  <2>3. CASE x \notin Roots
    <3>1. /\ job' = [job EXCEPT ![x] = "done"] /\ UNCHANGED <<root, pending, finalized, aborted>>
          /\ job[x] \notin CleaningUp /\ "done" \notin CleaningUp /\ x \in Jobs
      BY <1>10, <2>1, <2>3 DEF AbandonPost, Posted, CleaningUp, gate
    <3> QED
      BY <1>0, <2>1, <3>1, JobStands
  <2> QED
    BY <2>2, <2>3
<1>11. ASSUME NEW r \in Roots, StartRoot(r) PROVE GateStands'
  <2>1. /\ UNCHANGED <<job, listener, destroyPc, pending, finalized, aborted>> /\ aborted = "no"
        /\ StopHolds' <=> StopHolds
    BY <1>9, <1>11 DEF PostStep, StartRoot, WorkerFree, WorkerIdle, gate, context
  <2>2. root' = [root EXCEPT ![r] = "running"] /\ root[r] \in Out /\ "running" \in Out
    BY <1>11 DEF StartRoot, Out
  <2> QED
    BY <1>0, <2>1, <2>2, RootStands
<1>12. ASSUME NEW j \in Jobs, RunJob(j) PROVE GateStands'
  <2>1. /\ UNCHANGED <<root, listener, destroyPc, finalized, aborted>> /\ aborted = "no"
        /\ StopHolds' <=> StopHolds
    BY <1>9, <1>12 DEF PostStep, RunJob, WorkerFree, WorkerIdle, context
  <2>2. job[j] \notin CleaningUp /\ "denied" \notin CleaningUp /\ "queued" \in CleaningUp
    BY <1>12 DEF RunJob, CleaningUp
  <2>3. \/ job' = [job EXCEPT ![j] = "denied"] /\ UNCHANGED pending
        \/ job' = [job EXCEPT ![j] = "queued"] /\ pending' = pending + 1 /\ ~finalized
    BY <1>12 DEF RunJob
  <2> QED
    BY <1>0, <2>1, <2>2, <2>3, JobStands
<1> QED
  BY <1>1, <1>2, <1>3, <1>5, <1>6, <1>7, <1>8, <1>10, <1>11, <1>12 DEF WorkerStep, DestroyStep, PostStep

\* The gate counts what is outstanding after every step.
LEMMA GateStandsStep == LoopCore /\ [LoopNext]_allVars => GateStands'
<1> SUFFICES ASSUME LoopCore, [LoopNext]_allVars PROVE GateStands'
  OBVIOUS
<1>1. CASE UNCHANGED allVars
  <2>1. UNCHANGED <<pending, finalized, destroyPc, root, job, listener, stopPc, cb, aborted>>
    BY <1>1 DEF allVars, loopVars, gate, call, users, context
  <2>2. GateStands
    BY DEF LoopCore, GateStands
  <2> QED
    BY <2>1, <2>2 DEF GateStands, GateCounts, TerminatesOnlyOnPending, Outstanding, Count, StopHolds
<1> QED
  BY <1>1, StopStands, CallbackStands, BatchStands, UserStands, WorkerStands DEF LoopNext

-----------------------------------------------------------------------------
(* The handlers of the io_context.                                          *)

QueueAgrees == OneControl /\ HandlersAgree

\* Handlers have different names.
LEMMA HandlerNames ==
    /\ "control" \notin Jobs \cup Listeners /\ "finalize" \notin Jobs \cup Listeners
    /\ Jobs \cap Listeners = {} /\ Jobs \cap Roots = {} /\ Chain \in Waiters /\ Chain # Gate
    /\ {"control", "finalize"} \cup Listeners \cup Jobs = Handlers
BY LoopAssumption DEF Listeners, Handlers

\* What leaves the handlers' agreement alone, queue apart.
Keeps ==
    /\ UNCHANGED <<ran, finalization>>
    /\ destroyPc' = "none" /\ released' => destroyPc = "none" /\ released
    /\ called \subseteq called'
    /\ finalizer = "spent" => finalizer' = "spent"
    /\ \A j \in Jobs : job[j] = "queued" => job'[j] = "queued"
    /\ \A h \in Listeners : listener[h] # "idle" => listener'[h] # "idle"
    /\ hand' => hand /\ UNCHANGED <<pin, told, stage>>

\* A step that queues nothing.
LEMMA QueueKept ==
    ASSUME QueueAgrees, Keeps, UNCHANGED queue
    PROVE  QueueAgrees'
BY DEF QueueAgrees, OneControl, HandlersAgree, Keeps

\* A handler is queued in its turn.
LEMMA QueueGrows ==
    ASSUME QueueAgrees, Keeps, queue \in Seq(Handlers), NEW x \in Handlers, queue' = Append(queue, x),
           x \notin Elems(queue),
           x = "control" => Chain \in called' /\ ~ran /\ ~(destroyPc = "none" /\ released),
           x = "finalize" => finalizer' = "spent" /\ ~finalization,
           x \in Jobs => job'[x] = "queued",
           x \in Listeners => listener'[x] # "idle" /\ ~hand'
    PROVE  QueueAgrees'
<1>1. Elems(queue') = Elems(queue) \cup {x} /\ Distinct(queue')
  BY ChainAppend DEF QueueAgrees, OneControl
<1>2. OneControl'
  BY <1>1 DEF QueueAgrees, OneControl, Keeps
<1>3. /\ "control" \in Elems(queue') \/ ran' => Chain \in called'
      /\ ran' /\ ~finalization' => "control" \notin Elems(queue')
      /\ destroyPc' = "none" /\ released' => ran'
      /\ "finalize" \in Elems(queue') \/ finalization' => finalizer' = "spent"
      /\ "finalize" \in Elems(queue') => ~finalization'
  BY <1>1 DEF QueueAgrees, HandlersAgree, Keeps
<1>4. /\ \A j \in Jobs : j \in Elems(queue') => job'[j] = "queued"
      /\ \A h \in Listeners : h \in Elems(queue') => listener'[h] # "idle"
  BY <1>1 DEF QueueAgrees, HandlersAgree, Keeps
<1>5. hand' => /\ pin' \in Listeners /\ told' /\ stage' = "stopping"
               /\ listener'[pin'] # "idle" /\ pin' \notin Elems(queue')
  <2>1. hand' => /\ pin \in Listeners /\ told /\ stage = "stopping" /\ listener'[pin] # "idle"
                 /\ pin \notin Elems(queue) /\ UNCHANGED <<pin, told, stage>>
    BY DEF QueueAgrees, HandlersAgree, Keeps
  <2> QED
    BY <1>1, <2>1
<1> QED
  BY <1>2, <1>3, <1>4, <1>5 DEF QueueAgrees, HandlersAgree

\* A handler other than the finalizer's leaves the queue.
LEMMA QueueShrinks ==
    ASSUME QueueAgrees, queue \in Seq(Handlers), queue # << >>, queue' = Tail(queue),
           UNCHANGED <<called, finalization, destroyPc, hand, pin, told, stage>>,
           finalizer = "spent" => finalizer' = "spent",
           ran' = (ran \/ Head(queue) = "control"),
           released' => released \/ Head(queue) = "control",
           \A j \in Jobs \ {Head(queue)} : job'[j] = job[j],
           \A h \in Listeners : listener[h] # "idle" => listener'[h] # "idle"
    PROVE  QueueAgrees'
<1>1. /\ Elems(queue) = Elems(queue') \cup {Head(queue)} /\ Distinct(queue') /\ Head(queue) \notin Elems(queue')
  BY ChainTail DEF QueueAgrees, OneControl
<1>2. OneControl'
  BY <1>1 DEF QueueAgrees, OneControl
<1>3. /\ "control" \in Elems(queue') \/ ran' => Chain \in called'
      /\ ran' /\ ~finalization' => "control" \notin Elems(queue')
      /\ destroyPc' = "none" /\ released' => ran'
      /\ "finalize" \in Elems(queue') \/ finalization' => finalizer' = "spent"
      /\ "finalize" \in Elems(queue') => ~finalization'
  BY <1>1 DEF QueueAgrees, HandlersAgree
<1>4. /\ \A j \in Jobs : j \in Elems(queue') => job'[j] = "queued"
      /\ \A h \in Listeners : h \in Elems(queue') => listener'[h] # "idle"
  BY <1>1 DEF QueueAgrees, HandlersAgree
<1>5. hand' => /\ pin' \in Listeners /\ told' /\ stage' = "stopping"
               /\ listener'[pin'] # "idle" /\ pin' \notin Elems(queue')
  BY <1>1 DEF QueueAgrees, HandlersAgree
<1> QED
  BY <1>2, <1>3, <1>4, <1>5 DEF QueueAgrees, HandlersAgree

\* stop() queues the control only through the batch.
LEMMA StopHandlers ==
    ASSUME LoopCore, StopStep \/ \E on \in Threads : Stop(on)
    PROVE  QueueAgrees'
<1>0. QueueAgrees /\ LoopTypeOK /\ LoopCore /\ GateShut /\ queue \in Seq(Handlers)
  BY DEF LoopCore, QueueAgrees, LoopTypeOK
<1>1. CASE (\E on \in Threads : Stop(on)) \/ StopRoots \/ RequestChainStop \/ CloseReturns \/ StopReturns
  <2>1. Keeps /\ UNCHANGED queue
    BY <1>1 DEF Keeps, Stop, StopRoots, RequestChainStop, CloseReturns, StopReturns, vars, batch, gate, chain, users,
                context
  <2> QED
    BY <1>0, <2>1, QueueKept
<1>2. CASE StopGate
  <2>1. finalizer = "spent" => sealed \/ finalized
    BY <1>0 DEF GateShut
  <2>2. UNCHANGED finalizer \/ finalizer # "spent"
    BY <1>2, <2>1 DEF StopGate
  <2>3. Keeps /\ UNCHANGED queue
    BY <1>2, <2>2 DEF Keeps, StopGate, vars, batch, chain, users, context
  <2> QED
    BY <1>0, <2>3, QueueKept
<1>3. CASE CloseWorker
  <2>1. /\ UNCHANGED <<queue, ran, finalization, released, destroyPc, called, finalizer, job, listener, hand, pin, told>>
    BY <1>3 DEF CloseWorker, BeginStopping, vars, batch, gate, chain, users, context
  <2>2. hand => ~accepting
    BY <1>0 DEF LoopCore, HandlersAgree, HookCore, Registering
  <2>3. hand => UNCHANGED stage
    BY <1>3, <2>2 DEF CloseWorker, vars, batch
  <2> QED
    BY <1>0, <2>1, <2>3, QueueKept DEF Keeps
<1>4. CASE AwaitBatchChain
  <2>1. /\ UNCHANGED <<ran, finalization, released, destroyPc, finalizer, job, listener, hand, pin, told, stage>>
        /\ called \subseteq called' /\ Chain \notin called /\ aborted = "no" /\ stopPc = "wait"
    BY <1>4 DEF AwaitBatchChain, WhenComplete, batch, gate, chain, users, context
  <2>2. Keeps
    BY <2>1 DEF Keeps
  <2>3. CASE active
    BY <1>0, <1>4, <2>2, <2>3, QueueKept DEF AwaitBatchChain
  <2>4. CASE ~active
    <3>1. queue' = Append(queue, "control") /\ Chain \in called'
      BY <1>0, <1>4, <2>1, <2>4, Counted, DeferIs DEF AwaitBatchChain, WhenComplete
    <3>2. "control" \notin Elems(queue) /\ ~ran /\ ~(destroyPc = "none" /\ released)
      BY <1>0, <2>1 DEF LoopCore, HandlersAgree
    <3>3. "control" \in Handlers /\ "control" # "finalize"
      BY DEF Handlers
    <3> QED
      BY <1>0, <2>2, <3>1, <3>2, <3>3, QueueGrows, HandlerNames
  <2> QED
    BY <2>3, <2>4
<1>5. CASE AwaitBatchGate
  <2>1. Keeps /\ UNCHANGED queue
    BY <1>5 DEF Keeps, AwaitBatchGate, WhenComplete, batch, gate, chain, users, context
  <2> QED
    BY <1>0, <2>1, QueueKept
<1> QED
  BY <1>1, <1>2, <1>3, <1>4, <1>5 DEF StopStep

\* finish() does not unspend the finalizer.
LEMMA FinishSpends ==
    ASSUME LoopTypeOK, pending >= 1, NEW on \in Threads, FinishCount(on)
    PROVE  finalizer = "spent" => finalizer' = "spent"
BY FinishCountIs

\* The callbacks of stop() queue no handler but the finalizer.
LEMMA CallbackHandlers ==
    ASSUME LoopCore, CallbackStep
    PROVE  QueueAgrees'
<1>0. QueueAgrees /\ LoopTypeOK /\ LoopCore /\ queue \in Seq(Handlers)
  BY DEF LoopCore, QueueAgrees, LoopTypeOK
<1>1. CASE CallbackFinish
  <2>1. finalizer = "spent" => finalizer' = "spent"
    BY <1>0, <1>1, Counted, ThreadsAre, FinishSpends DEF CallbackFinish
  <2>2. Keeps /\ UNCHANGED queue
    BY <1>1, <2>1 DEF Keeps, CallbackFinish, vars, batch, chain, users, context
  <2> QED
    BY <1>0, <2>2, QueueKept
<1>2. CASE AwaitIdle \/ Seal
  <2>1. finalizer = "spent" => finalizer' = "spent"
    BY <1>2 DEF AwaitIdle, Seal, Take, gate
  <2>2. UNCHANGED <<queue, ran, finalization, released, destroyPc, called, job, listener, hand, pin, told, stage>>
    BY <1>2 DEF AwaitIdle, Seal, vars, batch, chain, users, context
  <2> QED
    BY <1>0, <2>1, <2>2, QueueKept DEF Keeps
<1>3. CASE DeferFinalize
  <2>1. Keeps /\ finalizer \in Threads /\ finalizer' = "spent"
        /\ queue' \in {queue, Append(queue, "finalize")}
    BY <1>3 DEF Keeps, DeferFinalize, vars, batch, chain, users, context
  <2>2. "finalize" \notin Elems(queue) /\ ~finalization
    BY <1>0, <2>1 DEF QueueAgrees, HandlersAgree, Threads
  <2>3. "finalize" \in Handlers /\ "control" # "finalize"
    BY DEF Handlers
  <2>4. CASE queue' = queue
    BY <1>0, <2>1, <2>4, QueueKept
  <2>5. CASE queue' = Append(queue, "finalize")
    BY <1>0, <2>1, <2>2, <2>3, <2>5, QueueGrows, HandlerNames
  <2> QED
    BY <2>1, <2>4, <2>5
<1> QED
  BY <1>1, <1>2, <1>3 DEF CallbackStep

\* The end of the batch queues the control; a listener is handed over once.
LEMMA BatchHandlers ==
    ASSUME LoopCore, LoopBatchStep
    PROVE  QueueAgrees'
<1>0. QueueAgrees /\ LoopTypeOK /\ LoopCore /\ queue \in Seq(Handlers)
  BY DEF LoopCore, QueueAgrees, LoopTypeOK
<1>1. CASE NotifyListener
  <2>1. /\ UNCHANGED <<queue, ran, finalization, released, destroyPc, called, job, stage, pin>> /\ told' = TRUE /\ ~told
        /\ pin \in Listeners
        /\ \/ UNCHANGED <<gate, listener, hand, aborted>>
           \/ stage = "stopping" /\ WorkerStopping(pin)
    BY <1>0, <1>1 DEF NotifyListener, Callback, LoopCore, HookCore, TypeOK, Listeners, chain, context
  <2>2. ~hand
    BY <1>0, <2>1 DEF QueueAgrees, HandlersAgree
  <2>3. CASE UNCHANGED <<finalizer, listener, hand>>
    BY <1>0, <2>1, <2>2, <2>3, QueueKept DEF Keeps
  <2>4. CASE /\ stage = "stopping" /\ listener[pin] = "idle" /\ UNCHANGED finalizer
             /\ listener' = [listener EXCEPT ![pin] = "begun"] /\ hand' = TRUE
    <3>1. pin \notin Elems(queue)
      BY <1>0, <2>1, <2>4 DEF QueueAgrees, HandlersAgree
    <3>2. listener'[pin] = "begun" /\ \A h \in Listeners : listener[h] # "idle" => listener'[h] # "idle"
      BY <1>0, <2>1, <2>4 DEF LoopTypeOK
    <3> QED
      BY <1>0, <2>1, <2>4, <3>1, <3>2 DEF QueueAgrees, OneControl, HandlersAgree
  <2> QED
    BY <2>1, <2>3, <2>4 DEF WorkerStopping, gate
<1>2. CASE NotifyLoop
  <2>1. ~hand
    BY <1>0, <1>2 DEF NotifyLoop, Callback, QueueAgrees, HandlersAgree
  <2>2. Keeps /\ UNCHANGED queue
    BY <1>2, <2>1 DEF Keeps, NotifyLoop, Callback, gate, chain, users, context
  <2> QED
    BY <1>0, <2>2, QueueKept
<1>3. CASE HandOver
  <2>1. /\ UNCHANGED <<ran, finalization, released, destroyPc, called, finalizer, job>>
        /\ aborted = "no" /\ hand /\ hand' = FALSE
    BY <1>3 DEF HandOver, vars, gate, chain, context
  <2>2. pin \in Listeners /\ stage = "stopping" /\ listener[pin] # "idle" /\ pin \notin Elems(queue)
    BY <1>0, <2>1 DEF QueueAgrees, HandlersAgree
  <2>3. CASE runner = "worker"
    <3>1. \A h \in Listeners : listener[h] # "idle" => listener'[h] # "idle"
      BY <1>0, <1>3, <2>2, <2>3 DEF LoopTypeOK, HandOver, Started
    <3>2. Keeps /\ UNCHANGED queue
      BY <1>3, <2>1, <2>3, <3>1 DEF Keeps, HandOver
    <3> QED
      BY <1>0, <3>2, QueueKept
  <2>4. CASE runner # "worker"
    <3>1. queue' = Append(queue, pin) /\ UNCHANGED listener
      BY <1>0, <1>3, <2>1, <2>2, <2>4, BatchCounted, DeferIs DEF HandOver
    <3>2. Keeps
      BY <2>1, <3>1 DEF Keeps
    <3>3. pin \in Handlers /\ pin # "control" /\ pin # "finalize" /\ pin \notin Jobs
      BY <2>2, HandlerNames
    <3> QED
      BY <1>0, <2>1, <2>2, <3>1, <3>2, <3>3, QueueGrows
  <2> QED
    BY <2>3, <2>4
<1>4. CASE WalkOn
  <2>1. Keeps /\ UNCHANGED queue
    BY <1>4 DEF Keeps, WalkOn, WalkFirst, WalkNext, DropPin, Finish, loopVars, gate, chain, users, context
  <2> QED
    BY <1>0, <2>1, QueueKept
<1>5. CASE NotifyNext
  <2>1. /\ UNCHANGED <<ran, finalization, released, destroyPc, finalizer, job, listener, hand>>
        /\ aborted = "no" /\ stage = "notify" /\ called \subseteq called'
    BY <1>5 DEF NotifyNext, NotifyWaiters, gate, chain, users, context
  <2>2. ~hand
    BY <1>0, <2>1 DEF QueueAgrees, HandlersAgree
  <2>3. Keeps
    BY <2>1, <2>2 DEF Keeps
  <2>4. CASE taken # << >> /\ Head(taken) = Chain
    <3>1. Chain \notin called
      <4>1. taken \in Seq(Waiters) /\ Elems(taken) \cap called = {}
        BY <1>0 DEF LoopCore, HookCore, TypeOK, WaitersOnce
      <4>2. Chain \in Elems(taken)
        BY <2>4, <4>1, ChainTail
      <4> QED
        BY <4>1, <4>2
    <3>2. queue' = Append(queue, "control") /\ Chain \in called'
      BY <1>0, <1>5, <2>1, <2>4, BatchCounted, DeferIs DEF NotifyNext, NotifyWaiters
    <3>3. "control" \notin Elems(queue) /\ ~ran /\ ~(destroyPc = "none" /\ released)
      BY <1>0, <3>1 DEF QueueAgrees, HandlersAgree
    <3>4. "control" \in Handlers /\ "control" # "finalize"
      BY DEF Handlers
    <3> QED
      BY <1>0, <2>3, <3>2, <3>3, <3>4, QueueGrows, HandlerNames
  <2>5. CASE ~(taken # << >> /\ Head(taken) = Chain)
    BY <1>0, <1>5, <2>3, <2>5, QueueKept DEF NotifyNext
  <2> QED
    BY <2>4, <2>5
<1> QED
  BY <1>1, <1>2, <1>3, <1>4, <1>5 DEF LoopBatchStep

\* A cleanup is queued once; the last finish() queues the finalizer.
LEMMA UserHandlers ==
    ASSUME LoopCore,
           \/ \E h \in Listeners : RegisterListener(h) \/ ResetListener(h) \/ ListenerEnds(h)
           \/ \E h \in Hooks : ReleaseOwner(h)
           \/ \E r \in Roots : AcquireRoot(r) \/ PostRoot(r) \/ RootEnds(r)
           \/ \E j \in Jobs : PostJob(j) \/ BeginCleanup(j) \/ DeferCleanup(j)
    PROVE  QueueAgrees'
<1>0. /\ QueueAgrees /\ LoopTypeOK /\ LoopCore /\ "worker" \in Threads /\ "other" \in Threads
      /\ queue \in Seq(Handlers)
  BY ThreadsAre DEF LoopCore, QueueAgrees, LoopTypeOK
<1> DEFINE Rest == UNCHANGED <<ran, finalization, released, destroyPc, called, hand, pin, told, stage>>
<1>1. ASSUME NEW h, RegisterListener(h) \/ ReleaseOwner(h) PROVE QueueAgrees'
  <2>1. Keeps /\ UNCHANGED queue
    BY <1>1 DEF Keeps, RegisterListener, RegisterTest, RegisterLink, ReleaseOwner, Release, Unlink, loopVars, batch,
                gate, chain, users, context
  <2> QED
    BY <1>0, <2>1, QueueKept
<1>2. ASSUME NEW h \in Listeners, ResetListener(h) \/ ListenerEnds(h) PROVE QueueAgrees'
  <2>1. Rest /\ UNCHANGED <<queue, job>>
    BY <1>2 DEF ResetListener, ListenerEnds, vars, batch, chain, context
  <2>2. finalizer = "spent" => finalizer' = "spent"
    BY <1>0, <1>2, Counted, FinishSpends DEF ResetListener, ListenerEnds, gate
  <2>3. \A g \in Listeners : listener[g] # "idle" => listener'[g] # "idle"
    BY <1>0, <1>2 DEF LoopTypeOK, ResetListener, ListenerEnds
  <2> QED
    BY <1>0, <2>1, <2>2, <2>3, QueueKept DEF Keeps
<1>3. ASSUME NEW r \in Roots, AcquireRoot(r) \/ PostRoot(r) \/ RootEnds(r) PROVE QueueAgrees'
  <2>1. Rest /\ UNCHANGED <<queue, job, listener>>
    BY <1>3 DEF AcquireRoot, PostRoot, RootEnds, vars, batch, chain, context
  <2>2. finalizer = "spent" => finalizer' = "spent"
    BY <1>0, <1>3, Counted, FinishSpends DEF AcquireRoot, PostRoot, RootEnds, gate
  <2> QED
    BY <1>0, <2>1, <2>2, QueueKept DEF Keeps
<1>4. ASSUME NEW j \in Jobs, PostJob(j) \/ BeginCleanup(j) PROVE QueueAgrees'
  <2>1. Rest /\ UNCHANGED <<queue, finalizer, listener>> /\ job[j] = "none"
    BY <1>4 DEF PostJob, BeginCleanup, vars, batch, gate, chain, context
  <2>2. \A x \in Jobs : x # j => job'[x] = job[x]
    BY <1>0, <1>4 DEF LoopTypeOK, PostJob, BeginCleanup
  <2> QED
    BY <1>0, <2>1, <2>2, QueueKept DEF Keeps
<1>5. ASSUME NEW j \in Jobs, DeferCleanup(j) PROVE QueueAgrees'
  <2>1. Rest /\ UNCHANGED listener /\ job[j] = "begun"
    BY <1>5 DEF DeferCleanup, vars, batch, chain, context
  <2>2. \A x \in Jobs : x # j => job'[x] = job[x]
    BY <1>0, <1>5 DEF LoopTypeOK, DeferCleanup
  <2>3. finalizer = "spent" => finalizer' = "spent"
    BY <1>0, <1>5, Counted, FinishSpends DEF DeferCleanup, gate
  <2>4. Keeps
    BY <2>1, <2>2, <2>3 DEF Keeps
  <2>5. CASE attached
    <3>1. queue' = Append(queue, j) /\ job'[j] = "queued"
      BY <1>0, <1>5, <2>5 DEF DeferCleanup, LoopTypeOK
    <3>2. j \notin Elems(queue)
      BY <1>0, <2>1 DEF QueueAgrees, HandlersAgree
    <3>3. j \in Handlers /\ j # "control" /\ j # "finalize" /\ j \notin Listeners
      BY HandlerNames
    <3> QED
      BY <1>0, <2>4, <3>1, <3>2, <3>3, QueueGrows
  <2>6. CASE ~attached
    BY <1>0, <1>5, <2>4, <2>6, QueueKept DEF DeferCleanup
  <2> QED
    BY <2>5, <2>6
<1> QED
  BY <1>1, <1>2, <1>3, <1>4, <1>5

\* The worker takes handlers in order; the finalizer queues the control again.
LEMMA WorkerHandlers ==
    ASSUME LoopCore,
           \/ WorkerStep \/ WorkerFails \/ CloseAdmission \/ DestroyStep
           \/ \E x \in Roots \cup Jobs : PostStep(x)
    PROVE  QueueAgrees'
<1>0. QueueAgrees /\ LoopTypeOK /\ LoopCore /\ "worker" \in Threads /\ queue \in Seq(Handlers)
  BY ThreadsAre DEF LoopCore, QueueAgrees, LoopTypeOK
<1> DEFINE Rest == UNCHANGED <<ran, finalization, released, destroyPc, called, hand, pin, told, stage>>
<1>1. CASE ApplyStop
  <2>1. /\ queue # << >> /\ queue' = Tail(queue) /\ Head(queue) = "control" /\ ran' = TRUE
        /\ UNCHANGED <<called, finalizer, finalization, destroyPc, hand, pin, told, stage, job, listener>>
    BY <1>1 DEF ApplyStop, Pop, vars, batch, gate, users
  <2>2. ran' = (ran \/ Head(queue) = "control")
    BY <2>1
  <2> QED
    BY <1>0, <2>1, <2>2, QueueShrinks
<1>2. ASSUME NEW h \in Listeners, RunListener(h) PROVE QueueAgrees'
  <2>1. /\ queue # << >> /\ queue' = Tail(queue) /\ Head(queue) = h
        /\ UNCHANGED <<called, finalizer, finalization, destroyPc, hand, pin, told, stage, job, ran, released>>
    BY <1>2 DEF RunListener, Pop, vars, batch, gate, chain, context
  <2>2. \A g \in Listeners : listener[g] # "idle" => listener'[g] # "idle"
    BY <1>0, <1>2 DEF LoopTypeOK, RunListener, Started
  <2>3. ran \in BOOLEAN /\ h # "control"
    BY <1>0, HandlerNames DEF LoopTypeOK
  <2>4. ran' = (ran \/ Head(queue) = "control")
    BY <2>1, <2>3
  <2> QED
    BY <1>0, <2>1, <2>2, <2>4, QueueShrinks
<1>3. ASSUME NEW j \in Jobs, RunCleanup(j) PROVE QueueAgrees'
  <2>1. /\ queue # << >> /\ queue' = Tail(queue) /\ Head(queue) = j /\ FinishCount("worker")
        /\ UNCHANGED <<called, finalization, destroyPc, hand, pin, told, stage, listener, ran, released>>
    BY <1>3 DEF RunCleanup, Pop, vars, batch, chain, context
  <2>2. \A x \in Jobs \ {Head(queue)} : job'[x] = job[x]
    BY <1>0, <1>3, <2>1 DEF LoopTypeOK, RunCleanup
  <2>3. ran \in BOOLEAN /\ j # "control"
    BY <1>0, HandlerNames DEF LoopTypeOK
  <2>4. ran' = (ran \/ Head(queue) = "control")
    BY <2>1, <2>3
  <2>5. finalizer = "spent" => finalizer' = "spent"
    <3>1. j \in Elems(queue)
      BY <1>0, <2>1, ChainTail
    <3>2. job[j] = "queued"
      BY <1>0, <3>1 DEF QueueAgrees, HandlersAgree
    <3> QED
      BY <1>0, <2>1, <3>2, Counted, FinishSpends
  <2> QED
    BY <1>0, <2>1, <2>2, <2>4, <2>5, QueueShrinks
<1>4. CASE FinalizeChain
  <2>1. /\ queue # << >> /\ Head(queue) = "finalize" /\ finalization' = TRUE
        /\ queue' = IF ran /\ ~released /\ ~finalization THEN Append(Tail(queue), "control") ELSE Tail(queue)
        /\ UNCHANGED <<ran, released, destroyPc, called, finalizer, job, listener, hand, pin, told, stage>>
    BY <1>4 DEF FinalizeChain, vars, batch, gate, users, context
  <2>2. /\ Tail(queue) \in Seq(Handlers) /\ Elems(queue) = Elems(Tail(queue)) \cup {"finalize"}
        /\ Distinct(Tail(queue)) /\ "finalize" \notin Elems(Tail(queue))
    BY <1>0, <2>1, ChainTail DEF QueueAgrees, OneControl
  <2>3. "control" \in Handlers /\ "control" # "finalize"
    BY DEF Handlers
  <2>4. finalizer = "spent" /\ ~finalization
    BY <1>0, <2>2 DEF QueueAgrees, HandlersAgree
  <2>5. CASE queue' = Tail(queue)
    BY <1>0, <2>1, <2>2, <2>4, <2>5 DEF QueueAgrees, OneControl, HandlersAgree
  <2>6. CASE ran /\ ~released /\ ~finalization /\ queue' = Append(Tail(queue), "control")
    <3>1. "control" \notin Elems(queue)
      BY <1>0, <2>6 DEF QueueAgrees, HandlersAgree
    <3>2. Elems(queue') = Elems(Tail(queue)) \cup {"control"} /\ Distinct(queue')
      <4>1. "control" \notin Elems(Tail(queue))
        BY <2>2, <3>1
      <4>2. PICK t \in Seq(Handlers) : t = Tail(queue)
        BY <2>2
      <4>3. /\ Elems(Append(t, "control")) = Elems(t) \cup {"control"}
            /\ Distinct(t) /\ "control" \notin Elems(t) => Distinct(Append(t, "control"))
        BY <2>3, ChainAppend
      <4> QED
        BY <2>2, <2>6, <4>1, <4>2, <4>3
    <3>3. OneControl'
      BY <2>1, <2>6, <3>2 DEF OneControl
    <3>4. "finalize" \notin Elems(queue') /\ Elems(queue') \subseteq Elems(queue) \cup {"control"}
      BY <2>2, <2>3, <3>2
    <3>5. HandlersAgree
      BY <1>0 DEF QueueAgrees
    <3>6. /\ \A j \in Jobs : j \in Elems(queue') => job'[j] = "queued"
          /\ \A h \in Listeners : h \in Elems(queue') => listener'[h] # "idle"
      BY <2>1, <3>4, <3>5, HandlerNames DEF HandlersAgree
    <3>7. hand' => /\ pin' \in Listeners /\ told' /\ stage' = "stopping"
                   /\ listener'[pin'] # "idle" /\ pin' \notin Elems(queue')
      BY <2>1, <3>4, <3>5, HandlerNames DEF HandlersAgree
    <3>8. Chain \in called' /\ (destroyPc' = "none" /\ released' => ran')
      BY <2>1, <2>6, <3>5 DEF HandlersAgree
    <3> QED
      BY <2>1, <2>4, <3>3, <3>4, <3>6, <3>7, <3>8 DEF QueueAgrees, HandlersAgree
  <2> QED
    BY <2>1, <2>5, <2>6
<1>5. CASE FinalizeHook
  <2>1. Keeps /\ UNCHANGED queue
    BY <1>5 DEF Keeps, FinalizeHook, DetachFlags, DetachHooks, vars, batch, gate, chain, users
  <2> QED
    BY <1>0, <2>1, QueueKept
<1>6. CASE WorkerFails
  <2>1. UNCHANGED <<queue, ran, finalization, released, destroyPc, called, finalizer, job, listener, hand, pin, told>>
    BY <1>6 DEF WorkerFails, BeginStopping, vars, batch, gate, chain, users
  <2>2. hand => ~accepting
    BY <1>0 DEF LoopCore, HandlersAgree, HookCore, Registering
  <2>3. hand => UNCHANGED stage
    BY <1>6, <2>2 DEF WorkerFails, vars, batch
  <2> QED
    BY <1>0, <2>1, <2>3, QueueKept DEF Keeps
<1>7. CASE CloseAdmission \/ CountPending \/ Abandon
  <2>1. /\ UNCHANGED <<queue, ran, finalization, called, job, listener, hand, pin, told, stage>>
        /\ destroyPc' # "none" /\ (finalizer = "spent" => finalizer' = "spent")
    BY <1>7 DEF CloseAdmission, CountPending, Abandon, vars, batch, gate, chain, users
  <2> QED
    BY <1>0, <2>1, QueueKept DEF Keeps
<1>8. CASE DetachDestroyed
  <2>1. /\ UNCHANGED <<ran, finalization, called, finalizer, listener, hand, pin, told, stage>>
        /\ destroyPc' # "none"
    BY <1>8 DEF DetachDestroyed, DetachFlags, DetachHooks, batch, gate, chain
  <2>2. CASE UNCHANGED <<job, queue>>
    BY <1>0, <2>1, <2>2, QueueKept DEF Keeps
  <2>3. CASE queue' = << >>
    <3>1. Elems(queue') = {} /\ Distinct(queue')
      BY <2>3, ChainEmpty
    <3> QED
      BY <1>0, <2>1, <3>1 DEF QueueAgrees, OneControl, HandlersAgree
  <2> QED
    BY <1>8, <2>2, <2>3 DEF DetachDestroyed
<1>9. ASSUME NEW x \in Roots \cup Jobs, AbandonPost(x) PROVE QueueAgrees'
  <2>1. Rest /\ UNCHANGED <<queue, listener>> /\ x \in Posted
    BY <1>9 DEF AbandonPost, vars, batch, chain, context
  <2>2. CASE x \in Roots
    <3>1. FinishCount("worker") /\ UNCHANGED job /\ root[x] = "posted"
      BY <1>9, <2>1, <2>2, HandlerNames DEF AbandonPost, Posted
    <3>2. finalizer = "spent" => finalizer' = "spent"
      BY <1>0, <2>2, <3>1, Counted, FinishSpends
    <3> QED
      BY <1>0, <2>1, <3>1, <3>2, QueueKept DEF Keeps
  <2>3. CASE x \notin Roots
    <3>1. UNCHANGED finalizer /\ job[x] = "posted"
      BY <1>9, <2>1, <2>3 DEF AbandonPost, Posted, gate
    <3>2. \A j \in Jobs : j # x => job'[j] = job[j]
      BY <1>0, <1>9, <2>3 DEF AbandonPost, LoopTypeOK
    <3> QED
      BY <1>0, <2>1, <3>1, <3>2, QueueKept DEF Keeps
  <2> QED
    BY <2>2, <2>3
<1>10. ASSUME NEW r \in Roots, StartRoot(r) PROVE QueueAgrees'
  <2>1. Keeps /\ UNCHANGED queue
    BY <1>10 DEF Keeps, StartRoot, vars, batch, gate, chain, context
  <2> QED
    BY <1>0, <2>1, QueueKept
<1>11. ASSUME NEW j \in Jobs, RunJob(j) PROVE QueueAgrees'
  <2>1. Rest /\ UNCHANGED <<finalizer, listener>> /\ job[j] = "posted"
    BY <1>11 DEF RunJob, vars, batch, chain, context
  <2>2. \A x \in Jobs : x # j => job'[x] = job[x]
    BY <1>0, <1>11 DEF RunJob, LoopTypeOK
  <2>3. Keeps
    BY <2>1, <2>2 DEF Keeps
  <2>4. CASE finalized
    BY <1>0, <1>11, <2>3, <2>4, QueueKept DEF RunJob
  <2>5. CASE ~finalized
    <3>1. queue' = Append(queue, j) /\ job'[j] = "queued"
      BY <1>0, <1>11, <2>5 DEF RunJob, LoopTypeOK
    <3>2. j \notin Elems(queue)
      BY <1>0, <2>1 DEF QueueAgrees, HandlersAgree
    <3>3. j \in Handlers /\ j # "control" /\ j # "finalize" /\ j \notin Listeners
      BY HandlerNames
    <3> QED
      BY <1>0, <2>3, <3>1, <3>2, <3>3, QueueGrows
  <2> QED
    BY <2>4, <2>5
<1> QED
  BY <1>1, <1>2, <1>3, <1>4, <1>5, <1>6, <1>7, <1>8, <1>9, <1>10, <1>11 DEF WorkerStep, DestroyStep, PostStep

\* OneControl and HandlersAgree are kept by every step.
LEMMA HandlersStep == LoopCore /\ [LoopNext]_allVars => QueueAgrees'
<1> SUFFICES ASSUME LoopCore, [LoopNext]_allVars PROVE QueueAgrees'
  OBVIOUS
<1>1. CASE UNCHANGED allVars
  <2>1. Keeps /\ UNCHANGED queue
    BY <1>1 DEF Keeps, allVars, vars, batch, loopVars, gate, chain, users, context
  <2> QED
    BY <2>1, QueueKept DEF LoopCore, QueueAgrees
<1> QED
  BY <1>1, StopHandlers, CallbackHandlers, BatchHandlers, UserHandlers, WorkerHandlers DEF LoopNext

-----------------------------------------------------------------------------
(* The posts the worker drains.                                             *)

\* The gate is about to be sealed, or was sealed by the callback.
Sealing == cb \in {"seal", "drained"} \/ (sealed /\ destroyPc = "none")

PostsAgree == PostsDrained /\ DrainingPostCleansUp

\* Behind the gate nothing is posted: the worker was closed first.
LEMMA SealingClosed ==
    ASSUME LoopCore, Sealing
    PROVE  ~accepting /\ Posted = {}
BY DEF LoopCore, Sealing, PostsDrained, GateShut, StopAgrees

\* A step that posts nothing and seals only a drained queue.
LEMMA PostsKept ==
    ASSUME LoopCore, Posted' \subseteq Posted, Sealing' => Sealing \/ Posted' = {},
           \A j \in Jobs : job'[j] = "denied" => job[j] = "denied"
    PROVE  PostsAgree'
<1>1. Sealing' => Posted' = {}
  BY SealingClosed
<1> QED
  BY <1>1 DEF LoopCore, PostsAgree, PostsDrained, DrainingPostCleansUp, Sealing

\* A step that moves no post.
LEMMA PostsAside ==
    ASSUME LoopCore, UNCHANGED <<root, job>>, Sealing' => Sealing
    PROVE  PostsAgree'
<1>1. Posted' = Posted
  BY DEF Posted
<1> QED
  BY <1>1, PostsKept

\* A step of the gate, the worker or the batch that seals nothing.
LEMMA PostsSame ==
    ASSUME LoopCore, UNCHANGED <<root, job, cb, sealed>>, destroyPc' = "none" => destroyPc = "none"
    PROVE  PostsAgree'
<1>1. Sealing' => Sealing
  BY DEF Sealing
<1> QED
  BY <1>1, PostsAside

\* The gate is sealed over a drained queue, and no cleanup is denied, after
\* every step.
LEMMA PostsStep == LoopCore /\ [LoopNext]_allVars => PostsAgree'
<1> SUFFICES ASSUME LoopCore, [LoopNext]_allVars PROVE PostsAgree'
  OBVIOUS
<1>0. LoopTypeOK /\ "worker" \in Threads /\ "other" \in Threads
  BY ThreadsAre DEF LoopCore
<1>1. CASE UNCHANGED allVars
  BY <1>1, PostsSame DEF allVars, loopVars, gate, users, context
<1>2. ASSUME NEW on \in Threads, FinishCount(on) PROVE UNCHANGED sealed
  BY <1>2 DEF FinishCount, gate
<1>3. CASE StopStep \/ \E on \in Threads : Stop(on)
  <2>1. UNCHANGED <<root, job, sealed, destroyPc>> /\ cb' \in {cb, "finish"}
    BY <1>3 DEF Stop, StopStep, StopRoots, StopGate, RequestChainStop, CloseWorker, CloseReturns, AwaitBatchChain,
                AwaitBatchGate, StopReturns, gate, users, context
  <2>2. Sealing' => Sealing
    BY <2>1 DEF Sealing
  <2> QED
    BY <2>1, <2>2, PostsAside
<1>4. CASE CallbackStep
  <2>1. CASE CallbackFinish
    <3>1. UNCHANGED <<root, job, sealed, destroyPc>> /\ cb' = "idle"
      BY <1>2, <2>1, ThreadsAre, <1>0 DEF CallbackFinish, users, context
    <3>2. Sealing' => Sealing
      BY <3>1 DEF Sealing
    <3> QED
      BY <3>1, <3>2, PostsAside
  <2>2. CASE AwaitIdle
    <3>1. UNCHANGED <<root, job, sealed, destroyPc>> /\ (cb' = "seal" => Posted = {}) /\ cb' # "drained"
      BY <2>2 DEF AwaitIdle, gate, users, context
    <3>2. Posted' = Posted
      BY <3>1 DEF Posted
    <3>3. Sealing' => Sealing \/ Posted' = {}
      BY <3>1, <3>2 DEF Sealing
    <3> QED
      BY <3>1, <3>2, <3>3, PostsKept
  <2>3. CASE Seal
    <3>1. UNCHANGED <<root, job, destroyPc>> /\ Sealing
      BY <2>3 DEF Seal, users, context, Sealing
    <3> QED
      BY <3>1, PostsAside
  <2>4. CASE DeferFinalize
    BY <2>4, PostsSame DEF DeferFinalize, users, context
  <2> QED
    BY <1>4, <2>1, <2>2, <2>3, <2>4 DEF CallbackStep
<1>5. CASE LoopBatchStep
  <2>1. UNCHANGED <<root, job, sealed, destroyPc>> /\ cb' \in {cb, "finish"}
    BY <1>5 DEF LoopBatchStep, NotifyListener, WorkerStopping, NotifyLoop, HandOver, WalkOn, NotifyNext, loopVars, gate,
                users, context
  <2>2. Sealing' => Sealing
    BY <2>1 DEF Sealing
  <2> QED
    BY <2>1, <2>2, PostsAside
<1>6. ASSUME NEW h, RegisterListener(h) \/ ReleaseOwner(h) PROVE PostsAgree'
  BY <1>6, PostsSame DEF RegisterListener, ReleaseOwner, loopVars, gate, users, context
<1>7. ASSUME NEW h \in Listeners, ResetListener(h) \/ ListenerEnds(h) PROVE PostsAgree'
  <2>1. UNCHANGED <<root, job, cb, sealed, destroyPc>>
    BY <1>0, <1>2, <1>7 DEF ResetListener, ListenerEnds, gate, context
  <2> QED
    BY <2>1, PostsSame
<1>8. ASSUME NEW r \in Roots, AcquireRoot(r) \/ PostRoot(r) \/ RootEnds(r) PROVE PostsAgree'
  <2>1. UNCHANGED <<job, cb, sealed, destroyPc>>
    BY <1>0, <1>2, <1>8 DEF AcquireRoot, PostRoot, RootEnds, gate, context
  <2>2. \A x \in Roots : root'[x] = "posted" => root[x] = "posted" \/ accepting
    BY <1>0, <1>8 DEF AcquireRoot, PostRoot, RootEnds, LoopTypeOK
  <2>3. Sealing' => Sealing
    BY <2>1 DEF Sealing
  <2>4. Sealing' => Posted' \subseteq Posted
    BY <2>1, <2>2, <2>3, SealingClosed DEF Posted
  <2>5. Sealing' => Posted' = {}
    BY <2>3, <2>4, SealingClosed
  <2> QED
    BY <2>1, <2>5 DEF LoopCore, PostsAgree, PostsDrained, DrainingPostCleansUp, Sealing
<1>9. ASSUME NEW j \in Jobs, PostJob(j) \/ BeginCleanup(j) \/ DeferCleanup(j) PROVE PostsAgree'
  <2>1. UNCHANGED <<root, cb, sealed, destroyPc>>
    BY <1>0, <1>2, <1>9 DEF PostJob, BeginCleanup, DeferCleanup, gate, context
  <2>2. \A x \in Jobs : /\ job'[x] = "posted" => job[x] = "posted" \/ accepting
                        /\ job'[x] = "denied" => job[x] = "denied"
    BY <1>0, <1>9 DEF PostJob, BeginCleanup, DeferCleanup, LoopTypeOK
  <2>3. Sealing' => Sealing
    BY <2>1 DEF Sealing
  <2>4. Sealing' => Posted' \subseteq Posted
    BY <2>1, <2>2, <2>3, SealingClosed DEF Posted
  <2>5. Sealing' => Posted' = {}
    BY <2>3, <2>4, SealingClosed
  <2> QED
    BY <2>2, <2>5 DEF LoopCore, PostsAgree, PostsDrained, DrainingPostCleansUp, Sealing
<1>10. CASE ApplyStop \/ FinalizeChain \/ FinalizeHook \/ WorkerFails \/ CountPending \/ Abandon
  BY <1>10, PostsSame
     DEF ApplyStop, FinalizeChain, FinalizeHook, WorkerFails, CountPending, Abandon, gate, users, context
<1>11. CASE CloseAdmission
  <2>1. UNCHANGED <<root, job, cb>> /\ destroyPc' = "count"
    BY <1>11 DEF CloseAdmission, users
  <2>2. Sealing' => Sealing
    BY <2>1 DEF Sealing
  <2> QED
    BY <2>1, <2>2, PostsAside
<1>12. CASE DetachDestroyed
  <2>1. /\ UNCHANGED <<root, cb>> /\ destroyPc' # "none"
        /\ \A j \in Jobs : job'[j] = job[j] \/ job'[j] = "done"
    BY <1>12 DEF DetachDestroyed
  <2>2. Posted' \subseteq Posted /\ (Sealing' => Sealing)
    BY <2>1 DEF Posted, Sealing
  <2>3. \A j \in Jobs : job'[j] = "denied" => job[j] = "denied"
    BY <2>1
  <2> QED
    BY <2>2, <2>3, PostsKept
<1>13. ASSUME NEW h \in Listeners, RunListener(h) PROVE PostsAgree'
  BY <1>13, PostsSame DEF RunListener, gate, context
<1>14. ASSUME NEW j \in Jobs, RunCleanup(j) PROVE PostsAgree'
  <2>1. UNCHANGED <<root, cb, sealed, destroyPc>>
    BY <1>0, <1>2, <1>14 DEF RunCleanup, context
  <2>2. \A x \in Jobs : job'[x] = job[x] \/ job'[x] = "done"
    BY <1>0, <1>14 DEF RunCleanup, LoopTypeOK
  <2>3. Posted' \subseteq Posted /\ (Sealing' => Sealing)
    BY <2>1, <2>2 DEF Posted, Sealing
  <2>4. \A x \in Jobs : job'[x] = "denied" => job[x] = "denied"
    BY <2>2
  <2> QED
    BY <2>3, <2>4, PostsKept
<1>15. ASSUME NEW x \in Roots \cup Jobs, PostStep(x) PROVE PostsAgree'
  <2>0. x \in Posted
    BY <1>15 DEF PostStep, AbandonPost, StartRoot, RunJob, Posted
  <2>1. UNCHANGED <<sealed, destroyPc>> /\ Drained(Posted \ {x})
    BY <1>0, <1>2, <1>15 DEF PostStep, AbandonPost, StartRoot, RunJob, gate, context
  <2>2. destroyPc = "none"
    BY <1>15 DEF PostStep, AbandonPost, StartRoot, RunJob, WorkerFree, WorkerIdle
  <2>3. ~finalized
    BY <2>0, <2>2, SealingClosed DEF LoopCore, GateShut, Sealing
  <2>4. /\ \A r \in Roots : root'[r] = root[r] \/ (r = x /\ root'[r] # "posted")
        /\ \A j \in Jobs : job'[j] = job[j] \/ (j = x /\ job'[j] \notin {"posted", "denied"})
    BY <1>0, <1>15, <2>3 DEF PostStep, AbandonPost, StartRoot, RunJob, LoopTypeOK
  <2>5. Posted' \subseteq Posted
    BY <2>4 DEF Posted
  <2>6. \A j \in Jobs : job'[j] = "denied" => job[j] = "denied"
    BY <2>4
  <2>7. x \notin Posted'
    <3>1. CASE x \in Roots
      <4>1. root'[x] # "posted" /\ x \notin Jobs
        BY <1>0, <1>15, <3>1, HandlerNames DEF PostStep, AbandonPost, StartRoot, LoopTypeOK
      <4> QED
        BY <4>1 DEF Posted
    <3>2. CASE x \notin Roots
      <4>1. job'[x] # "posted"
        BY <1>0, <1>15, <2>3, <3>2 DEF PostStep, AbandonPost, RunJob, LoopTypeOK
      <4> QED
        BY <3>2, <4>1 DEF Posted
    <3> QED
      BY <3>1, <3>2
  <2>8. Sealing' => Sealing \/ Posted' = {}
    BY <2>1, <2>5, <2>7 DEF Sealing, Drained
  <2> QED
    BY <2>5, <2>6, <2>8, PostsKept
<1> QED
  BY <1>1, <1>3, <1>4, <1>5, <1>6, <1>7, <1>8, <1>9, <1>10, <1>11, <1>12, <1>13, <1>14, <1>15
     DEF LoopNext, WorkerStep, DestroyStep

-----------------------------------------------------------------------------
(* The retirement.                                                          *)

\* LoopCore holds at the start.
LEMMA LoopCoreInit == LoopInit => LoopCore
<1> SUFFICES ASSUME LoopInit PROVE LoopCore
  OBVIOUS
<1>1. HookCore
  BY LoopHookInit
<1>2. /\ pending = 0 /\ rootClosed = FALSE /\ sealed = FALSE /\ finalized = FALSE /\ finalizer = "unset"
      /\ requested = FALSE /\ ran = FALSE /\ finalization = FALSE /\ released = FALSE
      /\ stopping = FALSE /\ stopPc = "none" /\ stopOn = "other" /\ cb = "none"
      /\ runner = "other" /\ hand = FALSE /\ reset = {}
      /\ queue = << >> /\ workerPc = "free" /\ failing = FALSE /\ retained = TRUE
      /\ destroyPc = "none" /\ aborted = "no"
      /\ accepting = TRUE /\ attached = TRUE /\ active = FALSE /\ parked = << >> /\ taken = << >>
      /\ stage = "none"
  BY DEF LoopInit, InitLinked
<1>3. /\ listener = [h \in Listeners |-> "idle"] /\ root = [r \in Roots |-> "none"] /\ job = [j \in Jobs |-> "none"]
  BY DEF LoopInit
<1>4. Elems(queue) = {} /\ Distinct(queue) /\ Elems(parked) = {} /\ Elems(taken) = {} /\ queue \in Seq(Handlers)
  BY <1>2, ChainEmpty
<1>5. LoopTypeOK
  BY <1>2, <1>3, <1>4 DEF LoopTypeOK, Threads
<1>6. pending = Outstanding
  <2>1. /\ {r \in Roots : root[r] \in {"leased", "posted", "running"}} = {}
        /\ {j \in Jobs : job[j] \in {"begun", "queued"}} = {}
        /\ {h \in Listeners : listener[h] \in {"begun", "running"}} = {}
    BY <1>3
  <2>2. ~StopHolds
    BY <1>2 DEF StopHolds
  <2>3. RootsOut = 0 /\ JobsOut = 0 /\ ListenersOut = 0
    BY <2>1, FS_EmptySet DEF RootsOut, JobsOut, ListenersOut, Count
  <2>4. One(StopHolds) = 0
    BY <2>2 DEF One
  <2> HIDE DEF RootsOut, JobsOut, ListenersOut
  <2> QED
    BY <1>2, <2>3, <2>4, OutstandingIs
<1>7. GateCounts /\ TerminatesOnlyOnPending /\ OneControl
  BY <1>2, <1>4, <1>6 DEF GateCounts, TerminatesOnlyOnPending, OneControl
<1>8. DrainingPostCleansUp /\ PostsDrained
  BY <1>2, <1>3 DEF DrainingPostCleansUp, PostsDrained
<1>9. HandlersAgree /\ GateShut
  BY <1>2, <1>4 DEF HandlersAgree, GateShut, Threads
<1>10. StopAgrees
  BY <1>2, <1>4 DEF StopAgrees
<1> QED
  BY <1>1, <1>5, <1>7, <1>8, <1>9, <1>10 DEF LoopCore

\* LoopCore is inductive.
LEMMA LoopCoreStep == LoopCore /\ [LoopNext]_allVars => LoopCore'
<1> SUFFICES ASSUME LoopCore, [LoopNext]_allVars PROVE LoopCore'
  OBVIOUS
<1>1. HookCore'
  BY HookStep, LoopIsHookStep DEF LoopCore
<1>2. LoopTypeOK' /\ GateStands' /\ QueueAgrees' /\ GateShut' /\ StopAgrees' /\ PostsAgree'
  BY LoopTypeStep, GateStandsStep, HandlersStep, ShutStep, StopAgreesStep, PostsStep
<1> QED
  BY <1>1, <1>2 DEF LoopCore, GateStands, QueueAgrees, PostsAgree

\* LoopCore holds in every reachable state.
LEMMA LoopCoreInvariant == LoopSpec => []LoopCore
BY LoopCoreInit, LoopCoreStep, PTL DEF LoopSpec

\* The gate's count is what is outstanding at every step, a drained gate leaves
\* nothing behind, the stop control is queued once and never after the chain
\* may be destroyed, and whatever still drains is let in (event_loop_state.h,
\* worker_stop_chain.cpp), for any hooks, roots and cleanups.
THEOREM GateInvariant == LoopSpec => []GateInv
<1>1. LoopCore => GateInv
  BY DEF LoopCore, GateInv
<1> QED
  BY <1>1, LoopCoreInvariant, PTL

\* A retirement ends the process in one case only, a context destroyed with
\* work pending: begin() is never refused, finish() never underflows and no
\* handler is deferred to a detached context otherwise (event_loop.cpp:282).
THEOREM OnlyPendingTerminates == LoopSpec => []TerminatesOnlyOnPending
<1>1. LoopCore => TerminatesOnlyOnPending
  BY DEF LoopCore
<1> QED
  BY <1>1, LoopCoreInvariant, PTL

-----------------------------------------------------------------------------
(* The notification: no wake is lost, for any number of producers and any   *)
(* channel capacity.                                                        *)

USE FullAssumption, BoundsAssumption

\* Nothing is latched or adopted at the start.
LEMMA NotifyInit == WakeInit => LatchInv
<1> SUFFICES ASSUME WakeInit PROVE LatchInv
  OBVIOUS
<1>1. WakeTypeOK
  <2>1. closed \in BOOLEAN /\ latched \in BOOLEAN /\ stream \in BOOLEAN
    BY Zenon DEF WakeInit
  <2> QED
    BY <2>1 DEF WakeInit, WakeTypeOK
<1>2. LatchHasWake /\ UnseenIsPending
  BY DEF WakeInit, LatchHasWake, UnseenIsPending
<1>3. HandlerHasWait /\ RetiredWhenClosed /\ OpenWhileChecking
  BY DEF WakeInit, HandlerHasWait, RetiredWhenClosed, OpenWhileChecking
<1> QED
  BY <1>1, <1>2, <1>3 DEF LatchInv

\* A step of notify() keeps the latch invariant.
LEMMA NotifyProducer ==
    ASSUME LatchInv, NEW p \in Producers, Enter(p) \/ Notify(p)
    PROVE  LatchInv'
<1> USE DEF LatchInv
<1>0. UNCHANGED <<closed, pc, got, stream, completion, seen, errors>>
  BY DEF Notify, Enter, Latch, CheckClosed, Signal, Leave, worker
<1>1. HandlerHasWait' /\ RetiredWhenClosed' /\ OpenWhileChecking'
  BY <1>0 DEF HandlerHasWait, RetiredWhenClosed, OpenWhileChecking
<1>2. CASE Enter(p)
  <2>1. WakeTypeOK'
    BY <1>0, <1>2 DEF WakeTypeOK, Enter
  <2>2. at'[p] = "latch" /\ \A q \in Producers \ {p} : at'[q] = at[q]
    BY <1>2 DEF WakeTypeOK, Enter
  <2>3. LatchHasWake'
    BY <1>0, <1>2, <2>2 DEF LatchHasWake, WorkerWillLook, Enter
  <2>4. UnseenIsPending'
    BY <2>2 DEF UnseenIsPending
  <2> QED
    BY <1>1, <2>1, <2>3, <2>4
<1>3. CASE Latch(p)
  <2>1. WakeTypeOK'
    BY <1>0, <1>3 DEF WakeTypeOK, Latch
  <2>2. at'[p] = (IF latched THEN "leave" ELSE "check") /\ \A q \in Producers \ {p} : at'[q] = at[q]
    BY <1>3 DEF WakeTypeOK, Latch
  <2>3. LatchHasWake'
    BY <1>0, <1>3, <2>2 DEF LatchHasWake, WorkerWillLook, Latch
  <2>4. UnseenIsPending'
    BY <1>3 DEF UnseenIsPending, Latch
  <2> QED
    BY <1>1, <2>1, <2>3, <2>4
<1>4. CASE CheckClosed(p)
  <2>1. WakeTypeOK'
    BY <1>0, <1>4 DEF WakeTypeOK, CheckClosed
  <2>2. at'[p] = (IF closed THEN "leave" ELSE "signal") /\ \A q \in Producers \ {p} : at'[q] = at[q]
    BY <1>4 DEF WakeTypeOK, CheckClosed
  <2>3. LatchHasWake'
    BY <1>0, <1>4, <2>2 DEF LatchHasWake, WorkerWillLook, CheckClosed
  <2>4. UnseenIsPending'
    BY <1>0, <1>4, <2>2 DEF UnseenIsPending, WorkerWillLook, CheckClosed
  <2> QED
    BY <1>1, <2>1, <2>3, <2>4
<1>5. CASE Signal(p)
  <2>1. WakeTypeOK' /\ tokens' > 0
    BY <1>0, <1>5 DEF WakeTypeOK, Signal
  <2> QED
    BY <1>1, <2>1 DEF LatchHasWake, UnseenIsPending
<1>6. CASE Leave(p)
  <2>1. WakeTypeOK'
    BY <1>0, <1>6 DEF WakeTypeOK, Leave
  <2>2. at[p] = "leave" /\ \A q \in Producers \ {p} : at'[q] = at[q]
    BY <1>6 DEF WakeTypeOK, Leave
  <2>3. LatchHasWake' /\ UnseenIsPending'
    BY <1>0, <1>6, <2>2 DEF LatchHasWake, UnseenIsPending, WorkerWillLook, Leave
  <2> QED
    BY <1>1, <2>1, <2>3
<1> QED
  BY <1>2, <1>3, <1>4, <1>5, <1>6 DEF Notify

\* A step of the worker or the reactor keeps the latch invariant.
LEMMA NotifyWorker ==
    ASSUME LatchInv, WaitStep \/ AdoptFails \/ Close \/ Readable \/ ReactorError \/ UNCHANGED wakeVars
    PROVE  LatchInv'
<1> USE DEF LatchInv, LatchHasWake, UnseenIsPending, HandlerHasWait, RetiredWhenClosed,
            OpenWhileChecking, WorkerWillLook, WakeTypeOK, producer
<1>1. CASE WaitReady
  BY <1>1 DEF WaitReady
<1>2. CASE Drain
  <2>1. WakeTypeOK'
    BY <1>2 DEF Drain, AtDrain
  <2>2. LatchHasWake'
    BY <1>2 DEF Drain, AtDrain
  <2>3. UnseenIsPending'
    BY <1>2 DEF Drain, AtDrain
  <2>4. HandlerHasWait' /\ RetiredWhenClosed' /\ OpenWhileChecking'
    BY <1>2 DEF Drain, AtDrain
  <2> QED
    BY <2>1, <2>2, <2>3, <2>4
<1>3. CASE DrainFails
  <2>1. WakeTypeOK'
    BY <1>3 DEF DrainFails, AtDrain
  <2>2. LatchHasWake'
    BY <1>3 DEF DrainFails, AtDrain
  <2>3. UnseenIsPending'
    BY <1>3 DEF DrainFails, AtDrain
  <2>4. HandlerHasWait' /\ RetiredWhenClosed' /\ OpenWhileChecking'
    BY <1>3 DEF DrainFails, AtDrain
  <2> QED
    BY <2>1, <2>2, <2>3, <2>4
<1>4. CASE Unlatch
  <2>1. CASE got # "none" \/ latched
    <3>1. /\ pc = "unlatch" /\ pc' = "running" /\ latched' = FALSE
          /\ seen' = IF got = "error" THEN seen ELSE posted
          /\ UNCHANGED <<closed, tokens, at, posted, got, stream, completion, errors>>
      BY <1>4, <2>1 DEF Unlatch, Look
    <3>2. WakeTypeOK'
      BY <3>1
    <3>3. UnseenIsPending'
      BY <3>1
    <3> QED
      BY <3>1, <3>2, <3>3
  <2>2. CASE ~(got # "none" \/ latched)
    BY <1>4, <2>2 DEF Unlatch
  <2> QED
    BY <2>1, <2>2
<1>5. CASE BeginWait
  BY <1>5 DEF BeginWait
<1>6. CASE CompleteWait
  BY <1>6 DEF CompleteWait
<1>7. CASE CompleteClosed
  BY <1>7 DEF CompleteClosed
<1>8. CASE CompleteError
  BY <1>8 DEF CompleteError
<1>9. CASE Relatch
  <2>1. WakeTypeOK'
    BY <1>9 DEF Relatch, Look
  <2>2. LatchHasWake'
    BY <1>9 DEF Relatch, Look
  <2>3. UnseenIsPending'
    BY <1>9 DEF Relatch, Look
  <2>4. HandlerHasWait' /\ RetiredWhenClosed' /\ OpenWhileChecking'
    BY <1>9 DEF Relatch, Look
  <2> QED
    BY <2>1, <2>2, <2>3, <2>4
<1>10. CASE AdoptFails
  BY <1>10 DEF AdoptFails, worker
<1>11. CASE Close
  BY <1>11 DEF Close, WaitPending
<1>12. CASE Readable
  BY <1>12 DEF Readable
<1>13. CASE ReactorError
  BY <1>13 DEF ReactorError
<1>14. CASE UNCHANGED wakeVars
  BY <1>14 DEF wakeVars, worker
<1>15. CASE BeginWaitThrows
  BY <1>15 DEF BeginWaitThrows
<1> QED
  BY <1>1, <1>2, <1>3, <1>4, <1>5, <1>6, <1>7, <1>8, <1>9, <1>10, <1>11, <1>12, <1>13, <1>14,
     <1>15 DEF WaitStep

\* The latch, the channel and the wait stay consistent in every behaviour
\* (worker_notification.cpp), for any number of producers.
THEOREM NotifyInvariant == WakeSpec => []LatchInv
<1>1. LatchInv /\ [WakeNext]_wakeVars => LatchInv'
  BY NotifyProducer, NotifyWorker DEF WakeNext
<1> QED
  BY NotifyInit, <1>1, PTL DEF WakeSpec

\* A sleeping worker never misses data: the coalescing of notify()
\* (worker_notification.cpp:104) against the drain and exchange of the wait.
THEOREM NoWakeLost == WakeSpec => []NoLostWake
<1>1. LatchInv => NoLostWake
  BY DEF LatchInv, LatchHasWake, UnseenIsPending, WorkerWillLook, NoLostWake, Inside
<1> QED
  BY <1>1, NotifyInvariant, PTL

\* A closed notification without an outstanding wait may be destroyed
\* (the terminate in worker_notification.cpp:83-90).
THEOREM ReceiverRetires == WakeSpec => []RetiredWhenClosed
<1>1. LatchInv => RetiredWhenClosed
  BY DEF LatchInv
<1> QED
  BY <1>1, NotifyInvariant, PTL
=============================================================================
