-------------------------- MODULE WorkerGroupProofs --------------------------
(* The safety properties of WorkerGroup, for any list of members, any set   *)
(* of failures, any bound on the events and any depth of calls.             *)
(*                                                                          *)
(* GroupInv is inductive.  CallsNest is its core: each frame of a thread's  *)
(* stack is sound, and fits the frame below, which either may go on         *)
(* already or is owed something by the call above.  First what one step     *)
(* does to the stacks, in general; then one lemma per action.  Closing is   *)
(* what a step of StopHasClosed asks, and is shown along the way.           *)
EXTENDS WorkerGroup, ChainLemmas, NaturalsInduction

-----------------------------------------------------------------------------
(* Stacks                                                                   *)

\* The calls below the one on top.
LEMMA UnderSeq ==
    ASSUME NEW S \in Seq(Frames), S # << >>
    PROVE  /\ Len(S) \in Nat /\ Len(S) >= 1
           /\ Under(S) \in Seq(Frames) /\ Len(Under(S)) = Len(S) - 1
           /\ \A p \in 1..(Len(S) - 1) : Under(S)[p] = S[p]
           /\ \A p \in 1..Len(S) : S[p] \in Frames
           /\ S[Len(S)] \in Frames
<1>1. Len(S) \in Nat \ {0}
  BY EmptySeq
<1>2. \A p \in 1..Len(S) : S[p] \in Frames
  BY ElementOfSeq
<1>3. PICK n \in Nat : n = Len(S) /\ n >= 1
  BY <1>1
<1>4. \A p \in 1..(n - 1) : S[p] \in Frames
  BY <1>2, <1>3
<1>5. /\ SubSeq(S, 1, n - 1) \in Seq(Frames)
      /\ Len(SubSeq(S, 1, n - 1)) = IF 1 <= n - 1 THEN (n - 1) - 1 + 1 ELSE 0
      /\ \A p \in 1..((n - 1) - 1 + 1) : SubSeq(S, 1, n - 1)[p] = S[1 + p - 1]
  <2>1. n - 1 \in Int /\ 1 \in Int
    BY <1>3
  <2> QED
    BY <2>1, <1>4, SubSeqProperties
<1>6. Under(S) = SubSeq(S, 1, n - 1)
  BY <1>3 DEF Under
<1>7. (n - 1) - 1 + 1 = n - 1 /\ \A p \in 1..(n - 1) : 1 + p - 1 = p
  BY <1>3
<1>8. (IF 1 <= n - 1 THEN (n - 1) - 1 + 1 ELSE 0) = n - 1
  BY <1>3
<1>9. n \in 1..n
  BY <1>3
<1> QED
  BY <1>2, <1>3, <1>5, <1>6, <1>7, <1>8, <1>9

\* The calls with one more on top.
LEMMA AppendSeq ==
    ASSUME NEW B \in Seq(Frames), NEW f \in Frames
    PROVE  /\ Append(B, f) \in Seq(Frames) /\ Append(B, f) # << >>
           /\ Len(B) \in Nat /\ Len(Append(B, f)) = Len(B) + 1
           /\ Append(B, f)[Len(B) + 1] = f
           /\ \A p \in 1..Len(B) : Append(B, f)[p] = B[p]
BY AppendProperties, LenProperties, EmptySeq

\* The same, with the depths named.
LEMMA AppendAt ==
    ASSUME NEW B \in Seq(Frames), NEW f \in Frames, NEW k \in Nat, NEW l \in Nat, Len(B) = k, l = k + 1
    PROVE  /\ Append(B, f) \in Seq(Frames) /\ Len(Append(B, f)) = l /\ Append(B, f)[l] = f
           /\ \A p \in 1..k : Append(B, f)[p] = B[p]
BY AppendSeq

\* Concatenation of one call puts it on top.
LEMMA ConcatIsAppend ==
    ASSUME NEW B \in Seq(Frames), NEW a \in Frames
    PROVE  B \o <<a>> = Append(B, a)
OBVIOUS

\* What becomes of the frames that replace the one on top.
LEMMA Replaced ==
    ASSUME NEW B \in Seq(Frames)
    PROVE  /\ B \o << >> = B
           /\ \A a \in Frames : B \o <<a>> = Append(B, a)
           /\ \A a, b \in Frames : B \o <<a, b>> = Append(Append(B, a), b)
           /\ \A a, b \in Frames : <<a>> \o <<b>> = <<a, b>>
           /\ \A a \in Frames : << >> \o <<a>> = <<a>>
<1>1. B \o << >> = B
  BY ConcatEmptySeq
<1>2. ASSUME NEW a \in Frames
      PROVE  B \o <<a>> = Append(B, a)
  OBVIOUS
<1>3. ASSUME NEW a \in Frames, NEW b \in Frames
      PROVE  B \o <<a, b>> = Append(Append(B, a), b)
  <2>1. <<a, b>> = Append(<<a>>, b) /\ <<a>> \in Seq(Frames) /\ <<b>> \in Seq(Frames)
    OBVIOUS
  <2>2. <<a, b>> = <<a>> \o <<b>>
    BY <2>1, ConcatIsAppend
  <2>3. B \o (<<a>> \o <<b>>) = (B \o <<a>>) \o <<b>>
    BY <2>1, ConcatAssociative
  <2>4. Append(B, a) \in Seq(Frames)
    BY AppendProperties
  <2>5. Append(B, a) \o <<b>> = Append(Append(B, a), b)
    BY <2>4
  <2> QED
    BY <2>2, <2>3, <2>5, <1>2
<1>4. ASSUME NEW a \in Frames, NEW b \in Frames
      PROVE  <<a>> \o <<b>> = <<a, b>>
  <2>1. <<a, b>> = Append(<<a>>, b) /\ <<a>> \in Seq(Frames)
    OBVIOUS
  <2> QED
    BY <2>1, ConcatIsAppend
<1>5. ASSUME NEW a \in Frames
      PROVE  << >> \o <<a>> = <<a>>
  <2>1. <<a>> \in Seq(Frames)
    OBVIOUS
  <2> QED
    BY <2>1, ConcatEmptySeq
<1> QED
  BY <1>1, <1>2, <1>3, <1>4, <1>5

-----------------------------------------------------------------------------
(* What no step takes back                                                  *)

Onward ==
    /\ stopping => stopping'
    /\ Cause => Cause'
    /\ accepting' \subseteq accepting
    /\ rt_joined \subseteq rt_joined'
    /\ \A m \in Runtimes : ~Stoppable(m) => ~Stoppable(m)'
    /\ \A m \in rt_dispatching' : m \in rt_dispatching \/ Stoppable(m)

\* A call that control may come back to stays one.
LEMMA ReadyStays ==
    ASSUME Onward, NEW t \in Threads, NEW f \in Frames, Sound(t, f), Ready(f)
    PROVE  Ready(f)'
<1>1. f.at = "join_wait" => f.m \in Runtimes
  BY DEF Sound, MemberFrames
<1>2. ClosedTo(f.i) => ClosedTo(f.i)'
  BY DEF Onward, ClosedTo
<1>3. JoinedTo(f.i) => JoinedTo(f.i)'
  BY DEF Onward, JoinedTo
<1> QED
  BY <1>1, <1>2, <1>3 DEF Onward, Ready

\* What a call relies on goes on to hold.
LEMMA SoundStays ==
    ASSUME Onward, NEW t \in Threads, NEW f \in Frames, Sound(t, f)
    PROVE  Sound(t, f)'
<1>1. f.at \in StoppedFrames => f.m \in Runtimes /\ ~Stoppable(f.m)'
  <2>1. f.at \in StoppedFrames => f.at \in MemberFrames
    BY DEF StoppedFrames, MemberFrames
  <2> QED
    BY <2>1 DEF Sound, Onward
<1>2. f.at \in {"chain", "abort", "hooks"} => f.m \notin accepting'
  BY DEF Sound, Onward
<1>3. f.at = "join_thread" => f.m \notin rt_dispatching'
  <2>1. f.at = "join_thread" => f.at \in StoppedFrames
    BY DEF StoppedFrames
  <2> QED
    BY <2>1 DEF Sound, Onward
<1>4. f.kind \in {"member", "last"} \/ f.at = "group_members" => stopping'
  BY DEF Sound, Onward
<1>5. f.kind = "last" => ClosedTo(Len(Members))'
  BY DEF Sound, Onward, ClosedTo
<1> QED
  BY <1>1, <1>2, <1>3, <1>4, <1>5 DEF Sound

\* A caller and its callee go on to fit.
LEMMA AboveStays ==
    ASSUME Onward, NEW t \in Threads, NEW f \in Frames, NEW g \in Frames, Sound(t, f), Above(f, g)
    PROVE  Above(f, g)'
<1>1. Ready(f) => Ready(f)'
  BY ReadyStays
<1>2. Owes(f, g) => Owes(f, g)'
  <2>1. \A j \in DOMAIN Members : (ClosedTo(j) => ClosedTo(j)') /\ (JoinedTo(j) => JoinedTo(j)')
    BY DEF Onward, ClosedTo, JoinedTo
  <2> QED
    BY <2>1 DEF Owes
<1>3. stopping \/ Cause => stopping' \/ Cause'
  BY DEF Onward
<1> QED
  BY <1>1, <1>2, <1>3 DEF Above

\* A stack of calls that nest goes on to nest.
LEMMA NestedStays ==
    ASSUME Onward, NEW t \in Threads, NEW S \in Seq(Frames), Nested(t, S)
    PROVE  Nested(t, S)'
<1>1. \A p \in 1..Len(S) : S[p] \in Frames /\ Sound(t, S[p]) /\ Sound(t, S[p])'
  <2> SUFFICES ASSUME NEW p \in 1..Len(S)
               PROVE  S[p] \in Frames /\ Sound(t, S[p]) /\ Sound(t, S[p])'
    OBVIOUS
  <2>1. S[p] \in Frames
    BY ElementOfSeq
  <2>2. Sound(t, S[p])
    BY DEF Nested
  <2> QED
    BY <2>1, <2>2, SoundStays
<1>2. \A p \in 1..Len(S) : p + 1 \in 1..Len(S) => Above(S[p], S[p + 1])'
  <2> SUFFICES ASSUME NEW p \in 1..Len(S), p + 1 \in 1..Len(S)
               PROVE  Above(S[p], S[p + 1])'
    OBVIOUS
  <2>1. Above(S[p], S[p + 1])
    BY DEF Nested
  <2> QED
    BY <1>1, <2>1, AboveStays
<1>3. S # << >> => Bottom(t, S[1])'
  BY DEF Nested, Bottom, Onward
<1> QED
  BY <1>1, <1>2, <1>3 DEF Nested

-----------------------------------------------------------------------------
(* Building a stack                                                         *)

\* A call that fits the one on top can be put on it.
LEMMA NestPush ==
    ASSUME NEW t \in Threads, NEW B \in Seq(Frames), Nested(t, B)', NEW f \in Frames, Sound(t, f)',
           B = << >> => Bottom(t, f)',
           B # << >> => Above(B[Len(B)], f)'
    PROVE  Nested(t, Append(B, f))'
<1> DEFINE S == Append(B, f)
<1>1. PICK n \in Nat : n = Len(B)
  BY AppendSeq
<1>2. /\ Len(S) = n + 1 /\ S[n + 1] = f /\ S # << >>
      /\ \A p \in 1..n : S[p] = B[p]
  BY <1>1, AppendSeq
<1>3. B = << >> <=> n = 0
  BY <1>1, EmptySeq
<1> HIDE DEF S
<1>4. \A p \in 1..Len(S) : Sound(t, S[p])'
  <2> SUFFICES ASSUME NEW p \in 1..(n + 1)
               PROVE  Sound(t, S[p])'
    BY <1>2
  <2>1. CASE p = n + 1
    BY <2>1, <1>2
  <2>2. CASE p \in 1..n
    <3>1. Sound(t, B[p])'
      BY <2>2, <1>1 DEF Nested
    <3> QED
      BY <3>1, <2>2, <1>2
  <2> QED
    BY <2>1, <2>2
<1>5. \A p \in 1..Len(S) : p + 1 \in 1..Len(S) => Above(S[p], S[p + 1])'
  <2> SUFFICES ASSUME NEW p \in 1..(n + 1), p + 1 \in 1..(n + 1)
               PROVE  Above(S[p], S[p + 1])'
    BY <1>2
  <2>1. p \in 1..n /\ n # 0
    OBVIOUS
  <2>2. CASE p = n
    BY <2>1, <2>2, <1>1, <1>2, <1>3
  <2>3. CASE p # n
    <3>1. p + 1 \in 1..n
      BY <2>1, <2>3
    <3>2. Above(B[p], B[p + 1])'
      BY <3>1, <2>1, <1>1 DEF Nested
    <3> QED
      BY <3>1, <3>2, <2>1, <1>2
  <2> QED
    BY <2>2, <2>3
<1>6. Bottom(t, S[1])'
  <2>1. CASE n = 0
    BY <2>1, <1>2, <1>3
  <2>2. CASE n # 0
    <3>1. Bottom(t, B[1])' /\ 1 \in 1..n
      BY <2>2, <1>3 DEF Nested
    <3> QED
      BY <3>1, <1>2
  <2> QED
    BY <2>1, <2>2
<1> QED
  BY <1>4, <1>5, <1>6 DEF Nested, S

\* The same, for a stack that needs no other description.
LEMMA NestGrow ==
    ASSUME NEW t \in Threads, NEW B \in Seq(Frames), Nested(t, B)', NEW f \in Frames, Sound(t, f)',
           B = << >> => Bottom(t, f)',
           B # << >> => Above(B[Len(B)], f)'
    PROVE  \E C \in Seq(Frames) : /\ C = Append(B, f) /\ Nested(t, C)' /\ C # << >> /\ C[Len(C)] = f
                                   /\ Len(C) = Len(B) + 1 /\ \A p \in 1..Len(B) : C[p] = B[p]
<1>1. PICK C \in Seq(Frames) : /\ C = Append(B, f) /\ C # << >> /\ C[Len(C)] = f
                               /\ Len(C) = Len(B) + 1 /\ \A p \in 1..Len(B) : C[p] = B[p]
  <2>1. /\ Append(B, f) \in Seq(Frames) /\ Append(B, f) # << >>
        /\ Len(Append(B, f)) = Len(B) + 1
        /\ Append(B, f)[Len(B) + 1] = f
        /\ \A p \in 1..Len(B) : Append(B, f)[p] = B[p]
    BY AppendSeq
  <2>2. Append(B, f)[Len(Append(B, f))] = f
    BY <2>1
  <2> QED
    BY <2>1, <2>2
<1>2. Nested(t, Append(B, f))'
  BY NestPush
<1>3. Nested(t, C)'
  BY <1>1, <1>2
<1> QED
  BY <1>1, <1>3

\* The calls below a call nest without it.
LEMMA NestedUnder ==
    ASSUME NEW t \in Threads, NEW S \in Seq(Frames), S # << >>, Nested(t, S)'
    PROVE  /\ Nested(t, Under(S))' /\ Sound(t, S[Len(S)])'
           /\ Under(S) = << >> => Bottom(t, S[Len(S)])'
           /\ Under(S) # << >> => Above(Under(S)[Len(Under(S))], S[Len(S)])'
                                  /\ Sound(t, Under(S)[Len(Under(S))])'
<1>1. PICK n \in Nat : n = Len(S) /\ n >= 1
  BY UnderSeq
<1>2. PICK B \in Seq(Frames) : B = Under(S) /\ Len(B) = n - 1 /\ \A p \in 1..(n - 1) : B[p] = S[p]
  BY <1>1, UnderSeq
<1>3. B = << >> <=> n = 1
  BY <1>1, <1>2, EmptySeq
<1>4. \A p \in 1..n : Sound(t, S[p])'
  BY <1>1 DEF Nested
<1>5. \A p \in 1..n : p + 1 \in 1..n => Above(S[p], S[p + 1])'
  BY <1>1 DEF Nested
<1>6. Bottom(t, S[1])'
  BY DEF Nested
<1>7. Nested(t, B)'
  <2>1. \A p \in 1..(n - 1) : Sound(t, B[p])'
    <3> TAKE p \in 1..(n - 1)
    <3>1. p \in 1..n
      BY <1>1
    <3> QED
      BY <3>1, <1>2, <1>4
  <2>2. \A p \in 1..(n - 1) : p + 1 \in 1..(n - 1) => Above(B[p], B[p + 1])'
    <3> SUFFICES ASSUME NEW p \in 1..(n - 1), p + 1 \in 1..(n - 1)
                 PROVE  Above(B[p], B[p + 1])'
      OBVIOUS
    <3>1. p \in 1..n /\ p + 1 \in 1..n
      BY <1>1
    <3> QED
      BY <3>1, <1>2, <1>5
  <2>3. B # << >> => Bottom(t, B[1])'
    <3>1. n # 1 => 1 \in 1..(n - 1)
      BY <1>1
    <3> QED
      BY <3>1, <1>2, <1>3, <1>6
  <2> QED
    BY <2>1, <2>2, <2>3, <1>2 DEF Nested
<1>8. B # << >> => Above(B[n - 1], S[n])' /\ Sound(t, B[n - 1])'
  <2> SUFFICES ASSUME B # << >>
               PROVE  Above(B[n - 1], S[n])' /\ Sound(t, B[n - 1])'
    OBVIOUS
  <2>1. n - 1 \in 1..(n - 1) /\ n - 1 \in 1..n /\ (n - 1) + 1 = n /\ n \in 1..n
    BY <1>1, <1>3
  <2>2. Above(S[n - 1], S[n])'
    BY <2>1, <1>5
  <2> QED
    BY <2>1, <2>2, <1>2, <1>4
<1>9. n \in 1..n
  BY <1>1
<1> QED
  BY <1>1, <1>2, <1>3, <1>4, <1>6, <1>7, <1>8, <1>9

\* What a new frame holds.
LEMMA NewFrame ==
    ASSUME NEW l \in Labels, NEW k \in Kinds, NEW m \in Runtimes \cup {Null}
    PROVE  /\ Frame(l, k, m) \in Frames
           /\ Frame(l, k, m).at = l /\ Frame(l, k, m).kind = k /\ Frame(l, k, m).m = m
           /\ Frame(l, k, m).i = 1 /\ ~Frame(l, k, m).flag /\ Frame(l, k, m).f = Null
BY DEF Frame, Frames

\* What the frame of a runtime's request_stop() holds.
LEMMA NewStop ==
    ASSUME NEW m \in Runtimes, NEW k \in Kinds
    PROVE  /\ RuntimeStop(m, k) \in Frames
           /\ RuntimeStop(m, k).at = "stop" /\ RuntimeStop(m, k).kind = k /\ RuntimeStop(m, k).m = m
           /\ ~RuntimeStop(m, k).flag
<1>1. "stop" \in Labels /\ m \in Runtimes \cup {Null}
  BY DEF Labels, MemberFrames, StopFrames
<1> QED
  BY <1>1, NewFrame DEF RuntimeStop

\* The loops over the members go on, with the next member's call on top.
LEMMA ContinueNests ==
    ASSUME NEW t \in Threads, NEW S \in Seq(Frames), Nested(t, S)',
           S # << >> => Ready(S[Len(S)])'
    PROVE  /\ Continue(S) \in Seq(Frames) /\ Nested(t, Continue(S))'
           /\ Continue(S) # << >> => OnTop(Continue(S)[Len(Continue(S))])'
<1>1. CASE S = << >>
  <2>1. Continue(S) = S
    BY <1>1 DEF Continue
  <2> QED
    BY <2>1, <1>1
<1>2. CASE S # << >>
  <2>1. PICK top \in Frames : top = S[Len(S)]
    BY <1>2, UnderSeq
  <2>2. PICK B \in Seq(Frames) : B = Under(S)
    BY <1>2, UnderSeq
  <2>3. /\ Nested(t, B)' /\ Sound(t, top)' /\ Ready(top)'
        /\ B = << >> => Bottom(t, top)'
        /\ B # << >> => Above(B[Len(B)], top)' /\ Sound(t, B[Len(B)])'
    BY <1>2, <2>1, <2>2, NestedUnder
  <2>4. CASE ~(Looping(top) /\ top.at \in {"group_members", "join_members"})
    <3>1. Continue(S) = S
      BY <1>2, <2>1, <2>4 DEF Continue
    <3>2. OnTop(top)'
      BY <2>3, <2>4 DEF OnTop, Looping
    <3> QED
      BY <3>1, <3>2, <2>1
  <2>5. CASE Looping(top) /\ top.at \in {"group_members", "join_members"}
    <3>1. top.i \in Nat /\ top.i # 0
      BY <2>3, <2>5 DEF Sound, Frames
    <3>2. PICK j \in DOMAIN Members : j = top.i /\ j \in Nat
      BY <3>1, <2>5, GroupAssumption DEF Looping
    <3>3. PICK m \in Runtimes : m = Members[j]
      BY <3>2, GroupAssumption
    <3>4. PICK next \in Frames : /\ next = [top EXCEPT !.i = @ + 1] /\ next.at = top.at
                                 /\ next.kind = top.kind /\ next.m = top.m /\ next.i = j + 1
                                 /\ next.flag = top.flag /\ next.f = top.f
      <4>1. [top EXCEPT !.i = @ + 1] \in Frames
        <5>1. top.i + 1 \in Nat
          BY <3>1
        <5> QED
          BY <5>1 DEF Frames
      <4>2. /\ [top EXCEPT !.i = @ + 1].at = top.at /\ [top EXCEPT !.i = @ + 1].kind = top.kind
            /\ [top EXCEPT !.i = @ + 1].m = top.m /\ [top EXCEPT !.i = @ + 1].i = j + 1
            /\ [top EXCEPT !.i = @ + 1].flag = top.flag /\ [top EXCEPT !.i = @ + 1].f = top.f
        BY <3>2 DEF Frames
      <4> QED
        BY <4>1, <4>2
    <3>5. Sound(t, next)'
      BY <3>4, <2>3, <2>5, <3>2 DEF Sound, GroupFrames
    <3>6. B = << >> => Bottom(t, next)'
      BY <3>4, <2>3 DEF Bottom
    <3>7. B # << >> => Above(B[Len(B)], next)'
      BY <3>4, <2>3 DEF Above, Owes
    <3>8. PICK C \in Seq(Frames) : /\ C = Append(B, next) /\ Nested(t, C)'
                                    /\ C # << >> /\ C[Len(C)] = next
      <4>1. Nested(t, B)'
        BY <2>3
      <4> QED
        BY <4>1, <3>5, <3>6, <3>7, NestGrow
    <3>9. CASE top.at = "group_members" /\ ~top.flag /\ top.i = Len(Members)
      <4>1. PICK a \in Frames : /\ a = RuntimeStop(m, "last") /\ a.at = "stop" /\ a.kind = "last"
                                /\ a.m = m /\ ~a.flag
        BY NewStop DEF Kinds
      <4>2. Continue(S) = Append(B, a)
        BY <4>1, <1>2, <2>1, <2>2, <2>5, <3>9, <3>2, <3>3 DEF Continue
      <4>0. ClosedTo(Len(Members))' /\ a.m = Members[Len(Members)]
        BY <4>1, <2>3, <3>2, <3>3, <3>9 DEF Ready
      <4>3. Sound(t, a)'
        BY <4>0, <4>1, <2>3, <3>9 DEF Sound, LifecycleFrames, PhaseFrames, JoinFrames, DestroyFrames, GroupFrames, StopFrames,
                                MemberFrames, StoppedFrames, FailureFrames, RecordFrames
      <4>4. B = << >> => Bottom(t, a)'
        BY <4>1, <2>3, <3>9 DEF Bottom, LifecycleFrames, PhaseFrames, JoinFrames, DestroyFrames, GroupFrames
      <4>5. B # << >> => Above(B[Len(B)], a)'
        BY <4>1, <2>3, <3>9 DEF Above, Owes, LifecycleFrames, PhaseFrames, JoinFrames, DestroyFrames, GroupFrames, Sound
      <4>6. OnTop(a)'
        BY <4>1 DEF OnTop, Ready
      <4> QED
        BY <4>1, <4>2, <4>3, <4>4, <4>5, <4>6, <2>3, NestPush, AppendSeq
    <3>10. CASE top.at = "group_members" /\ (top.flag \/ top.i # Len(Members))
      <4>1. PICK a \in Frames : /\ a = RuntimeStop(m, "member") /\ a.at = "stop" /\ a.kind = "member"
                                /\ a.m = m /\ ~a.flag
        BY NewStop DEF Kinds
      <4>2. Continue(S) = Append(C, a)
        BY <4>1, <1>2, <2>1, <2>2, <2>5, <3>10, <3>2, <3>3, <3>4, <3>8 DEF Continue
      <4>3. Sound(t, a)'
        BY <4>1, <2>3, <3>10 DEF Sound, LifecycleFrames, PhaseFrames, JoinFrames, DestroyFrames, GroupFrames, StopFrames,
                                MemberFrames, StoppedFrames, FailureFrames, RecordFrames
      <4>4. ClosedTo(j)'
        BY <2>3, <3>2, <3>10 DEF Ready
      <4>5. Above(next, a)'
        BY <4>1, <4>4, <3>2, <3>3, <3>4, <3>10 DEF Above, Owes, LifecycleFrames, PhaseFrames, JoinFrames, DestroyFrames, GroupFrames
      <4>6. OnTop(a)'
        BY <4>1 DEF OnTop, Ready
      <4> QED
        <5>1. Above(C[Len(C)], a)'
          BY <4>5, <3>8
        <5>2. PICK E \in Seq(Frames) : E = Append(C, a) /\ Nested(t, E)' /\ E # << >> /\ E[Len(E)] = a
          BY <5>1, <4>3, <3>8, NestGrow
        <5> QED
          BY <5>2, <4>2, <4>6
    <3>11. CASE top.at = "join_members"
      <4>1. PICK a \in Frames : /\ a = RuntimeStop(m, "join") /\ a.at = "stop" /\ a.kind = "join"
                                /\ a.m = m /\ ~a.flag
        BY NewStop DEF Kinds
      <4>2. PICK w \in Frames : /\ w = Frame("join_wait", "join", m) /\ w.at = "join_wait" /\ w.kind = "join"
                                /\ w.m = m
        <5>1. "join_wait" \in Labels /\ "join" \in Kinds
          BY DEF Labels, MemberFrames, Kinds
        <5> QED
          BY <5>1, NewFrame
      <4>3. Continue(S) = Append(Append(C, w), a)
        BY <4>1, <4>2, <1>2, <2>1, <2>2, <2>5, <3>11, <3>2, <3>3, <3>4, <3>8 DEF Continue
      <4>4. Sound(t, a)' /\ Sound(t, w)'
        BY <4>1, <4>2, <2>3, <3>11 DEF Sound, LifecycleFrames, PhaseFrames, JoinFrames, DestroyFrames, GroupFrames, StopFrames,
                                MemberFrames, StoppedFrames, FailureFrames, RecordFrames
      <4>5. JoinedTo(j)'
        BY <2>3, <3>2, <3>11 DEF Ready
      <4>6. Above(next, w)'
        BY <4>2, <4>5, <3>2, <3>3, <3>4, <3>11 DEF Above, Owes, LifecycleFrames, PhaseFrames, JoinFrames, DestroyFrames, GroupFrames
      <4>7. Above(w, a)'
        BY <4>1, <4>2 DEF Above, Owes, LifecycleFrames, PhaseFrames, JoinFrames, DestroyFrames, GroupFrames
      <4>8. OnTop(a)'
        BY <4>1 DEF OnTop, Ready
      <4>9. PICK D \in Seq(Frames) : /\ D = Append(C, w) /\ Nested(t, D)'
                                      /\ D # << >> /\ D[Len(D)] = w
        <5>1. Above(C[Len(C)], w)'
          BY <4>6, <3>8
        <5> QED
          BY <5>1, <4>4, <3>8, NestGrow
      <4> QED
        <5>1. Above(D[Len(D)], a)'
          BY <4>7, <4>9
        <5>2. PICK E \in Seq(Frames) : E = Append(D, a) /\ Nested(t, E)' /\ E # << >> /\ E[Len(E)] = a
          BY <5>1, <4>4, <4>9, NestGrow
        <5> QED
          BY <5>2, <4>3, <4>8, <4>9
    <3> QED
      BY <3>9, <3>10, <3>11, <2>5
  <2> QED
    BY <2>4, <2>5
<1> QED
  BY <1>1, <1>2

-----------------------------------------------------------------------------
(* One step of one thread                                                   *)

\* The frames that count for the winner, the hooks and the notifications.
Marked(f) == f.at \in {"notify_stop", "stop_notified", "close", "chain", "abort", "hooks", "failure_notified"}

\* C is M with its loop gone on.
Looped(M, C) ==
    /\ C \in Seq(Frames) /\ Len(C) \in Nat /\ Len(M) \in Nat /\ Len(C) >= Len(M)
    /\ \A p \in 1..Len(C) : Marked(C[p]) => p \in 1..Len(M) /\ C[p] = M[p]
    /\ \A p \in 1..Len(M) : Marked(M[p]) => p \in 1..Len(C) /\ C[p] = M[p]
    /\ M = << >> => C = << >>
    /\ M # << >> =>
          /\ C # << >>
          /\ \/ C[1] = M[1]
             \/ M[1].at = "join_members" /\ C[1].at = "join_members"
             \/ M[1].at = "group_members" /\ C[1].at \in {"group_members", "stop"}

\* A loop of request_stop() or join() that goes on touches no marked frame and
\* keeps the outermost call, but for a loop that went on or ended there.
LEMMA ContinueLoops ==
    ASSUME NEW M \in Seq(Frames),
           M # << >> /\ M[Len(M)].at \in {"group_members", "join_members"} => M[Len(M)].i # 0
    PROVE  Looped(M, Continue(M))
<1>0. PICK n \in Nat : n = Len(M)
  BY LenProperties
<1>1. CASE Continue(M) = M
  BY <1>1, <1>0 DEF Looped
<1>2. CASE Continue(M) # M
  <2>1. M # << >>
    BY <1>2 DEF Continue
  <2>2. PICK top \in Frames : top = M[n] /\ n >= 1
    BY <2>1, <1>0, UnderSeq
  <2>3. PICK B \in Seq(Frames) : B = Under(M) /\ Len(B) = n - 1 /\ \A p \in 1..(n - 1) : B[p] = M[p]
    BY <2>1, <1>0, UnderSeq
  <2>4. Looping(top) /\ top.at \in {"group_members", "join_members"}
    BY <1>2, <2>1, <2>2, <1>0 DEF Continue
  <2>5. PICK j \in DOMAIN Members : j = top.i /\ j \in Nat
    <3>1. top.i \in Nat /\ top.i # 0
      BY <2>1, <2>2, <2>4, <1>0 DEF Frames
    <3> QED
      BY <3>1, <2>4, GroupAssumption DEF Looping
  <2>6. PICK m \in Runtimes : m = Members[j]
    BY <2>5, GroupAssumption
  <2>7. PICK next \in Frames : next = [top EXCEPT !.i = @ + 1] /\ next.at = top.at
    <3>1. top.i + 1 \in Nat
      BY <2>5
    <3>2. [top EXCEPT !.i = @ + 1] \in Frames
      BY <3>1 DEF Frames
    <3>3. [top EXCEPT !.i = @ + 1].at = top.at
      BY DEF Frames
    <3> QED
      BY <3>2, <3>3
  <2>8. \A k \in Kinds : RuntimeStop(m, k) \in Frames /\ RuntimeStop(m, k).at = "stop"
    BY NewStop
  <2>9. PICK w \in Frames : w = Frame("join_wait", "join", m) /\ w.at = "join_wait"
    <3>1. "join_wait" \in Labels /\ "join" \in Kinds /\ m \in Runtimes \cup {Null}
      BY DEF Labels, MemberFrames, Kinds
    <3> QED
      BY <3>1, NewFrame
  <2>10. \E a \in Frames : /\ a.at = "stop"
                           /\ \/ Continue(M) = Append(B, a) /\ top.at = "group_members"
                              \/ Continue(M) = Append(Append(B, next), a) /\ top.at = "group_members"
                              \/ Continue(M) = Append(Append(Append(B, next), w), a) /\ top.at = "join_members"
    <3>1. {"last", "member", "join"} \subseteq Kinds
      BY DEF Kinds
    <3>2. CASE top.at = "group_members" /\ ~top.flag /\ top.i = Len(Members)
      <4>1. Continue(M) = Append(B, RuntimeStop(m, "last"))
        BY <3>2, <2>1, <2>2, <2>3, <2>4, <2>5, <2>6, <1>0 DEF Continue
      <4> QED
        BY <4>1, <3>1, <3>2, <2>8
    <3>3. CASE top.at = "group_members" /\ (top.flag \/ top.i # Len(Members))
      <4>1. Continue(M) = Append(Append(B, next), RuntimeStop(m, "member"))
        BY <3>3, <2>1, <2>2, <2>3, <2>4, <2>5, <2>6, <2>7, <1>0 DEF Continue
      <4> QED
        BY <4>1, <3>1, <3>3, <2>8
    <3>4. CASE top.at = "join_members"
      <4>1. Continue(M) = Append(Append(Append(B, next), w), RuntimeStop(m, "join"))
        BY <3>4, <2>1, <2>2, <2>3, <2>4, <2>5, <2>6, <2>7, <2>9, <1>0 DEF Continue
      <4> QED
        BY <4>1, <3>1, <3>4, <2>8
    <3> QED
      BY <3>2, <3>3, <3>4, <2>4
  <2>11. PICK a \in Frames : /\ a.at = "stop"
                           /\ \/ Continue(M) = Append(B, a) /\ top.at = "group_members"
                              \/ Continue(M) = Append(Append(B, next), a) /\ top.at = "group_members"
                              \/ Continue(M) = Append(Append(Append(B, next), w), a) /\ top.at = "join_members"
    BY <2>10
  <2>12. PICK C \in Seq(Frames) : /\ C = Continue(M) /\ Len(C) \in Nat /\ Len(C) >= n
                                  /\ \A p \in 1..(n - 1) : C[p] = M[p]
                                  /\ C[n].at = top.at \/ (top.at = "group_members" /\ C[n].at = "stop")
                                  /\ \A p \in (n + 1)..Len(C) : C[p].at \in {"stop", "join_wait"}
    <3>0. n - 1 \in Nat /\ n = (n - 1) + 1 /\ n + 1 \in Nat /\ n + 2 \in Nat /\ n + 2 = (n + 1) + 1
      BY <2>2
    <3>1. PICK D \in Seq(Frames) : /\ D = Append(B, next) /\ Len(D) = n /\ D[n] = next
                                   /\ \A p \in 1..(n - 1) : D[p] = M[p]
      <4>1. /\ Append(B, next) \in Seq(Frames) /\ Len(Append(B, next)) = n /\ Append(B, next)[n] = next
            /\ \A p \in 1..(n - 1) : Append(B, next)[p] = B[p]
        BY <3>0, <2>3, AppendAt
      <4> QED
        BY <4>1, <2>3
    <3>2. PICK E \in Seq(Frames) : /\ E = Append(D, w) /\ Len(E) = n + 1 /\ E[n + 1] = w
                                   /\ \A p \in 1..n : E[p] = D[p]
      <4>1. /\ Append(D, w) \in Seq(Frames) /\ Len(Append(D, w)) = n + 1 /\ Append(D, w)[n + 1] = w
            /\ \A p \in 1..n : Append(D, w)[p] = D[p]
        BY <3>0, <3>1, AppendAt
      <4> QED
        BY <4>1
    <3>3. CASE Continue(M) = Append(B, a) /\ top.at = "group_members"
      <4>1. PICK C \in Seq(Frames) : /\ C = Append(B, a) /\ Len(C) = n /\ C[n] = a
                                     /\ \A p \in 1..(n - 1) : C[p] = M[p]
        <5>1. /\ Append(B, a) \in Seq(Frames) /\ Len(Append(B, a)) = n /\ Append(B, a)[n] = a
              /\ \A p \in 1..(n - 1) : Append(B, a)[p] = B[p]
          BY <3>0, <2>3, AppendAt
        <5>2. \A p \in 1..(n - 1) : Append(B, a)[p] = M[p]
          BY <5>1, <2>3
        <5> QED
          BY <5>1, <5>2
      <4>2. \A p \in (n + 1)..n : C[p].at \in {"stop", "join_wait"}
        OBVIOUS
      <4>3. C = Continue(M) /\ C[n].at = "stop" /\ n \in Nat /\ n >= n
        BY <4>1, <3>3, <2>11
      <4> QED
        BY <4>1, <4>2, <4>3, <3>3
    <3>4. CASE Continue(M) = Append(Append(B, next), a) /\ top.at = "group_members"
      <4>1. PICK C \in Seq(Frames) : /\ C = Append(D, a) /\ Len(C) = n + 1 /\ C[n + 1] = a
                                     /\ \A p \in 1..n : C[p] = D[p]
        <5>1. /\ Append(D, a) \in Seq(Frames) /\ Len(Append(D, a)) = n + 1 /\ Append(D, a)[n + 1] = a
              /\ \A p \in 1..n : Append(D, a)[p] = D[p]
          BY <3>0, <3>1, AppendAt
        <5> QED
          BY <5>1
      <4>2. C[n] = next /\ \A p \in 1..(n - 1) : C[p] = M[p]
        BY <4>1, <3>1, <2>2
      <4>3. \A p \in (n + 1)..(n + 1) : C[p].at \in {"stop", "join_wait"}
        BY <4>1, <2>11
      <4>4. C = Continue(M) /\ C[n].at = top.at /\ n + 1 \in Nat /\ n + 1 >= n
        BY <4>1, <4>2, <3>4, <3>1, <2>7
      <4> QED
        BY <4>1, <4>2, <4>3, <4>4
    <3>5. CASE Continue(M) = Append(Append(Append(B, next), w), a) /\ top.at = "join_members"
      <4>1. PICK C \in Seq(Frames) : /\ C = Append(E, a) /\ Len(C) = n + 2 /\ C[n + 2] = a
                                     /\ \A p \in 1..(n + 1) : C[p] = E[p]
        <5>1. /\ Append(E, a) \in Seq(Frames) /\ Len(Append(E, a)) = n + 2 /\ Append(E, a)[n + 2] = a
              /\ \A p \in 1..(n + 1) : Append(E, a)[p] = E[p]
          BY <3>0, <3>2, AppendAt
        <5> QED
          BY <5>1
      <4>2. C[n] = next /\ C[n + 1] = w /\ \A p \in 1..(n - 1) : C[p] = M[p]
        BY <4>1, <3>1, <3>2, <2>2
      <4>3. \A p \in (n + 1)..(n + 2) : C[p].at \in {"stop", "join_wait"}
        <5>1. \A p \in (n + 1)..(n + 2) : p = n + 1 \/ p = n + 2
          OBVIOUS
        <5> QED
          BY <5>1, <4>1, <4>2, <2>11, <2>9
      <4>4. C = Continue(M) /\ C[n].at = top.at /\ n + 2 \in Nat /\ n + 2 >= n
        BY <4>1, <4>2, <3>5, <3>1, <3>2, <2>7
      <4> QED
        BY <4>1, <4>2, <4>3, <4>4
    <3> QED
      BY <3>3, <3>4, <3>5, <2>11
  <2>13. \A p \in 1..Len(C) : Marked(C[p]) => p \in 1..n /\ C[p] = M[p]
    <3> SUFFICES ASSUME NEW p \in 1..Len(C), Marked(C[p])
                 PROVE  p \in 1..n /\ C[p] = M[p]
      OBVIOUS
    <3>1. p \in 1..(n - 1) \/ p = n \/ p \in (n + 1)..Len(C)
      BY <2>12
    <3>2. p # n /\ p \notin (n + 1)..Len(C)
      BY <2>12, <2>4 DEF Marked
    <3> QED
      BY <3>1, <3>2, <2>12
  <2>14. \A p \in 1..n : Marked(M[p]) => p \in 1..Len(C) /\ C[p] = M[p]
    <3> SUFFICES ASSUME NEW p \in 1..n, Marked(M[p])
                 PROVE  p \in 1..Len(C) /\ C[p] = M[p]
      OBVIOUS
    <3>1. p # n
      BY <2>2, <2>4 DEF Marked
    <3>2. p \in 1..(n - 1) /\ p \in 1..Len(C)
      BY <3>1, <2>12
    <3> QED
      BY <3>2, <2>12
  <2>15. C # << >> /\ \/ C[1] = M[1]
                      \/ M[1].at = "join_members" /\ C[1].at = "join_members"
                      \/ M[1].at = "group_members" /\ C[1].at \in {"group_members", "stop"}
    <3>1. C # << >>
      BY <2>12, <2>2
    <3>2. CASE n = 1
      BY <3>1, <3>2, <2>12, <2>2, <2>4
    <3>3. CASE n # 1
      <4>1. 1 \in 1..(n - 1)
        BY <3>3, <2>2
      <4> QED
        BY <4>1, <3>1, <2>12
    <3> QED
      BY <3>2, <3>3
  <2> QED
    BY <2>1, <2>12, <2>13, <2>14, <2>15, <1>0 DEF Looped
<1> QED
  BY <1>1, <1>2

\* Thread t's stack becomes M, with its loop gone on.
Moved(t, M) ==
    /\ M \in Seq(Frames)
    /\ stack' = [stack EXCEPT ![t] = Continue(M)]
    /\ stack' \in [Threads -> Seq(Frames)]
    /\ Looped(M, stack'[t])
    /\ CallsNest'

\* The step of a thread: if the frames it leaves nest, and control may come
\* back to the last of them, all calls nest after the loops have gone on.
LEMMA Turn ==
    ASSUME GroupTypeOK, CallsNest, Onward, NEW t \in Threads, NEW M \in Seq(Frames),
           stack' = [stack EXCEPT ![t] = Continue(M)],
           Nested(t, M)', M # << >> => Ready(M[Len(M)])'
    PROVE  Moved(t, M)
<1>1. stack \in [Threads -> Seq(Frames)]
  BY DEF GroupTypeOK
<1>2. PICK C \in Seq(Frames) : C = Continue(M) /\ Nested(t, C)' /\ (C # << >> => OnTop(C[Len(C)])')
  BY ContinueNests
<1>3. stack' \in [Threads -> Seq(Frames)] /\ stack'[t] = C /\ \A u \in Threads \ {t} : stack'[u] = stack[u]
  BY <1>1, <1>2
<1>4. Looped(M, C)
  <2>1. M # << >> /\ M[Len(M)].at \in {"group_members", "join_members"} => M[Len(M)].i # 0
    <3> SUFFICES ASSUME M # << >>
                 PROVE  M[Len(M)].at \in {"group_members", "join_members"} => M[Len(M)].i # 0
      OBVIOUS
    <3>1. Sound(t, M[Len(M)])'
      BY NestedUnder
    <3> QED
      BY <3>1 DEF Sound
  <2> QED
    BY <2>1, <1>2, ContinueLoops
<1>5. ASSUME NEW u \in Threads
      PROVE  (Nested(u, stack[u]) /\ (stack[u] # << >> => OnTop(Top(u))))'
  <2>1. CASE u = t
    BY <2>1, <1>2, <1>3 DEF Top
  <2>2. CASE u # t
    <3>1. PICK S \in Seq(Frames) : S = stack[u] /\ stack'[u] = S
      BY <2>2, <1>1, <1>3
    <3>2. Nested(u, S) /\ (S # << >> => OnTop(S[Len(S)]))
      BY <3>1 DEF CallsNest, Top
    <3>3. Nested(u, S)'
      BY <3>2, NestedStays
    <3>4. S # << >> => OnTop(S[Len(S)])'
      <4> SUFFICES ASSUME S # << >>
                   PROVE  OnTop(S[Len(S)])'
        OBVIOUS
      <4>1. PICK f \in Frames : f = S[Len(S)] /\ Len(S) \in 1..Len(S)
        BY UnderSeq
      <4>2. Sound(u, f) /\ Ready(f) /\ (f.at \in {"group_members", "join_members"} => ~Looping(f))
        BY <4>1, <3>2 DEF Nested, OnTop
      <4>3. Ready(f)'
        BY <4>2, ReadyStays
      <4> QED
        BY <4>1, <4>2, <4>3 DEF OnTop, Looping
    <3> QED
      BY <3>1, <3>3, <3>4 DEF Top
  <2> QED
    BY <2>1, <2>2
<1> QED
  BY <1>2, <1>3, <1>4, <1>5 DEF Moved, CallsNest

-----------------------------------------------------------------------------
(* Thread t keeps the calls below position k, and frames a and b, where they *)
(* are marked, take the places k and k + 1.                                 *)

\* The outermost call stays the same, but for a loop that has gone on.
Same(f, g) ==
    \/ g = f
    \/ f.at = "join_members" /\ g.at = "join_members"
    \/ f.at = "group_members" /\ g.at \in {"group_members", "stop"}

Turned(t, k, a, b) ==
    /\ k \in Nat /\ k >= 1 /\ Len(stack[t]) \in Nat /\ (Len(stack[t]) = k \/ Len(stack[t]) = k - 1)
    /\ stack' \in [Threads -> Seq(Frames)]
    /\ \A u \in Threads \ {t} : stack'[u] = stack[u]
    /\ Len(stack'[t]) \in Nat
    /\ \A q \in 1..Len(stack'[t]) : Marked(stack'[t][q]) =>
          \/ q \in 1..(k - 1) /\ stack'[t][q] = stack[t][q]
          \/ q = k /\ stack'[t][q] = a
          \/ q = k + 1 /\ stack'[t][q] = b
    /\ \A q \in 1..(k - 1) : Marked(stack[t][q]) => q \in 1..Len(stack'[t]) /\ stack'[t][q] = stack[t][q]
    /\ Marked(a) => k \in 1..Len(stack'[t]) /\ stack'[t][k] = a
    /\ Marked(b) => k + 1 \in 1..Len(stack'[t]) /\ stack'[t][k + 1] = b
    /\ k # 1 => stack'[t] # << >> /\ Same(stack[t][1], stack'[t][1])

\* The calls that thread t keeps.
Based(t, B, k) ==
    /\ B \in Seq(Frames) /\ k \in Nat /\ k >= 1 /\ Len(B) = k - 1 /\ Nested(t, B)
    /\ Len(stack[t]) \in Nat /\ (Len(stack[t]) = k \/ Len(stack[t]) = k - 1)
    /\ \A p \in 1..(k - 1) : B[p] = stack[t][p]

\* M is B with a and b, where they are marked, on top.
Laid(M, B, k, a, b) ==
    /\ Len(M) \in Nat /\ Len(M) >= k - 1
    /\ \A p \in 1..(k - 1) : M[p] = B[p]
    /\ \A p \in 1..Len(M) : Marked(M[p]) => p \in 1..(k - 1) \/ (p = k /\ M[p] = a) \/ (p = k + 1 /\ M[p] = b)
    /\ Marked(a) => k \in 1..Len(M) /\ M[k] = a
    /\ Marked(b) => k + 1 \in 1..Len(M) /\ M[k + 1] = b

\* What a step does to the calls below, and to the marked frames.
LEMMA TurnOver ==
    ASSUME GroupTypeOK, CallsNest, Onward, NEW t \in Threads, NEW B, NEW k, Based(t, B, k),
           NEW M \in Seq(Frames), NEW a \in Frames, NEW b \in Frames,
           Laid(M, B, k, a, b), stack' = [stack EXCEPT ![t] = Continue(M)],
           Nested(t, M)', M # << >> => Ready(M[Len(M)])'
    PROVE  CallsNest' /\ Turned(t, k, a, b) /\ Looped(M, stack'[t])
<1>1. Moved(t, M)
  BY Turn
<1>2. /\ CallsNest' /\ Looped(M, stack'[t]) /\ stack' \in [Threads -> Seq(Frames)]
  BY <1>1 DEF Moved
<1>3. \A u \in Threads \ {t} : stack'[u] = stack[u]
  BY DEF GroupTypeOK
<1>4. PICK C \in Seq(Frames) : C = stack'[t] /\ Looped(M, C)
  BY <1>2
<1>5. /\ Len(C) \in Nat /\ Len(C) >= Len(M)
      /\ \A p \in 1..Len(C) : Marked(C[p]) => p \in 1..Len(M) /\ C[p] = M[p]
      /\ \A p \in 1..Len(M) : Marked(M[p]) => p \in 1..Len(C) /\ C[p] = M[p]
  BY <1>4 DEF Looped
<1>6. /\ k \in Nat /\ k >= 1 /\ Len(stack[t]) \in Nat /\ (Len(stack[t]) = k \/ Len(stack[t]) = k - 1)
      /\ \A p \in 1..(k - 1) : M[p] = stack[t][p]
      /\ Len(M) \in Nat /\ Len(M) >= k - 1
  BY DEF Based, Laid
<1>7. \A q \in 1..Len(C) : Marked(C[q]) =>
          \/ q \in 1..(k - 1) /\ C[q] = stack[t][q]
          \/ q = k /\ C[q] = a
          \/ q = k + 1 /\ C[q] = b
  BY <1>5, <1>6 DEF Laid
<1>8. \A q \in 1..(k - 1) : Marked(stack[t][q]) => q \in 1..Len(C) /\ C[q] = stack[t][q]
  <2> SUFFICES ASSUME NEW q \in 1..(k - 1), Marked(stack[t][q])
               PROVE  q \in 1..Len(C) /\ C[q] = stack[t][q]
    OBVIOUS
  <2>1. q \in 1..Len(M) /\ M[q] = stack[t][q]
    BY <1>6
  <2> QED
    BY <2>1, <1>5
<1>9. (Marked(a) => k \in 1..Len(C) /\ C[k] = a) /\ (Marked(b) => k + 1 \in 1..Len(C) /\ C[k + 1] = b)
  BY <1>5 DEF Laid
<1>10. k # 1 => C # << >> /\ Same(stack[t][1], C[1])
  <2> SUFFICES ASSUME k # 1
               PROVE  C # << >> /\ Same(stack[t][1], C[1])
    OBVIOUS
  <2>1. 1 \in 1..(k - 1) /\ 1 \in 1..Len(M)
    BY <1>6
  <2>2. M[1] = stack[t][1] /\ M # << >>
    BY <2>1, <1>6, EmptySeq
  <2> QED
    BY <2>2, <1>4 DEF Looped, Same
<1> QED
  BY <1>2, <1>3, <1>4, <1>5, <1>6, <1>7, <1>8, <1>9, <1>10 DEF Turned

\* A frame that counts for nothing.
LEMMA GroupStopFrame ==
    /\ GroupStop \in Frames /\ ~Marked(GroupStop)
    /\ GroupStop.at = "group_stop" /\ GroupStop.kind = "group" /\ GroupStop.m = Null
    /\ GroupStop.i = 1 /\ ~GroupStop.flag /\ GroupStop.f = Null
<1>1. "group_stop" \in Labels /\ "group" \in Kinds /\ Null \in Runtimes \cup {Null}
  BY DEF Labels, GroupFrames, Kinds
<1> QED
  BY <1>1, NewFrame DEF GroupStop, Marked

\* The call on top returns.
LEMMA TurnNone ==
    ASSUME GroupTypeOK, CallsNest, Onward, NEW t \in Threads, NEW B, NEW k, Based(t, B, k),
           k # 1 => Ready(B[k - 1])',
           stack' = [stack EXCEPT ![t] = Continue(B)]
    PROVE  CallsNest' /\ Turned(t, k, GroupStop, GroupStop) /\ (k = 1 => stack'[t] = << >>)
<1>1. B \in Seq(Frames) /\ k \in Nat /\ k >= 1 /\ Len(B) = k - 1 /\ Nested(t, B) /\ Len(B) \in Nat
  BY DEF Based
<1>2. Nested(t, B)'
  BY <1>1, NestedStays
<1>3. B = << >> <=> k = 1
  BY <1>1, EmptySeq
<1>4. B # << >> => Ready(B[Len(B)])'
  BY <1>1, <1>3
<1>5. CallsNest' /\ Turned(t, k, GroupStop, GroupStop) /\ Looped(B, stack'[t])
  <2>1. Laid(B, B, k, GroupStop, GroupStop)
    BY <1>1, GroupStopFrame DEF Laid
  <2> QED
    BY <2>1, <1>1, <1>2, <1>4, GroupStopFrame, TurnOver
<1> QED
  BY <1>3, <1>5 DEF Looped

\* The call on top becomes frame a, or a begins.
LEMMA TurnOne ==
    ASSUME GroupTypeOK, CallsNest, Onward, NEW t \in Threads, NEW B, NEW k, Based(t, B, k),
           NEW a \in Frames, Sound(t, a)', Ready(a)',
           k = 1 => Bottom(t, a)', k # 1 => Above(B[k - 1], a)',
           stack' = [stack EXCEPT ![t] = Continue(Append(B, a))]
    PROVE  /\ CallsNest' /\ Turned(t, k, a, GroupStop) /\ Len(stack'[t]) >= k
           /\ k = 1 => stack'[t] # << >> /\ Same(a, stack'[t][1])
<1>1. B \in Seq(Frames) /\ k \in Nat /\ k >= 1 /\ Len(B) = k - 1 /\ Nested(t, B) /\ k - 1 \in Nat /\ k = (k - 1) + 1
  BY DEF Based
<1>2. Nested(t, B)'
  BY <1>1, NestedStays
<1>3. B = << >> <=> k = 1
  BY <1>1, EmptySeq
<1>4. PICK M \in Seq(Frames) : /\ M = Append(B, a) /\ Len(M) = k /\ M[k] = a
                               /\ \A p \in 1..(k - 1) : M[p] = B[p]
  <2>1. /\ Append(B, a) \in Seq(Frames) /\ Len(Append(B, a)) = k /\ Append(B, a)[k] = a
        /\ \A p \in 1..(k - 1) : Append(B, a)[p] = B[p]
    BY <1>1, AppendAt
  <2> QED
    BY <2>1
<1>5. Nested(t, Append(B, a))'
  BY <1>1, <1>2, <1>3, NestPush
<1>6. Nested(t, M)' /\ Ready(M[Len(M)])'
  BY <1>4, <1>5
<1>7. CallsNest' /\ Turned(t, k, a, GroupStop) /\ Looped(M, stack'[t])
  <2>1. \A p \in 1..Len(M) : Marked(M[p]) => p \in 1..(k - 1) \/ (p = k /\ M[p] = a)
                                                 \/ (p = k + 1 /\ M[p] = GroupStop)
    BY <1>1, <1>4
  <2>2. Len(M) \in Nat /\ Len(M) >= k - 1 /\ (Marked(a) => k \in 1..Len(M) /\ M[k] = a)
    BY <1>1, <1>4
  <2>4. Marked(GroupStop) => k + 1 \in 1..Len(M) /\ M[k + 1] = GroupStop
    BY GroupStopFrame
  <2>5. M # << >> => Ready(M[Len(M)])'
    BY <1>6
  <2>6. Laid(M, B, k, a, GroupStop)
    BY <2>1, <2>2, <2>4, <1>4 DEF Laid
  <2>3. stack' = [stack EXCEPT ![t] = Continue(M)]
    BY <1>4
  <2> QED
    BY <2>3, <2>5, <2>6, <1>6, GroupStopFrame, TurnOver
<1>8. Len(stack'[t]) >= k
  BY <1>4, <1>7 DEF Looped
<1>9. k = 1 => stack'[t] # << >> /\ Same(a, stack'[t][1])
  <2>1. M # << >>
    BY <1>4, <1>1, EmptySeq
  <2> QED
    BY <2>1, <1>4, <1>7 DEF Looped, Same
<1> QED
  BY <1>7, <1>8, <1>9

\* The call on top becomes frame a, which calls b, or both begin.
LEMMA TurnTwo ==
    ASSUME GroupTypeOK, CallsNest, Onward, NEW t \in Threads, NEW B, NEW k, Based(t, B, k),
           NEW a \in Frames, Sound(t, a)',
           NEW b \in Frames, Sound(t, b)', Above(a, b)', Ready(b)',
           k = 1 => Bottom(t, a)', k # 1 => Above(B[k - 1], a)',
           stack' = [stack EXCEPT ![t] = Continue(Append(Append(B, a), b))]
    PROVE  /\ CallsNest' /\ Turned(t, k, a, b) /\ Len(stack'[t]) >= k
           /\ k = 1 => stack'[t] # << >> /\ Same(a, stack'[t][1])
<1>1. B \in Seq(Frames) /\ k \in Nat /\ k >= 1 /\ Len(B) = k - 1 /\ Nested(t, B) /\ k - 1 \in Nat /\ k = (k - 1) + 1
      /\ k + 1 \in Nat
  BY DEF Based
<1>2. Nested(t, B)'
  BY <1>1, NestedStays
<1>3. B = << >> <=> k = 1
  BY <1>1, EmptySeq
<1>4. PICK C \in Seq(Frames) : /\ C = Append(B, a) /\ Len(C) = k /\ C[k] = a
                               /\ \A p \in 1..(k - 1) : C[p] = B[p]
  <2>1. /\ Append(B, a) \in Seq(Frames) /\ Len(Append(B, a)) = k /\ Append(B, a)[k] = a
        /\ \A p \in 1..(k - 1) : Append(B, a)[p] = B[p]
    BY <1>1, AppendAt
  <2> QED
    BY <2>1
<1>5. PICK M \in Seq(Frames) : /\ M = Append(C, b) /\ Len(M) = k + 1 /\ M[k + 1] = b
                               /\ \A p \in 1..k : M[p] = C[p]
  <2>1. /\ Append(C, b) \in Seq(Frames) /\ Len(Append(C, b)) = k + 1 /\ Append(C, b)[k + 1] = b
        /\ \A p \in 1..k : Append(C, b)[p] = C[p]
    BY <1>1, <1>4, AppendAt
  <2> QED
    BY <2>1
<1>6. Nested(t, C)' /\ C # << >> /\ C[Len(C)] = a
  <2>1. Nested(t, Append(B, a))'
    BY <1>1, <1>2, <1>3, NestPush
  <2> QED
    BY <2>1, <1>1, <1>4, EmptySeq
<1>7. Nested(t, M)' /\ Ready(M[Len(M)])'
  <2>1. Above(C[Len(C)], b)'
    BY <1>6
  <2>2. Nested(t, Append(C, b))'
    BY <2>1, <1>6, NestPush
  <2> QED
    BY <2>2, <1>5
<1>8. CallsNest' /\ Turned(t, k, a, b) /\ Looped(M, stack'[t])
  <2>1. M[k] = a /\ \A p \in 1..(k - 1) : M[p] = B[p]
    BY <1>1, <1>4, <1>5
  <2>2. \A p \in 1..Len(M) : Marked(M[p]) => p \in 1..(k - 1) \/ (p = k /\ M[p] = a) \/ (p = k + 1 /\ M[p] = b)
    BY <2>1, <1>1, <1>5
  <2>3. Len(M) \in Nat /\ Len(M) >= k - 1 /\ k \in 1..Len(M) /\ k + 1 \in 1..Len(M)
    BY <1>1, <1>5
  <2>5. /\ Marked(a) => k \in 1..Len(M) /\ M[k] = a
        /\ Marked(b) => k + 1 \in 1..Len(M) /\ M[k + 1] = b
        /\ M # << >> => Ready(M[Len(M)])'
    BY <2>1, <2>3, <1>5, <1>7
  <2>6. Laid(M, B, k, a, b)
    BY <2>1, <2>2, <2>3, <2>5 DEF Laid
  <2>4. stack' = [stack EXCEPT ![t] = Continue(M)]
    BY <1>4, <1>5
  <2> QED
    BY <2>4, <2>5, <2>6, <1>7, TurnOver
<1>9. Len(stack'[t]) >= k
  BY <1>5, <1>8, <1>1 DEF Looped
<1>10. k = 1 => stack'[t] # << >> /\ Same(a, stack'[t][1])
  <2>1. M # << >> /\ (k = 1 => M[1] = a)
    BY <1>4, <1>5, <1>1, EmptySeq
  <2> QED
    BY <2>1, <1>8 DEF Looped, Same
<1> QED
  BY <1>8, <1>9, <1>10

-----------------------------------------------------------------------------
(* The call on top                                                          *)

Topped(t, B, k, g) ==
    /\ Based(t, B, k) /\ k = Len(stack[t]) /\ B = Under(stack[t]) /\ stack[t] # << >>
    /\ g \in Frames /\ g = Top(t) /\ g = stack[t][k] /\ Sound(t, g) /\ OnTop(g)
    /\ k = 1 => Bottom(t, g)
    /\ k # 1 => B[k - 1] \in Frames /\ Sound(t, B[k - 1]) /\ Above(B[k - 1], g)

\* A thread that is in a call has a call on top, sound and fit for its caller.
LEMMA Tops ==
    ASSUME GroupTypeOK, CallsNest, NEW t \in Threads, stack[t] # << >>
    PROVE  \E B, k, g : Topped(t, B, k, g)
<1>1. PICK S \in Seq(Frames) : S = stack[t]
  BY DEF GroupTypeOK
<1>2. PICK k \in Nat : k = Len(S) /\ k >= 1
  BY <1>1, UnderSeq
<1>3. PICK B \in Seq(Frames) : B = Under(S) /\ Len(B) = k - 1 /\ \A p \in 1..(k - 1) : B[p] = S[p]
  BY <1>1, <1>2, UnderSeq
<1>4. PICK g \in Frames : g = S[k]
  BY <1>1, <1>2, UnderSeq
<1>5. /\ \A p \in 1..k : Sound(t, S[p])
      /\ \A p \in 1..k : p + 1 \in 1..k => Above(S[p], S[p + 1])
      /\ Bottom(t, S[1]) /\ OnTop(g) /\ g = Top(t)
  BY <1>1, <1>2, <1>4 DEF CallsNest, Nested, Top
<1>6. Nested(t, B)
  <2>1. \A p \in 1..(k - 1) : Sound(t, B[p])
    BY <1>2, <1>3, <1>5
  <2>2. \A p \in 1..(k - 1) : p + 1 \in 1..(k - 1) => Above(B[p], B[p + 1])
    <3> SUFFICES ASSUME NEW p \in 1..(k - 1), p + 1 \in 1..(k - 1)
                 PROVE  Above(B[p], B[p + 1])
      OBVIOUS
    <3>1. p \in 1..k /\ p + 1 \in 1..k
      BY <1>2
    <3> QED
      BY <3>1, <1>3, <1>5
  <2>3. B # << >> => Bottom(t, B[1])
    <3>1. B # << >> => 1 \in 1..(k - 1)
      BY <1>2, <1>3, EmptySeq
    <3> QED
      BY <3>1, <1>3, <1>5
  <2> QED
    BY <2>1, <2>2, <2>3, <1>3 DEF Nested
<1>7. Based(t, B, k)
  BY <1>1, <1>2, <1>3, <1>6 DEF Based
<1>8. k # 1 => B[k - 1] \in Frames /\ Sound(t, B[k - 1]) /\ Above(B[k - 1], g)
  <2> SUFFICES ASSUME k # 1
               PROVE  B[k - 1] \in Frames /\ Sound(t, B[k - 1]) /\ Above(B[k - 1], g)
    OBVIOUS
  <2>1. k - 1 \in 1..(k - 1) /\ k - 1 \in 1..k /\ k \in 1..k /\ (k - 1) + 1 = k
    BY <1>2
  <2>2. B[k - 1] = S[k - 1] /\ Sound(t, S[k - 1]) /\ Above(S[k - 1], S[k])
    BY <2>1, <1>3, <1>5
  <2>3. B[k - 1] \in Frames
    BY <2>1, <1>3, ElementOfSeq
  <2> QED
    BY <2>2, <2>3, <1>4
<1>9. k \in 1..k
  BY <1>2
<1>10. Topped(t, B, k, g)
  BY <1>1, <1>2, <1>3, <1>4, <1>5, <1>7, <1>8, <1>9 DEF Topped
<1> QED
  BY <1>10

\* The lifecycle's own calls are outermost.
LEMMA LifecycleOutermost ==
    ASSUME NEW t \in Threads, NEW B, NEW k, NEW g, Topped(t, B, k, g), g.at \in LifecycleFrames
    PROVE  t = Lifecycle /\ k = 1 /\ B = << >>
<1>1. t = Lifecycle
  BY DEF Topped, Sound
<1>2. k = 1
  BY DEF Topped, Above
<1>3. B = << >>
  BY <1>2, EmptySeq DEF Topped, Based
<1> QED
  BY <1>1, <1>2, <1>3

\* Frame a may take the place of g.
Passes(g, a) ==
    /\ g.at \notin LifecycleFrames /\ a.at \notin LifecycleFrames
    /\ a.at \in GroupFrames \/ a.kind = "last" => g.at \in GroupFrames \/ g.kind = "last"
    /\ a.at = "group_stop" => stopping' \/ Cause'
    /\ g.kind = "member" => (a.kind = "member" /\ a.m = g.m) \/ g.m \notin accepting'
    /\ g.at \in {"join_wait", "join_thread"} => a.at \in {"join_wait", "join_thread"} /\ a.m = g.m
    /\ g.at = "stop" => ~Stoppable(g.m)'
    /\ g.at = "group_stop" => stopping'

\* Frame g may go.
Leaves(g) ==
    /\ g.at \notin LifecycleFrames \cup {"stop", "group_stop"}
    /\ g.kind = "member" => g.m \notin accepting'
    /\ g.at \in {"join_wait", "join_thread"} => g.m \in rt_joined'

\* The member that a loop has just called is closed.
LEMMA LoopCloses ==
    ASSUME NEW f, NEW g, f.at = "group_members", NEW j \in DOMAIN Members, f.i = j + 1, g.m = Members[j],
           ClosedTo(j)', g.m \notin accepting'
    PROVE  Ready(f)'
<1>1. DOMAIN Members \subseteq Nat
  BY GroupAssumption
<1>2. \A i \in DOMAIN Members : i < f.i => i < j \/ i = j
  BY <1>1
<1>3. ClosedTo(f.i)'
  BY <1>2 DEF ClosedTo
<1> QED
  BY <1>3 DEF Ready

\* A frame that takes over what g owes its caller fits that caller.
LEMMA PassesOn ==
    ASSUME Onward, NEW t \in Threads, NEW f \in Frames, NEW g \in Frames, NEW a \in Frames,
           Sound(t, f), Above(f, g), Passes(g, a)
    PROVE  Above(f, a)'
<1>1. Above(f, g)'
  BY AboveStays
<1>2. Ready(f)' \/ Owes(f, g)'
  BY <1>1 DEF Above
<1>3. Owes(f, g)' => Ready(f)' \/ Owes(f, a)'
  <2> SUFFICES ASSUME Owes(f, g)'
               PROVE  Ready(f)' \/ Owes(f, a)'
    OBVIOUS
  <2>1. CASE f.at = "group_members" /\ g.kind = "member"
    <3>1. PICK j \in DOMAIN Members : f.i = j + 1 /\ g.m = Members[j] /\ ClosedTo(j)'
      BY <2>1 DEF Owes
    <3>2. CASE a.kind = "member" /\ a.m = g.m
      BY <2>1, <3>1, <3>2 DEF Owes
    <3>3. CASE g.m \notin accepting'
      BY <2>1, <3>1, <3>3, LoopCloses
    <3> QED
      BY <2>1, <3>2, <3>3 DEF Passes
  <2>2. CASE ~(f.at = "group_members" /\ g.kind = "member")
    BY <2>2 DEF Owes, Ready, Passes
  <2> QED
    BY <2>1, <2>2
<1>4. a.at \in GroupFrames \/ a.kind = "last" => f.at \in Callers
  BY <1>1 DEF Above, Passes
<1> QED
  BY <1>1, <1>2, <1>3, <1>4 DEF Above, Passes

\* A call that leaves nothing owed returns control to its caller.
LEMMA LeavesReady ==
    ASSUME Onward, NEW t \in Threads, NEW f \in Frames, NEW g \in Frames, Sound(t, f), Above(f, g), Leaves(g)
    PROVE  Ready(f)'
<1>1. Above(f, g)'
  BY AboveStays
<1>2. CASE Ready(f)'
  BY <1>2
<1>3. CASE Owes(f, g)'
  <2>1. CASE f.at = "group_members" /\ g.kind = "member"
    <3>1. PICK j \in DOMAIN Members : f.i = j + 1 /\ g.m = Members[j] /\ ClosedTo(j)'
      BY <1>3, <2>1 DEF Owes
    <3> QED
      BY <2>1, <3>1, LoopCloses DEF Leaves
  <2>2. CASE f.at = "join_members" /\ g.at \in {"join_wait", "join_thread"}
    <3>1. PICK j \in DOMAIN Members : f.i = j + 1 /\ g.m = Members[j] /\ JoinedTo(j)'
      BY <1>3, <2>2 DEF Owes
    <3>2. JoinedTo(f.i)'
      <4>1. DOMAIN Members \subseteq Nat
        BY GroupAssumption
      <4>2. \A i \in DOMAIN Members : i < f.i => i < j \/ i = j
        BY <3>1, <4>1
      <4> QED
        BY <2>2, <3>1, <4>2 DEF JoinedTo, Leaves
    <3> QED
      BY <2>2, <3>2 DEF Ready
  <2> QED
    BY <1>3, <2>1, <2>2 DEF Owes, Leaves
<1> QED
  BY <1>1, <1>2, <1>3 DEF Above

-----------------------------------------------------------------------------
(* The steps of a thread, by what becomes of the call on top                *)

\* The three ways a frame is replaced.
LEMMA Becomes ==
    ASSUME NEW t \in Threads, NEW B, NEW k, NEW g, Topped(t, B, k, g)
    PROVE  /\ Become(t, << >>) => stack' = [stack EXCEPT ![t] = Continue(B)]
           /\ \A a \in Frames : Become(t, <<a>>) => stack' = [stack EXCEPT ![t] = Continue(Append(B, a))]
           /\ \A a, b \in Frames :
                 Become(t, <<a, b>>) => stack' = [stack EXCEPT ![t] = Continue(Append(Append(B, a), b))]
<1>1. B \in Seq(Frames) /\ B = Under(stack[t])
  BY DEF Topped, Based
<1>2. B \o << >> = B
  BY <1>1, Replaced
<1>3. \A a \in Frames : B \o <<a>> = Append(B, a)
  BY <1>1, Replaced
<1>4. \A a, b \in Frames : B \o <<a, b>> = Append(Append(B, a), b)
  BY <1>1, Replaced
<1> QED
  BY <1>1, <1>2, <1>3, <1>4 DEF Become

\* A call of the group or of a runtime returns.
LEMMA InsideReturns ==
    ASSUME GroupTypeOK, CallsNest, Onward, NEW t \in Threads, NEW B, NEW k, NEW g, Topped(t, B, k, g),
           Leaves(g), Become(t, << >>)
    PROVE  /\ CallsNest' /\ Turned(t, k, GroupStop, GroupStop) /\ (k = 1 => stack'[t] = << >>)
<1>1. stack' = [stack EXCEPT ![t] = Continue(B)]
  BY Becomes
<1>2. k # 1 => Ready(B[k - 1])'
  BY LeavesReady DEF Topped
<1>3. Based(t, B, k)
  BY DEF Topped
<1> QED
  BY <1>1, <1>2, <1>3, TurnNone

\* It goes on in another frame.
LEMMA InsideOne ==
    ASSUME GroupTypeOK, CallsNest, Onward, NEW t \in Threads, NEW B, NEW k, NEW g, Topped(t, B, k, g),
           NEW a \in Frames, Passes(g, a), Sound(t, a)', Ready(a)', Become(t, <<a>>)
    PROVE  /\ CallsNest' /\ Turned(t, k, a, GroupStop) /\ Len(stack'[t]) >= k
           /\ k = 1 => stack'[t] # << >> /\ Same(a, stack'[t][1])
<1>1. stack' = [stack EXCEPT ![t] = Continue(Append(B, a))]
  BY Becomes
<1>2. k # 1 => Above(B[k - 1], a)'
  BY PassesOn DEF Topped
<1>3. k = 1 => Bottom(t, a)'
  BY DEF Topped, Bottom, Passes
<1>4. Based(t, B, k)
  BY DEF Topped
<1> QED
  BY <1>1, <1>2, <1>3, <1>4, TurnOne

\* It calls another.
LEMMA InsideTwo ==
    ASSUME GroupTypeOK, CallsNest, Onward, NEW t \in Threads, NEW B, NEW k, NEW g, Topped(t, B, k, g),
           NEW a \in Frames, Passes(g, a), Sound(t, a)',
           NEW b \in Frames, Sound(t, b)', Above(a, b)', Ready(b)', Become(t, <<a, b>>)
    PROVE  /\ CallsNest' /\ Turned(t, k, a, b) /\ Len(stack'[t]) >= k
           /\ k = 1 => stack'[t] # << >> /\ Same(a, stack'[t][1])
<1>1. stack' = [stack EXCEPT ![t] = Continue(Append(Append(B, a), b))]
  BY Becomes
<1>2. k # 1 => Above(B[k - 1], a)'
  BY PassesOn DEF Topped
<1>3. k = 1 => Bottom(t, a)'
  BY DEF Topped, Bottom, Passes
<1>4. Based(t, B, k)
  BY DEF Topped
<1> QED
  BY <1>1, <1>2, <1>3, <1>4, TurnTwo

\* A call of the lifecycle thread's own returns.
LEMMA LifecycleReturns ==
    ASSUME GroupTypeOK, CallsNest, Onward, NEW t \in Threads, NEW B, NEW k, NEW g, Topped(t, B, k, g),
           g.at \in LifecycleFrames, Become(t, << >>)
    PROVE  CallsNest' /\ Turned(t, k, GroupStop, GroupStop) /\ stack'[t] = << >>
<1>1. stack' = [stack EXCEPT ![t] = Continue(B)]
  BY Becomes
<1>2. k = 1
  BY LifecycleOutermost
<1>3. Based(t, B, k)
  BY DEF Topped
<1> QED
  BY <1>1, <1>2, <1>3, TurnNone

\* It goes on in another frame.
LEMMA LifecycleOne ==
    ASSUME GroupTypeOK, CallsNest, Onward, NEW t \in Threads, NEW B, NEW k, NEW g, Topped(t, B, k, g),
           g.at \in LifecycleFrames, NEW a \in Frames, a.at \in LifecycleFrames, a.kind \notin {"last", "group"},
           Sound(t, a)', Ready(a)', Become(t, <<a>>)
    PROVE  /\ CallsNest' /\ Turned(t, k, a, GroupStop) /\ Len(stack'[t]) >= k
           /\ stack'[t] # << >> /\ Same(a, stack'[t][1])
<1>1. stack' = [stack EXCEPT ![t] = Continue(Append(B, a))]
  BY Becomes
<1>2. k = 1
  BY LifecycleOutermost
<1>3. Bottom(t, a)'
  BY DEF Bottom, GroupFrames, LifecycleFrames, PhaseFrames, JoinFrames, DestroyFrames
<1>4. Based(t, B, k)
  BY DEF Topped
<1> QED
  BY <1>1, <1>2, <1>3, <1>4, TurnOne

\* It calls the group or a runtime.
LEMMA LifecycleTwo ==
    ASSUME GroupTypeOK, CallsNest, Onward, NEW t \in Threads, NEW B, NEW k, NEW g, Topped(t, B, k, g),
           g.at \in LifecycleFrames, NEW a \in Frames, a.at \in LifecycleFrames, a.kind \notin {"last", "group"},
           Sound(t, a)', NEW b \in Frames, Sound(t, b)', Above(a, b)', Ready(b)', Become(t, <<a, b>>)
    PROVE  /\ CallsNest' /\ Turned(t, k, a, b) /\ Len(stack'[t]) >= k
           /\ stack'[t] # << >> /\ Same(a, stack'[t][1])
<1>1. stack' = [stack EXCEPT ![t] = Continue(Append(Append(B, a), b))]
  BY Becomes
<1>2. k = 1
  BY LifecycleOutermost
<1>3. Bottom(t, a)'
  BY DEF Bottom, GroupFrames, LifecycleFrames, PhaseFrames, JoinFrames, DestroyFrames
<1>4. Based(t, B, k)
  BY DEF Topped
<1> QED
  BY <1>1, <1>2, <1>3, <1>4, TurnTwo

\* A call begins on an idle thread.
LEMMA IdleBase ==
    ASSUME NEW t \in Threads, stack[t] = << >>
    PROVE  Based(t, << >>, 1)
BY EmptySeq DEF Based, Nested

\* Only the loops over the members go on of themselves.
LEMMA Calm ==
    ASSUME NEW S \in Seq(Frames), S # << >>, S[Len(S)].at \notin {"group_members", "join_members"}
    PROVE  Continue(S) = S
BY DEF Continue

\* A thread that is idle begins a call.
LEMMA BeginOne ==
    ASSUME GroupTypeOK, CallsNest, Onward, NEW t \in Threads, NEW a \in Frames, Begin(t, <<a>>),
           a.at \notin {"group_members", "join_members"},
           Sound(t, a)', Ready(a)', Bottom(t, a)'
    PROVE  CallsNest' /\ Turned(t, 1, a, GroupStop) /\ stack'[t] # << >> /\ Same(a, stack'[t][1])
<1>1. stack[t] = << >> /\ stack' = [stack EXCEPT ![t] = <<a>>]
  BY DEF Begin
<1>2. PICK S \in Seq(Frames) : S = <<a>> /\ S = Append(<< >>, a) /\ S[Len(S)] = a /\ S # << >>
  OBVIOUS
<1>3. Continue(S) = S
  BY <1>2, Calm
<1>4. stack' = [stack EXCEPT ![t] = Continue(Append(<< >>, a))]
  BY <1>1, <1>2, <1>3
<1>5. Based(t, << >>, 1)
  BY <1>1, IdleBase
<1> QED
  BY <1>4, <1>5, TurnOne

\* A thread that is idle begins a call, and this one another.
LEMMA BeginTwo ==
    ASSUME GroupTypeOK, CallsNest, Onward, NEW t \in Threads, NEW a \in Frames, NEW b \in Frames,
           Begin(t, <<a, b>>), b.at \notin {"group_members", "join_members"},
           Sound(t, a)', Bottom(t, a)', Sound(t, b)', Above(a, b)', Ready(b)'
    PROVE  CallsNest' /\ Turned(t, 1, a, b) /\ stack'[t] # << >> /\ Same(a, stack'[t][1])
<1>1. stack[t] = << >> /\ stack' = [stack EXCEPT ![t] = <<a, b>>]
  BY DEF Begin
<1>2. PICK S \in Seq(Frames) : S = <<a, b>> /\ S = Append(Append(<< >>, a), b) /\ S[Len(S)] = b /\ S # << >>
  OBVIOUS
<1>3. Continue(S) = S
  BY <1>2, Calm
<1>4. stack' = [stack EXCEPT ![t] = Continue(Append(Append(<< >>, a), b))]
  BY <1>1, <1>2, <1>3
<1>5. Based(t, << >>, 1)
  BY <1>1, IdleBase
<1> QED
  BY <1>4, <1>5, TurnTwo

-----------------------------------------------------------------------------
(* The winners, hook runs and notifications                                 *)

\* The one place that frame a, at x, is for member m.
Place(P, x) == IF P THEN {x} ELSE {}

\* The calls in progress are the places of the stacks.
LEMMA CallPlaces ==
    /\ \A t \in Threads : \A p \in 1..Len(stack[t]) : <<t, p>> \in Calls /\ Called(<<t, p>>) = stack[t][p]
    /\ \A x \in Calls : /\ x = <<x[1], x[2]>> /\ x[1] \in Threads /\ x[2] \in 1..Len(stack[x[1]])
                        /\ Called(x) = stack[x[1]][x[2]]
BY DEF Calls, Called

\* They are after a step too.
LEMMA NextCallPlaces ==
    /\ \A t \in Threads : \A p \in 1..Len(stack'[t]) : <<t, p>> \in Calls' /\ Called(<<t, p>>)' = stack'[t][p]
    /\ \A x \in Calls' : /\ x = <<x[1], x[2]>> /\ x[1] \in Threads /\ x[2] \in 1..Len(stack'[x[1]])
                         /\ Called(x)' = stack'[x[1]][x[2]]
BY DEF Calls, Called

\* Which marked calls there are after a step.
LEMMA MarksTurn ==
    ASSUME NEW t \in Threads, NEW k, NEW a, NEW b, Turned(t, k, a, b), NEW x
    PROVE  /\ x \in Calls' /\ Marked(Called(x)') =>
                 \/ x \in Calls /\ x # <<t, k>> /\ Called(x)' = Called(x)
                 \/ x = <<t, k>> /\ Called(x)' = a
                 \/ x = <<t, k + 1>> /\ Called(x)' = b /\ x \notin Calls
           /\ x \in Calls /\ Marked(Called(x)) /\ x # <<t, k>> =>
                 x \in Calls' /\ Called(x)' = Called(x) /\ x # <<t, k + 1>>
           /\ Marked(a) => <<t, k>> \in Calls' /\ Called(<<t, k>>)' = a
           /\ Marked(b) => <<t, k + 1>> \in Calls' /\ Called(<<t, k + 1>>)' = b
<1>0. /\ k \in Nat /\ k >= 1 /\ Len(stack[t]) \in Nat /\ (Len(stack[t]) = k \/ Len(stack[t]) = k - 1)
      /\ \A u \in Threads \ {t} : stack'[u] = stack[u]
      /\ Len(stack'[t]) \in Nat
      /\ \A q \in 1..Len(stack'[t]) : Marked(stack'[t][q]) =>
            \/ q \in 1..(k - 1) /\ stack'[t][q] = stack[t][q]
            \/ q = k /\ stack'[t][q] = a
            \/ q = k + 1 /\ stack'[t][q] = b
      /\ \A q \in 1..(k - 1) : Marked(stack[t][q]) => q \in 1..Len(stack'[t]) /\ stack'[t][q] = stack[t][q]
      /\ Marked(a) => k \in 1..Len(stack'[t]) /\ stack'[t][k] = a
      /\ Marked(b) => k + 1 \in 1..Len(stack'[t]) /\ stack'[t][k + 1] = b
  BY DEF Turned
<1>1. /\ Marked(a) => <<t, k>> \in Calls' /\ Called(<<t, k>>)' = a
      /\ Marked(b) => <<t, k + 1>> \in Calls' /\ Called(<<t, k + 1>>)' = b
  BY <1>0, NextCallPlaces
<1>2. ASSUME x \in Calls', Marked(Called(x)')
      PROVE  \/ x \in Calls /\ x # <<t, k>> /\ Called(x)' = Called(x)
             \/ x = <<t, k>> /\ Called(x)' = a
             \/ x = <<t, k + 1>> /\ Called(x)' = b /\ x \notin Calls
  <2>1. PICK u, q : u \in Threads /\ q \in 1..Len(stack'[u]) /\ x = <<u, q>> /\ Called(x)' = stack'[u][q]
    BY <1>2, NextCallPlaces
  <2>2. CASE u # t
    BY <2>1, <2>2, <1>0, CallPlaces
  <2>3. CASE u = t
    <3>1. CASE q \in 1..(k - 1) /\ stack'[t][q] = stack[t][q]
      <4>1. q \in 1..Len(stack[t]) /\ q # k
        BY <3>1, <1>0
      <4> QED
        BY <4>1, <3>1, <2>1, <2>3, CallPlaces
    <3>2. CASE q = k /\ stack'[t][q] = a
      BY <3>2, <2>1, <2>3
    <3>3. CASE q = k + 1 /\ stack'[t][q] = b
      <4>1. q \notin 1..Len(stack[t])
        BY <3>3, <1>0
      <4>2. x \notin Calls
        BY <4>1, <2>1, <2>3, CallPlaces
      <4> QED
        BY <4>2, <3>3, <2>1, <2>3
    <3> QED
      BY <3>1, <3>2, <3>3, <2>1, <2>3, <1>0, <1>2
  <2> QED
    BY <2>2, <2>3
<1>3. ASSUME x \in Calls, Marked(Called(x)), x # <<t, k>>
      PROVE  x \in Calls' /\ Called(x)' = Called(x) /\ x # <<t, k + 1>>
  <2>1. PICK u, q : u \in Threads /\ q \in 1..Len(stack[u]) /\ x = <<u, q>> /\ Called(x) = stack[u][q]
    BY <1>3, CallPlaces
  <2>2. CASE u # t
    BY <2>1, <2>2, <1>0, NextCallPlaces
  <2>3. CASE u = t
    <3>1. q \in 1..(k - 1) /\ q # k + 1
      BY <2>1, <2>3, <1>0, <1>3
    <3>2. q \in 1..Len(stack'[t]) /\ stack'[t][q] = stack[t][q]
      BY <3>1, <2>1, <2>3, <1>0, <1>3
    <3> QED
      BY <3>1, <3>2, <2>1, <2>3, NextCallPlaces
  <2> QED
    BY <2>2, <2>3
<1> QED
  BY <1>1, <1>2, <1>3

\* Winners, hook runs and notifications are marked frames.
LEMMA MarkedKinds ==
    ASSUME NEW f
    PROVE  Winning(f) \/ Hooking(f) \/ Notifying(f) => Marked(f)
BY DEF Winning, Hooking, Notifying, Marked

\* How a step moves the threads that won the stop of member m.
LEMMA WinnersTurn ==
    ASSUME NEW t \in Threads, NEW k, NEW a, NEW b, Turned(t, k, a, b), NEW m
    PROVE  /\ Winners(m)' = (Winners(m) \ {<<t, k>>}) \cup Place(Winning(a) /\ a.m = m, <<t, k>>)
                              \cup Place(Winning(b) /\ b.m = m, <<t, k + 1>>)
           /\ \A x \in Winners(m) \ {<<t, k>>} : Called(x)' = Called(x)
<1>1. ASSUME NEW x, x \in Winners(m)'
      PROVE  x \in (Winners(m) \ {<<t, k>>}) \cup Place(Winning(a) /\ a.m = m, <<t, k>>)
                              \cup Place(Winning(b) /\ b.m = m, <<t, k + 1>>)
  <2>1. x \in Calls' /\ Winning(Called(x)') /\ Called(x)'.m = m
    BY <1>1 DEF Winners, Winning
  <2>2. Marked(Called(x)')
    BY <2>1, MarkedKinds
  <2>3. \/ x \in Calls /\ x # <<t, k>> /\ Called(x)' = Called(x)
        \/ x = <<t, k>> /\ Called(x)' = a
        \/ x = <<t, k + 1>> /\ Called(x)' = b
    <3>1. x \in Calls' /\ Marked(Called(x)') =>
                 \/ x \in Calls /\ x # <<t, k>> /\ Called(x)' = Called(x)
                 \/ x = <<t, k>> /\ Called(x)' = a
                 \/ x = <<t, k + 1>> /\ Called(x)' = b /\ x \notin Calls
      BY MarksTurn
    <3> QED
      BY <3>1, <2>1, <2>2
  <2> QED
    BY <2>1, <2>3 DEF Winners, Place
<1>2. ASSUME NEW x \in Winners(m), x # <<t, k>>
      PROVE  x \in Winners(m)' /\ Called(x)' = Called(x)
  <2>1. x \in Calls /\ Winning(Called(x)) /\ Called(x).m = m
    BY <1>2 DEF Winners
  <2>2. Marked(Called(x))
    BY <2>1, MarkedKinds
  <2>3. x \in Calls' /\ Called(x)' = Called(x)
    BY <2>1, <2>2, <1>2, MarksTurn
  <2> QED
    BY <2>1, <2>3 DEF Winners, Winning
<1>3. ASSUME Winning(a), a.m = m
      PROVE  <<t, k>> \in Winners(m)'
  <2>1. <<t, k>> \in Calls' /\ Called(<<t, k>>)' = a
    BY <1>3, MarkedKinds, MarksTurn
  <2> QED
    BY <2>1, <1>3 DEF Winners, Winning
<1>4. ASSUME Winning(b), b.m = m
      PROVE  <<t, k + 1>> \in Winners(m)'
  <2>1. <<t, k + 1>> \in Calls' /\ Called(<<t, k + 1>>)' = b
    BY <1>4, MarkedKinds, MarksTurn
  <2> QED
    BY <2>1, <1>4 DEF Winners, Winning
<1> QED
  BY <1>1, <1>2, <1>3, <1>4 DEF Place

\* How it moves the ones that run its shutdown hooks.
LEMMA HookRunsTurn ==
    ASSUME NEW t \in Threads, NEW k, NEW a, NEW b, Turned(t, k, a, b), NEW m
    PROVE  /\ HookRuns(m)' = (HookRuns(m) \ {<<t, k>>}) \cup Place(Hooking(a) /\ a.m = m, <<t, k>>)
                              \cup Place(Hooking(b) /\ b.m = m, <<t, k + 1>>)
           /\ \A x \in HookRuns(m) \ {<<t, k>>} : Called(x)' = Called(x)
<1>1. ASSUME NEW x, x \in HookRuns(m)'
      PROVE  x \in (HookRuns(m) \ {<<t, k>>}) \cup Place(Hooking(a) /\ a.m = m, <<t, k>>)
                              \cup Place(Hooking(b) /\ b.m = m, <<t, k + 1>>)
  <2>1. x \in Calls' /\ Hooking(Called(x)') /\ Called(x)'.m = m
    BY <1>1 DEF HookRuns, Hooking
  <2>2. Marked(Called(x)')
    BY <2>1, MarkedKinds
  <2>3. \/ x \in Calls /\ x # <<t, k>> /\ Called(x)' = Called(x)
        \/ x = <<t, k>> /\ Called(x)' = a
        \/ x = <<t, k + 1>> /\ Called(x)' = b
    <3>1. x \in Calls' /\ Marked(Called(x)') =>
                 \/ x \in Calls /\ x # <<t, k>> /\ Called(x)' = Called(x)
                 \/ x = <<t, k>> /\ Called(x)' = a
                 \/ x = <<t, k + 1>> /\ Called(x)' = b /\ x \notin Calls
      BY MarksTurn
    <3> QED
      BY <3>1, <2>1, <2>2
  <2> QED
    BY <2>1, <2>3 DEF HookRuns, Place
<1>2. ASSUME NEW x \in HookRuns(m), x # <<t, k>>
      PROVE  x \in HookRuns(m)' /\ Called(x)' = Called(x)
  <2>1. x \in Calls /\ Hooking(Called(x)) /\ Called(x).m = m
    BY <1>2 DEF HookRuns
  <2>2. Marked(Called(x))
    BY <2>1, MarkedKinds
  <2>3. x \in Calls' /\ Called(x)' = Called(x)
    BY <2>1, <2>2, <1>2, MarksTurn
  <2> QED
    BY <2>1, <2>3 DEF HookRuns, Hooking
<1>3. ASSUME Hooking(a), a.m = m
      PROVE  <<t, k>> \in HookRuns(m)'
  <2>1. <<t, k>> \in Calls' /\ Called(<<t, k>>)' = a
    BY <1>3, MarkedKinds, MarksTurn
  <2> QED
    BY <2>1, <1>3 DEF HookRuns, Hooking
<1>4. ASSUME Hooking(b), b.m = m
      PROVE  <<t, k + 1>> \in HookRuns(m)'
  <2>1. <<t, k + 1>> \in Calls' /\ Called(<<t, k + 1>>)' = b
    BY <1>4, MarkedKinds, MarksTurn
  <2> QED
    BY <2>1, <1>4 DEF HookRuns, Hooking
<1> QED
  BY <1>1, <1>2, <1>3, <1>4 DEF Place

\* How it moves the calls of the group on its behalf.
LEMMA NotifiersTurn ==
    ASSUME NEW t \in Threads, NEW k, NEW a, NEW b, Turned(t, k, a, b), NEW m
    PROVE  /\ Notifiers(m)' = (Notifiers(m) \ {<<t, k>>}) \cup Place(Notifying(a) /\ a.m = m, <<t, k>>)
                              \cup Place(Notifying(b) /\ b.m = m, <<t, k + 1>>)
           /\ \A x \in Notifiers(m) \ {<<t, k>>} : Called(x)' = Called(x)
<1>1. ASSUME NEW x, x \in Notifiers(m)'
      PROVE  x \in (Notifiers(m) \ {<<t, k>>}) \cup Place(Notifying(a) /\ a.m = m, <<t, k>>)
                              \cup Place(Notifying(b) /\ b.m = m, <<t, k + 1>>)
  <2>1. x \in Calls' /\ Notifying(Called(x)') /\ Called(x)'.m = m
    BY <1>1 DEF Notifiers, Notifying
  <2>2. Marked(Called(x)')
    BY <2>1, MarkedKinds
  <2>3. \/ x \in Calls /\ x # <<t, k>> /\ Called(x)' = Called(x)
        \/ x = <<t, k>> /\ Called(x)' = a
        \/ x = <<t, k + 1>> /\ Called(x)' = b
    <3>1. x \in Calls' /\ Marked(Called(x)') =>
                 \/ x \in Calls /\ x # <<t, k>> /\ Called(x)' = Called(x)
                 \/ x = <<t, k>> /\ Called(x)' = a
                 \/ x = <<t, k + 1>> /\ Called(x)' = b /\ x \notin Calls
      BY MarksTurn
    <3> QED
      BY <3>1, <2>1, <2>2
  <2> QED
    BY <2>1, <2>3 DEF Notifiers, Place
<1>2. ASSUME NEW x \in Notifiers(m), x # <<t, k>>
      PROVE  x \in Notifiers(m)' /\ Called(x)' = Called(x)
  <2>1. x \in Calls /\ Notifying(Called(x)) /\ Called(x).m = m
    BY <1>2 DEF Notifiers
  <2>2. Marked(Called(x))
    BY <2>1, MarkedKinds
  <2>3. x \in Calls' /\ Called(x)' = Called(x)
    BY <2>1, <2>2, <1>2, MarksTurn
  <2> QED
    BY <2>1, <2>3 DEF Notifiers, Notifying
<1>3. ASSUME Notifying(a), a.m = m
      PROVE  <<t, k>> \in Notifiers(m)'
  <2>1. <<t, k>> \in Calls' /\ Called(<<t, k>>)' = a
    BY <1>3, MarkedKinds, MarksTurn
  <2> QED
    BY <2>1, <1>3 DEF Notifiers, Notifying
<1>4. ASSUME Notifying(b), b.m = m
      PROVE  <<t, k + 1>> \in Notifiers(m)'
  <2>1. <<t, k + 1>> \in Calls' /\ Called(<<t, k + 1>>)' = b
    BY <1>4, MarkedKinds, MarksTurn
  <2> QED
    BY <2>1, <1>4 DEF Notifiers, Notifying
<1> QED
  BY <1>1, <1>2, <1>3, <1>4 DEF Place

-----------------------------------------------------------------------------
(* What a step leaves alone                                                 *)

\* No winner, hook run or notification comes or goes.
Quiet ==
    \A m \in Runtimes :
        /\ Winners(m)' = Winners(m) /\ HookRuns(m)' = HookRuns(m) /\ Notifiers(m)' = Notifiers(m)
        /\ \A x \in Winners(m) : Called(x)' = Called(x)

Counts(f) == Winning(f) \/ Hooking(f) \/ Notifying(f)

\* A step between frames that do not count moves none of them.
LEMMA QuietTurn ==
    ASSUME NEW t \in Threads, NEW k, NEW a, NEW b, Turned(t, k, a, b), ~Counts(a), ~Counts(b),
           Len(stack[t]) = k => ~Counts(stack[t][k])
    PROVE  Quiet
<1>1. \A m : <<t, k>> \notin Winners(m) /\ <<t, k>> \notin HookRuns(m) /\ <<t, k>> \notin Notifiers(m)
  <2>1. <<t, k>> \in Calls => ~Counts(Called(<<t, k>>))
    BY CallPlaces DEF Turned
  <2> QED
    BY <2>1 DEF Counts, Winners, HookRuns, Notifiers
<1>2. ~Winning(a) /\ ~Hooking(a) /\ ~Notifying(a) /\ ~Winning(b) /\ ~Hooking(b) /\ ~Notifying(b)
  BY DEF Counts
<1>3. ASSUME NEW m \in Runtimes
      PROVE  Winners(m)' = Winners(m) /\ \A x \in Winners(m) : Called(x)' = Called(x)
  <2>1. /\ Winners(m)' = (Winners(m) \ {<<t, k>>}) \cup Place(Winning(a) /\ a.m = m, <<t, k>>)
                              \cup Place(Winning(b) /\ b.m = m, <<t, k + 1>>)
        /\ \A x \in Winners(m) \ {<<t, k>>} : Called(x)' = Called(x)
    BY WinnersTurn
  <2> QED
    BY <2>1, <1>1, <1>2 DEF Place
<1>4. ASSUME NEW m \in Runtimes
      PROVE  HookRuns(m)' = HookRuns(m)
  <2>1. /\ HookRuns(m)' = (HookRuns(m) \ {<<t, k>>}) \cup Place(Hooking(a) /\ a.m = m, <<t, k>>)
                              \cup Place(Hooking(b) /\ b.m = m, <<t, k + 1>>)
        /\ \A x \in HookRuns(m) \ {<<t, k>>} : Called(x)' = Called(x)
    BY HookRunsTurn
  <2> QED
    BY <2>1, <1>1, <1>2 DEF Place
<1>5. ASSUME NEW m \in Runtimes
      PROVE  Notifiers(m)' = Notifiers(m)
  <2>1. /\ Notifiers(m)' = (Notifiers(m) \ {<<t, k>>}) \cup Place(Notifying(a) /\ a.m = m, <<t, k>>)
                              \cup Place(Notifying(b) /\ b.m = m, <<t, k + 1>>)
        /\ \A x \in Notifiers(m) \ {<<t, k>>} : Called(x)' = Called(x)
    BY NotifiersTurn
  <2> QED
    BY <2>1, <1>1, <1>2 DEF Place
<1> QED
  BY <1>3, <1>4, <1>5 DEF Quiet

\* Nor does a step that leaves the stacks alone.
LEMMA QuietStill ==
    ASSUME stack' = stack
    PROVE  Quiet
BY DEF Quiet, Winners, HookRuns, Notifiers, Calls, Called, Winning, Hooking, Notifying

\* Then there is still one winner of each stop.
LEMMA QuietWinner ==
    ASSUME OneWinner, Quiet, \A m \in Runtimes : chain[m] = "open" => chain'[m] = "open",
           notifying \subseteq notifying'
    PROVE  OneWinner'
BY DEF OneWinner, Quiet

\* Then the notifications are still counted.
LEMMA QuietCount ==
    ASSUME NotificationsCounted, Quiet, notifications' = notifications
    PROVE  NotificationsCounted'
BY DEF NotificationsCounted, Quiet

\* The outermost calls stay.
Planted ==
    /\ stack[Lifecycle] = << >> => stack'[Lifecycle] = << >>
    /\ stack[Lifecycle] # << >> =>
          /\ stack'[Lifecycle] # << >> /\ stack[Lifecycle][1].at \in LifecycleFrames
          /\ Same(stack[Lifecycle][1], stack'[Lifecycle][1])
    /\ stack'[Other] # << >> /\ stack'[Other][1].kind \in {"group", "last"} =>
          stack[Other] # << >> /\ stack[Other][1].kind \in {"group", "last"}

\* Nor does an idle owner begin a call.
Rooted == Planted /\ (\A m \in Runtimes : stack[m] = << >> => stack'[m] = << >>)

\* The outermost call of a thread is sound.
LEMMA OutermostSound ==
    ASSUME GroupTypeOK, CallsNest, NEW t \in Threads, stack[t] # << >>
    PROVE  Sound(t, stack[t][1]) /\ Bottom(t, stack[t][1]) /\ stack[t][1] \in Frames
<1>1. stack[t] \in Seq(Frames)
  BY DEF GroupTypeOK
<1>2. 1 \in 1..Len(stack[t])
  BY <1>1, EmptySeq
<1> QED
  BY <1>1, <1>2, ElementOfSeq DEF CallsNest, Nested

\* It is after a step too.
LEMMA NextOutermostSound ==
    ASSUME stack' \in [Threads -> Seq(Frames)], CallsNest', NEW t \in Threads, stack'[t] # << >>,
           NEW f, f = stack'[t][1]
    PROVE  Sound(t, f)' /\ Bottom(t, f)' /\ f \in Frames
<1>1. stack'[t] \in Seq(Frames)
  OBVIOUS
<1>2. 1 \in 1..Len(stack'[t])
  BY <1>1, EmptySeq
<1> QED
  BY <1>1, <1>2, ElementOfSeq DEF CallsNest, Nested

\* A step inside a call keeps the outermost calls of the lifecycle thread and of
\* idle owners, and makes no outermost call of the group.
LEMMA InsideRooted ==
    ASSUME GroupTypeOK, CallsNest, NEW t \in Threads, NEW B, NEW k, NEW g, Topped(t, B, k, g),
           g.at \notin LifecycleFrames,
           CallsNest', NEW a, NEW b, Turned(t, k, a, b),
           k = 1 => \/ stack'[t] = << >>
                    \/ stack'[t] # << >> /\ Same(a, stack'[t][1]) /\ Sound(t, a)'
                       /\ (a.kind \in {"group", "last"} => g.kind \in {"group", "last"})
    PROVE  Rooted
<1>0. t # Lifecycle \/ k # 1
  BY DEF Topped, Bottom
<1>1. /\ \A u \in Threads \ {t} : stack'[u] = stack[u]
      /\ stack' \in [Threads -> Seq(Frames)]
      /\ k # 1 => stack'[t] # << >> /\ Same(stack[t][1], stack'[t][1])
  BY DEF Turned
<1>2. /\ stack[t] # << >> /\ k = Len(stack[t]) /\ g = stack[t][k]
  BY DEF Topped
<1>3. {Lifecycle, Other} \cup Runtimes = Threads /\ Lifecycle # Other
  BY GroupAssumption DEF Threads
<1>4. stack[Lifecycle] = << >> => stack'[Lifecycle] = << >>
  BY <1>1, <1>2, <1>3
<1>5. stack[Lifecycle] # << >> =>
          /\ stack'[Lifecycle] # << >> /\ stack[Lifecycle][1].at \in LifecycleFrames
          /\ Same(stack[Lifecycle][1], stack'[Lifecycle][1])
  <2> SUFFICES ASSUME stack[Lifecycle] # << >>
               PROVE  /\ stack'[Lifecycle] # << >> /\ stack[Lifecycle][1].at \in LifecycleFrames
                      /\ Same(stack[Lifecycle][1], stack'[Lifecycle][1])
    OBVIOUS
  <2>1. stack[Lifecycle][1].at \in LifecycleFrames
    BY <1>3, OutermostSound DEF Bottom
  <2>2. CASE t = Lifecycle
    BY <2>1, <2>2, <1>0, <1>1
  <2>3. CASE t # Lifecycle
    BY <2>1, <2>3, <1>1, <1>3 DEF Same
  <2> QED
    BY <2>2, <2>3
<1>6. stack'[Other] # << >> /\ stack'[Other][1].kind \in {"group", "last"} =>
          stack[Other] # << >> /\ stack[Other][1].kind \in {"group", "last"}
  <2> SUFFICES ASSUME stack'[Other] # << >>, stack'[Other][1].kind \in {"group", "last"}
               PROVE  stack[Other] # << >> /\ stack[Other][1].kind \in {"group", "last"}
    OBVIOUS
  <2>1. CASE t # Other
    BY <2>1, <1>1, <1>3
  <2>2. CASE t = Other
    <3>1. stack'[Other][1].at # "join_members"
      <4>0. PICK f : f = stack'[Other][1]
        OBVIOUS
      <4>1. Sound(Other, f)'
        BY <4>0, <1>1, <1>3, NextOutermostSound
      <4>2. "join_members" \in LifecycleFrames
        BY DEF LifecycleFrames, JoinFrames
      <4> QED
        BY <4>0, <4>1, <4>2, <1>3 DEF Sound
    <3>2. CASE k # 1
      <4>1. stack[Other][1].at = "group_members" => stack[Other][1].kind = "group"
        BY <1>2, <1>3, <2>2, OutermostSound DEF Sound, GroupFrames
      <4> QED
        BY <4>1, <3>1, <3>2, <2>2, <1>1, <1>2 DEF Same
    <3>3. CASE k = 1
      <4>1. Same(a, stack'[t][1]) /\ (a.kind \in {"group", "last"} => g.kind \in {"group", "last"})
        BY <3>3, <2>2
      <4>2. a.at = "group_members" => a.kind = "group"
        BY <3>3, <2>2 DEF Sound, GroupFrames
      <4> QED
        BY <4>1, <4>2, <3>1, <3>3, <2>2, <1>2 DEF Same
    <3> QED
      BY <3>2, <3>3
  <2> QED
    BY <2>1, <2>2
<1>7. \A m \in Runtimes : stack[m] = << >> => stack'[m] = << >>
  BY <1>1, <1>2, <1>3
<1> QED
  BY <1>4, <1>5, <1>6, <1>7 DEF Rooted, Planted

\* So does a step that leaves the stacks alone.
LEMMA StillRooted ==
    ASSUME GroupTypeOK, CallsNest, stack' = stack
    PROVE  Rooted
<1>1. Lifecycle \in Threads
  BY DEF Threads
<1>2. stack[Lifecycle] # << >> => stack[Lifecycle][1].at \in LifecycleFrames
  BY <1>1, OutermostSound DEF Bottom
<1> QED
  BY <1>2 DEF Rooted, Planted, Same

\* The variables behind the names for groups of them.
LEMMA Unchanges ==
    /\ UNCHANGED runtime =>
          /\ lifecycle' = lifecycle /\ rt_dispatching' = rt_dispatching /\ ready' = ready /\ serving' = serving
          /\ failure' = failure /\ observed' = observed /\ rt_joining' = rt_joining /\ rt_joined' = rt_joined
          /\ bound' = bound /\ notifications' = notifications /\ owner' = owner
    /\ UNCHANGED worker => accepting' = accepting /\ notifying' = notifying /\ chain' = chain /\ control' = control
    /\ UNCHANGED group => /\ stopping' = stopping /\ dispatching' = dispatching
                          /\ member_stopped' = member_stopped /\ group_failure' = group_failure
    /\ UNCHANGED history => /\ outcome' = outcome /\ delivered' = delivered /\ reported' = reported
                            /\ independent' = independent /\ asked' = asked
    /\ UNCHANGED phases => ready' = ready /\ serving' = serving
    /\ UNCHANGED failed => failure' = failure /\ observed' = observed
    /\ UNCHANGED joins => rt_joining' = rt_joining /\ rt_joined' = rt_joined
    /\ UNCHANGED binding => bound' = bound /\ notifications' = notifications
BY DEF runtime, worker, group, history, phases, failed, joins, binding

\* A step that the lifecycle thread's own call need not notice.
Aside ==
    /\ Onward /\ stage' = stage /\ bound' = bound /\ rt_joined' \subseteq Runtimes
    /\ stopping /\ ~dispatching => ~dispatching'
    /\ independent \subseteq independent'
    /\ \A m \in Runtimes :
          /\ ready[m] = "reached" => ready'[m] = "reached"
          /\ serving[m] = "reached" => serving'[m] = "reached"
          /\ lifecycle'[m] = "running" => lifecycle[m] = "running"
          /\ m \notin bound /\ notifications[m] = 0 => notifications'[m] = 0

\* The member list has every runtime.
LEMMA MembersAre ==
    /\ Len(Members) \in Nat /\ DOMAIN Members = 1..Len(Members)
    /\ \A j \in DOMAIN Members : j \in Nat /\ Members[j] \in Runtimes
    /\ \A m \in Runtimes : \E j \in DOMAIN Members : Members[j] = m
BY GroupAssumption

\* What a loop over the members has behind it stays behind it.
LEMMA ListsStay ==
    ASSUME Aside, NEW i
    PROVE  /\ UnboundTo(i) => UnboundTo(i)'
           /\ \A kind : ReachedTo(kind, i) => ReachedTo(kind, i)'
           /\ (\A j \in DOMAIN Members : j >= i => lifecycle[Members[j]] # "running") =>
                 (\A j \in DOMAIN Members : j >= i => lifecycle'[Members[j]] # "running")
BY MembersAre DEF Aside, UnboundTo, ReachedTo

\* Where a phase call is stays true while other threads run.
LEMMA PhaseStays ==
    ASSUME Aside, NEW f, PhaseSound(f)
    PROVE  PhaseSound(f)'
<1>1. /\ stage' = stage /\ (Cause => Cause') /\ (stopping => stopping')
      /\ (independent # {} => independent' # {})
  BY DEF Aside, Onward
<1>2. /\ ReachedTo(f.kind, f.i) => ReachedTo(f.kind, f.i)'
      /\ ReachedTo(f.kind, f.i + 1) => ReachedTo(f.kind, f.i + 1)'
      /\ (\A j \in DOMAIN Members : j >= f.i => lifecycle[Members[j]] # "running") =>
                 (\A j \in DOMAIN Members : j >= f.i => lifecycle'[Members[j]] # "running")
  BY ListsStay
<1> QED
  BY <1>1, <1>2 DEF PhaseSound

\* So does where join() or the destructor is.
LEMMA EndStays ==
    ASSUME Aside, NEW f, EndSound(f)
    PROVE  EndSound(f)'
<1>1. UnboundTo(f.i) => UnboundTo(f.i)'
  BY ListsStay
<1>2. rt_joined = Runtimes => rt_joined' = Runtimes
  BY DEF Aside, Onward
<1>3. stage' = stage /\ (stopping => stopping') /\ (stopping /\ ~dispatching => ~dispatching') /\ bound' = bound
  BY DEF Aside, Onward
<1> QED
  BY <1>1, <1>2, <1>3 DEF EndSound

\* The lifecycle thread's own call stays the same while others run.
LEMMA SameBottom ==
    ASSUME Planted, stack[Lifecycle] # << >>
    PROVE  /\ stack'[Lifecycle] # << >>
           /\ \/ stack'[Lifecycle][1] = stack[Lifecycle][1]
              \/ stack[Lifecycle][1].at = "join_members" /\ stack'[Lifecycle][1].at = "join_members"
           /\ stack'[Lifecycle][1].at = stack[Lifecycle][1].at
BY DEF Planted, Same, LifecycleFrames, PhaseFrames, JoinFrames, DestroyFrames

\* The lifecycle thread's part of the invariant stays true.
LEMMA LifecycleStays ==
    ASSUME LifecycleAgrees, Aside, Planted
    PROVE  LifecycleAgrees'
<1>1. CASE stack[Lifecycle] = << >>
  BY <1>1 DEF Planted, LifecycleAgrees
<1>2. CASE stack[Lifecycle] # << >>
  <2>1. PICK f : f = stack[Lifecycle][1]
    OBVIOUS
  <2>2. PICK h : h = stack'[Lifecycle][1]
    OBVIOUS
  <2>3. /\ h = f \/ (f.at = "join_members" /\ h.at = "join_members")
    BY <1>2, <2>1, <2>2, SameBottom
  <2>4. (f.at \in PhaseFrames => PhaseSound(f)) /\ EndSound(f)
    BY <1>2, <2>1 DEF LifecycleAgrees
  <2>5. (f.at \in PhaseFrames => PhaseSound(f)') /\ EndSound(f)'
    BY <2>4, PhaseStays, EndStays
  <2>6. (h.at \in PhaseFrames => PhaseSound(h)') /\ EndSound(h)'
    BY <2>3, <2>5 DEF PhaseFrames, EndSound, JoinFrames, DestroyFrames
  <2> QED
    BY <2>2, <2>6 DEF LifecycleAgrees
<1> QED
  BY <1>1, <1>2

\* A phase that gave up has given up; a group that is gone was gone.
LEMMA GivenUpStays ==
    ASSUME Aside, Planted
    PROVE  (GivenUp => GivenUp') /\ (Gone' => Gone)
<1>1. stack[Lifecycle] # << >> => stack'[Lifecycle] # << >> /\ stack'[Lifecycle][1].at = stack[Lifecycle][1].at
  BY SameBottom
<1>2. stack[Lifecycle] = << >> => stack'[Lifecycle] = << >>
  BY DEF Planted
<1>3. stage' = stage
  BY DEF Aside
<1> QED
  BY <1>1, <1>2, <1>3 DEF GivenUp, Gone

\* The group's part of the invariant stays true.
LEMMA GroupStays ==
    ASSUME GroupAgrees, Aside, Planted, member_stopped' => independent' # {},
           stopping' => stopping \/ Cause' \/ GivenUp
    PROVE  GroupAgrees'
<1>1. stopping' => Cause' \/ GivenUp'
  BY GivenUpStays DEF GroupAgrees, Aside, Onward
<1>2. stage' \in {"joined", "destroyed"} =>
          /\ rt_joined' = Runtimes /\ ~dispatching' /\ stopping'
          /\ stack'[Lifecycle] = << >> \/ stack'[Lifecycle][1].at \in DestroyFrames
  <2>1. stack[Lifecycle] # << >> => stack'[Lifecycle][1].at = stack[Lifecycle][1].at
    BY SameBottom
  <2>2. stack[Lifecycle] = << >> => stack'[Lifecycle] = << >>
    BY DEF Planted
  <2> QED
    BY <2>1, <2>2 DEF GroupAgrees, Aside, Onward
<1>3. stage' = "destroyed" => stack'[Lifecycle] = << >> /\ UnboundTo(Len(Members) + 1)'
  <2>1. UnboundTo(Len(Members) + 1) => UnboundTo(Len(Members) + 1)'
    BY ListsStay
  <2>2. stack[Lifecycle] = << >> => stack'[Lifecycle] = << >>
    BY DEF Planted
  <2> QED
    BY <2>1, <2>2 DEF GroupAgrees, Aside
<1>4. Gone' /\ stack'[Other] # << >> => stack'[Other][1].kind \notin {"group", "last"}
  BY GivenUpStays DEF Planted, GroupAgrees
<1>5. BeforeStart'
  <2>1. BeforeStart /\ stage' = stage /\ (stack'[Lifecycle] = << >> => stack[Lifecycle] = << >>)
        /\ \A m \in Runtimes : lifecycle'[m] = "running" => lifecycle[m] = "running"
    BY DEF GroupAgrees, Aside, Planted
  <2> QED
    BY <2>1 DEF BeforeStart
<1> QED
  BY <1>1, <1>2, <1>3, <1>4, <1>5 DEF GroupAgrees

\* What a runtime's state needs for one member.
RuntimeAgrees(m) ==
    /\ owner[m] = "done" =>
          /\ lifecycle[m] = "stopped" /\ chain[m] = "released" /\ m \notin control
          /\ ready[m] # "pending" /\ serving[m] # "pending"
    /\ owner[m] # "running" => stack[m] = << >>
    /\ chain[m] # "open" => ~Stoppable(m) /\ m \notin accepting
    /\ chain[m] = "released" => m \notin notifying
    /\ ready[m] = "aborted" \/ serving[m] = "aborted" => ~Stoppable(m)
    /\ ~Stoppable(m) => stopping \/ independent # {}
    /\ m \in rt_joined => owner[m] = "done" /\ m \notin rt_dispatching

\* RuntimesAgree says the same of each runtime.
LEMMA RuntimesAre ==
    /\ RuntimesAgree <=> \A m \in Runtimes : RuntimeAgrees(m)
    /\ RuntimesAgree' <=> \A m \in Runtimes : RuntimeAgrees(m)'
BY DEF RuntimesAgree, RuntimeAgrees

\* The step does not touch what the runtimes agree on, except as said.
LEMMA RuntimesStay ==
    ASSUME RuntimesAgree, Onward,
           lifecycle' = lifecycle, chain' = chain, control' = control, ready' = ready, serving' = serving,
           owner' = owner, notifying' \subseteq notifying, independent \subseteq independent',
           rt_joined' = rt_joined, rt_dispatching' = rt_dispatching,
           \A m \in Runtimes : owner[m] # "running" => stack'[m] = << >>
    PROVE  RuntimesAgree'
BY DEF RuntimesAgree, Onward, Stoppable

-----------------------------------------------------------------------------
(* Steps inside a call                                                      *)

\* The parts of the invariant.
LEMMA GroupInvParts ==
    ASSUME GroupInv
    PROVE  /\ GroupTypeOK /\ CallsNest /\ OneWinner /\ NotificationsCounted
           /\ LifecycleAgrees /\ RuntimesAgree /\ GroupAgrees
BY DEF GroupInv

\* A step aside that touches neither marks nor counts.
LEMMA AsidePlanted ==
    ASSUME GroupInv, Aside, Planted, Quiet, CallsNest', GroupTypeOK', RuntimesAgree',
           chain' = chain, notifying' = notifying, notifications' = notifications,
           member_stopped' => independent' # {}, stopping' => stopping \/ Cause' \/ GivenUp
    PROVE  GroupInv'
<1>1. OneWinner'
  BY QuietWinner DEF GroupInv
<1>2. NotificationsCounted'
  BY QuietCount DEF GroupInv
<1>3. LifecycleAgrees'
  BY LifecycleStays DEF GroupInv
<1>4. GroupAgrees'
  BY GroupStays DEF GroupInv
<1> QED
  BY <1>1, <1>2, <1>3, <1>4 DEF GroupInv

\* A step aside that moves no winner and no notification keeps the invariant.
LEMMA AsideQuiet ==
    ASSUME GroupInv, Aside, Rooted, Quiet, CallsNest', GroupTypeOK', RuntimesAgree',
           chain' = chain, notifying' = notifying, notifications' = notifications,
           member_stopped' => independent' # {}, stopping' => stopping \/ Cause' \/ GivenUp
    PROVE  GroupInv'
BY AsidePlanted DEF Rooted

\* A step that leaves the runtimes' life alone keeps their agreement.
LEMMA RuntimesKept ==
    ASSUME RuntimesAgree, Onward, Rooted,
           lifecycle' = lifecycle, chain' = chain, control' = control, ready' = ready, serving' = serving,
           owner' = owner, notifying' \subseteq notifying, independent \subseteq independent',
           rt_joined' = rt_joined, rt_dispatching' = rt_dispatching
    PROVE  RuntimesAgree'
<1>1. \A m \in Runtimes : owner[m] # "running" => stack'[m] = << >>
  BY DEF Rooted, RuntimesAgree
<1> QED
  BY <1>1, RuntimesStay

\* A lifecycle frame that calls is the lifecycle thread's outermost call.
LEMMA CallerOutermost ==
    ASSUME GroupTypeOK, CallsNest, NEW t \in Threads, NEW B, NEW k, NEW g, Topped(t, B, k, g), k # 1,
           B[k - 1].at \in LifecycleFrames
    PROVE  t = Lifecycle /\ stack[Lifecycle] # << >> /\ stack[Lifecycle][1] = B[k - 1]
<1>1. t = Lifecycle /\ stack[t] # << >>
  BY DEF Topped, Sound
<1>2. k \in Nat /\ k >= 1 /\ k = Len(stack[t]) /\ \A p \in 1..(k - 1) : B[p] = stack[t][p]
  BY DEF Topped, Based
<1>3. CASE k = 2
  <2>1. k - 1 = 1 /\ 1 \in 1..(k - 1)
    BY <1>3
  <2> QED
    BY <2>1, <1>1, <1>2
<1>4. CASE k # 2
  <2>1. PICK p \in Nat : p = k - 2 /\ p \in 1..k /\ p + 1 \in 1..k /\ p + 1 = k - 1 /\ p + 1 \in 1..(k - 1)
    <3>0. PICK n \in Nat : n = k /\ n # 1 /\ n # 2 /\ n >= 1
      BY <1>2, <1>4
    <3>1. k >= 3
      BY <3>0
    <3>2. k - 2 \in Nat /\ k - 2 \in 1..k /\ (k - 2) + 1 \in 1..k /\ (k - 2) + 1 = k - 1 /\ (k - 2) + 1 \in 1..(k - 1)
      BY <3>1, <1>2
    <3> QED
      BY <3>2
  <2>2. Above(stack[t][p], stack[t][p + 1])
    BY <2>1, <1>2 DEF CallsNest, Nested
  <2>3. stack[t][p + 1] = B[k - 1]
    BY <1>2, <2>1
  <2> QED
    BY <2>2, <2>3 DEF Above
<1> QED
  BY <1>3, <1>4

\* The body of StopHasClosed.
Closing ==
    \A t \in Threads :
        /\ Returns(t) /\ Top(t).at \in {"stop", "close", "abort"} => Mine(t) \notin accepting'
        /\ Returns(t) /\ (Top(t).kind \in {"group", "last"}) => accepting' = {}

\* A step of one thread makes no other thread's call return.
LEMMA OthersStay ==
    ASSUME GroupTypeOK, NEW t \in Threads, NEW k, NEW a, NEW b, Turned(t, k, a, b)
    PROVE  \A u \in Threads \ {t} : ~Returns(u)
<1> SUFFICES ASSUME NEW u \in Threads \ {t}
             PROVE  ~Returns(u)
  OBVIOUS
<1>1. stack'[u] = stack[u]
  BY DEF Turned
<1>2. Len(stack[u]) \in Nat
  BY LenProperties DEF GroupTypeOK
<1> QED
  BY <1>1, <1>2 DEF Returns

\* A call that returns has closed admission, or none returns.
LEMMA ClosingTop ==
    ASSUME GroupTypeOK, NEW t \in Threads, NEW B, NEW k, NEW g, NEW a, NEW b,
           Topped(t, B, k, g), Turned(t, k, a, b),
           \/ Len(stack'[t]) >= k
           \/ /\ g.at \in {"stop", "close", "abort"} => g.m \notin accepting'
              /\ g.kind \in {"group", "last"} => accepting' = {}
    PROVE  Closing
<1>1. \A u \in Threads \ {t} : ~Returns(u)
  BY OthersStay
<1>2. g = Top(t) /\ k = Len(stack[t]) /\ k \in Nat /\ Len(stack'[t]) \in Nat
  BY DEF Topped, Turned
<1>3. Len(stack'[t]) >= k => ~Returns(t)
  BY <1>2 DEF Returns
<1> QED
  BY <1>1, <1>2, <1>3 DEF Closing, Mine

\* No call of an idle thread returns.
LEMMA ClosingIdle ==
    ASSUME GroupTypeOK, NEW t \in Threads, NEW k, NEW a, NEW b, Turned(t, k, a, b), stack[t] = << >>
    PROVE  Closing
BY OthersStay DEF Closing, Returns

\* No call returns where the stacks stay.
LEMMA ClosingStill ==
    ASSUME GroupTypeOK, stack' = stack
    PROVE  Closing
<1>1. ASSUME NEW u \in Threads
      PROVE  ~Returns(u)
  <2>1. Len(stack[u]) \in Nat
    BY LenProperties DEF GroupTypeOK
  <2> QED
    BY <2>1 DEF Returns
<1> QED
  BY <1>1 DEF Closing

\* What a step inside a call does to the stacks.
Stacked(t, k, g, a, b) ==
    /\ CallsNest' /\ Turned(t, k, a, b) /\ Rooted /\ stack' \in [Threads -> Seq(Frames)]
    /\ ~Counts(g) /\ ~Counts(a) /\ ~Counts(b) => Quiet

\* A step from a frame to frames that do not count.
LEMMA StackedQuiet ==
    ASSUME NEW t \in Threads, NEW B, NEW k, NEW g, NEW a, NEW b, Topped(t, B, k, g), Turned(t, k, a, b),
           ~Counts(g), ~Counts(a), ~Counts(b)
    PROVE  Quiet
BY QuietTurn DEF Topped

\* What the return of a call does to the stacks.
LEMMA StackedReturn ==
    ASSUME GroupTypeOK, CallsNest, Onward, NEW t \in Threads, NEW B, NEW k, NEW g, Topped(t, B, k, g),
           Leaves(g), Become(t, << >>),
           /\ g.at \in {"stop", "close", "abort"} => g.m \notin accepting'
           /\ g.kind \in {"group", "last"} => accepting' = {}
    PROVE  Stacked(t, k, g, GroupStop, GroupStop) /\ Closing
<1>1. CallsNest' /\ Turned(t, k, GroupStop, GroupStop) /\ (k = 1 => stack'[t] = << >>)
  BY InsideReturns
<1>2. g.at \notin LifecycleFrames
  BY DEF Leaves
<1>3. Rooted
  BY <1>1, <1>2, InsideRooted
<1>4. Closing
  BY <1>1, ClosingTop
<1> QED
  BY <1>1, <1>3, <1>4, StackedQuiet DEF Stacked, Turned

\* What going on in another frame does.
LEMMA StackedOne ==
    ASSUME GroupTypeOK, CallsNest, Onward, NEW t \in Threads, NEW B, NEW k, NEW g, Topped(t, B, k, g),
           NEW a \in Frames, Passes(g, a), Sound(t, a)', Ready(a)', Become(t, <<a>>)
    PROVE  Stacked(t, k, g, a, GroupStop) /\ Closing
<1>1. /\ CallsNest' /\ Turned(t, k, a, GroupStop) /\ Len(stack'[t]) >= k
      /\ k = 1 => stack'[t] # << >> /\ Same(a, stack'[t][1])
  BY InsideOne
<1>2. g.at \notin LifecycleFrames
  BY DEF Passes
<1>3. a.kind \in {"group", "last"} => g.kind \in {"group", "last"}
  BY DEF Passes, Sound, Topped
<1>4. Rooted
  BY <1>1, <1>2, <1>3, InsideRooted
<1>5. Closing
  BY <1>1, ClosingTop
<1> QED
  BY <1>1, <1>4, <1>5, StackedQuiet DEF Stacked, Turned

\* What calling another does.
LEMMA StackedTwo ==
    ASSUME GroupTypeOK, CallsNest, Onward, NEW t \in Threads, NEW B, NEW k, NEW g, Topped(t, B, k, g),
           NEW a \in Frames, Passes(g, a), Sound(t, a)',
           NEW b \in Frames, Sound(t, b)', Above(a, b)', Ready(b)', Become(t, <<a, b>>)
    PROVE  Stacked(t, k, g, a, b) /\ Closing
<1>1. /\ CallsNest' /\ Turned(t, k, a, b) /\ Len(stack'[t]) >= k
      /\ k = 1 => stack'[t] # << >> /\ Same(a, stack'[t][1])
  BY InsideTwo
<1>2. g.at \notin LifecycleFrames
  BY DEF Passes
<1>3. a.kind \in {"group", "last"} => g.kind \in {"group", "last"}
  BY DEF Passes, Sound, Topped
<1>4. Rooted
  BY <1>1, <1>2, <1>3, InsideRooted
<1>5. Closing
  BY <1>1, ClosingTop
<1> QED
  BY <1>1, <1>4, <1>5, StackedQuiet DEF Stacked, Turned

-----------------------------------------------------------------------------
(* The steps inside a call                                                  *)

USE DEF GroupFrames, StopFrames, RecordFrames, PhaseFrames, JoinFrames, DestroyFrames,
        LifecycleFrames, MemberFrames, StoppedFrames, FailureFrames, Callers

\* The call on top, at a label.
LEMMA TopAt ==
    ASSUME GroupTypeOK, CallsNest, NEW t \in Threads, NEW l, At(t, l)
    PROVE  \E B, k, g : /\ Topped(t, B, k, g) /\ g \in Frames /\ g = Top(t) /\ g.at = l
                        /\ Sound(t, g) /\ Ready(g) /\ OnTop(g)
<1>1. PICK B, k, g : Topped(t, B, k, g)
  BY Tops DEF At
<1>2. /\ Topped(t, B, k, g) /\ g \in Frames /\ g = Top(t) /\ g.at = l
      /\ Sound(t, g) /\ Ready(g) /\ OnTop(g)
  BY <1>1 DEF Topped, At, OnTop
<1> QED
  BY <1>2

\* Every call in progress is sound.
LEMMA CallSound ==
    ASSUME GroupTypeOK, CallsNest, NEW x \in Calls
    PROVE  Called(x) \in Frames /\ Sound(x[1], Called(x)) /\ x[1] \in Threads
<1>1. x[1] \in Threads /\ x[2] \in 1..Len(stack[x[1]]) /\ Called(x) = stack[x[1]][x[2]]
  BY CallPlaces
<1>2. Sound(x[1], stack[x[1]][x[2]])
  BY <1>1 DEF CallsNest, Nested
<1>3. stack[x[1]][x[2]] \in Frames
  BY <1>1, ElementOfSeq DEF GroupTypeOK
<1> QED
  BY <1>1, <1>2, <1>3

\* Nobody has won the stop of a runtime that is still to be stopped.
LEMMA NoWinnerYet ==
    ASSUME GroupTypeOK, CallsNest, NEW m, Stoppable(m)
    PROVE  Winners(m) = {}
<1>1. ASSUME NEW x \in Winners(m)
      PROVE  FALSE
  <2>1. x \in Calls /\ Winning(Called(x)) /\ Called(x).m = m
    BY DEF Winners
  <2>2. Sound(x[1], Called(x))
    BY <2>1, CallSound
  <2>3. Called(x).at \in StoppedFrames
    BY <2>1 DEF Winning
  <2> QED
    BY <2>1, <2>2, <2>3 DEF Sound
<1> QED
  BY <1>1

\* Nobody runs the hooks of a runtime that still admits work.
LEMMA NoHooksYet ==
    ASSUME GroupTypeOK, CallsNest, NEW m \in accepting
    PROVE  HookRuns(m) = {}
<1>1. ASSUME NEW x \in HookRuns(m)
      PROVE  FALSE
  <2>1. x \in Calls /\ Called(x).at = "hooks" /\ Called(x).m = m
    BY DEF HookRuns, Hooking
  <2>2. Sound(x[1], Called(x))
    BY <2>1, CallSound
  <2> QED
    BY <2>1, <2>2 DEF Sound
<1> QED
  BY <1>1

-----------------------------------------------------------------------------
(* request_stop() of the group, member_failed() and member_stopping()       *)

\* request_stop() of the group begins, for the first caller or again.
LEMMA GroupStopBeginInv ==
    ASSUME GroupInv, NEW t \in Threads, GroupStopBegin(t)
    PROVE  GroupInv' /\ Closing
<1>0. GroupTypeOK /\ CallsNest /\ RuntimesAgree /\ GroupAgrees
  BY GroupInvParts
<1>1. PICK B, k, g : /\ Topped(t, B, k, g) /\ g \in Frames /\ g = Top(t) /\ g.at = "group_stop"
                     /\ Sound(t, g)
  BY <1>0, TopAt DEF GroupStopBegin
<1>2. PICK a : a = [g EXCEPT !.at = "group_members", !.flag = ~stopping]
  OBVIOUS
<1>3. a \in Frames
  BY <1>1, <1>2 DEF Frames, Labels
<1>4. a.at = "group_members" /\ a.kind = "group" /\ a.m = g.m /\ a.i = 1
  BY <1>1, <1>2 DEF Frames, Sound
<1>5. /\ UNCHANGED <<runtime, worker, member_stopped, group_failure, stage, events, history>>
      /\ stopping' = TRUE /\ dispatching' = (dispatching \/ ~stopping) /\ Become(t, <<a>>)
  BY <1>1, <1>2 DEF GroupStopBegin
<1>6. Onward
  BY <1>5, Unchanges DEF Onward, Cause, Stoppable
<1>7. Passes(g, a) /\ Sound(t, a)' /\ Ready(a)'
  <2>1. ClosedTo(1)'
    BY MembersAre DEF ClosedTo
  <2> QED
    BY <2>1, <1>1, <1>4, <1>5 DEF Passes, Sound, Ready
<1>8. Stacked(t, k, g, a, GroupStop) /\ Closing
  BY <1>0, <1>1, <1>3, <1>5, <1>6, <1>7, StackedOne
<1>9. CallsNest' /\ Rooted /\ Quiet /\ stack' \in [Threads -> Seq(Frames)]
  BY <1>1, <1>4, <1>8, GroupStopFrame DEF Stacked, Counts, Winning, Hooking, Notifying
<1>10. Aside
  BY <1>0, <1>5, <1>6, Unchanges DEF Aside, GroupTypeOK
<1>11. RuntimesAgree'
  BY <1>0, <1>5, <1>6, <1>9, Unchanges, RuntimesKept
<1>12. GroupTypeOK'
  BY <1>0, <1>5, <1>9, Unchanges DEF GroupTypeOK
<1>13. stopping \/ Cause' \/ GivenUp
  <2>1. CASE k = 1
    BY <2>1, <1>1, <1>6 DEF Topped, Bottom, Onward
  <2>2. CASE k # 1 /\ B[k - 1].at \in {"settling", "group_join"}
    BY <2>2, <1>0, <1>1, CallerOutermost DEF GivenUp
  <2> QED
    BY <2>1, <2>2, <1>1, <1>6 DEF Topped, Above, Onward
<1>14. member_stopped' => independent' # {}
  BY <1>0, <1>5, Unchanges DEF GroupAgrees
<1> QED
  BY <1>5, <1>8, <1>9, <1>10, <1>11, <1>12, <1>13, <1>14, Unchanges, AsideQuiet

\* request_stop() of the group ends with every member closed.
LEMMA GroupStopEndsInv ==
    ASSUME GroupInv, NEW t \in Threads, GroupStopEnds(t)
    PROVE  GroupInv' /\ Closing
<1>0. GroupTypeOK /\ CallsNest /\ RuntimesAgree /\ GroupAgrees
  BY GroupInvParts
<1>1. PICK B, k, g : /\ Topped(t, B, k, g) /\ g \in Frames /\ g = Top(t) /\ g.at = "group_members"
                     /\ Sound(t, g) /\ Ready(g)
  BY <1>0, TopAt DEF GroupStopEnds
<1>2. /\ UNCHANGED <<runtime, worker, stopping, member_stopped, group_failure, stage, events, history>>
      /\ dispatching' = FALSE /\ Become(t, << >>) /\ ~Looping(g)
  BY <1>1 DEF GroupStopEnds, Return
<1>3. Onward
  BY <1>2, Unchanges DEF Onward, Cause, Stoppable
<1>4. Leaves(g)
  BY <1>1 DEF Leaves, Sound
<1>5. accepting' = {}
  <2>1. \A j \in DOMAIN Members : j < g.i
    BY <1>1, <1>2, MembersAre DEF Looping, Frames
  <2>2. ClosedTo(g.i)
    BY <1>1 DEF Ready
  <2> QED
    BY <2>1, <2>2, <1>0, <1>2, Unchanges, MembersAre DEF ClosedTo, GroupTypeOK
<1>6. Stacked(t, k, g, GroupStop, GroupStop) /\ Closing
  BY <1>0, <1>1, <1>2, <1>3, <1>4, <1>5, StackedReturn
<1>7. CallsNest' /\ Rooted /\ Quiet /\ stack' \in [Threads -> Seq(Frames)]
  BY <1>1, <1>6, GroupStopFrame DEF Stacked, Counts, Winning, Hooking, Notifying
<1>8. Aside
  BY <1>0, <1>2, <1>3, Unchanges DEF Aside, GroupTypeOK
<1>9. RuntimesAgree'
  BY <1>0, <1>2, <1>3, <1>7, Unchanges, RuntimesKept
<1>10. GroupTypeOK'
  BY <1>0, <1>2, <1>7, Unchanges DEF GroupTypeOK
<1>11. (member_stopped' => independent' # {}) /\ (stopping' => stopping)
  BY <1>0, <1>2, Unchanges DEF GroupAgrees
<1> QED
  BY <1>2, <1>6, <1>7, <1>8, <1>9, <1>10, <1>11, Unchanges, AsideQuiet

\* The call of the group that a frame of kind "group" becomes.
LEMMA GroupStopSound ==
    ASSUME NEW t \in Threads
    PROVE  Sound(t, GroupStop)' /\ Ready(GroupStop)' /\ ~Counts(GroupStop)
<1>1. PICK a : a = GroupStop
  OBVIOUS
<1>2. /\ a.at = "group_stop" /\ a.kind = "group" /\ a.m = Null /\ a.i = 1 /\ ~a.flag /\ a.f = Null
  BY <1>1, GroupStopFrame
<1>3. Sound(t, a)' /\ Ready(a)' /\ ~Counts(a)
  BY <1>2 DEF Sound, Ready, Counts, Winning, Hooking, Notifying
<1> QED
  BY <1>1, <1>3

\* member_failed() goes on to stop the group.
LEMMA MemberFailedInv ==
    ASSUME GroupInv, NEW t \in Threads, MemberFailed(t)
    PROVE  GroupInv' /\ Closing
<1>0. GroupTypeOK /\ CallsNest /\ RuntimesAgree /\ GroupAgrees
  BY GroupInvParts
<1>1. PICK B, k, g : /\ Topped(t, B, k, g) /\ g \in Frames /\ g = Top(t) /\ g.at = "member_failed"
                     /\ Sound(t, g)
  BY <1>0, TopAt DEF MemberFailed
<1>2. g.kind = "group" /\ g.m \in Runtimes /\ g.f \in Failures
  BY <1>1 DEF Sound
<1>3. /\ UNCHANGED <<runtime, worker, stopping, dispatching, member_stopped, stage, events, history>>
      /\ group_failure' = IF group_failure = << >> THEN <<g.f, g.m>> ELSE group_failure
      /\ Become(t, <<GroupStop>>)
  BY <1>1 DEF MemberFailed, Mine
<1>4. group_failure' # << >> /\ group_failure' \in {<< >>} \cup (Failures \X Runtimes)
  BY <1>0, <1>2, <1>3 DEF GroupTypeOK
<1>5. Onward /\ Cause'
  BY <1>3, <1>4, Unchanges DEF Onward, Cause, Stoppable
<1>6. Passes(g, GroupStop)
  BY <1>1, <1>2, <1>5, GroupStopFrame DEF Passes
<1>7. Stacked(t, k, g, GroupStop, GroupStop) /\ Closing
  BY <1>0, <1>1, <1>3, <1>5, <1>6, GroupStopFrame, GroupStopSound, StackedOne
<1>8. CallsNest' /\ Rooted /\ Quiet /\ stack' \in [Threads -> Seq(Frames)]
  BY <1>1, <1>7, GroupStopSound DEF Stacked, Counts, Winning, Hooking, Notifying
<1>9. Aside
  BY <1>0, <1>3, <1>5, Unchanges DEF Aside, GroupTypeOK
<1>10. RuntimesAgree'
  BY <1>0, <1>3, <1>5, <1>8, Unchanges, RuntimesKept
<1>11. GroupTypeOK'
  BY <1>0, <1>3, <1>4, <1>8, Unchanges DEF GroupTypeOK
<1>12. (member_stopped' => independent' # {}) /\ (stopping' => stopping)
  BY <1>0, <1>3, Unchanges DEF GroupAgrees
<1> QED
  BY <1>3, <1>7, <1>8, <1>9, <1>10, <1>11, <1>12, Unchanges, AsideQuiet

\* member_stopping() goes on to stop the group.
LEMMA MemberStoppingInv ==
    ASSUME GroupInv, NEW t \in Threads, MemberStopping(t)
    PROVE  GroupInv' /\ Closing
<1>0. GroupTypeOK /\ CallsNest /\ RuntimesAgree /\ GroupAgrees
  BY GroupInvParts
<1>1. PICK B, k, g : /\ Topped(t, B, k, g) /\ g \in Frames /\ g = Top(t) /\ g.at = "member_stopping"
                     /\ Sound(t, g)
  BY <1>0, TopAt DEF MemberStopping
<1>2. g.kind = "group" /\ g.m \in Runtimes /\ ~Stoppable(g.m)
  BY <1>1 DEF Sound
<1>3. /\ UNCHANGED <<runtime, worker, stopping, dispatching, group_failure, stage, events, history>>
      /\ member_stopped' = (member_stopped \/ ~stopping)
      /\ Become(t, <<GroupStop>>)
  BY <1>1 DEF MemberStopping
<1>4. Onward /\ (stopping' \/ Cause')
  <2>1. (member_stopped => member_stopped') /\ (~stopping => member_stopped')
    BY <1>3
  <2>2. /\ stopping' = stopping /\ group_failure' = group_failure /\ asked' = asked /\ accepting' = accepting
        /\ rt_joined' = rt_joined /\ lifecycle' = lifecycle /\ rt_dispatching' = rt_dispatching
    BY <1>3, Unchanges
  <2> QED
    BY <2>1, <2>2 DEF Onward, Cause, Stoppable
<1>5. Passes(g, GroupStop)
  BY <1>1, <1>2, <1>4, GroupStopFrame DEF Passes
<1>6. Stacked(t, k, g, GroupStop, GroupStop) /\ Closing
  BY <1>0, <1>1, <1>3, <1>4, <1>5, GroupStopFrame, GroupStopSound, StackedOne
<1>7. CallsNest' /\ Rooted /\ Quiet /\ stack' \in [Threads -> Seq(Frames)]
  BY <1>1, <1>6, GroupStopSound DEF Stacked, Counts, Winning, Hooking, Notifying
<1>8. Aside
  BY <1>0, <1>3, <1>4, Unchanges DEF Aside, GroupTypeOK
<1>9. RuntimesAgree'
  BY <1>0, <1>3, <1>4, <1>7, Unchanges, RuntimesKept
<1>10. GroupTypeOK'
  BY <1>0, <1>3, <1>7, Unchanges DEF GroupTypeOK
<1>11. stopping' => stopping
  BY <1>3
<1>12. member_stopped' => independent' # {}
  BY <1>0, <1>2, <1>3, Unchanges DEF GroupAgrees, RuntimesAgree
<1> QED
  BY <1>3, <1>6, <1>7, <1>8, <1>9, <1>10, <1>11, <1>12, Unchanges, AsideQuiet

-----------------------------------------------------------------------------
(* What a step does to winners, hook runs and notifications                 *)

\* What the call on top counts for.
LEMMA TopPlace ==
    ASSUME NEW t \in Threads, NEW B, NEW k, NEW g, Topped(t, B, k, g), NEW m
    PROVE  /\ <<t, k>> \in Winners(m) <=> Winning(g) /\ g.m = m
           /\ <<t, k>> \in HookRuns(m) <=> Hooking(g) /\ g.m = m
           /\ <<t, k>> \in Notifiers(m) <=> Notifying(g) /\ g.m = m
<1>1. k \in 1..Len(stack[t]) /\ g = stack[t][k]
  BY DEF Topped, Based
<1>2. <<t, k>> \in Calls /\ Called(<<t, k>>) = g
  BY <1>1, CallPlaces
<1> QED
  BY <1>2 DEF Winners, HookRuns, Notifiers

\* The winners' part of OneWinner.
WinnersFine ==
    \A m \in Runtimes :
        /\ \A x, y \in Winners(m) : x = y
        /\ \A x \in Winners(m) : Called(x).at = "abort" \/ chain[m] = "open"

HooksFine ==
    \A m \in Runtimes :
        /\ \A x, y \in HookRuns(m) : x = y
        /\ HookRuns(m) # {} => m \in notifying

\* OneWinner is about the winners and about the hook runs.
LEMMA OneWinnerParts ==
    /\ OneWinner <=> WinnersFine /\ HooksFine
    /\ OneWinner' <=> WinnersFine' /\ HooksFine'
BY DEF OneWinner, WinnersFine, HooksFine

\* A frame that wins took over from one that did.
LEMMA WinnersKeep ==
    ASSUME WinnersFine, NEW t \in Threads, NEW B, NEW k, NEW g, NEW a, NEW b, Topped(t, B, k, g), Turned(t, k, a, b),
           ~Winning(b), Winning(a) => Winning(g) /\ a.m = g.m /\ (g.at = "abort" => a.at = "abort"),
           chain' = chain
    PROVE  WinnersFine'
<1> SUFFICES ASSUME NEW m \in Runtimes
             PROVE  /\ \A x, y \in Winners(m)' : x = y
                    /\ \A x \in Winners(m)' : Called(x)'.at = "abort" \/ chain'[m] = "open"
  BY DEF WinnersFine
<1>1. /\ Winners(m)' = (Winners(m) \ {<<t, k>>}) \cup Place(Winning(a) /\ a.m = m, <<t, k>>)
                          \cup Place(Winning(b) /\ b.m = m, <<t, k + 1>>)
      /\ \A x \in Winners(m) \ {<<t, k>>} : Called(x)' = Called(x)
  BY WinnersTurn
<1>2. <<t, k>> \in Winners(m) <=> Winning(g) /\ g.m = m
  BY TopPlace
<1>3. Winners(m)' \subseteq Winners(m)
  BY <1>1, <1>2 DEF Place
<1>4. ASSUME NEW x \in Winners(m)'
      PROVE  Called(x)'.at = "abort" \/ chain'[m] = "open"
  <2>1. CASE x # <<t, k>>
    BY <2>1, <1>1, <1>3 DEF WinnersFine
  <2>2. CASE x = <<t, k>>
    <3>1. Winning(a) /\ a.m = m
      BY <2>2, <1>1, <1>4 DEF Place
    <3>2. Called(<<t, k>>)' = a
      BY <3>1, MarkedKinds, MarksTurn
    <3>3. Called(<<t, k>>) = g
      BY CallPlaces DEF Topped, Based
    <3>4. Called(x).at = "abort" \/ chain[m] = "open"
      BY <1>3, <1>4 DEF WinnersFine
    <3> QED
      BY <2>2, <3>1, <3>2, <3>3, <3>4
  <2> QED
    BY <2>1, <2>2
<1> QED
  BY <1>3, <1>4 DEF WinnersFine

\* A step that begins no hook run ends at most its own.
LEMMA HooksTurn ==
    ASSUME NEW t \in Threads, NEW B, NEW k, NEW g, NEW a, NEW b, Topped(t, B, k, g), Turned(t, k, a, b),
           ~Hooking(a), ~Hooking(b), NEW m
    PROVE  HookRuns(m)' = HookRuns(m) \ {<<t, k>>}
<1>1. HookRuns(m)' = (HookRuns(m) \ {<<t, k>>}) \cup Place(Hooking(a) /\ a.m = m, <<t, k>>)
                          \cup Place(Hooking(b) /\ b.m = m, <<t, k + 1>>)
  BY HookRunsTurn
<1> QED
  BY <1>1 DEF Place

\* Then there is still at most one run of a member's hooks.
LEMMA HooksKeep ==
    ASSUME HooksFine, NEW t \in Threads, NEW B, NEW k, NEW g, NEW a, NEW b, Topped(t, B, k, g), Turned(t, k, a, b),
           ~Hooking(a), ~Hooking(b), notifying' = notifying
    PROVE  HooksFine'
<1>1. \A m \in Runtimes : HookRuns(m)' \subseteq HookRuns(m)
  BY HooksTurn
<1> QED
  BY <1>1 DEF HooksFine

\* A step's own frame is the only notification that comes or goes.
LEMMA NotifiersTurned ==
    ASSUME NEW t \in Threads, NEW B, NEW k, NEW g, NEW a, NEW b, Topped(t, B, k, g), Turned(t, k, a, b),
           ~Notifying(b), NEW m
    PROVE  /\ Notifying(g) /\ g.m = m <=> <<t, k>> \in Notifiers(m)
           /\ Notifying(a) /\ a.m = m => Notifiers(m)' = Notifiers(m) \cup {<<t, k>>}
           /\ ~(Notifying(a) /\ a.m = m) => Notifiers(m)' = Notifiers(m) \ {<<t, k>>}
<1>1. Notifiers(m)' = (Notifiers(m) \ {<<t, k>>}) \cup Place(Notifying(a) /\ a.m = m, <<t, k>>)
                          \cup Place(Notifying(b) /\ b.m = m, <<t, k + 1>>)
  BY NotifiersTurn
<1>2. Notifying(g) /\ g.m = m <=> <<t, k>> \in Notifiers(m)
  BY TopPlace
<1> QED
  BY <1>1, <1>2 DEF Place

\* The count is right after a step that neither begins nor ends a notification,
LEMMA CountKeep ==
    ASSUME NotificationsCounted, NEW t \in Threads, NEW B, NEW k, NEW g, NEW a, NEW b, Topped(t, B, k, g),
           Turned(t, k, a, b), ~Notifying(g), ~Notifying(a), ~Notifying(b), notifications' = notifications
    PROVE  NotificationsCounted'
<1>1. ASSUME NEW m \in Runtimes
      PROVE  Notifiers(m)' = Notifiers(m)
  <2>1. <<t, k>> \notin Notifiers(m) /\ Notifiers(m)' = Notifiers(m) \ {<<t, k>>}
    BY NotifiersTurned
  <2> QED
    BY <2>1
<1> QED
  BY <1>1 DEF NotificationsCounted

\* one that begins one,
LEMMA CountUp ==
    ASSUME GroupTypeOK, NotificationsCounted, NEW t \in Threads, NEW B, NEW k, NEW g, NEW a, NEW b, Topped(t, B, k, g),
           Turned(t, k, a, b), ~Notifying(g), Notifying(a), a.m \in Runtimes, ~Notifying(b),
           notifications' = [notifications EXCEPT ![a.m] = @ + 1]
    PROVE  NotificationsCounted' /\ notifications' \in [Runtimes -> Nat]
<1>1. notifications \in [Runtimes -> Nat]
  BY DEF GroupTypeOK
<1>2. notifications' \in [Runtimes -> Nat]
  BY <1>1
<1>3. ASSUME NEW m \in Runtimes
      PROVE  IsFiniteSet(Notifiers(m)') /\ notifications'[m] = Cardinality(Notifiers(m)')
  <2>1. IsFiniteSet(Notifiers(m)) /\ notifications[m] = Cardinality(Notifiers(m))
    BY DEF NotificationsCounted
  <2>2. CASE m = a.m
    <3>1. Notifiers(m)' = Notifiers(m) \cup {<<t, k>>} /\ <<t, k>> \notin Notifiers(m)
      BY <2>2, NotifiersTurned
    <3>2. IsFiniteSet(Notifiers(m)') /\ Cardinality(Notifiers(m)') = Cardinality(Notifiers(m)) + 1
      BY <2>1, <3>1, FS_AddElement
    <3>3. notifications'[m] = notifications[m] + 1
      BY <1>1, <2>2
    <3> QED
      BY <2>1, <3>2, <3>3
  <2>3. CASE m # a.m
    <3>0. <<t, k>> \notin Notifiers(m) /\ Notifiers(m)' = Notifiers(m) \ {<<t, k>>}
      BY <2>3, NotifiersTurned
    <3>1. Notifiers(m)' = Notifiers(m)
      BY <3>0
    <3>2. notifications'[m] = notifications[m]
      BY <1>1, <2>3
    <3> QED
      BY <2>1, <3>1, <3>2
  <2> QED
    BY <2>2, <2>3
<1> QED
  BY <1>2, <1>3 DEF NotificationsCounted

\* and one that ends one.
LEMMA CountDown ==
    ASSUME GroupTypeOK, NotificationsCounted, NEW t \in Threads, NEW B, NEW k, NEW g, NEW a, NEW b, Topped(t, B, k, g),
           Turned(t, k, a, b), Notifying(g), g.m \in Runtimes, ~Notifying(a), ~Notifying(b),
           notifications' = [notifications EXCEPT ![g.m] = @ - 1]
    PROVE  NotificationsCounted' /\ notifications' \in [Runtimes -> Nat] /\ notifications[g.m] # 0
<1>1. notifications \in [Runtimes -> Nat]
  BY DEF GroupTypeOK
<1>2. ASSUME NEW m \in Runtimes
      PROVE  IsFiniteSet(Notifiers(m)') /\ notifications'[m] = Cardinality(Notifiers(m)')
             /\ notifications'[m] \in Nat /\ (m = g.m => notifications[m] # 0)
  <2>1. IsFiniteSet(Notifiers(m)) /\ notifications[m] = Cardinality(Notifiers(m)) /\ notifications[m] \in Nat
    BY <1>1 DEF NotificationsCounted
  <2>2. CASE m = g.m
    <3>1. Notifiers(m)' = Notifiers(m) \ {<<t, k>>} /\ <<t, k>> \in Notifiers(m)
      BY <2>2, NotifiersTurned
    <3>2. IsFiniteSet(Notifiers(m)') /\ Cardinality(Notifiers(m)') = Cardinality(Notifiers(m)) - 1
      BY <2>1, <3>1, FS_RemoveElement
    <3>3. notifications'[m] = notifications[m] - 1
      BY <1>1, <2>2
    <3>4. Cardinality(Notifiers(m)') \in Nat
      BY <3>2, FS_CardinalityType
    <3>5. notifications'[m] \in Nat /\ notifications[m] # 0 /\ notifications'[m] = Cardinality(Notifiers(m)')
      BY <2>1, <3>2, <3>3, <3>4
    <3> QED
      BY <3>2, <3>5
  <2>3. CASE m # g.m
    <3>0. <<t, k>> \notin Notifiers(m) /\ Notifiers(m)' = Notifiers(m) \ {<<t, k>>}
      BY <2>3, NotifiersTurned
    <3>1. Notifiers(m)' = Notifiers(m)
      BY <3>0
    <3>2. notifications'[m] = notifications[m]
      BY <1>1, <2>3
    <3> QED
      BY <2>1, <2>3, <3>1, <3>2
  <2> QED
    BY <2>2, <2>3
<1>3. notifications' \in [Runtimes -> Nat]
  BY <1>1, <1>2
<1> QED
  BY <1>2, <1>3 DEF NotificationsCounted

\* A step aside whose marks have been seen to.
LEMMA AsideMarked ==
    ASSUME GroupInv, Aside, Rooted, CallsNest', GroupTypeOK', RuntimesAgree',
           WinnersFine', HooksFine', NotificationsCounted',
           member_stopped' = member_stopped, stopping' = stopping
    PROVE  GroupInv'
<1>1. OneWinner'
  BY OneWinnerParts
<1>2. LifecycleAgrees'
  BY LifecycleStays DEF GroupInv, Rooted
<1>3. member_stopped' => independent' # {}
  BY DEF GroupInv, GroupAgrees, Aside
<1>4. GroupAgrees'
  BY <1>3, GroupStays DEF GroupInv, Rooted
<1> QED
  BY <1>1, <1>2, <1>4 DEF GroupInv

-----------------------------------------------------------------------------
(* request_stop() of a runtime                                              *)

\* A runtime gets its winner.
LEMMA WinnersNew ==
    ASSUME WinnersFine, NEW t \in Threads, NEW B, NEW k, NEW g, NEW a, NEW b, Topped(t, B, k, g), Turned(t, k, a, b),
           ~Winning(b), Winners(a.m) = {}, chain[a.m] = "open", chain' = chain
    PROVE  WinnersFine'
<1> SUFFICES ASSUME NEW m \in Runtimes
             PROVE  /\ \A x, y \in Winners(m)' : x = y
                    /\ \A x \in Winners(m)' : Called(x)'.at = "abort" \/ chain'[m] = "open"
  BY DEF WinnersFine
<1>1. /\ Winners(m)' = (Winners(m) \ {<<t, k>>}) \cup Place(Winning(a) /\ a.m = m, <<t, k>>)
                          \cup Place(Winning(b) /\ b.m = m, <<t, k + 1>>)
      /\ \A x \in Winners(m) \ {<<t, k>>} : Called(x)' = Called(x)
  BY WinnersTurn
<1>2. CASE m = a.m
  <2>1. Winners(m)' \subseteq {<<t, k>>} /\ chain'[m] = "open"
    BY <1>1, <1>2 DEF Place
  <2> QED
    BY <2>1
<1>3. CASE m # a.m
  <2>1. Winners(m)' = Winners(m) \ {<<t, k>>}
    BY <1>1, <1>3 DEF Place
  <2> QED
    BY <2>1, <1>1 DEF WinnersFine
<1> QED
  BY <1>2, <1>3

\* A thread's step changes nobody's idleness.
LEMMA StopWinsAgree ==
    ASSUME GroupTypeOK, RuntimesAgree, Onward, Rooted, NEW m \in Runtimes, Stoppable(m),
           chain' = chain, control' = control, ready' = ready, serving' = serving, accepting' = accepting,
           owner' = owner, notifying' = notifying, rt_joined' = rt_joined, independent \subseteq independent',
           lifecycle' = [lifecycle EXCEPT ![m] = "stopping"],
           rt_dispatching' = rt_dispatching \cup {m}, stopping' \/ independent' # {}
    PROVE  RuntimesAgree'
<1>1. ASSUME NEW n \in Runtimes
      PROVE  RuntimeAgrees(n)'
  <2>1. RuntimeAgrees(n)
    BY RuntimesAre
  <2>2. stack[n] = << >> => stack'[n] = << >>
    BY DEF Rooted
  <2>3. CASE n = m
    <3>1. lifecycle'[n] = "stopping" /\ owner[n] # "done" /\ n \notin rt_joined /\ chain[n] = "open"
      BY <2>1, <2>3 DEF RuntimeAgrees, Stoppable, GroupTypeOK
    <3> QED
      BY <3>1, <2>1, <2>2, <2>3 DEF RuntimeAgrees, Stoppable
  <2>4. CASE n # m
    <3>1. lifecycle'[n] = lifecycle[n] /\ (n \in rt_dispatching' => n \in rt_dispatching)
      BY <2>4 DEF GroupTypeOK
    <3>2. ~Stoppable(n) => stopping' \/ independent' # {}
      BY <2>1 DEF RuntimeAgrees, Onward
    <3> QED
      BY <3>1, <3>2, <2>1, <2>2 DEF RuntimeAgrees, Stoppable
  <2> QED
    BY <2>3, <2>4
<1> QED
  BY <1>1, RuntimesAre

\* The stop of a member that can still be stopped: its one winner is found.
LEMMA StopWins ==
    ASSUME GroupInv, NEW t \in Threads, StopBegin(t), Stoppable(Mine(t))
    PROVE  GroupInv' /\ Closing
<1>0. /\ GroupTypeOK /\ CallsNest /\ RuntimesAgree /\ GroupAgrees /\ OneWinner /\ NotificationsCounted
      /\ WinnersFine /\ HooksFine
  BY GroupInvParts, OneWinnerParts
<1>1. PICK B, k, g : /\ Topped(t, B, k, g) /\ g \in Frames /\ g = Top(t) /\ g.at = "stop" /\ Sound(t, g)
  BY <1>0, TopAt DEF StopBegin
<1>2. PICK a : a = [g EXCEPT !.at = "notify_stop", !.flag = TRUE]
  OBVIOUS
<1>3. a \in Frames
  BY <1>1, <1>2 DEF Frames, Labels
<1>4. /\ a.at = "notify_stop" /\ a.kind = g.kind /\ a.m = g.m /\ a.i = g.i /\ g.m \in Runtimes
      /\ g.kind # "group"
  BY <1>1, <1>2 DEF Frames, Sound
<1>5. /\ UNCHANGED <<phases, failed, joins, binding, owner, worker, group, stage, events,
                     outcome, delivered, reported, asked>>
      /\ lifecycle' = [lifecycle EXCEPT ![g.m] = "stopping"] /\ rt_dispatching' = rt_dispatching \cup {g.m}
      /\ independent' = (IF g.kind \in {"member", "last"} THEN independent ELSE independent \cup {g.m})
      /\ Become(t, <<a>>) /\ Stoppable(g.m)
  BY <1>1, <1>2 DEF StopBegin, Mine, FromGroup
<1>6. Onward /\ independent \subseteq independent' /\ (stopping' \/ independent' # {}) /\ ~Stoppable(g.m)'
  <2>1. \A n \in Runtimes : lifecycle'[n] = lifecycle[n] \/ lifecycle'[n] = "stopping"
    BY <1>0, <1>5 DEF GroupTypeOK
  <2>2. Onward
    BY <2>1, <1>5, Unchanges DEF Onward, Cause, Stoppable
  <2>3. lifecycle'[g.m] = "stopping"
    BY <1>0, <1>4, <1>5 DEF GroupTypeOK
  <2>4. g.kind \in {"member", "last"} => stopping
    BY <1>1 DEF Sound
  <2> QED
    BY <2>2, <2>3, <2>4, <1>5, Unchanges DEF Stoppable
<1>7. Passes(g, a) /\ Sound(t, a)' /\ Ready(a)'
  <2>1. Sound(t, g)'
    BY <1>1, <1>6, SoundStays
  <2>2. Sound(t, a)'
    BY <2>1, <1>1, <1>4, <1>6 DEF Sound
  <2> QED
    BY <2>2, <1>1, <1>4, <1>6 DEF Passes, Ready
<1>8. Stacked(t, k, g, a, GroupStop) /\ Closing
  BY <1>0, <1>1, <1>3, <1>5, <1>6, <1>7, StackedOne
<1>9. CallsNest' /\ Rooted /\ Turned(t, k, a, GroupStop) /\ stack' \in [Threads -> Seq(Frames)]
  BY <1>8 DEF Stacked
<1>10. /\ ~Winning(GroupStop) /\ ~Hooking(GroupStop) /\ ~Notifying(GroupStop)
       /\ ~Hooking(a) /\ ~Notifying(a) /\ ~Notifying(g)
  BY <1>1, <1>4, GroupStopFrame DEF Winning, Hooking, Notifying
<1>11. WinnersFine' /\ HooksFine' /\ NotificationsCounted'
  <2>1. Winners(a.m) = {} /\ chain[a.m] = "open"
    BY <1>0, <1>4, <1>5, NoWinnerYet DEF RuntimesAgree, GroupTypeOK
  <2>2. chain' = chain /\ notifying' = notifying /\ notifications' = notifications
    BY <1>5, Unchanges
  <2> QED
    BY <1>0, <1>1, <1>9, <1>10, <2>1, <2>2, WinnersNew, HooksKeep, CountKeep
<1>12. Aside
  <2>1. \A n \in Runtimes : lifecycle'[n] = "running" => lifecycle[n] = "running"
    BY <1>0, <1>5 DEF GroupTypeOK
  <2> QED
    BY <2>1, <1>0, <1>5, <1>6, Unchanges DEF Aside, GroupTypeOK
<1>13. RuntimesAgree'
  BY <1>0, <1>4, <1>5, <1>6, <1>9, Unchanges, StopWinsAgree
<1>14. GroupTypeOK'
  <2>1. /\ lifecycle' \in [Runtimes -> {"ready", "running", "stopping", "stopped"}]
        /\ rt_dispatching' \subseteq Runtimes /\ independent' \subseteq Runtimes
    BY <1>0, <1>4, <1>5 DEF GroupTypeOK
  <2> QED
    BY <2>1, <1>0, <1>5, <1>9, Unchanges DEF GroupTypeOK
<1>15. member_stopped' = member_stopped /\ stopping' = stopping
  BY <1>5, Unchanges
<1> QED
  BY <1>8, <1>9, <1>11, <1>12, <1>13, <1>14, <1>15, AsideMarked

\* request_stop() of a runtime, won or repeated.
LEMMA StopBeginInv ==
    ASSUME GroupInv, NEW t \in Threads, StopBegin(t)
    PROVE  GroupInv' /\ Closing
<1>0. GroupTypeOK /\ CallsNest /\ RuntimesAgree /\ GroupAgrees
  BY GroupInvParts
<1>1. CASE Stoppable(Mine(t))
  BY <1>1, StopWins
<1>2. CASE ~Stoppable(Mine(t))
  <2>1. PICK B, k, g : /\ Topped(t, B, k, g) /\ g \in Frames /\ g = Top(t) /\ g.at = "stop" /\ Sound(t, g)
    BY <1>0, TopAt DEF StopBegin
  <2>2. PICK a : a = [g EXCEPT !.at = "close"]
    OBVIOUS
  <2>3. a \in Frames
    BY <2>1, <2>2 DEF Frames, Labels
  <2>4. /\ a.at = "close" /\ a.kind = g.kind /\ a.m = g.m /\ a.i = g.i /\ ~a.flag
        /\ g.m \in Runtimes /\ g.kind # "group" /\ ~Stoppable(g.m)
    BY <1>2, <2>1, <2>2 DEF Frames, Sound, Mine
  <2>5. UNCHANGED <<runtime, worker, group, stage, events, history>> /\ Become(t, <<a>>)
    BY <1>2, <2>1, <2>2 DEF StopBegin, Goto, runtime, history
  <2>6. Onward
    BY <2>5, Unchanges DEF Onward, Cause, Stoppable
  <2>7. Passes(g, a) /\ Sound(t, a)' /\ Ready(a)'
    <3>1. Sound(t, g)' /\ ~Stoppable(g.m)'
      BY <2>1, <2>4, <2>6, SoundStays DEF Onward
    <3>2. Sound(t, a)'
      BY <3>1, <2>1, <2>4 DEF Sound
    <3> QED
      BY <3>1, <3>2, <2>1, <2>4 DEF Passes, Ready
  <2>8. Stacked(t, k, g, a, GroupStop) /\ Closing
    BY <1>0, <2>1, <2>3, <2>5, <2>6, <2>7, StackedOne
  <2>9. CallsNest' /\ Rooted /\ Quiet /\ stack' \in [Threads -> Seq(Frames)]
    BY <2>1, <2>4, <2>8, GroupStopFrame DEF Stacked, Counts, Winning, Hooking, Notifying
  <2>10. Aside
    BY <1>0, <2>5, <2>6, Unchanges DEF Aside, GroupTypeOK
  <2>11. RuntimesAgree'
    BY <1>0, <2>5, <2>6, <2>9, Unchanges, RuntimesKept
  <2>12. GroupTypeOK'
    BY <1>0, <2>5, <2>9, Unchanges DEF GroupTypeOK
  <2>13. (member_stopped' => independent' # {}) /\ (stopping' => stopping)
    BY <1>0, <2>5, Unchanges DEF GroupAgrees
  <2> QED
    BY <2>5, <2>8, <2>9, <2>10, <2>11, <2>12, <2>13, Unchanges, AsideQuiet
<1> QED
  BY <1>1, <1>2

\* A step that changes only the stack and the count of notifications.
Notified ==
    UNCHANGED <<lifecycle, rt_dispatching, phases, failed, joins, bound, owner, worker,
                group, stage, events, history>>

\* Counting a notification takes nothing back.
LEMMA NotifiedOnward ==
    ASSUME Notified
    PROVE  Onward
BY Unchanges DEF Notified, Onward, Cause, Stoppable

\* A notification that begins or ends keeps the invariant, if it is counted.
LEMMA NotifiedInv ==
    ASSUME GroupInv, Notified, Rooted, CallsNest', stack' \in [Threads -> Seq(Frames)],
           WinnersFine', HooksFine', NotificationsCounted', notifications' \in [Runtimes -> Nat],
           \A m \in Runtimes : m \notin bound => notifications'[m] = notifications[m]
    PROVE  GroupInv'
<1>0. GroupTypeOK /\ RuntimesAgree /\ GroupAgrees
  BY GroupInvParts
<1>1. Aside
  BY <1>0, NotifiedOnward, Unchanges DEF Notified, Aside, GroupTypeOK
<1>2. RuntimesAgree'
  BY <1>0, NotifiedOnward, Unchanges, RuntimesKept DEF Notified
<1>3. GroupTypeOK'
  BY <1>0, Unchanges DEF Notified, GroupTypeOK
<1>4. member_stopped' = member_stopped /\ stopping' = stopping
  BY Unchanges DEF Notified
<1> QED
  BY <1>1, <1>2, <1>3, <1>4, AsideMarked

\* notify_group() calls the group under a counted notification,
LEMMA NotifyCalls ==
    ASSUME GroupInv, NEW t \in Threads, NEW B, NEW k, NEW g, NEW a, NEW b, Topped(t, B, k, g),
           Stacked(t, k, g, a, b), Notified, g.at \in {"notify_stop", "notify_failure"},
           Notifying(a), a.m = g.m, g.m \in Runtimes, g.m \in bound, Winning(a) => Winning(g), ~Counts(b),
           notifications' = [notifications EXCEPT ![g.m] = @ + 1]
    PROVE  GroupInv'
<1>0. GroupTypeOK /\ WinnersFine /\ HooksFine /\ NotificationsCounted
  BY GroupInvParts, OneWinnerParts
<1>1. CallsNest' /\ Rooted /\ Turned(t, k, a, b) /\ stack' \in [Threads -> Seq(Frames)]
  BY DEF Stacked
<1>2. ~Winning(b) /\ ~Hooking(b) /\ ~Notifying(b) /\ ~Hooking(a) /\ ~Notifying(g) /\ g.at # "abort"
  BY DEF Counts, Hooking, Notifying
<1>3. chain' = chain /\ notifying' = notifying
  BY Unchanges DEF Notified
<1>4. WinnersFine' /\ HooksFine' /\ NotificationsCounted' /\ notifications' \in [Runtimes -> Nat]
  BY <1>0, <1>1, <1>2, <1>3, WinnersKeep, HooksKeep, CountUp
<1>5. \A m \in Runtimes : m \notin bound => notifications'[m] = notifications[m]
  BY <1>0 DEF GroupTypeOK
<1> QED
  BY <1>1, <1>4, <1>5, NotifiedInv

\* goes on when the member has been unbound,
LEMMA NotifySkips ==
    ASSUME GroupInv, NEW t \in Threads, NEW B, NEW k, NEW g, NEW a, NEW b, Topped(t, B, k, g),
           Stacked(t, k, g, a, b), Notified, g.at \in {"notify_stop", "notify_failure"},
           ~Notifying(a), ~Hooking(a), Winning(a) => Winning(g) /\ a.m = g.m, ~Counts(b),
           notifications' = notifications
    PROVE  GroupInv'
<1>0. GroupTypeOK /\ WinnersFine /\ HooksFine /\ NotificationsCounted
  BY GroupInvParts, OneWinnerParts
<1>1. CallsNest' /\ Rooted /\ Turned(t, k, a, b) /\ stack' \in [Threads -> Seq(Frames)]
  BY DEF Stacked
<1>2. ~Winning(b) /\ ~Hooking(b) /\ ~Notifying(b) /\ ~Notifying(g) /\ g.at # "abort"
  BY DEF Counts, Notifying
<1>3. chain' = chain /\ notifying' = notifying
  BY Unchanges DEF Notified
<1>4. WinnersFine' /\ HooksFine' /\ NotificationsCounted' /\ notifications' \in [Runtimes -> Nat]
  BY <1>0, <1>1, <1>2, <1>3, WinnersKeep, HooksKeep, CountKeep DEF GroupTypeOK
<1> QED
  BY <1>1, <1>4, NotifiedInv

\* and ends the notification when the group returns.
LEMMA NotifyEnds ==
    ASSUME GroupInv, NEW t \in Threads, NEW B, NEW k, NEW g, NEW a, NEW b, Topped(t, B, k, g),
           Stacked(t, k, g, a, b), Notified, g.at \in {"stop_notified", "failure_notified"}, g.m \in Runtimes,
           ~Notifying(a), ~Hooking(a), Winning(a) => Winning(g) /\ a.m = g.m, ~Counts(b),
           notifications' = [notifications EXCEPT ![g.m] = @ - 1]
    PROVE  GroupInv'
<1>0. GroupTypeOK /\ WinnersFine /\ HooksFine /\ NotificationsCounted
  BY GroupInvParts, OneWinnerParts
<1>1. CallsNest' /\ Rooted /\ Turned(t, k, a, b) /\ stack' \in [Threads -> Seq(Frames)]
  BY DEF Stacked
<1>2. ~Winning(b) /\ ~Hooking(b) /\ ~Notifying(b) /\ Notifying(g) /\ g.at # "abort"
  BY DEF Counts, Notifying
<1>3. chain' = chain /\ notifying' = notifying
  BY Unchanges DEF Notified
<1>4. WinnersFine' /\ HooksFine' /\ NotificationsCounted' /\ notifications' \in [Runtimes -> Nat]
  BY <1>0, <1>1, <1>2, <1>3, WinnersKeep, HooksKeep, CountDown
<1>5. Aside
  <2>1. \A m \in Runtimes : m \notin bound /\ notifications[m] = 0 => notifications'[m] = 0
    <3>1. notifications[g.m] # 0
      BY <1>0, <1>1, <1>2, CountDown
    <3> QED
      BY <3>1, <1>0 DEF GroupTypeOK
  <2> QED
    BY <2>1, <1>0, NotifiedOnward, Unchanges DEF Notified, Aside, GroupTypeOK
<1>6. RuntimesAgree'
  BY <1>1, NotifiedOnward, Unchanges, RuntimesKept, GroupInvParts DEF Notified
<1>7. GroupTypeOK'
  BY <1>0, <1>1, <1>4, Unchanges DEF Notified, GroupTypeOK
<1>8. member_stopped' = member_stopped /\ stopping' = stopping
  BY Unchanges DEF Notified
<1> QED
  BY <1>1, <1>4, <1>5, <1>6, <1>7, <1>8, AsideMarked

\* The calls of the group that a runtime makes.
LEMMA MemberCall ==
    ASSUME NEW t \in Threads, NEW b \in Frames, b.at \in {"member_stopping", "member_failed"}, b.kind = "group",
           b.m \in Runtimes, b.at = "member_failed" => b.f \in Failures,
           b.at = "member_stopping" => ~Stoppable(b.m)'
    PROVE  Sound(t, b)' /\ Ready(b)' /\ ~Counts(b)
BY DEF Sound, Ready, Counts, Winning, Hooking, Notifying

\* notify_group() tells the group of the stop, and returns.
LEMMA NotifyStopInv ==
    ASSUME GroupInv, NEW t \in Threads, NotifyStop(t)
    PROVE  GroupInv' /\ Closing
<1>0. GroupTypeOK /\ CallsNest
  BY GroupInvParts
<1>1. PICK l : l \in {"notify_stop", "stop_notified"} /\ At(t, l)
  BY DEF NotifyStop
<1>2. PICK B, k, g : /\ Topped(t, B, k, g) /\ g \in Frames /\ g = Top(t) /\ g.at = l /\ Sound(t, g)
  BY <1>0, <1>1, TopAt
<1>3. g.m \in Runtimes /\ g.kind # "group" /\ ~Stoppable(g.m)
  BY <1>1, <1>2 DEF Sound
<1>4. Notified
  BY DEF NotifyStop, NotifyGroup, GroupNotified, Notified
<1>5. Onward
  BY <1>4, NotifiedOnward
<1>6. ~Stoppable(g.m)' /\ Sound(t, g)'
  BY <1>2, <1>3, <1>5, SoundStays DEF Onward
<1>7. PICK a : a = [g EXCEPT !.at = "close"]
  OBVIOUS
<1>8. a \in Frames
  BY <1>2, <1>7 DEF Frames, Labels
<1>9. a.at = "close" /\ a.kind = g.kind /\ a.m = g.m /\ a.i = g.i /\ a.flag = g.flag
  BY <1>2, <1>7 DEF Frames
<1>10. Sound(t, a)'
  BY <1>1, <1>2, <1>3, <1>6, <1>9 DEF Sound
<1>11. /\ Passes(g, a) /\ Ready(a)' /\ ~Notifying(a) /\ ~Hooking(a) /\ Winning(g) /\ ~Counts(GroupStop)
  BY <1>1, <1>2, <1>3, <1>6, <1>9, GroupStopFrame DEF Passes, Ready, Notifying, Hooking, Winning, Counts
<1>12. Become(t, <<a>>) => Stacked(t, k, g, a, GroupStop) /\ Closing
  BY <1>0, <1>2, <1>5, <1>8, <1>10, <1>11, StackedOne
<1>13. CASE l = "notify_stop"
  <2>1. NotifyGroup(t, Frame("member_stopping", "group", g.m), "stop_notified", <<a>>)
    BY <1>1, <1>2, <1>7, <1>13 DEF NotifyStop, At, Mine
  <2>2. CASE g.m \notin bound
    <3>1. Become(t, <<a>>) /\ notifications' = notifications
      BY <2>1, <2>2, <1>2 DEF NotifyGroup, Mine
    <3> QED
      BY <3>1, <1>2, <1>4, <1>9, <1>11, <1>12, <1>13, NotifySkips
  <2>3. CASE g.m \in bound
    <3>1. PICK c : c = [g EXCEPT !.at = "stop_notified"]
      OBVIOUS
    <3>2. c \in Frames
      BY <1>2, <3>1 DEF Frames, Labels
    <3>3. c.at = "stop_notified" /\ c.kind = g.kind /\ c.m = g.m /\ c.i = g.i /\ c.flag = g.flag
      BY <1>2, <3>1 DEF Frames
    <3>4. PICK b : b = Frame("member_stopping", "group", g.m)
      OBVIOUS
    <3>5. b \in Frames /\ b.at = "member_stopping" /\ b.kind = "group" /\ b.m = g.m
      <4>1. "member_stopping" \in Labels /\ "group" \in Kinds /\ g.m \in Runtimes \cup {Null}
        BY <1>3 DEF Labels, Kinds
      <4> QED
        BY <4>1, <3>4, NewFrame
    <3>6. Sound(t, b)' /\ Ready(b)' /\ ~Counts(b)
      BY <3>5, <1>3, <1>6, MemberCall
    <3>7. Sound(t, c)'
      BY <1>1, <1>2, <1>3, <1>6, <3>3 DEF Sound
    <3>8. Passes(g, c) /\ Above(c, b)' /\ Notifying(c) /\ Winning(c)
      BY <1>2, <1>3, <1>6, <1>13, <3>3, <3>5 DEF Passes, Above, Ready, Notifying, Winning
    <3>9. Become(t, <<c, b>>) /\ notifications' = [notifications EXCEPT ![g.m] = @ + 1]
      BY <2>1, <2>3, <3>1, <3>4, <1>2 DEF NotifyGroup, CallThen, Mine
    <3>10. Stacked(t, k, g, c, b) /\ Closing
      BY <1>0, <1>2, <1>5, <3>2, <3>5, <3>6, <3>7, <3>8, <3>9, StackedTwo
    <3> QED
      BY <3>3, <3>6, <3>8, <3>9, <3>10, <2>3, <1>2, <1>3, <1>4, <1>11, <1>13, NotifyCalls
  <2> QED
    BY <2>2, <2>3
<1>14. CASE l = "stop_notified"
  <2>1. Become(t, <<a>>) /\ notifications' = [notifications EXCEPT ![g.m] = @ - 1]
    BY <1>1, <1>2, <1>7, <1>14 DEF NotifyStop, GroupNotified, At, Mine
  <2> QED
    BY <2>1, <1>2, <1>3, <1>4, <1>9, <1>11, <1>12, <1>14, NotifyEnds
<1> QED
  BY <1>1, <1>13, <1>14

\* The hooks of member n start to run.
LEMMA HooksNew ==
    ASSUME HooksFine, NEW t \in Threads, NEW B, NEW k, NEW g, NEW a, NEW b, Topped(t, B, k, g), Turned(t, k, a, b),
           NEW n, HookRuns(n) = {}, n \in notifying', notifying \subseteq notifying',
           Hooking(a) => a.m = n /\ ~Hooking(b), Hooking(b) => b.m = n
    PROVE  HooksFine'
<1> SUFFICES ASSUME NEW m \in Runtimes
             PROVE  /\ \A x, y \in HookRuns(m)' : x = y
                    /\ HookRuns(m)' # {} => m \in notifying'
  BY DEF HooksFine
<1>1. HookRuns(m)' = (HookRuns(m) \ {<<t, k>>}) \cup Place(Hooking(a) /\ a.m = m, <<t, k>>)
                          \cup Place(Hooking(b) /\ b.m = m, <<t, k + 1>>)
  BY HookRunsTurn
<1>2. CASE m = n
  <2>1. HookRuns(m)' = Place(Hooking(a) /\ a.m = m, <<t, k>>) \cup Place(Hooking(b) /\ b.m = m, <<t, k + 1>>)
    BY <1>1, <1>2
  <2> QED
    BY <2>1, <1>2 DEF Place
<1>3. CASE m # n
  <2>1. HookRuns(m)' \subseteq HookRuns(m)
    BY <1>1, <1>3 DEF Place
  <2> QED
    BY <2>1 DEF HooksFine
<1> QED
  BY <1>2, <1>3

\* A step that closes the admission of member n.
Closes(n) ==
    /\ UNCHANGED <<runtime, chain, control, group, stage, events, history>>
    /\ n \in Runtimes /\ accepting' = accepting \ {n}
    /\ n \in accepting => notifying' = notifying \cup {n}
    /\ n \notin accepting => notifying' = notifying

\* Closing admission takes nothing back, and admission is closed.
LEMMA ClosesOnward ==
    ASSUME NEW n, Closes(n)
    PROVE  Onward /\ n \notin accepting'
BY Unchanges DEF Closes, Onward, Cause, Stoppable

\* A close of admission keeps the invariant, with one run of the hooks.
LEMMA ClosesInv ==
    ASSUME GroupInv, NEW n, Closes(n), NEW t \in Threads, NEW B, NEW k, NEW g, NEW a, NEW b,
           Topped(t, B, k, g), Stacked(t, k, g, a, b),
           ~Notifying(g), ~Notifying(a), ~Notifying(b), ~Winning(b),
           g.at # "abort", Winning(a) => Winning(g) /\ a.m = g.m,
           Hooking(a) => a.m = n /\ ~Hooking(b), Hooking(b) => b.m = n,
           Hooking(a) \/ Hooking(b) => n \in accepting
    PROVE  GroupInv'
<1>0. GroupTypeOK /\ CallsNest /\ RuntimesAgree /\ WinnersFine /\ HooksFine /\ NotificationsCounted
  BY GroupInvParts, OneWinnerParts
<1>1. CallsNest' /\ Rooted /\ Turned(t, k, a, b) /\ stack' \in [Threads -> Seq(Frames)]
  BY DEF Stacked
<1>2. chain' = chain /\ notifications' = notifications /\ control' = control
  BY Unchanges DEF Closes
<1>3. WinnersFine' /\ NotificationsCounted'
  BY <1>0, <1>1, <1>2, WinnersKeep, CountKeep
<1>4. HooksFine'
  <2>1. CASE n \in accepting
    <3>1. HookRuns(n) = {} /\ n \in notifying' /\ notifying \subseteq notifying'
      BY <2>1, <1>0, NoHooksYet DEF Closes
    <3> QED
      BY <3>1, <1>0, <1>1, HooksNew
  <2>2. CASE n \notin accepting
    <3>1. ~Hooking(a) /\ ~Hooking(b) /\ notifying' = notifying
      BY <2>2 DEF Closes
    <3> QED
      BY <3>1, <1>0, <1>1, HooksKeep
  <2> QED
    BY <2>1, <2>2
<1>5. Onward
  BY ClosesOnward
<1>6. Aside
  BY <1>0, <1>5, Unchanges DEF Closes, Aside, GroupTypeOK
<1>7. RuntimesAgree'
  <2>1. /\ UNCHANGED <<lifecycle, ready, serving, owner, rt_joined, rt_dispatching, independent, stopping>>
        /\ accepting' \subseteq accepting
    BY Unchanges DEF Closes
  <2>2. ASSUME NEW m \in Runtimes
        PROVE  RuntimeAgrees(m)'
    <3>1. RuntimeAgrees(m)
      BY <1>0, RuntimesAre
    <3>2. stack[m] = << >> => stack'[m] = << >>
      BY <1>1 DEF Rooted
    <3>3. chain[m] = "released" => m \notin notifying'
      BY <3>1 DEF RuntimeAgrees, Closes
    <3> QED
      BY <2>1, <3>1, <3>2, <3>3, <1>2 DEF RuntimeAgrees, Stoppable
  <2> QED
    BY <2>2, RuntimesAre
<1>8. GroupTypeOK'
  <2>1. accepting' \subseteq Runtimes /\ notifying' \subseteq Runtimes
    BY <1>0 DEF Closes, GroupTypeOK
  <2> QED
    BY <2>1, <1>0, <1>1, Unchanges DEF Closes, GroupTypeOK
<1>9. member_stopped' = member_stopped /\ stopping' = stopping
  BY Unchanges DEF Closes
<1> QED
  BY <1>1, <1>3, <1>4, <1>6, <1>7, <1>8, <1>9, AsideMarked

\* The group's stop has closed every member when it has closed the last.
LEMMA LastCloses ==
    ASSUME Onward, GroupTypeOK, NEW t \in Threads, NEW g \in Frames, Sound(t, g), g.m \notin accepting'
    PROVE  g.kind = "last" => accepting' = {}
<1> SUFFICES ASSUME g.kind = "last"
             PROVE  accepting' = {}
  OBVIOUS
<1>1. ClosedTo(Len(Members)) /\ g.m = Members[Len(Members)]
  BY DEF Sound
<1>2. \A j \in DOMAIN Members : Members[j] \notin accepting'
  <2>1. ASSUME NEW j \in DOMAIN Members
        PROVE  Members[j] \notin accepting'
    <3>1. j = Len(Members) \/ j < Len(Members)
      BY MembersAre
    <3> QED
      BY <3>1, <1>1 DEF ClosedTo, Onward
  <2> QED
    BY <2>1
<1> QED
  BY <1>2, MembersAre DEF GroupTypeOK, Onward

\* The frame of the shutdown hooks.
LEMMA HooksFrame ==
    ASSUME NEW t \in Threads, NEW m \in Runtimes, m \notin accepting', NEW h, h = Frame("hooks", "hooks", m)
    PROVE  h \in Frames /\ h.at = "hooks" /\ h.kind = "hooks" /\ h.m = m /\ Sound(t, h)' /\ Ready(h)'
<1>1. h \in Frames /\ h.at = "hooks" /\ h.kind = "hooks" /\ h.m = m
  BY NewFrame DEF Labels, Kinds
<1> QED
  BY <1>1 DEF Sound, Ready

\* The hooks run on top of the call that closed.
LEMMA Paired ==
    ASSUME NEW a \in Frames, NEW b \in Frames
    PROVE  <<a>> \o <<b>> = <<a, b>> /\ << >> \o <<b>> = <<b>>
<1>1. << >> \in Seq(Frames)
  OBVIOUS
<1> QED
  BY <1>1, Replaced

\* Every caller of request_stop() closes the dispatcher.
LEMMA StopClosesInv ==
    ASSUME GroupInv, NEW t \in Threads, StopCloses(t)
    PROVE  GroupInv' /\ Closing
<1>0. GroupTypeOK /\ CallsNest
  BY GroupInvParts
<1>1. PICK B, k, g : /\ Topped(t, B, k, g) /\ g \in Frames /\ g = Top(t) /\ g.at = "close" /\ Sound(t, g)
  BY <1>0, TopAt DEF StopCloses
<1>2. g.m \in Runtimes /\ g.kind # "group" /\ ~Stoppable(g.m)
  BY <1>1 DEF Sound
<1>3. CloseThen(t, g.m, IF g.flag THEN <<[g EXCEPT !.at = "chain"]>> ELSE << >>)
  BY <1>1 DEF StopCloses, Mine
<1>4. Closes(g.m)
  BY <1>2, <1>3 DEF CloseThen, Closes
<1>5. Onward /\ g.m \notin accepting'
  BY <1>4, ClosesOnward
<1>6. ~Stoppable(g.m)' /\ Sound(t, g)' /\ (g.kind = "last" => accepting' = {})
  BY <1>0, <1>1, <1>2, <1>5, SoundStays, LastCloses DEF Onward
<1>7. PICK h : h = Frame("hooks", "hooks", g.m)
  OBVIOUS
<1>8. h \in Frames /\ h.at = "hooks" /\ h.kind = "hooks" /\ h.m = g.m /\ Sound(t, h)' /\ Ready(h)'
  BY <1>2, <1>5, <1>7, HooksFrame
<1>9. /\ ~Notifying(g) /\ ~Notifying(h) /\ Hooking(h) /\ ~Winning(h) /\ ~Hooking(g)
      /\ ~Notifying(GroupStop) /\ ~Winning(GroupStop) /\ ~Hooking(GroupStop)
  BY <1>1, <1>8, GroupStopFrame DEF Notifying, Winning, Hooking
<1>10. CASE g.flag
  <2>1. PICK a : a = [g EXCEPT !.at = "chain"]
    OBVIOUS
  <2>2. a \in Frames
    BY <1>1, <2>1 DEF Frames, Labels
  <2>3. a.at = "chain" /\ a.kind = g.kind /\ a.m = g.m /\ a.i = g.i
    BY <1>1, <2>1 DEF Frames
  <2>4. Sound(t, a)'
    BY <2>3, <1>1, <1>2, <1>5, <1>6 DEF Sound
  <2>5. /\ Passes(g, a) /\ Ready(a)' /\ Above(a, h)' /\ ~Notifying(a) /\ ~Hooking(a)
    BY <2>3, <1>1, <1>2, <1>5, <1>8 DEF Passes, Ready, Above, Notifying, Hooking
  <2>6. Winning(g)
    BY <1>1, <1>10 DEF Winning
  <2>7. CASE g.m \in accepting
    <3>1. Become(t, <<a, h>>)
      <4>1. <<a>> \o <<h>> = <<a, h>>
        BY <1>8, <2>2, Paired
      <4>2. Become(t, <<a>> \o <<h>>)
        BY <1>3, <1>7, <1>10, <2>1, <2>7 DEF CloseThen
      <4> QED
        BY <4>1, <4>2
    <3>2. Stacked(t, k, g, a, h) /\ Closing
      BY <1>0, <1>1, <1>5, <1>8, <2>2, <2>4, <2>5, <3>1, StackedTwo
    <3> QED
      BY <3>2, <1>1, <1>4, <1>8, <1>9, <2>3, <2>5, <2>6, <2>7, ClosesInv
  <2>8. CASE g.m \notin accepting
    <3>1. Become(t, <<a>>)
      BY <1>3, <1>10, <2>1, <2>8 DEF CloseThen
    <3>2. Stacked(t, k, g, a, GroupStop) /\ Closing
      BY <1>0, <1>1, <1>5, <2>2, <2>4, <2>5, <3>1, StackedOne
    <3> QED
      BY <3>2, <1>1, <1>4, <1>9, <2>3, <2>5, <2>6, ClosesInv
  <2> QED
    BY <2>7, <2>8
<1>11. CASE ~g.flag
  <2>1. CASE g.m \in accepting
    <3>1. Become(t, <<h>>)
      BY <1>3, <1>7, <1>8, <1>11, <2>1, Replaced DEF CloseThen
    <3>2. Passes(g, h)
      BY <1>1, <1>2, <1>5, <1>8 DEF Passes
    <3>3. Stacked(t, k, g, h, GroupStop) /\ Closing
      BY <1>0, <1>1, <1>5, <1>8, <3>1, <3>2, StackedOne
    <3> QED
      BY <3>3, <1>1, <1>4, <1>8, <1>9, <2>1, ClosesInv
  <2>2. CASE g.m \notin accepting
    <3>1. Become(t, << >>)
      BY <1>3, <1>11, <2>2 DEF CloseThen
    <3>2. Leaves(g)
      BY <1>1, <1>5 DEF Leaves
    <3>3. Stacked(t, k, g, GroupStop, GroupStop) /\ Closing
      BY <1>0, <1>1, <1>2, <1>5, <1>6, <3>1, <3>2, StackedReturn
    <3> QED
      BY <3>3, <1>1, <1>4, <1>9, ClosesInv
  <2> QED
    BY <2>1, <2>2
<1> QED
  BY <1>10, <1>11

\* Recording a failure finds what it relies on.
LEMMA RecordSound ==
    ASSUME NEW t \in Threads, NEW a \in Frames, a.at = "record", a.kind \notin {"group", "member", "last"},
           a.m \in Runtimes, a.f \in Failures, a.flag => t = Lifecycle
    PROVE  Sound(t, a)' /\ Ready(a)' /\ ~Counts(a)
BY DEF Sound, Ready, Counts, Winning, Hooking, Notifying

\* The owner's failure path closes the dispatcher and records.
LEMMA CrashInv ==
    ASSUME GroupInv, NEW t \in Threads, Crash(t)
    PROVE  GroupInv' /\ Closing
<1>0. GroupTypeOK /\ CallsNest
  BY GroupInvParts
<1>1. PICK B, k, g : /\ Topped(t, B, k, g) /\ g \in Frames /\ g = Top(t) /\ g.at = "crash" /\ Sound(t, g)
  BY <1>0, TopAt DEF Crash
<1>2. g.m \in Runtimes /\ g.kind # "group" /\ g.f \in Failures
  BY <1>1 DEF Sound
<1>3. PICK c : c = Frame("record", "fail", g.m)
  OBVIOUS
<1>4. PICK a : a = [c EXCEPT !.f = g.f, !.flag = FALSE]
  OBVIOUS
<1>5. a \in Frames /\ a.at = "record" /\ a.kind = "fail" /\ a.m = g.m /\ ~a.flag /\ a.f = g.f
  <2>1. c \in Frames /\ c.at = "record" /\ c.kind = "fail" /\ c.m = g.m
    BY <1>2, <1>3, NewFrame DEF Labels, Kinds
  <2>2. a \in Frames
    BY <1>2, <1>4, <2>1 DEF Frames
  <2>3. a.at = c.at /\ a.kind = c.kind /\ a.m = c.m /\ ~a.flag /\ a.f = g.f
    BY <1>4, <2>1 DEF Frames
  <2> QED
    BY <2>1, <2>2, <2>3
<1>6. CloseThen(t, g.m, <<a>>)
  BY <1>1, <1>3, <1>4 DEF Crash, Mine, Recording
<1>7. Closes(g.m)
  BY <1>2, <1>6 DEF CloseThen, Closes
<1>8. Onward /\ g.m \notin accepting'
  BY <1>7, ClosesOnward
<1>9. PICK h : h = Frame("hooks", "hooks", g.m)
  OBVIOUS
<1>10. h \in Frames /\ h.at = "hooks" /\ h.kind = "hooks" /\ h.m = g.m /\ Sound(t, h)' /\ Ready(h)'
  BY <1>2, <1>8, <1>9, HooksFrame
<1>11. /\ ~Notifying(g) /\ ~Notifying(h) /\ ~Winning(h) /\ ~Winning(a) /\ ~Hooking(a) /\ ~Notifying(a)
       /\ ~Notifying(GroupStop) /\ ~Winning(GroupStop) /\ ~Hooking(GroupStop)
  BY <1>1, <1>5, <1>10, GroupStopFrame DEF Notifying, Winning, Hooking
<1>12. Sound(t, a)' /\ Ready(a)'
  BY <1>2, <1>5, RecordSound
<1>13. Passes(g, a) /\ Above(a, h)'
  BY <1>1, <1>5, <1>8, <1>10, <1>12 DEF Passes, Above
<1>14. CASE g.m \in accepting
  <2>1. Become(t, <<a, h>>)
    <3>1. <<a>> \o <<h>> = <<a, h>>
      BY <1>5, <1>10, Paired
    <3>2. Become(t, <<a>> \o <<h>>)
      BY <1>6, <1>9, <1>14 DEF CloseThen
    <3> QED
      BY <3>1, <3>2
  <2>2. Stacked(t, k, g, a, h) /\ Closing
    BY <1>0, <1>1, <1>5, <1>8, <1>10, <1>12, <1>13, <2>1, StackedTwo
  <2> QED
    BY <2>2, <1>1, <1>7, <1>10, <1>11, <1>14, ClosesInv
<1>15. CASE g.m \notin accepting
  <2>1. Become(t, <<a>>)
    BY <1>6, <1>15 DEF CloseThen
  <2>2. Stacked(t, k, g, a, GroupStop) /\ Closing
    BY <1>0, <1>1, <1>5, <1>8, <1>12, <1>13, <2>1, StackedOne
  <2> QED
    BY <2>2, <1>1, <1>7, <1>11, ClosesInv
<1> QED
  BY <1>14, <1>15

\* The shutdown hooks have run.
LEMMA HooksReturnInv ==
    ASSUME GroupInv, NEW t \in Threads, HooksReturn(t)
    PROVE  GroupInv' /\ Closing
<1>0. GroupTypeOK /\ CallsNest /\ RuntimesAgree /\ WinnersFine /\ HooksFine /\ NotificationsCounted
  BY GroupInvParts, OneWinnerParts
<1>1. PICK B, k, g : /\ Topped(t, B, k, g) /\ g \in Frames /\ g = Top(t) /\ g.at = "hooks" /\ Sound(t, g)
  BY <1>0, TopAt DEF HooksReturn
<1>2. g.m \in Runtimes /\ g.kind \notin {"group", "member", "last"}
  BY <1>1 DEF Sound
<1>3. /\ UNCHANGED <<runtime, accepting, chain, control, group, stage, events, history>>
      /\ notifying' = notifying \ {g.m} /\ Become(t, << >>)
  BY <1>1 DEF HooksReturn, Return, Mine
<1>4. Onward
  BY <1>3, Unchanges DEF Onward, Cause, Stoppable
<1>5. Leaves(g)
  BY <1>1, <1>2 DEF Leaves
<1>6. Stacked(t, k, g, GroupStop, GroupStop) /\ Closing
  BY <1>0, <1>1, <1>2, <1>3, <1>4, <1>5, StackedReturn
<1>7. CallsNest' /\ Rooted /\ Turned(t, k, GroupStop, GroupStop) /\ stack' \in [Threads -> Seq(Frames)]
  BY <1>6 DEF Stacked
<1>8. /\ ~Notifying(g) /\ ~Winning(g) /\ Hooking(g)
      /\ ~Notifying(GroupStop) /\ ~Winning(GroupStop) /\ ~Hooking(GroupStop)
  BY <1>1, GroupStopFrame DEF Notifying, Winning, Hooking
<1>9. chain' = chain /\ notifications' = notifications
  BY <1>3, Unchanges
<1>10. WinnersFine' /\ NotificationsCounted'
  BY <1>0, <1>1, <1>7, <1>8, <1>9, WinnersKeep, CountKeep
<1>11. HooksFine'
  <2>1. ASSUME NEW m \in Runtimes
        PROVE  /\ \A x, y \in HookRuns(m)' : x = y
               /\ HookRuns(m)' # {} => m \in notifying'
    <3>1. HookRuns(m)' = HookRuns(m) \ {<<t, k>>} /\ (m = g.m => <<t, k>> \in HookRuns(m))
      BY <1>1, <1>7, <1>8, HooksTurn, TopPlace
    <3>2. m = g.m => HookRuns(m)' = {}
      BY <3>1, <1>0 DEF HooksFine
    <3> QED
      BY <3>1, <3>2, <1>0, <1>3 DEF HooksFine
  <2> QED
    BY <2>1 DEF HooksFine
<1>12. Aside
  BY <1>0, <1>3, <1>4, Unchanges DEF Aside, GroupTypeOK
<1>13. RuntimesAgree'
  <2>1. notifying' \subseteq notifying
    BY <1>3
  <2> QED
    BY <2>1, <1>0, <1>3, <1>4, <1>7, Unchanges, RuntimesKept
<1>14. GroupTypeOK'
  <2>1. notifying' \subseteq Runtimes
    BY <1>0, <1>3 DEF GroupTypeOK
  <2> QED
    BY <2>1, <1>0, <1>3, <1>7, Unchanges DEF GroupTypeOK
<1>15. member_stopped' = member_stopped /\ stopping' = stopping
  BY <1>3, Unchanges
<1> QED
  BY <1>6, <1>7, <1>10, <1>11, <1>12, <1>13, <1>14, <1>15, AsideMarked

\* The winner requests the stop chain.
LEMMA RequestChainInv ==
    ASSUME GroupInv, NEW t \in Threads, RequestChain(t)
    PROVE  GroupInv' /\ Closing
<1>0. GroupTypeOK /\ CallsNest /\ RuntimesAgree /\ WinnersFine /\ HooksFine /\ NotificationsCounted
  BY GroupInvParts, OneWinnerParts
<1>1. PICK B, k, g : /\ Topped(t, B, k, g) /\ g \in Frames /\ g = Top(t) /\ g.at = "chain" /\ Sound(t, g)
  BY <1>0, TopAt DEF RequestChain
<1>2. g.m \in Runtimes /\ g.kind # "group" /\ ~Stoppable(g.m) /\ g.m \notin accepting
  BY <1>1 DEF Sound
<1>3. PICK a : a = [g EXCEPT !.at = "abort"]
  OBVIOUS
<1>4. a \in Frames
  BY <1>1, <1>3 DEF Frames, Labels
<1>5. a.at = "abort" /\ a.kind = g.kind /\ a.m = g.m /\ a.i = g.i
  BY <1>1, <1>3 DEF Frames
<1>6. /\ UNCHANGED <<runtime, accepting, notifying, control, group, stage, events, history>>
      /\ chain' = [chain EXCEPT ![g.m] = "requested"] /\ Become(t, <<a>>)
  BY <1>1, <1>3 DEF RequestChain, Goto, Mine
<1>7. Onward
  BY <1>6, Unchanges DEF Onward, Cause, Stoppable
<1>8. Passes(g, a) /\ Sound(t, a)' /\ Ready(a)'
  <2>1. Sound(t, g)' /\ ~Stoppable(g.m)' /\ g.m \notin accepting'
    BY <1>1, <1>2, <1>7, SoundStays DEF Onward
  <2>2. Sound(t, a)'
    BY <2>1, <1>1, <1>2, <1>5 DEF Sound
  <2> QED
    BY <2>1, <2>2, <1>1, <1>2, <1>5 DEF Passes, Ready
<1>9. Stacked(t, k, g, a, GroupStop) /\ Closing
  BY <1>0, <1>1, <1>4, <1>6, <1>7, <1>8, StackedOne
<1>10. CallsNest' /\ Rooted /\ Turned(t, k, a, GroupStop) /\ stack' \in [Threads -> Seq(Frames)]
  BY <1>9 DEF Stacked
<1>11. /\ ~Notifying(g) /\ Winning(g) /\ ~Hooking(a) /\ ~Notifying(a) /\ Winning(a)
       /\ ~Notifying(GroupStop) /\ ~Winning(GroupStop) /\ ~Hooking(GroupStop)
  BY <1>1, <1>5, GroupStopFrame DEF Notifying, Winning, Hooking
<1>12. notifying' = notifying /\ notifications' = notifications
  BY <1>6, Unchanges
<1>13. HooksFine' /\ NotificationsCounted'
  BY <1>0, <1>1, <1>10, <1>11, <1>12, HooksKeep, CountKeep
<1>14. <<t, k>> \in Winners(g.m) /\ chain[g.m] = "open"
  <2>1. <<t, k>> \in Winners(g.m)
    BY <1>1, <1>11, TopPlace
  <2>2. Called(<<t, k>>) = g
    <3>1. k \in 1..Len(stack[t]) /\ g = stack[t][k]
      BY <1>1 DEF Topped, Based
    <3> QED
      BY <3>1, CallPlaces
  <2> QED
    BY <2>1, <2>2, <1>0, <1>1, <1>2 DEF WinnersFine
<1>15. WinnersFine'
  <2>1. ASSUME NEW m \in Runtimes
        PROVE  /\ \A x, y \in Winners(m)' : x = y
               /\ \A x \in Winners(m)' : Called(x)'.at = "abort" \/ chain'[m] = "open"
    <3>1. /\ Winners(m)' = (Winners(m) \ {<<t, k>>}) \cup Place(Winning(a) /\ a.m = m, <<t, k>>)
                              \cup Place(Winning(GroupStop) /\ GroupStop.m = m, <<t, k + 1>>)
          /\ \A x \in Winners(m) \ {<<t, k>>} : Called(x)' = Called(x)
      BY <1>10, WinnersTurn
    <3>2. CASE m = g.m
      <4>1. Winners(m)' = {<<t, k>>}
        BY <3>1, <3>2, <1>0, <1>5, <1>11, <1>14 DEF Place, WinnersFine
      <4>2. Called(<<t, k>>)' = a
        BY <1>10, <1>11, MarkedKinds, MarksTurn
      <4> QED
        BY <4>1, <4>2, <1>5
    <3>3. CASE m # g.m
      <4>1. Winners(m)' = Winners(m) \ {<<t, k>>}
        BY <3>1, <3>3, <1>5, <1>11 DEF Place
      <4>2. chain'[m] = chain[m]
        BY <3>3, <1>0, <1>6 DEF GroupTypeOK
      <4> QED
        BY <4>1, <4>2, <3>1, <1>0 DEF WinnersFine
    <3> QED
      BY <3>2, <3>3
  <2> QED
    BY <2>1 DEF WinnersFine
<1>16. Aside
  BY <1>0, <1>6, <1>7, Unchanges DEF Aside, GroupTypeOK
<1>17. RuntimesAgree'
  <2>1. /\ UNCHANGED <<lifecycle, ready, serving, owner, rt_joined, rt_dispatching, independent, stopping,
                       control, accepting, notifying>>
    BY <1>6, Unchanges
  <2>2. ASSUME NEW m \in Runtimes
        PROVE  RuntimeAgrees(m)'
    <3>1. RuntimeAgrees(m)
      BY <1>0, RuntimesAre
    <3>2. stack[m] = << >> => stack'[m] = << >>
      BY <1>10 DEF Rooted
    <3>3. CASE m = g.m
      <4>1. chain'[m] = "requested" /\ owner[m] # "done"
        BY <3>1, <3>3, <1>0, <1>6, <1>14 DEF GroupTypeOK, RuntimeAgrees
      <4> QED
        BY <4>1, <2>1, <3>1, <3>2, <3>3, <1>2 DEF RuntimeAgrees, Stoppable
    <3>4. CASE m # g.m
      <4>1. chain'[m] = chain[m]
        BY <3>4, <1>0, <1>6 DEF GroupTypeOK
      <4> QED
        BY <4>1, <2>1, <3>1, <3>2 DEF RuntimeAgrees, Stoppable
    <3> QED
      BY <3>3, <3>4
  <2> QED
    BY <2>2, RuntimesAre
<1>18. GroupTypeOK'
  <2>1. chain' \in [Runtimes -> {"open", "requested", "released"}]
    BY <1>0, <1>6 DEF GroupTypeOK
  <2> QED
    BY <2>1, <1>0, <1>6, <1>10, Unchanges DEF GroupTypeOK
<1>19. member_stopped' = member_stopped /\ stopping' = stopping
  BY <1>6, Unchanges
<1> QED
  BY <1>9, <1>10, <1>13, <1>15, <1>16, <1>17, <1>18, <1>19, AsideMarked

\* The phases of a member are no longer pending.
LEMMA PhasesAborted ==
    ASSUME GroupTypeOK, NEW n \in Runtimes, AbortPhases(n)
    PROVE  /\ ready' \in [Runtimes -> Phases] /\ serving' \in [Runtimes -> Phases]
           /\ \A m \in Runtimes :
                 /\ ready[m] = "reached" => ready'[m] = "reached"
                 /\ serving[m] = "reached" => serving'[m] = "reached"
                 /\ ready'[m] = "pending" => ready[m] = "pending"
                 /\ serving'[m] = "pending" => serving[m] = "pending"
                 /\ m # n => ready'[m] = ready[m] /\ serving'[m] = serving[m]
           /\ ready'[n] # "pending" /\ serving'[n] # "pending"
<1>1. /\ ready \in [Runtimes -> Phases] /\ serving \in [Runtimes -> Phases]
      /\ ready' = [ready EXCEPT ![n] = Aborted(@)] /\ serving' = [serving EXCEPT ![n] = Aborted(@)]
  BY DEF GroupTypeOK, AbortPhases
<1>2. \A p \in Phases : Aborted(p) \in Phases /\ Aborted(p) # "pending" /\ (p = "reached" => Aborted(p) = "reached")
  BY DEF Aborted, Phases
<1>3. ready' \in [Runtimes -> Phases] /\ serving' \in [Runtimes -> Phases]
  BY <1>1, <1>2
<1>4. \A m \in Runtimes : m # n => ready'[m] = ready[m] /\ serving'[m] = serving[m]
  BY <1>1
<1>5. ready'[n] = Aborted(ready[n]) /\ serving'[n] = Aborted(serving[n]) /\ ready[n] \in Phases /\ serving[n] \in Phases
  BY <1>1
<1> QED
  BY <1>2, <1>3, <1>4, <1>5

\* The winner aborts the phases and ends the dispatch.
LEMMA StopDispatchedInv ==
    ASSUME GroupInv, NEW t \in Threads, StopDispatched(t)
    PROVE  GroupInv' /\ Closing
<1>0. GroupTypeOK /\ CallsNest /\ RuntimesAgree /\ WinnersFine /\ HooksFine /\ NotificationsCounted
  BY GroupInvParts, OneWinnerParts
<1>1. PICK B, k, g : /\ Topped(t, B, k, g) /\ g \in Frames /\ g = Top(t) /\ g.at = "abort" /\ Sound(t, g)
  BY <1>0, TopAt DEF StopDispatched
<1>2. g.m \in Runtimes /\ g.kind # "group" /\ ~Stoppable(g.m) /\ g.m \notin accepting
  BY <1>1 DEF Sound
<1>3. /\ UNCHANGED <<lifecycle, failed, joins, binding, owner, worker, group, stage, events, history>>
      /\ AbortPhases(g.m) /\ rt_dispatching' = rt_dispatching \ {g.m} /\ Become(t, << >>)
  BY <1>1 DEF StopDispatched, Return, Mine
<1>4. Onward
  BY <1>3, Unchanges DEF Onward, Cause, Stoppable
<1>5. Leaves(g) /\ g.m \notin accepting' /\ (g.kind = "last" => accepting' = {})
  <2>1. g.m \notin accepting'
    BY <1>2, <1>4 DEF Onward
  <2> QED
    BY <2>1, <1>0, <1>1, <1>4, LastCloses DEF Leaves
<1>6. Stacked(t, k, g, GroupStop, GroupStop) /\ Closing
  BY <1>0, <1>1, <1>2, <1>3, <1>4, <1>5, StackedReturn
<1>7. CallsNest' /\ Rooted /\ Turned(t, k, GroupStop, GroupStop) /\ stack' \in [Threads -> Seq(Frames)]
  BY <1>6 DEF Stacked
<1>8. ~Notifying(g) /\ ~Notifying(GroupStop) /\ ~Winning(GroupStop) /\ ~Hooking(GroupStop)
  BY <1>1, GroupStopFrame DEF Notifying, Winning, Hooking
<1>9. chain' = chain /\ notifying' = notifying /\ notifications' = notifications
  BY <1>3, Unchanges
<1>10. WinnersFine' /\ HooksFine' /\ NotificationsCounted'
  BY <1>0, <1>1, <1>7, <1>8, <1>9, WinnersKeep, HooksKeep, CountKeep
<1>11. /\ ready' \in [Runtimes -> Phases] /\ serving' \in [Runtimes -> Phases]
       /\ \A m \in Runtimes :
             /\ ready[m] = "reached" => ready'[m] = "reached"
             /\ serving[m] = "reached" => serving'[m] = "reached"
             /\ ready'[m] = "pending" => ready[m] = "pending"
             /\ serving'[m] = "pending" => serving[m] = "pending"
             /\ m # g.m => ready'[m] = ready[m] /\ serving'[m] = serving[m]
  BY <1>0, <1>2, <1>3, PhasesAborted
<1>12. Aside
  BY <1>0, <1>3, <1>4, <1>11, Unchanges DEF Aside, GroupTypeOK
<1>13. RuntimesAgree'
  <2>1. /\ UNCHANGED <<lifecycle, owner, rt_joined, independent, stopping, control, accepting, notifying, chain>>
        /\ rt_dispatching' \subseteq rt_dispatching
    BY <1>3, Unchanges
  <2>2. ASSUME NEW m \in Runtimes
        PROVE  RuntimeAgrees(m)'
    <3>1. RuntimeAgrees(m) /\ (stack[m] = << >> => stack'[m] = << >>)
      BY <1>0, <1>7, RuntimesAre DEF Rooted
    <3>2. ready'[m] = "aborted" \/ serving'[m] = "aborted" => ~Stoppable(m)
      BY <3>1, <1>2, <1>11 DEF RuntimeAgrees
    <3> QED
      BY <2>1, <3>1, <3>2, <1>11 DEF RuntimeAgrees, Stoppable
  <2> QED
    BY <2>2, RuntimesAre
<1>14. GroupTypeOK'
  <2>1. rt_dispatching' \subseteq Runtimes
    BY <1>0, <1>3 DEF GroupTypeOK
  <2> QED
    BY <2>1, <1>0, <1>3, <1>7, <1>11, Unchanges DEF GroupTypeOK
<1>15. member_stopped' = member_stopped /\ stopping' = stopping
  BY <1>3, Unchanges
<1> QED
  BY <1>6, <1>7, <1>10, <1>12, <1>13, <1>14, <1>15, AsideMarked

\* The count of events stays within its bound.
LEMMA EventTypes ==
    ASSUME GroupTypeOK, Event
    PROVE  events' \in 0..MaxEvents
BY GroupAssumption DEF GroupTypeOK, Event

\* A shutdown hook stops the group again, from inside a stop.
LEMMA HookReentersInv ==
    ASSUME GroupInv, NEW t \in Threads, HookReenters(t)
    PROVE  GroupInv' /\ Closing
<1>0. GroupTypeOK /\ CallsNest /\ RuntimesAgree /\ GroupAgrees
  BY GroupInvParts
<1>1. PICK B, j, g : /\ Topped(t, B, j, g) /\ g \in Frames /\ g = Top(t) /\ g.at = "hooks" /\ Sound(t, g) /\ Ready(g)
  BY <1>0, TopAt DEF HookReenters
<1>2. PICK S, k : S = stack[t] /\ k = j + 1
  OBVIOUS
<1>3. /\ S \in Seq(Frames) /\ S # << >> /\ Len(S) = j /\ j \in Nat /\ j >= 1 /\ S[j] = g /\ Nested(t, S)
  BY <1>0, <1>1, <1>2 DEF Topped, Based, GroupTypeOK, CallsNest
<1>4. /\ UNCHANGED <<runtime, worker, group, stage, outcome, delivered, reported, independent>>
      /\ asked' = TRUE /\ stack' = [stack EXCEPT ![t] = Append(S, GroupStop)] /\ Event
  BY <1>2 DEF HookReenters
<1>5. Onward /\ Cause'
  BY <1>4, Unchanges DEF Onward, Cause, Stoppable
<1>6. Based(t, S, k) /\ k # 1 /\ k - 1 = j
  BY <1>2, <1>3 DEF Based
<1>7. PICK C : C = Append(S, GroupStop)
  OBVIOUS
<1>8. C \in Seq(Frames) /\ C # << >> /\ Len(C) = j + 1 /\ C[j + 1] = GroupStop /\ C[1] = S[1]
  BY <1>3, <1>7, AppendSeq, GroupStopFrame
<1>9. Continue(C) = C
  BY <1>8, Calm, GroupStopFrame
<1>10. Above(g, GroupStop)'
  <2>1. Ready(g)'
    BY <1>1, <1>5, ReadyStays
  <2> QED
    BY <2>1, <1>1, <1>5, GroupStopFrame DEF Above
<1>11. CallsNest' /\ Turned(t, k, GroupStop, GroupStop) /\ Len(stack'[t]) >= k
  <2>1. Sound(t, GroupStop)' /\ Ready(GroupStop)' /\ GroupStop \in Frames
    BY GroupStopSound, GroupStopFrame
  <2>2. S[k - 1] = g
    BY <1>3, <1>6
  <2>3. stack' = [stack EXCEPT ![t] = Continue(Append(S, GroupStop))]
    BY <1>4, <1>7, <1>9
  <2> QED
    BY <2>1, <2>2, <2>3, <1>0, <1>5, <1>6, <1>10, TurnOne
<1>12. stack'[t] = C /\ \A u \in Threads \ {t} : stack'[u] = stack[u]
  BY <1>0, <1>4, <1>7 DEF GroupTypeOK
<1>13. Rooted
  <2>1. \A u \in Threads : /\ stack[u] = << >> <=> stack'[u] = << >>
                           /\ stack[u] # << >> => stack'[u][1] = stack[u][1]
    BY <1>2, <1>3, <1>8, <1>12
  <2>2. Lifecycle \in Threads /\ Other \in Threads /\ Runtimes \subseteq Threads
    BY DEF Threads
  <2>3. stack[Lifecycle] # << >> => stack[Lifecycle][1].at \in LifecycleFrames
    BY <1>0, <2>2, OutermostSound DEF Bottom
  <2> QED
    BY <2>1, <2>2, <2>3 DEF Rooted, Planted, Same
<1>14. Quiet
  <2>1. Len(stack[t]) # k /\ ~Counts(GroupStop)
    BY <1>2, <1>3, GroupStopSound
  <2> QED
    BY <2>1, <1>11, QuietTurn
<1>15. Closing
  <2>1. ~Returns(t)
    BY <1>2, <1>3, <1>8, <1>12 DEF Returns
  <2> QED
    BY <2>1, <1>0, <1>11, OthersStay DEF Closing
<1>16. Aside
  BY <1>0, <1>4, <1>5, Unchanges DEF Aside, GroupTypeOK
<1>17. RuntimesAgree'
  BY <1>0, <1>4, <1>5, <1>13, Unchanges, RuntimesKept
<1>18. stack' \in [Threads -> Seq(Frames)]
  BY <1>11 DEF Turned
<1>19. GroupTypeOK'
  BY <1>0, <1>4, <1>18, EventTypes, Unchanges DEF GroupTypeOK
<1>20. (member_stopped' => independent' # {}) /\ (stopping' => stopping)
  BY <1>0, <1>4, Unchanges DEF GroupAgrees
<1> QED
  BY <1>4, <1>11, <1>13, <1>14, <1>15, <1>16, <1>17, <1>19, <1>20, Unchanges, AsideQuiet

-----------------------------------------------------------------------------
(* fail() of a runtime, and its serve callback                              *)

\* fail() goes on with the stop, the others are through.
LEMMA AfterRecordStacks ==
    ASSUME GroupTypeOK, CallsNest, Onward, NEW t \in Threads, NEW B, NEW k, NEW g, Topped(t, B, k, g),
           g.at \in RecordFrames, Become(t, AfterRecord(t))
    PROVE  \E a : Stacked(t, k, g, a, GroupStop) /\ ~Counts(a) /\ Closing
<1>0. g = Top(t) /\ g \in Frames /\ Sound(t, g)
  BY DEF Topped
<1>1. g.m \in Runtimes /\ g.kind \notin {"group", "member", "last"}
  BY <1>0 DEF Sound
<1>2. CASE g.kind = "fail"
  <2>1. PICK a : a = RuntimeStop(g.m, "fail")
    OBVIOUS
  <2>2. a \in Frames /\ a.at = "stop" /\ a.kind = "fail" /\ a.m = g.m /\ ~a.flag
    <3>1. "fail" \in Kinds
      BY DEF Kinds
    <3> QED
      BY <3>1, <2>1, <1>1, NewStop
  <2>3. Sound(t, a)' /\ Ready(a)' /\ Passes(g, a) /\ ~Counts(a)
    BY <1>1, <2>2 DEF Sound, Ready, Passes, Counts, Winning, Hooking, Notifying
  <2>4. Become(t, <<a>>)
    BY <1>0, <1>2, <2>1 DEF AfterRecord, Mine
  <2>5. Stacked(t, k, g, a, GroupStop) /\ Closing
    BY <1>0, <2>2, <2>3, <2>4, StackedOne
  <2> QED
    BY <2>3, <2>5
<1>3. CASE g.kind # "fail"
  <2>1. Become(t, << >>)
    BY <1>0, <1>3 DEF AfterRecord
  <2>2. Leaves(g)
    BY <1>1 DEF Leaves
  <2>3. Stacked(t, k, g, GroupStop, GroupStop) /\ Closing
    BY <1>1, <2>1, <2>2, StackedReturn
  <2>4. ~Counts(GroupStop)
    BY GroupStopSound
  <2> QED
    BY <2>3, <2>4
<1> QED
  BY <1>2, <1>3

\* A step that only records a failure.
Records ==
    UNCHANGED <<lifecycle, rt_dispatching, phases, joins, binding, owner, worker, group, stage, events, history>>

\* Recording a failure takes nothing back.
LEMMA RecordsOnward ==
    ASSUME Records
    PROVE  Onward
BY Unchanges DEF Records, Onward, Cause, Stoppable

\* Recording a failure keeps the invariant.
LEMMA RecordsInv ==
    ASSUME GroupInv, Records, Rooted, Quiet, CallsNest', stack' \in [Threads -> Seq(Frames)],
           failure' \in [Runtimes -> Failures \cup {Null}], observed' \in [Runtimes -> BOOLEAN]
    PROVE  GroupInv'
<1>0. GroupTypeOK /\ RuntimesAgree /\ GroupAgrees
  BY GroupInvParts
<1>1. Aside
  BY <1>0, RecordsOnward, Unchanges DEF Records, Aside, GroupTypeOK
<1>2. RuntimesAgree'
  BY <1>0, RecordsOnward, Unchanges, RuntimesKept DEF Records
<1>3. GroupTypeOK'
  BY <1>0, Unchanges DEF Records, GroupTypeOK
<1>4. (member_stopped' => independent' # {}) /\ (stopping' => stopping)
  BY <1>0, Unchanges DEF Records, GroupAgrees
<1>5. chain' = chain /\ notifying' = notifying /\ notifications' = notifications
  BY Unchanges DEF Records
<1> QED
  BY <1>1, <1>2, <1>3, <1>4, <1>5, AsideQuiet

\* A runtime records a failure and goes on to tell the group.
LEMMA RecordInv ==
    ASSUME GroupInv, NEW t \in Threads, Record(t)
    PROVE  GroupInv' /\ Closing
<1>0. GroupTypeOK /\ CallsNest
  BY GroupInvParts
<1>1. PICK B, k, g : /\ Topped(t, B, k, g) /\ g \in Frames /\ g = Top(t) /\ g.at = "record" /\ Sound(t, g)
  BY <1>0, TopAt DEF Record
<1>2. /\ g.m \in Runtimes /\ g.kind \notin {"group", "member", "last"} /\ g.f \in Failures
      /\ g.flag \in BOOLEAN
  BY <1>1 DEF Sound, Frames
<1>3. Records
  BY DEF Record, Records
<1>4. Onward
  BY <1>3, RecordsOnward
<1>5. CASE failure[g.m] # Null
  <2>1. Become(t, AfterRecord(t)) /\ failure' = failure /\ observed' = observed
    BY <1>1, <1>5 DEF Record, Mine, failed
  <2>2. PICK a : Stacked(t, k, g, a, GroupStop) /\ ~Counts(a) /\ Closing
    BY <2>1, <1>0, <1>1, <1>4, AfterRecordStacks
  <2>3. CallsNest' /\ Rooted /\ Quiet /\ stack' \in [Threads -> Seq(Frames)]
    BY <2>2, <1>1, GroupStopSound DEF Stacked, Counts, Winning, Hooking, Notifying
  <2> QED
    BY <2>1, <2>2, <2>3, <1>0, <1>3, RecordsInv DEF GroupTypeOK
<1>6. CASE failure[g.m] = Null
  <2>1. PICK a : a = [g EXCEPT !.at = "notify_failure"]
    OBVIOUS
  <2>2. a \in Frames
    BY <1>1, <2>1 DEF Frames, Labels
  <2>3. a.at = "notify_failure" /\ a.kind = g.kind /\ a.m = g.m /\ a.i = g.i /\ a.f = g.f
    BY <1>1, <2>1 DEF Frames
  <2>4. Become(t, <<a>>) /\ failure' = [failure EXCEPT ![g.m] = g.f] /\ observed' = [observed EXCEPT ![g.m] = g.flag]
    BY <1>1, <1>6, <2>1 DEF Record, Mine, Goto
  <2>5. Sound(t, a)' /\ Ready(a)' /\ Passes(g, a)
    BY <1>1, <1>2, <2>3 DEF Sound, Ready, Passes
  <2>6. Stacked(t, k, g, a, GroupStop) /\ Closing
    BY <1>0, <1>1, <1>4, <2>2, <2>4, <2>5, StackedOne
  <2>7. CallsNest' /\ Rooted /\ Quiet /\ stack' \in [Threads -> Seq(Frames)]
    BY <2>3, <2>6, <1>1, GroupStopSound DEF Stacked, Counts, Winning, Hooking, Notifying
  <2>8. failure' \in [Runtimes -> Failures \cup {Null}]
    BY <2>4, <1>0, <1>2 DEF GroupTypeOK
  <2>9. observed' \in [Runtimes -> BOOLEAN]
    BY <2>4, <1>0, <1>2 DEF GroupTypeOK
  <2> QED
    BY <2>6, <2>7, <2>8, <2>9, <1>3, RecordsInv
<1> QED
  BY <1>5, <1>6

\* notify_group() tells the group of the failure, and returns.
LEMMA NotifyFailureInv ==
    ASSUME GroupInv, NEW t \in Threads, NotifyFailure(t)
    PROVE  GroupInv' /\ Closing
<1>0. GroupTypeOK /\ CallsNest
  BY GroupInvParts
<1>1. PICK l : l \in {"notify_failure", "failure_notified"} /\ At(t, l)
  BY DEF NotifyFailure
<1>2. PICK B, k, g : /\ Topped(t, B, k, g) /\ g \in Frames /\ g = Top(t) /\ g.at = l /\ Sound(t, g)
  BY <1>0, <1>1, TopAt
<1>3. g.m \in Runtimes /\ g.kind \notin {"group", "member", "last"} /\ g.f \in Failures
  BY <1>1, <1>2 DEF Sound
<1>4. Notified
  BY DEF NotifyFailure, NotifyGroup, GroupNotified, Notified
<1>5. Onward
  BY <1>4, NotifiedOnward
<1>6. ~Counts(GroupStop)
  BY GroupStopSound
<1>7. CASE l = "notify_failure"
  <2>1. NotifyGroup(t, [Frame("member_failed", "group", g.m) EXCEPT !.f = g.f], "failure_notified", AfterRecord(t))
    BY <1>1, <1>2, <1>7 DEF NotifyFailure, At, Mine
  <2>2. CASE g.m \notin bound
    <3>1. Become(t, AfterRecord(t)) /\ notifications' = notifications
      BY <2>1, <2>2, <1>2 DEF NotifyGroup, Mine
    <3>2. PICK a : Stacked(t, k, g, a, GroupStop) /\ ~Counts(a) /\ Closing
      BY <3>1, <1>0, <1>2, <1>5, <1>7, AfterRecordStacks
    <3>3. ~Notifying(a) /\ ~Hooking(a) /\ ~Winning(a)
      BY <3>2 DEF Counts
    <3> QED
      BY <3>1, <3>2, <3>3, <1>2, <1>4, <1>6, <1>7, NotifySkips
  <2>3. CASE g.m \in bound
    <3>1. PICK c : c = [g EXCEPT !.at = "failure_notified"]
      OBVIOUS
    <3>2. c \in Frames
      BY <1>2, <3>1 DEF Frames, Labels
    <3>3. c.at = "failure_notified" /\ c.kind = g.kind /\ c.m = g.m /\ c.i = g.i /\ c.f = g.f
      BY <1>2, <3>1 DEF Frames
    <3>4. PICK d : d = Frame("member_failed", "group", g.m)
      OBVIOUS
    <3>5. d \in Frames /\ d.at = "member_failed" /\ d.kind = "group" /\ d.m = g.m
      BY <3>4, <1>3, NewFrame DEF Labels, Kinds
    <3>6. PICK b : b = [d EXCEPT !.f = g.f]
      OBVIOUS
    <3>7. b \in Frames
      BY <3>5, <3>6, <1>3 DEF Frames
    <3>8. b.at = "member_failed" /\ b.kind = "group" /\ b.m = g.m /\ b.f = g.f
      BY <3>5, <3>6 DEF Frames
    <3>9. Sound(t, b)' /\ Ready(b)' /\ ~Counts(b)
      BY <3>7, <3>8, <1>3, MemberCall
    <3>10. Sound(t, c)' /\ Passes(g, c) /\ Above(c, b)' /\ Notifying(c) /\ ~Winning(c)
      BY <1>2, <1>3, <1>7, <3>3, <3>8 DEF Sound, Passes, Above, Ready, Notifying, Winning
    <3>11. Become(t, <<c, b>>) /\ notifications' = [notifications EXCEPT ![g.m] = @ + 1]
      BY <2>1, <2>3, <3>1, <3>4, <3>6, <1>2 DEF NotifyGroup, CallThen, Mine
    <3>12. Stacked(t, k, g, c, b) /\ Closing
      BY <1>0, <1>2, <1>5, <3>2, <3>7, <3>9, <3>10, <3>11, StackedTwo
    <3> QED
      BY <3>3, <3>9, <3>10, <3>11, <3>12, <2>3, <1>2, <1>3, <1>4, <1>7, NotifyCalls
  <2> QED
    BY <2>2, <2>3
<1>8. CASE l = "failure_notified"
  <2>1. Become(t, AfterRecord(t)) /\ notifications' = [notifications EXCEPT ![g.m] = @ - 1]
    BY <1>1, <1>2, <1>8 DEF NotifyFailure, GroupNotified, At, Mine
  <2>2. PICK a : Stacked(t, k, g, a, GroupStop) /\ ~Counts(a) /\ Closing
    BY <2>1, <1>0, <1>2, <1>5, <1>8, AfterRecordStacks
  <2>3. ~Notifying(a) /\ ~Hooking(a) /\ ~Winning(a)
    BY <2>2 DEF Counts
  <2> QED
    BY <2>1, <2>2, <2>3, <1>2, <1>3, <1>4, <1>6, <1>8, NotifyEnds
<1> QED
  BY <1>1, <1>7, <1>8

\* The serve callback has returned.
LEMMA ServeReturnsInv ==
    ASSUME GroupInv, NEW t \in Threads, ServeReturns(t)
    PROVE  GroupInv' /\ Closing
<1>0. GroupTypeOK /\ CallsNest /\ RuntimesAgree /\ GroupAgrees
  BY GroupInvParts
<1>1. PICK B, k, g : /\ Topped(t, B, k, g) /\ g \in Frames /\ g = Top(t) /\ g.at = "serve" /\ Sound(t, g)
  BY <1>0, TopAt DEF ServeReturns
<1>2. g.m \in Runtimes /\ g.kind \notin {"group", "member", "last"}
  BY <1>1 DEF Sound
<1>3. /\ UNCHANGED <<lifecycle, rt_dispatching, ready, failed, joins, binding, owner, worker, group, stage, events,
                     history>>
      /\ serving' = [serving EXCEPT ![g.m] = IF @ = "pending" /\ lifecycle[g.m] = "running" THEN "reached" ELSE @]
      /\ Become(t, << >>)
  BY <1>1 DEF ServeReturns, Return, Mine
<1>4. Onward
  BY <1>3, Unchanges DEF Onward, Cause, Stoppable
<1>5. Leaves(g)
  BY <1>1, <1>2 DEF Leaves
<1>6. Stacked(t, k, g, GroupStop, GroupStop) /\ Closing
  BY <1>0, <1>1, <1>2, <1>3, <1>4, <1>5, StackedReturn
<1>7. CallsNest' /\ Rooted /\ Quiet /\ stack' \in [Threads -> Seq(Frames)]
  BY <1>1, <1>6, GroupStopSound DEF Stacked, Counts, Winning, Hooking, Notifying
<1>8. /\ serving' \in [Runtimes -> Phases]
      /\ \A m \in Runtimes : /\ serving[m] = "reached" => serving'[m] = "reached"
                             /\ serving'[m] = "pending" => serving[m] = "pending"
                             /\ serving'[m] = "aborted" => serving[m] = "aborted"
  BY <1>0, <1>2, <1>3 DEF GroupTypeOK, Phases
<1>9. Aside
  BY <1>0, <1>3, <1>4, <1>8, Unchanges DEF Aside, GroupTypeOK
<1>10. RuntimesAgree'
  <2>1. /\ UNCHANGED <<lifecycle, owner, rt_joined, independent, stopping, control, accepting, notifying, chain,
                       rt_dispatching, ready>>
    BY <1>3, Unchanges
  <2>2. ASSUME NEW m \in Runtimes
        PROVE  RuntimeAgrees(m)'
    <3>1. RuntimeAgrees(m) /\ (stack[m] = << >> => stack'[m] = << >>)
      BY <1>0, <1>7, RuntimesAre DEF Rooted
    <3> QED
      BY <2>1, <3>1, <1>8 DEF RuntimeAgrees, Stoppable
  <2> QED
    BY <2>2, RuntimesAre
<1>11. GroupTypeOK'
  BY <1>0, <1>3, <1>7, <1>8, Unchanges DEF GroupTypeOK
<1>12. (member_stopped' => independent' # {}) /\ (stopping' => stopping)
  BY <1>0, <1>3, Unchanges DEF GroupAgrees
<1> QED
  BY <1>3, <1>6, <1>7, <1>9, <1>10, <1>11, <1>12, Unchanges, AsideQuiet

\* A step that only moves a stack.
StackOnly == UNCHANGED <<runtime, worker, group, stage, history>> /\ events' \in 0..MaxEvents

\* A step of the stacks alone takes nothing back.
LEMMA StackOnlyOnward ==
    ASSUME StackOnly
    PROVE  Onward
BY Unchanges DEF StackOnly, Onward, Cause, Stoppable

\* A step of the stacks alone keeps the invariant.
LEMMA StackOnlyInv ==
    ASSUME GroupInv, StackOnly, Rooted, Quiet, CallsNest', stack' \in [Threads -> Seq(Frames)]
    PROVE  GroupInv'
<1>0. GroupTypeOK /\ RuntimesAgree /\ GroupAgrees
  BY GroupInvParts
<1>1. Aside
  BY <1>0, StackOnlyOnward, Unchanges DEF StackOnly, Aside, GroupTypeOK
<1>2. RuntimesAgree'
  BY <1>0, StackOnlyOnward, Unchanges, RuntimesKept DEF StackOnly
<1>3. GroupTypeOK'
  BY <1>0, Unchanges DEF StackOnly, GroupTypeOK
<1>4. (member_stopped' => independent' # {}) /\ (stopping' => stopping)
  BY <1>0, Unchanges DEF StackOnly, GroupAgrees
<1>5. chain' = chain /\ notifying' = notifying /\ notifications' = notifications
  BY Unchanges DEF StackOnly
<1> QED
  BY <1>1, <1>2, <1>3, <1>4, <1>5, AsideQuiet

\* The serve callback throws.
LEMMA ServeThrowsInv ==
    ASSUME GroupInv, NEW t \in Threads, ServeThrows(t)
    PROVE  GroupInv' /\ Closing
<1>0. GroupTypeOK /\ CallsNest
  BY GroupInvParts
<1>1. PICK B, k, g : /\ Topped(t, B, k, g) /\ g \in Frames /\ g = Top(t) /\ g.at = "serve" /\ Sound(t, g)
  BY <1>0, TopAt DEF ServeThrows
<1>2. g.m \in Runtimes /\ g.kind \notin {"group", "member", "last"}
  BY <1>1 DEF Sound
<1>3. PICK f \in Failures : Become(t, <<Recording(g.m, "fail", f, FALSE)>>)
  BY <1>1 DEF ServeThrows, Mine
<1>4. StackOnly
  BY <1>0, EventTypes DEF ServeThrows, StackOnly
<1>5. Onward
  BY <1>4, StackOnlyOnward
<1>6. PICK c : c = Frame("record", "fail", g.m)
  OBVIOUS
<1>7. PICK a : a = [c EXCEPT !.f = f, !.flag = FALSE]
  OBVIOUS
<1>8. a \in Frames /\ a.at = "record" /\ a.kind = "fail" /\ a.m = g.m /\ ~a.flag /\ a.f = f
  <2>1. c \in Frames /\ c.at = "record" /\ c.kind = "fail" /\ c.m = g.m
    BY <1>2, <1>6, NewFrame DEF Labels, Kinds
  <2>2. a \in Frames
    BY <1>7, <2>1 DEF Frames
  <2>3. a.at = c.at /\ a.kind = c.kind /\ a.m = c.m /\ ~a.flag /\ a.f = f
    BY <1>7, <2>1 DEF Frames
  <2> QED
    BY <2>1, <2>2, <2>3
<1>9. Become(t, <<a>>)
  BY <1>3, <1>6, <1>7 DEF Recording
<1>10. Sound(t, a)' /\ Ready(a)' /\ ~Counts(a)
  BY <1>2, <1>8, RecordSound
<1>11. Passes(g, a)
  BY <1>1, <1>2, <1>8 DEF Passes
<1>12. Stacked(t, k, g, a, GroupStop) /\ Closing
  BY <1>0, <1>1, <1>5, <1>8, <1>9, <1>10, <1>11, StackedOne
<1>13. CallsNest' /\ Rooted /\ Quiet /\ stack' \in [Threads -> Seq(Frames)]
  BY <1>1, <1>10, <1>12, GroupStopSound DEF Stacked, Counts, Winning, Hooking, Notifying
<1> QED
  BY <1>4, <1>12, <1>13, StackOnlyInv

-----------------------------------------------------------------------------
(* join() of a runtime                                                      *)

\* A step of a runtime's join.
Joins ==
    /\ UNCHANGED <<lifecycle, rt_dispatching, phases, failed, binding, worker, group, stage, history>>
    /\ rt_joining' \subseteq Runtimes /\ rt_joined \subseteq rt_joined' /\ rt_joined' \subseteq Runtimes
    /\ events' \in 0..MaxEvents /\ owner' \in [Runtimes -> {"none", "running", "done"}]
    /\ \A m \in Runtimes : owner[m] # "none" => owner'[m] = owner[m]
    /\ \A m \in Runtimes : owner[m] = "none" => owner'[m] \in {"none", "running"}
    /\ \A m \in rt_joined' \ rt_joined : owner[m] = "done" /\ m \notin rt_dispatching

\* A step of a join takes nothing back.
LEMMA JoinsOnward ==
    ASSUME Joins
    PROVE  Onward
BY Unchanges DEF Joins, Onward, Cause, Stoppable

\* A step of a join keeps the invariant.
LEMMA JoinsInv ==
    ASSUME GroupInv, Joins, Rooted, Quiet, CallsNest', stack' \in [Threads -> Seq(Frames)]
    PROVE  GroupInv'
<1>0. GroupTypeOK /\ RuntimesAgree /\ GroupAgrees
  BY GroupInvParts
<1>1. Aside
  BY <1>0, JoinsOnward, Unchanges DEF Joins, Aside, GroupTypeOK
<1>2. RuntimesAgree'
  <2>1. UNCHANGED <<lifecycle, ready, serving, independent, stopping, control, accepting, notifying, chain,
                    rt_dispatching>>
    BY Unchanges DEF Joins
  <2>2. ASSUME NEW m \in Runtimes
        PROVE  RuntimeAgrees(m)'
    <3>1. RuntimeAgrees(m) /\ (stack[m] = << >> => stack'[m] = << >>)
      BY <1>0, RuntimesAre DEF Rooted
    <3>2. /\ owner'[m] = "done" <=> owner[m] = "done"
          /\ owner'[m] # "running" => owner[m] # "running"
      BY <1>0 DEF Joins, GroupTypeOK
    <3>3. m \in rt_joined' => owner[m] = "done" /\ m \notin rt_dispatching
      BY <3>1 DEF Joins, RuntimeAgrees
    <3> QED
      BY <2>1, <3>1, <3>2, <3>3 DEF RuntimeAgrees, Stoppable
  <2> QED
    BY <2>2, RuntimesAre
<1>3. GroupTypeOK'
  BY <1>0, Unchanges DEF Joins, GroupTypeOK
<1>4. (member_stopped' => independent' # {}) /\ (stopping' => stopping)
  BY <1>0, Unchanges DEF Joins, GroupAgrees
<1>5. chain' = chain /\ notifying' = notifying /\ notifications' = notifications
  BY Unchanges DEF Joins
<1> QED
  BY <1>1, <1>2, <1>3, <1>4, <1>5, AsideQuiet

\* join() of a runtime waits for its owner thread.
LEMMA JoinThreadInv ==
    ASSUME GroupInv, NEW t \in Threads, JoinThread(t)
    PROVE  GroupInv' /\ Closing
<1>0. GroupTypeOK /\ CallsNest
  BY GroupInvParts
<1>1. PICK B, k, g : /\ Topped(t, B, k, g) /\ g \in Frames /\ g = Top(t) /\ g.at = "join_thread" /\ Sound(t, g)
  BY <1>0, TopAt DEF JoinThread
<1>2. g.m \in Runtimes /\ g.kind \notin {"group", "member", "last"} /\ g.m \notin rt_dispatching
  BY <1>1 DEF Sound
<1>3. /\ UNCHANGED <<lifecycle, rt_dispatching, phases, failed, binding, owner, worker, group, stage, events, history>>
      /\ owner[g.m] = "done" /\ rt_joining' = rt_joining \ {g.m} /\ rt_joined' = rt_joined \cup {g.m}
      /\ Become(t, << >>)
  BY <1>1 DEF JoinThread, Return, Mine
<1>4. Joins
  BY <1>0, <1>2, <1>3 DEF Joins, GroupTypeOK
<1>5. Onward
  BY <1>4, JoinsOnward
<1>6. Leaves(g)
  BY <1>1, <1>2, <1>3 DEF Leaves
<1>7. Stacked(t, k, g, GroupStop, GroupStop) /\ Closing
  BY <1>0, <1>1, <1>2, <1>3, <1>5, <1>6, StackedReturn
<1>8. CallsNest' /\ Rooted /\ Quiet /\ stack' \in [Threads -> Seq(Frames)]
  BY <1>1, <1>7, GroupStopSound DEF Stacked, Counts, Winning, Hooking, Notifying
<1> QED
  BY <1>4, <1>7, <1>8, JoinsInv

\* join() of a runtime begins when nobody else joins and its stop is dispatched.
LEMMA JoinBeginInv ==
    ASSUME GroupInv, NEW t \in Threads, JoinBegin(t)
    PROVE  GroupInv' /\ Closing
<1>0. GroupTypeOK /\ CallsNest
  BY GroupInvParts
<1>1. PICK B, k, g : /\ Topped(t, B, k, g) /\ g \in Frames /\ g = Top(t) /\ g.at = "join_wait"
                     /\ Sound(t, g) /\ Ready(g)
  BY <1>0, TopAt DEF JoinBegin
<1>2. /\ g.m \in Runtimes /\ g.kind \notin {"group", "member", "last"}
      /\ ~Stoppable(g.m) /\ g.m \notin rt_dispatching
  BY <1>1 DEF Sound, Ready, JoinBegin, JoinReady, Mine
<1>3. /\ UNCHANGED <<lifecycle, rt_dispatching, phases, failed, rt_joined, binding, worker, group, stage, history>>
      /\ \/ /\ g.m \in rt_joined
            /\ Return(t) /\ UNCHANGED <<rt_joining, owner, events>>
         \/ /\ g.m \notin rt_joined
            /\ rt_joining' = rt_joining \cup {g.m}
            /\ owner' = [owner EXCEPT ![g.m] = IF @ = "none" THEN "running" ELSE @]
            /\ \/ Goto(t, "join_thread") /\ UNCHANGED events
               \/ /\ owner[g.m] = "none" /\ Event
                  /\ \E f \in Failures : CallThen(t, Recording(g.m, "join", f, FALSE), "join_thread")
  BY <1>1 DEF JoinBegin, Mine
<1>4. Joins
  <2>1. rt_joining' \subseteq Runtimes /\ events' \in 0..MaxEvents
    BY <1>0, <1>2, <1>3, EventTypes DEF GroupTypeOK
  <2>2. /\ owner' \in [Runtimes -> {"none", "running", "done"}]
        /\ \A m \in Runtimes : owner[m] # "none" => owner'[m] = owner[m]
        /\ \A m \in Runtimes : owner[m] = "none" => owner'[m] \in {"none", "running"}
    BY <1>0, <1>2, <1>3 DEF GroupTypeOK
  <2> QED
    BY <2>1, <2>2, <1>0, <1>3 DEF Joins, GroupTypeOK
<1>5. Onward
  BY <1>4, JoinsOnward
<1>6. ~Counts(GroupStop) /\ ~Counts(g)
  BY <1>1, GroupStopSound DEF Counts, Winning, Hooking, Notifying
<1>7. CASE g.m \in rt_joined
  <2>1. Become(t, << >>) /\ rt_joined' = rt_joined
    BY <1>3, <1>7 DEF Return
  <2>2. Leaves(g)
    BY <2>1, <1>1, <1>2, <1>7 DEF Leaves
  <2>3. Stacked(t, k, g, GroupStop, GroupStop) /\ Closing
    BY <2>1, <2>2, <1>0, <1>1, <1>2, <1>5, StackedReturn
  <2>4. CallsNest' /\ Rooted /\ Quiet /\ stack' \in [Threads -> Seq(Frames)]
    BY <2>3, <1>6 DEF Stacked
  <2> QED
    BY <2>3, <2>4, <1>4, JoinsInv
<1>8. CASE g.m \notin rt_joined
  <2>1. PICK a : a = [g EXCEPT !.at = "join_thread"]
    OBVIOUS
  <2>2. a \in Frames
    BY <1>1, <2>1 DEF Frames, Labels
  <2>3. a.at = "join_thread" /\ a.kind = g.kind /\ a.m = g.m /\ a.i = g.i
    BY <1>1, <2>1 DEF Frames
  <2>4. Sound(t, a)' /\ Ready(a)' /\ Passes(g, a) /\ ~Counts(a)
    <3>1. ~Stoppable(g.m)' /\ rt_dispatching' = rt_dispatching
      BY <1>2, <1>3, <1>5 DEF Onward
    <3> QED
      BY <3>1, <2>3, <1>1, <1>2 DEF Sound, Ready, Passes, Counts, Winning, Hooking, Notifying
  <2>5. CASE Become(t, <<a>>)
    <3>1. Stacked(t, k, g, a, GroupStop) /\ Closing
      BY <2>2, <2>4, <2>5, <1>0, <1>1, <1>5, StackedOne
    <3>2. CallsNest' /\ Rooted /\ Quiet /\ stack' \in [Threads -> Seq(Frames)]
      BY <2>4, <3>1, <1>6 DEF Stacked
    <3> QED
      BY <3>1, <3>2, <1>4, JoinsInv
  <2>6. CASE ~Become(t, <<a>>)
    <3>1. PICK f \in Failures : CallThen(t, Recording(g.m, "join", f, FALSE), "join_thread")
      BY <1>1, <1>3, <1>8, <2>1, <2>6 DEF Goto
    <3>2. PICK c : c = Frame("record", "join", g.m)
      OBVIOUS
    <3>3. PICK b : b = [c EXCEPT !.f = f, !.flag = FALSE]
      OBVIOUS
    <3>4. b \in Frames /\ b.at = "record" /\ b.kind = "join" /\ b.m = g.m /\ ~b.flag /\ b.f = f
      <4>1. c \in Frames /\ c.at = "record" /\ c.kind = "join" /\ c.m = g.m
        BY <1>2, <3>2, NewFrame DEF Labels, Kinds
      <4>2. b \in Frames
        BY <3>3, <4>1 DEF Frames
      <4>3. b.at = c.at /\ b.kind = c.kind /\ b.m = c.m /\ ~b.flag /\ b.f = f
        BY <3>3, <4>1 DEF Frames
      <4> QED
        BY <4>1, <4>2, <4>3
    <3>5. Become(t, <<a, b>>)
      BY <1>1, <2>1, <3>1, <3>2, <3>3 DEF CallThen, Recording
    <3>6. Sound(t, b)' /\ Ready(b)' /\ ~Counts(b)
      BY <1>2, <3>4, RecordSound
    <3>7. Above(a, b)'
      BY <2>3, <2>4, <3>4 DEF Above
    <3>8. Stacked(t, k, g, a, b) /\ Closing
      BY <1>0, <1>1, <1>5, <2>2, <2>4, <3>4, <3>5, <3>6, <3>7, StackedTwo
    <3>9. CallsNest' /\ Rooted /\ Quiet /\ stack' \in [Threads -> Seq(Frames)]
      BY <2>4, <3>6, <3>8, <1>6 DEF Stacked
    <3> QED
      BY <3>8, <3>9, <1>4, JoinsInv
  <2> QED
    BY <2>5, <2>6
<1> QED
  BY <1>7, <1>8

\* No step inside a call breaks the invariant.
LEMMA InsideInv ==
    ASSUME GroupInv, NEW t \in Threads, Inside(t) \/ HookReenters(t) \/ ServeThrows(t)
    PROVE  GroupInv' /\ Closing
<1>1. CASE GroupStopBegin(t)
  BY <1>1, GroupStopBeginInv
<1>2. CASE GroupStopEnds(t)
  BY <1>2, GroupStopEndsInv
<1>3. CASE MemberFailed(t)
  BY <1>3, MemberFailedInv
<1>4. CASE MemberStopping(t)
  BY <1>4, MemberStoppingInv
<1>5. CASE StopBegin(t)
  BY <1>5, StopBeginInv
<1>6. CASE NotifyStop(t)
  BY <1>6, NotifyStopInv
<1>7. CASE StopCloses(t)
  BY <1>7, StopClosesInv
<1>8. CASE HooksReturn(t)
  BY <1>8, HooksReturnInv
<1>9. CASE RequestChain(t)
  BY <1>9, RequestChainInv
<1>10. CASE StopDispatched(t)
  BY <1>10, StopDispatchedInv
<1>11. CASE Record(t)
  BY <1>11, RecordInv
<1>12. CASE NotifyFailure(t)
  BY <1>12, NotifyFailureInv
<1>13. CASE Crash(t)
  BY <1>13, CrashInv
<1>14. CASE ServeReturns(t)
  BY <1>14, ServeReturnsInv
<1>15. CASE JoinBegin(t)
  BY <1>15, JoinBeginInv
<1>16. CASE JoinThread(t)
  BY <1>16, JoinThreadInv
<1>17. CASE HookReenters(t)
  BY <1>17, HookReentersInv
<1>18. CASE ServeThrows(t)
  BY <1>18, ServeThrowsInv
<1> QED
  BY <1>1, <1>2, <1>3, <1>4, <1>5, <1>6, <1>7, <1>8, <1>9, <1>10, <1>11, <1>12, <1>13, <1>14, <1>15, <1>16,
     <1>17, <1>18 DEF Inside

-----------------------------------------------------------------------------
(* The owner threads and the other thread                                   *)

\* The lifecycle thread, the other thread and the owners are distinct.
LEMMA ThreadsAre ==
    /\ Lifecycle \in Threads /\ Other \in Threads /\ Runtimes \subseteq Threads
    /\ Lifecycle # Other /\ Lifecycle \notin Runtimes /\ Other \notin Runtimes
BY GroupAssumption DEF Threads

\* A step that leaves the stacks alone.
LEMMA StillNests ==
    ASSUME GroupTypeOK, CallsNest, Onward, stack' = stack
    PROVE  CallsNest' /\ stack' \in [Threads -> Seq(Frames)] /\ Rooted /\ Quiet /\ Closing
<1>1. ASSUME NEW t \in Threads
      PROVE  Nested(t, stack[t])' /\ (stack'[t] # << >> => OnTop(Top(t))')
  <2>1. PICK S \in Seq(Frames) : S = stack[t]
    BY DEF GroupTypeOK
  <2>2. Nested(t, S)
    BY <2>1 DEF CallsNest
  <2>3. Nested(t, S)'
    BY <2>2, NestedStays
  <2>4. ASSUME S # << >>
        PROVE  OnTop(Top(t))'
    <3>1. PICK B, k, g : Topped(t, B, k, g)
      BY <2>1, <2>4, Tops
    <3>2. g \in Frames /\ g = stack[t][Len(stack[t])] /\ Sound(t, g) /\ OnTop(g)
      BY <3>1 DEF Topped, Top
    <3>3. Ready(g)'
      BY <3>2, ReadyStays DEF OnTop
    <3>4. OnTop(g)'
      BY <3>2, <3>3 DEF OnTop, Looping
    <3>5. Top(t)' = g
      BY <3>2 DEF Top
    <3> QED
      BY <3>4, <3>5
  <2> QED
    BY <2>1, <2>3, <2>4
<1>2. CallsNest'
  BY <1>1 DEF CallsNest
<1> QED
  BY <1>2, StillRooted, QuietStill, ClosingStill DEF GroupTypeOK

\* An owner's or the other thread's call begins.
LEMMA BeganOne ==
    ASSUME GroupTypeOK, CallsNest, Onward, NEW t \in Threads, t # Lifecycle, NEW a \in Frames, Begin(t, <<a>>),
           a.at \notin {"group_members", "join_members"}, Sound(t, a)', Ready(a)', Bottom(t, a)', ~Counts(a)
    PROVE  /\ CallsNest' /\ stack' \in [Threads -> Seq(Frames)] /\ Quiet /\ Closing
           /\ \A u \in Threads \ {t} : stack'[u] = stack[u]
           /\ stack[t] = << >> /\ stack'[t] # << >> /\ stack'[t][1] = a
<1>1. CallsNest' /\ Turned(t, 1, a, GroupStop) /\ stack'[t] # << >> /\ Same(a, stack'[t][1]) /\ stack[t] = << >>
  BY BeginOne DEF Begin
<1>2. Quiet
  <2>1. Len(stack[t]) # 1 /\ ~Counts(GroupStop)
    BY <1>1, GroupStopSound
  <2> QED
    BY <2>1, <1>1, QuietTurn
<1>3. Closing
  BY <1>1, ClosingIdle
<1> QED
  BY <1>1, <1>2, <1>3 DEF Turned, Same

\* A thread other than the lifecycle thread begins a call and one inside it.
LEMMA BeganTwo ==
    ASSUME GroupTypeOK, CallsNest, Onward, NEW t \in Threads, t # Lifecycle, NEW a \in Frames, NEW b \in Frames,
           Begin(t, <<a, b>>), a.at \notin {"group_members", "join_members"},
           b.at \notin {"group_members", "join_members"},
           Sound(t, a)', Bottom(t, a)', Sound(t, b)', Above(a, b)', Ready(b)', ~Counts(a), ~Counts(b)
    PROVE  /\ CallsNest' /\ stack' \in [Threads -> Seq(Frames)] /\ Quiet /\ Closing
           /\ \A u \in Threads \ {t} : stack'[u] = stack[u]
           /\ stack[t] = << >> /\ stack'[t] # << >> /\ stack'[t][1] = a
<1>1. CallsNest' /\ Turned(t, 1, a, b) /\ stack'[t] # << >> /\ Same(a, stack'[t][1]) /\ stack[t] = << >>
  BY BeginTwo DEF Begin
<1>2. Quiet
  <2>1. Len(stack[t]) # 1
    BY <1>1
  <2> QED
    BY <2>1, <1>1, QuietTurn
<1>3. Closing
  BY <1>1, ClosingIdle
<1> QED
  BY <1>1, <1>2, <1>3 DEF Turned, Same

\* The lifecycle thread's calls stay, and the other thread does not call the group.
LEMMA BeganPlanted ==
    ASSUME GroupTypeOK, CallsNest, NEW t \in Threads, t # Lifecycle,
           \A u \in Threads \ {t} : stack'[u] = stack[u],
           t = Other => stack'[t][1].kind \notin {"group", "last"}
    PROVE  Planted
<1>1. stack'[Lifecycle] = stack[Lifecycle] /\ (t # Other => stack'[Other] = stack[Other])
  BY ThreadsAre
<1>2. stack[Lifecycle] # << >> => stack[Lifecycle][1].at \in LifecycleFrames
  BY ThreadsAre, OutermostSound DEF Bottom
<1> QED
  BY <1>1, <1>2 DEF Planted, Same

\* A call that begins and changes nothing else.
LEMMA BegunInv ==
    ASSUME GroupInv, StackOnly, Planted, Quiet, CallsNest', stack' \in [Threads -> Seq(Frames)],
           \A m \in Runtimes : owner[m] # "running" => stack'[m] = << >>
    PROVE  GroupInv'
<1>0. GroupTypeOK /\ RuntimesAgree /\ GroupAgrees
  BY GroupInvParts
<1>1. Aside
  BY <1>0, StackOnlyOnward, Unchanges DEF StackOnly, Aside, GroupTypeOK
<1>2. RuntimesAgree'
  BY <1>0, StackOnlyOnward, Unchanges, RuntimesStay DEF StackOnly
<1>3. GroupTypeOK'
  BY <1>0, Unchanges DEF StackOnly, GroupTypeOK
<1>4. (member_stopped' => independent' # {}) /\ (stopping' => stopping)
  BY <1>0, Unchanges DEF StackOnly, GroupAgrees
<1>5. chain' = chain /\ notifying' = notifying /\ notifications' = notifications
  BY Unchanges DEF StackOnly
<1> QED
  BY <1>1, <1>2, <1>3, <1>4, <1>5, AsidePlanted

\* A handler of an owner throws.
LEMMA OwnerThrowsInv ==
    ASSUME GroupInv, NEW m \in Runtimes, OwnerThrows(m)
    PROVE  GroupInv' /\ Closing
<1>0. GroupTypeOK /\ CallsNest /\ RuntimesAgree /\ m \in Threads /\ m # Lifecycle /\ m # Other
  BY GroupInvParts, ThreadsAre
<1>1. PICK f \in Failures : Begin(m, <<[Frame("crash", "fail", m) EXCEPT !.f = f]>>)
  BY DEF OwnerThrows
<1>2. PICK c : c = Frame("crash", "fail", m)
  OBVIOUS
<1>3. PICK a : a = [c EXCEPT !.f = f]
  OBVIOUS
<1>4. a \in Frames /\ a.at = "crash" /\ a.kind = "fail" /\ a.m = m /\ a.f = f
  <2>1. c \in Frames /\ c.at = "crash" /\ c.kind = "fail" /\ c.m = m
    BY <1>2, NewFrame DEF Labels, Kinds
  <2>2. a \in Frames
    BY <1>3, <2>1 DEF Frames
  <2>3. a.at = c.at /\ a.kind = c.kind /\ a.m = c.m /\ a.f = f
    BY <1>3, <2>1 DEF Frames
  <2> QED
    BY <2>1, <2>2, <2>3
<1>5. StackOnly /\ owner[m] = "running"
  BY <1>0, EventTypes DEF OwnerThrows, StackOnly
<1>6. Onward
  BY <1>5, StackOnlyOnward
<1>7. Begin(m, <<a>>)
  BY <1>1, <1>2, <1>3
<1>8. Sound(m, a)' /\ Ready(a)' /\ Bottom(m, a)' /\ ~Counts(a)
  BY <1>0, <1>4 DEF Sound, Ready, Bottom, Counts, Winning, Hooking, Notifying
<1>9. /\ CallsNest' /\ stack' \in [Threads -> Seq(Frames)] /\ Quiet /\ Closing
      /\ \A u \in Threads \ {m} : stack'[u] = stack[u]
  BY <1>0, <1>4, <1>6, <1>7, <1>8, BeganOne
<1>10. Planted
  BY <1>0, <1>9, BeganPlanted
<1>11. \A n \in Runtimes : owner[n] # "running" => stack'[n] = << >>
  BY <1>0, <1>5, <1>9, ThreadsAre DEF RuntimesAgree
<1> QED
  BY <1>5, <1>9, <1>10, <1>11, BegunInv

\* A call of the other thread that is not the group's own stop.
LEMMA OtherBegunInv ==
    ASSUME GroupInv, StackOnly, Quiet, CallsNest', stack' \in [Threads -> Seq(Frames)],
           \A u \in Threads \ {Other} : stack'[u] = stack[u], stack'[Other][1].kind \notin {"group", "last"}
    PROVE  GroupInv'
<1>0. GroupTypeOK /\ CallsNest /\ RuntimesAgree
  BY GroupInvParts
<1>1. Planted
  BY <1>0, ThreadsAre, BeganPlanted
<1>2. \A n \in Runtimes : owner[n] # "running" => stack'[n] = << >>
  BY <1>0, ThreadsAre DEF RuntimesAgree
<1> QED
  BY <1>1, <1>2, BegunInv

\* The other thread stops a member.
LEMMA OtherStopsInv ==
    ASSUME GroupInv, NEW m \in Runtimes, OtherStops(m)
    PROVE  GroupInv' /\ Closing
<1>0. GroupTypeOK /\ CallsNest /\ Other \in Threads /\ Other # Lifecycle
  BY GroupInvParts, ThreadsAre
<1>1. PICK a : a = RuntimeStop(m, "stop")
  OBVIOUS
<1>2. a \in Frames /\ a.at = "stop" /\ a.kind = "stop" /\ a.m = m /\ ~a.flag
  <2>1. "stop" \in Kinds
    BY DEF Kinds
  <2> QED
    BY <2>1, <1>1, NewStop
<1>3. StackOnly /\ Begin(Other, <<a>>)
  BY <1>0, <1>1, EventTypes DEF OtherStops, OtherCalls, StackOnly
<1>4. Onward
  BY <1>3, StackOnlyOnward
<1>5. Sound(Other, a)' /\ Ready(a)' /\ Bottom(Other, a)' /\ ~Counts(a)
  BY <1>0, <1>2 DEF Sound, Ready, Bottom, Counts, Winning, Hooking, Notifying
<1>6. /\ CallsNest' /\ stack' \in [Threads -> Seq(Frames)] /\ Quiet /\ Closing
      /\ (\A u \in Threads \ {Other} : stack'[u] = stack[u]) /\ stack'[Other][1] = a
  BY <1>0, <1>2, <1>3, <1>4, <1>5, BeganOne
<1> QED
  BY <1>2, <1>3, <1>6, OtherBegunInv

\* The other thread fails a member.
LEMMA OtherFailsInv ==
    ASSUME GroupInv, NEW m \in Runtimes, OtherFails(m)
    PROVE  GroupInv' /\ Closing
<1>0. GroupTypeOK /\ CallsNest /\ Other \in Threads /\ Other # Lifecycle
  BY GroupInvParts, ThreadsAre
<1>1. PICK f \in Failures : OtherCalls(<<Recording(m, "fail", f, FALSE)>>)
  BY DEF OtherFails
<1>2. PICK c : c = Frame("record", "fail", m)
  OBVIOUS
<1>3. PICK a : a = [c EXCEPT !.f = f, !.flag = FALSE]
  OBVIOUS
<1>4. a \in Frames /\ a.at = "record" /\ a.kind = "fail" /\ a.m = m /\ ~a.flag /\ a.f = f
  <2>1. c \in Frames /\ c.at = "record" /\ c.kind = "fail" /\ c.m = m
    BY <1>2, NewFrame DEF Labels, Kinds
  <2>2. a \in Frames
    BY <1>3, <2>1 DEF Frames
  <2>3. a.at = c.at /\ a.kind = c.kind /\ a.m = c.m /\ ~a.flag /\ a.f = f
    BY <1>3, <2>1 DEF Frames
  <2> QED
    BY <2>1, <2>2, <2>3
<1>5. StackOnly /\ Begin(Other, <<a>>)
  <2>1. OtherCalls(<<a>>)
    BY <1>1, <1>2, <1>3 DEF Recording
  <2> QED
    BY <2>1, <1>0, EventTypes DEF OtherFails, OtherCalls, StackOnly
<1>6. Onward
  BY <1>5, StackOnlyOnward
<1>7. Sound(Other, a)' /\ Ready(a)' /\ Bottom(Other, a)' /\ ~Counts(a)
  BY <1>0, <1>4, RecordSound DEF Bottom
<1>8. /\ CallsNest' /\ stack' \in [Threads -> Seq(Frames)] /\ Quiet /\ Closing
      /\ (\A u \in Threads \ {Other} : stack'[u] = stack[u]) /\ stack'[Other][1] = a
  BY <1>0, <1>4, <1>5, <1>6, <1>7, BeganOne
<1> QED
  BY <1>4, <1>5, <1>8, OtherBegunInv

\* The other thread joins a member, which stops it first.
LEMMA OtherJoinsInv ==
    ASSUME GroupInv, NEW m \in Runtimes, OtherJoins(m)
    PROVE  GroupInv' /\ Closing
<1>0. GroupTypeOK /\ CallsNest /\ Other \in Threads /\ Other # Lifecycle
  BY GroupInvParts, ThreadsAre
<1>1. PICK a, b : a = Frame("join_wait", "join", m) /\ b = RuntimeStop(m, "join")
  OBVIOUS
<1>2. a \in Frames /\ a.at = "join_wait" /\ a.kind = "join" /\ a.m = m
  BY <1>1, NewFrame DEF Labels, Kinds
<1>3. b \in Frames /\ b.at = "stop" /\ b.kind = "join" /\ b.m = m /\ ~b.flag
  <2>1. "join" \in Kinds
    BY DEF Kinds
  <2> QED
    BY <2>1, <1>1, NewStop
<1>4. StackOnly /\ Begin(Other, <<a, b>>)
  BY <1>0, <1>1, EventTypes DEF OtherJoins, OtherCalls, StackOnly
<1>5. Onward
  BY <1>4, StackOnlyOnward
<1>6. /\ Sound(Other, a)' /\ Bottom(Other, a)' /\ ~Counts(a)
      /\ Sound(Other, b)' /\ Ready(b)' /\ ~Counts(b)
  BY <1>0, <1>2, <1>3 DEF Sound, Ready, Bottom, Counts, Winning, Hooking, Notifying
<1>7. Above(a, b)'
  BY <1>2, <1>3 DEF Above, Owes
<1>8. /\ CallsNest' /\ stack' \in [Threads -> Seq(Frames)] /\ Quiet /\ Closing
      /\ (\A u \in Threads \ {Other} : stack'[u] = stack[u]) /\ stack'[Other][1] = a
  BY <1>0, <1>2, <1>3, <1>4, <1>5, <1>6, <1>7, BeganTwo
<1> QED
  BY <1>2, <1>4, <1>8, OtherBegunInv

\* The other thread stops the group.
LEMMA OtherStopsGroupInv ==
    ASSUME GroupInv, OtherStopsGroup
    PROVE  GroupInv' /\ Closing
<1>0. /\ GroupTypeOK /\ CallsNest /\ OneWinner /\ NotificationsCounted /\ LifecycleAgrees /\ RuntimesAgree /\ GroupAgrees
      /\ Other \in Threads /\ Other # Lifecycle /\ Lifecycle \in Threads
  BY GroupInvParts, ThreadsAre
<1>1. /\ UNCHANGED <<runtime, worker, group, stage, outcome, delivered, reported, independent>>
      /\ stage \notin {"joined", "destroyed"} /\ Begin(Other, <<GroupStop>>) /\ asked' = TRUE /\ Event
  BY DEF OtherStopsGroup, OtherCalls
<1>2. Onward /\ Cause'
  BY <1>1, Unchanges DEF Onward, Cause, Stoppable
<1>3. /\ GroupStop \in Frames /\ Sound(Other, GroupStop)' /\ Ready(GroupStop)' /\ ~Counts(GroupStop)
      /\ Bottom(Other, GroupStop)' /\ GroupStop.at = "group_stop"
  <2>1. GroupStop.at = "group_stop" /\ GroupStop \in Frames
    BY GroupStopFrame
  <2>2. Bottom(Other, GroupStop)'
    BY <1>0, <1>2, <2>1 DEF Bottom
  <2> QED
    BY <1>0, <2>1, <2>2, GroupStopSound
<1>4. /\ CallsNest' /\ stack' \in [Threads -> Seq(Frames)] /\ Quiet /\ Closing
      /\ \A u \in Threads \ {Other} : stack'[u] = stack[u]
  BY <1>0, <1>1, <1>2, <1>3, BeganOne
<1>5. stack'[Lifecycle] = stack[Lifecycle] /\ \A m \in Runtimes : stack'[m] = stack[m]
  BY <1>4, ThreadsAre
<1>6. OneWinner' /\ NotificationsCounted'
  BY <1>0, <1>1, <1>4, Unchanges, QuietWinner, QuietCount
<1>7. LifecycleAgrees'
  <2>1. Aside
    BY <1>0, <1>1, <1>2, Unchanges DEF Aside, GroupTypeOK
  <2>2. PICK f : f = stack[Lifecycle][1]
    OBVIOUS
  <2>3. stack'[Lifecycle][1] = f
    BY <1>5, <2>2
  <2>4. stack[Lifecycle] # << >> => (f.at \in PhaseFrames => PhaseSound(f)') /\ EndSound(f)'
    <3>1. stack[Lifecycle] # << >> => (f.at \in PhaseFrames => PhaseSound(f)) /\ EndSound(f)
      BY <1>0, <2>2 DEF LifecycleAgrees
    <3> QED
      BY <3>1, <2>1, PhaseStays, EndStays
  <2> QED
    BY <2>3, <2>4, <1>5 DEF LifecycleAgrees
<1>8. RuntimesAgree'
  <2>1. \A m \in Runtimes : owner[m] # "running" => stack'[m] = << >>
    BY <1>0, <1>5 DEF RuntimesAgree
  <2> QED
    BY <2>1, <1>0, <1>1, <1>2, Unchanges, RuntimesStay
<1>9. GroupAgrees'
  <2>1. stage' = stage /\ stage' \notin {"joined", "destroyed"}
    BY <1>1
  <2>2. member_stopped' => independent' # {}
    BY <1>0, <1>1, Unchanges DEF GroupAgrees
  <2>3. ~Gone'
    <3>1. Gone => stage \in {"joined", "destroyed"}
      BY <1>0 DEF Gone, LifecycleAgrees, EndSound
    <3>2. Gone' => Gone
      BY <2>1, <1>5 DEF Gone
    <3> QED
      BY <3>1, <3>2, <1>1
  <2>4. BeforeStart'
    <3>1. BeforeStart /\ lifecycle' = lifecycle
      BY <1>0, <1>1, Unchanges DEF GroupAgrees
    <3> QED
      BY <2>1, <3>1, <1>5 DEF BeforeStart
  <2> QED
    BY <2>1, <2>2, <2>3, <2>4, <1>2 DEF GroupAgrees
<1>10. GroupTypeOK'
  BY <1>0, <1>1, <1>4, EventTypes, Unchanges DEF GroupTypeOK
<1> QED
  BY <1>4, <1>6, <1>7, <1>8, <1>9, <1>10 DEF GroupInv

\* An owner reaches its ready phase.
LEMMA MarkReadyInv ==
    ASSUME GroupInv, NEW m \in Runtimes, MarkReady(m)
    PROVE  GroupInv' /\ Closing
<1>0. GroupTypeOK /\ CallsNest /\ RuntimesAgree /\ GroupAgrees
  BY GroupInvParts
<1>1. /\ UNCHANGED <<stack, lifecycle, rt_dispatching, serving, failed, joins, binding, owner, worker, group, stage,
                     events, history>>
      /\ ready' = [ready EXCEPT ![m] = "reached"] /\ ready[m] = "pending"
  BY DEF MarkReady
<1>2. Onward
  BY <1>1, Unchanges DEF Onward, Cause, Stoppable
<1>3. CallsNest' /\ stack' \in [Threads -> Seq(Frames)] /\ Rooted /\ Quiet /\ Closing
  BY <1>0, <1>1, <1>2, StillNests
<1>4. /\ ready' \in [Runtimes -> Phases]
      /\ \A n \in Runtimes : /\ ready[n] = "reached" => ready'[n] = "reached"
                             /\ ready'[n] = "pending" => ready[n] = "pending"
                             /\ ready'[n] = "aborted" => ready[n] = "aborted"
  BY <1>0, <1>1 DEF GroupTypeOK, Phases
<1>5. Aside
  BY <1>0, <1>1, <1>2, <1>4, Unchanges DEF Aside, GroupTypeOK
<1>6. RuntimesAgree'
  <2>1. /\ UNCHANGED <<stack, lifecycle, owner, rt_joined, independent, stopping, control, accepting, notifying, chain,
                       rt_dispatching, serving>>
    BY <1>1, Unchanges
  <2>2. ASSUME NEW n \in Runtimes
        PROVE  RuntimeAgrees(n)'
    <3>1. RuntimeAgrees(n)
      BY <1>0, RuntimesAre
    <3> QED
      BY <2>1, <3>1, <1>4 DEF RuntimeAgrees, Stoppable
  <2> QED
    BY <2>2, RuntimesAre
<1>7. GroupTypeOK'
  BY <1>0, <1>1, <1>3, <1>4, Unchanges DEF GroupTypeOK
<1>8. (member_stopped' => independent' # {}) /\ (stopping' => stopping)
  BY <1>0, <1>1, Unchanges DEF GroupAgrees
<1> QED
  BY <1>1, <1>3, <1>5, <1>6, <1>7, <1>8, Unchanges, AsideQuiet

\* An owner runs the serve control.
LEMMA ApplyServeInv ==
    ASSUME GroupInv, NEW m \in Runtimes, ApplyServe(m)
    PROVE  GroupInv' /\ Closing
<1>0. /\ GroupTypeOK /\ CallsNest /\ RuntimesAgree /\ GroupAgrees
      /\ m \in Threads /\ m # Lifecycle /\ m # Other
  BY GroupInvParts, ThreadsAre
<1>1. /\ UNCHANGED <<runtime, accepting, notifying, chain, group, stage, events, history>>
      /\ control' = control \ {m} /\ owner[m] = "running"
      /\ Begin(m, <<Frame("serve", "serve", m)>>) \/ stack' = stack
  BY DEF ApplyServe
<1>2. Onward
  BY <1>1, Unchanges DEF Onward, Cause, Stoppable
<1>3. /\ CallsNest' /\ stack' \in [Threads -> Seq(Frames)] /\ Planted /\ Quiet /\ Closing
      /\ \A u \in Threads \ {m} : stack'[u] = stack[u]
  <2>1. CASE stack' = stack
    <3>1. CallsNest' /\ stack' \in [Threads -> Seq(Frames)] /\ Rooted /\ Quiet /\ Closing
      BY <2>1, <1>0, <1>2, StillNests
    <3> QED
      BY <2>1, <3>1 DEF Rooted
  <2>2. CASE Begin(m, <<Frame("serve", "serve", m)>>)
    <3>1. PICK a : a = Frame("serve", "serve", m)
      OBVIOUS
    <3>2. a \in Frames /\ a.at = "serve" /\ a.kind = "serve" /\ a.m = m
      BY <3>1, NewFrame DEF Labels, Kinds
    <3>3. Sound(m, a)' /\ Ready(a)' /\ Bottom(m, a)' /\ ~Counts(a)
      BY <1>0, <3>2 DEF Sound, Ready, Bottom, Counts, Winning, Hooking, Notifying
    <3>4. Begin(m, <<a>>)
      BY <2>2, <3>1
    <3>5. /\ CallsNest' /\ stack' \in [Threads -> Seq(Frames)] /\ Quiet /\ Closing
          /\ \A u \in Threads \ {m} : stack'[u] = stack[u]
      BY <1>0, <1>2, <3>2, <3>3, <3>4, BeganOne
    <3>6. Planted
      BY <1>0, <3>5, BeganPlanted
    <3> QED
      BY <3>5, <3>6
  <2> QED
    BY <1>1, <2>1, <2>2
<1>4. Aside
  BY <1>0, <1>1, <1>2, Unchanges DEF Aside, GroupTypeOK
<1>5. RuntimesAgree'
  <2>1. /\ UNCHANGED <<lifecycle, owner, rt_joined, independent, stopping, accepting, notifying, chain,
                       rt_dispatching, serving, ready>>
    BY <1>1, Unchanges
  <2>2. ASSUME NEW n \in Runtimes
        PROVE  RuntimeAgrees(n)'
    <3>1. RuntimeAgrees(n)
      BY <1>0, RuntimesAre
    <3>2. owner[n] # "running" => stack'[n] = << >>
      BY <3>1, <1>1, <1>3, ThreadsAre DEF RuntimeAgrees
    <3>3. n \notin control => n \notin control'
      BY <1>1
    <3> QED
      BY <2>1, <3>1, <3>2, <3>3 DEF RuntimeAgrees, Stoppable
  <2> QED
    BY <2>2, RuntimesAre
<1>6. GroupTypeOK'
  <2>1. control' \subseteq Runtimes
    BY <1>0, <1>1 DEF GroupTypeOK
  <2> QED
    BY <2>1, <1>0, <1>1, <1>3, Unchanges DEF GroupTypeOK
<1>7. (member_stopped' => independent' # {}) /\ (stopping' => stopping)
  BY <1>0, <1>1, Unchanges DEF GroupAgrees
<1> QED
  BY <1>1, <1>3, <1>4, <1>5, <1>6, <1>7, Unchanges, AsidePlanted

\* An owner runs the stop control, which releases the work guard.
LEMMA ApplyStopInv ==
    ASSUME GroupInv, NEW m \in Runtimes, ApplyStop(m)
    PROVE  GroupInv' /\ Closing
<1>0. GroupTypeOK /\ CallsNest /\ RuntimesAgree /\ WinnersFine /\ HooksFine /\ NotificationsCounted
  BY GroupInvParts, OneWinnerParts
<1>1. /\ UNCHANGED <<stack, runtime, accepting, notifying, control, group, stage, events, history>>
      /\ chain' = [chain EXCEPT ![m] = "released"] /\ chain[m] = "requested" /\ m \notin notifying
      /\ owner[m] = "running"
  BY DEF ApplyStop
<1>2. Onward
  BY <1>1, Unchanges DEF Onward, Cause, Stoppable
<1>3. CallsNest' /\ stack' \in [Threads -> Seq(Frames)] /\ Rooted /\ Quiet /\ Closing
  BY <1>0, <1>1, <1>2, StillNests
<1>4. WinnersFine'
  <2>1. ASSUME NEW n \in Runtimes
        PROVE  /\ \A x, y \in Winners(n)' : x = y
               /\ \A x \in Winners(n)' : Called(x)'.at = "abort" \/ chain'[n] = "open"
    <3>1. Winners(n)' = Winners(n) /\ \A x \in Winners(n) : Called(x)' = Called(x)
      BY <1>3 DEF Quiet
    <3>2. chain[n] = "open" => chain'[n] = "open"
      BY <1>0, <1>1 DEF GroupTypeOK
    <3> QED
      BY <3>1, <3>2, <1>0 DEF WinnersFine
  <2> QED
    BY <2>1 DEF WinnersFine
<1>5. HooksFine' /\ NotificationsCounted'
  <2>1. notifying' = notifying /\ notifications' = notifications
    BY <1>1, Unchanges
  <2>2. HooksFine'
    BY <2>1, <1>0, <1>3 DEF HooksFine, Quiet
  <2> QED
    BY <2>1, <2>2, <1>0, <1>3, QuietCount
<1>6. Aside
  BY <1>0, <1>1, <1>2, Unchanges DEF Aside, GroupTypeOK
<1>7. RuntimesAgree'
  <2>1. /\ UNCHANGED <<stack, lifecycle, owner, rt_joined, independent, stopping, accepting, notifying, control,
                       rt_dispatching, serving, ready>>
    BY <1>1, Unchanges
  <2>2. ASSUME NEW n \in Runtimes
        PROVE  RuntimeAgrees(n)'
    <3>1. RuntimeAgrees(n)
      BY <1>0, RuntimesAre
    <3>2. (n = m => chain'[n] = "released") /\ (n # m => chain'[n] = chain[n])
      BY <1>0, <1>1 DEF GroupTypeOK
    <3> QED
      BY <2>1, <3>1, <3>2, <1>1 DEF RuntimeAgrees, Stoppable
  <2> QED
    BY <2>2, RuntimesAre
<1>8. GroupTypeOK'
  <2>1. chain' \in [Runtimes -> {"open", "requested", "released"}]
    BY <1>0, <1>1 DEF GroupTypeOK
  <2> QED
    BY <2>1, <1>0, <1>1, <1>3, Unchanges DEF GroupTypeOK
<1>9. member_stopped' = member_stopped /\ stopping' = stopping
  BY <1>1, Unchanges
<1> QED
  BY <1>3, <1>4, <1>5, <1>6, <1>7, <1>8, <1>9, AsideMarked

\* An owner's run() ends and the thread with it.
LEMMA RunEndsInv ==
    ASSUME GroupInv, NEW m \in Runtimes, RunEnds(m)
    PROVE  GroupInv' /\ Closing
<1>0. GroupTypeOK /\ CallsNest /\ RuntimesAgree /\ GroupAgrees
  BY GroupInvParts
<1>1. /\ UNCHANGED <<stack, rt_dispatching, failed, joins, binding, worker, group, stage, events, history>>
      /\ owner[m] = "running" /\ stack[m] = << >> /\ chain[m] = "released" /\ m \notin control
      /\ AbortPhases(m) /\ owner' = [owner EXCEPT ![m] = "done"]
      /\ lifecycle' = [lifecycle EXCEPT ![m] = "stopped"]
  BY DEF RunEnds
<1>2. \A n \in Runtimes : /\ n = m => lifecycle'[n] = "stopped" /\ owner'[n] = "done"
                          /\ n # m => lifecycle'[n] = lifecycle[n] /\ owner'[n] = owner[n]
  BY <1>0, <1>1 DEF GroupTypeOK
<1>3. Onward
  BY <1>1, <1>2, Unchanges DEF Onward, Cause, Stoppable
<1>4. CallsNest' /\ stack' \in [Threads -> Seq(Frames)] /\ Rooted /\ Quiet /\ Closing
  BY <1>0, <1>1, <1>3, StillNests
<1>5. /\ ready' \in [Runtimes -> Phases] /\ serving' \in [Runtimes -> Phases]
      /\ \A n \in Runtimes :
            /\ ready[n] = "reached" => ready'[n] = "reached"
            /\ serving[n] = "reached" => serving'[n] = "reached"
            /\ ready'[n] = "pending" => ready[n] = "pending"
            /\ serving'[n] = "pending" => serving[n] = "pending"
            /\ n # m => ready'[n] = ready[n] /\ serving'[n] = serving[n]
      /\ ready'[m] # "pending" /\ serving'[m] # "pending"
  BY <1>0, <1>1, PhasesAborted
<1>6. Aside
  <2>1. \A n \in Runtimes : lifecycle'[n] = "running" => lifecycle[n] = "running"
    BY <1>2
  <2> QED
    BY <2>1, <1>0, <1>1, <1>3, <1>5, Unchanges DEF Aside, GroupTypeOK
<1>7. RuntimesAgree'
  <2>1. /\ UNCHANGED <<stack, rt_joined, independent, stopping, accepting, notifying, control, rt_dispatching, chain>>
    BY <1>1, Unchanges
  <2>2. ASSUME NEW n \in Runtimes
        PROVE  RuntimeAgrees(n)'
    <3>1. RuntimeAgrees(n)
      BY <1>0, RuntimesAre
    <3>2. CASE n = m
      <4>1. lifecycle'[n] = "stopped" /\ owner'[n] = "done" /\ n \notin rt_joined /\ (stopping \/ independent # {})
            /\ n \notin accepting /\ n \notin notifying
        BY <3>1, <3>2, <1>1, <1>2 DEF RuntimeAgrees
      <4> QED
        BY <2>1, <3>2, <4>1, <1>1, <1>5 DEF RuntimeAgrees, Stoppable
    <3>3. CASE n # m
      BY <2>1, <3>1, <3>3, <1>2, <1>5 DEF RuntimeAgrees, Stoppable
    <3> QED
      BY <3>2, <3>3
  <2> QED
    BY <2>2, RuntimesAre
<1>8. GroupTypeOK'
  <2>1. /\ lifecycle' \in [Runtimes -> {"ready", "running", "stopping", "stopped"}]
        /\ owner' \in [Runtimes -> {"none", "running", "done"}]
    BY <1>0, <1>1 DEF GroupTypeOK
  <2> QED
    BY <2>1, <1>0, <1>1, <1>4, <1>5, Unchanges DEF GroupTypeOK
<1>9. (member_stopped' => independent' # {}) /\ (stopping' => stopping)
  BY <1>0, <1>1, Unchanges DEF GroupAgrees
<1> QED
  BY <1>1, <1>4, <1>6, <1>7, <1>8, <1>9, Unchanges, AsideQuiet

-----------------------------------------------------------------------------
(* The lifecycle thread                                                     *)

\* Its outermost call is g.
Foremost(g) ==
    /\ \E B, k : Topped(Lifecycle, B, k, g)
    /\ g \in Frames /\ g = Top(Lifecycle) /\ g.at \in LifecycleFrames
    /\ g.kind \notin {"group", "member", "last"}
    /\ Ready(g) /\ OnTop(g) /\ stack[Lifecycle] # << >> /\ stack[Lifecycle][1] = g
    /\ (g.at \in PhaseFrames => PhaseSound(g)) /\ EndSound(g)

\* A call of the lifecycle thread's own is its outermost and its only one.
LEMMA LifecycleTop ==
    ASSUME GroupInv, NEW t \in Threads, NEW l \in LifecycleFrames, At(t, l)
    PROVE  t = Lifecycle /\ \E g : Foremost(g) /\ g.at = l
<1>0. GroupTypeOK /\ CallsNest /\ LifecycleAgrees
  BY GroupInvParts
<1>1. PICK B, k, g : /\ Topped(t, B, k, g) /\ g \in Frames /\ g = Top(t) /\ g.at = l
                     /\ Sound(t, g) /\ Ready(g) /\ OnTop(g)
  BY <1>0, TopAt
<1>2. t = Lifecycle /\ k = 1
  BY <1>1, LifecycleOutermost
<1>3. stack[t] # << >> /\ stack[t][1] = g
  BY <1>1, <1>2 DEF Topped
<1>4. (g.at \in PhaseFrames => PhaseSound(g)) /\ EndSound(g)
  BY <1>0, <1>2, <1>3 DEF LifecycleAgrees
<1>5. g.kind \notin {"group", "member", "last"}
  BY <1>1 DEF Sound
<1>6. Foremost(g)
  BY <1>1, <1>2, <1>3, <1>4, <1>5 DEF Foremost
<1> QED
  BY <1>1, <1>2, <1>6

\* It goes on in frame a, or its call ends.
Goes(a) ==
    /\ CallsNest' /\ stack' \in [Threads -> Seq(Frames)] /\ Quiet /\ Closing
    /\ \A u \in Threads \ {Lifecycle} : stack'[u] = stack[u]
    /\ stack'[Lifecycle] # << >>
    /\ stack'[Lifecycle][1] = a \/ (a.at = "join_members" /\ stack'[Lifecycle][1].at = "join_members")
Ends ==
    /\ CallsNest' /\ stack' \in [Threads -> Seq(Frames)] /\ Quiet /\ Closing
    /\ \A u \in Threads \ {Lifecycle} : stack'[u] = stack[u]
    /\ stack'[Lifecycle] = << >>

\* What frame a must be.
Fits(a) ==
    /\ a \in Frames /\ a.at \in LifecycleFrames /\ a.kind \notin {"group", "member", "last"}
    /\ a.at = "join_members" => a.i # 0

\* A frame that fits is sound and counts for nothing.
LEMMA FitsSound ==
    ASSUME NEW a, Fits(a)
    PROVE  Sound(Lifecycle, a)' /\ ~Counts(a)
BY DEF Fits, Sound, Counts, Winning, Hooking, Notifying

\* The lifecycle thread's call goes on in another frame.
LEMMA GoesOne ==
    ASSUME GroupInv, Onward, NEW g, Foremost(g), NEW a, Fits(a), Ready(a)', Become(Lifecycle, <<a>>)
    PROVE  Goes(a)
<1>0. GroupTypeOK /\ CallsNest /\ Lifecycle \in Threads
  BY GroupInvParts, ThreadsAre
<1>1. PICK B, k : Topped(Lifecycle, B, k, g)
  BY DEF Foremost
<1>2. a \in Frames /\ Sound(Lifecycle, a)' /\ ~Counts(a) /\ ~Counts(g) /\ g.at \in LifecycleFrames
  BY FitsSound DEF Fits, Foremost, Counts, Winning, Hooking, Notifying
<1>3. /\ CallsNest' /\ Turned(Lifecycle, k, a, GroupStop) /\ Len(stack'[Lifecycle]) >= k
      /\ stack'[Lifecycle] # << >> /\ Same(a, stack'[Lifecycle][1])
  BY <1>0, <1>1, <1>2, LifecycleOne DEF Fits
<1>4. Quiet
  BY <1>0, <1>1, <1>2, <1>3, GroupStopSound, StackedQuiet
<1>5. Closing
  BY <1>0, <1>1, <1>3, ClosingTop
<1>6. Same(a, stack'[Lifecycle][1]) =>
        stack'[Lifecycle][1] = a \/ (a.at = "join_members" /\ stack'[Lifecycle][1].at = "join_members")
  BY DEF Same, Fits
<1> QED
  BY <1>3, <1>4, <1>5, <1>6 DEF Goes, Turned

\* The lifecycle thread's call makes a call.
LEMMA GoesTwo ==
    ASSUME GroupInv, Onward, NEW g, Foremost(g), NEW a, Fits(a), NEW b \in Frames, Sound(Lifecycle, b)', Above(a, b)',
           Ready(b)', ~Counts(b), Become(Lifecycle, <<a, b>>)
    PROVE  Goes(a)
<1>0. GroupTypeOK /\ CallsNest /\ Lifecycle \in Threads
  BY GroupInvParts, ThreadsAre
<1>1. PICK B, k : Topped(Lifecycle, B, k, g)
  BY DEF Foremost
<1>2. a \in Frames /\ Sound(Lifecycle, a)' /\ ~Counts(a) /\ ~Counts(g) /\ g.at \in LifecycleFrames
  BY FitsSound DEF Fits, Foremost, Counts, Winning, Hooking, Notifying
<1>3. /\ CallsNest' /\ Turned(Lifecycle, k, a, b) /\ Len(stack'[Lifecycle]) >= k
      /\ stack'[Lifecycle] # << >> /\ Same(a, stack'[Lifecycle][1])
  BY <1>0, <1>1, <1>2, LifecycleTwo DEF Fits
<1>4. Quiet
  BY <1>0, <1>1, <1>2, <1>3, StackedQuiet
<1>5. Closing
  BY <1>0, <1>1, <1>3, ClosingTop
<1>6. Same(a, stack'[Lifecycle][1]) =>
        stack'[Lifecycle][1] = a \/ (a.at = "join_members" /\ stack'[Lifecycle][1].at = "join_members")
  BY DEF Same, Fits
<1> QED
  BY <1>3, <1>4, <1>5, <1>6 DEF Goes, Turned

\* The lifecycle thread's call ends.
LEMMA EndsCall ==
    ASSUME GroupInv, Onward, NEW g, Foremost(g), Become(Lifecycle, << >>)
    PROVE  Ends
<1>0. GroupTypeOK /\ CallsNest /\ Lifecycle \in Threads
  BY GroupInvParts, ThreadsAre
<1>1. PICK B, k : Topped(Lifecycle, B, k, g)
  BY DEF Foremost
<1>2. ~Counts(g) /\ ~Counts(GroupStop) /\ g.at \in LifecycleFrames /\ g.kind \notin {"group", "last"}
  BY GroupStopSound, <1>0 DEF Foremost, Counts, Winning, Hooking, Notifying
<1>3. CallsNest' /\ Turned(Lifecycle, k, GroupStop, GroupStop) /\ stack'[Lifecycle] = << >>
  BY <1>0, <1>1, <1>2, LifecycleReturns
<1>4. Quiet
  BY <1>0, <1>1, <1>2, <1>3, StackedQuiet
<1>5. Closing
  BY <1>0, <1>1, <1>2, <1>3, ClosingTop
<1> QED
  BY <1>3, <1>4, <1>5 DEF Ends, Turned

\* A call of the lifecycle thread begins.
LEMMA GoesBegin ==
    ASSUME GroupInv, Onward, NEW a, Fits(a), a.at # "join_members", Ready(a)', Begin(Lifecycle, <<a>>)
    PROVE  Goes(a)
<1>0. GroupTypeOK /\ CallsNest /\ Lifecycle \in Threads
  BY GroupInvParts, ThreadsAre
<1>1. a \in Frames /\ Sound(Lifecycle, a)' /\ ~Counts(a) /\ Bottom(Lifecycle, a)'
        /\ a.at \notin {"group_members", "join_members"}
  BY FitsSound DEF Fits, Bottom
<1>2. /\ CallsNest' /\ Turned(Lifecycle, 1, a, GroupStop) /\ stack'[Lifecycle] # << >> /\ Same(a, stack'[Lifecycle][1])
      /\ stack[Lifecycle] = << >>
  BY <1>0, <1>1, BeginOne DEF Begin
<1>3. Quiet
  <2>1. Len(stack[Lifecycle]) # 1 /\ ~Counts(GroupStop)
    BY <1>0, <1>2, GroupStopSound
  <2> QED
    BY <2>1, <1>0, <1>1, <1>2, QuietTurn
<1>4. Closing
  BY <1>0, <1>2, ClosingIdle
<1> QED
  BY <1>1, <1>2, <1>3, <1>4 DEF Goes, Turned, Same

\* The lifecycle thread begins a call, and this one another.
LEMMA GoesBeginTwo ==
    ASSUME GroupInv, Onward, NEW a, Fits(a), a.at # "join_members", NEW b \in Frames, Sound(Lifecycle, b)', Above(a, b)',
           Ready(b)', ~Counts(b), b.at \notin {"group_members", "join_members"}, Begin(Lifecycle, <<a, b>>)
    PROVE  Goes(a)
<1>0. GroupTypeOK /\ CallsNest /\ Lifecycle \in Threads
  BY GroupInvParts, ThreadsAre
<1>1. a \in Frames /\ Sound(Lifecycle, a)' /\ ~Counts(a) /\ Bottom(Lifecycle, a)'
        /\ a.at \notin {"group_members", "join_members"}
  BY FitsSound DEF Fits, Bottom
<1>2. /\ CallsNest' /\ Turned(Lifecycle, 1, a, b) /\ stack'[Lifecycle] # << >> /\ Same(a, stack'[Lifecycle][1])
      /\ stack[Lifecycle] = << >>
  BY <1>0, <1>1, BeginTwo DEF Begin
<1>3. Quiet
  <2>1. Len(stack[Lifecycle]) # 1
    BY <1>2
  <2> QED
    BY <2>1, <1>0, <1>1, <1>2, QuietTurn
<1>4. Closing
  BY <1>0, <1>2, ClosingIdle
<1> QED
  BY <1>1, <1>2, <1>3, <1>4 DEF Goes, Turned, Same

\* A step of the lifecycle thread that touches no more than its books.
Tame ==
    /\ UNCHANGED <<lifecycle, rt_dispatching, phases, failure, joins, binding, owner, worker, group, independent>>
    /\ observed' \in [Runtimes -> BOOLEAN] /\ outcome' \in Failures \cup {"none", "true", "false", "stopped"}
    /\ delivered' \subseteq Failures /\ reported' \subseteq Failures /\ events' \in 0..MaxEvents
    /\ asked' \in BOOLEAN /\ (asked => asked')
    /\ stage' \in {"cold", "started", "serving", "over", "joined", "destroyed"}

\* A step of the books of the lifecycle thread takes nothing back.
LEMMA TameOnward ==
    ASSUME Tame
    PROVE  Onward
BY Unchanges DEF Tame, Onward, Cause, Stoppable

\* It keeps the types and the runtimes' part of the invariant.
LEMMA TameParts ==
    ASSUME GroupInv, Tame, stack' \in [Threads -> Seq(Frames)],
           \A u \in Threads \ {Lifecycle} : stack'[u] = stack[u]
    PROVE  GroupTypeOK' /\ RuntimesAgree'
<1>0. GroupTypeOK /\ RuntimesAgree
  BY GroupInvParts
<1>1. \A m \in Runtimes : owner[m] # "running" => stack'[m] = << >>
  BY <1>0, ThreadsAre DEF RuntimesAgree
<1>2. RuntimesAgree'
  BY <1>0, <1>1, TameOnward, Unchanges, RuntimesStay DEF Tame
<1> QED
  BY <1>0, <1>2, Unchanges DEF Tame, GroupTypeOK

\* The thread is in a phase call or in join().
LEMMA GoesInv ==
    ASSUME GroupInv, Onward, NEW a, Goes(a), a.at \in PhaseFrames \cup JoinFrames, GroupTypeOK', RuntimesAgree',
           UNCHANGED group, independent' = independent, chain' = chain, notifying' = notifying,
           notifications' = notifications, stage' = stage, stage \notin {"joined", "destroyed"},
           GivenUp => stage = "over" \/ a.at \in {"settling", "verdict"} \cup JoinFrames,
           a.at \in PhaseFrames => PhaseSound(a)', EndSound(a)'
    PROVE  GroupInv'
<1>0. OneWinner /\ NotificationsCounted /\ GroupAgrees
  BY GroupInvParts
<1>1. OneWinner' /\ NotificationsCounted'
  BY <1>0, QuietWinner, QuietCount DEF Goes
<1>2. PICK h : h = stack'[Lifecycle][1]
  OBVIOUS
<1>3. h = a \/ (a.at = "join_members" /\ h.at = "join_members")
  BY <1>2 DEF Goes
<1>4. (h.at \in PhaseFrames => PhaseSound(h)') /\ EndSound(h)'
  BY <1>3 DEF EndSound
<1>5. LifecycleAgrees'
  BY <1>2, <1>4 DEF LifecycleAgrees
<1>6. GroupAgrees'
  <2>1. h.at = a.at
    BY <1>3
  <2>2. ~Gone'
    BY <1>2, <2>1 DEF Gone
  <2>3. GivenUp => GivenUp'
    BY <1>2, <2>1 DEF GivenUp, Goes
  <2>4. (member_stopped' => independent' # {}) /\ (stopping' => Cause' \/ GivenUp')
    BY <1>0, <2>3, Unchanges DEF GroupAgrees, Onward
  <2>5. BeforeStart'
    BY DEF BeforeStart, Goes
  <2> QED
    BY <2>2, <2>4, <2>5 DEF GroupAgrees
<1> QED
  BY <1>1, <1>5, <1>6 DEF GroupInv, Goes

\* The phase call has ended.
LEMMA EndsInv ==
    ASSUME GroupInv, Onward, Ends, GroupTypeOK', RuntimesAgree', UNCHANGED group, independent' = independent,
           chain' = chain, notifying' = notifying, notifications' = notifications,
           stage' \in {"started", "serving", "over"}, stage' = "over" \/ ~stopping
    PROVE  GroupInv'
<1>0. OneWinner /\ NotificationsCounted /\ GroupAgrees
  BY GroupInvParts
<1>1. OneWinner' /\ NotificationsCounted'
  BY <1>0, QuietWinner, QuietCount DEF Ends
<1>2. LifecycleAgrees'
  BY DEF Ends, LifecycleAgrees
<1>3. GroupAgrees'
  <2>1. ~Gone'
    BY DEF Gone, Ends
  <2>2. (member_stopped' => independent' # {}) /\ (stopping' => GivenUp')
    BY <1>0, Unchanges DEF GroupAgrees, GivenUp
  <2>3. BeforeStart'
    BY DEF BeforeStart
  <2> QED
    BY <2>1, <2>2, <2>3 DEF GroupAgrees
<1> QED
  BY <1>1, <1>2, <1>3 DEF GroupInv, Ends

\* A tame step within the phase calls or join().
LEMMA TameGoes ==
    ASSUME GroupInv, Tame, stage' = stage, NEW a, Goes(a), a.at \in PhaseFrames \cup JoinFrames,
           stage \notin {"joined", "destroyed"},
           GivenUp => stage = "over" \/ a.at \in {"settling", "verdict"} \cup JoinFrames,
           a.at \in PhaseFrames => PhaseSound(a), EndSound(a)
    PROVE  GroupInv'
<1>0. GroupTypeOK /\ RuntimesAgree
  BY GroupInvParts
<1>1. Onward
  BY TameOnward
<1>2. Aside
  BY <1>0, <1>1, Unchanges DEF Tame, Aside, GroupTypeOK
<1>3. (a.at \in PhaseFrames => PhaseSound(a)') /\ EndSound(a)'
  BY <1>2, PhaseStays, EndStays
<1>4. GroupTypeOK' /\ RuntimesAgree'
  BY TameParts DEF Goes
<1>5. /\ UNCHANGED group /\ independent' = independent /\ chain' = chain /\ notifying' = notifying
      /\ notifications' = notifications
  BY Unchanges DEF Tame
<1> QED
  BY <1>1, <1>3, <1>4, <1>5, GoesInv

\* A phase call that ends keeps the invariant.
LEMMA TameEnds ==
    ASSUME GroupInv, Tame, Ends, stage' \in {"started", "serving", "over"}, stage' = "over" \/ ~stopping
    PROVE  GroupInv'
<1>1. GroupTypeOK' /\ RuntimesAgree'
  BY TameParts DEF Ends
<1>2. /\ UNCHANGED group /\ independent' = independent /\ chain' = chain /\ notifying' = notifying
      /\ notifications' = notifications
  BY Unchanges DEF Tame
<1> QED
  BY <1>1, <1>2, TameOnward, EndsInv

\* Nothing but the stack and the events moves.
LEMMA Resting ==
    ASSUME UNCHANGED <<runtime, worker, group>>
    PROVE  UNCHANGED <<lifecycle, rt_dispatching, phases, failure, observed, joins, binding, owner, worker, group>>
BY DEF runtime, phases, failed, joins, binding

\* A step that leaves the rest alone is one of the books.
LEMMA Idle ==
    ASSUME GroupInv, UNCHANGED <<runtime, worker, group, stage, history>>, events' \in 0..MaxEvents
    PROVE  Tame /\ stage' = stage
<1>0. GroupTypeOK
  BY GroupInvParts
<1>1. /\ UNCHANGED <<lifecycle, rt_dispatching, phases, failure, observed, joins, binding, owner, worker, group>>
      /\ outcome' = outcome /\ delivered' = delivered /\ reported' = reported
      /\ independent' = independent /\ asked' = asked /\ stage' = stage
  BY Resting, Unchanges
<1> QED
  BY <1>0, <1>1 DEF Tame, GroupTypeOK

-----------------------------------------------------------------------------
(* start() and serve() of the group                                         *)

\* In a phase call it is before the group's first service.
LEMMA PhaseStage ==
    ASSUME NEW g, Foremost(g), g.at \in PhaseFrames
    PROVE  /\ stage \in {"cold", "started"} /\ PhaseSound(g) /\ g.kind \in {"start", "launch", "serve"}
           /\ GivenUp => g.at \in {"settling", "verdict"}
<1>1. PhaseSound(g) /\ stack[Lifecycle][1] = g
  BY DEF Foremost
<1> QED
  BY <1>1 DEF PhaseSound, GivenUp

\* A tame step from one place of a phase call to another.
LEMMA PhaseGoes ==
    ASSUME GroupInv, Tame, stage' = stage, NEW g, Foremost(g), g.at \in PhaseFrames,
           NEW a \in Frames, a.at \in PhaseFrames, PhaseSound(a),
           g.at \in {"settling", "verdict"} => a.at \in {"settling", "verdict"}, Become(Lifecycle, <<a>>)
    PROVE  GroupInv' /\ Closing
<1>1. stage \in {"cold", "started"} /\ (GivenUp => g.at \in {"settling", "verdict"})
  BY PhaseStage
<1>2. Fits(a) /\ Ready(a)' /\ EndSound(a)
  BY DEF Fits, Ready, EndSound, PhaseSound
<1>3. Goes(a)
  BY <1>2, TameOnward, GoesOne
<1>4. GroupInv'
  BY <1>1, <1>2, <1>3, TameGoes
<1> QED
  BY <1>3, <1>4 DEF Goes

\* The same with a call of frame b.
LEMMA PhaseCalls ==
    ASSUME GroupInv, Tame, stage' = stage, NEW g, Foremost(g), g.at \in PhaseFrames,
           NEW a \in Frames, a.at \in {"settling", "verdict"}, PhaseSound(a),
           NEW b \in Frames, Sound(Lifecycle, b)', Above(a, b)', Ready(b)', ~Counts(b), Become(Lifecycle, <<a, b>>)
    PROVE  GroupInv' /\ Closing
<1>1. stage \in {"cold", "started"} /\ (GivenUp => g.at \in {"settling", "verdict"})
  BY PhaseStage
<1>2. Fits(a) /\ EndSound(a)
  BY DEF Fits, EndSound, PhaseSound
<1>3. Goes(a)
  BY <1>2, TameOnward, GoesTwo
<1>4. GroupInv'
  BY <1>1, <1>2, <1>3, TameGoes
<1> QED
  BY <1>3, <1>4 DEF Goes

\* start() or serve() ends with result r.
LEMMA PhaseEndsInv ==
    ASSUME GroupInv, NEW g, Foremost(g), g.at \in PhaseFrames,
           NEW r \in Failures \cup {"none", "true", "false", "stopped"}, PhaseEnds(r), r = "true" => ~stopping,
           UNCHANGED <<lifecycle, rt_dispatching, phases, failure, joins, binding, owner, worker, group, events>>,
           observed' \in [Runtimes -> BOOLEAN]
    PROVE  GroupInv' /\ Closing
<1>0. GroupTypeOK
  BY GroupInvParts
<1>1. /\ Become(Lifecycle, << >>) /\ outcome' = r /\ delivered' = delivered \cup ({r} \cap Failures)
      /\ stage' = IF r # "true" THEN "over" ELSE IF stage = "cold" THEN "started" ELSE "serving"
      /\ reported' = reported /\ independent' = independent /\ asked' = asked
  BY DEF PhaseEnds, Return
<1>2. stage' \in {"started", "serving", "over"} /\ (stage' = "over" \/ ~stopping)
  BY <1>1
<1>3. Tame
  BY <1>0, <1>1, <1>2 DEF Tame, GroupTypeOK
<1>4. Ends
  BY <1>1, <1>3, TameOnward, EndsCall
<1>5. GroupInv'
  BY <1>2, <1>3, <1>4, TameEnds
<1> QED
  BY <1>4, <1>5 DEF Ends

\* start() cannot launch any more and goes to wait or give up.
LEMMA NotLaunchedInv ==
    ASSUME GroupInv, NEW g, Foremost(g), g.at \in {"launch", "member_start"}, NotLaunched(Lifecycle),
           UNCHANGED <<runtime, worker, group, events>>, stopping \/ independent # {}
    PROVE  GroupInv' /\ Closing
<1>0. GroupTypeOK /\ g \in Frames /\ g = Top(Lifecycle) /\ PhaseSound(g)
  BY GroupInvParts, PhaseStage DEF Foremost
<1>1. CASE Phase(Lifecycle) = "start"
  <2>1. Settle(Lifecycle, FALSE) /\ UNCHANGED <<stage, history>>
    BY <1>1 DEF NotLaunched
  <2>2. PICK a : a = [g EXCEPT !.at = "settle", !.flag = FALSE]
    OBVIOUS
  <2>3. a \in Frames
    BY <1>0, <2>2 DEF Frames, Labels
  <2>4. a.at = "settle" /\ a.kind = g.kind /\ ~a.flag /\ a.i = g.i /\ a.f = g.f /\ g.kind = "start"
    BY <1>0, <1>1, <2>2 DEF Frames, Phase
  <2>5. PhaseSound(a)
    BY <1>0, <2>4 DEF PhaseSound
  <2>6. Become(Lifecycle, <<a>>)
    BY <1>0, <2>1, <2>2 DEF Settle
  <2>7. Tame /\ stage' = stage
    <3>1. events' \in 0..MaxEvents
      BY <1>0 DEF GroupTypeOK
    <3> QED
      BY <2>1, <3>1, Idle
  <2> QED
    BY <2>3, <2>4, <2>5, <2>6, <2>7, PhaseGoes
<1>2. CASE Phase(Lifecycle) # "start"
  <2>1. PhaseEnds("none")
    BY <1>2 DEF NotLaunched
  <2>2. UNCHANGED <<lifecycle, rt_dispatching, phases, failure, joins, binding, owner, worker, group, events>>
    BY Resting
  <2>3. observed' \in [Runtimes -> BOOLEAN]
    BY <1>0, Unchanges DEF GroupTypeOK
  <2>4. "none" \in Failures \cup {"none", "true", "false", "stopped"} /\ "none" # "true"
    OBVIOUS
  <2> QED
    BY <2>1, <2>2, <2>3, <2>4, PhaseEndsInv
<1> QED
  BY <1>1, <1>2

\* start() launches a member, waits for them all or gives up.
LEMMA LaunchMemberInv ==
    ASSUME GroupInv, NEW t \in Threads, LaunchMember(t)
    PROVE  GroupInv' /\ Closing
<1>0. GroupTypeOK
  BY GroupInvParts
<1>1. At(t, "launch") /\ UNCHANGED <<runtime, worker, group, events>>
  BY DEF LaunchMember
<1>2. t = Lifecycle /\ \E g : Foremost(g) /\ g.at = "launch"
  BY <1>1, LifecycleTop
<1>3. PICK g : Foremost(g) /\ g.at = "launch"
  BY <1>2
<1>4. g \in Frames /\ g = Top(Lifecycle) /\ PhaseSound(g) /\ g.f = Null
  BY <1>3, PhaseStage DEF Foremost, PhaseSound
<1>5. CASE Looping(Top(t)) /\ ~stopping /\ Goto(t, "member_start") /\ UNCHANGED <<stage, history>>
  <2>1. PICK a : a = [g EXCEPT !.at = "member_start"]
    OBVIOUS
  <2>2. a \in Frames
    BY <1>4, <2>1 DEF Frames, Labels
  <2>3. a.at = "member_start" /\ a.kind = g.kind /\ a.i = g.i /\ a.f = g.f
    BY <1>4, <2>1 DEF Frames
  <2>4. g.i \in DOMAIN Members
    <3>1. g.i \in Nat /\ g.i # 0 /\ g.i <= Len(Members)
      BY <1>2, <1>3, <1>4, <1>5 DEF Frames, Looping, PhaseSound
    <3> QED
      BY <3>1, MembersAre
  <2>5. PhaseSound(a)
    BY <1>3, <1>4, <2>3, <2>4 DEF PhaseSound
  <2>6. Become(Lifecycle, <<a>>)
    BY <1>2, <1>4, <1>5, <2>1 DEF Goto
  <2>7. Tame /\ stage' = stage
    <3>1. events' \in 0..MaxEvents
      BY <1>0, <1>1 DEF GroupTypeOK
    <3> QED
      BY <1>1, <1>5, <3>1, Idle
  <2> QED
    BY <1>3, <2>2, <2>3, <2>5, <2>6, <2>7, PhaseGoes
<1>6. CASE Looping(Top(t)) /\ stopping /\ NotLaunched(t)
  BY <1>1, <1>2, <1>3, <1>6, NotLaunchedInv
<1>7. CASE Phase(t) = "start" /\ Become(t, <<[Top(t) EXCEPT !.at = "wait", !.i = 1]>>) /\ UNCHANGED <<stage, history>>
  <2>1. PICK a : a = [g EXCEPT !.at = "wait", !.i = 1]
    OBVIOUS
  <2>2. a \in Frames
    BY <1>4, <2>1 DEF Frames, Labels
  <2>3. a.at = "wait" /\ a.kind = g.kind /\ a.i = 1 /\ a.f = g.f /\ g.kind = "start"
    BY <1>2, <1>4, <1>7, <2>1 DEF Frames, Phase
  <2>4. ReachedTo(a.kind, 1)
    BY MembersAre DEF ReachedTo
  <2>5. PhaseSound(a)
    BY <1>3, <1>4, <2>3, <2>4 DEF PhaseSound
  <2>6. Become(Lifecycle, <<a>>)
    BY <1>2, <1>4, <1>7, <2>1
  <2>7. Tame /\ stage' = stage
    <3>1. events' \in 0..MaxEvents
      BY <1>0, <1>1 DEF GroupTypeOK
    <3> QED
      BY <1>1, <1>7, <3>1, Idle
  <2> QED
    BY <1>3, <2>2, <2>3, <2>5, <2>6, <2>7, PhaseGoes
<1>8. CASE PhaseEnds("none")
  <2>1. UNCHANGED <<lifecycle, rt_dispatching, phases, failure, joins, binding, owner, worker, group, events>>
    BY <1>1, Resting
  <2>2. observed' \in [Runtimes -> BOOLEAN]
    BY <1>0, <1>1, Unchanges DEF GroupTypeOK
  <2>3. "none" \in Failures \cup {"none", "true", "false", "stopped"} /\ "none" # "true"
    OBVIOUS
  <2> QED
    BY <1>3, <1>8, <2>1, <2>2, <2>3, PhaseEndsInv
<1> QED
  BY <1>5, <1>6, <1>7, <1>8 DEF LaunchMember

\* The phase call gives up: it stops the group before it settles.
LEMMA GivesUp ==
    ASSUME GroupInv, Tame, stage' = stage, NEW g, Foremost(g), g.at \in PhaseFrames,
           NEW a \in Frames, a.at = "settling", PhaseSound(a), Become(Lifecycle, <<a, GroupStop>>)
    PROVE  GroupInv' /\ Closing
<1>0. Lifecycle \in Threads
  BY ThreadsAre
<1>1. /\ GroupStop \in Frames /\ Sound(Lifecycle, GroupStop)' /\ Ready(GroupStop)' /\ ~Counts(GroupStop)
      /\ GroupStop.at = "group_stop"
  BY <1>0, GroupStopSound, GroupStopFrame
<1>2. Above(a, GroupStop)'
  BY <1>1 DEF Above, Ready
<1> QED
  BY <1>1, <1>2, PhaseCalls

\* start() of a member has thrown: the group is stopped.
LEMMA StartThrowsInv ==
    ASSUME GroupInv, NEW t \in Threads, StartThrows(t)
    PROVE  GroupInv' /\ Closing
<1>0. GroupTypeOK /\ Lifecycle \in Threads
  BY GroupInvParts, ThreadsAre
<1>1. At(t, "throw") /\ UNCHANGED <<runtime, worker, group, stage, events, history>>
  BY DEF StartThrows
<1>2. t = Lifecycle /\ \E g : Foremost(g) /\ g.at = "throw"
  BY <1>1, LifecycleTop
<1>3. PICK g : Foremost(g) /\ g.at = "throw"
  BY <1>2
<1>4. g \in Frames /\ g = Top(Lifecycle) /\ PhaseSound(g) /\ g.f # Null
  BY <1>3, PhaseStage DEF Foremost, PhaseSound
<1>5. Tame /\ stage' = stage
  <2>1. events' \in 0..MaxEvents
    BY <1>0, <1>1 DEF GroupTypeOK
  <2> QED
    BY <1>1, <2>1, Idle
<1>6. CASE Phase(t) = "start"
  <2>1. PICK a : a = [g EXCEPT !.at = "settling", !.f = g.f]
    OBVIOUS
  <2>2. a \in Frames
    BY <1>4, <2>1 DEF Frames, Labels
  <2>3. a.at = "settling" /\ a.kind = "start" /\ a.f = g.f
    BY <1>2, <1>4, <1>6, <2>1 DEF Frames, Phase
  <2>4. PhaseSound(a)
    BY <1>3, <1>4, <2>3 DEF PhaseSound
  <2>5. Become(Lifecycle, <<a, GroupStop>>)
    BY <1>2, <1>4, <1>6, <2>1 DEF Rethrow, StartThrows
  <2> QED
    BY <1>3, <1>5, <2>2, <2>3, <2>4, <2>5, GivesUp
<1>7. CASE Phase(t) # "start"
  <2>1. PICK a : a = [g EXCEPT !.at = "group_join"]
    OBVIOUS
  <2>2. a \in Frames
    BY <1>4, <2>1 DEF Frames, Labels
  <2>3. a.at = "group_join" /\ a.kind = g.kind
    BY <1>4, <2>1 DEF Frames
  <2>4. /\ GroupStop \in Frames /\ Sound(Lifecycle, GroupStop)' /\ Ready(GroupStop)' /\ ~Counts(GroupStop)
        /\ GroupStop.at = "group_stop"
    BY <1>0, GroupStopSound, GroupStopFrame
  <2>5. Above(a, GroupStop)'
    BY <2>3, <2>4 DEF Above, Owes
  <2>6. Fits(a) /\ EndSound(a) /\ stage \in {"cold", "started"}
    BY <1>3, <2>2, <2>3, <1>4, PhaseStage DEF Fits, EndSound, Foremost
  <2>7. Become(Lifecycle, <<a, GroupStop>>)
    BY <1>2, <1>4, <1>7, <2>1 DEF CallThen, StartThrows
  <2>8. Goes(a)
    BY <1>3, <1>5, <2>4, <2>5, <2>6, <2>7, TameOnward, GoesTwo
  <2>9. GroupInv'
    BY <1>5, <2>3, <2>6, <2>8, TameGoes
  <2> QED
    BY <2>8, <2>9 DEF Goes
<1> QED
  BY <1>6, <1>7

\* A member that did not reach its phase has been stopped.
LEMMA Missed ==
    ASSUME GroupInv, NEW m \in Runtimes, NEW x, x \in {ready[m], serving[m]}, x # "pending", x # "reached"
    PROVE  stopping \/ independent # {}
<1>1. RuntimeAgrees(m) /\ x \in Phases
  BY GroupInvParts, RuntimesAre DEF GroupTypeOK
<1> QED
  BY <1>1 DEF RuntimeAgrees, Phases

\* A phase call waits for a member to reach or abort the phase.
LEMMA WaitForMemberInv ==
    ASSUME GroupInv, NEW t \in Threads, WaitForMember(t)
    PROVE  GroupInv' /\ Closing
<1>0. GroupTypeOK /\ Lifecycle \in Threads
  BY GroupInvParts, ThreadsAre
<1>1. /\ At(t, "wait")
      /\ UNCHANGED <<lifecycle, rt_dispatching, phases, failure, joins, binding, owner, worker, group, stage, events,
                     history>>
  BY DEF WaitForMember
<1>2. t = Lifecycle /\ \E g : Foremost(g) /\ g.at = "wait"
  BY <1>1, LifecycleTop
<1>3. PICK g : Foremost(g) /\ g.at = "wait"
  BY <1>2
<1>4. /\ g \in Frames /\ g = Top(Lifecycle) /\ PhaseSound(g) /\ g.f = Null /\ g.i \in Nat /\ g.i # 0
      /\ ReachedTo(g.kind, g.i) /\ g.kind \in {"start", "serve"}
  BY <1>3, PhaseStage DEF Foremost, PhaseSound, Frames
<1>5. observed' \in [Runtimes -> BOOLEAN] => Tame /\ stage' = stage
  BY <1>0, <1>1, Unchanges DEF Tame, GroupTypeOK
<1>6. CASE ~Looping(Top(t))
  <2>1. Settle(t, TRUE) /\ observed' = observed
    BY <1>6 DEF WaitForMember
  <2>2. PICK a : a = [g EXCEPT !.at = "settle", !.flag = TRUE]
    OBVIOUS
  <2>3. a \in Frames
    BY <1>4, <2>2 DEF Frames, Labels
  <2>4. a.at = "settle" /\ a.kind = g.kind /\ a.flag /\ a.i = g.i /\ a.f = g.f
    BY <1>4, <2>2 DEF Frames
  <2>5. ReachedTo(a.kind, a.i + 1)
    <3>1. \A j \in DOMAIN Members : j < g.i
      BY <1>2, <1>4, <1>6, MembersAre DEF Looping
    <3> QED
      BY <1>4, <2>4, <3>1 DEF ReachedTo
  <2>6. PhaseSound(a)
    BY <1>3, <1>4, <2>4, <2>5 DEF PhaseSound
  <2>7. Become(Lifecycle, <<a>>)
    BY <1>2, <1>4, <2>1, <2>2 DEF Settle
  <2>8. Tame /\ stage' = stage
    BY <1>0, <1>5, <2>1 DEF GroupTypeOK
  <2> QED
    BY <1>3, <2>3, <2>4, <2>6, <2>7, <2>8, PhaseGoes
<1>7. CASE Looping(Top(t))
  <2>1. PICK m : m = Current(t)
    OBVIOUS
  <2>2. g.i \in DOMAIN Members /\ m = Members[g.i] /\ m \in Runtimes
    BY <1>2, <1>4, <1>7, <2>1, MembersAre DEF Looping, Current
  <2>3. /\ Awaited(t, m) # "pending" \/ failure[m] # Null
        /\ observed' = [observed EXCEPT ![m] = TRUE]
        /\ IF failure[m] # Null THEN Rethrow(t, failure[m]) ELSE Settle(t, Awaited(t, m) = "reached")
    BY <1>7, <2>1 DEF WaitForMember
  <2>4. Tame /\ stage' = stage
    BY <1>0, <1>5, <2>3 DEF GroupTypeOK
  <2>5. CASE failure[m] # Null
    <3>0. PICK f \in Failures \cup {Null} : f = failure[m]
      BY <1>0, <2>2 DEF GroupTypeOK
    <3>1. PICK a : a = [g EXCEPT !.at = "settling", !.f = f]
      OBVIOUS
    <3>2. a \in Frames
      BY <1>4, <3>1 DEF Frames, Labels
    <3>3. a.at = "settling" /\ a.kind = g.kind /\ a.f # Null
      BY <1>4, <2>5, <3>0, <3>1 DEF Frames
    <3>4. PhaseSound(a)
      BY <1>3, <1>4, <3>3 DEF PhaseSound
    <3>5. Become(Lifecycle, <<a, GroupStop>>)
      BY <1>2, <1>4, <2>3, <2>5, <3>0, <3>1 DEF Rethrow
    <3> QED
      BY <1>3, <2>4, <3>2, <3>3, <3>4, <3>5, GivesUp
  <2>6. CASE failure[m] = Null
    <3>1. PICK x : x = Awaited(t, m)
      OBVIOUS
    <3>2. x = (IF g.kind = "start" THEN ready[m] ELSE serving[m]) /\ x # "pending" /\ x \in {ready[m], serving[m]}
      BY <1>2, <1>4, <2>3, <2>6, <3>1 DEF Awaited, Phase
    <3>0. PICK y \in BOOLEAN : y = (x = "reached")
      OBVIOUS
    <3>3. PICK a : a = [g EXCEPT !.at = "settle", !.flag = y]
      OBVIOUS
    <3>4. a \in Frames
      <4>1. CASE y = TRUE
        BY <1>4, <3>3, <4>1 DEF Frames, Labels
      <4>2. CASE y = FALSE
        <5>1. a = [g EXCEPT !.at = "settle", !.flag = FALSE]
          BY <3>3, <4>2
        <5> QED
          BY <1>4, <5>1 DEF Frames, Labels
      <4> QED
        BY <4>1, <4>2
    <3>5. a.at = "settle" /\ a.kind = g.kind /\ (a.flag <=> x = "reached") /\ a.i = g.i /\ a.f = g.f
      BY <1>4, <3>0, <3>3 DEF Frames
    <3>6. a.flag => ReachedTo(a.kind, a.i + 1)
      <4>1. \A j \in DOMAIN Members : j < g.i + 1 => j < g.i \/ j = g.i
        BY <1>4, MembersAre
      <4> QED
        BY <1>4, <2>2, <3>2, <3>5, <4>1 DEF ReachedTo
    <3>7. ~a.flag => stopping \/ independent # {}
      BY <2>2, <3>2, <3>5, Missed
    <3>8. PhaseSound(a)
      BY <1>3, <1>4, <3>5, <3>6, <3>7 DEF PhaseSound
    <3>9. Become(Lifecycle, <<a>>)
      BY <1>2, <1>4, <2>3, <2>6, <3>0, <3>1, <3>3 DEF Settle
    <3> QED
      BY <1>3, <2>4, <3>4, <3>5, <3>8, <3>9, PhaseGoes
  <2> QED
    BY <2>5, <2>6
<1> QED
  BY <1>6, <1>7

\* So is one that leaves the events alone too.
LEMMA Rests ==
    ASSUME GroupInv, UNCHANGED <<runtime, worker, group, stage, events, history>>
    PROVE  Tame /\ stage' = stage
<1>1. events' \in 0..MaxEvents
  BY GroupInvParts DEF GroupTypeOK
<1> QED
  BY <1>1, Idle

\* serve() turns to a member, waits for them all or gives up.
LEMMA ServeMemberInv ==
    ASSUME GroupInv, NEW t \in Threads, ServeMember(t)
    PROVE  GroupInv' /\ Closing
<1>1. At(t, "serve_member") /\ UNCHANGED <<runtime, worker, group, stage, events, history>>
  BY DEF ServeMember
<1>2. t = Lifecycle /\ \E g : Foremost(g) /\ g.at = "serve_member"
  BY <1>1, LifecycleTop
<1>3. PICK g : Foremost(g) /\ g.at = "serve_member"
  BY <1>2
<1>4. g \in Frames /\ g = Top(Lifecycle) /\ PhaseSound(g) /\ g.f = Null /\ g.i \in Nat /\ g.i # 0 /\ g.kind = "serve"
  BY <1>3, PhaseStage DEF Foremost, PhaseSound, Frames
<1>g. g \in Frames
  BY <1>4
<1>5. Tame /\ stage' = stage
  BY <1>1, Rests
<1>6. CASE Become(t, <<[Top(t) EXCEPT !.at = "wait", !.i = 1]>>)
  <2>1. PICK a : a = [g EXCEPT !.at = "wait", !.i = 1]
    OBVIOUS
  <2>2. a \in Frames
    BY <1>g, <2>1 DEF Frames, Labels
  <2>3. a.at = "wait" /\ a.kind = "serve" /\ a.i = 1 /\ a.f = Null
    BY <1>4, <2>1 DEF Frames
  <2>4. ReachedTo(a.kind, 1)
    BY MembersAre DEF ReachedTo
  <2>5. PhaseSound(a)
    BY <1>3, <1>4, <2>3, <2>4 DEF PhaseSound
  <2>6. Become(Lifecycle, <<a>>)
    BY <1>2, <1>4, <1>6, <2>1
  <2> QED
    BY <1>3, <1>5, <2>2, <2>3, <2>5, <2>6, PhaseGoes
<1>7. CASE stopping /\ Settle(t, FALSE)
  <2>1. PICK a : a = [g EXCEPT !.at = "settle", !.flag = FALSE]
    OBVIOUS
  <2>2. a \in Frames
    BY <1>g, <2>1 DEF Frames, Labels
  <2>3. a.at = "settle" /\ a.kind = "serve" /\ ~a.flag /\ a.i # 0 /\ a.f = Null
    BY <1>4, <2>1 DEF Frames
  <2>4. PhaseSound(a)
    BY <1>3, <1>4, <1>7, <2>3 DEF PhaseSound
  <2>5. Become(Lifecycle, <<a>>)
    BY <1>2, <1>4, <1>7, <2>1 DEF Settle
  <2> QED
    BY <1>3, <1>5, <2>2, <2>3, <2>4, <2>5, PhaseGoes
<1>8. CASE Looping(Top(t)) /\ Goto(t, "request_serve")
  <2>1. PICK a : a = [g EXCEPT !.at = "request_serve"]
    OBVIOUS
  <2>2. a \in Frames
    BY <1>g, <2>1 DEF Frames, Labels
  <2>3. a.at = "request_serve" /\ a.kind = "serve" /\ a.i = g.i /\ a.f = Null
    BY <1>4, <2>1 DEF Frames
  <2>4. g.i \in DOMAIN Members
    BY <1>2, <1>4, <1>8, MembersAre DEF Looping
  <2>5. PhaseSound(a)
    BY <1>3, <1>4, <2>3, <2>4 DEF PhaseSound
  <2>6. Become(Lifecycle, <<a>>)
    BY <1>2, <1>4, <1>8, <2>1 DEF Goto
  <2> QED
    BY <1>3, <1>5, <2>2, <2>3, <2>5, <2>6, PhaseGoes
<1> QED
  BY <1>6, <1>7, <1>8 DEF ServeMember

\* serve() turns to the next member when this one does not run.
LEMMA RequestServeInv ==
    ASSUME GroupInv, NEW t \in Threads, RequestServe(t)
    PROVE  GroupInv' /\ Closing
<1>1. At(t, "request_serve") /\ UNCHANGED <<runtime, worker, group, stage, events, history>>
  BY DEF RequestServe
<1>2. t = Lifecycle /\ \E g : Foremost(g) /\ g.at = "request_serve"
  BY <1>1, LifecycleTop
<1>3. PICK g : Foremost(g) /\ g.at = "request_serve"
  BY <1>2
<1>4. /\ g \in Frames /\ g = Top(Lifecycle) /\ PhaseSound(g) /\ g.f = Null /\ g.i \in Nat /\ g.i # 0 /\ g.kind = "serve"
      /\ g.i \in DOMAIN Members
  BY <1>3, PhaseStage DEF Foremost, PhaseSound, Frames
<1>g. g \in Frames
  BY <1>4
<1>5. Tame /\ stage' = stage
  BY <1>1, Rests
<1>6. CASE Goto(t, "post_control")
  <2>1. PICK a : a = [g EXCEPT !.at = "post_control"]
    OBVIOUS
  <2>2. a \in Frames
    BY <1>g, <2>1 DEF Frames, Labels
  <2>3. a.at = "post_control" /\ a.kind = "serve" /\ a.i = g.i /\ a.f = Null
    BY <1>4, <2>1 DEF Frames
  <2>4. PhaseSound(a)
    BY <1>3, <1>4, <2>3 DEF PhaseSound
  <2>5. Become(Lifecycle, <<a>>)
    BY <1>2, <1>4, <1>6, <2>1 DEF Goto
  <2> QED
    BY <1>3, <1>5, <2>2, <2>3, <2>4, <2>5, PhaseGoes
<1>7. CASE Next_(t, "serve_member")
  <2>0. g.i + 1 \in Nat /\ g.i + 1 # 0
    BY <1>4
  <2>1. PICK a : a = [g EXCEPT !.at = "serve_member", !.i = g.i + 1]
    OBVIOUS
  <2>2. a \in Frames
    BY <1>g, <2>0, <2>1 DEF Frames, Labels
  <2>3. a.at = "serve_member" /\ a.kind = "serve" /\ a.i # 0 /\ a.f = Null
    BY <1>4, <2>0, <2>1 DEF Frames
  <2>4. PhaseSound(a)
    BY <1>3, <1>4, <2>3 DEF PhaseSound
  <2>5. Become(Lifecycle, <<a>>)
    BY <1>2, <1>4, <1>7, <2>1 DEF Next_
  <2> QED
    BY <1>3, <1>5, <2>2, <2>3, <2>4, <2>5, PhaseGoes
<1> QED
  BY <1>6, <1>7 DEF RequestServe

\* serve() posts the control to the member's context.
LEMMA PostControlInv ==
    ASSUME GroupInv, NEW t \in Threads, PostControl(t)
    PROVE  GroupInv' /\ Closing
<1>0. GroupTypeOK /\ RuntimesAgree
  BY GroupInvParts
<1>1. /\ At(t, "post_control") /\ Next_(t, "serve_member")
      /\ UNCHANGED <<runtime, accepting, notifying, chain, group, stage, events, history>>
      /\ control' = IF Postable(Current(t)) THEN control \cup {Current(t)} ELSE control
  BY DEF PostControl
<1>2. t = Lifecycle /\ \E g : Foremost(g) /\ g.at = "post_control"
  BY <1>1, LifecycleTop
<1>3. PICK g : Foremost(g) /\ g.at = "post_control"
  BY <1>2
<1>4. /\ g \in Frames /\ g = Top(Lifecycle) /\ PhaseSound(g) /\ g.f = Null /\ g.i \in Nat /\ g.i # 0 /\ g.kind = "serve"
      /\ g.i \in DOMAIN Members /\ Current(t) = Members[g.i]
  BY <1>2, <1>3, PhaseStage DEF Foremost, PhaseSound, Frames, Current
<1>g. g \in Frames
  BY <1>4
<1>5. PICK m \in Runtimes : m = Current(t)
  BY <1>4, MembersAre
<1>6. control' \subseteq Runtimes /\ (control' = control \/ (chain[m] # "released" /\ control' = control \cup {m}))
  BY <1>0, <1>1, <1>5 DEF GroupTypeOK, Postable
<1>7. Onward
  BY <1>1, Unchanges DEF Onward, Cause, Stoppable
<1>8. Aside
  BY <1>0, <1>1, <1>7, Unchanges DEF Aside, GroupTypeOK
<1>9. g.i + 1 \in Nat /\ g.i + 1 # 0
  BY <1>4
<1>10. PICK a : a = [g EXCEPT !.at = "serve_member", !.i = g.i + 1]
  OBVIOUS
<1>11. a \in Frames
  BY <1>g, <1>9, <1>10 DEF Frames, Labels
<1>12. a.at = "serve_member" /\ a.kind = "serve" /\ a.i # 0 /\ a.f = Null
  BY <1>4, <1>9, <1>10 DEF Frames
<1>13. PhaseSound(a) /\ EndSound(a) /\ Fits(a) /\ Ready(a)'
  BY <1>3, <1>4, <1>11, <1>12 DEF PhaseSound, EndSound, Fits, Ready
<1>14. PhaseSound(a)' /\ EndSound(a)'
  BY <1>8, <1>13, PhaseStays, EndStays
<1>15. Become(Lifecycle, <<a>>)
  BY <1>1, <1>2, <1>4, <1>10 DEF Next_
<1>16. Goes(a)
  BY <1>3, <1>7, <1>13, <1>15, GoesOne
<1>17. RuntimesAgree'
  <2>1. UNCHANGED <<lifecycle, owner, rt_joined, rt_dispatching, ready, serving, accepting, notifying, chain,
                    stopping, independent>>
    BY <1>1, Unchanges
  <2>2. \A n \in Runtimes : stack'[n] = stack[n]
    BY <1>16, ThreadsAre DEF Goes
  <2>3. ASSUME NEW n \in Runtimes
        PROVE  RuntimeAgrees(n)'
    <3>1. RuntimeAgrees(n)
      BY <1>0, RuntimesAre
    <3>2. owner[n] = "done" => chain[n] = "released" /\ n \notin control
      BY <3>1 DEF RuntimeAgrees
    <3>3. owner[n] = "done" => n \notin control'
      BY <3>2, <1>6
    <3> QED
      BY <2>1, <2>2, <3>1, <3>3 DEF RuntimeAgrees, Stoppable
  <2> QED
    BY <2>3, RuntimesAre
<1>18. GroupTypeOK'
  BY <1>0, <1>1, <1>6, <1>16, Unchanges DEF GroupTypeOK, Goes
<1>19. /\ UNCHANGED group /\ independent' = independent /\ chain' = chain /\ notifying' = notifying
       /\ notifications' = notifications /\ stage' = stage
  BY <1>1, Unchanges
<1>20. stage \notin {"joined", "destroyed"} /\ ~GivenUp
  BY <1>3, PhaseStage
<1>21. GroupInv'
  BY <1>7, <1>12, <1>14, <1>16, <1>17, <1>18, <1>19, <1>20, GoesInv
<1> QED
  BY <1>16, <1>21 DEF Goes

\* A phase call settles a member: it goes on, returns, or stops the group.
LEMMA SettlePhaseInv ==
    ASSUME GroupInv, NEW t \in Threads, SettlePhase(t)
    PROVE  GroupInv' /\ Closing
<1>0. GroupTypeOK /\ GroupAgrees
  BY GroupInvParts
<1>1. At(t, "settle") /\ UNCHANGED <<runtime, worker, group, events>>
  BY DEF SettlePhase
<1>2. t = Lifecycle /\ \E g : Foremost(g) /\ g.at = "settle"
  BY <1>1, LifecycleTop
<1>3. PICK g : Foremost(g) /\ g.at = "settle"
  BY <1>2
<1>4. /\ g \in Frames /\ g = Top(Lifecycle) /\ PhaseSound(g) /\ g.f = Null /\ g.i \in Nat /\ g.i # 0
      /\ g.kind \in {"start", "serve"} /\ (g.flag => ReachedTo(g.kind, g.i + 1)) /\ (~g.flag => stopping \/ independent # {})
      /\ ~GivenUp
  BY <1>3, PhaseStage DEF Foremost, PhaseSound, Frames
<1>5. UNCHANGED <<stage, history>> => Tame /\ stage' = stage
  BY <1>1, Rests
<1>6. CASE g.flag /\ ~stopping /\ group_failure = << >>
  <2>1. IF Looping(g) THEN Next_(t, "wait") /\ UNCHANGED <<stage, history>> ELSE PhaseEnds("true")
    BY <1>2, <1>4, <1>6 DEF SettlePhase
  <2>2. CASE Looping(g)
    <3>0. g.i + 1 \in Nat /\ g.i + 1 # 0
      BY <1>4
    <3>1. PICK a : a = [g EXCEPT !.at = "wait", !.i = g.i + 1]
      OBVIOUS
    <3>2. a \in Frames
      BY <1>4, <3>0, <3>1 DEF Frames, Labels
    <3>3. a.at = "wait" /\ a.kind = g.kind /\ a.i = g.i + 1 /\ a.f = Null
      BY <1>4, <3>0, <3>1 DEF Frames
    <3>4. PhaseSound(a)
      BY <1>3, <1>4, <1>6, <3>0, <3>3 DEF PhaseSound
    <3>5. Become(Lifecycle, <<a>>)
      BY <1>2, <1>4, <2>1, <2>2, <3>1 DEF Next_
    <3>6. Tame /\ stage' = stage
      BY <1>5, <2>1, <2>2
    <3> QED
      BY <1>3, <3>2, <3>3, <3>4, <3>5, <3>6, PhaseGoes
  <2>3. CASE ~Looping(g)
    <3>1. PhaseEnds("true")
      BY <2>1, <2>3
    <3>2. UNCHANGED <<lifecycle, rt_dispatching, phases, failure, joins, binding, owner, worker, group, events>>
      BY <1>1, Resting
    <3>3. observed' \in [Runtimes -> BOOLEAN]
      BY <1>0, <1>1, Unchanges DEF GroupTypeOK
    <3>4. "true" \in Failures \cup {"none", "true", "false", "stopped"}
      OBVIOUS
    <3> QED
      BY <1>3, <1>6, <3>1, <3>2, <3>3, <3>4, PhaseEndsInv
  <2> QED
    BY <2>2, <2>3
<1>7. CASE ~(g.flag /\ ~stopping /\ group_failure = << >>)
  <2>1. /\ Become(t, <<[g EXCEPT !.at = "settling", !.i = IF stopping THEN 0 ELSE @], GroupStop>>)
        /\ UNCHANGED <<stage, history>>
    BY <1>2, <1>4, <1>7 DEF SettlePhase
  <2>2. PICK n \in Nat : n = IF stopping THEN 0 ELSE g.i
    BY <1>4
  <2>3. PICK a : a = [g EXCEPT !.at = "settling", !.i = n]
    OBVIOUS
  <2>4. a \in Frames
    BY <1>4, <2>3 DEF Frames, Labels
  <2>5. a.at = "settling" /\ a.kind = g.kind /\ a.i = n /\ a.f = Null /\ (a.flag <=> g.flag)
    BY <1>4, <2>3 DEF Frames
  <2>6. stopping => Cause
    BY <1>0, <1>4 DEF GroupAgrees
  <2>7. IF a.flag \/ a.i = 0 THEN Cause ELSE independent # {}
    <3>1. CASE stopping
      BY <2>2, <2>5, <2>6, <3>1
    <3>2. CASE ~stopping
      <4>1. g.flag => Cause
        BY <1>7, <3>2 DEF Cause
      <4> QED
        BY <1>4, <2>2, <2>5, <3>2, <4>1
    <3> QED
      BY <3>1, <3>2
  <2>8. PhaseSound(a)
    BY <1>3, <1>4, <2>5, <2>7 DEF PhaseSound
  <2>9. Become(Lifecycle, <<a, GroupStop>>)
    BY <1>2, <2>1, <2>2, <2>3
  <2> QED
    BY <1>3, <1>5, <2>1, <2>4, <2>5, <2>8, <2>9, GivesUp
<1> QED
  BY <1>6, <1>7

\* A phase call that gave up waits for the stop to be dispatched.
LEMMA SettleWaitInv ==
    ASSUME GroupInv, NEW t \in Threads, SettleWait(t)
    PROVE  GroupInv' /\ Closing
<1>1. At(t, "settling") /\ Goto(t, "verdict") /\ UNCHANGED <<runtime, worker, group, stage, events, history>>
  BY DEF SettleWait
<1>2. t = Lifecycle /\ \E g : Foremost(g) /\ g.at = "settling"
  BY <1>1, LifecycleTop
<1>3. PICK g : Foremost(g) /\ g.at = "settling"
  BY <1>2
<1>4. g \in Frames /\ g = Top(Lifecycle) /\ PhaseSound(g)
  BY <1>3, PhaseStage DEF Foremost
<1>5. PICK a : a = [g EXCEPT !.at = "verdict"]
  OBVIOUS
<1>6. a \in Frames
  BY <1>4, <1>5 DEF Frames, Labels
<1>7. a.at = "verdict" /\ a.kind = g.kind /\ a.i = g.i /\ a.f = g.f /\ (a.flag <=> g.flag)
  BY <1>4, <1>5 DEF Frames
<1>8. PhaseSound(a)
  BY <1>3, <1>4, <1>7 DEF PhaseSound
<1>9. Become(Lifecycle, <<a>>)
  BY <1>1, <1>2, <1>4, <1>5 DEF Goto
<1>10. Tame /\ stage' = stage
  BY <1>1, Rests
<1> QED
  BY <1>3, <1>6, <1>7, <1>8, <1>9, <1>10, PhaseGoes

\* A phase call that gave up says why.
LEMMA VerdictInv ==
    ASSUME GroupInv, NEW t \in Threads, Verdict(t)
    PROVE  GroupInv' /\ Closing
<1>0. GroupTypeOK
  BY GroupInvParts
<1>1. /\ At(t, "verdict")
      /\ UNCHANGED <<lifecycle, rt_dispatching, phases, failure, joins, binding, owner, worker, group, events>>
  BY DEF Verdict
<1>2. t = Lifecycle /\ \E g : Foremost(g) /\ g.at = "verdict"
  BY <1>1, LifecycleTop
<1>3. PICK g : Foremost(g) /\ g.at = "verdict"
  BY <1>2
<1>4. g \in Frames /\ g = Top(Lifecycle) /\ g.f \in Failures \cup {Null}
  BY <1>3 DEF Foremost, Frames
<1>5. CASE group_failure # << >>
  <2>1. group_failure[1] \in Failures /\ group_failure[2] \in Runtimes
    BY <1>0, <1>5 DEF GroupTypeOK
  <2>2. PICK r \in Failures : r = group_failure[1]
    BY <2>1
  <2>3. PhaseEnds(r) /\ observed' = [observed EXCEPT ![group_failure[2]] = TRUE]
    BY <1>5, <2>2 DEF Verdict
  <2>4. observed' \in [Runtimes -> BOOLEAN]
    BY <1>0, <2>1, <2>3 DEF GroupTypeOK
  <2>5. r # "true"
    BY GroupAssumption
  <2> QED
    BY <1>1, <1>3, <2>3, <2>4, <2>5, PhaseEndsInv
<1>6. CASE group_failure = << >>
  <2>1. PICK r : r = IF Top(t).f # Null THEN Top(t).f ELSE IF Blames(t) THEN "stopped" ELSE "false"
    OBVIOUS
  <2>2. r \in Failures \cup {"none", "true", "false", "stopped"}
    BY <1>2, <1>4, <2>1
  <2>3. r # "true"
    BY <1>2, <1>4, <2>1, GroupAssumption
  <2>4. PhaseEnds(r) /\ observed' = observed
    BY <1>6, <2>1 DEF Verdict
  <2>5. observed' \in [Runtimes -> BOOLEAN]
    BY <1>0, <2>4 DEF GroupTypeOK
  <2> QED
    BY <1>1, <1>3, <2>2, <2>3, <2>4, <2>5, PhaseEndsInv
<1> QED
  BY <1>5, <1>6

\* Runtime m is now running, with or without an owner thread.
Starts(m) ==
    /\ lifecycle[m] = "ready" /\ lifecycle' = [lifecycle EXCEPT ![m] = "running"]
    /\ owner' = owner \/ owner' = [owner EXCEPT ![m] = "running"]
    /\ UNCHANGED <<stage, history>> /\ events' \in 0..MaxEvents
    /\ UNCHANGED <<rt_dispatching, phases, failed, joins, binding, worker, group>>

\* What starting member m changes.
LEMMA StartsParts ==
    ASSUME GroupInv, NEW m \in Runtimes, Starts(m)
    PROVE  /\ Onward
           /\ \A n \in Runtimes : /\ lifecycle'[n] = IF n = m THEN "running" ELSE lifecycle[n]
                                  /\ owner'[n] = owner[n] \/ (n = m /\ owner'[n] = "running")
           /\ lifecycle' \in [Runtimes -> {"ready", "running", "stopping", "stopped"}]
           /\ owner' \in [Runtimes -> {"none", "running", "done"}]
<1>1. GroupTypeOK
  BY GroupInvParts
<1>2. \A n \in Runtimes : lifecycle'[n] = IF n = m THEN "running" ELSE lifecycle[n]
  BY <1>1 DEF GroupTypeOK, Starts
<1>3. \A n \in Runtimes : owner'[n] = owner[n] \/ (n = m /\ owner'[n] = "running")
  BY <1>1 DEF GroupTypeOK, Starts
<1>4. lifecycle' \in [Runtimes -> {"ready", "running", "stopping", "stopped"}]
  BY <1>1 DEF GroupTypeOK, Starts
<1>5. owner' \in [Runtimes -> {"none", "running", "done"}]
  BY <1>1 DEF GroupTypeOK, Starts
<1>6. \A n \in Runtimes : ~Stoppable(n) => ~Stoppable(n)'
  BY <1>2 DEF Stoppable, Starts
<1>7. Onward
  BY <1>6, Unchanges DEF Starts, Onward, Cause
<1> QED
  BY <1>2, <1>3, <1>4, <1>5, <1>7

\* Starting a member keeps the types and the runtimes' part.
LEMMA StartsAgree ==
    ASSUME GroupInv, NEW m \in Runtimes, Starts(m), stack' \in [Threads -> Seq(Frames)],
           \A u \in Threads \ {Lifecycle} : stack'[u] = stack[u]
    PROVE  GroupTypeOK' /\ RuntimesAgree'
<1>0. GroupTypeOK /\ RuntimesAgree
  BY GroupInvParts
<1>1. /\ UNCHANGED <<rt_dispatching, ready, serving, failure, observed, rt_joining, rt_joined, bound, notifications,
                     accepting, notifying, chain, control, stopping, dispatching, member_stopped, group_failure, stage,
                     outcome, delivered, reported, independent, asked>>
  BY Unchanges DEF Starts
<1>2. GroupTypeOK'
  BY <1>0, <1>1, StartsParts DEF GroupTypeOK, Starts
<1>3. ASSUME NEW n \in Runtimes
      PROVE  RuntimeAgrees(n)'
  <2>1. RuntimeAgrees(n) /\ stack'[n] = stack[n]
    BY <1>0, RuntimesAre, ThreadsAre
  <2>2. /\ lifecycle'[n] = IF n = m THEN "running" ELSE lifecycle[n]
        /\ owner'[n] = owner[n] \/ (n = m /\ owner'[n] = "running")
    BY StartsParts
  <2>3. CASE n = m
    <3>1. lifecycle[n] = "ready"
      BY <2>3 DEF Starts
    <3> QED
      BY <1>1, <2>1, <2>2, <2>3, <3>1 DEF RuntimeAgrees, Stoppable
  <2>4. CASE n # m
    BY <1>1, <2>1, <2>2, <2>4 DEF RuntimeAgrees, Stoppable
  <2> QED
    BY <2>3, <2>4
<1> QED
  BY <1>2, <1>3, RuntimesAre

\* Starting a member keeps the invariant.
LEMMA StartsInv ==
    ASSUME GroupInv, NEW m \in Runtimes, Starts(m), NEW g, Foremost(g), g.at = "member_start",
           NEW a, Goes(a), a.at \in PhaseFrames, PhaseSound(a)'
    PROVE  GroupInv' /\ Closing
<1>1. GroupTypeOK' /\ RuntimesAgree' /\ Onward
  BY StartsAgree, StartsParts DEF Goes
<1>2. /\ UNCHANGED group /\ independent' = independent /\ chain' = chain /\ notifying' = notifying
      /\ notifications' = notifications /\ stage' = stage
  BY Unchanges DEF Starts
<1>3. stage \notin {"joined", "destroyed"} /\ ~GivenUp
  BY PhaseStage
<1>4. EndSound(a)'
  BY DEF EndSound
<1>5. GroupInv'
  BY <1>1, <1>2, <1>3, <1>4, GoesInv
<1> QED
  BY <1>5 DEF Goes

\* start() of a member, which launches its owner or finds it stopped.
LEMMA MemberStartInv ==
    ASSUME GroupInv, NEW t \in Threads, MemberStart(t)
    PROVE  GroupInv' /\ Closing
<1>0. GroupTypeOK /\ RuntimesAgree
  BY GroupInvParts
<1>1. At(t, "member_start") /\ UNCHANGED <<rt_dispatching, phases, failed, joins, binding, worker, group>>
  BY DEF MemberStart
<1>2. t = Lifecycle /\ \E g : Foremost(g) /\ g.at = "member_start"
  BY <1>1, LifecycleTop
<1>3. PICK g : Foremost(g) /\ g.at = "member_start"
  BY <1>2
<1>4. /\ g \in Frames /\ g = Top(Lifecycle) /\ PhaseSound(g) /\ g.f = Null /\ g.i \in Nat /\ g.i # 0
      /\ g.kind \in {"start", "launch"} /\ g.i \in DOMAIN Members /\ stage = "cold"
      /\ \A j \in DOMAIN Members : j >= g.i => lifecycle[Members[j]] # "running"
  BY <1>3, PhaseStage DEF Foremost, PhaseSound, Frames
<1>g. g \in Frames
  BY <1>4
<1>5. PICK m \in Runtimes : m = Current(t) /\ m = Members[g.i]
  BY <1>2, <1>4, MembersAre DEF Current
<1>6. CASE lifecycle[m] # "ready"
  <2>1. NotLaunched(Lifecycle) /\ UNCHANGED <<lifecycle, owner, events>>
    BY <1>2, <1>5, <1>6 DEF MemberStart
  <2>2. UNCHANGED <<runtime, worker, group, events>>
    BY <1>1, <2>1 DEF runtime, failed
  <2>3. ~Stoppable(m)
    BY <1>4, <1>5, <1>6, MembersAre DEF Stoppable
  <2>4. stopping \/ independent # {}
    BY <1>0, <2>3 DEF RuntimesAgree
  <2> QED
    BY <1>3, <2>1, <2>2, <2>4, NotLaunchedInv
<1>7. CASE /\ lifecycle[m] = "ready" /\ lifecycle' = [lifecycle EXCEPT ![m] = "running"] /\ UNCHANGED <<stage, history>>
           /\ owner' = [owner EXCEPT ![m] = "running"] /\ Next_(t, "launch") /\ UNCHANGED events
  <2>1. Starts(m)
    BY <1>0, <1>1, <1>7 DEF Starts, GroupTypeOK
  <2>2. /\ Onward /\ stage' = stage
        /\ \A n \in Runtimes : lifecycle'[n] = IF n = m THEN "running" ELSE lifecycle[n]
    BY <2>1, <1>7, StartsParts
  <2>3. g.i + 1 \in Nat /\ g.i + 1 # 0
    BY <1>4
  <2>4. PICK a : a = [g EXCEPT !.at = "launch", !.i = g.i + 1]
    OBVIOUS
  <2>5. a \in Frames
    BY <1>g, <2>3, <2>4 DEF Frames, Labels
  <2>6. a.at = "launch" /\ a.kind = g.kind /\ a.i = g.i + 1 /\ a.f = g.f
    BY <1>g, <2>4 DEF Frames
  <2>7. Fits(a) /\ Ready(a)'
    BY <1>4, <2>5, <2>6 DEF Fits, Ready
  <2>8. Become(Lifecycle, <<a>>)
    BY <1>2, <1>4, <1>7, <2>4 DEF Next_
  <2>9. Goes(a)
    BY <1>3, <2>2, <2>7, <2>8, GoesOne
  <2>10. \A j \in DOMAIN Members : j >= a.i => lifecycle'[Members[j]] # "running"
    <3> SUFFICES ASSUME NEW j \in DOMAIN Members, j >= a.i
                 PROVE  lifecycle'[Members[j]] # "running"
      OBVIOUS
    <3>1. j # g.i /\ j >= g.i
      BY <1>4, <2>6, MembersAre
    <3>2. Members[j] # m
      BY <1>4, <1>5, <3>1, GroupAssumption
    <3> QED
      BY <1>4, <2>2, <3>1, <3>2, MembersAre
  <2>11. PhaseSound(a)'
    BY <1>4, <2>2, <2>3, <2>6, <2>10 DEF PhaseSound
  <2> QED
    BY <1>3, <2>1, <2>6, <2>9, <2>11, StartsInv
<1>8. CASE /\ lifecycle[m] = "ready" /\ lifecycle' = [lifecycle EXCEPT ![m] = "running"] /\ UNCHANGED <<stage, history>>
           /\ Event /\ UNCHANGED owner
           /\ \E f \in Failures :
                Become(t, <<[Top(t) EXCEPT !.at = "throw", !.f = f], Recording(m, "fail", f, TRUE)>>)
  <2>0. events' \in 0..MaxEvents
    BY <1>0, <1>8, EventTypes
  <2>1. Starts(m)
    BY <1>1, <1>8, <2>0 DEF Starts
  <2>2. Onward /\ stage' = stage
    BY <2>1, <1>8, StartsParts
  <2>3. PICK f \in Failures :
          Become(t, <<[Top(t) EXCEPT !.at = "throw", !.f = f], Recording(m, "fail", f, TRUE)>>)
    BY <1>8
  <2>4. PICK a : a = [g EXCEPT !.at = "throw", !.f = f]
    OBVIOUS
  <2>5. a \in Frames
    BY <1>g, <2>4 DEF Frames, Labels
  <2>6. a.at = "throw" /\ a.kind = g.kind /\ a.i = g.i /\ a.f = f /\ f # Null
    BY <1>g, <2>4, GroupAssumption DEF Frames
  <2>7. Fits(a) /\ Ready(a)'
    BY <1>4, <2>5, <2>6 DEF Fits, Ready
  <2>8. PICK c : c = Frame("record", "fail", m)
    OBVIOUS
  <2>9. c \in Frames /\ c.at = "record" /\ c.kind = "fail" /\ c.m = m
    BY <2>8, NewFrame DEF Labels, Kinds
  <2>c. c \in Frames
    BY <2>9
  <2>10. PICK b : b = [c EXCEPT !.f = f, !.flag = TRUE]
    OBVIOUS
  <2>11. b \in Frames
    BY <2>c, <2>10 DEF Frames
  <2>12. b.at = "record" /\ b.kind = "fail" /\ b.m = m /\ b.f = f
    BY <2>9, <2>10 DEF Frames
  <2>13. /\ Sound(Lifecycle, b)' /\ Ready(b)' /\ ~Counts(b) /\ Above(a, b)'
    BY <2>6, <2>7, <2>12 DEF Sound, Ready, Counts, Winning, Hooking, Notifying, Above
  <2>14. Become(Lifecycle, <<a, b>>)
    BY <1>2, <1>4, <2>3, <2>4, <2>8, <2>10 DEF Recording
  <2>15. Goes(a)
    BY <1>3, <2>2, <2>7, <2>11, <2>13, <2>14, GoesTwo
  <2>16. PhaseSound(a)'
    BY <1>4, <2>2, <2>6 DEF PhaseSound
  <2> QED
    BY <1>3, <2>1, <2>6, <2>15, <2>16, StartsInv
<1> QED
  BY <1>5, <1>6, <1>7, <1>8 DEF MemberStart

-----------------------------------------------------------------------------
(* join() of the group                                                      *)

\* A non-empty set of naturals has a least element.
LEMMA LeastOne ==
    ASSUME NEW T \in SUBSET Nat, T # {}
    PROVE  \E k \in T : \A m \in T : k <= m
<1>1. PICK k \in T : \A m \in T : ~(<<m, k>> \in OpToRel(<, Nat))
  BY NatLessThanWellFounded, WFMin
<1>2. \A m \in T : ~(m < k)
  BY <1>1 DEF OpToRel
<1>3. \A m \in T : m \in Nat /\ k \in Nat
  OBVIOUS
<1>4. \A m \in T : k <= m
  BY <1>2, <1>3
<1> QED
  BY <1>4

\* The first recorded failure is one, when there is any.
LEMMA FirstRecordedFailure ==
    ASSUME GroupTypeOK
    PROVE  FirstRecorded \in Failures \cup {Null}
<1> DEFINE bad == {i \in DOMAIN Members : failure[Members[i]] # Null}
<1>1. CASE bad = {}
  BY <1>1 DEF FirstRecorded
<1>2. CASE bad # {}
  <2>1. bad \in SUBSET Nat
    BY MembersAre
  <2>2. \E i \in bad : \A j \in bad : i <= j
    BY <1>2, <2>1, LeastOne
  <2>3. PICK i : i = CHOOSE k \in bad : \A j \in bad : k <= j
    OBVIOUS
  <2>4. i \in bad
    BY <2>2, <2>3
  <2>5. FirstRecorded = failure[Members[i]]
    BY <1>2, <2>3 DEF FirstRecorded
  <2>6. i \in DOMAIN Members
    BY <2>4
  <2>7. Members[i] \in Runtimes
    BY <2>6, MembersAre
  <2> QED
    BY <2>5, <2>7 DEF GroupTypeOK
<1> QED
  BY <1>1, <1>2

\* join() goes on.
LEMMA JoinGoes ==
    ASSUME GroupInv, Tame, stage' = stage, NEW g, Foremost(g), g.at \in JoinFrames,
           NEW a \in Frames, a.at \in JoinFrames, a.kind = g.kind, a.at = "join_members" => a.i # 0,
           EndSound(a), Ready(a)', Become(Lifecycle, <<a>>)
    PROVE  GroupInv' /\ Closing
<1>1. stage \notin {"joined", "destroyed"}
  BY DEF Foremost, EndSound
<1>2. Fits(a)
  BY DEF Fits, Foremost
<1>3. Goes(a)
  BY <1>2, TameOnward, GoesOne
<1>4. GroupInv'
  BY <1>1, <1>3, TameGoes
<1> QED
  BY <1>3, <1>4 DEF Goes

\* join() waits for the dispatch to end and turns to the members.
LEMMA JoinMembersInv ==
    ASSUME GroupInv, NEW t \in Threads, JoinMembers(t)
    PROVE  GroupInv' /\ Closing
<1>1. /\ At(t, "group_join") /\ ~dispatching /\ UNCHANGED <<runtime, worker, group, stage, events, history>>
      /\ Become(t, <<[Top(t) EXCEPT !.at = "join_members", !.i = 1]>>)
  BY DEF JoinMembers
<1>2. t = Lifecycle /\ \E g : Foremost(g) /\ g.at = "group_join"
  BY <1>1, LifecycleTop
<1>3. PICK g : Foremost(g) /\ g.at = "group_join"
  BY <1>2
<1>4. g \in Frames
  BY <1>3 DEF Foremost
<1>5. PICK a : a = [g EXCEPT !.at = "join_members", !.i = 1]
  OBVIOUS
<1>6. a \in Frames
  BY <1>4, <1>5 DEF Frames, Labels
<1>7. a.at = "join_members" /\ a.kind = g.kind /\ a.i = 1
  BY <1>4, <1>5 DEF Frames
<1>8. EndSound(a)
  BY <1>1, <1>3, <1>7 DEF EndSound, Foremost, Ready
<1>9. Ready(a)'
  BY <1>7, MembersAre DEF Ready, JoinedTo
<1>10. Become(Lifecycle, <<a>>)
  BY <1>1, <1>2, <1>3, <1>5 DEF Foremost
<1>11. Tame /\ stage' = stage
  BY <1>1, Rests
<1> QED
  BY <1>3, <1>6, <1>7, <1>8, <1>9, <1>10, <1>11, JoinGoes

\* join() has joined every member and chooses the failure to return.
LEMMA ChoosePrimaryInv ==
    ASSUME GroupInv, NEW t \in Threads, ChoosePrimary(t)
    PROVE  GroupInv' /\ Closing
<1>0. GroupTypeOK
  BY GroupInvParts
<1>1. /\ At(t, "join_members") /\ UNCHANGED <<runtime, worker, group, stage, events, history>>
      /\ Become(t, <<[Top(t) EXCEPT !.at = "report", !.f = IF @ # Null THEN @ ELSE FirstRecorded]>>)
  BY DEF ChoosePrimary
<1>2. t = Lifecycle /\ \E g : Foremost(g) /\ g.at = "join_members"
  BY <1>1, LifecycleTop
<1>3. PICK g : Foremost(g) /\ g.at = "join_members"
  BY <1>2
<1>4. g \in Frames /\ g = Top(Lifecycle)
  BY <1>3 DEF Foremost
<1>g. g \in Frames
  BY <1>4
<1>5. PICK f \in Failures \cup {Null} : f = IF g.f # Null THEN g.f ELSE FirstRecorded
  <2>1. g.f \in Failures \cup {Null}
    BY <1>g DEF Frames
  <2>2. FirstRecorded \in Failures \cup {Null}
    BY <1>0, FirstRecordedFailure
  <2> QED
    BY <2>1, <2>2
<1>6. PICK a : a = [g EXCEPT !.at = "report", !.f = f]
  OBVIOUS
<1>7. a \in Frames
  BY <1>g, <1>6 DEF Frames, Labels
<1>8. a.at = "report" /\ a.kind = g.kind
  BY <1>g, <1>6 DEF Frames
<1>9. rt_joined = Runtimes
  <2>1. JoinedTo(g.i) /\ ~Looping(g) /\ g.i \in Nat
    BY <1>3, <1>g DEF Foremost, Ready, OnTop, Frames
  <2>2. \A j \in DOMAIN Members : j < g.i
    BY <2>1, MembersAre DEF Looping
  <2>3. \A j \in DOMAIN Members : Members[j] \in rt_joined
    BY <2>1, <2>2 DEF JoinedTo
  <2>4. Runtimes \subseteq rt_joined
    BY <2>3, MembersAre
  <2> QED
    BY <1>0, <2>4 DEF GroupTypeOK
<1>10. EndSound(a)
  BY <1>3, <1>8, <1>9 DEF EndSound, Foremost
<1>11. Ready(a)'
  BY <1>8 DEF Ready
<1>12. Become(Lifecycle, <<a>>)
  BY <1>1, <1>2, <1>4, <1>5, <1>6
<1>13. Tame /\ stage' = stage
  BY <1>1, Rests
<1> QED
  BY <1>3, <1>7, <1>8, <1>10, <1>11, <1>12, <1>13, JoinGoes

\* join() reports the other failures and returns.
LEMMA ReportRestInv ==
    ASSUME GroupInv, NEW t \in Threads, ReportRest(t)
    PROVE  GroupInv' /\ Closing
<1>0. GroupTypeOK /\ OneWinner /\ NotificationsCounted /\ GroupAgrees
  BY GroupInvParts
<1>1. /\ At(t, "report") /\ Become(t, << >>) /\ stage' = "joined"
      /\ observed' = [m \in Runtimes |-> TRUE]
      /\ reported' = reported \cup ({failure[m] : m \in Runtimes} \ {Null, Top(t).f})
      /\ delivered' = delivered \cup ({Top(t).f} \ {Null})
      /\ UNCHANGED <<lifecycle, rt_dispatching, phases, failure, joins, binding, owner, worker,
                     stopping, dispatching, member_stopped, group_failure, events, outcome, independent, asked>>
  BY DEF ReportRest, Return
<1>2. t = Lifecycle /\ \E g : Foremost(g) /\ g.at = "report"
  BY <1>1, LifecycleTop
<1>3. PICK g : Foremost(g) /\ g.at = "report"
  BY <1>2
<1>4. g \in Frames /\ g = Top(Lifecycle) /\ stopping /\ ~dispatching /\ rt_joined = Runtimes
  BY <1>3 DEF Foremost, EndSound
<1>5. g.f \in Failures \cup {Null}
  BY <1>4 DEF Frames
<1>6. Tame
  <2>1. delivered' \subseteq Failures
    BY <1>0, <1>1, <1>2, <1>4, <1>5 DEF GroupTypeOK
  <2>2. reported' \subseteq Failures
    BY <1>0, <1>1 DEF GroupTypeOK
  <2>3. observed' \in [Runtimes -> BOOLEAN] /\ outcome' \in Failures \cup {"none", "true", "false", "stopped"}
        /\ events' \in 0..MaxEvents /\ asked' \in BOOLEAN
    BY <1>0, <1>1 DEF GroupTypeOK
  <2>4. UNCHANGED <<lifecycle, rt_dispatching, phases, failure, joins, binding, owner, worker, group, independent>>
    BY <1>1 DEF group
  <2> QED
    BY <1>1, <2>1, <2>2, <2>3, <2>4 DEF Tame
<1>7. Ends
  BY <1>1, <1>2, <1>3, <1>6, TameOnward, EndsCall
<1>8. GroupTypeOK' /\ RuntimesAgree'
  BY <1>6, <1>7, TameParts DEF Ends
<1>9. OneWinner' /\ NotificationsCounted'
  BY <1>0, <1>1, <1>7, Unchanges, QuietWinner, QuietCount DEF Ends
<1>10. LifecycleAgrees' /\ stack'[Lifecycle] = << >>
  BY <1>7 DEF Ends, LifecycleAgrees
<1>11. GroupAgrees'
  <2>1. ~Gone' /\ BeforeStart' /\ GivenUp'
    BY <1>1, <1>10 DEF Gone, BeforeStart, GivenUp
  <2>2. /\ rt_joined' = Runtimes /\ ~dispatching' /\ stopping' /\ (member_stopped' => independent' # {})
    BY <1>0, <1>1, <1>4, Unchanges DEF GroupAgrees
  <2> QED
    BY <1>1, <1>10, <2>1, <2>2 DEF GroupAgrees
<1> QED
  BY <1>7, <1>8, <1>9, <1>10, <1>11 DEF GroupInv, Ends

\* The lifecycle thread calls start().
LEMMA StartGroupInv ==
    ASSUME GroupInv, StartGroup
    PROVE  GroupInv' /\ Closing
<1>0. GroupAgrees
  BY GroupInvParts
<1>1. stage = "cold" /\ UNCHANGED <<runtime, worker, group, stage, events, history>>
  BY DEF StartGroup
<1>2. PICK kind \in {"start", "launch"} : Begin(Lifecycle, <<Frame("launch", kind, Null)>>)
  BY DEF StartGroup
<1>3. kind \in Kinds /\ "launch" \in Labels
  BY DEF Kinds, Labels
<1>4. PICK a : a = Frame("launch", kind, Null)
  OBVIOUS
<1>5. a \in Frames /\ a.at = "launch" /\ a.kind = kind /\ a.i = 1 /\ a.f = Null
  BY <1>3, <1>4, NewFrame
<1>6. Tame /\ stage' = stage
  BY <1>1, Rests
<1>7. stack[Lifecycle] = << >> /\ Begin(Lifecycle, <<a>>)
  BY <1>2, <1>4 DEF Begin
<1>8. \A j \in DOMAIN Members : lifecycle[Members[j]] # "running"
  BY <1>0, <1>1, <1>7, MembersAre DEF GroupAgrees, BeforeStart
<1>9. PhaseSound(a) /\ EndSound(a) /\ Fits(a) /\ Ready(a)'
  BY <1>1, <1>5, <1>8 DEF PhaseSound, EndSound, Fits, Ready
<1>10. Goes(a)
  BY <1>5, <1>6, <1>7, <1>9, TameOnward, GoesBegin
<1>11. ~GivenUp
  BY <1>1, <1>7 DEF GivenUp
<1>12. GroupInv'
  BY <1>1, <1>5, <1>6, <1>9, <1>10, <1>11, TameGoes
<1> QED
  BY <1>10, <1>12 DEF Goes

\* The lifecycle thread calls serve().
LEMMA ServeGroupInv ==
    ASSUME GroupInv, ServeGroup
    PROVE  GroupInv' /\ Closing
<1>1. /\ stage = "started" /\ UNCHANGED <<runtime, worker, group, stage, events, history>>
      /\ Begin(Lifecycle, <<Frame("serve_member", "serve", Null)>>)
  BY DEF ServeGroup
<1>2. PICK a : a = Frame("serve_member", "serve", Null)
  OBVIOUS
<1>3. a \in Frames /\ a.at = "serve_member" /\ a.kind = "serve" /\ a.i = 1 /\ a.f = Null
  BY <1>2, NewFrame DEF Kinds, Labels
<1>4. Tame /\ stage' = stage
  BY <1>1, Rests
<1>5. stack[Lifecycle] = << >> /\ Begin(Lifecycle, <<a>>)
  BY <1>1, <1>2 DEF Begin
<1>6. PhaseSound(a) /\ EndSound(a) /\ Fits(a) /\ Ready(a)'
  BY <1>1, <1>3 DEF PhaseSound, EndSound, Fits, Ready
<1>7. Goes(a)
  BY <1>3, <1>4, <1>5, <1>6, TameOnward, GoesBegin
<1>8. ~GivenUp
  BY <1>1, <1>5 DEF GivenUp
<1>9. GroupInv'
  BY <1>1, <1>3, <1>4, <1>6, <1>7, <1>8, TameGoes
<1> QED
  BY <1>7, <1>9 DEF Goes

\* The lifecycle thread calls join(), which stops the group first.
LEMMA JoinGroupInv ==
    ASSUME GroupInv, JoinGroup
    PROVE  GroupInv' /\ Closing
<1>0. GroupTypeOK /\ Lifecycle \in Threads
  BY GroupInvParts, ThreadsAre
<1>1. PICK f \in Failures \cup {Null} : f = IF outcome \in Failures THEN outcome ELSE Null
  OBVIOUS
<1>2. /\ stage \notin {"joined", "destroyed"} /\ asked' = TRUE
      /\ Begin(Lifecycle, <<[Frame("group_join", "join", Null) EXCEPT !.f = f], GroupStop>>)
      /\ UNCHANGED <<runtime, worker, group, stage, events, outcome, delivered, reported, independent>>
  BY <1>1 DEF JoinGroup
<1>3. PICK c : c = Frame("group_join", "join", Null)
  OBVIOUS
<1>4. c \in Frames /\ c.at = "group_join" /\ c.kind = "join"
  BY <1>3, NewFrame DEF Kinds, Labels
<1>c. c \in Frames
  BY <1>4
<1>5. PICK a : a = [c EXCEPT !.f = f]
  OBVIOUS
<1>6. a \in Frames
  BY <1>c, <1>5 DEF Frames
<1>7. a.at = "group_join" /\ a.kind = "join"
  BY <1>4, <1>5 DEF Frames
<1>8. /\ GroupStop \in Frames /\ Sound(Lifecycle, GroupStop)' /\ Ready(GroupStop)' /\ ~Counts(GroupStop)
      /\ GroupStop.at = "group_stop"
  BY <1>0, GroupStopSound, GroupStopFrame
<1>9. Above(a, GroupStop)'
  BY <1>7, <1>8 DEF Above, Owes
<1>10. Fits(a) /\ EndSound(a)
  BY <1>2, <1>6, <1>7 DEF Fits, EndSound
<1>11. Tame
  <2>1. UNCHANGED <<lifecycle, rt_dispatching, phases, failure, observed, joins, binding, owner, worker, group>>
    BY <1>2, Resting
  <2> QED
    BY <1>0, <1>2, <2>1 DEF Tame, GroupTypeOK
<1>12. Begin(Lifecycle, <<a, GroupStop>>)
  BY <1>2, <1>3, <1>5
<1>13. Goes(a)
  BY <1>7, <1>8, <1>9, <1>10, <1>11, <1>12, TameOnward, GoesBeginTwo
<1>14. GroupInv'
  BY <1>2, <1>7, <1>10, <1>11, <1>13, TameGoes
<1> QED
  BY <1>13, <1>14 DEF Goes

-----------------------------------------------------------------------------
(* The destructor of the group                                              *)

\* The destructor goes on.
LEMMA DestroyGoes ==
    ASSUME GroupInv, Onward, NEW a, Goes(a), a.at \in DestroyFrames, GroupTypeOK', RuntimesAgree',
           UNCHANGED group, independent' = independent, chain' = chain, notifying' = notifying,
           notifications' = notifications, stage' = stage, stage = "joined", EndSound(a)',
           stack[Other] # << >> => stack[Other][1].kind \notin {"group", "last"}
    PROVE  GroupInv' /\ Closing
<1>0. OneWinner /\ NotificationsCounted /\ GroupAgrees
  BY GroupInvParts
<1>1. OneWinner' /\ NotificationsCounted'
  BY <1>0, QuietWinner, QuietCount DEF Goes
<1>2. PICK h : h = stack'[Lifecycle][1]
  OBVIOUS
<1>3. h = a /\ stack'[Lifecycle] # << >> /\ stack'[Other] = stack[Other]
  BY <1>2, ThreadsAre DEF Goes
<1>4. LifecycleAgrees'
  BY <1>2, <1>3 DEF LifecycleAgrees
<1>5. GroupAgrees'
  <2>1. rt_joined' = Runtimes
    BY <1>0 DEF GroupAgrees, Onward, GroupTypeOK
  <2>2. ~dispatching' /\ stopping' /\ (member_stopped' => independent' # {})
    BY <1>0, Unchanges DEF GroupAgrees
  <2>3. stack'[Lifecycle][1].at \in DestroyFrames /\ GivenUp' /\ BeforeStart'
    BY <1>2, <1>3 DEF GivenUp, BeforeStart
  <2> QED
    BY <2>1, <2>2, <2>3, <1>3 DEF GroupAgrees
<1> QED
  BY <1>1, <1>4, <1>5 DEF GroupInv, Goes

\* The lifecycle thread destroys the group.
LEMMA DestroyGroupInv ==
    ASSUME GroupInv, DestroyGroup
    PROVE  GroupInv' /\ Closing
<1>1. /\ stage = "joined" /\ UNCHANGED <<runtime, worker, group, stage, events, history>>
      /\ stack[Other] # << >> => stack[Other][1].kind \notin {"group", "last"}
      /\ Begin(Lifecycle, <<Frame("unbind", "destroy", Null)>>)
  BY DEF DestroyGroup
<1>2. PICK a : a = Frame("unbind", "destroy", Null)
  OBVIOUS
<1>3. a \in Frames /\ a.at = "unbind" /\ a.kind = "destroy" /\ a.i = 1
  BY <1>2, NewFrame DEF Kinds, Labels
<1>4. Tame /\ stage' = stage
  BY <1>1, Rests
<1>5. Fits(a) /\ Ready(a)'
  BY <1>3 DEF Fits, Ready
<1>6. EndSound(a)'
  <2>1. UnboundTo(1)'
    BY MembersAre DEF UnboundTo
  <2> QED
    BY <1>1, <1>3, <1>4, <2>1 DEF EndSound
<1>7. Goes(a)
  BY <1>1, <1>2, <1>3, <1>4, <1>5, TameOnward, GoesBegin
<1>8. GroupTypeOK' /\ RuntimesAgree'
  BY <1>4, <1>7, TameParts DEF Goes
<1>9. UNCHANGED group /\ independent' = independent /\ chain' = chain /\ notifying' = notifying
      /\ notifications' = notifications
  BY <1>1, Unchanges
<1> QED
  BY <1>1, <1>3, <1>4, <1>6, <1>7, <1>8, <1>9, TameOnward, DestroyGoes

\* The group goes away.
LEMMA Destroying ==
    ASSUME GroupInv, NEW g, Foremost(g), g.at \in DestroyFrames
    PROVE  /\ stage = "joined" /\ UnboundTo(g.i) /\ rt_joined = Runtimes /\ ~dispatching /\ stopping
           /\ g \in Frames /\ g = Top(Lifecycle) /\ g.i \in Nat /\ g.i # 0
           /\ stack[Other] # << >> => stack[Other][1].kind \notin {"group", "last"}
<1>1. GroupAgrees
  BY GroupInvParts
<1>2. Gone
  BY DEF Gone, Foremost
<1> QED
  BY <1>1, <1>2 DEF Foremost, EndSound, GroupAgrees, Frames

\* The destructor waits until no notification of a member is in flight.
LEMMA UnboundInv ==
    ASSUME GroupInv, NEW t \in Threads, Unbound(t)
    PROVE  GroupInv' /\ Closing
<1>1. /\ At(t, "unbound") /\ UnbindReady(Current(t)) /\ Next_(t, "unbind")
      /\ UNCHANGED <<runtime, worker, group, stage, events, history>>
  BY DEF Unbound
<1>2. t = Lifecycle /\ \E g : Foremost(g) /\ g.at = "unbound"
  BY <1>1, LifecycleTop
<1>3. PICK g : Foremost(g) /\ g.at = "unbound"
  BY <1>2
<1>4. /\ stage = "joined" /\ UnboundTo(g.i) /\ g = Top(Lifecycle) /\ g.i \in Nat
      /\ stack[Other] # << >> => stack[Other][1].kind \notin {"group", "last"}
  BY <1>3, Destroying
<1>g. g \in Frames
  BY <1>3, Destroying
<1>5. g.i \in DOMAIN Members /\ Members[g.i] \notin bound /\ notifications[Members[g.i]] = 0
  BY <1>1, <1>2, <1>3, <1>4 DEF Foremost, EndSound, UnbindReady, Current
<1>6. g.i + 1 \in Nat /\ g.i + 1 # 0
  BY <1>4
<1>7. PICK a : a = [g EXCEPT !.at = "unbind", !.i = g.i + 1]
  OBVIOUS
<1>8. a \in Frames
  BY <1>g, <1>6, <1>7 DEF Frames, Labels
<1>9. a.at = "unbind" /\ a.kind = g.kind /\ a.i = g.i + 1
  BY <1>g, <1>7 DEF Frames
<1>10. Tame /\ stage' = stage
  BY <1>1, Rests
<1>11. EndSound(a)'
  <2>1. \A j \in DOMAIN Members : j < g.i + 1 => j < g.i \/ j = g.i
    BY <1>4, MembersAre
  <2>2. UnboundTo(a.i)
    BY <1>4, <1>5, <1>9, <2>1 DEF UnboundTo
  <2>3. UnboundTo(a.i)'
    BY <1>1, <2>2, Unchanges DEF UnboundTo
  <2> QED
    BY <1>4, <1>6, <1>9, <1>10, <2>3 DEF EndSound
<1>12. Fits(a) /\ Ready(a)'
  BY <1>3, <1>8, <1>9 DEF Fits, Ready, Foremost
<1>13. Become(Lifecycle, <<a>>)
  BY <1>1, <1>2, <1>4, <1>7 DEF Next_
<1>14. Goes(a)
  BY <1>3, <1>10, <1>12, <1>13, TameOnward, GoesOne
<1>15. GroupTypeOK' /\ RuntimesAgree'
  BY <1>10, <1>14, TameParts DEF Goes
<1>16. UNCHANGED group /\ independent' = independent /\ chain' = chain /\ notifying' = notifying
       /\ notifications' = notifications
  BY <1>1, Unchanges
<1> QED
  BY <1>4, <1>9, <1>10, <1>11, <1>14, <1>15, <1>16, TameOnward, DestroyGoes

\* The destructor unbinds a member, or has unbound them all.
LEMMA UnbindInv ==
    ASSUME GroupInv, NEW t \in Threads, Unbind(t)
    PROVE  GroupInv' /\ Closing
<1>0. GroupTypeOK /\ RuntimesAgree /\ OneWinner /\ NotificationsCounted /\ GroupAgrees
  BY GroupInvParts
<1>1. /\ At(t, "unbind")
      /\ UNCHANGED <<lifecycle, rt_dispatching, phases, failed, joins, notifications, owner, worker, group, events,
                     history>>
  BY DEF Unbind
<1>2. t = Lifecycle /\ \E g : Foremost(g) /\ g.at = "unbind"
  BY <1>1, LifecycleTop
<1>3. PICK g : Foremost(g) /\ g.at = "unbind"
  BY <1>2
<1>4. /\ stage = "joined" /\ UnboundTo(g.i) /\ rt_joined = Runtimes /\ ~dispatching /\ stopping
      /\ g = Top(Lifecycle) /\ g.i \in Nat /\ g.i # 0
      /\ stack[Other] # << >> => stack[Other][1].kind \notin {"group", "last"}
  BY <1>3, Destroying
<1>g. g \in Frames
  BY <1>3, Destroying
<1>5. Onward
  BY <1>1, Unchanges DEF Onward, Cause, Stoppable
<1>6. ASSUME stack' \in [Threads -> Seq(Frames)], \A u \in Threads \ {Lifecycle} : stack'[u] = stack[u]
      PROVE  RuntimesAgree'
  <2>1. \A m \in Runtimes : owner[m] # "running" => stack'[m] = << >>
    BY <1>0, <1>6, ThreadsAre DEF RuntimesAgree
  <2>2. /\ lifecycle' = lifecycle /\ chain' = chain /\ control' = control /\ ready' = ready /\ serving' = serving
        /\ owner' = owner /\ notifying' \subseteq notifying /\ independent \subseteq independent'
        /\ rt_joined' = rt_joined /\ rt_dispatching' = rt_dispatching
    BY <1>1, Unchanges
  <2> QED
    BY <1>0, <1>5, <2>1, <2>2, RuntimesStay
<1>7. UNCHANGED group /\ independent' = independent /\ chain' = chain /\ notifying' = notifying
      /\ notifications' = notifications
  BY <1>1, Unchanges
<1>8. CASE Looping(Top(t))
  <2>1. bound' = bound \ {Current(t)} /\ Goto(t, "unbound") /\ stage' = stage
    BY <1>8 DEF Unbind
  <2>2. PICK a : a = [g EXCEPT !.at = "unbound"]
    OBVIOUS
  <2>3. a \in Frames
    BY <1>g, <2>2 DEF Frames, Labels
  <2>4. a.at = "unbound" /\ a.kind = g.kind /\ a.i = g.i
    BY <1>g, <2>2 DEF Frames
  <2>5. g.i \in DOMAIN Members /\ Current(t) = Members[g.i]
    BY <1>2, <1>4, <1>8, MembersAre DEF Looping, Current
  <2>6. EndSound(a)'
    <3>1. UnboundTo(g.i)'
      BY <1>4, <1>7, <2>1 DEF UnboundTo
    <3> QED
      BY <1>4, <2>1, <2>4, <2>5, <3>1 DEF EndSound
  <2>7. Fits(a) /\ Ready(a)'
    BY <1>3, <2>3, <2>4 DEF Fits, Ready, Foremost
  <2>8. Become(Lifecycle, <<a>>)
    BY <1>2, <1>4, <2>1, <2>2 DEF Goto
  <2>9. Goes(a)
    BY <1>3, <1>5, <2>7, <2>8, GoesOne
  <2>10. RuntimesAgree' /\ stack' \in [Threads -> Seq(Frames)]
    BY <1>6, <2>9 DEF Goes
  <2>11. GroupTypeOK'
    BY <1>0, <1>1, <2>1, <2>10, Unchanges DEF GroupTypeOK
  <2> QED
    BY <1>4, <1>5, <1>7, <2>1, <2>4, <2>6, <2>9, <2>10, <2>11, DestroyGoes
<1>9. CASE ~Looping(Top(t))
  <2>1. Become(t, << >>) /\ stage' = "destroyed" /\ bound' = bound
    BY <1>9 DEF Unbind, Return
  <2>2. Ends
    BY <1>2, <1>3, <1>5, <2>1, EndsCall
  <2>3. RuntimesAgree' /\ stack' \in [Threads -> Seq(Frames)]
    BY <1>6, <2>2 DEF Ends
  <2>4. GroupTypeOK'
    BY <1>0, <1>1, <2>1, <2>3, Unchanges DEF GroupTypeOK
  <2>5. OneWinner' /\ NotificationsCounted'
    BY <1>0, <1>7, <2>2, QuietWinner, QuietCount DEF Ends
  <2>6. LifecycleAgrees' /\ stack'[Lifecycle] = << >> /\ stack'[Other] = stack[Other]
    BY <2>2, ThreadsAre DEF Ends, LifecycleAgrees
  <2>7. GroupAgrees'
    <3>1. UnboundTo(Len(Members) + 1)'
      <4>1. \A j \in DOMAIN Members : j < g.i
        BY <1>2, <1>4, <1>9, MembersAre DEF Looping
      <4> QED
        BY <1>4, <1>7, <2>1, <4>1 DEF UnboundTo
    <3>2. GivenUp' /\ BeforeStart'
      BY <2>1 DEF GivenUp, BeforeStart
    <3>3. rt_joined' = Runtimes /\ ~dispatching' /\ stopping' /\ (member_stopped' => independent' # {})
      BY <1>0, <1>1, <1>4, Unchanges DEF GroupAgrees
    <3> QED
      BY <1>4, <2>6, <3>1, <3>2, <3>3 DEF GroupAgrees
  <2> QED
    BY <2>2, <2>3, <2>4, <2>5, <2>6, <2>7 DEF GroupInv, Ends
<1> QED
  BY <1>8, <1>9

-----------------------------------------------------------------------------
(* The invariant is inductive                                               *)

\* Nobody is in a call and nothing has happened.
LEMMA GroupInitInv ==
    ASSUME GroupInit
    PROVE  GroupInv
<1>1. GroupTypeOK
  <2>1. stack \in [Threads -> Seq(Frames)]
    BY DEF GroupInit
  <2>2. /\ lifecycle \in [Runtimes -> {"ready", "running", "stopping", "stopped"}]
        /\ ready \in [Runtimes -> Phases] /\ serving \in [Runtimes -> Phases]
        /\ owner \in [Runtimes -> {"none", "running", "done"}]
        /\ chain \in [Runtimes -> {"open", "requested", "released"}]
    BY DEF GroupInit, Phases
  <2>3. /\ failure \in [Runtimes -> Failures \cup {Null}] /\ observed \in [Runtimes -> BOOLEAN]
        /\ notifications \in [Runtimes -> Nat]
    BY DEF GroupInit
  <2>4. events \in 0..MaxEvents
    BY GroupAssumption DEF GroupInit
  <2>5. /\ stopping \in BOOLEAN /\ dispatching \in BOOLEAN /\ member_stopped \in BOOLEAN /\ asked \in BOOLEAN
        /\ group_failure \in {<< >>} \cup (Failures \X Runtimes)
        /\ stage \in {"cold", "started", "serving", "over", "joined", "destroyed"}
        /\ outcome \in Failures \cup {"none", "true", "false", "stopped"}
    BY DEF GroupInit
  <2>6. /\ rt_dispatching \subseteq Runtimes /\ rt_joining \subseteq Runtimes /\ rt_joined \subseteq Runtimes
        /\ bound \subseteq Runtimes /\ accepting \subseteq Runtimes /\ notifying \subseteq Runtimes
        /\ control \subseteq Runtimes /\ delivered \subseteq Failures /\ reported \subseteq Failures
        /\ independent \subseteq Runtimes
    BY DEF GroupInit
  <2> QED
    BY <2>1, <2>2, <2>3, <2>4, <2>5, <2>6 DEF GroupTypeOK
<1>2. \A t \in Threads : stack[t] = << >>
  BY DEF GroupInit
<1>3. CallsNest
  BY <1>2 DEF CallsNest, Nested
<1>4. Calls = {}
  BY <1>2 DEF Calls
<1>5. OneWinner
  BY <1>4 DEF OneWinner, Winners, HookRuns
<1>6. NotificationsCounted
  <2>1. \A m \in Runtimes : Notifiers(m) = {} /\ notifications[m] = 0
    BY <1>4 DEF Notifiers, GroupInit
  <2> QED
    BY <2>1, FS_EmptySet DEF NotificationsCounted
<1>7. LifecycleAgrees
  BY <1>2, ThreadsAre DEF LifecycleAgrees
<1>8. RuntimesAgree
  <2>1. ASSUME NEW m \in Runtimes
        PROVE  RuntimeAgrees(m)
    BY <1>2, ThreadsAre DEF RuntimeAgrees, GroupInit, Stoppable
  <2> QED
    BY <2>1, RuntimesAre
<1>9. GroupAgrees
  BY <1>2, ThreadsAre DEF GroupAgrees, GroupInit, Gone, BeforeStart
<1> QED
  BY <1>1, <1>3, <1>5, <1>6, <1>7, <1>8, <1>9 DEF GroupInv

\* Nothing happens.
LEMMA GroupStillInv ==
    ASSUME GroupInv, UNCHANGED groupVars
    PROVE  GroupInv' /\ Closing
<1>0. GroupTypeOK /\ CallsNest /\ RuntimesAgree /\ GroupAgrees
  BY GroupInvParts
<1>1. UNCHANGED <<stack, runtime, worker, group, stage, events, history>>
  BY DEF groupVars
<1>2. Onward
  BY <1>1, Unchanges DEF Onward, Cause, Stoppable
<1>3. CallsNest' /\ stack' \in [Threads -> Seq(Frames)] /\ Rooted /\ Quiet /\ Closing
  BY <1>0, <1>1, <1>2, StillNests
<1>4. Aside
  BY <1>0, <1>1, <1>2, Unchanges DEF Aside, GroupTypeOK
<1>5. RuntimesAgree'
  BY <1>0, <1>1, <1>2, <1>3, Unchanges, RuntimesKept
<1>6. GroupTypeOK'
  BY <1>0, <1>1, <1>3, Unchanges DEF GroupTypeOK
<1>7. (member_stopped' => independent' # {}) /\ (stopping' => stopping)
  BY <1>0, <1>1, Unchanges DEF GroupAgrees
<1> QED
  BY <1>1, <1>3, <1>4, <1>5, <1>6, <1>7, Unchanges, AsideQuiet

\* Every step of start() and serve().
LEMMA PhaseStepInv ==
    ASSUME GroupInv, PhaseStep(Lifecycle)
    PROVE  GroupInv' /\ Closing
<1>1. Lifecycle \in Threads
  BY ThreadsAre
<1> QED
  BY <1>1, LaunchMemberInv, MemberStartInv, StartThrowsInv, WaitForMemberInv, ServeMemberInv, RequestServeInv,
     PostControlInv, SettlePhaseInv, SettleWaitInv, VerdictInv DEF PhaseStep

\* Every step of join() and the destructor.
LEMMA JoinStepInv ==
    ASSUME GroupInv, JoinStep(Lifecycle)
    PROVE  GroupInv' /\ Closing
<1>1. Lifecycle \in Threads
  BY ThreadsAre
<1> QED
  BY <1>1, JoinMembersInv, ChoosePrimaryInv, ReportRestInv, UnbindInv, UnboundInv DEF JoinStep

\* GroupInv is inductive, and no step breaks StopHasClosed.
LEMMA GroupNextInv ==
    ASSUME GroupInv, GroupNext
    PROVE  GroupInv' /\ Closing
<1>1. CASE \E t \in Threads : Inside(t) \/ HookReenters(t) \/ ServeThrows(t)
  BY <1>1, InsideInv
<1>2. CASE PhaseStep(Lifecycle)
  BY <1>2, PhaseStepInv
<1>3. CASE JoinStep(Lifecycle)
  BY <1>3, JoinStepInv
<1>4. CASE \E m \in Runtimes : OwnerStep(m)
  BY <1>4, MarkReadyInv, ApplyServeInv, ApplyStopInv, RunEndsInv DEF OwnerStep
<1>5. CASE StartGroup \/ ServeGroup \/ JoinGroup \/ DestroyGroup
  BY <1>5, StartGroupInv, ServeGroupInv, JoinGroupInv, DestroyGroupInv
<1>6. CASE \E m \in Runtimes : OwnerThrows(m)
  BY <1>6, OwnerThrowsInv
<1>7. CASE OtherStopsGroup
  BY <1>7, OtherStopsGroupInv
<1>8. CASE \E m \in Runtimes : OtherStops(m) \/ OtherFails(m) \/ OtherJoins(m)
  BY <1>8, OtherStopsInv, OtherFailsInv, OtherJoinsInv
<1> QED
  BY <1>1, <1>2, <1>3, <1>4, <1>5, <1>6, <1>7, <1>8 DEF GroupNext, Running

\* Once the group is gone nobody is in a call of it.
LEMMA GoneQuiet ==
    ASSUME GroupInv
    PROVE  GroupOutlivesCalls
<1> SUFFICES ASSUME stage = "destroyed", NEW t \in Threads, NEW i \in DOMAIN stack[t]
             PROVE  stack[t][i].at \notin GroupFrames
  BY DEF GroupOutlivesCalls
<1>0. GroupTypeOK /\ CallsNest /\ OneWinner /\ NotificationsCounted /\ RuntimesAgree /\ GroupAgrees
  BY GroupInvParts
<1>1. /\ stack[Lifecycle] = << >> /\ UnboundTo(Len(Members) + 1) /\ rt_joined = Runtimes
      /\ stack[Other] # << >> => stack[Other][1].kind \notin {"group", "last"}
  BY <1>0 DEF GroupAgrees, Gone
<1>2. \A m \in Runtimes : stack[m] = << >> /\ HookRuns(m) = {}
  <2> SUFFICES ASSUME NEW m \in Runtimes
               PROVE  stack[m] = << >> /\ HookRuns(m) = {}
    OBVIOUS
  <2>1. stack[m] = << >> /\ m \notin notifying
    BY <1>0, <1>1, RuntimesAre DEF RuntimeAgrees
  <2> QED
    BY <1>0, <2>1 DEF OneWinner
<1>3. \A m \in Runtimes : Notifiers(m) = {}
  <2> SUFFICES ASSUME NEW m \in Runtimes
               PROVE  Notifiers(m) = {}
    OBVIOUS
  <2>1. PICK j \in DOMAIN Members : Members[j] = m
    BY MembersAre
  <2>2. j < Len(Members) + 1
    BY MembersAre
  <2>3. notifications[m] = 0
    BY <1>1, <2>1, <2>2 DEF UnboundTo
  <2>4. IsFiniteSet(Notifiers(m)) /\ Cardinality(Notifiers(m)) = 0
    BY <1>0, <2>3 DEF NotificationsCounted
  <2> QED
    BY <2>4, FS_EmptySet
<1>4. stack[t] \in Seq(Frames) /\ stack[t] # << >> /\ i \in 1..Len(stack[t])
  BY <1>0 DEF GroupTypeOK
<1>5. t = Other
  BY <1>1, <1>2, <1>4 DEF Threads
<1>6. Nested(t, stack[t])
  BY <1>0 DEF CallsNest
<1>7. Sound(t, stack[t][i])
  BY <1>4, <1>6 DEF Nested
<1>8. SUFFICES ASSUME stack[t][i].at \in GroupFrames
               PROVE  FALSE
  OBVIOUS
<1>9. stack[t][i].kind = "group"
  BY <1>7, <1>8 DEF Sound
<1>10. i # 1
  BY <1>1, <1>4, <1>5, <1>9
<1>11. PICK j \in 1..Len(stack[t]) : i = j + 1
  <2>1. Len(stack[t]) \in Nat
    BY <1>4
  <2>2. i - 1 \in 1..Len(stack[t]) /\ i = (i - 1) + 1
    BY <2>1, <1>4, <1>10
  <2> QED
    BY <2>2
<1>12. Above(stack[t][j], stack[t][i]) /\ Sound(t, stack[t][j])
  BY <1>4, <1>6, <1>11 DEF Nested
<1>13. stack[t][j].at \in Callers
  BY <1>8, <1>12 DEF Above
<1>14. stack[t][j].at \notin {"settling", "group_join"}
  BY <1>5, <1>12, ThreadsAre DEF Sound
<1>15. PICK m \in Runtimes : m = stack[t][j].m
  BY <1>12, <1>13, <1>14 DEF Sound
<1>16. <<t, j>> \in Calls /\ Called(<<t, j>>) = stack[t][j]
  BY CallPlaces
<1>17. <<t, j>> \in Notifiers(m) \cup HookRuns(m)
  BY <1>13, <1>14, <1>15, <1>16 DEF Notifiers, HookRuns, Notifying, Hooking
<1> QED
  BY <1>2, <1>3, <1>15, <1>17

\* What retirement promises follows from the invariant: a call of the group is
\* made under a notification that the destructor has waited for, by a caller
\* whose own call ended before, or by the lifecycle thread itself.
LEMMA RetireStands ==
    ASSUME GroupInv
    PROVE  GroupOutlivesCalls /\ JoinIsBarrier /\ GroupJoined
<1>0. GroupTypeOK /\ RuntimesAgree /\ GroupAgrees
  BY GroupInvParts
<1>1. JoinIsBarrier
  <2> SUFFICES ASSUME NEW m \in rt_joined
               PROVE  /\ owner[m] = "done" /\ stack[m] = << >> /\ lifecycle[m] = "stopped"
                      /\ m \notin rt_dispatching \cup notifying \cup control
                      /\ ready[m] # "pending" /\ serving[m] # "pending"
    BY DEF JoinIsBarrier
  <2>1. m \in Runtimes
    BY <1>0 DEF GroupTypeOK
  <2>2. RuntimeAgrees(m)
    BY <1>0, <2>1, RuntimesAre
  <2> QED
    BY <2>2 DEF RuntimeAgrees
<1>2. GroupJoined
  BY <1>0 DEF GroupJoined, GroupAgrees
<1> QED
  BY <1>1, <1>2, GoneQuiet

-----------------------------------------------------------------------------
(* What the callers were told                                               *)

\* Nothing that was said or reached is taken back.
Kept ==
    /\ (asked => asked') /\ independent \subseteq independent'
    /\ delivered \subseteq delivered' /\ reported \subseteq reported'
    /\ \A m \in Runtimes : /\ ready[m] = "reached" => ready'[m] = "reached"
                           /\ serving[m] = "reached" => serving'[m] = "reached"

Plain == Kept /\ UNCHANGED <<stage, outcome, failure, observed>>

Books == UNCHANGED <<phases, failed, stage, history>>

\* A step that leaves the books alone keeps what was said.
LEMMA BooksPlain ==
    ASSUME Books
    PROVE  Plain
<1>1. /\ asked' = asked /\ independent' = independent /\ delivered' = delivered /\ reported' = reported
      /\ outcome' = outcome /\ ready' = ready /\ serving' = serving /\ failure' = failure /\ observed' = observed
      /\ stage' = stage
  BY Unchanges DEF Books
<1> QED
  BY <1>1 DEF Plain, Kept

\* A step that takes nothing back keeps both promises.
LEMMA PlainKeeps ==
    ASSUME Plain
    PROVE  (PhaseVerdict => PhaseVerdict') /\ (NoFailureVanishes => NoFailureVanishes')
<1>1. PhaseVerdict => PhaseVerdict'
  BY DEF Plain, Kept, PhaseVerdict
<1>2. NoFailureVanishes => NoFailureVanishes'
  BY DEF Plain, Kept, NoFailureVanishes
<1> QED
  BY <1>1, <1>2

\* The steps inside a call that leave the books alone.
LEMMA InsideBooks ==
    ASSUME NEW t \in Threads,
           \/ GroupStopBegin(t) \/ GroupStopEnds(t) \/ MemberFailed(t) \/ MemberStopping(t) \/ NotifyStop(t)
           \/ StopCloses(t) \/ HooksReturn(t) \/ RequestChain(t) \/ NotifyFailure(t) \/ Crash(t)
           \/ JoinBegin(t) \/ JoinThread(t) \/ ServeThrows(t)
    PROVE  Books
<1>1. CASE GroupStopBegin(t) \/ GroupStopEnds(t) \/ MemberFailed(t) \/ MemberStopping(t)
  BY <1>1 DEF GroupStopBegin, GroupStopEnds, MemberFailed, MemberStopping, runtime, Books
<1>2. CASE NotifyStop(t) \/ NotifyFailure(t)
  BY <1>2 DEF NotifyStop, NotifyFailure, NotifyGroup, GroupNotified, Books
<1>3. CASE StopCloses(t) \/ HooksReturn(t) \/ RequestChain(t) \/ Crash(t) \/ ServeThrows(t)
  BY <1>3 DEF StopCloses, HooksReturn, RequestChain, Crash, ServeThrows, CloseThen, runtime, Books
<1>4. CASE JoinBegin(t) \/ JoinThread(t)
  BY <1>4 DEF JoinBegin, JoinThread, Books
<1> QED
  BY <1>1, <1>2, <1>3, <1>4

\* The steps of the owners, the lifecycle thread and others that do.
LEMMA OuterBooks ==
    ASSUME NEW t \in Threads, NEW m \in Runtimes,
           \/ StartThrows(t) \/ ServeMember(t) \/ RequestServe(t) \/ PostControl(t) \/ SettleWait(t)
           \/ JoinMembers(t) \/ ChoosePrimary(t) \/ Unbound(t)
           \/ ApplyServe(m) \/ ApplyStop(m) \/ OwnerThrows(m)
           \/ StartGroup \/ ServeGroup \/ DestroyGroup \/ OtherStops(m) \/ OtherFails(m) \/ OtherJoins(m)
    PROVE  Books
<1>1. CASE StartThrows(t) \/ ServeMember(t) \/ RequestServe(t) \/ PostControl(t) \/ SettleWait(t)
  BY <1>1 DEF StartThrows, ServeMember, RequestServe, PostControl, SettleWait, runtime, Books
<1>2. CASE JoinMembers(t) \/ ChoosePrimary(t) \/ Unbound(t)
  BY <1>2 DEF JoinMembers, ChoosePrimary, Unbound, runtime, Books
<1>3. CASE ApplyServe(m) \/ ApplyStop(m) \/ OwnerThrows(m)
  BY <1>3 DEF ApplyServe, ApplyStop, OwnerThrows, runtime, Books
<1>4. CASE StartGroup \/ ServeGroup \/ DestroyGroup
  BY <1>4 DEF StartGroup, ServeGroup, DestroyGroup, runtime, Books
<1>5. CASE OtherStops(m) \/ OtherFails(m) \/ OtherJoins(m)
  BY <1>5 DEF OtherStops, OtherFails, OtherJoins, runtime, Books
<1> QED
  BY <1>1, <1>2, <1>3, <1>4, <1>5

\* Aborting the phases of a runtime keeps a phase that was reached.
LEMMA AbortKeeps ==
    ASSUME GroupTypeOK, NEW m \in Runtimes, AbortPhases(m)
    PROVE  \A n \in Runtimes : /\ ready[n] = "reached" => ready'[n] = "reached"
                               /\ serving[n] = "reached" => serving'[n] = "reached"
BY DEF GroupTypeOK, AbortPhases, Aborted

\* The steps inside a call that only add to the books.
LEMMA InsidePlain ==
    ASSUME GroupInv, NEW t \in Threads,
           StopBegin(t) \/ HookReenters(t) \/ StopDispatched(t) \/ ServeReturns(t)
    PROVE  Plain
<1>0. GroupTypeOK /\ CallsNest
  BY GroupInvParts
<1>1. CASE StopBegin(t)
  <2>1. UNCHANGED <<phases, failed, stage, outcome, delivered, reported, asked>> /\ independent \subseteq independent'
    BY <1>1 DEF StopBegin
  <2> QED
    BY <2>1, Unchanges DEF Plain, Kept
<1>2. CASE HookReenters(t)
  <2>1. UNCHANGED <<phases, failed, stage, outcome, delivered, reported, independent>> /\ asked' = TRUE
    BY <1>2 DEF HookReenters, runtime
  <2> QED
    BY <2>1, Unchanges DEF Plain, Kept
<1>3. CASE StopDispatched(t)
  <2>1. At(t, "abort") /\ AbortPhases(Mine(t)) /\ UNCHANGED <<failed, stage, history>>
    BY <1>3 DEF StopDispatched
  <2>2. Mine(t) \in Runtimes
    <3>1. PICK B, k, g : /\ Topped(t, B, k, g) /\ g \in Frames /\ g = Top(t) /\ g.at = "abort" /\ Sound(t, g)
      BY <1>0, <2>1, TopAt
    <3> QED
      BY <3>1 DEF Sound, Mine
  <2>3. PICK m \in Runtimes : m = Mine(t)
    BY <2>2
  <2>4. \A n \in Runtimes : /\ ready[n] = "reached" => ready'[n] = "reached"
                            /\ serving[n] = "reached" => serving'[n] = "reached"
    BY <1>0, <2>1, <2>3, AbortKeeps
  <2> QED
    BY <2>1, <2>4, Unchanges DEF Plain, Kept
<1>4. CASE ServeReturns(t)
  <2>1. /\ UNCHANGED <<ready, failed, stage, history>>
        /\ \E m : serving' = [serving EXCEPT ![m] = IF @ = "pending" /\ lifecycle[m] = "running" THEN "reached" ELSE @]
    BY <1>4 DEF ServeReturns
  <2>2. \A n \in Runtimes : serving[n] = "reached" => serving'[n] = "reached"
    BY <1>0, <2>1 DEF GroupTypeOK
  <2> QED
    BY <2>1, <2>2, Unchanges DEF Plain, Kept
<1> QED
  BY <1>1, <1>2, <1>3, <1>4

\* The other steps that only add to them.
LEMMA OuterPlain ==
    ASSUME GroupInv, NEW m \in Runtimes, MarkReady(m) \/ RunEnds(m) \/ JoinGroup \/ OtherStopsGroup
    PROVE  Plain
<1>0. GroupTypeOK
  BY GroupInvParts
<1>1. CASE MarkReady(m)
  <2>1. ready' = [ready EXCEPT ![m] = "reached"] /\ UNCHANGED <<serving, failed, stage, history>>
    BY <1>1 DEF MarkReady
  <2>2. \A n \in Runtimes : ready[n] = "reached" => ready'[n] = "reached"
    BY <1>0, <2>1 DEF GroupTypeOK
  <2> QED
    BY <2>1, <2>2, Unchanges DEF Plain, Kept
<1>2. CASE RunEnds(m)
  <2>1. AbortPhases(m) /\ UNCHANGED <<failed, stage, history>>
    BY <1>2 DEF RunEnds
  <2>2. \A n \in Runtimes : /\ ready[n] = "reached" => ready'[n] = "reached"
                            /\ serving[n] = "reached" => serving'[n] = "reached"
    BY <1>0, <2>1, AbortKeeps
  <2> QED
    BY <2>1, <2>2, Unchanges DEF Plain, Kept
<1>3. CASE JoinGroup \/ OtherStopsGroup
  <2>1. UNCHANGED <<phases, failed, stage, outcome, delivered, reported, independent>> /\ asked' = TRUE
    BY <1>3 DEF JoinGroup, OtherStopsGroup, runtime
  <2> QED
    BY <2>1, Unchanges DEF Plain, Kept
<1> QED
  BY <1>1, <1>2, <1>3

\* Both promises to the callers are kept.
Held == (PhaseVerdict => PhaseVerdict') /\ (NoFailureVanishes => NoFailureVanishes')

\* A step that leaves the books alone keeps both promises.
LEMMA BooksHeld ==
    ASSUME Books
    PROVE  Held
BY BooksPlain, PlainKeeps DEF Held

\* Once the group is joined the lifecycle thread records nothing.
LEMMA JoinedRecordsNothing ==
    ASSUME GroupInv, NEW t \in Threads, At(t, "record"), stage \in {"joined", "destroyed"}
    PROVE  ~Top(t).flag
<1>0. GroupTypeOK /\ CallsNest /\ GroupAgrees
  BY GroupInvParts
<1>1. PICK B, k, g : /\ Topped(t, B, k, g) /\ g \in Frames /\ g = Top(t) /\ g.at = "record" /\ Sound(t, g)
  BY <1>0, TopAt
<1>2. SUFFICES ASSUME t = Lifecycle
               PROVE  FALSE
  BY <1>1 DEF Sound
<1>3. stack[t] # << >> /\ stack[t] \in Seq(Frames) /\ k = Len(stack[t]) /\ g = stack[t][k] /\ k \in Nat /\ k >= 1
  BY <1>0, <1>1 DEF Topped, Based, GroupTypeOK
<1>4. stack[t][1].at \in DestroyFrames
  BY <1>0, <1>2, <1>3 DEF GroupAgrees
<1>5. k # 1
  BY <1>1, <1>3, <1>4
<1>6. 1 \in 1..Len(stack[t]) /\ 1 + 1 \in 1..Len(stack[t])
  <2>1. k \in Nat /\ k >= 1 /\ k # 1
    BY <1>3, <1>5
  <2>2. 1 \in 1..k /\ 1 + 1 \in 1..k
    BY <2>1
  <2> QED
    BY <1>3, <2>2
<1>7. Above(stack[t][1], stack[t][1 + 1])
  BY <1>0, <1>6 DEF CallsNest, Nested
<1> QED
  BY <1>4, <1>7 DEF Above

\* A failure recorded before the join is not yet due; after it none is recorded.
LEMMA RecordHeld ==
    ASSUME GroupInv, NEW t \in Threads, Record(t)
    PROVE  Held
<1>0. GroupTypeOK
  BY GroupInvParts
<1>1. PICK m : m = Mine(t)
  OBVIOUS
<1>2. /\ At(t, "record")
      /\ \/ /\ failure[m] = Null /\ failure' = [failure EXCEPT ![m] = Top(t).f]
            /\ observed' = [observed EXCEPT ![m] = Top(t).flag]
         \/ failure' = failure /\ observed' = observed
      /\ UNCHANGED <<phases, stage, history>>
  BY <1>1 DEF Record, failed
<1>3. /\ asked' = asked /\ independent' = independent /\ delivered' = delivered /\ reported' = reported
      /\ outcome' = outcome /\ ready' = ready /\ serving' = serving /\ stage' = stage
  BY <1>2, Unchanges
<1>4. PhaseVerdict => PhaseVerdict'
  BY <1>3 DEF PhaseVerdict
<1>5. ASSUME NoFailureVanishes, stage' \in {"joined", "destroyed"}, NEW n \in Runtimes,
             failure'[n] # Null /\ observed'[n]
      PROVE  failure'[n] \in delivered' \cup reported'
  <2>1. ~Top(t).flag
    BY <1>2, <1>3, <1>5, JoinedRecordsNothing
  <2>2. failure'[n] = failure[n] /\ observed'[n] = observed[n]
    BY <1>0, <1>2, <1>5, <2>1 DEF GroupTypeOK
  <2> QED
    BY <1>3, <1>5, <2>2 DEF NoFailureVanishes
<1> QED
  BY <1>4, <1>5 DEF Held, NoFailureVanishes

\* A phase call that ends says what is true.
LEMMA SpokenEnds ==
    ASSUME NEW r, PhaseEnds(r), UNCHANGED phases, r # "true", r = "false" => asked, r = "stopped" => independent # {}
    PROVE  Held
<1>1. /\ stage' = "over" /\ outcome' = r /\ independent' = independent /\ asked' = asked
  BY DEF PhaseEnds
<1>2. PhaseVerdict'
  BY <1>1 DEF PhaseVerdict
<1>3. NoFailureVanishes'
  BY <1>1 DEF NoFailureVanishes
<1> QED
  BY <1>2, <1>3 DEF Held

\* start() that cannot launch has not said anything new.
LEMMA NotLaunchedHeld ==
    ASSUME NotLaunched(Lifecycle), UNCHANGED <<phases, failed>>
    PROVE  Held
<1>1. CASE Settle(Lifecycle, FALSE) /\ UNCHANGED <<stage, history>>
  BY <1>1, BooksHeld DEF Books
<1>2. CASE PhaseEnds("none")
  BY <1>2, SpokenEnds
<1> QED
  BY <1>1, <1>2 DEF NotLaunched

\* Nor has one that launches.
LEMMA LaunchHeld ==
    ASSUME LaunchMember(Lifecycle) \/ MemberStart(Lifecycle)
    PROVE  Held
<1>1. UNCHANGED <<phases, failed>>
  BY Unchanges DEF LaunchMember, MemberStart, runtime
<1>2. UNCHANGED <<stage, history>> \/ NotLaunched(Lifecycle) \/ PhaseEnds("none")
  BY DEF LaunchMember, MemberStart
<1>3. CASE UNCHANGED <<stage, history>>
  BY <1>1, <1>3, BooksHeld DEF Books
<1>4. CASE NotLaunched(Lifecycle)
  BY <1>1, <1>4, NotLaunchedHeld
<1>5. CASE PhaseEnds("none")
  BY <1>1, <1>5, SpokenEnds
<1> QED
  BY <1>2, <1>3, <1>4, <1>5

\* A phase call that waits for a member has seen the ones before it get there.
LEMMA WaitHeld ==
    ASSUME GroupInv, WaitForMember(Lifecycle)
    PROVE  Held
<1>1. At(Lifecycle, "wait") /\ UNCHANGED <<phases, stage, history>>
  BY DEF WaitForMember
<1>2. PICK g : Foremost(g) /\ g.at = "wait"
  BY <1>1, ThreadsAre, LifecycleTop
<1>3. stage \in {"cold", "started"}
  BY <1>2, PhaseStage
<1>4. /\ asked' = asked /\ independent' = independent /\ outcome' = outcome /\ ready' = ready /\ serving' = serving
      /\ stage' = stage
  BY <1>1, Unchanges
<1>5. PhaseVerdict => PhaseVerdict'
  BY <1>4 DEF PhaseVerdict
<1>6. NoFailureVanishes'
  BY <1>3, <1>4 DEF NoFailureVanishes
<1> QED
  BY <1>5, <1>6 DEF Held

\* A phase call that settles says true only of members that all got there.
LEMMA SettleHeld ==
    ASSUME GroupInv, SettlePhase(Lifecycle)
    PROVE  Held
<1>1. At(Lifecycle, "settle") /\ UNCHANGED <<phases, failed>>
  BY Unchanges DEF SettlePhase, runtime
<1>2. PICK g : Foremost(g) /\ g.at = "settle"
  BY <1>1, ThreadsAre, LifecycleTop
<1>3. /\ g \in Frames /\ g = Top(Lifecycle) /\ g.i \in Nat /\ g.kind \in {"start", "serve"}
      /\ (g.flag => ReachedTo(g.kind, g.i + 1)) /\ stage = IF g.kind = "serve" THEN "started" ELSE "cold"
  BY <1>2, PhaseStage DEF Foremost, PhaseSound, Frames
<1>4. CASE UNCHANGED <<stage, history>>
  BY <1>1, <1>4, BooksHeld DEF Books
<1>5. CASE g.flag /\ ~Looping(g) /\ PhaseEnds("true")
  <2>1. /\ stage' = (IF stage = "cold" THEN "started" ELSE "serving") /\ outcome' = "true"
        /\ ready' = ready /\ serving' = serving
    BY <1>1, <1>5, Unchanges DEF PhaseEnds
  <2>2. \A m \in Runtimes : (IF g.kind = "start" THEN ready[m] ELSE serving[m]) = "reached"
    <3>1. \A j \in DOMAIN Members : j < g.i + 1
      BY <1>3, <1>5, MembersAre DEF Looping
    <3>2. \A j \in DOMAIN Members :
            (IF g.kind = "start" THEN ready[Members[j]] ELSE serving[Members[j]]) = "reached"
      BY <1>3, <1>5, <3>1 DEF ReachedTo
    <3> QED
      BY <3>2, MembersAre
  <2>3. PhaseVerdict'
    BY <1>3, <2>1, <2>2 DEF PhaseVerdict
  <2>4. NoFailureVanishes'
    BY <2>1 DEF NoFailureVanishes
  <2> QED
    BY <2>3, <2>4 DEF Held
<1> QED
  BY <1>3, <1>4, <1>5 DEF SettlePhase

\* A phase call says false only when the group was asked to stop, and blames a
\* member only when one stopped of its own accord.
LEMMA VerdictHeld ==
    ASSUME GroupInv, Verdict(Lifecycle)
    PROVE  Held
<1>0. GroupTypeOK /\ GroupAgrees
  BY GroupInvParts
<1>1. At(Lifecycle, "verdict") /\ UNCHANGED phases
  BY DEF Verdict
<1>2. PICK g : Foremost(g) /\ g.at = "verdict"
  BY <1>1, ThreadsAre, LifecycleTop
<1>3. /\ g \in Frames /\ g = Top(Lifecycle)
      /\ g.f = Null => IF g.flag \/ g.i = 0 THEN Cause ELSE independent # {}
  BY <1>2, PhaseStage DEF Foremost, PhaseSound
<1>4. g.f \in Failures \cup {Null}
  BY <1>3 DEF Frames
<1>5. \A f \in Failures : f \notin {"none", "true", "false", "stopped"}
  BY GroupAssumption
<1>6. CASE group_failure # << >>
  <2>1. group_failure[1] \in Failures /\ PhaseEnds(group_failure[1])
    BY <1>0, <1>6 DEF GroupTypeOK, Verdict
  <2> QED
    BY <1>1, <1>5, <2>1, SpokenEnds
<1>7. CASE group_failure = << >>
  <2>1. PICK r : r = IF g.f # Null THEN g.f ELSE IF Blames(Lifecycle) THEN "stopped" ELSE "false"
    OBVIOUS
  <2>2. PhaseEnds(r)
    BY <1>3, <1>7, <2>1 DEF Verdict
  <2>3. r # "true"
    BY <1>4, <1>5, <2>1
  <2>4. r = "false" => asked
    <3>1. r = "false" => g.f = Null /\ ~Blames(Lifecycle)
      BY <1>4, <1>5, <2>1
    <3> QED
      BY <1>3, <1>7, <3>1 DEF Blames, Cause
  <2>5. r = "stopped" => independent # {}
    <3>1. r = "stopped" => g.f = Null /\ Blames(Lifecycle)
      BY <1>4, <1>5, <2>1
    <3>2. member_stopped => independent # {}
      BY <1>0 DEF GroupAgrees
    <3> QED
      BY <1>3, <3>1, <3>2 DEF Blames
  <2> QED
    BY <1>1, <2>2, <2>3, <2>4, <2>5, SpokenEnds
<1> QED
  BY <1>6, <1>7

\* join() returns or reports every failure it has taken over.
LEMMA ReportHeld ==
    ASSUME ReportRest(Lifecycle)
    PROVE  Held
<1>1. /\ reported' = reported \cup ({failure[m] : m \in Runtimes} \ {Null, Top(Lifecycle).f})
      /\ delivered' = delivered \cup ({Top(Lifecycle).f} \ {Null}) /\ stage' = "joined"
      /\ failure' = failure /\ outcome' = outcome /\ independent' = independent /\ asked' = asked
  BY DEF ReportRest
<1>2. PhaseVerdict => PhaseVerdict'
  BY <1>1 DEF PhaseVerdict
<1>3. NoFailureVanishes'
  BY <1>1 DEF NoFailureVanishes
<1> QED
  BY <1>2, <1>3 DEF Held

\* The destruction says nothing new.
LEMMA UnbindHeld ==
    ASSUME GroupInv, Unbind(Lifecycle)
    PROVE  Held
<1>1. At(Lifecycle, "unbind") /\ UNCHANGED <<phases, failed, history>> /\ (stage' = stage \/ stage' = "destroyed")
  BY DEF Unbind
<1>2. PICK g : Foremost(g) /\ g.at = "unbind"
  BY <1>1, ThreadsAre, LifecycleTop
<1>3. stage = "joined"
  BY <1>2, Destroying
<1>4. /\ asked' = asked /\ independent' = independent /\ delivered' = delivered /\ reported' = reported
      /\ outcome' = outcome /\ failure' = failure /\ observed' = observed
  BY <1>1, Unchanges
<1>5. PhaseVerdict => PhaseVerdict'
  BY <1>1, <1>3, <1>4 DEF PhaseVerdict
<1>6. NoFailureVanishes => NoFailureVanishes'
  BY <1>3, <1>4 DEF NoFailureVanishes
<1> QED
  BY <1>5, <1>6 DEF Held

-----------------------------------------------------------------------------
(* The theorems                                                             *)

\* Every step keeps both promises to the callers.
LEMMA NextHeld ==
    ASSUME GroupInv, GroupNext
    PROVE  Held
<1>0. Lifecycle \in Threads
  BY ThreadsAre
<1>1. ASSUME NEW t \in Threads, Inside(t) \/ HookReenters(t) \/ ServeThrows(t)
      PROVE  Held
  <2>1. CASE StopBegin(t) \/ HookReenters(t) \/ StopDispatched(t) \/ ServeReturns(t)
    BY <2>1, InsidePlain, PlainKeeps DEF Held
  <2>2. CASE Record(t)
    BY <2>2, RecordHeld
  <2>3. CASE \/ GroupStopBegin(t) \/ GroupStopEnds(t) \/ MemberFailed(t) \/ MemberStopping(t) \/ NotifyStop(t)
             \/ StopCloses(t) \/ HooksReturn(t) \/ RequestChain(t) \/ NotifyFailure(t) \/ Crash(t)
             \/ JoinBegin(t) \/ JoinThread(t) \/ ServeThrows(t)
    BY <2>3, InsideBooks, BooksHeld
  <2> QED
    BY <1>1, <2>1, <2>2, <2>3 DEF Inside
<1>2. ASSUME PhaseStep(Lifecycle)
      PROVE  Held
  <2>1. CASE LaunchMember(Lifecycle) \/ MemberStart(Lifecycle)
    BY <2>1, LaunchHeld
  <2>2. CASE WaitForMember(Lifecycle)
    BY <2>2, WaitHeld
  <2>3. CASE SettlePhase(Lifecycle)
    BY <2>3, SettleHeld
  <2>4. CASE Verdict(Lifecycle)
    BY <2>4, VerdictHeld
  <2>5. CASE \/ StartThrows(Lifecycle) \/ ServeMember(Lifecycle) \/ RequestServe(Lifecycle)
             \/ PostControl(Lifecycle) \/ SettleWait(Lifecycle)
    BY <2>5, BooksHeld DEF StartThrows, ServeMember, RequestServe, PostControl, SettleWait, runtime, Books
  <2> QED
    BY <1>2, <2>1, <2>2, <2>3, <2>4, <2>5 DEF PhaseStep
<1>3. ASSUME JoinStep(Lifecycle)
      PROVE  Held
  <2>1. CASE ReportRest(Lifecycle)
    BY <2>1, ReportHeld
  <2>2. CASE Unbind(Lifecycle)
    BY <2>2, UnbindHeld
  <2>3. CASE JoinMembers(Lifecycle) \/ ChoosePrimary(Lifecycle) \/ Unbound(Lifecycle)
    BY <2>3, BooksHeld DEF JoinMembers, ChoosePrimary, Unbound, runtime, Books
  <2> QED
    BY <1>3, <2>1, <2>2, <2>3 DEF JoinStep
<1>4. ASSUME NEW m \in Runtimes, OwnerStep(m) \/ OwnerThrows(m) \/ OtherStops(m) \/ OtherFails(m) \/ OtherJoins(m)
      PROVE  Held
  <2>1. CASE MarkReady(m) \/ RunEnds(m)
    BY <2>1, OuterPlain, PlainKeeps DEF Held
  <2>2. CASE ApplyServe(m) \/ ApplyStop(m) \/ OwnerThrows(m) \/ OtherStops(m) \/ OtherFails(m) \/ OtherJoins(m)
    BY <1>0, <2>2, OuterBooks, BooksHeld
  <2> QED
    BY <1>4, <2>1, <2>2 DEF OwnerStep
<1>5. ASSUME StartGroup \/ ServeGroup \/ DestroyGroup
      PROVE  Held
  BY <1>5, BooksHeld DEF StartGroup, ServeGroup, DestroyGroup, runtime, Books
<1>6. ASSUME JoinGroup \/ OtherStopsGroup
      PROVE  Held
  <2>1. UNCHANGED <<phases, failed, stage, outcome, delivered, reported, independent>> /\ asked' = TRUE
    BY <1>6 DEF JoinGroup, OtherStopsGroup, runtime
  <2>2. Plain
    BY <2>1, Unchanges DEF Plain, Kept
  <2> QED
    BY <2>2, PlainKeeps DEF Held
<1> QED
  BY <1>1, <1>2, <1>3, <1>4, <1>5, <1>6 DEF GroupNext, Running

\* What every step keeps.
GroupPromises == GroupInv /\ PhaseVerdict /\ NoFailureVanishes

\* The invariant with the promises is inductive.
LEMMA GroupStep ==
    ASSUME GroupPromises, [GroupNext]_groupVars
    PROVE  GroupPromises' /\ Closing
<1>1. CASE GroupNext
  BY <1>1, GroupNextInv, NextHeld DEF GroupPromises, Held
<1>2. CASE UNCHANGED groupVars
  <2>1. Books
    BY <1>2 DEF groupVars, runtime, Books
  <2> QED
    BY <1>2, <2>1, GroupStillInv, BooksHeld DEF GroupPromises, Held
<1> QED
  BY <1>1, <1>2

\* From any number of members, calls and failures: the calls of all threads nest,
\* each stop has one winner, notifications are counted, and where the lifecycle
\* thread is agrees with the runtimes; and the promises of start(), serve() and
\* join() to their callers are kept.
THEOREM GroupInvariant == GroupSpec => []GroupPromises
<1>1. GroupInit => GroupPromises
  BY GroupInitInv DEF GroupPromises, PhaseVerdict, NoFailureVanishes, GroupInit
<1>2. GroupPromises /\ [GroupNext]_groupVars => GroupPromises'
  BY GroupStep
<1> QED
  BY <1>1, <1>2, PTL DEF GroupSpec

\* A destroyed group is in nobody's call, the join of a runtime is a barrier, and
\* the group is joined only when all its members are.
THEOREM GroupRetires == GroupSpec => []RetireInv
<1>1. GroupPromises => RetireInv
  BY RetireStands, GroupInvParts DEF GroupPromises, RetireInv
<1> QED
  BY <1>1, GroupInvariant, PTL

\* start() and serve() say true only when every member got there, false only when
\* the group was asked to stop, and blame a member only when one stopped.
THEOREM VerdictsTrue == GroupSpec => []PhaseVerdict
<1>1. GroupPromises => PhaseVerdict
  BY DEF GroupPromises
<1> QED
  BY <1>1, GroupInvariant, PTL

\* Every failure that was taken over from a runtime was returned by join(), thrown
\* by a phase call or reported.
THEOREM FailuresAccounted == GroupSpec => []NoFailureVanishes
<1>1. GroupPromises => NoFailureVanishes
  BY DEF GroupPromises
<1> QED
  BY <1>1, GroupInvariant, PTL

\* Every request_stop(), of a runtime or of the group, won or repeated, returns
\* with admission closed.
THEOREM StopsClose == GroupSpec => StopHasClosed
<1>1. GroupPromises /\ [GroupNext]_groupVars => [Closing]_groupVars
  BY GroupStep
<1>2. GroupSpec => [][Closing]_groupVars
  BY <1>1, GroupInvariant, PTL DEF GroupSpec
<1>3. [Closing]_groupVars =>
        [\A t \in Threads :
         /\ Returns(t) /\ Top(t).at \in {"stop", "close", "abort"} => Mine(t) \notin accepting'
         /\ Returns(t) /\ (Top(t).kind \in {"group", "last"}) => accepting' = {}]_groupVars
  BY DEF Closing
<1> QED
  BY <1>2, <1>3, PTL DEF StopHasClosed
=============================================================================
