----------------------------- MODULE ChainLemmas -----------------------------
(* What linking and unlinking do to the nodes of a chain.                   *)
EXTENDS Chains, FiniteSets, FiniteSetTheorems, FunctionTheorems, SequenceTheorems,
        WellFoundedInduction, TLAPS

\* An empty chain has no node.
LEMMA ChainEmpty == Elems(<< >>) = {} /\ Distinct(<< >>)
BY DEF Elems, Distinct

\* Only an empty chain has no node.
LEMMA ChainIsEmpty ==
    ASSUME NEW S, NEW s \in Seq(S)
    PROVE  s = << >> <=> Elems(s) = {}
<1>1. s # << >> => Len(s) \in Nat /\ 1 \in 1..Len(s)
  OBVIOUS
<1> QED
  BY <1>1, ChainEmpty DEF Elems

\* A chain of one node has that node.
LEMMA ChainOne ==
    ASSUME NEW n
    PROVE  Elems(<<n>>) = {n} /\ Distinct(<<n>>)
BY DEF Elems, Distinct

\* Linking a node at the tail adds that node.
LEMMA ChainAppend ==
    ASSUME NEW S, NEW s \in Seq(S), NEW n \in S
    PROVE  /\ Append(s, n) \in Seq(S)
           /\ Elems(Append(s, n)) = Elems(s) \cup {n}
           /\ Distinct(s) /\ n \notin Elems(s) => Distinct(Append(s, n))
<1>1. Append(s, n) \in Seq(S) /\ Len(Append(s, n)) = Len(s) + 1
  OBVIOUS
<1>2. \A i \in 1..Len(s) : Append(s, n)[i] = s[i]
  OBVIOUS
<1>3. Append(s, n)[Len(s) + 1] = n
  OBVIOUS
<1>4. 1..(Len(s) + 1) = (1..Len(s)) \cup {Len(s) + 1}
  OBVIOUS
<1>5. Elems(Append(s, n)) = Elems(s) \cup {n}
  BY <1>1, <1>2, <1>3, <1>4 DEF Elems
<1>6. ASSUME Distinct(s), n \notin Elems(s)
      PROVE  Distinct(Append(s, n))
  BY <1>1, <1>2, <1>3, <1>4, <1>6 DEF Distinct, Elems
<1> QED
  BY <1>1, <1>5, <1>6

\* Unlinking the head leaves the other nodes.
LEMMA ChainTail ==
    ASSUME NEW S, NEW s \in Seq(S), s # << >>
    PROVE  /\ Head(s) \in S /\ Tail(s) \in Seq(S)
           /\ Len(Tail(s)) = Len(s) - 1
           /\ Len(s) >= 1
           /\ Elems(s) = Elems(Tail(s)) \cup {Head(s)}
           /\ Distinct(s) => Distinct(Tail(s)) /\ Head(s) \notin Elems(Tail(s))
<1>1. Len(s) \in Nat /\ Len(s) >= 1
  OBVIOUS
<1>2. Head(s) = s[1] /\ Head(s) \in S /\ Tail(s) \in Seq(S) /\ Len(Tail(s)) = Len(s) - 1
  BY <1>1
<1>3. \A i \in 1..(Len(s) - 1) : Tail(s)[i] = s[i + 1]
  BY <1>1
<1>4. Elems(s) \subseteq Elems(Tail(s)) \cup {Head(s)}
  <2>1. SUFFICES ASSUME NEW i \in 1..Len(s)
                 PROVE  s[i] \in Elems(Tail(s)) \cup {Head(s)}
    BY DEF Elems
  <2>2. CASE i = 1
    BY <1>2, <2>2
  <2>3. CASE i # 1
    <3>1. i - 1 \in 1..(Len(s) - 1) /\ (i - 1) + 1 = i
      BY <1>1, <2>3
    <3>2. Tail(s)[i - 1] = s[i]
      BY <1>3, <3>1
    <3>3. i - 1 \in 1..Len(Tail(s))
      BY <3>1, <1>2
    <3> QED
      BY <3>2, <3>3 DEF Elems
  <2> QED
    BY <2>2, <2>3
<1>5. Elems(Tail(s)) \cup {Head(s)} \subseteq Elems(s)
  BY <1>1, <1>2, <1>3 DEF Elems
<1>6. ASSUME Distinct(s)
      PROVE  Distinct(Tail(s)) /\ Head(s) \notin Elems(Tail(s))
  BY <1>1, <1>2, <1>3, <1>6 DEF Distinct, Elems
<1> QED
  BY <1>1, <1>2, <1>4, <1>5, <1>6

\* Taking the last node of a stack leaves the other nodes.
LEMMA ChainFront ==
    ASSUME NEW S, NEW s \in Seq(S), s # << >>
    PROVE  /\ Len(s) \in Nat \ {0} /\ s[Len(s)] \in S
           /\ SubSeq(s, 1, Len(s) - 1) \in Seq(S)
           /\ Elems(s) = Elems(SubSeq(s, 1, Len(s) - 1)) \cup {s[Len(s)]}
           /\ Distinct(s) => /\ Distinct(SubSeq(s, 1, Len(s) - 1))
                             /\ s[Len(s)] \notin Elems(SubSeq(s, 1, Len(s) - 1))
<1> DEFINE f == SubSeq(s, 1, Len(s) - 1)
<1>1. Len(s) \in Nat \ {0} /\ s[Len(s)] \in S
  OBVIOUS
<1>2. f \in Seq(S) /\ Len(f) = Len(s) - 1
  <2>1. PICK k \in Nat : k = Len(s) - 1
    BY <1>1
  <2>2. \A i \in 1..k : s[i] \in S
    BY <1>1, <2>1
  <2>3. SubSeq(s, 1, k) \in Seq(S)
    BY <2>2, SubSeqProperties
  <2>4. Len(SubSeq(s, 1, k)) = k
    BY <1>1, <2>1
  <2> QED
    BY <2>1, <2>3, <2>4
<1>3. \A i \in 1..(Len(s) - 1) : f[i] = s[i]
  BY <1>1
<1>4. 1..Len(s) = (1..(Len(s) - 1)) \cup {Len(s)}
  BY <1>1
<1> HIDE DEF f
<1>5. Elems(s) = Elems(f) \cup {s[Len(s)]}
  BY <1>2, <1>3, <1>4 DEF Elems
<1>6. ASSUME Distinct(s) PROVE Distinct(f) /\ s[Len(s)] \notin Elems(f)
  BY <1>1, <1>2, <1>3, <1>6 DEF Distinct, Elems
<1> QED
  BY <1>1, <1>2, <1>5, <1>6 DEF f

\* Unlinking a node leaves the other nodes.
LEMMA ChainUnlink ==
    ASSUME NEW S, NEW s \in Seq(S), NEW n, Distinct(s)
    PROVE  /\ Without(s, n) \in Seq(S)
           /\ Elems(Without(s, n)) = Elems(s) \ {n}
           /\ Distinct(Without(s, n))
<1>1. CASE n \notin Elems(s)
  BY <1>1 DEF Without
<1>2. CASE n \in Elems(s)
  <2> DEFINE i == CHOOSE i \in 1..Len(s) : s[i] = n
             u == [j \in 1..(Len(s) - 1) |-> IF j < i THEN s[j] ELSE s[j + 1]]
  <2>1. i \in 1..Len(s) /\ s[i] = n /\ Len(s) \in Nat /\ Len(s) >= 1
    BY <1>2 DEF Elems
  <2>2. Without(s, n) = u
    BY <1>2 DEF Without
  <2> HIDE DEF i
  <2>3. u \in Seq(S) /\ Len(u) = Len(s) - 1
    <3>1. u \in [1..(Len(s) - 1) -> S]
      BY <2>1
    <3>2. Len(s) - 1 \in Nat
      BY <2>1
    <3> QED
      BY <3>1, <3>2, LenProperties, IsASeq
  <2>4. \A j \in 1..(Len(s) - 1) : u[j] = IF j < i THEN s[j] ELSE s[j + 1]
    OBVIOUS
  <2> HIDE DEF u
  <2>5. \A j \in 1..(Len(s) - 1) : \E k \in 1..Len(s) :
          /\ k # i /\ u[j] = s[k] /\ k = IF j < i THEN j ELSE j + 1
    BY <2>1, <2>4
  <2>8. Elems(u) \subseteq Elems(s) \ {n}
    BY <2>1, <2>3, <2>5 DEF Elems, Distinct
  <2>6. Elems(s) \ {n} \subseteq Elems(u)
    <3> SUFFICES ASSUME NEW k \in 1..Len(s), s[k] # n PROVE s[k] \in Elems(u)
      BY DEF Elems
    <3>1. CASE k < i
      <4>1. k \in 1..(Len(s) - 1) /\ u[k] = s[k]
        BY <2>1, <2>4, <3>1
      <4> QED
        BY <4>1, <2>3 DEF Elems
    <3>2. CASE k > i
      <4>1. k - 1 \in 1..(Len(s) - 1) /\ u[k - 1] = s[k]
        BY <2>1, <2>4, <3>2
      <4> QED
        BY <4>1, <2>3 DEF Elems
    <3>3. k # i
      BY <2>1
    <3> QED
      BY <3>1, <3>2, <3>3, <2>1
  <2>7. Distinct(u)
    <3> SUFFICES ASSUME NEW j \in 1..(Len(s) - 1), NEW k \in 1..(Len(s) - 1), u[j] = u[k]
                 PROVE  j = k
      BY <2>3 DEF Distinct
    <3>1. PICK p \in 1..Len(s) : u[j] = s[p] /\ p = IF j < i THEN j ELSE j + 1
      BY <2>5
    <3>2. PICK q \in 1..Len(s) : u[k] = s[q] /\ q = IF k < i THEN k ELSE k + 1
      BY <2>5
    <3>3. p = q
      BY <3>1, <3>2 DEF Distinct
    <3> QED
      BY <3>1, <3>2, <3>3, <2>1
  <2> QED
    BY <2>2, <2>3, <2>8, <2>6, <2>7
<1> QED
  BY <1>1, <1>2

\* Unlinking a node leaves the others in their order.
LEMMA ChainUnlinkOrder ==
    ASSUME NEW S, NEW s \in Seq(S), NEW n,
           NEW i \in 1..Len(Without(s, n)), NEW j \in 1..Len(Without(s, n)), i < j
    PROVE  \E p, q \in 1..Len(s) :
               p < q /\ Without(s, n)[i] = s[p] /\ Without(s, n)[j] = s[q]
<1>1. CASE n \notin Elems(s)
  BY <1>1 DEF Without
<1>2. CASE n \in Elems(s)
  <2> DEFINE k == CHOOSE k \in 1..Len(s) : s[k] = n
             u == [a \in 1..(Len(s) - 1) |-> IF a < k THEN s[a] ELSE s[a + 1]]
             At(a) == IF a < k THEN a ELSE a + 1
  <2>1. k \in 1..Len(s) /\ Len(s) \in Nat
    BY <1>2 DEF Elems
  <2>2. Without(s, n) = u
    BY <1>2 DEF Without
  <2> HIDE DEF k
  <2>3. u \in Seq(S) /\ Len(u) = Len(s) - 1
    <3>1. u \in [1..(Len(s) - 1) -> S] /\ Len(s) - 1 \in Nat
      BY <2>1
    <3> QED
      BY <3>1, LenProperties, IsASeq
  <2>4. i \in 1..(Len(s) - 1) /\ j \in 1..(Len(s) - 1)
    BY <2>2, <2>3
  <2>5. u[i] = s[At(i)] /\ u[j] = s[At(j)]
    BY <2>4
  <2>6. At(i) \in 1..Len(s) /\ At(j) \in 1..Len(s) /\ At(i) < At(j)
    BY <2>1, <2>4
  <2> QED
    BY <2>2, <2>5, <2>6
<1> QED
  BY <1>1, <1>2

\* A chain with a node of some kind has a first one.
LEMMA ChainFirst ==
    ASSUME NEW S, NEW s \in Seq(S), NEW K, NEW i \in 1..Len(s), s[i] \in K
    PROVE  \E k \in 1..Len(s) : s[k] \in K /\ \A j \in 1..(k - 1) : s[j] \notin K
<1> DEFINE T == {k \in Nat : k \in 1..Len(s) /\ s[k] \in K}
<1>1. T \in SUBSET Nat /\ T # {}
  BY i \in T
<1>2. PICK k \in T : \A m \in T : k <= m
  <2>1. PICK k \in T : \A m \in T : ~(<<m, k>> \in OpToRel(<, Nat))
    BY <1>1, NatLessThanWellFounded, WFMin
  <2>2. \A m \in T : ~(m < k)
    BY <2>1 DEF OpToRel
  <2>3. \A m \in T : m \in Nat /\ k \in Nat
    OBVIOUS
  <2>4. \A m \in T : k <= m
    BY <2>2, <2>3
  <2> QED
    BY <2>4
<1>3. ASSUME NEW j \in 1..(k - 1) PROVE s[j] \notin K
  <2>1. j \in Nat /\ j \in 1..Len(s) /\ ~(k <= j)
    BY <1>3
  <2> QED
    BY <1>2, <2>1
<1> QED
  BY <1>2, <1>3

\* Nodes linked once are as many as the chain is long.
LEMMA ChainCardinality ==
    ASSUME NEW S, NEW s \in Seq(S), Distinct(s)
    PROVE  IsFiniteSet(Elems(s)) /\ Cardinality(Elems(s)) = Len(s)
<1>1. Len(s) \in Nat /\ s \in [1..Len(s) -> Elems(s)]
  BY DEF Elems
<1>2. s \in Bijection(1..Len(s), Elems(s))
  BY <1>1 DEF Bijection, Injection, IsInjective, Surjection, Distinct, Elems
<1>3. ExistsBijection(1..Len(s), Elems(s))
  BY <1>2 DEF ExistsBijection
<1>4. IsFiniteSet(1..Len(s)) /\ Cardinality(1..Len(s)) = Len(s)
  BY <1>1, FS_Interval
<1> QED
  BY <1>3, <1>4, FS_Bijection

\* Disjoint finite sets add up.
LEMMA DisjointCardinality ==
    ASSUME NEW A, NEW B, IsFiniteSet(A), IsFiniteSet(B), A \cap B = {}
    PROVE  /\ IsFiniteSet(A \cup B)
           /\ Cardinality(A) \in Nat /\ Cardinality(B) \in Nat
           /\ Cardinality(A \cup B) = Cardinality(A) + Cardinality(B)
<1>1. Cardinality(A) \in Nat /\ Cardinality(B) \in Nat
  BY FS_CardinalityType
<1>2. IsFiniteSet(A \cup B)
  BY FS_Union
<1>3. Cardinality(A \cup B) = Cardinality(A) + Cardinality(B) - Cardinality(A \cap B)
  BY FS_Union
<1>4. Cardinality(A \cap B) = 0
  BY FS_EmptySet
<1> QED
  BY <1>1, <1>2, <1>3, <1>4

\* A node linked in front of a chain.
LEMMA ChainPrepend ==
    ASSUME NEW S, NEW s \in Seq(S), NEW n \in S
    PROVE  /\ <<n>> \o s \in Seq(S)
           /\ Elems(<<n>> \o s) = Elems(s) \cup {n}
           /\ Distinct(s) /\ n \notin Elems(s) => Distinct(<<n>> \o s)
<1> DEFINE t == <<n>> \o s
<1>1. /\ t \in Seq(S) /\ Len(s) \in Nat /\ Len(t) = Len(s) + 1 /\ t[1] = n
      /\ \A i \in 1..Len(s) : t[i + 1] = s[i]
      /\ \A i \in 1..Len(t) : i # 1 => i - 1 \in 1..Len(s) /\ t[i] = s[i - 1]
  OBVIOUS
<1> HIDE DEF t
<1>2. Elems(t) = Elems(s) \cup {n}
  <2>1. \A i \in 1..Len(s) : i + 1 \in 1..Len(t)
    BY <1>1
  <2>2. 1 \in 1..Len(t)
    BY <1>1
  <2>3. \A i \in 1..Len(t) : t[i] \in Elems(s) \cup {n}
    BY <1>1 DEF Elems
  <2>4. \A i \in 1..Len(s) : s[i] \in Elems(t)
    <3> TAKE i \in 1..Len(s)
    <3>1. i + 1 \in 1..Len(t) /\ t[i + 1] = s[i]
      BY <1>1, <2>1
    <3> QED
      BY <3>1 DEF Elems
  <2>5. n \in Elems(t)
    BY <1>1, <2>2 DEF Elems
  <2> QED
    BY <2>3, <2>4, <2>5 DEF Elems
<1>3. ASSUME Distinct(s), n \notin Elems(s)
      PROVE  Distinct(t)
  <2> SUFFICES ASSUME NEW i \in 1..Len(t), NEW j \in 1..Len(t), t[i] = t[j]
               PROVE  i = j
    BY DEF Distinct
  <2>1. CASE i = 1 \/ j = 1
    BY <1>1, <1>3, <2>1 DEF Elems
  <2>2. CASE i # 1 /\ j # 1
    <3>1. PICK a \in 1..Len(s) : a = i - 1 /\ t[i] = s[a]
      BY <1>1, <2>2
    <3>2. PICK b \in 1..Len(s) : b = j - 1 /\ t[j] = s[b]
      BY <1>1, <2>2
    <3>3. a = b
      BY <1>3, <3>1, <3>2 DEF Distinct
    <3> QED
      BY <1>1, <3>1, <3>2, <3>3
  <2> QED
    BY <2>1, <2>2
<1> QED
  BY <1>1, <1>2, <1>3 DEF t
=============================================================================
