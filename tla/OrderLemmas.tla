----------------------------- MODULE OrderLemmas -----------------------------
(***************************************************************************)
(* Natural numbers, the orders of sets of them, and the lists of finite    *)
(* sets: what the proofs about the components need of them.  Induction     *)
(* takes a set of numbers, not an operator.                                *)
(***************************************************************************)
EXTENDS Orders, FiniteSetTheorems, WellFoundedInduction, TLAPS

\* Of some natural numbers one is the least.
LEMMA LeastNat ==
  ASSUME NEW P \in SUBSET Nat, P # {}
  PROVE  \E n \in P : \A m \in P : n <= m
<1>1. PICK n \in P : \A m \in P : <<m, n>> \notin OpToRel(<, Nat)
  BY NatLessThanWellFounded, WFMin
<1>2. \A m \in P : ~(m < n)
  BY <1>1 DEF OpToRel
<1> QED BY <1>2

\* A set of natural numbers that holds 0 and with each number the next holds them all.
LEMMA AllNat ==
  ASSUME NEW P \in SUBSET Nat, 0 \in P, \A n \in P : n + 1 \in P
  PROVE  P = Nat
<1> SUFFICES ASSUME Nat \ P # {} PROVE FALSE
  OBVIOUS
<1>1. PICK n \in Nat \ P : \A m \in Nat \ P : n <= m
  BY LeastNat
<1>2. n # 0 /\ n - 1 \in Nat
  BY <1>1
<1>3. n - 1 \in P
  BY <1>1, <1>2
<1>4. (n - 1) + 1 = n
  BY <1>1
<1> QED BY <1>1, <1>3, <1>4

\* Max, of a set with an upper bound.
LEMMA MaxIs ==
  ASSUME NEW S \in SUBSET Nat, S # {}, NEW n \in Nat, \A x \in S : x <= n
  PROVE  Max(S) \in S /\ \A x \in S : x <= Max(S)
<1> DEFINE U == {u \in Nat : \A x \in S : x <= u}
<1>1. n \in U
  OBVIOUS
<1>2. PICK u \in U : \A v \in U : u <= v
  BY <1>1, LeastNat
<1>3. u \in S
  <2> SUFFICES ASSUME u \notin S PROVE FALSE
    OBVIOUS
  <2>1. PICK x \in S : x <= u
    BY <1>2
  <2>2. u - 1 \in Nat /\ \A y \in S : y <= u - 1
    BY <1>2, <2>1
  <2> QED BY <1>2, <2>2
<1>4. \E x \in S : \A y \in S : x >= y
  BY <1>2, <1>3
<1>5. Max(S) \in S /\ \A y \in S : Max(S) >= y
  BY <1>4 DEF Max
<1> QED BY <1>5

\* The elements of a finite set can be put in order...
LEMMA OrderExists ==
  ASSUME NEW S, IsFiniteSet(S), NEW key \in [S -> Nat]
  PROVE  \E q \in SetToSeqs(S) : \A i, j \in DOMAIN q : i < j => key[q[i]] <= key[q[j]]
<1> DEFINE inOrder(s, q) == /\ q \in [1..Cardinality(s) -> s]
                            /\ \A i, j \in 1..Cardinality(s) : i # j => q[i] # q[j]
                            /\ \A i, j \in 1..Cardinality(s) : i < j => key[q[i]] <= key[q[j]]
           P == {k \in Nat : \A s \in SUBSET S : Cardinality(s) = k => \E q : inOrder(s, q)}
<1>0. P \in SUBSET Nat
  <2> HIDE DEF inOrder
  <2> QED OBVIOUS
<1>1. 0 \in P
  <2> SUFFICES ASSUME NEW s \in SUBSET S, Cardinality(s) = 0 PROVE \E q : inOrder(s, q)
    OBVIOUS
  <2>2. inOrder(s, [i \in 1..0 |-> 0])
    OBVIOUS
  <2> QED BY <2>2
<1>2. ASSUME NEW k \in P PROVE k + 1 \in P
  <2>0. k \in Nat /\ k + 1 \in Nat
    <3> HIDE DEF P
    <3> QED BY <1>0
  <2> SUFFICES ASSUME NEW s \in SUBSET S, Cardinality(s) = k + 1 PROVE \E q : inOrder(s, q)
    <3> HIDE DEF inOrder
    <3> QED BY <2>0
  <2>1. PICK x \in s : \A y \in s : key[x] <= key[y]
    <3> DEFINE K == {key[y] : y \in s}
    <3>1. s # {}
      <4>1. Cardinality({}) = 0
        BY FS_EmptySet
      <4> QED BY <2>0, <4>1
    <3>2. K \in SUBSET Nat /\ K # {}
      BY <3>1
    <3>3. PICK n \in K : \A m \in K : n <= m
      <4> HIDE DEF K
      <4> QED BY <3>2, LeastNat
    <3> QED BY <3>3
  <2> DEFINE r == s \ {x}
  <2>2. IsFiniteSet(s) /\ r \in SUBSET S /\ Cardinality(r) = k
    <3>1. IsFiniteSet(s)
      BY FS_Subset
    <3>2. Cardinality(r) = Cardinality(s) - 1
      BY <2>1, <3>1, FS_RemoveElement
    <3> QED BY <2>0, <3>1, <3>2
  <2>3. PICK q : inOrder(r, q)
    BY <2>2
  <2>4. q \in [1..k -> r] /\ (\A i, j \in 1..k : i # j => q[i] # q[j])
        /\ \A i, j \in 1..k : i < j => key[q[i]] <= key[q[j]]
    BY <2>2, <2>3
  <2> DEFINE p == [i \in 1..(k + 1) |-> IF i = 1 THEN x ELSE q[i - 1]]
  <2>5. \A i \in 2..(k + 1) : i - 1 \in 1..k /\ p[i] = q[i - 1] /\ p[i] \in r
    BY <2>0, <2>4
  <2>6. p[1] = x /\ x \notin r /\ x \in s /\ r \subseteq s
    BY <2>0, <2>1
  <2>7. p \in [1..(k + 1) -> s]
    <3>1. \A i \in 1..(k + 1) : i = 1 \/ i \in 2..(k + 1)
      BY <2>0
    <3>2. \A i \in 1..(k + 1) : p[i] \in s
      <4> HIDE DEF p, r
      <4> QED BY <2>5, <2>6, <3>1
    <3> QED BY <3>2
  <2>8. \A i, j \in 1..(k + 1) : i < j => p[i] # p[j] /\ key[p[i]] <= key[p[j]]
    <3> SUFFICES ASSUME NEW i \in 1..(k + 1), NEW j \in 1..(k + 1), i < j
                 PROVE  p[i] # p[j] /\ key[p[i]] <= key[p[j]]
      OBVIOUS
    <3>1. j \in 2..(k + 1) /\ (i = 1 \/ i \in 2..(k + 1))
      BY <2>0
    <3> HIDE DEF p, r
    <3>2. CASE i = 1
      BY <2>1, <2>5, <2>6, <3>1, <3>2
    <3>3. CASE i \in 2..(k + 1)
      <4>1. i - 1 < j - 1
        BY <2>0, <3>1, <3>3
      <4> QED BY <2>4, <2>5, <3>1, <3>3, <4>1
    <3> QED BY <3>1, <3>2, <3>3
  <2> HIDE DEF p
  <2>9. \A i, j \in 1..(k + 1) : i # j => p[i] # p[j]
    BY <2>0, <2>8
  <2>10. inOrder(s, p)
    BY <2>7, <2>8, <2>9
  <2> QED BY <2>10
<1> HIDE DEF inOrder
<1>3. P = Nat
  <2> HIDE DEF P
  <2> QED BY <1>0, <1>1, <1>2, AllNat
<1>4. PICK q : inOrder(S, q)
  BY <1>3, FS_CardinalityType
<1>5. q \in SetToSeqs(S) /\ DOMAIN q = 1..Cardinality(S)
  BY <1>4 DEF inOrder, SetToSeqs
<1> QED BY <1>4, <1>5 DEF inOrder

\* A list as long as the set, with no element twice, holds them all.
LEMMA NoneIsLeftOut ==
  ASSUME NEW S, IsFiniteSet(S), NEW q \in [1..Cardinality(S) -> S],
         \A i, j \in 1..Cardinality(S) : i # j => q[i] # q[j]
  PROVE  DOMAIN q = 1..Cardinality(S) /\ ToSet(q) = S
<1>1. DOMAIN q = 1..Cardinality(S) /\ ToSet(q) \subseteq S
  BY DEF ToSet
<1>2. q \in Injection(1..Cardinality(S), ToSet(q))
  BY DEF Injection, IsInjective, ToSet
<1>3. Cardinality(S) \in Nat /\ IsFiniteSet(ToSet(q))
      /\ Cardinality(ToSet(q)) <= Cardinality(S) /\ Cardinality(ToSet(q)) \in Nat
  BY <1>1, FS_Subset, FS_CardinalityType
<1>4. Cardinality(1..Cardinality(S)) = Cardinality(S)
  <2>1. Cardinality(1..Cardinality(S)) = Cardinality(S) - 1 + 1
    BY <1>3, FS_Interval
  <2> QED BY <1>3, <2>1
<1>5. Cardinality(1..Cardinality(S)) <= Cardinality(ToSet(q))
  BY <1>2, <1>3, FS_Injection
<1>6. Cardinality(S) = Cardinality(ToSet(q))
  BY <1>3, <1>4, <1>5
<1> QED BY <1>1, <1>6, FS_Subset

\* SetToSeq lists each element of a finite set once.
LEMMA Listed ==
  ASSUME NEW S, IsFiniteSet(S)
  PROVE  /\ SetToSeq(S) \in [1..Cardinality(S) -> S]
         /\ Cardinality(S) \in Nat
         /\ \A i, j \in 1..Cardinality(S) : i # j => SetToSeq(S)[i] # SetToSeq(S)[j]
         /\ ToSet(SetToSeq(S)) = S
<1> DEFINE q == SetToSeq(S)
<1>1. Cardinality(S) \in Nat /\ ExistsBijection(1..Cardinality(S), S)
  BY FS_CardinalityType
<1>2. \E f \in [1..Cardinality(S) -> S] : IsInjective(f)
  BY <1>1 DEF ExistsBijection, Bijection, Injection
<1>3. q \in [1..Cardinality(S) -> S] /\ IsInjective(q)
  BY <1>2 DEF SetToSeq
<1> HIDE DEF q
<1>4. \A i, j \in 1..Cardinality(S) : i # j => q[i] # q[j]
  BY <1>3 DEF IsInjective
<1>5. ToSet(q) = S
  BY <1>3, <1>4, NoneIsLeftOut
<1> QED BY <1>1, <1>3, <1>4, <1>5 DEF q

\* ... and OrderedBy does, leaving none out and none twice.
LEMMA OrderedByIs ==
  ASSUME NEW S, IsFiniteSet(S), NEW key \in [S -> Nat]
  PROVE  /\ OrderedBy(S, key) \in Seq(S)
         /\ ToSet(OrderedBy(S, key)) = S
         /\ \A i, j \in DOMAIN OrderedBy(S, key) : i # j => OrderedBy(S, key)[i] # OrderedBy(S, key)[j]
         /\ \A i, j \in DOMAIN OrderedBy(S, key) :
               i < j => key[OrderedBy(S, key)[i]] <= key[OrderedBy(S, key)[j]]
<1> DEFINE q == OrderedBy(S, key)
<1>1. q \in SetToSeqs(S) /\ \A i, j \in DOMAIN q : i < j => key[q[i]] <= key[q[j]]
  BY OrderExists DEF OrderedBy
<1> HIDE DEF q
<1>2. /\ q \in [1..Cardinality(S) -> S]
      /\ \A i, j \in 1..Cardinality(S) : i # j => q[i] # q[j]
  BY <1>1 DEF SetToSeqs
<1>3. Cardinality(S) \in Nat
  BY FS_CardinalityType
<1>4. q \in Seq(S)
  BY <1>2, <1>3
<1>5. DOMAIN q = 1..Cardinality(S) /\ ToSet(q) = S
  BY <1>2, <1>3, NoneIsLeftOut
<1> QED BY <1>1, <1>2, <1>4, <1>5 DEF q

\* Ascending puts the numbers of a bounded set in order.
LEMMA AscendingIs ==
  ASSUME NEW n \in Nat, NEW ms \in SUBSET (1..n)
  PROVE  /\ Ascending(ms) \in Seq(ms)
         /\ ToSet(Ascending(ms)) = ms
         /\ \A i, j \in DOMAIN Ascending(ms) : i < j => Ascending(ms)[i] < Ascending(ms)[j]
<1> DEFINE key == [m \in ms |-> m]
           q == OrderedBy(ms, key)
<1>1. IsFiniteSet(ms)
  <2>1. IsFiniteSet(1..n)
    BY FS_Interval
  <2> QED BY <2>1, FS_Subset
<1>2. key \in [ms -> Nat] /\ \A m \in ms : key[m] = m
  OBVIOUS
<1>3. Ascending(ms) = q
  BY DEF Ascending
<1> HIDE DEF key
<1>4. /\ q \in Seq(ms) /\ ToSet(q) = ms
      /\ \A i, j \in DOMAIN q : i # j => q[i] # q[j]
      /\ \A i, j \in DOMAIN q : i < j => key[q[i]] <= key[q[j]]
  BY <1>1, <1>2, OrderedByIs
<1> HIDE DEF q
<1>5. ASSUME NEW i \in DOMAIN q, NEW j \in DOMAIN q, i < j PROVE q[i] < q[j]
  <2>1. DOMAIN q \subseteq Nat /\ q[i] \in ms /\ q[j] \in ms
    BY <1>4
  <2>2. i # j
    BY <1>5, <2>1
  <2>3. q[i] # q[j] /\ key[q[i]] <= key[q[j]]
    BY <1>4, <1>5, <2>2
  <2>4. q[i] <= q[j]
    BY <1>2, <2>1, <2>3
  <2>5. q[i] \in Nat /\ q[j] \in Nat
    <3>1. ms \subseteq Nat
      OBVIOUS
    <3> QED BY <2>1, <3>1
  <2> QED BY <2>3, <2>4, <2>5
<1> QED BY <1>3, <1>4, <1>5

\* A finite set of numbers has a greatest one, which Max is.
LEMMA FiniteMaxIs ==
  ASSUME NEW S \in SUBSET Nat, IsFiniteSet(S), S # {}
  PROVE  Max(S) \in S /\ \A x \in S : x <= Max(S)
<1> DEFINE key == [n \in S |-> n]
           q == OrderedBy(S, key)
           n == Len(q)
<1>1. key \in [S -> Nat] /\ \A m \in S : key[m] = m
  OBVIOUS
<1> HIDE DEF key
<1>2. q \in Seq(S) /\ ToSet(q) = S /\ \A i, j \in DOMAIN q : i < j => key[q[i]] <= key[q[j]]
  BY <1>1, OrderedByIs
<1> HIDE DEF q
<1>3. n \in Nat /\ DOMAIN q = 1..n /\ \A i \in 1..n : q[i] \in S
  BY <1>2
<1> HIDE DEF n
<1>4. n \in 1..n
  <2>1. n # 0
    BY <1>2, <1>3 DEF ToSet
  <2> QED BY <1>3, <2>1
<1>5. ASSUME NEW x \in S PROVE x <= q[n]
  <2>1. PICK i \in 1..n : x = q[i]
    BY <1>2, <1>3 DEF ToSet
  <2>2. CASE i = n
    BY <1>3, <2>1, <2>2
  <2>3. CASE i < n
    <3>1. key[q[i]] <= key[q[n]]
      BY <1>2, <1>3, <1>4, <2>3
    <3> QED BY <1>1, <1>3, <1>4, <2>1, <3>1
  <2> QED BY <1>3, <2>2, <2>3
<1>6. q[n] \in Nat
  BY <1>3, <1>4
<1> QED BY <1>5, <1>6, MaxIs
=============================================================================
