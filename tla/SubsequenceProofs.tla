------------------------- MODULE SubsequenceProofs --------------------------
(* Facts about sequences and natural numbers that the other proofs use. *)
EXTENDS Subsequences, FiniteSetTheorems, WellFoundedInduction, NaturalsInduction, TLAPS

\* A nonempty set of naturals has a least member.
LEMMA LeastNat ==
  ASSUME NEW T \in SUBSET Nat, T # {}
  PROVE  \E x \in T : \A y \in T : x <= y
<1> DEFINE Lt == {ss \in Nat \X Nat : ss[1] < ss[2]}
<1>1. IsWellFoundedOn(Lt, Nat)
  BY NatLessThanWellFounded DEF OpToRel
<1>2. PICK x \in T : \A y \in T : ~(<<y, x>> \in Lt)
  BY <1>1, WFMin
<1>3. ASSUME NEW y \in T
      PROVE  x <= y
  <2>1. x \in Nat /\ y \in Nat
    OBVIOUS
  <2>2. ~(y < x)
    BY <1>2, <2>1
  <2> QED
    BY <2>1, <2>2
<1> QED
  BY <1>3

\* Pick(s, K) goes through the positions in K from the first to the last.
InOrder(s, K) ==
  /\ Cardinality(K) \in Nat
  /\ DOMAIN Pick(s, K) = 1..Cardinality(K)
  /\ \E pos \in [1..Cardinality(K) -> K] :
       /\ \A j \in 1..Cardinality(K) : Pick(s, K)[j] = s[pos[j]]
       /\ \A i, j \in 1..Cardinality(K) : i < j => pos[i] < pos[j]
       /\ \A k \in K : \E j \in 1..Cardinality(K) : pos[j] = k

\* Which it does for any finite set of positions.
LEMMA PickOrder ==
  ASSUME NEW s, NEW K, K \subseteq Nat, IsFiniteSet(K)
  PROVE  InOrder(s, K)
<1> DEFINE rank == [i \in K |-> Cardinality({h \in K : h <= i})]
           c == Cardinality(K)
           P(j) == CHOOSE i \in K : Cardinality({h \in K : h <= i}) = j
           pos == [j \in 1..c |-> P(j)]
<1>1. \A k \in K : k \in Nat
  OBVIOUS
<1>3. c \in Nat
  BY FS_CardinalityType
<1>4. ASSUME NEW i \in K
      PROVE  rank[i] \in 1..c
  <2> DEFINE below == {h \in K : h <= i}
  <2>1. below \in SUBSET K /\ i \in below
    OBVIOUS
  <2>2. IsFiniteSet(below) /\ Cardinality(below) <= c
    BY <2>1, FS_Subset
  <2>3. Cardinality(below) \in Nat /\ Cardinality(below) # 0
    BY <2>1, <2>2, FS_CardinalityType, FS_EmptySet
  <2> QED
    BY <2>2, <2>3, <1>3
<1>5. ASSUME NEW i \in K, NEW j \in K, i < j
      PROVE  rank[i] < rank[j]
  <2> DEFINE A == {h \in K : h <= i}
             B == {h \in K : h <= j}
  <2>6. i \in Nat /\ j \in Nat
    BY <1>1
  <2>7. ASSUME NEW h \in A
        PROVE  h \in B
    <3>1. h \in Nat /\ h <= i
      BY <1>1
    <3> QED
      BY <1>5, <2>6, <3>1
  <2>8. j \in B /\ j \notin A
    BY <1>5, <2>6
  <2>9. A \in SUBSET B
    <3> HIDE DEF A, B
    <3> QED
      BY <2>7
  <2>1. A \in SUBSET B /\ j \in B /\ j \notin A
    BY <2>8, <2>9
  <2>2. IsFiniteSet(B)
    BY FS_Subset
  <2>3. Cardinality(A) <= Cardinality(B) /\ Cardinality(A) # Cardinality(B)
    BY <2>1, <2>2, FS_Subset
  <2>4. Cardinality(A) \in Nat /\ Cardinality(B) \in Nat
    BY <2>1, <2>2, FS_Subset, FS_CardinalityType
  <2>5. rank[i] = Cardinality(A) /\ rank[j] = Cardinality(B)
    OBVIOUS
  <2> QED
    BY <2>3, <2>4, <2>5
<1>6. rank \in Injection(K, 1..c)
  <2>1. rank \in [K -> 1..c]
    BY <1>4
  <2>2. ASSUME NEW i \in K, NEW j \in K, rank[i] = rank[j]
        PROVE  i = j
    <3>1. rank[i] \in Nat /\ rank[j] \in Nat
      BY <1>4, <1>3
    <3>2. i \in Nat /\ j \in Nat
      OBVIOUS
    <3>3. ~(i < j) /\ ~(j < i)
      <4> HIDE DEF rank
      <4> QED
        BY <1>5, <2>2, <3>1
    <3> QED
      BY <3>2, <3>3
  <2> QED
    BY <2>1, <2>2 DEF Injection, IsInjective
<1>7. rank \in Surjection(K, 1..c)
  <2>1. IsFiniteSet(1..c) /\ Cardinality(1..c) = c
    BY <1>3, FS_Interval
  <2> QED
    BY <1>6, <2>1, FS_Injection
<1>8. ASSUME NEW j \in 1..c
      PROVE  \E i \in K : Cardinality({h \in K : h <= i}) = j
  BY <1>7 DEF Surjection
<1>9. ASSUME NEW j \in 1..c
      PROVE  P(j) \in K /\ Cardinality({h \in K : h <= P(j)}) = j
  BY <1>8
<1>10. ASSUME NEW j \in 1..c
       PROVE  Pick(s, K)[j] = s[P(j)]
  BY DEF Pick
<1> HIDE DEF P
<1>11. pos \in [1..c -> K]
  BY <1>9
<1>17. \A j \in 1..c : pos[j] = P(j)
  OBVIOUS
<1> HIDE DEF pos
<1>12. ASSUME NEW j \in 1..c
       PROVE  rank[pos[j]] = j
  BY <1>9, <1>17
<1>13. ASSUME NEW i \in 1..c, NEW j \in 1..c, i < j
       PROVE  pos[i] < pos[j]
  <2>1. pos[i] \in K /\ pos[j] \in K /\ pos[i] \in Nat /\ pos[j] \in Nat
    BY <1>1, <1>11
  <2>2. i \in Nat /\ j \in Nat
    BY <1>3
  <2>3. pos[i] # pos[j]
    <3> HIDE DEF rank
    <3> QED
      BY <1>12, <1>13, <2>2
  <2>4. ~(pos[j] < pos[i])
    <3> SUFFICES ASSUME pos[j] < pos[i]
                 PROVE  FALSE
      OBVIOUS
    <3>1. rank[pos[j]] < rank[pos[i]]
      BY <1>5, <2>1
    <3>2. j < i
      <4> HIDE DEF rank
      <4> QED
        BY <1>12, <3>1
    <3> QED
      BY <1>13, <2>2, <3>2
  <2> QED
    BY <2>1, <2>3, <2>4
<1>14. ASSUME NEW k \in K
       PROVE  \E j \in 1..c : pos[j] = k
  <2>1. rank[k] \in 1..c
    BY <1>4
  <2>2. rank[pos[rank[k]]] = rank[k] /\ pos[rank[k]] \in K
    BY <1>11, <1>12, <2>1
  <2>3. rank \in [K -> 1..c] /\ \A x, y \in K : rank[x] = rank[y] => x = y
    BY <1>6 DEF Injection, IsInjective
  <2>4. pos[rank[k]] = k
    <3> HIDE DEF rank
    <3> QED
      BY <2>2, <2>3
  <2> QED
    BY <2>1, <2>4
<1>15. DOMAIN Pick(s, K) = 1..c
  BY DEF Pick
<1> HIDE DEF c
<1>16. /\ \A j \in 1..c : Pick(s, K)[j] = s[pos[j]]
       /\ \A i, j \in 1..c : i < j => pos[i] < pos[j]
       /\ \A k \in K : \E j \in 1..c : pos[j] = k
  BY <1>10, <1>13, <1>14, <1>17
<1> QED
  BY <1>3, <1>11, <1>15, <1>16 DEF c, InOrder

\* Pick lists members of s at positions in K, and nothing else.
LEMMA PickType ==
  ASSUME NEW S, NEW s \in Seq(S), NEW K \in SUBSET DOMAIN s
  PROVE  /\ Pick(s, K) \in Seq(S)
         /\ \A j \in DOMAIN Pick(s, K) : \E i \in K : Pick(s, K)[j] = s[i]
<1> DEFINE c == Cardinality(K)
<1>1. K \subseteq 1..Len(s) /\ Len(s) \in Nat
  OBVIOUS
<1>2. IsFiniteSet(K) /\ K \subseteq Nat
  <2>1. IsFiniteSet(1..Len(s))
    BY <1>1, FS_Interval
  <2>2. K \in SUBSET (1..Len(s))
    BY <1>1
  <2>3. IsFiniteSet(K)
    BY <2>1, <2>2, FS_Subset
  <2> QED
    BY <1>1, <2>3
<1>3. /\ Cardinality(K) \in Nat
      /\ DOMAIN Pick(s, K) = 1..Cardinality(K)
      /\ \E pos \in [1..Cardinality(K) -> K] :
           \A j \in 1..Cardinality(K) : Pick(s, K)[j] = s[pos[j]]
  <2> HIDE DEF c
  <2>1. K \subseteq Nat /\ IsFiniteSet(K)
    BY <1>2
  <2>2. InOrder(s, K)
    BY <2>1, PickOrder
  <2> QED
    BY <2>2 DEF InOrder
<1>9. /\ c \in Nat
      /\ DOMAIN Pick(s, K) = 1..c
      /\ \E pos \in [1..c -> K] : \A j \in 1..c : Pick(s, K)[j] = s[pos[j]]
  BY <1>3
<1> HIDE DEF c
<1>4. ASSUME NEW j \in 1..c
      PROVE  \E i \in K : Pick(s, K)[j] = s[i]
  BY <1>9
<1>5. \A j \in 1..c : Pick(s, K)[j] \in S
  BY <1>4, <1>1
<1>6. Pick(s, K) = [j \in 1..c |-> Pick(s, K)[j]]
  BY DEF Pick, c
<1>7. Pick(s, K) \in [1..c -> S]
  BY <1>5, <1>6
<1>8. Pick(s, K) \in Seq(S)
  BY <1>9, <1>7
<1> QED
  BY <1>9, <1>4, <1>8

-----------------------------------------------------------------------------
(* The members of a sequence *)

\* The members of two sequences, one behind the other.
LEMMA RangeConcat ==
  ASSUME NEW S, NEW r \in Seq(S), NEW s \in Seq(S)
  PROVE  Range(r \o s) = Range(r) \cup Range(s)
<1>1. DOMAIN (r \o s) = 1 .. (Len(r) + Len(s)) /\ DOMAIN r = 1 .. Len(r) /\ DOMAIN s = 1 .. Len(s)
  OBVIOUS
<1>2. Len(r) \in Nat /\ Len(s) \in Nat
  OBVIOUS
<1>3. ASSUME NEW f \in Range(r \o s)
      PROVE  f \in Range(r) \cup Range(s)
  <2>1. PICK i \in DOMAIN (r \o s) : f = (r \o s)[i]
    BY <1>3 DEF Range
  <2>2. CASE i <= Len(r)
    BY <1>1, <1>2, <2>1, <2>2 DEF Range
  <2>3. CASE i > Len(r)
    <3>1. i - Len(r) \in DOMAIN s /\ f = s[i - Len(r)]
      BY <1>1, <1>2, <2>1, <2>3
    <3> QED
      BY <3>1 DEF Range
  <2> QED
    BY <1>1, <1>2, <2>2, <2>3
<1>4. ASSUME NEW f \in Range(r)
      PROVE  f \in Range(r \o s)
  <2>1. PICK i \in DOMAIN r : f = r[i]
    BY <1>4 DEF Range
  <2>2. i \in DOMAIN (r \o s) /\ (r \o s)[i] = f
    BY <1>1, <1>2, <2>1
  <2> QED
    BY <2>2 DEF Range
<1>5. ASSUME NEW f \in Range(s)
      PROVE  f \in Range(r \o s)
  <2>1. PICK i \in DOMAIN s : f = s[i]
    BY <1>5 DEF Range
  <2>2. Len(r) + i \in DOMAIN (r \o s) /\ (r \o s)[Len(r) + i] = f
    BY <1>1, <1>2, <2>1
  <2> QED
    BY <2>2 DEF Range
<1> QED
  BY <1>3, <1>4, <1>5

\* Taking the first one off.
LEMMA RangeTail ==
  ASSUME NEW S, NEW s \in Seq(S), s # <<>>
  PROVE  Range(s) = {Head(s)} \cup Range(Tail(s))
<1>1. /\ Len(s) \in Nat /\ Len(s) > 0 /\ DOMAIN s = 1 .. Len(s)
      /\ DOMAIN Tail(s) = 1 .. (Len(s) - 1)
      /\ \A i \in 1 .. (Len(s) - 1) : Tail(s)[i] = s[i + 1]
      /\ Head(s) = s[1]
  OBVIOUS
<1>2. ASSUME NEW f \in Range(s)
      PROVE  f \in {Head(s)} \cup Range(Tail(s))
  <2>1. PICK i \in DOMAIN s : f = s[i]
    BY <1>2 DEF Range
  <2>2. CASE i = 1
    BY <1>1, <2>1, <2>2
  <2>3. CASE i # 1
    <3>1. i - 1 \in DOMAIN Tail(s) /\ Tail(s)[i - 1] = f
      BY <1>1, <2>1, <2>3
    <3> QED
      BY <3>1 DEF Range
  <2> QED
    BY <2>2, <2>3
<1>3. Head(s) \in Range(s)
  BY <1>1 DEF Range
<1>4. ASSUME NEW f \in Range(Tail(s))
      PROVE  f \in Range(s)
  <2>1. PICK i \in DOMAIN Tail(s) : f = Tail(s)[i]
    BY <1>4 DEF Range
  <2>2. i + 1 \in DOMAIN s /\ s[i + 1] = f
    BY <1>1, <2>1
  <2> QED
    BY <2>2 DEF Range
<1> QED
  BY <1>2, <1>3, <1>4

\* The empty sequence and those of one.
LEMMA RangeSmall ==
  /\ Range(<<>>) = {}
  /\ \A x : Range(<<x>>) = {x}
BY DEF Range

=============================================================================
