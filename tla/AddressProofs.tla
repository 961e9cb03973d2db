--------------------------- MODULE AddressProofs ----------------------------
(***************************************************************************)
(* Addresses of any size lead back to the node: whatever address of a node  *)
(* is looked up, the transformed key is the node's.                         *)
(***************************************************************************)
EXTENDS Address, NaturalsInduction, WellFoundedInduction, TLAPS

-----------------------------------------------------------------------------
(* The ones a key's inverse starts with *)

\* Sizes are numbers, and a subnet fits into an address.
LEMMA Sizes ==
  /\ KEY_BITS \in Nat \ {0} /\ ADDR_BITS \in Nat /\ SUBNET_BITS \in Nat
  /\ MAX_ONES \in Nat /\ BYTE \in Nat /\ KEY_LEN \in Nat
  /\ SUBNET_BITS <= ADDR_BITS
  /\ KEY_BITS <= MAX_ONES + 1
<1>1. /\ BYTE \in Nat /\ KEY_LEN \in Nat /\ ADDR_PAYLOAD \in Nat /\ SUBNET_PAYLOAD \in Nat
      /\ MAX_ONES \in Nat
  BY AddressAssumption
<1>2. KEY_BITS \in Nat /\ ADDR_BITS \in Nat /\ SUBNET_BITS \in Nat
  BY <1>1 DEF KEY_BITS, ADDR_BITS, SUBNET_BITS
<1> QED
  BY <1>1, <1>2, AddressAssumption DEF KEY_BITS, ADDR_BITS, SUBNET_BITS

\* m is where a key's leading zeros end.
IsLead(key, m) ==
  /\ m \in 0 .. KEY_BITS
  /\ \A j \in 0 .. m - 1 : key[j] = 0
  /\ m < KEY_BITS => key[m] = 1

\* There is one such place.
LEMMA LeadUnique ==
  ASSUME NEW key, NEW m, IsLead(key, m)
  PROVE  Lead(key) = m
<1>1. ASSUME NEW n, IsLead(key, n)
      PROVE  n = m
  <2>1. n \in Int /\ m \in Int /\ KEY_BITS \in Nat
    BY <1>1, Sizes DEF IsLead
  <2>2. CASE n < m
    <3>1. key[n] = 0 /\ key[n] = 1
      BY <1>1, <2>1, <2>2 DEF IsLead
    <3> QED BY <3>1
  <2>3. CASE m < n
    <3>1. key[m] = 0 /\ key[m] = 1
      BY <1>1, <2>1, <2>3 DEF IsLead
    <3> QED BY <3>1
  <2> QED BY <2>1, <2>2, <2>3
<1>2. IsLead(key, Lead(key))
  BY DEF Lead, IsLead
<1> QED BY <1>1, <1>2

\* A nonempty set of naturals has a least member.
LEMMA LeastBit ==
  ASSUME NEW T \in SUBSET Nat, T # {}
  PROVE  \E x \in T : \A y \in T : x <= y
<1> DEFINE Lt == {ss \in Nat \X Nat : ss[1] < ss[2]}
<1>1. IsWellFoundedOn(Lt, Nat)
  BY NatLessThanWellFounded DEF OpToRel
<1>2. PICK x \in T : \A y \in T : ~(<<y, x>> \in Lt)
  BY <1>1, WFMin
<1>3. ASSUME NEW y \in T
      PROVE  x <= y
  <2>1. x \in Nat /\ y \in Nat /\ ~(y < x)
    BY <1>2
  <2> QED
    BY <2>1
<1> QED
  BY <1>3

\* Every key has one: the first bit that is not 0, or the end.
LEMMA LeadExists ==
  ASSUME NEW key \in PublicKey
  PROVE  IsLead(key, Lead(key))
<1> DEFINE T == {j \in 0 .. KEY_BITS - 1 : key[j] = 1}
<1>1. \E m \in 0 .. KEY_BITS : IsLead(key, m)
  <2>1. CASE T = {}
    <3>1. \A j \in 0 .. KEY_BITS - 1 : key[j] = 0
      BY <2>1 DEF PublicKey
    <3>2. IsLead(key, KEY_BITS)
      BY <3>1, Sizes DEF IsLead
    <3> QED
      BY <3>2, Sizes
  <2>2. CASE T # {}
    <3>1. PICK m \in T : \A y \in T : m <= y
      <4>1. T \in SUBSET Nat
        BY Sizes
      <4> QED
        BY <2>2, <4>1, LeastBit
    <3>2. m \in 0 .. KEY_BITS - 1 /\ key[m] = 1
      BY <3>1
    <3>3. ASSUME NEW j \in 0 .. m - 1
          PROVE  key[j] = 0
      <4>1. j \in 0 .. KEY_BITS - 1 /\ ~(m <= j)
        BY <3>2, Sizes
      <4>2. j \notin T
        BY <3>1, <4>1
      <4> QED
        BY <4>1, <4>2 DEF PublicKey
    <3>4. IsLead(key, m) /\ m \in 0 .. KEY_BITS
      BY <3>2, <3>3, Sizes DEF IsLead
    <3> QED
      BY <3>4
  <2> QED
    BY <2>1, <2>2
<1> QED
  BY <1>1 DEF Lead, IsLead

-----------------------------------------------------------------------------
(* What an address keeps of a key *)

\* The count is where the zeros end, but for the key of zeros, where it may
\* fall one short.
LEMMA OnesOf ==
  ASSUME NEW key \in PublicKey
  PROVE  /\ Lead(key) \in 0 .. KEY_BITS
         /\ Ones(key) \in 0 .. MAX_ONES
         /\ Lead(key) < KEY_BITS => Ones(key) = Lead(key)
         /\ Lead(key) = KEY_BITS => Ones(key) \in {KEY_BITS, KEY_BITS - 1}
<1>1. Lead(key) \in 0 .. KEY_BITS
  BY LeadExists DEF IsLead
<1> QED
  BY <1>1, Sizes DEF Ones

\* A bit of a complete byte lies within the key.
LEMMA WholeFits ==
  ASSUME NEW key \in PublicKey, NEW i \in Nat, Whole(Lead(key), i)
  PROVE  Lead(key) + 1 + i < KEY_BITS
<1>1. PICK b \in 1 .. KEY_LEN : i < b * BYTE /\ Lead(key) + 1 + b * BYTE <= KEY_BITS
  BY DEF Whole
<1>2. b * BYTE \in Nat
  BY Sizes
<1>3. Lead(key) \in Nat
  BY OnesOf, Sizes
<1> HIDE DEF Whole
<1> QED
  BY <1>1, <1>2, <1>3, Sizes

\* An address is an address.
LEMMA AddrType ==
  ASSUME NEW key \in PublicKey
  PROVE  AddrForKey(key) \in Address
<1>1. ASSUME NEW i \in 0 .. ADDR_BITS - 1
      PROVE  (IF Whole(Lead(key), i) THEN 1 - key[Lead(key) + 1 + i] ELSE 0) \in {0, 1}
  <2>1. CASE Whole(Lead(key), i)
    <3>1. i \in Nat /\ Lead(key) \in Nat
      BY OnesOf, Sizes
    <3>2. Lead(key) + 1 + i \in 0 .. KEY_BITS - 1
      BY <2>1, <3>1, WholeFits, Sizes
    <3>3. key[Lead(key) + 1 + i] \in {0, 1}
      BY <3>2 DEF PublicKey
    <3> QED
      BY <2>1, <3>3
  <2> QED
    BY <2>1
<1>2. Ones(key) \in 0 .. MAX_ONES
  BY OnesOf
<1> QED
  BY <1>1, <1>2 DEF AddrForKey, Address

\* Every address gives a key.
LEMMA KeyType ==
  ASSUME NEW a \in Address
  PROVE  KeyForAddr(a) \in PublicKey
<1>1. a.ones \in Nat /\ \A i \in 0 .. ADDR_BITS - 1 : a.bits[i] \in {0, 1}
  BY Sizes DEF Address
<1>2. ASSUME NEW j \in 0 .. KEY_BITS - 1, j > a.ones, j - (a.ones + 1) < ADDR_BITS
      PROVE  1 - a.bits[j - (a.ones + 1)] \in {0, 1}
  <2>1. j - (a.ones + 1) \in 0 .. ADDR_BITS - 1
    BY <1>1, <1>2, Sizes
  <2> QED
    BY <1>1, <2>1
<1> QED
  BY <1>2 DEF KeyForAddr, PublicKey

-----------------------------------------------------------------------------
(* The way back *)

\* An address that keeps a key's count and the subnet's share of its bits gives
\* a key whose subnet is the same.
LEMMA SameSubnet ==
  ASSUME NEW key \in PublicKey, NEW a \in Address,
         a.ones = Ones(key),
         \A i \in 0 .. SUBNET_BITS - 1 : a.bits[i] = AddrForKey(key).bits[i]
  PROVE  SubnetForKey(KeyForAddr(a)) = SubnetForKey(key)
<1> DEFINE q == KeyForAddr(a)
           L == Lead(key)
<1>1. q \in PublicKey
  BY KeyType
<1>2. L \in Nat /\ L <= KEY_BITS /\ a.ones \in Nat
  BY OnesOf, Sizes
<1>3. \A j \in 0 .. KEY_BITS - 1 :
        q[j] = IF j < a.ones THEN 0
               ELSE IF j > a.ones /\ j - (a.ones + 1) < ADDR_BITS
               THEN 1 - a.bits[j - (a.ones + 1)]
               ELSE 1
  BY DEF KeyForAddr
<1>4. \A i \in 0 .. SUBNET_BITS - 1 :
        AddrForKey(key).bits[i] = IF Whole(Lead(key), i) THEN 1 - key[L + 1 + i] ELSE 0
  BY Sizes DEF AddrForKey
<1>5. \A i \in 0 .. SUBNET_BITS - 1 :
        AddrForKey(q).bits[i] = IF Whole(Lead(q), i) THEN 1 - q[Lead(q) + 1 + i] ELSE 0
  BY Sizes DEF AddrForKey
<1> HIDE DEF q
<1>6. Ones(q) = Ones(key) /\ (\A i \in 0 .. SUBNET_BITS - 1 :
                               AddrForKey(q).bits[i] = AddrForKey(key).bits[i])
  <2>1. CASE L < KEY_BITS
    <3>1. a.ones = L
      BY <2>1, OnesOf
    <3>2. IsLead(q, L)
      BY <1>2, <1>3, <2>1, <3>1, Sizes DEF IsLead
    <3>3. Lead(q) = L
      BY <3>2, LeadUnique
    <3>4. ASSUME NEW i \in 0 .. SUBNET_BITS - 1
          PROVE  AddrForKey(q).bits[i] = AddrForKey(key).bits[i]
      <4>1. Whole(Lead(q), i) <=> Whole(Lead(key), i)
        BY <3>3 DEF Whole
      <4>2. CASE Whole(Lead(key), i)
        <5>1. i \in Nat /\ i < ADDR_BITS
          BY Sizes
        <5>2. L + 1 + i < KEY_BITS
          BY <4>2, <5>1, WholeFits
        <5>3. L + 1 + i \in 0 .. KEY_BITS - 1 /\ (L + 1 + i) - (L + 1) = i
          BY <1>2, <5>1, <5>2, Sizes
        <5>4. q[L + 1 + i] = 1 - a.bits[i]
          BY <1>2, <1>3, <3>1, <5>1, <5>3, Sizes
        <5>5. key[L + 1 + i] \in {0, 1}
          BY <5>3 DEF PublicKey
        <5>6. a.bits[i] = 1 - key[L + 1 + i]
          BY <1>4, <4>2
        <5>7. AddrForKey(q).bits[i] = 1 - q[L + 1 + i]
          BY <1>5, <3>3, <4>1, <4>2
        <5> QED
          BY <5>4, <5>5, <5>6, <5>7
      <4>3. CASE ~Whole(Lead(key), i)
        BY <1>4, <1>5, <4>1, <4>3
      <4> QED
        BY <4>2, <4>3
    <3> QED
      BY <3>3, <3>4 DEF Ones
  <2>2. CASE L = KEY_BITS
    <3>1. \A i \in 0 .. SUBNET_BITS - 1 : ~Whole(Lead(key), i)
      BY <1>2, <2>2, WholeFits, Sizes
    <3>2. CASE a.ones = KEY_BITS
      <4>1. IsLead(q, L)
        BY <1>2, <1>3, <2>2, <3>2, Sizes DEF IsLead
      <4>2. Lead(q) = L
        BY <4>1, LeadUnique
      <4>3. \A i \in 0 .. SUBNET_BITS - 1 : ~Whole(Lead(q), i)
        BY <3>1, <4>2 DEF Whole
      <4> QED
        BY <1>4, <1>5, <3>1, <4>2, <4>3 DEF Ones
    <3>3. CASE a.ones = KEY_BITS - 1
      <4>1. IsLead(q, KEY_BITS - 1)
        BY <1>3, <3>3, Sizes DEF IsLead
      <4>2. Lead(q) = KEY_BITS - 1
        BY <4>1, LeadUnique
      <4>3. Ones(q) = KEY_BITS - 1
        BY <1>1, <4>2, OnesOf, Sizes
      <4>4. ASSUME NEW i \in 0 .. SUBNET_BITS - 1
            PROVE  ~Whole(Lead(q), i)
        BY <1>1, <4>2, WholeFits, Sizes
      <4> QED
        BY <1>4, <1>5, <3>1, <3>3, <4>3, <4>4
    <3> QED
      BY <2>2, <3>2, <3>3, OnesOf
  <2> QED
    BY <1>2, <2>1, <2>2, Sizes
<1>7. AddrForKey(q).ones = Ones(q) /\ AddrForKey(key).ones = Ones(key)
  BY DEF AddrForKey
<1>8. SubnetForKey(q) = SubnetForKey(key)
  BY <1>6, <1>7 DEF SubnetForKey, SubnetOf
<1> QED
  BY <1>8 DEF q

\* Whatever address of a node is looked up, the transformed key is the node's
\* (lookup_key_for_addr, xkey), for keys and addresses of any size.
THEOREM AddressesResolve == Resolves
<1> SUFFICES ASSUME NEW key \in PublicKey, NEW a \in Address, Owns(key, a)
             PROVE  XKey[LookupKeyForAddr(a)] = XKey[key]
  BY DEF Resolves
<1> DEFINE wide(s) == [net  |-> "subnet",
                       ones |-> s.ones,
                       bits |-> [i \in 0 .. ADDR_BITS - 1 |->
                                   IF i < SUBNET_BITS THEN s.bits[i] ELSE 0]]
<1>1. LookupKeyForAddr(a) \in PublicKey
      /\ SubnetForKey(LookupKeyForAddr(a)) = SubnetForKey(key)
  <2>1. CASE ~IsSubnet(a)
    <3>1. a = AddrForKey(key)
      BY <2>1 DEF Owns
    <3>2. a.ones = Ones(key)
      BY <3>1 DEF AddrForKey
    <3>3. LookupKeyForAddr(a) = KeyForAddr(a)
      BY <2>1 DEF LookupKeyForAddr
    <3> QED
      BY <3>1, <3>2, <3>3, SameSubnet, KeyType
  <2>2. CASE IsSubnet(a)
    <3>1. SubnetOf(a) = SubnetForKey(key)
      BY <2>2 DEF Owns, IsSubnet, AddrForKey
    <3>2. LookupKeyForAddr(a) = KeyForAddr(wide(SubnetForKey(key)))
      BY <2>2, <3>1 DEF LookupKeyForAddr, KeyForSubnet
    <3>3. /\ SubnetForKey(key).ones = Ones(key)
          /\ \A i \in 0 .. SUBNET_BITS - 1 :
               SubnetForKey(key).bits[i] = AddrForKey(key).bits[i]
      BY DEF SubnetForKey, SubnetOf, AddrForKey
    <3>4. wide(SubnetForKey(key)) \in Address
      <4>1. \A i \in 0 .. SUBNET_BITS - 1 : AddrForKey(key).bits[i] \in {0, 1}
        BY AddrType, Sizes DEF Address
      <4> QED
        BY <3>3, <4>1, OnesOf, Sizes DEF Address
    <3>5. /\ wide(SubnetForKey(key)).ones = Ones(key)
          /\ \A i \in 0 .. SUBNET_BITS - 1 :
               wide(SubnetForKey(key)).bits[i] = AddrForKey(key).bits[i]
      BY <3>3, Sizes
    <3> HIDE DEF wide
    <3> QED
      BY <3>2, <3>4, <3>5, SameSubnet, KeyType
  <2> QED
    BY <2>1, <2>2
<1> QED
  BY <1>1 DEF XKey
=============================================================================
