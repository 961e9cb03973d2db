------------------------------ MODULE Address -------------------------------
(***************************************************************************)
(* Addresses, src/core/src/address.rs and xkey of src/src/bloom.rs.  An     *)
(* address holds the inverse of a node's key, packed: how many ones it      *)
(* starts with, then the whole bytes of what follows the first zero, as far *)
(* as they fit.  Neither the address nor the shorter routed subnet gives    *)
(* the key back, so lookups and filters meet at a third form, the           *)
(* transformed key, which key, address and subnet all have to lead to.      *)
(*                                                                         *)
(* Bits are counted from 0, the highest one first.                          *)
(***************************************************************************)
EXTENDS Integers

CONSTANTS
  BYTE,            \* bits of a byte (8)
  KEY_LEN,         \* bytes of a key (32)
  ADDR_PAYLOAD,    \* bytes of an address behind its prefix and count (14)
  SUBNET_PAYLOAD,  \* bytes of a subnet behind them (6)
  MAX_ONES         \* where the count saturates (u8::MAX)

\* The count stops at 255, and a key has 256 bits: one less would do no more.
ASSUME AddressAssumption ==
  /\ {BYTE, KEY_LEN, ADDR_PAYLOAD, SUBNET_PAYLOAD, MAX_ONES} \subseteq Nat
  /\ SUBNET_PAYLOAD * BYTE <= ADDR_PAYLOAD * BYTE
  /\ 0 < KEY_LEN * BYTE
  /\ KEY_LEN * BYTE <= MAX_ONES + 1

KEY_BITS == KEY_LEN * BYTE
ADDR_BITS == ADDR_PAYLOAD * BYTE
SUBNET_BITS == SUBNET_PAYLOAD * BYTE

PublicKey == [0 .. KEY_BITS - 1 -> {0, 1}]

\* `net' is the prefix byte: NODE_PREFIX, or NODE_PREFIX | SUBNET_BIT.
Address ==
  [net : {"node", "subnet"}, ones : 0 .. MAX_ONES, bits : [0 .. ADDR_BITS - 1 -> {0, 1}]]

Subnet == [ones : 0 .. MAX_ONES, bits : [0 .. SUBNET_BITS - 1 -> {0, 1}]]

IsSubnet(a) == a.net = "subnet"

\* The ones the inverse of a key starts with, all of them or up to a zero.
Lead(key) ==
  CHOOSE m \in 0 .. KEY_BITS :
    /\ \A j \in 0 .. m - 1 : key[j] = 0
    /\ m < KEY_BITS => key[m] = 1

Ones(key) == IF Lead(key) < MAX_ONES THEN Lead(key) ELSE MAX_ONES

\* With m ones, the i-th bit behind the zero belongs to a byte that is complete.
Whole(m, i) == \E b \in 1 .. KEY_LEN : i < b * BYTE /\ m + 1 + b * BYTE <= KEY_BITS

\* addr_for_key
AddrForKey(key) ==
  LET m == Lead(key) IN
  [net  |-> "node",
   ones |-> Ones(key),
   bits |-> [i \in 0 .. ADDR_BITS - 1 |-> IF Whole(m, i) THEN 1 - key[m + 1 + i] ELSE 0]]

\* The first bytes of an address.
SubnetOf(a) == [ones |-> a.ones, bits |-> [i \in 0 .. SUBNET_BITS - 1 |-> a.bits[i]]]

\* subnet_for_key
SubnetForKey(key) == SubnetOf(AddrForKey(key))

\* Mutant: the zero behind the ones is not put back.
KeyForAddrShifted(a) ==
  [j \in 0 .. KEY_BITS - 1 |->
     IF j < a.ones THEN 0
     ELSE IF j - a.ones < ADDR_BITS THEN 1 - a.bits[j - a.ones]
     ELSE 1]

\* key_for_addr: what the address does not say comes back as 1.
KeyForAddr(a) ==
  [j \in 0 .. KEY_BITS - 1 |->
     IF j < a.ones THEN 0
     ELSE IF j > a.ones /\ j - (a.ones + 1) < ADDR_BITS THEN 1 - a.bits[j - (a.ones + 1)]
     ELSE 1]

\* key_for_subnet
KeyForSubnet(s) ==
  KeyForAddr([net  |-> "subnet",
              ones |-> s.ones,
              bits |-> [i \in 0 .. ADDR_BITS - 1 |-> IF i < SUBNET_BITS THEN s.bits[i] ELSE 0]])

\* lookup_key_for_addr
LookupKeyForAddr(a) == IF IsSubnet(a) THEN KeyForSubnet(SubnetOf(a)) ELSE KeyForAddr(a)

\* xkey: where a key and what is known of it meet.
XKey == [key \in PublicKey |-> KeyForSubnet(SubnetForKey(key))]

\* The match of Router::key_for_addr: an address is a node's own, or lies in
\* its subnet.
Owns(key, a) == AddrForKey(key) = a \/ (IsSubnet(a) /\ SubnetForKey(key) = SubnetOf(a))

-----------------------------------------------------------------------------
\* Whatever address of a node a packet is for, the lossy key it is looked up
\* under leads to the same transformed key as the node's own key, which is what
\* filters, rumors and the node itself compare (lookup_key_for_addr, xkey):
\* bits that were cut off or did not fill a byte, a count that saturates and
\* the key of zeros included.
Resolves ==
  \A key \in PublicKey : \A a \in Address :
    Owns(key, a) => XKey[LookupKeyForAddr(a)] = XKey[key]
=============================================================================
