---------------------------- MODULE TableProofs -----------------------------
(* Theorems about the hash table, for every capacity, hash and set of keys. *)
EXTENDS Table, FiniteSetTheorems, TLAPS

-----------------------------------------------------------------------------
(* The inductive invariant *)

\* A live slot holds an entry.
Sound(t) == \A i \in Index : t.state[i] = "LIVE" => t.slots[i] \in Entry

\* A key is in one slot at most.
Unique(t) == \A key \in Key : \A i, j \in Index : Holds(t, i, key) /\ Holds(t, j, key) => i = j

\* The walk of a key meets no slot never used before the slot of the key.
Chain(t) ==
  \A key \in Key : \A k \in Index :
    Holds(t, Probe(key, k), key) => \A j \in 0 .. k - 1 : t.state[Probe(key, j)] # "NEVER_USED"

Tombs(t) == {i \in Index : t.state[i] = "TOMBSTONE"}

Counted(t) == t.tombs = Cardinality(Tombs(t))

WellFormed(t) == t \in TableType /\ Sound(t) /\ Unique(t) /\ Chain(t) /\ Counted(t)

\* What compact has rebuilt so far: the entries of the slots before `next`, in
\* a table without tombstones.
Copied(t, from, n) ==
  /\ Tombs(t) = {}
  /\ \A i \in Index : t.state[i] = "LIVE" =>
       \E h \in 0 .. n - 1 : from.state[h] = "LIVE" /\ from.slots[h] = t.slots[i]
  /\ \A h \in 0 .. n - 1 : from.state[h] = "LIVE" =>
       \E i \in Index : t.state[i] = "LIVE" /\ t.slots[i] = from.slots[h]

Rebuilding == old # None => WellFormed(old) /\ next \in 0 .. N /\ Copied(table, old, next)

IInv == WellFormed(table) /\ Rebuilding

-----------------------------------------------------------------------------
(* Walks *)

\* A walk stays among the slots.
LEMMA ProbeType ==
  ASSUME NEW key \in Key, NEW k \in Index
  PROVE  Probe(key, k) \in Index
<1>1. N \in Nat /\ N > 0
  BY SizeAssumption DEF Index
<1>2. Home[key] \in 0 .. N - 1
  BY <1>1, HomeAssumption
<1> QED
  BY <1>1, <1>2 DEF Probe, Index

\* It visits no slot twice.
LEMMA ProbeOnce ==
  ASSUME NEW key \in Key, NEW j \in Index, NEW k \in Index, Probe(key, j) = Probe(key, k)
  PROVE  j = k
<1>1. N \in Nat /\ N > 0
  BY SizeAssumption DEF Index
<1>2. Home[key] \in 0 .. N - 1
  BY <1>1, HomeAssumption
<1> QED
  BY <1>1, <1>2 DEF Probe, Index

\* It visits every slot.
LEMMA ProbeOnto ==
  ASSUME NEW key \in Key, NEW i \in Index
  PROVE  \E k \in Index : Probe(key, k) = i
<1>1. N \in Nat /\ N > 0
  BY SizeAssumption DEF Index
<1>2. Home[key] \in 0 .. N - 1
  BY <1>1, HomeAssumption
<1>3. CASE i >= Home[key]
  <2>1. i - Home[key] \in Index /\ Probe(key, i - Home[key]) = i
    BY <1>1, <1>2, <1>3 DEF Probe, Index
  <2> QED
    BY <2>1
<1>4. CASE i < Home[key]
  <2>1. i + N - Home[key] \in Index /\ Probe(key, i + N - Home[key]) = i
    BY <1>1, <1>2, <1>4 DEF Probe, Index
  <2> QED
    BY <2>1
<1> QED
  BY <1>1, <1>2, <1>3, <1>4 DEF Index

\* Steps before a step are steps.
LEMMA Earlier ==
  ASSUME NEW k \in Index, NEW j \in 0 .. k - 1
  PROVE  j \in Index
BY SizeAssumption DEF Index

\* The walk of a key in the table finds its slot, and what it finds is that
\* slot.
LEMMA HitsExact ==
  ASSUME NEW t, WellFormed(t), NEW key \in Key
  PROVE  /\ \A i \in Index : Holds(t, i, key) =>
              Hits(t, key) # {} /\ Slot(key, Hits(t, key)) = i
         /\ Hits(t, key) # {} =>
              Slot(key, Hits(t, key)) \in Index /\ Holds(t, Slot(key, Hits(t, key)), key)
<1>1. ASSUME Hits(t, key) # {}
      PROVE  Slot(key, Hits(t, key)) \in Index /\ Holds(t, Slot(key, Hits(t, key)), key)
  <2>1. The(Hits(t, key)) \in Hits(t, key)
    BY <1>1 DEF The
  <2>2. The(Hits(t, key)) \in Index /\ Holds(t, Probe(key, The(Hits(t, key))), key)
    BY <2>1 DEF Hits
  <2> QED
    BY <2>2, ProbeType DEF Slot
<1>2. ASSUME NEW i \in Index, Holds(t, i, key)
      PROVE  Hits(t, key) # {} /\ Slot(key, Hits(t, key)) = i
  <2>1. PICK k \in Index : Probe(key, k) = i
    BY ProbeOnto
  <2>2. ASSUME NEW j \in 0 .. k - 1
        PROVE  t.state[Probe(key, j)] # "NEVER_USED" /\ ~Holds(t, Probe(key, j), key)
    <3>1. j \in Index /\ j # k
      BY Earlier, SizeAssumption DEF Index
    <3>2. Probe(key, j) \in Index /\ Probe(key, j) # i
      BY <3>1, <2>1, ProbeType, ProbeOnce
    <3>3. t.state[Probe(key, j)] # "NEVER_USED"
      BY <1>2, <2>1 DEF WellFormed, Chain
    <3>4. ~Holds(t, Probe(key, j), key)
      BY <3>2, <1>2 DEF WellFormed, Unique
    <3> QED
      BY <3>3, <3>4
  <2>3. k \in Hits(t, key)
    BY <1>2, <2>1, <2>2 DEF Hits, Passes
  <2>4. Slot(key, Hits(t, key)) = i
    BY <2>3, <1>1, <1>2 DEF WellFormed, Unique
  <2> QED
    BY <2>3, <2>4
<1> QED
  BY <1>1, <1>2

-----------------------------------------------------------------------------
(* Content *)

\* Content reads an entry off the one slot that has it.
LEMMA ContentOf ==
  ASSUME NEW t, WellFormed(t), NEW key \in Key
  PROVE  /\ \A i \in Index : Holds(t, i, key) =>
              Content(t)[key] = t.slots[i].value /\ Content(t)[key] \in Value
         /\ (~\E i \in Index : Holds(t, i, key)) => Content(t)[key] = None
<1>1. ASSUME NEW i \in Index, Holds(t, i, key)
      PROVE  Content(t)[key] = t.slots[i].value /\ Content(t)[key] \in Value
  <2>1. (CHOOSE h \in Index : Holds(t, h, key)) = i
    BY <1>1 DEF WellFormed, Unique
  <2>2. Content(t)[key] = t.slots[i].value
    BY <1>1, <2>1 DEF Content
  <2>3. t.slots[i] \in Entry
    BY <1>1 DEF WellFormed, Sound, Holds
  <2> QED
    BY <2>2, <2>3 DEF Entry
<1> QED
  BY <1>1 DEF Content

\* get returns the content.
LEMMA LookupExact ==
  ASSUME NEW t, WellFormed(t), NEW key \in Key
  PROVE  /\ Lookup(t, key) = Content(t)[key]
         /\ Hits(t, key) # {} <=> Content(t)[key] # None
<1>1. CASE Hits(t, key) = {}
  <2>1. ~\E i \in Index : Holds(t, i, key)
    BY <1>1, HitsExact
  <2> QED
    BY <1>1, <2>1, ContentOf DEF Lookup
<1>2. CASE Hits(t, key) # {}
  <2>1. Slot(key, Hits(t, key)) \in Index /\ Holds(t, Slot(key, Hits(t, key)), key)
    BY <1>2, HitsExact
  <2>2. /\ Content(t)[key] = t.slots[Slot(key, Hits(t, key))].value
        /\ Content(t)[key] \in Value
    BY <2>1, ContentOf
  <2> QED
    BY <1>2, <2>2, NoneAssumption DEF Lookup
<1> QED
  BY <1>1, <1>2

-----------------------------------------------------------------------------
(* Updates *)

LEMMA IndexFinite ==
  IsFiniteSet(Index) /\ Cardinality(Index) = N
BY SizeAssumption, FS_Interval DEF Index

LEMMA TombsFinite ==
  ASSUME NEW t
  PROVE  IsFiniteSet(Tombs(t)) /\ Cardinality(Tombs(t)) \in 0 .. N
<1>1. Tombs(t) \in SUBSET Index
  BY DEF Tombs
<1> QED
  BY <1>1, IndexFinite, FS_Subset, FS_CardinalityType, SizeAssumption

\* A table whose entry at one slot changed has the content it had but for the
\* keys that left the slot or came there.
LEMMA ContentChanges ==
  ASSUME NEW t, WellFormed(t), NEW u, WellFormed(u), NEW key \in Key, NEW v,
         \A other \in Key \ {key} : \A i \in Index :
           /\ Holds(u, i, other) <=> Holds(t, i, other)
           /\ Holds(u, i, other) => u.slots[i].value = t.slots[i].value,
         Content(u)[key] = v
  PROVE  Content(u) = [Content(t) EXCEPT ![key] = v]
<1>1. ASSUME NEW other \in Key \ {key}
      PROVE  Content(u)[other] = Content(t)[other]
  <2>1. CASE \E i \in Index : Holds(t, i, other)
    <3>1. PICK i \in Index : Holds(t, i, other)
      BY <2>1
    <3>2. Holds(u, i, other) /\ u.slots[i].value = t.slots[i].value
      BY <3>1
    <3>3. Content(t)[other] = t.slots[i].value
      BY <3>1, ContentOf
    <3>4. Content(u)[other] = u.slots[i].value
      BY <3>2, ContentOf
    <3> QED
      BY <3>2, <3>3, <3>4
  <2>2. CASE ~\E i \in Index : Holds(t, i, other)
    <3>1. ~\E i \in Index : Holds(u, i, other)
      BY <2>2
    <3> QED
      BY <3>1, <2>2, ContentOf
  <2> QED
    BY <2>1, <2>2
<1>2. \A x : Content(x) = [k \in Key |-> Content(x)[k]]
  BY DEF Content
<1> QED
  BY <1>1, <1>2

\* A key put where its walk leads, over itself or over nothing, is in the
\* table and disturbs no other.
LEMMA PutFits ==
  ASSUME NEW t, WellFormed(t), NEW key \in Key, NEW value \in Value, NEW k \in Index,
         \A i \in Index : Holds(t, i, key) => i = Probe(key, k),
         t.state[Probe(key, k)] = "LIVE" => Holds(t, Probe(key, k), key),
         \A j \in 0 .. k - 1 : t.state[Probe(key, j)] # "NEVER_USED"
  PROVE  /\ WellFormed(Put(t, Probe(key, k), key, value))
         /\ Content(Put(t, Probe(key, k), key, value)) = [Content(t) EXCEPT ![key] = value]
<1> DEFINE p == Probe(key, k)
           u == Put(t, p, key, value)
           e == [key |-> key, value |-> value]
<1>0. t \in TableType /\ Sound(t) /\ Unique(t) /\ Chain(t) /\ Counted(t)
  BY DEF WellFormed
<1>1. p \in Index /\ e \in Entry
  BY ProbeType DEF Entry
<1>2. /\ t.slots \in [Index -> Entry \cup {None}]
      /\ t.state \in [Index -> {"NEVER_USED", "LIVE", "TOMBSTONE"}]
      /\ t.tombs \in 0 .. N
  BY <1>0 DEF TableType
<1>3. /\ u.slots = [t.slots EXCEPT ![p] = e]
      /\ u.state = [t.state EXCEPT ![p] = "LIVE"]
      /\ u.tombs = IF t.state[p] = "TOMBSTONE" THEN t.tombs - 1 ELSE t.tombs
  BY DEF Put
<1>4. ASSUME NEW i \in Index
      PROVE  /\ u.slots[i] = IF i = p THEN e ELSE t.slots[i]
             /\ u.state[i] = IF i = p THEN "LIVE" ELSE t.state[i]
  BY <1>2, <1>3
<1>5. ASSUME NEW other \in Key, NEW i \in Index
      PROVE  Holds(u, i, other) <=> IF i = p THEN other = key ELSE Holds(t, i, other)
  BY <1>4 DEF Holds
<1>6. Counted(u) /\ u.tombs \in 0 .. N
  <2>1. Tombs(u) = Tombs(t) \ {p}
    BY <1>4 DEF Tombs
  <2>2. Cardinality(Tombs(u)) =
          IF p \in Tombs(t) THEN Cardinality(Tombs(t)) - 1 ELSE Cardinality(Tombs(t))
    BY <2>1, TombsFinite, FS_RemoveElement
  <2>3. p \in Tombs(t) <=> t.state[p] = "TOMBSTONE"
    BY <1>1 DEF Tombs
  <2>4. Counted(u)
    BY <2>2, <2>3, <1>0, <1>3 DEF Counted
  <2> QED
    BY <2>4, TombsFinite DEF Counted
<1>7. u \in TableType
  <2>1. u.slots \in [Index -> Entry \cup {None}]
    BY <1>1, <1>2, <1>3
  <2>2. u.state \in [Index -> {"NEVER_USED", "LIVE", "TOMBSTONE"}]
    BY <1>1, <1>2, <1>3
  <2>3. u = [slots |-> u.slots, state |-> u.state, tombs |-> u.tombs]
    BY DEF Put
  <2> HIDE DEF u
  <2> QED
    BY <2>1, <2>2, <2>3, <1>6 DEF TableType
<1>8. Sound(u)
  BY <1>0, <1>1, <1>4 DEF Sound
<1>9. Unique(u)
  <2>1. SUFFICES ASSUME NEW other \in Key, NEW i \in Index, NEW j \in Index,
                        Holds(u, i, other), Holds(u, j, other)
                 PROVE  i = j
    BY DEF Unique
  <2> QED
    BY <2>1, <1>0, <1>5 DEF Unique
<1>10. Chain(u)
  <2>1. SUFFICES ASSUME NEW other \in Key, NEW h \in Index, Holds(u, Probe(other, h), other),
                        NEW j \in 0 .. h - 1
                 PROVE  u.state[Probe(other, j)] # "NEVER_USED"
    BY DEF Chain
  <2>2. Probe(other, h) \in Index /\ Probe(other, j) \in Index
    BY ProbeType, Earlier
  <2>3. CASE Probe(other, h) = p
    <3>1. other = key
      BY <2>1, <2>2, <2>3, <1>5
    <3>2. h = k
      BY <2>3, <3>1, ProbeOnce
    <3> QED
      BY <3>1, <3>2, <2>2, <1>4
  <2>4. CASE Probe(other, h) # p
    <3>1. Holds(t, Probe(other, h), other)
      BY <2>1, <2>2, <2>4, <1>5
    <3>2. t.state[Probe(other, j)] # "NEVER_USED"
      BY <3>1, <1>0 DEF Chain
    <3> QED
      BY <3>2, <2>2, <1>4
  <2> QED
    BY <2>3, <2>4
<1>11. WellFormed(u)
  BY <1>6, <1>7, <1>8, <1>9, <1>10 DEF WellFormed
<1>12. Content(u)[key] = value
  <2>1. Holds(u, p, key)
    BY <1>1, <1>5
  <2>2. u.slots[p].value = value
    BY <1>1, <1>4
  <2> QED
    BY <2>1, <2>2, <1>1, <1>11, ContentOf
<1>13. ASSUME NEW other \in Key \ {key}, NEW i \in Index
       PROVE  /\ Holds(u, i, other) <=> Holds(t, i, other)
              /\ Holds(u, i, other) => u.slots[i].value = t.slots[i].value
  <2>1. CASE i = p
    <3>1. ~Holds(u, i, other)
      BY <2>1, <1>5
    <3>2. ~Holds(t, i, other)
      BY <2>1 DEF Holds
    <3> QED
      BY <3>1, <3>2
  <2>2. CASE i # p
    BY <2>2, <1>4, <1>5
  <2> QED
    BY <2>1, <2>2
<1>14. Content(u) = [Content(t) EXCEPT ![key] = value]
  <2> HIDE DEF u
  <2> QED
    BY <1>11, <1>12, <1>13, ContentChanges
<1> QED
  BY <1>11, <1>14

\* The entry of a key taken out leaves every other where it can be found.
LEMMA RemoveFits ==
  ASSUME NEW t, WellFormed(t), NEW key \in Key
  PROVE  /\ WellFormed(Removed(t, key))
         /\ Content(Removed(t, key)) = [Content(t) EXCEPT ![key] = None]
<1>1. CASE Hits(t, key) = {}
  <2>1. Removed(t, key) = t
    BY <1>1 DEF Removed
  <2>2. Content(t)[key] = None
    BY <1>1, LookupExact
  <2>3. Content(t) = [Content(t) EXCEPT ![key] = None]
    BY <2>2 DEF Content
  <2> QED
    BY <2>1, <2>3
<1>2. CASE Hits(t, key) # {}
  <2> DEFINE p == Slot(key, Hits(t, key))
             u == Removed(t, key)
  <2>0. t \in TableType /\ Sound(t) /\ Unique(t) /\ Chain(t) /\ Counted(t)
    BY DEF WellFormed
  <2>1. p \in Index /\ Holds(t, p, key) /\ \A i \in Index : Holds(t, i, key) => i = p
    BY <1>2, HitsExact
  <2>2. /\ t.slots \in [Index -> Entry \cup {None}]
        /\ t.state \in [Index -> {"NEVER_USED", "LIVE", "TOMBSTONE"}]
        /\ t.tombs \in 0 .. N
    BY <2>0 DEF TableType
  <2>3. u = [slots |-> [t.slots EXCEPT ![p] = None],
             state |-> [t.state EXCEPT ![p] = "TOMBSTONE"],
             tombs |-> t.tombs + 1]
    BY <1>2 DEF Removed
  <2> HIDE DEF u, p
  <2>4. ASSUME NEW i \in Index
        PROVE  /\ u.slots[i] = IF i = p THEN None ELSE t.slots[i]
               /\ u.state[i] = IF i = p THEN "TOMBSTONE" ELSE t.state[i]
    BY <2>2, <2>3
  <2>5. ASSUME NEW other \in Key, NEW i \in Index
        PROVE  Holds(u, i, other) <=> i # p /\ Holds(t, i, other)
    BY <2>4 DEF Holds
  <2>6. Counted(u) /\ u.tombs \in 0 .. N
    <3>1. Tombs(u) = Tombs(t) \cup {p}
      BY <2>1, <2>4 DEF Tombs
    <3>2. p \notin Tombs(t)
      BY <2>1 DEF Tombs, Holds
    <3>3. Cardinality(Tombs(u)) = Cardinality(Tombs(t)) + 1
      BY <3>1, <3>2, TombsFinite, FS_AddElement
    <3>4. Counted(u)
      BY <3>3, <2>0, <2>3 DEF Counted
    <3> QED
      BY <3>4, TombsFinite DEF Counted
  <2>7. u \in TableType
    <3>1. u.slots \in [Index -> Entry \cup {None}]
      BY <2>1, <2>2, <2>3
    <3>2. u.state \in [Index -> {"NEVER_USED", "LIVE", "TOMBSTONE"}]
      BY <2>1, <2>2, <2>3
    <3>3. u = [slots |-> u.slots, state |-> u.state, tombs |-> u.tombs]
      BY <2>3
    <3> QED
      BY <3>1, <3>2, <3>3, <2>6 DEF TableType
  <2>8. Sound(u)
    BY <2>0, <2>4 DEF Sound
  <2>9. Unique(u)
    BY <2>0, <2>5 DEF Unique
  <2>10. Chain(u)
    <3>1. SUFFICES ASSUME NEW other \in Key, NEW h \in Index, Holds(u, Probe(other, h), other),
                          NEW j \in 0 .. h - 1
                   PROVE  u.state[Probe(other, j)] # "NEVER_USED"
      BY DEF Chain
    <3>2. Probe(other, h) \in Index /\ Probe(other, j) \in Index
      BY ProbeType, Earlier
    <3>3. Holds(t, Probe(other, h), other)
      BY <3>1, <3>2, <2>5
    <3>4. t.state[Probe(other, j)] # "NEVER_USED"
      BY <3>3, <2>0 DEF Chain
    <3> QED
      BY <3>2, <3>4, <2>4
  <2>11. WellFormed(u)
    BY <2>6, <2>7, <2>8, <2>9, <2>10 DEF WellFormed
  <2>12. Content(u)[key] = None
    <3>1. ~\E i \in Index : Holds(u, i, key)
      BY <2>1, <2>5
    <3> QED
      BY <3>1, <2>11, ContentOf
  <2>13. ASSUME NEW other \in Key \ {key}, NEW i \in Index
         PROVE  /\ Holds(u, i, other) <=> Holds(t, i, other)
                /\ Holds(u, i, other) => u.slots[i].value = t.slots[i].value
    <3>1. ~Holds(t, p, other)
      BY <2>1 DEF Holds
    <3> QED
      BY <3>1, <2>4, <2>5
  <2>14. Content(u) = [Content(t) EXCEPT ![key] = None]
    BY <2>11, <2>12, <2>13, ContentChanges
  <2> QED
    BY <2>11, <2>14 DEF u
<1> QED
  BY <1>1, <1>2

-----------------------------------------------------------------------------
(* Room for a new key *)

\* A nonempty set of naturals has a least member.
LEMMA LeastStep ==
  ASSUME NEW T \in SUBSET Nat, T # {}
  PROVE  \E x \in T : \A y \in T : x <= y
<1> DEFINE Lt == {ss \in Nat \X Nat : ss[1] < ss[2]}
<1>1. IsWellFoundedOn(Lt, Nat)
  BY NatLessThanWellFounded DEF OpToRel
<1>2. PICK x \in T : \A y \in T : ~(<<y, x>> \in Lt)
  BY <1>1, WFMin
<1>3. ASSUME NEW y \in T
      PROVE  x <= y
  <2>1. x \in Nat /\ y \in Nat /\ ~(y < x)
    BY <1>2
  <2> QED
    BY <2>1
<1> QED
  BY <1>3

\* insert finds a slot for a new key unless every slot is live, and the slot
\* it finds is on the walk of the key.
LEMMA RoomExact ==
  ASSUME NEW t, WellFormed(t), NEW key \in Key, Hits(t, key) = {}
  PROVE  /\ Room(t, key) # {} =>
              /\ The(Room(t, key)) \in Index
              /\ t.state[Slot(key, Room(t, key))] # "LIVE"
              /\ \A j \in 0 .. The(Room(t, key)) - 1 : t.state[Probe(key, j)] # "NEVER_USED"
         /\ Room(t, key) = {} => \A i \in Index : t.state[i] = "LIVE"
<1>1. ASSUME Room(t, key) # {}
      PROVE  /\ The(Room(t, key)) \in Index
             /\ t.state[Slot(key, Room(t, key))] # "LIVE"
             /\ \A j \in 0 .. The(Room(t, key)) - 1 : t.state[Probe(key, j)] # "NEVER_USED"
  <2>1. The(Room(t, key)) \in Room(t, key)
    BY <1>1 DEF The
  <2>2. The(Room(t, key)) \in FirstTomb(t, key) \cup Ends(t, key)
    BY <2>1 DEF Room
  <2> QED
    BY <2>2 DEF FirstTomb, Ends, Passes, Slot
<1>2. ASSUME NEW i \in Index, t.state[i] # "LIVE"
      PROVE  Room(t, key) # {}
  <2> DEFINE T == {k \in Index : t.state[Probe(key, k)] # "LIVE"}
  <2>1. T # {}
    BY <1>2, ProbeOnto
  <2>2. T \in SUBSET Nat
    BY SizeAssumption DEF Index
  <2>3. PICK k \in T : \A h \in T : k <= h
    BY <2>1, <2>2, LeastStep
  <2>4. ASSUME NEW j \in 0 .. k - 1
        PROVE  t.state[Probe(key, j)] = "LIVE"
    <3>1. j \in Index /\ ~(k <= j)
      BY <2>3, <2>2, Earlier
    <3> QED
      BY <3>1, <2>3
  <2>5. \A i_1 \in Index : ~Holds(t, i_1, key)
    BY HitsExact
  <2>6. Passes(t, key, k)
    <3>1. ASSUME NEW j \in 0 .. k - 1
          PROVE  t.state[Probe(key, j)] # "NEVER_USED" /\ ~Holds(t, Probe(key, j), key)
      BY <2>4, <2>5, ProbeType, Earlier
    <3> QED
      BY <3>1 DEF Passes
  <2>7. t.state[Probe(key, k)] \in {"NEVER_USED", "TOMBSTONE"}
    BY <2>3, ProbeType DEF WellFormed, TableType
  <2>8. k \in FirstTomb(t, key) \cup Ends(t, key)
    BY <2>4, <2>6, <2>7 DEF FirstTomb, Ends
  <2> QED
    BY <2>8 DEF Room
<1> QED
  BY <1>1, <1>2

\* insert keeps the table well formed, and adds the entry unless it is full.
LEMMA InsertFits ==
  ASSUME NEW t, WellFormed(t), NEW key \in Key, NEW value \in Value
  PROVE  /\ WellFormed(Inserted(t, key, value))
         /\ ~Full(t, key) =>
              Content(Inserted(t, key, value)) = [Content(t) EXCEPT ![key] = value]
         /\ Full(t, key) => Inserted(t, key, value) = t
<1>1. CASE Hits(t, key) # {}
  <2>1. The(Hits(t, key)) \in Hits(t, key)
    BY <1>1 DEF The
  <2>2. The(Hits(t, key)) \in Index /\ Passes(t, key, The(Hits(t, key)))
    BY <2>1 DEF Hits
  <2>3. /\ \A i \in Index : Holds(t, i, key) => i = Probe(key, The(Hits(t, key)))
        /\ Holds(t, Probe(key, The(Hits(t, key))), key)
    BY <1>1, HitsExact DEF Slot
  <2>4. \A j \in 0 .. The(Hits(t, key)) - 1 : t.state[Probe(key, j)] # "NEVER_USED"
    BY <2>2 DEF Passes
  <2>5. Inserted(t, key, value) = Put(t, Probe(key, The(Hits(t, key))), key, value)
    BY <1>1 DEF Inserted, Slot
  <2> QED
    BY <1>1, <2>2, <2>3, <2>4, <2>5, PutFits DEF Full
<1>2. CASE Hits(t, key) = {} /\ Room(t, key) # {}
  <2>1. /\ The(Room(t, key)) \in Index
        /\ t.state[Probe(key, The(Room(t, key)))] # "LIVE"
        /\ \A j \in 0 .. The(Room(t, key)) - 1 : t.state[Probe(key, j)] # "NEVER_USED"
    BY <1>2, RoomExact DEF Slot
  <2>2. \A i \in Index : ~Holds(t, i, key)
    BY <1>2, HitsExact
  <2>3. Inserted(t, key, value) = Put(t, Probe(key, The(Room(t, key))), key, value)
    BY <1>2 DEF Inserted, Slot
  <2> QED
    BY <1>2, <2>1, <2>2, <2>3, PutFits DEF Full
<1>3. CASE Full(t, key)
  BY <1>3 DEF Full, Inserted
<1> QED
  BY <1>1, <1>2, <1>3 DEF Full

-----------------------------------------------------------------------------
(* Counting *)

LiveSlots(t) == {i \in Index : t.state[i] = "LIVE"}

LiveKeys(t) == {key \in Key : Content(t)[key] # None}

\* As many keys are live as slots are.
LEMMA LiveCount ==
  ASSUME NEW t, WellFormed(t)
  PROVE  /\ IsFiniteSet(LiveSlots(t))
         /\ Cardinality(LiveSlots(t)) \in 0 .. N
         /\ Cardinality(LiveKeys(t)) = Cardinality(LiveSlots(t))
<1>1. IsFiniteSet(LiveSlots(t)) /\ Cardinality(LiveSlots(t)) \in 0 .. N
  <2>1. LiveSlots(t) \in SUBSET Index
    BY DEF LiveSlots
  <2> QED
    BY <2>1, IndexFinite, FS_Subset, FS_CardinalityType, SizeAssumption
<1> DEFINE f == [i \in LiveSlots(t) |-> t.slots[i].key]
<1>2. ASSUME NEW i \in LiveSlots(t)
      PROVE  i \in Index /\ f[i] \in Key /\ Holds(t, i, f[i])
  <2>1. i \in Index /\ t.state[i] = "LIVE" /\ t.slots[i] \in Entry
    BY DEF LiveSlots, WellFormed, Sound
  <2> QED
    BY <2>1 DEF Entry, Holds
<1>3. f \in [LiveSlots(t) -> LiveKeys(t)]
  <2>1. ASSUME NEW i \in LiveSlots(t)
        PROVE  f[i] \in LiveKeys(t)
    <3>1. Content(t)[f[i]] \in Value
      BY <1>2, ContentOf
    <3> QED
      BY <3>1, <1>2, NoneAssumption DEF LiveKeys
  <2> QED
    BY <2>1
<1>4. \A i, j \in LiveSlots(t) : f[i] = f[j] => i = j
  BY <1>2 DEF WellFormed, Unique
<1>5. ASSUME NEW key \in LiveKeys(t)
      PROVE  \E i \in LiveSlots(t) : f[i] = key
  <2>1. key \in Key /\ Content(t)[key] # None
    BY DEF LiveKeys
  <2>2. PICK i \in Index : Holds(t, i, key)
    BY <2>1, ContentOf
  <2> QED
    BY <2>2 DEF LiveSlots, Holds
<1>6. f \in Bijection(LiveSlots(t), LiveKeys(t))
  BY <1>3, <1>4, <1>5 DEF Bijection, Injection, Surjection, IsInjective
<1>7. ExistsBijection(LiveSlots(t), LiveKeys(t))
  BY <1>6 DEF ExistsBijection
<1> QED
  BY <1>1, <1>7, FS_Bijection

\* Occupied slots less tombstones is the number of live keys.
LEMMA LenExact ==
  ASSUME NEW t, WellFormed(t)
  PROVE  Occupied(t) - t.tombs = Cardinality(LiveKeys(t))
<1> DEFINE occ == {i \in Index : t.state[i] # "NEVER_USED"}
<1>1. \A i \in Index : t.state[i] \in {"NEVER_USED", "LIVE", "TOMBSTONE"}
  BY DEF WellFormed, TableType
<1>2. occ = LiveSlots(t) \cup Tombs(t) /\ LiveSlots(t) \cap Tombs(t) = {}
  BY <1>1 DEF LiveSlots, Tombs
<1>3. Cardinality(occ) = Cardinality(LiveSlots(t)) + Cardinality(Tombs(t))
  <2>1. IsFiniteSet(LiveSlots(t)) /\ IsFiniteSet(Tombs(t))
    BY LiveCount, TombsFinite
  <2>2. Cardinality(LiveSlots(t) \cup Tombs(t)) =
          Cardinality(LiveSlots(t)) + Cardinality(Tombs(t)) - Cardinality(LiveSlots(t) \cap Tombs(t))
    BY <2>1, FS_Union
  <2>3. Cardinality(LiveSlots(t) \cap Tombs(t)) = 0
    BY <1>2, FS_EmptySet
  <2>4. Cardinality(LiveSlots(t)) \in Nat /\ Cardinality(Tombs(t)) \in Nat
    BY <2>1, FS_CardinalityType
  <2> HIDE DEF occ
  <2> QED
    BY <1>2, <2>2, <2>3, <2>4
<1> QED
  BY <1>3, LiveCount, TombsFinite, SizeAssumption DEF Occupied, WellFormed, Counted

\* insert refuses a new key exactly when N keys are live.
LEMMA FullExact ==
  ASSUME NEW t, WellFormed(t), NEW key \in Key
  PROVE  /\ Full(t, key) => key \notin LiveKeys(t) /\ Cardinality(LiveKeys(t)) = N
         /\ ~Full(t, key) => key \in LiveKeys(t) \/ Cardinality(LiveKeys(t)) < N
<1>1. key \in LiveKeys(t) <=> Hits(t, key) # {}
  BY LookupExact DEF LiveKeys
<1>2. ASSUME Full(t, key)
      PROVE  Cardinality(LiveKeys(t)) = N
  <2>1. \A i \in Index : t.state[i] = "LIVE"
    BY <1>2, RoomExact DEF Full
  <2>2. LiveSlots(t) = Index
    BY <2>1 DEF LiveSlots
  <2> QED
    BY <2>2, LiveCount, IndexFinite
<1>3. ASSUME ~Full(t, key), Hits(t, key) = {}
      PROVE  Cardinality(LiveKeys(t)) < N
  <2>1. The(Room(t, key)) \in Index /\ t.state[Slot(key, Room(t, key))] # "LIVE"
    BY <1>3, RoomExact DEF Full
  <2>2. Slot(key, Room(t, key)) \in Index \ LiveSlots(t)
    BY <2>1, ProbeType DEF Slot, LiveSlots
  <2>3. LiveSlots(t) \in SUBSET Index /\ LiveSlots(t) # Index
    BY <2>2 DEF LiveSlots
  <2>4. Cardinality(LiveSlots(t)) # N
    BY <2>3, IndexFinite, FS_Subset
  <2> QED
    BY <2>4, LiveCount, SizeAssumption
<1> QED
  BY <1>1, <1>2, <1>3 DEF Full

\* for_each meets a live key once and no other key.
LEMMA VisitsExact ==
  ASSUME NEW t, WellFormed(t), NEW key \in Key
  PROVE  Visits(t, key) = IF key \in LiveKeys(t) THEN 1 ELSE 0
<1> DEFINE S == {i \in Index : Holds(t, i, key)}
<1>1. CASE \E i \in Index : Holds(t, i, key)
  <2>1. PICK i \in Index : Holds(t, i, key)
    BY <1>1
  <2>2. S = {i}
    BY <2>1 DEF WellFormed, Unique
  <2>3. key \in LiveKeys(t)
    BY <2>1, ContentOf, NoneAssumption DEF LiveKeys
  <2> QED
    BY <2>2, <2>3, FS_Singleton DEF Visits
<1>2. CASE ~\E i \in Index : Holds(t, i, key)
  <2>1. S = {}
    BY <1>2
  <2>2. key \notin LiveKeys(t)
    BY <1>2, ContentOf DEF LiveKeys
  <2> QED
    BY <2>1, <2>2, FS_EmptySet DEF Visits
<1> QED
  BY <1>1, <1>2

-----------------------------------------------------------------------------
(* compact *)

\* The table compact starts from.
LEMMA NewFits ==
  WellFormed(New) /\ Tombs(New) = {} /\ Content(New) = [key \in Key |-> None]
<1>1. \A i \in Index : New.state[i] = "NEVER_USED"
  BY DEF New
<1>2. Tombs(New) = {}
  BY <1>1 DEF Tombs
<1>3. New \in TableType
  BY SizeAssumption DEF New, TableType
<1>4. Sound(New)
  BY <1>1 DEF Sound
<1>5. \A key \in Key : \A i \in Index : ~Holds(New, i, key)
  BY <1>1 DEF Holds
<1>6. Unique(New)
  BY <1>5 DEF Unique
<1>7. Chain(New)
  BY <1>5, ProbeType DEF Chain
<1>8. Counted(New)
  BY <1>2, FS_EmptySet DEF Counted, New
<1>9. Content(New) = [key \in Key |-> None]
  BY <1>5 DEF Content
<1> QED
  BY <1>2, <1>3, <1>4, <1>6, <1>7, <1>8, <1>9 DEF WellFormed

\* There is room for the next entry: the comment in compact, "Cannot fail".
LEMMA CopyRoom ==
  ASSUME NEW t, WellFormed(t), NEW from, WellFormed(from), NEW n \in Index,
         Copied(t, from, n), from.state[n] = "LIVE"
  PROVE  /\ from.slots[n] \in Entry
         /\ \A i \in Index : ~Holds(t, i, from.slots[n].key)
         /\ ~Full(t, from.slots[n].key)
<1> DEFINE key == from.slots[n].key
<1>1. from.slots[n] \in Entry /\ key \in Key /\ Holds(from, n, key)
  BY DEF WellFormed, Sound, Entry, Holds
<1>2. ASSUME NEW i \in Index, Holds(t, i, key)
      PROVE  FALSE
  <2>1. PICK h \in 0 .. n - 1 : from.state[h] = "LIVE" /\ from.slots[h] = t.slots[i]
    BY <1>2 DEF Copied, Holds
  <2>2. h \in Index /\ h # n
    BY Earlier, SizeAssumption DEF Index
  <2>3. Holds(from, h, key)
    BY <1>2, <2>1 DEF Holds
  <2> QED
    BY <1>1, <2>2, <2>3 DEF WellFormed, Unique
<1>3. ASSUME Full(t, key)
      PROVE  FALSE
  <2>1. \A i \in Index : t.state[i] = "LIVE"
    BY <1>1, <1>3, RoomExact DEF Full
  <2> DEFINE f == [i \in Index |-> CHOOSE h \in 0 .. n - 1 :
                                     from.state[h] = "LIVE" /\ from.slots[h] = t.slots[i]]
  <2>2. ASSUME NEW i \in Index
        PROVE  f[i] \in 0 .. n - 1 /\ from.slots[f[i]] = t.slots[i]
    BY <2>1 DEF Copied
  <2>3. ASSUME NEW i \in Index, NEW j \in Index, f[i] = f[j]
        PROVE  i = j
    <3>1. t.slots[i] = t.slots[j] /\ t.slots[i] \in Entry
      BY <2>1, <2>2, <2>3 DEF WellFormed, Sound
    <3>2. Holds(t, i, t.slots[i].key) /\ Holds(t, j, t.slots[i].key) /\ t.slots[i].key \in Key
      BY <2>1, <3>1 DEF Holds, Entry
    <3> QED
      BY <3>2 DEF WellFormed, Unique
  <2>4. f \in Injection(Index, 0 .. n - 1)
    BY <2>2, <2>3 DEF Injection, IsInjective
  <2>5. n \in Nat /\ n < N
    BY SizeAssumption DEF Index
  <2>6. IsFiniteSet(0 .. n - 1) /\ Cardinality(0 .. n - 1) = n
    BY <2>5, FS_Interval
  <2>7. Cardinality(Index) <= n
    BY <2>4, <2>6, FS_Injection
  <2> QED
    BY <2>5, <2>7, IndexFinite, SizeAssumption
<1> QED
  BY <1>1, <1>2, <1>3

\* One step of compact copies one more slot.
LEMMA CopySlot ==
  ASSUME NEW t, WellFormed(t), NEW from, WellFormed(from), NEW n \in Index,
         Copied(t, from, n), from.state[n] = "LIVE"
  PROVE  /\ WellFormed(Inserted(t, from.slots[n].key, from.slots[n].value))
         /\ Copied(Inserted(t, from.slots[n].key, from.slots[n].value), from, n + 1)
<1> DEFINE e == from.slots[n]
           u == Inserted(t, e.key, e.value)
           p == Slot(e.key, Room(t, e.key))
<1>1. /\ e \in Entry
      /\ \A i \in Index : ~Holds(t, i, e.key)
      /\ ~Full(t, e.key)
  BY CopyRoom
<1>2. e.key \in Key /\ e.value \in Value /\ e = [key |-> e.key, value |-> e.value]
  BY <1>1 DEF Entry
<1>3. Hits(t, e.key) = {}
  BY <1>1, <1>2, HitsExact
<1>4. Room(t, e.key) # {}
  BY <1>1, <1>3 DEF Full
<1>5. p \in Index /\ t.state[p] # "LIVE"
  BY <1>2, <1>3, <1>4, RoomExact, ProbeType DEF Slot
<1>6. u = Put(t, p, e.key, e.value)
  BY <1>3, <1>4 DEF Inserted
<1>7. ASSUME NEW i \in Index
      PROVE  /\ u.slots[i] = IF i = p THEN e ELSE t.slots[i]
             /\ u.state[i] = IF i = p THEN "LIVE" ELSE t.state[i]
  <2>1. /\ t.slots \in [Index -> Entry \cup {None}]
        /\ t.state \in [Index -> {"NEVER_USED", "LIVE", "TOMBSTONE"}]
    BY DEF WellFormed, TableType
  <2>2. /\ u.slots = [t.slots EXCEPT ![p] = e]
        /\ u.state = [t.state EXCEPT ![p] = "LIVE"]
    BY <1>2, <1>6 DEF Put
  <2> QED
    BY <2>1, <2>2
<1>8. WellFormed(u)
  BY <1>2, InsertFits
<1> HIDE DEF u, p
<1>9. n \in Nat /\ n \in 0 .. n /\ \A h \in 0 .. n : h = n \/ h \in 0 .. n - 1
  BY SizeAssumption DEF Index
<1>10. Tombs(u) = {}
  BY <1>7 DEF Tombs, Copied
<1>11. ASSUME NEW i \in Index, u.state[i] = "LIVE"
       PROVE  \E h \in 0 .. n : from.state[h] = "LIVE" /\ from.slots[h] = u.slots[i]
  <2>1. CASE i = p
    BY <2>1, <1>7, <1>9
  <2>2. CASE i # p
    <3>1. t.state[i] = "LIVE" /\ u.slots[i] = t.slots[i]
      BY <2>2, <1>7, <1>11
    <3>2. PICK h \in 0 .. n - 1 : from.state[h] = "LIVE" /\ from.slots[h] = t.slots[i]
      BY <3>1 DEF Copied
    <3>3. h \in 0 .. n
      BY <1>9
    <3> QED
      BY <3>1, <3>2, <3>3
  <2> QED
    BY <2>1, <2>2
<1>12. ASSUME NEW h \in 0 .. n, from.state[h] = "LIVE"
       PROVE  \E i \in Index : u.state[i] = "LIVE" /\ u.slots[i] = from.slots[h]
  <2>1. CASE h = n
    BY <2>1, <1>5, <1>7
  <2>2. CASE h \in 0 .. n - 1
    <3>1. PICK i \in Index : t.state[i] = "LIVE" /\ t.slots[i] = from.slots[h]
      BY <2>2, <1>12 DEF Copied
    <3>2. i # p
      BY <3>1, <1>5
    <3> QED
      BY <3>1, <3>2, <1>7
  <2> QED
    BY <2>1, <2>2, <1>9
<1>13. (n + 1) - 1 = n
  BY <1>9
<1>14. Copied(u, from, n + 1)
  BY <1>10, <1>11, <1>12, <1>13 DEF Copied
<1> QED
  BY <1>8, <1>14 DEF u

\* A slot that is not live is passed over.
LEMMA CopySkip ==
  ASSUME NEW t, NEW from, NEW n \in Index, Copied(t, from, n), from.state[n] # "LIVE"
  PROVE  Copied(t, from, n + 1)
<1>1. n \in Nat /\ (n + 1) - 1 = n /\ \A h \in 0 .. n : h = n \/ h \in 0 .. n - 1
  BY SizeAssumption DEF Index
<1>2. \A h \in 0 .. n - 1 : h \in 0 .. n
  BY <1>1
<1> QED
  BY <1>1, <1>2 DEF Copied

\* What compact returns has the content it was given.
LEMMA CopyDone ==
  ASSUME NEW t, WellFormed(t), NEW from, WellFormed(from), Copied(t, from, N)
  PROVE  Content(t) = Content(from)
<1>1. ASSUME NEW key \in Key
      PROVE  Content(t)[key] = Content(from)[key]
  <2>1. CASE \E i \in Index : Holds(from, i, key)
    <3>1. PICK h \in Index : Holds(from, h, key)
      BY <2>1
    <3>2. PICK i \in Index : t.state[i] = "LIVE" /\ t.slots[i] = from.slots[h]
      BY <3>1 DEF Copied, Holds, Index
    <3>3. Holds(t, i, key)
      BY <3>1, <3>2 DEF Holds
    <3>4. Content(t)[key] = t.slots[i].value
      BY <3>3, ContentOf
    <3>5. Content(from)[key] = from.slots[h].value
      BY <3>1, ContentOf
    <3> QED
      BY <3>2, <3>4, <3>5
  <2>2. CASE ~\E i \in Index : Holds(from, i, key)
    <3>1. ASSUME NEW i \in Index, Holds(t, i, key)
          PROVE  FALSE
      <4>1. PICK h \in Index : from.state[h] = "LIVE" /\ from.slots[h] = t.slots[i]
        BY <3>1 DEF Copied, Holds, Index
      <4>2. Holds(from, h, key)
        BY <3>1, <4>1 DEF Holds
      <4> QED
        BY <2>2, <4>2
    <3> QED
      BY <3>1, <2>2, ContentOf
  <2> QED
    BY <2>1, <2>2
<1> QED
  BY <1>1 DEF Content

-----------------------------------------------------------------------------
(* The theorems *)

LEMMA InitInv ==
  Init => IInv
<1> SUFFICES ASSUME Init PROVE IInv
  OBVIOUS
<1>1. table = New /\ old = None
  BY DEF Init
<1>2. WellFormed(table)
  BY <1>1, NewFits
<1> QED
  BY <1>1, <1>2 DEF IInv, Rebuilding

LEMMA NextInv ==
  IInv /\ [Next]_vars => IInv'
<1> SUFFICES ASSUME IInv, [Next]_vars
             PROVE  WellFormed(table') /\
                    (old' # None => /\ WellFormed(old')
                                    /\ next' \in 0 .. N
                                    /\ Copied(table', old', next'))
  BY DEF IInv, Rebuilding
<1>0. /\ WellFormed(table)
      /\ old # None => WellFormed(old) /\ next \in 0 .. N /\ Copied(table, old, next)
  BY DEF IInv, Rebuilding
<1>1. ASSUME NEW key \in Key, Remove(key)
      PROVE  WellFormed(table') /\ old' = None
  <2>1. table' = Removed(table, key) /\ old' = None
    BY <1>1 DEF Remove
  <2> QED
    BY <2>1, <1>0, RemoveFits
<1>2. ASSUME NEW key \in Key, NEW value \in Value, Insert(key, value)
      PROVE  WellFormed(table') /\ old' = None
  <2>1. table' = Inserted(table, key, value) /\ old' = None
    BY <1>2 DEF Insert
  <2> QED
    BY <2>1, <1>0, InsertFits
<1>3. CASE CompactStart
  <2>1. table' = New /\ old' = table /\ next' = 0
    BY <1>3 DEF CompactStart
  <2>2. Copied(New, table, 0)
    <3>1. \A i \in Index : New.state[i] # "LIVE"
      BY DEF New
    <3>2. 0 .. 0 - 1 = {}
      OBVIOUS
    <3> QED
      BY <3>1, <3>2, NewFits DEF Copied
  <2> QED
    BY <2>1, <2>2, <1>0, NewFits, SizeAssumption
<1>4. CASE CompactSlot
  <2>1. old # None /\ next < N /\ next' = next + 1 /\ old' = old
    BY <1>4 DEF CompactSlot
  <2>2. WellFormed(old) /\ next \in Index /\ Copied(table, old, next)
    BY <2>1, <1>0, SizeAssumption DEF Index
  <2>3. next' \in 0 .. N
    BY <2>1, <2>2, SizeAssumption DEF Index
  <2>4. CASE old.state[next] = "LIVE"
    <3>1. table' = Inserted(table, old.slots[next].key, old.slots[next].value)
      BY <1>4, <2>4 DEF CompactSlot
    <3>2. WellFormed(table') /\ Copied(table', old, next + 1)
      BY <3>1, <2>2, <2>4, <1>0, CopySlot
    <3> QED
      BY <3>2, <2>1, <2>2, <2>3
  <2>5. CASE old.state[next] # "LIVE"
    <3>1. table' = table
      BY <1>4, <2>5 DEF CompactSlot
    <3>2. Copied(table, old, next + 1)
      BY <2>2, <2>5, CopySkip
    <3> QED
      BY <3>1, <3>2, <2>1, <2>2, <2>3, <1>0
  <2> QED
    BY <2>4, <2>5
<1>5. CASE CompactEnd
  BY <1>5, <1>0 DEF CompactEnd
<1>6. CASE UNCHANGED <<table, old, next>>
  BY <1>6, <1>0
<1>7. \A key \in Key : Get(key) \/ Contains(key) => UNCHANGED <<table, old, next>>
  BY DEF Get, Contains
<1>8. Len \/ ForEach \/ CompactNothing \/ UNCHANGED vars => UNCHANGED <<table, old, next>>
  BY DEF Len, ForEach, CompactNothing, vars
<1> QED
  BY <1>1, <1>2, <1>3, <1>4, <1>5, <1>6, <1>7, <1>8 DEF Next

\* Whatever was inserted, removed and rebuilt, in a table of any capacity under
\* any hash, the invariant holds: every live key is in one slot that its walk
\* reaches, tombstones are counted, and compact has copied what it passed.
THEOREM TableInvariance == Spec => []IInv
<1>1. Init => IInv
  BY InitInv
<1>2. IInv /\ [Next]_vars => IInv'
  BY NextInv
<1> QED
  BY <1>1, <1>2, PTL DEF Spec

\* No walk is ever cut short, the reason for the tombstones of Table::remove.
THEOREM ChainsHold == Spec => []Chained
<1>1. IInv => Chained
  BY DEF IInv, WellFormed, Chain, Chained
<1> QED
  BY <1>1, TableInvariance, PTL

\* The map counts as the table does.
LEMMA SameCount ==
  \A S : Map!Cardinality(S) = Cardinality(S)
BY Zenon DEF Map!Cardinality, Cardinality, Map!IsFiniteSet, IsFiniteSet

\* Every call does to the content what it does to a map, and returns the same;
\* the steps of compact change nothing until it returns.
LEMMA Simulation ==
  IInv /\ IInv' /\ [Next]_vars => [Map!Next]_<<Content(Owner), reply>>
<1> SUFFICES ASSUME IInv, IInv', [Next]_vars
             PROVE  Map!Next \/ (Content(Owner)' = Content(Owner) /\ reply' = reply)
  OBVIOUS
<1>0. /\ WellFormed(table)
      /\ old # None => WellFormed(old) /\ Copied(table, old, next)
  BY DEF IInv, Rebuilding
<1> DEFINE m == Content(table)
<1>1. ASSUME NEW key \in Key, Get(key)
      PROVE  Map!Get(key)
  <2>1. old = None /\ table' = table /\ old' = old
    BY <1>1 DEF Get
  <2>2. Content(Owner) = m /\ Content(Owner)' = m
    BY <2>1 DEF Owner
  <2>3. reply' = [op |-> "get", key |-> key, value |-> m[key]]
    BY <1>0, <1>1, LookupExact DEF Get
  <2> QED
    BY <2>2, <2>3 DEF Map!Get
<1>2. ASSUME NEW key \in Key, Contains(key)
      PROVE  Map!Contains(key)
  <2>1. old = None /\ table' = table /\ old' = old
    BY <1>2 DEF Contains
  <2>2. Content(Owner) = m /\ Content(Owner)' = m
    BY <2>1 DEF Owner
  <2>3. Hits(table, key) # {} <=> m[key] # None
    BY <1>0, LookupExact
  <2>4. reply' = [op |-> "contains", key |-> key, found |-> Hits(table, key) # {}]
    BY <1>2 DEF Contains
  <2> HIDE DEF m
  <2>5. (Hits(table, key) # {}) = (key \in {k \in Key : m[k] # None})
    BY <2>3
  <2> QED
    BY <2>2, <2>4, <2>5 DEF Map!Contains, Map!Live
<1>3. ASSUME NEW key \in Key, Remove(key)
      PROVE  Map!Remove(key)
  <2>1. old = None /\ table' = Removed(table, key) /\ old' = old
    BY <1>3 DEF Remove
  <2>2. Content(Owner) = m /\ Content(Owner)' = [m EXCEPT ![key] = None]
    BY <2>1, <1>0, RemoveFits DEF Owner
  <2>3. reply' = [op |-> "remove", key |-> key, value |-> m[key]]
    BY <1>0, <1>3, LookupExact DEF Remove
  <2> QED
    BY <2>2, <2>3 DEF Map!Remove
<1>4. ASSUME NEW key \in Key, NEW value \in Value, Insert(key, value)
      PROVE  Map!Insert(key, value)
  <2>1. old = None /\ table' = Inserted(table, key, value) /\ old' = old
    BY <1>4 DEF Insert
  <2>2. Content(Owner) = m /\ Content(Owner)' = Content(Inserted(table, key, value))
    BY <2>1 DEF Owner
  <2>3. LiveKeys(table) = Map!Live
    BY <2>2 DEF LiveKeys, Map!Live
  <2>4. CASE Full(table, key)
    <3>1. key \notin Map!Live /\ Cardinality(Map!Live) = N
      BY <2>3, <2>4, <1>0, FullExact
    <3>2. Content(Owner)' = Content(Owner)
      BY <2>2, <2>4, <1>0, InsertFits
    <3>3. reply' = [op |-> "TableFull", key |-> key]
      BY <1>4, <2>4 DEF Insert
    <3> QED
      BY <3>1, <3>2, <3>3, SameCount DEF Map!Insert
  <2>5. CASE ~Full(table, key)
    <3>1. key \in Map!Live \/ Cardinality(Map!Live) < N
      BY <2>3, <2>5, <1>0, FullExact
    <3>2. Content(Owner)' = [m EXCEPT ![key] = value]
      BY <2>2, <2>5, <1>0, InsertFits
    <3>3. reply' = [op |-> "insert", key |-> key, old |-> m[key]]
      BY <1>0, <1>4, <2>5, LookupExact DEF Insert
    <3> QED
      BY <2>2, <3>1, <3>2, <3>3, SameCount DEF Map!Insert
  <2> QED
    BY <2>4, <2>5
<1>5. CASE Len
  <2>1. old = None /\ table' = table /\ old' = old
    BY <1>5 DEF Len
  <2>2. Content(Owner) = m /\ Content(Owner)' = m
    BY <2>1 DEF Owner
  <2>3. reply' = [op |-> "len", len |-> Cardinality(LiveKeys(table))]
    BY <1>0, <1>5, LenExact DEF Len
  <2>4. LiveKeys(table) = Map!Live
    BY <2>2 DEF LiveKeys, Map!Live
  <2>5. Map!Len
    BY <2>2, <2>3, <2>4, SameCount DEF Map!Len
  <2> QED
    BY <2>5 DEF Map!Next
<1>6. CASE ForEach
  <2>1. old = None /\ table' = table /\ old' = old
    BY <1>6 DEF ForEach
  <2>2. Content(Owner) = m /\ Content(Owner)' = m
    BY <2>1 DEF Owner
  <2>3. [k \in Key |-> Visits(table, k)] = [k \in Key |-> IF k \in LiveKeys(table) THEN 1 ELSE 0]
    BY <1>0, VisitsExact
  <2>4. LiveKeys(table) = Map!Live
    BY <2>2 DEF LiveKeys, Map!Live
  <2>5. reply' = [op |-> "for_each", visits |-> [k \in Key |-> Visits(table, k)]]
    BY <1>6 DEF ForEach
  <2>6. Map!ForEach
    BY <2>2, <2>3, <2>4, <2>5 DEF Map!ForEach
  <2> QED
    BY <2>6 DEF Map!Next
<1>7. CASE CompactNothing
  <2>1. Content(Owner)' = Content(Owner) /\ reply' = [op |-> "compact"]
    BY <1>7 DEF CompactNothing, Owner
  <2> QED
    BY <2>1 DEF Map!Next, Map!Compact
<1>8. CASE CompactStart
  <2>1. old = None /\ old' = table /\ reply' = reply
    BY <1>8 DEF CompactStart
  <2>2. old' # None
    BY <2>1, <1>0, NoneAssumption DEF WellFormed
  <2> QED
    BY <2>1, <2>2 DEF Owner
<1>9. CASE CompactSlot
  <2>1. old # None /\ old' = old /\ reply' = reply
    BY <1>9 DEF CompactSlot
  <2> QED
    BY <2>1 DEF Owner
<1>10. CASE CompactEnd
  <2>1. old # None /\ next = N /\ old' = None /\ table' = table /\ reply' = [op |-> "compact"]
    BY <1>10 DEF CompactEnd
  <2>2. Content(table) = Content(old)
    BY <2>1, <1>0, CopyDone
  <2>3. Content(Owner)' = Content(Owner)
    BY <2>1, <2>2 DEF Owner
  <2> QED
    BY <2>1, <2>3 DEF Map!Next, Map!Compact
<1>11. CASE UNCHANGED vars
  BY <1>11 DEF vars, Owner
<1> QED
  BY <1>1, <1>2, <1>3, <1>4, <1>5, <1>6, <1>7, <1>8, <1>9, <1>10, <1>11 DEF Next, Map!Next

\* The table of core/src/table.rs implements a map of at most N entries, for
\* every N, 0 included, every hash and every set of keys and values: get,
\* contains, insert, remove, len, for_each and compact.
THEOREM TableIsMap == Spec => IsMap
<1>1. Init => Map!Init
  <2>1. SUFFICES ASSUME Init PROVE Map!Init
    OBVIOUS
  <2>2. table = New /\ old = None /\ reply = [op |-> "new"]
    BY <2>1 DEF Init
  <2>3. Content(Owner) = [key \in Key |-> None]
    BY <2>2, NewFits DEF Owner
  <2> QED
    BY <2>2, <2>3 DEF Map!Init
<1>2. IInv /\ IInv' /\ [Next]_vars => [Map!Next]_<<Content(Owner), reply>>
  BY Simulation
<1> QED
  BY <1>1, <1>2, TableInvariance, PTL DEF Spec, IsMap, Map!Spec
=============================================================================
