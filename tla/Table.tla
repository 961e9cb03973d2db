------------------------------- MODULE Table --------------------------------
(***************************************************************************)
(* The open-addressed table of core/src/table.rs, which holds the on-tree  *)
(* flags of the bloom filters: N slots, linear probing, and tombstones     *)
(* where entries were removed.  `reply` is what the last call returned.     *)
(*                                                                         *)
(* A probe loop is the set of steps at which it would stop: Passes says     *)
(* how far the walk of a key gets.  compact rebuilds the table entry by     *)
(* entry, one step each; it owns the table, so nothing else happens         *)
(* meanwhile.                                                               *)
(***************************************************************************)
EXTENDS Naturals, FiniteSets

CONSTANTS
  Key, Value,
  N,        \* the capacity, 0 included
  Home,     \* the slot the hash of a key starts its walk at
  None

ASSUME SizeAssumption == N \in Nat /\ IsFiniteSet(Key)
ASSUME HomeAssumption == N > 0 => Home \in [Key -> 0 .. N - 1]

VARIABLES
  table,    \* slots, their state, and how many are tombstones
  old,      \* what compact is rebuilding the table from, or None
  next,     \* the slot of `old` compact looks at next
  reply

vars == <<table, old, next, reply>>

Index == 0 .. N - 1

Entry == [key : Key, value : Value]

TableType ==
  [slots : [Index -> Entry \cup {None}],
   state : [Index -> {"NEVER_USED", "LIVE", "TOMBSTONE"}],
   tombs : 0 .. N]

ASSUME NoneAssumption == None \notin Value \cup Entry \cup TableType

\* Table::new
New ==
  [slots |-> [i \in Index |-> None], state |-> [i \in Index |-> "NEVER_USED"], tombs |-> 0]

-----------------------------------------------------------------------------
(* Probing *)

\* The k-th slot of a key's walk, (probe_start + k) % N.
Probe(key, k) == IF Home[key] + k < N THEN Home[key] + k ELSE Home[key] + k - N

Holds(t, i, key) == t.state[i] = "LIVE" /\ t.slots[i].key = key

\* The walk gets to step k: it has met neither the key nor a slot never used.
Passes(t, key, k) ==
  \A j \in 0 .. k - 1 :
    t.state[Probe(key, j)] # "NEVER_USED" /\ ~Holds(t, Probe(key, j), key)

\* The step that finds the key, if one does.
Hits(t, key) == {k \in Index : Passes(t, key, k) /\ Holds(t, Probe(key, k), key)}

\* The step that ends the chain, if one does.
Ends(t, key) ==
  {k \in Index : Passes(t, key, k) /\ t.state[Probe(key, k)] = "NEVER_USED"}

\* The first tombstone on the way, if there is one.
FirstTomb(t, key) ==
  {k \in Index : /\ Passes(t, key, k)
                 /\ t.state[Probe(key, k)] = "TOMBSTONE"
                 /\ \A j \in 0 .. k - 1 : t.state[Probe(key, j)] # "TOMBSTONE"}

The(S) == CHOOSE x \in S : TRUE

Slot(key, S) == Probe(key, The(S))

-----------------------------------------------------------------------------
(* The calls, as functions of the table *)

Lookup(t, key) ==
  IF Hits(t, key) = {} THEN None ELSE t.slots[Slot(key, Hits(t, key))].value

Put(t, i, key, value) ==
  [slots |-> [t.slots EXCEPT ![i] = [key |-> key, value |-> value]],
   state |-> [t.state EXCEPT ![i] = "LIVE"],
   tombs |-> IF t.state[i] = "TOMBSTONE" THEN t.tombs - 1 ELSE t.tombs]

\* Mutant: a table without a slot never used counts as full.
RoomSkipsTombs(t, key) ==
  IF Ends(t, key) = {} THEN {} ELSE IF FirstTomb(t, key) # {} THEN FirstTomb(t, key) ELSE Ends(t, key)

\* Where an absent key goes: the first tombstone passed, else the end.
Room(t, key) == IF FirstTomb(t, key) # {} THEN FirstTomb(t, key) ELSE Ends(t, key)

Full(t, key) == Hits(t, key) = {} /\ Room(t, key) = {}

Inserted(t, key, value) ==
  IF Hits(t, key) # {} THEN Put(t, Slot(key, Hits(t, key)), key, value)
  ELSE IF Room(t, key) # {} THEN Put(t, Slot(key, Room(t, key)), key, value)
  ELSE t

\* Mutant: a removed entry leaves a slot never used.
RemovedClean(t, key) ==
  IF Hits(t, key) = {} THEN t
  ELSE [t EXCEPT !.slots[Slot(key, Hits(t, key))] = None,
                 !.state[Slot(key, Hits(t, key))] = "NEVER_USED"]

Removed(t, key) ==
  IF Hits(t, key) = {} THEN t
  ELSE LET i == Slot(key, Hits(t, key))
       IN  [slots |-> [t.slots EXCEPT ![i] = None],
            state |-> [t.state EXCEPT ![i] = "TOMBSTONE"],
            tombs |-> t.tombs + 1]

Occupied(t) == Cardinality({i \in Index : t.state[i] # "NEVER_USED"})

\* How often for_each calls back with a key.
Visits(t, key) == Cardinality({i \in Index : Holds(t, i, key)})

-----------------------------------------------------------------------------
(* The calls *)

Init == table = New /\ old = None /\ next = 0 /\ reply = [op |-> "new"]

Get(key) ==
  /\ old = None
  /\ reply' = [op |-> "get", key |-> key, value |-> Lookup(table, key)]
  /\ UNCHANGED <<table, old, next>>

Contains(key) ==
  /\ old = None
  /\ reply' = [op |-> "contains", key |-> key, found |-> Hits(table, key) # {}]
  /\ UNCHANGED <<table, old, next>>

Insert(key, value) ==
  /\ old = None
  /\ table' = Inserted(table, key, value)
  /\ reply' = IF Full(table, key)
              THEN [op |-> "TableFull", key |-> key]
              ELSE [op |-> "insert", key |-> key, old |-> Lookup(table, key)]
  /\ UNCHANGED <<old, next>>

Remove(key) ==
  /\ old = None
  /\ reply' = [op |-> "remove", key |-> key, value |-> Lookup(table, key)]
  /\ table' = Removed(table, key)
  /\ UNCHANGED <<old, next>>

Len ==
  /\ old = None
  /\ reply' = [op |-> "len", len |-> Occupied(table) - table.tombs]
  /\ UNCHANGED <<table, old, next>>

ForEach ==
  /\ old = None
  /\ reply' = [op |-> "for_each", visits |-> [k \in Key |-> Visits(table, k)]]
  /\ UNCHANGED <<table, old, next>>

\* compact gives a table without tombstones back as it is.
CompactNothing ==
  /\ old = None
  /\ table.tombs = 0
  /\ reply' = [op |-> "compact"]
  /\ UNCHANGED <<table, old, next>>

CompactStart ==
  /\ old = None
  /\ table.tombs # 0
  /\ old' = table
  /\ table' = New
  /\ next' = 0
  /\ UNCHANGED reply

CompactSlot ==
  /\ old # None
  /\ next < N
  /\ table' = IF old.state[next] = "LIVE"
              THEN Inserted(table, old.slots[next].key, old.slots[next].value)
              ELSE table
  /\ next' = next + 1
  /\ UNCHANGED <<old, reply>>

CompactEnd ==
  /\ old # None
  /\ next = N
  /\ old' = None
  /\ next' = 0
  /\ reply' = [op |-> "compact"]
  /\ UNCHANGED table

Next ==
  \/ \E key \in Key : Get(key) \/ Contains(key) \/ Remove(key)
  \/ \E key \in Key, value \in Value : Insert(key, value)
  \/ Len \/ ForEach
  \/ CompactNothing \/ CompactStart \/ CompactSlot \/ CompactEnd

Spec == Init /\ [][Next]_vars

-----------------------------------------------------------------------------
(* Properties *)

\* No walk is cut short: the slots a key's walk passes before it comes to the
\* slot that holds the key have all been used, whatever was removed, reused or
\* rebuilt since the key was inserted (Table::remove's tombstone).
Chained ==
  \A key \in Key, k \in Index :
    Holds(table, Probe(key, k), key) =>
      \A j \in 0 .. k - 1 : table.state[Probe(key, j)] # "NEVER_USED"

\* What a table holds, read off its slots without probing.
Content(t) ==
  [key \in Key |-> IF \E i \in Index : Holds(t, i, key)
                   THEN t.slots[CHOOSE i \in Index : Holds(t, i, key)].value
                   ELSE None]

Owner == IF old = None THEN table ELSE old

Map == INSTANCE BoundedMap WITH map <- Content(Owner), reply <- reply

\* The table is a map of at most N entries: every call returns what a map
\* would return, a new key is refused only when N others are live, and compact
\* loses nothing.
IsMap == Map!Spec
=============================================================================
