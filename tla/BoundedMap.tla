----------------------------- MODULE BoundedMap -----------------------------
(***************************************************************************)
(* What core/src/table.rs promises: a map of at most N entries.  `reply`   *)
(* is what the last call returned.  Nothing here knows of slots, probes or  *)
(* tombstones.                                                              *)
(***************************************************************************)
EXTENDS Naturals, FiniteSets

CONSTANTS Key, Value, N, None

VARIABLES map, reply

Live == {k \in Key : map[k] # None}

Init ==
  /\ map = [k \in Key |-> None]
  /\ reply = [op |-> "new"]

Get(key) ==
  /\ reply' = [op |-> "get", key |-> key, value |-> map[key]]
  /\ UNCHANGED map

Contains(key) ==
  /\ reply' = [op |-> "contains", key |-> key, found |-> key \in Live]
  /\ UNCHANGED map

\* The previous value comes back; a full map refuses a new key untouched.
Insert(key, value) ==
  \/ /\ key \in Live \/ Cardinality(Live) < N
     /\ reply' = [op |-> "insert", key |-> key, old |-> map[key]]
     /\ map' = [map EXCEPT ![key] = value]
  \/ /\ key \notin Live /\ Cardinality(Live) = N
     /\ reply' = [op |-> "TableFull", key |-> key]
     /\ UNCHANGED map

Remove(key) ==
  /\ reply' = [op |-> "remove", key |-> key, value |-> map[key]]
  /\ map' = [map EXCEPT ![key] = None]

Len ==
  /\ reply' = [op |-> "len", len |-> Cardinality(Live)]
  /\ UNCHANGED map

\* Every entry is visited once, and nothing else.
ForEach ==
  /\ reply' = [op |-> "for_each", visits |-> [k \in Key |-> IF k \in Live THEN 1 ELSE 0]]
  /\ UNCHANGED map

Compact ==
  /\ reply' = [op |-> "compact"]
  /\ UNCHANGED map

Next ==
  \/ \E key \in Key : Get(key) \/ Contains(key) \/ Remove(key)
  \/ \E key \in Key, value \in Value : Insert(key, value)
  \/ Len \/ ForEach \/ Compact

Spec == Init /\ [][Next]_<<map, reply>>
=============================================================================
