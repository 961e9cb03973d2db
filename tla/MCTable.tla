------------------------------ MODULE MCTable -------------------------------
(* A table of three slots and four keys, three of which start their walk at  *)
(* the same slot, the last one, and so wrap around.                           *)
EXTENDS Table

MCHome == [k \in Key |-> IF k = 1 THEN 0 ELSE 2]
=============================================================================
