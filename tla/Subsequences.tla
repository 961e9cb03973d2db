---------------------------- MODULE Subsequences ----------------------------
(* Parts of a sequence that keep its order. *)
EXTENDS Naturals, Sequences, FiniteSets

\* The members of s at the positions in K, in order.
Pick(s, K) ==
  [j \in 1..Cardinality(K) |-> s[CHOOSE i \in K : Cardinality({h \in K : h <= i}) = j]]
=============================================================================
