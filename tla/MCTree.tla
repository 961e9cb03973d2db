------------------------------- MODULE MCTree -------------------------------
(* Tree with two routers, and a slice of it with three. *)
EXTENDS Tree

\* A reachable state to start three routers from: every link is registered at
\* both ends, in key order, nobody has ticked or read a frame yet, and no link
\* will fail.
Peers(n) == {p \in Node : {n, p} \in Edges}

Linked ==
  LET rank(n, p) == Cardinality({q \in Peers(n) : q <= p})
      req == [seq |-> 1, nonce |-> 0]
  IN  /\ now = 0
      /\ open = Edges
      /\ offered = {}
      /\ linked = [n \in Node |-> Peers(n)]
      /\ chan = [n \in Node |-> [p \in Node |->
                  IF p \in Peers(n) THEN <<[type |-> "SigReq", req |-> req]>> ELSE <<>>]]
      /\ tree = [n \in Node |->
                  [DefaultTree EXCEPT
                     !.port = [p \in Node |-> IF p \in Peers(n) THEN rank(n, p) ELSE 0],
                     !.req  = [p \in Node |-> IF p \in Peers(n) THEN req ELSE None],
                     !.next_port = Cardinality(Peers(n)) + 1]]
      /\ cuts = MaxCuts

\* What is left of Next then, until the clock moves.
LinkedNext ==
  \/ \E n \in Node : Maintain(n)
  \/ \E n, p \in Node : ReadFrame(n, p)

LinkedFairSpec == Linked /\ [][LinkedNext]_vars /\ Fairness

-----------------------------------------------------------------------------
(* Two routers from a cold start, the third being off; or all three from     *)
(* Linked, each with its links read before it ticks again.                   *)

Pair == {1, 2}

ThirdOff == \A n \in Node \ Pair : linked[n] = {}

Calm(n) == tree[n].do_root2 \/ \A p \in linked[n] : chan[p][n] = <<>>

SliceMaintain(n) == (IF ThirdOff THEN n \in Pair ELSE Calm(n)) /\ Maintain(n)

SliceTick == ThirdOff /\ Tick

SliceNext ==
  \/ \E n \in Node : SliceMaintain(n)
  \/ \E n, p \in Node : ReadFrame(n, p)
  \/ \E n, p \in Pair : Open(n, p) \/ Register(n, p) \/ Cut(n, p) \/ Evict(n, p)
  \/ SliceTick

SliceSpec == (Init \/ Linked) /\ [][SliceNext]_vars
=============================================================================
