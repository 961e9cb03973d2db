----------------------------- MODULE TreeProofs -----------------------------
(* Theorems about the spanning-tree protocol, for every set of nodes. *)
EXTENDS Tree, SubsequenceProofs, FiniteSetTheorems, TLAPS

-----------------------------------------------------------------------------
(* The line of a key *)

InfosType(t) == t.infos \in [Node -> Info \cup {None}]

\* A stored info names a parent that is a node.
LEMMA InfoParent ==
  ASSUME NEW t, InfosType(t), NEW k \in Node, t.infos[k] # None
  PROVE  t.infos[k] \in Info /\ t.infos[k].parent \in Node
BY DEF InfosType, Info

\* The climb of tree_line goes from a node to a node.
LEMMA NextUpType ==
  ASSUME NEW t, InfosType(t), NEW key \in Node, NEW s \in Seq(Node), Climb(t, key, s)
  PROVE  NextUp(t, key, s) \in Node
<1>1. CASE s = <<>>
  BY <1>1 DEF NextUp
<1>2. CASE s # <<>>
  <2>1. Len(s) \in DOMAIN s /\ s[Len(s)] \in Node
    BY <1>2
  <2>2. t.infos[s[Len(s)]] # None
    BY <2>1 DEF Climb
  <2> QED
    BY <1>2, <2>1, <2>2, InfoParent DEF NextUp
<1> QED
  BY <1>1, <1>2

\* A climb that has somewhere new to go is one step short of a longer climb.
LEMMA ClimbOn ==
  ASSUME NEW t, InfosType(t), NEW key \in Node, NEW s \in Seq(Node),
         Climb(t, key, s), ~IsLine(t, key, s)
  PROVE  /\ Append(s, NextUp(t, key, s)) \in Seq(Node)
         /\ Climb(t, key, Append(s, NextUp(t, key, s)))
<1> DEFINE q == NextUp(t, key, s)
           r == Append(s, q)
<1>1. q \in Node
  BY NextUpType
<1>2. t.infos[q] # None /\ \A i \in DOMAIN s : s[i] # q
  BY DEF IsLine
<1>3. r \in Seq(Node) /\ DOMAIN r = 1..(Len(s) + 1) /\ DOMAIN s = 1..Len(s) /\ Len(s) \in Nat
  BY <1>1
<1>4. r[Len(s) + 1] = q /\ \A i \in 1..Len(s) : r[i] = s[i]
  BY <1>1
<1>5. q = IF Len(s) + 1 = 1 THEN key ELSE t.infos[s[Len(s)]].parent
  BY DEF NextUp
<1> HIDE DEF q, r
<1>6. \A i \in DOMAIN r : t.infos[r[i]] # None
  BY <1>2, <1>3, <1>4 DEF Climb
<1>7. \A i \in DOMAIN r : r[i] = IF i = 1 THEN key ELSE t.infos[r[i - 1]].parent
  <2> TAKE i \in DOMAIN r
  <2>1. CASE i = Len(s) + 1
    BY <2>1, <1>3, <1>4, <1>5
  <2>2. CASE i \in 1..Len(s)
    BY <2>2, <1>3, <1>4 DEF Climb
  <2> QED
    BY <1>3, <2>1, <2>2
<1>8. \A i, j \in DOMAIN r : r[i] = r[j] => i = j
  BY <1>2, <1>3, <1>4 DEF Climb
<1>9. Climb(t, key, r)
  BY <1>6, <1>7, <1>8 DEF Climb
<1> QED
  BY <1>3, <1>9 DEF q, r

\* A climb never repeats a key, so it is no longer than the network is large.
LEMMA ClimbBound ==
  ASSUME NEW t, NEW key, NEW s \in Seq(Node), Climb(t, key, s)
  PROVE  Len(s) <= Cardinality(Node)
<1>1. s \in Injection(1..Len(s), Node)
  BY DEF Climb, Injection, IsInjective
<1>2. Cardinality(1..Len(s)) <= Cardinality(Node)
  BY <1>1, NodeAssumption, FS_Injection
<1>3. Cardinality(1..Len(s)) = Len(s)
  <2>1. Len(s) \in Nat
    OBVIOUS
  <2>2. 1 \in Int /\ Len(s) \in Int
    BY <2>1
  <2>3. Cardinality(1..Len(s)) = IF 1 > Len(s) THEN 0 ELSE Len(s) - 1 + 1
    BY <2>2, FS_Interval
  <2> QED
    BY <2>1, <2>3
<1> QED
  BY <1>2, <1>3

\* Every key has a line: a sequence of nodes whose infos are all known.
LEMMA LineExists ==
  ASSUME NEW t, InfosType(t), NEW key \in Node
  PROVE  Line(t, key) \in Seq(Node) /\ IsLine(t, key, Line(t, key))
<1> DEFINE N == Cardinality(Node)
           Short == {N - Len(s) : s \in {r \in Seq(Node) : Climb(t, key, r)}}
<1>1. N \in Nat
  BY NodeAssumption, FS_CardinalityType
<1>2. Short \in SUBSET Nat
  BY <1>1, ClimbBound
<1>3. Short # {}
  <2>1. <<>> \in Seq(Node) /\ Climb(t, key, <<>>)
    BY DEF Climb
  <2> QED
    BY <2>1
<1>4. PICK x \in Short : \A y \in Short : x <= y
  BY <1>2, <1>3, LeastNat
<1>5. PICK s \in Seq(Node) : Climb(t, key, s) /\ x = N - Len(s)
  BY <1>4
<1>6. IsLine(t, key, s)
  <2> SUFFICES ASSUME ~IsLine(t, key, s)
               PROVE  FALSE
    OBVIOUS
  <2> DEFINE r == Append(s, NextUp(t, key, s))
  <2>1. r \in Seq(Node) /\ Climb(t, key, r)
    BY <1>5, ClimbOn
  <2>2. N - Len(r) \in Short
    BY <2>1
  <2>3. Len(r) = Len(s) + 1
    BY NextUpType, <1>5
  <2>4. Len(s) \in Nat /\ x <= N - Len(r)
    BY <1>4, <2>2
  <2> HIDE DEF N, r
  <2> QED
    BY <1>1, <1>5, <2>3, <2>4
<1>7. s \in SeqOf(Node, N)
  <2>1. Len(s) \in 0..N /\ s \in [1..Len(s) -> Node]
    BY <1>1, <1>5, ClimbBound
  <2> QED
    BY <2>1 DEF SeqOf
<1>8. \A r \in SeqOf(Node, N) : r \in Seq(Node)
  BY <1>1 DEF SeqOf
<1>9. Line(t, key) \in SeqOf(Node, N) /\ IsLine(t, key, Line(t, key))
  BY <1>6, <1>7 DEF Line
<1> QED
  BY <1>8, <1>9

\* Only keys whose info is known are announced.
LEMMA UnsentType ==
  ASSUME NEW t, InfosType(t), NEW n \in Node, NEW p \in Node
  PROVE  /\ Unsent(n, t, p) \in Seq(Node)
         /\ \A j \in DOMAIN Unsent(n, t, p) : t.infos[Unsent(n, t, p)[j]] # None
<1> DEFINE a == Line(t, n)
           b == Line(t, p)
           s == Reverse(a) \o Reverse(b)
           K == {i \in DOMAIN s : /\ s[i] \notin t.sent[p]
                                 /\ \A h \in 1..(i - 1) : s[h] # s[i]}
<1>1. ASSUME NEW k \in Node
      PROVE  /\ Reverse(Line(t, k)) \in Seq(Node)
             /\ \A i \in DOMAIN Reverse(Line(t, k)) : t.infos[Reverse(Line(t, k))[i]] # None
  <2> DEFINE l == Line(t, k)
  <2>1. l \in Seq(Node) /\ \A i \in DOMAIN l : t.infos[l[i]] # None
    BY LineExists DEF IsLine, Climb
  <2>2. \A i \in 1..Len(l) : (Len(l) - i) + 1 \in DOMAIN l
    BY <2>1
  <2> HIDE DEF l
  <2>3. Reverse(l) \in Seq(Node) /\ DOMAIN Reverse(l) = 1..Len(l)
    BY <2>1, <2>2 DEF Reverse
  <2>4. \A i \in 1..Len(l) : Reverse(l)[i] = l[(Len(l) - i) + 1]
    BY DEF Reverse
  <2> QED
    BY <2>1, <2>2, <2>3, <2>4 DEF l
<1> HIDE DEF a, b
<1>2. Reverse(a) \in Seq(Node) /\ Reverse(b) \in Seq(Node)
  BY <1>1 DEF a, b
<1>3. s \in Seq(Node)
  BY <1>2
<1>4. \A i \in DOMAIN s : t.infos[s[i]] # None
  <2> TAKE i \in DOMAIN s
  <2>1. i \in 1..(Len(Reverse(a)) + Len(Reverse(b)))
    BY <1>2
  <2>2. CASE i <= Len(Reverse(a))
    <3>1. s[i] = Reverse(a)[i] /\ i \in DOMAIN Reverse(a)
      BY <1>2, <2>1, <2>2
    <3> QED
      BY <3>1, <1>1 DEF a
  <2>3. CASE i > Len(Reverse(a))
    <3>1. /\ s[i] = Reverse(b)[i - Len(Reverse(a))]
          /\ i - Len(Reverse(a)) \in DOMAIN Reverse(b)
      BY <1>2, <2>1, <2>3
    <3> QED
      BY <3>1, <1>1 DEF b
  <2> QED
    BY <1>2, <2>1, <2>2, <2>3
<1>5. Unsent(n, t, p) = Pick(s, K)
  BY DEF Unsent, a, b
<1>6. K \in SUBSET DOMAIN s
  OBVIOUS
<1> HIDE DEF s, K
<1>7. /\ Pick(s, K) \in Seq(Node)
      /\ \A j \in DOMAIN Pick(s, K) : \E i \in K : Pick(s, K)[j] = s[i]
  BY <1>3, <1>6, PickType
<1> QED
  BY <1>4, <1>5, <1>6, <1>7

-----------------------------------------------------------------------------
(***************************************************************************)
(* The inductive invariant.  PortsAgree is not inductive: an info is made  *)
(* of an answer a node keeps, which came out of a channel, into which the  *)
(* parent put the port in its book.  So the agreement is stated along that *)
(* whole way, for the books `b` of all routers.                            *)
(***************************************************************************)

\* t, as the state of n, agrees with the books: so do its infos, every answer
\* it keeps is to its open request to a key it has in its book, and every key
\* in its book has an open request.
SoundTree(b, n, t) ==
  /\ \A k \in Node : t.infos[k] # None => Vouched(b, k, t.infos[k])
  /\ \A p \in Node : t.responses[p] # None =>
       /\ t.responses[p].port # 0
       /\ t.responses[p].port = b[p].port[n]
       /\ t.responses[p].req = t.req[p]
       /\ t.port[p] # 0
  /\ \A p \in Node : t.port[p] # 0 => t.req[p] # None

\* m, on its way from n to p, agrees with the books.
SoundMsg(b, n, p, m) ==
  /\ m.type = "SigRes" => m.res.port # 0 /\ m.res.port = b[n].port[p]
  /\ m.type = "Announce" => Vouched(b, m.key, m.info)

\* Every book numbers its keys apart, below its counter, and leaves out its
\* own key.
Books ==
  /\ \A n \in Node : tree[n].port[n] = 0
  /\ \A n, k \in Node : tree[n].port[k] < tree[n].next_port
  /\ \A n, j, k \in Node : tree[n].port[j] # 0 /\ tree[n].port[j] = tree[n].port[k] => j = k
  /\ \A n \in Node : <<n, n>> \notin offered

\* A sequence of frames fit to be on their way from n to p.
Channel(b, n, p, s) == s \in Seq(Msg) /\ \A i \in DOMAIN s : SoundMsg(b, n, p, s[i])

IInv ==
  /\ TypeOK
  /\ Books
  /\ \A n \in Node : SoundTree(tree, n, tree[n])
  /\ \A n, p \in Node : Channel(tree, n, p, chan[n][p])

\* What a step computes for n from t, before it writes it to tree[n].
Fine(n, t) ==
  /\ t \in TreeType
  /\ SoundTree(tree, n, t)
  /\ t.port = tree[n].port
  /\ t.next_port = tree[n].next_port

-----------------------------------------------------------------------------
(* What the operators of a tick and of the frame handlers preserve *)

\* What the invariant knows of a node's state includes the type of its infos.
LEMMA FineInfos ==
  ASSUME NEW n \in Node, NEW t, Fine(n, t)
  PROVE  InfosType(t)
BY DEF Fine, TreeType, InfosType

\* tree_new_req builds a request: its seq is a number even after own info expired.
LEMMA NewReqType ==
  ASSUME NEW n \in Node, NEW t, InfosType(t), NEW nonce \in Nat
  PROVE  NewReq(n, t, nonce) \in SigReq
<1>1. CASE t.infos[n] = None
  BY <1>1 DEF NewReq, SigReq
<1>2. CASE t.infos[n] # None
  <2>1. t.infos[n].res.req.seq \in Nat
    BY <1>2, InfoParent DEF Info, SigRes, SigReq
  <2> QED
    BY <1>2, <2>1 DEF NewReq, SigReq
<1> QED
  BY <1>1, <1>2

\* Storing a vouched info (tree_store) keeps a node's state sound.
LEMMA StoreFine ==
  ASSUME NEW n \in Node, NEW t, Fine(n, t), now \in Nat,
         NEW key \in Node, NEW info \in Info, Vouched(tree, key, info)
  PROVE  Fine(n, Store(n, t, key, info))
<1> DEFINE u == Store(n, t, key, info)
<1>1. u \in TreeType
  <2> DEFINE i == [t.infos EXCEPT ![key] = info]
             d == [t.deadlines EXCEPT
                     ![key] = now + (IF key = n THEN TREE_REFRESH ELSE TREE_TIMEOUT)]
             s == [p \in Node |-> t.sent[p] \ {key}]
  <2>1. t \in TreeType
    BY DEF Fine
  <2>2. i \in [Node -> Info \cup {None}]
    BY <2>1 DEF TreeType
  <2>3. d \in [Node -> Nat]
    BY <2>1, TimerAssumption DEF TreeType
  <2>4. s \in [Node -> SUBSET Node]
    BY <2>1 DEF TreeType
  <2>5. u = [t EXCEPT !.infos = i, !.deadlines = d, !.sent = s]
    BY <2>1 DEF Store, TreeType
  <2> HIDE DEF u, i, d, s
  <2> QED
    BY <2>1, <2>2, <2>3, <2>4, <2>5 DEF TreeType
<1>2. /\ u.port = t.port
      /\ u.next_port = t.next_port
      /\ u.responses = t.responses
      /\ u.req = t.req
      /\ u.infos = [t.infos EXCEPT ![key] = info]
  BY DEF Fine, TreeType, Store
<1> HIDE DEF u
<1>3. SoundTree(tree, n, u)
  BY <1>2 DEF Fine, SoundTree, TreeType
<1> QED
  BY <1>1, <1>2, <1>3 DEF Fine, u

\* tree_update stores the info or leaves the state alone: sound either way.
LEMMA UpdateFine ==
  ASSUME NEW n \in Node, NEW t, Fine(n, t), now \in Nat,
         NEW key \in Node, NEW info \in Info, Vouched(tree, key, info)
  PROVE  Fine(n, Update(n, t, key, info))
BY StoreFine DEF Update

\* tree_expire only forgets, so what remains is still vouched for.
LEMMA ExpireFine ==
  ASSUME NEW n \in Node, NEW t, Fine(n, t), now \in Nat
  PROVE  Fine(n, Expire(n, t))
<1> DEFINE u == Expire(n, t)
           dead == {k \in Node : t.infos[k] # None /\ t.deadlines[k] <= now}
<1>1. u \in TreeType
  <2> DEFINE i == [k \in Node |-> IF k \in dead THEN None ELSE t.infos[k]]
             d == [k \in Node |-> IF k \in dead THEN 0 ELSE t.deadlines[k]]
             s == [p \in Node |-> t.sent[p] \ dead]
             due == t.self_refresh_at # None /\ t.self_refresh_at <= now
             r == t.refresh \/ due
             f == IF due THEN now + TREE_REFRESH ELSE t.self_refresh_at
  <2>1. t \in TreeType
    BY DEF Fine
  <2>2. i \in [Node -> Info \cup {None}] /\ d \in [Node -> Nat] /\ s \in [Node -> SUBSET Node]
    BY <2>1 DEF TreeType
  <2>3. f \in Nat \cup {None}
    BY <2>1, TimerAssumption DEF TreeType
  <2>4. r \in BOOLEAN
    BY <2>1 DEF TreeType
  <2>5. u = [t EXCEPT !.infos = i, !.deadlines = d, !.sent = s, !.refresh = r,
                      !.self_refresh_at = f]
    BY <2>1 DEF Expire, TreeType
  <2> HIDE DEF u, i, d, s, r, f
  <2> QED
    BY <2>1, <2>2, <2>3, <2>4, <2>5 DEF TreeType
<1>2. /\ u.port = t.port
      /\ u.next_port = t.next_port
      /\ u.responses = t.responses
      /\ u.req = t.req
      /\ u.infos = [k \in Node |-> IF k \in dead THEN None ELSE t.infos[k]]
  BY DEF Fine, TreeType, Expire
<1> HIDE DEF u
<1>3. SoundTree(tree, n, u)
  BY <1>2 DEF Fine, SoundTree, TreeType
<1> QED
  BY <1>1, <1>2, <1>3 DEF Fine, u

\* Clearing the refresh and root flags touches nothing the invariant speaks of.
LEMMA SettledFine ==
  ASSUME NEW n \in Node, NEW t, Fine(n, t)
  PROVE  Fine(n, Settled(t))
BY DEF Fine, TreeType, Settled, SoundTree

\* The info a node signs for itself under a usable parent carries that parent's port.
LEMMA AttachFine ==
  ASSUME NEW n \in Node, NEW t, Fine(n, t), now \in Nat, tree[n].port[n] = 0,
         NEW p, Usable(n, t, p)
  PROVE  Fine(n, Update(n, t, n, AttachInfo(t, p)))
<1>1. p \in Node /\ t.responses[p] # None
  BY DEF Usable, Answered
<1>2. t.responses[p] \in SigRes
  BY <1>1 DEF Fine, TreeType
<1>3. AttachInfo(t, p) \in Info
  BY <1>1, <1>2 DEF AttachInfo, Info
<1>4. t.responses[p].port # 0 /\ t.responses[p].port = tree[p].port[n]
  BY <1>1 DEF Fine, SoundTree
<1>5. Vouched(tree, n, AttachInfo(t, p))
  BY <1>4 DEF Vouched, AttachInfo
<1> QED
  BY <1>3, <1>5, UpdateFine

\* The info of a node that makes itself root is vouched by itself, on port 0.
LEMMA BecomeRootFine ==
  ASSUME NEW n \in Node, NEW t, Fine(n, t), now \in Nat, NEW nonce \in Nat
  PROVE  Fine(n, BecomeRoot(n, t, nonce))
<1> DEFINE i == RootInfo(n, t, nonce)
           u == Update(n, t, n, i)
<1>1. NewReq(n, t, nonce) \in SigReq
  BY FineInfos, NewReqType
<1>2. i \in Info
  BY <1>1 DEF RootInfo, Info, SigRes
<1>3. Vouched(tree, n, i)
  BY DEF RootInfo, Vouched
<1> HIDE DEF i
<1>4. Fine(n, u)
  BY <1>2, <1>3, UpdateFine
<1>5. BecomeRoot(n, t, nonce) = [u EXCEPT !.self_refresh_at = now + TREE_REFRESH]
  BY DEF BecomeRoot, i
<1> DEFINE v == [u EXCEPT !.self_refresh_at = now + TREE_REFRESH]
<1> HIDE DEF u
<1>6. v \in TreeType
  BY <1>4, TimerAssumption, SMTT(30) DEF Fine, TreeType
<1>7. /\ v.port = u.port /\ v.next_port = u.next_port /\ v.infos = u.infos
      /\ v.responses = u.responses /\ v.req = u.req
  BY <1>4 DEF Fine, TreeType
<1> HIDE DEF v
<1>8. Fine(n, v)
  BY <1>4, <1>6, <1>7 DEF Fine, SoundTree
<1> QED
  BY <1>5, <1>8 DEF v

\* tree_fix attaches, roots itself or only sets a flag: sound in each case.
LEMMA FixFine ==
  ASSUME NEW n \in Node, NEW t, Fine(n, t), now \in Nat, tree[n].port[n] = 0,
         NEW best, NEW nonce \in Nat
  PROVE  Fine(n, Fix(n, t, best, nonce).tree)
<1>1. Fine(n, [t EXCEPT !.do_root1 = TRUE])
  BY DEF Fine, TreeType, SoundTree
<1>2. Usable(n, t, best.parent) =>
        Fine(n, Settled(Update(n, t, n, AttachInfo(t, best.parent))))
  BY AttachFine, SettledFine
<1>3. Fine(n, Settled(BecomeRoot(n, t, nonce)))
  BY BecomeRootFine, SettledFine
<1> QED
  BY <1>1, <1>2, <1>3 DEF Fix

\* tree_send_reqs renews the open requests and drops every answer together.
LEMMA SendAllReqsFine ==
  ASSUME NEW n \in Node, NEW t, Fine(n, t), linked \in [Node -> SUBSET Node],
         NEW nonce \in [linked[n] \cup {n} -> Nonce], NEW stop
  PROVE  Fine(n, SendAllReqs(n, t, nonce, stop))
<1> DEFINE u == SendAllReqs(n, t, nonce, stop)
           q == [p \in Node |-> IF p \in linked[n] /\ Reached(p, stop)
                               THEN NewReq(n, t, nonce[p]) ELSE t.req[p]]
           r == [p \in Node |-> None]
<1>1. t \in TreeType
  BY DEF Fine
<1>2. ASSUME NEW p \in linked[n]
      PROVE  NewReq(n, t, nonce[p]) \in SigReq
  BY FineInfos, NewReqType, NonceAssumption
<1>3. q \in [Node -> SigReq \cup {None}]
  BY <1>1, <1>2 DEF TreeType
<1>4. r \in [Node -> SigRes \cup {None}]
  OBVIOUS
<1>5. u = [t EXCEPT !.responses = r, !.req = q]
  BY <1>1 DEF SendAllReqs, TreeType
<1> HIDE DEF u, q
<1>6. u \in TreeType
  BY <1>1, <1>3, <1>4, <1>5 DEF TreeType
<1>7. u.port = t.port /\ u.next_port = t.next_port /\ u.infos = t.infos /\ u.responses = r
  BY <1>1, <1>5 DEF TreeType
<1>8. \A p \in Node : u.port[p] # 0 => u.req[p] # None
  <2>1. u.req = q
    BY <1>1, <1>5 DEF TreeType
  <2>2. \A p \in Node : q[p] \in SigReq \/ q[p] = t.req[p]
    BY <1>2 DEF q
  <2> QED
    BY <1>7, <2>1, <2>2, NoneAssumption DEF Fine, SoundTree
<1>9. Fine(n, u)
  BY <1>6, <1>7, <1>8 DEF Fine, SoundTree
<1> QED
  BY <1>9 DEF u

\* Recording what was announced on each link keeps a node's state sound.
LEMMA SendAnnouncesFine ==
  ASSUME NEW n \in Node, NEW t, Fine(n, t), NEW stop
  PROVE  Fine(n, SendAnnounces(n, t, stop))
<1> DEFINE u == SendAnnounces(n, t, stop)
           s == [p \in Node |->
                  IF t.port[p] # 0 /\ Reached(p, stop)
                  THEN t.sent[p] \cup Range(Unsent(n, t, p)) ELSE t.sent[p]]
<1>1. t \in TreeType
  BY DEF Fine
<1>2. ASSUME NEW p \in Node
      PROVE  Range(Unsent(n, t, p)) \subseteq Node
  BY FineInfos, UnsentType DEF Range
<1>3. s \in [Node -> SUBSET Node]
  BY <1>1, <1>2 DEF TreeType
<1>4. u = [t EXCEPT !.sent = s]
  BY <1>1 DEF SendAnnounces, TreeType
<1> HIDE DEF u, s
<1> QED
  BY <1>1, <1>3, <1>4, SMTT(30) DEF Fine, TreeType, SoundTree, u

\* Accepting an answer to the open request, from a peer whose books agree, is sound.
LEMMA AnswerFine ==
  ASSUME NEW n \in Node, NEW t, Fine(n, t), NEW p \in Node, NEW res \in SigRes,
         res.port # 0, res.port = tree[p].port[n], t.port[p] # 0
  PROVE  Fine(n, Answer(t, p, res))
<1>1. CASE t.req[p] = res.req /\ t.responses[p] = None
  <2> DEFINE r == [t.responses EXCEPT ![p] = res]
  <2>1. Answer(t, p, res) = [t EXCEPT !.responses = r]
    BY <1>1 DEF Answer, Fine, TreeType
  <2>2. r \in [Node -> SigRes \cup {None}]
    BY DEF Fine, TreeType
  <2>3. \A q \in Node : r[q] = IF q = p THEN res ELSE t.responses[q]
    BY DEF Fine, TreeType
  <2> HIDE DEF r
  <2> QED
    BY <1>1, <2>1, <2>2, <2>3 DEF Fine, TreeType, SoundTree
<1>2. CASE ~(t.req[p] = res.req /\ t.responses[p] = None)
  BY <1>2 DEF Answer
<1> QED
  BY <1>1, <1>2

\* Taking in an announce whose info is vouched for keeps a node's state sound.
LEMMA LearnFine ==
  ASSUME NEW n \in Node, NEW t, Fine(n, t), now \in Nat, NEW p \in Node,
         NEW key \in Node, NEW info \in Info, Vouched(tree, key, info)
  PROVE  Fine(n, Learn(n, t, p, key, info))
<1> DEFINE u == Update(n, t, key, info)
           r == u.refresh \/ (Adopts(t, key, info) /\ key = n)
           s == [u.sent EXCEPT ![p] = u.sent[p] \cup {key}]
<1>1. Fine(n, u)
  BY UpdateFine
<1> HIDE DEF u
<1>2. u \in TreeType
  BY <1>1 DEF Fine
<1>3. r \in BOOLEAN
  BY <1>2 DEF TreeType, Adopts, Fresher
<1>4. s \in [Node -> SUBSET Node]
  BY <1>2 DEF TreeType
<1>5. Learn(n, t, p, key, info) = [u EXCEPT !.refresh = r, !.sent = s]
  BY <1>2 DEF Learn, TreeType, u
<1> DEFINE v == [u EXCEPT !.refresh = r, !.sent = s]
<1> HIDE DEF r, s
<1>6. v \in TreeType
  BY <1>2, <1>3, <1>4 DEF TreeType
<1>7. /\ v.port = u.port /\ v.next_port = u.next_port /\ v.infos = u.infos
      /\ v.responses = u.responses /\ v.req = u.req
  BY <1>2 DEF TreeType
<1> HIDE DEF v
<1>8. Fine(n, v)
  BY <1>1, <1>6, <1>7 DEF Fine, SoundTree
<1> QED
  BY <1>5, <1>8 DEF v

-----------------------------------------------------------------------------
(* Frames *)

\* Sound frames written behind sound frames leave a sound channel.
LEMMA ChannelConcat ==
  ASSUME NEW b, NEW n, NEW p, NEW r, NEW s, Channel(b, n, p, r), Channel(b, n, p, s)
  PROVE  Channel(b, n, p, r \o s)
<1>1. r \in Seq(Msg) /\ s \in Seq(Msg)
  BY DEF Channel
<1>2. r \o s \in Seq(Msg) /\ DOMAIN (r \o s) = 1..(Len(r) + Len(s))
  BY <1>1
<1>3. ASSUME NEW i \in DOMAIN (r \o s)
      PROVE  \/ \E j \in DOMAIN r : (r \o s)[i] = r[j]
             \/ \E j \in DOMAIN s : (r \o s)[i] = s[j]
  <2>1. CASE i <= Len(r)
    BY <1>1, <1>2, <2>1
  <2>2. CASE i > Len(r)
    <3>1. i - Len(r) \in DOMAIN s /\ (r \o s)[i] = s[i - Len(r)]
      BY <1>1, <1>2, <2>2
    <3> QED
      BY <3>1
  <2> QED
    BY <1>1, <1>2, <2>1, <2>2
<1> QED
  BY <1>2, <1>3 DEF Channel

\* The frame read off a sound channel is sound, and so is the rest.
LEMMA ChannelTail ==
  ASSUME NEW b, NEW n, NEW p, NEW s, Channel(b, n, p, s), s # <<>>
  PROVE  /\ Channel(b, n, p, Tail(s))
         /\ Head(s) \in Msg /\ SoundMsg(b, n, p, Head(s))
<1>1. s \in Seq(Msg) /\ 1 \in DOMAIN s
  BY DEF Channel
<1>2. Tail(s) \in Seq(Msg) /\ \A i \in DOMAIN Tail(s) : i + 1 \in DOMAIN s /\ Tail(s)[i] = s[i + 1]
  BY <1>1
<1>3. Head(s) = s[1] /\ s[1] \in Msg
  BY <1>1
<1> QED
  BY <1>1, <1>2, <1>3 DEF Channel

\* A channel with nothing in flight is sound.
LEMMA ChannelEmpty ==
  ASSUME NEW b, NEW n, NEW p
  PROVE  Channel(b, n, p, <<>>)
BY DEF Channel

\* A request is sound on any channel: it promises nothing.
LEMMA ChannelReq ==
  ASSUME NEW b, NEW n, NEW p, NEW q \in SigReq
  PROVE  Channel(b, n, p, <<[type |-> "SigReq", req |-> q]>>)
BY DEF Channel, SoundMsg, Msg

\* An answer is sound when it carries the port in its sender's books.
LEMMA ChannelRes ==
  ASSUME NEW b, NEW n, NEW p, NEW r \in SigRes, r.port # 0, r.port = b[n].port[p]
  PROVE  Channel(b, n, p, <<[type |-> "SigRes", res |-> r]>>)
BY DEF Channel, SoundMsg, Msg

\* Announces made from a sound state are sound frames.
LEMMA ChannelAnnounces ==
  ASSUME NEW a, NEW p, NEW n \in Node, NEW t, Fine(n, t),
         NEW keys \in Seq(Node), \A j \in DOMAIN keys : t.infos[keys[j]] # None
  PROVE  Channel(tree, a, p, Announces(t, keys))
<1> DEFINE m(j) == [type |-> "Announce", key |-> keys[j], info |-> t.infos[keys[j]]]
<1>1. ASSUME NEW j \in DOMAIN keys
      PROVE  m(j) \in Msg /\ SoundMsg(tree, a, p, m(j))
  <2>1. keys[j] \in Node /\ t.infos[keys[j]] \in Info
    BY FineInfos, InfoParent
  <2>2. Vouched(tree, keys[j], t.infos[keys[j]])
    BY <2>1 DEF Fine, SoundTree
  <2> QED
    BY <2>1, <2>2 DEF Msg, SoundMsg
<1>2. Announces(t, keys) = [j \in 1..Len(keys) |-> m(j)]
  BY DEF Announces
<1> HIDE DEF m
<1>3. Announces(t, keys) \in Seq(Msg)
  BY <1>1, <1>2
<1> QED
  BY <1>1, <1>2, <1>3 DEF Channel

\* Every link the request loop reached holds an open request afterwards.
LEMMA SendAllReqsReq ==
  ASSUME NEW n \in Node, NEW t, Fine(n, t), linked \in [Node -> SUBSET Node],
         NEW nonce \in [linked[n] \cup {n} -> Nonce], NEW stop,
         NEW p \in linked[n], Reached(p, stop)
  PROVE  SendAllReqs(n, t, nonce, stop).req[p] \in SigReq
<1>1. NewReq(n, t, nonce[p]) \in SigReq
  BY FineInfos, NewReqType, NonceAssumption
<1>2. p \in Node
  OBVIOUS
<1> QED
  BY <1>1, <1>2 DEF SendAllReqs, Fine, TreeType

\* A write of sound frames leaves every channel sound.
LEMMA WriteSound ==
  ASSUME \A a, b \in Node : Channel(tree, a, b, chan[a][b]),
         NEW n \in Node, NEW frames, \A p \in Node : Channel(tree, n, p, frames[p]),
         NEW gone, Write(n, frames, gone)
  PROVE  /\ chan' \in [Node -> [Node -> Seq(Msg)]]
         /\ \A a, b \in Node : Channel(tree, a, b, chan'[a][b])
<1>1. ASSUME NEW a \in Node, NEW b \in Node
      PROVE  Channel(tree, a, b, chan'[a][b])
  <2>1. \/ chan'[a][b] = <<>>
        \/ a = n /\ chan'[a][b] = chan[a][b] \o frames[b]
        \/ chan'[a][b] = chan[a][b]
    BY DEF Write
  <2> QED
    BY <2>1, ChannelEmpty, ChannelConcat
<1>2. \A a, b \in Node : chan'[a][b] \in Seq(Msg)
  BY <1>1 DEF Channel
<1>3. chan' = [a \in Node |-> [b \in Node |-> chan'[a][b]]]
  BY DEF Write
<1> QED
  BY <1>1, <1>2, <1>3

-----------------------------------------------------------------------------
(* From one state to the next *)

\* A port once given is kept, so what agreed with the books still does.
LEMMA BooksKept ==
  ASSUME NEW b, NEW c,
         \A n, k \in Node : b[n].port[k] # 0 => c[n].port[k] = b[n].port[k]
  PROVE  /\ \A k \in Node, i \in Info : Vouched(b, k, i) => Vouched(c, k, i)
         /\ \A n \in Node, t \in TreeType : SoundTree(b, n, t) => SoundTree(c, n, t)
         /\ \A n, p \in Node : \A s : Channel(b, n, p, s) => Channel(c, n, p, s)
<1>1. ASSUME NEW k \in Node, NEW i \in Info, Vouched(b, k, i)
      PROVE  Vouched(c, k, i)
  BY <1>1 DEF Vouched, Info
<1>2. ASSUME NEW n \in Node, NEW t \in TreeType, SoundTree(b, n, t)
      PROVE  SoundTree(c, n, t)
  <2>1. ASSUME NEW k \in Node, t.infos[k] # None
        PROVE  Vouched(c, k, t.infos[k])
    <3>1. t.infos[k] \in Info
      BY <2>1 DEF TreeType
    <3> QED
      BY <1>1, <1>2, <2>1, <3>1 DEF SoundTree
  <2>2. ASSUME NEW p \in Node, t.responses[p] # None
        PROVE  t.responses[p].port = c[p].port[n]
    BY <1>2, <2>2 DEF SoundTree
  <2> QED
    BY <1>2, <2>1, <2>2 DEF SoundTree
<1>3. ASSUME NEW n \in Node, NEW p \in Node, NEW s, Channel(b, n, p, s)
      PROVE  Channel(c, n, p, s)
  <2>1. ASSUME NEW i \in DOMAIN s
        PROVE  SoundMsg(c, n, p, s[i])
    <3>1. s[i] \in Msg /\ SoundMsg(b, n, p, s[i])
      BY <1>3 DEF Channel
    <3>2. s[i].type = "Announce" => s[i].key \in Node /\ s[i].info \in Info
      BY <3>1 DEF Msg
    <3> QED
      BY <1>1, <3>1, <3>2 DEF SoundMsg
  <2> QED
    BY <1>3, <2>1 DEF Channel
<1> QED
  BY <1>1, <1>2, <1>3

\* The parts of a step that together preserve the invariant.
LEMMA StepKeeps ==
  ASSUME IInv,
         now' \in Nat, open' \subseteq Edges, cuts' \in Nat,
         offered' \subseteq Node \X Node,
         linked' \in [Node -> SUBSET Node],
         \A n \in Node : \A p \in linked'[n] : tree'[n].port[p] # 0,
         chan' \in [Node -> [Node -> Seq(Msg)]],
         \A n, p \in Node : Channel(tree, n, p, chan'[n][p]),
         tree' \in [Node -> TreeType],
         \A n \in Node : SoundTree(tree, n, tree'[n]),
         \A n, k \in Node : tree[n].port[k] # 0 => tree'[n].port[k] = tree[n].port[k],
         Books'
  PROVE  IInv'
<1>1. \A n \in Node : SoundTree(tree', n, tree'[n])
  BY BooksKept
<1>2. \A n, p \in Node : Channel(tree', n, p, chan'[n][p])
  BY BooksKept
<1>3. TypeOK'
  BY DEF TypeOK
<1> QED
  BY <1>1, <1>2, <1>3 DEF IInv

\* A step that gives n a fine new state and touches no book.
LEMMA FineStep ==
  ASSUME IInv, NEW n \in Node, NEW w, Fine(n, w), tree' = [tree EXCEPT ![n] = w],
         \A m \in Node : <<m, m>> \notin offered'
  PROVE  /\ tree' \in [Node -> TreeType]
         /\ \A m \in Node : SoundTree(tree, m, tree'[m])
         /\ \A m \in Node : tree'[m].port = tree[m].port
         /\ Books'
<1>1. tree \in [Node -> TreeType] /\ w \in TreeType
  BY DEF IInv, TypeOK, Fine
<1>2. tree' \in [Node -> TreeType]
  BY <1>1
<1>3. \A m \in Node : tree'[m] = IF m = n THEN w ELSE tree[m]
  BY <1>1
<1>4. \A m \in Node : tree'[m].port = tree[m].port /\ tree'[m].next_port = tree[m].next_port
  BY <1>3 DEF Fine
<1>5. \A m \in Node : SoundTree(tree, m, tree'[m])
  BY <1>3 DEF Fine, IInv
<1>6. Books'
  BY <1>4 DEF IInv, Books
<1> QED
  BY <1>2, <1>4, <1>5, <1>6

\* In a state of the invariant every node's state is sound.
LEMMA FineNow ==
  ASSUME IInv, NEW n \in Node
  PROVE  Fine(n, tree[n])
BY DEF IInv, TypeOK, Fine

-----------------------------------------------------------------------------
(* The steps *)

\* The invariant holds when every node has just started.
LEMMA InitIInv == Init => IInv
<1> SUFFICES ASSUME Init
             PROVE  IInv
  OBVIOUS
<1>1. DefaultTree \in TreeType
  BY DEF DefaultTree, TreeType
<1>2. TypeOK
  BY <1>1 DEF Init, TypeOK
<1>3. Books
  BY DEF Init, Books, DefaultTree
<1>4. \A n \in Node : SoundTree(tree, n, tree[n])
  BY DEF Init, SoundTree, DefaultTree
<1>5. \A n, p \in Node : Channel(tree, n, p, chan[n][p])
  BY ChannelEmpty DEF Init
<1> QED
  BY <1>2, <1>3, <1>4, <1>5 DEF IInv

\* A maintenance tick (expire, fix, requests, announces) keeps the invariant.
LEMMA MaintainKeeps ==
  ASSUME IInv, NEW n \in Node, Maintain(n)
  PROVE  IInv'
<1>1. PICK cost \in [linked[n] -> Lags], nonce \in [linked[n] \cup {n} -> Nonce],
           stop \in {None} \cup Deaf(n), early \in BOOLEAN, t \in {Expire(n, tree[n])} :
      \E fixed \in {Fix(n, t, Best(n, t, cost), nonce[n])} :
      \E asked \in {IF fixed.asks
                    THEN SendAllReqs(n, fixed.tree, nonce, IF early THEN stop ELSE None)
                    ELSE fixed.tree} :
        Speak(n, fixed.asks, asked, stop, early)
  BY DEF Maintain
<1> DEFINE fixed == Fix(n, t, Best(n, t, cost), nonce[n])
           halt  == IF early THEN stop ELSE None
           asked == IF fixed.asks THEN SendAllReqs(n, fixed.tree, nonce, halt) ELSE fixed.tree
           w     == IF early THEN asked ELSE SendAnnounces(n, asked, stop)
           reqs(p) == IF fixed.asks /\ (early => Written(p, stop))
                      THEN <<[type |-> "SigReq", req |-> asked.req[p]]>> ELSE <<>>
           anns(p) == IF ~early /\ Written(p, stop)
                      THEN Announces(asked, Unsent(n, asked, p)) ELSE <<>>
           frames == [p \in Node |-> IF p \in linked[n] THEN reqs(p) \o anns(p) ELSE <<>>]
<1>2. /\ tree' = [tree EXCEPT ![n] = w]
      /\ linked' = [linked EXCEPT ![n] = @ \ {stop}]
      /\ Write(n, frames, {stop})
      /\ UNCHANGED <<now, open, offered, cuts>>
  <2>1. Speak(n, fixed.asks, asked, stop, early)
    BY <1>1
  <2> QED
    BY <2>1 DEF Speak
<1>3. /\ now \in Nat
      /\ linked \in [Node -> SUBSET Node]
      /\ nonce[n] \in Nat
      /\ tree[n].port[n] = 0
  BY NonceAssumption DEF IInv, TypeOK, Books
<1>4. t = Expire(n, tree[n]) /\ Fine(n, t)
  BY <1>3, FineNow, ExpireFine
<1>5. Fine(n, fixed.tree)
  BY <1>3, <1>4, FixFine
<1> HIDE DEF fixed
<1>6. Fine(n, asked)
  BY <1>3, <1>5, SendAllReqsFine
<1>7. Fine(n, w)
  BY <1>6, SendAnnouncesFine
<1>8. ASSUME NEW p \in Node
      PROVE  Channel(tree, n, p, frames[p])
  <2>1. CASE p \notin linked[n]
    BY <2>1, ChannelEmpty
  <2>2. CASE p \in linked[n]
    <3>1. Channel(tree, n, p, reqs(p))
      <4>1. CASE fixed.asks /\ (early => Written(p, stop))
        <5>1. Reached(p, halt)
          <6>1. CASE ~early
            BY <6>1 DEF Reached
          <6>2. CASE early /\ stop = None
            BY <6>2 DEF Reached
          <6>3. CASE early /\ stop # None
            <7>1. stop \in Node
              BY <6>3, <1>3 DEF Deaf
            <7>2. p < stop /\ p \in Int /\ stop \in Int
              BY <4>1, <6>3, <7>1, NodeAssumption DEF Written
            <7> QED
              BY <6>3, <7>2 DEF Reached
          <6> QED
            BY <6>1, <6>2, <6>3
        <5>2. asked.req[p] \in SigReq
          BY <1>3, <1>5, <2>2, <4>1, <5>1, SendAllReqsReq
        <5> QED
          BY <4>1, <5>2, ChannelReq
      <4>2. CASE ~(fixed.asks /\ (early => Written(p, stop)))
        BY <4>2, ChannelEmpty
      <4> QED
        BY <4>1, <4>2
    <3>2. Channel(tree, n, p, Announces(asked, Unsent(n, asked, p)))
      <4> HIDE DEF asked
      <4>1. InfosType(asked)
        BY <1>6, FineInfos
      <4>2. /\ Unsent(n, asked, p) \in Seq(Node)
            /\ \A j \in DOMAIN Unsent(n, asked, p) : asked.infos[Unsent(n, asked, p)[j]] # None
        BY <4>1, UnsentType
      <4> QED
        BY <1>6, <4>2, ChannelAnnounces
    <3>3. Channel(tree, n, p, anns(p))
      BY <3>2, ChannelEmpty
    <3>4. frames[p] = reqs(p) \o anns(p)
      BY <2>2
    <3> HIDE DEF frames, reqs, anns
    <3> QED
      BY <3>1, <3>3, <3>4, ChannelConcat
  <2> QED
    BY <2>1, <2>2
<1> HIDE DEF w, frames, asked
<1>9. /\ chan' \in [Node -> [Node -> Seq(Msg)]]
      /\ \A a, b \in Node : Channel(tree, a, b, chan'[a][b])
  BY <1>2, <1>8, WriteSound DEF IInv
<1>10. /\ tree' \in [Node -> TreeType]
       /\ \A m \in Node : SoundTree(tree, m, tree'[m])
       /\ \A m \in Node : tree'[m].port = tree[m].port
       /\ Books'
  <2>1. \A m \in Node : <<m, m>> \notin offered'
    BY <1>2 DEF IInv, Books
  <2> QED
    BY <1>2, <1>7, <2>1, FineStep
<1>11. linked' \in [Node -> SUBSET Node] /\ \A m \in Node : linked'[m] \subseteq linked[m]
  BY <1>2, <1>3
<1>12. \A m \in Node : \A p \in linked'[m] : tree'[m].port[p] # 0
  BY <1>3, <1>10, <1>11 DEF IInv, TypeOK
<1>13. now' \in Nat /\ open' \subseteq Edges /\ cuts' \in Nat /\ offered' \subseteq Node \X Node
  BY <1>2 DEF IInv, TypeOK
<1> QED
  BY <1>9, <1>10, <1>11, <1>12, <1>13, StepKeeps

\* A linked peer is another node and has a port in the books.
LEMMA LinkedFacts ==
  ASSUME IInv, NEW n \in Node, NEW p \in linked[n]
  PROVE  p \in Node /\ p # n /\ tree[n].port[p] # 0
BY DEF IInv, TypeOK, Books

\* Reading a frame and answering it with sound frames.
LEMMA ReceiveSound ==
  ASSUME IInv, NEW n \in Node, NEW p \in linked[n], chan[p][n] # <<>>,
         NEW reply, Channel(tree, n, p, reply), Receive(n, p, reply)
  PROVE  /\ chan' \in [Node -> [Node -> Seq(Msg)]]
         /\ \A a, b \in Node : Channel(tree, a, b, chan'[a][b])
         /\ linked' \in [Node -> SUBSET Node]
         /\ \A m \in Node : linked'[m] \subseteq linked[m]
<1>1. p \in Node /\ p # n
  BY LinkedFacts
<1>2. /\ chan \in [Node -> [Node -> Seq(Msg)]]
      /\ linked \in [Node -> SUBSET Node]
      /\ \A a, b \in Node : Channel(tree, a, b, chan[a][b])
  BY DEF IInv, TypeOK
<1>3. linked' \in [Node -> SUBSET Node] /\ \A m \in Node : linked'[m] \subseteq linked[m]
  BY <1>2 DEF Receive
<1> DEFINE took == Tail(chan[p][n])
           said == IF {n, p} \in open THEN chan[n][p] \o reply ELSE chan[n][p]
           c == [a \in Node |-> [b \in Node |->
                  IF a = p /\ b = n THEN took ELSE IF a = n /\ b = p THEN said ELSE chan[a][b]]]
           d == [a \in Node |-> [b \in Node |->
                  IF a = p /\ b = n THEN <<>> ELSE chan[a][b]]]
<1>4. Channel(tree, p, n, took) /\ Channel(tree, n, p, said)
  BY <1>1, <1>2, ChannelTail, ChannelConcat
<1> HIDE DEF took, said
<1>5. chan' = c \/ chan' = d
  <2>1. CASE chan' = [chan EXCEPT ![p][n] = took, ![n][p] = said]
    BY <1>1, <1>2, <2>1
  <2>2. CASE chan' = [chan EXCEPT ![p][n] = <<>>]
    BY <1>1, <1>2, <2>2
  <2> QED
    BY <1>1, <1>2, <2>1, <2>2 DEF Receive, took, said
<1>6. \A a, b \in Node : Channel(tree, a, b, chan'[a][b])
  <2>1. \A a, b \in Node : Channel(tree, a, b, c[a][b])
    BY <1>2, <1>4
  <2>2. \A a, b \in Node : Channel(tree, a, b, d[a][b])
    BY <1>2, ChannelEmpty
  <2> QED
    BY <1>5, <2>1, <2>2
<1>7. \A a, b \in Node : chan'[a][b] \in Seq(Msg)
  BY <1>6 DEF Channel
<1>8. chan' = [a \in Node |-> [b \in Node |-> chan'[a][b]]]
  BY <1>5
<1> QED
  BY <1>3, <1>6, <1>7, <1>8

\* What the frame handlers have in common: n takes a fine new state, and the
\* frame is read.
LEMMA HandlerKeeps ==
  ASSUME IInv, NEW n \in Node, NEW p \in linked[n], chan[p][n] # <<>>,
         NEW reply, Channel(tree, n, p, reply), Receive(n, p, reply),
         NEW w, Fine(n, w), tree' = [tree EXCEPT ![n] = w],
         UNCHANGED <<now, open, offered, cuts>>
  PROVE  IInv'
<1>1. /\ chan' \in [Node -> [Node -> Seq(Msg)]]
      /\ \A a, b \in Node : Channel(tree, a, b, chan'[a][b])
      /\ linked' \in [Node -> SUBSET Node]
      /\ \A m \in Node : linked'[m] \subseteq linked[m]
  BY ReceiveSound
<1>2. \A m \in Node : <<m, m>> \notin offered'
  BY DEF IInv, Books
<1>3. /\ tree' \in [Node -> TreeType]
      /\ \A m \in Node : SoundTree(tree, m, tree'[m])
      /\ \A m \in Node : tree'[m].port = tree[m].port
      /\ Books'
  BY <1>2, FineStep
<1>4. \A m \in Node : \A q \in linked'[m] : tree'[m].port[q] # 0
  BY <1>1, <1>3, SMTT(30) DEF IInv, TypeOK
<1>5. now' \in Nat /\ open' \subseteq Edges /\ cuts' \in Nat /\ offered' \subseteq Node \X Node
  BY DEF IInv, TypeOK
<1> QED
  BY <1>1, <1>3, <1>4, <1>5, StepKeeps

\* Answering a signature request keeps the invariant.
LEMMA HandleRequestKeeps ==
  ASSUME IInv, NEW n \in Node, NEW p \in Node, HandleRequest(n, p)
  PROVE  IInv'
<1> DEFINE m == Head(chan[p][n])
           r == [req |-> m.req, port |-> tree[n].port[p]]
<1>1. p \in linked[n] /\ chan[p][n] # <<>> /\ m.type = "SigReq"
  BY DEF HandleRequest, Arrived
<1>2. Channel(tree, p, n, chan[p][n])
  BY DEF IInv
<1>3. m \in Msg
  BY <1>1, <1>2, ChannelTail
<1>4. m.req \in SigReq
  BY <1>1, <1>3 DEF Msg
<1>5. tree[n].port[p] \in Nat \ {0}
  BY <1>1, LinkedFacts DEF IInv, TypeOK, TreeType
<1>6. r \in SigRes /\ r.port # 0 /\ r.port = tree[n].port[p]
  BY <1>4, <1>5 DEF SigRes
<1>7. Receive(n, p, <<[type |-> "SigRes", res |-> r]>>) /\ UNCHANGED <<now, open, offered, tree, cuts>>
  BY DEF HandleRequest
<1> HIDE DEF r
<1>8. Channel(tree, n, p, <<[type |-> "SigRes", res |-> r]>>)
  BY <1>6, ChannelRes
<1>9. Fine(n, tree[n]) /\ tree' = [tree EXCEPT ![n] = tree[n]]
  BY <1>7, FineNow DEF IInv, TypeOK
<1> QED
  BY <1>1, <1>7, <1>8, <1>9, HandlerKeeps

\* Taking in a signature response keeps the invariant.
LEMMA HandleResponseKeeps ==
  ASSUME IInv, NEW n \in Node, NEW p \in Node, HandleResponse(n, p)
  PROVE  IInv'
<1> DEFINE m == Head(chan[p][n])
<1>1. p \in linked[n] /\ chan[p][n] # <<>> /\ m.type = "SigRes"
  BY DEF HandleResponse, Arrived
<1>2. Channel(tree, p, n, chan[p][n])
  BY DEF IInv
<1>3. m \in Msg /\ SoundMsg(tree, p, n, m)
  BY <1>1, <1>2, ChannelTail
<1>4. m.res \in SigRes /\ m.res.port # 0 /\ m.res.port = tree[p].port[n]
  BY <1>1, <1>3 DEF Msg, SoundMsg
<1>5. Fine(n, Answer(tree[n], p, m.res))
  BY <1>1, <1>4, LinkedFacts, FineNow, AnswerFine
<1>6. /\ tree' = [tree EXCEPT ![n] = Answer(tree[n], p, m.res)]
      /\ Receive(n, p, <<>>)
      /\ UNCHANGED <<now, open, offered, cuts>>
  BY DEF HandleResponse
<1>7. Channel(tree, n, p, <<>>)
  BY ChannelEmpty
<1> QED
  BY <1>1, <1>5, <1>6, <1>7, HandlerKeeps

\* Taking in an announce, with its correcting replies, keeps the invariant.
LEMMA HandleAnnounceKeeps ==
  ASSUME IInv, NEW n \in Node, NEW p \in Node, HandleAnnounce(n, p)
  PROVE  IInv'
<1> DEFINE m == Head(chan[p][n])
           reply == Better(tree[n], m.key, m.info)
<1>1. p \in linked[n] /\ chan[p][n] # <<>> /\ m.type = "Announce"
  BY DEF HandleAnnounce, Arrived
<1>2. Channel(tree, p, n, chan[p][n])
  BY DEF IInv
<1>3. m \in Msg /\ SoundMsg(tree, p, n, m)
  BY <1>1, <1>2, ChannelTail
<1>4. m.key \in Node /\ m.info \in Info /\ Vouched(tree, m.key, m.info)
  BY <1>1, <1>3 DEF Msg, SoundMsg
<1>5. now \in Nat /\ Fine(n, tree[n])
  BY FineNow DEF IInv, TypeOK
<1>6. /\ tree' = [tree EXCEPT ![n] = Learn(n, tree[n], p, m.key, m.info)]
      /\ Receive(n, p, reply)
      /\ UNCHANGED <<now, open, offered, cuts>>
  BY DEF HandleAnnounce
<1> HIDE DEF m
<1>7. Fine(n, Learn(n, tree[n], p, m.key, m.info))
  BY <1>4, <1>5, LearnFine
<1>8. Channel(tree, n, p, reply)
  <2>1. CASE reply = <<>>
    BY <2>1, ChannelEmpty
  <2>2. CASE reply # <<>>
    <3>1. reply = Announces(tree[n], <<m.key>>) /\ tree[n].infos[m.key] # None
      BY <2>2 DEF Better, Adopts
    <3>2. <<m.key>> \in Seq(Node) /\ \A j \in DOMAIN <<m.key>> : tree[n].infos[<<m.key>>[j]] # None
      BY <1>4, <3>1
    <3> QED
      BY <1>5, <3>1, <3>2, ChannelAnnounces
  <2> QED
    BY <2>1, <2>2
<1> HIDE DEF reply
<1> QED
  BY <1>1, <1>6, <1>7, <1>8, HandlerKeeps DEF m

\* A step that leaves every TreeState alone.
LEMMA QuietKeeps ==
  ASSUME IInv, tree' = tree,
         now' \in Nat, open' \subseteq Edges, cuts' \in Nat,
         offered' \subseteq Node \X Node, \A m \in Node : <<m, m>> \notin offered',
         linked' \in [Node -> SUBSET Node], \A m \in Node : linked'[m] \subseteq linked[m],
         chan' \in [Node -> [Node -> Seq(Msg)]],
         \A a, b \in Node : Channel(tree, a, b, chan'[a][b])
  PROVE  IInv'
<1>1. Books'
  BY DEF IInv, Books
<1>2. \A m \in Node : \A p \in linked'[m] : tree'[m].port[p] # 0
  BY DEF IInv, TypeOK
<1>3. tree' \in [Node -> TreeType] /\ \A m \in Node : SoundTree(tree, m, tree'[m])
  BY DEF IInv, TypeOK
<1> QED
  BY <1>1, <1>2, <1>3, StepKeeps

\* A transport coming up keeps the invariant.
LEMMA OpenKeeps ==
  ASSUME IInv, NEW n \in Node, NEW p \in Node, Open(n, p)
  PROVE  IInv'
<1>1. n # p
  BY NodeAssumption DEF Open
<1>2. \A m \in Node : <<m, m>> \notin offered'
  BY <1>1 DEF Open, IInv, Books
<1>3. open' \subseteq Edges /\ offered' \subseteq Node \X Node
  <2>1. open' = open \cup {{n, p}} /\ offered' = offered \cup {<<n, p>>, <<p, n>>}
    BY DEF Open
  <2>2. {n, p} \in Edges
    BY DEF Open
  <2>3. open \subseteq Edges /\ offered \subseteq Node \X Node
    BY DEF IInv, TypeOK
  <2>4. open' \subseteq Edges
    <3> DEFINE e == {n, p}
    <3> HIDE DEF e
    <3> QED
      BY <2>1, <2>2, <2>3 DEF e
  <2>5. offered' \subseteq Node \X Node
    BY <2>1, <2>3
  <2> QED
    BY <2>4, <2>5
<1>4. /\ tree' = tree /\ linked' = linked /\ chan' = chan
      /\ now' \in Nat /\ cuts' \in Nat
  BY DEF Open, IInv, TypeOK
<1> QED
  BY <1>2, <1>3, <1>4, QuietKeeps DEF IInv, TypeOK

\* A transport going down keeps the invariant.
LEMMA CutKeeps ==
  ASSUME IInv, NEW n \in Node, NEW p \in Node, Cut(n, p)
  PROVE  IInv'
<1>1. /\ tree' = tree /\ linked' = linked /\ chan' = chan /\ offered' = offered
      /\ now' \in Nat /\ cuts' \in Nat /\ open' \subseteq Edges
  BY DEF Cut, IInv, TypeOK
<1> QED
  BY <1>1, QuietKeeps DEF IInv, TypeOK, Books

\* Time passing keeps the invariant.
LEMMA TickKeeps ==
  ASSUME IInv, Tick
  PROVE  IInv'
<1>1. /\ tree' = tree /\ linked' = linked /\ chan' = chan /\ offered' = offered
      /\ now' \in Nat /\ cuts' \in Nat /\ open' \subseteq Edges
  BY DEF Tick, IInv, TypeOK
<1> QED
  BY <1>1, QuietKeeps DEF IInv, TypeOK, Books

\* Retiring a dead link keeps the invariant: the port stays in the books.
LEMMA EvictKeeps ==
  ASSUME IInv, NEW n \in Node, NEW p \in Node, Evict(n, p)
  PROVE  IInv'
<1>1. /\ tree' = tree /\ offered' = offered
      /\ now' \in Nat /\ cuts' \in Nat /\ open' \subseteq Edges
      /\ linked' = [linked EXCEPT ![n] = @ \ {p}]
      /\ chan' = [chan EXCEPT ![p][n] = <<>>]
  BY DEF Evict, IInv, TypeOK
<1>2. linked' \in [Node -> SUBSET Node] /\ \A m \in Node : linked'[m] \subseteq linked[m]
  BY <1>1 DEF IInv, TypeOK
<1>3. chan' = [a \in Node |-> [b \in Node |-> IF a = p /\ b = n THEN <<>> ELSE chan[a][b]]]
  BY <1>1 DEF IInv, TypeOK
<1>4. \A a, b \in Node : Channel(tree, a, b, chan'[a][b])
  BY <1>3, ChannelEmpty DEF IInv
<1>5. chan' \in [Node -> [Node -> Seq(Msg)]]
  BY <1>3 DEF IInv, TypeOK
<1> QED
  BY <1>1, <1>2, <1>4, <1>5, QuietKeeps DEF IInv, TypeOK, Books

-----------------------------------------------------------------------------
(* Registering a link: the one step that writes in a book *)

\* What the book of n holds once p is enlisted.
LEMMA EnlistFacts ==
  ASSUME IInv, NEW n \in Node, NEW p \in Node, n # p, NEW nonce \in Nat,
         NEW t, t = Enlist(n, tree[n], p, nonce)
  PROVE  /\ t \in TreeType
         /\ t.infos = tree[n].infos
         /\ t.port[p] # 0
         /\ t.req[p] \in SigReq
         /\ SoundTree(tree, n, t)
         /\ \A k \in Node : tree[n].port[k] # 0 => t.port[k] = tree[n].port[k]
         /\ t.port[n] = 0
         /\ \A k \in Node : t.port[k] < t.next_port
         /\ \A j, k \in Node : t.port[j] # 0 /\ t.port[j] = t.port[k] => j = k
<1> DEFINE o == tree[n]
<1>1. /\ o \in TreeType
      /\ SoundTree(tree, n, o)
      /\ o.port[n] = 0
      /\ \A k \in Node : o.port[k] < o.next_port
      /\ \A j, k \in Node : o.port[j] # 0 /\ o.port[j] = o.port[k] => j = k
  BY DEF IInv, TypeOK, Books
<1>0. t = Enlist(n, o, p, nonce)
  OBVIOUS
<1> HIDE DEF o
<1>2. CASE o.port[p] # 0
  <2>1. t = o
    BY <1>0, <1>2 DEF Enlist
  <2>2. o.req[p] \in SigReq
    BY <1>1, <1>2 DEF SoundTree, TreeType
  <2> QED
    BY <1>1, <1>2, <2>1, <2>2 DEF o
<1>3. CASE o.port[p] = 0
  <2> DEFINE q == NewReq(n, o, nonce)
             ports == [o.port EXCEPT ![p] = o.next_port]
             reqs == [o.req EXCEPT ![p] = q]
             next == o.next_port + 1
  <2>1. q \in SigReq /\ q # None
    <3>1. InfosType(o)
      BY <1>1 DEF InfosType, TreeType
    <3>2. q \in SigReq
      BY <3>1, NewReqType
    <3> QED
      BY <3>2, NoneAssumption
  <2> HIDE DEF q
  <2>2. o.next_port \in Nat \ {0}
    BY <1>1 DEF TreeType
  <2>3. ports \in [Node -> Nat] /\ reqs \in [Node -> SigReq \cup {None}]
    BY <1>1, <2>1, <2>2 DEF TreeType
  <2>4. /\ \A k \in Node : ports[k] = IF k = p THEN o.next_port ELSE o.port[k]
        /\ \A k \in Node : reqs[k] = IF k = p THEN q ELSE o.req[k]
        /\ \A k \in Node : o.port[k] \in Nat
    BY <1>1 DEF TreeType
  <2>5. t = [o EXCEPT !.port = ports, !.next_port = next, !.req = reqs]
    BY <1>0, <1>1, <1>3 DEF Enlist, TreeType, q
  <2> HIDE DEF ports, reqs
  <2>6. t \in TreeType
    <3>1. next \in Nat \ {0}
      BY <2>2
    <3> HIDE DEF next
    <3> QED
      BY <1>1, <2>3, <2>5, <3>1 DEF TreeType
  <2>7. /\ t.port = ports /\ t.next_port = o.next_port + 1 /\ t.req = reqs
        /\ t.infos = o.infos /\ t.responses = o.responses
    BY <1>1, <2>5 DEF TreeType
  <2>8. SoundTree(tree, n, t)
    BY <1>1, <1>3, <2>1, <2>4, <2>7 DEF SoundTree
  <2>9. \A k \in Node : t.port[k] < t.next_port
    BY <1>1, <2>2, <2>4, <2>7
  <2>10. \A j, k \in Node : t.port[j] # 0 /\ t.port[j] = t.port[k] => j = k
    BY <1>1, <2>2, <2>4, <2>7
  <2> QED
    BY <1>1, <1>3, <2>1, <2>2, <2>4, <2>6, <2>7, <2>8, <2>9, <2>10 DEF o
<1> QED
  BY <1>2, <1>3

\* Registering a link, with its first request and replay, keeps the invariant.
LEMMA RegisterKeeps ==
  ASSUME IInv, NEW n \in Node, NEW p \in Node, Register(n, p)
  PROVE  IInv'
<1>1. PICK nonce \in Nonce, replay \in SetToSeqs(Replayable(tree[n], p)), ok \in BOOLEAN :
        LET t == Enlist(n, tree[n], p, nonce)
        IN  /\ tree' = [tree EXCEPT ![n] = t]
            /\ linked' = [linked EXCEPT ![n] = IF ok THEN @ \cup {p} ELSE @]
            /\ Write(n, [q \in Node |->
                 IF q = p
                 THEN <<[type |-> "SigReq", req |-> t.req[p]]>> \o Announces(t, replay)
                 ELSE <<>>], IF ok THEN {} ELSE {p})
  BY DEF Register
<1> DEFINE t == Enlist(n, tree[n], p, nonce)
           frames == [q \in Node |->
             IF q = p THEN <<[type |-> "SigReq", req |-> t.req[p]]>> \o Announces(t, replay)
             ELSE <<>>]
           gone == IF ok THEN {} ELSE {p}
<1>2. /\ tree' = [tree EXCEPT ![n] = t]
      /\ linked' = [linked EXCEPT ![n] = IF ok THEN @ \cup {p} ELSE @]
      /\ Write(n, frames, gone)
  BY <1>1
<1>3. /\ <<n, p>> \in offered
      /\ offered' = offered \ {<<n, p>>}
      /\ UNCHANGED <<now, open, cuts>>
  BY DEF Register
<1>4. n # p /\ nonce \in Nat
  BY <1>3, NonceAssumption DEF IInv, Books
<1>5. /\ t \in TreeType
      /\ t.infos = tree[n].infos
      /\ t.port[p] # 0
      /\ t.req[p] \in SigReq
      /\ SoundTree(tree, n, t)
      /\ \A k \in Node : tree[n].port[k] # 0 => t.port[k] = tree[n].port[k]
      /\ t.port[n] = 0
      /\ \A k \in Node : t.port[k] < t.next_port
      /\ \A j, k \in Node : t.port[j] # 0 /\ t.port[j] = t.port[k] => j = k
  BY <1>4, EnlistFacts
<1> HIDE DEF t
<1>6. Channel(tree, n, p, Announces(t, replay))
  <2> DEFINE R == Replayable(tree[n], p)
  <2>1. R \in SUBSET Node /\ \A k \in R : tree[n].infos[k] # None
    BY DEF Replayable, IInv, TypeOK, TreeType
  <2>2. Cardinality(R) \in Nat
    BY <2>1, NodeAssumption, FS_Subset, FS_CardinalityType
  <2>3. replay \in [1..Cardinality(R) -> R]
    BY DEF SetToSeqs
  <2> HIDE DEF R
  <2>4. replay \in Seq(Node) /\ \A j \in DOMAIN replay : tree[n].infos[replay[j]] # None
    BY <2>1, <2>2, <2>3
  <2>5. Announces(t, replay) = Announces(tree[n], replay)
    BY <1>5 DEF Announces
  <2> QED
    BY <2>4, <2>5, FineNow, ChannelAnnounces
<1>7. ASSUME NEW q \in Node
      PROVE  Channel(tree, n, q, frames[q])
  <2>1. CASE q = p
    BY <1>5, <1>6, <2>1, ChannelReq, ChannelConcat
  <2>2. CASE q # p
    BY <2>2, ChannelEmpty
  <2> QED
    BY <2>1, <2>2
<1> HIDE DEF frames, gone
<1>8. /\ chan' \in [Node -> [Node -> Seq(Msg)]]
      /\ \A a, b \in Node : Channel(tree, a, b, chan'[a][b])
  BY <1>2, <1>7, WriteSound DEF IInv
<1>9. tree \in [Node -> TreeType] /\ linked \in [Node -> SUBSET Node]
  BY DEF IInv, TypeOK
<1>10. \A m \in Node : tree'[m] = IF m = n THEN t ELSE tree[m]
  BY <1>2, <1>9
<1>11. tree' \in [Node -> TreeType]
  BY <1>2, <1>5, <1>9
<1>12. \A m \in Node : SoundTree(tree, m, tree'[m])
  BY <1>5, <1>10 DEF IInv
<1>13. \A m, k \in Node : tree[m].port[k] # 0 => tree'[m].port[k] = tree[m].port[k]
  BY <1>5, <1>10
<1>14. Books'
  BY <1>3, <1>5, <1>10 DEF IInv, Books
<1>15. \A m \in Node : linked'[m] \subseteq linked[m] \cup (IF m = n THEN {p} ELSE {})
  BY <1>2, <1>9
<1>16. linked' \in [Node -> SUBSET Node]
  BY <1>2, <1>9
<1>17. \A m \in Node : \A q \in linked'[m] : tree'[m].port[q] # 0
  <2> TAKE m \in Node
  <2> TAKE q \in linked'[m]
  <2>1. CASE q \in linked[m]
    <3>1. q \in Node /\ tree[m].port[q] # 0
      BY <2>1, LinkedFacts
    <3> QED
      BY <3>1, <1>13
  <2>2. CASE m = n /\ q = p
    BY <2>2, <1>5, <1>10
  <2> QED
    BY <1>15, <2>1, <2>2
<1>18. now' \in Nat /\ open' \subseteq Edges /\ cuts' \in Nat /\ offered' \subseteq Node \X Node
  BY <1>3 DEF IInv, TypeOK
<1> QED
  BY <1>8, <1>11, <1>12, <1>13, <1>14, <1>16, <1>17, <1>18, StepKeeps

-----------------------------------------------------------------------------
(* The theorems *)

\* Every step of the system keeps the invariant: the induction step of the theorems.
LEMMA NextIInv == IInv /\ [Next]_vars => IInv'
<1> SUFFICES ASSUME IInv, [Next]_vars
             PROVE  IInv'
  OBVIOUS
<1>1. ASSUME NEW n \in Node, Maintain(n)
      PROVE  IInv'
  BY <1>1, MaintainKeeps
<1>2. ASSUME NEW n \in Node, NEW p \in Node, HandleRequest(n, p)
      PROVE  IInv'
  BY <1>2, HandleRequestKeeps
<1>3. ASSUME NEW n \in Node, NEW p \in Node, HandleResponse(n, p)
      PROVE  IInv'
  BY <1>3, HandleResponseKeeps
<1>4. ASSUME NEW n \in Node, NEW p \in Node, HandleAnnounce(n, p)
      PROVE  IInv'
  BY <1>4, HandleAnnounceKeeps
<1>5. ASSUME NEW n \in Node, NEW p \in Node, Open(n, p)
      PROVE  IInv'
  BY <1>5, OpenKeeps
<1>6. ASSUME NEW n \in Node, NEW p \in Node, Register(n, p)
      PROVE  IInv'
  BY <1>6, RegisterKeeps
<1>7. ASSUME NEW n \in Node, NEW p \in Node, Cut(n, p)
      PROVE  IInv'
  BY <1>7, CutKeeps
<1>8. ASSUME NEW n \in Node, NEW p \in Node, Evict(n, p)
      PROVE  IInv'
  BY <1>8, EvictKeeps
<1>9. CASE Tick
  BY <1>9, TickKeeps
<1>10. CASE UNCHANGED vars
  <2>1. /\ now' = now /\ open' = open /\ offered' = offered /\ linked' = linked
        /\ chan' = chan /\ tree' = tree /\ cuts' = cuts
    BY <1>10 DEF vars
  <2>2. TypeOK /\ \A n, p \in Node : Channel(tree, n, p, chan[n][p])
    BY DEF IInv
  <2>3. \A m \in Node : <<m, m>> \notin offered
    BY DEF IInv, Books
  <2> QED
    BY <2>1, <2>2, <2>3, QuietKeeps DEF TypeOK
<1> QED
  BY <1>1, <1>2, <1>3, <1>4, <1>5, <1>6, <1>7, <1>8, <1>9, <1>10 DEF Next

\* The invariant the other theorems rest on.
THEOREM Invariance == Spec => []IInv
BY InitIInv, NextIInv, PTL DEF Spec

\* The state is well typed and only keys with a port are linked, whatever the
\* network, the clock and the failures.
THEOREM TypeCorrect == Spec => []TypeOK
<1>1. IInv => TypeOK
  BY DEF IInv
<1> QED
  BY <1>1, Invariance, PTL

\* Every port in every router's view of the tree is the one its parent's book
\* assigns: the agreement that register, handle_request, handle_response, fix
\* and handle_announce keep between them, through lost links and reconnects.
THEOREM PortAgreement == Spec => []PortsAgree
<1>1. IInv => PortsAgree
  BY DEF IInv, SoundTree, PortsAgree
<1> QED
  BY <1>1, Invariance, PTL

\* A kept answer is to the open request: send_all_reqs and register never
\* replace a request and leave an answer to the old one behind.
THEOREM CurrentAnswers == Spec => []AnswersAreCurrent
<1>1. IInv => AnswersAreCurrent
  BY DEF IInv, SoundTree, AnswersAreCurrent
<1> QED
  BY <1>1, Invariance, PTL

\* Siblings have different ports in every router's view, so coordinates are
\* unambiguous.
THEOREM DistinctSiblings == Spec => []SiblingsDiffer
<1>1. IInv => SiblingsDiffer
  <2> SUFFICES ASSUME IInv, NEW n \in Node, NEW j \in Node, NEW k \in Node,
                      tree[n].infos[j] # None, tree[n].infos[k] # None, j # k,
                      tree[n].infos[j].parent = tree[n].infos[k].parent,
                      tree[n].infos[j].res.port = tree[n].infos[k].res.port
               PROVE  FALSE
    BY DEF SiblingsDiffer
  <2> DEFINE a == tree[n].infos[j]
             b == tree[n].infos[k]
  <2>1. a \in Info /\ b \in Info
    BY DEF IInv, TypeOK, TreeType
  <2>2. Vouched(tree, j, a) /\ Vouched(tree, k, b)
    BY DEF IInv, SoundTree
  <2>3. a.parent \in Node
    BY <2>1 DEF Info
  <2>4. \A x, y \in Node :
          tree[a.parent].port[x] # 0 /\ tree[a.parent].port[x] = tree[a.parent].port[y] => x = y
    BY <2>3 DEF IInv, Books
  <2> QED
    BY <2>2, <2>4 DEF Vouched
<1> QED
  BY <1>1, Invariance, PTL

-----------------------------------------------------------------------------
(***************************************************************************)
(* What is ticked off has been delivered.  Neither SentMeansDelivered nor  *)
(* OwnInfoFreshest is inductive.  An announce is read long after it was    *)
(* written, so the invariant says of those on their way that their sender  *)
(* still knows as much (Told); and it says of every info that it outlives  *)
(* the time the properties speak of (Lasts).                               *)
(***************************************************************************)

\* t has an info of k at least as fresh as i.
Knows(t, k, i) == t.infos[k] # None /\ AsFresh(t.infos[k], i)

Lasts(t) == \A k \in Node : t.infos[k] # None => TREE_REFRESH <= t.deadlines[k]

\* An announce of k at least as fresh as i is among the frames s.
Says(s, k, i) ==
  \E f \in Range(s) : f.type = "Announce" /\ f.key = k /\ AsFresh(f.info, i)

Ruled(tr) == \A n, k \in Node : tr[n].infos[k] # None => Knows(tr[k], k, tr[n].infos[k])

Told(tr, ch) ==
  \A n, p \in Node : \A f \in Range(ch[n][p]) :
    f.type = "Announce" => Knows(tr[n], f.key, f.info)

Delivered(tr, ch, op, lk) ==
  \A n, p \in Node : {n, p} \in op /\ p \in lk[n] =>
    \A k \in tr[n].sent[p] : tr[n].infos[k] # None =>
      Knows(tr[p], k, tr[n].infos[k]) \/ Says(ch[n][p], k, tr[n].infos[k])

Spread(tr, ch, op, lk) == Ruled(tr) /\ Told(tr, ch) /\ Delivered(tr, ch, op, lk)

FreshInv ==
  /\ \A n \in Node : Lasts(tree[n])
  /\ now < TREE_REFRESH => Spread(tree, chan, open, linked)

\* What freshness compares is integers.
LEMMA InfoParts ==
  ASSUME NEW i \in Info
  PROVE  i.parent \in Int /\ i.res.req.seq \in Int /\ i.res.req.nonce \in Int
<1>1. i.parent \in Node /\ i.res \in SigRes
  BY DEF Info
<1>2. i.res.req \in SigReq
  BY <1>1 DEF SigRes
<1>3. i.res.req.seq \in Nat /\ i.res.req.nonce \in Nat
  BY <1>2 DEF SigReq
<1>4. i.parent \in Int
  BY <1>1, NodeAssumption
<1>5. i.res.req.seq \in Int /\ i.res.req.nonce \in Int
  BY <1>3
<1> QED
  BY <1>4, <1>5

\* Freshness is an order.
LEMMA FreshTransitive ==
  ASSUME NEW a \in Info, NEW b \in Info, NEW c \in Info, AsFresh(a, b), AsFresh(b, c)
  PROVE  AsFresh(a, c)
<1>1. /\ a.parent \in Int /\ b.parent \in Int /\ c.parent \in Int
      /\ a.res.req.seq \in Int /\ b.res.req.seq \in Int /\ c.res.req.seq \in Int
      /\ a.res.req.nonce \in Int /\ b.res.req.nonce \in Int /\ c.res.req.nonce \in Int
  BY InfoParts
<1> QED
  BY <1>1 DEF AsFresh, Fresher

\* Knowing an info is knowing every staler one.
LEMMA KnowsMore ==
  ASSUME NEW t, InfosType(t), NEW k \in Node, NEW i \in Info, NEW j \in Info,
         Knows(t, k, i), AsFresh(i, j)
  PROVE  Knows(t, k, j)
<1>1. t.infos[k] \in Info
  BY DEF Knows, InfosType
<1> QED
  BY <1>1, FreshTransitive DEF Knows

\* Of two infos of one key that agree with the books, an info that is not
\* beaten is as fresh: the port is no tie.
LEMMA FreshTotal ==
  ASSUME NEW b, NEW k \in Node, NEW i \in Info, NEW j \in Info,
         Vouched(b, k, i), Vouched(b, k, j), ~Fresher(j, i)
  PROVE  AsFresh(i, j)
<1>1. /\ i.parent \in Int /\ j.parent \in Int
      /\ i.res.req.seq \in Int /\ j.res.req.seq \in Int
      /\ i.res.req.nonce \in Int /\ j.res.req.nonce \in Int
  BY InfoParts
<1>2. CASE Fresher(i, j)
  BY <1>2 DEF AsFresh
<1>3. CASE ~Fresher(i, j)
  <2>1. i.parent = j.parent /\ i.res.req.seq = j.res.req.seq /\ i.res.req.nonce = j.res.req.nonce
    BY <1>1, <1>3 DEF Fresher
  <2>2. i.res.port = j.res.port
    BY <2>1 DEF Vouched
  <2>3. i.res.req = j.res.req
    BY <2>1 DEF Info, SigRes, SigReq
  <2>4. i.res = j.res
    BY <2>2, <2>3 DEF Info, SigRes
  <2>5. i = j
    BY <2>1, <2>4 DEF Info
  <2> QED
    BY <2>5 DEF AsFresh
<1> QED
  BY <1>2, <1>3

\* What is announced: the infos of the keys.
LEMMA RangeAnnounces ==
  ASSUME NEW t, NEW keys
  PROVE  Range(Announces(t, keys)) =
           {[type |-> "Announce", key |-> k, info |-> t.infos[k]] : k \in Range(keys)}
BY DEF Announces, Range

-----------------------------------------------------------------------------
(* A step of n, from its state t to w *)

\* Nothing is forgotten.
Grows(t, w) == \A k \in Node : t.infos[k] # None => Knows(w, k, t.infos[k])

\* What is new is n's own or known to its owner.
Heard(tr, n, w) ==
  \A k \in Node : w.infos[k] # None =>
    \/ w.infos[k] = tr[n].infos[k]
    \/ k = n
    \/ Knows(tr[k], k, w.infos[k])

\* What n writes it knows.
Wrote(ch, ch2, n, w) ==
  \A a, b \in Node : \A f \in Range(ch2[a][b]) :
    \/ f \in Range(ch[a][b])
    \/ a = n /\ (f.type = "Announce" => Knows(w, f.key, f.info))

\* While a transport is up, nothing leaves it that n has not read.
Read(ch, ch2, op, n, w) ==
  \A a, b \in Node : {a, b} \in op => \A f \in Range(ch[a][b]) :
    \/ f \in Range(ch2[a][b])
    \/ b = n /\ (f.type = "Announce" => Knows(w, f.key, f.info))

\* What n has newly ticked off is known or on its way.
Ticked(tr, tr2, ch2, op, lk, lk2, n) ==
  \A p \in Node : {n, p} \in op /\ p \in lk2[n] =>
    \A k \in tr2[n].sent[p] : tr2[n].infos[k] # None =>
      \/ k \in tr[n].sent[p] /\ tr2[n].infos[k] = tr[n].infos[k] /\ p \in lk[n]
      \/ Knows(tr2[p], k, tr2[n].infos[k])
      \/ Says(ch2[n][p], k, tr2[n].infos[k])

\* The step argument: a step of n that forgets nothing, writes and ticks off only
\* what it knows, and loses no frame it has not read, keeps Spread.
LEMMA SpreadStep ==
  ASSUME IInv, IInv', Spread(tree, chan, open, linked), NEW n \in Node,
         \A m \in Node : m # n => tree'[m] = tree[m] /\ linked'[m] \subseteq linked[m],
         Grows(tree[n], tree'[n]), Heard(tree, n, tree'[n]),
         Wrote(chan, chan', n, tree'[n]), Read(chan, chan', open, n, tree'[n]),
         Ticked(tree, tree', chan', open, linked, linked', n)
  PROVE  Spread(tree', chan', open, linked')
<1>a. tree \in [Node -> TreeType] /\ chan \in [Node -> [Node -> Seq(Msg)]]
  BY DEF IInv, TypeOK
<1>b. tree' \in [Node -> TreeType] /\ chan' \in [Node -> [Node -> Seq(Msg)]]
  BY DEF IInv, TypeOK
<1>1. \A m \in Node : InfosType(tree[m]) /\ InfosType(tree'[m])
  BY <1>a, <1>b DEF TreeType, InfosType
<1>2. \A m, k \in Node : tree[m].infos[k] # None => tree[m].infos[k] \in Info
  BY <1>a DEF TreeType
<1>3. \A m, k \in Node : tree'[m].infos[k] # None => tree'[m].infos[k] \in Info
  BY <1>b DEF TreeType
<1>4. \A i \in Info : AsFresh(i, i)
  BY DEF AsFresh
<1>5. ASSUME NEW m \in Node, NEW k \in Node, tree[m].infos[k] # None
      PROVE  Knows(tree'[m], k, tree[m].infos[k])
  <2>1. CASE m = n
    BY <1>5, <2>1 DEF Grows
  <2>2. CASE m # n
    BY <1>2, <1>4, <1>5, <2>2 DEF Knows
  <2> QED
    BY <2>1, <2>2
<1>6. ASSUME NEW m \in Node, NEW k \in Node, NEW i \in Info, Knows(tree[m], k, i)
      PROVE  Knows(tree'[m], k, i)
  <2>1. tree[m].infos[k] # None /\ AsFresh(tree[m].infos[k], i)
    BY <1>6 DEF Knows
  <2>2. tree[m].infos[k] \in Info /\ Knows(tree'[m], k, tree[m].infos[k])
    BY <1>2, <1>5, <2>1
  <2>3. InfosType(tree'[m])
    BY <1>1
  <2> QED
    BY <2>1, <2>2, <2>3, KnowsMore
<1>7. Ruled(tree')
  <2> SUFFICES ASSUME NEW m \in Node, NEW k \in Node, tree'[m].infos[k] # None
               PROVE  Knows(tree'[k], k, tree'[m].infos[k])
    BY DEF Ruled
  <2>1. tree'[m].infos[k] \in Info
    BY <1>3
  <2>2. CASE tree'[m].infos[k] = tree[m].infos[k]
    <3>1. Knows(tree[k], k, tree'[m].infos[k])
      BY <2>2 DEF Spread, Ruled
    <3> QED
      BY <1>6, <2>1, <3>1
  <2>3. CASE m = n /\ k = n
    BY <1>4, <2>1, <2>3 DEF Knows
  <2>4. CASE Knows(tree[k], k, tree'[m].infos[k])
    BY <1>6, <2>1, <2>4
  <2>5. m # n => tree'[m].infos[k] = tree[m].infos[k]
    OBVIOUS
  <2> QED
    BY <2>2, <2>3, <2>4, <2>5 DEF Heard
<1>8. Told(tree', chan')
  <2> SUFFICES ASSUME NEW a \in Node, NEW b \in Node, NEW f \in Range(chan'[a][b]),
                      f.type = "Announce"
               PROVE  Knows(tree'[a], f.key, f.info)
    BY DEF Told
  <2>1. CASE f \in Range(chan[a][b])
    <3>1. f \in Msg
      BY <1>a, <2>1 DEF Range
    <3>2. f.key \in Node /\ f.info \in Info
      BY <3>1 DEF Msg
    <3>3. Knows(tree[a], f.key, f.info)
      BY <2>1 DEF Spread, Told
    <3> QED
      BY <1>6, <3>2, <3>3
  <2>2. CASE a = n /\ (f.type = "Announce" => Knows(tree'[n], f.key, f.info))
    BY <2>2
  <2> QED
    BY <2>1, <2>2 DEF Wrote
<1>9. Delivered(tree', chan', open, linked')
  <2> SUFFICES ASSUME NEW a \in Node, NEW b \in Node, {a, b} \in open, b \in linked'[a],
                      NEW k \in tree'[a].sent[b], tree'[a].infos[k] # None
               PROVE  \/ Knows(tree'[b], k, tree'[a].infos[k])
                      \/ Says(chan'[a][b], k, tree'[a].infos[k])
    BY DEF Delivered
  <2> DEFINE i == tree'[a].infos[k]
  <2>0. k \in Node
    <3>1. tree'[a] \in TreeType
      BY <1>b
    <3>2. tree'[a].sent[b] \subseteq Node
      BY <3>1 DEF TreeType
    <3> QED
      BY <3>2
  <2>1. k \in Node /\ i \in Info
    BY <1>3, <2>0
  <2>2. CASE k \in tree[a].sent[b] /\ i = tree[a].infos[k] /\ b \in linked[a]
    <3>1. Knows(tree[b], k, i) \/ Says(chan[a][b], k, i)
      BY <2>2 DEF Spread, Delivered
    <3>2. CASE Knows(tree[b], k, i)
      BY <1>6, <2>1, <3>2
    <3>3. CASE Says(chan[a][b], k, i)
      <4>1. PICK f \in Range(chan[a][b]) : f.type = "Announce" /\ f.key = k /\ AsFresh(f.info, i)
        BY <3>3 DEF Says
      <4>2. f \in Msg
        BY <1>a DEF Range
      <4>3. f.info \in Info
        BY <4>1, <4>2 DEF Msg
      <4>4. CASE f \in Range(chan'[a][b])
        BY <4>1, <4>4 DEF Says
      <4>5. CASE b = n /\ (f.type = "Announce" => Knows(tree'[n], f.key, f.info))
        <5>1. Knows(tree'[b], k, f.info) /\ InfosType(tree'[b])
          BY <1>1, <4>1, <4>5
        <5> QED
          BY <2>1, <4>1, <4>3, <5>1, KnowsMore
      <4> QED
        BY <4>4, <4>5 DEF Read
    <3> QED
      BY <3>1, <3>2, <3>3
  <2>3. CASE a # n
    <3>1. tree'[a] = tree[a] /\ b \in linked[a]
      BY <2>3
    <3> QED
      BY <2>2, <3>1
  <2>4. CASE a = n
    BY <2>2, <2>4 DEF Ticked
  <2> QED
    BY <2>3, <2>4
<1> QED
  BY <1>7, <1>8, <1>9 DEF Spread

-----------------------------------------------------------------------------
(* What the operators of a tick do to infos, deadlines and sent sets *)

\* w knows, and has ticked off, what t has.
Same(t, w) == w.infos = t.infos /\ w.deadlines = t.deadlines /\ w.sent = t.sent

\* From t to w only the info of n itself may change: to a fresher one, which
\* is ticked off for nobody.
Turned(n, t, w) ==
  /\ \A k \in Node : k # n => w.infos[k] = t.infos[k]
  /\ t.infos[n] # None => Knows(w, n, t.infos[n])
  /\ \A p \in Node : w.sent[p] \subseteq t.sent[p]
  /\ w.infos[n] = t.infos[n] \/ \A p \in Node : n \notin w.sent[p]

\* An update leaves the other keys alone; an info it adopts is fresh and unsent.
LEMMA UpdateParts ==
  ASSUME NEW n \in Node, NEW t \in TreeType, NEW key \in Node, NEW info \in Info,
         NEW u, u = Update(n, t, key, info), now \in Nat
  PROVE  /\ ~Adopts(t, key, info) => u = t
         /\ Adopts(t, key, info) =>
              /\ u.infos[key] = info
              /\ u.deadlines[key] \in Nat /\ TREE_REFRESH <= u.deadlines[key]
              /\ \A p \in Node : u.sent[p] = t.sent[p] \ {key}
         /\ \A k \in Node : k # key => u.infos[k] = t.infos[k] /\ u.deadlines[k] = t.deadlines[k]
<1>1. CASE ~Adopts(t, key, info)
  BY <1>1 DEF Update
<1>2. CASE Adopts(t, key, info)
  <2> DEFINE d == now + (IF key = n THEN TREE_REFRESH ELSE TREE_TIMEOUT)
  <2>1. d \in Nat /\ TREE_REFRESH <= d
    BY TimerAssumption
  <2> HIDE DEF d
  <2>2. u = [t EXCEPT !.infos[key] = info, !.deadlines[key] = d,
                      !.sent = [p \in Node |-> @[p] \ {key}]]
    BY <1>2 DEF Update, Store, d
  <2>3. /\ u.infos = [t.infos EXCEPT ![key] = info]
        /\ u.deadlines = [t.deadlines EXCEPT ![key] = d]
        /\ u.sent = [p \in Node |-> t.sent[p] \ {key}]
    BY <2>2 DEF TreeType
  <2>4. t.infos \in [Node -> Info \cup {None}] /\ t.deadlines \in [Node -> Nat]
    BY DEF TreeType
  <2> QED
    BY <1>2, <2>1, <2>3, <2>4
<1> QED
  BY <1>1, <1>2

\* An update gives an info a deadline past the refresh time.
LEMMA UpdateLasts ==
  ASSUME NEW n \in Node, NEW t \in TreeType, NEW key \in Node, NEW info \in Info,
         Lasts(t), now \in Nat
  PROVE  Lasts(Update(n, t, key, info))
<1> DEFINE u == Update(n, t, key, info)
<1>1. CASE ~Adopts(t, key, info)
  BY <1>1, UpdateParts
<1>2. CASE Adopts(t, key, info)
  <2>1. /\ TREE_REFRESH <= u.deadlines[key]
        /\ \A k \in Node : k # key => u.infos[k] = t.infos[k] /\ u.deadlines[k] = t.deadlines[k]
    BY <1>2, UpdateParts
  <2> HIDE DEF u
  <2>2. Lasts(u)
    BY <2>1 DEF Lasts
  <2> QED
    BY <2>2 DEF u
<1> QED
  BY <1>1, <1>2

\* An update of n's own key.
LEMMA UpdateTurns ==
  ASSUME NEW n \in Node, NEW t \in TreeType, NEW info \in Info, now \in Nat
  PROVE  Turned(n, t, Update(n, t, n, info))
<1> DEFINE u == Update(n, t, n, info)
<1>1. CASE ~Adopts(t, n, info)
  <2>1. u = t
    BY <1>1, UpdateParts
  <2> QED
    BY <2>1 DEF Turned, Knows, AsFresh
<1>2. CASE Adopts(t, n, info)
  <2>1. /\ u.infos[n] = info
        /\ \A p \in Node : u.sent[p] = t.sent[p] \ {n}
        /\ \A k \in Node : k # n => u.infos[k] = t.infos[k]
    BY <1>2, UpdateParts
  <2> HIDE DEF u
  <2>2. info # None
    BY NoneAssumption
  <2>3. t.infos[n] # None => Knows(u, n, t.infos[n])
    BY <1>2, <2>1, <2>2 DEF Adopts, Knows, AsFresh
  <2>4. Turned(n, t, u)
    BY <2>1, <2>3 DEF Turned
  <2> QED
    BY <2>4 DEF u
<1> QED
  BY <1>1, <1>2

\* Until an info can expire, expire forgets nothing.
LEMMA ExpireSame ==
  ASSUME NEW n \in Node, NEW t \in TreeType, Lasts(t), now \in Nat, now < TREE_REFRESH
  PROVE  Same(t, Expire(n, t))
<1> DEFINE dead == {k \in Node : t.infos[k] # None /\ t.deadlines[k] <= now}
           u == Expire(n, t)
<1>1. dead = {}
  <2> SUFFICES ASSUME NEW k \in dead
               PROVE  FALSE
    OBVIOUS
  <2>1. t.deadlines[k] \in Nat
    BY DEF TreeType
  <2> QED
    BY <2>1, TimerAssumption DEF Lasts
<1>2. /\ t.infos \in [Node -> Info \cup {None}] /\ t.deadlines \in [Node -> Nat]
      /\ t.sent \in [Node -> SUBSET Node]
  BY DEF TreeType
<1>3. /\ u.infos = [k \in Node |-> IF k \in dead THEN None ELSE t.infos[k]]
      /\ u.deadlines = [k \in Node |-> IF k \in dead THEN 0 ELSE t.deadlines[k]]
      /\ u.sent = [p \in Node |-> t.sent[p] \ dead]
  BY DEF TreeType, Expire
<1> HIDE DEF dead, u
<1>4. u.infos = t.infos /\ u.deadlines = t.deadlines
  BY <1>1, <1>2, <1>3
<1>5. u.sent = t.sent
  <2>1. \A p \in Node : t.sent[p] \ dead = t.sent[p]
    BY <1>1
  <2> QED
    BY <1>2, <1>3, <2>1
<1> QED
  BY <1>4, <1>5 DEF Same, u

\* What expire keeps lasts.
LEMMA ExpireLasts ==
  ASSUME NEW n \in Node, NEW t \in TreeType, Lasts(t), now \in Nat
  PROVE  Lasts(Expire(n, t))
<1> DEFINE dead == {k \in Node : t.infos[k] # None /\ t.deadlines[k] <= now}
           u == Expire(n, t)
<1>1. /\ u.infos = [k \in Node |-> IF k \in dead THEN None ELSE t.infos[k]]
      /\ u.deadlines = [k \in Node |-> IF k \in dead THEN 0 ELSE t.deadlines[k]]
  BY DEF TreeType, Expire
<1> HIDE DEF dead, u
<1>2. Lasts(u)
  BY <1>1 DEF Lasts
<1> QED
  BY <1>2 DEF u

\* Lasts reads infos and deadlines only.
LEMMA SameLasts ==
  ASSUME NEW t, NEW w, Lasts(t), Same(t, w)
  PROVE  Lasts(w)
BY DEF Lasts, Same

\* Turned reads infos and sent sets only.
LEMMA SameTurns ==
  ASSUME NEW n \in Node, NEW t, NEW v, NEW w, Turned(n, t, v), Same(v, w)
  PROVE  Turned(n, t, w)
BY DEF Turned, Same, Knows

\* Turned reads infos and sent sets only, of the old state too.
LEMMA TurnedFrom ==
  ASSUME NEW n \in Node, NEW t, NEW v, NEW w, Same(t, v), Turned(n, v, w)
  PROVE  Turned(n, t, w)
BY DEF Turned, Same, Knows

\* fix changes no info but that of n.
LEMMA FixTurns ==
  ASSUME NEW n \in Node, NEW t, Fine(n, t), now \in Nat, tree[n].port[n] = 0,
         NEW best, NEW nonce \in Nat, Lasts(t)
  PROVE  /\ Turned(n, t, Fix(n, t, best, nonce).tree)
         /\ Lasts(Fix(n, t, best, nonce).tree)
<1>1. t \in TreeType /\ Turned(n, t, t)
  BY DEF Fine, Turned, Knows, AsFresh
<1>2. \A u \in TreeType : Same(u, Settled(u)) /\ Same(u, [u EXCEPT !.do_root1 = TRUE])
  BY DEF TreeType, Same, Settled
<1>3. Turned(n, t, [t EXCEPT !.do_root1 = TRUE]) /\ Lasts([t EXCEPT !.do_root1 = TRUE])
  BY <1>1, <1>2, SameTurns, SameLasts
<1>4. ASSUME Usable(n, t, best.parent)
      PROVE  /\ Turned(n, t, Settled(Update(n, t, n, AttachInfo(t, best.parent))))
             /\ Lasts(Settled(Update(n, t, n, AttachInfo(t, best.parent))))
  <2> DEFINE i == AttachInfo(t, best.parent)
             u == Update(n, t, n, i)
  <2>1. i \in Info
    <3>1. best.parent \in Node /\ t.responses[best.parent] # None
      BY <1>4 DEF Usable, Answered
    <3>2. t.responses[best.parent] \in SigRes
      BY <1>1, <3>1 DEF TreeType
    <3> QED
      BY <3>1, <3>2 DEF AttachInfo, Info
  <2>2. u \in TreeType
    BY <1>4, AttachFine DEF Fine
  <2> HIDE DEF i
  <2>3. Turned(n, t, u) /\ Lasts(u)
    BY <1>1, <2>1, UpdateTurns, UpdateLasts
  <2> HIDE DEF u
  <2>4. Turned(n, t, Settled(u)) /\ Lasts(Settled(u))
    BY <1>2, <2>2, <2>3, SameTurns, SameLasts
  <2> QED
    BY <2>4 DEF u, i
<1>5. Turned(n, t, Settled(BecomeRoot(n, t, nonce))) /\ Lasts(Settled(BecomeRoot(n, t, nonce)))
  <2> DEFINE i == RootInfo(n, t, nonce)
             u == Update(n, t, n, i)
             v == [u EXCEPT !.self_refresh_at = now + TREE_REFRESH]
  <2>1. i \in Info
    <3>1. NewReq(n, t, nonce) \in SigReq
      BY FineInfos, NewReqType
    <3> QED
      BY <3>1 DEF RootInfo, Info, SigRes
  <2>2. Vouched(tree, n, i)
    BY DEF RootInfo, Vouched
  <2>3. BecomeRoot(n, t, nonce) = v
    BY DEF BecomeRoot
  <2> HIDE DEF i
  <2>4. u \in TreeType
    BY <2>1, <2>2, UpdateFine DEF Fine
  <2>5. Turned(n, t, u) /\ Lasts(u)
    BY <1>1, <2>1, UpdateTurns, UpdateLasts
  <2> HIDE DEF u
  <2>6. Same(u, v)
    BY <2>4 DEF TreeType, Same
  <2>7. v \in TreeType
    BY <2>3, BecomeRootFine DEF Fine
  <2> HIDE DEF v
  <2>8. Same(v, Settled(v))
    BY <1>2, <2>7
  <2>9. Turned(n, t, v) /\ Lasts(v)
    BY <2>5, <2>6, SameTurns, SameLasts
  <2> QED
    BY <2>3, <2>8, <2>9, SameTurns, SameLasts
<1> QED
  BY <1>1, <1>3, <1>4, <1>5 DEF Fix

\* Asking everyone again touches no info.
LEMMA SendAllReqsSame ==
  ASSUME NEW n, NEW t \in TreeType, NEW nonce, NEW stop
  PROVE  Same(t, SendAllReqs(n, t, nonce, stop))
BY DEF TreeType, Same, SendAllReqs

\* send_announces ticks off what it found unsent, for the keys it reached.
LEMMA SendAnnouncesParts ==
  ASSUME NEW n, NEW t \in TreeType, NEW stop
  PROVE  /\ SendAnnounces(n, t, stop).infos = t.infos
         /\ SendAnnounces(n, t, stop).deadlines = t.deadlines
         /\ \A p \in Node : \A k \in SendAnnounces(n, t, stop).sent[p] :
              k \in t.sent[p] \/ (Reached(p, stop) /\ k \in Range(Unsent(n, t, p)))
BY DEF TreeType, SendAnnounces

-----------------------------------------------------------------------------
(* The steps *)

\* A write adds its frames, and loses frames only on the links it drops.
LEMMA WriteParts ==
  ASSUME chan \in [Node -> [Node -> Seq(Msg)]], NEW n \in Node, NEW frames,
         \A p \in Node : frames[p] \in Seq(Msg), NEW gone, Write(n, frames, gone),
         NEW a \in Node, NEW b \in Node
  PROVE  /\ Range(chan'[a][b]) \subseteq
              Range(chan[a][b]) \cup (IF a = n THEN Range(frames[b]) ELSE {})
         /\ {a, b} \in open /\ ~(b = n /\ a \in gone) =>
              /\ Range(chan[a][b]) \subseteq Range(chan'[a][b])
              /\ a = n => Range(frames[b]) \subseteq Range(chan'[a][b])
<1>1. chan'[a][b] = IF b = n /\ a \in gone THEN <<>>
                    ELSE IF a = n /\ {a, b} \in open THEN chan[a][b] \o frames[b]
                    ELSE chan[a][b]
  BY DEF Write
<1>2. Range(chan[a][b] \o frames[b]) = Range(chan[a][b]) \cup Range(frames[b])
  BY RangeConcat
<1> QED
  BY <1>1, <1>2, RangeSmall

\* Announces of infos t knows.
LEMMA AnnouncesKnown ==
  ASSUME NEW t, NEW keys \in Seq(Node), \A j \in DOMAIN keys : t.infos[keys[j]] # None,
         NEW f \in Range(Announces(t, keys))
  PROVE  f.key \in Range(keys) /\ f.info = t.infos[f.key] /\ Knows(t, f.key, f.info)
<1>1. PICK k \in Range(keys) : f = [type |-> "Announce", key |-> k, info |-> t.infos[k]]
  BY RangeAnnounces
<1>2. t.infos[k] # None
  BY <1>1 DEF Range
<1> QED
  BY <1>1, <1>2 DEF Knows, AsFresh

\* A tick: what it ticks off for a live link it has written there.
LEMMA MaintainSpreads ==
  ASSUME IInv, FreshInv, NEW n \in Node, Maintain(n)
  PROVE  FreshInv'
<1>1. PICK cost \in [linked[n] -> Lags], nonce \in [linked[n] \cup {n} -> Nonce],
           stop \in {None} \cup Deaf(n), early \in BOOLEAN, t \in {Expire(n, tree[n])} :
      \E fixed \in {Fix(n, t, Best(n, t, cost), nonce[n])} :
      \E asked \in {IF fixed.asks
                    THEN SendAllReqs(n, fixed.tree, nonce, IF early THEN stop ELSE None)
                    ELSE fixed.tree} :
        Speak(n, fixed.asks, asked, stop, early)
  BY DEF Maintain
<1> DEFINE fixed == Fix(n, t, Best(n, t, cost), nonce[n])
           halt  == IF early THEN stop ELSE None
           asked == IF fixed.asks THEN SendAllReqs(n, fixed.tree, nonce, halt) ELSE fixed.tree
           w     == IF early THEN asked ELSE SendAnnounces(n, asked, stop)
           reqs(p) == IF fixed.asks /\ (early => Written(p, stop))
                      THEN <<[type |-> "SigReq", req |-> asked.req[p]]>> ELSE <<>>
           anns(p) == IF ~early /\ Written(p, stop)
                      THEN Announces(asked, Unsent(n, asked, p)) ELSE <<>>
           frames == [p \in Node |-> IF p \in linked[n] THEN reqs(p) \o anns(p) ELSE <<>>]
<1>2. /\ tree' = [tree EXCEPT ![n] = w]
      /\ linked' = [linked EXCEPT ![n] = @ \ {stop}]
      /\ Write(n, frames, {stop})
      /\ UNCHANGED <<now, open, offered, cuts>>
  <2>1. Speak(n, fixed.asks, asked, stop, early)
    BY <1>1
  <2> QED
    BY <2>1 DEF Speak
<1>3. /\ now \in Nat
      /\ linked \in [Node -> SUBSET Node]
      /\ nonce[n] \in Nat
      /\ tree[n].port[n] = 0
      /\ tree \in [Node -> TreeType]
      /\ chan \in [Node -> [Node -> Seq(Msg)]]
  BY NonceAssumption DEF IInv, TypeOK, Books
<1>4. t = Expire(n, tree[n]) /\ Fine(n, t) /\ Lasts(t)
  BY <1>3, FineNow, ExpireFine, ExpireLasts DEF FreshInv
<1>5. Fine(n, fixed.tree) /\ Turned(n, t, fixed.tree) /\ Lasts(fixed.tree)
  BY <1>3, <1>4, FixFine, FixTurns
<1> HIDE DEF fixed
<1>6. Fine(n, asked) /\ Turned(n, t, asked) /\ Lasts(asked)
  <2>1. fixed.tree \in TreeType
    BY <1>5 DEF Fine
  <2>2. Same(fixed.tree, SendAllReqs(n, fixed.tree, nonce, halt))
    BY <2>1, SendAllReqsSame
  <2>3. /\ Turned(n, t, SendAllReqs(n, fixed.tree, nonce, halt))
        /\ Lasts(SendAllReqs(n, fixed.tree, nonce, halt))
    BY <1>5, <2>2, SameTurns, SameLasts
  <2>4. Fine(n, SendAllReqs(n, fixed.tree, nonce, halt))
    BY <1>3, <1>5, SendAllReqsFine
  <2> QED
    BY <1>5, <2>3, <2>4
<1>7. \A p \in linked[n] : p \in Node /\ p # n /\ tree[n].port[p] # 0
  BY LinkedFacts
<1>8. /\ Unsent(n, asked, n) \in Seq(Node)
      /\ \A p \in Node :
           /\ Unsent(n, asked, p) \in Seq(Node)
           /\ \A j \in DOMAIN Unsent(n, asked, p) : asked.infos[Unsent(n, asked, p)[j]] # None
  <2> HIDE DEF asked
  <2>1. InfosType(asked)
    BY <1>6, FineInfos
  <2> QED
    BY <2>1, UnsentType
<1>9. ASSUME NEW p \in Node
      PROVE  /\ frames[p] \in Seq(Msg)
             /\ \A f \in Range(frames[p]) : f.type = "Announce" => Knows(asked, f.key, f.info)
             /\ p \in linked[n] /\ ~early /\ Written(p, stop) =>
                  \A k \in Range(Unsent(n, asked, p)) :
                    [type |-> "Announce", key |-> k, info |-> asked.infos[k]] \in Range(frames[p])
  <2>1. CASE p \notin linked[n]
    <3>1. frames[p] = <<>>
      BY <2>1
    <3> QED
      BY <2>1, <3>1, RangeSmall
  <2>2. CASE p \in linked[n]
    <3>1. reqs(p) \in Seq(Msg)
      <4>1. CASE fixed.asks /\ (early => Written(p, stop))
        <5>1. Reached(p, halt)
          <6>1. CASE ~early \/ stop = None
            BY <6>1 DEF Reached
          <6>2. CASE early /\ stop # None
            <7>1. stop \in Node
              BY <6>2, <1>3 DEF Deaf
            <7>2. p < stop /\ p \in Int /\ stop \in Int
              BY <4>1, <6>2, <7>1, NodeAssumption DEF Written
            <7> QED
              BY <6>2, <7>2 DEF Reached
          <6> QED
            BY <6>1, <6>2
        <5>2. asked.req[p] \in SigReq
          BY <1>3, <1>5, <2>2, <4>1, <5>1, SendAllReqsReq
        <5>3. [type |-> "SigReq", req |-> asked.req[p]] \in Msg
          BY <5>2 DEF Msg
        <5> QED
          BY <4>1, <5>3
      <4>2. CASE ~(fixed.asks /\ (early => Written(p, stop)))
        BY <4>2
      <4> QED
        BY <4>1, <4>2
    <3>2. anns(p) \in Seq(Msg)
      <4> HIDE DEF asked
      <4>1. Channel(tree, n, p, Announces(asked, Unsent(n, asked, p)))
        BY <1>6, <1>8, ChannelAnnounces
      <4> QED
        BY <4>1 DEF Channel
    <3>3. frames[p] = reqs(p) \o anns(p)
      BY <2>2
    <3>4. \A f \in Range(reqs(p)) : f.type # "Announce"
      <4>1. reqs(p) = <<>> \/ reqs(p) = <<[type |-> "SigReq", req |-> asked.req[p]]>>
        OBVIOUS
      <4> HIDE DEF reqs
      <4>2. Range(reqs(p)) \subseteq {[type |-> "SigReq", req |-> asked.req[p]]}
        BY <4>1, RangeSmall
      <4> QED
        BY <4>2
    <3>5. \A f \in Range(anns(p)) : Knows(asked, f.key, f.info)
      <4> HIDE DEF asked
      <4>1. \A f \in Range(Announces(asked, Unsent(n, asked, p))) : Knows(asked, f.key, f.info)
        BY <1>8, AnnouncesKnown
      <4>2. anns(p) = <<>> \/ anns(p) = Announces(asked, Unsent(n, asked, p))
        OBVIOUS
      <4> HIDE DEF anns
      <4> QED
        BY <4>1, <4>2, RangeSmall
    <3>6. ASSUME ~early, Written(p, stop), NEW k \in Range(Unsent(n, asked, p))
          PROVE  [type |-> "Announce", key |-> k, info |-> asked.infos[k]] \in Range(anns(p))
      <4>1. anns(p) = Announces(asked, Unsent(n, asked, p))
        BY <3>6
      <4> HIDE DEF anns, asked
      <4> QED
        BY <4>1, RangeAnnounces
    <3> HIDE DEF frames, reqs, anns
    <3>7. Range(frames[p]) = Range(reqs(p)) \cup Range(anns(p))
      BY <3>1, <3>2, <3>3, RangeConcat
    <3>8. frames[p] \in Seq(Msg)
      BY <3>1, <3>2, <3>3
    <3> QED
      BY <3>4, <3>5, <3>6, <3>7, <3>8
  <2> QED
    BY <2>1, <2>2
<1>10. Fine(n, w)
  BY <1>6, SendAnnouncesFine
<1>11. w.infos = asked.infos /\ w.deadlines = asked.deadlines
  <2> HIDE DEF asked
  <2>1. asked \in TreeType
    BY <1>6 DEF Fine
  <2>2. /\ SendAnnounces(n, asked, stop).infos = asked.infos
        /\ SendAnnounces(n, asked, stop).deadlines = asked.deadlines
    BY <2>1, SendAnnouncesParts
  <2> QED
    BY <2>2
<1>12. ASSUME NEW p \in linked[n], p # stop, NEW k \in w.sent[p]
       PROVE  \/ k \in asked.sent[p]
              \/ ~early /\ Written(p, stop) /\ k \in Range(Unsent(n, asked, p))
  <2> HIDE DEF asked
  <2>1. asked \in TreeType /\ p \in Node
    BY <1>6, <1>7 DEF Fine
  <2>2. CASE early
    BY <2>2, <1>12
  <2>3. CASE ~early
    <3>1. \/ k \in asked.sent[p]
          \/ Reached(p, stop) /\ k \in Range(Unsent(n, asked, p))
      <4>1. w = SendAnnounces(n, asked, stop)
        BY <2>3
      <4> HIDE DEF w
      <4>2. k \in SendAnnounces(n, asked, stop).sent[p]
        BY <1>12, <4>1
      <4> QED
        BY <2>1, <4>2, SendAnnouncesParts
    <3>2. Reached(p, stop) => Written(p, stop)
      <4>1. CASE stop = None
        BY <4>1 DEF Written
      <4>2. CASE stop # None
        <5>1. stop \in Int /\ p \in Int
          BY <1>3, <2>1, <4>2, NodeAssumption DEF Deaf
        <5> QED
          BY <1>12, <4>2, <5>1 DEF Reached, Written
      <4> QED
        BY <4>1, <4>2
    <3> QED
      BY <2>3, <3>1, <3>2
  <2> QED
    BY <2>2, <2>3
<1> HIDE DEF w, frames, asked
<1>13. Lasts(w)
  BY <1>6, <1>11 DEF Lasts
<1>14. \A m \in Node : tree'[m] = IF m = n THEN w ELSE tree[m]
  BY <1>2, <1>3
<1>15. \A m \in Node : Lasts(tree'[m])
  BY <1>13, <1>14 DEF FreshInv
<1>16. ASSUME now < TREE_REFRESH
       PROVE  Spread(tree', chan', open, linked')
  <2>1. Spread(tree, chan, open, linked)
    BY <1>16 DEF FreshInv
  <2>2. Same(tree[n], t)
    BY <1>3, <1>4, <1>16, ExpireSame DEF FreshInv
  <2>3. Turned(n, tree[n], asked)
    BY <1>6, <2>2, TurnedFrom
  <2>4. IInv'
    BY MaintainKeeps
  <2>5. tree' \in [Node -> TreeType] /\ chan' \in [Node -> [Node -> Seq(Msg)]]
    BY <2>4 DEF IInv, TypeOK
  <2>6. \A m \in Node : m # n => tree'[m] = tree[m] /\ linked'[m] \subseteq linked[m]
    BY <1>2, <1>3, <1>14
  <2>7. tree'[n] = w
    BY <1>14
  <2>8. Grows(tree[n], tree'[n])
    BY <1>11, <2>3, <2>7 DEF Grows, Turned, Knows, AsFresh
  <2>9. Heard(tree, n, tree'[n])
    BY <1>11, <2>3, <2>7 DEF Heard, Turned
  <2>10. Wrote(chan, chan', n, tree'[n])
    <3> SUFFICES ASSUME NEW a \in Node, NEW b \in Node, NEW f \in Range(chan'[a][b]),
                        f \notin Range(chan[a][b])
                 PROVE  a = n /\ (f.type = "Announce" => Knows(w, f.key, f.info))
      BY <2>7 DEF Wrote
    <3>1. a = n /\ f \in Range(frames[b])
      BY <1>2, <1>3, <1>9, WriteParts
    <3>2. f.type = "Announce" => Knows(asked, f.key, f.info)
      BY <1>9, <3>1
    <3> QED
      BY <1>11, <3>1, <3>2 DEF Knows
  <2>11. ASSUME NEW a \in Node, NEW b \in Node, {a, b} \in open
         PROVE  ~(b = n /\ a \in {stop})
    <3>1. SUFFICES ASSUME b = n, a = stop
                   PROVE  FALSE
      OBVIOUS
    <3>2. stop \in Deaf(n)
      BY <3>1, NoneAssumption
    <3>3. {a, b} = {n, stop}
      BY <3>1
    <3> QED
      BY <2>11, <3>2, <3>3 DEF Deaf
  <2>12. Read(chan, chan', open, n, tree'[n])
    BY <1>2, <1>3, <1>9, <2>11, WriteParts DEF Read
  <2>13. Ticked(tree, tree', chan', open, linked, linked', n)
    <3> SUFFICES ASSUME NEW p \in Node, {n, p} \in open, p \in linked'[n],
                        NEW k \in w.sent[p], w.infos[k] # None
                 PROVE  \/ k \in tree[n].sent[p] /\ w.infos[k] = tree[n].infos[k] /\ p \in linked[n]
                        \/ Says(chan'[n][p], k, w.infos[k])
      BY <2>7 DEF Ticked
    <3>1. p \in linked[n] /\ p # stop
      BY <1>2, <1>3
    <3>2. k \in Node
      <4>1. w.sent[p] \subseteq Node
        BY <1>10 DEF Fine, TreeType
      <4> QED
        BY <4>1
    <3>3. CASE k \in asked.sent[p]
      BY <1>11, <2>3, <3>1, <3>2, <3>3 DEF Turned
    <3>4. CASE ~early /\ Written(p, stop) /\ k \in Range(Unsent(n, asked, p))
      <4> DEFINE f == [type |-> "Announce", key |-> k, info |-> asked.infos[k]]
      <4>1. f \in Range(frames[p])
        BY <1>9, <3>1, <3>4
      <4>2. Range(frames[p]) \subseteq Range(chan'[n][p])
        BY <1>2, <1>3, <1>9, <2>11, WriteParts
      <4>3. f.type = "Announce" /\ f.key = k /\ AsFresh(f.info, w.infos[k])
        BY <1>11 DEF AsFresh
      <4> HIDE DEF f
      <4> QED
        BY <4>1, <4>2, <4>3 DEF Says
    <3> QED
      BY <1>12, <3>1, <3>3, <3>4
  <2> HIDE DEF frames
  <2> QED
    BY <2>1, <2>4, <2>6, <2>8, <2>9, <2>10, <2>12, <2>13, SpreadStep
<1> QED
  BY <1>2, <1>15, <1>16 DEF FreshInv

\* Reading a frame takes that frame, and on a live transport adds the answer.
LEMMA ReceiveParts ==
  ASSUME IInv, NEW n \in Node, NEW p \in linked[n], chan[p][n] # <<>>,
         NEW reply \in Seq(Msg), Receive(n, p, reply), NEW a \in Node, NEW b \in Node
  PROVE  /\ Range(chan'[a][b]) \subseteq
              Range(chan[a][b]) \cup (IF a = n /\ b = p THEN Range(reply) ELSE {})
         /\ {a, b} \in open =>
              /\ Range(chan[a][b]) \subseteq
                   Range(chan'[a][b]) \cup (IF a = p /\ b = n THEN {Head(chan[p][n])} ELSE {})
              /\ a = n /\ b = p => Range(reply) \subseteq Range(chan'[a][b])
<1>1. p \in Node /\ p # n
  BY LinkedFacts
<1>2. chan \in [Node -> [Node -> Seq(Msg)]]
  BY DEF IInv, TypeOK
<1>3. Range(chan[p][n]) = {Head(chan[p][n])} \cup Range(Tail(chan[p][n]))
  BY <1>1, <1>2, RangeTail, SMTT(30)
<1>4. Range(chan[n][p] \o reply) = Range(chan[n][p]) \cup Range(reply)
  BY <1>1, <1>2, RangeConcat, SMTT(30)
<1>5. CASE chan' = [chan EXCEPT ![p][n] = Tail(@),
                               ![n][p] = IF {n, p} \in open THEN @ \o reply ELSE @]
  <2>1. CASE a = p /\ b = n
    <3>1. chan'[a][b] = Tail(chan[p][n])
      BY <1>1, <1>2, <1>5, <2>1
    <3> QED
      BY <1>1, <1>3, <2>1, <3>1
  <2>2. CASE a = n /\ b = p
    <3>1. chan'[a][b] = IF {a, b} \in open THEN chan[n][p] \o reply ELSE chan[n][p]
      BY <1>1, <1>2, <1>5, <2>2
    <3> QED
      BY <1>1, <1>4, <2>2, <3>1
  <2>3. CASE ~(a = p /\ b = n) /\ ~(a = n /\ b = p)
    <3>1. chan'[a][b] = chan[a][b]
      BY <1>1, <1>2, <1>5, <2>3
    <3> QED
      BY <2>3, <3>1
  <2> QED
    BY <2>1, <2>2, <2>3
<1>6. CASE {n, p} \notin open /\ chan' = [chan EXCEPT ![p][n] = <<>>]
  <2>1. chan'[a][b] = IF a = p /\ b = n THEN <<>> ELSE chan[a][b]
    BY <1>1, <1>2, <1>6
  <2>2. {p, n} = {n, p}
    OBVIOUS
  <2> QED
    BY <1>1, <1>6, <2>1, <2>2, RangeSmall
<1> QED
  BY <1>5, <1>6 DEF Receive

\* The new state w of n, which read the next frame from p and answers `reply`,
\* has all that n knew and that the frame says, what it learnt its owner knows,
\* and what it newly ticked off is for p, who knows it or is told.
Handled(n, p, w, reply) ==
  /\ Grows(tree[n], w)
  /\ Heard(tree, n, w)
  /\ LET m == Head(chan[p][n]) IN m.type = "Announce" => Knows(w, m.key, m.info)
  /\ \A f \in Range(reply) : f.type = "Announce" => Knows(w, f.key, f.info)
  /\ \A q \in linked[n] : \A k \in w.sent[q] : w.infos[k] # None =>
       \/ k \in tree[n].sent[q] /\ w.infos[k] = tree[n].infos[k]
       \/ q = p /\ (Knows(tree[p], k, w.infos[k]) \/ Says(reply, k, w.infos[k]))

\* What the frame handlers have in common.
LEMMA HandlerSpreads ==
  ASSUME IInv, FreshInv, IInv', NEW n \in Node, NEW p \in linked[n], chan[p][n] # <<>>,
         NEW reply \in Seq(Msg), Receive(n, p, reply),
         NEW w, tree' = [tree EXCEPT ![n] = w], now' = now, open' = open, Lasts(w),
         now < TREE_REFRESH => Handled(n, p, w, reply)
  PROVE  FreshInv'
<1>1. tree \in [Node -> TreeType] /\ chan \in [Node -> [Node -> Seq(Msg)]]
  BY DEF IInv, TypeOK
<1>2. tree' \in [Node -> TreeType] /\ chan' \in [Node -> [Node -> Seq(Msg)]]
  BY DEF IInv, TypeOK
<1>3. p \in Node /\ p # n
  BY LinkedFacts
<1>4. \A m \in Node : tree'[m] = IF m = n THEN w ELSE tree[m]
  BY <1>1
<1>5. \A m \in Node : Lasts(tree'[m])
  BY <1>4 DEF FreshInv
<1>6. \A m \in Node : linked'[m] \subseteq linked[m]
  <2>1. linked \in [Node -> SUBSET Node]
    BY DEF IInv, TypeOK
  <2>2. linked' = linked \/ linked' = [linked EXCEPT ![n] = @ \ {p}]
    BY DEF Receive
  <2> QED
    BY <2>1, <2>2
<1>7. ASSUME now < TREE_REFRESH
      PROVE  Spread(tree', chan', open, linked')
  <2>0. Handled(n, p, w, reply)
    BY <1>7
  <2>1. Spread(tree, chan, open, linked)
    BY <1>7 DEF FreshInv
  <2>2. \A m \in Node : m # n => tree'[m] = tree[m] /\ linked'[m] \subseteq linked[m]
    BY <1>4, <1>6
  <2>3. Grows(tree[n], tree'[n]) /\ Heard(tree, n, tree'[n])
    BY <1>4, <2>0 DEF Handled
  <2>4. Wrote(chan, chan', n, tree'[n])
    <3> SUFFICES ASSUME NEW a \in Node, NEW b \in Node, NEW f \in Range(chan'[a][b]),
                        f \notin Range(chan[a][b])
                 PROVE  a = n /\ (f.type = "Announce" => Knows(w, f.key, f.info))
      BY <1>4 DEF Wrote
    <3>1. a = n /\ f \in Range(reply)
      BY ReceiveParts
    <3> QED
      BY <2>0, <3>1 DEF Handled
  <2>5. Read(chan, chan', open, n, tree'[n])
    <3> SUFFICES ASSUME NEW a \in Node, NEW b \in Node, {a, b} \in open,
                        NEW f \in Range(chan[a][b]), f \notin Range(chan'[a][b])
                 PROVE  b = n /\ (f.type = "Announce" => Knows(w, f.key, f.info))
      BY <1>4 DEF Read
    <3>1. b = n /\ f = Head(chan[p][n])
      BY ReceiveParts
    <3> QED
      BY <2>0, <3>1 DEF Handled
  <2>6. Ticked(tree, tree', chan', open, linked, linked', n)
    <3> SUFFICES ASSUME NEW q \in Node, {n, q} \in open, q \in linked'[n],
                        NEW k \in w.sent[q], w.infos[k] # None
                 PROVE  \/ k \in tree[n].sent[q] /\ w.infos[k] = tree[n].infos[k] /\ q \in linked[n]
                        \/ Knows(tree'[q], k, w.infos[k])
                        \/ Says(chan'[n][q], k, w.infos[k])
      BY <1>4 DEF Ticked
    <3>1. q \in linked[n]
      BY <1>6
    <3>2. \/ k \in tree[n].sent[q] /\ w.infos[k] = tree[n].infos[k]
          \/ q = p /\ (Knows(tree[p], k, w.infos[k]) \/ Says(reply, k, w.infos[k]))
      BY <2>0, <3>1 DEF Handled
    <3>3. CASE q = p /\ Knows(tree[p], k, w.infos[k])
      BY <1>3, <1>4, <3>3
    <3>4. CASE q = p /\ Says(reply, k, w.infos[k])
      <4>1. Range(reply) \subseteq Range(chan'[n][q])
        BY <3>4, ReceiveParts
      <4> QED
        BY <3>4, <4>1 DEF Says
    <3> QED
      BY <3>1, <3>2, <3>3, <3>4
  <2> QED
    BY <2>1, <2>2, <2>3, <2>4, <2>5, <2>6, SpreadStep
<1>8. now' = now /\ (now < TREE_REFRESH => Spread(tree', chan', open', linked'))
  BY <1>7
<1> QED
  BY <1>5, <1>8 DEF FreshInv

\* A frame other than an announce leaves infos and sent sets alone.
LEMMA SameHandled ==
  ASSUME NEW n \in Node, NEW w, Same(tree[n], w), NEW p, NEW reply,
         Head(chan[p][n]).type # "Announce", \A f \in Range(reply) : f.type # "Announce"
  PROVE  Handled(n, p, w, reply) /\ (Lasts(tree[n]) => Lasts(w))
<1>1. w.infos = tree[n].infos /\ w.deadlines = tree[n].deadlines /\ w.sent = tree[n].sent
  BY DEF Same
<1>2. Grows(tree[n], w) /\ Heard(tree, n, w)
  BY <1>1 DEF Grows, Heard, Knows, AsFresh
<1>3. Lasts(tree[n]) => Lasts(w)
  BY <1>1 DEF Lasts
<1> QED
  BY <1>1, <1>2, <1>3 DEF Handled

\* A signature request.
LEMMA HandleRequestSpreads ==
  ASSUME IInv, FreshInv, NEW n \in Node, NEW p \in Node, HandleRequest(n, p)
  PROVE  FreshInv'
<1> DEFINE m == Head(chan[p][n])
           r == [type |-> "SigRes", res |-> [req |-> m.req, port |-> tree[n].port[p]]]
<1>1. p \in linked[n] /\ chan[p][n] # <<>> /\ m.type = "SigReq"
  BY DEF HandleRequest, Arrived
<1>2. Channel(tree, p, n, chan[p][n])
  BY DEF IInv
<1>3. m \in Msg
  BY <1>1, <1>2, ChannelTail
<1>4. m.req \in SigReq
  BY <1>1, <1>3 DEF Msg
<1>5. tree[n].port[p] \in Nat
  BY DEF IInv, TypeOK, TreeType
<1>6. r \in Msg
  BY <1>4, <1>5 DEF Msg, SigRes
<1>7. Receive(n, p, <<r>>) /\ UNCHANGED <<now, open, offered, tree, cuts>>
  BY DEF HandleRequest
<1>8. tree' = [tree EXCEPT ![n] = tree[n]]
  BY <1>7 DEF IInv, TypeOK
<1>9. r.type # "Announce"
  OBVIOUS
<1> HIDE DEF r
<1>10. <<r>> \in Seq(Msg) /\ \A f \in Range(<<r>>) : f.type # "Announce"
  BY <1>6, <1>9, RangeSmall
<1>11. IInv'
  BY HandleRequestKeeps
<1>12. Same(tree[n], tree[n]) /\ Lasts(tree[n])
  BY DEF Same, FreshInv
<1>13. Handled(n, p, tree[n], <<r>>)
  BY <1>1, <1>10, <1>12, SameHandled
<1>14. now' = now /\ open' = open
  BY <1>7
<1> QED
  BY <1>1, <1>7, <1>8, <1>10, <1>11, <1>12, <1>13, <1>14, HandlerSpreads

\* A signature response.
LEMMA HandleResponseSpreads ==
  ASSUME IInv, FreshInv, NEW n \in Node, NEW p \in Node, HandleResponse(n, p)
  PROVE  FreshInv'
<1> DEFINE w == Answer(tree[n], p, Head(chan[p][n]).res)
<1>1. p \in linked[n] /\ chan[p][n] # <<>> /\ Head(chan[p][n]).type # "Announce"
  BY DEF HandleResponse, Arrived
<1>2. tree' = [tree EXCEPT ![n] = w] /\ Receive(n, p, <<>>) /\ now' = now /\ open' = open
  BY DEF HandleResponse
<1>3. Same(tree[n], w)
  <2>1. tree[n] \in TreeType
    BY DEF IInv, TypeOK
  <2> QED
    BY <2>1 DEF Answer, Same, TreeType
<1> HIDE DEF w
<1>4. IInv'
  BY HandleResponseKeeps
<1>5. Lasts(tree[n])
  BY DEF FreshInv
<1>6. <<>> \in Seq(Msg) /\ \A f \in Range(<<>>) : f.type # "Announce"
  BY RangeSmall
<1>7. Handled(n, p, w, <<>>) /\ Lasts(w)
  BY <1>1, <1>3, <1>5, <1>6, SameHandled
<1> QED
  BY <1>1, <1>2, <1>4, <1>6, <1>7, HandlerSpreads

\* Learning an info is updating with it and ticking it off for its sender.
LEMMA LearnParts ==
  ASSUME NEW n \in Node, NEW t, Fine(n, t), now \in Nat, NEW p \in Node,
         NEW key \in Node, NEW info \in Info, Vouched(tree, key, info)
  PROVE  /\ Learn(n, t, p, key, info).infos = Update(n, t, key, info).infos
         /\ Learn(n, t, p, key, info).deadlines = Update(n, t, key, info).deadlines
         /\ \A q \in Node : \A k \in Learn(n, t, p, key, info).sent[q] :
              k \in Update(n, t, key, info).sent[q] \/ (q = p /\ k = key)
<1> DEFINE u == Update(n, t, key, info)
<1>1. u \in TreeType
  BY UpdateFine DEF Fine
<1>2. Learn(n, t, p, key, info) =
        [u EXCEPT !.refresh = u.refresh \/ (Adopts(t, key, info) /\ key = n),
                  !.sent[p] = u.sent[p] \cup {key}]
  BY DEF Learn
<1> HIDE DEF u
<1>3. /\ Learn(n, t, p, key, info).infos = u.infos
      /\ Learn(n, t, p, key, info).deadlines = u.deadlines
      /\ Learn(n, t, p, key, info).sent = [u.sent EXCEPT ![p] = u.sent[p] \cup {key}]
  BY <1>1, <1>2 DEF TreeType
<1>4. u.sent \in [Node -> SUBSET Node]
  BY <1>1 DEF TreeType
<1> QED
  BY <1>3, <1>4 DEF u

\* An announce is taken in: what it says is known from then on, and if n knew
\* better, the answer says so.
LEMMA LearnHandled ==
  ASSUME IInv, Spread(tree, chan, open, linked), NEW n \in Node, NEW p \in linked[n],
         chan[p][n] # <<>>, Head(chan[p][n]).type = "Announce",
         NEW key \in Node, NEW info \in Info, Vouched(tree, key, info),
         key = Head(chan[p][n]).key, info = Head(chan[p][n]).info
  PROVE  Handled(n, p, Learn(n, tree[n], p, key, info), Better(tree[n], key, info))
<1> DEFINE w == Learn(n, tree[n], p, key, info)
           u == Update(n, tree[n], key, info)
           reply == Better(tree[n], key, info)
<1>1. /\ p \in Node /\ now \in Nat
      /\ tree \in [Node -> TreeType] /\ chan \in [Node -> [Node -> Seq(Msg)]]
      /\ Fine(n, tree[n])
  BY LinkedFacts, FineNow DEF IInv, TypeOK
<1>2. /\ w.infos = u.infos
      /\ \A q \in Node : \A k \in w.sent[q] : k \in u.sent[q] \/ (q = p /\ k = key)
  BY <1>1, LearnParts, SMTT(30)
<1>3. /\ ~Adopts(tree[n], key, info) => u = tree[n]
      /\ Adopts(tree[n], key, info) =>
           /\ u.infos[key] = info
           /\ \A q \in Node : u.sent[q] = tree[n].sent[q] \ {key}
      /\ \A k \in Node : k # key => u.infos[k] = tree[n].infos[k]
  <2>1. tree[n] \in TreeType /\ now \in Nat
    BY <1>1
  <2> QED
    BY <2>1, UpdateParts
<1>4. info # None
  BY NoneAssumption
<1>5. \A m, k \in Node : tree[m].infos[k] # None => tree[m].infos[k] \in Info
  BY <1>1 DEF TreeType
<1>6. \A i \in Info : AsFresh(i, i)
  BY DEF AsFresh
<1>7. Knows(tree[p], key, info)
  <2>1. Head(chan[p][n]) \in Range(chan[p][n])
    BY <1>1, RangeTail
  <2>2. Told(tree, chan)
    BY DEF Spread
  <2> QED
    BY <1>1, <2>1, <2>2 DEF Told
<1>8. Knows(tree[key], key, info)
  <2>1. tree[p].infos[key] # None /\ AsFresh(tree[p].infos[key], info)
    BY <1>7 DEF Knows
  <2>2. Knows(tree[key], key, tree[p].infos[key])
    BY <1>1, <2>1 DEF Spread, Ruled
  <2>3. InfosType(tree[key])
    BY <1>1 DEF TreeType, InfosType
  <2>4. tree[p].infos[key] \in Info
    BY <1>1, <1>5, <2>1
  <2> QED
    BY <2>1, <2>2, <2>3, <2>4, KnowsMore
<1> HIDE DEF w, u
<1>9. Grows(tree[n], w)
  <2> SUFFICES ASSUME NEW k \in Node, tree[n].infos[k] # None
               PROVE  w.infos[k] # None /\ AsFresh(w.infos[k], tree[n].infos[k])
    BY DEF Grows, Knows
  <2>1. CASE k = key /\ Adopts(tree[n], key, info)
    <3>1. w.infos[k] = info /\ Fresher(info, tree[n].infos[k])
      BY <1>2, <1>3, <2>1 DEF Adopts
    <3> QED
      BY <1>4, <3>1 DEF AsFresh
  <2>2. CASE ~(k = key /\ Adopts(tree[n], key, info))
    <3>1. w.infos[k] = tree[n].infos[k]
      BY <1>2, <1>3, <2>2
    <3> QED
      BY <1>5, <1>6, <3>1
  <2> QED
    BY <2>1, <2>2
<1>10. Heard(tree, n, w)
  <2> SUFFICES ASSUME NEW k \in Node, w.infos[k] # tree[n].infos[k]
               PROVE  Knows(tree[k], k, w.infos[k])
    BY DEF Heard
  <2>1. k = key /\ w.infos[k] = info
    BY <1>2, <1>3
  <2> QED
    BY <1>8, <2>1
<1>11. Knows(w, key, info)
  <2>1. CASE Adopts(tree[n], key, info)
    <3>1. w.infos[key] = info
      BY <1>2, <1>3, <2>1
    <3> QED
      BY <1>4, <1>6, <3>1 DEF Knows
  <2>2. CASE ~Adopts(tree[n], key, info)
    <3>1. w.infos[key] = tree[n].infos[key]
      BY <1>2, <1>3, <2>2
    <3>2. tree[n].infos[key] # None /\ ~Fresher(info, tree[n].infos[key])
      BY <2>2 DEF Adopts
    <3>3. Vouched(tree, key, tree[n].infos[key]) /\ tree[n].infos[key] \in Info
      BY <1>5, <3>2 DEF IInv, SoundTree
    <3>4. AsFresh(tree[n].infos[key], info)
      BY <3>2, <3>3, FreshTotal
    <3> QED
      BY <3>1, <3>2, <3>4 DEF Knows
  <2> QED
    BY <2>1, <2>2
<1>12. ASSUME ~Adopts(tree[n], key, info), tree[n].infos[key] # info
       PROVE  /\ tree[n].infos[key] # None /\ w.infos[key] = tree[n].infos[key]
              /\ Range(reply) = {[type |-> "Announce", key |-> key, info |-> tree[n].infos[key]]}
  <2>1. reply = Announces(tree[n], <<key>>)
    BY <1>12 DEF Better
  <2>2. Range(<<key>>) = {key}
    BY RangeSmall
  <2>3. Range(reply) = {[type |-> "Announce", key |-> k, info |-> tree[n].infos[k]] : k \in {key}}
    BY <2>1, <2>2, RangeAnnounces
  <2>4. tree[n].infos[key] # None /\ w.infos[key] = tree[n].infos[key]
    BY <1>2, <1>3, <1>12 DEF Adopts
  <2> QED
    BY <2>3, <2>4
<1>13. Adopts(tree[n], key, info) \/ tree[n].infos[key] = info => Range(reply) = {}
  BY RangeSmall DEF Better
<1> HIDE DEF reply
<1>14. \A f \in Range(reply) : f.type = "Announce" => Knows(w, f.key, f.info)
  <2> SUFFICES ASSUME NEW f \in Range(reply)
               PROVE  Knows(w, f.key, f.info)
    OBVIOUS
  <2>1. /\ tree[n].infos[key] # None /\ w.infos[key] = tree[n].infos[key]
        /\ f = [type |-> "Announce", key |-> key, info |-> tree[n].infos[key]]
    BY <1>12, <1>13
  <2>2. f.key = key /\ f.info = w.infos[key]
    BY <2>1
  <2> QED
    BY <2>1, <2>2 DEF Knows, AsFresh
<1>15. ASSUME NEW q \in linked[n], NEW k \in w.sent[q], w.infos[k] # None
       PROVE  \/ k \in tree[n].sent[q] /\ w.infos[k] = tree[n].infos[k]
              \/ q = p /\ (Knows(tree[p], k, w.infos[k]) \/ Says(reply, k, w.infos[k]))
  <2>1. q \in Node
    BY LinkedFacts
  <2>2. CASE k \in u.sent[q]
    <3>1. u = tree[n] \/ (u.sent[q] = tree[n].sent[q] \ {key})
      BY <1>3, <2>1
    <3>2. tree[n].sent[q] \subseteq Node
      BY <1>1, <2>1 DEF TreeType
    <3> QED
      BY <1>2, <1>3, <2>2, <3>1, <3>2
  <2>3. CASE q = p /\ k = key
    <3>1. CASE Adopts(tree[n], key, info) \/ tree[n].infos[key] = info
      <4>1. w.infos[key] = info
        BY <1>2, <1>3, <3>1
      <4> QED
        BY <1>7, <2>3, <4>1
    <3>2. CASE ~(Adopts(tree[n], key, info) \/ tree[n].infos[key] = info)
      <4> DEFINE f == [type |-> "Announce", key |-> key, info |-> tree[n].infos[key]]
      <4>1. f \in Range(reply) /\ w.infos[key] = tree[n].infos[key]
        BY <1>12, <3>2
      <4>2. f.type = "Announce" /\ f.key = key /\ f.info = tree[n].infos[key]
        OBVIOUS
      <4> HIDE DEF f
      <4>3. Says(reply, key, w.infos[key])
        BY <4>1, <4>2 DEF Says, AsFresh
      <4> QED
        BY <2>3, <4>3
    <3> QED
      BY <3>1, <3>2
  <2> QED
    BY <1>2, <2>1, <2>2, <2>3
<1>16. Handled(n, p, w, reply)
  BY <1>9, <1>10, <1>11, <1>14, <1>15 DEF Handled
<1> QED
  BY <1>16 DEF w, reply

\* An announce.
LEMMA HandleAnnounceSpreads ==
  ASSUME IInv, FreshInv, NEW n \in Node, NEW p \in Node, HandleAnnounce(n, p)
  PROVE  FreshInv'
<1> DEFINE m == Head(chan[p][n])
           w == Learn(n, tree[n], p, m.key, m.info)
           reply == Better(tree[n], m.key, m.info)
<1>1. p \in linked[n] /\ chan[p][n] # <<>> /\ m.type = "Announce"
  BY DEF HandleAnnounce, Arrived
<1>2. Channel(tree, p, n, chan[p][n])
  BY DEF IInv
<1>3. m \in Msg /\ SoundMsg(tree, p, n, m)
  BY <1>1, <1>2, ChannelTail
<1>4. m.key \in Node /\ m.info \in Info /\ Vouched(tree, m.key, m.info)
  BY <1>1, <1>3 DEF Msg, SoundMsg
<1>5. now \in Nat /\ Fine(n, tree[n]) /\ tree[n] \in TreeType /\ Lasts(tree[n])
  BY FineNow DEF IInv, TypeOK, FreshInv
<1>6. tree' = [tree EXCEPT ![n] = w] /\ Receive(n, p, reply) /\ now' = now /\ open' = open
  BY DEF HandleAnnounce
<1>7. Lasts(w)
  <2> DEFINE u == Update(n, tree[n], m.key, m.info)
  <2>1. Lasts(u)
    BY <1>4, <1>5, UpdateLasts
  <2>2. w.infos = u.infos /\ w.deadlines = u.deadlines
    BY <1>4, <1>5, LearnParts
  <2> HIDE DEF w, u
  <2> QED
    BY <2>1, <2>2 DEF Lasts
<1>8. now < TREE_REFRESH => Handled(n, p, w, reply)
  <2>1. now < TREE_REFRESH => Spread(tree, chan, open, linked)
    BY DEF FreshInv
  <2> QED
    BY <1>1, <1>4, <2>1, LearnHandled
<1>9. reply \in Seq(Msg)
  <2>0. <<>> \in Seq(Msg)
    OBVIOUS
  <2>1. CASE reply = <<>>
    <3> HIDE DEF reply
    <3> QED
      BY <2>0, <2>1
  <2>2. CASE reply # <<>>
    <3>1. reply = Announces(tree[n], <<m.key>>) /\ tree[n].infos[m.key] # None
      BY <2>2 DEF Better, Adopts
    <3>2. <<m.key>> \in Seq(Node) /\ \A j \in DOMAIN <<m.key>> : tree[n].infos[<<m.key>>[j]] # None
      BY <1>4, <3>1
    <3>3. Channel(tree, n, p, Announces(tree[n], <<m.key>>))
      BY <1>5, <3>2, ChannelAnnounces
    <3> QED
      BY <3>1, <3>3 DEF Channel
  <2> QED
    BY <2>1, <2>2
<1>10. IInv'
  BY HandleAnnounceKeeps
<1> HIDE DEF w, reply
<1> QED
  BY <1>1, <1>6, <1>7, <1>8, <1>9, <1>10, HandlerSpreads

\* A sequence of all of R has all of R in it.
LEMMA SetToSeqsRange ==
  ASSUME NEW R \in SUBSET Node, NEW s \in SetToSeqs(R)
  PROVE  s \in Seq(Node) /\ Range(s) = R
<1> DEFINE c == Cardinality(R)
<1>1. IsFiniteSet(R) /\ c \in Nat
  BY NodeAssumption, FS_Subset, FS_CardinalityType
<1>2. s \in [1..c -> R] /\ \A i, j \in 1..c : i # j => s[i] # s[j]
  BY DEF SetToSeqs
<1>3. Cardinality(1..c) = c
  BY <1>1, FS_Interval
<1>4. s \in Injection(1..c, R)
  BY <1>2 DEF Injection, IsInjective
<1>5. s \in Surjection(1..c, R)
  BY <1>1, <1>3, <1>4, FS_Injection
<1> HIDE DEF c
<1>6. \A x \in R : \E i \in 1..c : s[i] = x
  BY <1>5 DEF Surjection
<1>7. s \in Seq(Node) /\ DOMAIN s = 1..c
  BY <1>1, <1>2
<1> QED
  BY <1>2, <1>6, <1>7 DEF Range

\* What n has ticked off for p is what it replays.
LEMMA RegisterSpreads ==
  ASSUME IInv, FreshInv, NEW n \in Node, NEW p \in Node, Register(n, p)
  PROVE  FreshInv'
<1>1. PICK nonce \in Nonce, replay \in SetToSeqs(Replayable(tree[n], p)), ok \in BOOLEAN :
        LET t == Enlist(n, tree[n], p, nonce)
        IN  /\ {n, p} \in open => ok
            /\ tree' = [tree EXCEPT ![n] = t]
            /\ linked' = [linked EXCEPT ![n] = IF ok THEN @ \cup {p} ELSE @]
            /\ Write(n, [q \in Node |->
                 IF q = p
                 THEN <<[type |-> "SigReq", req |-> t.req[p]]>> \o Announces(t, replay)
                 ELSE <<>>], IF ok THEN {} ELSE {p})
  BY DEF Register
<1> DEFINE t == Enlist(n, tree[n], p, nonce)
           r == [type |-> "SigReq", req |-> t.req[p]]
           frames == [q \in Node |-> IF q = p THEN <<r>> \o Announces(t, replay) ELSE <<>>]
           gone == IF ok THEN {} ELSE {p}
<1>2. /\ {n, p} \in open => ok
      /\ tree' = [tree EXCEPT ![n] = t]
      /\ linked' = [linked EXCEPT ![n] = IF ok THEN @ \cup {p} ELSE @]
      /\ Write(n, frames, gone)
  BY <1>1
<1>3. <<n, p>> \in offered /\ now' = now /\ open' = open
  BY DEF Register
<1>4. /\ n # p /\ nonce \in Nat
      /\ tree \in [Node -> TreeType] /\ chan \in [Node -> [Node -> Seq(Msg)]]
      /\ linked \in [Node -> SUBSET Node]
  BY <1>3, NonceAssumption DEF IInv, Books, TypeOK
<1>5. t \in TreeType /\ t.req[p] \in SigReq /\ SoundTree(tree, n, t)
  BY <1>4, EnlistFacts
<1>6. Same(tree[n], t)
  <2>1. tree[n] \in TreeType
    BY <1>4
  <2> QED
    BY <2>1 DEF Same, Enlist, TreeType
<1> HIDE DEF t
<1>7. t.infos = tree[n].infos /\ t.sent = tree[n].sent /\ t.deadlines = tree[n].deadlines
  BY <1>6 DEF Same
<1>8. /\ replay \in Seq(Node)
      /\ Range(replay) = {k \in tree[n].sent[p] : tree[n].infos[k] # None}
  <2>1. Replayable(tree[n], p) \in SUBSET Node
    BY <1>4 DEF Replayable, TreeType
  <2> QED
    BY <2>1, SetToSeqsRange DEF Replayable
<1>9. \A j \in DOMAIN replay : t.infos[replay[j]] # None
  BY <1>7, <1>8 DEF Range
<1>10. Announces(t, replay) \in Seq(Msg)
  <2>1. Announces(t, replay) = Announces(tree[n], replay)
    BY <1>7 DEF Announces
  <2>2. Channel(tree, n, p, Announces(tree[n], replay))
    BY <1>7, <1>8, <1>9, FineNow, ChannelAnnounces
  <2> QED
    BY <2>1, <2>2 DEF Channel
<1>11. r \in Msg /\ r.type # "Announce"
  BY <1>5 DEF Msg
<1> HIDE DEF r
<1>12. frames[p] = <<r>> \o Announces(t, replay) /\ \A q \in Node : q # p => frames[q] = <<>>
  OBVIOUS
<1> HIDE DEF frames
<1>13. /\ \A q \in Node : frames[q] \in Seq(Msg)
       /\ Range(frames[p]) = {r} \cup Range(Announces(t, replay))
  <2> DEFINE h == <<r>>
             s == Announces(t, replay)
  <2>1. h \in Seq(Msg) /\ Range(h) = {r}
    BY <1>11, RangeSmall
  <2>2. s \in Seq(Msg) /\ frames[p] = h \o s
    BY <1>10, <1>12
  <2> HIDE DEF h, s
  <2>3. h \o s \in Seq(Msg)
    BY <2>1, <2>2
  <2>4. Range(h \o s) = Range(h) \cup Range(s)
    BY <2>1, <2>2, RangeConcat
  <2>5. <<>> \in Seq(Msg)
    OBVIOUS
  <2>6. \A q \in Node : frames[q] \in Seq(Msg)
    BY <1>12, <2>2, <2>3, <2>5
  <2>7. Range(frames[p]) = {r} \cup Range(s)
    BY <2>1, <2>2, <2>4
  <2> QED
    BY <2>6, <2>7 DEF s
<1>15. \A m \in Node : tree'[m] = IF m = n THEN t ELSE tree[m]
  BY <1>2, <1>4
<1>16. \A m \in Node : Lasts(tree'[m])
  BY <1>7, <1>15 DEF FreshInv, Lasts
<1>17. \A m \in Node : linked'[m] = IF m = n /\ ok THEN linked[m] \cup {p} ELSE linked[m]
  BY <1>2, <1>4
<1>18. IInv'
  BY RegisterKeeps
<1>19. tree' \in [Node -> TreeType] /\ chan' \in [Node -> [Node -> Seq(Msg)]]
  BY <1>18 DEF IInv, TypeOK
<1>20. ASSUME NEW a \in Node, {a, n} \in open
       PROVE  a \notin gone
  <2>1. {p, n} = {n, p}
    OBVIOUS
  <2> QED
    BY <1>2, <1>20, <2>1
<1> HIDE DEF gone
<1>21. ASSUME now < TREE_REFRESH
       PROVE  Spread(tree', chan', open, linked')
  <2>1. Spread(tree, chan, open, linked)
    BY <1>21 DEF FreshInv
  <2>2. \A m \in Node : m # n => tree'[m] = tree[m] /\ linked'[m] \subseteq linked[m]
    BY <1>15, <1>17
  <2>3. Grows(tree[n], tree'[n]) /\ Heard(tree, n, tree'[n])
    BY <1>7, <1>15 DEF Grows, Heard, Knows, AsFresh
  <2>4. Wrote(chan, chan', n, tree'[n])
    <3> SUFFICES ASSUME NEW a \in Node, NEW b \in Node, NEW f \in Range(chan'[a][b]),
                        f \notin Range(chan[a][b])
                 PROVE  a = n /\ (f.type = "Announce" => Knows(t, f.key, f.info))
      BY <1>15 DEF Wrote
    <3>1. a = n /\ f \in Range(frames[b])
      BY <1>2, <1>4, <1>13, WriteParts
    <3>2. b = p
      BY <1>12, <3>1, RangeSmall
    <3>3. f = r \/ f \in Range(Announces(t, replay))
      BY <1>13, <3>1, <3>2
    <3>4. CASE f \in Range(Announces(t, replay))
      BY <1>8, <1>9, <3>1, <3>4, AnnouncesKnown
    <3> QED
      BY <1>11, <3>1, <3>3, <3>4
  <2>5. Read(chan, chan', open, n, tree'[n])
    <3> SUFFICES ASSUME NEW a \in Node, NEW b \in Node, {a, b} \in open
                 PROVE  Range(chan[a][b]) \subseteq Range(chan'[a][b])
      BY DEF Read
    <3>1. ~(b = n /\ a \in gone)
      BY <1>20
    <3> QED
      BY <1>2, <1>4, <1>13, <3>1, WriteParts
  <2>6. Ticked(tree, tree', chan', open, linked, linked', n)
    <3> SUFFICES ASSUME NEW q \in Node, {n, q} \in open, q \in linked'[n],
                        NEW k \in t.sent[q], t.infos[k] # None
                 PROVE  \/ k \in tree[n].sent[q] /\ t.infos[k] = tree[n].infos[k] /\ q \in linked[n]
                        \/ Says(chan'[n][q], k, t.infos[k])
      BY <1>15 DEF Ticked
    <3>1. CASE q # p
      BY <1>7, <1>17, <3>1
    <3>2. CASE q = p
      <4> DEFINE f == [type |-> "Announce", key |-> k, info |-> t.infos[k]]
      <4>1. k \in Range(replay)
        BY <1>7, <1>8, <3>2
      <4>2. f \in Range(Announces(t, replay))
        BY <4>1, RangeAnnounces
      <4>3. f.type = "Announce" /\ f.key = k /\ f.info = t.infos[k]
        OBVIOUS
      <4> HIDE DEF f
      <4>4. ~(p = n /\ n \in gone)
        BY <1>4
      <4>5. Range(frames[p]) \subseteq Range(chan'[n][p])
        BY <1>2, <1>4, <1>13, <3>2, <4>4, WriteParts
      <4> QED
        BY <1>13, <3>2, <4>2, <4>3, <4>5 DEF Says, AsFresh
    <3> QED
      BY <3>1, <3>2
  <2> QED
    BY <1>18, <2>1, <2>2, <2>3, <2>4, <2>5, <2>6, SpreadStep
<1>22. now' = now /\ (now < TREE_REFRESH => Spread(tree', chan', open', linked'))
  BY <1>3, <1>21
<1> QED
  BY <1>16, <1>22 DEF FreshInv

\* A transport coming up: neither end has registered it, so nothing is
\* promised of it yet.
LEMMA OpenSpreads ==
  ASSUME IInv, FreshInv, NEW n \in Node, NEW p \in Node, Open(n, p)
  PROVE  FreshInv'
<1>1. /\ open' = open \cup {{n, p}} /\ p \notin linked[n] /\ n \notin linked[p]
      /\ now' = now /\ tree' = tree /\ chan' = chan /\ linked' = linked
  BY DEF Open
<1>2. ASSUME NEW a \in Node, NEW b \in Node, {a, b} \in open', b \in linked[a]
      PROVE  {a, b} \in open
  <2>1. ~((a = n /\ b = p) \/ (a = p /\ b = n))
    BY <1>1, <1>2
  <2>2. {a, b} # {n, p}
    BY <2>1
  <2> QED
    BY <1>1, <1>2, <2>2
<1>3. Spread(tree, chan, open, linked) => Spread(tree, chan, open', linked)
  BY <1>2 DEF Spread, Delivered
<1>4. now < TREE_REFRESH => Spread(tree', chan', open', linked')
  BY <1>1, <1>3 DEF FreshInv
<1> QED
  BY <1>1, <1>4 DEF FreshInv

\* A transport dying: nothing is promised of a dead link.
LEMMA CutSpreads ==
  ASSUME IInv, FreshInv, NEW n \in Node, NEW p \in Node, Cut(n, p)
  PROVE  FreshInv'
<1>1. /\ open' \subseteq open
      /\ now' = now /\ tree' = tree /\ chan' = chan /\ linked' = linked
  BY DEF Cut
<1>2. Spread(tree, chan, open, linked) => Spread(tree, chan, open', linked)
  BY <1>1 DEF Spread, Delivered
<1>3. now < TREE_REFRESH => Spread(tree', chan', open', linked')
  BY <1>1, <1>2 DEF FreshInv
<1> QED
  BY <1>1, <1>3 DEF FreshInv

\* Only frames on a dead transport are dropped.
LEMMA EvictSpreads ==
  ASSUME IInv, FreshInv, NEW n \in Node, NEW p \in Node, Evict(n, p)
  PROVE  FreshInv'
<1>1. /\ {n, p} \notin open
      /\ now' = now /\ tree' = tree /\ open' = open
      /\ linked' = [linked EXCEPT ![n] = @ \ {p}]
      /\ chan' = [chan EXCEPT ![p][n] = <<>>]
  BY DEF Evict, Deaf
<1>2. linked \in [Node -> SUBSET Node] /\ chan \in [Node -> [Node -> Seq(Msg)]]
  BY DEF IInv, TypeOK
<1>3. \A m \in Node : linked'[m] \subseteq linked[m]
  BY <1>1, <1>2
<1>4. \A a, b \in Node : chan'[a][b] = IF a = p /\ b = n THEN <<>> ELSE chan[a][b]
  BY <1>1, <1>2
<1>5. Told(tree, chan) => Told(tree, chan')
  BY <1>4, RangeSmall DEF Told
<1>6. Delivered(tree, chan, open, linked) => Delivered(tree, chan', open, linked')
  <2>1. \A a, b \in Node : {a, b} \in open => chan'[a][b] = chan[a][b]
    <3> SUFFICES ASSUME NEW a \in Node, NEW b \in Node, {a, b} \in open
                 PROVE  ~(a = p /\ b = n)
      BY <1>4
    <3>1. {p, n} = {n, p}
      OBVIOUS
    <3> QED
      BY <1>1, <3>1
  <2> QED
    BY <1>3, <2>1 DEF Delivered
<1>7. now < TREE_REFRESH => Spread(tree', chan', open', linked')
  BY <1>1, <1>5, <1>6 DEF FreshInv, Spread
<1> QED
  BY <1>1, <1>7 DEF FreshInv

\* The clock.
LEMMA TickSpreads ==
  ASSUME IInv, FreshInv, Tick
  PROVE  FreshInv'
<1>1. /\ now' = now + 1 /\ now \in Nat
      /\ tree' = tree /\ chan' = chan /\ open' = open /\ linked' = linked
  BY DEF Tick, IInv, TypeOK
<1>2. now' < TREE_REFRESH => now < TREE_REFRESH
  BY <1>1, TimerAssumption
<1> QED
  BY <1>1, <1>2 DEF FreshInv

\* Initially nothing is known, said or ticked off.
LEMMA InitFresh == Init => FreshInv
<1> SUFFICES ASSUME Init
             PROVE  FreshInv
  OBVIOUS
<1>1. \A n, k \in Node : tree[n].infos[k] = None /\ tree[n].sent[k] = {}
  BY DEF Init, DefaultTree
<1>2. \A n, p \in Node : Range(chan[n][p]) = {}
  BY RangeSmall DEF Init
<1>3. \A n \in Node : Lasts(tree[n])
  BY <1>1 DEF Lasts
<1>4. Ruled(tree) /\ Told(tree, chan) /\ Delivered(tree, chan, open, linked)
  BY <1>1, <1>2 DEF Ruled, Told, Delivered
<1> QED
  BY <1>3, <1>4 DEF FreshInv, Spread

\* Every step keeps it.
LEMMA NextFresh == IInv /\ FreshInv /\ [Next]_vars => FreshInv'
<1> SUFFICES ASSUME IInv, FreshInv, [Next]_vars
             PROVE  FreshInv'
  OBVIOUS
<1>1. ASSUME NEW n \in Node, Maintain(n)
      PROVE  FreshInv'
  BY <1>1, MaintainSpreads
<1>2. ASSUME NEW n \in Node, NEW p \in Node, HandleRequest(n, p)
      PROVE  FreshInv'
  BY <1>2, HandleRequestSpreads
<1>3. ASSUME NEW n \in Node, NEW p \in Node, HandleResponse(n, p)
      PROVE  FreshInv'
  BY <1>3, HandleResponseSpreads
<1>4. ASSUME NEW n \in Node, NEW p \in Node, HandleAnnounce(n, p)
      PROVE  FreshInv'
  BY <1>4, HandleAnnounceSpreads
<1>5. ASSUME NEW n \in Node, NEW p \in Node, Open(n, p)
      PROVE  FreshInv'
  BY <1>5, OpenSpreads
<1>6. ASSUME NEW n \in Node, NEW p \in Node, Register(n, p)
      PROVE  FreshInv'
  BY <1>6, RegisterSpreads
<1>7. ASSUME NEW n \in Node, NEW p \in Node, Cut(n, p)
      PROVE  FreshInv'
  BY <1>7, CutSpreads
<1>8. ASSUME NEW n \in Node, NEW p \in Node, Evict(n, p)
      PROVE  FreshInv'
  BY <1>8, EvictSpreads
<1>9. CASE Tick
  BY <1>9, TickSpreads
<1>10. CASE UNCHANGED vars
  <2>1. /\ now' = now /\ open' = open /\ linked' = linked
        /\ chan' = chan /\ tree' = tree
    BY <1>10 DEF vars
  <2> QED
    BY <2>1 DEF FreshInv
<1> QED
  BY <1>1, <1>2, <1>3, <1>4, <1>5, <1>6, <1>7, <1>8, <1>9, <1>10 DEF Next

\* Both invariants hold of every reachable state, for every network and every
\* order of frames, ticks, links and transport failures.
THEOREM FreshInvariance == Spec => [](IInv /\ FreshInv)
<1>1. Init => IInv /\ FreshInv
  BY InitIInv, InitFresh
<1>2. IInv /\ FreshInv /\ [Next]_vars => (IInv /\ FreshInv)'
  BY NextIInv, NextFresh
<1> QED
  BY <1>1, <1>2, PTL DEF Spec

\* OwnInfoFreshest: until an info can expire, no router holds a fresher info
\* of a key than the router of that key, so nothing it hears makes it give up
\* what it decided about itself (TreeState::update, src/src/tree.rs).
THEOREM OwnFreshest == Spec => []OwnInfoFreshest
<1>1. FreshInv => OwnInfoFreshest
  BY DEF FreshInv, Spread, Ruled, Knows, OwnInfoFreshest
<1> QED
  BY <1>1, FreshInvariance, PTL

\* SentMeansDelivered: until an info can expire, a key ticked off for a peer
\* over a live link is one the peer knows as well or will read of, although
\* it is ticked off before the write, stays ticked off when the link dies and
\* is replayed on the next (send_announces in src/src/tree.rs, register in
\* src/src/driver.rs).
THEOREM TicksDelivered == Spec => []SentMeansDelivered
<1>1. IInv /\ FreshInv => SentMeansDelivered
  <2> SUFFICES ASSUME IInv, FreshInv, now < TREE_REFRESH, NEW n \in Node, NEW p \in Node,
                      {n, p} \in open, p \in linked[n],
                      NEW k \in tree[n].sent[p], tree[n].infos[k] # None
               PROVE  \/ /\ tree[p].infos[k] # None
                         /\ AsFresh(tree[p].infos[k], tree[n].infos[k])
                      \/ InFlight(n, p, k, tree[n].infos[k])
    BY DEF SentMeansDelivered
  <2>1. Knows(tree[p], k, tree[n].infos[k]) \/ Says(chan[n][p], k, tree[n].infos[k])
    BY DEF FreshInv, Spread, Delivered
  <2>2. Says(chan[n][p], k, tree[n].infos[k]) => InFlight(n, p, k, tree[n].infos[k])
    BY DEF Says, InFlight, Range
  <2> QED
    BY <2>1, <2>2 DEF Knows
<1> QED
  BY <1>1, FreshInvariance, PTL

=============================================================================
