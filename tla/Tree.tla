-------------------------------- MODULE Tree --------------------------------
(***************************************************************************)
(* The spanning-tree protocol of roots: a network of routers, each running *)
(* the TreeState of src/src/tree.rs, driven by src/src/driver.rs.          *)
(*                                                                         *)
(* A router asks its neighbours to vouch for it (SigReq), collects their   *)
(* signed answers (SigRes, carrying the port the neighbour gave the link), *)
(* attaches to the neighbour with the lowest-keyed root, and gossips the   *)
(* resulting infos (Announce).  Maintain is the once-a-second tick; the    *)
(* other actions are frames arriving and links coming and going.           *)
(*                                                                         *)
(* Abstractions: a node key is an integer (the code compares keys); a      *)
(* signature is the fact that only its owner creates the record; the lag   *)
(* of a link is any member of Lags each time it is read, which covers      *)
(* every history of round trips; there is at most one link per pair of     *)
(* nodes at a time.                                                        *)
(***************************************************************************)
EXTENDS Integers, Sequences, FiniteSets, SequencesExt, Subsequences

CONSTANTS
  Node,          \* the node keys, ordered as the code orders public keys
  Edges,         \* the pairs {n, m} of nodes that may be linked
  Nonce,         \* the values rand::random() may give a request
  Lags,          \* the possible costs of a live link, in milliseconds
  MaxCost,       \* u64::MAX, where the cost arithmetic saturates
  TREE_REFRESH,  \* life of a node's own info, and of a root's refresh timer
  TREE_TIMEOUT,  \* life of any other info
  MaxTime,       \* bound: the clock stops here
  MaxCuts,       \* bound: how many transports may die
  None           \* an absent map entry, the Option of the source

ASSUME NodeAssumption == Node \subseteq Int /\ IsFiniteSet(Node)
ASSUME EdgesAssumption == \A e \in Edges : e \subseteq Node
ASSUME NonceAssumption == Nonce \subseteq Nat
ASSUME TimerAssumption == /\ TREE_REFRESH \in Nat \ {0}
                          /\ TREE_TIMEOUT \in Nat
                          /\ TREE_REFRESH <= TREE_TIMEOUT
ASSUME BoundAssumption == MaxTime \in Nat /\ MaxCuts \in Nat
ASSUME CostAssumption == MaxCost \in Nat /\ Lags \subseteq 1..MaxCost

SigReq == [seq : Nat, nonce : Nat]
SigRes == [req : SigReq, port : Nat]
Info   == [parent : Node, res : SigRes]

ASSUME NoneAssumption == None \notin Info \cup SigReq \cup SigRes \cup Node \cup Nat

Msg == [type : {"SigReq"}, req : SigReq]
         \cup [type : {"SigRes"}, res : SigRes]
         \cup [type : {"Announce"}, key : Node, info : Info]

VARIABLES
  now,      \* the clock, in units that divide TREE_REFRESH and TREE_TIMEOUT
  open,     \* the pairs {n, m} whose transport is alive
  offered,  \* <<n, m>>: n holds a handshaken link to m it has not registered
  linked,   \* linked[n]: the keys in n's LinkSet
  chan,     \* chan[n][m]: frames n wrote on its link to m, not yet read
  tree,     \* tree[n]: n's TreeState
  cuts      \* how many transports have died

vars == <<now, open, offered, linked, chan, tree, cuts>>

(***************************************************************************)
(* TreeState::default().  An absent key of a map is None, and a key absent *)
(* from `peers` has port 0: ports are numbered from 1.  The keys of `sent` *)
(* are the keys of `peers`, since register is the first to touch either.   *)
(***************************************************************************)
DefaultTree ==
  [ port            |-> [k \in Node |-> 0],
    req             |-> [k \in Node |-> None],
    infos           |-> [k \in Node |-> None],
    deadlines       |-> [k \in Node |-> 0],
    responses       |-> [k \in Node |-> None],
    sent            |-> [k \in Node |-> {}],
    next_port       |-> 1,
    refresh         |-> FALSE,
    do_root1        |-> FALSE,
    do_root2        |-> TRUE,
    self_refresh_at |-> None ]

Init ==
  /\ now = 0
  /\ open = {}
  /\ offered = {}
  /\ linked = [n \in Node |-> {}]
  /\ chan = [n \in Node |-> [m \in Node |-> <<>>]]
  /\ tree = [n \in Node |-> DefaultTree]
  /\ cuts = 0

-----------------------------------------------------------------------------
(* Infos and their precedence *)

\* The request a node opens next: one past the sequence of its own info.
NewReq(n, t, nonce) ==
  [ seq   |-> IF t.infos[n] = None THEN 1 ELSE t.infos[n].res.req.seq + 1,
    nonce |-> nonce ]

\* Higher sequence wins, then lower parent, then lower nonce.
Fresher(a, b) ==
  \/ a.res.req.seq > b.res.req.seq
  \/ a.res.req.seq = b.res.req.seq /\ a.parent < b.parent
  \/ /\ a.res.req.seq = b.res.req.seq
     /\ a.parent = b.parent
     /\ a.res.req.nonce < b.res.req.nonce

Adopts(t, key, info) == t.infos[key] = None \/ Fresher(info, t.infos[key])

\* Faulty: the infos already sent stay ticked off.
StoreKeepsSent(n, t, key, info) ==
  [t EXCEPT !.infos[key]     = info,
            !.deadlines[key] = now + (IF key = n THEN TREE_REFRESH ELSE TREE_TIMEOUT)]

\* Store an info the precedence rule admits: it is unsent to everyone again.
Store(n, t, key, info) ==
  [t EXCEPT !.infos[key]     = info,
            !.deadlines[key] = now + (IF key = n THEN TREE_REFRESH ELSE TREE_TIMEOUT),
            !.sent           = [p \in Node |-> @[p] \ {key}]]

\* Faulty: the precedence rule is not consulted.
UpdateAlways(n, t, key, info) == Store(n, t, key, info)

Update(n, t, key, info) ==
  IF Adopts(t, key, info) THEN Store(n, t, key, info) ELSE t

\* Drop what has outlived its deadline, the node's own info included, and
\* ask for a refresh when the self timer is due.
Expire(n, t) ==
  LET dead == {k \in Node : t.infos[k] # None /\ t.deadlines[k] <= now}
      due  == t.self_refresh_at # None /\ t.self_refresh_at <= now
  IN  [t EXCEPT !.infos           = [k \in Node |-> IF k \in dead THEN None ELSE @[k]],
                !.deadlines       = [k \in Node |-> IF k \in dead THEN 0 ELSE @[k]],
                !.sent            = [p \in Node |-> @[p] \ dead],
                !.refresh         = @ \/ due,
                !.self_refresh_at = IF due THEN now + TREE_REFRESH ELSE @]

(***************************************************************************)
(* The line of a key: the key, its parent, its parent's parent, ... as far *)
(* as the infos reach and without repeating a key.  ancestry() is the line *)
(* reversed; root_and_dists() reads its last key and the positions in it.  *)
(***************************************************************************)
Climb(t, key, s) ==
  /\ \A i \in DOMAIN s : t.infos[s[i]] # None
  /\ \A i \in DOMAIN s : s[i] = IF i = 1 THEN key ELSE t.infos[s[i - 1]].parent
  /\ \A i, j \in DOMAIN s : s[i] = s[j] => i = j

\* Where the climb goes from the last key of s.
NextUp(t, key, s) == IF s = <<>> THEN key ELSE t.infos[s[Len(s)]].parent

IsLine(t, key, s) ==
  /\ Climb(t, key, s)
  /\ \/ t.infos[NextUp(t, key, s)] = None
     \/ \E i \in DOMAIN s : s[i] = NextUp(t, key, s)

Line(t, key) == CHOOSE s \in SeqOf(Node, Cardinality(Node)) : IsLine(t, key, s)

RootOf(t, key) == IF t.infos[key] = None THEN key ELSE Last(Line(t, key))

-----------------------------------------------------------------------------
(* Parent selection: fix *)

\* saturating_mul on u64
Sat(a, b) == IF a * b > MaxCost THEN MaxCost ELSE a * b

\* The cost of a key: its link's lag, or the maximum when it has no link.
KeyCost(n, cost, p) == IF p \in linked[n] THEN cost[p] ELSE MaxCost

\* What the node stands on before it looks at the candidates: its present
\* parent while that is linked and leads to a lower root, else itself.
Standing(n, t, cost) ==
  IF /\ t.infos[n] # None
     /\ t.infos[n].parent \in linked[n]
     /\ RootOf(t, n) < n
  THEN [root   |-> RootOf(t, n),
        parent |-> t.infos[n].parent,
        cost   |-> Sat(Len(Line(t, n)) - 1, KeyCost(n, cost, t.infos[n].parent))]
  ELSE [root |-> n, parent |-> n, cost |-> MaxCost]

\* The keys of `responses`: the peers that answered the open request.
Answered(t) == {p \in Node : t.responses[p] # None}

\* One of them is a candidate when its line is known and does not lead
\* through the node itself.
Candidates(n, t) ==
  {p \in Answered(t) : t.infos[p] # None /\ n \notin Range(Line(t, p))}

CurParent(n, t) == IF t.infos[n] = None THEN None ELSE t.infos[n].parent

\* One step of the scan over the candidates, in key order.
Consider(n, t, cost, best, p) ==
  LET here == [root   |-> RootOf(t, p),
               parent |-> p,
               cost   |-> Sat(Len(Line(t, p)) - 1, KeyCost(n, cost, p))]
      cheaper == \/ t.refresh /\ Sat(here.cost, 2) < best.cost
                 \/ best.parent # CurParent(n, t) /\ here.cost < best.cost
  IN  IF here.root < best.root \/ (here.root = best.root /\ cheaper)
      THEN here ELSE best

Best(n, t, cost) ==
  FoldLeft(LAMBDA best, p : Consider(n, t, cost, best, p),
           Standing(n, t, cost),
           SetToSortSeq(Candidates(n, t), <))

Settled(t) == [t EXCEPT !.refresh = FALSE, !.do_root1 = FALSE, !.do_root2 = FALSE]

\* The info a node makes of the answer of p.
AttachInfo(t, p) == [parent |-> p, res |-> t.responses[p]]

\* use_response succeeds: the announce checks (a child's port is not 0) and
\* beats the node's present info.
Usable(n, t, p) ==
  /\ p \in Answered(t)
  /\ t.responses[p].port # 0
  /\ Adopts(t, n, AttachInfo(t, p))

RootInfo(n, t, nonce) == [parent |-> n, res |-> [req |-> NewReq(n, t, nonce), port |-> 0]]

BecomeRoot(n, t, nonce) ==
  [Update(n, t, n, RootInfo(n, t, nonce)) EXCEPT !.self_refresh_at = now + TREE_REFRESH]

\* fix, up to its trailing send_all_reqs; `asks` says whether that follows.
\* `best` is the outcome of the scan.
Fix(n, t, best, nonce) ==
  LET stir == \/ t.refresh \/ t.do_root1 \/ t.do_root2
              \/ CurParent(n, t) # best.parent
  IN  IF ~stir
      THEN [tree |-> t, asks |-> FALSE]
      ELSE IF best.root # n /\ Usable(n, t, best.parent)
      THEN [tree |-> Settled(Update(n, t, n, AttachInfo(t, best.parent))), asks |-> TRUE]
      ELSE IF t.do_root2
      THEN [tree |-> Settled(BecomeRoot(n, t, nonce)), asks |-> TRUE]
      ELSE [tree |-> [t EXCEPT !.do_root1 = TRUE], asks |-> FALSE]

-----------------------------------------------------------------------------
(* Sends.  Keys are served in order; a write that the transport refuses    *)
(* retires that link and aborts the tick, so only the keys up to `stop`    *)
(* are touched and only those before it are written to.                    *)

Reached(p, stop) == stop = None \/ p <= stop
Written(p, stop) == stop = None \/ p < stop

SendAllReqs(n, t, nonce, stop) ==
  [t EXCEPT !.responses = [p \in Node |-> None],
            !.req = [p \in Node |-> IF p \in linked[n] /\ Reached(p, stop)
                                    THEN NewReq(n, t, nonce[p]) ELSE @[p]]]

\* The keys whose infos p still has to be sent: the node's line, root first,
\* then p's, each key once.
Unsent(n, t, p) ==
  LET s == Reverse(Line(t, n)) \o Reverse(Line(t, p))
  IN  Pick(s, {i \in DOMAIN s : /\ s[i] \notin t.sent[p]
                               /\ \A h \in 1..(i - 1) : s[h] # s[i]})

SendAnnounces(n, t, stop) ==
  [t EXCEPT !.sent = [p \in Node |->
     IF t.port[p] # 0 /\ Reached(p, stop) THEN @[p] \cup Range(Unsent(n, t, p)) ELSE @[p]]]

Announces(t, keys) ==
  [i \in DOMAIN keys |-> [type |-> "Announce", key |-> keys[i], info |-> t.infos[keys[i]]]]

\* n writes frames[p] on its link to each p, in vain when its transport is
\* dead, and drops its end of the links in `gone` with what they hold unread.
Write(n, frames, gone) ==
  chan' = [a \in Node |-> [b \in Node |->
            IF b = n /\ a \in gone THEN <<>>
            ELSE IF a = n /\ {a, b} \in open THEN chan[a][b] \o frames[b]
            ELSE chan[a][b]]]

\* The links whose transport is gone and that n has not noticed yet.
Deaf(n) == {p \in linked[n] : {n, p} \notin open}

\* n ends a tick in state t: the requests if it `asks`, then the announces.
\* `stop` is the key whose link refuses a write, `early` whether it does so on
\* the request or on an announce.
Speak(n, asks, t, stop, early) ==
  LET reqs(p) == IF asks /\ (early => Written(p, stop))
                 THEN <<[type |-> "SigReq", req |-> t.req[p]]>> ELSE <<>>
      anns(p) == IF ~early /\ Written(p, stop)
                 THEN Announces(t, Unsent(n, t, p)) ELSE <<>>
  IN  /\ stop = None => ~early
      /\ stop # None => IF early THEN asks ELSE Unsent(n, t, stop) # <<>>
      /\ tree' = [tree EXCEPT ![n] = IF early THEN t ELSE SendAnnounces(n, t, stop)]
      /\ linked' = [linked EXCEPT ![n] = @ \ {stop}]
      /\ Write(n, [p \in Node |-> IF p \in linked[n] THEN reqs(p) \o anns(p) ELSE <<>>],
               {stop})
      /\ UNCHANGED <<now, open, offered, cuts>>

\* One maintenance tick of n: expire, fix (with its requests), announces.
Maintain(n) ==
  \E cost \in [linked[n] -> Lags], nonce \in [linked[n] \cup {n} -> Nonce],
     stop \in {None} \cup Deaf(n), early \in BOOLEAN, t \in {Expire(n, tree[n])} :
  \E fixed \in {Fix(n, t, Best(n, t, cost), nonce[n])} :
  \E asked \in {IF fixed.asks
                THEN SendAllReqs(n, fixed.tree, nonce, IF early THEN stop ELSE None)
                ELSE fixed.tree} :
    Speak(n, fixed.asks, asked, stop, early)

-----------------------------------------------------------------------------
(* Frames *)

\* n takes the next frame off its link to p and answers with `reply`.  On a
\* dead transport the answer is lost, or refused and the link retired.
Receive(n, p, reply) ==
  \/ /\ chan' = [chan EXCEPT ![p][n] = Tail(@),
                           ![n][p] = IF {n, p} \in open THEN @ \o reply ELSE @]
     /\ UNCHANGED linked
  \/ /\ {n, p} \notin open
     /\ reply # <<>>
     /\ chan' = [chan EXCEPT ![p][n] = <<>>]
     /\ linked' = [linked EXCEPT ![n] = @ \ {p}]

\* serve_links ticks before it reads, and a first tick finds no answers, so
\* it makes the node a root: a node with do_root2 set has read nothing.
Arrived(n, p, type) ==
  /\ ~tree[n].do_root2
  /\ p \in linked[n]
  /\ chan[p][n] # <<>>
  /\ Head(chan[p][n]).type = type

\* Faulty: the answer carries the port that the next new key will get.
HandleRequestNextPort(n, p) ==
  /\ Arrived(n, p, "SigReq")
  /\ Receive(n, p, <<[type |-> "SigRes",
                      res  |-> [req |-> Head(chan[p][n]).req, port |-> tree[n].next_port]]>>)
  /\ UNCHANGED <<now, open, offered, tree, cuts>>

\* A SigReq is answered with the port of the asking key.
HandleRequest(n, p) ==
  /\ Arrived(n, p, "SigReq")
  /\ Receive(n, p, <<[type |-> "SigRes",
                      res  |-> [req |-> Head(chan[p][n]).req, port |-> tree[n].port[p]]]>>)
  /\ UNCHANGED <<now, open, offered, tree, cuts>>

\* Faulty: an answer to a request that was replaced is kept.
AnswerStale(t, p, res) ==
  IF t.responses[p] = None THEN [t EXCEPT !.responses[p] = res] ELSE t

\* A SigRes counts when it answers the open request; the first one is kept.
Answer(t, p, res) ==
  IF t.req[p] = res.req /\ t.responses[p] = None
  THEN [t EXCEPT !.responses[p] = res] ELSE t

HandleResponse(n, p) ==
  /\ Arrived(n, p, "SigRes")
  /\ tree' = [tree EXCEPT ![n] = Answer(@, p, Head(chan[p][n]).res)]
  /\ Receive(n, p, <<>>)
  /\ UNCHANGED <<now, open, offered, cuts>>

\* An Announce is stored if it is fresher than what is known; hearing one's
\* own key this way asks for a refresh.
Learn(n, t, p, key, info) ==
  LET u == Update(n, t, key, info)
  IN  [u EXCEPT !.refresh = @ \/ (Adopts(t, key, info) /\ key = n),
                !.sent[p] = @ \cup {key}]

\* A staler Announce than ours is answered with ours.
Better(t, key, info) ==
  IF Adopts(t, key, info) \/ t.infos[key] = info THEN <<>> ELSE Announces(t, <<key>>)

HandleAnnounce(n, p) ==
  /\ Arrived(n, p, "Announce")
  /\ LET m == Head(chan[p][n])
     IN  /\ tree' = [tree EXCEPT ![n] = Learn(n, @, p, m.key, m.info)]
         /\ Receive(n, p, Better(tree[n], m.key, m.info))
  /\ UNCHANGED <<now, open, offered, cuts>>

-----------------------------------------------------------------------------
(* Links *)

\* A dial or an accept completes its handshake: both ends hold a link.
Open(n, p) ==
  /\ {n, p} \in Edges \ open
  /\ n < p
  /\ offered \cap {<<n, p>>, <<p, n>>} = {}
  /\ p \notin linked[n] /\ n \notin linked[p]
  /\ open' = open \cup {{n, p}}
  /\ offered' = offered \cup {<<n, p>>, <<p, n>>}
  /\ UNCHANGED <<now, linked, chan, tree, cuts>>

\* Faulty: the peer is never entered in the book.
EnlistNobody(n, t, p, nonce) == t

\* Faulty: a known key is given a new port by each link.
EnlistAnew(n, t, p, nonce) ==
  [t EXCEPT !.port[p]   = t.next_port,
            !.next_port = @ + 1,
            !.req[p]    = IF t.port[p] # 0 THEN @ ELSE NewReq(n, t, nonce)]

\* The peer entry register makes: a known key keeps its port and its request.
Enlist(n, t, p, nonce) ==
  IF t.port[p] # 0 THEN t
  ELSE [t EXCEPT !.port[p]   = t.next_port,
                 !.next_port = @ + 1,
                 !.req[p]    = NewReq(n, t, nonce)]

\* Faulty: a new link to a known key starts with nothing.
ReplayNothing(t, p) == {}

\* What register replays to a known key: every announce already sent to it.
Replayable(t, p) == {k \in t.sent[p] : t.infos[k] # None}

\* n registers its new link to p.  The writes can only fail when the
\* transport is gone, and then the link may never enter the set.
Register(n, p) ==
  /\ <<n, p>> \in offered
  /\ offered' = offered \ {<<n, p>>}
  /\ \E nonce \in Nonce, replay \in SetToSeqs(Replayable(tree[n], p)), ok \in BOOLEAN :
       LET t == Enlist(n, tree[n], p, nonce)
       IN  /\ {n, p} \in open => ok
           /\ tree' = [tree EXCEPT ![n] = t]
           /\ linked' = [linked EXCEPT ![n] = IF ok THEN @ \cup {p} ELSE @]
           /\ Write(n, [q \in Node |->
                IF q = p THEN <<[type |-> "SigReq", req |-> t.req[p]]>> \o Announces(t, replay)
                ELSE <<>>], IF ok THEN {} ELSE {p})
  /\ UNCHANGED <<now, open, cuts>>

\* The transport between n and p dies.  Frames that had arrived can still be
\* read, up to the read that fails.
Cut(n, p) ==
  /\ {n, p} \in open
  /\ n < p
  /\ cuts < MaxCuts
  /\ cuts' = cuts + 1
  /\ open' = open \ {{n, p}}
  /\ UNCHANGED <<now, offered, linked, chan, tree>>

\* n notices the dead link when a read from it fails: the set forgets the
\* link, the tree keeps all it knows of the key.
Evict(n, p) ==
  /\ p \in Deaf(n)
  /\ linked' = [linked EXCEPT ![n] = @ \ {p}]
  /\ chan' = [chan EXCEPT ![p][n] = <<>>]
  /\ UNCHANGED <<now, open, offered, tree, cuts>>

Tick ==
  /\ now < MaxTime
  /\ now' = now + 1
  /\ UNCHANGED <<open, offered, linked, chan, tree, cuts>>

-----------------------------------------------------------------------------
\* n reads whatever frame comes next on its link to p.
ReadFrame(n, p) == HandleRequest(n, p) \/ HandleResponse(n, p) \/ HandleAnnounce(n, p)

Next ==
  \/ \E n \in Node : Maintain(n)
  \/ \E n, p \in Node :
       \/ HandleRequest(n, p)
       \/ HandleResponse(n, p)
       \/ HandleAnnounce(n, p)
       \/ Open(n, p)
       \/ Register(n, p)
       \/ Cut(n, p)
       \/ Evict(n, p)
  \/ Tick

Spec == Init /\ [][Next]_vars

\* The serve loop ticks every second and polls every link, a completed
\* handshake is handed to the node, and a redial keeps a configured link up.
Fairness ==
  /\ \A n \in Node : WF_vars(Maintain(n))
  /\ \A n, p \in Node :
       {n, p} \in Edges => /\ WF_vars(ReadFrame(n, p))
                          /\ WF_vars(Open(n, p))
                          /\ WF_vars(Register(n, p))
                          /\ WF_vars(Evict(n, p))
  /\ WF_vars(Tick)

FairSpec == Spec /\ Fairness

-----------------------------------------------------------------------------
(* Properties *)

TreeType ==
  [ port            : [Node -> Nat],
    req             : [Node -> SigReq \cup {None}],
    infos           : [Node -> Info \cup {None}],
    deadlines       : [Node -> Nat],
    responses       : [Node -> SigRes \cup {None}],
    sent            : [Node -> SUBSET Node],
    next_port       : Nat \ {0},
    refresh         : BOOLEAN,
    do_root1        : BOOLEAN,
    do_root2        : BOOLEAN,
    self_refresh_at : Nat \cup {None} ]

\* Every variable keeps its type, and only a registered key is linked.
TypeOK ==
  /\ now \in Nat
  /\ open \subseteq Edges
  /\ offered \subseteq Node \X Node
  /\ linked \in [Node -> SUBSET Node]
  /\ chan \in [Node -> [Node -> Seq(Msg)]]
  /\ tree \in [Node -> TreeType]
  /\ cuts \in Nat
  /\ \A n \in Node : \A p \in linked[n] : tree[n].port[p] # 0

\* An info of key k carries the port its parent's book gives k, or 0 for a root.
Vouched(books, k, info) ==
  IF info.parent = k THEN info.res.port = 0
  ELSE /\ info.res.port # 0
       /\ info.res.port = books[info.parent].port[k]

\* PortsAgree: whatever any router believes about any key, the port in it is
\* the one the parent's own book still assigns to that key.  Routing by
\* coordinates rests on it: a coordinate is a list of those ports, and each
\* router on the way reads the next one out of its own book.
PortsAgree ==
  \A n, k \in Node : tree[n].infos[k] # None => Vouched(tree, k, tree[n].infos[k])

\* SiblingsDiffer: two keys under one parent have different ports in every
\* router's view, so that no coordinate names two nodes.
SiblingsDiffer ==
  \A n, j, k \in Node :
    LET a == tree[n].infos[j]
        b == tree[n].infos[k]
    IN  (a # None /\ b # None /\ j # k /\ a.parent = b.parent)
          => a.res.port # b.res.port

\* AnswersAreCurrent: a kept answer is always to the request that is open now,
\* also when answers to requests replaced meanwhile arrive after a reconnect.
AnswersAreCurrent ==
  \A n, p \in Node :
    tree[n].responses[p] # None => tree[n].responses[p].req = tree[n].req[p]

AsFresh(a, b) == a = b \/ Fresher(a, b)

\* OwnInfoFreshest: until an info can expire, nobody holds a fresher info of a
\* key than the key's own router, so nothing heard can override what a node
\* decided about itself.
OwnInfoFreshest ==
  now < TREE_REFRESH =>
    \A n, k \in Node :
      tree[n].infos[k] # None =>
        tree[k].infos[k] # None /\ AsFresh(tree[k].infos[k], tree[n].infos[k])

InFlight(n, p, k, info) ==
  \E i \in DOMAIN chan[n][p] :
    /\ chan[n][p][i].type = "Announce"
    /\ chan[n][p][i].key = k
    /\ AsFresh(chan[n][p][i].info, info)

\* SentMeansDelivered: until an info can expire, a key n has ticked off for p
\* over a live link is one p knows at least as well as n, or will once it has
\* read its link.  The sent sets are marked before the write, survive a link's
\* death and are replayed on the next link; this is what that must add up to.
SentMeansDelivered ==
  now < TREE_REFRESH =>
    \A n, p \in Node :
      {n, p} \in open /\ p \in linked[n] =>
        \A k \in tree[n].sent[p] :
          tree[n].infos[k] # None =>
            \/ /\ tree[p].infos[k] # None
               /\ AsFresh(tree[p].infos[k], tree[n].infos[k])
            \/ InFlight(n, p, k, tree[n].infos[k])

Lowest == CHOOSE n \in Node : \A m \in Node : n <= m

\* Converges: on a connected network whose links stay up, every router ends
\* up on the tree of the lowest key for good.
Converges == <>[](\A n \in Node : RootOf(tree[n], n) = Lowest)

\* Reannounces: a router without an info of its own gets one again.
Reannounces ==
  \A n \in Node : tree[n].infos[n] = None ~> tree[n].infos[n] # None
=============================================================================
