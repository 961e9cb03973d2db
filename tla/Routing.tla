------------------------------ MODULE Routing ------------------------------
(***************************************************************************)
(* How roots finds a node and carries its traffic: src/src/pathfind.rs,     *)
(* src/src/traffic.rs, src/src/bloom.rs and the part of src/src/driver.rs   *)
(* that feeds them.                                                         *)
(*                                                                         *)
(* A lookup is flooded over the tree as far as the bloom filters allow; the *)
(* node it is for answers with a signed notify that carries its coordinates *)
(* and travels greedily back to the asker's; traffic then carries those     *)
(* coordinates and travels greedily too, and a router that gets stuck       *)
(* reports the path broken.                                                 *)
(*                                                                         *)
(* Tree.tla models how the tree comes about.  Here it is given: Move and    *)
(* Hear change a router's infos as announces would, in any order.  A port   *)
(* is named by the child it leads to, which Tree shows to be sound: within  *)
(* a parent they differ, and all routers agree on them (SiblingsDiffer,     *)
(* PortsAgree), and there is one link per pair.  Address.tla models the keys *)
(* behind an address: a node is named by its key in full, and a lookup and   *)
(* its rumor carry whatever key they were made from.  Session.tla models the *)
(* sessions; here a payload carries the number of times it was sealed.       *)
(***************************************************************************)
EXTENDS Address, Sequences, FiniteSets, SequencesExt, Subsequences

CONSTANTS
  Node,
  PubKey,         \* PubKey[n]: the key of n
  Edges,          \* the pairs that may be linked
  Home,           \* the tree at the start: Home[k] is the parent of k
  Routes,         \* who may send to whom
  Parents,        \* Parents[k]: the parents k may attach to (k itself: a root)
  Top,            \* u64::MAX, the watermark a frame starts with
  PATH_TIMEOUT,
  CAPACITY,       \* of the on_tree table
  Bits(_),        \* Bits(x): the bits of a filter that stand for the transformed key x
  Worlds,         \* sets of things that may happen; Init chooses one
  MaxTime, MaxMoves, MaxSends, MaxCuts,   \* bounds on the clock, tree moves,
                                          \* payloads and lost links
  MaxHops,        \* bound: how far a frame may travel in the model
  None

\* The transformed key of a node; no two nodes share one.
XOf == [n \in Node |-> XKey[PubKey[n]]]

ASSUME RoutingAssumption ==
  /\ IsFiniteSet(Node)
  /\ None \notin Node
  /\ None \notin BOOLEAN
  /\ PubKey \in [Node -> PublicKey]
  /\ XOf \in Injection(Node, PublicKey)
  /\ \A e \in Edges : e \subseteq Node
  /\ Home \in [Node -> Node]
  /\ Parents \in [Node -> SUBSET Node]
  /\ Routes \subseteq Node \X Node
  /\ \A x \in PublicKey : Bits(x) # {}
  /\ \A filter \in SUBSET UNION {Bits(x) : x \in PublicKey} : filter # None
  /\ {Top, PATH_TIMEOUT, CAPACITY, MaxTime, MaxMoves, MaxSends, MaxCuts, MaxHops} \subseteq Nat

VARIABLES
  clock,    \* seconds; PATH_THROTTLE is one
  linked,   \* linked[n]: the keys in n's LinkSet
  chan,     \* chan[n][p]: frames n wrote to p, not yet read
  infos,    \* infos[n][k]: the parent of k, as n knows it
  paths,    \* PathState
  blooms,   \* BloomState
  sess,     \* sess[n]: the keys n has a session with
  got,      \* got[n]: payloads delivered to the session layer of n
  env, moves, sends, cuts   \* what may happen, and how often it has

vars == <<clock, linked, chan, infos, paths, blooms, sess, got, env, moves, sends, cuts>>

\* PathState: learned paths, lookups under way (by transformed key), and our
\* own latest notify.
DefaultPaths ==
  [ entries |-> [k \in Node |-> None],
    rumors  |-> [x \in {} |-> None],
    notify  |-> [seq |-> 0, path |-> <<>>] ]

\* BloomState.  A key that is not a peer has None everywhere.
DefaultBlooms ==
  [ send    |-> [k \in Node |-> None],
    recv    |-> [k \in Node |-> None],
    on_tree |-> [k \in Node |-> None] ]

-----------------------------------------------------------------------------
(* Coordinates *)

\* root_path_for: the ports from the root down to k, if the infos reach it.
RootPath(info, k) ==
  LET N == Cardinality(Node)
      up[m \in 0 .. N] ==
        IF m = 0 THEN k
        ELSE IF up[m - 1] = None THEN None ELSE info[up[m - 1]]
      root(m) == up[m] # None /\ info[up[m]] = up[m]
      depth == CHOOSE m \in 0 .. N : root(m) /\ \A j \in 0 .. (m - 1) : ~root(j)
  IN  IF \E m \in 0 .. N : root(m)
      THEN [i \in 1 .. depth |-> up[depth - i]]
      ELSE None

\* Home is a tree: everybody has coordinates in it.
ASSUME HomeAssumption == \A k \in Node : RootPath(Home, k) # None

\* root_path().unwrap_or_default()
Coords(n) == IF RootPath(infos[n], n) = None THEN <<>> ELSE RootPath(infos[n], n)

\* coords_dist: the hops between two coordinates, over the tree.
Common(a, b) ==
  {i \in 1 .. Len(a) : i <= Len(b) /\ \A j \in 1 .. i : a[j] = b[j]}

Dist(a, b) == Len(a) + Len(b) - 2 * Cardinality(Common(a, b))

-----------------------------------------------------------------------------
(* Greedy forwarding *)

\* The peers strictly nearer to `path' than `bound'.
Nearer(n, path, bound) ==
  {k \in linked[n] : /\ RootPath(infos[n], k) # None
                     /\ bound # None => Dist(path, RootPath(infos[n], k)) < bound}

OwnDist(n, path) ==
  IF RootPath(infos[n], n) = None THEN None ELSE Dist(path, RootPath(infos[n], n))

\* The next hops greedy_next may choose: none, unless this router is nearer
\* than every router before it.  A router without coordinates of its own
\* skips that test and takes any peer that has some.
NextHops(n, path, mark) ==
  IF OwnDist(n, path) # None /\ OwnDist(n, path) >= mark THEN {}
  ELSE Nearer(n, path, OwnDist(n, path))

\* Which of them has the least cost x distance depends on the lags; `fav' is
\* the peer with by far the lowest one.
Choice(hops, fav) == IF fav \in hops THEN fav ELSE CHOOSE k \in hops : TRUE

\* Mutant: the watermark is not lowered.
OnwardUnmarked(n, way) ==
  LET d == OwnDist(n, way.path) IN
  [way EXCEPT !.hops  = @ + 1,
              !.start = IF way.hops = 0 /\ d # None THEN d + 1 ELSE @,
              !.blind = @ \/ d = None]

\* The frame as it leaves: our distance is the new watermark.  hops, start
\* and blind are history: the forwards so far, the distance it set out with,
\* and whether a router without coordinates passed it on.
Onward(n, way) ==
  LET d == OwnDist(n, way.path) IN
  [way EXCEPT !.mark  = IF d = None THEN @ ELSE d,
              !.hops  = @ + 1,
              !.start = IF way.hops = 0 /\ d # None THEN d + 1 ELSE @,
              !.blind = @ \/ d = None]

Forwarded(n, f) == [f EXCEPT !.way = Onward(n, @)]

-----------------------------------------------------------------------------
(* The frames of this layer.                                                 *)

\* What greedy forwarding reads and writes, as a frame is made.
Routed(path) ==
  [path |-> path, mark |-> Top, hops |-> 0, start |-> Top, blind |-> FALSE]

\* `trail' is history: the routers that sent the lookup on.
PathLookup(source, dest, from) ==
  [type |-> "Lookup", source |-> source, dest |-> dest, from |-> from, trail |-> <<source>>]

\* Signed by its owner, so that nobody else can make one.
NotifyInfo(seq, path) == [seq |-> seq, path |-> path]

PathNotify(path, source, dest, info) ==
  [type |-> "Notify", source |-> source, dest |-> dest, info |-> info, way |-> Routed(path)]

PathBroken(path, source, dest) ==
  [type |-> "Broken", source |-> source, dest |-> dest, way |-> Routed(path)]

Traffic(path, from, source, dest, data) ==
  [type |-> "Traffic", from |-> from, source |-> source, dest |-> dest, data |-> data,
   way |-> Routed(path)]

Bloom(filter) == [type |-> "Bloom", filter |-> filter]

\* BloomFilter: keys share bits, so a filter may answer for a key that was
\* never added.
Add(filter, x) == filter \cup Bits(x)

Test(filter, x) == Bits(x) \subseteq filter

Merge(filters) == UNION filters

-----------------------------------------------------------------------------
(* A handler works on the router's own state and the frames it writes.       *)

Turn(n) ==
  [p |-> paths[n], b |-> blooms[n], out |-> [k \in Node |-> <<>>], got |-> got[n], sess |-> sess]

Emit(r, k, f) == [r EXCEPT !.out[k] = Append(@, f)]

\* multicast: one packet to every interested peer on the tree but the one it
\* came from.
Audience(n, b, from, x) ==
  {k \in linked[n] \ {from} : b.on_tree[k] = TRUE /\ Test(b.recv[k], x)}

Multicast(n, r, from, f) ==
  LET to == Audience(n, r.b, from, XKey[f.dest]) IN
  [r EXCEPT !.out = [k \in Node |-> IF k \in to THEN Append(@[k], f) ELSE @[k]]]

\* RumorEntry: the entry of a key, or a new one.  The key is the one that was
\* asked for first; a notify finds the entry by the transformed key alone.
Rumor(r, key) ==
  IF XKey[key] \in DOMAIN r.p.rumors THEN r.p.rumors[XKey[key]]
  ELSE [ dest |-> key, send_at |-> None, deadline |-> clock + PATH_TIMEOUT,
         pending |-> None, is_app |-> FALSE ]

PutRumor(r, key, rumor) ==
  [r EXCEPT !.p.rumors = [x \in DOMAIN @ \cup {XKey[key]} |->
                            IF x = XKey[key] THEN rumor ELSE @[x]]]

\* A lookup for the rumor goes out now.
Asked(rumor) == [rumor EXCEPT !.send_at = clock, !.deadline = clock + PATH_TIMEOUT]

\* rumor_lookup, with send_lookup: at most one lookup a second for a key.  A
\* router does not look itself up, so handle_lookup only multicasts here.
RumorLookup(n, r, key) ==
  IF Rumor(r, key).send_at = clock THEN r
  ELSE Multicast(n, PutRumor(r, key, Asked(Rumor(r, key))), n, PathLookup(n, key, Coords(n)))

\* hold_for_lookup: an application payload waits for the notify.
HoldForLookup(n, r, key, data) ==
  RumorLookup(n, PutRumor(r, key, [Rumor(r, key) EXCEPT !.pending = data, !.is_app = TRUE]), key)

\* route_traffic: traffic of our own that has no next hop is dropped.
RouteTraffic(n, r, f, fav) ==
  LET hops == NextHops(n, f.way.path, f.way.mark) IN
  IF hops = {} THEN r ELSE Emit(r, Choice(hops, fav), Forwarded(n, f))

\* pathfinder_send: a sealed payload leaves on a path that is not broken, or
\* waits behind a lookup.
PathfinderSend(n, r, d, data, fav) ==
  LET e == r.p.entries[d] IN
  IF e # None /\ ~e.broken
  THEN RouteTraffic(n, r, Traffic(e.path, Coords(n), n, d, data), fav)
  ELSE [RumorLookup(n, r, PubKey[d]) EXCEPT !.p.rumors[XOf[d]].pending = data]

\* session_send on an open session.
SessionSend(n, r, d, data, fav) ==
  PathfinderSend(n, r, d, [data EXCEPT !.seals = @ + 1], fav)

-----------------------------------------------------------------------------
(* Frames *)

\* Mutant: the payload stays held.
FlushKeeps(n, r, d, fav) ==
  LET held == Rumor(r, PubKey[d]) IN
  IF held.pending = None THEN r
  ELSE IF held.is_app THEN SessionSend(n, r, d, held.pending, fav)
  ELSE PathfinderSend(n, r, d, held.pending, fav)

\* What waited for a path to d leaves, once, through its own layer.
Flush(n, r, d, fav) ==
  LET held == Rumor(r, PubKey[d])
      taken == [r EXCEPT !.p.rumors[XOf[d]].pending = None]
  IN  IF held.pending = None THEN r
      ELSE IF held.is_app THEN SessionSend(n, taken, d, held.pending, fav)
      ELSE PathfinderSend(n, taken, d, held.pending, fav)

News(e, f) == f.info.seq > e.seq /\ f.info.path # e.path

\* handle_notify: pass it on, or take the path in if it is for us, newer than
\* what we have, and either known or asked for.
HandleNotify(n, r, f, fav) ==
  LET hops == NextHops(n, f.way.path, f.way.mark)
      e == r.p.entries[f.source]
      new == [path |-> f.info.path, seq |-> f.info.seq, broken |-> FALSE,
              deadline |-> clock + PATH_TIMEOUT]
  IN  IF hops # {} THEN Emit(r, Choice(hops, fav), Forwarded(n, f))
      ELSE IF f.dest # n THEN r
      ELSE IF (IF e # None THEN News(e, f) ELSE XOf[f.source] \in DOMAIN r.p.rumors)
      THEN Flush(n, [r EXCEPT !.p.entries[f.source] = new], f.source, fav)
      ELSE r

\* Mutant: the node that is looked for does not answer when it passes the
\* lookup on.
HandleLookupMute(n, r, from, f, fav) ==
  Multicast(n, r, from, [f EXCEPT !.trail = Append(@, n)])

\* handle_lookup: flood it on, and answer it if it is for us.
HandleLookup(n, r, from, f, fav) ==
  LET r1 == Multicast(n, r, from, [f EXCEPT !.trail = Append(@, n)])
      info == NotifyInfo(clock, Coords(n))
  IN  IF XKey[f.dest] # XOf[n] THEN r1
      ELSE HandleNotify(n, [r1 EXCEPT !.p.notify = info],
             PathNotify(f.from, n, f.source, info), fav)

\* handle_broken: pass it on, or mark the path and look again.
HandleBroken(n, r, f, fav) ==
  LET hops == NextHops(n, f.way.path, f.way.mark) IN
  IF hops # {} THEN Emit(r, Choice(hops, fav), Forwarded(n, f))
  ELSE IF f.source = n /\ r.p.entries[f.dest] # None
  THEN RumorLookup(n, [r EXCEPT !.p.entries[f.dest].broken = TRUE], PubKey[f.dest])
  ELSE r

\* handle_session_bytes opens what was sealed once and drops the rest; the
\* first exchange leaves a session at both ends.
Deliver(n, r, f) ==
  IF f.data.seals # 1 THEN r
  ELSE [r EXCEPT !.got = Append(@, f.data.id),
                 !.sess[n] = @ \cup {f.source},
                 !.sess[f.source] = @ \cup {n}]

\* handle_inbound_traffic: pass it on, take it, or report the path broken.
HandleTraffic(n, r, f, fav) ==
  LET hops == NextHops(n, f.way.path, f.way.mark)
      e == r.p.entries[f.source]
      fresh == IF e = None \/ e.broken THEN r
               ELSE [r EXCEPT !.p.entries[f.source].deadline = clock + PATH_TIMEOUT]
  IN  IF hops # {} THEN Emit(r, Choice(hops, fav), Forwarded(n, f))
      ELSE IF f.dest = n THEN Deliver(n, fresh, f)
      ELSE HandleBroken(n, r, PathBroken(f.from, f.source, f.dest), fav)

-----------------------------------------------------------------------------
(* Bloom filters *)

\* bloom_add_peer: the on-tree table takes no more than CAPACITY keys.
AddPeer(b, p) ==
  [ send    |-> [b.send EXCEPT ![p] = IF @ = None THEN {} ELSE @],
    recv    |-> [b.recv EXCEPT ![p] = IF @ = None THEN {} ELSE @],
    on_tree |-> [b.on_tree EXCEPT ![p] =
                   IF @ = None /\ Cardinality({k \in Node : b.on_tree[k] # None}) < CAPACITY
                   THEN FALSE ELSE @] ]

\* Mutant: every peer counts as a tree neighbour.
BloomFixAll(n, b) ==
  IF infos[n][n] = None THEN b
  ELSE [b EXCEPT !.on_tree = [k \in Node |-> IF @[k] = None THEN None ELSE TRUE]]

\* bloom_fix: the tree neighbours among the tracked keys.  One that left the
\* tree is recorded as having been sent a blank filter.
BloomFix(n, b) ==
  IF infos[n][n] = None THEN b
  ELSE LET on(k) == infos[n][n] = k \/ infos[n][k] = n IN
       [b EXCEPT !.on_tree = [k \in Node |-> IF @[k] = None THEN None ELSE on(k)],
                 !.send = [k \in Node |-> IF b.on_tree[k] = TRUE /\ ~on(k) THEN {} ELSE @[k]]]

\* Mutant: what was heard is not passed on.
BloomForOwn(n, b, p) == Merge({Add({}, XOf[n]), b.send[p]})

\* bloom_for: our key, what the other tree neighbours told us, and what we
\* told this one before.
BloomFor(n, b, p) ==
  Merge({Add({}, XOf[n]), b.send[p]} \cup {b.recv[k] : k \in {k \in Node \ {p} : b.on_tree[k] = TRUE}})

\* Mutant: a filter is recorded as sent but not written.
BloomFramesNone(n, b, p) == <<>>

\* The filter bloom_maintenance writes to p, if it differs from the last one.
BloomFrames(n, b, p) ==
  IF b.on_tree[p] = TRUE /\ b.send[p] # BloomFor(n, b, p)
  THEN <<Bloom(BloomFor(n, b, p))>>
  ELSE <<>>

\* bloom_maintenance: the record is kept whether or not there is a link.
BloomMaintenance(n, r) ==
  LET b == BloomFix(n, r.b) IN
  [r EXCEPT !.b = [b EXCEPT !.send = [p \in Node |-> IF b.on_tree[p] = TRUE
                                                     THEN BloomFor(n, b, p) ELSE @[p]]],
            !.out = [p \in Node |-> IF p \in linked[n] THEN @[p] \o BloomFrames(n, b, p) ELSE @[p]]]

\* bloom_handle: only a peer's filter is kept.
HandleBloom(r, from, f) ==
  [r EXCEPT !.b.recv[from] = IF @ = None THEN None ELSE f.filter]

-----------------------------------------------------------------------------
(* Actions *)

\* The router n ends a step in r; `read' is the link a frame was taken from.
Step(n, r, read) ==
  /\ paths' = [paths EXCEPT ![n] = r.p]
  /\ blooms' = [blooms EXCEPT ![n] = r.b]
  /\ got' = [got EXCEPT ![n] = r.got]
  /\ sess' = r.sess
  /\ chan' = [k \in Node |-> [p \in Node |->
                IF k = n THEN chan[k][p] \o r.out[p]
                ELSE IF k = read /\ p = n THEN Tail(chan[k][p])
                ELSE chan[k][p]]]

\* dispatch_frame, for the frames of this layer.
Dispatch(n, r, from, f, fav) ==
  IF f.type = "Bloom" THEN HandleBloom(r, from, f)
  ELSE IF f.type = "Lookup" THEN HandleLookup(n, r, from, f, fav)
  ELSE IF f.type = "Notify" THEN HandleNotify(n, r, f, fav)
  ELSE IF f.type = "Broken" THEN HandleBroken(n, r, f, fav)
  ELSE HandleTraffic(n, r, f, fav)

InBounds(f) ==
  /\ f.type = "Lookup" => Len(f.trail) <= MaxHops
  /\ f.type \in {"Notify", "Broken", "Traffic"} => f.way.hops <= MaxHops

Read(n, p) ==
  /\ p \in linked[n]
  /\ chan[p][n] # <<>>
  /\ InBounds(Head(chan[p][n]))
  /\ \E fav \in linked[n] : Step(n, Dispatch(n, Turn(n), p, Head(chan[p][n]), fav), p)
  /\ UNCHANGED <<clock, linked, infos, env, moves, sends, cuts>>

\* expire_ephemeral
Expire(p) ==
  [p EXCEPT !.entries = [k \in Node |-> IF @[k] # None /\ @[k].deadline <= clock THEN None ELSE @[k]],
            !.rumors = Restrict(@, {x \in DOMAIN @ : @[x].deadline > clock})]

\* The lookups maintain repeats: something waits, there is no path yet, and
\* none went out this second.
Unresolved(p) ==
  {x \in DOMAIN p.rumors : /\ p.rumors[x].pending # None
                           /\ \A k \in Node : p.entries[k] # None => XOf[k] # x
                           /\ p.rumors[x].send_at # clock}

\* rumor_lookup for each of them, in the order s the table has them.
LookAgain(n, r, s) ==
  LET dest(x) == r.p.rumors[x].dest
      to(k) == {i \in DOMAIN s : k \in Audience(n, r.b, n, XKey[dest(s[i])])}
      lookups(t) == [i \in DOMAIN t |-> PathLookup(n, dest(t[i]), Coords(n))]
  IN  [r EXCEPT !.p.rumors = [x \in DOMAIN @ |-> IF x \in Range(s) THEN Asked(@[x]) ELSE @[x]],
                !.out = [k \in Node |-> @[k] \o lookups(Pick(s, to(k)))]]

\* The part of the tick that follows the tree's.
Maintain(n) ==
  /\ LET r == BloomMaintenance(n, Turn(n))
         e == [r EXCEPT !.p = Expire(@)]
     IN  \E s \in SetToSeqs(Unresolved(e.p)) : Step(n, LookAgain(n, e, s), None)
  /\ UNCHANGED <<clock, linked, infos, env, moves, sends, cuts>>

\* The addresses of a node: its own, and every host of its subnet.
AddressesOf == [d \in Node |-> {a \in Address : Owns(PubKey[d], a)}]

\* The ones packets are for: hosts of a subnet where there are such.
InUse(d) == {a \in AddressesOf[d] : IsSubnet(a) <=> "subnet" \in env}

\* Router::key_for_addr: a path or a session has named a key that owns it.
KeysFor(n, a) ==
  {k \in Node : (paths[n].entries[k] # None \/ k \in sess[n]) /\ a \in AddressesOf[k]}

\* send_or_resolve to an address of d, its own or one of its subnet: with a key
\* the packet is sent, otherwise it is held.  `to' is history.
SendOrResolve(n, d) ==
  /\ "app" \in env
  /\ sends < MaxSends
  /\ n # d
  /\ linked[n] # {}
  /\ sends' = sends + 1
  /\ \E fav \in linked[n], a \in InUse(d) :
       LET data == [id |-> sends + 1, to |-> d, seals |-> 0] IN
       Step(n, IF KeysFor(n, a) = {}
               THEN HoldForLookup(n, Turn(n), LookupKeyForAddr(a), data)
               ELSE SessionSend(n, Turn(n), CHOOSE k \in KeysFor(n, a) : TRUE, data, fav), None)
  /\ UNCHANGED <<clock, linked, infos, env, moves, cuts>>

\* session_send to a full key, from the outbox.
SendToKey(n, d) ==
  /\ "key" \in env
  /\ sends < MaxSends
  /\ n # d
  /\ sends' = sends + 1
  /\ \E fav \in linked[n] :
       Step(n, SessionSend(n, Turn(n), d, [id |-> sends + 1, to |-> d, seals |-> 0], fav), None)
  /\ UNCHANGED <<clock, linked, infos, env, moves, cuts>>

\* A router attaches elsewhere, or loses its own info.
Move(k) ==
  /\ moves < MaxMoves
  /\ moves' = moves + 1
  /\ \E p \in (IF "move" \in env THEN Parents[k] ELSE {})
              \cup (IF "blind" \in env THEN {None} ELSE {}) :
       /\ p # infos[k][k]
       /\ infos' = [infos EXCEPT ![k][k] = p]
  /\ UNCHANGED <<clock, linked, chan, paths, blooms, sess, got, env, sends, cuts>>

\* Another router hears of it.
Hear(n, k) ==
  /\ infos[k][k] # None
  /\ infos[n][k] # infos[k][k]
  /\ infos' = [infos EXCEPT ![n][k] = infos[k][k]]
  /\ UNCHANGED <<clock, linked, chan, paths, blooms, sess, got, env, moves, sends, cuts>>

\* Both ends register a new link: the other one is sent the filter it was
\* last sent, or an empty one.
Connect(n, p) ==
  /\ {n, p} \in Edges
  /\ n # p
  /\ p \notin linked[n]
  /\ linked' = [linked EXCEPT ![n] = @ \cup {p}, ![p] = @ \cup {n}]
  /\ LET nb == AddPeer(blooms[n], p)
         pb == AddPeer(blooms[p], n)
     IN  /\ blooms' = [blooms EXCEPT ![n] = nb, ![p] = pb]
         /\ chan' = [chan EXCEPT ![n][p] = <<Bloom(nb.send[p])>>,
                                 ![p][n] = <<Bloom(pb.send[n])>>]
  /\ UNCHANGED <<clock, infos, paths, sess, got, env, moves, sends, cuts>>

\* A link dies with what was under way on it; the books stay.
Cut(n, p) ==
  /\ "cut" \in env
  /\ cuts < MaxCuts
  /\ p \in linked[n]
  /\ cuts' = cuts + 1
  /\ linked' = [linked EXCEPT ![n] = @ \ {p}, ![p] = @ \ {n}]
  /\ chan' = [chan EXCEPT ![n][p] = <<>>, ![p][n] = <<>>]
  /\ UNCHANGED <<clock, infos, paths, blooms, sess, got, env, moves, sends>>

\* A router starts anew, without links and without memory.
Restart(n) ==
  /\ "restart" \in env
  /\ cuts < MaxCuts
  /\ cuts' = cuts + 1
  /\ linked' = [k \in Node |-> IF k = n THEN {} ELSE linked[k] \ {n}]
  /\ chan' = [k \in Node |-> [p \in Node |-> IF n \in {k, p} THEN <<>> ELSE chan[k][p]]]
  /\ paths' = [paths EXCEPT ![n] = DefaultPaths]
  /\ blooms' = [blooms EXCEPT ![n] = DefaultBlooms]
  /\ sess' = [sess EXCEPT ![n] = {}]
  /\ UNCHANGED <<clock, infos, got, env, moves, sends>>

Tick ==
  /\ "time" \in env
  /\ clock < MaxTime
  /\ clock' = clock + 1
  /\ UNCHANGED <<linked, chan, infos, paths, blooms, sess, got, env, moves, sends, cuts>>

-----------------------------------------------------------------------------
(* Where it starts: cold, or with every link up and every filter settled.    *)

Peers(n) == {p \in Node : p # n /\ {n, p} \in Edges}

TreePeers(tree, n) == {p \in Peers(n) : tree[n] = p \/ tree[p] = n}

\* The keys on p's side of its tree link to n.
Behind(tree, n, p) ==
  LET below(k) == {j \in Node : j = k \/ k \in Range(RootPath(tree, j))} IN
  IF tree[p] = n THEN below(p) ELSE Node \ below(n)

SettledBlooms(n) ==
  LET known(on(_)) == [p \in Node |-> IF p \in TreePeers(Home, n) THEN on(p)
                                      ELSE IF p \in Peers(n) THEN {} ELSE None]
      filter(keys) == Merge({Add({}, XOf[k]) : k \in keys})
  IN  [ send    |-> known(LAMBDA p : filter(Behind(Home, p, n))),
        recv    |-> known(LAMBDA p : filter(Behind(Home, n, p))),
        on_tree |-> [p \in Node |-> IF p \in Peers(n) THEN p \in TreePeers(Home, n) ELSE None] ]

Init ==
  /\ env \in Worlds
  /\ clock = 0
  /\ linked = [n \in Node |-> IF "cold" \in env THEN {} ELSE Peers(n)]
  /\ chan = [n \in Node |-> [p \in Node |-> <<>>]]
  /\ infos = [n \in Node |-> Home]
  /\ paths = [n \in Node |-> DefaultPaths]
  /\ blooms = [n \in Node |-> IF "cold" \in env THEN DefaultBlooms ELSE SettledBlooms(n)]
  /\ sess = [n \in Node |-> {}]
  /\ got = [n \in Node |-> <<>>]
  /\ moves = 0
  /\ sends = 0
  /\ cuts = 0

Next ==
  \/ \E n, p \in Node :
       \/ Read(n, p)
       \/ Hear(n, p)
       \/ Connect(n, p)
       \/ Cut(n, p)
  \/ \E route \in Routes : SendOrResolve(route[1], route[2]) \/ SendToKey(route[1], route[2])
  \/ \E n \in Node : Maintain(n) \/ Move(n) \/ Restart(n)
  \/ Tick

Spec == Init /\ [][Next]_vars

-----------------------------------------------------------------------------
(* Properties *)

Frames == UNION {Range(chan[n][p]) : n, p \in Node}

IsRouted(f) == f.type \in {"Notify", "Broken", "Traffic"}

\* However the tree moves under it and whatever stale infos its way leads
\* past, a notify, a report or a payload makes no more hops than its first
\* router was away from its destination, plus one: every router that passes it
\* on has to be strictly nearer (greedy_next).  A router without coordinates
\* of its own makes no such test, and a frame it passed on is excused.
LoopFree ==
  \A f \in Frames :
    IsRouted(f) /\ ~f.way.blind => f.way.hops + f.way.mark <= f.way.start

Held(id) ==
  UNION {{<<n, x>> : x \in {x \in DOMAIN paths[n].rumors :
                              /\ paths[n].rumors[x].pending # None
                              /\ paths[n].rumors[x].pending.id = id}} : n \in Node}

Flying(id) ==
  UNION {{<<n, p, i>> : i \in {i \in DOMAIN chan[n][p] :
                                 chan[n][p][i].type = "Traffic" /\ chan[n][p][i].data.id = id}} :
         n, p \in Node}

Delivered(id) == UNION {{<<n, i>> : i \in {i \in DOMAIN got[n] : got[n][i] = id}} : n \in Node}

\* A payload that was handed over is in one place at most: held in one slot,
\* in one frame, or delivered once.  Several notifies may answer one lookup,
\* and only the first may find it held (handle_notify takes the slot).
OneCopy ==
  \A id \in 1 .. sends :
    Cardinality(Held(id)) + Cardinality(Flying(id)) + Cardinality(Delivered(id)) <= 1

\* While the tree stands still, a lookup passes no router twice (multicast
\* carries no hop count; that the tree has no cycle is all that ends it).
LookupOnce ==
  moves = 0 => \A f \in Frames : f.type = "Lookup" =>
                 \A i, j \in DOMAIN f.trail : f.trail[i] = f.trail[j] => i = j

Quiet == \A n, p \in Node : chan[n][p] = <<>>

\* While the tree stands still and the links are up, a lookup that has run its
\* course has found its target: flood, answer and greedy way back fit together.
Found ==
  (Quiet /\ moves = 0 /\ cuts = 0 /\ "cold" \notin env) =>
    \A n \in Node : \A x \in DOMAIN paths[n].rumors :
      \E d \in Node : XOf[d] = x /\ paths[n].entries[d] # None

\* A payload waits under the transformed key of the node whose address it was
\* given, and travels to that node: the key it was looked up under, lossy as it
\* is, led to no other node and to no rumor that nobody will answer
\* (send_or_resolve, hold_for_lookup, handle_notify).
ToOwner ==
  /\ \A n \in Node : \A x \in DOMAIN paths[n].rumors :
       LET data == paths[n].rumors[x].pending IN data # None => XOf[data.to] = x
  /\ \A f \in Frames : f.type = "Traffic" => f.dest = f.data.to

\* What a router has recorded as sent to a tree neighbour is what that one
\* holds of it, or will once it has read its link, through lost links,
\* restarts and tree moves (bloom_maintenance writes only what changed).
LastBloom(n, p) ==
  LET I == {i \in DOMAIN chan[n][p] : chan[n][p][i].type = "Bloom"} IN
  IF I = {} THEN blooms[p].recv[n]
  ELSE chan[n][p][CHOOSE i \in I : \A j \in I : j <= i].filter

BloomsDelivered ==
  \A n \in Node : \A p \in linked[n] :
    blooms[n].on_tree[p] = TRUE => LastBloom(n, p) = blooms[n].send[p]

\* Nothing is left to do: everything was read and heard, every link is up,
\* and a tick of any router would change nothing.
AtRest ==
  /\ Quiet
  /\ \A n, k \in Node : infos[n][k] = infos[k][k] /\ infos[k][k] # None
  /\ \A n \in Node : linked[n] = Peers(n) /\ BloomMaintenance(n, Turn(n)) = Turn(n)

\* At rest, the filter of every tree link covers all that lies behind it, so
\* that a lookup for any key reaches it: no loss, restart, reconnection or
\* tree move on the way there leaves a filter behind that nobody will mend
\* (bloom_add_peer, bloom_fix, bloom_maintenance).
BloomsSettle ==
  AtRest =>
    \A n \in Node : \A p \in TreePeers(infos[n], n) :
      /\ blooms[n].on_tree[p] = TRUE
      /\ \A k \in Behind(infos[n], n, p) : Test(blooms[n].recv[p], XOf[k])

\* A payload on the wire was sealed exactly once: pathfind.rs, RumorEntry.
SealedOnce == \A f \in Frames : f.type = "Traffic" => f.data.seals = 1
=============================================================================
