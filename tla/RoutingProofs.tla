--------------------------- MODULE RoutingProofs ----------------------------
(* Proofs about paths, traffic, lookups and bloom filters: Routing.tla for    *)
(* every set of routers and links, every key, every world and every bound.   *)
EXTENDS Routing, AddressProofs, SubsequenceProofs

-----------------------------------------------------------------------------
(* Types *)

\* What filters are made of.
Bit == UNION {Bits(x) : x \in PublicKey}

InfosType == [Node -> Node \cup {None}]

\* Every coordinate is the way from a root down in somebody's view.
Path == {<<>>} \cup ((UNION {{RootPath(info, k) : k \in Node} : info \in InfosType}) \ {None})

Data == [id : Nat, to : Node, seals : Nat]

Way == [path : Path, mark : Int, hops : Nat, start : Int, blind : BOOLEAN]

Lookups  == [type : {"Lookup"}, source : Node, dest : PublicKey, from : Path, trail : Seq(Node)]
Notifies == [type : {"Notify"}, source : Node, dest : Node, info : [seq : Nat, path : Path],
             way : Way]
Brokens  == [type : {"Broken"}, source : Node, dest : Node, way : Way]
Payloads == [type : {"Traffic"}, from : Path, source : Node, dest : Node, data : Data,
             way : Way]
Filters  == [type : {"Bloom"}, filter : SUBSET Bit]

\* A frame has made no more hops than its watermark has come down.
Nearing(way) == ~way.blind => way.hops + way.mark <= way.start

\* What handlers write.
Talk ==
  Lookups \cup {f \in Notifies : Nearing(f.way)} \cup {f \in Brokens : Nearing(f.way)}
  \cup {f \in Payloads : Nearing(f.way) /\ f.dest = f.data.to}

Frame == Talk \cup Filters

Entry == [path : Path, seq : Nat, broken : BOOLEAN, deadline : Nat]

RumorEntry ==
  [dest : PublicKey, send_at : Nat \cup {None}, deadline : Nat, pending : Data \cup {None},
   is_app : BOOLEAN]

\* What waits in a rumor is for the node that will answer it.
Fits(x, rumor) == rumor.pending # None => XOf[rumor.pending.to] = x

KeySets == {D \in SUBSET PublicKey : IsFiniteSet(D)}

RumorTables ==
  {m \in UNION {[D -> RumorEntry] : D \in KeySets} : \A x \in DOMAIN m : Fits(x, m[x])}

PathStates ==
  [entries : [Node -> Entry \cup {None}], rumors : RumorTables, notify : [seq : Nat, path : Path]]

Books ==
  [send : [Node -> (SUBSET Bit) \cup {None}], recv : [Node -> (SUBSET Bit) \cup {None}],
   on_tree : [Node -> BOOLEAN \cup {None}]]

\* The keys in the on-tree table have filters.
BloomStates ==
  {b \in Books : \A k \in Node : b.on_tree[k] # None => {b.send[k], b.recv[k]} \subseteq SUBSET Bit}

\* The turn of a handler, which may write the frames of S.
Turns(S) ==
  [p : PathStates, b : BloomStates, out : [Node -> Seq(S)], got : Seq(Nat),
   sess : [Node -> SUBSET Node]]

-----------------------------------------------------------------------------
(* Coordinates and distances *)

LEMMA RootPathType ==
  ASSUME NEW info \in InfosType, NEW k \in Node
  PROVE  RootPath(info, k) \in Path \cup {None}
BY DEF Path

\* What is counted along a function of positions is a sequence.
LEMMA CountedLen ==
  ASSUME NEW d \in Nat, NEW f
  PROVE  [i \in 1 .. d |-> f[i]] \in Seq({f[i] : i \in 1 .. d}) /\ Len([i \in 1 .. d |-> f[i]]) = d
OBVIOUS

\* The positions of a path are numbered: there is a nearest root.
LEMMA PathLen ==
  ASSUME NEW p \in Path
  PROVE  Len(p) \in Nat
<1>1. CASE p = <<>>
  BY <1>1
<1>2. ASSUME NEW info \in InfosType, NEW k \in Node, p = RootPath(info, k), p # None
      PROVE  Len(p) \in Nat
  <2> DEFINE N == Cardinality(Node)
             up[m \in 0 .. N] ==
               IF m = 0 THEN k
               ELSE IF up[m - 1] = None THEN None ELSE info[up[m - 1]]
             root(m) == up[m] # None /\ info[up[m]] = up[m]
             nearest(m) == root(m) /\ \A j \in 0 .. (m - 1) : ~root(j)
             depth == CHOOSE m \in 0 .. N : nearest(m)
             way == [i \in 1 .. depth |-> up[depth - i]]
  <2>1. p = IF \E m \in 0 .. N : root(m) THEN way ELSE None
    BY <1>2 DEF RootPath
  <2>2. N \in Nat
    BY RoutingAssumption, FS_CardinalityType
  <2> HIDE DEF N, up, root
  <2>3. \E m \in 0 .. N : nearest(m)
    <3> DEFINE T == {m \in 0 .. N : root(m)}
    <3>1. T \in SUBSET Nat /\ T # {}
      BY <1>2, <2>1, <2>2
    <3>2. PICK x \in T : \A y \in T : x <= y
      BY <3>1, LeastNat
    <3>3. \A j \in 0 .. (x - 1) : j \in 0 .. N /\ ~(x <= j)
      BY <3>1, <3>2, <2>2
    <3>4. nearest(x)
      BY <3>2, <3>3
    <3> QED
      BY <3>4, <3>2
  <2>4. depth \in 0 .. N
    BY <2>3
  <2> HIDE DEF depth
  <2>5. depth \in Nat
    BY <2>4, <2>2
  <2>6. p = way
    BY <1>2, <2>1
  <2> DEFINE f == [i \in 1 .. depth |-> up[depth - i]]
  <2>7. way = [i \in 1 .. depth |-> f[i]]
    OBVIOUS
  <2> HIDE DEF way, f
  <2> QED
    BY <2>5, <2>6, <2>7, CountedLen
<1> QED
  BY <1>1, <1>2 DEF Path

LEMMA DistType ==
  ASSUME NEW a \in Path, NEW b \in Path
  PROVE  Dist(a, b) \in Int
<1>1. Len(a) \in Nat /\ Len(b) \in Nat
  BY PathLen
<1>2. IsFiniteSet(1 .. Len(a)) /\ Common(a, b) \subseteq 1 .. Len(a)
  BY <1>1, FS_Interval DEF Common
<1>3. Cardinality(Common(a, b)) \in Nat
  BY <1>2, FS_Subset, FS_CardinalityType
<1> QED
  BY <1>1, <1>3 DEF Dist

-----------------------------------------------------------------------------
(* What holds of the state, as far as frames and paths go. *)

TypeInv ==
  /\ clock \in Nat
  /\ linked \in [Node -> SUBSET Node]
  /\ infos \in [Node -> InfosType]
  /\ chan \in [Node -> [Node -> Seq(Frame)]]
  /\ paths \in [Node -> PathStates]
  /\ blooms \in [Node -> BloomStates]
  /\ sess \in [Node -> SUBSET Node]
  /\ got \in [Node -> Seq(Nat)]
  /\ sends \in Nat

\* What the handlers read.
Around == clock \in Nat /\ linked \in [Node -> SUBSET Node] /\ infos \in [Node -> InfosType]

LEMMA CoordsType ==
  ASSUME Around, NEW n \in Node
  PROVE  Coords(n) \in Path
<1>1. infos[n] \in InfosType
  BY DEF Around
<1>2. <<>> \in Path
  BY DEF Path
<1> QED
  BY <1>1, <1>2, RootPathType DEF Coords

LEMMA OwnDistType ==
  ASSUME Around, NEW n \in Node, NEW path \in Path
  PROVE  OwnDist(n, path) # None => OwnDist(n, path) \in Int
<1>1. infos[n] \in InfosType
  BY DEF Around
<1>2. RootPath(infos[n], n) \in Path \cup {None}
  BY <1>1, RootPathType
<1> QED
  BY <1>2, DistType DEF OwnDist

\* Every next hop lowers the watermark, or leaves it to a blind router.
LEMMA OnwardType ==
  ASSUME Around, NEW n \in Node, NEW w \in Way, Nearing(w), NextHops(n, w.path, w.mark) # {}
  PROVE  Onward(n, w) \in Way /\ Nearing(Onward(n, w))
<1> DEFINE d == OwnDist(n, w.path)
<1>1. d # None => d \in Int
  BY OwnDistType DEF Way
<1>2. d # None => ~(d >= w.mark)
  BY DEF NextHops
<1>3. Onward(n, w) = [w EXCEPT !.mark  = IF d = None THEN @ ELSE d,
              !.hops  = @ + 1,
              !.start = IF w.hops = 0 /\ d # None THEN d + 1 ELSE @,
              !.blind = @ \/ d = None]
  BY DEF Onward
<1> HIDE DEF d
<1>4. CASE d = None
  <2>1. Onward(n, w) = [path |-> w.path, mark |-> w.mark, hops |-> w.hops + 1,
                        start |-> w.start, blind |-> TRUE]
    BY <1>3, <1>4 DEF Way
  <2> QED
    BY <2>1 DEF Way, Nearing
<1>5. CASE d # None
  <2>1. Onward(n, w) = [path |-> w.path, mark |-> d, hops |-> w.hops + 1,
                        start |-> IF w.hops = 0 THEN d + 1 ELSE w.start, blind |-> w.blind]
    BY <1>3, <1>5 DEF Way
  <2>2. d \in Int /\ d < w.mark
    BY <1>1, <1>2, <1>5 DEF Way
  <2> QED
    BY <2>1, <2>2 DEF Way, Nearing
<1> QED
  BY <1>4, <1>5

-----------------------------------------------------------------------------
(* Tables of rumors *)

LEMMA TableOf ==
  ASSUME NEW m \in RumorTables
  PROVE  /\ DOMAIN m \in SUBSET PublicKey /\ IsFiniteSet(DOMAIN m)
         /\ m \in [DOMAIN m -> RumorEntry]
         /\ \A x \in DOMAIN m : Fits(x, m[x])
<1>1. PICK D \in KeySets : m \in [D -> RumorEntry]
  BY DEF RumorTables
<1>2. DOMAIN m = D
  BY <1>1
<1> QED
  BY <1>1, <1>2 DEF RumorTables, KeySets

LEMMA TableIs ==
  ASSUME NEW D \in SUBSET PublicKey, IsFiniteSet(D), NEW m \in [D -> RumorEntry],
         \A x \in D : Fits(x, m[x])
  PROVE  m \in RumorTables
<1>1. D \in KeySets /\ DOMAIN m = D
  BY DEF KeySets
<1> QED
  BY <1>1 DEF RumorTables

LEMMA KeysKnown ==
  /\ \A key \in PublicKey : XKey[key] \in PublicKey
  /\ \A a \in Address : LookupKeyForAddr(a) \in PublicKey
  /\ \A n \in Node : PubKey[n] \in PublicKey /\ XOf[n] = XKey[PubKey[n]] /\ XOf[n] \in PublicKey
  /\ \A m, n \in Node : XOf[m] = XOf[n] => m = n
<1>1. ASSUME NEW a \in Address
      PROVE  KeyForSubnet(SubnetOf(a)) \in PublicKey
  <2> DEFINE w == [net  |-> "subnet",
              ones |-> SubnetOf(a).ones,
              bits |-> [i \in 0 .. ADDR_BITS - 1 |-> IF i < SUBNET_BITS THEN SubnetOf(a).bits[i] ELSE 0]]
  <2>1. ASSUME NEW i \in 0 .. ADDR_BITS - 1, i < SUBNET_BITS
        PROVE  SubnetOf(a).bits[i] \in {0, 1}
    BY <2>1, Sizes DEF SubnetOf, Address
  <2>2. w \in Address
    <3> DEFINE wb == [i \in 0 .. ADDR_BITS - 1 |-> IF i < SUBNET_BITS THEN SubnetOf(a).bits[i] ELSE 0]
    <3>1. wb \in [0 .. ADDR_BITS - 1 -> {0, 1}]
      BY <2>1
    <3>2. SubnetOf(a).ones \in 0 .. MAX_ONES
      BY DEF SubnetOf, Address
    <3> HIDE DEF wb
    <3> QED
      BY <3>1, <3>2 DEF Address, wb
  <2> QED
    BY <2>2, KeyType DEF KeyForSubnet
<1>2. ASSUME NEW key \in PublicKey
      PROVE  XKey[key] \in PublicKey
  BY <1>1, AddrType DEF XKey, SubnetForKey
<1>3. \A a \in Address : LookupKeyForAddr(a) \in PublicKey
  BY <1>1, KeyType DEF LookupKeyForAddr
<1>4. \A n \in Node : PubKey[n] \in PublicKey /\ XOf[n] = XKey[PubKey[n]]
  BY RoutingAssumption DEF XOf
<1>5. \A m, n \in Node : XOf[m] = XOf[n] => m = n
  BY RoutingAssumption DEF Injection, IsInjective
<1> QED
  BY <1>2, <1>3, <1>4, <1>5

-----------------------------------------------------------------------------
(* What the parts of a handler leave alone *)

Kept(r, s) == s.p.entries = r.p.entries /\ s.b = r.b

LEMMA KeptAll ==
  /\ \A r : Kept(r, r)
  /\ \A r, s, t : Kept(r, s) /\ Kept(s, t) => Kept(r, t)
BY DEF Kept

LEMMA EmitType ==
  ASSUME NEW r \in Turns(Talk), NEW k \in Node, NEW f \in Talk
  PROVE  Emit(r, k, f) \in Turns(Talk) /\ Kept(r, Emit(r, k, f))
<1>1. r.out \in [Node -> Seq(Talk)]
  BY DEF Turns
<1>2. Append(r.out[k], f) \in Seq(Talk)
  BY <1>1
<1> DEFINE o == [r.out EXCEPT ![k] = Append(@, f)]
<1>3. o \in [Node -> Seq(Talk)]
  BY <1>1, <1>2
<1>4. Emit(r, k, f) = [r EXCEPT !.out = o]
  BY DEF Emit, Turns
<1> HIDE DEF o
<1> QED
  BY <1>3, <1>4 DEF Turns, Kept

LEMMA MulticastType ==
  ASSUME NEW r \in Turns(Talk), NEW n, NEW from, NEW f \in Talk
  PROVE  Multicast(n, r, from, f) \in Turns(Talk) /\ Kept(r, Multicast(n, r, from, f))
<1> DEFINE to == Audience(n, r.b, from, XKey[f.dest])
           o == [k \in Node |-> IF k \in to THEN Append(r.out[k], f) ELSE r.out[k]]
<1> HIDE DEF to
<1>1. r.out \in [Node -> Seq(Talk)]
  BY DEF Turns
<1>2. o \in [Node -> Seq(Talk)]
  BY <1>1
<1>3. Multicast(n, r, from, f) = [r EXCEPT !.out = o]
  BY DEF Multicast, to
<1> HIDE DEF o
<1> QED
  BY <1>2, <1>3 DEF Turns, Kept

LEMMA RumorType ==
  ASSUME Around, NEW r \in Turns(Talk), NEW key \in PublicKey
  PROVE  Rumor(r, key) \in RumorEntry /\ Fits(XKey[key], Rumor(r, key))
<1>1. r.p.rumors \in RumorTables
  BY DEF Turns, PathStates
<1>2. CASE XKey[key] \in DOMAIN r.p.rumors
  <2> HIDE DEF RumorEntry
  <2>1. Rumor(r, key) = r.p.rumors[XKey[key]]
    BY <1>2 DEF Rumor
  <2> QED
    BY <1>1, <1>2, <2>1, TableOf
<1>3. CASE XKey[key] \notin DOMAIN r.p.rumors
  <2>1. clock + PATH_TIMEOUT \in Nat
    BY RoutingAssumption DEF Around
  <2>2. Rumor(r, key) = [ dest |-> key, send_at |-> None, deadline |-> clock + PATH_TIMEOUT,
                          pending |-> None, is_app |-> FALSE ]
    BY <1>3 DEF Rumor
  <2> QED
    BY <2>1, <2>2 DEF RumorEntry, Fits
<1> QED
  BY <1>2, <1>3

LEMMA PutRumorType ==
  ASSUME NEW r \in Turns(Talk), NEW key \in PublicKey, NEW rumor \in RumorEntry,
         Fits(XKey[key], rumor)
  PROVE  /\ PutRumor(r, key, rumor) \in Turns(Talk) /\ Kept(r, PutRumor(r, key, rumor))
         /\ XKey[key] \in DOMAIN PutRumor(r, key, rumor).p.rumors
         /\ PutRumor(r, key, rumor).p.rumors[XKey[key]] = rumor
<1> DEFINE m == r.p.rumors
           D == DOMAIN m \cup {XKey[key]}
           t == [x \in D |-> IF x = XKey[key] THEN rumor ELSE m[x]]
<1>1. r.p \in PathStates /\ m \in RumorTables
  BY DEF Turns, PathStates
<1>2. /\ DOMAIN m \in SUBSET PublicKey /\ IsFiniteSet(DOMAIN m)
      /\ m \in [DOMAIN m -> RumorEntry] /\ \A x \in DOMAIN m : Fits(x, m[x])
  <2> HIDE DEF m
  <2> QED
    BY <1>1, TableOf
<1>3. D \in SUBSET PublicKey /\ IsFiniteSet(D)
  BY <1>2, KeysKnown, FS_AddElement
<1> HIDE DEF m
<1>4. t \in [D -> RumorEntry] /\ \A x \in D : Fits(x, t[x])
  BY <1>2
<1> HIDE DEF D
<1>5. t \in RumorTables
  <2> HIDE DEF t
  <2> QED
    BY <1>3, <1>4, TableIs
<1>6. XKey[key] \in DOMAIN t /\ t[XKey[key]] = rumor
  BY DEF D
<1>7. PutRumor(r, key, rumor) = [r EXCEPT !.p = [@ EXCEPT !.rumors = t]]
  BY <1>1 DEF PutRumor, m, D, Turns, PathStates
<1> HIDE DEF t
<1>8. [r.p EXCEPT !.rumors = t] \in PathStates /\ [r.p EXCEPT !.rumors = t].entries = r.p.entries
      /\ [r.p EXCEPT !.rumors = t].rumors = t
  BY <1>1, <1>5 DEF PathStates
<1> QED
  BY <1>6, <1>7, <1>8 DEF Turns, Kept

LEMMA AskedType ==
  ASSUME Around, NEW rumor \in RumorEntry
  PROVE  /\ Asked(rumor) \in RumorEntry
         /\ Asked(rumor).pending = rumor.pending /\ Asked(rumor).is_app = rumor.is_app
<1>1. clock + PATH_TIMEOUT \in Nat /\ clock \in Nat
  BY RoutingAssumption DEF Around
<1> QED
  BY <1>1 DEF Asked, RumorEntry

LEMMA LookupType ==
  ASSUME Around, NEW n \in Node, NEW key \in PublicKey
  PROVE  PathLookup(n, key, Coords(n)) \in Lookups
BY CoordsType DEF PathLookup, Lookups

LEMMA RumorLookupType ==
  ASSUME Around, NEW n \in Node, NEW r \in Turns(Talk), NEW key \in PublicKey
  PROVE  RumorLookup(n, r, key) \in Turns(Talk) /\ Kept(r, RumorLookup(n, r, key))
<1> DEFINE e == Asked(Rumor(r, key))
           s == PutRumor(r, key, e)
           f == PathLookup(n, key, Coords(n))
<1>1. e \in RumorEntry /\ Fits(XKey[key], e)
  BY RumorType, AskedType DEF Fits
<1>2. s \in Turns(Talk) /\ Kept(r, s)
  BY <1>1, PutRumorType
<1>3. f \in Talk
  BY LookupType DEF Talk
<1> HIDE DEF s, f
<1>4. Multicast(n, s, n, f) \in Turns(Talk) /\ Kept(s, Multicast(n, s, n, f))
  BY <1>2, <1>3, MulticastType
<1> QED
  BY <1>2, <1>4, KeptAll DEF RumorLookup, s, f

LEMMA HoldType ==
  ASSUME Around, NEW n \in Node, NEW r \in Turns(Talk), NEW key \in PublicKey,
         NEW data \in Data, XOf[data.to] = XKey[key]
  PROVE  HoldForLookup(n, r, key, data) \in Turns(Talk) /\ Kept(r, HoldForLookup(n, r, key, data))
<1> DEFINE e == [Rumor(r, key) EXCEPT !.pending = data, !.is_app = TRUE]
           s == PutRumor(r, key, e)
<1>1. e \in RumorEntry /\ Fits(XKey[key], e)
  <2> DEFINE u == Rumor(r, key)
  <2>1. u \in RumorEntry
    BY RumorType
  <2> HIDE DEF u
  <2>2. e = [u EXCEPT !.pending = data, !.is_app = TRUE]
    BY DEF u
  <2>3. e.pending = data
    BY <2>1, <2>2 DEF RumorEntry
  <2>4. e \in RumorEntry
    BY <2>1, <2>2 DEF RumorEntry
  <2> HIDE DEF e
  <2> QED
    BY <2>3, <2>4 DEF Fits
<1> HIDE DEF e
<1>2. s \in Turns(Talk) /\ Kept(r, s)
  BY <1>1, PutRumorType
<1> HIDE DEF s
<1>3. RumorLookup(n, s, key) \in Turns(Talk) /\ Kept(s, RumorLookup(n, s, key))
  BY <1>2, RumorLookupType
<1> QED
  BY <1>2, <1>3, KeptAll DEF HoldForLookup, s, e

\* Frames that travel greedily.
Travelling == {f \in Talk : IsRouted(f)}

LEMMA ChoiceType ==
  ASSUME Around, NEW n \in Node, NEW path, NEW mark, NEW fav, NextHops(n, path, mark) # {}
  PROVE  Choice(NextHops(n, path, mark), fav) \in Node
<1>1. NextHops(n, path, mark) \subseteq Node
  BY DEF NextHops, Nearer, Around
<1> QED
  BY <1>1 DEF Choice

LEMMA ForwardedType ==
  ASSUME Around, NEW n \in Node, NEW f \in Travelling, NextHops(n, f.way.path, f.way.mark) # {}
  PROVE  Forwarded(n, f) \in Travelling
<1>1. f.way \in Way /\ Nearing(f.way)
  BY DEF Travelling, Talk, IsRouted, Lookups, Notifies, Brokens, Payloads
<1> DEFINE w == Onward(n, f.way)
<1>2. w \in Way /\ Nearing(w)
  BY <1>1, OnwardType
<1>3. Forwarded(n, f) = [f EXCEPT !.way = w]
  BY DEF Forwarded
<1> HIDE DEF w
<1>4. CASE f \in Notifies
  BY <1>2, <1>3, <1>4 DEF Travelling, Talk, IsRouted, Notifies
<1>5. CASE f \in Brokens
  BY <1>2, <1>3, <1>5 DEF Travelling, Talk, IsRouted, Brokens
<1>6. CASE f \in Payloads /\ f.dest = f.data.to
  BY <1>2, <1>3, <1>6 DEF Travelling, Talk, IsRouted, Payloads
<1> QED
  BY <1>4, <1>5, <1>6 DEF Travelling, Talk, IsRouted, Lookups, Payloads

\* route_traffic and the first lines of the handlers.
LEMMA PassOn ==
  ASSUME Around, NEW n \in Node, NEW r \in Turns(Talk), NEW f \in Travelling, NEW fav,
         NextHops(n, f.way.path, f.way.mark) # {}
  PROVE  LET s == Emit(r, Choice(NextHops(n, f.way.path, f.way.mark), fav), Forwarded(n, f))
         IN  s \in Turns(Talk) /\ Kept(r, s)
<1> DEFINE k == Choice(NextHops(n, f.way.path, f.way.mark), fav)
           g == Forwarded(n, f)
<1>1. k \in Node
  BY ChoiceType
<1>2. g \in Talk
  BY ForwardedType DEF Travelling
<1> HIDE DEF k, g
<1>3. Emit(r, k, g) \in Turns(Talk) /\ Kept(r, Emit(r, k, g))
  BY <1>1, <1>2, EmitType
<1> QED
  BY <1>3 DEF k, g

LEMMA RoutedType ==
  ASSUME NEW path \in Path
  PROVE  Routed(path) \in Way /\ Nearing(Routed(path))
BY RoutingAssumption DEF Routed, Way, Nearing

LEMMA PathfinderSendType ==
  ASSUME Around, NEW n \in Node, NEW r \in Turns(Talk), NEW d \in Node, NEW data \in Data,
         data.to = d, NEW fav
  PROVE  /\ PathfinderSend(n, r, d, data, fav) \in Turns(Talk)
         /\ Kept(r, PathfinderSend(n, r, d, data, fav))
<1> DEFINE e == r.p.entries[d]
<1>1. e \in Entry \cup {None}
  BY DEF Turns, PathStates
<1> HIDE DEF e
<1>2. CASE e # None /\ ~e.broken
  <2> DEFINE f == Traffic(e.path, Coords(n), n, d, data)
  <2>1. e.path \in Path
    BY <1>1, <1>2 DEF Entry
  <2>2. f \in Travelling
    BY <2>1, CoordsType, RoutedType DEF Traffic, Travelling, Talk, IsRouted, Payloads
  <2> HIDE DEF f
  <2>3. PathfinderSend(n, r, d, data, fav) = RouteTraffic(n, r, f, fav)
    BY <1>2 DEF PathfinderSend, e, f
  <2> QED
    BY <2>2, <2>3, PassOn, KeptAll DEF RouteTraffic
<1>3. CASE ~(e # None /\ ~e.broken)
  <2> DEFINE s == RumorLookup(n, r, PubKey[d])
             x == XOf[d]
             t == [s.p.rumors EXCEPT ![x] = [@ EXCEPT !.pending = data]]
  <2>1. s \in Turns(Talk) /\ Kept(r, s)
    BY RumorLookupType, KeysKnown
  <2>2. PathfinderSend(n, r, d, data, fav) = [s EXCEPT !.p.rumors[x].pending = data]
    BY <1>3 DEF PathfinderSend, e
  <2> HIDE DEF s
  <2>3. s.p \in PathStates /\ s.p.rumors \in RumorTables
    BY <2>1 DEF Turns, PathStates
  <2>4. /\ DOMAIN s.p.rumors \in SUBSET PublicKey /\ IsFiniteSet(DOMAIN s.p.rumors)
        /\ s.p.rumors \in [DOMAIN s.p.rumors -> RumorEntry]
        /\ \A y \in DOMAIN s.p.rumors : Fits(y, s.p.rumors[y])
    BY <2>3, TableOf
  <2>5. t \in [DOMAIN s.p.rumors -> RumorEntry] /\ \A y \in DOMAIN s.p.rumors : Fits(y, t[y])
    <3>1. ASSUME x \in DOMAIN s.p.rumors
          PROVE  [s.p.rumors[x] EXCEPT !.pending = data] \in RumorEntry
                 /\ Fits(x, [s.p.rumors[x] EXCEPT !.pending = data])
      BY <2>4, <3>1 DEF RumorEntry, Fits
    <3> QED
      BY <2>4, <3>1
  <2>6. t \in RumorTables
    <3> HIDE DEF t
    <3> QED
      BY <2>4, <2>5, TableIs
  <2>7. [s EXCEPT !.p.rumors[x].pending = data] = [s EXCEPT !.p = [@ EXCEPT !.rumors = t]]
    BY <2>1, <2>3 DEF Turns, PathStates
  <2> HIDE DEF t
  <2>8. [s.p EXCEPT !.rumors = t] \in PathStates /\ [s.p EXCEPT !.rumors = t].entries = s.p.entries
    BY <2>3, <2>6 DEF PathStates
  <2>9. [s EXCEPT !.p = [@ EXCEPT !.rumors = t]] \in Turns(Talk)
        /\ Kept(s, [s EXCEPT !.p = [@ EXCEPT !.rumors = t]])
    BY <2>1, <2>8 DEF Turns, Kept
  <2> QED
    BY <2>1, <2>2, <2>7, <2>9, KeptAll
<1> QED
  BY <1>2, <1>3

LEMMA SessionSendType ==
  ASSUME Around, NEW n \in Node, NEW r \in Turns(Talk), NEW d \in Node, NEW data \in Data,
         data.to = d, NEW fav
  PROVE  SessionSend(n, r, d, data, fav) \in Turns(Talk) /\ Kept(r, SessionSend(n, r, d, data, fav))
<1> DEFINE sealed == [data EXCEPT !.seals = @ + 1]
<1>1. sealed \in Data /\ sealed.to = d
  BY DEF Data
<1> HIDE DEF sealed
<1>2. SessionSend(n, r, d, data, fav) = PathfinderSend(n, r, d, sealed, fav)
  BY DEF SessionSend, sealed
<1> QED
  BY <1>1, <1>2, PathfinderSendType

-----------------------------------------------------------------------------
(* What a whole handler does to the paths *)

\* It leaves the filters alone.
SameBlooms(r, s) == s.b = r.b

LEMMA KeptSame ==
  ASSUME NEW r, NEW s, NEW t, Kept(s, t)
  PROVE  /\ SameBlooms(r, s) => SameBlooms(r, t)
         /\ Kept(r, s) => SameBlooms(r, t)
         /\ SameBlooms(s, t)
BY DEF Kept, SameBlooms

LEMMA KeptFirst ==
  ASSUME NEW r, NEW s, NEW t, Kept(r, s), SameBlooms(s, t)
  PROVE  SameBlooms(r, t)
BY DEF Kept, SameBlooms

\* One entry is written.
LEMMA EntryType ==
  ASSUME NEW r \in Turns(Talk), NEW d \in Node, NEW e \in Entry
  PROVE  LET s == [r EXCEPT !.p = [r.p EXCEPT !.entries = [r.p.entries EXCEPT ![d] = e]]]
         IN  s \in Turns(Talk) /\ SameBlooms(r, s)
<1> DEFINE t == [r.p.entries EXCEPT ![d] = e]
           q == [r.p EXCEPT !.entries = t]
           s == [r EXCEPT !.p = q]
<1>1. r.p \in PathStates /\ r.p.entries \in [Node -> Entry \cup {None}]
  BY DEF Turns, PathStates
<1>2. t \in [Node -> Entry \cup {None}] /\ t[d] = e /\ \A k \in Node \ {d} : t[k] = r.p.entries[k]
  BY <1>1
<1> HIDE DEF t
<1>3. q \in PathStates /\ q.entries = t
  BY <1>1, <1>2 DEF PathStates
<1> HIDE DEF q
<1>4. s \in Turns(Talk) /\ s.p.entries = t /\ s.b = r.b
  BY <1>3 DEF Turns
<1>5. s = [r EXCEPT !.p = [r.p EXCEPT !.entries = [r.p.entries EXCEPT ![d] = e]]]
  BY DEF q, t
<1> HIDE DEF s
<1> QED
  BY <1>4, <1>5 DEF SameBlooms

\* handle_notify takes the slot.
LEMMA TakenType ==
  ASSUME NEW r \in Turns(Talk), NEW x
  PROVE  LET s == [r EXCEPT !.p.rumors[x].pending = None]
         IN  s \in Turns(Talk) /\ Kept(r, s)
<1> DEFINE taken == [r EXCEPT !.p.rumors[x].pending = None]
           m == r.p.rumors
           t == [m EXCEPT ![x] = [@ EXCEPT !.pending = None]]
<1>1. r.p \in PathStates /\ m \in RumorTables
  BY DEF Turns, PathStates
<1>2. taken = [r EXCEPT !.p = [@ EXCEPT !.rumors = t]]
  BY <1>1 DEF Turns, PathStates
<1> HIDE DEF taken
<1>3. /\ DOMAIN m \in SUBSET PublicKey /\ IsFiniteSet(DOMAIN m)
      /\ m \in [DOMAIN m -> RumorEntry] /\ \A y \in DOMAIN m : Fits(y, m[y])
  <2> HIDE DEF m
  <2> QED
    BY <1>1, TableOf
<1>4. t \in [DOMAIN m -> RumorEntry] /\ \A y \in DOMAIN m : Fits(y, t[y])
  <2> HIDE DEF m
  <2>1. ASSUME x \in DOMAIN m
        PROVE  [m[x] EXCEPT !.pending = None] \in RumorEntry
               /\ Fits(x, [m[x] EXCEPT !.pending = None])
    BY <1>3, <2>1 DEF RumorEntry, Fits
  <2> QED
    BY <1>3, <2>1
<1>5. t \in RumorTables
  <2> HIDE DEF t, m
  <2> QED
    BY <1>3, <1>4, TableIs
<1> HIDE DEF t
<1>6. [r.p EXCEPT !.rumors = t] \in PathStates /\ [r.p EXCEPT !.rumors = t].entries = r.p.entries
  BY <1>1, <1>5 DEF PathStates
<1>7. taken \in Turns(Talk) /\ Kept(r, taken)
  BY <1>2, <1>6 DEF Turns, Kept
<1> QED
  BY <1>7 DEF taken

LEMMA FlushType ==
  ASSUME Around, NEW n \in Node, NEW r \in Turns(Talk), NEW d \in Node, NEW fav
  PROVE  Flush(n, r, d, fav) \in Turns(Talk) /\ Kept(r, Flush(n, r, d, fav))
<1> DEFINE held == Rumor(r, PubKey[d])
           taken == [r EXCEPT !.p.rumors[XOf[d]].pending = None]
           x == XOf[d]
<1>1. held \in RumorEntry /\ Fits(x, held)
  BY RumorType, KeysKnown
<1>8. taken \in Turns(Talk) /\ Kept(r, taken)
  BY TakenType
<1> HIDE DEF taken, x
<1> HIDE DEF held
<1>9. CASE held.pending = None
  BY <1>9, KeptAll DEF Flush, held
<1>10. CASE held.pending # None
  <2> DEFINE data == held.pending
  <2>1. data \in Data /\ XOf[data.to] = x
    BY <1>1, <1>10 DEF RumorEntry, Fits
  <2>2. data.to \in Node
    BY <2>1 DEF Data
  <2>3. data.to = d
    BY <2>1, <2>2, KeysKnown DEF x
  <2>4. Flush(n, r, d, fav) = IF held.is_app THEN SessionSend(n, taken, d, data, fav)
                              ELSE PathfinderSend(n, taken, d, data, fav)
    BY <1>10 DEF Flush, held, taken
  <2> HIDE DEF data
  <2>5. SessionSend(n, taken, d, data, fav) \in Turns(Talk) /\ Kept(taken, SessionSend(n, taken, d, data, fav))
    BY <1>8, <2>1, <2>3, SessionSendType
  <2>6. PathfinderSend(n, taken, d, data, fav) \in Turns(Talk) /\ Kept(taken, PathfinderSend(n, taken, d, data, fav))
    BY <1>8, <2>1, <2>3, PathfinderSendType
  <2> QED
    BY <1>8, <2>4, <2>5, <2>6, KeptAll
<1> QED
  BY <1>9, <1>10

LEMMA NotifyType ==
  ASSUME Around, NEW n \in Node, NEW r \in Turns(Talk), NEW f \in Notifies, Nearing(f.way), NEW fav
  PROVE  HandleNotify(n, r, f, fav) \in Turns(Talk) /\ SameBlooms(r, HandleNotify(n, r, f, fav))
<1> DEFINE hops == NextHops(n, f.way.path, f.way.mark)
           e == r.p.entries[f.source]
           new == [path |-> f.info.path, seq |-> f.info.seq, broken |-> FALSE,
                   deadline |-> clock + PATH_TIMEOUT]
           s == [r EXCEPT !.p = [r.p EXCEPT !.entries = [r.p.entries EXCEPT ![f.source] = new]]]
           take == IF e # None THEN News(e, f) ELSE XOf[f.source] \in DOMAIN r.p.rumors
<1>1. f \in Travelling
  BY DEF Travelling, Talk, IsRouted, Notifies
<1>2. CASE hops # {}
  <2> DEFINE g == Emit(r, Choice(hops, fav), Forwarded(n, f))
  <2>1. g \in Turns(Talk) /\ Kept(r, g)
    BY <1>1, <1>2, PassOn
  <2>2. HandleNotify(n, r, f, fav) = g
    BY <1>2 DEF HandleNotify
  <2> HIDE DEF g
  <2> QED
    BY <2>1, <2>2, KeptSame
<1>3. CASE hops = {} /\ f.dest = n /\ take
  <2>1. clock + PATH_TIMEOUT \in Nat
    BY RoutingAssumption DEF Around
  <2>2. new \in Entry
    BY <2>1 DEF Entry, Notifies
  <2>3. f.source \in Node
    BY DEF Notifies
  <2>4. HandleNotify(n, r, f, fav) = Flush(n, s, f.source, fav)
    <3>1. [r EXCEPT !.p.entries[f.source] = new] = s
      BY DEF Turns, PathStates
    <3> HIDE DEF s, new, take
    <3> QED
      BY <1>3, <3>1 DEF HandleNotify, new, take
  <2> HIDE DEF new
  <2>6. s \in Turns(Talk) /\ SameBlooms(r, s)
    BY <2>2, <2>3, EntryType
  <2> HIDE DEF s
  <2>7. Flush(n, s, f.source, fav) \in Turns(Talk) /\ Kept(s, Flush(n, s, f.source, fav))
    BY <2>3, <2>6, FlushType
  <2> QED
    BY <2>4, <2>6, <2>7, KeptSame
<1>4. CASE hops = {} /\ ~(f.dest = n /\ take)
  <2>1. HandleNotify(n, r, f, fav) = r
    BY <1>4 DEF HandleNotify
  <2> QED
    BY <2>1, KeptAll, KeptSame
<1> QED
  BY <1>2, <1>3, <1>4

LEMMA HandleLookupType ==
  ASSUME Around, NEW n \in Node, NEW r \in Turns(Talk), NEW from, NEW f \in Lookups, NEW fav
  PROVE  HandleLookup(n, r, from, f, fav) \in Turns(Talk)
         /\ SameBlooms(r, HandleLookup(n, r, from, f, fav))
<1> DEFINE g == [f EXCEPT !.trail = Append(@, n)]
           r1 == Multicast(n, r, from, g)
           info == NotifyInfo(clock, Coords(n))
           r2 == [r1 EXCEPT !.p = [@ EXCEPT !.notify = info]]
           h == PathNotify(f.from, n, f.source, info)
<1>1. g \in Talk
  BY DEF Lookups, Talk
<1> HIDE DEF g
<1>2. r1 \in Turns(Talk) /\ Kept(r, r1)
  BY <1>1, MulticastType
<1> HIDE DEF r1
<1>3. info \in [seq : Nat, path : Path]
  BY CoordsType DEF NotifyInfo, Around
<1> HIDE DEF info
<1>4. r1.p \in PathStates
  BY <1>2 DEF Turns
<1>5. [r1.p EXCEPT !.notify = info] \in PathStates
      /\ [r1.p EXCEPT !.notify = info].entries = r1.p.entries
  BY <1>3, <1>4 DEF PathStates
<1>6. r2 \in Turns(Talk) /\ Kept(r1, r2)
  BY <1>2, <1>5 DEF Turns, Kept
<1>7. h \in Notifies /\ Nearing(h.way)
  <2>1. f.from \in Path /\ f.source \in Node
    BY DEF Lookups
  <2> QED
    BY <1>3, <2>1, RoutedType DEF PathNotify, Notifies
<1>8. HandleLookup(n, r, from, f, fav) = IF XKey[f.dest] # XOf[n] THEN r1 ELSE HandleNotify(n, r2, h, fav)
  BY DEF HandleLookup, g, r1, info
<1> HIDE DEF r2, h
<1>9. HandleNotify(n, r2, h, fav) \in Turns(Talk) /\ SameBlooms(r2, HandleNotify(n, r2, h, fav))
  BY <1>6, <1>7, NotifyType
<1>10. Kept(r, r2)
  BY <1>2, <1>6, KeptAll
<1>11. SameBlooms(r, HandleNotify(n, r2, h, fav))
  BY <1>9, <1>10, KeptFirst
<1>12. SameBlooms(r, r1)
  BY <1>2, KeptSame
<1> QED
  BY <1>2, <1>8, <1>9, <1>11, <1>12

LEMMA BrokenType ==
  ASSUME Around, NEW n \in Node, NEW r \in Turns(Talk), NEW f \in Brokens, Nearing(f.way), NEW fav
  PROVE  HandleBroken(n, r, f, fav) \in Turns(Talk) /\ SameBlooms(r, HandleBroken(n, r, f, fav))
<1> DEFINE hops == NextHops(n, f.way.path, f.way.mark)
           e == r.p.entries[f.dest]
           new == [e EXCEPT !.broken = TRUE]
           s == [r EXCEPT !.p = [r.p EXCEPT !.entries = [r.p.entries EXCEPT ![f.dest] = new]]]
<1>1. f \in Travelling /\ f.dest \in Node
  BY DEF Travelling, Talk, IsRouted, Brokens
<1>2. CASE hops # {}
  <2> DEFINE g == Emit(r, Choice(hops, fav), Forwarded(n, f))
  <2>1. g \in Turns(Talk) /\ Kept(r, g)
    BY <1>1, <1>2, PassOn
  <2>2. HandleBroken(n, r, f, fav) = g
    BY <1>2 DEF HandleBroken
  <2> HIDE DEF g
  <2> QED
    BY <2>1, <2>2, KeptSame
<1>3. CASE hops = {} /\ f.source = n /\ e # None
  <2>1. e \in Entry
    BY <1>1, <1>3 DEF Turns, PathStates
  <2>2. new \in Entry
    <3> HIDE DEF e
    <3> QED
      BY <2>1 DEF Entry
  <2>3. [r EXCEPT !.p.entries[f.dest].broken = TRUE] = s
    BY <1>1, <2>1 DEF Turns, PathStates
  <2>4. HandleBroken(n, r, f, fav) = RumorLookup(n, s, PubKey[f.dest])
    <3> HIDE DEF s
    <3> QED
      BY <1>3, <2>3 DEF HandleBroken
  <2> HIDE DEF new
  <2>5. s \in Turns(Talk) /\ SameBlooms(r, s)
    BY <1>1, <2>2, EntryType
  <2> HIDE DEF s
  <2>6. RumorLookup(n, s, PubKey[f.dest]) \in Turns(Talk) /\ Kept(s, RumorLookup(n, s, PubKey[f.dest]))
    BY <1>1, <2>5, KeysKnown, RumorLookupType
  <2> QED
    BY <2>4, <2>5, <2>6, KeptSame
<1>4. CASE hops = {} /\ ~(f.source = n /\ e # None)
  <2>1. HandleBroken(n, r, f, fav) = r
    BY <1>4 DEF HandleBroken
  <2> QED
    BY <2>1, KeptAll, KeptSame
<1> QED
  BY <1>2, <1>3, <1>4

LEMMA DeliverType ==
  ASSUME NEW n \in Node, NEW r \in Turns(Talk), NEW f \in Payloads
  PROVE  Deliver(n, r, f) \in Turns(Talk) /\ Kept(r, Deliver(n, r, f))
<1> DEFINE g == Append(r.got, f.data.id)
           s == [[r.sess EXCEPT ![n] = @ \cup {f.source}] EXCEPT ![f.source] = @ \cup {n}]
<1>1. CASE f.data.seals # 1
  BY <1>1, KeptAll DEF Deliver
<1>2. CASE f.data.seals = 1
  <2>1. f.data.id \in Nat /\ f.source \in Node
    BY DEF Payloads, Data
  <2>2. r.got \in Seq(Nat) /\ r.sess \in [Node -> SUBSET Node]
    BY DEF Turns
  <2>3. g \in Seq(Nat)
    BY <2>1, <2>2
  <2>4. s \in [Node -> SUBSET Node]
    BY <2>1, <2>2
  <2>5. Deliver(n, r, f) = [r EXCEPT !.got = g, !.sess = s]
    BY <1>2, <2>1, <2>2 DEF Deliver, Turns
  <2> HIDE DEF g, s
  <2> QED
    BY <2>3, <2>4, <2>5 DEF Turns, Kept
<1> QED
  BY <1>1, <1>2

LEMMA TrafficType ==
  ASSUME Around, NEW n \in Node, NEW r \in Turns(Talk), NEW f \in Payloads, Nearing(f.way),
         f.dest = f.data.to, NEW fav
  PROVE  HandleTraffic(n, r, f, fav) \in Turns(Talk) /\ SameBlooms(r, HandleTraffic(n, r, f, fav))
<1> DEFINE hops == NextHops(n, f.way.path, f.way.mark)
           e == r.p.entries[f.source]
           new == [e EXCEPT !.deadline = clock + PATH_TIMEOUT]
           s == [r EXCEPT !.p = [r.p EXCEPT !.entries = [r.p.entries EXCEPT ![f.source] = new]]]
           fresh == IF e = None \/ e.broken THEN r
                    ELSE [r EXCEPT !.p.entries[f.source].deadline = clock + PATH_TIMEOUT]
           b == PathBroken(f.from, f.source, f.dest)
<1>1. f \in Travelling /\ f.source \in Node /\ f.dest \in Node /\ f.from \in Path
  BY DEF Travelling, Talk, IsRouted, Payloads
<1>2. CASE hops # {}
  <2> DEFINE g == Emit(r, Choice(hops, fav), Forwarded(n, f))
  <2>1. g \in Turns(Talk) /\ Kept(r, g)
    BY <1>1, <1>2, PassOn
  <2>2. HandleTraffic(n, r, f, fav) = g
    BY <1>2 DEF HandleTraffic
  <2> HIDE DEF g
  <2> QED
    BY <2>1, <2>2, KeptSame
<1>3. CASE hops = {} /\ f.dest = n
  <2>1. HandleTraffic(n, r, f, fav) = Deliver(n, fresh, f)
    BY <1>3 DEF HandleTraffic
  <2>2. fresh \in Turns(Talk) /\ SameBlooms(r, fresh)
    <3>1. CASE e = None \/ e.broken
      BY <3>1, KeptAll, KeptSame
    <3>2. CASE ~(e = None \/ e.broken)
      <4>1. e \in Entry
        BY <1>1, <3>2 DEF Turns, PathStates
      <4>2. clock + PATH_TIMEOUT \in Nat
        BY RoutingAssumption DEF Around
      <4>3. new \in Entry
        <5> HIDE DEF e
        <5> QED
          BY <4>1, <4>2 DEF Entry
      <4>4. fresh = s
        BY <1>1, <3>2, <4>1 DEF Turns, PathStates
      <4> HIDE DEF new, fresh
      <4>5. s \in Turns(Talk) /\ SameBlooms(r, s)
        BY <1>1, <4>3, EntryType
      <4> HIDE DEF s
      <4> QED
        BY <4>4, <4>5
    <3> QED
      BY <3>1, <3>2
  <2> HIDE DEF fresh
  <2>3. Deliver(n, fresh, f) \in Turns(Talk) /\ Kept(fresh, Deliver(n, fresh, f))
    BY <2>2, DeliverType
  <2> QED
    BY <2>1, <2>2, <2>3, KeptSame
<1>4. CASE hops = {} /\ f.dest # n
  <2>1. HandleTraffic(n, r, f, fav) = HandleBroken(n, r, b, fav)
    BY <1>4 DEF HandleTraffic
  <2>2. b \in Brokens /\ Nearing(b.way)
    BY <1>1, RoutedType DEF PathBroken, Brokens
  <2> HIDE DEF b
  <2> QED
    BY <2>1, <2>2, BrokenType
<1> QED
  BY <1>2, <1>3, <1>4

\* A handler of the frames that are not filters.
LEMMA DispatchTalk ==
  ASSUME Around, NEW n \in Node, NEW r \in Turns(Talk), NEW from, NEW f \in Talk, NEW fav
  PROVE  /\ Dispatch(n, r, from, f, fav) \in Turns(Talk)
         /\ SameBlooms(r, Dispatch(n, r, from, f, fav))
         /\ f.type # "Bloom"
<1>1. CASE f \in Lookups
  <2>1. f.type = "Lookup"
    BY <1>1 DEF Lookups
  <2> QED
    BY <1>1, <2>1, HandleLookupType DEF Dispatch
<1>2. CASE f \in Notifies /\ Nearing(f.way)
  <2>1. f.type = "Notify"
    BY <1>2 DEF Notifies
  <2> QED
    BY <1>2, <2>1, NotifyType DEF Dispatch
<1>3. CASE f \in Brokens /\ Nearing(f.way)
  <2>1. f.type = "Broken"
    BY <1>3 DEF Brokens
  <2> QED
    BY <1>3, <2>1, BrokenType DEF Dispatch
<1>4. CASE f \in Payloads /\ Nearing(f.way) /\ f.dest = f.data.to
  <2>1. f.type = "Traffic"
    BY <1>4 DEF Payloads
  <2> QED
    BY <1>4, <2>1, TrafficType DEF Dispatch
<1> QED
  BY <1>1, <1>2, <1>3, <1>4 DEF Talk

LEMMA DispatchBloom ==
  ASSUME NEW n \in Node, NEW r \in Turns(Talk), NEW from \in Node, NEW f \in Filters, NEW fav
  PROVE  LET s == Dispatch(n, r, from, f, fav)
         IN  /\ s \in Turns(Talk) /\ s.p = r.p /\ s.out = r.out
             /\ s.b.send = r.b.send /\ s.b.on_tree = r.b.on_tree
             /\ s.b.recv = [r.b.recv EXCEPT ![from] = IF @ = None THEN None ELSE f.filter]
<1> DEFINE t == [r.b.recv EXCEPT ![from] = IF r.b.recv[from] = None THEN None ELSE f.filter]
           b == [r.b EXCEPT !.recv = t]
           s == [r EXCEPT !.b = b]
<1>1. r.b \in BloomStates
  BY DEF Turns
<1>2. r.b \in Books
  BY <1>1 DEF BloomStates
<1>3. Dispatch(n, r, from, f, fav) = s
  BY <1>2 DEF Dispatch, HandleBloom, Filters, Turns, Books
<1>4. t \in [Node -> (SUBSET Bit) \cup {None}]
  BY <1>2 DEF Books, Filters
<1>5. \A k \in Node : t[k] = r.b.recv[k] \/ t[k] \in SUBSET Bit
  BY <1>2 DEF Books, Filters
<1> HIDE DEF t
<1>6. b \in Books /\ b.send = r.b.send /\ b.on_tree = r.b.on_tree /\ b.recv = t
  BY <1>2, <1>4 DEF Books
<1>7. b \in BloomStates
  BY <1>1, <1>5, <1>6 DEF BloomStates
<1> HIDE DEF b
<1>8. s \in Turns(Talk) /\ s.p = r.p /\ s.out = r.out /\ s.b = b
  BY <1>7 DEF Turns
<1> HIDE DEF s
<1>9. t = [r.b.recv EXCEPT ![from] = IF @ = None THEN None ELSE f.filter]
  BY DEF t
<1> QED
  BY <1>3, <1>6, <1>8, <1>9

-----------------------------------------------------------------------------
(* The tick *)

LEMMA BloomFixType ==
  ASSUME NEW n \in Node, NEW b \in BloomStates
  PROVE  /\ BloomFix(n, b) \in BloomStates /\ BloomFix(n, b).recv = b.recv
         /\ \A k \in Node : BloomFix(n, b).send[k] \in {b.send[k], {}}
<1> DEFINE on(k) == infos[n][n] = k \/ infos[n][k] = n
           t == [k \in Node |-> IF b.on_tree[k] = None THEN None ELSE on(k)]
           s == [k \in Node |-> IF b.on_tree[k] = TRUE /\ ~on(k) THEN {} ELSE b.send[k]]
           c == [b EXCEPT !.on_tree = t, !.send = s]
<1>1. b \in Books /\ \A k \in Node : b.on_tree[k] # None => {b.send[k], b.recv[k]} \subseteq SUBSET Bit
  BY DEF BloomStates
<1>2. CASE infos[n][n] = None
  BY <1>1, <1>2 DEF BloomFix
<1>3. CASE infos[n][n] # None
  <2>1. BloomFix(n, b) = c
    BY <1>3 DEF BloomFix
  <2> HIDE DEF on
  <2>2. t \in [Node -> BOOLEAN \cup {None}] /\ \A k \in Node : t[k] # None => b.on_tree[k] # None
    <3>1. \A k \in Node : on(k) \in BOOLEAN
      BY DEF on
    <3> QED
      BY <3>1
  <2>3. s \in [Node -> (SUBSET Bit) \cup {None}] /\ \A k \in Node : s[k] \in {b.send[k], {}}
    <3>1. b.send \in [Node -> (SUBSET Bit) \cup {None}]
      BY <1>1 DEF Books
    <3> QED
      BY <3>1
  <2> HIDE DEF t, s
  <2>4. c \in Books /\ c.on_tree = t /\ c.send = s /\ c.recv = b.recv
    BY <1>1, <2>2, <2>3 DEF Books
  <2> HIDE DEF c
  <2>5. c \in BloomStates
    BY <1>1, <2>2, <2>3, <2>4 DEF BloomStates
  <2> QED
    BY <2>1, <2>3, <2>4, <2>5
<1> QED
  BY <1>2, <1>3

LEMMA BloomForType ==
  ASSUME NEW n \in Node, NEW b \in BloomStates, NEW p \in Node, b.on_tree[p] = TRUE
  PROVE  BloomFor(n, b, p) \in (SUBSET Bit) \ {{}}
<1>1. \A k \in Node : b.on_tree[k] = TRUE => {b.send[k], b.recv[k]} \subseteq SUBSET Bit
  BY RoutingAssumption DEF BloomStates
<1>2. Bits(XOf[n]) \in (SUBSET Bit) \ {{}}
  BY RoutingAssumption, KeysKnown DEF Bit
<1>3. Add({}, XOf[n]) = Bits(XOf[n])
  BY DEF Add
<1> DEFINE told == {b.recv[k] : k \in {k \in Node \ {p} : b.on_tree[k] = TRUE}}
<1>4. told \subseteq SUBSET Bit /\ b.send[p] \in SUBSET Bit
  BY <1>1
<1>5. BloomFor(n, b, p) = UNION ({Bits(XOf[n]), b.send[p]} \cup told)
  BY <1>3 DEF BloomFor, Merge
<1> HIDE DEF told
<1> QED
  BY <1>2, <1>4, <1>5

\* A filter is written, or the record stays or is blanked.
Noted(r, s, p) ==
  \/ s.out[p] = r.out[p] \o <<Bloom(s.b.send[p])>> /\ s.b.send[p] \in SUBSET Bit
  \/ /\ s.out[p] = r.out[p]
     /\ s.b.send[p] \in {r.b.send[p], {}}
     /\ s.b.on_tree[p] = TRUE => s.b.send[p] # {}

LEMMA MaintenanceType ==
  ASSUME NEW n \in Node, NEW r \in Turns(Frame)
  PROVE  LET s == BloomMaintenance(n, r)
         IN  /\ s \in Turns(Frame) /\ s.p = r.p /\ s.b.recv = r.b.recv /\ s.got = r.got
             /\ s.b.on_tree = BloomFix(n, r.b).on_tree
             /\ \A p \in linked[n] \cap Node : Noted(r, s, p)
             /\ \A p \in Node : s.out[p] = r.out[p] \/ \E f \in Filters : s.out[p] = r.out[p] \o <<f>>
<1> DEFINE b == BloomFix(n, r.b)
           t == [p \in Node |-> IF b.on_tree[p] = TRUE THEN BloomFor(n, b, p) ELSE b.send[p]]
           o == [p \in Node |-> IF p \in linked[n] THEN r.out[p] \o BloomFrames(n, b, p) ELSE r.out[p]]
           c == [b EXCEPT !.send = t]
           s == [r EXCEPT !.b = c, !.out = o]
<1>1. r.b \in BloomStates /\ r.out \in [Node -> Seq(Frame)]
  BY DEF Turns
<1>2. /\ b \in BloomStates /\ b.recv = r.b.recv
      /\ \A k \in Node : b.send[k] \in {r.b.send[k], {}}
  BY <1>1, BloomFixType
<1>3. BloomMaintenance(n, r) = s
  BY DEF BloomMaintenance
<1> HIDE DEF b
<1>4. /\ b \in Books
      /\ \A k \in Node : b.on_tree[k] # None => {b.send[k], b.recv[k]} \subseteq SUBSET Bit
      /\ \A p \in Node : b.on_tree[p] = TRUE => BloomFor(n, b, p) \in (SUBSET Bit) \ {{}}
  BY <1>2, BloomForType DEF BloomStates
<1>5. /\ t \in [Node -> (SUBSET Bit) \cup {None}]
      /\ \A p \in Node : IF b.on_tree[p] = TRUE THEN t[p] = BloomFor(n, b, p) ELSE t[p] = b.send[p]
  BY <1>4 DEF Books
<1> HIDE DEF t
<1>6. c \in Books /\ c.send = t /\ c.recv = b.recv /\ c.on_tree = b.on_tree
  BY <1>4, <1>5 DEF Books
<1> HIDE DEF c
<1>7. c \in BloomStates
  BY <1>4, <1>5, <1>6 DEF BloomStates
<1>8. ASSUME NEW p \in Node
      PROVE  \/ b.on_tree[p] = TRUE /\ BloomFrames(n, b, p) = <<Bloom(t[p])>>
             \/ /\ BloomFrames(n, b, p) = <<>>
                /\ t[p] = b.send[p] /\ (b.on_tree[p] = TRUE => t[p] # {})
  BY <1>4, <1>5 DEF BloomFrames
<1>9. ASSUME NEW p \in Node
      PROVE  BloomFrames(n, b, p) \in Seq(Frame)
  <2>1. CASE b.on_tree[p] = TRUE /\ BloomFrames(n, b, p) = <<Bloom(t[p])>>
    <3>1. t[p] \in SUBSET Bit
      BY <1>4, <1>5, <2>1
    <3>2. Bloom(t[p]) \in Frame
      BY <3>1 DEF Bloom, Frame, Filters
    <3> QED
      BY <2>1, <3>2
  <2>2. CASE BloomFrames(n, b, p) = <<>>
    BY <2>2
  <2> QED
    BY <1>8, <2>1, <2>2
<1>10. o \in [Node -> Seq(Frame)]
  BY <1>1, <1>9
<1>11. \A p \in linked[n] \cap Node : o[p] = r.out[p] \o BloomFrames(n, b, p)
  OBVIOUS
<1> HIDE DEF o
<1>12. s \in Turns(Frame) /\ s.p = r.p /\ s.b = c /\ s.out = o /\ s.got = r.got
  BY <1>7, <1>10 DEF Turns
<1>13. ASSUME NEW p \in Node
       PROVE  o[p] = r.out[p] \/ \E f \in Filters : o[p] = r.out[p] \o <<f>>
  <2>1. o[p] = r.out[p] \/ o[p] = r.out[p] \o BloomFrames(n, b, p)
    BY DEF o
  <2>2. CASE b.on_tree[p] = TRUE /\ BloomFrames(n, b, p) = <<Bloom(t[p])>>
    <3>1. t[p] \in SUBSET Bit
      BY <1>4, <1>5, <2>2
    <3>2. Bloom(t[p]) \in Filters
      BY <3>1 DEF Bloom, Filters
    <3> QED
      BY <2>1, <2>2, <3>2
  <2>3. CASE BloomFrames(n, b, p) = <<>>
    <3>1. r.out[p] \o <<>> = r.out[p]
      BY <1>1
    <3> QED
      BY <2>1, <2>3, <3>1
  <2> QED
    BY <1>8, <2>2, <2>3
<1> HIDE DEF s
<1>14. ASSUME NEW p \in linked[n] \cap Node
       PROVE  Noted(r, s, p)
  <2>1. CASE b.on_tree[p] = TRUE /\ BloomFrames(n, b, p) = <<Bloom(t[p])>>
    <3>1. t[p] \in SUBSET Bit
      BY <1>4, <1>5, <2>1
    <3>2. s.out[p] = r.out[p] \o <<Bloom(s.b.send[p])>>
      BY <1>6, <1>11, <1>12, <2>1
    <3> QED
      BY <3>1, <3>2, <1>6, <1>12 DEF Noted
  <2>2. CASE BloomFrames(n, b, p) = <<>> /\ t[p] = b.send[p] /\ (b.on_tree[p] = TRUE => t[p] # {})
    <3>1. r.out[p] \o <<>> = r.out[p]
      BY <1>1
    <3> QED
      BY <1>2, <1>6, <1>11, <1>12, <2>2, <3>1 DEF Noted
  <2> QED
    BY <1>8, <2>1, <2>2
<1>15. s.b.on_tree = BloomFix(n, r.b).on_tree
  BY <1>6, <1>12 DEF b
<1> QED
  BY <1>2, <1>3, <1>6, <1>12, <1>13, <1>14, <1>15

LEMMA ExpireType ==
  ASSUME NEW p \in PathStates
  PROVE  Expire(p) \in PathStates
<1> DEFINE t == [k \in Node |-> IF p.entries[k] # None /\ p.entries[k].deadline <= clock THEN None
                                ELSE p.entries[k]]
           D == {x \in DOMAIN p.rumors : p.rumors[x].deadline > clock}
           m == [x \in D |-> p.rumors[x]]
<1>1. p.entries \in [Node -> Entry \cup {None}] /\ p.rumors \in RumorTables
  BY DEF PathStates
<1>2. /\ DOMAIN p.rumors \in SUBSET PublicKey /\ IsFiniteSet(DOMAIN p.rumors)
      /\ p.rumors \in [DOMAIN p.rumors -> RumorEntry]
      /\ \A x \in DOMAIN p.rumors : Fits(x, p.rumors[x])
  BY <1>1, TableOf
<1>3. D \in SUBSET PublicKey /\ IsFiniteSet(D)
  BY <1>2, FS_Subset
<1>4. m \in [D -> RumorEntry] /\ \A x \in D : Fits(x, m[x])
  BY <1>2
<1>5. Expire(p) = [p EXCEPT !.entries = t, !.rumors = m]
  BY DEF Expire, Restrict
<1>6. m \in RumorTables
  <2> HIDE DEF m, D
  <2> QED
    BY <1>3, <1>4, TableIs
<1>7. t \in [Node -> Entry \cup {None}]
  BY <1>1
<1> HIDE DEF m, t
<1> QED
  BY <1>5, <1>6, <1>7 DEF PathStates

\* What n writes to k are new lookups, if it takes k for a tree neighbour.
Asks(n, r, k, t) ==
  \A i \in DOMAIN t : t[i].trail = <<n>> /\ k \in linked[n] \ {n} /\ r.b.on_tree[k] = TRUE

LEMMA LookAgainType ==
  ASSUME Around, NEW n \in Node, NEW r \in Turns(Frame), NEW s \in SetToSeqs(Unresolved(r.p))
  PROVE  LET u == LookAgain(n, r, s)
         IN  /\ u \in Turns(Frame) /\ Kept(r, u) /\ u.got = r.got
             /\ \A k \in Node : \E t \in Seq(Lookups) : u.out[k] = r.out[k] \o t /\ Asks(n, r, k, t)
             /\ DOMAIN u.p.rumors = DOMAIN r.p.rumors
             /\ \A x \in DOMAIN r.p.rumors : u.p.rumors[x].pending = r.p.rumors[x].pending
<1> DEFINE m == r.p.rumors
           dest(x) == r.p.rumors[x].dest
           to(k) == {i \in DOMAIN s : k \in Audience(n, r.b, n, XKey[dest(s[i])])}
           lookups(t) == [i \in DOMAIN t |-> PathLookup(n, dest(t[i]), Coords(n))]
           q == [x \in DOMAIN m |-> IF x \in Range(s) THEN Asked(m[x]) ELSE m[x]]
           o == [k \in Node |-> r.out[k] \o lookups(Pick(s, to(k)))]
           u == [r EXCEPT !.p = [@ EXCEPT !.rumors = q], !.out = o]
<1>1. r.p \in PathStates /\ m \in RumorTables /\ r.out \in [Node -> Seq(Frame)]
  BY DEF Turns, PathStates
<1>2. /\ DOMAIN m \in SUBSET PublicKey /\ IsFiniteSet(DOMAIN m)
      /\ m \in [DOMAIN m -> RumorEntry] /\ \A x \in DOMAIN m : Fits(x, m[x])
  <2> HIDE DEF m
  <2> QED
    BY <1>1, TableOf
<1>3. LookAgain(n, r, s) = u
  BY DEF LookAgain, Turns, PathStates
<1>4. /\ q \in [DOMAIN m -> RumorEntry]
      /\ \A x \in DOMAIN m : Fits(x, q[x]) /\ q[x].pending = m[x].pending
  <2> HIDE DEF m
  <2>1. ASSUME NEW x \in DOMAIN m
        PROVE  q[x] \in RumorEntry /\ q[x].pending = m[x].pending
    BY <1>2, <2>1, AskedType
  <2> QED
    BY <1>2, <2>1 DEF Fits
<1>5. q \in RumorTables
  <2> HIDE DEF q, m
  <2> QED
    BY <1>2, <1>4, TableIs
<1>6. s \in Seq(DOMAIN m)
  <2> DEFINE U == Unresolved(r.p)
  <2>1. U \subseteq DOMAIN m
    BY DEF Unresolved
  <2>2. IsFiniteSet(U)
    BY <1>2, <2>1, FS_Subset
  <2>3. Cardinality(U) \in Nat
    BY <2>2, FS_CardinalityType
  <2>4. s \in [1 .. Cardinality(U) -> U]
    BY DEF SetToSeqs
  <2> HIDE DEF U, m
  <2>5. s \in Seq(U)
    BY <2>3, <2>4
  <2> QED
    BY <2>1, <2>5
<1>7. ASSUME NEW k \in Node
      PROVE  lookups(Pick(s, to(k))) \in Seq(Lookups) /\ Asks(n, r, k, lookups(Pick(s, to(k))))
  <2> DEFINE t == Pick(s, to(k))
  <2>1. to(k) \in SUBSET DOMAIN s
    OBVIOUS
  <2>2. \A i \in to(k) : k \in linked[n] \ {n} /\ r.b.on_tree[k] = TRUE
    BY DEF Audience
  <2> HIDE DEF to
  <2>3. t \in Seq(DOMAIN m) /\ \A j \in DOMAIN t : \E i \in to(k) : t[j] = s[i]
    <3> HIDE DEF m
    <3> QED
      BY <1>6, <2>1, PickType
  <2> HIDE DEF t
  <2>4. DOMAIN t = 1 .. Len(t) /\ Len(t) \in Nat /\ \A i \in DOMAIN t : t[i] \in DOMAIN m
    BY <2>3
  <2>5. \A i \in DOMAIN t : dest(t[i]) \in PublicKey
    BY <1>2, <2>4 DEF RumorEntry
  <2> HIDE DEF dest
  <2>6. \A i \in 1 .. Len(t) : PathLookup(n, dest(t[i]), Coords(n)) \in Lookups
    BY <2>4, <2>5, LookupType
  <2>7. lookups(t) = [i \in 1 .. Len(t) |-> PathLookup(n, dest(t[i]), Coords(n))]
    BY <2>4
  <2>8. lookups(t) \in Seq(Lookups)
    <3> HIDE DEF lookups
    <3> QED
      BY <2>4, <2>6, <2>7
  <2>9. \A x : PathLookup(n, x, Coords(n)).trail = <<n>>
    BY DEF PathLookup
  <2>10. Asks(n, r, k, lookups(t))
    <3>1. DOMAIN lookups(t) = DOMAIN t /\ \A i \in DOMAIN t : lookups(t)[i].trail = <<n>>
      BY <2>4, <2>7, <2>9
    <3> HIDE DEF lookups
    <3> QED
      BY <2>2, <2>3, <3>1 DEF Asks
  <2> QED
    BY <2>8, <2>10 DEF t
<1> HIDE DEF to, lookups
<1>8. Lookups \subseteq Frame
  BY DEF Frame, Talk
<1>9. ASSUME NEW k \in Node
      PROVE  lookups(Pick(s, to(k))) \in Seq(Frame)
  <2> HIDE DEF Lookups
  <2> QED
    BY <1>7, <1>8
<1>10. o \in [Node -> Seq(Frame)]
  BY <1>1, <1>9
<1>11. \A k \in Node : o[k] = r.out[k] \o lookups(Pick(s, to(k)))
  OBVIOUS
<1> HIDE DEF o, q
<1>12. /\ [r.p EXCEPT !.rumors = q] \in PathStates /\ [r.p EXCEPT !.rumors = q].entries = r.p.entries
       /\ [r.p EXCEPT !.rumors = q].rumors = q
  BY <1>1, <1>5 DEF PathStates
<1>13. u \in Turns(Frame) /\ Kept(r, u) /\ u.out = o /\ u.got = r.got /\ u.p.rumors = q
  BY <1>10, <1>12 DEF Turns, Kept
<1>14. DOMAIN q = DOMAIN m
  BY <1>4
<1> HIDE DEF u
<1> QED
  BY <1>3, <1>4, <1>7, <1>11, <1>13, <1>14

-----------------------------------------------------------------------------
(* The last filter on a link *)

FilterAt(s) == {i \in DOMAIN s : s[i].type = "Bloom"}

IsLast(s, i) == i \in FilterAt(s) /\ \A j \in FilterAt(s) : j <= i

\* What a reader of s that holds x ends with.
LastHeld(s, x) ==
  IF FilterAt(s) = {} THEN x
  ELSE s[CHOOSE i \in FilterAt(s) : \A j \in FilterAt(s) : j <= i].filter

LEMMA LastBloomIs ==
  ASSUME NEW n, NEW p
  PROVE  LastBloom(n, p) = LastHeld(chan[n][p], blooms[p].recv[n])
BY DEF LastBloom, LastHeld, FilterAt

LEMMA TalkHasNone ==
  ASSUME NEW f \in Talk
  PROVE  f.type # "Bloom"
BY DEF Talk, Lookups, Notifies, Brokens, Payloads

LEMMA LastIs ==
  ASSUME NEW s \in Seq(Frame), NEW x, NEW i, IsLast(s, i)
  PROVE  LastHeld(s, x) = s[i].filter
<1>1. FilterAt(s) \subseteq Int
  BY DEF FilterAt
<1> DEFINE c == CHOOSE k \in FilterAt(s) : \A j \in FilterAt(s) : j <= k
<1>2. c \in FilterAt(s) /\ \A j \in FilterAt(s) : j <= c
  BY DEF IsLast
<1>3. c <= i /\ i <= c /\ c \in Int /\ i \in Int
  BY <1>1, <1>2 DEF IsLast
<1>4. c = i
  BY <1>3
<1> QED
  BY <1>4 DEF LastHeld, IsLast

LEMMA HasLast ==
  ASSUME NEW s \in Seq(Frame), FilterAt(s) # {}
  PROVE  \E i : IsLast(s, i)
<1> DEFINE I == FilterAt(s)
           T == {Len(s) - i : i \in I}
<1>1. Len(s) \in Nat /\ I \subseteq 1 .. Len(s)
  BY DEF FilterAt
<1> HIDE DEF I
<1>2. T \in SUBSET Nat /\ T # {}
  BY <1>1 DEF I
<1>3. PICK x \in T : \A y \in T : x <= y
  BY <1>2, LeastNat
<1>4. PICK i \in I : x = Len(s) - i
  BY <1>3
<1>5. ASSUME NEW j \in I
      PROVE  j <= i
  <2>1. x <= Len(s) - j
    BY <1>3
  <2> QED
    BY <1>1, <1>4, <2>1
<1> QED
  BY <1>4, <1>5 DEF IsLast, I

\* Only filters count.
LEMMA LastTalk ==
  ASSUME NEW s \in Seq(Frame), NEW t \in Seq(Talk), NEW x
  PROVE  LastHeld(s \o t, x) = LastHeld(s, x)
<1> HIDE DEF Talk
<1>1. t \in Seq(Frame)
  BY DEF Frame
<1>2. /\ s \o t \in Seq(Frame) /\ Len(s) \in Nat /\ Len(t) \in Nat
      /\ DOMAIN s = 1 .. Len(s) /\ DOMAIN (s \o t) = 1 .. (Len(s) + Len(t))
      /\ \A i \in 1 .. Len(s) : (s \o t)[i] = s[i]
      /\ \A i \in 1 .. (Len(s) + Len(t)) : i > Len(s) => (s \o t)[i] = t[i - Len(s)]
  <2> HIDE DEF Frame
  <2> QED
    BY <1>1
<1>3. ASSUME NEW i \in 1 .. (Len(s) + Len(t)), i > Len(s)
      PROVE  (s \o t)[i].type # "Bloom"
  <2>1. i - Len(s) \in 1 .. Len(t)
    BY <1>2, <1>3
  <2>2. t[i - Len(s)] \in Talk
    BY <2>1
  <2> QED
    BY <1>2, <1>3, <2>2, TalkHasNone
<1>4. FilterAt(s \o t) = FilterAt(s)
  <2>1. ASSUME NEW i \in FilterAt(s \o t)
        PROVE  i \in FilterAt(s)
    BY <1>2, <1>3 DEF FilterAt
  <2>2. ASSUME NEW i \in FilterAt(s)
        PROVE  i \in FilterAt(s \o t)
    BY <1>2 DEF FilterAt
  <2> QED
    BY <2>1, <2>2
<1>5. CASE FilterAt(s) = {}
  BY <1>4, <1>5 DEF LastHeld
<1>6. CASE FilterAt(s) # {}
  <2>1. PICK i : IsLast(s, i)
    BY <1>6, HasLast
  <2>2. IsLast(s \o t, i)
    BY <1>4, <2>1 DEF IsLast
  <2>3. (s \o t)[i] = s[i]
    BY <1>2, <2>1 DEF IsLast, FilterAt
  <2>4. LastHeld(s, x) = s[i].filter
    BY <2>1, LastIs
  <2>5. LastHeld(s \o t, x) = (s \o t)[i].filter
    <3> DEFINE st == s \o t
    <3>1. st \in Seq(Frame) /\ IsLast(st, i)
      BY <1>2, <2>2
    <3> HIDE DEF st
    <3>2. LastHeld(st, x) = st[i].filter
      BY <3>1, LastIs
    <3> QED
      BY <3>2 DEF st
  <2> QED
    BY <2>3, <2>4, <2>5
<1> QED
  BY <1>5, <1>6

LEMMA LastFilter ==
  ASSUME NEW s \in Seq(Frame), NEW f \in SUBSET Bit, NEW x
  PROVE  LastHeld(s \o <<Bloom(f)>>, x) = f
<1> DEFINE g == Bloom(f)
           st == s \o <<g>>
           i == Len(s) + 1
<1>1. g \in Frame /\ g.type = "Bloom" /\ g.filter = f
  BY DEF Bloom, Frame, Filters
<1> HIDE DEF g
<1>2. st \in Seq(Frame) /\ Len(s) \in Nat /\ DOMAIN st = 1 .. i /\ st[i] = g
  <2> HIDE DEF Frame
  <2> QED
    BY <1>1
<1> HIDE DEF st, i
<1>3. i \in Nat /\ i \in 1 .. i
  BY <1>2 DEF i
<1>4. IsLast(st, i)
  BY <1>1, <1>2, <1>3 DEF IsLast, FilterAt
<1>5. LastHeld(st, x) = st[i].filter
  BY <1>2, <1>4, LastIs
<1> QED
  BY <1>1, <1>2, <1>5 DEF st, g

LEMMA LastTail ==
  ASSUME NEW s \in Seq(Frame), s # <<>>, NEW x
  PROVE  LastHeld(Tail(s), IF Head(s).type = "Bloom" THEN Head(s).filter ELSE x) = LastHeld(s, x)
<1> DEFINE y == IF Head(s).type = "Bloom" THEN Head(s).filter ELSE x
           t == Tail(s)
<1>1. /\ t \in Seq(Frame) /\ Len(s) \in Nat /\ Len(s) > 0 /\ DOMAIN s = 1 .. Len(s)
      /\ DOMAIN t = 1 .. (Len(s) - 1)
      /\ \A i \in 1 .. (Len(s) - 1) : t[i] = s[i + 1]
      /\ Head(s) = s[1]
  <2> HIDE DEF Frame
  <2> QED
    OBVIOUS
<1> HIDE DEF t, y
<1>2. \A i \in FilterAt(t) : i + 1 \in FilterAt(s)
  BY <1>1 DEF FilterAt
<1>3. \A j \in FilterAt(s) : j # 1 => j - 1 \in FilterAt(t)
  BY <1>1 DEF FilterAt
<1>4. CASE FilterAt(t) = {}
  <2>1. LastHeld(t, y) = y
    BY <1>4 DEF LastHeld
  <2>2. CASE Head(s).type = "Bloom"
    <3>1. IsLast(s, 1)
      BY <1>1, <1>3, <1>4, <2>2 DEF IsLast, FilterAt
    <3>2. LastHeld(s, x) = s[1].filter
      BY <3>1, LastIs
    <3> QED
      BY <1>1, <2>1, <2>2, <3>2 DEF t, y
  <2>3. CASE Head(s).type # "Bloom"
    <3>1. FilterAt(s) = {}
      BY <1>1, <1>3, <1>4, <2>3 DEF FilterAt
    <3>2. LastHeld(s, x) = x
      BY <3>1 DEF LastHeld
    <3> QED
      BY <2>1, <2>3, <3>2 DEF t, y
  <2> QED
    BY <2>2, <2>3
<1>5. CASE FilterAt(t) # {}
  <2>1. PICK i : IsLast(t, i)
    BY <1>1, <1>5, HasLast
  <2>2. i \in Int /\ i >= 1 /\ t[i] = s[i + 1]
    BY <1>1, <2>1 DEF IsLast, FilterAt
  <2>3. FilterAt(s) \subseteq Int
    BY <1>1 DEF FilterAt
  <2>4. ASSUME NEW j \in FilterAt(s)
        PROVE  j <= i + 1
    <3>1. CASE j = 1
      BY <3>1, <2>2
    <3>2. CASE j # 1
      <4>1. j - 1 \in FilterAt(t)
        BY <1>3, <3>2
      <4>2. j - 1 <= i
        BY <4>1, <2>1 DEF IsLast
      <4> QED
        BY <4>2, <2>2, <2>3
    <3> QED
      BY <3>1, <3>2
  <2>5. IsLast(s, i + 1)
    BY <1>2, <2>1, <2>4 DEF IsLast
  <2>6. LastHeld(s, x) = s[i + 1].filter
    BY <2>5, LastIs
  <2>7. LastHeld(t, y) = t[i].filter
    BY <1>1, <2>1, LastIs
  <2> QED
    BY <2>2, <2>6, <2>7 DEF t, y
<1> QED
  BY <1>4, <1>5

-----------------------------------------------------------------------------
(* The invariant *)

\* Who has a link is on the other one's books, and what it was told last is
\* what the other one has recorded, unless that is a blank.
LinkInv(n, p) ==
  /\ p # n
  /\ blooms[p].recv[n] \in SUBSET Bit
  /\ blooms[n].on_tree[p] = TRUE \/ blooms[n].send[p] # {}
     => LastHeld(chan[n][p], blooms[p].recv[n]) = blooms[n].send[p]

BloomInv == \A n \in Node : \A p \in linked[n] : LinkInv(n, p)

IInv == TypeInv /\ BloomInv

LEMMA TurnIs ==
  ASSUME TypeInv, NEW n \in Node
  PROVE  /\ Around
         /\ Turn(n) \in Turns(Talk) /\ Turn(n).p = paths[n] /\ Turn(n).b = blooms[n]
         /\ Turn(n).out = [k \in Node |-> <<>>]
BY DEF TypeInv, Around, Turn, Turns

LEMMA TalkTurns ==
  ASSUME NEW r \in Turns(Talk)
  PROVE  r \in Turns(Frame)
<1>1. Talk \subseteq Frame
  BY DEF Frame
<1> HIDE DEF Talk
<1>2. r.out \in [Node -> Seq(Talk)]
  BY DEF Turns
<1>3. r.out \in [Node -> Seq(Frame)]
  <2>1. \A k \in Node : r.out[k] \in Seq(Frame)
    BY <1>1, <1>2
  <2> QED
    BY <1>2, <2>1
<1> QED
  BY <1>3 DEF Turns

\* A frame is read, or none.
Reading(n, read) ==
  \/ read = None
  \/ read \in Node /\ read # n /\ chan[read][n] # <<>>

LEMMA StepType ==
  ASSUME TypeInv, NEW n \in Node, NEW r \in Turns(Frame), NEW read, Reading(n, read),
         Step(n, r, read), clock' \in Nat, linked' = linked, infos' = infos, sends' \in Nat
  PROVE  TypeInv'
<1>1. /\ r.p \in PathStates /\ r.b \in BloomStates /\ r.out \in [Node -> Seq(Frame)]
      /\ r.got \in Seq(Nat) /\ r.sess \in [Node -> SUBSET Node]
  BY DEF Turns
<1> DEFINE next(k, p) == IF k = n THEN chan[k][p] \o r.out[p]
                         ELSE IF k = read /\ p = n THEN Tail(chan[k][p])
                         ELSE chan[k][p]
<1>2. ASSUME NEW k \in Node, NEW p \in Node
      PROVE  next(k, p) \in Seq(Frame)
  <2>1. chan[k][p] \in Seq(Frame) /\ r.out[p] \in Seq(Frame)
    BY <1>1 DEF TypeInv
  <2>2. CASE k = n
    BY <2>1, <2>2
  <2>3. CASE k # n /\ k = read /\ p = n
    <3>1. chan[k][p] # <<>>
      BY <2>3, RoutingAssumption DEF Reading
    <3>2. Tail(chan[k][p]) \in Seq(Frame)
      BY <2>1, <3>1
    <3> QED
      BY <2>3, <3>2
  <2>4. CASE k # n /\ ~(k = read /\ p = n)
    BY <2>1, <2>4
  <2> QED
    BY <2>2, <2>3, <2>4
<1>3. chan' = [k \in Node |-> [p \in Node |-> next(k, p)]]
  BY DEF Step
<1> HIDE DEF next
<1>4. chan' \in [Node -> [Node -> Seq(Frame)]]
  BY <1>2, <1>3
<1>5. /\ paths' \in [Node -> PathStates] /\ blooms' \in [Node -> BloomStates]
      /\ got' \in [Node -> Seq(Nat)] /\ sess' \in [Node -> SUBSET Node]
  BY <1>1 DEF Step, TypeInv
<1> QED
  BY <1>4, <1>5 DEF TypeInv

\* What n has written after its step is what it has recorded.
Writes(n, r) ==
  \A p \in linked[n] :
    r.b.on_tree[p] = TRUE \/ r.b.send[p] # {}
    => LastHeld(chan[n][p] \o r.out[p], blooms[p].recv[n]) = r.b.send[p]

\* What n has read is what it holds.
Reads(n, r, read) ==
  \A m \in Node : n \in linked[m] =>
    r.b.recv[m] = IF m = read /\ Head(chan[m][n]).type = "Bloom"
                  THEN Head(chan[m][n]).filter ELSE blooms[n].recv[m]

LEMMA StepBlooms ==
  ASSUME IInv, NEW n \in Node, NEW r \in Turns(Frame), NEW read, Reading(n, read),
         Step(n, r, read), linked' = linked, Writes(n, r), Reads(n, r, read)
  PROVE  BloomInv'
<1> SUFFICES ASSUME NEW m \in Node, NEW q \in linked[m]
             PROVE  LinkInv(m, q)'
  BY DEF BloomInv
<1>1. LinkInv(m, q) /\ q \in Node /\ m # q
  BY DEF IInv, BloomInv, LinkInv, TypeInv
<1>2. /\ chan' = [k \in Node |-> [p \in Node |->
                IF k = n THEN chan[k][p] \o r.out[p]
                ELSE IF k = read /\ p = n THEN Tail(chan[k][p])
                ELSE chan[k][p]]]
      /\ blooms' = [blooms EXCEPT ![n] = r.b] /\ blooms \in [Node -> BloomStates]
  BY DEF Step, IInv, TypeInv
<1>3. /\ blooms'[n] = r.b /\ \A k \in Node \ {n} : blooms'[k] = blooms[k]
      /\ \A p \in Node : chan'[n][p] = chan[n][p] \o r.out[p]
      /\ \A k \in Node \ {n} : k # read => chan'[k][n] = chan[k][n]
      /\ read \in Node \ {n} => chan'[read][n] = Tail(chan[read][n])
      /\ \A k \in Node \ {n} : \A p \in Node \ {n} : chan'[k][p] = chan[k][p]
  BY <1>2
<1>4. CASE m = n
  <2>1. blooms'[q] = blooms[q] /\ blooms'[m] = r.b /\ chan'[m][q] = chan[n][q] \o r.out[q]
    BY <1>1, <1>3, <1>4
  <2> QED
    BY <1>1, <1>4, <2>1 DEF LinkInv, Writes
<1>5. CASE m # n /\ q # n
  <2>1. blooms'[q] = blooms[q] /\ blooms'[m] = blooms[m] /\ chan'[m][q] = chan[m][q]
    BY <1>1, <1>3, <1>5
  <2> QED
    BY <1>1, <2>1 DEF LinkInv
<1>6. CASE m # n /\ q = n /\ m # read
  <2>1. blooms'[m] = blooms[m] /\ chan'[m][n] = chan[m][n] /\ blooms'[n] = r.b
    BY <1>3, <1>6
  <2>2. r.b.recv[m] = blooms[n].recv[m]
    BY <1>6 DEF Reads
  <2> QED
    BY <1>1, <1>6, <2>1, <2>2 DEF LinkInv
<1>7. CASE m # n /\ q = n /\ m = read
  <2> DEFINE s == chan[m][n]
             x == blooms[n].recv[m]
             y == IF Head(s).type = "Bloom" THEN Head(s).filter ELSE x
  <2>1. blooms'[m] = blooms[m] /\ chan'[m][n] = Tail(s) /\ blooms'[n] = r.b
    BY <1>3, <1>7
  <2>2. r.b.recv[m] = y
    BY <1>7 DEF Reads
  <2>3. s # <<>> /\ s \in Seq(Frame)
    BY <1>7, RoutingAssumption DEF Reading, IInv, TypeInv
  <2>4. LastHeld(Tail(s), y) = LastHeld(s, x)
    <3> HIDE DEF s, x
    <3> QED
      BY <2>3, LastTail
  <2>5. y \in SUBSET Bit
    <3>1. Head(s) \in Frame
      <4> HIDE DEF Frame
      <4> QED
        BY <2>3
    <3>2. Head(s).type = "Bloom" => Head(s) \in Filters
      BY <3>1, TalkHasNone DEF Frame
    <3>3. x \in SUBSET Bit
      BY <1>1, <1>7 DEF LinkInv
    <3> QED
      BY <3>2, <3>3 DEF Filters
  <2> HIDE DEF s, x, y
  <2>6. LastHeld(s, x) = LastHeld(chan[m][q], blooms[q].recv[m])
    BY <1>7 DEF s, x
  <2> QED
    BY <1>1, <1>7, <2>1, <2>2, <2>4, <2>5, <2>6 DEF LinkInv
<1> QED
  BY <1>4, <1>5, <1>6, <1>7

\* A handler that writes no filter keeps what was recorded.
LEMMA TalkWrites ==
  ASSUME IInv, NEW n \in Node, NEW r \in Turns(Talk), r.b = blooms[n]
  PROVE  Writes(n, r)
<1> SUFFICES ASSUME NEW p \in linked[n], r.b.on_tree[p] = TRUE \/ r.b.send[p] # {}
             PROVE  LastHeld(chan[n][p] \o r.out[p], blooms[p].recv[n]) = r.b.send[p]
  BY DEF Writes
<1>1. p \in Node /\ LinkInv(n, p)
  BY DEF IInv, BloomInv, TypeInv
<1>2. chan[n][p] \in Seq(Frame) /\ r.out[p] \in Seq(Talk)
  BY <1>1 DEF IInv, TypeInv, Turns
<1>3. LastHeld(chan[n][p] \o r.out[p], blooms[p].recv[n]) = LastHeld(chan[n][p], blooms[p].recv[n])
  BY <1>2, LastTalk
<1> QED
  BY <1>1, <1>3 DEF LinkInv

LEMMA TalkReads ==
  ASSUME NEW n \in Node, NEW r, r.b = blooms[n], NEW read,
         read = None \/ Head(chan[read][n]).type # "Bloom"
  PROVE  Reads(n, r, read)
BY RoutingAssumption DEF Reads

LEMMA ReadKeeps ==
  ASSUME IInv, NEW n \in Node, NEW p \in Node, Read(n, p)
  PROVE  IInv'
<1> DEFINE f == Head(chan[p][n])
           s == chan[p][n]
<1>1. PICK fav \in linked[n] : Step(n, Dispatch(n, Turn(n), p, f, fav), p)
  BY DEF Read
<1> DEFINE r == Dispatch(n, Turn(n), p, f, fav)
<1>2. /\ clock' \in Nat /\ linked' = linked /\ infos' = infos /\ sends' \in Nat /\ p \in linked[n]
      /\ s # <<>>
  BY DEF Read, IInv, TypeInv
<1>3. p # n
  BY <1>2 DEF IInv, BloomInv, LinkInv
<1>4. Reading(n, p)
  BY <1>2, <1>3 DEF Reading
<1>5. /\ Around
      /\ Turn(n) \in Turns(Talk) /\ Turn(n).p = paths[n] /\ Turn(n).b = blooms[n]
      /\ Turn(n).out = [k \in Node |-> <<>>]
  BY TurnIs DEF IInv
<1>6. f \in Frame
  <2>1. s \in Seq(Frame)
    BY DEF IInv, TypeInv
  <2> HIDE DEF Frame
  <2> QED
    BY <1>2, <2>1
<1>7. ASSUME r \in Turns(Talk), Writes(n, r), Reads(n, r, p)
      PROVE  IInv'
  <2> HIDE DEF r
  <2>1. r \in Turns(Frame)
    BY <1>7, TalkTurns
  <2>2. Step(n, r, p)
    BY <1>1 DEF r
  <2>3. TypeInv'
    BY <1>2, <1>4, <2>1, <2>2, StepType DEF IInv
  <2>4. BloomInv'
    BY <1>2, <1>4, <1>7, <2>1, <2>2, StepBlooms
  <2> QED
    BY <2>3, <2>4 DEF IInv
<1>8. CASE f \in Talk
  <2>1. r \in Turns(Talk) /\ SameBlooms(Turn(n), r) /\ f.type # "Bloom"
    <3> HIDE DEF f
    <3> QED
      BY <1>5, <1>8, DispatchTalk
  <2> HIDE DEF r
  <2>2. r.b = blooms[n]
    BY <1>5, <2>1 DEF SameBlooms
  <2>3. Writes(n, r)
    BY <2>1, <2>2, TalkWrites
  <2>4. Reads(n, r, p)
    BY <2>1, <2>2, TalkReads
  <2> QED
    BY <1>7, <2>1, <2>3, <2>4
<1>9. CASE f \in Filters
  <2>1. /\ r \in Turns(Talk) /\ r.p = paths[n] /\ r.out = [k \in Node |-> <<>>]
        /\ r.b.send = blooms[n].send /\ r.b.on_tree = blooms[n].on_tree
        /\ r.b.recv = [blooms[n].recv EXCEPT ![p] = IF @ = None THEN None ELSE f.filter]
    <3> HIDE DEF f
    <3> QED
      BY <1>5, <1>9, DispatchBloom
  <2> HIDE DEF r
  <2>3. Writes(n, r)
    <3> SUFFICES ASSUME NEW q \in linked[n], r.b.on_tree[q] = TRUE \/ r.b.send[q] # {}
                 PROVE  LastHeld(chan[n][q] \o r.out[q], blooms[q].recv[n]) = r.b.send[q]
      BY DEF Writes
    <3>1. q \in Node /\ LinkInv(n, q)
      BY DEF IInv, BloomInv, TypeInv
    <3>2. chan[n][q] \in Seq(Frame) /\ r.out[q] = <<>>
      BY <3>1, <2>1 DEF IInv, TypeInv
    <3>3. chan[n][q] \o r.out[q] = chan[n][q]
      BY <3>2
    <3> QED
      BY <2>1, <3>1, <3>3 DEF LinkInv
  <2>4. Reads(n, r, p)
    <3> SUFFICES ASSUME NEW m \in Node, n \in linked[m]
                 PROVE  r.b.recv[m] = IF m = p /\ Head(chan[m][n]).type = "Bloom"
                                      THEN Head(chan[m][n]).filter ELSE blooms[n].recv[m]
      BY DEF Reads
    <3>1. blooms[n].recv[m] \in SUBSET Bit
      BY DEF IInv, BloomInv, LinkInv
    <3>2. blooms[n].recv[m] # None
      BY <3>1, RoutingAssumption DEF Bit
    <3>3. DOMAIN blooms[n].recv = Node
      BY DEF IInv, TypeInv, BloomStates, Books
    <3>4. f.type = "Bloom"
      BY <1>9 DEF Filters
    <3> QED
      BY <2>1, <3>2, <3>3, <3>4
  <2> QED
    BY <1>7, <2>1, <2>3, <2>4
<1> QED
  BY <1>6, <1>8, <1>9 DEF Frame

LEMMA MaintainKeeps ==
  ASSUME IInv, NEW n \in Node, Maintain(n)
  PROVE  IInv'
<1> DEFINE t == Turn(n)
           r == BloomMaintenance(n, t)
           e == [r EXCEPT !.p = Expire(@)]
<1>1. PICK s \in SetToSeqs(Unresolved(e.p)) : Step(n, LookAgain(n, e, s), None)
  BY DEF Maintain
<1> DEFINE u == LookAgain(n, e, s)
<1>2. clock' \in Nat /\ linked' = linked /\ infos' = infos /\ sends' \in Nat
  BY DEF Maintain, IInv, TypeInv
<1>3. Reading(n, None)
  BY DEF Reading
<1>4. /\ Around
      /\ t \in Turns(Frame) /\ t.p = paths[n] /\ t.b = blooms[n]
      /\ t.out = [k \in Node |-> <<>>]
  BY TurnIs, TalkTurns DEF IInv
<1> HIDE DEF t
<1>5. /\ r \in Turns(Frame) /\ r.p = t.p /\ r.b.recv = t.b.recv
      /\ \A p \in linked[n] \cap Node : Noted(t, r, p)
  BY <1>4, MaintenanceType
<1> HIDE DEF r
<1>6. Expire(r.p) \in PathStates
  BY <1>5, ExpireType DEF Turns
<1>7. e \in Turns(Frame) /\ e.b = r.b /\ e.out = r.out /\ e.p = Expire(r.p)
  BY <1>5, <1>6 DEF Turns
<1> HIDE DEF e
<1>8. /\ u \in Turns(Frame) /\ Kept(e, u)
      /\ \A k \in Node : \E x \in Seq(Talk) : u.out[k] = e.out[k] \o x
  <2>1. /\ u \in Turns(Frame) /\ Kept(e, u)
        /\ \A k \in Node : \E x \in Seq(Lookups) : u.out[k] = e.out[k] \o x
    BY <1>4, <1>7, LookAgainType
  <2>2. Lookups \subseteq Talk
    BY DEF Talk
  <2>3. \A x \in Seq(Lookups) : x \in Seq(Talk)
    <3> HIDE DEF Lookups, Talk
    <3> QED
      BY <2>2
  <2> QED
    BY <2>1, <2>3
<1>9. Step(n, u, None)
  BY <1>1
<1> HIDE DEF u
<1>10. TypeInv'
  BY <1>2, <1>3, <1>8, <1>9, StepType DEF IInv
<1>13. Reads(n, u, None)
  BY <1>4, <1>5, <1>7, <1>8, RoutingAssumption DEF Reads, Kept
<1>14. Writes(n, u)
  <2> SUFFICES ASSUME NEW p \in linked[n], u.b.on_tree[p] = TRUE \/ u.b.send[p] # {}
               PROVE  LastHeld(chan[n][p] \o u.out[p], blooms[p].recv[n]) = u.b.send[p]
    BY DEF Writes
  <2> DEFINE c == chan[n][p]
             h == blooms[p].recv[n]
  <2>1. p \in Node /\ LinkInv(n, p) /\ c \in Seq(Frame)
    BY DEF IInv, BloomInv, TypeInv
  <2>2. PICK x \in Seq(Talk) : u.out[p] = r.out[p] \o x
    BY <1>7, <1>8, <2>1
  <2>3. u.b = r.b /\ t.out[p] = <<>> /\ Noted(t, r, p)
    BY <1>4, <1>5, <1>7, <1>8, <2>1 DEF Kept
  <2>4. r.out[p] \in Seq(Frame)
    BY <1>5, <2>1 DEF Turns
  <2>5. x \in Seq(Frame)
    <3>1. Talk \subseteq Frame
      BY DEF Frame
    <3> HIDE DEF Talk, Frame
    <3> QED
      BY <3>1
  <2>6. c \o u.out[p] = (c \o r.out[p]) \o x /\ c \o r.out[p] \in Seq(Frame)
    <3> DEFINE a == r.out[p]
    <3>1. a \in Seq(Frame) /\ u.out[p] = a \o x
      BY <2>2, <2>4
    <3> HIDE DEF Talk, Frame, c, a
    <3>2. c \o (a \o x) = (c \o a) \o x /\ c \o a \in Seq(Frame)
      BY <2>1, <2>5, <3>1
    <3> QED
      BY <3>1, <3>2 DEF a
  <2>7. LastHeld(c \o u.out[p], h) = LastHeld(c \o r.out[p], h)
    <3> DEFINE cr == c \o r.out[p]
    <3>1. cr \in Seq(Frame)
      BY <2>6
    <3> HIDE DEF cr, h
    <3>2. LastHeld(cr \o x, h) = LastHeld(cr, h)
      BY <3>1, LastTalk
    <3> QED
      BY <2>6, <3>2 DEF cr
  <2>8. CASE r.out[p] = t.out[p] \o <<Bloom(r.b.send[p])>> /\ r.b.send[p] \in SUBSET Bit
    <3>1. r.out[p] = <<Bloom(r.b.send[p])>>
      BY <2>3, <2>8
    <3>2. LastHeld(c \o r.out[p], h) = r.b.send[p]
      <4> DEFINE g == r.b.send[p]
      <4> HIDE DEF g, c, h
      <4>1. LastHeld(c \o <<Bloom(g)>>, h) = g
        BY <2>1, <2>8, LastFilter DEF g
      <4> QED
        BY <3>1, <4>1 DEF g
    <3> QED
      BY <2>3, <2>7, <3>2
  <2>9. CASE /\ r.out[p] = t.out[p]
             /\ r.b.send[p] \in {t.b.send[p], {}}
             /\ r.b.on_tree[p] = TRUE => r.b.send[p] # {}
    <3>1. r.b.send[p] # {} /\ r.b.send[p] = blooms[n].send[p]
      BY <1>4, <2>3, <2>9
    <3>2. c \o r.out[p] = c
      BY <2>1, <2>3, <2>9
    <3>3. LastHeld(c, h) = blooms[n].send[p]
      BY <2>1, <3>1 DEF LinkInv
    <3> QED
      BY <2>3, <2>7, <3>1, <3>2, <3>3
  <2> QED
    BY <2>3, <2>8, <2>9 DEF Noted
<1>15. BloomInv'
  BY <1>2, <1>3, <1>8, <1>9, <1>13, <1>14, StepBlooms
<1> QED
  BY <1>10, <1>15 DEF IInv

\* A step without a frame that was read.
LEMMA SendStep ==
  ASSUME IInv, NEW n \in Node, NEW r \in Turns(Talk), Kept(Turn(n), r), Step(n, r, None),
         clock' \in Nat, linked' = linked, infos' = infos, sends' \in Nat
  PROVE  IInv'
<1>1. r.b = blooms[n]
  BY TurnIs DEF IInv, Kept
<1>2. Reading(n, None) /\ r \in Turns(Frame) /\ Writes(n, r)
  BY <1>1, TalkTurns, TalkWrites DEF Reading
<1>3. Reads(n, r, None)
  BY <1>1, TalkReads
<1>4. TypeInv'
  BY <1>2, StepType DEF IInv
<1>5. BloomInv'
  BY <1>2, <1>3, StepBlooms
<1> QED
  BY <1>4, <1>5 DEF IInv

\* Whatever address of d is used, it leads to d and to no other node.
LEMMA OwnerOf ==
  ASSUME NEW d \in Node, NEW a \in AddressesOf[d]
  PROVE  /\ LookupKeyForAddr(a) \in PublicKey
         /\ XKey[LookupKeyForAddr(a)] = XOf[d]
         /\ \A k \in Node : a \in AddressesOf[k] => k = d
<1>1. a \in Address /\ \A k \in Node : a \in AddressesOf[k] => Owns(PubKey[k], a)
  BY DEF AddressesOf
<1>2. \A k \in Node : a \in AddressesOf[k] => XKey[LookupKeyForAddr(a)] = XOf[k]
  BY <1>1, AddressesResolve, KeysKnown DEF Resolves
<1> QED
  BY <1>1, <1>2, KeysKnown

LEMMA SendsKeep ==
  ASSUME IInv, NEW n \in Node, NEW d \in Node, SendOrResolve(n, d) \/ SendToKey(n, d)
  PROVE  IInv'
<1> DEFINE data == [id |-> sends + 1, to |-> d, seals |-> 0]
           t == Turn(n)
<1>1. sends \in Nat
  BY DEF IInv, TypeInv
<1>2. data \in Data /\ data.to = d
  BY <1>1 DEF Data
<1>3. clock' \in Nat /\ linked' = linked /\ infos' = infos /\ sends' \in Nat
  BY <1>1, SMTT(30) DEF SendOrResolve, SendToKey, IInv, TypeInv
<1>4. Around /\ t \in Turns(Talk)
  BY TurnIs DEF IInv
<1>5. CASE SendToKey(n, d)
  <2>1. PICK fav \in linked[n] : Step(n, SessionSend(n, t, d, data, fav), None)
    BY <1>5 DEF SendToKey
  <2> DEFINE r == SessionSend(n, t, d, data, fav)
  <2> HIDE DEF data
  <2>2. r \in Turns(Talk) /\ Kept(t, r)
    <3> HIDE DEF t
    <3> QED
      BY <1>2, <1>4, SessionSendType
  <2>3. Step(n, r, None)
    BY <2>1
  <2> HIDE DEF r
  <2> QED
    BY <1>3, <2>2, <2>3, SendStep
<1>6. CASE SendOrResolve(n, d)
  <2>1. PICK fav \in linked[n], a \in InUse(d) :
          Step(n, IF KeysFor(n, a) = {}
                  THEN HoldForLookup(n, t, LookupKeyForAddr(a), data)
                  ELSE SessionSend(n, t, CHOOSE k \in KeysFor(n, a) : TRUE, data, fav), None)
    BY <1>6 DEF SendOrResolve
  <2>2. a \in AddressesOf[d]
    BY DEF InUse
  <2> DEFINE key == LookupKeyForAddr(a)
  <2>3. key \in PublicKey /\ XKey[key] = XOf[d] /\ \A k \in Node : a \in AddressesOf[k] => k = d
    BY <2>2, OwnerOf
  <2> HIDE DEF data, key
  <2>4. CASE KeysFor(n, a) = {}
    <3> DEFINE r == HoldForLookup(n, t, key, data)
    <3>1. r \in Turns(Talk) /\ Kept(t, r)
      <4> HIDE DEF t
      <4> QED
        BY <1>2, <1>4, <2>3, HoldType
    <3>2. Step(n, r, None)
      BY <2>1, <2>4 DEF key
    <3> HIDE DEF r
    <3> QED
      BY <1>3, <3>1, <3>2, SendStep
  <2>5. CASE KeysFor(n, a) # {}
    <3> DEFINE r == SessionSend(n, t, d, data, fav)
    <3>1. (CHOOSE k \in KeysFor(n, a) : TRUE) \in KeysFor(n, a)
      BY <2>5
    <3>2. (CHOOSE k \in KeysFor(n, a) : TRUE) = d
      BY <2>3, <3>1 DEF KeysFor
    <3>3. r \in Turns(Talk) /\ Kept(t, r)
      <4> HIDE DEF t
      <4> QED
        BY <1>2, <1>4, SessionSendType
    <3>4. Step(n, r, None)
      BY <2>1, <2>5, <3>2
    <3> HIDE DEF r
    <3> QED
      BY <1>3, <3>3, <3>4, SendStep
  <2> QED
    BY <2>4, <2>5
<1> QED
  BY <1>5, <1>6

LEMMA InfosKeep ==
  ASSUME IInv, NEW n \in Node, NEW k \in Node, Move(n) \/ Hear(n, k)
  PROVE  IInv'
<1>1. UNCHANGED <<clock, linked, chan, paths, blooms, sess, got, sends>>
  BY DEF Move, Hear
<1>2. infos' \in [Node -> InfosType]
  <2>1. infos \in [Node -> InfosType]
    BY DEF IInv, TypeInv
  <2>2. CASE Move(n)
    <3>1. PICK p : p \in Node \cup {None} /\ infos' = [infos EXCEPT ![n][n] = p]
      BY <2>2, RoutingAssumption DEF Move
    <3> QED
      BY <2>1, <3>1 DEF InfosType
  <2>3. CASE Hear(n, k)
    <3>1. infos' = [infos EXCEPT ![n][k] = infos[k][k]]
      BY <2>3 DEF Hear
    <3> QED
      BY <2>1, <3>1 DEF InfosType
  <2> QED
    BY <2>2, <2>3
<1>3. TypeInv'
  BY <1>1, <1>2 DEF IInv, TypeInv
<1>4. BloomInv'
  BY <1>1 DEF IInv, BloomInv, LinkInv
<1> QED
  BY <1>3, <1>4 DEF IInv

LEMMA AddPeerType ==
  ASSUME NEW b \in BloomStates, NEW p \in Node
  PROVE  LET c == AddPeer(b, p)
         IN  /\ c \in BloomStates
             /\ c.send[p] \in SUBSET Bit /\ c.recv[p] \in SUBSET Bit
             /\ \A k \in Node \ {p} : /\ c.send[k] = b.send[k] /\ c.recv[k] = b.recv[k]
                                      /\ c.on_tree[k] = b.on_tree[k]
<1> DEFINE s == [b.send EXCEPT ![p] = IF b.send[p] = None THEN {} ELSE b.send[p]]
           r == [b.recv EXCEPT ![p] = IF b.recv[p] = None THEN {} ELSE b.recv[p]]
           few == Cardinality({k \in Node : b.on_tree[k] # None}) < CAPACITY
           o == [b.on_tree EXCEPT ![p] = IF b.on_tree[p] = None /\ few THEN FALSE ELSE b.on_tree[p]]
           c == [send |-> s, recv |-> r, on_tree |-> o]
<1>1. b \in Books /\ \A k \in Node : b.on_tree[k] # None => {b.send[k], b.recv[k]} \subseteq SUBSET Bit
  BY DEF BloomStates
<1>2. AddPeer(b, p) = c
  BY DEF AddPeer
<1> HIDE DEF few
<1>3. /\ s \in [Node -> (SUBSET Bit) \cup {None}] /\ s[p] \in SUBSET Bit
      /\ \A k \in Node \ {p} : s[k] = b.send[k]
  BY <1>1 DEF Books
<1>4. /\ r \in [Node -> (SUBSET Bit) \cup {None}] /\ r[p] \in SUBSET Bit
      /\ \A k \in Node \ {p} : r[k] = b.recv[k]
  BY <1>1 DEF Books
<1>5. o \in [Node -> BOOLEAN \cup {None}] /\ \A k \in Node \ {p} : o[k] = b.on_tree[k]
  BY <1>1 DEF Books
<1> HIDE DEF s, r, o
<1>6. c \in Books /\ c.send = s /\ c.recv = r /\ c.on_tree = o
  BY <1>3, <1>4, <1>5 DEF Books
<1> HIDE DEF c
<1>7. c \in BloomStates
  BY <1>1, <1>3, <1>4, <1>5, <1>6 DEF BloomStates
<1> QED
  BY <1>2, <1>3, <1>4, <1>5, <1>6, <1>7

LEMMA OneFilter ==
  ASSUME NEW f \in SUBSET Bit, NEW x
  PROVE  <<Bloom(f)>> \in Seq(Frame) /\ LastHeld(<<Bloom(f)>>, x) = f
<1>1. Bloom(f) \in Frame
  BY DEF Bloom, Frame, Filters
<1>2. LastHeld(<<>> \o <<Bloom(f)>>, x) = f
  <2> DEFINE e == <<>>
  <2>1. e \in Seq(Frame)
    OBVIOUS
  <2> HIDE DEF e
  <2>2. LastHeld(e \o <<Bloom(f)>>, x) = f
    BY <2>1, LastFilter
  <2> QED
    BY <2>2 DEF e
<1> DEFINE g == Bloom(f)
<1>3. g \in Frame
  BY <1>1
<1> HIDE DEF g, Frame
<1>4. <<>> \o <<g>> = <<g>> /\ <<g>> \in Seq(Frame)
  BY <1>3
<1> QED
  BY <1>2, <1>4 DEF g

LEMMA ConnectKeeps ==
  ASSUME IInv, NEW n \in Node, NEW p \in Node, Connect(n, p)
  PROVE  IInv'
<1> DEFINE nb == AddPeer(blooms[n], p)
           pb == AddPeer(blooms[p], n)
           nf == <<Bloom(nb.send[p])>>
           pf == <<Bloom(pb.send[n])>>
<1>1. /\ n # p
      /\ linked' = [linked EXCEPT ![n] = @ \cup {p}, ![p] = @ \cup {n}]
      /\ blooms' = [blooms EXCEPT ![n] = nb, ![p] = pb]
      /\ chan' = [chan EXCEPT ![n][p] = nf, ![p][n] = pf]
      /\ UNCHANGED <<clock, infos, paths, sess, got, sends>>
  BY DEF Connect
<1>2. blooms[n] \in BloomStates /\ blooms[p] \in BloomStates
  BY DEF IInv, TypeInv
<1>3. /\ nb \in BloomStates
      /\ nb.send[p] \in SUBSET Bit /\ nb.recv[p] \in SUBSET Bit
      /\ \A k \in Node \ {p} : /\ nb.send[k] = blooms[n].send[k] /\ nb.recv[k] = blooms[n].recv[k]
                               /\ nb.on_tree[k] = blooms[n].on_tree[k]
  BY <1>2, AddPeerType
<1>4. /\ pb \in BloomStates
      /\ pb.send[n] \in SUBSET Bit /\ pb.recv[n] \in SUBSET Bit
      /\ \A k \in Node \ {n} : /\ pb.send[k] = blooms[p].send[k] /\ pb.recv[k] = blooms[p].recv[k]
                               /\ pb.on_tree[k] = blooms[p].on_tree[k]
  BY <1>2, AddPeerType
<1> HIDE DEF nb, pb
<1>5. /\ nf \in Seq(Frame) /\ \A x : LastHeld(nf, x) = nb.send[p]
      /\ pf \in Seq(Frame) /\ \A x : LastHeld(pf, x) = pb.send[n]
  BY <1>3, <1>4, OneFilter
<1> HIDE DEF nf, pf
<1>6. /\ linked \in [Node -> SUBSET Node] /\ blooms \in [Node -> BloomStates]
      /\ chan \in [Node -> [Node -> Seq(Frame)]]
  BY DEF IInv, TypeInv
<1>7. /\ linked' \in [Node -> SUBSET Node] /\ blooms' \in [Node -> BloomStates]
      /\ chan' \in [Node -> [Node -> Seq(Frame)]]
  BY <1>1, <1>3, <1>4, <1>5, <1>6
<1>8. TypeInv'
  BY <1>1, <1>7 DEF IInv, TypeInv
<1>9. /\ blooms'[n] = nb /\ blooms'[p] = pb /\ \A k \in Node \ {n, p} : blooms'[k] = blooms[k]
      /\ chan'[n][p] = nf /\ chan'[p][n] = pf
      /\ \A k, q \in Node : ~(k = n /\ q = p) /\ ~(k = p /\ q = n) => chan'[k][q] = chan[k][q]
  <2>1. /\ chan'[n] = [chan[n] EXCEPT ![p] = nf] /\ chan'[p] = [chan[p] EXCEPT ![n] = pf]
        /\ \A k \in Node \ {n, p} : chan'[k] = chan[k]
    BY <1>1, <1>6
  <2> QED
    BY <1>1, <1>6, <2>1
<1>10. ASSUME NEW m \in Node, NEW q \in linked'[m]
       PROVE  LinkInv(m, q)'
  <2>1. q \in Node
    BY <1>7
  <2>2. CASE m = n /\ q = p
    <3>1. blooms'[m] = nb /\ blooms'[q] = pb /\ chan'[m][q] = nf /\ p # n
      BY <1>1, <1>9, <2>2
    <3> QED
      BY <1>4, <1>5, <2>2, <3>1 DEF LinkInv
  <2>3. CASE m = p /\ q = n
    <3>1. blooms'[m] = pb /\ blooms'[q] = nb /\ chan'[m][q] = pf /\ p # n
      BY <1>1, <1>9, <2>3
    <3> QED
      BY <1>3, <1>5, <2>3, <3>1 DEF LinkInv
  <2>4. CASE ~(m = n /\ q = p) /\ ~(m = p /\ q = n)
    <3>1. q \in linked[m]
      BY <1>1, <1>6, <2>1, <2>4
    <3>2. LinkInv(m, q)
      BY <3>1 DEF IInv, BloomInv
    <3>3. m # q
      BY <3>2 DEF LinkInv
    <3>4. chan'[m][q] = chan[m][q]
      BY <1>9, <2>1, <2>4
    <3>5. blooms'[m].send[q] = blooms[m].send[q] /\ blooms'[m].on_tree[q] = blooms[m].on_tree[q]
      BY <1>3, <1>4, <1>9, <2>1, <2>4
    <3>6. blooms'[q].recv[m] = blooms[q].recv[m]
      BY <1>3, <1>4, <1>9, <2>1, <2>4
    <3> QED
      BY <3>2, <3>4, <3>5, <3>6 DEF LinkInv
  <2> QED
    BY <2>1, <2>2, <2>3, <2>4
<1>11. BloomInv'
  BY <1>10 DEF BloomInv
<1> QED
  BY <1>8, <1>11 DEF IInv

LEMMA CutKeeps ==
  ASSUME IInv, NEW n \in Node, NEW p \in Node, Cut(n, p)
  PROVE  IInv'
<1>1. /\ linked' = [linked EXCEPT ![n] = @ \ {p}, ![p] = @ \ {n}]
      /\ chan' = [chan EXCEPT ![n][p] = <<>>, ![p][n] = <<>>]
      /\ UNCHANGED <<clock, infos, paths, blooms, sess, got, sends>>
      /\ p \in linked[n]
  BY DEF Cut
<1>2. n # p
  BY <1>1 DEF IInv, BloomInv, LinkInv
<1>3. linked \in [Node -> SUBSET Node] /\ chan \in [Node -> [Node -> Seq(Frame)]]
  BY DEF IInv, TypeInv
<1>4. linked' \in [Node -> SUBSET Node] /\ chan' \in [Node -> [Node -> Seq(Frame)]]
  <2> DEFINE e == <<>>
  <2>1. e \in Seq(Frame)
    OBVIOUS
  <2>2. chan' = [chan EXCEPT ![n][p] = e, ![p][n] = e]
    BY <1>1
  <2> HIDE DEF e, Frame
  <2>3. linked' \in [Node -> SUBSET Node]
    BY <1>1, <1>3
  <2>4. chan' \in [Node -> [Node -> Seq(Frame)]]
    BY <1>3, <2>1, <2>2
  <2> QED
    BY <2>3, <2>4
<1>5. TypeInv'
  BY <1>1, <1>4 DEF IInv, TypeInv
<1>6. ASSUME NEW m \in Node, NEW q \in linked'[m]
      PROVE  LinkInv(m, q)'
  <2>1. q \in linked[m] /\ ~(m = n /\ q = p) /\ ~(m = p /\ q = n) /\ q \in Node
    BY <1>1, <1>2, <1>3
  <2>2. chan'[m][q] = chan[m][q]
    BY <1>1, <1>2, <1>3, <2>1
  <2>3. LinkInv(m, q)
    BY <2>1 DEF IInv, BloomInv
  <2> QED
    BY <1>1, <2>2, <2>3 DEF LinkInv
<1>7. BloomInv'
  BY <1>6 DEF BloomInv
<1> QED
  BY <1>5, <1>7 DEF IInv

LEMMA DefaultPathsType ==
  DefaultPaths \in PathStates /\ \A d \in Node : DefaultPaths.entries[d] = None
<1> DEFINE m == [x \in {} |-> None]
           e == <<>>
           t == [k \in Node |-> None]
<1>1. m \in RumorTables
  <2>1. m \in [{} -> RumorEntry] /\ IsFiniteSet({})
    BY FS_EmptySet
  <2> HIDE DEF m
  <2> QED
    BY <2>1, TableIs
<1>2. e \in Path
  BY DEF Path
<1>3. t \in [Node -> Entry \cup {None}] /\ \A d \in Node : t[d] = None
  OBVIOUS
<1>4. DefaultPaths = [entries |-> t, rumors |-> m, notify |-> [seq |-> 0, path |-> e]]
  BY DEF DefaultPaths
<1> HIDE DEF m, e, t
<1> QED
  BY <1>1, <1>2, <1>3, <1>4 DEF PathStates

LEMMA DefaultBloomsType ==
  DefaultBlooms \in BloomStates
<1>1. DefaultBlooms \in Books /\ \A k \in Node : DefaultBlooms.on_tree[k] = None
  BY DEF DefaultBlooms, Books
<1> QED
  BY <1>1 DEF BloomStates

LEMMA RestartKeeps ==
  ASSUME IInv, NEW n \in Node, Restart(n)
  PROVE  IInv'
<1>1. /\ linked' = [k \in Node |-> IF k = n THEN {} ELSE linked[k] \ {n}]
      /\ chan' = [k \in Node |-> [p \in Node |-> IF n \in {k, p} THEN <<>> ELSE chan[k][p]]]
      /\ paths' = [paths EXCEPT ![n] = DefaultPaths]
      /\ blooms' = [blooms EXCEPT ![n] = DefaultBlooms]
      /\ sess' = [sess EXCEPT ![n] = {}]
      /\ UNCHANGED <<clock, infos, got, sends>>
  BY DEF Restart
<1>2. DefaultPaths \in PathStates /\ \A d \in Node : DefaultPaths.entries[d] = None
  BY DefaultPathsType
<1>3. DefaultBlooms \in BloomStates
  BY DefaultBloomsType
<1>4. /\ linked \in [Node -> SUBSET Node] /\ chan \in [Node -> [Node -> Seq(Frame)]]
      /\ paths \in [Node -> PathStates] /\ blooms \in [Node -> BloomStates]
      /\ sess \in [Node -> SUBSET Node]
  BY DEF IInv, TypeInv
<1>5. linked' \in [Node -> SUBSET Node] /\ sess' \in [Node -> SUBSET Node]
  BY <1>1, <1>4
<1>6. paths' \in [Node -> PathStates] /\ blooms' \in [Node -> BloomStates]
  BY <1>1, <1>2, <1>3, <1>4
<1>7. chan' \in [Node -> [Node -> Seq(Frame)]]
  <2> DEFINE e == <<>>
             next(k, p) == IF n \in {k, p} THEN e ELSE chan[k][p]
  <2>1. e \in Seq(Frame)
    OBVIOUS
  <2>2. chan' = [k \in Node |-> [p \in Node |-> next(k, p)]]
    BY <1>1
  <2> HIDE DEF e, Frame
  <2>3. \A k, p \in Node : next(k, p) \in Seq(Frame)
    BY <1>4, <2>1
  <2> HIDE DEF next
  <2> QED
    BY <2>2, <2>3
<1>8. TypeInv'
  BY <1>1, <1>5, <1>6, <1>7 DEF IInv, TypeInv
<1>9. ASSUME NEW m \in Node, NEW q \in linked'[m]
      PROVE  LinkInv(m, q)'
  <2>1. m # n /\ q # n /\ q \in linked[m] /\ q \in Node
    BY <1>1, <1>4
  <2>2. chan'[m][q] = chan[m][q] /\ blooms'[m] = blooms[m] /\ blooms'[q] = blooms[q]
    BY <1>1, <1>4, <2>1
  <2>3. LinkInv(m, q)
    BY <2>1 DEF IInv, BloomInv
  <2> QED
    BY <2>2, <2>3 DEF LinkInv
<1>10. BloomInv'
  BY <1>9 DEF BloomInv
<1> QED
  BY <1>8, <1>10 DEF IInv

LEMMA TickKeeps ==
  ASSUME IInv, Tick \/ UNCHANGED vars
  PROVE  IInv'
<1>1. UNCHANGED <<linked, chan, infos, paths, blooms, sess, got, sends>> /\ clock' \in Nat
  BY DEF Tick, vars, IInv, TypeInv
<1>2. TypeInv'
  BY <1>1 DEF IInv, TypeInv
<1>3. BloomInv'
  BY <1>1 DEF IInv, BloomInv, LinkInv
<1> QED
  BY <1>2, <1>3 DEF IInv

LEMMA NextKeeps ==
  ASSUME IInv, [Next]_vars
  PROVE  IInv'
<1>1. ASSUME NEW n \in Node, NEW p \in Node, Read(n, p) \/ Hear(n, p) \/ Connect(n, p) \/ Cut(n, p)
      PROVE  IInv'
  BY <1>1, ReadKeeps, InfosKeep, ConnectKeeps, CutKeeps
<1>2. ASSUME NEW route \in Routes, SendOrResolve(route[1], route[2]) \/ SendToKey(route[1], route[2])
      PROVE  IInv'
  <2>1. route[1] \in Node /\ route[2] \in Node
    BY RoutingAssumption
  <2> QED
    BY <1>2, <2>1, SendsKeep
<1>3. ASSUME NEW n \in Node, Maintain(n) \/ Move(n) \/ Restart(n)
      PROVE  IInv'
  BY <1>3, MaintainKeeps, InfosKeep, RestartKeeps
<1> QED
  BY <1>1, <1>2, <1>3, TickKeeps DEF Next

LEMMA FilterType ==
  ASSUME NEW keys \in SUBSET Node
  PROVE  Merge({Add({}, XOf[k]) : k \in keys}) \in SUBSET Bit
<1>1. \A k \in keys : Add({}, XOf[k]) \in SUBSET Bit
  BY KeysKnown DEF Add, Bit
<1> QED
  BY <1>1 DEF Merge

\* What p is told of the side of n that lies behind k.
FilterFor(k, p) == Merge({Add({}, XOf[j]) : j \in Behind(Home, k, p)})

LEMMA SettledType ==
  ASSUME NEW n \in Node
  PROVE  LET b == SettledBlooms(n)
         IN  /\ b \in BloomStates
             /\ \A p \in TreePeers(Home, n) : /\ b.send[p] = FilterFor(p, n) /\ b.recv[p] = FilterFor(n, p)
                                              /\ b.recv[p] \in SUBSET Bit
             /\ \A p \in Peers(n) \ TreePeers(Home, n) :
                  b.send[p] = {} /\ b.recv[p] = {} /\ ~(b.on_tree[p] = TRUE)
<1> DEFINE T == TreePeers(Home, n)
           P == Peers(n)
           s == [p \in Node |-> IF p \in T THEN FilterFor(p, n) ELSE IF p \in P THEN {} ELSE None]
           r == [p \in Node |-> IF p \in T THEN FilterFor(n, p) ELSE IF p \in P THEN {} ELSE None]
           o == [p \in Node |-> IF p \in P THEN p \in T ELSE None]
           b == [send |-> s, recv |-> r, on_tree |-> o]
<1>1. SettledBlooms(n) = b
  BY DEF SettledBlooms, FilterFor
<1>2. \A k, p : Behind(Home, k, p) \subseteq Node
  BY DEF Behind
<1>3. \A k, p : FilterFor(k, p) \in SUBSET Bit
  BY <1>2, FilterType DEF FilterFor
<1>4. T \subseteq P /\ P \subseteq Node
  BY DEF TreePeers, Peers
<1> HIDE DEF T, P
<1>5. s \in [Node -> (SUBSET Bit) \cup {None}] /\ \A p \in P : s[p] \in SUBSET Bit
  BY <1>3, <1>4
<1>6. r \in [Node -> (SUBSET Bit) \cup {None}] /\ \A p \in P : r[p] \in SUBSET Bit
  BY <1>3, <1>4
<1>7. o \in [Node -> BOOLEAN \cup {None}] /\ \A p \in Node : o[p] # None => p \in P
  OBVIOUS
<1>8. /\ \A p \in T : s[p] = FilterFor(p, n) /\ r[p] = FilterFor(n, p)
      /\ \A p \in P \ T : s[p] = {} /\ r[p] = {}
  BY <1>4
<1>11. \A p \in P \ T : ~(o[p] = TRUE)
  <2>1. \A p \in P : o[p] = (p \in T)
    BY <1>4
  <2> HIDE DEF o
  <2> QED
    BY <2>1
<1> HIDE DEF s, r, o
<1>9. b \in Books /\ b.send = s /\ b.recv = r /\ b.on_tree = o
  BY <1>5, <1>6, <1>7 DEF Books
<1> HIDE DEF b
<1>10. b \in BloomStates
  BY <1>5, <1>6, <1>7, <1>9 DEF BloomStates
<1> QED
  BY <1>1, <1>3, <1>4, <1>6, <1>8, <1>9, <1>10, <1>11 DEF T, P

LEMMA InitHolds ==
  ASSUME Init
  PROVE  IInv
<1>1. linked \in [Node -> SUBSET Node]
  BY DEF Init, Peers
<1>2. infos \in [Node -> InfosType]
  BY RoutingAssumption DEF Init, InfosType
<1>3. chan \in [Node -> [Node -> Seq(Frame)]]
  <2> DEFINE e == <<>>
  <2>1. e \in Seq(Frame)
    OBVIOUS
  <2>2. chan = [n \in Node |-> [p \in Node |-> e]]
    BY DEF Init
  <2> HIDE DEF e, Frame
  <2> QED
    BY <2>1, <2>2
<1>4. paths \in [Node -> PathStates]
  BY DefaultPathsType DEF Init
<1>5. blooms \in [Node -> BloomStates]
  BY DefaultBloomsType, SettledType DEF Init
<1>6. sess \in [Node -> SUBSET Node] /\ got \in [Node -> Seq(Nat)] /\ clock \in Nat /\ sends \in Nat
  <2> DEFINE e == <<>>
  <2>1. e \in Seq(Nat) /\ got = [n \in Node |-> e]
    BY DEF Init
  <2> HIDE DEF e
  <2> QED
    BY <2>1 DEF Init
<1>7. TypeInv
  BY <1>1, <1>2, <1>3, <1>4, <1>5, <1>6 DEF TypeInv
<1>8. ASSUME NEW n \in Node, NEW p \in linked[n]
      PROVE  LinkInv(n, p)
  <2>1. "cold" \notin env /\ p \in Peers(n)
    BY DEF Init
  <2>2. p \in Node /\ p # n /\ n \in Peers(p) /\ (p \in TreePeers(Home, n) <=> n \in TreePeers(Home, p))
    <3>1. {n, p} = {p, n}
      OBVIOUS
    <3> QED
      BY <2>1, <3>1 DEF Peers, TreePeers
  <2>3. blooms[n] = SettledBlooms(n) /\ blooms[p] = SettledBlooms(p) /\ chan[n][p] = <<>>
    BY <2>1, <2>2 DEF Init
  <2>4. LastHeld(chan[n][p], blooms[p].recv[n]) = blooms[p].recv[n]
    <3>1. FilterAt(chan[n][p]) = {}
      BY <2>3 DEF FilterAt
    <3> QED
      BY <3>1 DEF LastHeld
  <2>5. CASE p \in TreePeers(Home, n)
    <3>1. blooms[n].send[p] = blooms[p].recv[n] /\ blooms[p].recv[n] \in SUBSET Bit
      <4>1. SettledBlooms(n).send[p] = FilterFor(p, n)
        BY <2>5, SettledType
      <4>2. n \in TreePeers(Home, p)
        BY <2>2, <2>5
      <4>3. SettledBlooms(p).recv[n] = FilterFor(p, n) /\ SettledBlooms(p).recv[n] \in SUBSET Bit
        BY <2>2, <4>2, SettledType
      <4> QED
        BY <2>3, <4>1, <4>3
    <3> QED
      BY <2>2, <2>4, <3>1 DEF LinkInv
  <2>6. CASE p \notin TreePeers(Home, n)
    <3>1. blooms[n].send[p] = {} /\ ~(blooms[n].on_tree[p] = TRUE) /\ blooms[p].recv[n] = {}
      BY <2>1, <2>2, <2>3, <2>6, SettledType
    <3> QED
      BY <2>2, <2>4, <3>1 DEF LinkInv
  <2> QED
    BY <2>5, <2>6
<1> QED
  BY <1>7, <1>8 DEF IInv, BloomInv

-----------------------------------------------------------------------------
(* Copies of a payload *)

Carries(f, id) == f.type = "Traffic" /\ f.data.id = id

HeldAs(m, x, id) == x \in DOMAIN m /\ m[x].pending # None /\ m[x].pending.id = id

Lies(s, i, id) == i \in DOMAIN s /\ Carries(s[i], id)

Came(s, i, id) == i \in DOMAIN s /\ s[i] = id

\* A copy in a turn: held under a, the a-th frame to k, or the a-th delivered.
Copy(r, q, k, a, id) ==
  \/ q = "held" /\ k = None /\ HeldAs(r.p.rumors, a, id)
  \/ q = "fly" /\ k \in Node /\ Lies(r.out[k], a, id)
  \/ q = "got" /\ k = None /\ Came(r.got, a, id)

\* No copy is made.
Less(r, s) == \A q, k, a, id : Copy(s, q, k, a, id) => Copy(r, q, k, a, id)

\* One copy of i0 is made at most.
Plus(r, s, i0) ==
  \E q0, k0, a0 : \A q, k, a, id :
    Copy(s, q, k, a, id) => Copy(r, q, k, a, id) \/ (id = i0 /\ q = q0 /\ k = k0 /\ a = a0)

\* The copy of i0 is replaced.
Gives(r, s, i0) ==
  \E q0, k0, a0 : \A q, k, a, id :
    Copy(s, q, k, a, id) =>
      (id # i0 /\ Copy(r, q, k, a, id)) \/ (id = i0 /\ q = q0 /\ k = k0 /\ a = a0)

\* Two copies of one payload are the same one.
Alone(r) ==
  \A q1, k1, a1, q2, k2, a2, id :
    Copy(r, q1, k1, a1, id) /\ Copy(r, q2, k2, a2, id) => q1 = q2 /\ k1 = k2 /\ a1 = a2

\* At most, a payload that was held has left its slot.
Renew(r, s) == Less(r, s) \/ \E i0, x : HeldAs(r.p.rumors, x, i0) /\ Gives(r, s, i0)

LEMMA LessAll ==
  /\ \A r : Less(r, r)
  /\ \A r, s, t : Less(r, s) /\ Less(s, t) => Less(r, t)
BY DEF Less

LEMMA LessPlus ==
  ASSUME NEW r, NEW s, NEW t, NEW i0
  PROVE  /\ Less(r, s) => Plus(r, s, i0)
         /\ Less(r, s) /\ Plus(s, t, i0) => Plus(r, t, i0)
         /\ Plus(r, s, i0) /\ Less(s, t) => Plus(r, t, i0)
<1>1. Less(r, s) => Plus(r, s, i0)
  BY DEF Less, Plus
<1>2. ASSUME Less(r, s), Plus(s, t, i0)
      PROVE  Plus(r, t, i0)
  <2>1. PICK q0, k0, a0 : \A q, k, a, id :
          Copy(t, q, k, a, id) => Copy(s, q, k, a, id) \/ (id = i0 /\ q = q0 /\ k = k0 /\ a = a0)
    BY <1>2 DEF Plus
  <2>2. \A q, k, a, id :
          Copy(t, q, k, a, id) => Copy(r, q, k, a, id) \/ (id = i0 /\ q = q0 /\ k = k0 /\ a = a0)
    BY <1>2, <2>1 DEF Less
  <2> QED
    BY <2>2 DEF Plus
<1>3. ASSUME Plus(r, s, i0), Less(s, t)
      PROVE  Plus(r, t, i0)
  <2>1. PICK q0, k0, a0 : \A q, k, a, id :
          Copy(s, q, k, a, id) => Copy(r, q, k, a, id) \/ (id = i0 /\ q = q0 /\ k = k0 /\ a = a0)
    BY <1>3 DEF Plus
  <2>2. \A q, k, a, id :
          Copy(t, q, k, a, id) => Copy(r, q, k, a, id) \/ (id = i0 /\ q = q0 /\ k = k0 /\ a = a0)
    BY <1>3, <2>1 DEF Less
  <2> QED
    BY <2>2 DEF Plus
<1> QED
  BY <1>1, <1>2, <1>3

\* A copy that replaces none.
LEMMA PlusGives ==
  ASSUME NEW r, NEW s, NEW i0, Plus(r, s, i0), \A q, k, a : ~Copy(r, q, k, a, i0)
  PROVE  Gives(r, s, i0)
<1>1. PICK q0, k0, a0 : \A q, k, a, id :
        Copy(s, q, k, a, id) => Copy(r, q, k, a, id) \/ (id = i0 /\ q = q0 /\ k = k0 /\ a = a0)
  BY DEF Plus
<1>2. \A q, k, a, id :
        Copy(s, q, k, a, id) =>
          (id # i0 /\ Copy(r, q, k, a, id)) \/ (id = i0 /\ q = q0 /\ k = k0 /\ a = a0)
  BY <1>1
<1> QED
  BY <1>2 DEF Gives

LEMMA LessGives ==
  ASSUME NEW r, NEW s, NEW t, NEW i0, Less(r, s), Gives(s, t, i0)
  PROVE  Gives(r, t, i0)
<1>1. PICK q0, k0, a0 : \A q, k, a, id :
        Copy(t, q, k, a, id) =>
          (id # i0 /\ Copy(s, q, k, a, id)) \/ (id = i0 /\ q = q0 /\ k = k0 /\ a = a0)
  BY DEF Gives
<1>2. \A q, k, a, id :
        Copy(t, q, k, a, id) =>
          (id # i0 /\ Copy(r, q, k, a, id)) \/ (id = i0 /\ q = q0 /\ k = k0 /\ a = a0)
  BY <1>1 DEF Less
<1> QED
  BY <1>2 DEF Gives

LEMMA LessRenew ==
  ASSUME NEW r, NEW s, NEW t, Less(r, s), Renew(s, t)
  PROVE  Renew(r, t)
<1>1. CASE Less(s, t)
  BY <1>1, LessAll DEF Renew
<1>2. ASSUME NEW i0, NEW x, HeldAs(s.p.rumors, x, i0), Gives(s, t, i0)
      PROVE  Renew(r, t)
  <2>1. Copy(s, "held", None, x, i0)
    BY <1>2 DEF Copy
  <2>2. Copy(r, "held", None, x, i0)
    BY <2>1 DEF Less
  <2>3. HeldAs(r.p.rumors, x, i0)
    BY <2>2 DEF Copy
  <2>4. Gives(r, t, i0)
    BY <1>2, LessGives
  <2> QED
    BY <2>3, <2>4 DEF Renew
<1> QED
  BY <1>1, <1>2 DEF Renew

LEMMA LessAlone ==
  ASSUME NEW r, NEW s, Less(r, s), Alone(r)
  PROVE  Alone(s)
BY DEF Less, Alone

\* How the parts of a turn make one.
LEMMA LessBy ==
  ASSUME NEW r, NEW s,
         \A x, id : HeldAs(s.p.rumors, x, id) => HeldAs(r.p.rumors, x, id),
         \A k \in Node : \A i, id : Lies(s.out[k], i, id) => Lies(r.out[k], i, id),
         s.got = r.got
  PROVE  Less(r, s)
BY DEF Less, Copy

-----------------------------------------------------------------------------
(* Frames and slots *)

LEMMA LiesAppend ==
  ASSUME NEW s \in Seq(Frame), NEW f \in Frame, NEW i, NEW id, Lies(Append(s, f), i, id)
  PROVE  Lies(s, i, id) \/ (i = Len(s) + 1 /\ Carries(f, id))
<1> HIDE DEF Frame
<1>1. DOMAIN Append(s, f) = 1 .. Len(s) + 1 /\ DOMAIN s = 1 .. Len(s) /\ Len(s) \in Nat
  OBVIOUS
<1>2. i \in 1 .. Len(s) + 1 /\ Carries(Append(s, f)[i], id)
  BY <1>1 DEF Lies
<1>3. CASE i \in 1 .. Len(s)
  BY <1>1, <1>2, <1>3 DEF Lies
<1>4. CASE i = Len(s) + 1
  BY <1>1, <1>2, <1>4
<1> QED
  BY <1>1, <1>2, <1>3, <1>4

LEMMA LiesConcat ==
  ASSUME NEW s \in Seq(Frame), NEW t \in Seq(Frame), NEW i, NEW id, Lies(s \o t, i, id)
  PROVE  \/ Lies(s, i, id)
         \/ i \in Int /\ i > Len(s) /\ Lies(t, i - Len(s), id)
<1> HIDE DEF Frame
<1>1. DOMAIN (s \o t) = 1 .. Len(s) + Len(t) /\ DOMAIN s = 1 .. Len(s) /\ DOMAIN t = 1 .. Len(t)
      /\ Len(s) \in Nat /\ Len(t) \in Nat
  OBVIOUS
<1>2. i \in 1 .. Len(s) + Len(t) /\ Carries((s \o t)[i], id)
  BY <1>1 DEF Lies
<1>3. CASE i <= Len(s)
  <2>1. (s \o t)[i] = s[i] /\ i \in 1 .. Len(s)
    BY <1>1, <1>2, <1>3
  <2> QED
    BY <1>1, <1>2, <2>1 DEF Lies
<1>4. CASE i > Len(s)
  <2>1. (s \o t)[i] = t[i - Len(s)] /\ i - Len(s) \in 1 .. Len(t)
    BY <1>1, <1>2, <1>4
  <2> QED
    BY <1>1, <1>2, <1>4, <2>1 DEF Lies
<1> QED
  BY <1>1, <1>2, <1>3, <1>4

LEMMA LiesTail ==
  ASSUME NEW s \in Seq(Frame), s # <<>>, NEW i, NEW id, Lies(Tail(s), i, id)
  PROVE  i \in Nat /\ i >= 1 /\ Lies(s, i + 1, id)
<1> HIDE DEF Frame
<1>1. DOMAIN Tail(s) = 1 .. Len(s) - 1 /\ DOMAIN s = 1 .. Len(s) /\ Len(s) \in Nat
  OBVIOUS
<1>2. i \in 1 .. Len(s) - 1 /\ Tail(s)[i] = s[i + 1]
  BY <1>1 DEF Lies
<1>3. i + 1 \in 1 .. Len(s)
  BY <1>1, <1>2
<1> QED
  BY <1>1, <1>2, <1>3 DEF Lies

LEMMA EmitCopies ==
  ASSUME NEW r \in Turns(Talk), NEW k0 \in Node, NEW f \in Talk
  PROVE  /\ f.type # "Traffic" => Less(r, Emit(r, k0, f))
         /\ f.type = "Traffic" => Plus(r, Emit(r, k0, f), f.data.id)
<1> DEFINE o == [r.out EXCEPT ![k0] = Append(@, f)]
           s == Emit(r, k0, f)
<1>1. r.out \in [Node -> Seq(Talk)]
  BY DEF Turns
<1>2. s = [r EXCEPT !.out = o]
  BY DEF Emit, Turns
<1>3. s.p = r.p /\ s.got = r.got /\ s.out = o
  BY <1>2 DEF Turns
<1> HIDE DEF s
<1>4. o[k0] = Append(r.out[k0], f) /\ \A k \in Node : k # k0 => o[k] = r.out[k]
  BY <1>1
<1>5. r.out[k0] \in Seq(Frame) /\ f \in Frame
  BY TalkTurns DEF Turns, Frame
<1> HIDE DEF o
<1>6. ASSUME NEW k \in Node, NEW i, NEW id, Lies(s.out[k], i, id)
      PROVE  Lies(r.out[k], i, id) \/ (k = k0 /\ i = Len(r.out[k0]) + 1 /\ Carries(f, id))
  <2>1. CASE k = k0
    BY <1>3, <1>4, <1>5, <1>6, <2>1, LiesAppend
  <2>2. CASE k # k0
    BY <1>3, <1>4, <1>6, <2>2
  <2> QED
    BY <2>1, <2>2
<1>7. ASSUME f.type # "Traffic"
      PROVE  Less(r, s)
  BY <1>3, <1>6, <1>7, LessBy DEF Carries
<1>8. ASSUME f.type = "Traffic"
      PROVE  Plus(r, s, f.data.id)
  <2>1. ASSUME NEW q, NEW k, NEW a, NEW id, Copy(s, q, k, a, id)
        PROVE  Copy(r, q, k, a, id)
               \/ (id = f.data.id /\ q = "fly" /\ k = k0 /\ a = Len(r.out[k0]) + 1)
    <3>1. CASE q = "fly"
      BY <1>6, <2>1, <3>1 DEF Copy, Carries
    <3>2. CASE q # "fly"
      BY <1>3, <2>1, <3>2 DEF Copy
    <3> QED
      BY <3>1, <3>2
  <2> QED
    BY <2>1 DEF Plus
<1> QED
  BY <1>7, <1>8 DEF s

LEMMA MulticastCopies ==
  ASSUME NEW r \in Turns(Talk), NEW n, NEW from, NEW f \in Talk, f.type # "Traffic"
  PROVE  Less(r, Multicast(n, r, from, f))
<1> DEFINE to == Audience(n, r.b, from, XKey[f.dest])
           o == [k \in Node |-> IF k \in to THEN Append(r.out[k], f) ELSE r.out[k]]
           s == Multicast(n, r, from, f)
<1> HIDE DEF to
<1>1. s = [r EXCEPT !.out = o]
  BY DEF Multicast, to
<1>2. s.p = r.p /\ s.got = r.got /\ s.out = o
  BY <1>1 DEF Turns
<1> HIDE DEF s
<1>3. f \in Frame /\ \A k \in Node : r.out[k] \in Seq(Frame)
  BY TalkTurns DEF Turns, Frame
<1>4. ASSUME NEW k \in Node, NEW i, NEW id, Lies(s.out[k], i, id)
      PROVE  Lies(r.out[k], i, id)
  <2>1. s.out[k] = Append(r.out[k], f) \/ s.out[k] = r.out[k]
    BY <1>2
  <2> HIDE DEF o
  <2>2. CASE s.out[k] = Append(r.out[k], f)
    <3>1. Lies(Append(r.out[k], f), i, id)
      BY <1>4, <2>2
    <3>2. ~Carries(f, id)
      BY DEF Carries
    <3> QED
      BY <1>3, <3>1, <3>2, LiesAppend
  <2> QED
    BY <1>4, <2>1, <2>2
<1>5. Less(r, s)
  BY <1>2, <1>4, LessBy
<1> QED
  BY <1>5 DEF s

\* The slot y is written.
Slot(r, s, y, data) ==
  /\ s.out = r.out /\ s.got = r.got
  /\ \A x, id : HeldAs(s.p.rumors, x, id) =>
       \/ x # y /\ HeldAs(r.p.rumors, x, id)
       \/ x = y /\ data # None /\ data.id = id

LEMMA PutRumorIs ==
  ASSUME NEW r \in Turns(Talk), NEW key \in PublicKey, NEW rumor
  PROVE  Slot(r, PutRumor(r, key, rumor), XKey[key], rumor.pending)
<1> DEFINE m == r.p.rumors
           D == DOMAIN m \cup {XKey[key]}
           t == [x \in D |-> IF x = XKey[key] THEN rumor ELSE m[x]]
           s == PutRumor(r, key, rumor)
<1>1. r.p \in PathStates
  BY DEF Turns
<1>2. s = [r EXCEPT !.p = [@ EXCEPT !.rumors = t]]
  BY <1>1 DEF PutRumor, Turns, PathStates
<1> HIDE DEF t
<1>3. [r.p EXCEPT !.rumors = t].rumors = t
  BY <1>1 DEF PathStates
<1>4. s.out = r.out /\ s.got = r.got /\ s.p.rumors = t
  BY <1>2, <1>3 DEF Turns
<1> HIDE DEF s
<1>5. ASSUME NEW x, NEW id, HeldAs(t, x, id)
      PROVE  \/ x # XKey[key] /\ HeldAs(m, x, id)
             \/ x = XKey[key] /\ rumor.pending # None /\ rumor.pending.id = id
  <2> HIDE DEF m
  <2> QED
    BY <1>5 DEF HeldAs, t
<1>6. Slot(r, s, XKey[key], rumor.pending)
  BY <1>4, <1>5 DEF Slot
<1> QED
  BY <1>6 DEF s

\* What a rumor holds is in its slot.
LEMMA RumorHolds ==
  ASSUME NEW r, NEW key, Rumor(r, key).pending # None
  PROVE  HeldAs(r.p.rumors, XKey[key], Rumor(r, key).pending.id)
BY DEF Rumor, HeldAs

LEMMA RumorLookupCopies ==
  ASSUME Around, NEW n \in Node, NEW r \in Turns(Talk), NEW key \in PublicKey
  PROVE  Less(r, RumorLookup(n, r, key))
<1> DEFINE u == Rumor(r, key)
           e == Asked(u)
           s == PutRumor(r, key, e)
           f == PathLookup(n, key, Coords(n))
<1>1. u \in RumorEntry /\ Fits(XKey[key], u)
  BY RumorType
<1>2. e \in RumorEntry /\ Fits(XKey[key], e) /\ e.pending = u.pending
  <2> HIDE DEF u
  <2> QED
    BY <1>1, AskedType DEF Fits
<1>3. u.pending # None => HeldAs(r.p.rumors, XKey[key], u.pending.id)
  BY RumorHolds
<1> HIDE DEF u, e
<1>4. s \in Turns(Talk)
  BY <1>2, PutRumorType
<1>5. Less(r, s)
  <2>1. Slot(r, s, XKey[key], e.pending)
    BY PutRumorIs
  <2> HIDE DEF s
  <2> QED
    BY <1>2, <1>3, <2>1, LessBy DEF Slot
<1>6. f \in Talk /\ f.type # "Traffic"
  BY LookupType DEF Talk, Lookups
<1> HIDE DEF s, f
<1>7. Less(s, Multicast(n, s, n, f))
  BY <1>4, <1>6, MulticastCopies
<1> QED
  BY <1>5, <1>7, LessAll DEF RumorLookup, s, f, e, u

LEMMA HoldCopies ==
  ASSUME Around, NEW n \in Node, NEW r \in Turns(Talk), NEW key \in PublicKey,
         NEW data \in Data, XOf[data.to] = XKey[key]
  PROVE  Plus(r, HoldForLookup(n, r, key, data), data.id)
<1> DEFINE e == [Rumor(r, key) EXCEPT !.pending = data, !.is_app = TRUE]
           s == PutRumor(r, key, e)
<1>1. e \in RumorEntry /\ Fits(XKey[key], e) /\ e.pending = data
  <2> DEFINE u == Rumor(r, key)
  <2>1. u \in RumorEntry
    BY RumorType
  <2> HIDE DEF u
  <2>2. e = [u EXCEPT !.pending = data, !.is_app = TRUE]
    BY DEF u
  <2>3. e.pending = data
    BY <2>1, <2>2 DEF RumorEntry
  <2>4. e \in RumorEntry
    BY <2>1, <2>2 DEF RumorEntry
  <2> HIDE DEF e
  <2> QED
    BY <2>3, <2>4 DEF Fits
<1> HIDE DEF e
<1>2. s \in Turns(Talk)
  BY <1>1, PutRumorType
<1>3. Slot(r, s, XKey[key], e.pending)
  BY PutRumorIs
<1> HIDE DEF s
<1>4. ASSUME NEW q, NEW k, NEW a, NEW id, Copy(s, q, k, a, id)
      PROVE  Copy(r, q, k, a, id) \/ (id = data.id /\ q = "held" /\ k = None /\ a = XKey[key])
  <2>1. CASE q = "held"
    BY <1>1, <1>3, <1>4, <2>1 DEF Copy, Slot
  <2>2. CASE q # "held"
    BY <1>3, <1>4, <2>2 DEF Copy, Slot
  <2> QED
    BY <2>1, <2>2
<1>5. Plus(r, s, data.id)
  BY <1>4 DEF Plus
<1>6. Less(s, RumorLookup(n, s, key))
  BY <1>2, RumorLookupCopies
<1>7. Plus(r, RumorLookup(n, s, key), data.id)
  BY <1>5, <1>6, LessPlus
<1> QED
  BY <1>7 DEF HoldForLookup, s, e

LEMMA PassOnCopies ==
  ASSUME Around, NEW n \in Node, NEW r \in Turns(Talk), NEW f \in Travelling, NEW fav,
         NextHops(n, f.way.path, f.way.mark) # {}
  PROVE  LET s == Emit(r, Choice(NextHops(n, f.way.path, f.way.mark), fav), Forwarded(n, f))
         IN  /\ f.type # "Traffic" => Less(r, s)
             /\ f.type = "Traffic" => Plus(r, s, f.data.id)
<1> DEFINE k == Choice(NextHops(n, f.way.path, f.way.mark), fav)
           g == Forwarded(n, f)
<1>1. k \in Node
  BY ChoiceType
<1>2. g \in Talk
  BY ForwardedType DEF Travelling
<1>3. g.type = f.type /\ (f.type = "Traffic" => g.data = f.data)
  <2> DEFINE w == Onward(n, f.way)
  <2>1. g = [f EXCEPT !.way = w]
    BY DEF Forwarded
  <2> HIDE DEF w, g
  <2> QED
    BY <2>1 DEF Travelling, Talk, IsRouted, Lookups, Notifies, Brokens, Payloads
<1> HIDE DEF k, g
<1>4. /\ g.type # "Traffic" => Less(r, Emit(r, k, g))
      /\ g.type = "Traffic" => Plus(r, Emit(r, k, g), g.data.id)
  BY <1>1, <1>2, EmitCopies
<1> QED
  BY <1>3, <1>4 DEF k, g

LEMMA SameCopies ==
  ASSUME NEW r, NEW s, s.p.rumors = r.p.rumors, s.out = r.out, s.got = r.got
  PROVE  Less(r, s)
BY LessBy

\* The slot x of a table is written where it is.
LEMMA SlotWritten ==
  ASSUME NEW r \in Turns(Talk), NEW x, NEW data
  PROVE  Slot(r, [r EXCEPT !.p.rumors[x].pending = data], x, data)
<1> DEFINE s == [r EXCEPT !.p.rumors[x].pending = data]
           m == r.p.rumors
           t == [m EXCEPT ![x] = [@ EXCEPT !.pending = data]]
<1>1. r.p \in PathStates /\ m \in RumorTables
  BY DEF Turns, PathStates
<1>2. s = [r EXCEPT !.p = [@ EXCEPT !.rumors = t]]
  BY <1>1 DEF Turns, PathStates
<1>3. m \in [DOMAIN m -> RumorEntry]
  <2> HIDE DEF m
  <2> QED
    BY <1>1, TableOf
<1>4. ASSUME NEW y, NEW id, HeldAs(t, y, id)
      PROVE  \/ y # x /\ HeldAs(m, y, id)
             \/ y = x /\ data # None /\ data.id = id
  <2> HIDE DEF m
  <2>1. y \in DOMAIN m /\ t[y].pending # None /\ t[y].pending.id = id
    BY <1>4 DEF HeldAs
  <2>2. CASE y = x
    <3>1. m[x] \in RumorEntry
      BY <1>3, <2>1, <2>2
    <3>2. t[x] = [m[x] EXCEPT !.pending = data]
      BY <2>1, <2>2
    <3>3. t[x].pending = data
      BY <3>1, <3>2 DEF RumorEntry
    <3> QED
      BY <2>1, <2>2, <3>3
  <2>3. CASE y # x
    <3>1. t[y] = m[y]
      BY <2>1, <2>3
    <3> QED
      BY <2>1, <2>3, <3>1 DEF HeldAs
  <2> QED
    BY <2>2, <2>3
<1> HIDE DEF t
<1>5. [r.p EXCEPT !.rumors = t].rumors = t
  BY <1>1 DEF PathStates
<1>6. s.out = r.out /\ s.got = r.got /\ s.p.rumors = t
  BY <1>2, <1>5 DEF Turns
<1> HIDE DEF s
<1>7. Slot(r, s, x, data)
  BY <1>4, <1>6 DEF Slot
<1> QED
  BY <1>7 DEF s

LEMMA PathfinderSendCopies ==
  ASSUME Around, NEW n \in Node, NEW r \in Turns(Talk), NEW d \in Node, NEW data \in Data,
         data.to = d, NEW fav
  PROVE  Plus(r, PathfinderSend(n, r, d, data, fav), data.id)
<1> DEFINE e == r.p.entries[d]
<1>1. e \in Entry \cup {None}
  BY DEF Turns, PathStates
<1> HIDE DEF e
<1>2. CASE e # None /\ ~e.broken
  <2> DEFINE f == Traffic(e.path, Coords(n), n, d, data)
  <2>1. e.path \in Path
    BY <1>1, <1>2 DEF Entry
  <2>2. f \in Travelling
    BY <2>1, CoordsType, RoutedType DEF Traffic, Travelling, Talk, IsRouted, Payloads
  <2>3. f.type = "Traffic" /\ f.data = data
    BY DEF Traffic
  <2> HIDE DEF f
  <2>4. PathfinderSend(n, r, d, data, fav) = RouteTraffic(n, r, f, fav)
    BY <1>2 DEF PathfinderSend, e, f
  <2>5. CASE NextHops(n, f.way.path, f.way.mark) = {}
    BY <2>4, <2>5, LessAll, LessPlus DEF RouteTraffic
  <2>6. CASE NextHops(n, f.way.path, f.way.mark) # {}
    BY <2>2, <2>3, <2>4, <2>6, PassOnCopies DEF RouteTraffic
  <2> QED
    BY <2>5, <2>6
<1>3. CASE ~(e # None /\ ~e.broken)
  <2> DEFINE s == RumorLookup(n, r, PubKey[d])
             x == XOf[d]
             u == [s EXCEPT !.p.rumors[x].pending = data]
  <2>1. s \in Turns(Talk)
    BY RumorLookupType, KeysKnown
  <2>2. Less(r, s)
    BY RumorLookupCopies, KeysKnown
  <2>3. PathfinderSend(n, r, d, data, fav) = u
    BY <1>3 DEF PathfinderSend, e
  <2> HIDE DEF s, x
  <2>4. Slot(s, u, x, data)
    BY <2>1, SlotWritten
  <2> HIDE DEF u
  <2>5. ASSUME NEW q, NEW k, NEW a, NEW id, Copy(u, q, k, a, id)
        PROVE  Copy(s, q, k, a, id) \/ (id = data.id /\ q = "held" /\ k = None /\ a = x)
    <3>1. CASE q = "held"
      BY <2>4, <2>5, <3>1 DEF Copy, Slot
    <3>2. CASE q # "held"
      BY <2>4, <2>5, <3>2 DEF Copy, Slot
    <3> QED
      BY <3>1, <3>2
  <2>6. Plus(s, u, data.id)
    BY <2>5 DEF Plus
  <2> QED
    BY <2>2, <2>3, <2>6, LessPlus
<1> QED
  BY <1>2, <1>3

LEMMA SessionSendCopies ==
  ASSUME Around, NEW n \in Node, NEW r \in Turns(Talk), NEW d \in Node, NEW data \in Data,
         data.to = d, NEW fav
  PROVE  Plus(r, SessionSend(n, r, d, data, fav), data.id)
<1> DEFINE sealed == [data EXCEPT !.seals = @ + 1]
<1>1. sealed \in Data /\ sealed.to = d /\ sealed.id = data.id
  BY DEF Data
<1> HIDE DEF sealed
<1>2. SessionSend(n, r, d, data, fav) = PathfinderSend(n, r, d, sealed, fav)
  BY DEF SessionSend, sealed
<1>3. Plus(r, PathfinderSend(n, r, d, sealed, fav), sealed.id)
  BY <1>1, PathfinderSendCopies
<1> QED
  BY <1>1, <1>2, <1>3

LEMMA FlushCopies ==
  ASSUME Around, NEW n \in Node, NEW r \in Turns(Talk), NEW d \in Node, NEW fav, Alone(r)
  PROVE  Renew(r, Flush(n, r, d, fav))
<1> DEFINE held == Rumor(r, PubKey[d])
           data == held.pending
           x == XOf[d]
           taken == [r EXCEPT !.p.rumors[x].pending = None]
<1>1. held \in RumorEntry /\ Fits(x, held)
  BY RumorType, KeysKnown
<1>2. data # None => HeldAs(r.p.rumors, x, data.id)
  BY RumorHolds, KeysKnown
<1>3. taken \in Turns(Talk)
  BY TakenType
<1>4. Slot(r, taken, x, None)
  BY SlotWritten
<1>5. Flush(n, r, d, fav) = IF data = None THEN r
                            ELSE IF held.is_app THEN SessionSend(n, taken, d, data, fav)
                            ELSE PathfinderSend(n, taken, d, data, fav)
  BY DEF Flush
<1> HIDE DEF taken, held
<1>6. CASE data = None
  BY <1>5, <1>6, LessAll DEF Renew
<1>7. CASE data # None
  <2>1. data \in Data /\ XOf[data.to] = x
    BY <1>1, <1>7 DEF RumorEntry, Fits
  <2>2. data.to \in Node
    BY <2>1 DEF Data
  <2>3. data.to = d
    BY <2>1, <2>2, KeysKnown
  <2> HIDE DEF data, x
  <2>4. Less(r, taken)
    BY <1>4, LessBy DEF Slot
  <2>5. ASSUME NEW q, NEW k, NEW a, Copy(taken, q, k, a, data.id)
        PROVE  FALSE
    <3>1. Copy(r, q, k, a, data.id)
      BY <2>4, <2>5 DEF Less
    <3>2. Copy(r, "held", None, x, data.id)
      BY <1>2, <1>7 DEF Copy
    <3>3. q = "held" /\ a = x
      BY <3>1, <3>2 DEF Alone
    <3> QED
      BY <1>4, <2>5, <3>3 DEF Copy, Slot
  <2>6. ASSUME NEW s, Plus(taken, s, data.id)
        PROVE  Renew(r, s)
    <3>1. Gives(taken, s, data.id)
      BY <2>5, <2>6, PlusGives
    <3>2. Gives(r, s, data.id)
      BY <2>4, <3>1, LessGives
    <3> QED
      BY <1>2, <1>7, <3>2 DEF Renew
  <2>7. Plus(taken, SessionSend(n, taken, d, data, fav), data.id)
    BY <1>3, <2>1, <2>3, SessionSendCopies
  <2>8. Plus(taken, PathfinderSend(n, taken, d, data, fav), data.id)
    BY <1>3, <2>1, <2>3, PathfinderSendCopies
  <2> QED
    BY <1>5, <1>7, <2>6, <2>7, <2>8
<1> QED
  BY <1>6, <1>7

-----------------------------------------------------------------------------
(* Handlers *)

\* An entry is written.
LEMMA EntryCopies ==
  ASSUME NEW r \in Turns(Talk), NEW d, NEW e
  PROVE  Less(r, [r EXCEPT !.p = [r.p EXCEPT !.entries = [r.p.entries EXCEPT ![d] = e]]])
<1> DEFINE t == [r.p.entries EXCEPT ![d] = e]
           q == [r.p EXCEPT !.entries = t]
           s == [r EXCEPT !.p = q]
<1> HIDE DEF t
<1>1. r.p \in PathStates
  BY DEF Turns
<1>2. q.rumors = r.p.rumors
  BY <1>1 DEF PathStates
<1> HIDE DEF q
<1>3. s.p = q /\ s.out = r.out /\ s.got = r.got
  BY DEF Turns
<1> HIDE DEF s
<1>4. Less(r, s)
  BY <1>2, <1>3, SameCopies
<1> QED
  BY <1>4 DEF s, q, t

LEMMA NotifyCopies ==
  ASSUME Around, NEW n \in Node, NEW r \in Turns(Talk), NEW f \in Notifies, Nearing(f.way), NEW fav,
         Alone(r)
  PROVE  Renew(r, HandleNotify(n, r, f, fav))
<1> DEFINE hops == NextHops(n, f.way.path, f.way.mark)
           e == r.p.entries[f.source]
           new == [path |-> f.info.path, seq |-> f.info.seq, broken |-> FALSE,
                   deadline |-> clock + PATH_TIMEOUT]
           s == [r EXCEPT !.p = [r.p EXCEPT !.entries = [r.p.entries EXCEPT ![f.source] = new]]]
           take == IF e # None THEN News(e, f) ELSE XOf[f.source] \in DOMAIN r.p.rumors
<1>1. f \in Travelling /\ f.type # "Traffic"
  BY DEF Travelling, Talk, IsRouted, Notifies
<1>2. CASE hops # {}
  <2> DEFINE g == Emit(r, Choice(hops, fav), Forwarded(n, f))
  <2>1. Less(r, g)
    BY <1>1, <1>2, PassOnCopies
  <2>2. HandleNotify(n, r, f, fav) = g
    BY <1>2 DEF HandleNotify
  <2> HIDE DEF g
  <2> QED
    BY <2>1, <2>2 DEF Renew
<1>3. CASE hops = {} /\ f.dest = n /\ take
  <2>1. clock + PATH_TIMEOUT \in Nat
    BY RoutingAssumption DEF Around
  <2>2. new \in Entry
    BY <2>1 DEF Entry, Notifies
  <2>3. f.source \in Node
    BY DEF Notifies
  <2>4. HandleNotify(n, r, f, fav) = Flush(n, s, f.source, fav)
    <3>1. [r EXCEPT !.p.entries[f.source] = new] = s
      BY DEF Turns, PathStates
    <3> HIDE DEF s, new, take
    <3> QED
      BY <1>3, <3>1 DEF HandleNotify, new, take
  <2> HIDE DEF new
  <2>6. s \in Turns(Talk)
    BY <2>2, <2>3, EntryType
  <2>7. Less(r, s)
    BY EntryCopies
  <2> HIDE DEF s
  <2>8. Alone(s)
    BY <2>7, LessAlone
  <2>9. Renew(s, Flush(n, s, f.source, fav))
    BY <2>3, <2>6, <2>8, FlushCopies
  <2> QED
    BY <2>4, <2>7, <2>9, LessRenew
<1>4. CASE hops = {} /\ ~(f.dest = n /\ take)
  <2>1. HandleNotify(n, r, f, fav) = r
    BY <1>4 DEF HandleNotify
  <2> QED
    BY <2>1, LessAll DEF Renew
<1> QED
  BY <1>2, <1>3, <1>4

LEMMA HandleLookupCopies ==
  ASSUME Around, NEW n \in Node, NEW r \in Turns(Talk), NEW from, NEW f \in Lookups, NEW fav,
         Alone(r)
  PROVE  Renew(r, HandleLookup(n, r, from, f, fav))
<1> DEFINE g == [f EXCEPT !.trail = Append(@, n)]
           r1 == Multicast(n, r, from, g)
           info == NotifyInfo(clock, Coords(n))
           r2 == [r1 EXCEPT !.p = [@ EXCEPT !.notify = info]]
           h == PathNotify(f.from, n, f.source, info)
<1>1. g \in Talk /\ g.type # "Traffic"
  BY DEF Lookups, Talk
<1> HIDE DEF g
<1>2. r1 \in Turns(Talk)
  BY <1>1, MulticastType
<1>3. Less(r, r1)
  BY <1>1, MulticastCopies
<1> HIDE DEF r1
<1>4. info \in [seq : Nat, path : Path]
  BY CoordsType DEF NotifyInfo, Around
<1> HIDE DEF info
<1>5. r1.p \in PathStates
  BY <1>2 DEF Turns
<1>6. [r1.p EXCEPT !.notify = info] \in PathStates
      /\ [r1.p EXCEPT !.notify = info].rumors = r1.p.rumors
  BY <1>4, <1>5 DEF PathStates
<1>7. r2 \in Turns(Talk) /\ r2.p.rumors = r1.p.rumors /\ r2.out = r1.out /\ r2.got = r1.got
  BY <1>2, <1>6 DEF Turns
<1>8. h \in Notifies /\ Nearing(h.way)
  <2>1. f.from \in Path /\ f.source \in Node
    BY DEF Lookups
  <2> QED
    BY <1>4, <2>1, RoutedType DEF PathNotify, Notifies
<1>9. HandleLookup(n, r, from, f, fav) = IF XKey[f.dest] # XOf[n] THEN r1 ELSE HandleNotify(n, r2, h, fav)
  BY DEF HandleLookup, g, r1, info
<1> HIDE DEF r2, h
<1>10. Less(r1, r2)
  BY <1>7, SameCopies
<1>11. Less(r, r2)
  BY <1>3, <1>10, LessAll
<1>12. Alone(r2)
  BY <1>11, LessAlone
<1>13. Renew(r2, HandleNotify(n, r2, h, fav))
  BY <1>7, <1>8, <1>12, NotifyCopies
<1>14. Renew(r, HandleNotify(n, r2, h, fav))
  BY <1>11, <1>13, LessRenew
<1>15. Renew(r, r1)
  BY <1>3 DEF Renew
<1> QED
  BY <1>9, <1>14, <1>15

LEMMA BrokenCopies ==
  ASSUME Around, NEW n \in Node, NEW r \in Turns(Talk), NEW f \in Brokens, Nearing(f.way), NEW fav
  PROVE  Less(r, HandleBroken(n, r, f, fav))
<1> DEFINE hops == NextHops(n, f.way.path, f.way.mark)
           e == r.p.entries[f.dest]
           new == [e EXCEPT !.broken = TRUE]
           s == [r EXCEPT !.p = [r.p EXCEPT !.entries = [r.p.entries EXCEPT ![f.dest] = new]]]
<1>1. f \in Travelling /\ f.dest \in Node /\ f.type # "Traffic"
  BY DEF Travelling, Talk, IsRouted, Brokens
<1>2. CASE hops # {}
  <2> DEFINE g == Emit(r, Choice(hops, fav), Forwarded(n, f))
  <2>1. Less(r, g)
    BY <1>1, <1>2, PassOnCopies
  <2>2. HandleBroken(n, r, f, fav) = g
    BY <1>2 DEF HandleBroken
  <2> HIDE DEF g
  <2> QED
    BY <2>1, <2>2
<1>3. CASE hops = {} /\ f.source = n /\ e # None
  <2>1. e \in Entry
    BY <1>1, <1>3 DEF Turns, PathStates
  <2>2. new \in Entry
    <3> HIDE DEF e
    <3> QED
      BY <2>1 DEF Entry
  <2>3. [r EXCEPT !.p.entries[f.dest].broken = TRUE] = s
    BY <1>1, <2>1 DEF Turns, PathStates
  <2>4. HandleBroken(n, r, f, fav) = RumorLookup(n, s, PubKey[f.dest])
    <3> HIDE DEF s
    <3> QED
      BY <1>3, <2>3 DEF HandleBroken
  <2> HIDE DEF new
  <2>5. s \in Turns(Talk)
    BY <1>1, <2>2, EntryType
  <2>6. Less(r, s)
    BY EntryCopies
  <2> HIDE DEF s
  <2>7. Less(s, RumorLookup(n, s, PubKey[f.dest]))
    BY <1>1, <2>5, KeysKnown, RumorLookupCopies
  <2> QED
    BY <2>4, <2>6, <2>7, LessAll
<1>4. CASE hops = {} /\ ~(f.source = n /\ e # None)
  <2>1. HandleBroken(n, r, f, fav) = r
    BY <1>4 DEF HandleBroken
  <2> QED
    BY <2>1, LessAll
<1> QED
  BY <1>2, <1>3, <1>4

LEMMA DeliverCopies ==
  ASSUME NEW n \in Node, NEW r \in Turns(Talk), NEW f \in Payloads
  PROVE  Plus(r, Deliver(n, r, f), f.data.id)
<1> DEFINE g == Append(r.got, f.data.id)
           v == [[r.sess EXCEPT ![n] = @ \cup {f.source}] EXCEPT ![f.source] = @ \cup {n}]
           s == Deliver(n, r, f)
<1>1. CASE f.data.seals # 1
  BY <1>1, LessAll, LessPlus DEF Deliver
<1>2. CASE f.data.seals = 1
  <2>1. f.data.id \in Nat /\ f.source \in Node
    BY DEF Payloads, Data
  <2>2. r.got \in Seq(Nat) /\ r.sess \in [Node -> SUBSET Node]
    BY DEF Turns
  <2>3. s = [r EXCEPT !.got = g, !.sess = v]
    BY <1>2, <2>1, <2>2 DEF Deliver, Turns
  <2> HIDE DEF v
  <2>4. s.p = r.p /\ s.out = r.out /\ s.got = g
    BY <2>3 DEF Turns
  <2> HIDE DEF s
  <2>5. ASSUME NEW i, NEW id, Came(g, i, id)
        PROVE  Came(r.got, i, id) \/ (i = Len(r.got) + 1 /\ id = f.data.id)
    <3>1. DOMAIN g = 1 .. Len(r.got) + 1 /\ DOMAIN r.got = 1 .. Len(r.got) /\ Len(r.got) \in Nat
      BY <2>1, <2>2
    <3>2. i \in 1 .. Len(r.got) + 1
      BY <2>5, <3>1 DEF Came
    <3>3. CASE i \in 1 .. Len(r.got)
      BY <2>1, <2>2, <2>5, <3>1, <3>3 DEF Came
    <3>4. CASE i = Len(r.got) + 1
      BY <2>1, <2>2, <2>5, <3>1, <3>4 DEF Came
    <3> QED
      BY <3>1, <3>2, <3>3, <3>4
  <2> HIDE DEF g
  <2>6. ASSUME NEW q, NEW k, NEW a, NEW id, Copy(s, q, k, a, id)
        PROVE  Copy(r, q, k, a, id)
               \/ (id = f.data.id /\ q = "got" /\ k = None /\ a = Len(r.got) + 1)
    <3>1. CASE q = "got"
      BY <2>4, <2>5, <2>6, <3>1 DEF Copy
    <3>2. CASE q # "got"
      BY <2>4, <2>6, <3>2 DEF Copy
    <3> QED
      BY <3>1, <3>2
  <2>7. Plus(r, s, f.data.id)
    BY <2>6, SMTT(30) DEF Plus
  <2> QED
    BY <2>7 DEF s
<1> QED
  BY <1>1, <1>2

LEMMA TrafficCopies ==
  ASSUME Around, NEW n \in Node, NEW r \in Turns(Talk), NEW f \in Payloads, Nearing(f.way),
         f.dest = f.data.to, NEW fav
  PROVE  Plus(r, HandleTraffic(n, r, f, fav), f.data.id)
<1> DEFINE hops == NextHops(n, f.way.path, f.way.mark)
           e == r.p.entries[f.source]
           new == [e EXCEPT !.deadline = clock + PATH_TIMEOUT]
           s == [r EXCEPT !.p = [r.p EXCEPT !.entries = [r.p.entries EXCEPT ![f.source] = new]]]
           fresh == IF e = None \/ e.broken THEN r
                    ELSE [r EXCEPT !.p.entries[f.source].deadline = clock + PATH_TIMEOUT]
           b == PathBroken(f.from, f.source, f.dest)
<1>1. f \in Travelling /\ f.source \in Node /\ f.dest \in Node /\ f.from \in Path /\ f.type = "Traffic"
  BY DEF Travelling, Talk, IsRouted, Payloads
<1>2. CASE hops # {}
  <2> DEFINE g == Emit(r, Choice(hops, fav), Forwarded(n, f))
  <2>1. Plus(r, g, f.data.id)
    BY <1>1, <1>2, PassOnCopies
  <2>2. HandleTraffic(n, r, f, fav) = g
    BY <1>2 DEF HandleTraffic
  <2> HIDE DEF g
  <2> QED
    BY <2>1, <2>2
<1>3. CASE hops = {} /\ f.dest = n
  <2>1. HandleTraffic(n, r, f, fav) = Deliver(n, fresh, f)
    BY <1>3 DEF HandleTraffic
  <2>2. fresh \in Turns(Talk) /\ Less(r, fresh)
    <3>1. CASE e = None \/ e.broken
      BY <3>1, LessAll
    <3>2. CASE ~(e = None \/ e.broken)
      <4>1. e \in Entry
        BY <1>1, <3>2 DEF Turns, PathStates
      <4>2. clock + PATH_TIMEOUT \in Nat
        BY RoutingAssumption DEF Around
      <4>3. new \in Entry
        <5> HIDE DEF e
        <5> QED
          BY <4>1, <4>2 DEF Entry
      <4>4. fresh = s
        BY <1>1, <3>2, <4>1 DEF Turns, PathStates
      <4> HIDE DEF new, fresh
      <4>5. s \in Turns(Talk)
        BY <1>1, <4>3, EntryType
      <4>6. Less(r, s)
        BY EntryCopies
      <4> HIDE DEF s
      <4> QED
        BY <4>4, <4>5, <4>6
    <3> QED
      BY <3>1, <3>2
  <2> HIDE DEF fresh
  <2>3. Plus(fresh, Deliver(n, fresh, f), f.data.id)
    BY <2>2, DeliverCopies
  <2> QED
    BY <2>1, <2>2, <2>3, LessPlus
<1>4. CASE hops = {} /\ f.dest # n
  <2>1. HandleTraffic(n, r, f, fav) = HandleBroken(n, r, b, fav)
    BY <1>4 DEF HandleTraffic
  <2>2. b \in Brokens /\ Nearing(b.way)
    BY <1>1, RoutedType DEF PathBroken, Brokens
  <2> HIDE DEF b
  <2>3. Less(r, HandleBroken(n, r, b, fav))
    BY <2>2, BrokenCopies
  <2> QED
    BY <2>1, <2>3, LessPlus
<1> QED
  BY <1>2, <1>3, <1>4

LEMMA DispatchCopies ==
  ASSUME Around, NEW n \in Node, NEW r \in Turns(Talk), NEW from, NEW f \in Frame, NEW fav, Alone(r)
  PROVE  /\ f.type # "Traffic" => Renew(r, Dispatch(n, r, from, f, fav))
         /\ f.type = "Traffic" => Plus(r, Dispatch(n, r, from, f, fav), f.data.id)
<1>1. CASE f \in Lookups
  <2>1. f.type = "Lookup"
    BY <1>1 DEF Lookups
  <2> QED
    BY <1>1, <2>1, HandleLookupCopies DEF Dispatch
<1>2. CASE f \in Notifies /\ Nearing(f.way)
  <2>1. f.type = "Notify"
    BY <1>2 DEF Notifies
  <2> QED
    BY <1>2, <2>1, NotifyCopies DEF Dispatch
<1>3. CASE f \in Brokens /\ Nearing(f.way)
  <2>1. f.type = "Broken"
    BY <1>3 DEF Brokens
  <2> QED
    BY <1>3, <2>1, BrokenCopies DEF Dispatch, Renew
<1>4. CASE f \in Payloads /\ Nearing(f.way) /\ f.dest = f.data.to
  <2>1. f.type = "Traffic"
    BY <1>4 DEF Payloads
  <2> QED
    BY <1>4, <2>1, TrafficCopies DEF Dispatch
<1>5. CASE f \in Filters
  <2>1. f.type = "Bloom"
    BY <1>5 DEF Filters
  <2> DEFINE b == [r.b EXCEPT !.recv[from] = IF @ = None THEN None ELSE f.filter]
             s == [r EXCEPT !.b = b]
  <2>2. Dispatch(n, r, from, f, fav) = s
    BY <2>1 DEF Dispatch, HandleBloom, Turns
  <2> HIDE DEF b
  <2>3. s.p = r.p /\ s.out = r.out /\ s.got = r.got
    BY DEF Turns
  <2> HIDE DEF s
  <2> QED
    BY <2>1, <2>2, <2>3, SameCopies DEF Renew
<1> QED
  BY <1>1, <1>2, <1>3, <1>4, <1>5 DEF Frame, Talk

-----------------------------------------------------------------------------
(* All copies *)

\* A copy at n: held under a, the a-th frame to k, or the a-th delivered.
Spot(P, C, G, n, q, k, a, id) ==
  \/ q = "held" /\ k = None /\ HeldAs(P[n].rumors, a, id)
  \/ q = "fly" /\ k \in Node /\ Lies(C[n][k], a, id)
  \/ q = "got" /\ k = None /\ Came(G[n], a, id)

OnlyOne(P, C, G) ==
  \A n1, n2 \in Node : \A q1, k1, a1, q2, k2, a2, id :
    Spot(P, C, G, n1, q1, k1, a1, id) /\ Spot(P, C, G, n2, q2, k2, a2, id)
    => n1 = n2 /\ q1 = q2 /\ k1 = k2 /\ a1 = a2

Numbered(P, C, G, m) ==
  \A n \in Node : \A q, k, a, id : Spot(P, C, G, n, q, k, a, id) => id <= m

CopyInv == OnlyOne(paths, chan, got) /\ Numbered(paths, chan, got, sends)

\* Where a copy was before n has read the first frame from `read'.
Was(n, read, n1, q, k, a) == IF n1 = read /\ q = "fly" /\ k = n THEN a + 1 ELSE a

LEMMA WasOnce ==
  ASSUME NEW n, NEW read, NEW n1, NEW q, NEW k, NEW a1, NEW a2,
         q = "fly" => a1 \in Int /\ a2 \in Int,
         Was(n, read, n1, q, k, a1) = Was(n, read, n1, q, k, a2)
  PROVE  a1 = a2
<1>1. CASE n1 = read /\ q = "fly" /\ k = n
  BY <1>1 DEF Was
<1>2. CASE ~(n1 = read /\ q = "fly" /\ k = n)
  BY <1>2 DEF Was
<1> QED
  BY <1>1, <1>2

\* Every copy was there before.
Left(P, C, G, n, read, n1, q, k, a, id) ==
  /\ q = "fly" => a \in Int
  /\ Spot(P, C, G, n1, q, k, Was(n, read, n1, q, k, a), id)

LEMMA NoneMade ==
  ASSUME NEW P, NEW C, NEW G, NEW P2, NEW C2, NEW G2, NEW m \in Int, NEW m2 \in Int,
         NEW n, NEW read, OnlyOne(P, C, G), Numbered(P, C, G, m), m <= m2,
         \A h \in Node : \A q, k, a, id : Spot(P, C, G, h, q, k, a, id) => id \in Int,
         \A h \in Node : \A q, k, a, id :
           Spot(P2, C2, G2, h, q, k, a, id) => Left(P, C, G, n, read, h, q, k, a, id)
  PROVE  OnlyOne(P2, C2, G2) /\ Numbered(P2, C2, G2, m2)
<1>1. ASSUME NEW n1 \in Node, NEW n2 \in Node, NEW q1, NEW k1, NEW a1, NEW q2, NEW k2, NEW a2, NEW id,
             Spot(P2, C2, G2, n1, q1, k1, a1, id), Spot(P2, C2, G2, n2, q2, k2, a2, id)
      PROVE  n1 = n2 /\ q1 = q2 /\ k1 = k2 /\ a1 = a2
  <2>1. Left(P, C, G, n, read, n1, q1, k1, a1, id) /\ Left(P, C, G, n, read, n2, q2, k2, a2, id)
    BY <1>1
  <2>2. n1 = n2 /\ q1 = q2 /\ k1 = k2 /\ Was(n, read, n1, q1, k1, a1) = Was(n, read, n2, q2, k2, a2)
    BY <2>1 DEF OnlyOne, Left
  <2>3. Was(n, read, n1, q1, k1, a1) = Was(n, read, n1, q1, k1, a2)
    BY <2>2
  <2>4. q1 = "fly" => a1 \in Int /\ a2 \in Int
    BY <2>1, <2>2 DEF Left
  <2>5. a1 = a2
    BY <2>3, <2>4, WasOnce
  <2> QED
    BY <2>2, <2>5
<1>2. ASSUME NEW h \in Node, NEW q, NEW k, NEW a, NEW id, Spot(P2, C2, G2, h, q, k, a, id)
      PROVE  id <= m2
  <2>1. Spot(P, C, G, h, q, k, Was(n, read, h, q, k, a), id)
    BY <1>2 DEF Left
  <2>2. id <= m /\ id \in Int
    BY <2>1 DEF Numbered
  <2> QED
    BY <2>2
<1> QED
  BY <1>1, <1>2 DEF OnlyOne, Numbered

\* All but the copy of i0.
Made(P, C, G, P2, C2, G2, n, read, i0, n0, q0, k0, a0) ==
  \A h \in Node : \A q, k, a, id :
    Spot(P2, C2, G2, h, q, k, a, id) =>
      \/ id # i0 /\ Left(P, C, G, n, read, h, q, k, a, id)
      \/ id = i0 /\ h = n0 /\ q = q0 /\ k = k0 /\ a = a0

LEMMA OneMade ==
  ASSUME NEW P, NEW C, NEW G, NEW P2, NEW C2, NEW G2, NEW m \in Int, NEW m2 \in Int,
         NEW n, NEW read, OnlyOne(P, C, G), Numbered(P, C, G, m), m <= m2,
         NEW n0, NEW q0, NEW k0, NEW a0, NEW i0, i0 <= m2,
         \A h \in Node : \A q, k, a, id : Spot(P, C, G, h, q, k, a, id) => id \in Int,
         Made(P, C, G, P2, C2, G2, n, read, i0, n0, q0, k0, a0)
  PROVE  OnlyOne(P2, C2, G2) /\ Numbered(P2, C2, G2, m2)
<1>1. ASSUME NEW n1 \in Node, NEW n2 \in Node, NEW q1, NEW k1, NEW a1, NEW q2, NEW k2, NEW a2, NEW id,
             Spot(P2, C2, G2, n1, q1, k1, a1, id), Spot(P2, C2, G2, n2, q2, k2, a2, id)
      PROVE  n1 = n2 /\ q1 = q2 /\ k1 = k2 /\ a1 = a2
  <2>1. CASE id = i0
    <3>1. n1 = n0 /\ q1 = q0 /\ k1 = k0 /\ a1 = a0
      BY <1>1, <2>1 DEF Made
    <3>2. n2 = n0 /\ q2 = q0 /\ k2 = k0 /\ a2 = a0
      BY <1>1, <2>1 DEF Made
    <3> QED
      BY <3>1, <3>2
  <2>2. CASE id # i0
    <3>1. Left(P, C, G, n, read, n1, q1, k1, a1, id) /\ Left(P, C, G, n, read, n2, q2, k2, a2, id)
      BY <1>1, <2>2 DEF Made
    <3>2. n1 = n2 /\ q1 = q2 /\ k1 = k2 /\ Was(n, read, n1, q1, k1, a1) = Was(n, read, n2, q2, k2, a2)
      BY <3>1 DEF OnlyOne, Left
    <3>3. Was(n, read, n1, q1, k1, a1) = Was(n, read, n1, q1, k1, a2)
      BY <3>2
    <3>4. q1 = "fly" => a1 \in Int /\ a2 \in Int
      BY <3>1, <3>2 DEF Left
    <3>5. a1 = a2
      BY <3>3, <3>4, WasOnce
    <3> QED
      BY <3>2, <3>5
  <2> QED
    BY <2>1, <2>2
<1>2. ASSUME NEW h \in Node, NEW q, NEW k, NEW a, NEW id, Spot(P2, C2, G2, h, q, k, a, id)
      PROVE  id <= m2
  <2>1. CASE id # i0
    <3>1. Spot(P, C, G, h, q, k, Was(n, read, h, q, k, a), id)
      BY <1>2, <2>1 DEF Left, Made
    <3>2. id <= m /\ id \in Int
      BY <3>1 DEF Numbered
    <3> QED
      BY <3>2
  <2> QED
    BY <2>1
<1> QED
  BY <1>1, <1>2 DEF OnlyOne, Numbered

\* Payloads have numbers.
LEMMA SpotType ==
  ASSUME TypeInv, NEW n \in Node, NEW q, NEW k, NEW a, NEW id, Spot(paths, chan, got, n, q, k, a, id)
  PROVE  id \in Nat /\ (q = "fly" => a \in Int /\ a >= 1)
<1>1. CASE q = "held"
  <2> DEFINE t == paths[n].rumors
  <2>1. t \in RumorTables
    BY DEF TypeInv, PathStates
  <2>2. HeldAs(t, a, id)
    BY <1>1 DEF Spot
  <2> HIDE DEF t
  <2>3. t[a] \in RumorEntry /\ t[a].pending # None /\ t[a].pending.id = id
    BY <2>1, <2>2, TableOf DEF HeldAs
  <2>4. t[a].pending \in Data
    BY <2>3 DEF RumorEntry
  <2> QED
    BY <1>1, <2>3, <2>4 DEF Data
<1>2. CASE q = "fly"
  <2> DEFINE s == chan[n][k]
  <2>1. Lies(s, a, id) /\ k \in Node
    BY <1>2 DEF Spot
  <2>2. s \in Seq(Frame)
    BY <2>1 DEF TypeInv
  <2> HIDE DEF s
  <2>3. a \in 1 .. Len(s) /\ Len(s) \in Nat /\ s[a] \in Frame
    <3> HIDE DEF Frame
    <3> QED
      BY <2>1, <2>2 DEF Lies
  <2>4. s[a].type = "Traffic" /\ s[a].data.id = id
    BY <2>1 DEF Lies, Carries
  <2>5. s[a].data \in Data
    BY <2>3, <2>4 DEF Frame, Talk, Lookups, Notifies, Brokens, Payloads, Filters
  <2> QED
    BY <2>3, <2>4, <2>5 DEF Data
<1>3. CASE q = "got"
  <2> DEFINE s == got[n]
  <2>1. Came(s, a, id)
    BY <1>3 DEF Spot
  <2>2. s \in Seq(Nat)
    BY DEF TypeInv
  <2> HIDE DEF s
  <2>3. id \in Nat
    BY <2>1, <2>2 DEF Came
  <2> QED
    BY <1>3, <2>3
<1> QED
  BY <1>1, <1>2, <1>3 DEF Spot

\* A copy that a step of n left alone.
Stays(n, read, n1, q, k, a, id) ==
  /\ n1 # n \/ q = "fly"
  /\ Left(paths, chan, got, n, read, n1, q, k, a, id)
  /\ q = "fly" => a >= 1

\* Where a frame is among the new ones.
Since(n, q, k, a) == IF q = "fly" THEN a - Len(chan[n][k]) ELSE a

\* The copies after a step of n are the ones it left alone and those of its turn.
LEMMA StepSpots ==
  ASSUME TypeInv, NEW n \in Node, NEW r \in Turns(Frame), NEW read, Reading(n, read),
         Step(n, r, read), NEW n1 \in Node, NEW q, NEW k, NEW a, NEW id,
         Spot(paths', chan', got', n1, q, k, a, id)
  PROVE  \/ Stays(n, read, n1, q, k, a, id)
         \/ /\ n1 = n /\ Copy(r, q, k, Since(n, q, k, a), id)
            /\ q = "fly" => k \in Node /\ a \in Int
<1>1. /\ paths' = [paths EXCEPT ![n] = r.p] /\ got' = [got EXCEPT ![n] = r.got]
      /\ DOMAIN paths = Node /\ DOMAIN got = Node
  BY DEF Step, TypeInv
<1>2. read # n
  BY RoutingAssumption DEF Reading
<1>3. CASE q = "held"
  <2>1. k = None /\ HeldAs(paths'[n1].rumors, a, id)
    BY <1>3 DEF Spot
  <2>2. CASE n1 = n
    <3>1. HeldAs(r.p.rumors, a, id)
      BY <1>1, <2>1, <2>2
    <3> QED
      BY <1>3, <2>1, <2>2, <3>1 DEF Copy, Since
  <2>3. CASE n1 # n
    <3>1. HeldAs(paths[n1].rumors, a, id)
      BY <1>1, <2>1, <2>3
    <3>2. Was(n, read, n1, q, k, a) = a
      BY <1>3 DEF Was
    <3> QED
      BY <1>3, <2>1, <2>3, <3>1, <3>2 DEF Stays, Left, Spot
  <2> QED
    BY <2>2, <2>3
<1>4. CASE q = "got"
  <2>1. k = None /\ Came(got'[n1], a, id)
    BY <1>4 DEF Spot
  <2>2. CASE n1 = n
    <3>1. Came(r.got, a, id)
      BY <1>1, <2>1, <2>2
    <3> QED
      BY <1>4, <2>1, <2>2, <3>1 DEF Copy, Since
  <2>3. CASE n1 # n
    <3>1. Came(got[n1], a, id)
      BY <1>1, <2>1, <2>3
    <3>2. Was(n, read, n1, q, k, a) = a
      BY <1>4 DEF Was
    <3> QED
      BY <1>4, <2>1, <2>3, <3>1, <3>2 DEF Stays, Left, Spot
  <2> QED
    BY <2>2, <2>3
<1>5. CASE q = "fly"
  <2>1. k \in Node /\ Lies(chan'[n1][k], a, id)
    BY <1>5 DEF Spot
  <2> DEFINE s == chan[n1][k]
  <2>2. s \in Seq(Frame) /\ r.out[k] \in Seq(Frame)
    BY <2>1 DEF TypeInv, Turns
  <2>3. chan'[n1][k] = IF n1 = n THEN s \o r.out[k]
                       ELSE IF n1 = read /\ k = n THEN Tail(s)
                       ELSE s
    BY <2>1 DEF Step
  <2>4. ASSUME Lies(s, a, id)
        PROVE  a \in Int /\ a >= 1
    <3> HIDE DEF Frame
    <3> QED
      BY <2>2, <2>4 DEF Lies
  <2>5. CASE n1 = n
    <3>1. Lies(s \o r.out[k], a, id)
      BY <2>1, <2>3, <2>5
    <3>2. CASE Lies(s, a, id)
      <4>1. Was(n, read, n1, q, k, a) = a
        BY <1>2, <2>5 DEF Was
      <4> QED
        BY <1>5, <2>1, <2>4, <3>2, <4>1 DEF Stays, Left, Spot
    <3>3. CASE a \in Int /\ a > Len(s) /\ Lies(r.out[k], a - Len(s), id)
      BY <1>5, <2>1, <2>5, <3>3 DEF Copy, Since
    <3> HIDE DEF s
    <3> QED
      BY <2>2, <3>1, <3>2, <3>3, LiesConcat
  <2>6. CASE n1 # n /\ n1 = read /\ k = n
    <3>1. Lies(Tail(s), a, id)
      BY <2>1, <2>3, <2>6
    <3>2. s # <<>>
      BY <2>6, RoutingAssumption DEF Reading
    <3>3. a \in Nat /\ a >= 1 /\ Lies(s, a + 1, id)
      <4> HIDE DEF s
      <4> QED
        BY <2>2, <3>1, <3>2, LiesTail
    <3>4. Was(n, read, n1, q, k, a) = a + 1
      BY <1>5, <2>6 DEF Was
    <3>5. Spot(paths, chan, got, n1, q, k, a + 1, id)
      BY <1>5, <2>1, <3>3 DEF Spot
    <3> QED
      BY <1>5, <3>3, <3>4, <3>5 DEF Stays, Left
  <2>7. CASE n1 # n /\ ~(n1 = read /\ k = n)
    <3>1. Lies(s, a, id)
      BY <2>1, <2>3, <2>7
    <3>2. Was(n, read, n1, q, k, a) = a
      BY <2>7 DEF Was
    <3> QED
      BY <1>5, <2>1, <2>4, <3>1, <3>2 DEF Stays, Left, Spot
  <2> QED
    BY <2>5, <2>6, <2>7
<1> QED
  BY <1>3, <1>4, <1>5 DEF Spot

\* The copies of a turn before it has written anything.
LEMMA TurnCopies ==
  ASSUME TypeInv, NEW n \in Node, NEW q, NEW k, NEW a, NEW id, Copy(Turn(n), q, k, a, id)
  PROVE  q # "fly" /\ Spot(paths, chan, got, n, q, k, a, id)
<1>1. Turn(n).p = paths[n] /\ Turn(n).got = got[n] /\ Turn(n).out = [j \in Node |-> <<>>]
  BY DEF Turn
<1>2. CASE q = "fly"
  <2>1. k \in Node /\ Lies(Turn(n).out[k], a, id)
    BY <1>2 DEF Copy
  <2>2. Turn(n).out[k] = <<>>
    BY <1>1, <2>1
  <2>3. a \in DOMAIN <<>>
    BY <2>1, <2>2 DEF Lies
  <2> QED
    BY <2>3
<1>3. CASE q # "fly"
  BY <1>1, <1>3 DEF Copy, Spot
<1> QED
  BY <1>2, <1>3

LEMMA TurnAlone ==
  ASSUME TypeInv, CopyInv, NEW n \in Node
  PROVE  Alone(Turn(n))
<1> SUFFICES ASSUME NEW q1, NEW k1, NEW a1, NEW q2, NEW k2, NEW a2, NEW id,
                    Copy(Turn(n), q1, k1, a1, id), Copy(Turn(n), q2, k2, a2, id)
             PROVE  q1 = q2 /\ k1 = k2 /\ a1 = a2
  BY DEF Alone
<1>1. Spot(paths, chan, got, n, q1, k1, a1, id) /\ Spot(paths, chan, got, n, q2, k2, a2, id)
  BY TurnCopies
<1> QED
  BY <1>1 DEF CopyInv, OnlyOne

\* The only copy of i0, if there is one, is n's to replace.
Freed(n, read, i0) ==
  \A n1 \in Node : \A q, k, a :
    Spot(paths, chan, got, n1, q, k, a, i0) =>
      \/ n1 = n /\ q # "fly"
      \/ n1 = read /\ q = "fly" /\ k = n /\ a = 1

LEMMA StepCopies ==
  ASSUME TypeInv, CopyInv, NEW n \in Node, NEW r \in Turns(Frame), NEW read, Reading(n, read),
         Step(n, r, read), sends' \in Nat, sends <= sends',
         Less(Turn(n), r)
         \/ \E i0 : Gives(Turn(n), r, i0) /\ i0 <= sends' /\ Freed(n, read, i0)
  PROVE  CopyInv'
<1>1. sends \in Int /\ sends' \in Int
  BY DEF TypeInv
<1>2. OnlyOne(paths, chan, got) /\ Numbered(paths, chan, got, sends)
  BY DEF CopyInv
<1>3. \A h \in Node : \A q, k, a, id : Spot(paths, chan, got, h, q, k, a, id) => id \in Int
  BY SpotType
<1>4. ASSUME NEW h \in Node, NEW q, NEW k, NEW a, NEW id,
             q # "fly", Spot(paths, chan, got, h, q, k, a, id)
      PROVE  Left(paths, chan, got, n, read, h, q, k, a, id)
  <2>1. Was(n, read, h, q, k, a) = a
    BY <1>4 DEF Was
  <2> QED
    BY <1>4, <2>1 DEF Left
<1>5. CASE Less(Turn(n), r)
  <2>1. ASSUME NEW h \in Node, NEW q, NEW k, NEW a, NEW id, Spot(paths', chan', got', h, q, k, a, id)
        PROVE  Left(paths, chan, got, n, read, h, q, k, a, id)
    <3>1. CASE Stays(n, read, h, q, k, a, id)
      BY <3>1 DEF Stays
    <3>2. CASE h = n /\ Copy(r, q, k, Since(n, q, k, a), id)
      <4>1. Copy(Turn(n), q, k, Since(n, q, k, a), id)
        BY <1>5, <3>2 DEF Less
      <4>2. q # "fly" /\ Spot(paths, chan, got, n, q, k, Since(n, q, k, a), id)
        BY <4>1, TurnCopies
      <4>3. Spot(paths, chan, got, h, q, k, a, id)
        BY <3>2, <4>2 DEF Since
      <4> QED
        BY <1>4, <4>2, <4>3
    <3> QED
      BY <2>1, <3>1, <3>2, StepSpots
  <2>2. OnlyOne(paths', chan', got') /\ Numbered(paths', chan', got', sends')
    BY <1>1, <1>2, <1>3, <2>1, NoneMade
  <2> QED
    BY <2>2 DEF CopyInv
<1>6. ASSUME NEW i0, Gives(Turn(n), r, i0), i0 <= sends', Freed(n, read, i0)
      PROVE  CopyInv'
  <2>1. PICK q0, k0, b0 : \A q, k, a, id :
          Copy(r, q, k, a, id) =>
            (id # i0 /\ Copy(Turn(n), q, k, a, id)) \/ (id = i0 /\ q = q0 /\ k = k0 /\ a = b0)
    BY <1>6 DEF Gives
  <2> DEFINE a0 == IF q0 = "fly" THEN b0 + Len(chan[n][k0]) ELSE b0
  <2>2. ASSUME NEW h \in Node, NEW q, NEW k, NEW a, NEW id, Spot(paths', chan', got', h, q, k, a, id)
        PROVE  \/ id # i0 /\ Left(paths, chan, got, n, read, h, q, k, a, id)
               \/ id = i0 /\ h = n /\ q = q0 /\ k = k0 /\ a = a0
    <3>1. CASE Stays(n, read, h, q, k, a, id)
      <4>1. ASSUME id = i0
            PROVE  FALSE
        <5> DEFINE w == Was(n, read, h, q, k, a)
        <5>1. Spot(paths, chan, got, h, q, k, w, i0)
          BY <3>1, <4>1 DEF Stays, Left
        <5>2. h = read /\ q = "fly" /\ k = n /\ w = 1
          BY <1>6, <3>1, <5>1 DEF Freed, Stays
        <5>3. a + 1 = 1 /\ a \in Int /\ a >= 1
          BY <3>1, <5>2 DEF Was, Stays, Left
        <5> QED
          BY <5>3
      <4> QED
        BY <3>1, <4>1 DEF Stays
    <3>2. CASE h = n /\ Copy(r, q, k, Since(n, q, k, a), id) /\ (q = "fly" => k \in Node /\ a \in Int)
      <4>1. CASE id # i0
        <5>1. Copy(Turn(n), q, k, Since(n, q, k, a), id)
          BY <2>1, <3>2, <4>1
        <5>2. q # "fly" /\ Spot(paths, chan, got, n, q, k, Since(n, q, k, a), id)
          BY <5>1, TurnCopies
        <5>3. Spot(paths, chan, got, h, q, k, a, id)
          BY <3>2, <5>2 DEF Since
        <5> QED
          BY <1>4, <4>1, <5>2, <5>3
      <4>2. CASE id = i0
        <5>1. q = q0 /\ k = k0 /\ Since(n, q, k, a) = b0
          BY <2>1, <3>2, <4>2
        <5>2. a = a0
          <6>1. CASE q = "fly"
            <7>1. chan[n][k] \in Seq(Frame)
              BY <3>2, <6>1 DEF TypeInv
            <7>2. Len(chan[n][k]) \in Int
              <8> HIDE DEF Frame
              <8> QED
                BY <7>1
            <7>3. a - Len(chan[n][k]) = b0 /\ a \in Int
              BY <3>2, <5>1, <6>1 DEF Since
            <7> QED
              BY <5>1, <6>1, <7>2, <7>3
          <6>2. CASE q # "fly"
            BY <5>1, <6>2 DEF Since
          <6> QED
            BY <6>1, <6>2
        <5> QED
          BY <3>2, <4>2, <5>1, <5>2
      <4> QED
        BY <4>1, <4>2
    <3> QED
      BY <2>2, <3>1, <3>2, StepSpots
  <2> HIDE DEF a0
  <2>3. OnlyOne(paths', chan', got') /\ Numbered(paths', chan', got', sends')
    <3>1. Made(paths, chan, got, paths', chan', got', n, read, i0, n, q0, k0, a0)
      BY <2>2 DEF Made
    <3> QED
      BY <1>1, <1>2, <1>3, <1>6, <3>1, OneMade
  <2> QED
    BY <2>3 DEF CopyInv
<1> QED
  BY <1>5, <1>6

-----------------------------------------------------------------------------
(* Actions *)

LEMMA ReadCopies ==
  ASSUME IInv, CopyInv, NEW n \in Node, NEW p \in Node, Read(n, p)
  PROVE  CopyInv'
<1> DEFINE f == Head(chan[p][n])
           s == chan[p][n]
           t == Turn(n)
<1>1. PICK fav \in linked[n] : Step(n, Dispatch(n, t, p, f, fav), p)
  BY DEF Read
<1> DEFINE r == Dispatch(n, t, p, f, fav)
<1>2. sends' = sends /\ p \in linked[n] /\ s # <<>> /\ sends \in Nat
  BY DEF Read, IInv, TypeInv
<1>3. p # n
  BY <1>2 DEF IInv, BloomInv, LinkInv
<1>4. Reading(n, p)
  BY <1>2, <1>3 DEF Reading
<1>5. Around /\ t \in Turns(Talk) /\ t.p = paths[n]
  BY TurnIs DEF IInv
<1>6. s \in Seq(Frame)
  BY DEF IInv, TypeInv
<1>7. f \in Frame /\ f = s[1] /\ 1 \in DOMAIN s
  <2> HIDE DEF Frame
  <2> QED
    BY <1>2, <1>6
<1>8. Alone(t)
  BY TurnAlone DEF IInv
<1>9. ASSUME NEW q, NEW k, NEW a, NEW id, Copy(t, q, k, a, id)
      PROVE  q # "fly" /\ Spot(paths, chan, got, n, q, k, a, id)
  BY <1>9, TurnCopies DEF IInv
<1> HIDE DEF t
<1>10. r \in Turns(Frame)
  <2> HIDE DEF f
  <2>1. r \in Turns(Talk)
    BY <1>5, <1>7, DispatchTalk, DispatchBloom DEF Frame
  <2> QED
    BY <2>1, TalkTurns
<1>11. /\ f.type # "Traffic" => Renew(t, r)
       /\ f.type = "Traffic" => Plus(t, r, f.data.id)
  <2> HIDE DEF f
  <2> QED
    BY <1>5, <1>7, <1>8, DispatchCopies
<1>12. Step(n, r, p)
  BY <1>1
<1> HIDE DEF r
<1>13. ASSUME Less(t, r) \/ \E i0 : Gives(t, r, i0) /\ i0 <= sends' /\ Freed(n, p, i0)
       PROVE  CopyInv'
  BY <1>2, <1>4, <1>10, <1>12, <1>13, StepCopies DEF t, IInv
<1>14. CASE f.type = "Traffic"
  <2> DEFINE i0 == f.data.id
  <2>1. Spot(paths, chan, got, p, "fly", n, 1, i0)
    BY <1>7, <1>14 DEF Spot, Lies, Carries
  <2>2. i0 <= sends
    BY <2>1 DEF CopyInv, Numbered
  <2> HIDE DEF i0
  <2>3. ASSUME NEW h \in Node, NEW q, NEW k, NEW a, Spot(paths, chan, got, h, q, k, a, i0)
        PROVE  h = p /\ q = "fly" /\ k = n /\ a = 1
    BY <2>1, <2>3 DEF CopyInv, OnlyOne
  <2>4. Freed(n, p, i0)
    BY <2>3 DEF Freed
  <2>5. \A q, k, a : ~Copy(t, q, k, a, i0)
    BY <1>9, <2>3
  <2>6. Plus(t, r, i0)
    BY <1>11, <1>14 DEF i0
  <2>7. Gives(t, r, i0)
    BY <2>5, <2>6, PlusGives
  <2> QED
    BY <1>2, <1>13, <2>2, <2>4, <2>7
<1>15. CASE f.type # "Traffic"
  <2>1. CASE Less(t, r)
    BY <1>13, <2>1
  <2>2. ASSUME NEW i0, NEW x, HeldAs(t.p.rumors, x, i0), Gives(t, r, i0)
        PROVE  CopyInv'
    <3>1. Spot(paths, chan, got, n, "held", None, x, i0)
      BY <1>5, <2>2 DEF Spot
    <3>2. i0 <= sends
      BY <3>1 DEF CopyInv, Numbered
    <3>3. ASSUME NEW h \in Node, NEW q, NEW k, NEW a, Spot(paths, chan, got, h, q, k, a, i0)
          PROVE  h = n /\ q = "held"
      BY <3>1, <3>3 DEF CopyInv, OnlyOne
    <3>4. Freed(n, p, i0)
      BY <3>3 DEF Freed
    <3> QED
      BY <1>2, <1>13, <2>2, <3>2, <3>4
  <2> QED
    BY <1>11, <1>15, <2>1, <2>2 DEF Renew
<1> QED
  BY <1>14, <1>15

LEMMA MaintainCopies ==
  ASSUME IInv, CopyInv, NEW n \in Node, Maintain(n)
  PROVE  CopyInv'
<1> DEFINE t == Turn(n)
           r == BloomMaintenance(n, t)
           e == [r EXCEPT !.p = Expire(@)]
<1>1. PICK s \in SetToSeqs(Unresolved(e.p)) : Step(n, LookAgain(n, e, s), None)
  BY DEF Maintain
<1> DEFINE u == LookAgain(n, e, s)
<1>2. sends' = sends /\ sends \in Nat
  BY DEF Maintain, IInv, TypeInv
<1>3. Reading(n, None)
  BY DEF Reading
<1>4. Around /\ t \in Turns(Frame)
  BY TurnIs, TalkTurns DEF IInv
<1> HIDE DEF t
<1>5. /\ r \in Turns(Frame) /\ r.p = t.p /\ r.got = t.got
      /\ \A p \in Node : r.out[p] = t.out[p] \/ \E f \in Filters : r.out[p] = t.out[p] \o <<f>>
  BY <1>4, MaintenanceType
<1> HIDE DEF r
<1>6. Less(t, r)
  <2>1. ASSUME NEW k \in Node, NEW i, NEW id, Lies(r.out[k], i, id)
        PROVE  Lies(t.out[k], i, id)
    <3>1. CASE r.out[k] = t.out[k]
      BY <2>1, <3>1
    <3>2. ASSUME NEW f \in Filters, r.out[k] = t.out[k] \o <<f>>
          PROVE  Lies(t.out[k], i, id)
      <4> DEFINE o == t.out[k]
      <4>1. o \in Seq(Frame)
        BY <1>4 DEF Turns
      <4>2. f \in Frame /\ f.type = "Bloom"
        BY DEF Frame, Filters
      <4>3. Lies(o \o <<f>>, i, id)
        BY <2>1, <3>2
      <4> HIDE DEF o, Frame
      <4>4. o \o <<f>> = Append(o, f)
        BY <4>1, <4>2
      <4>5. ~Carries(f, id)
        BY <4>2 DEF Carries
      <4>6. Lies(Append(o, f), i, id)
        BY <4>3, <4>4
      <4>7. Lies(o, i, id)
        BY <4>1, <4>2, <4>5, <4>6, LiesAppend
      <4> QED
        BY <4>7 DEF o
    <3> QED
      BY <1>5, <3>1, <3>2
  <2> QED
    BY <1>5, <2>1, LessBy
<1>7. Expire(r.p) \in PathStates
  BY <1>5, ExpireType DEF Turns
<1>8. e \in Turns(Frame) /\ e.got = r.got /\ e.out = r.out /\ e.p = Expire(r.p)
  BY <1>5, <1>7 DEF Turns
<1> HIDE DEF e
<1>9. Less(r, e)
  <2>1. r.p \in PathStates
    BY <1>5 DEF Turns
  <2> DEFINE m == r.p.rumors
             D == {x \in DOMAIN m : m[x].deadline > clock}
  <2>2. Expire(r.p).rumors = [x \in D |-> m[x]]
    BY <2>1 DEF Expire, Restrict, PathStates
  <2> HIDE DEF m
  <2>3. ASSUME NEW x, NEW id, HeldAs([y \in D |-> m[y]], x, id)
        PROVE  HeldAs(m, x, id)
    BY <2>3 DEF HeldAs
  <2>4. ASSUME NEW x, NEW id, HeldAs(e.p.rumors, x, id)
        PROVE  HeldAs(r.p.rumors, x, id)
    BY <1>8, <2>2, <2>3, <2>4 DEF m
  <2> QED
    BY <1>8, <2>4, LessBy
<1>10. /\ u \in Turns(Frame) /\ u.got = e.got
       /\ \A k \in Node : \E x \in Seq(Lookups) : u.out[k] = e.out[k] \o x
       /\ DOMAIN u.p.rumors = DOMAIN e.p.rumors
       /\ \A x \in DOMAIN e.p.rumors : u.p.rumors[x].pending = e.p.rumors[x].pending
  BY <1>4, <1>8, LookAgainType
<1>11. Step(n, u, None)
  BY <1>1
<1> HIDE DEF u
<1>12. Less(e, u)
  <2>1. ASSUME NEW k \in Node, NEW i, NEW id, Lies(u.out[k], i, id)
        PROVE  Lies(e.out[k], i, id)
    <3> DEFINE o == e.out[k]
    <3>1. PICK x \in Seq(Lookups) : u.out[k] = o \o x
      BY <1>10
    <3>2. o \in Seq(Frame)
      BY <1>8 DEF Turns
    <3>3. Lookups \subseteq Frame /\ \A f \in Lookups : f.type # "Traffic"
      BY DEF Frame, Talk, Lookups
    <3> HIDE DEF o, Frame, Lookups
    <3>4. x \in Seq(Frame)
      BY <3>3
    <3>5. \A j : ~Lies(x, j, id)
      BY <3>3 DEF Lies, Carries
    <3>6. Lies(o \o x, i, id)
      BY <2>1, <3>1
    <3>7. Lies(o, i, id)
      BY <3>2, <3>4, <3>5, <3>6, LiesConcat
    <3> QED
      BY <3>7 DEF o
  <2>2. ASSUME NEW x, NEW id, HeldAs(u.p.rumors, x, id)
        PROVE  HeldAs(e.p.rumors, x, id)
    BY <1>10, <2>2 DEF HeldAs
  <2> QED
    BY <1>10, <2>1, <2>2, LessBy
<1>13. Less(t, u)
  BY <1>6, <1>9, <1>12, LessAll
<1> QED
  BY <1>2, <1>3, <1>10, <1>11, <1>13, StepCopies DEF t, IInv

\* A payload with a new number.
LEMMA SendCopies ==
  ASSUME IInv, CopyInv, NEW n \in Node, NEW r \in Turns(Talk), Step(n, r, None),
         sends' = sends + 1, Plus(Turn(n), r, sends + 1)
  PROVE  CopyInv'
<1>1. sends \in Nat /\ sends' \in Nat /\ sends <= sends'
  BY DEF IInv, TypeInv
<1>2. ASSUME NEW h \in Node, NEW q, NEW k, NEW a, Spot(paths, chan, got, h, q, k, a, sends + 1)
      PROVE  FALSE
  <2>1. sends + 1 <= sends
    BY <1>2 DEF CopyInv, Numbered
  <2> QED
    BY <1>1, <2>1
<1>3. Freed(n, None, sends + 1)
  BY <1>2 DEF Freed
<1>4. \A q, k, a : ~Copy(Turn(n), q, k, a, sends + 1)
  BY <1>2, TurnCopies DEF IInv
<1>5. Gives(Turn(n), r, sends + 1)
  BY <1>4, PlusGives
<1>6. Reading(n, None) /\ r \in Turns(Frame) /\ sends + 1 <= sends'
  BY <1>1, TalkTurns DEF Reading
<1> QED
  BY <1>1, <1>3, <1>5, <1>6, StepCopies DEF IInv

LEMMA SendsCopies ==
  ASSUME IInv, CopyInv, NEW n \in Node, NEW d \in Node, SendOrResolve(n, d) \/ SendToKey(n, d)
  PROVE  CopyInv'
<1> DEFINE data == [id |-> sends + 1, to |-> d, seals |-> 0]
           t == Turn(n)
<1>1. sends \in Nat
  BY DEF IInv, TypeInv
<1>2. data \in Data /\ data.to = d /\ data.id = sends + 1
  BY <1>1 DEF Data
<1>3. sends' = sends + 1
  BY <1>1 DEF SendOrResolve, SendToKey
<1>4. Around /\ t \in Turns(Talk)
  BY TurnIs DEF IInv
<1>5. CASE SendToKey(n, d)
  <2>1. PICK fav \in linked[n] : Step(n, SessionSend(n, t, d, data, fav), None)
    BY <1>5 DEF SendToKey
  <2> DEFINE r == SessionSend(n, t, d, data, fav)
  <2> HIDE DEF data
  <2>2. r \in Turns(Talk) /\ Plus(t, r, data.id)
    <3> HIDE DEF t
    <3> QED
      BY <1>2, <1>4, SessionSendType, SessionSendCopies
  <2>3. Step(n, r, None)
    BY <2>1
  <2> HIDE DEF r
  <2> QED
    BY <1>2, <1>3, <2>2, <2>3, SendCopies
<1>6. CASE SendOrResolve(n, d)
  <2>1. PICK fav \in linked[n], a \in InUse(d) :
          Step(n, IF KeysFor(n, a) = {}
                  THEN HoldForLookup(n, t, LookupKeyForAddr(a), data)
                  ELSE SessionSend(n, t, CHOOSE k \in KeysFor(n, a) : TRUE, data, fav), None)
    BY <1>6 DEF SendOrResolve
  <2>2. a \in AddressesOf[d]
    BY DEF InUse
  <2> DEFINE key == LookupKeyForAddr(a)
  <2>3. key \in PublicKey /\ XKey[key] = XOf[d] /\ \A k \in Node : a \in AddressesOf[k] => k = d
    BY <2>2, OwnerOf
  <2> HIDE DEF data, key
  <2>4. CASE KeysFor(n, a) = {}
    <3> DEFINE r == HoldForLookup(n, t, key, data)
    <3>1. r \in Turns(Talk) /\ Plus(t, r, data.id)
      <4> HIDE DEF t
      <4> QED
        BY <1>2, <1>4, <2>3, HoldType, HoldCopies
    <3>2. Step(n, r, None)
      BY <2>1, <2>4 DEF key
    <3> HIDE DEF r
    <3> QED
      BY <1>2, <1>3, <3>1, <3>2, SendCopies
  <2>5. CASE KeysFor(n, a) # {}
    <3> DEFINE r == SessionSend(n, t, d, data, fav)
    <3>1. (CHOOSE k \in KeysFor(n, a) : TRUE) \in KeysFor(n, a)
      BY <2>5
    <3>2. (CHOOSE k \in KeysFor(n, a) : TRUE) = d
      BY <2>3, <3>1 DEF KeysFor
    <3>3. r \in Turns(Talk) /\ Plus(t, r, data.id)
      <4> HIDE DEF t
      <4> QED
        BY <1>2, <1>4, SessionSendType, SessionSendCopies
    <3>4. Step(n, r, None)
      BY <2>1, <2>5, <3>2
    <3> HIDE DEF r
    <3> QED
      BY <1>2, <1>3, <3>3, <3>4, SendCopies
  <2> QED
    BY <2>4, <2>5
<1> QED
  BY <1>5, <1>6

\* Copies are lost at most.
LEMMA LosesCopies ==
  ASSUME TypeInv, CopyInv, sends' = sends, got' = got,
         \A h \in Node : \A x, id : HeldAs(paths'[h].rumors, x, id) => HeldAs(paths[h].rumors, x, id),
         \A h, k \in Node : \A i, id : Lies(chan'[h][k], i, id) => Lies(chan[h][k], i, id)
  PROVE  CopyInv'
<1>1. sends \in Int /\ sends' \in Int /\ sends <= sends'
  BY DEF TypeInv
<1>2. OnlyOne(paths, chan, got) /\ Numbered(paths, chan, got, sends)
  BY DEF CopyInv
<1>3. \A h \in Node : \A q, k, a, id : Spot(paths, chan, got, h, q, k, a, id) => id \in Int
  BY SpotType
<1>4. ASSUME NEW h \in Node, NEW q, NEW k, NEW a, NEW id, Spot(paths', chan', got', h, q, k, a, id)
      PROVE  Left(paths, chan, got, None, None, h, q, k, a, id)
  <2>1. Was(None, None, h, q, k, a) = a
    BY RoutingAssumption DEF Was
  <2>2. Spot(paths, chan, got, h, q, k, a, id)
    BY <1>4 DEF Spot
  <2>3. q = "fly" => a \in Int
    BY <2>2, SpotType
  <2> QED
    BY <2>1, <2>2, <2>3 DEF Left
<1>5. OnlyOne(paths', chan', got') /\ Numbered(paths', chan', got', sends')
  BY <1>1, <1>2, <1>3, <1>4, NoneMade
<1> QED
  BY <1>5 DEF CopyInv

LEMMA FewLie ==
  /\ \A i, id : ~Lies(<<>>, i, id)
  /\ \A filter, i, id : ~Lies(<<Bloom(filter)>>, i, id)
<1>1. ASSUME NEW i, NEW id, Lies(<<>>, i, id)
      PROVE  FALSE
  <2>1. i \in DOMAIN <<>>
    BY <1>1 DEF Lies
  <2> QED
    BY <2>1
<1>2. ASSUME NEW filter, NEW i, NEW id, Lies(<<Bloom(filter)>>, i, id)
      PROVE  FALSE
  <2> DEFINE f == Bloom(filter)
  <2>1. f.type = "Bloom"
    BY DEF Bloom
  <2> HIDE DEF f
  <2>2. i \in DOMAIN <<f>> /\ <<f>>[i].type = "Traffic"
    BY <1>2 DEF Lies, Carries, f
  <2>3. i = 1
    BY <2>2
  <2> QED
    BY <2>1, <2>2, <2>3
<1> QED
  BY <1>1, <1>2

\* The actions that write no payload.
LEMMA LinkCopies ==
  ASSUME IInv, CopyInv, NEW n \in Node, NEW p \in Node, Connect(n, p) \/ Cut(n, p)
  PROVE  CopyInv'
<1>1. UNCHANGED <<paths, got, sends>>
  BY DEF Connect, Cut
<1>2. \E u, v : /\ chan' = [chan EXCEPT ![n][p] = u, ![p][n] = v]
                /\ \A i, id : ~Lies(u, i, id) /\ ~Lies(v, i, id)
  <2>1. CASE Connect(n, p)
    <3> DEFINE u == <<Bloom(AddPeer(blooms[n], p).send[p])>>
               v == <<Bloom(AddPeer(blooms[p], n).send[n])>>
    <3>1. chan' = [chan EXCEPT ![n][p] = u, ![p][n] = v]
      BY <2>1 DEF Connect
    <3>2. \A i, id : ~Lies(u, i, id) /\ ~Lies(v, i, id)
      BY FewLie
    <3> HIDE DEF u, v
    <3> QED
      BY <3>1, <3>2
  <2>2. CASE Cut(n, p)
    <3> DEFINE e == <<>>
    <3>1. chan' = [chan EXCEPT ![n][p] = e, ![p][n] = e]
      BY <2>2 DEF Cut
    <3>2. \A i, id : ~Lies(e, i, id)
      BY FewLie
    <3> HIDE DEF e
    <3> QED
      BY <3>1, <3>2
  <2> QED
    BY <2>1, <2>2
<1>3. PICK u, v : /\ chan' = [chan EXCEPT ![n][p] = u, ![p][n] = v]
                  /\ \A i, id : ~Lies(u, i, id) /\ ~Lies(v, i, id)
  BY <1>2
<1>4. chan \in [Node -> [Node -> Seq(Frame)]]
  BY DEF IInv, TypeInv
<1>5. ASSUME NEW h \in Node, NEW k \in Node
      PROVE  chan'[h][k] \in {chan[h][k], u, v}
  BY <1>3, <1>4
<1>6. ASSUME NEW h \in Node, NEW k \in Node, NEW i, NEW id, Lies(chan'[h][k], i, id)
      PROVE  Lies(chan[h][k], i, id)
  BY <1>3, <1>5, <1>6
<1> QED
  BY <1>1, <1>6, LosesCopies DEF IInv

LEMMA RestartCopies ==
  ASSUME IInv, CopyInv, NEW n \in Node, Restart(n)
  PROVE  CopyInv'
<1> DEFINE e == <<>>
<1>1. /\ chan' = [k \in Node |-> [p \in Node |-> IF n \in {k, p} THEN e ELSE chan[k][p]]]
      /\ paths' = [paths EXCEPT ![n] = DefaultPaths]
      /\ got' = got /\ sends' = sends /\ DOMAIN paths = Node
  BY DEF Restart, IInv, TypeInv
<1>2. \A i, id : ~Lies(e, i, id)
  BY FewLie
<1> HIDE DEF e
<1>3. ASSUME NEW h \in Node, NEW k \in Node, NEW i, NEW id, Lies(chan'[h][k], i, id)
      PROVE  Lies(chan[h][k], i, id)
  BY <1>1, <1>2, <1>3
<1>4. ASSUME NEW h \in Node, NEW x, NEW id, HeldAs(paths'[h].rumors, x, id)
      PROVE  HeldAs(paths[h].rumors, x, id)
  <2>1. ~HeldAs(DefaultPaths.rumors, x, id)
    BY DEF HeldAs, DefaultPaths
  <2> QED
    BY <1>1, <1>4, <2>1
<1> QED
  BY <1>1, <1>3, <1>4, LosesCopies DEF IInv

LEMMA NextCopies ==
  ASSUME IInv, CopyInv, [Next]_vars
  PROVE  CopyInv'
<1>1. ASSUME UNCHANGED <<paths, chan, got, sends>>
      PROVE  CopyInv'
  BY <1>1 DEF CopyInv
<1>2. ASSUME NEW n \in Node, NEW p \in Node, Read(n, p) \/ Hear(n, p) \/ Connect(n, p) \/ Cut(n, p)
      PROVE  CopyInv'
  <2>1. CASE Hear(n, p)
    BY <1>1, <2>1 DEF Hear
  <2> QED
    BY <1>2, <2>1, ReadCopies, LinkCopies
<1>3. ASSUME NEW route \in Routes, SendOrResolve(route[1], route[2]) \/ SendToKey(route[1], route[2])
      PROVE  CopyInv'
  <2>1. route[1] \in Node /\ route[2] \in Node
    BY RoutingAssumption
  <2> QED
    BY <1>3, <2>1, SendsCopies
<1>4. ASSUME NEW n \in Node, Maintain(n) \/ Move(n) \/ Restart(n)
      PROVE  CopyInv'
  <2>1. CASE Move(n)
    BY <1>1, <2>1 DEF Move
  <2> QED
    BY <1>4, <2>1, MaintainCopies, RestartCopies
<1>5. CASE Tick
  BY <1>1, <1>5 DEF Tick
<1>6. CASE UNCHANGED vars
  BY <1>1, <1>6 DEF vars
<1> QED
  BY <1>2, <1>3, <1>4, <1>5, <1>6 DEF Next

LEMMA InitCopies ==
  ASSUME Init
  PROVE  CopyInv
<1> DEFINE e == <<>>
<1>1. /\ chan = [n \in Node |-> [p \in Node |-> e]] /\ got = [n \in Node |-> e]
      /\ paths = [n \in Node |-> DefaultPaths]
  BY DEF Init
<1>2. \A i, id : ~Lies(e, i, id) /\ ~Came(e, i, id)
  BY FewLie DEF Came
<1>3. \A x, id : ~HeldAs(DefaultPaths.rumors, x, id)
  BY DEF HeldAs, DefaultPaths
<1> HIDE DEF e
<1>4. ASSUME NEW n \in Node, NEW q, NEW k, NEW a, NEW id, Spot(paths, chan, got, n, q, k, a, id)
      PROVE  FALSE
  BY <1>1, <1>2, <1>3, <1>4 DEF Spot
<1> QED
  BY <1>4 DEF CopyInv, OnlyOne, Numbered

LEMMA AtMostOne ==
  ASSUME NEW S, \A x, y \in S : x = y
  PROVE  Cardinality(S) \in {0, 1} /\ (S = {} => Cardinality(S) = 0)
<1>1. CASE S = {}
  BY <1>1, FS_EmptySet
<1>2. CASE S # {}
  <2>1. PICK x : x \in S
    BY <1>2
  <2>2. S = {x}
    BY <2>1
  <2> QED
    BY <1>2, <2>2, FS_Singleton
<1> QED
  BY <1>1, <1>2

-----------------------------------------------------------------------------
(* Climbing to the root *)

\* The recursion in RootPath: f climbs from k as far as n steps.
Climbs(info, k, n, f) ==
  f = [m \in 0 .. n |-> IF m = 0 THEN k ELSE IF f[m - 1] = None THEN None ELSE info[f[m - 1]]]

LEMMA ClimbExists ==
  ASSUME NEW info, NEW k, NEW n \in Nat
  PROVE  \E f : Climbs(info, k, n, f)
<1> DEFINE T == {m \in Nat : ~\E f : Climbs(info, k, m, f)}
<1>1. SUFFICES ASSUME T # {}
               PROVE  FALSE
  OBVIOUS
<1>2. PICK x \in T : \A y \in T : x <= y
  BY <1>1, LeastNat
<1>3. CASE x = 0
  <2> DEFINE f == [m \in 0 .. 0 |-> k]
  <2>1. Climbs(info, k, 0, f)
    BY DEF Climbs
  <2> QED
    BY <1>3, <2>1
<1>4. CASE x > 0
  <2>1. x - 1 \in Nat /\ x - 1 \notin T
    BY <1>2, <1>4
  <2>2. PICK f : Climbs(info, k, x - 1, f)
    BY <2>1
  <2> DEFINE g == [m \in 0 .. x |-> IF m < x THEN f[m]
                                    ELSE IF f[x - 1] = None THEN None ELSE info[f[x - 1]]]
             h(m) == IF m = 0 THEN k ELSE IF g[m - 1] = None THEN None ELSE info[g[m - 1]]
  <2>3. ASSUME NEW m \in 0 .. x
        PROVE  g[m] = h(m)
    <3>1. CASE m < x
      <4>1. m \in 0 .. x - 1
        BY <3>1
      <4>2. f[m] = IF m = 0 THEN k ELSE IF f[m - 1] = None THEN None ELSE info[f[m - 1]]
        BY <2>2, <4>1 DEF Climbs
      <4>3. g[m] = f[m] /\ (m # 0 => g[m - 1] = f[m - 1])
        BY <3>1
      <4> QED
        BY <4>2, <4>3
    <3>2. CASE m = x
      <4>1. g[m - 1] = f[x - 1] /\ m # 0
        BY <1>4, <3>2
      <4>2. g[m] = IF f[x - 1] = None THEN None ELSE info[f[x - 1]]
        BY <3>2
      <4> QED
        BY <4>1, <4>2
    <3> QED
      BY <3>1, <3>2
  <2>4. g = [m \in 0 .. x |-> h(m)]
    BY <2>3
  <2>5. Climbs(info, k, x, g)
    BY <2>4 DEF Climbs
  <2> QED
    BY <1>2, <2>5
<1> QED
  BY <1>2, <1>3, <1>4

\* From k, f climbs to a root in d steps.
Reaches(info, k, d, f) ==
  /\ f[0] = k
  /\ \A m \in 0 .. d : f[m] \in Node
  /\ \A m \in 0 .. d : m < d => f[m + 1] = info[f[m]] /\ info[f[m]] # f[m]
  /\ info[f[d]] = f[d]

LEMMA PathReaches ==
  ASSUME NEW info \in InfosType, NEW k \in Node, RootPath(info, k) # None
  PROVE  \E d \in Nat : \E f : Reaches(info, k, d, f) /\ RootPath(info, k) = [i \in 1 .. d |-> f[d - i]]
<1> DEFINE N == Cardinality(Node)
           up[m \in 0 .. N] ==
             IF m = 0 THEN k
             ELSE IF up[m - 1] = None THEN None ELSE info[up[m - 1]]
           root(m) == up[m] # None /\ info[up[m]] = up[m]
           nearest(m) == root(m) /\ \A j \in 0 .. (m - 1) : ~root(j)
           depth == CHOOSE m \in 0 .. N : nearest(m)
           way == [i \in 1 .. depth |-> up[depth - i]]
<1>1. RootPath(info, k) = IF \E m \in 0 .. N : root(m) THEN way ELSE None
  BY DEF RootPath
<1>2. N \in Nat
  BY RoutingAssumption, FS_CardinalityType
<1>3. Climbs(info, k, N, up)
  <2> HIDE DEF N
  <2>1. \E f : Climbs(info, k, N, f)
    BY <1>2, ClimbExists
  <2>2. up = CHOOSE f : Climbs(info, k, N, f)
    BY Zenon DEF Climbs
  <2> HIDE DEF up
  <2> QED
    BY <2>1, <2>2, Zenon
<1> HIDE DEF N, up
<1>4. \E m \in 0 .. N : nearest(m)
  <2> HIDE DEF root
  <2> DEFINE T == {m \in 0 .. N : root(m)}
  <2>1. T \in SUBSET Nat /\ T # {}
    BY <1>1, <1>2
  <2>2. PICK x \in T : \A y \in T : x <= y
    BY <2>1, LeastNat
  <2>3. \A j \in 0 .. (x - 1) : j \in 0 .. N /\ ~(x <= j)
    BY <1>2, <2>1, <2>2
  <2>4. nearest(x)
    BY <2>2, <2>3
  <2> QED
    BY <2>2, <2>4
<1>5. depth \in 0 .. N /\ nearest(depth)
  BY <1>4
<1> HIDE DEF depth
<1>6. depth \in Nat
  BY <1>2, <1>5
<1>7. RootPath(info, k) = way
  BY <1>1
<1>8. up[0] = k /\ \A m \in 1 .. N : up[m] = IF up[m - 1] = None THEN None ELSE info[up[m - 1]]
  BY <1>2, <1>3 DEF Climbs
<1>9. ASSUME NEW m \in 0 .. depth
      PROVE  up[m] \in Node
  <2> DEFINE T == {j \in 0 .. depth : up[j] \notin Node}
  <2>1. SUFFICES ASSUME T # {}
                 PROVE  FALSE
    OBVIOUS
  <2>2. T \in SUBSET Nat
    BY <1>6
  <2>3. PICK x \in T : \A y \in T : x <= y
    BY <2>1, <2>2, LeastNat
  <2>4. x # 0
    BY <1>8, <2>3
  <2>5. x \in 1 .. N /\ x - 1 \in 0 .. depth /\ x - 1 \in 0 .. N /\ ~(x <= x - 1)
    BY <1>2, <1>5, <1>6, <2>3, <2>4
  <2>6. up[x - 1] \in Node
    BY <2>3, <2>5
  <2>7. up[x] = info[up[x - 1]]
    BY <1>8, <2>5, <2>6, RoutingAssumption
  <2>8. up[x] = None
    BY <2>3, <2>6, <2>7 DEF InfosType
  <2>9. CASE x = depth
    BY <1>5, <2>8, <2>9
  <2>10. CASE x < depth
    <3> DEFINE U == {j \in 0 .. depth : j >= x /\ up[j] # None}
    <3>1. U \in SUBSET Nat /\ depth \in U
      BY <1>5, <1>6, <2>10
    <3>2. PICK y \in U : \A z \in U : y <= z
      BY <3>1, LeastNat
    <3>3. y # x
      BY <2>8, <3>2
    <3>4. y - 1 \in 0 .. depth /\ y - 1 >= x /\ y \in 1 .. N /\ ~(y <= y - 1)
      BY <1>2, <1>5, <1>6, <2>3, <3>2, <3>3
    <3>5. up[y - 1] = None
      BY <3>2, <3>4
    <3> QED
      BY <1>8, <3>2, <3>4, <3>5
  <2> QED
    BY <1>6, <2>3, <2>9, <2>10
<1>10. ASSUME NEW m \in 0 .. depth, m < depth
       PROVE  up[m + 1] = info[up[m]] /\ info[up[m]] # up[m]
  <2>1. up[m] \in Node /\ up[m] # None
    BY <1>9, RoutingAssumption
  <2>2. m + 1 \in 1 .. N /\ (m + 1) - 1 = m /\ m \in 0 .. depth - 1
    BY <1>2, <1>5, <1>6, <1>10
  <2>3. up[m + 1] = info[up[m]]
    BY <1>8, <2>1, <2>2
  <2>4. ~root(m)
    BY <1>5, <2>2
  <2> QED
    BY <2>1, <2>3, <2>4
<1>11. info[up[depth]] = up[depth]
  BY <1>5
<1>12. Reaches(info, k, depth, up)
  BY <1>8, <1>9, <1>10, <1>11 DEF Reaches
<1> QED
  BY <1>6, <1>7, <1>12

Upward(T, G) == \A x \in G : T[x] \in G

\* A path leads through the nodes above k, to a root.
LEMMA PathFacts ==
  ASSUME NEW T \in [Node -> Node], NEW k \in Node, RootPath(T, k) # None
  PROVE  /\ T[k] # k => k \in Range(RootPath(T, k))
         /\ \A x \in Range(RootPath(T, k)) :
              x \in Node /\ T[x] # x /\ (T[T[x]] = T[x] \/ T[x] \in Range(RootPath(T, k)))
         /\ \A G \in SUBSET Node : k \in G /\ Upward(T, G) =>
              Range(RootPath(T, k)) \subseteq G /\ \E r \in G : T[r] = r
<1>1. T \in InfosType
  BY DEF InfosType
<1>2. PICK d \in Nat : \E f : Reaches(T, k, d, f) /\ RootPath(T, k) = [i \in 1 .. d |-> f[d - i]]
  BY <1>1, PathReaches
<1>3. PICK f : Reaches(T, k, d, f) /\ RootPath(T, k) = [i \in 1 .. d |-> f[d - i]]
  BY <1>2
<1> DEFINE R == Range(RootPath(T, k))
<1>4. R = {f[d - i] : i \in 1 .. d}
  <2> DEFINE p == [i \in 1 .. d |-> f[d - i]]
  <2>1. Range(p) = {f[d - i] : i \in 1 .. d}
    BY DEF Range
  <2> QED
    BY <1>3, <2>1
<1>5. \A m \in 0 .. d : m < d => f[m] \in R
  <2>1. ASSUME NEW m \in 0 .. d, m < d
        PROVE  f[m] \in R
    <3>1. d - m \in 1 .. d /\ d - (d - m) = m
      BY <2>1
    <3>2. f[d - (d - m)] \in R
      BY <1>4, <3>1
    <3> QED
      BY <3>1, <3>2
  <2> QED
    BY <2>1
<1>6. \A x \in R : \E m \in 0 .. d : m < d /\ x = f[m]
  <2>1. ASSUME NEW i \in 1 .. d
        PROVE  d - i \in 0 .. d /\ d - i < d
    OBVIOUS
  <2> QED
    BY <1>4, <2>1
<1> HIDE DEF R
<1>7. ASSUME T[k] # k
      PROVE  k \in R
  <2>1. f[0] = k /\ d # 0
    BY <1>3, <1>7 DEF Reaches
  <2>2. 0 \in 0 .. d /\ 0 < d
    BY <2>1
  <2> QED
    BY <1>5, <2>1, <2>2
<1>8. ASSUME NEW x \in R
      PROVE  x \in Node /\ T[x] # x /\ (T[T[x]] = T[x] \/ T[x] \in R)
  <2>1. PICK m \in 0 .. d : m < d /\ x = f[m]
    BY <1>6
  <2>2. f[m] \in Node /\ f[m + 1] = T[f[m]] /\ T[f[m]] # f[m]
    BY <1>3, <2>1 DEF Reaches
  <2>3. CASE m + 1 = d
    BY <1>3, <2>1, <2>2, <2>3 DEF Reaches
  <2>4. CASE m + 1 # d
    <3>1. m + 1 \in 0 .. d /\ m + 1 < d
      BY <2>1, <2>4
    <3> QED
      BY <1>5, <2>1, <2>2, <3>1
  <2> QED
    BY <2>1, <2>2, <2>3, <2>4
<1>9. ASSUME NEW G \in SUBSET Node, k \in G, Upward(T, G)
      PROVE  R \subseteq G /\ \E r \in G : T[r] = r
  <2>1. ASSUME NEW m \in 0 .. d
        PROVE  f[m] \in G
    <3> DEFINE B == {j \in 0 .. d : f[j] \notin G}
    <3>1. SUFFICES ASSUME B # {}
                   PROVE  FALSE
      OBVIOUS
    <3>2. B \in SUBSET Nat
      OBVIOUS
    <3>3. PICK x \in B : \A y \in B : x <= y
      BY <3>1, <3>2, LeastNat
    <3>4. x # 0
      BY <1>3, <1>9, <3>3 DEF Reaches
    <3>5. x - 1 \in 0 .. d /\ x - 1 < d /\ (x - 1) + 1 = x /\ ~(x <= x - 1)
      BY <3>3, <3>4
    <3>6. f[x - 1] \in G
      BY <3>3, <3>5
    <3>7. f[x] = T[f[x - 1]]
      BY <1>3, <3>5 DEF Reaches
    <3> QED
      BY <1>9, <3>3, <3>6, <3>7 DEF Upward
  <2>2. T[f[d]] = f[d] /\ d \in 0 .. d
    BY <1>3 DEF Reaches
  <2> QED
    BY <1>6, <2>1, <2>2
<1> QED
  BY <1>7, <1>8, <1>9 DEF R

\* All have coordinates, so whoever climbs arrives.
Rooted(T) == \A k \in Node : RootPath(T, k) # None

LEMMA RootedIs ==
  ASSUME NEW T \in [Node -> Node], Rooted(T), NEW G \in SUBSET Node, G # {}, Upward(T, G)
  PROVE  \E r \in G : T[r] = r
<1>1. PICK k \in G : k \in Node
  OBVIOUS
<1> QED
  BY <1>1, PathFacts DEF Rooted

LEMMA NoTurning ==
  ASSUME NEW T \in [Node -> Node], Rooted(T), NEW x \in Node, T[x] # x
  PROVE  T[T[x]] # x
<1> DEFINE G == {x, T[x]}
<1>1. ASSUME T[T[x]] = x
      PROVE  FALSE
  <2>1. G \in SUBSET Node /\ G # {} /\ Upward(T, G)
    BY <1>1 DEF Upward
  <2>2. \A r \in G : T[r] # r
    BY <1>1
  <2> HIDE DEF G
  <2> QED
    BY <2>1, <2>2, RootedIs
<1> QED
  BY <1>1

\* The node k and those above it, but for the root.
Above(T, k) == {k} \cup Range(RootPath(T, k))

\* One of p's children is on the way from k to p.
LEMMA WayDown ==
  ASSUME NEW T \in [Node -> Node], Rooted(T), NEW k \in Node, NEW p \in Node, k # p,
         p \in Above(T, k) \/ (T[p] = p /\ \A r \in Node : T[r] = r => r = p)
  PROVE  \E q \in Node : T[q] = p /\ q # p /\ q \in Above(T, k)
<1> SUFFICES ASSUME \A q \in Node : T[q] = p /\ q # p => q \notin Above(T, k)
             PROVE  FALSE
  OBVIOUS
<1> DEFINE R == Range(RootPath(T, k))
           G == {x \in Node : x # p /\ (x \in Above(T, k) \/ T[x] = x)}
<1>1. /\ T[k] # k => k \in R
      /\ \A x \in R : x \in Node /\ T[x] # x /\ (T[T[x]] = T[x] \/ T[x] \in R)
      /\ \A S \in SUBSET Node : k \in S /\ Upward(T, S) => R \subseteq S /\ \E r \in S : T[r] = r
  BY PathFacts DEF Rooted
<1>2. Above(T, k) = {k} \cup R
  BY DEF Above
<1> HIDE DEF R
<1>3. G \in SUBSET Node /\ k \in G
  BY <1>2
<1>4. ASSUME NEW x \in G
      PROVE  T[x] \in G
  <2>1. CASE T[x] = x
    BY <2>1
  <2>2. CASE T[x] # x
    <3>1. x \in R /\ T[x] \in Node
      BY <1>1, <1>2, <2>2
    <3>2. T[x] # p
      BY <1>2, <3>1
    <3> QED
      BY <1>1, <1>2, <3>1, <3>2
  <2> QED
    BY <2>1, <2>2
<1>5. Upward(T, G)
  BY <1>4 DEF Upward
<1>6. p \notin G
  OBVIOUS
<1>7. \A r \in G : r \in Node /\ r # p
  OBVIOUS
<1> HIDE DEF G
<1>8. R \subseteq G /\ \E r \in G : T[r] = r
  BY <1>1, <1>3, <1>5
<1> QED
  BY <1>2, <1>6, <1>7, <1>8

-----------------------------------------------------------------------------
(* Filters that flow over a tree *)

Tied(T, n, p) == n # p /\ (T[n] = p \/ T[p] = n)

\* With R[p][n] what p holds of n: n passes on itself and what the others told it.
Flows(T, R) ==
  \A n, p \in Node : Tied(T, n, p) =>
    /\ Bits(XOf[n]) \subseteq R[p][n]
    /\ \A q \in Node : q # p /\ Tied(T, n, q) => R[n][q] \subseteq R[p][n]

\* A key becomes known above it,
LEMMA FlowsUp ==
  ASSUME NEW T \in [Node -> Node], Rooted(T), NEW R, Flows(T, R), NEW j \in Node,
         NEW c \in Above(T, j), T[c] # c
  PROVE  Bits(XOf[j]) \subseteq R[T[c]][c]
<1> DEFINE G == {x \in Node : T[x] # x => Bits(XOf[j]) \subseteq R[T[x]][x]}
<1>1. G \in SUBSET Node
  OBVIOUS
<1>2. j \in G
  BY DEF Flows, Tied
<1>3. ASSUME NEW x \in G
      PROVE  T[x] \in G
  <2> DEFINE y == T[x]
             z == T[y]
  <2>1. x \in Node /\ y \in Node /\ z \in Node
    OBVIOUS
  <2>2. CASE z # y
    <3>1. y # x /\ z # x
      BY <2>1, <2>2, NoTurning
    <3>2. Bits(XOf[j]) \subseteq R[y][x]
      BY <3>1
    <3>3. Tied(T, y, z) /\ Tied(T, y, x)
      BY <2>2, <3>1 DEF Tied
    <3>4. R[y][x] \subseteq R[z][y]
      BY <2>1, <3>1, <3>3 DEF Flows
    <3> QED
      BY <2>1, <3>2, <3>4
  <2> QED
    BY <2>1, <2>2
<1>4. Upward(T, G)
  BY <1>3 DEF Upward
<1>5. c \in G
  <2> HIDE DEF G
  <2>1. Range(RootPath(T, j)) \subseteq G
    BY <1>1, <1>2, <1>4, PathFacts DEF Rooted
  <2> QED
    BY <1>2, <2>1 DEF Above
<1> QED
  BY <1>5

\* and from there to all that do not lie on its way.
LEMMA FlowsDown ==
  ASSUME NEW T \in [Node -> Node], Rooted(T), NEW R, Flows(T, R), NEW k \in Node,
         \A r, s \in Node : T[r] = r /\ T[s] = s => r = s,
         NEW n \in Node, T[n] # n, n \notin Above(T, k)
  PROVE  Bits(XOf[k]) \subseteq R[n][T[n]]
<1> DEFINE G == {x \in Node : T[x] # x /\ x \notin Above(T, k) /\ ~(Bits(XOf[k]) \subseteq R[x][T[x]])}
<1>1. G \in SUBSET Node
  OBVIOUS
<1>2. ASSUME NEW x \in G
      PROVE  T[x] \in G
  <2> DEFINE p == T[x]
  <2>1. /\ x \in Node /\ p \in Node /\ p # x /\ x \notin Above(T, k)
        /\ ~(Bits(XOf[k]) \subseteq R[x][p])
    OBVIOUS
  <2>2. Tied(T, p, x)
    BY <2>1 DEF Tied
  <2>3. k # p
    BY <2>1, <2>2 DEF Flows
  <2>4. ASSUME NEW q \in Node, q # x, Tied(T, p, q)
        PROVE  ~(Bits(XOf[k]) \subseteq R[p][q])
    <3>1. R[p][q] \subseteq R[x][p]
      BY <2>1, <2>2, <2>4 DEF Flows
    <3> QED
      BY <2>1, <3>1
  <2>5. p \notin Above(T, k) /\ T[p] # p
    <3>1. ASSUME p \in Above(T, k) \/ T[p] = p
          PROVE  FALSE
      <4>1. PICK q \in Node : T[q] = p /\ q # p /\ q \in Above(T, k)
        BY <2>1, <2>3, <3>1, WayDown
      <4>2. q # x /\ Tied(T, p, q)
        BY <2>1, <4>1 DEF Tied
      <4>3. Bits(XOf[k]) \subseteq R[p][q]
        BY <4>1, FlowsUp
      <4> QED
        BY <2>4, <4>2, <4>3
    <3> QED
      BY <3>1
  <2>6. T[p] # x
    BY <2>1, NoTurning
  <2>7. Tied(T, p, T[p]) /\ T[p] \in Node
    BY <2>1, <2>5 DEF Tied
  <2> QED
    BY <2>1, <2>4, <2>5, <2>6, <2>7
<1>3. Upward(T, G)
  BY <1>2 DEF Upward
<1>4. \A r \in G : T[r] # r
  OBVIOUS
<1>5. n \in G <=> ~(Bits(XOf[k]) \subseteq R[n][T[n]])
  OBVIOUS
<1> HIDE DEF G
<1>6. G = {}
  BY <1>1, <1>3, <1>4, RootedIs
<1> QED
  BY <1>5, <1>6

\* So every filter covers what lies behind it.
LEMMA FlowCovers ==
  ASSUME NEW T \in [Node -> Node], Rooted(T), NEW R, Flows(T, R),
         \A r, s \in Node : T[r] = r /\ T[s] = s => r = s,
         NEW n \in Node, NEW p \in Node, Tied(T, n, p), NEW k \in Behind(T, n, p)
  PROVE  Bits(XOf[k]) \subseteq R[n][p]
<1> DEFINE below(c) == {j \in Node : j = c \/ c \in Range(RootPath(T, j))}
<1>1. k \in IF T[p] = n THEN below(p) ELSE Node \ below(n)
  BY DEF Behind
<1>2. CASE T[p] = n
  <2>1. k \in Node /\ p \in Above(T, k)
    BY <1>1, <1>2 DEF Above
  <2> QED
    BY <1>2, <2>1, FlowsUp DEF Tied
<1>3. CASE T[p] # n
  <2>1. k \in Node /\ n \notin Above(T, k)
    BY <1>1, <1>3 DEF Above
  <2> QED
    BY <1>3, <2>1, FlowsDown DEF Tied
<1> QED
  BY <1>2, <1>3

-----------------------------------------------------------------------------
(* The sides of a tree link *)

\* With a node, the nodes it is the parent of.
Closed(S) == \A x \in S : \A c \in Node : Home[c] = x => c \in S

Below(k) == {j \in Node : \A S \in SUBSET Node : k \in S /\ Closed(S) => j \in S}

LEMMA BelowIs ==
  ASSUME NEW k \in Node
  PROVE  /\ Below(k) \in SUBSET Node /\ k \in Below(k) /\ Closed(Below(k))
         /\ \A S \in SUBSET Node : k \in S /\ Closed(S) => Below(k) \subseteq S
<1>1. Below(k) \in SUBSET Node /\ k \in Below(k)
  BY DEF Below
<1>2. \A S \in SUBSET Node : k \in S /\ Closed(S) => Below(k) \subseteq S
  BY DEF Below
<1>3. ASSUME NEW x \in Below(k), NEW c \in Node, Home[c] = x
      PROVE  c \in Below(k)
  <2>1. ASSUME NEW S \in SUBSET Node, k \in S, Closed(S)
        PROVE  c \in S
    <3>1. x \in S
      BY <1>2, <2>1
    <3> QED
      BY <1>3, <2>1, <3>1 DEF Closed
  <2> QED
    BY <2>1 DEF Below
<1> QED
  BY <1>1, <1>2, <1>3 DEF Closed

\* One enters from above only.
LEMMA BelowEntry ==
  ASSUME NEW k \in Node, NEW y \in Below(k), y # k
  PROVE  Home[y] \in Below(k)
<1> DEFINE T == {z \in Below(k) : z = k \/ Home[z] \in Below(k)}
<1>1. T \in SUBSET Node /\ k \in T
  BY BelowIs
<1>2. Closed(T)
  BY BelowIs DEF Closed
<1>3. Below(k) \subseteq T
  <2> HIDE DEF T
  <2> QED
    BY <1>1, <1>2, BelowIs
<1> QED
  BY <1>3

\* Below a child lies less.
LEMMA BelowChild ==
  ASSUME NEW k \in Node, NEW c \in Node, Home[c] = k
  PROVE  Below(c) \subseteq Below(k) /\ (c # k => k \notin Below(c))
<1>1. Below(c) \subseteq Below(k)
  <2>1. c \in Below(k)
    BY BelowIs DEF Closed
  <2> QED
    BY <2>1, BelowIs
<1>2. ASSUME c # k, k \in Below(c)
      PROVE  FALSE
  <2> DEFINE G == {x \in Below(c) : c \in Below(x)}
  <2>1. G \in SUBSET Node /\ c \in G
    BY BelowIs
  <2>2. ASSUME NEW x \in G
        PROVE  Home[x] \in G
    <3>1. x \in Node /\ Home[x] \in Node
      BY <2>1, RoutingAssumption
    <3>2. Home[x] \in Below(c)
      BY <1>2, BelowEntry
    <3>3. x \in Below(Home[x])
      BY <3>1, BelowIs DEF Closed
    <3>4. Below(x) \subseteq Below(Home[x])
      BY <3>1, <3>3, BelowIs
    <3> QED
      BY <3>2, <3>4
  <2>3. Upward(Home, G)
    BY <2>2 DEF Upward
  <2> HIDE DEF G
  <2>4. PICK r \in G : Home[r] = r
    BY <2>1, <2>3, RootedIs, RoutingAssumption, HomeAssumption DEF Rooted
  <2>5. r \in Below(c) /\ r # c
    BY <1>2, <2>4 DEF G
  <2> DEFINE S == Below(c) \ {r}
  <2>6. S \in SUBSET Node /\ c \in S
    BY <2>5, BelowIs
  <2>7. Closed(S)
    BY <2>4, BelowIs DEF Closed
  <2>8. Below(c) \subseteq S
    <3> HIDE DEF S
    <3> QED
      BY <2>6, <2>7, BelowIs
  <2> QED
    BY <2>5, <2>8
<1> QED
  BY <1>1, <1>2

\* Below two children lie different nodes.
LEMMA BelowApart ==
  ASSUME NEW k \in Node, NEW c \in Node, NEW d \in Node, Home[c] = k, Home[d] = k,
         c # k, d # k, c # d
  PROVE  Below(c) \cap Below(d) = {}
<1> DEFINE S == Below(c) \ Below(d)
<1>1. k \notin Below(c) /\ k \notin Below(d)
  BY BelowChild
<1>2. S \in SUBSET Node
  BY BelowIs
<1>3. c \in S
  <2>1. c \in Below(c)
    BY BelowIs
  <2>2. c \notin Below(d)
    BY <1>1, BelowEntry
  <2> QED
    BY <2>1, <2>2
<1>4. ASSUME NEW x \in S, NEW y \in Node, Home[y] = x
      PROVE  y \in S
  <2>1. y \in Below(c)
    BY <1>4, BelowIs DEF Closed
  <2>2. ASSUME y \in Below(d)
        PROVE  FALSE
    <3>1. y # d
      BY <1>1, <1>4
    <3>2. x \in Below(d)
      BY <1>4, <2>2, <3>1, BelowEntry
    <3> QED
      BY <3>2
  <2> QED
    BY <2>1, <2>2
<1>5. Closed(S)
  BY <1>4 DEF Closed
<1>6. Below(c) \subseteq S
  <2> HIDE DEF S
  <2> QED
    BY <1>2, <1>3, <1>5, BelowIs
<1> QED
  BY <1>6

Neighbours(k, n) == k # n /\ (Home[n] = k \/ Home[k] = n)

\* The nodes on k's side of its tree link to n.
Side(k, n) == IF Home[n] = k THEN Node \ Below(n) ELSE Below(k)

LEMMA OwnSide ==
  ASSUME NEW k \in Node, NEW n \in Node, Neighbours(k, n)
  PROVE  k \in Side(k, n) /\ n \notin Side(k, n)
<1>1. CASE Home[n] = k
  BY <1>1, BelowIs, BelowChild DEF Side, Neighbours
<1>2. CASE Home[n] # k
  BY <1>2, BelowIs, BelowChild DEF Side, Neighbours
<1> QED
  BY <1>1, <1>2

\* Whoever goes on leaves a larger side behind.
LEMMA SidesGrow ==
  ASSUME NEW k \in Node, NEW n \in Node, NEW m \in Node, Neighbours(k, n), Neighbours(n, m), k # m
  PROVE  Side(k, n) \subseteq Side(n, m)
<1>1. CASE Home[n] = k
  <2>1. Home[m] = n
    BY <1>1 DEF Neighbours
  <2>2. Below(m) \subseteq Below(n)
    BY <2>1, BelowChild
  <2> QED
    BY <1>1, <2>1, <2>2 DEF Side
<1>2. CASE Home[n] # k /\ Home[m] = n
  <2>1. Home[k] = n
    BY <1>2 DEF Neighbours
  <2>2. Below(k) \cap Below(m) = {}
    BY <1>2, <2>1, BelowApart DEF Neighbours
  <2>3. Below(k) \subseteq Node
    BY BelowIs
  <2> QED
    BY <1>2, <2>2, <2>3 DEF Side
<1>3. CASE Home[n] # k /\ Home[m] # n
  <2>1. Home[k] = n
    BY <1>3 DEF Neighbours
  <2>2. Below(k) \subseteq Below(n)
    BY <2>1, BelowChild
  <2> QED
    BY <1>3, <2>2 DEF Side
<1> QED
  BY <1>1, <1>2, <1>3

-----------------------------------------------------------------------------
(* Lookups stay ahead of their trail *)

Once(t) == \A i, j \in DOMAIN t : t[i] = t[j] => i = j

\* A frame from k to n, if it is a lookup, has been on k's side only.
Passed(k, n, f) ==
  f.type = "Lookup" =>
    /\ Neighbours(k, n) /\ Once(f.trail)
    /\ \A i \in DOMAIN f.trail : f.trail[i] \in Side(k, n)

AllPassed(k, n, s) == \A i \in DOMAIN s : Passed(k, n, s[i])

Sound(n, r) == \A k \in Node : AllPassed(n, k, r.out[k])

\* Whom a router at n takes for a tree neighbour is one.
TreeOnly(n, b) == \A k \in Node : b.on_tree[k] = TRUE /\ k # n => Neighbours(n, k)

LEMMA PassedAppend ==
  ASSUME NEW k, NEW n, NEW s \in Seq(Frame), NEW f \in Frame, AllPassed(k, n, s), Passed(k, n, f)
  PROVE  AllPassed(k, n, Append(s, f))
<1> HIDE DEF Frame
<1>1. DOMAIN Append(s, f) = 1 .. Len(s) + 1 /\ DOMAIN s = 1 .. Len(s) /\ Len(s) \in Nat
  OBVIOUS
<1>2. ASSUME NEW i \in 1 .. Len(s) + 1
      PROVE  Passed(k, n, Append(s, f)[i])
  <2>1. CASE i \in 1 .. Len(s)
    <3>1. Append(s, f)[i] = s[i]
      BY <2>1
    <3> QED
      BY <1>1, <2>1, <3>1 DEF AllPassed
  <2>2. CASE i = Len(s) + 1
    <3>1. Append(s, f)[i] = f
      BY <2>2
    <3> QED
      BY <3>1
  <2> QED
    BY <1>1, <2>1, <2>2
<1> QED
  BY <1>1, <1>2 DEF AllPassed

LEMMA PassedConcat ==
  ASSUME NEW k, NEW n, NEW s \in Seq(Frame), NEW t \in Seq(Frame), AllPassed(k, n, s), AllPassed(k, n, t)
  PROVE  AllPassed(k, n, s \o t)
<1> HIDE DEF Frame
<1>1. DOMAIN (s \o t) = 1 .. Len(s) + Len(t) /\ DOMAIN s = 1 .. Len(s) /\ DOMAIN t = 1 .. Len(t)
      /\ Len(s) \in Nat /\ Len(t) \in Nat
  OBVIOUS
<1>2. ASSUME NEW i \in 1 .. Len(s) + Len(t)
      PROVE  Passed(k, n, (s \o t)[i])
  <2>1. CASE i <= Len(s)
    <3>1. (s \o t)[i] = s[i] /\ i \in 1 .. Len(s)
      BY <1>1, <2>1
    <3> QED
      BY <1>1, <3>1 DEF AllPassed
  <2>2. CASE i > Len(s)
    <3>1. (s \o t)[i] = t[i - Len(s)] /\ i - Len(s) \in 1 .. Len(t)
      BY <1>1, <2>2
    <3> QED
      BY <1>1, <3>1 DEF AllPassed
  <2> QED
    BY <1>1, <2>1, <2>2
<1> QED
  BY <1>1, <1>2 DEF AllPassed

LEMMA PassedTail ==
  ASSUME NEW k, NEW n, NEW s \in Seq(Frame), s # <<>>, AllPassed(k, n, s)
  PROVE  AllPassed(k, n, Tail(s)) /\ Passed(k, n, Head(s))
<1> HIDE DEF Frame
<1>1. DOMAIN Tail(s) = 1 .. Len(s) - 1 /\ DOMAIN s = 1 .. Len(s) /\ Len(s) \in Nat /\ Len(s) > 0
      /\ Head(s) = s[1]
  OBVIOUS
<1>2. ASSUME NEW i \in 1 .. Len(s) - 1
      PROVE  Passed(k, n, Tail(s)[i])
  <2>1. Tail(s)[i] = s[i + 1] /\ i + 1 \in 1 .. Len(s)
    BY <1>1
  <2> QED
    BY <1>1, <2>1 DEF AllPassed
<1>3. Passed(k, n, Head(s))
  BY <1>1 DEF AllPassed
<1> QED
  BY <1>1, <1>2, <1>3 DEF AllPassed

LEMMA EmitSound ==
  ASSUME NEW n \in Node, NEW r \in Turns(Talk), NEW k0 \in Node, NEW f \in Talk, f.type # "Lookup",
         Sound(n, r)
  PROVE  Sound(n, Emit(r, k0, f))
<1> DEFINE o == [r.out EXCEPT ![k0] = Append(@, f)]
           s == Emit(r, k0, f)
<1>1. r.out \in [Node -> Seq(Talk)]
  BY DEF Turns
<1>2. s = [r EXCEPT !.out = o]
  BY DEF Emit, Turns
<1>3. s.out = o
  BY <1>2 DEF Turns
<1> HIDE DEF s
<1>4. o[k0] = Append(r.out[k0], f) /\ \A k \in Node : k # k0 => o[k] = r.out[k]
  BY <1>1
<1>5. r.out[k0] \in Seq(Frame) /\ f \in Frame
  BY TalkTurns DEF Turns, Frame
<1>6. Passed(n, k0, f)
  BY DEF Passed
<1>7. AllPassed(n, k0, Append(r.out[k0], f))
  BY <1>5, <1>6, PassedAppend DEF Sound
<1> HIDE DEF o
<1>8. Sound(n, s)
  BY <1>3, <1>4, <1>7 DEF Sound
<1> QED
  BY <1>8 DEF s

\* multicast keeps to the tree.
LEMMA MulticastSound ==
  ASSUME NEW n \in Node, NEW r \in Turns(Talk), NEW from, NEW f \in Talk, n \notin linked[n],
         TreeOnly(n, r.b), Sound(n, r),
         \A k \in Node : k # from /\ Neighbours(n, k) => Passed(n, k, f)
  PROVE  Sound(n, Multicast(n, r, from, f))
<1> DEFINE to == Audience(n, r.b, from, XKey[f.dest])
           o == [k \in Node |-> IF k \in to THEN Append(r.out[k], f) ELSE r.out[k]]
           s == Multicast(n, r, from, f)
<1>1. \A k \in Node : k \in to => k # from /\ Neighbours(n, k)
  BY DEF Audience, TreeOnly
<1> HIDE DEF to
<1>2. s = [r EXCEPT !.out = o]
  BY DEF Multicast, to
<1>3. s.out = o
  BY <1>2 DEF Turns
<1> HIDE DEF s
<1>4. f \in Frame /\ \A k \in Node : r.out[k] \in Seq(Frame)
  BY TalkTurns DEF Turns, Frame
<1>5. ASSUME NEW k \in Node
      PROVE  AllPassed(n, k, s.out[k])
  <2>1. s.out[k] = IF k \in to THEN Append(r.out[k], f) ELSE r.out[k]
    BY <1>3
  <2>2. AllPassed(n, k, r.out[k])
    BY DEF Sound
  <2>3. CASE k \in to
    <3>1. Passed(n, k, f)
      BY <1>1, <2>3
    <3> QED
      BY <1>4, <2>1, <2>2, <2>3, <3>1, PassedAppend
  <2> QED
    BY <2>1, <2>2, <2>3
<1>6. Sound(n, s)
  BY <1>5 DEF Sound
<1> QED
  BY <1>6 DEF s

\* A lookup's first step.
LEMMA NewLookup ==
  ASSUME NEW n \in Node, NEW k \in Node, Neighbours(n, k), NEW key, NEW from
  PROVE  Passed(n, k, PathLookup(n, key, from))
<1> DEFINE f == PathLookup(n, key, from)
<1>1. f.trail = <<n>>
  BY DEF PathLookup
<1> HIDE DEF f
<1>2. DOMAIN f.trail = {1} /\ f.trail[1] = n
  BY <1>1
<1>3. n \in Side(n, k)
  BY OwnSide
<1>4. Passed(n, k, f)
  BY <1>2, <1>3 DEF Passed, Once
<1> QED
  BY <1>4 DEF f

LEMMA RumorLookupSound ==
  ASSUME Around, NEW n \in Node, NEW r \in Turns(Talk), NEW key \in PublicKey, n \notin linked[n],
         TreeOnly(n, r.b), Sound(n, r)
  PROVE  Sound(n, RumorLookup(n, r, key))
<1> DEFINE e == Asked(Rumor(r, key))
           s == PutRumor(r, key, e)
           f == PathLookup(n, key, Coords(n))
<1>1. e \in RumorEntry /\ Fits(XKey[key], e)
  BY RumorType, AskedType DEF Fits
<1>2. s \in Turns(Talk) /\ Kept(r, s)
  BY <1>1, PutRumorType
<1>3. Slot(r, s, XKey[key], e.pending)
  BY PutRumorIs
<1>4. f \in Talk
  BY LookupType DEF Talk
<1>5. \A k \in Node : k # n /\ Neighbours(n, k) => Passed(n, k, f)
  BY NewLookup
<1> HIDE DEF e, s, f
<1>6. TreeOnly(n, s.b) /\ Sound(n, s)
  BY <1>2, <1>3 DEF Kept, Slot, Sound
<1>7. Sound(n, Multicast(n, s, n, f))
  BY <1>2, <1>4, <1>5, <1>6, MulticastSound
<1> QED
  BY <1>7 DEF RumorLookup, s, e, f

LEMMA HoldSound ==
  ASSUME Around, NEW n \in Node, NEW r \in Turns(Talk), NEW key \in PublicKey,
         NEW data \in Data, XOf[data.to] = XKey[key], n \notin linked[n],
         TreeOnly(n, r.b), Sound(n, r)
  PROVE  Sound(n, HoldForLookup(n, r, key, data))
<1> DEFINE e == [Rumor(r, key) EXCEPT !.pending = data, !.is_app = TRUE]
           s == PutRumor(r, key, e)
<1>1. e \in RumorEntry /\ Fits(XKey[key], e)
  <2> DEFINE u == Rumor(r, key)
  <2>1. u \in RumorEntry
    BY RumorType
  <2> HIDE DEF u
  <2>2. e = [u EXCEPT !.pending = data, !.is_app = TRUE]
    BY DEF u
  <2>3. e.pending = data
    BY <2>1, <2>2 DEF RumorEntry
  <2>4. e \in RumorEntry
    BY <2>1, <2>2 DEF RumorEntry
  <2> HIDE DEF e
  <2> QED
    BY <2>3, <2>4 DEF Fits
<1> HIDE DEF e
<1>2. s \in Turns(Talk) /\ Kept(r, s)
  BY <1>1, PutRumorType
<1>3. Slot(r, s, XKey[key], e.pending)
  BY PutRumorIs
<1> HIDE DEF s
<1>4. TreeOnly(n, s.b) /\ Sound(n, s)
  BY <1>2, <1>3 DEF Kept, Slot, Sound
<1>5. Sound(n, RumorLookup(n, s, key))
  BY <1>2, <1>4, RumorLookupSound
<1> QED
  BY <1>5 DEF HoldForLookup, s, e

LEMMA PassOnSound ==
  ASSUME Around, NEW n \in Node, NEW r \in Turns(Talk), NEW f \in Travelling, NEW fav,
         NextHops(n, f.way.path, f.way.mark) # {}, Sound(n, r)
  PROVE  Sound(n, Emit(r, Choice(NextHops(n, f.way.path, f.way.mark), fav), Forwarded(n, f)))
<1> DEFINE k == Choice(NextHops(n, f.way.path, f.way.mark), fav)
           g == Forwarded(n, f)
<1>1. k \in Node
  BY ChoiceType
<1>2. g \in Travelling
  BY ForwardedType
<1> HIDE DEF k, g
<1>3. g \in Talk /\ g.type # "Lookup"
  BY <1>2 DEF Travelling, IsRouted
<1>4. Sound(n, Emit(r, k, g))
  BY <1>1, <1>3, EmitSound
<1> QED
  BY <1>4 DEF k, g

LEMMA PathfinderSendSound ==
  ASSUME Around, NEW n \in Node, NEW r \in Turns(Talk), NEW d \in Node, NEW data \in Data,
         data.to = d, NEW fav, n \notin linked[n], TreeOnly(n, r.b), Sound(n, r)
  PROVE  Sound(n, PathfinderSend(n, r, d, data, fav))
<1> DEFINE e == r.p.entries[d]
<1>1. e \in Entry \cup {None}
  BY DEF Turns, PathStates
<1> HIDE DEF e
<1>2. CASE e # None /\ ~e.broken
  <2> DEFINE f == Traffic(e.path, Coords(n), n, d, data)
  <2>1. e.path \in Path
    BY <1>1, <1>2 DEF Entry
  <2>2. f \in Travelling
    BY <2>1, CoordsType, RoutedType DEF Traffic, Travelling, Talk, IsRouted, Payloads
  <2> HIDE DEF f
  <2>3. PathfinderSend(n, r, d, data, fav) = RouteTraffic(n, r, f, fav)
    BY <1>2 DEF PathfinderSend, e, f
  <2>4. CASE NextHops(n, f.way.path, f.way.mark) = {}
    BY <2>3, <2>4 DEF RouteTraffic
  <2>5. CASE NextHops(n, f.way.path, f.way.mark) # {}
    BY <2>2, <2>3, <2>5, PassOnSound DEF RouteTraffic
  <2> QED
    BY <2>4, <2>5
<1>3. CASE ~(e # None /\ ~e.broken)
  <2> DEFINE s == RumorLookup(n, r, PubKey[d])
             x == XOf[d]
             u == [s EXCEPT !.p.rumors[x].pending = data]
  <2>1. s \in Turns(Talk)
    BY RumorLookupType, KeysKnown
  <2>2. Sound(n, s)
    BY RumorLookupSound, KeysKnown
  <2>3. PathfinderSend(n, r, d, data, fav) = u
    BY <1>3 DEF PathfinderSend, e
  <2> HIDE DEF s, x
  <2>4. Slot(s, u, x, data)
    BY <2>1, SlotWritten
  <2> HIDE DEF u
  <2> QED
    BY <2>2, <2>3, <2>4 DEF Slot, Sound
<1> QED
  BY <1>2, <1>3

LEMMA SessionSendSound ==
  ASSUME Around, NEW n \in Node, NEW r \in Turns(Talk), NEW d \in Node, NEW data \in Data,
         data.to = d, NEW fav, n \notin linked[n], TreeOnly(n, r.b), Sound(n, r)
  PROVE  Sound(n, SessionSend(n, r, d, data, fav))
<1> DEFINE sealed == [data EXCEPT !.seals = @ + 1]
<1>1. sealed \in Data /\ sealed.to = d
  BY DEF Data
<1> HIDE DEF sealed
<1>2. SessionSend(n, r, d, data, fav) = PathfinderSend(n, r, d, sealed, fav)
  BY DEF SessionSend, sealed
<1> QED
  BY <1>1, <1>2, PathfinderSendSound

LEMMA FlushSound ==
  ASSUME Around, NEW n \in Node, NEW r \in Turns(Talk), NEW d \in Node, NEW fav,
         n \notin linked[n], TreeOnly(n, r.b), Sound(n, r)
  PROVE  Sound(n, Flush(n, r, d, fav))
<1> DEFINE held == Rumor(r, PubKey[d])
           data == held.pending
           x == XOf[d]
           taken == [r EXCEPT !.p.rumors[x].pending = None]
<1>1. held \in RumorEntry /\ Fits(x, held)
  BY RumorType, KeysKnown
<1>2. taken \in Turns(Talk) /\ Kept(r, taken)
  BY TakenType
<1>3. Slot(r, taken, x, None)
  BY SlotWritten
<1>4. Flush(n, r, d, fav) = IF data = None THEN r
                            ELSE IF held.is_app THEN SessionSend(n, taken, d, data, fav)
                            ELSE PathfinderSend(n, taken, d, data, fav)
  BY DEF Flush
<1> HIDE DEF taken, held
<1>5. TreeOnly(n, taken.b) /\ Sound(n, taken)
  BY <1>2, <1>3 DEF Kept, Slot, Sound
<1>6. CASE data # None
  <2>1. data \in Data /\ XOf[data.to] = x
    BY <1>1, <1>6 DEF RumorEntry, Fits
  <2>2. data.to \in Node
    BY <2>1 DEF Data
  <2>3. data.to = d
    BY <2>1, <2>2, KeysKnown
  <2> HIDE DEF data, x
  <2>4. Sound(n, SessionSend(n, taken, d, data, fav))
    BY <1>2, <1>5, <2>1, <2>3, SessionSendSound
  <2>5. Sound(n, PathfinderSend(n, taken, d, data, fav))
    BY <1>2, <1>5, <2>1, <2>3, PathfinderSendSound
  <2> QED
    BY <1>4, <1>6, <2>4, <2>5
<1> QED
  BY <1>4, <1>6

\* An entry is written.
LEMMA EntrySame ==
  ASSUME NEW r \in Turns(Talk), NEW d, NEW e
  PROVE  LET s == [r EXCEPT !.p = [r.p EXCEPT !.entries = [r.p.entries EXCEPT ![d] = e]]]
         IN  s.out = r.out /\ s.b = r.b
BY DEF Turns

LEMMA NotifySound ==
  ASSUME Around, NEW n \in Node, NEW r \in Turns(Talk), NEW f \in Notifies, Nearing(f.way), NEW fav,
         n \notin linked[n], TreeOnly(n, r.b), Sound(n, r)
  PROVE  Sound(n, HandleNotify(n, r, f, fav))
<1> DEFINE hops == NextHops(n, f.way.path, f.way.mark)
           e == r.p.entries[f.source]
           new == [path |-> f.info.path, seq |-> f.info.seq, broken |-> FALSE,
                   deadline |-> clock + PATH_TIMEOUT]
           s == [r EXCEPT !.p = [r.p EXCEPT !.entries = [r.p.entries EXCEPT ![f.source] = new]]]
           take == IF e # None THEN News(e, f) ELSE XOf[f.source] \in DOMAIN r.p.rumors
<1>1. f \in Travelling
  BY DEF Travelling, Talk, IsRouted, Notifies
<1>2. CASE hops # {}
  BY <1>1, <1>2, PassOnSound DEF HandleNotify
<1>3. CASE hops = {} /\ f.dest = n /\ take
  <2>1. clock + PATH_TIMEOUT \in Nat
    BY RoutingAssumption DEF Around
  <2>2. new \in Entry
    BY <2>1 DEF Entry, Notifies
  <2>3. f.source \in Node
    BY DEF Notifies
  <2>4. HandleNotify(n, r, f, fav) = Flush(n, s, f.source, fav)
    <3>1. [r EXCEPT !.p.entries[f.source] = new] = s
      BY DEF Turns, PathStates
    <3> HIDE DEF s, new, take
    <3> QED
      BY <1>3, <3>1 DEF HandleNotify, new, take
  <2> HIDE DEF new
  <2>6. s \in Turns(Talk)
    BY <2>2, <2>3, EntryType
  <2>7. s.out = r.out /\ s.b = r.b
    BY EntrySame
  <2> HIDE DEF s
  <2>8. Sound(n, s) /\ TreeOnly(n, s.b)
    BY <2>7 DEF Sound
  <2> QED
    BY <2>3, <2>4, <2>6, <2>8, FlushSound
<1>4. CASE hops = {} /\ ~(f.dest = n /\ take)
  BY <1>4 DEF HandleNotify
<1> QED
  BY <1>2, <1>3, <1>4

\* The lookup leaves n for another side than it came from.
LEMMA LookupGoesOn ==
  ASSUME NEW p \in Node, NEW n \in Node, NEW k \in Node, NEW f \in Lookups, Passed(p, n, f),
         k # p, Neighbours(n, k)
  PROVE  Passed(n, k, [f EXCEPT !.trail = Append(@, n)])
<1> DEFINE t == f.trail
           u == Append(t, n)
           g == [f EXCEPT !.trail = u]
<1>1. t \in Seq(Node) /\ f.type = "Lookup"
  BY DEF Lookups
<1>2. g.trail = u
  BY DEF Lookups
<1> HIDE DEF g
<1>3. Neighbours(p, n) /\ Once(t) /\ \A i \in DOMAIN t : t[i] \in Side(p, n)
  BY <1>1 DEF Passed
<1>4. Side(p, n) \subseteq Side(n, k) /\ n \in Side(n, k) /\ n \notin Side(p, n)
  BY <1>3, SidesGrow, OwnSide
<1> HIDE DEF t
<1>5. DOMAIN u = 1 .. Len(t) + 1 /\ DOMAIN t = 1 .. Len(t) /\ Len(t) \in Nat
      /\ u[Len(t) + 1] = n /\ \A i \in 1 .. Len(t) : u[i] = t[i]
  BY <1>1
<1> HIDE DEF u
<1>6. \A i \in 1 .. Len(t) : u[i] \in Side(p, n)
  BY <1>3, <1>5
<1>7. ASSUME NEW i \in 1 .. Len(t) + 1, i \notin 1 .. Len(t)
      PROVE  i = Len(t) + 1
  BY <1>5, <1>7
<1>8. \A i \in DOMAIN u : u[i] \in Side(n, k)
  BY <1>4, <1>5, <1>6, <1>7
<1>9. Once(u)
  <2>1. ASSUME NEW i \in 1 .. Len(t) + 1, NEW j \in 1 .. Len(t) + 1, u[i] = u[j]
        PROVE  i = j
    <3>1. CASE i \in 1 .. Len(t) /\ j \in 1 .. Len(t)
      BY <1>3, <1>5, <2>1, <3>1 DEF Once
    <3>2. CASE i \notin 1 .. Len(t) /\ j \notin 1 .. Len(t)
      BY <1>7, <3>2
    <3>3. CASE i \in 1 .. Len(t) /\ j \notin 1 .. Len(t)
      BY <1>4, <1>5, <1>6, <1>7, <2>1, <3>3
    <3>4. CASE i \notin 1 .. Len(t) /\ j \in 1 .. Len(t)
      BY <1>4, <1>5, <1>6, <1>7, <2>1, <3>4
    <3> QED
      BY <3>1, <3>2, <3>3, <3>4
  <2> QED
    BY <1>5, <2>1 DEF Once
<1>10. Passed(n, k, g)
  BY <1>2, <1>8, <1>9 DEF Passed
<1> QED
  BY <1>10 DEF g, u, t

LEMMA HandleLookupSound ==
  ASSUME Around, NEW n \in Node, NEW r \in Turns(Talk), NEW from \in Node, NEW f \in Lookups, NEW fav,
         n \notin linked[n], TreeOnly(n, r.b), Sound(n, r), Passed(from, n, f)
  PROVE  Sound(n, HandleLookup(n, r, from, f, fav))
<1> DEFINE g == [f EXCEPT !.trail = Append(@, n)]
           r1 == Multicast(n, r, from, g)
           info == NotifyInfo(clock, Coords(n))
           r2 == [r1 EXCEPT !.p = [@ EXCEPT !.notify = info]]
           h == PathNotify(f.from, n, f.source, info)
<1>1. g \in Talk
  BY DEF Lookups, Talk
<1>2. \A k \in Node : k # from /\ Neighbours(n, k) => Passed(n, k, g)
  BY LookupGoesOn
<1> HIDE DEF g
<1>3. r1 \in Turns(Talk) /\ Kept(r, r1)
  BY <1>1, MulticastType
<1>4. Sound(n, r1)
  BY <1>1, <1>2, MulticastSound
<1> HIDE DEF r1
<1>5. info \in [seq : Nat, path : Path]
  BY CoordsType DEF NotifyInfo, Around
<1> HIDE DEF info
<1>6. r1.p \in PathStates
  BY <1>3 DEF Turns
<1>7. [r1.p EXCEPT !.notify = info] \in PathStates
  BY <1>5, <1>6 DEF PathStates
<1>8. r2 \in Turns(Talk) /\ r2.out = r1.out /\ r2.b = r1.b
  BY <1>3, <1>7 DEF Turns
<1>9. h \in Notifies /\ Nearing(h.way)
  <2>1. f.from \in Path /\ f.source \in Node
    BY DEF Lookups
  <2> QED
    BY <1>5, <2>1, RoutedType DEF PathNotify, Notifies
<1>10. HandleLookup(n, r, from, f, fav) = IF XKey[f.dest] # XOf[n] THEN r1 ELSE HandleNotify(n, r2, h, fav)
  BY DEF HandleLookup, g, r1, info
<1> HIDE DEF r2, h
<1>11. Sound(n, r2) /\ TreeOnly(n, r2.b)
  BY <1>3, <1>4, <1>8 DEF Sound, Kept
<1>12. Sound(n, HandleNotify(n, r2, h, fav))
  BY <1>8, <1>9, <1>11, NotifySound
<1> QED
  BY <1>4, <1>10, <1>12

LEMMA BrokenSound ==
  ASSUME Around, NEW n \in Node, NEW r \in Turns(Talk), NEW f \in Brokens, Nearing(f.way), NEW fav,
         n \notin linked[n], TreeOnly(n, r.b), Sound(n, r)
  PROVE  Sound(n, HandleBroken(n, r, f, fav))
<1> DEFINE hops == NextHops(n, f.way.path, f.way.mark)
           e == r.p.entries[f.dest]
           new == [e EXCEPT !.broken = TRUE]
           s == [r EXCEPT !.p = [r.p EXCEPT !.entries = [r.p.entries EXCEPT ![f.dest] = new]]]
<1>1. f \in Travelling /\ f.dest \in Node
  BY DEF Travelling, Talk, IsRouted, Brokens
<1>2. CASE hops # {}
  BY <1>1, <1>2, PassOnSound DEF HandleBroken
<1>3. CASE hops = {} /\ f.source = n /\ e # None
  <2>1. e \in Entry
    BY <1>1, <1>3 DEF Turns, PathStates
  <2>2. new \in Entry
    <3> HIDE DEF e
    <3> QED
      BY <2>1 DEF Entry
  <2>3. [r EXCEPT !.p.entries[f.dest].broken = TRUE] = s
    BY <1>1, <2>1 DEF Turns, PathStates
  <2>4. HandleBroken(n, r, f, fav) = RumorLookup(n, s, PubKey[f.dest])
    <3> HIDE DEF s
    <3> QED
      BY <1>3, <2>3 DEF HandleBroken
  <2> HIDE DEF new
  <2>5. s \in Turns(Talk)
    BY <1>1, <2>2, EntryType
  <2>6. s.out = r.out /\ s.b = r.b
    BY EntrySame
  <2> HIDE DEF s
  <2>7. Sound(n, s) /\ TreeOnly(n, s.b)
    BY <2>6 DEF Sound
  <2>8. Sound(n, RumorLookup(n, s, PubKey[f.dest]))
    BY <1>1, <2>5, <2>7, KeysKnown, RumorLookupSound
  <2> QED
    BY <2>4, <2>8
<1>4. CASE hops = {} /\ ~(f.source = n /\ e # None)
  BY <1>4 DEF HandleBroken
<1> QED
  BY <1>2, <1>3, <1>4

LEMMA DeliverSame ==
  ASSUME NEW n \in Node, NEW r \in Turns(Talk), NEW f \in Payloads
  PROVE  Deliver(n, r, f).out = r.out
<1>1. CASE f.data.seals = 1
  <2> DEFINE g == Append(r.got, f.data.id)
             v == [[r.sess EXCEPT ![n] = @ \cup {f.source}] EXCEPT ![f.source] = @ \cup {n}]
  <2>1. Deliver(n, r, f) = [r EXCEPT !.got = g, !.sess = v]
    BY <1>1 DEF Deliver, Turns, Payloads, Data
  <2> HIDE DEF g, v
  <2> QED
    BY <2>1 DEF Turns
<1> QED
  BY <1>1 DEF Deliver

LEMMA TrafficSound ==
  ASSUME Around, NEW n \in Node, NEW r \in Turns(Talk), NEW f \in Payloads, Nearing(f.way),
         f.dest = f.data.to, NEW fav, n \notin linked[n], TreeOnly(n, r.b), Sound(n, r)
  PROVE  Sound(n, HandleTraffic(n, r, f, fav))
<1> DEFINE hops == NextHops(n, f.way.path, f.way.mark)
           e == r.p.entries[f.source]
           new == [e EXCEPT !.deadline = clock + PATH_TIMEOUT]
           s == [r EXCEPT !.p = [r.p EXCEPT !.entries = [r.p.entries EXCEPT ![f.source] = new]]]
           fresh == IF e = None \/ e.broken THEN r
                    ELSE [r EXCEPT !.p.entries[f.source].deadline = clock + PATH_TIMEOUT]
           b == PathBroken(f.from, f.source, f.dest)
<1>1. f \in Travelling /\ f.source \in Node /\ f.dest \in Node /\ f.from \in Path
  BY DEF Travelling, Talk, IsRouted, Payloads
<1>2. CASE hops # {}
  BY <1>1, <1>2, PassOnSound DEF HandleTraffic
<1>3. CASE hops = {} /\ f.dest = n
  <2>1. HandleTraffic(n, r, f, fav) = Deliver(n, fresh, f)
    BY <1>3 DEF HandleTraffic
  <2>2. fresh \in Turns(Talk) /\ fresh.out = r.out
    <3>1. CASE e = None \/ e.broken
      BY <3>1
    <3>2. CASE ~(e = None \/ e.broken)
      <4>1. e \in Entry
        BY <1>1, <3>2 DEF Turns, PathStates
      <4>2. clock + PATH_TIMEOUT \in Nat
        BY RoutingAssumption DEF Around
      <4>3. new \in Entry
        <5> HIDE DEF e
        <5> QED
          BY <4>1, <4>2 DEF Entry
      <4>4. fresh = s
        BY <1>1, <3>2, <4>1 DEF Turns, PathStates
      <4> HIDE DEF new, fresh
      <4>5. s \in Turns(Talk)
        BY <1>1, <4>3, EntryType
      <4>6. s.out = r.out
        BY EntrySame
      <4> HIDE DEF s
      <4> QED
        BY <4>4, <4>5, <4>6
    <3> QED
      BY <3>1, <3>2
  <2> HIDE DEF fresh
  <2>3. Deliver(n, fresh, f).out = r.out
    BY <2>2, DeliverSame
  <2> QED
    BY <2>1, <2>3 DEF Sound
<1>4. CASE hops = {} /\ f.dest # n
  <2>1. HandleTraffic(n, r, f, fav) = HandleBroken(n, r, b, fav)
    BY <1>4 DEF HandleTraffic
  <2>2. b \in Brokens /\ Nearing(b.way)
    BY <1>1, RoutedType DEF PathBroken, Brokens
  <2> HIDE DEF b
  <2>3. Sound(n, HandleBroken(n, r, b, fav))
    BY <2>2, BrokenSound
  <2> QED
    BY <2>1, <2>3
<1> QED
  BY <1>2, <1>3, <1>4

LEMMA DispatchSound ==
  ASSUME Around, NEW n \in Node, NEW r \in Turns(Talk), NEW from \in Node, NEW f \in Frame, NEW fav,
         n \notin linked[n], TreeOnly(n, r.b), Sound(n, r), Passed(from, n, f)
  PROVE  Sound(n, Dispatch(n, r, from, f, fav)) /\ TreeOnly(n, Dispatch(n, r, from, f, fav).b)
<1>1. CASE f \in Talk
  <2>1. TreeOnly(n, Dispatch(n, r, from, f, fav).b)
    BY <1>1, DispatchTalk DEF SameBlooms
  <2>2. CASE f \in Lookups
    <3>1. f.type = "Lookup"
      BY <2>2 DEF Lookups
    <3> QED
      BY <2>1, <2>2, <3>1, HandleLookupSound DEF Dispatch
  <2>3. CASE f \in Notifies /\ Nearing(f.way)
    <3>1. f.type = "Notify"
      BY <2>3 DEF Notifies
    <3> QED
      BY <2>1, <2>3, <3>1, NotifySound DEF Dispatch
  <2>4. CASE f \in Brokens /\ Nearing(f.way)
    <3>1. f.type = "Broken"
      BY <2>4 DEF Brokens
    <3> QED
      BY <2>1, <2>4, <3>1, BrokenSound DEF Dispatch
  <2>5. CASE f \in Payloads /\ Nearing(f.way) /\ f.dest = f.data.to
    <3>1. f.type = "Traffic"
      BY <2>5 DEF Payloads
    <3> QED
      BY <2>1, <2>5, <3>1, TrafficSound DEF Dispatch
  <2> QED
    BY <1>1, <2>2, <2>3, <2>4, <2>5 DEF Talk
<1>2. CASE f \in Filters
  <2>1. f.type = "Bloom"
    BY <1>2 DEF Filters
  <2> DEFINE v == [r.b.recv EXCEPT ![from] = IF @ = None THEN None ELSE f.filter]
             b == [r.b EXCEPT !.recv = v]
             s == [r EXCEPT !.b = b]
  <2>2. Dispatch(n, r, from, f, fav) = s
    BY <2>1 DEF Dispatch, HandleBloom, Turns, BloomStates, Books
  <2> HIDE DEF v
  <2>3. b.on_tree = r.b.on_tree
    BY DEF Turns, BloomStates, Books
  <2> HIDE DEF b
  <2>4. s.b = b /\ s.out = r.out
    BY DEF Turns
  <2> HIDE DEF s
  <2> QED
    BY <2>2, <2>3, <2>4 DEF Sound, TreeOnly
<1> QED
  BY <1>1, <1>2 DEF Frame

-----------------------------------------------------------------------------
(* The tree stands still *)

\* bloom_fix, in a router that knows the tree.
LEMMA FixTree ==
  ASSUME NEW n \in Node, NEW b \in BloomStates, infos[n] = Home
  PROVE  TreeOnly(n, BloomFix(n, b))
<1> DEFINE on(k) == infos[n][n] = k \/ infos[n][k] = n
           t == [k \in Node |-> IF b.on_tree[k] = None THEN None ELSE on(k)]
           s == [k \in Node |-> IF b.on_tree[k] = TRUE /\ ~on(k) THEN {} ELSE b.send[k]]
           c == [b EXCEPT !.on_tree = t, !.send = s]
<1>1. infos[n][n] # None
  BY RoutingAssumption
<1>2. BloomFix(n, b) = c
  BY <1>1 DEF BloomFix
<1>3. \A k \in Node : t[k] = TRUE => on(k)
  BY RoutingAssumption
<1>4. \A k \in Node : on(k) /\ k # n => Neighbours(n, k)
  BY DEF Neighbours
<1> HIDE DEF on, t, s
<1>5. c.on_tree = t
  BY DEF BloomStates, Books
<1> HIDE DEF c
<1> QED
  BY <1>2, <1>3, <1>4, <1>5 DEF TreeOnly

LEMMA MaintenanceSound ==
  ASSUME NEW n \in Node, NEW r \in Turns(Frame), infos[n] = Home, Sound(n, r)
  PROVE  Sound(n, BloomMaintenance(n, r)) /\ TreeOnly(n, BloomMaintenance(n, r).b)
<1> DEFINE s == BloomMaintenance(n, r)
<1>1. /\ s \in Turns(Frame) /\ s.b.on_tree = BloomFix(n, r.b).on_tree
      /\ \A p \in Node : s.out[p] = r.out[p] \/ \E f \in Filters : s.out[p] = r.out[p] \o <<f>>
  BY MaintenanceType
<1>2. TreeOnly(n, BloomFix(n, r.b))
  BY FixTree DEF Turns
<1> HIDE DEF s
<1>3. TreeOnly(n, s.b)
  BY <1>1, <1>2 DEF TreeOnly
<1>4. ASSUME NEW k \in Node
      PROVE  AllPassed(n, k, s.out[k])
  <2>1. AllPassed(n, k, r.out[k])
    BY DEF Sound
  <2>2. ASSUME NEW f \in Filters, s.out[k] = r.out[k] \o <<f>>
        PROVE  AllPassed(n, k, s.out[k])
    <3> DEFINE o == r.out[k]
    <3>1. o \in Seq(Frame)
      BY DEF Turns
    <3>2. f \in Frame /\ f.type # "Lookup"
      BY DEF Frame, Filters
    <3>3. Passed(n, k, f)
      BY <3>2 DEF Passed
    <3>4. AllPassed(n, k, o)
      BY <2>1
    <3> HIDE DEF o, Frame
    <3>5. o \o <<f>> = Append(o, f)
      BY <3>1, <3>2
    <3>6. AllPassed(n, k, Append(o, f))
      BY <3>1, <3>2, <3>3, <3>4, PassedAppend
    <3> QED
      BY <2>2, <3>5, <3>6 DEF o
  <2> QED
    BY <1>1, <2>1, <2>2
<1>5. Sound(n, s)
  BY <1>4 DEF Sound
<1> QED
  BY <1>3, <1>5 DEF s

LEMMA LookAgainSound ==
  ASSUME Around, NEW n \in Node, NEW r \in Turns(Frame), NEW s \in SetToSeqs(Unresolved(r.p)),
         TreeOnly(n, r.b), Sound(n, r)
  PROVE  Sound(n, LookAgain(n, r, s)) /\ TreeOnly(n, LookAgain(n, r, s).b)
<1> DEFINE u == LookAgain(n, r, s)
<1>1. /\ u \in Turns(Frame) /\ Kept(r, u)
      /\ \A k \in Node : \E t \in Seq(Lookups) : u.out[k] = r.out[k] \o t /\ Asks(n, r, k, t)
  BY LookAgainType
<1> HIDE DEF u
<1>2. TreeOnly(n, u.b)
  BY <1>1 DEF Kept
<1>3. ASSUME NEW k \in Node
      PROVE  AllPassed(n, k, u.out[k])
  <2> DEFINE o == r.out[k]
  <2>1. PICK t \in Seq(Lookups) : u.out[k] = o \o t /\ Asks(n, r, k, t)
    BY <1>1
  <2>2. o \in Seq(Frame) /\ AllPassed(n, k, o)
    BY DEF Turns, Sound
  <2>3. t \in Seq(Frame)
    <3>1. Lookups \subseteq Frame
      BY DEF Frame, Talk
    <3> HIDE DEF Lookups, Frame
    <3> QED
      BY <3>1
  <2>4. ASSUME NEW i \in DOMAIN t
        PROVE  Passed(n, k, t[i])
    <3>1. t[i].trail = <<n>> /\ Neighbours(n, k)
      BY <2>1 DEF Asks, TreeOnly
    <3>2. DOMAIN t[i].trail = {1} /\ t[i].trail[1] = n
      BY <3>1
    <3>3. n \in Side(n, k)
      BY <3>1, OwnSide
    <3> QED
      BY <3>1, <3>2, <3>3 DEF Passed, Once
  <2>5. AllPassed(n, k, t)
    BY <2>4 DEF AllPassed
  <2> HIDE DEF o, Frame
  <2> QED
    BY <2>1, <2>2, <2>3, <2>5, PassedConcat
<1>4. Sound(n, u)
  BY <1>3 DEF Sound
<1> QED
  BY <1>2, <1>4 DEF u

\* Everybody knows the tree, and lookups stay ahead of their trail.
Standing(I, B, C) ==
  /\ \A n \in Node : I[n] = Home
  /\ \A n \in Node : TreeOnly(n, B[n])
  /\ \A k, n \in Node : AllPassed(k, n, C[k][n])

LookupInv == moves \in Nat /\ (moves = 0 => Standing(infos, blooms, chan))

LEMMA NothingPassed ==
  /\ \A k, n : AllPassed(k, n, <<>>)
  /\ \A k, n, filter : AllPassed(k, n, <<Bloom(filter)>>)
<1>1. \A k, n : AllPassed(k, n, <<>>)
  BY DEF AllPassed
<1>2. ASSUME NEW k, NEW n, NEW filter
      PROVE  AllPassed(k, n, <<Bloom(filter)>>)
  <2> DEFINE f == Bloom(filter)
  <2>1. f.type # "Lookup"
    BY DEF Bloom
  <2> HIDE DEF f
  <2>2. AllPassed(k, n, <<f>>)
    BY <2>1 DEF AllPassed, Passed
  <2> QED
    BY <2>2 DEF f
<1> QED
  BY <1>1, <1>2

LEMMA TurnSound ==
  ASSUME TypeInv, NEW n \in Node, TreeOnly(n, blooms[n])
  PROVE  Sound(n, Turn(n)) /\ TreeOnly(n, Turn(n).b)
<1> DEFINE t == Turn(n)
           e == <<>>
<1>1. t.b = blooms[n] /\ t.out = [k \in Node |-> e]
  BY TurnIs
<1>2. \A k \in Node : AllPassed(n, k, e)
  BY NothingPassed
<1> HIDE DEF t, e
<1>3. Sound(n, t) /\ TreeOnly(n, t.b)
  BY <1>1, <1>2 DEF Sound
<1> QED
  BY <1>3 DEF t

LEMMA StepStands ==
  ASSUME TypeInv, Standing(infos, blooms, chan), NEW n \in Node, NEW r \in Turns(Frame), NEW read,
         Reading(n, read), Step(n, r, read), infos' = infos, Sound(n, r), TreeOnly(n, r.b)
  PROVE  Standing(infos', blooms', chan')
<1>1. \A k \in Node : TreeOnly(k, blooms'[k])
  BY DEF Step, TypeInv, Standing
<1>2. ASSUME NEW k \in Node, NEW p \in Node
      PROVE  AllPassed(k, p, chan'[k][p])
  <2> DEFINE s == chan[k][p]
             o == r.out[p]
  <2>1. s \in Seq(Frame) /\ o \in Seq(Frame)
    BY DEF TypeInv, Turns
  <2>2. AllPassed(k, p, s) /\ AllPassed(n, p, o)
    BY DEF Standing, Sound
  <2>3. chan'[k][p] = IF k = n THEN s \o o ELSE IF k = read /\ p = n THEN Tail(s) ELSE s
    BY DEF Step
  <2>4. k = read /\ p = n => s # <<>>
    BY RoutingAssumption DEF Reading
  <2> HIDE DEF s, o
  <2>5. CASE k = n
    BY <2>1, <2>2, <2>3, <2>5, PassedConcat
  <2>6. CASE k # n /\ k = read /\ p = n
    BY <2>1, <2>2, <2>3, <2>4, <2>6, PassedTail
  <2> QED
    BY <2>2, <2>3, <2>5, <2>6
<1> QED
  BY <1>1, <1>2 DEF Standing

LEMMA ReadStands ==
  ASSUME IInv, Standing(infos, blooms, chan), NEW n \in Node, NEW p \in Node, Read(n, p)
  PROVE  Standing(infos', blooms', chan')
<1> DEFINE f == Head(chan[p][n])
           s == chan[p][n]
           t == Turn(n)
<1>1. PICK fav \in linked[n] : Step(n, Dispatch(n, t, p, f, fav), p)
  BY DEF Read
<1> DEFINE r == Dispatch(n, t, p, f, fav)
<1>2. infos' = infos /\ p \in linked[n] /\ s # <<>>
  BY DEF Read
<1>3. p # n /\ n \notin linked[n]
  BY <1>2 DEF IInv, BloomInv, LinkInv
<1>4. Reading(n, p)
  BY <1>2, <1>3 DEF Reading
<1>5. Around /\ t \in Turns(Talk)
  BY TurnIs DEF IInv
<1>6. Sound(n, t) /\ TreeOnly(n, t.b)
  BY TurnSound DEF IInv, Standing
<1>7. s \in Seq(Frame) /\ AllPassed(p, n, s)
  BY DEF IInv, TypeInv, Standing
<1>8. f \in Frame
  <2> HIDE DEF Frame
  <2> QED
    BY <1>2, <1>7
<1>9. Passed(p, n, f)
  BY <1>2, <1>7, PassedTail
<1> HIDE DEF t
<1>10. r \in Turns(Frame)
  <2> HIDE DEF f
  <2>1. r \in Turns(Talk)
    BY <1>5, <1>8, DispatchTalk, DispatchBloom DEF Frame
  <2> QED
    BY <2>1, TalkTurns
<1>11. Sound(n, r) /\ TreeOnly(n, r.b)
  <2> HIDE DEF f
  <2> QED
    BY <1>3, <1>5, <1>6, <1>8, <1>9, DispatchSound
<1>12. Step(n, r, p)
  BY <1>1
<1> HIDE DEF r
<1> QED
  BY <1>2, <1>4, <1>10, <1>11, <1>12, StepStands DEF IInv

LEMMA MaintainStands ==
  ASSUME IInv, Standing(infos, blooms, chan), NEW n \in Node, Maintain(n)
  PROVE  Standing(infos', blooms', chan')
<1> DEFINE t == Turn(n)
           r == BloomMaintenance(n, t)
           e == [r EXCEPT !.p = Expire(@)]
<1>1. PICK s \in SetToSeqs(Unresolved(e.p)) : Step(n, LookAgain(n, e, s), None)
  BY DEF Maintain
<1> DEFINE u == LookAgain(n, e, s)
<1>2. infos' = infos /\ infos[n] = Home
  BY DEF Maintain, Standing
<1>3. Reading(n, None)
  BY DEF Reading
<1>4. Around /\ t \in Turns(Frame)
  BY TurnIs, TalkTurns DEF IInv
<1>5. Sound(n, t)
  BY TurnSound DEF IInv, Standing
<1> HIDE DEF t
<1>6. r \in Turns(Frame)
  BY <1>4, MaintenanceType
<1>7. Sound(n, r) /\ TreeOnly(n, r.b)
  BY <1>2, <1>4, <1>5, MaintenanceSound
<1> HIDE DEF r
<1>8. Expire(r.p) \in PathStates
  BY <1>6, ExpireType DEF Turns
<1>9. e \in Turns(Frame) /\ e.out = r.out /\ e.b = r.b
  BY <1>6, <1>8 DEF Turns
<1> HIDE DEF e
<1>10. Sound(n, e) /\ TreeOnly(n, e.b)
  BY <1>7, <1>9 DEF Sound
<1>11. u \in Turns(Frame)
  BY <1>4, <1>9, LookAgainType
<1>12. Sound(n, u) /\ TreeOnly(n, u.b)
  BY <1>4, <1>9, <1>10, LookAgainSound
<1>13. Step(n, u, None)
  BY <1>1
<1> HIDE DEF u
<1> QED
  BY <1>2, <1>3, <1>11, <1>12, <1>13, StepStands DEF IInv

LEMMA SendsStand ==
  ASSUME IInv, Standing(infos, blooms, chan), NEW n \in Node, NEW d \in Node,
         SendOrResolve(n, d) \/ SendToKey(n, d)
  PROVE  Standing(infos', blooms', chan')
<1> DEFINE data == [id |-> sends + 1, to |-> d, seals |-> 0]
           t == Turn(n)
<1>1. sends \in Nat
  BY DEF IInv, TypeInv
<1>2. data \in Data /\ data.to = d
  BY <1>1 DEF Data
<1>3. infos' = infos /\ Reading(n, None)
  BY DEF SendOrResolve, SendToKey, Reading
<1>4. Around /\ t \in Turns(Talk)
  BY TurnIs DEF IInv
<1>5. Sound(n, t) /\ TreeOnly(n, t.b)
  BY TurnSound DEF IInv, Standing
<1>6. n \notin linked[n]
  BY DEF IInv, BloomInv, LinkInv
<1>7. ASSUME NEW r \in Turns(Talk), Kept(t, r), Sound(n, r), Step(n, r, None)
      PROVE  Standing(infos', blooms', chan')
  <2>1. r \in Turns(Frame) /\ TreeOnly(n, r.b)
    BY <1>5, <1>7, TalkTurns DEF Kept
  <2> QED
    BY <1>3, <1>7, <2>1, StepStands DEF IInv
<1>8. CASE SendToKey(n, d)
  <2>1. PICK fav \in linked[n] : Step(n, SessionSend(n, t, d, data, fav), None)
    BY <1>8 DEF SendToKey
  <2> DEFINE r == SessionSend(n, t, d, data, fav)
  <2> HIDE DEF data
  <2>2. r \in Turns(Talk) /\ Kept(t, r) /\ Sound(n, r)
    <3> HIDE DEF t
    <3> QED
      BY <1>2, <1>4, <1>5, <1>6, SessionSendType, SessionSendSound
  <2>3. Step(n, r, None)
    BY <2>1
  <2> HIDE DEF r, t
  <2> QED
    BY <1>7, <2>2, <2>3
<1>9. CASE SendOrResolve(n, d)
  <2>1. PICK fav \in linked[n], a \in InUse(d) :
          Step(n, IF KeysFor(n, a) = {}
                  THEN HoldForLookup(n, t, LookupKeyForAddr(a), data)
                  ELSE SessionSend(n, t, CHOOSE k \in KeysFor(n, a) : TRUE, data, fav), None)
    BY <1>9 DEF SendOrResolve
  <2>2. a \in AddressesOf[d]
    BY DEF InUse
  <2> DEFINE key == LookupKeyForAddr(a)
  <2>3. key \in PublicKey /\ XKey[key] = XOf[d] /\ \A k \in Node : a \in AddressesOf[k] => k = d
    BY <2>2, OwnerOf
  <2> HIDE DEF data, key
  <2>4. CASE KeysFor(n, a) = {}
    <3> DEFINE r == HoldForLookup(n, t, key, data)
    <3>1. r \in Turns(Talk) /\ Kept(t, r) /\ Sound(n, r)
      <4> HIDE DEF t
      <4> QED
        BY <1>2, <1>4, <1>5, <1>6, <2>3, HoldType, HoldSound
    <3>2. Step(n, r, None)
      BY <2>1, <2>4 DEF key
    <3> HIDE DEF r, t
    <3> QED
      BY <1>7, <3>1, <3>2
  <2>5. CASE KeysFor(n, a) # {}
    <3> DEFINE r == SessionSend(n, t, d, data, fav)
    <3>1. (CHOOSE k \in KeysFor(n, a) : TRUE) \in KeysFor(n, a)
      BY <2>5
    <3>2. (CHOOSE k \in KeysFor(n, a) : TRUE) = d
      BY <2>3, <3>1 DEF KeysFor
    <3>3. r \in Turns(Talk) /\ Kept(t, r) /\ Sound(n, r)
      <4> HIDE DEF t
      <4> QED
        BY <1>2, <1>4, <1>5, <1>6, SessionSendType, SessionSendSound
    <3>4. Step(n, r, None)
      BY <2>1, <2>5, <3>2
    <3> HIDE DEF r, t
    <3> QED
      BY <1>7, <3>3, <3>4
  <2> QED
    BY <2>4, <2>5
<1> QED
  BY <1>8, <1>9

LEMMA AddPeerTree ==
  ASSUME NEW n \in Node, NEW b \in BloomStates, NEW p \in Node, TreeOnly(n, b)
  PROVE  TreeOnly(n, AddPeer(b, p))
<1> DEFINE x == IF b.on_tree[p] = None /\ Cardinality({k \in Node : b.on_tree[k] # None}) < CAPACITY
                THEN FALSE ELSE b.on_tree[p]
           t == [b.on_tree EXCEPT ![p] = x]
<1>1. AddPeer(b, p).on_tree = t
  BY DEF AddPeer
<1>2. b.on_tree \in [Node -> BOOLEAN \cup {None}]
  BY DEF BloomStates, Books
<1>3. x = FALSE \/ x = b.on_tree[p]
  OBVIOUS
<1> HIDE DEF x
<1>4. \A k \in Node : t[k] = TRUE => b.on_tree[k] = TRUE
  BY <1>2, <1>3
<1> HIDE DEF t
<1> QED
  BY <1>1, <1>4 DEF TreeOnly

LEMMA LinkStands ==
  ASSUME IInv, Standing(infos, blooms, chan), NEW n \in Node, NEW p \in Node,
         Connect(n, p) \/ Cut(n, p)
  PROVE  Standing(infos', blooms', chan')
<1>1. infos' = infos
  BY DEF Connect, Cut
<1>2. \A k \in Node : TreeOnly(k, blooms'[k])
  <2>1. CASE Connect(n, p)
    <3> DEFINE nb == AddPeer(blooms[n], p)
               pb == AddPeer(blooms[p], n)
    <3>1. blooms' = [blooms EXCEPT ![n] = nb, ![p] = pb]
      BY <2>1 DEF Connect
    <3>2. TreeOnly(n, nb) /\ TreeOnly(p, pb)
      BY AddPeerTree DEF IInv, TypeInv, Standing
    <3>3. DOMAIN blooms = Node
      BY DEF IInv, TypeInv
    <3> HIDE DEF nb, pb
    <3> QED
      BY <3>1, <3>2, <3>3 DEF Standing
  <2>2. CASE Cut(n, p)
    BY <2>2 DEF Cut, Standing
  <2> QED
    BY <2>1, <2>2
<1>3. \E u, v : /\ chan' = [chan EXCEPT ![n][p] = u, ![p][n] = v]
                /\ \A h, k \in Node : AllPassed(h, k, u) /\ AllPassed(h, k, v)
  <2>1. CASE Connect(n, p)
    <3> DEFINE u == <<Bloom(AddPeer(blooms[n], p).send[p])>>
               v == <<Bloom(AddPeer(blooms[p], n).send[n])>>
    <3>1. chan' = [chan EXCEPT ![n][p] = u, ![p][n] = v]
      BY <2>1 DEF Connect
    <3>2. \A h, k \in Node : AllPassed(h, k, u) /\ AllPassed(h, k, v)
      BY NothingPassed
    <3> HIDE DEF u, v
    <3> QED
      BY <3>1, <3>2
  <2>2. CASE Cut(n, p)
    <3> DEFINE e == <<>>
    <3>1. chan' = [chan EXCEPT ![n][p] = e, ![p][n] = e]
      BY <2>2 DEF Cut
    <3>2. \A h, k \in Node : AllPassed(h, k, e)
      BY NothingPassed
    <3> HIDE DEF e
    <3> QED
      BY <3>1, <3>2
  <2> QED
    BY <2>1, <2>2
<1>4. PICK u, v : /\ chan' = [chan EXCEPT ![n][p] = u, ![p][n] = v]
                  /\ \A h, k \in Node : AllPassed(h, k, u) /\ AllPassed(h, k, v)
  BY <1>3
<1>5. chan \in [Node -> [Node -> Seq(Frame)]]
  BY DEF IInv, TypeInv
<1>6. ASSUME NEW h \in Node, NEW k \in Node
      PROVE  chan'[h][k] \in {chan[h][k], u, v}
  BY <1>4, <1>5
<1>7. \A h, k \in Node : AllPassed(h, k, chan'[h][k])
  BY <1>4, <1>6, ZenonT(60) DEF Standing
<1> QED
  BY <1>1, <1>2, <1>7 DEF Standing

LEMMA DefaultTree ==
  ASSUME NEW n
  PROVE  TreeOnly(n, DefaultBlooms)
BY RoutingAssumption DEF TreeOnly, DefaultBlooms

LEMMA RestartStands ==
  ASSUME IInv, Standing(infos, blooms, chan), NEW n \in Node, Restart(n)
  PROVE  Standing(infos', blooms', chan')
<1> DEFINE e == <<>>
<1>1. /\ chan' = [k \in Node |-> [p \in Node |-> IF n \in {k, p} THEN e ELSE chan[k][p]]]
      /\ blooms' = [blooms EXCEPT ![n] = DefaultBlooms]
      /\ infos' = infos /\ DOMAIN blooms = Node
  BY DEF Restart, IInv, TypeInv
<1>2. \A h, k \in Node : AllPassed(h, k, e)
  BY NothingPassed
<1> HIDE DEF e
<1>3. \A h, k \in Node : AllPassed(h, k, chan'[h][k])
  BY <1>1, <1>2 DEF Standing
<1>4. \A k \in Node : TreeOnly(k, blooms'[k])
  BY <1>1, DefaultTree DEF Standing
<1> QED
  BY <1>1, <1>3, <1>4 DEF Standing

LEMMA NextLookups ==
  ASSUME IInv, LookupInv, [Next]_vars
  PROVE  LookupInv'
<1>1. ASSUME moves' = moves,
             Standing(infos, blooms, chan) => Standing(infos', blooms', chan')
      PROVE  LookupInv'
  BY <1>1 DEF LookupInv
<1>2. ASSUME UNCHANGED <<infos, blooms, chan, moves>>
      PROVE  LookupInv'
  BY <1>2 DEF LookupInv
<1>3. ASSUME NEW n \in Node, NEW p \in Node, Read(n, p) \/ Hear(n, p) \/ Connect(n, p) \/ Cut(n, p)
      PROVE  LookupInv'
  <2>1. moves' = moves
    BY <1>3 DEF Read, Hear, Connect, Cut
  <2>2. CASE Hear(n, p)
    <3>1. ~Standing(infos, blooms, chan)
      BY <2>2 DEF Hear, Standing
    <3> QED
      BY <1>1, <2>1, <3>1
  <2> QED
    BY <1>1, <1>3, <2>1, <2>2, ReadStands, LinkStands
<1>4. ASSUME NEW route \in Routes, SendOrResolve(route[1], route[2]) \/ SendToKey(route[1], route[2])
      PROVE  LookupInv'
  <2>1. route[1] \in Node /\ route[2] \in Node
    BY RoutingAssumption
  <2>2. moves' = moves
    BY <1>4 DEF SendOrResolve, SendToKey
  <2> QED
    BY <1>1, <1>4, <2>1, <2>2, SendsStand
<1>5. ASSUME NEW n \in Node, Maintain(n) \/ Move(n) \/ Restart(n)
      PROVE  LookupInv'
  <2>1. CASE Move(n)
    BY <2>1 DEF Move, LookupInv
  <2>2. CASE Maintain(n)
    <3>1. moves' = moves
      BY <2>2 DEF Maintain
    <3> QED
      BY <1>1, <2>2, <3>1, MaintainStands
  <2>3. CASE Restart(n)
    <3>1. moves' = moves
      BY <2>3 DEF Restart
    <3> QED
      BY <1>1, <2>3, <3>1, RestartStands
  <2> QED
    BY <1>5, <2>1, <2>2, <2>3
<1>6. CASE Tick
  BY <1>2, <1>6 DEF Tick
<1>7. CASE UNCHANGED vars
  BY <1>2, <1>7 DEF vars
<1> QED
  BY <1>3, <1>4, <1>5, <1>6, <1>7 DEF Next

LEMMA InitLookups ==
  ASSUME Init
  PROVE  LookupInv
<1> DEFINE e == <<>>
<1>1. /\ chan = [n \in Node |-> [p \in Node |-> e]] /\ infos = [n \in Node |-> Home] /\ moves = 0
      /\ blooms = [n \in Node |-> IF "cold" \in env THEN DefaultBlooms ELSE SettledBlooms(n)]
  BY DEF Init
<1>2. \A h, k \in Node : AllPassed(h, k, e)
  BY NothingPassed
<1> HIDE DEF e
<1>3. ASSUME NEW n \in Node
      PROVE  TreeOnly(n, SettledBlooms(n))
  <2>1. SettledBlooms(n).on_tree = [p \in Node |-> IF p \in Peers(n) THEN p \in TreePeers(Home, n) ELSE None]
    BY DEF SettledBlooms
  <2>2. \A p \in Node : SettledBlooms(n).on_tree[p] = TRUE => p \in TreePeers(Home, n)
    BY <2>1, RoutingAssumption
  <2> QED
    BY <2>2 DEF TreeOnly, TreePeers, Neighbours
<1>4. \A n \in Node : TreeOnly(n, blooms[n])
  BY <1>1, <1>3, DefaultTree
<1> QED
  BY <1>1, <1>2, <1>4 DEF LookupInv, Standing

-----------------------------------------------------------------------------
(* Filters at rest *)

\* The on-tree table, which tracks CAPACITY keys, has room for every peer.
Room == \A n \in Node : Cardinality(Peers(n)) <= CAPACITY

\* The on-tree tables hold peers, and with enough room every linked one.
Known(L, B) ==
  \A n, k \in Node :
    /\ B[n].on_tree[k] # None => k \in Peers(n)
    /\ Room /\ k \in L[n] => B[n].on_tree[k] # None

KnownInv == Known(linked, blooms)

\* The infos make one tree of the links.
OneTree(tree) ==
  /\ \A k \in Node : tree[k] \in Peers(k) \cup {k} /\ RootPath(tree, k) # None
  /\ \A j, k \in Node : tree[j] = j /\ tree[k] = k => j = k

AllOneTree == \A n \in Node : OneTree(infos[n])

SameKeys(b, c) == \A k \in Node : b.on_tree[k] = None <=> c.on_tree[k] = None

LEMMA StepKnown ==
  ASSUME TypeInv, KnownInv, NEW n \in Node, NEW r, NEW read, Step(n, r, read), linked' = linked,
         SameKeys(blooms[n], r.b)
  PROVE  KnownInv'
<1>1. blooms'[n] = r.b /\ \A k \in Node : k # n => blooms'[k] = blooms[k]
  BY DEF Step, TypeInv
<1>2. Known(linked', blooms')
  BY <1>1 DEF KnownInv, Known, SameKeys
<1> QED
  BY <1>2 DEF KnownInv

LEMMA FixKnown ==
  ASSUME NEW n \in Node, NEW b \in BloomStates
  PROVE  SameKeys(b, BloomFix(n, b))
<1> DEFINE on(k) == infos[n][n] = k \/ infos[n][k] = n
           t == [k \in Node |-> IF b.on_tree[k] = None THEN None ELSE on(k)]
           s == [k \in Node |-> IF b.on_tree[k] = TRUE /\ ~on(k) THEN {} ELSE b.send[k]]
           c == [b EXCEPT !.on_tree = t, !.send = s]
<1>1. CASE infos[n][n] = None
  BY <1>1 DEF BloomFix, SameKeys
<1>2. CASE infos[n][n] # None
  <2>1. BloomFix(n, b) = c
    BY <1>2 DEF BloomFix
  <2>2. \A k \in Node : on(k) \in BOOLEAN
    OBVIOUS
  <2> HIDE DEF on
  <2>3. \A k \in Node : t[k] = None <=> b.on_tree[k] = None
    BY <2>2, RoutingAssumption
  <2> HIDE DEF t, s
  <2>4. c.on_tree = t
    BY DEF BloomStates, Books
  <2> HIDE DEF c
  <2> QED
    BY <2>1, <2>3, <2>4 DEF SameKeys
<1> QED
  BY <1>1, <1>2

LEMMA ReadKnown ==
  ASSUME IInv, KnownInv, NEW n \in Node, NEW p \in Node, Read(n, p)
  PROVE  KnownInv'
<1> DEFINE f == Head(chan[p][n])
           t == Turn(n)
<1>1. PICK fav \in linked[n] : Step(n, Dispatch(n, t, p, f, fav), p)
  BY DEF Read
<1> DEFINE r == Dispatch(n, t, p, f, fav)
<1>2. linked' = linked /\ chan[p][n] # <<>>
  BY DEF Read
<1>3. Around /\ t \in Turns(Talk) /\ t.b = blooms[n]
  BY TurnIs DEF IInv
<1>4. chan[p][n] \in Seq(Frame)
  BY DEF IInv, TypeInv
<1>5. f \in Frame
  <2> HIDE DEF Frame
  <2> QED
    BY <1>2, <1>4
<1>6. r.b.on_tree = blooms[n].on_tree
  <2> HIDE DEF f, t
  <2>1. CASE f \in Talk
    <3>1. SameBlooms(t, r)
      BY <1>3, <2>1, DispatchTalk
    <3> HIDE DEF r
    <3> QED
      BY <1>3, <3>1 DEF SameBlooms
  <2>2. CASE f \in Filters
    <3>1. t.b = blooms[n] /\ t \in Turns(Talk)
      BY <1>3
    <3>2. /\ r \in Turns(Talk) /\ r.p = t.p /\ r.out = t.out
          /\ r.b.send = t.b.send /\ r.b.on_tree = t.b.on_tree
          /\ r.b.recv = [t.b.recv EXCEPT ![p] = IF @ = None THEN None ELSE f.filter]
      BY <2>2, <3>1, DispatchBloom
    <3> HIDE DEF r
    <3> QED
      BY <3>1, <3>2
  <2> QED
    BY <1>5, <2>1, <2>2 DEF Frame
<1>7. Step(n, r, p)
  BY <1>1
<1> HIDE DEF r
<1>8. SameKeys(blooms[n], r.b)
  BY <1>6 DEF SameKeys
<1> QED
  BY <1>2, <1>7, <1>8, StepKnown DEF IInv

LEMMA MaintainKnown ==
  ASSUME IInv, KnownInv, NEW n \in Node, Maintain(n)
  PROVE  KnownInv'
<1> DEFINE t == Turn(n)
           r == BloomMaintenance(n, t)
           e == [r EXCEPT !.p = Expire(@)]
<1>1. PICK s \in SetToSeqs(Unresolved(e.p)) : Step(n, LookAgain(n, e, s), None)
  BY DEF Maintain
<1> DEFINE u == LookAgain(n, e, s)
<1>2. linked' = linked
  BY DEF Maintain
<1>3. Around /\ t \in Turns(Frame) /\ t.b = blooms[n]
  BY TurnIs, TalkTurns DEF IInv
<1> HIDE DEF t
<1>4. r \in Turns(Frame) /\ r.b.on_tree = BloomFix(n, t.b).on_tree
  BY <1>3, MaintenanceType
<1> HIDE DEF r
<1>5. Expire(r.p) \in PathStates
  BY <1>4, ExpireType DEF Turns
<1>6. e \in Turns(Frame) /\ e.b = r.b
  BY <1>4, <1>5 DEF Turns
<1> HIDE DEF e
<1>7. u.b = e.b
  BY <1>3, <1>6, LookAgainType DEF Kept
<1>8. Step(n, u, None)
  BY <1>1
<1> HIDE DEF u
<1>9. SameKeys(blooms[n], BloomFix(n, blooms[n]))
  BY FixKnown DEF IInv, TypeInv
<1>10. SameKeys(blooms[n], u.b)
  BY <1>3, <1>4, <1>6, <1>7, <1>9 DEF SameKeys
<1> QED
  BY <1>2, <1>8, <1>10, StepKnown DEF IInv

LEMMA SendsKnown ==
  ASSUME IInv, KnownInv, NEW n \in Node, NEW d \in Node, SendOrResolve(n, d) \/ SendToKey(n, d)
  PROVE  KnownInv'
<1> DEFINE data == [id |-> sends + 1, to |-> d, seals |-> 0]
           t == Turn(n)
<1>1. sends \in Nat
  BY DEF IInv, TypeInv
<1>2. data \in Data /\ data.to = d
  BY <1>1 DEF Data
<1>3. linked' = linked
  BY DEF SendOrResolve, SendToKey
<1>4. Around /\ t \in Turns(Talk) /\ t.b = blooms[n]
  BY TurnIs DEF IInv
<1>5. ASSUME NEW r, Kept(t, r), Step(n, r, None)
      PROVE  KnownInv'
  <2>1. SameKeys(blooms[n], r.b)
    BY <1>4, <1>5 DEF Kept, SameKeys
  <2> QED
    BY <1>3, <1>5, <2>1, StepKnown DEF IInv
<1>6. CASE SendToKey(n, d)
  <2>1. PICK fav \in linked[n] : Step(n, SessionSend(n, t, d, data, fav), None)
    BY <1>6 DEF SendToKey
  <2> HIDE DEF data, t
  <2>2. Kept(t, SessionSend(n, t, d, data, fav))
    BY <1>2, <1>4, SessionSendType
  <2> QED
    BY <1>5, <2>1, <2>2
<1>7. CASE SendOrResolve(n, d)
  <2>1. PICK fav \in linked[n], a \in InUse(d) :
          Step(n, IF KeysFor(n, a) = {}
                  THEN HoldForLookup(n, t, LookupKeyForAddr(a), data)
                  ELSE SessionSend(n, t, CHOOSE k \in KeysFor(n, a) : TRUE, data, fav), None)
    BY <1>7 DEF SendOrResolve
  <2>2. a \in AddressesOf[d]
    BY DEF InUse
  <2> DEFINE key == LookupKeyForAddr(a)
  <2>3. key \in PublicKey /\ XKey[key] = XOf[d] /\ \A k \in Node : a \in AddressesOf[k] => k = d
    BY <2>2, OwnerOf
  <2> HIDE DEF data, key, t
  <2>4. CASE KeysFor(n, a) = {}
    <3>1. Kept(t, HoldForLookup(n, t, key, data))
      BY <1>2, <1>4, <2>3, HoldType
    <3>2. Step(n, HoldForLookup(n, t, key, data), None)
      BY <2>1, <2>4 DEF key
    <3> QED
      BY <1>5, <3>1, <3>2
  <2>5. CASE KeysFor(n, a) # {}
    <3>1. (CHOOSE k \in KeysFor(n, a) : TRUE) \in KeysFor(n, a)
      BY <2>5
    <3>2. (CHOOSE k \in KeysFor(n, a) : TRUE) = d
      BY <2>3, <3>1 DEF KeysFor
    <3>3. Kept(t, SessionSend(n, t, d, data, fav))
      BY <1>2, <1>4, SessionSendType
    <3>4. Step(n, SessionSend(n, t, d, data, fav), None)
      BY <2>1, <2>5, <3>2
    <3> QED
      BY <1>5, <3>3, <3>4
  <2> QED
    BY <2>4, <2>5
<1> QED
  BY <1>6, <1>7

\* A new peer finds room.
LEMMA AddPeerKnown ==
  ASSUME NEW n \in Node, NEW b \in BloomStates, NEW p \in Peers(n),
         \A k \in Node : b.on_tree[k] # None => k \in Peers(n)
  PROVE  /\ \A k \in Node : k # p => AddPeer(b, p).on_tree[k] = b.on_tree[k]
         /\ Room => AddPeer(b, p).on_tree[p] # None
<1> DEFINE K == {k \in Node : b.on_tree[k] # None}
           x == IF b.on_tree[p] = None /\ Cardinality(K) < CAPACITY THEN FALSE ELSE b.on_tree[p]
           t == [b.on_tree EXCEPT ![p] = x]
<1>1. AddPeer(b, p).on_tree = t
  BY DEF AddPeer
<1>2. b.on_tree \in [Node -> BOOLEAN \cup {None}] /\ p \in Node
  BY DEF BloomStates, Books, Peers
<1>3. ASSUME Room, b.on_tree[p] = None
      PROVE  Cardinality(K) < CAPACITY
  <2>1. IsFiniteSet(Peers(n))
    BY RoutingAssumption, FS_Subset DEF Peers
  <2>2. K \subseteq Peers(n) \ {p}
    BY <1>3
  <2> HIDE DEF K
  <2>3. IsFiniteSet(Peers(n) \ {p}) /\ Cardinality(Peers(n) \ {p}) = Cardinality(Peers(n)) - 1
    BY <2>1, FS_RemoveElement
  <2>4. Cardinality(K) <= Cardinality(Peers(n) \ {p}) /\ IsFiniteSet(K)
    BY <2>2, <2>3, FS_Subset
  <2>5. Cardinality(K) \in Nat /\ Cardinality(Peers(n)) \in Nat /\ CAPACITY \in Nat
        /\ Cardinality(Peers(n)) <= CAPACITY
    BY <1>3, <2>1, <2>4, FS_CardinalityType, RoutingAssumption DEF Room
  <2> QED
    BY <2>3, <2>4, <2>5
<1>4. Room => x # None
  BY <1>3, RoutingAssumption
<1> HIDE DEF x, K
<1>5. t[p] = x /\ \A k \in Node : k # p => t[k] = b.on_tree[k]
  BY <1>2
<1> QED
  BY <1>1, <1>4, <1>5

LEMMA LinkKnown ==
  ASSUME IInv, KnownInv, NEW n \in Node, NEW p \in Node, Connect(n, p) \/ Cut(n, p)
  PROVE  KnownInv'
<1>1. CASE Connect(n, p)
  <2> DEFINE nb == AddPeer(blooms[n], p)
             pb == AddPeer(blooms[p], n)
  <2>1. /\ blooms' = [blooms EXCEPT ![n] = nb, ![p] = pb]
        /\ linked' = [linked EXCEPT ![n] = @ \cup {p}, ![p] = @ \cup {n}]
        /\ n # p /\ {n, p} \in Edges
    BY <1>1 DEF Connect
  <2>2. p \in Peers(n) /\ n \in Peers(p)
    <3>1. {p, n} = {n, p}
      OBVIOUS
    <3> QED
      BY <2>1, <3>1 DEF Peers
  <2>3. /\ \A k \in Node : k # p => nb.on_tree[k] = blooms[n].on_tree[k]
        /\ Room => nb.on_tree[p] # None
    BY <2>2, AddPeerKnown DEF IInv, TypeInv, KnownInv, Known
  <2>4. /\ \A k \in Node : k # n => pb.on_tree[k] = blooms[p].on_tree[k]
        /\ Room => pb.on_tree[n] # None
    BY <2>2, AddPeerKnown DEF IInv, TypeInv, KnownInv, Known
  <2>5. DOMAIN blooms = Node /\ DOMAIN linked = Node
    BY DEF IInv, TypeInv
  <2> HIDE DEF nb, pb
  <2>6. blooms'[n] = nb /\ blooms'[p] = pb /\ \A k \in Node : k # n /\ k # p => blooms'[k] = blooms[k]
    BY <2>1, <2>5
  <2>7. /\ linked'[n] = linked[n] \cup {p} /\ linked'[p] = linked[p] \cup {n}
        /\ \A k \in Node : k # n /\ k # p => linked'[k] = linked[k]
    BY <2>1, <2>5
  <2>8. Known(linked', blooms')
    <3> SUFFICES ASSUME NEW h \in Node, NEW k \in Node
                 PROVE  /\ blooms'[h].on_tree[k] # None => k \in Peers(h)
                        /\ Room /\ k \in linked'[h] => blooms'[h].on_tree[k] # None
      BY DEF Known
    <3>1. /\ blooms[h].on_tree[k] # None => k \in Peers(h)
          /\ Room /\ k \in linked[h] => blooms[h].on_tree[k] # None
      BY DEF KnownInv, Known
    <3>2. CASE h = n
      BY <2>2, <2>3, <2>6, <2>7, <3>1, <3>2
    <3>3. CASE h = p
      BY <2>2, <2>4, <2>6, <2>7, <3>1, <3>3
    <3>4. CASE h # n /\ h # p
      BY <2>6, <2>7, <3>1, <3>4
    <3> QED
      BY <3>2, <3>3, <3>4
  <2> QED
    BY <2>8 DEF KnownInv
<1>2. CASE Cut(n, p)
  <2>1. blooms' = blooms /\ linked' = [linked EXCEPT ![n] = @ \ {p}, ![p] = @ \ {n}]
        /\ DOMAIN linked = Node
    BY <1>2 DEF Cut, IInv, TypeInv
  <2>2. \A h \in Node : linked'[h] \subseteq linked[h]
    BY <2>1
  <2>3. Known(linked', blooms')
    BY <2>1, <2>2 DEF KnownInv, Known
  <2> QED
    BY <2>3 DEF KnownInv
<1> QED
  BY <1>1, <1>2

LEMMA RestartKnown ==
  ASSUME IInv, KnownInv, NEW n \in Node, Restart(n)
  PROVE  KnownInv'
<1>1. /\ linked' = [k \in Node |-> IF k = n THEN {} ELSE linked[k] \ {n}]
      /\ blooms' = [blooms EXCEPT ![n] = DefaultBlooms] /\ DOMAIN blooms = Node
  BY DEF Restart, IInv, TypeInv
<1>2. \A k \in Node : DefaultBlooms.on_tree[k] = None
  BY DEF DefaultBlooms
<1>3. Known(linked', blooms')
  BY <1>1, <1>2 DEF KnownInv, Known
<1> QED
  BY <1>3 DEF KnownInv

LEMMA NextKnown ==
  ASSUME IInv, KnownInv, [Next]_vars
  PROVE  KnownInv'
<1>1. ASSUME UNCHANGED <<linked, blooms>>
      PROVE  KnownInv'
  BY <1>1 DEF KnownInv
<1>2. ASSUME NEW n \in Node, NEW p \in Node, Read(n, p) \/ Hear(n, p) \/ Connect(n, p) \/ Cut(n, p)
      PROVE  KnownInv'
  <2>1. CASE Hear(n, p)
    BY <1>1, <2>1 DEF Hear
  <2> QED
    BY <1>2, <2>1, ReadKnown, LinkKnown
<1>3. ASSUME NEW route \in Routes, SendOrResolve(route[1], route[2]) \/ SendToKey(route[1], route[2])
      PROVE  KnownInv'
  <2>1. route[1] \in Node /\ route[2] \in Node
    BY RoutingAssumption
  <2> QED
    BY <1>3, <2>1, SendsKnown
<1>4. ASSUME NEW n \in Node, Maintain(n) \/ Move(n) \/ Restart(n)
      PROVE  KnownInv'
  <2>1. CASE Move(n)
    BY <1>1, <2>1 DEF Move
  <2> QED
    BY <1>4, <2>1, MaintainKnown, RestartKnown
<1>5. CASE Tick
  BY <1>1, <1>5 DEF Tick
<1>6. CASE UNCHANGED vars
  BY <1>1, <1>6 DEF vars
<1> QED
  BY <1>2, <1>3, <1>4, <1>5, <1>6 DEF Next

LEMMA InitKnown ==
  ASSUME Init
  PROVE  KnownInv
<1>1. /\ linked = [n \in Node |-> IF "cold" \in env THEN {} ELSE Peers(n)]
      /\ blooms = [n \in Node |-> IF "cold" \in env THEN DefaultBlooms ELSE SettledBlooms(n)]
  BY DEF Init
<1>2. \A k \in Node : DefaultBlooms.on_tree[k] = None
  BY DEF DefaultBlooms
<1>3. ASSUME NEW n \in Node
      PROVE  \A k \in Node : SettledBlooms(n).on_tree[k] # None <=> k \in Peers(n)
  <2>1. SettledBlooms(n).on_tree = [p \in Node |-> IF p \in Peers(n) THEN p \in TreePeers(Home, n) ELSE None]
    BY DEF SettledBlooms
  <2> DEFINE on(k) == k \in TreePeers(Home, n)
  <2>2. \A k \in Node : on(k) \in BOOLEAN
    OBVIOUS
  <2>3. SettledBlooms(n).on_tree = [k \in Node |-> IF k \in Peers(n) THEN on(k) ELSE None]
    BY <2>1
  <2> HIDE DEF on
  <2>4. \A k \in Node : SettledBlooms(n).on_tree[k] = IF k \in Peers(n) THEN on(k) ELSE None
    BY <2>3
  <2> QED
    BY <2>2, <2>4, RoutingAssumption
<1> QED
  BY <1>1, <1>2, <1>3 DEF KnownInv, Known

\* What a tick that changes nothing says of the tables.
Rests(n) ==
  \A p \in Node : blooms[n].on_tree[p] # None =>
    /\ blooms[n].on_tree[p] = TRUE <=> infos[n][n] = p \/ infos[n][p] = n
    /\ blooms[n].on_tree[p] = TRUE =>
         /\ Bits(XOf[n]) \subseteq blooms[n].send[p]
         /\ \A q \in Node \ {p} : blooms[n].on_tree[q] = TRUE => blooms[n].recv[q] \subseteq blooms[n].send[p]

LEMMA FixTells ==
  ASSUME NEW n \in Node, NEW b \in BloomStates, infos[n][n] # None, NEW p \in Node, b.on_tree[p] # None
  PROVE  BloomFix(n, b).on_tree[p] = TRUE <=> infos[n][n] = p \/ infos[n][p] = n
<1> DEFINE on(k) == infos[n][n] = k \/ infos[n][k] = n
           t == [k \in Node |-> IF b.on_tree[k] = None THEN None ELSE on(k)]
           s == [k \in Node |-> IF b.on_tree[k] = TRUE /\ ~on(k) THEN {} ELSE b.send[k]]
           c == [b EXCEPT !.on_tree = t, !.send = s]
<1>1. BloomFix(n, b) = c
  BY DEF BloomFix
<1>2. \A k \in Node : on(k) \in BOOLEAN
  OBVIOUS
<1>3. on(p) <=> infos[n][n] = p \/ infos[n][p] = n
  OBVIOUS
<1> HIDE DEF on
<1>4. t[p] = TRUE <=> on(p)
  BY <1>2
<1> HIDE DEF t, s
<1>5. c.on_tree = t
  BY DEF BloomStates, Books
<1> HIDE DEF c
<1> QED
  BY <1>1, <1>3, <1>4, <1>5

LEMMA RestTells ==
  ASSUME TypeInv, NEW n \in Node, BloomMaintenance(n, Turn(n)) = Turn(n), infos[n][n] # None
  PROVE  Rests(n)
<1> DEFINE r == Turn(n)
           b == BloomFix(n, r.b)
           t == [p \in Node |-> IF b.on_tree[p] = TRUE THEN BloomFor(n, b, p) ELSE b.send[p]]
           o == [p \in Node |-> IF p \in linked[n] THEN r.out[p] \o BloomFrames(n, b, p) ELSE r.out[p]]
           c == [b EXCEPT !.send = t]
           s == [r EXCEPT !.b = c, !.out = o]
<1>1. r \in Turns(Frame) /\ r.b = blooms[n] /\ r.b \in BloomStates
  BY TurnIs, TalkTurns DEF Turns
<1>2. b \in BloomStates /\ b.recv = r.b.recv
  BY <1>1, BloomFixType
<1>3. s = r
  BY DEF BloomMaintenance
<1>4. \A p \in Node : blooms[n].on_tree[p] # None =>
        (b.on_tree[p] = TRUE <=> infos[n][n] = p \/ infos[n][p] = n)
  <2> SUFFICES ASSUME NEW p \in Node, blooms[n].on_tree[p] # None
               PROVE  b.on_tree[p] = TRUE <=> infos[n][n] = p \/ infos[n][p] = n
    OBVIOUS
  <2> DEFINE a == r.b
  <2>1. a \in BloomStates /\ a.on_tree[p] # None
    BY <1>1
  <2> HIDE DEF a
  <2>2. BloomFix(n, a).on_tree[p] = TRUE <=> infos[n][n] = p \/ infos[n][p] = n
    BY <2>1, FixTells
  <2> QED
    BY <2>2 DEF a
<1> HIDE DEF r, b
<1>5. \A p \in Node : b.on_tree[p] = TRUE => t[p] = BloomFor(n, b, p)
  OBVIOUS
<1> HIDE DEF t, o
<1>6. c.send = t /\ c.recv = b.recv /\ c.on_tree = b.on_tree
  BY <1>2 DEF BloomStates, Books
<1> HIDE DEF c
<1>7. s.b = c
  BY <1>1 DEF Turns
<1> HIDE DEF s
<1>8. blooms[n].send = t /\ blooms[n].recv = b.recv /\ blooms[n].on_tree = b.on_tree
  BY <1>1, <1>3, <1>6, <1>7
<1>9. ASSUME NEW p \in Node, b.on_tree[p] = TRUE
      PROVE  /\ Bits(XOf[n]) \subseteq t[p]
             /\ \A q \in Node \ {p} : b.on_tree[q] = TRUE => b.recv[q] \subseteq t[p]
  <2> DEFINE Q == {k \in Node \ {p} : b.on_tree[k] = TRUE}
             W == {b.recv[k] : k \in Q}
             V == {Add({}, XOf[n]), b.send[p]} \cup W
  <2>1. t[p] = UNION V
    BY <1>5, <1>9 DEF BloomFor, Merge
  <2>2. Bits(XOf[n]) \in V
    BY DEF Add
  <2>3. \A q \in Node \ {p} : b.on_tree[q] = TRUE => b.recv[q] \in V
    OBVIOUS
  <2> HIDE DEF V
  <2> QED
    BY <2>1, <2>2, <2>3
<1> QED
  BY <1>4, <1>8, <1>9 DEF Rests

\* What has been read is held as it was recorded.
LEMMA QuietHolds ==
  ASSUME IInv, Quiet, NEW n \in Node, NEW p \in Node, p \in linked[n], blooms[n].on_tree[p] = TRUE
  PROVE  blooms[p].recv[n] = blooms[n].send[p]
<1>1. LastHeld(chan[n][p], blooms[p].recv[n]) = blooms[n].send[p]
  BY DEF IInv, BloomInv, LinkInv
<1>2. FilterAt(chan[n][p]) = {}
  <2>1. chan[n][p] = <<>>
    BY DEF Quiet
  <2> QED
    BY <2>1 DEF FilterAt
<1> QED
  BY <1>1, <1>2 DEF LastHeld

LEMMA RestFlows ==
  ASSUME IInv, KnownInv, Room, AtRest, NEW T \in [Node -> Node], OneTree(T),
         \A n \in Node : infos[n] = T,
         NEW n \in Node, NEW p \in Node, Tied(T, n, p)
  PROVE  /\ p \in Peers(n)
         /\ blooms[n].on_tree[p] = TRUE
         /\ blooms[p].recv[n] = blooms[n].send[p]
<1>1. p \in Peers(n)
  <2>1. CASE T[n] = p
    BY <2>1 DEF Tied, OneTree
  <2>2. CASE T[p] = n
    <3>1. n \in Peers(p)
      BY <2>2 DEF Tied, OneTree
    <3>2. {p, n} = {n, p}
      OBVIOUS
    <3> QED
      BY <3>1, <3>2 DEF Peers
  <2> QED
    BY <2>1, <2>2 DEF Tied
<1>2. p \in linked[n]
  BY <1>1 DEF AtRest
<1>3. blooms[n].on_tree[p] # None
  BY <1>2 DEF KnownInv, Known
<1>4. Rests(n)
  BY RestTells DEF AtRest, IInv
<1>5. blooms[n].on_tree[p] = TRUE
  BY <1>3, <1>4 DEF Rests, Tied
<1>6. blooms[p].recv[n] = blooms[n].send[p]
  BY <1>2, <1>5, QuietHolds DEF AtRest
<1> QED
  BY <1>1, <1>5, <1>6

LEMMA RestSettles ==
  ASSUME IInv, KnownInv, Room, AllOneTree
  PROVE  BloomsSettle
<1> SUFFICES ASSUME AtRest,
                    NEW n \in Node, NEW p \in TreePeers(infos[n], n)
             PROVE  /\ blooms[n].on_tree[p] = TRUE
                    /\ \A k \in Behind(infos[n], n, p) : Test(blooms[n].recv[p], XOf[k])
  BY DEF BloomsSettle
<1> DEFINE T == infos[n]
           R == [k \in Node |-> blooms[k].recv]
<1>1. \A k \in Node : infos[k] \in InfosType
  BY DEF IInv, TypeInv
<1>2. T \in [Node -> Node]
  <2>1. \A k \in Node : T[k] \in Node
    BY DEF AllOneTree, OneTree, Peers
  <2> QED
    BY <1>1, <2>1 DEF InfosType
<1>3. \A k \in Node : infos[k] = T
  <2> SUFFICES ASSUME NEW k \in Node
               PROVE  infos[k] = T
    OBVIOUS
  <2>1. \A j \in Node : infos[k][j] = T[j]
    BY DEF AtRest
  <2> QED
    BY <1>1, <2>1 DEF InfosType
<1>4. OneTree(T)
  BY DEF AllOneTree
<1> HIDE DEF T
<1>5. Rooted(T) /\ \A r, s \in Node : T[r] = r /\ T[s] = s => r = s
  BY <1>4 DEF OneTree, Rooted
<1>6. Flows(T, R)
  <2> SUFFICES ASSUME NEW m \in Node, NEW q \in Node, Tied(T, m, q)
               PROVE  /\ Bits(XOf[m]) \subseteq R[q][m]
                      /\ \A k \in Node : k # q /\ Tied(T, m, k) => R[m][k] \subseteq R[q][m]
    BY DEF Flows
  <2>1. blooms[m].on_tree[q] = TRUE /\ R[q][m] = blooms[m].send[q]
    BY <1>2, <1>3, <1>4, RestFlows
  <2>2. \A k \in Node : Tied(T, m, k) => blooms[m].on_tree[k] = TRUE
    BY <1>2, <1>3, <1>4, RestFlows
  <2>3. Rests(m)
    BY RestTells DEF AtRest, IInv
  <2>4. R[m] = blooms[m].recv
    OBVIOUS
  <2>5. TRUE # None
    BY RoutingAssumption
  <2> HIDE DEF R
  <2> QED
    BY <2>1, <2>2, <2>3, <2>4, <2>5 DEF Rests
<1>7. p \in Node /\ Tied(T, n, p)
  BY <1>3 DEF TreePeers, Peers, Tied
<1>8. blooms[n].on_tree[p] = TRUE
  BY <1>2, <1>3, <1>4, <1>7, RestFlows
<1>9. ASSUME NEW k \in Behind(T, n, p)
      PROVE  Test(blooms[n].recv[p], XOf[k])
  <2>1. R[n] = blooms[n].recv
    OBVIOUS
  <2> HIDE DEF R
  <2>2. Bits(XOf[k]) \subseteq R[n][p]
    BY <1>2, <1>5, <1>6, <1>7, FlowCovers
  <2> QED
    BY <2>1, <2>2 DEF Test
<1> QED
  BY <1>3, <1>8, <1>9

-----------------------------------------------------------------------------
(* Theorems *)

\* Frames, tables and filters keep their types and what belongs to them, and
\* every link carries what bloom_maintenance recorded as sent over it.
THEOREM Invariance == Spec => []IInv
BY InitHolds, NextKeeps, PTL DEF Spec

LEMMA FramesType ==
  ASSUME TypeInv
  PROVE  Frames \subseteq Frame
<1>1. \A n, p \in Node : Range(chan[n][p]) \subseteq Frame
  <2> SUFFICES ASSUME NEW n \in Node, NEW p \in Node
               PROVE  Range(chan[n][p]) \subseteq Frame
    OBVIOUS
  <2>1. chan[n][p] \in Seq(Frame)
    BY DEF TypeInv
  <2> HIDE DEF Frame
  <2> QED
    BY <2>1 DEF Range
<1> QED
  BY <1>1 DEF Frames

\* Greedy forwarding (greedy_next) makes no more hops than the frame set out
\* away from its destination: LoopFree for any tree, any infos and any number
\* of moves.
THEOREM NoLoops == Spec => []LoopFree
<1>1. IInv => LoopFree
  <2> SUFFICES ASSUME IInv, NEW f \in Frames, IsRouted(f), ~f.way.blind
               PROVE  f.way.hops + f.way.mark <= f.way.start
    BY DEF LoopFree
  <2>1. f \in Frame
    BY FramesType DEF IInv
  <2>2. Nearing(f.way)
    BY <2>1 DEF Frame, Talk, IsRouted, Lookups, Filters
  <2> QED
    BY <2>2 DEF Nearing
<1> QED
  BY <1>1, Invariance, PTL

\* A payload waits for, and travels to, the node that owns the address it was
\* sent to, whatever bits the address lacks (send_or_resolve, hold_for_lookup,
\* handle_notify).
THEOREM PayloadsToOwner == Spec => []ToOwner
<1>1. IInv => ToOwner
  <2> SUFFICES ASSUME IInv
               PROVE  ToOwner
    OBVIOUS
  <2>1. ASSUME NEW n \in Node, NEW x \in DOMAIN paths[n].rumors, paths[n].rumors[x].pending # None
        PROVE  XOf[paths[n].rumors[x].pending.to] = x
    <3>1. paths[n].rumors \in RumorTables
      BY DEF IInv, TypeInv, PathStates
    <3>2. Fits(x, paths[n].rumors[x])
      BY <3>1, TableOf
    <3> QED
      BY <2>1, <3>2 DEF Fits
  <2>2. ASSUME NEW f \in Frames, f.type = "Traffic"
        PROVE  f.dest = f.data.to
    <3>1. f \in Frame
      BY FramesType DEF IInv
    <3> QED
      BY <2>2, <3>1 DEF Frame, Talk, Lookups, Notifies, Brokens, Filters
  <2> QED
    BY <2>1, <2>2 DEF ToOwner
<1> QED
  BY <1>1, Invariance, PTL

\* What a router has recorded as sent is what its tree neighbour holds or
\* will read, through lost links, restarts and moves of the tree
\* (bloom_maintenance, bloom_add_peer, bloom_handle).
THEOREM FiltersDelivered == Spec => []BloomsDelivered
<1>1. IInv => BloomsDelivered
  BY LastBloomIs DEF IInv, BloomInv, LinkInv, BloomsDelivered
<1> QED
  BY <1>1, Invariance, PTL

\* No payload is ever in two places: held in a slot, on a link, delivered, at
\* whatever routers, for any number of payloads, lookups, notifies and nodes
\* (hold_for_lookup, handle_notify, pathfinder_send, handle_inbound_traffic).
THEOREM CopiedNever == Spec => []OneCopy
<1>1. CopyInv => OneCopy
  <2> SUFFICES ASSUME CopyInv, NEW id \in 1 .. sends
               PROVE  Cardinality(Held(id)) + Cardinality(Flying(id)) + Cardinality(Delivered(id)) <= 1
    BY DEF OneCopy
  <2>1. \A c \in Held(id) : \E n \in Node : \E x : c = <<n, x>> /\ Spot(paths, chan, got, n, "held", None, x, id)
    BY DEF Held, Spot, HeldAs
  <2>2. \A c \in Flying(id) : \E n, p \in Node : \E i :
          c = <<n, p, i>> /\ Spot(paths, chan, got, n, "fly", p, i, id)
    BY DEF Flying, Spot, Lies, Carries
  <2>3. \A c \in Delivered(id) : \E n \in Node : \E i :
          c = <<n, i>> /\ Spot(paths, chan, got, n, "got", None, i, id)
    BY DEF Delivered, Spot, Came
  <2>4. \A n1, n2 \in Node : \A q1, k1, a1, q2, k2, a2 :
          Spot(paths, chan, got, n1, q1, k1, a1, id) /\ Spot(paths, chan, got, n2, q2, k2, a2, id)
          => n1 = n2 /\ q1 = q2 /\ k1 = k2 /\ a1 = a2
    BY DEF CopyInv, OnlyOne
  <2> DEFINE H == Held(id)
             F == Flying(id)
             D == Delivered(id)
  <2>5. \A x, y \in H : x = y
    BY <2>1, <2>4
  <2>6. \A x, y \in F : x = y
    BY <2>2, <2>4
  <2>7. \A x, y \in D : x = y
    BY <2>3, <2>4
  <2>8. H = {} \/ F = {}
    BY <2>1, <2>2, <2>4
  <2>9. H = {} \/ D = {}
    BY <2>1, <2>3, <2>4
  <2>10. F = {} \/ D = {}
    BY <2>2, <2>3, <2>4
  <2> HIDE DEF H, F, D
  <2>11. /\ Cardinality(H) \in {0, 1} /\ Cardinality(F) \in {0, 1} /\ Cardinality(D) \in {0, 1}
         /\ H = {} => Cardinality(H) = 0
         /\ F = {} => Cardinality(F) = 0
         /\ D = {} => Cardinality(D) = 0
    BY <2>5, <2>6, <2>7, AtMostOne
  <2>12. Cardinality(H) + Cardinality(F) + Cardinality(D) <= 1
    BY <2>8, <2>9, <2>10, <2>11
  <2> QED
    BY <2>12 DEF H, F, D
<1>2. Spec => []CopyInv
  BY InitCopies, NextCopies, Invariance, PTL DEF Spec
<1> QED
  BY <1>1, <1>2, PTL

\* While the tree stands still no lookup passes a router twice, for any tree
\* and any number of routers: handle_lookup has multicast send it over tree
\* links only and never back, so that all it has passed lies on the side of the
\* link it came from.
THEOREM LookupsEnd == Spec => []LookupOnce
<1>1. LookupInv => LookupOnce
  <2> SUFFICES ASSUME LookupInv, moves = 0, NEW f \in Frames, f.type = "Lookup"
               PROVE  \A i, j \in DOMAIN f.trail : f.trail[i] = f.trail[j] => i = j
    BY DEF LookupOnce
  <2>1. PICK n \in Node, p \in Node : f \in Range(chan[n][p])
    BY DEF Frames
  <2>2. PICK i \in DOMAIN chan[n][p] : f = chan[n][p][i]
    BY <2>1 DEF Range
  <2>3. Passed(n, p, f)
    BY <2>2 DEF LookupInv, Standing, AllPassed
  <2> QED
    BY <2>3 DEF Passed, Once
<1>2. Spec => []LookupInv
  BY InitLookups, NextLookups, Invariance, PTL DEF Spec
<1> QED
  BY <1>1, <1>2, PTL

\* If the on-tree tables have room for all peers (bloom_add_peer tracks no more
\* than CAPACITY), then whenever nothing is left to do and the infos make one
\* tree, every filter covers all that lies behind its link: bloom_maintenance
\* has carried each key up to the root and down every other branch, whatever
\* links, restarts and moves came before.
THEOREM FiltersSettle == Room => (Spec => [](AllOneTree => BloomsSettle))
<1> SUFFICES ASSUME Room
             PROVE  Spec => [](AllOneTree => BloomsSettle)
  OBVIOUS
<1>1. IInv /\ KnownInv => (AllOneTree => BloomsSettle)
  BY RestSettles
<1>2. Spec => []KnownInv
  BY InitKnown, NextKnown, Invariance, PTL DEF Spec
<1> QED
  BY <1>1, <1>2, Invariance, PTL
=============================================================================
