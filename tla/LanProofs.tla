----------------------------- MODULE LanProofs ------------------------------
(***************************************************************************)
(* Theorems about discovery and the handshake, for every set of nodes,     *)
(* interfaces and configurations.                                          *)
(***************************************************************************)
EXTENDS Lan, FiniteSetTheorems, WellFoundedInduction, NaturalsInduction, TLAPS

-----------------------------------------------------------------------------
(* The inductive invariant *)

\* A listening socket, a datagram and a connection.
Socket == [node : Node, iface : Iface \cup {None}, addr : Nat, port : Nat]

Advert == [version : STRING, public_key : Node, port : Nat, hash : STRING \X Node]

Datagram == [adv : Advert, from : Nat, zone : Iface]

Connection ==
  [from : Node \cup {None}, form : {"meta", "junk", "cut", "silent"},
   uri : PeerUri \cup {None}, at : Socket, dial : {"wait", "up", "closed"},
   acc : {"queued", "wait", "up", "closed"}, dprio : Nat, aprio : Nat]

BindRequest == [iface : Iface, uri : [addr : Nat, port : Port \cup {0}]]

Types ==
  /\ world \in Worlds
  /\ addrs \in [Node -> [Iface -> SUBSET Address]]
  /\ pc \in [Node -> {"down", "off", "tick", "serve"}]
  /\ ifaces \in [Node -> [Iface -> IfaceState \cup {None}]]
  /\ socks \in [Node -> SUBSET Iface]
  /\ listening \in [Node -> [Iface -> Nat \cup {None}]]
  /\ listeners \in [Node -> [Iface -> Port \cup {None}]]
  /\ binds \in [Node -> SUBSET BindRequest]
  /\ inbox \in [Node -> [Iface -> SUBSET Datagram]]
  /\ bound \subseteq Socket
  /\ calls \in [Node -> SUBSET PeerUri]
  /\ conns \subseteq Connection
  /\ spoilt \in [Node -> BOOLEAN]

\* The password of the row that applies to an interface of a node.
Group(n, i) == ConfigFor(world.rows[n], i).password

\* An interface is configured with the password of its row, which can be
\* hashed.
CfgKept ==
  \A n \in Node, i \in Iface :
    ifaces[n][i] # None /\ ifaces[n][i].cfg # None =>
      ifaces[n][i].cfg.password = Group(n, i) /\ ~TooLong(Group(n, i))

\* A datagram carries its sender's group on the segment it was sent on.
HashKept ==
  \A m \in Node, i \in Iface : \A d \in inbox[m][i] :
    d.adv.hash = <<Group(d.adv.public_key, i), d.adv.public_key>>

\* A URI that n did not find in its configuration pins a node of n's group on
\* the segment the URI is for.
Fellow(n, u) ==
  u \notin world.peers[n] =>
    /\ u.zone \in Iface
    /\ u.pinned_key \in Node
    /\ Group(n, u.zone) = Group(u.pinned_key, u.zone)

CallsKept == \A n \in Node : \A u \in calls[n] : Fellow(n, u)

\* What a connection's ends are: a node dialled, or a stranger came, who never
\* gets in.
EndsKept(c) ==
  IF c.form = "meta"
  THEN /\ c.from \in Node
       /\ c.uri \in PeerUri
       /\ c.at.iface = c.uri.zone
       /\ Fellow(c.from, c.uri)
  ELSE c.dial = "closed" /\ c.acc # "up"

\* The dialling end reached the key it pinned, and each end that is up took
\* the priority of the URI.
VerdictKept(c) ==
  /\ c.dial = "up" => /\ c.uri.pinned_key \in {None, c.at.node}
                      /\ c.dprio = c.uri.priority
  /\ c.acc = "up" => c.aprio = c.uri.priority

ConnsKept == \A c \in conns : EndsKept(c) /\ VerdictKept(c)

\* The address of an interface of a node that nothing spoilt is one of those
\* it was started with.
AddrsKept ==
  \A n \in Node, i \in Iface :
    ~spoilt[n] => \A a \in addrs[n][i] : \E b \in world.addrs[n][i] : a.addr = b.addr

\* The port known for an interface is one its listener has, at the one address
\* of the interface.
Held(S, n, i, p) ==
  \A a \in world.addrs[n][i] : [node |-> n, iface |-> i, addr |-> a.addr, port |-> p] \in S

PortsKept ==
  \A n \in Node, i \in Iface :
    Steady(n, i) =>
      /\ listeners[n][i] # None => Held(bound, n, i, listeners[n][i])
      /\ ifaces[n][i] # None /\ ifaces[n][i].listener_port # None =>
           Held(bound, n, i, ifaces[n][i].listener_port)

IInv ==
  /\ Types /\ CfgKept /\ HashKept /\ CallsKept /\ ConnsKept
  /\ AddrsKept /\ PortsKept /\ BeaconsServed
-----------------------------------------------------------------------------
(* What the scan and the announce tick return *)

\* A nonempty set of naturals has a least member.
LEMMA LeastNat ==
  ASSUME NEW T \in SUBSET Nat, T # {}
  PROVE  \E x \in T : \A y \in T : x <= y
<1> DEFINE Lt == {ss \in Nat \X Nat : ss[1] < ss[2]}
<1>1. IsWellFoundedOn(Lt, Nat)
  BY NatLessThanWellFounded DEF OpToRel
<1>2. PICK x \in T : \A y \in T : ~(<<y, x>> \in Lt)
  BY <1>1, WFMin
<1>3. ASSUME NEW y \in T
      PROVE  x <= y
  <2>1. x \in Nat /\ y \in Nat
    OBVIOUS
  <2>2. ~(y < x)
    BY <1>2, <2>1
  <2> QED
    BY <2>1, <2>2
<1> QED
  BY <1>3

\* Min picks a member.
LEMMA MinIn ==
  ASSUME NEW T \in SUBSET Nat, T # {}
  PROVE  Min(T) \in T
BY LeastNat DEF Min

\* config_for returns a row of the configuration whose password can be hashed.
LEMMA ConfigForType ==
  ASSUME NEW rows \in Seq(ConfigRow), NEW i, ConfigFor(rows, i) # None
  PROVE  ConfigFor(rows, i) \in ConfigRow /\ ~TooLong(ConfigFor(rows, i).password)
<1> DEFINE fits == {k \in DOMAIN rows :
                      /\ rows[k].beacon \/ rows[k].listen
                      /\ i \in rows[k].matches
                      /\ ~TooLong(rows[k].password)}
<1>1. fits # {} /\ ConfigFor(rows, i) = rows[Min(fits)]
  BY DEF ConfigFor
<1>2. Min(fits) \in fits
  <2>1. fits \in SUBSET Nat
    OBVIOUS
  <2> QED
    BY <1>1, <2>1, MinIn
<1> QED
  BY <1>1, <1>2

\* The order of an interface's addresses has a first one.
LEMMA FirstAddressIn ==
  ASSUME NEW A \in SUBSET Address, A # {}
  PROVE  FirstAddress(A) \in A
<1> DEFINE U == {a \in A : a.unusable}
           B == IF U # {} THEN U ELSE A
           T == {a.addr : a \in B}
<1>1. T \in SUBSET Nat /\ T # {}
  BY DEF Address
<1>2. PICK x \in T : \A y \in T : x <= y
  <2> HIDE DEF T
  <2> QED
    BY <1>1, LeastNat
<1>3. PICK a \in B : a.addr = x
  OBVIOUS
<1>4. a \in A /\ \A b \in A : Precedes(a, b)
  <2>1. ASSUME NEW b \in A
        PROVE  Precedes(a, b)
    <3>1. CASE b \in B
      <4>1. a.unusable = b.unusable
        BY <3>1 DEF Address
      <4>2. a.addr <= b.addr
        BY <3>1, <1>2, <1>3
      <4> QED
        BY <4>1, <4>2 DEF Precedes
    <3>2. CASE b \notin B
      BY <3>2 DEF Precedes
    <3> QED
      BY <3>1, <3>2
  <2> QED
    BY <2>1
<1> QED
  BY <1>4 DEF FirstAddress

\* What is known of the configurations and the state.
LEMMA WorldFacts ==
  ASSUME Types
  PROVE  /\ world \in WorldType
         /\ \A n \in Node :
              /\ world.rows[n] \in Seq(ConfigRow)
              /\ world.peers[n] \in SUBSET PeerUri
              /\ world.listens[n] \in SUBSET Port
              /\ world.version[n] \in STRING
         /\ \A n \in Node, i \in Iface :
              world.addrs[n][i] \in SUBSET Address /\ IsFiniteSet(world.addrs[n][i])
<1>1. world \in WorldType
  BY LanAssumption DEF Types
<1>2. \A n \in Node, i \in Iface : IsFiniteSet(world.addrs[n][i])
  BY LanAssumption DEF Types
<1> QED
  BY <1>1, <1>2 DEF WorldType

\* A row of the scan has the row's password, which can be hashed.
LEMMA ScanFacts ==
  ASSUME Types, NEW n \in Node, NEW i \in Iface,
         ScanInterfaces(world.rows[n], addrs[n])[i] # None
  PROVE  /\ ScanInterfaces(world.rows[n], addrs[n])[i] \in InterfaceConfig
         /\ ScanInterfaces(world.rows[n], addrs[n])[i].password = Group(n, i)
         /\ ScanInterfaces(world.rows[n], addrs[n])[i].port \in Port \cup {0}
         /\ ~TooLong(Group(n, i))
<1> DEFINE row == ConfigFor(world.rows[n], i)
<1>1. row # None /\ addrs[n][i] # {}
  BY DEF ScanInterfaces
<1>2. row \in ConfigRow /\ ~TooLong(row.password)
  BY <1>1, WorldFacts, ConfigForType
<1>3. FirstAddress(addrs[n][i]) \in Address
  <2>1. addrs[n][i] \in SUBSET Address
    BY DEF Types
  <2> QED
    BY <1>1, <2>1, FirstAddressIn
<1>4. ScanInterfaces(world.rows[n], addrs[n])[i]
        = [link_local |-> FirstAddress(addrs[n][i]).addr,
           beacon |-> row.beacon, listen |-> row.listen, port |-> row.port,
           priority |-> row.priority, password |-> row.password]
  BY <1>1 DEF ScanInterfaces
<1>5. Port \subseteq Nat
  BY LanAssumption
<1>6. Group(n, i) = row.password
  BY DEF Group
<1>7. /\ row.beacon \in BOOLEAN /\ row.listen \in BOOLEAN
      /\ row.priority \in 0..255 /\ row.password \in STRING
  BY <1>2 DEF ConfigRow
<1>11. row.port \in Port \cup {0}
  BY <1>2 DEF ConfigRow
<1>8. FirstAddress(addrs[n][i]).addr \in Nat
  BY <1>3 DEF Address
<1> HIDE DEF row
<1>9. ScanInterfaces(world.rows[n], addrs[n])[i] \in InterfaceConfig
  <2> DEFINE F == FirstAddress(addrs[n][i]).addr
             P == row.port
  <2>1. F \in Nat /\ P \in Nat
    <3>1. F \in Nat
      BY <1>8
    <3>2. P \in Nat
      <4> HIDE DEF F
      <4>1. 0 \in Nat
        OBVIOUS
      <4> QED
        BY <1>5, <1>11, <4>1
    <3> QED
      BY <3>1, <3>2
  <2> HIDE DEF F, P
  <2>2. [link_local |-> F, beacon |-> row.beacon, listen |-> row.listen, port |-> P,
         priority |-> row.priority, password |-> row.password] \in InterfaceConfig
    BY <1>7, <2>1 DEF InterfaceConfig
  <2> QED
    BY <1>4, <2>2 DEF F, P
<1>10. /\ ScanInterfaces(world.rows[n], addrs[n])[i].password = row.password
       /\ ScanInterfaces(world.rows[n], addrs[n])[i].port = row.port
  BY <1>4
<1> QED
  BY <1>2, <1>6, <1>9, <1>10, <1>11

\* A second passes.
LEMMA AgedFacts ==
  ASSUME NEW st \in IfaceState
  PROVE  /\ Aged(st) \in IfaceState
         /\ Aged(st).cfg = st.cfg
         /\ Aged(st).listener_port = st.listener_port
<1>1. st.since # None => Min({st.since + 1, MAX_INTERVAL}) \in 0..MAX_INTERVAL
  <2> SUFFICES ASSUME st.since # None
               PROVE  Min({st.since + 1, MAX_INTERVAL}) \in 0..MAX_INTERVAL
    OBVIOUS
  <2> DEFINE T == {st.since + 1, MAX_INTERVAL}
  <2>1. st.since \in Nat /\ st.since <= MAX_INTERVAL /\ MAX_INTERVAL \in Nat
    BY IntervalAssumption DEF IfaceState
  <2>2. T \in SUBSET Nat /\ T # {}
    BY <2>1
  <2>3. \E x \in T : \A y \in T : x <= y
    BY <2>2, LeastNat
  <2>4. Min(T) \in T /\ \A y \in T : Min(T) <= y
    BY <2>3 DEF Min
  <2>5. Min(T) \in Nat /\ Min(T) <= MAX_INTERVAL
    BY <2>2, <2>4
  <2> QED
    BY <2>1, <2>5
<1> DEFINE m == Min({st.since + 1, MAX_INTERVAL})
<1> HIDE DEF m
<1>2. Aged(st) = [st EXCEPT !.since = IF @ = None THEN None ELSE m]
  BY DEF Aged, m
<1>3. st.since # None => m \in 0..MAX_INTERVAL
  BY <1>1 DEF m
<1> QED
  BY <1>2, <1>3 DEF IfaceState

\* Listeners are stopped.
LEMMA UnboundFacts ==
  ASSUME NEW st \in IfaceState
  PROVE  /\ Unbound(st) \in IfaceState
         /\ Unbound(st).cfg = st.cfg
         /\ Unbound(st).listener_port \in {st.listener_port, None}
<1>1. 0 \in 0..MAX_INTERVAL
  BY IntervalAssumption
<1>2. CASE ListenerStale(st)
  <2>1. Unbound(st) = [st EXCEPT !.listener_port = None, !.bind_addr = None,
                                 !.since = None, !.interval = 0]
    BY <1>2 DEF Unbound
  <2> QED
    BY <1>1, <2>1 DEF IfaceState
<1>3. CASE ~ListenerStale(st)
  BY <1>3 DEF Unbound
<1> QED
  BY <1>2, <1>3

\* One interface is announced.
LEMMA AnnouncedFacts ==
  ASSUME NEW st \in IfaceState
  PROVE  /\ Announced(st) \in IfaceState
         /\ Announced(st).cfg = st.cfg
         /\ Announced(st).listener_port = st.listener_port
<1>1. Asks(st) = "Bind" => st.cfg # None
  <2>1. st.cfg = None => Asks(st) = "nothing"
    BY DEF Asks
  <2> QED
    BY <2>1
<1>2. st.cfg # None => st.cfg \in InterfaceConfig
  BY DEF IfaceState
<1>3. st.cfg # None => st.cfg.link_local \in Nat /\ st.cfg.listen \in BOOLEAN
  BY <1>2 DEF InterfaceConfig
<1> DEFINE j == st.joined \/ (st.cfg # None /\ st.cfg.listen)
           b == IF Asks(st) = "Bind" THEN st.cfg.link_local ELSE st.bind_addr
           s == IF Asks(st) = "Beacon" THEN 0 ELSE st.since
           v == IF Asks(st) = "Beacon" /\ st.interval < MAX_INTERVAL THEN st.interval + 1
                ELSE st.interval
<1>4. j \in BOOLEAN
  OBVIOUS
<1>5. b \in Nat \cup {None}
  BY <1>1, <1>3 DEF IfaceState
<1>6. s \in 0..MAX_INTERVAL \cup {None} /\ v \in 0..MAX_INTERVAL
  BY IntervalAssumption DEF IfaceState
<1> HIDE DEF j, b, s, v
<1>7. Announced(st) = [st EXCEPT !.joined = j, !.bind_addr = b, !.since = s, !.interval = v]
  BY DEF Announced, j, b, s, v
<1> QED
  BY <1>4, <1>5, <1>6, <1>7 DEF IfaceState

\* What the tick of node n makes of an interface before it asks for anything.
Scan(n) == ScanInterfaces(world.rows[n], addrs[n])

Known(n) == SetInterfaces(Reported(n, Scan(n)), Scan(n))

Ready(n, i) == Unbound(Aged(Known(n)[i]))

\* Tick keeps the password of the row and, on a steady interface, a port the
\* listener has.
LEMMA ReadyFacts ==
  ASSUME IInv, NEW n \in Node, NEW i \in Iface, Known(n)[i] # None
  PROVE  /\ Ready(n, i) \in IfaceState
         /\ Ready(n, i).cfg # None =>
              /\ Ready(n, i).cfg.password = Group(n, i)
              /\ Ready(n, i).cfg.port \in Port \cup {0}
              /\ ~TooLong(Group(n, i))
         /\ Steady(n, i) /\ Ready(n, i).listener_port # None =>
              Held(bound, n, i, Ready(n, i).listener_port)
<1> USE DEF IInv
<1> DEFINE r == Reported(n, Scan(n))[i]
           old == ifaces[n][i]
           k == Known(n)[i]
<1>1. old \in IfaceState \cup {None} /\ listeners[n][i] \in Port \cup {None}
  BY DEF Types
<1>2. r = IF old # None /\ Scan(n)[i] # None /\ listeners[n][i] # None
          THEN [old EXCEPT !.listener_port = listeners[n][i]] ELSE old
  BY DEF Reported, ListenersUp
<1>3. k = IF Scan(n)[i] # None
          THEN [(IF r = None THEN NewIface ELSE r) EXCEPT !.cfg = Scan(n)[i]]
          ELSE IF r # None /\ r.bind_addr # None THEN [r EXCEPT !.cfg = None] ELSE None
  BY DEF Known, SetInterfaces
<1>4. Scan(n)[i] # None =>
        /\ Scan(n)[i] \in InterfaceConfig
        /\ Scan(n)[i].password = Group(n, i)
        /\ Scan(n)[i].port \in Port \cup {0}
        /\ ~TooLong(Group(n, i))
  BY ScanFacts DEF Scan
<1>5. NewIface \in IfaceState /\ NewIface.listener_port = None
  BY IntervalAssumption DEF NewIface, IfaceState
<1>6. r # None => /\ r \in IfaceState
                  /\ r.listener_port # None =>
                       \/ r.listener_port = listeners[n][i]
                       \/ old # None /\ r.listener_port = old.listener_port
  <2>1. CASE old # None /\ Scan(n)[i] # None /\ listeners[n][i] # None
    <3>1. listeners[n][i] \in Nat
      BY <1>1, <2>1, LanAssumption
    <3> QED
      BY <1>1, <1>2, <2>1, <3>1 DEF IfaceState
  <2>2. CASE ~(old # None /\ Scan(n)[i] # None /\ listeners[n][i] # None)
    BY <1>1, <1>2, <2>2
  <2> QED
    BY <2>1, <2>2
<1> DEFINE q == IF r = None THEN NewIface ELSE r
<1>7. q \in IfaceState /\ (q.listener_port # None => r # None /\ q.listener_port = r.listener_port)
  BY <1>5, <1>6
<1> HIDE DEF r, q
<1>8. /\ k \in IfaceState
      /\ k.cfg # None => Scan(n)[i] # None /\ k.cfg = Scan(n)[i]
      /\ k.listener_port # None => r # None /\ k.listener_port = r.listener_port
  <2>1. CASE Scan(n)[i] # None
    <3>1. k = [q EXCEPT !.cfg = Scan(n)[i]]
      BY <1>3, <2>1 DEF q
    <3> HIDE DEF k
    <3> QED
      BY <1>4, <1>7, <2>1, <3>1 DEF IfaceState
  <2>2. CASE Scan(n)[i] = None
    <3>1. r # None /\ k = [r EXCEPT !.cfg = None]
      BY <1>3, <2>2
    <3> HIDE DEF k
    <3> QED
      BY <1>6, <3>1 DEF IfaceState
  <2> QED
    BY <2>1, <2>2
<1> HIDE DEF k
<1>9. Ready(n, i) = Unbound(Aged(k))
  BY DEF Ready, k
<1>10. /\ Ready(n, i) \in IfaceState
       /\ Ready(n, i).cfg = k.cfg
       /\ Ready(n, i).listener_port \in {k.listener_port, None}
  BY <1>8, <1>9, AgedFacts, UnboundFacts
<1>11. k.listener_port # None /\ Steady(n, i) => Held(bound, n, i, k.listener_port)
  <2> SUFFICES ASSUME k.listener_port # None, Steady(n, i)
               PROVE  Held(bound, n, i, k.listener_port)
    OBVIOUS
  <2>1. CASE k.listener_port = listeners[n][i]
    BY <2>1 DEF PortsKept
  <2>2. CASE old # None /\ k.listener_port = old.listener_port
    BY <2>2 DEF PortsKept
  <2> QED
    BY <1>6, <1>8, <2>1, <2>2
<1> QED
  BY <1>4, <1>8, <1>10, <1>11

-----------------------------------------------------------------------------
(* The steps *)

\* A step that leaves the discovery state and the datagrams alone, closes no
\* socket and mends no node keeps what is said of them.
LEMMA BooksStay ==
  ASSUME IInv, UNCHANGED <<world, ifaces, listeners, inbox>>, bound \subseteq bound',
         \A n \in Node : spoilt[n] => spoilt'[n]
  PROVE  CfgKept' /\ HashKept' /\ PortsKept' /\ BeaconsServed'
<1>1. CfgKept'
  BY DEF IInv, CfgKept, Group
<1>2. HashKept'
  BY DEF IInv, HashKept, Group
<1>3. \A n \in Node, i \in Iface : Steady(n, i)' => Steady(n, i)
  BY DEF Steady
<1>4. \A n \in Node, i \in Iface, p \in Port \cup Nat : Held(bound, n, i, p) => Held(bound, n, i, p)'
  BY DEF Held
<1>5. PortsKept'
  <2> SUFFICES ASSUME NEW n \in Node, NEW i \in Iface, Steady(n, i)'
               PROVE  /\ listeners[n][i] # None => Held(bound, n, i, listeners[n][i])'
                      /\ ifaces[n][i] # None /\ ifaces[n][i].listener_port # None =>
                           Held(bound, n, i, ifaces[n][i].listener_port)'
    BY DEF PortsKept, Held
  <2>1. Steady(n, i)
    BY <1>3
  <2>2. listeners[n][i] # None => listeners[n][i] \in Port
    BY DEF IInv, Types
  <2>3. ifaces[n][i] # None /\ ifaces[n][i].listener_port # None =>
          ifaces[n][i].listener_port \in Nat
    BY DEF IInv, Types, IfaceState
  <2> QED
    BY <1>4, <2>1, <2>2, <2>3 DEF IInv, PortsKept
<1>6. BeaconsServed'
  <2> SUFFICES ASSUME NEW m \in Node, NEW i \in Iface, NEW d \in inbox[m][i],
                      Steady(d.adv.public_key, i)'
               PROVE  [node |-> d.adv.public_key, iface |-> i, addr |-> d.from,
                       port |-> d.adv.port] \in bound'
    BY DEF BeaconsServed
  <2>1. d.adv.public_key \in Node
    BY DEF IInv, Types, Datagram, Advert
  <2>2. Steady(d.adv.public_key, i)
    BY <1>3, <2>1
  <2> QED
    BY <2>2 DEF IInv, BeaconsServed
<1> QED
  BY <1>1, <1>2, <1>5, <1>6

\* So does a step that ends connections but makes and changes none.
LEMMA ConnsStay ==
  ASSUME IInv, UNCHANGED world, conns' \subseteq conns
  PROVE  conns' \subseteq Connection /\ ConnsKept'
<1>1. conns' \subseteq Connection
  BY DEF IInv, Types
<1>2. ASSUME NEW c \in conns
      PROVE  EndsKept(c)'
  BY DEF IInv, ConnsKept, EndsKept, Fellow, Group
<1> QED
  BY <1>1, <1>2 DEF IInv, ConnsKept, VerdictKept

LEMMA CallsStay ==
  ASSUME IInv, UNCHANGED <<world, calls>>
  PROVE  CallsKept'
BY DEF IInv, CallsKept, Fellow, Group

LEMMA AddrsStay ==
  ASSUME IInv, UNCHANGED <<world, addrs, spoilt>>
  PROVE  AddrsKept'
BY DEF IInv, AddrsKept

\* A connection changes.
LEMMA TurnKeeps ==
  ASSUME IInv, NEW c \in conns, NEW d \in Connection, Turn(c, d), UNCHANGED connRest,
         EndsKept(d), VerdictKept(d)
  PROVE  IInv'
<1>1. UNCHANGED <<world, addrs, pc, ifaces, socks, listening, published, listeners, binds,
                  inbox, bound, calls, spoilt>>
  BY DEF connRest, discVars
<1>2. \A e \in conns' : e \in conns \/ e = d
  BY DEF Turn
<1>3. Types'
  BY <1>1, <1>2 DEF IInv, Types
<1>4. ConnsKept'
  <2>1. ASSUME NEW e, EndsKept(e)
        PROVE  EndsKept(e)'
    BY <1>1, <2>1 DEF EndsKept, Fellow, Group
  <2>2. \A e \in conns' : EndsKept(e) /\ VerdictKept(e)
    BY <1>2 DEF IInv, ConnsKept
  <2> QED
    BY <2>1, <2>2 DEF ConnsKept, VerdictKept
<1>5. CfgKept' /\ HashKept' /\ PortsKept' /\ BeaconsServed'
  BY <1>1, BooksStay
<1>6. CallsKept' /\ AddrsKept'
  BY <1>1, CallsStay, AddrsStay
<1> QED
  BY <1>3, <1>4, <1>5, <1>6 DEF IInv

\* The ends agree on the higher of the two priorities, which is the URI's: a
\* node's own is none.
LEMMA MergedPriority ==
  ASSUME NEW u \in PeerUri, NEW n, NEW m
  PROVE  /\ u.priority \in Nat
         /\ MergeOpts(u, NodeOpts(n)).priority = u.priority
         /\ Higher(u.priority, 0) = u.priority
         /\ Higher(0, u.priority) = u.priority
BY DEF PeerUri, MergeOpts, NodeOpts, Higher

LEMMA AcceptKeeps ==
  ASSUME IInv, NEW c \in conns, Accept(c)
  PROVE  IInv'
<1> DEFINE v == IF c.at.iface # None /\ c.dial = "closed" /\ c.form = "meta"
                THEN "closed" ELSE "wait"
           d == [c EXCEPT !.acc = v]
<1>1. c \in Connection /\ EndsKept(c) /\ VerdictKept(c)
  BY DEF IInv, Types, ConnsKept
<1>2. v \in {"wait", "closed"}
  OBVIOUS
<1> HIDE DEF v
<1>3. d \in Connection /\ EndsKept(d) /\ VerdictKept(d)
  BY <1>1, <1>2 DEF Connection, EndsKept, VerdictKept
<1>4. Turn(c, d) /\ UNCHANGED connRest
  BY DEF Accept, v
<1> QED
  BY <1>3, <1>4, TurnKeeps

\* An end that is closed.
LEMMA ClosedFine ==
  ASSUME IInv, NEW c \in conns
  PROVE  /\ [c EXCEPT !.acc = "closed"] \in Connection
         /\ EndsKept([c EXCEPT !.acc = "closed"])
         /\ VerdictKept([c EXCEPT !.acc = "closed"])
         /\ [c EXCEPT !.dial = "closed"] \in Connection
         /\ EndsKept([c EXCEPT !.dial = "closed"])
         /\ VerdictKept([c EXCEPT !.dial = "closed"])
         /\ [c EXCEPT !.dial = "closed", !.acc = "closed"] \in Connection
         /\ EndsKept([c EXCEPT !.dial = "closed", !.acc = "closed"])
         /\ VerdictKept([c EXCEPT !.dial = "closed", !.acc = "closed"])
<1>1. c \in Connection /\ EndsKept(c) /\ VerdictKept(c)
  BY DEF IInv, Types, ConnsKept
<1> QED
  BY <1>1, ZenonT(60) DEF Connection, EndsKept, VerdictKept

\* complete_accept: only a whole meta is taken.
LEMMA AcceptorReadsKeeps ==
  ASSUME IInv, NEW c \in conns, AcceptorReads(c)
  PROVE  IInv'
<1> DEFINE theirs == DialMeta(c)
           opts == NodeOpts(c.at.node)
           d == [c EXCEPT !.acc = "up", !.aprio = LinkPriority(opts, theirs)]
<1>1. c \in Connection /\ EndsKept(c) /\ VerdictKept(c)
  BY DEF IInv, Types, ConnsKept
<1>2. UNCHANGED connRest
  BY DEF AcceptorReads
<1>3. CASE Turn(c, [c EXCEPT !.acc = "closed"])
  BY <1>2, <1>3, ClosedFine, TurnKeeps
<1>4. CASE /\ theirs.form # "silent"
           /\ RunHandshake(c.at.node, opts, theirs, TRUE) = "ok"
           /\ Turn(c, d)
  <2>1. c.form = "meta"
    <3>1. CASE c.form = "meta"
      BY <3>1
    <3>2. CASE c.form # "meta"
      <4>1. theirs = [form |-> c.form]
        BY <3>2 DEF DialMeta
      <4>2. theirs.form \in {"junk", "cut"}
        BY <1>1, <1>4, <3>2, <4>1 DEF Connection
      <4>3. Decode(theirs, opts.password) # "ok"
        BY <4>2 DEF Decode
      <4> QED
        BY <1>4, <4>3 DEF RunHandshake
    <3> QED
      BY <3>1, <3>2
  <2>2. c.uri \in PeerUri
    BY <1>1, <2>1 DEF EndsKept
  <2>3. theirs.priority = c.uri.priority /\ opts.priority = 0
    <3>1. theirs.priority = MergeOpts(c.uri, NodeOpts(c.from)).priority
      BY <2>1 DEF DialMeta, Meta
    <3> QED
      BY <2>2, <3>1, MergedPriority DEF NodeOpts
  <2>4. LinkPriority(opts, theirs) = c.uri.priority
    BY <2>2, <2>3, MergedPriority DEF LinkPriority
  <2>5. d = [c EXCEPT !.acc = "up", !.aprio = c.uri.priority] /\ c.uri.priority \in Nat
    BY <2>2, <2>4, MergedPriority
  <2>6. d \in Connection /\ EndsKept(d) /\ VerdictKept(d)
    <3> HIDE DEF d
    <3> QED
      BY <1>1, <2>1, <2>5 DEF Connection, EndsKept, VerdictKept
  <2> QED
    BY <1>2, <1>4, <2>6, TurnKeeps
<1> QED
  BY <1>3, <1>4 DEF AcceptorReads

\* complete_dial: the pinned key is the one that was reached.
LEMMA DialerReadsKeeps ==
  ASSUME IInv, NEW c \in conns, DialerReads(c)
  PROVE  IInv'
<1> DEFINE theirs == AcceptMeta(c)
           opts == MergeOpts(c.uri, NodeOpts(c.from))
           d == [c EXCEPT !.dial = "up", !.dprio = LinkPriority(opts, theirs)]
<1>1. c \in Connection /\ EndsKept(c) /\ VerdictKept(c) /\ c.dial = "wait"
  BY DEF IInv, Types, ConnsKept, DialerReads
<1>2. UNCHANGED connRest
  BY DEF DialerReads
<1>3. CASE Turn(c, [c EXCEPT !.dial = "closed"])
  BY <1>2, <1>3, ClosedFine, TurnKeeps
<1>4. CASE RunHandshake(c.from, opts, theirs, FALSE) = "ok" /\ Turn(c, d)
  <2>1. c.form = "meta" /\ c.uri \in PeerUri
    BY <1>1 DEF EndsKept
  <2>2. opts.pinned_key \in {None, theirs.public_key}
    <3>1. opts.pinned_key \notin {None, theirs.public_key} =>
            RunHandshake(c.from, opts, theirs, FALSE) # "ok"
      <4> HIDE DEF opts, theirs
      <4> QED
        BY DEF RunHandshake
    <3> QED
      BY <1>4, <3>1
  <2>3. theirs.public_key = c.at.node /\ theirs.priority = 0
    BY DEF AcceptMeta, Meta, NodeOpts
  <2>4. opts.pinned_key = c.uri.pinned_key
    BY DEF MergeOpts, NodeOpts
  <2>5. opts.priority = c.uri.priority /\ c.uri.priority \in Nat
    BY <2>1, MergedPriority
  <2>6. LinkPriority(opts, theirs) = c.uri.priority
    <3>1. LinkPriority(opts, theirs) = Higher(0, c.uri.priority)
      BY <2>3, <2>5 DEF LinkPriority
    <3> QED
      BY <2>1, <3>1, MergedPriority
  <2>7. d = [c EXCEPT !.dial = "up", !.dprio = c.uri.priority]
    BY <2>6
  <2>8. d \in Connection /\ EndsKept(d) /\ VerdictKept(d)
    <3> HIDE DEF d, opts, theirs
    <3> QED
      BY <1>1, <2>1, <2>2, <2>3, <2>4, <2>5, <2>7 DEF Connection, EndsKept, VerdictKept
  <2> QED
    BY <1>2, <1>4, <2>8, TurnKeeps
<1> QED
  BY <1>3, <1>4 DEF DialerReads

\* A timeout, the end of the stream and a link that dies close ends.
LEMMA ClosingKeeps ==
  ASSUME IInv, NEW c \in conns,
         AcceptorGivesUp(c) \/ DialerGivesUp(c) \/ Hangup(c) \/ LinkDies(c)
  PROVE  IInv'
<1>1. UNCHANGED connRest
  BY DEF AcceptorGivesUp, DialerGivesUp, Hangup, LinkDies
<1>2. \/ Turn(c, [c EXCEPT !.acc = "closed"])
      \/ Turn(c, [c EXCEPT !.dial = "closed"])
      \/ Turn(c, [c EXCEPT !.dial = "closed", !.acc = "closed"])
  BY DEF AcceptorGivesUp, DialerGivesUp, Hangup, LinkDies
<1> QED
  BY <1>1, <1>2, ClosedFine, TurnKeeps

\* A step that only adds connections keeps the invariant when they are fine.
LEMMA JoinKeeps ==
  ASSUME IInv, UNCHANGED <<world, addrs, pc, discVars, inbox, bound, spoilt>>,
         calls' \in [Node -> SUBSET PeerUri], CallsKept',
         NEW D, conns' = conns \cup D,
         \A d \in D : d \in Connection /\ EndsKept(d) /\ VerdictKept(d)
  PROVE  IInv'
<1>1. UNCHANGED <<world, addrs, pc, ifaces, socks, listening, published, listeners, binds,
                  inbox, bound, spoilt>>
  BY DEF discVars
<1>2. Types'
  BY <1>1 DEF IInv, Types
<1>3. ConnsKept'
  <2>1. ASSUME NEW e, EndsKept(e)
        PROVE  EndsKept(e)'
    BY <1>1, <2>1 DEF EndsKept, Fellow, Group
  <2>2. \A e \in conns' : EndsKept(e) /\ VerdictKept(e)
    BY DEF IInv, ConnsKept
  <2> QED
    BY <2>1, <2>2 DEF ConnsKept, VerdictKept
<1>4. CfgKept' /\ HashKept' /\ PortsKept' /\ BeaconsServed'
  BY <1>1, BooksStay
<1>5. AddrsKept'
  BY <1>1, AddrsStay
<1> QED
  BY <1>2, <1>3, <1>4, <1>5 DEF IInv

LEMMA StrangerKeeps ==
  ASSUME IInv, NEW l \in bound, NEW form \in {"junk", "cut", "silent"}, Stranger(l, form)
  PROVE  IInv'
<1> DEFINE d == [from |-> None, form |-> form, uri |-> None, at |-> l, dial |-> "closed",
                 acc |-> "queued", dprio |-> 0, aprio |-> 0]
<1>1. d \in Connection /\ EndsKept(d) /\ VerdictKept(d)
  BY DEF IInv, Types, Connection, EndsKept, VerdictKept
<1>2. /\ conns' = conns \cup {d}
      /\ UNCHANGED <<world, addrs, pc, discVars, inbox, bound, calls, spoilt>>
  BY DEF Stranger
<1>3. CallsKept' /\ calls' \in [Node -> SUBSET PeerUri]
  BY <1>2, CallsStay DEF IInv, Types
<1> DEFINE D == {d}
<1>4. conns' = conns \cup D /\ \A e \in D : e \in Connection /\ EndsKept(e) /\ VerdictKept(e)
  BY <1>1, <1>2
<1> HIDE DEF D
<1> QED
  BY <1>2, <1>3, <1>4, JoinKeeps

LEMMA ConnectKeeps ==
  ASSUME IInv, NEW n \in Node, NEW u \in calls[n], Connect(n, u)
  PROVE  IInv'
<1> DEFINE D == {Dialled(n, u, l) : l \in {x \in bound : Reaches(n, u, x)}}
<1>1. /\ conns' = conns \cup D
      /\ calls' = [calls EXCEPT ![n] = @ \ {u}]
      /\ UNCHANGED <<world, addrs, pc, discVars, inbox, bound, spoilt>>
  BY DEF Connect
<1>2. calls' \in [Node -> SUBSET PeerUri] /\ \A m \in Node : calls'[m] \subseteq calls[m]
  BY <1>1 DEF IInv, Types
<1>3. CallsKept'
  BY <1>1, <1>2 DEF IInv, CallsKept, Fellow, Group
<1>4. ASSUME NEW l \in bound, Reaches(n, u, l)
      PROVE  /\ Dialled(n, u, l) \in Connection
             /\ EndsKept(Dialled(n, u, l)) /\ VerdictKept(Dialled(n, u, l))
  <2>1. u \in PeerUri /\ Fellow(n, u) /\ l \in Socket
    BY DEF IInv, Types, CallsKept
  <2>2. l.iface = u.zone
    BY <1>4 DEF Reaches
  <2> QED
    BY <2>1, <2>2 DEF Dialled, Connection, EndsKept, VerdictKept
<1>5. \A d \in D : d \in Connection /\ EndsKept(d) /\ VerdictKept(d)
  BY <1>4
<1> HIDE DEF D
<1> QED
  BY <1>1, <1>2, <1>3, <1>5, JoinKeeps

LEMMA RedialKeeps ==
  ASSUME IInv, NEW n \in Node, NEW u \in world.peers[n], Redial(n, u)
  PROVE  IInv'
<1>1. /\ calls' = [calls EXCEPT ![n] = @ \cup {u}]
      /\ UNCHANGED <<world, addrs, pc, discVars, inbox, bound, conns, spoilt>>
  BY DEF Redial
<1>2. u \in PeerUri
  BY WorldFacts DEF IInv
<1>3. calls' \in [Node -> SUBSET PeerUri] /\ \A m \in Node : calls'[m] \subseteq calls[m] \cup {u}
  BY <1>1, <1>2 DEF IInv, Types
<1>4. CallsKept'
  <2> SUFFICES ASSUME NEW m \in Node, NEW v \in calls'[m]
               PROVE  Fellow(m, v)'
    BY DEF CallsKept
  <2>1. CASE v \in calls[m]
    BY <1>1, <2>1 DEF IInv, CallsKept, Fellow, Group
  <2>2. CASE v \notin calls[m]
    <3>1. m = n /\ v = u
      BY <1>1, <2>2 DEF IInv, Types
    <3> QED
      BY <1>1, <3>1 DEF Fellow
  <2> QED
    BY <2>1, <2>2
<1> DEFINE D == {}
<1>5. conns' = conns \cup D /\ \A d \in D : d \in Connection /\ EndsKept(d) /\ VerdictKept(d)
  BY <1>1
<1> HIDE DEF D
<1> QED
  BY <1>1, <1>3, <1>4, <1>5, JoinKeeps

LEMMA BootKeeps ==
  ASSUME IInv, NEW n \in Node, Boot(n)
  PROVE  IInv'
<1> DEFINE L == {[node |-> n, iface |-> None, addr |-> Addr(n, 0), port |-> p] :
                   p \in world.listens[n]}
<1>1. /\ bound' = bound \cup L
      /\ calls' = [calls EXCEPT ![n] = world.peers[n]]
      /\ UNCHANGED <<world, addrs, ifaces, socks, listening, published, listeners, binds,
                     inbox, conns, spoilt>>
      /\ pc' \in [Node -> {"down", "off", "tick", "serve"}]
  BY DEF Boot, discVars, IInv, Types
<1>2. L \subseteq Socket
  <2>1. Addr(n, 0) \in Nat
    BY LanAssumption DEF Addr
  <2>2. world.listens[n] \subseteq Nat
    BY WorldFacts, LanAssumption DEF IInv
  <2> QED
    BY <2>1, <2>2 DEF Socket
<1>3. world.peers[n] \in SUBSET PeerUri
  BY WorldFacts DEF IInv
<1> HIDE DEF L
<1>4. Types'
  BY <1>1, <1>2, <1>3 DEF IInv, Types
<1>5. CallsKept'
  BY <1>1 DEF IInv, Types, CallsKept, Fellow, Group
<1>6. CfgKept' /\ HashKept' /\ PortsKept' /\ BeaconsServed'
  BY <1>1, BooksStay
<1>7. ConnsKept' /\ AddrsKept'
  BY <1>1, ConnsStay, AddrsStay
<1> QED
  BY <1>4, <1>5, <1>6, <1>7 DEF IInv

\* What happens to the interfaces of a node.
LEMMA InterfaceKeeps ==
  ASSUME IInv, NEW n \in Node, NEW i \in Iface,
         Renumber(n, i) \/ Unplug(n, i) \/ Plug(n, i) \/ Settle(n, i)
  PROVE  IInv'
<1>1. /\ UNCHANGED <<world, pc, ifaces, socks, listening, published, listeners, binds, inbox,
                     bound, calls>>
      /\ conns' \subseteq conns
  BY DEF Renumber, Unplug, Plug, Settle, osRest, discVars, Without
<1>2. spoilt' \in [Node -> BOOLEAN] /\ \A m \in Node : spoilt[m] => spoilt'[m]
  BY DEF Renumber, Unplug, Plug, Settle, IInv, Types
<1>3. addrs' \in [Node -> [Iface -> SUBSET Address]]
  <2>0. addrs \in [Node -> [Iface -> SUBSET Address]]
    BY DEF IInv, Types
  <2>1. PICK A : addrs' = [addrs EXCEPT ![n][i] = A] /\ A \in SUBSET Address
    <3>1. CASE Renumber(n, i)
      <4>1. PICK k \in {1, 2} : addrs' = [addrs EXCEPT ![n][i] =
                                            {[addr |-> Addr(n, k), unusable |-> TRUE]}]
        BY <3>1 DEF Renumber
      <4>2. Addr(n, k) \in Nat
        BY LanAssumption DEF Addr
      <4>3. {[addr |-> Addr(n, k), unusable |-> TRUE]} \in SUBSET Address
        BY <4>2 DEF Address
      <4> QED
        BY <4>1, <4>3
    <3>2. CASE Unplug(n, i)
      <4>1. addrs' = [addrs EXCEPT ![n][i] = {}] /\ {} \in SUBSET Address
        BY <3>2 DEF Unplug
      <4> QED
        BY <4>1
    <3>3. CASE Plug(n, i)
      BY <3>3, WorldFacts DEF Plug, IInv
    <3>4. CASE Settle(n, i)
      <4>1. addrs' = [addrs EXCEPT ![n][i] = {[a EXCEPT !.unusable = FALSE] : a \in addrs[n][i]}]
        BY <2>0, <3>4 DEF Settle
      <4>2. ASSUME NEW a \in addrs[n][i]
            PROVE  [a EXCEPT !.unusable = FALSE] \in Address
        <5>1. a \in Address
          BY <2>0
        <5> QED
          BY <5>1 DEF Address
      <4>3. {[a EXCEPT !.unusable = FALSE] : a \in addrs[n][i]} \in SUBSET Address
        BY <4>2
      <4> QED
        BY <4>1, <4>3
    <3> QED
      BY <3>1, <3>2, <3>3, <3>4
  <2> QED
    BY <2>0, <2>1
<1>4. AddrsKept'
  <2> SUFFICES ASSUME NEW m \in Node, NEW j \in Iface, ~spoilt'[m], NEW a \in addrs'[m][j]
               PROVE  \E b \in world.addrs[m][j] : a.addr = b.addr
    BY <1>1 DEF AddrsKept
  <2>0. addrs \in [Node -> [Iface -> SUBSET Address]]
    BY DEF IInv, Types
  <2>1. ~spoilt[m]
    BY <1>2
  <2>2. CASE a \in addrs[m][j]
    BY <2>1, <2>2 DEF IInv, AddrsKept
  <2>3. CASE a \notin addrs[m][j]
    <3>1. CASE Renumber(n, i)
      <4>1. spoilt'[n]
        BY <3>1 DEF Renumber, IInv, Types
      <4>2. m # n
        BY <4>1
      <4> QED
        BY <2>0, <2>3, <3>1, <4>2 DEF Renumber
    <3>2. CASE Unplug(n, i)
      BY <2>0, <2>3, <3>2 DEF Unplug
    <3>3. CASE Plug(n, i)
      <4>1. m = n /\ j = i /\ a \in world.addrs[n][i]
        BY <2>0, <2>3, <3>3 DEF Plug
      <4> QED
        BY <4>1
    <3>4. CASE Settle(n, i)
      <4>1. m = n /\ j = i /\ \E b \in addrs[n][i] : a = [b EXCEPT !.unusable = FALSE]
        BY <2>0, <2>3, <3>4 DEF Settle
      <4>2. PICK b \in addrs[n][i] : a = [b EXCEPT !.unusable = FALSE]
        BY <4>1
      <4>3. a.addr = b.addr
        BY <2>0, <4>2 DEF Address
      <4> QED
        BY <2>1, <4>1, <4>3 DEF IInv, AddrsKept
    <3> QED
      BY <3>1, <3>2, <3>3, <3>4
  <2> QED
    BY <2>2, <2>3
<1>5. ConnsKept' /\ conns' \subseteq Connection
  BY <1>1, ConnsStay
<1>6. CfgKept' /\ HashKept' /\ PortsKept' /\ BeaconsServed'
  BY <1>1, <1>2, BooksStay
<1>7. CallsKept'
  BY <1>1, CallsStay
<1>8. Types'
  BY <1>1, <1>2, <1>3, <1>5 DEF IInv, Types
<1> QED
  BY <1>4, <1>5, <1>6, <1>7, <1>8 DEF IInv

\* A socket that a Bind leads to: on the interface, at an address it has, at a
\* port the system hands out.
LEMMA ListenerFacts ==
  ASSUME Types, NEW n \in Node, NEW b \in BindRequest, Binds(n, b)
  PROVE  /\ Listener(n, b) \in Socket
         /\ Listener(n, b).node = n
         /\ Listener(n, b).iface = b.iface
         /\ Listener(n, b).addr \in Usable(n, b.iface)
         /\ Listener(n, b).port \in Port
<1> DEFINE p == IF b.uri.port # 0 THEN b.uri.port ELSE Min(Free(n))
<1>1. b.iface \in Iface /\ b.uri.addr \in Nat /\ b.uri.port \in Port \cup {0}
  BY DEF BindRequest
<1>2. p \in Port
  <2>1. CASE b.uri.port # 0
    BY <1>1, <2>1
  <2>2. CASE b.uri.port = 0
    <3>1. Free(n) # {} /\ Free(n) \subseteq Port
      BY <2>2 DEF Binds, Free
    <3>2. Free(n) \in SUBSET Nat
      BY <3>1, LanAssumption
    <3>3. Min(Free(n)) \in Free(n)
      BY <3>1, <3>2, MinIn
    <3> QED
      BY <2>2, <3>1, <3>3
  <2> QED
    BY <2>1, <2>2
<1>3. p \in Nat
  BY <1>2, LanAssumption
<1> HIDE DEF p
<1>4. Listener(n, b) = [node |-> n, iface |-> b.iface, addr |-> b.uri.addr, port |-> p]
  BY DEF Listener, p
<1>5. b.uri.addr \in Usable(n, b.iface)
  BY DEF Binds
<1> QED
  BY <1>1, <1>2, <1>3, <1>4, <1>5 DEF Socket

\* A steady interface has one address.
LEMMA OneAddress ==
  ASSUME IInv, NEW n \in Node, NEW i \in Iface, Steady(n, i), NEW x \in Usable(n, i)
  PROVE  /\ \A a \in world.addrs[n][i] : a.addr = x
         /\ \E a \in world.addrs[n][i] : a.addr = x
<1>1. PICK y \in addrs[n][i] : y.addr = x
  BY DEF Usable
<1>2. PICK b \in world.addrs[n][i] : y.addr = b.addr
  BY DEF IInv, AddrsKept, Steady
<1>3. IsFiniteSet(world.addrs[n][i]) /\ Cardinality(world.addrs[n][i]) = 1
  BY WorldFacts DEF IInv, Steady
<1>4. \E a : world.addrs[n][i] = {a}
  BY <1>3, FS_Singleton
<1> QED
  BY <1>1, <1>2, <1>4

\* What a beacon of the node's own group asks to be dialled.
LEMMA ReceiveFacts ==
  ASSUME IInv, NEW n \in Node, NEW u \in Receive(n)
  PROVE  u \in PeerUri /\ Fellow(n, u)
<1>1. PICK i \in socks[n] : \E d \in inbox[n][i] :
        /\ Answers(n, ifaces[n][i], d.adv)
        /\ u = DialUri(ifaces[n][i].cfg, d.adv, d.from, i)
  BY DEF Receive
<1>2. PICK d \in inbox[n][i] : /\ Answers(n, ifaces[n][i], d.adv)
                               /\ u = DialUri(ifaces[n][i].cfg, d.adv, d.from, i)
  BY <1>1
<1>3. i \in Iface
  BY DEF IInv, Types
<1> DEFINE cfg == ifaces[n][i].cfg
           key == d.adv.public_key
<1>4. /\ ifaces[n][i] # None /\ cfg # None
      /\ MembershipHash(cfg.password, key) = d.adv.hash
  BY <1>2 DEF Answers
<1>5. ifaces[n][i] \in IfaceState
  BY <1>3, <1>4 DEF IInv, Types
<1>6. cfg \in InterfaceConfig
  BY <1>4, <1>5 DEF IfaceState
<1>7. d \in Datagram
  BY <1>3 DEF IInv, Types
<1>8. d.adv \in Advert /\ d.from \in Nat
  BY <1>7 DEF Datagram
<1>9. key \in Node /\ d.adv.port \in Nat /\ key \in Nat
  BY <1>8, LanAssumption DEF Advert
<1>10. cfg.password = Group(n, i) /\ ~TooLong(Group(n, i))
  BY <1>3, <1>4 DEF IInv, CfgKept
<1>11. d.adv.hash = <<Group(key, i), key>>
  BY <1>3 DEF IInv, HashKept
<1>12. MembershipHash(cfg.password, key) = <<Group(n, i), key>>
  BY <1>10 DEF MembershipHash, KeyedHash
<1>13. Group(n, i) = Group(key, i)
  BY <1>4, <1>11, <1>12
<1>14. u = [addr |-> d.from, port |-> d.adv.port, zone |-> i, pinned_key |-> key,
            password |-> cfg.password, priority |-> cfg.priority]
  BY <1>2 DEF DialUri
<1>15. cfg.password \in STRING /\ cfg.priority \in 0..255
  BY <1>6 DEF InterfaceConfig
<1> HIDE DEF cfg, key
<1>16. u \in PeerUri
  BY <1>3, <1>8, <1>9, <1>14, <1>15 DEF PeerUri
<1>17. u.zone = i /\ u.pinned_key = key
  BY <1>14
<1> QED
  BY <1>3, <1>9, <1>13, <1>16, <1>17 DEF Fellow

LEMMA ServeKeeps ==
  ASSUME IInv, NEW n \in Node, Serve(n)
  PROVE  IInv'
<1> DEFINE todo == {b \in binds[n] : listeners[n][b.iface] = None}
           done == {Listener(n, b) : b \in {b \in todo : Binds(n, b)}}
           at(i) == {l \in done : l.iface = i}
           the(i) == CHOOSE l \in at(i) : TRUE
<1>1. /\ bound' = bound \cup done
      /\ listeners' = [listeners EXCEPT ![n] =
           [i \in Iface |-> IF at(i) = {} THEN listeners[n][i] ELSE the(i).port]]
      /\ listening' = [listening EXCEPT ![n] =
           [i \in Iface |-> IF at(i) = {} THEN listening[n][i] ELSE the(i).addr]]
      /\ spoilt' = [spoilt EXCEPT ![n] = spoilt[n] \/ \E b \in todo : at(b.iface) = {}]
      /\ binds' = [binds EXCEPT ![n] = {}]
      /\ inbox' = [inbox EXCEPT ![n] = [i \in Iface |-> {}]]
      /\ calls' = [calls EXCEPT ![n] = calls[n] \cup {u \in Receive(n) : ~Busy(n, u)}]
      /\ UNCHANGED <<world, addrs, ifaces, socks, published, conns>>
  BY DEF Serve
<1>2. pc' \in [Node -> {"down", "off", "tick", "serve"}]
  BY DEF Serve, IInv, Types
<1>3. ASSUME NEW l \in done
      PROVE  /\ l \in Socket /\ l.node = n /\ l.iface \in Iface /\ l.port \in Port
             /\ l.addr \in Usable(n, l.iface)
  <2>1. PICK b \in todo : Binds(n, b) /\ l = Listener(n, b)
    OBVIOUS
  <2>2. b \in BindRequest
    BY DEF IInv, Types
  <2>3. b.iface \in Iface
    BY <2>2 DEF BindRequest
  <2> QED
    BY <2>1, <2>2, <2>3, ListenerFacts DEF IInv
<1> HIDE DEF done
<1>4. ASSUME NEW i, at(i) # {}
      PROVE  the(i) \in done /\ the(i).iface = i
  BY <1>4
<1> HIDE DEF at, the
<1>5. ASSUME NEW i \in Iface, at(i) # {}
      PROVE  the(i).port \in Port /\ the(i).addr \in Nat
  BY <1>3, <1>4, <1>5 DEF Socket
<1>6. listeners' \in [Node -> [Iface -> Port \cup {None}]]
  <2>1. [i \in Iface |-> IF at(i) = {} THEN listeners[n][i] ELSE the(i).port]
          \in [Iface -> Port \cup {None}]
    BY <1>5 DEF IInv, Types
  <2> QED
    BY <1>1, <2>1 DEF IInv, Types
<1>7. listening' \in [Node -> [Iface -> Nat \cup {None}]]
  <2>1. [i \in Iface |-> IF at(i) = {} THEN listening[n][i] ELSE the(i).addr]
          \in [Iface -> Nat \cup {None}]
    BY <1>5 DEF IInv, Types
  <2> QED
    BY <1>1, <2>1 DEF IInv, Types
<1>8. /\ spoilt' \in [Node -> BOOLEAN]
      /\ \A m \in Node : spoilt[m] => spoilt'[m]
  <2> DEFINE e == \E b \in todo : at(b.iface) = {}
  <2> HIDE DEF todo, e
  <2>1. spoilt' = [spoilt EXCEPT ![n] = spoilt[n] \/ e] /\ e \in BOOLEAN
    BY <1>1 DEF e
  <2> QED
    BY <2>1 DEF IInv, Types
<1>9. /\ inbox' \in [Node -> [Iface -> SUBSET Datagram]]
      /\ \A m \in Node, i \in Iface : inbox'[m][i] \subseteq inbox[m][i]
  BY <1>1 DEF IInv, Types
<1>10. calls' \in [Node -> SUBSET PeerUri]
  BY <1>1, ReceiveFacts DEF IInv, Types
<1>11. Types'
  <2>1. bound' \subseteq Socket
    BY <1>1, <1>3 DEF IInv, Types
  <2>2. binds' \in [Node -> SUBSET BindRequest]
    BY <1>1 DEF IInv, Types
  <2> QED
    BY <1>1, <1>2, <1>6, <1>7, <1>8, <1>9, <1>10, <2>1, <2>2 DEF IInv, Types
<1>12. CfgKept'
  BY <1>1 DEF IInv, CfgKept, Group
<1>13. HashKept'
  BY <1>1, <1>9 DEF IInv, HashKept, Group
<1>14. CallsKept'
  <2> SUFFICES ASSUME NEW m \in Node, NEW u \in calls'[m]
               PROVE  Fellow(m, u)'
    BY DEF CallsKept
  <2>1. Fellow(m, u)
    <3>1. CASE u \in calls[m]
      BY <3>1 DEF IInv, CallsKept
    <3>2. CASE u \notin calls[m]
      <4>1. m = n /\ u \in Receive(n)
        BY <1>1, <3>2 DEF IInv, Types
      <4> QED
        BY <4>1, ReceiveFacts
    <3> QED
      BY <3>1, <3>2
  <2> QED
    BY <1>1, <2>1 DEF Fellow, Group
<1>15. ConnsKept'
  BY <1>1, ConnsStay
<1>16. AddrsKept'
  BY <1>1, <1>8 DEF IInv, AddrsKept
<1>17. \A m \in Node, i \in Iface : Steady(m, i)' => Steady(m, i)
  BY <1>1, <1>8 DEF Steady
<1>18. PortsKept'
  <2> SUFFICES ASSUME NEW m \in Node, NEW i \in Iface, Steady(m, i)'
               PROVE  /\ listeners'[m][i] # None => Held(bound', m, i, listeners'[m][i])
                      /\ ifaces[m][i] # None /\ ifaces[m][i].listener_port # None =>
                           Held(bound', m, i, ifaces[m][i].listener_port)
    BY <1>1 DEF PortsKept, Held
  <2>1. Steady(m, i)
    BY <1>17
  <2>2. ASSUME NEW p, Held(bound, m, i, p)
        PROVE  Held(bound', m, i, p)
    BY <1>1, <2>2 DEF Held
  <2>3. ifaces[m][i] # None /\ ifaces[m][i].listener_port # None =>
          Held(bound', m, i, ifaces[m][i].listener_port)
    BY <2>1, <2>2 DEF IInv, PortsKept
  <2>4. CASE listeners'[m][i] = listeners[m][i]
    BY <2>1, <2>2, <2>3, <2>4 DEF IInv, PortsKept
  <2>5. CASE listeners'[m][i] # listeners[m][i]
    <3>1. m = n /\ at(i) # {} /\ listeners'[n][i] = the(i).port
      BY <1>1, <2>5 DEF IInv, Types
    <3>2. the(i) \in done /\ the(i).iface = i
      BY <1>4, <3>1
    <3>3. /\ the(i) \in Socket /\ the(i).node = n /\ the(i).addr \in Usable(n, i)
      BY <1>3, <3>2
    <3>4. \A a \in world.addrs[n][i] : a.addr = the(i).addr
      BY <2>1, <3>1, <3>3, OneAddress
    <3>5. the(i) = [node |-> n, iface |-> i, addr |-> the(i).addr, port |-> the(i).port]
      BY <3>2, <3>3 DEF Socket
    <3>6. Held(bound', n, i, the(i).port)
      BY <1>1, <3>2, <3>4, <3>5 DEF Held
    <3> QED
      BY <2>3, <3>1, <3>6
  <2> QED
    BY <2>4, <2>5
<1>19. BeaconsServed'
  <2> SUFFICES ASSUME NEW m \in Node, NEW i \in Iface, NEW d \in inbox'[m][i],
                      Steady(d.adv.public_key, i)'
               PROVE  [node |-> d.adv.public_key, iface |-> i, addr |-> d.from,
                       port |-> d.adv.port] \in bound'
    BY DEF BeaconsServed
  <2>1. d \in inbox[m][i]
    BY <1>9
  <2>2. d.adv.public_key \in Node
    BY <2>1 DEF IInv, Types, Datagram, Advert
  <2>3. Steady(d.adv.public_key, i)
    BY <1>17, <2>2
  <2> QED
    BY <1>1, <2>1, <2>3 DEF IInv, BeaconsServed
<1> QED
  BY <1>11, <1>12, <1>13, <1>14, <1>15, <1>16, <1>18, <1>19 DEF IInv

\* What send_beacon puts on the segment: the group of the row, and on a steady
\* interface a port the listener has.
LEMMA AdvertFacts ==
  ASSUME IInv, NEW n \in Node, NEW i \in Iface, Known(n)[i] # None,
         Asks(Ready(n, i)) = "Beacon"
  PROVE  /\ Advertisement(n, world.version[n], Ready(n, i)) \in Advert
         /\ Advertisement(n, world.version[n], Ready(n, i)).public_key = n
         /\ Advertisement(n, world.version[n], Ready(n, i)).hash = <<Group(n, i), n>>
         /\ Steady(n, i) =>
              Held(bound, n, i, Advertisement(n, world.version[n], Ready(n, i)).port)
<1> DEFINE st == Ready(n, i)
           h == MembershipHash(st.cfg.password, n)
<1>1. st \in IfaceState
  BY ReadyFacts
<1>2. st.cfg # None /\ st.listener_port # None
  BY DEF Asks
<1>3. st.listener_port \in Nat /\ st.cfg \in InterfaceConfig
  BY <1>1, <1>2 DEF IfaceState
<1>4. st.cfg.password = Group(n, i) /\ ~TooLong(Group(n, i))
  BY <1>2, ReadyFacts
<1>5. st.cfg.password \in STRING
  BY <1>3 DEF InterfaceConfig
<1>6. h = <<Group(n, i), n>>
  BY <1>4 DEF MembershipHash, KeyedHash
<1>7. h \in STRING \X Node
  BY <1>4, <1>5, <1>6
<1>8. world.version[n] \in STRING
  BY WorldFacts DEF IInv
<1>9. Advertisement(n, world.version[n], st)
        = [version |-> world.version[n], public_key |-> n, port |-> st.listener_port, hash |-> h]
  BY DEF Advertisement
<1>10. Steady(n, i) => Held(bound, n, i, st.listener_port)
  BY <1>2, ReadyFacts
<1> HIDE DEF st, h
<1>11. Advertisement(n, world.version[n], st) \in Advert
  BY <1>3, <1>7, <1>8, <1>9 DEF Advert
<1>12. /\ Advertisement(n, world.version[n], st).public_key = n
       /\ Advertisement(n, world.version[n], st).hash = h
       /\ Advertisement(n, world.version[n], st).port = st.listener_port
  BY <1>9
<1> QED
  BY <1>6, <1>10, <1>11, <1>12 DEF st

LEMMA TickKeeps ==
  ASSUME IInv, NEW n \in Node, Tick(n)
  PROVE  IInv'
<1> DEFINE K == {j \in Iface : Known(n)[j] # None}
           st == [i \in K |-> Ready(n, i)]
           stale == {i \in K : ListenerStale(Known(n)[i])}
           open == Rescan(Scan(n)) \ stale
           asks(w) == {i \in K : Asks(st[i]) = w}
           advs == [i \in asks("Beacon") \cap open |-> Advertisement(n, world.version[n], st[i])]
<1>1. /\ ifaces' = [ifaces EXCEPT ![n] =
                      [i \in Iface |-> IF i \in K THEN Announced(st[i]) ELSE None]]
      /\ socks' = [socks EXCEPT ![n] = open]
      /\ listening' = [listening EXCEPT ![n] =
                         [i \in Iface |-> IF i \in stale THEN None ELSE listening[n][i]]]
      /\ binds' = [binds EXCEPT ![n] = {Bind(i, st[i].cfg) : i \in asks("Bind")}]
      /\ Beacons(n, open, advs)
      /\ UNCHANGED <<world, addrs, listeners, bound, calls, conns, spoilt>>
  <2>1. UNCHANGED <<world, addrs, listeners, bound, calls, conns, spoilt>>
    BY DEF Tick
  <2> DEFINE S(z, k, t) ==
        LET old  == {i \in DOMAIN t : ListenerStale(k[i])}
            up   == Rescan(z) \ old
            A(w) == {i \in DOMAIN t : Asks(t[i]) = w}
        IN  /\ ifaces' = [ifaces EXCEPT ![n] =
                            [i \in Iface |-> IF i \in DOMAIN t THEN Announced(t[i]) ELSE None]]
            /\ socks' = [socks EXCEPT ![n] = up]
            /\ listening' = [listening EXCEPT ![n] =
                               [i \in Iface |-> IF i \in old THEN None ELSE listening[n][i]]]
            /\ published' = [published EXCEPT ![n] = Publish(z, listening'[n])]
            /\ binds' = [binds EXCEPT ![n] = {Bind(i, t[i].cfg) : i \in A("Bind")}]
            /\ Beacons(n, up, [i \in A("Beacon") \cap up |->
                                  Advertisement(n, world.version[n], t[i])])
  <2>2. \E z \in {Scan(n)} :
        \E k \in {SetInterfaces(Reported(n, z), z)} :
        \E t \in {[i \in {j \in Iface : k[j] # None} |-> Unbound(Aged(k[i]))]} : S(z, k, t)
    BY DEF Tick, Scan
  <2>3. S(Scan(n), Known(n), st)
    <3> HIDE DEF S
    <3>1. \E k \in {Known(n)} :
          \E t \in {[i \in {j \in Iface : k[j] # None} |-> Unbound(Aged(k[i]))]} :
            S(Scan(n), k, t)
      BY <2>2 DEF Known
    <3>2. \E t \in {[i \in {j \in Iface : Known(n)[j] # None} |-> Unbound(Aged(Known(n)[i]))]} :
            S(Scan(n), Known(n), t)
      BY <3>1
    <3>3. st = [i \in {j \in Iface : Known(n)[j] # None} |-> Unbound(Aged(Known(n)[i]))]
      BY DEF Ready
    <3> QED
      BY <3>2, <3>3
  <2>4. DOMAIN st = K
    OBVIOUS
  <2> HIDE DEF st, K
  <2> QED
    BY <2>1, <2>3, <2>4
<1>2. pc' \in [Node -> {"down", "off", "tick", "serve"}]
  BY DEF Tick, IInv, Types
<1>3. ASSUME NEW i \in K
      PROVE  /\ st[i] = Ready(n, i)
             /\ st[i] \in IfaceState
             /\ Announced(st[i]) \in IfaceState
             /\ Announced(st[i]).cfg = st[i].cfg
             /\ Announced(st[i]).listener_port = st[i].listener_port
             /\ st[i].cfg # None =>
                  st[i].cfg.password = Group(n, i) /\ ~TooLong(Group(n, i))
                  /\ st[i].cfg.port \in Port \cup {0}
             /\ Steady(n, i) /\ st[i].listener_port # None =>
                  Held(bound, n, i, st[i].listener_port)
  <2>1. st[i] = Ready(n, i) /\ Known(n)[i] # None /\ i \in Iface
    OBVIOUS
  <2> HIDE DEF st, K
  <2>2. st[i] \in IfaceState
    BY <2>1, ReadyFacts
  <2> QED
    BY <2>1, <2>2, ReadyFacts, AnnouncedFacts
<1>4. open \subseteq Iface
  BY DEF Rescan
<1>5. ASSUME NEW i \in asks("Beacon")
      PROVE  /\ i \in Iface /\ i \in K
             /\ Advertisement(n, world.version[n], st[i]) \in Advert
             /\ Advertisement(n, world.version[n], st[i]).public_key = n
             /\ Advertisement(n, world.version[n], st[i]).hash = <<Group(n, i), n>>
             /\ Steady(n, i) =>
                  Held(bound, n, i, Advertisement(n, world.version[n], st[i]).port)
  <2>1. i \in K /\ i \in Iface /\ Known(n)[i] # None /\ Asks(st[i]) = "Beacon"
    OBVIOUS
  <2>2. st[i] = Ready(n, i)
    BY <2>1, <1>3
  <2> HIDE DEF st, K
  <2> QED
    BY <2>1, <2>2, AdvertFacts
<1>6. ASSUME NEW i \in asks("Bind")
      PROVE  Bind(i, st[i].cfg) \in BindRequest
  <2>1. i \in K /\ i \in Iface /\ Asks(st[i]) = "Bind"
    OBVIOUS
  <2>2. st[i].cfg # None
    <3> HIDE DEF st
    <3> QED
      BY <2>1 DEF Asks
  <2>3. st[i].cfg \in InterfaceConfig /\ st[i].cfg.port \in Port \cup {0}
    <3>1. st[i] \in IfaceState
      BY <2>1, <1>3
    <3> HIDE DEF st
    <3> QED
      BY <1>3, <2>1, <2>2, <3>1 DEF IfaceState
  <2>4. st[i].cfg.link_local \in Nat
    <3> HIDE DEF st
    <3> QED
      BY <2>3 DEF InterfaceConfig
  <2> HIDE DEF st
  <2> QED
    BY <2>1, <2>3, <2>4 DEF Bind, ListenUri, BindRequest
<1>7. PICK from \in [DOMAIN advs -> {None} \cup UNION {Usable(n, i) : i \in DOMAIN advs}],
             lost \in SUBSET Node :
          /\ \A i \in DOMAIN advs :
               from[i] \in IF Usable(n, i) = {} THEN {None} ELSE Usable(n, i)
          /\ inbox' = [m \in Node |-> [i \in Iface |->
               IF i \notin (IF m = n THEN open ELSE socks[m]) THEN {}
               ELSE inbox[m][i] \cup
                      {[adv |-> advs[j], from |-> from[j], zone |-> j] :
                         j \in {k \in {x \in DOMAIN advs : from[x] # None} :
                                  k = i /\ m \notin lost}}]]
  <2> HIDE DEF K, st, stale, open, asks, advs
  <2> DEFINE In(from, lost) ==
          [m \in Node |-> [i \in Iface |->
               IF i \notin (IF m = n THEN open ELSE socks[m]) THEN {}
               ELSE inbox[m][i] \cup
                      {[adv |-> advs[j], from |-> from[j], zone |-> j] :
                         j \in {k \in {x \in DOMAIN advs : from[x] # None} :
                                  k = i /\ m \notin lost}}]]
  <2>1. PICK from \in [DOMAIN advs -> {None} \cup UNION {Usable(n, i) : i \in DOMAIN advs}] :
            /\ \A i \in DOMAIN advs :
                 from[i] \in IF Usable(n, i) = {} THEN {None} ELSE Usable(n, i)
            /\ \E lost \in SUBSET (IF {x \in DOMAIN advs : from[x] # None} = {} THEN {} ELSE Node) :
                 inbox' = In(from, lost)
    BY <1>1 DEF Beacons
  <2> HIDE DEF In
  <2>2. PICK lost \in SUBSET Node : inbox' = In(from, lost)
    BY <2>1
  <2> QED
    BY <2>1, <2>2 DEF In
<1>8. \A m \in Node, i \in Iface : \A d \in inbox'[m][i] :
        \/ d \in inbox[m][i]
        \/ /\ i \in asks("Beacon")
           /\ \E x \in Usable(n, i) :
                d = [adv |-> Advertisement(n, world.version[n], st[i]), from |-> x, zone |-> i]
  <2> HIDE DEF K, st, stale, open, asks
  <2> SUFFICES ASSUME NEW m \in Node, NEW i \in Iface, NEW d \in inbox'[m][i],
                      d \notin inbox[m][i]
               PROVE  /\ i \in asks("Beacon")
                      /\ \E x \in Usable(n, i) :
                           d = [adv |-> Advertisement(n, world.version[n], st[i]),
                                from |-> x, zone |-> i]
    OBVIOUS
  <2>2. i \in DOMAIN advs /\ from[i] # None /\ d = [adv |-> advs[i], from |-> from[i], zone |-> i]
    <3> HIDE DEF advs
    <3> QED
      BY <1>7
  <2>3. i \in asks("Beacon") /\ advs[i] = Advertisement(n, world.version[n], st[i])
    BY <2>2
  <2>4. from[i] \in Usable(n, i)
    <3> HIDE DEF advs
    <3> QED
      BY <1>7, <2>2
  <2> QED
    BY <2>2, <2>3, <2>4
<1>9. inbox' \in [Node -> [Iface -> SUBSET Datagram]]
  <2>1. inbox' = [m \in Node |-> [i \in Iface |-> inbox'[m][i]]]
    <3> HIDE DEF K, st, stale, open, asks, advs
    <3> QED
      BY <1>7
  <2>2. ASSUME NEW m \in Node, NEW i \in Iface, NEW d \in inbox'[m][i]
        PROVE  d \in Datagram
    <3>1. CASE d \in inbox[m][i]
      BY <3>1 DEF IInv, Types
    <3>2. CASE /\ i \in asks("Beacon")
               /\ \E x \in Usable(n, i) :
                    d = [adv |-> Advertisement(n, world.version[n], st[i]), from |-> x, zone |-> i]
      <4>1. PICK x \in Usable(n, i) :
              d = [adv |-> Advertisement(n, world.version[n], st[i]), from |-> x, zone |-> i]
        BY <3>2
      <4>2. x \in Nat
        BY DEF Usable, IInv, Types, Address
      <4>3. Advertisement(n, world.version[n], st[i]) \in Advert
        BY <1>5, <3>2
      <4> HIDE DEF st
      <4> QED
        BY <4>1, <4>2, <4>3 DEF Datagram
    <3> QED
      BY <1>8, <3>1, <3>2
  <2> HIDE DEF K, st, stale, open, asks, advs
  <2>3. \A m \in Node, i \in Iface : inbox'[m][i] \in SUBSET Datagram
    BY <2>2
  <2> QED
    BY <2>1, <2>3
<1>10. ifaces' \in [Node -> [Iface -> IfaceState \cup {None}]]
  <2>1. [i \in Iface |-> IF i \in K THEN Announced(st[i]) ELSE None]
          \in [Iface -> IfaceState \cup {None}]
    <3> HIDE DEF K, st
    <3> QED
      BY <1>3
  <2> QED
    BY <1>1, <2>1 DEF IInv, Types
<1>11. listening' \in [Node -> [Iface -> Nat \cup {None}]]
  <2>1. [i \in Iface |-> IF i \in stale THEN None ELSE listening[n][i]]
          \in [Iface -> Nat \cup {None}]
    <3> HIDE DEF stale
    <3>1. listening[n] \in [Iface -> Nat \cup {None}]
      BY DEF IInv, Types
    <3> QED
      BY <3>1
  <2> QED
    BY <1>1, <2>1 DEF IInv, Types
<1>12. binds' \in [Node -> SUBSET BindRequest]
  <2>1. {Bind(i, st[i].cfg) : i \in asks("Bind")} \in SUBSET BindRequest
    BY <1>6
  <2> QED
    BY <1>1, <2>1 DEF IInv, Types
<1>13. socks' \in [Node -> SUBSET Iface]
  BY <1>1, <1>4 DEF IInv, Types
<1> HIDE DEF st, stale, open, asks, advs
<1>14. Types'
  BY <1>1, <1>2, <1>9, <1>10, <1>11, <1>12, <1>13 DEF IInv, Types
<1>15. \A m \in Node, i \in Iface :
         IF m = n
         THEN ifaces'[m][i] = IF i \in K THEN Announced(st[i]) ELSE None
         ELSE ifaces'[m][i] = ifaces[m][i]
  BY <1>1 DEF IInv, Types
<1>16. CfgKept'
  <2> SUFFICES ASSUME NEW m \in Node, NEW i \in Iface,
                      ifaces'[m][i] # None, ifaces'[m][i].cfg # None
               PROVE  ifaces'[m][i].cfg.password = Group(m, i) /\ ~TooLong(Group(m, i))
    BY <1>1 DEF CfgKept, Group
  <2>1. CASE m = n
    <3>1. i \in K /\ ifaces'[m][i] = Announced(st[i])
      BY <1>15, <2>1
    <3> QED
      BY <1>3, <2>1, <3>1
  <2>2. CASE m # n
    BY <1>15, <2>2 DEF IInv, CfgKept
  <2> QED
    BY <2>1, <2>2
<1>17. HashKept'
  <2> SUFFICES ASSUME NEW m \in Node, NEW i \in Iface, NEW d \in inbox'[m][i]
               PROVE  d.adv.hash = <<Group(d.adv.public_key, i), d.adv.public_key>>
    BY <1>1 DEF HashKept, Group
  <2>1. CASE d \in inbox[m][i]
    BY <2>1 DEF IInv, HashKept
  <2>2. CASE d \notin inbox[m][i]
    <3>1. i \in asks("Beacon") /\ d.adv = Advertisement(n, world.version[n], st[i])
      BY <1>8, <2>2
    <3> QED
      BY <1>5, <3>1
  <2> QED
    BY <2>1, <2>2
<1>18. \A m \in Node, i \in Iface : Steady(m, i)' = Steady(m, i)
  BY <1>1 DEF Steady
<1>19. PortsKept'
  <2> SUFFICES ASSUME NEW m \in Node, NEW i \in Iface, Steady(m, i)
               PROVE  /\ listeners[m][i] # None => Held(bound, m, i, listeners[m][i])
                      /\ ifaces'[m][i] # None /\ ifaces'[m][i].listener_port # None =>
                           Held(bound, m, i, ifaces'[m][i].listener_port)
    BY <1>1, <1>18 DEF PortsKept, Held
  <2>1. listeners[m][i] # None => Held(bound, m, i, listeners[m][i])
    BY DEF IInv, PortsKept
  <2>2. CASE m = n
    <3>1. CASE i \in K
      <4>1. ifaces'[m][i].listener_port = st[i].listener_port
        BY <1>3, <1>15, <2>2, <3>1
      <4> QED
        BY <1>3, <2>1, <2>2, <3>1, <4>1
    <3>2. CASE i \notin K
      BY <1>15, <2>1, <2>2, <3>2
    <3> QED
      BY <3>1, <3>2
  <2>3. CASE m # n
    BY <1>15, <2>3 DEF IInv, PortsKept
  <2> QED
    BY <2>2, <2>3
<1>20. BeaconsServed'
  <2> SUFFICES ASSUME NEW m \in Node, NEW i \in Iface, NEW d \in inbox'[m][i],
                      Steady(d.adv.public_key, i)'
               PROVE  [node |-> d.adv.public_key, iface |-> i, addr |-> d.from,
                       port |-> d.adv.port] \in bound
    BY <1>1 DEF BeaconsServed
  <2>0. d.adv.public_key \in Node
    BY <1>9 DEF Datagram, Advert
  <2>1. Steady(d.adv.public_key, i)
    BY <1>18, <2>0
  <2>2. CASE d \in inbox[m][i]
    BY <2>1, <2>2 DEF IInv, BeaconsServed
  <2>3. CASE d \notin inbox[m][i]
    <3>1. PICK x \in Usable(n, i) :
            d = [adv |-> Advertisement(n, world.version[n], st[i]), from |-> x, zone |-> i]
      BY <1>8, <2>3
    <3>2. i \in asks("Beacon")
      BY <1>8, <2>3
    <3>3. d.from = x /\ d.adv = Advertisement(n, world.version[n], st[i])
      BY <3>1
    <3>4. d.adv.public_key = n
      BY <1>5, <3>2, <3>3
    <3>5. Held(bound, n, i, d.adv.port)
      BY <1>5, <2>1, <3>2, <3>3, <3>4
    <3>6. PICK a \in world.addrs[n][i] : a.addr = x
      BY <2>1, <3>4, OneAddress
    <3> QED
      BY <3>3, <3>4, <3>5, <3>6 DEF Held
  <2> QED
    BY <2>2, <2>3
<1>21. CallsKept' /\ ConnsKept' /\ AddrsKept'
  BY <1>1, CallsStay, ConnsStay, AddrsStay
<1> QED
  BY <1>14, <1>16, <1>17, <1>19, <1>20, <1>21 DEF IInv

-----------------------------------------------------------------------------
(* The theorems *)

LEMMA InitIInv == Init => IInv
<1> SUFFICES ASSUME Init
             PROVE  IInv
  OBVIOUS
<1> USE DEF Init
<1>1. world \in WorldType
  BY LanAssumption
<1>2. addrs \in [Node -> [Iface -> SUBSET Address]]
  BY <1>1 DEF WorldType
<1>3. Types
  BY <1>2 DEF Types
<1>4. CfgKept /\ HashKept /\ CallsKept /\ ConnsKept
  BY DEF CfgKept, HashKept, CallsKept, ConnsKept
<1>5. AddrsKept
  BY DEF AddrsKept
<1>6. PortsKept /\ BeaconsServed
  BY DEF PortsKept, BeaconsServed
<1> QED
  BY <1>3, <1>4, <1>5, <1>6 DEF IInv

LEMMA NextIInv == IInv /\ [Next]_vars => IInv'
<1> SUFFICES ASSUME IInv, [Next]_vars
             PROVE  IInv'
  OBVIOUS
<1>1. ASSUME NEW n \in Node, Boot(n)
      PROVE  IInv'
  BY <1>1, BootKeeps
<1>2. ASSUME NEW n \in Node, Tick(n)
      PROVE  IInv'
  BY <1>2, TickKeeps
<1>3. ASSUME NEW n \in Node, Serve(n)
      PROVE  IInv'
  BY <1>3, ServeKeeps
<1>4. ASSUME NEW n \in Node, NEW u \in world.peers[n], Redial(n, u)
      PROVE  IInv'
  BY <1>4, RedialKeeps
<1>5. ASSUME NEW n \in Node, NEW u \in calls[n], Connect(n, u)
      PROVE  IInv'
  BY <1>5, ConnectKeeps
<1>6. ASSUME NEW n \in Node, NEW i \in Iface,
             Renumber(n, i) \/ Unplug(n, i) \/ Plug(n, i) \/ Settle(n, i)
      PROVE  IInv'
  BY <1>6, InterfaceKeeps
<1>7. ASSUME NEW l \in bound, NEW form \in {"junk", "cut", "silent"}, Stranger(l, form)
      PROVE  IInv'
  BY <1>7, StrangerKeeps
<1>8. ASSUME NEW c \in conns,
             \/ Accept(c) \/ AcceptorReads(c) \/ DialerReads(c) \/ AcceptorGivesUp(c)
             \/ DialerGivesUp(c) \/ Hangup(c) \/ LinkDies(c)
      PROVE  IInv'
  BY <1>8, AcceptKeeps, AcceptorReadsKeeps, DialerReadsKeeps, ClosingKeeps
<1>9. CASE UNCHANGED vars
  <2>1. UNCHANGED <<world, addrs, pc, discVars, inbox, bound, calls, conns, spoilt>>
    BY <1>9 DEF vars, discVars
  <2>2. calls' \in [Node -> SUBSET PeerUri] /\ CallsKept'
    BY <2>1, CallsStay DEF IInv, Types
  <2> DEFINE D == {}
  <2>3. conns' = conns \cup D /\ \A d \in D : d \in Connection /\ EndsKept(d) /\ VerdictKept(d)
    BY <2>1
  <2> HIDE DEF D
  <2> QED
    BY <2>1, <2>2, <2>3, JoinKeeps
<1> QED
  BY <1>1, <1>2, <1>3, <1>4, <1>5, <1>6, <1>7, <1>8, <1>9 DEF Next

\* The inductive invariant holds in every reachable state.
THEOREM LanInvariance == Spec => []IInv
<1> QED
  BY InitIInv, NextIInv, PTL DEF Spec

\* The types of the discovery state, the dials and the connections: intervals
\* stay within MAX_INTERVAL (Multicast::announce) and every port that
\* run_multicast records is one the system handed out or a row asked for.
THEOREM TypeCorrect == Spec => []TypeOK
<1>1. IInv => TypeOK
  BY DEF IInv, Types, TypeOK, Connection
<1> QED
  BY <1>1, LanInvariance, PTL

\* run_handshake gives both ends of a link the same priority, whatever options
\* the dialling URI carries and whichever end reads first.
THEOREM PrioritiesAgree == Spec => []SamePriority
<1>1. IInv => SamePriority
  BY DEF IInv, ConnsKept, VerdictKept, SamePriority, Up
<1> QED
  BY <1>1, LanInvariance, PTL

\* A link made by answering a beacon joins two nodes whose rows for the segment
\* have one password: Multicast::receive compares the keyed hash, and the key
\* it pins is the one run_handshake finds at the other end.
THEOREM GroupsKept == Spec => []GroupKept
<1>1. IInv => GroupKept
  <2> SUFFICES ASSUME IInv, NEW c \in conns, Up(c), c.uri \notin world.peers[c.from]
               PROVE  Group(c.from, c.at.iface) = Group(c.at.node, c.at.iface)
    BY DEF GroupKept, Group
  <2>1. EndsKept(c) /\ VerdictKept(c) /\ c.dial = "up"
    BY DEF IInv, ConnsKept, Up
  <2>2. c.at.iface = c.uri.zone /\ Fellow(c.from, c.uri)
    BY <2>1 DEF EndsKept
  <2>3. c.uri.pinned_key \in Node /\ c.uri.pinned_key \in {None, c.at.node}
    BY <2>1, <2>2 DEF Fellow, VerdictKept
  <2>4. c.uri.pinned_key = c.at.node
    BY <2>3, LanAssumption
  <2> QED
    BY <2>2, <2>4 DEF Fellow
<1> QED
  BY <1>1, LanInvariance, PTL

\* A beacon on its way tells the truth on an interface with one address that
\* was bound and never changed: its sender listens where it came from, on the
\* port Advertisement carries.
THEOREM BeaconsTrue == Spec => []BeaconsServed
<1>1. IInv => BeaconsServed
  BY DEF IInv
<1> QED
  BY <1>1, LanInvariance, PTL

=============================================================================
