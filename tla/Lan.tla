-------------------------------- MODULE Lan ---------------------------------
(***************************************************************************)
(* Nodes that find each other on a segment and link up: run_multicast and  *)
(* boot of src/client/src/main.rs drive the announce state machine of      *)
(* Discovery, the listeners of src/client/src/listen.rs accept, and dials  *)
(* and accepted connections go through the handshake of Handshake.         *)
(*                                                                         *)
(* The operating system is part of the state: the link-local addresses of  *)
(* every interface, which come up tentative and cannot be bound until      *)
(* duplicate address detection is over, and the bound sockets.             *)
(***************************************************************************)
EXTENDS Discovery, Sequences

CONSTANTS
  Node,       \* nodes, named by their keys; numbers
  Port,       \* ports the system hands out
  Worlds,     \* the configurations to start from
  MaxFaults   \* bound: lost beacons, timeouts, dead links, strangers, address changes

\* A row of the configuration file, an address the system gave an interface,
\* and a peer URI as parse_link_uri reads it.
ConfigRow ==
  [matches : SUBSET Iface, beacon : BOOLEAN, listen : BOOLEAN, port : Port \cup {0},
   priority : 0..255, password : STRING]

Address == [addr : Nat, unusable : BOOLEAN]

PeerUri ==
  [addr : Nat, port : Nat, zone : Iface \cup {None}, pinned_key : Nat \cup {None},
   password : STRING, priority : 0..255]

\* What the nodes are started with.
WorldType ==
  [rows    : [Node -> Seq(ConfigRow)],
   peers   : [Node -> SUBSET PeerUri],
   listens : [Node -> SUBSET Port],
   allowed : [Node -> SUBSET Nat],
   version : [Node -> STRING],
   addrs   : [Node -> [Iface -> SUBSET Address]]]

ASSUME LanAssumption ==
  /\ Node \subseteq Nat
  /\ Port \subseteq Nat \ {0}
  /\ None \notin Nat \cup Iface
  /\ Worlds \subseteq WorldType
  /\ \A w \in Worlds : \A n \in Node, i \in Iface : IsFiniteSet(w.addrs[n][i])

VARIABLES
  world,      \* the configuration: rows, peers, listens, allowed, version, addrs
  addrs,      \* addrs[n][i]: the link-local addresses of an interface
  pc,         \* where run_multicast is: "down", "off", "tick" or "serve"
  ifaces,     \* Multicast::ifaces
  socks,      \* Discovery::socks: the interfaces with a group socket
  listening,  \* Discovery::listening: what the admin socket reports
  published,  \* the interface table
  listeners,  \* run_multicast's port of every interface
  binds,      \* the Bind commands of the last tick
  inbox,      \* inbox[n][i]: datagrams waiting at a group socket
  bound,      \* the listening sockets, which nothing ever closes
  calls,      \* calls[n]: dials on their way
  conns,      \* connections, with what each end made of the handshake
  faults,     \* how many of MaxFaults happened
  spoilt      \* history: a bind failed, or an address changed

discVars == <<ifaces, socks, listening, published, listeners, binds>>
vars == <<world, addrs, pc, discVars, inbox, bound, calls, conns, faults, spoilt>>

Fault == faults < MaxFaults /\ faults' = faults + 1

\* The k-th link-local address of a node; the 0-th is where it listens for
\* configured peers.
Addr(n, k) == 10 * n + k

Usable(n, i) == {a.addr : a \in {x \in addrs[n][i] : ~x.unusable}}

\* link_options: a config has no link password and no priority.
NodeOpts(n) ==
  [password |-> "", priority |-> 0, pinned_key |-> None, allowed_keys |-> world.allowed[n]]

Init ==
  /\ world \in Worlds
  /\ addrs = world.addrs
  /\ pc = [n \in Node |-> "down"]
  /\ ifaces = [n \in Node |-> [i \in Iface |-> None]]
  /\ socks = [n \in Node |-> {}]
  /\ listening = [n \in Node |-> [i \in Iface |-> None]]
  /\ published = [n \in Node |-> [i \in Iface |-> None]]
  /\ listeners = [n \in Node |-> [i \in Iface |-> None]]
  /\ binds = [n \in Node |-> {}]
  /\ inbox = [n \in Node |-> [i \in Iface |-> {}]]
  /\ bound = {}
  /\ calls = [n \in Node |-> {}]
  /\ conns = {}
  /\ faults = 0
  /\ spoilt = [n \in Node |-> FALSE]

-----------------------------------------------------------------------------
(* The client's start and its discovery task. *)

\* boot: listeners first, then a dial for every configured peer, then the
\* discovery task, which ends at once when no row asks for anything.
Boot(n) ==
  /\ pc[n] = "down"
  /\ bound' = bound \cup {[node |-> n, iface |-> None, addr |-> Addr(n, 0), port |-> p] :
                            p \in world.listens[n]}
  /\ calls' = [calls EXCEPT ![n] = world.peers[n]]
  /\ pc' = [pc EXCEPT ![n] =
              IF \E k \in DOMAIN world.rows[n] :
                   world.rows[n][k].beacon \/ world.rows[n][k].listen
              THEN "tick" ELSE "off"]
  /\ UNCHANGED <<world, addrs, discVars, inbox, conns, faults, spoilt>>

\* Mutant: the bound ports are not reported.
ReportedAtBind(n, scan) == ifaces[n]

\* Tick reports the bound ports before it announces.
Reported(n, scan) == ListenersUp(ifaces[n], scan, listeners[n])

\* send_beacon for every interface that has one to send, from an address the
\* system picks: a datagram reaches every group socket on the segment, the
\* sender's own too, but those it is lost on.
Beacons(n, open, advs) ==
  \E from \in [DOMAIN advs -> {None} \cup UNION {Usable(n, i) : i \in DOMAIN advs}] :
    /\ \A i \in DOMAIN advs :
         from[i] \in IF Usable(n, i) = {} THEN {None} ELSE Usable(n, i)
    /\ LET out == {i \in DOMAIN advs : from[i] # None}
       IN  \E lost \in SUBSET (IF out = {} THEN {} ELSE Node) :
             /\ inbox' = [m \in Node |-> [i \in Iface |->
                  IF i \notin (IF m = n THEN open ELSE socks[m]) THEN {}
                  ELSE inbox[m][i] \cup
                         {[adv |-> advs[j], from |-> from[j], zone |-> j] :
                            j \in {k \in out : k = i /\ m \notin lost}}]]
             /\ IF lost = {} THEN UNCHANGED faults ELSE Fault

\* rescan: a group socket for every interface that listens.
Rescan(scan) == {i \in Iface : scan[i] # None /\ scan[i].listen}

\* publish: one row per interface of the scan, with what is listened on.
Publish(scan, heard) ==
  [i \in Iface |-> IF scan[i] = None THEN None ELSE [address |-> heard[i]]]

\* Discovery::tick: rescan makes and drops group sockets, the bound ports are
\* reported, and what announce asks for is done, but the Bind commands, which
\* go back to the caller.  Unbind does not.
Tick(n) ==
  /\ pc[n] = "tick"
  /\ pc' = [pc EXCEPT ![n] = "serve"]
  /\ \E scan \in {ScanInterfaces(world.rows[n], addrs[n])} :
     \E known \in {SetInterfaces(Reported(n, scan), scan)} :
     \E st \in {[i \in {j \in Iface : known[j] # None} |-> Unbound(Aged(known[i]))]} :
       LET stale  == {i \in DOMAIN st : ListenerStale(known[i])}
           open   == Rescan(scan) \ stale
           asks(w) == {i \in DOMAIN st : Asks(st[i]) = w}
       IN  /\ ifaces' = [ifaces EXCEPT ![n] =
                [i \in Iface |-> IF i \in DOMAIN st THEN Announced(st[i]) ELSE None]]
           /\ socks' = [socks EXCEPT ![n] = open]
           /\ listening' = [listening EXCEPT ![n] =
                [i \in Iface |-> IF i \in stale THEN None ELSE listening[n][i]]]
           /\ published' = [published EXCEPT ![n] = Publish(scan, listening'[n])]
           /\ binds' = [binds EXCEPT ![n] = {Bind(i, st[i].cfg) : i \in asks("Bind")}]
           /\ Beacons(n, open, [i \in asks("Beacon") \cap open |->
                                  Advertisement(n, world.version[n], st[i])])
  /\ UNCHANGED <<world, addrs, listeners, bound, calls, conns, spoilt>>

\* Links::busy: the link a URI names is up, or on its way.
Names(u, v) == u.addr = v.addr /\ u.port = v.port /\ u.zone = v.zone

Busy(n, u) ==
  \/ \E v \in calls[n] : Names(u, v)
  \/ \E c \in conns : c.from = n /\ c.dial # "closed" /\ Names(u, c.uri)

\* The ports no socket of the node has.
Free(n) == Port \ {l.port : l \in {x \in bound : x.node = n}}

\* Whether the system binds the socket a Bind asks for.
Binds(n, b) ==
  /\ b.uri.addr \in Usable(n, b.iface)
  /\ b.uri.port # 0 \/ Free(n) # {}

\* The socket a Bind leads to: on the interface it names, at the port it asks
\* for or the one the system picks.
Listener(n, b) ==
  [node |-> n, iface |-> b.iface, addr |-> b.uri.addr,
   port |-> IF b.uri.port # 0 THEN b.uri.port ELSE Min(Free(n))]

\* receive: what the datagrams at the group sockets ask to be dialled.
Receive(n) ==
  UNION {{DialUri(ifaces[n][i].cfg, d.adv, d.from, i) :
            d \in {x \in inbox[n][i] : Answers(n, ifaces[n][i], x.adv)}} : i \in socks[n]}

\* The rest of the loop of run_multicast: a listener for every Bind of an
\* interface that has none, then a dial for every beacon that is ours to
\* answer.  A bind that fails is logged.
Serve(n) ==
  LET todo == {b \in binds[n] : listeners[n][b.iface] = None}
      done == {Listener(n, b) : b \in {b \in todo : Binds(n, b)}}
      at(i) == {l \in done : l.iface = i}
      the(i) == CHOOSE l \in at(i) : TRUE
  IN  /\ pc[n] = "serve"
      /\ pc' = [pc EXCEPT ![n] = "tick"]
      /\ bound' = bound \cup done
      /\ listeners' = [listeners EXCEPT ![n] =
           [i \in Iface |-> IF at(i) = {} THEN @[i] ELSE the(i).port]]
      /\ listening' = [listening EXCEPT ![n] =
           [i \in Iface |-> IF at(i) = {} THEN @[i] ELSE the(i).addr]]
      /\ spoilt' = [spoilt EXCEPT ![n] = @ \/ \E b \in todo : at(b.iface) = {}]
      /\ binds' = [binds EXCEPT ![n] = {}]
      /\ inbox' = [inbox EXCEPT ![n] = [i \in Iface |-> {}]]
      /\ calls' = [calls EXCEPT ![n] = @ \cup {u \in Receive(n) : ~Busy(n, u)}]
      /\ UNCHANGED <<world, addrs, ifaces, socks, published, conns, faults>>

-----------------------------------------------------------------------------
(* Connections. *)

\* The link table dials a configured peer again.
Redial(n, u) ==
  /\ pc[n] # "down"
  /\ u \in world.peers[n]
  /\ ~Busy(n, u)
  /\ calls' = [calls EXCEPT ![n] = @ \cup {u}]
  /\ UNCHANGED <<world, addrs, pc, discVars, inbox, bound, conns, faults, spoilt>>

\* connect_tcp reaches a listening socket at that address and port, on that
\* zone.
Reaches(n, u, l) ==
  /\ l.addr = u.addr /\ l.port = u.port /\ l.iface = u.zone
  /\ u.zone # None => l.addr \in Usable(l.node, u.zone) /\ Usable(n, u.zone) # {}

Dialled(n, u, l) ==
  [from |-> n, form |-> "meta", uri |-> u, at |-> l, dial |-> "wait",
   acc |-> "queued", dprio |-> 0, aprio |-> 0]

Connect(n, u) ==
  /\ u \in calls[n]
  /\ calls' = [calls EXCEPT ![n] = @ \ {u}]
  /\ conns' = conns \cup {Dialled(n, u, l) : l \in {x \in bound : Reaches(n, u, x)}}
  /\ UNCHANGED <<world, addrs, pc, discVars, inbox, bound, faults, spoilt>>

\* Something that is not a node connects: it sends other bytes, half a meta,
\* or nothing.
Stranger(l, form) ==
  /\ Fault
  /\ l \in bound
  /\ conns' = conns \cup
       {[from |-> None, form |-> form, uri |-> None, at |-> l, dial |-> "closed",
         acc |-> "queued", dprio |-> 0, aprio |-> 0]}
  /\ UNCHANGED <<world, addrs, pc, discVars, inbox, bound, calls, spoilt>>

\* A connection goes from one state to another; it is gone when both ends
\* have dropped their PeerConn.
Turn(c, d) == conns' = (conns \ {c}) \cup (IF d.dial = "closed" /\ d.acc = "closed" THEN {} ELSE {d})

connRest == <<world, addrs, pc, discVars, inbox, bound, calls, spoilt>>

\* The accept loop of a listener takes the next connection once it is done
\* with the one before, handshake included.  A TLS one needs its dialer.
Accept(c) ==
  /\ c.acc = "queued"
  /\ \A d \in conns : d.at = c.at => d.acc # "wait"
  /\ Turn(c, [c EXCEPT !.acc = IF c.at.iface # None /\ c.dial = "closed" /\ c.form = "meta"
                               THEN "closed" ELSE "wait"])
  /\ UNCHANGED <<connRest, faults>>

\* The meta each end writes before it reads, under the options of its side.
DialMeta(c) ==
  IF c.form # "meta"
  THEN [form |-> c.form]
  ELSE Meta(c.from, world.version[c.from], MergeOpts(c.uri, NodeOpts(c.from)))

AcceptMeta(c) == Meta(c.at.node, world.version[c.at.node], NodeOpts(c.at.node))

\* complete_accept: the accepting end reads the other's meta.
AcceptorReads(c) ==
  LET theirs == DialMeta(c)
      opts   == NodeOpts(c.at.node)
  IN  /\ c.acc = "wait"
      /\ theirs.form # "silent"
      /\ IF RunHandshake(c.at.node, opts, theirs, TRUE) = "ok"
         THEN \/ Turn(c, [c EXCEPT !.acc = "up", !.aprio = LinkPriority(opts, theirs)])
              \/ c.dial = "closed" /\ Turn(c, [c EXCEPT !.acc = "closed"])
         ELSE Turn(c, [c EXCEPT !.acc = "closed"])
      /\ UNCHANGED <<connRest, faults>>

\* complete_dial: so does the dialling end, which the listener may have hung
\* up on meanwhile.
DialerReads(c) ==
  LET theirs == AcceptMeta(c)
      opts   == MergeOpts(c.uri, NodeOpts(c.from))
  IN  /\ c.dial = "wait"
      /\ c.acc # "queued"
      /\ IF RunHandshake(c.from, opts, theirs, FALSE) = "ok"
         THEN \/ Turn(c, [c EXCEPT !.dial = "up", !.dprio = LinkPriority(opts, theirs)])
              \/ c.acc = "closed" /\ Turn(c, [c EXCEPT !.dial = "closed"])
         ELSE Turn(c, [c EXCEPT !.dial = "closed"])
      /\ UNCHANGED <<connRest, faults>>

\* HANDSHAKE_TIMEOUT at the accepting end: a silent stranger's always comes.
AcceptorGivesUp(c) ==
  /\ c.acc = "wait"
  /\ Turn(c, [c EXCEPT !.acc = "closed"])
  /\ IF c.form = "silent" THEN UNCHANGED faults ELSE Fault
  /\ UNCHANGED connRest

\* A timeout at the dialling end.
DialerGivesUp(c) ==
  /\ c.dial = "wait"
  /\ Turn(c, [c EXCEPT !.dial = "closed"])
  /\ Fault
  /\ UNCHANGED connRest

\* An end whose other end is gone reads the end of the stream.
Hangup(c) ==
  /\ \/ c.dial = "up" /\ c.acc = "closed"
     \/ c.acc = "up" /\ c.dial = "closed"
  /\ Turn(c, [c EXCEPT !.dial = "closed", !.acc = "closed"])
  /\ UNCHANGED <<connRest, faults>>

\* A link dies under both ends.
LinkDies(c) ==
  /\ c.dial = "up" /\ c.acc = "up"
  /\ Turn(c, [c EXCEPT !.dial = "closed", !.acc = "closed"])
  /\ Fault
  /\ UNCHANGED connRest

-----------------------------------------------------------------------------
(* The interfaces. *)

\* What goes through an address goes with it.
Without(n, i) == {c \in conns : ~(c.at.iface = i /\ n \in {c.at.node, c.from})}

osRest == <<world, pc, discVars, inbox, bound, calls>>

\* The interface gets another address, which is tentative at first.
Renumber(n, i) ==
  /\ Fault
  /\ addrs[n][i] # {}
  /\ \E k \in {1, 2} :
       /\ \A a \in addrs[n][i] : a.addr # Addr(n, k)
       /\ addrs' = [addrs EXCEPT ![n][i] = {[addr |-> Addr(n, k), unusable |-> TRUE]}]
  /\ spoilt' = [spoilt EXCEPT ![n] = TRUE]
  /\ conns' = Without(n, i)
  /\ UNCHANGED osRest

\* It goes down, and comes up again.
Unplug(n, i) ==
  /\ Fault
  /\ addrs[n][i] # {}
  /\ addrs' = [addrs EXCEPT ![n][i] = {}]
  /\ conns' = Without(n, i)
  /\ UNCHANGED <<osRest, spoilt>>

Plug(n, i) ==
  /\ addrs[n][i] = {}
  /\ addrs' = [addrs EXCEPT ![n][i] = world.addrs[n][i]]
  /\ UNCHANGED <<osRest, conns, faults, spoilt>>

\* Duplicate address detection ends.
Settle(n, i) ==
  /\ \E a \in addrs[n][i] : a.unusable
  /\ addrs' = [addrs EXCEPT ![n][i] = {[a EXCEPT !.unusable = FALSE] : a \in @}]
  /\ UNCHANGED <<osRest, conns, faults, spoilt>>

Next ==
  \/ \E n \in Node :
       \/ Boot(n)
       \/ Tick(n)
       \/ Serve(n)
       \/ \E u \in world.peers[n] : Redial(n, u)
       \/ \E u \in calls[n] : Connect(n, u)
       \/ \E i \in Iface : Renumber(n, i) \/ Unplug(n, i) \/ Plug(n, i) \/ Settle(n, i)
  \/ \E l \in bound, form \in {"junk", "cut", "silent"} : Stranger(l, form)
  \/ \E c \in conns :
       \/ Accept(c)
       \/ AcceptorReads(c)
       \/ DialerReads(c)
       \/ AcceptorGivesUp(c)
       \/ DialerGivesUp(c)
       \/ Hangup(c)
       \/ LinkDies(c)

Spec == Init /\ [][Next]_vars

\* Every task of a node is scheduled, every connection gets on, and the
\* system ends what it began with an interface.
Fairness ==
  /\ \A n \in Node : WF_vars(Boot(n) \/ Tick(n) \/ Serve(n))
  /\ \A n \in Node : WF_vars(\E u \in calls[n] : Connect(n, u))
  /\ WF_vars(\E n \in Node, i \in Iface : Plug(n, i) \/ Settle(n, i))
  /\ WF_vars(\E c \in conns :
       Accept(c) \/ AcceptorReads(c) \/ DialerReads(c) \/ Hangup(c)
         \/ (c.form = "silent" /\ AcceptorGivesUp(c)))

FairSpec == Spec /\ Fairness

-----------------------------------------------------------------------------
(* What discovery and the handshake promise. *)

\* Types: intervals stay within MAX_INTERVAL (announce), ports and URIs are
\* those the system and the nodes can produce.
TypeOK ==
  /\ pc \in [Node -> {"down", "off", "tick", "serve"}]
  /\ socks \in [Node -> SUBSET Iface]
  /\ listeners \in [Node -> [Iface -> Port \cup {None}]]
  /\ ifaces \in [Node -> [Iface -> IfaceState \cup {None}]]
  /\ \A n \in Node : calls[n] \subseteq PeerUri
  /\ \A c \in conns : c.acc \in {"queued", "wait", "up", "closed"}
                   /\ c.dial \in {"wait", "up", "closed"}

Up(c) == c.dial = "up" /\ c.acc = "up"

\* Both ends of a link put it under the same priority, whatever each of them
\* was told: run_handshake takes the higher of the two at either end.
SamePriority == \A c \in conns : Up(c) => c.dprio = c.aprio

\* A link that discovery made joins two nodes of one group: the rows that
\* apply to the segment have the same password at both ends.
GroupKept ==
  \A c \in conns :
    Up(c) /\ c.uri \notin world.peers[c.from] =>
      LET row(n) == ConfigFor(world.rows[n], c.at.iface)
      IN  row(c.from).password = row(c.at.node).password

\* The interface has had one address, and it was bound.
Steady(n, i) == ~spoilt[n] /\ Cardinality(world.addrs[n][i]) = 1

\* A beacon on its way to somebody tells the truth: its sender listens at the
\* address it came from, on the port it says.  That is so on an interface with
\* one address that was bound and never changed; the listener of another stays
\* where it was first bound, or was never there.
BeaconsServed ==
  \A m \in Node, i \in Iface : \A d \in inbox[m][i] :
    LET n == d.adv.public_key
    IN  Steady(n, i) =>
          [node |-> n, iface |-> i, addr |-> d.from, port |-> d.adv.port] \in bound

\* A node whose row both beacons and listens can be found by one that listens
\* in the same open group and is let in.
CanFind(n, p, i) ==
  LET mine == ConfigFor(world.rows[n], i)
      row  == ConfigFor(world.rows[p], i)
  IN  /\ n # p /\ mine # None /\ row # None
      /\ mine.listen /\ row.listen /\ row.beacon
      /\ mine.password = "" /\ row.password = ""
      /\ world.version[n] = VERSION /\ world.version[p] = VERSION
      /\ world.allowed[p] = {} \/ n \in world.allowed[p]

\* Two such nodes end up linked, for good, whatever was lost, timed out, died
\* or went down on the way: a beacon goes out again and again, and the dial it
\* leads to is not refused for the ones that failed before.
Meet ==
  <>[](\A n, p \in Node, i \in Iface :
         CanFind(n, p, i) /\ Steady(p, i) =>
           \E c \in conns : Up(c) /\ c.from = n /\ c.at.node = p)

=============================================================================
