----------------------------- MODULE Discovery ------------------------------
(***************************************************************************)
(* The announce state machine of src/src/multicast.rs and the interface    *)
(* scan of src/client/src/multicast.rs, as operators: what a scan finds,   *)
(* what it makes of the interfaces already known, what one announce tick   *)
(* asks the client to do, and what a received beacon leads to.  Lan runs   *)
(* them.                                                                   *)
(*                                                                         *)
(* Time is counted in TICKs of one second, which is how often the client   *)
(* announces; an interface remembers how many passed since its last beacon *)
(* and stops counting at MAX_INTERVAL, the longest it ever waits.          *)
(***************************************************************************)
EXTENDS Handshake, FiniteSetsExt

CONSTANTS
  Iface,          \* interface names, each the name of a segment
  MAX_INTERVAL    \* the longest gap between two beacons (15 in the code)

ASSUME IntervalAssumption == MAX_INTERVAL \in Nat

\* An interface the scan found, at the address the client picked.
InterfaceConfig ==
  [link_local : Nat, beacon : BOOLEAN, listen : BOOLEAN, port : Nat, priority : 0..255,
   password : STRING]

\* What is kept of an interface: the port its listener got, the address a Bind
\* was asked for, the ticks since the last beacon and to the next.
IfaceState ==
  [cfg : InterfaceConfig \cup {None}, listener_port : Nat \cup {None},
   bind_addr : Nat \cup {None}, since : 0..MAX_INTERVAL \cup {None},
   interval : 0..MAX_INTERVAL, joined : BOOLEAN]

NewIface ==
  [cfg |-> None, listener_port |-> None, bind_addr |-> None,
   since |-> None, interval |-> 0, joined |-> FALSE]

-----------------------------------------------------------------------------
(* The scan. *)

\* The order parse_if_inet6 puts an interface's addresses in: by the key
\* (!unusable, address), so an address that cannot be bound comes first.
Precedes(a, b) ==
  \/ a.unusable /\ ~b.unusable
  \/ a.unusable = b.unusable /\ a.addr <= b.addr

FirstAddress(addrs) == CHOOSE a \in addrs : \A b \in addrs : Precedes(a, b)

\* config_for: the first row that asks for something, matches the interface
\* and has a password that can be hashed.
ConfigFor(rows, i) ==
  LET fits == {k \in DOMAIN rows :
                 /\ rows[k].beacon \/ rows[k].listen
                 /\ i \in rows[k].matches
                 /\ ~TooLong(rows[k].password)}
  IN  IF fits = {} THEN None ELSE rows[Min(fits)]

\* scan_interfaces: one row per interface, at its first address.
ScanInterfaces(rows, addrs) ==
  [i \in Iface |->
     LET row == ConfigFor(rows, i)
     IN  IF row = None \/ addrs[i] = {}
         THEN None
         ELSE [link_local |-> FirstAddress(addrs[i]).addr,
               beacon |-> row.beacon, listen |-> row.listen, port |-> row.port,
               priority |-> row.priority, password |-> row.password]]

-----------------------------------------------------------------------------
(* Multicast. *)

\* listener_up, for every interface of the scan whose port the client knows;
\* an interface the state machine has not been given yet is ignored.
ListenersUp(ifaces, scan, listeners) ==
  [i \in Iface |->
     IF ifaces[i] # None /\ scan[i] # None /\ listeners[i] # None
     THEN [ifaces[i] EXCEPT !.listener_port = listeners[i]]
     ELSE ifaces[i]]

\* set_interfaces: state survives a scan that still reports the interface;
\* one that left keeps its entry, without config, while a listener is to be
\* stopped.
SetInterfaces(ifaces, scan) ==
  [i \in Iface |->
     IF scan[i] # None
     THEN [(IF ifaces[i] = None THEN NewIface ELSE ifaces[i]) EXCEPT !.cfg = scan[i]]
     ELSE IF ifaces[i] # None /\ ifaces[i].bind_addr # None
          THEN [ifaces[i] EXCEPT !.cfg = None]
          ELSE None]

ListenerStale(st) ==
  /\ st.bind_addr # None
  /\ st.cfg = None \/ st.cfg.link_local # st.bind_addr

\* The first pass of announce, which stops listeners.
Unbound(st) ==
  IF ListenerStale(st)
  THEN [st EXCEPT !.listener_port = None, !.bind_addr = None,
                  !.since = None, !.interval = 0]
  ELSE st

\* A Bind command, and the URI the client is to listen on.
ListenUri(cfg) == [addr |-> cfg.link_local, port |-> cfg.port]

Bind(i, cfg) == [iface |-> i, uri |-> ListenUri(cfg)]

\* What the second pass makes of one interface: a Bind, a Beacon or nothing.
Asks(st) ==
  IF st.cfg = None \/ ~st.cfg.beacon THEN "nothing"
  ELSE IF st.bind_addr = None THEN "Bind"
  ELSE IF st.listener_port = None \/ (st.since # None /\ st.since < st.interval)
       THEN "nothing"
       ELSE "Beacon"

\* Mutant: the gap grows without end.
AnnouncedUncapped(st) ==
  [st EXCEPT
     !.joined    = @ \/ (st.cfg # None /\ st.cfg.listen),
     !.bind_addr = IF Asks(st) = "Bind" THEN st.cfg.link_local ELSE @,
     !.since     = IF Asks(st) = "Beacon" THEN 0 ELSE @,
     !.interval  = IF Asks(st) = "Beacon" THEN @ + 1 ELSE @]

\* The interface after the second pass: the gap to the next beacon grows by a
\* second with every one sent.
Announced(st) ==
  [st EXCEPT
     !.joined    = @ \/ (st.cfg # None /\ st.cfg.listen),
     !.bind_addr = IF Asks(st) = "Bind" THEN st.cfg.link_local ELSE @,
     !.since     = IF Asks(st) = "Beacon" THEN 0 ELSE @,
     !.interval  = IF Asks(st) = "Beacon" /\ @ < MAX_INTERVAL THEN @ + 1 ELSE @]

\* One TICK passes.
Aged(st) ==
  [st EXCEPT !.since = IF @ = None THEN None ELSE Min({@ + 1, MAX_INTERVAL})]

\* membership_hash: a password over the key limit hashes like none.
MembershipHash(password, public_key) ==
  KeyedHash(IF TooLong(password) THEN "" ELSE password, public_key)

\* Mutant: the port that was configured is advertised.
AdvertisementConfigured(public_key, version, st) ==
  [version |-> version, public_key |-> public_key, port |-> st.cfg.port,
   hash |-> MembershipHash(st.cfg.password, public_key)]

\* An Advertisement: it carries the port the listener was given.
Advertisement(public_key, version, st) ==
  [version |-> version, public_key |-> public_key, port |-> st.listener_port,
   hash |-> MembershipHash(st.cfg.password, public_key)]

\* Mutant: the hash is not looked at.
AnswersAnyGroup(public_key, st, adv) ==
  /\ adv.version = VERSION
  /\ adv.public_key # public_key
  /\ st # None /\ st.cfg # None /\ st.cfg.listen

\* receive: whether a datagram that came in on an interface leads to a dial.
Answers(public_key, st, adv) ==
  /\ adv.version = VERSION
  /\ adv.public_key # public_key
  /\ st # None /\ st.cfg # None /\ st.cfg.listen
  /\ MembershipHash(st.cfg.password, adv.public_key) = adv.hash

\* dial_uri, as parse_link_uri reads it back: the sender's address, the
\* advertised port, and the interface's own password and priority.
DialUri(cfg, adv, from, zone) ==
  [addr |-> from, port |-> adv.port, zone |-> zone, pinned_key |-> adv.public_key,
   password |-> cfg.password, priority |-> cfg.priority]

=============================================================================
