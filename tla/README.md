# A TLA+ verification project for roots

roots is a Rust port of the Yggdrasil/ironwood overlay network: a library
(`src/src`), a small `no_std` core (`src/core`) and a client (`src/client`).
This directory holds TLA+ modules translated from that code, the TLC
configurations that check them on small instances, and theorems proved with
TLAPS for instances of any size.

## 1. Inventory

| Part | State | Operations | What makes it correct |
|---|---|---|---|
| Spanning tree (`tree.rs`, `peer.rs`) | per key: port, open request, kept answer, keys already announced to it; per known key: info and deadline; flags `refresh`, `do_root1`, `do_root2`; self-refresh timer | `new_req`, `send_req`, `handle_request`, `handle_response`, `update`, `expire`, `fix`, `become_root`, `send_all_reqs`, `send_announces`, `handle_announce` | ports in circulation agree with the books of those who gave them; siblings are told apart; nothing announced is lost; all routers end up on the lowest key's tree |
| Driver (`driver.rs`, `router.rs`) | the router, its link set, the session outbox | `register`, `maintain`, `dispatch_frame`, `serve_links`, `send_or_resolve`, `expire_ephemeral` | one dead link never stops the others; every payload is sent, resent or counted |
| Link set (`link.rs`) | live links with their key, last write time | `add`, `remove`, `write`, `write_all`, `write_via`, `read_frame` | an id is never reused; a link that refused a frame is never addressed again; a link that is served is known to the tree |
| Path finding and traffic (`pathfind.rs`, `traffic.rs`) | paths with sequence and deadline, rumors with one held payload | `send_lookup`, `handle_lookup`, `handle_notify`, `handle_broken`, `route_traffic` | forwarding gets strictly nearer, so no packet circles; a held payload leaves once, sealed once |
| Sessions (`session.rs`) | per peer: three generations of keys, sequence and nonces; buffered payloads; payloads to resend | init, ack, traffic, rotation | both ends keep a pair of keys in common through loss and crossing; no nonce is used twice with a key |
| Bloom filters (`bloom.rs`) | filters sent and received, the on-tree table (64 entries) | `bloom_add_peer`, `bloom_fix`, `bloom_maintenance`, `bloom_handle`, multicast | once filters settle a lookup reaches every node it may concern |
| Client link table (`client/links.rs`, `supervisor.rs`) | rows: kind, redial time, live link, dial token, last error | `add`, `remove`, `accept`, `start_due`, `mark_live`, `mark_failed`, `note_liveness` | one dial per row; a result is applied to the row that started it; no row waits for ever |
| Client node loop (`client/node.rs`, `listen.rs`) | commands, dial events, waiting remote queries | `run`, `on_cmd`, `on_dial`, `settle_remote`, `pump_tun` | every query is answered once; a dead peer is not a dead node |
| Admin socket (`client/admin.rs`) | per connection: the request being answered | `handle_one`, `change_peer`, remote queries | every request is answered as long as the process lives |
| TUN device (`client/tun.rs`) | packets waiting in both directions | `deliver`, `pump`, `flush` | packets are neither lost nor doubled nor reordered |
| Remote queries and views (`proto.rs`, `views.rs`) | inbox of answers | request, answer | an answer goes to one query |
| Hash table (`core/table.rs`) | slots: never used, live, tombstone | `insert`, `get`, `remove`, `for_each`, `compact` | behaves as a map of bounded size |
| Peer discovery (`multicast.rs`, both) | per interface: listener, beacon timer; group sockets | `set_interfaces`, `announce`, `receive`, scan, `tick` | beacons tell the truth; nodes that can find each other end up linked |
| Handshake (`handshake.rs`, `link.rs`) | none beyond a call | `meta` exchange, pinned keys, allowlist, priorities | both ends take the same link, under the same priority, in one group |
| Addresses (`core/address.rs`, `xkey`) | none beyond a call | `addr_for_key`, `subnet_for_key`, `key_for_addr`, `lookup_key_for_addr`, `xkey` | every address of a node leads to the transformed key of the node |
| Framing, clocks, transports, configuration, errors | none beyond a call | codecs, adapters, parsing | round trips of encodings |

How the parts meet: the client node loop registers a handshaken connection
with the router (`register`), adds it to the link set and lends both to
`serve_links` for a slice. `serve_links` ticks (`maintain`) before it reads,
then reads every link in turn and hands each frame to `dispatch_frame`, which
calls the tree, bloom, path, session or proto code. Everything in one router
runs on one task, so a handler is atomic with respect to that router; routers
run concurrently and meet only through links. Dials, listeners, admin
connections and discovery run on tasks of their own and meet the node loop
through channels.

What is hard here: the interleavings of several routers whose views are
stale; link failures that lose frames whose sending has already been noted;
books that outlive links (`tree.peers`, `responses` and `sent` are never
pruned); timers that expire on one side only; dial results that arrive after
the row has changed; slots shared by payloads of different layers; state
machines that remember what they asked for and not what they got.
`PROJECT.json` lists these hazards with their lines and the properties aimed
at each.

## 2. The modules

| Module | Models | Uses |
|---|---|---|
| `Subsequences`, `SubsequenceProofs` | parts of a sequence, in order | |
| `Tree`, `MCTree`, `TreeProofs` | spanning tree, `register`, `maintain`, eviction | `Subsequences` |
| `Session`, `MCSession`, `SessionProofs` | sessions and the outbox of the driver | |
| `Address`, `AddressProofs` | keys, addresses, subnets and transformed keys, as functions | |
| `Routing`, `MCRouting`, `RoutingProofs` | path finding, traffic, bloom filters | `Address`, `Subsequences`; what `Tree` proves of ports |
| `LinkTable` | the client's link table and supervisor, as functions | |
| `Tun` | the TUN bridge, as functions | `Subsequences` |
| `Peering` | abstract: the life of a peer's row | |
| `Client`, `MCClient`, `ClientProofs` | node loop, dial tasks, listeners, admin connections | `LinkTable`, `Tun`; implements `Peering` |
| `Handshake` | the `meta` exchange, as functions | |
| `Discovery` | announce state machine and interface scan, as functions | `Handshake` |
| `Lan`, `MCLan`, `LanProofs` | nodes on a segment: discovery, listeners, dials, interfaces | `Discovery` |
| `BoundedMap` | abstract: a map of at most N entries | |
| `Table`, `MCTable`, `TableProofs` | the hash table | implements `BoundedMap` |

Definitions named as variants of a mapped one (`MarkFailedKeepsRow`, ...) are
mutants: the form a plausible bug would give it. Each property has one that
breaks it; `PROJECT.json` lists the pairs.

### Tree

A network of routers. `tree[n]` is the `TreeState` of `n`, field by field
(`port` and `req` are the two fields of `PeerState`); `linked[n]` is the key
set of its `LinkSet`; `chan[n][m]` holds the frames written and not yet read;
`open` are the transports that work, `offered` the handshaken links that one
end has not registered yet.

| Action | Code |
|---|---|
| `Maintain(n)` | `maintain`: `expire`, `fix` (with `send_all_reqs`), `send_announces` |
| `HandleRequest`, `HandleResponse`, `HandleAnnounce` | the frame's branch of `dispatch_frame` and its handler, reply included |
| `Register(n, p)` | `register` and the entry into the link set |
| `Evict(n, p)` | the read error branch of `serve_links` |
| `Open`, `Cut`, `Tick` | the environment: a handshake completes, a transport dies, time passes |

Failures. A transport may die at any moment. Frames that had arrived can
still be read up to the read that fails; what is written afterwards is either
swallowed or refused. A refused write retires the link and, because every
write in a tick is followed by `?`, aborts the tick: `Speak` takes the key
`stop` at which that happens, so keys after it are neither asked nor
announced to and keep their old request, while the answers of all are already
cleared. `Write` and `Receive` do the same for replies.

Abstractions. Keys are integers, since the code only compares them. A
signature is the fact that only its owner creates the record it signs, so
`check` reduces to the rule about port 0. The lag of a link is any member of
`Lags` whenever `fix` reads it, which covers every history of round trips;
`sent_at`, `srrt`, `responded` and the statistics counters are not kept. There
is one link per pair of routers at a time and it is replaced only when both
ends have noticed its death. Bloom frames are left out: they share no state
with the tree. Sequence numbers are not cut to 64 bits: a router would need
2^64 ticks.

`Line` (the walk of `root_and_dists` and `ancestry`) and `Pick` (the filter
loop of `send_announces`) are written without recursion so that TLAPS can
reason about them.

`MCTree` gives the starts for the larger instances. `Linked` is a state every
network reaches: all links registered at both ends in key order, nobody has
ticked. `SliceSpec` starts cold with two of the routers, which may do all that
`Next` allows, or from `Linked` with all three. There a router that has been
elected once ticks only when it has nothing to read (`Calm`); this keeps the
slice small and loses only the interleavings in which a tick overtakes a frame
that has already arrived, all of which the two routers explore.

### Session

Two routers and the session layer between them. `node[n]` is the
`SessionState` of `n`: a session or `None` for each peer, the pending open for
each peer with its one-payload slot, `init_seq` and the resend queue.
`outgoing[n]` is the outbox handed to `serve`, `taken[n]` what is left of the
one the loop is working through. `chan[n][p]` are the session messages on
their way. `seals`, `opened` and `sends` are histories: what was sealed, what
was opened, what the application submitted. An opening is kept with the stretch
of the session it happened in: `Stretch` tells apart the states between two
updates or wraps, since an update raises `seq` and a wrap moves the key
sequences against each other, while a rotation moves both.

| Action | Code |
|---|---|
| `Submit`, `Splice`, `Take`, `SendNext` | the outbox of `serve_links` with `session_send` |
| `RequestNodeinfo` | `request_nodeinfo`, `request_debug` |
| `OpenSession`, `FlushSession` | init or ack without a session, without and with a pending open |
| `HandleAck`, `HandleInit` | on an open session |
| `OpenTraffic`, `RefuseTraffic`, `UnknownTraffic` | traffic that opens (requests answered in the same step), does not, or has no session |
| `ExpireEphemeral` | the session half of `expire_ephemeral` |
| `Lose`, `Duplicate`, `Overtake`, `Restart`, `Tick` | the environment |

A box key is named by its owner and a serial number, a shared secret is the set
of two keys, which is all that Diffie-Hellman promises here: both ends compute
the same secret. `Ratchet` is the key move that `apply_update`, `encrypt` and
`maybe_rotate` share; they differ in which nonces they restart, and in what
they adopt from the peer. `Openings` are the three cases of `decrypt`. A write
that fails (`Write(FALSE)`) ends the handler where the code's `?` does: the
payload goes to `resend` without its kind, a payload whose ack could not be
written is dropped, and the outbox loop drops what it had not reached. The
pathfinder, which may hold a message for a lookup, is part of the channel.

`MCSession` states what the session layer keeps and what it recovers to.
`written` is the history of payloads that were ever on the wire.
`WrittenOrAccounted` says on which ways a payload may leave a router without
having been there, which are those the code has: another payload takes its slot
behind an init (`Replaced`), the init is not answered for a minute (`Expired`),
the process ends (`Restarted`), or a write that is not its own fails
(`LeftBehind`: the rest of an outbox that was taken, and the payload behind an
ack). `AtLeastOnce` is the stronger promise of the comments, which fails
(finding 5). For recovery the routers of `Session` run, with its faults, until
nothing is on its way; from then on nothing goes wrong and payloads ("probes")
are sent one at a time. `Missed` are the probes that were not opened: at most
one of two ends that both have a session (`OneMissed`), only the first where a
session is missing and the clock has moved on (`LateRecovers`). `FlightSpec` is
the situation of the repository's test of a crossed open: each end sends before
it has read anything, and once more when all is quiet; `SecondFlight` is what
that test asks for (finding 4).

### Routing

How a router finds another and carries its traffic, over a tree that is given:
`infos[n][k]` is the parent of `k` as `n` knows it, `Move` and `Hear` change it
as announces would, in any order. `paths[n]` and `blooms[n]` are `PathState`
and `BloomState`; `sess[n]` are the keys `n` has a session with, `got[n]` the
payloads its session layer opened.

| Definition | Code |
|---|---|
| `NextHops`, `Onward`, `Forwarded` | `greedy_next` with the watermark |
| `RumorLookup`, `HoldForLookup`, `PathfinderSend`, `RouteTraffic` | `rumor_lookup`/`send_lookup`, `hold_for_lookup`, `pathfinder_send`, `route_traffic` |
| `HandleLookup`, `HandleNotify`, `HandleBroken`, `HandleTraffic`, `HandleBloom` | the handlers `dispatch_frame` calls (`Dispatch`) |
| `AddPeer`, `BloomFix`, `BloomFor`, `BloomMaintenance` | `bloom_add_peer`, `bloom_fix`, `bloom_for`, `bloom_maintenance` |
| `Maintain(n)` | the part of the tick after the tree's: `bloom_maintenance`, `expire_ephemeral` and the repeated lookups (`LookAgain`), in any order of the table |
| `SendOrResolve`, `SendToKey` | `send_or_resolve`, a `session_send` from the outbox |
| `Connect`, `Cut`, `Restart`, `Move`, `Hear`, `Tick` | the environment |

A port is named by the child it leads to, which is sound by what `TreeProofs`
proves (`PortsAgree`, `SiblingsDiffer`). Nodes are named by their keys
(`PubKey`); a lookup and its rumor carry the key they were made from, which for
an address is the lossy one `LookupKeyForAddr` gives, and filters, rumors and
the node that answers compare transformed keys. Nodes have different
transformed keys, as random keys have: two nodes of one subnet prefix would
answer each other's lookups. Which of several nearer peers is chosen depends on lags:
`fav` is any of them. A payload carries the number of times it was sealed;
`trail`, `hops`, `start` and `blind` in frames are history. A filter is a set
of bits and keys share bits (`Bits`), so false positives happen.

### Address

Bit strings of any size: `Lead` counts the leading zeros of a key (the ones of
its inverse), `Ones` is the count as it is stored, saturating at `MAX_ONES`,
`Whole` says which of the bits behind it fill a byte. `AddrForKey`,
`SubnetForKey`, `KeyForAddr`, `KeyForSubnet`, `LookupKeyForAddr` and `XKey` are
the functions of those names, `Owns` the match of `Router::key_for_addr`. The
prefix byte is the field `net`.

### LinkTable, Peering, Tun, Client

`Client` is the process: `table` (`Links`), `set` (`LinkSet`), `book`
(`tree.links`), the mailbox `cmds`, the dial results `events`, the waiting
questions `pending`, `proto_inbox`, the device `tun`. `pc` is where `Node::run`
is, `tasks` are dials in flight, `sock` the sockets ("up", "half" a frame
arrived, "garbled" after a read that timed out inside a frame, "eof" closed
between frames, "cut" closed inside one, "deaf" while the peer does not read),
`conn` the admin connections. `Stop` is the end of `run`, with which the process
ends: every waiting admin connection is closed without an answer.

| Action | Code |
|---|---|
| `OnCmd` with `OnDialCmd`, `OnDrop`, `OnAccept`, `OnReport`, `OnRemote`, `OnSend`, `OnQuit` | `Node::on_cmd` |
| `CmdsDrained`, `Plan` | the turns of `run` between mailbox and slice, with `note_liveness`, `start_due` |
| `OnDial` | `Node::on_dial` |
| `ReadTimesOut`, `Evict`, `Retire`, `AnswerArrives`, `PacketArrives` | what a slice of `serve_links` does to the node |
| `Turn` | `settle_remote`, `pump_tun`, the test of `quit` |
| `DialEnds`, `Listen`, `SocketMoves`, `BackoffEnds`, `KernelSends`, `SubmitDial`, `SubmitSend`, `SubmitQuit`, `Tick` | the other tasks, and the outside |
| `Ask`, `HandleOne` | an operator; the task of an admin connection |

The table is a function from names to rows, since the code keeps at most one
row per name; what a report contains, the length of a backoff and the text of
errors are left out. `env` is what may happen in a behaviour, chosen in `Init`
from `Worlds`: it keeps the mixes small while each is explored completely.

`Peering` says what a reader of the peer list may rely on: at most one dial per
peer and none while it has a link, a discovered peer is tried once and
forgotten with its link or its failure, an incoming one is never dialled, a
configured one stays until its removal was asked for, no link is listed under
two names. The end of a dial decides the link of its row, also over a link the
peer opened to us meanwhile: that is what `mark_live` and `mark_failed` do.
`KeepsPromises` is the refinement: a row maps to its kind, its link and whether
a dial runs, the removals asked for (`Orders`) are the commands at the node.

### Handshake, Discovery, Lan

`Lan` is a segment with nodes on it. Per node: `ifaces` (`Multicast::ifaces`),
group sockets `socks`, the admin socket's view (`listening`, `published`),
`listeners` and `binds` of `run_multicast`, the datagrams at its group sockets
`inbox`, dials under way `calls`. The system: `addrs`, the link-local addresses,
which come up tentative; `bound`, the listening sockets, which nothing ever
closes; `conns`, the connections with what each end made of the handshake.

| Action | Code |
|---|---|
| `Boot` | `boot` |
| `Tick` | `Discovery::tick`: `rescan`, `publish`, `listener_up`, `announce`, beacons |
| `Serve` | the rest of `run_multicast`'s loop: listeners for Binds, dials for beacons |
| `Redial`, `Connect` | the link table's dial; `connect_tcp` |
| `Accept`, `AcceptorReads`, `AcceptorGivesUp` | the accept loop with `complete_accept` in line |
| `DialerReads`, `DialerGivesUp`, `Hangup` | `complete_dial`; the end of a stream |
| `Stranger`, `LinkDies`, `Renumber`, `Unplug`, `Plug`, `Settle` | the outside |

Time is counted in announce ticks. Interface patterns are the set of names they
match. A keyed hash is the pair of what it was computed from, a signature names
who made it.

### Table, BoundedMap

`Table` has one action per call of `core/table.rs`, for any hash function
(`Home`) and capacity (0 included); `reply` is what the last call returned.
`compact` is three actions, one of them per entry moved. A walk is described by
the steps it passes (`Passes`, `Hits`, `Ends`, `FirstTomb`) and not by
recursion. `BoundedMap` knows nothing of slots; `IsMap` maps the table to it
with `Content`, which reads the slots without probing.

## 3. The runs

| Run | Instance | Properties | Shows |
|---|---|---|---|
| `tree_agrees` | 2 routers, cold start, 1 failure, clock to 2; 3 mutual links, `Calm` | `TypeOK`, `PortsAgree`, `AnswersAreCurrent`, `SentMeansDelivered`, `OwnInfoFreshest`, `SiblingsDiffer` | through expiry, a lost link and a reconnect, and when infos take two ways and routers pass them on, what circulates agrees with the books and nothing is ticked off before it was written |
| `tree_converges` | line of 3, all interleavings, fair | `Converges` | all routers end up on the lowest key's tree |
| `tree_reannounces` | 2 routers, clock to 3, fair | `Reannounces` violated | finding 1 |
| `session_repair` | 2 payloads or requests, 1 late one, nonce space 4, 2 losses, repetitions, overtakings, restarts or failed writes, timeout 2, clock to 3, 3 probes | `WrittenOrAccounted`, `OpenedOnce`, `TypeOK`, `KindKept`, `OneMissed`, `LateRecovers`, `SealsUnique` | what sessions keep through faults and how they come back |
| `session_second_flight` | a crossed open, no faults, then one payload from each end | `SecondFlight` violated | finding 4 |
| `session_at_least_once` | 3 payloads, 3 failed writes | `AtLeastOnce` violated | finding 5 |
| `client` | 2 names, one of them a plain address, 1 admin connection, 2 links, 2 submits, 1 backoff, 2 requests, 2 packets each way, pump bound 1, seven worlds, fair | `TypeOK`, `DialsRun`, `ServedAreKnown`, `AnsweredOnce`, `PacketsKept`, `StaleDialDropped`, `KeepsPromises`, `AllAnswered` | the node loop with everything that reaches it |
| `client_dead_node` | the world in which connections end anywhere | `OutlivesPeers` violated | finding 2 |
| `routing` | 3 mutual links, tree a line at first, 1 move, 1 clock step, 2 payloads, 1 lost link or restart, 5 hops, six worlds | `LoopFree`, `OneCopy`, `LookupOnce`, `Found`, `ToOwner`, `BloomsDelivered`, `BloomsSettle` | lookups, notifies, traffic and filters while the tree moves |
| `routing_sealed` | the world in which a path breaks | `SealedOnce` violated | finding 3 |
| `lan` | 2 nodes, 1 interface, nine configurations, 1 fault, intervals to 2, fair | `TypeOK`, `SamePriority`, `GroupKept`, `BeaconsServed`, `Meet` | discovery, listening and handshake together |
| `table` | 4 keys of which three start at one slot, 2 values, 3 slots | `Chained`, `IsMap` | the hash table is a bounded map |

### Bounds and why they are enough

*Tree.* `TREE_REFRESH = 2 < TREE_TIMEOUT = 3` (4 and 5 minutes in the code; what
matters is the order and that a clock step separates them), one nonce and one
lag. One nonce is the harder case: it makes requests of equal sequence equal,
which the random nonce of the code excludes. `MaxTime` stops the clock and
`MaxCuts` the failures; both only cut behaviours short. Two routers are enough
for everything that concerns one link, the third is there for forwarding,
siblings and cycles; so `tree_agrees` is two slices of one instance, two routers
with everything that may happen to their link while the third is off, and three
linked ones with no failures and a standing clock, each of which reads what has
arrived before it ticks again (`Calm`). A clock of 2 lets a router's own info expire, 3 lets the
copies expire too.

*Session.* `ROTATE_AFTER` is 0 (a rotation is due once a clock step has passed
since the last one, 60 seconds in the code). `MaxSends` and `MaxFaults` count
payloads and things that go wrong: crossing needs one payload from each end.
`MaxSeq` stops a router from reading; it is there because two ends that are out
of step may exchange repairs for long, and is never reached in `session_repair`.
With a nonce space of 4 the send nonce wraps within a run; `OneMissed` and
`LateRecovers` leave out the runs that seal more than that (`Unwrapped`),
because a wrap ratchets the keys of one end alone and may cost one payload more.
That no nonce is used twice is proved for every nonce space (section 5). The
two routers are interchangeable (`Symmetry`).
`OpenedOnce` counts per stretch of a session: `apply_update` and a wrap put all
three nonce floors back to 0 while two of the keys stay readable, so a box that
the network kept back can be opened once more after either. `OneMissed` says nothing of a session only one end has: when the
ack of an open is lost, the initiator repeats the same init, the responder
refuses it as old without acking again, and takes it as a sign of life; the open
succeeds only once the clock has moved on (`LateRecovers`) or the responder has
sent something.

*Routing.* Three routers give a lookup that is passed on, a tree that changes
while a frame is under way, and a link that is not on the tree. Each world is
what may happen together: application payloads with moves and time, payloads to
a key, a router that loses its own info, a cold start, a restart, a lost link.
`CAPACITY` is the number of peers, so the on-tree table is filled exactly.
Keys have four bytes of two bits: the key of 1 is zero, where the count
saturates; the address of 3 loses one bit of its key and its subnet two more, so
that key, lossy key and subnet key all differ. In one world the packets are for
hosts of a subnet, in the others for the node.
`MaxHops` stops a frame that is already one hop over what `LoopFree` allows.
`Found` and `LookupOnce` are about a tree that stands still, because the code
promises nothing for a lookup flooded over a moving one.

*Client.* Two names are a peer that can be dialled and come to us, and one that
can only be dialled; two links let a stale dial meet a newer one. `MaxLinks`,
`MaxSubmits`, `MaxBackoffs`, `MaxAsks` and `MaxPackets` only stop what comes from
outside. With a pump bound of 1 two packets already are a batch cut short. The
seven worlds are what may happen together: dials with accepted and discovered
peers; dials with removals; connections that end inside a frame; peers added and
removed by an operator; remote questions with writes that fail; a peer that
stops reading while reports are asked for and payloads submitted; the device.

*Lan.* Two nodes and a stranger. The nine configurations are: one beacons and
one listens; both do both; passwords that differ, one too long; a version that
differs; an interface with a second, tentative address; a configured peer with
a priority and a pinned key next to one that dials itself; an allowlist; a pin
on another key; a password on one end. One fault in each: a lost beacon, a
timeout, a dead link, a stranger, a renumbered or unplugged interface.
`BeaconsServed` and `Meet` are about interfaces whose one address was bound and
stayed (`Steady`); section 4 says what becomes of the others.

*Table.* With three slots the walk wraps, tombstones are passed, reused and fill
the table, and a fourth key is refused.

Runs that end when everything has been sent and read, or whose node may be told
to stop, do not check for deadlock: those of `Session`, `Client`, `Routing` and
`Lan`. The tree runs and `table` do.

### Fairness

* Tree: `serve_links` ticks every second and reads every link in each turn (weak
  fairness of `Maintain` and of `ReadFrame` per link); a completed handshake is
  handed to the node loop (`Register`); a dead link is noticed by the next read
  (`Evict`); a configured peer is redialled for ever (`Open`); the clock
  advances (`Tick`). `Cut` is never forced. `Converges` is checked with the
  clock before the first expiry, because of finding 1.
* Client: the node task runs (`Loop`) while no peer keeps it from writing: reads,
  dials and handshakes have a timeout, the writes of the node task have none
  (`link.rs:853`), so a peer that stops reading may hang the node in one
  (`Writable`). Every dial ends, because each of its steps has a timeout; the
  task of an admin connection runs; time passes. `AllAnswered` therefore says
  that, if every peer that stops reading reads again or goes away, each request
  is answered unless the process ends first. Nothing else is assumed of peers,
  operators or the network.
* Lan: the discovery task runs, a dial that was started connects or fails, a
  connection gets on (both ends write before they read, and a silent one times
  out), an interface that went down comes up and duplicate address detection
  ends. Beacons may be lost, at most `MaxFaults` of them.

## 4. Findings

1. `tree_reannounces`. `do_root2` is true only in `TreeState::default`. Once
   `fix` has cleared it no code sets it again, so `become_root` runs once in a
   router's life. At `TREE_REFRESH` a root drops its own info and never makes
   another; the rest of the network follows at `TREE_TIMEOUT`. A router that
   loses its parent without having another candidate is stranded the same way.
2. `client_dead_node`. A connection that ends inside a frame reads as
   `InvalidLength`, which is not `is_link`. `serve_links` returns the error of
   the last link as it is (`driver.rs:618`) and `Node::run` ends on every error
   that is not `is_link`, so a node with one peer stops when that peer's
   connection breaks in the middle of a frame. The same happens when a read
   times out inside a frame (`driver.rs:592`): `read_frame` is dropped with what
   it had read, and the next read takes payload for a length.
3. `routing_sealed`. `pathfinder_send` writes the held payload of a lookup and
   leaves `pending_is_app` as it was (`pathfind.rs:621`). A sealed payload that
   takes the place of an application payload is sealed again when the notify
   arrives, and the far end cannot open it.
4. `session_second_flight`. After a crossed open both ends stand at
   `local_key_seq` 4 and `remote_key_seq` 3. The end that opens the other's
   second payload rotates to 5 and 4, and what it sends from then on fits none of
   the three arms of `decrypt` at the other end (`session.rs:655`), until the init
   that answers it has repaired the session. So one payload of the second flight
   is lost in a network that loses nothing, where `router.rs:1061` says that it
   "delivers both ways". When the two payloads cross on the wire both are opened;
   the loss is of one that is sent after the other was opened. `OneMissed` shows
   that one payload is the whole loss.
5. `session_at_least_once`. `serve_links` takes the whole outbox and leaves it at
   the first write that fails (`driver.rs:563`); the payloads behind it are
   dropped, and among them those that were put in front because their own write
   had failed, against "at-least-once" at `session.rs:250` and `driver.rs:536`.
   `WrittenOrAccounted` shows that there is no further way to lose one.

Observations made while modelling, without a run of their own:

* Tree. `fix` may attach a router to a key it has no link to: answers survive
  the link they came over, and a candidate with a lower root is taken whatever
  its cost (`tree.rs:499`, against the comment at `tree.rs:420`). A reconnect
  reuses the open request of a known key (`driver.rs:61`). After a router's own
  info has expired, `new_req` starts from sequence 1 again (`tree.rs:239`).
* Session. `next_init_seq` is pushed past the clock by every message handled,
  and a restart puts it back to the clock: until the clock has caught up the
  peer refuses every init of the restarted router, and is kept from expiring
  the old session by the very inits it refuses (`router.rs:108`). `resend`
  keeps no kind, so a nodeinfo or debug message whose write failed is sent
  again as application traffic (`session.rs:422`). A payload that waits for its
  session is dropped when the ack it should follow cannot be written.
* Links. `LinkSet::send` retires a link and leaves its `LinkState` with the
  tree; so do a dial result nobody waits for and a registration that fails.
  `last_write` is never pruned. When a peer connects to us while our dial to it
  is in flight, `mark_live` later overwrites the accepted link in the row, and
  `mark_failed` clears it although that link is up.
* Routing. A router without its own info skips the watermark (`LoopFree`
  excuses frames it passed on). Lookups carry no hop count. Traffic of our own
  without a next hop is dropped silently. A broken path whose notify carries
  unchanged coordinates stays broken until it expires. A peer that left the tree
  is recorded as sent a blank filter that is never written.
* Client. `remote_body` reads every answer as JSON, but those of `getPeers` and
  `getTree` are bare keys. An answer that arrives after its question timed out
  stays in `proto_inbox` and answers the next question of its kind
  (`AnsweredOnce` shows it answers no second one). A packet that
  `send_or_resolve` refuses is lost; packets that are not for the mesh do not
  count toward the 64 of a tick; without a TUN device the session inbox is never
  drained.
* Discovery. A listener that would not bind is not asked for again, although
  `client/src/multicast.rs:453-455` says the next tick tries. `tick` swallows
  Unbind, so a listener stays at its old address after the interface was
  renumbered, and is advertised with the new one. The password of a multicast
  row is not given to its listener, so nodes of a password group find each other
  and never link. Addresses that cannot be bound sort first. An interface that
  beacons without listening has no socket to beacon from.
* Hash table. `compact` is never called outside tests.

## 5. What is proved

### TreeProofs

For every finite set of integer keys, every set of edges, every number of
failures and every clock bound:

* `TypeCorrect`: `Spec => []TypeOK`
* `PortAgreement`: `Spec => []PortsAgree`
* `CurrentAnswers`: `Spec => []AnswersAreCurrent`
* `DistinctSiblings`: `Spec => []SiblingsDiffer`
* `FreshInvariance`: `Spec => [](IInv /\ FreshInv)`
* `OwnFreshest`: `Spec => []OwnInfoFreshest`
* `TicksDelivered`: `Spec => []SentMeansDelivered`

from the named assumptions of `Tree` (`NodeAssumption`, `NonceAssumption`,
`TimerAssumption`, `NoneAssumption`).

The argument. None of the properties is inductive. A router's info is made of
an answer it kept, the answer came out of a channel, and the channel got it
from the parent's book, possibly several links ago. `IInv` (`Invariance`)
therefore states the agreement along that whole way (`SoundTree` for infos and
answers, `Channel` for frames), together with `Books`: a book numbers its keys
apart, below its counter, and leaves out its own key. The last point is what
keeps a router from vouching for itself under a port. Ports are written once
(`EnlistFacts`), so whatever agreed with the books keeps agreeing with them
(`BooksKept`). Each operator of a tick preserves `Fine`, agreement of a state
under construction, and one lemma per action puts the parts together.

`OwnInfoFreshest` and `SentMeansDelivered` need a second invariant, `FreshInv`,
on top of the first. What is ticked off may still be on its way, and what
arrives was written long before; so `Told` says of every announce in a channel
that its sender still knows as much. An announce that loses against what the
receiver holds must nevertheless leave it as well informed as the announce
says: the precedence rule compares neither ports nor anything else of an
answer, and it is total only because `IInv` makes the port a function of key and
parent (`FreshTotal`). Nothing may be forgotten meanwhile, hence `Lasts`: every
deadline lies at or beyond `TREE_REFRESH`, and so do the properties' limits.
`SpreadStep` is the step argument for all actions; a step has to show that it
forgets nothing, knows what it writes, and drops unread frames on dead
transports only. The two places where it is close are `send_announces`, which
ticks off before it writes and stops at a link that refuses, and `register`,
whose replay has to name every key ticked off (`SetToSeqsRange`).

Two lemmas are about the pure definitions. `LineExists`: every key has a line,
a sequence of known keys without repetition that cannot be extended; it is the
longest climb, which exists because climbs are injective and so no longer
than the network is large. `PickType`: the filter of `send_announces` returns
exactly members at the kept positions; the ranks of those positions are a
bijection.

### TableProofs

For every finite set of keys, every set of values, every capacity, zero
included, and every hash function:

* `TableInvariance`: `Spec => []IInv`
* `ChainsHold`: `Spec => []Chained`
* `TableIsMap`: `Spec => IsMap`, the refinement of `BoundedMap`

from `SizeAssumption`, `HomeAssumption` and `NoneAssumption` of `Table`.

The argument. `IInv` says of the table, and of the one `compact` reads: it has
its type, `tombs` counts the tombstones, no key is live in two slots, and no
walk to a live key crosses a slot never used. While `compact` runs, the new
table holds exactly the entries of the slots already read (`Copied`). The walks
are the core: because `Probe` is a bijection between steps and slots, a walk
that neither finds the key nor a slot never used has seen every slot; so a key
that is live is found, an insert that finds no room has N live slots before it,
and a tombstone that is reused lies before any later live slot of the key.
`len` is right because the slots in use are the live ones and the tombstones,
and live slots and live keys are in bijection. Each call then is the call of
the map, and the steps of `compact` but the last are stutters.

### AddressProofs

For every size of bytes, keys, addresses and subnets that `AddressAssumption`
allows (a subnet is not longer than an address, and the count falls at most one
short of the bits of a key, as 255 does of 256):

* `AddressesResolve`: `Resolves`, for every key and every address of its node
  or its subnet, the key that is looked up has the node's transformed key

The argument. `SameSubnet`: an address that keeps the count and the subnet's
share of the bits gives a key with the same subnet. If the key has a bit that
is set, its place is the stored count, so it comes back at the same place, the
same bits behind it fill bytes, and they come back as they were. The key of
zeros has no such bit: its count may fall one short, so that its last bit comes
back set, but then nothing is left behind it and the count stays the same.

### RoutingProofs

For every finite set of routers, every set of edges, every tree to start from,
every choice of bits, all capacities, timeouts and bounds:

* `Invariance`: `Spec => []IInv`
* `NoLoops`: `Spec => []LoopFree`
* `PayloadsToOwner`: `Spec => []ToOwner`
* `FiltersDelivered`: `Spec => []BloomsDelivered`
* `CopiedNever`: `Spec => []OneCopy`
* `LookupsEnd`: `Spec => []LookupOnce`
* `FiltersSettle`: `Room => (Spec => [](AllOneTree => BloomsSettle))`

from `RoutingAssumption` (no two nodes share a transformed key, every key sets
some bit of a filter, `None` is no node, no truth value and no filter),
`HomeAssumption` (everybody has coordinates in the tree to start from) and
`AddressAssumption`.

`FiltersSettle` names what the small instance has anyway. `Room`: no router has
more peers than the on-tree table tracks (`CAPACITY`, 64 in `bloom.rs`); the
code says that the next one is not advertised to. `AllOneTree`: the infos, which
at rest all routers share, make one tree of the links. `Parents` may hold any
parents, also ones that make a cycle or use an edge that is not there, and
filters promise nothing then; that `Tree` comes to one tree is `Converges`. In
the `routing` run every state at rest is such a tree.

The argument. The types of frames and rumors carry what is to be shown of them.
A frame that travels greedily is `Nearing`: it has made no more hops than its
watermark has come down, unless a router without coordinates passed it on; a
next hop exists only where the router's own distance is below the watermark, and
that distance becomes the watermark (`OnwardType`). That distances are numbers
needs `PathLen`: where the infos reach a root there is a nearest one. A rumor
`Fits` its key: what waits in it is for the node with that transformed key. By
`AddressesResolve` the lossy key of an address leads to that same key, and as no
two nodes share one, the notify that finds the rumor is from the owner
(`OwnerOf`, `FlushType`). One lemma per operator says that it keeps the types
and, as `Kept` and `SameBlooms`, what it leaves alone.

For `BloomsDelivered`, `LinkInv` says of every link that what its reader will
end with (`LastHeld`: the last filter in the channel, or the one it holds) is
what the writer has recorded, unless that record is blank and the peer is not on
the tree. The exception is what makes it inductive: `bloom_fix` blanks the
record of a peer that left the tree without writing to it. When the peer comes
back, the filter for it is not blank, since it has our own key in it
(`BloomForType`), and so it is written. That the reader takes it needs that a
peer with a link is on its books, which `bloom_handle` asks for.

For `OneCopy`, a copy of a payload is a spot: a slot of a rumor, a place in a
channel, a place among what was delivered. `CopyInv` says that no payload has two
spots and that none has a number that was not yet given out. A handler either
leaves the spots alone, or empties one and fills at most one instead (the slot
`handle_notify` takes, the frame it reads), or fills one for a new payload. A
payload that is put where another waits replaces it. One lemma per operator says
which of these it does, and `Step` carries it from the turn of a router to the
whole network, where reading a frame moves those behind it up by one.

For `LookupOnce`, a tree link has two `Side`s. `LookupInv` says that while the
tree stands still a lookup on its way over a link has passed only routers of the
side it comes from, each once. It goes on over tree links other than the one it
came over, and whoever goes on leaves a larger side behind, to which the router
that passed it on now belongs (`OwnSide`). That the sides part the tree needs
that it has no cycle. This comes from `HomeAssumption`: `RootPath` climbs by
recursion, `ClimbExists` shows with the least counterexample that the recursive
function is what its equation says, and `PathFacts` that a set that holds a
node's parent along with the node holds a root, if it holds anybody who has
coordinates.

For `BloomsSettle`, `KnownInv` says that the on-tree table has just peers in it
and, given `Room`, every linked one. A tick that changes nothing (`RestTells`)
leaves in the record of every tree neighbour our own key and what the other
neighbours told us; as the links are empty, that is what the neighbour holds
(`LinkInv` again). So filters flow (`Flows`) over the tree: a key is known above
it, all the way to the root (`FlowsUp`), and from every node on that way to all
its other branches (`FlowsDown`; a set of nodes that lack the key would hold
their parents too, up to the root, where one of the children has it).

What the proofs changed. The repeated lookups were a fold of `rumor_lookup` in
some fixed order; they are now one step per order the table may have, with the
frames they write (`Pick`). Frames keep what forwarding changes in a field of
its own.

### SessionProofs

For every finite set of routers, every nonce space, every timeout and every
number and mix of the faults of `Session` (loss, repetition, reordering, failed
writes, restarts):

* `SessionInvariance`: `Spec => []IInv`
* `SessionTypes`: `Spec => []TypeOK`
* `NoncesOnce`: `Spec => []SealsUnique`
* `BoxesOnce`: `Spec => []OpenedOnce`
* `KindsAreKept`: `Spec => []KindKept`

from `NodeAssumption`, `FaultsAssumption`, `NonceAssumption`,
`TimerAssumption`, `BoundAssumption` and `NoneAssumption` of `Session`.

The argument. A seal is determined by a pair of keys and a nonce, and an end
changes its pair in three ways (an update, a wrap, a rotation), of which only
two restart the nonce. What keeps a pair from coming back is that keys only get
older: `IInv` orders the keys of a session by serial number (`Owned`: recv
before send before next, the peer's current before its next), and says that a
key which is still somebody's next has never been sealed under (`Shown` are the
others). Every ratchet moves next to send, so the new send key is new to
everyone, and `Sealing` follows: whatever was sealed under the secret a session
stands at was sealed by that session, below its nonce. `Mates` covers the
secrets a session has left, `Uncrossed` the other end: two sessions never stand
at the same secret, since one of the two keys of a crossed pair would be next.
`Letters` and `Boxes` carry this through the network: an init, an ack or a box
names keys its sender owned, whenever it arrives. This is why `SealsUnique`
needs nothing of the order of delivery.

For `OpenedOnce`, `AllSeen` relates every opening to the session as it is now:
it happened in an earlier stretch, or in this one with a nonce at or below the
floor of the pair it was opened under (`Before`). A rotation hands each floor
on with its key, which is the case the property is about. For `KindKept`,
`KindsFit` says that a payload waits, in the outbox, behind an init or for the
next link, as the kind it will be sealed as.

A handler that opens a box and answers it, or opens a session and flushes the
slot, takes two steps of the keys in one action. The predicates are therefore
parameterised by the parts of the state, and each step is proved to preserve
them by itself (the lemmas `...Keeps` for keys and openings, `...Fits` for
kinds).

What the proof changed. `OpenedOnce` was stated without stretches and held at
the bounds of the run only; the attempt to make it inductive led to the
interleaving in which it fails (an old ack, delivered late). `KindKept` was
stated for behaviours without failed writes; it now says for all behaviours
when a kind may be lost.

### ClientProofs

For every finite set of names, every set of connections, questions, packets and
worlds, and all bounds:

* `ClientInvariance`: `Spec => []IInv`
* `ClientTypes`: `Spec => []TypeOK`
* `DialsAreRun`: `Spec => []DialsRun`
* `ServedKnown`: `Spec => []ServedAreKnown`
* `AnswersOnce`: `Spec => []AnsweredOnce`
* `PacketsAreKept`: `Spec => []PacketsKept`
* `StaleDialsDropped`: `Spec => StaleDialDropped`, an action property
* `PromisesKept`: `Spec => KeepsPromises`, the refinement of `Peering`

from `InfoAssumption`, `PumpAssumption`, `ClientAssumption`,
`RequestAssumption` and `ListingAssumption`: `None` is none of the values it
stands beside, the sets are of the types the code gives them.

The argument is one of ownership, four times. A dial has a token of its own,
and the task that runs it or the event that reports it is the only one with
that token (`TokensKept`); a row that waits, waits for one that exists and that
no removal has made void (`RowsWait`), so a report finds the row that started
the dial or none. A link is in one row, one command or one event (`LinksKept`).
The one-shot channel of an admin connection is in one command or one waiting
question (`Outstanding`). A remote answer is away, in the inbox or given out
(`AnswersKept`), and a question that was sent is older than the next one its
connection asks (`SentAreOld`), which makes `AnsweredOnce` inductive. The
packets of the mesh, written, waiting and in the inbox, are 1 to the number
that arrived, in order; those read from the kernel are sent in order, refused,
or not wanted, each exactly once (`PacketsPlaced`). The last one rests on
`SubsequenceProofs`: a batch is the members of the queue at certain positions,
and `InOrder` says that `Pick` neither repeats nor reorders them.

For the refinement every action is shown to be a step of `Peering` or to leave
the listing alone. The parts that matter are `LinksKept`, without which a link
could appear under two names, and `RowsWait`, without which a peer could be
dialled while it has a link.

### LanProofs

For every set of nodes, interfaces and ports, and every configuration:

* `LanInvariance`: `Spec => []IInv`
* `TypeCorrect`: `Spec => []TypeOK`
* `PrioritiesAgree`: `Spec => []SamePriority`
* `GroupsKept`: `Spec => []GroupKept`
* `BeaconsTrue`: `Spec => []BeaconsServed`

from `LanAssumption` and `IntervalAssumption` (keys and ports are numbers, an
interface has finitely many addresses, a configuration has its type).

The argument. `GroupKept` goes from the row to the link: an interface is
configured with the password of its row (`CfgKept`), a beacon hashes that
password with the key of its sender (`HashKept`), so an answered beacon is from
a node of one's own group and the dial pins its key (`CallsKept`), and the
handshake takes no other key (`ConnsKept`). `SamePriority` is the last of
these: both ends end up with the priority in the URI. `BeaconsServed` needs
what lies between the socket and the beacon: on an interface nothing has spoilt
the address is one of the first ones (`AddrsKept`), and both the listener the
task noted and the port the announce machine was told of are bound there
(`PortsKept`).

What the proofs changed. The cases of `Discovery.Asks` and
`Handshake.RunHandshake` overlapped, which a `CASE` leaves open and TLC decides
by order; they are now tested in the order of the code.

### Only model-checked

* Liveness: `Converges`, `AllAnswered`, `Meet`. Fairness is out of the prover's
  reach.
* `Found` of `Routing`. It says that something happened: that a flood covered the
  tree, that the answer came nearer at every hop, that no entry expires before
  its rumor. Its invariant would need, for every rumor without a path, a frame on
  its way that leads to one, and so how distances between coordinates change
  along the tree.
* What `MCSession` says: `WrittenOrAccounted` follows a payload through every
  step of `Session`; `OneMissed` and `LateRecovers` are about the calm that
  follows and count what is lost in it.

## 6. Not modelled

* Several links to one key, and `best_link`'s choice between them, with
  `write_all` stopping at the first that refuses; byte counters and rates.
* The lazy keepalive, and the blocking `resolve` used by examples.
* The uvarint framing and the wire form of every message: pure codecs, whose
  round trips the repository's tests cover byte by byte. Only that a frame can
  end early is in `Client`.
* Clocks, `rng` and the text form of addresses: functions of their arguments.
* WebSocket, QUIC and certificate code: adapters around other libraries without
  protocol state of their own. TCP and TLS appear in `Lan` as far as they
  connect, accept, time out and fail.
* Parsing of configuration, flags and URIs, and the JSON of admin answers:
  formatting over state other modules have.
* Opening the TUN device and its MTU: calls of the operating system.

## 7. Plan

Next to prove: `Found` of `Routing`, with the distance between coordinates as the
length of the way over the tree. Next to model: a link set with several links
per key, composed with `Tree`.
