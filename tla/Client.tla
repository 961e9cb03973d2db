------------------------------- MODULE Client -------------------------------
(***************************************************************************)
(* The client: the node task of client/src/node.rs with its link table, its *)
(* link set and the serve slice it lends them to, the dial tasks, the       *)
(* listeners of client/src/listen.rs, and the connections of the admin      *)
(* socket, client/src/admin.rs.                                             *)
(*                                                                         *)
(* Only the node task touches the router, the link set and the table.       *)
(* Everyone else reaches it through the mailbox `cmds' and the dial results *)
(* `events', and hears back through a one-shot channel, which is named here *)
(* by the admin connection that waits on it.                                *)
(***************************************************************************)
EXTENDS LinkTable, Tun, SequencesExt

CONSTANTS
  Conn,            \* connections to the admin socket
  What,            \* remote questions: a node key and one of the four queries
  Flows,           \* packets of the kernel: where they come from and go to
  Raw,             \* those answered with bare keys (getPeers, getTree)
  REMOTE_TIMEOUT,
  Worlds,          \* sets of things the environment may do, one is chosen
  MaxLinks,        \* bound on connections that come up
  MaxSubmits,      \* bound on dials and discoveries submitted
  MaxBackoffs,     \* bound on backoffs that run out
  MaxAsks,         \* bound on admin requests
  MaxPackets       \* bound on packets, from the mesh and from the kernel

ASSUME ClientAssumption ==
  /\ None \notin Conn
  /\ None \notin Conn \X Nat
  /\ Raw \subseteq What
  /\ Flows \subseteq Place \X Place
  /\ {REMOTE_TIMEOUT, MaxLinks, MaxSubmits, MaxBackoffs, MaxAsks, MaxPackets} \subseteq Nat

VARIABLES
  table,       \* Links: the rows
  next_token,
  set,         \* LinkSet: the links being served
  book,        \* tree.links of the router: links with a LinkState
  cmds,        \* the mailbox
  events,      \* results of dials
  pending,     \* remote questions waiting for an answer
  proto_inbox,
  tun,         \* the TUN device, if one is attached
  inbox,       \* payloads of sessions
  quit,
  pc,          \* where Node::run is: "cmds", "dials", "serve" or "stopped"
  tasks,       \* dial tasks in flight
  sock,        \* the sockets of the links that ever came up
  conn,        \* the admin connections
  away,        \* remote requests whose answer has not arrived
  env,         \* what may happen in this behaviour
  spent,       \* how much of the bounds is used up
  void,        \* history: tokens whose row was removed during the dial
  given        \* history: <<question, answer>> pairs handed out

node == <<table, next_token, set, book, pending, proto_inbox, tun, inbox, quit>>
hist == <<void, given>>
vars == <<node, cmds, events, pc, tasks, sock, conn, away, env, spent, hist>>

Ids == DOMAIN sock

\* What a dial task brings back: the link it made, or None if it failed.
LinkEvent == [token : Nat, id : Ids \cup {None}]

\* Cmd.  `respond' is the connection that waits, or None.
Cmd ==
  [op : {"dial"}, uri : Info \cup {None}, kind : {"persistent", "ephemeral"}, respond : Conn \cup {None}]
  \cup [op : {"drop"}, uri : Info, respond : Conn \cup {None}]
  \cup [op : {"accept"}, uri : Plain \cup {None}, id : Nat]
  \cup [op : {"report", "tun"}, respond : Conn]
  \cup [op : {"remote"}, what : What, respond : Conn]
  \cup [op : {"send", "quit"}]

\* Requests on the admin socket.  "local" stands for those the task of the
\* connection answers alone: list, getMulticastInterfaces, and whatever
\* decode_args or the checks around it refuse.
LocalRequest == [op : {"local"}, keepalive : BOOLEAN]

\* What a Snapshot of the node or the TUN device answers.
ReportRequest == [op : {"report", "tun"}, keepalive : BOOLEAN]

\* change_peer: an "addpeer" of None is one whose URI does not parse.
PeerRequest ==
  [op : {"addpeer"}, uri : Info \cup {None}, keepalive : BOOLEAN]
  \cup [op : {"removepeer"}, uri : Info, keepalive : BOOLEAN]

RemoteRequest == [op : {"remote"}, what : What, keepalive : BOOLEAN]

Request == LocalRequest \cup ReportRequest \cup PeerRequest \cup RemoteRequest

ASSUME RequestAssumption == None \notin Request

\* admin_conn: requests not read yet, the one being answered, and the outcomes
\* of those answered.
AdminConn ==
  [open : BOOLEAN, todo : Seq(Request), busy : Request \cup {None}, replies : Seq(BOOLEAN)]

-----------------------------------------------------------------------------
(* Answering.  A one-shot sender wakes the task of the connection, which     *)
(* writes the reply and reads on only if the request asked for keepalive.    *)

Answered(c, ok) ==
  [conn[c] EXCEPT !.busy = None, !.replies = Append(@, ok), !.open = conn[c].busy.keepalive]

Respond(c, ok) ==
  conn' = IF c = None THEN conn ELSE [conn EXCEPT ![c] = Answered(c, ok)]

\* Node::run returns and main ends the process: every connection closes, and
\* whoever still waits is not told why.
Stop ==
  /\ pc' = "stopped"
  /\ conn' = [c \in Conn |-> [conn[c] EXCEPT !.open = FALSE, !.busy = None]]

-----------------------------------------------------------------------------
(* Node::on_cmd *)

OnDialCmd(cmd) ==
  /\ cmd.op = "dial"
  /\ table' = IF cmd.uri = None THEN table ELSE Add(table, cmd.uri, cmd.kind)
  /\ Respond(cmd.respond, cmd.uri # None /\ table[cmd.uri] = None)
  /\ UNCHANGED <<set, book, sock, pending, quit, away, void>>

\* The row goes, and with it the link it holds.
OnDrop(cmd) ==
  /\ cmd.op = "drop"
  /\ LET row == table[cmd.uri] IN
     /\ table' = RemoveRow(table, cmd.uri)
     /\ IF row = None \/ row.live = None
        THEN UNCHANGED <<set, book, sock>>
        ELSE /\ set' = set \ {row.live}
             /\ book' = book \ {row.live}
             /\ sock' = [sock EXCEPT ![row.live] = IF row.live \in set THEN "closed" ELSE @]
     /\ void' = IF row = None \/ row.dialing = None THEN void ELSE void \cup {row.dialing}
     /\ Respond(cmd.respond, row # None)
  /\ UNCHANGED <<pending, quit, away>>

\* Router::register writes to the new link before it is in the set; on a dead
\* socket that may fail, and the LinkState stays behind.
Registers(id) == IF sock[id] \in {"eof", "cut"} THEN BOOLEAN ELSE {TRUE}

OnAccept(cmd) ==
  /\ cmd.op = "accept"
  /\ IF cmd.uri # None /\ Busy(table, cmd.uri)
     THEN /\ sock' = [sock EXCEPT ![cmd.id] = "closed"]
          /\ UNCHANGED <<table, set, book>>
     ELSE /\ book' = book \cup {cmd.id}
          /\ \E ok \in Registers(cmd.id) :
               IF ok
               THEN /\ table' = IF cmd.uri = None THEN table ELSE Accept(table, cmd.uri, cmd.id)
                    /\ set' = set \cup {cmd.id}
                    /\ sock' = sock
               ELSE /\ sock' = [sock EXCEPT ![cmd.id] = "closed"]
                    /\ UNCHANGED <<table, set>>
  /\ UNCHANGED <<conn, pending, quit, away, void>>

\* Report and Tun: an answer, and nothing changes.
OnReport(cmd) ==
  /\ cmd.op \in {"report", "tun"}
  /\ Respond(cmd.respond, TRUE)
  /\ UNCHANGED <<table, set, book, sock, pending, quit, away, void>>

\* Remote: the request is handed to the session layer, which may refuse it
\* (a failed write); otherwise the question waits.
\* A question is told apart by the connection and its place there.
Question(c) == <<c, Len(conn[c].replies)>>

OnRemote(cmd) ==
  /\ cmd.op = "remote"
  /\ \/ /\ pending' = Append(pending, [what |-> cmd.what, age |-> 0, respond |-> cmd.respond, q |-> Question(cmd.respond)])
        /\ away' = away \cup {[what |-> cmd.what, q |-> Question(cmd.respond)]}
        /\ conn' = conn
     \/ /\ "write" \in env
        /\ Respond(cmd.respond, FALSE)
        /\ UNCHANGED <<pending, away>>
  /\ UNCHANGED <<table, set, book, sock, quit, void>>

\* Send: the payload joins the outbox that serve is lent, which is `outgoing'
\* of Session; nothing else of the node changes.
OnSend(cmd) ==
  /\ cmd.op = "send"
  /\ UNCHANGED <<table, set, book, sock, conn, pending, quit, away, void>>

OnQuit(cmd) ==
  /\ cmd.op = "quit"
  /\ quit' = TRUE
  /\ UNCHANGED <<table, set, book, sock, conn, pending, away, void>>

OnCmd ==
  /\ pc = "cmds"
  /\ cmds # <<>>
  /\ cmds' = Tail(cmds)
  /\ LET cmd == Head(cmds) IN
     \/ OnDialCmd(cmd) \/ OnDrop(cmd) \/ OnAccept(cmd) \/ OnReport(cmd)
     \/ OnRemote(cmd) \/ OnSend(cmd) \/ OnQuit(cmd)
  /\ UNCHANGED <<next_token, proto_inbox, tun, inbox, events, pc, tasks, env, spent, given>>

CmdsDrained ==
  /\ pc = "cmds"
  /\ cmds = <<>>
  /\ pc' = "dials"
  /\ UNCHANGED <<node, cmds, events, tasks, sock, conn, away, env, spent, hist>>

-----------------------------------------------------------------------------
(* Node::on_dial *)

OnDial ==
  /\ pc = "dials"
  /\ events # <<>>
  /\ events' = Tail(events)
  /\ LET ev == Head(events) IN
     \/ /\ ev.id = None
        /\ table' = MarkFailed(table, ev.token)
        /\ UNCHANGED <<set, book, sock>>
     \/ /\ ev.id # None
        /\ book' = book \cup {ev.id}
        /\ \E ok \in Registers(ev.id) :
             /\ table' = IF ok THEN MarkLive(table, ev.token, ev.id) ELSE MarkFailed(table, ev.token)
             /\ IF ok /\ \E u \in Info : Waits(table, u, ev.token)
                THEN set' = set \cup {ev.id} /\ sock' = sock
                ELSE set' = set /\ sock' = [sock EXCEPT ![ev.id] = "closed"]
  /\ UNCHANGED <<next_token, pending, proto_inbox, tun, inbox, quit, cmds, pc, tasks, conn, away, env, spent, hist>>

\* What run does between the mailbox and the slice: note_liveness, start_due.
Plan ==
  /\ pc = "dials"
  /\ events = <<>>
  /\ LET t == NoteLiveness(table, set) IN
     \E f \in Numberings(t, next_token) :
       /\ table' = StartDue(t, f)
       /\ next_token' = next_token + Cardinality(DOMAIN f)
       /\ tasks' = tasks \cup {[token |-> f[u], uri |-> u] : u \in DOMAIN f}
  /\ pc' = "serve"
  /\ UNCHANGED <<set, book, pending, proto_inbox, tun, inbox, quit, cmds, events, sock, conn, away, env, spent, hist>>

-----------------------------------------------------------------------------
(* Router::serve, as far as the node can tell: links leave the set, answers  *)
(* to remote questions come in.                                              *)

\* A frame the peer sent only in part when its read times out: what was read
\* of it is lost, and the next read starts inside the frame.
ReadTimesOut(id) ==
  /\ pc = "serve"
  /\ id \in set
  /\ sock[id] = "half"
  /\ sock' = [sock EXCEPT ![id] = "garbled"]
  /\ UNCHANGED <<node, cmds, events, pc, tasks, conn, away, env, spent, hist>>

\* read_frame of a stream that ended or lost its place.
ReadFails(id) == sock[id] \in {"eof", "cut", "garbled"}

\* A link that was closed between frames fails with an I/O error, one that
\* was closed inside a frame or lost its place with InvalidLength.
IsLinkError(id) == sock[id] = "eof"

\* Mutant: the LinkState goes, the link stays.
EvictForgetsOnly(id) ==
  /\ pc = "serve"
  /\ id \in set
  /\ ReadFails(id)
  /\ book' = book \ {id}
  /\ UNCHANGED <<table, next_token, set, pending, proto_inbox, tun, inbox, quit, cmds, events, pc, tasks, sock, conn, away, env, spent, hist>>

\* The read error branch of serve_links.  The error of the last link ends the
\* slice, and if it is not a link error it ends Node::run.
Evict(id) ==
  /\ pc = "serve"
  /\ id \in set
  /\ ReadFails(id)
  /\ set' = set \ {id}
  /\ book' = book \ {id}
  /\ sock' = [sock EXCEPT ![id] = "closed"]
  /\ IF set' = {} /\ ~IsLinkError(id) THEN Stop ELSE UNCHANGED <<pc, conn>>
  /\ UNCHANGED <<table, next_token, pending, proto_inbox, tun, inbox, quit, cmds, events, tasks, away, env, spent, hist>>

\* A write that is refused: LinkSet::send retires the link; its LinkState
\* stays with the router.
Retire(id) ==
  /\ pc = "serve"
  /\ id \in set
  /\ sock[id] \in {"eof", "cut"}
  /\ set' = set \ {id}
  /\ sock' = [sock EXCEPT ![id] = "closed"]
  /\ UNCHANGED <<table, next_token, book, pending, proto_inbox, tun, inbox, quit, cmds, events, pc, tasks, conn, away, env, spent, hist>>

\* The answer to a remote request is filed in proto_inbox.
AnswerArrives ==
  /\ pc = "serve"
  /\ \E a \in away :
       /\ proto_inbox' = Append(proto_inbox, a)
       /\ away' = away \ {a}
  /\ UNCHANGED <<table, next_token, set, book, pending, tun, inbox, quit, cmds, events, pc, tasks, sock, conn, env, spent, hist>>

\* A payload of a session is filed in the inbox.
PacketArrives ==
  /\ pc = "serve"
  /\ "packets" \in env
  /\ set # {}
  /\ spent.mesh < MaxPackets
  /\ spent' = [spent EXCEPT !.mesh = @ + 1]
  /\ inbox' = Append(inbox, spent.mesh + 1)
  /\ UNCHANGED <<table, next_token, set, book, pending, proto_inbox, tun, quit, cmds, events, pc, tasks, sock, conn, away, env, hist>>

-----------------------------------------------------------------------------
(* The end of a turn: settle_remote and pump_tun.                            *)

\* remote_body: an answer of bare keys is not the JSON it is taken for.
RemoteBody(what) == what \notin Raw

\* Mutants: an answer stays in the inbox, or a question never times out.
SettleOneKeeps(acc, p) ==
  LET hits == {i \in DOMAIN acc.inbox : acc.inbox[i].what = p.what}
      done(ok, of) == Append(acc.done, [respond |-> p.respond, q |-> p.q, of |-> of, ok |-> ok])
  IN IF p.age >= REMOTE_TIMEOUT THEN [acc EXCEPT !.done = done(FALSE, None)]
     ELSE IF hits = {} THEN [acc EXCEPT !.still = Append(@, p)]
     ELSE LET i == CHOOSE i \in hits : \A j \in hits : i <= j IN
          [acc EXCEPT !.done = done(RemoteBody(p.what), acc.inbox[i].q)]

SettleOneWaits(acc, p) ==
  LET hits == {i \in DOMAIN acc.inbox : acc.inbox[i].what = p.what}
      done(ok, of) == Append(acc.done, [respond |-> p.respond, q |-> p.q, of |-> of, ok |-> ok])
  IN IF hits = {} THEN [acc EXCEPT !.still = Append(@, p)]
     ELSE LET i == CHOOSE i \in hits : \A j \in hits : i <= j IN
          [acc EXCEPT !.inbox = RemoveAt(@, i),
                      !.done = done(RemoteBody(p.what), acc.inbox[i].q)]

\* One question of settle_remote: timed out, answered by the first answer of
\* its kind, or still waiting.
SettleOne(acc, p) ==
  LET hits == {i \in DOMAIN acc.inbox : acc.inbox[i].what = p.what}
      done(ok, of) == Append(acc.done, [respond |-> p.respond, q |-> p.q, of |-> of, ok |-> ok])
  IN IF p.age >= REMOTE_TIMEOUT THEN [acc EXCEPT !.done = done(FALSE, None)]
     ELSE IF hits = {} THEN [acc EXCEPT !.still = Append(@, p)]
     ELSE LET i == CHOOSE i \in hits : \A j \in hits : i <= j IN
          [acc EXCEPT !.inbox = RemoveAt(@, i),
                      !.done = done(RemoteBody(p.what), acc.inbox[i].q)]

\* The first n questions, one after the other.
Settled[n \in 0 .. Len(pending)] ==
  IF n = 0 THEN [inbox |-> proto_inbox, still |-> <<>>, done |-> <<>>]
  ELSE SettleOne(Settled[n - 1], pending[n])

Settle == Settled[Len(pending)]

\* The two ways pump ends: with what there is to read or with the bound, or
\* with a packet that send_or_resolve refused.  Without a link it does not run.
Pumps(d) ==
  {[dev |-> Pumped(d, i, FALSE), err |-> "none"] :
     i \in IF set = {} THEN {0} ELSE {Max(Reads(d.kernel))}}
  \cup {[dev |-> Pumped(d, x[1], TRUE), err |-> x[2]] :
          x \in {y \in Reads(d.kernel) \X (env \cap {"write", "tunfails"}) :
                  set # {} /\ y[1] > 0 /\ Wants(d.kernel[y[1]])}}

\* pump_tun: the session inbox to the device, the kernel's packets to the mesh,
\* the device's outbox to the kernel.  A refusal that is not a link error, or a
\* write that fails, is the end of the device.  Without one the inbox stays.
PumpTun ==
  IF tun = None THEN UNCHANGED <<tun, inbox>>
  ELSE /\ inbox' = <<>>
       /\ \E p \in Pumps(Deliver(tun, inbox)) :
            \/ p.err = "tunfails" /\ tun' = None
            \/ p.err # "tunfails" /\ tun' = Flushed(p.dev, Len(p.dev.out))
            \/ p.err # "tunfails" /\ "tunfails" \in env /\ p.dev.out # <<>> /\ tun' = None

Turn ==
  /\ pc = "serve"
  /\ LET s == Settle
         done == ToSet(s.done)
     IN /\ proto_inbox' = s.inbox
        /\ given' = given \cup {<<d.q, d.of>> : d \in {d \in done : d.of # None}}
        /\ IF quit
           THEN Stop /\ pending' = <<>>
           ELSE /\ pc' = "cmds"
                /\ pending' = s.still
                /\ conn' = [c \in Conn |->
                              IF \E d \in done : d.respond = c
                              THEN Answered(c, (CHOOSE d \in done : d.respond = c).ok)
                              ELSE conn[c]]
  /\ PumpTun
  /\ UNCHANGED <<table, next_token, set, book, quit, cmds, events, tasks, sock, away, env, spent, void>>

-----------------------------------------------------------------------------
(* The other tasks *)

Spend(what) == spent' = [spent EXCEPT ![what] = @ + 1]

\* A configured peer, or one that was discovered, from main and multicast.
SubmitDial(u) ==
  /\ pc # "stopped"
  /\ "submit" \in env
  /\ spent.submits < MaxSubmits
  /\ Spend("submits")
  /\ \E kind \in {"persistent"} \cup (IF "discover" \in env THEN {"ephemeral"} ELSE {}) :
       cmds' = Append(cmds, [op |-> "dial", uri |-> u, kind |-> kind, respond |-> None])
  /\ UNCHANGED <<node, events, pc, tasks, sock, conn, away, env, hist>>

\* The program that embeds the node queues a payload, one at a time here, or
\* tells the node to leave its loop.
SubmitSend ==
  /\ pc # "stopped"
  /\ "send" \in env
  /\ \A i \in DOMAIN cmds : cmds[i].op # "send"
  /\ cmds' = Append(cmds, [op |-> "send"])
  /\ UNCHANGED <<node, events, pc, tasks, sock, conn, away, env, spent, hist>>

SubmitQuit ==
  /\ pc # "stopped"
  /\ "quit" \in env
  /\ \A i \in DOMAIN cmds : cmds[i].op # "quit"
  /\ ~quit
  /\ cmds' = Append(cmds, [op |-> "quit"])
  /\ UNCHANGED <<node, events, pc, tasks, sock, conn, away, env, spent, hist>>

\* Mutant: the id of the link is one too high.
DialEndsAbsent(t) ==
  /\ pc # "stopped"
  /\ t \in tasks
  /\ tasks' = tasks \ {t}
  /\ Len(sock) < MaxLinks
  /\ events' = Append(events, [token |-> t.token, id |-> Len(sock) + 2])
  /\ sock' = Append(sock, "up")
  /\ UNCHANGED <<node, cmds, pc, conn, away, env, spent, hist>>

\* A dial task ends.  Its result may find nobody reading.
DialEnds(t) ==
  /\ pc # "stopped"
  /\ t \in tasks
  /\ tasks' = tasks \ {t}
  /\ \/ /\ events' = Append(events, [token |-> t.token, id |-> None])
        /\ sock' = sock
     \/ /\ Len(sock) < MaxLinks
        /\ events' = Append(events, [token |-> t.token, id |-> Len(sock) + 1])
        /\ sock' = Append(sock, "up")
  /\ UNCHANGED <<node, cmds, pc, conn, away, env, spent, hist>>

\* A listener hands over a link, named by its remote address if it has one.
Listen ==
  /\ pc # "stopped"
  /\ "accept" \in env
  /\ Len(sock) < MaxLinks
  /\ sock' = Append(sock, "up")
  /\ \E u \in Plain \cup {None} : cmds' = Append(cmds, [op |-> "accept", uri |-> u, id |-> Len(sock) + 1])
  /\ UNCHANGED <<node, events, pc, tasks, conn, away, env, spent, hist>>

\* The far end: part of a frame arrives, the rest of it, or the end of the
\* stream, between frames or inside one; it stops reading what we write (it
\* is "deaf"), and reads again.
SocketMoves(id) ==
  /\ pc # "stopped"
  /\ sock[id] \in {"up", "half", "deaf"}
  /\ \E s \in CASE sock[id] = "up"   -> {"half", "eof", "deaf"}
               [] sock[id] = "half" -> {"up", "cut"}
               [] OTHER             -> {"up", "eof"} :
       /\ s \in env
       /\ sock' = [sock EXCEPT ![id] = s]
  /\ UNCHANGED <<node, cmds, events, pc, tasks, conn, away, env, spent, hist>>

\* next_retry is reached.
BackoffEnds(u) ==
  /\ pc # "stopped"
  /\ table[u] # None
  /\ ~table[u].due
  /\ spent.backoffs < MaxBackoffs
  /\ Spend("backoffs")
  /\ table' = [table EXCEPT ![u].due = TRUE]
  /\ UNCHANGED <<next_token, set, book, pending, proto_inbox, tun, inbox, quit, cmds, events, pc, tasks, sock, conn, away, env, hist>>

\* The kernel routes a packet to the device.
KernelSends ==
  /\ pc # "stopped"
  /\ "packets" \in env
  /\ tun # None
  /\ spent.kernel < MaxPackets
  /\ Spend("kernel")
  /\ \E flow \in Flows : 
       tun' = [tun EXCEPT !.kernel = Append(@, [id |-> spent.kernel + 1, src |-> flow[1], dst |-> flow[2]])]
  /\ UNCHANGED <<table, next_token, set, book, pending, proto_inbox, inbox, quit, cmds, events, pc, tasks, sock, conn, away, env, hist>>

\* Time passes for the questions that wait.
Tick ==
  /\ \E i \in DOMAIN pending : pending[i].age < REMOTE_TIMEOUT
  /\ pending' = [i \in DOMAIN pending |-> [pending[i] EXCEPT !.age = Min({@ + 1, REMOTE_TIMEOUT})]]
  /\ UNCHANGED <<table, next_token, set, book, proto_inbox, tun, inbox, quit, cmds, events, pc, tasks, sock, conn, away, env, spent, hist>>

-----------------------------------------------------------------------------
(* The admin socket *)

\* An operator writes a request; several may be on the wire.
Ask(c) ==
  /\ conn[c].open
  /\ spent.asks < MaxAsks
  /\ Spend("asks")
  /\ \E r \in {r \in Request : r.op \in env} :
       conn' = [conn EXCEPT ![c].todo = Append(@, r)]
  /\ UNCHANGED <<node, cmds, events, pc, tasks, sock, away, env, hist>>

\* The command a request becomes.
CmdOf(c, r) ==
  CASE r.op = "addpeer"    -> [op |-> "dial", uri |-> r.uri, kind |-> "persistent", respond |-> c]
    [] r.op = "removepeer" -> [op |-> "drop", uri |-> r.uri, respond |-> c]
    [] r.op = "remote"     -> [op |-> "remote", what |-> r.what, respond |-> c]
    [] OTHER               -> [op |-> r.op, respond |-> c]

\* handle_one: the task of a connection reads its next request, answers it
\* alone, or sends a command and waits.
HandleOne(c) ==
  /\ pc # "stopped"
  /\ conn[c].open
  /\ conn[c].busy = None
  /\ conn[c].todo # <<>>
  /\ LET r == Head(conn[c].todo)
         read == [conn[c] EXCEPT !.todo = Tail(@), !.busy = r]
         replied(ok) == [read EXCEPT !.busy = None, !.replies = Append(@, ok), !.open = r.keepalive]
     IN IF r.op = "local"
        THEN /\ \E ok \in BOOLEAN : conn' = [conn EXCEPT ![c] = replied(ok)]
             /\ cmds' = cmds
        ELSE /\ conn' = [conn EXCEPT ![c] = read]
             /\ cmds' = Append(cmds, CmdOf(c, r))
  /\ UNCHANGED <<node, events, pc, tasks, sock, away, env, spent, hist>>

-----------------------------------------------------------------------------
Init ==
  /\ env \in Worlds
  /\ table = EmptyTable
  /\ next_token = 0
  /\ set = {}
  /\ book = {}
  /\ cmds = <<>>
  /\ events = <<>>
  /\ pending = <<>>
  /\ proto_inbox = <<>>
  /\ tun = IF "device" \in env THEN NewDevice ELSE None
  /\ inbox = <<>>
  /\ quit = FALSE
  /\ pc = "cmds"
  /\ tasks = {}
  /\ sock = <<>>
  /\ conn = [c \in Conn |-> [open |-> TRUE, todo |-> <<>>, busy |-> None, replies |-> <<>>]]
  /\ away = {}
  /\ spent = [submits |-> 0, backoffs |-> 0, asks |-> 0, mesh |-> 0, kernel |-> 0]
  /\ void = {}
  /\ given = {}

Loop == OnCmd \/ CmdsDrained \/ OnDial \/ Plan \/ Turn

Serve == (\E id \in Ids : ReadTimesOut(id) \/ Evict(id) \/ Retire(id)) \/ AnswerArrives \/ PacketArrives

Others ==
  \/ \E u \in Info : SubmitDial(u) \/ BackoffEnds(u)
  \/ SubmitSend
  \/ SubmitQuit
  \/ \E t \in tasks : DialEnds(t)
  \/ Listen
  \/ \E id \in Ids : SocketMoves(id)
  \/ KernelSends
  \/ Tick
  \/ \E c \in Conn : Ask(c) \/ HandleOne(c)

Next == Loop \/ Serve \/ Others

Spec == Init /\ [][Next]_vars

\* No peer has stopped reading.  The node task writes to its links without a
\* timeout (link.rs write_frame): while a peer is deaf it may hang there.
Writable == \A id \in Ids : sock[id] # "deaf"

\* The node task runs unless a peer keeps it from writing, dial tasks end
\* (every step of a dial has a timeout), admin tasks run, and time passes.
Fairness ==
  /\ WF_vars(Loop /\ Writable)
  /\ WF_vars(\E t \in tasks : DialEnds(t))
  /\ \A c \in Conn : WF_vars(HandleOne(c))
  /\ WF_vars(Tick)

FairSpec == Spec /\ Fairness

-----------------------------------------------------------------------------
(* What must hold *)

\* Types.
TypeOK ==
  /\ table \in Table
  /\ next_token \in Nat
  /\ sock \in Seq({"up", "half", "deaf", "garbled", "eof", "cut", "closed"})
  /\ set \subseteq Ids
  /\ book \subseteq Ids
  /\ cmds \in Seq(Cmd)
  /\ events \in Seq(LinkEvent)
  /\ pc \in {"cmds", "dials", "serve", "stopped"}
  /\ tasks \subseteq [token : Nat, uri : Info]
  /\ conn \in [Conn -> AdminConn]
  /\ tun # None => ToSet(tun.kernel) \subseteq Packets(Nat)
  /\ inbox \in Seq(Nat)
  /\ quit \in BOOLEAN

\* A row that waits for a dial waits for one that is still running or whose
\* result is still to be read (links.rs start_due, mark_live, mark_failed):
\* otherwise it would never be dialled again.
Reports(token) == {t \in tasks : t.token = token} \cup {i \in DOMAIN events : events[i].token = token}

DialsRun ==
  pc # "stopped" =>
    \A u \in Rows(table) :
      table[u].dialing # None => Cardinality(Reports(table[u].dialing)) = 1

\* Every link that is served has a LinkState: bloom.rs best_link indexes
\* tree.links with the ids of the set and would panic on a missing one.
ServedAreKnown == set \subseteq book

\* An answer from a remote node answers one question (settle_remote takes it
\* out of proto_inbox).
AnsweredOnce == \A p, r \in given : p[2] = r[2] => p = r

\* While the device is there, it is given every packet of the mesh once and in
\* order, and the router every packet of the kernel that is for the mesh, once
\* and in order, but those it refused: through batches cut short by the bound,
\* refusals, turns without a link and packets that are not for the mesh
\* (pump_tun, Device::pump, Device::flush).
PacketsKept ==
  tun # None =>
    /\ tun.wrote \o tun.out \o inbox = [i \in 1 .. spent.mesh |-> i]
    /\ \A i, j \in DOMAIN tun.sent : i < j => tun.sent[i] < tun.sent[j]
    /\ \A i \in 1 .. spent.kernel :
         Cardinality({k \in DOMAIN tun.kernel : tun.kernel[k].id = i})
           + Cardinality({S \in {tun.lost, tun.skipped, ToSet(tun.sent)} : i \in S}) = 1

\* The result of a dial whose row was removed meanwhile changes neither the
\* table nor the link set, also when the same peer has been added again since
\* (on_dial, mark_live).  Router::register does leave a LinkState behind.
StaleDialDropped ==
  [][ (events # <<>> /\ events' = Tail(events) /\ Head(events).token \in void)
        => set' = set /\ table' = table ]_vars

\* The table keeps the promises of Peering.
Listing ==
  [u \in Info |-> IF table[u] = None THEN None
                  ELSE [kind |-> table[u].kind, link |-> table[u].live,
                        trying |-> table[u].dialing # None]]

ASSUME ListingAssumption ==
  None \notin [kind : Kind, link : Nat \cup {None}, trying : BOOLEAN]

\* The removals that wait in the mailbox.
Orders == {cmd.uri : cmd \in {cmd \in ToSet(cmds) : cmd.op = "drop"}}

Peer == INSTANCE Peering WITH peer <- Listing, orders <- Orders

KeepsPromises == Peer!Spec

\* Every request an admin task has begun to answer is answered, unless the
\* process ends first (admin.rs handle_one awaits the node without a timeout
\* of its own).  Links that fail, peers that are added or removed meanwhile,
\* answers from afar that never come and peers that read slowly do not keep
\* it waiting for ever; a peer that never reads again does.
AllAnswered ==
  <>[]Writable =>
    \A c \in Conn : \A n \in 0 .. MaxAsks :
      (Len(conn[c].replies) = n /\ conn[c].busy # None)
        ~> (Len(conn[c].replies) > n \/ pc = "stopped")

\* A dead peer is not a dead node: the node stops only when it was told to.
OutlivesPeers == pc = "stopped" => quit
=============================================================================
