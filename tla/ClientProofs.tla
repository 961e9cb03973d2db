---------------------------- MODULE ClientProofs ----------------------------
(* Proofs about the client: Client.tla for every set of rows, connections,   *)
(* questions and packets, and every bound.                                   *)
EXTENDS Client, SubsequenceProofs, FiniteSetTheorems, TLAPS

(* The inductive invariant *)

SockState == {"up", "half", "deaf", "garbled", "eof", "cut", "closed"}

\* A question: the connection that asked, and how many replies it had then.
Quest == Conn \X Nat

Answer == [what : What, q : Quest]

Waiting == [what : What, age : Nat, respond : Conn, q : Quest]

Device ==
  [kernel : Seq(Packets(Nat)), out : Seq(Nat), wrote : Seq(Nat), sent : Seq(Nat),
   lost : SUBSET Nat, skipped : SUBSET Nat]

Spending == [submits : Nat, backoffs : Nat, asks : Nat, mesh : Nat, kernel : Nat]

\* Types of what the node task keeps about its links.
LinkTypes ==
  /\ table \in Table
  /\ next_token \in Nat
  /\ sock \in Seq(SockState)
  /\ set \subseteq Ids
  /\ book \subseteq Ids
  /\ void \subseteq Nat

\* Types of the queues to and from it.
QueueTypes ==
  /\ cmds \in Seq(Cmd)
  /\ events \in Seq(LinkEvent)
  /\ tasks \subseteq [token : Nat, uri : Info]
  /\ pc \in {"cmds", "dials", "serve", "stopped"}
  /\ quit \in BOOLEAN

\* Types of the questions.
AskTypes ==
  /\ conn \in [Conn -> AdminConn]
  /\ pending \in Seq(Waiting)
  /\ proto_inbox \in Seq(Answer)
  /\ away \subseteq Answer
  /\ given \subseteq Quest \X Quest

\* Types of the packets.
PacketTypes ==
  /\ tun # None => tun \in Device
  /\ inbox \in Seq(Nat)
  /\ spent \in Spending

\* Every dial has a token of its own, and at most one report of it is running
\* or unread; a row that waits waits for one of them, and for no dial that was
\* running when a row was removed.
TokensKept ==
  /\ \A t \in tasks : t.token < next_token
  /\ \A i \in DOMAIN events : events[i].token < next_token
  /\ \A v \in void : v < next_token
  /\ \A t, r \in tasks : t.token = r.token => t = r
  /\ \A i, j \in DOMAIN events : events[i].token = events[j].token => i = j
  /\ \A t \in tasks, i \in DOMAIN events : t.token # events[i].token

Reported(T, E, token) ==
  (\E t \in T : t.token = token) \/ (\E i \in DOMAIN E : E[i].token = token)

RowsWait ==
  /\ \A u \in Rows(table) : table[u].dialing # None =>
       /\ table[u].dialing < next_token
       /\ table[u].dialing \notin void
       /\ Reported(tasks, events, table[u].dialing)
  /\ \A u, v \in Rows(table) :
       (table[u].dialing # None /\ table[u].dialing = table[v].dialing) => u = v

\* A link is held by one row, waits in one command or in one result.
Offers(i) == cmds[i].op = "accept"

LinksKept ==
  /\ \A i \in DOMAIN cmds : Offers(i) => cmds[i].id \in Ids
  /\ \A i, j \in DOMAIN cmds : (Offers(i) /\ Offers(j) /\ cmds[i].id = cmds[j].id) => i = j
  /\ \A i, j \in DOMAIN events :
       (events[i].id # None /\ events[i].id = events[j].id) => i = j
  /\ \A i \in DOMAIN cmds, j \in DOMAIN events : Offers(i) => cmds[i].id # events[j].id
  /\ \A u \in Rows(table) : table[u].live # None =>
       /\ table[u].live \in Ids
       /\ \A i \in DOMAIN cmds : Offers(i) => cmds[i].id # table[u].live
       /\ \A j \in DOMAIN events : events[j].id # table[u].live
  /\ \A u, v \in Rows(table) :
       (table[u].live # None /\ table[u].live = table[v].live) => u = v

\* The one-shot channel of a connection is in one command or in one question
\* that waits, and only while its task waits.
Expects(cmd, c) == cmd.op \in {"dial", "drop", "report", "tun", "remote"} /\ cmd.respond = c

OneWaits(c) ==
  /\ \A i \in DOMAIN cmds : Expects(cmds[i], c) => conn[c].busy # None
  /\ \A i \in DOMAIN pending : pending[i].respond = c => conn[c].busy # None
  /\ \A i, j \in DOMAIN cmds : (Expects(cmds[i], c) /\ Expects(cmds[j], c)) => i = j
  /\ \A i, j \in DOMAIN pending : (pending[i].respond = c /\ pending[j].respond = c) => i = j
  /\ \A i \in DOMAIN cmds, j \in DOMAIN pending : ~(Expects(cmds[i], c) /\ pending[j].respond = c)

Outstanding == pc # "stopped" => \A c \in Conn : OneWaits(c)

\* A remote request is on its way, answered and unread, or answered and given
\* out, and only one of them.
AnswersKept ==
  /\ \A a, b \in away : a.q = b.q => a = b
  /\ \A i, j \in DOMAIN proto_inbox : proto_inbox[i].q = proto_inbox[j].q => i = j
  /\ \A a \in away, i \in DOMAIN proto_inbox : a.q # proto_inbox[i].q
  /\ \A p \in given : \A a \in away : p[2] # a.q
  /\ \A p \in given : \A i \in DOMAIN proto_inbox : p[2] # proto_inbox[i].q
  /\ AnsweredOnce

\* The requests that were sent.
Sent ==
  {a.q : a \in away} \cup {proto_inbox[i].q : i \in DOMAIN proto_inbox} \cup {p[2] : p \in given}

\* A question that was sent is an old one of its connection, unless the
\* connection waits for it.
Old(q) ==
  \/ q[2] < Len(conn[q[1]].replies)
  \/ q[2] = Len(conn[q[1]].replies) /\ \E i \in DOMAIN pending : pending[i].respond = q[1]

SentAreOld == pc # "stopped" => \A q \in Sent : Old(q)

\* The packets of the mesh are written, waiting to be or in the inbox, in order.
\* Those of the kernel are numbered; each of those read went to one place.
Placed(d, in, mesh, kernel) ==
  LET read == kernel - Len(d.kernel) IN
  /\ d.wrote \o d.out \o in = [i \in 1 .. mesh |-> i]
  /\ read \in Nat
  /\ \A k \in DOMAIN d.kernel : d.kernel[k].id = read + k
  /\ \A i, j \in DOMAIN d.sent : i < j => d.sent[i] < d.sent[j]
  /\ ToSet(d.sent) \cup d.lost \cup d.skipped = 1 .. read
  /\ ToSet(d.sent) \cap d.lost = {}
  /\ ToSet(d.sent) \cap d.skipped = {}
  /\ d.lost \cap d.skipped = {}

PacketsPlaced == tun # None => Placed(tun, inbox, spent.mesh, spent.kernel)

IInv ==
  /\ LinkTypes /\ QueueTypes /\ AskTypes /\ PacketTypes
  /\ TokensKept /\ RowsWait /\ LinksKept
  /\ Outstanding /\ AnswersKept /\ SentAreOld
  /\ ServedAreKnown /\ PacketsPlaced

-----------------------------------------------------------------------------
(* Sequences *)

LEMMA SeqGrows ==
  ASSUME NEW S, NEW T, S \subseteq T, NEW s \in Seq(S)
  PROVE  s \in Seq(T)
<1>1. s \in [1 .. Len(s) -> S] /\ Len(s) \in Nat
  OBVIOUS
<1> QED
  BY <1>1

LEMMA TailOf ==
  ASSUME NEW S, NEW s \in Seq(S), s # <<>>
  PROVE  /\ Tail(s) \in Seq(S)
         /\ Head(s) = s[1] /\ Head(s) \in S
         /\ 1 \in DOMAIN s
         /\ \A i \in DOMAIN Tail(s) : i \in Nat /\ i + 1 \in DOMAIN s /\ i + 1 # 1 /\ Tail(s)[i] = s[i + 1]
  OBVIOUS

LEMMA AppendOf ==
  ASSUME NEW S, NEW s \in Seq(S), NEW e \in S
  PROVE  /\ Append(s, e) \in Seq(S)
         /\ Len(Append(s, e)) = Len(s) + 1 /\ Len(s) \in Nat
         /\ DOMAIN Append(s, e) = DOMAIN s \cup {Len(s) + 1}
         /\ \A i \in DOMAIN s : i # Len(s) + 1 /\ Append(s, e)[i] = s[i] /\ s[i] \in S
         /\ Append(s, e)[Len(s) + 1] = e
  OBVIOUS

LEMMA ExceptOf ==
  ASSUME NEW S, NEW s \in Seq(S), NEW i \in DOMAIN s, NEW e \in S
  PROVE  /\ [s EXCEPT ![i] = e] \in Seq(S)
         /\ DOMAIN [s EXCEPT ![i] = e] = DOMAIN s
  OBVIOUS

-----------------------------------------------------------------------------
(* The link table *)

LEMMA AddType ==
  ASSUME NEW t \in Table, NEW u \in Info, NEW kind \in Kind
  PROVE  Add(t, u, kind) \in Table
  BY DEF Table, Add, Row, NewRow

LEMMA AcceptType ==
  ASSUME NEW t \in Table, NEW u \in Info, NEW id \in Nat
  PROVE  Accept(t, u, id) \in Table
  BY DEF Table, Accept, Row, NewRow, Kind

LEMMA MarkLiveType ==
  ASSUME NEW t \in Table, NEW token, NEW id \in Nat
  PROVE  MarkLive(t, token, id) \in Table
  BY DEF Table, MarkLive, Row, Waits, RecordSuccess

LEMMA MarkFailedType ==
  ASSUME NEW t \in Table, NEW token
  PROVE  MarkFailed(t, token) \in Table
  BY DEF Table, MarkFailed, Row, Waits, RecordFailure

LEMMA NoteLivenessType ==
  ASSUME NEW t \in Table, NEW S
  PROVE  NoteLiveness(t, S) \in Table
  BY DEF Table, NoteLiveness, Row, Lost, RecordFailure

LEMMA StartDueType ==
  ASSUME NEW t \in Table, NEW next \in Nat, NEW f \in Numberings(t, next)
  PROVE  /\ DOMAIN f = {u \in Info : Dialable(t, u)}
         /\ IsFiniteSet(DOMAIN f) /\ Cardinality(DOMAIN f) \in Nat
         /\ \A u \in DOMAIN f : /\ u \in Info /\ Dialable(t, u)
                                /\ f[u] \in Nat /\ next <= f[u] /\ f[u] < next + Cardinality(DOMAIN f)
         /\ \A u, v \in DOMAIN f : f[u] = f[v] => u = v
         /\ StartDue(t, f) \in Table
<1> DEFINE D == {u \in Info : Dialable(t, u)}
<1>1. /\ DOMAIN f = D
      /\ f \in [D -> next .. (next + Cardinality(D) - 1)]
      /\ \A u, v \in D : f[u] = f[v] => u = v
  BY DEF Numberings
<1>2. IsFiniteSet(D)
  <2>1. D \in SUBSET Info
    OBVIOUS
  <2> HIDE DEF D
  <2> QED
    BY <2>1, InfoAssumption, FS_Subset
<1>3. Cardinality(D) \in Nat
  <2> HIDE DEF D
  <2> QED
    BY <1>2, FS_CardinalityType
<1>4. ASSUME NEW u \in D
      PROVE  u \in Info /\ Dialable(t, u) /\ f[u] \in Nat /\ next <= f[u] /\ f[u] < next + Cardinality(D)
  BY <1>1, <1>3
<1>5. StartDue(t, f) \in Table
  <2>1. ASSUME NEW u \in D
        PROVE  [t[u] EXCEPT !.dialing = f[u]] \in Row
    BY <1>4, ZenonT(60) DEF Table, Row, Dialable
  <2> HIDE DEF D
  <2> QED
    BY <1>1, <2>1 DEF StartDue, Table
<1> QED
  <2> HIDE DEF D
  <2>1. DOMAIN f = D
    BY <1>1
  <2> QED
    BY <1>1, <1>2, <1>3, <1>4, <1>5, <2>1 DEF D

\* What each operation makes of a row.
LEMMA AddRows ==
  ASSUME NEW t \in Table, NEW u \in Info, NEW kind \in Kind, NEW v \in Info
  PROVE  LET r == Add(t, u, kind)[v] IN
         /\ v # u => r = t[v]
         /\ v = u => r # None
         /\ v = u /\ t[u] = None => r.kind = kind /\ r.live = None /\ r.dialing = None
         /\ v = u /\ t[u] # None => r.kind = t[u].kind /\ r.live = t[u].live /\ r.dialing = t[u].dialing
<1> DEFINE new == NewRow(kind, None)
           kicked == [t[u] EXCEPT !.due = TRUE]
<1>1. Add(t, u, kind)[v] = IF v # u THEN t[v] ELSE IF t[u] = None THEN new ELSE kicked
  BY DEF Add, Table
<1>2. new \in Row /\ new.kind = kind /\ new.live = None /\ new.dialing = None
  BY DEF NewRow, Row
<1>3. t[u] # None => /\ kicked \in Row /\ kicked.kind = t[u].kind
                     /\ kicked.live = t[u].live /\ kicked.dialing = t[u].dialing
  BY DEF Table, Row
<1> HIDE DEF new, kicked
<1> QED
  BY <1>1, <1>2, <1>3, InfoAssumption

LEMMA AcceptRows ==
  ASSUME NEW t \in Table, NEW u \in Info, NEW id \in Nat, NEW v \in Info
  PROVE  LET r == Accept(t, u, id)[v] IN
         /\ v # u => r = t[v]
         /\ v = u => r # None /\ r.live = id
         /\ v = u /\ t[u] = None => r.kind = "incoming" /\ r.dialing = None
         /\ v = u /\ t[u] # None => r.kind = t[u].kind /\ r.dialing = t[u].dialing
<1> DEFINE new == NewRow("incoming", id)
           taken == [t[u] EXCEPT !.live = id, !.err = FALSE]
<1>1. Accept(t, u, id)[v] = IF v # u THEN t[v] ELSE IF t[u] = None THEN new ELSE taken
  BY DEF Accept, Table
<1>2. new \in Row /\ new.kind = "incoming" /\ new.live = id /\ new.dialing = None
  BY DEF NewRow, Row, Kind
<1>3. t[u] # None => /\ taken \in Row /\ taken.kind = t[u].kind
                     /\ taken.live = id /\ taken.dialing = t[u].dialing
  BY DEF Table, Row
<1> HIDE DEF new, taken
<1> QED
  BY <1>1, <1>2, <1>3, InfoAssumption

LEMMA MarkLiveRows ==
  ASSUME NEW t \in Table, NEW token, NEW id \in Nat, NEW u \in Info
  PROVE  LET r == MarkLive(t, token, id)[u] IN
         /\ ~Waits(t, u, token) => r = t[u]
         /\ Waits(t, u, token) =>
              t[u] # None /\ r # None /\ r.kind = t[u].kind /\ r.live = id /\ r.dialing = None
<1> DEFINE new == RecordSuccess([t[u] EXCEPT !.dialing = None, !.live = id, !.err = FALSE])
<1>1. MarkLive(t, token, id)[u] = IF Waits(t, u, token) THEN new ELSE t[u]
  BY DEF MarkLive
<1>2. t[u] # None => t[u] \in Row /\ new \in Row /\ new.kind = t[u].kind /\ new.live = id /\ new.dialing = None
  BY DEF Table, Row, RecordSuccess
<1> HIDE DEF new
<1> QED
  BY <1>1, <1>2, InfoAssumption DEF Waits

LEMMA MarkFailedRows ==
  ASSUME NEW t \in Table, NEW token, NEW u \in Info
  PROVE  LET r == MarkFailed(t, token)[u] IN
         /\ ~Waits(t, u, token) => r = t[u]
         /\ Waits(t, u, token) => t[u] # None
         /\ Waits(t, u, token) /\ t[u].kind = "ephemeral" => r = None
         /\ Waits(t, u, token) /\ t[u].kind # "ephemeral" =>
              r # None /\ r.kind = t[u].kind /\ r.live = None /\ r.dialing = None
<1> DEFINE new == RecordFailure([t[u] EXCEPT !.dialing = None, !.live = None, !.err = TRUE])
<1>1. MarkFailed(t, token)[u] = IF ~Waits(t, u, token) THEN t[u]
                                ELSE IF t[u].kind = "ephemeral" THEN None ELSE new
  BY DEF MarkFailed
<1>2. t[u] # None => t[u] \in Row /\ new \in Row /\ new.kind = t[u].kind /\ new.live = None /\ new.dialing = None
  BY DEF Table, Row, RecordFailure
<1> HIDE DEF new
<1> QED
  BY <1>1, <1>2, InfoAssumption DEF Waits

LEMMA NoteLivenessRows ==
  ASSUME NEW t \in Table, NEW S, NEW u \in Info
  PROVE  LET r == NoteLiveness(t, S)[u] IN
         /\ ~Lost(t, u, S) => r = t[u]
         /\ Lost(t, u, S) => t[u] # None /\ t[u].live # None
         /\ Lost(t, u, S) /\ t[u].kind # "persistent" => r = None
         /\ Lost(t, u, S) /\ t[u].kind = "persistent" =>
              r # None /\ r.kind = t[u].kind /\ r.live = None /\ r.dialing = t[u].dialing /\ ~r.due
<1> DEFINE new == RecordFailure([t[u] EXCEPT !.live = None])
<1>1. NoteLiveness(t, S)[u] = IF ~Lost(t, u, S) THEN t[u]
                              ELSE IF t[u].kind # "persistent" THEN None ELSE new
  BY DEF NoteLiveness
<1>2. t[u] # None => /\ t[u] \in Row /\ new \in Row /\ new.kind = t[u].kind /\ new.live = None
                     /\ new.dialing = t[u].dialing /\ new.due = FALSE
  BY DEF Table, Row, RecordFailure
<1> HIDE DEF new
<1> QED
  BY <1>1, <1>2, InfoAssumption DEF Lost

LEMMA StartDueRows ==
  ASSUME NEW t \in Table, NEW f, NEW u \in Info,
         \A v \in DOMAIN f : Dialable(t, v) /\ f[v] \in Nat
  PROVE  LET r == StartDue(t, f)[u] IN
         /\ u \notin DOMAIN f => r = t[u]
         /\ u \in DOMAIN f => /\ t[u] # None /\ r # None /\ r.kind = t[u].kind /\ r.live = t[u].live
                              /\ r.dialing = f[u]
<1>1. StartDue(t, f)[u] = IF u \in DOMAIN f THEN [t[u] EXCEPT !.dialing = f[u]] ELSE t[u]
  BY DEF StartDue
<1>2. u \in DOMAIN f => t[u] # None /\ t[u] \in Row /\ [t[u] EXCEPT !.dialing = f[u]] \in Row
  BY DEF Table, Row, Dialable
<1> QED
  BY <1>1, <1>2, InfoAssumption DEF Row

-----------------------------------------------------------------------------
(* Commands and requests *)

LEMMA CmdFields ==
  ASSUME NEW cmd \in Cmd
  PROVE  /\ cmd.op \in {"dial", "drop", "accept", "report", "tun", "remote", "send", "quit"}
         /\ cmd.op = "dial" => /\ cmd.uri \in Info \cup {None}
                               /\ cmd.kind \in {"persistent", "ephemeral"}
                               /\ cmd.respond \in Conn \cup {None}
         /\ cmd.op = "drop" => cmd.uri \in Info /\ cmd.respond \in Conn \cup {None}
         /\ cmd.op = "accept" => cmd.uri \in Plain \cup {None} /\ cmd.id \in Nat
         /\ cmd.op \in {"report", "tun"} => cmd.respond \in Conn
         /\ cmd.op = "remote" => cmd.what \in What /\ cmd.respond \in Conn
  BY DEF Cmd

LEMMA RequestFields ==
  ASSUME NEW r \in Request
  PROVE  /\ r.op \in {"local", "report", "tun", "addpeer", "removepeer", "remote"}
         /\ r.keepalive \in BOOLEAN
         /\ r # None
         /\ r.op = "addpeer" => r.uri \in Info \cup {None}
         /\ r.op = "removepeer" => r.uri \in Info
         /\ r.op = "remote" => r.what \in What
  BY RequestAssumption DEF Request, LocalRequest, ReportRequest, PeerRequest, RemoteRequest

LEMMA CmdOfType ==
  ASSUME NEW c \in Conn, NEW r \in Request, r.op # "local"
  PROVE  /\ CmdOf(c, r) \in Cmd
         /\ CmdOf(c, r).op \in {"dial", "drop", "report", "tun", "remote"}
         /\ CmdOf(c, r).respond = c
<1>1. CASE r.op = "addpeer"
  BY <1>1, RequestFields DEF CmdOf, Cmd
<1>2. CASE r.op = "removepeer"
  BY <1>2, RequestFields DEF CmdOf, Cmd
<1>3. CASE r.op = "remote"
  BY <1>3, RequestFields DEF CmdOf, Cmd
<1>4. CASE r.op \in {"report", "tun"}
  <2>1. CmdOf(c, r) = [op |-> r.op, respond |-> c]
    BY <1>4 DEF CmdOf
  <2> QED
    BY <1>4, <2>1 DEF Cmd
<1> QED
  BY <1>1, <1>2, <1>3, <1>4, RequestFields

\* Answering a connection that waits.
LEMMA Answering ==
  ASSUME conn \in [Conn -> AdminConn], NEW c \in Conn, conn[c].busy # None, NEW ok \in BOOLEAN
  PROVE  /\ Answered(c, ok) \in AdminConn
         /\ Answered(c, ok).busy = None
         /\ Answered(c, ok).replies = Append(conn[c].replies, ok)
         /\ Len(Answered(c, ok).replies) = Len(conn[c].replies) + 1
         /\ Len(conn[c].replies) \in Nat
<1>1. conn[c] \in AdminConn
  OBVIOUS
<1>2. conn[c].busy \in Request
  BY <1>1 DEF AdminConn
<1>3. conn[c].busy.keepalive \in BOOLEAN
  BY <1>2, RequestFields
<1>4. conn[c].replies \in Seq(BOOLEAN)
  BY <1>1 DEF AdminConn
<1>5. /\ Append(conn[c].replies, ok) \in Seq(BOOLEAN)
      /\ Len(Append(conn[c].replies, ok)) = Len(conn[c].replies) + 1
      /\ Len(conn[c].replies) \in Nat
  BY <1>4, AppendOf
<1>6. /\ Answered(c, ok).busy = None
      /\ Answered(c, ok).replies = Append(conn[c].replies, ok)
  BY <1>1 DEF Answered, AdminConn
<1>7. Answered(c, ok) \in AdminConn
  <2> DEFINE r == Append(conn[c].replies, ok)
             k == conn[c].busy.keepalive
  <2>1. r \in Seq(BOOLEAN) /\ k \in BOOLEAN
    BY <1>3, <1>5
  <2>2. Answered(c, ok) = [conn[c] EXCEPT !.busy = None, !.replies = r, !.open = k]
    BY DEF Answered
  <2> HIDE DEF r, k
  <2> QED
    BY <1>1, <2>1, <2>2 DEF AdminConn
<1> QED
  BY <1>5, <1>6, <1>7

-----------------------------------------------------------------------------
(* Types of the links and the queues *)

\* A command that is taken from the mailbox.
LEMMA HeadCmd ==
  ASSUME QueueTypes, LinksKept, cmds # <<>>
  PROVE  /\ Head(cmds) \in Cmd
         /\ Head(cmds).op = "accept" => Head(cmds).id \in Ids
         /\ 1 \in DOMAIN cmds /\ Head(cmds) = cmds[1]
         /\ Tail(cmds) \in Seq(Cmd)
<1>1. cmds \in Seq(Cmd)
  BY DEF QueueTypes
<1>2. /\ Head(cmds) = cmds[1] /\ 1 \in DOMAIN cmds
      /\ Tail(cmds) \in Seq(Cmd) /\ Head(cmds) \in Cmd
  BY <1>1, TailOf
<1> QED
  BY <1>2 DEF LinksKept, Offers

\* A result that is read.
LEMMA HeadEvent ==
  ASSUME QueueTypes, events # <<>>
  PROVE  /\ Head(events) \in LinkEvent
         /\ Head(events).token \in Nat /\ Head(events).id \in Ids \cup {None}
         /\ 1 \in DOMAIN events /\ Head(events) = events[1]
         /\ Tail(events) \in Seq(LinkEvent)
<1>1. events \in Seq(LinkEvent)
  BY DEF QueueTypes
<1>2. /\ Head(events) = events[1] /\ 1 \in DOMAIN events
      /\ Tail(events) \in Seq(LinkEvent) /\ Head(events) \in LinkEvent
  BY <1>1, TailOf
<1> QED
  BY <1>2 DEF LinkEvent

LEMMA IdsAreNat ==
  ASSUME LinkTypes
  PROVE  Ids \subseteq Nat /\ None \notin Ids
  BY InfoAssumption DEF LinkTypes, Ids

\* The sockets of the links: some move or close, one may come up.
SockStep ==
  \/ sock' = sock
  \/ \E id \in Ids : \E s \in SockState : sock' = [sock EXCEPT ![id] = s]
  \/ sock' = Append(sock, "up")

LEMMA SockStepType ==
  ASSUME LinkTypes, SockStep
  PROVE  sock' \in Seq(SockState) /\ Ids \subseteq Ids'
<1>1. sock \in Seq(SockState)
  BY DEF LinkTypes
<1>2. CASE sock' = sock
  BY <1>1, <1>2 DEF Ids
<1>3. ASSUME NEW id \in Ids, NEW s \in SockState, sock' = [sock EXCEPT ![id] = s]
      PROVE  sock' \in Seq(SockState) /\ Ids \subseteq Ids'
  BY <1>1, <1>3, ExceptOf DEF Ids
<1>4. CASE sock' = Append(sock, "up")
  <2>1. "up" \in SockState
    BY DEF SockState
  <2> QED
    BY <1>1, <1>4, <2>1, AppendOf DEF Ids
<1> QED
  BY <1>2, <1>3, <1>4 DEF SockStep

LEMMA SockMoves ==
  ASSUME LinkTypes, QueueTypes, LinksKept, [Next]_vars
  PROVE  SockStep
<1> USE DEF SockStep
<1>1. CASE OnCmd
  <2> DEFINE cmd == Head(cmds)
  <2>1. cmd \in Cmd /\ (cmd.op = "accept" => cmd.id \in Ids)
    BY <1>1, HeadCmd DEF OnCmd
  <2>2. CASE OnDrop(cmd)
    <3>1. cmd.uri \in Info
      BY <2>1, <2>2, CmdFields DEF OnDrop
    <3>2. ASSUME table[cmd.uri] # None, table[cmd.uri].live # None
          PROVE  \/ sock' = sock
                 \/ table[cmd.uri].live \in set /\ sock' = [sock EXCEPT ![table[cmd.uri].live] = "closed"]
      <4>1. sock' = [sock EXCEPT ![table[cmd.uri].live] = IF table[cmd.uri].live \in set THEN "closed" ELSE @]
        BY <2>2, <3>2 DEF OnDrop
      <4>2. \A x : [sock EXCEPT ![x] = @] = sock
        <5>1. sock \in [DOMAIN sock -> SockState]
          BY DEF LinkTypes
        <5> QED
          BY <5>1
      <4> QED
        BY <4>1, <4>2
    <3>3. set \subseteq Ids /\ "closed" \in SockState
      BY DEF LinkTypes, SockState
    <3> QED
      BY <2>2, <3>2, <3>3 DEF OnDrop
  <2>3. CASE OnAccept(cmd)
    <3>1. cmd.id \in Ids /\ "closed" \in SockState
      BY <2>1, <2>3 DEF OnAccept, SockState
    <3> QED
      BY <2>3, <3>1 DEF OnAccept
  <2>4. CASE OnDialCmd(cmd) \/ OnReport(cmd) \/ OnRemote(cmd) \/ OnSend(cmd) \/ OnQuit(cmd)
    BY <2>4 DEF OnDialCmd, OnReport, OnRemote, OnSend, OnQuit
  <2> QED
    BY <1>1, <2>2, <2>3, <2>4 DEF OnCmd
<1>2. CASE OnDial
  <2>1. Head(events).id \in Ids \cup {None} /\ "closed" \in SockState
    BY <1>2, HeadEvent DEF OnDial, SockState
  <2> QED
    BY <1>2, <2>1 DEF OnDial
<1>3. ASSUME NEW id \in Ids, ReadTimesOut(id) \/ Evict(id) \/ Retire(id) \/ SocketMoves(id)
      PROVE  SockStep
  <2>1. {"garbled", "closed", "half", "deaf", "eof", "up", "cut"} \subseteq SockState
    BY DEF SockState
  <2>2. ASSUME SocketMoves(id)
        PROVE  \E s \in {"half", "deaf", "eof", "up", "cut"} : sock' = [sock EXCEPT ![id] = s]
    BY <2>2 DEF SocketMoves
  <2> QED
    BY <1>3, <2>1, <2>2 DEF ReadTimesOut, Evict, Retire
<1>4. CASE Listen \/ \E t \in tasks : DialEnds(t)
  BY <1>4 DEF Listen, DialEnds
<1>5. CASE CmdsDrained \/ Plan \/ Turn \/ AnswerArrives \/ PacketArrives \/ SubmitSend \/ SubmitQuit \/ KernelSends \/ Tick
  BY <1>5 DEF CmdsDrained, Plan, Turn, AnswerArrives, PacketArrives, SubmitSend, SubmitQuit, KernelSends, Tick
<1>6. CASE \/ \E u \in Info : SubmitDial(u) \/ BackoffEnds(u)
           \/ \E c \in Conn : Ask(c) \/ HandleOne(c)
  BY <1>6 DEF SubmitDial, BackoffEnds, Ask, HandleOne
<1>7. CASE UNCHANGED vars
  BY <1>7 DEF vars
<1> QED
  BY <1>1, <1>2, <1>3, <1>4, <1>5, <1>6, <1>7 DEF Next, Loop, Serve, Others

LEMMA LinkTypesStep ==
  ASSUME LinkTypes, QueueTypes, LinksKept, [Next]_vars
  PROVE  LinkTypes'
<1>1. sock' \in Seq(SockState) /\ Ids \subseteq Ids'
  BY SockMoves, SockStepType
<1>2. Ids \subseteq Nat /\ None \notin Ids
  BY IdsAreNat
<1>3. /\ table \in Table /\ next_token \in Nat /\ set \subseteq Ids /\ book \subseteq Ids
      /\ void \subseteq Nat
  BY DEF LinkTypes
<1> SUFFICES table' \in Table /\ next_token' \in Nat /\ set' \subseteq Ids /\ book' \subseteq Ids /\ void' \subseteq Nat
  BY <1>1 DEF LinkTypes
<1>4. CASE OnCmd
  <2> DEFINE cmd == Head(cmds)
  <2>1. cmd \in Cmd /\ (cmd.op = "accept" => cmd.id \in Ids)
    BY <1>4, HeadCmd DEF OnCmd
  <2>0. next_token' = next_token
    BY <1>4 DEF OnCmd
  <2> HIDE DEF cmd
  <2>2. CASE OnDialCmd(cmd)
    <3>1. cmd.uri \in Info \cup {None} /\ cmd.kind \in Kind
      BY <2>1, <2>2, CmdFields DEF OnDialCmd, Kind
    <3>2. table' \in Table
      BY <1>3, <2>2, <3>1, AddType DEF OnDialCmd
    <3> QED
      BY <1>3, <2>0, <2>2, <3>2 DEF OnDialCmd
  <2>3. CASE OnDrop(cmd)
    <3>1. cmd.uri \in Info
      BY <2>1, <2>3, CmdFields DEF OnDrop
    <3>2. table' \in Table
      BY <1>3, <2>3 DEF OnDrop, RemoveRow, Table
    <3>3. set' \subseteq Ids /\ book' \subseteq Ids
      BY <1>3, <2>3 DEF OnDrop
    <3>4. void' \subseteq Nat
      BY <1>3, <2>3, <3>1 DEF OnDrop, Table, Row
    <3> QED
      BY <1>3, <2>0, <3>2, <3>3, <3>4
  <2>4. CASE OnAccept(cmd)
    <3>1. cmd.id \in Ids /\ cmd.id \in Nat /\ cmd.uri \in Info \cup {None}
      BY <1>2, <2>1, <2>4, CmdFields, InfoAssumption DEF OnAccept
    <3>2. cmd.uri # None => Accept(table, cmd.uri, cmd.id) \in Table
      BY <1>3, <3>1, AcceptType
    <3>3. table' = table \/ (cmd.uri # None /\ table' = Accept(table, cmd.uri, cmd.id))
      <4>1. CASE cmd.uri # None /\ Busy(table, cmd.uri)
        BY <2>4, <4>1 DEF OnAccept
      <4>2. CASE ~(cmd.uri # None /\ Busy(table, cmd.uri))
        <5>1. PICK ok \in Registers(cmd.id) :
                  IF ok THEN table' = IF cmd.uri = None THEN table ELSE Accept(table, cmd.uri, cmd.id)
                  ELSE table' = table
          BY <2>4, <4>2 DEF OnAccept
        <5> QED
          BY <5>1
      <4> QED
        BY <4>1, <4>2
    <3>4. set' \subseteq Ids /\ book' \subseteq Ids /\ void' = void
      BY <1>3, <2>4, <3>1 DEF OnAccept
    <3> QED
      BY <1>3, <2>0, <3>2, <3>3, <3>4
  <2>5. CASE OnReport(cmd) \/ OnRemote(cmd) \/ OnSend(cmd) \/ OnQuit(cmd)
    BY <1>3, <2>0, <2>5 DEF OnReport, OnRemote, OnSend, OnQuit
  <2> QED
    BY <1>4, <2>2, <2>3, <2>4, <2>5 DEF OnCmd, cmd
<1>5. CASE OnDial
  <2> DEFINE ev == Head(events)
  <2>1. ev.id \in Ids \cup {None}
    BY <1>5, HeadEvent DEF OnDial
  <2>2. MarkFailed(table, ev.token) \in Table
    BY <1>3, MarkFailedType
  <2>3. ev.id # None => MarkLive(table, ev.token, ev.id) \in Table
    BY <1>2, <1>3, <2>1, MarkLiveType
  <2>4. \/ ev.id = None /\ table' = MarkFailed(table, ev.token)
        \/ ev.id # None /\ table' \in {MarkFailed(table, ev.token), MarkLive(table, ev.token, ev.id)}
    BY <1>5 DEF OnDial
  <2>5. set' \subseteq Ids /\ book' \subseteq Ids
    BY <1>3, <1>5, <2>1 DEF OnDial
  <2> QED
    BY <1>3, <1>5, <2>2, <2>3, <2>4, <2>5 DEF OnDial, hist
<1>6. CASE Plan
  <2>1. NoteLiveness(table, set) \in Table
    BY <1>3, NoteLivenessType
  <2> DEFINE t == NoteLiveness(table, set)
  <2>2. PICK f \in Numberings(t, next_token) :
             /\ table' = StartDue(t, f)
             /\ next_token' = next_token + Cardinality(DOMAIN f)
    BY <1>6 DEF Plan
  <2> HIDE DEF t
  <2>3. t \in Table
    BY <2>1 DEF t
  <2>4. StartDue(t, f) \in Table /\ Cardinality(DOMAIN f) \in Nat
    BY <1>3, <2>3, StartDueType
  <2>5. table' \in Table /\ next_token' \in Nat
    BY <1>3, <2>2, <2>4
  <2> QED
    BY <1>3, <1>6, <2>5 DEF Plan, hist
<1>7. ASSUME NEW u \in Info, BackoffEnds(u)
      PROVE  table' \in Table /\ next_token' \in Nat /\ set' \subseteq Ids /\ book' \subseteq Ids /\ void' \subseteq Nat
  BY <1>3, <1>7 DEF BackoffEnds, Table, Row, hist
<1>8. ASSUME NEW id \in Ids, ReadTimesOut(id) \/ Evict(id) \/ Retire(id) \/ SocketMoves(id)
      PROVE  table' \in Table /\ next_token' \in Nat /\ set' \subseteq Ids /\ book' \subseteq Ids /\ void' \subseteq Nat
  BY <1>3, <1>8 DEF ReadTimesOut, Evict, Retire, SocketMoves, node, hist
<1>9. CASE CmdsDrained \/ Turn \/ AnswerArrives \/ PacketArrives \/ SubmitSend \/ SubmitQuit \/ KernelSends \/ Tick \/ Listen
  BY <1>3, <1>9 DEF CmdsDrained, Turn, AnswerArrives, PacketArrives, SubmitSend, SubmitQuit, KernelSends, Tick, Listen, node, hist
<1>10. CASE \/ \E u \in Info : SubmitDial(u)
            \/ \E t \in tasks : DialEnds(t)
            \/ \E c \in Conn : Ask(c) \/ HandleOne(c)
  BY <1>3, <1>10 DEF SubmitDial, DialEnds, Ask, HandleOne, node, hist
<1>11. CASE UNCHANGED vars
  BY <1>3, <1>11 DEF vars, node, hist
<1> QED
  BY <1>4, <1>5, <1>6, <1>7, <1>8, <1>9, <1>10, <1>11 DEF Next, Loop, Serve, Others

LEMMA QueueTypesStep ==
  ASSUME LinkTypes, QueueTypes, LinksKept, AskTypes, [Next]_vars
  PROVE  QueueTypes'
<1>1. sock' \in Seq(SockState) /\ Ids \subseteq Ids'
  BY SockMoves, SockStepType
<1>2. /\ cmds \in Seq(Cmd) /\ events \in Seq(LinkEvent) /\ tasks \subseteq [token : Nat, uri : Info]
      /\ pc \in {"cmds", "dials", "serve", "stopped"} /\ quit \in BOOLEAN
  BY DEF QueueTypes
<1>3. LinkEvent \subseteq LinkEvent'
  BY <1>1 DEF LinkEvent
<1>4. \A s \in Seq(LinkEvent) : s \in Seq(LinkEvent')
  BY <1>3, SeqGrows
<1>5. /\ tasks' = tasks => tasks' \subseteq [token : Nat, uri : Info]
      /\ events' = events => events' \in Seq(LinkEvent')
      /\ cmds' = cmds => cmds' \in Seq(Cmd)
  BY <1>2, <1>4
<1>6. CASE OnCmd
  <2>1. Tail(cmds) \in Seq(Cmd)
    BY <1>6, HeadCmd DEF OnCmd
  <2>2. quit' \in BOOLEAN
    BY <1>2, <1>6 DEF OnCmd, OnDialCmd, OnDrop, OnAccept, OnReport, OnRemote, OnSend, OnQuit
  <2> QED
    BY <1>2, <1>4, <1>6, <2>1, <2>2 DEF OnCmd, QueueTypes
<1>7. CASE OnDial
  <2>1. Tail(events) \in Seq(LinkEvent)
    BY <1>7, HeadEvent DEF OnDial
  <2> QED
    BY <1>2, <1>4, <1>7, <2>1 DEF OnDial, QueueTypes
<1>8. CASE Plan
  <2>1. NoteLiveness(table, set) \in Table
    BY NoteLivenessType DEF LinkTypes
  <2>2. PICK f \in Numberings(NoteLiveness(table, set), next_token) :
             tasks' = tasks \cup {[token |-> f[u], uri |-> u] : u \in DOMAIN f}
    BY <1>8 DEF Plan
  <2>3. \A u \in DOMAIN f : u \in Info /\ f[u] \in Nat
    BY <2>1, StartDueType DEF LinkTypes
  <2>4. tasks' \subseteq [token : Nat, uri : Info]
    BY <1>2, <2>2, <2>3
  <2>5. /\ events' = events /\ cmds' = cmds /\ quit' = quit /\ pc' = "serve"
    BY <1>8 DEF Plan
  <2> QED
    BY <1>2, <1>4, <2>4, <2>5 DEF QueueTypes
<1>9. CASE Turn
  <2>1. pc' \in {"stopped", "cmds"} /\ UNCHANGED <<quit, cmds, events, tasks>>
    BY <1>9 DEF Turn, Stop
  <2> QED
    BY <1>2, <1>4, <2>1 DEF QueueTypes
<1>10. ASSUME NEW id \in Ids, Evict(id) \/ ReadTimesOut(id) \/ Retire(id) \/ SocketMoves(id)
       PROVE  QueueTypes'
  <2>1. pc' \in {pc, "stopped"} /\ UNCHANGED <<quit, cmds, events, tasks>>
    BY <1>10 DEF Evict, ReadTimesOut, Retire, SocketMoves, Stop, node
  <2> QED
    BY <1>2, <1>4, <2>1 DEF QueueTypes
<1>11. ASSUME NEW u \in Info, SubmitDial(u)
       PROVE  QueueTypes'
  <2>1. PICK kind \in {"persistent", "ephemeral"} :
             cmds' = Append(cmds, [op |-> "dial", uri |-> u, kind |-> kind, respond |-> None])
    BY <1>11 DEF SubmitDial
  <2>2. [op |-> "dial", uri |-> u, kind |-> kind, respond |-> None] \in Cmd
    BY DEF Cmd
  <2>3. cmds' \in Seq(Cmd)
    BY <1>2, <2>1, <2>2, AppendOf
  <2> QED
    BY <1>2, <1>4, <1>11, <2>3 DEF SubmitDial, QueueTypes, node
<1>12. CASE SubmitSend \/ SubmitQuit
  <2>1. [op |-> "send"] \in Cmd /\ [op |-> "quit"] \in Cmd
    BY DEF Cmd
  <2>2. cmds' \in Seq(Cmd)
    <3>1. PICK x \in Cmd : cmds' = Append(cmds, x)
      BY <1>12, <2>1 DEF SubmitSend, SubmitQuit
    <3> QED
      BY <1>2, <3>1, AppendOf
  <2> QED
    BY <1>2, <1>4, <1>12, <2>2 DEF SubmitSend, SubmitQuit, QueueTypes, node
<1>13. ASSUME NEW t \in tasks, DialEnds(t)
       PROVE  QueueTypes'
  <2>1. t.token \in Nat
    BY <1>2
  <2>2. Len(sock) \in Nat /\ DOMAIN sock = 1 .. Len(sock)
    BY DEF LinkTypes
  <2>3. PICK e : e \in LinkEvent' /\ events' = Append(events, e)
    <3>1. CASE events' = Append(events, [token |-> t.token, id |-> None])
      <4>1. [token |-> t.token, id |-> None] \in LinkEvent'
        BY <2>1 DEF LinkEvent
      <4> QED
        BY <3>1, <4>1
    <3>2. CASE sock' = Append(sock, "up") /\ events' = Append(events, [token |-> t.token, id |-> Len(sock) + 1])
      <4>1. Len(sock) + 1 \in Ids'
        BY <3>2, <2>2, AppendOf DEF Ids, LinkTypes, SockState
      <4>2. [token |-> t.token, id |-> Len(sock) + 1] \in LinkEvent'
        BY <2>1, <4>1 DEF LinkEvent
      <4> QED
        BY <3>2, <4>2
    <3> QED
      BY <1>13, <3>1, <3>2 DEF DialEnds
  <2>4. events' \in Seq(LinkEvent')
    BY <1>2, <1>4, <2>3, AppendOf
  <2> QED
    BY <1>2, <1>13, <2>4 DEF DialEnds, QueueTypes, node
<1>14. CASE Listen
  <2>1. Len(sock) \in Nat
    BY DEF LinkTypes
  <2>2. PICK u \in Plain \cup {None} : cmds' = Append(cmds, [op |-> "accept", uri |-> u, id |-> Len(sock) + 1])
    BY <1>14 DEF Listen
  <2>3. [op |-> "accept", uri |-> u, id |-> Len(sock) + 1] \in Cmd
    BY <2>1 DEF Cmd
  <2>4. cmds' \in Seq(Cmd)
    BY <1>2, <2>2, <2>3, AppendOf
  <2> QED
    BY <1>2, <1>4, <1>14, <2>4 DEF Listen, QueueTypes, node
<1>15. ASSUME NEW c \in Conn, HandleOne(c)
       PROVE  QueueTypes'
  <2> DEFINE r == Head(conn[c].todo)
  <2>1. r \in Request
    BY <1>15, TailOf DEF HandleOne, AskTypes, AdminConn
  <2>2. cmds' = cmds \/ (r.op # "local" /\ cmds' = Append(cmds, CmdOf(c, r)))
    <3>1. CASE r.op = "local"
      BY <1>15, <3>1 DEF HandleOne
    <3>2. CASE r.op # "local"
      BY <1>15, <3>2 DEF HandleOne
    <3> QED
      BY <3>1, <3>2
  <2> HIDE DEF r
  <2>3. cmds' \in Seq(Cmd)
    BY <1>2, <2>1, <2>2, CmdOfType, AppendOf, SMTT(30)
  <2> QED
    BY <1>2, <1>4, <1>15, <2>3 DEF HandleOne, QueueTypes, node
<1>16. CASE CmdsDrained \/ AnswerArrives \/ PacketArrives \/ KernelSends \/ Tick
  BY <1>2, <1>4, <1>16 DEF CmdsDrained, AnswerArrives, PacketArrives, KernelSends, Tick, node, QueueTypes
<1>17. CASE \/ \E u \in Info : BackoffEnds(u)
            \/ \E c \in Conn : Ask(c)
  BY <1>2, <1>4, <1>17 DEF BackoffEnds, Ask, node, QueueTypes
<1>18. CASE UNCHANGED vars
  BY <1>2, <1>4, <1>18 DEF vars, node, QueueTypes
<1> QED
  BY <1>6, <1>7, <1>8, <1>9, <1>10, <1>11, <1>12, <1>13, <1>14, <1>15, <1>16, <1>17, <1>18
     DEF Next, Loop, Serve, Others

-----------------------------------------------------------------------------
(* Dials and their tokens *)

\* What Plan does: rows lose their dead links, then some of those that hold no
\* link and wait for no dial get a token each, from next_token on.
LEMMA PlanStep ==
  ASSUME LinkTypes, Plan
  PROVE  \E t, f :
           /\ t \in Table
           /\ t = NoteLiveness(table, set)
           /\ table' = StartDue(t, f) /\ table' \in Table
           /\ DOMAIN f \subseteq Info
           /\ \A u \in DOMAIN f : Dialable(t, u) /\ f[u] \in Nat /\ next_token <= f[u] /\ f[u] < next_token'
           /\ \A u, v \in DOMAIN f : f[u] = f[v] => u = v
           /\ tasks' = tasks \cup {[token |-> f[u], uri |-> u] : u \in DOMAIN f}
           /\ next_token' \in Nat /\ next_token <= next_token'
<1> DEFINE t == NoteLiveness(table, set)
<1>1. t \in Table /\ next_token \in Nat
  BY NoteLivenessType DEF LinkTypes
<1>2. PICK f \in Numberings(t, next_token) :
             /\ table' = StartDue(t, f)
             /\ next_token' = next_token + Cardinality(DOMAIN f)
             /\ tasks' = tasks \cup {[token |-> f[u], uri |-> u] : u \in DOMAIN f}
  BY DEF Plan
<1>3. t = NoteLiveness(table, set)
  OBVIOUS
<1> HIDE DEF t
<1>4. /\ Cardinality(DOMAIN f) \in Nat
      /\ \A u \in DOMAIN f : /\ u \in Info /\ Dialable(t, u)
                             /\ f[u] \in Nat /\ next_token <= f[u] /\ f[u] < next_token + Cardinality(DOMAIN f)
      /\ \A u, v \in DOMAIN f : f[u] = f[v] => u = v
      /\ StartDue(t, f) \in Table
  BY <1>1, StartDueType
<1>5. next_token' \in Nat /\ next_token <= next_token'
  BY <1>1, <1>2, <1>4
<1> QED
  BY <1>1, <1>2, <1>3, <1>4, <1>5

LEMMA TokensStep ==
  ASSUME LinkTypes, QueueTypes, LinksKept, TokensKept, RowsWait, [Next]_vars
  PROVE  TokensKept'
<1>1. /\ tasks \subseteq [token : Nat, uri : Info] /\ events \in Seq(LinkEvent)
      /\ next_token \in Nat /\ void \subseteq Nat
  BY DEF LinkTypes, QueueTypes
<1>0. \A i \in DOMAIN events : events[i].token \in Nat
  <2>1. \A i \in DOMAIN events : events[i] \in LinkEvent
    BY <1>1
  <2> QED
    BY <2>1 DEF LinkEvent
<1>2. ASSUME UNCHANGED <<tasks, events, next_token, void>>
      PROVE  TokensKept'
  BY <1>2 DEF TokensKept
<1>3. CASE OnCmd
  <2> DEFINE cmd == Head(cmds)
  <2>1. cmd \in Cmd
    BY <1>3, HeadCmd DEF OnCmd
  <2>2. UNCHANGED <<tasks, events, next_token>>
    BY <1>3 DEF OnCmd
  <2>3. CASE OnDrop(cmd)
    <3>1. cmd.uri \in Info
      BY <2>1, <2>3, CmdFields DEF OnDrop
    <3>2. \A v \in void' : v < next_token
      BY <2>3, <3>1 DEF OnDrop, RowsWait, Rows, TokensKept
    <3> QED
      BY <2>2, <3>2 DEF TokensKept
  <2>4. CASE OnDialCmd(cmd) \/ OnAccept(cmd) \/ OnReport(cmd) \/ OnRemote(cmd) \/ OnSend(cmd) \/ OnQuit(cmd)
    BY <1>2, <2>2, <2>4 DEF OnDialCmd, OnAccept, OnReport, OnRemote, OnSend, OnQuit
  <2> QED
    BY <1>3, <2>3, <2>4 DEF OnCmd
<1>4. CASE OnDial
  <2>1. events # <<>> /\ events' = Tail(events) /\ UNCHANGED <<tasks, next_token, void>>
    BY <1>4 DEF OnDial, hist
  <2>2. \A i \in DOMAIN events' : i + 1 \in DOMAIN events /\ events'[i] = events[i + 1] /\ i \in Nat
    BY <1>1, <2>1, TailOf
  <2> QED
    BY <2>1, <2>2 DEF TokensKept
<1>5. CASE Plan
  <2>1. PICK t, f :
           /\ t \in Table
           /\ \A u \in DOMAIN f : f[u] \in Nat /\ next_token <= f[u] /\ f[u] < next_token'
           /\ \A u, v \in DOMAIN f : f[u] = f[v] => u = v
           /\ tasks' = tasks \cup {[token |-> f[u], uri |-> u] : u \in DOMAIN f}
           /\ next_token' \in Nat /\ next_token <= next_token'
    BY <1>5, PlanStep
  <2>2. UNCHANGED <<events, void>>
    BY <1>5 DEF Plan, hist
  <2>3. ASSUME NEW r \in tasks'
        PROVE  \/ r \in tasks /\ r.token \in Nat /\ r.token < next_token
               \/ \E u \in DOMAIN f : r = [token |-> f[u], uri |-> u] /\ r.token = f[u]
    BY <1>1, <2>1 DEF TokensKept
  <2>4. \A r \in tasks' : r.token < next_token'
    BY <1>1, <2>1, <2>3
  <2>5. \A r, s \in tasks' : r.token = s.token => r = s
    <3> SUFFICES ASSUME NEW r \in tasks', NEW s \in tasks', r.token = s.token
                 PROVE  r = s
      OBVIOUS
    <3>1. CASE r \in tasks /\ s \in tasks
      BY <3>1 DEF TokensKept
    <3>2. CASE r \notin tasks
      <4>1. PICK u \in DOMAIN f : r = [token |-> f[u], uri |-> u] /\ r.token = f[u]
        BY <2>3, <3>2
      <4>2. PICK v \in DOMAIN f : s = [token |-> f[v], uri |-> v] /\ s.token = f[v]
        BY <1>1, <2>1, <2>3, <4>1
      <4> QED
        BY <2>1, <4>1, <4>2
    <3>3. CASE s \notin tasks
      <4>1. PICK u \in DOMAIN f : s = [token |-> f[u], uri |-> u] /\ s.token = f[u]
        BY <2>3, <3>3
      <4>2. PICK v \in DOMAIN f : r = [token |-> f[v], uri |-> v] /\ r.token = f[v]
        BY <1>1, <2>1, <2>3, <4>1
      <4> QED
        BY <2>1, <4>1, <4>2
    <3> QED
      BY <3>1, <3>2, <3>3
  <2>6. \A r \in tasks', i \in DOMAIN events : r.token # events[i].token
    <3> SUFFICES ASSUME NEW r \in tasks', NEW i \in DOMAIN events
                 PROVE  r.token # events[i].token
      OBVIOUS
    <3>1. CASE r \in tasks
      BY <3>1 DEF TokensKept
    <3>2. CASE r \notin tasks
      <4>1. PICK u \in DOMAIN f : r.token = f[u]
        BY <2>3, <3>2
      <4>2. events[i].token < next_token /\ next_token <= f[u] /\ f[u] \in Nat /\ events[i].token \in Nat
        BY <1>0, <2>1 DEF TokensKept
      <4> QED
        BY <1>1, <4>1, <4>2
    <3> QED
      BY <3>1, <3>2
  <2>7. /\ \A i \in DOMAIN events : events[i].token < next_token'
        /\ \A v \in void : v < next_token'
    <3>1. \A i \in DOMAIN events : events[i].token < next_token /\ events[i].token \in Nat
      BY <1>0 DEF TokensKept
    <3>2. \A v \in void : v < next_token /\ v \in Nat
      BY <1>1 DEF TokensKept
    <3> QED
      BY <1>1, <2>1, <3>1, <3>2
  <2>8. \A i, j \in DOMAIN events : events[i].token = events[j].token => i = j
    BY DEF TokensKept
  <2> QED
    BY <2>2, <2>4, <2>5, <2>6, <2>7, <2>8 DEF TokensKept
<1>6. ASSUME NEW t \in tasks, DialEnds(t)
      PROVE  TokensKept'
  <2>1. PICK e : e.token = t.token /\ events' = Append(events, e)
    BY <1>6 DEF DialEnds
  <2>2. tasks' = tasks \ {t} /\ UNCHANGED <<next_token, void>>
    BY <1>6 DEF DialEnds, node, hist
  <2>3. /\ DOMAIN events' = DOMAIN events \cup {Len(events) + 1}
        /\ \A i \in DOMAIN events : events'[i] = events[i]
        /\ events'[Len(events) + 1] = e
    BY <1>1, <2>1
  <2> QED
    BY <2>1, <2>2, <2>3 DEF TokensKept
<1>7. CASE CmdsDrained \/ Turn \/ AnswerArrives \/ PacketArrives \/ SubmitSend \/ SubmitQuit \/ KernelSends \/ Tick \/ Listen
  BY <1>2, <1>7 DEF CmdsDrained, Turn, AnswerArrives, PacketArrives, SubmitSend, SubmitQuit, KernelSends, Tick, Listen, node, hist
<1>8. CASE \/ \E id \in Ids : ReadTimesOut(id) \/ Evict(id) \/ Retire(id) \/ SocketMoves(id)
           \/ \E u \in Info : SubmitDial(u) \/ BackoffEnds(u)
           \/ \E c \in Conn : Ask(c) \/ HandleOne(c)
  BY <1>2, <1>8 DEF ReadTimesOut, Evict, Retire, SocketMoves, SubmitDial, BackoffEnds, Ask, HandleOne, node, hist
<1>9. CASE UNCHANGED vars
  BY <1>2, <1>9 DEF vars, node, hist
<1> QED
  BY <1>3, <1>4, <1>5, <1>6, <1>7, <1>8, <1>9 DEF Next, Loop, Serve, Others

\* Rows that wait for a dial wait for the one they waited for before.
DialingKept(t) ==
  \A u \in Info : (t[u] # None /\ t[u].dialing # None) =>
    (table[u] # None /\ t[u].dialing = table[u].dialing)

LEMMA DialingKeepsRows ==
  ASSUME RowsWait, table' \in Table, DialingKept(table'), UNCHANGED <<next_token, tasks, events, void>>
  PROVE  RowsWait'
<1>1. \A u \in Rows(table') : u \in Info /\ table'[u] # None
  BY DEF Rows
<1>2. ASSUME NEW u \in Rows(table'), table'[u].dialing # None
      PROVE  u \in Rows(table) /\ table'[u].dialing = table[u].dialing
  BY <1>1, <1>2 DEF DialingKept, Rows
<1>3. ASSUME NEW u \in Rows(table'), table'[u].dialing # None
      PROVE  /\ table'[u].dialing < next_token
             /\ table'[u].dialing \notin void
             /\ Reported(tasks, events, table'[u].dialing)
  BY <1>2, <1>3 DEF RowsWait
<1>5. ASSUME NEW u \in Rows(table'), NEW v \in Rows(table'),
             table'[u].dialing # None, table'[u].dialing = table'[v].dialing
      PROVE  u = v
  <2>1. /\ u \in Rows(table) /\ table'[u].dialing = table[u].dialing
        /\ v \in Rows(table) /\ table'[v].dialing = table[v].dialing
    BY <1>2, <1>5
  <2> QED
    BY <1>5, <2>1 DEF RowsWait
<1> QED
  <2>1. \A u \in Rows(table') : table'[u].dialing # None => Reported(tasks', events', table'[u].dialing)
    BY <1>3 DEF Reported
  <2> QED
    BY <1>3, <1>5, <2>1 DEF RowsWait

LEMMA RowsStep ==
  ASSUME LinkTypes, QueueTypes, LinksKept, TokensKept, RowsWait, [Next]_vars
  PROVE  RowsWait'
<1>1. /\ tasks \subseteq [token : Nat, uri : Info] /\ events \in Seq(LinkEvent)
      /\ next_token \in Nat /\ void \subseteq Nat /\ table \in Table
  BY DEF LinkTypes, QueueTypes
<1>0. table' \in Table
  BY LinkTypesStep DEF LinkTypes
<1>2. ASSUME UNCHANGED <<table, tasks, events, next_token, void>>
      PROVE  RowsWait'
  BY <1>2 DEF RowsWait, Reported, Rows
<1>3. CASE OnCmd
  <2> DEFINE cmd == Head(cmds)
  <2>1. cmd \in Cmd
    BY <1>3, HeadCmd DEF OnCmd
  <2>2. UNCHANGED <<tasks, events, next_token>>
    BY <1>3 DEF OnCmd
  <2> HIDE DEF cmd
  <2>3. CASE OnDrop(cmd)
    <3>1. cmd.uri \in Info
      BY <2>1, <2>3, CmdFields DEF OnDrop
    <3>2. \A u \in Info : table'[u] = IF u = cmd.uri THEN None ELSE table[u]
      BY <1>1, <2>3, <3>1 DEF OnDrop, RemoveRow, Table
    <3>3. Rows(table') \subseteq Rows(table) \ {cmd.uri} /\ \A u \in Rows(table') : table'[u] = table[u]
      BY <3>2 DEF Rows
    <3>4. \A u \in Rows(table') : table[u].dialing # None => table[u].dialing \notin void'
      <4> SUFFICES ASSUME NEW u \in Rows(table'), table[u].dialing # None
                   PROVE  table[u].dialing \notin void'
        OBVIOUS
      <4>1. void' = void \/ (cmd.uri \in Rows(table) /\ table[cmd.uri].dialing # None
                             /\ void' = void \cup {table[cmd.uri].dialing})
        BY <2>3, <3>1 DEF OnDrop, Rows
      <4>2. u \in Rows(table) /\ u # cmd.uri
        BY <3>3
      <4>3. table[u].dialing \notin void /\ (cmd.uri \in Rows(table) => table[u].dialing # table[cmd.uri].dialing)
        BY <4>2 DEF RowsWait
      <4> QED
        BY <4>1, <4>3
    <3>5. \A u \in Rows(table') : table[u].dialing # None =>
             table[u].dialing < next_token /\ Reported(tasks, events, table[u].dialing)
      BY <3>3 DEF RowsWait
    <3>6. \A u \in Rows(table') : table[u].dialing # None => Reported(tasks', events', table'[u].dialing)
      BY <2>2, <3>3, <3>5 DEF Reported
    <3>7. \A u, v \in Rows(table') :
             (table'[u].dialing # None /\ table'[u].dialing = table'[v].dialing) => u = v
      BY <3>3 DEF RowsWait
    <3> QED
      BY <2>2, <3>3, <3>4, <3>5, <3>6, <3>7 DEF RowsWait
  <2>4. CASE OnDialCmd(cmd)
    <3>1. cmd.uri \in Info \cup {None}
      BY <2>1, <2>4, CmdFields DEF OnDialCmd
    <3>2. DialingKept(table') /\ void' = void
      <4>1. cmd.kind \in Kind
        BY <2>1, <2>4, CmdFields DEF OnDialCmd, Kind
      <4> QED
        BY <1>1, <2>4, <3>1, <4>1, AddRows DEF OnDialCmd, DialingKept
    <3> QED
      BY <1>0, <2>2, <3>2, DialingKeepsRows
  <2>5. CASE OnAccept(cmd)
    <3>1. cmd.uri \in Info \cup {None} /\ cmd.id \in Nat
      BY <2>1, <2>5, CmdFields, InfoAssumption DEF OnAccept
    <3>2. table' = table \/ (cmd.uri # None /\ table' = Accept(table, cmd.uri, cmd.id))
      BY <2>5 DEF OnAccept
    <3>3. DialingKept(table')
      BY <1>1, <3>1, <3>2, AcceptRows DEF DialingKept
    <3>4. void' = void
      BY <2>5 DEF OnAccept
    <3> QED
      BY <1>0, <2>2, <3>3, <3>4, DialingKeepsRows
  <2>6. CASE OnReport(cmd) \/ OnRemote(cmd) \/ OnSend(cmd) \/ OnQuit(cmd)
    BY <1>2, <2>2, <2>6 DEF OnReport, OnRemote, OnSend, OnQuit
  <2> QED
    BY <1>3, <2>3, <2>4, <2>5, <2>6 DEF OnCmd, cmd
<1>4. CASE OnDial
  <2> DEFINE ev == Head(events)
  <2>1. events # <<>> /\ events' = Tail(events) /\ UNCHANGED <<tasks, next_token, void>>
    BY <1>4 DEF OnDial, hist
  <2>2. table' = MarkFailed(table, ev.token) \/ (ev.id # None /\ table' = MarkLive(table, ev.token, ev.id))
    BY <1>4 DEF OnDial
  <2>7. ev.id # None => ev.id \in Nat
    BY <1>4, HeadEvent, IdsAreNat DEF OnDial
  <2> HIDE DEF ev
  <2>3. ASSUME NEW u \in Rows(table'), table'[u].dialing # None
        PROVE  u \in Rows(table) /\ table'[u] = table[u] /\ table[u].dialing # ev.token
    <3>1. u \in Info /\ table'[u] # None
      BY DEF Rows
    <3>2. ~Waits(table, u, ev.token)
      BY <1>1, <2>2, <2>3, <2>7, <3>1, MarkFailedRows, MarkLiveRows
    <3>3. table'[u] = table[u]
      BY <1>1, <2>2, <2>7, <3>1, <3>2, MarkFailedRows, MarkLiveRows
    <3> QED
      BY <3>1, <3>2, <3>3 DEF Rows, Waits
  <2>4. ASSUME NEW u \in Rows(table'), table'[u].dialing # None
        PROVE  Reported(tasks', events', table'[u].dialing)
    <3>1. u \in Rows(table) /\ table'[u] = table[u] /\ table[u].dialing # ev.token
      BY <2>3, <2>4
    <3>2. Reported(tasks, events, table[u].dialing)
      BY <2>4, <3>1 DEF RowsWait
    <3>3. CASE \E t \in tasks : t.token = table[u].dialing
      BY <2>1, <3>1, <3>3 DEF Reported
    <3>4. ASSUME NEW i \in DOMAIN events, events[i].token = table[u].dialing
          PROVE  Reported(tasks', events', table'[u].dialing)
      <4>1. i # 1 /\ i \in 1 .. Len(events) /\ Len(events) \in Nat
        BY <1>1, <2>1, <3>1, <3>4 DEF ev
      <4>2. i - 1 \in DOMAIN events' /\ events'[i - 1] = events[i]
        BY <1>1, <2>1, <4>1
      <4> QED
        BY <3>1, <3>4, <4>2 DEF Reported
    <3> QED
      BY <3>2, <3>3, <3>4 DEF Reported
  <2>5. ASSUME NEW u \in Rows(table'), table'[u].dialing # None
        PROVE  table'[u].dialing < next_token' /\ table'[u].dialing \notin void'
    BY <2>1, <2>3, <2>5 DEF RowsWait
  <2>6. ASSUME NEW u \in Rows(table'), NEW v \in Rows(table'),
               table'[u].dialing # None, table'[u].dialing = table'[v].dialing
        PROVE  u = v
    <3>1. /\ u \in Rows(table) /\ table'[u] = table[u]
          /\ v \in Rows(table) /\ table'[v] = table[v]
      BY <2>3, <2>6
    <3> QED
      BY <2>6, <3>1 DEF RowsWait
  <2> QED
    BY <2>4, <2>5, <2>6 DEF RowsWait
<1>5. CASE Plan
  <2>1. PICK t, f :
           /\ t \in Table
           /\ t = NoteLiveness(table, set)
           /\ table' = StartDue(t, f)
           /\ DOMAIN f \subseteq Info
           /\ \A u \in DOMAIN f : Dialable(t, u) /\ f[u] \in Nat /\ next_token <= f[u] /\ f[u] < next_token'
           /\ \A u, v \in DOMAIN f : f[u] = f[v] => u = v
           /\ tasks' = tasks \cup {[token |-> f[u], uri |-> u] : u \in DOMAIN f}
           /\ next_token' \in Nat /\ next_token <= next_token'
    BY <1>5, PlanStep
  <2>2. UNCHANGED <<events, void>>
    BY <1>5 DEF Plan, hist
  <2>3. DialingKept(t)
    BY <1>1, <2>1, NoteLivenessRows DEF DialingKept
  <2>4. ASSUME NEW u \in Rows(table'), table'[u].dialing # None
        PROVE  \/ u \in DOMAIN f /\ table'[u].dialing = f[u]
               \/ u \notin DOMAIN f /\ u \in Rows(table) /\ table'[u].dialing = table[u].dialing
    BY <2>1, <2>3, <2>4 DEF DialingKept, StartDue, Rows, Table, Row, Dialable
  <2>5. ASSUME NEW u \in Rows(table), table[u].dialing # None
        PROVE  /\ table[u].dialing \in Nat /\ table[u].dialing < next_token
               /\ table[u].dialing \notin void /\ Reported(tasks', events', table[u].dialing)
    <3>1. /\ table[u].dialing < next_token
          /\ table[u].dialing \notin void /\ Reported(tasks, events, table[u].dialing)
      BY <2>5 DEF RowsWait
    <3>2. table[u].dialing \in Nat
      BY <1>1, <2>5 DEF Rows, Table, Row
    <3>3. Reported(tasks', events', table[u].dialing)
      BY <2>1, <2>2, <3>1 DEF Reported
    <3> QED
      BY <3>1, <3>2, <3>3
  <2>6. \A u \in DOMAIN f : Reported(tasks', events', f[u])
    <3> SUFFICES ASSUME NEW u \in DOMAIN f
                 PROVE  \E r \in tasks' : r.token = f[u]
      BY DEF Reported
    <3>1. [token |-> f[u], uri |-> u] \in tasks'
      BY <2>1
    <3> QED
      BY <3>1
  <2>7. ASSUME NEW u \in Rows(table'), table'[u].dialing # None
        PROVE  /\ table'[u].dialing < next_token'
               /\ table'[u].dialing \notin void'
               /\ Reported(tasks', events', table'[u].dialing)
    <3>1. CASE u \in DOMAIN f /\ table'[u].dialing = f[u]
      <4>1. f[u] \in Nat /\ next_token <= f[u] /\ f[u] < next_token'
        BY <2>1, <3>1
      <4>2. f[u] \notin void
        <5> SUFFICES ASSUME f[u] \in void
                     PROVE  FALSE
          OBVIOUS
        <5>1. f[u] < next_token
          BY DEF TokensKept
        <5> QED
          BY <1>1, <4>1, <5>1
      <4>3. Reported(tasks', events', f[u])
        BY <2>6, <3>1
      <4> QED
        BY <2>2, <3>1, <4>1, <4>2, <4>3
    <3>2. CASE u \in Rows(table) /\ table'[u].dialing = table[u].dialing
      <4>1. /\ table[u].dialing \in Nat /\ table[u].dialing < next_token
            /\ table[u].dialing \notin void /\ Reported(tasks', events', table[u].dialing)
        BY <2>5, <2>7, <3>2
      <4> QED
        BY <1>1, <2>1, <2>2, <3>2, <4>1
    <3> QED
      BY <2>4, <2>7, <3>1, <3>2
  <2>8. ASSUME NEW u \in Rows(table'), NEW v \in Rows(table'),
               table'[u].dialing # None, table'[u].dialing = table'[v].dialing
        PROVE  u = v
    <3>1. ASSUME NEW x \in DOMAIN f, NEW y \in Rows(table), table[y].dialing # None
          PROVE  f[x] # table[y].dialing
      <4>1. f[x] \in Nat /\ next_token <= f[x]
        BY <2>1
      <4>2. table[y].dialing \in Nat /\ table[y].dialing < next_token
        BY <2>5, <3>1
      <4> QED
        BY <1>1, <4>1, <4>2
    <3>2. /\ (u \in DOMAIN f /\ table'[u].dialing = f[u]) \/ (u \in Rows(table) /\ table'[u].dialing = table[u].dialing)
          /\ (v \in DOMAIN f /\ table'[v].dialing = f[v]) \/ (v \in Rows(table) /\ table'[v].dialing = table[v].dialing)
      BY <2>4, <2>8
    <3>3. \A x, y \in Rows(table) : (table[x].dialing # None /\ table[x].dialing = table[y].dialing) => x = y
      BY DEF RowsWait
    <3> QED
      BY <2>1, <2>8, <3>1, <3>2, <3>3
  <2> QED
    BY <2>7, <2>8 DEF RowsWait
<1>6. ASSUME NEW t \in tasks, DialEnds(t)
      PROVE  RowsWait'
  <2>1. PICK e : e.token = t.token /\ events' = Append(events, e)
    BY <1>6 DEF DialEnds
  <2>2. tasks' = tasks \ {t} /\ UNCHANGED <<next_token, void, table>>
    BY <1>6 DEF DialEnds, node, hist
  <2>3. /\ DOMAIN events' = DOMAIN events \cup {Len(events) + 1}
        /\ \A i \in DOMAIN events : events'[i] = events[i]
        /\ events'[Len(events) + 1] = e
    BY <1>1, <2>1
  <2>4. ASSUME NEW token, Reported(tasks, events, token)
        PROVE  Reported(tasks', events', token)
    BY <2>1, <2>2, <2>3, <2>4 DEF Reported
  <2> QED
    BY <2>2, <2>4 DEF RowsWait
<1>7. CASE CmdsDrained \/ Turn \/ AnswerArrives \/ PacketArrives \/ SubmitSend \/ SubmitQuit \/ KernelSends \/ Tick \/ Listen
  BY <1>2, <1>7 DEF CmdsDrained, Turn, AnswerArrives, PacketArrives, SubmitSend, SubmitQuit, KernelSends, Tick, Listen, node, hist
<1>8. CASE \/ \E id \in Ids : ReadTimesOut(id) \/ Evict(id) \/ Retire(id) \/ SocketMoves(id)
           \/ \E u \in Info : SubmitDial(u)
           \/ \E c \in Conn : Ask(c) \/ HandleOne(c)
  BY <1>2, <1>8 DEF ReadTimesOut, Evict, Retire, SocketMoves, SubmitDial, Ask, HandleOne, node, hist
<1>9. ASSUME NEW u \in Info, BackoffEnds(u)
      PROVE  RowsWait'
  <2>1. DialingKept(table') /\ UNCHANGED <<next_token, tasks, events, void>>
    BY <1>1, <1>9 DEF BackoffEnds, DialingKept, Table, Row, hist
  <2> QED
    BY <1>0, <2>1, DialingKeepsRows
<1>10. CASE UNCHANGED vars
  BY <1>2, <1>10 DEF vars, node, hist
<1> QED
  BY <1>3, <1>4, <1>5, <1>6, <1>7, <1>8, <1>9, <1>10 DEF Next, Loop, Serve, Others

-----------------------------------------------------------------------------
(* Links and their names *)

\* Rows hold the links they held, but for x, which may have got the link id.
LiveFrom(t, x, id) ==
  \A u \in Info : (t[u] # None /\ t[u].live # None) =>
    \/ table[u] # None /\ t[u].live = table[u].live
    \/ u = x /\ t[u].live = id

\* A queue is what it was, without its first d members perhaps, and with new
\* ones that hold no link.
CmdsFrom(d) ==
  \A i \in DOMAIN cmds' : cmds'[i].op = "accept" => i + d \in DOMAIN cmds /\ cmds[i + d] = cmds'[i]

EventsFrom(d) ==
  \A i \in DOMAIN events' : events'[i].id # None => i + d \in DOMAIN events /\ events[i + d] = events'[i]

LEMMA LinksMove ==
  ASSUME LinksKept, Ids \subseteq Ids', table \in Table,
         cmds' \in Seq(Cmd), events' \in Seq(LinkEvent'),
         NEW x, NEW id, LiveFrom(table', x, id),
         NEW d \in {0, 1}, CmdsFrom(d), NEW e \in {0, 1}, EventsFrom(e),
         id # None => /\ id \in Ids
                      /\ \A i \in DOMAIN cmds' : cmds'[i].op = "accept" => cmds'[i].id # id
                      /\ \A i \in DOMAIN events' : events'[i].id # id
                      /\ \A u \in Rows(table) : table[u].live # id
  PROVE  LinksKept'
<1>1. DOMAIN cmds' \subseteq Nat /\ DOMAIN events' \subseteq Nat
  OBVIOUS
<1>2. \A i \in DOMAIN cmds' : cmds'[i].op = "accept" => cmds'[i].id \in Ids'
  BY DEF LinksKept, Offers, CmdsFrom
<1>3. ASSUME NEW i \in DOMAIN cmds', NEW j \in DOMAIN cmds',
             cmds'[i].op = "accept", cmds'[j].op = "accept", cmds'[i].id = cmds'[j].id
      PROVE  i = j
  <2>1. i + d = j + d
    BY <1>3 DEF LinksKept, Offers, CmdsFrom
  <2> QED
    BY <1>1, <2>1
<1>4. ASSUME NEW i \in DOMAIN events', NEW j \in DOMAIN events',
             events'[i].id # None, events'[i].id = events'[j].id
      PROVE  i = j
  <2>1. i + e = j + e
    BY <1>4 DEF LinksKept, EventsFrom
  <2> QED
    BY <1>1, <2>1
<1>5. ASSUME NEW i \in DOMAIN cmds', NEW j \in DOMAIN events', cmds'[i].op = "accept"
      PROVE  cmds'[i].id # events'[j].id
  <2>1. cmds[i + d] = cmds'[i] /\ i + d \in DOMAIN cmds /\ cmds'[i].id # None
    <3>1. cmds'[i] \in Cmd
      OBVIOUS
    <3>2. cmds'[i].id \in Nat
      BY <1>5, <3>1, CmdFields
    <3> QED
      BY <1>5, <3>2, InfoAssumption DEF CmdsFrom
  <2>2. CASE events'[j].id = None
    BY <2>1, <2>2
  <2>3. CASE events'[j].id # None
    BY <1>5, <2>1, <2>3 DEF EventsFrom, LinksKept, Offers
  <2> QED
    BY <2>2, <2>3
<1>6. ASSUME NEW u \in Rows(table'), table'[u].live # None
      PROVE  /\ table'[u].live \in Ids
             /\ \A i \in DOMAIN cmds' : cmds'[i].op = "accept" => cmds'[i].id # table'[u].live
             /\ \A j \in DOMAIN events' : events'[j].id # table'[u].live
  <2>0. u \in Info /\ table'[u] # None
    BY DEF Rows
  <2>1. CASE table[u] # None /\ table'[u].live = table[u].live
    <3>1. u \in Rows(table) /\ table[u].live # None
      BY <1>6, <2>0, <2>1 DEF Rows
    <3>2. /\ table[u].live \in Ids
          /\ \A i \in DOMAIN cmds : cmds[i].op = "accept" => cmds[i].id # table[u].live
          /\ \A j \in DOMAIN events : events[j].id # table[u].live
      BY <3>1 DEF LinksKept, Offers
    <3> QED
      BY <1>6, <2>1, <3>2 DEF CmdsFrom, EventsFrom
  <2>2. CASE u = x /\ table'[u].live = id
    BY <1>6, <2>2
  <2> QED
    BY <1>6, <2>0, <2>1, <2>2 DEF LiveFrom
<1>7. ASSUME NEW u \in Rows(table'), NEW v \in Rows(table'),
             table'[u].live # None, table'[u].live = table'[v].live
      PROVE  u = v
  <2>0. u \in Info /\ table'[u] # None /\ v \in Info /\ table'[v] # None
    BY DEF Rows
  <2>1. /\ \/ u \in Rows(table) /\ table'[u].live = table[u].live
           \/ u = x /\ table'[u].live = id
        /\ \/ v \in Rows(table) /\ table'[v].live = table[v].live
           \/ v = x /\ table'[v].live = id
    BY <1>7, <2>0 DEF LiveFrom, Rows
  <2>2. \A y, z \in Rows(table) : (table[y].live # None /\ table[y].live = table[z].live) => y = z
    BY DEF LinksKept
  <2> QED
    BY <1>7, <2>1, <2>2
<1> QED
  BY <1>2, <1>3, <1>4, <1>5, <1>6, <1>7 DEF LinksKept, Offers

\* A link comes up and is offered, in a command or in a result.
LEMMA LinksOffered ==
  ASSUME LinkTypes, QueueTypes, LinksKept, sock' = Append(sock, "up"), table' = table,
         \/ /\ events' = events
            /\ \E u : cmds' = Append(cmds, [op |-> "accept", uri |-> u, id |-> Len(sock) + 1])
         \/ /\ cmds' = cmds
            /\ \E k : events' = Append(events, [token |-> k, id |-> Len(sock) + 1])
  PROVE  LinksKept'
<1> DEFINE n == Len(sock) + 1
<1>1. n \notin Ids /\ Ids' = Ids \cup {n} /\ None \notin Ids' /\ n # None
  BY InfoAssumption DEF LinkTypes, Ids
<1> HIDE DEF n
<1>2. \A u \in Rows(table) : table[u].live # None => table[u].live \in Ids
  BY DEF LinksKept
<1>3. \A i \in DOMAIN cmds : cmds[i].op = "accept" => cmds[i].id \in Ids
  BY DEF LinksKept, Offers
<1>4. \A i \in DOMAIN events : events[i].id \in Ids \cup {None}
  <2>1. \A i \in DOMAIN events : events[i] \in LinkEvent
    BY DEF QueueTypes
  <2> QED
    BY <2>1 DEF LinkEvent
<1>5. CASE events' = events /\ \E u : cmds' = Append(cmds, [op |-> "accept", uri |-> u, id |-> n])
  <2>1. PICK u : cmds' = Append(cmds, [op |-> "accept", uri |-> u, id |-> n])
    BY <1>5
  <2>2. /\ DOMAIN cmds' = DOMAIN cmds \cup {Len(cmds) + 1}
        /\ \A i \in DOMAIN cmds : cmds'[i] = cmds[i]
        /\ cmds'[Len(cmds) + 1] = [op |-> "accept", uri |-> u, id |-> n]
    BY <2>1 DEF QueueTypes
  <2>3. \A i \in DOMAIN cmds' : i # Len(cmds) + 1 => i \in DOMAIN cmds /\ cmds'[i] = cmds[i]
    BY <2>2
  <2>4. cmds'[Len(cmds) + 1].id = n
    BY <2>2
  <2>5. \A i \in DOMAIN cmds' : cmds'[i].op = "accept" => cmds'[i].id \in Ids'
    BY <1>1, <1>3, <2>3, <2>4
  <2>6. \A i, j \in DOMAIN cmds' :
          (cmds'[i].op = "accept" /\ cmds'[j].op = "accept" /\ cmds'[i].id = cmds'[j].id) => i = j
    BY <1>1, <1>3, <2>3, <2>4 DEF LinksKept, Offers
  <2>7. \A i \in DOMAIN cmds', j \in DOMAIN events : cmds'[i].op = "accept" => cmds'[i].id # events[j].id
    BY <1>1, <1>4, <2>3, <2>4 DEF LinksKept, Offers
  <2>8. \A v \in Rows(table) : table[v].live # None =>
           \A i \in DOMAIN cmds' : cmds'[i].op = "accept" => cmds'[i].id # table[v].live
    BY <1>1, <1>2, <2>3, <2>4 DEF LinksKept, Offers
  <2> QED
    BY <1>1, <1>5, <2>5, <2>6, <2>7, <2>8 DEF LinksKept, Offers, Rows
<1>6. CASE cmds' = cmds /\ \E k : events' = Append(events, [token |-> k, id |-> n])
  <2>1. PICK k : events' = Append(events, [token |-> k, id |-> n])
    BY <1>6
  <2>2. /\ DOMAIN events' = DOMAIN events \cup {Len(events) + 1}
        /\ \A i \in DOMAIN events : events'[i] = events[i]
        /\ events'[Len(events) + 1] = [token |-> k, id |-> n]
    BY <2>1 DEF QueueTypes
  <2>3. \A i \in DOMAIN events' : i # Len(events) + 1 => i \in DOMAIN events /\ events'[i] = events[i]
    BY <2>2
  <2>4. events'[Len(events) + 1].id = n
    BY <2>2
  <2>5. \A i, j \in DOMAIN events' : (events'[i].id # None /\ events'[i].id = events'[j].id) => i = j
    BY <1>1, <1>4, <2>3, <2>4 DEF LinksKept
  <2>6. \A i \in DOMAIN cmds, j \in DOMAIN events' : cmds[i].op = "accept" => cmds[i].id # events'[j].id
    BY <1>1, <1>3, <2>3, <2>4 DEF LinksKept, Offers
  <2>7. \A v \in Rows(table) : table[v].live # None =>
           \A i \in DOMAIN events' : events'[i].id # table[v].live
    BY <1>1, <1>2, <2>3, <2>4 DEF LinksKept
  <2> QED
    BY <1>1, <1>6, <2>5, <2>6, <2>7 DEF LinksKept, Offers, Rows
<1> QED
  BY <1>5, <1>6 DEF n

LEMMA LinksStep ==
  ASSUME LinkTypes, QueueTypes, AskTypes, LinksKept, TokensKept, RowsWait, [Next]_vars
  PROVE  LinksKept'
<1>1. /\ table \in Table /\ table' \in Table /\ Ids \subseteq Ids'
      /\ cmds \in Seq(Cmd) /\ events \in Seq(LinkEvent)
      /\ cmds' \in Seq(Cmd) /\ events' \in Seq(LinkEvent')
  <2>1. LinkTypes' /\ QueueTypes' /\ Ids \subseteq Ids'
    BY LinkTypesStep, QueueTypesStep, SockMoves, SockStepType
  <2> QED
    BY <2>1 DEF LinkTypes, QueueTypes
<1>0. Ids \subseteq Nat /\ None \notin Ids
  BY IdsAreNat
<1>2. /\ cmds' = cmds => CmdsFrom(0)
      /\ cmds # <<>> /\ cmds' = Tail(cmds) => CmdsFrom(1)
      /\ \A c \in Cmd : c.op # "accept" /\ cmds' = Append(cmds, c) => CmdsFrom(0)
      /\ events' = events => EventsFrom(0)
      /\ events # <<>> /\ events' = Tail(events) => EventsFrom(1)
  <2>1. \A i \in DOMAIN cmds \cup DOMAIN events : i + 0 = i
    BY <1>1
  <2>2. cmds # <<>> /\ cmds' = Tail(cmds) => CmdsFrom(1)
    BY <1>1, TailOf DEF CmdsFrom
  <2>3. ASSUME NEW c \in Cmd, c.op # "accept", cmds' = Append(cmds, c)
        PROVE  CmdsFrom(0)
    BY <1>1, <2>1, <2>3 DEF CmdsFrom
  <2>4. events # <<>> /\ events' = Tail(events) => EventsFrom(1)
    <3> SUFFICES ASSUME events # <<>>, events' = Tail(events)
                 PROVE  EventsFrom(1)
      OBVIOUS
    <3>1. \A i \in DOMAIN Tail(events) : i + 1 \in DOMAIN events /\ Tail(events)[i] = events[i + 1]
      BY <1>1, TailOf
    <3> QED
      BY <3>1 DEF EventsFrom
  <2>5. /\ cmds' = cmds => CmdsFrom(0)
        /\ events' = events => EventsFrom(0)
    BY <2>1 DEF CmdsFrom, EventsFrom
  <2> QED
    BY <2>2, <2>3, <2>4, <2>5
<1>3. table' = table => LiveFrom(table', None, None)
  BY DEF LiveFrom
<1>4. ASSUME table' = table, events' = events,
             cmds' = cmds \/ \E c \in Cmd : c.op # "accept" /\ cmds' = Append(cmds, c)
      PROVE  LinksKept'
  <2>1. CmdsFrom(0) /\ EventsFrom(0) /\ LiveFrom(table', None, None)
    BY <1>2, <1>3, <1>4
  <2> QED
    BY <1>1, <2>1, LinksMove
<1>5. CASE OnCmd
  <2> DEFINE cmd == Head(cmds)
  <2>1. /\ cmd \in Cmd /\ (cmd.op = "accept" => cmd.id \in Ids)
        /\ 1 \in DOMAIN cmds /\ cmd = cmds[1]
    BY <1>5, HeadCmd DEF OnCmd
  <2>2. CmdsFrom(1) /\ EventsFrom(0)
    BY <1>2, <1>5 DEF OnCmd
  <2>3. cmds # <<>> /\ cmds' = Tail(cmds) /\ events' = events
    BY <1>5 DEF OnCmd
  <2> HIDE DEF cmd
  <2>4. ASSUME LiveFrom(table', None, None)
        PROVE  LinksKept'
    BY <1>1, <2>2, <2>4, LinksMove
  <2>5. CASE OnDialCmd(cmd)
    <3>1. cmd.uri \in Info \cup {None} /\ cmd.kind \in Kind
      BY <2>1, <2>5, CmdFields DEF OnDialCmd, Kind
    <3>2. LiveFrom(table', None, None)
      BY <1>1, <2>5, <3>1, AddRows DEF OnDialCmd, LiveFrom
    <3> QED
      BY <2>4, <3>2
  <2>6. CASE OnDrop(cmd)
    <3>1. cmd.uri \in Info
      BY <2>1, <2>6, CmdFields DEF OnDrop
    <3>2. \A u \in Info : table'[u] = IF u = cmd.uri THEN None ELSE table[u]
      BY <1>1, <2>6, <3>1 DEF OnDrop, RemoveRow, Table
    <3>3. LiveFrom(table', None, None)
      BY <3>2 DEF LiveFrom
    <3> QED
      BY <2>4, <3>3
  <2>7. CASE OnAccept(cmd)
    <3>1. cmd.uri \in Info \cup {None} /\ cmd.id \in Ids /\ cmd.id \in Nat /\ cmd.op = "accept"
      BY <1>0, <2>1, <2>7, CmdFields, InfoAssumption DEF OnAccept
    <3>2. CASE table' = table
      BY <1>3, <2>4, <3>2
    <3>3. CASE cmd.uri # None /\ table' = Accept(table, cmd.uri, cmd.id)
      <4>1. LiveFrom(table', cmd.uri, cmd.id)
        BY <1>1, <3>1, <3>3, AcceptRows DEF LiveFrom
      <4>2. \A i \in DOMAIN cmds' : cmds'[i].op = "accept" => cmds'[i].id # cmd.id
        <5>1. \A i \in DOMAIN cmds' : i + 1 \in DOMAIN cmds /\ i + 1 # 1 /\ cmds'[i] = cmds[i + 1]
          BY <1>1, <2>3, TailOf
        <5> QED
          BY <2>1, <3>1, <5>1 DEF LinksKept, Offers
      <4>3. \A i \in DOMAIN events' : events'[i].id # cmd.id
        BY <2>1, <2>3, <3>1 DEF LinksKept, Offers
      <4>4. \A u \in Rows(table) : table[u].live # cmd.id
        BY <1>0, <2>1, <3>1 DEF LinksKept, Offers
      <4> QED
        BY <1>1, <2>2, <3>1, <4>1, <4>2, <4>3, <4>4, LinksMove
    <3>4. table' = table \/ (cmd.uri # None /\ table' = Accept(table, cmd.uri, cmd.id))
      BY <2>7 DEF OnAccept
    <3> QED
      BY <3>2, <3>3, <3>4
  <2>8. CASE OnReport(cmd) \/ OnRemote(cmd) \/ OnSend(cmd) \/ OnQuit(cmd)
    BY <1>3, <2>4, <2>8 DEF OnReport, OnRemote, OnSend, OnQuit
  <2> QED
    BY <1>5, <2>5, <2>6, <2>7, <2>8 DEF OnCmd, cmd
<1>6. CASE OnDial
  <2> DEFINE ev == Head(events)
  <2>1. ev.id \in Ids \cup {None} /\ 1 \in DOMAIN events /\ ev = events[1]
    BY <1>6, HeadEvent DEF OnDial
  <2>2. CmdsFrom(0) /\ EventsFrom(1)
    BY <1>2, <1>6 DEF OnDial
  <2>3. events # <<>> /\ events' = Tail(events) /\ cmds' = cmds
    BY <1>6 DEF OnDial
  <2>4. table' = MarkFailed(table, ev.token) \/ (ev.id # None /\ table' = MarkLive(table, ev.token, ev.id))
    BY <1>6 DEF OnDial
  <2> HIDE DEF ev
  <2>5. CASE table' = MarkFailed(table, ev.token)
    <3>1. LiveFrom(table', None, None)
      BY <1>1, <2>5, MarkFailedRows DEF LiveFrom
    <3> QED
      BY <1>1, <2>2, <3>1, LinksMove
  <2>6. CASE ev.id # None /\ table' = MarkLive(table, ev.token, ev.id)
    <3>0. ev.id \in Ids /\ ev.id \in Nat
      BY <1>0, <2>1, <2>6
    <3>1. PICK x : \A u \in Info : Waits(table, u, ev.token) => u = x
      <4>1. ev.token # None
        BY <1>6, HeadEvent, InfoAssumption DEF OnDial, ev
      <4>2. \A u, v \in Info : Waits(table, u, ev.token) /\ Waits(table, v, ev.token) => u = v
        BY <4>1 DEF Waits, RowsWait, Rows
      <4> QED
        BY <4>2
    <3>2. LiveFrom(table', x, ev.id)
      BY <1>1, <2>6, <3>0, <3>1, MarkLiveRows DEF LiveFrom
    <3>3. \A i \in DOMAIN cmds' : cmds'[i].op = "accept" => cmds'[i].id # ev.id
      BY <2>1, <2>3 DEF LinksKept, Offers
    <3>4. \A i \in DOMAIN events' : events'[i].id # ev.id
      <4>1. \A i \in DOMAIN events' : i + 1 \in DOMAIN events /\ i + 1 # 1 /\ events'[i] = events[i + 1]
        BY <1>1, <2>3, TailOf
      <4> QED
        BY <2>1, <2>6, <4>1 DEF LinksKept
    <3>5. \A u \in Rows(table) : table[u].live # ev.id
      BY <2>1, <2>6 DEF LinksKept
    <3> QED
      BY <1>1, <2>2, <3>0, <3>2, <3>3, <3>4, <3>5, LinksMove
  <2> QED
    BY <2>4, <2>5, <2>6
<1>7. CASE Plan
  <2>1. PICK t, f :
           /\ t \in Table
           /\ t = NoteLiveness(table, set)
           /\ table' = StartDue(t, f)
           /\ \A u \in DOMAIN f : Dialable(t, u) /\ f[u] \in Nat
    BY <1>7, PlanStep
  <2>2. LiveFrom(t, None, None)
    BY <1>1, <2>1, NoteLivenessRows DEF LiveFrom
  <2>3. LiveFrom(table', None, None)
    <3>1. \A u \in Info : (table'[u] # None /\ table'[u].live # None) => t[u] # None /\ t[u].live = table'[u].live
      BY <2>1, StartDueRows
    <3> QED
      BY <2>2, <3>1 DEF LiveFrom
  <2>4. cmds' = cmds /\ events' = events
    BY <1>7 DEF Plan
  <2> QED
    BY <1>1, <1>2, <2>3, <2>4, LinksMove
<1>8. ASSUME NEW u \in Info, SubmitDial(u)
      PROVE  LinksKept'
  <2>1. PICK kind \in {"persistent", "ephemeral"} :
             cmds' = Append(cmds, [op |-> "dial", uri |-> u, kind |-> kind, respond |-> None])
    BY <1>8 DEF SubmitDial
  <2>2. [op |-> "dial", uri |-> u, kind |-> kind, respond |-> None] \in Cmd
    BY DEF Cmd
  <2> QED
    BY <1>4, <1>8, <2>1, <2>2 DEF SubmitDial, node
<1>9. CASE SubmitSend \/ SubmitQuit
  <2>1. [op |-> "send"] \in Cmd /\ [op |-> "quit"] \in Cmd
    BY DEF Cmd
  <2> QED
    BY <1>4, <1>9, <2>1 DEF SubmitSend, SubmitQuit, node
<1>10. ASSUME NEW c \in Conn, HandleOne(c)
       PROVE  LinksKept'
  <2> DEFINE r == Head(conn[c].todo)
  <2>1. r \in Request
    BY <1>10, TailOf DEF HandleOne, AskTypes, AdminConn
  <2>2. cmds' = cmds \/ (r.op # "local" /\ cmds' = Append(cmds, CmdOf(c, r)))
    BY <1>10 DEF HandleOne
  <2> HIDE DEF r
  <2>3. cmds' = cmds \/ \E x \in Cmd : x.op # "accept" /\ cmds' = Append(cmds, x)
    <3>1. r.op # "local" => CmdOf(c, r) \in Cmd /\ CmdOf(c, r).op # "accept"
      BY <2>1, CmdOfType
    <3> QED
      BY <2>2, <3>1
  <2>4. table' = table /\ events' = events
    BY <1>10 DEF HandleOne, node
  <2> QED
    BY <1>4, <2>3, <2>4
<1>11. CASE Listen
  BY <1>11, LinksOffered DEF Listen, node
<1>12. ASSUME NEW t \in tasks, DialEnds(t)
       PROVE  LinksKept'
  <2>1. CASE sock' = Append(sock, "up") /\ events' = Append(events, [token |-> t.token, id |-> Len(sock) + 1])
    BY <1>12, <2>1, LinksOffered DEF DialEnds, node
  <2>2. CASE events' = Append(events, [token |-> t.token, id |-> None])
    <3>1. EventsFrom(0)
      BY <1>1, <2>2 DEF EventsFrom
    <3>2. table' = table /\ cmds' = cmds
      BY <1>12 DEF DialEnds, node
    <3> QED
      BY <1>1, <1>2, <1>3, <3>1, <3>2, LinksMove
  <2> QED
    BY <1>12, <2>1, <2>2 DEF DialEnds
<1>13. ASSUME NEW u \in Info, BackoffEnds(u)
       PROVE  LinksKept'
  <2>1. LiveFrom(table', None, None) /\ cmds' = cmds /\ events' = events
    BY <1>1, <1>13 DEF BackoffEnds, LiveFrom, Table, Row
  <2> QED
    BY <1>1, <1>2, <2>1, LinksMove
<1>14. CASE CmdsDrained \/ Turn \/ AnswerArrives \/ PacketArrives \/ KernelSends \/ Tick
  BY <1>4, <1>14 DEF CmdsDrained, Turn, AnswerArrives, PacketArrives, KernelSends, Tick, node
<1>15. CASE \/ \E id \in Ids : ReadTimesOut(id) \/ Evict(id) \/ Retire(id) \/ SocketMoves(id)
            \/ \E c \in Conn : Ask(c)
  BY <1>4, <1>15 DEF ReadTimesOut, Evict, Retire, SocketMoves, Ask, node
<1>16. CASE UNCHANGED vars
  BY <1>4, <1>16 DEF vars, node
<1> QED
  BY <1>5, <1>6, <1>7, <1>8, <1>9, <1>10, <1>11, <1>12, <1>13, <1>14, <1>15, <1>16 DEF Next, Loop, Serve, Others

LEMMA ServedStep ==
  ASSUME ServedAreKnown, [Next]_vars
  PROVE  ServedAreKnown'
<1> USE DEF ServedAreKnown
<1>1. CASE OnCmd
  BY <1>1 DEF OnCmd, OnDialCmd, OnDrop, OnAccept, OnReport, OnRemote, OnSend, OnQuit
<1>2. CASE OnDial
  BY <1>2 DEF OnDial
<1>3. CASE \E id \in Ids : ReadTimesOut(id) \/ Evict(id) \/ Retire(id) \/ SocketMoves(id)
  BY <1>3 DEF ReadTimesOut, Evict, Retire, SocketMoves, node
<1>4. CASE CmdsDrained \/ Plan \/ Turn \/ AnswerArrives \/ PacketArrives \/ SubmitSend \/ SubmitQuit \/ KernelSends \/ Tick \/ Listen
  BY <1>4 DEF CmdsDrained, Plan, Turn, AnswerArrives, PacketArrives, SubmitSend, SubmitQuit, KernelSends, Tick, Listen, node
<1>5. CASE \/ \E u \in Info : SubmitDial(u) \/ BackoffEnds(u)
           \/ \E t \in tasks : DialEnds(t)
           \/ \E c \in Conn : Ask(c) \/ HandleOne(c)
  BY <1>5 DEF SubmitDial, BackoffEnds, DialEnds, Ask, HandleOne, node
<1>6. CASE UNCHANGED vars
  BY <1>6 DEF vars, node
<1> QED
  BY <1>1, <1>2, <1>3, <1>4, <1>5, <1>6 DEF Next, Loop, Serve, Others

-----------------------------------------------------------------------------
(* settle_remote *)

LEMMA RemoveAtOf ==
  ASSUME NEW S, NEW s \in Seq(S), NEW i \in DOMAIN s
  PROVE  /\ RemoveAt(s, i) \in Seq(S)
         /\ \A j \in DOMAIN RemoveAt(s, i) :
              \E k \in DOMAIN s : k # i /\ RemoveAt(s, i)[j] = s[k] /\ k = IF j < i THEN j ELSE j + 1
<1> DEFINE a == SubSeq(s, 1, i - 1)
           b == SubSeq(s, i + 1, Len(s))
<1>1. i \in 1 .. Len(s) /\ Len(s) \in Nat
  OBVIOUS
<1>2. a \in Seq(S) /\ Len(a) = i - 1 /\ \A j \in 1 .. (i - 1) : a[j] = s[j]
  BY <1>1
<1>3. b \in Seq(S) /\ Len(b) = Len(s) - i /\ \A j \in 1 .. (Len(s) - i) : b[j] = s[i + j]
  BY <1>1
<1> HIDE DEF a, b
<1>4. RemoveAt(s, i) = a \o b
  BY DEF RemoveAt, a, b
<1>5. a \o b \in Seq(S) /\ Len(a \o b) = Len(s) - 1
  BY <1>1, <1>2, <1>3
<1>6. ASSUME NEW j \in 1 .. (Len(s) - 1)
      PROVE  (a \o b)[j] = IF j < i THEN s[j] ELSE s[j + 1]
  <2>1. CASE j < i
    BY <1>1, <1>2, <1>3, <2>1
  <2>2. CASE ~(j < i)
    <3>1. (a \o b)[j] = b[j - (i - 1)]
      <4>1. a \in Seq(S) /\ b \in Seq(S) /\ j \in 1 .. Len(a) + Len(b) /\ ~(j <= Len(a)) /\ Len(a) = i - 1
        BY <1>1, <1>2, <1>3, <2>2
      <4>2. (a \o b)[j] = b[j - Len(a)]
        BY <4>1, SMTT(30)
      <4> QED
        BY <4>1, <4>2
    <3>2. j - (i - 1) \in 1 .. (Len(s) - i)
      BY <1>1, <2>2
    <3>3. b[j - (i - 1)] = s[i + (j - (i - 1))]
      BY <1>3, <3>2
    <3>4. i + (j - (i - 1)) = j + 1
      BY <1>1
    <3> QED
      BY <2>2, <3>1, <3>3, <3>4
  <2> QED
    BY <2>1, <2>2
<1>7. ASSUME NEW j \in DOMAIN RemoveAt(s, i)
      PROVE  \E k \in DOMAIN s : k # i /\ RemoveAt(s, i)[j] = s[k] /\ k = IF j < i THEN j ELSE j + 1
  <2>1. j \in 1 .. (Len(s) - 1)
    BY <1>4, <1>5
  <2>2. CASE j < i
    <3>1. j \in DOMAIN s /\ j # i
      BY <1>1, <2>1, <2>2
    <3>2. RemoveAt(s, i)[j] = s[j]
      BY <1>4, <1>6, <2>1, <2>2
    <3> QED
      BY <2>2, <3>1, <3>2
  <2>3. CASE ~(j < i)
    <3>1. j + 1 \in DOMAIN s /\ j + 1 # i
      BY <1>1, <2>1, <2>3
    <3> QED
      BY <1>4, <1>6, <2>1, <2>3, <3>1
  <2> QED
    BY <2>2, <2>3
<1> QED
  BY <1>4, <1>5, <1>7

\* The questions are settled one after the other.
LEMMA SettledOneByOne ==
  ASSUME AskTypes
  PROVE  \A n \in 0 .. Len(pending) :
           Settled[n] = IF n = 0 THEN [inbox |-> proto_inbox, still |-> <<>>, done |-> <<>>]
                        ELSE SettleOne(Settled[n - 1], pending[n])
<1> DEFINE base == [inbox |-> proto_inbox, still |-> <<>>, done |-> <<>>]
           L == Len(pending)
           Is(g, m) == g = [n \in 0 .. m |-> IF n = 0 THEN base ELSE SettleOne(g[n - 1], pending[n])]
           Bad == {m \in 0 .. L : ~ \E g : Is(g, m)}
<1>1. L \in Nat
  BY DEF AskTypes
<1> HIDE DEF base, L
<1>2. Bad = {}
  <2> SUFFICES ASSUME Bad # {}
               PROVE  FALSE
    OBVIOUS
  <2>1. Bad \in SUBSET Nat
    BY <1>1
  <2>2. PICK m \in Bad : \A k \in Bad : m <= k
    <3> HIDE DEF Bad
    <3> QED
      BY <2>1, LeastNat
  <2>3. m \in 0 .. L /\ ~ \E g : Is(g, m)
    OBVIOUS
  <2>4. CASE m = 0
    <3> DEFINE g == [n \in 0 .. 0 |-> base]
    <3>1. Is(g, 0)
      OBVIOUS
    <3> QED
      BY <2>3, <2>4, <3>1
  <2>5. CASE m # 0
    <3>1. m - 1 \in 0 .. L /\ m - 1 \notin Bad
      <4>1. m \in Nat /\ m - 1 \in 0 .. L /\ ~(m <= m - 1)
        BY <1>1, <2>3, <2>5
      <4> HIDE DEF Bad
      <4> QED
        BY <2>2, <4>1
    <3>2. PICK g : Is(g, m - 1)
      BY <3>1
    <3> DEFINE h == [n \in 0 .. m |-> IF n = m THEN SettleOne(g[m - 1], pending[m]) ELSE g[n]]
    <3>3. ASSUME NEW n \in 0 .. m
          PROVE  h[n] = IF n = 0 THEN base ELSE SettleOne(h[n - 1], pending[n])
      <4>0. m \in Nat
        BY <1>1, <2>3
      <4>1. CASE n = m
        <5>1. n - 1 \in 0 .. m /\ n - 1 # m /\ n # 0
          BY <2>5, <4>0, <4>1
        <5> QED
          BY <4>1, <5>1
      <4>2. CASE n # m
        <5>1. n \in 0 .. (m - 1) /\ h[n] = g[n]
          BY <2>5, <4>0, <4>2
        <5>2. g[n] = IF n = 0 THEN base ELSE SettleOne(g[n - 1], pending[n])
          BY <3>2, <5>1
        <5>3. n # 0 => n - 1 \in 0 .. m /\ n - 1 # m
          BY <4>0, <5>1
        <5> QED
          BY <5>1, <5>2, <5>3
      <4> QED
        BY <4>1, <4>2
    <3>4. Is(h, m)
      <4>1. h = [n \in 0 .. m |-> h[n]]
        OBVIOUS
      <4> HIDE DEF h
      <4> QED
        BY <3>3, <4>1
    <3> QED
      BY <2>3, <3>4
  <2> QED
    BY <2>4, <2>5
<1>3. \E g : Is(g, L)
  BY <1>1, <1>2, SMTT(30)
<1>4. Settled = CHOOSE g : Is(g, L)
  BY DEF Settled, base, L
<1>5. Is(Settled, L)
  BY <1>3, <1>4
<1>6. \A n \in 0 .. L : Settled[n] = IF n = 0 THEN base ELSE SettleOne(Settled[n - 1], pending[n])
  BY <1>5
<1> QED
  BY <1>6 DEF base, L

\* What has become of the first n questions: those still waiting, those done,
\* and the answers that are left.
Done == [respond : Conn, q : Quest, of : Quest \cup {None}, ok : BOOLEAN]

SettlingTypes(s) ==
  s \in [inbox : Seq(Answer), still : Seq(Waiting), done : Seq(Done)]

LeftOver(s) ==
  /\ \A i \in DOMAIN s.inbox : \E k \in DOMAIN proto_inbox : s.inbox[i] = proto_inbox[k]
  /\ \A i, j \in DOMAIN s.inbox : s.inbox[i].q = s.inbox[j].q => i = j

StillWait(s, n) ==
  /\ \A i \in DOMAIN s.still : \E k \in 1 .. n : s.still[i] = pending[k]
  /\ \A i, j \in DOMAIN s.still : s.still[i].respond = s.still[j].respond => i = j

EitherOr(s, n) ==
  /\ \A i \in DOMAIN s.done : \E k \in 1 .. n : s.done[i].respond = pending[k].respond
  /\ \A k \in 1 .. n : \/ \E i \in DOMAIN s.still : s.still[i].respond = pending[k].respond
                       \/ \E i \in DOMAIN s.done : s.done[i].respond = pending[k].respond
  /\ \A i \in DOMAIN s.still, j \in DOMAIN s.done : s.still[i].respond # s.done[j].respond

UsedOnce(s) ==
  /\ \A j \in DOMAIN s.done : s.done[j].of # None =>
       /\ \E k \in DOMAIN proto_inbox : proto_inbox[k].q = s.done[j].of
       /\ \A i \in DOMAIN s.inbox : s.inbox[i].q # s.done[j].of
  /\ \A i, j \in DOMAIN s.done : (s.done[i].of # None /\ s.done[i].of = s.done[j].of) => i = j

Settling(s, n) ==
  SettlingTypes(s) /\ LeftOver(s) /\ StillWait(s, n) /\ EitherOr(s, n) /\ UsedOnce(s)

\* No two questions that wait have one connection.
AskersDiffer ==
  \A i, j \in DOMAIN pending : pending[i].respond = pending[j].respond => i = j

LEMMA SettleOneStep ==
  ASSUME AskTypes, AskersDiffer, NEW n \in DOMAIN pending, NEW s, Settling(s, n - 1)
  PROVE  Settling(SettleOne(s, pending[n]), n)
<1> DEFINE p == pending[n]
           new == SettleOne(s, p)
           hits == {i \in DOMAIN s.inbox : s.inbox[i].what = p.what}
<1>1. /\ p \in Waiting /\ n \in Nat /\ n > 0
      /\ \A k \in 1 .. (n - 1) : k \in DOMAIN pending /\ k # n /\ k \in 1 .. n /\ pending[k].respond # p.respond
      /\ n \in 1 .. n
      /\ \A k \in 1 .. n : k = n \/ k \in 1 .. (n - 1)
  <2>1. n \in 1 .. Len(pending) /\ Len(pending) \in Nat /\ pending \in Seq(Waiting)
    BY DEF AskTypes
  <2>2. \A k \in 1 .. (n - 1) : k \in DOMAIN pending /\ k # n /\ k \in 1 .. n
    BY <2>1
  <2> QED
    BY <2>1, <2>2 DEF AskersDiffer
<1>2. p.respond \in Conn /\ p.q \in Quest /\ p.what \in What /\ p.age \in Nat
  BY <1>1 DEF Waiting
<1>3. /\ s \in [inbox : Seq(Answer), still : Seq(Waiting), done : Seq(Done)]
      /\ s.inbox \in Seq(Answer) /\ s.still \in Seq(Waiting) /\ s.done \in Seq(Done)
  BY DEF Settling, SettlingTypes
<1>4. ASSUME NEW d \in Done, d.respond = p.respond, NEW box \in Seq(Answer),
             new.inbox = box, new.still = s.still, new.done = Append(s.done, d),
             new \in [inbox : Seq(Answer), still : Seq(Waiting), done : Seq(Done)],
             \A i \in DOMAIN box : \E k \in DOMAIN s.inbox : box[i] = s.inbox[k] /\ s.inbox[k].q # d.of,
             \A i, j \in DOMAIN box : box[i].q = box[j].q => i = j,
             d.of # None => \E k \in DOMAIN s.inbox : s.inbox[k].q = d.of
      PROVE  Settling(new, n)
  <2> HIDE DEF new, p
  <2>0. /\ DOMAIN new.done = DOMAIN s.done \cup {Len(s.done) + 1}
        /\ \A i \in DOMAIN s.done : new.done[i] = s.done[i]
        /\ new.done[Len(s.done) + 1] = d
    BY <1>3, <1>4, AppendOf
  <2>1. \A i \in DOMAIN new.done : i = Len(s.done) + 1 \/ (i \in DOMAIN s.done /\ new.done[i] = s.done[i])
    BY <2>0
  <2>2. SettlingTypes(new)
    BY <1>4 DEF SettlingTypes
  <2>3. LeftOver(new)
    BY <1>4 DEF Settling, LeftOver
  <2>4. StillWait(new, n)
    BY <1>1, <1>4 DEF Settling, StillWait
  <2>5. EitherOr(new, n)
    <3>1. ASSUME NEW i \in DOMAIN new.done
          PROVE  \E k \in 1 .. n : new.done[i].respond = pending[k].respond
      <4>1. CASE i = Len(s.done) + 1
        BY <1>1, <1>4, <2>0, <4>1 DEF p
      <4>2. CASE i \in DOMAIN s.done /\ new.done[i] = s.done[i]
        BY <1>1, <4>2 DEF Settling, EitherOr
      <4> QED
        BY <2>1, <4>1, <4>2
    <3>2. ASSUME NEW k \in 1 .. n
          PROVE  \/ \E i \in DOMAIN new.still : new.still[i].respond = pending[k].respond
                 \/ \E i \in DOMAIN new.done : new.done[i].respond = pending[k].respond
      <4>1. CASE k = n
        BY <1>4, <2>0, <4>1 DEF p
      <4>2. CASE k \in 1 .. (n - 1)
        <5>1. \/ \E i \in DOMAIN s.still : s.still[i].respond = pending[k].respond
              \/ \E i \in DOMAIN s.done : s.done[i].respond = pending[k].respond
          BY <4>2 DEF Settling, EitherOr
        <5> QED
          BY <1>4, <2>0, <5>1
      <4> QED
        BY <1>1, <4>1, <4>2
    <3>3. ASSUME NEW i \in DOMAIN new.still, NEW j \in DOMAIN new.done
          PROVE  new.still[i].respond # new.done[j].respond
      <4>1. CASE j = Len(s.done) + 1
        <5>1. PICK k \in 1 .. (n - 1) : new.still[i] = pending[k]
          BY <1>4 DEF Settling, StillWait
        <5> QED
          BY <1>1, <1>4, <2>0, <4>1, <5>1
      <4>2. CASE j \in DOMAIN s.done /\ new.done[j] = s.done[j]
        BY <1>4, <4>2 DEF Settling, EitherOr
      <4> QED
        BY <2>1, <4>1, <4>2
    <3> QED
      BY <3>1, <3>2, <3>3 DEF EitherOr
  <2>6. UsedOnce(new)
    <3>1. ASSUME NEW j \in DOMAIN new.done, new.done[j].of # None
          PROVE  /\ \E k \in DOMAIN proto_inbox : proto_inbox[k].q = new.done[j].of
                 /\ \A i \in DOMAIN new.inbox : new.inbox[i].q # new.done[j].of
      <4>1. CASE j = Len(s.done) + 1
        <5>1. PICK k \in DOMAIN s.inbox : s.inbox[k].q = d.of
          BY <1>4, <2>0, <3>1, <4>1
        <5>2. \E m \in DOMAIN proto_inbox : s.inbox[k] = proto_inbox[m]
          BY DEF Settling, LeftOver
        <5> QED
          BY <1>4, <2>0, <4>1, <5>1, <5>2
      <4>2. CASE j \in DOMAIN s.done /\ new.done[j] = s.done[j]
        BY <1>4, <3>1, <4>2 DEF Settling, UsedOnce
      <4> QED
        BY <2>1, <4>1, <4>2
    <3>2. ASSUME NEW j \in DOMAIN s.done, d.of # None
          PROVE  s.done[j].of # d.of
      BY <1>4, <3>2 DEF Settling, UsedOnce
    <3>3. ASSUME NEW i \in DOMAIN new.done, NEW j \in DOMAIN new.done,
                 new.done[i].of # None, new.done[i].of = new.done[j].of
          PROVE  i = j
      <4>1. CASE i \in DOMAIN s.done /\ j \in DOMAIN s.done
        BY <2>0, <3>3, <4>1 DEF Settling, UsedOnce
      <4> QED
        BY <2>0, <2>1, <3>2, <3>3, <4>1
    <3> QED
      BY <3>1, <3>3 DEF UsedOnce
  <2> QED
    BY <2>2, <2>3, <2>4, <2>5, <2>6 DEF Settling
<1>5. CASE p.age >= REMOTE_TIMEOUT
  <2> DEFINE d == [respond |-> p.respond, q |-> p.q, of |-> None, ok |-> FALSE]
  <2>1. d \in Done /\ d.respond = p.respond /\ d.of = None
    BY <1>2 DEF Done
  <2>2. new = [s EXCEPT !.done = Append(s.done, d)]
    BY <1>5 DEF SettleOne
  <2> HIDE DEF d, new
  <2>3. Append(s.done, d) \in Seq(Done)
    BY <1>3, <2>1, AppendOf
  <2>4. /\ new \in [inbox : Seq(Answer), still : Seq(Waiting), done : Seq(Done)]
        /\ new.inbox = s.inbox /\ new.still = s.still /\ new.done = Append(s.done, d)
    BY <1>3, <2>2, <2>3
  <2>5. \A i \in DOMAIN s.inbox : s.inbox[i].q # None
    <3>1. \A i \in DOMAIN s.inbox : s.inbox[i] \in Answer
      BY <1>3
    <3> QED
      BY <3>1, ClientAssumption DEF Answer, Quest
  <2>6. \A i, j \in DOMAIN s.inbox : s.inbox[i].q = s.inbox[j].q => i = j
    BY DEF Settling, LeftOver
  <2> QED
    BY <1>3, <1>4, <2>1, <2>4, <2>5, <2>6 DEF new
<1>6. CASE ~(p.age >= REMOTE_TIMEOUT) /\ hits = {}
  <2>1. new = [s EXCEPT !.still = Append(s.still, p)]
    BY <1>6 DEF SettleOne
  <2> HIDE DEF new, p
  <2>2. Append(s.still, p) \in Seq(Waiting)
    BY <1>1, <1>3, AppendOf
  <2>3. /\ new \in [inbox : Seq(Answer), still : Seq(Waiting), done : Seq(Done)]
        /\ new.inbox = s.inbox /\ new.done = s.done /\ new.still = Append(s.still, p)
    BY <1>3, <2>1, <2>2
  <2>4. /\ DOMAIN new.still = DOMAIN s.still \cup {Len(s.still) + 1}
        /\ \A i \in DOMAIN s.still : new.still[i] = s.still[i]
        /\ new.still[Len(s.still) + 1] = p
    BY <1>1, <1>3, <2>3, AppendOf
  <2>5. SettlingTypes(new) /\ LeftOver(new) /\ UsedOnce(new)
    BY <2>3 DEF Settling, SettlingTypes, LeftOver, UsedOnce
  <2>6. \A i \in DOMAIN s.still : \E k \in 1 .. (n - 1) : s.still[i] = pending[k]
    BY DEF Settling, StillWait
  <2>7. \A i \in DOMAIN s.still : s.still[i].respond # p.respond
    BY <1>1, <2>6
  <2>8. StillWait(new, n)
    <3>1. \A i \in DOMAIN new.still : \E k \in 1 .. n : new.still[i] = pending[k]
      BY <1>1, <2>4, <2>6 DEF p
    <3>2. \A i, j \in DOMAIN new.still : new.still[i].respond = new.still[j].respond => i = j
      BY <2>4, <2>7 DEF Settling, StillWait
    <3> QED
      BY <3>1, <3>2 DEF StillWait
  <2>9. EitherOr(new, n)
    <3>1. \A i \in DOMAIN s.done : \E k \in 1 .. (n - 1) : s.done[i].respond = pending[k].respond
      BY DEF Settling, EitherOr
    <3>2. \A i \in DOMAIN new.done : \E k \in 1 .. n : new.done[i].respond = pending[k].respond
      BY <1>1, <2>3, <3>1
    <3>3. ASSUME NEW k \in 1 .. n
          PROVE  \/ \E i \in DOMAIN new.still : new.still[i].respond = pending[k].respond
                 \/ \E i \in DOMAIN new.done : new.done[i].respond = pending[k].respond
      <4>1. CASE k = n
        BY <2>4, <4>1 DEF p
      <4>2. CASE k \in 1 .. (n - 1)
        <5>1. \/ \E i \in DOMAIN s.still : s.still[i].respond = pending[k].respond
              \/ \E i \in DOMAIN s.done : s.done[i].respond = pending[k].respond
          BY <4>2 DEF Settling, EitherOr
        <5> QED
          BY <2>3, <2>4, <5>1
      <4> QED
        BY <1>1, <4>1, <4>2
    <3>4. \A j \in DOMAIN s.done : s.done[j].respond # p.respond
      BY <1>1, <3>1
    <3>5. \A i \in DOMAIN new.still, j \in DOMAIN new.done : new.still[i].respond # new.done[j].respond
      BY <2>3, <2>4, <3>4 DEF Settling, EitherOr
    <3> QED
      BY <3>2, <3>3, <3>5 DEF EitherOr
  <2> QED
    BY <2>5, <2>8, <2>9 DEF Settling, new, p
<1>7. CASE ~(p.age >= REMOTE_TIMEOUT) /\ hits # {}
  <2> DEFINE i == CHOOSE i \in hits : \A j \in hits : i <= j
             d == [respond |-> p.respond, q |-> p.q, of |-> s.inbox[i].q, ok |-> RemoteBody(p.what)]
             box == RemoveAt(s.inbox, i)
  <2>1. i \in hits
    <3>1. hits \in SUBSET Nat
      BY <1>3
    <3> HIDE DEF hits
    <3>2. \E x \in hits : \A j \in hits : x <= j
      BY <1>7, <3>1, LeastNat
    <3> QED
      BY <3>2
  <2>2. new = [s EXCEPT !.inbox = box, !.done = Append(s.done, d)]
    BY <1>7 DEF SettleOne
  <2> HIDE DEF i
  <2>3. i \in DOMAIN s.inbox /\ s.inbox[i] \in Answer
    BY <1>3, <2>1
  <2>4. d \in Done /\ d.respond = p.respond /\ d.of = s.inbox[i].q
    BY <1>2, <2>3 DEF Done, Answer, RemoteBody
  <2>5. /\ box \in Seq(Answer)
        /\ \A j \in DOMAIN box :
             \E k \in DOMAIN s.inbox : k # i /\ box[j] = s.inbox[k] /\ k = IF j < i THEN j ELSE j + 1
    BY <1>3, <2>3, RemoveAtOf
  <2> HIDE DEF d, box, new
  <2>6. Append(s.done, d) \in Seq(Done)
    BY <1>3, <2>4, AppendOf
  <2>7. /\ new \in [inbox : Seq(Answer), still : Seq(Waiting), done : Seq(Done)]
        /\ new.inbox = box /\ new.still = s.still /\ new.done = Append(s.done, d)
    BY <1>3, <2>2, <2>5, <2>6
  <2>8. \A x, y \in DOMAIN s.inbox : s.inbox[x].q = s.inbox[y].q => x = y
    BY DEF Settling, LeftOver
  <2>9. \A j \in DOMAIN box : \E k \in DOMAIN s.inbox : box[j] = s.inbox[k] /\ s.inbox[k].q # d.of
    BY <2>3, <2>4, <2>5, <2>8
  <2>10. \A j, k \in DOMAIN box : box[j].q = box[k].q => j = k
    <3> SUFFICES ASSUME NEW j \in DOMAIN box, NEW k \in DOMAIN box, box[j].q = box[k].q
                 PROVE  j = k
      OBVIOUS
    <3>1. (IF j < i THEN j ELSE j + 1) = (IF k < i THEN k ELSE k + 1)
      BY <2>5, <2>8
    <3>2. j \in Nat /\ k \in Nat /\ i \in Nat
      BY <1>3, <2>3, <2>5
    <3> QED
      BY <3>1, <3>2
  <2> QED
    BY <1>4, <2>3, <2>4, <2>5, <2>7, <2>9, <2>10 DEF new
<1> QED
  BY <1>5, <1>6, <1>7

\* After all of them.
LEMMA SettleKeeps ==
  ASSUME AskTypes, AskersDiffer, AnswersKept
  PROVE  Settling(Settle, Len(pending))
<1> DEFINE L == Len(pending)
           Bad == {m \in 0 .. L : ~Settling(Settled[m], m)}
<1>1. L \in Nat /\ pending \in Seq(Waiting) /\ proto_inbox \in Seq(Answer)
  BY DEF AskTypes
<1>2. Settling(Settled[0], 0)
  <2> DEFINE s == [inbox |-> proto_inbox, still |-> <<>>, done |-> <<>>]
  <2>1. Settled[0] = s
    BY <1>1, SettledOneByOne
  <2>2. SettlingTypes(s)
    BY <1>1 DEF SettlingTypes
  <2>3. LeftOver(s)
    BY DEF LeftOver, AnswersKept
  <2>4. StillWait(s, 0) /\ EitherOr(s, 0) /\ UsedOnce(s)
    BY DEF StillWait, EitherOr, UsedOnce
  <2> QED
    BY <2>1, <2>2, <2>3, <2>4 DEF Settling
<1>3. Bad = {}
  <2> SUFFICES ASSUME Bad # {}
               PROVE  FALSE
    OBVIOUS
  <2>1. Bad \in SUBSET Nat
    BY <1>1
  <2>2. PICK m \in Bad : \A k \in Bad : m <= k
    <3> HIDE DEF Bad
    <3> QED
      BY <2>1, LeastNat
  <2>3. m \in 0 .. L /\ ~Settling(Settled[m], m)
    OBVIOUS
  <2>4. m # 0
    BY <1>2, <2>3
  <2>5. m \in DOMAIN pending /\ m - 1 \in 0 .. L /\ m - 1 \notin Bad
    <3>1. m \in Nat /\ m \in DOMAIN pending /\ m - 1 \in 0 .. L /\ ~(m <= m - 1)
      BY <1>1, <2>3, <2>4
    <3> HIDE DEF Bad
    <3> QED
      BY <2>2, <3>1
  <2>6. Settling(Settled[m - 1], m - 1)
    BY <2>5
  <2>7. Settled[m] = SettleOne(Settled[m - 1], pending[m])
    BY <2>3, <2>4, SettledOneByOne
  <2>8. Settling(SettleOne(Settled[m - 1], pending[m]), m)
    BY <2>5, <2>6, SettleOneStep
  <2> QED
    BY <2>3, <2>7, <2>8
<1> QED
  BY <1>1, <1>3 DEF Settle

-----------------------------------------------------------------------------
(* Connections and their questions *)

\* x is conn[c] after an answer.
JustAnswered(c, x) ==
  x.busy = None /\ Len(x.replies) = Len(conn[c].replies) + 1

LEMMA Responding ==
  ASSUME AskTypes, NEW c \in Conn \cup {None}, c # None => conn[c].busy # None,
         NEW ok \in BOOLEAN, Respond(c, ok)
  PROVE  /\ conn' \in [Conn -> AdminConn]
         /\ \A x \in Conn : x # c => conn'[x] = conn[x]
         /\ c # None => JustAnswered(c, conn'[c])
<1>1. conn \in [Conn -> AdminConn]
  BY DEF AskTypes
<1>2. CASE c = None
  BY <1>1, <1>2, ClientAssumption DEF Respond
<1>3. CASE c # None
  <2>1. c \in Conn /\ conn[c].busy # None
    BY <1>3
  <2>2. /\ Answered(c, ok) \in AdminConn
        /\ Answered(c, ok).busy = None
        /\ Len(Answered(c, ok).replies) = Len(conn[c].replies) + 1
    BY <1>1, <2>1, Answering
  <2>3. conn' = [conn EXCEPT ![c] = Answered(c, ok)]
    BY <1>3 DEF Respond
  <2> QED
    BY <1>1, <2>1, <2>2, <2>3 DEF JustAnswered
<1> QED
  BY <1>2, <1>3

LEMMA Stopping ==
  ASSUME AskTypes, Stop
  PROVE  conn' \in [Conn -> AdminConn] /\ pc' = "stopped"
<1>1. conn \in [Conn -> AdminConn]
  BY DEF AskTypes
<1>2. \A c \in Conn : [conn[c] EXCEPT !.open = FALSE, !.busy = None] \in AdminConn
  BY <1>1 DEF AdminConn
<1> QED
  BY <1>2 DEF Stop

\* A command answers the connection that waits for it, if one does, or becomes
\* a question that waits.
LEMMA OnCmdAsks ==
  ASSUME AskTypes, QueueTypes, LinksKept, Outstanding, OnCmd
  PROVE  /\ UNCHANGED <<pc, proto_inbox, given>>
         /\ \/ \E c \in Conn :
                 /\ Expects(Head(cmds), c)
                 /\ conn' \in [Conn -> AdminConn]
                 /\ \A x \in Conn : x # c => conn'[x] = conn[x]
                 /\ JustAnswered(c, conn'[c])
                 /\ UNCHANGED <<pending, away>>
            \/ UNCHANGED <<conn, pending, away>> /\ \A c \in Conn : ~Expects(Head(cmds), c)
            \/ \E c \in Conn, what \in What :
                 /\ Expects(Head(cmds), c)
                 /\ conn' = conn
                 /\ pending' = Append(pending, [what |-> what, age |-> 0, respond |-> c, q |-> Question(c)])
                 /\ away' = away \cup {[what |-> what, q |-> Question(c)]}
<1> DEFINE cmd == Head(cmds)
<1>1. cmd \in Cmd /\ 1 \in DOMAIN cmds /\ cmd = cmds[1] /\ pc = "cmds"
  BY HeadCmd DEF OnCmd
<1>2. UNCHANGED <<pc, proto_inbox, given>>
  BY DEF OnCmd
<1>3. conn \in [Conn -> AdminConn]
  BY DEF AskTypes
<1> HIDE DEF cmd
<1>4. \A c \in Conn : Expects(cmd, c) => conn[c].busy # None
  BY <1>1 DEF Outstanding, OneWaits
<1>5. ASSUME NEW c \in Conn \cup {None}, NEW ok \in BOOLEAN, Respond(c, ok), cmd.respond = c,
             cmd.op \in {"dial", "drop", "report", "tun", "remote"}, UNCHANGED <<pending, away>>
      PROVE  \/ \E x \in Conn :
                  /\ Expects(cmd, x)
                  /\ conn' \in [Conn -> AdminConn]
                  /\ \A y \in Conn : y # x => conn'[y] = conn[y]
                  /\ JustAnswered(x, conn'[x])
                  /\ UNCHANGED <<pending, away>>
             \/ UNCHANGED <<conn, pending, away>> /\ \A x \in Conn : ~Expects(cmd, x)
  <2>1. CASE c = None
    BY <1>5, <2>1, ClientAssumption DEF Respond, Expects
  <2>2. CASE c # None
    <3>1. c \in Conn /\ Expects(cmd, c)
      BY <1>5, <2>2 DEF Expects
    <3>2. /\ conn' \in [Conn -> AdminConn]
          /\ \A x \in Conn : x # c => conn'[x] = conn[x]
          /\ JustAnswered(c, conn'[c])
      BY <1>4, <1>5, <2>2, <3>1, Responding
    <3> QED
      BY <1>5, <3>1, <3>2
  <2> QED
    BY <2>1, <2>2
<1>6. CASE OnDialCmd(cmd)
  <2>1. cmd.respond \in Conn \cup {None} /\ cmd.op = "dial"
    BY <1>1, <1>6, CmdFields DEF OnDialCmd
  <2> DEFINE ok == cmd.uri # None /\ table[cmd.uri] = None
  <2>2. ok \in BOOLEAN /\ Respond(cmd.respond, ok) /\ UNCHANGED <<pending, away>>
    BY <1>6 DEF OnDialCmd
  <2> HIDE DEF ok
  <2> QED
    BY <1>2, <1>5, <2>1, <2>2 DEF cmd
<1>7. CASE OnDrop(cmd)
  <2>1. cmd.respond \in Conn \cup {None} /\ cmd.op = "drop"
    BY <1>1, <1>7, CmdFields DEF OnDrop
  <2> DEFINE ok == table[cmd.uri] # None
  <2>2. ok \in BOOLEAN /\ Respond(cmd.respond, ok) /\ UNCHANGED <<pending, away>>
    BY <1>7 DEF OnDrop
  <2> HIDE DEF ok
  <2> QED
    BY <1>2, <1>5, <2>1, <2>2 DEF cmd
<1>8. CASE OnReport(cmd)
  <2>1. cmd.respond \in Conn \cup {None} /\ cmd.op \in {"report", "tun"}
    BY <1>1, <1>8, CmdFields DEF OnReport
  <2>2. Respond(cmd.respond, TRUE) /\ UNCHANGED <<pending, away>>
    BY <1>8 DEF OnReport
  <2> QED
    BY <1>2, <1>5, <2>1, <2>2 DEF cmd
<1>9. CASE OnAccept(cmd) \/ OnSend(cmd) \/ OnQuit(cmd)
  <2>1. UNCHANGED <<conn, pending, away>> /\ cmd.op \in {"accept", "send", "quit"}
    BY <1>9 DEF OnAccept, OnSend, OnQuit
  <2>2. \A c \in Conn : ~Expects(cmd, c)
    BY <2>1 DEF Expects
  <2> QED
    BY <1>2, <2>1, <2>2 DEF cmd
<1>10. CASE OnRemote(cmd)
  <2>1. cmd.respond \in Conn /\ cmd.op = "remote" /\ cmd.what \in What
    BY <1>1, <1>10, CmdFields DEF OnRemote
  <2>2. CASE Respond(cmd.respond, FALSE) /\ UNCHANGED <<pending, away>>
    BY <1>2, <1>5, <2>1, <2>2 DEF cmd
  <2>3. CASE /\ pending' = Append(pending, [what |-> cmd.what, age |-> 0, respond |-> cmd.respond, q |-> Question(cmd.respond)])
             /\ away' = away \cup {[what |-> cmd.what, q |-> Question(cmd.respond)]}
             /\ conn' = conn
    <3>1. Expects(cmd, cmd.respond)
      BY <2>1 DEF Expects
    <3> QED
      BY <1>2, <2>1, <2>3, <3>1 DEF cmd
  <2> QED
    BY <1>10, <2>2, <2>3 DEF OnRemote
<1> QED
  BY <1>6, <1>7, <1>8, <1>9, <1>10 DEF OnCmd, cmd

\* A task of a connection answers its request alone, or sends a command.
LEMMA HandleAsks ==
  ASSUME AskTypes, NEW c \in Conn, HandleOne(c)
  PROVE  /\ UNCHANGED <<pc, pending, away, proto_inbox, given>>
         /\ conn' \in [Conn -> AdminConn]
         /\ \A x \in Conn : x # c => conn'[x] = conn[x]
         /\ conn[c].busy = None
         /\ \/ cmds' = cmds /\ JustAnswered(c, conn'[c])
            \/ /\ conn'[c].busy # None /\ conn'[c].replies = conn[c].replies
               /\ \E cmd \in Cmd : Expects(cmd, c) /\ cmds' = Append(cmds, cmd)
<1> DEFINE r == Head(conn[c].todo)
           rest == Tail(conn[c].todo)
           read == [conn[c] EXCEPT !.todo = rest, !.busy = r]
           replied(ok) == [read EXCEPT !.busy = None, !.replies = Append(@, ok), !.open = r.keepalive]
<1>1. conn \in [Conn -> AdminConn] /\ conn[c] \in AdminConn
  BY DEF AskTypes
<1>2. r \in Request /\ rest \in Seq(Request)
  BY <1>1, TailOf DEF HandleOne, AdminConn
<1>3. r # None /\ r.keepalive \in BOOLEAN
  BY <1>2, RequestFields
<1>4. UNCHANGED <<pc, pending, away, proto_inbox, given>> /\ conn[c].busy = None
  BY DEF HandleOne, node, hist
<1>5. CASE r.op = "local"
  <2>1. PICK ok \in BOOLEAN : conn' = [conn EXCEPT ![c] = replied(ok)] /\ cmds' = cmds
    BY <1>5 DEF HandleOne
  <2> HIDE DEF r, rest
  <2> DEFINE rs == Append(conn[c].replies, ok)
             ka == r.keepalive
  <2>2. rs \in Seq(BOOLEAN) /\ Len(rs) = Len(conn[c].replies) + 1 /\ ka \in BOOLEAN
    <3>1. conn[c].replies \in Seq(BOOLEAN)
      BY <1>1 DEF AdminConn
    <3> QED
      BY <1>3, <3>1, AppendOf
  <2>3. replied(ok) = [read EXCEPT !.busy = None, !.replies = rs, !.open = ka]
    BY <1>1 DEF AdminConn
  <2> HIDE DEF rs, ka
  <2>4. /\ replied(ok) \in AdminConn
        /\ replied(ok).busy = None /\ replied(ok).replies = rs
    BY <1>1, <1>2, <2>2, <2>3 DEF AdminConn
  <2> HIDE DEF replied
  <2> QED
    BY <1>1, <1>4, <2>1, <2>2, <2>4 DEF JustAnswered
<1>6. CASE r.op # "local"
  <2>1. conn' = [conn EXCEPT ![c] = read] /\ cmds' = Append(cmds, CmdOf(c, r))
    BY <1>6 DEF HandleOne
  <2> HIDE DEF r, rest
  <2>2. /\ read \in AdminConn
        /\ read.busy = r /\ read.replies = conn[c].replies
    BY <1>1, <1>2 DEF AdminConn
  <2>3. CmdOf(c, r) \in Cmd /\ Expects(CmdOf(c, r), c)
    BY <1>2, <1>6, CmdOfType DEF Expects
  <2> HIDE DEF read
  <2> QED
    BY <1>1, <1>3, <1>4, <2>1, <2>2, <2>3
<1> QED
  BY <1>5, <1>6

\* The end of a turn.
LEMMA TurnAsks ==
  ASSUME AskTypes, Outstanding, AnswersKept, Turn
  PROVE  LET s == Settle IN
         /\ Settling(s, Len(pending))
         /\ proto_inbox' = s.inbox /\ UNCHANGED <<away, cmds>>
         /\ conn' \in [Conn -> AdminConn] /\ pending' \in Seq(Waiting)
         /\ \A p \in given' : \/ p \in given
                              \/ \E i \in DOMAIN s.done : s.done[i].of # None /\ p = <<s.done[i].q, s.done[i].of>>
         /\ \/ pc' = "stopped"
            \/ /\ pc' = "cmds" /\ pending' = s.still
               /\ \A c \in Conn :
                    \/ /\ \E i \in DOMAIN s.done : s.done[i].respond = c
                       /\ \E k \in DOMAIN pending : pending[k].respond = c
                       /\ JustAnswered(c, conn'[c])
                    \/ /\ \A i \in DOMAIN s.done : s.done[i].respond # c
                       /\ conn'[c] = conn[c]
<1> DEFINE s == Settle
<1>1. pc = "serve" /\ UNCHANGED <<away, cmds>> /\ proto_inbox' = s.inbox
  BY DEF Turn
<1>2. pending \in Seq(Waiting) /\ conn \in [Conn -> AdminConn] /\ Len(pending) \in Nat
  BY DEF AskTypes
<1>3. AskersDiffer
  <2>0. \A i \in DOMAIN pending : pending[i] \in Waiting
    BY <1>2
  <2>1. \A i \in DOMAIN pending : pending[i].respond \in Conn
    BY <2>0 DEF Waiting
  <2> QED
    BY <1>1, <2>1 DEF AskersDiffer, Outstanding, OneWaits
<1>4. Settling(s, Len(pending))
  BY <1>3, SettleKeeps
<1>5. /\ given' = given \cup {<<d.q, d.of>> : d \in {d \in ToSet(s.done) : d.of # None}}
      /\ \/ Stop /\ pending' = <<>>
         \/ /\ pc' = "cmds"
            /\ pending' = s.still
            /\ conn' = [c \in Conn |->
                          IF \E d \in ToSet(s.done) : d.respond = c
                          THEN Answered(c, (CHOOSE d \in ToSet(s.done) : d.respond = c).ok)
                          ELSE conn[c]]
  BY DEF Turn
<1> HIDE DEF s
<1>6. s.still \in Seq(Waiting) /\ s.done \in Seq(Done)
  BY <1>4 DEF Settling, SettlingTypes
<1>7. \A p \in given' : \/ p \in given
                        \/ \E i \in DOMAIN s.done : s.done[i].of # None /\ p = <<s.done[i].q, s.done[i].of>>
  BY <1>5 DEF ToSet
<1>8. CASE Stop /\ pending' = <<>>
  <2>1. conn' \in [Conn -> AdminConn] /\ pc' = "stopped" /\ pending' \in Seq(Waiting)
    BY <1>8, Stopping
  <2> QED
    BY <1>1, <1>4, <1>7, <2>1 DEF s
<1>9. CASE /\ pc' = "cmds"
           /\ pending' = s.still
           /\ conn' = [c \in Conn |->
                          IF \E d \in ToSet(s.done) : d.respond = c
                          THEN Answered(c, (CHOOSE d \in ToSet(s.done) : d.respond = c).ok)
                          ELSE conn[c]]
  <2>1. ASSUME NEW c \in Conn
        PROVE  /\ conn'[c] \in AdminConn
               /\ \/ /\ \E i \in DOMAIN s.done : s.done[i].respond = c
                     /\ \E k \in DOMAIN pending : pending[k].respond = c
                     /\ JustAnswered(c, conn'[c])
                  \/ /\ \A i \in DOMAIN s.done : s.done[i].respond # c
                     /\ conn'[c] = conn[c]
    <3>1. CASE \E d \in ToSet(s.done) : d.respond = c
      <4> DEFINE ok == (CHOOSE d \in ToSet(s.done) : d.respond = c).ok
      <4>1. PICK i \in DOMAIN s.done : s.done[i].respond = c
        BY <3>1 DEF ToSet
      <4>2. ok \in BOOLEAN
        <5>1. \A d \in ToSet(s.done) : d \in Done
          BY <1>6 DEF ToSet
        <5>2. (CHOOSE d \in ToSet(s.done) : d.respond = c) \in Done
          BY <3>1, <5>1
        <5> QED
          BY <5>2 DEF Done
      <4>3. conn'[c] = Answered(c, ok)
        BY <1>9, <3>1
      <4> HIDE DEF ok
      <4>4. PICK k \in 1 .. Len(pending) : pending[k].respond = c
        BY <1>4, <4>1 DEF Settling, EitherOr
      <4>5. k \in DOMAIN pending
        BY <1>2
      <4>6. conn[c].busy # None
        BY <1>1, <4>4, <4>5 DEF Outstanding, OneWaits
      <4>7. /\ Answered(c, ok) \in AdminConn
            /\ Answered(c, ok).busy = None
            /\ Len(Answered(c, ok).replies) = Len(conn[c].replies) + 1
        BY <1>2, <4>2, <4>6, Answering
      <4> QED
        BY <4>1, <4>3, <4>4, <4>5, <4>7 DEF JustAnswered
    <3>2. CASE ~ \E d \in ToSet(s.done) : d.respond = c
      <4>1. conn'[c] = conn[c]
        BY <1>9, <3>2
      <4>2. \A i \in DOMAIN s.done : s.done[i].respond # c
        BY <3>2 DEF ToSet
      <4> QED
        BY <1>2, <4>1, <4>2
    <3> QED
      BY <3>1, <3>2
  <2>2. conn' \in [Conn -> AdminConn]
    BY <1>9, <2>1
  <2> QED
    BY <1>1, <1>4, <1>6, <1>7, <1>9, <2>1, <2>2 DEF s
<1> QED
  BY <1>5, <1>8, <1>9

\* The clock of the questions.
LEMMA TickAsks ==
  ASSUME AskTypes, Tick
  PROVE  /\ pending' \in Seq(Waiting) /\ DOMAIN pending' = DOMAIN pending
         /\ \A i \in DOMAIN pending : pending'[i].respond = pending[i].respond
         /\ UNCHANGED <<cmds, pc, conn, away, proto_inbox, given>>
<1>1. pending \in Seq(Waiting) /\ REMOTE_TIMEOUT \in Nat
  BY ClientAssumption DEF AskTypes
<1>2. ASSUME NEW n \in Nat
      PROVE  Min({n + 1, REMOTE_TIMEOUT}) \in Nat
  <2>1. \E x \in {n + 1, REMOTE_TIMEOUT} : \A y \in {n + 1, REMOTE_TIMEOUT} : x <= y
    BY <1>1
  <2>2. {n + 1, REMOTE_TIMEOUT} \subseteq Nat
    BY <1>1
  <2> QED
    BY <2>1, <2>2 DEF Min
<1> DEFINE later(i) == [pending[i] EXCEPT !.age = Min({pending[i].age + 1, REMOTE_TIMEOUT})]
<1>3. ASSUME NEW i \in DOMAIN pending
      PROVE  later(i) \in Waiting /\ later(i).respond = pending[i].respond
  <2>1. pending[i] \in Waiting
    BY <1>1
  <2> DEFINE a == Min({pending[i].age + 1, REMOTE_TIMEOUT})
  <2>2. a \in Nat
    BY <1>2, <2>1 DEF Waiting
  <2> HIDE DEF a
  <2>3. later(i) = [pending[i] EXCEPT !.age = a]
    BY DEF a
  <2> HIDE DEF later
  <2> QED
    BY <2>1, <2>2, <2>3 DEF Waiting
<1>4. pending' = [i \in DOMAIN pending |-> later(i)]
  BY <1>1 DEF Tick
<1>5. UNCHANGED <<cmds, pc, conn, away, proto_inbox, given>>
  BY DEF Tick, hist
<1> HIDE DEF later
<1>6. DOMAIN pending = 1 .. Len(pending) /\ Len(pending) \in Nat
  BY <1>1
<1>7. pending' \in [1 .. Len(pending) -> Waiting]
  BY <1>3, <1>4, <1>6
<1> QED
  BY <1>3, <1>4, <1>5, <1>6, <1>7

LEMMA AskAsks ==
  ASSUME AskTypes, NEW c \in Conn, Ask(c)
  PROVE  /\ conn' \in [Conn -> AdminConn]
         /\ \A x \in Conn : conn'[x].busy = conn[x].busy /\ conn'[x].replies = conn[x].replies
         /\ UNCHANGED <<cmds, pc, pending, away, proto_inbox, given>>
<1>1. conn \in [Conn -> AdminConn] /\ conn[c] \in AdminConn /\ conn[c].todo \in Seq(Request)
  BY DEF AskTypes, AdminConn
<1>2. PICK r \in Request : conn' = [conn EXCEPT ![c].todo = Append(@, r)]
  BY DEF Ask
<1> DEFINE todo == Append(conn[c].todo, r)
<1>3. todo \in Seq(Request)
  BY <1>1, AppendOf
<1>4. conn' = [conn EXCEPT ![c] = [conn[c] EXCEPT !.todo = todo]]
  BY <1>1, <1>2
<1> HIDE DEF todo
<1>5. [conn[c] EXCEPT !.todo = todo] \in AdminConn
  BY <1>1, <1>3 DEF AdminConn
<1>6. UNCHANGED <<cmds, pc, pending, away, proto_inbox, given>>
  BY DEF Ask, node, hist
<1> QED
  BY <1>1, <1>4, <1>5, <1>6 DEF AdminConn

\* The actions that leave the questions alone.
LEMMA AskFrame ==
  ASSUME \/ CmdsDrained \/ OnDial \/ Plan \/ PacketArrives \/ SubmitSend \/ SubmitQuit \/ Listen \/ KernelSends
         \/ \E u \in Info : SubmitDial(u) \/ BackoffEnds(u)
         \/ \E t \in tasks : DialEnds(t)
         \/ \E id \in Ids : ReadTimesOut(id) \/ Retire(id) \/ SocketMoves(id)
         \/ UNCHANGED vars
  PROVE  UNCHANGED <<conn, pending, away, proto_inbox, given>>
  BY DEF CmdsDrained, OnDial, Plan, PacketArrives, SubmitSend, SubmitQuit, Listen, KernelSends, SubmitDial,
         BackoffEnds, DialEnds, ReadTimesOut, Retire, SocketMoves, vars, node, hist

LEMMA AskTypesStep ==
  ASSUME AskTypes, QueueTypes, LinksKept, Outstanding, AnswersKept, [Next]_vars
  PROVE  AskTypes'
<1>1. /\ conn \in [Conn -> AdminConn] /\ pending \in Seq(Waiting) /\ proto_inbox \in Seq(Answer)
      /\ away \subseteq Answer /\ given \subseteq Quest \X Quest
  BY DEF AskTypes
<1>2. CASE OnCmd
  <2>1. UNCHANGED <<proto_inbox, given>>
    BY <1>2, OnCmdAsks
  <2>2. CASE conn' \in [Conn -> AdminConn] /\ UNCHANGED <<pending, away>>
    BY <1>1, <2>1, <2>2 DEF AskTypes
  <2>3. ASSUME NEW c \in Conn, NEW what \in What, conn' = conn,
               pending' = Append(pending, [what |-> what, age |-> 0, respond |-> c, q |-> Question(c)]),
               away' = away \cup {[what |-> what, q |-> Question(c)]}
        PROVE  AskTypes'
    <3>1. Question(c) \in Quest
      BY <1>1 DEF Question, Quest, AdminConn
    <3>2. /\ [what |-> what, age |-> 0, respond |-> c, q |-> Question(c)] \in Waiting
          /\ [what |-> what, q |-> Question(c)] \in Answer
      BY <3>1 DEF Waiting, Answer
    <3>3. pending' \in Seq(Waiting)
      BY <1>1, <2>3, <3>2, AppendOf
    <3>4. away' \subseteq Answer
      BY <1>1, <2>3, <3>2
    <3> QED
      BY <1>1, <2>1, <2>3, <3>3, <3>4 DEF AskTypes
  <2> QED
    BY <1>1, <1>2, <2>2, <2>3, OnCmdAsks
<1>3. CASE Turn
  <2> DEFINE s == Settle
  <2>1. /\ Settling(s, Len(pending))
        /\ proto_inbox' = s.inbox /\ away' = away
        /\ conn' \in [Conn -> AdminConn] /\ pending' \in Seq(Waiting)
        /\ \A p \in given' : \/ p \in given
                             \/ \E i \in DOMAIN s.done : s.done[i].of # None /\ p = <<s.done[i].q, s.done[i].of>>
    BY <1>3, TurnAsks
  <2> HIDE DEF s
  <2>2. s.inbox \in Seq(Answer) /\ s.done \in Seq(Done)
    BY <2>1 DEF Settling, SettlingTypes
  <2>3. \A i \in DOMAIN s.done : s.done[i].q \in Quest /\ (s.done[i].of # None => s.done[i].of \in Quest)
    <3>1. \A i \in DOMAIN s.done : s.done[i] \in Done
      BY <2>2
    <3> QED
      BY <3>1 DEF Done
  <2>4. given' \subseteq Quest \X Quest
    <3> SUFFICES ASSUME NEW p \in given'
                 PROVE  p \in Quest \X Quest
      OBVIOUS
    <3>1. CASE p \in given
      BY <1>1, <3>1
    <3>2. ASSUME NEW i \in DOMAIN s.done, s.done[i].of # None, p = <<s.done[i].q, s.done[i].of>>
          PROVE  p \in Quest \X Quest
      BY <2>3, <3>2
    <3> QED
      BY <2>1, <3>1, <3>2
  <2> QED
    BY <1>1, <2>1, <2>2, <2>4 DEF AskTypes
<1>4. ASSUME NEW id \in Ids, Evict(id)
      PROVE  AskTypes'
  <2>1. UNCHANGED <<pending, away, proto_inbox, given>> /\ (Stop \/ conn' = conn)
    BY <1>4 DEF Evict, hist
  <2>2. conn' \in [Conn -> AdminConn]
    BY <1>1, <2>1, Stopping
  <2> QED
    BY <1>1, <2>1, <2>2 DEF AskTypes
<1>5. CASE AnswerArrives
  <2>1. PICK a \in away : proto_inbox' = Append(proto_inbox, a) /\ away' = away \ {a}
    BY <1>5 DEF AnswerArrives
  <2>2. proto_inbox' \in Seq(Answer) /\ away' \subseteq Answer
    BY <1>1, <2>1, AppendOf
  <2>3. UNCHANGED <<conn, pending, given>>
    BY <1>5 DEF AnswerArrives, hist
  <2> QED
    BY <1>1, <2>2, <2>3 DEF AskTypes
<1>6. CASE Tick
  BY <1>1, <1>6, TickAsks DEF AskTypes
<1>7. ASSUME NEW c \in Conn, Ask(c) \/ HandleOne(c)
      PROVE  AskTypes'
  <2>1. conn' \in [Conn -> AdminConn] /\ UNCHANGED <<pending, away, proto_inbox, given>>
    BY <1>7, AskAsks, HandleAsks
  <2> QED
    BY <1>1, <2>1 DEF AskTypes
<1>8. CASE UNCHANGED <<conn, pending, away, proto_inbox, given>>
  BY <1>1, <1>8 DEF AskTypes
<1> QED
  BY <1>2, <1>3, <1>4, <1>5, <1>6, <1>7, <1>8, AskFrame DEF Next, Loop, Serve, Others

\* At the end of a turn no connection has lost its place: whoever is not
\* answered still waits.
LEMMA OutstandingStep ==
  ASSUME AskTypes, QueueTypes, LinksKept, Outstanding, AnswersKept, [Next]_vars
  PROVE  Outstanding'
<1>1. cmds \in Seq(Cmd) /\ pending \in Seq(Waiting) /\ conn \in [Conn -> AdminConn]
  BY DEF AskTypes, QueueTypes
<1> SUFFICES ASSUME pc' # "stopped", NEW c \in Conn
             PROVE  OneWaits(c)'
  BY DEF Outstanding
\* cmds' holds nothing for c that cmds did not.
<1> DEFINE From(d) == \A i \in DOMAIN cmds' : Expects(cmds'[i], c) => i + d \in DOMAIN cmds /\ cmds'[i] = cmds[i + d]
<1>2. ASSUME OneWaits(c), NEW d \in {0, 1}, From(d), DOMAIN cmds' \subseteq Nat,
             DOMAIN pending' = DOMAIN pending,
             \A i \in DOMAIN pending : pending'[i].respond = pending[i].respond,
             conn'[c].busy = conn[c].busy
      PROVE  OneWaits(c)'
  <2>1. \A i, j \in DOMAIN cmds' : (Expects(cmds'[i], c) /\ Expects(cmds'[j], c)) => i = j
    <3> SUFFICES ASSUME NEW i \in DOMAIN cmds', NEW j \in DOMAIN cmds', Expects(cmds'[i], c), Expects(cmds'[j], c)
                 PROVE  i = j
      OBVIOUS
    <3>1. i + d = j + d
      BY <1>2 DEF OneWaits
    <3> QED
      BY <1>2, <3>1
  <2>2. \A i \in DOMAIN cmds' : Expects(cmds'[i], c) => conn'[c].busy # None
    BY <1>2 DEF OneWaits
  <2>3. \A i \in DOMAIN cmds', j \in DOMAIN pending' : ~(Expects(cmds'[i], c) /\ pending'[j].respond = c)
    BY <1>2 DEF OneWaits
  <2>4. /\ \A i \in DOMAIN pending' : pending'[i].respond = c => conn'[c].busy # None
        /\ \A i, j \in DOMAIN pending' : (pending'[i].respond = c /\ pending'[j].respond = c) => i = j
    BY <1>2 DEF OneWaits
  <2> HIDE DEF From
  <2>5. \A i : Expects(cmds[i], c)' <=> Expects(cmds'[i], c)
    BY DEF Expects
  <2> QED
    BY <2>1, <2>2, <2>3, <2>4 DEF OneWaits, Expects
<1>3. DOMAIN cmds \subseteq Nat /\ (\A i \in DOMAIN cmds : i + 0 = i)
  BY <1>1
<1>4. /\ cmds' = cmds => From(0) /\ DOMAIN cmds' \subseteq Nat
      /\ cmds # <<>> /\ cmds' = Tail(cmds) => From(1) /\ DOMAIN cmds' \subseteq Nat
      /\ \A x : ~Expects(x, c) /\ cmds' = Append(cmds, x) => From(0) /\ DOMAIN cmds' \subseteq Nat
  <2>1. cmds' = cmds => From(0) /\ DOMAIN cmds' \subseteq Nat
    BY <1>3
  <2>2. cmds # <<>> /\ cmds' = Tail(cmds) => From(1) /\ DOMAIN cmds' \subseteq Nat
    <3> SUFFICES ASSUME cmds # <<>>, cmds' = Tail(cmds)
                 PROVE  From(1) /\ DOMAIN cmds' \subseteq Nat
      OBVIOUS
    <3>1. \A i \in DOMAIN cmds' : i \in Nat /\ i + 1 \in DOMAIN cmds /\ cmds'[i] = cmds[i + 1]
      BY <1>1, TailOf
    <3> QED
      BY <3>1
  <2>3. ASSUME NEW x, ~Expects(x, c), cmds' = Append(cmds, x)
        PROVE  From(0) /\ DOMAIN cmds' \subseteq Nat
    <3>1. DOMAIN cmds' = DOMAIN cmds \cup {Len(cmds) + 1} /\ \A i \in DOMAIN cmds : cmds'[i] = cmds[i]
      BY <1>1, <2>3
    <3>2. cmds'[Len(cmds) + 1] = x /\ Len(cmds) + 1 \in Nat
      BY <1>1, <2>3
    <3> QED
      BY <1>3, <2>3, <3>1, <3>2
  <2> QED
    BY <2>1, <2>2, <2>3
<1> HIDE DEF From
<1>5. pc # "stopped" => OneWaits(c)
  BY DEF Outstanding
<1>6. CASE OnCmd
  <2>1. /\ From(1) /\ DOMAIN cmds' \subseteq Nat /\ cmds # <<>> /\ cmds' = Tail(cmds) /\ OneWaits(c)
    BY <1>4, <1>5, <1>6 DEF OnCmd
  <2>2. /\ 1 \in DOMAIN cmds /\ Head(cmds) = cmds[1]
        /\ \A i \in DOMAIN cmds' : i + 1 \in DOMAIN cmds /\ i + 1 # 1 /\ cmds'[i] = cmds[i + 1]
    BY <1>1, <2>1, TailOf
  <2>3. ASSUME Expects(Head(cmds), c)
        PROVE  /\ \A i \in DOMAIN cmds' : ~Expects(cmds'[i], c)
               /\ \A i \in DOMAIN pending : pending[i].respond # c
               /\ conn[c].busy # None
    BY <2>1, <2>2, <2>3 DEF OneWaits
  <2>4. ASSUME NEW x \in Conn, Expects(Head(cmds), x),
               \A y \in Conn : y # x => conn'[y] = conn[y], JustAnswered(x, conn'[x]),
               UNCHANGED <<pending, away>>
        PROVE  OneWaits(c)'
    <3>1. CASE c = x
      <4>1. /\ \A i \in DOMAIN cmds' : ~Expects(cmds'[i], c)
            /\ \A i \in DOMAIN pending : pending[i].respond # c
        BY <2>3, <2>4, <3>1
      <4> QED
        BY <2>4, <4>1 DEF OneWaits, Expects
    <3>2. CASE c # x
      BY <1>2, <2>1, <2>4, <3>2
    <3> QED
      BY <3>1, <3>2
  <2>5. CASE UNCHANGED <<conn, pending, away>>
    BY <1>2, <2>1, <2>5
  <2>6. ASSUME NEW x \in Conn, NEW what \in What, Expects(Head(cmds), x), conn' = conn,
               pending' = Append(pending, [what |-> what, age |-> 0, respond |-> x, q |-> Question(x)])
        PROVE  OneWaits(c)'
    <3>1. /\ DOMAIN pending' = DOMAIN pending \cup {Len(pending) + 1}
          /\ \A i \in DOMAIN pending : pending'[i] = pending[i]
          /\ pending'[Len(pending) + 1].respond = x
      BY <1>1, <2>6
    <3>2. CASE c = x
      <4>1. /\ \A i \in DOMAIN cmds' : ~Expects(cmds'[i], c)
            /\ \A i \in DOMAIN pending : pending[i].respond # c
            /\ conn[c].busy # None
        BY <2>3, <2>6, <3>2
      <4> QED
        BY <2>6, <3>1, <4>1 DEF OneWaits, Expects
    <3>3. CASE c # x
      <4>1. \A i \in DOMAIN pending' : pending'[i].respond = c => i \in DOMAIN pending /\ pending[i].respond = c
        BY <3>1, <3>3
      <4>2. /\ \A i \in DOMAIN pending' : pending'[i].respond = c => conn'[c].busy # None
            /\ \A i, j \in DOMAIN pending' : (pending'[i].respond = c /\ pending'[j].respond = c) => i = j
        BY <2>1, <2>6, <4>1 DEF OneWaits
      <4>3. \A i \in DOMAIN cmds' : Expects(cmds'[i], c) => i + 1 \in DOMAIN cmds /\ Expects(cmds[i + 1], c)
        BY <2>2
      <4>4. /\ \A i \in DOMAIN cmds' : Expects(cmds'[i], c) => conn'[c].busy # None
            /\ \A i \in DOMAIN cmds', j \in DOMAIN pending' : ~(Expects(cmds'[i], c) /\ pending'[j].respond = c)
        BY <2>1, <2>6, <4>1, <4>3 DEF OneWaits
      <4>5. \A i, j \in DOMAIN cmds' : (Expects(cmds'[i], c) /\ Expects(cmds'[j], c)) => i = j
        <5> SUFFICES ASSUME NEW i \in DOMAIN cmds', NEW j \in DOMAIN cmds', Expects(cmds'[i], c), Expects(cmds'[j], c)
                     PROVE  i = j
          OBVIOUS
        <5>1. i + 1 = j + 1
          BY <2>1, <4>3 DEF OneWaits
        <5> QED
          BY <2>1, <5>1
      <4> QED
        BY <4>2, <4>4, <4>5 DEF OneWaits, Expects
    <3> QED
      BY <3>2, <3>3
  <2> QED
    BY <1>6, <2>4, <2>5, <2>6, OnCmdAsks
<1>7. CASE Turn
  <2> DEFINE s == Settle
  <2>1. /\ Settling(s, Len(pending)) /\ pending' = s.still /\ cmds' = cmds
        /\ \/ /\ \E i \in DOMAIN s.done : s.done[i].respond = c
              /\ \E k \in DOMAIN pending : pending[k].respond = c
              /\ JustAnswered(c, conn'[c])
           \/ /\ \A i \in DOMAIN s.done : s.done[i].respond # c
              /\ conn'[c] = conn[c]
    BY <1>7, TurnAsks
  <2> HIDE DEF s
  <2>2. OneWaits(c)
    BY <1>5, <1>7 DEF Turn
  <2>3. \A i \in DOMAIN s.still : \E k \in DOMAIN pending : s.still[i] = pending[k]
    <3>1. 1 .. Len(pending) = DOMAIN pending
      BY <1>1
    <3> QED
      BY <2>1, <3>1 DEF Settling, StillWait
  <2>4. \A i, j \in DOMAIN s.still : (s.still[i].respond = c /\ s.still[j].respond = c) => i = j
    BY <2>1 DEF Settling, StillWait
  <2>5. CASE JustAnswered(c, conn'[c]) /\ (\E i \in DOMAIN s.done : s.done[i].respond = c)
             /\ (\E k \in DOMAIN pending : pending[k].respond = c)
    <3>1. \A i \in DOMAIN s.still : s.still[i].respond # c
      BY <2>1, <2>5 DEF Settling, EitherOr
    <3>2. \A i \in DOMAIN cmds : ~Expects(cmds[i], c)
      BY <2>2, <2>5 DEF OneWaits
    <3> QED
      BY <2>1, <3>1, <3>2 DEF OneWaits, Expects
  <2>6. CASE conn'[c] = conn[c]
    <3>1. \A i \in DOMAIN s.still : s.still[i].respond = c => \E k \in DOMAIN pending : pending[k].respond = c
      BY <2>3
    <3>2. \A i \in DOMAIN s.still : s.still[i].respond = c =>
             conn[c].busy # None /\ \A j \in DOMAIN cmds : ~Expects(cmds[j], c)
      BY <2>2, <3>1 DEF OneWaits
    <3> QED
      BY <2>1, <2>2, <2>4, <2>6, <3>2 DEF OneWaits, Expects
  <2> QED
    BY <2>1, <2>5, <2>6
<1>8. ASSUME NEW id \in Ids, Evict(id)
      PROVE  OneWaits(c)'
  <2>1. UNCHANGED <<pending, cmds, conn, pc>>
    BY <1>8 DEF Evict, Stop
  <2> QED
    BY <1>2, <1>4, <1>5, <2>1
<1>9. CASE AnswerArrives
  <2>1. UNCHANGED <<pending, cmds, conn, pc>>
    BY <1>9 DEF AnswerArrives
  <2> QED
    BY <1>2, <1>4, <1>5, <2>1
<1>10. CASE Tick
  BY <1>2, <1>4, <1>5, <1>10, TickAsks
<1>11. ASSUME NEW x \in Conn, Ask(x)
       PROVE  OneWaits(c)'
  BY <1>2, <1>4, <1>5, <1>11, AskAsks
<1>12. ASSUME NEW x \in Conn, HandleOne(x)
       PROVE  OneWaits(c)'
  <2>1. UNCHANGED <<pc, pending>> /\ (\A y \in Conn : y # x => conn'[y] = conn[y]) /\ conn[x].busy = None
    BY <1>12, HandleAsks
  <2>2. OneWaits(c)
    BY <1>5, <2>1
  <2>3. CASE cmds' = cmds /\ JustAnswered(x, conn'[x])
    <3>1. CASE c = x
      <4>1. (\A i \in DOMAIN cmds : ~Expects(cmds[i], c)) /\ (\A i \in DOMAIN pending : pending[i].respond # c)
        BY <2>1, <2>2, <3>1 DEF OneWaits
      <4> QED
        BY <2>1, <2>3, <4>1 DEF OneWaits, Expects
    <3>2. CASE c # x
      BY <1>2, <1>4, <2>1, <2>2, <2>3, <3>2
    <3> QED
      BY <3>1, <3>2
  <2>4. ASSUME NEW cmd \in Cmd, Expects(cmd, x), cmds' = Append(cmds, cmd), conn'[x].busy # None
        PROVE  OneWaits(c)'
    <3>1. CASE c = x
      <4>1. (\A i \in DOMAIN cmds : ~Expects(cmds[i], c)) /\ (\A i \in DOMAIN pending : pending[i].respond # c)
        BY <2>1, <2>2, <3>1 DEF OneWaits
      <4>2. DOMAIN cmds' = DOMAIN cmds \cup {Len(cmds) + 1} /\ \A i \in DOMAIN cmds : cmds'[i] = cmds[i]
        BY <1>1, <2>4
      <4>3. \A i \in DOMAIN cmds' : Expects(cmds'[i], c) => i = Len(cmds) + 1
        BY <4>1, <4>2
      <4> QED
        BY <2>1, <2>4, <3>1, <4>1, <4>3 DEF OneWaits, Expects
    <3>2. CASE c # x
      <4>1. ~Expects(cmd, c)
        BY <2>4, <3>2 DEF Expects
      <4> QED
        BY <1>2, <1>4, <2>1, <2>2, <2>4, <3>2, <4>1
    <3> QED
      BY <3>1, <3>2
  <2> QED
    BY <1>12, <2>3, <2>4, HandleAsks
<1>13. ASSUME UNCHANGED <<conn, pending, away, proto_inbox, given>>, pc # "stopped",
              cmds' = cmds \/ \E x : ~Expects(x, c) /\ cmds' = Append(cmds, x)
       PROVE  OneWaits(c)'
  BY <1>2, <1>4, <1>5, <1>13
<1>14. CASE CmdsDrained \/ OnDial \/ Plan \/ PacketArrives \/ KernelSends \/ UNCHANGED vars
  BY <1>13, <1>14, AskFrame DEF CmdsDrained, OnDial, Plan, PacketArrives, KernelSends, vars
<1>15. CASE \/ \E u \in Info : BackoffEnds(u)
            \/ \E t \in tasks : DialEnds(t)
            \/ \E id \in Ids : ReadTimesOut(id) \/ Retire(id) \/ SocketMoves(id)
  BY <1>13, <1>15, AskFrame DEF BackoffEnds, DialEnds, ReadTimesOut, Retire, SocketMoves
<1>16. CASE SubmitSend \/ SubmitQuit \/ Listen \/ \E u \in Info : SubmitDial(u)
  <2>1. \E x : ~Expects(x, c) /\ cmds' = Append(cmds, x)
    BY <1>16, ClientAssumption DEF SubmitSend, SubmitQuit, Listen, SubmitDial, Expects
  <2>2. pc # "stopped"
    BY <1>16 DEF SubmitSend, SubmitQuit, Listen, SubmitDial
  <2> QED
    BY <1>13, <1>16, <2>1, <2>2, AskFrame
<1> QED
  BY <1>6, <1>7, <1>8, <1>9, <1>10, <1>11, <1>12, <1>14, <1>15, <1>16 DEF Next, Loop, Serve, Others

\* The actions that leave the answers alone.
LEMMA AnswerFrame ==
  ASSUME AskTypes, QueueTypes, LinksKept, Outstanding, [Next]_vars
  PROVE  OnCmd \/ Turn \/ AnswerArrives \/ UNCHANGED <<away, proto_inbox, given>>
<1>1. CASE \E id \in Ids : Evict(id)
  BY <1>1 DEF Evict, hist
<1>2. CASE Tick \/ \E c \in Conn : Ask(c) \/ HandleOne(c)
  BY <1>2, TickAsks, AskAsks, HandleAsks
<1> QED
  BY <1>1, <1>2, AskFrame DEF Next, Loop, Serve, Others

LEMMA SentType ==
  ASSUME AskTypes
  PROVE  Sent \subseteq Quest
<1>1. \A i \in DOMAIN proto_inbox : proto_inbox[i] \in Answer
  BY DEF AskTypes
<1> QED
  BY <1>1 DEF AskTypes, Sent, Answer

LEMMA AnswersStep ==
  ASSUME AskTypes, QueueTypes, LinksKept, Outstanding, AnswersKept, SentAreOld, [Next]_vars
  PROVE  AnswersKept'
<1>1. /\ conn \in [Conn -> AdminConn] /\ pending \in Seq(Waiting) /\ proto_inbox \in Seq(Answer)
      /\ away \subseteq Answer /\ given \subseteq Quest \X Quest
  BY DEF AskTypes
<1>2. CASE UNCHANGED <<away, proto_inbox, given>>
  BY <1>2 DEF AnswersKept, AnsweredOnce
<1>3. CASE OnCmd
  <2>1. UNCHANGED <<pc, proto_inbox, given>>
    BY <1>3, OnCmdAsks
  <2>2. CASE away' = away
    BY <1>2, <2>1, <2>2
  <2>3. ASSUME NEW c \in Conn, NEW what \in What, Expects(Head(cmds), c),
               away' = away \cup {[what |-> what, q |-> Question(c)]}
        PROVE  AnswersKept'
    <3>1. pc # "stopped" /\ 1 \in DOMAIN cmds /\ Head(cmds) = cmds[1]
      BY <1>3, HeadCmd DEF OnCmd
    <3>2. \A i \in DOMAIN pending : pending[i].respond # c
      BY <2>3, <3>1 DEF Outstanding, OneWaits
    <3>3. Question(c) \notin Sent
      <4> SUFFICES ASSUME Question(c) \in Sent
                   PROVE  FALSE
        OBVIOUS
      <4>1. Old(Question(c))
        BY <3>1 DEF SentAreOld
      <4>2. Question(c)[1] = c /\ Question(c)[2] = Len(conn[c].replies) /\ Len(conn[c].replies) \in Nat
        BY <1>1 DEF Question, AdminConn
      <4> HIDE DEF Question
      <4> QED
        BY <3>2, <4>1, <4>2 DEF Old
    <3> DEFINE new == [what |-> what, q |-> Question(c)]
    <3>4. new.q = Question(c)
      OBVIOUS
    <3>5. /\ \A a \in away : a.q # new.q
          /\ \A i \in DOMAIN proto_inbox : proto_inbox[i].q # new.q
          /\ \A p \in given : p[2] # new.q
      BY <3>3, <3>4 DEF Sent
    <3>6. away' = away \cup {new}
      BY <2>3
    <3> HIDE DEF new
    <3> QED
      BY <2>1, <3>5, <3>6 DEF AnswersKept, AnsweredOnce
  <2> QED
    BY <1>3, <2>2, <2>3, OnCmdAsks
<1>4. CASE Turn
  <2> DEFINE s == Settle
  <2>1. /\ Settling(s, Len(pending))
        /\ proto_inbox' = s.inbox /\ away' = away
        /\ \A p \in given' : \/ p \in given
                             \/ \E i \in DOMAIN s.done : s.done[i].of # None /\ p = <<s.done[i].q, s.done[i].of>>
    BY <1>4, TurnAsks
  <2> HIDE DEF s
  <2>2. LeftOver(s) /\ UsedOnce(s)
    BY <2>1 DEF Settling
  <2>3. /\ \A i \in DOMAIN s.inbox : \E k \in DOMAIN proto_inbox : s.inbox[i] = proto_inbox[k]
        /\ \A i, j \in DOMAIN s.inbox : s.inbox[i].q = s.inbox[j].q => i = j
    BY <2>2 DEF LeftOver
  <2>4. /\ \A j \in DOMAIN s.done : s.done[j].of # None =>
             /\ \E k \in DOMAIN proto_inbox : proto_inbox[k].q = s.done[j].of
             /\ \A i \in DOMAIN s.inbox : s.inbox[i].q # s.done[j].of
        /\ \A i, j \in DOMAIN s.done : (s.done[i].of # None /\ s.done[i].of = s.done[j].of) => i = j
    BY <2>2 DEF UsedOnce
  <2>5. ASSUME NEW p \in given'
        PROVE  \/ p \in given
               \/ \E i \in DOMAIN s.done : s.done[i].of # None /\ p = <<s.done[i].q, s.done[i].of>> /\ p[2] = s.done[i].of
    BY <2>1
  <2>6. ASSUME NEW p \in given'
        PROVE  /\ \A a \in away : p[2] # a.q
               /\ \A i \in DOMAIN s.inbox : p[2] # s.inbox[i].q
    <3>1. CASE p \in given
      <4>1. \A i \in DOMAIN proto_inbox : p[2] # proto_inbox[i].q
        BY <3>1 DEF AnswersKept
      <4> QED
        BY <2>3, <3>1, <4>1 DEF AnswersKept
    <3>2. ASSUME NEW i \in DOMAIN s.done, s.done[i].of # None, p[2] = s.done[i].of
          PROVE  /\ \A a \in away : p[2] # a.q
                 /\ \A j \in DOMAIN s.inbox : p[2] # s.inbox[j].q
      <4>1. PICK k \in DOMAIN proto_inbox : proto_inbox[k].q = s.done[i].of
        BY <2>4, <3>2
      <4>2. \A a \in away : a.q # proto_inbox[k].q
        BY DEF AnswersKept
      <4> QED
        BY <2>4, <3>2, <4>1, <4>2
    <3> QED
      BY <2>5, <3>1, <3>2
  <2>7. ASSUME NEW p \in given', NEW r \in given', p[2] = r[2]
        PROVE  p = r
    <3>1. ASSUME NEW x \in given, NEW i \in DOMAIN s.done, s.done[i].of # None
          PROVE  x[2] # s.done[i].of
      <4>1. PICK k \in DOMAIN proto_inbox : proto_inbox[k].q = s.done[i].of
        BY <2>4, <3>1
      <4> QED
        BY <4>1 DEF AnswersKept
    <3>2. CASE p \in given /\ r \in given
      BY <2>7, <3>2 DEF AnswersKept, AnsweredOnce
    <3>3. CASE p \notin given /\ r \notin given
      <4>1. PICK i \in DOMAIN s.done : s.done[i].of # None /\ p = <<s.done[i].q, s.done[i].of>> /\ p[2] = s.done[i].of
        BY <2>5, <3>3
      <4>2. PICK j \in DOMAIN s.done : s.done[j].of # None /\ r = <<s.done[j].q, s.done[j].of>> /\ r[2] = s.done[j].of
        BY <2>5, <3>3
      <4>3. i = j
        BY <2>4, <2>7, <4>1, <4>2
      <4> QED
        BY <4>1, <4>2, <4>3
    <3> QED
      BY <2>5, <2>7, <3>1, <3>2, <3>3
  <2>8. \A a \in away, i \in DOMAIN s.inbox : a.q # s.inbox[i].q
    BY <2>3 DEF AnswersKept
  <2>9. \A a, b \in away : a.q = b.q => a = b
    BY DEF AnswersKept
  <2> QED
    BY <2>1, <2>3, <2>6, <2>7, <2>8, <2>9 DEF AnswersKept, AnsweredOnce
<1>5. CASE AnswerArrives
  <2>1. PICK a \in away : proto_inbox' = Append(proto_inbox, a) /\ away' = away \ {a}
    BY <1>5 DEF AnswerArrives
  <2>2. given' = given
    BY <1>5 DEF AnswerArrives, hist
  <2>3. /\ DOMAIN proto_inbox' = DOMAIN proto_inbox \cup {Len(proto_inbox) + 1}
        /\ \A i \in DOMAIN proto_inbox : proto_inbox'[i] = proto_inbox[i]
        /\ proto_inbox'[Len(proto_inbox) + 1] = a
    BY <1>1, <2>1, AppendOf
  <2> QED
    BY <2>1, <2>2, <2>3 DEF AnswersKept, AnsweredOnce
<1> QED
  BY <1>2, <1>3, <1>4, <1>5, AnswerFrame

\* The number of replies of a connection grows, and a connection that waits
\* goes on waiting or has one more.
LEMMA SentStep ==
  ASSUME AskTypes, QueueTypes, LinksKept, Outstanding, AnswersKept, SentAreOld, [Next]_vars
  PROVE  SentAreOld'
<1>1. /\ conn \in [Conn -> AdminConn] /\ pending \in Seq(Waiting) /\ proto_inbox \in Seq(Answer)
  BY DEF AskTypes
<1>0. \A c \in Conn : Len(conn[c].replies) \in Nat
  <2>1. \A c \in Conn : conn[c].replies \in Seq(BOOLEAN)
    BY <1>1 DEF AdminConn
  <2> QED
    BY <2>1
<1> SUFFICES ASSUME pc' # "stopped"
             PROVE  \A q \in Sent' : Old(q)'
  BY DEF SentAreOld
<1>2. ASSUME NEW q \in Sent, pc # "stopped"
      PROVE  Old(q) /\ q[1] \in Conn /\ q[2] \in Nat
  BY <1>2, SentType DEF SentAreOld, Quest
<1>3. ASSUME NEW q \in Sent, pc # "stopped",
             \/ JustAnswered(q[1], conn'[q[1]])
             \/ /\ conn'[q[1]].replies = conn[q[1]].replies
                /\ \A i \in DOMAIN pending : pending[i].respond = q[1] =>
                     \E j \in DOMAIN pending' : pending'[j].respond = q[1]
      PROVE  Old(q)'
  BY <1>0, <1>2, <1>3 DEF Old, JustAnswered
<1>4. ASSUME Sent' \subseteq Sent, UNCHANGED <<pc, conn, pending>>
      PROVE  \A q \in Sent' : Old(q)'
  BY <1>3, <1>4
<1>5. CASE OnCmd
  <2>1. UNCHANGED <<pc, proto_inbox, given>>
    BY <1>5, OnCmdAsks
  <2>2. ASSUME NEW c \in Conn, \A x \in Conn : x # c => conn'[x] = conn[x], JustAnswered(c, conn'[c]),
               UNCHANGED <<pending, away>>
        PROVE  \A q \in Sent' : Old(q)'
    <3>1. Sent' = Sent
      BY <2>1, <2>2 DEF Sent
    <3>2. ASSUME NEW q \in Sent
          PROVE  Old(q)'
      <4>1. q[1] \in Conn
        BY <1>2, <2>1
      <4> QED
        BY <1>3, <2>1, <2>2, <4>1
    <3> QED
      BY <3>1, <3>2
  <2>3. CASE UNCHANGED <<conn, pending, away>>
    BY <1>4, <2>1, <2>3 DEF Sent
  <2>4. ASSUME NEW c \in Conn, NEW what \in What, conn' = conn,
               pending' = Append(pending, [what |-> what, age |-> 0, respond |-> c, q |-> Question(c)]),
               away' = away \cup {[what |-> what, q |-> Question(c)]}
        PROVE  \A q \in Sent' : Old(q)'
    <3>1. Sent' \subseteq Sent \cup {Question(c)}
      <4> DEFINE a == [what |-> what, q |-> Question(c)]
      <4>1. a.q = Question(c) /\ away' = away \cup {a}
        BY <2>4
      <4> HIDE DEF a
      <4>2. \A x \in away' : x.q \in Sent \cup {Question(c)}
        BY <4>1 DEF Sent
      <4> QED
        BY <2>1, <4>2 DEF Sent
    <3>2. /\ DOMAIN pending' = DOMAIN pending \cup {Len(pending) + 1}
          /\ \A i \in DOMAIN pending : pending'[i] = pending[i]
          /\ pending'[Len(pending) + 1].respond = c
      BY <1>1, <2>4
    <3>3. \A q \in Sent : Old(q)'
      BY <1>3, <2>1, <2>4, <3>2
    <3>4. Question(c)[1] = c /\ Question(c)[2] = Len(conn[c].replies)
      BY DEF Question
    <3> DEFINE q == Question(c)
    <3> HIDE DEF q
    <3>5. q[2] = Len(conn'[q[1]].replies) /\ \E i \in DOMAIN pending' : pending'[i].respond = q[1]
      BY <2>4, <3>2, <3>4 DEF q
    <3>6. ASSUME NEW r, r = q
          PROVE  Old(r)'
      BY <3>5, <3>6 DEF Old
    <3> QED
      BY <3>1, <3>3, <3>6 DEF q
  <2> QED
    BY <1>5, <2>2, <2>3, <2>4, OnCmdAsks
<1>6. CASE Turn
  <2> DEFINE s == Settle
  <2>1. /\ Settling(s, Len(pending)) /\ proto_inbox' = s.inbox /\ away' = away /\ pending' = s.still
        /\ \A p \in given' : \/ p \in given
                             \/ \E i \in DOMAIN s.done : s.done[i].of # None /\ p = <<s.done[i].q, s.done[i].of>>
        /\ \A c \in Conn :
             \/ /\ \E i \in DOMAIN s.done : s.done[i].respond = c
                /\ JustAnswered(c, conn'[c])
             \/ /\ \A i \in DOMAIN s.done : s.done[i].respond # c
                /\ conn'[c] = conn[c]
    BY <1>6, TurnAsks
  <2> HIDE DEF s
  <2>2. pc # "stopped"
    BY <1>6 DEF Turn
  <2>3. Sent' \subseteq Sent
    <3>1. \A i \in DOMAIN s.inbox : \E k \in DOMAIN proto_inbox : s.inbox[i] = proto_inbox[k]
      BY <2>1 DEF Settling, LeftOver
    <3>2. \A j \in DOMAIN s.done : s.done[j].of # None => \E k \in DOMAIN proto_inbox : proto_inbox[k].q = s.done[j].of
      BY <2>1 DEF Settling, UsedOnce
    <3>3. \A p \in given' : p[2] \in Sent
      <4> SUFFICES ASSUME NEW p \in given'
                   PROVE  p[2] \in Sent
        OBVIOUS
      <4>1. CASE p \in given
        BY <4>1 DEF Sent
      <4>2. ASSUME NEW i \in DOMAIN s.done, s.done[i].of # None, p = <<s.done[i].q, s.done[i].of>>
            PROVE  p[2] \in Sent
        <5>1. p[2] = s.done[i].of
          BY <4>2
        <5> QED
          BY <3>2, <4>2, <5>1 DEF Sent
      <4> QED
        BY <2>1, <4>1, <4>2
    <3>4. \A i \in DOMAIN proto_inbox' : proto_inbox'[i].q \in Sent
      BY <2>1, <3>1 DEF Sent
    <3>5. \A a \in away' : a.q \in Sent
      BY <2>1 DEF Sent
    <3> QED
      BY <3>3, <3>4, <3>5 DEF Sent
  <2>4. ASSUME NEW q \in Sent
        PROVE  Old(q)'
    <3>1. q[1] \in Conn
      BY <1>2, <2>2
    <3>2. CASE JustAnswered(q[1], conn'[q[1]])
      BY <1>3, <2>2, <3>2
    <3>3. CASE (\A i \in DOMAIN s.done : s.done[i].respond # q[1]) /\ conn'[q[1]] = conn[q[1]]
      <4>1. ASSUME NEW i \in DOMAIN pending, pending[i].respond = q[1]
            PROVE  \E j \in DOMAIN pending' : pending'[j].respond = q[1]
        <5>1. i \in 1 .. Len(pending)
          BY <1>1
        <5> QED
          BY <2>1, <3>3, <4>1, <5>1 DEF Settling, EitherOr
      <4> QED
        BY <1>3, <2>2, <3>3, <4>1
    <3> QED
      BY <2>1, <3>1, <3>2, <3>3
  <2> QED
    BY <2>3, <2>4
<1>7. CASE AnswerArrives
  <2>1. PICK a \in away : proto_inbox' = Append(proto_inbox, a) /\ away' = away \ {a}
    BY <1>7 DEF AnswerArrives
  <2>2. UNCHANGED <<given, pc, conn, pending>>
    BY <1>7 DEF AnswerArrives, hist
  <2>3. /\ DOMAIN proto_inbox' = DOMAIN proto_inbox \cup {Len(proto_inbox) + 1}
        /\ \A i \in DOMAIN proto_inbox : proto_inbox'[i] = proto_inbox[i]
        /\ proto_inbox'[Len(proto_inbox) + 1] = a
    BY <1>1, <2>1
  <2>4. Sent' \subseteq Sent
    BY <2>1, <2>2, <2>3 DEF Sent
  <2> QED
    BY <1>4, <2>2, <2>4
<1>8. CASE Tick
  <2>1. /\ DOMAIN pending' = DOMAIN pending
        /\ \A i \in DOMAIN pending : pending'[i].respond = pending[i].respond
        /\ UNCHANGED <<pc, conn, away, proto_inbox, given>>
    BY <1>8, TickAsks
  <2>2. Sent' = Sent
    BY <2>1 DEF Sent
  <2> QED
    BY <1>3, <2>1, <2>2
<1>9. ASSUME NEW c \in Conn, Ask(c)
      PROVE  \A q \in Sent' : Old(q)'
  <2>1. /\ \A x \in Conn : conn'[x].replies = conn[x].replies
        /\ UNCHANGED <<pc, pending, away, proto_inbox, given>>
    BY <1>9, AskAsks
  <2>2. Sent' = Sent
    BY <2>1 DEF Sent
  <2> QED
    BY <1>2, <1>3, <2>1, <2>2
<1>10. ASSUME NEW c \in Conn, HandleOne(c)
       PROVE  \A q \in Sent' : Old(q)'
  <2>1. /\ \A x \in Conn : x # c => conn'[x] = conn[x]
        /\ JustAnswered(c, conn'[c]) \/ conn'[c].replies = conn[c].replies
        /\ UNCHANGED <<pc, pending, away, proto_inbox, given>>
    BY <1>10, HandleAsks
  <2>2. Sent' = Sent
    BY <2>1 DEF Sent
  <2> QED
    BY <1>2, <1>3, <2>1, <2>2
<1>11. ASSUME UNCHANGED <<conn, pending, away, proto_inbox, given>>, pc # "stopped"
       PROVE  \A q \in Sent' : Old(q)'
  <2>1. Sent' = Sent
    BY <1>11 DEF Sent
  <2> QED
    BY <1>3, <1>11, <2>1
<1>12. ASSUME NEW id \in Ids, Evict(id)
       PROVE  \A q \in Sent' : Old(q)'
  BY <1>11, <1>12 DEF Evict, Stop, hist
<1>13. CASE \/ CmdsDrained \/ OnDial \/ Plan \/ PacketArrives \/ SubmitSend \/ SubmitQuit \/ Listen \/ KernelSends
            \/ UNCHANGED vars
  BY <1>11, <1>13, AskFrame
     DEF CmdsDrained, OnDial, Plan, PacketArrives, SubmitSend, SubmitQuit, Listen, KernelSends, vars
<1>14. CASE \/ \E u \in Info : SubmitDial(u) \/ BackoffEnds(u)
            \/ \E t \in tasks : DialEnds(t)
            \/ \E id \in Ids : ReadTimesOut(id) \/ Retire(id) \/ SocketMoves(id)
  BY <1>11, <1>14, AskFrame DEF SubmitDial, BackoffEnds, DialEnds, ReadTimesOut, Retire, SocketMoves
<1> QED
  BY <1>5, <1>6, <1>7, <1>8, <1>9, <1>10, <1>12, <1>13, <1>14 DEF Next, Loop, Serve, Others

-----------------------------------------------------------------------------
(* Packets *)

\* The most pump may read is one of the numbers it may read.
LEMMA MaxRead ==
  ASSUME NEW S, NEW kernel \in Seq(S)
  PROVE  Max(Reads(kernel)) \in 0 .. Len(kernel)
<1> DEFINE R == Reads(kernel)
           n == Len(kernel)
           T == {n - i : i \in R}
<1>1. n \in Nat /\ 0 \in R /\ R \subseteq 0 .. n
  BY DEF Reads
<1> HIDE DEF R, n
<1>2. T \in SUBSET Nat /\ T # {}
  <2>1. \A i \in R : n - i \in Nat
    BY <1>1
  <2> QED
    BY <1>1, <2>1
<1>3. PICK x \in T : \A y \in T : x <= y
  <2> HIDE DEF T
  <2> QED
    BY <1>2, LeastNat
<1>4. PICK i \in R : x = n - i
  OBVIOUS
<1>5. \A j \in R : i >= j
  <2> TAKE j \in R
  <2>1. n - i <= n - j
    BY <1>3, <1>4
  <2>2. i \in Nat /\ j \in Nat
    BY <1>1
  <2> QED
    BY <1>1, <2>1, <2>2
<1>6. Max(R) \in R
  BY <1>5 DEF Max
<1> QED
  BY <1>1, <1>6 DEF R, n

\* The ids of the packets at the positions W, in order.
LEMMA IdsOf ==
  ASSUME NEW kernel \in Seq(Packets(Nat)), NEW read \in Nat,
         \A k \in DOMAIN kernel : kernel[k].id = read + k,
         NEW W \in SUBSET DOMAIN kernel
  PROVE  LET took == Pick(kernel, W)
             ids == [k \in DOMAIN took |-> took[k].id]
         IN  /\ ids \in Seq(Nat)
             /\ ToSet(ids) = {read + k : k \in W}
             /\ \A i, j \in DOMAIN ids : i < j => ids[i] < ids[j]
<1> DEFINE took == Pick(kernel, W)
           ids == [k \in DOMAIN took |-> took[k].id]
           c == Cardinality(W)
<1>1. W \subseteq 1 .. Len(kernel) /\ Len(kernel) \in Nat
  OBVIOUS
<1>2. InOrder(kernel, W)
  <2>1. IsFiniteSet(1 .. Len(kernel))
    BY <1>1, FS_Interval
  <2>2. W \subseteq Nat /\ IsFiniteSet(W)
    BY <1>1, <2>1, FS_Subset
  <2> QED
    BY <2>2, PickOrder
<1>3. /\ c \in Nat
      /\ DOMAIN took = 1 .. c
      /\ \E pos \in [1 .. c -> W] :
           /\ \A j \in 1 .. c : took[j] = kernel[pos[j]]
           /\ \A i, j \in 1 .. c : i < j => pos[i] < pos[j]
           /\ \A k \in W : \E j \in 1 .. c : pos[j] = k
  BY <1>2 DEF InOrder
<1> HIDE DEF took, c
<1>4. PICK pos \in [1 .. c -> W] :
           /\ \A j \in 1 .. c : took[j] = kernel[pos[j]]
           /\ \A i, j \in 1 .. c : i < j => pos[i] < pos[j]
           /\ \A k \in W : \E j \in 1 .. c : pos[j] = k
  BY <1>3
<1>5. \A j \in 1 .. c : pos[j] \in W /\ pos[j] \in DOMAIN kernel /\ pos[j] \in Nat
  BY <1>1
<1>6. DOMAIN ids = 1 .. c /\ \A j \in 1 .. c : ids[j] = read + pos[j]
  BY <1>3, <1>4, <1>5
<1>7. ids = [j \in 1 .. c |-> ids[j]]
  BY <1>3
<1> HIDE DEF ids
<1>8. ids \in [1 .. c -> Nat]
  BY <1>5, <1>6, <1>7
<1>9. ids \in Seq(Nat)
  BY <1>3, <1>8
<1>10. ToSet(ids) = {read + k : k \in W}
  <2> DEFINE R == {read + k : k \in W}
  <2>1. ASSUME NEW j \in DOMAIN ids
        PROVE  ids[j] \in R
    <3>1. pos[j] \in W /\ ids[j] = read + pos[j]
      BY <1>5, <1>6
    <3> QED
      BY <3>1
  <2>2. ASSUME NEW k \in W
        PROVE  \E j \in DOMAIN ids : ids[j] = read + k
    <3>1. PICK j \in 1 .. c : pos[j] = k
      BY <1>4
    <3> QED
      BY <1>6, <3>1
  <2>3. \A x \in R : \E j \in DOMAIN ids : ids[j] = x
    <3>1. \A x \in R : \E k \in W : x = read + k
      OBVIOUS
    <3> QED
      BY <2>2, <3>1
  <2> HIDE DEF R
  <2>4. ToSet(ids) = R
    BY <2>1, <2>3 DEF ToSet
  <2> QED
    BY <2>4 DEF R
<1>11. ASSUME NEW i \in DOMAIN ids, NEW j \in DOMAIN ids, i < j
       PROVE  ids[i] < ids[j]
  BY <1>4, <1>5, <1>6, <1>11
<1> QED
  BY <1>9, <1>10, <1>11 DEF ids, took

LEMMA ConcatOf ==
  ASSUME NEW s \in Seq(Nat), NEW t \in Seq(Nat)
  PROVE  /\ s \o t \in Seq(Nat)
         /\ ToSet(s \o t) = ToSet(s) \cup ToSet(t)
<1>1. /\ s \o t \in Seq(Nat) /\ Len(s \o t) = Len(s) + Len(t)
      /\ Len(s) \in Nat /\ Len(t) \in Nat
      /\ DOMAIN s = 1 .. Len(s) /\ DOMAIN t = 1 .. Len(t) /\ DOMAIN (s \o t) = 1 .. Len(s) + Len(t)
  OBVIOUS
<1>2. \A i \in DOMAIN (s \o t) : (s \o t)[i] = IF i <= Len(s) THEN s[i] ELSE t[i - Len(s)]
  OBVIOUS
<1>3. \A i \in DOMAIN s : i \in DOMAIN (s \o t) /\ (s \o t)[i] = s[i]
  OBVIOUS
<1>4. \A i \in DOMAIN t : i + Len(s) \in DOMAIN (s \o t) /\ (s \o t)[i + Len(s)] = t[i]
  OBVIOUS
<1>5. ASSUME NEW i \in DOMAIN (s \o t)
      PROVE  (s \o t)[i] \in ToSet(s) \cup ToSet(t)
  <2>1. CASE i <= Len(s)
    BY <1>1, <1>2, <2>1 DEF ToSet
  <2>2. CASE ~(i <= Len(s))
    <3>1. i - Len(s) \in DOMAIN t
      BY <1>1, <2>2
    <3> QED
      BY <1>2, <2>2, <3>1 DEF ToSet
  <2> QED
    BY <2>1, <2>2
<1>6. ToSet(s \o t) \subseteq ToSet(s) \cup ToSet(t)
  <2> DEFINE c == s \o t
             A == ToSet(s) \cup ToSet(t)
  <2>1. \A i \in DOMAIN c : c[i] \in A
    BY <1>5
  <2> HIDE DEF c, A
  <2>2. ToSet(c) \subseteq A
    BY <2>1 DEF ToSet
  <2> QED
    BY <2>2 DEF c, A
<1>7. ToSet(s) \subseteq ToSet(s \o t)
  BY <1>3 DEF ToSet
<1>8. ToSet(t) \subseteq ToSet(s \o t)
  BY <1>4 DEF ToSet
<1> QED
  BY <1>1, <1>6, <1>7, <1>8

LEMMA ConcatLaws ==
  ASSUME NEW s \in Seq(Nat), NEW t \in Seq(Nat), NEW r \in Seq(Nat)
  PROVE  /\ (s \o t) \o r = s \o (t \o r)
         /\ s \o <<>> = s
<1>1. s \o <<>> \in Seq(Nat) /\ Len(s \o <<>>) = Len(s) /\ \A i \in 1 .. Len(s) : (s \o <<>>)[i] = s[i]
  OBVIOUS
<1> DEFINE a == (s \o t) \o r
           b == s \o (t \o r)
<1>2. a \in Seq(Nat) /\ b \in Seq(Nat) /\ Len(a) = Len(b)
  OBVIOUS
<1>3. ASSUME NEW i \in 1 .. Len(a)
      PROVE  a[i] = b[i]
  OBVIOUS
<1> QED
  BY <1>1, <1>2, <1>3

\* Rising numbers, followed by rising numbers above them.
LEMMA RisingConcat ==
  ASSUME NEW s \in Seq(Nat), NEW t \in Seq(Nat), NEW b \in Nat,
         \A i, j \in DOMAIN s : i < j => s[i] < s[j],
         \A i, j \in DOMAIN t : i < j => t[i] < t[j],
         \A i \in DOMAIN s : s[i] <= b,
         \A i \in DOMAIN t : t[i] > b
  PROVE  \A i, j \in DOMAIN (s \o t) : i < j => (s \o t)[i] < (s \o t)[j]
<1>1. /\ Len(s) \in Nat /\ Len(t) \in Nat
      /\ DOMAIN s = 1 .. Len(s) /\ DOMAIN t = 1 .. Len(t) /\ DOMAIN (s \o t) = 1 .. Len(s) + Len(t)
      /\ \A i \in DOMAIN s : s[i] \in Nat
      /\ \A i \in DOMAIN t : t[i] \in Nat
  OBVIOUS
<1>2. \A i \in DOMAIN (s \o t) : (s \o t)[i] = IF i <= Len(s) THEN s[i] ELSE t[i - Len(s)]
  OBVIOUS
<1>3. ASSUME NEW i \in DOMAIN (s \o t), NEW j \in DOMAIN (s \o t), i < j
      PROVE  (s \o t)[i] < (s \o t)[j]
  <2>1. CASE j <= Len(s)
    <3>1. i \in DOMAIN s /\ j \in DOMAIN s /\ i <= Len(s)
      BY <1>1, <1>3, <2>1
    <3> QED
      BY <1>2, <1>3, <2>1, <3>1
  <2>2. CASE ~(j <= Len(s)) /\ i <= Len(s)
    <3>1. i \in DOMAIN s /\ j - Len(s) \in DOMAIN t
      BY <1>1, <1>3, <2>2
    <3>2. s[i] <= b /\ t[j - Len(s)] > b /\ s[i] \in Nat /\ t[j - Len(s)] \in Nat
      BY <1>1, <3>1
    <3> QED
      BY <1>2, <2>2, <3>2, SMTT(30)
  <2>3. CASE ~(i <= Len(s))
    <3>1. i - Len(s) \in DOMAIN t /\ j - Len(s) \in DOMAIN t /\ ~(j <= Len(s)) /\ i - Len(s) < j - Len(s)
      BY <1>1, <1>3, <2>3, SMTT(30)
    <3> QED
      BY <1>2, <2>3, <3>1
  <2> QED
    BY <2>1, <2>2, <2>3
<1> QED
  BY <1>3

\* What pump reads of the kernel goes to one place each, and what waits to be
\* written is left alone.
LEMMA PumpedKeeps ==
  ASSUME NEW d \in Device, NEW in, NEW mesh, NEW kern \in Nat, Placed(d, in, mesh, kern),
         NEW i \in 0 .. Len(d.kernel), NEW failed \in BOOLEAN,
         failed => i > 0 /\ Wants(d.kernel[i])
  PROVE  /\ Pumped(d, i, failed) \in Device
         /\ Placed(Pumped(d, i, failed), in, mesh, kern)
<1> DEFINE kernel == d.kernel
           n == Len(kernel)
           read == kern - n
           last == IF failed THEN i - 1 ELSE i
           W == Wanted(kernel, last)
           took == Pick(kernel, W)
           ids == [k \in DOMAIN took |-> took[k].id]
           rest == SubSeq(kernel, i + 1, n)
           sent == d.sent \o ids
           lost == IF failed THEN d.lost \cup {kernel[i].id} ELSE d.lost
           skipped == d.skipped \cup {kernel[k].id : k \in (1 .. i) \ Wanted(kernel, i)}
<1>1. Pumped(d, i, failed) = [d EXCEPT !.kernel = rest, !.sent = sent, !.lost = lost, !.skipped = skipped]
  BY DEF Pumped
<1>2. /\ kernel \in Seq(Packets(Nat)) /\ d.sent \in Seq(Nat) /\ d.wrote \in Seq(Nat) /\ d.out \in Seq(Nat)
      /\ d.lost \subseteq Nat /\ d.skipped \subseteq Nat
  BY DEF Device
<1>3. /\ n \in Nat /\ DOMAIN kernel = 1 .. n /\ i \in Nat /\ i <= n
      /\ last \in Nat /\ last <= i
  BY <1>2
<1>4. /\ d.wrote \o d.out \o in = [x \in 1 .. mesh |-> x]
      /\ read \in Nat
      /\ \A k \in DOMAIN kernel : kernel[k].id = read + k
      /\ \A x, y \in DOMAIN d.sent : x < y => d.sent[x] < d.sent[y]
      /\ ToSet(d.sent) \cup d.lost \cup d.skipped = 1 .. read
      /\ ToSet(d.sent) \cap d.lost = {}
      /\ ToSet(d.sent) \cap d.skipped = {}
      /\ d.lost \cap d.skipped = {}
  BY DEF Placed
<1>5. /\ W \subseteq 1 .. last /\ W \subseteq DOMAIN kernel
      /\ Wanted(kernel, i) = IF failed THEN W \cup {i} ELSE W
      /\ Wanted(kernel, i) \subseteq 1 .. i
  <2>1. W \subseteq 1 .. last /\ W \subseteq DOMAIN kernel /\ Wanted(kernel, i) \subseteq 1 .. i
    BY <1>3 DEF Wanted
  <2>2. CASE failed
    <3>1. last = i - 1 /\ i \in 1 .. i /\ \A k \in 1 .. i : k \in 1 .. (i - 1) \/ k = i
      BY <1>3, <2>2
    <3>2. 1 .. (i - 1) \subseteq 1 .. i
      BY <1>3
    <3>3. Wants(kernel[i])
      BY <2>2
    <3>4. Wanted(kernel, i) = W \cup {i}
      BY <3>1, <3>2, <3>3 DEF Wanted
    <3> QED
      BY <2>1, <2>2, <3>4
  <2> QED
    BY <2>1, <2>2
<1>6. /\ rest \in Seq(Packets(Nat)) /\ Len(rest) = n - i
      /\ DOMAIN rest = 1 .. (n - i)
      /\ \A k \in 1 .. (n - i) : rest[k] = kernel[i + k]
  BY <1>2, <1>3
<1>7. /\ ids \in Seq(Nat)
      /\ ToSet(ids) = {read + k : k \in W}
      /\ \A x, y \in DOMAIN ids : x < y => ids[x] < ids[y]
  <2> HIDE DEF kernel, read, W
  <2> QED
    BY <1>2, <1>4, <1>5, IdsOf
<1>8. /\ lost = IF failed THEN d.lost \cup {read + i} ELSE d.lost
      /\ skipped = d.skipped \cup {read + k : k \in (1 .. i) \ Wanted(kernel, i)}
  <2>1. \A k \in 1 .. i : k \in DOMAIN kernel
    BY <1>3
  <2>2. failed => i \in 1 .. i
    BY <1>3
  <2> HIDE DEF kernel, read
  <2>3. \A k \in 1 .. i : kernel[k].id = read + k
    BY <1>4, <2>1
  <2>4. failed => kernel[i].id = read + i
    BY <2>2, <2>3
  <2>5. {kernel[k].id : k \in (1 .. i) \ Wanted(kernel, i)} = {read + k : k \in (1 .. i) \ Wanted(kernel, i)}
    BY <2>3
  <2> QED
    BY <2>4, <2>5
<1> HIDE DEF ids, rest, took
<1>9. /\ sent \in Seq(Nat)
      /\ ToSet(sent) = ToSet(d.sent) \cup {read + k : k \in W}
  <2> HIDE DEF read, W
  <2> QED
    BY <1>2, <1>7, ConcatOf
<1>10. \A x, y \in DOMAIN sent : x < y => sent[x] < sent[y]
  <2>1. \A x \in DOMAIN d.sent : d.sent[x] <= read
    <3>1. \A x \in DOMAIN d.sent : d.sent[x] \in ToSet(d.sent)
      BY DEF ToSet
    <3> HIDE DEF read
    <3> QED
      BY <1>4, <3>1
  <2>2. \A x \in DOMAIN ids : ids[x] > read
    <3>1. \A x \in DOMAIN ids : ids[x] \in ToSet(ids)
      BY DEF ToSet
    <3> HIDE DEF read, W
    <3>2. \A x \in DOMAIN ids : \E k \in W : ids[x] = read + k
      BY <1>7, <3>1
    <3>3. \A k \in W : k \in Nat /\ k > 0
      BY <1>3, <1>5
    <3> QED
      BY <1>4, <3>2, <3>3
  <2> HIDE DEF read
  <2> QED
    BY <1>2, <1>4, <1>7, <2>1, <2>2, RisingConcat
<1> DEFINE w == Wanted(kernel, i)
<1> HIDE DEF sent, lost, skipped, W, w, last, read
<1>11. /\ ToSet(sent) \cup lost \cup skipped = 1 .. (read + i)
       /\ ToSet(sent) \cap lost = {}
       /\ ToSet(sent) \cap skipped = {}
       /\ lost \cap skipped = {}
  <2>1. /\ w = IF failed THEN W \cup {i} ELSE W
        /\ W \subseteq 1 .. i /\ w \subseteq 1 .. i
        /\ failed => i \in 1 .. i /\ i \notin W
    BY <1>3, <1>5 DEF w, last
  <2>2. \A x : x \in ToSet(sent) <=> (x \in ToSet(d.sent) \/ \E k \in W : x = read + k)
    BY <1>9
  <2>3. \A x : x \in lost <=> (x \in d.lost \/ (failed /\ x = read + i))
    BY <1>8
  <2>4. \A x : x \in skipped <=> (x \in d.skipped \/ \E k \in 1 .. i : k \notin w /\ x = read + k)
    BY <1>8 DEF w
  <2>5. \A x : (x \in ToSet(d.sent) \/ x \in d.lost \/ x \in d.skipped) <=> x \in 1 .. read
    BY <1>4
  <2>6. \A k, m \in 1 .. i : /\ read + k \notin 1 .. read
                             /\ read + k = read + m => k = m
                             /\ read + k \in 1 .. (read + i)
    BY <1>3, <1>4
  <2>7. \A x \in 1 .. (read + i) : x \in 1 .. read \/ \E k \in 1 .. i : x = read + k
    <3> TAKE x \in 1 .. (read + i)
    <3>1. CASE x > read
      <4>1. x - read \in 1 .. i /\ x = read + (x - read)
        BY <1>3, <1>4, <3>1
      <4> QED
        BY <4>1
    <3>2. CASE ~(x > read)
      BY <1>3, <1>4, <3>2
    <3> QED
      BY <3>1, <3>2
  <2>8. 1 .. read \subseteq 1 .. (read + i)
    BY <1>3, <1>4
  <2>9. \A x : ~(x \in ToSet(d.sent) /\ x \in d.lost) /\ ~(x \in ToSet(d.sent) /\ x \in d.skipped) /\ ~(x \in d.lost /\ x \in d.skipped)
    BY <1>4
  <2>10. ASSUME NEW x, x \in ToSet(sent) \/ x \in lost \/ x \in skipped
         PROVE  x \in 1 .. (read + i)
    BY <2>1, <2>2, <2>3, <2>4, <2>5, <2>6, <2>8, <2>10
  <2>11. ASSUME NEW x \in 1 .. (read + i)
         PROVE  x \in ToSet(sent) \/ x \in lost \/ x \in skipped
    BY <2>1, <2>2, <2>3, <2>4, <2>5, <2>7
  <2>12. ASSUME NEW x
         PROVE  ~(x \in ToSet(sent) /\ x \in lost)
    BY <2>1, <2>2, <2>3, <2>5, <2>6, <2>9
  <2>13. ASSUME NEW x
         PROVE  ~(x \in ToSet(sent) /\ x \in skipped)
    BY <2>1, <2>2, <2>4, <2>5, <2>6, <2>9
  <2>14. ASSUME NEW x
         PROVE  ~(x \in lost /\ x \in skipped)
    BY <2>1, <2>3, <2>4, <2>5, <2>6, <2>9
  <2> QED
    BY <2>10, <2>11, <2>12, <2>13, <2>14
<1>12. lost \subseteq Nat /\ skipped \subseteq Nat
  BY <1>3, <1>4, <1>11
<1> DEFINE new == [d EXCEPT !.kernel = rest, !.sent = sent, !.lost = lost, !.skipped = skipped]
<1>13. /\ new \in Device /\ new.kernel = rest /\ new.sent = sent /\ new.lost = lost /\ new.skipped = skipped
       /\ new.wrote = d.wrote /\ new.out = d.out
  BY <1>6, <1>9, <1>12 DEF Device
<1> HIDE DEF new
<1>14. kern - Len(rest) = read + i /\ read + i \in Nat
  BY <1>3, <1>4, <1>6 DEF read
<1>15. \A k \in DOMAIN rest : rest[k].id = read + i + k
  <2> TAKE k \in DOMAIN rest
  <2>1. i + k \in DOMAIN kernel /\ k \in Nat /\ rest[k] = kernel[i + k]
    BY <1>3, <1>6
  <2>2. kernel[i + k].id = read + (i + k)
    BY <1>4, <2>1
  <2> QED
    BY <1>3, <1>4, <2>1, <2>2
<1>16. Placed(new, in, mesh, kern)
  BY <1>4, <1>10, <1>11, <1>13, <1>14, <1>15 DEF Placed
<1> QED
  BY <1>1, <1>13, <1>16 DEF new

\* flush writes all that waits.
LEMMA FlushKeeps ==
  ASSUME NEW d \in Device, NEW mesh, NEW kern \in Nat, Placed(d, <<>>, mesh, kern)
  PROVE  /\ Flushed(d, Len(d.out)) \in Device
         /\ Placed(Flushed(d, Len(d.out)), <<>>, mesh, kern)
<1> DEFINE wrote == d.wrote \o SubSeq(d.out, 1, Len(d.out))
           out == SubSeq(d.out, Len(d.out) + 1, Len(d.out))
           new == [d EXCEPT !.wrote = wrote, !.out = out]
<1>1. Flushed(d, Len(d.out)) = new
  BY DEF Flushed
<1>2. d.wrote \in Seq(Nat) /\ d.out \in Seq(Nat)
  BY DEF Device
<1>3. SubSeq(d.out, 1, Len(d.out)) = d.out /\ out = <<>>
  BY <1>2
<1>4. wrote = d.wrote \o d.out /\ wrote \in Seq(Nat) /\ out \in Seq(Nat)
  <2>1. wrote = d.wrote \o d.out
    BY <1>3
  <2>2. d.wrote \o d.out \in Seq(Nat) /\ <<>> \in Seq(Nat)
    BY <1>2
  <2> QED
    BY <1>3, <2>1, <2>2
<1>5. wrote \o out \o <<>> = d.wrote \o d.out \o <<>>
  <2> HIDE DEF wrote, out
  <2>1. wrote \o <<>> = wrote
    BY <1>4, ConcatLaws
  <2> QED
    BY <1>3, <1>4, <2>1
<1> HIDE DEF wrote, out
<1>6. /\ new \in Device /\ new.wrote = wrote /\ new.out = out
      /\ new.kernel = d.kernel /\ new.sent = d.sent /\ new.lost = d.lost /\ new.skipped = d.skipped
  BY <1>4 DEF Device
<1> HIDE DEF new
<1>7. Placed(new, <<>>, mesh, kern)
  BY <1>5, <1>6 DEF Placed
<1> QED
  BY <1>1, <1>6, <1>7

\* deliver puts the inbox behind what waits.
LEMMA DeliverKeeps ==
  ASSUME NEW d \in Device, NEW in \in Seq(Nat), NEW mesh, NEW kern \in Nat, Placed(d, in, mesh, kern)
  PROVE  /\ Deliver(d, in) \in Device
         /\ Deliver(d, in).kernel = d.kernel
         /\ Placed(Deliver(d, in), <<>>, mesh, kern)
<1> DEFINE out == d.out \o in
           new == [d EXCEPT !.out = out]
<1>1. Deliver(d, in) = new
  BY DEF Deliver
<1>2. d.wrote \in Seq(Nat) /\ d.out \in Seq(Nat)
  BY DEF Device
<1>3. out \in Seq(Nat)
  BY <1>2
<1>4. d.wrote \o out \o <<>> = d.wrote \o d.out \o in
  <2>1. d.wrote \o out \in Seq(Nat)
    BY <1>2, <1>3
  <2>2. d.wrote \o out \o <<>> = d.wrote \o out
    <3> HIDE DEF out
    <3> QED
      BY <2>1, ConcatLaws
  <2>3. d.wrote \o out = d.wrote \o d.out \o in
    BY <1>2, ConcatLaws
  <2> QED
    BY <2>2, <2>3
<1> HIDE DEF out
<1>5. /\ new \in Device /\ new.out = out /\ new.wrote = d.wrote
      /\ new.kernel = d.kernel /\ new.sent = d.sent /\ new.lost = d.lost /\ new.skipped = d.skipped
  BY <1>3 DEF Device
<1> HIDE DEF new
<1>6. Placed(new, <<>>, mesh, kern)
  BY <1>4, <1>5 DEF Placed
<1> QED
  BY <1>1, <1>5, <1>6

\* pump_tun keeps what it does not lose with the device.
LEMMA PumpKeeps ==
  ASSUME PacketTypes, PacketsPlaced, PumpTun
  PROVE  /\ tun' # None => tun' \in Device /\ Placed(tun', inbox', spent.mesh, spent.kernel)
         /\ inbox' \in Seq(Nat)
<1>1. CASE tun = None
  BY <1>1 DEF PumpTun, PacketTypes
<1>2. CASE tun # None
  <2> DEFINE d == Deliver(tun, inbox)
             mesh == spent.mesh
             kern == spent.kernel
  <2>1. tun \in Device /\ inbox \in Seq(Nat) /\ kern \in Nat /\ Placed(tun, inbox, mesh, kern)
    BY <1>2 DEF PacketTypes, PacketsPlaced, Spending
  <2> HIDE DEF mesh, kern
  <2>2. d \in Device /\ Placed(d, <<>>, mesh, kern)
    BY <2>1, DeliverKeeps
  <2>3. inbox' = <<>> /\ inbox' \in Seq(Nat)
    BY <1>2 DEF PumpTun
  <2>4. PICK p \in Pumps(d) : tun' = None \/ tun' = Flushed(p.dev, Len(p.dev.out))
    BY <1>2 DEF PumpTun
  <2> HIDE DEF d
  <2>5. d.kernel \in Seq(Packets(Nat))
    BY <2>2 DEF Device
  <2>6. \E i \in 0 .. Len(d.kernel), failed \in BOOLEAN :
          /\ p.dev = Pumped(d, i, failed)
          /\ failed => i > 0 /\ Wants(d.kernel[i])
    <3>1. Max(Reads(d.kernel)) \in 0 .. Len(d.kernel) /\ 0 \in 0 .. Len(d.kernel)
      BY <2>5, MaxRead
    <3>2. Reads(d.kernel) \subseteq 0 .. Len(d.kernel)
      BY DEF Reads
    <3>3. \/ \E i \in {0, Max(Reads(d.kernel))} : p.dev = Pumped(d, i, FALSE)
          \/ \E i \in Reads(d.kernel) : p.dev = Pumped(d, i, TRUE) /\ i > 0 /\ Wants(d.kernel[i])
      <4> DEFINE ends == {y \in Reads(d.kernel) \X (env \cap {"write", "tunfails"}) :
                            set # {} /\ y[1] > 0 /\ Wants(d.kernel[y[1]])}
      <4>1. CASE \E i \in IF set = {} THEN {0} ELSE {Max(Reads(d.kernel))} :
                   p = [dev |-> Pumped(d, i, FALSE), err |-> "none"]
        <5> DEFINE m == Max(Reads(d.kernel))
        <5> HIDE DEF m
        <5>1. PICK i \in IF set = {} THEN {0} ELSE {m} : p = [dev |-> Pumped(d, i, FALSE), err |-> "none"]
          BY <4>1 DEF m
        <5>2. i \in {0, m} /\ p.dev = Pumped(d, i, FALSE)
          BY <5>1
        <5> QED
          BY <5>2 DEF m
      <4>2. CASE \E x \in ends : p = [dev |-> Pumped(d, x[1], TRUE), err |-> x[2]]
        <5>1. PICK x \in ends : p = [dev |-> Pumped(d, x[1], TRUE), err |-> x[2]]
          BY <4>2
        <5>2. x[1] \in Reads(d.kernel) /\ x[1] > 0 /\ Wants(d.kernel[x[1]])
          OBVIOUS
        <5> QED
          BY <5>1, <5>2
      <4> QED
        BY <4>1, <4>2 DEF Pumps
    <3> QED
      BY <3>1, <3>2, <3>3
  <2>7. PICK i \in 0 .. Len(d.kernel), failed \in BOOLEAN :
          /\ p.dev = Pumped(d, i, failed)
          /\ failed => i > 0 /\ Wants(d.kernel[i])
    BY <2>6
  <2>8. p.dev \in Device /\ Placed(p.dev, <<>>, mesh, kern)
    BY <2>1, <2>2, <2>7, PumpedKeeps
  <2>9. Flushed(p.dev, Len(p.dev.out)) \in Device /\ Placed(Flushed(p.dev, Len(p.dev.out)), <<>>, mesh, kern)
    BY <2>1, <2>8, FlushKeeps
  <2> QED
    BY <2>3, <2>4, <2>9 DEF mesh, kern
<1> QED
  BY <1>1, <1>2

\* A packet of the mesh comes in.
LEMMA ArrivalKeeps ==
  ASSUME PacketTypes, PacketsPlaced, PacketArrives
  PROVE  PacketTypes' /\ PacketsPlaced'
<1>1. /\ spent' = [spent EXCEPT !.mesh = @ + 1]
      /\ inbox' = Append(inbox, spent.mesh + 1)
      /\ tun' = tun
  BY DEF PacketArrives
<1>2. spent \in Spending /\ inbox \in Seq(Nat) /\ (tun # None => tun \in Device)
  BY DEF PacketTypes
<1>3. spent.mesh \in Nat /\ spent' \in Spending /\ spent'.mesh = spent.mesh + 1 /\ spent'.kernel = spent.kernel
  <2>1. spent.mesh \in Nat /\ spent.mesh + 1 \in Nat
    BY <1>2 DEF Spending
  <2>2. spent' = [spent EXCEPT !.mesh = spent.mesh + 1]
    BY <1>1
  <2> QED
    BY <1>2, <2>1, <2>2 DEF Spending
<1>4. PacketTypes'
  BY <1>1, <1>2, <1>3 DEF PacketTypes
<1>5. ASSUME tun # None
      PROVE  Placed(tun, inbox', spent'.mesh, spent'.kernel)
  <2> DEFINE s == tun.wrote \o tun.out
             m == spent.mesh
  <2>1. s \in Seq(Nat)
    BY <1>2, <1>5 DEF Device
  <2>2. Placed(tun, inbox, m, spent.kernel)
    BY <1>5 DEF PacketsPlaced
  <2>3. s \o inbox = [i \in 1 .. m |-> i]
    BY <2>2 DEF Placed
  <2> HIDE DEF s, m
  <2>4. m \in Nat
    BY <1>3 DEF m
  <2>5. s \o Append(inbox, m + 1) = Append(s \o inbox, m + 1)
    <3> DEFINE a == s \o Append(inbox, m + 1)
               b == Append(s \o inbox, m + 1)
    <3>1. a \in Seq(Nat) /\ b \in Seq(Nat) /\ Len(a) = Len(b)
      BY <1>2, <2>1, <2>4
    <3>2. ASSUME NEW i \in 1 .. Len(a)
          PROVE  a[i] = b[i]
      BY <1>2, <2>1, <2>4
    <3> QED
      BY <3>1, <3>2
  <2>6. Append([i \in 1 .. m |-> i], m + 1) = [i \in 1 .. (m + 1) |-> i]
    <3> DEFINE a == Append([i \in 1 .. m |-> i], m + 1)
               b == [i \in 1 .. (m + 1) |-> i]
    <3>1. [i \in 1 .. m |-> i] \in Seq(Nat) /\ Len([i \in 1 .. m |-> i]) = m
      BY <2>4
    <3>2. a \in Seq(Nat) /\ b \in Seq(Nat) /\ Len(a) = m + 1 /\ Len(b) = m + 1
      BY <2>4, <3>1
    <3>3. ASSUME NEW i \in 1 .. (m + 1)
          PROVE  a[i] = b[i]
      BY <2>4, <3>1
    <3>4. ASSUME NEW x \in Seq(Nat), NEW y \in Seq(Nat), Len(x) = Len(y), \A i \in 1 .. Len(x) : x[i] = y[i]
          PROVE  x = y
      BY <3>4, SMTT(30)
    <3> HIDE DEF a, b
    <3>5. a = b
      BY <3>2, <3>3, <3>4
    <3> QED
      BY <3>5 DEF a, b
  <2>7. s \o Append(inbox, m + 1) = [i \in 1 .. (m + 1) |-> i]
    BY <2>3, <2>5, <2>6
  <2> QED
    BY <1>1, <1>3, <2>2, <2>7 DEF Placed, s, m
<1> QED
  BY <1>1, <1>4, <1>5 DEF PacketsPlaced

\* A packet of the kernel comes in.
LEMMA KernelKeeps ==
  ASSUME PacketTypes, PacketsPlaced, KernelSends
  PROVE  PacketTypes' /\ PacketsPlaced'
<1>1. PICK flow \in Flows :
        tun' = [tun EXCEPT !.kernel = Append(@, [id |-> spent.kernel + 1, src |-> flow[1], dst |-> flow[2]])]
  BY DEF KernelSends
<1>2. tun # None /\ inbox' = inbox /\ spent' = [spent EXCEPT !["kernel"] = @ + 1]
  BY DEF KernelSends, Spend
<1>3. spent \in Spending /\ inbox \in Seq(Nat) /\ tun \in Device
  BY <1>2 DEF PacketTypes
<1>4. spent.kernel \in Nat /\ spent' \in Spending /\ spent'.mesh = spent.mesh /\ spent'.kernel = spent.kernel + 1
  BY <1>2, <1>3 DEF Spending
<1> DEFINE p == [id |-> spent.kernel + 1, src |-> flow[1], dst |-> flow[2]]
           kernel == Append(tun.kernel, p)
<1>5. p \in Packets(Nat) /\ p.id = spent.kernel + 1
  <2>1. flow \in Place \X Place
    BY ClientAssumption
  <2> QED
    BY <1>4, <2>1 DEF Packets
<1> HIDE DEF p
<1>6. tun.kernel \in Seq(Packets(Nat))
  BY <1>3 DEF Device
<1>7. /\ kernel \in Seq(Packets(Nat)) /\ Len(kernel) = Len(tun.kernel) + 1 /\ Len(tun.kernel) \in Nat
      /\ DOMAIN kernel = DOMAIN tun.kernel \cup {Len(tun.kernel) + 1}
      /\ \A i \in DOMAIN tun.kernel : kernel[i] = tun.kernel[i]
      /\ kernel[Len(tun.kernel) + 1] = p
  BY <1>5, <1>6, AppendOf
<1>8. tun' = [tun EXCEPT !.kernel = kernel]
  BY <1>1 DEF p
<1> HIDE DEF kernel
<1>9. /\ tun' \in Device /\ tun'.kernel = kernel
      /\ tun'.out = tun.out /\ tun'.wrote = tun.wrote
      /\ tun'.sent = tun.sent /\ tun'.lost = tun.lost /\ tun'.skipped = tun.skipped
  BY <1>3, <1>7, <1>8 DEF Device
<1>10. Placed(tun, inbox, spent.mesh, spent.kernel)
  BY <1>2 DEF PacketsPlaced
<1> DEFINE read == spent.kernel - Len(tun.kernel)
<1>11. spent'.kernel - Len(kernel) = read
  <2>1. spent.kernel + 1 - (Len(tun.kernel) + 1) = spent.kernel - Len(tun.kernel)
    BY <1>4, <1>7
  <2> QED
    BY <1>4, <1>7, <2>1
<1>12. \A k \in DOMAIN kernel : kernel[k].id = read + k
  <2>1. \A k \in DOMAIN tun.kernel : tun.kernel[k].id = read + k
    BY <1>10 DEF Placed
  <2>2. read + (Len(tun.kernel) + 1) = spent.kernel + 1
    BY <1>4, <1>7
  <2> HIDE DEF read
  <2> QED
    BY <1>5, <1>7, <2>1, <2>2
<1>13. Placed(tun', inbox', spent'.mesh, spent'.kernel)
  BY <1>2, <1>4, <1>9, <1>10, <1>11, <1>12 DEF Placed
<1> QED
  BY <1>2, <1>3, <1>4, <1>9, <1>13 DEF PacketTypes, PacketsPlaced

\* The actions that touch neither device nor inbox.
LEMMA PacketFrame ==
  ASSUME PacketTypes, PacketsPlaced, UNCHANGED <<tun, inbox>>,
         spent' = spent \/ \E what \in {"submits", "backoffs", "asks"} : Spend(what)
  PROVE  PacketTypes' /\ PacketsPlaced'
<1>1. spent' \in Spending /\ spent'.mesh = spent.mesh /\ spent'.kernel = spent.kernel
  <2>1. spent \in Spending
    BY DEF PacketTypes
  <2>2. CASE spent' = spent
    BY <2>1, <2>2
  <2>3. CASE Spend("submits")
    BY <2>1, <2>3 DEF Spending, Spend
  <2>4. CASE Spend("backoffs")
    BY <2>1, <2>4 DEF Spending, Spend
  <2>5. CASE Spend("asks")
    BY <2>1, <2>5 DEF Spending, Spend
  <2> QED
    BY <2>2, <2>3, <2>4, <2>5
<1> QED
  BY <1>1 DEF PacketTypes, PacketsPlaced

LEMMA PacketsStep ==
  ASSUME PacketTypes, PacketsPlaced, [Next]_vars
  PROVE  PacketTypes' /\ PacketsPlaced'
<1>1. CASE Turn
  <2>1. PumpTun /\ spent' = spent
    BY <1>1 DEF Turn
  <2>2. /\ tun' # None => tun' \in Device /\ Placed(tun', inbox', spent.mesh, spent.kernel)
        /\ inbox' \in Seq(Nat)
    BY <2>1, PumpKeeps
  <2> QED
    BY <2>1, <2>2 DEF PacketTypes, PacketsPlaced
<1>2. CASE PacketArrives
  BY <1>2, ArrivalKeeps
<1>3. CASE KernelSends
  BY <1>3, KernelKeeps
<1>4. CASE OnCmd \/ CmdsDrained \/ OnDial \/ Plan \/ AnswerArrives \/ SubmitSend \/ SubmitQuit \/ Listen \/ Tick \/ UNCHANGED vars
  BY <1>4, PacketFrame DEF OnCmd, CmdsDrained, OnDial, Plan, AnswerArrives, SubmitSend, SubmitQuit, Listen, Tick, vars, node
<1>5. CASE \E id \in Ids : ReadTimesOut(id) \/ Evict(id) \/ Retire(id) \/ SocketMoves(id)
  BY <1>5, PacketFrame DEF ReadTimesOut, Evict, Retire, SocketMoves, node
<1>6. CASE \/ \E u \in Info : SubmitDial(u) \/ BackoffEnds(u)
           \/ \E t \in tasks : DialEnds(t)
           \/ \E c \in Conn : Ask(c) \/ HandleOne(c)
  BY <1>6, PacketFrame DEF SubmitDial, BackoffEnds, DialEnds, Ask, HandleOne, node
<1> QED
  BY <1>1, <1>2, <1>3, <1>4, <1>5, <1>6 DEF Next, Loop, Serve, Others

-----------------------------------------------------------------------------
(* The theorems *)

LEMMA InitIInv ==
  ASSUME Init
  PROVE  IInv
<1>1. LinkTypes
  BY DEF Init, LinkTypes, EmptyTable, Table, Ids
<1>2. QueueTypes
  <2>1. cmds = <<>> /\ events = <<>> /\ tasks = {} /\ pc = "cmds" /\ quit = FALSE
    BY DEF Init
  <2>2. quit \in BOOLEAN
    BY <2>1
  <2>3. <<>> \in Seq(Cmd) /\ <<>> \in Seq(LinkEvent)
    OBVIOUS
  <2> QED
    BY <2>1, <2>2, <2>3 DEF QueueTypes
<1>3. AskTypes
  BY DEF Init, AskTypes, AdminConn
<1>4. PacketTypes /\ PacketsPlaced
  <2>1. inbox = <<>> /\ spent = [submits |-> 0, backoffs |-> 0, asks |-> 0, mesh |-> 0, kernel |-> 0]
    BY DEF Init
  <2>2. spent \in Spending /\ spent.mesh = 0 /\ spent.kernel = 0 /\ inbox \in Seq(Nat)
    BY <2>1 DEF Spending
  <2>3. NewDevice \in Device /\ Placed(NewDevice, <<>>, 0, 0)
    <3>1. NewDevice \in Device
      BY DEF NewDevice, Device
    <3>2. <<>> \o <<>> \o <<>> = [i \in 1 .. 0 |-> i]
      OBVIOUS
    <3>3. ToSet(<<>>) = {} /\ 1 .. 0 = {}
      BY DEF ToSet
    <3> QED
      BY <3>1, <3>2, <3>3 DEF NewDevice, Placed
  <2>4. tun # None => tun = NewDevice
    BY DEF Init
  <2> QED
    BY <2>1, <2>2, <2>3, <2>4 DEF PacketTypes, PacketsPlaced
<1>5. TokensKept /\ RowsWait /\ LinksKept
  BY DEF Init, TokensKept, RowsWait, LinksKept, Rows, EmptyTable
<1>6. Outstanding /\ ServedAreKnown
  BY DEF Init, Outstanding, OneWaits, ServedAreKnown
<1>7. AnswersKept /\ SentAreOld
  BY DEF Init, AnswersKept, AnsweredOnce, SentAreOld, Sent
<1> QED
  BY <1>1, <1>2, <1>3, <1>4, <1>5, <1>6, <1>7 DEF IInv

LEMMA NextIInv ==
  ASSUME IInv, [Next]_vars
  PROVE  IInv'
<1>1. /\ LinkTypes /\ QueueTypes /\ AskTypes /\ PacketTypes
      /\ TokensKept /\ RowsWait /\ LinksKept
      /\ Outstanding /\ AnswersKept /\ SentAreOld
      /\ ServedAreKnown /\ PacketsPlaced
  BY DEF IInv
<1>2. LinkTypes' /\ QueueTypes' /\ AskTypes'
  BY <1>1, LinkTypesStep, QueueTypesStep, AskTypesStep
<1>3. TokensKept' /\ RowsWait' /\ LinksKept' /\ ServedAreKnown'
  BY <1>1, TokensStep, RowsStep, LinksStep, ServedStep
<1>4. Outstanding' /\ AnswersKept' /\ SentAreOld'
  BY <1>1, OutstandingStep, AnswersStep, SentStep
<1>5. PacketTypes' /\ PacketsPlaced'
  BY <1>1, PacketsStep
<1> QED
  BY <1>2, <1>3, <1>4, <1>5 DEF IInv

\* The inductive invariant holds of the node task, the dial tasks, the
\* listeners and the admin connections of node.rs, listen.rs and admin.rs, in
\* whatever order they run.
THEOREM ClientInvariance == Spec => []IInv
<1>1. Init => IInv
  BY InitIInv
<1>2. IInv /\ [Next]_vars => IInv'
  BY NextIInv
<1> QED
  BY <1>1, <1>2, PTL DEF Spec

\* The state of the client keeps its types: among them, that every id in the
\* link set and in the router's tree.links is one of a link that came up.
THEOREM ClientTypes == Spec => []TypeOK
<1>1. IInv => TypeOK
  <2> SUFFICES ASSUME IInv
               PROVE  TypeOK
    OBVIOUS
  <2>1. LinkTypes /\ QueueTypes /\ AskTypes /\ PacketTypes
    BY DEF IInv
  <2>2. tun # None => ToSet(tun.kernel) \subseteq Packets(Nat)
    <3> SUFFICES ASSUME tun # None
                 PROVE  ToSet(tun.kernel) \subseteq Packets(Nat)
      OBVIOUS
    <3>1. tun.kernel \in Seq(Packets(Nat))
      BY <2>1 DEF PacketTypes, Device
    <3>2. \A i \in DOMAIN tun.kernel : tun.kernel[i] \in Packets(Nat)
      BY <3>1
    <3> QED
      BY <3>2 DEF ToSet
  <2> QED
    BY <2>1, <2>2 DEF TypeOK, LinkTypes, QueueTypes, AskTypes, PacketTypes, SockState
<1> QED
  BY <1>1, ClientInvariance, PTL

\* A row that waits for a dial (links.rs start_due) has exactly one report of
\* it coming, from a task that runs or in the queue of results.
THEOREM DialsAreRun == Spec => []DialsRun
<1>1. IInv => DialsRun
  <2> SUFFICES ASSUME IInv, NEW u \in Rows(table), table[u].dialing # None
               PROVE  Cardinality(Reports(table[u].dialing)) = 1
    BY DEF DialsRun
  <2> DEFINE token == table[u].dialing
  <2>1. TokensKept /\ Reported(tasks, events, token)
    BY DEF IInv, RowsWait
  <2> HIDE DEF token
  <2>2. \E x : Reports(token) = {x}
    <3>1. CASE \E t \in tasks : t.token = token
      <4>1. PICK t \in tasks : t.token = token
        BY <3>1
      <4>2. Reports(token) = {t}
        BY <2>1, <4>1 DEF TokensKept, Reports
      <4> QED
        BY <4>2
    <3>2. CASE \E i \in DOMAIN events : events[i].token = token
      <4>1. PICK i \in DOMAIN events : events[i].token = token
        BY <3>2
      <4>2. Reports(token) = {i}
        BY <2>1, <4>1 DEF TokensKept, Reports
      <4> QED
        BY <4>2
    <3> QED
      BY <2>1, <3>1, <3>2 DEF Reported
  <2>3. Cardinality(Reports(token)) = 1
    BY <2>2, FS_Singleton
  <2> QED
    BY <2>3 DEF token
<1> QED
  BY <1>1, ClientInvariance, PTL

\* Every link in the set has a LinkState with the router, which bloom.rs
\* best_link indexes without asking.
THEOREM ServedKnown == Spec => []ServedAreKnown
<1>1. IInv => ServedAreKnown
  BY DEF IInv
<1> QED
  BY <1>1, ClientInvariance, PTL

\* settle_remote gives an answer of a remote node to one question only.
THEOREM AnswersOnce == Spec => []AnsweredOnce
<1>1. IInv => AnsweredOnce
  BY DEF IInv, AnswersKept
<1> QED
  BY <1>1, ClientInvariance, PTL

\* Every packet goes through pump_tun once and in order, in both directions.
THEOREM PacketsAreKept == Spec => []PacketsKept
<1>1. IInv => PacketsKept
  <2> SUFFICES ASSUME IInv, tun # None
               PROVE  /\ tun.wrote \o tun.out \o inbox = [i \in 1 .. spent.mesh |-> i]
                      /\ \A i, j \in DOMAIN tun.sent : i < j => tun.sent[i] < tun.sent[j]
                      /\ \A i \in 1 .. spent.kernel :
                           Cardinality({k \in DOMAIN tun.kernel : tun.kernel[k].id = i})
                             + Cardinality({S \in {tun.lost, tun.skipped, ToSet(tun.sent)} : i \in S}) = 1
    BY DEF PacketsKept
  <2> DEFINE read == spent.kernel - Len(tun.kernel)
             n == Len(tun.kernel)
  <2>1. Placed(tun, inbox, spent.mesh, spent.kernel)
    BY DEF IInv, PacketsPlaced
  <2>2. /\ tun.wrote \o tun.out \o inbox = [i \in 1 .. spent.mesh |-> i]
        /\ \A i, j \in DOMAIN tun.sent : i < j => tun.sent[i] < tun.sent[j]
    BY <2>1 DEF Placed
  <2>3. /\ read \in Nat
        /\ \A k \in DOMAIN tun.kernel : tun.kernel[k].id = read + k
        /\ ToSet(tun.sent) \cup tun.lost \cup tun.skipped = 1 .. read
        /\ ToSet(tun.sent) \cap tun.lost = {}
        /\ ToSet(tun.sent) \cap tun.skipped = {}
        /\ tun.lost \cap tun.skipped = {}
    BY <2>1 DEF Placed
  <2>4. spent.kernel \in Nat /\ n \in Nat /\ DOMAIN tun.kernel = 1 .. n /\ spent.kernel = read + n
    <3>1. PacketTypes
      BY DEF IInv
    <3>2. spent.kernel \in Nat /\ tun.kernel \in Seq(Packets(Nat))
      BY <3>1 DEF PacketTypes, Spending, Device
    <3> QED
      BY <3>2
  <2> HIDE DEF read, n
  <2>5. ASSUME NEW i \in 1 .. spent.kernel
        PROVE  Cardinality({k \in DOMAIN tun.kernel : tun.kernel[k].id = i})
                 + Cardinality({S \in {tun.lost, tun.skipped, ToSet(tun.sent)} : i \in S}) = 1
    <3> DEFINE K == {k \in DOMAIN tun.kernel : tun.kernel[k].id = i}
               P == {S \in {tun.lost, tun.skipped, ToSet(tun.sent)} : i \in S}
    <3>1. CASE i > read
      <4>1. i - read \in 1 .. n /\ i \notin 1 .. read
        BY <2>3, <2>4, <3>1
      <4>2. ASSUME NEW k \in 1 .. n
            PROVE  read + k = i <=> k = i - read
        BY <2>3, <2>4
      <4>3. K = {i - read}
        BY <2>3, <2>4, <4>1, <4>2
      <4>4. P = {}
        BY <2>3, <4>1
      <4> HIDE DEF K, P
      <4>5. Cardinality(K) = 1 /\ Cardinality(P) = 0
        BY <4>3, <4>4, FS_Singleton, FS_EmptySet
      <4> QED
        BY <4>5 DEF K, P
    <3>2. CASE ~(i > read)
      <4>1. i \in 1 .. read
        BY <2>3, <2>4, <3>2
      <4>2. ASSUME NEW k \in 1 .. n
            PROVE  read + k # i
        BY <2>3, <2>4, <3>2
      <4>3. K = {}
        BY <2>3, <2>4, <4>2
      <4>4. \E S : P = {S}
        BY <2>3, <4>1
      <4> HIDE DEF K, P
      <4>5. Cardinality(K) = 0 /\ Cardinality(P) = 1
        BY <4>3, <4>4, FS_Singleton, FS_EmptySet
      <4> QED
        BY <4>5 DEF K, P
    <3> QED
      BY <3>1, <3>2
  <2> QED
    BY <2>2, <2>5
<1> QED
  BY <1>1, ClientInvariance, PTL

\* The result of a dial whose row was removed meanwhile changes neither the
\* table nor the link set (node.rs on_dial, links.rs mark_live, mark_failed).
THEOREM StaleDialsDropped == Spec => StaleDialDropped
<1> DEFINE Drop == (events # <<>> /\ events' = Tail(events) /\ Head(events).token \in void)
                      => set' = set /\ table' = table
<1>1. IInv /\ [Next]_vars => [Drop]_vars
  <2> SUFFICES ASSUME IInv, Next, events # <<>>, events' = Tail(events), Head(events).token \in void
               PROVE  set' = set /\ table' = table
    OBVIOUS
  <2>1. /\ events \in Seq(LinkEvent) /\ table \in Table /\ void \subseteq Nat /\ RowsWait /\ sock \in Seq(SockState)
    BY DEF IInv, LinkTypes, QueueTypes
  <2>2. events' # events /\ \A e \in LinkEvent : events' # Append(events, e)
    <3>1. Len(Tail(events)) # Len(events) /\ Len(events) \in Nat /\ Len(Tail(events)) < Len(events)
      BY <2>1
    <3>2. \A e \in LinkEvent : Len(Append(events, e)) = Len(events) + 1
      BY <2>1
    <3> QED
      BY <3>1, <3>2
  <2>3. OnDial
    <3>1. ASSUME NEW t \in tasks, DialEnds(t)
          PROVE  FALSE
      <4>1. \E e : events' = Append(events, e)
        BY <3>1 DEF DialEnds
      <4>2. \A e : Len(Append(events, e)) = Len(events) + 1 /\ Len(events) \in Nat
        BY <2>1
      <4>3. Len(Tail(events)) < Len(events)
        BY <2>1
      <4> QED
        BY <4>1, <4>2, <4>3
    <3>2. \A id \in Ids : ~ReadTimesOut(id) /\ ~Evict(id) /\ ~Retire(id) /\ ~SocketMoves(id)
      BY <2>2 DEF ReadTimesOut, Evict, Retire, SocketMoves
    <3>3. \A u \in Info : ~SubmitDial(u) /\ ~BackoffEnds(u)
      BY <2>2 DEF SubmitDial, BackoffEnds
    <3>4. \A c \in Conn : ~Ask(c) /\ ~HandleOne(c)
      BY <2>2 DEF Ask, HandleOne
    <3>5. /\ ~OnCmd /\ ~CmdsDrained /\ ~Plan /\ ~Turn /\ ~AnswerArrives /\ ~PacketArrives
          /\ ~SubmitSend /\ ~SubmitQuit /\ ~Listen /\ ~KernelSends /\ ~Tick
      BY <2>2 DEF OnCmd, CmdsDrained, Plan, Turn, AnswerArrives, PacketArrives, SubmitSend, SubmitQuit, Listen, KernelSends, Tick
    <3> QED
      BY <3>1, <3>2, <3>3, <3>4, <3>5 DEF Next, Loop, Serve, Others
  <2> DEFINE ev == Head(events)
  <2>4. ev \in LinkEvent
    BY <2>1
  <2>5. ev.token \in Nat /\ (ev.id # None => ev.id \in Nat)
    BY <2>1, <2>4 DEF LinkEvent, Ids
  <2>6. \A u \in Info : ~Waits(table, u, ev.token)
    BY <2>1, <2>5, InfoAssumption DEF RowsWait, Waits, Rows
  <2>7. MarkFailed(table, ev.token) = table
    BY <2>1, <2>6 DEF MarkFailed, Table
  <2>8. \A id : MarkLive(table, ev.token, id) = table
    BY <2>1, <2>6 DEF MarkLive, Table
  <2> HIDE DEF ev
  <2>9. /\ table' \in {MarkFailed(table, ev.token), MarkLive(table, ev.token, ev.id)}
        /\ set' = set
    BY <2>3, <2>6 DEF OnDial, ev
  <2> QED
    BY <2>7, <2>8, <2>9
<1> QED
  BY <1>1, ClientInvariance, PTL DEF Spec, StaleDialDropped

-----------------------------------------------------------------------------
(* The promises of Peering *)

\* What Peering sees of a row.
Shown(r) ==
  IF r = None THEN None ELSE [kind |-> r.kind, link |-> r.live, trying |-> r.dialing # None]

\* What a step does to a row r, which it leaves as s.
Stays(r, s) == r # None /\ s # None /\ s.kind = r.kind /\ s.live = r.live /\ s.dialing = r.dialing
Appears(r, s) ==
  /\ r = None /\ s # None /\ s.dialing = None
  /\ \/ s.kind \in {"persistent", "ephemeral"} /\ s.live = None
     \/ s.kind = "incoming" /\ s.live \in Nat
IsTaken(r, s) ==
  /\ r # None /\ r.live = None
  /\ s # None /\ s.kind = r.kind /\ s.live \in Nat /\ s.dialing = r.dialing
IsTried(r, s) ==
  /\ r # None /\ r.kind # "incoming" /\ r.live = None /\ r.dialing = None
  /\ s # None /\ s.kind = r.kind /\ s.live = None /\ s.dialing # None
Succeeds(r, s) ==
  /\ r # None /\ r.dialing # None
  /\ s # None /\ s.kind = r.kind /\ s.live \in Nat /\ s.dialing = None
Fails(r, s) ==
  /\ r # None /\ r.dialing # None /\ r.kind # "ephemeral"
  /\ s # None /\ s.kind = r.kind /\ s.live = None /\ s.dialing = None
IsLost(r, s) ==
  /\ r # None /\ r.live # None /\ r.kind = "persistent"
  /\ s # None /\ s.kind = r.kind /\ s.live = None /\ s.dialing = r.dialing

Forgotten(r, s) ==
  /\ r # None /\ s = None
  /\ \/ r.dialing # None /\ r.kind = "ephemeral"
     \/ r.live # None /\ r.kind # "persistent"

RowStep(u, r, s) ==
  \/ s = r \/ (u \in Orders /\ s = None) \/ Forgotten(r, s)
  \/ Stays(r, s) \/ Appears(r, s) \/ IsTaken(r, s) \/ IsTried(r, s)
  \/ Succeeds(r, s) \/ Fails(r, s) \/ IsLost(r, s)

Peered(kind, link, trying) == [kind |-> kind, link |-> link, trying |-> trying]

LEMMA ShownFields ==
  ASSUME NEW r \in Row
  PROVE  /\ Shown(r) \in [kind : Kind, link : Nat \cup {None}, trying : BOOLEAN]
         /\ Shown(r) # None
         /\ r.dialing # None => Shown(r) = Peered(r.kind, r.live, TRUE)
         /\ r.dialing = None => Shown(r) = Peered(r.kind, r.live, FALSE)
<1>1. r # None
  BY InfoAssumption
<1>2. r.dialing # None => Shown(r) = Peered(r.kind, r.live, TRUE)
  <2> SUFFICES ASSUME r.dialing # None
               PROVE  Shown(r) = Peered(r.kind, r.live, TRUE)
    OBVIOUS
  <2>1. (r.dialing # None) = TRUE
    OBVIOUS
  <2> QED
    BY <1>1, <2>1 DEF Shown, Peered
<1>3. r.dialing = None => Shown(r) = Peered(r.kind, r.live, FALSE)
  <2> SUFFICES ASSUME r.dialing = None
               PROVE  Shown(r) = Peered(r.kind, r.live, FALSE)
    OBVIOUS
  <2>1. (r.dialing # None) = FALSE
    OBVIOUS
  <2> QED
    BY <1>1, <2>1 DEF Shown, Peered
<1>4. r.kind \in Kind /\ r.live \in Nat \cup {None}
  BY DEF Row
<1>5. Shown(r) \in [kind : Kind, link : Nat \cup {None}, trying : BOOLEAN]
  <2>1. \A b \in BOOLEAN : Peered(r.kind, r.live, b) \in [kind : Kind, link : Nat \cup {None}, trying : BOOLEAN]
    BY <1>4 DEF Peered
  <2>2. Shown(r) = Peered(r.kind, r.live, TRUE) \/ Shown(r) = Peered(r.kind, r.live, FALSE)
    BY <1>2, <1>3
  <2>3. TRUE \in BOOLEAN /\ FALSE \in BOOLEAN
    OBVIOUS
  <2> QED
    BY <2>1, <2>2, <2>3
<1> QED
  BY <1>2, <1>3, <1>5, ListingAssumption

\* Every such step is a move of Peering.
LEMMA RowMoves ==
  ASSUME table \in Table, table' \in Table, NEW u \in Info, RowStep(u, table[u], table'[u])
  PROVE  Peer!Move(u)
<1> DEFINE r == table[u]
           s == table'[u]
           p == Listing[u]
           q == Listing'[u]
           yes == TRUE
           no == FALSE
<1>1. r \in Row \cup {None} /\ s \in Row \cup {None} /\ p = Shown(r) /\ q = Shown(s) /\ RowStep(u, r, s)
  BY DEF Table, Listing, Shown
<1>2. p # None <=> r # None
  BY <1>1, ShownFields DEF Shown
<1>3. q # None <=> s # None
  BY <1>1, ShownFields DEF Shown
<1>4. r # None => /\ r \in Row /\ r.kind \in Kind /\ r.live \in Nat \cup {None}
                  /\ r.dialing # None => p = Peered(r.kind, r.live, yes)
                  /\ r.dialing = None => p = Peered(r.kind, r.live, no)
  BY <1>1, ShownFields DEF Row
<1>5. s # None => /\ s \in Row /\ s.kind \in Kind /\ s.live \in Nat \cup {None}
                  /\ s.dialing # None => q = Peered(s.kind, s.live, yes)
                  /\ s.dialing = None => q = Peered(s.kind, s.live, no)
  BY <1>1, ShownFields DEF Row
<1>6. q = p \/ (u \in Orders /\ q = None) => Peer!Move(u)
  BY DEF Peer!Move, Peer!Removed
<1>7. CASE s = r \/ (u \in Orders /\ s = None)
  BY <1>1, <1>6, <1>7 DEF Shown
<1> HIDE DEF r, s, p, q, yes, no
<1>8. CASE Stays(r, s)
  <2>1. p = q
    BY <1>4, <1>5, <1>8 DEF Stays
  <2> QED
    BY <1>6, <2>1
<1>9. CASE Appears(r, s)
  <2>1. p = None /\ q # None /\ q = Peered(s.kind, s.live, no)
    BY <1>2, <1>3, <1>5, <1>9 DEF Appears
  <2>2. CASE s.kind \in {"persistent", "ephemeral"} /\ s.live = None
    <3>1. q \in {Peer!Fresh("persistent"), Peer!Fresh("ephemeral")}
      BY <2>1, <2>2 DEF Peer!Fresh, Peered, no
    <3> QED
      BY <2>1, <3>1 DEF Peer!Move, Peer!Listed, p, q, yes, no
  <2>3. CASE s.kind = "incoming" /\ s.live \in Nat
    <3>1. Peer!Fresh("incoming") = Peered("incoming", None, no)
      BY DEF Peer!Fresh, Peered, no
    <3>2. q.link = s.live /\ q = [Peer!Fresh("incoming") EXCEPT !.link = s.live]
      BY <2>1, <2>3, <3>1 DEF Peered
    <3>3. Peer!Gets(u, Peer!Fresh("incoming"))
      BY <2>1, <2>3, <3>2 DEF Peer!Gets, q
    <3> QED
      BY <2>1, <3>3 DEF Peer!Move, Peer!Listed, p
  <2> QED
    BY <1>9, <2>2, <2>3 DEF Appears
<1>10. CASE IsTaken(r, s)
  <2>1. p # None /\ q # None /\ p.link = None /\ q.link = s.live /\ q.link \in Nat
    BY <1>2, <1>3, <1>4, <1>5, <1>10 DEF IsTaken, Peered
  <2>2. q = [p EXCEPT !.link = s.live]
    BY <1>4, <1>5, <1>10 DEF IsTaken, Peered
  <2> QED
    BY <2>1, <2>2 DEF Peer!Move, Peer!Claimed, Peer!Gets, p, q, yes, no
<1>11. CASE IsTried(r, s)
  <2>1. p # None /\ p = Peered(r.kind, None, no)
    BY <1>2, <1>4, <1>11 DEF IsTried
  <2>2. q = Peered(r.kind, None, yes)
    BY <1>5, <1>11 DEF IsTried
  <2>3. q = [p EXCEPT !.trying = yes]
    BY <2>1, <2>2 DEF Peered
  <2>4. p.kind # "incoming" /\ p.link = None /\ p.trying = no
    BY <2>1, <1>11 DEF IsTried, Peered
  <2> QED
    BY <2>1, <2>3, <2>4 DEF Peer!Move, Peer!Tried, p, q, yes, no
<1>12. CASE Succeeds(r, s)
  <2>1. p # None /\ p = Peered(r.kind, r.live, yes)
    BY <1>2, <1>4, <1>12 DEF Succeeds
  <2>2. q # None /\ q = Peered(r.kind, s.live, no) /\ s.live \in Nat
    BY <1>3, <1>5, <1>12 DEF Succeeds
  <2>3. p.trying = yes /\ q.link = s.live
    BY <2>1, <2>2 DEF Peered
  <2>6. [p EXCEPT !.trying = no] = Peered(r.kind, r.live, no)
    BY <2>1 DEF Peered
  <2>4. q = [[p EXCEPT !.trying = no] EXCEPT !.link = s.live]
    <3> DEFINE m == [p EXCEPT !.trying = no]
    <3>1. m = Peered(r.kind, r.live, no)
      BY <2>6
    <3> HIDE DEF m
    <3>2. q = [m EXCEPT !.link = s.live]
      BY <2>2, <3>1 DEF Peered
    <3> QED
      BY <3>2 DEF m
  <2>5. Peer!Gets(u, [p EXCEPT !.trying = no])
    BY <2>2, <2>3, <2>4 DEF Peer!Gets, p, q, yes, no
  <2> QED
    BY <2>1, <2>3, <2>5 DEF Peer!Move, Peer!Succeeded, p, q, yes, no
<1>13. CASE Fails(r, s)
  <2>1. p # None /\ p = Peered(r.kind, r.live, yes)
    BY <1>2, <1>4, <1>13 DEF Fails
  <2>2. q = Peered(r.kind, None, no)
    BY <1>5, <1>13 DEF Fails
  <2>3. p.trying = yes /\ p.kind # "ephemeral"
    BY <2>1, <1>13 DEF Fails, Peered
  <2>5. [p EXCEPT !.trying = no] = Peered(r.kind, r.live, no)
    BY <2>1 DEF Peered
  <2>6. [p EXCEPT !.trying = no, !.link = None] = [[p EXCEPT !.trying = no] EXCEPT !.link = None]
    OBVIOUS
  <2>4. q = [p EXCEPT !.trying = no, !.link = None]
    <3> DEFINE m == [p EXCEPT !.trying = no]
    <3>1. m = Peered(r.kind, r.live, no)
      BY <2>5
    <3> HIDE DEF m
    <3>2. q = [m EXCEPT !.link = None]
      BY <2>2, <3>1 DEF Peered
    <3> QED
      BY <2>6, <3>2 DEF m
  <2> QED
    BY <2>1, <2>3, <2>4 DEF Peer!Move, Peer!Failed, p, q, yes, no
<1>14. CASE IsLost(r, s)
  <2>1. p # None /\ p.kind = "persistent" /\ p.link # None
    BY <1>2, <1>4, <1>14 DEF IsLost, Peered
  <2>2. q = [p EXCEPT !.link = None]
    BY <1>4, <1>5, <1>14 DEF IsLost, Peered
  <2> QED
    BY <2>1, <2>2 DEF Peer!Move, Peer!Lost, p, q, yes, no
<1>15. CASE Forgotten(r, s)
  <2>1. p # None /\ q = None
    BY <1>2, <1>3, <1>15 DEF Forgotten
  <2>2. CASE r.dialing # None /\ r.kind = "ephemeral"
    <3>1. p.trying = yes /\ p.kind = "ephemeral"
      BY <1>4, <1>15, <2>2 DEF Forgotten, Peered
    <3> QED
      BY <2>1, <3>1 DEF Peer!Move, Peer!Failed, p, q, yes
  <2>3. CASE r.live # None /\ r.kind # "persistent"
    <3>1. p.link # None /\ p.kind # "persistent"
      BY <1>4, <1>15, <2>3 DEF Forgotten, Peered
    <3> QED
      BY <2>1, <3>1 DEF Peer!Move, Peer!Lost, p, q
  <2> QED
    BY <1>15, <2>2, <2>3 DEF Forgotten
<1> QED
  BY <1>1, <1>7, <1>8, <1>9, <1>10, <1>11, <1>12, <1>13, <1>14, <1>15 DEF RowStep

\* Every step of the client does one of these to every row.
LEMMA RowsMove ==
  ASSUME LinkTypes, QueueTypes, LinksKept, table' \in Table, [Next]_vars, NEW u \in Info
  PROVE  RowStep(u, table[u], table'[u])
<1>1. table \in Table /\ Ids \subseteq Nat
  BY IdsAreNat DEF LinkTypes
<1>2. CASE table' = table
  BY <1>2 DEF RowStep
<1>3. CASE OnCmd
  <2> DEFINE cmd == Head(cmds)
  <2>1. cmd \in Cmd /\ (cmd.op = "accept" => cmd.id \in Ids) /\ cmd \in ToSet(cmds)
    BY <1>3, HeadCmd DEF OnCmd, ToSet
  <2> HIDE DEF cmd
  <2>2. CASE OnDialCmd(cmd)
    <3>1. cmd.uri \in Info \cup {None} /\ cmd.kind \in {"persistent", "ephemeral"} /\ cmd.kind \in Kind
      BY <2>1, <2>2, CmdFields DEF OnDialCmd, Kind
    <3>2. CASE cmd.uri # None /\ cmd.uri = u
      <4>1. /\ table[u] = None => Appears(table[u], table'[u])
            /\ table[u] # None => Stays(table[u], table'[u])
        BY <1>1, <2>2, <3>1, <3>2, AddRows DEF OnDialCmd, Appears, Stays
      <4> QED
        BY <4>1 DEF RowStep
    <3>3. CASE ~(cmd.uri # None /\ cmd.uri = u)
      <4>1. table'[u] = table[u]
        BY <1>1, <2>2, <3>1, <3>3, AddRows DEF OnDialCmd
      <4> QED
        BY <4>1 DEF RowStep
    <3> QED
      BY <3>2, <3>3
  <2>3. CASE OnDrop(cmd)
    <3>1. table'[u] = IF u = cmd.uri THEN None ELSE table[u]
      BY <1>1, <2>3 DEF OnDrop, RemoveRow, Table
    <3>2. cmd.uri \in Orders
      BY <2>1, <2>3 DEF OnDrop, Orders
    <3> QED
      BY <3>1, <3>2 DEF RowStep
  <2>4. CASE OnAccept(cmd)
    <3>1. cmd.uri \in Plain \cup {None} /\ cmd.id \in Nat
      BY <1>1, <2>1, <2>4, CmdFields DEF OnAccept
    <3>2. table' = table \/ (cmd.uri # None /\ ~Busy(table, cmd.uri) /\ table' = Accept(table, cmd.uri, cmd.id))
      BY <2>4 DEF OnAccept
    <3>3. CASE cmd.uri # None /\ ~Busy(table, cmd.uri) /\ table' = Accept(table, cmd.uri, cmd.id)
      <4>1. cmd.uri \in Info /\ (table[cmd.uri] # None => table[cmd.uri].live = None)
        BY <3>1, <3>3, InfoAssumption DEF Busy
      <4>2. CASE cmd.uri = u
        <5>1. /\ table[u] = None => Appears(table[u], table'[u])
              /\ table[u] # None => IsTaken(table[u], table'[u])
          BY <1>1, <3>1, <3>3, <4>1, <4>2, AcceptRows DEF Appears, IsTaken
        <5> QED
          BY <5>1 DEF RowStep
      <4>3. CASE cmd.uri # u
        <5>1. table'[u] = table[u]
          BY <1>1, <3>1, <3>3, <4>1, <4>3, AcceptRows
        <5> QED
          BY <5>1 DEF RowStep
      <4> QED
        BY <4>2, <4>3
    <3> QED
      BY <1>2, <3>2, <3>3
  <2>5. CASE OnReport(cmd) \/ OnRemote(cmd) \/ OnSend(cmd) \/ OnQuit(cmd)
    BY <1>2, <2>5 DEF OnReport, OnRemote, OnSend, OnQuit
  <2> QED
    BY <1>3, <2>2, <2>3, <2>4, <2>5 DEF OnCmd, cmd
<1>4. CASE OnDial
  <2> DEFINE ev == Head(events)
  <2>1. ev.id \in Ids \cup {None} /\ ev.token \in Nat
    BY <1>4, HeadEvent DEF OnDial
  <2>2. table' = MarkFailed(table, ev.token) \/ (ev.id # None /\ table' = MarkLive(table, ev.token, ev.id))
    BY <1>4 DEF OnDial
  <2> HIDE DEF ev
  <2>3. ev.token # None
    BY <2>1, InfoAssumption
  <2>4. CASE table' = MarkFailed(table, ev.token)
    <3>1. \/ table'[u] = table[u] \/ Forgotten(table[u], table'[u])
          \/ Fails(table[u], table'[u])
      BY <1>1, <2>3, <2>4, MarkFailedRows DEF Waits, Fails, Forgotten
    <3> QED
      BY <3>1 DEF RowStep
  <2>5. CASE ev.id # None /\ table' = MarkLive(table, ev.token, ev.id)
    <3>1. ev.id \in Nat
      BY <1>1, <2>1, <2>5
    <3>2. table'[u] = table[u] \/ Succeeds(table[u], table'[u])
      BY <1>1, <2>3, <2>5, <3>1, MarkLiveRows DEF Waits, Succeeds
    <3> QED
      BY <3>2 DEF RowStep
  <2> QED
    BY <2>2, <2>4, <2>5
<1>5. CASE Plan
  <2>1. PICK t, f :
           /\ t \in Table
           /\ t = NoteLiveness(table, set)
           /\ table' = StartDue(t, f)
           /\ \A v \in DOMAIN f : Dialable(t, v) /\ f[v] \in Nat
    BY <1>5, PlanStep
  <2>2. CASE Lost(table, u, set)
    <3>1. Forgotten(table[u], t[u]) \/ (IsLost(table[u], t[u]) /\ ~t[u].due)
      BY <1>1, <2>1, <2>2, NoteLivenessRows DEF IsLost, Forgotten
    <3>2. u \notin DOMAIN f
      BY <2>1, <3>1 DEF Dialable, Forgotten
    <3>3. table'[u] = t[u]
      BY <2>1, <3>2, StartDueRows
    <3> QED
      BY <3>1, <3>3 DEF RowStep
  <2>3. CASE ~Lost(table, u, set)
    <3>1. t[u] = table[u]
      BY <1>1, <2>1, <2>3, NoteLivenessRows
    <3>2. CASE u \in DOMAIN f
      <4>1. f[u] # None /\ Dialable(t, u)
        BY <2>1, <3>2, InfoAssumption
      <4>2. IsTried(table[u], table'[u])
        BY <2>1, <3>1, <3>2, <4>1, StartDueRows DEF IsTried, Dialable
      <4> QED
        BY <4>2 DEF RowStep
    <3>3. CASE u \notin DOMAIN f
      <4>1. table'[u] = table[u]
        BY <2>1, <3>1, <3>3, StartDueRows
      <4> QED
        BY <4>1 DEF RowStep
    <3> QED
      BY <3>2, <3>3
  <2> QED
    BY <2>2, <2>3
<1>6. ASSUME NEW v \in Info, BackoffEnds(v)
      PROVE  RowStep(u, table[u], table'[u])
  <2>1. table[v] # None /\ table' = [table EXCEPT ![v].due = TRUE]
    BY <1>6 DEF BackoffEnds
  <2>2. CASE u = v
    <3>1. table[u] \in Row /\ table'[u] = [table[u] EXCEPT !.due = TRUE]
      BY <1>1, <2>1, <2>2 DEF Table
    <3>2. Stays(table[u], table'[u])
      BY <3>1, InfoAssumption DEF Stays, Row
    <3> QED
      BY <3>2 DEF RowStep
  <2>3. CASE u # v
    <3>1. table'[u] = table[u]
      BY <1>1, <2>1, <2>3 DEF Table
    <3> QED
      BY <3>1 DEF RowStep
  <2> QED
    BY <2>2, <2>3
<1>7. CASE \/ CmdsDrained \/ Turn \/ AnswerArrives \/ PacketArrives \/ KernelSends \/ Tick \/ SubmitSend \/ SubmitQuit \/ Listen
           \/ UNCHANGED vars
  BY <1>2, <1>7 DEF CmdsDrained, Turn, AnswerArrives, PacketArrives, KernelSends, Tick, SubmitSend, SubmitQuit, Listen, node, vars
<1>8. CASE \/ \E id \in Ids : ReadTimesOut(id) \/ Evict(id) \/ Retire(id) \/ SocketMoves(id)
           \/ \E c \in Conn : Ask(c) \/ HandleOne(c)
           \/ \E t \in tasks : DialEnds(t)
           \/ \E v \in Info : SubmitDial(v)
  BY <1>2, <1>8 DEF ReadTimesOut, Evict, Retire, SocketMoves, Ask, HandleOne, DialEnds, SubmitDial, node
<1> QED
  BY <1>3, <1>4, <1>5, <1>6, <1>7, <1>8 DEF Next, Loop, Serve, Others

\* The link table keeps the promises of Peering: links.rs, driven by node.rs,
\* implements the life of a peer that Peering states.
THEOREM PromisesKept == Spec => KeepsPromises
<1>1. Init => Peer!Init
  BY DEF Init, Peer!Init, Listing, EmptyTable
<1>2. IInv /\ [Next]_vars => [Peer!Next]_Listing
  <2> SUFFICES ASSUME IInv, [Next]_vars
               PROVE  Peer!Next
    OBVIOUS
  <2>1. IInv'
    BY NextIInv
  <2>2. LinkTypes /\ QueueTypes /\ LinksKept /\ table \in Table
    BY DEF IInv, LinkTypes
  <2>3. LinksKept' /\ table' \in Table
    BY <2>1 DEF IInv, LinkTypes
  <2>4. \A u \in Info : Peer!Move(u)
    BY <2>2, <2>3, RowsMove, RowMoves
  <2>5. Listing' = [u \in Info |-> Listing'[u]]
    BY DEF Listing
  <2>6. Peer!OneName(Listing')
    <3> SUFFICES ASSUME NEW u \in Info, NEW v \in Info,
                        Listing'[u] # None, Listing'[v] # None,
                        Listing'[u].link # None, Listing'[u].link = Listing'[v].link
                 PROVE  u = v
      BY DEF Peer!OneName
    <3>1. /\ table'[u] # None /\ table'[v] # None
          /\ Listing'[u].link = table'[u].live /\ Listing'[v].link = table'[v].live
      BY DEF Listing
    <3>2. u \in Rows(table') /\ v \in Rows(table') /\ table'[u].live # None /\ table'[u].live = table'[v].live
      BY <3>1 DEF Rows
    <3> QED
      BY <2>3, <3>2 DEF LinksKept
  <2> QED
    BY <2>4, <2>5, <2>6 DEF Peer!Next
<1> QED
  BY <1>1, <1>2, ClientInvariance, PTL DEF Spec, KeepsPromises, Peer!Spec

=============================================================================
