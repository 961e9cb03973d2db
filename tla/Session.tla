------------------------------ MODULE Session -------------------------------
(***************************************************************************)
(* The end-to-end session layer of roots: src/src/session.rs, with the     *)
(* outbox loop and the expiry of src/src/driver.rs and the request/answer  *)
(* half of src/src/proto.rs.                                               *)
(*                                                                         *)
(* Two routers open a session by exchanging an init and an ack, seal every *)
(* payload under a pair of box keys, and ratchet those keys forward on     *)
(* every init or ack applied, on the first frame sealed under a new key    *)
(* once a minute, and when the send nonce wraps.  What cannot be opened is *)
(* answered with an init, which is how two ends that drifted apart meet    *)
(* again.                                                                  *)
(*                                                                         *)
(* Abstractions: a box key is named by its owner and a serial number, and  *)
(* stands for the pair of its public and private halves; the shared secret *)
(* of two keys is the set of the two, so a seal is opened by whoever can   *)
(* form that set; an init or ack is signed, so it is what its sender made. *)
(* The path below the session layer (pathfinder, links) is the channel     *)
(* chan[n][p]; what goes wrong in it is an action, of a kind in Faults.    *)
(* Every nodeinfo or debug request is the one request "Req".               *)
(***************************************************************************)
EXTENDS Integers, Sequences, FiniteSets, SequencesExt

CONSTANTS
  Node,             \* the routers
  NonceSpace,       \* 2^64, where the send nonce wraps
  SESSION_TIMEOUT,  \* idle life of a session and of a pending open
  ROTATE_AFTER,     \* a rotation is due when the last one is older than this
  Faults,           \* what may go wrong, out of FaultKind
  MaxFaults,        \* bound: how often it does
  MaxTime,          \* bound: the clock stops here
  MaxSends,         \* bound: payloads the application submits
  MaxSeq,           \* bound: a router at this init_seq reads no more
  None              \* the Option of the source

FaultKind == {"loss", "reorder", "duplicate", "write", "restart"}

ASSUME NodeAssumption == IsFiniteSet(Node)
ASSUME FaultsAssumption == Faults \subseteq FaultKind
ASSUME NonceAssumption == NonceSpace \in Nat \ {0}
ASSUME TimerAssumption == SESSION_TIMEOUT \in Nat /\ ROTATE_AFTER \in Nat
ASSUME BoundAssumption ==
  MaxTime \in Nat /\ MaxSends \in Nat /\ MaxSeq \in Nat /\ MaxFaults \in Nat

VARIABLES
  now,       \* the clock, in seconds: Instant::now() and unix_now()
  node,      \* node[n]: n's SessionState
  outgoing,  \* outgoing[n]: the outbox the application hands to serve
  taken,     \* taken[n]: what is left of the outbox the loop is sending
  chan,      \* chan[n][p]: session messages on their way from n to p
  minted,    \* minted[n]: how many box keys n has generated
  seals,     \* seals[n]: history, every seal n made
  opened,    \* opened[n]: history, every box n opened, and when
  sends,     \* history, every payload submitted
  faults     \* how many things went wrong

vars == <<now, node, outgoing, taken, chan, minted, seals, opened, sends, faults>>

\* The i-th key of the step n is taking: fresh_box.
Fresh(n, i) == <<n, minted[n] + i>>

-----------------------------------------------------------------------------
(* Session *)

\* Session::for_init: three fresh keys against the two the init names.
ForInit(init, recv, send, next) ==
  [ seq             |-> init.seq - 1,
    remote_key_seq  |-> 0,
    current         |-> init.current,
    next            |-> init.next,
    local_key_seq   |-> 0,
    recv_pub        |-> recv,
    recv_nonce      |-> 0,
    send_pub        |-> send,
    send_nonce      |-> 0,
    next_pub        |-> next,
    next_send_nonce |-> 0,
    next_recv_nonce |-> 0,
    rotated_at      |-> None,
    active          |-> now ]

\* The initiator's own keys take the place of the fresh ones.
AdoptBuffered(s, buf) ==
  [s EXCEPT !.send_pub = buf.send_pub, !.next_pub = buf.next_pub]

\* Mutant of Ratchet: the old keys go round instead of making way for a new one.
RatchetRecycled(s, key, recv_nonce, send_nonce) ==
  [s EXCEPT !.recv_pub        = s.send_pub,
            !.send_pub        = s.next_pub,
            !.next_pub        = s.recv_pub,
            !.local_key_seq   = @ + 1,
            !.recv_nonce      = recv_nonce,
            !.send_nonce      = send_nonce,
            !.next_send_nonce = 0,
            !.next_recv_nonce = 0]

\* The keys move one place: next to send, send to recv, and a new next.  The
\* nonces of the two secrets made with the peer's next key start over.
Ratchet(s, key, recv_nonce, send_nonce) ==
  [s EXCEPT !.recv_pub        = s.send_pub,
            !.send_pub        = s.next_pub,
            !.next_pub        = key,
            !.local_key_seq   = @ + 1,
            !.recv_nonce      = recv_nonce,
            !.send_nonce      = send_nonce,
            !.next_send_nonce = 0,
            !.next_recv_nonce = 0]

ApplyUpdate(s, init, key) ==
  [Ratchet(s, key, 0, s.send_nonce) EXCEPT
     !.current        = init.current,
     !.next           = init.next,
     !.seq            = init.seq,
     !.remote_key_seq = init.key_seq]

\* handle_init and handle_ack: only a newer one is applied.
Newer(s, init) == init.seq > s.seq

MakeInit(type, s, seq) ==
  [ type |-> type, current |-> s.send_pub, next |-> s.next_pub,
    key_seq |-> s.local_key_seq, seq |-> seq ]

\* Mutant of Encrypt: the counter does not wrap.
EncryptUnbounded(s, key) == [s EXCEPT !.send_nonce = @ + 1]

\* Advance the send nonce; a wrap ratchets the keys first.
Encrypt(s, key) ==
  LET nonce == (s.send_nonce + 1) % NonceSpace
  IN  IF nonce = 0 THEN Ratchet(s, key, 0, 0) ELSE [s EXCEPT !.send_nonce = nonce]

\* The frame a session makes of a payload once Encrypt has advanced it.
Sealed(s, kind, body) ==
  [ type   |-> "Traffic",
    rks    |-> s.local_key_seq,
    lks    |-> s.remote_key_seq,
    nonce  |-> s.send_nonce,
    shared |-> {s.current, s.send_pub},
    next   |-> s.next_pub,
    kind   |-> kind,
    body   |-> body ]

\* The three ways decrypt may read a frame: the key sequences that select
\* each, the nonce the frame must exceed, the secret that must open it, and
\* whether the peer has moved on to its next key.
Openings(s) ==
  { [slot |-> "recv", rks |-> s.remote_key_seq, lks |-> s.local_key_seq - 1,
     nonce |-> s.recv_nonce, shared |-> {s.current, s.recv_pub}],
    [slot |-> "next_send", rks |-> s.remote_key_seq + 1, lks |-> s.local_key_seq,
     nonce |-> s.next_send_nonce, shared |-> {s.next, s.send_pub}],
    [slot |-> "next_recv", rks |-> s.remote_key_seq + 1, lks |-> s.local_key_seq - 1,
     nonce |-> s.next_recv_nonce, shared |-> {s.next, s.recv_pub}] }

\* Mutant of Fits: the last nonce is let in again.
FitsAgain(o, m) ==
  o.rks = m.rks /\ o.lks = m.lks /\ m.nonce >= o.nonce /\ o.shared = m.shared

Fits(o, m) ==
  o.rks = m.rks /\ o.lks = m.lks /\ m.nonce > o.nonce /\ o.shared = m.shared

Opens(s, m) == \E o \in Openings(s) : Fits(o, m)

RotationDue(s) == s.rotated_at = None \/ now - s.rotated_at > ROTATE_AFTER

\* maybe_rotate, when it is due: adopt the peer's ratchet and take a step.
Rotate(s, m, key) ==
  [Ratchet(s, key, m.nonce, 0) EXCEPT
     !.current        = s.next,
     !.next           = m.next,
     !.remote_key_seq = @ + 1,
     !.rotated_at     = now]

\* What opening m by way of o leaves behind.
Decrypt(s, o, m, key) ==
  LET t == [s EXCEPT
              !.recv_nonce      = IF o.slot = "recv" THEN m.nonce ELSE @,
              !.next_send_nonce = IF o.slot = "next_send" THEN m.nonce ELSE @,
              !.next_recv_nonce = IF o.slot = "next_recv" THEN m.nonce ELSE @]
  IN  IF o.slot # "recv" /\ RotationDue(s) THEN Rotate(t, m, key) ELSE t

\* The stretch of its life s is in: one ends when an init or ack is applied,
\* which brings a higher seq, and when the send nonce wraps, which ratchets the
\* keys of this end alone.  A rotation moves both key sequences.
Stretch(s) == [seq |-> s.seq, lead |-> s.local_key_seq - s.remote_key_seq]

\* What history keeps of the box m of p that s opened.
Opening(p, s, m) == [from |-> p, stretch |-> Stretch(s), box |-> m]

-----------------------------------------------------------------------------
(* SessionState *)

DefaultState ==
  [ sessions |-> [p \in Node |-> None],
    bufs     |-> [p \in Node |-> None],
    init_seq |-> 0,
    resend   |-> <<>> ]

Init ==
  /\ now = 0
  /\ node = [n \in Node |-> DefaultState]
  /\ outgoing = [n \in Node |-> <<>>]
  /\ taken = [n \in Node |-> <<>>]
  /\ chan = [n \in Node |-> [p \in Node |-> <<>>]]
  /\ minted = [n \in Node |-> 0]
  /\ seals = [n \in Node |-> <<>>]
  /\ opened = [n \in Node |-> <<>>]
  /\ sends = <<>>
  /\ faults = 0

\* Mutant of NextInitSeq: a counter alone.
NextInitSeqNoClock(st) == st.init_seq + 1

\* next_init_seq: past the clock and past every number given before.
NextInitSeq(st) == IF now > st.init_seq THEN now + 1 ELSE st.init_seq + 1

\* One more thing goes wrong.
Fault(kind) ==
  /\ kind \in Faults
  /\ faults < MaxFaults
  /\ faults' = faults + 1

\* A write to the next hop succeeds or fails.
Write(sent) == IF sent THEN UNCHANGED faults ELSE Fault("write")

\* The frame is on its way if its write succeeded.
If(sent, frame) == IF sent THEN <<frame>> ELSE <<>>

\* session_send_inner: seal under the open session.  When the write fails the
\* payload is kept for the next link, without its kind.
SendInner(st, p, body, sent, key) ==
  [st EXCEPT !.sessions[p] = [Encrypt(@, key) EXCEPT !.active = now],
             !.resend      = IF sent THEN @ ELSE Append(@, [dest |-> p, body |-> body])]

\* n's step replaces its state by st, leaves rest of the messages from p
\* unread and writes frames to p; it generated at most used keys.
Step(n, p, st, rest, frames, used) ==
  /\ node' = [node EXCEPT ![n] = st]
  /\ chan' = [chan EXCEPT ![p][n] = rest, ![n][p] = chan[n][p] \o frames]
  /\ minted' = [minted EXCEPT ![n] = @ + used]

Record(history, n, frame) == [history EXCEPT ![n] = Append(@, frame)]

-----------------------------------------------------------------------------
(* Sending *)

\* With a session the payload is sealed at once.
SendSealed(n, p, kind, body, sent) ==
  /\ node[n].sessions[p] # None
  /\ \E st \in {SendInner(node[n], p, body, sent, Fresh(n, 1))} :
     \E frame \in {Sealed(st.sessions[p], kind, body)} :
       /\ Step(n, p, st, chan[p][n], If(sent, frame), 1)
       /\ seals' = Record(seals, n, frame)

\* The pending open for p: built once, repeated by every later send.
Pending(n, p, seq) ==
  IF node[n].bufs[p] # None THEN node[n].bufs[p]
  ELSE [send_pub |-> Fresh(n, 1), next_pub |-> Fresh(n, 2), seq |-> seq]

\* Mutants of Queued: the slot forgets the kind, or is filled only once.
QueuedAsTraffic(buf, kind, body) ==
  [ send_pub |-> buf.send_pub, next_pub |-> buf.next_pub, seq |-> buf.seq,
    kind |-> "Traffic", body |-> body, deadline |-> now + SESSION_TIMEOUT ]

QueuedOnce(buf, kind, body) ==
  IF "body" \in DOMAIN buf THEN buf
  ELSE [ send_pub |-> buf.send_pub, next_pub |-> buf.next_pub, seq |-> buf.seq,
         kind |-> kind, body |-> body, deadline |-> now + SESSION_TIMEOUT ]

\* The payload takes the one slot behind it, for a minute from now.
Queued(buf, kind, body) ==
  [ send_pub |-> buf.send_pub, next_pub |-> buf.next_pub, seq |-> buf.seq,
    kind |-> kind, body |-> body, deadline |-> now + SESSION_TIMEOUT ]

\* Without a session the payload waits behind an init.
SendBuffered(n, p, kind, body, sent) ==
  /\ node[n].sessions[p] = None
  /\ \E seq \in {NextInitSeq(node[n])} :
     \E buf \in {Queued(Pending(n, p, seq), kind, body)} :
       Step(n, p, [node[n] EXCEPT !.init_seq = seq, !.bufs[p] = buf], chan[p][n],
            If(sent, [ type |-> "Init", current |-> buf.send_pub, next |-> buf.next_pub,
                       key_seq |-> 0, seq |-> buf.seq ]), 2)
  /\ UNCHANGED seals

SessionSend(n, p, kind, body, sent) ==
  SendSealed(n, p, kind, body, sent) \/ SendBuffered(n, p, kind, body, sent)

\* The router is not inside the outbox loop, where nothing else of it runs.
Idle(n) == taken[n] = <<>>

\* A new payload of the application.
Submitted(n, p, what) ==
  /\ n # p
  /\ Idle(n)
  /\ Len(sends) < MaxSends
  /\ sends' = Append(sends, [from |-> n, to |-> p, what |-> what])

NewBody(what) == [what |-> what, id |-> Len(sends) + 1]

\* The application puts a payload for p in the outbox.
Submit(n, p) ==
  /\ Submitted(n, p, "Data")
  /\ outgoing' = [outgoing EXCEPT ![n] = Append(@, [dest |-> p, body |-> NewBody("Data")])]
  /\ UNCHANGED <<now, node, taken, chan, minted, seals, opened, faults>>

\* The application asks p for its nodeinfo, past the outbox.
RequestNodeinfo(n, p) ==
  /\ Submitted(n, p, "Req")
  /\ \E sent \in BOOLEAN : Write(sent) /\ SessionSend(n, p, "Proto", NewBody("Req"), sent)
  /\ UNCHANGED <<now, outgoing, taken, opened>>

\* A new serve slice: payloads whose write failed go to the front.
Splice(n) ==
  /\ Idle(n)
  /\ node[n].resend # <<>>
  /\ outgoing' = [outgoing EXCEPT ![n] = node[n].resend \o @]
  /\ node' = [node EXCEPT ![n].resend = <<>>]
  /\ UNCHANGED <<now, taken, chan, minted, seals, opened, sends, faults>>

\* The loop takes the whole outbox.
Take(n) ==
  /\ Idle(n)
  /\ outgoing[n] # <<>>
  /\ taken' = [taken EXCEPT ![n] = outgoing[n]]
  /\ outgoing' = [outgoing EXCEPT ![n] = <<>>]
  /\ UNCHANGED <<now, node, chan, minted, seals, opened, sends, faults>>

\* One turn of the loop; a failed write ends it, and what it had not reached
\* goes with it.
SendNext(n) ==
  /\ taken[n] # <<>>
  /\ \E sent \in BOOLEAN :
       /\ Write(sent)
       /\ SessionSend(n, Head(taken[n]).dest, "Traffic", Head(taken[n]).body, sent)
       /\ taken' = [taken EXCEPT ![n] = IF sent THEN Tail(@) ELSE <<>>]
  /\ UNCHANGED <<now, outgoing, opened, sends>>

-----------------------------------------------------------------------------
(* Receiving: handle_session_bytes *)

\* n reads the first message from p, which is of one of the types.
Arrives(n, p, types) ==
  /\ n # p
  /\ Idle(n)
  /\ node[n].init_seq < MaxSeq
  /\ chan[p][n] # <<>>
  /\ Head(chan[p][n]).type \in types

\* The session an init or ack opens: on the keys of the pending open if there
\* is one, else on fresh ones.
NewSession(n, init, buf) ==
  LET s == ForInit(init, Fresh(n, 1), Fresh(n, 2), Fresh(n, 3))
  IN  ApplyUpdate(IF buf = None THEN s ELSE AdoptBuffered(s, buf), init, Fresh(n, 4))

\* Init or ack from a peer without a session: open one and ack.
OpenSession(n, p) ==
  /\ Arrives(n, p, {"Init", "Ack"})
  /\ node[n].sessions[p] = None
  /\ node[n].bufs[p] = None
  /\ \E sent \in BOOLEAN, seq \in {NextInitSeq(node[n])} :
     \E s \in {NewSession(n, Head(chan[p][n]), None)} :
       /\ Write(sent)
       /\ Step(n, p, [node[n] EXCEPT !.sessions[p] = s, !.init_seq = seq],
               Tail(chan[p][n]), If(sent, MakeInit("Ack", s, seq)), 4)
  /\ UNCHANGED <<now, outgoing, taken, seals, opened, sends>>

\* The same with an open pending: the payload it was holding goes after the
\* ack, or is dropped with it.
FlushSession(n, p) ==
  /\ Arrives(n, p, {"Init", "Ack"})
  /\ node[n].sessions[p] = None
  /\ node[n].bufs[p] # None
  /\ \E seq \in {NextInitSeq(node[n])}, buf \in {node[n].bufs[p]} :
     \E s \in {NewSession(n, Head(chan[p][n]), buf)} :
     \E st \in {[node[n] EXCEPT !.sessions[p] = s, !.bufs[p] = None, !.init_seq = seq]} :
       \/ /\ Write(FALSE)
          /\ Step(n, p, st, Tail(chan[p][n]), <<>>, 4)
          /\ UNCHANGED seals
       \/ \E sent \in BOOLEAN :
          \E fin \in {SendInner(st, p, buf.body, sent, Fresh(n, 5))} :
          \E frame \in {Sealed(fin.sessions[p], buf.kind, buf.body)} :
            /\ Write(sent)
            /\ Step(n, p, fin, Tail(chan[p][n]),
                    <<MakeInit("Ack", s, seq)>> \o If(sent, frame), 5)
            /\ seals' = Record(seals, n, frame)
  /\ UNCHANGED <<now, outgoing, taken, opened, sends>>

\* Ack on an open session.
HandleAck(n, p) ==
  /\ Arrives(n, p, {"Ack"})
  /\ node[n].sessions[p] # None
  /\ \E s \in {[node[n].sessions[p] EXCEPT !.active = now]}, m \in {Head(chan[p][n])} :
       Step(n, p,
            [node[n] EXCEPT
               !.sessions[p] = IF Newer(s, m) THEN ApplyUpdate(s, m, Fresh(n, 1)) ELSE s],
            Tail(chan[p][n]), <<>>, 1)
  /\ UNCHANGED <<now, outgoing, taken, seals, opened, sends, faults>>

\* Init on an open session: a newer one is applied and acked, an older one
\* only keeps the session alive.
HandleInit(n, p) ==
  /\ Arrives(n, p, {"Init"})
  /\ node[n].sessions[p] # None
  /\ \E s \in {[node[n].sessions[p] EXCEPT !.active = now]},
        m \in {Head(chan[p][n])}, seq \in {NextInitSeq(node[n])} :
       \/ /\ ~Newer(s, m)
          /\ Step(n, p, [node[n] EXCEPT !.sessions[p] = s, !.init_seq = seq],
                  Tail(chan[p][n]), <<>>, 0)
          /\ UNCHANGED faults
       \/ /\ Newer(s, m)
          /\ \E sent \in BOOLEAN, t \in {ApplyUpdate(s, m, Fresh(n, 1))} :
               /\ Write(sent)
               /\ Step(n, p, [node[n] EXCEPT !.sessions[p] = t, !.init_seq = seq],
                       Tail(chan[p][n]), If(sent, MakeInit("Ack", t, seq)), 1)
  /\ UNCHANGED <<now, outgoing, taken, seals, opened, sends>>

\* Traffic the session opens.  A request is answered on the spot.
OpenTraffic(n, p) ==
  /\ Arrives(n, p, {"Traffic"})
  /\ node[n].sessions[p] # None
  /\ \E m \in {Head(chan[p][n])}, o \in Openings(node[n].sessions[p]) :
     \E s \in {[Decrypt(node[n].sessions[p], o, m, Fresh(n, 1)) EXCEPT !.active = now]} :
     \E st \in {[node[n] EXCEPT !.sessions[p] = s, !.init_seq = NextInitSeq(node[n])]} :
       /\ Fits(o, m)
       /\ opened' = Record(opened, n, Opening(p, node[n].sessions[p], m))
       /\ \/ /\ ~(m.kind = "Proto" /\ m.body.what = "Req")
             /\ Step(n, p, st, Tail(chan[p][n]), <<>>, 1)
             /\ UNCHANGED <<seals, faults>>
          \/ /\ m.kind = "Proto" /\ m.body.what = "Req"
             /\ \E sent \in BOOLEAN, res \in {[what |-> "Res", id |-> m.body.id]} :
                \E fin \in {SendInner(st, p, res, sent, Fresh(n, 2))} :
                \E frame \in {Sealed(fin.sessions[p], "Proto", res)} :
                  /\ Write(sent)
                  /\ Step(n, p, fin, Tail(chan[p][n]), If(sent, frame), 2)
                  /\ seals' = Record(seals, n, frame)
  /\ UNCHANGED <<now, outgoing, taken, sends>>

\* Mutant of RefuseTraffic: drop it without an answer.
RefuseSilently(n, p) ==
  /\ Arrives(n, p, {"Traffic"})
  /\ node[n].sessions[p] # None
  /\ ~Opens(node[n].sessions[p], Head(chan[p][n]))
  /\ Step(n, p, [node[n] EXCEPT !.init_seq = NextInitSeq(node[n])], Tail(chan[p][n]), <<>>, 0)
  /\ UNCHANGED <<now, outgoing, taken, seals, opened, sends, faults>>

\* Traffic the session cannot open: offer the keys it stands at.
RefuseTraffic(n, p) ==
  /\ Arrives(n, p, {"Traffic"})
  /\ node[n].sessions[p] # None
  /\ ~Opens(node[n].sessions[p], Head(chan[p][n]))
  /\ \E sent \in BOOLEAN, seq \in {NextInitSeq(node[n])} :
       /\ Write(sent)
       /\ Step(n, p, [node[n] EXCEPT !.init_seq = seq], Tail(chan[p][n]),
               If(sent, MakeInit("Init", node[n].sessions[p], seq)), 0)
  /\ UNCHANGED <<now, outgoing, taken, seals, opened, sends>>

\* Traffic from a peer without a session: an init whose keys are forgotten.
UnknownTraffic(n, p) ==
  /\ Arrives(n, p, {"Traffic"})
  /\ node[n].sessions[p] = None
  /\ \E sent \in BOOLEAN, seq \in {NextInitSeq(node[n]) + 1} :
       /\ Write(sent)
       /\ Step(n, p, [node[n] EXCEPT !.init_seq = seq], Tail(chan[p][n]),
               If(sent, [ type |-> "Init", current |-> Fresh(n, 1), next |-> Fresh(n, 2),
                          key_seq |-> 0, seq |-> seq ]), 2)
  /\ UNCHANGED <<now, outgoing, taken, seals, opened, sends>>

Receive(n, p) ==
  \/ OpenSession(n, p)
  \/ FlushSession(n, p)
  \/ HandleAck(n, p)
  \/ HandleInit(n, p)
  \/ OpenTraffic(n, p)
  \/ RefuseTraffic(n, p)
  \/ UnknownTraffic(n, p)

-----------------------------------------------------------------------------
(* Time, faults *)

Stale(n) ==
  \E p \in Node :
    \/ node[n].bufs[p] # None /\ node[n].bufs[p].deadline <= now
    \/ node[n].sessions[p] # None /\ node[n].sessions[p].active + SESSION_TIMEOUT <= now

\* The tick drops pending opens and sessions that were idle for too long.
ExpireEphemeral(n) ==
  /\ Idle(n)
  /\ Stale(n)
  /\ node' = [node EXCEPT
       ![n].bufs     = [p \in Node |-> IF @[p] # None /\ @[p].deadline <= now
                                       THEN None ELSE @[p]],
       ![n].sessions = [p \in Node |-> IF @[p] # None /\ @[p].active + SESSION_TIMEOUT <= now
                                       THEN None ELSE @[p]]]
  /\ UNCHANGED <<now, outgoing, taken, chan, minted, seals, opened, sends, faults>>

Tick ==
  /\ now < MaxTime
  /\ now' = now + 1
  /\ UNCHANGED <<node, outgoing, taken, chan, minted, seals, opened, sends, faults>>

\* A message is lost, delivered again, or overtaken by the one behind it.
Lose(n, p, i) ==
  /\ Fault("loss")
  /\ chan' = [chan EXCEPT ![n][p] = RemoveAt(@, i)]
  /\ UNCHANGED <<now, node, outgoing, taken, minted, seals, opened, sends>>

Duplicate(n, p, i) ==
  /\ Fault("duplicate")
  /\ chan' = [chan EXCEPT ![n][p] = InsertAt(@, i, @[i])]
  /\ UNCHANGED <<now, node, outgoing, taken, minted, seals, opened, sends>>

Overtake(n, p, i) ==
  /\ i < Len(chan[n][p])
  /\ Fault("reorder")
  /\ chan' = [chan EXCEPT ![n][p] = [@ EXCEPT ![i] = chan[n][p][i+1], ![i+1] = chan[n][p][i]]]
  /\ UNCHANGED <<now, node, outgoing, taken, minted, seals, opened, sends>>

\* The process restarts, which takes a second: nothing of the session layer
\* is kept on disk.
Restart(n) ==
  /\ Fault("restart")
  /\ now < MaxTime
  /\ now' = now + 1
  /\ node' = [node EXCEPT ![n] = DefaultState]
  /\ outgoing' = [outgoing EXCEPT ![n] = <<>>]
  /\ taken' = [taken EXCEPT ![n] = <<>>]
  /\ UNCHANGED <<chan, minted, seals, opened, sends>>

Next ==
  \/ Tick
  \/ \E n \in Node : Splice(n) \/ Take(n) \/ SendNext(n) \/ ExpireEphemeral(n) \/ Restart(n)
  \/ \E n, p \in Node : Submit(n, p) \/ RequestNodeinfo(n, p) \/ Receive(n, p)
  \/ \E n, p \in Node : \E i \in DOMAIN chan[n][p] :
       Lose(n, p, i) \/ Duplicate(n, p, i) \/ Overtake(n, p, i)

Spec == Init /\ [][Next]_vars

-----------------------------------------------------------------------------
(* Properties *)

Key == Node \X Nat

SessionType ==
  [ seq : Nat, remote_key_seq : Nat, local_key_seq : Nat,
    current : Key, next : Key, recv_pub : Key, send_pub : Key, next_pub : Key,
    recv_nonce : 0..NonceSpace - 1, send_nonce : 0..NonceSpace - 1,
    next_send_nonce : 0..NonceSpace - 1, next_recv_nonce : 0..NonceSpace - 1,
    rotated_at : Nat \cup {None}, active : Nat ]

Body == [what : {"Data", "Req", "Res"}, id : Nat]

Kind == {"Traffic", "Proto"}

BufType ==
  [ send_pub : Key, next_pub : Key, seq : Nat \ {0}, kind : Kind, body : Body,
    deadline : Nat ]

ASSUME NoneAssumption == None \notin SessionType \cup BufType

Parcel == [dest : Node, body : Body]

StateType ==
  [ sessions : [Node -> SessionType \cup {None}], bufs : [Node -> BufType \cup {None}],
    init_seq : Nat, resend : Seq(Parcel) ]

InitType ==
  [type : {"Init", "Ack"}, current : Key, next : Key, key_seq : Nat, seq : Nat \ {0}]

TrafficType ==
  [ type : {"Traffic"}, rks : Nat, lks : Nat, nonce : 0..NonceSpace - 1,
    shared : SUBSET Key, next : Key, kind : Kind, body : Body ]

OpeningType ==
  [from : Node, stretch : [seq : Nat, lead : Int], box : TrafficType]

\* The type invariant of the session tables, the outboxes, the channels and
\* the histories.
TypeOK ==
  /\ now \in 0..MaxTime
  /\ node \in [Node -> StateType]
  /\ outgoing \in [Node -> Seq(Parcel)]
  /\ taken \in [Node -> Seq(Parcel)]
  /\ chan \in [Node -> [Node -> Seq(InitType \cup TrafficType)]]
  /\ minted \in [Node -> Nat]
  /\ seals \in [Node -> Seq(TrafficType)]
  /\ opened \in [Node -> Seq(OpeningType)]
  /\ sends \in Seq([from : Node, to : Node, what : {"Data", "Req"}])
  /\ faults \in 0..MaxFaults

\* No two boxes are sealed under the same secret and nonce, by one end or by
\* both: what encrypt's counter, its wrap, every ratchet and the resend queue
\* must see to together, since the secret of two keys is the same at both ends
\* and apply_update keeps the send nonce while maybe_rotate starts it over.
SealsUnique ==
  \A n, p \in Node : \A i \in DOMAIN seals[n], j \in DOMAIN seals[p] :
    /\ seals[n][i].shared = seals[p][j].shared
    /\ seals[n][i].nonce = seals[p][j].nonce
    => n = p /\ i = j

\* No box is opened twice, however often the network repeats it, before the
\* session applies another init or ack or its send nonce wraps: decrypt's three
\* nonce guards, and the hand-over of the nonce in maybe_rotate, where a key
\* that read as "next" becomes "current" and one that read as "send" becomes
\* "recv".  Past such a point fix_shared has put all three nonces back to 0
\* while two of the keys stay readable, and a box may be opened again.
OpenedOnce ==
  \A n \in Node : \A i, j \in DOMAIN opened[n] :
    /\ opened[n][i].box.shared = opened[n][j].box.shared
    /\ opened[n][i].box.nonce = opened[n][j].box.nonce
    /\ opened[n][i].stretch = opened[n][j].stretch
    => i = j

\* A payload is opened as the kind it was sent as, also after it waited in the
\* slot behind an init: the application's data is never read as a protocol
\* message, and a request or an answer is handed to the application as data
\* only if a write has failed, since the resend queue keeps no kind.
KindKept ==
  \A n \in Node : \A i \in DOMAIN opened[n] :
    /\ opened[n][i].box.kind = "Proto" => opened[n][i].box.body.what # "Data"
    /\ opened[n][i].box.kind = "Traffic" /\ opened[n][i].box.body.what # "Data"
       => "write" \in Faults /\ faults > 0

\* Nothing is on its way or waiting to be.
Still ==
  \A n, p \in Node :
    chan[n][p] = <<>> /\ outgoing[n] = <<>> /\ taken[n] = <<>> /\ node[n].resend = <<>>

=============================================================================
