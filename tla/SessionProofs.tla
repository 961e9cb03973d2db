--------------------------- MODULE SessionProofs ----------------------------
(***************************************************************************)
(* Theorems about the session layer, for every set of routers, every nonce *)
(* space, every timeout and every combination of faults.                   *)
(*                                                                         *)
(* The predicates below take the parts of the state they speak of as       *)
(* parameters: a handler that opens a box and answers it, or opens a       *)
(* session and flushes what waited for it, passes through a state between  *)
(* two steps of the keys that is no state of the specification.            *)
(***************************************************************************)
EXTENDS Session, TLAPS

Msg == InitType \cup TrafficType

\* The types of the parts the argument about keys is about.
Typed(nd, mt, ch, sl, op) ==
  /\ nd \in [Node -> StateType]
  /\ mt \in [Node -> Nat]
  /\ ch \in [Node -> [Node -> Seq(Msg)]]
  /\ sl \in [Node -> Seq(TrafficType)]
  /\ op \in [Node -> Seq(OpeningType)]

-----------------------------------------------------------------------------
(* The inductive invariant *)

\* The keys n has generated so far.
KeysOf(n, mt) == {k \in Key : k[1] = n /\ k[2] <= mt[n]}

\* The private halves n holds for p.
OwnKeys(nd, n, p) ==
  (IF nd[n].sessions[p] # None
   THEN {nd[n].sessions[p].recv_pub, nd[n].sessions[p].send_pub, nd[n].sessions[p].next_pub}
   ELSE {})
  \cup (IF nd[n].bufs[p] # None THEN {nd[n].bufs[p].send_pub, nd[n].bufs[p].next_pub} ELSE {})

\* The one n will seal under for p after the next ratchet.
NextKeys(nd, n, p) ==
  (IF nd[n].sessions[p] # None THEN {nd[n].sessions[p].next_pub} ELSE {})
  \cup (IF nd[n].bufs[p] # None THEN {nd[n].bufs[p].next_pub} ELSE {})

\* The keys whose turn to be sealed under has come: those that exist and are
\* nobody's next.
Shown(nd, mt) ==
  {k \in Key : k[2] <= mt[k[1]] /\ \A n, p \in Node : k \notin NextKeys(nd, n, p)}

\* The keys of a session of n with p: its own are n's, younger from recv to
\* send to next, and of the two it knows of the peer the first has been shown.
SessionKeys(s, n, p, nd, mt) ==
  /\ n # p
  /\ s.current \in Shown(nd, mt) /\ s.current[1] = p
  /\ s.next \in KeysOf(p, mt) /\ s.current[2] < s.next[2]
  /\ s.recv_pub \in KeysOf(n, mt) /\ s.send_pub \in KeysOf(n, mt) /\ s.next_pub \in KeysOf(n, mt)
  /\ s.recv_pub[2] < s.send_pub[2] /\ s.send_pub[2] < s.next_pub[2]

BufKeys(b, n, mt) ==
  /\ b.send_pub \in KeysOf(n, mt) /\ b.next_pub \in KeysOf(n, mt)
  /\ b.send_pub[2] < b.next_pub[2]

\* A peer has a session or a pending open, never both.
Owned(nd, mt) ==
  \A n, p \in Node :
    /\ nd[n].sessions[p] # None => SessionKeys(nd[n].sessions[p], n, p, nd, mt)
    /\ nd[n].bufs[p] # None => BufKeys(nd[n].bufs[p], n, mt) /\ nd[n].sessions[p] = None

\* No key serves for two peers.
Apart(nd) ==
  \A n, p, q \in Node : \A k \in OwnKeys(nd, n, p) : k \in OwnKeys(nd, n, q) => p = q

\* What n may write: an init or ack offers a key that has been shown and a
\* younger one, and traffic is what n has sealed.
Genuine(m, n, nd, mt, sl) ==
  IF m.type = "Traffic" THEN m \in ToSet(sl[n])
  ELSE /\ m.current \in Shown(nd, mt) /\ m.current[1] = n
       /\ m.next \in KeysOf(n, mt) /\ m.current[2] < m.next[2]

Letters(nd, mt, ch, sl) ==
  \A n, p \in Node : ch[n][p] \in Seq({m \in Msg : Genuine(m, n, nd, mt, sl)})

\* A box of n is sealed between a key of n and one of another router, both
\* shown, and names a younger key of n inside.
Box(f, n, nd, mt) ==
  \E c, k \in f.shared :
    /\ f.shared = {c, k}
    /\ k \in Shown(nd, mt) /\ k[1] = n /\ c \in Shown(nd, mt) /\ c[1] # n
    /\ f.next \in KeysOf(n, mt) /\ k[2] < f.next[2]

Boxes(nd, mt, sl) == \A n \in Node : \A i \in DOMAIN sl[n] : Box(sl[n][i], n, nd, mt)

\* Never do two sessions stand at the same secret.
Crossed(s, t) == s.current = t.send_pub /\ t.current = s.send_pub

Uncrossed(nd) ==
  \A n, p, m, q \in Node :
    nd[n].sessions[p] # None /\ nd[m].sessions[q] # None
      => ~Crossed(nd[n].sessions[p], nd[m].sessions[q])

\* The secret s seals under.
Secret(s) == {s.current, s.send_pub}

\* What is sealed under the secret s stands at was sealed by it, with a nonce
\* it has passed, and its send key was used for nothing else.
Passed(s, n, m, f) ==
  /\ f.shared = Secret(s) => m = n /\ f.nonce <= s.send_nonce
  /\ m = n /\ s.send_pub \in f.shared => f.shared = Secret(s)

Sealing(nd, sl) ==
  \A n, p, m \in Node : \A i \in DOMAIN sl[m] :
    nd[n].sessions[p] # None => Passed(nd[n].sessions[p], n, m, sl[m][i])

\* A key is sealed with against one key of the peer only.
Mates(sl) ==
  \A n \in Node : \A i, j \in DOMAIN sl[n] : \A k \in sl[n][i].shared :
    k[1] = n /\ k \in sl[n][j].shared => sl[n][i].shared = sl[n][j].shared

\* SealsUnique, of a given history.
Unrepeated(sl) ==
  \A n, p \in Node : \A i \in DOMAIN sl[n], j \in DOMAIN sl[p] :
    /\ sl[n][i].shared = sl[p][j].shared
    /\ sl[n][i].nonce = sl[p][j].nonce
    => n = p /\ i = j

\* The part about keys and seals.
KeyInv(nd, mt, ch, sl) ==
  /\ Owned(nd, mt) /\ Apart(nd)
  /\ Letters(nd, mt, ch, sl) /\ Boxes(nd, mt, sl)
  /\ Uncrossed(nd) /\ Sealing(nd, sl) /\ Mates(sl) /\ Unrepeated(sl)

\* e was opened before s got to where it is, in an earlier stretch of it or in
\* the present one; in the present one, with keys of the peer that s has come
\* to know and with a nonce that its guards have passed.
Before(e, s, p) ==
  /\ e.stretch.seq <= s.seq
  /\ e.stretch.seq = s.seq => e.stretch.lead <= s.local_key_seq - s.remote_key_seq
  /\ e.stretch = Stretch(s) =>
       /\ \A c \in e.box.shared : c[1] = p => c[2] <= s.next[2]
       /\ e.box.shared = {s.current, s.recv_pub} => e.box.nonce <= s.recv_nonce
       /\ e.box.shared = {s.next, s.send_pub} => e.box.nonce <= s.next_send_nonce
       /\ e.box.shared = {s.next, s.recv_pub} => e.box.nonce <= s.next_recv_nonce

\* What n has opened, against the session and the pending open it has with p:
\* the keys that have not been made known yet have opened nothing.
Seen(e, nd, n, p) ==
  /\ nd[n].sessions[p] # None =>
       /\ nd[n].sessions[p].next_pub \notin e.box.shared
       /\ \/ nd[n].sessions[p].recv_pub \in e.box.shared
          \/ nd[n].sessions[p].send_pub \in e.box.shared
          => Before(e, nd[n].sessions[p], p)
  /\ nd[n].bufs[p] # None =>
       /\ nd[n].bufs[p].send_pub \notin e.box.shared
       /\ nd[n].bufs[p].next_pub \notin e.box.shared

AllSeen(nd, op) ==
  \A n, p \in Node : \A i \in DOMAIN op[n] : Seen(op[n][i], nd, n, p)

\* What was opened had been sealed, by another router.
Authentic(op, sl) ==
  \A n \in Node : \A i \in DOMAIN op[n] :
    op[n][i].from # n /\ op[n][i].box \in ToSet(sl[op[n][i].from])

\* OpenedOnce, of a given history.
Once(op) ==
  \A n \in Node : \A i, j \in DOMAIN op[n] :
    /\ op[n][i].box.shared = op[n][j].box.shared
    /\ op[n][i].box.nonce = op[n][j].box.nonce
    /\ op[n][i].stretch = op[n][j].stretch
    => i = j

\* The part about what was opened.
OpenInv(nd, sl, op) == AllSeen(nd, op) /\ Authentic(op, sl) /\ Once(op)

\* A payload and the kind it travels as, when fl things have gone wrong.
Fitting(kind, body, fl) ==
  /\ kind = "Proto" => body.what # "Data"
  /\ kind = "Traffic" /\ body.what # "Data" => "write" \in Faults /\ fl > 0

\* What may wait in an outbox or for the next link, and what may be sealed.
FitParcel(fl) == {x \in Parcel : Fitting("Traffic", x.body, fl)}
FitFrame(fl) == {f \in TrafficType : Fitting(f.kind, f.body, fl)}

\* A router's failed writes and pending opens.
NodeFits(st, fl) ==
  /\ st.resend \in Seq(FitParcel(fl))
  /\ \A p \in Node : st.bufs[p] # None => Fitting(st.bufs[p].kind, st.bufs[p].body, fl)

\* The part about the kind a payload travels as: wherever it waits, it waits
\* as the kind it will be sealed as.
KindsFit(nd, out, tk, sl, fl) ==
  \A n \in Node :
    /\ NodeFits(nd[n], fl)
    /\ out[n] \in Seq(FitParcel(fl)) /\ tk[n] \in Seq(FitParcel(fl))
    /\ sl[n] \in Seq(FitFrame(fl))

IInv ==
  /\ TypeOK
  /\ KeyInv(node, minted, chan, seals)
  /\ OpenInv(node, seals, opened)
  /\ KindsFit(node, outgoing, taken, seals, faults)

-----------------------------------------------------------------------------
(* Sequences *)

LEMMA SeqGrows ==
  ASSUME NEW S, NEW T, S \subseteq T, NEW s \in Seq(S)
  PROVE  s \in Seq(T)
<1>1. s \in [1 .. Len(s) -> S] /\ Len(s) \in Nat
  OBVIOUS
<1> QED
  BY <1>1

LEMMA TailOf ==
  ASSUME NEW S, NEW s \in Seq(S), s # <<>>
  PROVE  /\ Tail(s) \in Seq(S)
         /\ Head(s) = s[1] /\ Head(s) \in S
         /\ 1 \in DOMAIN s
         /\ \A i \in DOMAIN Tail(s) : i + 1 \in DOMAIN s /\ Tail(s)[i] = s[i + 1]
  OBVIOUS

LEMMA AppendOf ==
  ASSUME NEW S, NEW s \in Seq(S), NEW e \in S
  PROVE  /\ Append(s, e) \in Seq(S)
         /\ Len(Append(s, e)) = Len(s) + 1 /\ Len(s) \in Nat
         /\ DOMAIN Append(s, e) = DOMAIN s \cup {Len(s) + 1}
         /\ \A i \in DOMAIN s : i # Len(s) + 1 /\ Append(s, e)[i] = s[i] /\ s[i] \in S
         /\ Append(s, e)[Len(s) + 1] = e
  OBVIOUS

\* Written behind one another, both keep their elements.
LEMMA ConcatOf ==
  ASSUME NEW S, NEW r \in Seq(S), NEW s \in Seq(S)
  PROVE  r \o s \in Seq(S)
  OBVIOUS

LEMMA RemoveAtOf ==
  ASSUME NEW S, NEW s \in Seq(S), NEW i \in DOMAIN s
  PROVE  RemoveAt(s, i) \in Seq(S)
<1>1. SubSeq(s, 1, i - 1) \in Seq(S) /\ SubSeq(s, i + 1, Len(s)) \in Seq(S)
  OBVIOUS
<1> QED
  BY <1>1 DEF RemoveAt

LEMMA InsertAtOf ==
  ASSUME NEW S, NEW s \in Seq(S), NEW i \in DOMAIN s
  PROVE  InsertAt(s, i, s[i]) \in Seq(S)
<1>1. SubSeq(s, 1, i - 1) \in Seq(S) /\ SubSeq(s, i, Len(s)) \in Seq(S) /\ <<s[i]>> \in Seq(S)
  OBVIOUS
<1>2. SubSeq(s, 1, i - 1) \o <<s[i]>> \in Seq(S)
  BY <1>1, ConcatOf
<1> QED
  BY <1>1, <1>2, ConcatOf DEF InsertAt

LEMMA SwapOf ==
  ASSUME NEW S, NEW s \in Seq(S), NEW i \in DOMAIN s, i < Len(s)
  PROVE  [s EXCEPT ![i] = s[i+1], ![i+1] = s[i]] \in Seq(S)
<1>1. i \in 1 .. Len(s) /\ Len(s) \in Nat /\ i + 1 \in DOMAIN s
  OBVIOUS
<1> DEFINE a == [s EXCEPT ![i] = s[i+1]]
           b == [a EXCEPT ![i+1] = s[i]]
<1>2. [s EXCEPT ![i] = s[i+1], ![i+1] = s[i]] = b
  OBVIOUS
<1>3. a \in Seq(S) /\ DOMAIN a = DOMAIN s
  BY <1>1
<1> HIDE DEF a
<1>4. b \in Seq(S)
  BY <1>1, <1>3
<1> QED
  BY <1>2, <1>4

\* The elements of a sequence, and of what is made of them.
LEMMA ElementsOf ==
  ASSUME NEW S, NEW s \in Seq(S)
  PROVE  s \in Seq(ToSet(s)) /\ \A i \in DOMAIN s : s[i] \in ToSet(s)
<1>1. s \in [1 .. Len(s) -> ToSet(s)] /\ Len(s) \in Nat
  BY DEF ToSet
<1> QED
  BY <1>1

-----------------------------------------------------------------------------
(* Types *)

Nonce == 0 .. NonceSpace - 1

LEMMA RatchetType ==
  ASSUME NEW s \in SessionType, NEW key \in Key, NEW r \in Nonce, NEW t \in Nonce
  PROVE  Ratchet(s, key, r, t) \in SessionType
<1>1. 0 \in Nonce
  BY NonceAssumption DEF Nonce
<1>2. s.send_pub \in Key /\ s.next_pub \in Key /\ s.local_key_seq + 1 \in Nat
  BY DEF SessionType
<1> DEFINE a == [s EXCEPT !.recv_pub = s.send_pub, !.send_pub = s.next_pub, !.next_pub = key,
                          !.local_key_seq = s.local_key_seq + 1]
<1>3. a \in SessionType
  BY <1>2 DEF SessionType
<1>4. Ratchet(s, key, r, t)
      = [a EXCEPT !.recv_nonce = r, !.send_nonce = t, !.next_send_nonce = 0, !.next_recv_nonce = 0]
  BY DEF Ratchet, SessionType
<1> HIDE DEF a
<1> QED
  BY <1>1, <1>3, <1>4 DEF SessionType, Nonce

LEMMA ApplyUpdateType ==
  ASSUME NEW s \in SessionType, NEW init \in InitType, NEW key \in Key
  PROVE  ApplyUpdate(s, init, key) \in SessionType
<1> DEFINE t == Ratchet(s, key, 0, s.send_nonce)
<1>1. 0 \in Nonce /\ s.send_nonce \in Nonce
  BY NonceAssumption DEF Nonce, SessionType
<1>2. t \in SessionType
  BY <1>1, RatchetType
<1>3. init.current \in Key /\ init.next \in Key /\ init.seq \in Nat /\ init.key_seq \in Nat
  BY DEF InitType
<1> HIDE DEF t
<1>4. [t EXCEPT !.current = init.current, !.next = init.next, !.seq = init.seq,
                !.remote_key_seq = init.key_seq] \in SessionType
  BY <1>2, <1>3 DEF SessionType
<1> QED
  BY <1>4 DEF t, ApplyUpdate

LEMMA EncryptType ==
  ASSUME NEW s \in SessionType, NEW key \in Key
  PROVE  Encrypt(s, key) \in SessionType
<1> DEFINE nonce == (s.send_nonce + 1) % NonceSpace
<1>1. 0 \in Nonce /\ s.send_nonce \in Nat
  BY NonceAssumption DEF Nonce, SessionType
<1>2. nonce \in Nonce
  BY <1>1, NonceAssumption DEF Nonce
<1> HIDE DEF nonce
<1>3. [s EXCEPT !.send_nonce = nonce] \in SessionType
  BY <1>2 DEF SessionType, Nonce
<1>4. Ratchet(s, key, 0, 0) \in SessionType
  BY <1>1, RatchetType
<1> QED
  BY <1>3, <1>4 DEF Encrypt, nonce

LEMMA ActiveType ==
  ASSUME NEW s \in SessionType, now \in Nat
  PROVE  [s EXCEPT !.active = now] \in SessionType
BY DEF SessionType

LEMMA SealedType ==
  ASSUME NEW s \in SessionType, NEW kind \in Kind, NEW body \in Body
  PROVE  Sealed(s, kind, body) \in TrafficType
BY DEF Sealed, SessionType, TrafficType

LEMMA MakeInitType ==
  ASSUME NEW s \in SessionType, NEW type \in {"Init", "Ack"}, NEW seq \in Nat \ {0}
  PROVE  MakeInit(type, s, seq) \in InitType
BY DEF MakeInit, SessionType, InitType

LEMMA RotateType ==
  ASSUME NEW s \in SessionType, NEW m \in TrafficType, NEW key \in Key, now \in Nat
  PROVE  Rotate(s, m, key) \in SessionType
<1> DEFINE t == Ratchet(s, key, m.nonce, 0)
<1>1. 0 \in Nonce /\ m.nonce \in Nonce
  BY NonceAssumption DEF Nonce, TrafficType
<1>2. t \in SessionType
  BY <1>1, RatchetType
<1>3. s.next \in Key /\ m.next \in Key
  BY DEF SessionType, TrafficType
<1> HIDE DEF t
<1>4. t.remote_key_seq + 1 \in Nat
  BY <1>2 DEF SessionType
<1>5. [t EXCEPT !.current = s.next, !.next = m.next, !.remote_key_seq = t.remote_key_seq + 1,
                !.rotated_at = now] \in SessionType
  BY <1>2, <1>3, <1>4 DEF SessionType
<1>6. [t EXCEPT !.current = s.next, !.next = m.next, !.remote_key_seq = @ + 1,
                !.rotated_at = now]
      = [t EXCEPT !.current = s.next, !.next = m.next, !.remote_key_seq = t.remote_key_seq + 1,
                  !.rotated_at = now]
  BY <1>2 DEF SessionType
<1> QED
  BY <1>5, <1>6 DEF t, Rotate

\* The nonce an opening leaves behind.
Noted(s, o, m) ==
  [s EXCEPT
     !.recv_nonce      = IF o.slot = "recv" THEN m.nonce ELSE @,
     !.next_send_nonce = IF o.slot = "next_send" THEN m.nonce ELSE @,
     !.next_recv_nonce = IF o.slot = "next_recv" THEN m.nonce ELSE @]

LEMMA NotedType ==
  ASSUME NEW s \in SessionType, NEW o, NEW m \in TrafficType
  PROVE  Noted(s, o, m) \in SessionType
<1>1. m.nonce \in Nonce
  BY DEF TrafficType, Nonce
<1> QED
  BY <1>1 DEF Noted, SessionType, Nonce

LEMMA DecryptType ==
  ASSUME NEW s \in SessionType, NEW o, NEW m \in TrafficType, NEW key \in Key, now \in Nat
  PROVE  Decrypt(s, o, m, key) \in SessionType
<1>1. Decrypt(s, o, m, key) = IF o.slot # "recv" /\ RotationDue(s)
                              THEN Rotate(Noted(s, o, m), m, key) ELSE Noted(s, o, m)
  BY DEF Decrypt, Noted
<1> QED
  BY <1>1, NotedType, RotateType

LEMMA FreshType ==
  ASSUME minted \in [Node -> Nat], NEW n \in Node, NEW i \in Nat
  PROVE  Fresh(n, i) \in Key /\ Fresh(n, i)[1] = n /\ Fresh(n, i)[2] = minted[n] + i
BY DEF Fresh, Key

LEMMA NewSessionType ==
  ASSUME minted \in [Node -> Nat], NEW n \in Node, NEW init \in InitType,
         NEW buf \in BufType \cup {None}, now \in Nat
  PROVE  NewSession(n, init, buf) \in SessionType
<1> DEFINE s == ForInit(init, Fresh(n, 1), Fresh(n, 2), Fresh(n, 3))
           t == IF buf = None THEN s ELSE AdoptBuffered(s, buf)
<1>1. Fresh(n, 1) \in Key /\ Fresh(n, 2) \in Key /\ Fresh(n, 3) \in Key /\ Fresh(n, 4) \in Key
  BY FreshType
<1>2. s \in SessionType
  <2>1. init.seq - 1 \in Nat /\ init.current \in Key /\ init.next \in Key
    BY DEF InitType
  <2>2. 0 \in Nonce
    BY NonceAssumption DEF Nonce
  <2> QED
    BY <1>1, <2>1, <2>2 DEF ForInit, SessionType, Nonce
<1>3. t \in SessionType
  <2> HIDE DEF s
  <2>1. ASSUME buf # None
        PROVE  AdoptBuffered(s, buf) \in SessionType
    <3>1. buf.send_pub \in Key /\ buf.next_pub \in Key
      BY <2>1 DEF BufType
    <3> QED
      BY <1>2, <3>1 DEF AdoptBuffered, SessionType
  <2> QED
    BY <1>2, <2>1
<1> HIDE DEF t
<1>4. ApplyUpdate(t, init, Fresh(n, 4)) \in SessionType
  BY <1>1, <1>3, ApplyUpdateType
<1> QED
  BY <1>4 DEF NewSession, t

LEMMA NextInitSeqType ==
  ASSUME NEW st \in StateType, now \in Nat
  PROVE  NextInitSeq(st) \in Nat \ {0}
BY DEF NextInitSeq, StateType

\* A record of the state with a session, a pending open or a number replaced.
LEMMA StateUpdates ==
  ASSUME NEW st \in StateType, NEW p \in Node
  PROVE  /\ st.sessions[p] \in SessionType \cup {None} /\ st.bufs[p] \in BufType \cup {None}
         /\ st.init_seq \in Nat /\ st.resend \in Seq(Parcel)
         /\ \A s \in SessionType \cup {None} : [st EXCEPT !.sessions[p] = s] \in StateType
         /\ \A b \in BufType \cup {None} : [st EXCEPT !.bufs[p] = b] \in StateType
         /\ \A i \in Nat : [st EXCEPT !.init_seq = i] \in StateType
         /\ \A r \in Seq(Parcel) : [st EXCEPT !.resend = r] \in StateType
<1>1. /\ st.sessions[p] \in SessionType \cup {None} /\ st.bufs[p] \in BufType \cup {None}
      /\ st.init_seq \in Nat /\ st.resend \in Seq(Parcel)
  BY DEF StateType
<1>2. ASSUME NEW s \in SessionType \cup {None}
      PROVE  [st EXCEPT !.sessions[p] = s] \in StateType
  BY DEF StateType
<1>3. ASSUME NEW b \in BufType \cup {None}
      PROVE  [st EXCEPT !.bufs[p] = b] \in StateType
  BY DEF StateType
<1>4. ASSUME NEW i \in Nat
      PROVE  [st EXCEPT !.init_seq = i] \in StateType
  BY DEF StateType
<1>5. ASSUME NEW r \in Seq(Parcel)
      PROVE  [st EXCEPT !.resend = r] \in StateType
  BY DEF StateType
<1> QED
  BY <1>1, <1>2, <1>3, <1>4, <1>5

\* The channels after a step of n that answers p.
Written(ch, n, p, rest, frames) ==
  [ch EXCEPT ![p][n] = rest, ![n][p] = ch[n][p] \o frames]

\* A step reads from one channel and writes to the one back: each keeps to the
\* messages its sender may write.
LEMMA StepChannels ==
  ASSUME NEW G \in [Node -> SUBSET Msg], NEW ch \in [Node -> [Node -> Seq(Msg)]],
         NEW n \in Node, NEW p \in Node,
         \A x, y \in Node : ch[x][y] \in Seq(G[x]),
         NEW rest \in Seq(G[p]), NEW frames \in Seq(G[n])
  PROVE  /\ Written(ch, n, p, rest, frames) \in [Node -> [Node -> Seq(Msg)]]
         /\ \A x, y \in Node : Written(ch, n, p, rest, frames)[x][y] \in Seq(G[x])
<1> DEFINE a == [ch EXCEPT ![p][n] = rest]
           more == ch[n][p] \o frames
           ch2 == [a EXCEPT ![n][p] = more]
<1>1. rest \in Seq(Msg) /\ frames \in Seq(Msg)
  BY SeqGrows
<1>2. more \in Seq(G[n]) /\ more \in Seq(Msg)
  BY <1>1, ConcatOf
<1>3. /\ a \in [Node -> [Node -> Seq(Msg)]]
      /\ \A x, y \in Node : a[x][y] = IF x = p /\ y = n THEN rest ELSE ch[x][y]
  BY <1>1
<1> HIDE DEF more
<1>4. Written(ch, n, p, rest, frames) = ch2
  BY DEF more, Written
<1> HIDE DEF a
<1>5. /\ ch2 \in [Node -> [Node -> Seq(Msg)]]
      /\ \A x, y \in Node : ch2[x][y] = IF x = n /\ y = p THEN more ELSE a[x][y]
  <2>1. a \in [Node -> [Node -> Seq(Msg)]] /\ more \in Seq(Msg)
    BY <1>2, <1>3
  <2> QED
    BY <2>1
<1> HIDE DEF ch2
<1>6. ASSUME NEW x \in Node, NEW y \in Node
      PROVE  ch2[x][y] \in Seq(G[x])
  <2>1. CASE x = n /\ y = p
    BY <1>2, <1>5, <2>1
  <2>2. CASE ~(x = n /\ y = p)
    <3>1. ch2[x][y] = a[x][y]
      BY <1>5, <2>2
    <3>2. CASE x = p /\ y = n
      <4>1. ch2[x][y] = rest
        BY <1>3, <3>1, <3>2
      <4> QED
        BY <3>2, <4>1
    <3>3. CASE ~(x = p /\ y = n)
      <4>1. ch2[x][y] = ch[x][y]
        BY <1>3, <3>1, <3>3
      <4> QED
        BY <4>1
    <3> QED
      BY <3>2, <3>3
  <2> QED
    BY <2>1, <2>2
<1> QED
  BY <1>4, <1>5, <1>6

\* The parts of TypeOK the actions of a router change.
Types(nd, mt, ch, sl) ==
  /\ nd \in [Node -> StateType]
  /\ mt \in [Node -> Nat]
  /\ ch \in [Node -> [Node -> Seq(Msg)]]
  /\ sl \in [Node -> Seq(TrafficType)]

LEMMA StepType ==
  ASSUME Types(node, minted, chan, seals), NEW n \in Node, NEW p \in Node, NEW st \in StateType,
         NEW rest \in Seq(Msg), NEW frames \in Seq(Msg), NEW used \in Nat,
         Step(n, p, st, rest, frames, used)
  PROVE  /\ node' \in [Node -> StateType] /\ node'[n] = st
         /\ \A m \in Node : m # n => node'[m] = node[m]
         /\ minted' \in [Node -> Nat] /\ minted'[n] = minted[n] + used
         /\ \A m \in Node : m # n => minted'[m] = minted[m]
         /\ chan' \in [Node -> [Node -> Seq(Msg)]]
<1> USE DEF Types
<1>1. node' \in [Node -> StateType] /\ node'[n] = st /\ \A m \in Node : m # n => node'[m] = node[m]
  BY DEF Step
<1>2. /\ minted' \in [Node -> Nat] /\ minted'[n] = minted[n] + used
      /\ \A m \in Node : m # n => minted'[m] = minted[m]
  BY DEF Step
<1>3. chan' \in [Node -> [Node -> Seq(Msg)]]
  <2> DEFINE G == [x \in Node |-> Msg]
  <2>1. /\ G \in [Node -> SUBSET Msg] /\ rest \in Seq(G[p]) /\ frames \in Seq(G[n])
        /\ \A x, y \in Node : chan[x][y] \in Seq(G[x])
    OBVIOUS
  <2>2. chan' = Written(chan, n, p, rest, frames)
    BY DEF Step, Written
  <2>3. chan \in [Node -> [Node -> Seq(Msg)]]
    OBVIOUS
  <2> HIDE DEF G, Types
  <2> QED
    BY <2>1, <2>2, <2>3, StepChannels
<1> QED
  BY <1>1, <1>2, <1>3

LEMMA TypedState ==
  ASSUME TypeOK
  PROVE  /\ Types(node, minted, chan, seals) /\ now \in Nat
         /\ opened \in [Node -> Seq(OpeningType)]
BY BoundAssumption DEF TypeOK, Types, Msg

LEMMA RecordOf ==
  ASSUME NEW S, NEW h \in [Node -> Seq(S)], NEW n \in Node, NEW e \in S
  PROVE  /\ Record(h, n, e) \in [Node -> Seq(S)]
         /\ Record(h, n, e)[n] = Append(h[n], e)
         /\ \A m \in Node : m # n => Record(h, n, e)[m] = h[m]
<1>1. Append(h[n], e) \in Seq(S)
  OBVIOUS
<1> QED
  BY <1>1 DEF Record

LEMMA IfType ==
  ASSUME NEW S, NEW sent \in BOOLEAN, NEW m \in S
  PROVE  If(sent, m) \in Seq(S)
BY DEF If

LEMMA WriteType ==
  ASSUME faults \in 0 .. MaxFaults, NEW sent \in BOOLEAN, Write(sent)
  PROVE  faults' \in 0 .. MaxFaults /\ faults <= faults'
BY BoundAssumption DEF Write, Fault

\* What the message at the head of a channel is.
LEMMA HeadType ==
  ASSUME Types(node, minted, chan, seals), NEW n \in Node, NEW p \in Node, NEW types,
         Arrives(n, p, types)
  PROVE  /\ n # p /\ Head(chan[p][n]) \in Msg /\ Tail(chan[p][n]) \in Seq(Msg)
         /\ Head(chan[p][n]).type \in types
         /\ Head(chan[p][n]).type = "Traffic" => Head(chan[p][n]) \in TrafficType
         /\ Head(chan[p][n]).type # "Traffic" => Head(chan[p][n]) \in InitType
<1>1. chan[p][n] \in Seq(Msg) /\ chan[p][n] # <<>> /\ n # p /\ Head(chan[p][n]).type \in types
  BY DEF Arrives, Types
<1>2. Head(chan[p][n]) \in Msg /\ Tail(chan[p][n]) \in Seq(Msg)
  BY <1>1, TailOf
<1>3. \A m \in Msg : (m.type = "Traffic" => m \in TrafficType) /\ (m.type # "Traffic" => m \in InitType)
  BY DEF Msg, TrafficType, InitType
<1> QED
  BY <1>1, <1>2, <1>3

\* The session after encrypt.
Encrypted(s, key) == [Encrypt(s, key) EXCEPT !.active = now]

\* The resend queue after a write that succeeded or failed.
Resent(st, p, body, sent) ==
  IF sent THEN st.resend ELSE Append(st.resend, [dest |-> p, body |-> body])

LEMMA SendInnerType ==
  ASSUME NEW st \in StateType, NEW p \in Node, st.sessions[p] \in SessionType,
         NEW body \in Body, NEW sent \in BOOLEAN, NEW key \in Key, now \in Nat
  PROVE  /\ SendInner(st, p, body, sent, key) \in StateType
         /\ SendInner(st, p, body, sent, key).sessions[p] = Encrypted(st.sessions[p], key)
         /\ SendInner(st, p, body, sent, key).sessions[p] \in SessionType
         /\ \A q \in Node : q # p => SendInner(st, p, body, sent, key).sessions[q] = st.sessions[q]
         /\ SendInner(st, p, body, sent, key).bufs = st.bufs
         /\ SendInner(st, p, body, sent, key).init_seq = st.init_seq
         /\ SendInner(st, p, body, sent, key).resend = Resent(st, p, body, sent)
<1> DEFINE s == Encrypted(st.sessions[p], key)
           r == IF sent THEN st.resend ELSE Append(st.resend, [dest |-> p, body |-> body])
           a == [st EXCEPT !.sessions[p] = s]
           b == [a EXCEPT !.resend = r]
<1>1. s \in SessionType
  BY EncryptType, ActiveType DEF Encrypted
<1>2. r \in Seq(Parcel)
  <2>1. st.resend \in Seq(Parcel) /\ [dest |-> p, body |-> body] \in Parcel
    BY DEF StateType, Parcel
  <2> QED
    BY <2>1
<1>3. SendInner(st, p, body, sent, key) = b
  BY DEF SendInner, Encrypted
<1> HIDE DEF s, r
<1>4. /\ a \in StateType /\ a.sessions[p] = s /\ a.bufs = st.bufs /\ a.init_seq = st.init_seq
      /\ \A q \in Node : q # p => a.sessions[q] = st.sessions[q]
  <2>1. a \in StateType
    BY <1>1, StateUpdates
  <2>2. a.bufs = st.bufs /\ a.init_seq = st.init_seq
    BY DEF StateType
  <2>3. st.sessions \in [Node -> SessionType \cup {None}]
    BY DEF StateType
  <2>4. a.sessions = [st.sessions EXCEPT ![p] = s]
    BY DEF StateType
  <2>5. a.sessions[p] = s /\ \A q \in Node : q # p => a.sessions[q] = st.sessions[q]
    BY <2>3, <2>4
  <2> QED
    BY <2>1, <2>2, <2>5
<1> HIDE DEF a
<1>5. /\ b \in StateType /\ b.sessions = a.sessions /\ b.bufs = a.bufs /\ b.init_seq = a.init_seq
      /\ b.resend = r
  BY <1>2, <1>4 DEF StateType
<1> QED
  BY <1>1, <1>3, <1>4, <1>5 DEF s, r, Resent

-----------------------------------------------------------------------------
(* Keys *)

Grown(mt, mt2) == mt2 \in [Node -> Nat] /\ \A m \in Node : mt[m] <= mt2[m]

\* k was generated by n between mt and mt2.
New(k, n, mt, mt2) == k \in KeysOf(n, mt2) /\ mt[n] < k[2]

\* Next keys are those of before, or new.
NextFrom(nd, nd2, mt) ==
  \A m, q \in Node : \A k \in NextKeys(nd2, m, q) :
    k \in NextKeys(nd, m, q) \/ mt[k[1]] < k[2]

\* The keys that exist and the keys that have been shown, then and now.
MoreKeys(nd, nd2, mt, mt2) ==
  /\ Shown(nd, mt) \subseteq Shown(nd2, mt2)
  /\ \A n \in Node : KeysOf(n, mt) \subseteq KeysOf(n, mt2)

\* A key that was shown remains so.
LEMMA ShownGrows ==
  ASSUME NEW nd, NEW nd2, NEW mt \in [Node -> Nat], NEW mt2, Grown(mt, mt2), NextFrom(nd, nd2, mt)
  PROVE  MoreKeys(nd, nd2, mt, mt2)
<1>1. \A n \in Node : KeysOf(n, mt) \subseteq KeysOf(n, mt2)
  BY DEF KeysOf, Grown, Key
<1>2. ASSUME NEW k \in Shown(nd, mt)
      PROVE  k \in Shown(nd2, mt2)
  <2>1. k \in Key /\ k[1] \in Node /\ k[2] \in Nat /\ k[2] <= mt[k[1]]
    BY DEF Shown, Key
  <2>2. k[2] <= mt2[k[1]]
    BY <2>1 DEF Grown
  <2>3. \A m, q \in Node : k \notin NextKeys(nd2, m, q)
    <3> SUFFICES ASSUME NEW m \in Node, NEW q \in Node, k \in NextKeys(nd2, m, q)
                 PROVE  FALSE
      OBVIOUS
    <3>1. ~(mt[k[1]] < k[2])
      BY <2>1
    <3>2. k \in NextKeys(nd, m, q)
      BY <3>1 DEF NextFrom
    <3> QED
      BY <3>2 DEF Shown
  <2> QED
    BY <2>1, <2>2, <2>3 DEF Shown
<1> QED
  BY <1>1, <1>2 DEF MoreKeys

\* What was written stays genuine.
LEMMA LettersStay ==
  ASSUME NEW nd, NEW nd2, NEW mt, NEW mt2, NEW sl, NEW sl2,
         NEW ch \in [Node -> [Node -> Seq(Msg)]],
         Letters(nd, mt, ch, sl), MoreKeys(nd, nd2, mt, mt2),
         \A n \in Node : ToSet(sl[n]) \subseteq ToSet(sl2[n])
  PROVE  Letters(nd2, mt2, ch, sl2)
<1> SUFFICES ASSUME NEW n \in Node, NEW p \in Node
             PROVE  ch[n][p] \in Seq({m \in Msg : Genuine(m, n, nd2, mt2, sl2)})
  BY DEF Letters
<1> DEFINE A == {m \in Msg : Genuine(m, n, nd, mt, sl)}
           B == {m \in Msg : Genuine(m, n, nd2, mt2, sl2)}
<1>1. A \subseteq B
  BY DEF Genuine, MoreKeys
<1>2. ch[n][p] \in Seq(A)
  BY DEF Letters
<1> HIDE DEF A, B
<1>3. ch[n][p] \in Seq(B)
  BY <1>1, <1>2, SeqGrows
<1> QED
  BY <1>3 DEF B

LEMMA BoxesStay ==
  ASSUME NEW nd, NEW nd2, NEW mt, NEW mt2, NEW sl,
         Boxes(nd, mt, sl), MoreKeys(nd, nd2, mt, mt2)
  PROVE  Boxes(nd2, mt2, sl)
BY DEF Boxes, Box, MoreKeys

LEMMA SessionKeysStay ==
  ASSUME NEW nd, NEW nd2, NEW mt, NEW mt2, MoreKeys(nd, nd2, mt, mt2),
         NEW n \in Node, NEW p \in Node, NEW s, SessionKeys(s, n, p, nd, mt)
  PROVE  SessionKeys(s, n, p, nd2, mt2)
BY DEF SessionKeys, MoreKeys

LEMMA BufKeysStay ==
  ASSUME NEW nd, NEW nd2, NEW mt, NEW mt2, MoreKeys(nd, nd2, mt, mt2),
         NEW n \in Node, NEW b, BufKeys(b, n, mt)
  PROVE  BufKeys(b, n, mt2)
BY DEF BufKeys, MoreKeys

\* Both ends of a seal are shown keys, and so is the one a session seals to.
LEMMA SharedShown ==
  ASSUME NEW nd, NEW mt, NEW sl, Boxes(nd, mt, sl), NEW n \in Node, NEW i \in DOMAIN sl[n]
  PROVE  sl[n][i].shared \subseteq Shown(nd, mt)
<1>1. PICK c, k \in sl[n][i].shared :
             sl[n][i].shared = {c, k} /\ k \in Shown(nd, mt) /\ c \in Shown(nd, mt)
  BY DEF Boxes, Box
<1> QED
  BY <1>1

LEMMA CurrentShown ==
  ASSUME NEW nd, NEW mt, Owned(nd, mt), NEW n \in Node, NEW p \in Node, nd[n].sessions[p] # None
  PROVE  nd[n].sessions[p].current \in Shown(nd, mt)
BY DEF Owned, SessionKeys

\* Only what n has with p changes.
Only(nd, nd2, n, p) ==
  \A m, q \in Node : m # n \/ q # p =>
    nd2[m].sessions[q] = nd[m].sessions[q] /\ nd2[m].bufs[q] = nd[m].bufs[q]

\* A session is opened or ratchets: it seals under a key that was to be next,
\* or is new, against one that has been shown.
Turned(nd, nd2, mt, mt2, n, p) ==
  LET t == nd2[n].sessions[p]
  IN  /\ Only(nd, nd2, n, p) /\ Grown(mt, mt2) /\ n # p
      /\ t # None /\ nd2[n].bufs[p] = None
      /\ New(t.next_pub, n, mt, mt2)
      /\ t.send_pub \in NextKeys(nd, n, p) \/ New(t.send_pub, n, mt, mt2)
      /\ t.recv_pub \in OwnKeys(nd, n, p) \/ New(t.recv_pub, n, mt, mt2)
      /\ t.recv_pub[2] < t.send_pub[2] /\ t.send_pub[2] < t.next_pub[2]
      /\ t.current \in Shown(nd, mt) /\ t.current[1] = p
      /\ t.next \in KeysOf(p, mt) /\ t.current[2] < t.next[2]

LEMMA OwnKeysOwned ==
  ASSUME NEW nd, NEW mt, Owned(nd, mt), NEW n \in Node, NEW p \in Node, NEW k \in OwnKeys(nd, n, p)
  PROVE  k \in KeysOf(n, mt) /\ k \in Key /\ k[1] = n /\ k[2] <= mt[n]
BY DEF Owned, OwnKeys, SessionKeys, BufKeys, KeysOf

LEMMA NextKeysOwn ==
  ASSUME NEW nd, NEW n, NEW p, NEW k \in NextKeys(nd, n, p)
  PROVE  k \in OwnKeys(nd, n, p)
BY DEF NextKeys, OwnKeys

\* The keys of a turned session, in the terms of the state before.
LEMMA TurnedKeys ==
  ASSUME NEW nd, NEW nd2, NEW mt \in [Node -> Nat], NEW mt2, NEW n \in Node, NEW p \in Node,
         Owned(nd, mt), Turned(nd, nd2, mt, mt2, n, p)
  PROVE  /\ OwnKeys(nd2, n, p) = {nd2[n].sessions[p].recv_pub, nd2[n].sessions[p].send_pub,
                                    nd2[n].sessions[p].next_pub}
         /\ \A k \in OwnKeys(nd2, n, p) : k \in OwnKeys(nd, n, p) \/ New(k, n, mt, mt2)
         /\ \A k \in OwnKeys(nd2, n, p) : k \in KeysOf(n, mt2)
         /\ NextFrom(nd, nd2, mt)
         /\ nd2[n].sessions[p].send_pub \notin Shown(nd, mt)
<1> DEFINE t == nd2[n].sessions[p]
<1>1. /\ NextKeys(nd2, n, p) = {t.next_pub}
      /\ OwnKeys(nd2, n, p) = {t.recv_pub, t.send_pub, t.next_pub}
  BY DEF NextKeys, OwnKeys, Turned
<1>2. \A k \in OwnKeys(nd2, n, p) : k \in OwnKeys(nd, n, p) \/ New(k, n, mt, mt2)
  BY <1>1, NextKeysOwn DEF Turned
<1>3. Grown(mt, mt2) /\ KeysOf(n, mt) \subseteq KeysOf(n, mt2)
  BY DEF KeysOf, Grown, Key, Turned
<1>4. \A k \in OwnKeys(nd2, n, p) : k \in KeysOf(n, mt2)
  BY <1>2, <1>3, OwnKeysOwned DEF New
<1>5. t.next_pub[1] = n /\ mt[n] < t.next_pub[2]
  BY DEF Turned, New, KeysOf
<1>6. NextFrom(nd, nd2, mt)
  <2> SUFFICES ASSUME NEW m \in Node, NEW q \in Node, NEW k \in NextKeys(nd2, m, q)
               PROVE  k \in NextKeys(nd, m, q) \/ mt[k[1]] < k[2]
    BY DEF NextFrom
  <2>1. CASE m = n /\ q = p
    BY <1>1, <1>5, <2>1
  <2>2. CASE m # n \/ q # p
    BY <2>2 DEF Turned, Only, NextKeys
  <2> QED
    BY <2>1, <2>2
<1>7. t.send_pub \notin Shown(nd, mt)
  <2>1. CASE t.send_pub \in NextKeys(nd, n, p)
    BY <2>1 DEF Shown
  <2>2. CASE New(t.send_pub, n, mt, mt2)
    BY <2>2 DEF Shown, New, KeysOf, Key
  <2> QED
    BY <2>1, <2>2 DEF Turned
<1> QED
  BY <1>1, <1>2, <1>4, <1>6, <1>7

\* The keys of different peers stay apart when one of them gets new ones.
LEMMA ApartStays ==
  ASSUME NEW nd, NEW nd2, NEW mt \in [Node -> Nat], NEW mt2, NEW n \in Node, NEW p \in Node,
         Owned(nd, mt), Apart(nd), Only(nd, nd2, n, p),
         \A k \in OwnKeys(nd2, n, p) : k \in OwnKeys(nd, n, p) \/ New(k, n, mt, mt2)
  PROVE  Apart(nd2)
<1> SUFFICES ASSUME NEW m \in Node, NEW q \in Node, NEW r \in Node, q # r,
                    NEW k \in OwnKeys(nd2, m, q), k \in OwnKeys(nd2, m, r)
             PROVE  FALSE
  BY DEF Apart
<1>1. \A q2 \in Node : m # n \/ q2 # p => OwnKeys(nd2, m, q2) = OwnKeys(nd, m, q2)
  BY DEF Only, OwnKeys
<1>2. ASSUME NEW x \in Node, NEW y \in Node, x # y, m # n \/ y # p,
             k \in OwnKeys(nd2, m, x), k \in OwnKeys(nd2, m, y)
      PROVE  FALSE
  <2>1. k \in OwnKeys(nd, m, y) /\ k[2] <= mt[m] /\ k[1] = m /\ k \in Key
    BY <1>1, <1>2, OwnKeysOwned
  <2>2. k \in OwnKeys(nd, m, x)
    <3>1. CASE m # n \/ x # p
      BY <1>1, <1>2, <3>1
    <3>2. CASE m = n /\ x = p
      <4>1. ~New(k, n, mt, mt2)
        BY <2>1, <3>2 DEF New, Key
      <4> QED
        BY <1>2, <3>2, <4>1
    <3> QED
      BY <3>1, <3>2
  <2> QED
    BY <1>2, <2>1, <2>2 DEF Apart
<1>3. CASE m # n \/ r # p
  BY <1>2, <1>3
<1>4. CASE m = n /\ r = p
  <2>1. q # p
    BY <1>4
  <2> QED
    BY <1>2, <2>1
<1> QED
  BY <1>3, <1>4

\* The keys a session or a pending open has announced are nobody's next.
LEMMA SendKeysShown ==
  ASSUME NEW nd, NEW mt \in [Node -> Nat], Owned(nd, mt), Apart(nd), NEW n \in Node, NEW p \in Node
  PROVE  /\ nd[n].sessions[p] # None => nd[n].sessions[p].send_pub \in Shown(nd, mt)
         /\ nd[n].bufs[p] # None => nd[n].bufs[p].send_pub \in Shown(nd, mt)
<1>1. ASSUME NEW k \in OwnKeys(nd, n, p), k \notin NextKeys(nd, n, p)
      PROVE  k \in Shown(nd, mt)
  <2>1. k \in Key /\ k[1] = n /\ k[2] <= mt[k[1]]
    BY OwnKeysOwned
  <2>2. ASSUME NEW m \in Node, NEW q \in Node, k \in NextKeys(nd, m, q)
        PROVE  FALSE
    <3>1. k \in OwnKeys(nd, m, q)
      BY <2>2, NextKeysOwn
    <3>2. m = n
      BY <2>1, <3>1, OwnKeysOwned
    <3>3. q = p
      BY <3>1, <3>2 DEF Apart
    <3> QED
      BY <1>1, <2>2, <3>2, <3>3
  <2> QED
    BY <2>1, <2>2 DEF Shown
<1>2. ASSUME nd[n].sessions[p] # None
      PROVE  nd[n].sessions[p].send_pub \in Shown(nd, mt)
  <2> DEFINE s == nd[n].sessions[p]
  <2>1. SessionKeys(s, n, p, nd, mt) /\ nd[n].bufs[p] = None
    BY <1>2 DEF Owned
  <2>2. s.send_pub # s.next_pub
    BY <2>1 DEF SessionKeys, KeysOf, Key
  <2>3. s.send_pub \in OwnKeys(nd, n, p) /\ s.send_pub \notin NextKeys(nd, n, p)
    BY <1>2, <2>1, <2>2 DEF OwnKeys, NextKeys
  <2> QED
    BY <1>1, <2>3
<1>3. ASSUME nd[n].bufs[p] # None
      PROVE  nd[n].bufs[p].send_pub \in Shown(nd, mt)
  <2> DEFINE b == nd[n].bufs[p]
  <2>1. BufKeys(b, n, mt) /\ nd[n].sessions[p] = None
    BY <1>3 DEF Owned
  <2>2. b.send_pub # b.next_pub
    BY <2>1 DEF BufKeys, KeysOf, Key
  <2>3. b.send_pub \in OwnKeys(nd, n, p) /\ b.send_pub \notin NextKeys(nd, n, p)
    BY <1>3, <2>1, <2>2 DEF OwnKeys, NextKeys
  <2> QED
    BY <1>1, <2>3
<1> QED
  BY <1>2, <1>3

\* Opening a session and every ratchet keep the invariant, whatever becomes of
\* the nonces: the key now sealed under has sealed nothing yet.
LEMMA TurnKeeps ==
  ASSUME NEW nd, NEW nd2, NEW mt \in [Node -> Nat], NEW mt2, NEW n \in Node, NEW p \in Node,
         NEW ch \in [Node -> [Node -> Seq(Msg)]], NEW sl,
         KeyInv(nd, mt, ch, sl), Turned(nd, nd2, mt, mt2, n, p)
  PROVE  /\ KeyInv(nd2, mt2, ch, sl)
         /\ \A m \in Node : \A i \in DOMAIN sl[m] : nd2[n].sessions[p].send_pub \notin sl[m][i].shared
<1> DEFINE t == nd2[n].sessions[p]
<1>1. /\ Owned(nd, mt) /\ Apart(nd) /\ Letters(nd, mt, ch, sl) /\ Boxes(nd, mt, sl)
      /\ Uncrossed(nd) /\ Sealing(nd, sl) /\ Mates(sl) /\ Unrepeated(sl)
  BY DEF KeyInv
<1>2. /\ Grown(mt, mt2) /\ NextFrom(nd, nd2, mt) /\ t.send_pub \notin Shown(nd, mt)
      /\ \A k \in OwnKeys(nd2, n, p) : k \in OwnKeys(nd, n, p) \/ New(k, n, mt, mt2)
      /\ \A k \in OwnKeys(nd2, n, p) : k \in KeysOf(n, mt2)
      /\ OwnKeys(nd2, n, p) = {t.recv_pub, t.send_pub, t.next_pub}
      /\ Only(nd, nd2, n, p) /\ t # None /\ nd2[n].bufs[p] = None /\ n # p
  <2>1. Grown(mt, mt2) /\ Only(nd, nd2, n, p) /\ t # None /\ nd2[n].bufs[p] = None /\ n # p
    BY DEF Turned
  <2>2. Owned(nd, mt)
    BY <1>1
  <2>3. /\ OwnKeys(nd2, n, p) = {t.recv_pub, t.send_pub, t.next_pub}
        /\ \A k \in OwnKeys(nd2, n, p) : k \in OwnKeys(nd, n, p) \/ New(k, n, mt, mt2)
        /\ \A k \in OwnKeys(nd2, n, p) : k \in KeysOf(n, mt2)
        /\ NextFrom(nd, nd2, mt)
        /\ t.send_pub \notin Shown(nd, mt)
    BY <2>2, TurnedKeys
  <2> QED
    BY <2>1, <2>3
<1>3. MoreKeys(nd, nd2, mt, mt2)
  BY <1>2, ShownGrows
<1>4. Apart(nd2)
  BY <1>1, <1>2, ApartStays
<1>5. SessionKeys(t, n, p, nd2, mt2)
  BY <1>2, <1>3 DEF SessionKeys, Turned, MoreKeys
<1> HIDE DEF t
<1>6. Owned(nd2, mt2)
  <2> SUFFICES ASSUME NEW m \in Node, NEW q \in Node
               PROVE  /\ nd2[m].sessions[q] # None => SessionKeys(nd2[m].sessions[q], m, q, nd2, mt2)
                      /\ nd2[m].bufs[q] # None =>
                           BufKeys(nd2[m].bufs[q], m, mt2) /\ nd2[m].sessions[q] = None
    BY DEF Owned
  <2>1. CASE m = n /\ q = p
    BY <1>2, <1>5, <2>1 DEF t
  <2>2. CASE m # n \/ q # p
    <3>1. nd2[m].sessions[q] = nd[m].sessions[q] /\ nd2[m].bufs[q] = nd[m].bufs[q]
      BY <1>2, <2>2 DEF Only
    <3> QED
      <4>1. /\ nd[m].sessions[q] # None => SessionKeys(nd[m].sessions[q], m, q, nd, mt)
            /\ nd[m].bufs[q] # None => BufKeys(nd[m].bufs[q], m, mt) /\ nd[m].sessions[q] = None
        BY <1>1 DEF Owned
      <4>2. nd[m].sessions[q] # None => SessionKeys(nd[m].sessions[q], m, q, nd2, mt2)
        BY <1>3, <4>1, SessionKeysStay
      <4>3. nd[m].bufs[q] # None => BufKeys(nd[m].bufs[q], m, mt2)
        BY <1>3, <4>1, BufKeysStay
      <4> QED
        BY <3>1, <4>1, <4>2, <4>3
  <2> QED
    BY <2>1, <2>2
<1>7. Letters(nd2, mt2, ch, sl)
  BY <1>1, <1>3, LettersStay
<1>8. Boxes(nd2, mt2, sl)
  BY <1>1, <1>3, BoxesStay
<1>9. \A m \in Node : \A i \in DOMAIN sl[m] : t.send_pub \notin sl[m][i].shared
  BY <1>1, <1>2, SharedShown
<1>10. ASSUME NEW m \in Node, NEW q \in Node, nd2[m].sessions[q] # None
       PROVE  nd2[m].sessions[q].current # t.send_pub
  <2>1. CASE m = n /\ q = p
    BY <1>2, <2>1 DEF t, Turned
  <2>2. CASE m # n \/ q # p
    <3>1. nd2[m].sessions[q] = nd[m].sessions[q]
      BY <1>2, <2>2 DEF Only
    <3> QED
      BY <1>1, <1>2, <1>10, <3>1, CurrentShown
  <2> QED
    BY <2>1, <2>2
<1>11. Uncrossed(nd2)
  <2> SUFFICES ASSUME NEW m \in Node, NEW q \in Node, NEW x \in Node, NEW y \in Node,
                      nd2[m].sessions[q] # None, nd2[x].sessions[y] # None
               PROVE  ~Crossed(nd2[m].sessions[q], nd2[x].sessions[y])
    BY DEF Uncrossed
  <2>1. CASE m = n /\ q = p
    BY <1>10, <2>1 DEF t, Crossed
  <2>2. CASE x = n /\ y = p
    BY <1>10, <2>2 DEF t, Crossed
  <2>3. CASE (m # n \/ q # p) /\ (x # n \/ y # p)
    <3>1. nd2[m].sessions[q] = nd[m].sessions[q] /\ nd2[x].sessions[y] = nd[x].sessions[y]
      BY <1>2, <2>3 DEF Only
    <3> QED
      BY <1>1, <3>1 DEF Uncrossed
  <2> QED
    BY <2>1, <2>2, <2>3
<1>12. Sealing(nd2, sl)
  <2> SUFFICES ASSUME NEW m \in Node, NEW q \in Node, NEW x \in Node, NEW i \in DOMAIN sl[x],
                      nd2[m].sessions[q] # None
               PROVE  Passed(nd2[m].sessions[q], m, x, sl[x][i])
    BY DEF Sealing
  <2>1. CASE m = n /\ q = p
    BY <1>9, <2>1 DEF t, Passed, Secret
  <2>2. CASE m # n \/ q # p
    <3>1. nd2[m].sessions[q] = nd[m].sessions[q]
      BY <1>2, <2>2 DEF Only
    <3> QED
      BY <1>1, <3>1 DEF Sealing
  <2> QED
    BY <2>1, <2>2
<1> QED
  BY <1>1, <1>4, <1>6, <1>7, <1>8, <1>9, <1>11, <1>12 DEF KeyInv, t

\* Sessions end, or keep their keys and do not take their send nonce back;
\* pending opens end, or keep theirs.
SameKeys(s, t) ==
  /\ t.current = s.current /\ t.next = s.next
  /\ t.recv_pub = s.recv_pub /\ t.send_pub = s.send_pub /\ t.next_pub = s.next_pub

Lessened(nd, nd2) ==
  \A n, p \in Node :
    /\ nd2[n].sessions[p] # None =>
         /\ nd[n].sessions[p] # None /\ SameKeys(nd[n].sessions[p], nd2[n].sessions[p])
         /\ nd[n].sessions[p].send_nonce <= nd2[n].sessions[p].send_nonce
    /\ nd2[n].bufs[p] # None =>
         /\ nd[n].bufs[p] # None
         /\ nd2[n].bufs[p].send_pub = nd[n].bufs[p].send_pub
         /\ nd2[n].bufs[p].next_pub = nd[n].bufs[p].next_pub

LEMMA NoncesNat ==
  /\ \A s \in SessionType : s.send_nonce \in Nat /\ s.recv_nonce \in Nat
                            /\ s.next_send_nonce \in Nat /\ s.next_recv_nonce \in Nat
  /\ \A f \in TrafficType : f.nonce \in Nat
<1>1. 0 .. NonceSpace - 1 \subseteq Nat
  BY NonceAssumption
<1> QED
  BY <1>1 DEF SessionType, TrafficType

LEMMA PassedOn ==
  ASSUME NEW s \in SessionType, NEW t \in SessionType, NEW n, NEW m, NEW f \in TrafficType,
         SameKeys(s, t), s.send_nonce <= t.send_nonce, Passed(s, n, m, f)
  PROVE  Passed(t, n, m, f)
<1>1. s.send_nonce \in Nat /\ t.send_nonce \in Nat /\ f.nonce \in Nat
  BY NoncesNat
<1>2. f.nonce <= s.send_nonce => f.nonce <= t.send_nonce
  BY <1>1
<1> QED
  BY <1>2 DEF Passed, SameKeys, Secret

LEMMA LessKeeps ==
  ASSUME NEW nd \in [Node -> StateType], NEW nd2 \in [Node -> StateType], NEW mt \in [Node -> Nat],
         NEW mt2, Grown(mt, mt2),
         NEW ch \in [Node -> [Node -> Seq(Msg)]], NEW sl \in [Node -> Seq(TrafficType)],
         KeyInv(nd, mt, ch, sl), Lessened(nd, nd2)
  PROVE  KeyInv(nd2, mt2, ch, sl)
<1>1. /\ Owned(nd, mt) /\ Apart(nd) /\ Letters(nd, mt, ch, sl) /\ Boxes(nd, mt, sl)
      /\ Uncrossed(nd) /\ Sealing(nd, sl) /\ Mates(sl) /\ Unrepeated(sl)
  BY DEF KeyInv
<1>2. NextFrom(nd, nd2, mt)
  BY ZenonT(60) DEF NextFrom, NextKeys, Lessened, SameKeys
<1>3. MoreKeys(nd, nd2, mt, mt2)
  BY <1>2, ShownGrows
<1>4. \A n, p \in Node : OwnKeys(nd2, n, p) \subseteq OwnKeys(nd, n, p)
  BY DEF OwnKeys, Lessened, SameKeys
<1>5. Apart(nd2)
  BY <1>1, <1>4 DEF Apart
<1>6. Owned(nd2, mt2)
  <2> SUFFICES ASSUME NEW m \in Node, NEW q \in Node
               PROVE  /\ nd2[m].sessions[q] # None => SessionKeys(nd2[m].sessions[q], m, q, nd2, mt2)
                      /\ nd2[m].bufs[q] # None =>
                           BufKeys(nd2[m].bufs[q], m, mt2) /\ nd2[m].sessions[q] = None
    BY DEF Owned
  <2>1. ASSUME nd2[m].sessions[q] # None
        PROVE  SessionKeys(nd2[m].sessions[q], m, q, nd2, mt2)
    <3>1. nd[m].sessions[q] # None /\ SameKeys(nd[m].sessions[q], nd2[m].sessions[q])
      BY <2>1 DEF Lessened
    <3>2. SessionKeys(nd[m].sessions[q], m, q, nd, mt)
      BY <1>1, <3>1 DEF Owned
    <3>3. SessionKeys(nd2[m].sessions[q], m, q, nd, mt)
      BY <3>1, <3>2 DEF SessionKeys, SameKeys
    <3> QED
      BY <1>3, <3>3, SessionKeysStay
  <2>2. ASSUME nd2[m].bufs[q] # None
        PROVE  BufKeys(nd2[m].bufs[q], m, mt2) /\ nd2[m].sessions[q] = None
    <3>1. /\ nd[m].bufs[q] # None /\ nd2[m].bufs[q].send_pub = nd[m].bufs[q].send_pub
          /\ nd2[m].bufs[q].next_pub = nd[m].bufs[q].next_pub
      BY <2>2 DEF Lessened
    <3>2. BufKeys(nd[m].bufs[q], m, mt) /\ nd[m].sessions[q] = None
      BY <1>1, <3>1 DEF Owned
    <3>3. BufKeys(nd[m].bufs[q], m, mt2)
      BY <1>3, <3>2, BufKeysStay
    <3> QED
      BY <3>1, <3>2, <3>3 DEF BufKeys, Lessened
  <2> QED
    BY <2>1, <2>2
<1>7. Letters(nd2, mt2, ch, sl)
  BY <1>1, <1>3, LettersStay
<1>8. Boxes(nd2, mt2, sl)
  BY <1>1, <1>3, BoxesStay
<1>9. Uncrossed(nd2)
  <2> SUFFICES ASSUME NEW m \in Node, NEW q \in Node, NEW x \in Node, NEW y \in Node,
                      nd2[m].sessions[q] # None, nd2[x].sessions[y] # None
               PROVE  ~Crossed(nd2[m].sessions[q], nd2[x].sessions[y])
    BY DEF Uncrossed
  <2>1. nd[m].sessions[q] # None /\ SameKeys(nd[m].sessions[q], nd2[m].sessions[q])
    BY DEF Lessened
  <2>2. nd[x].sessions[y] # None /\ SameKeys(nd[x].sessions[y], nd2[x].sessions[y])
    BY DEF Lessened
  <2>3. ~Crossed(nd[m].sessions[q], nd[x].sessions[y])
    BY <1>1, <2>1, <2>2 DEF Uncrossed
  <2> QED
    BY <2>1, <2>2, <2>3 DEF Crossed, SameKeys
<1>10. Sealing(nd2, sl)
  <2> SUFFICES ASSUME NEW m \in Node, NEW q \in Node, NEW x \in Node, NEW i \in DOMAIN sl[x],
                      nd2[m].sessions[q] # None
               PROVE  Passed(nd2[m].sessions[q], m, x, sl[x][i])
    BY DEF Sealing
  <2> DEFINE s == nd[m].sessions[q]
             t == nd2[m].sessions[q]
  <2>1. nd[m].sessions[q] # None /\ SameKeys(s, t) /\ s.send_nonce <= t.send_nonce
    BY DEF Lessened
  <2>2. Passed(s, m, x, sl[x][i])
    <3>1. Sealing(nd, sl) /\ nd[m].sessions[q] # None
      BY <1>1, <2>1
    <3> QED
      BY <3>1 DEF Sealing
  <2>3. s \in SessionType /\ t \in SessionType /\ sl[x][i] \in TrafficType
    <3>1. nd[m] \in StateType /\ nd2[m] \in StateType /\ sl[x] \in Seq(TrafficType)
      OBVIOUS
    <3>2. s \in SessionType /\ t \in SessionType
      BY <2>1, <3>1, StateUpdates
    <3> QED
      BY <3>1, <3>2
  <2> HIDE DEF s, t
  <2>4. Passed(t, m, x, sl[x][i])
    BY <2>1, <2>2, <2>3, PassedOn
  <2> QED
    BY <2>4 DEF t
<1> QED
  BY <1>1, <1>5, <1>6, <1>7, <1>8, <1>9, <1>10 DEF KeyInv

\* A payload waits behind an init: under the keys of the open that is pending,
\* or under two new ones.
Buffered(nd, nd2, mt, mt2, n, p) ==
  LET b == nd2[n].bufs[p]
  IN  /\ Only(nd, nd2, n, p) /\ Grown(mt, mt2)
      /\ nd[n].sessions[p] = None /\ nd2[n].sessions[p] = None
      /\ b # None
      /\ \/ /\ nd[n].bufs[p] # None
            /\ b.send_pub = nd[n].bufs[p].send_pub /\ b.next_pub = nd[n].bufs[p].next_pub
         \/ /\ New(b.send_pub, n, mt, mt2) /\ New(b.next_pub, n, mt, mt2)
            /\ b.send_pub[2] < b.next_pub[2]

LEMMA BufferKeeps ==
  ASSUME NEW nd, NEW nd2, NEW mt \in [Node -> Nat], NEW mt2, NEW n \in Node, NEW p \in Node,
         NEW ch \in [Node -> [Node -> Seq(Msg)]], NEW sl,
         KeyInv(nd, mt, ch, sl), Buffered(nd, nd2, mt, mt2, n, p)
  PROVE  KeyInv(nd2, mt2, ch, sl)
<1> DEFINE b == nd2[n].bufs[p]
<1>1. /\ Owned(nd, mt) /\ Apart(nd) /\ Letters(nd, mt, ch, sl) /\ Boxes(nd, mt, sl)
      /\ Uncrossed(nd) /\ Sealing(nd, sl) /\ Mates(sl) /\ Unrepeated(sl)
  BY DEF KeyInv
<1>2. /\ Only(nd, nd2, n, p) /\ Grown(mt, mt2) /\ b # None
      /\ nd[n].sessions[p] = None /\ nd2[n].sessions[p] = None
  BY DEF Buffered
<1>3. NextKeys(nd2, n, p) = {b.next_pub} /\ OwnKeys(nd2, n, p) = {b.send_pub, b.next_pub}
  BY <1>2 DEF NextKeys, OwnKeys
<1>4. b.next_pub \in NextKeys(nd, n, p) \/ mt[b.next_pub[1]] < b.next_pub[2]
  BY DEF Buffered, NextKeys, New, KeysOf
<1>5. \A k \in OwnKeys(nd2, n, p) : k \in OwnKeys(nd, n, p) \/ New(k, n, mt, mt2)
  BY <1>3 DEF Buffered, OwnKeys
<1>6. NextFrom(nd, nd2, mt)
  <2> SUFFICES ASSUME NEW m \in Node, NEW q \in Node, NEW k \in NextKeys(nd2, m, q)
               PROVE  k \in NextKeys(nd, m, q) \/ mt[k[1]] < k[2]
    BY DEF NextFrom
  <2>1. CASE m = n /\ q = p
    BY <1>3, <1>4, <2>1
  <2>2. CASE m # n \/ q # p
    BY <1>2, <2>2 DEF Only, NextKeys
  <2> QED
    BY <2>1, <2>2
<1>7. MoreKeys(nd, nd2, mt, mt2)
  BY <1>2, <1>6, ShownGrows
<1>8. Apart(nd2)
  BY <1>1, <1>2, <1>5, ApartStays
<1>9. BufKeys(b, n, mt2)
  <2>1. CASE /\ nd[n].bufs[p] # None
             /\ b.send_pub = nd[n].bufs[p].send_pub /\ b.next_pub = nd[n].bufs[p].next_pub
    <3>1. BufKeys(nd[n].bufs[p], n, mt)
      BY <1>1, <2>1 DEF Owned
    <3>2. BufKeys(nd[n].bufs[p], n, mt2)
      BY <1>7, <3>1, BufKeysStay
    <3> QED
      BY <2>1, <3>2 DEF BufKeys
  <2>2. CASE /\ New(b.send_pub, n, mt, mt2) /\ New(b.next_pub, n, mt, mt2)
             /\ b.send_pub[2] < b.next_pub[2]
    BY <2>2 DEF BufKeys, New
  <2> QED
    BY <2>1, <2>2 DEF Buffered
<1> HIDE DEF b
<1>10. Owned(nd2, mt2)
  <2> SUFFICES ASSUME NEW m \in Node, NEW q \in Node
               PROVE  /\ nd2[m].sessions[q] # None => SessionKeys(nd2[m].sessions[q], m, q, nd2, mt2)
                      /\ nd2[m].bufs[q] # None =>
                           BufKeys(nd2[m].bufs[q], m, mt2) /\ nd2[m].sessions[q] = None
    BY DEF Owned
  <2>1. CASE m = n /\ q = p
    BY <1>2, <1>9, <2>1 DEF b
  <2>2. CASE m # n \/ q # p
    <3>1. nd2[m].sessions[q] = nd[m].sessions[q] /\ nd2[m].bufs[q] = nd[m].bufs[q]
      BY <1>2, <2>2 DEF Only
    <3>2. /\ nd[m].sessions[q] # None => SessionKeys(nd[m].sessions[q], m, q, nd, mt)
          /\ nd[m].bufs[q] # None => BufKeys(nd[m].bufs[q], m, mt) /\ nd[m].sessions[q] = None
      BY <1>1 DEF Owned
    <3>3. nd[m].sessions[q] # None => SessionKeys(nd[m].sessions[q], m, q, nd2, mt2)
      BY <1>7, <3>2, SessionKeysStay
    <3>4. nd[m].bufs[q] # None => BufKeys(nd[m].bufs[q], m, mt2)
      BY <1>7, <3>2, BufKeysStay
    <3> QED
      BY <3>1, <3>2, <3>3, <3>4
  <2> QED
    BY <2>1, <2>2
<1>11. Letters(nd2, mt2, ch, sl)
  BY <1>1, <1>7, LettersStay
<1>12. Boxes(nd2, mt2, sl)
  BY <1>1, <1>7, BoxesStay
<1>13. \A m, q \in Node : nd2[m].sessions[q] = nd[m].sessions[q]
  BY <1>2 DEF Only
<1>14. Uncrossed(nd2)
  <2> SUFFICES ASSUME NEW m \in Node, NEW q \in Node, NEW x \in Node, NEW y \in Node,
                      nd2[m].sessions[q] # None, nd2[x].sessions[y] # None
               PROVE  ~Crossed(nd2[m].sessions[q], nd2[x].sessions[y])
    BY DEF Uncrossed
  <2>1. nd2[m].sessions[q] = nd[m].sessions[q] /\ nd2[x].sessions[y] = nd[x].sessions[y]
    BY <1>13
  <2> QED
    BY <1>1, <2>1 DEF Uncrossed
<1>15. Sealing(nd2, sl)
  <2>1. Sealing(nd, sl)
    BY <1>1
  <2> QED
    BY <1>13, <2>1 DEF Sealing
<1> QED
  BY <1>1, <1>8, <1>10, <1>11, <1>12, <1>14, <1>15 DEF KeyInv

\* n's session with p stands where it has just sealed f, under a nonce that
\* nobody used with its secret.
Seals(nd, sl, n, p, f) ==
  LET s == nd[n].sessions[p]
  IN  /\ s # None
      /\ f.shared = Secret(s) /\ f.nonce = s.send_nonce /\ f.next = s.next_pub
      /\ \A m \in Node : \A i \in DOMAIN sl[m] :
           sl[m][i].shared = Secret(s) => sl[m][i].nonce < s.send_nonce

\* What Record has added to a history, and what was there.
LEMMA RecordCases ==
  ASSUME NEW S, NEW h \in [Node -> Seq(S)], NEW n \in Node, NEW e \in S,
         NEW m \in Node, NEW i \in DOMAIN Record(h, n, e)[m]
  PROVE  \/ i \in DOMAIN h[m] /\ Record(h, n, e)[m][i] = h[m][i]
         \/ m = n /\ i = Len(h[n]) + 1 /\ Record(h, n, e)[m][i] = e /\ i \notin DOMAIN h[n]
<1>1. CASE m # n
  BY <1>1, RecordOf
<1>2. CASE m = n
  <2>1. Record(h, n, e)[n] = Append(h[n], e) /\ h[n] \in Seq(S)
    BY RecordOf
  <2>2. i \in DOMAIN Append(h[n], e)
    BY <1>2, <2>1
  <2>3. \/ i \in DOMAIN h[n] /\ Append(h[n], e)[i] = h[n][i]
        \/ i = Len(h[n]) + 1 /\ Append(h[n], e)[i] = e /\ i \notin DOMAIN h[n]
    BY <2>1, <2>2, AppendOf
  <2> QED
    BY <1>2, <2>1, <2>3
<1> QED
  BY <1>1, <1>2

LEMMA RecordKeeps ==
  ASSUME NEW S, NEW h \in [Node -> Seq(S)], NEW n \in Node, NEW e \in S, NEW m \in Node
  PROVE  ToSet(h[m]) \subseteq ToSet(Record(h, n, e)[m])
<1>1. CASE m # n
  BY <1>1, RecordOf
<1>2. CASE m = n
  <2>1. Record(h, n, e)[n] = Append(h[n], e) /\ h[n] \in Seq(S)
    BY RecordOf
  <2>2. \A i \in DOMAIN h[n] : i \in DOMAIN Append(h[n], e) /\ Append(h[n], e)[i] = h[n][i]
    BY <2>1, AppendOf
  <2> QED
    BY <1>2, <2>1, <2>2 DEF ToSet
<1> QED
  BY <1>1, <1>2

LEMMA RecordedLast ==
  ASSUME NEW S, NEW h \in [Node -> Seq(S)], NEW n \in Node, NEW e \in S
  PROVE  e \in ToSet(Record(h, n, e)[n])
<1>1. Record(h, n, e)[n] = Append(h[n], e) /\ h[n] \in Seq(S)
  BY RecordOf
<1>2. Len(h[n]) + 1 \in DOMAIN Append(h[n], e) /\ Append(h[n], e)[Len(h[n]) + 1] = e
  BY <1>1
<1> QED
  BY <1>1, <1>2 DEF ToSet

\* Two sessions stand at one secret.
AtOne(nd, n, p, m, q) ==
  /\ nd[n].sessions[p] # None /\ nd[m].sessions[q] # None
  /\ Secret(nd[n].sessions[p]) = Secret(nd[m].sessions[q])

\* Only a session itself stands at its secret.
LEMMA SecretIsItsOwn ==
  ASSUME NEW nd, NEW mt, NEW n \in Node, NEW p \in Node, NEW m \in Node, NEW q \in Node,
         Owned(nd, mt), Apart(nd), Uncrossed(nd), AtOne(nd, n, p, m, q)
  PROVE  m = n /\ q = p
<1> DEFINE s == nd[n].sessions[p]
           t == nd[m].sessions[q]
<1>1. SessionKeys(s, n, p, nd, mt) /\ SessionKeys(t, m, q, nd, mt)
  BY DEF Owned, AtOne
<1>2. s.send_pub \in OwnKeys(nd, n, p) /\ t.send_pub \in OwnKeys(nd, m, q)
  BY DEF OwnKeys, AtOne
<1>3. s.send_pub[1] = n /\ t.send_pub[1] = m
  BY <1>1 DEF SessionKeys, KeysOf
<1>4. ~Crossed(s, t)
  BY DEF Uncrossed, AtOne
<1>5. s.send_pub = t.send_pub => m = n /\ q = p
  BY <1>2, <1>3 DEF Apart
<1>6. Secret(s) = Secret(t)
  BY DEF AtOne
<1> HIDE DEF s, t
<1> QED
  BY <1>4, <1>5, <1>6 DEF Crossed, Secret

\* And its send key is in no other secret of the same router.
LEMMA SendKeyIsItsOwn ==
  ASSUME NEW nd, NEW mt, NEW n \in Node, NEW p \in Node, NEW q \in Node,
         Owned(nd, mt), Apart(nd),
         nd[n].sessions[p] # None, nd[n].sessions[q] # None,
         nd[n].sessions[q].send_pub \in Secret(nd[n].sessions[p])
  PROVE  q = p
<1> DEFINE s == nd[n].sessions[p]
           t == nd[n].sessions[q]
<1>1. SessionKeys(s, n, p, nd, mt) /\ SessionKeys(t, n, q, nd, mt)
  BY DEF Owned
<1>2. s.send_pub \in OwnKeys(nd, n, p) /\ t.send_pub \in OwnKeys(nd, n, q)
  BY DEF OwnKeys
<1>3. t.send_pub[1] = n /\ s.current[1] = p /\ n # p
  BY <1>1 DEF SessionKeys, KeysOf
<1>4. t.send_pub \in Secret(s)
  OBVIOUS
<1> HIDE DEF s, t
<1>5. t.send_pub = s.send_pub
  BY <1>3, <1>4 DEF Secret
<1> QED
  BY <1>2, <1>5 DEF Apart

LEMMA SealKeeps ==
  ASSUME NEW nd \in [Node -> StateType], NEW mt \in [Node -> Nat],
         NEW ch \in [Node -> [Node -> Seq(Msg)]], NEW sl \in [Node -> Seq(TrafficType)],
         NEW n \in Node, NEW p \in Node, NEW f \in TrafficType,
         KeyInv(nd, mt, ch, sl), Seals(nd, sl, n, p, f)
  PROVE  KeyInv(nd, mt, ch, Record(sl, n, f))
<1> DEFINE sl2 == Record(sl, n, f)
           s == nd[n].sessions[p]
           X == Secret(s)
<1>1. /\ Owned(nd, mt) /\ Apart(nd) /\ Letters(nd, mt, ch, sl) /\ Boxes(nd, mt, sl)
      /\ Uncrossed(nd) /\ Sealing(nd, sl) /\ Mates(sl) /\ Unrepeated(sl)
  BY DEF KeyInv
<1>2. /\ s # None /\ f.shared = X /\ f.nonce = s.send_nonce /\ f.next = s.next_pub
      /\ \A m \in Node : \A i \in DOMAIN sl[m] : sl[m][i].shared = X => sl[m][i].nonce < f.nonce
  BY DEF Seals
<1>7. ASSUME NEW m \in Node, NEW i \in DOMAIN sl[m], sl[m][i].shared = X
      PROVE  sl[m][i].nonce < f.nonce
  BY <1>2, <1>7
<1>3. SessionKeys(s, n, p, nd, mt)
  BY <1>1, <1>2 DEF Owned
<1>4. s.send_pub \in Shown(nd, mt)
  BY <1>1, <1>2, SendKeysShown
<1>5. ASSUME NEW m \in Node, NEW i \in DOMAIN sl2[m]
      PROVE  \/ i \in DOMAIN sl[m] /\ sl2[m][i] = sl[m][i]
             \/ m = n /\ i = Len(sl[n]) + 1 /\ sl2[m][i] = f /\ i \notin DOMAIN sl[n]
  BY RecordCases
<1>6. \A m \in Node : ToSet(sl[m]) \subseteq ToSet(sl2[m])
  BY RecordKeeps
<1>8. f.nonce \in Nat
  BY NoncesNat
<1>17. ~(f.nonce < f.nonce)
  BY <1>8
<1> HIDE DEF sl2, s, X
<1>9. Letters(nd, mt, ch, sl2)
  <2>1. MoreKeys(nd, nd, mt, mt)
    BY DEF MoreKeys
  <2> QED
    BY <1>1, <1>6, <2>1, LettersStay
<1>10. Boxes(nd, mt, sl2)
  <2>1. Box(f, n, nd, mt)
    <3>1. s.current \in X /\ s.send_pub \in X /\ X = {s.current, s.send_pub}
      BY DEF X, Secret
    <3>2. /\ s.send_pub[1] = n /\ s.current \in Shown(nd, mt) /\ s.current[1] # n
          /\ f.next \in KeysOf(n, mt) /\ s.send_pub[2] < f.next[2]
      BY <1>2, <1>3 DEF SessionKeys, KeysOf
    <3> QED
      BY <1>2, <1>4, <3>1, <3>2 DEF Box
  <2> QED
    BY <1>1, <1>5, <2>1 DEF Boxes
<1>16. ASSUME NEW m \in Node, NEW q \in Node, nd[m].sessions[q] # None
       PROVE  Passed(nd[m].sessions[q], m, n, f)
  <2> DEFINE t == nd[m].sessions[q]
             Y == Secret(t)
  <2>1. Owned(nd, mt) /\ Apart(nd) /\ Uncrossed(nd) /\ nd[n].sessions[p] # None
    BY <1>1, <1>2 DEF s
  <2>2. ASSUME X = Y PROVE m = n /\ q = p
    <3>1. AtOne(nd, n, p, m, q)
      BY <1>16, <2>1, <2>2 DEF s, X, AtOne
    <3> QED
      BY <2>1, <3>1, SecretIsItsOwn
  <2>3. ASSUME m = n, t.send_pub \in X PROVE q = p
    <3>1. nd[n].sessions[q] # None /\ nd[n].sessions[q].send_pub \in Secret(nd[n].sessions[p])
      BY <1>16, <2>3 DEF s, X
    <3> QED
      BY <2>1, <3>1, SendKeyIsItsOwn
  <2>4. m = n /\ q = p => X = Y /\ t.send_nonce = f.nonce
    BY <1>2 DEF s, X
  <2> HIDE DEF t, Y
  <2>5. f.shared = Y => n = m /\ f.nonce <= t.send_nonce
    BY <1>2, <1>8, <2>2, <2>4
  <2>6. n = m /\ t.send_pub \in f.shared => f.shared = Y
    BY <1>2, <2>3, <2>4
  <2>7. Passed(t, m, n, f)
    BY <2>5, <2>6 DEF Passed, Y
  <2> QED
    BY <2>7 DEF t
<1>11. Sealing(nd, sl2)
  <2> SUFFICES ASSUME NEW m \in Node, NEW q \in Node, NEW x \in Node, NEW i \in DOMAIN sl2[x],
                      nd[m].sessions[q] # None
               PROVE  Passed(nd[m].sessions[q], m, x, sl2[x][i])
    BY DEF Sealing
  <2>1. CASE i \in DOMAIN sl[x] /\ sl2[x][i] = sl[x][i]
    BY <1>1, <2>1 DEF Sealing
  <2>2. CASE x = n /\ sl2[x][i] = f
    BY <1>16, <2>2
  <2> QED
    BY <1>5, <2>1, <2>2
<1>12. \A m \in Node : \A i \in DOMAIN sl[m] : m = n /\ s.send_pub \in sl[m][i].shared => sl[m][i].shared = X
  <2>1. \A m \in Node : \A i \in DOMAIN sl[m] : Passed(s, n, m, sl[m][i])
    BY <1>1, <1>2 DEF Sealing, s
  <2> QED
    BY <2>1 DEF Passed, X
<1>13. \A k \in X : k[1] = n => k = s.send_pub
  BY <1>3 DEF X, Secret, SessionKeys
<1>14. Mates(sl2)
  <2> SUFFICES ASSUME NEW m \in Node, NEW i \in DOMAIN sl2[m], NEW j \in DOMAIN sl2[m],
                      NEW k \in sl2[m][i].shared, k[1] = m, k \in sl2[m][j].shared
               PROVE  sl2[m][i].shared = sl2[m][j].shared
    BY DEF Mates
  <2>1. CASE i \in DOMAIN sl[m] /\ sl2[m][i] = sl[m][i] /\ j \in DOMAIN sl[m] /\ sl2[m][j] = sl[m][j]
    BY <1>1, <2>1 DEF Mates
  <2>2. CASE m = n /\ sl2[m][i] = f /\ j \in DOMAIN sl[m] /\ sl2[m][j] = sl[m][j]
    BY <1>2, <1>12, <1>13, <2>2
  <2>3. CASE m = n /\ sl2[m][j] = f /\ i \in DOMAIN sl[m] /\ sl2[m][i] = sl[m][i]
    BY <1>2, <1>12, <1>13, <2>3
  <2>4. CASE sl2[m][i] = f /\ sl2[m][j] = f
    BY <2>4
  <2> QED
    BY <1>5, <2>1, <2>2, <2>3, <2>4
<1>15. Unrepeated(sl2)
  <2> SUFFICES ASSUME NEW m \in Node, NEW x \in Node, NEW i \in DOMAIN sl2[m], NEW j \in DOMAIN sl2[x],
                      sl2[m][i].shared = sl2[x][j].shared, sl2[m][i].nonce = sl2[x][j].nonce
               PROVE  m = x /\ i = j
    BY ZenonT(60) DEF Unrepeated
  <2>1. CASE i \in DOMAIN sl[m] /\ sl2[m][i] = sl[m][i] /\ j \in DOMAIN sl[x] /\ sl2[x][j] = sl[x][j]
    BY <1>1, <2>1 DEF Unrepeated
  <2>2. CASE sl2[m][i] = f /\ j \in DOMAIN sl[x] /\ sl2[x][j] = sl[x][j]
    <3>1. sl[x][j].shared = X /\ sl[x][j].nonce = f.nonce
      BY <1>2, <2>2
    <3>2. sl[x][j].nonce < f.nonce
      BY <1>7, <2>2, <3>1
    <3>3. f.nonce < f.nonce
      BY <3>1, <3>2
    <3> QED
      BY <1>17, <3>3
  <2>3. CASE sl2[x][j] = f /\ i \in DOMAIN sl[m] /\ sl2[m][i] = sl[m][i]
    <3>1. sl[m][i].shared = X /\ sl[m][i].nonce = f.nonce
      BY <1>2, <2>3
    <3>2. sl[m][i].nonce < f.nonce
      BY <1>7, <2>3, <3>1
    <3>3. f.nonce < f.nonce
      BY <3>1, <3>2
    <3> QED
      BY <1>17, <3>3
  <2>4. CASE m = n /\ i = Len(sl[n]) + 1 /\ x = n /\ j = Len(sl[n]) + 1
    BY <2>4
  <2> QED
    BY <1>5, <2>1, <2>2, <2>3, <2>4
<1> QED
  BY <1>1, <1>9, <1>10, <1>11, <1>14, <1>15 DEF KeyInv, sl2

-----------------------------------------------------------------------------
(* What was opened *)

\* The invariant of a state, or of one between two steps of the keys.
Inv(nd, mt, ch, sl, op) ==
  Typed(nd, mt, ch, sl, op) /\ KeyInv(nd, mt, ch, sl) /\ OpenInv(nd, sl, op)

\* What n has opened was sealed by the router it came from, under two shown
\* keys.
LEMMA OpenedBox ==
  ASSUME NEW nd, NEW mt, NEW ch, NEW sl, NEW op, Inv(nd, mt, ch, sl, op),
         NEW n \in Node, NEW i \in DOMAIN op[n]
  PROVE  /\ op[n][i] \in OpeningType /\ op[n][i].box \in TrafficType /\ op[n][i].from \in Node \ {n}
         /\ op[n][i].box \in ToSet(sl[op[n][i].from])
         /\ op[n][i].box.shared \subseteq Shown(nd, mt)
<1>1. op[n] \in Seq(OpeningType) /\ Boxes(nd, mt, sl) /\ Authentic(op, sl)
  BY DEF Inv, Typed, KeyInv, OpenInv
<1>2. op[n][i] \in OpeningType
  BY <1>1
<1>3. op[n][i].box \in TrafficType /\ op[n][i].from \in Node
  BY <1>2 DEF OpeningType
<1>4. op[n][i].from # n /\ op[n][i].box \in ToSet(sl[op[n][i].from])
  BY <1>1 DEF Authentic
<1>5. PICK j \in DOMAIN sl[op[n][i].from] : op[n][i].box = sl[op[n][i].from][j]
  BY <1>4 DEF ToSet
<1>6. op[n][i].box.shared \subseteq Shown(nd, mt)
  BY <1>1, <1>3, <1>5, SharedShown
<1> QED
  BY <1>2, <1>3, <1>4, <1>6

\* A key that is new has opened nothing.
LEMMA NewUnseen ==
  ASSUME NEW nd, NEW mt, NEW ch, NEW sl, NEW op, Inv(nd, mt, ch, sl, op), NEW mt2,
         NEW n \in Node, NEW m \in Node, NEW i \in DOMAIN op[m], NEW k, New(k, n, mt, mt2)
  PROVE  k \notin op[m][i].box.shared
<1>1. op[m][i].box.shared \subseteq Shown(nd, mt)
  BY OpenedBox
<1>2. mt[n] \in Nat
  BY DEF Inv, Typed
<1>3. k[1] = n /\ k[2] \in Nat /\ mt[n] < k[2]
  BY DEF New, KeysOf, Key
<1>4. ~(k[2] <= mt[n])
  BY <1>2, <1>3
<1> QED
  BY <1>1, <1>3, <1>4 DEF Shown

\* Sessions and pending opens end, or nothing of their reading side changes.
Unread(s, t) ==
  /\ t.seq = s.seq /\ t.local_key_seq = s.local_key_seq /\ t.remote_key_seq = s.remote_key_seq
  /\ t.recv_nonce = s.recv_nonce
  /\ t.next_send_nonce = s.next_send_nonce /\ t.next_recv_nonce = s.next_recv_nonce

Quiet(nd, nd2) ==
  /\ Lessened(nd, nd2)
  /\ \A n, p \in Node :
       nd2[n].sessions[p] # None => Unread(nd[n].sessions[p], nd2[n].sessions[p])

LEMMA BeforeStays ==
  ASSUME NEW e, NEW s, NEW t, NEW p, SameKeys(s, t), Unread(s, t), Before(e, s, p)
  PROVE  Before(e, t, p)
BY DEF Before, SameKeys, Unread, Stretch

LEMMA QuietKeeps ==
  ASSUME NEW nd, NEW mt, NEW ch, NEW sl, NEW op, Inv(nd, mt, ch, sl, op),
         NEW nd2 \in [Node -> StateType], Quiet(nd, nd2), NEW mt2, Grown(mt, mt2)
  PROVE  Inv(nd2, mt2, ch, sl, op)
<1>1. Typed(nd, mt, ch, sl, op) /\ KeyInv(nd, mt, ch, sl) /\ OpenInv(nd, sl, op) /\ Lessened(nd, nd2)
  BY DEF Inv, Quiet
<1>2. Typed(nd2, mt2, ch, sl, op)
  BY <1>1 DEF Typed, Grown
<1>3. KeyInv(nd2, mt2, ch, sl)
  <2>1. /\ nd \in [Node -> StateType] /\ mt \in [Node -> Nat]
        /\ ch \in [Node -> [Node -> Seq(Msg)]] /\ sl \in [Node -> Seq(TrafficType)]
    BY <1>1 DEF Typed
  <2> QED
    BY <1>1, <2>1, LessKeeps
<1>4. AllSeen(nd2, op)
  <2> SUFFICES ASSUME NEW n \in Node, NEW p \in Node, NEW i \in DOMAIN op[n]
               PROVE  Seen(op[n][i], nd2, n, p)
    BY DEF AllSeen
  <2> DEFINE s == nd[n].sessions[p]
             t == nd2[n].sessions[p]
             e == op[n][i]
  <2>1. Seen(e, nd, n, p)
    BY <1>1 DEF OpenInv, AllSeen
  <2>2. t # None => s # None /\ SameKeys(s, t) /\ Unread(s, t)
    BY DEF Quiet, Lessened
  <2>3. t # None => (Before(e, s, p) => Before(e, t, p))
    BY <2>2, BeforeStays
  <2>4. t # None => t.next_pub = s.next_pub /\ t.recv_pub = s.recv_pub /\ t.send_pub = s.send_pub
    BY <2>2 DEF SameKeys
  <2>5. nd2[n].bufs[p] # None => nd[n].bufs[p] # None
                                 /\ nd2[n].bufs[p].send_pub = nd[n].bufs[p].send_pub
                                 /\ nd2[n].bufs[p].next_pub = nd[n].bufs[p].next_pub
    BY DEF Quiet, Lessened
  <2> QED
    BY <2>1, <2>2, <2>3, <2>4, <2>5 DEF Seen
<1> QED
  BY <1>1, <1>2, <1>3, <1>4 DEF Inv, OpenInv

LEMMA BufferKeepsAll ==
  ASSUME NEW nd, NEW mt, NEW ch, NEW sl, NEW op, Inv(nd, mt, ch, sl, op),
         NEW nd2 \in [Node -> StateType], NEW mt2, NEW n \in Node, NEW p \in Node,
         Buffered(nd, nd2, mt, mt2, n, p)
  PROVE  Inv(nd2, mt2, ch, sl, op)
<1>1. Typed(nd, mt, ch, sl, op) /\ KeyInv(nd, mt, ch, sl) /\ OpenInv(nd, sl, op) /\ Grown(mt, mt2)
  BY DEF Inv, Buffered
<1>2. Typed(nd2, mt2, ch, sl, op)
  BY <1>1 DEF Typed, Grown
<1>3. KeyInv(nd2, mt2, ch, sl)
  <2>1. mt \in [Node -> Nat] /\ ch \in [Node -> [Node -> Seq(Msg)]]
    BY <1>1 DEF Typed
  <2> QED
    BY <1>1, <2>1, BufferKeeps
<1>4. AllSeen(nd2, op)
  <2> SUFFICES ASSUME NEW m \in Node, NEW q \in Node, NEW i \in DOMAIN op[m]
               PROVE  Seen(op[m][i], nd2, m, q)
    BY DEF AllSeen
  <2>1. Seen(op[m][i], nd, m, q)
    BY <1>1 DEF OpenInv, AllSeen
  <2>2. CASE m # n \/ q # p
    <3>1. nd2[m].sessions[q] = nd[m].sessions[q] /\ nd2[m].bufs[q] = nd[m].bufs[q]
      BY <2>2 DEF Buffered, Only
    <3> QED
      BY <2>1, <3>1 DEF Seen
  <2>3. CASE m = n /\ q = p
    <3> DEFINE b == nd2[n].bufs[p]
    <3>1. CASE /\ nd[n].bufs[p] # None
               /\ b.send_pub = nd[n].bufs[p].send_pub /\ b.next_pub = nd[n].bufs[p].next_pub
      BY <2>1, <2>3, <3>1 DEF Seen, Buffered
    <3>2. CASE New(b.send_pub, n, mt, mt2) /\ New(b.next_pub, n, mt, mt2)
      <4>1. b.send_pub \notin op[m][i].box.shared /\ b.next_pub \notin op[m][i].box.shared
        BY <3>2, NewUnseen
      <4> QED
        BY <2>3, <4>1 DEF Seen, Buffered
    <3> QED
      BY <3>1, <3>2 DEF Buffered
  <2> QED
    BY <2>2, <2>3
<1> QED
  BY <1>1, <1>2, <1>3, <1>4 DEF Inv, OpenInv

\* The stretch of t is past the one of s.
Later(s, t) ==
  \/ s.seq < t.seq
  \/ /\ s.seq = t.seq
     /\ s.local_key_seq - s.remote_key_seq < t.local_key_seq - t.remote_key_seq

\* A session is opened on keys that have opened nothing, or starts a stretch.
Renewed(nd, nd2, n, p) ==
  nd[n].sessions[p] # None =>
    /\ nd2[n].sessions[p].recv_pub = nd[n].sessions[p].send_pub
    /\ Later(nd[n].sessions[p], nd2[n].sessions[p])

LEMMA BeforeLater ==
  ASSUME NEW e \in OpeningType, NEW s \in SessionType, NEW t \in SessionType, NEW p,
         Before(e, s, p), Later(s, t)
  PROVE  Before(e, t, p)
<1> DEFINE es == e.stretch.seq
           el == e.stretch.lead
           ls == s.local_key_seq - s.remote_key_seq
           lt == t.local_key_seq - t.remote_key_seq
<1>1. es \in Nat /\ el \in Int /\ e.stretch = [seq |-> es, lead |-> el]
  BY DEF OpeningType
<1>2. s.seq \in Nat /\ t.seq \in Nat /\ ls \in Int /\ lt \in Int
  BY DEF SessionType
<1>3. es <= s.seq /\ (es = s.seq => el <= ls)
  BY DEF Before
<1>4. s.seq < t.seq \/ (s.seq = t.seq /\ ls < lt)
  BY DEF Later
<1>5. Stretch(t) = [seq |-> t.seq, lead |-> lt]
  BY DEF Stretch
<1> HIDE DEF es, el, ls, lt
<1>6. es <= t.seq /\ (es = t.seq => el <= lt) /\ ~(es = t.seq /\ el = lt)
  BY <1>1, <1>2, <1>3, <1>4
<1>7. e.stretch # Stretch(t)
  BY <1>1, <1>5, <1>6
<1> QED
  BY <1>6, <1>7 DEF Before, es, el, lt

LEMMA SessionsTyped ==
  ASSUME NEW nd, NEW mt, NEW ch, NEW sl, NEW op, Typed(nd, mt, ch, sl, op),
         NEW n \in Node, NEW p \in Node, nd[n].sessions[p] # None
  PROVE  nd[n].sessions[p] \in SessionType
<1>1. nd[n] \in StateType
  BY DEF Typed
<1> QED
  BY <1>1, StateUpdates

LEMMA TurnKeepsAll ==
  ASSUME NEW nd, NEW mt, NEW ch, NEW sl, NEW op, Inv(nd, mt, ch, sl, op),
         NEW nd2 \in [Node -> StateType], NEW mt2, NEW n \in Node, NEW p \in Node,
         Turned(nd, nd2, mt, mt2, n, p), Renewed(nd, nd2, n, p)
  PROVE  /\ Inv(nd2, mt2, ch, sl, op)
         /\ \A m \in Node : \A i \in DOMAIN sl[m] : nd2[n].sessions[p].send_pub \notin sl[m][i].shared
<1> DEFINE s == nd[n].sessions[p]
           t == nd2[n].sessions[p]
<1>1. Typed(nd, mt, ch, sl, op) /\ KeyInv(nd, mt, ch, sl) /\ OpenInv(nd, sl, op)
  BY DEF Inv
<1>2. Grown(mt, mt2) /\ Only(nd, nd2, n, p) /\ t # None /\ nd2[n].bufs[p] = None
  BY DEF Turned
<1>3. Typed(nd2, mt2, ch, sl, op)
  BY <1>1, <1>2 DEF Typed, Grown
<1>4. /\ KeyInv(nd2, mt2, ch, sl)
      /\ \A m \in Node : \A i \in DOMAIN sl[m] : nd2[n].sessions[p].send_pub \notin sl[m][i].shared
  <2>1. mt \in [Node -> Nat] /\ ch \in [Node -> [Node -> Seq(Msg)]]
    BY <1>1 DEF Typed
  <2> QED
    BY <1>1, <2>1, TurnKeeps
<1>5. ASSUME NEW i \in DOMAIN op[n] PROVE Seen(op[n][i], nd2, n, p)
  <2> DEFINE e == op[n][i]
  <2>1. Seen(e, nd, n, p)
    BY <1>1 DEF OpenInv, AllSeen
  <2>2. t.next_pub \notin e.box.shared
    <3>1. New(t.next_pub, n, mt, mt2)
      BY DEF Turned
    <3> QED
      BY <3>1, NewUnseen
  <2>3. t.send_pub \notin e.box.shared
    <3>1. CASE t.send_pub \in NextKeys(nd, n, p)
      BY <2>1, <3>1 DEF Seen, NextKeys
    <3>2. CASE New(t.send_pub, n, mt, mt2)
      BY <3>2, NewUnseen
    <3> QED
      BY <3>1, <3>2 DEF Turned
  <2>4. CASE s = None
    <3>1. CASE t.recv_pub \in OwnKeys(nd, n, p)
      <4>1. t.recv_pub \notin e.box.shared
        BY <2>1, <2>4, <3>1 DEF Seen, OwnKeys
      <4> QED
        BY <1>2, <2>2, <2>3, <4>1 DEF Seen
    <3>2. CASE New(t.recv_pub, n, mt, mt2)
      <4>1. t.recv_pub \notin e.box.shared
        BY <3>2, NewUnseen
      <4> QED
        BY <1>2, <2>2, <2>3, <4>1 DEF Seen
    <3> QED
      BY <3>1, <3>2 DEF Turned
  <2>5. CASE s # None
    <3>1. t.recv_pub = s.send_pub /\ Later(s, t)
      BY <2>5 DEF Renewed
    <3>2. s.send_pub \in e.box.shared => Before(e, s, p)
      BY <2>1, <2>5 DEF Seen
    <3>3. s \in SessionType /\ t \in SessionType
      BY <1>1, <1>2, <1>3, <2>5, SessionsTyped
    <3>4. e \in OpeningType
      BY OpenedBox
    <3>5. s.send_pub \in e.box.shared => Before(e, t, p)
      <4> HIDE DEF s, t, e
      <4> QED
        BY <3>1, <3>2, <3>3, <3>4, BeforeLater
    <3> QED
      BY <1>2, <2>2, <2>3, <3>1, <3>5 DEF Seen
  <2> QED
    BY <2>4, <2>5
<1>6. AllSeen(nd2, op)
  <2> SUFFICES ASSUME NEW m \in Node, NEW q \in Node, NEW i \in DOMAIN op[m]
               PROVE  Seen(op[m][i], nd2, m, q)
    BY DEF AllSeen
  <2>1. CASE m = n /\ q = p
    BY <1>5, <2>1
  <2>2. CASE m # n \/ q # p
    <3>1. nd2[m].sessions[q] = nd[m].sessions[q] /\ nd2[m].bufs[q] = nd[m].bufs[q]
      BY <1>2, <2>2 DEF Only
    <3>2. Seen(op[m][i], nd, m, q)
      BY <1>1 DEF OpenInv, AllSeen
    <3> QED
      BY <3>1, <3>2 DEF Seen
  <2> QED
    BY <2>1, <2>2
<1> QED
  BY <1>1, <1>3, <1>4, <1>6 DEF Inv, OpenInv

LEMMA SealKeepsAll ==
  ASSUME NEW nd, NEW mt, NEW ch, NEW sl, NEW op, Inv(nd, mt, ch, sl, op),
         NEW n \in Node, NEW p \in Node, NEW f \in TrafficType, Seals(nd, sl, n, p, f)
  PROVE  Inv(nd, mt, ch, Record(sl, n, f), op)
<1>1. Typed(nd, mt, ch, sl, op) /\ KeyInv(nd, mt, ch, sl) /\ OpenInv(nd, sl, op)
  BY DEF Inv
<1>2. /\ nd \in [Node -> StateType] /\ mt \in [Node -> Nat]
      /\ ch \in [Node -> [Node -> Seq(Msg)]] /\ sl \in [Node -> Seq(TrafficType)]
      /\ op \in [Node -> Seq(OpeningType)]
  BY <1>1 DEF Typed
<1>3. KeyInv(nd, mt, ch, Record(sl, n, f))
  BY <1>1, <1>2, SealKeeps
<1>4. Record(sl, n, f) \in [Node -> Seq(TrafficType)]
  BY <1>2, RecordOf
<1>5. Typed(nd, mt, ch, Record(sl, n, f), op)
  BY <1>2, <1>4 DEF Typed
<1>6. Authentic(op, Record(sl, n, f))
  <2> SUFFICES ASSUME NEW m \in Node, NEW i \in DOMAIN op[m]
               PROVE  op[m][i].from # m /\ op[m][i].box \in ToSet(Record(sl, n, f)[op[m][i].from])
    BY DEF Authentic
  <2>1. op[m][i].from \in Node \ {m} /\ op[m][i].box \in ToSet(sl[op[m][i].from])
    BY OpenedBox
  <2>2. ToSet(sl[op[m][i].from]) \subseteq ToSet(Record(sl, n, f)[op[m][i].from])
    BY <1>2, <2>1, RecordKeeps
  <2> QED
    BY <2>1, <2>2
<1> QED
  BY <1>1, <1>3, <1>5, <1>6 DEF Inv, OpenInv

\* What m, a box of p, is sealed under: a key of p, shown and older than the
\* one named inside, and one of another router.
LEMMA BoxOf ==
  ASSUME NEW nd, NEW mt, NEW sl, Boxes(nd, mt, sl), NEW p \in Node, NEW m \in ToSet(sl[p])
  PROVE  Box(m, p, nd, mt)
BY DEF Boxes, ToSet

\* The box m of p fits one of the ways the session of n reads.
Reads(nd, sl, n, p, o, m) ==
  /\ nd[n].sessions[p] # None /\ m \in TrafficType /\ m \in ToSet(sl[p])
  /\ o \in Openings(nd[n].sessions[p]) /\ Fits(o, m)

\* The session has noted the nonce of m, and no key has moved.
Notes(nd, nd2, n, p, o, m) ==
  /\ Only(nd, nd2, n, p) /\ nd2[n].bufs[p] = nd[n].bufs[p]
  /\ nd2[n].sessions[p] = Noted(nd[n].sessions[p], o, m)

\* The three ways to read a frame, one by one.
LEMMA SlotCases ==
  ASSUME NEW s \in SessionType, NEW o \in Openings(s), NEW m \in TrafficType, Fits(o, m)
  PROVE  \/ /\ o.slot = "recv" /\ m.shared = {s.current, s.recv_pub} /\ s.recv_nonce < m.nonce
         \/ /\ o.slot = "next_send" /\ m.shared = {s.next, s.send_pub} /\ s.next_send_nonce < m.nonce
         \/ /\ o.slot = "next_recv" /\ m.shared = {s.next, s.recv_pub} /\ s.next_recv_nonce < m.nonce
<1>1. m.nonce \in Nat /\ s.recv_nonce \in Nat /\ s.next_send_nonce \in Nat /\ s.next_recv_nonce \in Nat
  BY NoncesNat
<1> QED
  BY <1>1 DEF Openings, Fits

LEMMA NotedSession ==
  ASSUME NEW s \in SessionType, NEW o, NEW m \in TrafficType
  PROVE  /\ SameKeys(s, Noted(s, o, m)) /\ Stretch(Noted(s, o, m)) = Stretch(s)
         /\ Noted(s, o, m).seq = s.seq /\ Noted(s, o, m).local_key_seq = s.local_key_seq
         /\ Noted(s, o, m).remote_key_seq = s.remote_key_seq
         /\ Noted(s, o, m).send_nonce = s.send_nonce
         /\ Noted(s, o, m).recv_nonce = IF o.slot = "recv" THEN m.nonce ELSE s.recv_nonce
         /\ Noted(s, o, m).next_send_nonce
              = IF o.slot = "next_send" THEN m.nonce ELSE s.next_send_nonce
         /\ Noted(s, o, m).next_recv_nonce
              = IF o.slot = "next_recv" THEN m.nonce ELSE s.next_recv_nonce
         /\ Noted(s, o, m).rotated_at = s.rotated_at
BY DEF Noted, SessionType, SameKeys, Stretch

\* What was opened before stays behind the nonces, which only rise.
LEMMA BeforeNoted ==
  ASSUME NEW s \in SessionType, NEW o \in Openings(s), NEW m \in TrafficType, Fits(o, m),
         NEW p, NEW e \in OpeningType, Before(e, s, p)
  PROVE  Before(e, Noted(s, o, m), p)
<1> DEFINE t == Noted(s, o, m)
           x == e.box.nonce
<1>1. /\ x \in Nat /\ m.nonce \in Nat /\ s.recv_nonce \in Nat /\ s.next_send_nonce \in Nat
      /\ s.next_recv_nonce \in Nat
  BY NoncesNat DEF OpeningType
<1>2. /\ SameKeys(s, t) /\ Stretch(t) = Stretch(s) /\ t.seq = s.seq
      /\ t.local_key_seq = s.local_key_seq /\ t.remote_key_seq = s.remote_key_seq
      /\ t.recv_nonce = IF o.slot = "recv" THEN m.nonce ELSE s.recv_nonce
      /\ t.next_send_nonce = IF o.slot = "next_send" THEN m.nonce ELSE s.next_send_nonce
      /\ t.next_recv_nonce = IF o.slot = "next_recv" THEN m.nonce ELSE s.next_recv_nonce
  BY NotedSession
<1>3. \/ o.slot = "recv" /\ s.recv_nonce < m.nonce
      \/ o.slot = "next_send" /\ s.next_send_nonce < m.nonce
      \/ o.slot = "next_recv" /\ s.next_recv_nonce < m.nonce
  BY SlotCases
<1> HIDE DEF t, x
<1>4. x <= s.recv_nonce => x <= t.recv_nonce
  BY <1>1, <1>2, <1>3
<1>5. x <= s.next_send_nonce => x <= t.next_send_nonce
  BY <1>1, <1>2, <1>3
<1>6. x <= s.next_recv_nonce => x <= t.next_recv_nonce
  BY <1>1, <1>2, <1>3
<1>7. t.current = s.current /\ t.next = s.next /\ t.recv_pub = s.recv_pub /\ t.send_pub = s.send_pub
  BY <1>2 DEF SameKeys
<1>8. Before(e, t, p)
  <2>1. e.stretch.seq <= t.seq
    BY <1>2 DEF Before
  <2>2. e.stretch.seq = t.seq => e.stretch.lead <= t.local_key_seq - t.remote_key_seq
    BY <1>2 DEF Before
  <2>3. e.stretch = Stretch(s) =>
          /\ \A c \in e.box.shared : c[1] = p => c[2] <= s.next[2]
          /\ e.box.shared = {s.current, s.recv_pub} => x <= s.recv_nonce
          /\ e.box.shared = {s.next, s.send_pub} => x <= s.next_send_nonce
          /\ e.box.shared = {s.next, s.recv_pub} => x <= s.next_recv_nonce
    BY DEF Before, x
  <2> QED
    BY <1>2, <1>4, <1>5, <1>6, <1>7, <2>1, <2>2, <2>3 DEF Before, x
<1> QED
  BY <1>8 DEF t

\* And so does what is opened now.
LEMMA BeforeOpening ==
  ASSUME NEW s \in SessionType, NEW o \in Openings(s), NEW m \in TrafficType, Fits(o, m),
         NEW n \in Node, NEW p \in Node, NEW nd, NEW mt, SessionKeys(s, n, p, nd, mt)
  PROVE  Before(Opening(p, s, m), Noted(s, o, m), p)
<1> DEFINE t == Noted(s, o, m)
           e == Opening(p, s, m)
<1>1. m.nonce \in Nat /\ s.seq \in Nat /\ s.local_key_seq \in Nat /\ s.remote_key_seq \in Nat
  BY NoncesNat DEF SessionType
<1>2. /\ SameKeys(s, t) /\ Stretch(t) = Stretch(s) /\ t.seq = s.seq
      /\ t.local_key_seq = s.local_key_seq /\ t.remote_key_seq = s.remote_key_seq
      /\ t.recv_nonce = IF o.slot = "recv" THEN m.nonce ELSE s.recv_nonce
      /\ t.next_send_nonce = IF o.slot = "next_send" THEN m.nonce ELSE s.next_send_nonce
      /\ t.next_recv_nonce = IF o.slot = "next_recv" THEN m.nonce ELSE s.next_recv_nonce
  BY NotedSession
<1>3. \/ o.slot = "recv" /\ m.shared = {s.current, s.recv_pub}
      \/ o.slot = "next_send" /\ m.shared = {s.next, s.send_pub}
      \/ o.slot = "next_recv" /\ m.shared = {s.next, s.recv_pub}
  BY SlotCases
<1>4. e.box = m /\ e.stretch = Stretch(s) /\ e.stretch.seq = s.seq
      /\ e.stretch.lead = s.local_key_seq - s.remote_key_seq
  BY DEF Opening, Stretch
<1>5. /\ s.current[1] = p /\ s.next[1] = p /\ s.recv_pub[1] = n /\ s.send_pub[1] = n /\ n # p
      /\ s.current[2] < s.next[2] /\ s.recv_pub[2] < s.send_pub[2]
      /\ s.current[2] \in Nat /\ s.next[2] \in Nat /\ s.recv_pub[2] \in Nat /\ s.send_pub[2] \in Nat
  BY DEF SessionKeys, KeysOf, Key, Shown
<1>6. s.current # s.next /\ s.recv_pub # s.send_pub
  BY <1>5
<1>7. \A c \in m.shared : c[1] = p => c[2] <= s.next[2]
  BY <1>3, <1>5
<1>8. /\ {s.current, s.recv_pub} # {s.next, s.send_pub} /\ {s.current, s.recv_pub} # {s.next, s.recv_pub}
      /\ {s.next, s.send_pub} # {s.next, s.recv_pub}
  BY <1>5, <1>6
<1> HIDE DEF t, e
<1>9. /\ m.shared = {s.current, s.recv_pub} => m.nonce <= t.recv_nonce
      /\ m.shared = {s.next, s.send_pub} => m.nonce <= t.next_send_nonce
      /\ m.shared = {s.next, s.recv_pub} => m.nonce <= t.next_recv_nonce
  BY <1>1, <1>2, <1>3, <1>8
<1>10. t.current = s.current /\ t.next = s.next /\ t.recv_pub = s.recv_pub /\ t.send_pub = s.send_pub
  BY <1>2 DEF SameKeys
<1>11. s.seq <= t.seq /\ s.local_key_seq - s.remote_key_seq <= t.local_key_seq - t.remote_key_seq
  BY <1>1, <1>2
<1>12. Before(e, t, p)
  BY <1>4, <1>7, <1>9, <1>10, <1>11 DEF Before
<1> QED
  BY <1>12 DEF t, e

\* What the guards of a session let in, it has not let in in this stretch.
LEMMA NotBefore ==
  ASSUME NEW s \in SessionType, NEW o \in Openings(s), NEW m \in TrafficType, Fits(o, m),
         NEW p, NEW e \in OpeningType, Before(e, s, p),
         e.box.shared = m.shared, e.box.nonce = m.nonce, e.stretch = Stretch(s)
  PROVE  FALSE
<1>1. /\ m.nonce \in Nat /\ s.recv_nonce \in Nat /\ s.next_send_nonce \in Nat
      /\ s.next_recv_nonce \in Nat
  BY NoncesNat
<1>2. /\ m.shared = {s.current, s.recv_pub} => m.nonce <= s.recv_nonce
      /\ m.shared = {s.next, s.send_pub} => m.nonce <= s.next_send_nonce
      /\ m.shared = {s.next, s.recv_pub} => m.nonce <= s.next_recv_nonce
  BY DEF Before
<1>3. \/ /\ m.shared = {s.current, s.recv_pub} /\ s.recv_nonce < m.nonce
      \/ /\ m.shared = {s.next, s.send_pub} /\ s.next_send_nonce < m.nonce
      \/ /\ m.shared = {s.next, s.recv_pub} /\ s.next_recv_nonce < m.nonce
  BY SlotCases
<1>4. CASE m.nonce <= s.recv_nonce /\ s.recv_nonce < m.nonce
  BY <1>1, <1>4
<1>5. CASE m.nonce <= s.next_send_nonce /\ s.next_send_nonce < m.nonce
  BY <1>1, <1>5
<1>6. CASE m.nonce <= s.next_recv_nonce /\ s.next_recv_nonce < m.nonce
  BY <1>1, <1>6
<1> QED
  BY <1>2, <1>3, <1>4, <1>5, <1>6

\* The box that was opened is the business of no other peer, and of no key that
\* has not been made known.
LEMMA OpeningElsewhere ==
  ASSUME NEW nd, NEW mt, NEW sl, NEW n \in Node, NEW p \in Node, NEW o, NEW m,
         nd[n].sessions[p] \in SessionType,
         Owned(nd, mt), Apart(nd), Reads(nd, sl, n, p, o, m), NEW q \in Node, NEW k \in OwnKeys(nd, n, q),
         k \in m.shared
  PROVE  q = p /\ k # nd[n].sessions[p].next_pub
<1> DEFINE s == nd[n].sessions[p]
<1>1. SessionKeys(s, n, p, nd, mt) /\ m \in TrafficType /\ o \in Openings(s) /\ Fits(o, m)
  BY DEF Owned, Reads
<1>2. m.shared = {s.current, s.recv_pub} \/ m.shared = {s.next, s.send_pub} \/ m.shared = {s.next, s.recv_pub}
  BY <1>1, SlotCases
<1>3. /\ s.current[1] = p /\ s.next[1] = p /\ n # p
      /\ s.recv_pub[2] < s.send_pub[2] /\ s.send_pub[2] < s.next_pub[2]
      /\ s.recv_pub[2] \in Nat /\ s.send_pub[2] \in Nat /\ s.next_pub[2] \in Nat
  BY <1>1 DEF SessionKeys, KeysOf, Key
<1>4. k[1] = n
  BY OwnKeysOwned
<1>5. k = s.recv_pub \/ k = s.send_pub
  BY <1>2, <1>3, <1>4
<1>6. s.recv_pub \in OwnKeys(nd, n, p) /\ s.send_pub \in OwnKeys(nd, n, p)
  BY DEF OwnKeys, Reads
<1>7. k \in OwnKeys(nd, n, p)
  BY <1>5, <1>6
<1>8. q = p
  BY <1>7 DEF Apart
<1>9. s.recv_pub # s.next_pub /\ s.send_pub # s.next_pub
  BY <1>3
<1> QED
  BY <1>5, <1>8, <1>9

LEMMA OpenKeeps ==
  ASSUME NEW nd, NEW mt, NEW ch, NEW sl, NEW op, Inv(nd, mt, ch, sl, op),
         NEW nd2 \in [Node -> StateType], NEW n \in Node, NEW p \in Node, NEW o, NEW m,
         Reads(nd, sl, n, p, o, m), Notes(nd, nd2, n, p, o, m)
  PROVE  Inv(nd2, mt, ch, sl, Record(op, n, Opening(p, nd[n].sessions[p], m)))
<1> DEFINE s == nd[n].sessions[p]
           t == Noted(s, o, m)
           e0 == Opening(p, s, m)
           op2 == Record(op, n, e0)
<1>1. Typed(nd, mt, ch, sl, op) /\ KeyInv(nd, mt, ch, sl) /\ OpenInv(nd, sl, op)
  BY DEF Inv
<1>2. /\ nd \in [Node -> StateType] /\ mt \in [Node -> Nat]
      /\ ch \in [Node -> [Node -> Seq(Msg)]] /\ sl \in [Node -> Seq(TrafficType)]
      /\ op \in [Node -> Seq(OpeningType)]
  BY <1>1 DEF Typed
<1>3. /\ nd[n].sessions[p] # None /\ m \in TrafficType /\ m \in ToSet(sl[p])
      /\ o \in Openings(s) /\ Fits(o, m)
  BY DEF Reads
<1>4. s \in SessionType
  BY <1>1, <1>3, SessionsTyped
<1>5. Owned(nd, mt) /\ Apart(nd)
  BY <1>1 DEF KeyInv
<1>6. SessionKeys(s, n, p, nd, mt) /\ nd[n].bufs[p] = None
  BY <1>3, <1>5 DEF Owned
<1>7. /\ Only(nd, nd2, n, p) /\ nd2[n].bufs[p] = None /\ nd2[n].sessions[p] = t
  BY <1>6 DEF Notes
<1>8. SameKeys(s, t) /\ t.send_nonce = s.send_nonce
  BY <1>3, <1>4, NotedSession
<1>9. e0 \in OpeningType /\ e0.from = p /\ e0.box = m /\ e0.stretch = Stretch(s)
  BY <1>3, <1>4 DEF OpeningType, Opening, Stretch, SessionType
<1>10. op2 \in [Node -> Seq(OpeningType)]
  BY <1>2, <1>9, RecordOf
<1>12. Before(e0, t, p)
  BY <1>3, <1>4, <1>6, BeforeOpening
<1>13. ASSUME NEW e \in OpeningType, Before(e, s, p) PROVE Before(e, t, p)
  BY <1>3, <1>4, <1>13, BeforeNoted
<1>14. ASSUME NEW e \in OpeningType, Before(e, s, p), e.box.shared = m.shared, e.box.nonce = m.nonce,
              e.stretch = Stretch(s)
       PROVE  FALSE
  BY <1>3, <1>4, <1>14, NotBefore
<1>15. ASSUME NEW q \in Node, NEW k \in OwnKeys(nd, n, q), k \in m.shared
       PROVE  q = p /\ k # s.next_pub
  BY <1>4, <1>5, <1>15, OpeningElsewhere
<1> HIDE DEF s, t, e0, op2
<1>11. ASSUME NEW a \in Node, NEW i \in DOMAIN op2[a]
       PROVE  \/ i \in DOMAIN op[a] /\ op2[a][i] = op[a][i]
              \/ a = n /\ i = Len(op[n]) + 1 /\ op2[a][i] = e0 /\ i \notin DOMAIN op[n]
  BY <1>2, <1>9, RecordCases DEF op2
<1>16. KeyInv(nd2, mt, ch, sl)
  <2>1. t.send_nonce \in Nat /\ s.send_nonce <= t.send_nonce
    BY <1>4, <1>8, NoncesNat
  <2>2. Lessened(nd, nd2)
    <3> SUFFICES ASSUME NEW a \in Node, NEW q \in Node
                 PROVE  /\ nd2[a].sessions[q] # None =>
                             /\ nd[a].sessions[q] # None
                             /\ SameKeys(nd[a].sessions[q], nd2[a].sessions[q])
                             /\ nd[a].sessions[q].send_nonce <= nd2[a].sessions[q].send_nonce
                        /\ nd2[a].bufs[q] # None =>
                             /\ nd[a].bufs[q] # None
                             /\ nd2[a].bufs[q].send_pub = nd[a].bufs[q].send_pub
                             /\ nd2[a].bufs[q].next_pub = nd[a].bufs[q].next_pub
      BY DEF Lessened
    <3>1. CASE a = n /\ q = p
      BY <1>3, <1>7, <1>8, <2>1, <3>1 DEF s
    <3>2. CASE a # n \/ q # p
      <4>1. nd2[a].sessions[q] = nd[a].sessions[q] /\ nd2[a].bufs[q] = nd[a].bufs[q]
        BY <1>7, <3>2 DEF Only
      <4>2. nd[a].sessions[q] # None => nd[a].sessions[q].send_nonce \in Nat
        BY <1>1, SessionsTyped, NoncesNat
      <4>3. nd[a].sessions[q] # None => nd[a].sessions[q].send_nonce <= nd[a].sessions[q].send_nonce
        BY <4>2
      <4> QED
        BY <4>1, <4>3 DEF SameKeys
    <3> QED
      BY <3>1, <3>2
  <2>3. Grown(mt, mt)
    BY <1>2 DEF Grown
  <2> QED
    BY <1>1, <1>2, <2>2, <2>3, LessKeeps
<1>17. AllSeen(nd2, op2)
  <2> SUFFICES ASSUME NEW a \in Node, NEW q \in Node, NEW i \in DOMAIN op2[a]
               PROVE  Seen(op2[a][i], nd2, a, q)
    BY DEF AllSeen
  <2>1. CASE i \in DOMAIN op[a] /\ op2[a][i] = op[a][i]
    <3> DEFINE e == op[a][i]
    <3>1. Seen(e, nd, a, q)
      BY <1>1, <2>1 DEF OpenInv, AllSeen
    <3>2. e \in OpeningType
      BY <2>1, OpenedBox
    <3> HIDE DEF e
    <3>3. CASE a = n /\ q = p
      <4>1. Before(e, s, p) => Before(e, t, p)
        BY <1>13, <3>2
      <4>2. Seen(e, nd, n, p)
        BY <3>1, <3>3
      <4>3. /\ s.next_pub \notin e.box.shared
            /\ s.recv_pub \in e.box.shared \/ s.send_pub \in e.box.shared => Before(e, s, p)
        BY <1>3, <4>2 DEF Seen, s
      <4>4. /\ t.next_pub \notin e.box.shared
            /\ t.recv_pub \in e.box.shared \/ t.send_pub \in e.box.shared => Before(e, t, p)
        BY <1>8, <4>1, <4>3 DEF SameKeys
      <4>5. Seen(e, nd2, n, p)
        BY <1>7, <4>4 DEF Seen
      <4> QED
        BY <2>1, <3>3, <4>5 DEF e
    <3>4. CASE a # n \/ q # p
      <4>1. nd2[a].sessions[q] = nd[a].sessions[q] /\ nd2[a].bufs[q] = nd[a].bufs[q]
        BY <1>7, <3>4 DEF Only
      <4>2. Seen(e, nd2, a, q)
        BY <3>1, <4>1 DEF Seen
      <4> QED
        BY <2>1, <4>2 DEF e
    <3> QED
      BY <3>3, <3>4
  <2>2. CASE a = n /\ op2[a][i] = e0
    <3>1. CASE q = p
      <4>1. s.next_pub \notin m.shared
        <5>1. s.next_pub \in OwnKeys(nd, n, p)
          BY <1>3 DEF OwnKeys, s
        <5> QED
          BY <1>15, <5>1
      <4>2. t.next_pub \notin e0.box.shared
        BY <1>8, <1>9, <4>1 DEF SameKeys
      <4>3. Seen(e0, nd2, n, p)
        BY <1>7, <1>12, <4>2 DEF Seen
      <4> QED
        BY <2>2, <3>1, <4>3
    <3>2. CASE q # p
      <4>1. \A k \in OwnKeys(nd, n, q) : k \notin e0.box.shared
        BY <1>9, <1>15, <3>2
      <4>2. nd2[n].sessions[q] = nd[n].sessions[q] /\ nd2[n].bufs[q] = nd[n].bufs[q]
        BY <1>7, <3>2 DEF Only
      <4>3. Seen(e0, nd2, n, q)
        BY <4>1, <4>2 DEF Seen, OwnKeys
      <4> QED
        BY <2>2, <4>3
    <3> QED
      BY <3>1, <3>2
  <2> QED
    BY <1>11, <2>1, <2>2
<1>18. Authentic(op2, sl)
  <2> SUFFICES ASSUME NEW a \in Node, NEW i \in DOMAIN op2[a]
               PROVE  op2[a][i].from # a /\ op2[a][i].box \in ToSet(sl[op2[a][i].from])
    BY DEF Authentic
  <2>1. CASE i \in DOMAIN op[a] /\ op2[a][i] = op[a][i]
    BY <1>1, <2>1 DEF OpenInv, Authentic
  <2>2. CASE a = n /\ op2[a][i] = e0
    BY <1>3, <1>6, <1>9, <2>2 DEF SessionKeys
  <2> QED
    BY <1>11, <2>1, <2>2
<1>19. ASSUME NEW i \in DOMAIN op[n], op[n][i].box.shared = m.shared, op[n][i].box.nonce = m.nonce,
              op[n][i].stretch = Stretch(s)
       PROVE  FALSE
  <2>1. Seen(op[n][i], nd, n, p)
    BY <1>1 DEF OpenInv, AllSeen
  <2>2. s.recv_pub \in m.shared \/ s.send_pub \in m.shared
    BY <1>3, <1>4, SlotCases
  <2>3. Before(op[n][i], s, p)
    BY <1>3, <1>19, <2>1, <2>2 DEF Seen, s
  <2>4. op[n][i] \in OpeningType
    BY OpenedBox
  <2> QED
    BY <1>14, <1>19, <2>3, <2>4
<1>20. Once(op2)
  <2> SUFFICES ASSUME NEW a \in Node, NEW i \in DOMAIN op2[a], NEW j \in DOMAIN op2[a],
                      op2[a][i].box.shared = op2[a][j].box.shared,
                      op2[a][i].box.nonce = op2[a][j].box.nonce,
                      op2[a][i].stretch = op2[a][j].stretch
               PROVE  i = j
    BY DEF Once
  <2>1. CASE /\ i \in DOMAIN op[a] /\ op2[a][i] = op[a][i]
             /\ j \in DOMAIN op[a] /\ op2[a][j] = op[a][j]
    BY <1>1, <2>1 DEF OpenInv, Once
  <2>2. CASE a = n /\ op2[a][i] = e0 /\ j \in DOMAIN op[a] /\ op2[a][j] = op[a][j]
    BY <1>9, <1>19, <2>2
  <2>3. CASE a = n /\ op2[a][j] = e0 /\ i \in DOMAIN op[a] /\ op2[a][i] = op[a][i]
    BY <1>9, <1>19, <2>3
  <2>4. CASE i = Len(op[n]) + 1 /\ j = Len(op[n]) + 1
    BY <2>4
  <2> QED
    BY <1>11, <2>1, <2>2, <2>3, <2>4
<1>21. Typed(nd2, mt, ch, sl, op2)
  BY <1>2, <1>10 DEF Typed
<1> QED
  BY <1>16, <1>17, <1>18, <1>20, <1>21 DEF Inv, OpenInv, op2, e0, s

\* The box m of p was read with p's next key, and its nonce has been noted.
Moved(nd, sl, n, p, m) ==
  LET s == nd[n].sessions[p]
  IN  /\ s # None /\ m \in TrafficType /\ m \in ToSet(sl[p])
      /\ \/ m.shared = {s.next, s.send_pub} /\ s.next_send_nonce = m.nonce
         \/ m.shared = {s.next, s.recv_pub}

\* The session has followed p.
Follows(nd, nd2, mt, mt2, n, p, m, key) ==
  /\ Only(nd, nd2, n, p) /\ nd2[n].bufs[p] = nd[n].bufs[p] /\ Grown(mt, mt2) /\ New(key, n, mt, mt2)
  /\ nd2[n].sessions[p] = Rotate(nd[n].sessions[p], m, key)

LEMMA RotatedSession ==
  ASSUME NEW s \in SessionType, NEW m \in TrafficType, NEW key \in Key, now \in Nat
  PROVE  /\ Rotate(s, m, key).recv_pub = s.send_pub /\ Rotate(s, m, key).send_pub = s.next_pub
         /\ Rotate(s, m, key).next_pub = key
         /\ Rotate(s, m, key).current = s.next /\ Rotate(s, m, key).next = m.next
         /\ Rotate(s, m, key).seq = s.seq
         /\ Rotate(s, m, key).local_key_seq = s.local_key_seq + 1
         /\ Rotate(s, m, key).remote_key_seq = s.remote_key_seq + 1
         /\ Rotate(s, m, key).recv_nonce = m.nonce
         /\ Rotate(s, m, key).next_send_nonce = 0 /\ Rotate(s, m, key).next_recv_nonce = 0
<1> DEFINE a == Ratchet(s, key, m.nonce, 0)
<1>1. /\ a \in SessionType /\ a.recv_pub = s.send_pub /\ a.send_pub = s.next_pub /\ a.next_pub = key
      /\ a.seq = s.seq /\ a.local_key_seq = s.local_key_seq + 1
      /\ a.remote_key_seq = s.remote_key_seq /\ a.recv_nonce = m.nonce
      /\ a.next_send_nonce = 0 /\ a.next_recv_nonce = 0
  <2>1. m.nonce \in Nonce /\ 0 \in Nonce
    BY NonceAssumption DEF TrafficType, Nonce
  <2>2. a \in SessionType
    BY <2>1, RatchetType
  <2> QED
    BY <2>2 DEF Ratchet, SessionType
<1> HIDE DEF a
<1>2. Rotate(s, m, key) = [a EXCEPT !.current = s.next, !.next = m.next,
                                    !.remote_key_seq = a.remote_key_seq + 1, !.rotated_at = now]
  BY <1>1 DEF Rotate, a, SessionType
<1> QED
  BY <1>1, <1>2 DEF SessionType

\* The key of p that m is sealed under has been shown, and m names a younger
\* one.
LEMMA PeerMoved ==
  ASSUME NEW nd, NEW mt, NEW sl, Owned(nd, mt), Boxes(nd, mt, sl), NEW n \in Node, NEW p \in Node,
         NEW m, Moved(nd, sl, n, p, m)
  PROVE  /\ nd[n].sessions[p].next \in Shown(nd, mt)
         /\ m.next \in KeysOf(p, mt) /\ nd[n].sessions[p].next[2] < m.next[2]
<1> DEFINE s == nd[n].sessions[p]
<1>1. /\ s # None /\ m \in ToSet(sl[p])
      /\ m.shared = {s.next, s.send_pub} \/ m.shared = {s.next, s.recv_pub}
  BY DEF Moved
<1>2. SessionKeys(s, n, p, nd, mt)
  BY <1>1 DEF Owned
<1>3. s.send_pub[1] = n /\ s.recv_pub[1] = n /\ n # p
  BY <1>2 DEF SessionKeys, KeysOf
<1>4. Box(m, p, nd, mt)
  BY <1>1, BoxOf
<1> HIDE DEF s
<1>5. PICK k \in m.shared : /\ k \in Shown(nd, mt) /\ k[1] = p
                            /\ m.next \in KeysOf(p, mt) /\ k[2] < m.next[2]
  BY <1>4 DEF Box
<1>6. k = s.next
  BY <1>1, <1>3, <1>5
<1> QED
  BY <1>5, <1>6 DEF s

LEMMA FollowTurns ==
  ASSUME NEW nd, NEW mt, NEW ch, NEW sl, NEW op, Inv(nd, mt, ch, sl, op),
         NEW nd2 \in [Node -> StateType], NEW mt2, NEW n \in Node, NEW p \in Node, NEW m, NEW key,
         Moved(nd, sl, n, p, m), Follows(nd, nd2, mt, mt2, n, p, m, key), now \in Nat
  PROVE  Turned(nd, nd2, mt, mt2, n, p)
<1> DEFINE s == nd[n].sessions[p]
           t == nd2[n].sessions[p]
<1>1. Typed(nd, mt, ch, sl, op) /\ Owned(nd, mt) /\ Boxes(nd, mt, sl) /\ mt \in [Node -> Nat]
  BY DEF Inv, KeyInv, Typed
<1>2. s # None /\ m \in TrafficType
  BY DEF Moved
<1>3. SessionKeys(s, n, p, nd, mt) /\ nd[n].bufs[p] = None
  BY <1>1, <1>2 DEF Owned
<1>4. s \in SessionType
  BY <1>1, <1>2, SessionsTyped
<1>5. /\ Only(nd, nd2, n, p) /\ nd2[n].bufs[p] = None /\ Grown(mt, mt2) /\ New(key, n, mt, mt2)
      /\ t = Rotate(s, m, key)
  BY <1>3 DEF Follows
<1>6. key \in Key /\ key[2] \in Nat /\ mt[n] < key[2] /\ mt[n] \in Nat
  BY <1>1, <1>5 DEF New, KeysOf, Key
<1>7. /\ t.recv_pub = s.send_pub /\ t.send_pub = s.next_pub /\ t.next_pub = key
      /\ t.current = s.next /\ t.next = m.next
  <2> HIDE DEF s, t
  <2> QED
    BY <1>2, <1>4, <1>5, <1>6, RotatedSession
<1>8. s.next \in Shown(nd, mt) /\ m.next \in KeysOf(p, mt) /\ s.next[2] < m.next[2]
  BY <1>1, PeerMoved
<1>9. t # None
  <2>1. Rotate(s, m, key) \in SessionType
    BY <1>2, <1>4, <1>6, RotateType
  <2> QED
    BY <1>5, <2>1, NoneAssumption
<1> HIDE DEF s, t
<1>10. s.next_pub \in NextKeys(nd, n, p) /\ s.send_pub \in OwnKeys(nd, n, p)
  BY <1>2 DEF NextKeys, OwnKeys, s
<1>11. /\ s.next[1] = p /\ s.send_pub[2] < s.next_pub[2] /\ n # p /\ s.next_pub[2] <= mt[n]
       /\ s.next_pub[2] \in Nat
  BY <1>3 DEF SessionKeys, KeysOf, Key
<1>12. s.next_pub[2] < key[2]
  BY <1>6, <1>11
<1>13. /\ New(t.next_pub, n, mt, mt2) /\ t.send_pub \in NextKeys(nd, n, p)
       /\ t.recv_pub \in OwnKeys(nd, n, p)
       /\ t.recv_pub[2] < t.send_pub[2] /\ t.send_pub[2] < t.next_pub[2]
       /\ t.current \in Shown(nd, mt) /\ t.current[1] = p
       /\ t.next \in KeysOf(p, mt) /\ t.current[2] < t.next[2]
  BY <1>5, <1>7, <1>8, <1>10, <1>11, <1>12
<1> QED
  BY <1>5, <1>9, <1>11, <1>13 DEF Turned, t

\* Following p changes which keys read in which way, and every nonce goes with
\* its keys: what was read with p's next key is now read with its current one.
LEMMA BeforeFollowing ==
  ASSUME NEW s \in SessionType, NEW m \in TrafficType, NEW key \in Key, now \in Nat,
         NEW p \in Node, NEW e \in OpeningType, Before(e, s, p), key \notin e.box.shared,
         s.next_pub \notin e.box.shared, m.next[1] = p, s.next[2] < m.next[2],
         e.box.shared = {s.next, s.send_pub} => s.next_send_nonce = m.nonce
  PROVE  Before(e, Rotate(s, m, key), p)
<1> DEFINE t == Rotate(s, m, key)
           sh == e.box.shared
<1>1. /\ t.recv_pub = s.send_pub /\ t.send_pub = s.next_pub /\ t.next_pub = key
      /\ t.current = s.next /\ t.next = m.next /\ t.seq = s.seq
      /\ t.local_key_seq = s.local_key_seq + 1 /\ t.remote_key_seq = s.remote_key_seq + 1
      /\ t.recv_nonce = m.nonce
  BY RotatedSession
<1>2. /\ s.seq \in Nat /\ s.local_key_seq \in Nat /\ s.remote_key_seq \in Nat
      /\ s.next \in Key /\ m.next \in Key /\ e.box \in TrafficType
  BY DEF SessionType, TrafficType, OpeningType
<1>3. sh \subseteq Key
  BY <1>2 DEF TrafficType
<1> HIDE DEF t, sh
<1>4. t.local_key_seq - t.remote_key_seq = s.local_key_seq - s.remote_key_seq
  BY <1>1, <1>2
<1>5. Stretch(t) = Stretch(s)
  BY <1>1, <1>4 DEF Stretch
<1>6. s.next[2] \in Nat /\ m.next[2] \in Nat /\ \A c \in sh : c[2] \in Nat
  BY <1>2, <1>3 DEF Key
<1>7. e.stretch = Stretch(s) =>
        /\ \A c \in sh : c[1] = p => c[2] <= s.next[2]
        /\ sh = {s.next, s.send_pub} => e.box.nonce <= s.next_send_nonce
  BY DEF Before, sh
<1>8. ASSUME e.stretch = Stretch(s)
      PROVE  /\ \A c \in sh : c[1] = p => c[2] <= m.next[2]
             /\ m.next \notin sh
  <2>1. \A c \in sh : c[1] = p => c[2] <= s.next[2]
    BY <1>7, <1>8
  <2>2. \A c \in sh : c[1] = p => c[2] < m.next[2]
    BY <1>6, <2>1
  <2>3. ~(m.next[2] < m.next[2])
    BY <1>6
  <2> QED
    BY <1>6, <2>2, <2>3
<1>9. e.stretch = Stretch(t) =>
        /\ \A c \in sh : c[1] = p => c[2] <= t.next[2]
        /\ sh = {t.current, t.recv_pub} => e.box.nonce <= t.recv_nonce
        /\ sh = {t.next, t.send_pub} => e.box.nonce <= t.next_send_nonce
        /\ sh = {t.next, t.recv_pub} => e.box.nonce <= t.next_recv_nonce
  BY <1>1, <1>5, <1>7, <1>8 DEF sh
<1>10. Before(e, t, p)
  BY <1>1, <1>4, <1>9 DEF Before, sh
<1> QED
  BY <1>10 DEF t

\* p seals under a key of its own against one key of n only, so what n has
\* opened under p's next key and n's send key was sealed like m.
LEMMA MateOf ==
  ASSUME NEW nd, NEW mt, NEW ch, NEW sl, NEW op, Inv(nd, mt, ch, sl, op),
         NEW n \in Node, NEW p \in Node, NEW m, Moved(nd, sl, n, p, m), NEW i \in DOMAIN op[n],
         op[n][i].box.shared = {nd[n].sessions[p].next, nd[n].sessions[p].send_pub}
  PROVE  nd[n].sessions[p].next_send_nonce = m.nonce
<1> DEFINE s == nd[n].sessions[p]
           e == op[n][i]
<1>1. Owned(nd, mt) /\ Boxes(nd, mt, sl) /\ Mates(sl)
  BY DEF Inv, KeyInv
<1>2. /\ s # None /\ m \in ToSet(sl[p])
      /\ \/ m.shared = {s.next, s.send_pub} /\ s.next_send_nonce = m.nonce
         \/ m.shared = {s.next, s.recv_pub}
  BY DEF Moved
<1>3. SessionKeys(s, n, p, nd, mt)
  BY <1>1, <1>2 DEF Owned
<1>4. /\ s.send_pub[1] = n /\ s.recv_pub[1] = n /\ s.next[1] = p /\ n # p
      /\ s.recv_pub[2] < s.send_pub[2] /\ s.recv_pub[2] \in Nat /\ s.send_pub[2] \in Nat
  BY <1>3 DEF SessionKeys, KeysOf, Key
<1>5. s.recv_pub # s.send_pub
  BY <1>4
<1>6. e.from \in Node /\ e.from # n /\ e.box \in ToSet(sl[e.from])
  BY OpenedBox
<1>7. Box(e.box, e.from, nd, mt)
  BY <1>1, <1>6, BoxOf
<1>8. e.box.shared = {s.next, s.send_pub}
  OBVIOUS
<1> HIDE DEF s, e
<1>9. e.from = p
  <2>1. \E k \in e.box.shared : k[1] = e.from
    BY <1>7 DEF Box
  <2> QED
    BY <1>4, <1>6, <1>8, <2>1
<1>10. PICK a \in DOMAIN sl[p] : sl[p][a] = m
  BY <1>2 DEF ToSet
<1>11. PICK b \in DOMAIN sl[p] : sl[p][b] = e.box
  BY <1>6, <1>9 DEF ToSet
<1>12. s.next \in m.shared /\ s.next \in e.box.shared
  BY <1>2, <1>8
<1>13. sl[p][a].shared = sl[p][b].shared
  BY <1>1, <1>4, <1>10, <1>11, <1>12 DEF Mates
<1>14. m.shared = {s.next, s.send_pub}
  BY <1>8, <1>10, <1>11, <1>13
<1>15. s.send_pub # s.next
  BY <1>4
<1>16. m.shared # {s.next, s.recv_pub}
  BY <1>5, <1>14, <1>15
<1> QED
  BY <1>2, <1>16 DEF s

LEMMA RotateKeeps ==
  ASSUME NEW nd, NEW mt, NEW ch, NEW sl, NEW op, Inv(nd, mt, ch, sl, op),
         NEW nd2 \in [Node -> StateType], NEW mt2, NEW n \in Node, NEW p \in Node, NEW m, NEW key,
         Moved(nd, sl, n, p, m), Follows(nd, nd2, mt, mt2, n, p, m, key), now \in Nat
  PROVE  Inv(nd2, mt2, ch, sl, op)
<1> DEFINE s == nd[n].sessions[p]
           t == nd2[n].sessions[p]
<1>1. /\ Typed(nd, mt, ch, sl, op) /\ KeyInv(nd, mt, ch, sl) /\ OpenInv(nd, sl, op)
      /\ Owned(nd, mt) /\ Boxes(nd, mt, sl)
  BY DEF Inv, KeyInv
<1>2. Turned(nd, nd2, mt, mt2, n, p)
  BY FollowTurns
<1>3. /\ Only(nd, nd2, n, p) /\ Grown(mt, mt2) /\ New(key, n, mt, mt2) /\ t = Rotate(s, m, key)
  BY DEF Follows
<1>4. t # None /\ nd2[n].bufs[p] = None
  BY <1>2 DEF Turned
<1>5. Typed(nd2, mt2, ch, sl, op)
  BY <1>1, <1>3 DEF Typed, Grown
<1>6. KeyInv(nd2, mt2, ch, sl)
  <2>1. mt \in [Node -> Nat] /\ ch \in [Node -> [Node -> Seq(Msg)]]
    BY <1>1 DEF Typed
  <2> QED
    BY <1>1, <1>2, <2>1, TurnKeeps
<1>7. s # None /\ m \in TrafficType /\ key \in Key
  BY <1>3 DEF Moved, New, KeysOf
<1>8. s \in SessionType
  BY <1>1, <1>7, SessionsTyped
<1>9. m.next[1] = p /\ s.next[2] < m.next[2]
  BY <1>1, PeerMoved DEF KeysOf
<1>10. t.recv_pub = s.send_pub /\ t.send_pub = s.next_pub /\ t.next_pub = key
  <2> HIDE DEF s, t
  <2> QED
    BY <1>3, <1>7, <1>8, RotatedSession
<1>11. ASSUME NEW i \in DOMAIN op[n] PROVE Seen(op[n][i], nd2, n, p)
  <2> DEFINE e == op[n][i]
  <2>1. Seen(e, nd, n, p)
    BY <1>1 DEF OpenInv, AllSeen
  <2>2. key \notin e.box.shared
    BY <1>3, NewUnseen
  <2>3. s.next_pub \notin e.box.shared /\ (s.send_pub \in e.box.shared => Before(e, s, p))
    BY <1>7, <2>1 DEF Seen
  <2>4. e.box.shared = {s.next, s.send_pub} => s.next_send_nonce = m.nonce
    BY MateOf
  <2>5. e \in OpeningType
    BY OpenedBox
  <2> HIDE DEF s, t, e
  <2>6. Before(e, s, p) => Before(e, t, p)
    BY <1>3, <1>7, <1>8, <1>9, <2>2, <2>3, <2>4, <2>5, BeforeFollowing
  <2>7. /\ t.next_pub \notin e.box.shared
        /\ t.recv_pub \in e.box.shared \/ t.send_pub \in e.box.shared => Before(e, t, p)
    BY <1>10, <2>2, <2>3, <2>6
  <2> QED
    BY <1>4, <2>7 DEF Seen, t, e
<1> HIDE DEF s, t
<1>12. AllSeen(nd2, op)
  <2> SUFFICES ASSUME NEW a \in Node, NEW q \in Node, NEW i \in DOMAIN op[a]
               PROVE  Seen(op[a][i], nd2, a, q)
    BY DEF AllSeen
  <2>1. CASE a = n /\ q = p
    BY <1>11, <2>1
  <2>2. CASE a # n \/ q # p
    <3>1. nd2[a].sessions[q] = nd[a].sessions[q] /\ nd2[a].bufs[q] = nd[a].bufs[q]
      BY <1>3, <2>2 DEF Only
    <3>2. Seen(op[a][i], nd, a, q)
      BY <1>1 DEF OpenInv, AllSeen
    <3> QED
      BY <3>1, <3>2 DEF Seen
  <2> QED
    BY <2>1, <2>2
<1> QED
  BY <1>1, <1>5, <1>6, <1>12 DEF Inv, OpenInv

-----------------------------------------------------------------------------
(* The steps the handlers are made of *)

\* The session after encrypt: one nonce on, or ratcheted by the wrap.
OneOn(s, t) == SameKeys(s, t) /\ Unread(s, t) /\ s.send_nonce < t.send_nonce

Wrapped(s, t, key) ==
  /\ t.recv_pub = s.send_pub /\ t.send_pub = s.next_pub /\ t.next_pub = key
  /\ t.current = s.current /\ t.next = s.next /\ t.seq = s.seq
  /\ t.local_key_seq = s.local_key_seq + 1 /\ t.remote_key_seq = s.remote_key_seq

LEMMA EncryptedSession ==
  ASSUME NEW s \in SessionType, NEW key \in Key, now \in Nat
  PROVE  /\ Encrypted(s, key) \in SessionType
         /\ OneOn(s, Encrypted(s, key)) \/ Wrapped(s, Encrypted(s, key), key)
<1> DEFINE t == Encrypted(s, key)
           nonce == (s.send_nonce + 1) % NonceSpace
<1>1. t \in SessionType
  BY EncryptType, ActiveType DEF Encrypted
<1>2. CASE nonce = 0
  <2> DEFINE a == Ratchet(s, key, 0, 0)
  <2>1. a \in SessionType
    BY NonceAssumption, RatchetType DEF Nonce
  <2>2. /\ a.recv_pub = s.send_pub /\ a.send_pub = s.next_pub /\ a.next_pub = key
        /\ a.current = s.current /\ a.next = s.next /\ a.seq = s.seq
        /\ a.local_key_seq = s.local_key_seq + 1 /\ a.remote_key_seq = s.remote_key_seq
    BY DEF Ratchet, SessionType
  <2>3. t = [a EXCEPT !.active = now]
    BY <1>2 DEF Encrypt, Encrypted
  <2> HIDE DEF a, t
  <2>4. /\ t.recv_pub = a.recv_pub /\ t.send_pub = a.send_pub /\ t.next_pub = a.next_pub
        /\ t.current = a.current /\ t.next = a.next /\ t.seq = a.seq
        /\ t.local_key_seq = a.local_key_seq /\ t.remote_key_seq = a.remote_key_seq
    BY <2>1, <2>3 DEF SessionType
  <2> QED
    BY <1>1, <2>2, <2>4 DEF t, Wrapped
<1>3. CASE nonce # 0
  <2>1. s.send_nonce \in 0 .. NonceSpace - 1 /\ NonceSpace \in Nat /\ NonceSpace # 0
    BY NonceAssumption DEF SessionType
  <2>2. s.send_nonce < nonce
    <3>1. CASE s.send_nonce + 1 = NonceSpace
      BY <1>3, <2>1, <3>1
    <3>2. CASE s.send_nonce + 1 # NonceSpace
      <4>1. s.send_nonce + 1 \in 0 .. NonceSpace - 1
        BY <2>1, <3>2
      <4>2. nonce = s.send_nonce + 1
        BY <2>1, <4>1
      <4> QED
        BY <2>1, <4>2
    <3> QED
      BY <3>1, <3>2
  <2>3. t = [[s EXCEPT !.send_nonce = nonce] EXCEPT !.active = now]
    BY <1>3 DEF Encrypt, Encrypted
  <2> HIDE DEF nonce, t
  <2>4. t.send_nonce = nonce /\ SameKeys(s, t) /\ Unread(s, t)
    BY <2>3 DEF SessionType, SameKeys, Unread
  <2> QED
    BY <1>1, <2>2, <2>4 DEF t, OneOn
<1> QED
  BY <1>2, <1>3

\* n's session with p advances for a seal.
Advances(nd, nd2, mt, mt2, n, p, key) ==
  /\ nd[n].sessions[p] # None
  /\ Only(nd, nd2, n, p) /\ nd2[n].bufs[p] = nd[n].bufs[p] /\ Grown(mt, mt2) /\ New(key, n, mt, mt2)
  /\ nd2[n].sessions[p] = Encrypted(nd[n].sessions[p], key)

\* A change of one session that leaves its keys and its reading side alone.
LEMMA QuietHere ==
  ASSUME NEW nd, NEW mt, NEW ch, NEW sl, NEW op, Typed(nd, mt, ch, sl, op), NEW nd2,
         NEW n \in Node, NEW p \in Node, Only(nd, nd2, n, p), nd2[n].bufs[p] = nd[n].bufs[p],
         nd2[n].sessions[p] # None =>
           /\ nd[n].sessions[p] # None
           /\ SameKeys(nd[n].sessions[p], nd2[n].sessions[p])
           /\ Unread(nd[n].sessions[p], nd2[n].sessions[p])
           /\ nd[n].sessions[p].send_nonce <= nd2[n].sessions[p].send_nonce
  PROVE  Quiet(nd, nd2)
<1>1. ASSUME NEW a \in Node, NEW q \in Node
      PROVE  /\ nd2[a].sessions[q] # None =>
                  /\ nd[a].sessions[q] # None
                  /\ SameKeys(nd[a].sessions[q], nd2[a].sessions[q])
                  /\ Unread(nd[a].sessions[q], nd2[a].sessions[q])
                  /\ nd[a].sessions[q].send_nonce <= nd2[a].sessions[q].send_nonce
             /\ nd2[a].bufs[q] # None =>
                  /\ nd[a].bufs[q] # None
                  /\ nd2[a].bufs[q].send_pub = nd[a].bufs[q].send_pub
                  /\ nd2[a].bufs[q].next_pub = nd[a].bufs[q].next_pub
  <2>1. CASE a = n /\ q = p
    BY <2>1
  <2>2. CASE a # n \/ q # p
    <3>1. nd2[a].sessions[q] = nd[a].sessions[q] /\ nd2[a].bufs[q] = nd[a].bufs[q]
      BY <2>2 DEF Only
    <3>2. nd[a].sessions[q] # None => nd[a].sessions[q].send_nonce \in Nat
      BY SessionsTyped, NoncesNat
    <3>3. nd[a].sessions[q] # None => nd[a].sessions[q].send_nonce <= nd[a].sessions[q].send_nonce
      BY <3>2
    <3> QED
      BY <3>1, <3>3 DEF SameKeys, Unread
  <2> QED
    BY <2>1, <2>2
<1> QED
  BY <1>1 DEF Quiet, Lessened

\* The frame it makes then.
Frame(nd, n, p, kind, body) == Sealed(nd[n].sessions[p], kind, body)

LEMMA EncryptKeeps ==
  ASSUME NEW nd, NEW mt, NEW ch, NEW sl, NEW op, Inv(nd, mt, ch, sl, op),
         NEW nd2 \in [Node -> StateType], NEW mt2, NEW n \in Node, NEW p \in Node, NEW key,
         Advances(nd, nd2, mt, mt2, n, p, key), now \in Nat, NEW kind \in Kind, NEW body \in Body
  PROVE  /\ Inv(nd2, mt2, ch, Record(sl, n, Frame(nd2, n, p, kind, body)), op)
         /\ Frame(nd2, n, p, kind, body)
              \in {m \in Msg : Genuine(m, n, nd2, mt2, Record(sl, n, Frame(nd2, n, p, kind, body)))}
<1> DEFINE f == Frame(nd2, n, p, kind, body)
           s == nd[n].sessions[p]
           t == nd2[n].sessions[p]
<1>1. Typed(nd, mt, ch, sl, op) /\ Owned(nd, mt) /\ Sealing(nd, sl)
  BY DEF Inv, KeyInv
<1>2. mt \in [Node -> Nat] /\ sl \in [Node -> Seq(TrafficType)]
  BY <1>1 DEF Typed
<1>3. /\ s # None /\ Only(nd, nd2, n, p) /\ nd2[n].bufs[p] = nd[n].bufs[p]
      /\ Grown(mt, mt2) /\ New(key, n, mt, mt2) /\ t = Encrypted(s, key)
  BY DEF Advances
<1>4. SessionKeys(s, n, p, nd, mt) /\ nd[n].bufs[p] = None
  BY <1>1, <1>3 DEF Owned
<1>5. s \in SessionType
  BY <1>1, <1>3, SessionsTyped
<1>6. key \in Key /\ key[2] \in Nat /\ mt[n] < key[2] /\ mt[n] \in Nat
  BY <1>2, <1>3 DEF New, KeysOf, Key
<1> HIDE DEF s, t, f
<1>7. /\ t \in SessionType
      /\ OneOn(s, t) \/ Wrapped(s, t, key)
  BY <1>3, <1>5, <1>6, EncryptedSession
<1>8. t # None
  BY <1>7, NoneAssumption
<1>9. f \in TrafficType /\ f.shared = Secret(t) /\ f.nonce = t.send_nonce /\ f.next = t.next_pub
      /\ f.type = "Traffic"
  <2>1. f = Sealed(t, kind, body)
    BY DEF t, f, Frame
  <2>2. f \in TrafficType
    BY <1>7, <2>1, SealedType
  <2> QED
    BY <2>1, <2>2 DEF Sealed, Secret
<1>10. /\ Inv(nd2, mt2, ch, sl, op)
       /\ \A a \in Node : \A i \in DOMAIN sl[a] : sl[a][i].shared = Secret(t) => sl[a][i].nonce < t.send_nonce
  <2>1. CASE OneOn(s, t)
    <3> USE <2>1 DEF OneOn
    <3>1. s.send_nonce \in Nat /\ t.send_nonce \in Nat
      BY <1>5, <1>7, NoncesNat
    <3>2. s.send_nonce <= t.send_nonce
      BY <2>1, <3>1
    <3>3. Quiet(nd, nd2)
      BY <1>1, <1>3, <1>8, <2>1, <3>2, QuietHere DEF s, t
    <3>4. Inv(nd2, mt2, ch, sl, op)
      BY <1>3, <3>3, QuietKeeps
    <3>5. ASSUME NEW a \in Node, NEW i \in DOMAIN sl[a], sl[a][i].shared = Secret(t)
          PROVE  sl[a][i].nonce < t.send_nonce
      <4>1. Passed(s, n, a, sl[a][i])
        BY <1>1, <1>3 DEF Sealing, s
      <4>2. Secret(t) = Secret(s)
        BY <2>1 DEF SameKeys, Secret
      <4>3. sl[a][i].nonce <= s.send_nonce
        BY <3>5, <4>1, <4>2 DEF Passed
      <4>4. sl[a][i].nonce \in Nat
        <5>1. sl[a][i] \in TrafficType
          BY <1>2
        <5> QED
          BY <5>1, NoncesNat
      <4> QED
        BY <2>1, <3>1, <4>3, <4>4
    <3> QED
      BY <3>4, <3>5
  <2>2. CASE Wrapped(s, t, key)
    <3> USE <2>2 DEF Wrapped
    <3>1. s.next_pub \in NextKeys(nd, n, p) /\ s.send_pub \in OwnKeys(nd, n, p)
      BY <1>3 DEF NextKeys, OwnKeys, s
    <3>2. /\ s.current \in Shown(nd, mt) /\ s.current[1] = p /\ s.next \in KeysOf(p, mt)
          /\ s.current[2] < s.next[2] /\ s.send_pub[2] < s.next_pub[2] /\ n # p
          /\ s.next_pub[2] <= mt[n] /\ s.next_pub[2] \in Nat
      BY <1>4 DEF SessionKeys, KeysOf, Key
    <3>3. s.next_pub[2] < key[2]
      BY <1>6, <3>2
    <3>4. Turned(nd, nd2, mt, mt2, n, p)
      <4>1. /\ New(t.next_pub, n, mt, mt2) /\ t.send_pub \in NextKeys(nd, n, p)
            /\ t.recv_pub \in OwnKeys(nd, n, p)
            /\ t.recv_pub[2] < t.send_pub[2] /\ t.send_pub[2] < t.next_pub[2]
            /\ t.current \in Shown(nd, mt) /\ t.current[1] = p
            /\ t.next \in KeysOf(p, mt) /\ t.current[2] < t.next[2]
        BY <1>3, <2>2, <3>1, <3>2, <3>3
      <4> QED
        BY <1>3, <1>4, <1>8, <3>2, <4>1 DEF Turned, t
    <3>5. s.local_key_seq - s.remote_key_seq < t.local_key_seq - t.remote_key_seq
      <4>1. s.local_key_seq \in Nat /\ s.remote_key_seq \in Nat
        BY <1>5 DEF SessionType
      <4> QED
        BY <2>2, <4>1
    <3>6. Renewed(nd, nd2, n, p)
      BY <2>2, <3>5 DEF Renewed, Later, s, t
    <3>7. /\ Inv(nd2, mt2, ch, sl, op)
          /\ \A a \in Node : \A i \in DOMAIN sl[a] : t.send_pub \notin sl[a][i].shared
      BY <3>4, <3>6, TurnKeepsAll DEF t
    <3> QED
      BY <3>7 DEF Secret
  <2> QED
    BY <1>7, <2>1, <2>2
<1>11. Seals(nd2, sl, n, p, f)
  BY <1>8, <1>9, <1>10 DEF Seals, t
<1>12. Inv(nd2, mt2, ch, Record(sl, n, f), op)
  BY <1>9, <1>10, <1>11, SealKeepsAll
<1>13. f \in ToSet(Record(sl, n, f)[n])
  BY <1>2, <1>9, RecordedLast
<1> QED
  BY <1>9, <1>12, <1>13 DEF Genuine, Msg, f

\* What n writes and leaves unread is genuine: the state with the channels
\* after the step.
LEMMA WriteKeeps ==
  ASSUME NEW nd, NEW mt, NEW ch, NEW sl, NEW op, Inv(nd, mt, ch, sl, op), NEW n \in Node, NEW p \in Node,
         NEW rest \in Seq({m \in Msg : Genuine(m, p, nd, mt, sl)}),
         NEW frames \in Seq({m \in Msg : Genuine(m, n, nd, mt, sl)})
  PROVE  Inv(nd, mt, Written(ch, n, p, rest, frames), sl, op)
<1> DEFINE G == [x \in Node |-> {m \in Msg : Genuine(m, x, nd, mt, sl)}]
           ch2 == Written(ch, n, p, rest, frames)
<1>1. Typed(nd, mt, ch, sl, op) /\ KeyInv(nd, mt, ch, sl) /\ OpenInv(nd, sl, op)
  BY DEF Inv
<1>2. /\ ch \in [Node -> [Node -> Seq(Msg)]] /\ G \in [Node -> SUBSET Msg]
      /\ rest \in Seq(G[p]) /\ frames \in Seq(G[n])
      /\ \A x, y \in Node : ch[x][y] \in Seq(G[x])
  BY <1>1 DEF Typed, KeyInv, Letters
<1>3. \A x \in Node : G[x] = {m \in Msg : Genuine(m, x, nd, mt, sl)}
  OBVIOUS
<1> HIDE DEF G
<1>4. ch2 \in [Node -> [Node -> Seq(Msg)]] /\ \A x, y \in Node : ch2[x][y] \in Seq(G[x])
  BY <1>2, StepChannels
<1> HIDE DEF ch2
<1>5. Letters(nd, mt, ch2, sl)
  BY <1>3, <1>4 DEF Letters
<1>6. Typed(nd, mt, ch2, sl, op)
  BY <1>1, <1>4 DEF Typed
<1>7. Inv(nd, mt, ch2, sl, op)
  BY <1>1, <1>5, <1>6 DEF Inv, KeyInv
<1> QED
  BY <1>7 DEF ch2

\* The state of n replaced, and more keys of n generated.
Put(nd, n, st) == [nd EXCEPT ![n] = st]

Mint(mt, n, i) == [mt EXCEPT ![n] = mt[n] + i]

LEMMA StepParts ==
  ASSUME NEW n, NEW p, NEW st, NEW rest, NEW frames, NEW used, Step(n, p, st, rest, frames, used)
  PROVE  /\ node' = Put(node, n, st) /\ minted' = Mint(minted, n, used)
         /\ chan' = Written(chan, n, p, rest, frames)
BY DEF Step, Put, Mint, Written

LEMMA PutOf ==
  ASSUME NEW nd \in [Node -> StateType], NEW n \in Node, NEW st \in StateType
  PROVE  /\ Put(nd, n, st) \in [Node -> StateType] /\ Put(nd, n, st)[n] = st
         /\ \A m \in Node : m # n => Put(nd, n, st)[m] = nd[m]
BY DEF Put

\* Two states of n that differ in what it has with p.
SaveFor(st, st2, p) ==
  \A q \in Node : q # p => st2.sessions[q] = st.sessions[q] /\ st2.bufs[q] = st.bufs[q]

LEMMA PutFirst ==
  ASSUME NEW nd \in [Node -> StateType], NEW n \in Node, NEW p \in Node, NEW st \in StateType,
         SaveFor(nd[n], st, p)
  PROVE  Only(nd, Put(nd, n, st), n, p)
<1>1. /\ Put(nd, n, st)[n] = st
      /\ \A m \in Node : m # n => Put(nd, n, st)[m] = nd[m]
  BY PutOf
<1> QED
  BY <1>1 DEF Only, SaveFor

LEMMA PutAgain ==
  ASSUME NEW nd \in [Node -> StateType], NEW n \in Node, NEW p \in Node,
         NEW st \in StateType, NEW st2 \in StateType, SaveFor(st, st2, p)
  PROVE  Only(Put(nd, n, st), Put(nd, n, st2), n, p)
<1>1. /\ Put(nd, n, st)[n] = st
      /\ \A m \in Node : m # n => Put(nd, n, st)[m] = nd[m]
  BY PutOf
<1>2. /\ Put(nd, n, st2)[n] = st2
      /\ \A m \in Node : m # n => Put(nd, n, st2)[m] = nd[m]
  BY PutOf
<1> QED
  BY <1>1, <1>2 DEF Only, SaveFor

LEMMA MintOf ==
  ASSUME minted \in [Node -> Nat], NEW n \in Node, NEW i \in Nat, NEW j \in Nat, i <= j
  PROVE  /\ Mint(minted, n, i) \in [Node -> Nat] /\ Grown(minted, Mint(minted, n, i))
         /\ Grown(Mint(minted, n, i), Mint(minted, n, j))
<1>1. /\ minted[n] + i \in Nat /\ minted[n] + j \in Nat /\ minted[n] <= minted[n] + i
      /\ minted[n] + i <= minted[n] + j
  OBVIOUS
<1>2. \A m \in Node : minted[m] <= minted[m]
  OBVIOUS
<1>3. /\ Mint(minted, n, i) \in [Node -> Nat] /\ Mint(minted, n, i)[n] = minted[n] + i
      /\ \A m \in Node : m # n => Mint(minted, n, i)[m] = minted[m]
  BY <1>1 DEF Mint
<1>4. /\ Mint(minted, n, j) \in [Node -> Nat] /\ Mint(minted, n, j)[n] = minted[n] + j
      /\ \A m \in Node : m # n => Mint(minted, n, j)[m] = minted[m]
  BY <1>1 DEF Mint
<1> QED
  BY <1>1, <1>2, <1>3, <1>4 DEF Grown

LEMMA FreshNew ==
  ASSUME minted \in [Node -> Nat], NEW n \in Node, NEW i \in Nat, NEW j \in Nat, NEW k \in Nat,
         i < k, k <= j
  PROVE  /\ New(Fresh(n, k), n, Mint(minted, n, i), Mint(minted, n, j))
         /\ New(Fresh(n, k), n, minted, Mint(minted, n, j))
<1>1. Mint(minted, n, i)[n] = minted[n] + i /\ Mint(minted, n, j)[n] = minted[n] + j
  BY DEF Mint
<1>2. Fresh(n, k) \in Key /\ Fresh(n, k)[1] = n /\ Fresh(n, k)[2] = minted[n] + k
  BY FreshType
<1>3. minted[n] + k <= minted[n] + j /\ minted[n] + i < minted[n] + k /\ minted[n] < minted[n] + k
  OBVIOUS
<1> QED
  BY <1>1, <1>2, <1>3 DEF New, KeysOf

\* The channel n reads from, as it will be when n has read.
LEMMA Unchanged ==
  ASSUME NEW nd, NEW mt, NEW ch, NEW sl, NEW op, Inv(nd, mt, ch, sl, op), NEW n \in Node, NEW p \in Node
  PROVE  ch[p][n] \in Seq({m \in Msg : Genuine(m, p, nd, mt, sl)})
BY DEF Inv, KeyInv, Letters

LEMMA Remaining ==
  ASSUME NEW nd, NEW mt, NEW ch, NEW sl, NEW op, Inv(nd, mt, ch, sl, op), NEW n \in Node, NEW p \in Node,
         ch[p][n] # <<>>
  PROVE  /\ Tail(ch[p][n]) \in Seq({m \in Msg : Genuine(m, p, nd, mt, sl)})
         /\ Head(ch[p][n]) \in Msg /\ Genuine(Head(ch[p][n]), p, nd, mt, sl)
<1> DEFINE G == {m \in Msg : Genuine(m, p, nd, mt, sl)}
<1>1. ch[p][n] \in Seq(G)
  BY Unchanged
<1> HIDE DEF G
<1>2. Tail(ch[p][n]) \in Seq(G) /\ Head(ch[p][n]) \in G
  BY <1>1, TailOf
<1> QED
  BY <1>2 DEF G

-----------------------------------------------------------------------------
(* The actions *)

\* The invariant of the specification's own states.
Here == Inv(node, minted, chan, seals, opened)

LEMMA HereParts ==
  ASSUME Here
  PROVE  /\ Typed(node, minted, chan, seals, opened) /\ Types(node, minted, chan, seals)
         /\ node \in [Node -> StateType] /\ minted \in [Node -> Nat]
         /\ chan \in [Node -> [Node -> Seq(Msg)]] /\ seals \in [Node -> Seq(TrafficType)]
         /\ \A n \in Node : node[n] \in StateType
         /\ Owned(node, minted) /\ Apart(node) /\ Boxes(node, minted, seals)
BY DEF Here, Inv, Typed, Types, KeyInv

\* n's step ends in the state nd, mt, sl, op, in which what it wrote is genuine.
Ends(n, p, nd, mt, sl, op, rest, frames) ==
  /\ Inv(nd, mt, chan, sl, op)
  /\ node' = nd /\ minted' = mt /\ seals' = sl /\ opened' = op
  /\ chan' = Written(chan, n, p, rest, frames)
  /\ frames \in Seq({m \in Msg : Genuine(m, n, nd, mt, sl)})

LEMMA StepEnds ==
  ASSUME NEW n \in Node, NEW p \in Node, NEW nd, NEW mt, NEW sl, NEW op, NEW rest, NEW frames,
         Ends(n, p, nd, mt, sl, op, rest, frames),
         rest = chan[p][n] \/ (chan[p][n] # <<>> /\ rest = Tail(chan[p][n]))
  PROVE  Here'
<1>1. /\ Inv(nd, mt, chan, sl, op)
      /\ node' = nd /\ minted' = mt /\ seals' = sl /\ opened' = op
      /\ chan' = Written(chan, n, p, rest, frames)
      /\ frames \in Seq({m \in Msg : Genuine(m, n, nd, mt, sl)})
  BY DEF Ends
<1>2. rest \in Seq({m \in Msg : Genuine(m, p, nd, mt, sl)})
  BY <1>1, Unchanged, Remaining, ZenonT(60)
<1>3. Inv(nd, mt, Written(chan, n, p, rest, frames), sl, op)
  BY <1>1, <1>2, WriteKeeps
<1> QED
  BY <1>1, <1>3 DEF Here

LEMMA SendInnerSaves ==
  ASSUME NEW st \in StateType, NEW p \in Node, st.sessions[p] \in SessionType,
         NEW body \in Body, NEW sent \in BOOLEAN, NEW key \in Key, now \in Nat
  PROVE  /\ SaveFor(st, SendInner(st, p, body, sent, key), p)
         /\ SendInner(st, p, body, sent, key) \in StateType
         /\ SendInner(st, p, body, sent, key).bufs = st.bufs
         /\ SendInner(st, p, body, sent, key).sessions[p] = Encrypted(st.sessions[p], key)
<1> DEFINE fin == SendInner(st, p, body, sent, key)
<1>1. /\ fin \in StateType /\ fin.sessions[p] = Encrypted(st.sessions[p], key)
      /\ \A q \in Node : q # p => fin.sessions[q] = st.sessions[q]
      /\ fin.bufs = st.bufs
  BY SendInnerType
<1> HIDE DEF fin
<1>2. SaveFor(st, fin, p)
  BY <1>1 DEF SaveFor
<1> QED
  BY <1>1, <1>2 DEF fin

\* The state after n has sealed a payload for p, and the frame.
AfterSeal(nd, n, p, body, sent, key) == Put(nd, n, SendInner(nd[n], p, body, sent, key))

SealOf(nd, n, p, kind, body, sent, key) ==
  Sealed(SendInner(nd[n], p, body, sent, key).sessions[p], kind, body)

LEMMA SealFrom ==
  ASSUME NEW nd, NEW mt, NEW ch, NEW sl, NEW op, Inv(nd, mt, ch, sl, op), now \in Nat,
         NEW n \in Node, NEW p \in Node, nd[n].sessions[p] # None,
         NEW mt2, Grown(mt, mt2), NEW key, New(key, n, mt, mt2),
         NEW kind \in Kind, NEW body \in Body, NEW sent \in BOOLEAN
  PROVE  /\ Inv(AfterSeal(nd, n, p, body, sent, key), mt2, ch,
                Record(sl, n, SealOf(nd, n, p, kind, body, sent, key)), op)
         /\ SealOf(nd, n, p, kind, body, sent, key)
              \in {m \in Msg : Genuine(m, n, AfterSeal(nd, n, p, body, sent, key), mt2,
                                       Record(sl, n, SealOf(nd, n, p, kind, body, sent, key)))}
         /\ AfterSeal(nd, n, p, body, sent, key) \in [Node -> StateType]
<1> DEFINE st == nd[n]
           fin == SendInner(st, p, body, sent, key)
           f == SealOf(nd, n, p, kind, body, sent, key)
           nd2 == AfterSeal(nd, n, p, body, sent, key)
<1>1. nd \in [Node -> StateType] /\ Typed(nd, mt, ch, sl, op)
  BY DEF Inv, Typed
<1>2. st \in StateType /\ st.sessions[p] \in SessionType /\ key \in Key
  BY <1>1, SessionsTyped DEF New, KeysOf
<1>3. /\ SaveFor(st, fin, p) /\ fin \in StateType /\ fin.bufs = st.bufs
      /\ fin.sessions[p] = Encrypted(st.sessions[p], key)
  <2> HIDE DEF st
  <2> QED
    BY <1>2, SendInnerSaves
<1>4. nd2 = Put(nd, n, fin) /\ f = Sealed(fin.sessions[p], kind, body)
  BY DEF AfterSeal, SealOf
<1> HIDE DEF fin, nd2, f
<1>5. Only(nd, nd2, n, p)
  BY <1>1, <1>3, <1>4, PutFirst
<1>6. nd2[n] = fin /\ nd2 \in [Node -> StateType]
  BY <1>1, <1>3, <1>4, PutOf
<1>7. Advances(nd, nd2, mt, mt2, n, p, key)
  BY <1>3, <1>5, <1>6 DEF Advances
<1>8. Frame(nd2, n, p, kind, body) = f
  BY <1>4, <1>6 DEF Frame
<1>9. /\ Inv(nd2, mt2, ch, Record(sl, n, Frame(nd2, n, p, kind, body)), op)
      /\ Frame(nd2, n, p, kind, body)
           \in {m \in Msg : Genuine(m, n, nd2, mt2, Record(sl, n, Frame(nd2, n, p, kind, body)))}
  BY <1>6, <1>7, EncryptKeeps
<1> QED
  BY <1>6, <1>8, <1>9 DEF nd2, f

LEMMA SendSealedKeeps ==
  ASSUME Here, now \in Nat, NEW n \in Node, NEW p \in Node, NEW kind \in Kind, NEW body \in Body,
         NEW sent \in BOOLEAN, SendSealed(n, p, kind, body, sent), opened' = opened
  PROVE  Here'
<1> DEFINE key == Fresh(n, 1)
           nd2 == AfterSeal(node, n, p, body, sent, key)
           f == SealOf(node, n, p, kind, body, sent, key)
           mt2 == Mint(minted, n, 1)
<1>1. /\ node[n].sessions[p] # None
      /\ Step(n, p, SendInner(node[n], p, body, sent, key), chan[p][n], If(sent, f), 1)
      /\ seals' = Record(seals, n, f)
  BY DEF SendSealed, SealOf
<1>2. minted \in [Node -> Nat] /\ Inv(node, minted, chan, seals, opened)
  BY HereParts DEF Here
<1>3. New(key, n, minted, mt2) /\ Grown(minted, mt2)
  <2>1. minted \in [Node -> Nat] /\ 0 \in Nat /\ 1 \in Nat /\ 0 < 1 /\ 1 <= 1
    BY <1>2
  <2> QED
    BY <2>1, FreshNew, MintOf
<1>4. /\ node' = nd2 /\ minted' = mt2
      /\ chan' = Written(chan, n, p, chan[p][n], If(sent, f))
  BY <1>1, StepParts DEF AfterSeal
<1> HIDE DEF key, mt2
<1>5. /\ Inv(nd2, mt2, chan, Record(seals, n, f), opened)
      /\ f \in {m \in Msg : Genuine(m, n, nd2, mt2, Record(seals, n, f))}
  BY <1>1, <1>2, <1>3, SealFrom
<1> HIDE DEF nd2, f
<1>6. If(sent, f) \in Seq({m \in Msg : Genuine(m, n, nd2, mt2, Record(seals, n, f))})
  BY <1>5, IfType
<1>7. Ends(n, p, nd2, mt2, Record(seals, n, f), opened, chan[p][n], If(sent, f))
  BY <1>1, <1>4, <1>5, <1>6 DEF Ends
<1> QED
  BY <1>7, StepEnds

\* A router's state with what the handlers replace in it.
WithBuf(st, p, seq, b) == [st EXCEPT !.init_seq = seq, !.bufs[p] = b]
WithSession(st, p, s, seq) == [st EXCEPT !.sessions[p] = s, !.init_seq = seq]
WithOnly(st, p, s) == [st EXCEPT !.sessions[p] = s]
WithSeq(st, seq) == [st EXCEPT !.init_seq = seq]
WithoutBuf(st, p, s, seq) == [st EXCEPT !.sessions[p] = s, !.bufs[p] = None, !.init_seq = seq]

LEMMA SeqAndBuf ==
  ASSUME NEW st \in StateType, NEW p \in Node, NEW seq \in Nat, NEW b \in BufType \cup {None}
  PROVE  /\ WithBuf(st, p, seq, b) \in StateType
         /\ SaveFor(st, WithBuf(st, p, seq, b), p)
         /\ WithBuf(st, p, seq, b).sessions = st.sessions
         /\ WithBuf(st, p, seq, b).bufs[p] = b
         /\ WithBuf(st, p, seq, b).resend = st.resend
<1> DEFINE a == [st EXCEPT !.init_seq = seq]
           c == [a EXCEPT !.bufs[p] = b]
<1>1. WithBuf(st, p, seq, b) = c
  BY DEF WithBuf
<1>2. a \in StateType /\ a.sessions = st.sessions /\ a.bufs = st.bufs /\ a.resend = st.resend
  BY DEF StateType
<1> HIDE DEF a
<1>3. /\ c \in StateType /\ c.sessions = a.sessions /\ c.bufs[p] = b /\ c.resend = a.resend
      /\ \A q \in Node : q # p => c.bufs[q] = a.bufs[q]
  BY <1>2 DEF StateType
<1> HIDE DEF c
<1>4. SaveFor(st, c, p)
  BY <1>2, <1>3 DEF SaveFor
<1> QED
  BY <1>1, <1>2, <1>3, <1>4

LEMMA SessionAndSeq ==
  ASSUME NEW st \in StateType, NEW p \in Node, NEW seq \in Nat, NEW s \in SessionType \cup {None}
  PROVE  /\ WithSession(st, p, s, seq) \in StateType
         /\ SaveFor(st, WithSession(st, p, s, seq), p)
         /\ WithSession(st, p, s, seq).bufs = st.bufs
         /\ WithSession(st, p, s, seq).sessions[p] = s
         /\ WithSession(st, p, s, seq).resend = st.resend
<1> DEFINE a == [st EXCEPT !.sessions[p] = s]
           c == [a EXCEPT !.init_seq = seq]
<1>1. WithSession(st, p, s, seq) = c
  BY DEF WithSession
<1>2. /\ a \in StateType /\ a.bufs = st.bufs /\ a.resend = st.resend /\ a.sessions[p] = s
      /\ \A q \in Node : q # p => a.sessions[q] = st.sessions[q]
  BY DEF StateType
<1> HIDE DEF a
<1>3. /\ c \in StateType /\ c.sessions = a.sessions /\ c.bufs = a.bufs /\ c.resend = a.resend
  BY <1>2 DEF StateType
<1> HIDE DEF c
<1>4. SaveFor(st, c, p)
  BY <1>2, <1>3 DEF SaveFor
<1> QED
  BY <1>1, <1>2, <1>3, <1>4

LEMMA SessionOnly ==
  ASSUME NEW st \in StateType, NEW p \in Node, NEW s \in SessionType \cup {None}
  PROVE  /\ WithOnly(st, p, s) \in StateType
         /\ SaveFor(st, WithOnly(st, p, s), p)
         /\ WithOnly(st, p, s).bufs = st.bufs
         /\ WithOnly(st, p, s).sessions[p] = s
         /\ WithOnly(st, p, s).resend = st.resend
<1> DEFINE a == [st EXCEPT !.sessions[p] = s]
<1>2. /\ a \in StateType /\ a.bufs = st.bufs /\ a.resend = st.resend /\ a.sessions[p] = s
      /\ \A q \in Node : q # p => a.sessions[q] = st.sessions[q]
  BY DEF StateType
<1> HIDE DEF a
<1>4. SaveFor(st, a, p)
  BY <1>2 DEF SaveFor
<1> QED
  BY <1>2, <1>4 DEF a, WithOnly

LEMMA SeqOnly ==
  ASSUME NEW st \in StateType, NEW seq \in Nat, NEW p \in Node
  PROVE  /\ WithSeq(st, seq) \in StateType
         /\ SaveFor(st, WithSeq(st, seq), p)
         /\ WithSeq(st, seq).bufs = st.bufs
         /\ WithSeq(st, seq).sessions = st.sessions
         /\ WithSeq(st, seq).resend = st.resend
BY DEF WithSeq, StateType, SaveFor

LEMMA SessionBufSeq ==
  ASSUME NEW st \in StateType, NEW p \in Node, NEW seq \in Nat, NEW s \in SessionType \cup {None}
  PROVE  /\ WithoutBuf(st, p, s, seq) \in StateType
         /\ SaveFor(st, WithoutBuf(st, p, s, seq), p)
         /\ WithoutBuf(st, p, s, seq).bufs[p] = None
         /\ WithoutBuf(st, p, s, seq).sessions[p] = s
         /\ WithoutBuf(st, p, s, seq).resend = st.resend
<1> DEFINE a == [st EXCEPT !.sessions[p] = s]
           b == [a EXCEPT !.bufs[p] = None]
           c == [b EXCEPT !.init_seq = seq]
<1>1. WithoutBuf(st, p, s, seq) = c
  BY DEF WithoutBuf
<1>2. /\ a \in StateType /\ a.bufs = st.bufs /\ a.resend = st.resend /\ a.sessions[p] = s
      /\ \A q \in Node : q # p => a.sessions[q] = st.sessions[q]
  BY DEF StateType
<1> HIDE DEF a
<1>3. /\ b \in StateType /\ b.sessions = a.sessions /\ b.bufs[p] = None /\ b.resend = a.resend
      /\ \A q \in Node : q # p => b.bufs[q] = a.bufs[q]
  BY <1>2 DEF StateType
<1> HIDE DEF b
<1>5. /\ c \in StateType /\ c.sessions = b.sessions /\ c.bufs = b.bufs /\ c.resend = b.resend
  BY <1>3 DEF StateType
<1> HIDE DEF c
<1>4. SaveFor(st, c, p)
  BY <1>2, <1>3, <1>5 DEF SaveFor
<1> QED
  BY <1>1, <1>2, <1>3, <1>4, <1>5

\* The pending open with a payload: its keys are those it had, or new.
LEMMA QueuedKeys ==
  ASSUME node \in [Node -> StateType], minted \in [Node -> Nat], now \in Nat,
         NEW n \in Node, NEW p \in Node, NEW seq \in Nat \ {0}, NEW kind \in Kind, NEW body \in Body
  PROVE  LET b == Queued(Pending(n, p, seq), kind, body)
         IN  /\ b \in BufType /\ b.kind = kind /\ b.body = body
             /\ \/ /\ node[n].bufs[p] # None
                   /\ b.send_pub = node[n].bufs[p].send_pub
                   /\ b.next_pub = node[n].bufs[p].next_pub
                \/ b.send_pub = Fresh(n, 1) /\ b.next_pub = Fresh(n, 2)
<1> DEFINE q == Pending(n, p, seq)
           b == Queued(q, kind, body)
<1>1. /\ q.send_pub \in Key /\ q.next_pub \in Key /\ q.seq \in Nat \ {0}
      /\ \/ /\ node[n].bufs[p] # None
            /\ q.send_pub = node[n].bufs[p].send_pub
            /\ q.next_pub = node[n].bufs[p].next_pub
         \/ q.send_pub = Fresh(n, 1) /\ q.next_pub = Fresh(n, 2)
  <2>1. CASE node[n].bufs[p] # None
    <3>1. node[n].bufs[p] \in BufType
      BY <2>1 DEF StateType
    <3> QED
      BY <2>1, <3>1 DEF Pending, BufType
  <2>2. CASE node[n].bufs[p] = None
    <3>1. Fresh(n, 1) \in Key /\ Fresh(n, 2) \in Key
      BY FreshType
    <3> QED
      BY <2>2, <3>1 DEF Pending
  <2> QED
    BY <2>1, <2>2
<1> HIDE DEF q
<1>2. /\ b.send_pub = q.send_pub /\ b.next_pub = q.next_pub /\ b.kind = kind /\ b.body = body
  BY DEF Queued
<1>3. b \in BufType
  BY <1>1, TimerAssumption DEF Queued, BufType
<1> QED
  BY <1>1, <1>2, <1>3 DEF q

LEMMA SendBufferedKeeps ==
  ASSUME Here, now \in Nat, NEW n \in Node, NEW p \in Node, NEW kind \in Kind, NEW body \in Body,
         NEW sent \in BOOLEAN, SendBuffered(n, p, kind, body, sent), opened' = opened
  PROVE  Here'
<1> DEFINE seq == NextInitSeq(node[n])
           b == Queued(Pending(n, p, seq), kind, body)
           st == WithBuf(node[n], p, seq, b)
           m == [type |-> "Init", current |-> b.send_pub, next |-> b.next_pub, key_seq |-> 0,
                 seq |-> b.seq]
           nd == Put(node, n, st)
           mt == Mint(minted, n, 2)
<1>1. /\ node[n].sessions[p] = None /\ Step(n, p, st, chan[p][n], If(sent, m), 2)
      /\ seals' = seals
  BY DEF SendBuffered, WithBuf
<1>2. /\ node \in [Node -> StateType] /\ minted \in [Node -> Nat] /\ node[n] \in StateType
      /\ Inv(node, minted, chan, seals, opened)
  BY HereParts DEF Here
<1>3. seq \in Nat \ {0}
  BY <1>2, NextInitSeqType
<1> HIDE DEF seq
<1>4. /\ b \in BufType
      /\ \/ /\ node[n].bufs[p] # None
            /\ b.send_pub = node[n].bufs[p].send_pub /\ b.next_pub = node[n].bufs[p].next_pub
         \/ b.send_pub = Fresh(n, 1) /\ b.next_pub = Fresh(n, 2)
  BY <1>2, <1>3, QueuedKeys
<1> HIDE DEF b
<1>5. b # None
  BY <1>4, NoneAssumption
<1>6. /\ st \in StateType /\ SaveFor(node[n], st, p) /\ st.sessions = node[n].sessions
      /\ st.bufs[p] = b
  BY <1>2, <1>3, <1>4, SeqAndBuf
<1> HIDE DEF st
<1>7. node' = nd /\ minted' = mt /\ chan' = Written(chan, n, p, chan[p][n], If(sent, m))
  BY <1>1, StepParts
<1>8. Only(node, nd, n, p) /\ nd[n] = st /\ nd \in [Node -> StateType]
  <2>1. Only(node, nd, n, p)
    BY <1>2, <1>6, PutFirst
  <2>2. nd[n] = st /\ nd \in [Node -> StateType]
    BY <1>2, <1>6, PutOf
  <2> QED
    BY <2>1, <2>2
<1>9. Grown(minted, mt) /\ New(Fresh(n, 1), n, minted, mt) /\ New(Fresh(n, 2), n, minted, mt)
  <2>1. minted \in [Node -> Nat] /\ 2 \in Nat /\ 1 \in Nat /\ 0 \in Nat /\ 2 <= 2 /\ 1 <= 2 /\ 0 < 1 /\ 0 < 2
    BY <1>2
  <2>2. Grown(minted, mt)
    BY <2>1, MintOf
  <2>3. New(Fresh(n, 1), n, minted, mt)
    BY <2>1, FreshNew
  <2>4. New(Fresh(n, 2), n, minted, mt)
    BY <2>1, FreshNew
  <2> QED
    BY <2>2, <2>3, <2>4
<1>10. Fresh(n, 1)[2] < Fresh(n, 2)[2]
  <2>1. Fresh(n, 1)[2] = minted[n] + 1 /\ Fresh(n, 2)[2] = minted[n] + 2 /\ minted[n] \in Nat
    BY <1>2, FreshType
  <2> QED
    BY <2>1
<1> HIDE DEF nd, mt
<1>11. Buffered(node, nd, minted, mt, n, p)
  <2>1. \/ /\ node[n].bufs[p] # None
           /\ b.send_pub = node[n].bufs[p].send_pub /\ b.next_pub = node[n].bufs[p].next_pub
        \/ /\ New(b.send_pub, n, minted, mt) /\ New(b.next_pub, n, minted, mt)
           /\ b.send_pub[2] < b.next_pub[2]
    BY <1>4, <1>9, <1>10
  <2>2. nd[n].bufs[p] = b /\ nd[n].sessions[p] = None
    BY <1>1, <1>6, <1>8
  <2> QED
    BY <1>1, <1>5, <1>8, <1>9, <2>1, <2>2 DEF Buffered
<1>12. Inv(nd, mt, chan, seals, opened)
  BY <1>2, <1>8, <1>11, BufferKeepsAll
<1>13. m \in {x \in Msg : Genuine(x, n, nd, mt, seals)}
  <2>1. Owned(nd, mt) /\ Apart(nd) /\ mt \in [Node -> Nat] /\ nd[n].bufs[p] # None /\ nd[n].bufs[p] = b
    BY <1>5, <1>6, <1>8, <1>12 DEF Inv, KeyInv, Typed
  <2>2. b.send_pub \in Shown(nd, mt)
    BY <2>1, SendKeysShown
  <2>3. BufKeys(b, n, mt)
    BY <2>1 DEF Owned
  <2>4. m \in InitType
    BY <1>4 DEF InitType, BufType
  <2>5. m.type # "Traffic" /\ m.current = b.send_pub /\ m.next = b.next_pub
    OBVIOUS
  <2> HIDE DEF m
  <2>6. b.send_pub[1] = n /\ b.next_pub \in KeysOf(n, mt) /\ b.send_pub[2] < b.next_pub[2]
    BY <2>3 DEF BufKeys, KeysOf
  <2> QED
    BY <2>2, <2>4, <2>5, <2>6 DEF Genuine, Msg
<1> HIDE DEF m
<1>14. If(sent, m) \in Seq({x \in Msg : Genuine(x, n, nd, mt, seals)})
  BY <1>13, IfType
<1>15. Ends(n, p, nd, mt, seals, opened, chan[p][n], If(sent, m))
  BY <1>1, <1>7, <1>12, <1>14 DEF Ends
<1> QED
  BY <1>15, StepEnds

\* What a session offers is genuine.
LEMMA InitGenuine ==
  ASSUME NEW nd, NEW mt, NEW ch, NEW sl, NEW op, Inv(nd, mt, ch, sl, op),
         NEW n \in Node, NEW p \in Node, nd[n].sessions[p] # None,
         NEW type \in {"Init", "Ack"}, NEW seq \in Nat \ {0}
  PROVE  MakeInit(type, nd[n].sessions[p], seq) \in {x \in Msg : Genuine(x, n, nd, mt, sl)}
<1> DEFINE s == nd[n].sessions[p]
           m == MakeInit(type, s, seq)
<1>1. Typed(nd, mt, ch, sl, op) /\ Owned(nd, mt) /\ Apart(nd) /\ mt \in [Node -> Nat]
  BY DEF Inv, KeyInv, Typed
<1>2. s.send_pub \in Shown(nd, mt)
  BY <1>1, SendKeysShown
<1>3. SessionKeys(s, n, p, nd, mt)
  BY <1>1 DEF Owned
<1>4. s \in SessionType
  BY <1>1, SessionsTyped
<1> HIDE DEF s
<1>5. m \in InitType
  BY <1>4, MakeInitType
<1>6. m.type # "Traffic" /\ m.current = s.send_pub /\ m.next = s.next_pub
  BY DEF MakeInit
<1>7. s.send_pub[1] = n /\ s.next_pub \in KeysOf(n, mt) /\ s.send_pub[2] < s.next_pub[2]
  BY <1>3 DEF SessionKeys, KeysOf
<1> HIDE DEF m
<1>8. m \in {x \in Msg : Genuine(x, n, nd, mt, sl)}
  BY <1>2, <1>5, <1>6, <1>7 DEF Genuine, Msg
<1> QED
  BY <1>8 DEF m, s

\* The session after an update.
Updated(s, t, init, key) ==
  /\ t.recv_pub = s.send_pub /\ t.send_pub = s.next_pub /\ t.next_pub = key
  /\ t.current = init.current /\ t.next = init.next /\ t.seq = init.seq

LEMMA UpdatedSession ==
  ASSUME NEW s \in SessionType, NEW init \in InitType, NEW key \in Key
  PROVE  Updated(s, ApplyUpdate(s, init, key), init, key)
<1> DEFINE a == Ratchet(s, key, 0, s.send_nonce)
<1>1. a \in SessionType
  <2>1. 0 \in Nonce /\ s.send_nonce \in Nonce
    BY NonceAssumption DEF Nonce, SessionType
  <2> QED
    BY <2>1, RatchetType
<1>2. a.recv_pub = s.send_pub /\ a.send_pub = s.next_pub /\ a.next_pub = key
  BY DEF Ratchet, SessionType
<1>3. ApplyUpdate(s, init, key) =
        [a EXCEPT !.current = init.current, !.next = init.next, !.seq = init.seq,
                  !.remote_key_seq = init.key_seq]
  BY DEF ApplyUpdate
<1> HIDE DEF a
<1> QED
  BY <1>1, <1>2, <1>3 DEF Updated, SessionType

\* The keys of a new session: those of the pending open, or new ones.
LEMMA NewSessionKeys ==
  ASSUME minted \in [Node -> Nat], NEW n \in Node, NEW init \in InitType,
         NEW buf \in BufType \cup {None}, now \in Nat
  PROVE  /\ NewSession(n, init, buf).next_pub = Fresh(n, 4)
         /\ NewSession(n, init, buf).current = init.current
         /\ NewSession(n, init, buf).next = init.next
         /\ buf = None => /\ NewSession(n, init, buf).recv_pub = Fresh(n, 2)
                          /\ NewSession(n, init, buf).send_pub = Fresh(n, 3)
         /\ buf # None => /\ NewSession(n, init, buf).recv_pub = buf.send_pub
                          /\ NewSession(n, init, buf).send_pub = buf.next_pub
<1> DEFINE s == ForInit(init, Fresh(n, 1), Fresh(n, 2), Fresh(n, 3))
           t == IF buf = None THEN s ELSE AdoptBuffered(s, buf)
           u == ApplyUpdate(t, init, Fresh(n, 4))
<1>1. Fresh(n, 1) \in Key /\ Fresh(n, 2) \in Key /\ Fresh(n, 3) \in Key /\ Fresh(n, 4) \in Key
  BY FreshType
<1>2. s \in SessionType /\ s.send_pub = Fresh(n, 2) /\ s.next_pub = Fresh(n, 3)
  <2>1. init.seq - 1 \in Nat /\ init.current \in Key /\ init.next \in Key
    BY DEF InitType
  <2>2. 0 \in Nonce
    BY NonceAssumption DEF Nonce
  <2> QED
    BY <1>1, <2>1, <2>2 DEF ForInit, SessionType, Nonce
<1> HIDE DEF s
<1>3. CASE buf = None
  <2>1. t = s
    BY <1>3
  <2>2. Updated(s, ApplyUpdate(s, init, Fresh(n, 4)), init, Fresh(n, 4))
    BY <1>1, <1>2, UpdatedSession
  <2>3. NewSession(n, init, buf) = ApplyUpdate(s, init, Fresh(n, 4))
    BY <1>3 DEF NewSession, s
  <2> QED
    BY <1>2, <1>3, <2>2, <2>3 DEF Updated
<1>4. CASE buf # None
  <2> DEFINE a == AdoptBuffered(s, buf)
  <2>1. buf.send_pub \in Key /\ buf.next_pub \in Key
    BY <1>4 DEF BufType
  <2>2. a \in SessionType /\ a.send_pub = buf.send_pub /\ a.next_pub = buf.next_pub
    BY <1>2, <2>1 DEF AdoptBuffered, SessionType
  <2> HIDE DEF a
  <2>3. Updated(a, ApplyUpdate(a, init, Fresh(n, 4)), init, Fresh(n, 4))
    BY <1>1, <2>2, UpdatedSession
  <2>4. NewSession(n, init, buf) = ApplyUpdate(a, init, Fresh(n, 4))
    BY <1>4 DEF NewSession, s, a
  <2> QED
    BY <1>4, <2>2, <2>3, <2>4 DEF Updated
<1> QED
  BY <1>3, <1>4

\* The keys n is generating are younger than all it has.
LEMMA FreshOrder ==
  ASSUME minted \in [Node -> Nat], NEW n \in Node, NEW i \in Nat, NEW j \in Nat, i < j
  PROVE  Fresh(n, i)[2] < Fresh(n, j)[2] /\ minted[n] < Fresh(n, j)[2]
<1>1. Fresh(n, i)[2] = minted[n] + i /\ Fresh(n, j)[2] = minted[n] + j /\ minted[n] \in Nat
  BY FreshType
<1> QED
  BY <1>1

LEMMA OwnBeforeFresh ==
  ASSUME NEW mt \in [Node -> Nat], NEW n \in Node, NEW k, k \in KeysOf(n, mt), NEW x, x \in Nat, mt[n] < x
  PROVE  k[2] < x
<1>1. k[2] \in Nat /\ k[2] <= mt[n] /\ mt[n] \in Nat
  BY DEF KeysOf, Key
<1> QED
  BY <1>1

\* An init or ack of p, as n reads it.
Offer(m, p) ==
  /\ m \in InitType
  /\ m.current \in Shown(node, minted) /\ m.current[1] = p
  /\ m.next \in KeysOf(p, minted) /\ m.current[2] < m.next[2]

LEMMA ReadOffer ==
  ASSUME Here, NEW n \in Node, NEW p \in Node, NEW types, Arrives(n, p, types), "Traffic" \notin types
  PROVE  n # p /\ chan[p][n] # <<>> /\ Offer(Head(chan[p][n]), p)
<1> DEFINE m == Head(chan[p][n])
<1>1. Types(node, minted, chan, seals) /\ Inv(node, minted, chan, seals, opened)
  BY HereParts DEF Here
<1>2. n # p /\ chan[p][n] # <<>>
  BY DEF Arrives
<1>3. m.type \in types /\ (m.type # "Traffic" => m \in InitType)
  BY <1>1, HeadType
<1>4. Genuine(m, p, node, minted, seals)
  BY <1>1, <1>2, Remaining
<1> HIDE DEF m
<1>5. m.type # "Traffic"
  BY <1>3
<1>6. Offer(m, p)
  BY <1>3, <1>4, <1>5 DEF Genuine, Offer
<1> QED
  BY <1>2, <1>6 DEF m

\* A box of p, as n reads it.
LEMMA ReadBox ==
  ASSUME Here, NEW n \in Node, NEW p \in Node, Arrives(n, p, {"Traffic"})
  PROVE  /\ n # p /\ chan[p][n] # <<>>
         /\ Head(chan[p][n]) \in TrafficType /\ Head(chan[p][n]) \in ToSet(seals[p])
<1> DEFINE m == Head(chan[p][n])
<1>1. Types(node, minted, chan, seals) /\ Inv(node, minted, chan, seals, opened)
  BY HereParts DEF Here
<1>2. n # p /\ chan[p][n] # <<>>
  BY DEF Arrives
<1>3. m.type \in {"Traffic"} /\ (m.type = "Traffic" => m \in TrafficType)
  BY <1>1, HeadType
<1>4. Genuine(m, p, node, minted, seals)
  BY <1>1, <1>2, Remaining
<1> HIDE DEF m
<1>5. m \in ToSet(seals[p])
  BY <1>3, <1>4 DEF Genuine
<1> QED
  BY <1>2, <1>3, <1>5 DEF m

\* The four keys a new session may use are new.
LEMMA FourKeys ==
  ASSUME minted \in [Node -> Nat], NEW n \in Node
  PROVE  /\ Grown(minted, Mint(minted, n, 4))
         /\ New(Fresh(n, 2), n, minted, Mint(minted, n, 4))
         /\ New(Fresh(n, 3), n, minted, Mint(minted, n, 4))
         /\ New(Fresh(n, 4), n, minted, Mint(minted, n, 4))
         /\ Fresh(n, 2)[2] < Fresh(n, 3)[2] /\ Fresh(n, 3)[2] < Fresh(n, 4)[2]
         /\ Fresh(n, 4)[2] \in Nat /\ minted[n] < Fresh(n, 4)[2]
<1>1. /\ 0 \in Nat /\ 2 \in Nat /\ 3 \in Nat /\ 4 \in Nat
      /\ 0 < 2 /\ 0 < 3 /\ 0 < 4 /\ 2 <= 4 /\ 3 <= 4 /\ 4 <= 4 /\ 2 < 3 /\ 3 < 4
  OBVIOUS
<1>2. Grown(minted, Mint(minted, n, 4))
  BY <1>1, MintOf
<1>3. New(Fresh(n, 2), n, minted, Mint(minted, n, 4))
  BY <1>1, FreshNew
<1>4. New(Fresh(n, 3), n, minted, Mint(minted, n, 4))
  BY <1>1, FreshNew
<1>5. New(Fresh(n, 4), n, minted, Mint(minted, n, 4))
  BY <1>1, FreshNew
<1>6. Fresh(n, 2)[2] < Fresh(n, 3)[2]
  BY <1>1, FreshOrder
<1>7. Fresh(n, 3)[2] < Fresh(n, 4)[2] /\ minted[n] < Fresh(n, 4)[2]
  BY <1>1, FreshOrder
<1>8. Fresh(n, 4)[2] \in Nat
  BY <1>1, FreshType DEF Key
<1> QED
  BY <1>2, <1>3, <1>4, <1>5, <1>6, <1>7, <1>8

\* Opening a session with p on an offer of p.
LEMMA NewTurns ==
  ASSUME Here, now \in Nat, NEW n \in Node, NEW p \in Node, n # p, NEW m, Offer(m, p),
         node[n].sessions[p] = None, NEW nd, Only(node, nd, n, p),
         nd[n].sessions[p] = NewSession(n, m, node[n].bufs[p]), nd[n].bufs[p] = None
  PROVE  /\ Turned(node, nd, minted, Mint(minted, n, 4), n, p) /\ Renewed(node, nd, n, p)
         /\ nd[n].sessions[p] \in SessionType
<1> DEFINE t == nd[n].sessions[p]
           buf == node[n].bufs[p]
           mt == Mint(minted, n, 4)
<1>1. minted \in [Node -> Nat] /\ Owned(node, minted) /\ node[n] \in StateType /\ m \in InitType
  BY HereParts DEF Offer
<1>2. buf \in BufType \cup {None}
  BY <1>1, StateUpdates
<1>3. t \in SessionType
  BY <1>1, <1>2, NewSessionType
<1>4. /\ t.next_pub = Fresh(n, 4) /\ t.current = m.current /\ t.next = m.next
      /\ buf = None => t.recv_pub = Fresh(n, 2) /\ t.send_pub = Fresh(n, 3)
      /\ buf # None => t.recv_pub = buf.send_pub /\ t.send_pub = buf.next_pub
  BY <1>1, <1>2, NewSessionKeys
<1>5. /\ Grown(minted, mt) /\ New(Fresh(n, 2), n, minted, mt)
      /\ New(Fresh(n, 3), n, minted, mt) /\ New(Fresh(n, 4), n, minted, mt)
      /\ Fresh(n, 2)[2] < Fresh(n, 3)[2] /\ Fresh(n, 3)[2] < Fresh(n, 4)[2]
      /\ Fresh(n, 4)[2] \in Nat /\ minted[n] < Fresh(n, 4)[2]
  BY <1>1, FourKeys
<1>6. t # None
  BY <1>3, NoneAssumption
<1>7. buf # None => /\ buf.send_pub \in OwnKeys(node, n, p) /\ buf.next_pub \in NextKeys(node, n, p)
                    /\ buf.send_pub[2] < buf.next_pub[2] /\ buf.next_pub \in KeysOf(n, minted)
  BY <1>1 DEF OwnKeys, NextKeys, Owned, BufKeys
<1> HIDE DEF t, buf, mt
<1>8. buf # None => buf.next_pub[2] < Fresh(n, 4)[2]
  BY <1>1, <1>5, <1>7, OwnBeforeFresh
<1>9. t.send_pub \in NextKeys(node, n, p) \/ New(t.send_pub, n, minted, mt)
  BY <1>4, <1>5, <1>7
<1>10. t.recv_pub \in OwnKeys(node, n, p) \/ New(t.recv_pub, n, minted, mt)
  BY <1>4, <1>5, <1>7
<1>11. t.recv_pub[2] < t.send_pub[2] /\ t.send_pub[2] < t.next_pub[2]
  BY <1>4, <1>5, <1>7, <1>8
<1>12. Turned(node, nd, minted, mt, n, p)
  BY <1>4, <1>5, <1>6, <1>9, <1>10, <1>11 DEF Turned, Offer, t
<1> QED
  BY <1>3, <1>12 DEF Renewed, t, mt

\* Applying a newer offer of p to the session with it.
LEMMA UpdateTurns ==
  ASSUME Here, now \in Nat, NEW n \in Node, NEW p \in Node, n # p, NEW m, Offer(m, p),
         node[n].sessions[p] # None, m.seq > node[n].sessions[p].seq,
         NEW nd, Only(node, nd, n, p), nd[n].bufs[p] = node[n].bufs[p],
         nd[n].sessions[p] = ApplyUpdate([node[n].sessions[p] EXCEPT !.active = now], m, Fresh(n, 1))
  PROVE  /\ Turned(node, nd, minted, Mint(minted, n, 1), n, p) /\ Renewed(node, nd, n, p)
         /\ nd[n].sessions[p] \in SessionType
<1> DEFINE r == node[n].sessions[p]
           s == [r EXCEPT !.active = now]
           t == nd[n].sessions[p]
           mt == Mint(minted, n, 1)
           key == Fresh(n, 1)
<1>1. /\ minted \in [Node -> Nat] /\ Owned(node, minted) /\ Typed(node, minted, chan, seals, opened)
      /\ m \in InitType
  BY HereParts DEF Offer
<1>2. r \in SessionType /\ SessionKeys(r, n, p, node, minted) /\ node[n].bufs[p] = None
  BY <1>1, SessionsTyped DEF Owned
<1>3. key \in Key /\ New(key, n, minted, mt) /\ Grown(minted, mt) /\ minted[n] < key[2] /\ key[2] \in Nat
  <2>1. 0 \in Nat /\ 1 \in Nat /\ 0 < 1 /\ 1 <= 1
    OBVIOUS
  <2>2. New(key, n, minted, mt)
    BY <1>1, <2>1, FreshNew
  <2>3. Grown(minted, mt)
    BY <1>1, <2>1, MintOf
  <2> QED
    BY <2>2, <2>3 DEF New, KeysOf, Key
<1>4. r.next_pub \in NextKeys(node, n, p) /\ r.send_pub \in OwnKeys(node, n, p)
  BY DEF NextKeys, OwnKeys
<1>5. t = ApplyUpdate(s, m, key)
  OBVIOUS
<1>6. m.seq > r.seq
  OBVIOUS
<1> HIDE DEF r, t, mt, key
<1>7. s \in SessionType /\ SameKeys(r, s)
  BY <1>2, ActiveType DEF SameKeys, SessionType
<1> HIDE DEF s
<1>8. Updated(s, t, m, key)
  BY <1>1, <1>3, <1>5, <1>7, UpdatedSession
<1>9. t \in SessionType
  BY <1>1, <1>3, <1>5, <1>7, ApplyUpdateType
<1>10. t # None
  BY <1>9, NoneAssumption
<1>11. /\ t.recv_pub = r.send_pub /\ t.send_pub = r.next_pub /\ t.next_pub = key
       /\ t.current = m.current /\ t.next = m.next /\ t.seq = m.seq
  BY <1>7, <1>8 DEF Updated, SameKeys
<1>12. r.send_pub[2] < r.next_pub[2] /\ r.next_pub \in KeysOf(n, minted)
  BY <1>2 DEF SessionKeys
<1>13. r.next_pub[2] < key[2]
  BY <1>1, <1>3, <1>12, OwnBeforeFresh
<1>14. Turned(node, nd, minted, mt, n, p)
  <2>1. /\ New(t.next_pub, n, minted, mt) /\ t.send_pub \in NextKeys(node, n, p)
        /\ t.recv_pub \in OwnKeys(node, n, p)
        /\ t.recv_pub[2] < t.send_pub[2] /\ t.send_pub[2] < t.next_pub[2]
        /\ t.current \in Shown(node, minted) /\ t.current[1] = p
        /\ t.next \in KeysOf(p, minted) /\ t.current[2] < t.next[2]
    BY <1>3, <1>4, <1>11, <1>12, <1>13 DEF Offer
  <2> QED
    BY <1>2, <1>3, <1>10, <2>1 DEF Turned, t
<1>15. r.seq < t.seq
  <2>1. r.seq \in Nat /\ m.seq \in Nat
    BY <1>1, <1>2 DEF SessionType, InitType
  <2> QED
    BY <1>6, <1>11, <2>1
<1>16. Renewed(node, nd, n, p)
  BY <1>11, <1>15 DEF Renewed, Later, r, t
<1> QED
  BY <1>9, <1>14, <1>16 DEF t, mt

LEMMA OpenSessionKeeps ==
  ASSUME Here, now \in Nat, NEW n \in Node, NEW p \in Node, OpenSession(n, p)
  PROVE  Here'
<1> DEFINE m == Head(chan[p][n])
           seq == NextInitSeq(node[n])
           s == NewSession(n, m, None)
           st == WithSession(node[n], p, s, seq)
           nd == Put(node, n, st)
           mt == Mint(minted, n, 4)
           ack == MakeInit("Ack", s, seq)
<1>1. PICK sent \in BOOLEAN :
        /\ Arrives(n, p, {"Init", "Ack"}) /\ node[n].sessions[p] = None /\ node[n].bufs[p] = None
        /\ Step(n, p, st, Tail(chan[p][n]), If(sent, ack), 4)
        /\ seals' = seals /\ opened' = opened
  BY DEF OpenSession, WithSession
<1>2. /\ node \in [Node -> StateType] /\ minted \in [Node -> Nat] /\ node[n] \in StateType
      /\ Inv(node, minted, chan, seals, opened)
  BY HereParts DEF Here
<1>3. n # p /\ chan[p][n] # <<>> /\ Offer(m, p)
  BY <1>1, ReadOffer
<1>4. seq \in Nat \ {0}
  BY <1>2, NextInitSeqType
<1>5. s \in SessionType
  BY <1>2, <1>3, NewSessionType DEF Offer
<1>6. /\ node' = nd /\ minted' = mt
      /\ chan' = Written(chan, n, p, Tail(chan[p][n]), If(sent, ack))
  BY <1>1, StepParts
<1> HIDE DEF seq
<1>7. st \in StateType /\ SaveFor(node[n], st, p) /\ st.bufs = node[n].bufs /\ st.sessions[p] = s
  <2> HIDE DEF s
  <2> QED
    BY <1>2, <1>4, <1>5, SessionAndSeq
<1> HIDE DEF st
<1>8. Only(node, nd, n, p)
  BY <1>2, <1>7, PutFirst
<1>9. nd[n] = st /\ nd \in [Node -> StateType]
  <2>1. node \in [Node -> StateType] /\ st \in StateType
    BY <1>2, <1>7
  <2> QED
    BY <2>1, PutOf
<1> HIDE DEF nd
<1>10. nd[n].sessions[p] = NewSession(n, m, node[n].bufs[p]) /\ nd[n].bufs[p] = None /\ nd[n].sessions[p] = s
  BY <1>1, <1>7, <1>9
<1> HIDE DEF m
<1>11. Turned(node, nd, minted, mt, n, p) /\ Renewed(node, nd, n, p)
  BY <1>1, <1>3, <1>8, <1>10, NewTurns
<1> HIDE DEF mt, s
<1>12. Inv(nd, mt, chan, seals, opened)
  BY <1>2, <1>9, <1>11, TurnKeepsAll
<1>13. ack \in {x \in Msg : Genuine(x, n, nd, mt, seals)}
  <2>1. nd[n].sessions[p] # None
    BY <1>5, <1>10, NoneAssumption
  <2> QED
    BY <1>4, <1>10, <1>12, <2>1, InitGenuine
<1> HIDE DEF ack
<1>14. If(sent, ack) \in Seq({x \in Msg : Genuine(x, n, nd, mt, seals)})
  BY <1>13, IfType
<1>15. Ends(n, p, nd, mt, seals, opened, Tail(chan[p][n]), If(sent, ack))
  BY <1>1, <1>6, <1>12, <1>14 DEF Ends
<1> QED
  BY <1>3, <1>15, StepEnds

\* An ack, or an older init, that only keeps the session alive: nothing is
\* written.
LEMMA AliveKeeps ==
  ASSUME Here, now \in Nat, NEW n \in Node, NEW p \in Node, node[n].sessions[p] # None,
         NEW nd \in [Node -> StateType], Only(node, nd, n, p), nd[n].bufs[p] = node[n].bufs[p],
         nd[n].sessions[p] = [node[n].sessions[p] EXCEPT !.active = now] \/
         nd[n].sessions[p] = node[n].sessions[p], NEW mt, Grown(minted, mt)
  PROVE  Inv(nd, mt, chan, seals, opened)
<1> DEFINE s == node[n].sessions[p]
           t == nd[n].sessions[p]
<1>1. Inv(node, minted, chan, seals, opened) /\ Typed(node, minted, chan, seals, opened)
  BY HereParts DEF Here
<1>2. s \in SessionType
  BY <1>1, SessionsTyped
<1>3. t = [s EXCEPT !.active = now] \/ t = s
  OBVIOUS
<1> HIDE DEF s, t
<1>4. SameKeys(s, t) /\ Unread(s, t) /\ t.send_nonce = s.send_nonce
  BY <1>2, <1>3 DEF SameKeys, Unread, SessionType
<1>5. s.send_nonce <= t.send_nonce
  <2>1. s.send_nonce \in Nat
    BY <1>2, NoncesNat
  <2> QED
    BY <1>4, <2>1
<1>6. Quiet(node, nd)
  BY <1>1, <1>4, <1>5, QuietHere DEF s, t
<1> QED
  BY <1>1, <1>6, QuietKeeps

LEMMA NothingWritten ==
  ASSUME NEW G
  PROVE  <<>> \in Seq(G)
  OBVIOUS

LEMMA OneKey ==
  ASSUME minted \in [Node -> Nat], NEW n \in Node
  PROVE  Grown(minted, Mint(minted, n, 0)) /\ Grown(minted, Mint(minted, n, 1))
<1>1. 0 \in Nat /\ 1 \in Nat /\ 0 <= 0 /\ 1 <= 1
  OBVIOUS
<1>2. Grown(minted, Mint(minted, n, 0))
  BY <1>1, MintOf
<1>3. Grown(minted, Mint(minted, n, 1))
  BY <1>1, MintOf
<1> QED
  BY <1>2, <1>3

LEMMA HandleAckKeeps ==
  ASSUME Here, now \in Nat, NEW n \in Node, NEW p \in Node, HandleAck(n, p)
  PROVE  Here'
<1> DEFINE m == Head(chan[p][n])
           r == node[n].sessions[p]
           s == [r EXCEPT !.active = now]
           u == IF Newer(s, m) THEN ApplyUpdate(s, m, Fresh(n, 1)) ELSE s
           st == WithOnly(node[n], p, u)
           nd == Put(node, n, st)
           mt == Mint(minted, n, 1)
<1>1. /\ Arrives(n, p, {"Ack"}) /\ r # None
      /\ Step(n, p, st, Tail(chan[p][n]), <<>>, 1)
      /\ seals' = seals /\ opened' = opened
  BY DEF HandleAck, WithOnly
<1>2. /\ node \in [Node -> StateType] /\ minted \in [Node -> Nat] /\ node[n] \in StateType
      /\ Inv(node, minted, chan, seals, opened) /\ Typed(node, minted, chan, seals, opened)
  BY HereParts DEF Here
<1>3. n # p /\ chan[p][n] # <<>> /\ Offer(m, p)
  BY <1>1, ReadOffer
<1>4. r \in SessionType
  BY <1>1, <1>2, SessionsTyped
<1>5. /\ node' = nd /\ minted' = mt
      /\ chan' = Written(chan, n, p, Tail(chan[p][n]), <<>>)
  BY <1>1, StepParts
<1>6. u \in SessionType
  <2>1. s \in SessionType
    BY <1>4, ActiveType
  <2>2. Fresh(n, 1) \in Key
    BY <1>2, FreshType
  <2> HIDE DEF s
  <2>3. ApplyUpdate(s, m, Fresh(n, 1)) \in SessionType
    BY <1>3, <2>1, <2>2, ApplyUpdateType DEF Offer
  <2> QED
    BY <2>1, <2>3
<1>7. st \in StateType /\ SaveFor(node[n], st, p) /\ st.bufs = node[n].bufs /\ st.sessions[p] = u
  <2> HIDE DEF u
  <2> QED
    BY <1>2, <1>6, SessionOnly
<1> HIDE DEF st
<1>8. Only(node, nd, n, p)
  BY <1>2, <1>7, PutFirst
<1>9. nd[n] = st /\ nd \in [Node -> StateType]
  BY <1>2, <1>7, PutOf
<1>10. nd[n].bufs[p] = node[n].bufs[p] /\ nd[n].sessions[p] = u
  BY <1>7, <1>9
<1> HIDE DEF nd
<1>11. Inv(nd, mt, chan, seals, opened)
  <2>1. CASE Newer(s, m)
    <3>1. m.seq > r.seq
      BY <1>4, <2>1 DEF Newer, SessionType
    <3>2. nd[n].sessions[p] = ApplyUpdate([r EXCEPT !.active = now], m, Fresh(n, 1))
      BY <1>10, <2>1
    <3> HIDE DEF m, mt
    <3>3. Turned(node, nd, minted, Mint(minted, n, 1), n, p) /\ Renewed(node, nd, n, p)
      BY <1>1, <1>3, <1>8, <1>10, <3>1, <3>2, UpdateTurns
    <3> QED
      BY <1>2, <1>9, <3>3, TurnKeepsAll DEF mt
  <2>2. CASE ~Newer(s, m)
    <3>1. nd[n].sessions[p] = [node[n].sessions[p] EXCEPT !.active = now]
      BY <1>10, <2>2
    <3>2. Grown(minted, mt)
      BY <1>2, OneKey
    <3> HIDE DEF mt
    <3> QED
      BY <1>1, <1>8, <1>9, <1>10, <3>1, <3>2, AliveKeeps
  <2> QED
    BY <2>1, <2>2
<1> HIDE DEF mt
<1>12. Ends(n, p, nd, mt, seals, opened, Tail(chan[p][n]), <<>>)
  BY <1>1, <1>5, <1>11, NothingWritten DEF Ends
<1> QED
  BY <1>3, <1>12, StepEnds

LEMMA HandleInitKeeps ==
  ASSUME Here, now \in Nat, NEW n \in Node, NEW p \in Node, HandleInit(n, p)
  PROVE  Here'
<1> DEFINE m == Head(chan[p][n])
           r == node[n].sessions[p]
           s == [r EXCEPT !.active = now]
           seq == NextInitSeq(node[n])
           t == ApplyUpdate(s, m, Fresh(n, 1))
<1>1. /\ Arrives(n, p, {"Init"}) /\ r # None /\ seals' = seals /\ opened' = opened
      /\ \/ /\ ~Newer(s, m)
            /\ Step(n, p, WithSession(node[n], p, s, seq), Tail(chan[p][n]), <<>>, 0)
         \/ /\ Newer(s, m)
            /\ \E sent \in BOOLEAN :
                 Step(n, p, WithSession(node[n], p, t, seq), Tail(chan[p][n]),
                      If(sent, MakeInit("Ack", t, seq)), 1)
  BY DEF HandleInit, WithSession
<1>2. /\ node \in [Node -> StateType] /\ minted \in [Node -> Nat] /\ node[n] \in StateType
      /\ Inv(node, minted, chan, seals, opened) /\ Typed(node, minted, chan, seals, opened)
  BY HereParts DEF Here
<1>3. n # p /\ chan[p][n] # <<>> /\ Offer(m, p)
  BY <1>1, ReadOffer
<1>4. r \in SessionType
  BY <1>1, <1>2, SessionsTyped
<1>5. seq \in Nat \ {0}
  BY <1>2, NextInitSeqType
<1>6. s \in SessionType /\ t \in SessionType
  <2>1. s \in SessionType
    BY <1>4, ActiveType
  <2>2. Fresh(n, 1) \in Key
    BY <1>2, FreshType
  <2> HIDE DEF s
  <2>3. t \in SessionType
    BY <1>3, <2>1, <2>2, ApplyUpdateType DEF Offer
  <2> QED
    BY <2>1, <2>3
<1>7. CASE /\ ~Newer(s, m)
           /\ Step(n, p, WithSession(node[n], p, s, seq), Tail(chan[p][n]), <<>>, 0)
  <2> DEFINE st == WithSession(node[n], p, s, seq)
             nd == Put(node, n, st)
             mt == Mint(minted, n, 0)
  <2>1. /\ node' = nd /\ minted' = mt
        /\ chan' = Written(chan, n, p, Tail(chan[p][n]), <<>>)
    BY <1>7, StepParts
  <2>2. st \in StateType /\ SaveFor(node[n], st, p) /\ st.bufs = node[n].bufs /\ st.sessions[p] = s
    <3>1. node[n] \in StateType /\ seq \in Nat /\ s \in SessionType \cup {None}
      BY <1>2, <1>5, <1>6
    <3> HIDE DEF s, t, seq, m
    <3> QED
      BY <3>1, SessionAndSeq
  <2> HIDE DEF st
  <2>3. Only(node, nd, n, p)
    BY <1>2, <2>2, PutFirst
  <2>4. nd[n] = st /\ nd \in [Node -> StateType]
    <3>1. node \in [Node -> StateType] /\ st \in StateType
      BY <1>2, <2>2
    <3> QED
      BY <3>1, PutOf
  <2>5. nd[n].bufs[p] = node[n].bufs[p] /\ nd[n].sessions[p] = [node[n].sessions[p] EXCEPT !.active = now]
    BY <2>2, <2>4
  <2>6. Grown(minted, mt)
    BY <1>2, OneKey
  <2> HIDE DEF nd, mt
  <2>7. Inv(nd, mt, chan, seals, opened)
    BY <1>1, <2>3, <2>4, <2>5, <2>6, AliveKeeps
  <2>8. Ends(n, p, nd, mt, seals, opened, Tail(chan[p][n]), <<>>)
    BY <1>1, <2>1, <2>7, NothingWritten DEF Ends
  <2> QED
    BY <1>3, <2>8, StepEnds
<1>8. ASSUME NEW sent \in BOOLEAN, Newer(s, m),
             Step(n, p, WithSession(node[n], p, t, seq), Tail(chan[p][n]),
                  If(sent, MakeInit("Ack", t, seq)), 1)
      PROVE  Here'
  <2> DEFINE st == WithSession(node[n], p, t, seq)
             nd == Put(node, n, st)
             mt == Mint(minted, n, 1)
             ack == MakeInit("Ack", t, seq)
  <2>1. /\ node' = nd /\ minted' = mt
        /\ chan' = Written(chan, n, p, Tail(chan[p][n]), If(sent, ack))
    BY <1>8, StepParts
  <2>2. st \in StateType /\ SaveFor(node[n], st, p) /\ st.bufs = node[n].bufs /\ st.sessions[p] = t
    <3>1. node[n] \in StateType /\ seq \in Nat /\ t \in SessionType \cup {None}
      BY <1>2, <1>5, <1>6
    <3> HIDE DEF s, t, seq, m
    <3> QED
      BY <3>1, SessionAndSeq
  <2> HIDE DEF st
  <2>3. Only(node, nd, n, p)
    BY <1>2, <2>2, PutFirst
  <2>4. nd[n] = st /\ nd \in [Node -> StateType]
    <3>1. node \in [Node -> StateType] /\ st \in StateType
      BY <1>2, <2>2
    <3> QED
      BY <3>1, PutOf
  <2>5. nd[n].bufs[p] = node[n].bufs[p] /\ nd[n].sessions[p] = t
    BY <2>2, <2>4
  <2>6. m.seq > r.seq
    BY <1>4, <1>8 DEF Newer, SessionType
  <2> HIDE DEF nd, mt, m, ack
  <2>7. Turned(node, nd, minted, Mint(minted, n, 1), n, p) /\ Renewed(node, nd, n, p)
    <3>1. nd[n].sessions[p] = ApplyUpdate([node[n].sessions[p] EXCEPT !.active = now], m, Fresh(n, 1))
      BY <2>5
    <3> QED
      BY <1>1, <1>3, <2>3, <2>5, <2>6, <3>1, UpdateTurns
  <2> HIDE DEF t, seq
  <2>8. Inv(nd, mt, chan, seals, opened)
    BY <1>2, <2>4, <2>7, TurnKeepsAll DEF mt
  <2>9. ack \in {x \in Msg : Genuine(x, n, nd, mt, seals)}
    <3>1. nd[n].sessions[p] # None
      BY <1>6, <2>5, NoneAssumption
    <3> QED
      BY <1>5, <2>5, <2>8, <3>1, InitGenuine DEF ack
  <2>10. If(sent, ack) \in Seq({x \in Msg : Genuine(x, n, nd, mt, seals)})
    BY <2>9, IfType
  <2>11. Ends(n, p, nd, mt, seals, opened, Tail(chan[p][n]), If(sent, ack))
    BY <1>1, <2>1, <2>8, <2>10 DEF Ends
  <2> QED
    BY <1>3, <2>11, StepEnds
<1> QED
  BY <1>1, <1>7, <1>8

LEMMA RefuseTrafficKeeps ==
  ASSUME Here, now \in Nat, NEW n \in Node, NEW p \in Node, RefuseTraffic(n, p)
  PROVE  Here'
<1> DEFINE seq == NextInitSeq(node[n])
           st == WithSeq(node[n], seq)
           nd == Put(node, n, st)
           mt == Mint(minted, n, 0)
           init == MakeInit("Init", node[n].sessions[p], seq)
<1>1. PICK sent \in BOOLEAN :
        /\ Arrives(n, p, {"Traffic"}) /\ node[n].sessions[p] # None
        /\ Step(n, p, st, Tail(chan[p][n]), If(sent, init), 0)
        /\ seals' = seals /\ opened' = opened
  BY DEF RefuseTraffic, WithSeq
<1>2. /\ node \in [Node -> StateType] /\ minted \in [Node -> Nat] /\ node[n] \in StateType
      /\ Inv(node, minted, chan, seals, opened)
  BY HereParts DEF Here
<1>3. chan[p][n] # <<>>
  BY <1>1 DEF Arrives
<1>4. seq \in Nat \ {0}
  BY <1>2, NextInitSeqType
<1>5. /\ node' = nd /\ minted' = mt
      /\ chan' = Written(chan, n, p, Tail(chan[p][n]), If(sent, init))
  BY <1>1, StepParts
<1> HIDE DEF seq
<1>6. /\ st \in StateType /\ SaveFor(node[n], st, p) /\ st.bufs = node[n].bufs
      /\ st.sessions = node[n].sessions
  BY <1>2, <1>4, SeqOnly
<1> HIDE DEF st
<1>7. Only(node, nd, n, p)
  BY <1>2, <1>6, PutFirst
<1>8. nd[n] = st /\ nd \in [Node -> StateType]
  <2>1. node \in [Node -> StateType] /\ st \in StateType
    BY <1>2, <1>6
  <2> QED
    BY <2>1, PutOf
<1>9. nd[n].bufs[p] = node[n].bufs[p] /\ nd[n].sessions[p] = node[n].sessions[p]
  BY <1>6, <1>8
<1>10. Grown(minted, mt)
  BY <1>2, OneKey
<1> HIDE DEF nd, mt
<1>11. Inv(nd, mt, chan, seals, opened)
  BY <1>1, <1>7, <1>8, <1>9, <1>10, AliveKeeps
<1>12. init \in {x \in Msg : Genuine(x, n, nd, mt, seals)}
  <2>1. nd[n].sessions[p] # None /\ init = MakeInit("Init", nd[n].sessions[p], seq)
    BY <1>1, <1>9
  <2> HIDE DEF init
  <2>2. MakeInit("Init", nd[n].sessions[p], seq) \in {x \in Msg : Genuine(x, n, nd, mt, seals)}
    BY <1>4, <1>11, <2>1, InitGenuine
  <2> QED
    BY <2>1, <2>2
<1> HIDE DEF init
<1>13. If(sent, init) \in Seq({x \in Msg : Genuine(x, n, nd, mt, seals)})
  BY <1>12, IfType
<1>14. Ends(n, p, nd, mt, seals, opened, Tail(chan[p][n]), If(sent, init))
  BY <1>1, <1>5, <1>11, <1>13 DEF Ends
<1> QED
  BY <1>3, <1>14, StepEnds

\* The channel n has written to.
LEMMA WrittenTo ==
  ASSUME NEW ch \in [Node -> [Node -> Seq(Msg)]], NEW n \in Node, NEW p \in Node,
         NEW rest \in Seq(Msg), NEW a \in Seq(Msg)
  PROVE  Written(ch, n, p, rest, a)[n][p] = ch[n][p] \o a
<1> DEFINE b == [ch EXCEPT ![p][n] = rest]
           more == ch[n][p] \o a
           c == [b EXCEPT ![n][p] = more]
<1>1. Written(ch, n, p, rest, a) = c
  BY DEF Written
<1>2. more \in Seq(Msg)
  OBVIOUS
<1>3. b \in [Node -> [Node -> Seq(Msg)]]
  OBVIOUS
<1> HIDE DEF b, more
<1>4. c[n][p] = more
  BY <1>2, <1>3
<1> HIDE DEF c
<1> QED
  BY <1>1, <1>4 DEF more

LEMMA LastOf ==
  ASSUME NEW S, NEW G, NEW s \in Seq(S), NEW x \in S, s \o <<x>> \in Seq(G)
  PROVE  x \in G
<1> DEFINE t == s \o <<x>>
<1>1. Len(s) \in Nat /\ Len(t) = Len(s) + 1 /\ t[Len(s) + 1] = x
  OBVIOUS
<1>2. t \in Seq(G)
  OBVIOUS
<1> HIDE DEF t
<1> QED
  BY <1>1, <1>2

\* What a session seals keeps genuine what has been offered before.
LEMMA StaysGenuine ==
  ASSUME NEW nd, NEW mt, NEW ch, NEW sl, NEW op, Inv(nd, mt, ch, sl, op), now \in Nat,
         NEW n \in Node, NEW p \in Node, nd[n].sessions[p] # None,
         NEW mt2, Grown(mt, mt2), NEW key, New(key, n, mt, mt2),
         NEW kind \in Kind, NEW body \in Body, NEW sent \in BOOLEAN,
         NEW x \in {m \in Msg : Genuine(m, n, nd, mt, sl)}
  PROVE  x \in {m \in Msg : Genuine(m, n, AfterSeal(nd, n, p, body, sent, key), mt2,
                                    Record(sl, n, SealOf(nd, n, p, kind, body, sent, key)))}
<1> DEFINE rest == ch[p][n]
           ch2 == Written(ch, n, p, rest, <<x>>)
           nd2 == AfterSeal(nd, n, p, body, sent, key)
           sl2 == Record(sl, n, SealOf(nd, n, p, kind, body, sent, key))
           G == {m \in Msg : Genuine(m, n, nd2, mt2, sl2)}
<1>1. ch \in [Node -> [Node -> Seq(Msg)]]
  BY DEF Inv, Typed
<1>2. rest \in Seq({m \in Msg : Genuine(m, p, nd, mt, sl)}) /\ rest \in Seq(Msg)
  BY <1>1, Unchanged
<1>3. <<x>> \in Seq({m \in Msg : Genuine(m, n, nd, mt, sl)}) /\ <<x>> \in Seq(Msg) /\ x \in Msg
  OBVIOUS
<1>4. ch2[n][p] = ch[n][p] \o <<x>>
  <2> HIDE DEF rest
  <2> QED
    BY <1>1, <1>2, <1>3, WrittenTo
<1>5. Inv(nd, mt, ch2, sl, op)
  <2> HIDE DEF rest
  <2> QED
    BY <1>2, <1>3, WriteKeeps
<1> HIDE DEF ch2
<1>6. Inv(nd2, mt2, ch2, sl2, op)
  BY <1>5, SealFrom
<1> HIDE DEF nd2, sl2
<1>7. ch2[n][p] \in Seq(G)
  BY <1>6, Unchanged
<1>8. ch[n][p] \in Seq(Msg)
  BY <1>1
<1> HIDE DEF G
<1>9. x \in G
  BY <1>3, <1>4, <1>7, <1>8, LastOf
<1> QED
  BY <1>9 DEF G, nd2, sl2

\* Replaced twice, the last one stays.
LEMMA PutPut ==
  ASSUME NEW nd, NEW n, NEW st, NEW st2
  PROVE  Put(Put(nd, n, st), n, st2) = Put(nd, n, st2)
BY DEF Put

LEMMA FiveKeys ==
  ASSUME minted \in [Node -> Nat], NEW n \in Node
  PROVE  /\ Grown(Mint(minted, n, 4), Mint(minted, n, 5))
         /\ New(Fresh(n, 5), n, Mint(minted, n, 4), Mint(minted, n, 5))
<1>1. 4 \in Nat /\ 5 \in Nat /\ 4 <= 5 /\ 4 < 5 /\ 5 <= 5
  OBVIOUS
<1>2. Grown(Mint(minted, n, 4), Mint(minted, n, 5))
  BY <1>1, MintOf
<1>3. New(Fresh(n, 5), n, Mint(minted, n, 4), Mint(minted, n, 5))
  BY <1>1, FreshNew
<1> QED
  BY <1>2, <1>3

\* What waited behind the init, sealed and written after the ack.
FlushWith(n, p, buf, st, ack, sent) ==
  LET f == Sealed(SendInner(st, p, buf.body, sent, Fresh(n, 5)).sessions[p], buf.kind, buf.body)
  IN  /\ Step(n, p, SendInner(st, p, buf.body, sent, Fresh(n, 5)), Tail(chan[p][n]),
              <<ack>> \o If(sent, f), 5)
      /\ seals' = Record(seals, n, f)
      /\ Write(sent)

\* FlushSession, taken apart.
LEMMA FlushParts ==
  ASSUME NEW n, NEW p, FlushSession(n, p)
  PROVE  /\ Arrives(n, p, {"Init", "Ack"}) /\ node[n].sessions[p] = None /\ node[n].bufs[p] # None
         /\ opened' = opened
         /\ LET s == NewSession(n, Head(chan[p][n]), node[n].bufs[p])
                st == WithoutBuf(node[n], p, s, NextInitSeq(node[n]))
            IN  \/ /\ Step(n, p, st, Tail(chan[p][n]), <<>>, 4)
                   /\ seals' = seals /\ Write(FALSE)
                \/ \E sent \in BOOLEAN :
                     FlushWith(n, p, node[n].bufs[p], st, MakeInit("Ack", s, NextInitSeq(node[n])), sent)
<1> DEFINE m == Head(chan[p][n])
           seq == NextInitSeq(node[n])
           buf == node[n].bufs[p]
           s == NewSession(n, m, buf)
           st == WithoutBuf(node[n], p, s, seq)
           key == Fresh(n, 5)
           ack == MakeInit("Ack", s, seq)
           C(sq, b, t, x) ==
             \/ /\ Write(FALSE)
                /\ Step(n, p, x, Tail(chan[p][n]), <<>>, 4)
                /\ UNCHANGED seals
             \/ \E sent \in BOOLEAN :
                \E fin \in {SendInner(x, p, b.body, sent, key)} :
                \E frame \in {Sealed(fin.sessions[p], b.kind, b.body)} :
                  /\ Write(sent)
                  /\ Step(n, p, fin, Tail(chan[p][n]),
                          <<MakeInit("Ack", t, sq)>> \o If(sent, frame), 5)
                  /\ seals' = Record(seals, n, frame)
<1>1. /\ Arrives(n, p, {"Init", "Ack"}) /\ node[n].sessions[p] = None /\ buf # None
      /\ opened' = opened
      /\ \E sq \in {seq}, b \in {buf} :
         \E t \in {NewSession(n, m, b)} :
         \E x \in {WithoutBuf(node[n], p, t, sq)} : C(sq, b, t, x)
  BY DEF FlushSession, WithoutBuf
<1> HIDE DEF C, m, seq, buf, key
<1>2. C(seq, buf, s, st)
  BY <1>1
<1> HIDE DEF s, st
<1>3. \/ /\ Write(FALSE)
         /\ Step(n, p, st, Tail(chan[p][n]), <<>>, 4)
         /\ UNCHANGED seals
      \/ \E sent \in BOOLEAN :
         \E fin \in {SendInner(st, p, buf.body, sent, key)} :
         \E frame \in {Sealed(fin.sessions[p], buf.kind, buf.body)} :
           /\ Write(sent)
           /\ Step(n, p, fin, Tail(chan[p][n]), <<ack>> \o If(sent, frame), 5)
           /\ seals' = Record(seals, n, frame)
  BY <1>2 DEF C
<1> HIDE DEF ack
<1>4. \/ /\ Step(n, p, st, Tail(chan[p][n]), <<>>, 4)
         /\ seals' = seals /\ Write(FALSE)
      \/ \E sent \in BOOLEAN :
           /\ Step(n, p, SendInner(st, p, buf.body, sent, key), Tail(chan[p][n]),
                   <<ack>> \o If(sent, Sealed(SendInner(st, p, buf.body, sent, key).sessions[p],
                                              buf.kind, buf.body)), 5)
           /\ seals' = Record(seals, n, Sealed(SendInner(st, p, buf.body, sent, key).sessions[p],
                                               buf.kind, buf.body))
           /\ Write(sent)
  BY <1>3
<1>5. \/ /\ Step(n, p, st, Tail(chan[p][n]), <<>>, 4)
         /\ seals' = seals /\ Write(FALSE)
      \/ \E sent \in BOOLEAN : FlushWith(n, p, buf, st, ack, sent)
  BY <1>4 DEF FlushWith, key
<1> QED
  BY <1>1, <1>5 DEF ack, st, s, buf, seq, m

LEMMA FlushSessionKeeps ==
  ASSUME Here, now \in Nat, NEW n \in Node, NEW p \in Node, FlushSession(n, p)
  PROVE  Here'
<1> DEFINE m == Head(chan[p][n])
           seq == NextInitSeq(node[n])
           buf == node[n].bufs[p]
           s == NewSession(n, m, buf)
           st == WithoutBuf(node[n], p, s, seq)
           nd == Put(node, n, st)
           mt == Mint(minted, n, 4)
           mt2 == Mint(minted, n, 5)
           key == Fresh(n, 5)
           ack == MakeInit("Ack", s, seq)
           kind == buf.kind
           body == buf.body
<1>1. /\ Arrives(n, p, {"Init", "Ack"}) /\ node[n].sessions[p] = None /\ buf # None
      /\ opened' = opened
      /\ \/ Step(n, p, st, Tail(chan[p][n]), <<>>, 4) /\ seals' = seals
         \/ \E sent \in BOOLEAN : FlushWith(n, p, buf, st, ack, sent)
  BY FlushParts
<1>2. /\ node \in [Node -> StateType] /\ minted \in [Node -> Nat] /\ node[n] \in StateType
      /\ Inv(node, minted, chan, seals, opened)
  BY HereParts DEF Here
<1>3. n # p /\ chan[p][n] # <<>> /\ Offer(m, p)
  BY <1>1, ReadOffer
<1>4. seq \in Nat \ {0}
  BY <1>2, NextInitSeqType
<1>5. buf \in BufType /\ kind \in Kind /\ body \in Body
  <2>1. buf \in BufType \cup {None}
    BY <1>2, StateUpdates
  <2> QED
    BY <1>1, <2>1 DEF BufType
<1> HIDE DEF kind, body
<1>6. s \in SessionType
  <2>1. buf \in BufType \cup {None} /\ m \in InitType /\ minted \in [Node -> Nat]
    BY <1>2, <1>3, <1>5 DEF Offer
  <2> HIDE DEF m, buf
  <2> QED
    BY <2>1, NewSessionType
<1>7. /\ st \in StateType /\ SaveFor(node[n], st, p) /\ st.bufs[p] = None /\ st.sessions[p] = s
  <2>1. node[n] \in StateType /\ seq \in Nat /\ s \in SessionType \cup {None}
    BY <1>2, <1>4, <1>6
  <2> HIDE DEF s, seq, m, buf
  <2> QED
    BY <2>1, SessionBufSeq
<1> HIDE DEF st, seq
<1>8. Only(node, nd, n, p)
  BY <1>2, <1>7, PutFirst
<1>9. nd[n] = st /\ nd \in [Node -> StateType]
  <2>1. node \in [Node -> StateType] /\ st \in StateType
    BY <1>2, <1>7
  <2> QED
    BY <2>1, PutOf
<1> HIDE DEF nd
<1>10. nd[n].sessions[p] = NewSession(n, m, node[n].bufs[p]) /\ nd[n].bufs[p] = None /\ nd[n].sessions[p] = s
  BY <1>7, <1>9
<1> HIDE DEF m
<1>11. Turned(node, nd, minted, mt, n, p) /\ Renewed(node, nd, n, p)
  BY <1>1, <1>3, <1>8, <1>10, NewTurns
<1>12. Grown(mt, mt2) /\ New(key, n, mt, mt2)
  BY <1>2, FiveKeys
<1>13. nd[n].sessions[p] # None
  BY <1>6, <1>10, NoneAssumption
<1> HIDE DEF mt, mt2, s, key
<1>14. Inv(nd, mt, chan, seals, opened)
  BY <1>2, <1>9, <1>11, TurnKeepsAll
<1>15. ack \in {x \in Msg : Genuine(x, n, nd, mt, seals)}
  BY <1>4, <1>10, <1>13, <1>14, InitGenuine
<1> HIDE DEF ack
<1>16. CASE Step(n, p, st, Tail(chan[p][n]), <<>>, 4) /\ seals' = seals
  <2>1. /\ node' = nd /\ minted' = mt /\ chan' = Written(chan, n, p, Tail(chan[p][n]), <<>>)
    BY <1>16, StepParts DEF nd, mt
  <2>2. Ends(n, p, nd, mt, seals, opened, Tail(chan[p][n]), <<>>)
    BY <1>1, <1>14, <1>16, <2>1, NothingWritten DEF Ends
  <2> QED
    BY <1>3, <2>2, StepEnds
<1>17. ASSUME NEW sent \in BOOLEAN, FlushWith(n, p, buf, st, ack, sent)
       PROVE  Here'
  <2> DEFINE f == SealOf(nd, n, p, kind, body, sent, key)
             nd2 == AfterSeal(nd, n, p, body, sent, key)
             sl2 == Record(seals, n, f)
             G == {x \in Msg : Genuine(x, n, nd2, mt2, sl2)}
             frames == <<ack>> \o If(sent, f)
  <2>1. /\ f = Sealed(SendInner(st, p, body, sent, key).sessions[p], kind, body)
        /\ nd2 = Put(node, n, SendInner(st, p, body, sent, key))
    BY <1>9, PutPut DEF SealOf, AfterSeal, nd
  <2>2. Step(n, p, SendInner(st, p, body, sent, key), Tail(chan[p][n]), frames, 5) /\ seals' = sl2
    BY <1>17, <2>1 DEF FlushWith, kind, body, key
  <2>3. /\ node' = nd2 /\ minted' = mt2 /\ chan' = Written(chan, n, p, Tail(chan[p][n]), frames)
    BY <2>1, <2>2, StepParts DEF mt2
  <2>4. /\ Inv(nd2, mt2, chan, sl2, opened)
        /\ f \in {x \in Msg : Genuine(x, n, nd2, mt2, sl2)}
    BY <1>5, <1>12, <1>13, <1>14, SealFrom
  <2>5. ack \in {x \in Msg : Genuine(x, n, nd2, mt2, sl2)}
    BY <1>5, <1>12, <1>13, <1>14, <1>15, StaysGenuine
  <2> HIDE DEF f, nd2, sl2
  <2>6. ack \in G /\ f \in G
    BY <2>4, <2>5
  <2> HIDE DEF G
  <2>7. If(sent, f) \in Seq(G)
    BY <2>6, IfType
  <2>8. <<ack>> \in Seq(G)
    BY <2>6
  <2>9. frames \in Seq(G)
    BY <2>7, <2>8, ConcatOf
  <2> HIDE DEF frames
  <2>10. Ends(n, p, nd2, mt2, sl2, opened, Tail(chan[p][n]), frames)
    BY <1>1, <2>2, <2>3, <2>4, <2>9 DEF Ends, G
  <2> QED
    BY <1>3, <2>10, StepEnds
<1> QED
  BY <1>1, <1>16, <1>17

LEMMA SaveBoth ==
  ASSUME NEW a, NEW b, NEW c, NEW p, SaveFor(a, b, p), SaveFor(a, c, p)
  PROVE  SaveFor(b, c, p)
BY DEF SaveFor

Lively(s) == [s EXCEPT !.active = now]

\* The time a session was last active is nothing to its keys.
LEMMA LivelyKeeps ==
  ASSUME NEW nd, NEW mt, NEW ch, NEW sl, NEW op, Inv(nd, mt, ch, sl, op), now \in Nat,
         NEW n \in Node, NEW p \in Node, nd[n].sessions[p] # None,
         NEW nd2 \in [Node -> StateType], Only(nd, nd2, n, p), nd2[n].bufs[p] = nd[n].bufs[p],
         nd2[n].sessions[p] = Lively(nd[n].sessions[p]), NEW mt2, Grown(mt, mt2)
  PROVE  Inv(nd2, mt2, ch, sl, op)
<1> DEFINE s == nd[n].sessions[p]
           t == nd2[n].sessions[p]
<1>1. Typed(nd, mt, ch, sl, op)
  BY DEF Inv
<1>2. s \in SessionType
  BY <1>1, SessionsTyped
<1>3. t = [s EXCEPT !.active = now]
  BY DEF Lively
<1> HIDE DEF s, t
<1>4. SameKeys(s, t) /\ Unread(s, t) /\ t.send_nonce = s.send_nonce
  BY <1>2, <1>3 DEF SameKeys, Unread, SessionType
<1>5. s.send_nonce <= t.send_nonce
  <2>1. s.send_nonce \in Nat
    BY <1>2, NoncesNat
  <2> QED
    BY <1>4, <2>1
<1>6. Quiet(nd, nd2)
  BY <1>1, <1>4, <1>5, QuietHere DEF s, t
<1> QED
  BY <1>6, QuietKeeps

\* One of the three ways, and for two of them a rotation.
LEMMA DecryptCases ==
  ASSUME NEW s \in SessionType, NEW o \in Openings(s), NEW m \in TrafficType, Fits(o, m), NEW key \in Key,
         now \in Nat
  PROVE  /\ Noted(s, o, m) \in SessionType
         /\ \/ Decrypt(s, o, m, key) = Noted(s, o, m)
            \/ /\ Decrypt(s, o, m, key) = Rotate(Noted(s, o, m), m, key)
               /\ \/ /\ m.shared = {Noted(s, o, m).next, Noted(s, o, m).send_pub}
                     /\ Noted(s, o, m).next_send_nonce = m.nonce
                  \/ m.shared = {Noted(s, o, m).next, Noted(s, o, m).recv_pub}
<1> DEFINE t == Noted(s, o, m)
<1>1. t \in SessionType
  BY NotedType
<1>2. Decrypt(s, o, m, key) = IF o.slot # "recv" /\ RotationDue(s) THEN Rotate(t, m, key) ELSE t
  BY DEF Decrypt, Noted
<1>3. /\ SameKeys(s, t)
      /\ t.next_send_nonce = IF o.slot = "next_send" THEN m.nonce ELSE s.next_send_nonce
  BY NotedSession
<1>4. \/ o.slot = "recv"
      \/ o.slot = "next_send" /\ m.shared = {s.next, s.send_pub}
      \/ o.slot = "next_recv" /\ m.shared = {s.next, s.recv_pub}
  BY SlotCases
<1> HIDE DEF t
<1>5. CASE o.slot # "recv" /\ RotationDue(s)
  <2>1. Decrypt(s, o, m, key) = Rotate(t, m, key)
    BY <1>2, <1>5
  <2>2. \/ m.shared = {t.next, t.send_pub} /\ t.next_send_nonce = m.nonce
        \/ m.shared = {t.next, t.recv_pub}
    BY <1>3, <1>4, <1>5 DEF SameKeys
  <2> QED
    BY <1>1, <2>1, <2>2 DEF t
<1>6. CASE ~(o.slot # "recv" /\ RotationDue(s))
  BY <1>1, <1>2, <1>6 DEF t
<1> QED
  BY <1>5, <1>6

\* The session after a box was read.
LEMMA DecryptKeeps ==
  ASSUME Here, now \in Nat, NEW n \in Node, NEW p \in Node, NEW o, NEW m,
         Reads(node, seals, n, p, o, m), NEW seq \in Nat
  PROVE  /\ WithSession(node[n], p, Lively(Decrypt(node[n].sessions[p], o, m, Fresh(n, 1))), seq) \in StateType
         /\ Inv(Put(node, n, WithSession(node[n], p, Lively(Decrypt(node[n].sessions[p], o, m, Fresh(n, 1))), seq)),
                Mint(minted, n, 1), chan, seals, Record(opened, n, Opening(p, node[n].sessions[p], m)))
         /\ Lively(Decrypt(node[n].sessions[p], o, m, Fresh(n, 1))) # None
<1> DEFINE s == node[n].sessions[p]
           t == Noted(s, o, m)
           key == Fresh(n, 1)
           u == Decrypt(s, o, m, key)
           v == Lively(u)
           st1 == WithOnly(node[n], p, t)
           st2 == WithOnly(node[n], p, u)
           st3 == WithSession(node[n], p, v, seq)
           nd1 == Put(node, n, st1)
           nd2 == Put(node, n, st2)
           nd3 == Put(node, n, st3)
           mt == Mint(minted, n, 1)
           op == Record(opened, n, Opening(p, s, m))
<1>1. /\ node \in [Node -> StateType] /\ minted \in [Node -> Nat] /\ node[n] \in StateType
      /\ Inv(node, minted, chan, seals, opened) /\ Typed(node, minted, chan, seals, opened)
  BY HereParts DEF Here
<1>2. /\ s # None /\ m \in TrafficType /\ m \in ToSet(seals[p]) /\ o \in Openings(s) /\ Fits(o, m)
  BY DEF Reads
<1>3. s \in SessionType
  BY <1>1, <1>2, SessionsTyped
<1>4. key \in Key /\ New(key, n, minted, mt) /\ Grown(minted, mt) /\ Grown(mt, mt)
  <2>1. 0 \in Nat /\ 1 \in Nat /\ 0 < 1 /\ 1 <= 1
    OBVIOUS
  <2>2. New(key, n, minted, mt)
    BY <1>1, <2>1, FreshNew
  <2>3. Grown(minted, mt) /\ Grown(mt, mt)
    BY <1>1, <2>1, MintOf
  <2> QED
    BY <2>2, <2>3 DEF New, KeysOf
<1>5. /\ t \in SessionType
      /\ \/ u = t
         \/ /\ u = Rotate(t, m, key)
            /\ \/ m.shared = {t.next, t.send_pub} /\ t.next_send_nonce = m.nonce
               \/ m.shared = {t.next, t.recv_pub}
  <2> HIDE DEF s, key
  <2> QED
    BY <1>2, <1>3, <1>4, DecryptCases
<1>6. u \in SessionType
  <2> HIDE DEF s, key
  <2> QED
    BY <1>2, <1>3, <1>4, DecryptType
<1>7. v \in SessionType
  <2> HIDE DEF u
  <2> QED
    BY <1>6, ActiveType DEF Lively
<1> HIDE DEF t, u, v, mt, key
<1>8. st1 \in StateType /\ SaveFor(node[n], st1, p) /\ st1.bufs = node[n].bufs /\ st1.sessions[p] = t
  BY <1>1, <1>5, SessionOnly
<1>9. st2 \in StateType /\ SaveFor(node[n], st2, p) /\ st2.bufs = node[n].bufs /\ st2.sessions[p] = u
  BY <1>1, <1>6, SessionOnly
<1>10. st3 \in StateType /\ SaveFor(node[n], st3, p) /\ st3.bufs = node[n].bufs /\ st3.sessions[p] = v
  BY <1>1, <1>7, SessionAndSeq
<1> HIDE DEF st1, st2, st3
<1>11. nd1 \in [Node -> StateType] /\ nd1[n] = st1 /\ Only(node, nd1, n, p)
  <2>1. Only(node, nd1, n, p)
    BY <1>1, <1>8, PutFirst
  <2> QED
    BY <1>1, <1>8, <2>1, PutOf, ZenonT(60)
<1>12. nd2 \in [Node -> StateType] /\ nd2[n] = st2 /\ Only(nd1, nd2, n, p)
  <2>1. SaveFor(st1, st2, p)
    BY <1>8, <1>9, SaveBoth
  <2>2. Only(nd1, nd2, n, p)
    BY <1>1, <1>8, <1>9, <2>1, PutAgain
  <2> QED
    BY <1>1, <1>9, <2>2, PutOf, ZenonT(60)
<1>13. nd3 \in [Node -> StateType] /\ nd3[n] = st3 /\ Only(nd2, nd3, n, p)
  <2>1. SaveFor(st2, st3, p)
    BY <1>9, <1>10, SaveBoth
  <2>2. Only(nd2, nd3, n, p)
    BY <1>1, <1>9, <1>10, <2>1, PutAgain
  <2> QED
    BY <1>1, <1>10, <2>2, PutOf, ZenonT(60)
<1> HIDE DEF nd1, nd2, nd3
<1>14. Notes(node, nd1, n, p, o, m)
  BY <1>8, <1>11 DEF Notes, t
<1> HIDE DEF s
<1>15. Inv(nd1, minted, chan, seals, op)
  BY <1>1, <1>11, <1>14, OpenKeeps DEF s
<1> HIDE DEF op
<1>16. Inv(nd2, mt, chan, seals, op)
  <2>1. CASE u = t
    <3>1. nd1 = nd2
      BY <2>1 DEF nd1, nd2, st1, st2
    <3>2. Quiet(nd1, nd1)
      <4>1. /\ Typed(nd1, minted, chan, seals, op) /\ Only(nd1, nd1, n, p)
        BY <1>15 DEF Inv, Only
      <4>2. nd1[n].sessions[p] = t /\ t.send_nonce <= t.send_nonce
        <5>1. t.send_nonce \in Nat
          BY <1>5, NoncesNat
        <5> QED
          BY <1>8, <1>11, <5>1
      <4> QED
        BY <4>1, <4>2, QuietHere DEF SameKeys, Unread
    <3> QED
      BY <1>4, <1>11, <1>15, <3>1, <3>2, QuietKeeps
  <2>2. CASE /\ u = Rotate(t, m, key)
             /\ \/ m.shared = {t.next, t.send_pub} /\ t.next_send_nonce = m.nonce
                \/ m.shared = {t.next, t.recv_pub}
    <3>1. nd1[n].sessions[p] = t /\ nd2[n].sessions[p] = u /\ nd2[n].bufs[p] = nd1[n].bufs[p]
      BY <1>8, <1>9, <1>11, <1>12
    <3>2. t # None
      BY <1>5, NoneAssumption
    <3>3. Moved(nd1, seals, n, p, m)
      BY <1>2, <2>2, <3>1, <3>2 DEF Moved
    <3>4. Follows(nd1, nd2, minted, mt, n, p, m, key)
      BY <1>4, <1>12, <2>2, <3>1 DEF Follows
    <3> QED
      BY <1>12, <1>15, <3>3, <3>4, RotateKeeps
  <2> QED
    BY <1>5, <2>1, <2>2
<1>17. Inv(nd3, mt, chan, seals, op)
  <2>1. nd2[n].sessions[p] = u /\ nd3[n].sessions[p] = Lively(u) /\ nd3[n].bufs[p] = nd2[n].bufs[p]
    BY <1>9, <1>10, <1>12, <1>13 DEF v
  <2>2. nd2[n].sessions[p] # None
    BY <1>6, <2>1, NoneAssumption
  <2>3. nd3[n].sessions[p] = Lively(nd2[n].sessions[p])
    BY <2>1
  <2>4. nd3 \in [Node -> StateType] /\ Only(nd2, nd3, n, p) /\ Grown(mt, mt) /\ nd3[n].bufs[p] = nd2[n].bufs[p]
    BY <1>4, <1>13, <2>1
  <2> QED
    BY <1>16, <2>2, <2>3, <2>4, LivelyKeeps
<1>18. v # None
  BY <1>7, NoneAssumption
<1> QED
  BY <1>10, <1>17, <1>18 DEF st3, nd3, mt, op, v, u, key, s

LEMMA TwoKeys ==
  ASSUME minted \in [Node -> Nat], NEW n \in Node
  PROVE  /\ Grown(Mint(minted, n, 1), Mint(minted, n, 2))
         /\ New(Fresh(n, 2), n, Mint(minted, n, 1), Mint(minted, n, 2))
<1>1. 1 \in Nat /\ 2 \in Nat /\ 1 <= 2 /\ 1 < 2 /\ 2 <= 2
  OBVIOUS
<1>2. Grown(Mint(minted, n, 1), Mint(minted, n, 2))
  BY <1>1, MintOf
<1>3. New(Fresh(n, 2), n, Mint(minted, n, 1), Mint(minted, n, 2))
  BY <1>1, FreshNew
<1> QED
  BY <1>2, <1>3

\* The answer to a request.
Answer(m) == [what |-> "Res", id |-> m.body.id]

\* What a box that was read does: nothing more, or an answer to the request.
OpenWith(n, p, m, st, sent) ==
  LET f == Sealed(SendInner(st, p, Answer(m), sent, Fresh(n, 2)).sessions[p], "Proto", Answer(m))
  IN  /\ Step(n, p, SendInner(st, p, Answer(m), sent, Fresh(n, 2)), Tail(chan[p][n]), If(sent, f), 2)
      /\ seals' = Record(seals, n, f)
      /\ Write(sent)

\* What OpenTraffic makes of the state when it opens the message with o,
OpenState(n, p, o) ==
  WithSession(node[n], p, Lively(Decrypt(node[n].sessions[p], o, Head(chan[p][n]), Fresh(n, 1))),
              NextInitSeq(node[n]))

\* and how it goes on from there.
OpenEnds(n, p, st) ==
  \/ /\ Step(n, p, st, Tail(chan[p][n]), <<>>, 1)
     /\ seals' = seals /\ faults' = faults
  \/ \E sent \in BOOLEAN : OpenWith(n, p, Head(chan[p][n]), st, sent)

\* OpenTraffic, taken apart.
LEMMA OpenTrafficParts ==
  ASSUME NEW n, NEW p, OpenTraffic(n, p)
  PROVE  /\ Arrives(n, p, {"Traffic"}) /\ node[n].sessions[p] # None
         /\ \E o \in Openings(node[n].sessions[p]) :
              /\ Fits(o, Head(chan[p][n]))
              /\ opened' = Record(opened, n, Opening(p, node[n].sessions[p], Head(chan[p][n])))
              /\ OpenEnds(n, p, OpenState(n, p, o))
<1> DEFINE r == node[n].sessions[p]
           seq == NextInitSeq(node[n])
           m == Head(chan[p][n])
           St(o) == WithSession(node[n], p, Lively(Decrypt(r, o, m, Fresh(n, 1))), seq)
           C(x, o, st) ==
             /\ Fits(o, x)
             /\ opened' = Record(opened, n, Opening(p, r, x))
             /\ \/ /\ ~(x.kind = "Proto" /\ x.body.what = "Req")
                   /\ Step(n, p, st, Tail(chan[p][n]), <<>>, 1)
                   /\ UNCHANGED <<seals, faults>>
                \/ /\ x.kind = "Proto" /\ x.body.what = "Req"
                   /\ \E sent \in BOOLEAN, res \in {[what |-> "Res", id |-> x.body.id]} :
                      \E fin \in {SendInner(st, p, res, sent, Fresh(n, 2))} :
                      \E frame \in {Sealed(fin.sessions[p], "Proto", res)} :
                        /\ Write(sent)
                        /\ Step(n, p, fin, Tail(chan[p][n]), If(sent, frame), 2)
                        /\ seals' = Record(seals, n, frame)
<1>1. /\ Arrives(n, p, {"Traffic"}) /\ r # None
      /\ \E x \in {m}, o \in Openings(r) :
         \E s \in {Lively(Decrypt(r, o, x, Fresh(n, 1)))} :
         \E st \in {WithSession(node[n], p, s, seq)} : C(x, o, st)
  BY Zenon DEF OpenTraffic, WithSession, Lively
<1> HIDE DEF C, m, r, seq
<1>2. PICK o \in Openings(r) : C(m, o, St(o))
  BY <1>1
<1> DEFINE st == St(o)
           a == Answer(m)
<1>3. C(m, o, st)
  BY <1>2
<1> HIDE DEF st
<1>4. /\ Fits(o, m) /\ opened' = Record(opened, n, Opening(p, r, m))
      /\ \/ /\ Step(n, p, st, Tail(chan[p][n]), <<>>, 1)
            /\ UNCHANGED <<seals, faults>>
         \/ \E sent \in BOOLEAN, res \in {a} :
            \E fin \in {SendInner(st, p, res, sent, Fresh(n, 2))} :
            \E frame \in {Sealed(fin.sessions[p], "Proto", res)} :
              /\ Write(sent)
              /\ Step(n, p, fin, Tail(chan[p][n]), If(sent, frame), 2)
              /\ seals' = Record(seals, n, frame)
  BY <1>3 DEF C, Answer
<1> HIDE DEF a
<1>5. \/ /\ Step(n, p, st, Tail(chan[p][n]), <<>>, 1)
         /\ seals' = seals /\ faults' = faults
      \/ \E sent \in BOOLEAN :
           /\ Step(n, p, SendInner(st, p, a, sent, Fresh(n, 2)), Tail(chan[p][n]),
                   If(sent, Sealed(SendInner(st, p, a, sent, Fresh(n, 2)).sessions[p], "Proto", a)), 2)
           /\ seals' = Record(seals, n,
                         Sealed(SendInner(st, p, a, sent, Fresh(n, 2)).sessions[p], "Proto", a))
           /\ Write(sent)
  BY <1>4
<1>6. \/ /\ Step(n, p, st, Tail(chan[p][n]), <<>>, 1)
         /\ seals' = seals /\ faults' = faults
      \/ \E sent \in BOOLEAN : OpenWith(n, p, m, st, sent)
  BY <1>5 DEF OpenWith, a
<1> HIDE DEF a
<1>7. OpenEnds(n, p, st)
  BY <1>6 DEF OpenEnds, m
<1>8. st = OpenState(n, p, o)
  BY DEF OpenState, st, r, m, seq
<1>9. /\ Fits(o, Head(chan[p][n]))
      /\ opened' = Record(opened, n, Opening(p, node[n].sessions[p], Head(chan[p][n])))
      /\ OpenEnds(n, p, OpenState(n, p, o))
  <2> HIDE DEF St
  <2> QED
    BY <1>4, <1>7, <1>8 DEF r, m
<1>10. Arrives(n, p, {"Traffic"}) /\ node[n].sessions[p] # None /\ o \in Openings(node[n].sessions[p])
  BY <1>1, <1>2 DEF r
<1> QED
  BY <1>9, <1>10, Zenon

LEMMA OpenTrafficKeeps ==
  ASSUME Here, now \in Nat, NEW n \in Node, NEW p \in Node, OpenTraffic(n, p)
  PROVE  Here'
<1> DEFINE m == Head(chan[p][n])
           r == node[n].sessions[p]
           seq == NextInitSeq(node[n])
<1>1. Arrives(n, p, {"Traffic"}) /\ r # None
  BY OpenTrafficParts
<1>2. PICK o \in Openings(r) :
         /\ Fits(o, m) /\ opened' = Record(opened, n, Opening(p, r, m))
         /\ OpenEnds(n, p, OpenState(n, p, o))
  BY OpenTrafficParts
<1> DEFINE v == Lively(Decrypt(r, o, m, Fresh(n, 1)))
           st == WithSession(node[n], p, v, seq)
           nd == Put(node, n, st)
           mt == Mint(minted, n, 1)
           op == Record(opened, n, Opening(p, r, m))
<1>3. /\ node \in [Node -> StateType] /\ minted \in [Node -> Nat] /\ node[n] \in StateType
  BY HereParts
<1>4. chan[p][n] # <<>> /\ m \in TrafficType /\ m \in ToSet(seals[p])
  BY <1>1, ReadBox
<1>5. seq \in Nat
  BY <1>3, NextInitSeqType
<1>6. Reads(node, seals, n, p, o, m)
  BY <1>1, <1>2, <1>4 DEF Reads
<1>7. Answer(m) \in Body /\ Answer(m).what = "Res"
  BY <1>4 DEF Answer, Body, TrafficType
<1>8. \/ Step(n, p, st, Tail(chan[p][n]), <<>>, 1) /\ seals' = seals
      \/ \E sent \in BOOLEAN : OpenWith(n, p, m, st, sent)
  <2>1. OpenState(n, p, o) = st
    BY DEF OpenState
  <2> HIDE DEF st
  <2>2. OpenEnds(n, p, st)
    BY <1>2, <2>1
  <2> QED
    BY <2>2 DEF OpenEnds
<1> HIDE DEF seq, m
<1>9. st \in StateType /\ v # None /\ Inv(nd, mt, chan, seals, op)
  BY <1>5, <1>6, DecryptKeeps
<1>10. nd[n] = st
  <2> HIDE DEF st
  <2> QED
    BY <1>3, <1>9, PutOf
<1>11. st.sessions[p] = v
  <2> HIDE DEF v
  <2> QED
    BY <1>3, <1>9 DEF StateType, WithSession
<1>12. Grown(mt, Mint(minted, n, 2)) /\ New(Fresh(n, 2), n, mt, Mint(minted, n, 2))
  BY <1>3, TwoKeys
<1> HIDE DEF v, st
<1>13. CASE Step(n, p, st, Tail(chan[p][n]), <<>>, 1) /\ seals' = seals
  <2>1. /\ node' = nd /\ minted' = mt /\ chan' = Written(chan, n, p, Tail(chan[p][n]), <<>>)
    BY <1>13, StepParts
  <2> HIDE DEF nd, mt, op
  <2>2. opened' = op
    BY <1>2 DEF op
  <2>3. Ends(n, p, nd, mt, seals, op, Tail(chan[p][n]), <<>>)
    BY <1>9, <1>13, <2>1, <2>2, NothingWritten DEF Ends
  <2> QED
    BY <1>4, <2>3, StepEnds
<1>14. ASSUME NEW sent \in BOOLEAN, OpenWith(n, p, m, st, sent)
       PROVE  Here'
  <2> DEFINE a == Answer(m)
             key == Fresh(n, 2)
             mt2 == Mint(minted, n, 2)
             fin == SendInner(st, p, a, sent, key)
             f == SealOf(nd, n, p, "Proto", a, sent, key)
             nd2 == AfterSeal(nd, n, p, a, sent, key)
             sl2 == Record(seals, n, f)
             G == {x \in Msg : Genuine(x, n, nd2, mt2, sl2)}
  <2>1. f = Sealed(fin.sessions[p], "Proto", a) /\ nd2 = Put(node, n, fin)
    BY <1>10, PutPut DEF SealOf, AfterSeal
  <2>2. /\ Step(n, p, fin, Tail(chan[p][n]), If(sent, f), 2) /\ seals' = sl2
    BY <1>14, <2>1 DEF OpenWith
  <2>3. /\ node' = nd2 /\ minted' = mt2 /\ chan' = Written(chan, n, p, Tail(chan[p][n]), If(sent, f))
    BY <2>1, <2>2, StepParts
  <2>4. "Proto" \in Kind /\ nd[n].sessions[p] # None /\ a \in Body
    BY <1>7, <1>9, <1>10, <1>11 DEF Kind
  <2> HIDE DEF nd, mt, op, a, key, mt2
  <2>5. Grown(mt, mt2) /\ New(key, n, mt, mt2)
    BY <1>12 DEF mt2, key
  <2>6. /\ Inv(nd2, mt2, chan, sl2, op) /\ f \in {x \in Msg : Genuine(x, n, nd2, mt2, sl2)}
    BY <1>9, <2>4, <2>5, SealFrom
  <2> HIDE DEF f, nd2, sl2
  <2>7. f \in G
    BY <2>6
  <2> HIDE DEF G
  <2>8. If(sent, f) \in Seq(G)
    BY <2>7, IfType
  <2>9. opened' = op
    BY <1>2 DEF op
  <2>10. Ends(n, p, nd2, mt2, sl2, op, Tail(chan[p][n]), If(sent, f))
    BY <2>2, <2>3, <2>6, <2>8, <2>9 DEF Ends, G
  <2> QED
    BY <1>4, <2>10, StepEnds
<1> QED
  BY <1>8, <1>13, <1>14

\* The keys of an offer that nobody keeps.
LEMMA UnknownTrafficKeeps ==
  ASSUME Here, now \in Nat, NEW n \in Node, NEW p \in Node, UnknownTraffic(n, p)
  PROVE  Here'
<1> DEFINE seq == NextInitSeq(node[n]) + 1
           st == WithSeq(node[n], seq)
           nd == Put(node, n, st)
           mt == Mint(minted, n, 2)
           k1 == Fresh(n, 1)
           k2 == Fresh(n, 2)
           init == [type |-> "Init", current |-> k1, next |-> k2, key_seq |-> 0, seq |-> seq]
<1>1. PICK sent \in BOOLEAN :
        /\ Arrives(n, p, {"Traffic"})
        /\ Step(n, p, st, Tail(chan[p][n]), If(sent, init), 2)
        /\ seals' = seals /\ opened' = opened
  BY DEF UnknownTraffic, WithSeq
<1>2. /\ node \in [Node -> StateType] /\ minted \in [Node -> Nat] /\ node[n] \in StateType
      /\ Inv(node, minted, chan, seals, opened) /\ Typed(node, minted, chan, seals, opened)
      /\ Owned(node, minted)
  BY HereParts DEF Here
<1>3. chan[p][n] # <<>>
  BY <1>1 DEF Arrives
<1>4. seq \in Nat \ {0}
  <2>1. NextInitSeq(node[n]) \in Nat \ {0}
    BY <1>2, NextInitSeqType
  <2> QED
    BY <2>1
<1>5. /\ node' = nd /\ minted' = mt
      /\ chan' = Written(chan, n, p, Tail(chan[p][n]), If(sent, init))
  BY <1>1, StepParts
<1> HIDE DEF seq
<1>6. /\ st \in StateType /\ SaveFor(node[n], st, p) /\ st.bufs = node[n].bufs
      /\ st.sessions = node[n].sessions
  BY <1>2, <1>4, SeqOnly
<1> HIDE DEF st
<1>7. Only(node, nd, n, p)
  BY <1>2, <1>6, PutFirst
<1>8. nd[n] = st /\ nd \in [Node -> StateType] /\ \A a \in Node : a # n => nd[a] = node[a]
  <2>1. node \in [Node -> StateType] /\ st \in StateType
    BY <1>2, <1>6
  <2> QED
    BY <2>1, PutOf
<1>9. nd[n].bufs[p] = node[n].bufs[p] /\ nd[n].sessions[p] = node[n].sessions[p]
  BY <1>6, <1>8
<1>10. \A a, q \in Node : nd[a].bufs[q] = node[a].bufs[q] /\ nd[a].sessions[q] = node[a].sessions[q]
  BY <1>6, <1>8
<1>11. /\ Grown(minted, mt) /\ New(k1, n, minted, mt) /\ New(k2, n, minted, mt) /\ k1[2] < k2[2]
  <2>1. 0 \in Nat /\ 1 \in Nat /\ 2 \in Nat /\ 0 < 1 /\ 0 < 2 /\ 1 <= 2 /\ 2 <= 2 /\ 1 < 2
    OBVIOUS
  <2>2. Grown(minted, mt)
    BY <1>2, <2>1, MintOf
  <2>3. New(k1, n, minted, mt)
    BY <1>2, <2>1, FreshNew
  <2>4. New(k2, n, minted, mt)
    BY <1>2, <2>1, FreshNew
  <2>5. k1[2] < k2[2]
    BY <1>2, <2>1, FreshOrder
  <2> QED
    BY <2>2, <2>3, <2>4, <2>5
<1> HIDE DEF nd, mt, k1, k2
<1>12. Quiet(node, nd)
  <2>1. node[n].sessions[p] # None => node[n].sessions[p].send_nonce \in Nat
    BY <1>2, SessionsTyped, NoncesNat
  <2>2. node[n].sessions[p] # None => node[n].sessions[p].send_nonce <= node[n].sessions[p].send_nonce
    BY <2>1
  <2> QED
    BY <1>2, <1>7, <1>9, <2>2, QuietHere DEF SameKeys, Unread
<1>13. Inv(nd, mt, chan, seals, opened)
  BY <1>2, <1>8, <1>11, <1>12, QuietKeeps
<1>14. init \in {x \in Msg : Genuine(x, n, nd, mt, seals)}
  <2>1. k1 \in KeysOf(n, mt) /\ k2 \in KeysOf(n, mt) /\ k1 \in Key /\ k2 \in Key /\ k1[1] = n /\ minted[n] < k1[2]
    BY <1>11 DEF New, KeysOf
  <2>2. \A a, q \in Node : k1 \notin NextKeys(nd, a, q)
    <3> SUFFICES ASSUME NEW a \in Node, NEW q \in Node, k1 \in NextKeys(nd, a, q)
                 PROVE  FALSE
      OBVIOUS
    <3>1. k1 \in NextKeys(node, a, q)
      BY <1>10 DEF NextKeys
    <3>2. k1 \in OwnKeys(node, a, q)
      BY <3>1, NextKeysOwn
    <3>3. k1[1] = a /\ k1[2] <= minted[a]
      BY <1>2, <3>2, OwnKeysOwned
    <3>4. minted[n] \in Nat /\ k1[2] \in Nat
      BY <1>2, <2>1 DEF Key
    <3> QED
      BY <2>1, <3>3, <3>4
  <2>3. k1 \in Shown(nd, mt)
    BY <2>1, <2>2 DEF Shown, KeysOf
  <2>4. init \in InitType /\ init.type # "Traffic" /\ init.current = k1 /\ init.next = k2
    BY <1>4, <2>1 DEF InitType
  <2> HIDE DEF init
  <2> QED
    BY <1>11, <2>1, <2>3, <2>4 DEF Genuine, Msg
<1> HIDE DEF init
<1>15. If(sent, init) \in Seq({x \in Msg : Genuine(x, n, nd, mt, seals)})
  BY <1>14, IfType
<1>16. Ends(n, p, nd, mt, seals, opened, Tail(chan[p][n]), If(sent, init))
  BY <1>1, <1>5, <1>13, <1>15 DEF Ends
<1> QED
  BY <1>3, <1>16, StepEnds

LEMMA ReceiveKeeps ==
  ASSUME Here, now \in Nat, NEW n \in Node, NEW p \in Node, Receive(n, p)
  PROVE  Here'
BY OpenSessionKeeps, FlushSessionKeeps, HandleAckKeeps, HandleInitKeeps, OpenTrafficKeeps,
   RefuseTrafficKeeps, UnknownTrafficKeeps DEF Receive

\* A router's state with sessions, pending opens or failed writes gone.
Dropped(st, st2) ==
  \A p \in Node : /\ st2.sessions[p] \in {st.sessions[p], None}
                  /\ st2.bufs[p] \in {st.bufs[p], None}

LEMMA DropKeeps ==
  ASSUME Here, NEW n \in Node, NEW st \in StateType, Dropped(node[n], st), node' = Put(node, n, st),
         UNCHANGED <<minted, chan, seals, opened>>
  PROVE  Here'
<1>1. /\ node \in [Node -> StateType] /\ minted \in [Node -> Nat]
      /\ Inv(node, minted, chan, seals, opened) /\ Typed(node, minted, chan, seals, opened)
  BY HereParts DEF Here
<1> DEFINE nd == Put(node, n, st)
<1>2. nd[n] = st /\ nd \in [Node -> StateType] /\ \A m \in Node : m # n => nd[m] = node[m]
  BY <1>1, PutOf
<1> HIDE DEF nd
<1>3. Quiet(node, nd)
  <2>1. ASSUME NEW a \in Node, NEW q \in Node
        PROVE  /\ nd[a].sessions[q] # None =>
                    /\ node[a].sessions[q] # None
                    /\ SameKeys(node[a].sessions[q], nd[a].sessions[q])
                    /\ Unread(node[a].sessions[q], nd[a].sessions[q])
                    /\ node[a].sessions[q].send_nonce <= nd[a].sessions[q].send_nonce
               /\ nd[a].bufs[q] # None =>
                    /\ node[a].bufs[q] # None
                    /\ nd[a].bufs[q].send_pub = node[a].bufs[q].send_pub
                    /\ nd[a].bufs[q].next_pub = node[a].bufs[q].next_pub
    <3>1. nd[a].sessions[q] \in {node[a].sessions[q], None} /\ nd[a].bufs[q] \in {node[a].bufs[q], None}
      BY <1>2 DEF Dropped
    <3>2. node[a].sessions[q] # None => node[a].sessions[q].send_nonce \in Nat
      BY <1>1, SessionsTyped, NoncesNat
    <3>3. node[a].sessions[q] # None => node[a].sessions[q].send_nonce <= node[a].sessions[q].send_nonce
      BY <3>2
    <3> QED
      BY <3>1, <3>3 DEF SameKeys, Unread
  <2> QED
    BY <2>1 DEF Quiet, Lessened
<1>4. Grown(minted, minted)
  <2>1. \A m \in Node : minted[m] \in Nat
    BY <1>1
  <2> QED
    BY <1>1, <2>1 DEF Grown
<1>5. Inv(nd, minted, chan, seals, opened)
  BY <1>1, <1>2, <1>3, <1>4, QuietKeeps
<1> QED
  BY <1>5 DEF Here, nd

LEMMA SpliceKeeps ==
  ASSUME Here, NEW n \in Node, Splice(n)
  PROVE  Here'
<1> DEFINE st == [node[n] EXCEPT !.resend = <<>>]
<1>1. node \in [Node -> StateType] /\ node[n] \in StateType
  BY HereParts
<1>2. node' = Put(node, n, st) /\ UNCHANGED <<minted, chan, seals, opened>>
  BY DEF Splice, Put
<1>3. st \in StateType /\ st.sessions = node[n].sessions /\ st.bufs = node[n].bufs
  <2>1. <<>> \in Seq(Parcel)
    BY NothingWritten
  <2> DEFINE a == node[n]
  <2>2. a \in StateType
    BY <1>1
  <2> HIDE DEF a
  <2>3. /\ [a EXCEPT !.resend = <<>>] \in StateType
        /\ [a EXCEPT !.resend = <<>>].sessions = a.sessions
        /\ [a EXCEPT !.resend = <<>>].bufs = a.bufs
    BY <2>1, <2>2 DEF StateType
  <2> QED
    BY <2>3 DEF a
<1> HIDE DEF st
<1>4. Dropped(node[n], st)
  BY <1>3 DEF Dropped
<1> QED
  BY <1>2, <1>3, <1>4, DropKeeps

\* What is left of n's sessions and pending opens.
LiveBufs(n) ==
  [p \in Node |-> IF node[n].bufs[p] # None /\ node[n].bufs[p].deadline <= now
                  THEN None ELSE node[n].bufs[p]]

LiveSessions(n) ==
  [p \in Node |-> IF node[n].sessions[p] # None /\ node[n].sessions[p].active + SESSION_TIMEOUT <= now
                  THEN None ELSE node[n].sessions[p]]

Live(n) == [[node[n] EXCEPT !.bufs = LiveBufs(n)] EXCEPT !.sessions = LiveSessions(n)]

LEMMA LiveType ==
  ASSUME node \in [Node -> StateType], NEW n \in Node
  PROVE  Live(n) \in StateType /\ Dropped(node[n], Live(n)) /\ Live(n).resend = node[n].resend
<1>1. node[n] \in StateType
  OBVIOUS
<1>2. /\ LiveBufs(n) \in [Node -> BufType \cup {None}]
      /\ \A p \in Node : LiveBufs(n)[p] \in {node[n].bufs[p], None}
  BY <1>1 DEF LiveBufs, StateType
<1>3. /\ LiveSessions(n) \in [Node -> SessionType \cup {None}]
      /\ \A p \in Node : LiveSessions(n)[p] \in {node[n].sessions[p], None}
  BY <1>1 DEF LiveSessions, StateType
<1> DEFINE a == [node[n] EXCEPT !.bufs = LiveBufs(n)]
           b == [a EXCEPT !.sessions = LiveSessions(n)]
<1>4. /\ a \in StateType /\ a.bufs = LiveBufs(n) /\ a.resend = node[n].resend
      /\ a.sessions = node[n].sessions
  BY <1>1, <1>2 DEF StateType
<1> HIDE DEF a
<1>5. b \in StateType /\ b.bufs = a.bufs /\ b.sessions = LiveSessions(n) /\ b.resend = a.resend
  BY <1>3, <1>4 DEF StateType
<1> HIDE DEF b
<1>6. Dropped(node[n], b)
  BY <1>2, <1>3, <1>4, <1>5 DEF Dropped
<1> QED
  BY <1>4, <1>5, <1>6 DEF Live, a, b

LEMMA ExpireParts ==
  ASSUME node \in [Node -> StateType], NEW n \in Node, ExpireEphemeral(n)
  PROVE  /\ node' = Put(node, n, Live(n))
         /\ UNCHANGED <<now, outgoing, taken, chan, minted, seals, opened, sends, faults>>
<1>1. node' = [node EXCEPT ![n].bufs = LiveBufs(n), ![n].sessions = LiveSessions(n)]
  BY DEF ExpireEphemeral, LiveBufs, LiveSessions
<1>2. [node EXCEPT ![n].bufs = LiveBufs(n), ![n].sessions = LiveSessions(n)] = Put(node, n, Live(n))
  BY DEF Put, Live
<1> QED
  BY <1>1, <1>2 DEF ExpireEphemeral

LEMMA ExpireKeeps ==
  ASSUME Here, NEW n \in Node, ExpireEphemeral(n)
  PROVE  Here'
<1>1. node \in [Node -> StateType]
  BY HereParts
<1>2. node' = Put(node, n, Live(n)) /\ UNCHANGED <<minted, chan, seals, opened>>
  BY <1>1, ExpireParts
<1>3. Live(n) \in StateType /\ Dropped(node[n], Live(n))
  BY <1>1, LiveType
<1> QED
  BY <1>2, <1>3, DropKeeps

LEMMA DefaultType ==
  DefaultState \in StateType /\ \A p \in Node : /\ DefaultState.sessions[p] = None
                                                /\ DefaultState.bufs[p] = None
BY DEF DefaultState, StateType

LEMMA RestartKeeps ==
  ASSUME Here, NEW n \in Node, Restart(n)
  PROVE  Here'
<1>1. node' = Put(node, n, DefaultState) /\ UNCHANGED <<minted, chan, seals, opened>>
  BY DEF Restart, Put
<1>2. DefaultState \in StateType /\ Dropped(node[n], DefaultState)
  BY DefaultType DEF Dropped
<1> QED
  BY <1>1, <1>2, DropKeeps

\* One channel with other messages of the same sender.
LEMMA ChannelKeeps ==
  ASSUME Here, NEW n \in Node, NEW p \in Node,
         NEW s \in Seq({m \in Msg : Genuine(m, n, node, minted, seals)}),
         chan' = [chan EXCEPT ![n][p] = s], UNCHANGED <<node, minted, seals, opened>>
  PROVE  Here'
<1> DEFINE G == [x \in Node |-> {m \in Msg : Genuine(m, x, node, minted, seals)}]
<1>1. /\ Typed(node, minted, chan, seals, opened) /\ KeyInv(node, minted, chan, seals)
      /\ OpenInv(node, seals, opened)
  BY DEF Here, Inv
<1>2. /\ chan \in [Node -> [Node -> Seq(Msg)]] /\ \A x \in Node : G[x] \subseteq Msg
      /\ \A x, y \in Node : chan[x][y] \in Seq(G[x])
      /\ s \in Seq(G[n])
  BY <1>1 DEF Typed, KeyInv, Letters
<1>3. s \in Seq(Msg)
  <2> HIDE DEF G
  <2> QED
    BY <1>2, SeqGrows
<1> HIDE DEF G
<1>4. /\ chan' \in [Node -> [Node -> Seq(Msg)]]
      /\ chan'[n][p] = s
      /\ \A x, y \in Node : x # n \/ y # p => chan'[x][y] = chan[x][y]
  BY <1>2, <1>3
<1>5. \A x, y \in Node : chan'[x][y] \in Seq(G[x])
  BY <1>2, <1>4
<1>6. Letters(node, minted, chan', seals)
  BY <1>5 DEF Letters, G
<1>7. Typed(node, minted, chan', seals, opened)
  BY <1>1, <1>4 DEF Typed
<1>8. Inv(node, minted, chan', seals, opened)
  BY <1>1, <1>6, <1>7 DEF Inv, KeyInv
<1> QED
  BY <1>8 DEF Here

LEMMA NetworkKeeps ==
  ASSUME Here, NEW n \in Node, NEW p \in Node, NEW i \in DOMAIN chan[n][p],
         Lose(n, p, i) \/ Duplicate(n, p, i) \/ Overtake(n, p, i)
  PROVE  Here'
<1> DEFINE G == {m \in Msg : Genuine(m, n, node, minted, seals)}
           c == chan[n][p]
<1>1. c \in Seq(G)
  BY Unchanged DEF Here
<1>2. UNCHANGED <<node, minted, seals, opened>>
  BY DEF Lose, Duplicate, Overtake
<1>3. i \in DOMAIN c
  OBVIOUS
<1>4. CASE Lose(n, p, i)
  <2>1. chan' = [chan EXCEPT ![n][p] = RemoveAt(c, i)]
    BY <1>4 DEF Lose
  <2> HIDE DEF G, c
  <2>2. RemoveAt(c, i) \in Seq(G)
    BY <1>1, <1>3, RemoveAtOf
  <2> QED
    BY <1>2, <2>1, <2>2, ChannelKeeps DEF G
<1>5. CASE Duplicate(n, p, i)
  <2>1. chan' = [chan EXCEPT ![n][p] = InsertAt(c, i, c[i])]
    BY <1>5 DEF Duplicate
  <2> HIDE DEF G, c
  <2>2. InsertAt(c, i, c[i]) \in Seq(G)
    BY <1>1, <1>3, InsertAtOf
  <2> QED
    BY <1>2, <2>1, <2>2, ChannelKeeps DEF G
<1>6. CASE Overtake(n, p, i)
  <2>1. chan' = [chan EXCEPT ![n][p] = [c EXCEPT ![i] = c[i+1], ![i+1] = c[i]]] /\ i < Len(c)
    BY <1>6 DEF Overtake
  <2> HIDE DEF G, c
  <2>2. [c EXCEPT ![i] = c[i+1], ![i+1] = c[i]] \in Seq(G)
    BY <1>1, <1>3, <2>1, SwapOf
  <2> QED
    BY <1>2, <2>1, <2>2, ChannelKeeps DEF G
<1> QED
  BY <1>4, <1>5, <1>6

LEMMA SessionSendKeeps ==
  ASSUME Here, now \in Nat, NEW n \in Node, NEW p \in Node, NEW kind \in Kind, NEW body \in Body,
         NEW sent \in BOOLEAN, SessionSend(n, p, kind, body, sent), opened' = opened
  PROVE  Here'
BY SendSealedKeeps, SendBufferedKeeps DEF SessionSend

-----------------------------------------------------------------------------
(* The outboxes, and the kind a payload travels as *)

\* The rest of the type invariant.
Rest ==
  /\ now \in 0 .. MaxTime
  /\ outgoing \in [Node -> Seq(Parcel)]
  /\ taken \in [Node -> Seq(Parcel)]
  /\ sends \in Seq([from : Node, to : Node, what : {"Data", "Req"}])
  /\ faults \in 0 .. MaxFaults

\* More may go wrong.
LEMMA FitMore ==
  ASSUME NEW fl \in Nat, NEW fl2 \in Nat, fl <= fl2, NEW kind, NEW body, Fitting(kind, body, fl)
  PROVE  Fitting(kind, body, fl2)
BY DEF Fitting

LEMMA NodeFitsMore ==
  ASSUME NEW fl \in Nat, NEW fl2 \in Nat, fl <= fl2, NEW st, NodeFits(st, fl)
  PROVE  NodeFits(st, fl2)
<1>1. FitParcel(fl) \subseteq FitParcel(fl2)
  BY FitMore DEF FitParcel
<1>2. st.resend \in Seq(FitParcel(fl2))
  <2>1. st.resend \in Seq(FitParcel(fl))
    BY DEF NodeFits
  <2> QED
    BY <1>1, <2>1, SeqGrows
<1>3. ASSUME NEW p \in Node, st.bufs[p] # None
      PROVE  Fitting(st.bufs[p].kind, st.bufs[p].body, fl2)
  <2>1. Fitting(st.bufs[p].kind, st.bufs[p].body, fl)
    BY <1>3 DEF NodeFits
  <2> QED
    BY <2>1, FitMore
<1> QED
  BY <1>2, <1>3 DEF NodeFits

LEMMA KindsMore ==
  ASSUME NEW nd, NEW out, NEW tk, NEW sl, NEW fl \in Nat, NEW fl2 \in Nat, fl <= fl2,
         KindsFit(nd, out, tk, sl, fl)
  PROVE  KindsFit(nd, out, tk, sl, fl2)
<1>1. FitParcel(fl) \subseteq FitParcel(fl2)
  BY FitMore DEF FitParcel
<1>2. FitFrame(fl) \subseteq FitFrame(fl2)
  BY FitMore DEF FitFrame
<1> SUFFICES ASSUME NEW n \in Node
             PROVE  /\ NodeFits(nd[n], fl2)
                    /\ out[n] \in Seq(FitParcel(fl2)) /\ tk[n] \in Seq(FitParcel(fl2))
                    /\ sl[n] \in Seq(FitFrame(fl2))
  BY DEF KindsFit
<1>3. /\ NodeFits(nd[n], fl)
      /\ out[n] \in Seq(FitParcel(fl)) /\ tk[n] \in Seq(FitParcel(fl))
      /\ sl[n] \in Seq(FitFrame(fl))
  BY DEF KindsFit
<1>4. NodeFits(nd[n], fl2)
  BY <1>3, NodeFitsMore
<1>5. out[n] \in Seq(FitParcel(fl2)) /\ tk[n] \in Seq(FitParcel(fl2)) /\ sl[n] \in Seq(FitFrame(fl2))
  BY <1>1, <1>2, <1>3, SeqGrows
<1> QED
  BY <1>4, <1>5

LEMMA PutFits ==
  ASSUME NEW nd \in [Node -> StateType], NEW out, NEW tk, NEW sl, NEW fl,
         KindsFit(nd, out, tk, sl, fl), NEW n \in Node, NEW st \in StateType, NodeFits(st, fl)
  PROVE  KindsFit(Put(nd, n, st), out, tk, sl, fl)
<1>1. Put(nd, n, st)[n] = st /\ \A m \in Node : m # n => Put(nd, n, st)[m] = nd[m]
  BY PutOf
<1>2. \A m \in Node : NodeFits(Put(nd, n, st)[m], fl)
  BY <1>1 DEF KindsFit
<1> QED
  BY <1>2 DEF KindsFit

LEMMA RecordFits ==
  ASSUME NEW nd, NEW out, NEW tk, NEW sl \in [Node -> Seq(TrafficType)], NEW fl,
         KindsFit(nd, out, tk, sl, fl), NEW n \in Node, NEW f \in FitFrame(fl)
  PROVE  KindsFit(nd, out, tk, Record(sl, n, f), fl)
<1>1. \A m \in Node : sl[m] \in Seq(FitFrame(fl))
  BY DEF KindsFit
<1>2. f \in TrafficType
  BY DEF FitFrame
<1>3. /\ Record(sl, n, f)[n] = Append(sl[n], f)
      /\ \A m \in Node : m # n => Record(sl, n, f)[m] = sl[m]
  BY <1>2, RecordOf
<1>4. Append(sl[n], f) \in Seq(FitFrame(fl))
  BY <1>1, AppendOf
<1>5. \A m \in Node : Record(sl, n, f)[m] \in Seq(FitFrame(fl))
  BY <1>1, <1>3, <1>4
<1> QED
  BY <1>5 DEF KindsFit

\* The same failed writes and pending opens, or fewer of these.
LEMMA SameFits ==
  ASSUME NEW st, NEW st2, NEW fl, NodeFits(st, fl), st2.resend = st.resend,
         \A p \in Node : st2.bufs[p] \in {st.bufs[p], None}
  PROVE  NodeFits(st2, fl)
BY DEF NodeFits

\* A write that fails leaves the payload without its kind.
LEMMA FailedFits ==
  ASSUME faults \in Nat, NEW sent \in BOOLEAN, Write(sent), ~sent, NEW body
  PROVE  Fitting("Traffic", body, faults')
<1>1. "write" \in Faults /\ faults' = faults + 1
  BY DEF Write, Fault
<1>2. faults' > 0
  BY <1>1
<1> QED
  BY <1>1, <1>2 DEF Fitting

LEMMA SealFits ==
  ASSUME faults \in Nat, NEW sent \in BOOLEAN, Write(sent), now \in Nat,
         NEW st \in StateType, NEW p \in Node, st.sessions[p] \in SessionType, NodeFits(st, faults'),
         NEW kind \in Kind, NEW body \in Body, NEW key \in Key, Fitting(kind, body, faults')
  PROVE  /\ NodeFits(SendInner(st, p, body, sent, key), faults')
         /\ Sealed(SendInner(st, p, body, sent, key).sessions[p], kind, body) \in FitFrame(faults')
<1> DEFINE fin == SendInner(st, p, body, sent, key)
           f == Sealed(fin.sessions[p], kind, body)
           x == [dest |-> p, body |-> body]
<1>1. /\ fin.sessions[p] \in SessionType /\ fin.bufs = st.bufs
      /\ fin.resend = Resent(st, p, body, sent)
  BY SendInnerType
<1> HIDE DEF fin
<1>2. st.resend \in Seq(FitParcel(faults'))
  BY DEF NodeFits
<1>3. Resent(st, p, body, sent) \in Seq(FitParcel(faults'))
  <2>1. CASE sent
    BY <1>2, <2>1 DEF Resent
  <2>2. CASE ~sent
    <3>1. Fitting("Traffic", body, faults')
      BY <2>2, FailedFits
    <3>2. x \in FitParcel(faults')
      BY <3>1 DEF FitParcel, Parcel
    <3>3. Resent(st, p, body, sent) = Append(st.resend, x)
      BY <2>2 DEF Resent
    <3> HIDE DEF x
    <3> QED
      BY <1>2, <3>2, <3>3, AppendOf
  <2> QED
    BY <2>1, <2>2
<1>4. NodeFits(fin, faults')
  BY <1>1, <1>3 DEF NodeFits
<1>5. f \in TrafficType
  BY <1>1, SealedType
<1>6. f.kind = kind /\ f.body = body
  BY DEF Sealed
<1> HIDE DEF f
<1>7. f \in FitFrame(faults')
  BY <1>5, <1>6 DEF FitFrame
<1> QED
  BY <1>4, <1>7 DEF f, fin

Kinds == KindsFit(node, outgoing, taken, seals, faults)

\* A write leaves at most one more thing gone wrong.
LEMMA WriteMore ==
  ASSUME Rest, Kinds, NEW sent \in BOOLEAN, Write(sent)
  PROVE  /\ faults \in Nat /\ faults' \in 0 .. MaxFaults
         /\ KindsFit(node, outgoing, taken, seals, faults')
         /\ \A n \in Node : NodeFits(node[n], faults')
<1>1. faults \in 0 .. MaxFaults
  BY DEF Rest
<1>2. faults' \in 0 .. MaxFaults /\ faults <= faults'
  BY <1>1, WriteType
<1>3. faults \in Nat /\ faults' \in Nat
  BY <1>1, <1>2, BoundAssumption
<1>4. KindsFit(node, outgoing, taken, seals, faults')
  BY <1>2, <1>3, KindsMore DEF Kinds
<1> QED
  BY <1>2, <1>3, <1>4 DEF KindsFit

\* A step of n without a seal.
LEMMA StepFits ==
  ASSUME Here, Rest, Kinds, NEW sent \in BOOLEAN, Write(sent), NEW n \in Node, NEW p,
         NEW st \in StateType, NEW rest, NEW frames, NEW used,
         Step(n, p, st, rest, frames, used), NodeFits(st, faults'), seals' = seals,
         outgoing' = outgoing, taken' = taken
  PROVE  Kinds'
<1>1. KindsFit(node, outgoing, taken, seals, faults')
  BY WriteMore
<1>2. node' = Put(node, n, st)
  BY StepParts
<1>3. node \in [Node -> StateType]
  BY HereParts
<1>4. KindsFit(Put(node, n, st), outgoing, taken, seals, faults')
  BY <1>1, <1>3, PutFits
<1> QED
  BY <1>2, <1>4 DEF Kinds

\* And one with a seal, which changes the outbox at most by taking from it.
LEMMA SealStepFits ==
  ASSUME Here, Rest, Kinds, now \in Nat, NEW sent \in BOOLEAN, Write(sent), NEW n \in Node, NEW p \in Node,
         NEW st \in StateType, st.sessions[p] # None, NodeFits(st, faults'),
         NEW kind \in Kind, NEW body \in Body, NEW key \in Key, Fitting(kind, body, faults'),
         NEW rest, NEW frames, NEW used,
         Step(n, p, SendInner(st, p, body, sent, key), rest, frames, used),
         seals' = Record(seals, n, Sealed(SendInner(st, p, body, sent, key).sessions[p], kind, body))
  PROVE  KindsFit(node', outgoing, taken, seals', faults')
<1> DEFINE fin == SendInner(st, p, body, sent, key)
           f == Sealed(fin.sessions[p], kind, body)
<1>1. KindsFit(node, outgoing, taken, seals, faults') /\ faults \in Nat
  BY WriteMore
<1>2. node' = Put(node, n, fin)
  BY StepParts
<1>3. node \in [Node -> StateType] /\ seals \in [Node -> Seq(TrafficType)]
  BY HereParts
<1>4. st.sessions[p] \in SessionType
  BY StateUpdates
<1>5. fin \in StateType
  BY <1>4, SendInnerType
<1>6. NodeFits(fin, faults') /\ f \in FitFrame(faults')
  BY <1>1, <1>4, SealFits
<1>7. seals' = Record(seals, n, f)
  OBVIOUS
<1> HIDE DEF fin, f
<1>8. KindsFit(Put(node, n, fin), outgoing, taken, seals, faults')
  BY <1>1, <1>3, <1>5, <1>6, PutFits
<1>9. KindsFit(Put(node, n, fin), outgoing, taken, Record(seals, n, f), faults')
  BY <1>3, <1>6, <1>8, RecordFits
<1> QED
  BY <1>2, <1>7, <1>9

LEMMA SendFits ==
  ASSUME Here, Rest, Kinds, now \in Nat, NEW sent \in BOOLEAN, Write(sent), NEW n \in Node, NEW p \in Node,
         NEW kind \in Kind, NEW body \in Body, Fitting(kind, body, faults'),
         SessionSend(n, p, kind, body, sent)
  PROVE  KindsFit(node', outgoing, taken, seals', faults')
<1>1. /\ node \in [Node -> StateType] /\ minted \in [Node -> Nat] /\ node[n] \in StateType
  BY HereParts
<1>2. KindsFit(node, outgoing, taken, seals, faults') /\ NodeFits(node[n], faults')
  BY WriteMore
<1>3. CASE SendSealed(n, p, kind, body, sent)
  <2> DEFINE key == Fresh(n, 1)
             st == node[n]
  <2>1. /\ st.sessions[p] # None
        /\ Step(n, p, SendInner(st, p, body, sent, key), chan[p][n],
                If(sent, Sealed(SendInner(st, p, body, sent, key).sessions[p], kind, body)), 1)
        /\ seals' = Record(seals, n, Sealed(SendInner(st, p, body, sent, key).sessions[p], kind, body))
    BY <1>3 DEF SendSealed
  <2>2. key \in Key
    BY <1>1, FreshType
  <2> HIDE DEF key, st
  <2>3. st \in StateType /\ NodeFits(st, faults')
    BY <1>1, <1>2 DEF st
  <2> QED
    BY <2>1, <2>2, <2>3, SealStepFits
<1>4. CASE SendBuffered(n, p, kind, body, sent)
  <2> DEFINE seq == NextInitSeq(node[n])
             b == Queued(Pending(n, p, seq), kind, body)
             st == WithBuf(node[n], p, seq, b)
  <2>1. /\ seals' = seals
        /\ Step(n, p, st, chan[p][n],
                If(sent, [ type |-> "Init", current |-> b.send_pub, next |-> b.next_pub,
                           key_seq |-> 0, seq |-> b.seq ]), 2)
    BY <1>4 DEF SendBuffered, WithBuf
  <2>2. node' = Put(node, n, st)
    BY <2>1, StepParts
  <2>3. seq \in Nat \ {0}
    BY <1>1, NextInitSeqType
  <2> HIDE DEF seq
  <2>4. b \in BufType /\ b.kind = kind /\ b.body = body
    BY <1>1, <2>3, QueuedKeys
  <2> HIDE DEF b
  <2>5. /\ st \in StateType /\ SaveFor(node[n], st, p) /\ st.bufs[p] = b /\ st.resend = node[n].resend
    BY <1>1, <2>3, <2>4, SeqAndBuf
  <2> HIDE DEF st
  <2>6. NodeFits(st, faults')
    <3>1. ASSUME NEW q \in Node, st.bufs[q] # None
          PROVE  Fitting(st.bufs[q].kind, st.bufs[q].body, faults')
      <4>1. CASE q = p
        BY <2>4, <2>5, <4>1
      <4>2. CASE q # p
        <5>1. st.bufs[q] = node[n].bufs[q]
          BY <2>5, <4>2 DEF SaveFor
        <5> QED
          BY <1>2, <3>1, <5>1 DEF NodeFits
      <4> QED
        BY <4>1, <4>2
    <3> QED
      BY <1>2, <2>5, <3>1 DEF NodeFits
  <2>7. KindsFit(Put(node, n, st), outgoing, taken, seals, faults')
    BY <1>1, <1>2, <2>5, <2>6, PutFits
  <2> QED
    BY <2>1, <2>2, <2>7
<1> QED
  BY <1>3, <1>4 DEF SessionSend

\* What the handlers leave alone.
LEMMA FieldsKept ==
  ASSUME NEW st \in StateType, NEW p \in Node, NEW s, NEW seq
  PROVE  /\ WithSession(st, p, s, seq).bufs = st.bufs /\ WithSession(st, p, s, seq).resend = st.resend
         /\ WithOnly(st, p, s).bufs = st.bufs /\ WithOnly(st, p, s).resend = st.resend
         /\ WithSeq(st, seq).bufs = st.bufs /\ WithSeq(st, seq).resend = st.resend
BY DEF StateType, WithSession, WithOnly, WithSeq

LEMMA RestKeeps ==
  ASSUME Rest, NEW sent \in BOOLEAN, Write(sent), UNCHANGED <<now, outgoing, taken, sends>>
  PROVE  Rest'
<1>1. faults \in 0 .. MaxFaults
  BY DEF Rest
<1>2. faults' \in 0 .. MaxFaults
  BY <1>1, WriteType
<1> QED
  BY <1>2 DEF Rest

\* A step of n that leaves its pending opens and failed writes alone, or drops
\* one of the former.
LEMMA PlainFits ==
  ASSUME Here, Rest, Kinds, NEW sent \in BOOLEAN, Write(sent), NEW n \in Node, NEW st,
         node' = Put(node, n, st), st.resend = node[n].resend,
         \A p \in Node : st.bufs[p] \in {node[n].bufs[p], None},
         seals' = seals, UNCHANGED <<now, outgoing, taken, sends>>
  PROVE  Rest' /\ Kinds'
<1>1. /\ KindsFit(node, outgoing, taken, seals, faults')
      /\ \A m \in Node : NodeFits(node[m], faults')
  BY WriteMore
<1>2. node \in [Node -> StateType]
  BY HereParts
<1>3. node'[n] = st /\ \A m \in Node : m # n => node'[m] = node[m]
  BY <1>2 DEF Put
<1>4. NodeFits(st, faults')
  BY <1>1, SameFits
<1>5. \A m \in Node : NodeFits(node'[m], faults')
  BY <1>1, <1>3, <1>4
<1>6. Kinds'
  BY <1>1, <1>5 DEF Kinds, KindsFit
<1> QED
  BY <1>6, RestKeeps

LEMMA WriteTrue ==
  ASSUME faults' = faults
  PROVE  TRUE \in BOOLEAN /\ Write(TRUE)
BY DEF Write

LEMMA OpenSessionFits ==
  ASSUME Here, Rest, Kinds, NEW n \in Node, NEW p \in Node, OpenSession(n, p)
  PROVE  Rest' /\ Kinds'
<1>1. node[n] \in StateType
  BY HereParts
<1>2. PICK sent \in BOOLEAN, seq \in {NextInitSeq(node[n])} :
      \E s \in {NewSession(n, Head(chan[p][n]), None)} :
        /\ Write(sent)
        /\ Step(n, p, WithSession(node[n], p, s, seq), Tail(chan[p][n]), If(sent, MakeInit("Ack", s, seq)), 4)
  BY DEF OpenSession, WithSession
<1>3. PICK s : /\ Write(sent)
               /\ Step(n, p, WithSession(node[n], p, s, seq), Tail(chan[p][n]),
                       If(sent, MakeInit("Ack", s, seq)), 4)
  BY <1>2
<1> DEFINE st == WithSession(node[n], p, s, seq)
<1>4. node' = Put(node, n, st)
  BY <1>3, StepParts
<1>5. st.bufs = node[n].bufs /\ st.resend = node[n].resend
  BY <1>1, FieldsKept
<1>6. seals' = seals /\ UNCHANGED <<now, outgoing, taken, sends>>
  BY DEF OpenSession
<1> HIDE DEF st
<1> QED
  BY <1>3, <1>4, <1>5, <1>6, PlainFits

LEMMA HandleAckFits ==
  ASSUME Here, Rest, Kinds, NEW n \in Node, NEW p \in Node, HandleAck(n, p)
  PROVE  Rest' /\ Kinds'
<1>1. node[n] \in StateType
  BY HereParts
<1>2. PICK u : Step(n, p, WithOnly(node[n], p, u), Tail(chan[p][n]), <<>>, 1)
  BY DEF HandleAck, WithOnly
<1> DEFINE st == WithOnly(node[n], p, u)
<1>3. node' = Put(node, n, st)
  BY <1>2, StepParts
<1>4. st.bufs = node[n].bufs /\ st.resend = node[n].resend
  BY <1>1, FieldsKept, ZenonT(60)
<1>5. seals' = seals /\ UNCHANGED <<now, outgoing, taken, sends>> /\ faults' = faults
  BY DEF HandleAck
<1> HIDE DEF st
<1>6. TRUE \in BOOLEAN /\ Write(TRUE)
  BY <1>5, WriteTrue
<1> QED
  BY <1>3, <1>4, <1>5, <1>6, PlainFits

LEMMA HandleInitFits ==
  ASSUME Here, Rest, Kinds, NEW n \in Node, NEW p \in Node, HandleInit(n, p)
  PROVE  Rest' /\ Kinds'
<1>1. node[n] \in StateType
  BY HereParts
<1>2. PICK sent \in BOOLEAN : \E u, seq, frames, used :
        Write(sent) /\ Step(n, p, WithSession(node[n], p, u, seq), Tail(chan[p][n]), frames, used)
  <2> DEFINE s == [node[n].sessions[p] EXCEPT !.active = now]
             m == Head(chan[p][n])
             seq == NextInitSeq(node[n])
             t == ApplyUpdate(s, m, Fresh(n, 1))
  <2>1. \/ /\ Step(n, p, WithSession(node[n], p, s, seq), Tail(chan[p][n]), <<>>, 0)
           /\ faults' = faults
        \/ \E sent \in BOOLEAN :
             /\ Write(sent)
             /\ Step(n, p, WithSession(node[n], p, t, seq), Tail(chan[p][n]),
                     If(sent, MakeInit("Ack", t, seq)), 1)
    BY DEF HandleInit, WithSession
  <2> HIDE DEF s, m, seq, t
  <2> QED
    BY <2>1, WriteTrue
<1>3. PICK u, seq, frames, used :
        Write(sent) /\ Step(n, p, WithSession(node[n], p, u, seq), Tail(chan[p][n]), frames, used)
  BY <1>2
<1> DEFINE st == WithSession(node[n], p, u, seq)
<1>4. node' = Put(node, n, st)
  BY <1>3, StepParts
<1>5. st.bufs = node[n].bufs /\ st.resend = node[n].resend
  BY <1>1, FieldsKept
<1>6. seals' = seals /\ UNCHANGED <<now, outgoing, taken, sends>>
  BY DEF HandleInit
<1> HIDE DEF st
<1> QED
  BY <1>3, <1>4, <1>5, <1>6, PlainFits

LEMMA RefusedFits ==
  ASSUME Here, Rest, Kinds, NEW n \in Node, NEW p \in Node, RefuseTraffic(n, p) \/ UnknownTraffic(n, p)
  PROVE  Rest' /\ Kinds'
<1>1. node[n] \in StateType
  BY HereParts
<1>2. PICK sent \in BOOLEAN : \E seq, frames, used :
        Write(sent) /\ Step(n, p, WithSeq(node[n], seq), Tail(chan[p][n]), frames, used)
  <2>1. CASE RefuseTraffic(n, p)
    BY <2>1 DEF RefuseTraffic, WithSeq
  <2>2. CASE UnknownTraffic(n, p)
    BY <2>2 DEF UnknownTraffic, WithSeq
  <2> QED
    BY <2>1, <2>2
<1>3. PICK seq, frames, used :
        Write(sent) /\ Step(n, p, WithSeq(node[n], seq), Tail(chan[p][n]), frames, used)
  BY <1>2
<1> DEFINE st == WithSeq(node[n], seq)
<1>4. node' = Put(node, n, st)
  BY <1>3, StepParts
<1>5. st.bufs = node[n].bufs /\ st.resend = node[n].resend
  BY <1>1, FieldsKept
<1>6. seals' = seals /\ UNCHANGED <<now, outgoing, taken, sends>>
  BY DEF RefuseTraffic, UnknownTraffic
<1> HIDE DEF st
<1> QED
  BY <1>3, <1>4, <1>5, <1>6, PlainFits

LEMMA FlushSessionFits ==
  ASSUME Here, Rest, Kinds, now \in Nat, NEW n \in Node, NEW p \in Node, FlushSession(n, p)
  PROVE  Rest' /\ Kinds'
<1> DEFINE m == Head(chan[p][n])
           seq == NextInitSeq(node[n])
           buf == node[n].bufs[p]
           s == NewSession(n, m, buf)
           st == WithoutBuf(node[n], p, s, seq)
           ack == MakeInit("Ack", s, seq)
<1>1. /\ Arrives(n, p, {"Init", "Ack"}) /\ buf # None
      /\ \/ Step(n, p, st, Tail(chan[p][n]), <<>>, 4) /\ seals' = seals /\ Write(FALSE)
         \/ \E sent \in BOOLEAN : FlushWith(n, p, buf, st, ack, sent)
  BY FlushParts
<1>2. UNCHANGED <<now, outgoing, taken, sends>>
  BY DEF FlushSession
<1>3. minted \in [Node -> Nat] /\ node[n] \in StateType
  BY HereParts
<1>4. buf \in BufType /\ buf.kind \in Kind /\ buf.body \in Body
  <2>1. buf \in BufType \cup {None}
    BY <1>3, StateUpdates
  <2> QED
    BY <1>1, <2>1 DEF BufType
<1>5. seq \in Nat
  BY <1>3, NextInitSeqType
<1>6. s \in SessionType
  <2>1. m \in InitType
    BY <1>1, ReadOffer DEF Offer
  <2>2. buf \in BufType \cup {None}
    BY <1>4
  <2> HIDE DEF m, buf
  <2> QED
    BY <1>3, <2>1, <2>2, NewSessionType
<1>7. /\ st \in StateType /\ SaveFor(node[n], st, p) /\ st.bufs[p] = None /\ st.sessions[p] = s
      /\ st.resend = node[n].resend
  <2>1. node[n] \in StateType /\ seq \in Nat /\ s \in SessionType \cup {None}
    BY <1>3, <1>5, <1>6
  <2> HIDE DEF s, seq, m, buf
  <2> QED
    BY <2>1, SessionBufSeq
<1> HIDE DEF st, s, ack, seq, m
<1>8. \A q \in Node : st.bufs[q] \in {node[n].bufs[q], None}
  BY <1>7 DEF SaveFor
<1>9. CASE Step(n, p, st, Tail(chan[p][n]), <<>>, 4) /\ seals' = seals /\ Write(FALSE)
  <2>1. node' = Put(node, n, st)
    BY <1>9, StepParts
  <2>2. FALSE \in BOOLEAN /\ Write(FALSE)
    BY <1>9
  <2> QED
    BY <1>2, <1>7, <1>8, <1>9, <2>1, <2>2, PlainFits
<1>10. ASSUME NEW sent \in BOOLEAN, FlushWith(n, p, buf, st, ack, sent)
       PROVE  Rest' /\ Kinds'
  <2> DEFINE kind == buf.kind
             body == buf.body
             key == Fresh(n, 5)
  <2>1. /\ Write(sent) /\ st.sessions[p] # None /\ key \in Key
        /\ Step(n, p, SendInner(st, p, body, sent, key), Tail(chan[p][n]),
                <<ack>> \o If(sent, Sealed(SendInner(st, p, body, sent, key).sessions[p], kind, body)), 5)
        /\ seals' = Record(seals, n, Sealed(SendInner(st, p, body, sent, key).sessions[p], kind, body))
    <3>1. key \in Key
      BY <1>3, FreshType
    <3>2. st.sessions[p] # None
      BY <1>6, <1>7, NoneAssumption
    <3> QED
      BY <1>10, <3>1, <3>2 DEF FlushWith
  <2>2. NodeFits(node[n], faults')
    BY <2>1, WriteMore
  <2>3. NodeFits(st, faults') /\ Fitting(kind, body, faults')
    <3>1. NodeFits(st, faults')
      BY <1>7, <1>8, <2>2, SameFits
    <3> QED
      BY <1>1, <2>2, <3>1 DEF NodeFits
  <2>4. kind \in Kind /\ body \in Body
    BY <1>4
  <2> HIDE DEF kind, body, key
  <2>5. KindsFit(node', outgoing, taken, seals', faults')
    BY <1>7, <2>1, <2>3, <2>4, SealStepFits
  <2>6. Rest'
    BY <1>2, <2>1, RestKeeps
  <2> QED
    BY <1>2, <2>5, <2>6 DEF Kinds
<1> QED
  BY <1>1, <1>9, <1>10

LEMMA OpenTrafficFits ==
  ASSUME Here, Rest, Kinds, now \in Nat, NEW n \in Node, NEW p \in Node, OpenTraffic(n, p)
  PROVE  Rest' /\ Kinds'
<1> DEFINE m == Head(chan[p][n])
           r == node[n].sessions[p]
           seq == NextInitSeq(node[n])
<1>1. Arrives(n, p, {"Traffic"}) /\ r # None
  BY OpenTrafficParts
<1>2. PICK o \in Openings(r) :
         /\ Fits(o, m) /\ opened' = Record(opened, n, Opening(p, r, m))
         /\ OpenEnds(n, p, OpenState(n, p, o))
  BY OpenTrafficParts
<1> DEFINE v == Lively(Decrypt(r, o, m, Fresh(n, 1)))
           st == WithSession(node[n], p, v, seq)
<1>3. /\ node \in [Node -> StateType] /\ minted \in [Node -> Nat] /\ node[n] \in StateType
  BY HereParts
<1>4. chan[p][n] # <<>> /\ m \in TrafficType /\ m \in ToSet(seals[p])
  BY <1>1, ReadBox
<1>5. seq \in Nat
  BY <1>3, NextInitSeqType
<1>6. Reads(node, seals, n, p, o, m)
  BY <1>1, <1>2, <1>4 DEF Reads
<1>7. Answer(m) \in Body /\ Answer(m).what = "Res"
  BY <1>4 DEF Answer, Body, TrafficType
<1>8. \/ Step(n, p, st, Tail(chan[p][n]), <<>>, 1) /\ seals' = seals /\ faults' = faults
      \/ \E sent \in BOOLEAN : OpenWith(n, p, m, st, sent)
  <2>1. OpenState(n, p, o) = st
    BY DEF OpenState
  <2> HIDE DEF st
  <2>2. OpenEnds(n, p, st)
    BY <1>2, <2>1
  <2> QED
    BY <2>2 DEF OpenEnds
<1>9. UNCHANGED <<now, outgoing, taken, sends>>
  BY DEF OpenTraffic
<1> HIDE DEF seq, m
<1>10. st \in StateType /\ v # None
  BY <1>5, <1>6, DecryptKeeps
<1> HIDE DEF v
<1>11. st.sessions[p] = v /\ st.bufs = node[n].bufs /\ st.resend = node[n].resend
  <2>1. st.sessions[p] = v
    BY <1>3, <1>10 DEF StateType, WithSession
  <2> QED
    BY <1>3, <2>1, FieldsKept
<1> HIDE DEF st
<1>12. \A q \in Node : st.bufs[q] \in {node[n].bufs[q], None}
  BY <1>11
<1>13. CASE Step(n, p, st, Tail(chan[p][n]), <<>>, 1) /\ seals' = seals /\ faults' = faults
  <2>1. node' = Put(node, n, st)
    BY <1>13, StepParts
  <2>2. TRUE \in BOOLEAN /\ Write(TRUE)
    BY <1>13, WriteTrue
  <2> QED
    BY <1>9, <1>11, <1>12, <1>13, <2>1, <2>2, PlainFits
<1>14. ASSUME NEW sent \in BOOLEAN, OpenWith(n, p, m, st, sent)
       PROVE  Rest' /\ Kinds'
  <2> DEFINE a == Answer(m)
             key == Fresh(n, 2)
  <2>1. /\ Write(sent)
        /\ Step(n, p, SendInner(st, p, a, sent, key), Tail(chan[p][n]),
                If(sent, Sealed(SendInner(st, p, a, sent, key).sessions[p], "Proto", a)), 2)
        /\ seals' = Record(seals, n, Sealed(SendInner(st, p, a, sent, key).sessions[p], "Proto", a))
    BY <1>14 DEF OpenWith
  <2>2. key \in Key /\ "Proto" \in Kind /\ st.sessions[p] # None
    BY <1>3, <1>10, <1>11, FreshType DEF Kind
  <2>3. NodeFits(node[n], faults')
    BY <2>1, WriteMore
  <2>4. NodeFits(st, faults')
    BY <1>11, <1>12, <2>3, SameFits
  <2>5. Fitting("Proto", a, faults')
    BY <1>7 DEF Fitting
  <2>6. a \in Body
    BY <1>7
  <2> HIDE DEF a, key
  <2>7. KindsFit(node', outgoing, taken, seals', faults')
    BY <1>10, <2>1, <2>2, <2>4, <2>5, <2>6, SealStepFits
  <2>8. Rest'
    BY <1>9, <2>1, RestKeeps
  <2> QED
    BY <1>9, <2>7, <2>8 DEF Kinds
<1> QED
  BY <1>8, <1>13, <1>14

LEMMA ReceiveFits ==
  ASSUME Here, Rest, Kinds, now \in Nat, NEW n \in Node, NEW p \in Node, Receive(n, p)
  PROVE  Rest' /\ Kinds'
BY OpenSessionFits, FlushSessionFits, HandleAckFits, HandleInitFits, OpenTrafficFits,
   RefusedFits DEF Receive

\* The application's payloads.
LEMMA SubmittedType ==
  ASSUME Rest, NEW n \in Node, NEW p \in Node, NEW what \in {"Data", "Req"}, Submitted(n, p, what)
  PROVE  /\ sends' \in Seq([from : Node, to : Node, what : {"Data", "Req"}])
         /\ NewBody(what) \in Body /\ NewBody(what).what = what
<1> DEFINE S == [from : Node, to : Node, what : {"Data", "Req"}]
           x == [from |-> n, to |-> p, what |-> what]
<1>1. sends \in Seq(S) /\ x \in S /\ sends' = Append(sends, x)
  BY DEF Rest, Submitted
<1>2. NewBody(what) \in Body /\ NewBody(what).what = what
  <2>1. Len(sends) \in Nat
    BY <1>1
  <2> QED
    BY <2>1 DEF NewBody, Body
<1> HIDE DEF S, x
<1>3. sends' \in Seq(S)
  BY <1>1, AppendOf
<1> QED
  BY <1>2, <1>3 DEF S

LEMMA SubmitFits ==
  ASSUME Rest, Kinds, NEW n \in Node, NEW p \in Node, Submit(n, p)
  PROVE  Rest' /\ Kinds'
<1> DEFINE x == [dest |-> p, body |-> NewBody("Data")]
<1>1. /\ Submitted(n, p, "Data") /\ outgoing' = [outgoing EXCEPT ![n] = Append(outgoing[n], x)]
      /\ UNCHANGED <<now, node, taken, chan, minted, seals, opened, faults>>
  BY DEF Submit
<1>2. /\ sends' \in Seq([from : Node, to : Node, what : {"Data", "Req"}])
      /\ NewBody("Data") \in Body /\ NewBody("Data").what = "Data"
  BY <1>1, SubmittedType
<1>3. x \in FitParcel(faults) /\ x \in Parcel
  BY <1>2 DEF FitParcel, Parcel, Fitting
<1> HIDE DEF x
<1>4. outgoing \in [Node -> Seq(Parcel)] /\ \A m \in Node : outgoing[m] \in Seq(FitParcel(faults))
  BY DEF Rest, Kinds, KindsFit
<1>5. Append(outgoing[n], x) \in Seq(Parcel) /\ Append(outgoing[n], x) \in Seq(FitParcel(faults))
  BY <1>3, <1>4, AppendOf
<1>6. outgoing' \in [Node -> Seq(Parcel)] /\ \A m \in Node : outgoing'[m] \in Seq(FitParcel(faults))
  BY <1>1, <1>4, <1>5
<1>7. Rest'
  BY <1>1, <1>2, <1>6 DEF Rest
<1>8. Kinds'
  BY <1>1, <1>6 DEF Kinds, KindsFit
<1> QED
  BY <1>7, <1>8

LEMMA RequestFits ==
  ASSUME Here, Rest, Kinds, now \in Nat, NEW n \in Node, NEW p \in Node, RequestNodeinfo(n, p)
  PROVE  Here' /\ Rest' /\ Kinds'
<1> DEFINE body == NewBody("Req")
<1>1. PICK sent \in BOOLEAN : Write(sent) /\ SessionSend(n, p, "Proto", body, sent)
  BY DEF RequestNodeinfo
<1>2. Submitted(n, p, "Req") /\ UNCHANGED <<now, outgoing, taken, opened>>
  BY DEF RequestNodeinfo
<1>3. /\ sends' \in Seq([from : Node, to : Node, what : {"Data", "Req"}])
      /\ body \in Body /\ body.what = "Req"
  BY <1>2, SubmittedType
<1> HIDE DEF body
<1>4. "Proto" \in Kind /\ Fitting("Proto", body, faults')
  BY <1>3 DEF Kind, Fitting
<1>5. Here'
  BY <1>1, <1>2, <1>3, <1>4, SessionSendKeeps
<1>6. KindsFit(node', outgoing, taken, seals', faults')
  BY <1>1, <1>3, <1>4, SendFits
<1>7. faults' \in 0 .. MaxFaults
  BY <1>1, WriteMore
<1>8. Rest'
  BY <1>2, <1>3, <1>7 DEF Rest
<1> QED
  BY <1>2, <1>5, <1>6, <1>8 DEF Kinds

LEMMA SpliceFits ==
  ASSUME Here, Rest, Kinds, NEW n \in Node, Splice(n)
  PROVE  Rest' /\ Kinds'
<1>1. /\ outgoing' = [outgoing EXCEPT ![n] = node[n].resend \o outgoing[n]]
      /\ node' = [node EXCEPT ![n].resend = <<>>]
      /\ UNCHANGED <<now, taken, chan, minted, seals, opened, sends, faults>>
  BY DEF Splice
<1>2. /\ outgoing \in [Node -> Seq(Parcel)] /\ node \in [Node -> StateType]
      /\ \A m \in Node : outgoing[m] \in Seq(FitParcel(faults)) /\ NodeFits(node[m], faults)
  BY HereParts DEF Rest, Kinds, KindsFit
<1>3. node[n].resend \in Seq(FitParcel(faults)) /\ node[n].resend \in Seq(Parcel)
  BY <1>2 DEF NodeFits, StateType
<1> DEFINE more == node[n].resend \o outgoing[n]
<1>4. more \in Seq(Parcel) /\ more \in Seq(FitParcel(faults))
  BY <1>2, <1>3, ConcatOf
<1> HIDE DEF more
<1>5. outgoing' = [outgoing EXCEPT ![n] = more]
  BY <1>1 DEF more
<1>6. outgoing' \in [Node -> Seq(Parcel)] /\ \A m \in Node : outgoing'[m] \in Seq(FitParcel(faults))
  BY <1>2, <1>4, <1>5
<1>7. \A m \in Node : NodeFits(node'[m], faults)
  <2>1. \A m \in Node : m # n => node'[m] = node[m]
    BY <1>1, <1>2
  <2>2. node'[n].resend = <<>> /\ node'[n].bufs = node[n].bufs
    BY <1>1, <1>2 DEF StateType
  <2>3. <<>> \in Seq(FitParcel(faults))
    BY NothingWritten
  <2>4. NodeFits(node'[n], faults)
    BY <1>2, <2>2, <2>3 DEF NodeFits
  <2> QED
    BY <1>2, <2>1, <2>4
<1>8. Rest'
  BY <1>1, <1>6 DEF Rest
<1>9. Kinds'
  BY <1>1, <1>6, <1>7 DEF Kinds, KindsFit
<1> QED
  BY <1>8, <1>9

LEMMA TakeFits ==
  ASSUME Rest, Kinds, NEW n \in Node, Take(n)
  PROVE  Rest' /\ Kinds'
<1>1. /\ taken' = [taken EXCEPT ![n] = outgoing[n]] /\ outgoing' = [outgoing EXCEPT ![n] = <<>>]
      /\ UNCHANGED <<now, node, chan, minted, seals, opened, sends, faults>>
  BY DEF Take
<1>2. /\ outgoing \in [Node -> Seq(Parcel)] /\ taken \in [Node -> Seq(Parcel)]
      /\ \A m \in Node : outgoing[m] \in Seq(FitParcel(faults)) /\ taken[m] \in Seq(FitParcel(faults))
  BY DEF Rest, Kinds, KindsFit
<1>3. <<>> \in Seq(FitParcel(faults)) /\ <<>> \in Seq(Parcel)
  BY NothingWritten
<1>4. /\ outgoing' \in [Node -> Seq(Parcel)] /\ taken' \in [Node -> Seq(Parcel)]
      /\ \A m \in Node : outgoing'[m] \in Seq(FitParcel(faults)) /\ taken'[m] \in Seq(FitParcel(faults))
  BY <1>1, <1>2, <1>3
<1>5. Rest'
  BY <1>1, <1>4 DEF Rest
<1>6. Kinds'
  BY <1>1, <1>4 DEF Kinds, KindsFit
<1> QED
  BY <1>5, <1>6

LEMMA SendNextFits ==
  ASSUME Here, Rest, Kinds, now \in Nat, NEW n \in Node, SendNext(n)
  PROVE  Here' /\ Rest' /\ Kinds'
<1> DEFINE x == Head(taken[n])
<1>1. PICK sent \in BOOLEAN :
        /\ Write(sent) /\ SessionSend(n, x.dest, "Traffic", x.body, sent)
        /\ taken' = [taken EXCEPT ![n] = IF sent THEN Tail(taken[n]) ELSE <<>>]
  BY DEF SendNext
<1>2. taken[n] # <<>> /\ UNCHANGED <<now, outgoing, opened, sends>>
  BY DEF SendNext
<1>3. KindsFit(node, outgoing, taken, seals, faults') /\ faults' \in 0 .. MaxFaults
  BY <1>1, WriteMore
<1>4. taken \in [Node -> Seq(Parcel)] /\ \A m \in Node : taken[m] \in Seq(FitParcel(faults'))
  BY <1>3 DEF Rest, KindsFit
<1>5. Tail(taken[n]) \in Seq(FitParcel(faults')) /\ x \in FitParcel(faults')
  BY <1>2, <1>4, TailOf
<1>6. Tail(taken[n]) \in Seq(Parcel)
  BY <1>2, <1>4, TailOf
<1>7. x.dest \in Node /\ x.body \in Body /\ Fitting("Traffic", x.body, faults') /\ "Traffic" \in Kind
  BY <1>5 DEF FitParcel, Parcel, Kind
<1> DEFINE tl == IF sent THEN Tail(taken[n]) ELSE <<>>
<1>8. tl \in Seq(Parcel) /\ tl \in Seq(FitParcel(faults'))
  BY <1>5, <1>6, NothingWritten
<1> DEFINE dest == x.dest
           body == x.body
<1>9. dest \in Node /\ body \in Body /\ SessionSend(n, dest, "Traffic", body, sent)
  BY <1>1, <1>7
<1>10. taken' = [taken EXCEPT ![n] = tl] /\ Fitting("Traffic", body, faults')
  BY <1>1, <1>7
<1> HIDE DEF tl, dest, body, x
<1>11. Here'
  BY <1>2, <1>7, <1>9, SessionSendKeeps
<1>12. KindsFit(node', outgoing, taken, seals', faults')
  BY <1>1, <1>7, <1>9, <1>10, SendFits
<1>13. taken' \in [Node -> Seq(Parcel)] /\ \A m \in Node : taken'[m] \in Seq(FitParcel(faults'))
  BY <1>4, <1>8, <1>10
<1>14. Rest'
  BY <1>2, <1>3, <1>13 DEF Rest
<1>15. Kinds'
  BY <1>2, <1>12, <1>13 DEF Kinds, KindsFit
<1> QED
  BY <1>11, <1>14, <1>15

LEMMA TickFits ==
  ASSUME Rest, Kinds, Tick
  PROVE  Rest' /\ Kinds'
<1>1. now' \in 0 .. MaxTime
  BY BoundAssumption DEF Rest, Tick
<1> QED
  BY <1>1 DEF Rest, Tick, Kinds

LEMMA ExpireFits ==
  ASSUME Here, Rest, Kinds, NEW n \in Node, ExpireEphemeral(n)
  PROVE  Rest' /\ Kinds'
<1>1. node \in [Node -> StateType]
  BY HereParts
<1>2. /\ node' = Put(node, n, Live(n))
      /\ UNCHANGED <<now, outgoing, taken, seals, sends, faults>>
  BY <1>1, ExpireParts
<1>3. Dropped(node[n], Live(n)) /\ Live(n).resend = node[n].resend
  BY <1>1, LiveType
<1>4. \A p \in Node : Live(n).bufs[p] \in {node[n].bufs[p], None}
  BY <1>3 DEF Dropped
<1>5. TRUE \in BOOLEAN /\ Write(TRUE)
  BY <1>2, WriteTrue
<1> QED
  BY <1>2, <1>3, <1>4, <1>5, PlainFits

LEMMA FaultMore ==
  ASSUME Rest, Kinds, NEW kind, Fault(kind)
  PROVE  faults' \in 0 .. MaxFaults /\ KindsFit(node, outgoing, taken, seals, faults')
<1>1. faults \in Nat /\ faults' \in Nat /\ faults <= faults' /\ faults' \in 0 .. MaxFaults
  BY BoundAssumption DEF Rest, Fault
<1> QED
  BY <1>1, KindsMore DEF Kinds

LEMMA RestartFits ==
  ASSUME Here, Rest, Kinds, NEW n \in Node, Restart(n)
  PROVE  Rest' /\ Kinds'
<1>1. /\ now < MaxTime /\ now' = now + 1 /\ node' = Put(node, n, DefaultState)
      /\ outgoing' = [outgoing EXCEPT ![n] = <<>>] /\ taken' = [taken EXCEPT ![n] = <<>>]
      /\ UNCHANGED <<chan, minted, seals, opened, sends>> /\ Fault("restart")
  BY DEF Restart, Put
<1>2. faults' \in 0 .. MaxFaults /\ KindsFit(node, outgoing, taken, seals, faults')
  BY <1>1, FaultMore
<1>3. node \in [Node -> StateType] /\ DefaultState \in StateType
  BY HereParts, DefaultType
<1>4. NodeFits(DefaultState, faults')
  <2>1. DefaultState.resend = <<>>
    BY DEF DefaultState
  <2>2. <<>> \in Seq(FitParcel(faults'))
    BY NothingWritten
  <2> QED
    BY <2>1, <2>2, DefaultType DEF NodeFits
<1>5. KindsFit(node', outgoing, taken, seals, faults')
  BY <1>1, <1>2, <1>3, <1>4, PutFits
<1>6. /\ outgoing \in [Node -> Seq(Parcel)] /\ taken \in [Node -> Seq(Parcel)]
      /\ \A m \in Node : outgoing[m] \in Seq(FitParcel(faults')) /\ taken[m] \in Seq(FitParcel(faults'))
  BY <1>2 DEF Rest, KindsFit
<1>7. <<>> \in Seq(FitParcel(faults')) /\ <<>> \in Seq(Parcel)
  BY NothingWritten
<1>8. /\ outgoing' \in [Node -> Seq(Parcel)] /\ taken' \in [Node -> Seq(Parcel)]
      /\ \A m \in Node : outgoing'[m] \in Seq(FitParcel(faults')) /\ taken'[m] \in Seq(FitParcel(faults'))
  BY <1>1, <1>6, <1>7
<1>9. now' \in 0 .. MaxTime
  BY <1>1, BoundAssumption DEF Rest
<1>10. Rest'
  BY <1>1, <1>2, <1>8, <1>9 DEF Rest
<1>11. Kinds'
  BY <1>1, <1>5, <1>8 DEF Kinds, KindsFit
<1> QED
  BY <1>10, <1>11

LEMMA NetworkFits ==
  ASSUME Rest, Kinds, NEW n \in Node, NEW p \in Node, NEW i,
         Lose(n, p, i) \/ Duplicate(n, p, i) \/ Overtake(n, p, i)
  PROVE  Rest' /\ Kinds'
<1>1. PICK kind : Fault(kind)
  BY DEF Lose, Duplicate, Overtake
<1>2. UNCHANGED <<now, node, outgoing, taken, minted, seals, opened, sends>>
  BY DEF Lose, Duplicate, Overtake
<1>3. faults' \in 0 .. MaxFaults /\ KindsFit(node, outgoing, taken, seals, faults')
  BY <1>1, FaultMore
<1> QED
  BY <1>2, <1>3 DEF Rest, Kinds

-----------------------------------------------------------------------------
(* The theorems *)

LEMMA InvParts ==
  IInv <=> Here /\ Rest /\ Kinds
<1>1. TypeOK <=> Typed(node, minted, chan, seals, opened) /\ Rest
  BY DEF TypeOK, Typed, Rest, Msg
<1> QED
  BY <1>1 DEF IInv, Here, Inv, Kinds

LEMMA InvPartsNext ==
  ASSUME Here', Rest', Kinds'
  PROVE  IInv'
<1>1. TypeOK'
  BY DEF TypeOK, Here, Inv, Typed, Rest, Msg
<1>2. KeyInv(node, minted, chan, seals)' /\ OpenInv(node, seals, opened)'
  BY DEF Here, Inv
<1> QED
  BY <1>1, <1>2 DEF IInv, Kinds

LEMMA InitInv ==
  ASSUME Init
  PROVE  IInv
<1>1. /\ node \in [Node -> StateType]
      /\ \A n \in Node : node[n] = DefaultState
  BY DefaultType DEF Init
<1>2. \A n, p \in Node : node[n].sessions[p] = None /\ node[n].bufs[p] = None
  BY <1>1, DefaultType
<1>3. /\ outgoing \in [Node -> Seq(Parcel)] /\ taken \in [Node -> Seq(Parcel)]
      /\ chan \in [Node -> [Node -> Seq(Msg)]] /\ minted \in [Node -> Nat]
      /\ seals \in [Node -> Seq(TrafficType)] /\ opened \in [Node -> Seq(OpeningType)]
  BY NothingWritten DEF Init
<1>4. /\ sends \in Seq([from : Node, to : Node, what : {"Data", "Req"}])
      /\ now \in 0 .. MaxTime /\ faults \in 0 .. MaxFaults
  BY BoundAssumption DEF Init
<1>5. \A n \in Node : DOMAIN seals[n] = {} /\ DOMAIN opened[n] = {}
  <2>1. \A n \in Node : seals[n] = <<>> /\ opened[n] = <<>>
    BY DEF Init
  <2> QED
    BY <2>1
<1>6. KeyInv(node, minted, chan, seals)
  <2>1. Owned(node, minted) /\ Uncrossed(node) /\ Sealing(node, seals)
    BY <1>2, <1>5 DEF Owned, Uncrossed, Sealing
  <2>2. Apart(node)
    BY <1>2 DEF Apart, OwnKeys
  <2>3. Boxes(node, minted, seals) /\ Mates(seals) /\ Unrepeated(seals)
    BY <1>5 DEF Boxes, Mates, Unrepeated
  <2>4. Letters(node, minted, chan, seals)
    <3>1. \A n, p \in Node : chan[n][p] = <<>>
      BY DEF Init
    <3> QED
      BY <3>1, NothingWritten DEF Letters
  <2> QED
    BY <2>1, <2>2, <2>3, <2>4 DEF KeyInv
<1>7. OpenInv(node, seals, opened)
  BY <1>5 DEF OpenInv, AllSeen, Authentic, Once
<1>8. Kinds
  <2>1. \A n \in Node : outgoing[n] = <<>> /\ taken[n] = <<>> /\ seals[n] = <<>> /\ node[n].resend = <<>>
    BY DEF Init, DefaultState
  <2>2. \A n \in Node : NodeFits(node[n], faults)
    BY <1>2, <2>1, NothingWritten DEF NodeFits
  <2> QED
    BY <2>1, <2>2, NothingWritten DEF Kinds, KindsFit
<1>9. TypeOK
  BY <1>1, <1>3, <1>4 DEF TypeOK, Msg
<1> QED
  BY <1>6, <1>7, <1>8, <1>9 DEF IInv, Kinds

LEMMA NextInv ==
  ASSUME IInv, [Next]_vars
  PROVE  IInv'
<1>1. Here /\ Rest /\ Kinds
  BY InvParts
<1>2. now \in Nat
  BY <1>1, BoundAssumption DEF Rest
<1>3. CASE UNCHANGED vars
  <2>1. Here' /\ Rest' /\ Kinds'
    BY <1>1, <1>3 DEF vars, Here, Rest, Kinds
  <2> QED
    BY <2>1, InvPartsNext
<1>4. CASE Tick
  <2>1. Here'
    BY <1>1, <1>4 DEF Tick, Here
  <2>2. Rest' /\ Kinds'
    BY <1>1, <1>4, TickFits
  <2> QED
    BY <2>1, <2>2, InvPartsNext
<1>5. ASSUME NEW n \in Node,
             Splice(n) \/ Take(n) \/ SendNext(n) \/ ExpireEphemeral(n) \/ Restart(n)
      PROVE  IInv'
  <2>1. CASE Splice(n)
    <3>1. Here' /\ Rest' /\ Kinds'
      BY <1>1, <2>1, SpliceKeeps, SpliceFits
    <3> QED
      BY <3>1, InvPartsNext
  <2>2. CASE Take(n)
    <3>1. Here'
      BY <1>1, <2>2 DEF Take, Here
    <3>2. Rest' /\ Kinds'
      BY <1>1, <2>2, TakeFits
    <3> QED
      BY <3>1, <3>2, InvPartsNext
  <2>3. CASE SendNext(n)
    <3>1. Here' /\ Rest' /\ Kinds'
      BY <1>1, <1>2, <2>3, SendNextFits
    <3> QED
      BY <3>1, InvPartsNext
  <2>4. CASE ExpireEphemeral(n)
    <3>1. Here' /\ Rest' /\ Kinds'
      BY <1>1, <2>4, ExpireKeeps, ExpireFits
    <3> QED
      BY <3>1, InvPartsNext
  <2>5. CASE Restart(n)
    <3>1. Here' /\ Rest' /\ Kinds'
      BY <1>1, <2>5, RestartKeeps, RestartFits
    <3> QED
      BY <3>1, InvPartsNext
  <2> QED
    BY <1>5, <2>1, <2>2, <2>3, <2>4, <2>5
<1>6. ASSUME NEW n \in Node, NEW p \in Node, Submit(n, p) \/ RequestNodeinfo(n, p) \/ Receive(n, p)
      PROVE  IInv'
  <2>1. CASE Submit(n, p)
    <3>1. Here'
      BY <1>1, <2>1 DEF Submit, Here
    <3>2. Rest' /\ Kinds'
      BY <1>1, <2>1, SubmitFits
    <3> QED
      BY <3>1, <3>2, InvPartsNext
  <2>2. CASE RequestNodeinfo(n, p)
    <3>1. Here' /\ Rest' /\ Kinds'
      BY <1>1, <1>2, <2>2, RequestFits
    <3> QED
      BY <3>1, InvPartsNext
  <2>3. CASE Receive(n, p)
    <3>1. Here' /\ Rest' /\ Kinds'
      BY <1>1, <1>2, <2>3, ReceiveKeeps, ReceiveFits
    <3> QED
      BY <3>1, InvPartsNext
  <2> QED
    BY <1>6, <2>1, <2>2, <2>3
<1>7. ASSUME NEW n \in Node, NEW p \in Node, NEW i \in DOMAIN chan[n][p],
             Lose(n, p, i) \/ Duplicate(n, p, i) \/ Overtake(n, p, i)
      PROVE  IInv'
  <2>1. Here' /\ Rest' /\ Kinds'
    BY <1>1, <1>7, NetworkKeeps, NetworkFits
  <2> QED
    BY <2>1, InvPartsNext
<1> QED
  BY <1>3, <1>4, <1>5, <1>6, <1>7 DEF Next

\* The inductive invariant of the session layer: every session stands at a pair
\* of keys no other does, in an order every ratchet keeps; what is on its way
\* was made by its sender; what was sealed and opened lies behind the nonces.
THEOREM SessionInvariance == Spec => []IInv
<1>1. Init => IInv
  BY InitInv
<1>2. IInv /\ [Next]_vars => IInv'
  BY NextInv
<1> QED
  BY <1>1, <1>2, PTL DEF Spec

\* The session tables, the outboxes, the channels and the histories keep their
\* types, through wraps, rotations, restarts and a faulty network.
THEOREM SessionTypes == Spec => []TypeOK
<1>1. IInv => TypeOK
  BY DEF IInv
<1> QED
  BY <1>1, SessionInvariance, PTL

\* No two boxes are ever sealed under the same secret and nonce, by one end or
\* by both: encrypt, its wrap, apply_update and maybe_rotate together.
THEOREM NoncesOnce == Spec => []SealsUnique
<1>1. IInv => SealsUnique
  BY DEF IInv, KeyInv, Unrepeated, SealsUnique
<1> QED
  BY <1>1, SessionInvariance, PTL

\* decrypt opens no box twice between two updates of the session, whatever the
\* network repeats, reorders or loses.
THEOREM BoxesOnce == Spec => []OpenedOnce
<1>1. IInv => OpenedOnce
  BY DEF IInv, OpenInv, Once, OpenedOnce
<1> QED
  BY <1>1, SessionInvariance, PTL

\* A payload is opened as the kind it was sent as, unless a failed write put it
\* in the resend queue, which keeps no kind.
THEOREM KindsAreKept == Spec => []KindKept
<1>1. ASSUME IInv
      PROVE  KindKept
  <2> SUFFICES ASSUME NEW n \in Node, NEW i \in DOMAIN opened[n]
               PROVE  Fitting(opened[n][i].box.kind, opened[n][i].box.body, faults)
    BY DEF KindKept, Fitting
  <2>1. opened[n][i] \in OpeningType
    BY <1>1 DEF IInv, TypeOK
  <2>2. opened[n][i].from \in Node /\ opened[n][i].box \in ToSet(seals[opened[n][i].from])
    BY <1>1, <2>1 DEF IInv, OpenInv, Authentic, OpeningType
  <2>3. seals[opened[n][i].from] \in Seq(FitFrame(faults))
    BY <1>1, <2>2 DEF IInv, KindsFit
  <2>4. opened[n][i].box \in FitFrame(faults)
    BY <2>2, <2>3 DEF ToSet
  <2> QED
    BY <2>4 DEF FitFrame
<1> QED
  BY <1>1, SessionInvariance, PTL

=============================================================================
