----------------------------- MODULE MCSession ------------------------------
(***************************************************************************)
(* What the session layer keeps and what it recovers to.  The routers of   *)
(* Session run with whatever faults it allows until everything has gone    *)
(* quiet; from then on nothing goes wrong any more, and payloads are sent  *)
(* one at a time, each after every consequence of the one before it was    *)
(* delivered, or one by each end.                                          *)
(***************************************************************************)
EXTENDS Session

CONSTANTS
  MaxProbes,    \* bound: how many payloads are sent then
  MaxLateSends  \* bound: how many are sent before, in a run that moves the clock

VARIABLES
  calm,    \* "no", or what stands when nothing goes wrong any more
  probes,  \* history: the payloads sent since, as <<sender, receiver>>
  written  \* history: the payloads sent before that were ever on the wire

calmVars == <<vars, calm, probes, written>>

Symmetry == Permutations(Node)

CalmInit == Init /\ calm = "no" /\ probes = <<>> /\ written = {}

\* The payloads on the wire from n to p, but for answers.
OnWire(n, p) ==
  {f.body.id : f \in {f \in ToSet(chan[n][p]) : f.type = "Traffic" /\ f.body.what # "Res"}}

\* Any step of Session, while things may go wrong.
Rough ==
  /\ calm = "no"
  /\ Next
  /\ now' > 0 => Len(sends') <= MaxLateSends
  /\ written' = written \cup UNION {OnWire(n, p)' : n, p \in Node}
  /\ UNCHANGED <<calm, probes>>

\* Both ends have a session, whatever state it is in.
BothOpen == \A n, p \in Node : n # p => node[n].sessions[p] # None

\* The clock has passed every sequence number a session was left with, and
\* every pending open has expired.
ClockAhead ==
  \A n, p \in Node :
    /\ node[n].sessions[p] # None => node[n].sessions[p].seq <= now
    /\ node[n].bufs[p] = None

\* Neither end restarted, which takes a tick of the clock, and both are open; or
\* one is not, and the clock is ahead.
Settle ==
  /\ calm = "no"
  /\ Still
  /\ sends # <<>>
  /\ \/ BothOpen /\ now = 0 /\ calm' = "open"
     \/ ~BothOpen /\ ClockAhead /\ calm' = "late"
  /\ UNCHANGED <<vars, probes, written>>

\* One more payload is sent.
Send(n, p) ==
  /\ calm # "no"
  /\ n # p
  /\ Len(probes) < MaxProbes
  /\ probes' = Append(probes, <<n, p>>)
  /\ SessionSend(n, p, "Traffic", [what |-> "Data", id |-> MaxSends + Len(probes')], TRUE)
  /\ UNCHANGED <<now, outgoing, taken, opened, sends, faults, calm, written>>

Probe(n, p) == Still /\ Send(n, p)

Deliver(n, p) ==
  /\ calm # "no"
  /\ Receive(n, p)
  /\ UNCHANGED <<faults, calm, probes, written>>

CalmNext ==
  \/ Rough
  \/ Settle
  \/ \E n, p \in Node : Probe(n, p) \/ Deliver(n, p)

CalmSpec == CalmInit /\ [][CalmNext]_calmVars

-----------------------------------------------------------------------------
(* Two flights: each end sends a payload before it has read anything, and    *)
(* another one after everything has gone quiet.                              *)

\* n has sent its first payload.
Sent(n) ==
  /\ \E s \in ToSet(sends) : s.from = n
  /\ outgoing[n] = <<>>
  /\ Idle(n)

Reads == \E n, p \in Node : ~IsPrefix(chan[n][p], chan'[n][p])

FirstFlight == Rough /\ (Reads => \A n \in Node : Sent(n))

SecondSend(n, p) == (\A k \in DOMAIN probes : probes[k][1] # n) /\ Send(n, p)

FlightNext ==
  \/ FirstFlight
  \/ Settle
  \/ \E n, p \in Node : SecondSend(n, p) \/ Deliver(n, p)

FlightSpec == CalmInit /\ [][FlightNext]_calmVars

-----------------------------------------------------------------------------
(* What is kept *)

\* The payload k waits at n for p: in the outbox, taken out of it, to be sent
\* again, or in the slot behind an init.
InSlot(n, p, k) ==
  node[n].bufs[p] # None /\ node[n].bufs[p].body.what # "Res" /\ node[n].bufs[p].body.id = k

Carries(n, p, k) ==
  \/ \E parcel \in ToSet(outgoing[n] \o taken[n] \o node[n].resend) :
       parcel.dest = p /\ parcel.body.what # "Res" /\ parcel.body.id = k
  \/ InSlot(n, p, k)

\* What the code does with k without writing it: another payload takes its
\* slot, nobody answers its init for a minute, the process ends, or a write
\* fails that is not its own: the one of a payload ahead of it in the outbox
\* that was taken, or the one of the ack it should have followed.
Replaced(n, p, k) == InSlot(n, p, k) /\ node'[n].bufs[p] # None

Expired(n, p, k) == InSlot(n, p, k) /\ node[n].bufs[p].deadline <= now

Restarted(n) == now' > now /\ node'[n] = DefaultState

LeftBehind(n, p, k) ==
  /\ faults' > faults
  /\ \/ taken'[n] = <<>> /\ \E i \in 2 .. Len(taken[n]) : taken[n][i].body.id = k
     \/ InSlot(n, p, k) /\ node[n].sessions[p] = None /\ node'[n].sessions[p] # None

\* A payload handed to the session layer is written, or still there, or it went
\* in one of those ways and no other: whatever is lost, repeated, overtaken or
\* refused, and through every resend (serve_links, session_send_inner, the
\* slot of bufs and the flush in handle_session_bytes).
WrittenOrAccounted ==
  [][ \A n, p \in Node : \A k \in DOMAIN sends :
        Carries(n, p, k) =>
          \/ Carries(n, p, k)'
          \/ k \in OnWire(n, p)'
          \/ Replaced(n, p, k) \/ Expired(n, p, k) \/ Restarted(n)
          \/ LeftBehind(n, p, k) ]_calmVars

\* A payload of the application whose write failed is sent again: what was
\* sealed has been on the wire, or is still here to be
\* (SessionState.resend, serve_links).
AtLeastOnce ==
  \A n \in Node : \A f \in ToSet(seals[n]) :
    f.body.what = "Data" /\ f.body.id \in DOMAIN sends =>
      f.body.id \in written \/ Carries(n, sends[f.body.id].to, f.body.id)

-----------------------------------------------------------------------------
(* What it recovers to *)

\* The payloads whose receiver did not open them.
Missed ==
  { k \in DOMAIN probes :
      ~\E o \in ToSet(opened[probes[k][2]]) : o.box.body.id = MaxSends + k }

\* No send nonce can have wrapped: a wrap ratchets the keys of one end alone,
\* which may cost a payload more.
Unwrapped == \A n \in Node : Len(seals[n]) < NonceSpace

\* Once both ends have a session, however far apart their keys have drifted by
\* lost, repeated, overtaken or crossed inits, acks and rotations, at most one
\* payload is lost to it in a network that delivers: the init that answers it
\* brings both ends back in step (the decrypt-fail arm of
\* handle_session_bytes), in both directions and for good.  Neither end
\* restarted, which takes a tick of the clock: LateRecovers is about that.
\* That none is lost is not so, not even where it is promised: SecondFlight.
OneMissed ==
  calm = "open" /\ Still /\ Unwrapped => Cardinality(Missed) <= 1

\* A session that a restart, a lost message or its own expiry left with one
\* end, or none, is back after the next message, which alone may be lost, once
\* the clock has passed every sequence number in use: next_init_seq starts
\* from the clock, so the init that answers unknown traffic, or opens anew, is
\* newer than what the other end remembers.
LateRecovers ==
  calm = "late" /\ Still /\ Unwrapped => Missed \subseteq {1}

\* After a crossed open, in a network that loses nothing, the second payload
\* of either end is opened by the other (the test of handle_session_bytes
\* crossed_session_open_delivers_both_ways).
SecondFlight == Still => Missed = {}
=============================================================================
