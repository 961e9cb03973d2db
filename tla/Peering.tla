------------------------------ MODULE Peering ------------------------------
(***************************************************************************)
(* What the link table promises of the peers it lists: the life of a row,   *)
(* whatever commands, dial results, accepted links and failures come in and *)
(* in whatever order.  Client implements it.                                *)
(***************************************************************************)
EXTENDS Naturals

CONSTANTS Info, None

VARIABLES
  peer,    \* per name: nothing, or its kind, its link, whether a dial runs
  orders   \* the names whose removal has been asked for: an input

Fresh(kind) == [kind |-> kind, link |-> None, trying |-> FALSE]

\* The row becomes p with some link.
Gets(u, p) ==
  /\ peer'[u] # None
  /\ peer'[u].link \in Nat
  /\ peer'[u] = [p EXCEPT !.link = peer'[u].link]

\* A name that is not listed is configured, discovered, or comes to us.
Listed(u) ==
  /\ peer[u] = None
  /\ \/ peer'[u] \in {Fresh("persistent"), Fresh("ephemeral")}
     \/ Gets(u, Fresh("incoming"))

\* A peer without a link comes to us.
Claimed(u) ==
  /\ peer[u] # None
  /\ peer[u].link = None
  /\ Gets(u, peer[u])

\* One dial at a time, only for a peer without a link that we may dial, and
\* only once for a discovered one.
Tried(u) ==
  /\ peer[u] # None
  /\ peer[u].kind # "incoming"
  /\ peer[u].link = None
  /\ ~peer[u].trying
  /\ peer'[u] = [peer[u] EXCEPT !.trying = TRUE]

\* The end of a dial decides the link of its row, also when the peer came to
\* us meanwhile: mark_live and mark_failed overwrite what they find.
Succeeded(u) ==
  /\ peer[u] # None
  /\ peer[u].trying
  /\ Gets(u, [peer[u] EXCEPT !.trying = FALSE])

Failed(u) ==
  /\ peer[u] # None
  /\ peer[u].trying
  /\ peer'[u] = IF peer[u].kind = "ephemeral" THEN None
                ELSE [peer[u] EXCEPT !.trying = FALSE, !.link = None]

\* A configured peer stays listed when its link is gone, the others do not.
Lost(u) ==
  /\ peer[u] # None
  /\ peer[u].link # None
  /\ peer'[u] = IF peer[u].kind = "persistent" THEN [peer[u] EXCEPT !.link = None]
                ELSE None

\* Whatever its kind, a peer is struck off when that was asked for.
Removed(u) ==
  /\ u \in orders
  /\ peer'[u] = None

Move(u) ==
  \/ Listed(u) \/ Claimed(u) \/ Tried(u) \/ Succeeded(u) \/ Failed(u) \/ Lost(u)
  \/ Removed(u)
  \/ peer'[u] = peer[u]

\* No link is listed under two names.
OneName(p) ==
  \A u, v \in Info :
    /\ p[u] # None
    /\ p[v] # None
    /\ p[u].link # None
    /\ p[u].link = p[v].link
    => u = v

Init == peer = [u \in Info |-> None]

Next == /\ peer' = [u \in Info |-> peer'[u]]
        /\ \A u \in Info : Move(u)
        /\ OneName(peer')

Spec == Init /\ [][Next]_peer
=============================================================================
