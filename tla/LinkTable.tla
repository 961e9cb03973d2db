------------------------------ MODULE LinkTable ------------------------------
(***************************************************************************)
(* The client's link table, client/src/links.rs, with the redial clock of   *)
(* src/supervisor.rs: one row per configured, discovered or accepted peer.  *)
(*                                                                         *)
(* A row is named by its link id and source interface, and the table holds  *)
(* at most one row of a name, so the list of the code is a function from    *)
(* names to rows here.  A row of an accepted socket has no interface; Plain *)
(* are the names without one.  `due' is "now >= next_retry"; the length of  *)
(* the backoff is left out.                                                 *)
(***************************************************************************)
EXTENDS Naturals, FiniteSets

CONSTANTS
  Info,    \* names of rows: (link id, source interface)
  Plain,   \* the names whose source interface is empty
  None     \* no row, no link, no dial

\* LinkKind
Kind == {"persistent", "ephemeral", "incoming"}

\* Entry: `live' is the id of the link the row holds, `dialing' the token of
\* the dial in flight, `err' whether last_error is set.
Row ==
  [kind : Kind, live : Nat \cup {None}, dialing : Nat \cup {None},
   due : BOOLEAN, err : BOOLEAN]

ASSUME InfoAssumption ==
  /\ Plain \subseteq Info
  /\ IsFiniteSet(Info)
  /\ None \notin Nat
  /\ None \notin Row

Table == [Info -> Row \cup {None}]

EmptyTable == [u \in Info |-> None]

Rows(t) == {u \in Info : t[u] # None}

\* SupervisedPeer::new and the rest of a fresh Entry
NewRow(kind, live) ==
  [kind |-> kind, live |-> live, dialing |-> None, due |-> TRUE, err |-> FALSE]

\* record_success and record_failure: the next attempt is due at once, or
\* after a backoff of at least two seconds.
RecordSuccess(r) == [r EXCEPT !.due = TRUE]
RecordFailure(r) == [r EXCEPT !.due = FALSE]

\* Links::add of a URI that parses: a row that exists is kicked.
Add(t, u, kind) ==
  [t EXCEPT ![u] = IF @ = None THEN NewRow(kind, None)
                               ELSE [@ EXCEPT !.due = TRUE]]

\* Links::busy
Busy(t, u) == u \in Plain /\ t[u] # None /\ t[u].live # None

\* Links::accept: the link takes over the row of its name, or gets a new one.
Accept(t, u, id) ==
  [t EXCEPT ![u] = IF @ = None THEN NewRow("incoming", id)
                               ELSE [@ EXCEPT !.live = id, !.err = FALSE]]

\* Links::remove
RemoveRow(t, u) == [t EXCEPT ![u] = None]

\* The guard of start_due: not accepted, not live, not in flight, past its
\* backoff.
Dialable(t, u) ==
  /\ t[u] # None
  /\ t[u].kind # "incoming"
  /\ t[u].live = None
  /\ t[u].dialing = None
  /\ t[u].due

\* Links::start_due: every such row gets a token of its own, from next_token
\* on.  The tokens follow the order of the list; here any order.
Numberings(t, next) ==
  LET D == {u \in Info : Dialable(t, u)} IN
  {f \in [D -> next .. (next + Cardinality(D) - 1)] :
     \A u, v \in D : f[u] = f[v] => u = v}

StartDue(t, f) ==
  [u \in Info |-> IF u \in DOMAIN f THEN [t[u] EXCEPT !.dialing = f[u]]
                                    ELSE t[u]]

\* Mutant: a result is taken by any row that waits for a dial.
WaitsForAny(t, u, token) == t[u] # None /\ t[u].dialing # None

\* The row that waits for the dial `token' (at most one, see Client).
Waits(t, u, token) == t[u] # None /\ t[u].dialing = token

\* Links::mark_live
MarkLive(t, token, id) ==
  [u \in Info |->
     IF Waits(t, u, token)
     THEN RecordSuccess([t[u] EXCEPT !.dialing = None, !.live = id, !.err = FALSE])
     ELSE t[u]]

\* Mutants: the token stays, or an ephemeral row stays.
MarkFailedKeepsToken(t, token) ==
  [u \in Info |->
     IF ~Waits(t, u, token) THEN t[u]
     ELSE IF t[u].kind = "ephemeral" THEN None
     ELSE RecordFailure([t[u] EXCEPT !.live = None, !.err = TRUE])]

MarkFailedKeepsRow(t, token) ==
  [u \in Info |->
     IF ~Waits(t, u, token) THEN t[u]
     ELSE RecordFailure([t[u] EXCEPT !.dialing = None, !.live = None, !.err = TRUE])]

\* Links::mark_failed: an ephemeral row is forgotten, any other one loses its
\* link, keeps the error and backs off.
MarkFailed(t, token) ==
  [u \in Info |->
     IF ~Waits(t, u, token) THEN t[u]
     ELSE IF t[u].kind = "ephemeral" THEN None
     ELSE RecordFailure([t[u] EXCEPT !.dialing = None, !.live = None, !.err = TRUE])]

\* Links::note_liveness against the ids the link set still holds.
Lost(t, u, set) == t[u] # None /\ t[u].live # None /\ t[u].live \notin set

NoteLiveness(t, set) ==
  [u \in Info |->
     IF ~Lost(t, u, set) THEN t[u]
     ELSE IF t[u].kind # "persistent" THEN None
     ELSE RecordFailure([t[u] EXCEPT !.live = None])]
=============================================================================
