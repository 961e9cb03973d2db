----------------------------- MODULE Handshake ------------------------------
(***************************************************************************)
(* The `meta` exchange that turns a byte stream into a link: run_handshake *)
(* and merge_opts of src/src/link.rs, Meta of src/src/handshake.rs and the *)
(* options a peer URI carries.  Both ends write their own meta before they *)
(* read the other's, and each judges what it read by itself, so one end    *)
(* can take the link while the other refuses it.                           *)
(*                                                                         *)
(* A message is a record: `form` tells a whole meta ("meta") from bytes    *)
(* that are something else ("junk") and from one that ends early ("cut").  *)
(* A keyed hash is the pair of what it was computed from.                  *)
(***************************************************************************)
EXTENDS Integers

CONSTANT None

\* PROTOCOL_MAJOR and PROTOCOL_MINOR; both must match exactly.
VERSION == "0.5"

\* The passwords over BLAKE2b's 64-byte key limit.
TooLong(password) == password = "over64"

\* keyed_hash: blake2b-512 with the password as its key; no password hashes
\* unkeyed.
KeyedHash(password, public_key) == <<password, public_key>>

\* Meta::local and encode: the signature is over the keyed hash of the key,
\* so nobody can make one for another key or another password.
Meta(public_key, version, opts) ==
  [form |-> "meta", version |-> version, public_key |-> public_key,
   priority |-> opts.priority,
   sig |-> [by |-> public_key, over |-> KeyedHash(opts.password, public_key)]]

\* Meta::decode under the reader's own password: what is wrong with the
\* message, or "ok".
Decode(msg, password) ==
  CASE msg.form = "junk" -> "InvalidPreamble"
    [] msg.form = "cut"  -> "InvalidLength"
    [] OTHER ->
         IF msg.sig = [by |-> msg.public_key, over |-> KeyedHash(password, msg.public_key)]
         THEN "ok"
         ELSE "BadPassword"

\* run_handshake, after both metas were written: what this end makes of the
\* other's.  The allowlist binds inbound links only.
RunHandshake(local_key, opts, theirs, is_inbound) ==
  LET decoded == Decode(theirs, opts.password)
  IN  IF decoded # "ok" THEN decoded
      ELSE IF theirs.version # VERSION THEN "BadVersion"
      ELSE IF theirs.public_key = local_key THEN "SelfDial"
      ELSE IF opts.pinned_key \notin {None, theirs.public_key} THEN "PinnedMismatch"
      ELSE IF is_inbound /\ opts.allowed_keys # {}
                         /\ theirs.public_key \notin opts.allowed_keys
           THEN "KeyNotAllowed"
           ELSE "ok"

Higher(a, b) == IF a > b THEN a ELSE b

\* Mutant: each end keeps its own.
LinkPriorityOwn(opts, theirs) == opts.priority

\* The priority of the link this end serves: the higher of the two.
LinkPriority(opts, theirs) == Higher(theirs.priority, opts.priority)

\* merge_opts: what a URI's query says over the node's own options.
MergeOpts(peer, opts) ==
  [password     |-> IF peer.password = "" THEN opts.password ELSE peer.password,
   priority     |-> Higher(opts.priority, peer.priority),
   pinned_key   |-> IF peer.pinned_key # None THEN peer.pinned_key ELSE opts.pinned_key,
   allowed_keys |-> opts.allowed_keys]

=============================================================================
