----------------------------- MODULE MCRouting -----------------------------
(* A triangle of three routers whose tree is a line, 1 - 2 - 3, at first. *)
EXTENDS Routing

MCEdges == {{1, 2}, {2, 3}, {1, 3}}

MCHome == (1 :> 1) @@ (2 :> 1) @@ (3 :> 2)

MCParents == (1 :> {1}) @@ (2 :> {1}) @@ (3 :> {1, 2})

\* Four bytes of two bits.  The address of 1 is that of the key of zeros; the
\* one of 3 loses its last bit, and its subnet two more.
Key(bits) == [j \in 0 .. KEY_BITS - 1 |-> bits[j + 1]]

MCPubKey ==
  (1 :> Key(<<0, 0, 0, 0, 0, 0, 0, 0>>)) @@
  (2 :> Key(<<1, 0, 1, 1, 0, 1, 1, 0>>)) @@
  (3 :> Key(<<0, 0, 1, 0, 1, 1, 0, 0>>))

\* Every filter that holds 1 and 2 answers for 3 as well.
MCBits(x) ==
  CASE x = XOf[1] -> {0, 1}
    [] x = XOf[2] -> {1, 2}
    [] OTHER      -> {0, 2}

MCRoutes == {<<1, 3>>}

MCWorlds ==
  { {"app", "move", "time"},
    {"app", "key", "move"},
    {"app", "subnet", "blind"},
    {"cold", "move"},
    {"restart", "move"},
    {"cut", "move"} }

\* A path that breaks while a session is in use.
MCBrokenPath == { {"app", "move", "time"} }
=============================================================================
