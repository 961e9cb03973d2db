------------------------------ MODULE MCClient ------------------------------
(* What may happen to the client in the runs. *)
EXTENDS Client

CONSTANTS a, b, c1, w1, w2

MCWorlds ==
  { {"submit", "accept", "discover", "eof"},
    {"submit", "removepeer"},
    {"submit", "half", "cut", "eof"},
    {"addpeer", "removepeer", "local", "quit"},
    {"remote", "report", "tun", "quit", "write"},
    {"accept", "report", "send", "deaf", "up", "eof"},
    {"device", "packets", "accept", "eof", "write", "tunfails"} }

MCFlows == {<<"self", "mesh">>, <<"link", "mesh">>, <<"self", "self">>}

\* A peer whose connection may end anywhere.
MCBrokenPeer == { {"submit", "half", "cut", "eof"} }
=============================================================================
