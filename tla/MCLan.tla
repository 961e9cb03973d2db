------------------------------- MODULE MCLan --------------------------------
EXTENDS Lan, TLC

MCPort == 1..3

Row(beacon, listen, priority, password) ==
  [matches |-> Iface, beacon |-> beacon, listen |-> listen, port |-> 0,
   priority |-> priority, password |-> password]

At(k, unusable) == {[addr |-> k, unusable |-> unusable]}

World(rows1, rows2) ==
  [rows |-> (1 :> rows1 @@ 2 :> rows2),
   peers |-> [n \in Node |-> {}], listens |-> [n \in Node |-> {}],
   allowed |-> [n \in Node |-> {}], version |-> [n \in Node |-> VERSION],
   addrs |-> [n \in Node |-> [i \in Iface |-> At(Addr(n, 1), FALSE)]]]

\* A configured peer's URI.
Uri(n, password, priority, pinned_key) ==
  [addr |-> Addr(n, 0), port |-> 3, zone |-> None, pinned_key |-> pinned_key,
   password |-> password, priority |-> priority]

Both == Row(TRUE, TRUE, 1, "")
Quiet == Row(FALSE, TRUE, 2, "")
Off == Row(FALSE, FALSE, 0, "")

\* One node beacons, the other one listens, in the open group.
Open == World(<<Both>>, <<Off, Quiet>>)

MCOpen == {Open, World(<<Both>>, <<Both>>)}
MCOthers == {
  World(<<Row(TRUE, TRUE, 1, "g")>>, <<Row(FALSE, TRUE, 0, "over64"), Quiet>>),
  [Open EXCEPT !.version = (1 :> "0.6" @@ 2 :> VERSION)],
  [Open EXCEPT !.addrs[1] = [i \in Iface |-> At(Addr(1, 1), FALSE) \cup At(Addr(1, 2), TRUE)]],
  [World(<<Off>>, <<>>) EXCEPT
     !.listens[1] = {3},
     !.peers[2] = {Uri(1, "", 5, 1)},
     !.peers[1] = {Uri(1, "", 0, None)}],
  [World(<<Off>>, <<>>) EXCEPT
     !.listens[1] = {3},
     !.allowed[1] = {7},
     !.peers[2] = {Uri(1, "", 0, None)}],
  [World(<<Off>>, <<>>) EXCEPT
     !.listens[1] = {3},
     !.peers[2] = {Uri(1, "", 0, 7)}],
  [World(<<Off>>, <<>>) EXCEPT
     !.listens[1] = {3},
     !.peers[2] = {Uri(1, "p", 0, None)}]}

MCWorlds == MCOpen \cup MCOthers
=============================================================================
