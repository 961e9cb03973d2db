-------------------------------- MODULE Tun --------------------------------
(***************************************************************************)
(* The TUN bridge, client/src/tun.rs: packets of the kernel go to the       *)
(* router, packets of the mesh go to the kernel.  The device is             *)
(*   kernel  what the kernel routed at us and nobody has read,              *)
(*   out     packets of the mesh that wait to be written,                   *)
(* with the history of both directions: wrote, what was written, sent, what *)
(* the router took, lost, what it refused, and skipped, what was not for    *)
(* the mesh.                                                                *)
(***************************************************************************)
EXTENDS Subsequences

CONSTANT PUMP   \* packets a tick hands to the router at most (64)

ASSUME PumpAssumption == PUMP \in Nat \ {0}

\* Where an address of a packet belongs: to this node, elsewhere in 0200::/7,
\* to fe80::/10, or anywhere else.
Place == {"self", "mesh", "link", "outside"}

\* The packets with these numbers.  One too short or not IPv6 has no addresses.
Packets(ids) ==
  [id : ids, src : Place, dst : Place] \cup [id : ids, src : {"none"}, dst : {"none"}]

\* Device::new
NewDevice == [kernel |-> <<>>, out |-> <<>>, wrote |-> <<>>, sent |-> <<>>,
              lost |-> {}, skipped |-> {}]

\* Device::deliver, for all of a session inbox
Deliver(d, packets) == [d EXCEPT !.out = @ \o packets]

\* Device::wants
Wants(p) == p.dst = "mesh" /\ p.src \in {"self", "mesh"}

\* Where the packets for the mesh are among the first i.
Wanted(kernel, i) == {k \in 1 .. i : Wants(kernel[k])}

\* Device::pump reads while it has handed over fewer than PUMP packets; those
\* it does not want are not counted.
Reads(kernel) ==
  {i \in 0 .. Len(kernel) : i = 0 \/ Cardinality(Wanted(kernel, i - 1)) < PUMP}

\* The device after i reads, the last of which the router may have refused.
Pumped(d, i, failed) ==
  LET took == Pick(d.kernel, Wanted(d.kernel, IF failed THEN i - 1 ELSE i))
  IN  [d EXCEPT !.kernel  = SubSeq(@, i + 1, Len(@)),
                !.sent    = @ \o [k \in DOMAIN took |-> took[k].id],
                !.lost    = IF failed THEN @ \cup {d.kernel[i].id} ELSE @,
                !.skipped = @ \cup {d.kernel[k].id : k \in (1 .. i) \ Wanted(d.kernel, i)}]

\* Mutant: what was written stays in the outbox.
FlushedKeeps(d, i) == [d EXCEPT !.wrote = @ \o SubSeq(d.out, 1, i)]

\* Device::flush, up to the write that failed if one did: the rest stays.
Flushed(d, i) ==
  [d EXCEPT !.wrote = @ \o SubSeq(d.out, 1, i), !.out = SubSeq(@, i + 1, Len(@))]
=============================================================================
