------------------------------ MODULE MCTestPmd ------------------------------
(* Small instances of TestPmd.                                              *)
EXTENDS TestPmd

Gtp == [l3 |-> L3_IPV4, l4 |-> L4_UDP, tunnel |-> TUNNEL_GTPU, inner_l3 |-> 1, inner_l4 |-> L4_TCP]

PlainUdp == [l3 |-> L3_IPV4, l4 |-> L4_UDP, tunnel |-> 0, inner_l3 |-> 0, inner_l4 |-> 0]

P(id, ptype, kind, flow, seq) ==
  [id |-> id, ptype |-> ptype, kind |-> kind, flow |-> flow, seq |-> seq]

(* Two ports, paired.                                                       *)
PairedRx == <<0, 1>>
PairedTx == <<1, 0>>

FourPkts ==
  << { P(1, Gtp, "segment", "a", 0), P(2, Gtp, "segment", "b", 0), P(3, PlainUdp, "other", "b", 0) },
     { P(4, Gtp, "segment", "c", 0) } >>
=============================================================================
