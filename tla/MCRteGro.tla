------------------------------ MODULE MCRteGro ------------------------------
(* Small instances of RteGro.                                               *)
EXTENDS RteGro

Plain(l3, l4) == [l3 |-> l3, l4 |-> l4, tunnel |-> 0, inner_l3 |-> 0, inner_l4 |-> 0]

InTunnel(tunnel, inner_l4) ==
  [l3 |-> L3_IPV4, l4 |-> L4_UDP, tunnel |-> tunnel, inner_l3 |-> 1, inner_l4 |-> inner_l4]

P(id, ptype, kind, proto, flow, seq) ==
  [id |-> id, ptype |-> ptype, kind |-> kind, proto |-> proto, flow |-> flow, seq |-> seq]

(* GTP-U with TCP, the three fragments of a datagram, and two TCP segments, *)
(* of which the second has PSH.                                             *)
MixedPkts ==
  { P(1, InTunnel(TUNNEL_GTPU, L4_TCP), "segment", "TCP", "g", 0),
    P(2, Plain(L3_IPV4, L4_FRAG), "fragment", "UDP", "u", 0),
    P(3, Plain(L3_IPV4, L4_FRAG), "fragment", "UDP", "u", 1),
    P(4, Plain(L3_IPV4, L4_FRAG), "fragment", "UDP", "u", 2),
    P(5, Plain(L3_IPV4, L4_TCP), "segment", "TCP", "t", 0),
    P(6, Plain(L3_IPV4, L4_TCP), "push", "TCP", "t", 1) }

(* Packets of VXLAN, of GTP-U (two flows) and of plain TCP.                 *)
TunnelPkts ==
  { P(1, InTunnel(TUNNEL_VXLAN, L4_TCP), "segment", "TCP", "v", 0),
    P(2, InTunnel(TUNNEL_GTPU, L4_TCP), "segment", "TCP", "g", 0),
    P(3, Plain(L3_IPV4, L4_TCP), "segment", "TCP", "t", 0),
    P(4, InTunnel(TUNNEL_GTPU, L4_TCP), "segment", "TCP", "h", 0) }
=============================================================================
