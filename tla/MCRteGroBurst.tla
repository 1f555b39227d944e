---------------------------- MODULE MCRteGroBurst ----------------------------
(* Small instances of RteGroBurst.                                          *)
EXTENDS RteGroBurst

Plain(l3, l4) == [l3 |-> l3, l4 |-> l4, tunnel |-> 0, inner_l3 |-> 0, inner_l4 |-> 0]

InTunnel(tunnel, inner_l4) ==
  [l3 |-> L3_IPV4, l4 |-> L4_UDP, tunnel |-> tunnel, inner_l3 |-> 1, inner_l4 |-> inner_l4]

P(id, ptype, kind, proto, flow, seq) ==
  [id |-> id, ptype |-> ptype, kind |-> kind, proto |-> proto, flow |-> flow, seq |-> seq]

(* TCP over IPv4, a packet with PSH among it, over IPv6 and in two tunnels, *)
(* and a SYN.                                                               *)
TcpPkts ==
  { P(1, Plain(L3_IPV4, L4_TCP), "segment", "TCP", "t", 0),
    P(2, Plain(L3_IPV4, L4_TCP), "segment", "TCP", "t", 1),
    P(3, Plain(L3_IPV4, L4_TCP), "push", "TCP", "t", 2),
    P(4, Plain(L3_IPV6, L4_TCP), "segment", "TCP", "s", 0),
    P(5, InTunnel(TUNNEL_VXLAN, L4_TCP), "segment", "TCP", "v", 0),
    P(6, InTunnel(TUNNEL_GTPU, L4_TCP), "segment", "TCP", "g", 0),
    P(7, Plain(L3_IPV4, L4_TCP), "other", "TCP", "t", 3) }

(* The fragments of a datagram, and a segment.                              *)
FragmentPkts ==
  { P(1, Plain(L3_IPV4, L4_FRAG), "fragment", "UDP", "u", 0),
    P(2, Plain(L3_IPV4, L4_FRAG), "fragment", "UDP", "u", 1),
    P(3, Plain(L3_IPV4, L4_FRAG), "fragment", "UDP", "u", 2),
    P(4, InTunnel(TUNNEL_VXLAN, L4_FRAG), "fragment", "UDP", "w", 0),
    P(5, InTunnel(TUNNEL_VXLAN, L4_FRAG), "fragment", "UDP", "w", 1),
    P(6, InTunnel(TUNNEL_GTPU, L4_FRAG), "fragment", "UDP", "x", 0) }
MixedPkts == TcpPkts \cup {[p EXCEPT !.id = p.id + 7] : p \in FragmentPkts}
=============================================================================
