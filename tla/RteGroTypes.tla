----------------------------- MODULE RteGroTypes -----------------------------
(***************************************************************************)
(* What the API functions of rte_gro.c see of packets and tables: how a    *)
(* packet finds its GRO type, and a table as the set of runs it holds.     *)
(*                                                                         *)
(* That a table may be seen so is what ImplementsService of GroTcp4,       *)
(* GroUdp4 and GroTunnelTcp4 says.                                         *)
(*                                                                         *)
(* A packet is one mbuf, seen through                                      *)
(*   id    : tells mbufs apart                                             *)
(*   ptype : packet_type, one value per 4-bit field                        *)
(*   kind  : "segment" (a complete TCP packet with payload and no flag but *)
(*           ACK), "push" (one that has PSH or FIN), "fragment" (an IPv4   *)
(*           fragment), or "other" (SYN, no payload, no TCP ...) at the    *)
(*           level the GRO type looks at                                   *)
(*   proto : the protocol above IPv4 there                                 *)
(*   flow  : the fields that make up the flow key of its GRO type          *)
(*   seq   : packets of one flow with consecutive seq are neighbours       *)
(***************************************************************************)
EXTENDS Integers, Sequences, FiniteSets

CONSTANTS
  MaxRun        (* the longest run of packets the types merge              *)

ASSUME RunAssumption == MaxRun \in Nat \ {0}

-----------------------------------------------------------------------------
(* Packet types.                                                           *)

Bit(x, b) == (x \div b) % 2 = 1

(* (x & m) == m for one field.                                             *)
Covers(x, m) == \A b \in {1, 2, 4, 8} : Bit(m, b) => Bit(x, b)

L3_IPV4 == 1
L3_IPV6 == 4
L4_TCP  == 1
L4_UDP  == 2
L4_FRAG == 3
L4_ICMP == 5
TUNNEL_VXLAN == 3
TUNNEL_GTPU  == 8
INNER_L3_IPV4s == {1, 2, 4}

IsTunnelPkt(t) == t.tunnel # 0 \/ t.inner_l3 # 0 \/ t.inner_l4 # 0

IS_IPV4_TCP_PKT(t) ==
  Bit(t.l3, L3_IPV4) /\ Covers(t.l4, L4_TCP) /\ ~Covers(t.l4, L4_FRAG) /\ ~IsTunnelPkt(t)

IS_IPV6_TCP_PKT(t) ==
  Bit(t.l3, L3_IPV6) /\ Covers(t.l4, L4_TCP) /\ ~Covers(t.l4, L4_FRAG) /\ ~IsTunnelPkt(t)

(* Mutant: a tunnel packet is taken for a plain one by its outer headers.  *)
IS_IPV4_UDP_PKT_Outer(t) == Bit(t.l3, L3_IPV4) /\ Covers(t.l4, L4_UDP)

IS_IPV4_UDP_PKT(t) ==
  Bit(t.l3, L3_IPV4) /\ Covers(t.l4, L4_UDP) /\ ~IsTunnelPkt(t)

(* The four tests for a tunnel.  Those for TCP inside look at the outer    *)
(* fragment bits too.                                                      *)
InIpv4Tunnel(t, tunnel, inner_l4) ==
  /\ Bit(t.l3, L3_IPV4)
  /\ Covers(t.l4, L4_UDP)
  /\ Covers(t.tunnel, tunnel)
  /\ Covers(t.inner_l4, inner_l4)
  /\ t.inner_l3 \in INNER_L3_IPV4s

IS_IPV4_VXLAN_TCP4_PKT(t) == InIpv4Tunnel(t, TUNNEL_VXLAN, L4_TCP) /\ ~Covers(t.l4, L4_FRAG)
IS_IPV4_VXLAN_UDP4_PKT(t) == InIpv4Tunnel(t, TUNNEL_VXLAN, L4_UDP)
IS_IPV4_GTP_TCP4_PKT(t)   == InIpv4Tunnel(t, TUNNEL_GTPU, L4_TCP) /\ ~Covers(t.l4, L4_FRAG)
IS_IPV4_GTP_UDP4_PKT(t)   == InIpv4Tunnel(t, TUNNEL_GTPU, L4_UDP)

(* The types in the order in which a packet is tried against them, which   *)
(* is also the order in which they are flushed.                            *)
TypeOrder ==
  <<"VXLAN_TCP", "VXLAN_UDP", "GTP_TCP", "GTP_UDP", "TCP4", "UDP4", "TCP6">>

GroType == {TypeOrder[n] : n \in DOMAIN TypeOrder}

IsOfType(T, t) ==
  CASE T = "VXLAN_TCP" -> IS_IPV4_VXLAN_TCP4_PKT(t)
    [] T = "VXLAN_UDP" -> IS_IPV4_VXLAN_UDP4_PKT(t)
    [] T = "GTP_TCP"   -> IS_IPV4_GTP_TCP4_PKT(t)
    [] T = "GTP_UDP"   -> IS_IPV4_GTP_UDP4_PKT(t)
    [] T = "TCP4"      -> IS_IPV4_TCP_PKT(t)
    [] T = "UDP4"      -> IS_IPV4_UDP_PKT(t)
    [] T = "TCP6"      -> IS_IPV6_TCP_PKT(t)

(* The type that p is handed to: the first enabled one whose test it       *)
(* passes.  At most one element.                                           *)
DispatchTo(p, enabled) ==
  {TypeOrder[n] : n \in
     {m \in DOMAIN TypeOrder :
        /\ TypeOrder[m] \in enabled /\ IsOfType(TypeOrder[m], p.ptype)
        /\ \A k \in 1..(m - 1) : ~(TypeOrder[k] \in enabled /\ IsOfType(TypeOrder[k], p.ptype))}}

-----------------------------------------------------------------------------
(* Tables.                                                                 *)

UdpTypes == {"VXLAN_UDP", "GTP_UDP", "UDP4"}

(* What a type processes: UDP types have no use for a packet that is no    *)
(* fragment, TCP types none for one without a TCP header of a valid length *)
(* and payload, and of these only plain TCP/IPv4 takes PSH and FIN.        *)
Takes(T, p) ==
  IF T \in UdpTypes THEN p.kind = "fragment"
  ELSE p.kind = "segment" \/ (T = "TCP4" /\ p.kind = "push")

Continues(q, p) == q.flow = p.flow /\ q.seq = p.seq + 1

LastPkt(r) == r.pkts[Len(r.pkts)]

Run(p, time) == [pkts |-> <<p>>, time |-> time]

(* Run s continues run r and the two fit into one packet.                  *)
Mergeable(r, s) ==
  /\ Continues(s.pkts[1], LastPkt(r))
  /\ Len(r.pkts) + Len(s.pkts) <= MaxRun

PktsOf(R) == UNION {{r.pkts[n] : n \in DOMAIN r.pkts} : r \in R}

Joined(r, s, time) == [pkts |-> r.pkts \o s.pkts, time |-> time]

(* Mutant: room is not looked for.                                         *)
ReassembleOutcomes_NoLimit(T, held, p, time, max_item_num) ==
  IF Takes(T, p) THEN {[ret |-> 0, held |-> held \cup {Run(p, time)}]}
                 ELSE {[ret |-> -1, held |-> held]}

(* A packet with PSH or FIN opens no flow; it makes the first item of a    *)
(* flow that is there due at once, whatever becomes of the packet itself.  *)
(* Which run of the flow comes first is left open.                         *)
Hurried(r) == [r EXCEPT !.time = 0]

FlowOf(held, p) == {r \in held : r.pkts[1].flow = p.flow}

Prepared(held, p) ==
  IF p.kind = "push" THEN {(held \ {r}) \cup {Hurried(r)} : r \in FlowOf(held, p)} ELSE {held}

Merged(held, r, j) == [ret |-> 1, held |-> (held \ {r}) \cup {j}]

Stored(held, x, max_item_num) ==
  IF Cardinality(held) = max_item_num THEN [ret |-> -1, held |-> held]
                                      ELSE [ret |-> 0, held |-> held \cup {x}]

(* The first neighbour met in the flow decides: x is merged with it, or    *)
(* stored if the two are too long for one packet.  Without a neighbour x   *)
(* is stored.  Which neighbour is met first is left open.                  *)
Processed(held, x, max_item_num) ==
  LET near   == {r \in held : Continues(x.pkts[1], LastPkt(r)) \/ Continues(r.pkts[1], LastPkt(x))}
      after  == {r \in held : Mergeable(r, x)}
      before == {r \in held : Mergeable(x, r)}
  IN  {Merged(held, r, Joined(r, x, r.time)) : r \in after}
      \cup {Merged(held, r, Joined(x, r, r.time)) : r \in before}
      \cup (IF near # {} /\ near = after \cup before THEN {} ELSE {Stored(held, x, max_item_num)})

(* What the reassemble function of a type returns and leaves of the runs   *)
(* held, when there is room for max_item_num of them.                      *)
ReassembleOutcomes(T, held, p, time, max_item_num) ==
  IF ~Takes(T, p) \/ Prepared(held, p) = {} THEN {[ret |-> -1, held |-> held]}
  ELSE UNION {Processed(h, Run(p, time), max_item_num) : h \in Prepared(held, p)}

IsDue(r, flush_timestamp) == r.time <= flush_timestamp

(* UDP types merge what became contiguous before they write a run.         *)
UniteOutcomes(T, held, flush_timestamp) ==
  IF T \notin UdpTypes THEN {}
  ELSE UNION {{(held \ {r, s}) \cup {Joined(r, s, r.time)} : s \in {t \in held : Mergeable(r, t)}} :
                 r \in {t \in held : IsDue(t, flush_timestamp)}}

(* The runs that the flush of a type may write next.  The order of flows   *)
(* in the table is any.                                                    *)
NextToWrite(T, held, flush_timestamp) ==
  {r \in held :
     /\ IsDue(r, flush_timestamp)
     /\ T \in UdpTypes => \A s \in held : ~Mergeable(r, s)}

(* Array s with r written to its entry n.                                  *)
PutAt(s, n, r) == [m \in 1..(IF n > Len(s) THEN n ELSE Len(s)) |-> IF m = n THEN r ELSE s[m]]

(* The flush may be through with a table: a run that is due is left only   *)
(* where one that is not due stands before it in its flow.                 *)
FlushedOut(held, flush_timestamp) ==
  \A r \in held :
     IsDue(r, flush_timestamp) =>
       \E s \in held : s.pkts[1].flow = r.pkts[1].flow /\ ~IsDue(s, flush_timestamp)
=============================================================================
