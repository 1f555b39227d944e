--------------------------- MODULE GroTunnelTcp4 ---------------------------
(***************************************************************************)
(* GRO of TCP/IPv4 packets in a tunnel: GTP-U (gro_gtp_tcp4.c) or VXLAN    *)
(* (gro_vxlan_tcp4.c), two files that differ in the flow key.              *)
(***************************************************************************)
EXTENDS GroTcp

CONSTANT
  Tunnel      (* "GTP" or "VXLAN": which of the two types this is          *)

ASSUME TunnelAssumption ==
  /\ Tunnel \in {"GTP", "VXLAN"}
  /\ Pkts \subseteq [ id : Nat, conn : STRING, seq : 0..(SeqSpace - 1), len : Nat,
                      ip_id : Nat, df : BOOLEAN, l4_len : Nat, opts : STRING,
                      flags : SUBSET {"ACK", "PSH", "FIN", "SYN", "RST"},
                      outer_ip_id : Nat, outer_df : BOOLEAN ]

-----------------------------------------------------------------------------
(* Packets and items                                                       *)

(* gtp_tcp4_flow_key and vxlan_tcp4_flow_key.  The inner Ethernet          *)
(* addresses of the key are read behind the tunnel header.  A GTP packet   *)
(* has no inner Ethernet header: what is there is the inner IPv4 header,   *)
(* with its total length, identification, fragment field and checksum.     *)
FlowKey(p) ==
  [conn |-> p.conn,
   eth  |-> IF Tunnel = "GTP"
            THEN [total_length |-> p.l4_len + p.len, packet_id |-> p.ip_id, df |-> p.df]
            ELSE "inner Ethernet addresses of conn"]

OuterIpId(p) == IF p.outer_df THEN 0 ELSE p.outer_ip_id

NewItem(p, time) ==
  [inner |-> NewTcpItem(p, time), outer_ip_id |-> OuterIpId(p), outer_is_atomic |-> p.outer_df]

(* Mutant: the outer DF bits are not compared.                             *)
CheckTunnelSeqOption_AnyDf(x, p) ==
  LET cmp == CheckSeqOption(x.inner, p)
      agrees == \/ p.outer_df
                \/ cmp > 0 /\ OuterIpId(p) = x.outer_ip_id + 1
                \/ cmp < 0 /\ OuterIpId(p) + x.inner.nb_merged = x.outer_ip_id
  IN  IF agrees THEN cmp ELSE 0

(* check_gtp_seq_option, check_vxlan_seq_option: the inner test decides    *)
(* front or back, the outer DF bit and identification may still veto it.   *)
CheckTunnelSeqOption(x, p) ==
  LET cmp == CheckSeqOption(x.inner, p)
      agrees == \/ p.outer_df
                \/ cmp > 0 /\ OuterIpId(p) = x.outer_ip_id + 1
                \/ cmp < 0 /\ OuterIpId(p) + x.inner.nb_merged = x.outer_ip_id
  IN  IF x.outer_is_atomic = p.outer_df /\ agrees THEN cmp ELSE 0

(* A merge; the outer ID kept is the larger one.                           *)
MergeTwoTunnelPackets(x, p, cmp) ==
  [x EXCEPT !.inner = MergeTwoTcpPackets(x.inner, p, cmp),
            !.outer_ip_id = IF cmp > 0 THEN OuterIpId(p) ELSE x.outer_ip_id]

(* Mutant: the headers of the first segment go out as they came.           *)
FlushedPacket_NoUpdate(x) ==
  [ segs   |-> x.inner.segs,
    ip_len |-> Head(x.inner.segs).len ]

(* The flushed packet: its mbuf chain and its length fields.  On a merged  *)
(* packet update_gtp_header (update_vxlan_header) rewrites those of the    *)
(* outer IPv4, outer UDP and inner IPv4 header, all as ip_len here.  (It   *)
(* leaves the length in the GTP header, which is that of the first         *)
(* segment.)                                                               *)
FlushedPacket(x) ==
  [ segs   |-> x.inner.segs,
    ip_len |-> IF x.inner.nb_merged > 1 THEN x.inner.len ELSE Head(x.inner.segs).len ]

-----------------------------------------------------------------------------
(* gro_gtp_tcp4_reassemble, gro_vxlan_tcp4_reassemble                      *)

(* "Don't process": TCP header length, flags other than ACK, no payload.   *)
Processed(p) ==
  /\ p.l4_len \in 20..60
  /\ p.flags = ACK
  /\ p.len > 0

(* A neighbour was met at cur: merge, or store before it when the merged   *)
(* packet would be too big.                                                *)
MergeAt(t, f, cur, p, time) ==
  LET x   == t.item[cur]
      cmp == CheckTunnelSeqOption(x, p)
  IN  IF CanMerge(x.inner, p, cmp)
      THEN {Outcome(1, SetItem(t, cur, MergeTwoTunnelPackets(x, p, cmp)))}
      ELSE UNION {StoreInFlow(t, NewItem(p, time), prev) :
                     prev \in PrevOf(t, t.start_index[f], cur)}

(* Walk the flow for a neighbour; without one, store at the end.           *)
ProcessInFlow(t, f, p, time) ==
  LET start      == t.start_index[f]
      neighbours == {k \in Chain(t, start) : CheckTunnelSeqOption(t.item[k], p) # 0}
  IN  IF neighbours = {}
      THEN UNION {StoreInFlow(t, NewItem(p, time), last) : last \in LastOf(t, start)}
      ELSE UNION {MergeAt(t, f, cur, p, time) : cur \in FirstOf(t, neighbours)}

Reassemble(t, p, time) ==
  IF ~Processed(p) THEN {Outcome(-1, t)}
  ELSE IF FindFlow(t, FlowKey(p)) = {}
       THEN StoreInNewFlow(t, NewItem(p, time), FlowKey(p))
       ELSE UNION {ProcessInFlow(t, f, p, time) : f \in FindFlow(t, FlowKey(p))}

-----------------------------------------------------------------------------
Receive(p) == Offer(p, Reassemble(tbl, p, now))

FlushItem == AtDueItem /\ WriteFront(FlushedPacket(tbl.item[tbl.start_index[fl.i]]))

FlushStep == FlushItem \/ FlushNextFlow \/ FlushReturn

Next ==
  \/ \E p \in Pkts : Receive(p)
  \/ FlushCalls
  \/ FlushStep
  \/ Tick

Spec == Init /\ [][Next]_vars

(* A call of flush runs to its end, and the application keeps calling it   *)
(* with a timeout of 0 and some room (testpmd does, every few bursts).     *)
FairSpec ==
  /\ Spec
  /\ WF_vars(FlushStep)
  /\ SF_vars(FlushAll)

-----------------------------------------------------------------------------
(* Properties                                                              *)

Item == [inner : TcpItem(Pkts), outer_ip_id : Nat, outer_is_atomic : BOOLEAN]

Key == {FlowKey(p) : p \in Pkts}

(* NULL is none of the things it stands for the absence of.                *)
ASSUME NullAssumption == NULL \notin Item \cup Key \cup FlushLocals

OutPkt == [segs : MbufChain(Pkts), ip_len : Nat]

(* Items and what is written are of the types above.                       *)
TypeOK == TypeInvariant(Item, Key, OutPkt)

(* q continues p, the outer headers included.                              *)
Adjacent(p, q) ==
  /\ Follows(p, q)
  /\ q.outer_df = p.outer_df /\ (p.outer_df \/ q.outer_ip_id = p.outer_ip_id + 1)

(* The packets that may be held.                                           *)
Candidates == {p \in Pkts : Processed(p)}

(* What the two properties that follow need of the IDs of the inner IPv4   *)
(* headers.  In GTP-U the ID is part of the flow key, so that packets      *)
(* without DF never merge.  In VXLAN a sender has to count: on a prepend   *)
(* the ID kept becomes that of the first packet (MergeTwoTcpPackets), and  *)
(* the neighbour test goes on to take it for that of the last.             *)
IdsTellOrder == Tunnel = "GTP" \/ IdsCountUp(Candidates)

RunOfPackets(s) == \A n \in 1..(Len(s) - 1) : Adjacent(s[n], s[n + 1])

(* The fields of a held item describe its mbuf chain: the chain is one     *)
(* contiguous run of one connection, with the start, length and count that *)
(* the item keeps, and the outer ID kept is that of its last packet.  The  *)
(* next neighbour test relies on nothing else.                             *)
ItemsDescribeChains ==
  \A i \in HeldItems(tbl) :
     LET x == tbl.item[i]
         s == x.inner.segs
     IN  /\ RunOfPackets(s)
         /\ DescribesChain(x.inner)
         /\ x.outer_ip_id = OuterIpId(s[Len(s)])

(* The length kept for an item is the payload of its chain, whatever the   *)
(* order of appends and prepends, and so is the one flush puts in the IPv4 *)
(* and outer UDP headers of a merged packet.                               *)
LengthsAddUp ==
  /\ \A i \in HeldItems(tbl) : tbl.item[i].inner.len = PayloadOf(tbl.item[i].inner.segs)
  /\ \A n \in DOMAIN out : out[n].ip_len = PayloadOf(out[n].segs)

(* A packet sits in the flow of its own key, whatever was merged, stored   *)
(* or flushed around it and however often flow slots were reused.          *)
PacketsInTheirFlow ==
  \A f \in LiveFlows(tbl) : \A i \in Chain(tbl, tbl.start_index[f]) :
     \A n \in DOMAIN tbl.item[i].inner.segs :
        FlowKey(tbl.item[i].inner.segs[n]) = tbl.key[f]

(* The table is an implementation of the plain service: what is held is    *)
(* what the items chain, and no packet is lost, doubled or reordered       *)
(* within a run.                                                           *)
Service == INSTANCE GroService WITH
             held <- {tbl.item[i].inner.segs : i \in HeldItems(tbl)},
             out  <- [n \in DOMAIN out |-> out[n].segs]

ImplementsService == Service!Spec

-----------------------------------------------------------------------------
(* What texts of the repository say and the code does not do.              *)

(* "If find a neighbor, merge the two packets together": a packet is not   *)
(* stored on its own while a run it continues is held (and has room).      *)
NeighboursMerge ==
  [][ \A i \in HeldItems(tbl)', p \in offered' \ offered :
        tbl'.item[i].inner.segs = <<p>> =>
          \A j \in HeldItems(tbl) :
             LET x == tbl.item[j].inner
             IN  CanMerge(x, p, 1) => ~Adjacent(x.segs[Len(x.segs)], p) ]_vars
=============================================================================
