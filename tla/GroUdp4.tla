------------------------------- MODULE GroUdp4 -------------------------------
(***************************************************************************)
(* GRO of UDP/IPv4 fragments: plain (gro_udp4.c), in VXLAN                 *)
(* (gro_vxlan_udp4.c) and in GTP-U (gro_gtp_udp4.c).                       *)
(*                                                                         *)
(* A packet is one mbuf, seen through                                      *)
(*   id        : tells mbufs apart                                         *)
(*   dgram     : the header fields that are the same in all fragments of   *)
(*               one datagram (addresses, IPv4 ID, tunnel)                 *)
(*   off, mf   : fragment offset, here in units of payload, and MF bit     *)
(*   total,len : payload length by the IPv4 header and by pkt_len; they    *)
(*               differ by the padding of a short plain frame              *)
(***************************************************************************)
EXTENDS GroType, SequencesExt

CONSTANTS
  Encap,        (* "None", "VXLAN" or "GTP": which of the types this is    *)
  MaxPayload    (* MAX_IPV4_PKT_LENGTH less the headers                    *)

ASSUME UdpAssumption ==
  /\ Encap \in {"None", "VXLAN", "GTP"}
  /\ MaxPayload \in Nat
  /\ Pkts \subseteq [ id : Nat, dgram : STRING, off : Nat, mf : BOOLEAN, total : Nat, len : Nat ]

(* A frame with tunnel headers is longer than the shortest Ethernet frame: *)
(* no padding.                                                             *)
ASSUME TunnelAssumption ==
  Encap # "None" => \A p \in Pkts : p.len = p.total

(* id tells mbufs apart.                                                   *)
ASSUME IdAssumption == \A p, q \in Pkts : p.id = q.id => p = q

-----------------------------------------------------------------------------
(* Packets and items                                                       *)

(* gtp_udp4_flow_key reads its inner Ethernet addresses where a GTP packet *)
(* has the inner IPv4 header: total length, identification, fragment       *)
(* field.  The other two types have them where they are looked for.        *)
FlowKey(p) ==
  [dgram |-> p.dgram,
   eth   |-> IF Encap = "GTP" THEN [total_length |-> p.total, fragment_offset |-> p.off, mf |-> p.mf]
             ELSE "Ethernet addresses of dgram"]

(* "trim the tail padding bytes": the plain type only.                     *)
Trim(p) == IF Encap = "None" /\ p.len > p.total THEN [p EXCEPT !.len = p.total] ELSE p

(* The code keeps no length, it reads pkt_len of firstseg.                 *)
NewItem(p, time) ==
  [inner |->
     [ segs         |-> <<p>>,
       len          |-> p.len,
       frag_offset  |-> p.off,
       is_last_frag |-> ~p.mf,
       nb_merged    |-> 1,
       start_time   |-> time ]]

(* 1: the payload at off of length len continues x, -1: x continues it.    *)
CheckNeighbor(x, off, len) ==
  IF off = x.inner.frag_offset + x.inner.len THEN 1
  ELSE IF off + len = x.inner.frag_offset THEN -1
  ELSE 0

(* The payload length that a packet is held against its neighbours with:   *)
(* the plain type takes it from the IPv4 header, the others from pkt_len.  *)
IpDl(p) == IF Encap = "None" THEN p.total ELSE p.len

CanMerge(x, len) == x.inner.len + len <= MaxPayload

(* Mutant: only what is appended can be the end of the datagram.           *)
MergeTwoUdp4Packets_LastByAppend(x, y, cmp) ==
  [inner |-> [x.inner EXCEPT
     !.segs         = IF cmp > 0 THEN x.inner.segs \o y.inner.segs ELSE y.inner.segs \o x.inner.segs,
     !.len          = x.inner.len + y.inner.len,
     !.frag_offset  = IF cmp > 0 THEN x.inner.frag_offset ELSE y.inner.frag_offset,
     !.is_last_frag = IF cmp > 0 THEN y.inner.is_last_frag ELSE FALSE,
     !.nb_merged    = x.inner.nb_merged + 1]]

(* Mutant: what comes before x is chained behind it.                       *)
MergeTwoUdp4Packets_AlwaysBehind(x, y, cmp) ==
  [inner |-> [x.inner EXCEPT
     !.segs         = x.inner.segs \o y.inner.segs,
     !.len          = x.inner.len + y.inner.len,
     !.frag_offset  = IF cmp > 0 THEN x.inner.frag_offset ELSE y.inner.frag_offset,
     !.is_last_frag = x.inner.is_last_frag \/ y.inner.is_last_frag,
     !.nb_merged    = x.inner.nb_merged + 1]]

(* Merge y, a packet as an item of its own or an item, into item x.        *)
MergeTwoUdp4Packets(x, y, cmp) ==
  [inner |-> [x.inner EXCEPT
     !.segs         = IF cmp > 0 THEN x.inner.segs \o y.inner.segs ELSE y.inner.segs \o x.inner.segs,
     !.len          = x.inner.len + y.inner.len,
     !.frag_offset  = IF cmp > 0 THEN x.inner.frag_offset ELSE y.inner.frag_offset,
     !.is_last_frag = x.inner.is_last_frag \/ y.inner.is_last_frag,
     !.nb_merged    = x.inner.nb_merged + 1]]

(* The flushed packet has the IPv4 header of its first fragment, in which  *)
(* update_header rewrites the length and clears MF behind the last one.    *)
FlushedPacket(x) ==
  LET head   == Head(x.inner.segs)
      merged == x.inner.nb_merged > 1
  IN  [ segs   |-> x.inner.segs,
        ip_len |-> IF merged THEN x.inner.len ELSE head.total,
        off    |-> head.off,
        mf     |-> head.mf /\ ~(merged /\ x.inner.is_last_frag) ]

-----------------------------------------------------------------------------
(* gro_udp4_reassemble and its two relatives                               *)

IsFragment(p) == p.mf \/ p.off # 0

(* "Don't process": not a fragment, no payload.                            *)
Processed(p) == IsFragment(p) /\ p.len > 0 /\ p.total > 0

StoreFirst(t, f, x) ==
  IF FindEmptyItem(t) = {} THEN {Outcome(-1, t)}
  ELSE {Outcome(0, PutFirst(t, f, i, x)) : i \in FindEmptyItem(t)}

(* Mutant: the packet goes behind the one it has to stand before.          *)
StoreBefore_Behind(t, f, cur, x) == StoreInFlow(t, x, cur)

(* "Ensure inserted items are ordered by frag_offset"                      *)
StoreBefore(t, f, cur, x) ==
  IF cur = t.start_index[f] THEN StoreFirst(t, f, x)
  ELSE UNION {StoreInFlow(t, x, prev) : prev \in PrevOf(t, t.start_index[f], cur)}

(* A neighbour was met at cur: merge, or store behind the item before it   *)
(* when the datagram would be too long.                                    *)
MergeAt(t, f, cur, p, time) ==
  LET x == t.item[cur]
  IN  IF CanMerge(x, p.len)
      THEN {Outcome(1, SetItem(t, cur, MergeTwoUdp4Packets(x, NewItem(p, time),
                                                           CheckNeighbor(x, p.off, IpDl(p)))))}
      ELSE UNION {StoreInFlow(t, NewItem(p, time), prev) :
                     prev \in PrevOf(t, t.start_index[f], cur)}

(* Walk the flow up to a neighbour or an item with a larger offset.        *)
ProcessInFlow(t, f, p, time) ==
  LET start       == t.start_index[f]
      IsNeighbor(k) == CheckNeighbor(t.item[k], p.off, IpDl(p)) # 0
      stops       == {k \in Chain(t, start) : IsNeighbor(k) \/ p.off < t.item[k].inner.frag_offset}
  IN  IF stops = {}
      THEN UNION {StoreInFlow(t, NewItem(p, time), last) : last \in LastOf(t, start)}
      ELSE UNION {IF IsNeighbor(cur) THEN MergeAt(t, f, cur, p, time)
                  ELSE StoreBefore(t, f, cur, NewItem(p, time)) : cur \in FirstOf(t, stops)}

ReassembleTrimmed(t, m, time) ==
  IF ~Processed(m) THEN {Outcome(-1, t)}
  ELSE IF FindFlow(t, FlowKey(m)) = {}
       THEN StoreInNewFlow(t, NewItem(m, time), FlowKey(m))
       ELSE UNION {ProcessInFlow(t, f, m, time) : f \in FindFlow(t, FlowKey(m))}

Reassemble(t, p, time) == ReassembleTrimmed(t, Trim(p), time)

-----------------------------------------------------------------------------
Receive(p) == Offer(p, Reassemble(tbl, p, now))

(* The item behind slot j can be merged into it.                           *)
NextMerges(t, j) ==
  LET k == t.next_pkt_idx[j]
  IN  /\ k # INVALID_ARRAY_INDEX
      /\ CheckNeighbor(t.item[j], t.item[k].inner.frag_offset, t.item[k].inner.len) # 0
      /\ CanMerge(t.item[j], t.item[k].inner.len)

(* gro_udp4_merge_items, one turn of its loop: before a due item is        *)
(* written, the items behind it that became contiguous are merged into it. *)
FlushMerge ==
  LET j == tbl.start_index[fl.i]
      x == tbl.item[j]
      y == tbl.item[tbl.next_pkt_idx[j]]
  IN  /\ AtDueItem
      /\ NextMerges(tbl, j)
      /\ tbl' = Absorb(tbl, j, MergeTwoUdp4Packets(x, y,
                                 CheckNeighbor(x, y.inner.frag_offset, y.inner.len)))
      /\ UNCHANGED <<now, offered, back, out, fl>>

(* Mutant: what is behind the item stays unmerged.                         *)
FlushItem_NoMerge == AtDueItem /\ WriteFront(FlushedPacket(tbl.item[tbl.start_index[fl.i]]))

FlushItem ==
  /\ AtDueItem
  /\ ~NextMerges(tbl, tbl.start_index[fl.i])
  /\ WriteFront(FlushedPacket(tbl.item[tbl.start_index[fl.i]]))

FlushStep == FlushMerge \/ FlushItem \/ FlushNextFlow \/ FlushReturn

Next ==
  \/ \E p \in Pkts : Receive(p)
  \/ FlushCalls
  \/ FlushStep
  \/ Tick

Spec == Init /\ [][Next]_vars

FairSpec ==
  /\ Spec
  /\ WF_vars(FlushStep)
  /\ SF_vars(FlushAll)

-----------------------------------------------------------------------------
(* Properties                                                              *)

Trimmed == {Trim(p) : p \in Pkts}

Item ==
  [inner : [ segs : MbufChain(Trimmed), len : Nat, frag_offset : Nat,
             is_last_frag : BOOLEAN, nb_merged : Nat, start_time : Nat ]]

Key == {FlowKey(p) : p \in Trimmed}

OutPkt == [segs : MbufChain(Trimmed), ip_len : Nat, off : Nat, mf : BOOLEAN]

ASSUME NullAssumption == NULL \notin Item \cup Key \cup FlushLocals

(* Items and what is written are of the types above.                       *)
TypeOK == TypeInvariant(Item, Key, OutPkt)

(* The fragments that may be held.                                         *)
Candidates == {m \in Trimmed : Processed(m)}

(* q is the next fragment of the datagram of p.                            *)
Adjacent(p, q) == q.dgram = p.dgram /\ q.off = p.off + p.total

(* What the properties below need of the network.                          *)
(* No frame ends before the payload that its IP header announces does.     *)
FramesComplete == \A p \in Pkts : p.total <= p.len

(* The fragments of a flow are those of one datagram that was cut once.    *)
NoOverlap ==
  \A p, q \in Candidates :
     p # q /\ FlowKey(p) = FlowKey(q) => p.off + p.len <= q.off \/ q.off + q.len <= p.off

(* The fragment with MF clear is the last.                                 *)
NothingAfterLast == \A p, q \in Candidates : Adjacent(p, q) => p.mf

(* The whole datagram of a flow fits into one packet.                      *)
FitsOnePacket(k) ==
  \A p, q \in Candidates :
     FlowKey(p) = k /\ FlowKey(q) = k => q.off + q.len - p.off <= MaxPayload

(* The walk of the next fragment and the merge at flush time rely on the   *)
(* order of the items of a flow: each ends no later than the next starts.  *)
(* Only for a datagram that fits into one packet: an item too long to be   *)
(* merged with the one it comes before may be stored behind it, and what   *)
(* comes next goes by that.                                                *)
ChainsSorted ==
  \A f \in LiveFlows(tbl) :
     FitsOnePacket(tbl.key[f]) =>
        \A i \in Chain(tbl, tbl.start_index[f]) :
           LET k == tbl.next_pkt_idx[i]
               x == tbl.item[i].inner
           IN  k # INVALID_ARRAY_INDEX => x.frag_offset + x.len <= tbl.item[k].inner.frag_offset

TotalOf(s) == Payload([n \in DOMAIN s |-> s[n].total])

(* The IPv4 header of what is written describes its payload: the fragments *)
(* are contiguous, they start at its offset, their lengths add up to its   *)
(* length, and MF is clear exactly when they end with the last one.        *)
HeadersDescribePayload ==
  \A n \in DOMAIN out :
     LET s == out[n].segs
     IN  /\ \A m \in 1..(Len(s) - 1) : Adjacent(s[m], s[m + 1])
         /\ out[n].off = s[1].off
         /\ out[n].ip_len = TotalOf(s)
         /\ out[n].mf = s[Len(s)].mf

(* "On timeout/flush, contiguous fragments are merged": one call of flush  *)
(* never writes two packets of which the second continues the first, of a  *)
(* datagram that fits into one packet.  In GTP-U, where FlowKey sets       *)
(* fragments apart, this does not hold.                                    *)
FlushMergesContiguous ==
  [][ fl # NULL /\ Len(out') > Len(out) =>
        LET q == out'[Len(out')].segs[1]
        IN  FitsOnePacket(FlowKey(q)) =>
              \A n \in (Len(out) - fl.k + 1)..Len(out) :
                 ~ Adjacent(out[n].segs[Len(out[n].segs)], q) ]_vars

(* The plain service, on packets without their padding.                    *)
Service == INSTANCE GroService WITH
             Pkts    <- Trimmed,
             offered <- {Trim(p) : p \in offered},
             back    <- {Trim(p) : p \in back},
             held    <- {tbl.item[i].inner.segs : i \in HeldItems(tbl)},
             out     <- [n \in DOMAIN out |-> out[n].segs]

(* No fragment is lost, doubled or put where it does not belong.           *)
ImplementsService == Service!Spec
=============================================================================
