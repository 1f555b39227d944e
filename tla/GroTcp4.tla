------------------------------- MODULE GroTcp4 -------------------------------
(***************************************************************************)
(* GRO of plain TCP over IPv4 (gro_tcp4.c) and over IPv6 (gro_tcp6.c), on  *)
(* the functions of gro_tcp_internal.h.                                    *)
(*                                                                         *)
(* A packet has one field more than GroTcp names: total, its payload       *)
(* length by the IP header, while len is what pkt_len leaves for payload,  *)
(* the padding of a short Ethernet frame included.  conn covers the whole  *)
(* flow key; for IPv6 that is the flow label too, and not the traffic      *)
(* class.                                                                  *)
(***************************************************************************)
EXTENDS GroTcp

CONSTANTS
  Version,    (* of IP: 4 or 6                                             *)
  FlagByte    (* l2_len + l3_len + the offset of tcp_flags: 47 bytes       *)

ASSUME Tcp4Assumption ==
  /\ Version \in {4, 6}
  /\ FlagByte \in Nat
  /\ Pkts \subseteq [ id : Nat, conn : STRING, seq : 0..(SeqSpace - 1), len : Nat,
                      total : Nat, ip_id : Nat, df : BOOLEAN, l4_len : Nat, opts : STRING,
                      flags : SUBSET {"ACK", "PSH", "FIN", "SYN", "RST"} ]

(* id tells mbufs apart.                                                   *)
ASSUME IdAssumption == \A p, q \in Pkts : p.id = q.id => p = q

(* IPv6 has no ID (gro_tcp6.c passes ip_id 0 and is_atomic true) and its   *)
(* headers are longer than the shortest Ethernet frame: no padding.        *)
ASSUME Tcp6Assumption ==
  Version = 6 => \A p \in Pkts : p.df /\ p.len = p.total

-----------------------------------------------------------------------------
(* Packets and items                                                       *)

(* Mutant: padding is taken for payload.                                   *)
Trim_Nothing(p) == p

(* "trim the tail padding bytes"                                           *)
Trim(p) == IF p.len > p.total THEN [p EXCEPT !.len = p.total] ELSE p

(* scribbled: packets of the chain whose payload a merge wrote into.       *)
NewItem(p, time) == [inner |-> NewTcpItem(p, time), scribbled |-> {}]

(* The flags of p other than ACK are OR-ed at FlagByte of p.  When p was   *)
(* prepended that is its own header.  When it was appended its header has  *)
(* been removed, and the byte is payload, if p has that many.              *)
MergeItem(x, p, cmp) ==
  [x EXCEPT !.inner = MergeTwoTcpPackets(x.inner, p, cmp),
            !.scribbled = IF cmp > 0 /\ p.flags # ACK /\ p.len > FlagByte
                          THEN x.scribbled \cup {p} ELSE x.scribbled]

(* update_header rewrites the length in the IP header of a merged packet;  *)
(* the TCP header is that of the first packet.                             *)
FlushedPacket(x) ==
  [ segs      |-> x.inner.segs,
    ip_len    |-> IF x.inner.nb_merged > 1 THEN x.inner.len ELSE Head(x.inner.segs).total,
    flags     |-> Head(x.inner.segs).flags,
    scribbled |-> x.scribbled ]

-----------------------------------------------------------------------------
(* gro_tcp4_reassemble, gro_tcp6_reassemble                                *)

VALID_GRO_TCP_FLAGS == {"ACK", "PSH", "FIN"}

(* Mutant: on IPv4 any flags are processed.                                *)
Processed_AnyFlags(p) ==
  /\ p.l4_len \in 20..60
  /\ IF Version = 4 THEN p.flags # {} ELSE p.flags = ACK
  /\ p.len > 0

Processed(p) ==
  /\ p.l4_len \in 20..60
  /\ IF Version = 4 THEN p.flags # {} /\ p.flags \subseteq VALID_GRO_TCP_FLAGS
                    ELSE p.flags = ACK
  /\ p.len > 0

(* PSH or FIN: the first item of the flow becomes due at once.             *)
HurryFirst(t, f, p) ==
  LET first == t.start_index[f]
  IN  IF p.flags = ACK THEN t
      ELSE SetItem(t, first, [t.item[first] EXCEPT !.inner.start_time = 0])

(* A neighbour was met at cur: merge, or store behind it when the merged   *)
(* packet would be too big.                                                *)
MergeAt(t, f, cur, p, time) ==
  LET x   == t.item[cur]
      cmp == CheckSeqOption(x.inner, p)
  IN  IF CanMerge(x.inner, p, cmp)
      THEN {Outcome(1, SetItem(t, cur, MergeItem(x, p, cmp)))}
      ELSE StoreInFlow(t, NewItem(p, time), cur)

(* Walk the flow for a neighbour; without one, store at the end.           *)
ProcessTcpItem(t, f, p, time) ==
  LET start      == t.start_index[f]
      neighbours == {k \in Chain(t, start) : CheckSeqOption(t.item[k].inner, p) # 0}
  IN  IF neighbours = {}
      THEN UNION {StoreInFlow(t, NewItem(p, time), last) : last \in LastOf(t, start)}
      ELSE UNION {MergeAt(t, f, cur, p, time) : cur \in FirstOf(t, neighbours)}

(* m is the packet without its padding.  A new flow is opened for a pure   *)
(* ACK only.                                                               *)
ReassembleTrimmed(t, m, time) ==
  IF ~Processed(m) THEN {Outcome(-1, t)}
  ELSE IF FindFlow(t, m.conn) # {}
       THEN UNION {ProcessTcpItem(HurryFirst(t, f, m), f, m, time) : f \in FindFlow(t, m.conn)}
       ELSE IF m.flags = ACK THEN StoreInNewFlow(t, NewItem(m, time), m.conn)
       ELSE {Outcome(-1, t)}

Reassemble(t, p, time) == ReassembleTrimmed(t, Trim(p), time)

-----------------------------------------------------------------------------
Receive(p) == Offer(p, Reassemble(tbl, p, now))

FlushItem == AtDueItem /\ WriteFront(FlushedPacket(tbl.item[tbl.start_index[fl.i]]))

FlushStep == FlushItem \/ FlushNextFlow \/ FlushReturn

Next ==
  \/ \E p \in Pkts : Receive(p)
  \/ FlushCalls
  \/ FlushStep
  \/ Tick

Spec == Init /\ [][Next]_vars

-----------------------------------------------------------------------------
(* Properties                                                              *)

Trimmed == {Trim(p) : p \in Pkts}

Item == [inner : TcpItem(Trimmed), scribbled : SUBSET Trimmed]

Key == {p.conn : p \in Pkts}

OutPkt ==
  [segs : MbufChain(Trimmed), ip_len : Nat, flags : SUBSET VALID_GRO_TCP_FLAGS, scribbled : SUBSET Trimmed]

ASSUME NullAssumption == NULL \notin Item \cup Key \cup FlushLocals

(* Items and what is written are of the types above.                       *)
TypeOK == TypeInvariant(Item, Key, OutPkt)

TotalOf(s) == Payload([n \in DOMAIN s |-> s[n].total])

(* What is kept as the length of an item and what flush writes into the IP *)
(* header is the payload the IP headers of its packets announced: padding  *)
(* never becomes payload.                                                  *)
LengthsAddUp ==
  /\ \A i \in HeldItems(tbl) : tbl.item[i].inner.len = TotalOf(tbl.item[i].inner.segs)
  /\ \A n \in DOMAIN out : out[n].ip_len = TotalOf(out[n].segs)

(* The packets that may be held.                                           *)
Candidates == {m \in Trimmed : Processed(m)}

(* What the properties of runs need of the IDs of IPv4 headers (IPv6 has   *)
(* none): on a prepend the ID kept becomes that of the first packet, and   *)
(* the neighbour test goes on to take it for that of the last.             *)
IdsTellOrder == Version = 6 \/ IdsCountUp(Candidates)

(* No frame ends before the payload that its IP header announces does.     *)
FramesComplete == \A p \in Pkts : p.total <= p.len

(* The plain service, on packets without their padding.                    *)
Service == INSTANCE GroService WITH
             Pkts     <- Trimmed,
             Adjacent <- Follows,
             offered  <- {Trim(p) : p \in offered},
             back     <- {Trim(p) : p \in back},
             held     <- {tbl.item[i].inner.segs : i \in HeldItems(tbl)},
             out      <- [n \in DOMAIN out |-> out[n].segs]

(* No packet is lost, doubled or reordered within a run.                   *)
ImplementsService == Service!Spec

-----------------------------------------------------------------------------
(* What texts of the repository say and the code does not do.              *)

(* "Handle TCP flags like FIN and PUSH correctly": what leaves carries the *)
(* flags of all its packets, and no merge has written flags into payload.  *)
FlagsKept ==
  \A n \in DOMAIN out :
     /\ out[n].flags = UNION {p.flags : p \in Range(out[n].segs)}
     /\ out[n].scribbled = {}
=============================================================================
