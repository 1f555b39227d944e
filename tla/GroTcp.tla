------------------------------- MODULE GroTcp -------------------------------
(***************************************************************************)
(* What the TCP types of lib/gro share (gro_tcp.h): the item a held TCP    *)
(* packet becomes, the test whether an incoming packet is its neighbour,   *)
(* and the merge of the two.                                               *)
(*                                                                         *)
(* A packet is one mbuf (the library supports single-mbuf input only),     *)
(* seen through the fields the code reads:                                 *)
(*   id      : tells mbufs apart                                           *)
(*   conn    : all header fields of the flow key that stay the same over   *)
(*             one connection (addresses, ports, acknowledge number, TEID) *)
(*   seq,len : sequence number and length of the payload                   *)
(*   ip_id,df: identification and DF bit of the (inner) IPv4 header        *)
(*   l4_len, opts, flags : TCP header length, option bytes, flag bits      *)
(*   outer_ip_id, outer_df : the same two fields of the outer IPv4 header, *)
(*             for packets of a tunnel                                     *)
(* segs is the mbuf chain firstseg..lastseg of an item; nb_segs of its     *)
(* head is the number of packets chained.                                  *)
(***************************************************************************)
EXTENDS GroType, SequencesExt

CONSTANTS
  SeqSpace,    (* sequence numbers are taken modulo this: 2^32 in the code *)
  MaxPayload,  (* MAX_IP_PKT_LENGTH less the headers: what one IPv4 packet
                  can carry                                                 *)
  MaxSegs      (* the longest mbuf chain a merge may append to: 20          *)

ASSUME TcpAssumption ==
  /\ SeqSpace \in Nat \ {0}
  /\ MaxPayload \in Nat
  /\ MaxSegs \in Nat \ {0}

(* An item that chains packets of S.                                       *)
TcpItem(S) ==
  [ segs : MbufChain(S), len : Nat, sent_seq : 0..(SeqSpace - 1), ip_id : Nat,
    is_atomic : BOOLEAN, nb_merged : Nat, start_time : Nat ]

ACK == {"ACK"}

(* The IPv4 ID of a packet whose DF bit is set is ignored.                 *)
IpId(p) == IF p.df THEN 0 ELSE p.ip_id

NewTcpItem(p, time) ==
  [ segs       |-> <<p>>,
    len        |-> p.len,
    sent_seq   |-> p.seq,
    ip_id      |-> IpId(p),
    is_atomic  |-> p.df,
    nb_merged  |-> 1,
    start_time |-> time ]

(* TCP options and the DF bit must be equal.                               *)
SameOptions(x, p) ==
  LET orig == Head(x.segs)
  IN  /\ p.l4_len = orig.l4_len
      /\ p.opts = orig.opts
      /\ p.df = x.is_atomic

(* Sequence numbers wrap, identifications (compared as int) do not.        *)
FollowsItem(x, p) ==
  /\ p.seq = (x.sent_seq + x.len) % SeqSpace
  /\ p.df \/ IpId(p) = x.ip_id + 1

LeadsItem(x, p) ==
  /\ (p.seq + p.len) % SeqSpace = x.sent_seq
  /\ p.df \/ IpId(p) + x.nb_merged = x.ip_id

(* Mutant: the options and the DF bit are not compared.                    *)
CheckSeqOption_NoOptions(x, p) ==
  IF FollowsItem(x, p) THEN 1 ELSE IF LeadsItem(x, p) THEN -1 ELSE 0

(* 1: append p to the item, -1: prepend it, 0: not neighbours.             *)
CheckSeqOption(x, p) ==
  IF ~SameOptions(x, p) THEN 0
  ELSE IF FollowsItem(x, p) THEN 1
  ELSE IF LeadsItem(x, p) THEN -1
  ELSE 0

(* A merge is refused when the IPv4 packet would be too long or the chain  *)
(* that becomes the head already has MaxSegs segments.                     *)
CanMerge(x, p, cmp) ==
  /\ x.len + p.len <= MaxPayload
  /\ cmp > 0 => Len(x.segs) < MaxSegs
  /\ cmp < 0 => 1 < MaxSegs

(* Mutant: sent_seq of a prepend is computed and does not wrap.            *)
MergeTwoTcpPackets_NoWrap(x, p, cmp) ==
  [x EXCEPT !.segs      = IF cmp > 0 THEN Append(x.segs, p) ELSE <<p>> \o x.segs,
            !.sent_seq  = IF cmp > 0 THEN x.sent_seq ELSE x.sent_seq - p.len,
            !.ip_id     = IpId(p),
            !.len       = x.len + p.len,
            !.nb_merged = x.nb_merged + 1]

(* On a prepend too the ID becomes that of p, the smaller one.             *)
MergeTwoTcpPackets(x, p, cmp) ==
  [x EXCEPT !.segs      = IF cmp > 0 THEN Append(x.segs, p) ELSE <<p>> \o x.segs,
            !.sent_seq  = IF cmp > 0 THEN x.sent_seq ELSE p.seq,
            !.ip_id     = IpId(p),
            !.len       = x.len + p.len,
            !.nb_merged = x.nb_merged + 1]

-----------------------------------------------------------------------------
(* Words for the properties of the types.                                  *)

(* q continues p, by the fields of the inner headers that the programmer's *)
(* guide names.                                                            *)
Follows(p, q) ==
  /\ q.seq = (p.seq + p.len) % SeqSpace
  /\ q.conn = p.conn
  /\ q.l4_len = p.l4_len /\ q.opts = p.opts
  /\ q.df = p.df /\ (p.df \/ q.ip_id = p.ip_id + 1)

(* The IPv4 IDs of packets without DF as a sender with a counter of its own *)
(* for the connection sets them: none is used twice, and a packet that     *)
(* continues another has the next one, or one set before (sent again, one  *)
(* of them has another ID).                                                *)
IdsCountUp(S) ==
  \A p, q \in S :
     p # q /\ p.conn = q.conn /\ ~p.df /\ ~q.df
     => /\ p.ip_id # q.ip_id
        /\ q.seq = (p.seq + p.len) % SeqSpace => q.ip_id <= p.ip_id + 1

PayloadOf(s) == Payload([n \in DOMAIN s |-> s[n].len])

(* Sequence number, length and merge count of a held item are those of its *)
(* mbuf chain s, which starts at sent_seq and ends len later.              *)
DescribesChain(x) ==
  LET last == x.segs[Len(x.segs)]
  IN  /\ x.sent_seq = x.segs[1].seq
      /\ (x.sent_seq + x.len) % SeqSpace = (last.seq + last.len) % SeqSpace
      /\ x.nb_merged = Len(x.segs)
=============================================================================
