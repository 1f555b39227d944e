---------------------------- MODULE MCGroTunnelTcp4 ----------------------------
(* Small instances of GroTunnelTcp4.  Packets are built from the fields that   *)
(* matter; the rest is that of a plain segment without options.             *)
EXTENDS GroTunnelTcp4

Pkt(id, conn, seq, outer_ip_id) ==
  [ id |-> id, conn |-> conn, seq |-> seq, len |-> 1, ip_id |-> 0, df |-> TRUE,
    l4_len |-> 20, opts |-> "", flags |-> ACK, outer_ip_id |-> outer_ip_id, outer_df |-> FALSE ]

(* Connection A sends three segments across the wrap of the sequence        *)
(* number.  The second comes twice more, unchanged and with a TCP option.   *)
(* One packet of B: flow slots are freed and used by the other connection.  *)
SmallPkts ==
  { Pkt(1, "A", 6, 1), Pkt(2, "A", 7, 2), Pkt(3, "A", 0, 3), Pkt(4, "B", 0, 8),
    [Pkt(5, "A", 7, 2) EXCEPT !.opts = "ts"], Pkt(6, "A", 7, 2) }

(* Segments of one connection without DF, their IPv4 IDs increasing by 1.   *)
FragmentablePkts ==
  { [Pkt(n, "A", n, n) EXCEPT !.ip_id = n, !.df = FALSE] : n \in 1..3 }

(* Segments of unequal length, without DF, of two VXLAN connections that    *)
(* differ in nothing but the key; the IDs of both IPv4 headers count up.    *)
(* The last one of A has an outer DF bit.                                   *)
Seg(id, conn, seq, len, n) ==
  [Pkt(id, conn, seq, n) EXCEPT !.len = len, !.ip_id = n, !.df = FALSE]

VxlanPkts ==
  { Seg(1, "A", 6, 1, 1), Seg(2, "A", 7, 2, 2), Seg(3, "A", 1, 1, 3), [Seg(4, "A", 2, 1, 4) EXCEPT !.outer_df = TRUE],
    Seg(5, "B", 2, 1, 4) }

(* All of these are as the theorems about chains assume.                    *)
ASSUME IdsHypothesis == IdsTellOrder
=============================================================================
