------------------------------ MODULE MCGroTcp4 ------------------------------
(* Small instances of GroTcp4.                                              *)
EXTENDS GroTcp4

Pkt(id, conn, seq, len) ==
  [ id |-> id, conn |-> conn, seq |-> seq, len |-> len, total |-> len, ip_id |-> id,
    df |-> TRUE, l4_len |-> 20, opts |-> "", flags |-> ACK ]

Push(p) == [p EXCEPT !.flags = {"ACK", "PSH"}]

(* A segment or acknowledgement that is padded if it is in IPv4.            *)
Short(p) == IF Version = 4 THEN [p EXCEPT !.len = p.total + 1] ELSE p

(* Three segments of A across the wrap, the second short and padded, the    *)
(* third pushed; an acknowledgement of A that is padding only; three        *)
(* segments of B, one with FIN and one with RST.                            *)
SmallPkts ==
  { Pkt(1, "A", 7, 1), Short(Pkt(2, "A", 0, 1)), Push(Pkt(3, "A", 1, 2)),
    Short(Pkt(4, "A", 3, 0)), Pkt(5, "B", 1, 1),
    [Pkt(6, "B", 3, 1) EXCEPT !.flags = {"ACK", "RST"}],
    [Pkt(7, "B", 2, 1) EXCEPT !.flags = {"ACK", "FIN"}] }

(* A pushed segment and a plain one behind a gap.                           *)
PushPkts == { Pkt(1, "A", 0, 1), Pkt(2, "A", 2, 1), Push(Pkt(3, "A", 3, 2)) }

(* All of these are as the theorems about lengths and runs assume.          *)
ASSUME PacketsHypothesis == IdsTellOrder /\ FramesComplete
=============================================================================
