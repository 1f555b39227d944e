------------------------------ MODULE MCGroUdp4 ------------------------------
(* Small instances of GroUdp4.                                              *)
EXTENDS GroUdp4

Frag(id, dgram, off, total, mf) ==
  [id |-> id, dgram |-> dgram, off |-> off, mf |-> mf, total |-> total, len |-> total]

(* A datagram of three fragments, the last one padded if it is a plain one; *)
(* one of two fragments that do not fit into one packet; and a packet that  *)
(* is no fragment.                                                          *)
SmallPkts ==
  { Frag(1, "A", 0, 1, TRUE), Frag(2, "A", 1, 1, TRUE),
    [Frag(3, "A", 2, 1, FALSE) EXCEPT !.len = IF Encap = "None" THEN 2 ELSE 1],
    Frag(4, "B", 0, 2, TRUE), Frag(5, "B", 2, 2, FALSE), Frag(6, "C", 0, 1, FALSE) }

(* What the theorems about GroUdp4 take for granted holds here.             *)
ASSUME FramesComplete /\ NoOverlap /\ NothingAfterLast
=============================================================================
