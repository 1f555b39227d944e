----------------------------- MODULE GroService -----------------------------
(***************************************************************************)
(* What a GRO type promises an application, without tables, slots, times   *)
(* or limits.  Packets are handed over one by one.  Each is given back at  *)
(* once, or held: alone, or joined to the front or the back of a held run  *)
(* of packets that it is adjacent to.  Two held runs that turn out to be   *)
(* adjacent may be united.  Held runs are delivered, each once.            *)
(***************************************************************************)
EXTENDS Integers, Sequences

CONSTANTS
  Pkts,            (* the packets of the run                               *)
  Adjacent(_, _)   (* Adjacent(p, q): q continues p                        *)

VARIABLES
  offered,  (* packets handed over so far                                  *)
  held,     (* the runs held, each a sequence of packets                   *)
  out,      (* the runs delivered, in order                                *)
  back      (* packets given back unprocessed                              *)

vars == <<offered, held, out, back>>

Init ==
  /\ offered = {}
  /\ held = {}
  /\ out = <<>>
  /\ back = {}

Refuse(p) ==
  /\ back' = back \cup {p}
  /\ UNCHANGED <<held, out>>

Hold(p) ==
  /\ held' = held \cup {<<p>>}
  /\ UNCHANGED <<out, back>>

Join(p) ==
  /\ \E b \in held :
       \/ /\ Adjacent(b[Len(b)], p)
          /\ held' = (held \ {b}) \cup {Append(b, p)}
       \/ /\ Adjacent(p, b[1])
          /\ held' = (held \ {b}) \cup {<<p>> \o b}
  /\ UNCHANGED <<out, back>>

Offer(p) ==
  /\ p \notin offered
  /\ offered' = offered \cup {p}
  /\ Refuse(p) \/ Hold(p) \/ Join(p)

Unite ==
  /\ \E a, b \in held :
       /\ a # b
       /\ Adjacent(a[Len(a)], b[1])
       /\ held' = (held \ {a, b}) \cup {a \o b}
  /\ UNCHANGED <<offered, out, back>>

Deliver ==
  /\ \E b \in held : held' = held \ {b} /\ out' = Append(out, b)
  /\ UNCHANGED <<offered, back>>

Next == (\E p \in Pkts : Offer(p)) \/ Unite \/ Deliver

Spec == Init /\ [][Next]_vars
=============================================================================
