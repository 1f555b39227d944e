----------------------------- MODULE RteGroBurst -----------------------------
(***************************************************************************)
(* The lightweight mode of rte_gro.c: one call of                          *)
(* rte_gro_reassemble_burst, which merges the packets of an array with     *)
(* each other in tables on its stack, and writes what it made of them      *)
(* back into the array.  One step per packet looked at or written.         *)
(***************************************************************************)
EXTENDS RteGroTypes

CONSTANTS
  Pkts,         (* the packets a burst is made of                          *)
  GroTypes,     (* param->gro_types                                        *)
  MaxItems,     (* param->max_flow_num * param->max_item_per_flow          *)
  BurstLimit,   (* RTE_GRO_MAX_BURST_ITEM_NUM                              *)
  MaxBurst,     (* the longest burst                                       *)
  NULL

ASSUME BurstAssumption ==
  GroTypes \subseteq GroType /\ MaxItems \in Nat /\ BurstLimit \in Nat /\ MaxBurst \in Nat \ {0}

VARIABLES
  pkts,      (* the array: a sequence of runs                              *)
  given,     (* what it held when the call was made                        *)
  tbls,      (* type -> runs held in its table on the stack                *)
  call       (* local variables                                            *)

vars == <<pkts, given, tbls, call>>

Bursts ==
  UNION {{b \in [1..n -> Pkts] : \A i, j \in 1..n : b[i] = b[j] => i = j} : n \in 1..MaxBurst}

MinOf(a, b) == IF a < b THEN a ELSE b

(* "Get the maximum number of packets"                                     *)
ItemNum(nb_pkts) == MinOf(MinOf(nb_pkts, MaxItems), BurstLimit)

Init ==
  \E b \in Bursts :
     /\ given = b
     /\ pkts = [n \in DOMAIN b |-> Run(b[n], 0)]
     /\ tbls = [T \in GroType |-> {}]
     /\ call = [pc |-> "reassemble", p |-> 1, unprocess_num |-> 0, nb_after_gro |-> Len(b),
                t |-> 1, i |-> 0, k |-> 0]

nb_pkts == Len(given)

Returned ==
  /\ pkts' = [pkts EXCEPT ![call.unprocess_num + 1] = pkts[call.p]]
  /\ call' = [call EXCEPT !.p = call.p + 1, !.unprocess_num = call.unprocess_num + 1]

(* Mutant: a packet that is only stored counts as merged.                  *)
Kept_CountsAll(ret) ==
  /\ call' = [call EXCEPT !.p = call.p + 1, !.nb_after_gro = call.nb_after_gro - 1]
  /\ UNCHANGED pkts

(* The packet is in a table.                                               *)
Kept(ret) ==
  /\ call' = [call EXCEPT !.p = call.p + 1,
                          !.nb_after_gro = IF ret > 0 THEN call.nb_after_gro - 1
                                                      ELSE call.nb_after_gro]
  /\ UNCHANGED pkts

(* One turn of the loop over the packets.                                  *)
ReassemblePkt ==
  LET p == pkts[call.p].pkts[1]
  IN  /\ call.pc = "reassemble"
      /\ call.p <= nb_pkts
      /\ \/ /\ DispatchTo(p, GroTypes) = {}
            /\ Returned
            /\ UNCHANGED tbls
         \/ \E T \in DispatchTo(p, GroTypes) :
            \E o \in ReassembleOutcomes(T, tbls[T], p, 0, ItemNum(nb_pkts)) :
               /\ tbls' = [tbls EXCEPT ![T] = o.held]
               /\ \/ o.ret < 0 /\ Returned
                  \/ o.ret >= 0 /\ Kept(o.ret)
      /\ UNCHANGED given

(* Mutant: the flush begins behind nb_after_gro packets.                   *)
FlushStart_AfterGro == call.nb_after_gro

FlushStart == call.unprocess_num

(* Flush, unless every packet was given back.                              *)
ReassembleDone ==
  /\ call.pc = "reassemble"
  /\ call.p > nb_pkts
  /\ call' = IF call.nb_after_gro < nb_pkts \/ call.unprocess_num < nb_pkts
             THEN [call EXCEPT !.pc = "flush", !.i = FlushStart]
             ELSE [call EXCEPT !.pc = "done"]
  /\ UNCHANGED <<pkts, given, tbls>>

-----------------------------------------------------------------------------
Flushing == TypeOrder[call.t]

InFlush == call.pc = "flush" /\ call.t <= Len(TypeOrder)

(* Mutant: the count is set anew with every type.                          *)
TypeDone_SetsI(k) == [call EXCEPT !.t = call.t + 1, !.i = k, !.k = 0]

(* The flush of a type returns k.                                          *)
TypeDone(k) == [call EXCEPT !.t = call.t + 1, !.i = call.i + k, !.k = 0]

FlushUnite ==
  /\ InFlush
  /\ \E held \in UniteOutcomes(Flushing, tbls[Flushing], 0) :
        tbls' = [tbls EXCEPT ![Flushing] = held]
  /\ UNCHANGED <<pkts, given, call>>

(* Write a packet at pkts[i + k]; return when nb_pkts - i are written.     *)
FlushWrite ==
  /\ InFlush
  /\ \E r \in NextToWrite(Flushing, tbls[Flushing], 0) :
       /\ tbls' = [tbls EXCEPT ![Flushing] = tbls[Flushing] \ {r}]
       /\ pkts' = PutAt(pkts, call.i + call.k + 1, r)
  /\ call' = IF call.k + 1 = nb_pkts - call.i THEN TypeDone(call.k + 1)
                                              ELSE [call EXCEPT !.k = call.k + 1]
  /\ UNCHANGED given

FlushTypeDone ==
  /\ InFlush
  /\ FlushedOut(tbls[Flushing], 0)
  /\ call' = TypeDone(call.k)
  /\ UNCHANGED <<pkts, given, tbls>>

FlushDone ==
  /\ call.pc = "flush"
  /\ call.t > Len(TypeOrder)
  /\ call' = [call EXCEPT !.pc = "done"]
  /\ UNCHANGED <<pkts, given, tbls>>

Next ==
  \/ ReassemblePkt \/ ReassembleDone
  \/ FlushUnite \/ FlushWrite \/ FlushTypeDone \/ FlushDone

Spec == Init /\ [][Next]_vars

-----------------------------------------------------------------------------
(* Properties                                                              *)

Held == UNION {tbls[T] : T \in GroType}

Runs == [pkts : Seq(Pkts) \ {<<>>}, time : {0}]

(* Locals have their types.                                                *)
TypeOK ==
  /\ pkts \in Seq(Runs)
  /\ \A T \in GroType : tbls[T] \subseteq Runs /\ Cardinality(tbls[T]) <= ItemNum(nb_pkts)
  /\ call.unprocess_num \in 0..nb_pkts
  /\ call.nb_after_gro \in 0..nb_pkts
  /\ call.i \in 0..nb_pkts
  /\ call.k \in 0..nb_pkts

(* The array never grows: what the tables still hold fits behind what has  *)
(* been written, so the flush of no type runs out of room, and none is     *)
(* called with room 0, which would mean no limit, while it holds a packet. *)
RoomForHeld ==
  /\ Len(pkts) = nb_pkts
  /\ call.pc = "flush" => call.i + call.k + Cardinality(Held) <= nb_pkts

Written == {pkts[n] : n \in 1..call.i}

(* When the call returns its stack is gone: no table may hold a packet,    *)
(* and what was written has every packet of the burst once.                *)
NothingLeftOnStack ==
  call.pc = "done" /\ call.unprocess_num < nb_pkts =>
    /\ Held = {}
    /\ PktsOf(Written) = {given[n] : n \in DOMAIN given}
    /\ \A n, m \in 1..call.i : n # m => PktsOf({pkts[n]}) \cap PktsOf({pkts[m]}) = {}

(* "The number of packets after been GROed" is what the caller goes on     *)
(* with: the first nb_after_gro entries of the array are the packets of    *)
(* the burst, each once.                                                   *)
ReturnCountsPackets ==
  call.pc = "done" =>
    /\ PktsOf({pkts[n] : n \in 1..call.nb_after_gro}) = {given[n] : n \in DOMAIN given}
    /\ \A n, m \in 1..call.nb_after_gro :
          n # m => PktsOf({pkts[n]}) \cap PktsOf({pkts[m]}) = {}

(* ... which holds for bursts without fragments.                           *)
ReturnCountsSegments ==
  (\A n \in DOMAIN given : given[n].kind # "fragment") => ReturnCountsPackets

(* "Packets of unsupported GRO types" are returned: with some types        *)
(* enabled and others not, packets of one tunnel are never put into the    *)
(* table of another or of none, whatever bits their outer headers share.   *)
TunnelOfTable ==
  \A T \in GroType : \A p \in PktsOf(tbls[T]) :
     p.ptype.tunnel = CASE T \in {"VXLAN_TCP", "VXLAN_UDP"} -> TUNNEL_VXLAN
                        [] T \in {"GTP_TCP", "GTP_UDP"}     -> TUNNEL_GTPU
                        [] OTHER                            -> 0
=============================================================================
