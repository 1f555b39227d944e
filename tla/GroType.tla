------------------------------- MODULE GroType -------------------------------
(***************************************************************************)
(* One GRO type of lib/gro and the application that uses it: what the      *)
(* gro_*_reassemble and gro_*_tbl_timeout_flush functions of all types     *)
(* have in common.  The module of a type says what its items and keys are, *)
(* what a call of its reassemble function may leave, and what it writes    *)
(* when an item is flushed; this module holds the state, the ways to store *)
(* a packet, the loops of the flush, and the properties every type has.    *)
(*                                                                         *)
(* A call of reassemble is one step.  A call of timeout_flush takes one    *)
(* step per turn of its loops; fl holds its local variables, and nothing   *)
(* else runs until it returns (the library is not thread safe, one lcore   *)
(* uses one table).                                                        *)
(*                                                                         *)
(* Items are records with a field inner that has at least segs, the mbuf   *)
(* chain firstseg..lastseg, and start_time.                                *)
(***************************************************************************)
EXTENDS GroTable, Sequences

CONSTANTS
  Pkts,       (* the packets that may arrive, each once                    *)
  MaxTime,    (* bound of the clock                                        *)
  NbOut       (* the lengths of 'out' that flush is called with            *)

ASSUME CallAssumption == MaxTime \in Nat /\ NbOut \subseteq Nat

VARIABLES
  tbl,       (* the reassembly table                                       *)
  now,       (* the cycle counter                                          *)
  offered,   (* packets handed to reassemble so far                        *)
  back,      (* packets for which reassemble returned -1                   *)
  out,       (* packets flush wrote, in order                              *)
  fl         (* local variables of the flush call in progress, or NULL     *)

vars == <<tbl, now, offered, back, out, fl>>

-----------------------------------------------------------------------------
(* What a call of reassemble returns and leaves.                           *)

Outcome(ret, t) == [ret |-> ret, tbl |-> t]

(* Mutant: the result of the insertion is not looked at.                   *)
StoreInFlow_Unchecked(t, x, prev) ==
  IF FindEmptyItem(t) = {} THEN {Outcome(0, t)}
  ELSE {Outcome(0, u) : u \in InsertNewItem(t, x, prev)}

(* Insert the packet into its flow behind prev; -1 when the table is full. *)
StoreInFlow(t, x, prev) ==
  IF FindEmptyItem(t) = {} THEN {Outcome(-1, t)}
  ELSE {Outcome(0, u) : u \in InsertNewItem(t, x, prev)}

(* Insert the packet and a flow for it; with no flow slot the packet is    *)
(* taken out again.                                                        *)
StoreInNewFlow(t, x, k) ==
  LET Opened(i, u) == IF FindEmptyFlow(u) = {} THEN {Outcome(-1, DeleteItem(u, i))}
                      ELSE {Outcome(0, v) : v \in InsertNewFlow(u, k, i)}
  IN  IF FindEmptyItem(t) = {} THEN {Outcome(-1, t)}
      ELSE UNION {Opened(i, PutItem(t, i, x, INVALID_ARRAY_INDEX)) : i \in FindEmptyItem(t)}

-----------------------------------------------------------------------------
(* Steps.                                                                  *)

Init ==
  /\ tbl = NewTable
  /\ now = 0
  /\ offered = {}
  /\ back = {}
  /\ out = <<>>
  /\ fl = NULL

(* The application hands p over; a packet not kept stays with it.          *)
Offer(p, outcomes) ==
  /\ fl = NULL
  /\ p \notin offered
  /\ offered' = offered \cup {p}
  /\ \E o \in outcomes :
       /\ tbl' = o.tbl
       /\ back' = IF o.ret < 0 THEN back \cup {p} ELSE back
  /\ UNCHANGED <<now, out, fl>>

Due(i, time) == tbl.item[i].inner.start_time <= time

FrontDue(f, time) ==
  /\ tbl.start_index[f] # INVALID_ARRAY_INDEX
  /\ Due(tbl.start_index[f], time)

(* timeout_flush(tbl, time, out, n) is called ...                          *)
FlushCall(time, n) ==
  /\ fl = NULL
  /\ fl' = [i |-> 0, k |-> 0, flush_timestamp |-> time, nb_out |-> n]
  /\ UNCHANGED <<tbl, now, offered, back, out>>

(* The inner loop stands at a due packet.                                  *)
AtDueItem ==
  /\ fl # NULL
  /\ fl.i < EntriesNum
  /\ tbl.flow_num # 0
  /\ FrontDue(fl.i, fl.flush_timestamp)

(* ... writes pkt, made of the first item of flow i, and deletes the item; *)
(* it returns when 'out' is full ...                                       *)
WriteFront(pkt) ==
  /\ AtDueItem
  /\ out' = Append(out, pkt)
  /\ tbl' = FlushFirst(tbl, fl.i)
  /\ fl' = IF fl.k + 1 = fl.nb_out THEN NULL ELSE [fl EXCEPT !.k = fl.k + 1]
  /\ UNCHANGED <<now, offered, back>>

(* ... goes on to the next flow ...                                        *)
FlushNextFlow ==
  /\ fl # NULL
  /\ fl.i < EntriesNum
  /\ tbl.flow_num # 0
  /\ ~FrontDue(fl.i, fl.flush_timestamp)
  /\ fl' = [fl EXCEPT !.i = fl.i + 1]
  /\ UNCHANGED <<tbl, now, offered, back, out>>

(* Mutant: a single flow counts as none.                                   *)
FlushReturn_OneFlow ==
  /\ fl # NULL
  /\ fl.i = EntriesNum \/ tbl.flow_num <= 1
  /\ fl' = NULL
  /\ UNCHANGED <<tbl, now, offered, back, out>>

(* ... and returns after the last flow, or early on an empty table.        *)
FlushReturn ==
  /\ fl # NULL
  /\ fl.i = EntriesNum \/ tbl.flow_num = 0
  /\ fl' = NULL
  /\ UNCHANGED <<tbl, now, offered, back, out>>

Tick ==
  /\ fl = NULL
  /\ now < MaxTime
  /\ now' = now + 1
  /\ UNCHANGED <<tbl, offered, back, out, fl>>

(* The application calls flush with a timestamp that is not in the future. *)
FlushCalls == \E time \in 0..now, n \in NbOut : FlushCall(time, n)

(* It keeps calling it with a timeout of 0 and some room.                  *)
FlushAll == \E n \in NbOut : FlushCall(now, n)

-----------------------------------------------------------------------------
(* Properties of every type.                                               *)

(* An mbuf chain of packets of S.                                          *)
MbufChain(S) == Seq(S) \ {<<>>}

FlushLocals == [i : 0..EntriesNum, k : Nat, flush_timestamp : Nat, nb_out : Nat]

(* Every variable holds what its C type and its role allow; in particular  *)
(* a slot of the table is empty or holds a packet chain with its fields.   *)
TypeInvariant(Item, Key, OutPkt) ==
  /\ tbl \in TableOf(Item, Key)
  /\ now \in 0..MaxTime
  /\ offered \subseteq Pkts
  /\ back \subseteq offered
  /\ out \in Seq(OutPkt)
  /\ fl \in FlushLocals \cup {NULL}

(* The table stays well linked through every insertion, merge, rollback    *)
(* and flush: counters exact, no index dangles, no item is on two chains.  *)
TableWellLinked == WellLinked(tbl)

(* No held packet is cut off from the flows: a flush can always reach it.  *)
NothingLeaks == NoOrphan(tbl)

(* insert_new_flow never opens a second flow for a key already live.       *)
OneFlowPerKey == KeysUnique(tbl)

(* A flush that returns with room left in 'out' has really taken all it    *)
(* may: no live flow starts with a packet that is due.                     *)
FlushTakesAllDueFronts ==
  [][ fl # NULL /\ fl' = NULL /\ tbl' = tbl
      => \A f \in Slot : ~FrontDue(f, fl.flush_timestamp) ]_vars

(* The payload of a chain of packets that carry lens bytes each: its bytes,  *)
(* a byte being told by its packet and its place in it.                    *)
PayloadBytes(lens) == UNION {{n} \X (1..lens[n]) : n \in DOMAIN lens}

Payload(lens) == Cardinality(PayloadBytes(lens))

Delivered(p) == \E n \in DOMAIN out : \E m \in DOMAIN out[n].segs : out[n].segs[m].id = p.id

(* No packet is held for ever: flush gets to every flow slot and to every  *)
(* item of a flow, however chains were built and slots reused.             *)
EveryPacketComesOut ==
  \A p \in Pkts : (p \in offered) ~> (p \in back \/ Delivered(p))
=============================================================================
