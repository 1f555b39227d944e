------------------------------ MODULE GroTable ------------------------------
(***************************************************************************)
(* The reassembly table every GRO type of lib/gro keeps: an array of items *)
(* (packets held back), an array of flows, and two counters.  A flow slot  *)
(* holds the index of the first item of the flow; the items of one flow    *)
(* are chained by next_pkt_idx.                                            *)
(*                                                                         *)
(* A table is a record                                                     *)
(*   item         : slot -> what the slot holds, NULL when it is empty     *)
(*                  (firstseg == NULL)                                     *)
(*   next_pkt_idx : slot -> next slot of the chain; stale in empty slots   *)
(*   start_index  : flow slot -> first item of the flow                    *)
(*   key          : flow slot -> key of the flow; stale in empty slots     *)
(*   item_num, flow_num : the two counters                                 *)
(*                                                                         *)
(* What an item and a key are is left to the modules of the GRO types.     *)
(* Operators that may fail for want of a slot return the SET of tables     *)
(* they may leave: empty on failure, a singleton otherwise.                *)
(***************************************************************************)
EXTENDS Integers, FiniteSets

CONSTANTS
  EntriesNum,   (* max_item_num = max_flow_num of the table *)
  NULL          (* no mbuf; also the all-zero key of a flow slot never used *)

ASSUME EntriesNumAssumption == EntriesNum \in Nat \ {0}

INVALID_ARRAY_INDEX == -1

Slot == 0..(EntriesNum - 1)

Index == Slot \cup {INVALID_ARRAY_INDEX}

TableOf(Item, Key) ==
  [ item         : [Slot -> Item \cup {NULL}],
    next_pkt_idx : [Slot -> Index],
    start_index  : [Slot -> Index],
    key          : [Slot -> Key \cup {NULL}],
    item_num     : Nat,
    flow_num     : Nat ]

(* A table as its create function leaves it: zeroed memory, so the chain   *)
(* fields of empty items are 0, and every flow slot marked invalid.        *)
NewTable ==
  [ item         |-> [i \in Slot |-> NULL],
    next_pkt_idx |-> [i \in Slot |-> 0],
    start_index  |-> [f \in Slot |-> INVALID_ARRAY_INDEX],
    key          |-> [f \in Slot |-> NULL],
    item_num     |-> 0,
    flow_num     |-> 0 ]

HeldItems(t) == {i \in Slot : t.item[i] # NULL}

LiveFlows(t) == {f \in Slot : t.start_index[f] # INVALID_ARRAY_INDEX}

-----------------------------------------------------------------------------
(* The walk over a chain.                                                  *)

(* The slots a walk from slot j visits: the least set that holds j and is  *)
(* closed under next_pkt_idx.                                              *)
Chain(t, j) ==
  LET ClosedSets == {S \in SUBSET Slot :
                       \A i \in S : t.next_pkt_idx[i] \in S \cup {INVALID_ARRAY_INDEX}}
  IN  {k \in Slot : \A S \in ClosedSets : j \in S => k \in S}

(* The one of S that the walk meets first.                                 *)
FirstOf(t, S) == {k \in S : S \subseteq Chain(t, k)}

(* Where a walk from start ends.                                           *)
LastOf(t, start) ==
  {k \in Chain(t, start) : t.next_pkt_idx[k] = INVALID_ARRAY_INDEX}

(* prev_idx when the walk from start stands at cur.                        *)
PrevOf(t, start, cur) ==
  IF cur = start THEN {cur}
  ELSE {k \in Chain(t, start) : t.next_pkt_idx[k] = cur}

(* Mutant: the search takes flow_num for the number of slots to scan.      *)
FindFlow_Dense(t, k) ==
  {f \in LiveFlows(t) :
     /\ f < t.flow_num
     /\ t.key[f] = k
     /\ \A g \in LiveFlows(t) : t.key[g] = k => f <= g}

(* The flows the search loop may stop at: live ones with the wanted key.   *)
(* remaining_flow_num only cuts the scan of trailing empty slots.          *)
FindFlow(t, k) ==
  {f \in LiveFlows(t) :
     /\ t.key[f] = k
     /\ \A g \in LiveFlows(t) : t.key[g] = k => f <= g}

-----------------------------------------------------------------------------
(* Changes of the table.                                                   *)

LowestOf(S) == {i \in S : \A j \in S : i <= j}

FindEmptyItem(t) == LowestOf(Slot \ HeldItems(t))

FindEmptyFlow(t) == LowestOf(Slot \ LiveFlows(t))

(* Mutant: a packet stored between two others cuts off the second.         *)
PutItem_TailCut(t, i, x, prev) ==
  [t EXCEPT
     !.item = [t.item EXCEPT ![i] = x],
     !.next_pkt_idx =
        IF prev = INVALID_ARRAY_INDEX
        THEN [t.next_pkt_idx EXCEPT ![i] = INVALID_ARRAY_INDEX]
        ELSE [t.next_pkt_idx EXCEPT ![i] = INVALID_ARRAY_INDEX, ![prev] = i],
     !.item_num = t.item_num + 1]

(* Put x into the empty slot i, chained behind prev unless prev is invalid. *)
PutItem(t, i, x, prev) ==
  [t EXCEPT
     !.item = [t.item EXCEPT ![i] = x],
     !.next_pkt_idx =
        IF prev = INVALID_ARRAY_INDEX
        THEN [t.next_pkt_idx EXCEPT ![i] = INVALID_ARRAY_INDEX]
        ELSE [t.next_pkt_idx EXCEPT ![i] = t.next_pkt_idx[prev], ![prev] = i],
     !.item_num = t.item_num + 1]

(* Mutant: the new first item is not chained to the old one.               *)
PutFirst_NoTail(t, f, i, x) ==
  [PutItem(t, i, x, INVALID_ARRAY_INDEX) EXCEPT
     !.start_index = [t.start_index EXCEPT ![f] = i]]

(* Put x into the empty slot i, in front of the first item of flow f.      *)
PutFirst(t, f, i, x) ==
  [PutItem(t, i, x, INVALID_ARRAY_INDEX) EXCEPT
     !.next_pkt_idx = [t.next_pkt_idx EXCEPT ![i] = t.start_index[f]],
     !.start_index  = [t.start_index EXCEPT ![f] = i]]

InsertNewItem(t, x, prev) == {PutItem(t, i, x, prev) : i \in FindEmptyItem(t)}

(* Mutant: the key is only copied into a slot never used before.           *)
PutFlow_StaleKey(t, f, k, i) ==
  [t EXCEPT !.key         = [t.key EXCEPT ![f] = IF t.key[f] = NULL THEN k ELSE t.key[f]],
            !.start_index = [t.start_index EXCEPT ![f] = i],
            !.flow_num    = t.flow_num + 1]

(* Open flow slot f for key k with the single item i.                      *)
PutFlow(t, f, k, i) ==
  [t EXCEPT !.key         = [t.key EXCEPT ![f] = k],
            !.start_index = [t.start_index EXCEPT ![f] = i],
            !.flow_num    = t.flow_num + 1]

InsertNewFlow(t, k, i) == {PutFlow(t, f, k, i) : f \in FindEmptyFlow(t)}

(* Every caller passes no predecessor, so no chain is repaired.            *)
DeleteItem(t, i) ==
  [t EXCEPT !.item = [t.item EXCEPT ![i] = NULL], !.item_num = t.item_num - 1]

(* Mutant: flow_num is not lowered when the flow becomes empty.            *)
FlushFirst_KeepsCount(t, f) ==
  LET j == t.start_index[f]
  IN  [DeleteItem(t, j) EXCEPT
         !.start_index = [t.start_index EXCEPT ![f] = t.next_pkt_idx[j]]]

(* One turn of the flush loop on a due packet: the first item of flow f    *)
(* leaves the table and its successor, if any, becomes the first.          *)
FlushFirst(t, f) ==
  LET j    == t.start_index[f]
      next == t.next_pkt_idx[j]
  IN  [DeleteItem(t, j) EXCEPT
         !.start_index = [t.start_index EXCEPT ![f] = next],
         !.flow_num    = IF next = INVALID_ARRAY_INDEX THEN t.flow_num - 1
                                                       ELSE t.flow_num]

(* Overwrite the item in slot i in place (a merge).                        *)
SetItem(t, i, x) == [t EXCEPT !.item = [t.item EXCEPT ![i] = x]]

(* Mutants: the slot of the merged item stays in the chain; the item       *)
(* counts as two.                                                          *)
Absorb_NoRelink(t, j, x) == DeleteItem(SetItem(t, j, x), t.next_pkt_idx[j])

Absorb_CountsTwo(t, j, x) ==
  LET next == t.next_pkt_idx[j]
  IN  [DeleteItem(SetItem(t, j, x), next) EXCEPT
         !.next_pkt_idx = [t.next_pkt_idx EXCEPT ![j] = t.next_pkt_idx[next]],
         !.item_num     = t.item_num - 2]

(* The item behind slot j is merged into j: x takes the place of both.     *)
Absorb(t, j, x) ==
  LET next == t.next_pkt_idx[j]
  IN  [DeleteItem(SetItem(t, j, x), next) EXCEPT
         !.next_pkt_idx = [t.next_pkt_idx EXCEPT ![j] = t.next_pkt_idx[next]]]

-----------------------------------------------------------------------------
(* What a well-formed table is.                                            *)

(* The counters agree with the arrays.  The flush loops stop early on      *)
(* flow_num = 0, the search loop stops after flow_num live flows, and      *)
(* applications size their flush by item_num, so a drift loses packets.    *)
CountersAgree(t) ==
  /\ t.item_num = Cardinality(HeldItems(t))
  /\ t.flow_num = Cardinality(LiveFlows(t))

(* No index in use dangles: a live flow starts at a held item, a held item *)
(* is followed by a held item or by nothing.                               *)
NoDangling(t) ==
  /\ \A f \in LiveFlows(t) : t.start_index[f] \in HeldItems(t)
  /\ \A i \in HeldItems(t) :
        t.next_pkt_idx[i] \in HeldItems(t) \cup {INVALID_ARRAY_INDEX}

(* No item is shared: at most one index in use leads to it.                *)
NoSharing(t) ==
  /\ \A f, g \in LiveFlows(t) : t.start_index[f] = t.start_index[g] => f = g
  /\ \A i, j \in HeldItems(t) :
        /\ t.next_pkt_idx[i] # INVALID_ARRAY_INDEX
        /\ t.next_pkt_idx[i] = t.next_pkt_idx[j]
        => i = j
  /\ \A f \in LiveFlows(t), i \in HeldItems(t) :
        t.start_index[f] # t.next_pkt_idx[i]

WellLinked(t) == CountersAgree(t) /\ NoDangling(t) /\ NoSharing(t)

(* Every held item is reached from exactly one flow, so a flush of all     *)
(* flows reaches it: nothing leaks.                                        *)
NoOrphan(t) ==
  \A i \in HeldItems(t) :
     Cardinality({f \in LiveFlows(t) : i \in Chain(t, t.start_index[f])}) = 1

(* Two flows never share a key; if they did, packets of one connection     *)
(* would be spread over chains that are never compared.                    *)
KeysUnique(t) ==
  \A f, g \in LiveFlows(t) : t.key[f] = t.key[g] => f = g
=============================================================================
