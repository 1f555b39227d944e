---------------------------- MODULE GroTypeProofs ----------------------------
(***************************************************************************)
(* What every GRO type has from GroType alone, whatever its items and keys *)
(* are: the operations of the reassembly table keep it sound, and storing  *)
(* a packet and every step of the flush keep it so, the variables in their *)
(* types, and the flows a flush has passed without packets that are due.   *)
(*                                                                         *)
(* Fits is the set of pairs of an item and a flow key that a type allows.  *)
(* The module of a type instantiates it with what it wants to show of its  *)
(* items: every held item is on the chain of a flow, and so in a pair.     *)
(***************************************************************************)
EXTENDS GroType, FiniteSetTheorems, TLAPS

-----------------------------------------------------------------------------
(* Lemmas about the operations of the reassembly table: each keeps the     *)
(* type of the table and keeps it well linked.  Item and Key stand for     *)
(* whatever a GRO type stores.                                             *)

(* The slots are finitely many, so the cardinalities of CountersAgree are  *)
(* numbers.                                                                *)
LEMMA SlotsFinite ==
  ASSUME NEW t
  PROVE  IsFiniteSet(Slot) /\ IsFiniteSet(HeldItems(t)) /\ IsFiniteSet(LiveFlows(t))
<1>1. IsFiniteSet(Slot)
  BY EntriesNumAssumption, FS_Interval DEF Slot
<1>2. HeldItems(t) \subseteq Slot /\ LiveFlows(t) \subseteq Slot
  BY DEF HeldItems, LiveFlows
<1> QED
  BY <1>1, <1>2, FS_Subset

(* -1 is no slot.                                                          *)
LEMMA InvalidIsNoSlot == INVALID_ARRAY_INDEX \notin Slot
  BY EntriesNumAssumption DEF INVALID_ARRAY_INDEX, Slot

(* A table fresh from its create function.                                 *)
LEMMA NewTableOK ==
  ASSUME NEW Item, NEW Key
  PROVE  NewTable \in TableOf(Item, Key) /\ WellLinked(NewTable)
<1>1. NewTable \in TableOf(Item, Key)
  BY EntriesNumAssumption DEF NewTable, TableOf, Slot, Index, INVALID_ARRAY_INDEX
<1>2. HeldItems(NewTable) = {} /\ LiveFlows(NewTable) = {}
  BY DEF NewTable, HeldItems, LiveFlows
<1>3. CountersAgree(NewTable)
  BY <1>2, FS_EmptySet DEF CountersAgree, NewTable
<1> QED
  BY <1>1, <1>2, <1>3 DEF WellLinked, NoDangling, NoSharing

(* insert_new_item, with a predecessor or without.                         *)
LEMMA PutItemOK ==
  ASSUME NEW Item, NEW Key, NULL \notin Item,
         NEW t \in TableOf(Item, Key), WellLinked(t),
         NEW i \in Slot \ HeldItems(t), NEW x \in Item,
         NEW prev \in HeldItems(t) \cup {INVALID_ARRAY_INDEX}
  PROVE  /\ PutItem(t, i, x, prev) \in TableOf(Item, Key)
         /\ WellLinked(PutItem(t, i, x, prev))
         /\ HeldItems(PutItem(t, i, x, prev)) = HeldItems(t) \cup {i}
         /\ LiveFlows(PutItem(t, i, x, prev)) = LiveFlows(t)
<1> DEFINE u == PutItem(t, i, x, prev)
<1>1. /\ HeldItems(t) \subseteq Slot
      /\ INVALID_ARRAY_INDEX \notin HeldItems(t)
  BY InvalidIsNoSlot DEF HeldItems
<1>2. u \in TableOf(Item, Key)
  <2>1. [t.item EXCEPT ![i] = x] \in [Slot -> Item \cup {NULL}]
    BY DEF TableOf
  <2>2. [t.next_pkt_idx EXCEPT ![i] = INVALID_ARRAY_INDEX] \in [Slot -> Index]
    BY DEF TableOf, Index
  <2>3. ASSUME prev \in HeldItems(t)
        PROVE  [t.next_pkt_idx EXCEPT ![i] = t.next_pkt_idx[prev], ![prev] = i] \in [Slot -> Index]
    BY <2>3, <1>1 DEF TableOf, Index
  <2> DEFINE n == IF prev = INVALID_ARRAY_INDEX
                  THEN [t.next_pkt_idx EXCEPT ![i] = INVALID_ARRAY_INDEX]
                  ELSE [t.next_pkt_idx EXCEPT ![i] = t.next_pkt_idx[prev], ![prev] = i]
  <2>4. n \in [Slot -> Index]
    BY <2>2, <2>3
  <2>5. u = [t EXCEPT !.item = [t.item EXCEPT ![i] = x], !.next_pkt_idx = n,
                      !.item_num = t.item_num + 1]
    BY DEF PutItem
  <2> HIDE DEF n, u
  <2>6. u = [ item |-> [t.item EXCEPT ![i] = x], next_pkt_idx |-> n,
              start_index |-> t.start_index, key |-> t.key,
              item_num |-> t.item_num + 1, flow_num |-> t.flow_num ]
    BY <2>5 DEF TableOf
  <2>7. /\ t.start_index \in [Slot -> Index] /\ t.key \in [Slot -> Key \cup {NULL}]
        /\ t.item_num + 1 \in Nat /\ t.flow_num \in Nat
    BY DEF TableOf
  <2> QED
    BY <2>1, <2>4, <2>6, <2>7 DEF TableOf
<1>3. /\ u.item = [t.item EXCEPT ![i] = x]
      /\ u.start_index = t.start_index
      /\ u.item_num = t.item_num + 1
      /\ u.flow_num = t.flow_num
  BY DEF PutItem, TableOf
<1>4. HeldItems(u) = HeldItems(t) \cup {i}
  BY <1>3 DEF HeldItems, TableOf
<1>5. LiveFlows(u) = LiveFlows(t)
  BY <1>3 DEF LiveFlows
<1>6. CountersAgree(u)
  BY <1>3, <1>4, <1>5, SlotsFinite, FS_AddElement DEF WellLinked, CountersAgree
<1>7. CASE prev = INVALID_ARRAY_INDEX
  <2>1. u.next_pkt_idx = [t.next_pkt_idx EXCEPT ![i] = INVALID_ARRAY_INDEX]
    BY <1>7 DEF PutItem, TableOf
  <2>2. \A k \in HeldItems(t) : u.next_pkt_idx[k] = t.next_pkt_idx[k]
    BY <2>1, <1>1 DEF TableOf
  <2>3. u.next_pkt_idx[i] = INVALID_ARRAY_INDEX
    BY <2>1 DEF TableOf
  <2>4. NoDangling(u)
    BY <2>2, <2>3, <1>3, <1>4, <1>5 DEF NoDangling, WellLinked
  <2>5. NoSharing(u)
    BY <2>2, <2>3, <1>1, <1>3, <1>4, <1>5 DEF NoSharing, NoDangling, WellLinked
  <2> QED
    BY <1>2, <1>4, <1>5, <1>6, <2>4, <2>5 DEF WellLinked
<1>8. CASE prev \in HeldItems(t)
  <2>1. u.next_pkt_idx = [t.next_pkt_idx EXCEPT ![i] = t.next_pkt_idx[prev], ![prev] = i]
    BY <1>8, <1>1 DEF PutItem, TableOf
  <2>2. /\ \A k \in HeldItems(t) \ {prev} : u.next_pkt_idx[k] = t.next_pkt_idx[k]
        /\ u.next_pkt_idx[i] = t.next_pkt_idx[prev]
        /\ u.next_pkt_idx[prev] = i
    BY <2>1, <1>1, <1>8 DEF TableOf
  <2>3. NoDangling(u)
    BY <2>2, <1>3, <1>4, <1>5, <1>8 DEF NoDangling, WellLinked
  <2>4. \A k \in HeldItems(t) : t.next_pkt_idx[k] # i
    BY InvalidIsNoSlot DEF NoDangling, WellLinked
  <2>5. \A f \in LiveFlows(t) : t.start_index[f] # i
    BY DEF NoDangling, WellLinked
  <2>6. NoSharing(u)
    BY <2>2, <2>4, <2>5, <1>3, <1>4, <1>5, <1>8 DEF NoSharing, WellLinked
  <2> QED
    BY <1>2, <1>4, <1>5, <1>6, <2>3, <2>6 DEF WellLinked
<1> QED
  BY <1>7, <1>8

(* insert_new_flow for an item no index in use leads to.                   *)
LEMMA PutFlowOK ==
  ASSUME NEW Item, NEW Key,
         NEW t \in TableOf(Item, Key), WellLinked(t),
         NEW f \in Slot \ LiveFlows(t), NEW k \in Key, NEW i \in HeldItems(t),
         \A g \in LiveFlows(t) : t.start_index[g] # i,
         \A j \in HeldItems(t) : t.next_pkt_idx[j] # i
  PROVE  PutFlow(t, f, k, i) \in TableOf(Item, Key) /\ WellLinked(PutFlow(t, f, k, i))
<1> DEFINE u == PutFlow(t, f, k, i)
<1>1. i \in Slot /\ i # INVALID_ARRAY_INDEX
  BY InvalidIsNoSlot DEF HeldItems
<1>2. u \in TableOf(Item, Key)
  <2> DEFINE s == [t.start_index EXCEPT ![f] = i]
             keys == [t.key EXCEPT ![f] = k]
  <2>1. s \in [Slot -> Index] /\ keys \in [Slot -> Key \cup {NULL}]
    BY <1>1 DEF TableOf, Index
  <2>2. u = [t EXCEPT !.key = keys, !.start_index = s, !.flow_num = t.flow_num + 1]
    BY DEF PutFlow
  <2> HIDE DEF u, s, keys
  <2>3. u = [ item |-> t.item, next_pkt_idx |-> t.next_pkt_idx,
              start_index |-> s, key |-> keys,
              item_num |-> t.item_num, flow_num |-> t.flow_num + 1 ]
    BY <2>2 DEF TableOf
  <2>4. /\ t.item \in [Slot -> Item \cup {NULL}] /\ t.next_pkt_idx \in [Slot -> Index]
        /\ t.item_num \in Nat /\ t.flow_num + 1 \in Nat
    BY DEF TableOf
  <2> QED
    BY <2>1, <2>3, <2>4 DEF TableOf
<1>3. /\ u.start_index = [t.start_index EXCEPT ![f] = i]
      /\ u.item = t.item /\ u.next_pkt_idx = t.next_pkt_idx
      /\ u.item_num = t.item_num /\ u.flow_num = t.flow_num + 1
  BY DEF PutFlow, TableOf
<1>4. HeldItems(u) = HeldItems(t)
  BY <1>3 DEF HeldItems
<1>5. LiveFlows(u) = LiveFlows(t) \cup {f}
  BY <1>1, <1>3 DEF LiveFlows, TableOf
<1>6. CountersAgree(u)
  BY <1>3, <1>4, <1>5, SlotsFinite, FS_AddElement DEF WellLinked, CountersAgree
<1>7. \A g \in LiveFlows(t) : u.start_index[g] = t.start_index[g]
  BY <1>3 DEF LiveFlows, TableOf
<1>8. u.start_index[f] = i
  BY <1>3 DEF TableOf
<1>9. NoDangling(u)
  BY <1>3, <1>4, <1>5, <1>7, <1>8 DEF NoDangling, WellLinked
<1>10. NoSharing(u)
  BY <1>3, <1>4, <1>5, <1>7, <1>8 DEF NoSharing, WellLinked
<1> QED
  BY <1>2, <1>6, <1>9, <1>10 DEF WellLinked

(* delete_item as the failed insertion of a flow calls it: the item is one *)
(* no index in use leads to.                                               *)
LEMMA DeleteItemOK ==
  ASSUME NEW Item, NEW Key, NULL \notin Item,
         NEW t \in TableOf(Item, Key), WellLinked(t), NEW i \in HeldItems(t),
         \A g \in LiveFlows(t) : t.start_index[g] # i,
         \A j \in HeldItems(t) : t.next_pkt_idx[j] # i
  PROVE  DeleteItem(t, i) \in TableOf(Item, Key) /\ WellLinked(DeleteItem(t, i))
<1> DEFINE u == DeleteItem(t, i)
<1>1. /\ u.item = [t.item EXCEPT ![i] = NULL]
      /\ u.start_index = t.start_index /\ u.next_pkt_idx = t.next_pkt_idx
      /\ u.key = t.key /\ u.item_num = t.item_num - 1 /\ u.flow_num = t.flow_num
  BY DEF DeleteItem, TableOf
<1>2. i \in Slot
  BY DEF HeldItems
<1>3. HeldItems(u) = HeldItems(t) \ {i}
  BY <1>1, <1>2 DEF HeldItems, TableOf
<1>4. LiveFlows(u) = LiveFlows(t)
  BY <1>1 DEF LiveFlows
<1>5. CountersAgree(u) /\ u.item_num \in Nat
  <2>1. /\ IsFiniteSet(HeldItems(t)) /\ IsFiniteSet(HeldItems(u))
    BY SlotsFinite
  <2>2. Cardinality(HeldItems(u)) = Cardinality(HeldItems(t)) - 1
    BY <2>1, <1>3, FS_RemoveElement
  <2> QED
    BY <2>1, <2>2, <1>1, <1>4, FS_CardinalityType DEF WellLinked, CountersAgree
<1>6. u \in TableOf(Item, Key)
  BY <1>1, <1>2, <1>5 DEF DeleteItem, TableOf
<1>7. NoDangling(u)
  BY <1>1, <1>3, <1>4 DEF NoDangling, WellLinked
<1>8. NoSharing(u)
  BY <1>1, <1>3, <1>4 DEF NoSharing, WellLinked
<1> QED
  BY <1>5, <1>6, <1>7, <1>8 DEF WellLinked

(* One turn of a flush loop.                                               *)
LEMMA FlushFirstOK ==
  ASSUME NEW Item, NEW Key, NULL \notin Item,
         NEW t \in TableOf(Item, Key), WellLinked(t), NEW f \in LiveFlows(t)
  PROVE  FlushFirst(t, f) \in TableOf(Item, Key) /\ WellLinked(FlushFirst(t, f))
<1> DEFINE u == FlushFirst(t, f)
           j == t.start_index[f]
           next == t.next_pkt_idx[j]
<1>1. f \in Slot /\ j \in HeldItems(t) /\ j \in Slot
  BY DEF LiveFlows, HeldItems, WellLinked, NoDangling
<1>2. /\ u.item = [t.item EXCEPT ![j] = NULL]
      /\ u.next_pkt_idx = t.next_pkt_idx
      /\ u.start_index = [t.start_index EXCEPT ![f] = next]
      /\ u.key = t.key /\ u.item_num = t.item_num - 1
      /\ u.flow_num = IF next = INVALID_ARRAY_INDEX THEN t.flow_num - 1 ELSE t.flow_num
  BY DEF FlushFirst, DeleteItem, TableOf
<1>3. next \in HeldItems(t) \cup {INVALID_ARRAY_INDEX} /\ next # j
  BY <1>1 DEF WellLinked, NoDangling, NoSharing
<1>4. HeldItems(u) = HeldItems(t) \ {j}
  BY <1>1, <1>2 DEF HeldItems, TableOf
<1>5. LiveFlows(u) = IF next = INVALID_ARRAY_INDEX THEN LiveFlows(t) \ {f} ELSE LiveFlows(t)
  BY <1>1, <1>2 DEF LiveFlows, TableOf
<1>6. CountersAgree(u) /\ u.item_num \in Nat /\ u.flow_num \in Nat
  <2>1. /\ IsFiniteSet(HeldItems(t)) /\ IsFiniteSet(HeldItems(u))
        /\ IsFiniteSet(LiveFlows(t)) /\ IsFiniteSet(LiveFlows(u))
    BY SlotsFinite
  <2>2. Cardinality(HeldItems(u)) = Cardinality(HeldItems(t)) - 1
    BY <2>1, <1>1, <1>4, FS_RemoveElement
  <2>3. Cardinality(LiveFlows(t) \ {f}) = Cardinality(LiveFlows(t)) - 1
    BY <2>1, FS_RemoveElement
  <2>4. u.item_num = Cardinality(HeldItems(u)) /\ u.flow_num = Cardinality(LiveFlows(u))
    BY <2>2, <2>3, <1>2, <1>5 DEF WellLinked, CountersAgree
  <2> QED
    BY <2>1, <2>4, FS_CardinalityType DEF CountersAgree
<1>7. u \in TableOf(Item, Key)
  BY <1>1, <1>2, <1>6 DEF FlushFirst, DeleteItem, TableOf
<1>8. \A g \in LiveFlows(u) \ {f} : g \in LiveFlows(t) /\ u.start_index[g] = t.start_index[g]
  BY <1>1, <1>2, <1>5 DEF TableOf, LiveFlows
<1>9. f \in LiveFlows(u) => u.start_index[f] = next /\ next \in HeldItems(t)
  BY <1>1, <1>2, <1>3, <1>5 DEF TableOf
<1>10. NoDangling(u)
  BY <1>1, <1>2, <1>3, <1>4, <1>8, <1>9 DEF NoDangling, NoSharing, WellLinked
<1>11. NoSharing(u)
  BY <1>1, <1>2, <1>3, <1>4, <1>8, <1>9, InvalidIsNoSlot DEF NoSharing, WellLinked, HeldItems
<1> QED
  BY <1>6, <1>7, <1>10, <1>11 DEF WellLinked

(* A merge changes an item in place.                                       *)
LEMMA SetItemOK ==
  ASSUME NEW Item, NEW Key, NULL \notin Item,
         NEW t \in TableOf(Item, Key), WellLinked(t), NEW i \in HeldItems(t), NEW x \in Item
  PROVE  SetItem(t, i, x) \in TableOf(Item, Key) /\ WellLinked(SetItem(t, i, x))
<1> DEFINE u == SetItem(t, i, x)
<1>1. /\ u.item = [t.item EXCEPT ![i] = x]
      /\ u.start_index = t.start_index /\ u.next_pkt_idx = t.next_pkt_idx
      /\ u.item_num = t.item_num /\ u.flow_num = t.flow_num
  BY DEF SetItem, TableOf
<1>2. u \in TableOf(Item, Key)
  BY DEF SetItem, TableOf, HeldItems
<1>3. HeldItems(u) = HeldItems(t) /\ LiveFlows(u) = LiveFlows(t)
  BY <1>1 DEF HeldItems, LiveFlows, TableOf
<1> QED
  BY <1>1, <1>2, <1>3 DEF WellLinked, CountersAgree, NoDangling, NoSharing

-----------------------------------------------------------------------------
(* Walks over chains.  Chain is a least set, so each fact about it comes   *)
(* from exhibiting a set closed under next_pkt_idx.                        *)

LEMMA ChainLeast ==
  ASSUME NEW t, NEW j, NEW S \in SUBSET Slot, j \in S,
         \A i \in S : t.next_pkt_idx[i] \in S \cup {INVALID_ARRAY_INDEX}
  PROVE  Chain(t, j) \subseteq S
  BY DEF Chain

LEMMA ChainInSlot ==
  ASSUME NEW t, NEW j
  PROVE  Chain(t, j) \subseteq Slot
  BY DEF Chain

LEMMA ChainStarts ==
  ASSUME NEW t, NEW j \in Slot
  PROVE  j \in Chain(t, j)
  BY DEF Chain

LEMMA ChainGoesOn ==
  ASSUME NEW t, NEW j, NEW k \in Chain(t, j), t.next_pkt_idx[k] \in Slot
  PROVE  t.next_pkt_idx[k] \in Chain(t, j)
  BY InvalidIsNoSlot DEF Chain

(* A chain is itself closed.                                               *)
LEMMA ChainIsClosed ==
  ASSUME NEW Item, NEW Key, NEW t \in TableOf(Item, Key), NEW j, NEW k \in Chain(t, j)
  PROVE  t.next_pkt_idx[k] \in Chain(t, j) \cup {INVALID_ARRAY_INDEX}
<1>1. t.next_pkt_idx[k] \in Slot \cup {INVALID_ARRAY_INDEX}
  BY ChainInSlot DEF TableOf, Index
<1> QED
  BY <1>1, ChainGoesOn

(* What is behind the first slot of a chain is the chain of the second.    *)
LEMMA ChainUnfold ==
  ASSUME NEW Item, NEW Key, NEW t \in TableOf(Item, Key), NEW j \in Slot
  PROVE  Chain(t, j) \subseteq {j} \cup Chain(t, t.next_pkt_idx[j])
<1> DEFINE next == t.next_pkt_idx[j]
           S == {j} \cup Chain(t, next)
<1>1. next \in Slot => next \in S
  BY ChainStarts
<1>2. S \in SUBSET Slot /\ j \in S
  BY ChainInSlot
<1>3. next \in Slot \cup {INVALID_ARRAY_INDEX}
  BY DEF TableOf, Index
<1>4. \A i \in S : t.next_pkt_idx[i] \in S \cup {INVALID_ARRAY_INDEX}
  BY <1>1, <1>3, ChainIsClosed
<1>5. Chain(t, j) \subseteq S
  <2> HIDE DEF S
  <2> QED
    BY <1>2, <1>4, ChainLeast
<1> QED
  BY <1>5

(* Each slot of a chain but the first has one before it.                   *)
LEMMA ChainPred ==
  ASSUME NEW Item, NEW Key, NEW t \in TableOf(Item, Key), NEW j \in Slot,
         NEW k \in Chain(t, j), k # j
  PROVE  \E m \in Chain(t, j) : t.next_pkt_idx[m] = k
<1> SUFFICES ASSUME \A m \in Chain(t, j) : t.next_pkt_idx[m] # k PROVE FALSE
  OBVIOUS
<1> DEFINE S == Chain(t, j) \ {k}
<1>1. S \in SUBSET Slot /\ j \in S
  BY ChainInSlot, ChainStarts
<1>2. \A i \in S : t.next_pkt_idx[i] \in S \cup {INVALID_ARRAY_INDEX}
  BY ChainIsClosed
<1> QED
  BY <1>1, <1>2, ChainLeast

(* Two tables whose links agree on a closed set have the same chains in it. *)
LEMMA ChainFrame ==
  ASSUME NEW t, NEW u, NEW S \in SUBSET Slot, NEW j \in S,
         \A i \in S : /\ t.next_pkt_idx[i] \in S \cup {INVALID_ARRAY_INDEX}
                      /\ u.next_pkt_idx[i] = t.next_pkt_idx[i]
  PROVE  Chain(u, j) = Chain(t, j)
<1>1. Chain(t, j) \subseteq S /\ Chain(u, j) \subseteq S
  BY ChainLeast
<1>2. Chain(u, j) \subseteq Chain(t, j)
  <2>1. \A i \in Chain(t, j) : u.next_pkt_idx[i] \in Chain(t, j) \cup {INVALID_ARRAY_INDEX}
    BY <1>1, ChainGoesOn
  <2> QED
    BY <2>1, ChainLeast, ChainInSlot, ChainStarts
<1>3. Chain(t, j) \subseteq Chain(u, j)
  <2>1. \A i \in Chain(u, j) : t.next_pkt_idx[i] \in Chain(u, j) \cup {INVALID_ARRAY_INDEX}
    BY <1>1, ChainGoesOn
  <2> QED
    BY <2>1, ChainLeast, ChainInSlot, ChainStarts
<1> QED
  BY <1>2, <1>3

(* A walk that starts at a held item meets held items only: they are       *)
(* closed under next_pkt_idx.                                              *)
LEMMA ChainIsHeld ==
  ASSUME NEW t, NoDangling(t), NEW j \in HeldItems(t)
  PROVE  Chain(t, j) \subseteq HeldItems(t)
<1>1. HeldItems(t) \in SUBSET Slot
  BY DEF HeldItems
<1>2. \A i \in HeldItems(t) : t.next_pkt_idx[i] \in HeldItems(t) \cup {INVALID_ARRAY_INDEX}
  BY DEF NoDangling
<1> QED
  BY <1>1, <1>2 DEF Chain

(* In a well linked table two flows have no item in common: the first item *)
(* they share would be pointed at twice.                                   *)
LEMMA ChainsDisjoint ==
  ASSUME NEW Item, NEW Key, NEW t \in TableOf(Item, Key), WellLinked(t),
         NEW f \in LiveFlows(t), NEW g \in LiveFlows(t), f # g
  PROVE  Chain(t, t.start_index[f]) \cap Chain(t, t.start_index[g]) = {}
<1> DEFINE a == t.start_index[f]
           b == t.start_index[g]
           S == Chain(t, a) \ Chain(t, b)
<1>1. /\ a \in HeldItems(t) /\ b \in HeldItems(t) /\ a # b /\ a \in Slot /\ b \in Slot
      /\ Chain(t, a) \subseteq HeldItems(t) /\ Chain(t, b) \subseteq HeldItems(t)
  BY ChainIsHeld DEF WellLinked, NoDangling, NoSharing, HeldItems
<1>2. a \in S
  <2>1. SUFFICES ASSUME a \in Chain(t, b) PROVE FALSE
    BY <1>1, ChainStarts
  <2>2. PICK m \in Chain(t, b) : t.next_pkt_idx[m] = a
    BY <1>1, <2>1, ChainPred
  <2> QED
    BY <1>1, <2>2 DEF WellLinked, NoSharing
<1>3. ASSUME NEW i \in S PROVE t.next_pkt_idx[i] \in S \cup {INVALID_ARRAY_INDEX}
  <2>1. SUFFICES ASSUME t.next_pkt_idx[i] # INVALID_ARRAY_INDEX, t.next_pkt_idx[i] \in Chain(t, b)
                 PROVE  FALSE
    BY ChainIsClosed
  <2>2. t.next_pkt_idx[i] # b
    BY <1>1 DEF WellLinked, NoSharing
  <2>3. PICK m \in Chain(t, b) : t.next_pkt_idx[m] = t.next_pkt_idx[i]
    BY <1>1, <2>1, <2>2, ChainPred
  <2>4. m = i
    BY <1>1, <2>1, <2>3 DEF WellLinked, NoSharing
  <2> QED
    BY <2>4
<1>4. Chain(t, a) \subseteq S
  <2>1. S \in SUBSET Slot
    BY ChainInSlot
  <2> HIDE DEF S
  <2> QED
    BY <1>2, <1>3, <2>1, ChainLeast
<1> QED
  BY <1>4

(* A walk does not come back: what leads to a slot of a flow is not among  *)
(* the slots that follow it.  Otherwise the slots of the flow that are not *)
(* behind cur would be closed under next_pkt_idx, and the walk from the    *)
(* start would never get to cur.                                           *)
LEMMA NoCycle ==
  ASSUME NEW Item, NEW Key, NEW t \in TableOf(Item, Key), WellLinked(t),
         NEW f \in LiveFlows(t), NEW prev \in Chain(t, t.start_index[f]),
         t.next_pkt_idx[prev] # INVALID_ARRAY_INDEX
  PROVE  prev \notin Chain(t, t.next_pkt_idx[prev])
<1> DEFINE s == t.start_index[f]
           cur == t.next_pkt_idx[prev]
           T == Chain(t, s) \ Chain(t, cur)
<1>1. /\ s \in HeldItems(t) /\ s \in Slot
      /\ Chain(t, s) \subseteq HeldItems(t)
  BY ChainIsHeld DEF WellLinked, NoDangling, HeldItems
<1>2. cur \in Chain(t, s) /\ cur \in HeldItems(t) /\ cur \in Slot
  BY <1>1, ChainIsClosed DEF HeldItems
<1>3. Chain(t, cur) \subseteq HeldItems(t) /\ cur \in Chain(t, cur)
  BY <1>2, ChainIsHeld, ChainStarts DEF WellLinked
<1>4. cur # s
  BY <1>1 DEF WellLinked, NoSharing
<1>5. SUFFICES ASSUME prev \in Chain(t, cur) PROVE FALSE
  OBVIOUS
<1> HIDE DEF s, cur
<1>6. ASSUME NEW k \in Chain(t, cur), k # cur
      PROVE  \E m \in Chain(t, cur) : t.next_pkt_idx[m] = k
  BY <1>2, <1>6, ChainPred
<1>7. s \notin Chain(t, cur)
  <2> SUFFICES ASSUME s \in Chain(t, cur) PROVE FALSE
    OBVIOUS
  <2>1. PICK m \in Chain(t, cur) : t.next_pkt_idx[m] = s
    BY <1>4, <1>6
  <2> QED
    BY <1>3, <2>1 DEF s, WellLinked, NoSharing
<1>8. s \in T
  BY <1>1, <1>7, ChainStarts
<1>9. ASSUME NEW k \in T
      PROVE  t.next_pkt_idx[k] \in T \cup {INVALID_ARRAY_INDEX}
  <2>1. t.next_pkt_idx[k] \in Chain(t, s) \cup {INVALID_ARRAY_INDEX}
    BY ChainIsClosed
  <2> SUFFICES ASSUME t.next_pkt_idx[k] # INVALID_ARRAY_INDEX, t.next_pkt_idx[k] \in Chain(t, cur)
               PROVE  FALSE
    BY <2>1
  <2>2. PICK m \in Chain(t, cur) : t.next_pkt_idx[m] = t.next_pkt_idx[k]
    BY <1>5, <1>6 DEF cur
  <2>3. m = k
    BY <1>1, <1>3, <2>2 DEF WellLinked, NoSharing
  <2> QED
    BY <2>3
<1>10. T \in SUBSET Slot
  BY ChainInSlot
<1> HIDE DEF T
<1>11. Chain(t, s) \subseteq T
  BY <1>8, <1>9, <1>10, ChainLeast
<1> QED
  BY <1>2, <1>3, <1>11 DEF T

-----------------------------------------------------------------------------
(* A sound table.                                                          *)

(* Every held item is reached from a flow.                                 *)
Reached(t) ==
  \A i \in HeldItems(t) : \E f \in LiveFlows(t) : i \in Chain(t, t.start_index[f])

(* Fits is the set of pairs of an item and a key that belong together.     *)
FlowsFit(t, Fits) ==
  \A f \in LiveFlows(t) : \A i \in Chain(t, t.start_index[f]) : <<t.item[i], t.key[f]>> \in Fits

(* What the operations of a table keep together.  None of the parts can be *)
(* kept alone: that a new flow is reached, or is the only one of its key,  *)
(* needs the links and the counters, the links need the types.             *)
Sound(t, Item, Key, Fits) ==
  /\ t \in TableOf(Item, Key)
  /\ WellLinked(t)
  /\ Reached(t)
  /\ KeysUnique(t)
  /\ FlowsFit(t, Fits)

(* Reached from one flow, and from no other.                               *)
LEMMA ReachedIsNoOrphan ==
  ASSUME NEW Item, NEW Key, NEW t \in TableOf(Item, Key), WellLinked(t), Reached(t)
  PROVE  NoOrphan(t)
<1> SUFFICES ASSUME NEW i \in HeldItems(t)
             PROVE  Cardinality({f \in LiveFlows(t) : i \in Chain(t, t.start_index[f])}) = 1
  BY DEF NoOrphan
<1>1. PICK f \in LiveFlows(t) : i \in Chain(t, t.start_index[f])
  BY DEF Reached
<1>2. \A g \in LiveFlows(t) : i \in Chain(t, t.start_index[g]) => g = f
  BY <1>1, ChainsDisjoint
<1>3. {g \in LiveFlows(t) : i \in Chain(t, t.start_index[g])} = {f}
  BY <1>1, <1>2
<1> QED
  BY <1>3, FS_Singleton

LEMMA NewTableSound ==
  ASSUME NEW Item, NEW Key, NEW Fits
  PROVE  Sound(NewTable, Item, Key, Fits)
<1>1. HeldItems(NewTable) = {} /\ LiveFlows(NewTable) = {}
  BY DEF NewTable, HeldItems, LiveFlows
<1> QED
  BY <1>1, NewTableOK DEF Sound, Reached, KeysUnique, FlowsFit

(* The walk of a flow after an insertion behind prev: as before, with the  *)
(* new slot if prev is on it.                                              *)
LEMMA PutItemChain ==
  ASSUME NEW Item, NEW Key, NEW t \in TableOf(Item, Key), WellLinked(t),
         NEW i \in Slot \ HeldItems(t), NEW x, NEW prev \in HeldItems(t),
         NEW s \in HeldItems(t)
  PROVE  Chain(PutItem(t, i, x, prev), s) =
           Chain(t, s) \cup (IF prev \in Chain(t, s) THEN {i} ELSE {})
<1> DEFINE u == PutItem(t, i, x, prev)
           T == Chain(t, s) \cup (IF prev \in Chain(t, s) THEN {i} ELSE {})
           R == Chain(u, s) \cap HeldItems(t)
<1>1. /\ HeldItems(t) \subseteq Slot /\ INVALID_ARRAY_INDEX \notin HeldItems(t)
      /\ Chain(t, s) \subseteq HeldItems(t)
  BY InvalidIsNoSlot, ChainIsHeld DEF HeldItems, WellLinked
<1>2. /\ \A k \in HeldItems(t) \ {prev} : u.next_pkt_idx[k] = t.next_pkt_idx[k]
      /\ u.next_pkt_idx[i] = t.next_pkt_idx[prev]
      /\ u.next_pkt_idx[prev] = i
  <2>1. u.next_pkt_idx = [t.next_pkt_idx EXCEPT ![i] = t.next_pkt_idx[prev], ![prev] = i]
    BY <1>1 DEF PutItem, TableOf
  <2> QED
    BY <2>1, <1>1 DEF TableOf
<1> HIDE DEF u
<1>3. Chain(u, s) \subseteq T
  <2>1. T \in SUBSET Slot /\ s \in T
    BY <1>1, ChainStarts
  <2>2. \A k \in T : u.next_pkt_idx[k] \in T \cup {INVALID_ARRAY_INDEX}
    BY <1>1, <1>2, ChainIsClosed
  <2> HIDE DEF T
  <2> QED
    BY <2>1, <2>2, ChainLeast
<1>4. Chain(t, s) \subseteq R
  <2>1. R \in SUBSET Slot /\ s \in R
    BY <1>1, ChainStarts
  <2>2. ASSUME NEW k \in R PROVE t.next_pkt_idx[k] \in R \cup {INVALID_ARRAY_INDEX}
    <3>1. t.next_pkt_idx[k] \in HeldItems(t) \cup {INVALID_ARRAY_INDEX}
      BY DEF WellLinked, NoDangling
    <3>2. CASE k # prev
      BY <1>1, <1>2, <3>1, <3>2, ChainGoesOn
    <3>3. CASE k = prev
      <4>1. i \in Chain(u, s)
        BY <1>2, <3>3, ChainGoesOn
      <4> QED
        BY <4>1, <1>1, <1>2, <3>1, <3>3, ChainGoesOn
    <3> QED
      BY <3>2, <3>3
  <2> HIDE DEF R
  <2> QED
    BY <2>1, <2>2, ChainLeast
<1>5. prev \in Chain(t, s) => i \in Chain(u, s)
  BY <1>2, <1>4, ChainGoesOn
<1>6. Chain(u, s) = T
  BY <1>3, <1>4, <1>5
<1> QED
  BY <1>6 DEF u

(* A packet is stored in flow f, behind prev.                              *)
LEMMA PutItemSound ==
  ASSUME NEW Item, NEW Key, NEW Fits, NULL \notin Item,
         NEW t, Sound(t, Item, Key, Fits),
         NEW f \in LiveFlows(t), NEW prev \in Chain(t, t.start_index[f]),
         NEW i \in Slot \ HeldItems(t), NEW x \in Item, <<x, t.key[f]>> \in Fits
  PROVE  Sound(PutItem(t, i, x, prev), Item, Key, Fits)
<1> DEFINE u == PutItem(t, i, x, prev)
<1> USE DEF Sound
<1>1. /\ \A g \in LiveFlows(t) : /\ t.start_index[g] \in HeldItems(t)
                                 /\ Chain(t, t.start_index[g]) \subseteq HeldItems(t)
      /\ prev \in HeldItems(t)
  BY ChainIsHeld DEF WellLinked, NoDangling
<1>2. /\ u \in TableOf(Item, Key) /\ WellLinked(u)
      /\ HeldItems(u) = HeldItems(t) \cup {i} /\ LiveFlows(u) = LiveFlows(t)
  BY <1>1, PutItemOK
<1>3. /\ u.start_index = t.start_index /\ u.key = t.key
      /\ u.item[i] = x /\ \A k \in HeldItems(t) : u.item[k] = t.item[k]
  BY <1>2 DEF PutItem, TableOf, HeldItems
<1>4. \A g \in LiveFlows(t) :
        Chain(u, t.start_index[g]) =
          Chain(t, t.start_index[g]) \cup (IF prev \in Chain(t, t.start_index[g]) THEN {i} ELSE {})
  BY <1>1, PutItemChain
<1>5. \A g \in LiveFlows(t) : prev \in Chain(t, t.start_index[g]) => g = f
  BY ChainsDisjoint
<1> HIDE DEF u
<1>6. Reached(u)
  BY <1>2, <1>3, <1>4 DEF Reached
<1>7. KeysUnique(u)
  BY <1>2, <1>3 DEF KeysUnique
<1>8. FlowsFit(u, Fits)
  <2> SUFFICES ASSUME NEW g \in LiveFlows(t), NEW k \in Chain(u, t.start_index[g])
               PROVE  <<u.item[k], t.key[g]>> \in Fits
    BY <1>2, <1>3 DEF FlowsFit
  <2>1. CASE k \in Chain(t, t.start_index[g])
    BY <2>1, <1>1, <1>3 DEF FlowsFit
  <2>2. CASE k = i /\ g = f
    BY <2>2, <1>3
  <2> QED
    BY <2>1, <2>2, <1>4, <1>5
<1> QED
  BY <1>2, <1>6, <1>7, <1>8 DEF u

(* A packet in a slot of its own, not yet in a flow: the flows are as they *)
(* were.                                                                   *)
LEMMA PutAloneChain ==
  ASSUME NEW Item, NEW Key, NEW t \in TableOf(Item, Key), WellLinked(t),
         NEW i \in Slot \ HeldItems(t), NEW x, NEW s \in HeldItems(t)
  PROVE  Chain(PutItem(t, i, x, INVALID_ARRAY_INDEX), s) = Chain(t, s)
<1> DEFINE u == PutItem(t, i, x, INVALID_ARRAY_INDEX)
<1>1. u.next_pkt_idx = [t.next_pkt_idx EXCEPT ![i] = INVALID_ARRAY_INDEX]
  BY DEF PutItem, TableOf
<1>2. \A k \in HeldItems(t) : u.next_pkt_idx[k] = t.next_pkt_idx[k]
  BY <1>1 DEF TableOf, HeldItems
<1>3. \A k \in HeldItems(t) : t.next_pkt_idx[k] \in HeldItems(t) \cup {INVALID_ARRAY_INDEX}
  BY DEF WellLinked, NoDangling
<1>4. HeldItems(t) \in SUBSET Slot
  BY DEF HeldItems
<1> HIDE DEF u
<1>5. Chain(u, s) = Chain(t, s)
  BY <1>2, <1>3, <1>4, ChainFrame
<1> QED
  BY <1>5 DEF u

(* A packet whose key no live flow has opens a flow.                       *)
LEMMA NewFlowSound ==
  ASSUME NEW Item, NEW Key, NEW Fits, NULL \notin Item,
         NEW t, Sound(t, Item, Key, Fits),
         NEW i \in Slot \ HeldItems(t), NEW x \in Item,
         NEW f \in Slot \ LiveFlows(t), NEW k \in Key, <<x, k>> \in Fits,
         \A g \in LiveFlows(t) : t.key[g] # k
  PROVE  Sound(PutFlow(PutItem(t, i, x, INVALID_ARRAY_INDEX), f, k, i), Item, Key, Fits)
<1> DEFINE u == PutItem(t, i, x, INVALID_ARRAY_INDEX)
           v == PutFlow(u, f, k, i)
<1> USE DEF Sound
<1>1. \A g \in LiveFlows(t) : /\ t.start_index[g] \in HeldItems(t)
                             /\ Chain(t, t.start_index[g]) \subseteq HeldItems(t)
  BY ChainIsHeld DEF WellLinked, NoDangling
<1>2. /\ u \in TableOf(Item, Key) /\ WellLinked(u)
      /\ HeldItems(u) = HeldItems(t) \cup {i} /\ LiveFlows(u) = LiveFlows(t)
  BY PutItemOK
<1>3. /\ u.start_index = t.start_index /\ u.key = t.key
      /\ u.item = [t.item EXCEPT ![i] = x]
      /\ u.next_pkt_idx = [t.next_pkt_idx EXCEPT ![i] = INVALID_ARRAY_INDEX]
  BY DEF PutItem, TableOf
<1>4. /\ \A g \in LiveFlows(u) : u.start_index[g] # i
      /\ \A j \in HeldItems(u) : u.next_pkt_idx[j] # i
      /\ u.next_pkt_idx[i] = INVALID_ARRAY_INDEX
      /\ u.item[i] = x /\ \A j \in HeldItems(t) : u.item[j] = t.item[j]
  BY <1>1, <1>2, <1>3, InvalidIsNoSlot DEF WellLinked, NoDangling, TableOf, HeldItems
<1>5. \A g \in LiveFlows(t) : Chain(u, t.start_index[g]) = Chain(t, t.start_index[g])
  BY <1>1, PutAloneChain
<1>6. Chain(u, i) = {i}
  <2>1. {i} \in SUBSET Slot /\ i \in Slot
    OBVIOUS
  <2> QED
    BY <1>4, <2>1, ChainLeast, ChainStarts
<1> HIDE DEF u
<1>7. v \in TableOf(Item, Key) /\ WellLinked(v)
  BY <1>2, <1>4, PutFlowOK
<1>8. /\ v.item = u.item /\ v.next_pkt_idx = u.next_pkt_idx
      /\ v.start_index = [u.start_index EXCEPT ![f] = i]
      /\ v.key = [u.key EXCEPT ![f] = k]
  BY <1>2 DEF PutFlow, TableOf
<1>9. /\ HeldItems(v) = HeldItems(t) \cup {i} /\ LiveFlows(v) = LiveFlows(t) \cup {f}
      /\ v.start_index[f] = i /\ v.key[f] = k
      /\ \A g \in LiveFlows(t) : v.start_index[g] = t.start_index[g] /\ v.key[g] = t.key[g]
  BY <1>2, <1>3, <1>8, InvalidIsNoSlot DEF TableOf, HeldItems, LiveFlows
<1>10. \A j : Chain(v, j) = Chain(u, j)
  BY <1>8 DEF Chain
<1> HIDE DEF v
<1>11. Reached(v)
  BY <1>5, <1>6, <1>9, <1>10 DEF Reached
<1>12. KeysUnique(v)
  BY <1>9 DEF KeysUnique
<1>13. FlowsFit(v, Fits)
  BY <1>1, <1>4, <1>5, <1>6, <1>8, <1>9, <1>10 DEF FlowsFit
<1> QED
  BY <1>7, <1>11, <1>12, <1>13 DEF v, u

(* The packet is taken out again: nothing has changed but stale fields.    *)
LEMMA RollBackSound ==
  ASSUME NEW Item, NEW Key, NEW Fits, NULL \notin Item,
         NEW t, Sound(t, Item, Key, Fits),
         NEW i \in Slot \ HeldItems(t), NEW x \in Item
  PROVE  LET u == DeleteItem(PutItem(t, i, x, INVALID_ARRAY_INDEX), i)
         IN  /\ Sound(u, Item, Key, Fits)
             /\ HeldItems(u) = HeldItems(t)
             /\ \A k \in HeldItems(t) : u.item[k] = t.item[k]
<1> DEFINE u == PutItem(t, i, x, INVALID_ARRAY_INDEX)
           v == DeleteItem(u, i)
<1> USE DEF Sound
<1>1. \A g \in LiveFlows(t) : /\ t.start_index[g] \in HeldItems(t)
                             /\ Chain(t, t.start_index[g]) \subseteq HeldItems(t)
  BY ChainIsHeld DEF WellLinked, NoDangling
<1>2. /\ u \in TableOf(Item, Key) /\ WellLinked(u)
      /\ HeldItems(u) = HeldItems(t) \cup {i} /\ LiveFlows(u) = LiveFlows(t)
  BY PutItemOK
<1>3. /\ u.start_index = t.start_index /\ u.key = t.key
      /\ u.item = [t.item EXCEPT ![i] = x]
      /\ u.next_pkt_idx = [t.next_pkt_idx EXCEPT ![i] = INVALID_ARRAY_INDEX]
  BY DEF PutItem, TableOf
<1>4. /\ \A g \in LiveFlows(u) : u.start_index[g] # i
      /\ \A j \in HeldItems(u) : u.next_pkt_idx[j] # i
      /\ \A j \in HeldItems(t) : u.item[j] = t.item[j]
  BY <1>1, <1>2, <1>3, InvalidIsNoSlot DEF WellLinked, NoDangling, TableOf, HeldItems
<1>5. \A g \in LiveFlows(t) : Chain(u, t.start_index[g]) = Chain(t, t.start_index[g])
  BY <1>1, PutAloneChain
<1> HIDE DEF u
<1>6. v \in TableOf(Item, Key) /\ WellLinked(v)
  BY <1>2, <1>4, DeleteItemOK
<1>7. /\ v.item = [u.item EXCEPT ![i] = NULL] /\ v.next_pkt_idx = u.next_pkt_idx
      /\ v.start_index = u.start_index /\ v.key = u.key
  BY <1>2 DEF DeleteItem, TableOf
<1>8. /\ HeldItems(v) = HeldItems(t) /\ LiveFlows(v) = LiveFlows(t)
      /\ \A k \in HeldItems(t) : v.item[k] = t.item[k]
  BY <1>2, <1>3, <1>4, <1>7 DEF TableOf, HeldItems, LiveFlows
<1>9. \A j : Chain(v, j) = Chain(u, j)
  BY <1>7 DEF Chain
<1> HIDE DEF v
<1>10. Reached(v) /\ KeysUnique(v)
  BY <1>3, <1>5, <1>7, <1>8, <1>9 DEF Reached, KeysUnique
<1>11. FlowsFit(v, Fits)
  BY <1>1, <1>3, <1>5, <1>7, <1>8, <1>9 DEF FlowsFit
<1> QED
  BY <1>6, <1>8, <1>10, <1>11 DEF v, u

(* A merge in place.                                                       *)
LEMMA SetItemSound ==
  ASSUME NEW Item, NEW Key, NEW Fits, NULL \notin Item,
         NEW t, Sound(t, Item, Key, Fits),
         NEW f \in LiveFlows(t), NEW i \in Chain(t, t.start_index[f]),
         NEW x \in Item, <<x, t.key[f]>> \in Fits
  PROVE  Sound(SetItem(t, i, x), Item, Key, Fits)
<1> DEFINE u == SetItem(t, i, x)
<1> USE DEF Sound
<1>1. /\ i \in HeldItems(t)
      /\ \A g \in LiveFlows(t) : Chain(t, t.start_index[g]) \subseteq HeldItems(t)
  BY ChainIsHeld DEF WellLinked, NoDangling
<1>2. u \in TableOf(Item, Key) /\ WellLinked(u)
  BY <1>1, SetItemOK
<1>3. /\ u.item = [t.item EXCEPT ![i] = x] /\ u.next_pkt_idx = t.next_pkt_idx
      /\ u.start_index = t.start_index /\ u.key = t.key
  BY DEF SetItem, TableOf
<1>4. HeldItems(u) = HeldItems(t) /\ LiveFlows(u) = LiveFlows(t)
  BY <1>1, <1>3 DEF HeldItems, LiveFlows, TableOf
<1>5. \A j : Chain(u, j) = Chain(t, j)
  BY <1>3 DEF Chain
<1>6. \A g \in LiveFlows(t) : i \in Chain(t, t.start_index[g]) => g = f
  BY ChainsDisjoint
<1>7. u.item[i] = x /\ \A k \in HeldItems(t) \ {i} : u.item[k] = t.item[k]
  BY <1>1, <1>3 DEF TableOf, HeldItems
<1> HIDE DEF u
<1>8. Reached(u) /\ KeysUnique(u)
  BY <1>3, <1>4, <1>5 DEF Reached, KeysUnique
<1>9. FlowsFit(u, Fits)
  BY <1>1, <1>3, <1>4, <1>5, <1>6, <1>7 DEF FlowsFit
<1> QED
  BY <1>2, <1>8, <1>9 DEF u

(* One turn of a flush loop: the rest of the flow stays reached, its walk  *)
(* starts at the second item now.                                          *)
LEMMA FlushFirstSound ==
  ASSUME NEW Item, NEW Key, NEW Fits, NULL \notin Item,
         NEW t, Sound(t, Item, Key, Fits), NEW f \in LiveFlows(t)
  PROVE  LET u == FlushFirst(t, f)
             j == t.start_index[f]
         IN  /\ Sound(u, Item, Key, Fits)
             /\ HeldItems(u) = HeldItems(t) \ {j}
             /\ \A k \in HeldItems(u) : u.item[k] = t.item[k]
<1> DEFINE u == FlushFirst(t, f)
           j == t.start_index[f]
           next == t.next_pkt_idx[j]
<1> USE DEF Sound
<1>1. f \in Slot /\ j \in HeldItems(t) /\ j \in Slot
  BY DEF LiveFlows, HeldItems, WellLinked, NoDangling
<1>2. u \in TableOf(Item, Key) /\ WellLinked(u)
  BY FlushFirstOK
<1>3. /\ u.item = [t.item EXCEPT ![j] = NULL]
      /\ u.next_pkt_idx = t.next_pkt_idx
      /\ u.start_index = [t.start_index EXCEPT ![f] = next]
      /\ u.key = t.key
  BY DEF FlushFirst, DeleteItem, TableOf
<1>4. /\ HeldItems(u) = HeldItems(t) \ {j} /\ \A k \in HeldItems(u) : u.item[k] = t.item[k]
      /\ LiveFlows(u) = IF next = INVALID_ARRAY_INDEX THEN LiveFlows(t) \ {f} ELSE LiveFlows(t)
      /\ u.start_index[f] = next
      /\ \A g \in LiveFlows(t) \ {f} : u.start_index[g] = t.start_index[g]
  BY <1>1, <1>3 DEF HeldItems, LiveFlows, TableOf
<1>5. \A k : Chain(u, k) = Chain(t, k)
  BY <1>3 DEF Chain
<1>6. next \in HeldItems(t) \cup {INVALID_ARRAY_INDEX}
  BY <1>1 DEF WellLinked, NoDangling
<1>7. /\ Chain(t, j) \subseteq {j} \cup Chain(t, next)
      /\ next # INVALID_ARRAY_INDEX => Chain(t, next) \subseteq Chain(t, j)
  <2>1. Chain(t, j) \subseteq {j} \cup Chain(t, next)
    BY <1>1, ChainUnfold
  <2>2. ASSUME next # INVALID_ARRAY_INDEX PROVE Chain(t, next) \subseteq Chain(t, j)
    <3>1. next \in Chain(t, j)
      BY <2>2, <1>1, <1>6, ChainStarts, ChainIsClosed
    <3> QED
      BY <3>1, ChainLeast, ChainInSlot, ChainIsClosed
  <2> QED
    BY <2>1, <2>2
<1>8. next = INVALID_ARRAY_INDEX => Chain(t, j) \subseteq {j}
  <2>1. ASSUME next = INVALID_ARRAY_INDEX PROVE Chain(t, j) \subseteq {j}
    <3> DEFINE S == {j}
    <3>1. /\ S \in SUBSET Slot /\ j \in S
          /\ \A i \in S : t.next_pkt_idx[i] \in S \cup {INVALID_ARRAY_INDEX}
      BY <1>1, <2>1
    <3>2. Chain(t, j) \subseteq S
      <4> HIDE DEF S, j
      <4> QED
        BY <3>1, ChainLeast
    <3> QED
      BY <3>2
  <2> QED
    BY <2>1
<1>9. Chain(u, j) \subseteq HeldItems(t) /\ \A g \in LiveFlows(u) :
        Chain(u, u.start_index[g]) \subseteq HeldItems(u)
  <2>1. Chain(t, j) \subseteq HeldItems(t)
    BY <1>1, ChainIsHeld DEF WellLinked
  <2>2. \A g \in LiveFlows(u) : Chain(u, u.start_index[g]) \subseteq HeldItems(u)
    BY <1>2, ChainIsHeld DEF WellLinked, NoDangling
  <2> QED
    BY <2>1, <2>2, <1>5
<1> HIDE DEF u
<1>10. Reached(u)
  <2> SUFFICES ASSUME NEW k \in HeldItems(t) \ {j}
               PROVE  \E g \in LiveFlows(u) : k \in Chain(t, u.start_index[g])
    BY <1>4, <1>5 DEF Reached
  <2>1. PICK g \in LiveFlows(t) : k \in Chain(t, t.start_index[g])
    BY DEF Reached
  <2>2. CASE g # f
    BY <2>1, <2>2, <1>4
  <2>3. CASE g = f
    BY <2>1, <2>3, <1>4, <1>7, <1>8
  <2> QED
    BY <2>2, <2>3
<1>11. KeysUnique(u)
  BY <1>3, <1>4 DEF KeysUnique
<1>12. FlowsFit(u, Fits)
  <2> SUFFICES ASSUME NEW g \in LiveFlows(u), NEW k \in Chain(u, u.start_index[g])
               PROVE  <<u.item[k], u.key[g]>> \in Fits
    BY DEF FlowsFit
  <2>1. g \in LiveFlows(t) /\ k \in Chain(t, t.start_index[g])
    BY <1>4, <1>5, <1>7
  <2>2. u.item[k] = t.item[k]
    BY <1>4, <1>9
  <2> QED
    BY <2>1, <2>2, <1>3 DEF FlowsFit
<1> QED
  BY <1>2, <1>4, <1>10, <1>11, <1>12 DEF u
(* A packet is stored in front of the first item of flow f.                *)
FrontPut(t, u, f, i, x) ==
  /\ HeldItems(u) = HeldItems(t) \cup {i}
  /\ u.item = [t.item EXCEPT ![i] = x]
  /\ u.next_pkt_idx = [t.next_pkt_idx EXCEPT ![i] = t.start_index[f]]
  /\ u.start_index = [t.start_index EXCEPT ![f] = i]
  /\ u.key = t.key
  /\ Chain(u, i) = Chain(t, t.start_index[f]) \cup {i}
  /\ \A g \in LiveFlows(t) \ {f} : Chain(u, t.start_index[g]) = Chain(t, t.start_index[g])

LEMMA PutFirstSound ==
  ASSUME NEW Item, NEW Key, NEW Fits, NULL \notin Item,
         NEW t, Sound(t, Item, Key, Fits), NEW f \in LiveFlows(t),
         NEW i \in Slot \ HeldItems(t), NEW x \in Item, <<x, t.key[f]>> \in Fits
  PROVE  Sound(PutFirst(t, f, i, x), Item, Key, Fits) /\ FrontPut(t, PutFirst(t, f, i, x), f, i, x)
<1> DEFINE u == PutFirst(t, f, i, x)
           s == t.start_index[f]
<1> USE DEF Sound
<1>1. /\ f \in Slot /\ s \in HeldItems(t) /\ s \in Slot /\ i # INVALID_ARRAY_INDEX
      /\ HeldItems(t) \in SUBSET Slot /\ INVALID_ARRAY_INDEX \notin HeldItems(t)
      /\ \A g \in LiveFlows(t) : /\ t.start_index[g] \in HeldItems(t)
                                 /\ Chain(t, t.start_index[g]) \subseteq HeldItems(t)
  BY ChainIsHeld, InvalidIsNoSlot DEF LiveFlows, HeldItems, WellLinked, NoDangling
<1>2. /\ u.item = [t.item EXCEPT ![i] = x]
      /\ u.next_pkt_idx = [t.next_pkt_idx EXCEPT ![i] = s]
      /\ u.start_index = [t.start_index EXCEPT ![f] = i]
      /\ u.key = t.key /\ u.item_num = t.item_num + 1 /\ u.flow_num = t.flow_num
  BY DEF PutFirst, PutItem, TableOf
<1>3. u \in TableOf(Item, Key)
  <2> DEFINE v == PutItem(t, i, x, INVALID_ARRAY_INDEX)
             n == [t.next_pkt_idx EXCEPT ![i] = s]
             b == [t.start_index EXCEPT ![f] = i]
  <2>1. v \in TableOf(Item, Key)
    BY PutItemOK
  <2>2. n \in [Slot -> Index] /\ b \in [Slot -> Index]
    BY <1>1 DEF TableOf, Index
  <2>3. u = [v EXCEPT !.next_pkt_idx = n, !.start_index = b]
    BY DEF PutFirst
  <2> HIDE DEF u, v, n, b
  <2> QED
    BY <2>1, <2>2, <2>3 DEF TableOf
<1>4. /\ HeldItems(u) = HeldItems(t) \cup {i}
      /\ u.item[i] = x /\ \A k \in HeldItems(t) : u.item[k] = t.item[k]
  BY <1>2 DEF HeldItems, TableOf
<1>5. LiveFlows(u) = LiveFlows(t)
  BY <1>1, <1>2 DEF LiveFlows, TableOf
<1>6. /\ u.next_pkt_idx[i] = s /\ u.start_index[f] = i
      /\ \A k \in HeldItems(t) : u.next_pkt_idx[k] = t.next_pkt_idx[k]
      /\ \A g \in LiveFlows(t) \ {f} : u.start_index[g] = t.start_index[g]
  BY <1>1, <1>2 DEF TableOf, LiveFlows
<1>7. CountersAgree(u)
  BY <1>2, <1>4, <1>5, SlotsFinite, FS_AddElement DEF WellLinked, CountersAgree
<1> HIDE DEF u
<1>8. NoDangling(u)
  BY <1>1, <1>4, <1>5, <1>6 DEF NoDangling, WellLinked
<1>9. NoSharing(u)
  BY <1>1, <1>4, <1>5, <1>6 DEF NoSharing, NoDangling, WellLinked
<1>10. \A k \in HeldItems(t) : Chain(u, k) = Chain(t, k)
  <2>1. \A k \in HeldItems(t) : t.next_pkt_idx[k] \in HeldItems(t) \cup {INVALID_ARRAY_INDEX}
    BY DEF WellLinked, NoDangling
  <2> QED
    BY <1>1, <1>6, <2>1, ChainFrame
<1>11. Chain(u, i) = Chain(t, s) \cup {i}
  <2>1. Chain(u, i) \subseteq {i} \cup Chain(u, s)
    BY <1>3, <1>6, ChainUnfold
  <2>2. i \in Chain(u, i) /\ s \in Chain(u, i)
    BY <1>1, <1>6, ChainStarts, ChainGoesOn
  <2>3. Chain(u, s) \subseteq Chain(u, i)
    BY <1>3, <2>2, ChainLeast, ChainInSlot, ChainIsClosed
  <2> QED
    BY <1>1, <1>10, <2>1, <2>2, <2>3
<1>12. \A g \in LiveFlows(t) \ {f} : Chain(u, t.start_index[g]) = Chain(t, t.start_index[g])
  BY <1>1, <1>10
<1>13. Reached(u)
  BY <1>4, <1>5, <1>6, <1>11, <1>12 DEF Reached
<1>14. KeysUnique(u)
  BY <1>2, <1>5 DEF KeysUnique
<1>15. FlowsFit(u, Fits)
  <2> SUFFICES ASSUME NEW g \in LiveFlows(t), NEW k \in Chain(u, u.start_index[g])
               PROVE  <<u.item[k], t.key[g]>> \in Fits
    BY <1>2, <1>5 DEF FlowsFit
  <2>1. CASE k \in Chain(t, t.start_index[g])
    BY <2>1, <1>1, <1>4 DEF FlowsFit
  <2>2. CASE k = i /\ g = f
    BY <2>2, <1>4
  <2> QED
    BY <2>1, <2>2, <1>6, <1>11, <1>12
<1>16. Sound(u, Item, Key, Fits)
  BY <1>3, <1>7, <1>8, <1>9, <1>13, <1>14, <1>15 DEF WellLinked
<1>17. FrontPut(t, u, f, i, x)
  BY <1>2, <1>4, <1>11, <1>12 DEF FrontPut
<1> QED
  BY <1>16, <1>17 DEF u

(* The item behind the first of flow f is merged into it.                  *)
NextAbsorbed(t, u, f, x) ==
  LET j    == t.start_index[f]
      next == t.next_pkt_idx[j]
  IN  /\ j \in HeldItems(t) /\ next \in HeldItems(t) /\ j # next
      /\ next \in Chain(t, j)
      /\ HeldItems(u) = HeldItems(t) \ {next}
      /\ u.item[j] = x
      /\ \A k \in HeldItems(u) \ {j} : u.item[k] = t.item[k]
      /\ u.next_pkt_idx = [t.next_pkt_idx EXCEPT ![j] = t.next_pkt_idx[next]]
      /\ u.start_index = t.start_index /\ u.key = t.key
      /\ Chain(u, j) = Chain(t, j) \ {next}
      /\ \A g \in LiveFlows(t) \ {f} : Chain(u, t.start_index[g]) = Chain(t, t.start_index[g])

LEMMA AbsorbSound ==
  ASSUME NEW Item, NEW Key, NEW Fits, NULL \notin Item,
         NEW t, Sound(t, Item, Key, Fits), NEW f \in LiveFlows(t),
         t.next_pkt_idx[t.start_index[f]] # INVALID_ARRAY_INDEX,
         NEW x \in Item, <<x, t.key[f]>> \in Fits
  PROVE  LET u == Absorb(t, t.start_index[f], x)
         IN  Sound(u, Item, Key, Fits) /\ NextAbsorbed(t, u, f, x)
<1> DEFINE j == t.start_index[f]
           next == t.next_pkt_idx[j]
           u == Absorb(t, j, x)
<1> USE DEF Sound
<1>1. /\ f \in Slot /\ j \in HeldItems(t) /\ next \in HeldItems(t) /\ j # next
      /\ HeldItems(t) \in SUBSET Slot /\ INVALID_ARRAY_INDEX \notin HeldItems(t)
      /\ \A g \in LiveFlows(t) : /\ t.start_index[g] \in HeldItems(t)
                                 /\ Chain(t, t.start_index[g]) \subseteq HeldItems(t)
  BY ChainIsHeld, InvalidIsNoSlot DEF LiveFlows, HeldItems, WellLinked, NoDangling, NoSharing
<1>2. j \in Slot /\ next \in Slot /\ j \in Chain(t, j) /\ next \in Chain(t, j)
  BY <1>1, ChainStarts, ChainGoesOn
<1>3. /\ u.item = [[t.item EXCEPT ![j] = x] EXCEPT ![next] = NULL]
      /\ u.next_pkt_idx = [t.next_pkt_idx EXCEPT ![j] = t.next_pkt_idx[next]]
      /\ u.start_index = t.start_index /\ u.key = t.key
      /\ u.item_num = t.item_num - 1 /\ u.flow_num = t.flow_num
  BY DEF Absorb, DeleteItem, SetItem, TableOf
<1>4. /\ HeldItems(u) = HeldItems(t) \ {next}
      /\ u.item[j] = x /\ \A k \in HeldItems(t) \ {j, next} : u.item[k] = t.item[k]
  BY <1>1, <1>2, <1>3 DEF HeldItems, TableOf
<1>5. LiveFlows(u) = LiveFlows(t)
  BY <1>3 DEF LiveFlows
<1>6. CountersAgree(u) /\ u.item_num \in Nat
  <2>1. IsFiniteSet(HeldItems(t)) /\ IsFiniteSet(HeldItems(u))
    BY SlotsFinite
  <2>2. Cardinality(HeldItems(u)) = Cardinality(HeldItems(t)) - 1
    BY <1>1, <1>4, <2>1, FS_RemoveElement
  <2> QED
    BY <1>3, <1>5, <2>1, <2>2, FS_CardinalityType DEF WellLinked, CountersAgree
<1>7. u \in TableOf(Item, Key)
  <2> DEFINE a == [t.item EXCEPT ![j] = x]
             b == [a EXCEPT ![next] = NULL]
             n == [t.next_pkt_idx EXCEPT ![j] = t.next_pkt_idx[next]]
  <2>1. n \in [Slot -> Index] /\ b \in [Slot -> Item \cup {NULL}]
    BY <1>2 DEF TableOf
  <2>2. SetItem(t, j, x) = [t EXCEPT !.item = a]
    BY DEF SetItem
  <2>3. u = [[[t EXCEPT !.item = a] EXCEPT !.item = [([t EXCEPT !.item = a]).item EXCEPT ![next] = NULL],
                                          !.item_num = ([t EXCEPT !.item = a]).item_num - 1]
               EXCEPT !.next_pkt_idx = n]
    BY <2>2 DEF Absorb, DeleteItem
  <2>4. ([t EXCEPT !.item = a]).item = a /\ ([t EXCEPT !.item = a]).item_num = t.item_num
    BY DEF TableOf
  <2>5. u = [[[t EXCEPT !.item = a] EXCEPT !.item = b, !.item_num = t.item_num - 1]
               EXCEPT !.next_pkt_idx = n]
    BY <2>3, <2>4
  <2>6. t.item_num - 1 \in Nat
    BY <1>3, <1>6
  <2> HIDE DEF a, b, n, u, j, next
  <2> QED
    BY <2>1, <2>5, <2>6 DEF TableOf
<1>8. /\ u.next_pkt_idx[j] = t.next_pkt_idx[next]
      /\ \A k \in HeldItems(t) \ {j} : u.next_pkt_idx[k] = t.next_pkt_idx[k]
  BY <1>1, <1>2, <1>3 DEF TableOf
<1>9. \A k \in HeldItems(t) : t.next_pkt_idx[k] = next => k = j
  BY <1>1 DEF WellLinked, NoSharing
<1> HIDE DEF u
<1>a. /\ \A k \in HeldItems(t) : t.next_pkt_idx[k] \in HeldItems(t) \cup {INVALID_ARRAY_INDEX}
      /\ \A k, l \in HeldItems(t) :
            t.next_pkt_idx[k] # INVALID_ARRAY_INDEX /\ t.next_pkt_idx[k] = t.next_pkt_idx[l] => k = l
      /\ \A g \in LiveFlows(t), k \in HeldItems(t) : t.start_index[g] # t.next_pkt_idx[k]
      /\ \A g, h \in LiveFlows(t) : t.start_index[g] = t.start_index[h] => g = h
  BY DEF WellLinked, NoDangling, NoSharing
<1> DEFINE nn == t.next_pkt_idx[next]
<1>b. nn \in HeldItems(t) \cup {INVALID_ARRAY_INDEX} /\ nn # next
  BY <1>1, <1>a
<1>10. NoDangling(u)
  <2> HIDE DEF j, nn
  <2>1. \A g \in LiveFlows(t) : t.start_index[g] # next
    BY <1>1, <1>a DEF j
  <2>2. \A k \in HeldItems(t) \ {next} :
           u.next_pkt_idx[k] = nn \/ (u.next_pkt_idx[k] = t.next_pkt_idx[k] /\ t.next_pkt_idx[k] # next)
    BY <1>8, <1>9 DEF nn
  <2> HIDE DEF next
  <2> QED
    BY <1>1, <1>3, <1>4, <1>5, <1>a, <1>b, <2>1, <2>2 DEF NoDangling
<1>11. NoSharing(u)
  <2>1. \A k \in HeldItems(t) \ {next} :
           \/ k = j /\ u.next_pkt_idx[k] = t.next_pkt_idx[next]
           \/ k # j /\ u.next_pkt_idx[k] = t.next_pkt_idx[k]
    BY <1>8
  <2> HIDE DEF j, next, nn
  <2> QED
    BY <1>1, <1>3, <1>4, <1>5, <1>a, <2>1 DEF NoSharing
<1> HIDE DEF nn
<1>12. Chain(u, j) \subseteq Chain(t, j) \ {next}
  <2> DEFINE T == Chain(t, j) \ {next}
  <2>1. T \in SUBSET Slot /\ j \in T
    BY <1>1, <1>2, ChainInSlot
  <2>2. ASSUME NEW k \in T PROVE u.next_pkt_idx[k] \in T \cup {INVALID_ARRAY_INDEX}
    <3>1. k \in HeldItems(t)
      BY <1>1
    <3>2. CASE k # j
      BY <1>8, <1>9, <3>1, <3>2, ChainIsClosed
    <3>3. CASE k = j
      BY <1>1, <1>2, <1>8, <1>9, <3>3, ChainIsClosed
    <3> QED
      BY <3>2, <3>3
  <2> HIDE DEF T
  <2>3. Chain(u, j) \subseteq T
    BY <2>1, <2>2, ChainLeast
  <2> QED
    BY <2>3 DEF T
<1>13. Chain(t, j) \subseteq Chain(u, j) \cup {next}
  <2> DEFINE R == Chain(u, j) \cup {next}
  <2>1. R \in SUBSET Slot /\ j \in R
    BY <1>2, ChainInSlot, ChainStarts
  <2>2. ASSUME NEW k \in R PROVE t.next_pkt_idx[k] \in R \cup {INVALID_ARRAY_INDEX}
    <3>1. k \in HeldItems(t)
      BY <1>1, <1>12
    <3>2. CASE k = next
      BY <1>7, <1>2, <1>8, <3>2, ChainStarts, ChainIsClosed
    <3>3. CASE k = j
      BY <3>3
    <3>4. CASE k # j /\ k # next
      BY <1>7, <1>8, <3>1, <3>4, ChainIsClosed
    <3> QED
      BY <3>2, <3>3, <3>4
  <2> HIDE DEF R
  <2>3. Chain(t, j) \subseteq R
    BY <2>1, <2>2, ChainLeast
  <2> QED
    BY <2>3 DEF R
<1>14. Chain(u, j) = Chain(t, j) \ {next}
  BY <1>12, <1>13
<1>15. \A g \in LiveFlows(t) \ {f} : Chain(u, t.start_index[g]) = Chain(t, t.start_index[g])
  <2> SUFFICES ASSUME NEW g \in LiveFlows(t) \ {f}
               PROVE  Chain(u, t.start_index[g]) = Chain(t, t.start_index[g])
    OBVIOUS
  <2> DEFINE S == Chain(t, t.start_index[g])
  <2>1. S \cap Chain(t, j) = {}
    BY ChainsDisjoint
  <2>2. S \in SUBSET Slot /\ t.start_index[g] \in S /\ S \subseteq HeldItems(t)
    BY <1>1, ChainStarts
  <2>3. \A k \in S : /\ t.next_pkt_idx[k] \in S \cup {INVALID_ARRAY_INDEX}
                     /\ u.next_pkt_idx[k] = t.next_pkt_idx[k]
    BY <1>2, <1>8, <2>1, <2>2, ChainIsClosed
  <2> HIDE DEF S
  <2>4. Chain(u, t.start_index[g]) = Chain(t, t.start_index[g])
    BY <2>2, <2>3, ChainFrame
  <2> QED
    BY <2>4
<1>16. Reached(u)
  <2> SUFFICES ASSUME NEW k \in HeldItems(t) \ {next}
               PROVE  \E g \in LiveFlows(t) : k \in Chain(u, t.start_index[g])
    BY <1>3, <1>4, <1>5 DEF Reached
  <2>1. PICK g \in LiveFlows(t) : k \in Chain(t, t.start_index[g])
    BY DEF Reached
  <2> QED
    BY <1>14, <1>15, <2>1
<1>17. KeysUnique(u)
  BY <1>3, <1>5 DEF KeysUnique
<1>18. FlowsFit(u, Fits)
  <2> SUFFICES ASSUME NEW g \in LiveFlows(t), NEW k \in Chain(u, t.start_index[g])
               PROVE  <<u.item[k], t.key[g]>> \in Fits
    BY <1>3, <1>5 DEF FlowsFit
  <2>1. k \in Chain(t, t.start_index[g]) /\ k \in HeldItems(t)
    BY <1>1, <1>14, <1>15
  <2>2. CASE g # f
    <3>1. k \notin Chain(t, j)
      BY <2>1, <2>2, ChainsDisjoint
    <3>2. u.item[k] = t.item[k]
      BY <1>2, <1>4, <2>1, <3>1
    <3> QED
      BY <2>1, <3>2 DEF FlowsFit
  <2>3. CASE g = f
    <3>1. k # next
      BY <1>14, <2>3
    <3>2. CASE k = j
      BY <1>4, <2>3, <3>2
    <3>3. CASE k # j
      BY <1>4, <2>1, <3>1, <3>3 DEF FlowsFit
    <3> QED
      BY <3>2, <3>3
  <2> QED
    BY <2>2, <2>3
<1>19. Sound(u, Item, Key, Fits)
  BY <1>6, <1>7, <1>10, <1>11, <1>16, <1>17, <1>18 DEF WellLinked
<1>20. NextAbsorbed(t, u, f, x)
  BY <1>1, <1>2, <1>3, <1>4, <1>14, <1>15 DEF NextAbsorbed
<1> QED
  BY <1>19, <1>20 DEF u

-----------------------------------------------------------------------------
(* The searches find what there is: a set of slots has a lowest member.    *)
LEMMA LowestExists ==
  ASSUME NEW S \in SUBSET Nat, S # {}
  PROVE  LowestOf(S) # {}
<1> DEFINE R == OpToRel(<, Nat)
<1>1. IsWellFoundedOn(R, Nat)
  BY NatLessThanWellFounded
<1>2. \A x, y \in Nat : y < x => <<y, x>> \in R
  BY DEF OpToRel
<1> HIDE DEF R
<1>3. PICK x \in S : \A y \in S : ~ (<<y, x>> \in R)
  BY <1>1, WFMin
<1>4. ASSUME NEW y \in S PROVE x <= y
  <2>1. x \in Nat /\ y \in Nat
    OBVIOUS
  <2>2. ~ (y < x)
    BY <1>2, <1>3, <2>1
  <2> QED
    BY <2>1, <2>2
<1> QED
  BY <1>3, <1>4 DEF LowestOf

(* find_a_flow misses no flow.                                             *)
LEMMA FindFlowFinds ==
  ASSUME NEW t, NEW k, FindFlow(t, k) = {}
  PROVE  \A g \in LiveFlows(t) : t.key[g] # k
<1> DEFINE S == {g \in LiveFlows(t) : t.key[g] = k}
<1>1. S \in SUBSET Nat
  BY EntriesNumAssumption DEF LiveFlows, Slot
<1>2. LowestOf(S) = FindFlow(t, k)
  BY DEF LowestOf, FindFlow
<1>3. S = {}
  <2> HIDE DEF S
  <2> QED
    BY <1>1, <1>2, LowestExists
<1> QED
  BY <1>3

-----------------------------------------------------------------------------
(* The ways to store a packet, and the steps of every type.                *)

(* What a call of reassemble may do to the items held: nothing, or put x   *)
(* into an empty slot, or put x in the place of an item.                   *)
SameItems(t, u) ==
  /\ HeldItems(u) = HeldItems(t)
  /\ \A k \in HeldItems(t) : u.item[k] = t.item[k]

OneMore(t, u, x) ==
  \E i \in Slot \ HeldItems(t) :
     /\ HeldItems(u) = HeldItems(t) \cup {i}
     /\ u.item[i] = x
     /\ \A k \in HeldItems(t) : u.item[k] = t.item[k]

OneReplaced(t, u, i, x) ==
  /\ i \in HeldItems(t)
  /\ HeldItems(u) = HeldItems(t)
  /\ u.item[i] = x
  /\ \A k \in HeldItems(t) \ {i} : u.item[k] = t.item[k]

(* ... as an outcome of storing x: refused, or held.                       *)
RefusedOrHeld(t, o, x) ==
  \/ o.ret = -1 /\ SameItems(t, o.tbl)
  \/ o.ret = 0 /\ OneMore(t, o.tbl, x)

-----------------------------------------------------------------------------
(* The ways of a call of reassemble to store a packet.                     *)

LEMMA PutItemIsOneMore ==
  ASSUME NEW Item, NEW Key, NULL \notin Item,
         NEW t \in TableOf(Item, Key), WellLinked(t),
         NEW i \in Slot \ HeldItems(t), NEW x \in Item,
         NEW prev \in HeldItems(t) \cup {INVALID_ARRAY_INDEX}
  PROVE  OneMore(t, PutItem(t, i, x, prev), x)
<1> DEFINE u == PutItem(t, i, x, prev)
<1>1. HeldItems(u) = HeldItems(t) \cup {i}
  BY PutItemOK
<1>2. u.item = [t.item EXCEPT ![i] = x]
  BY DEF PutItem, TableOf
<1>3. u.item[i] = x /\ \A k \in HeldItems(t) : u.item[k] = t.item[k]
  BY <1>2 DEF TableOf, HeldItems
<1> HIDE DEF u
<1>4. OneMore(t, u, x)
  BY <1>1, <1>3 DEF OneMore
<1> QED
  BY <1>4 DEF u

(* Into flow f, behind an item of it.                                      *)
LEMMA StoreInFlowSound ==
  ASSUME NEW Item, NEW Key, NEW Fits, NULL \notin Item,
         NEW t, Sound(t, Item, Key, Fits),
         NEW f \in LiveFlows(t), NEW prev \in Chain(t, t.start_index[f]),
         NEW x \in Item, <<x, t.key[f]>> \in Fits,
         NEW o \in StoreInFlow(t, x, prev)
  PROVE  Sound(o.tbl, Item, Key, Fits) /\ RefusedOrHeld(t, o, x)
<1>1. CASE o = Outcome(-1, t)
  BY <1>1 DEF Outcome, RefusedOrHeld, SameItems
<1>2. CASE \E i \in FindEmptyItem(t) : o = Outcome(0, PutItem(t, i, x, prev))
  <2>1. PICK i \in Slot \ HeldItems(t) : o = Outcome(0, PutItem(t, i, x, prev))
    BY <1>2 DEF FindEmptyItem, LowestOf
  <2>2. Sound(PutItem(t, i, x, prev), Item, Key, Fits)
    BY PutItemSound
  <2>3. prev \in HeldItems(t)
    BY ChainIsHeld DEF Sound, WellLinked, NoDangling
  <2>4. OneMore(t, PutItem(t, i, x, prev), x)
    BY <2>3, PutItemIsOneMore DEF Sound
  <2> QED
    BY <2>1, <2>2, <2>4 DEF Outcome, RefusedOrHeld
<1> QED
  BY <1>1, <1>2 DEF StoreInFlow, InsertNewItem

(* Into flow f, in front of its first item.                                *)
LEMMA StoreAtFrontSound ==
  ASSUME NEW Item, NEW Key, NEW Fits, NULL \notin Item,
         NEW t, Sound(t, Item, Key, Fits), NEW f \in LiveFlows(t),
         NEW i \in FindEmptyItem(t), NEW x \in Item, <<x, t.key[f]>> \in Fits
  PROVE  Sound(PutFirst(t, f, i, x), Item, Key, Fits) /\ OneMore(t, PutFirst(t, f, i, x), x)
<1> DEFINE u == PutFirst(t, f, i, x)
<1>1. i \in Slot \ HeldItems(t)
  BY DEF FindEmptyItem, LowestOf
<1>2. Sound(u, Item, Key, Fits) /\ FrontPut(t, u, f, i, x)
  BY <1>1, PutFirstSound
<1> HIDE DEF u
<1>3. u.item[i] = x /\ \A k \in HeldItems(t) : u.item[k] = t.item[k]
  BY <1>1, <1>2 DEF Sound, TableOf, HeldItems, FrontPut
<1>4. OneMore(t, u, x)
  BY <1>1, <1>2, <1>3 DEF OneMore, FrontPut
<1> QED
  BY <1>2, <1>4 DEF u

(* Into a flow of its own.                                                 *)
LEMMA StoreInNewFlowSound ==
  ASSUME NEW Item, NEW Key, NEW Fits, NULL \notin Item,
         NEW t, Sound(t, Item, Key, Fits),
         NEW x \in Item, NEW k \in Key, <<x, k>> \in Fits, FindFlow(t, k) = {},
         NEW o \in StoreInNewFlow(t, x, k)
  PROVE  Sound(o.tbl, Item, Key, Fits) /\ RefusedOrHeld(t, o, x)
<1>1. CASE o = Outcome(-1, t)
  BY <1>1 DEF Outcome, RefusedOrHeld, SameItems
<1>2. ASSUME NEW i \in FindEmptyItem(t),
             o = Outcome(-1, DeleteItem(PutItem(t, i, x, INVALID_ARRAY_INDEX), i))
             \/ \E f \in FindEmptyFlow(PutItem(t, i, x, INVALID_ARRAY_INDEX)) :
                  o = Outcome(0, PutFlow(PutItem(t, i, x, INVALID_ARRAY_INDEX), f, k, i))
      PROVE  Sound(o.tbl, Item, Key, Fits) /\ RefusedOrHeld(t, o, x)
  <2> DEFINE u == PutItem(t, i, x, INVALID_ARRAY_INDEX)
  <2>1. i \in Slot \ HeldItems(t)
    BY DEF FindEmptyItem, LowestOf
  <2>2. LiveFlows(u) = LiveFlows(t) /\ u \in TableOf(Item, Key) /\ OneMore(t, u, x)
    BY <2>1, PutItemOK, PutItemIsOneMore DEF Sound
  <2>3. CASE o = Outcome(-1, DeleteItem(u, i))
    <3>1. Sound(DeleteItem(u, i), Item, Key, Fits) /\ SameItems(t, DeleteItem(u, i))
      BY <2>1, RollBackSound DEF SameItems
    <3> QED
      BY <2>3, <3>1 DEF Outcome, RefusedOrHeld
  <2>4. ASSUME NEW f \in FindEmptyFlow(u), o = Outcome(0, PutFlow(u, f, k, i))
        PROVE  Sound(o.tbl, Item, Key, Fits) /\ RefusedOrHeld(t, o, x)
    <3>1. f \in Slot \ LiveFlows(t)
      BY <2>2 DEF FindEmptyFlow, LowestOf
    <3>2. Sound(PutFlow(u, f, k, i), Item, Key, Fits)
      BY <2>1, <3>1, NewFlowSound, FindFlowFinds
    <3>3. PutFlow(u, f, k, i).item = u.item
      BY <2>2 DEF PutFlow, TableOf
    <3>4. OneMore(t, PutFlow(u, f, k, i), x)
      BY <2>2, <3>3 DEF OneMore, HeldItems
    <3> QED
      BY <2>4, <3>2, <3>4 DEF Outcome, RefusedOrHeld
  <2> QED
    BY <1>2, <2>3, <2>4
<1>3. \/ o = Outcome(-1, t)
      \/ \E i \in FindEmptyItem(t) :
           \/ o = Outcome(-1, DeleteItem(PutItem(t, i, x, INVALID_ARRAY_INDEX), i))
           \/ \E f \in FindEmptyFlow(PutItem(t, i, x, INVALID_ARRAY_INDEX)) :
                o = Outcome(0, PutFlow(PutItem(t, i, x, INVALID_ARRAY_INDEX), f, k, i))
  BY DEF StoreInNewFlow, InsertNewFlow
<1> QED
  BY <1>1, <1>2, <1>3

(* In the place of an item of flow f: a merge.                             *)
LEMMA MergeSound ==
  ASSUME NEW Item, NEW Key, NEW Fits, NULL \notin Item,
         NEW t, Sound(t, Item, Key, Fits),
         NEW f \in LiveFlows(t), NEW i \in Chain(t, t.start_index[f]),
         NEW x \in Item, <<x, t.key[f]>> \in Fits
  PROVE  Sound(SetItem(t, i, x), Item, Key, Fits) /\ OneReplaced(t, SetItem(t, i, x), i, x)
<1>1. i \in HeldItems(t)
  BY ChainIsHeld DEF Sound, WellLinked, NoDangling
<1>2. SetItem(t, i, x).item = [t.item EXCEPT ![i] = x]
  BY DEF SetItem, Sound, TableOf
<1>3. OneReplaced(t, SetItem(t, i, x), i, x)
  BY <1>1, <1>2 DEF OneReplaced, HeldItems, Sound, TableOf
<1> QED
  BY <1>3, SetItemSound

(* What a held item is: it stands in some flow, and fits its key.          *)
LEMMA HeldFits ==
  ASSUME NEW Item, NEW Key, NEW Fits, NEW t, Sound(t, Item, Key, Fits), NEW i \in HeldItems(t)
  PROVE  t.item[i] \in Item /\ \E k \in Key \cup {NULL} : <<t.item[i], k>> \in Fits
<1>1. t.item[i] \in Item
  BY DEF Sound, TableOf, HeldItems
<1>2. PICK f \in LiveFlows(t) : i \in Chain(t, t.start_index[f])
  BY DEF Sound, Reached
<1>3. t.key[f] \in Key \cup {NULL} /\ <<t.item[i], t.key[f]>> \in Fits
  BY <1>2 DEF Sound, FlowsFit, TableOf, LiveFlows
<1> QED
  BY <1>1, <1>3

-----------------------------------------------------------------------------
(* The invariant of a type, and its steps.                                 *)

(* A flow the flush in progress has passed starts with no packet that is   *)
(* due: nothing but the flush itself changes the table meanwhile, and that *)
(* only in the flow it stands at.                                          *)
PassedFlowsNotDue ==
  fl # NULL => \A f \in Slot : f < fl.i => ~FrontDue(f, fl.flush_timestamp)

StateOK(Item, Key, OutPkt, Fits) ==
  /\ TypeInvariant(Item, Key, OutPkt)
  /\ Sound(tbl, Item, Key, Fits)
  /\ PassedFlowsNotDue

LEMMA InitOK ==
  ASSUME NEW CONSTANT Item, NEW CONSTANT Key, NEW CONSTANT OutPkt, NEW CONSTANT Fits, Init
  PROVE  StateOK(Item, Key, OutPkt, Fits)
<1>1. Sound(tbl, Item, Key, Fits)
  BY NewTableSound DEF Init
<1> QED
  BY <1>1, CallAssumption DEF Init, TypeInvariant, StateOK, Sound, PassedFlowsNotDue

LEMMA OfferOK ==
  ASSUME NEW CONSTANT Item, NEW CONSTANT Key, NEW CONSTANT OutPkt, NEW CONSTANT Fits,
         StateOK(Item, Key, OutPkt, Fits),
         NEW p \in Pkts, NEW outcomes, Offer(p, outcomes),
         \A o \in outcomes : Sound(o.tbl, Item, Key, Fits)
  PROVE  StateOK(Item, Key, OutPkt, Fits)'
<1>1. PICK o \in outcomes :
        tbl' = o.tbl /\ back' = IF o.ret < 0 THEN back \cup {p} ELSE back
  BY DEF Offer
<1>2. Sound(tbl', Item, Key, Fits)
  BY <1>1
<1>3. TypeInvariant(Item, Key, OutPkt)'
  BY <1>1, <1>2 DEF Offer, StateOK, TypeInvariant, Sound
<1> QED
  BY <1>2, <1>3 DEF StateOK, Offer, PassedFlowsNotDue

(* The item that stands first in a flow the flush found due.               *)
LEMMA FrontIsItem ==
  ASSUME NEW Item, NEW Key, NEW Fits, Sound(tbl, Item, Key, Fits),
         fl \in FlushLocals \cup {NULL}, AtDueItem
  PROVE  /\ fl \in FlushLocals
         /\ fl.i \in LiveFlows(tbl) /\ tbl.start_index[fl.i] \in HeldItems(tbl)
         /\ tbl.item[tbl.start_index[fl.i]] \in Item
         /\ <<tbl.item[tbl.start_index[fl.i]], tbl.key[fl.i]>> \in Fits
<1>1. fl \in FlushLocals /\ fl.i \in LiveFlows(tbl)
  BY EntriesNumAssumption DEF AtDueItem, FlushLocals, FrontDue, LiveFlows, Slot
<1>2. tbl.start_index[fl.i] \in HeldItems(tbl)
  BY <1>1 DEF Sound, WellLinked, NoDangling
<1>3. tbl.start_index[fl.i] \in Chain(tbl, tbl.start_index[fl.i])
  BY <1>2, ChainStarts DEF HeldItems
<1> QED
  BY <1>1, <1>2, <1>3 DEF Sound, FlowsFit, HeldItems, TableOf

(* A turn of the inner loop of a flush leaves the flows but fl.i alone.    *)
LEMMA FlushFirstElsewhere ==
  ASSUME NEW Item, NEW Key, NEW t \in TableOf(Item, Key), WellLinked(t),
         NEW f \in LiveFlows(t), NEW g \in Slot, g # f
  PROVE  LET u == FlushFirst(t, f)
         IN  /\ u.start_index[g] = t.start_index[g]
             /\ g \in LiveFlows(t) => u.item[t.start_index[g]] = t.item[t.start_index[g]]
<1> DEFINE u == FlushFirst(t, f)
           j == t.start_index[f]
<1>1. /\ u.item = [t.item EXCEPT ![j] = NULL]
      /\ u.start_index = [t.start_index EXCEPT ![f] = t.next_pkt_idx[j]]
  BY DEF FlushFirst, DeleteItem, TableOf
<1>2. g \in LiveFlows(t) => t.start_index[g] # j /\ t.start_index[g] \in Slot
  BY DEF WellLinked, NoSharing, NoDangling, HeldItems
<1> QED
  BY <1>1, <1>2 DEF TableOf, LiveFlows

LEMMA WriteFrontOK ==
  ASSUME NEW CONSTANT Item, NEW CONSTANT Key, NEW CONSTANT OutPkt, NEW CONSTANT Fits,
         NULL \notin Item, StateOK(Item, Key, OutPkt, Fits),
         NEW pkt \in OutPkt, WriteFront(pkt)
  PROVE  /\ StateOK(Item, Key, OutPkt, Fits)'
         /\ LET j == tbl.start_index[fl.i]
            IN  /\ j \in HeldItems(tbl)
                /\ HeldItems(tbl') = HeldItems(tbl) \ {j}
                /\ \A k \in HeldItems(tbl') : tbl'.item[k] = tbl.item[k]
<1> USE DEF StateOK, TypeInvariant
<1>1. fl \in FlushLocals /\ fl.i \in LiveFlows(tbl) /\ tbl.start_index[fl.i] \in HeldItems(tbl)
  BY FrontIsItem DEF WriteFront
<1>2. /\ Sound(tbl', Item, Key, Fits)
      /\ HeldItems(tbl') = HeldItems(tbl) \ {tbl.start_index[fl.i]}
      /\ \A k \in HeldItems(tbl') : tbl'.item[k] = tbl.item[k]
  <2>1. tbl' = FlushFirst(tbl, fl.i)
    BY DEF WriteFront
  <2>2. Sound(tbl, Item, Key, Fits)
    OBVIOUS
  <2> HIDE DEF StateOK, TypeInvariant
  <2>3. ASSUME NEW f \in LiveFlows(tbl)
        PROVE  /\ Sound(FlushFirst(tbl, f), Item, Key, Fits)
               /\ HeldItems(FlushFirst(tbl, f)) = HeldItems(tbl) \ {tbl.start_index[f]}
               /\ \A k \in HeldItems(FlushFirst(tbl, f)) :
                     FlushFirst(tbl, f).item[k] = tbl.item[k]
    BY <2>2, FlushFirstSound
  <2> QED
    BY <1>1, <2>1, <2>3
<1>3. /\ fl' \in FlushLocals \cup {NULL}
      /\ fl' # NULL => fl'.i = fl.i /\ fl'.flush_timestamp = fl.flush_timestamp
  <2>1. fl.k + 1 \in Nat
    BY <1>1 DEF FlushLocals
  <2>2. [fl EXCEPT !.k = fl.k + 1] \in FlushLocals
    BY <1>1, <2>1 DEF FlushLocals
  <2> QED
    BY <1>1, <2>2 DEF WriteFront, FlushLocals
<1>4. out' \in Seq(OutPkt)
  BY DEF WriteFront
<1>5. TypeInvariant(Item, Key, OutPkt)'
  BY <1>2, <1>3, <1>4 DEF WriteFront, Sound
<1>6. PassedFlowsNotDue'
  <2> SUFFICES ASSUME fl' # NULL, NEW f \in Slot, f < fl'.i
               PROVE  ~FrontDue(f, fl.flush_timestamp)'
    BY <1>3 DEF PassedFlowsNotDue, FrontDue, Due
  <2>1. f < fl.i /\ fl # NULL /\ f # fl.i
    BY <1>1, <1>3 DEF WriteFront, AtDueItem, FlushLocals, Slot
  <2>2. ~FrontDue(f, fl.flush_timestamp)
    BY <2>1 DEF PassedFlowsNotDue
  <2>3. /\ tbl'.start_index[f] = tbl.start_index[f]
        /\ f \in LiveFlows(tbl) =>
             tbl'.item[tbl.start_index[f]] = tbl.item[tbl.start_index[f]]
    BY <1>1, <2>1, FlushFirstElsewhere DEF WriteFront, Sound
  <2> QED
    BY <1>3, <2>2, <2>3 DEF FrontDue, Due, LiveFlows
<1> QED
  BY <1>1, <1>2, <1>5, <1>6

(* The item behind the first of the flow the flush stands at is merged     *)
(* into it.                                                                *)
LEMMA AbsorbOK ==
  ASSUME NEW CONSTANT Item, NEW CONSTANT Key, NEW CONSTANT OutPkt, NEW CONSTANT Fits,
         NULL \notin Item, StateOK(Item, Key, OutPkt, Fits), AtDueItem,
         tbl.next_pkt_idx[tbl.start_index[fl.i]] # INVALID_ARRAY_INDEX,
         NEW x \in Item, <<x, tbl.key[fl.i]>> \in Fits,
         tbl' = Absorb(tbl, tbl.start_index[fl.i], x),
         UNCHANGED <<now, offered, back, out, fl>>
  PROVE  StateOK(Item, Key, OutPkt, Fits)'
<1> DEFINE j == tbl.start_index[fl.i]
<1>1. /\ Sound(tbl, Item, Key, Fits) /\ TypeInvariant(Item, Key, OutPkt)
      /\ fl \in FlushLocals \cup {NULL} /\ PassedFlowsNotDue
  BY DEF StateOK, TypeInvariant
<1>2. fl.i \in LiveFlows(tbl) /\ fl \in FlushLocals
  BY <1>1, FrontIsItem
<1>3. /\ Sound(tbl', Item, Key, Fits)
      /\ HeldItems(tbl') = HeldItems(tbl) \ {tbl.next_pkt_idx[j]}
      /\ \A k \in HeldItems(tbl') \ {j} : tbl'.item[k] = tbl.item[k]
      /\ tbl'.start_index = tbl.start_index
  <2>1. Sound(tbl', Item, Key, Fits) /\ NextAbsorbed(tbl, tbl', fl.i, x)
    BY <1>1, <1>2, AbsorbSound
  <2> QED
    BY <2>1 DEF NextAbsorbed
<1>4. TypeInvariant(Item, Key, OutPkt)'
  BY <1>1, <1>3 DEF TypeInvariant, Sound
<1>5. PassedFlowsNotDue'
  <2> SUFFICES ASSUME fl # NULL, NEW f \in Slot, f < fl.i
               PROVE  ~FrontDue(f, fl.flush_timestamp)'
    BY DEF PassedFlowsNotDue, FrontDue, Due
  <2>1. ~FrontDue(f, fl.flush_timestamp) /\ f # fl.i
    BY <1>1, <1>2 DEF PassedFlowsNotDue, FlushLocals, Slot
  <2>2. f \in LiveFlows(tbl) =>
          tbl.start_index[f] \in HeldItems(tbl) /\ tbl.start_index[f] # j
          /\ tbl.start_index[f] # tbl.next_pkt_idx[j]
    BY <1>1, <1>2, <2>1 DEF Sound, WellLinked, NoDangling, NoSharing
  <2>3. f \in LiveFlows(tbl) => tbl'.item[tbl.start_index[f]] = tbl.item[tbl.start_index[f]]
    BY <1>3, <2>2
  <2> QED
    BY <1>3, <2>1, <2>3 DEF FrontDue, Due, LiveFlows
<1> QED
  BY <1>3, <1>4, <1>5 DEF StateOK

LEMMA OtherStepsOK ==
  ASSUME NEW CONSTANT Item, NEW CONSTANT Key, NEW CONSTANT OutPkt, NEW CONSTANT Fits,
         StateOK(Item, Key, OutPkt, Fits), NULL \notin FlushLocals,
         FlushCalls \/ FlushNextFlow \/ FlushReturn \/ Tick \/ UNCHANGED vars
  PROVE  StateOK(Item, Key, OutPkt, Fits)' /\ UNCHANGED <<tbl, offered, back, out>>
<1> USE DEF TypeInvariant, StateOK
<1>1. CASE FlushCalls
  <2>1. PICK time \in 0..now, n \in NbOut : FlushCall(time, n)
    BY <1>1 DEF FlushCalls
  <2>2. [i |-> 0, k |-> 0, flush_timestamp |-> time, nb_out |-> n] \in FlushLocals
    BY CallAssumption, EntriesNumAssumption DEF FlushLocals
  <2>3. PassedFlowsNotDue'
    BY <2>1, EntriesNumAssumption DEF FlushCall, PassedFlowsNotDue, Slot
  <2> QED
    BY <2>1, <2>2, <2>3 DEF FlushCall
<1>2. CASE FlushNextFlow
  <2>1. fl \in FlushLocals /\ fl.i + 1 \in 0..EntriesNum
    BY <1>2, EntriesNumAssumption DEF FlushNextFlow, FlushLocals
  <2>2. /\ fl' \in FlushLocals /\ fl'.i = fl.i + 1
        /\ fl'.flush_timestamp = fl.flush_timestamp /\ tbl' = tbl
    BY <1>2, <2>1 DEF FlushNextFlow, FlushLocals
  <2>3. PassedFlowsNotDue'
    <3> SUFFICES ASSUME NEW f \in Slot, f < fl.i + 1
                 PROVE  ~FrontDue(f, fl.flush_timestamp)
      BY <2>2 DEF PassedFlowsNotDue, FrontDue, Due
    <3>1. f < fl.i \/ f = fl.i
      BY <2>1, EntriesNumAssumption DEF Slot, FlushLocals
    <3> QED
      BY <1>2, <3>1 DEF FlushNextFlow, PassedFlowsNotDue
  <2> QED
    BY <1>2, <2>2, <2>3 DEF FlushNextFlow
<1>3. CASE FlushReturn
  BY <1>3 DEF FlushReturn, PassedFlowsNotDue
<1>4. CASE Tick
  BY <1>4, CallAssumption DEF Tick, PassedFlowsNotDue
<1>5. CASE UNCHANGED vars
  BY <1>5 DEF vars, PassedFlowsNotDue, FrontDue, Due
<1> QED
  BY <1>1, <1>2, <1>3, <1>4, <1>5

(* A flush that returns on its own has nothing due left: it has passed all *)
(* flows, or flow_num, which is exact, says that there are none.           *)
LEMMA ReturnTakesAllDueFronts ==
  ASSUME NEW Item, NEW Key, NEW Fits, Sound(tbl, Item, Key, Fits),
         fl \in FlushLocals \cup {NULL}, PassedFlowsNotDue, FlushReturn
  PROVE  \A f \in Slot : ~FrontDue(f, fl.flush_timestamp)
<1>1. CASE fl.i = EntriesNum
  BY <1>1, EntriesNumAssumption DEF FlushReturn, PassedFlowsNotDue, Slot
<1>2. CASE tbl.flow_num = 0
  <2>1. LiveFlows(tbl) = {}
    BY <1>2, SlotsFinite, FS_EmptySet DEF Sound, WellLinked, CountersAgree
  <2> QED
    BY <2>1 DEF LiveFlows, FrontDue
<1> QED
  BY <1>1, <1>2 DEF FlushReturn

(* A step that ends a flush and leaves the table alone is that return.     *)
LEMMA EndOfFlush ==
  ASSUME NEW CONSTANT Item, NEW CONSTANT Key, NEW CONSTANT OutPkt, NEW CONSTANT Fits,
         NULL \notin Item, NULL \notin FlushLocals, StateOK(Item, Key, OutPkt, Fits),
         fl # NULL, fl' = NULL, tbl' = tbl,
         \/ \E p, outcomes : Offer(p, outcomes)
         \/ \E pkt \in OutPkt : WriteFront(pkt)
         \/ FlushCalls \/ FlushNextFlow \/ FlushReturn \/ Tick
  PROVE  \A f \in Slot : ~FrontDue(f, fl.flush_timestamp)
<1>1. /\ Sound(tbl, Item, Key, Fits) /\ PassedFlowsNotDue
      /\ fl \in FlushLocals \cup {NULL}
  BY DEF StateOK, TypeInvariant
<1>2. CASE FlushReturn
  BY <1>1, <1>2, ReturnTakesAllDueFronts
<1>3. ASSUME NEW pkt \in OutPkt, WriteFront(pkt) PROVE FALSE
  <2>1. /\ tbl.start_index[fl.i] \in HeldItems(tbl)
        /\ HeldItems(tbl') = HeldItems(tbl) \ {tbl.start_index[fl.i]}
    BY <1>3, WriteFrontOK
  <2> QED
    BY <2>1
<1>4. ~FlushNextFlow
  <2> SUFFICES ASSUME FlushNextFlow PROVE FALSE
    OBVIOUS
  <2>1. fl \in FlushLocals /\ fl.i + 1 \in 0..EntriesNum
    BY <1>1, EntriesNumAssumption DEF FlushNextFlow, FlushLocals
  <2>2. [fl EXCEPT !.i = fl.i + 1] \in FlushLocals
    BY <2>1 DEF FlushLocals
  <2> QED
    BY <2>2 DEF FlushNextFlow
<1>5. ~FlushCalls /\ ~Tick /\ \A p, outcomes : ~Offer(p, outcomes)
  BY DEF FlushCalls, FlushCall, Tick, Offer
<1> QED
  BY <1>2, <1>3, <1>4, <1>5

-----------------------------------------------------------------------------
(* The mbuf chain after a packet p was chained to s, behind or in front.   *)

Chained(s, p, cmp) == IF cmp > 0 THEN Append(s, p) ELSE <<p>> \o s

LEMMA ChainedPackets ==
  ASSUME NEW S, NEW s \in MbufChain(S), NEW p \in S, NEW cmp \in Int
  PROVE  LET u == Chained(s, p, cmp)
             n == Len(s)
         IN  /\ n \in Nat \ {0} /\ DOMAIN s = 1..n /\ \A m \in 1..n : s[m] \in S
             /\ u \in MbufChain(S) /\ Len(u) = n + 1 /\ DOMAIN u = 1..(n + 1)
             /\ cmp > 0 => u[n + 1] = p /\ \A m \in 1..n : u[m] = s[m]
             /\ ~(cmp > 0) => u[1] = p /\ \A m \in 1..n : u[m + 1] = s[m]
<1>1. s \in Seq(S) /\ s # <<>>
  BY DEF MbufChain
<1>2. Len(s) \in Nat \ {0} /\ DOMAIN s = 1..Len(s) /\ \A m \in 1..Len(s) : s[m] \in S
  BY <1>1
<1>3. CASE cmp > 0
  <2> DEFINE u == Append(s, p)
  <2>1. u \in Seq(S) /\ Len(u) = Len(s) + 1 /\ u # <<>>
    BY <1>1
  <2>2. u[Len(s) + 1] = p /\ \A m \in 1..Len(s) : u[m] = s[m]
    BY <1>1
  <2>3. DOMAIN u = 1..(Len(s) + 1)
    BY <2>1
  <2> QED
    BY <1>2, <1>3, <2>1, <2>2, <2>3 DEF Chained, MbufChain
<1>4. CASE ~(cmp > 0)
  <2> DEFINE u == <<p>> \o s
  <2>1. u \in Seq(S) /\ Len(u) = Len(s) + 1 /\ u # <<>>
    BY <1>1
  <2>2. u[1] = p /\ \A m \in 1..Len(s) : u[m + 1] = s[m]
    BY <1>1
  <2>3. DOMAIN u = 1..(Len(s) + 1)
    BY <2>1
  <2> QED
    BY <1>2, <1>4, <2>1, <2>2, <2>3 DEF Chained, MbufChain
<1> QED
  BY <1>3, <1>4

(* What is true of p and of all packets of a chain.                        *)
LEMMA ChainedIn ==
  ASSUME NEW S, NEW s \in MbufChain(S), NEW p \in S, NEW cmp \in Int, NEW T,
         p \in T, \A m \in 1..Len(s) : s[m] \in T
  PROVE  \A m \in 1..Len(Chained(s, p, cmp)) : Chained(s, p, cmp)[m] \in T
<1> DEFINE u == Chained(s, p, cmp)
           n == Len(s)
<1>1. /\ n \in Nat \ {0} /\ Len(u) = n + 1
      /\ cmp > 0 => u[n + 1] = p /\ \A m \in 1..n : u[m] = s[m]
      /\ ~(cmp > 0) => u[1] = p /\ \A m \in 1..n : u[m + 1] = s[m]
  BY ChainedPackets
<1> HIDE DEF u, n
<1>2. \A m \in 1..n : s[m] \in T
  BY DEF n
<1>3. ASSUME NEW m \in 1..Len(u) PROVE u[m] \in T
  <2>1. m \in 1..n \/ m = n + 1
    BY <1>1
  <2>2. m = 1 \/ (m - 1 \in 1..n /\ (m - 1) + 1 = m)
    BY <1>1
  <2>3. CASE cmp > 0
    BY <1>1, <1>2, <2>1, <2>3
  <2>4. CASE ~(cmp > 0)
    BY <1>1, <1>2, <2>2, <2>4
  <2> QED
    BY <2>3, <2>4
<1> QED
  BY <1>3 DEF u

-----------------------------------------------------------------------------
(* The runs a table holds.                                                 *)

Segs(t, i) == t.item[i].inner.segs

HeldRuns(t) == {Segs(t, i) : i \in HeldItems(t)}

RunsTyped(t, S) == \A i \in HeldItems(t) : Segs(t, i) \in MbufChain(S)

(* They chain packets of S, and a packet stands in one place only.         *)
HeldOnce(t, S) ==
  \A i, j \in HeldItems(t) : \A n \in 1..Len(Segs(t, i)), m \in 1..Len(Segs(t, j)) :
     /\ Segs(t, i)[n] \in S
     /\ Segs(t, i)[n] = Segs(t, j)[m] => i = j /\ n = m

(* So two items never hold the same run.                                   *)
LEMMA RunsDiffer ==
  ASSUME NEW A, NEW S, NEW t, RunsTyped(t, A), HeldOnce(t, S),
         NEW i \in HeldItems(t), NEW j \in HeldItems(t), Segs(t, i) = Segs(t, j)
  PROVE  i = j
<1>1. Len(Segs(t, i)) \in Nat \ {0}
  BY DEF RunsTyped, MbufChain
<1>2. 1 \in 1..Len(Segs(t, i))
  BY <1>1
<1> QED
  BY <1>2 DEF HeldOnce

LEMMA SameRuns ==
  ASSUME NEW t, NEW u, HeldItems(u) = HeldItems(t),
         \A i \in HeldItems(t) : Segs(u, i) = Segs(t, i)
  PROVE  /\ HeldRuns(u) = HeldRuns(t)
         /\ \A S : HeldOnce(t, S) => HeldOnce(u, S)
         /\ \A A : RunsTyped(t, A) => RunsTyped(u, A)
<1>1. HeldRuns(u) = HeldRuns(t)
  BY DEF HeldRuns
<1>2. ASSUME NEW S, HeldOnce(t, S) PROVE HeldOnce(u, S)
  BY <1>2 DEF HeldOnce
<1>3. ASSUME NEW A, RunsTyped(t, A) PROVE RunsTyped(u, A)
  BY <1>3 DEF RunsTyped
<1> QED
  BY <1>1, <1>2, <1>3

LEMMA MoreOffered ==
  ASSUME NEW t, NEW S, NEW p, HeldOnce(t, S)
  PROVE  HeldOnce(t, S \cup {p})
  BY DEF HeldOnce

(* A packet that was not among S is stored.                                *)
LEMMA MoreRuns ==
  ASSUME NEW t, NEW u, NEW x, NEW p, NEW S, OneMore(t, u, x), x.inner.segs = <<p>>,
         HeldOnce(t, S), p \notin S
  PROVE  HeldRuns(u) = HeldRuns(t) \cup {<<p>>} /\ HeldOnce(u, S \cup {p})
<1>1. PICK i \in Slot \ HeldItems(t) :
         /\ HeldItems(u) = HeldItems(t) \cup {i}
         /\ Segs(u, i) = <<p>>
         /\ \A k \in HeldItems(t) : Segs(u, k) = Segs(t, k)
  BY DEF OneMore, Segs
<1>2. HeldRuns(u) = HeldRuns(t) \cup {<<p>>}
  BY <1>1 DEF HeldRuns
<1>3. /\ Len(Segs(u, i)) = 1 /\ Segs(u, i)[1] = p /\ i \notin HeldItems(t)
      /\ \A k \in HeldItems(t) : Segs(u, k) = Segs(t, k)
  BY <1>1
<1>4. HeldOnce(u, S \cup {p})
  <2> SUFFICES ASSUME NEW a \in HeldItems(t) \cup {i}, NEW b \in HeldItems(t) \cup {i},
                      NEW n \in 1..Len(Segs(u, a)), NEW m \in 1..Len(Segs(u, b))
               PROVE  /\ Segs(u, a)[n] \in S \cup {p}
                      /\ Segs(u, a)[n] = Segs(u, b)[m] => a = b /\ n = m
    BY <1>1 DEF HeldOnce
  <2>5. /\ a = i => Segs(u, a)[n] = p /\ n = 1
        /\ b = i => Segs(u, b)[m] = p /\ m = 1
    <3>1. \A k \in 1..1 : k = 1
      OBVIOUS
    <3>2. a = i => n \in 1..1
      BY <1>3, Zenon
    <3>3. b = i => m \in 1..1
      BY <1>3, Zenon
    <3> QED
      BY <1>3, <3>1, <3>2, <3>3, Zenon
  <2>6. /\ a # i => Segs(u, a)[n] \in S
        /\ b # i => Segs(u, b)[m] \in S
    BY <1>3 DEF HeldOnce
  <2>1. CASE a = i /\ b = i
    BY <2>5, <2>1
  <2>2. CASE a = i /\ b # i
    BY <2>5, <2>6, <2>2
  <2>3. CASE a # i /\ b = i
    BY <2>5, <2>6, <2>3
  <2>4. CASE a # i /\ b # i
    BY <1>1, <2>4 DEF HeldOnce
  <2> QED
    BY <2>1, <2>2, <2>3, <2>4
<1> QED
  BY <1>2, <1>4

(* A packet that was not among S is chained to the run of item i.          *)
LEMMA JoinedRuns ==
  ASSUME NEW A, NEW t, NEW u, NEW x, NEW p \in A, NEW S, NEW i, NEW cmp \in Int,
         RunsTyped(t, A), OneReplaced(t, u, i, x), x.inner.segs = Chained(Segs(t, i), p, cmp),
         HeldOnce(t, S), p \notin S
  PROVE  /\ HeldRuns(u) = (HeldRuns(t) \ {Segs(t, i)}) \cup {Chained(Segs(t, i), p, cmp)}
         /\ HeldOnce(u, S \cup {p})
<1> DEFINE s == Segs(t, i)
           w == Chained(s, p, cmp)
           l == Len(s)
<1>1. /\ i \in HeldItems(t) /\ HeldItems(u) = HeldItems(t)
      /\ Segs(u, i) = w
      /\ \A k \in HeldItems(t) \ {i} : Segs(u, k) = Segs(t, k)
  BY DEF OneReplaced, Segs
<1>2. \A k \in HeldItems(t) \ {i} : Segs(t, k) # s
  BY <1>1, RunsDiffer
<1>3. HeldRuns(u) = (HeldRuns(t) \ {s}) \cup {w}
  <2> HIDE DEF s, w
  <2>1. Segs(t, i) = s
    BY DEF s
  <2> QED
    BY <1>1, <1>2, <2>1 DEF HeldRuns
<1>4. /\ l \in Nat \ {0} /\ Len(w) = l + 1
      /\ cmp > 0 => w[l + 1] = p /\ \A m \in 1..l : w[m] = s[m]
      /\ ~(cmp > 0) => w[1] = p /\ \A m \in 1..l : w[m + 1] = s[m]
  <2>1. s \in MbufChain(A)
    BY <1>1 DEF RunsTyped
  <2> HIDE DEF s
  <2> QED
    BY <2>1, ChainedPackets
<1>5. \E q \in 1..(l + 1) :
        /\ w[q] = p
        /\ \A n \in 1..(l + 1) \ {q} : \E m \in 1..l : w[n] = s[m]
        /\ \A n, m \in 1..(l + 1) \ {q} : \A a, b \in 1..l :
             w[n] = s[a] /\ w[m] = s[b] /\ (\A e, d \in 1..l : s[e] = s[d] => e = d) /\ w[n] = w[m]
             => n = m
  <2> HIDE DEF s, w, l
  <2>1. CASE cmp > 0
    <3>1. l + 1 \in 1..(l + 1) /\ 1..(l + 1) \ {l + 1} = 1..l
      BY <1>4
    <3>2. w[l + 1] = p /\ \A m \in 1..l : w[m] = s[m]
      BY <1>4, <2>1
    <3> QED
      BY <3>1, <3>2
  <2>2. CASE ~(cmp > 0)
    <3>1. 1 \in 1..(l + 1)
      BY <1>4
    <3>2. w[1] = p /\ \A m \in 1..l : w[m + 1] = s[m]
      BY <1>4, <2>2
    <3>3. \A n \in 1..(l + 1) \ {1} : n - 1 \in 1..l /\ (n - 1) + 1 = n
      BY <1>4
    <3>4. \A n \in 1..(l + 1) \ {1} : w[n] = s[n - 1]
      BY <3>2, <3>3
    <3>5. \A n, m \in 1..(l + 1) \ {1} : n - 1 = m - 1 => n = m
      BY <1>4
    <3> QED
      BY <3>1, <3>2, <3>3, <3>4, <3>5
  <2> QED
    BY <2>1, <2>2
<1>6. HeldOnce(u, S \cup {p})
  <2> SUFFICES ASSUME NEW a \in HeldItems(t), NEW b \in HeldItems(t),
                      NEW n \in 1..Len(Segs(u, a)), NEW m \in 1..Len(Segs(u, b))
               PROVE  /\ Segs(u, a)[n] \in S \cup {p}
                      /\ Segs(u, a)[n] = Segs(u, b)[m] => a = b /\ n = m
    BY <1>1 DEF HeldOnce
  <2>1. \A k \in HeldItems(t) : \A e \in 1..Len(Segs(t, k)) : Segs(t, k)[e] \in S
    BY DEF HeldOnce
  <2>2. \A e, d \in 1..l : s[e] = s[d] => e = d
    BY <1>1 DEF HeldOnce
  <2>3. \A k \in HeldItems(t) \ {i} : \A e \in 1..Len(Segs(t, k)), d \in 1..l : Segs(t, k)[e] # s[d]
    BY <1>1 DEF HeldOnce
  <2>4. \A e \in 1..l : s[e] \in S
    BY <1>1, <2>1
  <2> HIDE DEF s, w, l
  <2>5. PICK q \in 1..(l + 1) :
        /\ w[q] = p
        /\ \A e \in 1..(l + 1) \ {q} : \E d \in 1..l : w[e] = s[d]
        /\ \A e, d \in 1..(l + 1) \ {q} : \A g, h \in 1..l :
             w[e] = s[g] /\ w[d] = s[h] /\ (\A y, z \in 1..l : s[y] = s[z] => y = z) /\ w[e] = w[d]
             => e = d
    BY <1>5
  <2>6. \A e \in 1..(l + 1) : w[e] \in S \cup {p} /\ (w[e] = p => e = q)
    BY <2>4, <2>5
  <2>7. \A e, d \in 1..(l + 1) : w[e] = w[d] => e = d
    BY <2>2, <2>5, <2>6
  <2>8. \A k \in HeldItems(t) \ {i} : \A e \in 1..Len(Segs(t, k)), d \in 1..(l + 1) : Segs(t, k)[e] # w[d]
    BY <2>1, <2>3, <2>5
  <2>9. CASE a = i /\ b = i
    BY <1>1, <1>4, <2>6, <2>7, <2>9
  <2>10. CASE a = i /\ b # i
    BY <1>1, <1>4, <2>6, <2>8, <2>10
  <2>11. CASE a # i /\ b = i
    BY <1>1, <1>4, <2>1, <2>8, <2>11
  <2>12. CASE a # i /\ b # i
    BY <1>1, <2>12 DEF HeldOnce
  <2> QED
    BY <2>9, <2>10, <2>11, <2>12
<1> HIDE DEF s, w
<1> QED
  BY <1>3, <1>6 DEF s, w

(* Two items are united: the run of a, then the run of b.  What slot is    *)
(* left is the one of c.                                                   *)
United(t, u, a, b, c) ==
  /\ a \in HeldItems(t) /\ b \in HeldItems(t) /\ a # b /\ c \in {a, b}
  /\ HeldItems(u) = HeldItems(t) \ ({a, b} \ {c})
  /\ Segs(u, c) = Segs(t, a) \o Segs(t, b)
  /\ \A k \in HeldItems(t) \ {a, b} : Segs(u, k) = Segs(t, k)

LEMMA UnitedRuns ==
  ASSUME NEW A, NEW S, NEW t, NEW u, RunsTyped(t, A), HeldOnce(t, S),
         NEW a, NEW b, NEW c, United(t, u, a, b, c)
  PROVE  /\ HeldRuns(u) = (HeldRuns(t) \ {Segs(t, a), Segs(t, b)}) \cup {Segs(t, a) \o Segs(t, b)}
         /\ HeldOnce(u, S)
<1>0. /\ a \in HeldItems(t) /\ b \in HeldItems(t) /\ a # b /\ c \in {a, b}
      /\ HeldItems(u) = HeldItems(t) \ ({a, b} \ {c})
      /\ Segs(u, c) = Segs(t, a) \o Segs(t, b)
      /\ \A k \in HeldItems(t) \ {a, b} : Segs(u, k) = Segs(t, k)
  BY DEF United
<1> DEFINE v == Segs(t, a)
           w == Segs(t, b)
           z == v \o w
<1>1. /\ v \in Seq(A) /\ w \in Seq(A) /\ Len(v) \in Nat /\ Len(w) \in Nat
      /\ Len(z) = Len(v) + Len(w)
      /\ \A n \in 1..Len(z) : \/ n \in 1..Len(v) /\ z[n] = v[n]
                              \/ n - Len(v) \in 1..Len(w) /\ z[n] = w[n - Len(v)]
  <2>1. v \in Seq(A) /\ w \in Seq(A)
    BY <1>0 DEF RunsTyped, MbufChain
  <2> HIDE DEF v, w
  <2>2. Len(v) \in Nat /\ Len(w) \in Nat /\ Len(z) = Len(v) + Len(w)
    BY <2>1
  <2>3. ASSUME NEW n \in 1..Len(z)
        PROVE  \/ n \in 1..Len(v) /\ z[n] = v[n]
               \/ n - Len(v) \in 1..Len(w) /\ z[n] = w[n - Len(v)]
    <3>1. n \in 1..(Len(v) + Len(w))
      BY <2>2
    <3>2. n <= Len(v) => z[n] = v[n]
      BY <2>1, <3>1
    <3>3. ~(n <= Len(v)) => z[n] = w[n - Len(v)]
      BY <2>1, <3>1
    <3> DEFINE a1 == Len(v)
               b1 == Len(w)
    <3>4. a1 \in Nat /\ b1 \in Nat /\ n \in 1..(a1 + b1)
      BY <2>2, <3>1
    <3>5. (n <= a1) => n \in 1..a1
      <4> HIDE DEF a1, b1
      <4> QED
        BY <3>4
    <3>6. ~(n <= a1) => n - a1 \in 1..b1
      <4> HIDE DEF a1, b1
      <4> QED
        BY <3>4
    <3> HIDE DEF z
    <3>7. CASE n <= Len(v)
      BY ONLY <3>2, <3>5, <3>7 DEF a1
    <3>8. CASE ~(n <= Len(v))
      <4>1. n - Len(v) \in 1..Len(w)
        BY ONLY <3>6, <3>8 DEF a1, b1
      <4>2. z[n] = w[n - Len(v)]
        BY ONLY <3>3, <3>8
      <4> QED
        BY <4>1, <4>2
    <3> QED
      BY ONLY <3>7, <3>8
  <2> QED
    BY <2>1, <2>2, <2>3
<1>2. HeldItems(u) = (HeldItems(t) \ {a, b}) \cup {c} /\ Segs(u, c) = z
  BY <1>0
<1>3. \A k \in HeldItems(t) \ {a, b} : Segs(t, k) # v /\ Segs(t, k) # w
  BY <1>0, RunsDiffer
<1>4. HeldRuns(u) = (HeldRuns(t) \ {v, w}) \cup {z}
  <2>1. Segs(t, a) = v /\ Segs(t, b) = w
    OBVIOUS
  <2> HIDE DEF v, w, z
  <2> QED
    BY <1>0, <1>2, <1>3, <2>1 DEF HeldRuns
<1>5. HeldOnce(u, S)
  <2>1. /\ \A k \in HeldItems(t) : \A n \in 1..Len(Segs(t, k)) : Segs(t, k)[n] \in S
        /\ \A n \in 1..Len(v), m \in 1..Len(w) : v[n] # w[m]
        /\ \A n, m \in 1..Len(v) : v[n] = v[m] => n = m
        /\ \A n, m \in 1..Len(w) : w[n] = w[m] => n = m
        /\ \A k \in HeldItems(t) \ {a, b} : \A n \in 1..Len(Segs(t, k)) :
             /\ \A m \in 1..Len(v) : Segs(t, k)[n] # v[m]
             /\ \A m \in 1..Len(w) : Segs(t, k)[n] # w[m]
        /\ \A k, l \in HeldItems(t) : \A n \in 1..Len(Segs(t, k)), m \in 1..Len(Segs(t, l)) :
             Segs(t, k)[n] = Segs(t, l)[m] => k = l /\ n = m
    BY <1>0 DEF HeldOnce
  <2>2. /\ \A n \in 1..Len(v) : v[n] \in S
        /\ \A n \in 1..Len(w) : w[n] \in S
    BY <1>0, <2>1
  <2> HIDE DEF v, w, z
  <2>3. \A n \in 1..Len(z) : z[n] \in S
    BY <1>1, <2>2
  <2>4. \A n, m \in 1..Len(z) : z[n] = z[m] => n = m
    <3> SUFFICES ASSUME NEW n \in 1..Len(z), NEW m \in 1..Len(z), z[n] = z[m] PROVE n = m
      OBVIOUS
    <3>1. CASE n \in 1..Len(v) /\ z[n] = v[n] /\ m \in 1..Len(v) /\ z[m] = v[m]
      BY <2>1, <3>1
    <3>2. CASE /\ n - Len(v) \in 1..Len(w) /\ z[n] = w[n - Len(v)]
               /\ m - Len(v) \in 1..Len(w) /\ z[m] = w[m - Len(v)]
      <4>1. n - Len(v) = m - Len(v)
        BY <2>1, <3>2
      <4> QED
        BY <1>1, <4>1
    <3> QED
      BY <1>1, <2>1, <3>1, <3>2
  <2>5. \A k \in HeldItems(t) \ {a, b} : \A n \in 1..Len(Segs(t, k)), m \in 1..Len(z) :
           Segs(t, k)[n] # z[m]
    <3> SUFFICES ASSUME NEW k \in HeldItems(t) \ {a, b},
                        NEW n \in 1..Len(Segs(t, k)), NEW m \in 1..Len(z)
                 PROVE  Segs(t, k)[n] # z[m]
      OBVIOUS
    <3>1. CASE m \in 1..Len(v) /\ z[m] = v[m]
      BY <2>1, <3>1
    <3>2. CASE m - Len(v) \in 1..Len(w) /\ z[m] = w[m - Len(v)]
      BY <2>1, <3>2
    <3> QED
      BY <1>1, <3>1, <3>2
  <2> SUFFICES ASSUME NEW k \in HeldItems(u), NEW l \in HeldItems(u),
                      NEW n \in 1..Len(Segs(u, k)), NEW m \in 1..Len(Segs(u, l))
               PROVE  /\ Segs(u, k)[n] \in S
                      /\ Segs(u, k)[n] = Segs(u, l)[m] => k = l /\ n = m
    BY DEF HeldOnce
  <2>6. /\ k = c \/ k \in HeldItems(t) \ {a, b}
        /\ l = c \/ l \in HeldItems(t) \ {a, b}
    BY <1>2
  <2>7. CASE k = c /\ l = c
    BY <1>2, <2>3, <2>4, <2>7
  <2>8. CASE k = c /\ l # c
    BY <1>0, <1>2, <2>3, <2>5, <2>6, <2>8
  <2>9. CASE k # c /\ l = c
    BY <1>0, <1>2, <2>1, <2>5, <2>6, <2>9
  <2>10. CASE k # c /\ l # c
    BY <1>0, <2>1, <2>6, <2>10
  <2> QED
    BY <2>7, <2>8, <2>9, <2>10
<1> QED
  BY <1>4, <1>5

(* An item leaves.                                                         *)
LEMMA FewerRuns ==
  ASSUME NEW A, NEW S, NEW t, NEW u, NEW j \in HeldItems(t),
         RunsTyped(t, A), HeldOnce(t, S),
         HeldItems(u) = HeldItems(t) \ {j},
         \A k \in HeldItems(u) : u.item[k] = t.item[k]
  PROVE  HeldRuns(u) = HeldRuns(t) \ {Segs(t, j)} /\ HeldOnce(u, S)
<1>1. \A k \in HeldItems(t) \ {j} : Segs(u, k) = Segs(t, k) /\ Segs(t, k) # Segs(t, j)
  BY RunsDiffer DEF Segs
<1>2. HeldRuns(u) = HeldRuns(t) \ {Segs(t, j)}
  BY <1>1 DEF HeldRuns
<1>3. HeldOnce(u, S)
  BY <1>1 DEF HeldOnce
<1> QED
  BY <1>2, <1>3

(* ... and is written behind the runs delivered before.                    *)
LEMMA AppendedRuns ==
  ASSUME NEW Out, NEW o \in Seq(Out), NEW w \in Out
  PROVE  [n \in DOMAIN Append(o, w) |-> Append(o, w)[n].segs]
           = Append([n \in DOMAIN o |-> o[n].segs], w.segs)
<1> DEFINE v == Append(o, w)
           A == {x.segs : x \in Out}
           r == [n \in DOMAIN o |-> o[n].segs]
           q == [n \in DOMAIN v |-> v[n].segs]
<1>1. /\ v \in Seq(Out) /\ Len(v) = Len(o) + 1 /\ Len(o) \in Nat
      /\ DOMAIN v = 1..(Len(o) + 1) /\ DOMAIN o = 1..Len(o)
      /\ v[Len(o) + 1] = w /\ \A n \in 1..Len(o) : v[n] = o[n] /\ o[n] \in Out
  OBVIOUS
<1>2. r \in Seq(A) /\ Len(r) = Len(o) /\ w.segs \in A
  BY <1>1
<1> HIDE DEF A
<1>3. /\ Append(r, w.segs) \in Seq(A) /\ Len(Append(r, w.segs)) = Len(o) + 1
      /\ \A n \in 1..Len(o) : Append(r, w.segs)[n] = r[n]
      /\ Append(r, w.segs)[Len(o) + 1] = w.segs
  BY <1>2
<1>4. \A n \in 1..(Len(o) + 1) : n \in 1..Len(o) \/ n = Len(o) + 1
  BY <1>1
<1>5. \A n \in 1..(Len(o) + 1) : q[n] = Append(r, w.segs)[n]
  BY <1>1, <1>3, <1>4
<1>6. DOMAIN Append(r, w.segs) = 1..(Len(o) + 1) /\ DOMAIN q = 1..(Len(o) + 1)
  BY <1>1, <1>3
<1>7. q = [n \in 1..(Len(o) + 1) |-> q[n]]
  BY <1>6
<1>8. Append(r, w.segs) = [n \in 1..(Len(o) + 1) |-> Append(r, w.segs)[n]]
  BY <1>3, <1>6
<1> QED
  BY <1>5, <1>7, <1>8

-----------------------------------------------------------------------------
(* Lengths of chains.                                                      *)

LEMMA BytesMember ==
  ASSUME NEW m \in Nat, NEW f \in [1..m -> Nat], NEW b
  PROVE  b \in PayloadBytes(f) <=> \E n \in 1..m : \E k \in 1..f[n] : b = <<n, k>>
  BY DEF PayloadBytes

LEMMA BytesFinite ==
  ASSUME NEW m \in Nat, NEW f \in [1..m -> Nat]
  PROVE  IsFiniteSet(PayloadBytes(f)) /\ Payload(f) \in Nat
<1> DEFINE B == [n \in 1..m |-> {n} \X (1..f[n])]
           T == {B[n] : n \in 1..m}
<1>1. ASSUME NEW n \in 1..m PROVE IsFiniteSet(B[n])
  <2>1. IsFiniteSet({n})
    BY FS_Singleton
  <2>2. IsFiniteSet(1..f[n])
    BY FS_Interval
  <2>3. IsFiniteSet({n} \X (1..f[n]))
    BY <2>1, <2>2, FS_Product
  <2> QED
    BY <2>3
<1>2. IsFiniteSet(1..m)
  BY FS_Interval
<1>3. B \in Surjection(1..m, T)
  BY DEF Surjection
<1>4. IsFiniteSet(T)
  <2> HIDE DEF B, T
  <2> QED
    BY <1>2, <1>3, FS_Surjection
<1>5. \A S \in T : IsFiniteSet(S)
  BY <1>1
<1>6. PayloadBytes(f) = UNION T
  BY DEF PayloadBytes
<1>7. IsFiniteSet(UNION T)
  <2> HIDE DEF T
  <2> QED
    BY <1>4, <1>5, FS_UNION
<1> QED
  BY <1>6, <1>7, FS_CardinalityType DEF Payload

(* One packet.                                                             *)
LEMMA PayloadSingle ==
  ASSUME NEW f \in [1..1 -> Nat]
  PROVE  Payload(f) = f[1]
<1> DEFINE I == 1..f[1]
           g == [k \in I |-> <<1, k>>]
<1>1. IsFiniteSet(I) /\ Cardinality(I) = f[1]
  BY FS_Interval
<1>2. g \in Bijection(I, PayloadBytes(f))
  <2>1. DOMAIN f = {1}
    OBVIOUS
  <2>2. PayloadBytes(f) = {1} \X I
    BY <2>1 DEF PayloadBytes
  <2>3. g \in [I -> PayloadBytes(f)]
    BY <2>2
  <2>4. \A j, k \in I : g[j] = g[k] => j = k
    OBVIOUS
  <2>5. \A b \in PayloadBytes(f) : \E k \in I : g[k] = b
    BY <2>2
  <2> HIDE DEF g, I
  <2>6. g \in Injection(I, PayloadBytes(f))
    BY <2>3, <2>4 DEF Injection, IsInjective
  <2>7. g \in Surjection(I, PayloadBytes(f))
    BY <2>3, <2>5 DEF Surjection
  <2> QED
    BY <2>6, <2>7 DEF Bijection
<1>3. Cardinality(PayloadBytes(f)) = Cardinality(I)
  <2> HIDE DEF I, g
  <2> QED
    BY <1>1, <1>2, FS_Bijection DEF ExistsBijection
<1> QED
  BY <1>1, <1>3 DEF Payload

(* Two chains, one behind the other.                                       *)
LEMMA PayloadConcat ==
  ASSUME NEW m \in Nat, NEW n \in Nat,
         NEW f \in [1..m -> Nat], NEW g \in [1..n -> Nat], NEW h \in [1..(m + n) -> Nat],
         \A i \in 1..m : h[i] = f[i],
         \A i \in 1..n : h[m + i] = g[i]
  PROVE  Payload(h) = Payload(f) + Payload(g)
<1> DEFINE F == PayloadBytes(f)
           G == PayloadBytes(g)
           H == PayloadBytes(h)
           R == H \ F
           s == [b \in G |-> <<m + b[1], b[2]>>]
<1>1. IsFiniteSet(F) /\ IsFiniteSet(G) /\ IsFiniteSet(H) /\ IsFiniteSet(R)
  <2>1. IsFiniteSet(F) /\ IsFiniteSet(G)
    BY BytesFinite
  <2>2. m + n \in Nat
    OBVIOUS
  <2>3. IsFiniteSet(H)
    BY <2>2, BytesFinite
  <2> QED
    BY <2>1, <2>3, FS_Subset
<1>2. \A b : b \in F <=> \E i \in 1..m : \E k \in 1..f[i] : b = <<i, k>>
  BY BytesMember
<1>3. \A b : b \in G <=> \E i \in 1..n : \E k \in 1..g[i] : b = <<i, k>>
  BY BytesMember
<1>4. \A b : b \in H <=> \E i \in 1..(m + n) : \E k \in 1..h[i] : b = <<i, k>>
  <2>1. m + n \in Nat
    OBVIOUS
  <2> QED
    BY <2>1, BytesMember
<1> HIDE DEF F, G, H
<1>5. F \subseteq H
  BY <1>2, <1>4
<1>6. \A b : b \in R <=> \E i \in 1..n : \E k \in 1..g[i] : b = <<m + i, k>>
  <2>1. ASSUME NEW i \in 1..n, NEW k \in 1..g[i] PROVE <<m + i, k>> \in R
    <3>1. m + i \in 1..(m + n) /\ k \in 1..h[m + i] /\ m + i \notin 1..m
      OBVIOUS
    <3> QED
      BY <3>1, <1>2, <1>4
  <2>2. ASSUME NEW b \in R PROVE \E i \in 1..n : \E k \in 1..g[i] : b = <<m + i, k>>
    <3>1. PICK j \in 1..(m + n) : \E k \in 1..h[j] : b = <<j, k>>
      BY <1>4
    <3>2. j \notin 1..m
      BY <1>2, <3>1
    <3>3. j - m \in 1..n /\ j = m + (j - m)
      BY <3>2
    <3>4. h[j] = g[j - m]
      BY <3>1, <3>3
    <3> QED
      BY <3>1, <3>3, <3>4
  <2> QED
    BY <2>1, <2>2
<1>7. s \in Bijection(G, R)
  <2>1. \A i \in 1..n : \A k \in 1..g[i] : <<i, k>> \in G /\ s[<<i, k>>] = <<m + i, k>>
    BY <1>3
  <2>2. ASSUME NEW b \in G PROVE s[b] \in R
    BY <1>3, <1>6, <2>1
  <2>3. ASSUME NEW b \in G, NEW c \in G, s[b] = s[c] PROVE b = c
    <3>1. PICK i \in 1..n : \E k \in 1..g[i] : b = <<i, k>>
      BY <1>3
    <3>2. PICK k \in 1..g[i] : b = <<i, k>>
      BY <3>1
    <3>3. PICK j \in 1..n : \E l \in 1..g[j] : c = <<j, l>>
      BY <1>3
    <3>4. PICK l \in 1..g[j] : c = <<j, l>>
      BY <3>3
    <3>5. <<m + i, k>> = <<m + j, l>>
      BY <2>1, <2>3, <3>2, <3>4
    <3>6. m + i = m + j /\ k = l
      BY <3>5
    <3> QED
      BY <3>2, <3>4, <3>6
  <2>4. ASSUME NEW d \in R PROVE \E b \in G : s[b] = d
    <3>1. PICK i \in 1..n : \E k \in 1..g[i] : d = <<m + i, k>>
      BY <1>6
    <3> QED
      BY <2>1, <3>1
  <2>5. s \in [G -> R]
    BY <2>2
  <2> HIDE DEF s, R
  <2>6. s \in Injection(G, R)
    BY <2>3, <2>5 DEF Injection, IsInjective
  <2>7. s \in Surjection(G, R)
    BY <2>4, <2>5 DEF Surjection
  <2> QED
    BY <2>6, <2>7 DEF Bijection
<1>8. Cardinality(R) = Cardinality(G)
  <2> HIDE DEF s, R
  <2> QED
    BY <1>1, <1>7, FS_Bijection DEF ExistsBijection
<1>9. Cardinality(H) = Cardinality(F) + Cardinality(R)
  <2>1. F \cup R = H /\ F \cap R = {}
    BY <1>5
  <2>2. Cardinality(F \cap R) = 0
    BY <2>1, FS_EmptySet
  <2>3. Cardinality(F \cup R) = Cardinality(F) + Cardinality(R) - Cardinality(F \cap R)
    <3> HIDE DEF R
    <3> QED
      BY <1>1, FS_Union
  <2>4. Cardinality(F) \in Nat /\ Cardinality(R) \in Nat
    <3> HIDE DEF R
    <3> QED
      BY <1>1, FS_CardinalityType
  <2>5. Cardinality(F \cup R) = Cardinality(H)
    BY <2>1
  <2> HIDE DEF R
  <2> QED
    BY <2>2, <2>3, <2>4, <2>5
<1> QED
  BY <1>8, <1>9 DEF Payload, F, G, H
=============================================================================
