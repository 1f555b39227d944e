-------------------------- MODULE GroTunnelTcp4Proofs --------------------------
(***************************************************************************)
(* Theorems about GroTunnelTcp4 for every table size, sequence space,      *)
(* limit of a merge and set of packets: what its runs check, and that it   *)
(* implements the service.                                                 *)
(*                                                                         *)
(* There are two inductive invariants, for two sets Fits of pairs of an    *)
(* item and a flow key (GroTypeProofs): one that every set of packets      *)
(* keeps, and a stronger one for packets with IDs that count up.           *)
(***************************************************************************)
EXTENDS GroTunnelTcp4, GroTcpProofs

(* What the library is handed.                                             *)
LEMMA PktType ==
  /\ TcpPackets(Pkts)
  /\ \A p \in Pkts : p.outer_ip_id \in Nat /\ p.outer_df \in BOOLEAN /\ FlowKey(p) \in Key
  BY TunnelAssumption DEF TcpPackets, Key

LEMMA NewItemType ==
  ASSUME NEW p \in Pkts, NEW time \in Nat
  PROVE  NewItem(p, time) \in Item
<1>1. NewTcpItem(p, time) \in TcpItem(Pkts)
  BY PktType, NewTcpItemType
<1>2. OuterIpId(p) \in Nat /\ p.outer_df \in BOOLEAN
  BY PktType DEF OuterIpId
<1> QED
  BY <1>1, <1>2 DEF NewItem, Item

(* The fields of an item after a merge; it stays an item.                  *)
LEMMA MergedTunnelItem ==
  ASSUME NEW x \in Item, NEW p \in Pkts, NEW cmp \in Int
  PROVE  LET y == MergeTwoTunnelPackets(x, p, cmp)
         IN  /\ y \in Item
             /\ y.inner = MergeTwoTcpPackets(x.inner, p, cmp)
             /\ y.outer_is_atomic = x.outer_is_atomic
             /\ y.outer_ip_id = IF cmp > 0 THEN OuterIpId(p) ELSE x.outer_ip_id
<1> DEFINE a == MergeTwoTcpPackets(x.inner, p, cmp)
           id == IF cmp > 0 THEN OuterIpId(p) ELSE x.outer_ip_id
<1>1. a \in TcpItem(Pkts)
  BY PktType, MergedItem DEF Item
<1>2. id \in Nat
  BY PktType DEF Item, OuterIpId
<1>3. MergeTwoTunnelPackets(x, p, cmp) = [x EXCEPT !.inner = a, !.outer_ip_id = id]
  BY DEF MergeTwoTunnelPackets
<1> HIDE DEF a, id
<1> QED
  BY <1>1, <1>2, <1>3 DEF Item, a, id

LEMMA CmpIsInt ==
  ASSUME NEW x, NEW p
  PROVE  /\ CheckTunnelSeqOption(x, p) \in {-1, 0, 1}
         /\ CheckTunnelSeqOption(x, p) # 0 => CheckTunnelSeqOption(x, p) = CheckSeqOption(x.inner, p)
<1>1. CheckSeqOption(x.inner, p) \in {-1, 0, 1}
  BY DEF CheckSeqOption
<1> QED
  BY <1>1 DEF CheckTunnelSeqOption

-----------------------------------------------------------------------------
(* A call of reassemble.                                                   *)

(* No held chain has p.                                                    *)
Fresh(t, p) == \A i \in HeldItems(t) : \A n \in 1..Len(Segs(t, i)) : Segs(t, i)[n] # p

(* Storing p, alone or by a merge, leaves pairs of Fits.                   *)
MayTake(Fits, p) ==
  /\ \A time \in Nat : <<NewItem(p, time), FlowKey(p)>> \in Fits
  /\ \A x \in Item :
        LET cmp == CheckTunnelSeqOption(x, p)
        IN  /\ <<x, FlowKey(p)>> \in Fits
            /\ cmp # 0
            /\ \A n \in 1..Len(x.inner.segs) : x.inner.segs[n] # p
            => <<MergeTwoTunnelPackets(x, p, cmp), FlowKey(p)>> \in Fits

(* p was merged into an item of its flow.                                  *)
Merged(Fits, t, o, p) ==
  \E i \in HeldItems(t) :
     LET x   == t.item[i]
         cmp == CheckTunnelSeqOption(x, p)
     IN  /\ x \in Item
         /\ <<x, FlowKey(p)>> \in Fits
         /\ cmp # 0
         /\ o.ret = 1
         /\ OneReplaced(t, o.tbl, i, MergeTwoTunnelPackets(x, p, cmp))

LEMMA MergeAtSound ==
  ASSUME NEW Fits, NEW t, Sound(t, Item, Key, Fits), NEW f \in LiveFlows(t),
         NEW p \in Pkts, t.key[f] = FlowKey(p), Fresh(t, p), MayTake(Fits, p),
         NEW time \in Nat,
         NEW cur \in Chain(t, t.start_index[f]), CheckTunnelSeqOption(t.item[cur], p) # 0,
         NEW o \in MergeAt(t, f, cur, p, time)
  PROVE  /\ Sound(o.tbl, Item, Key, Fits)
         /\ RefusedOrHeld(t, o, NewItem(p, time)) \/ Merged(Fits, t, o, p)
<1> DEFINE x == t.item[cur]
           cmp == CheckTunnelSeqOption(x, p)
           y == MergeTwoTunnelPackets(x, p, cmp)
<1>1. /\ t.start_index[f] \in HeldItems(t)
      /\ Chain(t, t.start_index[f]) \subseteq HeldItems(t)
  BY ChainIsHeld DEF Sound, WellLinked, NoDangling
<1>2. cur \in HeldItems(t) /\ x \in Item /\ <<x, FlowKey(p)>> \in Fits
  BY <1>1 DEF Sound, FlowsFit, TableOf, HeldItems
<1>3. cmp \in Int /\ y \in Item
  BY <1>2, CmpIsInt, MergedTunnelItem
<1>4. <<y, t.key[f]>> \in Fits
  BY <1>2 DEF MayTake, Fresh, Segs
<1>5. CASE o = Outcome(1, SetItem(t, cur, y))
  <2> HIDE DEF y
  <2>1. Sound(SetItem(t, cur, y), Item, Key, Fits) /\ OneReplaced(t, SetItem(t, cur, y), cur, y)
    BY <1>3, <1>4, MergeSound, NullAssumption
  <2>2. o.ret = 1 /\ o.tbl = SetItem(t, cur, y)
    BY <1>5 DEF Outcome
  <2>3. Merged(Fits, t, o, p)
    BY <1>2, <2>1, <2>2 DEF Merged, y
  <2> QED
    BY <2>1, <2>2, <2>3
<1>6. CASE \E prev \in PrevOf(t, t.start_index[f], cur) : o \in StoreInFlow(t, NewItem(p, time), prev)
  <2>1. PrevOf(t, t.start_index[f], cur) \subseteq Chain(t, t.start_index[f])
    BY DEF PrevOf
  <2>2. NewItem(p, time) \in Item /\ <<NewItem(p, time), t.key[f]>> \in Fits
    BY NewItemType DEF MayTake
  <2> QED
    BY <1>6, <2>1, <2>2, StoreInFlowSound, NullAssumption
<1> QED
  BY <1>5, <1>6 DEF MergeAt

LEMMA ReassembleSound ==
  ASSUME NEW Fits, NEW t, Sound(t, Item, Key, Fits),
         NEW p \in Pkts, Fresh(t, p), Processed(p) => MayTake(Fits, p), NEW time \in Nat,
         NEW o \in Reassemble(t, p, time)
  PROVE  /\ Sound(o.tbl, Item, Key, Fits)
         /\ RefusedOrHeld(t, o, NewItem(p, time)) \/ Merged(Fits, t, o, p)
<1>1. CASE o = Outcome(-1, t)
  BY <1>1 DEF Outcome, RefusedOrHeld, SameItems
<1> SUFFICES ASSUME Processed(p)
             PROVE  /\ Sound(o.tbl, Item, Key, Fits)
                    /\ RefusedOrHeld(t, o, NewItem(p, time)) \/ Merged(Fits, t, o, p)
  BY <1>1 DEF Reassemble
<1>2. NewItem(p, time) \in Item /\ FlowKey(p) \in Key /\ <<NewItem(p, time), FlowKey(p)>> \in Fits
  BY NewItemType, PktType DEF MayTake
<1>3. CASE FindFlow(t, FlowKey(p)) = {} /\ o \in StoreInNewFlow(t, NewItem(p, time), FlowKey(p))
  BY <1>2, <1>3, StoreInNewFlowSound, NullAssumption
<1>4. ASSUME NEW f \in LiveFlows(t), t.key[f] = FlowKey(p), o \in ProcessInFlow(t, f, p, time)
      PROVE  /\ Sound(o.tbl, Item, Key, Fits)
             /\ RefusedOrHeld(t, o, NewItem(p, time)) \/ Merged(Fits, t, o, p)
  <2>1. CASE \E last \in LastOf(t, t.start_index[f]) : o \in StoreInFlow(t, NewItem(p, time), last)
    <3>1. LastOf(t, t.start_index[f]) \subseteq Chain(t, t.start_index[f])
      BY DEF LastOf
    <3> QED
      BY <1>2, <1>4, <2>1, <3>1, StoreInFlowSound, NullAssumption
  <2>2. CASE \E cur \in Chain(t, t.start_index[f]) :
                CheckTunnelSeqOption(t.item[cur], p) # 0 /\ o \in MergeAt(t, f, cur, p, time)
    BY <1>4, <2>2, MergeAtSound
  <2> QED
    BY <1>4, <2>1, <2>2 DEF ProcessInFlow, FirstOf
<1> QED
  BY <1>1, <1>3, <1>4 DEF Reassemble, FindFlow

-----------------------------------------------------------------------------
(* The invariant, for any Fits that allows what a call may store.          *)

(* What flush may write.                                                   *)
Measured == {w \in OutPkt : w.ip_len = PayloadOf(w.segs)}

Inv(Fits) ==
  /\ StateOK(Item, Key, Measured, Fits)
  /\ HeldOnce(tbl, offered)

(* Fits holds only pairs of an item that counts its payload.               *)
Counted == {x \in Item : CountsPayload(x.inner)}

LEMMA FlushedIsMeasured ==
  ASSUME NEW x \in Counted
  PROVE  FlushedPacket(x) \in Measured /\ FlushedPacket(x).segs = x.inner.segs
<1>1. /\ x.inner.segs \in MbufChain(Pkts) /\ x.inner.len \in Nat
      /\ x.inner.len = PayloadOf(x.inner.segs) /\ x.inner.nb_merged = Len(x.inner.segs)
  BY DEF Counted, Item, TcpItem, CountsPayload
<1>2. Len(x.inner.segs) \in Nat \ {0} /\ Head(x.inner.segs) \in Pkts /\ Head(x.inner.segs) = x.inner.segs[1]
  BY <1>1 DEF MbufChain
<1>3. CASE x.inner.nb_merged > 1
  BY <1>1, <1>3 DEF FlushedPacket, Measured, OutPkt
<1>4. CASE ~(x.inner.nb_merged > 1)
  <2>1. Len(x.inner.segs) = 1
    <3>1. \A n \in Nat \ {0} : ~(n > 1) => n = 1
      OBVIOUS
    <3> QED
      BY <1>1, <1>2, <1>4, <3>1, Zenon
  <2>2. x.inner.segs = <<Head(x.inner.segs)>>
    BY <1>1, <2>1 DEF MbufChain
  <2>3. PayloadOf(<<Head(x.inner.segs)>>) = Head(x.inner.segs).len
    BY <1>2, PktType, NewItemCounts
  <2>4. Head(x.inner.segs).len \in Nat
    BY <1>2, PktType DEF TcpPackets
  <2>5. /\ FlushedPacket(x).ip_len = Head(x.inner.segs).len
        /\ FlushedPacket(x) = [segs |-> x.inner.segs, ip_len |-> Head(x.inner.segs).len]
    BY <1>4 DEF FlushedPacket
  <2>6. PayloadOf(x.inner.segs) = Head(x.inner.segs).len
    BY <2>2, <2>3
  <2> QED
    BY <1>1, <2>4, <2>5, <2>6 DEF Measured, OutPkt
<1> QED
  BY <1>3, <1>4

(* The item that a flush takes, and what it writes.                        *)
LEMMA FrontIsMeasured ==
  ASSUME NEW Fits, \A x : \A k : <<x, k>> \in Fits => x \in Counted, Inv(Fits), AtDueItem
  PROVE  /\ tbl.item[tbl.start_index[fl.i]] \in Counted
         /\ FlushedPacket(tbl.item[tbl.start_index[fl.i]]) \in Measured
<1> DEFINE x == tbl.item[tbl.start_index[fl.i]]
<1>1. x \in Counted
  BY FrontIsItem DEF Inv, StateOK, TypeInvariant
<1> QED
  BY <1>1, FlushedIsMeasured

LEMMA FreshWhenNew ==
  ASSUME NEW p, p \notin offered, HeldOnce(tbl, offered)
  PROVE  Fresh(tbl, p)
  BY DEF Fresh, HeldOnce

LEMMA HeldAreTyped ==
  ASSUME NEW Fits, NEW t, Sound(t, Item, Key, Fits)
  PROVE  RunsTyped(t, Pkts)
<1>1. \A i \in HeldItems(t) : t.item[i] \in Item
  BY DEF Sound, TableOf, HeldItems
<1> QED
  BY <1>1 DEF RunsTyped, Segs, Item, TcpItem

(* What a call does to the runs held.                                      *)
TakenAsRun(Fits, t, o, p) ==
  \/ o.ret = -1 /\ HeldRuns(o.tbl) = HeldRuns(t)
  \/ o.ret = 0 /\ HeldRuns(o.tbl) = HeldRuns(t) \cup {<<p>>}
  \/ /\ o.ret = 1
     /\ \E i \in HeldItems(t) :
          LET x   == t.item[i]
              cmp == CheckTunnelSeqOption(x, p)
          IN  /\ x \in Item /\ <<x, FlowKey(p)>> \in Fits /\ cmp # 0
              /\ HeldRuns(o.tbl) =
                   (HeldRuns(t) \ {Segs(t, i)}) \cup {Chained(Segs(t, i), p, cmp)}

LEMMA TakenRuns ==
  ASSUME NEW Fits, NEW t, NEW S, Sound(t, Item, Key, Fits), HeldOnce(t, S),
         NEW p \in Pkts, p \notin S, NEW time, NEW o,
         RefusedOrHeld(t, o, NewItem(p, time)) \/ Merged(Fits, t, o, p)
  PROVE  /\ HeldOnce(o.tbl, S \cup {p})
         /\ TakenAsRun(Fits, t, o, p)
<1>1. RunsTyped(t, Pkts)
  BY HeldAreTyped
<1>2. CASE o.ret = -1 /\ SameItems(t, o.tbl)
  <2>1. HeldItems(o.tbl) = HeldItems(t) /\ \A i \in HeldItems(t) : Segs(o.tbl, i) = Segs(t, i)
    BY <1>2 DEF SameItems, Segs
  <2>2. HeldRuns(o.tbl) = HeldRuns(t) /\ HeldOnce(o.tbl, S)
    BY <2>1, SameRuns
  <2> QED
    BY <1>2, <2>2, MoreOffered DEF TakenAsRun
<1>3. CASE o.ret = 0 /\ OneMore(t, o.tbl, NewItem(p, time))
  <2>1. NewItem(p, time).inner.segs = <<p>>
    BY DEF NewItem, NewTcpItem
  <2>2. HeldRuns(o.tbl) = HeldRuns(t) \cup {<<p>>} /\ HeldOnce(o.tbl, S \cup {p})
    BY <1>3, <2>1, MoreRuns
  <2> QED
    BY <1>3, <2>2 DEF TakenAsRun
<1>4. CASE Merged(Fits, t, o, p)
  <2>1. PICK i \in HeldItems(t) :
           /\ t.item[i] \in Item /\ <<t.item[i], FlowKey(p)>> \in Fits
           /\ CheckTunnelSeqOption(t.item[i], p) # 0
           /\ o.ret = 1
           /\ OneReplaced(t, o.tbl, i,
                          MergeTwoTunnelPackets(t.item[i], p, CheckTunnelSeqOption(t.item[i], p)))
    BY <1>4 DEF Merged
  <2> DEFINE x == t.item[i]
             cmp == CheckTunnelSeqOption(x, p)
             y == MergeTwoTunnelPackets(x, p, cmp)
  <2>2. cmp \in Int /\ x.inner \in TcpItem(Pkts)
    BY <2>1, CmpIsInt DEF Item
  <2>3. y.inner = MergeTwoTcpPackets(x.inner, p, cmp)
    BY <2>1, <2>2, MergedTunnelItem
  <2>4. MergeTwoTcpPackets(x.inner, p, cmp).segs = Chained(x.inner.segs, p, cmp)
    BY <2>2, PktType, MergedItem
  <2>5. y.inner.segs = Chained(Segs(t, i), p, cmp)
    BY <2>3, <2>4 DEF Segs
  <2>6. OneReplaced(t, o.tbl, i, y)
    BY <2>1
  <2> HIDE DEF cmp, y
  <2>7. /\ HeldRuns(o.tbl) = (HeldRuns(t) \ {Segs(t, i)}) \cup {Chained(Segs(t, i), p, cmp)}
        /\ HeldOnce(o.tbl, S \cup {p})
    BY <1>1, <2>2, <2>5, <2>6, JoinedRuns
  <2> QED
    BY <2>1, <2>7 DEF TakenAsRun, cmp
<1> QED
  BY <1>2, <1>3, <1>4 DEF RefusedOrHeld

LEMMA InitInv ==
  ASSUME NEW CONSTANT Fits, Init
  PROVE  Inv(Fits)
<1>1. StateOK(Item, Key, Measured, Fits)
  BY InitOK
<1>2. HeldItems(tbl) = {}
  BY DEF Init, NewTable, HeldItems
<1> QED
  BY <1>1, <1>2 DEF Inv, HeldOnce

LEMMA NextInv ==
  ASSUME NEW CONSTANT Fits,
         \A p \in Pkts : Processed(p) => MayTake(Fits, p),
         \A x : \A k : <<x, k>> \in Fits => x \in Counted,
         Inv(Fits), [Next]_vars
  PROVE  Inv(Fits)'
<1>1. /\ StateOK(Item, Key, Measured, Fits) /\ HeldOnce(tbl, offered)
      /\ Sound(tbl, Item, Key, Fits)
      /\ TypeInvariant(Item, Key, Measured)
  BY DEF Inv, StateOK
<1>2. ASSUME NEW p \in Pkts, Receive(p)
      PROVE  Inv(Fits)'
  <2>1. now \in Nat
    BY <1>1, CallAssumption DEF TypeInvariant
  <2>2. p \notin offered /\ offered' = offered \cup {p} /\ Offer(p, Reassemble(tbl, p, now))
    BY <1>2 DEF Receive, Offer
  <2>3. Fresh(tbl, p)
    BY <1>1, <2>2, FreshWhenNew
  <2>4. ASSUME NEW o \in Reassemble(tbl, p, now)
        PROVE  /\ Sound(o.tbl, Item, Key, Fits)
               /\ RefusedOrHeld(tbl, o, NewItem(p, now)) \/ Merged(Fits, tbl, o, p)
    BY <1>1, <2>1, <2>3, ReassembleSound
  <2>5. StateOK(Item, Key, Measured, Fits)'
    BY <1>1, <2>2, <2>4, OfferOK
  <2>6. ASSUME NEW o \in Reassemble(tbl, p, now)
        PROVE  HeldOnce(o.tbl, offered \cup {p})
    BY <1>1, <2>2, <2>4, TakenRuns
  <2>7. HeldOnce(tbl', offered')
    BY <2>2, <2>6 DEF Offer
  <2> QED
    BY <2>5, <2>7 DEF Inv
<1>3. CASE FlushItem
  <2> DEFINE j == tbl.start_index[fl.i]
  <2>2. FlushedPacket(tbl.item[j]) \in Measured
    BY <1>3, FrontIsMeasured DEF FlushItem
  <2>3. /\ StateOK(Item, Key, Measured, Fits)'
        /\ j \in HeldItems(tbl) /\ HeldItems(tbl') = HeldItems(tbl) \ {j}
        /\ \A k \in HeldItems(tbl') : tbl'.item[k] = tbl.item[k]
    BY <1>1, <1>3, <2>2, WriteFrontOK, NullAssumption DEF FlushItem
  <2>4. RunsTyped(tbl, Pkts)
    BY <1>1, HeldAreTyped
  <2> HIDE DEF j
  <2>5. HeldOnce(tbl', offered)
    BY <1>1, <2>3, <2>4, FewerRuns
  <2>6. offered' = offered
    BY <1>3 DEF FlushItem, WriteFront
  <2> QED
    BY <2>3, <2>5, <2>6 DEF Inv
<1>4. CASE FlushCalls \/ FlushNextFlow \/ FlushReturn \/ Tick \/ UNCHANGED vars
  <2>1. StateOK(Item, Key, Measured, Fits)' /\ tbl' = tbl /\ offered' = offered
    BY <1>1, <1>4, OtherStepsOK, NullAssumption
  <2> QED
    BY <1>1, <2>1 DEF Inv
<1> QED
  BY <1>2, <1>3, <1>4 DEF Next, FlushStep

-----------------------------------------------------------------------------
(* What holds of all packets.                                              *)

(* Items count the payload of their chain, and chain candidates of one key. *)
FitsFlow ==
  {xk \in Counted \X Key :
     \A n \in 1..Len(xk[1].inner.segs) :
        xk[1].inner.segs[n] \in {q \in Candidates : FlowKey(q) = xk[2]}}

LEMMA FlowMayTake ==
  ASSUME NEW p \in Candidates
  PROVE  MayTake(FitsFlow, p)
<1> DEFINE T == {q \in Candidates : FlowKey(q) = FlowKey(p)}
<1>0. p \in Pkts /\ p \in T
  BY DEF Candidates
<1>1. ASSUME NEW time \in Nat
      PROVE  <<NewItem(p, time), FlowKey(p)>> \in FitsFlow
  <2> DEFINE x == NewItem(p, time)
  <2>1. x \in Item /\ FlowKey(p) \in Key
    BY <1>0, NewItemType, PktType
  <2>2. x.inner = NewTcpItem(p, time) /\ CountsPayload(NewTcpItem(p, time))
    BY <1>0, PktType, NewItemCounts DEF NewItem
  <2>3. x.inner.segs = <<p>> /\ Len(<<p>>) = 1 /\ <<p>>[1] = p
    BY DEF NewItem, NewTcpItem
  <2> HIDE DEF x
  <2>4. x \in Counted
    BY <2>1, <2>2 DEF Counted
  <2>5. \A n \in 1..Len(x.inner.segs) : x.inner.segs[n] \in T
    BY <1>0, <2>3
  <2>6. <<x, FlowKey(p)>> \in FitsFlow
    BY <2>1, <2>4, <2>5 DEF FitsFlow
  <2> QED
    BY <2>6 DEF x
<1>2. ASSUME NEW x \in Item, NEW cmp \in Int, <<x, FlowKey(p)>> \in FitsFlow
      PROVE  <<MergeTwoTunnelPackets(x, p, cmp), FlowKey(p)>> \in FitsFlow
  <2> DEFINE y == MergeTwoTunnelPackets(x, p, cmp)
             s == x.inner.segs
             n == Len(s)
             u == Chained(s, p, cmp)
  <2>1. y \in Item /\ y.inner = MergeTwoTcpPackets(x.inner, p, cmp)
    BY <1>0, MergedTunnelItem
  <2>2. /\ x.inner \in TcpItem(Pkts) /\ s \in MbufChain(Pkts) /\ CountsPayload(x.inner)
        /\ \A m \in 1..n : s[m] \in T
    BY <1>2 DEF FitsFlow, Counted, Item, TcpItem
  <2>3. MergeTwoTcpPackets(x.inner, p, cmp).segs = u
    BY <1>0, <2>2, PktType, MergedItem
  <2>4. CountsPayload(MergeTwoTcpPackets(x.inner, p, cmp))
    BY <1>0, <2>2, PktType, MergeCounts
  <2> HIDE DEF y, s
  <2>5. y \in Counted
    BY <2>1, <2>4 DEF Counted
  <2>6. \A m \in 1..Len(u) : u[m] \in T
    <3> HIDE DEF T
    <3> QED
      BY <1>0, <2>2, ChainedIn
  <2>7. <<y, FlowKey(p)>> \in FitsFlow
    BY <1>0, <2>1, <2>3, <2>5, <2>6, PktType DEF FitsFlow
  <2> QED
    BY <2>7 DEF y
<1>3. ASSUME NEW x \in Item, <<x, FlowKey(p)>> \in FitsFlow
      PROVE  <<MergeTwoTunnelPackets(x, p, CheckTunnelSeqOption(x, p)), FlowKey(p)>> \in FitsFlow
  <2>1. CheckTunnelSeqOption(x, p) \in Int
    BY CmpIsInt
  <2> QED
    BY <1>2, <1>3, <2>1
<1> QED
  BY <1>1, <1>3 DEF MayTake

LEMMA FlowInv == Spec => []Inv(FitsFlow)
<1>1. Init => Inv(FitsFlow)
  BY InitInv
<1>2. Inv(FitsFlow) /\ [Next]_vars => Inv(FitsFlow)'
  <2>1. \A x : \A k : <<x, k>> \in FitsFlow => x \in Counted
    BY DEF FitsFlow
  <2> QED
    BY <2>1, NextInv, FlowMayTake DEF Candidates
<1> QED
  BY <1>1, <1>2, PTL DEF Spec

(* Every variable keeps its type.                                          *)
THEOREM TypeCorrect == Spec => []TypeOK
<1>1. Inv(FitsFlow) => TypeOK
  BY DEF Inv, StateOK, TypeInvariant, TypeOK, Measured
<1> QED
  BY <1>1, FlowInv, PTL

(* Through every insertion, merge, rolled back insertion and flush, in any *)
(* order, the counters of the table agree with its arrays, no index in use *)
(* dangles and no item is on two chains.                                   *)
THEOREM AlwaysWellLinked == Spec => []TableWellLinked
<1>1. Inv(FitsFlow) => TableWellLinked
  BY DEF Inv, StateOK, Sound, TableWellLinked
<1> QED
  BY <1>1, FlowInv, PTL

(* No held packet is ever cut off from the flows, so a flush can reach it. *)
THEOREM NeverLeaks == Spec => []NothingLeaks
<1>1. Inv(FitsFlow) => NothingLeaks
  BY ReachedIsNoOrphan DEF Inv, StateOK, Sound, NothingLeaks
<1> QED
  BY <1>1, FlowInv, PTL

(* insert_new_flow never opens a second flow for a key in use.             *)
THEOREM FlowsHaveTheirKeys == Spec => []OneFlowPerKey
<1>1. Inv(FitsFlow) => OneFlowPerKey
  BY DEF Inv, StateOK, Sound, OneFlowPerKey
<1> QED
  BY <1>1, FlowInv, PTL

(* Every packet of every chain has the key of the flow it is held in.      *)
THEOREM PacketsStayInTheirFlow == Spec => []PacketsInTheirFlow
<1>1. Inv(FitsFlow) => PacketsInTheirFlow
  <2> SUFFICES ASSUME Inv(FitsFlow),
                      NEW f \in LiveFlows(tbl), NEW i \in Chain(tbl, tbl.start_index[f]),
                      NEW n \in DOMAIN tbl.item[i].inner.segs
               PROVE  FlowKey(tbl.item[i].inner.segs[n]) = tbl.key[f]
    BY DEF PacketsInTheirFlow
  <2> DEFINE x == tbl.item[i]
  <2>1. <<x, tbl.key[f]>> \in FitsFlow
    BY DEF Inv, StateOK, Sound, FlowsFit
  <2> HIDE DEF x
  <2>2. /\ x.inner.segs \in MbufChain(Pkts)
        /\ \A m \in 1..Len(x.inner.segs) : FlowKey(x.inner.segs[m]) = tbl.key[f]
    BY <2>1 DEF FitsFlow, Counted, Item, TcpItem
  <2>3. DOMAIN x.inner.segs = 1..Len(x.inner.segs)
    BY <2>2 DEF MbufChain
  <2> QED
    BY <2>2, <2>3 DEF x
<1> QED
  BY <1>1, FlowInv, PTL

(* The length of an item is the payload of its chain through any order of  *)
(* appends and prepends, and so are the lengths flush writes.              *)
THEOREM LengthsAlwaysAddUp == Spec => []LengthsAddUp
<1>1. Inv(FitsFlow) => LengthsAddUp
  <2> SUFFICES ASSUME Inv(FitsFlow) PROVE LengthsAddUp
    OBVIOUS
  <2>1. ASSUME NEW i \in HeldItems(tbl)
        PROVE  tbl.item[i].inner.len = PayloadOf(tbl.item[i].inner.segs)
    <3>1. tbl.item[i] \in Counted
      <4>1. PICK k \in Key \cup {NULL} : <<tbl.item[i], k>> \in FitsFlow
        BY HeldFits DEF Inv, StateOK
      <4> QED
        BY <4>1 DEF FitsFlow
    <3> QED
      BY <3>1 DEF Counted, CountsPayload
  <2>2. ASSUME NEW n \in DOMAIN out PROVE out[n].ip_len = PayloadOf(out[n].segs)
    <3>1. out \in Seq(Measured)
      BY DEF Inv, StateOK, TypeInvariant
    <3>2. out[n] \in Measured
      BY <3>1
    <3> QED
      BY <3>2 DEF Measured
  <2> QED
    BY <2>1, <2>2 DEF LengthsAddUp
<1> QED
  BY <1>1, FlowInv, PTL

(* A flush that returns with room left has taken every packet it may, for  *)
(* it returns only behind the last flow, or when flow_num says, rightly,   *)
(* that there is none.                                                     *)
THEOREM FlushIsThorough == Spec => FlushTakesAllDueFronts
<1> DEFINE Thorough == fl # NULL /\ fl' = NULL /\ tbl' = tbl
                       => \A f \in Slot : ~FrontDue(f, fl.flush_timestamp)
<1>1. Inv(FitsFlow) /\ [Next]_vars => [Thorough]_vars
  <2> SUFFICES ASSUME Inv(FitsFlow), Next, fl # NULL, fl' = NULL, tbl' = tbl
               PROVE  \A f \in Slot : ~FrontDue(f, fl.flush_timestamp)
    OBVIOUS
  <2>1. StateOK(Item, Key, Measured, FitsFlow)
    BY DEF Inv
  <2>2. \/ \E p, outcomes : Offer(p, outcomes)
        \/ FlushItem
        \/ FlushCalls \/ FlushNextFlow \/ FlushReturn \/ Tick
    BY DEF Next, Receive, FlushStep
  <2>3. FlushItem => \E pkt \in Measured : WriteFront(pkt)
    <3>1. \A x : \A k : <<x, k>> \in FitsFlow => x \in Counted
      BY DEF FitsFlow
    <3> QED
      BY <3>1, FrontIsMeasured DEF FlushItem
  <2> QED
    BY <2>1, <2>2, <2>3, EndOfFlush, NullAssumption
<1> QED
  BY <1>1, FlowInv, PTL DEF Spec, FlushTakesAllDueFronts

-----------------------------------------------------------------------------
(* What holds where IPv4 IDs tell the order of packets.  Without that the  *)
(* theorems below are false (README.md).                                   *)

(* The outer header fields of an item, which keep the ID of the last packet. *)
OuterRun(x) ==
  LET s == x.inner.segs
      n == Len(s)
  IN  /\ \A m \in 1..n : s[m].outer_df = x.outer_is_atomic
      /\ x.outer_ip_id = OuterIpId(s[n])
      /\ ~x.outer_is_atomic => s[n].outer_ip_id = s[1].outer_ip_id + n - 1
      /\ \A m \in 1..(n - 1) : Adjacent(s[m], s[m + 1])

(* An item describes a run of the connection of its flow.                  *)
FitsRun == {xk \in FitsFlow : RunOf(xk[1].inner, xk[2].conn) /\ OuterRun(xk[1])}

(* IDs of neighbours are adjacent.  For GTP-U: all packets of the flow have *)
(* the ID of p, and the test asks for another.                             *)
LEMMA NeighbourIdsAdjacent ==
  ASSUME IdsTellOrder,
         NEW p \in Candidates, NEW x \in Item, <<x, FlowKey(p)>> \in FitsRun,
         \A n \in 1..Len(x.inner.segs) : x.inner.segs[n] # p,
         NEW cmp, cmp = CheckSeqOption(x.inner, p), cmp # 0
  PROVE  IdAdjacent(x.inner, p, cmp)
<1> DEFINE a == x.inner
           s == a.segs
           n == Len(s)
<1>1. /\ a \in TcpItem(Pkts) /\ RunOf(a, p.conn) /\ FlowKey(p).conn = p.conn
      /\ \A m \in 1..n : FlowKey(s[m]) = FlowKey(p) /\ s[m] \in Candidates
      /\ p \in Pkts
  <2>1. FlowKey(p).conn = p.conn
    BY DEF FlowKey
  <2> QED
    BY <2>1 DEF FitsRun, FitsFlow, Item, Candidates
<1>2. TcpPackets(Pkts)
  BY PktType
<1>3. CASE IdsCountUp(Candidates)
  BY <1>1, <1>2, <1>3, CountedIdsAdjacent
<1>4. CASE Tunnel = "GTP"
  <2>1. /\ cmp \in {1, -1} /\ p.df = a.is_atomic
        /\ cmp = 1 => (~p.df => p.ip_id = a.ip_id + 1)
        /\ cmp = -1 => (~p.df => p.ip_id + a.nb_merged = a.ip_id)
    BY <1>1, <1>2, NeighbourFields
  <2>2. \A q \in Pkts : FlowKey(q) = FlowKey(p) => q.ip_id = p.ip_id
    <3> SUFFICES ASSUME NEW q \in Pkts, FlowKey(q) = FlowKey(p) PROVE q.ip_id = p.ip_id
      OBVIOUS
    <3>1. FlowKey(q).eth.packet_id = q.ip_id /\ FlowKey(p).eth.packet_id = p.ip_id
      BY <1>4 DEF FlowKey
    <3> QED
      BY <3>1
  <2>3. n \in Nat \ {0} /\ \A m \in 1..n : s[m] \in Pkts
    BY <1>1 DEF TcpItem, MbufChain
  <2>4. ~a.is_atomic => a.ip_id = p.ip_id /\ a.nb_merged = n
    <3>1. ~a.is_atomic => a.ip_id \in {s[1].ip_id, s[n].ip_id} /\ a.nb_merged = n
      BY <1>1 DEF RunOf, DescribesChain
    <3>2. s[1].ip_id = p.ip_id /\ s[n].ip_id = p.ip_id
      BY <1>1, <2>2, <2>3
    <3> QED
      BY <3>1, <3>2
  <2>5. p.ip_id \in Nat
    BY <1>1, <1>2 DEF TcpPackets
  <2>6. p.df
    BY <2>1, <2>3, <2>4, <2>5
  <2> QED
    BY <2>6 DEF IdAdjacent
<1> QED
  BY <1>3, <1>4 DEF IdsTellOrder

LEMMA RunMayTake ==
  ASSUME IdsTellOrder, NEW p \in Candidates
  PROVE  MayTake(FitsRun, p)
<1>1. FlowKey(p).conn = p.conn /\ p \in Pkts
  BY DEF FlowKey, Candidates
<1>2. ASSUME NEW time \in Nat
      PROVE  <<NewItem(p, time), FlowKey(p)>> \in FitsRun
  <2> DEFINE x == NewItem(p, time)
  <2>1. <<x, FlowKey(p)>> \in FitsFlow
    BY FlowMayTake DEF MayTake
  <2>2. /\ x.inner = NewTcpItem(p, time) /\ x.inner.segs = <<p>>
        /\ x.outer_is_atomic = p.outer_df /\ x.outer_ip_id = OuterIpId(p)
    BY DEF NewItem, NewTcpItem
  <2>3. RunOf(NewTcpItem(p, time), p.conn)
    BY <1>1, PktType, NewItemIsRun
  <2>4. Len(<<p>>) = 1 /\ <<p>>[1] = p /\ p.outer_ip_id + 1 - 1 = p.outer_ip_id
    BY <1>1, PktType
  <2> HIDE DEF x
  <2>5. OuterRun(x)
    BY <2>2, <2>4 DEF OuterRun
  <2>6. <<x, FlowKey(p)>> \in FitsRun
    BY <1>1, <2>1, <2>2, <2>3, <2>5 DEF FitsRun
  <2> QED
    BY <2>6 DEF x
<1>3. ASSUME NEW x \in Item, <<x, FlowKey(p)>> \in FitsRun,
             CheckTunnelSeqOption(x, p) # 0,
             \A n \in 1..Len(x.inner.segs) : x.inner.segs[n] # p
      PROVE  <<MergeTwoTunnelPackets(x, p, CheckTunnelSeqOption(x, p)), FlowKey(p)>> \in FitsRun
  <2> DEFINE cmp == CheckTunnelSeqOption(x, p)
             y == MergeTwoTunnelPackets(x, p, cmp)
             a == x.inner
             s == a.segs
             n == Len(s)
             b == MergeTwoTcpPackets(a, p, cmp)
             u == Chained(s, p, cmp)
  <2>1. cmp = CheckSeqOption(a, p) /\ cmp \in {1, -1} /\ cmp \in Int
    BY <1>3, CmpIsInt
  <2>2. /\ <<x, FlowKey(p)>> \in FitsFlow /\ RunOf(a, p.conn) /\ OuterRun(x)
        /\ a \in TcpItem(Pkts) /\ s \in MbufChain(Pkts)
    BY <1>1, <1>3 DEF FitsRun, Item, TcpItem
  <2>3. <<y, FlowKey(p)>> \in FitsFlow
    BY <1>3, <2>2, FlowMayTake DEF MayTake
  <2>4. IdAdjacent(a, p, cmp)
    BY <1>3, <2>1, NeighbourIdsAdjacent
  <2>5. /\ RunOf(b, p.conn)
        /\ cmp > 0 => Follows(s[n], p)
        /\ ~(cmp > 0) => Follows(p, s[1])
    BY <1>1, <1>3, <2>1, <2>2, <2>4, PktType, MergeIsRun
  <2>6. /\ y.inner = b /\ y.outer_is_atomic = x.outer_is_atomic
        /\ y.outer_ip_id = IF cmp > 0 THEN OuterIpId(p) ELSE x.outer_ip_id
    BY <1>1, <2>1, MergedTunnelItem
  <2>7. b.segs = u
    BY <1>1, <2>1, <2>2, PktType, MergedItem
  <2>8. a.nb_merged = n
    BY <2>2 DEF RunOf, DescribesChain
  <2>9. /\ x.outer_is_atomic = p.outer_df
        /\ cmp = 1 => p.outer_df \/ OuterIpId(p) = x.outer_ip_id + 1
        /\ cmp = -1 => p.outer_df \/ OuterIpId(p) + n = x.outer_ip_id
    BY <1>3, <2>1, <2>8 DEF CheckTunnelSeqOption
  <2>10. /\ n \in Nat \ {0} /\ \A m \in 1..n : s[m] \in Pkts
         /\ Len(u) = n + 1
         /\ cmp > 0 => u[n + 1] = p /\ \A m \in 1..n : u[m] = s[m]
         /\ ~(cmp > 0) => u[1] = p /\ \A m \in 1..n : u[m + 1] = s[m]
    <3>1. cmp \in Int /\ s \in MbufChain(Pkts) /\ p \in Pkts
      BY <1>1, <2>1, <2>2
    <3> HIDE DEF cmp, s, a
    <3> QED
      BY ONLY <3>1, ChainedPackets
  <2>11. /\ \A m \in 1..n : s[m].outer_df = x.outer_is_atomic
         /\ x.outer_ip_id = OuterIpId(s[n])
         /\ ~x.outer_is_atomic => s[n].outer_ip_id = s[1].outer_ip_id + n - 1
         /\ \A m \in 1..(n - 1) : Adjacent(s[m], s[m + 1])
    BY <2>2 DEF OuterRun
  <2>12. /\ 1 \in 1..n /\ n \in 1..n
         /\ s[1].outer_ip_id \in Nat /\ s[n].outer_ip_id \in Nat /\ p.outer_ip_id \in Nat
    BY <1>1, <2>10, PktType
  <2> HIDE DEF cmp, y, a, s, n, b, u
  <2>13. CASE cmp = 1
    <3>1. Adjacent(s[n], p)
      BY <2>5, <2>9, <2>11, <2>12, <2>13 DEF Adjacent, OuterIpId
    <3>2. \A m \in 1..(n + 1) : u[m].outer_df = x.outer_is_atomic
      <4>1. \A m \in 1..(n + 1) : m = n + 1 \/ m \in 1..n
        BY <2>10
      <4> QED
        BY <4>1, <2>9, <2>10, <2>11, <2>13
    <3>3. \A m \in 1..n : Adjacent(u[m], u[m + 1])
      <4> SUFFICES ASSUME NEW m \in 1..n PROVE Adjacent(u[m], u[m + 1])
        OBVIOUS
      <4>1. CASE m = n
        BY <2>10, <2>13, <3>1, <4>1
      <4>2. CASE m \in 1..(n - 1)
        <5>1. m + 1 \in 1..n
          BY <2>10, <4>2
        <5> QED
          BY <2>10, <2>11, <2>13, <4>2, <5>1
      <4> QED
        BY <2>10, <4>1, <4>2
    <3>4. ~x.outer_is_atomic => p.outer_ip_id = s[1].outer_ip_id + (n + 1) - 1
      BY <2>9, <2>10, <2>11, <2>12, <2>13 DEF OuterIpId
    <3>5. u[1] = s[1] /\ u[n + 1] = p /\ (n + 1) - 1 = n
      BY <2>10, <2>12, <2>13
    <3>6. y.outer_ip_id = OuterIpId(p)
      BY <2>6, <2>13
    <3>7. OuterRun(y)
      BY <2>6, <2>7, <2>10, <3>2, <3>3, <3>4, <3>5, <3>6 DEF OuterRun
    <3>8. <<y, FlowKey(p)>> \in FitsRun
      BY <1>1, <2>3, <2>5, <2>6, <3>7 DEF FitsRun
    <3> QED
      BY <3>8 DEF y, cmp
  <2>14. CASE cmp = -1
    <3>1. Adjacent(p, s[1])
      BY <2>5, <2>9, <2>10, <2>11, <2>12, <2>14 DEF Adjacent, OuterIpId
    <3>2. \A m \in 1..(n + 1) : u[m].outer_df = x.outer_is_atomic
      <4>1. \A m \in 1..(n + 1) : m = 1 \/ (m - 1 \in 1..n /\ (m - 1) + 1 = m)
        BY <2>10
      <4>2. u[1] = p /\ \A m \in 1..n : u[m + 1] = s[m]
        BY <2>10, <2>14
      <4>3. \A m \in 1..(n + 1) : m = 1 \/ \E k \in 1..n : u[m] = s[k]
        BY <4>1, <4>2
      <4> QED
        BY <4>2, <4>3, <2>9, <2>11
    <3>3. \A m \in 1..n : Adjacent(u[m], u[m + 1])
      <4> SUFFICES ASSUME NEW m \in 1..n PROVE Adjacent(u[m], u[m + 1])
        OBVIOUS
      <4>0. u[1] = p /\ \A k \in 1..n : u[k + 1] = s[k]
        BY <2>10, <2>14
      <4>1. CASE m = 1
        BY <4>0, <3>1, <4>1
      <4>2. CASE m # 1
        <5>1. m - 1 \in 1..(n - 1) /\ m - 1 \in 1..n /\ (m - 1) + 1 = m
          BY <2>10, <4>2
        <5>2. u[m] = s[m - 1] /\ u[m + 1] = s[m]
          BY <4>0, <5>1
        <5> QED
          BY <2>11, <5>1, <5>2
      <4> QED
        BY <4>1, <4>2
    <3>4. ~x.outer_is_atomic => s[n].outer_ip_id = p.outer_ip_id + (n + 1) - 1
      BY <2>9, <2>10, <2>11, <2>12, <2>14 DEF OuterIpId
    <3>5. u[1] = p /\ u[n + 1] = s[n] /\ (n + 1) - 1 = n
      BY <2>10, <2>12, <2>14
    <3>6. y.outer_ip_id = OuterIpId(s[n])
      BY <2>6, <2>11, <2>14
    <3>7. OuterRun(y)
      BY <2>6, <2>7, <2>10, <3>2, <3>3, <3>4, <3>5, <3>6 DEF OuterRun
    <3>8. <<y, FlowKey(p)>> \in FitsRun
      BY <1>1, <2>3, <2>5, <2>6, <3>7 DEF FitsRun
    <3> QED
      BY <3>8 DEF y, cmp
  <2> QED
    BY <2>1, <2>13, <2>14
<1> QED
  BY <1>2, <1>3 DEF MayTake

LEMMA RunInv ==
  ASSUME IdsTellOrder
  PROVE  Spec => []Inv(FitsRun)
<1>1. Init => Inv(FitsRun)
  BY InitInv
<1>2. Inv(FitsRun) /\ [Next]_vars => Inv(FitsRun)'
  <2>1. \A x : \A k : <<x, k>> \in FitsRun => x \in Counted
    BY DEF FitsRun, FitsFlow
  <2> QED
    BY <2>1, NextInv, RunMayTake DEF Candidates
<1> QED
  BY <1>1, <1>2, PTL DEF Spec

(* The fields of every held item describe its chain: a contiguous run of   *)
(* one connection in the inner and the outer headers, whatever the order   *)
(* in which its packets came.                                              *)
THEOREM ItemsAlwaysDescribeChains ==
  ASSUME IdsTellOrder
  PROVE  Spec => []ItemsDescribeChains
<1>1. Inv(FitsRun) => ItemsDescribeChains
  <2> SUFFICES ASSUME Inv(FitsRun), NEW i \in HeldItems(tbl)
               PROVE  LET x == tbl.item[i]
                          s == x.inner.segs
                      IN  /\ RunOfPackets(s)
                          /\ DescribesChain(x.inner)
                          /\ x.outer_ip_id = OuterIpId(s[Len(s)])
    BY DEF ItemsDescribeChains
  <2>1. PICK k \in Key \cup {NULL} : <<tbl.item[i], k>> \in FitsRun
    BY HeldFits DEF Inv, StateOK
  <2> QED
    BY <2>1 DEF FitsRun, RunOf, OuterRun, RunOfPackets
<1> QED
  BY <1>1, RunInv, PTL

-----------------------------------------------------------------------------
(* The refinement.                                                         *)

(* A merge puts p next to a packet it is adjacent to.                      *)
LEMMA JoinsAdjacent ==
  ASSUME IdsTellOrder,
         NEW p \in Candidates, NEW x \in Item, <<x, FlowKey(p)>> \in FitsRun,
         \A n \in 1..Len(x.inner.segs) : x.inner.segs[n] # p,
         NEW cmp, cmp = CheckTunnelSeqOption(x, p), cmp # 0
  PROVE  LET s == x.inner.segs
         IN  IF cmp > 0 THEN Adjacent(s[Len(s)], p) ELSE Adjacent(p, s[1])
<1> DEFINE y == MergeTwoTunnelPackets(x, p, cmp)
           s == x.inner.segs
           n == Len(s)
           u == Chained(s, p, cmp)
<1>0. p \in Pkts
  BY DEF Candidates
<1>1. <<y, FlowKey(p)>> \in FitsRun
  BY RunMayTake DEF MayTake
<1>2. cmp \in Int /\ x.inner \in TcpItem(Pkts) /\ s \in MbufChain(Pkts)
  BY CmpIsInt DEF Item, TcpItem
<1>3. y.inner = MergeTwoTcpPackets(x.inner, p, cmp)
  BY <1>0, <1>2, MergedTunnelItem
<1>4. MergeTwoTcpPackets(x.inner, p, cmp).segs = u
  BY <1>0, <1>2, PktType, MergedItem
<1> HIDE DEF y
<1>5. \A m \in 1..(Len(u) - 1) : Adjacent(u[m], u[m + 1])
  BY <1>1, <1>3, <1>4 DEF FitsRun, OuterRun
<1> HIDE DEF s
<1>6. /\ n \in Nat \ {0} /\ Len(u) = n + 1
      /\ cmp > 0 => u[n + 1] = p /\ \A m \in 1..n : u[m] = s[m]
      /\ ~(cmp > 0) => u[1] = p /\ \A m \in 1..n : u[m + 1] = s[m]
  <2>1. cmp \in Int /\ s \in MbufChain(Pkts)
    BY <1>2
  <2> QED
    BY ONLY <2>1, <1>0, ChainedPackets
<1> HIDE DEF n, u
<1>7. 1 \in 1..n /\ n \in 1..n /\ Len(u) - 1 = n
  BY <1>6
<1>8. Adjacent(u[n], u[n + 1]) /\ Adjacent(u[1], u[1 + 1])
  BY <1>5, <1>7
<1>9. CASE cmp > 0
  <2>1. u[n] = s[n] /\ u[n + 1] = p
    BY <1>6, <1>7, <1>9
  <2> QED
    BY <1>8, <1>9, <2>1 DEF n, s
<1>10. CASE ~(cmp > 0)
  <2>1. u[1] = p /\ u[1 + 1] = s[1]
    BY <1>6, <1>7, <1>10
  <2> QED
    BY <1>8, <1>10, <2>1 DEF s
<1> QED
  BY <1>9, <1>10

(* A call of reassemble is a step of the service.                          *)
LEMMA ReceiveIsOffer ==
  ASSUME IdsTellOrder, Inv(FitsRun), NEW p \in Pkts, Receive(p)
  PROVE  Service!Offer(p)
<1>1. /\ p \notin offered /\ offered' = offered \cup {p} /\ out' = out
      /\ Sound(tbl, Item, Key, FitsRun) /\ HeldOnce(tbl, offered) /\ now \in Nat
  BY CallAssumption DEF Receive, Offer, Inv, StateOK, TypeInvariant
<1>2. PICK o \in Reassemble(tbl, p, now) :
         tbl' = o.tbl /\ back' = IF o.ret < 0 THEN back \cup {p} ELSE back
  BY DEF Receive, Offer
<1>3. Fresh(tbl, p)
  BY <1>1, FreshWhenNew
<1>4. RefusedOrHeld(tbl, o, NewItem(p, now)) \/ Merged(FitsRun, tbl, o, p)
  BY <1>1, <1>3, ReassembleSound, RunMayTake DEF Candidates
<1>5. \/ o.ret = -1 /\ HeldRuns(o.tbl) = HeldRuns(tbl)
      \/ o.ret = 0 /\ HeldRuns(o.tbl) = HeldRuns(tbl) \cup {<<p>>}
      \/ /\ o.ret = 1
         /\ \E i \in HeldItems(tbl) :
              LET x   == tbl.item[i]
                  cmp == CheckTunnelSeqOption(x, p)
              IN  /\ x \in Item /\ <<x, FlowKey(p)>> \in FitsRun /\ cmp # 0
                  /\ HeldRuns(o.tbl) =
                       (HeldRuns(tbl) \ {Segs(tbl, i)}) \cup {Chained(Segs(tbl, i), p, cmp)}
  <2>1. TakenAsRun(FitsRun, tbl, o, p)
    BY <1>1, <1>4, TakenRuns
  <2> QED
    BY <2>1 DEF TakenAsRun
<1>6. CASE o.ret = -1 /\ HeldRuns(o.tbl) = HeldRuns(tbl)
  <2>1. back' = back \cup {p} /\ HeldRuns(tbl)' = HeldRuns(tbl)
    <3>1. back' = back \cup {p}
      BY <1>2, <1>6
    <3>2. HeldRuns(tbl') = HeldRuns(tbl)
      BY <1>2, <1>6
    <3> QED
      BY <3>1, <3>2 DEF HeldRuns, Segs
  <2>2. Service!Refuse(p)
    BY <1>1, <2>1 DEF Service!Refuse, HeldRuns, Segs
  <2> QED
    BY <1>1, <2>2 DEF Service!Offer
<1>7. CASE o.ret = 0 /\ HeldRuns(o.tbl) = HeldRuns(tbl) \cup {<<p>>}
  <2>1. back' = back /\ HeldRuns(tbl)' = HeldRuns(tbl) \cup {<<p>>}
    <3>1. back' = back
      BY <1>2, <1>7
    <3>2. HeldRuns(tbl') = HeldRuns(tbl) \cup {<<p>>}
      BY <1>2, <1>7
    <3> QED
      BY <3>1, <3>2 DEF HeldRuns, Segs
  <2>2. Service!Hold(p)
    BY <1>1, <2>1 DEF Service!Hold, HeldRuns, Segs
  <2> QED
    BY <1>1, <2>2 DEF Service!Offer
<1>8. ASSUME NEW i \in HeldItems(tbl), o.ret = 1,
             tbl.item[i] \in Item, <<tbl.item[i], FlowKey(p)>> \in FitsRun,
             NEW cmp, cmp = CheckTunnelSeqOption(tbl.item[i], p), cmp # 0,
             HeldRuns(o.tbl) =
               (HeldRuns(tbl) \ {Segs(tbl, i)}) \cup {Chained(Segs(tbl, i), p, cmp)}
      PROVE  Service!Offer(p)
  <2> DEFINE b == Segs(tbl, i)
  <2>1. /\ back' = back
        /\ HeldRuns(tbl)' = (HeldRuns(tbl) \ {b}) \cup {Chained(b, p, cmp)}
    BY <1>2, <1>8 DEF HeldRuns, Segs
  <2>2. b \in HeldRuns(tbl)
    BY DEF HeldRuns
  <2>3. IF cmp > 0 THEN Adjacent(b[Len(b)], p) ELSE Adjacent(p, b[1])
    <3>1. \A n \in 1..Len(tbl.item[i].inner.segs) : tbl.item[i].inner.segs[n] # p
      BY <1>3 DEF Fresh, Segs
    <3>2. p \in Candidates
      BY <1>2, <1>8 DEF Reassemble, Outcome, Candidates
    <3> QED
      BY <1>8, <3>1, <3>2, JoinsAdjacent DEF Segs
  <2> HIDE DEF b
  <2>4. \/ Adjacent(b[Len(b)], p) /\ HeldRuns(tbl)' = (HeldRuns(tbl) \ {b}) \cup {Append(b, p)}
        \/ Adjacent(p, b[1]) /\ HeldRuns(tbl)' = (HeldRuns(tbl) \ {b}) \cup {<<p>> \o b}
    BY <2>1, <2>3 DEF Chained
  <2>5. Service!Join(p)
    BY <1>1, <2>1, <2>2, <2>4 DEF Service!Join, HeldRuns, Segs
  <2> QED
    BY <1>1, <2>5 DEF Service!Offer
<1> QED
  BY <1>5, <1>6, <1>7, <1>8

(* A turn of the inner loop of a flush delivers one run.                   *)
LEMMA FlushItemIsDeliver ==
  ASSUME Inv(FitsRun), FlushItem
  PROVE  Service!Deliver
<1> DEFINE j == tbl.start_index[fl.i]
           w == FlushedPacket(tbl.item[j])
           b == Segs(tbl, j)
<1>1. \A x : \A k : <<x, k>> \in FitsRun => x \in Counted
  BY DEF FitsRun, FitsFlow
<1>2. w \in Measured /\ w.segs = b /\ AtDueItem /\ WriteFront(w)
  BY <1>1, FrontIsMeasured, FlushedIsMeasured DEF FlushItem, Segs
<1>3. StateOK(Item, Key, Measured, FitsRun) /\ HeldOnce(tbl, offered)
  BY DEF Inv
<1>4. /\ j \in HeldItems(tbl) /\ HeldItems(tbl') = HeldItems(tbl) \ {j}
      /\ \A k \in HeldItems(tbl') : tbl'.item[k] = tbl.item[k]
  BY <1>2, <1>3, WriteFrontOK, NullAssumption
<1>5. RunsTyped(tbl, Pkts)
  BY <1>3, HeldAreTyped DEF StateOK
<1> HIDE DEF j, w
<1>6. HeldRuns(tbl') = HeldRuns(tbl) \ {b}
  <2>1. ASSUME NEW u, HeldItems(u) = HeldItems(tbl) \ {j},
               \A k \in HeldItems(u) : u.item[k] = tbl.item[k]
        PROVE  HeldRuns(u) = HeldRuns(tbl) \ {Segs(tbl, j)}
    BY ONLY <2>1, <1>3, <1>4, <1>5, FewerRuns
  <2> QED
    BY <1>4, <2>1
<1>7. HeldRuns(tbl)' = HeldRuns(tbl) \ {b} /\ b \in HeldRuns(tbl)
  BY <1>4, <1>6 DEF HeldRuns, Segs
<1>8. out' = Append(out, w) /\ out \in Seq(Measured) /\ offered' = offered /\ back' = back
  BY <1>2, <1>3 DEF WriteFront, StateOK, TypeInvariant
<1>9. [n \in DOMAIN out' |-> out'[n].segs] = Append([n \in DOMAIN out |-> out[n].segs], b)
  BY <1>2, <1>8, AppendedRuns
<1> HIDE DEF b
<1> QED
  BY <1>7, <1>8, <1>9 DEF Service!Deliver, HeldRuns, Segs

(* The table, its limits and its flush implement the service: no packet is *)
(* lost, doubled or reordered within a run, and what leaves is a run of    *)
(* adjacent packets that were handed over.                                 *)
THEOREM RefinesService ==
  ASSUME IdsTellOrder
  PROVE  Spec => ImplementsService
<1>1. Init => Service!Init
  <2> SUFFICES ASSUME Init PROVE Service!Init
    OBVIOUS
  <2>1. HeldItems(tbl) = {}
    BY DEF Init, NewTable, HeldItems
  <2>2. [n \in DOMAIN out |-> out[n].segs] = <<>>
    BY DEF Init
  <2> QED
    BY <2>1, <2>2 DEF Init, Service!Init
<1>2. Inv(FitsRun) /\ [Next]_vars => [Service!Next]_(Service!vars)
  <2> SUFFICES ASSUME Inv(FitsRun), [Next]_vars PROVE [Service!Next]_(Service!vars)
    OBVIOUS
  <2>1. CASE \E p \in Pkts : Receive(p)
    BY <2>1, ReceiveIsOffer DEF Service!Next
  <2>2. CASE FlushItem
    BY <2>2, FlushItemIsDeliver DEF Service!Next
  <2>3. CASE FlushCalls \/ FlushNextFlow \/ FlushReturn \/ Tick \/ UNCHANGED vars
    <3>1. tbl' = tbl /\ offered' = offered /\ back' = back /\ out' = out
      BY <2>3 DEF FlushCalls, FlushCall, FlushNextFlow, FlushReturn, Tick, vars
    <3> QED
      BY <3>1 DEF Service!vars
  <2> QED
    BY <2>1, <2>2, <2>3 DEF Next, FlushStep
<1> QED
  BY <1>1, <1>2, RunInv, PTL DEF Spec, ImplementsService, Service!Spec
=============================================================================
