----------------------------- MODULE GroTcp4Proofs -----------------------------
(***************************************************************************)
(* Theorems about GroTcp4 for both versions of IP, every table size,       *)
(* sequence space, limit of a merge and set of packets.                    *)
(*                                                                         *)
(* They differ from those of the tunnel types in what GroTcp4 adds: the    *)
(* trimming of a packet before it is looked at, and the start time that    *)
(* PSH and FIN set back.                                                   *)
(***************************************************************************)
EXTENDS GroTcp4, GroTcpProofs

-----------------------------------------------------------------------------
(* Packets and items.                                                      *)

(* What a packet has, trimmed or not.                                      *)
LEMMA PktType ==
  /\ TcpPackets(Trimmed)
  /\ \A m \in Trimmed : m.total \in Nat /\ m.conn \in Key
  /\ \A p, q \in Pkts : Trim(p) = Trim(q) => p = q
  /\ \A p \in Pkts : Trim(p) \in Trimmed
<1>1. ASSUME NEW p \in Pkts
      PROVE  LET m == Trim(p)
             IN  /\ m.seq \in 0..(SeqSpace - 1) /\ m.len \in Nat
                 /\ m.ip_id \in Nat /\ m.df \in BOOLEAN
                 /\ m.total \in Nat /\ m.conn \in Key /\ m.id = p.id
  <2>1. p \in [ id : Nat, conn : STRING, seq : 0..(SeqSpace - 1), len : Nat,
                total : Nat, ip_id : Nat, df : BOOLEAN, l4_len : Nat, opts : STRING,
                flags : SUBSET {"ACK", "PSH", "FIN", "SYN", "RST"} ]
    BY Tcp4Assumption
  <2>2. p.conn \in Key
    BY DEF Key
  <2>3. CASE p.len > p.total
    BY <2>1, <2>2, <2>3 DEF Trim
  <2>4. CASE ~(p.len > p.total)
    BY <2>1, <2>2, <2>4 DEF Trim
  <2> QED
    BY <2>3, <2>4
<1>2. \A p, q \in Pkts : Trim(p) = Trim(q) => p = q
  BY <1>1, IdAssumption
<1>3. \A m \in Trimmed : \E p \in Pkts : m = Trim(p)
  BY DEF Trimmed
<1> QED
  BY <1>1, <1>2, <1>3 DEF TcpPackets, Trimmed

LEMMA NewItemType ==
  ASSUME NEW m \in Trimmed, NEW time \in Nat
  PROVE  /\ NewItem(m, time) \in Item
         /\ NewItem(m, time).inner = NewTcpItem(m, time)
         /\ NewItem(m, time).inner.segs = <<m>>
<1>1. NewTcpItem(m, time) \in TcpItem(Trimmed) /\ NewTcpItem(m, time).segs = <<m>>
  BY PktType, NewTcpItemType DEF NewTcpItem
<1> QED
  BY <1>1 DEF NewItem, Item

LEMMA MergedTcp4Item ==
  ASSUME NEW x \in Item, NEW m \in Trimmed, NEW cmp \in Int
  PROVE  /\ MergeItem(x, m, cmp) \in Item
         /\ MergeItem(x, m, cmp).inner = MergeTwoTcpPackets(x.inner, m, cmp)
<1> DEFINE a == MergeTwoTcpPackets(x.inner, m, cmp)
           sc == IF cmp > 0 /\ m.flags # ACK /\ m.len > FlagByte
                 THEN x.scribbled \cup {m} ELSE x.scribbled
<1>1. a \in TcpItem(Trimmed)
  BY PktType, MergedItem DEF Item
<1>2. sc \in SUBSET Trimmed
  BY DEF Item
<1>3. MergeItem(x, m, cmp) = [x EXCEPT !.inner = a, !.scribbled = sc]
  BY DEF MergeItem
<1> HIDE DEF a, sc
<1> QED
  BY <1>1, <1>2, <1>3 DEF Item, a

LEMMA CmpIsInt ==
  ASSUME NEW x, NEW m
  PROVE  CheckSeqOption(x, m) \in Int
  BY DEF CheckSeqOption

-----------------------------------------------------------------------------
(* A call of reassemble.                                                   *)

(* No held chain has m.                                                    *)
Fresh(t, m) == \A i \in HeldItems(t) : \A n \in 1..Len(Segs(t, i)) : Segs(t, i)[n] # m

(* Storing m, alone or by a merge, leaves pairs of Fits.                   *)
MayTake(Fits, m) ==
  /\ \A time \in Nat : <<NewItem(m, time), m.conn>> \in Fits
  /\ \A x \in Item :
        LET cmp == CheckSeqOption(x.inner, m)
        IN  /\ <<x, m.conn>> \in Fits
            /\ cmp # 0
            /\ \A n \in 1..Len(x.inner.segs) : x.inner.segs[n] # m
            => <<MergeItem(x, m, cmp), m.conn>> \in Fits

(* The start time of an item is not part of what Fits says.                *)
Timeless(Fits) ==
  \A x \in Item : \A k : <<x, k>> \in Fits => <<[x EXCEPT !.inner.start_time = 0], k>> \in Fits

(* m was merged into an item of its flow.                                  *)
Merged(Fits, t, o, m) ==
  \E i \in HeldItems(t) :
     LET x   == t.item[i]
         cmp == CheckSeqOption(x.inner, m)
     IN  /\ x \in Item
         /\ <<x, m.conn>> \in Fits
         /\ cmp # 0
         /\ o.ret = 1
         /\ OneReplaced(t, o.tbl, i, MergeItem(x, m, cmp))

LEMMA MergeAtSound ==
  ASSUME NEW Fits, NEW t, Sound(t, Item, Key, Fits), NEW f \in LiveFlows(t),
         NEW m \in Trimmed, t.key[f] = m.conn, Fresh(t, m), MayTake(Fits, m),
         NEW time \in Nat,
         NEW cur \in Chain(t, t.start_index[f]), CheckSeqOption(t.item[cur].inner, m) # 0,
         NEW o \in MergeAt(t, f, cur, m, time)
  PROVE  /\ Sound(o.tbl, Item, Key, Fits)
         /\ RefusedOrHeld(t, o, NewItem(m, time)) \/ Merged(Fits, t, o, m)
<1> DEFINE x == t.item[cur]
           cmp == CheckSeqOption(x.inner, m)
           y == MergeItem(x, m, cmp)
<1>1. /\ t.start_index[f] \in HeldItems(t)
      /\ Chain(t, t.start_index[f]) \subseteq HeldItems(t)
  BY ChainIsHeld DEF Sound, WellLinked, NoDangling
<1>2. cur \in HeldItems(t) /\ x \in Item /\ <<x, m.conn>> \in Fits
  BY <1>1 DEF Sound, FlowsFit, TableOf, HeldItems
<1>3. cmp \in Int /\ y \in Item
  BY <1>2, CmpIsInt, MergedTcp4Item
<1>4. <<y, t.key[f]>> \in Fits
  BY <1>2 DEF MayTake, Fresh, Segs
<1>5. CASE o = Outcome(1, SetItem(t, cur, y))
  <2> HIDE DEF y
  <2>1. Sound(SetItem(t, cur, y), Item, Key, Fits) /\ OneReplaced(t, SetItem(t, cur, y), cur, y)
    BY <1>3, <1>4, MergeSound, NullAssumption
  <2>2. o.ret = 1 /\ o.tbl = SetItem(t, cur, y)
    BY <1>5 DEF Outcome
  <2>3. Merged(Fits, t, o, m)
    BY <1>2, <2>1, <2>2 DEF Merged, y
  <2> QED
    BY <2>1, <2>2, <2>3
<1>6. CASE o \in StoreInFlow(t, NewItem(m, time), cur)
  <2>1. NewItem(m, time) \in Item /\ <<NewItem(m, time), t.key[f]>> \in Fits
    BY NewItemType DEF MayTake
  <2> QED
    BY <1>6, <2>1, StoreInFlowSound, NullAssumption
<1> QED
  BY <1>5, <1>6 DEF MergeAt

LEMMA ProcessTcpItemSound ==
  ASSUME NEW Fits, NEW t, Sound(t, Item, Key, Fits), NEW f \in LiveFlows(t),
         NEW m \in Trimmed, t.key[f] = m.conn, Fresh(t, m), MayTake(Fits, m),
         NEW time \in Nat, NEW o \in ProcessTcpItem(t, f, m, time)
  PROVE  /\ Sound(o.tbl, Item, Key, Fits)
         /\ RefusedOrHeld(t, o, NewItem(m, time)) \/ Merged(Fits, t, o, m)
<1>1. CASE \E last \in LastOf(t, t.start_index[f]) : o \in StoreInFlow(t, NewItem(m, time), last)
  <2>1. LastOf(t, t.start_index[f]) \subseteq Chain(t, t.start_index[f])
    BY DEF LastOf
  <2>2. NewItem(m, time) \in Item /\ <<NewItem(m, time), t.key[f]>> \in Fits
    BY NewItemType DEF MayTake
  <2> QED
    BY <1>1, <2>1, <2>2, StoreInFlowSound, NullAssumption
<1>2. CASE \E cur \in Chain(t, t.start_index[f]) :
              CheckSeqOption(t.item[cur].inner, m) # 0 /\ o \in MergeAt(t, f, cur, m, time)
  BY <1>2, MergeAtSound
<1> QED
  BY <1>1, <1>2 DEF ProcessTcpItem, FirstOf

(* PSH and FIN set back one start time and nothing else.                   *)
LEMMA HurryFirstSound ==
  ASSUME NEW Fits, Timeless(Fits), NEW t, Sound(t, Item, Key, Fits), NEW f \in LiveFlows(t),
         NEW m
  PROVE  LET u == HurryFirst(t, f, m)
         IN  /\ Sound(u, Item, Key, Fits)
             /\ f \in LiveFlows(u) /\ u.key = t.key
             /\ HeldItems(u) = HeldItems(t)
             /\ \A i \in HeldItems(t) : Segs(u, i) = Segs(t, i)
<1> DEFINE first == t.start_index[f]
           x == t.item[first]
           y == [x EXCEPT !.inner.start_time = 0]
<1>1. CASE m.flags = ACK
  BY <1>1 DEF HurryFirst
<1>2. CASE m.flags # ACK
  <2>1. first \in HeldItems(t) /\ first \in Slot
    BY DEF Sound, WellLinked, NoDangling, HeldItems
  <2>2. first \in Chain(t, first)
    BY <2>1, ChainStarts
  <2>3. x \in Item /\ <<x, t.key[f]>> \in Fits
    BY <2>1, <2>2 DEF Sound, TableOf, HeldItems, FlowsFit
  <2>4. y \in Item /\ y.inner.segs = x.inner.segs
    BY <2>3 DEF Item, TcpItem
  <2>5. <<y, t.key[f]>> \in Fits
    BY <2>3 DEF Timeless
  <2> DEFINE u == SetItem(t, first, y)
  <2>6. HurryFirst(t, f, m) = u
    BY <1>2 DEF HurryFirst
  <2>7. f \in LiveFlows(u) /\ u.key = t.key
    BY DEF SetItem, LiveFlows, Sound, TableOf
  <2> HIDE DEF y, x
  <2>8. Sound(u, Item, Key, Fits) /\ OneReplaced(t, u, first, y)
    BY <2>2, <2>4, <2>5, MergeSound, NullAssumption
  <2> HIDE DEF u, first
  <2>9. HeldItems(u) = HeldItems(t) /\ \A i \in HeldItems(t) : Segs(u, i) = Segs(t, i)
    BY <2>4, <2>8 DEF OneReplaced, Segs, x
  <2> QED
    BY <2>6, <2>7, <2>8, <2>9
<1> QED
  BY <1>1, <1>2

(* What a call does to the runs held.                                      *)
TakenAsRun(Fits, t, o, m) ==
  \/ o.ret = -1 /\ HeldRuns(o.tbl) = HeldRuns(t)
  \/ o.ret = 0 /\ HeldRuns(o.tbl) = HeldRuns(t) \cup {<<m>>}
  \/ /\ o.ret = 1
     /\ \E i \in HeldItems(t), x \in Item :
          LET cmp == CheckSeqOption(x.inner, m)
          IN  /\ x.inner.segs = Segs(t, i) /\ <<x, m.conn>> \in Fits /\ cmp # 0
              /\ HeldRuns(o.tbl) =
                   (HeldRuns(t) \ {Segs(t, i)}) \cup {Chained(Segs(t, i), m, cmp)}

LEMMA HeldAreTyped ==
  ASSUME NEW Fits, NEW t, Sound(t, Item, Key, Fits)
  PROVE  RunsTyped(t, Trimmed)
<1>1. \A i \in HeldItems(t) : t.item[i] \in Item
  BY DEF Sound, TableOf, HeldItems
<1> QED
  BY <1>1 DEF RunsTyped, Segs, Item, TcpItem

LEMMA TakenRuns ==
  ASSUME NEW Fits, NEW t, NEW S, Sound(t, Item, Key, Fits), HeldOnce(t, S),
         NEW m \in Trimmed, m \notin S, NEW time \in Nat, NEW o,
         RefusedOrHeld(t, o, NewItem(m, time)) \/ Merged(Fits, t, o, m)
  PROVE  HeldOnce(o.tbl, S \cup {m}) /\ TakenAsRun(Fits, t, o, m)
<1>1. RunsTyped(t, Trimmed)
  BY HeldAreTyped
<1>2. CASE o.ret = -1 /\ SameItems(t, o.tbl)
  <2>1. HeldItems(o.tbl) = HeldItems(t) /\ \A i \in HeldItems(t) : Segs(o.tbl, i) = Segs(t, i)
    BY <1>2 DEF SameItems, Segs
  <2>2. HeldRuns(o.tbl) = HeldRuns(t) /\ HeldOnce(o.tbl, S)
    BY <2>1, SameRuns
  <2> QED
    BY <1>2, <2>2, MoreOffered DEF TakenAsRun
<1>3. CASE o.ret = 0 /\ OneMore(t, o.tbl, NewItem(m, time))
  <2>1. NewItem(m, time).inner.segs = <<m>>
    BY NewItemType
  <2>2. HeldRuns(o.tbl) = HeldRuns(t) \cup {<<m>>} /\ HeldOnce(o.tbl, S \cup {m})
    BY <1>3, <2>1, MoreRuns
  <2> QED
    BY <1>3, <2>2 DEF TakenAsRun
<1>4. CASE Merged(Fits, t, o, m)
  <2>1. PICK i \in HeldItems(t) :
           /\ t.item[i] \in Item /\ <<t.item[i], m.conn>> \in Fits
           /\ CheckSeqOption(t.item[i].inner, m) # 0
           /\ o.ret = 1
           /\ OneReplaced(t, o.tbl, i,
                          MergeItem(t.item[i], m, CheckSeqOption(t.item[i].inner, m)))
    BY <1>4 DEF Merged
  <2> DEFINE x == t.item[i]
             cmp == CheckSeqOption(x.inner, m)
             y == MergeItem(x, m, cmp)
  <2>2. cmp \in Int /\ x.inner \in TcpItem(Trimmed)
    BY <2>1, CmpIsInt DEF Item
  <2>3. y.inner = MergeTwoTcpPackets(x.inner, m, cmp)
    BY <2>1, <2>2, MergedTcp4Item
  <2>4. MergeTwoTcpPackets(x.inner, m, cmp).segs = Chained(x.inner.segs, m, cmp)
    BY <2>2, PktType, MergedItem
  <2>5. y.inner.segs = Chained(Segs(t, i), m, cmp)
    BY <2>3, <2>4 DEF Segs
  <2>6. OneReplaced(t, o.tbl, i, y)
    BY <2>1
  <2> HIDE DEF cmp, y
  <2>7. /\ HeldRuns(o.tbl) = (HeldRuns(t) \ {Segs(t, i)}) \cup {Chained(Segs(t, i), m, cmp)}
        /\ HeldOnce(o.tbl, S \cup {m})
    BY <1>1, <2>2, <2>5, <2>6, JoinedRuns
  <2> QED
    BY <2>1, <2>7 DEF TakenAsRun, Segs, cmp
<1> QED
  BY <1>2, <1>3, <1>4 DEF RefusedOrHeld

LEMMA ReassembleSound ==
  ASSUME NEW Fits, Timeless(Fits), NEW t, Sound(t, Item, Key, Fits),
         NEW S, HeldOnce(t, S),
         NEW m \in Trimmed, m \notin S, Processed(m) => MayTake(Fits, m), NEW time \in Nat,
         NEW o \in ReassembleTrimmed(t, m, time)
  PROVE  /\ Sound(o.tbl, Item, Key, Fits)
         /\ HeldOnce(o.tbl, S \cup {m})
         /\ TakenAsRun(Fits, t, o, m)
         /\ o.ret \in {-1, 0, 1} /\ (o.ret # -1 => Processed(m))
<1> DEFINE Good == /\ Sound(o.tbl, Item, Key, Fits)
                   /\ HeldOnce(o.tbl, S \cup {m})
                   /\ TakenAsRun(Fits, t, o, m)
<1>0. Fresh(t, m)
  BY DEF Fresh, HeldOnce
<1>1. CASE o = Outcome(-1, t)
  BY <1>1, MoreOffered DEF Outcome, TakenAsRun
<1>2. CASE /\ Processed(m) /\ FindFlow(t, m.conn) = {}
           /\ o \in StoreInNewFlow(t, NewItem(m, time), m.conn)
  <2>1. NewItem(m, time) \in Item /\ m.conn \in Key /\ <<NewItem(m, time), m.conn>> \in Fits
    BY <1>2, NewItemType, PktType DEF MayTake
  <2>2. Sound(o.tbl, Item, Key, Fits) /\ RefusedOrHeld(t, o, NewItem(m, time))
    BY <1>2, <2>1, StoreInNewFlowSound, NullAssumption
  <2>3. Good
    BY <2>2, TakenRuns
  <2> QED
    BY <1>2, <2>2, <2>3 DEF RefusedOrHeld
<1>3. ASSUME Processed(m), NEW f \in LiveFlows(t), t.key[f] = m.conn,
             o \in ProcessTcpItem(HurryFirst(t, f, m), f, m, time)
      PROVE  Good /\ o.ret \in {-1, 0, 1}
  <2> DEFINE u == HurryFirst(t, f, m)
  <2>1. /\ Sound(u, Item, Key, Fits) /\ f \in LiveFlows(u) /\ u.key = t.key
        /\ HeldItems(u) = HeldItems(t) /\ \A i \in HeldItems(t) : Segs(u, i) = Segs(t, i)
    BY HurryFirstSound
  <2> HIDE DEF u
  <2>2. HeldRuns(u) = HeldRuns(t) /\ HeldOnce(u, S)
    BY <2>1, SameRuns
  <2>3. Fresh(u, m)
    BY <1>0, <2>1 DEF Fresh
  <2>4. o \in ProcessTcpItem(u, f, m, time)
    BY <1>3 DEF u
  <2>5. /\ Sound(o.tbl, Item, Key, Fits)
        /\ RefusedOrHeld(u, o, NewItem(m, time)) \/ Merged(Fits, u, o, m)
    BY <1>3, <2>1, <2>3, <2>4, ProcessTcpItemSound
  <2>6. HeldOnce(o.tbl, S \cup {m}) /\ TakenAsRun(Fits, u, o, m)
    BY <2>1, <2>2, <2>5, TakenRuns
  <2>7. TakenAsRun(Fits, t, o, m)
    BY <2>1, <2>2, <2>6 DEF TakenAsRun
  <2> QED
    BY <2>5, <2>6, <2>7 DEF RefusedOrHeld, Merged
<1>4. Good
  BY <1>1, <1>2, <1>3 DEF ReassembleTrimmed, FindFlow
<1>5. o.ret \in {-1, 0, 1}
  BY <1>4 DEF TakenAsRun
<1>6. o.ret # -1 => Processed(m)
  BY DEF ReassembleTrimmed, Outcome
<1> QED
  BY <1>4, <1>5, <1>6

-----------------------------------------------------------------------------
(* The invariant, for any Fits that allows what a call may store.          *)

(* Items that count the payload of their chain, which has candidates only. *)
Counted ==
  {x \in Item : CountsPayload(x.inner) /\ \A n \in 1..Len(x.inner.segs) : x.inner.segs[n] \in Candidates}

(* What flush may write.                                                   *)
Measured ==
  {w \in OutPkt :
     /\ w.ip_len = IF Len(w.segs) > 1 THEN PayloadOf(w.segs) ELSE w.segs[1].total
     /\ \A n \in 1..Len(w.segs) : w.segs[n] \in Candidates}

(* The packets handed over so far, without their padding.                  *)
Got == {Trim(p) : p \in offered}

Inv(Fits) ==
  /\ StateOK(Item, Key, Measured, Fits)
  /\ HeldOnce(tbl, Got)

LEMMA FlushedIsMeasured ==
  ASSUME NEW x \in Counted
  PROVE  FlushedPacket(x) \in Measured /\ FlushedPacket(x).segs = x.inner.segs
<1> DEFINE s == x.inner.segs
           n == Len(s)
           w == FlushedPacket(x)
<1>1. /\ s \in MbufChain(Trimmed) /\ x.inner.len \in Nat /\ x.scribbled \in SUBSET Trimmed
      /\ x.inner.len = PayloadOf(s) /\ x.inner.nb_merged = n
      /\ \A k \in 1..n : s[k] \in Candidates
  BY DEF Counted, Item, TcpItem, CountsPayload
<1> HIDE DEF s
<1>2. n \in Nat \ {0} /\ Head(s) = s[1] /\ s[1] \in Candidates
  <2>1. n \in Nat \ {0} /\ Head(s) = s[1]
    BY <1>1 DEF MbufChain
  <2>2. 1 \in 1..n
    BY <2>1
  <2> QED
    BY <1>1, <2>1, <2>2
<1>3. s[1].total \in Nat /\ s[1].flags \in SUBSET VALID_GRO_TCP_FLAGS
  BY <1>2, PktType DEF Candidates, Processed, VALID_GRO_TCP_FLAGS, ACK
<1> HIDE DEF n
<1>4. w = [ segs      |-> s,
            ip_len    |-> IF n > 1 THEN x.inner.len ELSE s[1].total,
            flags     |-> s[1].flags,
            scribbled |-> x.scribbled ]
  BY <1>1, <1>2 DEF FlushedPacket, s
<1> HIDE DEF w
<1>5. /\ w.segs = s /\ w.ip_len = (IF n > 1 THEN PayloadOf(s) ELSE s[1].total)
      /\ w \in OutPkt
  <2>1. w.segs = s /\ w.ip_len = (IF n > 1 THEN PayloadOf(s) ELSE s[1].total)
    BY <1>1, <1>4
  <2>2. (IF n > 1 THEN x.inner.len ELSE s[1].total) \in Nat
    BY <1>1, <1>3
  <2>3. w \in OutPkt
    BY <1>1, <1>3, <1>4, <2>2 DEF OutPkt
  <2> QED
    BY <2>1, <2>3
<1>6. w \in Measured
  BY <1>1, <1>5 DEF Measured, n
<1> QED
  BY <1>5, <1>6 DEF w, s

LEMMA FrontIsMeasured ==
  ASSUME NEW Fits, \A x, k : <<x, k>> \in Fits => x \in Counted, Inv(Fits), AtDueItem
  PROVE  /\ tbl.item[tbl.start_index[fl.i]] \in Counted
         /\ FlushedPacket(tbl.item[tbl.start_index[fl.i]]) \in Measured
<1> DEFINE x == tbl.item[tbl.start_index[fl.i]]
<1>1. x \in Counted
  BY FrontIsItem DEF Inv, StateOK, TypeInvariant
<1> QED
  BY <1>1, FlushedIsMeasured

LEMMA InitInv ==
  ASSUME NEW CONSTANT Fits, Init
  PROVE  Inv(Fits)
<1>1. StateOK(Item, Key, Measured, Fits)
  BY InitOK
<1>2. HeldItems(tbl) = {}
  BY DEF Init, NewTable, HeldItems
<1> QED
  BY <1>1, <1>2 DEF Inv, HeldOnce

(* What is new to the application is new to the table.                     *)
LEMMA GotMore ==
  ASSUME offered \subseteq Pkts, NEW p \in Pkts, p \notin offered, offered' = offered \cup {p}
  PROVE  Trim(p) \in Trimmed /\ Trim(p) \notin Got /\ Got' = Got \cup {Trim(p)}
  BY PktType DEF Got

LEMMA NextInv ==
  ASSUME NEW CONSTANT Fits, Timeless(Fits),
         \A m \in Candidates : MayTake(Fits, m),
         \A x, k : <<x, k>> \in Fits => x \in Counted,
         Inv(Fits), [Next]_vars
  PROVE  Inv(Fits)'
<1>1. /\ StateOK(Item, Key, Measured, Fits) /\ HeldOnce(tbl, Got)
      /\ Sound(tbl, Item, Key, Fits)
      /\ TypeInvariant(Item, Key, Measured)
  BY DEF Inv, StateOK
<1>2. ASSUME NEW p \in Pkts, Receive(p)
      PROVE  Inv(Fits)'
  <2> DEFINE m == Trim(p)
  <2>1. now \in Nat /\ offered \subseteq Pkts
    BY <1>1, CallAssumption DEF TypeInvariant
  <2>2. p \notin offered /\ offered' = offered \cup {p} /\ Offer(p, Reassemble(tbl, p, now))
    BY <1>2 DEF Receive, Offer
  <2>3. m \in Trimmed /\ m \notin Got /\ Got' = Got \cup {m}
    BY <2>1, <2>2, GotMore
  <2>4. Reassemble(tbl, p, now) = ReassembleTrimmed(tbl, m, now)
    BY DEF Reassemble
  <2> HIDE DEF m
  <2>5. Processed(m) => MayTake(Fits, m)
    BY <2>3 DEF Candidates
  <2>6. ASSUME NEW o \in Reassemble(tbl, p, now)
        PROVE  Sound(o.tbl, Item, Key, Fits) /\ HeldOnce(o.tbl, Got \cup {m})
    <3>1. o \in ReassembleTrimmed(tbl, m, now)
      BY <2>4
    <3>2. Sound(tbl, Item, Key, Fits) /\ HeldOnce(tbl, Got)
      BY <1>1
    <3> QED
      BY ONLY <2>1, <2>3, <2>5, <3>1, <3>2, Timeless(Fits), ReassembleSound
  <2>7. StateOK(Item, Key, Measured, Fits)'
    BY <1>1, <2>2, <2>6, OfferOK
  <2>8. HeldOnce(tbl', Got')
    BY <2>2, <2>3, <2>6 DEF Offer
  <2> QED
    BY <2>7, <2>8 DEF Inv
<1>3. CASE FlushItem
  <2> DEFINE j == tbl.start_index[fl.i]
  <2>2. FlushedPacket(tbl.item[j]) \in Measured
    BY <1>3, FrontIsMeasured DEF FlushItem
  <2>3. /\ StateOK(Item, Key, Measured, Fits)'
        /\ j \in HeldItems(tbl) /\ HeldItems(tbl') = HeldItems(tbl) \ {j}
        /\ \A k \in HeldItems(tbl') : tbl'.item[k] = tbl.item[k]
    BY <1>1, <1>3, <2>2, WriteFrontOK, NullAssumption DEF FlushItem
  <2>4. RunsTyped(tbl, Trimmed)
    BY <1>1, HeldAreTyped
  <2> HIDE DEF j
  <2>5. HeldOnce(tbl', Got)
    BY <1>1, <2>3, <2>4, FewerRuns
  <2>6. Got' = Got
    BY <1>3 DEF FlushItem, WriteFront, Got
  <2> QED
    BY <2>3, <2>5, <2>6 DEF Inv
<1>4. CASE FlushCalls \/ FlushNextFlow \/ FlushReturn \/ Tick \/ UNCHANGED vars
  <2>1. StateOK(Item, Key, Measured, Fits)' /\ tbl' = tbl /\ offered' = offered
    BY <1>1, <1>4, OtherStepsOK, NullAssumption
  <2>2. Got' = Got
    BY <2>1 DEF Got
  <2> QED
    BY <1>1, <2>1, <2>2 DEF Inv
<1> QED
  BY <1>2, <1>3, <1>4 DEF Next, FlushStep

-----------------------------------------------------------------------------
(* What holds of all packets.                                              *)

FitsFlow ==
  {xk \in Counted \X Key :
     \A n \in 1..Len(xk[1].inner.segs) : xk[1].inner.segs[n].conn = xk[2]}

LEMMA SetBack ==
  ASSUME NEW x \in Item
  PROVE  LET y == [x EXCEPT !.inner.start_time = 0]
         IN  /\ y \in Item /\ y.inner.segs = x.inner.segs /\ y.inner.len = x.inner.len
             /\ y.inner.nb_merged = x.inner.nb_merged /\ y.inner.sent_seq = x.inner.sent_seq
             /\ y.inner.ip_id = x.inner.ip_id /\ y.inner.is_atomic = x.inner.is_atomic
  BY DEF Item, TcpItem

LEMMA FlowTimeless == Timeless(FitsFlow)
<1> SUFFICES ASSUME NEW x \in Item, NEW k, <<x, k>> \in FitsFlow
             PROVE  <<[x EXCEPT !.inner.start_time = 0], k>> \in FitsFlow
  BY DEF Timeless
<1> DEFINE y == [x EXCEPT !.inner.start_time = 0]
<1>1. /\ y \in Item /\ y.inner.segs = x.inner.segs /\ y.inner.len = x.inner.len
      /\ y.inner.nb_merged = x.inner.nb_merged
  BY SetBack
<1> HIDE DEF y
<1>2. <<y, k>> \in FitsFlow
  BY <1>1 DEF FitsFlow, Counted, CountsPayload
<1> QED
  BY <1>2 DEF y

LEMMA FlowMayTake ==
  ASSUME NEW m \in Candidates
  PROVE  MayTake(FitsFlow, m)
<1> DEFINE T == {q \in Candidates : q.conn = m.conn}
<1>0. m \in Trimmed /\ m \in T /\ m.conn \in Key
  BY PktType DEF Candidates
<1>1. ASSUME NEW time \in Nat
      PROVE  <<NewItem(m, time), m.conn>> \in FitsFlow
  <2> DEFINE x == NewItem(m, time)
  <2>1. x \in Item /\ x.inner = NewTcpItem(m, time) /\ x.inner.segs = <<m>>
    BY <1>0, NewItemType
  <2>2. CountsPayload(NewTcpItem(m, time))
    BY <1>0, PktType, NewItemCounts
  <2>3. Len(<<m>>) = 1 /\ <<m>>[1] = m
    OBVIOUS
  <2> HIDE DEF x
  <2>4. \A n \in 1..Len(x.inner.segs) : x.inner.segs[n] \in T
    BY <1>0, <2>1, <2>3
  <2>5. x \in Counted
    BY <2>1, <2>2, <2>4 DEF Counted
  <2>6. <<x, m.conn>> \in FitsFlow
    BY <1>0, <2>4, <2>5 DEF FitsFlow
  <2> QED
    BY <2>6 DEF x
<1>2. ASSUME NEW x \in Item, NEW cmp \in Int, <<x, m.conn>> \in FitsFlow
      PROVE  <<MergeItem(x, m, cmp), m.conn>> \in FitsFlow
  <2> DEFINE y == MergeItem(x, m, cmp)
             s == x.inner.segs
             n == Len(s)
             u == Chained(s, m, cmp)
  <2>1. y \in Item /\ y.inner = MergeTwoTcpPackets(x.inner, m, cmp)
    BY <1>0, MergedTcp4Item
  <2>2. /\ x.inner \in TcpItem(Trimmed) /\ s \in MbufChain(Trimmed) /\ CountsPayload(x.inner)
        /\ \A k \in 1..n : s[k] \in T
    BY <1>2 DEF FitsFlow, Counted, Item, TcpItem
  <2>3. MergeTwoTcpPackets(x.inner, m, cmp).segs = u
    BY <1>0, <2>2, PktType, MergedItem
  <2>4. CountsPayload(MergeTwoTcpPackets(x.inner, m, cmp))
    BY <1>0, <2>2, PktType, MergeCounts
  <2> HIDE DEF y, s
  <2>5. \A k \in 1..Len(u) : u[k] \in T
    <3> HIDE DEF T
    <3> QED
      BY <1>0, <2>2, ChainedIn
  <2>6. y \in Counted
    BY <2>1, <2>3, <2>4, <2>5 DEF Counted
  <2>7. <<y, m.conn>> \in FitsFlow
    BY <1>0, <2>1, <2>3, <2>5, <2>6 DEF FitsFlow
  <2> QED
    BY <2>7 DEF y
<1>3. ASSUME NEW x \in Item, <<x, m.conn>> \in FitsFlow
      PROVE  <<MergeItem(x, m, CheckSeqOption(x.inner, m)), m.conn>> \in FitsFlow
  <2>1. CheckSeqOption(x.inner, m) \in Int
    BY CmpIsInt
  <2> QED
    BY <1>2, <1>3, <2>1
<1> QED
  BY <1>1, <1>3 DEF MayTake

LEMMA FlowInv == Spec => []Inv(FitsFlow)
<1>1. Init => Inv(FitsFlow)
  BY InitInv
<1>2. Inv(FitsFlow) /\ [Next]_vars => Inv(FitsFlow)'
  <2>1. \A x, k : <<x, k>> \in FitsFlow => x \in Counted
    BY DEF FitsFlow
  <2> QED
    BY <2>1, NextInv, FlowMayTake, FlowTimeless
<1> QED
  BY <1>1, <1>2, PTL DEF Spec

(* Every variable keeps its type; of flags, only those that are processed  *)
(* come out.                                                               *)
THEOREM TypeCorrect == Spec => []TypeOK
<1>1. Inv(FitsFlow) => TypeOK
  BY DEF Inv, StateOK, TypeInvariant, TypeOK, Measured
<1> QED
  BY <1>1, FlowInv, PTL

(* The table stays well linked, and every held packet is on the chain of   *)
(* one flow, the only one with its key.                                    *)
THEOREM TableStaysSound == Spec => [](TableWellLinked /\ NothingLeaks /\ OneFlowPerKey)
<1>1. Inv(FitsFlow) => TableWellLinked /\ NothingLeaks /\ OneFlowPerKey
  BY ReachedIsNoOrphan DEF Inv, StateOK, Sound, TableWellLinked, NothingLeaks, OneFlowPerKey
<1> QED
  BY <1>1, FlowInv, PTL

LEMMA CompleteCandidates ==
  ASSUME FramesComplete, NEW m \in Candidates
  PROVE  m.len = m.total /\ m.len \in Nat
<1>1. PICK p \in Pkts : m = Trim(p)
  BY DEF Candidates, Trimmed
<1>2. p \in [ id : Nat, conn : STRING, seq : 0..(SeqSpace - 1), len : Nat,
              total : Nat, ip_id : Nat, df : BOOLEAN, l4_len : Nat, opts : STRING,
              flags : SUBSET {"ACK", "PSH", "FIN", "SYN", "RST"} ]
  BY Tcp4Assumption
<1>3. CASE p.len > p.total
  BY <1>1, <1>2, <1>3 DEF Trim
<1>4. CASE ~(p.len > p.total)
  BY <1>1, <1>2, <1>4 DEF Trim, FramesComplete
<1> QED
  BY <1>3, <1>4

LEMMA CompleteChain ==
  ASSUME FramesComplete, NEW s \in MbufChain(Trimmed), \A n \in 1..Len(s) : s[n] \in Candidates
  PROVE  PayloadOf(s) = TotalOf(s) /\ (~(Len(s) > 1) => s[1].total = TotalOf(s))
<1>1. DOMAIN s = 1..Len(s) /\ Len(s) \in Nat \ {0}
  BY DEF MbufChain
<1>2. \A n \in DOMAIN s : s[n].len = s[n].total
  BY <1>1, CompleteCandidates
<1>3. [n \in DOMAIN s |-> s[n].len] = [n \in DOMAIN s |-> s[n].total]
  BY <1>2
<1>4. PayloadOf(s) = TotalOf(s)
  BY <1>3 DEF PayloadOf, TotalOf
<1>5. ASSUME ~(Len(s) > 1) PROVE s[1].total = TotalOf(s)
  <2>1. 1 \in 1..Len(s)
    BY <1>1
  <2>2. DOMAIN s = 1..1
    BY <1>1, <1>5
  <2>3. s[1] \in Candidates
    BY <2>1
  <2>4. s[1].total \in Nat
    BY <2>3, CompleteCandidates
  <2> DEFINE g == [n \in DOMAIN s |-> s[n].total]
  <2>5. g \in [1..1 -> Nat] /\ g[1] = s[1].total
    BY <2>2, <2>4
  <2> HIDE DEF g
  <2>6. Payload(g) = s[1].total
    BY <2>5, PayloadSingle
  <2> QED
    BY <2>6 DEF TotalOf, g
<1> QED
  BY <1>4, <1>5

(* Padding never becomes payload: what is kept as the length of an item    *)
(* and what flush writes is the payload the IP headers announced.          *)
THEOREM LengthsAlwaysAddUp ==
  ASSUME FramesComplete
  PROVE  Spec => []LengthsAddUp
<1>1. Inv(FitsFlow) => LengthsAddUp
  <2> SUFFICES ASSUME Inv(FitsFlow) PROVE LengthsAddUp
    OBVIOUS
  <2>1. ASSUME NEW i \in HeldItems(tbl)
        PROVE  tbl.item[i].inner.len = TotalOf(tbl.item[i].inner.segs)
    <3> DEFINE x == tbl.item[i]
    <3>1. PICK k \in Key \cup {NULL} : <<x, k>> \in FitsFlow
      BY HeldFits DEF Inv, StateOK
    <3> HIDE DEF x
    <3>2. /\ x.inner.segs \in MbufChain(Trimmed) /\ x.inner.len = PayloadOf(x.inner.segs)
          /\ \A n \in 1..Len(x.inner.segs) : x.inner.segs[n] \in Candidates
      BY <3>1 DEF FitsFlow, Counted, CountsPayload, Item, TcpItem
    <3>3. PayloadOf(x.inner.segs) = TotalOf(x.inner.segs)
      BY <3>2, CompleteChain
    <3> QED
      BY <3>2, <3>3 DEF x
  <2>2. ASSUME NEW n \in DOMAIN out PROVE out[n].ip_len = TotalOf(out[n].segs)
    <3>1. out \in Seq(Measured)
      BY DEF Inv, StateOK, TypeInvariant
    <3> DEFINE w == out[n]
    <3>2. w \in Measured
      BY <3>1
    <3> HIDE DEF w
    <3>3. /\ w.segs \in MbufChain(Trimmed)
          /\ w.ip_len = IF Len(w.segs) > 1 THEN PayloadOf(w.segs) ELSE w.segs[1].total
          /\ \A k \in 1..Len(w.segs) : w.segs[k] \in Candidates
      BY <3>2 DEF Measured, OutPkt
    <3>4. PayloadOf(w.segs) = TotalOf(w.segs) /\ (~(Len(w.segs) > 1) => w.segs[1].total = TotalOf(w.segs))
      BY <3>3, CompleteChain
    <3> QED
      BY <3>3, <3>4 DEF w
  <2> QED
    BY <2>1, <2>2 DEF LengthsAddUp
<1> QED
  BY <1>1, FlowInv, PTL

-----------------------------------------------------------------------------
(* What holds where IPv4 IDs tell the order of packets.  Without that the  *)
(* theorem below is false (README.md).                                     *)

(* An item describes a run of the connection of its flow.                  *)
FitsRun == {xk \in FitsFlow : RunOf(xk[1].inner, xk[2])}

LEMMA RunTimeless == Timeless(FitsRun)
<1> SUFFICES ASSUME NEW x \in Item, NEW k, <<x, k>> \in FitsRun
             PROVE  <<[x EXCEPT !.inner.start_time = 0], k>> \in FitsRun
  BY DEF Timeless
<1> DEFINE y == [x EXCEPT !.inner.start_time = 0]
<1>1. /\ y \in Item /\ y.inner.segs = x.inner.segs /\ y.inner.len = x.inner.len
      /\ y.inner.nb_merged = x.inner.nb_merged /\ y.inner.sent_seq = x.inner.sent_seq
      /\ y.inner.ip_id = x.inner.ip_id /\ y.inner.is_atomic = x.inner.is_atomic
  BY SetBack
<1>2. <<y, k>> \in FitsFlow
  BY FlowTimeless DEF FitsRun, Timeless
<1> HIDE DEF y
<1>3. RunOf(y.inner, k)
  BY <1>1 DEF FitsRun, RunOf, DescribesChain
<1>4. <<y, k>> \in FitsRun
  BY <1>2, <1>3 DEF FitsRun
<1> QED
  BY <1>4 DEF y

(* IPv6 has no IDs that could tell anything else.                          *)
LEMMA CandidatesCountUp ==
  ASSUME IdsTellOrder
  PROVE  IdsCountUp(Candidates)
<1>1. CASE Version = 6
  <2>1. ASSUME NEW m \in Candidates PROVE m.df
    <3>1. PICK p \in Pkts : m = Trim(p)
      BY DEF Candidates, Trimmed
    <3> QED
      BY <1>1, <3>1, Tcp4Assumption, Tcp6Assumption DEF Trim
  <2> QED
    BY <2>1 DEF IdsCountUp
<1> QED
  BY <1>1 DEF IdsTellOrder

(* A merge keeps the run, and puts m next to a packet it is adjacent to.   *)
LEMMA MergeKeepsRun ==
  ASSUME IdsTellOrder,
         NEW m \in Candidates, NEW x \in Item, <<x, m.conn>> \in FitsRun,
         \A n \in 1..Len(x.inner.segs) : x.inner.segs[n] # m,
         NEW cmp, cmp = CheckSeqOption(x.inner, m), cmp # 0
  PROVE  /\ <<MergeItem(x, m, cmp), m.conn>> \in FitsRun
         /\ cmp > 0 => Follows(x.inner.segs[Len(x.inner.segs)], m)
         /\ ~(cmp > 0) => Follows(m, x.inner.segs[1])
<1> DEFINE a == x.inner
           y == MergeItem(x, m, cmp)
<1>1. m \in Trimmed /\ TcpPackets(Trimmed) /\ cmp \in Int
  BY PktType, CmpIsInt DEF Candidates
<1>2. /\ <<x, m.conn>> \in FitsFlow /\ RunOf(a, m.conn)
      /\ a \in TcpItem(Trimmed)
      /\ \A n \in 1..Len(a.segs) : a.segs[n] \in Candidates
  BY DEF FitsRun, FitsFlow, Counted, Item
<1>3. IdAdjacent(a, m, cmp)
  BY <1>1, <1>2, CandidatesCountUp, CountedIdsAdjacent
<1>4. /\ RunOf(MergeTwoTcpPackets(a, m, cmp), m.conn)
      /\ cmp > 0 => Follows(a.segs[Len(a.segs)], m)
      /\ ~(cmp > 0) => Follows(m, a.segs[1])
  BY <1>1, <1>2, <1>3, MergeIsRun
<1>5. y.inner = MergeTwoTcpPackets(a, m, cmp)
  BY <1>1, MergedTcp4Item
<1>6. <<y, m.conn>> \in FitsFlow
  BY <1>2, FlowMayTake DEF MayTake
<1> HIDE DEF y
<1>7. <<y, m.conn>> \in FitsRun
  BY <1>4, <1>5, <1>6 DEF FitsRun
<1> QED
  BY <1>4, <1>7 DEF y

LEMMA RunMayTake ==
  ASSUME IdsTellOrder, NEW m \in Candidates
  PROVE  MayTake(FitsRun, m)
<1>1. ASSUME NEW time \in Nat
      PROVE  <<NewItem(m, time), m.conn>> \in FitsRun
  <2>1. m \in Trimmed
    BY DEF Candidates
  <2>2. <<NewItem(m, time), m.conn>> \in FitsFlow
    BY FlowMayTake DEF MayTake
  <2>3. NewItem(m, time).inner = NewTcpItem(m, time)
    BY <2>1, NewItemType
  <2>4. RunOf(NewTcpItem(m, time), m.conn)
    BY <2>1, PktType, NewItemIsRun
  <2> QED
    BY <2>2, <2>3, <2>4 DEF FitsRun
<1> QED
  BY <1>1, MergeKeepsRun DEF MayTake

LEMMA RunInv ==
  ASSUME IdsTellOrder
  PROVE  Spec => []Inv(FitsRun)
<1>1. Init => Inv(FitsRun)
  BY InitInv
<1>2. Inv(FitsRun) /\ [Next]_vars => Inv(FitsRun)'
  <2>1. \A x, k : <<x, k>> \in FitsRun => x \in Counted
    BY DEF FitsRun, FitsFlow
  <2> QED
    BY <2>1, NextInv, RunMayTake, RunTimeless
<1> QED
  BY <1>1, <1>2, PTL DEF Spec

-----------------------------------------------------------------------------
(* The refinement.                                                         *)

LEMMA ReceiveIsOffer ==
  ASSUME IdsTellOrder, Inv(FitsRun), NEW p \in Pkts, Receive(p)
  PROVE  Service!Offer(Trim(p))
<1> DEFINE m == Trim(p)
<1>1. /\ p \notin offered /\ offered' = offered \cup {p} /\ out' = out
      /\ Sound(tbl, Item, Key, FitsRun) /\ HeldOnce(tbl, Got) /\ now \in Nat
      /\ offered \subseteq Pkts
  BY CallAssumption DEF Receive, Offer, Inv, StateOK, TypeInvariant
<1>2. PICK o \in ReassembleTrimmed(tbl, m, now) :
         tbl' = o.tbl /\ back' = IF o.ret < 0 THEN back \cup {p} ELSE back
  BY DEF Receive, Offer, Reassemble
<1>3. m \in Trimmed /\ m \notin Got /\ Got' = Got \cup {m}
  BY <1>1, GotMore
<1>4. o.ret < 0 => {Trim(q) : q \in back}' = {Trim(q) : q \in back} \cup {m}
  BY <1>2
<1>5. ~(o.ret < 0) => {Trim(q) : q \in back}' = {Trim(q) : q \in back}
  BY <1>2
<1> HIDE DEF m
<1>6. Processed(m) => MayTake(FitsRun, m)
  BY <1>3, RunMayTake DEF Candidates
<1>7. TakenAsRun(FitsRun, tbl, o, m) /\ (o.ret # -1 => Processed(m))
  BY <1>1, <1>2, <1>3, <1>6, RunTimeless, ReassembleSound
<1>8. m \notin {Trim(q) : q \in offered} /\ {Trim(q) : q \in offered}' = {Trim(q) : q \in offered} \cup {m}
  BY <1>3 DEF Got
<1>9. CASE o.ret = -1 /\ HeldRuns(o.tbl) = HeldRuns(tbl)
  <2>1. HeldRuns(tbl)' = HeldRuns(tbl)
    <3>1. HeldRuns(tbl') = HeldRuns(tbl)
      BY <1>2, <1>9
    <3> QED
      BY <3>1 DEF HeldRuns, Segs
  <2>2. Service!Refuse(m)
    <3>1. {Trim(q) : q \in back'} = {Trim(q) : q \in back} \cup {m}
      BY <1>4, <1>9
    <3>2. [n \in DOMAIN out' |-> out'[n].segs] = [n \in DOMAIN out |-> out[n].segs]
      BY <1>1
    <3>3. {tbl'.item[i].inner.segs : i \in HeldItems(tbl')} = {tbl.item[i].inner.segs : i \in HeldItems(tbl)}
      BY <2>1 DEF HeldRuns, Segs
    <3> QED
      BY ONLY <3>1, <3>2, <3>3 DEF Service!Refuse
  <2> QED
    BY <1>8, <2>2 DEF Service!Offer, m
<1>10. CASE o.ret = 0 /\ HeldRuns(o.tbl) = HeldRuns(tbl) \cup {<<m>>}
  <2>1. HeldRuns(tbl)' = HeldRuns(tbl) \cup {<<m>>}
    <3>1. HeldRuns(tbl') = HeldRuns(tbl) \cup {<<m>>}
      BY <1>2, <1>10
    <3> QED
      BY <3>1 DEF HeldRuns, Segs
  <2>2. Service!Hold(m)
    <3>1. {Trim(q) : q \in back'} = {Trim(q) : q \in back}
      BY <1>5, <1>10
    <3>2. [n \in DOMAIN out' |-> out'[n].segs] = [n \in DOMAIN out |-> out[n].segs]
      BY <1>1
    <3>3. {tbl'.item[i].inner.segs : i \in HeldItems(tbl')} =
            {tbl.item[i].inner.segs : i \in HeldItems(tbl)} \cup {<<m>>}
      BY <2>1 DEF HeldRuns, Segs
    <3> QED
      BY ONLY <3>1, <3>2, <3>3 DEF Service!Hold
  <2> QED
    BY <1>8, <2>2 DEF Service!Offer, m
<1>11. ASSUME NEW i \in HeldItems(tbl), NEW x \in Item, o.ret = 1,
              x.inner.segs = Segs(tbl, i), <<x, m.conn>> \in FitsRun,
              NEW cmp, cmp = CheckSeqOption(x.inner, m), cmp # 0,
              HeldRuns(o.tbl) =
                (HeldRuns(tbl) \ {Segs(tbl, i)}) \cup {Chained(Segs(tbl, i), m, cmp)}
       PROVE  Service!Offer(Trim(p))
  <2> DEFINE b == Segs(tbl, i)
  <2>1. HeldRuns(tbl)' = (HeldRuns(tbl) \ {b}) \cup {Chained(b, m, cmp)}
    <3>1. HeldRuns(tbl') = (HeldRuns(tbl) \ {b}) \cup {Chained(b, m, cmp)}
      BY <1>2, <1>11
    <3> QED
      BY <3>1 DEF HeldRuns, Segs
  <2>2. b \in HeldRuns(tbl)
    BY DEF HeldRuns
  <2>3. IF cmp > 0 THEN Follows(b[Len(b)], m) ELSE Follows(m, b[1])
    <3>1. \A n \in 1..Len(x.inner.segs) : x.inner.segs[n] # m
      BY <1>1, <1>3, <1>11 DEF HeldOnce
    <3>2. m \in Candidates
      BY <1>3, <1>7, <1>11 DEF Candidates
    <3> QED
      BY <1>11, <3>1, <3>2, MergeKeepsRun
  <2> HIDE DEF b
  <2>4. \/ Follows(b[Len(b)], m) /\ HeldRuns(tbl)' = (HeldRuns(tbl) \ {b}) \cup {Append(b, m)}
        \/ Follows(m, b[1]) /\ HeldRuns(tbl)' = (HeldRuns(tbl) \ {b}) \cup {<<m>> \o b}
    BY <2>1, <2>3 DEF Chained
  <2>5. Service!Join(m)
    <3> DEFINE Runs(t) == {t.item[n].inner.segs : n \in HeldItems(t)}
    <3>1. {Trim(q) : q \in back'} = {Trim(q) : q \in back}
      BY <1>5, <1>11
    <3>2. [n \in DOMAIN out' |-> out'[n].segs] = [n \in DOMAIN out |-> out[n].segs]
      BY <1>1
    <3>3. /\ b \in Runs(tbl)
          /\ \/ Follows(b[Len(b)], m) /\ Runs(tbl') = (Runs(tbl) \ {b}) \cup {Append(b, m)}
             \/ Follows(m, b[1]) /\ Runs(tbl') = (Runs(tbl) \ {b}) \cup {<<m>> \o b}
      BY <2>2, <2>4 DEF HeldRuns, Segs
    <3> QED
      BY ONLY <3>1, <3>2, <3>3 DEF Service!Join
  <2> QED
    BY <1>8, <2>5 DEF Service!Offer, m
<1> QED
  BY <1>7, <1>9, <1>10, <1>11 DEF TakenAsRun

LEMMA FlushItemIsDeliver ==
  ASSUME Inv(FitsRun), FlushItem
  PROVE  Service!Deliver
<1> DEFINE j == tbl.start_index[fl.i]
           w == FlushedPacket(tbl.item[j])
           b == Segs(tbl, j)
<1>1. \A x, k : <<x, k>> \in FitsRun => x \in Counted
  BY DEF FitsRun, FitsFlow
<1>2. w \in Measured /\ w.segs = b /\ AtDueItem /\ WriteFront(w)
  BY <1>1, FrontIsMeasured, FlushedIsMeasured DEF FlushItem, Segs
<1>3. StateOK(Item, Key, Measured, FitsRun) /\ HeldOnce(tbl, Got)
  BY DEF Inv
<1>4. /\ j \in HeldItems(tbl) /\ HeldItems(tbl') = HeldItems(tbl) \ {j}
      /\ \A k \in HeldItems(tbl') : tbl'.item[k] = tbl.item[k]
  BY <1>2, <1>3, WriteFrontOK, NullAssumption
<1>5. RunsTyped(tbl, Trimmed)
  BY <1>3, HeldAreTyped DEF StateOK
<1> HIDE DEF j, w
<1>6. HeldRuns(tbl') = HeldRuns(tbl) \ {b}
  <2>1. ASSUME NEW u, HeldItems(u) = HeldItems(tbl) \ {j},
               \A k \in HeldItems(u) : u.item[k] = tbl.item[k]
        PROVE  HeldRuns(u) = HeldRuns(tbl) \ {Segs(tbl, j)}
    BY ONLY <2>1, <1>3, <1>4, <1>5, FewerRuns
  <2> QED
    BY <1>4, <2>1
<1>7. HeldRuns(tbl)' = HeldRuns(tbl) \ {b} /\ b \in HeldRuns(tbl)
  BY <1>4, <1>6 DEF HeldRuns, Segs
<1>8. out' = Append(out, w) /\ out \in Seq(Measured) /\ offered' = offered /\ back' = back
  BY <1>2, <1>3 DEF WriteFront, StateOK, TypeInvariant
<1>9. [n \in DOMAIN out' |-> out'[n].segs] = Append([n \in DOMAIN out |-> out[n].segs], b)
  BY <1>2, <1>8, AppendedRuns
<1> HIDE DEF b
<1> QED
  BY <1>7, <1>8, <1>9 DEF Service!Deliver, HeldRuns, Segs

(* The TCP types of plain packets implement the service: no packet is      *)
(* lost, doubled or reordered within a run, whatever PSH, FIN, padding,    *)
(* full tables and limits do, and what leaves is a run of packets each of  *)
(* which follows the one before it.                                        *)
THEOREM RefinesService ==
  ASSUME IdsTellOrder
  PROVE  Spec => ImplementsService
<1>1. Init => Service!Init
  <2> SUFFICES ASSUME Init PROVE Service!Init
    OBVIOUS
  <2>1. HeldItems(tbl) = {}
    BY DEF Init, NewTable, HeldItems
  <2>2. [n \in DOMAIN out |-> out[n].segs] = <<>>
    BY DEF Init
  <2>3. {Trim(p) : p \in offered} = {} /\ {Trim(p) : p \in back} = {}
    BY DEF Init
  <2> QED
    BY <2>1, <2>2, <2>3 DEF Service!Init
<1>2. Inv(FitsRun) /\ [Next]_vars => [Service!Next]_(Service!vars)
  <2> SUFFICES ASSUME Inv(FitsRun), [Next]_vars PROVE [Service!Next]_(Service!vars)
    OBVIOUS
  <2>1. ASSUME NEW p \in Pkts, Receive(p) PROVE Service!Next
    <3>1. Service!Offer(Trim(p)) /\ Trim(p) \in Trimmed
      BY <2>1, ReceiveIsOffer, PktType
    <3> QED
      BY <3>1 DEF Service!Next
  <2>2. CASE FlushItem
    BY <2>2, FlushItemIsDeliver DEF Service!Next
  <2>3. CASE FlushCalls \/ FlushNextFlow \/ FlushReturn \/ Tick \/ UNCHANGED vars
    <3>1. tbl' = tbl /\ offered' = offered /\ back' = back /\ out' = out
      BY <2>3 DEF FlushCalls, FlushCall, FlushNextFlow, FlushReturn, Tick, vars
    <3> QED
      BY <3>1 DEF Service!vars
  <2> QED
    BY <2>1, <2>2, <2>3 DEF Next, FlushStep
<1> QED
  BY <1>1, <1>2, RunInv, PTL DEF Spec, ImplementsService, Service!Spec
=============================================================================
