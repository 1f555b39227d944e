----------------------------- MODULE GroUdp4Proofs -----------------------------
(***************************************************************************)
(* Theorems about GroUdp4 for all three encapsulations, every table size,  *)
(* limit of a merge and set of fragments.                                  *)
(*                                                                         *)
(* What the code knows of an item (first offset, length, number, whether   *)
(* it has the last fragment) always describes the fragments chained to it: *)
(* that much needs nothing of the network.  That they are contiguous, what *)
(* comes out, and the order of the items of a flow rest on complete frames *)
(* and on fragments that do not overlap (FramesComplete, NoOverlap and     *)
(* others in GroUdp4), which each theorem names.                           *)
(***************************************************************************)
EXTENDS GroUdp4, GroTypeProofs

-----------------------------------------------------------------------------
(* Packets and items.                                                      *)

(* What a packet has, trimmed or not.                                      *)
LEMMA PktType ==
  /\ \A m \in Trimmed : /\ m.off \in Nat /\ m.len \in Nat /\ m.total \in Nat /\ m.mf \in BOOLEAN
                        /\ FlowKey(m) \in Key
  /\ \A p, q \in Pkts : Trim(p) = Trim(q) => p = q
  /\ \A p \in Pkts : Trim(p) \in Trimmed
<1>1. ASSUME NEW p \in Pkts
      PROVE  LET m == Trim(p)
             IN  /\ m.off \in Nat /\ m.len \in Nat /\ m.total \in Nat /\ m.mf \in BOOLEAN
                 /\ m.id = p.id
  <2>1. p \in [ id : Nat, dgram : STRING, off : Nat, mf : BOOLEAN, total : Nat, len : Nat ]
    BY UdpAssumption
  <2>2. CASE Encap = "None" /\ p.len > p.total
    BY <2>1, <2>2 DEF Trim
  <2>3. CASE ~(Encap = "None" /\ p.len > p.total)
    BY <2>1, <2>3 DEF Trim
  <2> QED
    BY <2>2, <2>3
<1>2. \A p, q \in Pkts : Trim(p) = Trim(q) => p = q
  BY <1>1, IdAssumption
<1>3. \A m \in Trimmed : FlowKey(m) \in Key
  BY DEF Key
<1> QED
  BY <1>1, <1>2, <1>3 DEF Trimmed

LEMMA CandidateType ==
  ASSUME NEW m \in Candidates
  PROVE  /\ m \in Trimmed /\ m.off \in Nat /\ m.len \in Nat \ {0} /\ m.total \in Nat
         /\ m.mf \in BOOLEAN /\ FlowKey(m) \in Key
  BY PktType DEF Candidates, Processed

(* Chains of fragments, one behind the other.                              *)
LEMMA ConcatChains ==
  ASSUME NEW S, NEW v \in MbufChain(S), NEW w \in MbufChain(S)
  PROVE  LET z == v \o w
             a == Len(v)
             b == Len(w)
         IN  /\ a \in Nat \ {0} /\ b \in Nat \ {0} /\ z \in MbufChain(S)
             /\ Len(z) = a + b /\ DOMAIN z = 1..(a + b) /\ DOMAIN v = 1..a /\ DOMAIN w = 1..b
             /\ \A n \in 1..a : z[n] = v[n] /\ v[n] \in S
             /\ \A n \in 1..b : z[a + n] = w[n] /\ w[n] \in S
<1>1. v \in Seq(S) /\ w \in Seq(S) /\ v # <<>> /\ w # <<>>
  BY DEF MbufChain
<1>2. Len(v) \in Nat \ {0} /\ Len(w) \in Nat \ {0}
  BY <1>1
<1>3. /\ v \o w \in Seq(S) /\ Len(v \o w) = Len(v) + Len(w)
      /\ DOMAIN v = 1..Len(v) /\ DOMAIN w = 1..Len(w)
      /\ \A n \in 1..Len(v) : (v \o w)[n] = v[n] /\ v[n] \in S
  BY <1>1
<1>4. \A n \in 1..Len(w) : (v \o w)[Len(v) + n] = w[n] /\ w[n] \in S
  BY <1>1, <1>2
<1>5. v \o w # <<>> /\ DOMAIN (v \o w) = 1..(Len(v) + Len(w))
  BY <1>2, <1>3
<1> QED
  BY <1>2, <1>3, <1>4, <1>5 DEF MbufChain

LensOf(s) == Payload([n \in DOMAIN s |-> s[n].len])

LEMMA ConcatLens ==
  ASSUME NEW v \in MbufChain(Trimmed), NEW w \in MbufChain(Trimmed)
  PROVE  LensOf(v \o w) = LensOf(v) + LensOf(w)
<1> DEFINE z == v \o w
           a == Len(v)
           b == Len(w)
           F == [n \in DOMAIN v |-> v[n].len]
           G == [n \in DOMAIN w |-> w[n].len]
           H == [n \in DOMAIN z |-> z[n].len]
<1>1. /\ a \in Nat \ {0} /\ b \in Nat \ {0} /\ z \in MbufChain(Trimmed)
      /\ DOMAIN z = 1..(a + b) /\ DOMAIN v = 1..a /\ DOMAIN w = 1..b
      /\ \A n \in 1..a : z[n] = v[n] /\ v[n] \in Trimmed
      /\ \A n \in 1..b : z[a + n] = w[n] /\ w[n] \in Trimmed
  BY ConcatChains
<1> HIDE DEF z, a, b
<1>2. \A n \in 1..(a + b) : z[n] \in Trimmed
  <2>1. \A n \in 1..(a + b) : n \in 1..a \/ (n - a \in 1..b /\ a + (n - a) = n)
    BY <1>1
  <2> QED
    BY <1>1, <2>1
<1>3. F \in [1..a -> Nat] /\ G \in [1..b -> Nat] /\ H \in [1..(a + b) -> Nat]
  BY <1>1, <1>2, PktType
<1>4. (\A n \in 1..a : H[n] = F[n]) /\ \A n \in 1..b : H[a + n] = G[n]
  BY <1>1
<1> HIDE DEF F, G, H
<1>5. Payload(H) = Payload(F) + Payload(G)
  <2>1. a \in Nat /\ b \in Nat
    BY <1>1
  <2> QED
    BY ONLY <1>3, <1>4, <2>1, PayloadConcat
<1> QED
  BY <1>5 DEF LensOf, F, G, H, z

LEMMA SingleLens ==
  ASSUME NEW m \in Trimmed
  PROVE  LensOf(<<m>>) = m.len
<1> DEFINE F == [n \in DOMAIN <<m>> |-> <<m>>[n].len]
<1>1. F \in [1..1 -> Nat] /\ F[1] = m.len
  BY PktType
<1> HIDE DEF F
<1>2. Payload(F) = m.len
  BY <1>1, PayloadSingle
<1> QED
  BY <1>2 DEF LensOf, F

LEMMA NewItemType ==
  ASSUME NEW m \in Trimmed, NEW time \in Nat
  PROVE  LET a == NewItem(m, time).inner
         IN  /\ NewItem(m, time) \in Item
             /\ a.segs = <<m>> /\ a.len = m.len /\ a.frag_offset = m.off
             /\ a.is_last_frag = ~m.mf /\ a.nb_merged = 1
<1>1. <<m>> \in MbufChain(Trimmed)
  BY DEF MbufChain
<1> QED
  BY <1>1, PktType DEF NewItem, Item

(* The mbuf chains of two items in the order the code puts them.           *)
InOrder(v, w, cmp) == IF cmp > 0 THEN v \o w ELSE w \o v

LEMMA MergedUdp4Item ==
  ASSUME NEW x \in Item, NEW y \in Item, NEW cmp \in Int
  PROVE  LET z == MergeTwoUdp4Packets(x, y, cmp)
         IN  /\ z \in Item
             /\ z.inner.segs = InOrder(x.inner.segs, y.inner.segs, cmp)
             /\ z.inner.len = x.inner.len + y.inner.len
             /\ z.inner.frag_offset = IF cmp > 0 THEN x.inner.frag_offset ELSE y.inner.frag_offset
             /\ z.inner.is_last_frag = (x.inner.is_last_frag \/ y.inner.is_last_frag)
             /\ z.inner.nb_merged = x.inner.nb_merged + 1
             /\ z.inner.start_time = x.inner.start_time
<1> DEFINE s == InOrder(x.inner.segs, y.inner.segs, cmp)
           l == x.inner.len + y.inner.len
           f == IF cmp > 0 THEN x.inner.frag_offset ELSE y.inner.frag_offset
           b == x.inner.is_last_frag \/ y.inner.is_last_frag
           n == x.inner.nb_merged + 1
           z == MergeTwoUdp4Packets(x, y, cmp)
<1>1. /\ x.inner.segs \in MbufChain(Trimmed) /\ y.inner.segs \in MbufChain(Trimmed)
      /\ x.inner.len \in Nat /\ y.inner.len \in Nat
      /\ x.inner.frag_offset \in Nat /\ y.inner.frag_offset \in Nat
      /\ x.inner.is_last_frag \in BOOLEAN /\ y.inner.is_last_frag \in BOOLEAN
      /\ x.inner.nb_merged \in Nat /\ x.inner.start_time \in Nat
  BY DEF Item
<1>2. s \in MbufChain(Trimmed)
  BY <1>1, ConcatChains DEF InOrder
<1>3. l \in Nat /\ f \in Nat /\ b \in BOOLEAN /\ n \in Nat
  BY <1>1
<1>4. z = [inner |-> [x.inner EXCEPT !.segs = s, !.len = l, !.frag_offset = f,
                                     !.is_last_frag = b, !.nb_merged = n]]
  BY DEF MergeTwoUdp4Packets, InOrder
<1> HIDE DEF s, l, f, b, n, z
<1>5. /\ z \in Item /\ z.inner.segs = s /\ z.inner.len = l /\ z.inner.frag_offset = f
      /\ z.inner.is_last_frag = b /\ z.inner.nb_merged = n
      /\ z.inner.start_time = x.inner.start_time
  BY <1>2, <1>3, <1>4 DEF Item
<1> QED
  BY <1>5 DEF s, l, f, b, n, z

LEMMA CheckIsInt ==
  ASSUME NEW x, NEW off, NEW len
  PROVE  CheckNeighbor(x, off, len) \in {-1, 0, 1}
  BY DEF CheckNeighbor

-----------------------------------------------------------------------------
(* Runs of fragments.                                                      *)

End(p) == p.off + p.len

(* Fragments of flow k, each of which starts where the one before it ends. *)
(* The plain type compares a packet by the length in its IP header: it is  *)
(* the length of what is chained only when frames are complete.            *)
Contiguous(s, k) ==
  /\ \A n \in 1..Len(s) : s[n] \in Candidates /\ FlowKey(s[n]) = k
  /\ FramesComplete => \A n \in 1..(Len(s) - 1) : s[n + 1].off = End(s[n])

HasLast(s) == \E n \in 1..Len(s) : ~s[n].mf

(* The inner part of an item describes the run chained to it.              *)
RunOf(a, k) ==
  /\ Contiguous(a.segs, k)
  /\ a.frag_offset = a.segs[1].off
  /\ FramesComplete => a.frag_offset + a.len = End(a.segs[Len(a.segs)])
  /\ a.len = LensOf(a.segs) /\ a.len > 0
  /\ a.is_last_frag <=> HasLast(a.segs)
  /\ a.nb_merged >= 1
  /\ a.nb_merged > 1 <=> Len(a.segs) > 1

FitsRun == {xk \in Item \X Key : RunOf(xk[1].inner, xk[2])}

LEMMA RunFits ==
  ASSUME NEW x, NEW k
  PROVE  <<x, k>> \in FitsRun <=> x \in Item /\ k \in Key /\ RunOf(x.inner, k)
  BY DEF FitsRun

(* z is run v with run w behind it.                                        *)
BothRuns(z, v, w, k) ==
  /\ Contiguous(z, k)
  /\ z[1] = v[1] /\ z[Len(z)] = w[Len(w)] /\ Len(z) > 1
  /\ HasLast(z) <=> HasLast(v) \/ HasLast(w)

LEMMA ConcatRun ==
  ASSUME NEW k, NEW v \in MbufChain(Trimmed), NEW w \in MbufChain(Trimmed),
         Contiguous(v, k), Contiguous(w, k), FramesComplete => w[1].off = End(v[Len(v)])
  PROVE  BothRuns(v \o w, v, w, k)
<1> DEFINE z == v \o w
           a == Len(v)
           b == Len(w)
<1>1. /\ a \in Nat \ {0} /\ b \in Nat \ {0} /\ Len(z) = a + b
      /\ \A n \in 1..a : z[n] = v[n]
      /\ \A n \in 1..b : z[a + n] = w[n]
  BY ConcatChains
<1>2. /\ \A n \in 1..a : v[n] \in Candidates /\ FlowKey(v[n]) = k
      /\ \A n \in 1..b : w[n] \in Candidates /\ FlowKey(w[n]) = k
      /\ FramesComplete => /\ \A n \in 1..(a - 1) : v[n + 1].off = End(v[n])
                           /\ \A n \in 1..(b - 1) : w[n + 1].off = End(w[n])
                           /\ w[1].off = End(v[a])
  BY DEF Contiguous
<1>3. /\ HasLast(v) <=> \E n \in 1..a : ~v[n].mf
      /\ HasLast(w) <=> \E n \in 1..b : ~w[n].mf
      /\ HasLast(z) <=> \E n \in 1..(a + b) : ~z[n].mf
  BY <1>1 DEF HasLast
<1> HIDE DEF z, a, b
<1>4. \A n \in 1..(a + b) : n \in 1..a \/ (n - a \in 1..b /\ a + (n - a) = n)
  BY <1>1
<1>5. ASSUME NEW n \in 1..(a + b) PROVE z[n] \in Candidates /\ FlowKey(z[n]) = k
  <2>1. CASE n \in 1..a
    BY <1>1, <1>2, <2>1
  <2>2. CASE n - a \in 1..b /\ a + (n - a) = n
    <3>1. z[n] = w[n - a]
      BY <1>1, <2>2
    <3> QED
      BY <1>2, <2>2, <3>1
  <2> QED
    BY <1>4, <2>1, <2>2
<1>6. ASSUME FramesComplete, NEW n \in 1..(a + b - 1) PROVE z[n + 1].off = End(z[n])
  <2>0. /\ \A i \in 1..(a - 1) : v[i + 1].off = End(v[i])
        /\ \A i \in 1..(b - 1) : w[i + 1].off = End(w[i])
        /\ w[1].off = End(v[a])
    BY <1>2, <1>6
  <2>1. CASE n \in 1..(a - 1)
    <3>1. n \in 1..a /\ n + 1 \in 1..a
      BY <1>1, <2>1
    <3> QED
      BY <1>1, <2>0, <2>1, <3>1
  <2>2. CASE n = a
    <3>1. a \in 1..a /\ 1 \in 1..b
      BY <1>1
    <3>2. z[a] = v[a] /\ z[a + 1] = w[1]
      BY <1>1, <3>1
    <3> QED
      BY <2>0, <2>2, <3>2
  <2>3. CASE n - a \in 1..(b - 1)
    <3>1. n - a \in 1..b /\ (n - a) + 1 \in 1..b /\ a + (n - a) = n /\ a + ((n - a) + 1) = n + 1
      BY <1>1, <2>3
    <3>2. z[n] = w[n - a] /\ z[n + 1] = w[(n - a) + 1]
      BY <1>1, <3>1
    <3> QED
      BY <2>0, <2>3, <3>2
  <2> QED
    BY <1>1, <2>1, <2>2, <2>3
<1>7. z[1] = v[1] /\ z[a + b] = w[b] /\ a + b > 1
  <2>1. 1 \in 1..a /\ b \in 1..b /\ a + b > 1
    BY <1>1
  <2> QED
    BY <1>1, <2>1
<1>8. HasLast(z) <=> HasLast(v) \/ HasLast(w)
  <2>1. (\A n \in 1..a : n \in 1..(a + b)) /\ \A n \in 1..b : a + n \in 1..(a + b)
    BY <1>1
  <2> QED
    BY <1>1, <1>3, <1>4, <2>1
<1>9. Contiguous(z, k)
  BY <1>1, <1>5, <1>6 DEF Contiguous
<1> QED
  BY <1>1, <1>7, <1>8, <1>9 DEF z, a, b, BothRuns

(* A fragment alone.                                                       *)
LEMMA NewItemIsRun ==
  ASSUME NEW m \in Candidates, NEW time \in Nat
  PROVE  <<NewItem(m, time), FlowKey(m)>> \in FitsRun
<1> DEFINE x == NewItem(m, time)
           a == x.inner
<1>1. /\ x \in Item /\ a.segs = <<m>> /\ a.len = m.len /\ a.frag_offset = m.off
      /\ a.is_last_frag = ~m.mf /\ a.nb_merged = 1
  BY CandidateType, NewItemType
<1>2. Len(<<m>>) = 1 /\ <<m>>[1] = m /\ FlowKey(m) \in Key /\ LensOf(<<m>>) = m.len
  BY CandidateType, SingleLens
<1> HIDE DEF x
<1>3. Contiguous(<<m>>, FlowKey(m))
  <2>1. \A n \in 1..1 : n = 1
    OBVIOUS
  <2>2. 1..(1 - 1) = {}
    OBVIOUS
  <2> QED
    BY <1>2, <2>1, <2>2, Zenon DEF Contiguous
<1>4. HasLast(<<m>>) <=> ~m.mf
  <2>1. (\A n \in 1..1 : n = 1) /\ 1 \in 1..1
    OBVIOUS
  <2> QED
    BY <1>2, <2>1, Zenon DEF HasLast
<1>5. RunOf(a, FlowKey(m))
  <2>1. /\ a.frag_offset = a.segs[1].off
        /\ a.frag_offset + a.len = End(a.segs[Len(a.segs)])
        /\ a.len = LensOf(a.segs) /\ Contiguous(a.segs, FlowKey(m))
    BY <1>1, <1>2, <1>3 DEF End
  <2>2. a.is_last_frag <=> HasLast(a.segs)
    BY <1>1, <1>4
  <2>3. a.nb_merged >= 1 /\ (a.nb_merged > 1 <=> Len(a.segs) > 1) /\ a.len > 0
    BY <1>1, <1>2, CandidateType
  <2> QED
    BY <2>1, <2>2, <2>3 DEF RunOf
<1> QED
  BY <1>1, <1>2, <1>5, RunFits DEF x

(* Two runs of a flow of which the code says that they are neighbours: the *)
(* item they are merged into describes their chain.                        *)
Joined(x, y, cmp) ==
  FramesComplete =>
    IF cmp > 0 THEN y.inner.segs[1].off = End(x.inner.segs[Len(x.inner.segs)])
    ELSE x.inner.segs[1].off = End(y.inner.segs[Len(y.inner.segs)])

LEMMA UniteIsRun ==
  ASSUME NEW k, NEW x, NEW y, <<x, k>> \in FitsRun, <<y, k>> \in FitsRun,
         NEW cmp \in {-1, 1},
         FramesComplete => cmp = CheckNeighbor(x, y.inner.frag_offset, y.inner.len)
  PROVE  /\ <<MergeTwoUdp4Packets(x, y, cmp), k>> \in FitsRun
         /\ Joined(x, y, cmp)
<1> DEFINE a == x.inner
           b == y.inner
           z == MergeTwoUdp4Packets(x, y, cmp)
           s == InOrder(a.segs, b.segs, cmp)
<1>1. /\ x \in Item /\ y \in Item /\ k \in Key /\ cmp \in Int /\ cmp \in {-1, 1}
      /\ RunOf(a, k) /\ RunOf(b, k)
  BY RunFits
<1>2. /\ a.segs \in MbufChain(Trimmed) /\ b.segs \in MbufChain(Trimmed)
      /\ a.len \in Nat /\ b.len \in Nat /\ a.frag_offset \in Nat /\ b.frag_offset \in Nat
      /\ a.nb_merged \in Nat /\ b.nb_merged \in Nat
  BY <1>1 DEF Item
<1>3. /\ z \in Item /\ z.inner.segs = s
      /\ z.inner.len = a.len + b.len
      /\ z.inner.frag_offset = IF cmp > 0 THEN a.frag_offset ELSE b.frag_offset
      /\ z.inner.is_last_frag = (a.is_last_frag \/ b.is_last_frag)
      /\ z.inner.nb_merged = a.nb_merged + 1
  BY <1>1, MergedUdp4Item
<1>4. /\ Contiguous(a.segs, k) /\ Contiguous(b.segs, k)
      /\ a.frag_offset = a.segs[1].off /\ b.frag_offset = b.segs[1].off
      /\ FramesComplete => /\ a.frag_offset + a.len = End(a.segs[Len(a.segs)])
                           /\ b.frag_offset + b.len = End(b.segs[Len(b.segs)])
      /\ a.len = LensOf(a.segs) /\ b.len = LensOf(b.segs) /\ a.len > 0
      /\ a.is_last_frag <=> HasLast(a.segs)
      /\ b.is_last_frag <=> HasLast(b.segs)
      /\ a.nb_merged >= 1
  BY <1>1 DEF RunOf
<1>5. FramesComplete /\ cmp = 1 => b.frag_offset = a.frag_offset + a.len
  BY DEF CheckNeighbor
<1>6. FramesComplete /\ cmp = -1 => b.frag_offset + b.len = a.frag_offset
  BY DEF CheckNeighbor
<1>7. /\ Contiguous(s, k) /\ Len(s) > 1
      /\ s[1] = IF cmp > 0 THEN a.segs[1] ELSE b.segs[1]
      /\ s[Len(s)] = IF cmp > 0 THEN b.segs[Len(b.segs)] ELSE a.segs[Len(a.segs)]
      /\ LensOf(s) = a.len + b.len
      /\ HasLast(s) <=> HasLast(a.segs) \/ HasLast(b.segs)
      /\ Joined(x, y, cmp)
  <2> HIDE DEF a, b
  <2>1. CASE cmp = 1
    <3>1. /\ FramesComplete => b.segs[1].off = End(a.segs[Len(a.segs)])
          /\ s = a.segs \o b.segs
      BY <1>4, <1>5, <2>1 DEF InOrder
    <3>2. LensOf(s) = LensOf(a.segs) + LensOf(b.segs)
      BY <1>2, <3>1, ConcatLens
    <3>3. BothRuns(a.segs \o b.segs, a.segs, b.segs, k)
      BY <1>2, <1>4, <3>1, ConcatRun
    <3>5. Joined(x, y, cmp)
      BY <2>1, <3>1 DEF Joined, a, b
    <3>6. cmp > 0 <=> cmp = 1
      BY <2>1
    <3> HIDE DEF s
    <3>7. /\ Contiguous(s, k) /\ Len(s) > 1 /\ s[1] = a.segs[1] /\ s[Len(s)] = b.segs[Len(b.segs)]
          /\ HasLast(s) <=> HasLast(a.segs) \/ HasLast(b.segs)
      BY <3>1, <3>3 DEF BothRuns
    <3>8. LensOf(s) = a.len + b.len
      BY <1>4, <3>2
    <3> QED
      BY <2>1, <3>5, <3>6, <3>7, <3>8
  <2>2. CASE cmp = -1
    <3>1. /\ FramesComplete => a.segs[1].off = End(b.segs[Len(b.segs)])
          /\ s = b.segs \o a.segs
      BY <1>4, <1>6, <2>2 DEF InOrder
    <3>2. LensOf(s) = LensOf(b.segs) + LensOf(a.segs)
      BY <1>2, <3>1, ConcatLens
    <3>3. BothRuns(b.segs \o a.segs, b.segs, a.segs, k)
      BY <1>2, <1>4, <3>1, ConcatRun
    <3>4. b.len + a.len = a.len + b.len
      BY <1>2
    <3>5. Joined(x, y, cmp)
      BY <2>2, <3>1 DEF Joined, a, b
    <3>6. cmp > 0 <=> cmp = 1
      BY <2>2
    <3> HIDE DEF s
    <3>7. /\ Contiguous(s, k) /\ Len(s) > 1 /\ s[1] = b.segs[1] /\ s[Len(s)] = a.segs[Len(a.segs)]
          /\ HasLast(s) <=> HasLast(a.segs) \/ HasLast(b.segs)
      BY <3>1, <3>3 DEF BothRuns
    <3>8. LensOf(s) = a.len + b.len
      BY <1>4, <3>2, <3>4
    <3> QED
      BY <2>2, <3>5, <3>6, <3>7, <3>8
  <2> QED
    BY <1>1, <2>1, <2>2
<1> HIDE DEF s, z, a, b
<1>8. z.inner.frag_offset = s[1].off
  BY <1>1, <1>3, <1>4, <1>7
<1>9. FramesComplete => z.inner.frag_offset + z.inner.len = End(s[Len(s)])
  <2>1. CASE cmp = 1
    <3>1. FramesComplete => a.frag_offset + (a.len + b.len) = b.frag_offset + b.len
      BY <1>2, <1>5, <2>1
    <3> QED
      BY <1>3, <1>4, <1>7, <2>1, <3>1
  <2>2. CASE cmp = -1
    <3>1. FramesComplete => b.frag_offset + (a.len + b.len) = a.frag_offset + a.len
      BY <1>2, <1>6, <2>2
    <3> QED
      BY <1>3, <1>4, <1>7, <2>2, <3>1
  <2> QED
    BY <1>1, <2>1, <2>2
<1>10. z.inner.is_last_frag <=> HasLast(s)
  BY <1>3, <1>4, <1>7
<1>11. z.inner.nb_merged >= 1 /\ z.inner.nb_merged > 1 /\ z.inner.len > 0
  BY <1>2, <1>3, <1>4
<1>12. RunOf(z.inner, k)
  BY <1>3, <1>7, <1>8, <1>9, <1>10, <1>11 DEF RunOf
<1> QED
  BY <1>1, <1>3, <1>7, <1>12, RunFits DEF z

(* When frames are complete, the length a fragment has after the trimming  *)
(* is the one its IP header announced.                                     *)
LEMMA CompleteCandidates ==
  ASSUME FramesComplete, NEW m \in Candidates
  PROVE  m.len = m.total
<1>1. PICK p \in Pkts : m = Trim(p)
  BY DEF Candidates, Trimmed
<1>2. /\ p \in [ id : Nat, dgram : STRING, off : Nat, mf : BOOLEAN, total : Nat, len : Nat ]
      /\ p.total <= p.len
      /\ Encap # "None" => p.len = p.total
  BY UdpAssumption, TunnelAssumption DEF FramesComplete
<1>3. CASE Encap = "None" /\ p.len > p.total
  BY <1>1, <1>2, <1>3 DEF Trim
<1>4. CASE ~(Encap = "None" /\ p.len > p.total)
  BY <1>1, <1>2, <1>4 DEF Trim
<1> QED
  BY <1>3, <1>4

LEMMA ComparedLength ==
  ASSUME FramesComplete, NEW m \in Candidates
  PROVE  IpDl(m) = m.len
  BY CompleteCandidates DEF IpDl

-----------------------------------------------------------------------------
(* A call of reassemble.                                                   *)

(* No held chain has m.                                                    *)
Fresh(t, m) == \A i \in HeldItems(t) : \A n \in 1..Len(Segs(t, i)) : Segs(t, i)[n] # m

(* m was merged into an item of its flow.                                  *)
MergedInto(t, o, m, time, i) ==
  LET x   == t.item[i]
      cmp == CheckNeighbor(x, m.off, IpDl(m))
  IN  /\ i \in HeldItems(t)
      /\ <<x, FlowKey(m)>> \in FitsRun
      /\ cmp # 0
      /\ o.ret = 1
      /\ OneReplaced(t, o.tbl, i, MergeTwoUdp4Packets(x, NewItem(m, time), cmp))

Taken(t, o, m, time) ==
  RefusedOrHeld(t, o, NewItem(m, time)) \/ \E i \in HeldItems(t) : MergedInto(t, o, m, time, i)

(* z is item x with m merged into it.                                      *)
MergedRun(z, x, m, cmp) ==
  /\ z \in Item /\ <<z, FlowKey(m)>> \in FitsRun
  /\ z.inner.segs = Chained(x.inner.segs, m, cmp)
  /\ FramesComplete => /\ cmp > 0 => m.off = End(x.inner.segs[Len(x.inner.segs)])
                       /\ ~(cmp > 0) => x.inner.segs[1].off = End(m)

LEMMA JoinIsRun ==
  ASSUME NEW m \in Candidates, NEW time \in Nat, NEW x, <<x, FlowKey(m)>> \in FitsRun,
         NEW cmp, cmp = CheckNeighbor(x, m.off, IpDl(m)), cmp # 0
  PROVE  MergedRun(MergeTwoUdp4Packets(x, NewItem(m, time), cmp), x, m, cmp)
<1> DEFINE y == NewItem(m, time)
           k == FlowKey(m)
           z == MergeTwoUdp4Packets(x, y, cmp)
<1>1. <<y, k>> \in FitsRun
  BY NewItemIsRun
<1>2. /\ y \in Item /\ y.inner.segs = <<m>> /\ y.inner.len = m.len /\ y.inner.frag_offset = m.off
      /\ m \in Trimmed /\ x \in Item /\ cmp \in Int
  BY CandidateType, NewItemType, RunFits, CheckIsInt
<1> HIDE DEF y, k
<1>3. cmp \in {-1, 1} /\ (FramesComplete => cmp = CheckNeighbor(x, y.inner.frag_offset, y.inner.len))
  BY <1>2, CheckIsInt, ComparedLength
<1>4. <<z, k>> \in FitsRun /\ Joined(x, y, cmp)
  BY <1>1, <1>3, UniteIsRun DEF k
<1>5. z \in Item /\ z.inner.segs = InOrder(x.inner.segs, y.inner.segs, cmp)
  BY <1>2, MergedUdp4Item
<1>6. x.inner.segs \in Seq(Trimmed)
  BY <1>2 DEF Item, MbufChain
<1>7. InOrder(x.inner.segs, <<m>>, cmp) = Chained(x.inner.segs, m, cmp)
  <2> DEFINE s == x.inner.segs
  <2>1. s \o <<m>> = Append(s, m)
    BY <1>2, <1>6
  <2> QED
    BY <2>1 DEF InOrder, Chained
<1>8. Len(<<m>>) = 1 /\ <<m>>[1] = m
  OBVIOUS
<1>9. FramesComplete => /\ cmp > 0 => m.off = End(x.inner.segs[Len(x.inner.segs)])
                        /\ ~(cmp > 0) => x.inner.segs[1].off = End(m)
  BY <1>2, <1>4, <1>8 DEF Joined
<1> HIDE DEF z
<1>10. z \in Item /\ <<z, k>> \in FitsRun /\ z.inner.segs = Chained(x.inner.segs, m, cmp)
  BY <1>2, <1>4, <1>5, <1>7
<1> QED
  BY <1>9, <1>10 DEF y, z, k, MergedRun

LEMMA MergeAtSound ==
  ASSUME NEW t, Sound(t, Item, Key, FitsRun), NEW f \in LiveFlows(t),
         NEW m \in Candidates, t.key[f] = FlowKey(m), NEW time \in Nat,
         NEW cur \in Chain(t, t.start_index[f]),
         CheckNeighbor(t.item[cur], m.off, IpDl(m)) # 0,
         NEW o \in MergeAt(t, f, cur, m, time)
  PROVE  Sound(o.tbl, Item, Key, FitsRun) /\ Taken(t, o, m, time)
<1> DEFINE x == t.item[cur]
           cmp == CheckNeighbor(x, m.off, IpDl(m))
           y == MergeTwoUdp4Packets(x, NewItem(m, time), cmp)
<1>1. /\ t.start_index[f] \in HeldItems(t)
      /\ Chain(t, t.start_index[f]) \subseteq HeldItems(t)
  BY ChainIsHeld DEF Sound, WellLinked, NoDangling
<1>2. cur \in HeldItems(t) /\ <<x, FlowKey(m)>> \in FitsRun
  BY <1>1 DEF Sound, FlowsFit
<1>3. y \in Item /\ <<y, t.key[f]>> \in FitsRun
  BY <1>2, JoinIsRun DEF MergedRun
<1>4. CASE o = Outcome(1, SetItem(t, cur, y))
  <2> HIDE DEF y
  <2>1. Sound(SetItem(t, cur, y), Item, Key, FitsRun) /\ OneReplaced(t, SetItem(t, cur, y), cur, y)
    BY <1>3, MergeSound, NullAssumption
  <2>2. o.ret = 1 /\ o.tbl = SetItem(t, cur, y)
    BY <1>4 DEF Outcome
  <2>3. MergedInto(t, o, m, time, cur)
    BY <1>2, <2>1, <2>2 DEF MergedInto, y
  <2> QED
    BY <1>2, <2>1, <2>2, <2>3 DEF Taken
<1>5. CASE \E prev \in PrevOf(t, t.start_index[f], cur) : o \in StoreInFlow(t, NewItem(m, time), prev)
  <2>1. PrevOf(t, t.start_index[f], cur) \subseteq Chain(t, t.start_index[f])
    BY DEF PrevOf
  <2>2. NewItem(m, time) \in Item /\ <<NewItem(m, time), t.key[f]>> \in FitsRun
    BY NewItemIsRun, RunFits
  <2> QED
    BY <1>5, <2>1, <2>2, StoreInFlowSound, NullAssumption DEF Taken
<1> QED
  BY <1>4, <1>5 DEF MergeAt

LEMMA StoreBeforeSound ==
  ASSUME NEW t, Sound(t, Item, Key, FitsRun), NEW f \in LiveFlows(t),
         NEW cur \in Chain(t, t.start_index[f]),
         NEW x, <<x, t.key[f]>> \in FitsRun, NEW o \in StoreBefore(t, f, cur, x)
  PROVE  Sound(o.tbl, Item, Key, FitsRun) /\ RefusedOrHeld(t, o, x)
<1>1. x \in Item
  BY RunFits
<1>2. CASE cur = t.start_index[f]
  <2>1. CASE o = Outcome(-1, t)
    BY <2>1 DEF Outcome, RefusedOrHeld, SameItems
  <2>2. CASE \E i \in FindEmptyItem(t) : o = Outcome(0, PutFirst(t, f, i, x))
    <3>1. PICK i \in FindEmptyItem(t) : o = Outcome(0, PutFirst(t, f, i, x))
      BY <2>2
    <3>2. Sound(PutFirst(t, f, i, x), Item, Key, FitsRun) /\ OneMore(t, PutFirst(t, f, i, x), x)
      BY <1>1, StoreAtFrontSound, NullAssumption
    <3> QED
      BY <3>1, <3>2 DEF Outcome, RefusedOrHeld
  <2> QED
    BY <1>2, <2>1, <2>2 DEF StoreBefore, StoreFirst
<1>3. CASE cur # t.start_index[f]
  <2>1. PrevOf(t, t.start_index[f], cur) \subseteq Chain(t, t.start_index[f])
    BY DEF PrevOf
  <2> QED
    BY <1>1, <1>3, <2>1, StoreInFlowSound, NullAssumption DEF StoreBefore
<1> QED
  BY <1>2, <1>3

(* What the walk through flow f may do.                                    *)
IsNeighborIn(t, k, m) == CheckNeighbor(t.item[k], m.off, IpDl(m)) # 0

Stops(t, f, m) ==
  {k \in Chain(t, t.start_index[f]) :
     IsNeighborIn(t, k, m) \/ m.off < t.item[k].inner.frag_offset}

LEMMA WalkCases ==
  ASSUME NEW t, NEW f, NEW m, NEW time, NEW o \in ProcessInFlow(t, f, m, time)
  PROVE  \/ /\ Stops(t, f, m) = {}
            /\ \E last \in LastOf(t, t.start_index[f]) : o \in StoreInFlow(t, NewItem(m, time), last)
         \/ \E cur \in FirstOf(t, Stops(t, f, m)) :
               \/ IsNeighborIn(t, cur, m) /\ o \in MergeAt(t, f, cur, m, time)
               \/ ~IsNeighborIn(t, cur, m) /\ o \in StoreBefore(t, f, cur, NewItem(m, time))
  BY DEF ProcessInFlow, Stops, IsNeighborIn

LEMMA ProcessInFlowSound ==
  ASSUME NEW t, Sound(t, Item, Key, FitsRun), NEW f \in LiveFlows(t),
         NEW m \in Candidates, t.key[f] = FlowKey(m), NEW time \in Nat,
         NEW o \in ProcessInFlow(t, f, m, time)
  PROVE  Sound(o.tbl, Item, Key, FitsRun) /\ Taken(t, o, m, time)
<1>1. NewItem(m, time) \in Item /\ <<NewItem(m, time), t.key[f]>> \in FitsRun
  BY NewItemIsRun, RunFits
<1>2. /\ LastOf(t, t.start_index[f]) \subseteq Chain(t, t.start_index[f])
      /\ FirstOf(t, Stops(t, f, m)) \subseteq Chain(t, t.start_index[f])
  BY DEF LastOf, FirstOf, Stops
<1>3. CASE \E last \in LastOf(t, t.start_index[f]) : o \in StoreInFlow(t, NewItem(m, time), last)
  BY <1>1, <1>2, <1>3, StoreInFlowSound, NullAssumption DEF Taken
<1>4. ASSUME NEW cur \in Chain(t, t.start_index[f]), IsNeighborIn(t, cur, m),
             o \in MergeAt(t, f, cur, m, time)
      PROVE  Sound(o.tbl, Item, Key, FitsRun) /\ Taken(t, o, m, time)
  BY <1>4, MergeAtSound DEF IsNeighborIn
<1>5. ASSUME NEW cur \in Chain(t, t.start_index[f]),
             o \in StoreBefore(t, f, cur, NewItem(m, time))
      PROVE  Sound(o.tbl, Item, Key, FitsRun) /\ Taken(t, o, m, time)
  BY <1>1, <1>5, StoreBeforeSound DEF Taken
<1> QED
  BY <1>2, <1>3, <1>4, <1>5, WalkCases

(* What a call does to the runs held.                                      *)
TakenAsRun(t, o, m) ==
  \/ o.ret = -1 /\ HeldRuns(o.tbl) = HeldRuns(t)
  \/ o.ret = 0 /\ HeldRuns(o.tbl) = HeldRuns(t) \cup {<<m>>}
  \/ /\ o.ret = 1
     /\ m \in Candidates
     /\ \E i \in HeldItems(t), x \in Item :
          LET cmp == CheckNeighbor(x, m.off, IpDl(m))
          IN  /\ x.inner.segs = Segs(t, i) /\ <<x, FlowKey(m)>> \in FitsRun /\ cmp # 0
              /\ HeldRuns(o.tbl) =
                   (HeldRuns(t) \ {Segs(t, i)}) \cup {Chained(Segs(t, i), m, cmp)}

LEMMA HeldAreTyped ==
  ASSUME NEW Fits, NEW t, Sound(t, Item, Key, Fits)
  PROVE  RunsTyped(t, Trimmed)
<1>1. \A i \in HeldItems(t) : t.item[i] \in Item
  BY DEF Sound, TableOf, HeldItems
<1> QED
  BY <1>1 DEF RunsTyped, Segs, Item

LEMMA TakenRuns ==
  ASSUME NEW t, NEW S, Sound(t, Item, Key, FitsRun), HeldOnce(t, S),
         NEW m \in Candidates, m \notin S, NEW time \in Nat, NEW o, Taken(t, o, m, time)
  PROVE  HeldOnce(o.tbl, S \cup {m}) /\ TakenAsRun(t, o, m)
<1>1. RunsTyped(t, Trimmed) /\ m \in Trimmed
  BY HeldAreTyped, CandidateType
<1>2. CASE o.ret = -1 /\ SameItems(t, o.tbl)
  <2>1. HeldItems(o.tbl) = HeldItems(t) /\ \A i \in HeldItems(t) : Segs(o.tbl, i) = Segs(t, i)
    BY <1>2 DEF SameItems, Segs
  <2>2. HeldRuns(o.tbl) = HeldRuns(t) /\ HeldOnce(o.tbl, S)
    BY <2>1, SameRuns
  <2> QED
    BY <1>2, <2>2, MoreOffered DEF TakenAsRun
<1>3. CASE o.ret = 0 /\ OneMore(t, o.tbl, NewItem(m, time))
  <2>1. NewItem(m, time).inner.segs = <<m>>
    BY <1>1, NewItemType
  <2>2. HeldRuns(o.tbl) = HeldRuns(t) \cup {<<m>>} /\ HeldOnce(o.tbl, S \cup {m})
    BY <1>1, <1>3, <2>1, MoreRuns
  <2> QED
    BY <1>3, <2>2 DEF TakenAsRun
<1>4. CASE \E i \in HeldItems(t) : MergedInto(t, o, m, time, i)
  <2>1. PICK i \in HeldItems(t) : MergedInto(t, o, m, time, i)
    BY <1>4
  <2> DEFINE x == t.item[i]
             cmp == CheckNeighbor(x, m.off, IpDl(m))
             y == MergeTwoUdp4Packets(x, NewItem(m, time), cmp)
  <2>2. /\ <<x, FlowKey(m)>> \in FitsRun /\ cmp # 0 /\ o.ret = 1 /\ OneReplaced(t, o.tbl, i, y)
        /\ x \in Item /\ cmp \in Int
    BY <2>1, RunFits, CheckIsInt DEF MergedInto
  <2>3. y.inner.segs = Chained(Segs(t, i), m, cmp)
    <3>1. MergedRun(y, x, m, cmp)
      BY <2>2, JoinIsRun
    <3> QED
      BY <3>1 DEF MergedRun, Segs
  <2> HIDE DEF y, cmp
  <2>4. /\ HeldRuns(o.tbl) = (HeldRuns(t) \ {Segs(t, i)}) \cup {Chained(Segs(t, i), m, cmp)}
        /\ HeldOnce(o.tbl, S \cup {m})
    BY <1>1, <2>2, <2>3, JoinedRuns
  <2> QED
    BY <2>2, <2>4 DEF TakenAsRun, Segs, cmp
<1> QED
  BY <1>2, <1>3, <1>4 DEF RefusedOrHeld, Taken

LEMMA ReassembleSound ==
  ASSUME NEW t, Sound(t, Item, Key, FitsRun), NEW S, HeldOnce(t, S),
         NEW m \in Trimmed, m \notin S, NEW time \in Nat,
         NEW o \in ReassembleTrimmed(t, m, time)
  PROVE  /\ Sound(o.tbl, Item, Key, FitsRun)
         /\ HeldOnce(o.tbl, S \cup {m})
         /\ TakenAsRun(t, o, m)
<1> DEFINE Good == /\ Sound(o.tbl, Item, Key, FitsRun)
                   /\ HeldOnce(o.tbl, S \cup {m})
                   /\ TakenAsRun(t, o, m)
<1>1. CASE o = Outcome(-1, t)
  BY <1>1, MoreOffered DEF Outcome, TakenAsRun
<1>2. ASSUME Processed(m), FindFlow(t, FlowKey(m)) = {},
             o \in StoreInNewFlow(t, NewItem(m, time), FlowKey(m))
      PROVE  Good
  <2>1. m \in Candidates
    BY <1>2 DEF Candidates
  <2>2. /\ NewItem(m, time) \in Item /\ FlowKey(m) \in Key
        /\ <<NewItem(m, time), FlowKey(m)>> \in FitsRun
    BY <2>1, NewItemIsRun, RunFits
  <2>3. Sound(o.tbl, Item, Key, FitsRun) /\ RefusedOrHeld(t, o, NewItem(m, time))
    BY <1>2, <2>2, StoreInNewFlowSound, NullAssumption
  <2> QED
    BY <2>1, <2>3, TakenRuns DEF Taken
<1>3. ASSUME Processed(m), NEW f \in LiveFlows(t), t.key[f] = FlowKey(m),
             o \in ProcessInFlow(t, f, m, time)
      PROVE  Good
  <2>1. m \in Candidates
    BY <1>3 DEF Candidates
  <2>2. Sound(o.tbl, Item, Key, FitsRun) /\ Taken(t, o, m, time)
    BY <1>3, <2>1, ProcessInFlowSound
  <2> QED
    BY <2>1, <2>2, TakenRuns
<1> QED
  BY <1>1, <1>2, <1>3 DEF ReassembleTrimmed, FindFlow

-----------------------------------------------------------------------------
(* The invariant.                                                          *)

(* What flush may write.                                                   *)
Flushed == {w \in OutPkt : \E xk \in FitsRun : w = FlushedPacket(xk[1])}

(* The packets handed over so far, without their padding.                  *)
Got == {Trim(p) : p \in offered}

Inv ==
  /\ StateOK(Item, Key, Flushed, FitsRun)
  /\ HeldOnce(tbl, Got)

LEMMA FlushedIsOutPkt ==
  ASSUME NEW x, NEW k, <<x, k>> \in FitsRun
  PROVE  FlushedPacket(x) \in Flushed /\ FlushedPacket(x).segs = x.inner.segs
<1> DEFINE s == x.inner.segs
           w == FlushedPacket(x)
           merged == x.inner.nb_merged > 1
           l == IF merged THEN x.inner.len ELSE s[1].total
           b == s[1].mf /\ ~(merged /\ x.inner.is_last_frag)
<1>1. x \in Item /\ Contiguous(s, k)
  BY RunFits DEF RunOf
<1>2. s \in MbufChain(Trimmed) /\ x.inner.len \in Nat
  BY <1>1 DEF Item
<1>3. s[1] \in Candidates /\ Head(s) = s[1]
  <2> HIDE DEF s
  <2>1. Len(s) \in Nat \ {0} /\ Head(s) = s[1]
    BY <1>2 DEF MbufChain
  <2>2. 1 \in 1..Len(s)
    BY <2>1
  <2> QED
    BY <1>1, <2>1, <2>2 DEF Contiguous
<1>4. w = [segs |-> s, ip_len |-> l, off |-> s[1].off, mf |-> b]
  BY <1>3 DEF FlushedPacket
<1>5. s[1].off \in Nat /\ s[1].total \in Nat
  BY <1>3, CandidateType
<1>6. l \in Nat /\ b \in BOOLEAN
  BY <1>2, <1>5
<1> HIDE DEF w, s, l, b
<1>7. w \in OutPkt /\ w.segs = s
  BY <1>2, <1>4, <1>5, <1>6 DEF OutPkt
<1>8. w \in Flushed
  <2>1. <<x, k>>[1] = x
    OBVIOUS
  <2> QED
    BY <1>7, <2>1 DEF Flushed, w
<1> QED
  BY <1>7, <1>8 DEF w, s

LEMMA FrontIsRun ==
  ASSUME Inv, AtDueItem
  PROVE  LET j == tbl.start_index[fl.i]
             x == tbl.item[j]
         IN  /\ fl \in FlushLocals /\ fl.i \in LiveFlows(tbl) /\ j \in HeldItems(tbl)
             /\ <<x, tbl.key[fl.i]>> \in FitsRun
             /\ FlushedPacket(x) \in Flushed /\ FlushedPacket(x).segs = x.inner.segs
<1>1. /\ Sound(tbl, Item, Key, FitsRun) /\ fl \in FlushLocals \cup {NULL}
  BY DEF Inv, StateOK, TypeInvariant
<1> QED
  BY <1>1, FrontIsItem, FlushedIsOutPkt

(* The item a flush merges into the first, and the two runs.               *)
LEMMA NextIsRun ==
  ASSUME Inv, AtDueItem, NextMerges(tbl, tbl.start_index[fl.i])
  PROVE  LET j == tbl.start_index[fl.i]
             n == tbl.next_pkt_idx[j]
             x == tbl.item[j]
             y == tbl.item[n]
             cmp == CheckNeighbor(x, y.inner.frag_offset, y.inner.len)
             z == MergeTwoUdp4Packets(x, y, cmp)
         IN  /\ n # INVALID_ARRAY_INDEX /\ n \in HeldItems(tbl)
             /\ <<y, tbl.key[fl.i]>> \in FitsRun
             /\ cmp # 0 /\ cmp \in Int
             /\ z \in Item /\ <<z, tbl.key[fl.i]>> \in FitsRun
             /\ Joined(x, y, cmp)
             /\ z.inner.segs = InOrder(x.inner.segs, y.inner.segs, cmp)
<1> DEFINE j == tbl.start_index[fl.i]
           n == tbl.next_pkt_idx[j]
           x == tbl.item[j]
           y == tbl.item[n]
           cmp == CheckNeighbor(x, y.inner.frag_offset, y.inner.len)
           z == MergeTwoUdp4Packets(x, y, cmp)
<1>1. /\ Sound(tbl, Item, Key, FitsRun) /\ fl.i \in LiveFlows(tbl)
      /\ j \in HeldItems(tbl) /\ <<x, tbl.key[fl.i]>> \in FitsRun
  BY FrontIsRun DEF Inv, StateOK
<1>2. n # INVALID_ARRAY_INDEX /\ cmp # 0
  BY DEF NextMerges
<1>3. n \in HeldItems(tbl)
  BY <1>1, <1>2 DEF Sound, WellLinked, NoDangling
<1>4. n \in Chain(tbl, j)
  <2>1. j \in Slot /\ n \in Slot
    BY <1>1, <1>3 DEF HeldItems
  <2>2. j \in Chain(tbl, j)
    BY <2>1, ChainStarts
  <2> QED
    BY <2>1, <2>2, ChainGoesOn
<1>5. <<y, tbl.key[fl.i]>> \in FitsRun
  BY <1>1, <1>4 DEF Sound, FlowsFit
<1> HIDE DEF j, n, x, y
<1>6. <<z, tbl.key[fl.i]>> \in FitsRun /\ Joined(x, y, cmp)
  <2>1. cmp \in {-1, 1}
    BY <1>2, CheckIsInt
  <2> QED
    BY <1>1, <1>5, <2>1, UniteIsRun
<1>7. x \in Item /\ y \in Item /\ cmp \in Int
  BY <1>1, <1>5, RunFits, CheckIsInt
<1>8. z \in Item /\ z.inner.segs = InOrder(x.inner.segs, y.inner.segs, cmp)
  BY <1>7, MergedUdp4Item
<1> QED
  BY <1>2, <1>3, <1>5, <1>6, <1>7, <1>8 DEF x, y, n, j

(* ... by one more turn of gro_udp4_merge_items.                           *)
LEMMA FlushMergeRuns ==
  ASSUME Inv, FlushMerge
  PROVE  /\ Inv'
         /\ \E a, b \in HeldItems(tbl) :
              /\ Segs(tbl, a) # Segs(tbl, b)
              /\ FramesComplete => Segs(tbl, b)[1].off = End(Segs(tbl, a)[Len(Segs(tbl, a))])
              /\ \E k \in Key : Contiguous(Segs(tbl, a), k) /\ Contiguous(Segs(tbl, b), k)
              /\ HeldRuns(tbl') = (HeldRuns(tbl) \ {Segs(tbl, a), Segs(tbl, b)})
                                    \cup {Segs(tbl, a) \o Segs(tbl, b)}
<1> DEFINE j == tbl.start_index[fl.i]
           n == tbl.next_pkt_idx[j]
           x == tbl.item[j]
           y == tbl.item[n]
           cmp == CheckNeighbor(x, y.inner.frag_offset, y.inner.len)
           z == MergeTwoUdp4Packets(x, y, cmp)
           k == tbl.key[fl.i]
<1>1. /\ AtDueItem /\ NextMerges(tbl, j) /\ tbl' = Absorb(tbl, j, z)
      /\ UNCHANGED <<now, offered, back, out, fl>>
  BY DEF FlushMerge
<1>2. /\ StateOK(Item, Key, Flushed, FitsRun) /\ HeldOnce(tbl, Got)
      /\ Sound(tbl, Item, Key, FitsRun) /\ RunsTyped(tbl, Trimmed)
  BY HeldAreTyped DEF Inv, StateOK
<1>3. fl.i \in LiveFlows(tbl) /\ j \in HeldItems(tbl) /\ <<x, k>> \in FitsRun
  BY <1>1, FrontIsRun
<1>4. /\ n # INVALID_ARRAY_INDEX /\ n \in HeldItems(tbl) /\ <<y, k>> \in FitsRun
      /\ cmp # 0 /\ cmp \in Int /\ z \in Item /\ <<z, k>> \in FitsRun /\ Joined(x, y, cmp)
      /\ z.inner.segs = InOrder(x.inner.segs, y.inner.segs, cmp)
  BY <1>1, NextIsRun
<1>5. Contiguous(x.inner.segs, k) /\ Contiguous(y.inner.segs, k) /\ k \in Key
  BY <1>3, <1>4, RunFits DEF RunOf
<1> HIDE DEF z, cmp
<1>6. StateOK(Item, Key, Flushed, FitsRun)'
  BY <1>1, <1>2, <1>4, AbsorbOK, NullAssumption
<1>7. NextAbsorbed(tbl, tbl', fl.i, z)
  BY <1>1, <1>2, <1>3, <1>4, AbsorbSound, NullAssumption
<1>8. /\ j # n /\ HeldItems(tbl') = HeldItems(tbl) \ {n}
      /\ Segs(tbl', j) = InOrder(Segs(tbl, j), Segs(tbl, n), cmp)
      /\ \A i \in HeldItems(tbl) \ {j, n} : Segs(tbl', i) = Segs(tbl, i)
  BY <1>4, <1>7 DEF NextAbsorbed, Segs
<1>9. Segs(tbl, j) # Segs(tbl, n)
  BY <1>2, <1>3, <1>4, <1>8, RunsDiffer
<1> DEFINE v == Segs(tbl, j)
           w == Segs(tbl, n)
<1>10. /\ Contiguous(v, k) /\ Contiguous(w, k)
       /\ FramesComplete =>
            IF cmp > 0 THEN w[1].off = End(v[Len(v)]) ELSE v[1].off = End(w[Len(w)])
  BY <1>4, <1>5 DEF Joined, Segs
<1> HIDE DEF j, n, k
<1>11. /\ HeldRuns(tbl') = (HeldRuns(tbl) \ {v, w}) \cup {InOrder(v, w, cmp)}
       /\ HeldOnce(tbl', Got)
  <2>1. CASE cmp > 0
    <3>1. InOrder(v, w, cmp) = v \o w
      BY <2>1 DEF InOrder
    <3>2. United(tbl, tbl', j, n, j)
      BY <1>3, <1>4, <1>8, <2>1 DEF United, InOrder
    <3> QED
      BY <1>2, <3>1, <3>2, UnitedRuns
  <2>2. CASE ~(cmp > 0)
    <3>1. InOrder(v, w, cmp) = w \o v
      BY <2>2 DEF InOrder
    <3>2. United(tbl, tbl', n, j, j)
      BY <1>3, <1>4, <1>8, <2>2 DEF United, InOrder
    <3>3. /\ HeldRuns(tbl') = (HeldRuns(tbl) \ {w, v}) \cup {w \o v}
          /\ HeldOnce(tbl', Got)
      BY <1>2, <3>2, UnitedRuns
    <3> QED
      BY <3>1, <3>3
  <2> QED
    BY <2>1, <2>2
<1>12. Got' = Got
  BY <1>1 DEF Got
<1>13. Inv'
  BY <1>6, <1>11, <1>12 DEF Inv
<1>14. CASE cmp > 0
  <2>1. InOrder(v, w, cmp) = v \o w
    BY <1>14 DEF InOrder
  <2> QED
    BY <1>3, <1>4, <1>5, <1>9, <1>10, <1>11, <1>13, <1>14, <2>1
<1>15. CASE ~(cmp > 0)
  <2>1. InOrder(v, w, cmp) = w \o v /\ {v, w} = {w, v}
    BY <1>15 DEF InOrder
  <2> QED
    BY <1>3, <1>4, <1>5, <1>9, <1>10, <1>11, <1>13, <1>15, <2>1
<1> QED
  BY <1>14, <1>15

LEMMA InitInv ==
  ASSUME Init
  PROVE  Inv
<1>1. StateOK(Item, Key, Flushed, FitsRun)
  BY InitOK
<1>2. HeldItems(tbl) = {}
  BY DEF Init, NewTable, HeldItems
<1> QED
  BY <1>1, <1>2 DEF Inv, HeldOnce

(* What is new to the application is new to the table.                     *)
LEMMA GotMore ==
  ASSUME offered \subseteq Pkts, NEW p \in Pkts, p \notin offered, offered' = offered \cup {p}
  PROVE  Trim(p) \in Trimmed /\ Trim(p) \notin Got /\ Got' = Got \cup {Trim(p)}
  BY PktType DEF Got

LEMMA NextInv ==
  ASSUME Inv, [Next]_vars
  PROVE  Inv'
<1>1. /\ StateOK(Item, Key, Flushed, FitsRun) /\ HeldOnce(tbl, Got)
      /\ Sound(tbl, Item, Key, FitsRun)
      /\ TypeInvariant(Item, Key, Flushed)
  BY DEF Inv, StateOK
<1>2. ASSUME NEW p \in Pkts, Receive(p)
      PROVE  Inv'
  <2> DEFINE m == Trim(p)
  <2>1. now \in Nat /\ offered \subseteq Pkts
    BY <1>1, CallAssumption DEF TypeInvariant
  <2>2. p \notin offered /\ offered' = offered \cup {p} /\ Offer(p, Reassemble(tbl, p, now))
    BY <1>2 DEF Receive, Offer
  <2>3. m \in Trimmed /\ m \notin Got /\ Got' = Got \cup {m}
    BY <2>1, <2>2, GotMore
  <2>4. Reassemble(tbl, p, now) = ReassembleTrimmed(tbl, m, now)
    BY DEF Reassemble
  <2> HIDE DEF m
  <2>5. ASSUME NEW o \in Reassemble(tbl, p, now)
        PROVE  Sound(o.tbl, Item, Key, FitsRun) /\ HeldOnce(o.tbl, Got \cup {m})
    <3>1. o \in ReassembleTrimmed(tbl, m, now)
      BY <2>4
    <3>2. Sound(tbl, Item, Key, FitsRun) /\ HeldOnce(tbl, Got)
      BY <1>1
    <3> QED
      BY ONLY <2>1, <2>3, <3>1, <3>2, ReassembleSound
  <2>6. StateOK(Item, Key, Flushed, FitsRun)'
    BY <1>1, <2>2, <2>5, OfferOK
  <2>7. HeldOnce(tbl', Got')
    BY <2>2, <2>3, <2>5 DEF Offer
  <2> QED
    BY <2>6, <2>7 DEF Inv
<1>3. CASE FlushItem
  <2> DEFINE j == tbl.start_index[fl.i]
  <2>1. FlushedPacket(tbl.item[j]) \in Flushed
    BY <1>3, FrontIsRun DEF FlushItem
  <2>2. /\ StateOK(Item, Key, Flushed, FitsRun)'
        /\ j \in HeldItems(tbl) /\ HeldItems(tbl') = HeldItems(tbl) \ {j}
        /\ \A k \in HeldItems(tbl') : tbl'.item[k] = tbl.item[k]
    BY <1>1, <1>3, <2>1, WriteFrontOK, NullAssumption DEF FlushItem
  <2>3. RunsTyped(tbl, Trimmed)
    BY <1>1, HeldAreTyped
  <2> HIDE DEF j
  <2>4. HeldOnce(tbl', Got)
    BY <1>1, <2>2, <2>3, FewerRuns
  <2>5. Got' = Got
    BY <1>3 DEF FlushItem, WriteFront, Got
  <2> QED
    BY <2>2, <2>4, <2>5 DEF Inv
<1>4. CASE FlushCalls \/ FlushNextFlow \/ FlushReturn \/ Tick \/ UNCHANGED vars
  <2>1. StateOK(Item, Key, Flushed, FitsRun)' /\ tbl' = tbl /\ offered' = offered
    BY <1>1, <1>4, OtherStepsOK, NullAssumption
  <2>2. Got' = Got
    BY <2>1 DEF Got
  <2> QED
    BY <1>1, <2>1, <2>2 DEF Inv
<1> QED
  BY <1>2, <1>3, <1>4, FlushMergeRuns DEF Next, FlushStep

LEMMA RunInv == Spec => []Inv
<1>1. Init => Inv
  BY InitInv
<1>2. Inv /\ [Next]_vars => Inv'
  BY NextInv
<1> QED
  BY <1>1, <1>2, PTL DEF Spec

(* Every variable keeps its type, whatever fragments arrive.               *)
THEOREM TypeCorrect == Spec => []TypeOK
<1>1. Inv => TypeOK
  BY DEF Inv, StateOK, TypeInvariant, TypeOK, Flushed
<1> QED
  BY <1>1, RunInv, PTL

(* The table stays well linked also when items are stored in front of a    *)
(* flow and when the flush merges items of a chain: every held packet is   *)
(* on the chain of one flow, the only one with its key.                    *)
THEOREM TableStaysSound == Spec => [](TableWellLinked /\ NothingLeaks /\ OneFlowPerKey)
<1>1. Inv => TableWellLinked /\ NothingLeaks /\ OneFlowPerKey
  BY ReachedIsNoOrphan DEF Inv, StateOK, Sound, TableWellLinked, NothingLeaks, OneFlowPerKey
<1> QED
  BY <1>1, RunInv, PTL

-----------------------------------------------------------------------------
(* What needs frames that are complete.                                    *)

LEMMA KeyOfDatagram ==
  ASSUME NEW p, NEW q, FlowKey(p) = FlowKey(q)
  PROVE  p.dgram = q.dgram
  BY DEF FlowKey

(* Contiguous fragments of a flow are adjacent.                            *)
LEMMA ContiguousAdjacent ==
  ASSUME FramesComplete, NEW p \in Candidates, NEW q \in Candidates,
         FlowKey(p) = FlowKey(q), q.off = End(p)
  PROVE  Adjacent(p, q)
  BY CompleteCandidates, KeyOfDatagram DEF Adjacent, End

LEMMA CompleteChain ==
  ASSUME FramesComplete, NEW s \in MbufChain(Trimmed), NEW k, Contiguous(s, k)
  PROVE  /\ LensOf(s) = TotalOf(s) /\ (~(Len(s) > 1) => s[1].total = TotalOf(s))
         /\ \A m \in 1..(Len(s) - 1) : Adjacent(s[m], s[m + 1])
<1>1. /\ DOMAIN s = 1..Len(s) /\ Len(s) \in Nat \ {0}
      /\ \A n \in 1..Len(s) : s[n] \in Candidates /\ FlowKey(s[n]) = k
      /\ \A n \in 1..(Len(s) - 1) : s[n + 1].off = End(s[n])
  BY DEF MbufChain, Contiguous
<1>2. \A n \in DOMAIN s : s[n].len = s[n].total
  BY <1>1, CompleteCandidates
<1>3. [n \in DOMAIN s |-> s[n].len] = [n \in DOMAIN s |-> s[n].total]
  BY <1>2
<1>4. LensOf(s) = TotalOf(s)
  BY <1>3 DEF LensOf, TotalOf
<1>5. ASSUME ~(Len(s) > 1) PROVE s[1].total = TotalOf(s)
  <2>1. 1 \in 1..Len(s) /\ DOMAIN s = 1..1
    BY <1>1, <1>5
  <2>2. s[1].total \in Nat
    BY <1>1, <2>1, CandidateType
  <2> DEFINE g == [n \in DOMAIN s |-> s[n].total]
  <2>3. g \in [1..1 -> Nat] /\ g[1] = s[1].total
    BY <2>1, <2>2
  <2> HIDE DEF g
  <2>4. Payload(g) = s[1].total
    BY <2>3, PayloadSingle
  <2> QED
    BY <2>4 DEF TotalOf, g
<1>6. ASSUME NEW m \in 1..(Len(s) - 1) PROVE Adjacent(s[m], s[m + 1])
  <2>1. m \in 1..Len(s) /\ m + 1 \in 1..Len(s)
    BY <1>1
  <2>2. /\ s[m] \in Candidates /\ s[m + 1] \in Candidates
        /\ FlowKey(s[m]) = FlowKey(s[m + 1]) /\ s[m + 1].off = End(s[m])
    BY <1>1, <2>1
  <2> QED
    BY <2>2, ContiguousAdjacent
<1> QED
  BY <1>4, <1>5, <1>6

(* MF of what is written is that of the last fragment.                     *)
LEMMA FlushedFlag ==
  ASSUME FramesComplete, NothingAfterLast, NEW x, NEW k, <<x, k>> \in FitsRun
  PROVE  (x.inner.segs[1].mf /\ ~(x.inner.nb_merged > 1 /\ x.inner.is_last_frag))
            <=> x.inner.segs[Len(x.inner.segs)].mf
<1> DEFINE s == x.inner.segs
           n == Len(s)
<1>1. /\ s \in MbufChain(Trimmed) /\ Contiguous(s, k)
      /\ x.inner.is_last_frag <=> HasLast(s)
      /\ x.inner.nb_merged > 1 <=> n > 1
  BY RunFits DEF RunOf, Item
<1> HIDE DEF s
<1>2. n \in Nat \ {0} /\ \A m \in 1..n : s[m] \in Candidates
  BY <1>1 DEF MbufChain, Contiguous
<1>3. \A m \in 1..(n - 1) : s[m].mf
  <2> SUFFICES ASSUME NEW m \in 1..(n - 1) PROVE s[m].mf
    OBVIOUS
  <2>1. Adjacent(s[m], s[m + 1])
    BY <1>1, CompleteChain
  <2>2. s[m] \in Candidates /\ s[m + 1] \in Candidates
    BY <1>2
  <2> QED
    BY <2>1, <2>2 DEF NothingAfterLast
<1>4. HasLast(s) <=> \E m \in 1..n : ~s[m].mf
  BY DEF HasLast
<1> HIDE DEF n
<1>5. CASE n > 1
  <2>1. 1 \in 1..(n - 1) /\ n \in 1..n /\ \A m \in 1..n : m \in 1..(n - 1) \/ m = n
    BY <1>2, <1>5
  <2>2. HasLast(s) <=> ~s[n].mf
    BY <1>3, <1>4, <2>1
  <2>3. s[1].mf
    BY <1>3, <2>1
  <2> QED
    BY <1>1, <1>5, <2>2, <2>3 DEF s, n
<1>6. CASE ~(n > 1)
  <2>1. n = 1
    BY <1>2, <1>6
  <2> QED
    BY <1>1, <1>6, <2>1 DEF s, n
<1> QED
  BY <1>5, <1>6

LEMMA FlushedDescribes ==
  ASSUME FramesComplete, NothingAfterLast, NEW w \in Flushed
  PROVE  /\ \A m \in 1..(Len(w.segs) - 1) : Adjacent(w.segs[m], w.segs[m + 1])
         /\ w.off = w.segs[1].off
         /\ w.ip_len = TotalOf(w.segs)
         /\ w.mf = w.segs[Len(w.segs)].mf
<1>1. PICK xk \in FitsRun : w = FlushedPacket(xk[1])
  BY DEF Flushed
<1>2. PICK x \in Item, k \in Key : xk = <<x, k>>
  BY DEF FitsRun
<1> DEFINE s == x.inner.segs
           merged == x.inner.nb_merged > 1
<1>3. /\ <<x, k>> \in FitsRun /\ s \in MbufChain(Trimmed) /\ Contiguous(s, k)
      /\ x.inner.len = LensOf(s) /\ (merged <=> Len(s) > 1) /\ w = FlushedPacket(x)
  BY <1>1, <1>2, RunFits DEF RunOf, Item
<1>4. Head(s) = s[1]
  BY <1>3 DEF MbufChain
<1>5. /\ w.segs = s /\ w.off = s[1].off
      /\ w.ip_len = IF merged THEN x.inner.len ELSE s[1].total
      /\ w.mf = (s[1].mf /\ ~(merged /\ x.inner.is_last_frag))
  BY <1>3, <1>4 DEF FlushedPacket
<1>6. (s[1].mf /\ ~(merged /\ x.inner.is_last_frag)) <=> s[Len(s)].mf
  BY <1>3, FlushedFlag
<1>7. w.mf \in BOOLEAN
  BY DEF Flushed, OutPkt
<1>8. s[Len(s)].mf \in BOOLEAN
  <2> HIDE DEF s
  <2>1. Len(s) \in 1..Len(s)
    BY <1>3 DEF MbufChain
  <2> QED
    BY <1>3, <2>1, CandidateType DEF Contiguous
<1>9. w.mf = s[Len(s)].mf
  <2> HIDE DEF s, merged
  <2> QED
    BY <1>5, <1>6, <1>8
<1>10. /\ LensOf(s) = TotalOf(s) /\ (~(Len(s) > 1) => s[1].total = TotalOf(s))
       /\ \A m \in 1..(Len(s) - 1) : Adjacent(s[m], s[m + 1])
  BY <1>3, CompleteChain
<1> HIDE DEF s
<1> QED
  BY <1>3, <1>5, <1>9, <1>10

(* The header of what is written describes its payload, in what order ever *)
(* the fragments came and by whatever merges: contiguous, from its offset, *)
(* of its length, and MF clear exactly behind the last fragment.           *)
THEOREM HeadersAlwaysDescribe ==
  ASSUME FramesComplete, NothingAfterLast
  PROVE  Spec => []HeadersDescribePayload
<1>1. Inv => HeadersDescribePayload
  <2> SUFFICES ASSUME Inv, NEW n \in DOMAIN out
               PROVE  LET s == out[n].segs
                      IN  /\ \A m \in 1..(Len(s) - 1) : Adjacent(s[m], s[m + 1])
                          /\ out[n].off = s[1].off
                          /\ out[n].ip_len = TotalOf(s)
                          /\ out[n].mf = s[Len(s)].mf
    BY DEF HeadersDescribePayload
  <2>1. out \in Seq(Flushed)
    BY DEF Inv, StateOK, TypeInvariant
  <2>2. out[n] \in Flushed
    BY <2>1
  <2> QED
    BY <2>2, FlushedDescribes
<1> QED
  BY <1>1, RunInv, PTL

-----------------------------------------------------------------------------
(* The refinement.                                                         *)

LEMMA ReceiveIsOffer ==
  ASSUME FramesComplete, Inv, NEW p \in Pkts, Receive(p)
  PROVE  Service!Offer(Trim(p))
<1> DEFINE m == Trim(p)
<1>1. /\ p \notin offered /\ offered' = offered \cup {p} /\ out' = out
      /\ Sound(tbl, Item, Key, FitsRun) /\ HeldOnce(tbl, Got) /\ now \in Nat
      /\ offered \subseteq Pkts
  BY CallAssumption DEF Receive, Offer, Inv, StateOK, TypeInvariant
<1>2. PICK o \in ReassembleTrimmed(tbl, m, now) :
         tbl' = o.tbl /\ back' = IF o.ret < 0 THEN back \cup {p} ELSE back
  BY DEF Receive, Offer, Reassemble
<1>3. m \in Trimmed /\ m \notin Got /\ Got' = Got \cup {m}
  BY <1>1, GotMore
<1>4. o.ret < 0 => {Trim(q) : q \in back}' = {Trim(q) : q \in back} \cup {m}
  BY <1>2
<1>5. ~(o.ret < 0) => {Trim(q) : q \in back}' = {Trim(q) : q \in back}
  BY <1>2
<1> HIDE DEF m
<1>6. TakenAsRun(tbl, o, m)
  BY <1>1, <1>2, <1>3, ReassembleSound
<1>7. m \notin {Trim(q) : q \in offered} /\ {Trim(q) : q \in offered}' = {Trim(q) : q \in offered} \cup {m}
  BY <1>3 DEF Got
<1>8. [n \in DOMAIN out' |-> out'[n].segs] = [n \in DOMAIN out |-> out[n].segs]
  BY <1>1
<1>9. CASE o.ret = -1 /\ HeldRuns(o.tbl) = HeldRuns(tbl)
  <2>1. HeldRuns(tbl') = HeldRuns(tbl)
    BY <1>2, <1>9
  <2>2. Service!Refuse(m)
    <3>1. {Trim(q) : q \in back'} = {Trim(q) : q \in back} \cup {m}
      BY <1>4, <1>9
    <3>2. {tbl'.item[i].inner.segs : i \in HeldItems(tbl')} = {tbl.item[i].inner.segs : i \in HeldItems(tbl)}
      BY <2>1 DEF HeldRuns, Segs
    <3> QED
      BY ONLY <1>8, <3>1, <3>2 DEF Service!Refuse
  <2> QED
    BY <1>7, <2>2 DEF Service!Offer, m
<1>10. CASE o.ret = 0 /\ HeldRuns(o.tbl) = HeldRuns(tbl) \cup {<<m>>}
  <2>1. HeldRuns(tbl') = HeldRuns(tbl) \cup {<<m>>}
    BY <1>2, <1>10
  <2>2. Service!Hold(m)
    <3>1. {Trim(q) : q \in back'} = {Trim(q) : q \in back}
      BY <1>5, <1>10
    <3>2. {tbl'.item[i].inner.segs : i \in HeldItems(tbl')} =
            {tbl.item[i].inner.segs : i \in HeldItems(tbl)} \cup {<<m>>}
      BY <2>1 DEF HeldRuns, Segs
    <3> QED
      BY ONLY <1>8, <3>1, <3>2 DEF Service!Hold
  <2> QED
    BY <1>7, <2>2 DEF Service!Offer, m
<1>11. ASSUME NEW i \in HeldItems(tbl), NEW x \in Item, o.ret = 1, m \in Candidates,
              x.inner.segs = Segs(tbl, i), <<x, FlowKey(m)>> \in FitsRun,
              NEW cmp, cmp = CheckNeighbor(x, m.off, IpDl(m)), cmp # 0,
              HeldRuns(o.tbl) =
                (HeldRuns(tbl) \ {Segs(tbl, i)}) \cup {Chained(Segs(tbl, i), m, cmp)}
       PROVE  Service!Offer(Trim(p))
  <2> DEFINE b == Segs(tbl, i)
  <2>1. HeldRuns(tbl') = (HeldRuns(tbl) \ {b}) \cup {Chained(b, m, cmp)} /\ b \in HeldRuns(tbl)
    BY <1>2, <1>11 DEF HeldRuns
  <2>2. MergedRun(MergeTwoUdp4Packets(x, NewItem(m, now), cmp), x, m, cmp)
    BY <1>1, <1>11, JoinIsRun
  <2>3. /\ Contiguous(b, FlowKey(m)) /\ b \in MbufChain(Trimmed)
        /\ cmp > 0 => m.off = End(b[Len(b)])
        /\ ~(cmp > 0) => b[1].off = End(m)
    BY <1>11, <2>2, RunFits DEF RunOf, MergedRun, Item
  <2> HIDE DEF b
  <2>4. /\ b[1] \in Candidates /\ FlowKey(b[1]) = FlowKey(m)
        /\ b[Len(b)] \in Candidates /\ FlowKey(b[Len(b)]) = FlowKey(m)
    <3>1. 1 \in 1..Len(b) /\ Len(b) \in 1..Len(b)
      BY <2>3 DEF MbufChain
    <3> QED
      BY <2>3, <3>1 DEF Contiguous
  <2>5. IF cmp > 0 THEN Adjacent(b[Len(b)], m) ELSE Adjacent(m, b[1])
    BY <1>11, <2>3, <2>4, ContiguousAdjacent
  <2>6. Service!Join(m)
    <3> DEFINE Runs(t) == {t.item[n].inner.segs : n \in HeldItems(t)}
    <3>1. {Trim(q) : q \in back'} = {Trim(q) : q \in back}
      BY <1>5, <1>11
    <3>2. /\ b \in Runs(tbl)
          /\ \/ Adjacent(b[Len(b)], m) /\ Runs(tbl') = (Runs(tbl) \ {b}) \cup {Append(b, m)}
             \/ Adjacent(m, b[1]) /\ Runs(tbl') = (Runs(tbl) \ {b}) \cup {<<m>> \o b}
      BY <2>1, <2>5 DEF HeldRuns, Segs, Chained
    <3> QED
      BY ONLY <1>8, <3>1, <3>2 DEF Service!Join
  <2> QED
    BY <1>7, <2>6 DEF Service!Offer, m
<1> QED
  BY <1>6, <1>9, <1>10, <1>11 DEF TakenAsRun

LEMMA FlushMergeIsUnite ==
  ASSUME FramesComplete, Inv, FlushMerge
  PROVE  Service!Unite
<1>1. PICK i \in HeldItems(tbl), j \in HeldItems(tbl) :
         /\ Segs(tbl, i) # Segs(tbl, j)
         /\ Segs(tbl, j)[1].off = End(Segs(tbl, i)[Len(Segs(tbl, i))])
         /\ \E k \in Key : Contiguous(Segs(tbl, i), k) /\ Contiguous(Segs(tbl, j), k)
         /\ HeldRuns(tbl') = (HeldRuns(tbl) \ {Segs(tbl, i), Segs(tbl, j)})
                               \cup {Segs(tbl, i) \o Segs(tbl, j)}
  BY FlushMergeRuns
<1> DEFINE a == Segs(tbl, i)
           b == Segs(tbl, j)
           Runs(t) == {t.item[n].inner.segs : n \in HeldItems(t)}
<1>2. a \in MbufChain(Trimmed) /\ b \in MbufChain(Trimmed)
  BY HeldAreTyped DEF Inv, StateOK, RunsTyped
<1>3. PICK k \in Key : Contiguous(a, k) /\ Contiguous(b, k)
  BY <1>1
<1>4. a # b /\ b[1].off = End(a[Len(a)]) /\ a \in HeldRuns(tbl) /\ b \in HeldRuns(tbl)
      /\ HeldRuns(tbl') = (HeldRuns(tbl) \ {a, b}) \cup {a \o b}
  BY <1>1 DEF HeldRuns
<1> HIDE DEF a, b
<1>5. Adjacent(a[Len(a)], b[1])
  <2>1. Len(a) \in 1..Len(a) /\ 1 \in 1..Len(b)
    BY <1>2 DEF MbufChain
  <2>2. /\ a[Len(a)] \in Candidates /\ b[1] \in Candidates
        /\ FlowKey(a[Len(a)]) = FlowKey(b[1])
    BY <1>3, <2>1 DEF Contiguous
  <2> QED
    BY <1>4, <2>2, ContiguousAdjacent
<1>6. a \in Runs(tbl) /\ b \in Runs(tbl) /\ Runs(tbl') = (Runs(tbl) \ {a, b}) \cup {a \o b}
  BY <1>4 DEF HeldRuns, Segs
<1>7. /\ [n \in DOMAIN out' |-> out'[n].segs] = [n \in DOMAIN out |-> out[n].segs]
      /\ {Trim(q) : q \in back'} = {Trim(q) : q \in back}
      /\ {Trim(q) : q \in offered'} = {Trim(q) : q \in offered}
  BY DEF FlushMerge
<1> QED
  BY ONLY <1>4, <1>5, <1>6, <1>7 DEF Service!Unite

LEMMA FlushItemIsDeliver ==
  ASSUME Inv, FlushItem
  PROVE  Service!Deliver
<1> DEFINE j == tbl.start_index[fl.i]
           w == FlushedPacket(tbl.item[j])
           b == Segs(tbl, j)
<1>1. w \in Flushed /\ w.segs = b /\ AtDueItem /\ WriteFront(w)
  BY FrontIsRun DEF FlushItem, Segs
<1>2. StateOK(Item, Key, Flushed, FitsRun) /\ HeldOnce(tbl, Got) /\ RunsTyped(tbl, Trimmed)
  BY HeldAreTyped DEF Inv, StateOK
<1>3. /\ j \in HeldItems(tbl) /\ HeldItems(tbl') = HeldItems(tbl) \ {j}
      /\ \A k \in HeldItems(tbl') : tbl'.item[k] = tbl.item[k]
  BY <1>1, <1>2, WriteFrontOK, NullAssumption
<1> HIDE DEF j, w
<1>4. HeldRuns(tbl') = HeldRuns(tbl) \ {b}
  <2>1. ASSUME NEW u, HeldItems(u) = HeldItems(tbl) \ {j},
               \A k \in HeldItems(u) : u.item[k] = tbl.item[k]
        PROVE  HeldRuns(u) = HeldRuns(tbl) \ {Segs(tbl, j)}
    BY ONLY <2>1, <1>2, <1>3, FewerRuns
  <2> QED
    BY <1>3, <2>1
<1>5. HeldRuns(tbl)' = HeldRuns(tbl) \ {b} /\ b \in HeldRuns(tbl)
  BY <1>3, <1>4 DEF HeldRuns, Segs
<1>6. out' = Append(out, w) /\ out \in Seq(Flushed) /\ offered' = offered /\ back' = back
  BY <1>1, <1>2 DEF WriteFront, StateOK, TypeInvariant
<1>7. [n \in DOMAIN out' |-> out'[n].segs] = Append([n \in DOMAIN out |-> out[n].segs], b)
  BY <1>1, <1>6, AppendedRuns
<1> HIDE DEF b
<1> QED
  BY <1>5, <1>6, <1>7 DEF Service!Deliver, HeldRuns, Segs

(* The UDP types implement the service, whatever the fragments overlap, in *)
(* what order they come and however the flush merges them: none is lost or *)
(* doubled, and what leaves is a chain of fragments of one datagram each   *)
(* of which starts where the one before it ends.                           *)
THEOREM RefinesService ==
  ASSUME FramesComplete
  PROVE  Spec => ImplementsService
<1>1. Init => Service!Init
  <2> SUFFICES ASSUME Init PROVE Service!Init
    OBVIOUS
  <2>1. HeldItems(tbl) = {}
    BY DEF Init, NewTable, HeldItems
  <2>2. [n \in DOMAIN out |-> out[n].segs] = <<>>
    BY DEF Init
  <2>3. {Trim(p) : p \in offered} = {} /\ {Trim(p) : p \in back} = {}
    BY DEF Init
  <2> QED
    BY <2>1, <2>2, <2>3 DEF Service!Init
<1>2. Inv /\ [Next]_vars => [Service!Next]_(Service!vars)
  <2> SUFFICES ASSUME Inv, [Next]_vars PROVE [Service!Next]_(Service!vars)
    OBVIOUS
  <2>1. ASSUME NEW p \in Pkts, Receive(p) PROVE Service!Next
    <3>1. Service!Offer(Trim(p)) /\ Trim(p) \in Trimmed
      BY <2>1, ReceiveIsOffer, PktType
    <3> QED
      BY <3>1 DEF Service!Next
  <2>2. CASE FlushItem
    BY <2>2, FlushItemIsDeliver DEF Service!Next
  <2>3. CASE FlushMerge
    BY <2>3, FlushMergeIsUnite DEF Service!Next
  <2>4. CASE FlushCalls \/ FlushNextFlow \/ FlushReturn \/ Tick \/ UNCHANGED vars
    <3>1. tbl' = tbl /\ offered' = offered /\ back' = back /\ out' = out
      BY <2>4 DEF FlushCalls, FlushCall, FlushNextFlow, FlushReturn, Tick, vars
    <3> QED
      BY <3>1 DEF Service!vars
  <2> QED
    BY <2>1, <2>2, <2>3, <2>4 DEF Next, FlushStep
<1> QED
  BY <1>1, <1>2, RunInv, PTL DEF Spec, ImplementsService, Service!Spec

-----------------------------------------------------------------------------
(* What needs fragments that do not overlap: where a fragment of the flow  *)
(* that is not chained to an item can be.                                  *)

KeyOf(x) == FlowKey(x.inner.segs[1])

EndOf(x) == x.inner.frag_offset + x.inner.len

LEMMA RunKey ==
  ASSUME NEW x, NEW k, <<x, k>> \in FitsRun
  PROVE  /\ KeyOf(x) = k
         /\ x \in Item /\ x.inner.frag_offset \in Nat /\ x.inner.len \in Nat \ {0}
         /\ Len(x.inner.segs) \in Nat \ {0}
         /\ \A n \in 1..Len(x.inner.segs) : x.inner.segs[n] \in Candidates /\ FlowKey(x.inner.segs[n]) = k
         /\ x.inner.segs[1].off = x.inner.frag_offset
         /\ FramesComplete =>
              /\ \A n \in 1..(Len(x.inner.segs) - 1) : x.inner.segs[n + 1].off = End(x.inner.segs[n])
              /\ End(x.inner.segs[Len(x.inner.segs)]) = EndOf(x)
<1> DEFINE s == x.inner.segs
<1>1. /\ x \in Item /\ RunOf(x.inner, k) /\ s \in MbufChain(Trimmed)
      /\ x.inner.frag_offset \in Nat /\ x.inner.len \in Nat
  BY RunFits DEF Item
<1>2. /\ x.inner.len > 0 /\ Contiguous(s, k) /\ x.inner.frag_offset = s[1].off
      /\ FramesComplete => EndOf(x) = End(s[Len(s)])
  BY <1>1 DEF RunOf, EndOf
<1> HIDE DEF s
<1>3. /\ Len(s) \in Nat \ {0}
      /\ \A n \in 1..Len(s) : s[n] \in Candidates /\ FlowKey(s[n]) = k
      /\ FramesComplete => \A n \in 1..(Len(s) - 1) : s[n + 1].off = End(s[n])
  BY <1>1, <1>2 DEF Contiguous, MbufChain
<1>4. FlowKey(s[1]) = k
  <2>1. 1 \in 1..Len(s)
    BY <1>3
  <2> QED
    BY <1>3, <2>1
<1>5. KeyOf(x) = k
  BY <1>4 DEF KeyOf, s
<1>6. x.inner.len \in Nat \ {0}
  BY <1>1, <1>2
<1> QED
  BY <1>1, <1>2, <1>3, <1>5, <1>6 DEF s

(* In front of the run or behind it: were m between, it would overlap the  *)
(* first fragment of the run that ends behind its offset.                  *)
LEMMA OutsideRun ==
  ASSUME FramesComplete, NoOverlap, NEW x, NEW m \in Candidates, <<x, FlowKey(m)>> \in FitsRun,
         \A n \in 1..Len(x.inner.segs) : x.inner.segs[n] # m
  PROVE  End(m) <= x.inner.frag_offset \/ EndOf(x) <= m.off
<1> DEFINE s == x.inner.segs
           l == Len(s)
           B == {n \in 1..l : m.off < End(s[n])}
<1>1. /\ l \in Nat \ {0}
      /\ \A n \in 1..l : s[n] \in Candidates /\ FlowKey(s[n]) = FlowKey(m) /\ s[n] # m
      /\ \A n \in 1..(l - 1) : s[n + 1].off = End(s[n])
      /\ s[1].off = x.inner.frag_offset /\ End(s[l]) = EndOf(x)
  BY RunKey
<1> HIDE DEF s, l
<1>2. m.off \in Nat /\ m.len \in Nat \ {0}
  BY CandidateType
<1>3. \A n \in 1..l : s[n].off \in Nat /\ s[n].len \in Nat \ {0} /\ End(s[n]) = s[n].off + s[n].len
  BY <1>1, CandidateType DEF End
<1>4. \A n \in 1..l : End(m) <= s[n].off \/ End(s[n]) <= m.off
  BY <1>1 DEF NoOverlap, End
<1>5. 1 \in 1..l /\ l \in 1..l
  BY <1>1
<1>6. SUFFICES ASSUME ~(EndOf(x) <= m.off) PROVE End(m) <= s[1].off
  BY <1>1
<1>7. m.off < End(s[l])
  BY <1>1, <1>2, <1>3, <1>5, <1>6
<1>8. PICK n \in B : \A i \in B : n <= i
  <2>1. l \in B /\ B \in SUBSET Nat
    BY <1>1, <1>5, <1>7
  <2> HIDE DEF B
  <2>2. LowestOf(B) # {}
    BY <2>1, LowestExists
  <2> QED
    BY <2>2 DEF LowestOf
<1>9. n \in 1..l /\ m.off < End(s[n]) /\ End(m) <= s[n].off
  BY <1>2, <1>3, <1>4, <1>8
<1>10. CASE n = 1
  BY <1>9, <1>10
<1>11. CASE n # 1
  <2>1. n - 1 \in 1..l /\ n - 1 \in 1..(l - 1) /\ (n - 1) + 1 = n
    BY <1>1, <1>9, <1>11
  <2>2. n - 1 \notin B
    BY <1>8, <1>9
  <2>3. End(s[n - 1]) <= m.off /\ s[n].off = End(s[n - 1])
    BY <1>1, <1>2, <1>3, <2>1, <2>2
  <2>4. End(m) <= m.off
    <3>1. End(m) <= End(s[n - 1])
      BY <1>9, <2>3
    <3>2. End(m) \in Nat /\ End(s[n - 1]) \in Nat
      <4>1. End(m) \in Nat
        BY <1>2 DEF End
      <4>2. /\ s[n - 1].off \in Nat /\ s[n - 1].len \in Nat
            /\ End(s[n - 1]) = s[n - 1].off + s[n - 1].len
        BY <1>3, <2>1
      <4> QED
        BY <4>1, <4>2
    <3> QED
      BY <1>2, <2>3, <3>1, <3>2
  <2> QED
    BY <1>2, <2>4 DEF End
<1> QED
  BY <1>10, <1>11

(* Items of a datagram that fits into one packet can always be merged.     *)
LEMMA FitsMerges ==
  ASSUME FramesComplete, NEW k, FitsOnePacket(k),
         NEW x, NEW y, <<x, k>> \in FitsRun, <<y, k>> \in FitsRun,
         CheckNeighbor(x, y.inner.frag_offset, y.inner.len) # 0
  PROVE  CanMerge(x, y.inner.len)
<1> DEFINE s == x.inner.segs
           w == y.inner.segs
<1>1. /\ x.inner.frag_offset \in Nat /\ x.inner.len \in Nat
      /\ y.inner.frag_offset \in Nat /\ y.inner.len \in Nat
      /\ s[1].off = x.inner.frag_offset /\ End(s[Len(s)]) = EndOf(x)
      /\ w[1].off = y.inner.frag_offset /\ End(w[Len(w)]) = EndOf(y)
      /\ s[1] \in Candidates /\ FlowKey(s[1]) = k
      /\ s[Len(s)] \in Candidates /\ FlowKey(s[Len(s)]) = k
      /\ w[1] \in Candidates /\ FlowKey(w[1]) = k
      /\ w[Len(w)] \in Candidates /\ FlowKey(w[Len(w)]) = k
  <2>1. ASSUME NEW z, <<z, k>> \in FitsRun
        PROVE  /\ z.inner.frag_offset \in Nat /\ z.inner.len \in Nat
               /\ z.inner.segs[1].off = z.inner.frag_offset
               /\ End(z.inner.segs[Len(z.inner.segs)]) = EndOf(z)
               /\ z.inner.segs[1] \in Candidates /\ FlowKey(z.inner.segs[1]) = k
               /\ z.inner.segs[Len(z.inner.segs)] \in Candidates
               /\ FlowKey(z.inner.segs[Len(z.inner.segs)]) = k
    <3> DEFINE u == z.inner.segs
    <3>1. /\ z.inner.frag_offset \in Nat /\ z.inner.len \in Nat
          /\ u[1].off = z.inner.frag_offset /\ End(u[Len(u)]) = EndOf(z)
          /\ Len(u) \in Nat \ {0}
          /\ \A n \in 1..Len(u) : u[n] \in Candidates /\ FlowKey(u[n]) = k
      BY <2>1, RunKey
    <3> HIDE DEF u
    <3>2. 1 \in 1..Len(u) /\ Len(u) \in 1..Len(u)
      BY <3>1
    <3>3. /\ u[1] \in Candidates /\ FlowKey(u[1]) = k
          /\ u[Len(u)] \in Candidates /\ FlowKey(u[Len(u)]) = k
      BY <3>1, <3>2
    <3> QED
      BY <3>1, <3>3 DEF u
  <2> QED
    BY <2>1
<1>2. End(w[Len(w)]) - s[1].off <= MaxPayload /\ End(s[Len(s)]) - w[1].off <= MaxPayload
  <2> HIDE DEF s, w
  <2>1. \A p, q \in Candidates :
          FlowKey(p) = k /\ FlowKey(q) = k => End(q) - p.off <= MaxPayload
    BY CandidateType DEF FitsOnePacket, End
  <2> QED
    BY <1>1, <2>1
<1> HIDE DEF s, w
<1> DEFINE a == x.inner.frag_offset
           b == y.inner.frag_offset
           l == x.inner.len
           m == y.inner.len
<1>3. /\ EndOf(x) = a + l
      /\ EndOf(y) = b + m
  BY DEF EndOf
<1>4. /\ EndOf(y) - a <= MaxPayload
      /\ EndOf(x) - b <= MaxPayload
  BY <1>1, <1>2
<1>5. a \in Nat /\ l \in Nat /\ b \in Nat /\ m \in Nat
  BY <1>1
<1>6. b = a + l \/ b + m = a
  BY DEF CheckNeighbor
<1> HIDE DEF a, b, l, m
<1>7. l + m <= MaxPayload
  BY <1>3, <1>4, <1>5, <1>6
<1> QED
  BY <1>7 DEF CanMerge, l, m

-----------------------------------------------------------------------------
(* The order of the items of a flow.                                      *)

(* x stands before y, as far as their datagram fits into one packet.       *)
InFront(x, y) == FitsOnePacket(KeyOf(x)) => EndOf(x) <= y.inner.frag_offset

(* ChainsSorted, link by link.                                             *)
LinksSorted(t) ==
  \A i \in HeldItems(t) :
     LET k == t.next_pkt_idx[i]
     IN  k # INVALID_ARRAY_INDEX => InFront(t.item[i], t.item[k])

(* The operations of the table, whatever the order.                        *)
LEMMA PutItemSorted ==
  ASSUME NEW t, Sound(t, Item, Key, FitsRun), LinksSorted(t),
         NEW prev \in HeldItems(t), NEW i \in Slot \ HeldItems(t), NEW x \in Item,
         InFront(t.item[prev], x),
         t.next_pkt_idx[prev] # INVALID_ARRAY_INDEX => InFront(x, t.item[t.next_pkt_idx[prev]])
  PROVE  LinksSorted(PutItem(t, i, x, prev))
<1> DEFINE u == PutItem(t, i, x, prev)
<1>1. /\ t \in TableOf(Item, Key) /\ WellLinked(t) /\ prev # INVALID_ARRAY_INDEX
      /\ t.item \in [Slot -> Item \cup {NULL}] /\ t.next_pkt_idx \in [Slot -> Index]
      /\ prev \in Slot /\ HeldItems(t) \subseteq Slot
  BY InvalidIsNoSlot DEF Sound, HeldItems, TableOf
<1>2. \A k \in HeldItems(t) : t.next_pkt_idx[k] \in HeldItems(t) \cup {INVALID_ARRAY_INDEX}
  BY <1>1 DEF WellLinked, NoDangling
<1>3. HeldItems(u) = HeldItems(t) \cup {i}
  BY <1>1, PutItemOK, NullAssumption
<1>4. /\ u.item = [t.item EXCEPT ![i] = x]
      /\ u.next_pkt_idx = [t.next_pkt_idx EXCEPT ![i] = t.next_pkt_idx[prev], ![prev] = i]
  BY <1>1 DEF PutItem
<1> HIDE DEF u
<1>5. /\ u.item[i] = x /\ \A k \in HeldItems(t) : u.item[k] = t.item[k]
      /\ u.next_pkt_idx[i] = t.next_pkt_idx[prev] /\ u.next_pkt_idx[prev] = i
      /\ \A k \in HeldItems(t) \ {prev} : u.next_pkt_idx[k] = t.next_pkt_idx[k]
  BY <1>1, <1>4
<1>6. ASSUME NEW k \in HeldItems(u), u.next_pkt_idx[k] # INVALID_ARRAY_INDEX
      PROVE  InFront(u.item[k], u.item[u.next_pkt_idx[k]])
  <2>1. CASE k = i
    <3>1. t.next_pkt_idx[prev] # INVALID_ARRAY_INDEX /\ t.next_pkt_idx[prev] \in HeldItems(t)
      BY <1>2, <1>5, <1>6, <2>1
    <3> QED
      BY <1>5, <2>1, <3>1
  <2>2. CASE k = prev
    BY <1>5, <2>2
  <2>3. CASE k \in HeldItems(t) \ {prev}
    <3>1. t.next_pkt_idx[k] # INVALID_ARRAY_INDEX /\ t.next_pkt_idx[k] \in HeldItems(t)
      BY <1>2, <1>5, <1>6, <2>3
    <3> QED
      BY <1>5, <2>3, <3>1 DEF LinksSorted
  <2> QED
    BY <1>3, <1>6, <2>1, <2>2, <2>3
<1> QED
  BY <1>6 DEF LinksSorted, u

LEMMA PutFirstSorted ==
  ASSUME NEW t, Sound(t, Item, Key, FitsRun), LinksSorted(t), NEW f \in LiveFlows(t),
         NEW i \in Slot \ HeldItems(t), NEW x \in Item, <<x, t.key[f]>> \in FitsRun,
         InFront(x, t.item[t.start_index[f]])
  PROVE  LinksSorted(PutFirst(t, f, i, x))
<1> DEFINE u == PutFirst(t, f, i, x)
           s == t.start_index[f]
<1>1. /\ t.item \in [Slot -> Item \cup {NULL}] /\ t.next_pkt_idx \in [Slot -> Index]
      /\ HeldItems(t) \subseteq Slot /\ s \in HeldItems(t)
  BY DEF Sound, HeldItems, TableOf, WellLinked, NoDangling
<1>2. \A k \in HeldItems(t) : t.next_pkt_idx[k] \in HeldItems(t) \cup {INVALID_ARRAY_INDEX}
  BY DEF Sound, WellLinked, NoDangling
<1>3. FrontPut(t, u, f, i, x)
  BY PutFirstSound, NullAssumption
<1> HIDE DEF u
<1>4. /\ HeldItems(u) = HeldItems(t) \cup {i}
      /\ u.item[i] = x /\ \A k \in HeldItems(t) : u.item[k] = t.item[k]
      /\ u.next_pkt_idx[i] = s
      /\ \A k \in HeldItems(t) : u.next_pkt_idx[k] = t.next_pkt_idx[k]
  BY <1>1, <1>3 DEF FrontPut
<1>5. ASSUME NEW k \in HeldItems(u), u.next_pkt_idx[k] # INVALID_ARRAY_INDEX
      PROVE  InFront(u.item[k], u.item[u.next_pkt_idx[k]])
  <2>1. CASE k = i
    BY <1>1, <1>4, <2>1
  <2>2. CASE k \in HeldItems(t)
    <3>1. t.next_pkt_idx[k] # INVALID_ARRAY_INDEX /\ t.next_pkt_idx[k] \in HeldItems(t)
      BY <1>2, <1>4, <1>5, <2>2
    <3> QED
      BY <1>4, <2>2, <3>1 DEF LinksSorted
  <2> QED
    BY <1>4, <1>5, <2>1, <2>2
<1> QED
  BY <1>5 DEF LinksSorted, u

LEMMA SetItemSorted ==
  ASSUME NEW t, Sound(t, Item, Key, FitsRun), LinksSorted(t), NEW f \in LiveFlows(t),
         NEW cur \in Chain(t, t.start_index[f]), NEW z \in Item,
         \A k \in HeldItems(t) : t.next_pkt_idx[k] = cur => InFront(t.item[k], z),
         t.next_pkt_idx[cur] # INVALID_ARRAY_INDEX => InFront(z, t.item[t.next_pkt_idx[cur]])
  PROVE  LinksSorted(SetItem(t, cur, z))
<1> DEFINE u == SetItem(t, cur, z)
<1>1. /\ t \in TableOf(Item, Key) /\ WellLinked(t)
      /\ t.item \in [Slot -> Item \cup {NULL}] /\ t.next_pkt_idx \in [Slot -> Index]
      /\ HeldItems(t) \subseteq Slot
  BY DEF Sound, HeldItems, TableOf
<1>2. \A k \in HeldItems(t) : t.next_pkt_idx[k] \in HeldItems(t) \cup {INVALID_ARRAY_INDEX}
  BY DEF Sound, WellLinked, NoDangling
<1>3. cur \in HeldItems(t) /\ cur \in Slot /\ z # NULL
  BY <1>1, ChainIsHeld, NullAssumption DEF WellLinked, NoDangling
<1>4. t.next_pkt_idx[cur] # cur
  <2> SUFFICES ASSUME t.next_pkt_idx[cur] = cur PROVE FALSE
    OBVIOUS
  <2>1. cur \notin Chain(t, t.next_pkt_idx[cur])
    BY <1>1, <1>3, NoCycle, InvalidIsNoSlot
  <2> QED
    BY <1>3, <2>1, ChainStarts
<1>5. u.item = [t.item EXCEPT ![cur] = z] /\ u.next_pkt_idx = t.next_pkt_idx
  BY <1>1 DEF SetItem, TableOf
<1>6. HeldItems(u) = HeldItems(t) /\ u.item[cur] = z
      /\ \A k \in HeldItems(t) \ {cur} : u.item[k] = t.item[k]
  BY <1>1, <1>3, <1>5 DEF HeldItems
<1> HIDE DEF u
<1>7. ASSUME NEW k \in HeldItems(u), u.next_pkt_idx[k] # INVALID_ARRAY_INDEX
      PROVE  InFront(u.item[k], u.item[u.next_pkt_idx[k]])
  <2> DEFINE n == t.next_pkt_idx[k]
  <2>1. k \in HeldItems(t) /\ u.next_pkt_idx[k] = n /\ n # INVALID_ARRAY_INDEX /\ n \in HeldItems(t)
    BY <1>2, <1>5, <1>6, <1>7
  <2>2. CASE k = cur
    BY <1>4, <1>6, <2>1, <2>2
  <2>3. CASE k # cur /\ n = cur
    BY <1>6, <2>1, <2>3
  <2>4. CASE k # cur /\ n # cur
    BY <1>6, <2>1, <2>4 DEF LinksSorted
  <2> QED
    BY <2>2, <2>3, <2>4
<1> QED
  BY <1>7 DEF LinksSorted, u

LEMMA NewFlowSorted ==
  ASSUME NEW t, Sound(t, Item, Key, FitsRun), LinksSorted(t),
         NEW x \in Item, NEW k, NEW o \in StoreInNewFlow(t, x, k)
  PROVE  LinksSorted(o.tbl)
<1> DEFINE v(i) == PutItem(t, i, x, INVALID_ARRAY_INDEX)
<1>1. /\ t \in TableOf(Item, Key) /\ WellLinked(t) /\ x # NULL
      /\ t.item \in [Slot -> Item \cup {NULL}] /\ t.next_pkt_idx \in [Slot -> Index]
      /\ HeldItems(t) \subseteq Slot
  BY NullAssumption DEF Sound, HeldItems, TableOf
<1>2. \A j \in HeldItems(t) : t.next_pkt_idx[j] \in HeldItems(t) \cup {INVALID_ARRAY_INDEX}
  BY DEF Sound, WellLinked, NoDangling
<1>3. ASSUME NEW i \in Slot \ HeldItems(t), NEW u,
             u.item = v(i).item \/ u.item = [v(i).item EXCEPT ![i] = NULL],
             u.next_pkt_idx = v(i).next_pkt_idx
      PROVE  LinksSorted(u)
  <2>1. /\ v(i).item = [t.item EXCEPT ![i] = x]
        /\ v(i).next_pkt_idx = [t.next_pkt_idx EXCEPT ![i] = INVALID_ARRAY_INDEX]
    BY DEF PutItem
  <2>2. /\ HeldItems(u) \subseteq HeldItems(t) \cup {i}
        /\ \A j \in HeldItems(t) : u.item[j] = t.item[j] /\ u.next_pkt_idx[j] = t.next_pkt_idx[j]
        /\ u.next_pkt_idx[i] = INVALID_ARRAY_INDEX
    <3>1. CASE u.item = v(i).item
      BY <1>1, <1>3, <2>1, <3>1 DEF HeldItems
    <3>2. CASE u.item = [v(i).item EXCEPT ![i] = NULL]
      BY <1>1, <1>3, <2>1, <3>2 DEF HeldItems
    <3> QED
      BY <1>3, <3>1, <3>2
  <2> QED
    BY <1>2, <2>2 DEF LinksSorted
<1>4. \A i \in FindEmptyItem(t) : i \in Slot \ HeldItems(t)
  BY DEF FindEmptyItem, LowestOf
<1>5. CASE o = Outcome(-1, t)
  BY <1>5 DEF Outcome
<1>6. ASSUME NEW i \in FindEmptyItem(t), o = Outcome(-1, DeleteItem(v(i), i))
      PROVE  LinksSorted(o.tbl)
  <2>1. v(i) \in TableOf(Item, Key) /\ o.tbl = DeleteItem(v(i), i)
    BY <1>1, <1>4, <1>6, PutItemOK, NullAssumption DEF Outcome
  <2> HIDE DEF v
  <2>2. /\ o.tbl.item = [v(i).item EXCEPT ![i] = NULL]
        /\ o.tbl.next_pkt_idx = v(i).next_pkt_idx
    BY <2>1 DEF DeleteItem, TableOf
  <2> QED
    BY <1>3, <1>4, <2>2
<1>7. ASSUME NEW i \in FindEmptyItem(t), NEW g, o = Outcome(0, PutFlow(v(i), g, k, i))
      PROVE  LinksSorted(o.tbl)
  <2>1. v(i) \in TableOf(Item, Key) /\ o.tbl = PutFlow(v(i), g, k, i)
    BY <1>1, <1>4, <1>7, PutItemOK, NullAssumption DEF Outcome
  <2> HIDE DEF v
  <2>2. o.tbl.item = v(i).item /\ o.tbl.next_pkt_idx = v(i).next_pkt_idx
    BY <2>1 DEF PutFlow, TableOf
  <2> QED
    BY <1>3, <1>4, <2>2
<1> QED
  BY <1>5, <1>6, <1>7 DEF StoreInNewFlow, InsertNewFlow

LEMMA FlushFirstLeaves ==
  ASSUME NEW t, Sound(t, Item, Key, FitsRun), NEW f \in LiveFlows(t)
  PROVE  /\ HeldItems(FlushFirst(t, f)) = HeldItems(t) \ {t.start_index[f]}
         /\ \A k \in HeldItems(FlushFirst(t, f)) : FlushFirst(t, f).item[k] = t.item[k]
<1>1. NULL \notin Item
  BY NullAssumption
<1> QED
  BY <1>1, FlushFirstSound

LEMMA FlushFirstSorted ==
  ASSUME NEW t, Sound(t, Item, Key, FitsRun), LinksSorted(t), NEW f \in LiveFlows(t)
  PROVE  LinksSorted(FlushFirst(t, f))
<1> DEFINE u == FlushFirst(t, f)
           s == t.start_index[f]
<1>1. /\ HeldItems(u) = HeldItems(t) \ {s} /\ \A k \in HeldItems(u) : u.item[k] = t.item[k]
  BY FlushFirstLeaves
<1>2. u.next_pkt_idx = t.next_pkt_idx
  BY DEF FlushFirst, DeleteItem, Sound, TableOf
<1>3. \A k \in HeldItems(t) : /\ t.next_pkt_idx[k] \in HeldItems(t) \cup {INVALID_ARRAY_INDEX}
                              /\ t.next_pkt_idx[k] # s
  BY DEF Sound, WellLinked, NoDangling, NoSharing
<1> HIDE DEF u, s
<1>4. \A k \in HeldItems(u) : u.next_pkt_idx[k] # INVALID_ARRAY_INDEX =>
        u.next_pkt_idx[k] \in HeldItems(u) /\ k \in HeldItems(t)
  BY <1>1, <1>2, <1>3
<1>5. LinksSorted(u)
  BY <1>1, <1>2, <1>4 DEF LinksSorted
<1> QED
  BY <1>5 DEF u

LEMMA AbsorbSorted ==
  ASSUME NEW t, Sound(t, Item, Key, FitsRun), LinksSorted(t), NEW f \in LiveFlows(t),
         NEW u, NEW z, NextAbsorbed(t, u, f, z),
         LET n == t.next_pkt_idx[t.start_index[f]]
         IN  t.next_pkt_idx[n] # INVALID_ARRAY_INDEX => InFront(z, t.item[t.next_pkt_idx[n]])
  PROVE  LinksSorted(u)
<1> DEFINE s == t.start_index[f]
           n == t.next_pkt_idx[s]
           e == t.next_pkt_idx[n]
<1>1. /\ s \in HeldItems(t) /\ n \in HeldItems(t) /\ s # n
      /\ HeldItems(u) = HeldItems(t) \ {n} /\ u.item[s] = z
      /\ \A k \in HeldItems(u) \ {s} : u.item[k] = t.item[k]
      /\ u.next_pkt_idx = [t.next_pkt_idx EXCEPT ![s] = e]
  BY DEF NextAbsorbed
<1>2. t.next_pkt_idx \in [Slot -> Index] /\ HeldItems(t) \subseteq Slot
  BY DEF Sound, HeldItems, TableOf
<1>3. \A k \in HeldItems(t) : /\ t.next_pkt_idx[k] \in HeldItems(t) \cup {INVALID_ARRAY_INDEX}
                              /\ t.next_pkt_idx[k] # s
  BY DEF Sound, WellLinked, NoDangling, NoSharing
<1>4. \A k \in HeldItems(t) : t.next_pkt_idx[k] = n => k = s
  <2>1. n # INVALID_ARRAY_INDEX
    BY <1>1, <1>2, InvalidIsNoSlot
  <2> QED
    BY <1>1, <2>1 DEF Sound, WellLinked, NoSharing
<1>5. e # INVALID_ARRAY_INDEX => InFront(z, t.item[e]) /\ e \in HeldItems(t) /\ e # s /\ e # n
  <2>1. e = n => FALSE
    BY <1>1, <1>4
  <2> QED
    BY <1>1, <1>3, <2>1
<1> HIDE DEF s, n, e
<1>6. u.next_pkt_idx[s] = e /\ \A k \in HeldItems(u) \ {s} : u.next_pkt_idx[k] = t.next_pkt_idx[k]
  BY <1>1, <1>2
<1>7. ASSUME NEW k \in HeldItems(u), u.next_pkt_idx[k] # INVALID_ARRAY_INDEX
      PROVE  InFront(u.item[k], u.item[u.next_pkt_idx[k]])
  <2>1. CASE k = s
    BY <1>1, <1>5, <1>6, <1>7, <2>1
  <2>2. CASE k # s
    <3>1. /\ k \in HeldItems(t) /\ u.next_pkt_idx[k] = t.next_pkt_idx[k]
          /\ t.next_pkt_idx[k] \in HeldItems(u) \ {s}
      BY <1>1, <1>3, <1>4, <1>6, <1>7, <2>2
    <3> QED
      BY <1>1, <1>7, <2>2, <3>1 DEF LinksSorted
  <2> QED
    BY <2>1, <2>2
<1> QED
  BY <1>7 DEF LinksSorted

-----------------------------------------------------------------------------
(* ... and the calls of reassemble, which find the right place.            *)

LEMMA StoreInFlowSorted ==
  ASSUME NEW t, Sound(t, Item, Key, FitsRun), LinksSorted(t),
         NEW prev \in HeldItems(t), NEW x \in Item, InFront(t.item[prev], x),
         t.next_pkt_idx[prev] # INVALID_ARRAY_INDEX => InFront(x, t.item[t.next_pkt_idx[prev]]),
         NEW o \in StoreInFlow(t, x, prev)
  PROVE  LinksSorted(o.tbl)
<1>1. CASE o = Outcome(-1, t)
  BY <1>1 DEF Outcome
<1>2. ASSUME NEW i \in FindEmptyItem(t), o = Outcome(0, PutItem(t, i, x, prev))
      PROVE  LinksSorted(o.tbl)
  <2>1. i \in Slot \ HeldItems(t)
    BY DEF FindEmptyItem, LowestOf
  <2>2. LinksSorted(PutItem(t, i, x, prev))
    BY <2>1, PutItemSorted
  <2> QED
    BY <1>2, <2>2 DEF Outcome
<1> QED
  BY <1>1, <1>2 DEF StoreInFlow, InsertNewItem

(* What every item of a flow is to a fragment of that flow.                *)
LEMMA ItemsOfFlow ==
  ASSUME NEW t, Sound(t, Item, Key, FitsRun), NEW f \in LiveFlows(t),
         NEW i \in Chain(t, t.start_index[f])
  PROVE  i \in HeldItems(t) /\ <<t.item[i], t.key[f]>> \in FitsRun /\ KeyOf(t.item[i]) = t.key[f]
<1>1. t.start_index[f] \in HeldItems(t) /\ Chain(t, t.start_index[f]) \subseteq HeldItems(t)
  BY ChainIsHeld DEF Sound, WellLinked, NoDangling
<1>2. <<t.item[i], t.key[f]>> \in FitsRun
  BY DEF Sound, FlowsFit
<1> QED
  BY <1>1, <1>2, RunKey

(* The walk went past the item: the fragment is behind it.                 *)
LEMMA PassedIsInFront ==
  ASSUME FramesComplete, NoOverlap,
         NEW t, Sound(t, Item, Key, FitsRun), NEW f \in LiveFlows(t),
         NEW m \in Candidates, t.key[f] = FlowKey(m), Fresh(t, m), NEW time \in Nat,
         NEW i \in Chain(t, t.start_index[f]), i \notin Stops(t, f, m)
  PROVE  InFront(t.item[i], NewItem(m, time))
<1> DEFINE x == t.item[i]
<1>1. i \in HeldItems(t) /\ <<x, FlowKey(m)>> \in FitsRun
  BY ItemsOfFlow
<1>2. \A n \in 1..Len(x.inner.segs) : x.inner.segs[n] # m
  BY <1>1 DEF Fresh, Segs
<1>3. ~(m.off < x.inner.frag_offset)
  BY DEF Stops
<1>4. NewItem(m, time).inner.frag_offset = m.off /\ m.off \in Nat /\ m.len \in Nat \ {0}
  BY CandidateType, NewItemType
<1> HIDE DEF x
<1>5. x.inner.frag_offset \in Nat
  BY <1>1, RunKey
<1>6. End(m) <= x.inner.frag_offset \/ EndOf(x) <= m.off
  BY <1>1, <1>2, OutsideRun
<1>7. EndOf(x) <= m.off
  BY <1>3, <1>4, <1>5, <1>6 DEF End
<1> QED
  BY <1>4, <1>7 DEF InFront, x

(* The item starts behind the start of the fragment: it is behind it.      *)
LEMMA StopIsBehind ==
  ASSUME FramesComplete, NoOverlap,
         NEW t, Sound(t, Item, Key, FitsRun), NEW f \in LiveFlows(t),
         NEW m \in Candidates, t.key[f] = FlowKey(m), Fresh(t, m), NEW time \in Nat,
         NEW i \in Chain(t, t.start_index[f]), m.off < t.item[i].inner.frag_offset
  PROVE  End(m) <= t.item[i].inner.frag_offset /\ InFront(NewItem(m, time), t.item[i])
<1> DEFINE x == t.item[i]
           y == NewItem(m, time)
<1>1. i \in HeldItems(t) /\ <<x, FlowKey(m)>> \in FitsRun
  BY ItemsOfFlow
<1>2. \A n \in 1..Len(x.inner.segs) : x.inner.segs[n] # m
  BY <1>1 DEF Fresh, Segs
<1>3. y.inner.frag_offset = m.off /\ y.inner.len = m.len
  BY CandidateType, NewItemType
<1>4. m.off \in Nat /\ m.len \in Nat \ {0} /\ m.off < x.inner.frag_offset
  BY CandidateType
<1> HIDE DEF x, y
<1>5. x.inner.frag_offset \in Nat /\ x.inner.len \in Nat \ {0}
  BY <1>1, RunKey
<1>6. End(m) <= x.inner.frag_offset \/ EndOf(x) <= m.off
  BY <1>1, <1>2, OutsideRun
<1>7. End(m) <= x.inner.frag_offset
  BY <1>4, <1>5, <1>6 DEF EndOf
<1>8. EndOf(y) = End(m)
  BY <1>3 DEF EndOf, End
<1> QED
  BY <1>7, <1>8 DEF InFront, x, y

(* Where the walk stops, what is before is no place to stop.               *)
LEMMA BeforeFirstStop ==
  ASSUME NEW t, Sound(t, Item, Key, FitsRun), NEW f \in LiveFlows(t), NEW m,
         NEW cur \in FirstOf(t, Stops(t, f, m)), NEW k \in HeldItems(t), t.next_pkt_idx[k] = cur
  PROVE  /\ cur # t.start_index[f]
         /\ k \in Chain(t, t.start_index[f]) /\ k \notin Stops(t, f, m)
<1> DEFINE s == t.start_index[f]
<1>1. /\ cur \in Chain(t, s) /\ Stops(t, f, m) \subseteq Chain(t, cur) /\ cur \in Slot
      /\ t \in TableOf(Item, Key) /\ WellLinked(t) /\ s \in HeldItems(t) /\ s \in Slot
      /\ Chain(t, s) \subseteq HeldItems(t)
  BY ChainIsHeld, ChainInSlot DEF FirstOf, Stops, Sound, WellLinked, NoDangling, HeldItems
<1>2. cur # s
  BY <1>1 DEF WellLinked, NoSharing
<1>3. PICK n \in Chain(t, s) : t.next_pkt_idx[n] = cur
  BY <1>1, <1>2, ChainPred
<1>4. n = k
  BY <1>1, <1>3, InvalidIsNoSlot DEF WellLinked, NoSharing
<1>5. k \notin Chain(t, cur)
  BY <1>1, <1>3, <1>4, NoCycle, InvalidIsNoSlot
<1> QED
  BY <1>1, <1>2, <1>3, <1>4, <1>5

(* The item m was merged into still stands where it did: m is between it   *)
(* and the item before it, or the one behind it.                           *)
LEMMA MergedStays ==
  ASSUME FramesComplete, NoOverlap,
         NEW t, Sound(t, Item, Key, FitsRun), LinksSorted(t), NEW f \in LiveFlows(t),
         NEW m \in Candidates, t.key[f] = FlowKey(m), Fresh(t, m), NEW time \in Nat,
         NEW cur \in FirstOf(t, Stops(t, f, m)),
         NEW cmp, cmp = CheckNeighbor(t.item[cur], m.off, IpDl(m)), cmp # 0
  PROVE  LinksSorted(SetItem(t, cur, MergeTwoUdp4Packets(t.item[cur], NewItem(m, time), cmp)))
<1> DEFINE s == t.start_index[f]
           x == t.item[cur]
           y == NewItem(m, time)
           z == MergeTwoUdp4Packets(x, y, cmp)
           n == t.next_pkt_idx[cur]
<1>1. cur \in Chain(t, s) /\ cur \in HeldItems(t) /\ <<x, FlowKey(m)>> \in FitsRun
  BY ItemsOfFlow DEF FirstOf, Stops
<1>2. /\ x \in Item /\ KeyOf(x) = FlowKey(m)
      /\ x.inner.frag_offset \in Nat /\ x.inner.len \in Nat \ {0}
  BY <1>1, RunKey
<1>3. m.off \in Nat /\ m.len \in Nat \ {0} /\ m \in Trimmed
  BY CandidateType
<1>4. y \in Item /\ y.inner.len = m.len /\ y.inner.frag_offset = m.off
  BY <1>3, NewItemType
<1>5. cmp \in {-1, 1} /\ cmp \in Int
  BY CheckIsInt
<1>6. <<z, FlowKey(m)>> \in FitsRun
  BY <1>1, JoinIsRun DEF MergedRun
<1>7. z \in Item /\ KeyOf(z) = FlowKey(m)
  BY <1>6, RunKey
<1>8. /\ z.inner.len = x.inner.len + m.len
      /\ z.inner.frag_offset = IF cmp > 0 THEN x.inner.frag_offset ELSE m.off
  <2>1. /\ z.inner.len = x.inner.len + y.inner.len
        /\ z.inner.frag_offset = IF cmp > 0 THEN x.inner.frag_offset ELSE y.inner.frag_offset
    BY <1>2, <1>4, <1>5, MergedUdp4Item
  <2> HIDE DEF z, x, y
  <2> QED
    BY <1>4, <2>1
<1>9. /\ cmp = 1 => m.off = x.inner.frag_offset + x.inner.len
      /\ cmp = -1 => m.off + m.len = x.inner.frag_offset
  BY ComparedLength DEF CheckNeighbor
<1> HIDE DEF z
<1>10. ASSUME NEW k \in HeldItems(t), t.next_pkt_idx[k] = cur
       PROVE  InFront(t.item[k], z)
  <2>1. k \in Chain(t, s) /\ k \notin Stops(t, f, m)
    BY <1>10, BeforeFirstStop
  <2>2. CASE cmp = 1
    <3>1. cur # INVALID_ARRAY_INDEX
      BY <1>1, InvalidIsNoSlot DEF HeldItems
    <3>2. InFront(t.item[k], x)
      BY <1>10, <3>1 DEF LinksSorted
    <3> QED
      BY <1>8, <2>2, <3>2 DEF InFront
  <2>3. CASE cmp = -1
    <3>1. InFront(t.item[k], y)
      BY <2>1, PassedIsInFront
    <3> QED
      BY <1>4, <1>8, <2>3, <3>1 DEF InFront
  <2> QED
    BY <1>5, <2>2, <2>3
<1>11. ASSUME n # INVALID_ARRAY_INDEX
       PROVE  InFront(z, t.item[n])
  <2> DEFINE w == t.item[n]
  <2>1. InFront(x, w) /\ n \in Chain(t, s)
    BY <1>1, <1>11, ChainIsClosed DEF LinksSorted, Sound
  <2>2. n \in HeldItems(t) /\ <<w, FlowKey(m)>> \in FitsRun
    BY <2>1, ItemsOfFlow
  <2>3. w.inner.frag_offset \in Nat /\ w.inner.len \in Nat \ {0}
    BY <2>2, RunKey
  <2>4. \A l \in 1..Len(w.inner.segs) : w.inner.segs[l] # m
    BY <2>2 DEF Fresh, Segs
  <2>5. End(m) <= w.inner.frag_offset \/ EndOf(w) <= m.off
    BY <2>2, <2>4, OutsideRun
  <2>6. SUFFICES ASSUME FitsOnePacket(FlowKey(m)) PROVE EndOf(z) <= w.inner.frag_offset
    BY <1>7 DEF InFront
  <2> HIDE DEF x, w
  <2>7. EndOf(x) <= w.inner.frag_offset
    BY <1>2, <2>1, <2>6 DEF InFront
  <2>8. /\ EndOf(x) = x.inner.frag_offset + x.inner.len /\ EndOf(w) = w.inner.frag_offset + w.inner.len
        /\ EndOf(z) = z.inner.frag_offset + z.inner.len /\ End(m) = m.off + m.len
    BY DEF EndOf, End
  <2>9. CASE cmp = 1
    <3>1. EndOf(z) = End(m)
      BY <1>2, <1>3, <1>8, <1>9, <2>8, <2>9
    <3>2. End(m) <= w.inner.frag_offset
      BY <1>2, <1>3, <1>9, <2>3, <2>5, <2>7, <2>8, <2>9
    <3> QED
      BY <3>1, <3>2
  <2>10. CASE cmp = -1
    <3>1. EndOf(z) = EndOf(x)
      BY <1>2, <1>3, <1>8, <1>9, <2>8, <2>10
    <3> QED
      BY <2>7, <3>1
  <2> QED
    BY <1>5, <2>9, <2>10
<1> HIDE DEF n
<1>12. LinksSorted(SetItem(t, cur, z))
  BY <1>1, <1>7, <1>10, <1>11, SetItemSorted DEF n
<1> QED
  BY <1>12 DEF z, x, y

(* With room in one packet for all, nothing is refused a merge.            *)
LEMMA MergeAtSorted ==
  ASSUME FramesComplete, NoOverlap,
         NEW t, Sound(t, Item, Key, FitsRun), LinksSorted(t), NEW f \in LiveFlows(t),
         NEW m \in Candidates, t.key[f] = FlowKey(m), Fresh(t, m), NEW time \in Nat,
         NEW cur \in FirstOf(t, Stops(t, f, m)), IsNeighborIn(t, cur, m),
         NEW o \in MergeAt(t, f, cur, m, time)
  PROVE  LinksSorted(o.tbl)
<1> DEFINE s == t.start_index[f]
           x == t.item[cur]
           y == NewItem(m, time)
           cmp == CheckNeighbor(x, m.off, IpDl(m))
<1>1. cur \in Chain(t, s) /\ <<x, FlowKey(m)>> \in FitsRun /\ cmp # 0
  BY ItemsOfFlow DEF FirstOf, Stops, IsNeighborIn
<1>2. CASE o = Outcome(1, SetItem(t, cur, MergeTwoUdp4Packets(x, y, cmp)))
  <2>1. LinksSorted(SetItem(t, cur, MergeTwoUdp4Packets(x, y, cmp)))
    BY <1>1, MergedStays
  <2> QED
    BY <1>2, <2>1 DEF Outcome
<1>3. ASSUME ~CanMerge(x, m.len), NEW prev \in PrevOf(t, s, cur), o \in StoreInFlow(t, y, prev)
      PROVE  LinksSorted(o.tbl)
  <2>1. /\ y \in Item /\ y.inner.frag_offset = m.off /\ y.inner.len = m.len
        /\ <<y, FlowKey(m)>> \in FitsRun /\ KeyOf(y) = FlowKey(m)
    BY CandidateType, NewItemType, NewItemIsRun, RunKey
  <2>2. prev \in Chain(t, s)
    BY <1>1 DEF PrevOf
  <2>3. prev \in HeldItems(t) /\ KeyOf(t.item[prev]) = FlowKey(m)
    BY <2>2, ItemsOfFlow
  <2> HIDE DEF x, y
  <2>4. ~FitsOnePacket(FlowKey(m))
    <3>1. IpDl(m) = y.inner.len
      BY <2>1, ComparedLength
    <3> QED
      BY <1>1, <1>3, <2>1, <3>1, FitsMerges
  <2>5. InFront(t.item[prev], y) /\ \A w : InFront(y, w)
    BY <2>1, <2>3, <2>4 DEF InFront
  <2> QED
    BY <1>3, <2>1, <2>3, <2>5, StoreInFlowSorted
<1> QED
  BY <1>2, <1>3 DEF MergeAt

LEMMA StoreBeforeSorted ==
  ASSUME FramesComplete, NoOverlap,
         NEW t, Sound(t, Item, Key, FitsRun), LinksSorted(t), NEW f \in LiveFlows(t),
         NEW m \in Candidates, t.key[f] = FlowKey(m), Fresh(t, m), NEW time \in Nat,
         NEW cur \in FirstOf(t, Stops(t, f, m)), ~IsNeighborIn(t, cur, m),
         NEW o \in StoreBefore(t, f, cur, NewItem(m, time))
  PROVE  LinksSorted(o.tbl)
<1> DEFINE s == t.start_index[f]
           y == NewItem(m, time)
<1>1. cur \in Chain(t, s) /\ cur \in HeldItems(t) /\ m.off < t.item[cur].inner.frag_offset
  BY ItemsOfFlow DEF FirstOf, Stops
<1>2. InFront(y, t.item[cur])
  BY <1>1, StopIsBehind
<1>3. y \in Item /\ <<y, t.key[f]>> \in FitsRun
  BY NewItemIsRun, RunFits
<1> HIDE DEF y
<1>4. CASE o = Outcome(-1, t)
  BY <1>4 DEF Outcome
<1>5. ASSUME cur = s, NEW i \in FindEmptyItem(t), o = Outcome(0, PutFirst(t, f, i, y))
      PROVE  LinksSorted(o.tbl)
  <2>1. i \in Slot \ HeldItems(t)
    BY DEF FindEmptyItem, LowestOf
  <2>2. LinksSorted(PutFirst(t, f, i, y))
    BY <1>2, <1>3, <1>5, <2>1, PutFirstSorted
  <2> QED
    BY <1>5, <2>2 DEF Outcome
<1>6. ASSUME cur # s, NEW prev \in PrevOf(t, s, cur), o \in StoreInFlow(t, y, prev)
      PROVE  LinksSorted(o.tbl)
  <2>1. prev \in Chain(t, s) /\ t.next_pkt_idx[prev] = cur
    BY <1>6 DEF PrevOf
  <2>2. prev \in HeldItems(t)
    BY <2>1, ItemsOfFlow
  <2>3. prev \notin Stops(t, f, m)
    BY <2>1, <2>2, BeforeFirstStop
  <2>4. InFront(t.item[prev], y)
    BY <2>1, <2>3, PassedIsInFront DEF y
  <2> QED
    BY <1>2, <1>3, <1>6, <2>1, <2>2, <2>4, StoreInFlowSorted
<1> QED
  BY <1>4, <1>5, <1>6 DEF StoreBefore, StoreFirst, y

LEMMA ReassembleSorted ==
  ASSUME FramesComplete, NoOverlap,
         NEW t, Sound(t, Item, Key, FitsRun), LinksSorted(t),
         NEW S, HeldOnce(t, S), NEW m \in Trimmed, m \notin S, NEW time \in Nat,
         NEW o \in ReassembleTrimmed(t, m, time)
  PROVE  LinksSorted(o.tbl)
<1>1. Fresh(t, m)
  <2> SUFFICES ASSUME NEW i \in HeldItems(t), NEW n \in 1..Len(Segs(t, i)), Segs(t, i)[n] = m
               PROVE  FALSE
    BY DEF Fresh
  <2> QED
    BY DEF HeldOnce
<1>2. CASE o = Outcome(-1, t)
  BY <1>2 DEF Outcome
<1>3. ASSUME o \in StoreInNewFlow(t, NewItem(m, time), FlowKey(m))
      PROVE  LinksSorted(o.tbl)
  BY <1>3, NewItemType, NewFlowSorted
<1>4. ASSUME m \in Candidates, NEW f \in LiveFlows(t), t.key[f] = FlowKey(m),
             o \in ProcessInFlow(t, f, m, time)
      PROVE  LinksSorted(o.tbl)
  <2>1. ASSUME Stops(t, f, m) = {}, NEW last \in LastOf(t, t.start_index[f]),
               o \in StoreInFlow(t, NewItem(m, time), last)
        PROVE  LinksSorted(o.tbl)
    <3>1. last \in Chain(t, t.start_index[f]) /\ t.next_pkt_idx[last] = INVALID_ARRAY_INDEX
      BY DEF LastOf
    <3>2. last \in HeldItems(t) /\ NewItem(m, time) \in Item
      BY <3>1, ItemsOfFlow, NewItemType
    <3>3. InFront(t.item[last], NewItem(m, time))
      BY <1>1, <1>4, <2>1, <3>1, PassedIsInFront
    <3> QED
      BY <2>1, <3>1, <3>2, <3>3, StoreInFlowSorted
  <2>2. ASSUME NEW cur \in FirstOf(t, Stops(t, f, m)), IsNeighborIn(t, cur, m),
               o \in MergeAt(t, f, cur, m, time)
        PROVE  LinksSorted(o.tbl)
    BY <1>1, <1>4, <2>2, MergeAtSorted
  <2>3. ASSUME NEW cur \in FirstOf(t, Stops(t, f, m)), ~IsNeighborIn(t, cur, m),
               o \in StoreBefore(t, f, cur, NewItem(m, time))
        PROVE  LinksSorted(o.tbl)
    BY <1>1, <1>4, <2>3, StoreBeforeSorted
  <2> QED
    BY <1>4, <2>1, <2>2, <2>3, WalkCases
<1> QED
  BY <1>2, <1>3, <1>4 DEF ReassembleTrimmed, FindFlow, Candidates

-----------------------------------------------------------------------------
(* The flush.                                                              *)

(* The first item of the flow that is being flushed, and the one behind it *)
(* in a datagram that fits into one packet: the merge puts the second      *)
(* behind the first.                                                       *)
LEMMA FlushMergeAppends ==
  ASSUME Inv, LinksSorted(tbl), AtDueItem, NextMerges(tbl, tbl.start_index[fl.i]),
         FitsOnePacket(tbl.key[fl.i])
  PROVE  LET x == tbl.item[tbl.start_index[fl.i]]
             y == tbl.item[tbl.next_pkt_idx[tbl.start_index[fl.i]]]
             z == MergeTwoUdp4Packets(x, y, CheckNeighbor(x, y.inner.frag_offset, y.inner.len))
         IN  z.inner.frag_offset = x.inner.frag_offset /\ EndOf(z) = EndOf(y)
<1> DEFINE j == tbl.start_index[fl.i]
           n == tbl.next_pkt_idx[j]
           x == tbl.item[j]
           y == tbl.item[n]
           cmp == CheckNeighbor(x, y.inner.frag_offset, y.inner.len)
           z == MergeTwoUdp4Packets(x, y, cmp)
<1>1. j \in HeldItems(tbl) /\ <<x, tbl.key[fl.i]>> \in FitsRun
  BY FrontIsRun
<1>2. n # INVALID_ARRAY_INDEX /\ <<y, tbl.key[fl.i]>> \in FitsRun /\ cmp # 0 /\ cmp \in {-1, 0, 1}
  BY NextIsRun, CheckIsInt
<1>3. InFront(x, y)
  BY <1>1, <1>2 DEF LinksSorted
<1> HIDE DEF x, y, cmp
<1>4. /\ x \in Item /\ x.inner.frag_offset \in Nat /\ x.inner.len \in Nat \ {0}
      /\ y \in Item /\ y.inner.frag_offset \in Nat /\ y.inner.len \in Nat \ {0}
      /\ KeyOf(x) = tbl.key[fl.i] /\ cmp \in Int
  BY <1>1, <1>2, RunKey
<1>5. x.inner.frag_offset + x.inner.len <= y.inner.frag_offset
  BY <1>3, <1>4 DEF InFront, EndOf
<1>6. cmp = 1 /\ y.inner.frag_offset = x.inner.frag_offset + x.inner.len
  BY <1>2, <1>4, <1>5 DEF CheckNeighbor, cmp
<1>7. /\ z.inner.len = x.inner.len + y.inner.len
      /\ z.inner.frag_offset = IF cmp > 0 THEN x.inner.frag_offset ELSE y.inner.frag_offset
  BY <1>4, MergedUdp4Item
<1> HIDE DEF z
<1>8. z.inner.frag_offset = x.inner.frag_offset /\ EndOf(z) = EndOf(y)
  BY <1>4, <1>6, <1>7 DEF EndOf
<1> QED
  BY <1>8 DEF z, cmp, x, y, n, j

LEMMA FlushMergeSorted ==
  ASSUME Inv, LinksSorted(tbl), FlushMerge
  PROVE  LinksSorted(tbl')
<1> DEFINE j == tbl.start_index[fl.i]
           n == tbl.next_pkt_idx[j]
           x == tbl.item[j]
           y == tbl.item[n]
           z == MergeTwoUdp4Packets(x, y, CheckNeighbor(x, y.inner.frag_offset, y.inner.len))
           k == tbl.key[fl.i]
<1>1. AtDueItem /\ NextMerges(tbl, j) /\ tbl' = Absorb(tbl, j, z)
  BY DEF FlushMerge
<1>2. Sound(tbl, Item, Key, FitsRun)
  BY DEF Inv, StateOK
<1>3. fl.i \in LiveFlows(tbl) /\ j \in HeldItems(tbl)
  BY <1>1, FrontIsRun
<1>4. /\ n # INVALID_ARRAY_INDEX /\ n \in HeldItems(tbl) /\ <<y, k>> \in FitsRun
      /\ z \in Item /\ <<z, k>> \in FitsRun
  BY <1>1, NextIsRun
<1>5. FitsOnePacket(k) => EndOf(z) = EndOf(y)
  BY <1>1, FlushMergeAppends
<1> HIDE DEF z
<1>6. NextAbsorbed(tbl, tbl', fl.i, z)
  BY <1>1, <1>2, <1>3, <1>4, AbsorbSound, NullAssumption
<1>7. KeyOf(y) = k /\ KeyOf(z) = k
  BY <1>4, RunKey
<1>8. tbl.next_pkt_idx[n] # INVALID_ARRAY_INDEX => InFront(z, tbl.item[tbl.next_pkt_idx[n]])
  <2> SUFFICES ASSUME tbl.next_pkt_idx[n] # INVALID_ARRAY_INDEX
               PROVE  InFront(z, tbl.item[tbl.next_pkt_idx[n]])
    OBVIOUS
  <2>1. InFront(y, tbl.item[tbl.next_pkt_idx[n]])
    BY <1>4 DEF LinksSorted
  <2> QED
    BY <1>5, <1>7, <2>1 DEF InFront
<1> QED
  BY <1>2, <1>3, <1>6, <1>8, AbsorbSorted

LEMMA NextSorted ==
  ASSUME FramesComplete, NoOverlap, Inv, LinksSorted(tbl), [Next]_vars
  PROVE  LinksSorted(tbl')
<1>1. Sound(tbl, Item, Key, FitsRun) /\ HeldOnce(tbl, Got) /\ now \in Nat /\ offered \subseteq Pkts
  BY CallAssumption DEF Inv, StateOK, TypeInvariant
<1>2. ASSUME NEW p \in Pkts, Receive(p)
      PROVE  LinksSorted(tbl')
  <2>1. PICK o \in ReassembleTrimmed(tbl, Trim(p), now) : tbl' = o.tbl
    BY <1>2 DEF Receive, Offer, Reassemble
  <2>2. Trim(p) \in Trimmed /\ Trim(p) \notin Got
    BY <1>1, <1>2, GotMore DEF Receive, Offer
  <2>3. LinksSorted(o.tbl)
    BY <1>1, <2>2, ReassembleSorted
  <2> QED
    BY <2>1, <2>3
<1>3. CASE FlushItem
  <2>1. tbl' = FlushFirst(tbl, fl.i) /\ fl.i \in LiveFlows(tbl)
    BY <1>3, FrontIsRun DEF FlushItem, WriteFront
  <2> QED
    BY <1>1, <2>1, FlushFirstSorted
<1>4. CASE FlushCalls \/ FlushNextFlow \/ FlushReturn \/ Tick \/ UNCHANGED vars
  <2>1. tbl' = tbl
    BY <1>4 DEF FlushCalls, FlushCall, FlushNextFlow, FlushReturn, Tick, vars
  <2> QED
    BY <2>1
<1> QED
  BY <1>2, <1>3, <1>4, FlushMergeSorted DEF Next, FlushStep

(* The items of a flow stay in the order of their fragments, none reaching *)
(* into the next, wherever a fragment is stored and whatever it is merged  *)
(* with, as long as the network delivers whole frames and no overlapping   *)
(* fragments.                                                              *)
THEOREM ChainsStaySorted ==
  ASSUME FramesComplete, NoOverlap
  PROVE  Spec => []ChainsSorted
<1>1. Init => LinksSorted(tbl)
  <2> SUFFICES ASSUME Init PROVE LinksSorted(tbl)
    OBVIOUS
  <2>1. HeldItems(tbl) = {}
    BY DEF Init, NewTable, HeldItems
  <2> QED
    BY <2>1 DEF LinksSorted
<1>2. Inv /\ LinksSorted(tbl) /\ [Next]_vars => LinksSorted(tbl)'
  BY NextSorted
<1>3. Inv /\ LinksSorted(tbl) => ChainsSorted
  <2> SUFFICES ASSUME Inv, LinksSorted(tbl), NEW f \in LiveFlows(tbl), FitsOnePacket(tbl.key[f]),
                      NEW i \in Chain(tbl, tbl.start_index[f]),
                      tbl.next_pkt_idx[i] # INVALID_ARRAY_INDEX
               PROVE  tbl.item[i].inner.frag_offset + tbl.item[i].inner.len
                         <= tbl.item[tbl.next_pkt_idx[i]].inner.frag_offset
    BY DEF ChainsSorted
  <2>1. i \in HeldItems(tbl) /\ KeyOf(tbl.item[i]) = tbl.key[f]
    BY ItemsOfFlow DEF Inv, StateOK
  <2> QED
    BY <2>1 DEF LinksSorted, InFront, EndOf
<1> QED
  BY <1>1, <1>2, <1>3, RunInv, PTL DEF Spec

-----------------------------------------------------------------------------
(* What one call of flush writes.                                          *)

(* What the call of flush in progress has written of a datagram ends       *)
(* before what is still held of it begins.                                 *)
LastSeg(w) == w.segs[Len(w.segs)]

EndsBefore(t, p, f) ==
  FlowKey(p) = t.key[f] /\ FitsOnePacket(t.key[f])
     => End(p) < t.item[t.start_index[f]].inner.frag_offset

WrittenBefore ==
  fl # NULL =>
    /\ fl.k <= Len(out)
    /\ \A n \in (Len(out) - fl.k + 1)..Len(out) :
          \A f \in LiveFlows(tbl) : EndsBefore(tbl, LastSeg(out[n]), f)

(* A merge leaves the start of the first item where it is.                 *)
LEMMA MergeKeepsBefore ==
  ASSUME Inv, LinksSorted(tbl), FlushMerge,
         NEW p, NEW f \in LiveFlows(tbl'), \A g \in LiveFlows(tbl) : EndsBefore(tbl, p, g)
  PROVE  EndsBefore(tbl', p, f)
<1> DEFINE j == tbl.start_index[fl.i]
           n == tbl.next_pkt_idx[j]
           x == tbl.item[j]
           y == tbl.item[n]
           z == MergeTwoUdp4Packets(x, y, CheckNeighbor(x, y.inner.frag_offset, y.inner.len))
           k == tbl.key[fl.i]
           s == tbl.start_index[f]
<1>1. AtDueItem /\ NextMerges(tbl, j) /\ tbl' = Absorb(tbl, j, z)
  BY DEF FlushMerge
<1>2. Sound(tbl, Item, Key, FitsRun)
  BY DEF Inv, StateOK
<1>3. fl.i \in LiveFlows(tbl)
  BY <1>1, FrontIsRun
<1>4. n # INVALID_ARRAY_INDEX /\ z \in Item /\ <<z, k>> \in FitsRun
  BY <1>1, NextIsRun
<1>5. FitsOnePacket(k) => z.inner.frag_offset = x.inner.frag_offset
  BY <1>1, FlushMergeAppends
<1> HIDE DEF z
<1>6. NextAbsorbed(tbl, tbl', fl.i, z)
  BY <1>1, <1>2, <1>3, <1>4, AbsorbSound, NullAssumption
<1>7. /\ tbl'.start_index = tbl.start_index /\ tbl'.key = tbl.key /\ tbl'.item[j] = z
      /\ HeldItems(tbl') = HeldItems(tbl) \ {n} /\ j \in HeldItems(tbl)
      /\ \A i \in HeldItems(tbl') \ {j} : tbl'.item[i] = tbl.item[i]
  BY <1>6 DEF NextAbsorbed
<1>8. f \in LiveFlows(tbl) /\ EndsBefore(tbl, p, f)
  BY <1>7 DEF LiveFlows
<1>9. CASE f = fl.i
  <2>1. FitsOnePacket(k) => tbl'.item[s].inner.frag_offset = tbl.item[s].inner.frag_offset
    BY <1>5, <1>7, <1>9
  <2>2. tbl'.key[f] = k /\ tbl.key[f] = k /\ tbl'.start_index[f] = s
    BY <1>7, <1>9
  <2> HIDE DEF s, k
  <2> QED
    BY <1>8, <2>1, <2>2 DEF EndsBefore, s
<1>10. CASE f # fl.i
  <2>1. s \in HeldItems(tbl) /\ s # j /\ s # n
    BY <1>2, <1>3, <1>4, <1>7, <1>8, <1>10 DEF Sound, WellLinked, NoDangling, NoSharing
  <2>2. tbl'.item[s] = tbl.item[s]
    BY <1>7, <2>1
  <2> QED
    BY <1>7, <1>8, <2>2 DEF EndsBefore
<1> QED
  BY <1>9, <1>10

(* A flush step on an item that merges with nothing behind it: the packet, *)
(* and all that ended before it, end before what is left of the flow.      *)
LEMMA ItemKeepsBefore ==
  ASSUME FramesComplete, Inv, LinksSorted(tbl), FlushItem, NEW p \in Candidates, NEW f \in LiveFlows(tbl'),
         \/ \A g \in LiveFlows(tbl) : EndsBefore(tbl, p, g)
         \/ LET s == tbl.item[tbl.start_index[fl.i]].inner.segs IN p = s[Len(s)]
  PROVE  EndsBefore(tbl', p, f)
<1> DEFINE j == tbl.start_index[fl.i]
           n == tbl.next_pkt_idx[j]
           x == tbl.item[j]
           y == tbl.item[n]
           k == tbl.key[fl.i]
           last == x.inner.segs[Len(x.inner.segs)]
<1>1. AtDueItem /\ ~NextMerges(tbl, j) /\ tbl' = FlushFirst(tbl, fl.i)
  BY DEF FlushItem, WriteFront
<1>2. Sound(tbl, Item, Key, FitsRun) /\ tbl \in TableOf(Item, Key) /\ WellLinked(tbl)
  BY DEF Inv, StateOK, Sound
<1>3. fl.i \in LiveFlows(tbl) /\ j \in HeldItems(tbl) /\ <<x, k>> \in FitsRun
  BY <1>1, FrontIsRun
<1>4. /\ x.inner.frag_offset \in Nat /\ x.inner.len \in Nat \ {0}
      /\ KeyOf(x) = k /\ End(last) = EndOf(x)
      /\ Len(x.inner.segs) \in Nat \ {0}
      /\ \A l \in 1..Len(x.inner.segs) : x.inner.segs[l] \in Candidates /\ FlowKey(x.inner.segs[l]) = k
  BY <1>3, RunKey
<1>5. FlowKey(last) = k /\ last \in Candidates
  <2> DEFINE l == Len(x.inner.segs)
  <2>1. l \in Nat \ {0} /\ \A i \in 1..l : x.inner.segs[i] \in Candidates /\ FlowKey(x.inner.segs[i]) = k
    BY <1>4
  <2> HIDE DEF l
  <2>2. l \in 1..l
    <3>1. l \in Nat \ {0}
      BY <2>1
    <3> QED
      BY ONLY <3>1
  <2>3. x.inner.segs[l] \in Candidates /\ FlowKey(x.inner.segs[l]) = k
    BY <2>1, <2>2
  <2> QED
    BY <2>3 DEF l
<1>6. /\ tbl'.start_index = [tbl.start_index EXCEPT ![fl.i] = n] /\ tbl'.key = tbl.key
      /\ tbl'.next_pkt_idx = tbl.next_pkt_idx
  BY <1>1, <1>2 DEF FlushFirst, DeleteItem, TableOf
<1>7. HeldItems(tbl') = HeldItems(tbl) \ {j} /\ \A i \in HeldItems(tbl') : tbl'.item[i] = tbl.item[i]
  BY <1>1, <1>2, <1>3, FlushFirstLeaves
<1>8. fl.i \in Slot /\ tbl.start_index \in [Slot -> Index]
  BY <1>2, <1>3 DEF LiveFlows, TableOf
<1> HIDE DEF last
<1>9. CASE f = fl.i
  <2>1. tbl'.start_index[f] = n /\ n # INVALID_ARRAY_INDEX
    BY <1>6, <1>8, <1>9 DEF LiveFlows
  <2>2. n \in HeldItems(tbl) /\ n \in Chain(tbl, j) /\ n # j
    <3>1. n \in HeldItems(tbl) /\ n # j
      BY <1>2, <1>3, <2>1 DEF WellLinked, NoDangling, NoSharing
    <3>2. j \in Slot /\ n \in Slot
      BY <1>3, <3>1 DEF HeldItems
    <3> QED
      BY <3>1, <3>2, ChainStarts, ChainGoesOn
  <2>3. <<y, k>> \in FitsRun
    BY <1>2, <1>3, <2>2, ItemsOfFlow
  <2>4. tbl'.item[n] = y /\ tbl'.key[f] = k
    BY <1>6, <1>7, <1>9, <2>2
  <2>5. InFront(x, y)
    BY <1>3, <2>1 DEF LinksSorted
  <2>6. ~ ( /\ CheckNeighbor(x, y.inner.frag_offset, y.inner.len) # 0
            /\ CanMerge(x, y.inner.len))
    BY <1>1, <2>1 DEF NextMerges
  <2>7. SUFFICES ASSUME FlowKey(p) = k, FitsOnePacket(k) PROVE End(p) < y.inner.frag_offset
    BY <2>1, <2>4 DEF EndsBefore
  <2> HIDE DEF x, y, k
  <2>8. y.inner.frag_offset \in Nat
    BY <2>3, RunKey
  <2>9. EndOf(x) <= y.inner.frag_offset
    BY <1>4, <2>5, <2>7 DEF InFront
  <2>10. EndOf(x) # y.inner.frag_offset
    <3> SUFFICES ASSUME y.inner.frag_offset = x.inner.frag_offset + x.inner.len PROVE FALSE
      BY DEF EndOf
    <3>1. CheckNeighbor(x, y.inner.frag_offset, y.inner.len) = 1
      BY DEF CheckNeighbor
    <3> QED
      BY <1>3, <2>3, <2>6, <2>7, <3>1, FitsMerges
  <2>11. EndOf(x) < y.inner.frag_offset /\ x.inner.frag_offset < EndOf(x) /\ EndOf(x) \in Nat
    <3>1. x.inner.frag_offset \in Nat /\ x.inner.len \in Nat \ {0}
      BY <1>4
    <3> QED
      BY ONLY <2>8, <2>9, <2>10, <3>1 DEF EndOf
  <2>12. CASE p = last
    BY <1>4, <2>11, <2>12
  <2>13. CASE \A g \in LiveFlows(tbl) : EndsBefore(tbl, p, g)
    <3>1. End(p) < x.inner.frag_offset
      BY <1>3, <2>7, <2>13 DEF EndsBefore, x, k
    <3>2. End(p) \in Nat
      BY CandidateType DEF End
    <3> QED
      BY <1>4, <2>8, <2>11, <3>1, <3>2
  <2> QED
    BY <2>12, <2>13 DEF last, x
<1>10. CASE f # fl.i
  <2>1. /\ f \in Slot /\ tbl'.start_index[f] = tbl.start_index[f] /\ tbl'.key[f] = tbl.key[f]
        /\ f \in LiveFlows(tbl)
    BY <1>6, <1>8, <1>10 DEF LiveFlows
  <2>2. tbl.start_index[f] \in HeldItems(tbl) /\ tbl.start_index[f] # j
    BY <1>2, <1>3, <1>10, <2>1 DEF WellLinked, NoDangling, NoSharing
  <2>3. tbl'.item[tbl.start_index[f]] = tbl.item[tbl.start_index[f]]
    BY <1>7, <2>2
  <2>4. CASE \A g \in LiveFlows(tbl) : EndsBefore(tbl, p, g)
    BY <2>1, <2>3, <2>4 DEF EndsBefore
  <2>5. CASE p = last
    <3>1. tbl.key[f] # k
      BY <1>2, <1>3, <1>10, <2>1 DEF Sound, KeysUnique
    <3> QED
      BY <1>5, <2>1, <2>5, <3>1 DEF EndsBefore
  <2> QED
    BY <2>4, <2>5 DEF last
<1> QED
  BY <1>9, <1>10

LEMMA LastIsCandidate ==
  ASSUME NEW w \in Flushed
  PROVE  LastSeg(w) \in Candidates
<1>1. PICK xk \in FitsRun : w = FlushedPacket(xk[1])
  BY DEF Flushed
<1>2. PICK x \in Item, k \in Key : xk = <<x, k>>
  BY DEF FitsRun
<1>3. w.segs = x.inner.segs /\ <<x, k>> \in FitsRun
  BY <1>1, <1>2, FlushedIsOutPkt
<1> DEFINE s == x.inner.segs
           l == Len(s)
<1>4. l \in Nat \ {0} /\ \A n \in 1..l : s[n] \in Candidates
  BY <1>3, RunKey
<1> HIDE DEF s, l
<1>5. l \in 1..l
  BY <1>4
<1>6. s[l] \in Candidates
  BY <1>4, <1>5
<1> QED
  BY <1>3, <1>6 DEF LastSeg, s, l

LEMMA NextWritten ==
  ASSUME FramesComplete, Inv, LinksSorted(tbl), WrittenBefore, [Next]_vars
  PROVE  WrittenBefore'
<1>1. out \in Seq(Flushed) /\ fl \in FlushLocals \cup {NULL} /\ NULL \notin FlushLocals
  BY NullAssumption DEF Inv, StateOK, TypeInvariant
<1> DEFINE l == Len(out)
<1>2. l \in Nat /\ \A n \in 1..l : out[n] \in Flushed
  BY <1>1
<1>3. ASSUME fl # NULL
      PROVE  /\ fl.k \in Nat /\ fl.k <= l
             /\ \A n \in (l - fl.k + 1)..l : \A f \in LiveFlows(tbl) : EndsBefore(tbl, LastSeg(out[n]), f)
  <2>1. fl \in FlushLocals
    BY <1>1, <1>3
  <2>2. fl.k \in Nat
    BY <2>1 DEF FlushLocals
  <2> QED
    BY <1>3, <2>2 DEF WrittenBefore, LastSeg
<1>4. CASE FlushItem
  <2> DEFINE x == tbl.item[tbl.start_index[fl.i]]
             w == FlushedPacket(x)
             k == fl.k
  <2>1. /\ w \in Flushed /\ w.segs = x.inner.segs /\ fl \in FlushLocals
        /\ out' = Append(out, w)
        /\ fl' = IF fl.k + 1 = fl.nb_out THEN NULL ELSE [fl EXCEPT !.k = fl.k + 1]
    BY <1>4, FrontIsRun DEF FlushItem, WriteFront
  <2>2. fl # NULL /\ k \in Nat /\ k <= l
    BY <1>3, <1>4 DEF FlushItem, AtDueItem
  <2>3. Len(out') = l + 1 /\ out'[l + 1] = w /\ \A n \in 1..l : out'[n] = out[n]
    <3> HIDE DEF w
    <3> QED
      BY <1>1, <2>1
  <2>4. LastSeg(w) = x.inner.segs[Len(x.inner.segs)]
    BY <2>1 DEF LastSeg
  <2>5. SUFFICES ASSUME fl' # NULL,
                        NEW n \in ((l + 1) - (k + 1) + 1)..(l + 1), NEW f \in LiveFlows(tbl')
                 PROVE  EndsBefore(tbl', LastSeg(out'[n]), f)
    <3>1. fl' # NULL => fl'.k = k + 1
      BY <2>1 DEF FlushLocals
    <3>2. k + 1 <= l + 1
      BY <1>2, <2>2
    <3> HIDE DEF l, k, w
    <3>3. SUFFICES ASSUME fl' # NULL
                   PROVE  /\ fl'.k <= Len(out')
                          /\ \A n \in (Len(out') - fl'.k + 1)..Len(out') :
                                \A f \in LiveFlows(tbl') : EndsBefore(tbl', LastSeg(out'[n]), f)
      BY DEF WrittenBefore, LastSeg
    <3>4. \A n \in ((l + 1) - (k + 1) + 1)..(l + 1) :
             \A f \in LiveFlows(tbl') : EndsBefore(tbl', LastSeg(out'[n]), f)
      BY <2>5, <3>3
    <3>5. fl'.k = k + 1 /\ Len(out') = l + 1
      BY <2>3, <3>1, <3>3
    <3> QED
      BY <3>2, <3>4, <3>5
  <2> HIDE DEF w
  <2>6. CASE n = l + 1
    <3>1. LastSeg(out'[n]) = x.inner.segs[Len(x.inner.segs)] /\ LastSeg(out'[n]) \in Candidates
      BY <2>1, <2>3, <2>4, <2>6, LastIsCandidate
    <3> QED
      BY <1>4, <3>1, ItemKeepsBefore
  <2>7. CASE n # l + 1
    <3>1. n \in 1..l /\ n \in (l - k + 1)..l
      <4> HIDE DEF l, k
      <4> QED
        BY <1>2, <2>2, <2>5, <2>7
    <3>2. out'[n] = out[n] /\ LastSeg(out[n]) \in Candidates
      BY <1>2, <2>3, <3>1, LastIsCandidate
    <3>3. \A g \in LiveFlows(tbl) : EndsBefore(tbl, LastSeg(out[n]), g)
      BY <1>3, <2>2, <3>1
    <3>4. EndsBefore(tbl', LastSeg(out[n]), f)
      BY <1>4, <3>2, <3>3, ItemKeepsBefore
    <3> QED
      BY <3>2, <3>4
  <2> QED
    BY <2>6, <2>7
<1>5. CASE FlushMerge
  <2>1. UNCHANGED <<out, fl>>
    BY <1>5 DEF FlushMerge
  <2>2. ASSUME NEW p, NEW f \in LiveFlows(tbl'), \A g \in LiveFlows(tbl) : EndsBefore(tbl, p, g)
        PROVE  EndsBefore(tbl', p, f)
    BY <1>5, <2>2, MergeKeepsBefore
  <2> QED
    BY <2>1, <2>2 DEF WrittenBefore
<1>6. CASE \E p \in Pkts : Receive(p)
  BY <1>6 DEF Receive, Offer, WrittenBefore
<1>7. CASE FlushCalls
  <2>1. fl'.k = 0 /\ out' = out
    BY <1>7 DEF FlushCalls, FlushCall
  <2>2. (l - 0 + 1)..l = {} /\ 0 <= l
    BY <1>2
  <2> QED
    BY <2>1, <2>2 DEF WrittenBefore
<1>8. CASE FlushNextFlow
  <2>1. fl \in FlushLocals /\ fl' = [fl EXCEPT !.i = fl.i + 1]
    BY <1>1, <1>8 DEF FlushNextFlow
  <2>2. fl # NULL /\ fl'.k = fl.k /\ UNCHANGED <<tbl, out>>
    BY <1>8, <2>1 DEF FlushNextFlow, FlushLocals
  <2> QED
    BY <2>2 DEF WrittenBefore, EndsBefore
<1>9. CASE FlushReturn
  BY <1>9 DEF FlushReturn, WrittenBefore
<1>10. CASE Tick \/ UNCHANGED vars
  <2>1. UNCHANGED <<tbl, out, fl>>
    BY <1>10 DEF Tick, vars
  <2> QED
    BY <2>1 DEF WrittenBefore, EndsBefore
<1> QED
  BY <1>4, <1>5, <1>6, <1>7, <1>8, <1>9, <1>10 DEF Next, FlushStep

(* A call of flush never writes two packets of which the second continues  *)
(* the first: by then the merge has made one of them.                      *)
THEOREM FlushAlwaysMerges ==
  ASSUME FramesComplete, NoOverlap, Encap # "GTP"
  PROVE  Spec => FlushMergesContiguous
<1> DEFINE Q == /\ Inv
                /\ LinksSorted(tbl)
                /\ WrittenBefore
           A == fl # NULL /\ Len(out') > Len(out) =>
                  LET q == out'[Len(out')].segs[1]
                  IN  FitsOnePacket(FlowKey(q)) =>
                        \A n \in (Len(out) - fl.k + 1)..Len(out) :
                           ~ Adjacent(out[n].segs[Len(out[n].segs)], q)
<1>1. Init => LinksSorted(tbl) /\ WrittenBefore
  <2> SUFFICES ASSUME Init PROVE LinksSorted(tbl) /\ WrittenBefore
    OBVIOUS
  <2>1. HeldItems(tbl) = {} /\ fl = NULL
    BY DEF Init, NewTable, HeldItems
  <2> QED
    BY <2>1 DEF LinksSorted, WrittenBefore
<1>2. Inv /\ LinksSorted(tbl) /\ WrittenBefore /\ [Next]_vars => LinksSorted(tbl)' /\ WrittenBefore'
  BY NextSorted, NextWritten
<1>3. ASSUME Inv, LinksSorted(tbl), WrittenBefore, [Next]_vars
      PROVE  [A]_vars
  <2> DEFINE x == tbl.item[tbl.start_index[fl.i]]
             w == FlushedPacket(x)
  <2>1. out \in Seq(Flushed)
    BY <1>3 DEF Inv, StateOK, TypeInvariant
  <2>2. CASE FlushItem
    <3>1. /\ w.segs = x.inner.segs /\ w \in Flushed /\ fl.i \in LiveFlows(tbl)
          /\ <<x, tbl.key[fl.i]>> \in FitsRun /\ out' = Append(out, w)
      BY <1>3, <2>2, FrontIsRun DEF FlushItem, WriteFront
    <3> DEFINE q == x.inner.segs[1]
    <3>2. q.off = x.inner.frag_offset /\ FlowKey(q) = tbl.key[fl.i]
      BY <3>1, RunKey DEF KeyOf
    <3> HIDE DEF x, w
    <3>3. out'[Len(out')] = w
      BY <2>1, <3>1
    <3>4. SUFFICES ASSUME fl # NULL, FitsOnePacket(FlowKey(q)),
                          NEW n \in (Len(out) - fl.k + 1)..Len(out),
                          Adjacent(LastSeg(out[n]), q)
                   PROVE  FALSE
      BY <3>1, <3>3 DEF LastSeg
    <3> DEFINE p == LastSeg(out[n])
    <3>5. n \in 1..Len(out)
      <4>1. fl.k \in Nat /\ fl.k <= Len(out) /\ Len(out) \in Nat
        BY <1>3, <2>1, <3>4, NullAssumption DEF WrittenBefore, Inv, StateOK, TypeInvariant, FlushLocals
      <4> QED
        BY <3>4, <4>1
    <3>6. p \in Candidates
      BY <2>1, <3>5, LastIsCandidate
    <3>7. FlowKey(p) = FlowKey(q) /\ q.off = p.off + p.total
      BY <3>4 DEF Adjacent, FlowKey
    <3>8. EndsBefore(tbl, p, fl.i)
      BY <1>3, <3>1, <3>4 DEF WrittenBefore, LastSeg
    <3> HIDE DEF p, q
    <3>9. End(p) < q.off
      BY <3>2, <3>4, <3>7, <3>8 DEF EndsBefore, x
    <3>10. p.total = p.len /\ p.off \in Nat /\ p.len \in Nat
      BY <3>6, CompleteCandidates, CandidateType
    <3> QED
      BY <3>7, <3>9, <3>10 DEF End
  <2>3. CASE ~FlushItem
    <3>1. out' = out
      BY <1>3, <2>3 DEF Next, FlushStep, Receive, Offer, FlushMerge, FlushCalls, FlushCall,
                        FlushNextFlow, FlushReturn, Tick, vars
    <3>2. Len(out) \in Nat
      BY <2>1
    <3> QED
      BY <3>1, <3>2
  <2> QED
    BY <2>2, <2>3
<1> QED
  BY <1>1, <1>2, <1>3, RunInv, PTL DEF Spec, FlushMergesContiguous
=============================================================================
