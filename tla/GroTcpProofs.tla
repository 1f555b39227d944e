----------------------------- MODULE GroTcpProofs -----------------------------
(***************************************************************************)
(* Lemmas about the item of the TCP types: what a merge does to the fields *)
(* an item keeps and to the mbuf chain they describe.  S stands for the    *)
(* packets of a type, c for the connection a flow is of.                   *)
(***************************************************************************)
EXTENDS GroTcp, GroTypeProofs

-----------------------------------------------------------------------------
(* Sequence numbers wrap.                                                  *)

LEMMA DivisionUnique ==
  ASSUME NEW n \in Nat \ {0}, NEW q \in Int, NEW r \in 0..(n - 1)
  PROVE  (n * q + r) % n = r
  OBVIOUS

LEMMA Distribute ==
  ASSUME NEW n \in Int, NEW a \in Int, NEW b \in Int
  PROVE  n * a + n * b = n * (a + b)
  OBVIOUS

(* A sum may be wrapped on the way.                                        *)
LEMMA ModPlus ==
  ASSUME NEW a \in Int, NEW b \in Int, NEW n \in Nat \ {0}
  PROVE  ((a % n) + b) % n = (a + b) % n
<1> DEFINE q == a \div n
           c == (a % n) + b
           p == c \div n
           r == c % n
<1>1. q \in Int /\ a % n \in 0..(n - 1) /\ a = n * q + (a % n)
  OBVIOUS
<1>2. c \in Int
  BY <1>1
<1> HIDE DEF c
<1>3. p \in Int /\ r \in 0..(n - 1) /\ c = n * p + r
  BY <1>2
<1> HIDE DEF q, p, r
<1>4. a + b = n * q + c
  BY <1>1 DEF c
<1>5. n * q \in Int /\ n * p \in Int /\ n * q + n * p = n * (q + p)
  BY <1>1, <1>3, Distribute
<1>6. a + b = n * (q + p) + r
  BY <1>3, <1>4, <1>5
<1>7. q + p \in Int
  BY <1>1, <1>3
<1>8. (n * (q + p) + r) % n = r
  BY <1>3, <1>7, DivisionUnique
<1> QED
  BY <1>6, <1>8 DEF r, c

-----------------------------------------------------------------------------
(* The mbuf chain after a merge.                                           *)

(* What is needed of the fields of a packet.                               *)
TcpPackets(S) ==
  \A p \in S : /\ p.seq \in 0..(SeqSpace - 1) /\ p.len \in Nat
               /\ p.ip_id \in Nat /\ p.df \in BOOLEAN

LEMMA NewTcpItemType ==
  ASSUME NEW S, TcpPackets(S), NEW p \in S, NEW time \in Nat
  PROVE  NewTcpItem(p, time) \in TcpItem(S)
<1>1. <<p>> \in MbufChain(S)
  BY DEF MbufChain
<1> QED
  BY <1>1 DEF NewTcpItem, IpId, TcpItem, TcpPackets

(* The fields of an item after a merge; it stays an item.                  *)
LEMMA MergedItem ==
  ASSUME NEW S, TcpPackets(S), NEW x \in TcpItem(S), NEW p \in S, NEW cmp \in Int
  PROVE  LET y == MergeTwoTcpPackets(x, p, cmp)
         IN  /\ y \in TcpItem(S)
             /\ y.segs = Chained(x.segs, p, cmp)
             /\ y.sent_seq = IF cmp > 0 THEN x.sent_seq ELSE p.seq
             /\ y.ip_id = IpId(p)
             /\ y.len = x.len + p.len
             /\ y.nb_merged = x.nb_merged + 1
             /\ y.is_atomic = x.is_atomic
<1> DEFINE y == MergeTwoTcpPackets(x, p, cmp)
           s == Chained(x.segs, p, cmp)
           q == IF cmp > 0 THEN x.sent_seq ELSE p.seq
<1>1. y = [x EXCEPT !.segs = s, !.sent_seq = q, !.ip_id = IpId(p),
                    !.len = x.len + p.len, !.nb_merged = x.nb_merged + 1]
  BY DEF MergeTwoTcpPackets, Chained
<1>2. s \in MbufChain(S)
  BY ChainedPackets DEF TcpItem
<1>3. /\ x.len + p.len \in Nat /\ x.nb_merged + 1 \in Nat
      /\ q \in 0..(SeqSpace - 1) /\ IpId(p) \in Nat
  BY DEF TcpItem, IpId, TcpPackets
<1> HIDE DEF s, q
<1>4. y = [ segs |-> s, len |-> x.len + p.len, sent_seq |-> q, ip_id |-> IpId(p),
            is_atomic |-> x.is_atomic, nb_merged |-> x.nb_merged + 1,
            start_time |-> x.start_time ]
  BY <1>1 DEF TcpItem
<1>5. x.is_atomic \in BOOLEAN /\ x.start_time \in Nat
  BY DEF TcpItem
<1>6. y \in TcpItem(S)
  BY <1>2, <1>3, <1>4, <1>5 DEF TcpItem
<1> HIDE DEF y
<1> QED
  BY <1>4, <1>6 DEF y, s, q

(* Payload of a new item and of a merged one: the length kept is that of   *)
(* the chain, however the merges came.                                     *)
CountsPayload(x) == x.len = PayloadOf(x.segs) /\ x.nb_merged = Len(x.segs)

LEMMA NewItemCounts ==
  ASSUME NEW S, TcpPackets(S), NEW p \in S, NEW time \in Nat
  PROVE  CountsPayload(NewTcpItem(p, time)) /\ PayloadOf(<<p>>) = p.len
<1>1. [n \in DOMAIN <<p>> |-> <<p>>[n].len] \in [1..1 -> Nat]
  BY DEF TcpPackets
<1>2. PayloadOf(<<p>>) = p.len
  BY <1>1, PayloadSingle DEF PayloadOf
<1> QED
  BY <1>2 DEF CountsPayload, NewTcpItem

(* The payload of a chain with one packet put before it.                   *)
LEMMA PayloadPrepend ==
  ASSUME NEW n \in Nat, NEW f \in [1..n -> Nat], NEW g \in [1..1 -> Nat],
         NEW h \in [1..(1 + n) -> Nat],
         \A i \in 1..n : h[1 + i] = f[i],
         \A i \in 1..1 : h[i] = g[i]
  PROVE  Payload(h) = Payload(g) + Payload(f)
<1> DEFINE k == 1
<1>1. k \in Nat /\ g \in [1..k -> Nat] /\ h \in [1..(k + n) -> Nat]
  OBVIOUS
<1>2. (\A i \in 1..k : h[i] = g[i]) /\ (\A i \in 1..n : h[k + i] = f[i])
  OBVIOUS
<1> HIDE DEF k
<1> QED
  BY <1>1, <1>2, PayloadConcat

LEMMA ChainedPayload ==
  ASSUME NEW S, TcpPackets(S), NEW s \in MbufChain(S), NEW p \in S, NEW cmp \in Int
  PROVE  PayloadOf(Chained(s, p, cmp)) = PayloadOf(s) + p.len
<1> DEFINE u == Chained(s, p, cmp)
           n == Len(s)
           F == [m \in DOMAIN s |-> s[m].len]
           G == [m \in DOMAIN <<p>> |-> <<p>>[m].len]
           H == [m \in DOMAIN u |-> u[m].len]
<1>1. /\ n \in Nat \ {0} /\ DOMAIN s = 1..n /\ \A m \in 1..n : s[m] \in S
      /\ u \in MbufChain(S) /\ DOMAIN u = 1..(n + 1)
      /\ cmp > 0 => u[n + 1] = p /\ \A m \in 1..n : u[m] = s[m]
      /\ ~(cmp > 0) => u[1] = p /\ \A m \in 1..n : u[m + 1] = s[m]
  BY ChainedPackets
<1> HIDE DEF u, n
<1>2. \A m \in 1..(n + 1) : u[m] \in S
  <2>1. CASE cmp > 0
    BY <1>1, <2>1
  <2>2. CASE ~(cmp > 0)
    <3>1. \A m \in 1..(n + 1) : m = 1 \/ (m - 1 \in 1..n /\ (m - 1) + 1 = m)
      BY <1>1
    <3> QED
      BY <1>1, <2>2, <3>1
  <2> QED
    BY <2>1, <2>2
<1>3. F \in [1..n -> Nat] /\ G \in [1..1 -> Nat] /\ H \in [1..(n + 1) -> Nat] /\ G[1] = p.len
  BY <1>1, <1>2 DEF TcpPackets
<1>4. Payload(G) = p.len
  <2> HIDE DEF G
  <2> QED
    BY <1>3, PayloadSingle
<1>5. CASE cmp > 0
  <2>1. \A m \in 1..n : H[m] = F[m]
    BY <1>1, <1>5
  <2>2. \A m \in 1..1 : H[n + m] = G[m]
    BY <1>1, <1>3, <1>5
  <2> HIDE DEF F, G, H
  <2>3. Payload(H) = Payload(F) + Payload(G)
    <3>1. n \in Nat /\ 1 \in Nat
      BY <1>1
    <3>2. F \in [1..n -> Nat] /\ G \in [1..1 -> Nat] /\ H \in [1..(n + 1) -> Nat]
      BY <1>3
    <3> QED
      BY ONLY <2>1, <2>2, <3>1, <3>2, PayloadConcat
  <2> QED
    BY <1>4, <2>3 DEF PayloadOf, F, H, u
<1>6. CASE ~(cmp > 0)
  <2>1. \A m \in 1..n : H[1 + m] = F[m]
    BY <1>1, <1>6
  <2>2. \A m \in 1..1 : H[m] = G[m]
    BY <1>1, <1>3, <1>6
  <2>3. H \in [1..(1 + n) -> Nat]
    BY <1>1, <1>3
  <2> HIDE DEF F, G, H
  <2>4. Payload(H) = Payload(G) + Payload(F)
    <3>1. n \in Nat /\ F \in [1..n -> Nat] /\ G \in [1..1 -> Nat]
      BY <1>1, <1>3
    <3> QED
      BY ONLY <2>1, <2>2, <2>3, <3>1, PayloadPrepend
  <2>5. Payload(F) \in Nat
    BY <1>1, <1>3, BytesFinite
  <2>6. p.len \in Nat
    BY DEF TcpPackets
  <2>7. Payload(H) = Payload(F) + p.len
    BY <1>4, <2>4, <2>5, <2>6
  <2> QED
    BY <2>7 DEF PayloadOf, F, H, u
<1> QED
  BY <1>5, <1>6

LEMMA MergeCounts ==
  ASSUME NEW S, TcpPackets(S), NEW x \in TcpItem(S), NEW p \in S, NEW cmp \in Int,
         CountsPayload(x)
  PROVE  CountsPayload(MergeTwoTcpPackets(x, p, cmp))
<1>1. x.segs \in MbufChain(S)
  BY DEF TcpItem
<1>2. PayloadOf(Chained(x.segs, p, cmp)) = PayloadOf(x.segs) + p.len
  BY <1>1, ChainedPayload
<1>3. Len(Chained(x.segs, p, cmp)) = Len(x.segs) + 1
  BY <1>1, ChainedPackets
<1> DEFINE y == MergeTwoTcpPackets(x, p, cmp)
<1>4. /\ y.segs = Chained(x.segs, p, cmp)
      /\ y.len = x.len + p.len /\ y.nb_merged = x.nb_merged + 1
  BY MergedItem
<1> HIDE DEF y
<1>5. CountsPayload(y)
  BY <1>2, <1>3, <1>4 DEF CountsPayload
<1> QED
  BY <1>5 DEF y

-----------------------------------------------------------------------------
(* An item as a run.                                                       *)

(* The fields of item x describe its mbuf chain, a run of connection c.    *)
(* Beyond what the properties of the types say: all packets agree with the *)
(* first, which is the one the neighbour test looks at, and the ID kept is *)
(* that of the first packet or of the last.                                *)
RunOf(x, c) ==
  LET s == x.segs
      n == Len(s)
  IN  /\ \A m \in 1..n : /\ s[m].conn = c /\ s[m].df = x.is_atomic
                         /\ s[m].l4_len = s[1].l4_len /\ s[m].opts = s[1].opts
      /\ \A m \in 1..(n - 1) : Follows(s[m], s[m + 1])
      /\ DescribesChain(x)
      /\ ~x.is_atomic => /\ s[n].ip_id = s[1].ip_id + n - 1
                         /\ x.ip_id \in {s[1].ip_id, s[n].ip_id}

(* The identification of p is next to that of the end it is chained to.    *)
IdAdjacent(x, p, cmp) ==
  ~p.df => /\ cmp > 0 => p.ip_id = x.segs[Len(x.segs)].ip_id + 1
           /\ cmp < 0 => x.segs[1].ip_id = p.ip_id + 1

LEMMA NewItemIsRun ==
  ASSUME NEW S, TcpPackets(S), NEW p \in S, NEW time \in Nat
  PROVE  RunOf(NewTcpItem(p, time), p.conn)
<1> DEFINE x == NewTcpItem(p, time)
<1>1. x.segs = <<p>> /\ Len(<<p>>) = 1 /\ <<p>>[1] = p
  BY DEF NewTcpItem
<1>2. /\ x.is_atomic = p.df /\ x.ip_id = IpId(p) /\ x.nb_merged = 1
      /\ x.sent_seq = p.seq /\ x.len = p.len
  BY DEF NewTcpItem
<1> HIDE DEF x
<1>3. DescribesChain(x)
  BY <1>1, <1>2 DEF DescribesChain
<1>4. p.ip_id = p.ip_id + 1 - 1 /\ (~p.df => x.ip_id = p.ip_id)
  BY <1>2 DEF TcpPackets, IpId
<1>5. RunOf(x, p.conn)
  BY <1>1, <1>2, <1>3, <1>4 DEF RunOf
<1> QED
  BY <1>5 DEF x

(* What the neighbour test says of p.                                      *)
LEMMA NeighbourFields ==
  ASSUME NEW S, TcpPackets(S), NEW x \in TcpItem(S), NEW c, RunOf(x, c),
         NEW p \in S, NEW cmp, cmp = CheckSeqOption(x, p), cmp # 0
  PROVE  /\ cmp \in {1, -1}
         /\ p.df = x.is_atomic
         /\ p.l4_len = x.segs[1].l4_len /\ p.opts = x.segs[1].opts
         /\ cmp = 1 => p.seq = (x.sent_seq + x.len) % SeqSpace /\ (~p.df => p.ip_id = x.ip_id + 1)
         /\ cmp = -1 => /\ (p.seq + p.len) % SeqSpace = x.sent_seq
                        /\ ~p.df => p.ip_id + x.nb_merged = x.ip_id
<1>1. Head(x.segs) = x.segs[1]
  BY DEF TcpItem, MbufChain
<1>2. SameOptions(x, p)
  <2> SUFFICES ASSUME ~SameOptions(x, p) PROVE FALSE
    OBVIOUS
  <2>1. cmp = 0
    BY DEF CheckSeqOption
  <2> QED
    BY <2>1
<1>3. CASE FollowsItem(x, p)
  <2>1. cmp = 1
    BY <1>2, <1>3 DEF CheckSeqOption
  <2> QED
    BY <1>1, <1>2, <1>3, <2>1 DEF SameOptions, FollowsItem, IpId
<1>4. CASE ~FollowsItem(x, p) /\ LeadsItem(x, p)
  <2>1. cmp = -1
    BY <1>2, <1>4 DEF CheckSeqOption
  <2> QED
    BY <1>1, <1>2, <1>4, <2>1 DEF SameOptions, LeadsItem, IpId
<1>5. CASE ~FollowsItem(x, p) /\ ~LeadsItem(x, p)
  <2>1. cmp = 0
    BY <1>2, <1>5 DEF CheckSeqOption
  <2> QED
    BY <2>1
<1> QED
  BY <1>3, <1>4, <1>5

(* The merge of a neighbour from the same connection keeps the run.        *)
LEMMA MergeIsRun ==
  ASSUME NEW S, TcpPackets(S), NEW x \in TcpItem(S), NEW c, RunOf(x, c),
         NEW p \in S, p.conn = c,
         NEW cmp, cmp = CheckSeqOption(x, p), cmp # 0, IdAdjacent(x, p, cmp)
  PROVE  /\ RunOf(MergeTwoTcpPackets(x, p, cmp), c)
         /\ cmp > 0 => Follows(x.segs[Len(x.segs)], p)
         /\ ~(cmp > 0) => Follows(p, x.segs[1])
<1> DEFINE s == x.segs
           n == Len(s)
           u == Chained(s, p, cmp)
           y == MergeTwoTcpPackets(x, p, cmp)
<1>1. /\ cmp \in {1, -1}
      /\ p.df = x.is_atomic
      /\ p.l4_len = x.segs[1].l4_len /\ p.opts = x.segs[1].opts
      /\ cmp = 1 => p.seq = (x.sent_seq + x.len) % SeqSpace /\ (~p.df => p.ip_id = x.ip_id + 1)
      /\ cmp = -1 => /\ (p.seq + p.len) % SeqSpace = x.sent_seq
                     /\ ~p.df => p.ip_id + x.nb_merged = x.ip_id
  BY NeighbourFields
<1>2. s \in MbufChain(S) /\ cmp \in Int
  BY <1>1 DEF TcpItem
<1>3. /\ n \in Nat \ {0} /\ \A m \in 1..n : s[m] \in S
      /\ Len(u) = n + 1
      /\ cmp > 0 => u[n + 1] = p /\ \A m \in 1..n : u[m] = s[m]
      /\ ~(cmp > 0) => u[1] = p /\ \A m \in 1..n : u[m + 1] = s[m]
  <2> HIDE DEF s
  <2> QED
    BY <1>2, ChainedPackets
<1>4. /\ y.segs = u
      /\ y.sent_seq = (IF cmp > 0 THEN x.sent_seq ELSE p.seq)
      /\ y.ip_id = IpId(p) /\ y.len = x.len + p.len
      /\ y.nb_merged = x.nb_merged + 1 /\ y.is_atomic = x.is_atomic
  BY <1>2, MergedItem
<1>5. /\ \A m \in 1..n : /\ s[m].conn = c /\ s[m].df = x.is_atomic
                         /\ s[m].l4_len = s[1].l4_len /\ s[m].opts = s[1].opts
      /\ \A m \in 1..(n - 1) : Follows(s[m], s[m + 1])
      /\ x.sent_seq = s[1].seq /\ x.nb_merged = n
      /\ (x.sent_seq + x.len) % SeqSpace = (s[n].seq + s[n].len) % SeqSpace
      /\ ~x.is_atomic => s[n].ip_id = s[1].ip_id + n - 1
  BY DEF RunOf, DescribesChain
<1>6. /\ x.sent_seq \in Nat /\ x.len \in Nat /\ x.sent_seq \in 0..(SeqSpace - 1)
      /\ p.seq \in Nat /\ p.len \in Nat /\ p.ip_id \in Nat
      /\ SeqSpace \in Nat \ {0} /\ p.df \in BOOLEAN
      /\ s[n] \in S /\ s[1] \in S /\ s[1].ip_id \in Nat /\ s[n].ip_id \in Nat
  BY <1>3, TcpAssumption DEF TcpItem, TcpPackets
<1> HIDE DEF s, n, u, y
<1>7. CASE cmp = 1
  <2>1. Follows(s[n], p)
    <3>1. ~p.df => p.ip_id = s[n].ip_id + 1
      BY <1>7 DEF IdAdjacent, s, n
    <3>2. n \in 1..n
      BY <1>3
    <3> QED
      BY <1>1, <1>5, <1>6, <1>7, <3>1, <3>2 DEF Follows, s
  <2>2. \A m \in 1..(n + 1) : m = n + 1 \/ m \in 1..n
    BY <1>3
  <2>3. \A m \in 1..(n + 1) : /\ u[m].conn = c /\ u[m].df = x.is_atomic
                              /\ u[m].l4_len = u[1].l4_len /\ u[m].opts = u[1].opts
    <3>1. u[1] = s[1] /\ u[n + 1] = p
      BY <1>3, <1>7
    <3> QED
      BY <1>1, <1>3, <1>5, <1>7, <2>2, <3>1 DEF s
  <2>4. \A m \in 1..n : Follows(u[m], u[m + 1])
    <3> SUFFICES ASSUME NEW m \in 1..n PROVE Follows(u[m], u[m + 1])
      OBVIOUS
    <3>1. CASE m = n
      BY <1>3, <1>7, <2>1, <3>1
    <3>2. CASE m \in 1..(n - 1)
      <4>1. m + 1 \in 1..n
        BY <1>3, <3>2
      <4> QED
        BY <1>3, <1>5, <1>7, <3>2, <4>1
    <3> QED
      BY <1>3, <3>1, <3>2
  <2>5. DescribesChain(y)
    <3>1. (x.sent_seq + (x.len + p.len)) % SeqSpace = (p.seq + p.len) % SeqSpace
      <4>1. (((x.sent_seq + x.len) % SeqSpace) + p.len) % SeqSpace
              = ((x.sent_seq + x.len) + p.len) % SeqSpace
        <5>1. x.sent_seq + x.len \in Int /\ p.len \in Int
          BY <1>6
        <5> QED
          BY <5>1, <1>6, ModPlus
      <4>2. (x.sent_seq + x.len) + p.len = x.sent_seq + (x.len + p.len)
        BY <1>6
      <4> QED
        BY <1>1, <1>7, <4>1, <4>2
    <3>2. u[1] = s[1] /\ u[n + 1] = p
      BY <1>3, <1>7
    <3>3. y.sent_seq = x.sent_seq
      BY <1>4, <1>7
    <3> QED
      BY <1>3, <1>4, <1>5, <3>1, <3>2, <3>3 DEF DescribesChain
  <2>6. ~x.is_atomic => p.ip_id = s[1].ip_id + (n + 1) - 1 /\ IpId(p) = p.ip_id
    <3>1. ~x.is_atomic => p.ip_id = s[n].ip_id + 1
      BY <1>1, <1>7 DEF IdAdjacent, s, n
    <3> QED
      BY <1>1, <1>3, <1>5, <1>6, <3>1 DEF IpId
  <2>7. RunOf(y, c)
    <3>1. u[1] = s[1] /\ u[n + 1] = p /\ (n + 1) - 1 = n
      BY <1>3, <1>7
    <3> QED
      BY <1>3, <1>4, <2>3, <2>4, <2>5, <2>6, <3>1 DEF RunOf
  <2> QED
    BY <1>7, <2>1, <2>7 DEF s, n, y
<1>8. CASE cmp = -1
  <2>1. Follows(p, s[1])
    <3>1. ~p.df => s[1].ip_id = p.ip_id + 1
      BY <1>8 DEF IdAdjacent, s
    <3>2. 1 \in 1..n
      BY <1>3
    <3> QED
      BY <1>1, <1>5, <1>6, <1>8, <3>1, <3>2 DEF Follows, s
  <2>2. \A m \in 1..(n + 1) : m = 1 \/ \E k \in 1..n : m = k + 1
    <3> SUFFICES ASSUME NEW m \in 1..(n + 1), m # 1 PROVE \E k \in 1..n : m = k + 1
      OBVIOUS
    <3>1. m - 1 \in 1..n /\ m = (m - 1) + 1
      BY <1>3
    <3> QED
      BY <3>1
  <2>3. u[1] = p /\ \A k \in 1..n : u[k + 1] = s[k]
    BY <1>3, <1>8
  <2>4. \A m \in 1..(n + 1) : /\ u[m].conn = c /\ u[m].df = x.is_atomic
                              /\ u[m].l4_len = u[1].l4_len /\ u[m].opts = u[1].opts
    BY <1>1, <1>5, <2>2, <2>3 DEF s
  <2>5. \A m \in 1..n : Follows(u[m], u[m + 1])
    <3> SUFFICES ASSUME NEW m \in 1..n PROVE Follows(u[m], u[m + 1])
      OBVIOUS
    <3>1. CASE m = 1
      BY <2>1, <2>3, <3>1
    <3>2. CASE m # 1
      <4>1. m - 1 \in 1..(n - 1) /\ m - 1 \in 1..n /\ (m - 1) + 1 = m
        BY <1>3, <3>2
      <4>2. u[m] = s[m - 1] /\ u[m + 1] = s[m]
        BY <2>3, <4>1
      <4> QED
        BY <1>5, <4>1, <4>2
    <3> QED
      BY <3>1, <3>2
  <2>6. DescribesChain(y)
    <3>1. (p.seq + (x.len + p.len)) % SeqSpace = (s[n].seq + s[n].len) % SeqSpace
      <4>1. (((p.seq + p.len) % SeqSpace) + x.len) % SeqSpace = ((p.seq + p.len) + x.len) % SeqSpace
        <5>1. p.seq + p.len \in Int /\ x.len \in Int
          BY <1>6
        <5> QED
          BY <5>1, <1>6, ModPlus
      <4>2. (p.seq + p.len) + x.len = p.seq + (x.len + p.len)
        BY <1>6
      <4> QED
        BY <1>1, <1>5, <1>8, <4>1, <4>2
    <3>2. u[1] = p /\ u[n + 1] = s[n]
      BY <1>3, <2>3
    <3>3. y.sent_seq = p.seq
      BY <1>4, <1>8
    <3> QED
      BY <1>3, <1>4, <1>5, <3>1, <3>2, <3>3 DEF DescribesChain
  <2>7. ~x.is_atomic => s[n].ip_id = p.ip_id + (n + 1) - 1 /\ IpId(p) = p.ip_id
    <3>1. ~x.is_atomic => s[1].ip_id = p.ip_id + 1
      BY <1>1, <1>8 DEF IdAdjacent, s
    <3> QED
      BY <1>1, <1>3, <1>5, <1>6, <3>1 DEF IpId
  <2>8. RunOf(y, c)
    <3>1. u[1] = p /\ u[n + 1] = s[n] /\ (n + 1) - 1 = n
      BY <1>3, <2>3
    <3> QED
      BY <1>3, <1>4, <2>4, <2>5, <2>6, <2>7, <3>1 DEF RunOf
  <2> QED
    BY <1>8, <2>1, <2>8 DEF s, n, y
<1> QED
  BY <1>1, <1>7, <1>8

(* Where IDs count up, those of neighbours are adjacent.  The code compares *)
(* with the ID it keeps, which after a prepend is that of the first packet *)
(* and not, as the test takes it, of the last: then a packet passes that   *)
(* has the ID of the second packet of the run, or one that leaves a gap.   *)
LEMMA CountedIdsAdjacent ==
  ASSUME NEW S, TcpPackets(S), NEW C, IdsCountUp(C),
         NEW x \in TcpItem(S), NEW c, RunOf(x, c), \A m \in 1..Len(x.segs) : x.segs[m] \in C,
         NEW p \in S \cap C, p.conn = c, \A m \in 1..Len(x.segs) : x.segs[m] # p,
         NEW cmp, cmp = CheckSeqOption(x, p), cmp # 0
  PROVE  IdAdjacent(x, p, cmp)
<1> DEFINE s == x.segs
           n == Len(s)
<1> SUFFICES ASSUME ~p.df
             PROVE  /\ cmp > 0 => p.ip_id = s[n].ip_id + 1
                    /\ cmp < 0 => s[1].ip_id = p.ip_id + 1
  BY DEF IdAdjacent
<1>1. /\ cmp \in {1, -1} /\ ~x.is_atomic
      /\ cmp = 1 => p.ip_id = x.ip_id + 1
      /\ cmp = -1 => (p.seq + p.len) % SeqSpace = x.sent_seq /\ p.ip_id + x.nb_merged = x.ip_id
  BY NeighbourFields
<1>2. n \in Nat \ {0} /\ \A m \in 1..n : s[m] \in S /\ s[m] \in C
  BY DEF TcpItem, MbufChain
<1>3. /\ \A m \in 1..n : s[m].conn = c /\ ~s[m].df
      /\ \A m \in 1..(n - 1) : Follows(s[m], s[m + 1])
      /\ x.sent_seq = s[1].seq /\ x.nb_merged = n
      /\ s[n].ip_id = s[1].ip_id + n - 1
      /\ x.ip_id = s[1].ip_id \/ x.ip_id = s[n].ip_id
      /\ \A m \in 1..n : s[m] # p
  BY <1>1 DEF RunOf, DescribesChain
<1> HIDE DEF s, n
<1>4. p.ip_id \in Nat /\ \A m \in 1..n : s[m].ip_id \in Nat
  BY <1>2 DEF TcpPackets
<1>5. 1 \in 1..n /\ n \in 1..n
  BY <1>2
<1>6. CASE cmp = 1 /\ x.ip_id = s[1].ip_id /\ n > 1
  <2>1. 1 \in 1..(n - 1) /\ 2 \in 1..n
    BY <1>2, <1>6
  <2>2. Follows(s[1], s[2])
    BY <1>3, <2>1
  <2>3. s[2].ip_id = p.ip_id
    BY <1>1, <1>3, <1>5, <1>6, <2>2 DEF Follows
  <2> QED
    BY <1>2, <1>3, <2>1, <2>3 DEF IdsCountUp
<1>7. CASE cmp = -1 /\ x.ip_id = s[1].ip_id /\ n > 1
  <2>1. s[1].ip_id <= p.ip_id + 1
    BY <1>1, <1>2, <1>3, <1>5, <1>7 DEF IdsCountUp
  <2> QED
    BY <1>1, <1>2, <1>3, <1>4, <1>5, <1>7, <2>1
<1>8. CASE x.ip_id = s[n].ip_id \/ ~(n > 1)
  BY <1>1, <1>2, <1>3, <1>4, <1>5, <1>8
<1> QED
  BY <1>1, <1>3, <1>6, <1>7, <1>8
=============================================================================
