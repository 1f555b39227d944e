---------------------------- MODULE TestPmdProofs ----------------------------
(***************************************************************************)
(* Theorems about the checksum forwarding engine of testpmd and about the  *)
(* memory of the GRO contexts that testpmd creates for its lcores.         *)
(*                                                                         *)
(* The engine: every packet received is in one place, the array of a burst *)
(* is never overrun, and the context is flushed in time, however streams,  *)
(* idle polls, restarts and commands are mixed.                            *)
(*                                                                         *)
(* The memory: whichever allocations fail, creation and destruction leave  *)
(* nothing allocated, and a context that is returned is whole.             *)
(***************************************************************************)
EXTENDS TestPmd, RteGroCtx, FiniteSetTheorems, WellFoundedInduction, TLAPS

(***************************************************************************)
(* The engine.                                                             *)
(***************************************************************************)
-----------------------------------------------------------------------------
(* Induction over the packets of a burst.                                  *)

LEMMA LeastElement ==
  ASSUME NEW S, S \subseteq Nat, S # {}
  PROVE  \E n \in S : \A m \in S : n <= m
<1> DEFINE R == OpToRel(<, Nat)
<1>1. IsWellFoundedOn(R, Nat)
  BY NatLessThanWellFounded
<1>2. \A x, y \in Nat : x < y => <<x, y>> \in R
  BY DEF OpToRel
<1> HIDE DEF R
<1>3. PICK x \in S : \A y \in S : ~ (<<y, x>> \in R)
  BY <1>1, WFMin
<1>4. \A y \in S : x \in Nat /\ y \in Nat /\ ~ (y < x)
  BY <1>2, <1>3
<1>5. \A y \in S : x <= y
  BY <1>4
<1> QED
  BY <1>3, <1>5

(* The principle of induction, for a set instead of a predicate.           *)
LEMMA InductiveSet ==
  ASSUME NEW S, S \subseteq Nat, 0 \in S, \A n \in S : n + 1 \in S
  PROVE  S = Nat
<1> SUFFICES ASSUME Nat \ S # {}  PROVE FALSE
  OBVIOUS
<1>1. PICK n \in Nat \ S : \A m \in Nat \ S : n <= m
  BY LeastElement
<1>2. n # 0 /\ n - 1 \in Nat /\ n - 1 \in S
  BY <1>1
<1> QED
  BY <1>1, <1>2

(* g[n] is what may be held and given back after n packets of burst b.     *)
Follows(g, h, b, types, m) ==
  /\ g[0] = {[held |-> h, back |-> {}]}
  /\ \A n \in 1..Len(b) : g[n] = UNION {HandIn(x, b[n], types, m) : x \in g[n - 1]}

(* The recursion in Reassembled defines such a function.                   *)
LEMMA ReassembledIs ==
  ASSUME NEW h, NEW b, Len(b) \in Nat, NEW types, NEW m
  PROVE  \E g : Reassembled(h, b, types, m) = g[Len(b)] /\ Follows(g, h, b, types, m)
<1> DEFINE More(X, n) == UNION {HandIn(x, b[n], types, m) : x \in X}
           Begin == {[held |-> h, back |-> {}]}
           F(g, k) == [n \in 0..k |-> IF n = 0 THEN Begin ELSE More(g[n - 1], n)]
           S == {k \in Nat : \E g : g = F(g, k)}
<1>1. 0 \in S
  <2> DEFINE g == [n \in 0..0 |-> Begin]
  <2> HIDE DEF Begin
  <2>1. g = F(g, 0)
    OBVIOUS
  <2> HIDE DEF F, g
  <2> QED
    BY <2>1
<1>2. ASSUME NEW k \in S  PROVE k + 1 \in S
  <2>1. PICK g : g = F(g, k)
    OBVIOUS
  <2> DEFINE e == [n \in 0..(k + 1) |-> IF n = k + 1 THEN More(g[k], n) ELSE g[n]]
  <2> HIDE DEF More, Begin
  <2>2. e = F(e, k + 1)
    <3>1. \A n \in 0..(k + 1) : e[n] = IF n = 0 THEN Begin ELSE More(e[n - 1], n)
      BY <2>1
    <3> QED
      BY <3>1
  <2>3. k + 1 \in Nat
    OBVIOUS
  <2> HIDE DEF F, e
  <2> QED
    BY <2>2, <2>3
<1>3. Len(b) \in S
  <2> HIDE DEF S
  <2>1. S \subseteq Nat
    BY DEF S
  <2> QED
    BY <1>1, <1>2, <2>1, InductiveSet
<1>4. \E g : g = F(g, Len(b))
  BY <1>3
<1> DEFINE f == CHOOSE g : g = F(g, Len(b))
<1>5. f = F(f, Len(b))
  <2> HIDE DEF F
  <2> QED
    BY <1>4
<1>6. Reassembled(h, b, types, m) = f[Len(b)]
  BY DEF Reassembled
<1> HIDE DEF f, More, Begin
<1>7. \A n \in 0..Len(b) : f[n] = IF n = 0 THEN Begin ELSE More(f[n - 1], n)
  BY <1>5
<1>8. f[0] = Begin
  BY <1>7
<1>9. \A n \in 1..Len(b) : f[n] = More(f[n - 1], n)
  BY <1>7
<1>10. Follows(f, h, b, types, m)
  BY <1>8, <1>9 DEF More, Begin, Follows
<1> QED
  BY <1>6, <1>10

-----------------------------------------------------------------------------
(* Sets of runs.                                                           *)

InRun(r) == {r.pkts[n] : n \in DOMAIN r.pkts}

(* No packet is twice in run r.                                            *)
OnceIn(r) == \A m, n \in DOMAIN r.pkts : r.pkts[m] = r.pkts[n] => m = n

(* No packet is twice in the runs of S.                                    *)
Separate(S) ==
  /\ S \subseteq Runs
  /\ \A r, q \in S : r # q => InRun(r) \cap InRun(q) = {}
  /\ \A r \in S : OnceIn(r)

LEMMA PktsOfIs ==
  ASSUME NEW S
  PROVE  \A p : p \in PktsOf(S) <=> \E r \in S : p \in InRun(r)
<1>1. PktsOf(S) = UNION {InRun(r) : r \in S}
  BY DEF PktsOf, InRun
<1> HIDE DEF InRun
<1> QED
  BY <1>1

LEMMA PktsOfUnion ==
  ASSUME NEW S, NEW U
  PROVE  PktsOf(S \cup U) = PktsOf(S) \cup PktsOf(U)
  BY PktsOfIs

LEMMA PktsOfOne == \A r : PktsOf({r}) = InRun(r)
  BY PktsOfIs

LEMMA NoRuns == PktsOf({}) = {} /\ Separate({})
  BY PktsOfIs DEF Separate

LEMMA RunHasPackets ==
  ASSUME NEW r \in Runs
  PROVE  InRun(r) \subseteq AllPkts /\ InRun(r) # {} /\ r.time = 0
<1>1. r.pkts \in Seq(AllPkts) /\ r.pkts # <<>> /\ r.time = 0
  BY DEF Runs
<1> DEFINE a == r.pkts
<1>2. a \in Seq(AllPkts) /\ a # <<>>
  BY <1>1
<1> HIDE DEF a
<1>3. DOMAIN a = 1..Len(a) /\ 1 \in DOMAIN a /\ \A n \in DOMAIN a : a[n] \in AllPkts
  BY <1>2
<1> QED
  BY <1>1, <1>3 DEF InRun, a

LEMMA SeparatePart ==
  ASSUME NEW S, Separate(S), NEW U \in SUBSET S
  PROVE  /\ Separate(U) /\ Separate(S \ U)
         /\ PktsOf(U) \cap PktsOf(S \ U) = {}
         /\ PktsOf(S) = PktsOf(U) \cup PktsOf(S \ U)
<1>1. Separate(U) /\ Separate(S \ U)
  BY DEF Separate
<1>2. PktsOf(U) \cap PktsOf(S \ U) = {}
  <2> SUFFICES ASSUME NEW p \in PktsOf(U), p \in PktsOf(S \ U)  PROVE FALSE
    OBVIOUS
  <2>1. (\E r \in U : p \in InRun(r)) /\ (\E q \in S \ U : p \in InRun(q))
    BY PktsOfIs
  <2> QED
    BY <2>1 DEF Separate
<1>3. U \cup (S \ U) = S
  OBVIOUS
<1> QED
  BY <1>1, <1>2, <1>3, PktsOfUnion

LEMMA SeparateUnion ==
  ASSUME NEW S, NEW U, Separate(S), Separate(U), PktsOf(S) \cap PktsOf(U) = {}
  PROVE  Separate(S \cup U) /\ S \cap U = {}
<1>1. \A r \in S, q \in U : InRun(r) \cap InRun(q) = {}
  BY PktsOfIs
<1>2. \A r \in S \cup U : r \in Runs /\ OnceIn(r) /\ InRun(r) # {}
  BY RunHasPackets DEF Separate
<1>3. S \cap U = {}
  BY <1>1, <1>2
<1>4. \A r, q \in S \cup U : r # q => InRun(r) \cap InRun(q) = {}
  BY <1>1 DEF Separate
<1> QED
  BY <1>2, <1>3, <1>4 DEF Separate

LEMMA RunIsRun ==
  ASSUME NEW p \in AllPkts
  PROVE  Run(p, 0) \in Runs /\ InRun(Run(p, 0)) = {p} /\ OnceIn(Run(p, 0))
<1>1. <<p>> \in Seq(AllPkts) \ {<<>>} /\ DOMAIN <<p>> = {1} /\ <<p>>[1] = p
  OBVIOUS
<1>2. Run(p, 0).pkts = <<p>> /\ Run(p, 0).time = 0 /\ Run(p, 0) \in Runs
  BY <1>1 DEF Run, Runs
<1> QED
  BY <1>1, <1>2 DEF InRun, OnceIn

LEMMA SinglesAre ==
  ASSUME NEW S, S \subseteq AllPkts
  PROVE  Separate(Singles(S)) /\ PktsOf(Singles(S)) = S
<1>1. \A r : r \in Singles(S) <=> \E p \in S : r = Run(p, 0)
  BY DEF Singles
<1>2. \A p \in S : Run(p, 0) \in Runs /\ InRun(Run(p, 0)) = {p} /\ OnceIn(Run(p, 0))
  BY RunIsRun
<1>3. Separate(Singles(S))
  BY <1>1, <1>2 DEF Separate
<1> QED
  BY <1>1, <1>2, <1>3, PktsOfIs

LEMMA Concatenated ==
  ASSUME NEW S, NEW a \in Seq(S), NEW b \in Seq(S)
  PROVE  /\ a \o b \in Seq(S) /\ Len(a \o b) = Len(a) + Len(b)
         /\ \A n \in 1..Len(a) : (a \o b)[n] = a[n]
         /\ \A n \in 1..Len(b) : (a \o b)[Len(a) + n] = b[n]
<1>1. a \o b \in Seq(S) /\ Len(a \o b) = Len(a) + Len(b)
  OBVIOUS
<1>2. \A n \in 1..Len(a) : (a \o b)[n] = a[n]
  OBVIOUS
<1>3. \A n \in 1..Len(b) : (a \o b)[Len(a) + n] = b[n]
  OBVIOUS
<1> QED
  BY <1>1, <1>2, <1>3

(* Two runs without a common packet, joined.                               *)
LEMMA JoinedIsRun ==
  ASSUME NEW r \in Runs, NEW s \in Runs, OnceIn(r), OnceIn(s), InRun(r) \cap InRun(s) = {}
  PROVE  /\ Joined(r, s, 0) \in Runs /\ OnceIn(Joined(r, s, 0))
         /\ InRun(Joined(r, s, 0)) = InRun(r) \cup InRun(s)
<1> DEFINE a == r.pkts
           b == s.pkts
           c == a \o b
           j == Joined(r, s, 0)
<1>1. a \in Seq(AllPkts) /\ b \in Seq(AllPkts) /\ a # <<>> /\ b # <<>>
  BY DEF Runs
<1>2. /\ \A m, n \in DOMAIN a : a[m] = a[n] => m = n
      /\ \A m, n \in DOMAIN b : b[m] = b[n] => m = n
  BY DEF OnceIn
<1>3. \A m \in DOMAIN a, n \in DOMAIN b : a[m] # b[n]
  BY DEF InRun
<1>4. InRun(r) = {a[n] : n \in DOMAIN a} /\ InRun(s) = {b[n] : n \in DOMAIN b}
  BY DEF InRun
<1>5. j.pkts = c /\ j = [pkts |-> c, time |-> 0]
  BY DEF Joined
<1>6. /\ c \in Seq(AllPkts) /\ Len(c) = Len(a) + Len(b)
      /\ \A n \in 1..Len(a) : c[n] = a[n]
      /\ \A n \in 1..Len(b) : c[Len(a) + n] = b[n]
  <2> HIDE DEF a, b
  <2> QED
    BY <1>1, Concatenated
<1> HIDE DEF a, b
<1>7. /\ Len(a) \in Nat \ {0} /\ Len(b) \in Nat \ {0} /\ DOMAIN a = 1..Len(a)
      /\ DOMAIN b = 1..Len(b)
  BY <1>1
<1> HIDE DEF c
<1>8. DOMAIN c = 1..(Len(a) + Len(b))
  BY <1>6
<1>9. \A n \in DOMAIN c : \/ n \in 1..Len(a) /\ c[n] = a[n]
                          \/ n - Len(a) \in 1..Len(b) /\ c[n] = b[n - Len(a)]
  <2> SUFFICES ASSUME NEW n \in DOMAIN c, n \notin 1..Len(a)
               PROVE  n - Len(a) \in 1..Len(b) /\ c[n] = b[n - Len(a)]
    BY <1>6
  <2>1. n - Len(a) \in 1..Len(b) /\ Len(a) + (n - Len(a)) = n
    BY <1>7, <1>8
  <2> QED
    BY <1>6, <2>1
<1>10. {c[n] : n \in DOMAIN c} = {a[n] : n \in DOMAIN a} \cup {b[n] : n \in DOMAIN b}
  <2>1. \A n \in DOMAIN a : n \in DOMAIN c /\ c[n] = a[n]
    BY <1>6, <1>7, <1>8
  <2>2. \A n \in DOMAIN b : Len(a) + n \in DOMAIN c /\ c[Len(a) + n] = b[n]
    BY <1>6, <1>7, <1>8
  <2>3. \A n \in DOMAIN c : (\E k \in DOMAIN a : c[n] = a[k]) \/ (\E k \in DOMAIN b : c[n] = b[k])
    BY <1>7, <1>9
  <2> QED
    BY <2>1, <2>2, <2>3
<1>11. \A m, n \in DOMAIN c : c[m] = c[n] => m = n
  <2> SUFFICES ASSUME NEW m \in DOMAIN c, NEW n \in DOMAIN c, c[m] = c[n]  PROVE m = n
    OBVIOUS
  <2>1. m \in Int /\ n \in Int /\ Len(a) \in Int
    BY <1>7, <1>8
  <2>2. CASE m \in 1..Len(a) /\ c[m] = a[m] /\ n \in 1..Len(a) /\ c[n] = a[n]
    BY <1>2, <1>7, <2>2
  <2>3. CASE /\ m - Len(a) \in 1..Len(b) /\ c[m] = b[m - Len(a)]
             /\ n - Len(a) \in 1..Len(b) /\ c[n] = b[n - Len(a)]
    <3>1. m - Len(a) = n - Len(a)
      BY <1>2, <1>7, <2>3
    <3> QED
      BY <2>1, <3>1
  <2> QED
    BY <1>3, <1>7, <1>9, <2>2, <2>3
<1>12. j \in Runs
  <2>1. c # <<>>
    BY <1>6, <1>7
  <2> QED
    BY <1>5, <1>6, <2>1 DEF Runs
<1> HIDE DEF j
<1>13. InRun(j) = {c[n] : n \in DOMAIN c} /\ OnceIn(j)
  BY <1>5, <1>11 DEF InRun, OnceIn
<1>14. InRun(j) = InRun(r) \cup InRun(s)
  BY <1>4, <1>10, <1>13
<1> QED
  BY <1>12, <1>13, <1>14 DEF j

-----------------------------------------------------------------------------
(* A burst handed to the library.                                          *)

(* After n packets, those of S, of a burst: what is held and what was      *)
(* given back are these packets and those held before, and nothing twice.  *)
Handled(h, m, S, n, x) ==
  /\ Separate(x.held) /\ IsFiniteSet(x.held) /\ Cardinality(x.held) <= m
  /\ IsFiniteSet(x.back) /\ Cardinality(x.back) <= n /\ x.back \subseteq S
  /\ PktsOf(x.held) \cap x.back = {}
  /\ PktsOf(x.held) \cup x.back = PktsOf(h) \cup S

(* Tunnel types take no packet with PSH or FIN, so that no run is hurried. *)
LEMMA Outcome ==
  ASSUME NEW held, NEW p, NEW m,
         NEW o \in ReassembleOutcomes("GTP_TCP", held, p, 0, m)
  PROVE  \/ o = [ret |-> -1, held |-> held]
         \/ Cardinality(held) # m /\ o = [ret |-> 0, held |-> held \cup {Run(p, 0)}]
         \/ \E r \in held :
              o = [ret |-> 1, held |-> (held \ {r}) \cup {Joined(r, Run(p, 0), r.time)}]
         \/ \E r \in held :
              o = [ret |-> 1, held |-> (held \ {r}) \cup {Joined(Run(p, 0), r, r.time)}]
<1>1. CASE ~Takes("GTP_TCP", p) \/ Prepared(held, p) = {}
  BY <1>1 DEF ReassembleOutcomes
<1>2. CASE ~(~Takes("GTP_TCP", p) \/ Prepared(held, p) = {})
  <2>1. p.kind = "segment"
    BY <1>2 DEF Takes, UdpTypes
  <2>2. Prepared(held, p) = {held}
    BY <2>1 DEF Prepared
  <2>3. o \in Processed(held, Run(p, 0), m)
    BY <1>2, <2>2 DEF ReassembleOutcomes
  <2> QED
    BY <2>3 DEF Processed, Merged, Stored
<1> QED
  BY <1>1, <1>2

(* Run j takes the place of those of R among those of H and has one packet *)
(* more, p: this leaves G.                                                 *)
Replaces(j, H, R, p, G) ==
  /\ G = (H \ R) \cup {j}
  /\ Separate(H) /\ R \subseteq H /\ p \notin PktsOf(H)
  /\ j \in Runs /\ OnceIn(j) /\ InRun(j) = PktsOf(R) \cup {p}

LEMMA PutInHeld ==
  ASSUME NEW H, NEW R, NEW p, NEW j, NEW G, Replaces(j, H, R, p, G)
  PROVE  Separate(G) /\ PktsOf(G) = PktsOf(H) \cup {p}
<1> USE DEF Replaces
<1>1. /\ Separate(H \ R) /\ PktsOf(R) \cap PktsOf(H \ R) = {}
      /\ PktsOf(H) = PktsOf(R) \cup PktsOf(H \ R)
  BY SeparatePart
<1>2. PktsOf({j}) = PktsOf(R) \cup {p}
  BY PktsOfOne
<1>3. Separate({j})
  BY DEF Separate
<1>4. PktsOf(H \ R) \cap PktsOf({j}) = {}
  BY <1>1, <1>2
<1>5. Separate((H \ R) \cup {j})
  BY <1>1, <1>3, <1>4, SeparateUnion
<1>6. PktsOf((H \ R) \cup {j}) = PktsOf(H \ R) \cup PktsOf({j})
  BY PktsOfUnion
<1> QED
  BY <1>1, <1>2, <1>5, <1>6

LEMMA HeldStaysFit ==
  ASSUME NEW H, IsFiniteSet(H), NEW m \in Nat, Cardinality(H) <= m, NEW j
  PROVE  /\ Cardinality(H) # m =>
              IsFiniteSet(H \cup {j}) /\ Cardinality(H \cup {j}) <= m
         /\ \A r \in H : /\ IsFiniteSet((H \ {r}) \cup {j})
                         /\ Cardinality((H \ {r}) \cup {j}) <= m
<1>1. Cardinality(H) \in Nat
  BY FS_CardinalityType
<1>2. ASSUME NEW G, IsFiniteSet(G), Cardinality(G) < m
      PROVE  IsFiniteSet(G \cup {j}) /\ Cardinality(G \cup {j}) <= m
  <2>1. Cardinality(G) \in Nat
    BY <1>2, FS_CardinalityType
  <2>2. IsFiniteSet(G \cup {j})
    BY <1>2, FS_AddElement
  <2>3. Cardinality(G \cup {j}) = Cardinality(G) \/ Cardinality(G \cup {j}) = Cardinality(G) + 1
    BY <1>2, FS_AddElement
  <2> QED
    BY <1>2, <2>1, <2>2, <2>3
<1>3. ASSUME NEW r \in H
      PROVE  IsFiniteSet(H \ {r}) /\ Cardinality(H \ {r}) < m
  <2>1. IsFiniteSet(H \ {r}) /\ Cardinality(H \ {r}) = Cardinality(H) - 1
    BY FS_RemoveElement
  <2> QED
    BY <1>1, <2>1
<1>4. Cardinality(H) # m => Cardinality(H) < m
  BY <1>1
<1> QED
  BY <1>2, <1>3, <1>4

LEMMA HandedBack ==
  ASSUME NEW h, NEW m, NEW S, NEW n \in Nat, NEW x, Handled(h, m, S, n, x),
         NEW p \in AllPkts, p \notin PktsOf(h) \cup S,
         NEW o, o.held = x.held, o.back = x.back \cup {p}
  PROVE  Handled(h, m, S \cup {p}, n + 1, o)
<1>1. /\ IsFiniteSet(x.back) /\ Cardinality(x.back) <= n /\ x.back \subseteq S
      /\ p \notin PktsOf(x.held) /\ Cardinality(x.back) \in Nat
  BY FS_CardinalityType DEF Handled
<1>2. IsFiniteSet(x.back \cup {p})
  BY <1>1, FS_AddElement
<1>3. \/ Cardinality(x.back \cup {p}) = Cardinality(x.back)
      \/ Cardinality(x.back \cup {p}) = Cardinality(x.back) + 1
  BY <1>1, FS_AddElement
<1>4. Cardinality(x.back \cup {p}) <= n + 1
  BY <1>1, <1>3
<1> QED
  BY <1>1, <1>2, <1>4 DEF Handled

LEMMA HandedKept ==
  ASSUME NEW h, NEW m, NEW S, NEW n \in Nat, NEW x, Handled(h, m, S, n, x),
         NEW p \in AllPkts, p \notin PktsOf(h) \cup S,
         NEW o, o.back = x.back, Separate(o.held), PktsOf(o.held) = PktsOf(x.held) \cup {p},
         IsFiniteSet(o.held), Cardinality(o.held) <= m
  PROVE  Handled(h, m, S \cup {p}, n + 1, o)
<1>1. Cardinality(x.back) \in Nat /\ Cardinality(x.back) <= n /\ IsFiniteSet(x.back)
  BY FS_CardinalityType DEF Handled
<1>2. Cardinality(x.back) <= n + 1
  BY <1>1
<1>3. p \notin x.back
  BY DEF Handled
<1> QED
  BY <1>1, <1>2, <1>3 DEF Handled

LEMMA HandInKeeps ==
  ASSUME NEW h, NEW m \in Nat, NEW S, NEW n \in Nat, NEW x, Handled(h, m, S, n, x),
         NEW p \in AllPkts, p \notin PktsOf(h) \cup S,
         NEW types, NEW o \in HandIn(x, p, types, m)
  PROVE  Handled(h, m, S \cup {p}, n + 1, o)
<1>1. CASE o.held = x.held /\ o.back = x.back \cup {p}
  BY <1>1, HandedBack
<1> DEFINE H == x.held
<1>2. /\ Separate(H) /\ IsFiniteSet(H) /\ Cardinality(H) <= m /\ p \notin PktsOf(H)
  BY DEF Handled
<1>3. Run(p, 0) \in Runs /\ InRun(Run(p, 0)) = {p} /\ OnceIn(Run(p, 0))
  BY RunIsRun
<1>4. CASE o.back = x.back /\ Cardinality(H) # m /\ o.held = H \cup {Run(p, 0)}
  <2>1. {} \in SUBSET H /\ (H \ {}) \cup {Run(p, 0)} = H \cup {Run(p, 0)}
    OBVIOUS
  <2>2. PktsOf({}) = {}
    BY NoRuns
  <2> HIDE DEF H
  <2>3. Separate(o.held) /\ PktsOf(o.held) = PktsOf(H) \cup {p}
    <3>1. Replaces(Run(p, 0), H, {}, p, o.held)
      BY <1>2, <1>3, <1>4, <2>1, <2>2 DEF Replaces
    <3> QED
      BY <3>1, PutInHeld
  <2>4. IsFiniteSet(o.held) /\ Cardinality(o.held) <= m
    <3>1. IsFiniteSet(H \cup {Run(p, 0)}) /\ Cardinality(H \cup {Run(p, 0)}) <= m
      BY ONLY <1>2, <1>4, m \in Nat, HeldStaysFit
    <3> QED
      BY <1>4, <3>1
  <2> QED
    BY <1>4, <2>3, <2>4, HandedKept DEF H
<1>5. ASSUME NEW r \in H, NEW j, j = Joined(r, Run(p, 0), r.time) \/ j = Joined(Run(p, 0), r, r.time),
             o.back = x.back, o.held = (H \ {r}) \cup {j}
      PROVE  Handled(h, m, S \cup {p}, n + 1, o)
  <2>1. r \in Runs /\ OnceIn(r) /\ r.time = 0
    BY <1>2, RunHasPackets DEF Separate
  <2>2. PktsOf({r}) = InRun(r) /\ {r} \in SUBSET H
    BY PktsOfOne
  <2>3. InRun(r) \cap {p} = {}
    BY <1>2, PktsOfIs
  <2>4. j \in Runs /\ OnceIn(j) /\ InRun(j) = PktsOf({r}) \cup {p}
    BY <1>3, <1>5, <2>1, <2>2, <2>3, JoinedIsRun
  <2> HIDE DEF H
  <2> DEFINE G == (H \ {r}) \cup {j}
  <2>5. Separate(G) /\ PktsOf(G) = PktsOf(H) \cup {p}
    <3>1. Replaces(j, H, {r}, p, G)
      BY <1>2, <2>2, <2>4 DEF Replaces
    <3> QED
      BY ONLY <3>1, PutInHeld
  <2>6. IsFiniteSet(G) /\ Cardinality(G) <= m
    BY ONLY <1>2, <1>5, m \in Nat, HeldStaysFit
  <2>7. Separate(o.held) /\ PktsOf(o.held) = PktsOf(H) \cup {p}
    BY <1>5, <2>5
  <2>8. IsFiniteSet(o.held) /\ Cardinality(o.held) <= m
    BY <1>5, <2>6
  <2> QED
    BY <1>5, <2>7, <2>8, HandedKept DEF H
<1>6. CASE DispatchTo(p, types) = {}
  <2>1. o = [held |-> x.held, back |-> x.back \cup {p}]
    BY <1>6 DEF HandIn
  <2> QED
    BY <1>1, <2>1
<1>7. CASE DispatchTo(p, types) # {}
  <2>1. PICK u \in ReassembleOutcomes("GTP_TCP", H, p, 0, m) :
           o = [held |-> u.held, back |-> IF u.ret < 0 THEN x.back \cup {p} ELSE x.back]
    BY <1>7 DEF HandIn
  <2>2. /\ o.held = u.held
        /\ o.back = IF u.ret < 0 THEN x.back \cup {p} ELSE x.back
    BY <2>1
  <2>3. \/ u = [ret |-> -1, held |-> H]
        \/ Cardinality(H) # m /\ u = [ret |-> 0, held |-> H \cup {Run(p, 0)}]
        \/ \E r \in H : u = [ret |-> 1, held |-> (H \ {r}) \cup {Joined(r, Run(p, 0), r.time)}]
        \/ \E r \in H : u = [ret |-> 1, held |-> (H \ {r}) \cup {Joined(Run(p, 0), r, r.time)}]
    <3> HIDE DEF H
    <3> QED
      BY <2>1, Outcome
  <2>4. CASE u = [ret |-> -1, held |-> H]
    <3>1. o.held = x.held /\ o.back = x.back \cup {p}
      BY <2>2, <2>4
    <3> QED
      BY <1>1, <3>1
  <2>5. CASE Cardinality(H) # m /\ u = [ret |-> 0, held |-> H \cup {Run(p, 0)}]
    <3>1. o.held = H \cup {Run(p, 0)} /\ o.back = x.back
      BY <2>2, <2>5
    <3> QED
      BY <1>4, <2>5, <3>1
  <2>6. CASE \E r \in H : u = [ret |-> 1, held |-> (H \ {r}) \cup {Joined(r, Run(p, 0), r.time)}]
    <3>1. PICK r \in H : u = [ret |-> 1, held |-> (H \ {r}) \cup {Joined(r, Run(p, 0), r.time)}]
      BY <2>6
    <3>2. o.held = (H \ {r}) \cup {Joined(r, Run(p, 0), r.time)} /\ o.back = x.back
      BY <2>2, <3>1
    <3> HIDE DEF H
    <3> QED
      BY <1>5, <3>2
  <2>7. CASE \E r \in H : u = [ret |-> 1, held |-> (H \ {r}) \cup {Joined(Run(p, 0), r, r.time)}]
    <3>1. PICK r \in H : u = [ret |-> 1, held |-> (H \ {r}) \cup {Joined(Run(p, 0), r, r.time)}]
      BY <2>7
    <3>2. o.held = (H \ {r}) \cup {Joined(Run(p, 0), r, r.time)} /\ o.back = x.back
      BY <2>2, <3>1
    <3> HIDE DEF H
    <3> QED
      BY <1>5, <3>2
  <2> QED
    BY <2>3, <2>4, <2>5, <2>6, <2>7
<1> QED
  BY <1>6, <1>7

(* The whole burst, by induction on the number of packets handed in.       *)
LEMMA BurstHandled ==
  ASSUME NEW h, NEW m \in Nat, Separate(h), IsFiniteSet(h), Cardinality(h) <= m,
         NEW b, Len(b) \in Nat, DOMAIN b = 1..Len(b),
         \A k, l \in 1..Len(b) : b[k] = b[l] => k = l,
         \A k \in 1..Len(b) : b[k] \in AllPkts /\ b[k] \notin PktsOf(h),
         NEW types, NEW o \in Reassembled(h, b, types, m)
  PROVE  Handled(h, m, PktSet(b), Len(b), o)
<1> DEFINE First(n) == {b[k] : k \in 1..n}
<1>1. PICK g : Reassembled(h, b, types, m) = g[Len(b)] /\ Follows(g, h, b, types, m)
  BY ReassembledIs
<1> DEFINE S == {n \in Nat : n <= Len(b) => \A x \in g[n] : Handled(h, m, First(n), n, x)}
<1>2. 0 \in S
  <2>1. First(0) = {}
    OBVIOUS
  <2>2. Handled(h, m, {}, 0, [held |-> h, back |-> {}])
    BY FS_EmptySet DEF Handled
  <2>3. g[0] = {[held |-> h, back |-> {}]}
    BY <1>1 DEF Follows
  <2> HIDE DEF First
  <2> QED
    BY <2>1, <2>2, <2>3
<1>3. ASSUME NEW n \in S  PROVE n + 1 \in S
  <2> SUFFICES ASSUME n + 1 <= Len(b), NEW y \in g[n + 1]
               PROVE  Handled(h, m, First(n + 1), n + 1, y)
    OBVIOUS
  <2>1. n \in Nat /\ n + 1 \in 1..Len(b) /\ n <= Len(b)
    OBVIOUS
  <2>2. g[n + 1] = UNION {HandIn(x, b[n + 1], types, m) : x \in g[n]}
    BY <1>1, <2>1 DEF Follows
  <2>3. PICK x \in g[n] : y \in HandIn(x, b[n + 1], types, m)
    BY <2>2
  <2>4. Handled(h, m, First(n), n, x)
    BY <2>1
  <2>5. First(n + 1) = First(n) \cup {b[n + 1]}
    <3>1. 1..(n + 1) = (1..n) \cup {n + 1}
      BY <2>1
    <3> QED
      BY <3>1
  <2>6. b[n + 1] \notin PktsOf(h) \cup First(n)
    <3>1. \A k \in 1..n : k \in 1..Len(b) /\ k # n + 1
      BY <2>1
    <3> QED
      BY <2>1, <3>1
  <2>7. b[n + 1] \in AllPkts
    BY <2>1
  <2> HIDE DEF First, S
  <2>8. Handled(h, m, First(n) \cup {b[n + 1]}, n + 1, y)
    BY <2>1, <2>3, <2>4, <2>6, <2>7, HandInKeeps
  <2> QED
    BY <2>5, <2>8
<1>4. Len(b) \in S
  <2> HIDE DEF S
  <2>1. S \subseteq Nat
    BY DEF S
  <2> QED
    BY <1>2, <1>3, <2>1, InductiveSet
<1>5. First(Len(b)) = PktSet(b)
  BY DEF PktSet
<1> HIDE DEF First
<1>6. Handled(h, m, First(Len(b)), Len(b), o)
  BY <1>1, <1>4
<1> QED
  BY <1>5, <1>6

-----------------------------------------------------------------------------
(* The invariant.                                                          *)

Everything == ctx \cup SentRuns \cup dropped

(* Types, and that the context is finite and no fuller than its tables.    *)
TypeInv ==
  /\ state \in {"stopped", "running", "stopping"}
  /\ gro_flush_cycles \in 1..GRO_MAX_FLUSH_CYCLES
  /\ gro_ports \in [Ports -> [enable : BOOLEAN, gro_types : SUBSET GroType]]
  /\ sm_id \in Streams
  /\ gro_times \in [Streams -> 0..(GRO_MAX_FLUSH_CYCLES - 1)]
  /\ IsFiniteSet(ctx) /\ Cardinality(ctx) <= CtxItemNum
  /\ received \subseteq AllPkts
  /\ sent \in [Ports -> SUBSET Runs]
  /\ used \in Nat
  /\ ops \in Nat

(* Every packet received is in one run in one place.                       *)
PlaceInv ==
  /\ Separate(Everything)
  /\ received = PktsOf(Everything)
  /\ ctx \cap dropped = {}
  /\ \A p \in Ports : sent[p] \cap (ctx \cup dropped) = {}
  /\ \A p, q \in Ports : p # q => sent[p] \cap sent[q] = {}

(* The GRO operations that the streams have counted, one pair for each.    *)
Counted == {c \in Streams \X (1..(GRO_MAX_FLUSH_CYCLES - 1)) : c[2] <= gro_times[c[1]]}

(* What was done to the context since its last flush is counted by some    *)
(* stream: a stream that flushes sets back its own count only, but ops too. *)
OpsInv == ops <= Cardinality(Counted)

(* The port takes fewer packets at once than the array has entries; the    *)
(* flush behind a full array would take its room 0 for no limit.           *)
BurstsLeaveRoom == NbPktPerBurst < MAX_PKT_BURST

RoomInv == BurstsLeaveRoom => used <= MAX_PKT_BURST

Inv == TypeInv /\ PlaceInv /\ OpsInv /\ RoomInv

LEMMA ConstantsAre ==
  /\ NbStreams \in Nat \ {0} /\ Streams = 1..NbStreams
  /\ MAX_PKT_BURST \in Nat /\ NbPktPerBurst \in Nat /\ NbPktPerBurst <= MAX_PKT_BURST
  /\ BurstItemNum \in Nat /\ CtxItemNum \in Nat /\ GRO_MAX_FLUSH_CYCLES \in Nat \ {0}
  /\ \A s \in Streams : RxPort[s] \in Ports /\ TxPort[s] \in Ports
  /\ \A s \in Streams : Arrivals[s] \subseteq AllPkts
  BY TestPmdAssumption DEF Streams, Ports, AllPkts

LEMMA GtpTcpIsType == "GTP_TCP" \in GroType
<1>1. 3 \in DOMAIN TypeOrder /\ TypeOrder[3] = "GTP_TCP"
  BY DEF TypeOrder
<1> QED
  BY <1>1 DEF GroType

LEMMA InitInv == Init => Inv
<1> SUFFICES ASSUME Init  PROVE Inv
  OBVIOUS
<1>1. SentRuns = {} /\ Everything = {}
  <2>1. \A p \in Ports : sent[p] = {}
    BY DEF Init
  <2>2. SentRuns = {}
    BY <2>1 DEF SentRuns
  <2> QED
    BY <2>2 DEF Init, Everything
<1>2. PlaceInv
  BY <1>1, NoRuns DEF Init, PlaceInv
<1>3. TypeInv
  BY ConstantsAre, FS_EmptySet DEF Init, TypeInv, GRO_DEFAULT_FLUSH_CYCLES
<1>4. OpsInv
  <2>1. Counted = {}
    BY ConstantsAre DEF Init, Counted
  <2> QED
    BY <2>1, FS_EmptySet DEF Init, OpsInv
<1>5. RoomInv
  BY ConstantsAre DEF Init, RoomInv
<1> QED
  BY <1>2, <1>3, <1>4, <1>5 DEF Inv

-----------------------------------------------------------------------------
(* A call of the engine: packets N come in, runs X go out.                 *)

Moved(s, N, X) ==
  /\ N \subseteq AllPkts /\ N \cap received = {} /\ received' = received \cup N
  /\ Separate(ctx' \cup X) /\ ctx' \cap X = {}
  /\ PktsOf(ctx' \cup X) = PktsOf(ctx) \cup N
  /\ IsFiniteSet(ctx') /\ Cardinality(ctx') <= CtxItemNum
  /\ Transmit(s, X)

LEMMA SentAfter ==
  ASSUME TypeInv, NEW s \in Streams, NEW X, X \subseteq Runs, NEW lost \in SUBSET X,
         sent' = [sent EXCEPT ![TxPort[s]] = sent[TxPort[s]] \cup (X \ lost)]
  PROVE  /\ sent' \in [Ports -> SUBSET Runs]
         /\ \A p \in Ports : sent'[p] = IF p = TxPort[s] THEN sent[p] \cup (X \ lost) ELSE sent[p]
         /\ SentRuns' = SentRuns \cup (X \ lost)
<1> DEFINE q == TxPort[s]
<1>1. q \in Ports /\ sent \in [Ports -> SUBSET Runs]
  BY ConstantsAre DEF TypeInv
<1> HIDE DEF q
<1>2. sent' = [sent EXCEPT ![q] = sent[q] \cup (X \ lost)]
  BY DEF q
<1>3. sent' \in [Ports -> SUBSET Runs]
  <2>1. sent[q] \cup (X \ lost) \in SUBSET Runs
    BY <1>1
  <2> QED
    BY <1>1, <1>2, <2>1
<1>4. \A p \in Ports : sent'[p] = IF p = q THEN sent[p] \cup (X \ lost) ELSE sent[p]
  BY <1>1, <1>2
<1>5. SentRuns' = SentRuns \cup (X \ lost)
  <2>1. \A r : r \in SentRuns <=> \E p \in Ports : r \in sent[p]
    BY DEF SentRuns
  <2>2. \A r : r \in SentRuns' <=> \E p \in Ports : r \in sent'[p]
    BY DEF SentRuns
  <2> QED
    BY <1>1, <1>4, <2>1, <2>2
<1> QED
  BY <1>3, <1>4, <1>5 DEF q

LEMMA MovedPlaces ==
  ASSUME TypeInv, PlaceInv, NEW s \in Streams, NEW N, NEW X, Moved(s, N, X)
  PROVE  PlaceInv' /\ sent' \in [Ports -> SUBSET Runs] /\ received' \subseteq AllPkts
<1> DEFINE Rest == SentRuns \cup dropped
           C == ctx' \cup X
<1>1. PICK lost \in SUBSET X :
         /\ sent' = [sent EXCEPT ![TxPort[s]] = sent[TxPort[s]] \cup (X \ lost)]
         /\ dropped' = dropped \cup lost
  BY DEF Moved, Transmit
<1>2. X \subseteq Runs
  BY DEF Moved, Separate
<1>3. /\ sent' \in [Ports -> SUBSET Runs]
      /\ \A p \in Ports : sent'[p] = IF p = TxPort[s] THEN sent[p] \cup (X \ lost) ELSE sent[p]
      /\ SentRuns' = SentRuns \cup (X \ lost)
  BY <1>1, <1>2, SentAfter
<1>4. received' \subseteq AllPkts
  BY DEF Moved, TypeInv
<1>5. ctx \cap Rest = {} /\ Everything = ctx \cup Rest
  BY DEF PlaceInv, SentRuns, Everything
<1>6. /\ Separate(Rest) /\ PktsOf(ctx) \cap PktsOf(Rest) = {}
      /\ received = PktsOf(ctx) \cup PktsOf(Rest)
  <2>1. ctx \in SUBSET Everything /\ Everything \ ctx = Rest
    BY <1>5
  <2> HIDE DEF Rest
  <2>2. Separate(Everything) /\ received = PktsOf(Everything)
    BY DEF PlaceInv
  <2> QED
    BY <2>1, <2>2, SeparatePart
<1>7. Separate(C) /\ PktsOf(C) = PktsOf(ctx) \cup N /\ N \cap received = {}
  BY DEF Moved
<1> HIDE DEF C, Rest
<1>8. PktsOf(C) \cap PktsOf(Rest) = {}
  BY <1>6, <1>7
<1>9. Separate(C \cup Rest) /\ C \cap Rest = {}
  BY <1>6, <1>7, <1>8, SeparateUnion
<1>10. PktsOf(C \cup Rest) = PktsOf(C) \cup PktsOf(Rest)
  BY PktsOfUnion
<1>11. Everything' = C \cup Rest
  BY <1>1, <1>3 DEF Everything, C, Rest
<1>12. received' = PktsOf(Everything')
  BY <1>6, <1>7, <1>10, <1>11 DEF Moved
<1>13. /\ X \cap Rest = {} /\ ctx' \cap Rest = {} /\ ctx' \cap X = {}
       /\ \A p \in Ports : sent[p] \subseteq Rest /\ dropped \subseteq Rest
  BY <1>9 DEF C, Rest, SentRuns, Moved
<1>14. /\ \A p \in Ports : sent[p] \cap dropped = {}
       /\ \A p, q \in Ports : p # q => sent[p] \cap sent[q] = {}
  BY DEF PlaceInv
<1>15. ctx' \cap dropped' = {}
  BY <1>1, <1>13 DEF Rest
<1>16. \A p \in Ports : sent'[p] \cap (ctx' \cup dropped') = {}
  <2> SUFFICES ASSUME NEW p \in Ports  PROVE sent'[p] \cap (ctx' \cup dropped') = {}
    OBVIOUS
  <2>1. sent'[p] \subseteq sent[p] \cup (X \ lost)
    BY <1>3
  <2>2. dropped \subseteq Rest
    BY DEF Rest
  <2> QED
    BY <1>1, <1>13, <1>14, <2>1, <2>2
<1>17. \A p, q \in Ports : p # q => sent'[p] \cap sent'[q] = {}
  <2>1. \A p \in Ports : sent[p] \cap (X \ lost) = {}
    BY <1>13
  <2> QED
    BY <1>3, <1>14, <2>1
<1>18. Separate(Everything')
  BY <1>9, <1>11
<1> QED
  BY <1>3, <1>4, <1>12, <1>15, <1>16, <1>17, <1>18 DEF PlaceInv, Separate

-----------------------------------------------------------------------------
(* The calls of the engine.                                                *)

LEMMA BurstIs ==
  ASSUME TypeInv, NEW s \in Streams, NEW b \in Bursts(s) \cup {<<>>}
  PROVE  /\ Len(b) \in Nat /\ Len(b) <= NbPktPerBurst /\ DOMAIN b = 1..Len(b)
         /\ \A k, l \in 1..Len(b) : b[k] = b[l] => k = l
         /\ \A k \in 1..Len(b) : b[k] \in AllPkts /\ b[k] \notin received
         /\ PktSet(b) \subseteq AllPkts /\ PktSet(b) \cap received = {}
<1>1. CASE b = <<>>
  <2>1. Len(b) = 0 /\ DOMAIN b = {} /\ 1..0 = {}
    BY <1>1
  <2> QED
    BY <2>1, ConstantsAre DEF PktSet
<1>2. CASE b \in Bursts(s)
  <2>1. PICK n \in 1..NbPktPerBurst : /\ b \in [1..n -> Arrivals[s] \ received]
                                     /\ \A k, l \in 1..n : b[k] = b[l] => k = l
    BY <1>2 DEF Bursts
  <2>2. n \in Nat /\ n <= NbPktPerBurst /\ DOMAIN b = 1..n
    BY <2>1, ConstantsAre
  <2>3. Len(b) = n
    <3>1. b \in Seq(Arrivals[s] \ received)
      BY <2>1, <2>2
    <3> QED
      BY <2>2, <3>1
  <2>4. \A k \in 1..n : b[k] \in AllPkts /\ b[k] \notin received
    BY <2>1, ConstantsAre
  <2> QED
    BY <2>1, <2>2, <2>3, <2>4 DEF PktSet
<1> QED
  BY <1>1, <1>2

(* Of the packets held before nothing has been received just now.          *)
LEMMA ContextIs ==
  ASSUME TypeInv, PlaceInv
  PROVE  /\ Separate(ctx) /\ PktsOf(ctx) \subseteq received
         /\ IsFiniteSet(ctx) /\ Cardinality(ctx) <= CtxItemNum
<1>1. Everything = ctx \cup (SentRuns \cup dropped) /\ ctx \in SUBSET Everything
  BY DEF Everything
<1>2. Separate(Everything) /\ received = PktsOf(Everything)
  BY DEF PlaceInv
<1>3. Separate(ctx) /\ PktsOf(ctx) \subseteq PktsOf(Everything)
  <2>1. /\ Separate(ctx)
        /\ PktsOf(Everything) = PktsOf(ctx) \cup PktsOf(Everything \ ctx)
    BY ONLY <1>1, <1>2, SeparatePart
  <2> QED
    BY <2>1
<1> QED
  BY <1>2, <1>3 DEF TypeInv

(* The runs of o: those held, and each packet given back as one.           *)
AllOf(o) == o.held \cup Singles(o.back)

(* What is held and what was given back can be sent together.              *)
LEMMA HeldAndBack ==
  ASSUME NEW h, NEW m, NEW S \in SUBSET AllPkts, NEW n, NEW o, Handled(h, m, S, n, o)
  PROVE  /\ Separate(o.held) /\ Separate(Singles(o.back)) /\ o.held \cap Singles(o.back) = {}
         /\ Separate(AllOf(o)) /\ PktsOf(AllOf(o)) = PktsOf(o.held) \cup o.back
<1>1. /\ Separate(o.held) /\ o.back \subseteq AllPkts /\ PktsOf(o.held) \cap o.back = {}
      /\ PktsOf(o.held) \cup o.back = PktsOf(h) \cup S
  BY DEF Handled
<1>2. Separate(Singles(o.back)) /\ PktsOf(Singles(o.back)) = o.back
  BY <1>1, SinglesAre
<1>3. Separate(o.held \cup Singles(o.back)) /\ o.held \cap Singles(o.back) = {}
  BY <1>1, <1>2, SeparateUnion
<1>4. PktsOf(o.held \cup Singles(o.back)) = PktsOf(o.held) \cup PktsOf(Singles(o.back))
  BY PktsOfUnion
<1> QED
  BY <1>1, <1>2, <1>3, <1>4 DEF AllOf

LEMMA IdleMoves ==
  ASSUME Inv, NEW s \in Streams, ForwardIdle(s)
  PROVE  PlaceInv' /\ UNCHANGED <<gro_times, ctx, received, sent, dropped, used, ops>>
<1>1. UNCHANGED <<gro_times, ctx, received, sent, dropped, used, ops>>
  BY DEF ForwardIdle
<1>2. UNCHANGED <<SentRuns, Everything>>
  BY <1>1 DEF SentRuns, Everything
<1> QED
  BY <1>1, <1>2 DEF Inv, PlaceInv

LEMMA WithoutGroMoves ==
  ASSUME Inv, NEW s \in Streams, ForwardWithoutGro(s)
  PROVE  /\ \E N, X : Moved(s, N, X)
         /\ used' \in Nat /\ RoomInv' /\ UNCHANGED <<gro_times, ops>>
<1>1. PICK b \in Bursts(s) : /\ received' = received \cup PktSet(b)
                             /\ used' = Len(b)
                             /\ Transmit(s, Singles(PktSet(b)))
  BY DEF ForwardWithoutGro
<1>2. UNCHANGED <<gro_times, ctx, ops>>
  BY DEF ForwardWithoutGro
<1>3. /\ Len(b) \in Nat /\ Len(b) <= NbPktPerBurst
      /\ PktSet(b) \subseteq AllPkts /\ PktSet(b) \cap received = {}
  BY BurstIs DEF Inv
<1>4. /\ Separate(ctx) /\ PktsOf(ctx) \subseteq received
      /\ IsFiniteSet(ctx) /\ Cardinality(ctx) <= CtxItemNum
  BY ContextIs DEF Inv
<1> DEFINE N == PktSet(b)
           X == Singles(N)
<1>5. Separate(X) /\ PktsOf(X) = N
  BY <1>3, SinglesAre
<1> HIDE DEF N, X
<1>6. Separate(ctx \cup X) /\ ctx \cap X = {} /\ PktsOf(ctx \cup X) = PktsOf(ctx) \cup N
  <2>1. PktsOf(ctx) \cap PktsOf(X) = {}
    BY <1>3, <1>4, <1>5 DEF N
  <2> QED
    BY <1>4, <1>5, <2>1, SeparateUnion, PktsOfUnion
<1>7. Moved(s, N, X)
  BY <1>1, <1>2, <1>3, <1>4, <1>6 DEF Moved, N, X
<1>8. RoomInv' /\ used' \in Nat
  BY <1>1, <1>3, ConstantsAre DEF RoomInv
<1> QED
  BY <1>2, <1>7, <1>8

LEMMA LightMoves ==
  ASSUME Inv, NEW s \in Streams, ForwardLight(s)
  PROVE  /\ \E N, X : Moved(s, N, X)
         /\ used' \in Nat /\ RoomInv' /\ UNCHANGED <<gro_times, ops>>
<1> DEFINE types == gro_ports[RxPort[s]].gro_types
<1>1. PICK b \in Bursts(s) :
      \E o \in Reassembled({}, b, types, BurstItemNum) :
         /\ received' = received \cup PktSet(b)
         /\ used' = Len(b)
         /\ Transmit(s, Singles(o.back) \cup o.held)
  BY DEF ForwardLight
<1>2. PICK o \in Reassembled({}, b, types, BurstItemNum) :
         /\ received' = received \cup PktSet(b)
         /\ used' = Len(b)
         /\ Transmit(s, Singles(o.back) \cup o.held)
  BY <1>1
<1>3. UNCHANGED <<gro_times, ctx, ops>>
  BY DEF ForwardLight
<1>4. /\ Len(b) \in Nat /\ Len(b) <= NbPktPerBurst /\ DOMAIN b = 1..Len(b)
      /\ \A k, l \in 1..Len(b) : b[k] = b[l] => k = l
      /\ \A k \in 1..Len(b) : b[k] \in AllPkts /\ b[k] \notin received
      /\ PktSet(b) \subseteq AllPkts /\ PktSet(b) \cap received = {}
  BY BurstIs DEF Inv
<1>5. /\ Separate(ctx) /\ PktsOf(ctx) \subseteq received
      /\ IsFiniteSet(ctx) /\ Cardinality(ctx) <= CtxItemNum
  BY ContextIs DEF Inv
<1> HIDE DEF types
<1>6. Handled({}, BurstItemNum, PktSet(b), Len(b), o)
  <2>1. IsFiniteSet({}) /\ Cardinality({}) <= BurstItemNum /\ BurstItemNum \in Nat
    BY ConstantsAre, FS_EmptySet
  <2>2. Separate({}) /\ PktsOf({}) = {}
    BY NoRuns
  <2> QED
    BY <1>4, <2>1, <2>2, BurstHandled
<1>7. /\ Separate(AllOf(o))
      /\ PktsOf(AllOf(o)) = PktSet(b)
  <2>1. PktSet(b) \in SUBSET AllPkts
    BY <1>4
  <2>2. /\ Separate(AllOf(o))
        /\ PktsOf(AllOf(o)) = PktsOf({}) \cup PktSet(b)
    <3> DEFINE S == PktSet(b)
               n == Len(b)
               h == {}
    <3>1. Handled(h, BurstItemNum, S, n, o) /\ S \in SUBSET AllPkts
      BY <1>6, <2>1
    <3> HIDE DEF S, n, h
    <3>2. Separate(AllOf(o))
      BY ONLY <3>1, HeldAndBack
    <3>3. PktsOf(AllOf(o)) = PktsOf(o.held) \cup o.back
      BY ONLY <3>1, HeldAndBack
    <3> QED
      BY <1>6, <3>2, <3>3 DEF Handled
  <2> QED
    BY <2>2, NoRuns
<1> DEFINE N == PktSet(b)
           X == AllOf(o)
<1>8. Separate(X) /\ PktsOf(X) = N /\ X = Singles(o.back) \cup o.held
  BY <1>7 DEF AllOf
<1> HIDE DEF N, X
<1>9. Separate(ctx \cup X) /\ ctx \cap X = {} /\ PktsOf(ctx \cup X) = PktsOf(ctx) \cup N
  <2>1. PktsOf(ctx) \cap PktsOf(X) = {}
    BY <1>4, <1>5, <1>8 DEF N
  <2> QED
    BY <1>5, <1>8, <2>1, SeparateUnion, PktsOfUnion
<1>10. Moved(s, N, X)
  BY <1>2, <1>3, <1>4, <1>5, <1>8, <1>9 DEF Moved, N
<1>11. RoomInv' /\ used' \in Nat
  BY <1>2, <1>4, ConstantsAre DEF RoomInv
<1> QED
  BY <1>3, <1>10, <1>11

(* What the flush is asked for fits behind what was given back, unless     *)
(* that fills the array.                                                   *)
LEMMA FlushRoom ==
  ASSUME NEW held, IsFiniteSet(held), NEW c \in Nat, c <= MAX_PKT_BURST,
         NEW F \in FlushedSets(held, GroPktsNum(held, c))
  PROVE  /\ F \subseteq held /\ IsFiniteSet(F)
         /\ c < MAX_PKT_BURST => c + Cardinality(F) <= MAX_PKT_BURST
<1>1. F \subseteq held
  BY DEF FlushedSets
<1>2. IsFiniteSet(F)
  BY <1>1, FS_Subset
<1>3. Cardinality(F) \in Nat /\ Cardinality(held) \in Nat /\ MAX_PKT_BURST \in Nat
  BY <1>2, FS_CardinalityType, ConstantsAre
<1> DEFINE k == GroPktsNum(held, c)
<1>4. k \in Nat /\ k <= MAX_PKT_BURST - c /\ k <= Cardinality(held)
      /\ (k = 0 => Cardinality(held) = 0 \/ c = MAX_PKT_BURST)
  BY <1>3 DEF GroPktsNum
<1> HIDE DEF k
<1>5. (k = 0 /\ F = held) \/ Cardinality(F) = k
  BY DEF FlushedSets, k
<1>6. c < MAX_PKT_BURST => c + Cardinality(F) <= MAX_PKT_BURST
  BY <1>3, <1>4, <1>5
<1> QED
  BY <1>1, <1>2, <1>6

LEMMA HeavyMoves ==
  ASSUME Inv, NEW s \in Streams, ForwardHeavy(s)
  PROVE  (\E N, X : Moved(s, N, X)) /\ used' \in Nat /\ RoomInv'
<1>1. PICK b \in Bursts(s) \cup {<<>>} :
      \E o \in Reassembled(ctx, b, {"GTP_TCP"}, CtxItemNum) :
      \E F \in IF FlushTurn(s)
               THEN FlushedSets(o.held, GroPktsNum(o.held, Cardinality(o.back)))
               ELSE {{}} :
         /\ received' = received \cup PktSet(b)
         /\ ctx' = o.held \ F
         /\ used' = Cardinality(o.back) + Cardinality(F)
         /\ Transmit(s, Singles(o.back) \cup F)
  BY DEF ForwardHeavy
<1>2. PICK o \in Reassembled(ctx, b, {"GTP_TCP"}, CtxItemNum) :
      \E F \in IF FlushTurn(s)
               THEN FlushedSets(o.held, GroPktsNum(o.held, Cardinality(o.back)))
               ELSE {{}} :
         /\ received' = received \cup PktSet(b)
         /\ ctx' = o.held \ F
         /\ used' = Cardinality(o.back) + Cardinality(F)
         /\ Transmit(s, Singles(o.back) \cup F)
  BY <1>1
<1>3. PICK F \in IF FlushTurn(s)
                 THEN FlushedSets(o.held, GroPktsNum(o.held, Cardinality(o.back)))
                 ELSE {{}} :
         /\ received' = received \cup PktSet(b)
         /\ ctx' = o.held \ F
         /\ used' = Cardinality(o.back) + Cardinality(F)
         /\ Transmit(s, Singles(o.back) \cup F)
  BY <1>2
<1>4. /\ Len(b) \in Nat /\ Len(b) <= NbPktPerBurst /\ DOMAIN b = 1..Len(b)
      /\ \A k, l \in 1..Len(b) : b[k] = b[l] => k = l
      /\ \A k \in 1..Len(b) : b[k] \in AllPkts /\ b[k] \notin received
      /\ PktSet(b) \subseteq AllPkts /\ PktSet(b) \cap received = {}
  BY BurstIs DEF Inv
<1>5. /\ Separate(ctx) /\ PktsOf(ctx) \subseteq received
      /\ IsFiniteSet(ctx) /\ Cardinality(ctx) <= CtxItemNum
  BY ContextIs DEF Inv
<1>6. Handled(ctx, CtxItemNum, PktSet(b), Len(b), o)
  <2>1. CtxItemNum \in Nat /\ \A k \in 1..Len(b) : b[k] \in AllPkts /\ b[k] \notin PktsOf(ctx)
    BY <1>4, <1>5, ConstantsAre
  <2> QED
    BY <1>2, <1>4, <1>5, <2>1, BurstHandled
<1>7. /\ IsFiniteSet(o.held) /\ Cardinality(o.held) <= CtxItemNum
      /\ Cardinality(o.back) \in Nat /\ Cardinality(o.back) <= Len(b)
  BY <1>6, FS_CardinalityType DEF Handled
<1>8. Cardinality(o.back) <= MAX_PKT_BURST /\ MAX_PKT_BURST \in Nat
      /\ (BurstsLeaveRoom => Cardinality(o.back) < MAX_PKT_BURST)
  BY <1>4, <1>7, ConstantsAre DEF BurstsLeaveRoom
<1>9. /\ F \subseteq o.held /\ IsFiniteSet(F)
      /\ BurstsLeaveRoom => Cardinality(o.back) + Cardinality(F) <= MAX_PKT_BURST
  <2>1. CASE FlushTurn(s)
    <3> DEFINE c == Cardinality(o.back)
               H == o.held
    <3>1. F \in FlushedSets(H, GroPktsNum(H, c)) /\ IsFiniteSet(H) /\ c \in Nat /\ c <= MAX_PKT_BURST
      BY <1>3, <1>7, <1>8, <2>1
    <3> HIDE DEF c, H
    <3>2. F \subseteq H /\ IsFiniteSet(F) /\ (c < MAX_PKT_BURST => c + Cardinality(F) <= MAX_PKT_BURST)
      BY <3>1, FlushRoom
    <3> QED
      BY <1>8, <3>2 DEF c, H
  <2>2. CASE ~FlushTurn(s)
    <3>1. F = {} /\ IsFiniteSet(F) /\ Cardinality(F) = 0
      BY <1>3, <2>2, FS_EmptySet
    <3> QED
      BY <1>7, <1>8, <3>1
  <2> QED
    BY <2>1, <2>2
<1>10. RoomInv' /\ used' \in Nat
  BY <1>3, <1>7, <1>9, FS_CardinalityType DEF RoomInv, BurstsLeaveRoom
<1>11. PktSet(b) \in SUBSET AllPkts
  BY <1>4
<1>12. /\ Separate(AllOf(o)) /\ o.held \cap Singles(o.back) = {}
       /\ PktsOf(AllOf(o)) = PktsOf(ctx) \cup PktSet(b)
  <2> DEFINE S == PktSet(b)
             n == Len(b)
             h == ctx
  <2>1. Handled(h, CtxItemNum, S, n, o) /\ S \in SUBSET AllPkts
    BY <1>6, <1>11
  <2> HIDE DEF S, n, h
  <2>2. Separate(AllOf(o))
    BY ONLY <2>1, HeldAndBack
  <2>3. PktsOf(AllOf(o)) = PktsOf(o.held) \cup o.back
    BY ONLY <2>1, HeldAndBack
  <2>4. o.held \cap Singles(o.back) = {}
    BY ONLY <2>1, HeldAndBack
  <2> QED
    BY <1>6, <2>2, <2>3, <2>4 DEF S, h, Handled
<1> DEFINE H == o.held
           B == Singles(o.back)
           N == PktSet(b)
           X == B \cup F
<1>13. /\ Separate(H \cup B) /\ H \cap B = {} /\ PktsOf(H \cup B) = PktsOf(ctx) \cup N
  BY <1>12 DEF AllOf
<1>14. F \subseteq H /\ IsFiniteSet(H) /\ Cardinality(H) <= CtxItemNum /\ CtxItemNum \in Nat
  BY <1>7, <1>9, ConstantsAre
<1>15. ctx' = H \ F /\ Transmit(s, X) /\ received' = received \cup N
  BY <1>3
<1>16. N \subseteq AllPkts /\ N \cap received = {}
  BY <1>4
<1> HIDE DEF H, B, N
<1>17. ctx' \cup X = H \cup B /\ ctx' \cap X = {}
  BY <1>13, <1>14, <1>15
<1>18. IsFiniteSet(ctx') /\ Cardinality(ctx') <= CtxItemNum
  <2>1. H \ F \in SUBSET H
    OBVIOUS
  <2>2. IsFiniteSet(H \ F) /\ Cardinality(H \ F) <= Cardinality(H)
    BY <1>14, <2>1, FS_Subset
  <2>3. Cardinality(H \ F) \in Nat /\ Cardinality(H) \in Nat
    BY <1>14, <2>2, FS_CardinalityType
  <2> QED
    BY <1>14, <1>15, <2>2, <2>3
<1> HIDE DEF X
<1>19. Moved(s, N, X)
  BY <1>13, <1>15, <1>16, <1>17, <1>18 DEF Moved
<1> QED
  BY <1>10, <1>19

-----------------------------------------------------------------------------
(* The operations counted.                                                 *)

AllCounts == Streams \X (1..(GRO_MAX_FLUSH_CYCLES - 1))

LEMMA CountsAre ==
  /\ IsFiniteSet(AllCounts)
  /\ Cardinality(AllCounts) = NbStreams * (GRO_MAX_FLUSH_CYCLES - 1)
<1> DEFINE M == GRO_MAX_FLUSH_CYCLES - 1
<1>1. NbStreams \in Nat /\ M \in Nat /\ Streams = 1..NbStreams
  BY ConstantsAre
<1> HIDE DEF M
<1>2. IsFiniteSet(1..NbStreams) /\ Cardinality(1..NbStreams) = NbStreams
  BY <1>1, FS_Interval
<1>3. IsFiniteSet(1..M) /\ Cardinality(1..M) = M
  BY <1>1, FS_Interval
<1>4. /\ IsFiniteSet((1..NbStreams) \X (1..M))
      /\ Cardinality((1..NbStreams) \X (1..M)) = Cardinality(1..NbStreams) * Cardinality(1..M)
  BY <1>2, <1>3, FS_Product
<1>5. AllCounts = (1..NbStreams) \X (1..M)
  BY <1>1 DEF AllCounts, M
<1>6. Cardinality(AllCounts) = NbStreams * M
  BY <1>2, <1>3, <1>4, <1>5
<1> QED
  BY <1>4, <1>5, <1>6 DEF M

LEMMA CountedIs ==
  /\ IsFiniteSet(Counted) /\ Cardinality(Counted) \in Nat
  /\ Cardinality(Counted) <= NbStreams * (GRO_MAX_FLUSH_CYCLES - 1)
<1>1. Counted \in SUBSET AllCounts
  BY DEF Counted, AllCounts
<1>2. IsFiniteSet(Counted) /\ Cardinality(Counted) <= Cardinality(AllCounts)
  BY <1>1, CountsAre, FS_Subset
<1> QED
  BY <1>2, CountsAre, FS_CardinalityType

(* An operation that does not flush is one more that is counted.           *)
LEMMA CountedGrows ==
  ASSUME TypeInv, NEW s \in Streams, gro_times[s] + 1 < GRO_MAX_FLUSH_CYCLES,
         gro_times' = [gro_times EXCEPT ![s] = gro_times[s] + 1]
  PROVE  Cardinality(Counted') = Cardinality(Counted) + 1
<1> DEFINE t == gro_times[s]
           G == GRO_MAX_FLUSH_CYCLES
<1>1. G \in Nat \ {0} /\ gro_times \in [Streams -> 0..(G - 1)]
  BY ConstantsAre DEF TypeInv
<1>2. t \in Nat /\ t + 1 \in 1..(G - 1)
  BY <1>1
<1>3. \A r \in Streams : gro_times'[r] = IF r = s THEN t + 1 ELSE gro_times[r]
  BY <1>1
<1>4. \A r \in Streams : gro_times[r] \in Nat
  BY <1>1
<1>5. \A r \in Streams, k \in 1..(G - 1) :
         <<r, k>> \in Counted' <=> <<r, k>> \in Counted \/ (r = s /\ k = t + 1)
  <2> SUFFICES ASSUME NEW r \in Streams, NEW k \in 1..(G - 1)
               PROVE  k <= gro_times'[r] <=> k <= gro_times[r] \/ (r = s /\ k = t + 1)
    BY DEF Counted
  <2> QED
    BY <1>2, <1>3, <1>4
<1>6. \A c \in Counted \cup Counted' : \E r \in Streams, k \in 1..(G - 1) : c = <<r, k>>
  BY DEF Counted
<1>7. <<s, t + 1>> \in Counted' /\ <<s, t + 1>> \notin Counted
  <2>1. <<s, t + 1>> \notin Counted
    BY <1>2 DEF Counted
  <2> QED
    BY <1>2, <1>5, <2>1
<1>8. Counted' = Counted \cup {<<s, t + 1>>}
  <2> SUFFICES ASSUME NEW c
               PROVE  c \in Counted' <=> c \in Counted \cup {<<s, t + 1>>}
    OBVIOUS
  <2>1. CASE c \in Counted'
    BY <1>5, <1>6, <2>1
  <2>2. CASE c \in Counted
    BY <1>5, <1>6, <2>2
  <2> QED
    BY <1>7, <2>1, <2>2
<1> QED
  BY <1>7, <1>8, CountedIs, FS_AddElement

LEMMA HeavyCounts ==
  ASSUME Inv, NEW s \in Streams, ForwardHeavy(s)
  PROVE  /\ gro_times' \in [Streams -> 0..(GRO_MAX_FLUSH_CYCLES - 1)]
         /\ ops' \in Nat /\ OpsInv'
<1>1. /\ gro_times' = [gro_times EXCEPT ![s] = IF FlushTurn(s) THEN 0 ELSE gro_times[s] + 1]
      /\ ops' = IF FlushTurn(s) THEN 0 ELSE ops + 1
  BY DEF ForwardHeavy
<1>2. /\ TypeInv /\ ops \in Nat /\ ops <= Cardinality(Counted)
      /\ gro_times \in [Streams -> 0..(GRO_MAX_FLUSH_CYCLES - 1)]
      /\ gro_flush_cycles \in 1..GRO_MAX_FLUSH_CYCLES
      /\ GRO_MAX_FLUSH_CYCLES \in Nat \ {0}
  BY ConstantsAre DEF Inv, TypeInv, OpsInv
<1>3. Cardinality(Counted') \in Nat /\ Cardinality(Counted) \in Nat
  <2>1. Cardinality(Counted) \in Nat
    BY CountedIs
  <2>2. (Cardinality(Counted) \in Nat)'
    BY CountedIs, PTL
  <2> QED
    BY <2>1, <2>2
<1>4. CASE FlushTurn(s)
  <2>1. gro_times' = [gro_times EXCEPT ![s] = 0] /\ ops' = 0
    BY <1>1, <1>4
  <2> QED
    BY <1>2, <1>3, <2>1 DEF OpsInv
<1>5. CASE ~FlushTurn(s)
  <2>1. gro_times' = [gro_times EXCEPT ![s] = gro_times[s] + 1] /\ ops' = ops + 1
    BY <1>1, <1>5
  <2>2. gro_times[s] \in Nat /\ gro_times[s] + 1 < GRO_MAX_FLUSH_CYCLES
    BY <1>2, <1>5 DEF FlushTurn
  <2>3. Cardinality(Counted') = Cardinality(Counted) + 1
    BY <1>2, <2>1, <2>2, CountedGrows
  <2>4. gro_times[s] + 1 \in 0..(GRO_MAX_FLUSH_CYCLES - 1)
    BY <1>2, <2>2
  <2>5. gro_times' \in [Streams -> 0..(GRO_MAX_FLUSH_CYCLES - 1)]
    BY <1>2, <2>1, <2>4
  <2> QED
    BY <1>2, <1>3, <2>1, <2>3, <2>5 DEF OpsInv
<1> QED
  BY <1>4, <1>5

LEMMA CountsStay ==
  ASSUME Inv, UNCHANGED <<gro_times, ops>>
  PROVE  /\ gro_times' \in [Streams -> 0..(GRO_MAX_FLUSH_CYCLES - 1)]
         /\ ops' \in Nat /\ OpsInv'
<1>1. Counted' = Counted
  BY DEF Counted
<1> QED
  BY <1>1 DEF Inv, TypeInv, OpsInv

-----------------------------------------------------------------------------
(* Every step keeps the invariant.                                         *)

LEMMA TurnTypes ==
  ASSUME TypeInv, NEW s \in Streams, Turn(s)
  PROVE  /\ state' \in {"stopped", "running", "stopping"}
         /\ sm_id' \in Streams
         /\ UNCHANGED <<gro_flush_cycles, gro_ports>>
<1>1. sm_id' \in Streams
  BY ConstantsAre DEF Turn
<1> QED
  BY <1>1 DEF Turn, TypeInv, config

LEMMA ForwardInv ==
  ASSUME Inv, NEW s \in Streams,
         ForwardIdle(s) \/ ForwardWithoutGro(s) \/ ForwardLight(s) \/ ForwardHeavy(s)
  PROVE  Inv'
<1>1. TypeInv /\ PlaceInv
  BY DEF Inv
<1>2. Turn(s)
  BY DEF ForwardIdle, ForwardWithoutGro, ForwardLight, ForwardHeavy
<1>3. CASE ForwardIdle(s)
  <2>1. PlaceInv' /\ UNCHANGED <<gro_times, ctx, received, sent, dropped, used, ops>>
    BY <1>3, IdleMoves
  <2>2. TypeInv'
    BY <1>1, <1>2, <2>1, TurnTypes DEF TypeInv
  <2>3. RoomInv'
    BY <2>1 DEF Inv, RoomInv, BurstsLeaveRoom
  <2> QED
    BY <2>1, <2>2, <2>3, CountsStay DEF Inv
<1>4. ASSUME NEW N, NEW X, Moved(s, N, X), used' \in Nat, RoomInv',
             gro_times' \in [Streams -> 0..(GRO_MAX_FLUSH_CYCLES - 1)], ops' \in Nat, OpsInv'
      PROVE  Inv'
  <2>1. PlaceInv' /\ sent' \in [Ports -> SUBSET Runs] /\ received' \subseteq AllPkts
    BY <1>1, <1>4, MovedPlaces
  <2>2. IsFiniteSet(ctx') /\ Cardinality(ctx') <= CtxItemNum
    BY <1>4 DEF Moved
  <2>3. TypeInv'
    BY <1>1, <1>2, <1>4, <2>1, <2>2, TurnTypes DEF TypeInv
  <2> QED
    BY <1>4, <2>1, <2>3 DEF Inv
<1>5. CASE ForwardWithoutGro(s)
  BY <1>4, <1>5, WithoutGroMoves, CountsStay
<1>6. CASE ForwardLight(s)
  BY <1>4, <1>6, LightMoves, CountsStay
<1>7. CASE ForwardHeavy(s)
  BY <1>4, <1>7, HeavyMoves, HeavyCounts
<1> QED
  BY <1>3, <1>5, <1>6, <1>7

(* Commands touch neither packets nor counts.                              *)
LEMMA UnmovedInv ==
  ASSUME Inv, UNCHANGED <<gro_times, ctx, received, sent, dropped, used, ops>>
  PROVE  PlaceInv' /\ OpsInv' /\ RoomInv'
<1>1. Everything' = Everything /\ Counted' = Counted
  BY DEF Everything, SentRuns, Counted
<1> QED
  BY <1>1 DEF Inv, PlaceInv, OpsInv, RoomInv, BurstsLeaveRoom

LEMMA CommandInv ==
  ASSUME Inv,
         \/ StartPacketForwarding
         \/ StopPacketForwarding
         \/ \E port \in Ports, on \in BOOLEAN : SetupGro(port, on)
         \/ \E cycles \in 0..(GRO_MAX_FLUSH_CYCLES + 1) : SetupGroFlushCycles(cycles)
  PROVE  Inv'
<1>1. TypeInv
  BY DEF Inv
<1>2. UNCHANGED <<gro_times, ctx, received, sent, dropped, used, ops>>
  BY DEF StartPacketForwarding, StopPacketForwarding, SetupGro, SetupGroFlushCycles, unmoved
<1>3. CASE StartPacketForwarding
  <2>1. state' = "running" /\ sm_id' = 1 /\ UNCHANGED <<gro_flush_cycles, gro_ports>>
    BY <1>3 DEF StartPacketForwarding, config
  <2>2. sm_id' \in Streams
    BY <2>1, ConstantsAre
  <2>3. TypeInv'
    BY <1>1, <1>2, <2>1, <2>2 DEF TypeInv
  <2> QED
    BY <1>2, <2>3, UnmovedInv DEF Inv
<1>4. CASE StopPacketForwarding
  <2>1. state' = "stopping" /\ UNCHANGED <<gro_flush_cycles, gro_ports, sm_id>>
    BY <1>4 DEF StopPacketForwarding, config, unmoved
  <2>2. TypeInv'
    BY <1>1, <1>2, <2>1 DEF TypeInv
  <2> QED
    BY <1>2, <2>2, UnmovedInv DEF Inv
<1>5. CASE \E port \in Ports, on \in BOOLEAN : SetupGro(port, on)
  <2>1. PICK port \in Ports, on \in BOOLEAN : SetupGro(port, on)
    BY <1>5
  <2>2. UNCHANGED <<state, gro_flush_cycles, sm_id>>
    BY <2>1 DEF SetupGro, unmoved
  <2> DEFINE row == [enable    |-> on,
                     gro_types |-> IF on /\ gro_flush_cycles = GRO_DEFAULT_FLUSH_CYCLES
                                   THEN {"GTP_TCP"} ELSE gro_ports[port].gro_types]
  <2>3. gro_ports' = [gro_ports EXCEPT ![port] = row]
    BY <2>1 DEF SetupGro
  <2>4. gro_ports \in [Ports -> [enable : BOOLEAN, gro_types : SUBSET GroType]]
    BY <1>1 DEF TypeInv
  <2>5. row \in [enable : BOOLEAN, gro_types : SUBSET GroType]
    BY <2>4, GtpTcpIsType
  <2> HIDE DEF row
  <2>6. gro_ports' \in [Ports -> [enable : BOOLEAN, gro_types : SUBSET GroType]]
    BY <2>3, <2>4, <2>5
  <2>7. TypeInv'
    BY <1>1, <1>2, <2>2, <2>6 DEF TypeInv
  <2> QED
    BY <1>2, <2>7, UnmovedInv DEF Inv
<1>6. CASE \E cycles \in 0..(GRO_MAX_FLUSH_CYCLES + 1) : SetupGroFlushCycles(cycles)
  <2>1. PICK cycles \in 0..(GRO_MAX_FLUSH_CYCLES + 1) : SetupGroFlushCycles(cycles)
    BY <1>6
  <2>2. UNCHANGED <<state, gro_ports, sm_id>>
    BY <2>1 DEF SetupGroFlushCycles, unmoved
  <2>3. gro_flush_cycles' \in 1..GRO_MAX_FLUSH_CYCLES
    BY <2>1, ConstantsAre DEF SetupGroFlushCycles, GRO_DEFAULT_FLUSH_CYCLES
  <2>4. TypeInv'
    BY <1>1, <1>2, <2>2, <2>3 DEF TypeInv
  <2> QED
    BY <1>2, <2>4, UnmovedInv DEF Inv
<1> QED
  BY <1>3, <1>4, <1>5, <1>6

LEMMA StutterInv == ASSUME Inv, UNCHANGED vars  PROVE Inv'
<1>1. UNCHANGED <<state, gro_flush_cycles, gro_ports, sm_id>>
      /\ UNCHANGED <<gro_times, ctx, received, sent, dropped, used, ops>>
  BY DEF vars, config
<1>2. TypeInv'
  BY <1>1 DEF Inv, TypeInv
<1> QED
  BY <1>1, <1>2, UnmovedInv DEF Inv

LEMMA NextInv == Inv /\ [Next]_vars => Inv'
<1> SUFFICES ASSUME Inv, [Next]_vars  PROVE Inv'
  OBVIOUS
<1>1. CASE Forward
  BY <1>1, ForwardInv DEF Forward
<1>2. CASE UNCHANGED vars
  BY <1>2, StutterInv
<1> QED
  BY <1>1, <1>2, CommandInv DEF Next

LEMMA AlwaysInv == Spec => []Inv
  BY InitInv, NextInv, PTL DEF Spec

-----------------------------------------------------------------------------
(* What the invariant says of the properties.                              *)

(* The engine's variables keep to their ranges: no stream counts up to the *)
(* flush cycles, whatever is configured between two rounds, and no series  *)
(* of bursts fills the context beyond the size of its tables.              *)
THEOREM TypeCorrect == Spec => []TypeOK
<1>1. Inv => TypeOK
  <2> SUFFICES ASSUME Inv  PROVE TypeOK
    OBVIOUS
  <2>1. Everything \subseteq Runs
    BY DEF Inv, PlaceInv, Separate
  <2>2. ctx \subseteq Runs /\ dropped \subseteq Runs
    BY <2>1 DEF Everything
  <2> QED
    BY <2>2 DEF Inv, TypeInv, TypeOK
<1> QED
  BY <1>1, AlwaysInv, PTL

(* Every packet the port has handed over is in one run, in one place: held *)
(* in the context, transmitted on one port, or freed as not transmitted.   *)
(* Merging, flushing and changing the mode lose none and double none.      *)
THEOREM PacketsOnce == Spec => []EveryPacketOnce
<1>1. Inv => EveryPacketOnce
  <2> SUFFICES ASSUME Inv  PROVE EveryPacketOnce
    OBVIOUS
  <2>1. /\ Separate(Everything) /\ received = PktsOf(Everything)
        /\ ctx \cap dropped = {}
        /\ \A p \in Ports : sent[p] \cap (ctx \cup dropped) = {}
        /\ \A p, q \in Ports : p # q => sent[p] \cap sent[q] = {}
    BY DEF Inv, PlaceInv
  <2>2. PktsOf(Everything) = PktsOf(ctx) \cup PktsOf(SentRuns) \cup PktsOf(dropped)
    <3>1. PktsOf(Everything) = PktsOf(ctx \cup SentRuns) \cup PktsOf(dropped)
      BY PktsOfUnion DEF Everything
    <3>2. PktsOf(ctx \cup SentRuns) = PktsOf(ctx) \cup PktsOf(SentRuns)
      BY PktsOfUnion
    <3> QED
      BY <3>1, <3>2
  <2>3. \A r, q \in Everything : r # q => PktsOf({r}) \cap PktsOf({q}) = {}
    BY <2>1, PktsOfOne DEF Separate
  <2>4. \A r \in Everything : \A m, n \in DOMAIN r.pkts : r.pkts[m] = r.pkts[n] => m = n
    BY <2>1 DEF Separate, OnceIn
  <2> QED
    BY <2>1, <2>2, <2>3, <2>4 DEF EveryPacketOnce, Everything
<1> QED
  BY <1>1, AlwaysInv, PTL

(* What a call gives back and what it flushes behind that fit into         *)
(* pkts_burst, if a burst is smaller than the array: behind a full array   *)
(* the flush would be asked for 0 packets, which means all that are held.  *)
THEOREM BurstFits ==
  ASSUME BurstsLeaveRoom
  PROVE  Spec => []BurstNeverOverrun
<1>1. Inv => BurstNeverOverrun
  BY DEF Inv, RoomInv, BurstNeverOverrun
<1> QED
  BY <1>1, AlwaysInv, PTL

(* However streams, idle polls, restarts and commands are mixed, the       *)
(* context is flushed after a bounded number of operations on it.          *)
THEOREM FlushesInTime == Spec => []FlushInTime
<1>1. Inv => FlushInTime
  <2>1. Cardinality(Counted) \in Nat
        /\ Cardinality(Counted) <= NbStreams * (GRO_MAX_FLUSH_CYCLES - 1)
    BY CountedIs
  <2>2. NbStreams * (GRO_MAX_FLUSH_CYCLES - 1) \in Int
    BY ConstantsAre
  <2> DEFINE M == NbStreams * (GRO_MAX_FLUSH_CYCLES - 1)
  <2>3. M \in Int /\ Cardinality(Counted) <= M
    BY <2>1, <2>2
  <2> HIDE DEF M
  <2>4. Inv => ops <= M
    BY <2>1, <2>3 DEF Inv, TypeInv, OpsInv
  <2> QED
    BY <2>4 DEF FlushInTime, M
<1> QED
  BY <1>1, AlwaysInv, PTL

-----------------------------------------------------------------------------
(***************************************************************************)
(* The memory of a GRO context.                                            *)
(***************************************************************************)

(* The blocks of whole tables.                                             *)
Tables(J) == UNION {Table(j) : j \in J}

(* The parts of table i that its create function has so far.               *)
PartsSoFar == {<<i, Parts[n]>> : n \in 1..(part - 1)}

(* The types a table is created for.                                       *)
Wanted == param.gro_types \cap Creators

(* What is allocated at each place in the code; with it, what tbls and the *)
(* counter say of it.                                                      *)
NoneInv == pc = "none" => heap = {}

CreateInv ==
  pc = "create" =>
    /\ heap = {CtxBlock} \cup Tables(gro_ctx.tbls) \cup PartsSoFar
    /\ gro_ctx.tbls = gro_types
    /\ gro_types = {j \in Wanted : j < i}
    /\ part > 1 => i \in Wanted

ReadyInv ==
  pc = "ready" =>
    /\ heap = {CtxBlock} \cup Tables(gro_ctx.tbls)
    /\ gro_ctx.gro_types = param.gro_types
    /\ gro_ctx.tbls = Wanted
    /\ i = 0

DestroyInv ==
  pc = "destroy" =>
    /\ heap = {CtxBlock} \cup Tables({j \in gro_ctx.tbls : j >= i})
    /\ gro_ctx.tbls \subseteq gro_ctx.gro_types \cap Creators

HeapInv == NoneInv /\ CreateInv /\ ReadyInv /\ DestroyInv

CtxInv == CtxTypeOK /\ HeapInv

-----------------------------------------------------------------------------
LEMMA PartsDef == Len(Parts) = 3 /\ DOMAIN Parts = 1..3 /\ 3 \in Nat
  BY DEF Parts

(* What the last part completes.                                           *)
LEMMA TableIsParts ==
  ASSUME NEW j
  PROVE  Table(j) = {<<j, Parts[n]>> : n \in 1..(3 - 1)} \cup {<<j, Parts[3]>>}
  BY PartsDef DEF Table

(* Tables of different types, and the context, share no block.             *)
LEMMA TablesApart ==
  ASSUME NEW J, NEW j, j \notin J
  PROVE  Table(j) \cap Tables(J) = {}
  BY DEF Table, Tables

LEMMA CtxApart ==
  ASSUME NEW J, J \subseteq TypeBits
  PROVE  CtxBlock \notin Tables(J)
  BY CtxAssumption DEF Tables, Table, CtxBlock, TypeBits

LEMMA MoreTables ==
  ASSUME NEW J, NEW j
  PROVE  /\ Tables(J \cup {j}) = Tables(J) \cup Table(j)
         /\ j \notin J => (Tables(J \cup {j}) \ Table(j)) = Tables(J)
  BY TablesApart DEF Tables

LEMMA NoTables == Tables({}) = {}
  BY DEF Tables

LEMMA TablesAreBlocks ==
  ASSUME NEW J, J \subseteq TypeBits
  PROVE  Tables(J) \subseteq Blocks
  BY DEF Tables, Blocks

LEMMA CtxInitInv == CtxInit => CtxInv
<1> SUFFICES ASSUME CtxInit PROVE CtxInv
  OBVIOUS
<1>1. CtxTypeOK
  BY PartsDef, CtxAssumption DEF CtxInit, CtxTypeOK, Nothing
<1> QED
  BY <1>1 DEF CtxInit, CtxInv, HeapInv, NoneInv, CreateInv, ReadyInv, DestroyInv

LEMMA CtxNextInv == CtxInv /\ [CtxNext]_ctx_vars => CtxInv'
<1> SUFFICES ASSUME CtxInv, [CtxNext]_ctx_vars PROVE CtxInv'
  OBVIOUS
<1>1. /\ CtxTypeOK /\ NoneInv /\ CreateInv /\ ReadyInv /\ DestroyInv
      /\ TypeNum \in Nat /\ i \in Int /\ part \in 1..3
      /\ gro_ctx = [gro_types |-> gro_ctx.gro_types, tbls |-> gro_ctx.tbls]
  BY CtxAssumption, PartsDef DEF CtxInv, HeapInv, CtxTypeOK
<1>2. CASE CreateCtx
  <2>1. CASE Goto("create") /\ heap' = heap \cup {CtxBlock}
    <3>1. heap' = {CtxBlock} /\ pc' = "create" /\ i' = 0 /\ part' = 1 /\ gro_types' = {}
          /\ gro_ctx' = Nothing /\ param' = param
      BY <1>1, <1>2, <2>1 DEF CreateCtx, Goto, NoneInv
    <3>2. CtxTypeOK'
      BY <1>1, <3>1, PartsDef DEF CtxTypeOK, Nothing, Blocks
    <3>3. CreateInv'
      BY <1>1, <3>1, NoTables DEF CreateInv, Nothing, PartsSoFar, Wanted, CtxTypeOK, TypeBits
    <3> QED
      BY <3>1, <3>2, <3>3 DEF CtxInv, HeapInv, NoneInv, ReadyInv, DestroyInv
  <2>2. CASE UNCHANGED <<heap, pc, i, part>>
    <3>1. heap' = {} /\ pc' = "none" /\ i' = i /\ part' = part /\ gro_types' = {}
          /\ gro_ctx' = Nothing /\ param' = param
      BY <1>1, <1>2, <2>2 DEF CreateCtx, NoneInv
    <3>2. CtxTypeOK'
      BY <1>1, <3>1 DEF CtxTypeOK, Nothing
    <3> QED
      BY <3>1, <3>2 DEF CtxInv, HeapInv, NoneInv, CreateInv, ReadyInv, DestroyInv
  <2> QED
    BY <1>2, <2>1, <2>2 DEF CreateCtx
<1>3. CASE SkipType
  <2>1. /\ pc = "create" /\ pc' = "create" /\ i \in TypeBits \ Wanted /\ i' = i + 1
        /\ UNCHANGED <<heap, gro_ctx, param, part, gro_types>>
    BY <1>3 DEF SkipType, Wanted
  <2>2. part = 1 /\ PartsSoFar = {} /\ PartsSoFar' = {}
    BY <1>1, <2>1 DEF CreateInv, PartsSoFar
  <2>3. CtxTypeOK'
    BY <1>1, <2>1 DEF CtxTypeOK, TypeBits
  <2>4. {j \in Wanted : j < i} = {j \in Wanted : j < i + 1}
    BY <1>1, <2>1 DEF Wanted, CtxTypeOK, TypeBits
  <2>5. CreateInv'
    BY <1>1, <2>1, <2>2, <2>4 DEF CreateInv, Wanted
  <2> QED
    BY <2>1, <2>3, <2>5 DEF CtxInv, HeapInv, NoneInv, ReadyInv, DestroyInv
<1>4. CASE CreateTablePart
  <2>1. /\ pc = "create" /\ i \in Wanted /\ i \in TypeBits /\ param' = param
        /\ i \notin gro_ctx.tbls /\ gro_ctx.tbls \subseteq TypeBits
    BY <1>1, <1>4 DEF CreateTablePart, Wanted, CtxTypeOK, CreateInv
  <2>2. heap = {CtxBlock} \cup Tables(gro_ctx.tbls) \cup PartsSoFar
    BY <1>1, <2>1 DEF CreateInv
  <2>3. CASE heap' = heap \cup {<<i, Parts[part]>>} /\ part = 3 /\ TableCreated
    <3>1. /\ i' = i + 1 /\ part' = 1 /\ pc' = pc /\ gro_types' = gro_types \cup {i}
          /\ gro_ctx' = [gro_types |-> gro_ctx.gro_types, tbls |-> gro_ctx.tbls \cup {i}]
      BY <1>1, <2>3 DEF TableCreated
    <3>2. PartsSoFar \cup {<<i, Parts[part]>>} = Table(i)
      BY <2>3, TableIsParts DEF PartsSoFar
    <3>3. heap' = {CtxBlock} \cup Tables(gro_ctx'.tbls)
      <4>1. Tables(gro_ctx.tbls \cup {i}) = Tables(gro_ctx.tbls) \cup Table(i)
        BY MoreTables
      <4>2. gro_ctx'.tbls = gro_ctx.tbls \cup {i}
        BY <3>1
      <4>3. heap' = {CtxBlock} \cup Tables(gro_ctx.tbls \cup {i})
        BY <2>2, <2>3, <3>2, <4>1
      <4> QED
        BY <4>2, <4>3
    <3>4. PartsSoFar' = {}
      BY <3>1 DEF PartsSoFar
    <3>5. gro_types' = {j \in Wanted : j < i'}
      BY <1>1, <2>1, <3>1 DEF CreateInv, Wanted, CtxTypeOK, TypeBits
    <3>6. CtxTypeOK'
      <4>1. heap' \subseteq Blocks
        BY <2>1, <3>1, <3>3, TablesAreBlocks DEF Blocks
      <4> QED
        BY <1>1, <2>1, <3>1, <4>1, PartsDef DEF CtxTypeOK, TypeBits
    <3>7. CreateInv'
      BY <1>1, <2>1, <3>1, <3>3, <3>4, <3>5 DEF CreateInv, Wanted
    <3> QED
      BY <2>1, <3>1, <3>6, <3>7 DEF CtxInv, HeapInv, NoneInv, ReadyInv, DestroyInv
  <2>4. CASE /\ heap' = heap \cup {<<i, Parts[part]>>} /\ part < 3
             /\ part' = part + 1 /\ UNCHANGED <<pc, i, gro_ctx, gro_types>>
    <3>1. PartsSoFar' = PartsSoFar \cup {<<i, Parts[part]>>}
      <4>1. 1..(part' - 1) = (1..(part - 1)) \cup {part}
        BY <1>1, <2>4
      <4> QED
        BY <2>4, <4>1 DEF PartsSoFar
    <3>2. heap' \subseteq Blocks
      BY <1>1, <2>1, <2>4, PartsDef DEF CtxTypeOK, Blocks, Table
    <3>3. CtxTypeOK'
      BY <1>1, <2>1, <2>4, <3>2, PartsDef DEF CtxTypeOK
    <3>4. CreateInv'
      BY <1>1, <2>1, <2>2, <2>4, <3>1 DEF CreateInv, Wanted
    <3> QED
      BY <2>1, <2>4, <3>3, <3>4 DEF CtxInv, HeapInv, NoneInv, ReadyInv, DestroyInv
  <2>5. CASE heap' = heap \ PartsFreed /\ TableFailed
    <3>1. /\ pc' = "destroy" /\ i' = 0 /\ part' = 1 /\ gro_types' = gro_types
          /\ gro_ctx' = [gro_types |-> gro_types, tbls |-> gro_ctx.tbls]
      BY <1>1, <2>5 DEF TableFailed, Goto
    <3>2. PartsSoFar \subseteq Table(i)
      BY <1>1, PartsDef DEF PartsSoFar, Table
    <3>3. heap' = {CtxBlock} \cup Tables(gro_ctx.tbls)
      <4>1. CtxBlock \notin Table(i)
        BY <2>1, CtxAssumption DEF Table, CtxBlock, TypeBits
      <4> QED
        BY <2>1, <2>2, <2>5, <3>2, <4>1, TablesApart DEF PartsFreed
    <3>4. {j \in gro_ctx'.tbls : j >= i'} = gro_ctx.tbls
      BY <2>1, <3>1, CtxAssumption DEF TypeBits
    <3>5. gro_ctx'.tbls \subseteq gro_ctx'.gro_types \cap Creators
      BY <1>1, <2>1, <3>1 DEF CreateInv, Wanted
    <3>6. CtxTypeOK'
      BY <1>1, <2>1, <2>5, <3>1, PartsDef DEF CtxTypeOK
    <3> QED
      BY <3>1, <3>3, <3>4, <3>5, <3>6 DEF CtxInv, HeapInv, NoneInv, CreateInv, ReadyInv, DestroyInv
  <2> QED
    BY <1>4, <2>3, <2>4, <2>5, PartsDef DEF CreateTablePart
<1>5. CASE CreateReturn
  <2>1. /\ pc = "create" /\ i = TypeNum /\ pc' = "ready" /\ i' = 0 /\ part' = 1
        /\ gro_ctx' = [gro_types |-> param.gro_types, tbls |-> gro_ctx.tbls]
        /\ UNCHANGED <<heap, param, gro_types>>
    BY <1>1, <1>5 DEF CreateReturn, Goto
  <2>2. part = 1
    BY <1>1, <2>1 DEF CreateInv, Wanted, CtxTypeOK, TypeBits
  <2>3. heap = {CtxBlock} \cup Tables(gro_ctx.tbls) /\ gro_ctx.tbls = Wanted
    BY <1>1, <2>1, <2>2 DEF CreateInv, PartsSoFar, Wanted, CtxTypeOK, TypeBits
  <2>4. CtxTypeOK'
    BY <1>1, <2>1, PartsDef DEF CtxTypeOK
  <2>5. ReadyInv'
    BY <2>1, <2>3 DEF ReadyInv, Wanted
  <2> QED
    BY <2>1, <2>4, <2>5 DEF CtxInv, HeapInv, NoneInv, CreateInv, DestroyInv
<1>6. CASE Destroy
  <2>1. /\ pc = "ready" /\ pc' = "destroy" /\ i' = 0 /\ part' = 1
        /\ UNCHANGED <<heap, gro_ctx, param, gro_types>>
    BY <1>6 DEF Destroy, Goto
  <2>2. CtxTypeOK'
    BY <1>1, <2>1, PartsDef DEF CtxTypeOK
  <2>3. {j \in gro_ctx.tbls : j >= 0} = gro_ctx.tbls
    BY <1>1, CtxAssumption DEF CtxTypeOK, TypeBits
  <2>4. DestroyInv'
    BY <1>1, <2>1, <2>3 DEF DestroyInv, ReadyInv, Wanted
  <2> QED
    BY <2>1, <2>2, <2>4 DEF CtxInv, HeapInv, NoneInv, CreateInv, ReadyInv
<1>7. CASE DestroyTable
  <2> DEFINE J == {j \in gro_ctx.tbls : j >= i}
             K == {j \in gro_ctx.tbls : j >= i + 1}
  <2>1. /\ pc = "destroy" /\ i \in TypeBits /\ i' = i + 1
        /\ UNCHANGED <<gro_ctx, param, pc, part, gro_types>>
        /\ heap' = IF i \in gro_ctx.gro_types \cap Creators \cap gro_ctx.tbls THEN heap \ Table(i) ELSE heap
    BY <1>7 DEF DestroyTable
  <2>2. heap = {CtxBlock} \cup Tables(J) /\ gro_ctx.tbls \subseteq gro_ctx.gro_types \cap Creators
    BY <1>1, <2>1 DEF DestroyInv
  <2>3. i \in gro_ctx.tbls => J = K \cup {i}
    BY <1>1 DEF CtxTypeOK, TypeBits
  <2>4. i \notin gro_ctx.tbls => J = K
    BY <1>1 DEF CtxTypeOK, TypeBits
  <2>5. i \notin K
    BY <1>1
  <2>6. CtxBlock \notin Table(i)
    BY <2>1, CtxAssumption DEF Table, CtxBlock, TypeBits
  <2> HIDE DEF J, K
  <2>7. heap' = {CtxBlock} \cup Tables(K)
    BY <2>1, <2>2, <2>3, <2>4, <2>5, <2>6, MoreTables
  <2>8. heap' \subseteq heap
    BY <2>1
  <2>9. CtxTypeOK'
    BY <1>1, <2>1, <2>8 DEF CtxTypeOK, TypeBits
  <2>10. DestroyInv'
    BY <2>1, <2>2, <2>7 DEF DestroyInv, K
  <2> QED
    BY <2>1, <2>9, <2>10 DEF CtxInv, HeapInv, NoneInv, CreateInv, ReadyInv
<1>8. CASE DestroyReturn
  <2>1. /\ pc = "destroy" /\ i = TypeNum /\ heap' = heap \ {CtxBlock} /\ gro_ctx' = Nothing
        /\ pc' = "none" /\ i' = 0 /\ part' = 1 /\ UNCHANGED <<param, gro_types>>
    BY <1>8 DEF DestroyReturn, Goto
  <2>2. {j \in gro_ctx.tbls : j >= i} = {}
    BY <1>1, <2>1 DEF CtxTypeOK, TypeBits
  <2>3. heap' = {}
    BY <1>1, <2>1, <2>2, NoTables DEF DestroyInv
  <2>4. CtxTypeOK'
    BY <1>1, <2>1, <2>3, PartsDef DEF CtxTypeOK, Nothing
  <2> QED
    BY <2>1, <2>3, <2>4 DEF CtxInv, HeapInv, NoneInv, CreateInv, ReadyInv, DestroyInv
<1>9. CASE UNCHANGED ctx_vars
  BY <1>9 DEF ctx_vars, CtxInv, CtxTypeOK, HeapInv, NoneInv, CreateInv, ReadyInv, DestroyInv,
              Wanted, PartsSoFar
<1> QED
  BY <1>2, <1>3, <1>4, <1>5, <1>6, <1>7, <1>8, <1>9 DEF CtxNext

LEMMA CtxAlwaysInv == CtxSpec => []CtxInv
  BY CtxInitInv, CtxNextInv, PTL DEF CtxSpec

(* Every variable keeps its type; the loops over the types of a context do *)
(* not run past the last one.                                              *)
THEOREM CtxTypeCorrect == CtxSpec => []CtxTypeOK
<1>1. CtxInv => CtxTypeOK
  BY DEF CtxInv
<1> QED
  BY <1>1, CtxAlwaysInv, PTL

(* Whichever allocation of a creation fails, and after any destroy, no     *)
(* block is left allocated.                                                *)
THEOREM NeverLeaks == CtxSpec => []NothingLeaked
<1>1. CtxInv => NothingLeaked
  BY DEF CtxInv, HeapInv, NoneInv, NothingLeaked
<1> QED
  BY <1>1, CtxAlwaysInv, PTL

(* A context that rte_gro_ctx_create returned has a whole table for every  *)
(* type it will be asked to process.                                       *)
THEOREM ReadyIsWhole == CtxSpec => []ReadyTablesExist
<1>1. CtxInv => ReadyTablesExist
  BY DEF CtxInv, HeapInv, ReadyInv, ReadyTablesExist, Wanted, Tables
<1> QED
  BY <1>1, CtxAlwaysInv, PTL
=============================================================================
