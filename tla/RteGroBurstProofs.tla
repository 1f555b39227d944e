-------------------------- MODULE RteGroBurstProofs --------------------------
(***************************************************************************)
(* Theorems about the lightweight mode: one call of                        *)
(* rte_gro_reassemble_burst on any burst, with any types enabled and any   *)
(* limits.                                                                 *)
(*                                                                         *)
(* At every moment each packet looked at is in one place: in the part of   *)
(* the array that is in its final state, its front, or in one table.  And  *)
(* every run in a table has room behind the front.                         *)
(***************************************************************************)
EXTENDS RteGroBurst, FiniteSetTheorems, TLAPS

-----------------------------------------------------------------------------
(* The invariant.                                                          *)

InRun(r) == {r.pkts[n] : n \in DOMAIN r.pkts}

HeldIn(tb) == UNION {tb[T] : T \in GroType}

(* The packets in entries 1 to f of an array and in tables, and that no    *)
(* packet is in two places.                                                *)
Placed(tb, ar, f) ==
  (UNION {InRun(ar[n]) : n \in 1..f}) \cup (UNION {InRun(r) : r \in HeldIn(tb)})

Apart(tb, ar, f) ==
  /\ \A m, n \in 1..f : m # n => InRun(ar[m]) \cap InRun(ar[n]) = {}
  /\ \A n \in 1..f : \A r \in HeldIn(tb) : InRun(ar[n]) \cap InRun(r) = {}
  /\ \A T, U \in GroType : \A r \in tb[T] : \A s \in tb[U] :
        (T = U /\ r = s) \/ InRun(r) \cap InRun(s) = {}

(* The entries of the array that are final: packets given back, and later  *)
(* what a flush has written behind them (rte_gro.c goes on at              *)
(* unprocess_num).                                                         *)
Front ==
  IF call.pc = "reassemble" \/ call.unprocess_num = nb_pkts THEN call.unprocess_num
                                                            ELSE call.i + call.k

(* The packets the loop has looked at.                                     *)
LookedAt == {given[n] : n \in {m \in DOMAIN given : call.pc = "reassemble" => m < call.p}}

Locals ==
  [ pc : {"reassemble", "flush", "done"}, p : Nat \ {0}, unprocess_num : Nat,
    nb_after_gro : Nat, t : 1..(Len(TypeOrder) + 1), i : Nat, k : Nat ]

TypeInv ==
  /\ given \in Seq(Pkts) /\ nb_pkts \in Nat \ {0}
  /\ \A m, n \in DOMAIN given : given[m] = given[n] => m = n
  /\ pkts \in Seq(Runs) /\ Len(pkts) = nb_pkts
  /\ tbls \in [GroType -> SUBSET Runs]
  /\ \A T \in GroType : IsFiniteSet(tbls[T]) /\ Cardinality(tbls[T]) <= ItemNum(nb_pkts)
  /\ call \in Locals

PlaceInv ==
  /\ Apart(tbls, pkts, Front)
  /\ Placed(tbls, pkts, Front) = LookedAt
  /\ call.pc = "reassemble" => \A n \in call.p..nb_pkts : pkts[n] = Run(given[n], 0)

NoFragment == \A n \in DOMAIN given : given[n].kind # "fragment"

(* Runs written and held; as long as nothing is united at flush time they  *)
(* are as many as nb_after_gro says.                                       *)
CountInv ==
  /\ IsFiniteSet(Held)
  /\ call.unprocess_num <= nb_pkts /\ call.nb_after_gro <= nb_pkts
  /\ call.pc = "reassemble" =>
       /\ call.unprocess_num < call.p /\ call.p <= nb_pkts + 1
       /\ call.t = 1 /\ call.i = 0 /\ call.k = 0
       /\ call.unprocess_num + Cardinality(Held) + (nb_pkts + 1 - call.p) = call.nb_after_gro
  /\ call.pc = "flush" => call.unprocess_num < nb_pkts
  /\ call.pc # "reassemble" =>
       /\ Front + Cardinality(Held) <= nb_pkts
       /\ call.i + call.k <= nb_pkts
       /\ NoFragment => Front + Cardinality(Held) = call.nb_after_gro
       /\ \A n \in 1..(call.t - 1) : tbls[TypeOrder[n]] = {}
  /\ call.t > Len(TypeOrder) \/ call.pc = "done" => call.k = 0
  /\ call.pc = "done" /\ call.unprocess_num < nb_pkts => Held = {}

(* Packets are in the table of the type they were dispatched to.           *)
KindInv ==
  \A T \in GroType : \A r \in tbls[T] : \A p \in InRun(r) :
     T \in DispatchTo(p, GroTypes) /\ Takes(T, p)

Inv == TypeInv /\ PlaceInv /\ CountInv /\ KindInv

-----------------------------------------------------------------------------
(* Runs and arrays.                                                        *)

LEMMA RunIsRun ==
  ASSUME NEW p \in Pkts
  PROVE  Run(p, 0) \in Runs /\ InRun(Run(p, 0)) = {p} /\ Run(p, 0).pkts[1] = p
<1>1. <<p>> \in Seq(Pkts) \ {<<>>} /\ DOMAIN <<p>> = {1} /\ <<p>>[1] = p
  OBVIOUS
<1> QED
  BY <1>1 DEF Run, Runs, InRun

LEMMA RunHasPackets ==
  ASSUME NEW r \in Runs
  PROVE  InRun(r) \subseteq Pkts /\ r.pkts[1] \in InRun(r) /\ r.time = 0
<1>1. r.pkts \in Seq(Pkts) /\ r.pkts # <<>> /\ r.time = 0
  BY DEF Runs
<1> DEFINE a == r.pkts
<1>2. a \in Seq(Pkts) /\ a # <<>>
  BY <1>1
<1> HIDE DEF a
<1>3. DOMAIN a = 1..Len(a) /\ 1 \in DOMAIN a /\ \A n \in DOMAIN a : a[n] \in Pkts
  BY <1>2
<1> QED
  BY <1>1, <1>3 DEF InRun, a

LEMMA Concatenated ==
  ASSUME NEW S, NEW a \in Seq(S), NEW b \in Seq(S)
  PROVE  /\ a \o b \in Seq(S) /\ Len(a \o b) = Len(a) + Len(b)
         /\ \A n \in 1..Len(a) : (a \o b)[n] = a[n]
         /\ \A n \in 1..Len(b) : (a \o b)[Len(a) + n] = b[n]
<1>1. a \o b \in Seq(S) /\ Len(a \o b) = Len(a) + Len(b)
  OBVIOUS
<1>2. \A n \in 1..Len(a) : (a \o b)[n] = a[n]
  OBVIOUS
<1>3. \A n \in 1..Len(b) : (a \o b)[Len(a) + n] = b[n]
  OBVIOUS
<1> QED
  BY <1>1, <1>2, <1>3

LEMMA JoinedIsRun ==
  ASSUME NEW r \in Runs, NEW s \in Runs, NEW time \in {0}
  PROVE  Joined(r, s, time) \in Runs /\ InRun(Joined(r, s, time)) = InRun(r) \cup InRun(s)
<1> DEFINE a == r.pkts
           b == s.pkts
           c == a \o b
<1>1. a \in Seq(Pkts) /\ b \in Seq(Pkts) /\ a # <<>> /\ b # <<>>
  BY DEF Runs
<1>2. /\ c \in Seq(Pkts) /\ Len(c) = Len(a) + Len(b)
      /\ \A n \in 1..Len(a) : c[n] = a[n]
      /\ \A n \in 1..Len(b) : c[Len(a) + n] = b[n]
  <2> HIDE DEF a, b
  <2> QED
    BY <1>1, Concatenated
<1> HIDE DEF a, b
<1>3. /\ DOMAIN a = 1..Len(a) /\ DOMAIN b = 1..Len(b) /\ Len(a) \in Nat \ {0} /\ Len(b) \in Nat
  BY <1>1
<1> HIDE DEF c
<1>4. DOMAIN c = 1..Len(c) /\ c # <<>>
  BY <1>2, <1>3
<1>5. {c[n] : n \in DOMAIN c} = {a[n] : n \in DOMAIN a} \cup {b[n] : n \in DOMAIN b}
  <2>1. \A n \in 1..Len(c) : n \in 1..Len(a) \/ (n - Len(a) \in 1..Len(b) /\ Len(a) + (n - Len(a)) = n)
    BY <1>2, <1>3
  <2>2. \A n \in 1..Len(a) : n \in 1..Len(c)
    BY <1>2, <1>3
  <2>3. \A n \in 1..Len(b) : Len(a) + n \in 1..Len(c)
    BY <1>2, <1>3
  <2>4. \A n \in 1..Len(c) : c[n] \in {a[k] : k \in 1..Len(a)} \cup {b[k] : k \in 1..Len(b)}
    BY <1>2, <2>1
  <2>5. \A n \in 1..Len(a) : a[n] \in {c[k] : k \in 1..Len(c)}
    BY <1>2, <2>2
  <2>6. \A n \in 1..Len(b) : b[n] \in {c[k] : k \in 1..Len(c)}
    BY <1>2, <2>3
  <2> QED
    BY <1>3, <1>4, <2>4, <2>5, <2>6
<1> QED
  BY <1>2, <1>4, <1>5 DEF Joined, Runs, InRun, a, b, c

(* The clock stands still at 0 in this mode, so that hurrying a run        *)
(* changes nothing.                                                        *)
LEMMA NothingToHurry ==
  ASSUME NEW held, held \subseteq Runs, NEW p, NEW h \in Prepared(held, p)
  PROVE  h = held
<1>1. \A r \in held : Hurried(r) = r
  BY DEF Hurried, Runs
<1>2. h = held \/ \E r \in held : h = (held \ {r}) \cup {Hurried(r)}
  BY DEF Prepared, FlowOf
<1> QED
  BY <1>1, <1>2

(* What one turn of the loop may leave of the runs of a table.             *)
LEMMA Outcome ==
  ASSUME NEW T, NEW held, held \subseteq Runs, NEW p, NEW time, NEW m,
         NEW o \in ReassembleOutcomes(T, held, p, time, m)
  PROVE  \/ o = [ret |-> -1, held |-> held]
         \/ /\ Takes(T, p) /\ Cardinality(held) # m
            /\ o = [ret |-> 0, held |-> held \cup {Run(p, time)}]
         \/ /\ Takes(T, p)
            /\ \E r \in held : o = [ret |-> 1, held |-> (held \ {r}) \cup {Joined(r, Run(p, time), r.time)}]
         \/ /\ Takes(T, p)
            /\ \E r \in held : o = [ret |-> 1, held |-> (held \ {r}) \cup {Joined(Run(p, time), r, r.time)}]
<1>1. CASE ~Takes(T, p) \/ Prepared(held, p) = {}
  BY <1>1 DEF ReassembleOutcomes
<1>2. CASE ~(~Takes(T, p) \/ Prepared(held, p) = {})
  <2>1. PICK h \in Prepared(held, p) : o \in Processed(h, Run(p, time), m)
    BY <1>2 DEF ReassembleOutcomes
  <2>2. h = held
    BY <2>1, NothingToHurry
  <2>3. o \in Processed(held, Run(p, time), m)
    BY <2>1, <2>2
  <2> QED
    BY <1>2, <2>3 DEF Processed, Merged, Stored
<1> QED
  BY <1>1, <1>2

LEMMA TypeOrderIs ==
  /\ Len(TypeOrder) = 7 /\ DOMAIN TypeOrder = 1..7
  /\ \A n \in 1..7 : TypeOrder[n] \in GroType
  /\ \A T \in GroType : \E n \in 1..7 : T = TypeOrder[n]
<1>1. Len(TypeOrder) = 7 /\ DOMAIN TypeOrder = 1..7
  BY DEF TypeOrder
<1> QED
  BY <1>1 DEF GroType

LEMMA LimitIs == \A n \in Nat \ {0} : ItemNum(n) \in Nat
  BY BurstAssumption DEF ItemNum, MinOf

-----------------------------------------------------------------------------
LEMMA PlacedIs ==
  ASSUME NEW tb, NEW ar, NEW f
  PROVE  /\ \A p : p \in Placed(tb, ar, f) <=> \/ \E n \in 1..f : p \in InRun(ar[n])
                                             \/ \E r \in HeldIn(tb) : p \in InRun(r)
         /\ \A r : r \in HeldIn(tb) <=> \E T \in GroType : r \in tb[T]
<1>1. \A r : r \in HeldIn(tb) <=> \E T \in GroType : r \in tb[T]
  BY DEF HeldIn
<1>2. \A p : p \in UNION {InRun(ar[n]) : n \in 1..f} <=> \E n \in 1..f : p \in InRun(ar[n])
  OBVIOUS
<1>3. \A p : p \in UNION {InRun(r) : r \in HeldIn(tb)} <=> \E r \in HeldIn(tb) : p \in InRun(r)
  OBVIOUS
<1>4. ASSUME NEW p
      PROVE  p \in Placed(tb, ar, f) <=> \/ \E n \in 1..f : p \in InRun(ar[n])
                                       \/ \E r \in HeldIn(tb) : p \in InRun(r)
  <2> DEFINE A == UNION {InRun(ar[n]) : n \in 1..f}
             B == UNION {InRun(r) : r \in HeldIn(tb)}
  <2>1. Placed(tb, ar, f) = A \cup B
    BY DEF Placed
  <2>2. p \in A <=> \E n \in 1..f : p \in InRun(ar[n])
    BY <1>2
  <2>3. p \in B <=> \E r \in HeldIn(tb) : p \in InRun(r)
    BY <1>3
  <2> HIDE DEF A, B
  <2> QED
    BY <2>1, <2>2, <2>3
<1> QED
  BY <1>1, <1>4

(* A run goes into a table in the place of the runs R of it, and brings    *)
(* the packets P.                                                          *)

(* In tc the runs N stand in the place of the runs R of type T.            *)
Exchanged(tb, tc, T, R, N) ==
  /\ tc \in [GroType -> SUBSET Runs]
  /\ \A U \in GroType : tc[U] = IF U = T THEN (tb[T] \ R) \cup N ELSE tb[U]

(* Run j has the packets P and those of the runs R.                        *)
Brings(j, P, R) == \A p : p \in InRun(j) <=> p \in P \/ \E r \in R : p \in InRun(r)

(* The exchange puts packets from nowhere else into a table.               *)
PutsInTable(tb, ar, f, T, R, j, P, tc) ==
  /\ tb \in [GroType -> SUBSET Runs] /\ Apart(tb, ar, f)
  /\ T \in GroType /\ R \in SUBSET tb[T] /\ j \in Runs
  /\ Brings(j, P, R) /\ P \cap Placed(tb, ar, f) = {}
  /\ Exchanged(tb, tc, T, R, {j})

LEMMA PutInTable ==
  ASSUME NEW tb, NEW ar, NEW f, NEW T, NEW R, NEW j, NEW P, NEW tc,
         PutsInTable(tb, ar, f, T, R, j, P, tc)
  PROVE  /\ tc \in [GroType -> SUBSET Runs]
         /\ HeldIn(tc) = (HeldIn(tb) \ R) \cup {j} /\ j \notin HeldIn(tb) \ R
         /\ Apart(tc, ar, f) /\ Placed(tc, ar, f) = Placed(tb, ar, f) \cup P
<1> USE DEF PutsInTable
<1>1. tc \in [GroType -> SUBSET Runs] /\ \A U \in GroType : tc[U] = IF U = T THEN (tb[T] \ R) \cup {j} ELSE tb[U]
  BY DEF Exchanged
<1>2. \A U \in GroType : \A s \in tb[U] : s \in HeldIn(tb) /\ InRun(s) # {} /\ InRun(s) \cap P = {}
  <2>1. \A U \in GroType : \A s \in tb[U] : s \in HeldIn(tb) /\ s \in Runs
    BY DEF HeldIn
  <2>2. \A U \in GroType : \A s \in tb[U] : InRun(s) # {}
    BY <2>1, RunHasPackets
  <2>3. \A U \in GroType : \A s \in tb[U] : InRun(s) \cap P = {}
    BY <2>1, PlacedIs
  <2> QED
    BY <2>1, <2>2, <2>3
<1>3. \A U \in GroType : \A s \in tb[U] : (U = T /\ s \in R) \/ (s \notin R /\ InRun(s) \cap InRun(j) = {})
  <2> SUFFICES ASSUME NEW U \in GroType, NEW s \in tb[U], ~(U = T /\ s \in R)
               PROVE  s \notin R /\ InRun(s) \cap InRun(j) = {}
    OBVIOUS
  <2>1. \A r \in R : InRun(r) \cap InRun(s) = {}
    BY DEF Apart
  <2>2. s \notin R
    BY <2>1, <1>2
  <2> QED
    BY <2>1, <2>2, <1>2 DEF Brings
<1>4. HeldIn(tc) = (HeldIn(tb) \ R) \cup {j}
  BY <1>1, <1>3 DEF HeldIn
<1>5. j \notin HeldIn(tb) \ R
  BY <1>2, <1>3 DEF HeldIn
<1>6. R \subseteq HeldIn(tb)
  BY DEF HeldIn
<1>7. \A n \in 1..f : InRun(ar[n]) \cap InRun(j) = {}
  <2> SUFFICES ASSUME NEW n \in 1..f, NEW p, p \in InRun(ar[n]), p \in InRun(j)
               PROVE  FALSE
    OBVIOUS
  <2>1. p \notin P
    BY PlacedIs
  <2>2. PICK r \in R : p \in InRun(r)
    BY <2>1 DEF Brings
  <2> QED
    BY <1>6, <2>2 DEF Apart
<1>8. Apart(tc, ar, f)
  <2>1. \A n \in 1..f : \A r \in HeldIn(tc) : InRun(ar[n]) \cap InRun(r) = {}
    BY <1>4, <1>7 DEF Apart
  <2>2. ASSUME NEW U \in GroType, NEW V \in GroType, NEW r \in tc[U], NEW s \in tc[V]
        PROVE  (U = V /\ r = s) \/ InRun(r) \cap InRun(s) = {}
    <3>1. \A W \in GroType : \A q \in tc[W] : (W = T /\ q = j) \/ (q \in tb[W] /\ InRun(q) \cap InRun(j) = {})
      BY <1>1, <1>3
    <3> QED
      BY <3>1 DEF Apart
  <2> QED
    BY <2>1, <2>2 DEF Apart
<1>9. Placed(tc, ar, f) = Placed(tb, ar, f) \cup P
  <2> SUFFICES ASSUME NEW p
               PROVE  p \in Placed(tc, ar, f) <=> p \in Placed(tb, ar, f) \/ p \in P
    OBVIOUS
  <2>1. p \in InRun(j) <=> p \in P \/ \E r \in R : p \in InRun(r)
    BY DEF Brings
  <2>2. (\E r \in HeldIn(tc) : p \in InRun(r)) <=> (\E r \in HeldIn(tb) : p \in InRun(r)) \/ p \in P
    BY <2>1, <1>4, <1>6
  <2>3. /\ p \in Placed(tc, ar, f) <=> \/ \E n \in 1..f : p \in InRun(ar[n])
                                      \/ \E r \in HeldIn(tc) : p \in InRun(r)
        /\ p \in Placed(tb, ar, f) <=> \/ \E n \in 1..f : p \in InRun(ar[n])
                                      \/ \E r \in HeldIn(tb) : p \in InRun(r)
    BY PlacedIs
  <2> QED
    BY <2>2, <2>3
<1> QED
  BY <1>1, <1>4, <1>5, <1>8, <1>9

(* A run leaves a table.                                                   *)
TakesFromTable(tb, ar, f, T, r, tc) ==
  /\ tb \in [GroType -> SUBSET Runs] /\ Apart(tb, ar, f)
  /\ T \in GroType /\ r \in tb[T] /\ Exchanged(tb, tc, T, {r}, {})

LEMMA TakeFromTable ==
  ASSUME NEW tb, NEW ar, NEW f, NEW T, NEW r, NEW tc,
         TakesFromTable(tb, ar, f, T, r, tc)
  PROVE  /\ tc \in [GroType -> SUBSET Runs]
         /\ HeldIn(tc) = HeldIn(tb) \ {r} /\ r \in HeldIn(tb)
         /\ Apart(tc, ar, f) /\ InRun(r) \cap Placed(tc, ar, f) = {}
         /\ Placed(tb, ar, f) = Placed(tc, ar, f) \cup InRun(r)
<1> USE DEF TakesFromTable
<1>1. tc \in [GroType -> SUBSET Runs] /\ \A U \in GroType : tc[U] = IF U = T THEN tb[T] \ {r} ELSE tb[U]
  BY DEF Exchanged
<1>2. \A U \in GroType : \A s \in tb[U] : s \in Runs /\ InRun(s) # {}
  BY RunHasPackets
<1>3. \A U \in GroType : \A s \in tc[U] : s # r /\ InRun(r) \cap InRun(s) = {} /\ s \in tb[U]
  BY <1>1, <1>2 DEF Apart
<1>4. HeldIn(tc) = HeldIn(tb) \ {r} /\ r \in HeldIn(tb)
  BY <1>1, <1>3 DEF HeldIn
<1>5. Apart(tc, ar, f)
  <2>1. \A U \in GroType : tc[U] \subseteq tb[U]
    BY <1>3
  <2>2. \A n \in 1..f : \A s \in HeldIn(tc) : InRun(ar[n]) \cap InRun(s) = {}
    BY <1>4 DEF Apart
  <2>3. \A U, V \in GroType : \A q \in tc[U] : \A s \in tc[V] :
           (U = V /\ q = s) \/ InRun(q) \cap InRun(s) = {}
    BY <2>1 DEF Apart
  <2> QED
    BY <2>2, <2>3 DEF Apart
<1>6. InRun(r) \cap Placed(tc, ar, f) = {}
  <2>1. \A s \in HeldIn(tc) : InRun(r) \cap InRun(s) = {}
    BY <1>3 DEF HeldIn
  <2>2. \A n \in 1..f : InRun(ar[n]) \cap InRun(r) = {}
    BY <1>4 DEF Apart
  <2> QED
    BY <2>1, <2>2, PlacedIs
<1>7. Placed(tb, ar, f) = Placed(tc, ar, f) \cup InRun(r)
  <2> SUFFICES ASSUME NEW p
               PROVE  p \in Placed(tb, ar, f) <=> p \in Placed(tc, ar, f) \/ p \in InRun(r)
    OBVIOUS
  <2>1. (\E s \in HeldIn(tb) : p \in InRun(s)) <=> (\E s \in HeldIn(tc) : p \in InRun(s)) \/ p \in InRun(r)
    BY <1>4
  <2>2. /\ p \in Placed(tc, ar, f) <=> \/ \E n \in 1..f : p \in InRun(ar[n])
                                      \/ \E s \in HeldIn(tc) : p \in InRun(s)
        /\ p \in Placed(tb, ar, f) <=> \/ \E n \in 1..f : p \in InRun(ar[n])
                                      \/ \E s \in HeldIn(tb) : p \in InRun(s)
    BY PlacedIs
  <2> QED
    BY <2>1, <2>2
<1> QED
  BY <1>1, <1>4, <1>5, <1>6, <1>7

(* A run is written behind the front.                                      *)
LEMMA PutInArray ==
  ASSUME NEW tb \in [GroType -> SUBSET Runs], NEW ar, NEW f \in Nat, Apart(tb, ar, f),
         NEW as, \A n \in 1..f : as[n] = ar[n],
         InRun(as[f + 1]) \cap Placed(tb, ar, f) = {}
  PROVE  /\ Apart(tb, as, f + 1)
         /\ Placed(tb, as, f + 1) = Placed(tb, ar, f) \cup InRun(as[f + 1])
<1>1. \A n \in 1..(f + 1) : n = f + 1 \/ n \in 1..f
  OBVIOUS
<1>2. f + 1 \in 1..(f + 1) /\ \A n \in 1..f : n \in 1..(f + 1) /\ n # f + 1
  OBVIOUS
<1> DEFINE x == InRun(as[f + 1])
<1>3. /\ \A n \in 1..f : x \cap InRun(as[n]) = {}
      /\ \A r \in HeldIn(tb) : x \cap InRun(r) = {}
  <2> HIDE DEF x
  <2>1. x \cap Placed(tb, ar, f) = {}
    BY DEF x
  <2> QED
    BY <2>1, PlacedIs
<1>4. Apart(tb, as, f + 1)
  <2>1. \A m, n \in 1..(f + 1) : m # n => InRun(as[m]) \cap InRun(as[n]) = {}
    <3> SUFFICES ASSUME NEW m \in 1..(f + 1), NEW n \in 1..(f + 1), m # n
                 PROVE  InRun(as[m]) \cap InRun(as[n]) = {}
      OBVIOUS
    <3>1. CASE m \in 1..f /\ n \in 1..f
      BY <3>1 DEF Apart
    <3>2. CASE m = f + 1 /\ n \in 1..f
      BY <3>2, <1>3
    <3>3. CASE n = f + 1 /\ m \in 1..f
      BY <3>3, <1>3
    <3> QED
      BY <1>1, <3>1, <3>2, <3>3
  <2>2. \A n \in 1..(f + 1) : \A r \in HeldIn(tb) : InRun(as[n]) \cap InRun(r) = {}
    BY <1>1, <1>3 DEF Apart
  <2>3. \A T, U \in GroType : \A r \in tb[T] : \A s \in tb[U] :
           (T = U /\ r = s) \/ InRun(r) \cap InRun(s) = {}
    BY DEF Apart
  <2> QED
    BY <2>1, <2>2, <2>3 DEF Apart
<1>5. Placed(tb, as, f + 1) = Placed(tb, ar, f) \cup x
  <2> SUFFICES ASSUME NEW p
               PROVE  p \in Placed(tb, as, f + 1) <=> p \in Placed(tb, ar, f) \/ p \in x
    OBVIOUS
  <2>1. (\E n \in 1..(f + 1) : p \in InRun(as[n])) <=> (\E n \in 1..f : p \in InRun(ar[n])) \/ p \in x
    BY <1>1, <1>2
  <2>2. /\ p \in Placed(tb, as, f + 1) <=> \/ \E n \in 1..(f + 1) : p \in InRun(as[n])
                                          \/ \E s \in HeldIn(tb) : p \in InRun(s)
        /\ p \in Placed(tb, ar, f) <=> \/ \E n \in 1..f : p \in InRun(ar[n])
                                      \/ \E s \in HeldIn(tb) : p \in InRun(s)
    BY PlacedIs
  <2> QED
    BY <2>1, <2>2
<1> QED
  BY <1>4, <1>5

-----------------------------------------------------------------------------
(* Cardinalities.                                                          *)

(* Some elements give way to one.                                          *)
LEMMA Replaced ==
  ASSUME NEW H, IsFiniteSet(H), NEW R \in SUBSET H, NEW r \in R, NEW j
  PROVE  /\ IsFiniteSet((H \ R) \cup {j})
         /\ Cardinality((H \ R) \cup {j}) <= Cardinality(H)
         /\ R = {r} /\ j \notin H \ R => Cardinality((H \ R) \cup {j}) = Cardinality(H)
<1>1. IsFiniteSet(H \ {r}) /\ Cardinality(H \ {r}) = Cardinality(H) - 1
  BY FS_RemoveElement
<1>2. H \ R \in SUBSET (H \ {r})
  OBVIOUS
<1>3. IsFiniteSet(H \ R) /\ Cardinality(H \ R) <= Cardinality(H) - 1
  BY <1>1, <1>2, FS_Subset
<1>4. /\ IsFiniteSet((H \ R) \cup {j})
      /\ \/ Cardinality((H \ R) \cup {j}) = Cardinality(H \ R)
         \/ Cardinality((H \ R) \cup {j}) = Cardinality(H \ R) + 1
      /\ j \notin H \ R => Cardinality((H \ R) \cup {j}) = Cardinality(H \ R) + 1
  BY <1>3, FS_AddElement
<1>5. Cardinality(H) \in Nat /\ Cardinality(H \ R) \in Nat
  BY <1>3, FS_CardinalityType
<1>6. ASSUME R = {r}, j \notin H \ R
      PROVE  Cardinality((H \ R) \cup {j}) = Cardinality(H)
  <2>1. H \ R = H \ {r}
    BY <1>6
  <2>2. Cardinality(H \ R) = Cardinality(H) - 1
    BY <1>1, <2>1
  <2> QED
    BY <1>4, <1>5, <1>6, <2>2
<1> DEFINE c == Cardinality((H \ R) \cup {j})
           d == Cardinality(H \ R)
           e == Cardinality(H)
<1>7. c <= e
  <2>1. d \in Nat /\ e \in Nat /\ d <= e - 1 /\ (c = d \/ c = d + 1)
    BY <1>3, <1>4, <1>5
  <2> HIDE DEF c, d, e
  <2> QED
    BY <2>1
<1> QED
  BY <1>4, <1>6, <1>7

(* The tables stay within their limit, and so do the runs in them all.     *)
LEMMA TablesStayFit ==
  ASSUME NEW tb \in [GroType -> SUBSET Runs], NEW m \in Nat,
         \A U \in GroType : IsFiniteSet(tb[U]) /\ Cardinality(tb[U]) <= m,
         NEW T \in GroType, NEW R \in SUBSET tb[T], NEW j,
         R = {} => Cardinality(tb[T]) # m,
         NEW tc, Exchanged(tb, tc, T, R, {j})
  PROVE  \A U \in GroType : IsFiniteSet(tc[U]) /\ Cardinality(tc[U]) <= m
<1>1. \A U \in GroType : tc[U] = IF U = T THEN (tb[T] \ R) \cup {j} ELSE tb[U]
  BY DEF Exchanged
<1>2. IsFiniteSet((tb[T] \ R) \cup {j}) /\ Cardinality((tb[T] \ R) \cup {j}) <= m
  <2> DEFINE H == tb[T]
  <2>1. IsFiniteSet(H) /\ Cardinality(H) <= m /\ Cardinality(H) \in Nat /\ R \in SUBSET H
    BY FS_CardinalityType
  <2>2. R = {} => Cardinality(H) # m
    OBVIOUS
  <2> HIDE DEF H
  <2>3. ASSUME R = {}
        PROVE  IsFiniteSet((H \ R) \cup {j}) /\ Cardinality((H \ R) \cup {j}) <= m
    <3>1. (H \ R) \cup {j} = H \cup {j}
      BY <2>3
    <3>2. /\ IsFiniteSet(H \cup {j})
          /\ \/ Cardinality(H \cup {j}) = Cardinality(H)
             \/ Cardinality(H \cup {j}) = Cardinality(H) + 1
      BY <2>1, FS_AddElement
    <3>3. Cardinality(H \cup {j}) <= m
      BY <2>1, <2>2, <2>3, <3>2
    <3> QED
      BY <3>1, <3>2, <3>3
  <2>4. ASSUME R # {}
        PROVE  IsFiniteSet((H \ R) \cup {j}) /\ Cardinality((H \ R) \cup {j}) <= m
    <3>1. PICK r : r \in R
      BY <2>4
    <3>2. /\ IsFiniteSet((H \ R) \cup {j})
          /\ Cardinality((H \ R) \cup {j}) <= Cardinality(H)
      BY <2>1, <3>1, Replaced
    <3>3. Cardinality((H \ R) \cup {j}) \in Nat
      BY <3>2, FS_CardinalityType
    <3> QED
      BY <2>1, <3>2, <3>3
  <2>5. IsFiniteSet((H \ R) \cup {j}) /\ Cardinality((H \ R) \cup {j}) <= m
    BY <2>3, <2>4
  <2> QED
    BY <2>5 DEF H
<1> QED
  BY <1>1, <1>2

LEMMA KindsStay ==
  ASSUME NEW tb \in [GroType -> SUBSET Runs],
         \A U \in GroType : \A r \in tb[U] : \A p \in InRun(r) :
            U \in DispatchTo(p, GroTypes) /\ Takes(U, p),
         NEW T \in GroType, NEW R \in SUBSET tb[T], NEW j, NEW P,
         \A p \in P : T \in DispatchTo(p, GroTypes) /\ Takes(T, p),
         Brings(j, P, R),
         NEW tc, Exchanged(tb, tc, T, R, {j})
  PROVE  \A U \in GroType : \A r \in tc[U] : \A p \in InRun(r) :
            U \in DispatchTo(p, GroTypes) /\ Takes(U, p)
<1>1. \A U \in GroType : tc[U] = IF U = T THEN (tb[T] \ R) \cup {j} ELSE tb[U]
  BY DEF Exchanged
<1>2. \A p \in InRun(j) : T \in DispatchTo(p, GroTypes) /\ Takes(T, p)
  BY DEF Brings
<1> QED
  BY <1>1, <1>2

-----------------------------------------------------------------------------
(* The call begins.                                                        *)

LEMMA HeldIs == Held = HeldIn(tbls)
  BY DEF Held, HeldIn

LEMMA InitInv == Init => Inv
<1> SUFFICES ASSUME Init  PROVE Inv
  OBVIOUS
<1>1. PICK b \in Bursts : /\ given = b
                         /\ pkts = [n \in DOMAIN b |-> Run(b[n], 0)]
                         /\ tbls = [T \in GroType |-> {}]
                         /\ call = [pc |-> "reassemble", p |-> 1, unprocess_num |-> 0,
                                    nb_after_gro |-> Len(b), t |-> 1, i |-> 0, k |-> 0]
  BY DEF Init
<1>2. PICK n \in 1..MaxBurst : /\ b \in [1..n -> Pkts]
                              /\ \A i, j \in 1..n : b[i] = b[j] => i = j
  BY DEF Bursts
<1>3. n \in Nat \ {0} /\ DOMAIN b = 1..n /\ Len(b) = n /\ b \in Seq(Pkts)
  BY <1>2, BurstAssumption
<1>4. \A i \in 1..n : Run(b[i], 0) \in Runs
  BY <1>2, RunIsRun
<1>5. pkts \in [1..n -> Runs]
  BY <1>1, <1>3, <1>4
<1>6. pkts \in Seq(Runs) /\ Len(pkts) = n
  BY <1>3, <1>5
<1>7. nb_pkts = n /\ ItemNum(n) \in Nat
  BY <1>1, <1>3, LimitIs DEF nb_pkts
<1>8. HeldIn(tbls) = {} /\ tbls \in [GroType -> SUBSET Runs] /\ \A T \in GroType : tbls[T] = {}
  BY <1>1 DEF HeldIn
<1>9. TypeInv
  <2>1. call \in Locals
    BY <1>1, <1>3, TypeOrderIs DEF Locals
  <2>2. IsFiniteSet({}) /\ Cardinality({}) = 0
    BY FS_EmptySet
  <2> QED
    BY <1>1, <1>2, <1>3, <1>6, <1>7, <1>8, <2>1, <2>2 DEF TypeInv
<1>10. PlaceInv
  <2>1. Front = 0
    BY <1>1 DEF Front
  <2>2. LookedAt = {}
    BY <1>1, <1>3 DEF LookedAt
  <2>3. Placed(tbls, pkts, 0) = {}
    BY <1>8, PlacedIs
  <2>4. Apart(tbls, pkts, 0)
    BY <1>8 DEF Apart
  <2>5. \A m \in 1..n : pkts[m] = Run(given[m], 0)
    BY <1>1, <1>3
  <2> QED
    BY <1>1, <1>7, <2>1, <2>2, <2>3, <2>4, <2>5 DEF PlaceInv
<1>11. CountInv
  <2>1. Held = {} /\ IsFiniteSet({}) /\ Cardinality({}) = 0
    BY <1>8, HeldIs, FS_EmptySet
  <2> QED
    BY <1>1, <1>3, <1>7, <2>1, TypeOrderIs DEF CountInv
<1>12. KindInv
  BY <1>8 DEF KindInv
<1> QED
  BY <1>9, <1>10, <1>11, <1>12 DEF Inv

-----------------------------------------------------------------------------
(* The locals after an assignment.                                         *)

LEMMA ReturnedIs ==
  ASSUME NEW c \in Locals, NEW u \in Nat
  PROVE  LET d == [c EXCEPT !.p = c.p + 1, !.unprocess_num = u]
         IN  /\ d \in Locals /\ d.pc = c.pc /\ d.p = c.p + 1 /\ d.unprocess_num = u
             /\ d.nb_after_gro = c.nb_after_gro /\ d.t = c.t /\ d.i = c.i /\ d.k = c.k
<1> DEFINE p == c.p + 1
           s == 1..(Len(TypeOrder) + 1)
<1>1. p \in Nat \ {0}
  BY DEF Locals
<1>2. c \in [ pc : {"reassemble", "flush", "done"}, p : Nat \ {0}, unprocess_num : Nat,
              nb_after_gro : Nat, t : s, i : Nat, k : Nat ]
  BY DEF Locals
<1> HIDE DEF p, s
<1> DEFINE d == [c EXCEPT !.p = p, !.unprocess_num = u]
<1>3. /\ d \in [ pc : {"reassemble", "flush", "done"}, p : Nat \ {0}, unprocess_num : Nat,
                 nb_after_gro : Nat, t : s, i : Nat, k : Nat ]
      /\ d.pc = c.pc /\ d.p = p /\ d.unprocess_num = u
      /\ d.nb_after_gro = c.nb_after_gro /\ d.t = c.t /\ d.i = c.i /\ d.k = c.k
  BY <1>1, <1>2
<1> QED
  BY <1>3 DEF Locals, p, s

LEMMA KeptIs ==
  ASSUME NEW c \in Locals, NEW a \in Nat
  PROVE  LET d == [c EXCEPT !.p = c.p + 1, !.nb_after_gro = a]
         IN  /\ d \in Locals /\ d.pc = c.pc /\ d.p = c.p + 1 /\ d.unprocess_num = c.unprocess_num
             /\ d.nb_after_gro = a /\ d.t = c.t /\ d.i = c.i /\ d.k = c.k
<1> DEFINE p == c.p + 1
           s == 1..(Len(TypeOrder) + 1)
<1>1. p \in Nat \ {0}
  BY DEF Locals
<1>2. c \in [ pc : {"reassemble", "flush", "done"}, p : Nat \ {0}, unprocess_num : Nat,
              nb_after_gro : Nat, t : s, i : Nat, k : Nat ]
  BY DEF Locals
<1> HIDE DEF p, s
<1> DEFINE d == [c EXCEPT !.p = p, !.nb_after_gro = a]
<1>3. /\ d \in [ pc : {"reassemble", "flush", "done"}, p : Nat \ {0}, unprocess_num : Nat,
                 nb_after_gro : Nat, t : s, i : Nat, k : Nat ]
      /\ d.pc = c.pc /\ d.p = p /\ d.unprocess_num = c.unprocess_num
      /\ d.nb_after_gro = a /\ d.t = c.t /\ d.i = c.i /\ d.k = c.k
  BY <1>1, <1>2
<1> QED
  BY <1>3 DEF Locals, p, s

(* A type is done.                                                         *)
LEMMA TypeDoneIs ==
  ASSUME call \in Locals, call.t \in 1..7, NEW n \in Nat
  PROVE  LET d == TypeDone(n)
         IN  /\ d \in Locals /\ d.pc = call.pc /\ d.p = call.p
             /\ d.unprocess_num = call.unprocess_num /\ d.nb_after_gro = call.nb_after_gro
             /\ d.t = call.t + 1 /\ d.i = call.i + n /\ d.k = 0
<1> DEFINE i == call.i + n
           t == call.t + 1
<1>1. i \in Nat /\ t \in 1..(Len(TypeOrder) + 1)
  BY TypeOrderIs DEF Locals
<1> HIDE DEF i, t
<1> DEFINE d == [call EXCEPT !.t = t, !.i = i, !.k = 0]
<1>2. /\ d \in Locals /\ d.pc = call.pc /\ d.p = call.p
      /\ d.unprocess_num = call.unprocess_num /\ d.nb_after_gro = call.nb_after_gro
      /\ d.t = t /\ d.i = i /\ d.k = 0
  BY <1>1 DEF Locals
<1>3. TypeDone(n) = d
  BY DEF TypeDone, i, t
<1> HIDE DEF d
<1> QED
  BY <1>2, <1>3 DEF i, t

(* One packet more of a type is written.                                   *)
LEMMA OneMoreIs ==
  ASSUME NEW c \in Locals, NEW k \in Nat
  PROVE  LET d == [c EXCEPT !.k = k]
         IN  /\ d \in Locals /\ d.pc = c.pc /\ d.p = c.p /\ d.unprocess_num = c.unprocess_num
             /\ d.nb_after_gro = c.nb_after_gro /\ d.t = c.t /\ d.i = c.i /\ d.k = k
  BY DEF Locals

LEMMA FlushBeginsIs ==
  ASSUME NEW c \in Locals, NEW i \in Nat
  PROVE  LET d == [c EXCEPT !.pc = "flush", !.i = i]
         IN  /\ d \in Locals /\ d.pc = "flush" /\ d.p = c.p /\ d.unprocess_num = c.unprocess_num
             /\ d.nb_after_gro = c.nb_after_gro /\ d.t = c.t /\ d.i = i /\ d.k = c.k
  BY DEF Locals

LEMMA CallEndsIs ==
  ASSUME NEW c \in Locals
  PROVE  LET d == [c EXCEPT !.pc = "done"]
         IN  /\ d \in Locals /\ d.pc = "done" /\ d.p = c.p /\ d.unprocess_num = c.unprocess_num
             /\ d.nb_after_gro = c.nb_after_gro /\ d.t = c.t /\ d.i = c.i /\ d.k = c.k
  BY DEF Locals

-----------------------------------------------------------------------------
(* The loop over the burst.                                                *)

(* The packet a turn looks at is in no place yet.                          *)
LEMMA NextPacket ==
  ASSUME Inv, call.pc = "reassemble", call.p <= nb_pkts
  PROVE  /\ given[call.p] \in Pkts /\ given[call.p] \notin LookedAt
         /\ pkts[call.p] = Run(given[call.p], 0) /\ pkts[call.p].pkts[1] = given[call.p]
         /\ call.p \in 1..nb_pkts /\ Front = call.unprocess_num
         /\ call.unprocess_num + 1 \in 1..nb_pkts /\ call.unprocess_num + 1 <= call.p
         /\ call \in Locals /\ call.nb_after_gro > 0
<1>1. /\ given \in Seq(Pkts) /\ nb_pkts \in Nat /\ call \in Locals
      /\ call.p \in Nat \ {0} /\ call.unprocess_num \in Nat /\ call.nb_after_gro \in Nat
      /\ call.unprocess_num < call.p
  BY DEF Inv, TypeInv, CountInv, Locals
<1>2. call.p \in 1..nb_pkts /\ DOMAIN given = 1..nb_pkts /\ given[call.p] \in Pkts
  BY <1>1 DEF nb_pkts
<1>3. given[call.p] \notin LookedAt
  <2>1. \A m \in DOMAIN given : m < call.p => given[m] # given[call.p]
    BY <1>1, <1>2 DEF Inv, TypeInv
  <2> QED
    BY <2>1 DEF LookedAt
<1>4. pkts[call.p] = Run(given[call.p], 0)
  BY <1>1, <1>2 DEF Inv, PlaceInv
<1>5. call.nb_after_gro > 0
  <2>1. Cardinality(Held) \in Nat
    BY FS_CardinalityType DEF Inv, CountInv
  <2>2. call.unprocess_num + Cardinality(Held) + (nb_pkts + 1 - call.p) = call.nb_after_gro
    BY DEF Inv, CountInv
  <2> QED
    BY <1>1, <1>2, <2>1, <2>2
<1> QED
  BY <1>1, <1>2, <1>3, <1>4, <1>5, RunIsRun DEF Front

(* After it, the packet is among those looked at.                          *)
LEMMA OneMoreLookedAt ==
  ASSUME Inv, call.pc = "reassemble", call.p <= nb_pkts,
         call'.pc = "reassemble", call'.p = call.p + 1, given' = given
  PROVE  LookedAt' = LookedAt \cup {given[call.p]}
<1>1. call.p \in 1..nb_pkts /\ DOMAIN given = 1..nb_pkts /\ nb_pkts \in Nat
  BY NextPacket DEF Inv, TypeInv, nb_pkts
<1>2. \A m \in 1..nb_pkts : m < call.p + 1 <=> m < call.p \/ m = call.p
  BY <1>1
<1> QED
  BY <1>1, <1>2 DEF LookedAt

LEMMA ReturnedInv ==
  ASSUME Inv, call.pc = "reassemble", call.p <= nb_pkts,
         Returned, UNCHANGED <<given, tbls>>
  PROVE  Inv'
<1> DEFINE u == call.unprocess_num
           q == given[call.p]
<1>1. /\ q \in Pkts /\ q \notin LookedAt /\ pkts[call.p] = Run(q, 0)
      /\ call.p \in 1..nb_pkts /\ Front = u /\ u + 1 \in 1..nb_pkts /\ u + 1 <= call.p
      /\ call \in Locals
  BY NextPacket
<1>2. /\ nb_pkts \in Nat /\ u \in Nat /\ nb_pkts' = nb_pkts
      /\ pkts \in Seq(Runs) /\ Len(pkts) = nb_pkts /\ call.p \in Nat
  BY <1>1 DEF Inv, TypeInv, Locals, nb_pkts
<1>3. /\ call' \in Locals /\ call'.pc = "reassemble" /\ call'.p = call.p + 1
      /\ call'.unprocess_num = u + 1 /\ call'.nb_after_gro = call.nb_after_gro
      /\ call'.t = call.t /\ call'.i = call.i /\ call'.k = call.k
  <2>1. u + 1 \in Nat /\ call' = [call EXCEPT !.p = call.p + 1, !.unprocess_num = u + 1]
    BY <1>2 DEF Returned
  <2> QED
    BY <1>1, <2>1, ReturnedIs
<1>4. Run(q, 0) \in Runs /\ InRun(Run(q, 0)) = {q}
  BY <1>1, RunIsRun
<1>5. /\ pkts' \in Seq(Runs) /\ Len(pkts') = nb_pkts /\ pkts'[u + 1] = Run(q, 0)
      /\ \A n \in 1..nb_pkts : n # u + 1 => pkts'[n] = pkts[n]
  BY <1>1, <1>2, <1>4 DEF Returned
<1>6. TypeInv'
  BY <1>2, <1>3, <1>5 DEF Inv, TypeInv
<1>7. PlaceInv'
  <2>1. Front' = u + 1
    BY <1>3 DEF Front
  <2>2. \A n \in 1..u : pkts'[n] = pkts[n]
    BY <1>1, <1>2, <1>5
  <2>3. Apart(tbls, pkts, u) /\ Placed(tbls, pkts, u) = LookedAt
    BY <1>1 DEF Inv, PlaceInv
  <2>4. InRun(pkts'[u + 1]) \cap Placed(tbls, pkts, u) = {}
    BY <1>1, <1>4, <1>5, <2>3
  <2>5. /\ Apart(tbls, pkts', u + 1)
        /\ Placed(tbls, pkts', u + 1) = Placed(tbls, pkts, u) \cup InRun(pkts'[u + 1])
    <3> DEFINE as == pkts'
    <3>1. /\ \A n \in 1..u : as[n] = pkts[n]
          /\ InRun(as[u + 1]) \cap Placed(tbls, pkts, u) = {}
          /\ tbls \in [GroType -> SUBSET Runs]
      BY <2>2, <2>4 DEF Inv, TypeInv
    <3>2. u \in Nat
      BY <1>2
    <3> HIDE DEF as, u
    <3>3. /\ Apart(tbls, as, u + 1)
          /\ Placed(tbls, as, u + 1) = Placed(tbls, pkts, u) \cup InRun(as[u + 1])
      BY ONLY <2>3, <3>1, <3>2, PutInArray
    <3> QED
      BY <3>3 DEF as
  <2>6. LookedAt' = LookedAt \cup {q}
    BY <1>3, OneMoreLookedAt
  <2>7. \A n \in (call.p + 1)..nb_pkts : pkts'[n] = Run(given[n], 0)
    <3>1. \A n \in (call.p + 1)..nb_pkts : n \in 1..nb_pkts /\ n \in call.p..nb_pkts /\ n # u + 1
      BY <1>1, <1>2
    <3>2. \A n \in call.p..nb_pkts : pkts[n] = Run(given[n], 0)
      BY DEF Inv, PlaceInv
    <3> QED
      BY <1>5, <3>1, <3>2
  <2> QED
    BY <1>2, <1>3, <1>4, <1>5, <2>1, <2>3, <2>5, <2>6, <2>7 DEF PlaceInv
<1>8. CountInv'
  <2>1. Held' = Held
    BY DEF Held
  <2>2. Cardinality(Held) \in Nat /\ IsFiniteSet(Held) /\ call.nb_after_gro \in Nat
    BY <1>1, FS_CardinalityType DEF Inv, CountInv, Locals
  <2> DEFINE c == Cardinality(Held)
  <2>3. /\ u + c + (nb_pkts + 1 - call.p) = call.nb_after_gro /\ u < call.p
        /\ call.nb_after_gro <= nb_pkts /\ call.t = 1 /\ call.i = 0 /\ call.k = 0
    BY <1>1, <1>2 DEF Inv, CountInv
  <2>4. c \in Nat
    BY <2>2
  <2> HIDE DEF c
  <2>5. (u + 1) + c + (nb_pkts + 1 - (call.p + 1)) = call.nb_after_gro
    BY <1>1, <1>2, <2>3, <2>4
  <2>6. u + 1 < call.p + 1 /\ call.p + 1 <= nb_pkts + 1 /\ u + 1 <= nb_pkts
    BY <1>1, <1>2, <2>3
  <2> QED
    BY <1>2, <1>3, <2>1, <2>2, <2>3, <2>5, <2>6, TypeOrderIs DEF CountInv, c
<1>9. KindInv'
  BY DEF Inv, KindInv
<1> QED
  BY <1>6, <1>7, <1>8, <1>9 DEF Inv

(* The packet goes into a table, alone or joined with the runs R.          *)
LEMMA KeptInv ==
  ASSUME Inv, call.pc = "reassemble", call.p <= nb_pkts,
         NEW T \in DispatchTo(given[call.p], GroTypes), Takes(T, given[call.p]),
         T \in GroType,
         NEW R \in SUBSET tbls[T], NEW ret \in {0, 1},
         \/ ret = 0 /\ R = {} /\ Cardinality(tbls[T]) # ItemNum(nb_pkts)
         \/ ret = 1 /\ \E r \in R : R = {r},
         NEW j \in Runs, Brings(j, {given[call.p]}, R),
         Exchanged(tbls, tbls', T, R, {j}),
         Kept(ret), given' = given
  PROVE  Inv'
<1> DEFINE u == call.unprocess_num
           q == given[call.p]
           c == Cardinality(Held)
<1>1. /\ q \in Pkts /\ q \notin LookedAt /\ pkts[call.p] = Run(q, 0)
      /\ call.p \in 1..nb_pkts /\ Front = u /\ u + 1 \in 1..nb_pkts /\ u + 1 <= call.p
      /\ call \in Locals /\ call.nb_after_gro > 0
  BY NextPacket
<1>2. /\ nb_pkts \in Nat \ {0} /\ u \in Nat /\ nb_pkts' = nb_pkts /\ pkts' = pkts
      /\ call.p \in Nat /\ call.nb_after_gro \in Nat
  BY <1>1 DEF Inv, TypeInv, Locals, nb_pkts, Kept
<1>3. /\ call' \in Locals /\ call'.pc = "reassemble" /\ call'.p = call.p + 1
      /\ call'.unprocess_num = u /\ call'.nb_after_gro = call.nb_after_gro - ret
      /\ call'.t = call.t /\ call'.i = call.i /\ call'.k = call.k
  <2>1. /\ call.nb_after_gro - ret \in Nat
        /\ call.nb_after_gro - ret = IF ret > 0 THEN call.nb_after_gro - 1 ELSE call.nb_after_gro
    BY <1>1, <1>2
  <2>2. call' = [call EXCEPT !.p = call.p + 1, !.nb_after_gro = call.nb_after_gro - ret]
    BY <2>1 DEF Kept
  <2> DEFINE a == call.nb_after_gro - ret
  <2>3. a \in Nat /\ call' = [call EXCEPT !.p = call.p + 1, !.nb_after_gro = a]
    BY <2>1, <2>2
  <2> HIDE DEF a
  <2>4. /\ call' \in Locals /\ call'.pc = call.pc /\ call'.p = call.p + 1
        /\ call'.unprocess_num = call.unprocess_num /\ call'.nb_after_gro = a
        /\ call'.t = call.t /\ call'.i = call.i /\ call'.k = call.k
    BY <1>1, <2>3, KeptIs
  <2> QED
    BY <2>4 DEF a
<1>4. tbls \in [GroType -> SUBSET Runs] /\ Apart(tbls, pkts, u) /\ Placed(tbls, pkts, u) = LookedAt
  BY <1>1 DEF Inv, TypeInv, PlaceInv
<1>5. /\ tbls' \in [GroType -> SUBSET Runs]
      /\ HeldIn(tbls') = (HeldIn(tbls) \ R) \cup {j} /\ j \notin HeldIn(tbls) \ R
      /\ Apart(tbls', pkts, u) /\ Placed(tbls', pkts, u) = Placed(tbls, pkts, u) \cup {q}
  <2> DEFINE tc == tbls'
  <2>1. Exchanged(tbls, tc, T, R, {j}) /\ {q} \cap Placed(tbls, pkts, u) = {}
    BY <1>1, <1>4
  <2> DEFINE P == {q}
  <2>2. /\ P \cap Placed(tbls, pkts, u) = {} /\ Brings(j, P, R)
        /\ T \in GroType /\ R \in SUBSET tbls[T] /\ j \in Runs
    BY <2>1
  <2>3. PutsInTable(tbls, pkts, u, T, R, j, P, tc)
    BY <1>4, <2>1, <2>2 DEF PutsInTable
  <2> HIDE DEF tc, u, P
  <2>4. /\ tc \in [GroType -> SUBSET Runs]
        /\ HeldIn(tc) = (HeldIn(tbls) \ R) \cup {j} /\ j \notin HeldIn(tbls) \ R
        /\ Apart(tc, pkts, u) /\ Placed(tc, pkts, u) = Placed(tbls, pkts, u) \cup P
    BY <2>3, PutInTable
  <2> QED
    BY <2>4 DEF tc, P
<1>6. TypeInv'
  <2> DEFINE tc == tbls'
  <2>1. /\ Exchanged(tbls, tc, T, R, {j})
        /\ \A U \in GroType : IsFiniteSet(tbls[U]) /\ Cardinality(tbls[U]) <= ItemNum(nb_pkts)
        /\ ItemNum(nb_pkts) \in Nat
        /\ R = {} => Cardinality(tbls[T]) # ItemNum(nb_pkts)
    BY <1>2, LimitIs DEF Inv, TypeInv
  <2> HIDE DEF tc
  <2>2. \A U \in GroType : IsFiniteSet(tc[U]) /\ Cardinality(tc[U]) <= ItemNum(nb_pkts)
    BY <1>4, <2>1, TablesStayFit
  <2> QED
    BY <1>2, <1>3, <1>5, <2>2 DEF Inv, TypeInv, tc
<1>7. PlaceInv'
  <2>1. Front' = u
    BY <1>3 DEF Front
  <2>2. LookedAt' = LookedAt \cup {q}
    BY <1>3, OneMoreLookedAt
  <2>3. \A n \in (call.p + 1)..nb_pkts : pkts[n] = Run(given[n], 0)
    <3>1. \A n \in (call.p + 1)..nb_pkts : n \in call.p..nb_pkts
      BY <1>1, <1>2
    <3> QED
      BY <3>1 DEF Inv, PlaceInv
  <2> QED
    BY <1>2, <1>3, <1>4, <1>5, <2>1, <2>2, <2>3 DEF PlaceInv
<1>8. CountInv'
  <2>1. Held' = (Held \ R) \cup {j} /\ j \notin Held \ R /\ IsFiniteSet(Held) /\ R \in SUBSET Held
    <3>1. R \in SUBSET HeldIn(tbls)
      BY PlacedIs
    <3>2. Held' = HeldIn(tbls')
      BY DEF Held, HeldIn
    <3> QED
      BY <1>5, <3>1, <3>2, HeldIs DEF Inv, CountInv
  <2>2. IsFiniteSet(Held') /\ Cardinality(Held') = c + (1 - ret)
    <3> DEFINE H == Held
               G == Held'
    <3>1. G = (H \ R) \cup {j} /\ j \notin H \ R /\ IsFiniteSet(H) /\ R \in SUBSET H
      BY <2>1
    <3> HIDE DEF H, G
    <3>2. Cardinality(H) \in Nat
      BY <3>1, FS_CardinalityType
    <3>3. CASE ret = 0 /\ R = {}
      <4>1. G = H \cup {j} /\ j \notin H
        BY <3>1, <3>3
      <4>2. IsFiniteSet(G) /\ Cardinality(G) = Cardinality(H) + 1
        <5>1. Cardinality(H \cup {j}) = Cardinality(H) + 1
          BY ONLY <3>1, <4>1, FS_AddElement
        <5>2. IsFiniteSet(H \cup {j})
          BY ONLY <3>1, FS_AddElement
        <5> QED
          BY ONLY <4>1, <5>1, <5>2
      <4> QED
        BY <3>2, <3>3, <4>2 DEF G, H
    <3>4. CASE ret = 1 /\ \E r \in R : R = {r}
      <4>1. PICK r \in R : R = {r}
        BY <3>4
      <4>2. IsFiniteSet(G) /\ Cardinality(G) = Cardinality(H)
        BY <3>1, <4>1, Replaced
      <4> QED
        BY <3>2, <3>4, <4>2 DEF G, H
    <3> QED
      BY <3>3, <3>4
  <2>3. /\ u + c + (nb_pkts + 1 - call.p) = call.nb_after_gro /\ u < call.p
        /\ call.nb_after_gro <= nb_pkts /\ call.t = 1 /\ call.i = 0 /\ call.k = 0
    BY <1>1, <1>2 DEF Inv, CountInv
  <2>4. c \in Nat
    BY <2>1, FS_CardinalityType
  <2> DEFINE d == Cardinality(Held')
  <2>5. d = c + (1 - ret)
    BY <2>2
  <2> HIDE DEF c, d
  <2>6. u + d + (nb_pkts + 1 - (call.p + 1)) = call.nb_after_gro - ret
    BY <1>1, <1>2, <2>3, <2>4, <2>5
  <2>7. u < call.p + 1 /\ call.p + 1 <= nb_pkts + 1 /\ u <= nb_pkts /\ call.nb_after_gro - ret <= nb_pkts
    BY <1>1, <1>2, <2>3
  <2> QED
    BY <1>2, <1>3, <2>2, <2>3, <2>6, <2>7, TypeOrderIs DEF CountInv, d
<1>9. KindInv'
  <2> DEFINE tc == tbls'
             P  == {q}
  <2>1. /\ Exchanged(tbls, tc, T, R, {j})
        /\ \A p \in P : T \in DispatchTo(p, GroTypes) /\ Takes(T, p)
        /\ Brings(j, P, R)
    OBVIOUS
  <2>2. \A U \in GroType : \A r \in tbls[U] : \A p \in InRun(r) :
           U \in DispatchTo(p, GroTypes) /\ Takes(U, p)
    BY DEF Inv, KindInv
  <2> HIDE DEF tc, P
  <2>3. \A U \in GroType : \A r \in tc[U] : \A p \in InRun(r) :
           U \in DispatchTo(p, GroTypes) /\ Takes(U, p)
    BY <1>4, <2>1, <2>2, KindsStay
  <2> QED
    BY <2>3 DEF KindInv, tc
<1> QED
  BY <1>6, <1>7, <1>8, <1>9 DEF Inv

LEMMA TableIs ==
  ASSUME TypeInv, NEW T \in GroType, NEW h, h \subseteq Runs,
         tbls' = [tbls EXCEPT ![T] = h]
  PROVE  /\ tbls' \in [GroType -> SUBSET Runs]
         /\ \A U \in GroType : tbls'[U] = IF U = T THEN h ELSE tbls[U]
  BY DEF TypeInv

LEMMA ReassemblePktInv ==
  ASSUME Inv, ReassemblePkt
  PROVE  Inv'
<1> DEFINE q == given[call.p]
<1>1. /\ call.pc = "reassemble" /\ call.p <= nb_pkts /\ given' = given
  BY DEF ReassemblePkt
<1>2. q \in Pkts /\ pkts[call.p].pkts[1] = q
  BY <1>1, NextPacket
<1>3. \/ Returned /\ UNCHANGED tbls
      \/ \E T \in DispatchTo(q, GroTypes) :
         \E o \in ReassembleOutcomes(T, tbls[T], q, 0, ItemNum(nb_pkts)) :
            /\ tbls' = [tbls EXCEPT ![T] = o.held]
            /\ \/ o.ret < 0 /\ Returned
               \/ o.ret >= 0 /\ Kept(o.ret)
  BY <1>2 DEF ReassemblePkt
<1>4. CASE Returned /\ UNCHANGED tbls
  BY <1>1, <1>4, ReturnedInv
<1>5. ASSUME NEW T \in DispatchTo(q, GroTypes),
             NEW o \in ReassembleOutcomes(T, tbls[T], q, 0, ItemNum(nb_pkts)),
             tbls' = [tbls EXCEPT ![T] = o.held],
             \/ o.ret < 0 /\ Returned
             \/ o.ret >= 0 /\ Kept(o.ret)
      PROVE  Inv'
  <2> DEFINE x == Run(q, 0)
  <2>1. T \in GroType
    BY DEF DispatchTo, GroType
  <2>2. x \in Runs /\ InRun(x) = {q}
    BY <1>2, RunIsRun
  <2>3. tbls[T] \subseteq Runs /\ tbls \in [GroType -> SUBSET Runs] /\ TypeInv
    BY <2>1 DEF Inv, TypeInv
  <2>4. CASE o = [ret |-> -1, held |-> tbls[T]]
    <3>1. Returned
      BY <1>5, <2>4
    <3>2. tbls' = tbls
      BY <1>5, <2>3, <2>4
    <3> QED
      BY <1>1, <3>1, <3>2, ReturnedInv
  <2>5. CASE /\ Takes(T, q) /\ Cardinality(tbls[T]) # ItemNum(nb_pkts)
             /\ o = [ret |-> 0, held |-> tbls[T] \cup {x}]
    <3>1. Kept(0) /\ tbls' = [tbls EXCEPT ![T] = tbls[T] \cup {x}]
      BY <1>5, <2>5
    <3>2. Exchanged(tbls, tbls', T, {}, {x})
      <4>1. /\ tbls' \in [GroType -> SUBSET Runs]
            /\ \A U \in GroType : tbls'[U] = IF U = T THEN tbls[T] \cup {x} ELSE tbls[U]
        BY <2>1, <2>2, <2>3, <3>1, TableIs
      <4>2. (tbls[T] \ {}) \cup {x} = tbls[T] \cup {x}
        OBVIOUS
      <4> QED
        BY <4>1, <4>2 DEF Exchanged
    <3>3. Brings(x, {q}, {})
      BY <2>2 DEF Brings
    <3>4. {} \in SUBSET tbls[T] /\ 0 \in {0, 1}
      OBVIOUS
    <3> HIDE DEF q, x
    <3> QED
      BY <1>1, <2>1, <2>2, <2>5, <3>1, <3>2, <3>3, <3>4, KeptInv DEF q
  <2>6. ASSUME Takes(T, q), NEW r \in tbls[T], NEW y,
               y = Joined(r, x, r.time) \/ y = Joined(x, r, r.time),
               o = [ret |-> 1, held |-> (tbls[T] \ {r}) \cup {y}]
        PROVE  Inv'
    <3>1. Kept(1) /\ tbls' = [tbls EXCEPT ![T] = (tbls[T] \ {r}) \cup {y}]
      BY <1>5, <2>6
    <3>2. r \in Runs /\ r.time \in {0}
      BY <2>3, RunHasPackets
    <3>3. y \in Runs /\ InRun(y) = InRun(r) \cup InRun(x)
      BY <2>2, <2>6, <3>2, JoinedIsRun
    <3>4. Exchanged(tbls, tbls', T, {r}, {y})
      <4> DEFINE h == (tbls[T] \ {r}) \cup {y}
      <4>1. h \subseteq Runs /\ tbls' = [tbls EXCEPT ![T] = h]
        BY <2>3, <3>1, <3>3
      <4> HIDE DEF h
      <4>2. /\ tbls' \in [GroType -> SUBSET Runs]
            /\ \A U \in GroType : tbls'[U] = IF U = T THEN h ELSE tbls[U]
        BY <2>1, <2>3, <4>1, TableIs
      <4> QED
        BY <4>2 DEF Exchanged, h
    <3>5. Brings(y, {q}, {r})
      BY <2>2, <3>3 DEF Brings
    <3>6. {r} \in SUBSET tbls[T] /\ 1 \in {0, 1} /\ \E z \in {r} : {r} = {z}
      OBVIOUS
    <3> HIDE DEF q, x
    <3> QED
      BY <1>1, <2>1, <2>6, <3>1, <3>3, <3>4, <3>5, <3>6, KeptInv DEF q
  <2>7. \/ o = [ret |-> -1, held |-> tbls[T]]
        \/ /\ Takes(T, q) /\ Cardinality(tbls[T]) # ItemNum(nb_pkts)
           /\ o = [ret |-> 0, held |-> tbls[T] \cup {x}]
        \/ /\ Takes(T, q)
           /\ \E r \in tbls[T] : o = [ret |-> 1, held |-> (tbls[T] \ {r}) \cup {Joined(r, x, r.time)}]
        \/ /\ Takes(T, q)
           /\ \E r \in tbls[T] : o = [ret |-> 1, held |-> (tbls[T] \ {r}) \cup {Joined(x, r, r.time)}]
    <3> DEFINE h == tbls[T]
               m == ItemNum(nb_pkts)
    <3>1. h \subseteq Runs /\ o \in ReassembleOutcomes(T, h, q, 0, m)
      BY <2>3
    <3> HIDE DEF h, m, q
    <3>2. \/ o = [ret |-> -1, held |-> h]
          \/ /\ Takes(T, q) /\ Cardinality(h) # m
             /\ o = [ret |-> 0, held |-> h \cup {Run(q, 0)}]
          \/ /\ Takes(T, q)
             /\ \E r \in h : o = [ret |-> 1, held |-> (h \ {r}) \cup {Joined(r, Run(q, 0), r.time)}]
          \/ /\ Takes(T, q)
             /\ \E r \in h : o = [ret |-> 1, held |-> (h \ {r}) \cup {Joined(Run(q, 0), r, r.time)}]
      BY ONLY <3>1, Outcome
    <3> QED
      BY <3>2 DEF h, m
  <2> HIDE DEF x, q
  <2> QED
    BY <2>4, <2>5, <2>6, <2>7
<1> QED
  BY <1>3, <1>4, <1>5

LEMMA ReassembleDoneInv ==
  ASSUME Inv, ReassembleDone
  PROVE  Inv'
<1> DEFINE u == call.unprocess_num
           c == Cardinality(Held)
           a == call.nb_after_gro
<1>1. /\ call.pc = "reassemble" /\ call.p > nb_pkts /\ UNCHANGED <<pkts, given, tbls>>
      /\ call' = IF a < nb_pkts \/ u < nb_pkts
                 THEN [call EXCEPT !.pc = "flush", !.i = FlushStart]
                 ELSE [call EXCEPT !.pc = "done"]
  BY DEF ReassembleDone
<1>2. /\ call \in Locals /\ nb_pkts \in Nat /\ u \in Nat /\ a \in Nat /\ call.p \in Nat
      /\ nb_pkts' = nb_pkts /\ DOMAIN given = 1..nb_pkts
  BY <1>1 DEF Inv, TypeInv, Locals, nb_pkts
<1>3. /\ u < call.p /\ call.p <= nb_pkts + 1 /\ call.t = 1 /\ call.i = 0 /\ call.k = 0
      /\ u + c + (nb_pkts + 1 - call.p) = a /\ a <= nb_pkts /\ IsFiniteSet(Held)
  BY <1>1 DEF Inv, CountInv
<1>4. c \in Nat
  BY <1>3, FS_CardinalityType
<1>5. call.p = nb_pkts + 1 /\ u + c = a /\ u <= nb_pkts
  BY <1>1, <1>2, <1>3, <1>4
<1>6. /\ call' \in Locals /\ call'.pc \in {"flush", "done"} /\ call'.unprocess_num = u
      /\ call'.nb_after_gro = a /\ call'.t = 1 /\ call'.k = 0
      /\ call'.pc = "flush" => call'.i = u /\ u < nb_pkts
      /\ call'.pc = "done" => call'.i = 0 /\ u = nb_pkts
  <2>1. CASE u < nb_pkts
    <3>1. call' = [call EXCEPT !.pc = "flush", !.i = u]
      BY <1>1, <2>1 DEF FlushStart
    <3> QED
      <4>1. /\ call' \in Locals /\ call'.pc = "flush" /\ call'.unprocess_num = u
            /\ call'.nb_after_gro = a /\ call'.t = call.t /\ call'.i = u /\ call'.k = call.k
        BY <1>2, <3>1, FlushBeginsIs
      <4> QED
        BY <1>3, <2>1, <4>1
  <2>2. CASE u = nb_pkts
    <3>1. ~(a < nb_pkts \/ u < nb_pkts)
      BY <1>2, <1>4, <1>5, <2>2
    <3>2. call' = [call EXCEPT !.pc = "done"]
      BY <1>1, <3>1
    <3> QED
      BY <1>2, <1>3, <2>2, <3>2, CallEndsIs
  <2> QED
    BY <1>2, <1>5, <2>1, <2>2
<1>7. TypeInv'
  BY <1>1, <1>2, <1>6 DEF Inv, TypeInv
<1>8. Front = u /\ Front' = u
  BY <1>1, <1>2, <1>6 DEF Front
<1>9. PlaceInv'
  <2>1. LookedAt' = LookedAt
    <3>1. \A m \in DOMAIN given : m < call.p
      BY <1>2, <1>5
    <3> QED
      BY <1>1, <1>6, <3>1 DEF LookedAt
  <2> QED
    BY <1>1, <1>6, <1>8, <2>1 DEF Inv, PlaceInv
<1>10. CountInv'
  <2>1. Held' = Held /\ NoFragment' = NoFragment
    BY <1>1 DEF Held, NoFragment
  <2>2. call'.pc # "reassemble"
    BY <1>6
  <2>3. u + c <= nb_pkts /\ call'.i + call'.k <= nb_pkts
    BY <1>2, <1>3, <1>4, <1>5, <1>6
  <2> HIDE DEF c, a, u
  <2> QED
    BY <1>2, <1>3, <1>5, <1>6, <1>8, <2>1, <2>2, <2>3, TypeOrderIs DEF CountInv, c, u, a
<1>11. KindInv'
  BY <1>1 DEF Inv, KindInv
<1> QED
  BY <1>7, <1>9, <1>10, <1>11 DEF Inv

-----------------------------------------------------------------------------
(* The flush.                                                              *)

LEMMA InFlushIs ==
  ASSUME Inv, InFlush
  PROVE  /\ call \in Locals /\ call.pc = "flush" /\ call.t \in 1..7 /\ Flushing \in GroType
         /\ call.i \in Nat /\ call.k \in Nat /\ nb_pkts \in Nat \ {0}
         /\ call.unprocess_num < nb_pkts /\ Front = call.i + call.k
         /\ tbls \in [GroType -> SUBSET Runs] /\ Apart(tbls, pkts, Front)
         /\ Placed(tbls, pkts, Front) = LookedAt /\ IsFiniteSet(Held)
<1>1. call.pc = "flush" /\ call.t <= 7 /\ call \in Locals
  BY TypeOrderIs DEF InFlush, Inv, TypeInv
<1>2. /\ call.t \in 1..7 /\ call.i \in Nat /\ call.k \in Nat /\ nb_pkts \in Nat \ {0}
      /\ call.unprocess_num \in Nat
  BY <1>1, TypeOrderIs DEF Locals, Inv, TypeInv
<1>3. call.unprocess_num < nb_pkts
  BY <1>1 DEF Inv, CountInv
<1>4. Front = call.i + call.k
  BY <1>1, <1>2, <1>3 DEF Front
<1> QED
  BY <1>1, <1>2, <1>3, <1>4, TypeOrderIs DEF Flushing, Inv, TypeInv, PlaceInv, CountInv

LEMMA UniteOutcome ==
  ASSUME NEW T, NEW held, NEW h \in UniteOutcomes(T, held, 0)
  PROVE  /\ T \in UdpTypes
         /\ \E r, s \in held : h = (held \ {r, s}) \cup {Joined(r, s, r.time)}
  BY DEF UniteOutcomes

LEMMA FlushUniteInv ==
  ASSUME Inv, FlushUnite
  PROVE  Inv'
<1> DEFINE T == Flushing
           f == Front
<1>1. InFlush /\ UNCHANGED <<pkts, given, call>>
  BY DEF FlushUnite
<1>2. /\ call \in Locals /\ call.pc = "flush" /\ call.t \in 1..7 /\ T \in GroType
      /\ tbls \in [GroType -> SUBSET Runs] /\ Apart(tbls, pkts, f)
      /\ Placed(tbls, pkts, f) = LookedAt /\ IsFiniteSet(Held)
  BY <1>1, InFlushIs
<1>3. PICK h \in UniteOutcomes(T, tbls[T], 0) : tbls' = [tbls EXCEPT ![T] = h]
  BY DEF FlushUnite
<1>4. T \in UdpTypes
  BY <1>3, UniteOutcome
<1>5. PICK r \in tbls[T], s \in tbls[T] : h = (tbls[T] \ {r, s}) \cup {Joined(r, s, r.time)}
  BY <1>3, UniteOutcome
<1> DEFINE j == Joined(r, s, r.time)
           R == {r, s}
           P == {}
<1>6. r \in Runs /\ s \in Runs /\ r.time \in {0}
  BY <1>2, <1>5, RunHasPackets
<1>7. j \in Runs /\ InRun(j) = InRun(r) \cup InRun(s)
  BY <1>6, JoinedIsRun
<1>8. Exchanged(tbls, tbls', T, R, {j})
  <2>1. h \subseteq Runs /\ h = (tbls[T] \ R) \cup {j}
    BY <1>2, <1>5, <1>7
  <2>2. TypeInv
    BY DEF Inv
  <2>3. /\ tbls' \in [GroType -> SUBSET Runs]
        /\ \A U \in GroType : tbls'[U] = IF U = T THEN h ELSE tbls[U]
    BY <1>2, <1>3, <2>1, <2>2, TableIs
  <2> HIDE DEF R, j
  <2> QED
    BY <2>1, <2>3 DEF Exchanged
<1>9. Brings(j, P, R)
  BY <1>7 DEF Brings
<1>10. /\ tbls' \in [GroType -> SUBSET Runs]
       /\ HeldIn(tbls') = (HeldIn(tbls) \ R) \cup {j}
       /\ Apart(tbls', pkts, f) /\ Placed(tbls', pkts, f) = Placed(tbls, pkts, f) \cup P
  <2> DEFINE tc == tbls'
  <2>1. R \in SUBSET tbls[T] /\ P \cap Placed(tbls, pkts, f) = {}
    BY <1>5
  <2>2. PutsInTable(tbls, pkts, f, T, R, j, P, tc)
    <3> HIDE DEF R, j, P, f, T
    <3> QED
      BY <1>2, <1>7, <1>8, <1>9, <2>1 DEF PutsInTable
  <2> HIDE DEF tc, R, j, P, f, T
  <2>3. /\ tc \in [GroType -> SUBSET Runs]
        /\ HeldIn(tc) = (HeldIn(tbls) \ R) \cup {j} /\ j \notin HeldIn(tbls) \ R
        /\ Apart(tc, pkts, f) /\ Placed(tc, pkts, f) = Placed(tbls, pkts, f) \cup P
    BY <2>2, PutInTable
  <2> QED
    BY <2>3 DEF tc
<1>11. TypeInv'
  <2> DEFINE tc == tbls'
  <2>1. /\ Exchanged(tbls, tc, T, R, {j}) /\ R \in SUBSET tbls[T] /\ R # {}
        /\ \A U \in GroType : IsFiniteSet(tbls[U]) /\ Cardinality(tbls[U]) <= ItemNum(nb_pkts)
        /\ ItemNum(nb_pkts) \in Nat
    BY <1>5, <1>8, LimitIs DEF Inv, TypeInv
  <2> HIDE DEF tc, R, j, T
  <2>2. \A U \in GroType : IsFiniteSet(tc[U]) /\ Cardinality(tc[U]) <= ItemNum(nb_pkts)
    BY <1>2, <2>1, TablesStayFit
  <2> QED
    BY <1>1, <1>10, <2>2 DEF Inv, TypeInv, tc, nb_pkts
<1>12. Front' = Front /\ LookedAt' = LookedAt
  BY <1>1 DEF Front, LookedAt, nb_pkts
<1>13. PlaceInv'
  <2>1. Placed(tbls', pkts, f) = LookedAt
    BY <1>2, <1>10
  <2> QED
    BY <1>1, <1>2, <1>10, <1>12, <2>1 DEF PlaceInv
<1>14. CountInv'
  <2>1. Held' = (Held \ R) \cup {j} /\ R \in SUBSET Held
    <3>1. R \in SUBSET HeldIn(tbls)
      BY <1>2, <1>5, PlacedIs
    <3>2. Held' = HeldIn(tbls')
      BY DEF Held, HeldIn
    <3> QED
      BY <1>10, <3>1, <3>2, HeldIs
  <2>2. IsFiniteSet(Held') /\ Cardinality(Held') <= Cardinality(Held) /\ Cardinality(Held') \in Nat
        /\ Cardinality(Held) \in Nat
    <3> DEFINE H == Held
               G == Held'
    <3>1. G = (H \ R) \cup {j} /\ IsFiniteSet(H) /\ R \in SUBSET H /\ r \in R
      BY <1>2, <2>1
    <3> HIDE DEF H, G, R, j
    <3>2. IsFiniteSet(G) /\ Cardinality(G) <= Cardinality(H)
      BY <3>1, Replaced
    <3> QED
      BY <3>1, <3>2, FS_CardinalityType DEF G, H
  <2>3. ~NoFragment
    <3>1. r.pkts[1] \in InRun(r)
      BY <1>6, RunHasPackets
    <3>2. r.pkts[1].kind = "fragment"
      BY <1>2, <1>4, <1>5, <3>1 DEF Inv, KindInv, Takes
    <3>3. r.pkts[1] \in LookedAt
      BY <1>2, <1>5, <3>1, PlacedIs
    <3> QED
      BY <3>2, <3>3 DEF LookedAt, NoFragment
  <2>4. NoFragment' = NoFragment
    BY <1>1 DEF NoFragment
  <2>5. \A n \in 1..(call.t - 1) : tbls'[TypeOrder[n]] = {}
    <3> SUFFICES ASSUME NEW n \in 1..(call.t - 1)  PROVE tbls'[TypeOrder[n]] = {}
      OBVIOUS
    <3>1. tbls[TypeOrder[n]] = {}
      BY <1>2 DEF Inv, CountInv
    <3>2. TypeOrder[n] \in GroType /\ TypeOrder[n] # T
      BY <1>2, <1>5, <3>1, TypeOrderIs
    <3> QED
      BY <1>8, <3>1, <3>2 DEF Exchanged
  <2>6. Front + Cardinality(Held') <= nb_pkts
    <3>1. Front + Cardinality(Held) <= nb_pkts /\ Front \in Nat /\ nb_pkts \in Nat
      BY <1>1, <1>2, InFlushIs DEF Inv, CountInv
    <3> QED
      BY <2>2, <3>1
  <2> QED
    BY <1>1, <1>2, <1>12, <2>2, <2>3, <2>4, <2>5, <2>6 DEF Inv, CountInv, nb_pkts
<1>15. KindInv'
  <2> DEFINE tc == tbls'
  <2>1. /\ Exchanged(tbls, tc, T, R, {j}) /\ Brings(j, P, R) /\ R \in SUBSET tbls[T]
        /\ \A p \in P : T \in DispatchTo(p, GroTypes) /\ Takes(T, p)
    BY <1>5, <1>8, <1>9
  <2>2. \A U \in GroType : \A q \in tbls[U] : \A p \in InRun(q) :
           U \in DispatchTo(p, GroTypes) /\ Takes(U, p)
    BY DEF Inv, KindInv
  <2> HIDE DEF tc, P, R, j, T
  <2>3. \A U \in GroType : \A q \in tc[U] : \A p \in InRun(q) :
           U \in DispatchTo(p, GroTypes) /\ Takes(U, p)
    BY <1>2, <2>1, <2>2, KindsStay
  <2> QED
    BY <2>3 DEF KindInv, tc
<1> QED
  BY <1>11, <1>13, <1>14, <1>15 DEF Inv

LEMMA FlushWriteInv ==
  ASSUME Inv, FlushWrite
  PROVE  Inv'
<1> DEFINE T == Flushing
           f == Front
           c == Cardinality(Held)
<1>1. InFlush /\ UNCHANGED given
  BY DEF FlushWrite
<1>2. /\ call \in Locals /\ call.pc = "flush" /\ call.t \in 1..7 /\ T \in GroType
      /\ call.i \in Nat /\ call.k \in Nat /\ nb_pkts \in Nat \ {0}
      /\ call.unprocess_num < nb_pkts /\ f = call.i + call.k
      /\ tbls \in [GroType -> SUBSET Runs] /\ Apart(tbls, pkts, f)
      /\ Placed(tbls, pkts, f) = LookedAt /\ IsFiniteSet(Held)
  BY <1>1, InFlushIs
<1>3. PICK r \in tbls[T] : /\ tbls' = [tbls EXCEPT ![T] = tbls[T] \ {r}]
                          /\ pkts' = PutAt(pkts, call.i + call.k + 1, r)
  BY DEF FlushWrite, NextToWrite
<1>4. r \in Runs /\ TypeInv /\ nb_pkts' = nb_pkts
  BY <1>1, <1>2 DEF Inv, nb_pkts
<1>5. Exchanged(tbls, tbls', T, {r}, {})
  <2> DEFINE h == tbls[T] \ {r}
  <2>1. h \subseteq Runs /\ tbls' = [tbls EXCEPT ![T] = h]
    BY <1>2, <1>3
  <2> HIDE DEF h
  <2>2. /\ tbls' \in [GroType -> SUBSET Runs]
        /\ \A U \in GroType : tbls'[U] = IF U = T THEN h ELSE tbls[U]
    BY <1>2, <1>4, <2>1, TableIs
  <2>3. h = (tbls[T] \ {r}) \cup {}
    BY DEF h
  <2> QED
    BY <2>2, <2>3 DEF Exchanged
<1>6. /\ tbls' \in [GroType -> SUBSET Runs] /\ HeldIn(tbls') = HeldIn(tbls) \ {r} /\ r \in HeldIn(tbls)
      /\ Apart(tbls', pkts, f) /\ InRun(r) \cap Placed(tbls', pkts, f) = {}
      /\ Placed(tbls, pkts, f) = Placed(tbls', pkts, f) \cup InRun(r)
  <2> DEFINE tc == tbls'
  <2>1. TakesFromTable(tbls, pkts, f, T, r, tc)
    BY <1>2, <1>3, <1>5 DEF TakesFromTable
  <2> HIDE DEF tc, f, T
  <2>2. /\ tc \in [GroType -> SUBSET Runs] /\ HeldIn(tc) = HeldIn(tbls) \ {r} /\ r \in HeldIn(tbls)
        /\ Apart(tc, pkts, f) /\ InRun(r) \cap Placed(tc, pkts, f) = {}
        /\ Placed(tbls, pkts, f) = Placed(tc, pkts, f) \cup InRun(r)
    BY <2>1, TakeFromTable
  <2> QED
    BY <2>2 DEF tc
<1>7. Held' = Held \ {r} /\ r \in Held
  <2>1. Held' = HeldIn(tbls')
    BY DEF Held, HeldIn
  <2> QED
    BY <1>6, <2>1, HeldIs
<1>8. IsFiniteSet(Held') /\ Cardinality(Held') = c - 1 /\ c \in Nat /\ Cardinality(Held') \in Nat
  <2>1. IsFiniteSet(Held \ {r}) /\ Cardinality(Held \ {r}) = c - 1
    BY <1>2, <1>7, FS_RemoveElement
  <2> QED
    BY <1>2, <1>7, <2>1, FS_CardinalityType
<1>9. f \in Nat /\ f + c <= nb_pkts /\ f + 1 \in 1..nb_pkts
  <2>1. f \in Nat
    BY <1>2
  <2>2. f + c <= nb_pkts
    BY <1>2 DEF Inv, CountInv
  <2>3. c - 1 \in Nat
    BY <1>8
  <2> HIDE DEF f, c
  <2> QED
    BY <1>2, <1>8, <2>1, <2>2, <2>3
<1>10. /\ pkts' \in Seq(Runs) /\ Len(pkts') = nb_pkts /\ pkts'[f + 1] = r
       /\ \A n \in 1..f : pkts'[n] = pkts[n]
  <2> DEFINE g == f + 1
  <2>1. pkts \in Seq(Runs) /\ Len(pkts) = nb_pkts /\ pkts' = PutAt(pkts, g, r)
    BY <1>2, <1>3, <1>4 DEF TypeInv
  <2>2. g \in 1..nb_pkts /\ \A n \in 1..f : n \in 1..nb_pkts /\ n # g
    BY <1>2, <1>9
  <2> HIDE DEF g
  <2>3. pkts' = [m \in 1..nb_pkts |-> IF m = g THEN r ELSE pkts[m]]
    BY <1>2, <2>1, <2>2 DEF PutAt
  <2>4. pkts' \in [1..nb_pkts -> Runs]
    BY <1>4, <2>1, <2>3
  <2>5. pkts' \in Seq(Runs) /\ Len(pkts') = nb_pkts
    BY <1>2, <2>4
  <2>6. pkts'[g] = r /\ \A n \in 1..f : pkts'[n] = pkts[n]
    BY <2>2, <2>3
  <2> QED
    BY <2>5, <2>6 DEF g
<1>11. /\ Apart(tbls', pkts', f + 1)
       /\ Placed(tbls', pkts', f + 1) = LookedAt
  <2> DEFINE tc == tbls'
             as == pkts'
  <2>1. /\ tc \in [GroType -> SUBSET Runs] /\ Apart(tc, pkts, f)
        /\ \A n \in 1..f : as[n] = pkts[n]
        /\ InRun(as[f + 1]) \cap Placed(tc, pkts, f) = {}
        /\ f \in Nat
    BY <1>6, <1>9, <1>10
  <2> HIDE DEF tc, as, f
  <2>2. /\ Apart(tc, as, f + 1)
        /\ Placed(tc, as, f + 1) = Placed(tc, pkts, f) \cup InRun(as[f + 1])
    BY ONLY <2>1, PutInArray
  <2> QED
    BY <1>2, <1>6, <1>10, <2>2 DEF tc, as
<1>12. /\ call' \in Locals /\ call'.pc = "flush" /\ call'.p = call.p
       /\ call'.unprocess_num = call.unprocess_num /\ call'.nb_after_gro = call.nb_after_gro
       /\ call'.i + call'.k = f + 1
       /\ \/ call'.t = call.t + 1 /\ call'.k = 0 /\ f + 1 = nb_pkts
          \/ call'.t = call.t
  <2>1. CASE call.k + 1 = nb_pkts - call.i
    <3>1. call' = TypeDone(call.k + 1) /\ call.k + 1 \in Nat
      BY <1>2, <2>1 DEF FlushWrite
    <3>2. /\ call' \in Locals /\ call'.pc = call.pc /\ call'.p = call.p
          /\ call'.unprocess_num = call.unprocess_num /\ call'.nb_after_gro = call.nb_after_gro
          /\ call'.t = call.t + 1 /\ call'.i = call.i + (call.k + 1) /\ call'.k = 0
      BY <1>2, <3>1, TypeDoneIs
    <3>3. f + 1 = nb_pkts /\ call'.i + call'.k = f + 1
      BY <1>2, <2>1, <3>2
    <3> QED
      BY <1>2, <3>2, <3>3
  <2>2. CASE call.k + 1 # nb_pkts - call.i
    <3>1. call' = [call EXCEPT !.k = call.k + 1] /\ call.k + 1 \in Nat
      BY <1>2, <2>2 DEF FlushWrite
    <3>2. /\ call' \in Locals /\ call'.pc = call.pc /\ call'.p = call.p
          /\ call'.unprocess_num = call.unprocess_num /\ call'.nb_after_gro = call.nb_after_gro
          /\ call'.t = call.t /\ call'.i = call.i /\ call'.k = call.k + 1
      BY <1>2, <3>1, OneMoreIs
    <3>3. call'.i + call'.k = f + 1
      BY <1>2, <3>2
    <3> QED
      BY <1>2, <3>2, <3>3
  <2> QED
    BY <2>1, <2>2
<1>13. \A U \in GroType : tbls'[U] \subseteq tbls[U]
  BY <1>5 DEF Exchanged
<1>14. TypeInv'
  <2>1. ASSUME NEW U \in GroType
        PROVE  IsFiniteSet(tbls'[U]) /\ Cardinality(tbls'[U]) <= ItemNum(nb_pkts)
    <3> DEFINE A == tbls[U]
               B == tbls'[U]
               m == ItemNum(nb_pkts)
    <3>1. IsFiniteSet(A) /\ Cardinality(A) <= m /\ m \in Nat /\ B \in SUBSET A
      BY <1>2, <1>4, <1>13, <2>1, LimitIs DEF TypeInv
    <3> HIDE DEF A, B, m
    <3>2. /\ IsFiniteSet(B) /\ Cardinality(B) <= Cardinality(A)
          /\ Cardinality(A) \in Nat /\ Cardinality(B) \in Nat
      BY <3>1, FS_Subset, FS_CardinalityType
    <3>3. IsFiniteSet(B) /\ Cardinality(B) <= m
      BY <3>1, <3>2
    <3> QED
      BY <3>3 DEF B, m
  <2> QED
    BY <1>1, <1>4, <1>6, <1>10, <1>12, <2>1 DEF TypeInv
<1>15. Front' = f + 1 /\ LookedAt' = LookedAt
  <2>1. Front' = call'.i + call'.k
    BY <1>2, <1>4, <1>12 DEF Front
  <2>2. LookedAt' = LookedAt
    BY <1>1, <1>2, <1>12 DEF LookedAt
  <2> QED
    BY <1>12, <2>1, <2>2
<1>16. PlaceInv'
  BY <1>11, <1>12, <1>15 DEF PlaceInv
<1>17. CountInv'
  <2> DEFINE d == Cardinality(Held')
  <2>1. /\ f + 1 + d <= nb_pkts /\ f + 1 + d = f + c /\ f + 1 <= nb_pkts
    <3>1. d = c - 1 /\ c \in Nat
      BY <1>8
    <3> HIDE DEF d, c, f
    <3> QED
      BY <1>2, <1>9, <3>1
  <2>2. NoFragment' = NoFragment /\ (NoFragment => f + c = call.nb_after_gro)
    BY <1>1, <1>2 DEF NoFragment, Inv, CountInv
  <2>3. \A n \in 1..(call'.t - 1) : tbls'[TypeOrder[n]] = {}
    <3>1. \A n \in 1..(call.t - 1) : tbls'[TypeOrder[n]] = {}
      <4> SUFFICES ASSUME NEW n \in 1..(call.t - 1)  PROVE tbls'[TypeOrder[n]] = {}
        OBVIOUS
      <4>1. tbls[TypeOrder[n]] = {}
        BY <1>2 DEF Inv, CountInv
      <4>2. TypeOrder[n] \in GroType
        BY <1>2, TypeOrderIs
      <4> QED
        BY <1>13, <4>1, <4>2
    <3>2. CASE call'.t = call.t
      BY <3>1, <3>2
    <3>3. CASE f + 1 = nb_pkts
      <4>1. d = 0
        <5>1. d \in Nat
          BY <1>8
        <5> HIDE DEF d, f, c
        <5> QED
          BY <1>2, <1>9, <2>1, <3>3, <5>1
      <4>2. Held' = {}
        BY <1>8, <4>1, FS_EmptySet
      <4>3. \A U \in GroType : tbls'[U] = {}
        BY <4>2 DEF Held
      <4>4. \A n \in 1..(call'.t - 1) : TypeOrder[n] \in GroType
        <5>1. call'.t \in 1..8
          BY <1>12, TypeOrderIs DEF Locals
        <5> QED
          BY <5>1, TypeOrderIs
      <4> QED
        BY <4>3, <4>4
    <3> QED
      BY <1>12, <3>2, <3>3
  <2>4. call'.t > 7 => call'.k = 0
    BY <1>2, <1>12
  <2>5. call.unprocess_num <= nb_pkts /\ call.nb_after_gro <= nb_pkts
    BY DEF Inv, CountInv
  <2>6. Front' + d <= nb_pkts /\ (NoFragment' => Front' + d = call'.nb_after_gro)
    BY <1>12, <1>15, <2>1, <2>2
  <2>7. call'.i + call'.k <= nb_pkts /\ call'.pc = "flush" /\ call'.unprocess_num < nb_pkts
    BY <1>2, <1>12, <2>1
  <2> HIDE DEF d, f, c
  <2> QED
    BY <1>4, <1>8, <1>12, <2>3, <2>4, <2>5, <2>6, <2>7, TypeOrderIs DEF CountInv, d
<1>18. KindInv'
  BY <1>13 DEF Inv, KindInv
<1> QED
  BY <1>14, <1>16, <1>17, <1>18 DEF Inv

LEMMA FlushTypeDoneInv ==
  ASSUME Inv, FlushTypeDone
  PROVE  Inv'
<1>1. InFlush /\ UNCHANGED <<pkts, given, tbls>> /\ call' = TypeDone(call.k)
      /\ FlushedOut(tbls[Flushing], 0)
  BY DEF FlushTypeDone
<1>2. /\ call \in Locals /\ call.pc = "flush" /\ call.t \in 1..7 /\ Flushing \in GroType
      /\ call.i \in Nat /\ call.k \in Nat /\ nb_pkts \in Nat \ {0}
      /\ call.unprocess_num < nb_pkts /\ Front = call.i + call.k
      /\ tbls \in [GroType -> SUBSET Runs] /\ nb_pkts' = nb_pkts
  BY <1>1, InFlushIs DEF nb_pkts
<1>3. /\ call' \in Locals /\ call'.pc = call.pc /\ call'.p = call.p
      /\ call'.unprocess_num = call.unprocess_num /\ call'.nb_after_gro = call.nb_after_gro
      /\ call'.t = call.t + 1 /\ call'.i = call.i + call.k /\ call'.k = 0
  BY <1>1, <1>2, TypeDoneIs
<1>4. tbls[Flushing] = {}
  <2>1. \A r \in tbls[Flushing] : r.time = 0
    BY <1>2, RunHasPackets
  <2> QED
    BY <1>1, <2>1 DEF FlushedOut, IsDue
<1>5. Front' = Front /\ LookedAt' = LookedAt /\ Held' = Held /\ NoFragment' = NoFragment
  <2>1. Front' = call'.i + call'.k
    BY <1>2, <1>3 DEF Front
  <2>2. call'.i + call'.k = call.i + call.k
    BY <1>2, <1>3
  <2> QED
    BY <1>1, <1>2, <1>3, <2>1, <2>2 DEF LookedAt, Held, NoFragment
<1>6. TypeInv' /\ KindInv'
  BY <1>1, <1>2, <1>3 DEF Inv, TypeInv, KindInv
<1>7. PlaceInv'
  BY <1>1, <1>2, <1>3, <1>5 DEF Inv, PlaceInv
<1>8. CountInv'
  <2>1. \A n \in 1..(call'.t - 1) : tbls'[TypeOrder[n]] = {}
    <3>1. \A n \in 1..(call'.t - 1) : n = call.t \/ n \in 1..(call.t - 1)
      BY <1>2, <1>3
    <3>2. \A n \in 1..(call.t - 1) : tbls[TypeOrder[n]] = {}
      BY <1>2 DEF Inv, CountInv
    <3> QED
      BY <1>1, <1>4, <3>1, <3>2 DEF Flushing
  <2>2. call'.i + call'.k <= nb_pkts
    BY <1>2, <1>3 DEF Inv, CountInv
  <2> QED
    BY <1>1, <1>2, <1>3, <1>5, <2>1, <2>2 DEF Inv, CountInv
<1> QED
  BY <1>6, <1>7, <1>8 DEF Inv

LEMMA FlushDoneInv ==
  ASSUME Inv, FlushDone
  PROVE  Inv'
<1>1. /\ call.pc = "flush" /\ call.t > 7 /\ UNCHANGED <<pkts, given, tbls>>
      /\ call' = [call EXCEPT !.pc = "done"]
  BY TypeOrderIs DEF FlushDone
<1>2. /\ call \in Locals /\ call.t \in 1..8 /\ call.i \in Nat /\ call.k = 0
      /\ nb_pkts \in Nat \ {0} /\ call.unprocess_num \in Nat /\ nb_pkts' = nb_pkts
      /\ call.unprocess_num < nb_pkts
  BY <1>1, TypeOrderIs DEF Inv, TypeInv, CountInv, Locals, nb_pkts
<1>3. /\ call' \in Locals /\ call'.pc = "done" /\ call'.p = call.p
      /\ call'.unprocess_num = call.unprocess_num /\ call'.nb_after_gro = call.nb_after_gro
      /\ call'.t = call.t /\ call'.i = call.i /\ call'.k = call.k
  BY <1>1, <1>2, CallEndsIs
<1>4. Front' = Front /\ LookedAt' = LookedAt /\ Held' = Held /\ NoFragment' = NoFragment
  BY <1>1, <1>2, <1>3 DEF Front, LookedAt, Held, NoFragment
<1>5. Held = {}
  <2>1. \A n \in 1..7 : tbls[TypeOrder[n]] = {}
    BY <1>1, <1>2 DEF Inv, CountInv
  <2>2. \A T \in GroType : tbls[T] = {}
    BY <2>1, TypeOrderIs
  <2> QED
    BY <2>2 DEF Held
<1>6. TypeInv' /\ KindInv'
  BY <1>1, <1>2, <1>3 DEF Inv, TypeInv, KindInv
<1>7. PlaceInv'
  BY <1>1, <1>2, <1>3, <1>4 DEF Inv, PlaceInv
<1>8. CountInv'
  BY <1>1, <1>2, <1>3, <1>4, <1>5 DEF Inv, CountInv
<1> QED
  BY <1>6, <1>7, <1>8 DEF Inv

LEMMA AlwaysInv == Spec => []Inv
<1>1. Inv /\ [Next]_vars => Inv'
  <2> SUFFICES ASSUME Inv, [Next]_vars  PROVE Inv'
    OBVIOUS
  <2>1. CASE ReassemblePkt
    BY <2>1, ReassemblePktInv
  <2>2. CASE ReassembleDone
    BY <2>2, ReassembleDoneInv
  <2>3. CASE FlushUnite
    BY <2>3, FlushUniteInv
  <2>4. CASE FlushWrite
    BY <2>4, FlushWriteInv
  <2>5. CASE FlushTypeDone
    BY <2>5, FlushTypeDoneInv
  <2>6. CASE FlushDone
    BY <2>6, FlushDoneInv
  <2>7. CASE UNCHANGED vars
    <3>1. UNCHANGED <<given, pkts, tbls, call>> /\ nb_pkts' = nb_pkts
      BY <2>7 DEF vars, nb_pkts
    <3>2. Front' = Front /\ LookedAt' = LookedAt /\ Held' = Held /\ NoFragment' = NoFragment
      BY <3>1 DEF Front, LookedAt, Held, NoFragment
    <3>3. TypeInv'
      BY <3>1 DEF Inv, TypeInv
    <3>4. PlaceInv'
      BY <3>1, <3>2 DEF Inv, PlaceInv
    <3>5. CountInv'
      BY <3>1, <3>2 DEF Inv, CountInv
    <3>6. KindInv'
      BY <3>1 DEF Inv, KindInv
    <3> QED
      BY <3>3, <3>4, <3>5, <3>6 DEF Inv
  <2> QED
    BY <2>1, <2>2, <2>3, <2>4, <2>5, <2>6, <2>7 DEF Next
<1> QED
  BY <1>1, InitInv, PTL DEF Spec

-----------------------------------------------------------------------------
(* Theorems.                                                               *)

(* The locals and the tables of a call keep their types; no table on the   *)
(* stack is filled beyond the limit it was set up with.                    *)
THEOREM TypeCorrect == Spec => []TypeOK
<1>1. Inv => TypeOK
  <2> SUFFICES ASSUME Inv  PROVE TypeOK
    OBVIOUS
  <2>1. /\ call \in Locals /\ nb_pkts \in Nat /\ call.unprocess_num \in Nat
        /\ call.nb_after_gro \in Nat /\ call.i \in Nat /\ call.k \in Nat
        /\ call.unprocess_num <= nb_pkts /\ call.nb_after_gro <= nb_pkts
    BY DEF Inv, TypeInv, CountInv, Locals
  <2>2. call.i <= nb_pkts /\ call.k <= nb_pkts
    <3>1. CASE call.pc = "reassemble"
      BY <2>1, <3>1 DEF Inv, CountInv
    <3>2. CASE call.pc # "reassemble"
      BY <2>1, <3>2 DEF Inv, CountInv
    <3> QED
      BY <3>1, <3>2
  <2>3. pkts \in Seq(Runs)
        /\ \A T \in GroType : tbls[T] \subseteq Runs /\ Cardinality(tbls[T]) <= ItemNum(nb_pkts)
    BY DEF Inv, TypeInv
  <2> QED
    BY <2>1, <2>2, <2>3 DEF TypeOK
<1> QED
  BY <1>1, AlwaysInv, PTL

(* The array never grows, and in every state of the flush there is room in *)
(* it for what the tables hold, so that no type returns early and none is  *)
(* called with room 0.                                                     *)
THEOREM RoomStays == Spec => []RoomForHeld
<1>1. Inv => RoomForHeld
  <2> SUFFICES ASSUME Inv  PROVE RoomForHeld
    OBVIOUS
  <2>1. Len(pkts) = nb_pkts
    BY DEF Inv, TypeInv
  <2>2. call.pc = "flush" => Front = call.i + call.k
    <3>1. nb_pkts \in Nat /\ (call.pc = "flush" => call.unprocess_num < nb_pkts) /\ call.unprocess_num \in Nat
      BY DEF Inv, TypeInv, CountInv, Locals
    <3> QED
      BY <3>1 DEF Front
  <2> QED
    BY <2>1, <2>2 DEF RoomForHeld, Inv, CountInv
<1> QED
  BY <1>1, AlwaysInv, PTL

(* When a call returns, its tables are empty and the array has every       *)
(* packet of the burst once.                                               *)
THEOREM NothingStaysOnStack == Spec => []NothingLeftOnStack
<1>1. Inv => NothingLeftOnStack
  <2> SUFFICES ASSUME Inv, call.pc = "done", call.unprocess_num < nb_pkts
               PROVE  /\ Held = {}
                      /\ PktsOf(Written) = {given[n] : n \in DOMAIN given}
                      /\ \A n, m \in 1..call.i : n # m => PktsOf({pkts[n]}) \cap PktsOf({pkts[m]}) = {}
    BY DEF NothingLeftOnStack
  <2>1. call \in Locals /\ call.i \in Nat /\ call.k = 0 /\ Held = {} /\ HeldIn(tbls) = {}
        /\ nb_pkts \in Nat /\ call.unprocess_num \in Nat
    BY HeldIs DEF Inv, TypeInv, CountInv, Locals
  <2>2. Front = call.i
    BY <2>1 DEF Front
  <2>3. LookedAt = {given[n] : n \in DOMAIN given}
    BY DEF LookedAt
  <2>4. Apart(tbls, pkts, call.i) /\ Placed(tbls, pkts, call.i) = {given[n] : n \in DOMAIN given}
    BY <2>2, <2>3 DEF Inv, PlaceInv
  <2>5. \A r : PktsOf({r}) = InRun(r)
    BY DEF PktsOf, InRun
  <2>6. PktsOf(Written) = Placed(tbls, pkts, call.i)
    <3>1. \A p : p \in PktsOf(Written) <=> \E n \in 1..call.i : p \in InRun(pkts[n])
      BY DEF PktsOf, Written, InRun
    <3>2. \A p : p \in Placed(tbls, pkts, call.i) <=> \E n \in 1..call.i : p \in InRun(pkts[n])
      BY <2>1, PlacedIs
    <3> QED
      BY <3>1, <3>2
  <2> QED
    BY <2>1, <2>4, <2>5, <2>6 DEF Apart
<1> QED
  BY <1>1, AlwaysInv, PTL

(* The number returned is that of the packets in the array, for every      *)
(* burst without fragments: what is merged at flush time is not counted.   *)
THEOREM ReturnAlwaysCounts == Spec => []ReturnCountsSegments
<1>1. Inv => ReturnCountsSegments
  <2> SUFFICES ASSUME Inv, NoFragment, call.pc = "done"
               PROVE  /\ PktsOf({pkts[n] : n \in 1..call.nb_after_gro}) = {given[n] : n \in DOMAIN given}
                      /\ \A n, m \in 1..call.nb_after_gro :
                            n # m => PktsOf({pkts[n]}) \cap PktsOf({pkts[m]}) = {}
    BY DEF ReturnCountsSegments, ReturnCountsPackets, NoFragment
  <2> DEFINE a == call.nb_after_gro
  <2>1. Front + Cardinality(Held) = a /\ IsFiniteSet(Held) /\ call \in Locals /\ nb_pkts \in Nat
        /\ call.unprocess_num <= nb_pkts /\ a <= nb_pkts
        /\ (call.unprocess_num < nb_pkts => Held = {})
    BY DEF Inv, TypeInv, CountInv
  <2>2. Front \in Nat /\ Cardinality(Held) \in Nat /\ call.unprocess_num \in Nat /\ a \in Nat
    BY <2>1, FS_CardinalityType DEF Front, Locals
  <2>3. Held = {} /\ Front = a
    <3>1. CASE call.unprocess_num < nb_pkts
      <4>1. Held = {} /\ Cardinality(Held) = 0
        BY <2>1, <3>1, FS_EmptySet
      <4> QED
        BY <2>1, <2>2, <4>1
    <3>2. CASE call.unprocess_num = nb_pkts
      <4>1. Front = nb_pkts
        BY <3>2 DEF Front
      <4>2. Cardinality(Held) = 0
        BY <2>1, <2>2, <4>1
      <4>3. Held = {}
        BY <2>1, <4>2, FS_EmptySet
      <4> QED
        BY <2>1, <2>2, <4>2, <4>3
    <3> QED
      BY <2>1, <2>2, <3>1, <3>2
  <2>4. LookedAt = {given[n] : n \in DOMAIN given}
    BY DEF LookedAt
  <2>5. Apart(tbls, pkts, a) /\ Placed(tbls, pkts, a) = {given[n] : n \in DOMAIN given}
    BY <2>3, <2>4 DEF Inv, PlaceInv
  <2>6. \A r : PktsOf({r}) = InRun(r)
    BY DEF PktsOf, InRun
  <2>7. PktsOf({pkts[n] : n \in 1..a}) = Placed(tbls, pkts, a)
    <3>1. \A p : p \in PktsOf({pkts[n] : n \in 1..a}) <=> \E n \in 1..a : p \in InRun(pkts[n])
      BY DEF PktsOf, InRun
    <3>2. \A p : p \in Placed(tbls, pkts, a) <=> \E n \in 1..a : p \in InRun(pkts[n])
      BY <2>3, HeldIs, PlacedIs
    <3> QED
      BY <3>1, <3>2
  <2> QED
    BY <2>5, <2>6, <2>7 DEF Apart
<1> QED
  BY <1>1, AlwaysInv, PTL

(* The tunnels of packet types that the tests by bits tell apart.          *)
TunnelsKnown == \A p \in Pkts : p.ptype.tunnel \in {0, TUNNEL_VXLAN, TUNNEL_GTPU}

(* With packets of no tunnel, VXLAN and GTP-U alone, a table has packets   *)
(* of its own tunnel alone, whichever types are enabled.                   *)
THEOREM TablesKeepTunnelsApart ==
  ASSUME TunnelsKnown
  PROVE  Spec => []TunnelOfTable
<1>1. Inv => TunnelOfTable
  <2> SUFFICES ASSUME Inv, NEW T \in GroType, NEW p \in PktsOf(tbls[T])
               PROVE  p.ptype.tunnel = CASE T \in {"VXLAN_TCP", "VXLAN_UDP"} -> TUNNEL_VXLAN
                                         [] T \in {"GTP_TCP", "GTP_UDP"}     -> TUNNEL_GTPU
                                         [] OTHER                            -> 0
    BY DEF TunnelOfTable
  <2>1. PICK r \in tbls[T] : p \in InRun(r)
    BY DEF PktsOf, InRun
  <2>2. p \in Pkts /\ IsOfType(T, p.ptype)
    <3>1. r \in Runs
      BY <2>1 DEF Inv, TypeInv
    <3>2. T \in DispatchTo(p, GroTypes)
      BY <2>1 DEF Inv, KindInv
    <3> QED
      BY <2>1, <3>1, <3>2, RunHasPackets DEF DispatchTo
  <2> DEFINE t == p.ptype
             x == t.tunnel
  <2>3. x \in {0, 3, 8}
    BY <2>2 DEF TunnelsKnown, TUNNEL_VXLAN, TUNNEL_GTPU
  <2>4. Covers(x, TUNNEL_VXLAN) => x = 3
    <3>1. Bit(3, 1) /\ ~Bit(0, 1) /\ ~Bit(8, 1)
      BY DEF Bit
    <3> QED
      BY <2>3, <3>1 DEF Covers, TUNNEL_VXLAN
  <2>5. Covers(x, TUNNEL_GTPU) => x = 8
    <3>1. Bit(8, 8) /\ ~Bit(0, 8) /\ ~Bit(3, 8)
      BY DEF Bit
    <3> QED
      BY <2>3, <3>1 DEF Covers, TUNNEL_GTPU
  <2> HIDE DEF t, x
  <2>6. CASE T \in {"VXLAN_TCP", "VXLAN_UDP"}
    BY <2>2, <2>4, <2>6 DEF IsOfType, IS_IPV4_VXLAN_TCP4_PKT, IS_IPV4_VXLAN_UDP4_PKT,
                            InIpv4Tunnel, TUNNEL_VXLAN, t, x
  <2>7. CASE T \in {"GTP_TCP", "GTP_UDP"}
    BY <2>2, <2>5, <2>7 DEF IsOfType, IS_IPV4_GTP_TCP4_PKT, IS_IPV4_GTP_UDP4_PKT,
                            InIpv4Tunnel, TUNNEL_GTPU, t, x
  <2>8. CASE T \in {"TCP4", "UDP4", "TCP6"}
    BY <2>2, <2>8 DEF IsOfType, IS_IPV4_TCP_PKT, IS_IPV4_UDP_PKT, IS_IPV6_TCP_PKT, IsTunnelPkt, t, x
  <2> QED
    BY <2>6, <2>7, <2>8 DEF GroType, TypeOrder
<1> QED
  BY <1>1, AlwaysInv, PTL
=============================================================================
