---------------------------- MODULE RteGroProofs ----------------------------
(***************************************************************************)
(* Proofs about the API of rte_gro.c.                                      *)
(***************************************************************************)
EXTENDS RteGro, FiniteSetTheorems, TLAPS

-----------------------------------------------------------------------------
(* Runs, tables and the array, as operators.                               *)

InRun(r) == {r.pkts[n] : n \in DOMAIN r.pkts}

(* What is left of the runs h of a table when x has been stored, merged    *)
(* with one of them, or refused for want of room.                          *)
Handled(o, h, x, m) ==
  \/ o = [ret |-> -1, held |-> h]
  \/ o = [ret |-> 0, held |-> h \cup {x}] /\ Cardinality(h) # m
  \/ \E r \in h : Mergeable(r, x) /\ o = [ret |-> 1, held |-> (h \ {r}) \cup {Joined(r, x, r.time)}]
  \/ \E r \in h : Mergeable(x, r) /\ o = [ret |-> 1, held |-> (h \ {r}) \cup {Joined(x, r, r.time)}]

(* What one turn of the loop may leave of the runs of a table, of which a  *)
(* packet with PSH or FIN may have hurried one before it was handled.      *)
LEMMA Outcome ==
  ASSUME NEW T, NEW held, NEW p, NEW time, NEW m,
         NEW o \in ReassembleOutcomes(T, held, p, time, m)
  PROVE  \/ o = [ret |-> -1, held |-> held]
         \/ Takes(T, p) /\ \E h \in Prepared(held, p) : Handled(o, h, Run(p, time), m)
<1>1. CASE ~Takes(T, p) \/ Prepared(held, p) = {}
  BY <1>1 DEF ReassembleOutcomes
<1>2. CASE ~(~Takes(T, p) \/ Prepared(held, p) = {})
  <2>1. PICK h \in Prepared(held, p) : o \in Processed(h, Run(p, time), m)
    BY <1>2 DEF ReassembleOutcomes
  <2>2. Handled(o, h, Run(p, time), m)
    BY <2>1 DEF Processed, Merged, Stored, Handled
  <2> QED
    BY <1>2, <2>1, <2>2
<1> QED
  BY <1>1, <1>2

(* A run is hurried by a packet of its own flow, and by TCP/IPv4 only.     *)
HurriedIn(T, held, p, h) ==
  /\ T = "TCP4" /\ p.kind = "push"
  /\ \E r \in held : r.pkts[1].flow = p.flow /\ h = (held \ {r}) \cup {Hurried(r)}

LEMMA PreparedIs ==
  ASSUME NEW T, NEW held, NEW p, Takes(T, p), NEW h \in Prepared(held, p)
  PROVE  h = held \/ HurriedIn(T, held, p, h)
<1>1. CASE p.kind = "push"
  <2>1. \E r \in held : r.pkts[1].flow = p.flow /\ h = (held \ {r}) \cup {Hurried(r)}
    BY <1>1 DEF Prepared, FlowOf
  <2>2. T = "TCP4"
    BY <1>1 DEF Takes
  <2> QED
    BY <1>1, <2>1, <2>2 DEF HurriedIn
<1>2. CASE p.kind # "push"
  BY <1>2 DEF Prepared
<1> QED
  BY <1>1, <1>2

LEMMA HurriedIsRun ==
  ASSUME NEW r \in Runs
  PROVE  /\ Hurried(r) \in Runs /\ Hurried(r).pkts = r.pkts /\ Hurried(r).time = 0
         /\ InRun(Hurried(r)) = InRun(r)
<1>1. Hurried(r) \in Runs /\ Hurried(r).pkts = r.pkts /\ Hurried(r).time = 0
  BY ApiAssumption DEF Hurried, Runs
<1> QED
  BY <1>1 DEF InRun

LEMMA RunIsRun ==
  ASSUME NEW p \in Pkts, NEW time \in 0..MaxTime
  PROVE  Run(p, time) \in Runs /\ InRun(Run(p, time)) = {p}
<1>1. <<p>> \in Seq(Pkts) \ {<<>>} /\ DOMAIN <<p>> = {1} /\ <<p>>[1] = p
  OBVIOUS
<1> QED
  BY <1>1 DEF Run, Runs, InRun

LEMMA Concatenated ==
  ASSUME NEW S, NEW a \in Seq(S), NEW b \in Seq(S)
  PROVE  /\ a \o b \in Seq(S) /\ Len(a \o b) = Len(a) + Len(b)
         /\ \A n \in 1..Len(a) : (a \o b)[n] = a[n]
         /\ \A n \in 1..Len(b) : (a \o b)[Len(a) + n] = b[n]
<1>1. a \o b \in Seq(S) /\ Len(a \o b) = Len(a) + Len(b)
  OBVIOUS
<1>2. \A n \in 1..Len(a) : (a \o b)[n] = a[n]
  OBVIOUS
<1>3. \A n \in 1..Len(b) : (a \o b)[Len(a) + n] = b[n]
  OBVIOUS
<1> QED
  BY <1>1, <1>2, <1>3

LEMMA JoinedIsRun ==
  ASSUME NEW r \in Runs, NEW s \in Runs, NEW time \in 0..MaxTime
  PROVE  /\ Joined(r, s, time) \in Runs
         /\ Joined(r, s, time).pkts = r.pkts \o s.pkts
         /\ Joined(r, s, time).time = time
         /\ InRun(Joined(r, s, time)) = InRun(r) \cup InRun(s)
<1>1. /\ r.pkts \in Seq(Pkts) /\ s.pkts \in Seq(Pkts) /\ r.pkts # <<>> /\ s.pkts # <<>>
  BY DEF Runs
<1> DEFINE a == r.pkts
           b == s.pkts
           c == a \o b
<1>2. Len(a) \in Nat \ {0} /\ Len(b) \in Nat \ {0}
  BY <1>1
<1>3. /\ c \in Seq(Pkts) /\ Len(c) = Len(a) + Len(b)
      /\ \A n \in 1..Len(a) : c[n] = a[n]
      /\ \A n \in 1..Len(b) : c[Len(a) + n] = b[n]
  <2>1. a \in Seq(Pkts) /\ b \in Seq(Pkts)
    BY <1>1
  <2> HIDE DEF a, b
  <2> QED
    BY <2>1, Concatenated
<1>4. DOMAIN a = 1..Len(a) /\ DOMAIN b = 1..Len(b) /\ DOMAIN c = 1..Len(c)
  BY <1>1, <1>3
<1>5. c # <<>>
  BY <1>2, <1>3
<1> HIDE DEF a, b, c
<1>6. {c[n] : n \in DOMAIN c} = {a[n] : n \in DOMAIN a} \cup {b[n] : n \in DOMAIN b}
  <2>1. \A n \in 1..Len(c) : n \in 1..Len(a) \/ (n - Len(a) \in 1..Len(b) /\ Len(a) + (n - Len(a)) = n)
    BY <1>2, <1>3
  <2>2. \A n \in 1..Len(a) : n \in 1..Len(c)
    BY <1>2, <1>3
  <2>3. \A n \in 1..Len(b) : Len(a) + n \in 1..Len(c)
    BY <1>2, <1>3
  <2>4. \A n \in 1..Len(c) : c[n] \in {a[k] : k \in 1..Len(a)} \cup {b[k] : k \in 1..Len(b)}
    BY <1>3, <2>1
  <2>5. \A n \in 1..Len(a) : a[n] \in {c[k] : k \in 1..Len(c)}
    BY <1>3, <2>2
  <2>6. \A n \in 1..Len(b) : b[n] \in {c[k] : k \in 1..Len(c)}
    BY <1>3, <2>3
  <2> QED
    BY <1>4, <2>4, <2>5, <2>6
<1> QED
  BY <1>3, <1>5, <1>6 DEF Joined, Runs, InRun, a, b, c

(* A table after one step: held without the runs R, with the runs N, which *)
(* are at most one.                                                        *)
LEMMA ReplacedFits ==
  ASSUME NEW held, IsFiniteSet(held), Cardinality(held) <= MaxItemNum,
         NEW r \in held, NEW R, r \in R, NEW j
  PROVE  /\ IsFiniteSet((held \ R) \cup {j})
         /\ Cardinality((held \ R) \cup {j}) <= MaxItemNum
<1>1. IsFiniteSet(held \ {r}) /\ Cardinality(held \ {r}) = Cardinality(held) - 1
  BY FS_RemoveElement
<1>2. held \ R \in SUBSET (held \ {r})
  OBVIOUS
<1>3. IsFiniteSet(held \ R) /\ Cardinality(held \ R) <= Cardinality(held) - 1
  BY <1>1, <1>2, FS_Subset
<1>4. /\ IsFiniteSet((held \ R) \cup {j})
      /\ \/ Cardinality((held \ R) \cup {j}) = Cardinality(held \ R)
         \/ Cardinality((held \ R) \cup {j}) = Cardinality(held \ R) + 1
  BY <1>3, FS_AddElement
<1>5. Cardinality(held) \in Nat /\ Cardinality(held \ R) \in Nat
  BY <1>3, FS_CardinalityType
<1> QED
  BY <1>3, <1>4, <1>5, ApiAssumption

(* Tables that are well formed stay so when a run is hurried, and when the *)
(* packet is handled.                                                      *)
Fits(h) == h \subseteq Runs /\ IsFiniteSet(h) /\ Cardinality(h) <= MaxItemNum

LEMMA PreparedFits ==
  ASSUME NEW T, NEW held, Fits(held), NEW p, NEW h, h = held \/ HurriedIn(T, held, p, h)
  PROVE  Fits(h)
<1>1. CASE h = held
  BY <1>1
<1>2. CASE HurriedIn(T, held, p, h)
  <2>1. PICK r \in held : h = (held \ {r}) \cup {Hurried(r)}
    BY <1>2 DEF HurriedIn
  <2> DEFINE j == Hurried(r)
             R == {r}
  <2>2. j \in Runs /\ held \subseteq Runs /\ IsFiniteSet(held) /\ Cardinality(held) <= MaxItemNum
    BY HurriedIsRun DEF Fits
  <2>3. r \in R /\ h = (held \ R) \cup {j}
    BY <2>1
  <2> HIDE DEF j, R
  <2>4. IsFiniteSet((held \ R) \cup {j}) /\ Cardinality((held \ R) \cup {j}) <= MaxItemNum
    BY ONLY <2>1, <2>2, <2>3, ReplacedFits
  <2>5. h \subseteq Runs
    BY <2>2, <2>3
  <2> QED
    BY <2>3, <2>4, <2>5 DEF Fits
<1> QED
  BY <1>1, <1>2

LEMMA HandledFits ==
  ASSUME NEW h, Fits(h), NEW x \in Runs, NEW o, Handled(o, h, x, MaxItemNum)
  PROVE  Fits(o.held)
<1>1. h \subseteq Runs /\ IsFiniteSet(h) /\ Cardinality(h) <= MaxItemNum /\ x.time \in 0..MaxTime
  BY DEF Fits, Runs
<1>2. CASE o.held = h
  BY <1>2
<1>3. CASE o.held = h \cup {x} /\ Cardinality(h) # MaxItemNum
  <2>1. Cardinality(h) \in Nat
    BY <1>1, FS_CardinalityType
  <2>2. /\ IsFiniteSet(h \cup {x})
        /\ \/ Cardinality(h \cup {x}) = Cardinality(h)
           \/ Cardinality(h \cup {x}) = Cardinality(h) + 1
    BY <1>1, FS_AddElement
  <2>3. Cardinality(h \cup {x}) <= MaxItemNum
    BY <1>1, <1>3, <2>1, <2>2, ApiAssumption
  <2>4. h \cup {x} \subseteq Runs
    BY <1>1
  <2> QED
    BY <1>3, <2>2, <2>3, <2>4 DEF Fits
<1>4. ASSUME NEW r \in h, NEW j \in {Joined(r, x, r.time), Joined(x, r, r.time)},
             o.held = (h \ {r}) \cup {j}
      PROVE  Fits(o.held)
  <2> DEFINE R == {r}
  <2>1. r \in Runs /\ r.time \in 0..MaxTime
    BY <1>1 DEF Runs
  <2>2. j \in Runs
    <3>1. Joined(r, x, r.time) \in Runs /\ Joined(x, r, r.time) \in Runs
      BY <2>1, JoinedIsRun
    <3> QED
      BY <1>4, <3>1
  <2>3. r \in R /\ o.held = (h \ R) \cup {j}
    BY <1>4
  <2> HIDE DEF R
  <2>4. IsFiniteSet((h \ R) \cup {j}) /\ Cardinality((h \ R) \cup {j}) <= MaxItemNum
    BY ONLY <1>1, <1>4, <2>3, ReplacedFits
  <2>5. o.held \subseteq Runs
    BY <1>1, <2>2, <2>3
  <2> QED
    BY <2>3, <2>4, <2>5 DEF Fits
<1>5. \/ o = [ret |-> -1, held |-> h]
      \/ o = [ret |-> 0, held |-> h \cup {x}] /\ Cardinality(h) # MaxItemNum
      \/ \E r \in h : o = [ret |-> 1, held |-> (h \ {r}) \cup {Joined(r, x, r.time)}]
      \/ \E r \in h : o = [ret |-> 1, held |-> (h \ {r}) \cup {Joined(x, r, r.time)}]
  BY DEF Handled
<1> QED
  BY <1>2, <1>3, <1>4, <1>5

LEMMA OutcomeFits ==
  ASSUME NEW T, NEW held, Fits(held), NEW p \in Pkts, NEW time \in 0..MaxTime,
         NEW o \in ReassembleOutcomes(T, held, p, time, MaxItemNum)
  PROVE  Fits(o.held)
<1> DEFINE x == Run(p, time)
<1>1. x \in Runs
  BY RunIsRun
<1>2. CASE o = [ret |-> -1, held |-> held]
  BY <1>2
<1>3. ASSUME Takes(T, p), NEW h \in Prepared(held, p), Handled(o, h, x, MaxItemNum)
      PROVE  Fits(o.held)
  <2>1. Fits(h)
    <3>1. h = held \/ HurriedIn(T, held, p, h)
      BY <1>3, PreparedIs
    <3> QED
      BY <3>1, PreparedFits
  <2> HIDE DEF x
  <2> QED
    BY <1>1, <1>3, <2>1, HandledFits
<1> QED
  BY <1>2, <1>3, Outcome

LEMMA TypeOrderIs ==
  /\ Len(TypeOrder) = 7 /\ DOMAIN TypeOrder = 1..7
  /\ \A m, n \in 1..7 : TypeOrder[m] = TypeOrder[n] => m = n
  /\ \A n \in 1..7 : TypeOrder[n] \in GroType /\ (TypeOrder[n] \in FromStart <=> n \in {1, 3})
  /\ \A T \in GroType : \E n \in 1..7 : T = TypeOrder[n]
<1>1. Len(TypeOrder) = 7 /\ DOMAIN TypeOrder = 1..7
  BY DEF TypeOrder
<1>2. \A n \in 1..7 : n = 1 \/ n = 2 \/ n = 3 \/ n = 4 \/ n = 5 \/ n = 6 \/ n = 7
  OBVIOUS
<1>3. /\ TypeOrder[1] = "VXLAN_TCP" /\ TypeOrder[2] = "VXLAN_UDP" /\ TypeOrder[3] = "GTP_TCP"
      /\ TypeOrder[4] = "GTP_UDP" /\ TypeOrder[5] = "TCP4" /\ TypeOrder[6] = "UDP4"
      /\ TypeOrder[7] = "TCP6"
  BY DEF TypeOrder
<1>4. \A m, n \in 1..7 : TypeOrder[m] = TypeOrder[n] => m = n
  BY <1>2, <1>3
<1>5. \A n \in 1..7 : TypeOrder[n] \in FromStart <=> n \in {1, 3}
  BY <1>2, <1>3 DEF FromStart
<1> QED
  BY <1>1, <1>4, <1>5 DEF GroType

LEMMA WrittenAt ==
  ASSUME NEW s \in Seq(Runs), NEW n \in 1..(Len(s) + 1), NEW r \in Runs
  PROVE  /\ PutAt(s, n, r) \in Seq(Runs)
         /\ Len(PutAt(s, n, r)) = IF n > Len(s) THEN n ELSE Len(s)
         /\ n = Len(s) + 1 => PutAt(s, n, r) = Append(s, r)
<1> DEFINE l == IF n > Len(s) THEN n ELSE Len(s)
           u == [m \in 1..l |-> IF m = n THEN r ELSE s[m]]
<1>1. l \in Nat /\ \A m \in 1..l : m = n \/ m \in 1..Len(s)
  OBVIOUS
<1>2. \A m \in 1..l : (IF m = n THEN r ELSE s[m]) \in Runs
  BY <1>1
<1>3. u \in [1..l -> Runs]
  BY <1>2
<1>4. u \in Seq(Runs) /\ Len(u) = l
  BY <1>1, <1>3
<1>5. n = Len(s) + 1 => u = Append(s, r)
  <2> SUFFICES ASSUME n = Len(s) + 1  PROVE u = Append(s, r)
    OBVIOUS
  <2>1. l = Len(s) + 1 /\ Append(s, r) \in Seq(Runs) /\ Len(Append(s, r)) = Len(s) + 1
    OBVIOUS
  <2>2. \A m \in 1..l : u[m] = Append(s, r)[m]
    BY <2>1
  <2>3. u \in [1..l -> Runs] /\ Append(s, r) \in [1..l -> Runs]
    <3>1. \A q \in Seq(Runs) : q \in [1..Len(q) -> Runs]
      OBVIOUS
    <3> HIDE DEF u, l
    <3> QED
      BY <1>3, <2>1, <3>1
  <2> QED
    BY <2>2, <2>3
<1> QED
  BY <1>4, <1>5 DEF PutAt

-----------------------------------------------------------------------------
(* Type correctness.                                                       *)

CallsFlush == call # NULL /\ call.api = "flush"

TablesFit ==
  /\ tbls \in [GroType -> SUBSET Runs]
  /\ \A T \in GroType : IsFiniteSet(tbls[T]) /\ Cardinality(tbls[T]) <= MaxItemNum

IdleIsEmpty == call = NULL => arr = <<>>

(* The loop over a burst stays in the array, and gives back less than it   *)
(* has looked at.                                                          *)
LoopInArray == InReassemble => call.unprocess_num < call.i /\ call.i <= Len(arr) + 1

(* What has been written is in the array without a gap; a flush of a type  *)
(* that has written has not been left.                                     *)
WrittenInArray ==
  CallsFlush =>
    /\ call.num <= Len(arr) /\ call.k <= Len(arr)
    /\ call.t \notin {1, 3} => call.num + call.k <= Len(arr)
    /\ call.k > 0 => call.t <= 7 /\ Entered

TypeInv == TypeOK /\ TablesFit /\ IdleIsEmpty /\ LoopInArray /\ WrittenInArray

LEMMA CallIs ==
  ASSUME TypeOK
  PROVE  /\ InReassemble => call \in ReassembleLocals
         /\ CallsFlush => call \in FlushLocals
         /\ call \in ReassembleLocals => InReassemble /\ ~CallsFlush
         /\ call \in FlushLocals => CallsFlush /\ ~InReassemble
  BY NullAssumption DEF TypeOK, InReassemble, CallsFlush, ReassembleLocals, FlushLocals

LEMMA LeftFits ==
  ASSUME NEW max \in NbOut, NEW num \in Nat
  PROVE  /\ max \in Nat /\ LeftNbOut(max, num) \in Nat
         /\ num <= max => LeftNbOut(max, num) = max - num
<1>1. CountRange \in Nat \ {0} /\ max \in 0..(CountRange - 1)
  BY ApiAssumption
<1>2. max - num \in Int
  BY <1>1
<1>3. (max - num) % CountRange \in 0..(CountRange - 1)
  BY <1>1, <1>2
<1>4. num <= max => (max - num) % CountRange = max - num
  BY <1>1
<1> QED
  BY <1>1, <1>3, <1>4 DEF LeftNbOut

LEMMA TypeDoneIs ==
  ASSUME call \in FlushLocals, call.t \in 1..7, NEW k \in Nat
  PROVE  LET c == TypeDone(k)
             n == IF Flushing \in FromStart THEN k ELSE call.num + k
         IN  /\ c \in FlushLocals
             /\ c.t = call.t + 1 /\ c.k = 0 /\ c.num = n
             /\ c.left_nb_out = LeftNbOut(call.max_nb_out, n)
             /\ c.max_nb_out = call.max_nb_out /\ c.types = call.types
             /\ c.timeout_cycles = call.timeout_cycles
             /\ c.flush_timestamp = call.flush_timestamp
<1> DEFINE n == IF Flushing \in FromStart THEN k ELSE call.num + k
<1>1. n \in Nat /\ call.max_nb_out \in NbOut
  BY DEF FlushLocals
<1>2. LeftNbOut(call.max_nb_out, n) \in Nat
  BY <1>1, LeftFits
<1>3. call.t + 1 \in 1..(Len(TypeOrder) + 1)
  BY TypeOrderIs
<1> HIDE DEF n
<1> DEFINE c == [call EXCEPT !.t = call.t + 1, !.k = 0, !.num = n,
                             !.left_nb_out = LeftNbOut(call.max_nb_out, n)]
<1>4. /\ c \in FlushLocals
      /\ c.t = call.t + 1 /\ c.k = 0 /\ c.num = n
      /\ c.left_nb_out = LeftNbOut(call.max_nb_out, n)
      /\ c.max_nb_out = call.max_nb_out /\ c.types = call.types
      /\ c.timeout_cycles = call.timeout_cycles
      /\ c.flush_timestamp = call.flush_timestamp
  BY <1>1, <1>2, <1>3 DEF FlushLocals
<1>5. TypeDone(k) = c
  BY DEF TypeDone, n, c
<1> HIDE DEF c
<1> QED
  BY <1>4, <1>5 DEF n

(* The locals after one more packet of a type.                             *)
LEMMA OneMoreIs ==
  ASSUME call \in FlushLocals, NEW k \in Nat
  PROVE  LET c == [call EXCEPT !.k = k]
         IN  /\ c \in FlushLocals /\ c.k = k
             /\ c.t = call.t /\ c.num = call.num /\ c.left_nb_out = call.left_nb_out
             /\ c.max_nb_out = call.max_nb_out /\ c.types = call.types
             /\ c.timeout_cycles = call.timeout_cycles
             /\ c.flush_timestamp = call.flush_timestamp
  BY DEF FlushLocals

LEMMA NextTypeIs ==
  ASSUME call \in FlushLocals, call.t \in 1..7
  PROVE  LET c == [call EXCEPT !.t = call.t + 1]
         IN  /\ c \in FlushLocals /\ c.t = call.t + 1
             /\ c.k = call.k /\ c.num = call.num /\ c.left_nb_out = call.left_nb_out
             /\ c.max_nb_out = call.max_nb_out /\ c.types = call.types
             /\ c.timeout_cycles = call.timeout_cycles
             /\ c.flush_timestamp = call.flush_timestamp
  BY TypeOrderIs DEF FlushLocals

LEMMA InitTypeInv == Init => TypeInv
<1> SUFFICES ASSUME Init  PROVE TypeInv
  OBVIOUS
<1>1. \A T \in GroType : tbls[T] = {}
  BY DEF Init
<1>2. \A T \in GroType : IsFiniteSet(tbls[T]) /\ Cardinality(tbls[T]) <= MaxItemNum
  <2>1. IsFiniteSet({}) /\ Cardinality({}) = 0 /\ 0 <= MaxItemNum
    BY FS_EmptySet, ApiAssumption
  <2> QED
    BY <1>1, <2>1
<1>3. tbls \in [GroType -> SUBSET Runs] /\ DOMAIN tbls = GroType
  BY DEF Init
<1>4. TypeOK
  BY <1>1, <1>2, <1>3, ApiAssumption DEF Init, TypeOK
<1>5. TablesFit
  BY <1>2, <1>3 DEF TablesFit
<1> QED
  BY <1>4, <1>5 DEF TypeInv, Init, IdleIsEmpty, LoopInArray, WrittenInArray, InReassemble, CallsFlush

(* One table is exchanged for another.                                     *)
LEMMA TablesStayFit ==
  ASSUME TablesFit, NEW T \in GroType, NEW held, held \subseteq Runs,
         IsFiniteSet(held), Cardinality(held) <= MaxItemNum,
         tbls' = [tbls EXCEPT ![T] = held]
  PROVE  TablesFit' /\ DOMAIN tbls' = GroType
<1>1. tbls' \in [GroType -> SUBSET Runs] /\ DOMAIN tbls' = GroType
  BY DEF TablesFit
<1>2. \A U \in GroType : tbls'[U] = IF U = T THEN held ELSE tbls[U]
  BY DEF TablesFit
<1>3. \A U \in GroType : IsFiniteSet(tbls'[U]) /\ Cardinality(tbls'[U]) <= MaxItemNum
  BY <1>2 DEF TablesFit
<1> QED
  BY <1>1, <1>3 DEF TablesFit

LEMMA TickTypeInv == TypeInv /\ Tick => TypeInv'
<1> SUFFICES ASSUME TypeInv, Tick  PROVE TypeInv'
  OBVIOUS
<1>1. UNCHANGED <<tbls, arr, call, offered, arrived, back, got>> /\ call = NULL
  BY DEF Tick
<1>2. now' \in 0..MaxTime
  BY ApiAssumption DEF TypeInv, TypeOK, Tick
<1>3. TypeOK' /\ TablesFit' /\ IdleIsEmpty' /\ LoopInArray' /\ ~CallsFlush'
  BY <1>1, <1>2 DEF TypeInv, TypeOK, TablesFit, IdleIsEmpty, LoopInArray, InReassemble, CallsFlush
<1> QED
  BY <1>3 DEF TypeInv, WrittenInArray

LEMMA ReassembleCallTypeInv ==
  ASSUME TypeInv, NEW b \in Bursts(Pkts \ offered), ReassembleCall(b)
  PROVE  TypeInv'
<1>1. PICK n \in 1..MaxBurst : b \in [1..n -> Pkts]
  BY DEF Bursts
<1>2. n \in Nat /\ DOMAIN b = 1..n
  BY <1>1, ApiAssumption
<1>3. \A m \in 1..n : Run(b[m], now) \in Runs
  BY <1>1, RunIsRun DEF TypeInv, TypeOK
<1>4. arr' \in [1..n -> Runs]
  BY <1>2, <1>3 DEF ReassembleCall
<1>5. arr' \in Seq(Runs) /\ Len(arr') = n
  BY <1>2, <1>4
<1>6. /\ call' \in ReassembleLocals /\ call'.i = 1 /\ call'.unprocess_num = 0
      /\ UNCHANGED <<tbls, now, offered, arrived, back, got>>
  BY DEF ReassembleCall, ReassembleLocals, TypeInv, TypeOK
<1>7. TypeOK'
  BY <1>5, <1>6 DEF TypeInv, TypeOK
<1>8. ~CallsFlush' /\ call' # NULL
  BY <1>6, NullAssumption DEF CallsFlush, ReassembleLocals
<1>9. TablesFit'
  BY <1>6 DEF TablesFit, TypeInv
<1> QED
  BY <1>2, <1>5, <1>6, <1>7, <1>8, <1>9 DEF TypeInv, IdleIsEmpty, LoopInArray, WrittenInArray

(* What a turn of the loop over the burst does.                            *)
LEMMA ReassemblePktIs ==
  ASSUME TypeInv, ReassemblePkt
  PROVE  LET p == arr[call.i].pkts[1]
         IN  /\ call \in ReassembleLocals /\ call.i \in 1..Len(arr)
             /\ arr[call.i] \in Runs /\ p \in Pkts
             /\ offered' = offered \cup {p} /\ arrived' = [arrived EXCEPT ![p] = now]
             /\ UNCHANGED <<now, got>>
             /\ \/ /\ DispatchTo(p, GroTypes) = {} /\ Returned(p) /\ UNCHANGED tbls
                \/ \E T \in GroType :
                   \E o \in ReassembleOutcomes(T, tbls[T], p, call.current_time, MaxItemNum) :
                      /\ T \in GroTypes /\ tbls' = [tbls EXCEPT ![T] = o.held]
                      /\ \/ o.ret < 0 /\ Returned(p)
                         \/ /\ o.ret >= 0 /\ call' = [call EXCEPT !.i = call.i + 1]
                            /\ UNCHANGED <<arr, back>>
<1>1. call \in ReassembleLocals
  BY CallIs DEF ReassemblePkt, TypeInv
<1>2. call.i \in 1..Len(arr) /\ arr \in Seq(Runs)
  BY <1>1 DEF ReassemblePkt, TypeInv, TypeOK, ReassembleLocals
<1>3. arr[call.i] \in Runs
  BY <1>2
<1>4. arr[call.i].pkts[1] \in Pkts
  BY <1>3 DEF Runs
<1>5. \A p : DispatchTo(p, GroTypes) \subseteq GroType /\ DispatchTo(p, GroTypes) \subseteq GroTypes
  BY DEF DispatchTo, GroType
<1> QED
  BY <1>1, <1>2, <1>3, <1>4, <1>5 DEF ReassemblePkt

LEMMA GivenBack ==
  ASSUME call \in ReassembleLocals
  PROVE  LET c == [call EXCEPT !.i = call.i + 1, !.unprocess_num = call.unprocess_num + 1]
         IN  /\ c \in ReassembleLocals /\ c.i = call.i + 1
             /\ c.unprocess_num = call.unprocess_num + 1 /\ c.current_time = call.current_time
<1> DEFINE i == call.i + 1
           u == call.unprocess_num + 1
<1>1. i \in Nat \ {0} /\ u \in Nat
  BY DEF ReassembleLocals
<1> HIDE DEF i, u
<1> DEFINE c == [call EXCEPT !.i = i, !.unprocess_num = u]
<1>2. c \in ReassembleLocals /\ c.i = i /\ c.unprocess_num = u /\ c.current_time = call.current_time
  BY <1>1 DEF ReassembleLocals
<1> QED
  BY <1>2 DEF i, u

LEMMA ReassemblePktTypeInv == TypeInv /\ ReassemblePkt => TypeInv'
<1> SUFFICES ASSUME TypeInv, ReassemblePkt  PROVE TypeInv'
  OBVIOUS
<1> DEFINE p == arr[call.i].pkts[1]
<1>1. /\ call \in ReassembleLocals /\ call.i \in 1..Len(arr) /\ arr[call.i] \in Runs
      /\ p \in Pkts /\ offered' = offered \cup {p} /\ UNCHANGED <<now, got>>
  BY ReassemblePktIs
<1>2. /\ arr \in Seq(Runs) /\ back \subseteq offered /\ offered \subseteq Pkts
      /\ call.unprocess_num < call.i /\ call.current_time \in 0..MaxTime
  BY <1>1, CallIs DEF TypeInv, TypeOK, LoopInArray, ReassembleLocals
<1>3. /\ call' \in ReassembleLocals /\ call'.unprocess_num < call'.i /\ call'.i <= Len(arr') + 1
      /\ arr' \in Seq(Runs) /\ back' \subseteq offered'
  <2>1. CASE Returned(p)
    <3>1. call.unprocess_num + 1 \in 1..Len(arr)
      BY <1>1, <1>2 DEF ReassembleLocals
    <3>2. arr' \in Seq(Runs) /\ Len(arr') = Len(arr)
      BY <1>1, <1>2, <2>1, <3>1 DEF Returned
    <3>3. /\ call' \in ReassembleLocals /\ call'.i = call.i + 1
          /\ call'.unprocess_num = call.unprocess_num + 1
      BY <1>1, <2>1, GivenBack DEF Returned
    <3>4. back' \subseteq offered'
      BY <1>1, <1>2, <2>1 DEF Returned
    <3> QED
      BY <1>1, <1>2, <3>2, <3>3, <3>4 DEF ReassembleLocals
  <2>2. CASE call' = [call EXCEPT !.i = call.i + 1] /\ UNCHANGED <<arr, back>>
    <3>1. /\ call' \in ReassembleLocals /\ call'.i = call.i + 1
          /\ call'.unprocess_num = call.unprocess_num
      BY <1>1, <2>2 DEF ReassembleLocals
    <3> QED
      BY <1>1, <1>2, <2>2, <3>1 DEF ReassembleLocals
  <2> QED
    BY <2>1, <2>2, ReassemblePktIs
<1>4. TablesFit' /\ DOMAIN tbls' = GroType
  <2>1. CASE UNCHANGED tbls
    BY <2>1 DEF TypeInv, TablesFit, TypeOK
  <2>2. ASSUME NEW T \in GroType,
               NEW o \in ReassembleOutcomes(T, tbls[T], p, call.current_time, MaxItemNum),
               tbls' = [tbls EXCEPT ![T] = o.held]
        PROVE  TablesFit' /\ DOMAIN tbls' = GroType
    <3> DEFINE h == tbls[T]
    <3>1. Fits(h)
      BY DEF TypeInv, TablesFit, Fits
    <3>2. o \in ReassembleOutcomes(T, h, p, call.current_time, MaxItemNum)
      OBVIOUS
    <3> HIDE DEF h, p
    <3>3. Fits(o.held)
      BY <1>1, <1>2, <3>1, <3>2, OutcomeFits
    <3>4. o.held \subseteq Runs /\ IsFiniteSet(o.held) /\ Cardinality(o.held) <= MaxItemNum
      BY <3>3 DEF Fits
    <3> QED
      BY <2>2, <3>4, TablesStayFit DEF TypeInv
  <2> QED
    BY <2>1, <2>2, ReassemblePktIs
<1>5. TypeOK'
  <2>1. \A T \in GroType : tbls'[T] \subseteq Runs /\ Cardinality(tbls'[T]) <= MaxItemNum
    BY <1>4 DEF TablesFit
  <2>2. now' \in 0..MaxTime /\ got' \in Seq(Runs) /\ offered' \subseteq Pkts
    BY <1>1, <1>2 DEF TypeInv, TypeOK
  <2>3. arrived' \in [Pkts -> 0..MaxTime]
    <3>1. arrived' = [arrived EXCEPT ![p] = now]
      BY ReassemblePktIs
    <3> QED
      BY <3>1 DEF TypeInv, TypeOK
  <2> QED
    BY <1>3, <1>4, <2>1, <2>2, <2>3 DEF TypeOK
<1>6. call' # NULL /\ ~CallsFlush'
  BY <1>3, NullAssumption DEF CallsFlush, ReassembleLocals
<1> QED
  BY <1>3, <1>4, <1>5, <1>6 DEF TypeInv, IdleIsEmpty, LoopInArray, WrittenInArray

LEMMA ReassembleReturnTypeInv == TypeInv /\ ReassembleReturn => TypeInv'
<1> SUFFICES ASSUME TypeInv, ReassembleReturn  PROVE TypeInv'
  OBVIOUS
<1>1. call' = NULL /\ arr' = <<>> /\ UNCHANGED <<tbls, now, offered, arrived, back, got>>
  BY DEF ReassembleReturn
<1>2. arr' \in Seq(Runs)
  BY <1>1
<1>3. TypeOK' /\ TablesFit'
  BY <1>1, <1>2 DEF TypeInv, TypeOK, TablesFit
<1> QED
  BY <1>1, <1>3 DEF TypeInv, IdleIsEmpty, LoopInArray, WrittenInArray, InReassemble, CallsFlush

LEMMA FlushCallTypeInv ==
  ASSUME TypeInv, NEW timeout \in Timeouts, NEW n \in NbOut, NEW types \in {GroType, UdpTypes},
         FlushCall(timeout, types, n)
  PROVE  /\ TypeInv' /\ call' \in FlushLocals
         /\ call'.t = 1 /\ call'.k = 0 /\ call'.num = 0
         /\ call'.left_nb_out = n /\ call'.max_nb_out = n
         /\ call'.types = types \cap GroTypes /\ call'.timeout_cycles = timeout
         /\ call'.flush_timestamp = FlushTimestamp(timeout)
         /\ arr' = <<>> /\ UNCHANGED <<tbls, now, arr, offered, arrived, back, got>>
<1>1. FlushTimestamp(timeout) \in 0..(ClockRange - 1)
  <2>1. now \in Int /\ timeout \in Int /\ ClockRange \in Nat \ {0}
    BY ApiAssumption DEF TypeInv, TypeOK
  <2>2. now - timeout \in Int
    BY <2>1
  <2> QED
    BY <2>1, <2>2 DEF FlushTimestamp
<1>2. n \in Nat /\ 1 \in 1..(Len(TypeOrder) + 1) /\ types \cap GroTypes \in SUBSET GroTypes
  BY ApiAssumption, TypeOrderIs
<1>3. /\ call' \in FlushLocals
      /\ call'.t = 1 /\ call'.k = 0 /\ call'.num = 0
      /\ call'.left_nb_out = n /\ call'.max_nb_out = n
      /\ call'.types = types \cap GroTypes /\ call'.timeout_cycles = timeout
      /\ call'.flush_timestamp = FlushTimestamp(timeout)
  BY <1>1, <1>2 DEF FlushCall, FlushLocals
<1>4. UNCHANGED <<tbls, now, arr, offered, arrived, back, got>> /\ call = NULL
  BY DEF FlushCall
<1>5. arr' = <<>> /\ Len(arr') = 0
  BY <1>4 DEF TypeInv, IdleIsEmpty
<1>6. TypeOK' /\ TablesFit'
  BY <1>3, <1>4 DEF TypeInv, TypeOK, TablesFit
<1>7. ~InReassemble' /\ call' # NULL
  BY <1>3, NullAssumption DEF InReassemble, FlushLocals
<1>8. WrittenInArray'
  BY <1>3, <1>5 DEF WrittenInArray
<1> QED
  BY <1>3, <1>4, <1>5, <1>6, <1>7, <1>8 DEF TypeInv, IdleIsEmpty, LoopInArray

(* The call in progress while a type is flushed.                           *)
LEMMA InFlushIs ==
  ASSUME TypeInv, InFlush
  PROVE  /\ call \in FlushLocals /\ CallsFlush /\ call.t \in 1..7 /\ call.k \in Nat /\ call.num \in Nat
         /\ call.left_nb_out \in Nat /\ call.max_nb_out \in Nat
         /\ Flushing \in GroType /\ (Flushing \in FromStart <=> call.t \in {1, 3})
         /\ arr \in Seq(Runs) /\ Len(arr) \in Nat
         /\ call.num <= Len(arr) /\ call.k <= Len(arr)
         /\ call.t \notin {1, 3} => call.num + call.k <= Len(arr)
         /\ call.k > 0 => Entered
<1>1. CallsFlush /\ call \in FlushLocals
  BY CallIs DEF InFlush, CallsFlush, TypeInv
<1>2. call.t \in 1..7
  BY <1>1, TypeOrderIs DEF InFlush, FlushLocals
<1>3. Flushing \in GroType /\ (Flushing \in FromStart <=> call.t \in {1, 3})
  BY <1>2, TypeOrderIs DEF Flushing
<1>4. arr \in Seq(Runs) /\ Len(arr) \in Nat
  BY DEF TypeInv, TypeOK
<1>5. call.max_nb_out \in Nat
  <2>1. call.max_nb_out \in NbOut
    BY <1>1 DEF FlushLocals
  <2> QED
    BY <2>1, LeftFits
<1> QED
  BY <1>1, <1>2, <1>3, <1>4, <1>5 DEF TypeInv, WrittenInArray, FlushLocals

(* The conjuncts that a step inside a flush can disturb.                   *)
LEMMA FlushStepTypeInv ==
  ASSUME TypeInv, call' \in FlushLocals, TablesFit', DOMAIN tbls' = GroType,
         arr' \in Seq(Runs), WrittenInArray', UNCHANGED <<now, offered, arrived, back, got>>
  PROVE  TypeInv'
<1>1. TypeOK'
  BY DEF TypeInv, TypeOK, TablesFit
<1>2. ~InReassemble' /\ call' # NULL
  BY NullAssumption DEF InReassemble, FlushLocals
<1> QED
  BY <1>1, <1>2 DEF TypeInv, IdleIsEmpty, LoopInArray

LEMMA FlushSkipTypeInv == TypeInv /\ FlushSkip => TypeInv'
<1> SUFFICES ASSUME TypeInv, FlushSkip  PROVE TypeInv'
  OBVIOUS
<1>1. InFlush /\ ~Entered
  BY DEF FlushSkip
<1>2. call \in FlushLocals /\ call.t \in 1..7 /\ call.k \in Nat /\ ~(call.k > 0)
      /\ call.num <= Len(arr) /\ call.num \in Nat /\ arr \in Seq(Runs)
  BY <1>1, InFlushIs
<1>3. /\ call' \in FlushLocals /\ call'.k = call.k /\ call'.num = call.num
      /\ UNCHANGED <<tbls, now, arr, offered, arrived, back, got>>
  BY <1>2, NextTypeIs DEF FlushSkip
<1>4. WrittenInArray'
  BY <1>2, <1>3 DEF WrittenInArray
<1>5. TablesFit' /\ DOMAIN tbls' = GroType
  BY <1>3 DEF TypeInv, TypeOK, TablesFit
<1> QED
  BY <1>2, <1>3, <1>4, <1>5, FlushStepTypeInv

(* Two runs united by the flush of a UDP type.                             *)
LEMMA FlushUniteIs ==
  ASSUME FlushUnite
  PROVE  \E r, s \in tbls[Flushing] :
            /\ Mergeable(r, s) /\ IsDue(r, call.flush_timestamp)
            /\ tbls' = [tbls EXCEPT ![Flushing] = (tbls[Flushing] \ {r, s}) \cup {Joined(r, s, r.time)}]
<1>1. PICK held \in UniteOutcomes(Flushing, tbls[Flushing], call.flush_timestamp) :
         tbls' = [tbls EXCEPT ![Flushing] = held]
  BY DEF FlushUnite
<1>2. \E r, s \in tbls[Flushing] : /\ Mergeable(r, s) /\ IsDue(r, call.flush_timestamp)
                                   /\ held = (tbls[Flushing] \ {r, s}) \cup {Joined(r, s, r.time)}
  BY <1>1 DEF UniteOutcomes
<1> QED
  BY <1>1, <1>2

LEMMA FlushUniteTypeInv == TypeInv /\ FlushUnite => TypeInv'
<1> SUFFICES ASSUME TypeInv, FlushUnite  PROVE TypeInv'
  OBVIOUS
<1>1. InFlush /\ UNCHANGED <<now, arr, call, offered, arrived, back, got>>
  BY DEF FlushUnite
<1>2. call \in FlushLocals /\ Flushing \in GroType /\ arr \in Seq(Runs)
  BY <1>1, InFlushIs
<1>3. PICK r \in tbls[Flushing], s \in tbls[Flushing] :
         tbls' = [tbls EXCEPT ![Flushing] = (tbls[Flushing] \ {r, s}) \cup {Joined(r, s, r.time)}]
  BY FlushUniteIs
<1> DEFINE h == tbls[Flushing]
           j == Joined(r, s, r.time)
           R == {r, s}
<1>4. h \subseteq Runs /\ IsFiniteSet(h) /\ Cardinality(h) <= MaxItemNum /\ r \in R
  BY <1>2 DEF TypeInv, TablesFit
<1>5. r \in h /\ s \in h /\ r \in Runs /\ s \in Runs /\ r.time \in 0..MaxTime
  BY <1>3, <1>4 DEF Runs
<1>6. j \in Runs
  BY <1>5, JoinedIsRun
<1> HIDE DEF h, j, R
<1>7. IsFiniteSet((h \ R) \cup {j}) /\ Cardinality((h \ R) \cup {j}) <= MaxItemNum
  BY ONLY <1>4, <1>5, ReplacedFits
<1>8. (h \ R) \cup {j} \subseteq Runs
  BY <1>4, <1>6
<1>9. TablesFit' /\ DOMAIN tbls' = GroType
  <2>1. tbls' = [tbls EXCEPT ![Flushing] = (h \ R) \cup {j}]
    BY <1>3 DEF h, j, R
  <2> QED
    BY <1>2, <1>7, <1>8, <2>1, TablesStayFit DEF TypeInv
<1>10. WrittenInArray'
  BY <1>1 DEF WrittenInArray, TypeInv, CallsFlush, Entered, Flushing
<1> QED
  BY <1>1, <1>2, <1>9, <1>10, FlushStepTypeInv

LEMMA FlushWriteIs ==
  ASSUME TypeInv, FlushWrite
  PROVE  LET base == IF Flushing \in FromStart THEN 0 ELSE call.num
         IN  /\ InFlush /\ Entered /\ UNCHANGED <<now, offered, arrived, back, got>>
             /\ base + (call.k + 1) \in 1..(Len(arr) + 1)
             /\ \E r \in tbls[Flushing] :
                   /\ IsDue(r, call.flush_timestamp)
                   /\ tbls' = [tbls EXCEPT ![Flushing] = tbls[Flushing] \ {r}]
                   /\ arr' = PutAt(arr, base + (call.k + 1), r)
             /\ \/ call.k + 1 = call.left_nb_out /\ call' = TypeDone(call.k + 1)
                \/ call.k + 1 # call.left_nb_out /\ call' = [call EXCEPT !.k = call.k + 1]
<1> DEFINE base == IF Flushing \in FromStart THEN 0 ELSE call.num
<1>1. InFlush /\ Entered /\ UNCHANGED <<now, offered, arrived, back, got>>
  BY DEF FlushWrite
<1>2. base + (call.k + 1) \in 1..(Len(arr) + 1)
  <2>1. /\ call.k \in Nat /\ call.num \in Nat /\ Len(arr) \in Nat /\ call.k <= Len(arr)
        /\ Flushing \notin FromStart => call.num + call.k <= Len(arr)
    BY <1>1, InFlushIs
  <2>2. CASE Flushing \in FromStart
    BY <2>1, <2>2
  <2>3. CASE Flushing \notin FromStart
    BY <2>1, <2>3
  <2> QED
    BY <2>2, <2>3
<1>3. \A r : r \in NextToWrite(Flushing, tbls[Flushing], call.flush_timestamp) =>
        r \in tbls[Flushing] /\ IsDue(r, call.flush_timestamp)
  BY DEF NextToWrite
<1>4. \E r \in tbls[Flushing] :
         /\ IsDue(r, call.flush_timestamp)
         /\ tbls' = [tbls EXCEPT ![Flushing] = tbls[Flushing] \ {r}]
         /\ arr' = PutAt(arr, base + (call.k + 1), r)
  BY <1>3 DEF FlushWrite
<1>5. \/ call.k + 1 = call.left_nb_out /\ call' = TypeDone(call.k + 1)
      \/ call.k + 1 # call.left_nb_out /\ call' = [call EXCEPT !.k = call.k + 1]
  BY DEF FlushWrite
<1> HIDE DEF base
<1> QED
  BY <1>1, <1>2, <1>4, <1>5 DEF base

LEMMA FlushWriteTypeInv == TypeInv /\ FlushWrite => TypeInv'
<1> SUFFICES ASSUME TypeInv, FlushWrite  PROVE TypeInv'
  OBVIOUS
<1> DEFINE base == IF Flushing \in FromStart THEN 0 ELSE call.num
           k    == call.k + 1
<1>1. InFlush /\ Entered /\ UNCHANGED <<now, offered, arrived, back, got>> /\ base + k \in 1..(Len(arr) + 1)
  BY FlushWriteIs
<1>2. PICK r \in tbls[Flushing] : /\ tbls' = [tbls EXCEPT ![Flushing] = tbls[Flushing] \ {r}]
                                 /\ arr' = PutAt(arr, base + k, r)
  BY FlushWriteIs
<1>3. /\ call \in FlushLocals /\ call.t \in 1..7 /\ call.k \in Nat /\ call.num \in Nat
      /\ Flushing \in GroType /\ (Flushing \in FromStart <=> call.t \in {1, 3})
      /\ arr \in Seq(Runs) /\ Len(arr) \in Nat
      /\ call.num <= Len(arr) /\ call.k <= Len(arr)
      /\ call.t \notin {1, 3} => call.num + call.k <= Len(arr)
  BY <1>1, InFlushIs
<1>4. /\ tbls[Flushing] \subseteq Runs /\ IsFiniteSet(tbls[Flushing])
      /\ Cardinality(tbls[Flushing]) <= MaxItemNum
  BY <1>3 DEF TypeInv, TablesFit
<1>5. r \in Runs
  BY <1>2, <1>4
<1>6. arr' \in Seq(Runs) /\ Len(arr') \in Nat /\ Len(arr') >= Len(arr) /\ Len(arr') >= base + k
  <2> DEFINE n == base + k
  <2>1. n \in 1..(Len(arr) + 1) /\ arr' = PutAt(arr, n, r)
    BY <1>1, <1>2
  <2> HIDE DEF n
  <2>2. arr' \in Seq(Runs) /\ Len(arr') = IF n > Len(arr) THEN n ELSE Len(arr)
    BY <1>3, <1>5, <2>1, WrittenAt
  <2>3. arr' \in Seq(Runs) /\ Len(arr') \in Nat /\ Len(arr') >= Len(arr) /\ Len(arr') >= n
    BY <1>3, <2>1, <2>2
  <2> QED
    BY <2>3 DEF n
<1>7. TablesFit' /\ DOMAIN tbls' = GroType
  <2> DEFINE h == tbls[Flushing] \ {r}
  <2>1. IsFiniteSet(h) /\ Cardinality(h) = Cardinality(tbls[Flushing]) - 1
    BY <1>2, <1>4, FS_RemoveElement
  <2>2. Cardinality(tbls[Flushing]) \in Nat
    BY <1>4, FS_CardinalityType
  <2>3. Cardinality(h) <= MaxItemNum /\ h \subseteq Runs
    BY <1>4, <2>1, <2>2, ApiAssumption
  <2>4. tbls' = [tbls EXCEPT ![Flushing] = h]
    BY <1>2
  <2> HIDE DEF h
  <2> QED
    BY <1>3, <2>1, <2>3, <2>4, TablesStayFit DEF TypeInv
<1>8. k \in Nat /\ base \in Nat
  BY <1>3
<1>9. CASE call' = TypeDone(k)
  <2> HIDE DEF k, base
  <2>1. /\ call' \in FlushLocals /\ call'.t = call.t + 1 /\ call'.k = 0
        /\ call'.num = IF Flushing \in FromStart THEN k ELSE call.num + k
    BY <1>3, <1>8, <1>9, TypeDoneIs
  <2>2. call'.num = base + k
    BY <1>8, <2>1 DEF base
  <2>3. WrittenInArray'
    BY <1>6, <1>8, <2>1, <2>2 DEF WrittenInArray
  <2> QED
    BY <1>1, <1>6, <1>7, <2>1, <2>3, FlushStepTypeInv
<1>10. CASE call' = [call EXCEPT !.k = k]
  <2> HIDE DEF k
  <2>1. /\ call' \in FlushLocals /\ call'.k = k /\ call'.t = call.t /\ call'.num = call.num
        /\ call'.left_nb_out = call.left_nb_out /\ call'.types = call.types
    BY <1>3, <1>8, <1>10, OneMoreIs
  <2>2. Entered'
    BY <1>1, <2>1 DEF Entered, Flushing
  <2>3. k <= Len(arr') /\ call.num <= Len(arr')
    BY <1>3, <1>6, <1>8
  <2>4. call.t \notin {1, 3} => call.num + k <= Len(arr')
    BY <1>3, <1>6
  <2>5. WrittenInArray'
    BY <1>3, <2>1, <2>2, <2>3, <2>4 DEF WrittenInArray
  <2> QED
    BY <1>1, <1>6, <1>7, <2>1, <2>5, FlushStepTypeInv
<1> QED
  BY <1>9, <1>10, FlushWriteIs

LEMMA FlushTypeDoneTypeInv == TypeInv /\ FlushTypeDone => TypeInv'
<1> SUFFICES ASSUME TypeInv, FlushTypeDone  PROVE TypeInv'
  OBVIOUS
<1>1. InFlush /\ call' = TypeDone(call.k) /\ UNCHANGED <<tbls, now, arr, offered, arrived, back, got>>
  BY DEF FlushTypeDone
<1>2. /\ call \in FlushLocals /\ call.t \in 1..7 /\ call.k \in Nat /\ call.num \in Nat
      /\ (Flushing \in FromStart <=> call.t \in {1, 3})
      /\ arr \in Seq(Runs) /\ Len(arr) \in Nat /\ call.k <= Len(arr)
      /\ call.t \notin {1, 3} => call.num + call.k <= Len(arr)
  BY <1>1, InFlushIs
<1>3. /\ call' \in FlushLocals /\ call'.t = call.t + 1 /\ call'.k = 0
      /\ call'.num = IF Flushing \in FromStart THEN call.k ELSE call.num + call.k
  BY <1>1, <1>2, TypeDoneIs
<1>4. WrittenInArray'
  BY <1>1, <1>2, <1>3 DEF WrittenInArray
<1>5. TablesFit' /\ DOMAIN tbls' = GroType
  BY <1>1 DEF TypeInv, TypeOK, TablesFit
<1> QED
  BY <1>1, <1>2, <1>3, <1>4, <1>5, FlushStepTypeInv

LEMMA FlushReturnTypeInv == TypeInv /\ FlushReturn => TypeInv'
<1> SUFFICES ASSUME TypeInv, FlushReturn  PROVE TypeInv'
  OBVIOUS
<1>1. /\ CallsFlush /\ got' = got \o SubSeq(arr, 1, call.num)
      /\ call' = NULL /\ arr' = <<>> /\ UNCHANGED <<tbls, now, offered, arrived, back>>
  BY DEF FlushReturn, CallsFlush
<1>2. call.num \in Nat /\ call.num <= Len(arr) /\ arr \in Seq(Runs) /\ got \in Seq(Runs)
  BY <1>1, CallIs DEF TypeInv, TypeOK, WrittenInArray, FlushLocals
<1>3. SubSeq(arr, 1, call.num) \in Seq(Runs)
  BY <1>2
<1>4. got' \in Seq(Runs) /\ arr' \in Seq(Runs)
  BY <1>1, <1>2, <1>3
<1>5. TypeOK' /\ TablesFit'
  BY <1>1, <1>4 DEF TypeInv, TypeOK, TablesFit
<1> QED
  BY <1>1, <1>5 DEF TypeInv, IdleIsEmpty, LoopInArray, WrittenInArray, InReassemble, CallsFlush

LEMMA NextTypeInv == TypeInv /\ [Next]_vars => TypeInv'
<1> SUFFICES ASSUME TypeInv, [Next]_vars  PROVE TypeInv'
  OBVIOUS
<1>1. CASE UNCHANGED vars
  BY <1>1 DEF vars, TypeInv, TypeOK, TablesFit, IdleIsEmpty, LoopInArray, WrittenInArray,
              InReassemble, CallsFlush, Entered, Flushing
<1>2. ASSUME NEW b \in Bursts(Pkts \ offered), ReassembleCall(b)  PROVE TypeInv'
  BY <1>2, ReassembleCallTypeInv
<1>3. ASSUME NEW timeout \in Timeouts, NEW n \in NbOut, NEW types \in {GroType, UdpTypes},
             FlushCall(timeout, types, n)
      PROVE  TypeInv'
  BY <1>3, FlushCallTypeInv
<1> QED
  BY <1>1, <1>2, <1>3, ReassemblePktTypeInv, ReassembleReturnTypeInv, FlushSkipTypeInv,
     FlushUniteTypeInv, FlushWriteTypeInv, FlushTypeDoneTypeInv, FlushReturnTypeInv, TickTypeInv
     DEF Next

LEMMA AlwaysTyped == Spec => []TypeInv
  BY InitTypeInv, NextTypeInv, PTL DEF Spec

(* Whatever the burst, the limit on out and the types asked for: the       *)
(* tables of all types stay within max_item_num, the packets of the array  *)
(* in use are packets, and the counters of a call are what their types     *)
(* allow (left_nb_out and flush_timestamp, which are results of unsigned   *)
(* subtractions, included).                                                *)
THEOREM TypeCorrect == Spec => []TypeOK
<1>1. TypeInv => TypeOK
  BY DEF TypeInv
<1> QED
  BY <1>1, AlwaysTyped, PTL

-----------------------------------------------------------------------------
(* The array of a burst.                                                   *)

(* Beyond CompactionSafe: what has not been looked at is single packets    *)
(* still, so that different entries hold different packets.                *)
BurstKept ==
  InReassemble => \A n \in call.i..Len(arr) : arr[n] = Run(arr[n].pkts[1], call.current_time)

BurstInv == TypeInv /\ BurstKept /\ CompactionSafe

LEMMA OutsideReassemble == ~InReassemble' => BurstKept' /\ CompactionSafe'
  BY DEF BurstKept, CompactionSafe

LEMMA ReassembleCallBurst ==
  ASSUME BurstInv, NEW b \in Bursts(Pkts \ offered), ReassembleCall(b)
  PROVE  BurstKept' /\ CompactionSafe'
<1>1. PICK n \in 1..MaxBurst :
         b \in [1..n -> Pkts \ offered] /\ \A i, j \in 1..n : b[i] = b[j] => i = j
  BY DEF Bursts
<1>2. n \in Nat /\ DOMAIN b = 1..n
  BY <1>1, ApiAssumption
<1>3. /\ call'.i = 1 /\ call'.unprocess_num = 0 /\ call'.current_time = now
      /\ arr' = [m \in 1..n |-> Run(b[m], now)] /\ offered' = offered
  BY <1>2 DEF ReassembleCall
<1>4. Len(arr') = n
  BY <1>2, <1>3
<1>5. \A m \in 1..n : arr'[m] = Run(b[m], now) /\ arr'[m].pkts[1] = b[m]
  BY <1>3 DEF Run
<1>6. \A m \in 1..n : b[m] \notin offered'
  BY <1>1, <1>3
<1>7. \A i, j \in 1..n : arr'[i] = arr'[j] => i = j
  BY <1>1, <1>5
<1> QED
  BY <1>3, <1>4, <1>5, <1>6, <1>7 DEF BurstKept, CompactionSafe

LEMMA ReassemblePktBurst ==
  ASSUME BurstInv, ReassemblePkt
  PROVE  BurstKept' /\ CompactionSafe'
<1> DEFINE p == arr[call.i].pkts[1]
           L == Len(arr)
<1>1. /\ call \in ReassembleLocals /\ call.i \in 1..L /\ arr \in Seq(Runs)
      /\ offered' = offered \cup {p} /\ InReassemble /\ call.unprocess_num < call.i
  BY ReassemblePktIs, CallIs DEF BurstInv, TypeInv, TypeOK, LoopInArray
<1>2. /\ \A n \in 1..call.unprocess_num : arr[n].pkts[1] \in back
      /\ \A n \in call.i..L : arr[n] = Run(arr[n].pkts[1], call.current_time)
      /\ \A n \in call.i..L : arr[n].pkts[1] \notin offered
      /\ \A n, m \in call.i..L : arr[n] = arr[m] => n = m
  BY <1>1 DEF BurstInv, BurstKept, CompactionSafe
<1>3. L \in Nat /\ call.i \in Nat /\ call.unprocess_num \in Nat
  BY <1>1 DEF ReassembleLocals
<1>4. \A n \in (call.i + 1)..L : n \in call.i..L /\ n # call.i
  BY <1>3
<1>5. \A n \in (call.i + 1)..L : arr[n].pkts[1] \notin offered'
  <2> SUFFICES ASSUME NEW n \in (call.i + 1)..L  PROVE arr[n].pkts[1] # p /\ arr[n].pkts[1] \notin offered
    BY <1>1
  <2>1. n \in call.i..L /\ call.i \in call.i..L /\ n # call.i
    BY <1>1, <1>3, <1>4
  <2>2. arr[n] # arr[call.i]
    BY <1>2, <2>1
  <2> QED
    BY <1>2, <2>1, <2>2
<1>6. /\ call' \in ReassembleLocals /\ call'.i = call.i + 1 /\ call'.current_time = call.current_time
      /\ Len(arr') = L /\ \A n \in (call.i + 1)..L : arr'[n] = arr[n]
      /\ \A n \in 1..call'.unprocess_num : arr'[n].pkts[1] \in back'
  <2>1. CASE Returned(p)
    <3> DEFINE u == call.unprocess_num + 1
    <3>1. u \in 1..L /\ u <= call.i
      BY <1>1, <1>3
    <3>2. /\ call' \in ReassembleLocals /\ call'.i = call.i + 1 /\ call'.unprocess_num = u
          /\ call'.current_time = call.current_time /\ back' = back \cup {p}
          /\ arr' = [arr EXCEPT ![u] = arr[call.i]]
      BY <1>1, <2>1, GivenBack DEF Returned
    <3> HIDE DEF u
    <3>3. /\ Len(arr') = L /\ arr'[u] = arr[call.i]
          /\ \A n \in 1..L : n # u => arr'[n] = arr[n]
      BY <1>1, <3>1, <3>2
    <3>4. \A n \in (call.i + 1)..L : n \in 1..L /\ n # u
      BY <1>3, <3>1
    <3>5. \A n \in 1..u : n = u \/ (n \in 1..call.unprocess_num /\ n \in 1..L /\ n # u)
      BY <1>3, <3>1 DEF u
    <3>6. \A n \in 1..u : arr'[n].pkts[1] \in back'
      BY <1>2, <3>2, <3>3, <3>5
    <3> QED
      BY <3>2, <3>3, <3>4, <3>6
  <2>2. CASE call' = [call EXCEPT !.i = call.i + 1] /\ UNCHANGED <<arr, back>>
    <3>1. /\ call' \in ReassembleLocals /\ call'.i = call.i + 1
          /\ call'.unprocess_num = call.unprocess_num /\ call'.current_time = call.current_time
      BY <1>1, <2>2 DEF ReassembleLocals
    <3> QED
      BY <1>2, <2>2, <3>1
  <2> QED
    BY <2>1, <2>2, ReassemblePktIs DEF BurstInv
<1>7. BurstKept'
  BY <1>2, <1>4, <1>6 DEF BurstKept
<1>8. \A n, m \in (call.i + 1)..L : arr'[n] = arr'[m] => n = m
  BY <1>2, <1>4, <1>6
<1>9. CompactionSafe'
  BY <1>5, <1>6, <1>8 DEF CompactionSafe
<1> QED
  BY <1>7, <1>9

LEMMA NextBurst == BurstInv /\ [Next]_vars => BurstInv'
<1> SUFFICES ASSUME BurstInv, [Next]_vars  PROVE BurstInv'
  OBVIOUS
<1>1. TypeInv /\ TypeInv'
  BY NextTypeInv DEF BurstInv
<1>2. CASE UNCHANGED vars
  <2>1. BurstKept' /\ CompactionSafe'
    BY <1>2 DEF vars, BurstInv, BurstKept, CompactionSafe, InReassemble
  <2> QED
    BY <1>1, <2>1 DEF BurstInv
<1>3. CASE \E b \in Bursts(Pkts \ offered) : ReassembleCall(b)
  BY <1>1, <1>3, ReassembleCallBurst DEF BurstInv
<1>4. CASE ReassemblePkt
  BY <1>1, <1>4, ReassemblePktBurst DEF BurstInv
<1>5. CASE \/ ReassembleReturn \/ FlushSkip \/ FlushUnite \/ FlushWrite \/ FlushTypeDone
           \/ FlushReturn \/ Tick
           \/ \E timeout \in Timeouts, n \in NbOut, types \in {GroType, UdpTypes} :
                 FlushCall(timeout, types, n)
  <2>1. ~InReassemble'
    <3>1. CASE ReassembleReturn \/ FlushReturn \/ Tick
      BY <3>1 DEF ReassembleReturn, FlushReturn, Tick, InReassemble
    <3>2. CASE FlushSkip \/ FlushUnite \/ FlushWrite \/ FlushTypeDone
      <4>1. call \in FlushLocals /\ call.t \in 1..7 /\ call.k \in Nat /\ call.k + 1 \in Nat
        BY <1>1, <3>2, InFlushIs DEF FlushSkip, FlushUnite, FlushWrite, FlushTypeDone
      <4>2. call' \in FlushLocals
        <5>1. CASE FlushSkip
          BY <4>1, <5>1, NextTypeIs DEF FlushSkip
        <5>2. CASE FlushUnite
          BY <4>1, <5>2 DEF FlushUnite
        <5>3. CASE FlushWrite
          BY <1>1, <4>1, <5>3, FlushWriteIs, TypeDoneIs, OneMoreIs
        <5>4. CASE FlushTypeDone
          BY <4>1, <5>4, TypeDoneIs DEF FlushTypeDone
        <5> QED
          BY <3>2, <5>1, <5>2, <5>3, <5>4
      <4> QED
        BY <4>2 DEF FlushLocals, InReassemble
    <3>3. ASSUME NEW timeout \in Timeouts, NEW n \in NbOut, NEW types \in {GroType, UdpTypes},
                 FlushCall(timeout, types, n)
          PROVE  ~InReassemble'
      BY <1>1, <3>3, FlushCallTypeInv DEF FlushLocals, InReassemble
    <3> QED
      BY <1>5, <3>1, <3>2, <3>3
  <2> QED
    BY <1>1, <2>1, OutsideReassemble DEF BurstInv
<1> QED
  BY <1>2, <1>3, <1>4, <1>5 DEF Next

LEMMA AlwaysBurst == Spec => []BurstInv
<1>1. Init => BurstInv
  BY InitTypeInv DEF Init, BurstInv, BurstKept, CompactionSafe, InReassemble
<1> QED
  BY <1>1, NextBurst, PTL DEF Spec

(* rte_gro_reassemble may use one array for what it gets and what it gives *)
(* back: the packets given back are at its front, no packet is lost under  *)
(* them before it was looked at, and none is looked at twice.              *)
THEOREM CompactionAlwaysSafe == Spec => []CompactionSafe
<1>1. BurstInv => CompactionSafe
  BY DEF BurstInv
<1> QED
  BY <1>1, AlwaysBurst, PTL

-----------------------------------------------------------------------------
(* Clocks.                                                                 *)

HeldBefore == \A T \in GroType : \A r \in tbls[T] : r.time <= now

ClocksKept ==
  /\ InReassemble => call.current_time = now
  /\ CallsFlush => call.flush_timestamp = FlushTimestamp(call.timeout_cycles)

TimeInv == TypeInv /\ HeldBefore /\ ClocksKept

(* A step inside a flush, seen through the locals.                         *)
LEMMA FlushStepIs ==
  ASSUME TypeInv, FlushSkip \/ FlushUnite \/ FlushWrite \/ FlushTypeDone
  PROVE  /\ InFlush /\ CallsFlush /\ CallsFlush' /\ ~InReassemble' /\ UNCHANGED <<now, offered, arrived, back, got>>
         /\ call \in FlushLocals /\ call' \in FlushLocals /\ Flushing \in GroType
         /\ call'.max_nb_out = call.max_nb_out /\ call'.types = call.types
         /\ call'.timeout_cycles = call.timeout_cycles
         /\ call'.flush_timestamp = call.flush_timestamp
<1>1. InFlush /\ UNCHANGED <<now, offered, arrived, back, got>>
  BY DEF FlushSkip, FlushUnite, FlushWrite, FlushTypeDone
<1>2. /\ call \in FlushLocals /\ call.t \in 1..7 /\ call.k \in Nat /\ call.k + 1 \in Nat
      /\ CallsFlush /\ Flushing \in GroType
  BY <1>1, InFlushIs
<1>3. /\ call' \in FlushLocals
      /\ call'.max_nb_out = call.max_nb_out /\ call'.types = call.types
      /\ call'.timeout_cycles = call.timeout_cycles
      /\ call'.flush_timestamp = call.flush_timestamp
  <2>1. CASE FlushSkip
    BY <1>2, <2>1, NextTypeIs DEF FlushSkip
  <2>2. CASE FlushUnite
    BY <1>2, <2>2 DEF FlushUnite
  <2>3. CASE FlushWrite
    <3> DEFINE k == call.k + 1
    <3>1. \/ call' = TypeDone(k)
          \/ call' = [call EXCEPT !.k = k]
      BY <2>3, FlushWriteIs
    <3>2. k \in Nat
      BY <1>2
    <3> HIDE DEF k
    <3>3. CASE call' = TypeDone(k)
      BY <1>2, <3>2, <3>3, TypeDoneIs
    <3>4. CASE call' = [call EXCEPT !.k = k]
      BY <1>2, <3>2, <3>4, OneMoreIs
    <3> QED
      BY <3>1, <3>3, <3>4
  <2>4. CASE FlushTypeDone
    BY <1>2, <2>4, TypeDoneIs DEF FlushTypeDone
  <2> QED
    BY <2>1, <2>2, <2>3, <2>4
<1>4. CallsFlush' /\ ~InReassemble'
  BY <1>3, NullAssumption DEF CallsFlush, InReassemble, FlushLocals
<1> QED
  BY <1>1, <1>2, <1>3, <1>4

(* What a step inside a flush leaves in the tables: at most one run is     *)
(* gone from the table flushed, or two are united.                         *)
LEMMA FlushStepTables ==
  ASSUME TypeInv, FlushSkip \/ FlushUnite \/ FlushWrite \/ FlushTypeDone
  PROVE  /\ \A T \in GroType : T # Flushing => tbls'[T] = tbls[T]
         /\ \A r \in tbls'[Flushing] : r \in tbls[Flushing] \/ \E s \in tbls[Flushing] : r.time = s.time
         /\ tbls[Flushing] = {} => tbls'[Flushing] = {}
<1>1. Flushing \in GroType /\ tbls \in [GroType -> SUBSET Runs]
  BY FlushStepIs DEF TypeInv, TablesFit
<1>2. CASE UNCHANGED tbls
  BY <1>2
<1>3. CASE FlushWrite
  <2>1. PICK r \in tbls[Flushing] : tbls' = [tbls EXCEPT ![Flushing] = tbls[Flushing] \ {r}]
    BY <1>3, FlushWriteIs
  <2> QED
    BY <1>1, <2>1
<1>4. CASE FlushUnite
  <2>1. PICK r \in tbls[Flushing], s \in tbls[Flushing] :
           tbls' = [tbls EXCEPT ![Flushing] = (tbls[Flushing] \ {r, s}) \cup {Joined(r, s, r.time)}]
    BY <1>4, FlushUniteIs
  <2>2. Joined(r, s, r.time).time = r.time
    BY DEF Joined
  <2> QED
    BY <1>1, <2>1, <2>2
<1> QED
  BY <1>2, <1>3, <1>4 DEF FlushSkip, FlushTypeDone

LEMMA ReassemblePktTimes ==
  ASSUME TimeInv, ReassemblePkt
  PROVE  HeldBefore' /\ ClocksKept'
<1> DEFINE p == arr[call.i].pkts[1]
<1>1. call \in ReassembleLocals /\ UNCHANGED now /\ InReassemble /\ TypeInv /\ TypeInv'
  BY ReassemblePktIs, CallIs, ReassemblePktTypeInv DEF TimeInv, TypeInv
<1>2. call' \in ReassembleLocals /\ call'.current_time = call.current_time
  <2>1. CASE Returned(p)
    BY <1>1, <2>1, GivenBack DEF Returned
  <2>2. CASE call' = [call EXCEPT !.i = call.i + 1]
    BY <1>1, <2>2 DEF ReassembleLocals
  <2> QED
    BY <1>1, <2>1, <2>2, ReassemblePktIs
<1>3. ClocksKept'
  BY <1>1, <1>2, CallIs DEF TimeInv, ClocksKept, CallsFlush, ReassembleLocals
<1>4. ASSUME NEW T \in GroType,
             NEW o \in ReassembleOutcomes(T, tbls[T], p, call.current_time, MaxItemNum),
             tbls' = [tbls EXCEPT ![T] = o.held]
      PROVE  HeldBefore' /\ ClocksKept'
  <2>1. call.current_time = now /\ now \in 0..MaxTime /\ \A s \in tbls[T] : s.time <= now
    BY <1>1 DEF TimeInv, ClocksKept, HeldBefore, TypeInv, TypeOK
  <2>2. ASSUME Takes(T, p), NEW h \in Prepared(tbls[T], p),
               Handled(o, h, Run(p, call.current_time), MaxItemNum)
        PROVE  \A r \in o.held : r.time <= now
    <3>1. \A s \in h : s.time <= now
      <4>1. h = tbls[T] \/ HurriedIn(T, tbls[T], p, h)
        BY <2>2, PreparedIs
      <4>2. CASE HurriedIn(T, tbls[T], p, h)
        <5>1. PICK r \in tbls[T] : h = (tbls[T] \ {r}) \cup {Hurried(r)}
          BY <4>2 DEF HurriedIn
        <5>2. Hurried(r).time = 0
          BY <1>1, HurriedIsRun DEF TypeInv, TablesFit
        <5> QED
          BY <2>1, <5>1, <5>2
      <4> QED
        BY <2>1, <4>1, <4>2
    <3> DEFINE x == Run(p, call.current_time)
    <3>2. x.time = now /\ \A a, b, t : Joined(a, b, t).time = t
      BY <2>1 DEF Run, Joined
    <3>3. Handled(o, h, x, MaxItemNum)
      BY <2>2
    <3> HIDE DEF x
    <3>4. \/ o.held = h
          \/ o.held = h \cup {x}
          \/ \E r \in h : o.held = (h \ {r}) \cup {Joined(r, x, r.time)}
          \/ \E r \in h : o.held = (h \ {r}) \cup {Joined(x, r, r.time)}
      BY <3>3 DEF Handled
    <3> QED
      BY <2>1, <3>1, <3>2, <3>4
  <2>3. \A r \in o.held : r.time <= now
    BY <2>1, <2>2, Outcome
  <2>4. \A U \in GroType : tbls'[U] = IF U = T THEN o.held ELSE tbls[U]
    BY <1>1, <1>4 DEF TypeInv, TablesFit
  <2> QED
    BY <1>1, <1>3, <2>3, <2>4 DEF TimeInv, HeldBefore
<1>5. CASE UNCHANGED tbls
  BY <1>1, <1>3, <1>5 DEF TimeInv, HeldBefore
<1> QED
  BY <1>1, <1>3, <1>4, <1>5, ReassemblePktIs

LEMMA NextTimes == TimeInv /\ [Next]_vars => TimeInv'
<1> SUFFICES ASSUME TimeInv, [Next]_vars  PROVE HeldBefore' /\ ClocksKept'
  BY NextTypeInv DEF TimeInv
<1>1. TypeInv /\ TypeInv' /\ now \in 0..MaxTime
  BY NextTypeInv DEF TimeInv, TypeInv, TypeOK
<1>2. CASE UNCHANGED vars
  BY <1>2 DEF vars, TimeInv, HeldBefore, ClocksKept, InReassemble, CallsFlush, FlushTimestamp
<1>3. ASSUME NEW b \in Bursts(Pkts \ offered), ReassembleCall(b)  PROVE HeldBefore' /\ ClocksKept'
  <2>1. UNCHANGED <<tbls, now>> /\ call'.current_time = now /\ call'.api = "reassemble"
    BY <1>3 DEF ReassembleCall
  <2> QED
    BY <1>1, <2>1 DEF TimeInv, HeldBefore, ClocksKept, CallsFlush
<1>4. CASE ReassemblePkt
  BY <1>4, ReassemblePktTimes
<1>5. CASE ReassembleReturn \/ FlushReturn
  <2>1. call' = NULL /\ UNCHANGED <<tbls, now>>
    BY <1>5 DEF ReassembleReturn, FlushReturn
  <2> QED
    BY <2>1 DEF TimeInv, HeldBefore, ClocksKept, InReassemble, CallsFlush
<1>6. ASSUME NEW timeout \in Timeouts, NEW n \in NbOut, NEW types \in {GroType, UdpTypes},
             FlushCall(timeout, types, n)
      PROVE  HeldBefore' /\ ClocksKept'
  <2>1. /\ call'.flush_timestamp = FlushTimestamp(timeout) /\ call'.timeout_cycles = timeout
        /\ UNCHANGED <<tbls, now>> /\ call' \in FlushLocals
    BY <1>1, <1>6, FlushCallTypeInv
  <2> QED
    BY <2>1 DEF TimeInv, HeldBefore, ClocksKept, FlushTimestamp, InReassemble, FlushLocals
<1>7. CASE FlushSkip \/ FlushUnite \/ FlushWrite \/ FlushTypeDone
  <2>1. HeldBefore'
    BY <1>1, <1>7, FlushStepIs, FlushStepTables DEF TimeInv, HeldBefore
  <2>2. ClocksKept'
    BY <1>1, <1>7, FlushStepIs DEF TimeInv, ClocksKept, FlushTimestamp
  <2> QED
    BY <2>1, <2>2
<1>8. CASE Tick
  <2>1. now' = now + 1 /\ UNCHANGED <<tbls, call>> /\ call = NULL
    BY <1>8 DEF Tick
  <2>2. \A T \in GroType : \A r \in tbls[T] : r.time \in Int
    BY <1>1 DEF TypeInv, TablesFit, Runs
  <2> QED
    BY <1>1, <2>1, <2>2 DEF TimeInv, HeldBefore, ClocksKept, InReassemble, CallsFlush
<1> QED
  BY <1>2, <1>3, <1>4, <1>5, <1>6, <1>7, <1>8 DEF Next

LEMMA AlwaysTimed == Spec => []TimeInv
<1>1. Init => TimeInv
  BY InitTypeInv DEF Init, TimeInv, HeldBefore, ClocksKept, InReassemble, CallsFlush
<1> QED
  BY <1>1, NextTimes, PTL DEF Spec

-----------------------------------------------------------------------------
(* What the time of a run tells of when its packets were handed in.        *)

(* The packet p has hurried run r: it came after a packet of r.            *)
HasHurried(p, r, a) ==
  /\ p.kind = "push" /\ p.flow = r.pkts[1].flow
  /\ \E q \in InRun(r) : a[q] <= a[p]

(* With a as the times of the packets o: the time of run r of type T is    *)
(* that of one of its packets, or r has been hurried.                      *)
Told(T, r, a, o) ==
  /\ InRun(r) \subseteq o
  /\ \/ \E q \in InRun(r) : a[q] = r.time
     \/ T = "TCP4" /\ \E p \in o : HasHurried(p, r, a)

ArrivedBefore == \A q \in Pkts : arrived[q] <= now

AllTold == \A T \in GroType : \A r \in tbls[T] : Told(T, r, arrived, offered)

ToldInv == BurstInv /\ TimeInv /\ ArrivedBefore /\ AllTold

(* One more packet is handed in.                                           *)
LEMMA StaysTold ==
  ASSUME NEW a \in [Pkts -> 0..MaxTime], NEW o \in SUBSET Pkts, NEW p \in Pkts \ o,
         NEW t \in 0..MaxTime, NEW T, NEW r, Told(T, r, a, o)
  PROVE  Told(T, r, [a EXCEPT ![p] = t], o \cup {p})
<1> DEFINE b == [a EXCEPT ![p] = t]
<1>1. \A q \in o : b[q] = a[q]
  OBVIOUS
<1>2. InRun(r) \subseteq o
  BY DEF Told
<1> HIDE DEF b
<1>3. \A q \in o : HasHurried(q, r, a) => HasHurried(q, r, b)
  BY <1>1, <1>2 DEF HasHurried
<1>4. (\E q \in InRun(r) : a[q] = r.time) => \E q \in InRun(r) : b[q] = r.time
  BY <1>1, <1>2
<1>5. Told(T, r, b, o \cup {p})
  BY <1>2, <1>3, <1>4 DEF Told
<1> QED
  BY <1>5 DEF b

LEMMA JoinedTold ==
  ASSUME NEW r \in Runs, NEW s \in Runs, NEW a, NEW o, NEW T, Mergeable(r, s),
         Told(T, r, a, o), Told(T, s, a, o)
  PROVE  /\ Told(T, Joined(r, s, r.time), a, o)
         /\ Len(r.pkts) = 1 => Told(T, Joined(r, s, s.time), a, o)
<1>1. r.time \in 0..MaxTime /\ s.time \in 0..MaxTime /\ r.pkts # <<>> /\ s.pkts # <<>>
      /\ r.pkts \in Seq(Pkts) /\ s.pkts \in Seq(Pkts)
  BY DEF Runs
<1>2. (r.pkts \o s.pkts)[1] = r.pkts[1]
  <2> DEFINE u == r.pkts
             v == s.pkts
  <2>1. u \in Seq(Pkts) /\ v \in Seq(Pkts) /\ u # <<>>
    BY <1>1
  <2> HIDE DEF u, v
  <2>2. 1 \in 1..Len(u)
    BY <2>1
  <2>3. (u \o v)[1] = u[1]
    BY <2>1, <2>2, Concatenated
  <2> QED
    BY <2>3 DEF u, v
<1>3. ASSUME NEW t \in {r.time, s.time}
      PROVE  /\ InRun(Joined(r, s, t)) = InRun(r) \cup InRun(s)
             /\ Joined(r, s, t).time = t /\ Joined(r, s, t).pkts[1] = r.pkts[1]
  <2>1. t \in 0..MaxTime
    BY <1>1
  <2> QED
    BY <1>2, <2>1, JoinedIsRun
<1>4. InRun(r) \cup InRun(s) \subseteq o
  BY DEF Told
<1>5. Told(T, Joined(r, s, r.time), a, o)
  <2> DEFINE j == Joined(r, s, r.time)
  <2>1. InRun(j) = InRun(r) \cup InRun(s) /\ j.time = r.time /\ j.pkts[1] = r.pkts[1]
    BY <1>3
  <2> HIDE DEF j
  <2>2. \A p \in o : HasHurried(p, r, a) => HasHurried(p, j, a)
    BY <2>1 DEF HasHurried
  <2>3. Told(T, j, a, o)
    BY <1>4, <2>1, <2>2 DEF Told
  <2> QED
    BY <2>3 DEF j
<1>6. ASSUME Len(r.pkts) = 1  PROVE Told(T, Joined(r, s, s.time), a, o)
  <2> DEFINE j == Joined(r, s, s.time)
  <2>1. InRun(j) = InRun(r) \cup InRun(s) /\ j.time = s.time /\ j.pkts[1] = r.pkts[1]
    BY <1>3
  <2>2. s.pkts[1].flow = r.pkts[1].flow
    BY <1>6 DEF Mergeable, Continues, LastPkt
  <2> HIDE DEF j
  <2>3. \A p \in o : HasHurried(p, s, a) => HasHurried(p, j, a)
    BY <2>1, <2>2 DEF HasHurried
  <2>4. Told(T, j, a, o)
    BY <1>4, <2>1, <2>3 DEF Told
  <2> QED
    BY <2>4 DEF j
<1> QED
  BY <1>5, <1>6

(* All runs of a table, told; so they stay when the packet is handled.     *)
TableTold(T, h, a, o) == h \subseteq Runs /\ \A r \in h : Told(T, r, a, o)

LEMMA HandledTold ==
  ASSUME NEW T, NEW h, NEW a, NEW o, TableTold(T, h, a, o),
         NEW x \in Runs, Len(x.pkts) = 1, Told(T, x, a, o),
         NEW u, NEW m, Handled(u, h, x, m)
  PROVE  \A r \in u.held : Told(T, r, a, o)
<1>1. h \subseteq Runs /\ \A r \in h : Told(T, r, a, o)
  BY DEF TableTold
<1>2. ASSUME NEW r \in h, Mergeable(r, x)  PROVE Told(T, Joined(r, x, r.time), a, o)
  BY <1>1, <1>2, JoinedTold
<1>3. ASSUME NEW r \in h, Mergeable(x, r)  PROVE Told(T, Joined(x, r, r.time), a, o)
  BY <1>1, <1>3, JoinedTold
<1>4. \/ u.held = h
      \/ u.held = h \cup {x}
      \/ \E r \in h : Mergeable(r, x) /\ u.held = (h \ {r}) \cup {Joined(r, x, r.time)}
      \/ \E r \in h : Mergeable(x, r) /\ u.held = (h \ {r}) \cup {Joined(x, r, r.time)}
  BY DEF Handled
<1> QED
  BY <1>1, <1>2, <1>3, <1>4

LEMMA PreparedTold ==
  ASSUME NEW T, NEW held, NEW a, NEW o, TableTold(T, held, a, o), NEW p \in o,
         \A q \in o : a[q] <= a[p],
         NEW h, h = held \/ HurriedIn(T, held, p, h)
  PROVE  TableTold(T, h, a, o)
<1>1. CASE h = held
  BY <1>1
<1>2. CASE HurriedIn(T, held, p, h)
  <2>1. PICK r \in held : r.pkts[1].flow = p.flow /\ h = (held \ {r}) \cup {Hurried(r)}
    BY <1>2 DEF HurriedIn
  <2>2. r \in Runs /\ Told(T, r, a, o) /\ T = "TCP4" /\ p.kind = "push"
    BY <1>2, <2>1 DEF TableTold, HurriedIn
  <2> DEFINE j == Hurried(r)
  <2>3. j \in Runs /\ j.pkts = r.pkts /\ InRun(j) = InRun(r)
    BY <2>2, HurriedIsRun
  <2> HIDE DEF j
  <2>4. r.pkts[1] \in InRun(r)
    <3>1. r.pkts \in Seq(Pkts) /\ r.pkts # <<>>
      BY <2>2 DEF Runs
    <3>2. 1 \in DOMAIN r.pkts
      BY <3>1
    <3> QED
      BY <3>2 DEF InRun
  <2>5. InRun(r) \subseteq o /\ a[r.pkts[1]] <= a[p]
    BY <2>2, <2>4 DEF Told
  <2>6. HasHurried(p, j, a)
    BY <2>1, <2>2, <2>3, <2>4, <2>5 DEF HasHurried
  <2>7. Told(T, j, a, o)
    BY <2>2, <2>3, <2>5, <2>6 DEF Told
  <2>8. h = (held \ {r}) \cup {j}
    BY <2>1 DEF j
  <2> QED
    BY <2>3, <2>7, <2>8 DEF TableTold
<1> QED
  BY <1>1, <1>2

LEMMA ReassemblePktTold ==
  ASSUME ToldInv, ReassemblePkt
  PROVE  ArrivedBefore' /\ AllTold'
<1> DEFINE p == arr[call.i].pkts[1]
           b == [arrived EXCEPT ![p] = now]
           o2 == offered \cup {p}
<1>1. /\ call \in ReassembleLocals /\ call.i \in 1..Len(arr) /\ p \in Pkts
      /\ offered' = o2 /\ arrived' = b /\ UNCHANGED now
      /\ TypeInv /\ InReassemble /\ CompactionSafe
  BY ReassemblePktIs DEF ToldInv, BurstInv, ReassemblePkt
<1>2. /\ arrived \in [Pkts -> 0..MaxTime] /\ offered \in SUBSET Pkts /\ now \in 0..MaxTime
      /\ tbls \in [GroType -> SUBSET Runs] /\ call.current_time = now
  BY <1>1 DEF TypeInv, TypeOK, TablesFit, ToldInv, TimeInv, ClocksKept
<1>3. p \in Pkts \ offered
  <2>1. call.i \in call.i..Len(arr)
    BY <1>1 DEF TypeInv, TypeOK
  <2> QED
    BY <1>1, <2>1 DEF CompactionSafe
<1>4. b[p] = now /\ b \in [Pkts -> 0..MaxTime] /\ \A q \in Pkts : b[q] <= now
  BY <1>2, <1>3 DEF ToldInv, ArrivedBefore
<1>5. ArrivedBefore'
  BY <1>1, <1>4 DEF ArrivedBefore
<1> DEFINE x == Run(p, now)
<1>6. x \in Runs /\ InRun(x) = {p} /\ Len(x.pkts) = 1 /\ x.time = now
  BY <1>2, <1>3, RunIsRun DEF Run
<1> HIDE DEF p
<1>7. \A T \in GroType : TableTold(T, tbls[T], b, o2)
  <2> SUFFICES ASSUME NEW T \in GroType, NEW r \in tbls[T]  PROVE Told(T, r, b, o2)
    BY <1>2 DEF TableTold
  <2>1. Told(T, r, arrived, offered)
    BY DEF ToldInv, AllTold
  <2> QED
    BY <1>2, <1>3, <2>1, StaysTold
<1> HIDE DEF b, o2, x
<1>8. \A T : Told(T, x, b, o2)
  BY <1>4, <1>6 DEF Told, o2
<1>9. CASE UNCHANGED tbls
  BY <1>1, <1>5, <1>7, <1>9 DEF AllTold, TableTold
<1>10. ASSUME NEW T \in GroType, NEW o \in ReassembleOutcomes(T, tbls[T], p, now, MaxItemNum),
              tbls' = [tbls EXCEPT ![T] = o.held]
       PROVE  AllTold'
  <2>1. CASE o.held = tbls[T]
    BY <1>2, <1>9, <1>10, <2>1
  <2>2. ASSUME Takes(T, p), NEW h \in Prepared(tbls[T], p), Handled(o, h, x, MaxItemNum)
        PROVE  \A r \in o.held : Told(T, r, b, o2)
    <3> DEFINE t == tbls[T]
    <3>1. TableTold(T, t, b, o2) /\ (h = t \/ HurriedIn(T, t, p, h))
      BY <1>7, <2>2, PreparedIs
    <3>2. p \in o2 /\ \A q \in o2 : b[q] <= b[p]
      BY <1>2, <1>3, <1>4 DEF o2
    <3> HIDE DEF t
    <3>3. TableTold(T, h, b, o2)
      BY ONLY <3>1, <3>2, PreparedTold
    <3>4. x \in Runs /\ Len(x.pkts) = 1 /\ Told(T, x, b, o2)
      BY <1>6, <1>8
    <3> QED
      BY ONLY <2>2, <3>3, <3>4, HandledTold
  <2>3. o.held = tbls[T] \/ \A r \in o.held : Told(T, r, b, o2)
    BY <2>2, Outcome DEF x
  <2>4. \A U \in GroType : tbls'[U] = IF U = T THEN o.held ELSE tbls[U]
    BY <1>2, <1>10
  <2> QED
    BY <1>1, <1>7, <2>1, <2>3, <2>4 DEF AllTold, TableTold
<1>11. \/ UNCHANGED tbls
       \/ \E T \in GroType : \E o \in ReassembleOutcomes(T, tbls[T], p, now, MaxItemNum) :
             tbls' = [tbls EXCEPT ![T] = o.held]
  BY <1>1, <1>2, ReassemblePktIs DEF p
<1> QED
  BY <1>5, <1>9, <1>10, <1>11

LEMMA FlushUniteTold ==
  ASSUME ToldInv, FlushUnite
  PROVE  AllTold'
<1>1. /\ TypeInv /\ Flushing \in GroType /\ tbls \in [GroType -> SUBSET Runs]
      /\ UNCHANGED <<offered, arrived>>
  BY FlushStepIs DEF ToldInv, BurstInv, TypeInv, TablesFit, FlushUnite
<1>2. PICK r \in tbls[Flushing], s \in tbls[Flushing] :
         /\ Mergeable(r, s)
         /\ tbls' = [tbls EXCEPT ![Flushing] = (tbls[Flushing] \ {r, s}) \cup {Joined(r, s, r.time)}]
  BY FlushUniteIs
<1> DEFINE j == Joined(r, s, r.time)
<1>3. Told(Flushing, j, arrived, offered)
  <2>1. /\ r \in Runs /\ s \in Runs /\ Told(Flushing, r, arrived, offered)
        /\ Told(Flushing, s, arrived, offered)
    BY <1>1 DEF ToldInv, AllTold
  <2> QED
    BY <1>2, <2>1, JoinedTold
<1> HIDE DEF j
<1>4. \A U \in GroType : tbls'[U] = IF U = Flushing THEN (tbls[Flushing] \ {r, s}) \cup {j} ELSE tbls[U]
  BY <1>1, <1>2 DEF j
<1> QED
  BY <1>1, <1>3, <1>4 DEF ToldInv, AllTold

LEMMA NextTold == ToldInv /\ [Next]_vars => ToldInv'
<1> SUFFICES ASSUME ToldInv, [Next]_vars  PROVE ArrivedBefore' /\ AllTold'
  BY NextBurst, NextTimes DEF ToldInv
<1>1. TypeInv /\ now \in 0..MaxTime /\ arrived \in [Pkts -> 0..MaxTime]
  BY DEF ToldInv, BurstInv, TypeInv, TypeOK
<1>2. CASE ReassemblePkt
  BY <1>2, ReassemblePktTold
<1>3. CASE UNCHANGED <<tbls, now, offered, arrived>>
  BY <1>3 DEF ToldInv, ArrivedBefore, AllTold
<1>4. CASE Tick
  <2>1. now' = now + 1 /\ UNCHANGED <<tbls, offered, arrived>>
    BY <1>4 DEF Tick
  <2>2. \A q \in Pkts : arrived[q] \in Int /\ arrived[q] <= now
    BY <1>1 DEF ToldInv, ArrivedBefore
  <2>3. ArrivedBefore'
    BY <1>1, <2>1, <2>2 DEF ArrivedBefore
  <2> QED
    BY <2>1, <2>3 DEF ToldInv, AllTold
<1>5. CASE FlushUnite
  <2>1. ArrivedBefore'
    BY <1>5 DEF FlushUnite, ToldInv, ArrivedBefore
  <2> QED
    BY <1>5, <2>1, FlushUniteTold
<1>6. CASE FlushWrite
  <2>1. Flushing \in GroType /\ tbls \in [GroType -> SUBSET Runs] /\ UNCHANGED <<now, offered, arrived>>
    BY <1>1, <1>6, FlushStepIs DEF TypeInv, TablesFit
  <2>2. PICK r \in tbls[Flushing] : tbls' = [tbls EXCEPT ![Flushing] = tbls[Flushing] \ {r}]
    BY <1>1, <1>6, FlushWriteIs
  <2>3. \A U \in GroType : tbls'[U] \subseteq tbls[U]
    BY <2>1, <2>2
  <2> QED
    BY <2>1, <2>3 DEF ToldInv, ArrivedBefore, AllTold
<1>7. CASE \/ UNCHANGED vars \/ ReassembleReturn \/ FlushSkip \/ FlushTypeDone \/ FlushReturn
           \/ \E b \in Bursts(Pkts \ offered) : ReassembleCall(b)
           \/ \E timeout \in Timeouts, n \in NbOut, types \in {GroType, UdpTypes} :
                 FlushCall(timeout, types, n)
  BY <1>3, <1>7 DEF vars, ReassembleReturn, FlushSkip, FlushTypeDone, FlushReturn, ReassembleCall, FlushCall
<1> QED
  BY <1>2, <1>4, <1>5, <1>6, <1>7 DEF Next

LEMMA AlwaysTold == Spec => []ToldInv
<1>1. Init => BurstInv
  BY InitTypeInv DEF Init, BurstInv, BurstKept, CompactionSafe, InReassemble
<1>2. Init => TimeInv
  BY InitTypeInv DEF Init, TimeInv, HeldBefore, ClocksKept, InReassemble, CallsFlush
<1>3. Init => ArrivedBefore /\ AllTold
  BY DEF Init, ArrivedBefore, AllTold
<1>4. Init => ToldInv
  BY <1>1, <1>2, <1>3 DEF ToldInv
<1> QED
  BY <1>4, NextTold, PTL DEF Spec

(* A run is written by a flush only when a packet of it was handed in      *)
(* timeout_cycles ago, or, for TCP/IPv4, when a packet with PSH or FIN was *)
(* handed in for its flow after a packet of it: neither merging at arrival *)
(* or in the flush, nor another call, nor another type, makes a run due    *)
(* before that.  While the counter is below timeout_cycles it says nothing.*)
THEOREM FlushAlwaysHonoursTimeout == Spec => FlushHonoursTimeout
<1>1. ToldInv /\ [Next]_vars =>
        [ FlushWrite =>
            \A T \in GroType : \A r \in tbls[T] \ tbls'[T] :
               \/ \E n \in DOMAIN r.pkts : now - arrived[r.pkts[n]] >= call.timeout_cycles
               \/ T = "TCP4" /\ \E p \in Pkts : Hurries(p, r)
               \/ now < call.timeout_cycles ]_vars
  <2> SUFFICES ASSUME ToldInv, FlushWrite, NEW T \in GroType, NEW r \in tbls[T] \ tbls'[T],
                      ~(now < call.timeout_cycles)
               PROVE  \/ \E n \in DOMAIN r.pkts : now - arrived[r.pkts[n]] >= call.timeout_cycles
                      \/ T = "TCP4" /\ \E p \in Pkts : Hurries(p, r)
    OBVIOUS
  <2>1. /\ CallsFlush /\ call \in FlushLocals /\ Flushing \in GroType /\ TypeInv
        /\ tbls \in [GroType -> SUBSET Runs] /\ now \in 0..MaxTime
        /\ arrived \in [Pkts -> 0..MaxTime] /\ offered \subseteq Pkts
    BY FlushStepIs DEF ToldInv, TimeInv, TypeInv, TypeOK, TablesFit
  <2>2. PICK q \in tbls[Flushing] : /\ IsDue(q, call.flush_timestamp)
                                   /\ tbls' = [tbls EXCEPT ![Flushing] = tbls[Flushing] \ {q}]
    BY <2>1, FlushWriteIs
  <2>3. T = Flushing /\ r = q /\ r \in Runs
    BY <2>1, <2>2
  <2>4. r.time <= call.flush_timestamp /\ call.flush_timestamp = FlushTimestamp(call.timeout_cycles)
    BY <2>1, <2>2, <2>3 DEF IsDue, ToldInv, TimeInv, ClocksKept
  <2>5. call.timeout_cycles \in Nat /\ r.time \in Nat
    <3>1. call.timeout_cycles \in Timeouts
      BY <2>1 DEF FlushLocals
    <3>2. call.timeout_cycles \in Nat
      <4>1. \A t \in Timeouts : t \in 0..(ClockRange - 1)
        BY ApiAssumption
      <4>2. \A t \in 0..(ClockRange - 1) : t \in Nat
        BY ApiAssumption
      <4> QED
        BY <3>1, <4>1, <4>2
    <3> QED
      BY <2>3, <3>2 DEF Runs
  <2>6. FlushTimestamp(call.timeout_cycles) = now - call.timeout_cycles
    <3>1. now - call.timeout_cycles \in 0..(ClockRange - 1) /\ ClockRange \in Nat \ {0}
      BY <2>1, <2>5, ApiAssumption
    <3> QED
      BY <3>1 DEF FlushTimestamp
  <2>7. now - r.time >= call.timeout_cycles
    BY <2>1, <2>4, <2>5, <2>6
  <2>8. Told(T, r, arrived, offered)
    BY <2>1, <2>2, <2>3 DEF ToldInv, AllTold
  <2>9. CASE \E w \in InRun(r) : arrived[w] = r.time
    BY <2>7, <2>9 DEF InRun
  <2>10. CASE T = "TCP4" /\ \E p \in offered : HasHurried(p, r, arrived)
    <3>1. PICK p \in offered : HasHurried(p, r, arrived)
      BY <2>10
    <3>2. Hurries(p, r)
      BY <3>1 DEF HasHurried, Hurries, InRun
    <3> QED
      BY <2>1, <2>10, <3>2
  <2> QED
    BY <2>8, <2>9, <2>10 DEF Told
<1> QED
  BY <1>1, AlwaysTold, PTL DEF Spec, FlushHonoursTimeout

-----------------------------------------------------------------------------
(* Room.  The flush of GTP-TCP starts at the front of out and is told of   *)
(* the room that the types before it left: both are right only when no     *)
(* type before it is in use.  Room for no packet is taken for no limit.    *)

TunnelsApart ==
  "GTP_TCP" \in GroTypes => "VXLAN_TCP" \notin GroTypes /\ "VXLAN_UDP" \notin GroTypes

RoomAsked == 0 \notin NbOut

RoomInv ==
  CallsFlush =>
    /\ call.max_nb_out > 0
    /\ call.num + call.left_nb_out = call.max_nb_out
    /\ Len(arr) = call.num + call.k
    /\ call.k > 0 => call.k < call.left_nb_out /\ call.t <= 7
    /\ call.t = 1 \/ (call.t <= 3 /\ "GTP_TCP" \in call.types) => call.num = 0

LEMMA EnteredHasRoom ==
  ASSUME TypeInv, RoomInv, TunnelsApart, InFlush, Entered
  PROVE  /\ call.left_nb_out > 0 /\ call.k < call.left_nb_out
         /\ call.max_nb_out \in Nat /\ call.max_nb_out > 0
         /\ call.num + call.left_nb_out = call.max_nb_out /\ Len(arr) = call.num + call.k
         /\ Flushing \in FromStart => call.num = 0
         /\ call.t < 3 => "GTP_TCP" \notin call.types
<1>1. /\ call \in FlushLocals /\ CallsFlush /\ call.t \in 1..7 /\ call.k \in Nat /\ call.num \in Nat
      /\ call.left_nb_out \in Nat /\ call.max_nb_out \in Nat
      /\ (Flushing \in FromStart <=> call.t \in {1, 3})
  BY InFlushIs
<1>2. /\ call.max_nb_out > 0
      /\ call.num + call.left_nb_out = call.max_nb_out
      /\ Len(arr) = call.num + call.k
      /\ call.k > 0 => call.k < call.left_nb_out
      /\ call.t = 1 \/ (call.t <= 3 /\ "GTP_TCP" \in call.types) => call.num = 0
  BY <1>1 DEF RoomInv
<1>3. Flushing \in call.types /\ (Flushing \in FromStart \/ call.left_nb_out > 0)
  BY DEF Entered
<1>4. call.t = 1 => Flushing = "VXLAN_TCP"
  BY DEF Flushing, TypeOrder
<1>5. call.t = 2 => Flushing = "VXLAN_UDP"
  BY DEF Flushing, TypeOrder
<1>6. call.t = 3 => Flushing = "GTP_TCP"
  BY DEF Flushing, TypeOrder
<1>7. call.t < 3 => "GTP_TCP" \notin call.types
  <2>1. call.types \subseteq GroTypes
    BY <1>1 DEF FlushLocals
  <2>2. call.t < 3 => call.t = 1 \/ call.t = 2
    BY <1>1
  <2> QED
    BY <1>3, <1>4, <1>5, <2>1, <2>2 DEF TunnelsApart
<1>8. Flushing \in FromStart => call.num = 0
  BY <1>1, <1>2, <1>3, <1>6
<1>9. call.left_nb_out > 0
  BY <1>1, <1>2, <1>3, <1>8
<1>10. call.k < call.left_nb_out
  BY <1>1, <1>2, <1>9
<1> QED
  BY <1>1, <1>2, <1>7, <1>8, <1>9, <1>10

(* The flush of a type returns k; written is whether the last packet that  *)
(* there was room for has just been written.                               *)
LEMMA TypeDoneRoom ==
  ASSUME TypeInv, RoomInv, TunnelsApart, InFlush, Entered, NEW k \in Nat,
         k <= call.left_nb_out, call' = TypeDone(k), Len(arr') = call.num + k
  PROVE  RoomInv' /\ call'.num = call.num + k
<1>1. /\ call \in FlushLocals /\ CallsFlush /\ call.t \in 1..7 /\ call.k \in Nat /\ call.num \in Nat
      /\ call.left_nb_out \in Nat
  BY InFlushIs
<1>2. /\ call.max_nb_out \in Nat /\ call.max_nb_out > 0
      /\ call.num + call.left_nb_out = call.max_nb_out
      /\ Flushing \in FromStart => call.num = 0
      /\ call.t < 3 => "GTP_TCP" \notin call.types
  BY EnteredHasRoom
<1> DEFINE n == IF Flushing \in FromStart THEN k ELSE call.num + k
<1>3. /\ call' \in FlushLocals /\ call'.t = call.t + 1 /\ call'.k = 0 /\ call'.num = n
      /\ call'.left_nb_out = LeftNbOut(call.max_nb_out, n)
      /\ call'.max_nb_out = call.max_nb_out /\ call'.types = call.types
  BY <1>1, TypeDoneIs
<1>4. n = call.num + k
  BY <1>1, <1>2
<1> HIDE DEF n
<1>5. call.max_nb_out \in NbOut /\ n \in Nat /\ n <= call.max_nb_out
  BY <1>1, <1>2, <1>4 DEF FlushLocals
<1>6. call'.left_nb_out = call.max_nb_out - n
  BY <1>3, <1>5, LeftFits
<1>7. call'.num + call'.left_nb_out = call'.max_nb_out
  BY <1>2, <1>3, <1>5, <1>6
<1>8. ~(call'.t = 1 \/ (call'.t <= 3 /\ "GTP_TCP" \in call'.types))
  BY <1>1, <1>2, <1>3
<1>9. call'.max_nb_out > 0 /\ Len(arr') = call'.num + call'.k /\ ~(call'.k > 0)
  BY <1>1, <1>2, <1>3, <1>4
<1> QED
  BY <1>3, <1>4, <1>7, <1>8, <1>9 DEF RoomInv

LEMMA FlushWriteRoom ==
  ASSUME TypeInv, RoomInv, TunnelsApart, FlushWrite
  PROVE  /\ RoomInv'
         /\ \/ call'.t = call.t /\ call'.num = call.num
            \/ call'.t = call.t + 1 /\ call'.num = call.max_nb_out
         /\ \E r \in tbls[Flushing] : /\ tbls' = [tbls EXCEPT ![Flushing] = tbls[Flushing] \ {r}]
                                      /\ arr' = Append(arr, r)
<1> DEFINE base == IF Flushing \in FromStart THEN 0 ELSE call.num
           k    == call.k + 1
<1>1. InFlush /\ Entered /\ base + k \in 1..(Len(arr) + 1)
  BY FlushWriteIs
<1>2. PICK r \in tbls[Flushing] : /\ tbls' = [tbls EXCEPT ![Flushing] = tbls[Flushing] \ {r}]
                                 /\ arr' = PutAt(arr, base + k, r)
  BY FlushWriteIs
<1>3. /\ call \in FlushLocals /\ call.t \in 1..7 /\ call.k \in Nat /\ call.num \in Nat
      /\ call.left_nb_out \in Nat /\ Flushing \in GroType /\ arr \in Seq(Runs) /\ Len(arr) \in Nat
      /\ CallsFlush
  BY <1>1, InFlushIs
<1>4. /\ call.k < call.left_nb_out /\ call.max_nb_out \in Nat /\ call.max_nb_out > 0
      /\ call.num + call.left_nb_out = call.max_nb_out /\ Len(arr) = call.num + call.k
      /\ Flushing \in FromStart => call.num = 0
      /\ call.t < 3 => "GTP_TCP" \notin call.types
  BY <1>1, EnteredHasRoom
<1>5. base + k = Len(arr) + 1 /\ k \in Nat /\ k <= call.left_nb_out
  <2>1. base = call.num
    BY <1>4
  <2> HIDE DEF base
  <2> QED
    BY <1>3, <1>4, <2>1
<1>6. r \in Runs
  BY <1>2, <1>3 DEF TypeInv, TablesFit
<1> HIDE DEF base, k
<1>7. arr' = Append(arr, r) /\ Len(arr') = Len(arr) + 1
  <2> DEFINE n == base + k
  <2>1. n \in 1..(Len(arr) + 1) /\ arr' = PutAt(arr, n, r) /\ n = Len(arr) + 1
    BY <1>1, <1>2, <1>5
  <2> HIDE DEF n
  <2>2. arr \in Seq(Runs) /\ r \in Runs /\ n \in 1..(Len(arr) + 1)
    BY <1>3, <1>6, <2>1
  <2>3. PutAt(arr, n, r) = Append(arr, r)
    BY ONLY <2>1, <2>2, WrittenAt
  <2>4. Len(Append(arr, r)) = Len(arr) + 1
    BY ONLY <2>2
  <2> QED
    BY <2>1, <2>3, <2>4
<1>8. Len(arr') = call.num + k
  BY <1>3, <1>4, <1>7 DEF k
<1>9. CASE k = call.left_nb_out /\ call' = TypeDone(k)
  <2>1. RoomInv' /\ call'.num = call.num + k
    BY <1>1, <1>5, <1>8, <1>9, TypeDoneRoom
  <2>2. call'.t = call.t + 1
    BY <1>3, <1>5, <1>9, TypeDoneIs
  <2> QED
    BY <1>2, <1>4, <1>7, <1>9, <2>1, <2>2
<1>10. CASE k # call.left_nb_out /\ call' = [call EXCEPT !.k = k]
  <2>1. /\ call' \in FlushLocals /\ call'.k = k /\ call'.t = call.t /\ call'.num = call.num
        /\ call'.left_nb_out = call.left_nb_out /\ call'.types = call.types
        /\ call'.max_nb_out = call.max_nb_out
    BY <1>3, <1>5, <1>10, OneMoreIs
  <2>2. k < call.left_nb_out /\ call.t <= 7
    BY <1>3, <1>5, <1>10
  <2>3. RoomInv'
    BY <1>3, <1>4, <1>8, <2>1, <2>2 DEF RoomInv
  <2> QED
    BY <1>2, <1>7, <2>1, <2>3
<1> QED
  BY <1>9, <1>10, FlushWriteIs DEF k

LEMMA FlushSkipRoom ==
  ASSUME TypeInv, RoomInv, FlushSkip
  PROVE  RoomInv' /\ call'.num = call.num /\ call'.t = call.t + 1 /\ call.k = 0
<1>1. InFlush /\ ~Entered /\ call' = [call EXCEPT !.t = call.t + 1] /\ UNCHANGED arr
  BY DEF FlushSkip
<1>2. /\ call \in FlushLocals /\ CallsFlush /\ call.t \in 1..7 /\ call.k \in Nat /\ ~(call.k > 0)
      /\ call.num \in Nat
  BY <1>1, InFlushIs
<1>3. /\ call' \in FlushLocals /\ call'.t = call.t + 1 /\ call'.k = call.k /\ call'.num = call.num
      /\ call'.left_nb_out = call.left_nb_out /\ call'.types = call.types
      /\ call'.max_nb_out = call.max_nb_out
  BY <1>1, <1>2, NextTypeIs
<1>4. call'.t # 1 /\ (call'.t <= 3 => call.t <= 3)
  BY <1>2, <1>3
<1> QED
  BY <1>1, <1>2, <1>3, <1>4 DEF RoomInv

LEMMA FlushTypeDoneRoom ==
  ASSUME TypeInv, RoomInv, TunnelsApart, FlushTypeDone
  PROVE  RoomInv' /\ call'.num = call.num + call.k /\ call'.t = call.t + 1
<1>1. InFlush /\ Entered /\ call' = TypeDone(call.k) /\ UNCHANGED arr
  BY DEF FlushTypeDone
<1>2. call \in FlushLocals /\ call.k \in Nat /\ call.t \in 1..7 /\ call.left_nb_out \in Nat
  BY <1>1, InFlushIs
<1>3. call.k <= call.left_nb_out /\ Len(arr') = call.num + call.k
  BY <1>1, <1>2, EnteredHasRoom
<1>4. call'.t = call.t + 1
  BY <1>1, <1>2, TypeDoneIs
<1> QED
  BY <1>1, <1>2, <1>3, <1>4, TypeDoneRoom

LEMMA NextRoom ==
  ASSUME TypeInv, RoomInv, TunnelsApart, RoomAsked, [Next]_vars
  PROVE  RoomInv'
<1>1. CASE UNCHANGED vars
  BY <1>1 DEF vars, RoomInv, CallsFlush
<1>2. CASE \E b \in Bursts(Pkts \ offered) : ReassembleCall(b)
  BY <1>2 DEF ReassembleCall, RoomInv, CallsFlush
<1>3. CASE ReassemblePkt
  <2>1. call \in ReassembleLocals
    BY <1>3, ReassemblePktIs
  <2>2. call' \in ReassembleLocals
    <3>1. CASE \E p : Returned(p)
      BY <2>1, <3>1, GivenBack DEF Returned
    <3>2. CASE call' = [call EXCEPT !.i = call.i + 1]
      BY <2>1, <3>2 DEF ReassembleLocals
    <3> QED
      BY <1>3, <3>1, <3>2, ReassemblePktIs
  <2> QED
    BY <2>2 DEF RoomInv, CallsFlush, ReassembleLocals
<1>4. CASE ReassembleReturn \/ FlushReturn \/ Tick
  BY <1>4 DEF ReassembleReturn, FlushReturn, Tick, RoomInv, CallsFlush
<1>5. ASSUME NEW timeout \in Timeouts, NEW n \in NbOut, NEW types \in {GroType, UdpTypes},
             FlushCall(timeout, types, n)
      PROVE  RoomInv'
  <2>1. /\ call' \in FlushLocals /\ call'.t = 1 /\ call'.k = 0 /\ call'.num = 0
        /\ call'.left_nb_out = n /\ call'.max_nb_out = n /\ arr' = <<>>
    BY <1>5, FlushCallTypeInv
  <2>2. n \in Nat /\ n > 0
    BY LeftFits DEF RoomAsked
  <2>3. Len(arr') = 0
    BY <2>1
  <2> QED
    BY <2>1, <2>2, <2>3 DEF RoomInv
<1>6. CASE FlushUnite
  BY <1>6 DEF FlushUnite, RoomInv, CallsFlush
<1> QED
  BY <1>1, <1>2, <1>3, <1>4, <1>5, <1>6, FlushSkipRoom, FlushWriteRoom, FlushTypeDoneRoom DEF Next

LEMMA AlwaysRoom ==
  ASSUME TunnelsApart, RoomAsked
  PROVE  Spec => [](TypeInv /\ RoomInv)
<1>1. Init => TypeInv /\ RoomInv
  BY InitTypeInv DEF Init, RoomInv, CallsFlush
<1>2. TypeInv /\ RoomInv /\ [Next]_vars => TypeInv' /\ RoomInv'
  BY NextTypeInv, NextRoom
<1> QED
  BY <1>1, <1>2, PTL DEF Spec

(* A flush over several tables never writes behind the end of out, and     *)
(* what each type is told of the room is what is left.  Without the two    *)
(* hypotheses it is false of the code.                                     *)
THEOREM OutIsNeverOverrun ==
  ASSUME TunnelsApart, RoomAsked
  PROVE  Spec => []OutNeverOverrun
<1>1. TypeInv /\ RoomInv => OutNeverOverrun
  <2> SUFFICES ASSUME TypeInv, RoomInv, CallsFlush  PROVE Len(arr) <= call.max_nb_out
    BY DEF OutNeverOverrun, CallsFlush
  <2>1. /\ call.k \in Nat /\ call.num \in Nat /\ call.left_nb_out \in Nat /\ Len(arr) \in Nat
    BY CallIs DEF TypeInv, TypeOK, FlushLocals
  <2> QED
    BY <2>1 DEF RoomInv
<1> QED
  BY <1>1, AlwaysRoom, PTL

-----------------------------------------------------------------------------
(* Completeness.                                                           *)

OnlyEnabledHold == \A T \in GroType : T \notin GroTypes => tbls[T] = {}

AllDue == call.types = GroTypes /\ call.timeout_cycles = 0 /\ call.num < call.max_nb_out

(* A flush of everything has emptied the tables that it is through with.   *)
EmptiedSoFar ==
  CallsFlush /\ AllDue => \A n \in 1..7 : n < call.t => tbls[TypeOrder[n]] = {}

EmptyInv == TimeInv /\ RoomInv /\ OnlyEnabledHold /\ EmptiedSoFar

LEMMA FlushStepEmpties ==
  ASSUME EmptyInv, TunnelsApart, FlushSkip \/ FlushUnite \/ FlushWrite \/ FlushTypeDone
  PROVE  OnlyEnabledHold' /\ EmptiedSoFar'
<1>1. /\ TypeInv /\ RoomInv /\ InFlush /\ CallsFlush /\ call \in FlushLocals /\ Flushing \in GroType
      /\ call'.max_nb_out = call.max_nb_out /\ call'.types = call.types
      /\ call'.timeout_cycles = call.timeout_cycles
  BY FlushStepIs DEF EmptyInv, TimeInv
<1>2. /\ \A T \in GroType : T # Flushing => tbls'[T] = tbls[T]
      /\ tbls[Flushing] = {} => tbls'[Flushing] = {}
  BY <1>1, FlushStepTables
<1>3. OnlyEnabledHold'
  BY <1>1, <1>2 DEF EmptyInv, OnlyEnabledHold
<1>4. call.t \in 1..7 /\ call.num \in Nat /\ call.k \in Nat
  BY <1>1, InFlushIs
<1>5. \A n \in 1..7 : n < call.t => TypeOrder[n] \in GroType /\ TypeOrder[n] # Flushing
  BY <1>4, TypeOrderIs DEF Flushing
<1>6. ASSUME AllDue, call'.t = call.t \/ (call'.t = call.t + 1 /\ tbls'[Flushing] = {})
      PROVE  EmptiedSoFar'
  <2>1. \A n \in 1..7 : n < call.t => tbls'[TypeOrder[n]] = {}
    BY <1>1, <1>2, <1>5, <1>6 DEF EmptyInv, EmptiedSoFar
  <2>2. \A n \in 1..7 : n < call'.t => n < call.t \/ (n = call.t /\ tbls'[Flushing] = {})
    BY <1>4, <1>6
  <2>3. \A n \in 1..7 : n < call'.t => tbls'[TypeOrder[n]] = {}
    BY <2>1, <2>2 DEF Flushing
  <2> QED
    BY <2>3 DEF EmptiedSoFar
<1>7. CASE FlushSkip
  <2>1. call'.num = call.num /\ call'.t = call.t + 1
    BY <1>1, <1>7, FlushSkipRoom
  <2>2. SUFFICES ASSUME AllDue'  PROVE EmptiedSoFar'
    BY <1>3 DEF EmptiedSoFar
  <2>3. AllDue
    BY <1>1, <2>1, <2>2 DEF AllDue
  <2>4. Flushing \notin GroTypes
    <3>1. call.left_nb_out > 0
      BY <1>1, <1>4, <2>3 DEF RoomInv, AllDue, FlushLocals
    <3> QED
      BY <1>7, <2>3, <3>1 DEF FlushSkip, Entered, AllDue
  <2>5. tbls'[Flushing] = {}
    BY <1>1, <1>2, <2>4 DEF EmptyInv, OnlyEnabledHold
  <2> QED
    BY <1>6, <2>1, <2>3, <2>5
<1>8. CASE FlushUnite
  <2>1. call' = call
    BY <1>8 DEF FlushUnite
  <2>2. AllDue' => AllDue
    BY <2>1 DEF AllDue
  <2> QED
    BY <1>3, <1>6, <2>1, <2>2 DEF EmptiedSoFar
<1>9. CASE FlushWrite
  <2>1. \/ call'.t = call.t /\ call'.num = call.num
        \/ call'.t = call.t + 1 /\ call'.num = call.max_nb_out
    BY <1>1, <1>9, FlushWriteRoom
  <2>2. SUFFICES ASSUME AllDue'  PROVE EmptiedSoFar'
    BY <1>3 DEF EmptiedSoFar
  <2>3. call'.t = call.t /\ AllDue
    <3>1. call'.num < call.max_nb_out /\ call.max_nb_out \in Nat
      BY <1>1, <2>2, InFlushIs DEF AllDue
    <3>2. call'.num # call.max_nb_out
      BY <3>1
    <3> QED
      BY <1>1, <2>1, <2>2, <3>1, <3>2 DEF AllDue
  <2> QED
    BY <1>6, <2>3
<1>10. CASE FlushTypeDone
  <2>1. /\ call'.num = call.num + call.k /\ call'.t = call.t + 1 /\ UNCHANGED tbls
        /\ FlushedOut(tbls[Flushing], call.flush_timestamp)
    BY <1>1, <1>10, FlushTypeDoneRoom DEF FlushTypeDone
  <2>2. SUFFICES ASSUME AllDue'  PROVE EmptiedSoFar'
    BY <1>3 DEF EmptiedSoFar
  <2>3. AllDue
    <3>1. call'.num < call.max_nb_out /\ call.max_nb_out \in Nat
      BY <1>1, <2>2, InFlushIs DEF AllDue
    <3>2. call.num < call.max_nb_out
      BY <1>4, <2>1, <3>1
    <3> QED
      BY <1>1, <2>2, <3>2 DEF AllDue
  <2>4. call.flush_timestamp = now
    <3>1. now \in 0..(ClockRange - 1) /\ ClockRange \in Nat \ {0} /\ now \in Int
      BY <1>1, ApiAssumption DEF TypeInv, TypeOK
    <3>2. (now - 0) % ClockRange = now
      BY <3>1
    <3> QED
      BY <1>1, <2>3, <3>2 DEF AllDue, EmptyInv, TimeInv, ClocksKept, FlushTimestamp
  <2>5. tbls[Flushing] = {}
    <3>1. \A r \in tbls[Flushing] : IsDue(r, call.flush_timestamp)
      BY <1>1, <2>4 DEF IsDue, EmptyInv, TimeInv, HeldBefore
    <3> QED
      BY <2>1, <3>1 DEF FlushedOut
  <2> QED
    BY <1>6, <2>1, <2>3, <2>5
<1> QED
  BY <1>3, <1>7, <1>8, <1>9, <1>10

LEMMA NextEmpty ==
  ASSUME EmptyInv, TunnelsApart, RoomAsked, [Next]_vars
  PROVE  EmptyInv'
<1>1. TimeInv' /\ RoomInv' /\ TypeInv /\ TypeInv'
  BY NextTimes, NextRoom DEF EmptyInv, TimeInv
<1> SUFFICES OnlyEnabledHold' /\ EmptiedSoFar'
  BY <1>1 DEF EmptyInv
<1>2. CASE UNCHANGED vars
  BY <1>2 DEF vars, EmptyInv, OnlyEnabledHold, EmptiedSoFar, AllDue, CallsFlush
<1>3. CASE \E b \in Bursts(Pkts \ offered) : ReassembleCall(b)
  BY <1>3 DEF ReassembleCall, EmptyInv, OnlyEnabledHold, EmptiedSoFar, CallsFlush
<1>4. CASE ReassemblePkt
  <2>1. ~CallsFlush'
    <3>1. call \in ReassembleLocals
      BY <1>1, <1>4, ReassemblePktIs
    <3>2. call' \in ReassembleLocals
      <4>1. CASE \E p : Returned(p)
        BY <3>1, <4>1, GivenBack DEF Returned
      <4>2. CASE call' = [call EXCEPT !.i = call.i + 1]
        BY <3>1, <4>2 DEF ReassembleLocals
      <4> QED
        BY <1>1, <1>4, <4>1, <4>2, ReassemblePktIs
    <3> QED
      BY <3>2 DEF CallsFlush, ReassembleLocals
  <2>2. OnlyEnabledHold'
    <3>1. \/ UNCHANGED tbls
          \/ \E T \in GroTypes : \E h : tbls' = [tbls EXCEPT ![T] = h]
      BY <1>1, <1>4, ReassemblePktIs
    <3>2. tbls \in [GroType -> SUBSET Runs]
      BY <1>1 DEF TypeInv, TablesFit
    <3> QED
      BY <3>1, <3>2 DEF EmptyInv, OnlyEnabledHold
  <2> QED
    BY <2>1, <2>2 DEF EmptiedSoFar
<1>5. CASE ReassembleReturn \/ FlushReturn \/ Tick
  <2>1. call' = NULL /\ UNCHANGED tbls
    BY <1>5 DEF ReassembleReturn, FlushReturn, Tick
  <2> QED
    BY <2>1 DEF EmptyInv, OnlyEnabledHold, EmptiedSoFar, CallsFlush
<1>6. ASSUME NEW timeout \in Timeouts, NEW n \in NbOut, NEW types \in {GroType, UdpTypes},
             FlushCall(timeout, types, n)
      PROVE  OnlyEnabledHold' /\ EmptiedSoFar'
  <2>1. call'.t = 1 /\ UNCHANGED tbls
    BY <1>1, <1>6, FlushCallTypeInv
  <2>2. \A m \in 1..7 : ~(m < call'.t)
    BY <2>1
  <2> QED
    BY <2>1, <2>2 DEF EmptyInv, OnlyEnabledHold, EmptiedSoFar
<1>7. CASE FlushSkip \/ FlushUnite \/ FlushWrite \/ FlushTypeDone
  BY <1>7, FlushStepEmpties
<1> QED
  BY <1>2, <1>3, <1>4, <1>5, <1>6, <1>7 DEF Next

(* A flush of all types with timeout 0 that does not fill out leaves no    *)
(* packet in any table: no type is passed over, and none is left early,    *)
(* because the room the types before it took was counted right.            *)
THEOREM FlushOfAllEmpties ==
  ASSUME TunnelsApart, RoomAsked
  PROVE  Spec => FlushAllEmpties
<1>1. Init => EmptyInv
  <2>1. Init => TimeInv /\ RoomInv
    BY InitTypeInv DEF Init, TimeInv, HeldBefore, ClocksKept, RoomInv, InReassemble, CallsFlush
  <2> QED
    BY <2>1 DEF Init, EmptyInv, OnlyEnabledHold, EmptiedSoFar, CallsFlush
<1>2. EmptyInv /\ [Next]_vars => EmptyInv'
  BY NextEmpty
<1>3. EmptyInv /\ [Next]_vars =>
        [ FlushReturn /\ call.types = GroTypes /\ call.timeout_cycles = 0
                      /\ call.num < call.max_nb_out
          => HeldRuns = {} ]_vars
  <2> SUFFICES ASSUME EmptyInv, FlushReturn, AllDue  PROVE HeldRuns = {}
    BY DEF AllDue
  <2>1. CallsFlush /\ call \in FlushLocals /\ call.t > 7
    BY CallIs, TypeOrderIs DEF FlushReturn, CallsFlush, EmptyInv, TimeInv, TypeInv
  <2>2. \A n \in 1..7 : n < call.t
    BY <2>1 DEF FlushLocals
  <2>3. \A n \in 1..7 : tbls[TypeOrder[n]] = {}
    BY <2>1, <2>2 DEF EmptyInv, EmptiedSoFar
  <2>4. \A T \in GroType : tbls[T] = {}
    BY <2>3, TypeOrderIs
  <2> QED
    BY <2>4 DEF HeldRuns
<1> QED
  BY <1>1, <1>2, <1>3, PTL DEF Spec, FlushAllEmpties

-----------------------------------------------------------------------------
(* Refinement of the service.                                              *)

(* A run counts up, so that no run continues itself.                       *)
CountsUp(r) == \A n \in 1..Len(r.pkts) : r.pkts[n].seq = r.pkts[1].seq + (n - 1)

(* The tables t with the packets o: no packet is in two runs, of one table *)
(* or of two, and each was handed in.                                      *)
Placed(t, o) ==
  /\ t \in [GroType -> SUBSET Runs]
  /\ \A T, U \in GroType : \A r \in t[T], s \in t[U] :
        InRun(r) \cap InRun(s) # {} => T = U /\ r = s
  /\ \A T \in GroType : \A r \in t[T] : InRun(r) \subseteq o /\ CountsUp(r)

PlaceInv == BurstInv /\ Placed(tbls, offered)

(* What the service sees of the tables.                                    *)
PktsIn(t) == {r.pkts : r \in UNION {t[T] : T \in GroType}}

HeldPkts == {r.pkts : r \in HeldRuns}

LEMMA RunFacts ==
  ASSUME NEW r \in Runs
  PROVE  /\ r.pkts \in Seq(Pkts) /\ Len(r.pkts) \in Nat \ {0} /\ r.pkts[1] \in InRun(r)
         /\ DOMAIN r.pkts = 1..Len(r.pkts)
         /\ \A n \in 1..Len(r.pkts) : r.pkts[n] \in Pkts /\ r.pkts[n].seq \in Int
         /\ InRun(r) \subseteq Pkts
<1>1. r.pkts \in Seq(Pkts) /\ r.pkts # <<>>
  BY DEF Runs
<1>2. Len(r.pkts) \in Nat \ {0} /\ DOMAIN r.pkts = 1..Len(r.pkts)
  BY <1>1
<1>3. \A n \in 1..Len(r.pkts) : r.pkts[n] \in Pkts
  BY <1>1
<1> QED
  BY <1>1, <1>2, <1>3, ApiAssumption DEF InRun

LEMMA JoinedCountsUp ==
  ASSUME NEW r \in Runs, NEW s \in Runs, NEW time \in 0..MaxTime,
         CountsUp(r), CountsUp(s), Mergeable(r, s)
  PROVE  CountsUp(Joined(r, s, time))
<1> DEFINE a == r.pkts
           b == s.pkts
           c == a \o b
<1>1. /\ a \in Seq(Pkts) /\ Len(a) \in Nat \ {0} /\ \A n \in 1..Len(a) : a[n].seq \in Int
      /\ b \in Seq(Pkts) /\ Len(b) \in Nat \ {0} /\ \A n \in 1..Len(b) : b[n].seq \in Int
  BY RunFacts
<1>2. b[1].seq = a[Len(a)].seq + 1
  BY DEF Mergeable, Continues, LastPkt
<1>3. /\ \A n \in 1..Len(a) : a[n].seq = a[1].seq + (n - 1)
      /\ \A n \in 1..Len(b) : b[n].seq = b[1].seq + (n - 1)
  BY DEF CountsUp
<1>4. Joined(r, s, time).pkts = c
  BY JoinedIsRun
<1> HIDE DEF a, b
<1>5. /\ Len(c) = Len(a) + Len(b)
      /\ \A n \in 1..Len(a) : c[n] = a[n]
      /\ \A n \in 1..Len(b) : c[Len(a) + n] = b[n]
  BY <1>1, Concatenated
<1> HIDE DEF c
<1>6. c[1] = a[1] /\ b[1].seq = a[1].seq + Len(a)
  <2>1. 1 \in 1..Len(a) /\ Len(a) \in 1..Len(a)
    BY <1>1
  <2>2. a[Len(a)].seq = a[1].seq + (Len(a) - 1) /\ a[1].seq \in Int
    BY <1>1, <1>3, <2>1
  <2> QED
    BY <1>1, <1>2, <1>5, <2>1, <2>2
<1>7. ASSUME NEW n \in 1..Len(c)  PROVE c[n].seq = c[1].seq + (n - 1)
  <2>1. CASE n \in 1..Len(a)
    BY <1>3, <1>5, <1>6, <2>1
  <2>2. CASE n \notin 1..Len(a)
    <3> DEFINE m == n - Len(a)
    <3>1. m \in 1..Len(b) /\ n = Len(a) + m
      BY <1>1, <1>5, <2>2
    <3>2. c[n] = b[m] /\ b[m].seq = b[1].seq + (m - 1)
      BY <1>3, <1>5, <3>1
    <3>3. a[1].seq \in Int /\ m \in Int /\ Len(a) \in Int
      BY <1>1, <3>1
    <3> HIDE DEF m
    <3> QED
      BY <1>6, <3>1, <3>2, <3>3
  <2> QED
    BY <2>1, <2>2
<1> QED
  BY <1>4, <1>7 DEF CountsUp

LEMMA NotItsOwn ==
  ASSUME NEW r \in Runs, NEW s \in Runs, CountsUp(r), Mergeable(r, s)
  PROVE  r # s
<1>1. SUFFICES ASSUME r = s  PROVE FALSE
  OBVIOUS
<1>2. r.pkts[1].seq = r.pkts[Len(r.pkts)].seq + 1
  BY <1>1 DEF Mergeable, Continues, LastPkt
<1>3. Len(r.pkts) \in Nat \ {0} /\ r.pkts[1].seq \in Int
  BY RunFacts
<1>4. r.pkts[Len(r.pkts)].seq = r.pkts[1].seq + (Len(r.pkts) - 1)
  <2>1. Len(r.pkts) \in 1..Len(r.pkts)
    BY <1>3
  <2>2. \A n \in 1..Len(r.pkts) : r.pkts[n].seq = r.pkts[1].seq + (n - 1)
    BY DEF CountsUp
  <2> QED
    BY ONLY <2>1, <2>2
<1> QED
  BY <1>2, <1>3, <1>4

(* Table T is left without the runs R, with at most a new run j, whose     *)
(* packets were in R or are new.                                           *)
Exchanged(t, o, u, o2, T, R, j, N) ==
  /\ Placed(t, o) /\ o \subseteq o2 /\ T \in GroType /\ R \subseteq t[T]
  /\ j \in Runs /\ CountsUp(j) /\ InRun(j) \subseteq o2 /\ N \subseteq {j}
  /\ \A q \in InRun(j) : q \in o => \E r \in R : q \in InRun(r)
  /\ u = [t EXCEPT ![T] = (t[T] \ R) \cup N]

LEMMA StaysPlaced ==
  ASSUME NEW t, NEW o, NEW u, NEW o2, NEW T, NEW R, NEW j, NEW N,
         Exchanged(t, o, u, o2, T, R, j, N)
  PROVE  /\ Placed(u, o2)
         /\ PktsIn(u) = (PktsIn(t) \ {r.pkts : r \in R}) \cup {r.pkts : r \in N}
<1>0. /\ Placed(t, o) /\ o \subseteq o2 /\ T \in GroType /\ R \subseteq t[T]
      /\ j \in Runs /\ CountsUp(j) /\ InRun(j) \subseteq o2 /\ N \subseteq {j}
      /\ \A q \in InRun(j) : q \in o => \E r \in R : q \in InRun(r)
      /\ u = [t EXCEPT ![T] = (t[T] \ R) \cup N]
  BY DEF Exchanged
<1> USE <1>0
<1>1. /\ \A U \in GroType : u[U] = IF U = T THEN (t[T] \ R) \cup N ELSE t[U]
      /\ u \in [GroType -> SUBSET Runs]
  BY DEF Placed
<1>2. \A U \in GroType : \A r \in u[U] : (r \in t[U] /\ (U = T => r \notin R)) \/ (U = T /\ r = j)
  BY <1>1
<1>3. \A U \in GroType : \A r \in u[U] : InRun(r) \subseteq o2 /\ CountsUp(r)
  BY <1>2 DEF Placed
<1>4. \A U, V \in GroType : \A r \in t[U], s \in t[V] : InRun(r) \cap InRun(s) # {} => U = V /\ r = s
  BY DEF Placed
<1>5. \A U \in GroType : \A s \in t[U] : (U = T => s \notin R) => InRun(j) \cap InRun(s) = {}
  <2> SUFFICES ASSUME NEW U \in GroType, NEW s \in t[U], U = T => s \notin R,
                      NEW q \in InRun(j), q \in InRun(s)
               PROVE  FALSE
    OBVIOUS
  <2>1. q \in o
    BY DEF Placed
  <2>2. PICK r \in R : q \in InRun(r)
    BY <2>1
  <2>3. r \in t[T] /\ InRun(r) \cap InRun(s) # {}
    BY <2>2
  <2>4. T = U /\ r = s
    BY <1>4, <2>3
  <2> QED
    BY <2>2, <2>4
<1>6. \A U, V \in GroType : \A r \in u[U], s \in u[V] : InRun(r) \cap InRun(s) # {} => U = V /\ r = s
  <2> SUFFICES ASSUME NEW U \in GroType, NEW V \in GroType, NEW r \in u[U], NEW s \in u[V],
                      InRun(r) \cap InRun(s) # {}
               PROVE  U = V /\ r = s
    OBVIOUS
  <2>1. CASE r \in t[U] /\ (U = T => r \notin R) /\ s \in t[V] /\ (V = T => s \notin R)
    BY <1>4, <2>1
  <2>2. CASE r \in t[U] /\ (U = T => r \notin R) /\ V = T /\ s = j
    BY <1>5, <2>2
  <2>3. CASE s \in t[V] /\ (V = T => s \notin R) /\ U = T /\ r = j
    BY <1>5, <2>3
  <2>4. CASE U = T /\ r = j /\ V = T /\ s = j
    BY <2>4
  <2> QED
    BY <1>2, <2>1, <2>2, <2>3, <2>4
<1>7. Placed(u, o2)
  BY <1>1, <1>3, <1>6 DEF Placed
<1>8. ASSUME NEW U \in GroType, NEW r \in t[U], NEW s \in R, r.pkts = s.pkts
      PROVE  U = T /\ r = s
  <2>1. r \in Runs /\ s \in Runs /\ s \in t[T]
    BY DEF Placed
  <2>2. r.pkts[1] \in InRun(r) /\ s.pkts[1] \in InRun(s)
    BY <2>1, RunFacts
  <2>3. InRun(r) \cap InRun(s) # {}
    BY <1>8, <2>2
  <2> QED
    BY <1>4, <2>1, <2>3
<1>9. ASSUME NEW x \in PktsIn(u)
      PROVE  x \in (PktsIn(t) \ {r.pkts : r \in R}) \cup {r.pkts : r \in N}
  <2>1. PICK U, r : U \in GroType /\ r \in u[U] /\ x = r.pkts
    BY DEF PktsIn
  <2>2. CASE U = T /\ r \in N
    BY <2>1, <2>2
  <2>3. CASE r \in t[U] /\ (U = T => r \notin R)
    <3>1. x \in PktsIn(t)
      BY <2>1, <2>3 DEF PktsIn
    <3>2. \A s \in R : x # s.pkts
      BY <1>8, <2>1, <2>3
    <3> QED
      BY <3>1, <3>2
  <2> QED
    BY <1>1, <2>1, <2>2, <2>3
<1>10. ASSUME NEW x \in (PktsIn(t) \ {r.pkts : r \in R}) \cup {r.pkts : r \in N}
       PROVE  x \in PktsIn(u)
  <2>1. CASE x \in {r.pkts : r \in N}
    <3>1. PICK r \in N : x = r.pkts
      BY <2>1
    <3>2. r \in u[T]
      BY <1>1, <3>1
    <3> QED
      BY <3>1, <3>2 DEF PktsIn
  <2>2. CASE x \in PktsIn(t) \ {r.pkts : r \in R}
    <3>1. PICK U, r : U \in GroType /\ r \in t[U] /\ x = r.pkts
      BY <2>2 DEF PktsIn
    <3>2. U = T => r \notin R
      BY <2>2, <3>1
    <3>3. r \in u[U]
      BY <1>1, <3>1, <3>2
    <3> QED
      BY <3>1, <3>3 DEF PktsIn
  <2> QED
    BY <2>1, <2>2
<1> QED
  BY <1>7, <1>9, <1>10

(* A run of tables that are placed.                                        *)
LEMMA PlacedRun ==
  ASSUME NEW t, NEW o, Placed(t, o), NEW T \in GroType, NEW r \in t[T]
  PROVE  /\ r \in Runs /\ r.time \in 0..MaxTime /\ CountsUp(r) /\ InRun(r) \subseteq o
         /\ r.pkts \in PktsIn(t) /\ r.pkts \in Seq(Pkts)
<1>1. r \in Runs /\ CountsUp(r) /\ InRun(r) \subseteq o
  BY DEF Placed
<1>2. r.pkts \in PktsIn(t)
  BY DEF PktsIn
<1> QED
  BY <1>1, <1>2 DEF Runs

LEMMA HeldPktsIs == HeldPkts = PktsIn(tbls) /\ HeldPkts' = PktsIn(tbls')
  BY DEF HeldPkts, HeldRuns, PktsIn

(* What the service sees of a packet handed in.                            *)
PktRefused(p) == back' = back \cup {p} /\ HeldPkts' = HeldPkts

PktHeld(p) == back' = back /\ HeldPkts' = HeldPkts \cup {<<p>>}

PktAppended(p) ==
  /\ back' = back
  /\ \E b \in HeldPkts : /\ Continues(p, b[Len(b)])
                         /\ HeldPkts' = (HeldPkts \ {b}) \cup {Append(b, p)}

PktPrepended(p) ==
  /\ back' = back
  /\ \E b \in HeldPkts : /\ Continues(b[1], p)
                         /\ HeldPkts' = (HeldPkts \ {b}) \cup {<<p>> \o b}

(* The tables t with h for the table of T, of which p may have hurried one *)
(* run.  A run that is hurried keeps its packets.                          *)
Hastened(t, o, u, T, p, h) ==
  /\ Placed(t, o) /\ T \in GroType /\ u = [t EXCEPT ![T] = h]
  /\ h = t[T] \/ HurriedIn(T, t[T], p, h)

LEMMA HastenedPlaced ==
  ASSUME NEW t, NEW o, NEW u, NEW T, NEW p, NEW h, Hastened(t, o, u, T, p, h)
  PROVE  Placed(u, o) /\ PktsIn(u) = PktsIn(t) /\ u[T] = h
<1>1. Placed(t, o) /\ T \in GroType /\ u = [t EXCEPT ![T] = h] /\ u[T] = h
  BY DEF Hastened, Placed
<1>2. CASE h = t[T]
  <2>1. u = t
    BY <1>1, <1>2 DEF Placed
  <2> QED
    BY <1>1, <2>1
<1>3. CASE HurriedIn(T, t[T], p, h)
  <2>1. PICK r \in t[T] : h = (t[T] \ {r}) \cup {Hurried(r)}
    BY <1>3 DEF HurriedIn
  <2>2. /\ r \in Runs /\ CountsUp(r) /\ InRun(r) \subseteq o
        /\ r.pkts \in PktsIn(t)
    BY <1>1, PlacedRun
  <2> DEFINE j == Hurried(r)
             R == {r}
             N == {j}
  <2>3. j \in Runs /\ j.pkts = r.pkts /\ InRun(j) = InRun(r)
    BY <2>2, HurriedIsRun
  <2>4. /\ R \subseteq t[T] /\ N \subseteq {j} /\ u = [t EXCEPT ![T] = (t[T] \ R) \cup N]
        /\ {q.pkts : q \in R} = {r.pkts} /\ {q.pkts : q \in N} = {j.pkts} /\ r \in R
    BY <1>1, <2>1
  <2> HIDE DEF j, R, N
  <2>5. Exchanged(t, o, u, o, T, R, j, N)
    BY <1>1, <2>2, <2>3, <2>4 DEF Exchanged, CountsUp
  <2>6. /\ Placed(u, o)
        /\ PktsIn(u) = (PktsIn(t) \ {q.pkts : q \in R}) \cup {q.pkts : q \in N}
    BY ONLY <2>5, StaysPlaced
  <2> QED
    BY <1>1, <2>2, <2>3, <2>4, <2>6
<1> QED
  BY <1>2, <1>3 DEF Hastened

(* Runs R, of which the packets of a or of b were, give way to a and b in  *)
(* one.                                                                    *)
JoinedIn(t, o, u, o2, T, R, a, b, time) ==
  /\ Placed(t, o) /\ o \subseteq o2 /\ T \in GroType /\ R \subseteq t[T]
  /\ a \in Runs /\ b \in Runs /\ time \in 0..MaxTime
  /\ CountsUp(a) /\ CountsUp(b) /\ Mergeable(a, b)
  /\ InRun(a) \subseteq o2 /\ InRun(b) \subseteq o2
  /\ \A q \in InRun(a) \cup InRun(b) : q \in o => \E r \in R : q \in InRun(r)
  /\ u = [t EXCEPT ![T] = (t[T] \ R) \cup {Joined(a, b, time)}]

AfterJoining(t, u, o2, R, a, b) ==
  /\ Placed(u, o2)
  /\ PktsIn(u) = (PktsIn(t) \ {r.pkts : r \in R}) \cup {a.pkts \o b.pkts}

LEMMA JoinedRunPlaced ==
  ASSUME NEW t, NEW o, NEW u, NEW o2, NEW T, NEW R, NEW a, NEW b, NEW time,
         JoinedIn(t, o, u, o2, T, R, a, b, time)
  PROVE  AfterJoining(t, u, o2, R, a, b)
<1> DEFINE j == Joined(a, b, time)
           N == {j}
<1>1. j \in Runs /\ CountsUp(j) /\ InRun(j) = InRun(a) \cup InRun(b) /\ j.pkts = a.pkts \o b.pkts
  BY JoinedCountsUp, JoinedIsRun DEF JoinedIn
<1>2. u = [t EXCEPT ![T] = (t[T] \ R) \cup N] /\ N \subseteq {j}
  BY DEF JoinedIn
<1>3. {r.pkts : r \in N} = {a.pkts \o b.pkts}
  BY <1>1
<1> HIDE DEF j, N
<1>4. InRun(j) \subseteq o2 /\ \A q \in InRun(j) : q \in o => \E r \in R : q \in InRun(r)
  BY <1>1 DEF JoinedIn
<1>5. Exchanged(t, o, u, o2, T, R, j, N)
  BY <1>1, <1>2, <1>4 DEF Exchanged, JoinedIn
<1>6. Placed(u, o2) /\ PktsIn(u) = (PktsIn(t) \ {r.pkts : r \in R}) \cup {r.pkts : r \in N}
  BY ONLY <1>5, StaysPlaced
<1> QED
  BY <1>3, <1>6 DEF AfterJoining

(* The packet p is handled in the table T of t, as x.                      *)
HandledIn(t, o, u, T, p, time, c) ==
  /\ Placed(t, o) /\ T \in GroType /\ p \in Pkts /\ p \notin o /\ time \in 0..MaxTime
  /\ Handled(c, t[T], Run(p, time), MaxItemNum) /\ u = [t EXCEPT ![T] = c.held]

AfterHandling(t, o, u, p, c) ==
  /\ Placed(u, o \cup {p})
  /\ \/ c.ret < 0 /\ PktsIn(u) = PktsIn(t)
     \/ c.ret >= 0 /\ PktsIn(u) = PktsIn(t) \cup {<<p>>}
     \/ c.ret >= 0 /\ \E b \in PktsIn(t) :
           /\ Continues(p, b[Len(b)])
           /\ PktsIn(u) = (PktsIn(t) \ {b}) \cup {Append(b, p)}
     \/ c.ret >= 0 /\ \E b \in PktsIn(t) :
           /\ Continues(b[1], p)
           /\ PktsIn(u) = (PktsIn(t) \ {b}) \cup {<<p>> \o b}

LEMMA HandledPlaced ==
  ASSUME NEW t, NEW o, NEW u, NEW T, NEW p, NEW time, NEW c, HandledIn(t, o, u, T, p, time, c)
  PROVE  AfterHandling(t, o, u, p, c)
<1>0. /\ Placed(t, o) /\ T \in GroType /\ p \in Pkts /\ p \notin o /\ time \in 0..MaxTime
      /\ Handled(c, t[T], Run(p, time), MaxItemNum) /\ u = [t EXCEPT ![T] = c.held]
  BY DEF HandledIn
<1> USE <1>0
<1> DEFINE x == Run(p, time)
           o2 == o \cup {p}
<1>1. x \in Runs /\ InRun(x) = {p} /\ x.pkts = <<p>> /\ x.pkts[1] = p /\ Len(x.pkts) = 1
  BY RunIsRun DEF Run
<1>2. CountsUp(x)
  <2>1. \A n \in 1..1 : n = 1
    OBVIOUS
  <2>2. p.seq \in Int
    BY ApiAssumption
  <2> HIDE DEF x
  <2>3. \A n \in 1..Len(x.pkts) : x.pkts[n].seq = x.pkts[1].seq + (n - 1)
    BY <1>1, <2>1, <2>2
  <2> QED
    BY <2>3 DEF CountsUp
<1>3. Handled(c, t[T], x, MaxItemNum)
  OBVIOUS
<1>4. o \subseteq o2 /\ InRun(x) \subseteq o2
  BY <1>1
<1>5. CASE c = [ret |-> -1, held |-> t[T]]
  <2>1. u = t /\ c.ret < 0
    BY <1>5 DEF Placed
  <2>2. Placed(t, o \cup {p})
    BY DEF Placed
  <2> QED
    BY <2>1, <2>2 DEF AfterHandling
<1>6. CASE c = [ret |-> 0, held |-> t[T] \cup {x}]
  <2> DEFINE R == {}
             N == {x}
  <2>1. c.ret >= 0 /\ u = [t EXCEPT ![T] = (t[T] \ R) \cup N] /\ R \subseteq t[T] /\ N \subseteq {x}
    BY <1>6
  <2>2. {r.pkts : r \in R} = {} /\ {r.pkts : r \in N} = {<<p>>}
    BY <1>1
  <2> HIDE DEF R, N, x, o2
  <2>3. Exchanged(t, o, u, o2, T, R, x, N)
    BY <1>1, <1>2, <1>4, <2>1 DEF Exchanged
  <2>4. Placed(u, o2) /\ PktsIn(u) = (PktsIn(t) \ {r.pkts : r \in R}) \cup {r.pkts : r \in N}
    BY ONLY <2>3, StaysPlaced
  <2> QED
    BY <2>1, <2>2, <2>4 DEF o2, AfterHandling
<1> HIDE DEF x, o2
<1>7. ASSUME NEW r \in t[T], NEW a \in {r, x}, NEW b \in {r, x}, a # b, Mergeable(a, b),
             u = [t EXCEPT ![T] = (t[T] \ {r}) \cup {Joined(a, b, r.time)}]
      PROVE  Placed(u, o2) /\ PktsIn(u) = (PktsIn(t) \ {r.pkts}) \cup {a.pkts \o b.pkts}
  <2> DEFINE R == {r}
  <2>1. r \in Runs /\ CountsUp(r) /\ r.time \in 0..MaxTime /\ InRun(r) \subseteq o
    BY PlacedRun
  <2>2. /\ a \in Runs /\ b \in Runs /\ CountsUp(a) /\ CountsUp(b)
        /\ InRun(a) \subseteq o2 /\ InRun(b) \subseteq o2
    BY <1>1, <1>2, <1>4, <2>1
  <2>3. u = [t EXCEPT ![T] = (t[T] \ R) \cup {Joined(a, b, r.time)}]
    BY <1>7
  <2>4. \A q \in InRun(a) \cup InRun(b) : q \in o => q \in InRun(r)
    BY <1>1
  <2>5. /\ R \subseteq t[T] /\ {s.pkts : s \in R} = {r.pkts}
        /\ \A q \in InRun(a) \cup InRun(b) : q \in o => \E s \in R : q \in InRun(s)
    BY <2>4
  <2> HIDE DEF R
  <2> DEFINE time_r == r.time
  <2>6. JoinedIn(t, o, u, o2, T, R, a, b, time_r)
    BY <1>4, <1>7, <2>1, <2>2, <2>3, <2>5 DEF JoinedIn
  <2> HIDE DEF time_r
  <2>7. AfterJoining(t, u, o2, R, a, b)
    BY ONLY <2>6, JoinedRunPlaced
  <2> QED
    BY <2>5, <2>7 DEF AfterJoining
<1>8. ASSUME NEW r \in t[T]
      PROVE  r # x /\ r.pkts \o <<p>> = Append(r.pkts, p) /\ r.pkts \in PktsIn(t)
  <2>1. r \in Runs /\ InRun(r) \subseteq o /\ r.pkts \in Seq(Pkts) /\ r.pkts \in PktsIn(t)
    BY PlacedRun
  <2>2. r # x
    BY <1>1, <2>1
  <2> DEFINE s == r.pkts
  <2>3. s \in Seq(Pkts)
    BY <2>1
  <2> HIDE DEF s
  <2>4. s \o <<p>> = Append(s, p)
    BY <2>3
  <2> QED
    BY <2>1, <2>2, <2>4 DEF s
<1>9. ASSUME NEW r \in t[T], Mergeable(r, x),
             c = [ret |-> 1, held |-> (t[T] \ {r}) \cup {Joined(r, x, r.time)}]
      PROVE  /\ Placed(u, o2) /\ c.ret >= 0
             /\ \E b \in PktsIn(t) : /\ Continues(p, b[Len(b)])
                                     /\ PktsIn(u) = (PktsIn(t) \ {b}) \cup {Append(b, p)}
  <2>1. c.ret >= 0 /\ u = [t EXCEPT ![T] = (t[T] \ {r}) \cup {Joined(r, x, r.time)}]
    BY <1>9
  <2>2. Placed(u, o2) /\ PktsIn(u) = (PktsIn(t) \ {r.pkts}) \cup {r.pkts \o x.pkts}
    BY <1>7, <1>8, <1>9, <2>1
  <2>3. Continues(p, r.pkts[Len(r.pkts)])
    BY <1>1, <1>9 DEF Mergeable, LastPkt
  <2>4. PktsIn(u) = (PktsIn(t) \ {r.pkts}) \cup {Append(r.pkts, p)}
    BY <1>1, <1>8, <2>2
  <2> QED
    BY <1>8, <2>1, <2>2, <2>3, <2>4
<1>10. ASSUME NEW r \in t[T], Mergeable(x, r),
              c = [ret |-> 1, held |-> (t[T] \ {r}) \cup {Joined(x, r, r.time)}]
       PROVE  /\ Placed(u, o2) /\ c.ret >= 0
              /\ \E b \in PktsIn(t) : /\ Continues(b[1], p)
                                      /\ PktsIn(u) = (PktsIn(t) \ {b}) \cup {<<p>> \o b}
  <2>1. c.ret >= 0 /\ u = [t EXCEPT ![T] = (t[T] \ {r}) \cup {Joined(x, r, r.time)}]
    BY <1>10
  <2>2. Placed(u, o2) /\ PktsIn(u) = (PktsIn(t) \ {r.pkts}) \cup {x.pkts \o r.pkts}
    BY <1>7, <1>8, <1>10, <2>1
  <2>3. Continues(r.pkts[1], p)
    BY <1>1, <1>10 DEF Mergeable, LastPkt
  <2>4. PktsIn(u) = (PktsIn(t) \ {r.pkts}) \cup {<<p>> \o r.pkts}
    BY <1>1, <2>2
  <2> QED
    BY <1>8, <2>1, <2>2, <2>3, <2>4
<1> QED
  BY <1>3, <1>5, <1>6, <1>9, <1>10 DEF Handled, AfterHandling, o2, x

LEMMA ReassemblePktPlaced ==
  ASSUME PlaceInv, ReassemblePkt
  PROVE  LET p == arr[call.i].pkts[1]
         IN  /\ Placed(tbls, offered)'
             /\ p \in Pkts /\ p \notin offered /\ offered' = offered \cup {p} /\ got' = got
             /\ PktRefused(p) \/ PktHeld(p) \/ PktAppended(p) \/ PktPrepended(p)
<1> DEFINE p == arr[call.i].pkts[1]
           time == call.current_time
<1>1. /\ TypeInv /\ Placed(tbls, offered)
      /\ call \in ReassembleLocals /\ call.i \in 1..Len(arr) /\ p \in Pkts
      /\ offered' = offered \cup {p} /\ got' = got
  BY ReassemblePktIs DEF PlaceInv, BurstInv
<1>2. p \notin offered /\ time \in 0..MaxTime
  <2>1. CompactionSafe /\ InReassemble
    BY <1>1, CallIs DEF PlaceInv, BurstInv, TypeInv
  <2>2. call.i \in call.i..Len(arr)
    BY <1>1 DEF TypeInv, TypeOK
  <2> QED
    BY <1>1, <2>1, <2>2 DEF CompactionSafe, ReassembleLocals
<1>3. ASSUME Returned(p), PktsIn(tbls') = PktsIn(tbls)  PROVE PktRefused(p)
  BY <1>3, HeldPktsIs DEF Returned, PktRefused
<1>4. \/ Returned(p) /\ UNCHANGED tbls
      \/ \E T \in GroType : \E o \in ReassembleOutcomes(T, tbls[T], p, time, MaxItemNum) :
            /\ tbls' = [tbls EXCEPT ![T] = o.held]
            /\ \/ o.ret < 0 /\ Returned(p)
               \/ o.ret >= 0 /\ back' = back
  BY <1>1, ReassemblePktIs
<1> HIDE DEF p, time
<1>5. CASE Returned(p) /\ UNCHANGED tbls
  <2>1. Placed(tbls, offered)'
    BY <1>1, <1>5 DEF Placed
  <2>2. PktRefused(p)
    BY <1>3, <1>5
  <2> QED
    BY <1>1, <1>2, <2>1, <2>2 DEF p
<1>6. ASSUME NEW T \in GroType, NEW o \in ReassembleOutcomes(T, tbls[T], p, time, MaxItemNum),
             tbls' = [tbls EXCEPT ![T] = o.held],
             \/ o.ret < 0 /\ Returned(p)
             \/ o.ret >= 0 /\ back' = back
      PROVE  /\ Placed(tbls, offered)'
             /\ PktRefused(p) \/ PktHeld(p) \/ PktAppended(p) \/ PktPrepended(p)
  <2>1. CASE o = [ret |-> -1, held |-> tbls[T]]
    <3>1. Returned(p) /\ UNCHANGED tbls
      BY <1>1, <1>6, <2>1 DEF Placed
    <3>2. Placed(tbls, offered)'
      BY <1>1, <3>1 DEF Placed
    <3> QED
      BY <1>3, <3>1, <3>2
  <2>2. ASSUME Takes(T, p), NEW h \in Prepared(tbls[T], p), Handled(o, h, Run(p, time), MaxItemNum)
        PROVE  /\ Placed(tbls, offered)'
               /\ PktRefused(p) \/ PktHeld(p) \/ PktAppended(p) \/ PktPrepended(p)
    <3> DEFINE t == [tbls EXCEPT ![T] = h]
               u == tbls'
    <3>1. h = tbls[T] \/ HurriedIn(T, tbls[T], p, h)
      BY <2>2, PreparedIs
    <3>2. Hastened(tbls, offered, t, T, p, h)
      BY <1>1, <3>1 DEF Hastened
    <3>3. u = [t EXCEPT ![T] = o.held]
      BY <1>1, <1>6 DEF Placed
    <3> HIDE DEF t, u
    <3>4. Placed(t, offered) /\ PktsIn(t) = PktsIn(tbls) /\ t[T] = h
      BY ONLY <3>2, HastenedPlaced
    <3>5. HandledIn(t, offered, u, T, p, time, o)
      BY <1>1, <1>2, <2>2, <3>3, <3>4 DEF HandledIn
    <3>6. AfterHandling(t, offered, u, p, o)
      BY ONLY <3>5, HandledPlaced
    <3>7. /\ Placed(u, offered \cup {p})
          /\ \/ o.ret < 0 /\ PktsIn(u) = PktsIn(t)
             \/ o.ret >= 0 /\ PktsIn(u) = PktsIn(t) \cup {<<p>>}
             \/ o.ret >= 0 /\ \E b \in PktsIn(t) :
                   /\ Continues(p, b[Len(b)])
                   /\ PktsIn(u) = (PktsIn(t) \ {b}) \cup {Append(b, p)}
             \/ o.ret >= 0 /\ \E b \in PktsIn(t) :
                   /\ Continues(b[1], p)
                   /\ PktsIn(u) = (PktsIn(t) \ {b}) \cup {<<p>> \o b}
      BY <3>6 DEF AfterHandling
    <3>8. Placed(tbls, offered)'
      BY <1>1, <3>7 DEF u
    <3>9. PktsIn(t) = HeldPkts /\ PktsIn(u) = HeldPkts'
      BY <3>4, HeldPktsIs DEF u
    <3>10. o.ret < 0 => ~(o.ret >= 0)
      BY <2>2 DEF Handled
    <3>11. CASE o.ret < 0 /\ PktsIn(u) = PktsIn(t)
      BY <1>3, <1>6, <3>4, <3>8, <3>10, <3>11 DEF u
    <3>12. CASE o.ret >= 0
      <4>1. back' = back
        BY <1>6, <3>10, <3>12
      <4> QED
        BY <3>7, <3>8, <3>9, <3>10, <3>12, <4>1 DEF PktHeld, PktAppended, PktPrepended
    <3> QED
      BY <3>7, <3>11, <3>12
  <2> QED
    BY <2>1, <2>2, Outcome
<1> QED
  BY <1>1, <1>2, <1>4, <1>5, <1>6 DEF p

LEMMA FlushUnitePlaced ==
  ASSUME PlaceInv, FlushUnite
  PROVE  /\ Placed(tbls, offered)' /\ UNCHANGED <<arr, call, offered, back, got>>
         /\ \E a, b \in HeldPkts : /\ a # b /\ Continues(b[1], a[Len(a)])
                                  /\ HeldPkts' = (HeldPkts \ {a, b}) \cup {a \o b}
<1>1. /\ Placed(tbls, offered) /\ Flushing \in GroType
      /\ UNCHANGED <<arr, call, offered, back, got>>
  BY FlushStepIs DEF PlaceInv, BurstInv, FlushUnite
<1>2. PICK r \in tbls[Flushing], s \in tbls[Flushing] :
         /\ Mergeable(r, s)
         /\ tbls' = [tbls EXCEPT ![Flushing] = (tbls[Flushing] \ {r, s}) \cup {Joined(r, s, r.time)}]
  BY FlushUniteIs
<1>3. /\ r \in Runs /\ s \in Runs /\ CountsUp(r) /\ CountsUp(s) /\ r.time \in 0..MaxTime
      /\ InRun(r) \subseteq offered /\ InRun(s) \subseteq offered
      /\ r.pkts \in PktsIn(tbls) /\ s.pkts \in PktsIn(tbls)
  BY <1>1, PlacedRun
<1>4. r # s
  BY <1>2, <1>3, NotItsOwn
<1>5. r.pkts # s.pkts
  <2>1. SUFFICES ASSUME r.pkts = s.pkts  PROVE FALSE
    OBVIOUS
  <2>2. r.pkts[1] \in InRun(r) /\ s.pkts[1] \in InRun(s)
    BY <1>3, RunFacts
  <2>3. InRun(r) \cap InRun(s) # {}
    BY <2>1, <2>2
  <2> QED
    BY <1>1, <1>4, <2>3 DEF Placed
<1> DEFINE R == {r, s}
           T == Flushing
           t == tbls
           u == tbls'
           o == offered
           time == r.time
<1>6. /\ R \subseteq t[T] /\ T \in GroType /\ {q.pkts : q \in R} = {r.pkts, s.pkts}
      /\ u = [t EXCEPT ![T] = (t[T] \ R) \cup {Joined(r, s, time)}]
      /\ \A q \in InRun(r) \cup InRun(s) : q \in o => \E v \in R : q \in InRun(v)
      /\ Placed(t, o)
  BY <1>1, <1>2
<1>7. InRun(r) \subseteq o /\ InRun(s) \subseteq o /\ time \in 0..MaxTime
  BY <1>3
<1> HIDE DEF R, T, t, u, o, time
<1>8. JoinedIn(t, o, u, o, T, R, r, s, time)
  BY <1>2, <1>3, <1>6, <1>7 DEF JoinedIn
<1>9. AfterJoining(t, u, o, R, r, s)
  BY ONLY <1>8, JoinedRunPlaced
<1>10. /\ Placed(u, o)
      /\ PktsIn(u) = (PktsIn(t) \ {q.pkts : q \in R}) \cup {r.pkts \o s.pkts}
  BY <1>9 DEF AfterJoining
<1>11. Continues(s.pkts[1], r.pkts[Len(r.pkts)])
  BY <1>2 DEF Mergeable, LastPkt
<1>12. HeldPkts' = (HeldPkts \ {r.pkts, s.pkts}) \cup {r.pkts \o s.pkts}
  BY <1>6, <1>10, HeldPktsIs DEF t, u
<1>13. Placed(tbls, offered)'
  BY <1>1, <1>10 DEF u, o
<1>14. r.pkts \in HeldPkts /\ s.pkts \in HeldPkts
  BY <1>3, HeldPktsIs
<1> QED
  BY <1>1, <1>5, <1>11, <1>12, <1>13, <1>14

LEMMA FlushWritePlaced ==
  ASSUME PlaceInv, RoomInv, TunnelsApart, FlushWrite
  PROVE  /\ Placed(tbls, offered)' /\ UNCHANGED <<offered, back, got>>
         /\ CallsFlush /\ CallsFlush'
         /\ \E r \in HeldRuns : /\ HeldPkts' = HeldPkts \ {r.pkts} /\ r \in Runs
                                /\ arr' = Append(arr, r)
<1>1. /\ TypeInv /\ Placed(tbls, offered) /\ Flushing \in GroType
      /\ CallsFlush /\ CallsFlush' /\ UNCHANGED <<offered, back, got>>
  BY FlushStepIs DEF PlaceInv, BurstInv
<1>2. PICK r \in tbls[Flushing] : /\ tbls' = [tbls EXCEPT ![Flushing] = tbls[Flushing] \ {r}]
                                 /\ arr' = Append(arr, r)
  BY <1>1, FlushWriteRoom
<1>3. r \in Runs /\ CountsUp(r) /\ InRun(r) \subseteq offered /\ r \in HeldRuns
  <2>1. r \in HeldRuns
    BY <1>1 DEF HeldRuns
  <2> QED
    BY <1>1, <2>1, PlacedRun
<1> DEFINE R == {r}
           N == {}
           T == Flushing
           t == tbls
           u == tbls'
           o == offered
<1>4. /\ R \subseteq t[T] /\ T \in GroType /\ N \subseteq {r} /\ u = [t EXCEPT ![T] = (t[T] \ R) \cup N]
      /\ \A q \in InRun(r) : q \in o => \E v \in R : q \in InRun(v)
      /\ {q.pkts : q \in R} = {r.pkts} /\ {q.pkts : q \in N} = {}
      /\ Placed(t, o) /\ InRun(r) \subseteq o
  BY <1>1, <1>2, <1>3
<1> HIDE DEF R, N, T, t, u, o
<1>5. Exchanged(t, o, u, o, T, R, r, N)
  BY <1>3, <1>4 DEF Exchanged
<1>6. Placed(u, o) /\ PktsIn(u) = (PktsIn(t) \ {q.pkts : q \in R}) \cup {q.pkts : q \in N}
  BY ONLY <1>5, StaysPlaced
<1>7. HeldPkts' = HeldPkts \ {r.pkts}
  BY <1>4, <1>6, HeldPktsIs DEF t, u
<1>8. Placed(tbls, offered)'
  BY <1>1, <1>6 DEF u, o
<1> QED
  BY <1>1, <1>2, <1>3, <1>7, <1>8

LEMMA NextPlace ==
  ASSUME PlaceInv, RoomInv, TunnelsApart, [Next]_vars
  PROVE  PlaceInv'
<1>1. BurstInv'
  BY NextBurst DEF PlaceInv
<1>2. CASE UNCHANGED <<tbls, offered>>
  BY <1>1, <1>2 DEF PlaceInv, Placed
<1>3. CASE ReassemblePkt \/ FlushUnite \/ FlushWrite
  BY <1>1, <1>3, ReassemblePktPlaced, FlushUnitePlaced, FlushWritePlaced DEF PlaceInv
<1>4. CASE UNCHANGED vars \/ ReassembleReturn \/ FlushSkip \/ FlushTypeDone \/ FlushReturn \/ Tick
  BY <1>2, <1>4 DEF vars, ReassembleReturn, FlushSkip, FlushTypeDone, FlushReturn, Tick
<1>5. CASE \E b \in Bursts(Pkts \ offered) : ReassembleCall(b)
  BY <1>2, <1>5 DEF ReassembleCall
<1>6. CASE \E timeout \in Timeouts, n \in NbOut, types \in {GroType, UdpTypes} :
             FlushCall(timeout, types, n)
  BY <1>2, <1>6 DEF FlushCall
<1> QED
  BY <1>3, <1>4, <1>5, <1>6 DEF Next

-----------------------------------------------------------------------------
(* The steps of the API as steps of the service.                           *)

FlushedPkts == [n \in DOMAIN FlushedRuns |-> FlushedRuns[n].pkts]

LEMMA OutsideFlush ==
  /\ ~CallsFlush => FlushedRuns = got
  /\ CallsFlush => FlushedRuns = got \o arr
  BY DEF FlushedRuns, CallsFlush

LEMMA SameService ==
  ASSUME UNCHANGED <<tbls, offered, back>>, FlushedRuns' = FlushedRuns
  PROVE  UNCHANGED Service!vars
  BY DEF Service!vars, HeldRuns

LEMMA FlushedMore ==
  ASSUME NEW u \in Seq(Runs), NEW v \in Seq(Runs), NEW r \in Runs
  PROVE  LET s == u \o v
             t == u \o Append(v, r)
         IN  [n \in DOMAIN t |-> t[n].pkts] = Append([n \in DOMAIN s |-> s[n].pkts], r.pkts)
<1> DEFINE s == u \o v
           t == u \o Append(v, r)
<1>1. t = Append(s, r) /\ s \in Seq(Runs)
  OBVIOUS
<1> HIDE DEF s, t
<1>2. /\ t \in Seq(Runs) /\ Len(t) = Len(s) + 1 /\ t[Len(s) + 1] = r /\ Len(s) \in Nat
      /\ \A n \in 1..Len(s) : t[n] = s[n]
      /\ DOMAIN s = 1..Len(s) /\ DOMAIN t = 1..(Len(s) + 1)
  BY <1>1
<1> DEFINE P == Seq(Pkts)
           f == [n \in DOMAIN s |-> s[n].pkts]
           g == [n \in DOMAIN t |-> t[n].pkts]
<1>3. f \in [1..Len(s) -> P] /\ g \in [1..(Len(s) + 1) -> P] /\ r.pkts \in P
  <2>1. \A x \in Runs : x.pkts \in P
    BY DEF Runs
  <2>2. \A n \in 1..Len(s) : s[n] \in Runs
    BY <1>1
  <2>3. \A n \in 1..(Len(s) + 1) : t[n] \in Runs
    BY <1>2
  <2> HIDE DEF P
  <2> QED
    BY <1>2, <2>1, <2>2, <2>3
<1>4. g[Len(s) + 1] = r.pkts /\ \A n \in 1..Len(s) : g[n] = f[n]
  BY <1>2
<1> HIDE DEF f, g, P
<1>5. f \in Seq(P) /\ Len(f) = Len(s) /\ Append(f, r.pkts) \in Seq(P) /\ Len(Append(f, r.pkts)) = Len(s) + 1
  <2>1. f \in Seq(P) /\ Len(f) = Len(s)
    BY <1>2, <1>3
  <2> DEFINE q == r.pkts
  <2>2. q \in P
    BY <1>3
  <2> HIDE DEF q
  <2>3. Append(f, q) \in Seq(P) /\ Len(Append(f, q)) = Len(f) + 1
    BY ONLY <2>1, <2>2
  <2> QED
    BY <2>1, <2>3 DEF q
<1>6. \A n \in 1..(Len(s) + 1) : g[n] = Append(f, r.pkts)[n]
  BY <1>2, <1>3, <1>4, <1>5
<1>7. Append(f, r.pkts) \in [1..(Len(s) + 1) -> P]
  <2>1. \A q \in Seq(P) : q \in [1..Len(q) -> P]
    OBVIOUS
  <2> QED
    BY <1>5, <2>1
<1>8. g = Append(f, r.pkts)
  BY <1>3, <1>6, <1>7
<1> QED
  BY <1>8 DEF f, g, s, t

LEMMA NextRefines ==
  ASSUME PlaceInv, RoomInv, TunnelsApart, [Next]_vars
  PROVE  [Service!Next]_Service!vars
<1>1. TypeInv /\ TypeInv'
  BY NextTypeInv DEF PlaceInv, BurstInv
<1>2. /\ arr \in Seq(Runs) /\ got \in Seq(Runs)
  BY <1>1 DEF TypeInv, TypeOK
<1>3. CASE UNCHANGED vars
  <2>1. FlushedRuns' = FlushedRuns
    BY <1>3 DEF vars, FlushedRuns
  <2> QED
    BY <1>3, <2>1, SameService DEF vars
<1>4. CASE \/ ReassembleReturn \/ Tick \/ \E b \in Bursts(Pkts \ offered) : ReassembleCall(b)
  <2>1. ~CallsFlush /\ ~CallsFlush' /\ UNCHANGED <<tbls, offered, back, got>>
    BY <1>4 DEF ReassembleReturn, Tick, ReassembleCall, CallsFlush, InReassemble
  <2>2. FlushedRuns = got /\ FlushedRuns' = got
    BY <2>1 DEF FlushedRuns, CallsFlush
  <2> QED
    BY <2>1, <2>2, SameService
<1>5. ASSUME NEW timeout \in Timeouts, NEW n \in NbOut, NEW types \in {GroType, UdpTypes},
             FlushCall(timeout, types, n)
      PROVE  UNCHANGED Service!vars
  <2>1. ~CallsFlush /\ call' \in FlushLocals /\ arr' = <<>> /\ UNCHANGED <<tbls, offered, back, got>>
    BY <1>1, <1>5, FlushCallTypeInv DEF FlushCall, CallsFlush
  <2>2. CallsFlush'
    BY <2>1, NullAssumption DEF CallsFlush, FlushLocals
  <2>3. FlushedRuns = got /\ FlushedRuns' = got \o <<>>
    BY <2>1, <2>2 DEF FlushedRuns, CallsFlush
  <2>4. got \o <<>> = got
    BY ONLY <1>2
  <2> QED
    BY <2>1, <2>3, <2>4, SameService
<1>6. CASE FlushSkip \/ FlushTypeDone
  <2>1. CallsFlush /\ CallsFlush' /\ UNCHANGED <<tbls, arr, offered, back, got>>
    BY <1>1, <1>6, FlushStepIs DEF FlushSkip, FlushTypeDone
  <2>2. FlushedRuns' = FlushedRuns
    BY <2>1 DEF FlushedRuns, CallsFlush
  <2> QED
    BY <2>1, <2>2, SameService
<1>7. CASE FlushReturn
  <2>1. /\ CallsFlush /\ call \in FlushLocals /\ call.t > 7 /\ got' = got \o SubSeq(arr, 1, call.num)
        /\ ~CallsFlush' /\ UNCHANGED <<tbls, offered, back>>
    BY <1>1, <1>7, CallIs, TypeOrderIs DEF FlushReturn, CallsFlush, TypeInv
  <2>2. Len(arr) = call.num
    <3>1. call.k \in Nat /\ call.num \in Nat /\ call.t \in Int
      BY <2>1 DEF FlushLocals
    <3>2. ~(call.k > 0) /\ Len(arr) = call.num + call.k
      BY <2>1, <3>1 DEF RoomInv
    <3> QED
      BY <3>1, <3>2
  <2>3. SubSeq(arr, 1, Len(arr)) = arr
    BY ONLY <1>2
  <2>4. FlushedRuns' = FlushedRuns
    BY <2>1, <2>2, <2>3 DEF FlushedRuns, CallsFlush
  <2> QED
    BY <2>1, <2>4, SameService
<1>8. CASE ReassemblePkt
  <2>1. PICK p \in Pkts :
        /\ p \notin offered /\ offered' = offered \cup {p} /\ got' = got
        /\ PktRefused(p) \/ PktHeld(p) \/ PktAppended(p) \/ PktPrepended(p)
    BY <1>8, ReassemblePktPlaced
  <2>2. ~CallsFlush /\ ~CallsFlush'
    <3>1. call \in ReassembleLocals
      BY <1>1, <1>8, ReassemblePktIs
    <3>2. call' \in ReassembleLocals
      <4>1. CASE \E q : Returned(q)
        BY <3>1, <4>1, GivenBack DEF Returned
      <4>2. CASE call' = [call EXCEPT !.i = call.i + 1]
        BY <3>1, <4>2 DEF ReassembleLocals
      <4> QED
        BY <1>1, <1>8, <4>1, <4>2, ReassemblePktIs
    <3> QED
      BY <3>1, <3>2 DEF CallsFlush, ReassembleLocals
  <2>3. FlushedPkts' = FlushedPkts
    BY <2>1, <2>2 DEF FlushedPkts, FlushedRuns, CallsFlush
  <2>4. Service!Refuse(p) \/ Service!Hold(p) \/ Service!Join(p)
    <3>1. CASE PktRefused(p)
      BY <2>3, <3>1 DEF PktRefused, Service!Refuse, HeldPkts, FlushedPkts
    <3>2. CASE PktHeld(p)
      BY <2>3, <3>2 DEF PktHeld, Service!Hold, HeldPkts, FlushedPkts
    <3>3. CASE PktAppended(p)
      BY <2>3, <3>3 DEF PktAppended, Service!Join, HeldPkts, FlushedPkts
    <3>4. CASE PktPrepended(p)
      BY <2>3, <3>4 DEF PktPrepended, Service!Join, HeldPkts, FlushedPkts
    <3> QED
      BY <2>1, <3>1, <3>2, <3>3, <3>4
  <2>5. \E q \in Pkts : Service!Offer(q)
    <3>1. Service!Offer(p)
      BY <2>1, <2>4 DEF Service!Offer
    <3> QED
      BY <3>1
  <2> QED
    BY <2>5 DEF Service!Next
<1>9. CASE FlushUnite
  <2>1. /\ UNCHANGED <<arr, call, offered, back, got>>
        /\ \E a, b \in HeldPkts : /\ a # b /\ Continues(b[1], a[Len(a)])
                                 /\ HeldPkts' = (HeldPkts \ {a, b}) \cup {a \o b}
    BY <1>9, FlushUnitePlaced
  <2>2. FlushedPkts' = FlushedPkts
    BY <2>1 DEF FlushedPkts, FlushedRuns
  <2>3. Service!Unite
    BY <2>1, <2>2 DEF Service!Unite, HeldPkts, FlushedPkts
  <2> QED
    BY <2>3 DEF Service!Next
<1>10. CASE FlushWrite
  <2>1. CallsFlush /\ CallsFlush' /\ UNCHANGED <<offered, back, got>>
    BY <1>10, FlushWritePlaced
  <2>2. PICK r \in HeldRuns : HeldPkts' = HeldPkts \ {r.pkts} /\ r \in Runs /\ arr' = Append(arr, r)
    BY <1>10, FlushWritePlaced
  <2>3. FlushedRuns = got \o arr /\ FlushedRuns' = got \o Append(arr, r)
    BY <2>1, <2>2 DEF FlushedRuns, CallsFlush
  <2>4. FlushedPkts' = Append(FlushedPkts, r.pkts)
    BY <1>2, <2>2, <2>3, FlushedMore DEF FlushedPkts
  <2>5. r.pkts \in HeldPkts
    BY DEF HeldPkts
  <2>6. Service!Deliver
    BY <2>1, <2>2, <2>4, <2>5 DEF Service!Deliver, HeldPkts, FlushedPkts
  <2> QED
    BY <2>6 DEF Service!Next
<1> QED
  BY <1>3, <1>4, <1>5, <1>6, <1>7, <1>8, <1>9, <1>10 DEF Next

(* The context with all its tables is one service: each packet handed in   *)
(* is given back, held, or comes out of a flush, once, and only neighbours *)
(* are put together, whatever the types enabled and the order of calls,    *)
(* as long as no type shares out with the tunnel type that overwrites it.  *)
THEOREM RefinesService ==
  ASSUME TunnelsApart, RoomAsked
  PROVE  Spec => ImplementsService
<1>1. Init => PlaceInv /\ RoomInv
  <2>1. Init => BurstInv /\ RoomInv
    BY InitTypeInv DEF Init, BurstInv, BurstKept, CompactionSafe, RoomInv, InReassemble, CallsFlush
  <2> QED
    BY <2>1 DEF Init, PlaceInv, Placed
<1>2. PlaceInv /\ RoomInv /\ [Next]_vars => PlaceInv' /\ RoomInv'
  BY NextPlace, NextRoom DEF PlaceInv, BurstInv
<1>3. Init => Service!Init
  <2> SUFFICES ASSUME Init  PROVE Service!Init
    OBVIOUS
  <2>1. HeldRuns = {}
    BY DEF Init, HeldRuns
  <2>2. FlushedRuns = <<>>
    BY DEF Init, FlushedRuns
  <2>3. [n \in DOMAIN FlushedRuns |-> FlushedRuns[n].pkts] = <<>>
    BY <2>2
  <2> QED
    BY <2>1, <2>3 DEF Init, Service!Init
<1>4. PlaceInv /\ RoomInv /\ [Next]_vars => [Service!Next]_Service!vars
  BY NextRefines
<1> QED
  BY <1>1, <1>2, <1>3, <1>4, PTL DEF Spec, ImplementsService, Service!Spec
=============================================================================
