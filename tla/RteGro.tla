------------------------------- MODULE RteGro -------------------------------
(***************************************************************************)
(* The heavyweight mode of rte_gro.c and an application that uses it:      *)
(* rte_gro_reassemble and rte_gro_timeout_flush on one GRO context.  A     *)
(* call takes one step per packet handed in or written; call holds its     *)
(* local variables, and nothing else runs until it returns.                *)
(***************************************************************************)
EXTENDS RteGroTypes

CONSTANTS
  Pkts,         (* the packets that may arrive, each once                  *)
  GroTypes,     (* gro_types the context is created with                   *)
  MaxItemNum,   (* max_item_num of every table                             *)
  MaxBurst,     (* the longest burst the application hands in              *)
  NbOut,        (* the lengths of 'out' that flush is called with          *)
  Timeouts,     (* the values of timeout_cycles                            *)
  MaxTime,      (* bound of the cycle counter                              *)
  ClockRange,   (* the range of uint64_t, and ...                          *)
  CountRange,   (* ... of uint16_t, cut down                               *)
  NULL

ASSUME ApiAssumption ==
  /\ \A p \in Pkts : p.seq \in Int
  /\ GroTypes \subseteq GroType
  /\ MaxItemNum \in Nat \ {0}
  /\ MaxBurst \in Nat
  /\ MaxTime \in Nat /\ ClockRange \in Nat /\ MaxTime < ClockRange
  /\ CountRange \in Nat \ {0}
  /\ NbOut \subseteq 0..(CountRange - 1)
  /\ Timeouts \subseteq 0..(ClockRange - 1)

(* The local variables of the two functions.                               *)
ReassembleLocals ==
  [api : {"reassemble"}, i : Nat \ {0}, unprocess_num : Nat, current_time : 0..MaxTime]

FlushLocals ==
  [api : {"flush"}, t : 1..(Len(TypeOrder) + 1), k : Nat, num : Nat, left_nb_out : Nat,
   max_nb_out : NbOut, types : SUBSET GroTypes, timeout_cycles : Timeouts,
   flush_timestamp : 0..(ClockRange - 1)]

ASSUME NullAssumption == NULL \notin ReassembleLocals \cup FlushLocals

VARIABLES
  tbls,      (* type -> runs held in its table                             *)
  now,       (* rte_rdtsc()                                                *)
  arr,       (* the array of the call in progress: pkts or out, a sequence *)
             (* of runs                                                    *)
  call,      (* local variables of the call in progress, or NULL           *)
  offered,   (* packets that rte_gro_reassemble has looked at              *)
  arrived,   (* history: when each of them was handed in                   *)
  back,      (* packets returned unprocessed                               *)
  got        (* runs that came out of flush, in order                      *)

vars == <<tbls, now, arr, call, offered, arrived, back, got>>

Init ==
  /\ tbls = [T \in GroType |-> {}]
  /\ now = 0
  /\ arr = <<>>
  /\ call = NULL
  /\ offered = {}
  /\ arrived = [p \in Pkts |-> 0]
  /\ back = {}
  /\ got = <<>>

Tick ==
  /\ call = NULL
  /\ now < MaxTime
  /\ now' = now + 1
  /\ UNCHANGED <<tbls, arr, call, offered, arrived, back, got>>

-----------------------------------------------------------------------------
(* rte_gro_reassemble                                                      *)

Bursts(S) ==
  UNION {{b \in [1..n -> S] : \A i, j \in 1..n : b[i] = b[j] => i = j} : n \in 1..MaxBurst}

ReassembleCall(b) ==
  /\ call = NULL
  /\ call' = [api |-> "reassemble", i |-> 1, unprocess_num |-> 0, current_time |-> now]
  /\ arr' = [n \in DOMAIN b |-> Run(b[n], now)]
  /\ UNCHANGED <<tbls, now, offered, arrived, back, got>>

InReassemble == call # NULL /\ call.api = "reassemble"

(* Mutant: the packet stays where it is.                                   *)
Returned_InPlace(p) ==
  /\ arr' = arr
  /\ call' = [call EXCEPT !.i = call.i + 1, !.unprocess_num = call.unprocess_num + 1]
  /\ back' = back \cup {p}

(* The packet goes behind those already given back.                        *)
Returned(p) ==
  /\ arr' = [arr EXCEPT ![call.unprocess_num + 1] = arr[call.i]]
  /\ call' = [call EXCEPT !.i = call.i + 1, !.unprocess_num = call.unprocess_num + 1]
  /\ back' = back \cup {p}

(* One turn of the loop over the burst.                                    *)
ReassemblePkt ==
  /\ InReassemble
  /\ call.i <= Len(arr)
  /\ LET p == arr[call.i].pkts[1]
     IN  /\ offered' = offered \cup {p}
         /\ arrived' = [arrived EXCEPT ![p] = now]
         /\ \/ /\ DispatchTo(p, GroTypes) = {}
               /\ Returned(p)
               /\ UNCHANGED tbls
            \/ \E T \in DispatchTo(p, GroTypes) :
               \E o \in ReassembleOutcomes(T, tbls[T], p, call.current_time, MaxItemNum) :
                  /\ tbls' = [tbls EXCEPT ![T] = o.held]
                  /\ \/ o.ret < 0 /\ Returned(p)
                     \/ /\ o.ret >= 0
                        /\ call' = [call EXCEPT !.i = call.i + 1]
                        /\ UNCHANGED <<arr, back>>
  /\ UNCHANGED <<now, got>>

ReassembleReturn ==
  /\ InReassemble
  /\ call.i > Len(arr)
  /\ call' = NULL
  /\ arr' = <<>>
  /\ UNCHANGED <<tbls, now, offered, arrived, back, got>>

-----------------------------------------------------------------------------
(* rte_gro_timeout_flush                                                   *)

(* Mutant: one type more.                                                  *)
FromStart_Udp4 == {"VXLAN_TCP", "GTP_TCP", "UDP4"}

(* The two types whose flush writes from the start of out, sets num anew,  *)
(* and is made even when no room is left.                                  *)
FromStart == {"VXLAN_TCP", "GTP_TCP"}

(* Mutants: left_nb_out is not lowered; it is one too low.                 *)
LeftNbOut_Whole(max_nb_out, num) == max_nb_out

LeftNbOut_OneLess(max_nb_out, num) == IF num = 0 THEN max_nb_out ELSE max_nb_out - num - 1

LeftNbOut(max_nb_out, num) == (max_nb_out - num) % CountRange

(* Mutant: everything is due.                                              *)
FlushTimestamp_Now(timeout_cycles) == now

FlushTimestamp(timeout_cycles) == (now - timeout_cycles) % ClockRange

FlushCall(timeout_cycles, types, max_nb_out) ==
  /\ call = NULL
  /\ call' = [api |-> "flush", t |-> 1, k |-> 0, num |-> 0,
              left_nb_out |-> max_nb_out, max_nb_out |-> max_nb_out,
              types |-> types \cap GroTypes, timeout_cycles |-> timeout_cycles,
              flush_timestamp |-> FlushTimestamp(timeout_cycles)]
  /\ UNCHANGED <<tbls, now, arr, offered, arrived, back, got>>

InFlush == call # NULL /\ call.api = "flush" /\ call.t <= Len(TypeOrder)

Flushing == TypeOrder[call.t]

Entered == Flushing \in call.types /\ (Flushing \in FromStart \/ call.left_nb_out > 0)

(* A type is not asked for, or no room is left for it.                     *)
FlushSkip ==
  /\ InFlush
  /\ ~Entered
  /\ call' = [call EXCEPT !.t = call.t + 1]
  /\ UNCHANGED <<tbls, now, arr, offered, arrived, back, got>>

FlushUnite ==
  /\ InFlush
  /\ Entered
  /\ \E held \in UniteOutcomes(Flushing, tbls[Flushing], call.flush_timestamp) :
        tbls' = [tbls EXCEPT ![Flushing] = held]
  /\ UNCHANGED <<now, arr, call, offered, arrived, back, got>>

(* The flush of a type returns k.                                          *)
TypeDone(k) ==
  LET num == IF Flushing \in FromStart THEN k ELSE call.num + k
  IN  [call EXCEPT !.t = call.t + 1, !.k = 0, !.num = num,
                   !.left_nb_out = LeftNbOut(call.max_nb_out, num)]

FlushWrite ==
  LET base == IF Flushing \in FromStart THEN 0 ELSE call.num
      k    == call.k + 1
  IN  /\ InFlush
      /\ Entered
      /\ \E r \in NextToWrite(Flushing, tbls[Flushing], call.flush_timestamp) :
           /\ tbls' = [tbls EXCEPT ![Flushing] = tbls[Flushing] \ {r}]
           /\ arr' = PutAt(arr, base + k, r)
      /\ call' = IF k = call.left_nb_out THEN TypeDone(k) ELSE [call EXCEPT !.k = k]
      /\ UNCHANGED <<now, offered, arrived, back, got>>

FlushTypeDone ==
  /\ InFlush
  /\ Entered
  /\ FlushedOut(tbls[Flushing], call.flush_timestamp)
  /\ call' = TypeDone(call.k)
  /\ UNCHANGED <<tbls, now, arr, offered, arrived, back, got>>

(* The application takes the packets that are said to be in out.           *)
FlushReturn ==
  /\ call # NULL /\ call.api = "flush" /\ call.t > Len(TypeOrder)
  /\ got' = got \o SubSeq(arr, 1, call.num)
  /\ arr' = <<>>
  /\ call' = NULL
  /\ UNCHANGED <<tbls, now, offered, arrived, back>>

-----------------------------------------------------------------------------
(* The application: bursts of new packets, and flushes of one type or all. *)

Next ==
  \/ \E b \in Bursts(Pkts \ offered) : ReassembleCall(b)
  \/ ReassemblePkt
  \/ ReassembleReturn
  \/ \E timeout \in Timeouts, n \in NbOut, types \in {GroType, UdpTypes} :
        FlushCall(timeout, types, n)
  \/ FlushSkip \/ FlushUnite \/ FlushWrite \/ FlushTypeDone \/ FlushReturn
  \/ Tick

Spec == Init /\ [][Next]_vars

-----------------------------------------------------------------------------
(* Properties                                                              *)

HeldRuns == UNION {tbls[T] : T \in GroType}

Runs == [pkts : Seq(Pkts) \ {<<>>}, time : 0..MaxTime]

(* Variables hold what their C types and their roles allow.                *)
TypeOK ==
  /\ DOMAIN tbls = GroType
  /\ \A T \in GroType : tbls[T] \subseteq Runs /\ Cardinality(tbls[T]) <= MaxItemNum
  /\ now \in 0..MaxTime
  /\ arr \in Seq(Runs)
  /\ offered \subseteq Pkts
  /\ arrived \in [Pkts -> 0..MaxTime]
  /\ back \subseteq offered
  /\ got \in Seq(Runs)
  /\ call \in ReassembleLocals \cup FlushLocals \cup {NULL}

(* "The element number of 'out'": flush never writes behind it.            *)
OutNeverOverrun == call # NULL /\ call.api = "flush" => Len(arr) <= call.max_nb_out

(* What has been flushed, the part of it still in out included.            *)
FlushedRuns == IF call # NULL /\ call.api = "flush" THEN got \o arr ELSE got

(* The context with all its tables gives the service a single type gives:  *)
(* a packet handed in is held, given back or comes out of a flush, once,   *)
(* and only packets that are neighbours are put together.                  *)
Service == INSTANCE GroService WITH
             Adjacent <- LAMBDA p, q : Continues(q, p),
             held     <- {r.pkts : r \in HeldRuns},
             out      <- [n \in DOMAIN FlushedRuns |-> FlushedRuns[n].pkts]

ImplementsService == Service!Spec

(* The array of a burst is used for input and output at once: what is      *)
(* written to its front never replaces a packet not yet looked at, and at  *)
(* any time it starts with packets that were given back.                   *)
CompactionSafe ==
  InReassemble =>
    /\ \A n \in 1..call.unprocess_num : arr[n].pkts[1] \in back
    /\ \A n \in call.i..Len(arr) : arr[n].pkts[1] \notin offered
    /\ \A n, m \in call.i..Len(arr) : arr[n] = arr[m] => n = m

(* A flush of every type with a timeout of 0 that leaves room in out       *)
(* leaves no packet in any table.                                          *)
FlushAllEmpties ==
  [][ FlushReturn /\ call.types = GroTypes /\ call.timeout_cycles = 0
                  /\ call.num < call.max_nb_out
      => HeldRuns = {} ]_vars

(* Whatever the runs a packet is put into, a flush writes it only when a   *)
(* packet of its run was handed in timeout_cycles ago, with two            *)
(* exceptions.  A TCP/IPv4 packet with PSH or FIN that was handed in after *)
(* a packet of the run and for its flow hurries the run ("should be        *)
(* processed and flushed immediately"), and while the cycle counter is     *)
(* below timeout_cycles the subtraction wraps.  The times are those at     *)
(* which the packets were handed in, whatever the items say.               *)
Hurries(p, r) ==
  /\ p \in offered /\ p.kind = "push" /\ p.flow = r.pkts[1].flow
  /\ \E n \in DOMAIN r.pkts : arrived[r.pkts[n]] <= arrived[p]

FlushHonoursTimeout ==
  [][ FlushWrite =>
        \A T \in GroType : \A r \in tbls[T] \ tbls'[T] :
           \/ \E n \in DOMAIN r.pkts : now - arrived[r.pkts[n]] >= call.timeout_cycles
           \/ T = "TCP4" /\ \E p \in Pkts : Hurries(p, r)
           \/ now < call.timeout_cycles ]_vars

(* Every packet that left the tables in a flush is among those flush       *)
(* returns.                                                                *)
FlushedAreReturned ==
  call = NULL => offered \subseteq PktsOf(HeldRuns) \cup back
                                   \cup PktsOf({got[n] : n \in DOMAIN got})
=============================================================================
