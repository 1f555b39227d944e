------------------------------- MODULE TestPmd -------------------------------
(***************************************************************************)
(* The checksum forwarding engine of testpmd as a user of GRO: one         *)
(* forwarding lcore, its streams, the GRO context they share, and the      *)
(* commands that configure GRO while forwarding is stopped.                *)
(*                                                                         *)
(* One call of pkt_burst_checksum_forward is one step: nothing that it     *)
(* reads can change meanwhile, the commands refuse to run while packets    *)
(* are forwarded.  The library is seen through RteGroTypes; the only type  *)
(* testpmd asks for is TCP/IPv4 in GTP-U.                                  *)
(***************************************************************************)
EXTENDS RteGroTypes

CONSTANTS
  NbStreams,       (* streams of the lcore                                 *)
  RxPort, TxPort,  (* stream -> port                                       *)
  Arrivals,        (* stream -> the packets that may arrive on it          *)
  NbPktPerBurst,   (* nb_pkt_per_burst                                     *)
  MAX_PKT_BURST,   (* the length of pkts_burst                             *)
  BurstItemNum,    (* RTE_GRO_MAX_BURST_ITEM_NUM                           *)
  CtxItemNum,      (* GRO_MAX_FLUSH_CYCLES * MAX_PKT_BURST                 *)
  GRO_MAX_FLUSH_CYCLES

Streams == 1..NbStreams

Ports == {RxPort[s] : s \in Streams} \cup {TxPort[s] : s \in Streams}

GRO_DEFAULT_FLUSH_CYCLES == 1

ASSUME TestPmdAssumption ==
  /\ NbStreams \in Nat \ {0}
  /\ MAX_PKT_BURST \in Nat /\ NbPktPerBurst \in 1..MAX_PKT_BURST
  /\ BurstItemNum \in Nat /\ CtxItemNum \in Nat
  /\ GRO_MAX_FLUSH_CYCLES \in Nat \ {0}

VARIABLES
  state,             (* "stopped" (test_done = 1), "running", "stopping"   *)
  gro_flush_cycles,
  gro_ports,         (* port -> [enable, gro_types]                        *)
  sm_id,             (* the stream that is served next                     *)
  gro_times,         (* stream -> GRO operations since its last flush      *)
  ctx,               (* the runs held in the GRO context of the lcore      *)
  received,          (* packets received so far                            *)
  sent,              (* port -> runs transmitted                           *)
  dropped,           (* runs freed because they could not be transmitted   *)
  used,              (* entries of pkts_burst the last call used           *)
  ops                (* GRO operations on the context since a flush of it  *)

config == <<gro_flush_cycles, gro_ports>>
vars == <<state, config, sm_id, gro_times, ctx, received, sent, dropped, used, ops>>

Init ==
  /\ state = "stopped"
  /\ gro_flush_cycles = GRO_DEFAULT_FLUSH_CYCLES
  /\ gro_ports = [p \in Ports |-> [enable |-> FALSE, gro_types |-> {}]]
  /\ sm_id = 1
  /\ gro_times = [s \in Streams |-> 0]
  /\ ctx = {}
  /\ received = {}
  /\ sent = [p \in Ports |-> {}]
  /\ dropped = {}
  /\ used = 0
  /\ ops = 0

-----------------------------------------------------------------------------
(* Commands.                                                               *)

unmoved == <<sm_id, gro_times, ctx, received, sent, dropped, used, ops>>

(* set port <port_id> gro on|off: with the default number of cycles the    *)
(* parameters of the lightweight mode are set too.                         *)
SetupGro(port, on) ==
  /\ state = "stopped"
  /\ gro_ports[port].enable # on
  /\ gro_ports' = [gro_ports EXCEPT ![port] =
       [enable    |-> on,
        gro_types |-> IF on /\ gro_flush_cycles = GRO_DEFAULT_FLUSH_CYCLES
                      THEN {"GTP_TCP"} ELSE gro_ports[port].gro_types]]
  /\ UNCHANGED <<state, gro_flush_cycles, unmoved>>

(* set gro flush <cycles>; a value out of range is taken for 1.            *)
SetupGroFlushCycles(cycles) ==
  /\ state = "stopped"
  /\ gro_flush_cycles' = IF cycles \in GRO_DEFAULT_FLUSH_CYCLES..GRO_MAX_FLUSH_CYCLES
                         THEN cycles ELSE GRO_DEFAULT_FLUSH_CYCLES
  /\ UNCHANGED <<state, gro_ports, unmoved>>

StartPacketForwarding ==
  /\ state = "stopped"
  /\ state' = "running"
  /\ sm_id' = 1
  /\ UNCHANGED <<config, gro_times, ctx, received, sent, dropped, used, ops>>

(* The lcore is told to stop and finishes its round over the streams.      *)
StopPacketForwarding ==
  /\ state = "running"
  /\ state' = "stopping"
  /\ UNCHANGED <<config, unmoved>>

-----------------------------------------------------------------------------
(* pkt_burst_checksum_forward, as run_pkt_fwd_on_lcore calls it            *)

Bursts(s) ==
  UNION {{b \in [1..n -> Arrivals[s] \ received] : \A i, j \in 1..n : b[i] = b[j] => i = j}
           : n \in 1..NbPktPerBurst}

(* The lcore's turn comes to stream s, and goes on to the next one.        *)
Turn(s) ==
  /\ state # "stopped"
  /\ sm_id = s
  /\ sm_id' = IF s = NbStreams THEN 1 ELSE s + 1
  /\ state' = IF s = NbStreams /\ state = "stopping" THEN "stopped" ELSE state
  /\ UNCHANGED config

GroEnabled(s) == gro_ports[RxPort[s]].enable

Heavy == gro_flush_cycles # GRO_DEFAULT_FLUSH_CYCLES

PktSet(b) == {b[n] : n \in DOMAIN b}

Singles(S) == {Run(p, 0) : p \in S}

(* rte_eth_tx_prepare, common_fwd_stream_transmit: what is not transmitted *)
(* is freed and counted.                                                   *)
Transmit(s, runs) ==
  \E lost \in SUBSET runs :
     /\ sent' = [sent EXCEPT ![TxPort[s]] = sent[TxPort[s]] \cup (runs \ lost)]
     /\ dropped' = dropped \cup lost

(* Mutant: what is of no type of the context is forgotten.                 *)
HandIn_BackLost(x, p, types, max_item_num) ==
  IF DispatchTo(p, types) = {} THEN {x}
  ELSE {[held |-> o.held, back |-> IF o.ret < 0 THEN x.back \cup {p} ELSE x.back] :
          o \in ReassembleOutcomes("GTP_TCP", x.held, p, 0, max_item_num)}

(* Packet p is handed to the library, which has held x.held and given back *)
(* x.back so far.                                                          *)
HandIn(x, p, types, max_item_num) ==
  IF DispatchTo(p, types) = {} THEN {[held |-> x.held, back |-> x.back \cup {p}]}
  ELSE {[held |-> o.held, back |-> IF o.ret < 0 THEN x.back \cup {p} ELSE x.back] :
          o \in ReassembleOutcomes("GTP_TCP", x.held, p, 0, max_item_num)}

(* Packets b are handed in one by one: what is held then, and what is      *)
(* given back.                                                             *)
Reassembled(held, b, types, max_item_num) ==
  LET after[n \in 0..Len(b)] ==
        IF n = 0 THEN {[held |-> held, back |-> {}]}
        ELSE UNION {HandIn(x, b[n], types, max_item_num) : x \in after[n - 1]}
  IN  after[Len(b)]

(* Mutant: the context is not looked at when nothing was received.         *)
ForwardIdle_Always(s) ==
  /\ Turn(s)
  /\ UNCHANGED <<gro_times, ctx, received, sent, dropped, used, ops>>

(* Nothing received, and no packet that might have to be flushed.          *)
ForwardIdle(s) ==
  /\ Turn(s)
  /\ ~GroEnabled(s) \/ ~Heavy \/ ctx = {}
  /\ UNCHANGED <<gro_times, ctx, received, sent, dropped, used, ops>>

ForwardWithoutGro(s) ==
  /\ Turn(s)
  /\ ~GroEnabled(s)
  /\ \E b \in Bursts(s) :
       /\ received' = received \cup PktSet(b)
       /\ used' = Len(b)
       /\ Transmit(s, Singles(PktSet(b)))
  /\ UNCHANGED <<gro_times, ctx, ops>>

(* rte_gro_reassemble_burst with the parameters of the port.               *)
ForwardLight(s) ==
  /\ Turn(s)
  /\ GroEnabled(s) /\ ~Heavy
  /\ \E b \in Bursts(s) :
     \E o \in Reassembled({}, b, gro_ports[RxPort[s]].gro_types, BurstItemNum) :
       /\ received' = received \cup PktSet(b)
       /\ used' = Len(b)
       /\ Transmit(s, Singles(o.back) \cup o.held)
  /\ UNCHANGED <<gro_times, ctx, ops>>

(* Mutant: as many as are held, whatever room is left.                     *)
GroPktsNum_Unbounded(held, nb_rx) == Cardinality(held)

(* The number of packets flush is asked for.                               *)
GroPktsNum(held, nb_rx) ==
  IF Cardinality(held) > MAX_PKT_BURST - nb_rx THEN MAX_PKT_BURST - nb_rx
                                               ELSE Cardinality(held)

(* What rte_gro_timeout_flush takes out of the table of GTP-U TCP when it  *)
(* is asked for n packets: for 0 it takes all.                             *)
FlushedSets(held, n) ==
  IF n = 0 THEN {held} ELSE {F \in SUBSET held : Cardinality(F) = n}

(* Mutant: the turn of the flush is missed by one too high a count.        *)
FlushTurn_Equal(s) == gro_times[s] + 1 = gro_flush_cycles

FlushTurn(s) == gro_times[s] + 1 >= gro_flush_cycles

(* rte_gro_reassemble, and every gro_flush_cycles calls a flush.           *)
ForwardHeavy(s) ==
  /\ Turn(s)
  /\ GroEnabled(s) /\ Heavy
  /\ \E b \in Bursts(s) \cup (IF ctx # {} THEN {<<>>} ELSE {}) :
     \E o \in Reassembled(ctx, b, {"GTP_TCP"}, CtxItemNum) :
     \E F \in IF FlushTurn(s)
              THEN FlushedSets(o.held, GroPktsNum(o.held, Cardinality(o.back)))
              ELSE {{}} :
       /\ received' = received \cup PktSet(b)
       /\ ctx' = o.held \ F
       /\ used' = Cardinality(o.back) + Cardinality(F)
       /\ Transmit(s, Singles(o.back) \cup F)
  /\ gro_times' = [gro_times EXCEPT ![s] = IF FlushTurn(s) THEN 0 ELSE gro_times[s] + 1]
  /\ ops' = IF FlushTurn(s) THEN 0 ELSE ops + 1

Forward ==
  \E s \in Streams :
     ForwardIdle(s) \/ ForwardWithoutGro(s) \/ ForwardLight(s) \/ ForwardHeavy(s)

Next ==
  \/ Forward
  \/ StartPacketForwarding
  \/ StopPacketForwarding
  \/ \E port \in Ports, on \in BOOLEAN : SetupGro(port, on)
  \/ \E cycles \in 0..(GRO_MAX_FLUSH_CYCLES + 1) : SetupGroFlushCycles(cycles)

Spec == Init /\ [][Next]_vars

(* The lcore polls its streams as long as it runs.                         *)
FairSpec == Spec /\ WF_vars(Forward)

-----------------------------------------------------------------------------
(* Properties                                                              *)

AllPkts == UNION {Arrivals[s] : s \in Streams}

Runs == [pkts : Seq(AllPkts) \ {<<>>}, time : {0}]

SentRuns == UNION {sent[p] : p \in Ports}

(* Variables have their types and keep to their ranges; in particular no   *)
(* stream ever counts up to the flush cycles, and the context is never     *)
(* filled beyond its size.                                                 *)
TypeOK ==
  /\ state \in {"stopped", "running", "stopping"}
  /\ gro_flush_cycles \in 1..GRO_MAX_FLUSH_CYCLES
  /\ gro_ports \in [Ports -> [enable : BOOLEAN, gro_types : SUBSET GroType]]
  /\ sm_id \in Streams
  /\ gro_times \in [Streams -> 0..(GRO_MAX_FLUSH_CYCLES - 1)]
  /\ ctx \subseteq Runs /\ Cardinality(ctx) <= CtxItemNum
  /\ received \subseteq AllPkts
  /\ \A p \in Ports : sent[p] \subseteq Runs
  /\ dropped \subseteq Runs
  /\ used \in Nat
  /\ ops \in Nat

(* No packet is lost between receive, context, array and transmit, and     *)
(* none is in two places or transmitted twice, through every change of     *)
(* mode.                                                                   *)
EveryPacketOnce ==
  /\ received = PktsOf(ctx) \cup PktsOf(SentRuns) \cup PktsOf(dropped)
  /\ ctx \cap dropped = {}
  /\ \A p \in Ports : sent[p] \cap (ctx \cup dropped) = {}
  /\ \A p, q \in Ports : p # q => sent[p] \cap sent[q] = {}
  /\ \A r, q \in ctx \cup SentRuns \cup dropped :
        r # q => PktsOf({r}) \cap PktsOf({q}) = {}
  /\ \A r \in ctx \cup SentRuns \cup dropped :
        \A m, n \in DOMAIN r.pkts : r.pkts[m] = r.pkts[n] => m = n

(* pkts_burst has MAX_PKT_BURST entries for what was given back and what   *)
(* is flushed behind it.                                                   *)
BurstNeverOverrun == used <= MAX_PKT_BURST

(* However turns of streams, idle polls, restarts and changes of the       *)
(* cycles are mixed, the context is flushed by the time every stream has   *)
(* used up its cycles.                                                     *)
FlushInTime == ops <= NbStreams * (GRO_MAX_FLUSH_CYCLES - 1)

(* Forwarding goes on, in the heavyweight mode, with GRO on for every port. *)
Settled == state = "running" /\ Heavy /\ \A s \in Streams : GroEnabled(s)

(* Whatever was configured before, once that is so to stay every packet    *)
(* received is sent or dropped, although no further packet may arrive;     *)
(* also one that was held when GRO was off or in the lightweight mode.     *)
HeldPacketsLeave ==
  <>[]Settled => <>[](ctx = {} /\ received = PktsOf(SentRuns \cup dropped))
=============================================================================
