# A TLA+ model of GTP-aware GRO in DPDK

The repository adds GTP-U support to the Generic Receive Offload (GRO) library
of DPDK 25.03 (`src/gro/dpdk-25.03/lib/gro`) and evaluates it with `testpmd`.
GRO collects small packets of one connection in reassembly tables, chains
neighbouring ones into large packets, and hands them out when they are flushed.
This directory holds TLA+ modules that model the library, TLC configurations
that check them on small instances, and proofs for every instance.

All paths below are under `src/gro/dpdk-25.03/` unless they start with `src/`.

## 1. Inventory

| Part | State | Operations | Interacts with |
|---|---|---|---|
| Reassembly table, repeated in each GRO type (`lib/gro/gro_*.c`) | item array (head and tail mbuf, start time, next index, fields for the neighbour test), flow array (key, first item), `item_num`, `flow_num` | create, destroy, find an empty item or flow, insert an item or flow, delete an item, pkt_count | called by the reassemble and flush functions of its type |
| TCP test and merge (`gro_tcp.h`, `gro_tcp_internal.h`) | none of its own | `check_seq_option`, `merge_two_tcp_packets`, `process_tcp_item` | all TCP types |
| TCP/IPv4 in GTP-U (`gro_gtp_tcp4.c`) | one table | `reassemble`, `tbl_timeout_flush` | GRO context |
| TCP/IPv4, TCP/IPv6 (`gro_tcp4.c`, `gro_tcp6.c`) | one table each | the same; PSH and FIN make the flow's first packet due, short frames lose their padding | GRO context |
| TCP/IPv4 in VXLAN (`gro_vxlan_tcp4.c`) | one table | the same | GRO context |
| UDP/IPv4 fragments, plain, in VXLAN, in GTP-U (`gro_udp4.c`, `gro_vxlan_udp4.c`, `gro_gtp_udp4.c`) | one table each, chains sorted by fragment offset | reassemble; flush, which merges what became contiguous | GRO context |
| GRO context and API (`rte_gro.c`) | a table per enabled type | create (with roll back), destroy, `reassemble_burst` (tables on the stack, lightweight mode), `reassemble` (heavyweight), `timeout_flush`, `get_pkt_count` | the application; dispatches to the types by the packet type of the mbuf |
| `testpmd` checksum engine (`app/test-pmd/csumonly.c`, `config.c`, `testpmd.c`) | per stream a count of bursts, per lcore a context, per port a switch and parameters | receive, parse, reassemble, every `gro_flush_cycles` bursts flush, send; commands that configure GRO | the API |
| Packet type parsing (`lib/net/rte_net.c`) | none | the packet type that the API dispatches on | drivers, API |

Not part of the program logic: trace points (`gro_trace*.{c,h}`), copies of the
same sources (`src/gro/GRO Implementation Files`, `src/gro/Trace Files`), the
rest of DPDK, the reports, captures and pictures.

What is hard here is not concurrency: the library is not thread safe and a
context belongs to one lcore (`doc/guides/prog_guide/generic_receive_offload_lib.rst:76-79`: "all
update/lookup operations on the GRO context are not thread safe"). It is the long sequences. Slots are reused, chains are built from
both ends and cut by flushes that stop anywhere, packets come reordered and
repeated, arrays fill up, and the limits of a merged packet are reached in the
middle of a chain. What makes each part correct:

- table: counters agree with the arrays, every item is on exactly one chain of
  a live flow, no two live flows have one key;
- TCP types: an item's fields describe its mbuf chain, a chain is a contiguous
  run of one connection, nothing is lost, doubled or (in a chain) reordered;
- UDP types: chains stay sorted, a flushed datagram is contiguous, MF is
  cleared exactly on the one that ends with the last fragment;
- flush: within its limits it takes all that is due, updates all lengths,
  and repeated flushes empty the tables;
- API: each packet is in one place (caller, table, output), return values count
  what was written, a failed creation leaves nothing allocated;
- engine: every packet received is sent or dropped, the array of a burst is
  never overrun, and held packets leave though nothing more arrives.

The hazards, each at its line, are in `PROJECT.json`.

## 2. Plan

Done, in the order of importance:

1. the table and the type of TCP in GTP-U, the abstract service, and the proofs
   of type correctness and of the table's linkage;
2. the other GRO types, over what all types share: TCP in VXLAN, plain TCP over
   IPv4 and IPv6, UDP fragments plain and in both tunnels;
3. the API, which composes tables of all types: heavyweight mode, lightweight
   mode, creation and destruction of a context;
4. the engine of `testpmd`, which composes the API, streams and commands;
5. the proofs: every safety and action property of the GRO types, of the
   API in both modes, of the context and of the engine, and that the types and
   the API implement the abstract service.

Of the safety and action properties that the runs find to hold none is left
without a proof. Liveness stays with TLC.

## 3. Modules

| Module | Models | Uses |
|---|---|---|
| `GroTable` | the table of every type and its helpers | |
| `GroType` | the state and the flush loops of every type, and the properties all have | `GroTable` |
| `GroTcp` | `gro_tcp.h`: item, neighbour test, merge | `GroType` |
| `GroTunnelTcp4` | `gro_gtp_tcp4.c` and `gro_vxlan_tcp4.c` | `GroTcp`, `GroService` |
| `GroTcp4` | `gro_tcp4.c`, `gro_tcp6.c`, `gro_tcp_internal.h` | `GroTcp`, `GroService` |
| `GroUdp4` | `gro_udp4.c`, `gro_vxlan_udp4.c`, `gro_gtp_udp4.c` | `GroType`, `GroService` |
| `GroService` | what an application may rely on | |
| `RteGroTypes` | dispatch by packet type, a table seen as a set of runs | |
| `RteGro` | `rte_gro_reassemble`, `rte_gro_timeout_flush` | `RteGroTypes`, `GroService` |
| `RteGroBurst` | `rte_gro_reassemble_burst` | `RteGroTypes` |
| `RteGroCtx` | `rte_gro_ctx_create`, `rte_gro_ctx_destroy` | |
| `TestPmd` | the engine's GRO and the commands for it | `RteGroTypes` |
| `MC...` | packets for TLC | the module of that name |
| `GroTypeProofs`, `GroTcpProofs` | lemmas about the table and what every type has, about a TCP item | the module of that name |
| `GroTunnelTcp4Proofs`, `GroTcp4Proofs`, `GroUdp4Proofs` | theorems about a type | its module and the lemmas |
| `RteGroProofs`, `RteGroBurstProofs` | theorems about the two modes of the API | the module of that name |
| `TestPmdProofs` | theorems about the engine and about the memory of the contexts it creates | `TestPmd`, `RteGroCtx` |

**`GroTable`** is the table as a record of functions on slots, with one operator
per helper of the code. Searches (`FindEmptyItem`, `FindEmptyFlow`, `FindFlow`)
return the set of what they find: empty or a singleton, the lowest slot, for
the code scans from 0. Insertions return the set of tables they may leave, empty
when there is no slot. A walk along a chain is the least set closed under
`next_pkt_idx`; the packet a walk meets first is the one whose own walk holds
all the others looked for. So no operator is recursive, and the module can be
proved about. Empty item slots keep their stale chain field, empty flow slots
their stale key, as in the code. `remaining_flow_num` of the search loop stops
the scan after the last live flow; as long as `flow_num` is right, which is an
invariant here, it changes nothing.

**`GroType`** holds the state of a type with its application around it: the
table, the clock, the packets handed over (`offered`), given back (`back`) and
written (`out`). A call of reassemble is one step, `Offer`; what it may return
and leave is computed by the module of the type. A call of flush is many steps:
`FlushCall` binds the arguments, `WriteFront` is a turn of the inner loop that
takes a packet (delete, relink, count, return when `out` is full),
`FlushNextFlow` a turn of the outer one, `FlushReturn` either way to return
after the loop or on an empty table. The local variables of the call are `fl`.
Nothing interleaves with a call; the steps let the properties see where a flush
stops, and let a bug leave the loop in a bad place.

**`GroTcp`**: a packet is a record of the fields the code reads, with `conn` for
all key fields that are constant over a connection. Sequence numbers wrap at
`SeqSpace`; IPv4 IDs do not, because the code compares them promoted to `int`.
The test on the IPv4 length is a bound on the payload, `MaxPayload` (the headers
of neighbours are of equal length). `IdsTellOrder` names what the order of merged
packets rests on besides sequence numbers: that the IDs of a connection count up
with its sequence numbers where the neighbour test looks at them.

**`GroTunnelTcp4`** has `Tunnel = "GTP"` or `"VXLAN"`. The two files differ in
the flow key. The code copies the inner Ethernet addresses of the key from
behind the tunnel header. In GTP-U the inner IPv4 header starts there, so the
twelve bytes are its version, TOS, total length, identification, fragment
field, TTL, protocol and checksum; `FlowKey` has the fields among them that vary
within a connection (the checksum is a function of the others). Two segments
share a flow only if they are equally long and have the same identification: in
practice, full-size segments with DF and ID 0. The GTP header is taken to be
the bare one of 8 bytes.

**`GroTcp4`** has `Version = 4` or `6`. It adds the padding of short frames
(`Trim`), flags other than ACK, which make the first item of the flow due
(`HurryFirst`), and the place of a packet that cannot be merged: behind its
neighbour, where the tunnel types put it before. `MergeItem` follows where the
flags of a merged packet are written: to its own header if it was prepended,
and into payload, if it has that much (`FlagByte`), when it was appended.

**`GroUdp4`** has `Encap = "None"`, `"VXLAN"` or `"GTP"`. Chains are sorted by
offset; a flush first merges what became contiguous behind the item it is about
to write (`FlushMerge`, one step per merge). The plain type compares a fragment
with its neighbours by the length in the IPv4 header and chains it by that of
the mbuf, the tunnel types use the latter for both (`IpDl`); the two differ for a
frame that is shorter than its header says. The key in GTP-U is read from the
wrong place as for TCP. `NoOverlap`, `FramesComplete` and `NothingAfterLast` say
what a sender of fragments keeps to; `FitsOnePacket` which datagrams fit into the
length a merge is limited to.

**`GroService`** is what an application may rely on: a packet is given back at
once, or held alone, or joined to the end or the front of a held run to which
it is adjacent, or two runs are joined; runs are delivered, each once. The
three type modules implement it under the mapping that takes `held` to the
chains in the table and `out` to the chains written; `RteGro` implements it
under the union of its tables.

**`RteGroTypes`** has the packet type as a record of its 4-bit fields and the
tests of `rte_gro.c` as the bit tests they are, in the order in which they are
made. A table is a set of runs: which slots hold them no caller can see, and
that a type neither loses, doubles nor misplaces packets is `ImplementsService`
of its module. `flow` and `seq` say which packets are neighbours. What a type does
with a packet depends on its `kind`; "push" is a TCP packet with PSH or FIN, which
only plain TCP/IPv4 takes, which opens no flow, and which makes the first run of
its flow due at once whatever becomes of the packet (`Prepared`). The first
neighbour met in the flow decides: the packet is merged with it, or stored if
the two are too long for one packet (`Processed`). Which run of a flow is met
first, and the order in which a flush takes runs, are left open, except that a
UDP type unites what it can before it writes.

**`RteGro`** takes one step per packet handed in, merged or written. `arr` is
the array of the call in progress, which `rte_gro_reassemble` uses for input
and output at once; `got` is what the application received from flushes, `arrived`
a history of when each packet was handed in, which no step reads. The
position a type writes at and the room it is told of are computed as in the
code, with the unsigned types cut down to `ClockRange` and `CountRange`.

**`RteGroBurst`** is one call on any burst of up to `MaxBurst` packets; the
tables are on the stack, so what they hold at the end is lost.

**`RteGroCtx`** is the heap as a set of blocks (the context, and the three
allocations of a table per type), with each allocation able to fail, the roll
back of a table and of the context, and destruction. Its definitions are named
so that it can be used together with `TestPmd` (`CtxSpec`, `CtxTypeOK`).

**`TestPmd`** is one lcore. A call of `pkt_burst_checksum_forward` is one step,
for nothing it reads can change meanwhile: the commands refuse to run while
packets are forwarded. `run_pkt_fwd_on_lcore` serves the streams in turn.
`HandIn` is what the library may do with one packet, `Reassembled` with a burst:
the set of what may be held and given back then, by recursion on the number of
packets handed in.

Operators named `X_Something` next to an operator `X` are variants of it with a
plausible bug; putting one in place of `X` breaks the property that the
`mutants` list of `PROJECT.json` names with it.

## 4. Runs

| Run | Shows |
|---|---|
| `gtp_small` | GTP-U: every order of six packets of two connections (one of them across the wrap of the sequence number, with a segment retransmitted twice, unchanged and with a TCP option), flushes of both timestamps anywhere between, three slots, a limit of two segments that an append is refused at |
| `vxlan_live` | VXLAN: unequal lengths, IPv4 IDs that count up, an outer DF bit that differs, a limit of two segments; every packet comes back or comes out with room for as little as one per flush |
| `tcp4_small` | TCP over IPv4: padding, an acknowledgement that is all padding, PSH, FIN, RST, two slots |
| `udp4_small` | three fragments of a datagram, the last one padded, two of one that is too long to become one packet, and a packet that is no fragment; every one comes out |
| `api_mixed` | a context with three types, bursts of two of six packets (a segment in GTP-U, three fragments, a TCP/IPv4 segment and one with PSH behind it), flushes of one type or all, with and without timeout, the clock below it and not |
| `burst_mixed` | the lightweight mode on every burst of up to four of thirteen packets |
| `ctx_create` | every failure of an allocation |
| `pmd_mixed` | two streams, commands between a stop and a start, packets that cannot be transmitted, and what becomes of held packets |
| `gtp_neighbour` (violated) | neighbours by the guide's definition do not merge in GTP-U |
| `tcp4_flags` (violated) | a merged packet leaves without the PSH of one of its parts |
| `api_clobber` (violated) | what the VXLAN table flushed is overwritten |
| `burst_count` (violated) | the count returned is not that of the packets in the array |

What the passing runs check:

- `TypeOK` of each module;
- `TableWellLinked`: counters exact, no index in use dangles, no item on two
  chains; `NothingLeaks`: every held item is on the chain of exactly one flow;
- `OneFlowPerKey`, `PacketsInTheirFlow`: the flow array stays a map from keys to
  the packets of that key, though slots and stale keys are reused;
- `ItemsDescribeChains`, `LengthsAddUp`: sequence number, length, merge count and
  ID of an item are those of its chain, which is a run of neighbours, and the
  lengths written are those of the payload;
- `FlushTakesAllDueFronts`: a flush that did not run out of room leaves no flow
  whose first packet is due;
- `ChainsSorted`, `FlushMergesContiguous`: the fragments of a datagram that fits
  into one packet stay sorted, and one flush never writes two neighbours of such
  a datagram apart (section 5 on the others); `HeadersDescribePayload`: offset,
  length and MF of what is written are right;
- `ImplementsService`: refinement of `GroService`, by each type and by the API;
- `OutNeverOverrun`, `FlushAllEmpties`, `FlushHonoursTimeout`, `CompactionSafe`:
  room, completeness and age of flushes over several tables, and the array that
  is input and output at once. Age is measured by the times at which packets were
  handed in (`arrived`) and not by what the items say: a run leaves early only if
  a packet with PSH or FIN came for its TCP/IPv4 flow after a packet of it, or if
  the subtraction of the timeout wraps;
- `RoomForHeld`, `NothingLeftOnStack`, `ReturnCountsSegments`, `TunnelOfTable`:
  the same for the lightweight mode, and dispatch;
- `NothingLeaked`, `ReadyTablesExist`: roll back of a failed creation;
- `EveryPacketOnce`, `BurstNeverOverrun`, `FlushInTime`: the engine loses and
  doubles nothing through every change of mode (no packet is in two places, in
  two runs or twice in one), and flushes the shared context in time although
  each stream counts for itself;
- `EveryPacketComesOut`, `HeldPacketsLeave`: liveness.

**Bounds.** `EntriesNum` 3: the smallest table in which a chain has a middle, a
flow can be emptied between two live ones and the array overflows (2 for TCP
over IPv4, where it is the overflow that matters). `SeqSpace` 8: room for a run
across the wrap. `MaxPayload` and `MaxSegs`: in each run one of them is met in
the middle of a run of packets (`MaxSegs` in `gtp_small`, both in `vxlan_live`). `MaxTime` 1: packets that are due and packets
that are not. `NbOut`: a limit that can interrupt a chain or the round over the tables;
`vxlan_live` has one that does not as well.
`Pkts`: each packet arrives at most once, which bounds the behaviours.
`MaxRun`, `MaxItemNum`, `MaxBurst`: the longest run, the table and the burst are
each small enough to be exceeded by the packets there are. `api_mixed` has no
VXLAN type, `api_clobber` shows why; `burst_mixed` has none either, so that its
packets are those of types that are not enabled. In `pmd_mixed` a burst is
smaller than the array, as in the default configuration. The
listed runs set `Version = 4` and `Encap = "None"`, which have the most branches
(flags, padding, grouping). With `Version = 6` in `tcp4_small.cfg`, and with
`Encap = "VXLAN"` in `udp4_small.cfg`, the same properties hold; with
`Encap = "GTP"` all hold but `FlushMergesContiguous` (section 5). The packets of
`MCGroTcp4` and `MCGroUdp4` leave out the padding where the type has none.

**Deadlock** is checked except in `burst_mixed` and `burst_count`, where the one
call ends.

**Fairness.** `FairSpec` of a type asks that a call of flush runs to its end
(weak fairness of its steps: it is sequential code) and that the application
calls flush with timeout 0 and room for at least one packet again and again
(strong fairness of the call, which is disabled while a call runs). The engine
of `testpmd` does the latter every `gro_flush_cycles` bursts. That packets are
finitely many hides one thing: under a limit that is always smaller than what
comes in, flow slots with high indices can wait for ever, since each flush
starts over at slot 0. `FairSpec` of `TestPmd` asks that the lcore polls its
streams as long as it runs (its loop does nothing else). Nothing is assumed
about arrivals, about the clock or about commands; `HeldPacketsLeave` speaks of
the behaviours in which forwarding with GRO on is in the end left alone.

## 5. Deviations

Four runs end in a violation of what a text of the repository says; the
findings in `PROJECT.json` quote the text. In each, the property is the claim of the
text and the model is the code. The models show, or have no way to hide,
further places where code and text differ; no listed run states these:

- `gro_tcp4.c:202`: PSH or FIN makes the first packet of the flow due, not the one
  it is merged with or stored behind (comment at `gro_tcp4.c:195-196`: such a
  packet "should be processed and flushed immediately"). See `HurryFirst`.
- `gro_tcp4.c:200-205`: packets with PSH or FIN are processed whenever their flow
  is held, and given back only when it is not (`:214-234`). The guide says of TCP
  packets with one of FIN, SYN, RST, URG, PSH, ECE or CWR that they "won't be
  processed" (`doc/guides/prog_guide/generic_receive_offload_lib.rst:155-156`);
  that is so over IPv6 (`gro_tcp6.c:157`) and in the tunnels. See `ReassembleTrimmed` of
  `GroTcp4`.
- `gro_gtp_tcp4.c:429`: a packet that cannot be merged is stored before the
  neighbour it follows; the flush of that flow then stops at it although older
  packets are behind (comment at `:484-485`). See `MergeAt` of `GroTunnelTcp4`;
  `FlushTakesAllDueFronts` is what does hold.
- `gro_gtp_tcp4.c:260`: the message length in the GTP header of a merged packet
  stays that of the first segment. See `FlushedPacket`.
- `gro_tcp.h:110`: on a prepend the limit on segments is tested on the incoming
  packet, so that a run built backwards can exceed it. See `MergeTwoTcpPackets`.
- `gro_tcp.h:128`: after a prepend the item keeps the ID of its first packet, and
  the neighbour test (`gro_tcp.h:182` and `:186`) takes it for that of the last.
  `doc/guides/prog_guide/generic_receive_offload_lib.rst:162` and `:186` ask of
  neighbours that the "IPv4 ID ... should be increased by 1". As the code is, a
  packet is appended to such a run if its ID is that of the second packet of the
  run, and a second packet is prepended only if its ID leaves a gap. Of packets
  whose IDs count up the run therefore cannot grow any more; of packets whose
  IDs repeat or jump, some join that are no neighbours. `IdsTellOrder` excludes
  the latter. In GTP-U the ID is in the flow key, so that packets without DF do
  not merge at all. `ItemsDescribeChains` and `ImplementsService` fail without
  `IdsTellOrder`.
- `gro_vxlan_udp4.c:411` (and its relatives, `gro_udp4.c:293-310`): a fragment that
  comes before an item of its flow and is too long to be merged with it is
  stored behind it, against the comment at `:418`. The items of the flow are
  then out of order, and what is contiguous may be written apart. With unit
  fragments at offsets 0 to 3, `MaxPayload` 2 and the order of arrival 1, 2, 0, 3
  `ChainsSorted` fails without `FitsOnePacket`; with offsets 1 to 5, four slots and
  `MaxPayload` 2 so does `FlushMergesContiguous`. A plain datagram fits into one
  packet by its nature; in a tunnel the limit counts the outer headers, so that a
  datagram near 64 KB does not.
- `gro_udp4.c:375`: a repeated fragment stops the merge at flush.
- `gro_gtp_udp4.c:342`: the key of a fragment in GTP-U has the fragment offset in
  it, as in the finding on TCP, so that fragments in GTP-U are never merged:
  `FlushMergesContiguous` fails for `Encap = "GTP"`. See `FlowKey` of `GroUdp4`.
- `rte_gro.c:585`: the flush of GTP-TCP is made with room 0, which it takes for no
  limit, when a VXLAN table has filled `out`; for the same reason the engine
  overruns `pkts_burst` if `MAX_PKT_BURST` packets are given back
  (`csumonly.c:867`). `TunnelsApart` and `RoomAsked` of `RteGroProofs` exclude just
  this, without either `OutNeverOverrun` fails; `BurstsLeaveRoom` of
  `TestPmdProofs` excludes the latter, without it `BurstNeverOverrun` fails (in
  `pmd_mixed.cfg` with `MAX_PKT_BURST` and `NbPktPerBurst` both 1).
- `rte_gro.c:569`: a timeout larger than the cycle counter makes everything due.
  `FlushHonoursTimeout` names this exception, and PSH and FIN as the other one.
- `rte_gro.c:58` and `:513`: tests of tunnel numbers by bits take VXLAN-GPE and L2TP
  for the tunnels with fewer bits (`TunnelsKnown` of `RteGroBurstProofs` excludes
  this); inner fragments pass the test for TCP first; fragments of plain TCP are
  held as UDP. See the tests in `RteGroTypes`.
- `config.c:6104`: a port for which GRO was enabled while the flush cycles were not
  1 has no types when they are set to 1 later. `csumonly.c:858`: while the cycles
  are 1, or GRO is off, packets held from before are not looked at.
  `HeldPacketsLeave` says that they leave once the heavyweight mode is back.
- `csumonly.c:862` and `:865`: a stream sends what another stream of its lcore
  received, on its own port, and with several streams the tables are flushed
  after more operations than asked for (`FlushInTime` has the bound).

## 6. Proofs

All theorems hold for every value of the constants that satisfies the named
`ASSUME`s of the modules (positive table size, sequence space and segment limit,
packets that have the fields the code reads, IDs that tell mbufs apart); TLC
evaluates those in every run. What a theorem needs beyond that is a hypothesis
with a name. `FramesComplete`, `NoOverlap` and `NothingAfterLast` are what every
sender of whole frames and of datagrams cut once keeps to. `IdsTellOrder` asks
something of a sender's IDs, `TunnelsApart`, `RoomAsked` and `TunnelsKnown` of the
application and its traffic, `BurstsLeaveRoom` that `nb_pkt_per_burst` is less
than `MAX_PKT_BURST` (32 and 512 unless `--burst` or `set burst` says otherwise);
section 5 says how the code fails without them:

| Module | Theorems | Under |
|---|---|---|
| `GroTunnelTcp4Proofs` (both tunnels) | `TypeCorrect`, `AlwaysWellLinked`, `NeverLeaks`, `FlowsHaveTheirKeys`, `PacketsStayInTheirFlow`, `LengthsAlwaysAddUp`, `FlushIsThorough` | |
| | `ItemsAlwaysDescribeChains`, `RefinesService` | `IdsTellOrder` |
| `GroTcp4Proofs` (both versions of IP) | `TypeCorrect`, `TableStaysSound` | |
| | `LengthsAlwaysAddUp` | `FramesComplete` |
| | `RefinesService` | `IdsTellOrder` |
| `GroUdp4Proofs` (all encapsulations) | `TypeCorrect`, `TableStaysSound` | |
| | `HeadersAlwaysDescribe` | `FramesComplete`, `NothingAfterLast` |
| | `RefinesService` | `FramesComplete` |
| | `ChainsStaySorted` | `NoOverlap`, `FramesComplete` |
| | `FlushAlwaysMerges` | `NoOverlap`, `FramesComplete`, not GTP-U |
| `RteGroProofs` | `TypeCorrect`, `CompactionAlwaysSafe`, `FlushAlwaysHonoursTimeout` | |
| | `OutIsNeverOverrun`, `FlushOfAllEmpties`, `RefinesService` | `TunnelsApart`, `RoomAsked` |
| `RteGroBurstProofs` | `TypeCorrect`, `RoomStays`, `NothingStaysOnStack`, `ReturnAlwaysCounts` | |
| | `TablesKeepTunnelsApart` | `TunnelsKnown` |
| `TestPmdProofs` | `TypeCorrect`, `PacketsOnce`, `FlushesInTime` | |
| | `BurstFits` | `BurstsLeaveRoom` |
| | `CtxTypeCorrect`, `NeverLeaks`, `ReadyIsWhole` (of `RteGroCtx`) | |

The packets of `MCGroTunnelTcp4`, `MCGroTcp4` and `MCGroUdp4` satisfy the
hypotheses on packets, which these modules assume for TLC to evaluate;
`api_mixed` has types and limits that satisfy `TunnelsApart` and `RoomAsked`, and
the packets of `burst_mixed` satisfy `TunnelsKnown`; `pmd_mixed` has bursts of 2
and an array of 3.

**The table.** Linkage is not inductive alone. `Sound` of `GroTypeProofs` is
the strengthening: the table is typed, `WellLinked`, every held item is
`Reached` from a live flow, the keys of live flows differ, and every item on the
chain of a flow is, with the key of that flow, in a set `Fits` of pairs. `Fits`
is the parameter that lets a type say what it wants of its items: lemmas show
that each table operation keeps the table `Sound` if the new pair is in
`Fits`. The ones about counters use that adding or removing one slot changes a
cardinality by one. In an insertion into the middle of a chain the new slot
takes over the successor of its predecessor, so the successor is still pointed
at once; that a slot just filled is not pointed at already follows from
`NoDangling` before the insertion. A chain is the least closed set, so what a walk
meets after an operation is shown by giving a closed set that avoids the rest.

**The types.** `StateOK` of `GroTypeProofs` is types, `Sound`, and that the
flows a flush has passed hold nothing due at their fronts (`PassedFlowsNotDue`);
every step of the application and of the flush keeps it, for any kind of item,
key and written packet. The module of a type adds the branches of its reassemble
function and two choices of `Fits`: pairs whose lengths and flow agree
(`FitsFlow`), which every set of packets keeps, and pairs whose packets are a
contiguous run of the key (`FitsRun`). For TCP the latter needs `IdsTellOrder`, for
the test reads the ID of the item and not of the packet it speaks of. For UDP
one part of it rests on `FramesComplete`, that offset and length of an item
describe its fragments: the plain type finds neighbours by a length that is not
the one it adds up. The rest needs nothing. The payload of a chain is the cardinality of the set of its bytes, so
that appending and prepending need no induction over sequences. Sequence
numbers wrap, and `GroTcpProofs` has the arithmetic of that.

**Order of UDP chains.** `LinksSorted` says of each link of a chain alone that what
it joins is in order; an insertion changes two links, a merge at most two. That a
walk meets items in order follows from the links, and so does that a flush which
has written an item has nothing left that the item could have been merged with
(`WrittenBefore`: what was written in this flush from a flow ends before what
the flow still holds).

**Refinement.** The held runs of the service are the chains in the table. Each
result of the reassemble function is one of its steps: refused is given back,
inserted is held alone, merged is joined to one end, and for UDP a merge of
two items is the joining of two runs. A write delivers a run. What makes a
step legal is `FitsRun`, and that a packet is on one chain only.

**The API.** `TypeInv` of `RteGroProofs` adds to `TypeOK` that tables fit into
their limits and that the indices of the loop stay in the array. `BurstInv` adds
that the packets not yet looked at are those handed in, which makes the
compaction of the array safe; `TimeInv` that held runs are no younger than the
clock of the call. `ToldInv` ties the times of runs to those of packets: the time
of a run is that at which one of its packets was handed in, or it is a TCP/IPv4
run that has been hurried; merges keep the time of one part, so each of them has
to be shown to keep this. `RoomInv` that what was written and what is left are the room
asked for; `EmptyInv` that the types already flushed are empty; `PlaceInv` that
no packet is in two runs of one table or of two (`Placed`), that what is held was
handed in, and that each run counts up. The refinement rests on the
last.

**The lightweight mode.** `RteGroBurstProofs` follows the front of the array: the
packets given back and, behind them, those written. `PlaceInv` says that each
packet the loop has looked at is in the front or in one run of one table, once.
From that the runs in all tables can be counted together, and `CountInv` relates
their number and the front to `nb_after_gro`: while packets come in the sum is
exact, and at flush time only the merge of UDP runs makes it smaller, which is
why the count returned is right just for bursts without fragments. `KindInv`
has what the dispatch said of each held packet.

**The engine.** The variables of `TestPmd` that hold packets are sets of runs. A
set of runs is `Separate` if no two share a packet and none has a packet twice;
`PlaceInv` says that all runs together are `Separate`, that their packets are
those received, and that no run is in two places. Every call of the engine is
`Moved`: packets come in, runs go out, and what was in the context and what came
in are what is in the context and what goes out. One lemma shows that this
keeps `PlaceInv`, whatever transmit loses; the calls of the four modes are then
only shown to be `Moved`.

For the two modes with GRO this is a fact about a burst of any length:
`Handled` relates what is held and given back after n packets to what was held
before and the n packets, and `HandInKeeps` is its step. The library's
induction theorem takes an operator for the predicate, so the induction is made
on a set: the n for which it holds have 0 and with n its successor, and are all
of `Nat`, for otherwise there would be a least n outside (`InductiveSet`, from the
well-foundedness of `<` on `Nat`). That the recursion in `Reassembled` defines
a function at all is shown the same way (`ReassembledIs`).

`FlushInTime` is not inductive: `ops` counts operations of all streams, and a
flush sets back the count of one. `OpsInv` bounds `ops` by the cardinality of
`Counted`, which has a pair of stream and number for each operation a stream has
counted. An operation without a flush adds one pair and one to `ops`; one with a
flush takes pairs away but leaves `ops` at 0. As no stream counts up to the
flush cycles, there are at most `NbStreams * (GRO_MAX_FLUSH_CYCLES - 1)` pairs.
`RoomInv` has the room in `pkts_burst`: what the flush is asked for is cut down to
the room behind what was given back, and 0, which the flush takes for no limit,
is asked for only if nothing is held or that room is 0. TLC was used to check
`TypeInv`, `PlaceInv`, `OpsInv` and `RoomInv` on the instance of `pmd_mixed`.

**The context.** `HeapInv` of `TestPmdProofs` says for every place in the code
which blocks are allocated.

Checked by TLC only:

- liveness (`EveryPacketComesOut`, `HeldPacketsLeave`): out of the prover's reach;
- the four claims of section 4 that the code violates.

## 7. Not modelled

- Checksums (the library does not recalculate them), the contents of payloads,
  mbuf memory, statistics, the parsing of frames: a packet comes with its packet
  type and header fields.
- `rte_gro_get_pkt_count`, which only reads; trace points, which only log;
  earlier copies of the sources.
- Of the engine, everything but GRO: GSO, tunnel parsing, checksum offloads.
- The rest of DPDK (drivers, EAL, other libraries and applications: more than
  99 % of the lines of the tree) is unchanged third-party code that GRO meets as
  an allocator, a clock and packets. A share of the lines of the whole tree
  says therefore nothing here: of the code of the library in `lib/gro` and of
  the engine's GRO, all operations that change state are modelled.
- The reports on the TAP driver and on filtering rules have no code.
