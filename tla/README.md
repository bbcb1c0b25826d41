# BULLET: TLA+ models of the uplink scheduling of 5G-LENA and of its video traffic

BULLET is a copy of ns-3.37 with two modules of its own in `contrib/`:

* `contrib/nr`, the 5G-LENA New Radio model, changed so that the gNB scheduler can
  grant uplink resources before a UE asks for them (`bullet-trigger.cc`);
* `contrib/bitrate-ctrl`, an application that sends interactive video over such an
  uplink: encoder, packet sender with FEC and retransmission, receiver, decoder,
  congestion control.

ns-3 is an event simulator of one thread. Nothing is preempted in the middle of a
handler, so every handler is one action here. What makes the behaviour hard is the
order of events: two protocol machines (UE and gNB) that see each other through
messages some slots old, transport blocks that are lost, timers, and tables that are
filled in one slot and read in another.

Every definition that models code is listed in `PROJECT.json`, under `map`, with the
lines it stands for.

## Inventory

`nr` stands for `contrib/nr/model`, `br` for `contrib/bitrate-ctrl/model`.

| Component | State | Operations | Hard behaviour | What makes it correct |
|---|---|---|---|---|
| SRS offsets, `nr/nr-mac-scheduler-srs-default.*` and its callers in `nr-mac-scheduler-ns3.cc` | stack of free offsets, period, the offset and period of each UE, `m_srsSlotCounter` | AddUe, RemoveUe, IncreasePeriodicity, DecreasePeriodicity, DoScheduleSrs | long histories of attach, release and growth; a counter that wraps | no two UEs share a slot, no offset is lost, every UE gets its turn |
| Uplink HARQ, `nr-mac-harq-vector`, `nr-mac-harq-process`, `nr-mac-scheduler-harq-rr`, `DoSchedUlTriggerReq` | process vector per UE, `m_usedSize`, `m_ulHarqToRetransmit` | ResetExpiredHARQ, MergeHARQ, ProcessHARQFeedbacks, ScheduleUlHarq, Insert, Erase | timers against late reports, retransmissions that do not fit, processes reused in the trigger that freed them | a report is about the block its process holds; the fatal errors are unreachable; nothing is put off for ever |
| Uplink grant loop, `nr-ue-mac.cc`, `nr-mac-scheduler-lcg.cc`, `BSRReceivedFromUe`, `DoScheduleUlSr` | `m_srState`, `m_bsrLast`, UE buffer, `m_srList`, `m_ulCeReceived`, queue of the channel group | DoReportBufferStatus, SendSR, ProcessUlDci, SendReportBufferStatus, AssignedData, UpdateInfo | stale reports, lost blocks, a period that holds reports back | waiting data is known to one side or the other; it is served; grants to an idle UE end |
| Downlink scheduler, `DoSchedDlTriggerReq`, `ScheduleDlHarq` | downlink process vectors, `m_dlHarqToRetransmit`, `m_ulAllocationMap` | as uplink, per beam and per stream | symbols already booked for the uplink of the same slot | no symbol is booked twice |
| Symbol and RBG assignment, `nr-mac-scheduler-{ofdma,tdma}*` | metrics of the UEs during one call | AssignDLRBG, AssignULRBG, CreateDci | greedy loops that must end | all resources are used while someone needs them, none twice |
| BULLET trigger, `bullet-trigger.cc` | windows of past slots, traffic profile, `m_proactiveBsr` | Processor once per slot, GetProactiveBSR | mixes values observed at different slots | a proactive grant is withdrawn when it is no longer wanted |
| CQI management, AMC | CQI and its timer per UE | Refresh, SBCQIReported | values that expire | an expired CQI is not used |
| gNB MAC, `nr-gnb-mac.cc` | `m_srRntiList`, `m_ulCeReceived`, `m_ulHarqInfoReceived` and the downlink lists | indications of slots, control messages, attachment | lists drained once per indication | each entry is handed over once |
| gNB and UE PHY, `sfnsf.cc` | control message queues, slot allocations, TDD tables | StartSlot, PushFront/BackSlotAllocInfo, Pop | UL and DL of one slot are generated in different slots | a slot is on the air with all its allocations, once |
| Spectrum PHY, interference, error models, `nr-harq-phy` | HARQ history per process | end of reception | numerical | external choice: decoded or not |
| Channel access (`SlotPipeline` has the request and the release), beams, bandwidth parts, power control, headers, ideal RRC | see `PROJECT.json` | | | |
| Video sender, `br/packet-sender-udp.cc` | `data_pkt_history` and its keys, `pktsHistory`, send queue, timers | CreateFrame, CheckRetransmission, RcvACKPacket, SendPacket | deadline, timer and acknowledgement race | a packet is retransmitted while it is useful and unacknowledged, and then forgotten |
| Video receiver and groups, `br/packet-receiver-udp.cc`, `br/fec-policy/packet-group.cc` | incomplete, complete and timed-out groups, receive window | ReceiveUdpPacket, Feedback_NetState | duplicates and late packets | a group is in one table; a packet is decoded once |
| Video decoder, `br/video-decoder.cc` | `unplayed_frames`, `played_frames`, `m_lastPlayedFrameId` | DecodeDataPacket | discarding at the deadline between late frames | frames are played once and in order |
| Congestion control, FEC policies | estimators | processFeedback | numerical | |

Interactions: the UE MAC and the gNB MAC exchange SR (control message, delayed by
`L1L2CtrlLatency`), DCI (the same way back) and transport blocks (at the granted slot,
decoded `TbDecodeLatency` later). The gNB PHY calls the gNB MAC once per slot that it
has to generate, and the MAC hands its lists to the scheduler and triggers it. The
scheduler calls the SRS object when UEs come and go. The video application sees all of
this as an IP link with variable delay.

## Modules

| Module | What it is |
|---|---|
| `SrsOffsets` | SRS offset assignment |
| `UlHarq` | uplink HARQ processes of all UEs |
| `StopAndWait` | what HARQ processes promise whatever the timers and lists, which `UlHarq` implements |
| `UplinkGrant` | SR, BSR and grants of one UE |
| `VideoDecoder` | the decoder of the game client |
| `FrameOrder` | what a viewer may rely on, which `VideoDecoder` implements |
| `SlotPipeline` | gNB PHY, scheduler entry points and UE PHYs, composed: planning, announcing and executing slots |
| `FecGroups` | the packet groups and batches of the video receiver, as operators |
| `VideoTransport` | video sender, link and receiver, composed; uses `FecGroups` |
| `PacketDelivery` | what the video application may rely on, which `VideoTransport` implements |
| `SrsOffsetsProofs`, `UlHarqProofs`, `UplinkGrantProofs`, `VideoDecoderProofs`, `VideoTransportProofs`, `SlotPipelineProofs`, `SlotGrantProofs`, `SlotCountProofs` | theorems and proofs |
| `MCSrsOffsets`, `MCUlHarq`, `MCUplinkGrant`, `MCVideoDecoder`, `MCVideoTransport`, `MCSlotPipeline` | definitions for TLC (periods, TDD patterns, symmetry) |

The operators whose name begins with `Fault` are small deviations of the definition
they stand beside; each one breaks a property, which shows that the property depends
on that line of the code.

### SrsOffsets

State: `available` is `m_availableOffsetValues` (a stack: `AddUe` pops its end),
`periodicity` is `m_periodicity`, `ueMap` the UEs of `m_ueMap`, `srsPeriodicity` and
`srsOffset` the fields the scheduler keeps for each, `srsSlotCounter` is
`m_srsSlotCounter`. `since` is history (SRS slots since a UE sounded) and `aborted` the
failed `NS_ASSERT` of `DoCschedUeConfigReq`. Actions: `DoCschedUeConfigReq` (attachment,
with the growth of the period when no offset is left and the reassignment to every UE
that the code makes through its callback), `DoCschedUeReleaseReq`,
`DecreasePeriodicity`, `DoScheduleSrs`. The shuffle of the offsets is a free choice of
an order, and so is the order of the hash map.

*Run `srs_offsets`* (five UEs, table of periods {2, 4}, starting with 2, counter modulo
11). Three UEs outgrow the first period and a fifth finds the last one full; neither
period divides 11, so the counter wraps in the middle of a cycle. It checks
that offsets are exclusive, no offset is lost, a UE
waits a bounded number of slots for its SRS even across the wrap, and the period
grows only when it must. Deadlock is not checked: when the longest period is full,
the assertion stops the program, and the model stops with it.

`DecreasePeriodicity` does not decrease: it takes `lower_bound` of the period in use,
which is that period, and only draws the offsets anew. The scheduler never calls it.

### UlHarq

State: `harq` maps every process of every UE to its status, timer, redundancy version
and number of symbols; `usedSize` is `m_usedSize`; `onAir` holds the grants whose block
has not been received; `received` is `m_ulHarqInfoReceived` of the gNB MAC; `toRetx` is
`m_ulHarqToRetransmit`; `fatal` becomes true where the code calls `NS_FATAL_ERROR` or
fails an assertion about HARQ. Actions: `UlHarqFeedback` (a block is received,
decoded or not), `NothingSent` (the UE puts nothing on the air in a grant, which
`TransmitRetx` does when there is no packet burst), and `DoSchedUlTriggerReq`, which
is the whole trigger in the code's order: expiry, merge, removal of reports for
inactive processes, processing, retransmissions as they fit, new grants.
Which UE gets new data and how many symbols is left open within what TDMA and OFDMA
can do. Erase-while-iterating loops are subsequences (`Kept`).

*Run `ul_harq`*: two UEs, two processes each, one retransmission, slots of one or two
symbols, reports up to one trigger late. That is enough for a process to expire, be
acknowledged and be reused within one trigger, for two retransmissions to compete
for the last symbol, and for a retransmission to be put off. `OutstandingIsCurrent`
is the key: nobody stamps a report with a sequence number, so only the timers keep a
report from being applied to the next user of its process. The run also checks that
`UlHarq` implements `StopAndWait`. There a process has a phase (free, sent, acked,
nacked, silent) and a number of tries, and a trigger is one round over all processes:
one that is sent waits, an acked one leaves, a nacked one is sent again, kept or
dropped while it has tries left and leaves otherwise, and only then a process may take a new block.
The mapping reads the phase off the air and the two lists of reports (`PhaseOf`), never off the
status field, so it says that the status, timers and lists of the code agree
with what really happened to the block. `NeverOvertaken` and `TurnComes` are
the safety half of `BufferedIsServed`: a report put off never moves back in the buffer, and a
whole uplink slot sends the first one again. What liveness adds is that such slots recur.

*Run `ul_harq_live`* (three UEs, one process each, reports at once): under fairness (see
below) a retransmission that was put off is not starved by the other retransmissions
and the new grants, and does not expire; an abandoned process is freed. Short slots put
retransmissions off, and every UE can need the whole slot.

*Run `ul_harq_queue`* shows a difference between comment and code: NACKs behind the one that
takes the last symbol are not queued for the next slot. (Another difference has no
run: processes expire before the feedback of the trigger is read, not after it as the comment of
`DoSchedUlTriggerReq` says.)

### UplinkGrant

One UE and its channel group. State at the UE: `buf`, `srState`, `sinceBsr` (slots since
`m_bsrLast`, up to the period). At the gNB: `srList`, `ce` (the BSR that waits in the MAC),
`queued` (the group's queue is not empty), `nacks`. Between them: `srAir`, `dcis`, `tbs`,
each element with its age. Of the number of bytes the model keeps what decides about
grants: zero or not at the gNB, a few units at the UE. In the code a grant that takes
all of the queue leaves 50 bytes and one that takes a part leaves at least 12
(`AssignedData`), so only a BSR of 0 empties the queue; a proactive grant (schedule modes
1, 2, 3, 5 and 6) may be made with the queue empty (`Proactive`). Schedule mode 4 (Ideal) is
not modelled: there the queue is overwritten with `m_idealBsrMap` on every trigger and SR, so
it can become 0 without a BSR of 0. (The map is also not what the comment at
`nr-mac-scheduler-ns3.cc:1428` calls it, the true buffer size: `DoReportBufferStatus` fills it
before it enters the new report, so it is one report behind.) Actions:
`DoReportBufferStatus` (RLC), `ProcessUlDci` (a new grant with room for `n` units and a
BSR when its period is over), `ProcessUlDciRetx`, `DoReceivePhyPdu`, `DoUlHarqFeedback`, and
`Slot`, the slot indication at UE and gNB with the whole of `DoSlotUlIndication`.

*Run `uplink_grant`*: a buffer of 2, DCIs and SRs 2 slots on their way, blocks 3, a BSR
period of 5 slots, one retransmission, three processes. Delays are those of the
default configuration. `WaitingIsKnown` relates the state of the UE to the memory of
the gNB and all that is under way.

*Run `uplink_grant_live`*: smaller delays, fairness, three leads-to properties.

*Run `uplink_grant_stale_bsr`*: with blocks 5 slots on their way (a larger `N2Delay`) a BSR
of 0 that left before the SR overtakes nothing but is *applied* after it, and the UE
waits for ever in state ACTIVE.

### VideoDecoder

State: `unplayed` and `played` are `unplayed_frames` and `played_frames`, where a frame
under collection is partial or complete and an entry of `played_frames` is a frame
or a null pointer; `maxFrame`, `lastPlayed` are `max_frame_id` and `m_lastPlayedFrameId`.
`decoded` and `acked` are history. `DecodeDataPacket(f, complete)` is one pass of the
loop over the packets: the frames before the deadline are discarded, then
the packet is added, then frames are played. The nested discarding loop is given by what
it amounts to: it discards `Late(f)`, plays the complete frames it meets in between, then
overwrites those of them that it reaches itself (`PlayedThenDiscarded`), and ends at
`LastAfterDiscard`. Any packet may come at any time, which includes losses,
retransmissions, FEC recovery and doubles. `GetDDLMissRate` is the end of the run.

*Run `video_decoder`* (frames 0 to 6, deadline of three frames): long enough for a gap wider than
the deadline, and for the discarding loop to walk over frames it has played. It checks
the window of collected frames, which complete frames can wait, that a complete frame is
shown in the end, the order of the ACKs, and that the decoder implements `FrameOrder`: frames
are passed as growing beginnings of the video, and shown when passed or never. The client
stops for good (`CHECK_DEADLOCK FALSE`).

A complete frame does wait, with everything before it played. After frames 0, 2 and 3 a packet of
frame 5 discards frames 1 and 2, plays 3, and leaves `m_lastPlayedFrameId` at 2; frame 4
then completes, and each of its packets is answered by "rtx frame not filled" until the
discarding loop reaches the deadline, shows it and sends no ACK. The run reaches this
state. `ReadyWaits` bounds it: a complete frame waits only behind a `lastPlayed` that was set back
to a frame shown and then replaced by a null pointer, and only while the frame before it is
within the deadline; `CompleteIsShown` says that the wait ends with the frame being shown.

*Runs `video_decoder_miss_rate` and `video_decoder_null_frame`*: discarded frames are
counted as received, and a lost frame leaves a null pointer that the statistics use.
Both properties above except frame 1: frame 0 is played by a branch that does not look behind
it, so a complete frame 1 waits for another packet of its own or is discarded.

### VideoTransport, FecGroups and PacketDelivery

The sender keeps each data packet as one object that the history, the queue and the batches
share; `groupOf`, `encode`, `batchOf` and `sent` are its fields. `history` and `keys` are
`data_pkt_history` and `data_pkt_history_key`, `queue` is `m_queue`, and `batches`
holds what the packets of a batch say about it in their headers. `link` and `acks` are sets, from
which a packet may be received late, out of order, or never. The receiver has the keys of
its three tables (`incomplete`, `complete`, `timeout`), the objects of the first one
(`grp`, see `FecGroups`) and the history variable `decoded`.

Actions: `CreateFrame` (a frame of any size, divided into groups of any size with any number
of FEC packets, since the FEC policies are numerical), `SendPacket` (the first packet of the
queue), `CheckRetransmission` (a tick of the clock and the whole timer handler),
`RcvACKPacket`, `ReceiveUdpPacket` (insertion, decoding, acknowledgement, completion and the
sweep for timeouts). The two loops of `CheckRetransmission` erase from a deque while they
walk over it; the model says where each of them ends (`FirstLoopEnds`,
`SecondLoopEnds`) and which keys are left then. In the receiver the order of the code is
kept, in which a finished group is looked for only behind the insertion. `FecGroups`
describes `AddPacket` and `CheckComplete`: a batch is complete by counting, and what it
lacks is recovered. A packet still queued when its group is retransmitted changes its batch in the
queue, as in the code. Times are in units of `check_rtx_interval`.

*Run `video_transport`*: two packets, two batches, one FEC packet for each, a deadline of one
tick and a clock of three. That suffices for one group of two packets and its
retransmission, or two groups, for losing everything, for FEC packets overtaking data
and for packets and acknowledgements older than the deadline. The timeout of a packet grows
with its batch (`IsRtxTimeout`): `srtt + 4 * rtt_sd` is 0 or out of reach at each check and
the dispersion, by which the size of the batch counts, is 0 or 1. `NeverForgotten` ties the two
ends together: what the sender has erased, the decoder has or could not use any more.
`PacketDelivery` states the same as an abstract machine with four steps, which the transport
implements. `Forgotten` is the liveness of the run: the history does not grow for ever.

The model also shows three oddities that break none of the invariants: a packet is handed
on twice when it is recovered from a second batch (the decoder ignores doubles); a late
packet of a finished group opens the group again, until the sweep removes it; and a group
opened by the FEC packet of a retransmission has the time of the retransmission as its encode
time (`HeaderTime`), so that it is given up later than its frame is late.

### SlotPipeline

What happens in a slot is decided in three slots before it. The uplink of slot T is planned
in slot T - k2 - L (`L` is `GetL1L2CtrlLatency`), announced by DCIs in slot T - k2, and on air in T;
the downlink of T is planned in T - L and announced in T. Where T - k2 is an UL slot, which cannot
carry a DCI, `ReturnDciSlot` goes back further. The scheduler therefore decides on the
uplink of a slot first, books its symbols in `m_ulAllocationMap`, and fits the downlink in
between the DL CTRL and what is booked.

State at the gNB: `slot`; `phase` of the slot; `channel` (`m_channelStatus`); `slotAlloc`
(`m_slotAllocInfo`: per slot `m_numSymAlloc` and the VarTtis); `onAir`, what `StartSlot` put into
execution; `ulMap` (`m_ulAllocationMap`: symbols, and first symbols of the data blocks); `cqi`
(`m_ulCqiReceived` of the MAC); `attached`. At the UEs: `ueSlot`, `ueAlloc`, `ueCurr`
(`m_currentSlot`, `m_slotAllocInfo`, `m_currSlotAllocInfo`). Between them `dci`.

| Action | Code |
|---|---|
| `StartSlot` | `NrGnbPhy::StartSlot` with `CallMacForSlotIndication`: all uplink and downlink indications of the slot, the scheduler's `ScheduleUl` and `ScheduleDl` behind them, the DL CTRL for MIB and SIB1, the request for the channel, the DCIs that are due, the events of the slot |
| `UplinkOnAir` | the UEs with a grant and data transmit, the gNB reports a CQI for each block received (`GenerateDataCqiReport`) |
| `EndSlot` | `NrGnbPhy::EndSlot`, which gives the channel back |
| `AddUe` | a UE becomes known to the scheduler |
| `UeStartSlot` | `NrUePhy::StartSlot`: takes what was announced for the slot and adds the control symbols of its type |
| `PhyCtrlMessagesReceived` | a UE receives its DCIs |

The scheduler's choice is left open within what `DoScheduleUl` and `DoScheduleDl` allow: any
division of the free symbols in adjacent columns, each for any UEs (one column of an OFDMA
scheduler has several), with or without SRS. A UE gets one DCI of a slot in the downlink
(`Owners`); in the uplink that holds for new data only, and the retransmissions behind it are
one DCI each, any number of them for one UE (`UlOwners`). `conf` is the configuration of the
bandwidth part: the pattern, whether it is the one with MIB and SIB1, and a bound on the
slots for which there is anything to schedule. `ToSendUl`, `ToSendDl`, `GenerateUl` and
`GenerateDl` are the tables of `SetTddPattern`; in FDD they are made as if every slot were F, and the
opposite direction is struck out.

*Run `slot_pipeline`*: slots of four symbols (DL CTRL, UL CTRL and two that uplink, SRS
and downlink compete for), N2Delay 1, L = 2, two UEs, slots 0 to 12, UEs attached from slot 6, after
the SIB1 of slot 5. Seven configurations: all F, TDD with an S slot and two UL slots in succession
(which makes k2 grow; twice, with different slots busy), DL/UL, F/UL, FDD uplink and FDD
downlink. Twelve slots are more than two periods of the longest pattern, and more than
the way of a grant from planning to CQI. UEs are interchangeable, so they are a symmetry set.
The run ends at the last slot (`CHECK_DEADLOCK FALSE`). `DlCtrl` and `UlCtrl` are the default,
one symbol; with more UL CTRL symbols `AppendCtrlSym` goes beyond the slot.

`NoOverlap` is the comment above `DoScheduleDl`, "DL and UL allocation will not overlap";
`Counted` is the assertion of `GenerateAllocationStatistics`; `UeAgrees` compares the two ends of
the DCIs at the end of each slot; `CqiFindsAllocation` has the two assertions of
`DoSchedUlCqiInfoReq`, for which an entry must survive until its CQI; `NoMessageLeft` is the
assertion of `DoStartSlot`. None of the configurations has MIB or SIB1 in an UL slot: there the DL
CTRL would be pushed over uplink data, see the hazard at `nr-gnb-phy.cc:742`.

## Fairness

Safety is checked without any. `UlHarq!Fairness`: a granted slot comes (weak), and a
whole uplink slot is triggered again and again (strong, since reports must arrive
first): the TDD pattern is periodic (`NrGnbPhy::CallMacForSlotIndication` indexes it modulo its
length). `UplinkGrant!Fairness`: slots follow each other and what is due arrives (the
simulator's event queue); SR occasions recur (`m_srPeriodicity`), also in slots with
symbols to spare; the scheduler, round robin or proportional fair, does not pass over a
queued UE for ever; grants large enough for data recur; NACKed blocks are sent again
or given up in the end (the HARQ timer); and not every block with a report is lost,
which is an assumption about the radio channel: without it nothing could be delivered.
`VideoTransport!FairSpec` has one condition, weak fairness of `CheckRetransmission`: the last
line of the handler schedules it again. Nothing is assumed about the link.

## Proofs

Checked by TLAPS for all values of the constants.

* `SrsOffsetsProofs`: types, exclusive offsets, the common period (`SamePeriodicity`, without which
  `SrsGap` could not hold), conservation of the offsets, growth only when needed, and `SrsGap`. Assumption: `PeriodicityAssumption`, the table of standard
  periods is a finite set of positive numbers that contains the starting period, and
  `CounterAssumption`, no period exceeds the range of the counter (2560 against 2^32). The
  inductive invariant is the conservation law: the stack and the UEs' offsets together
  are one enumeration of `0 .. period - 1` without repetition. For `SrsGap` it is strengthened
  by `Phase`, which bounds the wait of each UE by a function of the counter and its offset
  (`Waited`): the remainder of their difference, or, behind the wrap and before the offset, the
  slots since the wrap and what the last period before it had left. `SrsGap` alone is not inductive,
  since it forgets where in its period a UE is when the counter wraps. The rest is
  arithmetic of remainders (`ModOf`, `ModNext`, `WrapBound`), for which the provers need every
  multiple spelled out.
* `UlHarqProofs`: types, `OutstandingIsCurrent`, `NoFatal`, `UsedSizeExact`. Assumption:
  `Delay < NumHarq`, a report takes fewer triggers than a process lives (20 processes
  against some 5 slots). The inductive invariant adds to these: what is outstanding is
  outstanding once (`Exclusive`), and the timer of a process with a report waiting is small
  enough to survive the next ageing (`Young`). Without `Young` the ageing could free a
  process under its report; without `Exclusive` two reports could claim it. `HarqIsStopAndWait` is the
  refinement of `StopAndWait` under the same assumption. `PhaseMeans` reads the abstract
  state off the invariant in both states of a step; a trigger is then a case
  analysis per process: reused, freed, on the air, reported, or neither. What it needs beyond
  the invariant is that the erase-while-iterating loops lose nothing that they are to keep (`KeptAll`, an
  injection between sets of equal size is a surjection). `TurnsAreKept` (`NeverOvertaken`) needs that
  no element moves back in them (`KeptMovesUp`, by counting again) through the three lists of a trigger. `TurnsCome`
  (`TurnComes`) follows the first report of the buffer through the same lists: it is young enough not to
  expire, has retransmissions left (`CanRetry`, one more conjunct of the invariant), is
  the first NACK, and fits in a slot of `MaxSym` symbols. That the recursion of `Left` has its
  equation (`LeftLemma`) is proved by a least counterexample, with the theorems about well-founded relations.
* `UplinkGrantProofs`: types (no assumption), and `WaitingIsKnown` under `TbDelay <= SrDelay + 1`,
  for schedule modes 0 to 3, 5 and 6.
  The default configuration meets it; TLC finds a counterexample at `TbDelay = SrDelay + 2`,
  so the bound is exact. The invariant says that a report of 0 is harmless: as
  long as one is on its way while data waits, the request for that data arrives behind it
  (`ZeroIsFollowed`), because blocks are delivered in order (`OldestFirst`).
* `VideoDecoderProofs`: types, the window, `ReadyWaits`, `CompleteIsShown`, the order of the ACKs,
  and the refinement of `FrameOrder`. Assumption: the deadline is at least one frame interval
  (`DecoderAssumption`). `PlayedPrefix` is the strengthening: the played frames are a
  beginning of the video that reaches to `lastPlayed` or beyond. `lastPlayed` alone does
  not say what is played, since the discarding loop can set it back; `SetBack` says to which frames,
  and `NextIsIncomplete` that the one behind it never waits complete. `PacketEffect` reduces a packet to three
  numbers: where discarding ends, where it leaves `lastPlayed`, and where playing ends.
* `VideoTransportProofs`: types, the four invariants of the run, `RtxIsUseful`, and the
  refinement of `PacketDelivery`. Assumption: `TransportAssumption`, the bounds are
  natural numbers and the deadline is shorter than the run (the dispersions of
  `DispersionAssumption` are not needed). The inductive invariant
  `IInv` says what each place knows about a packet: a batch holds packets of its group only; a
  message, queue entry or acknowledgement names a batch that exists; an acknowledgement and
  a group's `decoded` list only what the decoder has; the encode time of a group object is not
  before that of its packets; and the keys are sorted by packet number, so also by encode
  time. The loops of `CheckRetransmission` and the counting of `CheckComplete` are lemmas.
* `SlotPipelineProofs`: types (with the bound on the booked symbols), `NoOverlap` and
  `CqiFindsAllocation`, for all patterns, delays, slot lengths and numbers of UEs. Assumption:
  `PipelineAssumption`, the control symbols and the SRS fit in a slot, and each pattern has slots that
  can carry a DCI no further back than `Ahead`. `NoOverlap` has the hypothesis `BroadcastInDl`, no MIB or
  SIB1 in an UL slot and none on a bandwidth part without downlink. The invariant follows a slot
  through its life: before its uplink is planned nothing is booked or allocated for it (`NotPlanned`);
  then it holds exactly what `ulMap` has booked, at its end (`Booked`); the downlink is planned behind
  the uplink and below what is booked, so the union is disjoint (`SlotsDisjoint`); and the blocks stay in
  `ulMap` until their CQI comes (`Waiting`, `CqiPast`). That a slot is planned once, and the
  uplink not after the downlink, is arithmetic modulo the length of the pattern
  (`ModShift`, `ModBack`, `UlTargetFacts`, `DlTargetFacts`).
* `SlotGrantProofs`: `UeAgrees`, `DciOnce` and `NoMessageLeft`, with the same assumption. The
  invariant `GInv` says that what a UE holds, keeps for later or has on its way (`Held`) is at every
  moment what the gNB has for it and the tables say was announced (`Due`). A step of the plan only adds
  grants that are announced later (`PlanStep`); what `RetrieveMsgsFromDCIs` collects is what
  becomes due (`SentIsDue`), and then the gNB has a DL CTRL and asks for the channel
  (`DueSendable`); a slot that starts without the channel has nothing but uplink in it
  (`AllOnAir`). Hypothesis: `FddPlanned`, an FDD pattern has no S slots and FDD has N2Delay above 0; with
  N2Delay 0 a slot with SRS and no data does not ask for the channel and its DCIs are not
  sent. `UeAgrees` also needs `BroadcastInDl`, as the UE does not expect the DL CTRL of a
  broadcast in an UL slot.

* `SlotCountProofs`: `Counted`, under `BroadcastInDl`: `m_numSymAlloc`, which the code adds up
  piece by piece in four places, is the number of symbols the allocations cover. `AllCounted`
  is added to the invariant of `SlotPipelineProofs`. Each plan covers an interval of symbols
  without gaps (`TilingCovers`: control, columns of data, SRS), and two plans merged for one slot
  add up because they are disjoint, which is `NoOverlap` once more (`MergeCounted`).

Every invariant, action property and refinement that a passing run checks is also a theorem.
Only model-checked: the six liveness properties (`BufferedIsServed`, `AbandonedIsFreed`,
`FullIsServed`, `GrantsCease`, `SrBringsBsr`, `Forgotten`), since fairness is beyond the prover, and the
four differences between code and text, which are counterexamples.

## Not modelled

`PROJECT.json` names each part and the reason. In short: numerical physics, antennas and
error models (their outcome is a free choice), the statistics of the BULLET trigger and
the congestion controllers (floating point), schedule mode 4 (see `UplinkGrant`), traces and helpers, and ns-3 itself.

## Plan

1. Video sender: the receive window of `Feedback_NetState`, the goodput window and the burst
   feedback; the composition of the transport with the decoder.
2. UE release in `UlHarq` and `UplinkGrant`; an abstract "request and serve" that `UplinkGrant`
   implements, by refinement and then by proof.
3. Downlink HARQ (streams, beams) and the slots of its feedback (k1).
4. The composition of `SlotPipeline` with `UlHarq`.
5. Slot arithmetic of `SfnSf`, BSR levels and RBG assignment as pure functions against
   reference definitions; slot bookkeeping of the BULLET trigger; the overuse detector of GCC.
