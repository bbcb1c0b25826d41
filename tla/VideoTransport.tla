--------------------------- MODULE VideoTransport ---------------------------
(***************************************************************************)
(* The UDP video transport: the sender divides frames into groups, adds    *)
(* FEC packets, keeps the data packets until they are acknowledged or late *)
(* and retransmits them in new batches; the link loses, delays and         *)
(* reorders packets and acknowledgements; the receiver collects groups,    *)
(* recovers packets, hands them to the decoder and acknowledges them.      *)
(*                                                                         *)
(* Data packets are numbered in the order they are created.  The clock     *)
(* counts check_rtx_interval, so each of its ticks ends with the           *)
(* retransmission check.  The sizes that FEC policy chooses and the        *)
(* estimates of the round trip are free choices.                           *)
(***************************************************************************)
EXTENDS Integers, FiniteSets, Sequences, SequencesExt, FecGroups

CONSTANTS
  MaxPkt,      \* bound: data packets sent
  MaxFec,      \* bound: FEC packets of a batch
  MaxTime,     \* bound: the clock stops here
  Ddl,         \* delay_ddl, in ticks
  RtoChoices,  \* values of srtt + 4 rtt_sd at a check
  Dispersions, \* values of one_way_dispersion at a check
  MinRtts      \* values of min_rtt at a check

Packet == 1 .. MaxPkt
Group == 1 .. MaxPkt
Fec == 1 .. MaxFec
Time == 0 .. MaxTime

\* The deadline of a frame can pass before the clock stops.
ASSUME TransportAssumption ==
  /\ MaxPkt \in Nat \ {0} /\ MaxFec \in Nat /\ Ddl \in Nat
  /\ MaxTime \in Nat /\ Ddl < MaxTime
  /\ RtoChoices \subseteq Nat /\ MinRtts \subseteq Nat
  /\ MaxBatch \in Nat

ASSUME DispersionAssumption == Dispersions \subseteq Nat

VARIABLES
  now,         \* Simulator::Now, in ticks
  groupOf,     \* the group of a data packet object, 0 before it is made
  encode,      \* its encode time
  batchOf,     \* the batch it belongs to at present
  sent,        \* the time it was sent last, 0 before
  nGroups,     \* group_id: the groups made so far
  batches,     \* the batches made, in order: group, data packets, FEC, time
  history,     \* data_pkt_history
  keys,        \* data_pkt_history_key
  queue,       \* m_queue, one entry per batch
  link,        \* packets on their way, or lost
  acks,        \* acknowledgements on their way, or lost
  incomplete,  \* the keys of incomplete_groups
  grp,         \* the group objects of incomplete_groups
  complete,    \* the keys of complete_groups
  timeout,     \* the keys of timeout_groups
  decoded      \* history: packets handed to the decoder

objects == <<groupOf, encode, batchOf, sent>>
sender == <<objects, nGroups, batches, history, keys, queue>>
receiver == <<incomplete, grp, complete, timeout, decoded>>
vars == <<now, sender, link, acks, receiver>>

Min2(s, t) == IF s < t THEN s ELSE t

\* The data packets made so far, and those of a group.
Created == {p \in Packet : groupOf[p] # 0}
PktsOf(g) == {p \in Packet : groupOf[p] = g}

\* MissesDdl at the time t.
MissesDdl(p, t) == t - encode[p] > Ddl

Init ==
  /\ now = 0
  /\ groupOf = [p \in Packet |-> 0]
  /\ encode = [p \in Packet |-> 0]
  /\ batchOf = [p \in Packet |-> 0]
  /\ sent = [p \in Packet |-> 0]
  /\ nGroups = 0 /\ batches = <<>>
  /\ history = {} /\ keys = <<>> /\ queue = <<>>
  /\ link = {} /\ acks = {}
  /\ incomplete = {} /\ complete = {} /\ timeout = {} /\ decoded = {}
  /\ grp = [g \in Group |-> NewGroup(0)]

-----------------------------------------------------------------------------
(* The sender *)

\* The i-th packet of a frame that is divided into groups of s goes to this one
\* of its groups.
Share(i, s) == (i - 1) \div s + 1

\* StorePackets appends the keys of the n packets.  Fault: they are off by
\* one.
FaultStoredKeys(c, n) == [i \in 1 .. n |-> c + i + 1]

StoredKeys(c, n) == [i \in 1 .. n |-> c + i]

\* SendPackets for a first transmission: n packets behind the first c, in groups
\* of s as long as they last, the rest a group of its own; f and r are the FEC
\* packets of a full group and of the rest.
SendPackets(c, n, s, f, r) ==
  LET fresh == c + 1 .. c + n
      new == 1 .. Share(n, s)
      Members(k) == {p \in fresh : Share(p - c, s) = k}
      FecNum(k) == IF k * s <= n THEN f ELSE r
  IN  /\ Len(batches) + Share(n, s) <= MaxBatch
      /\ n % s = 0 => r = f
      /\ groupOf' = [p \in Packet |->
           IF p \in fresh THEN nGroups + Share(p - c, s) ELSE groupOf[p]]
      /\ batchOf' = [p \in Packet |->
           IF p \in fresh THEN Len(batches) + Share(p - c, s) ELSE batchOf[p]]
      /\ nGroups' = nGroups + Share(n, s)
      /\ batches' = batches \o [k \in new |->
           [group |-> nGroups + k, members |-> Members(k), fec |-> FecNum(k), at |-> now]]
      /\ queue' = queue \o [k \in new |->
           [batch |-> Len(batches) + k, data |-> Members(k),
            fec |-> 1 .. FecNum(k), rtx |-> FALSE]]
      /\ history' = history \union fresh
      /\ keys' = keys \o StoredKeys(c, n)

\* CreateFrame: the next packets, encoded now.
CreateFrame ==
  /\ now + Ddl < MaxTime
  /\ \E c \in 0 .. MaxPkt - 1 : \E n \in 1 .. MaxPkt - c :
       /\ Created = 1 .. c
       /\ encode' = [p \in Packet |-> IF p \in c + 1 .. c + n THEN now ELSE encode[p]]
       /\ \E s \in 1 .. n : \E f, r \in 0 .. MaxFec : SendPackets(c, n, s, f, r)
  /\ UNCHANGED <<now, sent, link, acks, receiver>>

\* The packet d or k of batch b goes out.  Copies on the way at once are told
\* apart by a number.
PutOnLink(b, d, k) ==
  LET Copy(i) == [batch |-> b, data |-> d, fec |-> k, copy |-> i]
  IN  \E i \in 0 .. MaxBatch :
        /\ Copy(i) \notin link
        /\ \A j \in 0 .. i - 1 : Copy(j) \in link
        /\ link' = link \union {Copy(i)}

\* What is left of the queue when e replaces its head.
Shortened(e) ==
  IF e.data = {} /\ e.fec = {} THEN Tail(queue) ELSE <<e>> \o Tail(queue)

\* SendPacket: the first packet of the first entry.  A data packet goes out with
\* the batch its object belongs to by now.  A first transmission is sent in
\* order; a retransmission in the order of a hash map.
SendPacket ==
  /\ queue # <<>>
  /\ LET e == Head(queue) IN
       \/ \E p \in e.data :
            /\ e.rtx \/ \A q \in e.data : p <= q
            /\ PutOnLink(batchOf[p], {p}, {})
            /\ sent' = [sent EXCEPT ![p] = now]
            /\ queue' = Shortened([e EXCEPT !.data = @ \ {p}])
       \/ \E k \in e.fec :
            /\ e.data = {} /\ \A j \in e.fec : k <= j
            /\ PutOnLink(e.batch, {}, {k})
            /\ queue' = Shortened([e EXCEPT !.fec = @ \ {k}])
            /\ UNCHANGED sent
  /\ UNCHANGED <<now, groupOf, encode, batchOf, nGroups, batches, history, keys, acks, receiver>>

\* The first loop of CheckRetransmission at time t ends at the first key whose
\* packet is kept and not late.  Fault: the deadline is not looked at.
FaultKept(i, t) == keys[i] \in history

Kept(i, t) == keys[i] \in history /\ ~ MissesDdl(keys[i], t)

FirstLoopEnds(first, t) ==
  /\ \A i \in 1 .. first - 1 : ~ Kept(i, t)
  /\ first <= Len(keys) => Kept(first, t)

\* What is kept behind it.
Swept(first) == {p \in history : \A i \in 1 .. first - 1 : keys[i] # p}

\* The second loop ends at the first key whose packet may still be on its way.
TooYoung(i, t, minRtt) == keys[i] \in history /\ t - encode[keys[i]] < minRtt

SecondLoopEnds(first, young, t, minRtt) ==
  /\ \A i \in first .. young - 1 : ~ TooYoung(i, t, minRtt)
  /\ young <= Len(keys) => TooYoung(young, t, minRtt)

\* The keys left by the loops: those that the second one has seen stay if their
\* packet is kept.  Fault: those it has seen go.
FaultKeysLeft(first, young) == young .. Len(keys)

KeysLeft(first, young) ==
  {i \in first .. Len(keys) : i < young => keys[i] \in history}

\* IsRtxTimeout, longer for the packets of a larger batch.  The object of a
\* packet not sent yet has the send time 0.
IsRtxTimeout(p, t, rto, dispersion) ==
  LET b == batches[batchOf[p]] IN
  /\ t > b.at
  /\ t - sent[p] > rto + (Cardinality(b.members) + b.fec) * dispersion

\* The groups that the second loop retransmits.
RtxGroups(first, young, t, rto, dispersion) ==
  {groupOf[keys[i]] : i \in {j \in first .. young - 1 :
                               /\ keys[j] \in history
                               /\ IsRtxTimeout(keys[j], t, rto, dispersion)}}

\* RetransmitGroup: what is kept of the group.  Fault: the whole group.
FaultResent(g, first) == PktsOf(g)

Resent(g, first) == PktsOf(g) \intersect Swept(first)

\* The elements of a set of numbers in their order.
InOrder(S) ==
  {d \in [1 .. Cardinality(S) -> S] :
     /\ \A i, j \in DOMAIN d : i < j => d[i] < d[j]
     /\ \A x \in S : \E i \in DOMAIN d : d[i] = x}

\* The passage of the loops that end at first and young, at time t: the groups
\* due become batches at the front of the queue, with fec[k] FEC packets each.
\* The objects move to these batches, and among them are those still queued for
\* an earlier one.
Retransmit(due, fec, first, t) ==
  LET new == [k \in DOMAIN due |->
                [group |-> due[k], members |-> Resent(due[k], first),
                 fec |-> fec[k], at |-> t]]
      entries == [k \in DOMAIN due |->
                    [batch |-> Len(batches) + k, data |-> Resent(due[k], first),
                     fec |-> 1 .. fec[k], rtx |-> TRUE]]
  IN  /\ batches' = batches \o new
      /\ queue' = [k \in DOMAIN due |-> entries[Len(due) + 1 - k]] \o queue
      /\ batchOf' = [p \in Packet |->
           IF \E k \in DOMAIN due : p \in new[k].members
           THEN Len(batches) + (CHOOSE k \in DOMAIN due : p \in new[k].members)
           ELSE batchOf[p]]

\* A tick of the clock and CheckRetransmission.
CheckRetransmission ==
  \E minRtt \in MinRtts, rto \in RtoChoices, dispersion \in Dispersions,
     first, young \in 1 .. Len(keys) + 1 :
    LET t == Min2(now + 1, MaxTime) IN
    /\ first <= young
    /\ FirstLoopEnds(first, t)
    /\ SecondLoopEnds(first, young, t, minRtt)
    /\ \E due \in InOrder(RtxGroups(first, young, t, rto, dispersion)) :
       \E fec \in [DOMAIN due -> 0 .. MaxFec] :
         /\ Len(batches) + Len(due) <= MaxBatch
         /\ Retransmit(due, fec, first, t)
    /\ \E left \in InOrder(KeysLeft(first, young)) :
         keys' = [i \in DOMAIN left |-> keys[left[i]]]
    /\ now' = t
    /\ history' = Swept(first)
    /\ UNCHANGED <<groupOf, encode, sent, nGroups, link, acks, receiver>>

\* RcvACKPacket: the keys are left to CheckRetransmission.
RcvACKPacket ==
  \E a \in acks :
    /\ acks' = acks \ {a}
    /\ history' = history \ a
    /\ UNCHANGED <<now, objects, nGroups, batches, keys, queue, link, receiver>>

-----------------------------------------------------------------------------
(* The receiver *)

\* The encode time in a packet's header: a FEC packet is made at the time of its
\* batch.
HeaderTime(m) ==
  IF m.data # {} THEN encode[CHOOSE p \in m.data : TRUE] ELSE batches[m.batch].at

\* The group object that takes the packet: it is created where there is none,
\* before the tables of finished groups are looked at.
Target(m) ==
  LET g == batches[m.batch].group
  IN  IF g \in incomplete THEN grp[g] ELSE NewGroup(HeaderTime(m))

Returned(m) == Fresh(Target(m), m, batches[m.batch].members)

\* The acknowledgement lists the packets handed to the decoder.  Fault: all that
\* have come of the batch.
FaultAcknowledged(m) == batches[m.batch].members

Acknowledged(m) == Returned(m)

\* The groups past the deadline when the sweep of ReceiveUdpPacket runs.  Fault:
\* a tick too early.
FaultGivenUp(open, gs) == {g \in open : now + 1 > gs[g].enc + Ddl}

GivenUp(open, gs) == {g \in open : now > gs[g].enc + Ddl}

\* ReceiveUdpPacket.  Behind the acknowledgement it leaves if the group is
\* finished; else it looks whether the group is complete and sweeps the table.
ReceiveUdpPacket ==
  \E m \in link :
    LET g == batches[m.batch].group
        members == batches[m.batch].members
        gs == [grp EXCEPT ![g] = AddPacket(Target(m), m, members, HeaderTime(m))]
        whole == Cardinality(gs[g].decoded) = Cardinality(PktsOf(g))
        open == incomplete \union {g}
        rest == IF whole THEN open \ {g} ELSE open
        late == GivenUp(rest, gs)
        left == IF g \in complete \union timeout THEN open ELSE rest \ late
    IN  /\ link' = link \ {m}
        /\ decoded' = decoded \union Returned(m)
        /\ acks' = IF Acknowledged(m) = {} THEN acks ELSE acks \union {Acknowledged(m)}
        /\ incomplete' = left
        /\ grp' = [h \in Group |-> IF h \in left THEN gs[h] ELSE NewGroup(0)]
        /\ complete' = IF g \notin complete \union timeout /\ whole
                       THEN complete \union {g} ELSE complete
        /\ timeout' = IF g \in complete \union timeout
                      THEN timeout ELSE timeout \union late
        /\ UNCHANGED <<now, sender>>

Next ==
  \/ CreateFrame
  \/ SendPacket
  \/ CheckRetransmission
  \/ RcvACKPacket
  \/ ReceiveUdpPacket

Spec == Init /\ [][Next]_vars

\* The check is scheduled again each time it runs.
FairSpec == Spec /\ WF_vars(CheckRetransmission)

-----------------------------------------------------------------------------
(* Properties *)

BatchType ==
  [group : Group, members : SUBSET Packet, fec : 0 .. MaxFec, at : Time]
EntryType ==
  [batch : Batch, data : SUBSET Packet, fec : SUBSET Fec, rtx : BOOLEAN]
MessageType ==
  [batch : Batch, data : SUBSET Packet, fec : SUBSET Fec, copy : 0 .. MaxBatch]
GroupObject ==
  [enc : Time, decoded : SUBSET Packet, done : SUBSET Batch,
   data : [Batch -> SUBSET Packet], fec : [Batch -> SUBSET Fec]]

\* The variables keep their types.
TypeOK ==
  /\ now \in Time
  /\ groupOf \in [Packet -> Group \union {0}]
  /\ encode \in [Packet -> Time]
  /\ nGroups \in Group \union {0}
  /\ batches \in Seq(BatchType)
  /\ Len(batches) <= MaxBatch
  /\ batchOf \in [Packet -> Batch \union {0}]
  /\ sent \in [Packet -> Time]
  /\ history \subseteq Packet
  /\ keys \in Seq(Packet)
  /\ queue \in Seq(EntryType)
  /\ link \subseteq MessageType
  /\ acks \subseteq SUBSET Packet
  /\ incomplete \subseteq Group /\ complete \subseteq Group /\ timeout \subseteq Group
  /\ grp \in [Group -> GroupObject]
  /\ decoded \subseteq Packet

\* Across sender, link and receiver: a data packet that the sender no longer
\* keeps has reached the decoder, or its deadline has passed.  RcvACKPacket and
\* CheckRetransmission erase packets for good, so an acknowledgement of
\* anything else would lose them.
NeverForgotten ==
  \A p \in Created : p \in history \/ p \in decoded \/ MissesDdl(p, now)

\* Every packet kept has a key, and the keys are in the order of the encode
\* times, which CheckRetransmission relies on ("since it's a FIFO queue") when
\* its loops end early.
HistoryIsIndexed ==
  /\ history \subseteq Range(keys)
  /\ \A i, j \in DOMAIN keys : i < j => encode[keys[i]] <= encode[keys[j]]

\* A group counts as complete only when the decoder has all of its packets, and
\* so does a batch, although both are decided by counting.
CompleteIsDecoded ==
  /\ \A g \in complete : PktsOf(g) \subseteq decoded
  /\ \A g \in incomplete : \A b \in grp[g].done : batches[b].members \subseteq decoded

\* A group is given up only when its frame is past the deadline, whatever the
\* encode times in the packets that created the group object.
TimeoutIsLate == \A g \in timeout : \A p \in PktsOf(g) : MissesDdl(p, now)

\* After each CheckRetransmission no late packet is kept, and what it sends
\* again is neither late nor acknowledged.
RtxIsUseful ==
  [][/\ now' > now => \A p \in history' : ~ MissesDdl(p, now')
     /\ \A b \in DOMAIN batches' \ DOMAIN batches :
          batches'[b].members # {} /\ batches'[b].members \subseteq history']_vars

\* No packet is kept for ever, whatever is lost.
Forgotten == \A p \in Packet : p \in history ~> p \notin history

\* The transport implements PacketDelivery.
Late == {p \in Created : MissesDdl(p, now)}
Delivery == INSTANCE PacketDelivery
  WITH offered <- Created, late <- Late, delivered <- decoded, pending <- history
ImplementsDelivery == Delivery!Spec
=============================================================================
