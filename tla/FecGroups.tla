----------------------------- MODULE FecGroups -----------------------------
(***************************************************************************)
(* A group of video packets at the receiver (PacketGroup and PacketBatch). *)
(* A group is sent in batches: the first one has all its data packets and  *)
(* some FEC packets, and each retransmission is a batch of the packets not *)
(* acknowledged yet, with FEC packets of its own.  As soon as as many      *)
(* packets of a batch have come as it has data packets, the others are     *)
(* recovered.                                                              *)
(*                                                                         *)
(* A received packet is a record: its batch and either one data packet     *)
(* (data = {p}, fec = {}) or one FEC packet (data = {}, fec = {k}).        *)
(***************************************************************************)
EXTENDS Integers, FiniteSets

CONSTANT MaxBatch  \* bound: batches sent, numbered from 1

Batch == 1 .. MaxBatch

\* A group object just created by a packet that was encoded at the time enc.
\* Of the batches it keeps the packets that have come (incomplete_batches has
\* no entry where there is none) and which are complete.
NewGroup(enc) ==
  [enc |-> enc, decoded |-> {}, done |-> {},
   data |-> [b \in Batch |-> {}], fec |-> [b \in Batch |-> {}]]

\* AddPacket returns early: the batch is complete or the packet is decoded.
Useless(grp, m) ==
  \/ m.batch \in grp.done
  \/ m.data # {} /\ m.data \subseteq grp.decoded

Held(grp, m) == grp.data[m.batch] \union m.data
Parity(grp, m) == grp.fec[m.batch] \union m.fec

\* CheckComplete of the batch, which has the data packets members.
BatchComplete(grp, m, members) ==
  Cardinality(Held(grp, m)) + Cardinality(Parity(grp, m)) >= Cardinality(members)

\* The packets handed on: the packet itself and what it lets recover.  Fault:
\* nothing is recovered.
FaultFresh(grp, m, members) ==
  IF Useless(grp, m) THEN {} ELSE m.data

Fresh(grp, m, members) ==
  IF Useless(grp, m) THEN {}
  ELSE m.data \union
       (IF BatchComplete(grp, m, members) THEN members \ Held(grp, m) ELSE {})

\* The encode time that the group takes from a packet.
Earliest(s, t) == IF t < s THEN t ELSE s

\* AddPacket followed by GetUndecodedPackets, for a packet encoded at time enc.
AddPacket(grp, m, members, enc) ==
  LET grpEnc == Earliest(grp.enc, enc)
      complete == BatchComplete(grp, m, members)
  IN  IF Useless(grp, m) THEN [grp EXCEPT !.enc = grpEnc]
      ELSE [grp EXCEPT
              !.enc = grpEnc,
              !.decoded = @ \union Fresh(grp, m, members),
              !.done = IF complete THEN @ \union {m.batch} ELSE @,
              !.data[m.batch] = IF complete THEN {} ELSE Held(grp, m),
              !.fec[m.batch] = IF complete THEN {} ELSE Parity(grp, m)]
=============================================================================
