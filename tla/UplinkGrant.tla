---------------------------- MODULE UplinkGrant ----------------------------
(***************************************************************************)
(* How one UE gets uplink grants: the SR and BSR machine of NrUeMac, the   *)
(* queue that the gNB scheduler keeps for the UE's logical channel group,  *)
(* and the scheduling requests, grants and transport blocks between them.  *)
(*                                                                         *)
(* The gNB sees the UE's buffer only through requests and reports that are *)
(* some slots old, that the UE sends no more often than its period allows, *)
(* and that are lost with the block they travel in.  Of an amount of data  *)
(* the model keeps what scheduling depends on: that of the UE in units,    *)
(* and that of the scheduler as none or some (a BSR level is 0 exactly for *)
(* an empty buffer).  Every slot triggers the uplink once, as in a TDD     *)
(* pattern of flexible slots, and RLC has reported to the UE MAC before.   *)
(* Schedule mode 4, which overwrites the queue with m_idealBsrMap, is left *)
(* out.                                                                    *)
(***************************************************************************)
EXTENDS Integers, Sequences

CONSTANTS
  MaxBuf,     \* bound: units of data in the UE's buffer
  DciDelay,   \* slots from scheduling a grant to the UE: L1L2CtrlLatency
  TbDelay,    \* slots from a grant at the UE to its block at the gNB: K2, decoding
  SrDelay,    \* slots from SendSR to the gNB: L1L2CtrlLatency
  BsrPeriod,  \* m_bsrPeriodicity, in slots
  MaxReTx,    \* retransmissions of a block
  NumHarq,    \* m_numHarqProcess: blocks between their grant and their decoding
  Proactive   \* grants beyond what was reported: schedule modes 1, 2, 3, 5 and 6

ASSUME GrantAssumption ==
  /\ MaxBuf \in Nat \ {0}
  /\ DciDelay \in Nat
  /\ TbDelay \in Nat
  /\ SrDelay \in Nat
  /\ BsrPeriod \in Nat
  /\ MaxReTx \in Nat
  /\ NumHarq \in Nat \ {0}
  /\ Proactive \in BOOLEAN

VARIABLES
  buf,       \* GetTotalBufSize() of the UE
  srState,   \* m_srState
  sinceBsr,  \* slots since m_bsrLast, as far as BsrPeriod tells them apart
  srAir,     \* the ages of the scheduling requests on their way
  srList,    \* the UE is in m_srList
  ce,        \* the BSR in m_ulCeReceived of the gNB MAC
  queued,    \* the scheduler's m_rlcTransmissionQueueSize is not 0
  dcis,      \* grants on their way, oldest first
  tbs,       \* transport blocks on their way, oldest first
  nacks      \* blocks that were not decoded and may be sent again

vars == <<buf, srState, sinceBsr, srAir, srList, ce, queued, dcis, tbs, nacks>>

ueVars == <<buf, srState, sinceBsr>>
gnbVars == <<srList, ce, queued, nacks>>

Bsr == {"none", "zero", "some"}

\* A block that can be sent again: its redundancy version, and whether the UE
\* holds a packet burst for it (m_pktBurst is not nullptr).
Block == [rv : 0 .. MaxReTx, burst : BOOLEAN]

\* m_ndi is 1 for a new grant, whose block is not made yet.
Dci == [age : 0 .. DciDelay, new : BOOLEAN, block : Block]

Tb == [age : 0 .. TbDelay, bsr : Bsr, block : Block]

Init ==
  /\ buf = 0
  /\ srState = "INACTIVE"
  /\ sinceBsr = BsrPeriod
  /\ srAir = {}
  /\ srList = FALSE
  /\ ce = "none"
  /\ queued = FALSE
  /\ dcis = <<>>
  /\ tbs = <<>>
  /\ nacks = <<>>

Aged(s) == [k \in DOMAIN s |-> [s[k] EXCEPT !.age = @ + 1]]

DciDue == dcis # <<>> /\ Head(dcis).age = DciDelay

TbDue == tbs # <<>> /\ Head(tbs).age = TbDelay

-----------------------------------------------------------------------------
\* The UE.

\* What a report makes of the machine.  Fault: only one that finds the buffer
\* empty starts a request.
FaultRequested == IF srState = "INACTIVE" /\ buf > 0 THEN "TO_SEND" ELSE srState

Requested == IF srState = "INACTIVE" THEN "TO_SEND" ELSE srState

\* RLC reports a buffer that has grown by n.
DoReportBufferStatus(n) ==
  /\ buf + n <= MaxBuf
  /\ buf' = buf + n
  /\ srState' = Requested
  /\ UNCHANGED <<sinceBsr, srAir, dcis, tbs, gnbVars>>

\* The report that leaves with the grant being processed, when left is what
\* stays in the buffer.
SentBsr(left) ==
  IF sinceBsr < BsrPeriod THEN "none" ELSE IF left = 0 THEN "zero" ELSE "some"

\* m_bsrLast.  Fault: every grant restarts the period, report or not.
FaultSinceBsr == 0

SinceBsr == IF sinceBsr < BsrPeriod THEN sinceBsr ELSE 0

\* What m_srState becomes with left in the buffer.
Settled(left) == IF left = 0 THEN "INACTIVE" ELSE srState

\* What SendMacPdu puts on the air: nothing when there is neither a burst nor a
\* report.
Sent(block, bsr) ==
  IF block.burst \/ bsr # "none"
  THEN Append(tbs, [age |-> 0, bsr |-> bsr, block |-> block])
  ELSE tbs

\* A new grant, with room for n units of the buffer (none when it is too small
\* for a PDU).  The burst is empty when not a byte of data was sent, except
\* that a UE with nothing at all to send fills it with an empty PDU.
ProcessUlDci(n) ==
  LET left == buf - n
      bsr == SentBsr(left)
      burst == n > 0 \/ (left = 0 /\ bsr = "none")
  IN  /\ DciDue
      /\ Head(dcis).new
      /\ n <= buf
      /\ buf' = left
      /\ srState' = Settled(left)
      /\ sinceBsr' = SinceBsr
      /\ tbs' = Sent([rv |-> 0, burst |-> burst], bsr)
      /\ dcis' = Tail(dcis)
      /\ UNCHANGED <<srAir, gnbVars>>

\* A grant for a retransmission: the burst of the process again, and a report
\* of the buffer as it is now.
ProcessUlDciRetx ==
  LET bsr == SentBsr(buf) IN
  /\ DciDue
  /\ ~Head(dcis).new
  /\ sinceBsr' = SinceBsr
  /\ tbs' = Sent(Head(dcis).block, bsr)
  /\ dcis' = Tail(dcis)
  /\ UNCHANGED <<buf, srState, srAir, gnbVars>>

\* The UE's slot: a pending SR leaves when the slot is an occasion for one.
DoSlotIndication(occasion) ==
  LET send == occasion /\ srState = "TO_SEND" IN
  /\ srState' = IF send THEN "ACTIVE" ELSE srState
  /\ srAir' = {a + 1 : a \in srAir \ {SrDelay}} \cup (IF send THEN {0} ELSE {})
  /\ sinceBsr' = IF sinceBsr < BsrPeriod THEN sinceBsr + 1 ELSE sinceBsr
  /\ UNCHANGED buf

-----------------------------------------------------------------------------
\* The gNB.

\* A block arrives and is decoded: its report waits for the next slot.
DoReceivePhyPdu ==
  /\ TbDue
  /\ ce' = IF Head(tbs).bsr = "none" THEN ce ELSE Head(tbs).bsr
  /\ tbs' = Tail(tbs)
  /\ UNCHANGED <<srAir, srList, queued, dcis, nacks, ueVars>>

\* The failed blocks after one more, which can be sent again until its last
\* retransmission.  Fault: it always can.
FaultRetried(block) == Append(nacks, [rv |-> block.rv + 1, burst |-> block.burst])

Retried(block) ==
  IF block.rv = MaxReTx THEN nacks
  ELSE Append(nacks, [rv |-> block.rv + 1, burst |-> block.burst])

\* A block arrives and is not decoded.
DoUlHarqFeedback ==
  /\ TbDue
  /\ nacks' = Retried(Head(tbs).block)
  /\ tbs' = Tail(tbs)
  /\ UNCHANGED <<srAir, srList, ce, queued, dcis, ueVars>>

\* UpdateInfo with the reported size, if a report came.
BSRReceivedFromUe == IF ce = "none" THEN queued ELSE ce = "some"

\* DoScheduleUlSr gives 12 bytes to a UE in the list.  Fault: the report is
\* applied last.
FaultDoScheduleUlSr(sr) == IF ce = "none" THEN queued \/ sr ELSE ce = "some"

DoScheduleUlSr(sr) == BSRReceivedFromUe \/ sr

\* AssignedData leaves 50 bytes where the block takes all, at least 12 where it
\* takes a part, and none where there were none.  Fault: it leaves none where
\* the block takes all.
FaultAssignedData(size) == FALSE

AssignedData(size) == size

\* A HARQ process is free for a new block (CanInsert).
CanInsert == Len(dcis) + Len(tbs) + Len(nacks) < NumHarq

\* The gNB's slot: the received requests and reports, then the retransmission of
\* the first k failed blocks, given up with them the next ones up to the j-th,
\* then the requests and a new grant, for which symbols must be left.  A UE
\* with a retransmission in the slot gets no new grant.
DoSlotUlIndication(k, j, symbols, grant) ==
  LET sr == srList \/ SrDelay \in srAir
      size == IF symbols THEN DoScheduleUlSr(sr) ELSE BSRReceivedFromUe
      retx == [i \in 1 .. k |-> [age |-> 0, new |-> FALSE, block |-> nacks[i]]]
      fresh == <<[age |-> 0, new |-> TRUE, block |-> [rv |-> 0, burst |-> FALSE]]>>
  IN  /\ grant => k = 0 /\ symbols /\ (size \/ Proactive) /\ CanInsert
      /\ ce' = "none"
      /\ srList' = (sr /\ ~symbols)
      /\ queued' = IF grant THEN AssignedData(size) ELSE size
      /\ nacks' = SubSeq(nacks, j + 1, Len(nacks))
      /\ dcis' = Aged(dcis) \o retx \o (IF grant THEN fresh ELSE <<>>)
      /\ tbs' = Aged(tbs)

\* A slot begins, at the gNB and at the UE.
Slot(occasion, symbols, grant) ==
  /\ ~DciDue
  /\ ~TbDue
  /\ DoSlotIndication(occasion)
  /\ \E j \in 0 .. Len(nacks) : \E k \in 0 .. j : DoSlotUlIndication(k, j, symbols, grant)

Next ==
  \/ \E n \in 1 .. MaxBuf : DoReportBufferStatus(n)
  \/ \E n \in 0 .. MaxBuf : ProcessUlDci(n)
  \/ ProcessUlDciRetx
  \/ DoReceivePhyPdu
  \/ DoUlHarqFeedback
  \/ \E occasion, symbols, grant \in BOOLEAN : Slot(occasion, symbols, grant)

Spec == Init /\ [][Next]_vars

\* Slots go on and what is due arrives; occasions for an SR and slots with
\* symbols to spare recur; the scheduler does not pass over the UE for ever;
\* failed blocks do not wait for ever; grants large enough for data recur; not
\* every block with a report is lost.
Fairness ==
  /\ WF_vars(\E occasion, symbols, grant \in BOOLEAN : Slot(occasion, symbols, grant))
  /\ SF_vars(\E occasion, symbols, grant \in BOOLEAN :
               Slot(occasion, symbols, grant) /\ Len(nacks') < Len(nacks))
  /\ WF_vars(ProcessUlDciRetx \/ \E n \in 0 .. MaxBuf : ProcessUlDci(n))
  /\ SF_vars(\E grant \in BOOLEAN : Slot(TRUE, TRUE, grant))
  /\ SF_vars(\E occasion \in BOOLEAN : Slot(occasion, TRUE, TRUE))
  /\ SF_vars(\E n \in 1 .. MaxBuf : ProcessUlDci(n))
  /\ WF_vars(DoReceivePhyPdu \/ DoUlHarqFeedback)
  /\ SF_vars(DoReceivePhyPdu /\ Head(tbs).bsr # "none")

FairSpec == Spec /\ Fairness

-----------------------------------------------------------------------------

\* The types of the variables.
TypeOK ==
  /\ buf \in 0 .. MaxBuf
  /\ srState \in {"INACTIVE", "TO_SEND", "ACTIVE"}
  /\ sinceBsr \in 0 .. BsrPeriod
  /\ srAir \subseteq 0 .. SrDelay
  /\ srList \in BOOLEAN
  /\ ce \in Bsr
  /\ queued \in BOOLEAN
  /\ dcis \in Seq(Dci)
  /\ tbs \in Seq(Tb)
  /\ nacks \in Seq(Block)

\* Data that waits at the UE is not forgotten: either the UE still has to ask
\* for it, or its request is on the way, or the scheduler has the UE queued.
\* Otherwise nothing would ever be sent again: a UE in state ACTIVE does not
\* ask, and the scheduler grants nothing to an empty queue.
WaitingIsKnown ==
  buf > 0 => \/ srState = "TO_SEND"
             \/ srState = "ACTIVE" /\ (queued \/ srList \/ srAir # {})

\* A full buffer does not stay full, whatever is lost on the way.
FullIsServed == buf = MaxBuf ~> buf < MaxBuf

\* The grants to a UE that has nothing to send come to an end, although the
\* report of the empty buffer may be held back by its period or be lost.
GrantsCease == (queued /\ buf = 0) ~> (~queued \/ buf > 0)

\* What DoScheduleUlSr promises: the grant made for an SR lets the UE "send
\* some data and, eventually, a BSR" (or empties the buffer).
SrBringsBsr == (srState = "ACTIVE") ~> (sinceBsr = 0 \/ srState # "ACTIVE")
=============================================================================
