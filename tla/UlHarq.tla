------------------------------- MODULE UlHarq -------------------------------
(***************************************************************************)
(* The uplink HARQ processes of the gNB scheduler: the vector of processes *)
(* of each UE (NrMacHarqVector), the ageing, merging and processing of the *)
(* feedback in DoSchedUlTriggerReq, and the retransmissions of             *)
(* NrMacSchedulerHarqRr::ScheduleUlHarq.                                   *)
(*                                                                         *)
(* A grant made in one uplink trigger goes on the air some triggers later; *)
(* the gNB PHY then reports whether the transport block was decoded, the   *)
(* report waits in the gNB MAC, and the next trigger hands it over.        *)
(***************************************************************************)
EXTENDS Integers, Sequences, FiniteSets, Functions

CONSTANTS
  UE,          \* the UEs of m_ueMap
  NumHarq,     \* GetNumHarqProcess(): processes of a UE, and limit of a timer
  MaxReTx,     \* 3, or 0 when m_enableHarqReTx is false
  MaxSym,      \* data symbols of a whole uplink slot
  SymChoices,  \* data symbols that the slots of the TDD pattern leave to uplink
  Delay        \* most triggers between a grant and its report

ASSUME HarqAssumption ==
  /\ NumHarq \in Nat \ {0}
  /\ MaxReTx \in Nat
  /\ MaxSym \in Nat \ {0}
  /\ SymChoices \subseteq 0 .. MaxSym
  /\ MaxSym \in SymChoices
  /\ Delay \in Nat

Proc == UE \X (0 .. NumHarq - 1)

ProcsOf(u) == {p \in Proc : p[1] = u}

VARIABLES
  harq,      \* m_ulHarq of every UE, as one function over the processes
  usedSize,  \* m_usedSize of every UE's vector
  onAir,     \* grants whose transport block has not been received yet
  received,  \* m_ulHarqInfoReceived of the gNB MAC
  toRetx,    \* m_ulHarqToRetransmit
  fatal      \* a NS_FATAL_ERROR or NS_ASSERT about HARQ has stopped the program

vars == <<harq, usedSize, onAir, received, toRetx, fatal>>

Status == {"INACTIVE", "WAITING_FEEDBACK", "RECEIVED_FEEDBACK"}

Process == [status : Status, timer : 0 .. NumHarq, rv : 0 .. MaxReTx, sym : 0 .. MaxSym]

\* A process as Erase leaves it (m_active is FALSE exactly when INACTIVE).
Idle == [status |-> "INACTIVE", timer |-> 0, rv |-> 0, sym |-> 0]

Active(h) == h.status # "INACTIVE"

\* A UlHarqInfo: the process, the redundancy version it is about (m_numRetx),
\* and IsReceivedOk().
Report == [proc : Proc, rv : 0 .. MaxReTx, ok : BOOLEAN]

Grant == [proc : Proc, rv : 0 .. MaxReTx, age : 0 .. Delay]

\* The subsequence of s at the positions I, as the erase-while-iterating loops
\* of the code leave it: the one increasing enumeration of I gives its order.
Kept(s, I) ==
  {[k \in 1 .. Cardinality(I) |-> s[f[k]]] :
     f \in {g \in [1 .. Cardinality(I) -> I] :
              \A j, k \in 1 .. Cardinality(I) : j < k => g[j] < g[k]}}

-----------------------------------------------------------------------------

Init ==
  /\ harq = [p \in Proc |-> Idle]
  /\ usedSize = [u \in UE |-> 0]
  /\ onAir = {}
  /\ received = <<>>
  /\ toRetx = <<>>
  /\ fatal = FALSE

-----------------------------------------------------------------------------
\* The PHY.

\* The transport block of grant e is received, decoded or not, and reported to
\* the gNB MAC.  Blocks are on the air in the order of their slots.
UlHarqFeedback(e, ok) ==
  /\ ~fatal
  /\ \A f \in onAir : f.age <= e.age
  /\ onAir' = onAir \ {e}
  /\ received' = Append(received, [proc |-> e.proc, rv |-> e.rv, ok |-> ok])
  /\ UNCHANGED <<harq, usedSize, toRetx, fatal>>

\* The UE sends nothing in the grant (TransmitRetx finds no packet burst, or
\* SendNewData finds the block too small): nobody ever reports on it.
NothingSent(e) ==
  /\ ~fatal
  /\ \A f \in onAir : f.age <= e.age
  /\ onAir' = onAir \ {e}
  /\ UNCHANGED <<harq, usedSize, received, toRetx, fatal>>

-----------------------------------------------------------------------------
\* The steps of DoSchedUlTriggerReq.

\* ResetExpiredHARQ on one process.  Faults: the process is never reset; the
\* timer runs on past its limit; it ends a trigger too early.
FaultNeverExpires(h) ==
  IF Active(h) /\ h.timer < NumHarq
  THEN [status |-> h.status, timer |-> h.timer + 1, rv |-> h.rv, sym |-> h.sym]
  ELSE h

FaultTimerRunsOn(h) ==
  IF Active(h)
  THEN [status |-> h.status, timer |-> h.timer + 1, rv |-> h.rv, sym |-> h.sym]
  ELSE h

FaultExpiresEarly(h) ==
  IF Active(h) /\ h.timer + 1 < NumHarq
  THEN [status |-> h.status, timer |-> h.timer + 1, rv |-> h.rv, sym |-> h.sym]
  ELSE Idle

Aged(h) ==
  IF Active(h) /\ h.timer < NumHarq
  THEN [status |-> h.status, timer |-> h.timer + 1, rv |-> h.rv, sym |-> h.sym]
  ELSE Idle

\* MergeHARQ: what could not be retransmitted goes before what is new.  Fault:
\* it goes after.
FaultMerged == received \o toRetx

Merged == toRetx \o received

\* The reports about processes that ResetExpiredHARQ has left active.
ActiveReports == {k \in DOMAIN Merged : Active(Aged(harq[Merged[k].proc]))}

\* ProcessHARQFeedbacks is done with a process when its block was decoded or
\* had all its retransmissions; the other reports are the NACKs to serve.
Done(f) == f.ok \/ Aged(harq[f.proc]).rv = MaxReTx

DoneProcs(fb) == {p \in Proc : \E k \in DOMAIN fb : fb[k].proc = p /\ Done(fb[k])}

Nacked(fb) == {k \in DOMAIN fb : ~Done(fb[k])}

\* Two reports about one process run into NS_FATAL_ERROR (the first one erased
\* it) or into the NS_ASSERT on the status in ScheduleUlHarq (both are NACKs).
Duplicated(fb) ==
  \E j, k \in DOMAIN fb : j # k /\ fb[j].proc = fb[k].proc

\* The symbols ScheduleUlHarq has left after the first k retransmissions of
\* nacks, taking each one that fits.
Left(nacks, symAvail) ==
  LET left[k \in 0 .. Len(nacks)] ==
        IF k = 0 THEN symAvail
        ELSE LET need == harq[nacks[k].proc].sym
             IN  IF left[k - 1] >= need THEN left[k - 1] - need ELSE left[k - 1]
  IN  left

Resent(nacks, left) ==
  {k \in DOMAIN nacks : left[k - 1] > 0 /\ left[k - 1] >= harq[nacks[k].proc].sym}

\* The loop also ends when no symbol is left: what comes later in the list is
\* neither sent again nor pushed to m_ulHarqToRetransmit.
HeldBack(nacks, left) ==
  {k \in DOMAIN nacks : left[k - 1] > 0 /\ k \notin Resent(nacks, left)}

\* The processes at some positions of a list of reports.
ProcsAt(s, I) == {s[k].proc : k \in I}

\* m_timer of a process that ScheduleUlHarq looks at, whether its block is sent
\* again or put off.  Fault: it runs on.
FaultServedTimer(h) == h.timer

ServedTimer(h) == 0

\* The process p after ResetExpiredHARQ, ProcessHARQFeedbacks and
\* ScheduleUlHarq.
AfterHarq(p, fb, nacks, left) ==
  LET h == Aged(harq[p]) IN
  IF p \in DoneProcs(fb) THEN Idle
  ELSE IF p \in ProcsAt(nacks, Resent(nacks, left))
  THEN [status |-> "WAITING_FEEDBACK", timer |-> ServedTimer(h), rv |-> h.rv + 1, sym |-> h.sym]
  ELSE IF p \in ProcsAt(nacks, HeldBack(nacks, left))
  THEN [status |-> "WAITING_FEEDBACK", timer |-> ServedTimer(h), rv |-> h.rv, sym |-> h.sym]
  ELSE IF p \in ProcsAt(nacks, DOMAIN nacks)
  THEN [status |-> "RECEIVED_FEEDBACK", timer |-> h.timer, rv |-> h.rv, sym |-> h.sym]
  ELSE h

\* m_usedSize after the Erase of each process that expired or is done.  Fault:
\* an expired process is not counted.
FaultErasedSize(u, done) == usedSize[u] - Cardinality(done \cap ProcsOf(u))

ErasedSize(u, done) ==
  usedSize[u]
    - Cardinality({p \in ProcsOf(u) : Active(harq[p]) /\ ~Active(Aged(harq[p]))})
    - Cardinality(done \cap ProcsOf(u))

\* DoScheduleUlData inserts a process for every UE that gets new data: at most
\* one per UE, when CanInsert, in any free slot of its vector, never for a UE
\* with a retransmission in this slot.  A UE can be passed over: it may have
\* nothing to send, too small a share, or its SRS in this slot.
NewGrants(fb, nacks, left) ==
  LET free == {p \in Proc : /\ ~Active(AfterHarq(p, fb, nacks, left))
                            /\ ErasedSize(p[1], DoneProcs(fb)) < NumHarq}
  IN  {new \in SUBSET free :
         /\ new # {} => left[Len(nacks)] > 0
         /\ \A p, q \in new : p[1] = q[1] => p = q
         /\ \A p \in new : \A q \in ProcsAt(nacks, Resent(nacks, left)) : p[1] # q[1]}

\* The symbols DoScheduleUlData gives to the new grants: a share of its own
\* for each UE (TDMA), or the same symbols for all the UEs (OFDMA, one beam).
Shares(new, symLeft) ==
  {size \in [new -> 1 .. MaxSym] :
     \/ SumFunction(size) <= symLeft
     \/ \A p, q \in new : size[p] = size[q] /\ size[p] <= symLeft}

\* What becomes of m_ulHarqToRetransmit, cleared by MergeHARQ and filled by
\* ScheduleUlHarq.  Fault: the merge does not clear it.
FaultBuffer(heldBack) == toRetx \o heldBack

NewBuffer(heldBack) == heldBack

\* ScheduleUl for the reports fb, of which nacks are to be served.
ScheduleUl(fb, nacks, left) ==
  \E new \in NewGrants(fb, nacks, left) :
  \E size \in Shares(new, left[Len(nacks)]) :
    /\ harq' = [p \in Proc |->
                  IF p \in new
                  THEN [status |-> "WAITING_FEEDBACK", timer |-> 0, rv |-> 0, sym |-> size[p]]
                  ELSE AfterHarq(p, fb, nacks, left)]
    /\ usedSize' = [u \in UE |->
                      ErasedSize(u, DoneProcs(fb)) + Cardinality(new \cap ProcsOf(u))]
    /\ onAir' = {[proc |-> e.proc, rv |-> e.rv, age |-> e.age + 1] : e \in onAir} \cup
                {[proc |-> p, rv |-> harq'[p].rv, age |-> 0] :
                   p \in new \cup ProcsAt(nacks, Resent(nacks, left))}
    /\ \E heldBack \in Kept(nacks, HeldBack(nacks, left)) : toRetx' = NewBuffer(heldBack)

DoSchedUlTriggerReq(symAvail) ==
  /\ ~fatal
  /\ \A e \in onAir : e.age < Delay
  /\ \E fb \in Kept(Merged, ActiveReports) :
     \E nacks \in Kept(fb, Nacked(fb)) :
       /\ fatal' = Duplicated(fb)
       /\ ScheduleUl(fb, nacks, Left(nacks, symAvail))
  /\ received' = <<>>

Next ==
  \/ \E e \in onAir, ok \in BOOLEAN : UlHarqFeedback(e, ok)
  \/ \E e \in onAir : NothingSent(e)
  \/ \E symAvail \in SymChoices : DoSchedUlTriggerReq(symAvail)

Spec == Init /\ [][Next]_vars

\* Slots follow one another: a granted slot comes, and the pattern of slots
\* repeats, so that a whole uplink slot is triggered again and again.
Fairness ==
  /\ WF_vars(\E e \in onAir : NothingSent(e) \/ \E ok \in BOOLEAN : UlHarqFeedback(e, ok))
  /\ SF_vars(DoSchedUlTriggerReq(MaxSym))

FairSpec == Spec /\ Fairness

-----------------------------------------------------------------------------

\* The types of the variables.
TypeOK ==
  /\ harq \in [Proc -> Process]
  /\ usedSize \in [UE -> 0 .. NumHarq]
  /\ onAir \subseteq Grant
  /\ received \in Seq(Report)
  /\ toRetx \in Seq(Report)
  /\ fatal \in BOOLEAN

\* m_usedSize counts the active processes, as the NS_ASSERT of Erase wants,
\* through expiry, acknowledgement and reuse in one and the same trigger.
UsedSizeExact ==
  \A u \in UE : usedSize[u] = Cardinality({p \in ProcsOf(u) : Active(harq[p])})

\* A grant, a report or a buffered report always speaks of the transport block
\* that its process holds now, never of an earlier user of the same process:
\* same redundancy version, still waiting.
OutstandingIsCurrent ==
  /\ \A e \in onAir :
       /\ harq[e.proc].status = "WAITING_FEEDBACK"
       /\ harq[e.proc].rv = e.rv
       /\ harq[e.proc].timer = e.age
  /\ \A k \in DOMAIN received :
       /\ harq[received[k].proc].status = "WAITING_FEEDBACK"
       /\ harq[received[k].proc].rv = received[k].rv
  /\ \A k \in DOMAIN toRetx :
       /\ harq[toRetx[k].proc].status = "WAITING_FEEDBACK"
       /\ harq[toRetx[k].proc].rv = toRetx[k].rv
       /\ ~toRetx[k].ok

\* No report about an inactive process and no second report about one process
\* reaches ProcessHARQFeedbacks or ScheduleUlHarq: their NS_FATAL_ERROR and
\* NS_ASSERT are out of reach.
NoFatal == ~fatal

Buffered(p) == \E k \in DOMAIN toRetx : toRetx[k].proc = p

Outstanding(p) ==
  \/ \E e \in onAir : e.proc = p
  \/ \E k \in DOMAIN received : received[k].proc = p
  \/ Buffered(p)

\* A retransmission that is put off keeps its turn: in m_ulHarqToRetransmit no
\* newer one ever gets before it, however many slots it waits and whatever is
\* erased from the list of reports, the NACKs and the buffer in between.
NeverOvertaken ==
  [][\A j \in DOMAIN toRetx : \A k \in DOMAIN toRetx' :
       toRetx'[k].proc = toRetx[j].proc => k <= j]_vars

\* The turn comes: a whole uplink slot serves the report that has waited in
\* m_ulHarqToRetransmit longest, whatever is merged with it, has expired or is
\* done in the same trigger, and whatever else the slot is given to.
TurnComes ==
  [][\/ toRetx = <<>>
     \/ \E e \in onAir' : e.proc = Head(toRetx).proc
     \/ ~DoSchedUlTriggerReq(MaxSym)]_vars

Reports == Range(received) \cup Range(toRetx)

\* What is known of the last transmission of process p.
PhaseOf(p) ==
  IF ~Active(harq[p]) THEN "free"
  ELSE IF \E e \in onAir : e.proc = p THEN "sent"
  ELSE IF \E r \in Reports : r.proc = p /\ r.ok THEN "acked"
  ELSE IF \E r \in Reports : r.proc = p THEN "nacked"
  ELSE "silent"

Tries(p) == IF Active(harq[p]) THEN harq[p].rv + 1 ELSE 0

Blocks == INSTANCE StopAndWait WITH
  MaxTries <- MaxReTx + 1,
  phase <- [p \in Proc |-> PhaseOf(p)],
  tries <- [p \in Proc |-> Tries(p)]

\* Expiry, feedback, retransmission and reuse, all in one trigger, are never
\* more than stop-and-wait: no process is freed, reused or sent again before
\* the answer to its last transmission came or could come no more, none is
\* sent more than 1 + MaxReTx times, and an answered block is never kept.
ImplementsStopAndWait == Blocks!Spec

\* A retransmission that did not fit into its slot is not starved by the other
\* retransmissions and the new grants that compete for the symbols, nor does
\* its process expire: it is made, unless a slot that fills up drops it.
BufferedIsServed ==
  \A p \in Proc :
    Buffered(p) ~> \/ \E e \in onAir : e.proc = p
                   \/ harq[p].status = "RECEIVED_FEEDBACK"

\* A process of which nothing is outstanding (its block was never sent, or its
\* NACK was not queued) does not stay in the vector for ever.
AbandonedIsFreed ==
  \A p \in Proc : (Active(harq[p]) /\ ~Outstanding(p)) ~> (~Active(harq[p]) \/ Outstanding(p))

\* What ScheduleUlHarq and SortUlHarq promise: a NACKed block that is not sent
\* again in this slot "will be queued for the next slot".
NackIsQueued ==
  \A p \in Proc : harq[p].status = "RECEIVED_FEEDBACK" => Buffered(p)
=============================================================================
