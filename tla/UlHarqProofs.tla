---------------------------- MODULE UlHarqProofs ----------------------------
(***************************************************************************)
(* For any number of UEs, processes, symbols and retransmissions: while    *)
(* every report comes back before its process can expire (Delay < NumHarq) *)
(* the reports that reach the scheduler speak of the block their process   *)
(* holds, no process is reported on twice, the count of the vector is      *)
(* exact, the whole is a refinement of StopAndWait, and a retransmission   *)
(* that was put off keeps its turn until a whole slot serves it.           *)
(***************************************************************************)
EXTENDS UlHarq, FiniteSetTheorems, SequenceTheorems, WellFoundedInduction, TLAPS

\* No two entries of a list of reports are about one process.
Unique(s) == \A j, k \in DOMAIN s : s[j].proc = s[k].proc => j = k

\* No two of the grants on the air, the reports received and the reports
\* buffered are about one process.
Exclusive ==
  /\ \A e, f \in onAir : e.proc = f.proc => e = f
  /\ Unique(received)
  /\ Unique(toRetx)
  /\ \A e \in onAir : \A k \in DOMAIN received : e.proc # received[k].proc
  /\ \A e \in onAir : \A k \in DOMAIN toRetx : e.proc # toRetx[k].proc
  /\ \A j \in DOMAIN received : \A k \in DOMAIN toRetx : received[j].proc # toRetx[k].proc

\* A process that is reported on has not aged beyond the delay of its report,
\* which is what keeps ResetExpiredHARQ from taking it away.
Young ==
  /\ \A k \in DOMAIN received : harq[received[k].proc].timer <= Delay
  /\ \A k \in DOMAIN toRetx : harq[toRetx[k].proc].timer = 0

\* The inductive invariant.
IInv == TypeOK /\ OutstandingIsCurrent /\ NoFatal /\ Exclusive /\ Young /\ UsedSizeExact

-----------------------------------------------------------------------------

\* The slots of a UE's vector are finite in number: SetMaxSize(NumHarq).
LEMMA SlotsFinite ==
  ASSUME NEW u \in UE
  PROVE  IsFiniteSet(ProcsOf(u)) /\ Cardinality(ProcsOf(u)) <= NumHarq
<1> DEFINE slot == [i \in 0 .. NumHarq - 1 |-> <<u, i>>]
<1> USE HarqAssumption
<1>1. IsFiniteSet(0 .. NumHarq - 1) /\ Cardinality(0 .. NumHarq - 1) = NumHarq
  BY FS_Interval
<1>2. slot \in Surjection(0 .. NumHarq - 1, ProcsOf(u))
  <2>1. \A i \in 0 .. NumHarq - 1 : <<u, i>> \in ProcsOf(u)
    BY DEF ProcsOf, Proc
  <2>2. slot \in [0 .. NumHarq - 1 -> ProcsOf(u)]
    BY <2>1
  <2>3. \A p \in ProcsOf(u) : \E i \in 0 .. NumHarq - 1 : p = <<u, i>>
    BY DEF ProcsOf, Proc
  <2>4. \A p \in ProcsOf(u) : \E i \in 0 .. NumHarq - 1 : slot[i] = p
    BY <2>3
  <2> QED
    BY <2>2, <2>4 DEF Surjection
<1> HIDE DEF slot
<1>3. /\ IsFiniteSet(ProcsOf(u))
      /\ Cardinality(ProcsOf(u)) <= Cardinality(0 .. NumHarq - 1)
  BY <1>1, <1>2, FS_Surjection
<1> QED
  BY <1>1, <1>3

\* The erase-while-iterating loops keep elements of the list, in new places but
\* never one twice.
LEMMA KeptLemma ==
  ASSUME NEW s \in Seq(Report), NEW I, I \subseteq DOMAIN s, NEW t \in Kept(s, I)
  PROVE  /\ t \in Seq(Report)
         /\ \A k \in DOMAIN t : \E i \in I : t[k] = s[i]
         /\ Unique(s) => Unique(t)
<1> DEFINE n == Cardinality(I)
<1>1. IsFiniteSet(I)
  <2>1. DOMAIN s = 1 .. Len(s) /\ Len(s) \in Nat
    OBVIOUS
  <2>2. IsFiniteSet(1 .. Len(s))
    BY <2>1, FS_Interval
  <2> QED
    BY <2>1, <2>2, FS_Subset
<1>2. n \in Nat
  BY <1>1, FS_CardinalityType
<1>3. PICK f \in [1 .. n -> I] :
        /\ \A j, k \in 1 .. n : j < k => f[j] < f[k]
        /\ t = [k \in 1 .. n |-> s[f[k]]]
  BY DEF Kept
<1> HIDE DEF n
<1>4. \A k \in 1 .. n : f[k] \in I /\ f[k] \in DOMAIN s /\ f[k] \in Nat
  BY <1>3
<1>5. t \in [1 .. n -> Report]
  BY <1>3, <1>4
<1>6. t \in Seq(Report)
  BY <1>2, <1>5
<1>7. DOMAIN t = 1 .. n /\ \A k \in 1 .. n : t[k] = s[f[k]]
  BY <1>3
<1>8. \A k \in DOMAIN t : \E i \in I : t[k] = s[i]
  BY <1>4, <1>7
<1>9. ASSUME Unique(s) PROVE Unique(t)
  <2> SUFFICES ASSUME NEW j \in 1 .. n, NEW k \in 1 .. n, t[j].proc = t[k].proc
               PROVE  j = k
    BY <1>7 DEF Unique
  <2>1. f[j] = f[k]
    BY <1>4, <1>7, <1>9 DEF Unique
  <2> QED
    BY <1>2, <1>3, <1>4, <2>1
<1> QED
  BY <1>6, <1>8, <1>9

\* Ageing keeps the type of a process, and keeps one that is younger than the
\* limit in its place.
LEMMA AgedLemma ==
  ASSUME NEW h \in Process
  PROVE  /\ Aged(h) \in Process
         /\ Active(h) /\ h.timer < NumHarq =>
              Aged(h) = [status |-> h.status, timer |-> h.timer + 1,
                         rv |-> h.rv, sym |-> h.sym]
         /\ Active(Aged(h)) => Active(h) /\ Aged(h).rv = h.rv
  BY HarqAssumption DEF Process, Status, Aged, Active, Idle

\* Initially every process is idle and nothing is outstanding.
LEMMA InitIInv == Init => IInv
<1> SUFFICES ASSUME Init PROVE IInv
  OBVIOUS
<1> USE HarqAssumption
<1>1. Idle \in Process
  BY DEF Idle, Process, Status
<1>2. TypeOK
  <2>1. fatal \in BOOLEAN
    BY DEF Init
  <2>2. 0 \in 0 .. NumHarq
    OBVIOUS
  <2> QED
    BY <1>1, <2>1, <2>2 DEF Init, TypeOK
<1>3. OutstandingIsCurrent /\ NoFatal /\ Exclusive /\ Young
  BY DEF Init, OutstandingIsCurrent, NoFatal, Exclusive, Young, Unique
<1>4. UsedSizeExact
  <2> SUFFICES ASSUME NEW u \in UE
               PROVE  usedSize[u] = Cardinality({p \in ProcsOf(u) : Active(harq[p])})
    BY DEF UsedSizeExact
  <2>1. {p \in ProcsOf(u) : Active(harq[p])} = {}
    BY DEF Init, Active, Idle, ProcsOf
  <2> QED
    BY <2>1, FS_EmptySet DEF Init
<1> QED
  BY <1>2, <1>3, <1>4 DEF IInv

\* A report moves from the air to the gNB MAC.
LEMMA FeedbackIInv ==
  ASSUME IInv, NEW e \in onAir, NEW ok \in BOOLEAN, UlHarqFeedback(e, ok)
  PROVE  IInv'
<1> DEFINE r == [proc |-> e.proc, rv |-> e.rv, ok |-> ok]
           n == Len(received)
<1> USE HarqAssumption
<1>1. /\ received \in Seq(Report)
      /\ n \in Nat
      /\ DOMAIN received = 1 .. n
      /\ e \in Grant
  BY DEF IInv, TypeOK
<1>2. r \in Report
  BY <1>1 DEF Report, Grant
<1>3. /\ received' = Append(received, r)
      /\ received' \in Seq(Report)
      /\ DOMAIN received' = 1 .. n + 1
      /\ \A k \in 1 .. n : received'[k] = received[k]
      /\ received'[n + 1] = r
  BY <1>1, <1>2 DEF UlHarqFeedback
<1>4. /\ onAir' = onAir \ {e}
      /\ UNCHANGED <<harq, usedSize, toRetx, fatal>>
  BY DEF UlHarqFeedback
<1>5. \A k \in DOMAIN received' : k \in 1 .. n \/ k = n + 1
  BY <1>1, <1>3
<1>6. TypeOK'
  BY <1>3, <1>4 DEF IInv, TypeOK
<1>7. OutstandingIsCurrent'
  BY <1>1, <1>3, <1>4, <1>5 DEF IInv, OutstandingIsCurrent
<1>8. NoFatal' /\ UsedSizeExact'
  BY <1>4 DEF IInv, NoFatal, UsedSizeExact
<1>9. Exclusive'
  BY <1>1, <1>3, <1>4, <1>5 DEF IInv, Exclusive, Unique
<1>10. Young'
  <2>1. harq[e.proc].timer <= Delay
    BY <1>1 DEF IInv, OutstandingIsCurrent, Grant
  <2> QED
    BY <1>1, <1>3, <1>4, <1>5, <2>1 DEF IInv, Young
<1> QED
  BY <1>6, <1>7, <1>8, <1>9, <1>10 DEF IInv

\* A grant in which the UE sends nothing is forgotten.
LEMMA NothingSentIInv ==
  ASSUME IInv, NEW e \in onAir, NothingSent(e)
  PROVE  IInv'
<1>1. onAir' \subseteq onAir /\ UNCHANGED <<harq, usedSize, received, toRetx, fatal>>
  BY DEF NothingSent
<1>2. TypeOK'
  BY <1>1 DEF IInv, TypeOK
<1> QED
  BY <1>1, <1>2 DEF IInv, OutstandingIsCurrent, NoFatal, Exclusive, Young, UsedSizeExact

-----------------------------------------------------------------------------

\* What a trigger finds: every report it merges is about a different process,
\* which waits for it, holds the block it is about, and is too young to expire.
LEMMA MergedLemma ==
  ASSUME IInv, Delay < NumHarq
  PROVE  /\ Merged \in Seq(Report)
         /\ Unique(Merged)
         /\ \A k \in DOMAIN Merged :
              LET h == harq[Merged[k].proc]
              IN  /\ h \in Process
                  /\ h.status = "WAITING_FEEDBACK"
                  /\ h.rv = Merged[k].rv
                  /\ h.timer < NumHarq
                  /\ \A e \in onAir : e.proc # Merged[k].proc
<1> DEFINE m == Len(toRetx)
           n == Len(received)
<1> USE HarqAssumption
<1>1. /\ toRetx \in Seq(Report) /\ m \in Nat /\ DOMAIN toRetx = 1 .. m
      /\ received \in Seq(Report) /\ n \in Nat /\ DOMAIN received = 1 .. n
  BY DEF IInv, TypeOK
<1>2. /\ Merged \in Seq(Report)
      /\ DOMAIN Merged = 1 .. m + n
      /\ \A k \in 1 .. m : Merged[k] = toRetx[k]
      /\ \A k \in m + 1 .. m + n : Merged[k] = received[k - m]
  BY <1>1 DEF Merged
<1> HIDE DEF m, n
<1>3. \A k \in DOMAIN Merged :
        \/ k \in DOMAIN toRetx /\ Merged[k] = toRetx[k]
        \/ k - m \in DOMAIN received /\ Merged[k] = received[k - m] /\ k \notin DOMAIN toRetx
  <2> SUFFICES ASSUME NEW k \in 1 .. m + n
               PROVE  \/ k \in DOMAIN toRetx /\ Merged[k] = toRetx[k]
                      \/ /\ k - m \in DOMAIN received
                         /\ Merged[k] = received[k - m]
                         /\ k \notin DOMAIN toRetx
    BY <1>2
  <2>1. CASE k <= m
    BY <1>1, <1>2, <2>1
  <2>2. CASE k > m
    <3>1. k \in m + 1 .. m + n /\ k - m \in 1 .. n /\ k \notin 1 .. m
      BY <1>1, <2>2
    <3> QED
      BY <1>1, <1>2, <3>1
  <2> QED
    BY <1>1, <2>1, <2>2
<1>4. Unique(Merged)
  <2> SUFFICES ASSUME NEW j \in DOMAIN Merged, NEW k \in DOMAIN Merged,
                      Merged[j].proc = Merged[k].proc
               PROVE  j = k
    BY DEF Unique
  <2>1. j \in Int /\ k \in Int
    BY <1>1, <1>2
  <2>2. CASE j \in DOMAIN toRetx /\ k \in DOMAIN toRetx
    BY <1>3, <2>2 DEF IInv, Exclusive, Unique
  <2>3. CASE j \notin DOMAIN toRetx /\ k \notin DOMAIN toRetx
    <3>1. j - m = k - m
      BY <1>3, <2>3 DEF IInv, Exclusive, Unique
    <3> QED
      BY <1>1, <2>1, <3>1
  <2>4. CASE j \in DOMAIN toRetx /\ k \notin DOMAIN toRetx
    BY <1>3, <2>4 DEF IInv, Exclusive
  <2>5. CASE j \notin DOMAIN toRetx /\ k \in DOMAIN toRetx
    BY <1>3, <2>5 DEF IInv, Exclusive
  <2> QED
    BY <2>2, <2>3, <2>4, <2>5
<1>5. ASSUME NEW k \in DOMAIN Merged
      PROVE  /\ harq[Merged[k].proc] \in Process
             /\ harq[Merged[k].proc].status = "WAITING_FEEDBACK"
             /\ harq[Merged[k].proc].rv = Merged[k].rv
             /\ harq[Merged[k].proc].timer < NumHarq
             /\ \A e \in onAir : e.proc # Merged[k].proc
  <2>1. Merged[k] \in Report
    BY <1>2, LenProperties, ElementOfSeq
  <2>2. harq[Merged[k].proc] \in Process /\ harq[Merged[k].proc].timer \in Nat
    BY <2>1 DEF Report, IInv, TypeOK, Process
  <2>3. CASE k \in DOMAIN toRetx /\ Merged[k] = toRetx[k]
    BY <2>2, <2>3 DEF IInv, OutstandingIsCurrent, Exclusive, Young
  <2>4. CASE k - m \in DOMAIN received /\ Merged[k] = received[k - m]
    BY <2>2, <2>4 DEF IInv, OutstandingIsCurrent, Exclusive, Young
  <2> QED
    BY <1>3, <2>3, <2>4
<1> QED
  BY <1>2, <1>4, <1>5

\* A grant on the air ages together with its process.
LEMMA OnAirLemma ==
  ASSUME IInv, Delay < NumHarq, NEW e \in onAir
  PROVE  /\ e \in Grant /\ e.proc \in Proc
         /\ Aged(harq[e.proc]).status = "WAITING_FEEDBACK"
         /\ Aged(harq[e.proc]).rv = e.rv
         /\ Aged(harq[e.proc]).timer = e.age + 1
<1> DEFINE h == harq[e.proc]
<1> USE HarqAssumption
<1>1. e \in Grant /\ e.proc \in Proc /\ e.age \in 0 .. Delay
  BY DEF IInv, TypeOK, Grant
<1>2. h \in Process /\ h.status = "WAITING_FEEDBACK" /\ h.rv = e.rv /\ h.timer = e.age
  BY <1>1 DEF IInv, TypeOK, OutstandingIsCurrent
<1>3. Active(h) /\ h.timer < NumHarq
  BY <1>1, <1>2 DEF Active
<1>4. Aged(h) = [status |-> h.status, timer |-> h.timer + 1, rv |-> h.rv, sym |-> h.sym]
  BY <1>2, <1>3, AgedLemma
<1> HIDE DEF h
<1>5. Aged(h).status = h.status /\ Aged(h).timer = h.timer + 1 /\ Aged(h).rv = h.rv
  BY <1>4
<1> QED
  BY <1>1, <1>2, <1>5 DEF h

\* What the steps of a trigger make of one process, and of the lists fb (the
\* reports about active processes) and nacks (those to be served).
LEMMA HarqStepLemma ==
  ASSUME IInv, Delay < NumHarq, NEW fb \in Kept(Merged, ActiveReports),
         NEW nacks \in Kept(fb, Nacked(fb)), NEW left
  PROVE  /\ ~Duplicated(fb)
         /\ nacks \in Seq(Report) /\ Unique(nacks)
         /\ \A k \in DOMAIN nacks : ~nacks[k].ok /\ nacks[k].rv = harq[nacks[k].proc].rv
         /\ \A p \in DoneProcs(fb) : p \in Proc /\ Active(Aged(harq[p]))
         /\ \A p \in Proc :
              /\ AfterHarq(p, fb, nacks, left) \in Process
              /\ Active(AfterHarq(p, fb, nacks, left)) <=>
                   (Active(Aged(harq[p])) /\ p \notin DoneProcs(fb))
         /\ \A p \in ProcsAt(nacks, Resent(nacks, left)) :
              /\ p \in Proc
              /\ AfterHarq(p, fb, nacks, left).status = "WAITING_FEEDBACK"
              /\ AfterHarq(p, fb, nacks, left).timer = 0
         /\ \A k \in HeldBack(nacks, left) :
              /\ nacks[k].proc \in Proc
              /\ nacks[k].proc \notin ProcsAt(nacks, Resent(nacks, left))
              /\ AfterHarq(nacks[k].proc, fb, nacks, left).status = "WAITING_FEEDBACK"
              /\ AfterHarq(nacks[k].proc, fb, nacks, left).timer = 0
              /\ AfterHarq(nacks[k].proc, fb, nacks, left).rv = harq[nacks[k].proc].rv
         /\ \A e \in onAir :
              /\ AfterHarq(e.proc, fb, nacks, left) = Aged(harq[e.proc])
              /\ \A k \in DOMAIN nacks : nacks[k].proc # e.proc
<1> DEFINE after(p) == AfterHarq(p, fb, nacks, left)
<1> USE HarqAssumption
<1>1. /\ Merged \in Seq(Report)
      /\ Unique(Merged)
      /\ \A k \in DOMAIN Merged :
           LET h == harq[Merged[k].proc]
           IN  /\ h \in Process
               /\ h.status = "WAITING_FEEDBACK"
               /\ h.rv = Merged[k].rv
               /\ h.timer < NumHarq
               /\ \A e \in onAir : e.proc # Merged[k].proc
  BY MergedLemma
<1>2. /\ fb \in Seq(Report)
      /\ \A k \in DOMAIN fb : \E i \in ActiveReports : fb[k] = Merged[i]
      /\ Unique(fb)
  BY <1>1, KeptLemma DEF ActiveReports
<1>3. /\ nacks \in Seq(Report)
      /\ \A k \in DOMAIN nacks : \E j \in Nacked(fb) : nacks[k] = fb[j]
      /\ Unique(nacks)
  BY <1>2, KeptLemma DEF Nacked
<1>4. \A k \in DOMAIN fb : fb[k] \in Report /\ fb[k].proc \in Proc
  <2> TAKE k \in DOMAIN fb
  <2>1. fb[k] \in Report
    BY <1>2, LenProperties, ElementOfSeq
  <2> QED
    BY <2>1 DEF Report
<1>5. \A k \in DOMAIN fb :
        LET h == harq[fb[k].proc]
        IN  /\ h \in Process
            /\ h.status = "WAITING_FEEDBACK"
            /\ h.rv = fb[k].rv
            /\ h.timer < NumHarq
            /\ \A e \in onAir : e.proc # fb[k].proc
            /\ Active(Aged(h))
            /\ Aged(h) = [status |-> h.status, timer |-> h.timer + 1,
                          rv |-> h.rv, sym |-> h.sym]
  <2> SUFFICES ASSUME NEW k \in DOMAIN fb
               PROVE  LET h == harq[fb[k].proc]
                      IN  /\ h \in Process
                          /\ h.status = "WAITING_FEEDBACK"
                          /\ h.rv = fb[k].rv
                          /\ h.timer < NumHarq
                          /\ \A e \in onAir : e.proc # fb[k].proc
                          /\ Active(Aged(h))
                          /\ Aged(h) = [status |-> h.status, timer |-> h.timer + 1,
                                        rv |-> h.rv, sym |-> h.sym]
    OBVIOUS
  <2>1. PICK i \in ActiveReports : fb[k] = Merged[i]
    BY <1>2
  <2>2. i \in DOMAIN Merged
    BY DEF ActiveReports
  <2> DEFINE h == harq[fb[k].proc]
  <2>3. /\ h \in Process
        /\ h.status = "WAITING_FEEDBACK"
        /\ h.rv = fb[k].rv
        /\ h.timer < NumHarq
        /\ \A e \in onAir : e.proc # fb[k].proc
    BY <1>1, <2>1, <2>2
  <2> HIDE DEF h
  <2>4. Active(h)
    BY <2>3 DEF Active
  <2>5. Aged(h) = [status |-> h.status, timer |-> h.timer + 1, rv |-> h.rv, sym |-> h.sym]
    BY <2>3, <2>4, AgedLemma
  <2>6. Active(Aged(h))
    BY <2>3, <2>5 DEF Active
  <2> QED
    BY <2>3, <2>5, <2>6 DEF h
<1>6. ~Duplicated(fb)
  BY <1>2 DEF Duplicated, Unique
<1>7. \A k \in DOMAIN nacks :
        \E j \in DOMAIN fb : nacks[k] = fb[j] /\ ~Done(fb[j])
  BY <1>3 DEF Nacked
<1>8. \A k \in DOMAIN nacks :
        LET p == nacks[k].proc IN
          /\ p \in Proc
          /\ ~nacks[k].ok
          /\ nacks[k].rv = harq[p].rv
          /\ harq[p] \in Process
          /\ Active(Aged(harq[p]))
          /\ Aged(harq[p]).rv = harq[p].rv
          /\ Aged(harq[p]).sym = harq[p].sym
          /\ harq[p].rv # MaxReTx
          /\ \A e \in onAir : e.proc # p
  <2> TAKE k \in DOMAIN nacks
  <2>1. PICK j \in DOMAIN fb : nacks[k] = fb[j] /\ ~Done(fb[j])
    BY <1>7
  <2> DEFINE p == fb[j].proc
             h == harq[p]
  <2>2. p \in Proc
    BY <1>4
  <2>3. /\ h \in Process
        /\ h.rv = fb[j].rv
        /\ Active(Aged(h))
        /\ \A e \in onAir : e.proc # p
        /\ Aged(h) = [status |-> h.status, timer |-> h.timer + 1, rv |-> h.rv, sym |-> h.sym]
    BY <1>5
  <2>4. Aged(h).rv = h.rv /\ Aged(h).sym = h.sym
    BY <2>3
  <2>5. ~fb[j].ok /\ h.rv # MaxReTx
    BY <2>1, <2>4 DEF Done
  <2> QED
    BY <2>1, <2>2, <2>3, <2>4, <2>5
<1>9. \A k \in DOMAIN nacks : nacks[k].proc \notin DoneProcs(fb)
  BY <1>2, <1>7 DEF DoneProcs, Unique
<1>10. \A p \in DoneProcs(fb) : p \in Proc /\ Active(Aged(harq[p]))
  BY <1>5 DEF DoneProcs
<1>11. \A p \in Proc : harq[p] \in Process /\ Aged(harq[p]) \in Process
  BY AgedLemma DEF IInv, TypeOK
<1>12. ASSUME NEW k \in Resent(nacks, left)
       PROVE  /\ nacks[k].proc \in Proc
              /\ Active(Aged(harq[nacks[k].proc]))
              /\ after(nacks[k].proc) \in Process
              /\ after(nacks[k].proc).status = "WAITING_FEEDBACK"
              /\ after(nacks[k].proc).timer = 0
  <2> DEFINE p == nacks[k].proc
             h == Aged(harq[p])
  <2>1. k \in DOMAIN nacks /\ p \in ProcsAt(nacks, Resent(nacks, left))
    BY DEF Resent, ProcsAt
  <2>2. p \in Proc /\ Active(h) /\ h.rv = harq[p].rv /\ h.rv # MaxReTx
    BY <1>8, <2>1
  <2>3. h \in Process
    BY <1>11, <2>2
  <2>4. after(p) = [status |-> "WAITING_FEEDBACK", timer |-> 0, rv |-> h.rv + 1, sym |-> h.sym]
    BY <1>9, <2>1 DEF AfterHarq, ServedTimer
  <2> HIDE DEF p, h, after
  <2>5. h.rv + 1 \in 0 .. MaxReTx /\ h.sym \in 0 .. MaxSym
    BY <2>2, <2>3 DEF Process
  <2>6. after(p) \in Process /\ after(p).status = "WAITING_FEEDBACK" /\ after(p).timer = 0
    BY <2>4, <2>5 DEF Process, Status
  <2> QED
    BY <2>2, <2>6 DEF p, h, after
<1>13. ASSUME NEW k \in HeldBack(nacks, left)
       PROVE  /\ nacks[k].proc \in Proc
              /\ Active(Aged(harq[nacks[k].proc]))
              /\ nacks[k].proc \notin ProcsAt(nacks, Resent(nacks, left))
              /\ after(nacks[k].proc) \in Process
              /\ after(nacks[k].proc).status = "WAITING_FEEDBACK"
              /\ after(nacks[k].proc).timer = 0
              /\ after(nacks[k].proc).rv = harq[nacks[k].proc].rv
  <2> DEFINE p == nacks[k].proc
             h == Aged(harq[p])
  <2>1. k \in DOMAIN nacks /\ p \in ProcsAt(nacks, HeldBack(nacks, left))
    BY DEF HeldBack, ProcsAt
  <2>2. p \notin ProcsAt(nacks, Resent(nacks, left))
    BY <1>3, <2>1 DEF HeldBack, Resent, ProcsAt, Unique
  <2>3. p \in Proc /\ Active(h) /\ h.rv = harq[p].rv
    BY <1>8, <2>1
  <2>4. h \in Process
    BY <1>11, <2>3
  <2>5. after(p) = [status |-> "WAITING_FEEDBACK", timer |-> 0, rv |-> h.rv, sym |-> h.sym]
    BY <1>9, <2>1, <2>2 DEF AfterHarq, ServedTimer
  <2> HIDE DEF p, h, after
  <2>6. /\ after(p) \in Process /\ after(p).status = "WAITING_FEEDBACK"
        /\ after(p).timer = 0 /\ after(p).rv = h.rv
    BY <2>4, <2>5 DEF Process, Status
  <2>7. /\ p \in Proc /\ Active(h) /\ p \notin ProcsAt(nacks, Resent(nacks, left))
        /\ after(p) \in Process /\ after(p).status = "WAITING_FEEDBACK"
        /\ after(p).timer = 0 /\ after(p).rv = harq[p].rv
    BY <2>2, <2>3, <2>6
  <2> QED
    BY <2>7 DEF p, h, after
<1>14. ASSUME NEW p \in Proc
       PROVE  /\ after(p) \in Process
              /\ Active(after(p)) <=> (Active(Aged(harq[p])) /\ p \notin DoneProcs(fb))
  <2> DEFINE h == Aged(harq[p])
  <2>1. CASE p \in DoneProcs(fb)
    <3>1. after(p) = Idle
      BY <2>1 DEF AfterHarq
    <3>2. Idle \in Process /\ ~Active(Idle)
      BY DEF Idle, Process, Status, Active
    <3> QED
      BY <2>1, <3>1, <3>2
  <2>2. CASE p \in ProcsAt(nacks, Resent(nacks, left))
    <3>1. PICK k \in Resent(nacks, left) : p = nacks[k].proc
      BY <2>2 DEF ProcsAt
    <3>2. p \notin DoneProcs(fb)
      BY <1>9, <3>1 DEF Resent
    <3>3. Active(h) /\ after(p) \in Process /\ after(p).status = "WAITING_FEEDBACK"
      BY <1>12, <3>1
    <3> HIDE DEF after
    <3> QED
      BY <3>2, <3>3 DEF Active
  <2>3. CASE p \in ProcsAt(nacks, HeldBack(nacks, left))
    <3>1. PICK k \in HeldBack(nacks, left) : p = nacks[k].proc
      BY <2>3 DEF ProcsAt
    <3>2. p \notin DoneProcs(fb)
      BY <1>9, <3>1 DEF HeldBack
    <3>3. Active(h) /\ after(p) \in Process /\ after(p).status = "WAITING_FEEDBACK"
      BY <1>13, <3>1
    <3> HIDE DEF after
    <3> QED
      BY <3>2, <3>3 DEF Active
  <2>4. CASE /\ p \in ProcsAt(nacks, DOMAIN nacks)
             /\ p \notin ProcsAt(nacks, Resent(nacks, left))
             /\ p \notin ProcsAt(nacks, HeldBack(nacks, left))
    <3>1. PICK k \in DOMAIN nacks : p = nacks[k].proc
      BY <2>4 DEF ProcsAt
    <3>2. p \notin DoneProcs(fb) /\ Active(h)
      BY <1>8, <1>9, <3>1
    <3>3. after(p) = [status |-> "RECEIVED_FEEDBACK", timer |-> h.timer,
                      rv |-> h.rv, sym |-> h.sym]
      BY <2>4, <3>2 DEF AfterHarq
    <3>4. h \in Process
      BY <1>11
    <3> HIDE DEF after, h
    <3>5. after(p) \in Process /\ Active(after(p))
      BY <3>3, <3>4 DEF Process, Status, Active
    <3>6. /\ after(p) \in Process
          /\ Active(after(p)) <=> (Active(h) /\ p \notin DoneProcs(fb))
      BY <3>2, <3>5
    <3> QED
      BY <3>6 DEF h
  <2>5. CASE /\ p \notin DoneProcs(fb)
             /\ p \notin ProcsAt(nacks, Resent(nacks, left))
             /\ p \notin ProcsAt(nacks, HeldBack(nacks, left))
             /\ p \notin ProcsAt(nacks, DOMAIN nacks)
    <3>1. after(p) = h
      BY <2>5 DEF AfterHarq
    <3> QED
      BY <1>11, <2>5, <3>1
  <2> HIDE DEF after
  <2> QED
    BY <2>1, <2>2, <2>3, <2>4, <2>5
<1>15. ASSUME NEW e \in onAir
       PROVE  /\ after(e.proc) = Aged(harq[e.proc])
              /\ \A k \in DOMAIN nacks : nacks[k].proc # e.proc
  <2>1. e.proc \notin DoneProcs(fb)
    BY <1>5 DEF DoneProcs
  <2>2. \A k \in DOMAIN nacks : nacks[k].proc # e.proc
    BY <1>8
  <2>3. /\ e.proc \notin ProcsAt(nacks, Resent(nacks, left))
        /\ e.proc \notin ProcsAt(nacks, HeldBack(nacks, left))
        /\ e.proc \notin ProcsAt(nacks, DOMAIN nacks)
    BY <2>2 DEF ProcsAt, Resent, HeldBack
  <2>4. after(e.proc) = Aged(harq[e.proc])
    BY <2>1, <2>3 DEF AfterHarq
  <2> QED
    BY <2>2, <2>4
<1>16. \A k \in DOMAIN nacks : ~nacks[k].ok /\ nacks[k].rv = harq[nacks[k].proc].rv
  BY <1>8
<1>17. \A p \in ProcsAt(nacks, Resent(nacks, left)) :
         /\ p \in Proc
         /\ after(p).status = "WAITING_FEEDBACK"
         /\ after(p).timer = 0
  <2> HIDE DEF after
  <2> QED
    BY <1>12 DEF ProcsAt
<1> QED
  BY <1>3, <1>6, <1>10, <1>13, <1>14, <1>15, <1>16, <1>17

\* The counting in one trigger: of the active processes of a UE, those that
\* expire and those that are done leave, and the new ones come.
LEMMA CountLemma ==
  ASSUME NEW S, IsFiniteSet(S), NEW E, E \subseteq S, NEW D, D \subseteq S \ E,
         NEW W, IsFiniteSet(W), W \cap ((S \ E) \ D) = {}
  PROVE  Cardinality(((S \ E) \ D) \cup W)
           = Cardinality(S) - Cardinality(E) - Cardinality(D) + Cardinality(W)
<1> DEFINE R == (S \ E) \ D
<1>1. /\ IsFiniteSet(S \ E) /\ IsFiniteSet(E) /\ IsFiniteSet(R) /\ IsFiniteSet(D)
      /\ Cardinality(S) \in Nat /\ Cardinality(E) \in Nat
      /\ Cardinality(S \ E) \in Nat /\ Cardinality(D) \in Nat
      /\ Cardinality(R) \in Nat /\ Cardinality(W) \in Nat
  <2>1. IsFiniteSet(E) /\ IsFiniteSet(S \ E)
    BY FS_Subset
  <2>2. IsFiniteSet(D) /\ IsFiniteSet(R)
    BY <2>1, FS_Subset
  <2> QED
    BY <2>1, <2>2, FS_CardinalityType
<1>2. Cardinality(S \ E) = Cardinality(S) - Cardinality(E)
  <2>1. S \cap E = E
    OBVIOUS
  <2> QED
    BY <2>1, FS_Difference
<1>3. Cardinality(R) = Cardinality(S \ E) - Cardinality(D)
  <2>1. (S \ E) \cap D = D
    OBVIOUS
  <2> QED
    BY <1>1, <2>1, FS_Difference
<1>4. Cardinality(R \cup W) = Cardinality(R) + Cardinality(W)
  <2>1. R \cap W = {}
    OBVIOUS
  <2>2. Cardinality(R \cup W) = Cardinality(R) + Cardinality(W) - Cardinality(R \cap W)
    BY <1>1, FS_Union
  <2>3. Cardinality(R \cap W) = 0
    BY <2>1, FS_EmptySet
  <2> QED
    BY <1>1, <2>2, <2>3
<1> QED
  BY <1>1, <1>2, <1>3, <1>4

\* One uplink trigger: ResetExpiredHARQ, MergeHARQ, ProcessHARQFeedbacks,
\* ScheduleUlHarq and the grants of DoScheduleUlData, in one step.
LEMMA TriggerIInv ==
  ASSUME IInv, Delay < NumHarq, NEW symAvail \in SymChoices, DoSchedUlTriggerReq(symAvail)
  PROVE  IInv'
<1> USE HarqAssumption
<1>fb. PICK fb \in Kept(Merged, ActiveReports) :
      \E nacks \in Kept(fb, Nacked(fb)) :
        /\ fatal' = Duplicated(fb)
        /\ ScheduleUl(fb, nacks, Left(nacks, symAvail))
  BY DEF DoSchedUlTriggerReq
<1>nacks. PICK nacks \in Kept(fb, Nacked(fb)) :
      /\ fatal' = Duplicated(fb)
      /\ ScheduleUl(fb, nacks, Left(nacks, symAvail))
  BY <1>fb
<1>left. PICK left : ScheduleUl(fb, nacks, left)
  BY <1>nacks
<1> DEFINE resent == ProcsAt(nacks, Resent(nacks, left))
           after(p) == AfterHarq(p, fb, nacks, left)
<1> DEFINE Scheduled(new, size) ==
        /\ harq' = [p \in Proc |->
                      IF p \in new
                      THEN [status |-> "WAITING_FEEDBACK", timer |-> 0,
                            rv |-> 0, sym |-> size[p]]
                      ELSE after(p)]
        /\ usedSize' = [u \in UE |->
                          ErasedSize(u, DoneProcs(fb)) + Cardinality(new \cap ProcsOf(u))]
        /\ onAir' = {[proc |-> e.proc, rv |-> e.rv, age |-> e.age + 1] : e \in onAir} \cup
                    {[proc |-> p, rv |-> harq'[p].rv, age |-> 0] : p \in new \cup resent}
        /\ \E heldBack \in Kept(nacks, HeldBack(nacks, left)) : toRetx' = NewBuffer(heldBack)
<1>new. PICK new \in NewGrants(fb, nacks, left) :
      \E size \in Shares(new, left[Len(nacks)]) : Scheduled(new, size)
  BY <1>left DEF ScheduleUl
<1>1. PICK size \in Shares(new, left[Len(nacks)]) : Scheduled(new, size)
  BY <1>new
<1>2. received' = <<>> /\ \A e \in onAir : e.age < Delay
  BY DEF DoSchedUlTriggerReq
<1>3. /\ new \subseteq Proc
      /\ \A p \in new : ~Active(after(p))
      /\ size \in [new -> 1 .. MaxSym]
  BY DEF NewGrants, Shares
<1>4. /\ ~Duplicated(fb)
      /\ nacks \in Seq(Report) /\ Unique(nacks)
      /\ \A k \in DOMAIN nacks : ~nacks[k].ok /\ nacks[k].rv = harq[nacks[k].proc].rv
      /\ \A p \in DoneProcs(fb) : p \in Proc /\ Active(Aged(harq[p]))
  BY HarqStepLemma
<1>5. \A p \in Proc : /\ after(p) \in Process
                      /\ Active(after(p)) <=> (Active(Aged(harq[p])) /\ p \notin DoneProcs(fb))
  BY HarqStepLemma
<1>6. \A p \in resent : p \in Proc /\ after(p).status = "WAITING_FEEDBACK" /\ after(p).timer = 0
  BY HarqStepLemma
<1>7. \A k \in HeldBack(nacks, left) :
        /\ nacks[k].proc \in Proc
        /\ nacks[k].proc \notin resent
        /\ after(nacks[k].proc).status = "WAITING_FEEDBACK"
        /\ after(nacks[k].proc).timer = 0
        /\ after(nacks[k].proc).rv = harq[nacks[k].proc].rv
  BY HarqStepLemma
<1>8. \A e \in onAir : /\ after(e.proc) = Aged(harq[e.proc])
                       /\ \A k \in DOMAIN nacks : nacks[k].proc # e.proc
  <2>1. \A e \in onAir : after(e.proc) = Aged(harq[e.proc])
    BY HarqStepLemma
  <2>2. \A e \in onAir : \A k \in DOMAIN nacks : nacks[k].proc # e.proc
    BY HarqStepLemma
  <2> QED
    BY <2>1, <2>2
<1>9. \A e \in onAir : /\ e \in Grant /\ e.proc \in Proc
                       /\ Aged(harq[e.proc]).status = "WAITING_FEEDBACK"
                       /\ Aged(harq[e.proc]).rv = e.rv
                       /\ Aged(harq[e.proc]).timer = e.age + 1
  BY OnAirLemma
<1> HIDE DEF after
<1>12. \A p \in new : [status |-> "WAITING_FEEDBACK", timer |-> 0, rv |-> 0, sym |-> size[p]]
                        \in Process
  <2> TAKE p \in new
  <2>1. size[p] \in 0 .. MaxSym
    BY <1>3
  <2> QED
    BY <2>1 DEF Process, Status
<1>13. /\ \A p \in new : /\ harq'[p].status = "WAITING_FEEDBACK"
                         /\ harq'[p].timer = 0
                         /\ harq'[p].rv = 0
       /\ \A p \in Proc \ new : harq'[p] = after(p)
  <2>1. \A p \in new : harq'[p] = [status |-> "WAITING_FEEDBACK", timer |-> 0,
                                   rv |-> 0, sym |-> size[p]]
    BY <1>1, <1>3
  <2>2. \A p \in Proc \ new : harq'[p] = after(p)
    BY <1>1
  <2>3. \A p \in new : /\ harq'[p].status = "WAITING_FEEDBACK"
                       /\ harq'[p].timer = 0
                       /\ harq'[p].rv = 0
    <3> TAKE p \in new
    <3>1. harq'[p] = [status |-> "WAITING_FEEDBACK", timer |-> 0, rv |-> 0, sym |-> size[p]]
      BY <2>1
    <3> QED
      BY <3>1
  <2> QED
    BY <2>2, <2>3
<1>14. harq' \in [Proc -> Process]
  <2>1. harq' = [p \in Proc |-> IF p \in new
                               THEN [status |-> "WAITING_FEEDBACK", timer |-> 0,
                                     rv |-> 0, sym |-> size[p]]
                               ELSE after(p)]
    BY <1>1
  <2>2. \A p \in Proc : harq'[p] \in Process
    BY <1>5, <1>12, <2>1
  <2> QED
    BY <2>1, <2>2
<1>15. \A p \in resent : p \notin new
  BY <1>3, <1>6 DEF Active
<1>16. \A e \in onAir : /\ e.proc \notin new /\ e.proc \notin resent
                        /\ e \in Grant /\ e.proc \in Proc
  <2> TAKE e \in onAir
  <2>1. e \in Grant /\ e.proc \in Proc
    BY <1>9
  <2>2. e.proc \notin new
    BY <1>3, <1>8, <1>9 DEF Active
  <2>3. e.proc \notin resent
    BY <1>8 DEF ProcsAt, Resent
  <2> QED
    BY <2>1, <2>2, <2>3
<1>17. PICK heldBack \in Kept(nacks, HeldBack(nacks, left)) : toRetx' = heldBack
  BY <1>1 DEF NewBuffer
<1>18. /\ toRetx' \in Seq(Report)
       /\ Unique(toRetx')
       /\ \A k \in DOMAIN toRetx' : \E i \in HeldBack(nacks, left) : toRetx'[k] = nacks[i]
  <2>1. HeldBack(nacks, left) \subseteq DOMAIN nacks
    BY DEF HeldBack
  <2> QED
    BY <1>4, <1>17, <2>1, KeptLemma
<1>19. \A k \in DOMAIN toRetx' :
         LET p == toRetx'[k].proc IN
           /\ p \notin new /\ p \notin resent
           /\ \A e \in onAir : e.proc # p
           /\ harq'[p].status = "WAITING_FEEDBACK"
           /\ harq'[p].timer = 0
           /\ harq'[p].rv = toRetx'[k].rv
           /\ ~toRetx'[k].ok
  <2> TAKE k \in DOMAIN toRetx'
  <2>1. PICK i \in HeldBack(nacks, left) : toRetx'[k] = nacks[i]
    BY <1>18
  <2> DEFINE p == nacks[i].proc
  <2>2. i \in DOMAIN nacks
    BY DEF HeldBack
  <2>3. /\ p \in Proc /\ p \notin resent
        /\ after(p).status = "WAITING_FEEDBACK"
        /\ after(p).timer = 0
        /\ after(p).rv = nacks[i].rv
        /\ ~nacks[i].ok
    BY <1>4, <1>7, <2>2
  <2>4. p \notin new
    BY <1>3, <2>3 DEF Active
  <2>5. \A e \in onAir : e.proc # p
    BY <1>8, <2>2
  <2>6. harq'[p] = after(p)
    BY <1>13, <2>3, <2>4
  <2> HIDE DEF resent
  <2> QED
    BY <2>1, <2>3, <2>4, <2>5, <2>6
<1>20. onAir' \subseteq Grant
  <2>1. ASSUME NEW e \in onAir
        PROVE  [proc |-> e.proc, rv |-> e.rv, age |-> e.age + 1] \in Grant
    <3>1. e.age + 1 \in 0 .. Delay /\ e.rv \in 0 .. MaxReTx /\ e.proc \in Proc
      BY <1>2, <1>16 DEF Grant
    <3> QED
      BY <3>1 DEF Grant
  <2>2. ASSUME NEW p \in new \cup resent
        PROVE  [proc |-> p, rv |-> harq'[p].rv, age |-> 0] \in Grant
    <3>1. p \in Proc /\ harq'[p] \in Process
      BY <1>3, <1>6, <1>14
    <3>2. harq'[p].rv \in 0 .. MaxReTx
      BY <3>1 DEF Process
    <3> QED
      BY <3>1, <3>2 DEF Grant
  <2> QED
    BY <1>1, <2>1, <2>2
<1>21. \A e \in onAir' :
         /\ harq'[e.proc].status = "WAITING_FEEDBACK"
         /\ harq'[e.proc].rv = e.rv
         /\ harq'[e.proc].timer = e.age
  <2> TAKE e \in onAir'
  <2>1. CASE \E f \in onAir : e = [proc |-> f.proc, rv |-> f.rv, age |-> f.age + 1]
    <3>1. PICK f \in onAir : e = [proc |-> f.proc, rv |-> f.rv, age |-> f.age + 1]
      BY <2>1
    <3>2. harq'[f.proc] = after(f.proc)
      BY <1>13, <1>16
    <3> QED
      BY <1>8, <1>9, <3>1, <3>2
  <2>2. CASE \E p \in new : e = [proc |-> p, rv |-> harq'[p].rv, age |-> 0]
    BY <1>13, <2>2
  <2>3. CASE \E p \in resent : e = [proc |-> p, rv |-> harq'[p].rv, age |-> 0]
    BY <1>6, <1>13, <1>15, <2>3
  <2> QED
    BY <1>1, <2>1, <2>2, <2>3
<1>22. OutstandingIsCurrent'
  BY <1>2, <1>19, <1>21 DEF OutstandingIsCurrent
<1>23. Exclusive'
  <2>1. ASSUME NEW e \in onAir', NEW f \in onAir', e.proc = f.proc PROVE e = f
    <3>1. /\ \/ \E g \in onAir : e = [proc |-> g.proc, rv |-> g.rv, age |-> g.age + 1]
             \/ \E p \in new \cup resent : e = [proc |-> p, rv |-> harq'[p].rv, age |-> 0]
          /\ \/ \E g \in onAir : f = [proc |-> g.proc, rv |-> g.rv, age |-> g.age + 1]
             \/ \E p \in new \cup resent : f = [proc |-> p, rv |-> harq'[p].rv, age |-> 0]
      BY <1>1
    <3>2. \A g, h \in onAir : g.proc = h.proc => g = h
      BY DEF IInv, Exclusive
    <3> HIDE DEF resent
    <3> QED
      BY <2>1, <3>1, <3>2, <1>16
  <2>2. Unique(received')
    BY <1>2 DEF Unique
  <2>3. \A e \in onAir' : \A k \in DOMAIN toRetx' : e.proc # toRetx'[k].proc
    BY <1>1, <1>19
  <2> QED
    BY <1>2, <1>18, <2>1, <2>2, <2>3 DEF Exclusive, Unique
<1>24. Young'
  BY <1>2, <1>19 DEF Young
<1>25. fatal' = FALSE
  BY <1>4, <1>nacks DEF Duplicated
<1>26. ASSUME NEW u \in UE
       PROVE  /\ usedSize'[u] = Cardinality({p \in ProcsOf(u) : Active(harq'[p])})
              /\ usedSize'[u] \in 0 .. NumHarq
  <2> DEFINE S == {p \in ProcsOf(u) : Active(harq[p])}
             E == {p \in ProcsOf(u) : Active(harq[p]) /\ ~Active(Aged(harq[p]))}
             D == DoneProcs(fb) \cap ProcsOf(u)
             W == new \cap ProcsOf(u)
             T == {p \in ProcsOf(u) : Active(harq'[p])}
  <2>1. ProcsOf(u) \subseteq Proc
    BY DEF ProcsOf
  <2>2. IsFiniteSet(S) /\ IsFiniteSet(W) /\ IsFiniteSet(T) /\ Cardinality(T) <= NumHarq
    <3>1. IsFiniteSet(ProcsOf(u)) /\ Cardinality(ProcsOf(u)) <= NumHarq
      BY SlotsFinite
    <3>2. Cardinality(T) <= Cardinality(ProcsOf(u))
      BY <3>1, FS_Subset
    <3>3. IsFiniteSet(S) /\ IsFiniteSet(W) /\ IsFiniteSet(T)
      BY <3>1, FS_Subset
    <3> QED
      BY <3>1, <3>2, <3>3, FS_CardinalityType
  <2>3. \A p \in ProcsOf(u) : Active(Aged(harq[p])) => Active(harq[p])
    BY <2>1, AgedLemma DEF IInv, TypeOK
  <2>4. E \subseteq S /\ D \subseteq S \ E
    BY <1>4, <2>3
  <2>5. \A p \in ProcsOf(u) :
          Active(after(p)) <=> (Active(Aged(harq[p])) /\ p \notin DoneProcs(fb))
    BY <1>5, <2>1
  <2>6. \A p \in ProcsOf(u) : Active(harq'[p]) <=> (p \in new \/ Active(after(p)))
    BY <1>13, <2>1 DEF Active
  <2>7. W \cap ((S \ E) \ D) = {}
    BY <1>3, <2>5
  <2>8. T = ((S \ E) \ D) \cup W
    BY <2>3, <2>5, <2>6
  <2>9. usedSize[u] = Cardinality(S)
    BY DEF IInv, UsedSizeExact
  <2>10. usedSize'[u] = Cardinality(S) - Cardinality(E) - Cardinality(D) + Cardinality(W)
    BY <1>1, <2>9 DEF ErasedSize
  <2>11. usedSize'[u] = Cardinality(T)
    <3>1. Cardinality(((S \ E) \ D) \cup W) =
            Cardinality(S) - Cardinality(E) - Cardinality(D) + Cardinality(W)
      <4> HIDE DEF S, E, D, W, T
      <4> QED
        BY <2>2, <2>4, <2>7, CountLemma
    <3> HIDE DEF S, E, D, W, T
    <3> QED
      BY <3>1, <2>8, <2>10
  <2> QED
    BY <2>2, <2>11, FS_CardinalityType
<1>27. UsedSizeExact'
  BY <1>26 DEF UsedSizeExact
<1>28. TypeOK'
  <2>1. usedSize' \in [UE -> 0 .. NumHarq]
    BY <1>1, <1>26
  <2>2. received' \in Seq(Report)
    BY <1>2
  <2> QED
    BY <1>14, <1>18, <1>20, <1>25, <2>1, <2>2 DEF TypeOK
<1> QED
  BY <1>22, <1>23, <1>24, <1>25, <1>27, <1>28 DEF IInv, NoFatal

\* Every step preserves the invariant.
LEMMA NextIInv == Delay < NumHarq /\ IInv /\ [Next]_vars => IInv'
<1> SUFFICES ASSUME Delay < NumHarq, IInv, [Next]_vars PROVE IInv'
  OBVIOUS
<1>1. ASSUME NEW e \in onAir, NEW ok \in BOOLEAN, UlHarqFeedback(e, ok) PROVE IInv'
  BY <1>1, FeedbackIInv
<1>2. ASSUME NEW e \in onAir, NothingSent(e) PROVE IInv'
  BY <1>2, NothingSentIInv
<1>3. ASSUME NEW symAvail \in SymChoices, DoSchedUlTriggerReq(symAvail) PROVE IInv'
  BY <1>3, TriggerIInv
<1>4. CASE UNCHANGED vars
  BY <1>4 DEF vars, IInv, TypeOK, OutstandingIsCurrent, NoFatal, Exclusive, Young, UsedSizeExact
<1> QED
  BY <1>1, <1>2, <1>3, <1>4 DEF Next

-----------------------------------------------------------------------------

\* Type correctness of the uplink HARQ state.
THEOREM TypeCorrect ==
  ASSUME Delay < NumHarq
  PROVE  Spec => []TypeOK
<1>1. IInv /\ [Next]_vars => IInv'
  BY NextIInv
<1>2. IInv => TypeOK
  BY DEF IInv
<1> QED
  BY <1>1, <1>2, InitIInv, PTL DEF Spec

\* No report is ever about another block than the one its process holds
\* (DoSchedUlTriggerReq, ProcessHARQFeedbacks), provided that reports come back
\* in fewer triggers than there are processes.
THEOREM ReportsAreCurrent ==
  ASSUME Delay < NumHarq
  PROVE  Spec => []OutstandingIsCurrent
<1>1. IInv /\ [Next]_vars => IInv'
  BY NextIInv
<1>2. IInv => OutstandingIsCurrent
  BY DEF IInv
<1> QED
  BY <1>1, <1>2, InitIInv, PTL DEF Spec

\* The NS_FATAL_ERROR of ProcessHARQFeedbacks and the NS_ASSERT of
\* ScheduleUlHarq are unreachable under the same condition.
THEOREM FatalUnreachable ==
  ASSUME Delay < NumHarq
  PROVE  Spec => []NoFatal
<1>1. IInv /\ [Next]_vars => IInv'
  BY NextIInv
<1>2. IInv => NoFatal
  BY DEF IInv
<1> QED
  BY <1>1, <1>2, InitIInv, PTL DEF Spec

\* m_usedSize counts the active processes: the NS_ASSERT of
\* NrMacHarqVector::Erase holds under the same condition.
THEOREM CountIsExact ==
  ASSUME Delay < NumHarq
  PROVE  Spec => []UsedSizeExact
<1>1. IInv /\ [Next]_vars => IInv'
  BY NextIInv
<1>2. IInv => UsedSizeExact
  BY DEF IInv
<1> QED
  BY <1>1, <1>2, InitIInv, PTL DEF Spec

-----------------------------------------------------------------------------

\* The loops that keep elements of a list drop none of those they are to keep.
LEMMA KeptAll ==
  ASSUME NEW s \in Seq(Report), NEW I, I \subseteq DOMAIN s, NEW t \in Kept(s, I)
  PROVE  \A i \in I : \E k \in DOMAIN t : t[k] = s[i]
<1> DEFINE n == Cardinality(I)
<1>1. IsFiniteSet(I)
  <2>1. DOMAIN s = 1 .. Len(s) /\ Len(s) \in Nat
    OBVIOUS
  <2>2. IsFiniteSet(1 .. Len(s))
    BY <2>1, FS_Interval
  <2> QED
    BY <2>1, <2>2, FS_Subset
<1>2. n \in Nat
  BY <1>1, FS_CardinalityType
<1>3. PICK f \in [1 .. n -> I] :
        /\ \A j, k \in 1 .. n : j < k => f[j] < f[k]
        /\ t = [k \in 1 .. n |-> s[f[k]]]
  BY DEF Kept
<1>4. Cardinality(1 .. n) = n
  BY <1>2, FS_Interval
<1> HIDE DEF n
<1>5. \A k \in 1 .. n : f[k] \in I /\ f[k] \in Nat
  BY <1>3
<1>6. f \in Injection(1 .. n, I)
  <2>1. ASSUME NEW j \in 1 .. n, NEW k \in 1 .. n, f[j] = f[k] PROVE j = k
    BY <1>2, <1>3, <1>5, <2>1
  <2> QED
    BY <1>3, <2>1 DEF Injection, IsInjective
<1>7. f \in Surjection(1 .. n, I)
  BY <1>1, <1>4, <1>6, FS_Injection DEF n
<1>8. \A i \in I : \E k \in 1 .. n : f[k] = i
  BY <1>7 DEF Surjection
<1> QED
  BY <1>3, <1>8

\* Nor does an element move away from the front.
LEMMA KeptMovesUp ==
  ASSUME NEW s \in Seq(Report), NEW I, I \subseteq DOMAIN s, NEW t \in Kept(s, I)
  PROVE  \A k \in DOMAIN t : \E i \in I : t[k] = s[i] /\ k <= i
<1> DEFINE n == Cardinality(I)
<1>1. DOMAIN s = 1 .. Len(s) /\ Len(s) \in Nat
  OBVIOUS
<1>2. n \in Nat
  <2>1. IsFiniteSet(1 .. Len(s))
    BY <1>1, FS_Interval
  <2> QED
    BY <1>1, <2>1, FS_Subset, FS_CardinalityType
<1>3. PICK f \in [1 .. n -> I] :
        /\ \A j, k \in 1 .. n : j < k => f[j] < f[k]
        /\ t = [k \in 1 .. n |-> s[f[k]]]
  BY DEF Kept
<1> HIDE DEF n
<1>4. \A k \in 1 .. n : f[k] \in I /\ f[k] \in Nat /\ f[k] >= 1
  BY <1>1, <1>3
<1>5. ASSUME NEW k \in 1 .. n PROVE k <= f[k]
  <2> DEFINE g == [j \in 1 .. k |-> f[j]]
  <2>1. k \in Nat /\ f[k] \in Nat /\ \A j \in 1 .. k : j \in 1 .. n
    BY <1>2, <1>4
  <2>2. \A j \in 1 .. k : g[j] = f[j] /\ g[j] \in 1 .. f[k]
    <3> TAKE j \in 1 .. k
    <3>1. j \in 1 .. n /\ (j = k \/ j < k)
      BY <2>1
    <3>2. f[j] <= f[k]
      BY <1>3, <1>4, <3>1
    <3> QED
      BY <1>4, <3>1, <3>2
  <2>3. \A i, j \in 1 .. k : g[i] = g[j] => i = j
    <3> SUFFICES ASSUME NEW i \in 1 .. k, NEW j \in 1 .. k, g[i] = g[j], i # j
                 PROVE  FALSE
      OBVIOUS
    <3>1. i \in 1 .. n /\ j \in 1 .. n /\ (i < j \/ j < i) /\ f[i] = f[j]
      BY <2>1
    <3> QED
      BY <1>3, <1>4, <3>1
  <2>4. g \in Injection(1 .. k, 1 .. f[k])
    <3>1. g \in [1 .. k -> 1 .. f[k]] /\ DOMAIN g = 1 .. k
      BY <2>2
    <3> HIDE DEF g
    <3> QED
      BY <2>3, <3>1 DEF Injection, IsInjective
  <2> HIDE DEF g
  <2>5. /\ IsFiniteSet(1 .. f[k])
        /\ Cardinality(1 .. k) = k
        /\ Cardinality(1 .. f[k]) = f[k]
    BY <2>1, FS_Interval
  <2> QED
    BY <2>4, <2>5, FS_Injection
<1>6. DOMAIN t = 1 .. n /\ \A k \in 1 .. n : t[k] = s[f[k]]
  BY <1>3
<1> QED
  BY <1>4, <1>5, <1>6

OnAir(p) == \E e \in onAir : e.proc = p

Reported(p) == \E r \in Reports : r.proc = p

\* What the phase of a process says of the lists.
PhaseMeans ==
  \A p \in Proc :
    /\ PhaseOf(p) \in {"free", "sent", "acked", "nacked", "silent"}
    /\ Tries(p) \in 0 .. MaxReTx + 1
    /\ \A e \in onAir : e.proc = p => PhaseOf(p) = "sent" /\ Tries(p) = e.rv + 1
    /\ \A r \in Reports :
         r.proc = p => /\ PhaseOf(p) = IF r.ok THEN "acked" ELSE "nacked"
                       /\ Tries(p) = r.rv + 1
    /\ ~OnAir(p) /\ ~Reported(p) =>
         PhaseOf(p) = IF Active(harq[p]) THEN "silent" ELSE "free"
    /\ Active(harq[p]) => Tries(p) = harq[p].rv + 1

LEMMA PhaseLemma == IInv => PhaseMeans
<1> SUFFICES ASSUME IInv, NEW p \in Proc
             PROVE  /\ PhaseOf(p) \in {"free", "sent", "acked", "nacked", "silent"}
                    /\ Tries(p) \in 0 .. MaxReTx + 1
                    /\ \A e \in onAir : e.proc = p => /\ PhaseOf(p) = "sent"
                                                      /\ Tries(p) = e.rv + 1
                    /\ \A r \in Reports :
                         r.proc = p => /\ PhaseOf(p) = IF r.ok THEN "acked" ELSE "nacked"
                                       /\ Tries(p) = r.rv + 1
                    /\ ~OnAir(p) /\ ~Reported(p) =>
                         PhaseOf(p) = IF Active(harq[p]) THEN "silent" ELSE "free"
                    /\ Active(harq[p]) => Tries(p) = harq[p].rv + 1
  BY DEF PhaseMeans
<1> USE HarqAssumption
<1>1. harq[p].rv \in 0 .. MaxReTx
  BY DEF IInv, TypeOK, Process
<1>2. PhaseOf(p) \in {"free", "sent", "acked", "nacked", "silent"}
  BY DEF PhaseOf
<1>3. Tries(p) \in 0 .. MaxReTx + 1 /\ (Active(harq[p]) => Tries(p) = harq[p].rv + 1)
  BY <1>1 DEF Tries
<1>4. ASSUME NEW e \in onAir, e.proc = p PROVE PhaseOf(p) = "sent" /\ Tries(p) = e.rv + 1
  <2>1. Active(harq[p]) /\ harq[p].rv = e.rv
    BY <1>4 DEF IInv, OutstandingIsCurrent, Active
  <2> QED
    BY <1>4, <2>1 DEF PhaseOf, Tries
<1>5. ASSUME NEW r \in Reports, r.proc = p
      PROVE  /\ PhaseOf(p) = IF r.ok THEN "acked" ELSE "nacked"
             /\ Tries(p) = r.rv + 1
  <2>1. \/ \E k \in DOMAIN received : r = received[k]
        \/ \E k \in DOMAIN toRetx : r = toRetx[k]
    BY DEF Reports, Range
  <2>2. Active(harq[p]) /\ harq[p].rv = r.rv
    BY <1>5, <2>1 DEF IInv, OutstandingIsCurrent, Active
  <2>3. ~\E e \in onAir : e.proc = p
    BY <1>5, <2>1 DEF IInv, Exclusive
  <2>4. \A q \in Reports : q.proc = p => q = r
    BY <1>5, <2>1 DEF IInv, Exclusive, Unique, Reports, Range
  <2> QED
    BY <1>5, <2>2, <2>3, <2>4 DEF PhaseOf, Tries
<1>6. ~OnAir(p) /\ ~Reported(p) => PhaseOf(p) = IF Active(harq[p]) THEN "silent" ELSE "free"
  BY DEF PhaseOf, OnAir, Reported
<1> QED
  BY <1>2, <1>3, <1>4, <1>5, <1>6

\* A step of the abstract specification on one process, in terms of the lists.
LEMMA BecomesLemma ==
  ASSUME NEW p \in Proc
  PROVE  /\ \A ph, n : PhaseOf(p)' = ph /\ Tries(p)' = n => Blocks!Becomes(p, ph, n)
         /\ PhaseOf(p)' = PhaseOf(p) /\ Tries(p)' = Tries(p) => Blocks!Stays(p)
  BY DEF Blocks!Becomes, Blocks!Stays

\* A report, or a block of which none will come, is the answer to the last
\* transmission of its process and of no other.
LEMMA ReportIsAnswer ==
  ASSUME IInv, PhaseMeans, PhaseMeans', NEW e \in onAir,
         NothingSent(e) \/ \E ok \in BOOLEAN : UlHarqFeedback(e, ok)
  PROVE  Blocks!Answer
<1>1. /\ onAir' = onAir \ {e}
      /\ UNCHANGED <<harq, toRetx>>
  BY DEF NothingSent, UlHarqFeedback
<1>2. e.proc \in Proc
  BY DEF IInv, TypeOK, Grant
<1>3. \/ Reports' = Reports
      \/ \E ok \in BOOLEAN : Reports' = Reports \cup {[proc |-> e.proc, rv |-> e.rv, ok |-> ok]}
  <2>1. CASE NothingSent(e)
    BY <2>1 DEF NothingSent, Reports
  <2>2. ASSUME NEW ok \in BOOLEAN, UlHarqFeedback(e, ok)
        PROVE  Reports' = Reports \cup {[proc |-> e.proc, rv |-> e.rv, ok |-> ok]}
    <3> DEFINE r == [proc |-> e.proc, rv |-> e.rv, ok |-> ok]
               n == Len(received)
    <3>1. e \in Grant /\ received \in Seq(Report) /\ n \in Nat /\ DOMAIN received = 1 .. n
      BY DEF IInv, TypeOK
    <3>2. r \in Report
      BY <3>1 DEF Report, Grant
    <3>3. /\ DOMAIN received' = 1 .. n + 1
          /\ \A k \in 1 .. n : received'[k] = received[k]
          /\ received'[n + 1] = r
          /\ toRetx' = toRetx
      BY <2>2, <3>1, <3>2 DEF UlHarqFeedback
    <3> HIDE DEF r, n
    <3>4. \A k \in 1 .. n + 1 : k \in 1 .. n \/ k = n + 1
      BY <3>1
    <3>5. \A k \in 1 .. n : k \in 1 .. n + 1
      BY <3>1
    <3>6. n + 1 \in 1 .. n + 1
      BY <3>1
    <3>7. Range(received') = Range(received) \cup {r}
      BY <3>1, <3>3, <3>4, <3>5, <3>6 DEF Range
    <3> QED
      BY <3>3, <3>7 DEF Reports, r
  <2> QED
    BY <2>1, <2>2
<1>4. \A f \in onAir : f.proc = e.proc => f = e
  BY DEF IInv, Exclusive
<1>5. PhaseOf(e.proc) = "sent" /\ Active(harq[e.proc])
  BY <1>2 DEF PhaseMeans, IInv, OutstandingIsCurrent, Active
<1>6. Tries(e.proc)' = Tries(e.proc)
  BY <1>1 DEF Tries
<1>7. PhaseOf(e.proc)' \in {"acked", "nacked", "silent"}
  BY <1>1, <1>4, <1>5 DEF PhaseOf
<1>8. ASSUME NEW q \in Proc \ {e.proc} PROVE PhaseOf(q)' = PhaseOf(q) /\ Tries(q)' = Tries(q)
  <2>1. (\E f \in onAir' : f.proc = q) <=> \E f \in onAir : f.proc = q
    BY <1>1
  <2>2. (\E r \in Reports' : r.proc = q /\ r.ok) <=> \E r \in Reports : r.proc = q /\ r.ok
    BY <1>3
  <2>3. (\E r \in Reports' : r.proc = q) <=> \E r \in Reports : r.proc = q
    BY <1>3
  <2> QED
    BY <1>1, <2>1, <2>2, <2>3 DEF PhaseOf, Tries
<1>9. \A q \in Proc \ {e.proc} : Blocks!Stays(q)
  BY <1>8, BecomesLemma
<1>10. Blocks!Becomes(e.proc, PhaseOf(e.proc)', Tries(e.proc))
  BY <1>2, <1>6, BecomesLemma
<1> QED
  BY <1>2, <1>5, <1>7, <1>9, <1>10 DEF Blocks!Answer

\* A trigger does to every process what a round may do: the expired, the
\* decoded and the exhausted are closed or reused, a NACK is answered by a new
\* transmission, kept, or forgotten, and a process on the air is left alone.
LEMMA TriggerIsRound ==
  ASSUME IInv, PhaseMeans, IInv', PhaseMeans', Delay < NumHarq,
         NEW symAvail \in SymChoices, DoSchedUlTriggerReq(symAvail)
  PROVE  Blocks!Round
<1> USE HarqAssumption
<1>fb. PICK fb \in Kept(Merged, ActiveReports) :
      \E nacks \in Kept(fb, Nacked(fb)) : ScheduleUl(fb, nacks, Left(nacks, symAvail))
  BY DEF DoSchedUlTriggerReq
<1>nacks. PICK nacks \in Kept(fb, Nacked(fb)) : ScheduleUl(fb, nacks, Left(nacks, symAvail))
  BY <1>fb
<1>left. PICK left : ScheduleUl(fb, nacks, left)
  BY <1>nacks
<1> DEFINE resent == ProcsAt(nacks, Resent(nacks, left))
           held == ProcsAt(nacks, HeldBack(nacks, left))
           after(p) == AfterHarq(p, fb, nacks, left)
           Sched(new, size) ==
             /\ harq' = [p \in Proc |->
                           IF p \in new
                           THEN [status |-> "WAITING_FEEDBACK", timer |-> 0,
                                 rv |-> 0, sym |-> size[p]]
                           ELSE after(p)]
             /\ onAir' = {[proc |-> e.proc, rv |-> e.rv, age |-> e.age + 1] : e \in onAir} \cup
                         {[proc |-> p, rv |-> harq'[p].rv, age |-> 0] : p \in new \cup resent}
             /\ \E heldBack \in Kept(nacks, HeldBack(nacks, left)) : toRetx' = NewBuffer(heldBack)
<1>new. PICK new \in NewGrants(fb, nacks, left) :
      \E size \in Shares(new, left[Len(nacks)]) : Sched(new, size)
  BY <1>left DEF ScheduleUl
<1>1. PICK size \in Shares(new, left[Len(nacks)]) : Sched(new, size)
  BY <1>new
<1>2. new \subseteq Proc /\ \A p \in new : ~Active(after(p))
  BY DEF NewGrants
<1>3. /\ nacks \in Seq(Report) /\ Unique(nacks)
      /\ \A p \in Proc :
           Active(after(p)) <=> (Active(Aged(harq[p])) /\ p \notin DoneProcs(fb))
  BY HarqStepLemma
<1>4. \A p \in resent : Active(after(p))
  <2>1. \A p \in resent : after(p).status = "WAITING_FEEDBACK"
    BY HarqStepLemma
  <2> HIDE DEF after, resent
  <2> QED
    BY <2>1 DEF Active
<1>5. /\ Merged \in Seq(Report)
      /\ Unique(Merged)
      /\ \A k \in DOMAIN Merged :
           LET h == harq[Merged[k].proc]
           IN  /\ h \in Process
               /\ h.status = "WAITING_FEEDBACK"
               /\ h.rv = Merged[k].rv
               /\ h.timer < NumHarq
               /\ \A e \in onAir : e.proc # Merged[k].proc
  BY MergedLemma
<1>6. Range(Merged) = Reports
  <2> DEFINE m == Len(toRetx)
             n == Len(received)
  <2>1. /\ toRetx \in Seq(Report) /\ m \in Nat /\ DOMAIN toRetx = 1 .. m
        /\ received \in Seq(Report) /\ n \in Nat /\ DOMAIN received = 1 .. n
    BY DEF IInv, TypeOK
  <2>2. /\ DOMAIN Merged = 1 .. m + n
        /\ \A k \in 1 .. m : Merged[k] = toRetx[k]
        /\ \A k \in m + 1 .. m + n : Merged[k] = received[k - m]
    BY <2>1 DEF Merged
  <2> HIDE DEF m, n
  <2>3. \A k \in 1 .. m + n : k \in 1 .. m \/ (k \in m + 1 .. m + n /\ k - m \in 1 .. n)
    BY <2>1
  <2>4. Range(Merged) \subseteq Reports
    BY <2>1, <2>2, <2>3 DEF Range, Reports
  <2>5. \A k \in 1 .. m : k \in 1 .. m + n
    BY <2>1
  <2>6. \A k \in 1 .. n : k + m \in m + 1 .. m + n /\ k + m \in 1 .. m + n /\ (k + m) - m = k
    BY <2>1
  <2>7. Range(toRetx) \subseteq Range(Merged)
    BY <2>1, <2>2, <2>5 DEF Range
  <2>8. Range(received) \subseteq Range(Merged)
    <3> SUFFICES ASSUME NEW k \in 1 .. n PROVE received[k] \in Range(Merged)
      BY <2>1 DEF Range
    <3>1. Merged[k + m] = received[k] /\ k + m \in DOMAIN Merged
      BY <2>2, <2>6
    <3> QED
      BY <3>1 DEF Range
  <2> QED
    BY <2>4, <2>7, <2>8 DEF Reports
<1>7. /\ fb \in Seq(Report)
      /\ \A k \in DOMAIN fb : fb[k] \in Range(Merged)
      /\ \A i \in ActiveReports : \E k \in DOMAIN fb : fb[k] = Merged[i]
  <2>1. ActiveReports \subseteq DOMAIN Merged
    BY DEF ActiveReports
  <2>2. /\ fb \in Seq(Report)
        /\ \A k \in DOMAIN fb : \E i \in ActiveReports : fb[k] = Merged[i]
    BY <1>5, <2>1, KeptLemma
  <2>3. \A i \in ActiveReports : \E k \in DOMAIN fb : fb[k] = Merged[i]
    BY <1>5, <2>1, KeptAll
  <2> QED
    BY <2>1, <2>2, <2>3 DEF Range
<1>8. /\ \A i \in DOMAIN nacks : nacks[i] \in Range(Merged)
      /\ \A k \in DOMAIN fb : ~Done(fb[k]) => \E i \in DOMAIN nacks : nacks[i] = fb[k]
  <2>1. Nacked(fb) \subseteq DOMAIN fb
    BY DEF Nacked
  <2>2. \A i \in DOMAIN nacks : \E k \in Nacked(fb) : nacks[i] = fb[k]
    BY <1>7, <2>1, KeptLemma
  <2>3. \A k \in Nacked(fb) : \E i \in DOMAIN nacks : nacks[i] = fb[k]
    BY <1>7, <2>1, KeptAll
  <2> QED
    BY <1>7, <2>1, <2>2, <2>3 DEF Nacked
<1>9. PICK heldBack \in Kept(nacks, HeldBack(nacks, left)) : toRetx' = heldBack
  BY <1>1 DEF NewBuffer
<1>10. Reports' = {nacks[i] : i \in HeldBack(nacks, left)}
  <2>1. HeldBack(nacks, left) \subseteq DOMAIN nacks
    BY DEF HeldBack
  <2>2. \A k \in DOMAIN heldBack : \E i \in HeldBack(nacks, left) : heldBack[k] = nacks[i]
    BY <1>3, <2>1, KeptLemma
  <2>3. \A i \in HeldBack(nacks, left) : \E k \in DOMAIN heldBack : heldBack[k] = nacks[i]
    BY <1>3, <2>1, KeptAll
  <2>4. received' = <<>>
    BY DEF DoSchedUlTriggerReq
  <2>5. Range(received') = {}
    BY <2>4 DEF Range
  <2>6. Range(toRetx') = {nacks[i] : i \in HeldBack(nacks, left)}
    BY <1>9, <2>2, <2>3 DEF Range
  <2> QED
    BY <2>5, <2>6 DEF Reports
<1>11. /\ \A p : OnAir(p)' <=> OnAir(p) \/ p \in new \/ p \in resent
       /\ \A e \in onAir : \E f \in onAir' : f.proc = e.proc /\ f.rv = e.rv
       /\ \A p \in new \cup resent : \E f \in onAir' : f.proc = p /\ f.rv = harq'[p].rv
  <2> DEFINE old == {[proc |-> e.proc, rv |-> e.rv, age |-> e.age + 1] : e \in onAir}
             fresh == {[proc |-> p, rv |-> harq'[p].rv, age |-> 0] : p \in new \cup resent}
  <2>1. onAir' = old \cup fresh
    BY <1>1
  <2>2. \A e \in onAir : \E f \in old : f.proc = e.proc /\ f.rv = e.rv
    <3> TAKE e \in onAir
    <3> WITNESS [proc |-> e.proc, rv |-> e.rv, age |-> e.age + 1] \in old
    <3> QED
      OBVIOUS
  <2>3. \A p \in new \cup resent : \E f \in fresh : f.proc = p /\ f.rv = harq'[p].rv
    <3> HIDE DEF resent
    <3> TAKE p \in new \cup resent
    <3> WITNESS [proc |-> p, rv |-> harq'[p].rv, age |-> 0] \in fresh
    <3> QED
      OBVIOUS
  <2>4. (\A f \in old : OnAir(f.proc)) /\ \A f \in fresh : f.proc \in new \cup resent
    <3> HIDE DEF resent
    <3> QED
      BY DEF OnAir
  <2> HIDE DEF old, fresh, resent
  <2> QED
    BY <2>1, <2>2, <2>3, <2>4 DEF OnAir
<1>12. \A p \in Proc : harq'[p] = IF p \in new
                                  THEN [status |-> "WAITING_FEEDBACK", timer |-> 0,
                                        rv |-> 0, sym |-> size[p]]
                                  ELSE after(p)
  BY <1>1
<1>13. \A r \in Reports : /\ r.proc \in Proc
                          /\ ~OnAir(r.proc)
                          /\ r.rv \in 0 .. MaxReTx
                          /\ Aged(harq[r.proc]).rv = r.rv
                          /\ \E i \in ActiveReports : Merged[i] = r
  <2> TAKE r \in Reports
  <2>1. PICK k \in DOMAIN Merged : r = Merged[k]
    BY <1>6 DEF Range
  <2> DEFINE h == harq[r.proc]
  <2>2. r \in Report
    BY <1>5, <2>1, LenProperties, ElementOfSeq
  <2>3. h \in Process /\ h.status = "WAITING_FEEDBACK" /\ h.rv = r.rv /\ h.timer < NumHarq
    BY <1>5, <2>1
  <2>4. ~OnAir(r.proc)
    BY <1>5, <2>1 DEF OnAir
  <2> HIDE DEF h
  <2>5. Active(h)
    BY <2>3 DEF Active
  <2>6. Aged(h) = [status |-> h.status, timer |-> h.timer + 1, rv |-> h.rv, sym |-> h.sym]
    BY <2>3, <2>5, AgedLemma
  <2>7. Active(Aged(h)) /\ Aged(h).rv = r.rv
    BY <2>3, <2>6 DEF Active
  <2> QED
    BY <2>1, <2>2, <2>4, <2>7 DEF h, ActiveReports, Report
<1>14. ASSUME NEW p \in Proc, ~Active(after(p)) PROVE Blocks!Over(p)
  <2>1. CASE p \in DoneProcs(fb)
    <3>1. PICK k \in DOMAIN fb : fb[k].proc = p /\ Done(fb[k])
      BY <2>1 DEF DoneProcs
    <3>2. fb[k] \in Reports
      BY <1>6, <1>7
    <3>3. fb[k].ok \/ fb[k].rv = MaxReTx
      BY <1>13, <3>1, <3>2 DEF Done
    <3>4. PhaseOf(p) = "acked" \/ (PhaseOf(p) = "nacked" /\ Tries(p) = MaxReTx + 1)
      BY <3>1, <3>2, <3>3 DEF PhaseMeans
    <3> QED
      BY <3>4 DEF Blocks!Over
  <2>2. CASE ~Active(Aged(harq[p]))
    <3>1. ~OnAir(p)
      BY <2>2, OnAirLemma DEF OnAir, Active
    <3>2. ~Reported(p)
      BY <1>13, <2>2 DEF Reported, ActiveReports
    <3>3. PhaseOf(p) \in {"free", "silent"}
      BY <3>1, <3>2 DEF PhaseMeans
    <3> QED
      BY <3>3 DEF Blocks!Over
  <2> QED
    BY <1>3, <1>14, <2>1, <2>2
<1>15. ASSUME NEW p \in new PROVE Blocks!Begin(p)
  <2>1. p \in Proc /\ Blocks!Over(p)
    BY <1>2, <1>14
  <2>2. harq'[p].rv = 0
    <3>1. harq'[p] = [status |-> "WAITING_FEEDBACK", timer |-> 0, rv |-> 0, sym |-> size[p]]
      BY <1>12, <2>1
    <3> QED
      BY <3>1
  <2>3. PhaseOf(p)' = "sent" /\ Tries(p)' = 1
    BY <1>11, <2>1, <2>2 DEF PhaseMeans
  <2> QED
    BY <2>1, <2>3, BecomesLemma DEF Blocks!Begin
<1>16. ASSUME NEW p \in Proc \ new, ~Active(after(p)) PROVE Blocks!Close(p)
  <2>1. Blocks!Over(p)
    BY <1>14, <1>16
  <2>2. ~Active(harq[p])'
    BY <1>12, <1>16
  <2>3. PhaseOf(p)' = "free" /\ Tries(p)' = 0
    BY <2>2 DEF PhaseOf, Tries
  <2> QED
    BY <2>1, <2>3, BecomesLemma DEF Blocks!Close
<1>17. ASSUME NEW p \in Proc \ new, OnAir(p) PROVE Blocks!Wait(p)
  <2>1. PICK e \in onAir : e.proc = p
    BY <1>17 DEF OnAir
  <2>2. PICK f \in onAir' : f.proc = p /\ f.rv = e.rv
    BY <1>11, <2>1
  <2>3. PhaseOf(p) = "sent" /\ Tries(p) = e.rv + 1
    BY <2>1 DEF PhaseMeans
  <2>4. PhaseOf(p)' = "sent" /\ Tries(p)' = e.rv + 1
    BY <2>2 DEF PhaseMeans
  <2> QED
    BY <2>3, <2>4, BecomesLemma DEF Blocks!Wait
<1>18. ASSUME NEW p \in Proc \ new, Reported(p), Active(after(p))
       PROVE  Blocks!Wait(p) \/ Blocks!Resend(p) \/ Blocks!Drop(p)
  <2>1. PICK r \in Reports : r.proc = p
    BY <1>18 DEF Reported
  <2>2. PICK k \in DOMAIN fb : fb[k] = r
    BY <1>7, <1>13
  <2>3. ~Done(r) /\ p \notin DoneProcs(fb)
    BY <1>3, <1>18, <2>1, <2>2 DEF DoneProcs
  <2>4. PICK i \in DOMAIN nacks : nacks[i] = r
    BY <1>8, <2>2, <2>3
  <2>5. \A j \in DOMAIN nacks : nacks[j].proc = p => j = i
    BY <1>3, <2>1, <2>4 DEF Unique
  <2>6. ~r.ok /\ r.rv # MaxReTx /\ r.rv \in 0 .. MaxReTx /\ Aged(harq[p]).rv = r.rv /\ ~OnAir(p)
    BY <1>13, <2>1, <2>3 DEF Done
  <2>7. PhaseOf(p) = "nacked" /\ Tries(p) = r.rv + 1
    BY <2>1, <2>6 DEF PhaseMeans
  <2>8. Blocks!MayRetry(p)
    BY <2>6, <2>7 DEF Blocks!MayRetry
  <2>9. harq'[p] = after(p)
    BY <1>12
  <2>10. CASE p \in resent
    <3>1. after(p) = [status |-> "WAITING_FEEDBACK", timer |-> ServedTimer(Aged(harq[p])),
                      rv |-> Aged(harq[p]).rv + 1, sym |-> Aged(harq[p]).sym]
      BY <2>3, <2>10 DEF AfterHarq
    <3>2. harq'[p].rv = r.rv + 1
      BY <2>6, <2>9, <3>1
    <3>3. PhaseOf(p)' = "sent" /\ Tries(p)' = Tries(p) + 1
      BY <1>11, <2>7, <2>10, <3>2 DEF PhaseMeans
    <3> QED
      BY <2>8, <3>3, BecomesLemma DEF Blocks!Resend
  <2>11. CASE p \in held
    <3>1. i \in HeldBack(nacks, left)
      BY <2>5, <2>11 DEF ProcsAt, HeldBack
    <3>2. r \in Reports'
      BY <1>10, <2>4, <3>1
    <3>3. PhaseOf(p)' = "nacked" /\ Tries(p)' = r.rv + 1
      BY <2>1, <2>6, <3>2 DEF PhaseMeans
    <3> QED
      BY <2>7, <2>8, <3>3, BecomesLemma DEF Blocks!Wait
  <2>12. CASE p \notin resent /\ p \notin held
    <3>1. p \in ProcsAt(nacks, DOMAIN nacks)
      BY <2>1, <2>4 DEF ProcsAt
    <3>2. after(p) = [status |-> "RECEIVED_FEEDBACK", timer |-> Aged(harq[p]).timer,
                      rv |-> Aged(harq[p]).rv, sym |-> Aged(harq[p]).sym]
      BY <2>3, <2>12, <3>1 DEF AfterHarq
    <3>3. Active(harq[p])' /\ harq'[p].rv = r.rv
      BY <2>6, <2>9, <3>2 DEF Active
    <3>4. ~OnAir(p)'
      BY <1>11, <2>6, <2>12
    <3>5. ~Reported(p)'
      BY <1>10, <2>12 DEF Reported, ProcsAt
    <3>6. PhaseOf(p)' = "silent" /\ Tries(p)' = r.rv + 1
      BY <3>3, <3>4, <3>5 DEF PhaseMeans
    <3> QED
      BY <2>7, <2>8, <3>6, BecomesLemma DEF Blocks!Drop
  <2> QED
    BY <2>10, <2>11, <2>12
<1>19. ASSUME NEW p \in Proc \ new, ~OnAir(p), ~Reported(p), Active(after(p))
       PROVE  Blocks!Wait(p)
  <2>1. \A i \in DOMAIN nacks : nacks[i].proc # p
    BY <1>6, <1>8, <1>19 DEF Reported
  <2>2. p \notin resent /\ p \notin held /\ p \notin ProcsAt(nacks, DOMAIN nacks)
    BY <2>1 DEF ProcsAt, Resent, HeldBack
  <2>3. p \notin DoneProcs(fb)
    BY <1>3, <1>19
  <2>4. after(p) = Aged(harq[p])
    BY <2>2, <2>3 DEF AfterHarq
  <2>5. harq[p] \in Process
    BY DEF IInv, TypeOK
  <2>6. Active(harq[p]) /\ Active(harq[p])' /\ harq'[p].rv = harq[p].rv
    <3>1. Active(Aged(harq[p])) /\ harq'[p] = Aged(harq[p])
      BY <1>12, <1>19, <2>4
    <3> QED
      BY <2>5, <3>1, AgedLemma
  <2>7. PhaseOf(p) = "silent" /\ Tries(p) = harq[p].rv + 1
    BY <1>19, <2>6 DEF PhaseMeans
  <2>8. ~OnAir(p)'
    BY <1>11, <1>19, <2>2
  <2>9. ~Reported(p)'
    BY <1>10, <2>1 DEF Reported, HeldBack
  <2>10. PhaseOf(p)' = "silent" /\ Tries(p)' = harq[p].rv + 1
    BY <2>6, <2>8, <2>9 DEF PhaseMeans
  <2> QED
    BY <2>7, <2>10, BecomesLemma DEF Blocks!Wait
<1> HIDE DEF after
<1> QED
  BY <1>15, <1>16, <1>17, <1>18, <1>19 DEF Blocks!Round

\* Every step of the uplink HARQ is a step of the abstract specification.
LEMMA StepIsStopAndWait ==
  ASSUME IInv, PhaseMeans, IInv', PhaseMeans', Delay < NumHarq, [Next]_vars
  PROVE  [Blocks!Next]_<<[p \in Proc |-> PhaseOf(p)], [p \in Proc |-> Tries(p)]>>
<1>1. ([p \in Proc |-> PhaseOf(p)])' \in [Proc -> Blocks!Phase]
  BY DEF PhaseMeans, Blocks!Phase
<1>2. ([p \in Proc |-> Tries(p)])' \in [Proc -> 0 .. MaxReTx + 1]
  BY DEF PhaseMeans
<1>3. ASSUME Blocks!Answer \/ Blocks!Round PROVE Blocks!Next
  BY <1>1, <1>2, <1>3 DEF Blocks!Next
<1>4. ASSUME NEW e \in onAir, NothingSent(e) \/ \E ok \in BOOLEAN : UlHarqFeedback(e, ok)
      PROVE  Blocks!Next
  BY <1>3, <1>4, ReportIsAnswer
<1>5. ASSUME NEW symAvail \in SymChoices, DoSchedUlTriggerReq(symAvail) PROVE Blocks!Next
  BY <1>3, <1>5, TriggerIsRound
<1>6. CASE UNCHANGED vars
  BY <1>6 DEF vars, PhaseOf, Tries, Reports
<1> QED
  BY <1>4, <1>5, <1>6 DEF Next

\* The uplink HARQ implements StopAndWait: in every trigger, what expiry,
\* ProcessHARQFeedbacks, ScheduleUlHarq and the new grants do together frees,
\* reuses or sends again no process whose block may still be answered, and
\* gives no block more than 1 + MaxReTx transmissions (DoSchedUlTriggerReq).
THEOREM HarqIsStopAndWait ==
  ASSUME Delay < NumHarq
  PROVE  Spec => ImplementsStopAndWait
<1>1. IInv /\ [Next]_vars => IInv'
  BY NextIInv
<1>2. Init => Blocks!Init
  BY DEF Init, Blocks!Init, PhaseOf, Tries, Active, Idle
<1>3. IInv => PhaseMeans
  BY PhaseLemma
<1>4. IInv /\ PhaseMeans /\ IInv' /\ PhaseMeans' /\ [Next]_vars
        => [Blocks!Next]_<<[p \in Proc |-> PhaseOf(p)], [p \in Proc |-> Tries(p)]>>
  BY StepIsStopAndWait
<1> QED
  BY <1>1, <1>2, <1>3, <1>4, InitIInv, PTL DEF Spec, ImplementsStopAndWait, Blocks!Spec

\* The erasures of a trigger move a buffered report towards the front.
LEMMA TriggerKeepsTurn ==
  ASSUME IInv, Delay < NumHarq, NEW symAvail \in SymChoices, DoSchedUlTriggerReq(symAvail),
         NEW j \in DOMAIN toRetx, NEW k \in DOMAIN toRetx', toRetx'[k].proc = toRetx[j].proc
  PROVE  k <= j
<1>1. PICK fb \in Kept(Merged, ActiveReports) :
        \E nacks \in Kept(fb, Nacked(fb)) : ScheduleUl(fb, nacks, Left(nacks, symAvail))
  BY DEF DoSchedUlTriggerReq
<1>2. PICK nacks \in Kept(fb, Nacked(fb)) : ScheduleUl(fb, nacks, Left(nacks, symAvail))
  BY <1>1
<1>3. PICK left : ScheduleUl(fb, nacks, left)
  BY <1>2
<1>4. PICK heldBack \in Kept(nacks, HeldBack(nacks, left)) : toRetx' = heldBack
  BY <1>3 DEF ScheduleUl, NewBuffer
<1>5. Merged \in Seq(Report) /\ Unique(Merged)
  BY MergedLemma
<1>6. /\ ActiveReports \subseteq DOMAIN Merged
      /\ Nacked(fb) \subseteq DOMAIN fb
      /\ HeldBack(nacks, left) \subseteq DOMAIN nacks
  BY DEF ActiveReports, Nacked, HeldBack
<1>7. fb \in Seq(Report)
  BY <1>5, <1>6, KeptLemma
<1>8. nacks \in Seq(Report)
  BY <1>6, <1>7, KeptLemma
<1>9. heldBack \in Seq(Report)
  BY <1>6, <1>8, KeptLemma
<1>10. PICK a \in DOMAIN nacks : toRetx'[k] = nacks[a] /\ k <= a
  BY <1>4, <1>6, <1>8, KeptMovesUp
<1>11. PICK b \in DOMAIN fb : nacks[a] = fb[b] /\ a <= b
  BY <1>6, <1>7, KeptMovesUp
<1>12. PICK c \in DOMAIN Merged : fb[b] = Merged[c] /\ b <= c
  BY <1>5, <1>6, KeptMovesUp
<1>13. j \in DOMAIN Merged /\ Merged[j] = toRetx[j]
  <2>1. toRetx \in Seq(Report) /\ received \in Seq(Report)
    BY DEF IInv, TypeOK
  <2> QED
    BY <2>1 DEF Merged
<1>14. c = j
  BY <1>5, <1>10, <1>11, <1>12, <1>13 DEF Unique
<1>15. k \in Nat /\ a \in Nat /\ b \in Nat /\ c \in Nat
  BY <1>4, <1>5, <1>7, <1>8, <1>9
<1> QED
  BY <1>10, <1>11, <1>12, <1>14, <1>15

\* A retransmission put off by ScheduleUlHarq is never overtaken in
\* m_ulHarqToRetransmit (MergeHARQ puts the old ones first, and the loops that
\* erase keep the order), under the same assumption.
THEOREM TurnsAreKept ==
  ASSUME Delay < NumHarq
  PROVE  Spec => NeverOvertaken
<1>1. IInv /\ [Next]_vars => IInv'
  BY NextIInv
<1>2. IInv /\ [Next]_vars =>
        [\A j \in DOMAIN toRetx : \A k \in DOMAIN toRetx' :
           toRetx'[k].proc = toRetx[j].proc => k <= j]_vars
  <2> SUFFICES ASSUME IInv, Next,
                      NEW j \in DOMAIN toRetx, NEW k \in DOMAIN toRetx',
                      toRetx'[k].proc = toRetx[j].proc
               PROVE  k <= j
    OBVIOUS
  <2>1. CASE toRetx' = toRetx
    <3>1. toRetx \in Seq(Report) /\ Unique(toRetx)
      BY DEF IInv, TypeOK, Exclusive
    <3>2. j = k /\ k \in Nat
      BY <2>1, <3>1 DEF Unique
    <3> QED
      BY <3>2
  <2>2. CASE \E symAvail \in SymChoices : DoSchedUlTriggerReq(symAvail)
    BY <2>2, TriggerKeepsTurn
  <2>3. CASE \E e \in onAir : NothingSent(e) \/ \E ok \in BOOLEAN : UlHarqFeedback(e, ok)
    BY <2>1, <2>3 DEF NothingSent, UlHarqFeedback
  <2> QED
    BY <2>2, <2>3 DEF Next
<1> QED
  BY <1>1, <1>2, InitIInv, PTL DEF Spec, NeverOvertaken

\* The recursion of Left is well defined: what ScheduleUlHarq has left before
\* its first retransmission is the slot, and each that fits takes its symbols.
LEMMA LeftLemma ==
  ASSUME NEW nacks \in Seq(Report), NEW symAvail
  PROVE  Left(nacks, symAvail) =
           [k \in 0 .. Len(nacks) |->
              IF k = 0 THEN symAvail
              ELSE LET need == harq[nacks[k].proc].sym
                   IN  IF Left(nacks, symAvail)[k - 1] >= need
                       THEN Left(nacks, symAvail)[k - 1] - need
                       ELSE Left(nacks, symAvail)[k - 1]]
<1> DEFINE n == Len(nacks)
           Rest(g, k) == IF k = 0 THEN symAvail
                         ELSE LET need == harq[nacks[k].proc].sym
                              IN  IF g[k - 1] >= need THEN g[k - 1] - need ELSE g[k - 1]
           Computed(m) == \E g : g = [k \in 0 .. m |-> Rest(g, k)]
           Missing == {m \in 0 .. n : ~Computed(m)}
           Less == OpToRel(<, Nat)
<1>1. n \in Nat
  OBVIOUS
<1> HIDE DEF n, Rest
<1>2. Computed(0)
  <2> DEFINE g == [k \in 0 .. 0 |-> symAvail]
  <2>1. \A k \in 0 .. 0 : Rest(g, k) = symAvail
    BY DEF Rest
  <2>2. g = [k \in 0 .. 0 |-> Rest(g, k)]
    BY <2>1
  <2> HIDE DEF g
  <2> QED
    BY <2>2
<1>3. ASSUME NEW m \in Nat, Computed(m) PROVE Computed(m + 1)
  <2>1. PICK g : g = [k \in 0 .. m |-> Rest(g, k)]
    BY <1>3
  <2> DEFINE h == [k \in 0 .. m + 1 |-> IF k = m + 1 THEN Rest(g, k) ELSE g[k]]
  <2>2. \A k \in 0 .. m + 1 : k - 1 \in 0 .. m => h[k - 1] = g[k - 1]
    OBVIOUS
  <2>3. \A k \in 0 .. m + 1 : h[k] = Rest(g, k)
    BY <2>1
  <2>4. \A k \in 0 .. m + 1 : k = 0 \/ k - 1 \in 0 .. m
    OBVIOUS
  <2>5. \A k \in 0 .. m + 1 : Rest(h, k) = Rest(g, k)
    <3> HIDE DEF h
    <3> QED
      BY <2>2, <2>4 DEF Rest
  <2>6. h = [k \in 0 .. m + 1 |-> h[k]]
    OBVIOUS
  <2> HIDE DEF h
  <2>7. h = [k \in 0 .. m + 1 |-> Rest(h, k)]
    BY <2>3, <2>5, <2>6
  <2> QED
    BY <2>7
<1> HIDE DEF Computed
<1>4. Missing = {}
  <2> SUFFICES ASSUME Missing # {} PROVE FALSE
    OBVIOUS
  <2>1. Missing \subseteq Nat
    BY <1>1
  <2>2. IsWellFoundedOn(Less, Nat)
    BY NatLessThanWellFounded
  <2>3. \A x, y \in Nat : x < y => <<x, y>> \in Less
    BY DEF OpToRel
  <2> HIDE DEF Less, Missing
  <2>4. PICK b \in Missing : \A y \in Missing : ~ (<<y, b>> \in Less)
    BY <2>1, <2>2, WFMin
  <2>5. b \in 0 .. n /\ ~Computed(b) /\ b # 0
    BY <1>2 DEF Missing
  <2>6. b - 1 \in 0 .. n /\ b - 1 \in Nat /\ b - 1 < b /\ (b - 1) + 1 = b
    BY <1>1, <2>5
  <2>7. b - 1 \notin Missing
    BY <2>1, <2>3, <2>4, <2>6
  <2>8. Computed(b - 1)
    BY <2>6, <2>7 DEF Missing
  <2> QED
    BY <1>3, <2>5, <2>6, <2>8
<1>5. \E g : g = [k \in 0 .. n |-> Rest(g, k)]
  <2>1. n \in 0 .. n
    BY <1>1
  <2> QED
    BY <1>4, <2>1 DEF Computed
<1>6. Left(nacks, symAvail) = CHOOSE g : g = [k \in 0 .. n |-> Rest(g, k)]
  BY DEF Left, Rest, n
<1>7. Left(nacks, symAvail) = [k \in 0 .. n |-> Rest(Left(nacks, symAvail), k)]
  BY <1>5, <1>6
<1> QED
  BY <1>7 DEF Rest, n

\* A report in the buffer is one that can be answered: its block has not had
\* all its retransmissions.
CanRetry == \A k \in DOMAIN toRetx : toRetx[k].rv # MaxReTx

LEMMA InitCanRetry == Init => CanRetry
  BY DEF Init, CanRetry

\* The report of a process that a trigger finds is the one in the lists.
LEMMA AgedReport ==
  ASSUME IInv, Delay < NumHarq, NEW k \in DOMAIN Merged
  PROVE  /\ Merged[k] \in Report
         /\ Active(Aged(harq[Merged[k].proc]))
         /\ Aged(harq[Merged[k].proc]).rv = Merged[k].rv
<1> DEFINE h == harq[Merged[k].proc]
<1>1. Merged \in Seq(Report) /\ h \in Process /\ h.status = "WAITING_FEEDBACK"
      /\ h.rv = Merged[k].rv /\ h.timer < NumHarq
  BY MergedLemma
<1>2. Merged[k] \in Report
  BY <1>1, LenProperties, ElementOfSeq
<1> HIDE DEF h
<1>3. Active(h)
  BY <1>1 DEF Active
<1>4. Aged(h) = [status |-> h.status, timer |-> h.timer + 1, rv |-> h.rv, sym |-> h.sym]
  BY <1>1, <1>3, AgedLemma
<1>5. Active(Aged(h)) /\ Aged(h).rv = h.rv
  BY <1>1, <1>4 DEF Active
<1> QED
  BY <1>1, <1>2, <1>5 DEF h

\* Only a NACK with retransmissions left is put off.
LEMMA TriggerCanRetry ==
  ASSUME IInv, Delay < NumHarq, NEW symAvail \in SymChoices, DoSchedUlTriggerReq(symAvail)
  PROVE  CanRetry'
<1>1. PICK fb \in Kept(Merged, ActiveReports) :
        \E nacks \in Kept(fb, Nacked(fb)) : ScheduleUl(fb, nacks, Left(nacks, symAvail))
  BY DEF DoSchedUlTriggerReq
<1>2. PICK nacks \in Kept(fb, Nacked(fb)) : ScheduleUl(fb, nacks, Left(nacks, symAvail))
  BY <1>1
<1>3. PICK left : ScheduleUl(fb, nacks, left)
  BY <1>2
<1>4. PICK heldBack \in Kept(nacks, HeldBack(nacks, left)) : toRetx' = heldBack
  BY <1>3 DEF ScheduleUl, NewBuffer
<1>5. Merged \in Seq(Report)
  BY MergedLemma
<1>6. /\ ActiveReports \subseteq DOMAIN Merged
      /\ Nacked(fb) \subseteq DOMAIN fb
      /\ HeldBack(nacks, left) \subseteq DOMAIN nacks
  BY DEF ActiveReports, Nacked, HeldBack
<1>7. fb \in Seq(Report)
  BY <1>5, <1>6, KeptLemma
<1>8. nacks \in Seq(Report)
  BY <1>6, <1>7, KeptLemma
<1>9. ASSUME NEW k \in DOMAIN toRetx' PROVE toRetx'[k].rv # MaxReTx
  <2>1. PICK a \in DOMAIN nacks : toRetx'[k] = nacks[a]
    BY <1>4, <1>6, <1>8, KeptMovesUp
  <2>2. PICK b \in Nacked(fb) : nacks[a] = fb[b]
    BY <1>6, <1>7, KeptMovesUp
  <2>3. PICK c \in DOMAIN Merged : fb[b] = Merged[c]
    BY <1>5, <1>6, KeptMovesUp
  <2>4. Aged(harq[Merged[c].proc]).rv # MaxReTx
    BY <2>2, <2>3 DEF Nacked, Done
  <2> QED
    BY <2>1, <2>2, <2>3, <2>4, AgedReport
<1> QED
  BY <1>9 DEF CanRetry

LEMMA NextCanRetry == Delay < NumHarq /\ IInv /\ CanRetry /\ [Next]_vars => CanRetry'
<1> SUFFICES ASSUME Delay < NumHarq, IInv, CanRetry, [Next]_vars PROVE CanRetry'
  OBVIOUS
<1>1. CASE \E symAvail \in SymChoices : DoSchedUlTriggerReq(symAvail)
  BY <1>1, TriggerCanRetry
<1>2. CASE \E e \in onAir : NothingSent(e) \/ \E ok \in BOOLEAN : UlHarqFeedback(e, ok)
  BY <1>2 DEF NothingSent, UlHarqFeedback, CanRetry
<1>3. CASE UNCHANGED vars
  BY <1>3 DEF vars, CanRetry
<1> QED
  BY <1>1, <1>2, <1>3 DEF Next

\* The report at the head of the buffer comes through the merge and the two
\* erasures as the first NACK, finds the slot whole, and fits.
LEMMA HeadIsServed ==
  ASSUME IInv, CanRetry, Delay < NumHarq, DoSchedUlTriggerReq(MaxSym), toRetx # <<>>
  PROVE  \E e \in onAir' : e.proc = Head(toRetx).proc
<1> USE HarqAssumption
<1>1. PICK fb \in Kept(Merged, ActiveReports) :
        \E nacks \in Kept(fb, Nacked(fb)) : ScheduleUl(fb, nacks, Left(nacks, MaxSym))
  BY DEF DoSchedUlTriggerReq
<1>2. PICK nacks \in Kept(fb, Nacked(fb)) : ScheduleUl(fb, nacks, Left(nacks, MaxSym))
  BY <1>1
<1>3. Merged \in Seq(Report) /\ Unique(Merged)
  BY MergedLemma
<1>4. ActiveReports \subseteq DOMAIN Merged /\ Nacked(fb) \subseteq DOMAIN fb
  BY DEF ActiveReports, Nacked
<1>5. fb \in Seq(Report) /\ Unique(fb)
  BY <1>3, <1>4, KeptLemma
<1>6. nacks \in Seq(Report)
  BY <1>4, <1>5, KeptLemma
<1> DEFINE r == Head(toRetx)
<1>7. /\ 1 \in DOMAIN toRetx /\ toRetx[1] = r
      /\ 1 \in DOMAIN Merged /\ Merged[1] = r
  <2>1. toRetx \in Seq(Report) /\ received \in Seq(Report)
    BY DEF IInv, TypeOK
  <2> QED
    BY <2>1 DEF Merged
<1> HIDE DEF r
<1>8. 1 \in DOMAIN fb /\ fb[1] = r
  <2>1. 1 \in ActiveReports
    BY <1>7, AgedReport DEF ActiveReports
  <2>2. PICK k \in DOMAIN fb : fb[k] = r
    BY <1>3, <1>4, <1>7, <2>1, KeptAll
  <2>3. PICK i \in DOMAIN Merged : fb[k] = Merged[i] /\ k <= i
    BY <1>3, <1>4, KeptMovesUp
  <2>4. i = 1
    BY <1>3, <1>7, <2>2, <2>3 DEF Unique
  <2>5. k = 1
    BY <1>5, <2>3, <2>4
  <2> QED
    BY <2>2, <2>5
<1>9. 1 \in DOMAIN nacks /\ nacks[1] = r
  <2>1. ~r.ok /\ r.rv # MaxReTx
    BY <1>7 DEF IInv, OutstandingIsCurrent, CanRetry
  <2>2. 1 \in Nacked(fb)
    BY <1>7, <1>8, <2>1, AgedReport DEF Nacked, Done
  <2>3. PICK k \in DOMAIN nacks : nacks[k] = r
    BY <1>4, <1>5, <1>8, <2>2, KeptAll
  <2>4. PICK i \in DOMAIN fb : nacks[k] = fb[i] /\ k <= i
    BY <1>4, <1>5, KeptMovesUp
  <2>5. i = 1
    BY <1>5, <1>8, <2>3, <2>4 DEF Unique
  <2>6. k = 1
    BY <1>6, <2>4, <2>5
  <2> QED
    BY <2>3, <2>6
<1>10. 1 \in Resent(nacks, Left(nacks, MaxSym))
  <2>1. Left(nacks, MaxSym)[0] = MaxSym
    <3>1. 0 \in 0 .. Len(nacks)
      BY <1>6
    <3> QED
      BY <1>6, <3>1, LeftLemma
  <2>2. r.proc \in Proc
    BY <1>7, AgedReport DEF Report
  <2>3. harq[r.proc].sym \in 0 .. MaxSym
    BY <2>2 DEF IInv, TypeOK, Process
  <2> QED
    BY <1>9, <2>1, <2>3 DEF Resent
<1>11. r.proc \in ProcsAt(nacks, Resent(nacks, Left(nacks, MaxSym)))
  BY <1>9, <1>10 DEF ProcsAt
<1>12. [proc |-> r.proc, rv |-> harq'[r.proc].rv, age |-> 0] \in onAir'
  BY <1>2, <1>11 DEF ScheduleUl
<1> QED
  BY <1>12 DEF r

\* A whole uplink slot sends the longest waiting retransmission again
\* (ScheduleUlHarq), under the same assumption.
THEOREM TurnsCome ==
  ASSUME Delay < NumHarq
  PROVE  Spec => TurnComes
<1>1. IInv /\ [Next]_vars => IInv'
  BY NextIInv
<1>2. IInv /\ CanRetry /\ [Next]_vars => CanRetry'
  BY NextCanRetry
<1>3. IInv /\ CanRetry /\ [Next]_vars =>
        [\/ toRetx = <<>>
         \/ \E e \in onAir' : e.proc = Head(toRetx).proc
         \/ ~DoSchedUlTriggerReq(MaxSym)]_vars
  BY HeadIsServed
<1> QED
  BY <1>1, <1>2, <1>3, InitIInv, InitCanRetry, PTL DEF Spec, TurnComes
=============================================================================
