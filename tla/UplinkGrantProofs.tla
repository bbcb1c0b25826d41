------------------------- MODULE UplinkGrantProofs -------------------------
(***************************************************************************)
(* Proofs about UplinkGrant, for every buffer size, delay, period and      *)
(* number of processes: the types of the variables, and, where a block is  *)
(* received no later than a request that is sent one slot after it, that   *)
(* waiting data is never forgotten.                                        *)
(***************************************************************************)
EXTENDS UplinkGrant, SequenceTheorems, TLAPS

\* The UE has nothing to ask for exactly when its buffer is empty.
ActiveHasData == buf = 0 <=> srState = "INACTIVE"

\* What is on the way arrives in the order in which it was sent.
OldestFirst(s) == \A j, k \in DOMAIN s : j <= k => s[j].age >= s[k].age

\* A report of an empty buffer that is older than the data in the buffer is
\* followed by a request: while it is in the air, one that was sent later, and
\* when the gNB MAC has it, one that the scheduler has not served yet.
ZeroIsFollowed ==
  srState = "ACTIVE" =>
    /\ \A k \in DOMAIN tbs :
         tbs[k].bsr = "zero" => \E a \in srAir : a < tbs[k].age
    /\ ce = "zero" => srList \/ srAir # {}

\* The inductive invariant of the types, and what it takes to keep data known.
TInv == TypeOK /\ OldestFirst(dcis) /\ OldestFirst(tbs)

Known == ActiveHasData /\ ZeroIsFollowed /\ WaitingIsKnown

-----------------------------------------------------------------------------

\* While the oldest grant is not due, all of them can age by a slot.
LEMMA AgedDcis ==
  ASSUME TInv, ~DciDue
  PROVE  /\ Aged(dcis) \in Seq(Dci)
         /\ OldestFirst(Aged(dcis))
         /\ \A k \in DOMAIN Aged(dcis) : Aged(dcis)[k].age > 0
<1>1. dcis \in Seq(Dci) /\ DciDelay \in Nat
  BY GrantAssumption DEF TInv, TypeOK
<1>2. \A k \in DOMAIN dcis : dcis[k] \in Dci /\ dcis[k].age < DciDelay
  <2> TAKE k \in DOMAIN dcis
  <2>1. dcis[k] \in Dci /\ dcis[1] \in Dci /\ 1 \in DOMAIN dcis /\ 1 <= k /\ dcis # <<>>
    BY <1>1
  <2>2. dcis[1].age # DciDelay
    BY <2>1, <1>1 DEF DciDue
  <2>3. dcis[1].age >= dcis[k].age
    BY <2>1 DEF TInv, OldestFirst
  <2> QED
    BY <2>1, <2>2, <2>3, <1>1 DEF Dci
<1>3. \A k \in DOMAIN dcis :
        /\ [dcis[k] EXCEPT !.age = @ + 1] \in Dci
        /\ [dcis[k] EXCEPT !.age = @ + 1].age = dcis[k].age + 1
  BY <1>1, <1>2 DEF Dci
<1>4. Aged(dcis) = [k \in 1 .. Len(dcis) |-> [dcis[k] EXCEPT !.age = @ + 1]]
  BY <1>1 DEF Aged
<1>5. Aged(dcis) \in Seq(Dci) /\ DOMAIN Aged(dcis) = DOMAIN dcis
  BY <1>1, <1>3, <1>4
<1>6. \A k \in DOMAIN dcis : Aged(dcis)[k].age = dcis[k].age + 1 /\ dcis[k].age \in Nat
  BY <1>2, <1>3 DEF Aged, Dci
<1>7. OldestFirst(dcis)
  BY DEF TInv
<1> QED
  BY <1>5, <1>6, <1>7 DEF OldestFirst

\* The same of the transport blocks.
LEMMA AgedTbs ==
  ASSUME TInv, ~TbDue
  PROVE  /\ Aged(tbs) \in Seq(Tb)
         /\ OldestFirst(Aged(tbs))
         /\ DOMAIN Aged(tbs) = DOMAIN tbs
         /\ \A k \in DOMAIN tbs : /\ tbs[k] \in Tb
                                  /\ tbs[k].age < TbDelay
                                  /\ Aged(tbs)[k].age = tbs[k].age + 1
                                  /\ Aged(tbs)[k].bsr = tbs[k].bsr
<1>1. tbs \in Seq(Tb) /\ TbDelay \in Nat
  BY GrantAssumption DEF TInv, TypeOK
<1>2. \A k \in DOMAIN tbs : tbs[k] \in Tb /\ tbs[k].age < TbDelay
  <2> TAKE k \in DOMAIN tbs
  <2>1. tbs[k] \in Tb /\ tbs[1] \in Tb /\ 1 \in DOMAIN tbs /\ 1 <= k /\ tbs # <<>>
    BY <1>1
  <2>2. tbs[1].age # TbDelay
    BY <2>1, <1>1 DEF TbDue
  <2>3. tbs[1].age >= tbs[k].age
    BY <2>1 DEF TInv, OldestFirst
  <2> QED
    BY <2>1, <2>2, <2>3, <1>1 DEF Tb
<1>3. \A k \in DOMAIN tbs :
        /\ [tbs[k] EXCEPT !.age = @ + 1] \in Tb
        /\ [tbs[k] EXCEPT !.age = @ + 1].age = tbs[k].age + 1
        /\ [tbs[k] EXCEPT !.age = @ + 1].bsr = tbs[k].bsr
  <2> SUFFICES ASSUME NEW b \in Tb, b.age < TbDelay
               PROVE  /\ [b EXCEPT !.age = @ + 1] \in Tb
                      /\ [b EXCEPT !.age = @ + 1].age = b.age + 1
                      /\ [b EXCEPT !.age = @ + 1].bsr = b.bsr
    BY <1>2
  <2>1. [b EXCEPT !.age = @ + 1] = [age |-> b.age + 1, bsr |-> b.bsr, block |-> b.block]
    BY DEF Tb
  <2>2. b.age + 1 \in 0 .. TbDelay /\ b.bsr \in Bsr /\ b.block \in Block
    BY <1>1 DEF Tb
  <2> QED
    BY <2>1, <2>2 DEF Tb
<1>4. Aged(tbs) = [k \in 1 .. Len(tbs) |-> [tbs[k] EXCEPT !.age = @ + 1]]
  BY <1>1 DEF Aged
<1>5. Aged(tbs) \in Seq(Tb) /\ DOMAIN Aged(tbs) = DOMAIN tbs
  BY <1>1, <1>3, <1>4
<1>6. \A k \in DOMAIN tbs : /\ Aged(tbs)[k].age = tbs[k].age + 1
                            /\ Aged(tbs)[k].bsr = tbs[k].bsr
                            /\ tbs[k].age \in Nat
  BY <1>2, <1>3 DEF Aged, Tb
<1>7. OldestFirst(tbs)
  BY DEF TInv
<1> QED
  BY <1>2, <1>5, <1>6, <1>7 DEF OldestFirst

\* What remains after the oldest one has arrived.
LEMMA TailLemma ==
  ASSUME NEW D, NEW s \in Seq(D), s # <<>>, OldestFirst(s)
  PROVE  /\ Tail(s) \in Seq(D)
         /\ OldestFirst(Tail(s))
         /\ Head(s) = s[1] /\ 1 \in DOMAIN s /\ Head(s) \in D
         /\ \A k \in DOMAIN Tail(s) : k + 1 \in DOMAIN s /\ Tail(s)[k] = s[k + 1]
<1>1. Tail(s) \in Seq(D) /\ Len(Tail(s)) = Len(s) - 1 /\ Head(s) = s[1]
  OBVIOUS
<1>2. \A k \in DOMAIN Tail(s) : k + 1 \in DOMAIN s /\ Tail(s)[k] = s[k + 1] /\ k \in Nat
  OBVIOUS
<1>3. OldestFirst(Tail(s))
  <2> SUFFICES ASSUME NEW j \in DOMAIN Tail(s), NEW k \in DOMAIN Tail(s), j <= k
               PROVE  Tail(s)[j].age >= Tail(s)[k].age
    BY DEF OldestFirst
  <2>1. j + 1 <= k + 1
    BY <1>2
  <2> QED
    BY <1>2, <2>1 DEF OldestFirst
<1> QED
  BY <1>1, <1>2, <1>3

\* What SendMacPdu adds is the youngest block, and it carries the report.
LEMMA SentLemma ==
  ASSUME TInv, NEW block \in Block, NEW bsr \in Bsr
  PROVE  /\ Sent(block, bsr) \in Seq(Tb)
         /\ OldestFirst(Sent(block, bsr))
         /\ \A k \in DOMAIN Sent(block, bsr) :
              \/ k \in DOMAIN tbs /\ Sent(block, bsr)[k] = tbs[k]
              \/ Sent(block, bsr)[k].bsr = bsr
<1> DEFINE new == [age |-> 0, bsr |-> bsr, block |-> block]
           s == Append(tbs, new)
<1>1. CASE Sent(block, bsr) = tbs
  BY <1>1 DEF TInv, TypeOK
<1>2. CASE Sent(block, bsr) = s
  <2>1. tbs \in Seq(Tb) /\ TbDelay \in Nat
    BY GrantAssumption DEF TInv, TypeOK
  <2>2. new \in Tb /\ new.age = 0 /\ new.bsr = bsr
    BY <2>1 DEF Tb
  <2> HIDE DEF new
  <2>3. s \in Seq(Tb)
    BY <2>1, <2>2
  <2>4. /\ DOMAIN s = 1 .. Len(tbs) + 1
        /\ DOMAIN tbs = 1 .. Len(tbs)
        /\ Len(tbs) \in Nat
        /\ s[Len(tbs) + 1] = new
        /\ \A k \in 1 .. Len(tbs) : s[k] = tbs[k]
    BY <2>1
  <2>5. \A k \in DOMAIN s : s[k].age \in Nat
    <3>1. \A k \in DOMAIN s : s[k] \in Tb
      BY <2>3
    <3> QED
      BY <3>1, <2>1 DEF Tb
  <2> HIDE DEF s
  <2>6. OldestFirst(s)
    <3> SUFFICES ASSUME NEW j \in DOMAIN s, NEW k \in DOMAIN s, j <= k
                 PROVE  s[j].age >= s[k].age
      BY DEF OldestFirst
    <3>1. CASE k = Len(tbs) + 1
      BY <3>1, <2>2, <2>4, <2>5
    <3>2. CASE k # Len(tbs) + 1
      <4>1. j \in DOMAIN tbs /\ k \in DOMAIN tbs
        BY <3>2, <2>4
      <4> QED
        BY <4>1, <2>4 DEF TInv, OldestFirst
    <3> QED
      BY <3>1, <3>2
  <2>7. \A k \in DOMAIN s : (k \in DOMAIN tbs /\ s[k] = tbs[k]) \/ s[k].bsr = bsr
    BY <2>2, <2>4
  <2> QED
    BY <1>2, <2>3, <2>6, <2>7
<1> QED
  BY <1>1, <1>2 DEF Sent

\* The grants of a slot are the youngest.
LEMMA GrantedLemma ==
  ASSUME NEW s \in Seq(Dci), OldestFirst(s),
         NEW t \in Seq(Dci), \A k \in DOMAIN t : t[k].age = 0
  PROVE  s \o t \in Seq(Dci) /\ OldestFirst(s \o t)
<1>1. s \o t \in Seq(Dci)
  OBVIOUS
<1>2. /\ DOMAIN s = 1 .. Len(s) /\ DOMAIN t = 1 .. Len(t)
      /\ DOMAIN (s \o t) = 1 .. Len(s) + Len(t)
      /\ Len(s) \in Nat /\ Len(t) \in Nat
      /\ \A k \in 1 .. Len(s) : (s \o t)[k] = s[k]
      /\ \A k \in Len(s) + 1 .. Len(s) + Len(t) : (s \o t)[k] = t[k - Len(s)]
  OBVIOUS
<1>3. \A k \in DOMAIN (s \o t) : (s \o t)[k].age \in Nat
  <2>1. \A k \in DOMAIN (s \o t) : (s \o t)[k] \in Dci
    BY <1>1
  <2> QED
    BY <2>1, GrantAssumption DEF Dci
<1> DEFINE st == s \o t
<1> HIDE DEF st
<1>4. ASSUME NEW j \in DOMAIN st, NEW k \in DOMAIN st, j <= k
      PROVE  st[j].age >= st[k].age
  <2>1. CASE k <= Len(s)
    BY <2>1, <1>2, <1>4 DEF OldestFirst, st
  <2>2. CASE ~(k <= Len(s))
    <3>1. k - Len(s) \in DOMAIN t /\ st[k] = t[k - Len(s)]
      BY <2>2, <1>2 DEF st
    <3>2. st[k].age = 0
      BY <3>1
    <3> QED
      BY <3>2, <1>3 DEF st
  <2> QED
    BY <2>1, <2>2
<1> QED
  BY <1>1, <1>4 DEF OldestFirst, st

\* The gNB's part of a slot keeps the types of what it changes.
LEMMA ScheduledLemma ==
  ASSUME TInv, ~DciDue, ~TbDue,
         NEW symbols \in BOOLEAN, NEW grant \in BOOLEAN,
         NEW j \in 0 .. Len(nacks), NEW k \in 0 .. j,
         DoSlotUlIndication(k, j, symbols, grant)
  PROVE  /\ srList' \in BOOLEAN /\ ce' = "none" /\ queued' \in BOOLEAN
         /\ nacks' \in Seq(Block)
         /\ dcis' \in Seq(Dci) /\ OldestFirst(dcis')
<1> DEFINE retx == [i \in 1 .. k |-> [age |-> 0, new |-> FALSE, block |-> nacks[i]]]
           one == [age |-> 0, new |-> TRUE, block |-> [rv |-> 0, burst |-> FALSE]]
           fresh == <<one>>
<1>1. nacks \in Seq(Block) /\ Len(nacks) \in Nat /\ DciDelay \in Nat /\ MaxReTx \in Nat
  BY GrantAssumption DEF TInv, TypeOK
<1>2. nacks' \in Seq(Block)
  <2>1. nacks' = SubSeq(nacks, j + 1, Len(nacks))
    BY DEF DoSlotUlIndication
  <2> QED
    BY <2>1, <1>1
<1>3. retx \in Seq(Dci) /\ \A i \in DOMAIN retx : retx[i].age = 0
  <2>1. \A i \in 1 .. k : nacks[i] \in Block
    BY <1>1
  <2>2. \A i \in 1 .. k : [age |-> 0, new |-> FALSE, block |-> nacks[i]] \in Dci
    BY <2>1, <1>1 DEF Dci
  <2> QED
    BY <2>2
<1>4. fresh \in Seq(Dci) /\ \A i \in DOMAIN fresh : fresh[i].age = 0
  <2>1. one \in Dci /\ one.age = 0
    BY <1>1 DEF Dci, Block
  <2> QED
    BY <2>1
<1>5. Aged(dcis) \in Seq(Dci) /\ OldestFirst(Aged(dcis))
  BY AgedDcis
<1> HIDE DEF retx, fresh
<1>6. Aged(dcis) \o retx \in Seq(Dci) /\ OldestFirst(Aged(dcis) \o retx)
  BY <1>3, <1>5, GrantedLemma
<1>7. \A t \in {<<>>, fresh} : /\ Aged(dcis) \o retx \o t \in Seq(Dci)
                               /\ OldestFirst(Aged(dcis) \o retx \o t)
  <2> TAKE t \in {<<>>, fresh}
  <2>1. CASE t = <<>>
    <3>1. t \in Seq(Dci) /\ DOMAIN t = {}
      BY <2>1
    <3> QED
      BY <1>6, <3>1, GrantedLemma
  <2>2. CASE t = fresh
    BY <1>4, <1>6, <2>2, GrantedLemma
  <2> QED
    BY <2>1, <2>2
<1>8. dcis' = Aged(dcis) \o retx \o (IF grant THEN fresh ELSE <<>>)
  BY DEF DoSlotUlIndication, retx, fresh
<1>9. srList' \in BOOLEAN /\ ce' = "none" /\ queued' \in BOOLEAN
  BY DEF TInv, TypeOK, DoSlotUlIndication, DoScheduleUlSr, BSRReceivedFromUe, AssignedData
<1> QED
  BY <1>2, <1>7, <1>8, <1>9

-----------------------------------------------------------------------------

LEMMA InitKnown == Init => TInv /\ Known
<1> SUFFICES ASSUME Init
             PROVE  TInv /\ Known
  OBVIOUS
<1>1. buf = 0 /\ srState = "INACTIVE" /\ ce = "none" /\ srAir = {} /\ srList = FALSE
  BY DEF Init
<1>2. TypeOK
  <2>1. dcis \in Seq(Dci) /\ tbs \in Seq(Tb) /\ nacks \in Seq(Block)
    BY DEF Init
  <2>2. buf \in 0 .. MaxBuf /\ sinceBsr \in 0 .. BsrPeriod
    BY GrantAssumption DEF Init
  <2>3. srList \in BOOLEAN /\ queued \in BOOLEAN /\ srAir \subseteq 0 .. SrDelay
    BY DEF Init
  <2>4. ce \in Bsr /\ srState \in {"INACTIVE", "TO_SEND", "ACTIVE"}
    BY <1>1 DEF Bsr
  <2> QED
    BY <2>1, <2>2, <2>3, <2>4 DEF TypeOK
<1>3. OldestFirst(dcis) /\ OldestFirst(tbs)
  BY DEF Init, OldestFirst
<1>4. Known
  BY <1>1 DEF Known, ActiveHasData, ZeroIsFollowed, WaitingIsKnown
<1> QED
  BY <1>2, <1>3, <1>4 DEF TInv

LEMMA ReportKnown ==
  ASSUME TInv, NEW n \in 1 .. MaxBuf, DoReportBufferStatus(n)
  PROVE  TInv' /\ (Known => Known')
<1>1. buf \in Nat /\ buf' = buf + n /\ buf' \in 0 .. MaxBuf /\ buf' # 0
  BY GrantAssumption DEF TInv, TypeOK, DoReportBufferStatus
<1>2. UNCHANGED <<sinceBsr, srAir, srList, ce, queued, dcis, tbs, nacks>>
  BY DEF DoReportBufferStatus, gnbVars
<1>3. srState' = Requested
  BY DEF DoReportBufferStatus
<1>4. srState' # "INACTIVE" /\ srState' \in {"INACTIVE", "TO_SEND", "ACTIVE"}
  BY <1>3 DEF TInv, TypeOK, Requested
<1>5. TInv'
  BY <1>1, <1>2, <1>4 DEF TInv, TypeOK, OldestFirst
<1>6. ASSUME Known
      PROVE  Known'
  <2>1. srState' = "ACTIVE" => srState = "ACTIVE" /\ buf > 0
    BY <1>1, <1>3, <1>6 DEF Known, ActiveHasData, Requested
  <2>2. ActiveHasData'
    BY <1>1, <1>4 DEF ActiveHasData
  <2>3. ZeroIsFollowed'
    BY <1>2, <1>6, <2>1 DEF Known, ZeroIsFollowed
  <2>4. WaitingIsKnown'
    BY <1>2, <1>4, <1>6, <2>1 DEF Known, WaitingIsKnown
  <2> QED
    BY <2>2, <2>3, <2>4 DEF Known
<1> QED
  BY <1>5, <1>6

\* A report leaves the UE with what its period makes of it.
LEMMA PeriodLemma ==
  ASSUME TypeOK, NEW left \in Nat
  PROVE  /\ SentBsr(left) \in Bsr
         /\ SentBsr(left) = "zero" => left = 0
         /\ SinceBsr \in 0 .. BsrPeriod
  BY GrantAssumption DEF TypeOK, SentBsr, SinceBsr, Bsr

LEMMA NewBlockKnown ==
  ASSUME TInv, NEW n \in 0 .. MaxBuf, ProcessUlDci(n)
  PROVE  TInv' /\ (Known => Known')
<1> DEFINE left == buf - n
           block == [rv |-> 0, burst |-> n > 0 \/ (left = 0 /\ SentBsr(left) = "none")]
<1>1. /\ buf' = left /\ left \in 0 .. MaxBuf /\ left \in Nat /\ left <= buf
      /\ srState' = Settled(left)
      /\ sinceBsr' = SinceBsr
      /\ tbs' = Sent(block, SentBsr(left))
      /\ dcis # <<>> /\ dcis' = Tail(dcis)
      /\ UNCHANGED <<srAir, srList, ce, queued, nacks>>
  BY GrantAssumption DEF TInv, TypeOK, ProcessUlDci, DciDue, gnbVars
<1>2. TypeOK
  BY DEF TInv
<1>3. block \in Block
  BY GrantAssumption DEF Block
<1> HIDE DEF left, block
<1>4. /\ SentBsr(left) \in Bsr
      /\ SentBsr(left) = "zero" => left = 0
      /\ SinceBsr \in 0 .. BsrPeriod
  BY <1>1, <1>2, PeriodLemma
<1>5. /\ tbs' \in Seq(Tb) /\ OldestFirst(tbs')
      /\ \A k \in DOMAIN tbs' : \/ k \in DOMAIN tbs /\ tbs'[k] = tbs[k]
                                \/ tbs'[k].bsr = SentBsr(left)
  BY <1>1, <1>3, <1>4, SentLemma
<1>6. dcis' \in Seq(Dci) /\ OldestFirst(dcis')
  BY <1>1, TailLemma DEF TInv, TypeOK
<1>7. TInv'
  <2>1. srState' \in {"INACTIVE", "TO_SEND", "ACTIVE"}
    BY <1>1, <1>2 DEF Settled, TypeOK
  <2>2. TypeOK'
    BY <1>1, <1>2, <1>4, <1>5, <1>6, <2>1 DEF TypeOK
  <2> QED
    BY <1>5, <1>6, <2>2 DEF TInv
<1>8. ASSUME Known
      PROVE  Known'
  <2>1. ActiveHasData'
    BY <1>1, <1>8 DEF Known, ActiveHasData, Settled
  <2>2. srState' = "ACTIVE" => srState = "ACTIVE" /\ left # 0
    BY <1>1 DEF Settled
  <2>3. ZeroIsFollowed'
    BY <1>1, <1>4, <1>5, <1>8, <2>2 DEF Known, ZeroIsFollowed
  <2>4. WaitingIsKnown'
    <3>1. buf' > 0 => left > 0 /\ srState' = srState /\ buf > 0
      BY <1>1, <1>2 DEF Settled, TypeOK
    <3> QED
      BY <1>1, <1>8, <3>1 DEF Known, WaitingIsKnown
  <2> QED
    BY <2>1, <2>3, <2>4 DEF Known
<1> QED
  BY <1>7, <1>8

LEMMA RetxKnown ==
  ASSUME TInv, ProcessUlDciRetx
  PROVE  TInv' /\ (Known => Known')
<1> DEFINE block == Head(dcis).block
<1>1. /\ sinceBsr' = SinceBsr
      /\ tbs' = Sent(block, SentBsr(buf))
      /\ dcis # <<>> /\ dcis' = Tail(dcis)
      /\ UNCHANGED <<buf, srState, srAir, srList, ce, queued, nacks>>
  BY DEF ProcessUlDciRetx, DciDue, gnbVars
<1>2. TypeOK /\ buf \in Nat
  BY GrantAssumption DEF TInv, TypeOK
<1>3. dcis' \in Seq(Dci) /\ OldestFirst(dcis') /\ Head(dcis) \in Dci
  BY <1>1, TailLemma DEF TInv, TypeOK
<1>4. block \in Block
  BY <1>3 DEF Dci
<1> HIDE DEF block
<1>5. /\ SentBsr(buf) \in Bsr
      /\ SentBsr(buf) = "zero" => buf = 0
      /\ SinceBsr \in 0 .. BsrPeriod
  BY <1>2, PeriodLemma
<1>6. /\ tbs' \in Seq(Tb) /\ OldestFirst(tbs')
      /\ \A k \in DOMAIN tbs' : \/ k \in DOMAIN tbs /\ tbs'[k] = tbs[k]
                                \/ tbs'[k].bsr = SentBsr(buf)
  BY <1>1, <1>4, <1>5, SentLemma
<1>7. TInv'
  <2>1. TypeOK'
    BY <1>1, <1>2, <1>3, <1>5, <1>6 DEF TypeOK
  <2> QED
    BY <1>3, <1>6, <2>1 DEF TInv
<1>8. ASSUME Known
      PROVE  Known'
  <2>1. ActiveHasData'
    BY <1>1, <1>8 DEF Known, ActiveHasData
  <2>2. srState = "ACTIVE" => buf # 0
    BY <1>8 DEF Known, ActiveHasData
  <2>3. ZeroIsFollowed'
    BY <1>1, <1>5, <1>6, <1>8, <2>2 DEF Known, ZeroIsFollowed
  <2>4. WaitingIsKnown'
    BY <1>1, <1>8 DEF Known, WaitingIsKnown
  <2> QED
    BY <2>1, <2>3, <2>4 DEF Known
<1> QED
  BY <1>7, <1>8

\* A block leaves the air, decoded or not.
LEMMA ArrivedLemma ==
  ASSUME TInv, TbDue, tbs' = Tail(tbs)
  PROVE  /\ tbs' \in Seq(Tb) /\ OldestFirst(tbs')
         /\ Head(tbs) = tbs[1] /\ 1 \in DOMAIN tbs
         /\ Head(tbs).bsr \in Bsr /\ Head(tbs).block \in Block
         /\ \A k \in DOMAIN tbs' : \E i \in DOMAIN tbs : tbs'[k] = tbs[i]
<1>1. tbs \in Seq(Tb) /\ tbs # <<>> /\ OldestFirst(tbs)
  BY DEF TInv, TypeOK, TbDue
<1>2. Head(tbs) \in Tb
  BY <1>1, TailLemma
<1> QED
  BY <1>1, <1>2, TailLemma DEF Tb

LEMMA DecodedKnown ==
  ASSUME TInv, DoReceivePhyPdu
  PROVE  TInv' /\ (Known => Known')
<1>1. /\ TbDue /\ tbs' = Tail(tbs)
      /\ ce' = IF Head(tbs).bsr = "none" THEN ce ELSE Head(tbs).bsr
      /\ UNCHANGED <<buf, srState, sinceBsr, srAir, srList, queued, dcis, nacks>>
  BY DEF DoReceivePhyPdu, ueVars
<1>2. /\ tbs' \in Seq(Tb) /\ OldestFirst(tbs')
      /\ Head(tbs) = tbs[1] /\ 1 \in DOMAIN tbs
      /\ Head(tbs).bsr \in Bsr
      /\ \A k \in DOMAIN tbs' : \E i \in DOMAIN tbs : tbs'[k] = tbs[i]
  BY <1>1, ArrivedLemma
<1>3. TInv'
  BY <1>1, <1>2 DEF TInv, TypeOK
<1>4. ASSUME Known
      PROVE  Known'
  <2>1. ActiveHasData' /\ WaitingIsKnown'
    BY <1>1, <1>4 DEF Known, ActiveHasData, WaitingIsKnown
  <2>2. ASSUME srState = "ACTIVE", ce' = "zero"
        PROVE  srList \/ srAir # {}
    BY <1>1, <1>2, <1>4, <2>2 DEF Known, ZeroIsFollowed
  <2>3. ZeroIsFollowed'
    BY <1>1, <1>2, <1>4, <2>2 DEF Known, ZeroIsFollowed
  <2> QED
    BY <2>1, <2>3 DEF Known
<1> QED
  BY <1>3, <1>4

LEMMA FailedKnown ==
  ASSUME TInv, DoUlHarqFeedback
  PROVE  TInv' /\ (Known => Known')
<1> DEFINE block == Head(tbs).block
<1>1. /\ TbDue /\ tbs' = Tail(tbs)
      /\ nacks' = Retried(block)
      /\ UNCHANGED <<buf, srState, sinceBsr, srAir, srList, ce, queued, dcis>>
  BY DEF DoUlHarqFeedback, ueVars
<1>2. /\ tbs' \in Seq(Tb) /\ OldestFirst(tbs')
      /\ block \in Block
      /\ \A k \in DOMAIN tbs' : \E i \in DOMAIN tbs : tbs'[k] = tbs[i]
  BY <1>1, ArrivedLemma
<1> HIDE DEF block
<1>3. nacks' \in Seq(Block)
  <2>1. block.rv # MaxReTx => [rv |-> block.rv + 1, burst |-> block.burst] \in Block
    BY <1>2, GrantAssumption DEF Block
  <2>2. nacks \in Seq(Block)
    BY DEF TInv, TypeOK
  <2> QED
    BY <1>1, <2>1, <2>2 DEF Retried
<1>4. TInv'
  BY <1>1, <1>2, <1>3 DEF TInv, TypeOK
<1>5. ASSUME Known
      PROVE  Known'
  <2>1. ActiveHasData' /\ WaitingIsKnown'
    BY <1>1, <1>5 DEF Known, ActiveHasData, WaitingIsKnown
  <2>2. ZeroIsFollowed'
    BY <1>1, <1>2, <1>5 DEF Known, ZeroIsFollowed
  <2> QED
    BY <2>1, <2>2 DEF Known
<1> QED
  BY <1>4, <1>5

LEMMA SlotTypes ==
  ASSUME TInv, NEW occasion \in BOOLEAN, NEW symbols \in BOOLEAN, NEW grant \in BOOLEAN,
         Slot(occasion, symbols, grant)
  PROVE  TInv'
<1>1. ~DciDue /\ ~TbDue /\ DoSlotIndication(occasion)
  BY DEF Slot
<1>2. PICK j \in 0 .. Len(nacks) : \E k \in 0 .. j : DoSlotUlIndication(k, j, symbols, grant)
  BY DEF Slot
<1>3. PICK k \in 0 .. j : DoSlotUlIndication(k, j, symbols, grant)
  BY <1>2
<1>4. /\ srList' \in BOOLEAN /\ ce' = "none" /\ queued' \in BOOLEAN
      /\ nacks' \in Seq(Block)
      /\ dcis' \in Seq(Dci) /\ OldestFirst(dcis')
  BY <1>1, <1>3, ScheduledLemma
<1>5. tbs' \in Seq(Tb) /\ OldestFirst(tbs')
  <2>1. tbs' = Aged(tbs)
    BY <1>3 DEF DoSlotUlIndication
  <2> QED
    BY <1>1, <2>1, AgedTbs
<1>6. buf' \in 0 .. MaxBuf /\ sinceBsr' \in 0 .. BsrPeriod
  BY <1>1, GrantAssumption DEF TInv, TypeOK, DoSlotIndication
<1>7. srState' \in {"INACTIVE", "TO_SEND", "ACTIVE"}
  BY <1>1 DEF TInv, TypeOK, DoSlotIndication
<1>8. srAir' \subseteq 0 .. SrDelay
  <2>1. \A a \in srAir \ {SrDelay} : a + 1 \in 0 .. SrDelay
    BY GrantAssumption DEF TInv, TypeOK
  <2>2. 0 \in 0 .. SrDelay
    BY GrantAssumption
  <2> QED
    BY <1>1, <2>1, <2>2 DEF DoSlotIndication
<1>9. ce' \in Bsr
  BY <1>4 DEF Bsr
<1> QED
  BY <1>4, <1>5, <1>6, <1>7, <1>8, <1>9 DEF TInv, TypeOK

\* The one step that needs the delays: the slot that serves the request also
\* applies the report which the request has to outlive, or comes later.
LEMMA SlotKnown ==
  ASSUME TbDelay <= SrDelay + 1, TInv, Known,
         NEW occasion \in BOOLEAN, NEW symbols \in BOOLEAN, NEW grant \in BOOLEAN,
         Slot(occasion, symbols, grant)
  PROVE  Known'
<1> DEFINE send == occasion /\ srState = "TO_SEND"
           sr == srList \/ SrDelay \in srAir
           size == IF symbols THEN DoScheduleUlSr(sr) ELSE BSRReceivedFromUe
<1>1. /\ ~TbDue
      /\ srState' = IF send THEN "ACTIVE" ELSE srState
      /\ srAir' = {a + 1 : a \in srAir \ {SrDelay}} \cup (IF send THEN {0} ELSE {})
      /\ buf' = buf
  BY DEF Slot, DoSlotIndication
<1>2. /\ ce' = "none"
      /\ srList' = (sr /\ ~symbols)
      /\ queued' = size
      /\ tbs' = Aged(tbs)
  BY DEF Slot, DoSlotUlIndication, AssignedData
<1>3. srAir \subseteq 0 .. SrDelay /\ SrDelay \in Nat /\ TbDelay \in Nat /\ buf \in Nat
      /\ srState \in {"INACTIVE", "TO_SEND", "ACTIVE"} /\ ce \in {"none", "zero", "some"}
  BY GrantAssumption DEF TInv, TypeOK, Bsr
<1>4. send => 0 \in srAir'
  BY <1>1
<1>5. srState' = "ACTIVE" => send \/ srState = "ACTIVE"
  BY <1>1
<1>6. ActiveHasData'
  BY <1>1 DEF Known, ActiveHasData
<1>7. ZeroIsFollowed'
  <2> SUFFICES ASSUME srState' = "ACTIVE", NEW k \in DOMAIN tbs', tbs'[k].bsr = "zero"
               PROVE  \E a \in srAir' : a < tbs'[k].age
    BY <1>2 DEF ZeroIsFollowed
  <2>1. /\ k \in DOMAIN tbs
        /\ tbs[k].bsr = "zero"
        /\ tbs[k].age \in Nat /\ tbs[k].age < TbDelay
        /\ tbs'[k].age = tbs[k].age + 1
    BY <1>1, <1>2, <1>3, AgedTbs DEF Tb
  <2>2. CASE send
    BY <2>1, <2>2, <1>4
  <2>3. CASE srState = "ACTIVE"
    <3>1. PICK a \in srAir : a < tbs[k].age
      BY <2>1, <2>3 DEF Known, ZeroIsFollowed
    <3>2. a \in Nat /\ a # SrDelay
      BY <3>1, <2>1, <1>3
    <3>3. a + 1 \in srAir'
      BY <3>2, <1>1
    <3> QED
      BY <3>1, <3>2, <3>3, <2>1
  <2> QED
    BY <1>5, <2>2, <2>3
<1>8. WaitingIsKnown'
  <2> SUFFICES ASSUME buf > 0
               PROVE  \/ srState' = "TO_SEND"
                      \/ srState' = "ACTIVE" /\ (queued' \/ srList' \/ srAir' # {})
    BY <1>1 DEF WaitingIsKnown
  <2>1. srState # "INACTIVE"
    BY <1>3 DEF Known, ActiveHasData
  <2>2. CASE srState = "TO_SEND"
    BY <1>1, <1>4, <2>2
  <2>3. CASE srState = "ACTIVE" /\ sr
    BY <1>1, <1>2, <2>3 DEF DoScheduleUlSr
  <2>4. CASE srState = "ACTIVE" /\ ~sr
    <3>1. srAir # {} => srAir' # {}
      <4> SUFFICES ASSUME NEW a \in srAir
                   PROVE  a + 1 \in srAir'
        OBVIOUS
      <4> QED
        BY <1>1, <2>4
    <3>2. CASE ce = "zero"
      BY <1>1, <2>4, <3>1, <3>2 DEF Known, ZeroIsFollowed
    <3>3. CASE ce = "none"
      BY <1>1, <1>2, <2>4, <3>1, <3>3
         DEF Known, WaitingIsKnown, DoScheduleUlSr, BSRReceivedFromUe
    <3>4. CASE ce = "some"
      BY <1>1, <1>2, <2>4, <3>4 DEF DoScheduleUlSr, BSRReceivedFromUe
    <3> QED
      BY <1>3, <3>2, <3>3, <3>4
  <2> QED
    BY <1>3, <2>1, <2>2, <2>3, <2>4
<1> QED
  BY <1>6, <1>7, <1>8 DEF Known

-----------------------------------------------------------------------------

\* Every step keeps the types and the order of what is on the way.
LEMMA NextTypes == TInv /\ [Next]_vars => TInv'
<1> SUFFICES ASSUME TInv, [Next]_vars
             PROVE  TInv'
  OBVIOUS
<1>1. CASE \E n \in 1 .. MaxBuf : DoReportBufferStatus(n)
  BY <1>1, ReportKnown
<1>2. CASE \E n \in 0 .. MaxBuf : ProcessUlDci(n)
  BY <1>2, NewBlockKnown
<1>3. CASE ProcessUlDciRetx
  BY <1>3, RetxKnown
<1>4. CASE DoReceivePhyPdu
  BY <1>4, DecodedKnown
<1>5. CASE DoUlHarqFeedback
  BY <1>5, FailedKnown
<1>6. CASE \E occasion, symbols, grant \in BOOLEAN : Slot(occasion, symbols, grant)
  BY <1>6, SlotTypes
<1>7. CASE UNCHANGED vars
  BY <1>7 DEF vars, TInv, TypeOK, OldestFirst
<1> QED
  BY <1>1, <1>2, <1>3, <1>4, <1>5, <1>6, <1>7 DEF Next

\* Every step keeps waiting data known, when no block takes longer to come back
\* than a request sent in the slot after it.
LEMMA NextKnown ==
  ASSUME TbDelay <= SrDelay + 1
  PROVE  TInv /\ Known /\ [Next]_vars => Known'
<1> SUFFICES ASSUME TInv, Known, [Next]_vars
             PROVE  Known'
  OBVIOUS
<1>1. CASE \E n \in 1 .. MaxBuf : DoReportBufferStatus(n)
  BY <1>1, ReportKnown
<1>2. CASE \E n \in 0 .. MaxBuf : ProcessUlDci(n)
  BY <1>2, NewBlockKnown
<1>3. CASE ProcessUlDciRetx
  BY <1>3, RetxKnown
<1>4. CASE DoReceivePhyPdu
  BY <1>4, DecodedKnown
<1>5. CASE DoUlHarqFeedback
  BY <1>5, FailedKnown
<1>6. CASE \E occasion, symbols, grant \in BOOLEAN : Slot(occasion, symbols, grant)
  BY <1>6, SlotKnown
<1>7. CASE UNCHANGED vars
  BY <1>7 DEF vars, Known, ActiveHasData, ZeroIsFollowed, WaitingIsKnown
<1> QED
  BY <1>1, <1>2, <1>3, <1>4, <1>5, <1>6, <1>7 DEF Next

\* Whatever is lost, granted or passed over, the machine of the UE, the queue of
\* the scheduler and what travels between them keep their types.
THEOREM TypeCorrect == Spec => []TypeOK
<1>1. Init => TInv
  BY InitKnown
<1>2. TInv => TypeOK
  BY DEF TInv
<1> QED
  BY <1>1, <1>2, NextTypes, PTL DEF Spec

\* When a block is received no later than a request sent in the slot after it,
\* no report of an empty buffer can make the scheduler forget a UE whose request
\* it has served: waiting data is never forgotten.
THEOREM DataIsKnown ==
  ASSUME TbDelay <= SrDelay + 1
  PROVE  Spec => []WaitingIsKnown
<1>1. Init => TInv /\ Known
  BY InitKnown
<1>2. TInv /\ Known /\ [Next]_vars => TInv' /\ Known'
  BY NextTypes, NextKnown
<1>3. Known => WaitingIsKnown
  BY DEF Known
<1> QED
  BY <1>1, <1>2, <1>3, PTL DEF Spec
=============================================================================
