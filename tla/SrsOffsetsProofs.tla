-------------------------- MODULE SrsOffsetsProofs --------------------------
(***************************************************************************)
(* For every set of UEs, every table of periods and every counter range,   *)
(* the assignment of SRS offsets is exclusive, complete and recycled       *)
(* without loss, the period grows only when every offset is in use, and no *)
(* UE waits for its turn longer than a period and what a wrap-around adds. *)
(***************************************************************************)
EXTENDS SrsOffsets, FiniteSetTheorems, TLAPS

\* The offsets owned by the UEs of the map.
Used == {srsOffset[u] : u \in ueMap}

\* All UEs share the period of the algorithm, which DoScheduleSrs relies on
\* when it takes the period of whichever UE the hash map puts first.
SamePeriodicity ==
  ~aborted => \A u \in ueMap : srsPeriodicity[u] = periodicity

\* The inductive invariant: typing, and the three safety properties together,
\* since exclusiveness is kept by an attachment only because the stack and the
\* used offsets are disjoint, and by a release only because offsets are valid.
IInv ==
  /\ TypeOK
  /\ SamePeriodicity
  /\ NoSharedSlot
  /\ NoOffsetLost

-----------------------------------------------------------------------------

\* The shuffle of a finite set of offsets is a sequence of naturals with no
\* repetition and with exactly these elements (SetStartingPeriodicity).
LEMMA OrdersLemma ==
  ASSUME NEW S, S \subseteq Nat, IsFiniteSet(S), NEW s \in Orders(S)
  PROVE  /\ s \in Seq(Nat)
         /\ IsInjective(s)
         /\ Range(s) = S
<1>1. Cardinality(S) \in Nat
  BY FS_CardinalityType
<1>2. s \in [1 .. Cardinality(S) -> S]
  BY DEF Orders, Bijection, Injection
<1>3. s \in [1 .. Cardinality(S) -> Nat]
  BY <1>2
<1>4. s \in Seq(Nat)
  BY <1>1, <1>3
<1>5. IsInjective(s)
  BY DEF Orders, Bijection, Injection
<1>6. Range(s) = S
  <2>1. Range(s) \subseteq S
    BY <1>2 DEF Range
  <2>2. \A t \in S : \E i \in 1 .. Cardinality(S) : s[i] = t
    BY DEF Orders, Bijection, Surjection
  <2> QED
    BY <2>1, <2>2, <1>2 DEF Range
<1> QED
  BY <1>4, <1>5, <1>6

\* Initially the stack holds every offset below the starting period.
LEMMA InitIInv == Init => IInv
<1> SUFFICES ASSUME Init PROVE IInv
  OBVIOUS
<1> USE PeriodicityAssumption, CounterAssumption
<1>1. /\ Offsets(StartingPeriodicity) \subseteq Nat
      /\ IsFiniteSet(Offsets(StartingPeriodicity))
  BY FS_Interval DEF Offsets
<1>2. /\ available \in Seq(Nat)
      /\ IsInjective(available)
      /\ Range(available) = Offsets(StartingPeriodicity)
  BY <1>1, OrdersLemma DEF Init, Shuffled
<1>3. TypeOK
  <2>1. 0 \in 0 .. CounterMod - 1
    OBVIOUS
  <2>2. /\ srsPeriodicity \in [UE -> Nat]
        /\ srsOffset \in [UE -> Nat]
        /\ since \in [UE -> Nat]
    BY DEF Init
  <2>3. ueMap \subseteq UE /\ aborted \in BOOLEAN
    BY DEF Init
  <2> QED
    BY <1>2, <2>1, <2>2, <2>3 DEF Init, TypeOK
<1>4. SamePeriodicity /\ NoSharedSlot /\ NoOffsetLost
  BY <1>2 DEF Init, SamePeriodicity, NoSharedSlot, NoOffsetLost
<1> QED
  BY <1>3, <1>4 DEF IInv

\* A reassignment (ReassignSrsValue) establishes the invariant for the UEs it
\* serves, whatever the offsets were before.
LEMMA ReassignIInv ==
  ASSUME TypeOK, NEW q \in StandardPeriodicity, Reassign(q, ueMap'),
         ueMap' \subseteq UE, srsSlotCounter' = srsSlotCounter,
         aborted' = aborted
  PROVE  IInv'
<1> USE PeriodicityAssumption
<1> PICK given \in Injection(ueMap', Offsets(q)) :
      /\ periodicity' = q
      /\ available' \in Orders(Offsets(q) \ Range(given))
      /\ srsPeriodicity' = [u \in UE |-> IF u \in ueMap' THEN q ELSE srsPeriodicity[u]]
      /\ srsOffset' = [u \in UE |-> IF u \in ueMap' THEN given[u] ELSE srsOffset[u]]
      /\ since' = [u \in UE |-> IF u \in ueMap' THEN 0 ELSE since[u]]
  BY DEF Reassign
<1> DEFINE Left == Offsets(q) \ Range(given)
<1>1. given \in [ueMap' -> Offsets(q)] /\ IsInjective(given)
  BY DEF Injection
<1>2. Offsets(q) \subseteq Nat /\ IsFiniteSet(Offsets(q))
  BY FS_Interval DEF Offsets
<1>3. Left \subseteq Nat /\ IsFiniteSet(Left)
  BY <1>2, FS_Subset
<1>4. /\ available' \in Seq(Nat)
      /\ IsInjective(available')
      /\ Range(available') = Left
  BY <1>3, OrdersLemma
<1>5. TypeOK'
  BY <1>1, <1>2, <1>4 DEF TypeOK
<1>6. \A u \in ueMap' : srsOffset'[u] = given[u] /\ srsPeriodicity'[u] = q
  OBVIOUS
<1>7. SamePeriodicity'
  BY <1>6 DEF SamePeriodicity
<1>8. NoSharedSlot'
  BY <1>1, <1>6 DEF NoSharedSlot, IsInjective
<1>9. Range(given) = {srsOffset'[u] : u \in ueMap'}
  BY <1>1, <1>6 DEF Range
<1>10. Range(given) \subseteq Offsets(q)
  BY <1>1 DEF Range
<1>11. NoOffsetLost'
  BY <1>4, <1>9, <1>10 DEF NoOffsetLost
<1> QED
  BY <1>5, <1>7, <1>8, <1>11 DEF IInv

\* An attachment that finds an offset on the stack (AddUe).
LEMMA TakeOffsetIInv ==
  ASSUME IInv, NEW u \in UE, ~aborted, u \notin ueMap,
         ueMap' = ueMap \cup {u}, TakeOffset(u), srsSlotCounter' = srsSlotCounter
  PROVE  IInv'
<1> DEFINE n == Len(available)
           o == available[n]
<1> USE PeriodicityAssumption
<1>1. /\ available \in Seq(Nat)
      /\ n \in Nat \ {0}
      /\ n \in 1 .. n
      /\ DOMAIN available = 1 .. n
  BY DEF IInv, TypeOK, TakeOffset
<1>2. /\ available' = [i \in 1 .. n - 1 |-> available[i]]
      /\ DOMAIN available' = 1 .. n - 1
      /\ 1 .. n - 1 \subseteq 1 .. n
  BY <1>1 DEF TakeOffset, Popped
<1>3. o \in Nat /\ o \in Range(available)
  BY <1>1 DEF Range
<1>4. available' \in Seq(Nat)
  <2>1. available' \in [1 .. n - 1 -> Nat]
    BY <1>1, <1>2
  <2> QED
    BY <2>1, <1>1
<1>5. TypeOK'
  BY <1>3, <1>4 DEF IInv, TypeOK, TakeOffset, AnsweredPeriod
<1>6. /\ srsOffset'[u] = o
      /\ srsPeriodicity'[u] = periodicity
      /\ \A v \in ueMap : srsOffset'[v] = srsOffset[v] /\ srsPeriodicity'[v] = srsPeriodicity[v]
      /\ periodicity' = periodicity
  BY DEF IInv, TypeOK, TakeOffset, AnsweredPeriod
<1>7. IsInjective(available) /\ Range(available) \cap Used = {}
      /\ Range(available) \cup Used = Offsets(periodicity)
  BY DEF IInv, NoOffsetLost, Used
<1>8. Range(available') = Range(available) \ {o}
  BY <1>1, <1>2, <1>7 DEF Range, IsInjective
<1>9. Used' = Used \cup {o}
  BY <1>6 DEF Used
<1>10. SamePeriodicity'
  BY <1>6 DEF IInv, SamePeriodicity
<1>11. NoSharedSlot'
  <2>1. \A v \in ueMap : srsOffset[v] # o
    BY <1>3, <1>7 DEF Used
  <2> QED
    BY <1>3, <1>6, <1>7, <2>1 DEF IInv, NoSharedSlot
<1>12. NoOffsetLost'
  <2>1. IsInjective(available')
    BY <1>1, <1>2, <1>7 DEF IsInjective
  <2> QED
    BY <2>1, <1>3, <1>6, <1>7, <1>8, <1>9 DEF NoOffsetLost, Used
<1> QED
  BY <1>5, <1>10, <1>11, <1>12 DEF IInv

\* A release (RemoveUe) puts exactly the offset the UE owned on the stack.
LEMMA ReleaseIInv ==
  ASSUME IInv, NEW u \in UE, DoCschedUeReleaseReq(u)
  PROVE  IInv'
<1> DEFINE n == Len(available)
           o == srsOffset[u]
<1>1. /\ available \in Seq(Nat)
      /\ n \in Nat
      /\ DOMAIN available = 1 .. n
      /\ o \in Nat
      /\ u \in ueMap
  BY DEF IInv, TypeOK, DoCschedUeReleaseReq
<1>2. /\ available' = Append(available, o)
      /\ available' \in Seq(Nat)
      /\ DOMAIN available' = 1 .. n + 1
      /\ \A i \in 1 .. n : available'[i] = available[i]
      /\ available'[n + 1] = o
  BY <1>1 DEF DoCschedUeReleaseReq, Returned
<1>3. TypeOK'
  BY <1>2 DEF IInv, TypeOK, DoCschedUeReleaseReq
<1>4. /\ \A v \in ueMap' : srsOffset'[v] = srsOffset[v] /\ srsPeriodicity'[v] = srsPeriodicity[v]
      /\ ueMap' = ueMap \ {u}
      /\ periodicity' = periodicity
      /\ ~aborted
  BY DEF IInv, TypeOK, DoCschedUeReleaseReq
<1>5. IsInjective(available) /\ Range(available) \cap Used = {}
      /\ Range(available) \cup Used = Offsets(periodicity)
  BY <1>4 DEF IInv, NoOffsetLost, Used
<1>6. o \in Used /\ o \notin Range(available)
  BY <1>1, <1>5 DEF Used
<1>7. Range(available') = Range(available) \cup {o}
  BY <1>1, <1>2 DEF Range
<1>8. Used' = Used \ {o}
  BY <1>1, <1>4 DEF Used, IInv, NoSharedSlot
<1>9. SamePeriodicity' /\ NoSharedSlot'
  BY <1>4 DEF IInv, SamePeriodicity, NoSharedSlot
<1>10. NoOffsetLost'
  <2>1. IsInjective(available')
    BY <1>1, <1>2, <1>5, <1>6 DEF IsInjective, Range
  <2> QED
    BY <2>1, <1>4, <1>5, <1>6, <1>7, <1>8 DEF NoOffsetLost, Used
<1> QED
  BY <1>3, <1>9, <1>10 DEF IInv

\* A slot that carries SRS moves only the counter and the history variable.
LEMMA ScheduleIInv ==
  ASSUME IInv, DoScheduleSrs
  PROVE  IInv'
<1> USE CounterAssumption
<1>1. srsSlotCounter' \in 0 .. CounterMod - 1
  BY DEF IInv, TypeOK, DoScheduleSrs, NextCounter
<1>2. since' \in [UE -> Nat]
  BY DEF IInv, TypeOK, DoScheduleSrs
<1>3. UNCHANGED <<periodicity, available, ueMap, srsPeriodicity, srsOffset, aborted>>
  BY DEF DoScheduleSrs
<1>4. TypeOK'
  BY <1>1, <1>2, <1>3 DEF IInv, TypeOK
<1> QED
  BY <1>3, <1>4 DEF IInv, SamePeriodicity, NoSharedSlot, NoOffsetLost

\* Every step preserves the invariant.
LEMMA NextIInv == IInv /\ [Next]_vars => IInv'
<1> SUFFICES ASSUME IInv, [Next]_vars PROVE IInv'
  OBVIOUS
<1>1. ASSUME NEW u \in UE, DoCschedUeConfigReq(u) PROVE IInv'
  <2>1. /\ ~aborted /\ u \notin ueMap /\ ueMap' = ueMap \cup {u}
        /\ srsSlotCounter' = srsSlotCounter
    BY <1>1 DEF DoCschedUeConfigReq
  <2>2. CASE TakeOffset(u)
    BY <2>1, <2>2, TakeOffsetIInv
  <2>3. CASE GrowPeriod(ueMap \cup {u})
    <3>1. PICK q \in StandardPeriodicity : Reassign(q, ueMap')
      BY <2>1, <2>3 DEF GrowPeriod, LongerPeriods
    <3>2. aborted' = aborted
      BY <2>3 DEF GrowPeriod
    <3>3. TypeOK /\ ueMap' \subseteq UE
      BY <2>1 DEF IInv, TypeOK
    <3> QED
      BY <2>1, <3>1, <3>2, <3>3, ReassignIInv
  <2>4. CASE NoLongerPeriod
    BY <2>1, <2>4 DEF NoLongerPeriod, IInv, TypeOK, SamePeriodicity, NoSharedSlot, NoOffsetLost
  <2> QED
    BY <1>1, <2>2, <2>3, <2>4 DEF DoCschedUeConfigReq
<1>2. ASSUME NEW u \in UE, DoCschedUeReleaseReq(u) PROVE IInv'
  BY <1>2, ReleaseIInv
<1>3. CASE DecreasePeriodicity
  <2>1. PICK q \in StandardPeriodicity : Reassign(q, ueMap)
    BY <1>3 DEF DecreasePeriodicity
  <2>2. UNCHANGED <<ueMap, srsSlotCounter, aborted>>
    BY <1>3 DEF DecreasePeriodicity
  <2>3. TypeOK /\ ueMap' \subseteq UE /\ Reassign(q, ueMap')
    BY <2>1, <2>2 DEF IInv, TypeOK
  <2> QED
    BY <2>2, <2>3, ReassignIInv
<1>4. CASE DoScheduleSrs
  BY <1>4, ScheduleIInv
<1>5. CASE UNCHANGED vars
  BY <1>5 DEF vars, ueVars, IInv, TypeOK, SamePeriodicity, NoSharedSlot, NoOffsetLost
<1> QED
  BY <1>1, <1>2, <1>3, <1>4, <1>5 DEF Next

-----------------------------------------------------------------------------

\* Type correctness of the assignment of SRS offsets.
THEOREM TypeCorrect == Spec => []TypeOK
<1>1. IInv => TypeOK
  BY DEF IInv
<1> QED
  BY <1>1, InitIInv, NextIInv, PTL DEF Spec

\* No two UEs ever sound in the same slot, for any number of UEs and any table
\* of periods (the constraint stated by NrMacSchedulerSrs).
THEOREM ExclusiveSrs == Spec => []NoSharedSlot
<1>1. IInv => NoSharedSlot
  BY DEF IInv
<1> QED
  BY <1>1, InitIInv, NextIInv, PTL DEF Spec

\* The UEs of the map share the period, which DoScheduleSrs relies on.
THEOREM CommonPeriod == Spec => []SamePeriodicity
<1>1. IInv => SamePeriodicity
  BY DEF IInv
<1> QED
  BY <1>1, InitIInv, NextIInv, PTL DEF Spec

\* The stack and the UEs together always hold each offset exactly once.
THEOREM OffsetsConserved == Spec => []NoOffsetLost
<1>1. IInv => NoOffsetLost
  BY DEF IInv
<1> QED
  BY <1>1, InitIInv, NextIInv, PTL DEF Spec

\* The step form of GrowsOnlyWhenFull: the period changes, or the assertion of
\* DoCschedUeConfigReq fails, only with an empty stack, and then the invariant
\* gives each offset an owner.
LEMMA GrowStep ==
  ASSUME IInv, [Next]_vars, periodicity' # periodicity \/ aborted' # aborted
  PROVE  \A o \in Offsets(periodicity) : \E u \in ueMap : srsOffset[u] = o
<1>1. CASE available = <<>> /\ ~aborted
  BY <1>1 DEF IInv, NoOffsetLost, Range
<1>2. ASSUME NEW u \in UE, DoCschedUeConfigReq(u) PROVE available = <<>> /\ ~aborted
  BY <1>2 DEF DoCschedUeConfigReq, TakeOffset, GrowPeriod, NoLongerPeriod
<1>3. ASSUME NEW u \in UE, DoCschedUeReleaseReq(u) PROVE FALSE
  BY <1>3 DEF DoCschedUeReleaseReq
<1>4. CASE DecreasePeriodicity
  <2>1. PICK q \in StandardPeriodicity :
          /\ q >= periodicity
          /\ \A r \in StandardPeriodicity : r >= periodicity => q <= r
          /\ periodicity' = q
    BY <1>4 DEF DecreasePeriodicity, Reassign
  <2>2. periodicity \in StandardPeriodicity /\ periodicity \in Nat /\ q \in Nat
    BY PeriodicityAssumption DEF IInv, TypeOK
  <2>3. periodicity' = periodicity
    BY <2>1, <2>2
  <2> QED
    BY <1>4, <2>3 DEF DecreasePeriodicity
<1>5. CASE DoScheduleSrs
  BY <1>5 DEF DoScheduleSrs
<1>6. CASE UNCHANGED vars
  BY <1>6 DEF vars
<1> QED
  BY <1>1, <1>2, <1>3, <1>4, <1>5, <1>6 DEF Next

\* The period grows only when every offset of it is in use.
THEOREM GrowthIsNeeded == Spec => GrowsOnlyWhenFull
<1>1. IInv /\ [Next]_vars =>
        [(periodicity' # periodicity \/ aborted' # aborted) =>
           \A o \in Offsets(periodicity) : \E u \in ueMap : srsOffset[u] = o]_vars
  BY GrowStep
<1> QED
  BY <1>1, InitIInv, NextIInv, PTL DEF Spec, GrowsOnlyWhenFull
-----------------------------------------------------------------------------
(***************************************************************************)
(* How long a connected UE waits for its turn.                             *)
(***************************************************************************)
\* How long a UE can have waited: since the counter last was congruent to its
\* offset, or since the wrap-around when the counter has not reached the
\* offset yet, plus what then was left of the last period before the wrap.
Waited(o) ==
  IF srsSlotCounter >= o
  THEN (srsSlotCounter - o) % periodicity
  ELSE srsSlotCounter + 1 + ((CounterMod - 1 - o) % periodicity)

Phase == ~aborted => \A u \in ueMap : since[u] <= Waited(srsOffset[u])

\* Division with remainder.
LEMMA DivMod ==
  ASSUME NEW n \in Nat, n > 0, NEW s \in Int
  PROVE  /\ s \div n \in Int /\ s % n \in 0 .. n - 1
         /\ s = n * (s \div n) + (s % n)
<1>1. s \div n \in Int BY SMT
<1>2. s % n \in 0 .. n - 1 BY SMT
<1>3. s = n * (s \div n) + (s % n) BY SMT
<1> QED BY <1>1, <1>2, <1>3

\* The remainder of a multiple plus a position.
LEMMA ModOf ==
  ASSUME NEW n \in Nat, n > 0, NEW c \in Int, NEW p \in 0 .. n - 1
  PROVE  (n * c + p) % n = p
  BY SMT

\* Sums of multiples.
LEMMA Distr ==
  ASSUME NEW n \in Int, NEW a \in Int, NEW b \in Int
  PROVE  n * a - n * b = n * (a - b) /\ n * a + n = n * (a + 1) /\ n * a - n = n * (a - 1)
  BY SMT

\* The next number has the next remainder, or remainder 0.
LEMMA ModNext ==
  ASSUME NEW n \in Nat, n > 0, NEW s \in Int, (s + 1) % n # 0
  PROVE  (s + 1) % n = (s % n) + 1
<1> DEFINE a == s \div n
           r == s % n
<1>1. a \in Int /\ r \in 0 .. n - 1 /\ s = n * a + r
  BY DivMod
<1> HIDE DEF a, r
<1>2. n * a + n = n * (a + 1) /\ a + 1 \in Int /\ n * a \in Int /\ n * (a + 1) \in Int
  BY <1>1, Distr
<1>3. CASE r = n - 1
  <2>1. s + 1 = n * (a + 1) + 0 /\ 0 \in 0 .. n - 1
    BY <1>1, <1>2, <1>3
  <2>2. (s + 1) % n = 0
    BY <1>2, <2>1, ModOf
  <2> QED
    BY <2>2
<1>4. CASE r # n - 1
  <2>1. s + 1 = n * a + (r + 1) /\ r + 1 \in 0 .. n - 1
    BY <1>1, <1>2, <1>4
  <2>2. (s + 1) % n = r + 1
    BY <1>1, <2>1, ModOf
  <2> QED
    BY <2>2 DEF r
<1> QED
  BY <1>3, <1>4

\* A number that lies a multiple of n behind a position has that remainder.
LEMMA ModZero ==
  ASSUME NEW n \in Nat, n > 0, NEW s \in Int, NEW o \in 0 .. n - 1, (s - o) % n = 0
  PROVE  s % n = o
<1> DEFINE a == (s - o) \div n
<1>1. s - o \in Int
  OBVIOUS
<1>2. a \in Int /\ s - o = n * a + 0
  BY <1>1, DivMod
<1> HIDE DEF a
<1>3. n * a \in Int
  BY <1>2
<1>4. s = n * a + o
  BY <1>2, <1>3
<1> QED
  BY <1>2, <1>4, ModOf

\* What is left of the last period behind an offset, when the counter wraps
\* around after m slots, is less than a period and the remainder of m together.
LEMMA WrapBound ==
  ASSUME NEW n \in Nat, n > 0, NEW m \in Nat, NEW o \in 0 .. n - 1
  PROVE  o + ((m - 1 - o) % n) < n + (m % n)
<1> DEFINE a == m \div n
           r == m % n
<1>1. a \in Int /\ r \in 0 .. n - 1 /\ m = n * a + r
  BY DivMod
<1> HIDE DEF a, r
<1>2. n * a - n = n * (a - 1) /\ a - 1 \in Int /\ n * a \in Int /\ n * (a - 1) \in Int
  BY <1>1, Distr
<1>3. CASE o <= r - 1
  <2>1. m - 1 - o = n * a + (r - 1 - o) /\ r - 1 - o \in 0 .. n - 1
    BY <1>1, <1>2, <1>3
  <2>2. (m - 1 - o) % n = r - 1 - o
    BY <1>1, <2>1, ModOf
  <2> QED
    BY <1>1, <2>2 DEF r
<1>4. CASE o > r - 1
  <2>1. m - 1 - o = n * (a - 1) + (n + r - 1 - o) /\ n + r - 1 - o \in 0 .. n - 1
    BY <1>1, <1>2, <1>4
  <2>2. (m - 1 - o) % n = n + r - 1 - o
    BY <1>2, <2>1, ModOf
  <2> QED
    BY <1>1, <2>2 DEF r
<1> QED
  BY <1>1, <1>3, <1>4

\* One step of the counter c of range m, for a UE that waited no longer than
\* the bound says and whose turn it is not.
LEMMA WaitsOn ==
  ASSUME NEW n \in Nat, n > 0, NEW m \in Nat, n <= m, NEW c \in 0 .. m - 1,
         NEW o \in 0 .. n - 1, NEW w \in Nat,
         w <= (IF c >= o THEN (c - o) % n ELSE c + 1 + ((m - 1 - o) % n)),
         ((c + 1) % m) % n # o
  PROVE  w + 1 <= (IF (c + 1) % m >= o THEN (((c + 1) % m) - o) % n
                                       ELSE ((c + 1) % m) + 1 + ((m - 1 - o) % n))
<1> DEFINE rest == (m - 1 - o) % n
<1>1. m - 1 - o \in Int /\ rest \in Int
  BY DivMod
<1>2. CASE c + 1 < m
  <2>1. (c + 1) % m = c + 1
    BY <1>2
  <2>2. (c + 1) % n # o
    BY <2>1
  <2>3. CASE c >= o
    <3>1. (c + 1 - o) % n # 0
      BY <2>2, ModZero
    <3>2. (c - o) + 1 = c + 1 - o /\ c - o \in Int
      OBVIOUS
    <3>3. (c + 1 - o) % n = ((c - o) % n) + 1
      BY <3>1, <3>2, ModNext
    <3>4. (c - o) % n \in Int
      BY <3>2, DivMod
    <3> QED
      BY <2>1, <2>3, <3>3, <3>4
  <2>4. CASE c < o
    <3>1. c + 1 \in 0 .. n - 1
      BY <2>4
    <3>2. (c + 1) % n = c + 1
      BY <3>1
    <3>3. c + 1 < o
      BY <2>2, <2>4, <3>2
    <3> HIDE DEF rest
    <3>4. w <= c + 1 + rest
      BY <2>4 DEF rest
    <3>5. w + 1 <= (c + 1) + 1 + rest
      BY <1>1, <3>4
    <3> QED
      BY <2>1, <3>3, <3>5 DEF rest
  <2> QED
    BY <2>3, <2>4
<1>3. CASE c + 1 = m
  <2>1. (c + 1) % m = 0
    BY <1>3
  <2>2. 0 % n = 0
    OBVIOUS
  <2>3. o > 0
    BY <2>1, <2>2
  <2>4. c >= o /\ c - o = m - 1 - o
    BY <1>3
  <2>5. w <= rest
    BY <2>4
  <2> HIDE DEF rest
  <2>6. w + 1 <= 0 + 1 + rest
    BY <1>1, <2>5
  <2> QED
    BY <2>1, <2>3, <2>6 DEF rest
<1> QED
  BY <1>2, <1>3

\* The UEs that DoScheduleSrs finds for the value of the counter: those whose
\* offset is the phase of the common period, and there is at most one.
LEMMA MatchingUnique ==
  ASSUME IInv, ~aborted, NEW b \in ueMap, NEW k,
         NEW u \in Matching(b, k), NEW v \in Matching(b, k)
  PROVE  u = v
BY DEF IInv, Matching, NoSharedSlot

\* A slot with SRS keeps the bound: the UE whose turn it is sounds, and every
\* other UE waits one slot more.
LEMMA SchedulePhase ==
  ASSUME IInv, Phase, DoScheduleSrs
  PROVE  Phase'
<1> SUFFICES ASSUME NEW u \in ueMap PROVE since'[u] <= Waited(srsOffset[u])'
  BY DEF Phase, DoScheduleSrs
<1> USE CounterAssumption, PeriodicityAssumption
<1> DEFINE P == periodicity
           c == srsSlotCounter
           o == srsOffset[u]
<1>1. /\ P \in Nat /\ P > 0 /\ CounterMod \in Nat /\ P <= CounterMod
      /\ c \in 0 .. CounterMod - 1
      /\ o \in 0 .. P - 1
      /\ since[u] \in Nat
      /\ u \in UE /\ ~aborted
  BY DEF IInv, TypeOK, NoSharedSlot, Offsets, DoScheduleSrs
<1>2. srsSlotCounter' = (c + 1) % CounterMod /\ periodicity' = P /\ srsOffset'[u] = o
  BY DEF DoScheduleSrs, NextCounter
<1>3. Waited(srsOffset[u])' =
        IF (c + 1) % CounterMod >= o
        THEN (((c + 1) % CounterMod) - o) % P
        ELSE ((c + 1) % CounterMod) + 1 + ((CounterMod - 1 - o) % P)
  BY <1>2 DEF Waited
<1>4. since[u] <= IF c >= o THEN (c - o) % P ELSE c + 1 + ((CounterMod - 1 - o) % P)
  BY <1>1 DEF Phase, Waited
<1>5. CASE ((c + 1) % CounterMod) % P = o
  <2>1. \A b \in ueMap : u \in Matching(b, NextCounter)
    BY <1>1, <1>5 DEF IInv, SamePeriodicity, Matching, NextCounter
  <2>2. \A b \in ueMap : \A s \in Matching(b, NextCounter) : s = u
    BY <1>1, <2>1, MatchingUnique
  <2>3. since' = [v \in UE |-> IF v \in ueMap \ {u} THEN since[v] + 1 ELSE 0]
    <3>1. PICK b \in ueMap :
            \E s \in Matching(b, NextCounter) :
              since' = [v \in UE |-> IF v \in ueMap \ {s} THEN since[v] + 1 ELSE 0]
      BY <2>1 DEF DoScheduleSrs
    <3> QED
      BY <2>2, <3>1
  <2>4. since'[u] = 0
    BY <1>1, <2>3
  <2>5. (c + 1) % CounterMod \in 0 .. CounterMod - 1
    BY <1>1, DivMod
  <2>6. (((c + 1) % CounterMod) - o) % P \in Nat /\ (CounterMod - 1 - o) % P \in Nat
    BY <1>1, <2>5, DivMod
  <2> QED
    BY <1>1, <1>3, <2>4, <2>5, <2>6
<1>6. CASE ((c + 1) % CounterMod) % P # o
  <2>1. since'[u] = since[u] + 1 \/ since'[u] = 0
    BY <1>1 DEF DoScheduleSrs
  <2>2. since[u] + 1 <= Waited(srsOffset[u])'
    <3> HIDE DEF P, c, o
    <3>1. CounterMod \in Nat /\ P \in Nat /\ P > 0 /\ P <= CounterMod /\ c \in 0 .. CounterMod - 1
          /\ o \in 0 .. P - 1 /\ since[u] \in Nat
      BY <1>1
    <3>2. ((c + 1) % CounterMod) % P # o
      BY <1>6
    <3>3. since[u] <= IF c >= o THEN (c - o) % P ELSE c + 1 + ((CounterMod - 1 - o) % P)
      BY <1>4
    <3>4. since[u] + 1 <= IF (c + 1) % CounterMod >= o
                          THEN (((c + 1) % CounterMod) - o) % P
                          ELSE ((c + 1) % CounterMod) + 1 + ((CounterMod - 1 - o) % P)
      BY <3>1, <3>2, <3>3, WaitsOn
    <3> QED
      BY <3>4, <1>3
  <2>3. 0 <= Waited(srsOffset[u])'
    <3>1. (c + 1) % CounterMod \in 0 .. CounterMod - 1
      BY <1>1, DivMod
    <3>2. (((c + 1) % CounterMod) - o) % P \in Nat /\ (CounterMod - 1 - o) % P \in Nat
      BY <1>1, <3>1, DivMod
    <3> QED
      BY <1>1, <1>3, <3>1, <3>2
  <2> QED
    BY <2>1, <2>2, <2>3
<1> QED
  BY <1>5, <1>6

\* What a UE may have waited is never negative.
LEMMA WaitedNat == IInv /\ ~aborted => \A u \in ueMap : 0 <= Waited(srsOffset[u])
<1> SUFFICES ASSUME IInv, ~aborted, NEW u \in ueMap PROVE 0 <= Waited(srsOffset[u])
  OBVIOUS
<1> USE CounterAssumption, PeriodicityAssumption
<1> DEFINE o == srsOffset[u]
<1>1. /\ periodicity \in Nat /\ periodicity > 0 /\ CounterMod \in Nat
      /\ srsSlotCounter \in Nat /\ o \in Nat
  BY DEF IInv, TypeOK
<1>2. srsSlotCounter - o \in Int /\ CounterMod - 1 - o \in Int
  BY <1>1
<1>3. (srsSlotCounter - o) % periodicity \in Nat /\ (CounterMod - 1 - o) % periodicity \in Nat
  BY <1>1, <1>2, DivMod
<1> QED
  BY <1>1, <1>3 DEF Waited

\* Every step keeps the bound: a UE that gets an offset starts to wait with it.
LEMMA NextPhase ==
  ASSUME IInv, Phase, [Next]_vars
  PROVE  Phase'
<1>i. IInv'
  BY NextIInv
<1>w. (IInv /\ ~aborted => \A u \in ueMap : 0 <= Waited(srsOffset[u]))'
  BY WaitedNat, PTL
<1>1. ASSUME NEW u \in UE, DoCschedUeConfigReq(u), ~aborted', NEW v \in ueMap'
      PROVE  since'[v] <= Waited(srsOffset[v])'
  <2>1. 0 <= Waited(srsOffset[v])'
    BY <1>i, <1>1, <1>w
  <2>2. ueMap' = ueMap \cup {u} /\ v \in UE /\ srsSlotCounter' = srsSlotCounter /\ ~aborted
    BY <1>1 DEF DoCschedUeConfigReq, IInv, TypeOK
  <2>3. CASE TakeOffset(u)
    <3>1. CASE v = u
      BY <2>1, <2>2, <2>3, <3>1 DEF TakeOffset, IInv, TypeOK
    <3>2. CASE v # u
      <4>1. v \in ueMap /\ since'[v] = since[v] /\ srsOffset'[v] = srsOffset[v]
            /\ periodicity' = periodicity
        BY <2>2, <2>3, <3>2 DEF TakeOffset, IInv, TypeOK
      <4> QED
        BY <2>2, <4>1 DEF Phase, Waited
    <3> QED
      BY <3>1, <3>2
  <2>4. CASE GrowPeriod(ueMap \cup {u})
    <3>1. since'[v] = 0
      BY <1>1, <2>2, <2>4 DEF GrowPeriod, Reassign
    <3> QED
      BY <2>1, <3>1
  <2>5. CASE NoLongerPeriod
    BY <1>1, <2>5 DEF NoLongerPeriod
  <2> QED
    BY <1>1, <2>3, <2>4, <2>5 DEF DoCschedUeConfigReq
<1>2. ASSUME NEW u \in UE, DoCschedUeReleaseReq(u) PROVE Phase'
  <2>1. ASSUME NEW v \in ueMap' PROVE since'[v] <= Waited(srsOffset[v])'
    <3>1. /\ v \in ueMap /\ since'[v] = since[v] /\ srsOffset'[v] = srsOffset[v]
          /\ UNCHANGED <<periodicity, srsSlotCounter>> /\ ~aborted
      BY <1>2, <2>1 DEF DoCschedUeReleaseReq, IInv, TypeOK
    <3> QED
      BY <3>1 DEF Phase, Waited
  <2> QED
    BY <2>1 DEF Phase
<1>3. CASE DecreasePeriodicity
  <2>1. ASSUME NEW v \in ueMap', ~aborted' PROVE since'[v] <= Waited(srsOffset[v])'
    <3>1. since'[v] = 0
      BY <1>3, <2>1 DEF DecreasePeriodicity, Reassign, IInv, TypeOK
    <3> QED
      BY <1>i, <2>1, <3>1, <1>w
  <2> QED
    BY <2>1 DEF Phase
<1>4. CASE DoScheduleSrs
  BY <1>4, SchedulePhase
<1>5. CASE UNCHANGED vars
  BY <1>5 DEF vars, ueVars, Phase, Waited
<1>6. (\E u \in UE : DoCschedUeConfigReq(u)) => Phase'
  BY <1>1 DEF Phase
<1> QED
  BY <1>2, <1>3, <1>4, <1>5, <1>6 DEF Next

\* A connected UE sounds once per period, also across the wrap-around of
\* m_srsSlotCounter, where it waits at most the left over part of a period
\* longer, for any period that the counter can count out.
THEOREM SoundsOncePerPeriod == Spec => []SrsGap
<1>1. Init => Phase
  BY DEF Init, Phase
<1>2. IInv /\ Phase => SrsGap
  <2> SUFFICES ASSUME IInv, Phase, ~aborted, NEW u \in ueMap
               PROVE  since[u] < periodicity + (CounterMod % periodicity)
    BY DEF SrsGap
  <2> USE CounterAssumption, PeriodicityAssumption
  <2> DEFINE P == periodicity
             c == srsSlotCounter
             o == srsOffset[u]
             rest == (CounterMod - 1 - o) % P
  <2>1. /\ P \in Nat /\ P > 0 /\ CounterMod \in Nat /\ c \in Nat /\ o \in 0 .. P - 1
        /\ since[u] \in Nat
    BY DEF IInv, TypeOK, NoSharedSlot, Offsets
  <2>2. since[u] <= IF c >= o THEN (c - o) % P ELSE c + 1 + rest
    BY DEF Phase, Waited
  <2>3. CounterMod % P \in Nat /\ rest \in Nat /\ c - o \in Int
    BY <2>1, DivMod
  <2>4. (c - o) % P \in 0 .. P - 1
    BY <2>1, <2>3, DivMod
  <2>5. o + rest < P + (CounterMod % P)
    BY <2>1, WrapBound
  <2> HIDE DEF rest, P, c, o
  <2>6. since[u] < P + (CounterMod % P)
    BY <2>1, <2>2, <2>3, <2>4, <2>5
  <2> QED
    BY <2>6 DEF P
<1>3. IInv /\ Phase /\ [Next]_vars => Phase'
  BY NextPhase
<1> QED
  BY <1>1, <1>2, <1>3, InitIInv, NextIInv, PTL DEF Spec

=============================================================================
