----------------------------- MODULE SrsOffsets -----------------------------
(***************************************************************************)
(* The assignment of Sounding Reference Signal (SRS) periods and offsets   *)
(* in the gNB scheduler: NrMacSchedulerSrsDefault, and its callers         *)
(* DoCschedUeConfigReq, DoCschedUeReleaseReq and DoScheduleSrs of          *)
(* NrMacSchedulerNs3.                                                      *)
(*                                                                         *)
(* Every connected UE owns one offset below a period that all the UEs      *)
(* share.  In the slots that carry SRS a counter is advanced, and the UE   *)
(* whose offset is the counter modulo the period sounds the channel.       *)
(***************************************************************************)
EXTENDS Integers, Sequences, FiniteSets, Functions

CONSTANTS
  UE,                   \* the UEs that may attach to the cell
  StandardPeriodicity,  \* the table of legal periods
  StartingPeriodicity,  \* the attribute "StartingPeriodicity"
  CounterMod            \* m_srsSlotCounter is an unsigned of this range

ASSUME PeriodicityAssumption ==
  /\ StandardPeriodicity \subseteq Nat \ {0}
  /\ IsFiniteSet(StandardPeriodicity)
  /\ StartingPeriodicity \in StandardPeriodicity

\* The table ends at 2560, an unsigned at 2^32 - 1: every period is counted out.
ASSUME CounterAssumption ==
  /\ CounterMod \in Nat \ {0}
  /\ \A p \in StandardPeriodicity : p <= CounterMod

VARIABLES
  periodicity,     \* m_periodicity
  available,       \* m_availableOffsetValues, a stack whose top is the last
  ueMap,           \* the RNTIs in m_ueMap
  srsPeriodicity,  \* m_srsPeriodicity of each UE, 0 until one is assigned
  srsOffset,       \* m_srsOffset of each UE, 0 until one is assigned
  srsSlotCounter,  \* m_srsSlotCounter
  since,           \* history: SRS slots since the UE sounded or got its offset
  aborted          \* NS_ASSERT(ret) of DoCschedUeConfigReq has failed

ueVars == <<ueMap, srsPeriodicity, srsOffset, since>>
vars == <<periodicity, available, srsSlotCounter, aborted, ueVars>>

Offsets(p) == 0 .. p - 1

\* Every order the shuffle can leave the elements of S in.
Orders(S) == Bijection(1 .. Cardinality(S), S)

\* What SetStartingPeriodicity leaves on the stack for a period p.
Shuffled(p) == Orders(Offsets(p))

-----------------------------------------------------------------------------

Init ==
  /\ periodicity = StartingPeriodicity
  /\ available \in Shuffled(StartingPeriodicity)
  /\ ueMap = {}
  /\ srsPeriodicity = [u \in UE |-> 0]
  /\ srsOffset = [u \in UE |-> 0]
  /\ srsSlotCounter = 0
  /\ since = [u \in UE |-> 0]
  /\ aborted = FALSE

\* SetStartingPeriodicity(p), then ReassignSrsValue over the UEs in ues: a
\* fresh shuffle of the offsets below p is popped once per UE, in the order of
\* the hash map.  Which UE gets which offset is therefore any injection, and
\* what stays on the stack any order of the others.
Reassign(p, ues) ==
  \E given \in Injection(ues, Offsets(p)) :
    /\ periodicity' = p
    /\ available' \in Orders(Offsets(p) \ Range(given))
    /\ srsPeriodicity' = [u \in UE |-> IF u \in ues THEN p ELSE srsPeriodicity[u]]
    /\ srsOffset' = [u \in UE |-> IF u \in ues THEN given[u] ELSE srsOffset[u]]
    /\ since' = [u \in UE |-> IF u \in ues THEN 0 ELSE since[u]]

\* AddUe pops the back of the stack and answers it with the present period.
\* Fault: the offset stays on the stack.
FaultNoPop == available

Popped == [i \in 1 .. Len(available) - 1 |-> available[i]]
AnsweredPeriod == periodicity

TakeOffset(u) ==
  /\ available # <<>>
  /\ available' = Popped
  /\ srsPeriodicity' = [srsPeriodicity EXCEPT ![u] = AnsweredPeriod]
  /\ srsOffset' = [srsOffset EXCEPT ![u] = available[Len(available)]]
  /\ since' = [since EXCEPT ![u] = 0]
  /\ UNCHANGED <<periodicity, aborted>>

\* IncreasePeriodicity moves to the upper bound of the period in the table.
LongerPeriods == {q \in StandardPeriodicity : q > periodicity}

GrowPeriod(ues) ==
  /\ available = <<>>
  /\ \E q \in LongerPeriods :
       /\ \A r \in LongerPeriods : q <= r
       /\ Reassign(q, ues)
  /\ UNCHANGED aborted

\* IncreasePeriodicity returned false: the assertion in the caller stops the
\* program, with the UE already in the map.
NoLongerPeriod ==
  /\ available = <<>>
  /\ LongerPeriods = {}
  /\ aborted' = TRUE
  /\ UNCHANGED <<periodicity, available, srsPeriodicity, srsOffset, since>>

\* A UE that is not in the map is inserted in it first.  For a UE that is
\* known (the request comes again in every downlink slot) only the beam is
\* updated, which changes nothing here.
DoCschedUeConfigReq(u) ==
  /\ ~aborted
  /\ u \notin ueMap
  /\ ueMap' = ueMap \cup {u}
  /\ \/ TakeOffset(u)
     \/ GrowPeriod(ueMap \cup {u})
     \/ NoLongerPeriod
  /\ UNCHANGED srsSlotCounter

\* RemoveUe gives the offset back to the top of the stack.
\* Fault: it does not.
FaultNoReturn(u) == available

Returned(u) == Append(available, srsOffset[u])

DoCschedUeReleaseReq(u) ==
  /\ ~aborted
  /\ u \in ueMap
  /\ available' = Returned(u)
  /\ ueMap' = ueMap \ {u}
  /\ srsPeriodicity' = [srsPeriodicity EXCEPT ![u] = 0]
  /\ srsOffset' = [srsOffset EXCEPT ![u] = 0]
  /\ since' = [since EXCEPT ![u] = 0]
  /\ UNCHANGED <<periodicity, srsSlotCounter, aborted>>

\* DecreasePeriodicity is offered by the interface, though the scheduler never
\* calls it.  It moves to the lower bound of the period in the table.
DecreasePeriodicity ==
  /\ ~aborted
  /\ LET candidates == {q \in StandardPeriodicity : q >= periodicity}
     IN  \E q \in candidates :
           /\ \A r \in candidates : q <= r
           /\ Reassign(q, ueMap)
  /\ UNCHANGED <<ueMap, srsSlotCounter, aborted>>

\* The UEs DoScheduleSrs finds for a value of the counter, when the first
\* entry of the hash map is b.  Fault: the configured period is the modulus.
FaultMatching(b, counter) ==
  {u \in ueMap : srsOffset[u] = counter % StartingPeriodicity}

Matching(b, counter) ==
  {u \in ueMap : srsOffset[u] = counter % srsPeriodicity[b]}

\* m_srsSlotCounter++ on an unsigned integer.  Fault: a width that never wraps.
FaultCounter == srsSlotCounter + 1

NextCounter == (srsSlotCounter + 1) % CounterMod

\* A slot that carries SRS (DoScheduleUl): the counter advances, and the last
\* matching UE of the map, if there is one, is granted the SRS symbols.
DoScheduleSrs ==
  /\ ~aborted
  /\ srsSlotCounter' = NextCounter
  /\ \/ /\ ueMap = {}
        /\ UNCHANGED since
     \/ \E b \in ueMap :
          \/ /\ Matching(b, NextCounter) = {}
             /\ since' = [u \in UE |-> IF u \in ueMap THEN since[u] + 1 ELSE 0]
          \/ \E s \in Matching(b, NextCounter) :
               since' = [u \in UE |-> IF u \in ueMap \ {s} THEN since[u] + 1 ELSE 0]
  /\ UNCHANGED <<periodicity, available, ueMap, srsPeriodicity, srsOffset, aborted>>

Next ==
  \/ \E u \in UE : DoCschedUeConfigReq(u) \/ DoCschedUeReleaseReq(u)
  \/ DecreasePeriodicity
  \/ DoScheduleSrs

Spec == Init /\ [][Next]_vars

-----------------------------------------------------------------------------

\* The types of the variables.
TypeOK ==
  /\ periodicity \in StandardPeriodicity
  /\ available \in Seq(Nat)
  /\ ueMap \subseteq UE
  /\ srsPeriodicity \in [UE -> Nat]
  /\ srsOffset \in [UE -> Nat]
  /\ srsSlotCounter \in 0 .. CounterMod - 1
  /\ since \in [UE -> Nat]
  /\ aborted \in BOOLEAN

\* Two UEs never sound in the same slot, "the constraint" of the interface:
\* whatever mix of attachments, releases and reassignments came before, the
\* offsets in use are distinct and below the period, so that the value of the
\* counter selects at most one UE.
NoSharedSlot ==
  ~aborted =>
    /\ \A u, v \in ueMap : srsOffset[u] = srsOffset[v] => u = v
    /\ \A u \in ueMap : srsOffset[u] \in Offsets(periodicity)

\* No offset is lost and none is on the stack twice, or on the stack while a
\* UE uses it: releases and attachments recycle the offsets for ever.
NoOffsetLost ==
  ~aborted =>
    /\ IsInjective(available)
    /\ Range(available) \cap {srsOffset[u] : u \in ueMap} = {}
    /\ Range(available) \cup {srsOffset[u] : u \in ueMap} = Offsets(periodicity)

\* The period is lengthened, or the program stopped by the assertion, only
\* when every offset of the present period belongs to a connected UE.
GrowsOnlyWhenFull ==
  [][(periodicity' # periodicity \/ aborted' # aborted) =>
        \A o \in Offsets(periodicity) : \E u \in ueMap : srsOffset[u] = o]_vars

\* A connected UE sounds once per period.  When the counter wraps around ("don't
\* worry about wrap around") the phase jumps, and the wait grows by the part of
\* a period that the range of the counter leaves over, never by more.
SrsGap ==
  ~aborted =>
    \A u \in ueMap : since[u] < periodicity + (CounterMod % periodicity)
=============================================================================
