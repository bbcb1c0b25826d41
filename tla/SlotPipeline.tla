---------------------------- MODULE SlotPipeline ----------------------------
(***************************************************************************)
(* The slot pipeline of one bandwidth part: the gNB PHY that starts a slot *)
(* (nr-gnb-phy.cc), the scheduler entry points ScheduleUl and ScheduleDl    *)
(* it reaches through the MAC (nr-mac-scheduler-ns3.cc), and the UE PHY     *)
(* that executes the DCIs (nr-ue-phy.cc).  An uplink slot T is planned in   *)
(* slot T - k2 - L, announced in slot T - k2 and on air in slot T; the      *)
(* downlink of the same slot is planned in T - L, around the symbols the    *)
(* uplink has booked in m_ulAllocationMap.                                  *)
(***************************************************************************)
EXTENDS Integers, FiniteSets, Sequences

CONSTANTS
  Configs,     \* configurations: [tdd: sequence of slot types, primary: BOOLEAN,
               \* busy: bound, the slots for which there is SRS or data to schedule]
  UE,          \* the UEs
  N2,          \* attribute N2Delay
  Sym,         \* symbols per slot
  SrsSym,      \* attribute SrsSymbols
  SrsTypes,    \* slot types with SRS: EnableSrsInFSlots, EnableSrsInUlSlots
  FixedMcsUl,  \* attribute FixedMcsUl
  KeepSym,     \* symbols that fit in the 25 us a grant survives without data
  Broadcast,   \* slots in which a primary PHY queues the MIB or the SIB1
  FirstUe,     \* first slot in which a UE can become known to the scheduler
  LastUe,      \* bound: last such slot
  MaxSlot,     \* bound: the last slot started
  Ahead        \* bound: how far ahead of the current slot anything is planned

L == 2         \* GetL1L2CtrlLatency()
DlCtrl == 1    \* attribute DlCtrlSymbols, default
UlCtrl == 1    \* attribute UlCtrlSymbols, default

Slot == 0 .. MaxSlot + Ahead

(***************************************************************************)
(* The structures SetTddPattern derives from the pattern.                   *)
(***************************************************************************)
Len0(pat) == 0 .. Len(pat) - 1
TypeAt(pat, s) == pat[(s % Len(pat)) + 1]

\* An F slot, or both directions, or neither.
IsTdd(pat) ==
  LET has(t) == \E i \in 1 .. Len(pat) : pat[i] = t
  IN  has("F") \/ (has("UL") <=> has("DL"))

\* FDD patterns are generated as if every slot were F.
GenType(pat, p) == IF IsTdd(pat) THEN TypeAt(pat, p) ELSE "F"

\* ReturnDciSlot: k is the first distance from n on at which a slot before p
\* is not UL.
FirstDciSlot(pat, p, n, k) ==
  /\ GenType(pat, p - k) # "UL"
  /\ \A j \in n .. k - 1 : GenType(pat, p - j) = "UL"
FaultDciDelay(pat, p, n) == n
DciDelay(pat, p, n) == CHOOSE k \in n .. Ahead - L : FirstDciSlot(pat, p, n, k)

HasUl(pat, p) == GenType(pat, p) \in {"UL", "F"} /\ TypeAt(pat, p) # "S"
HasDl(pat, p) == GenType(pat, p) # "UL"
HasUlSlot(pat) == \E i \in 1 .. Len(pat) : pat[i] \in {"F", "UL"}

\* m_toSendUl, m_toSendDl, m_generateUl and m_generateDl of position q.
FaultSendN2(pat, q) == {N2}
FaultSendTwice(pat, q) == {N2, N2 + 1}
ToSendUl(pat, q) ==
  {DciDelay(pat, p, N2) : p \in {p \in Len0(pat) :
      HasUl(pat, p) /\ (p - DciDelay(pat, p, N2)) % Len(pat) = q}}

ToSendDl(pat, q) ==
  {DciDelay(pat, p, 0) : p \in {p \in Len0(pat) :
      HasDl(pat, p) /\ (p - DciDelay(pat, p, 0)) % Len(pat) = q}}

GenerateUl(pat, q) ==
  IF ~IsTdd(pat) /\ ~HasUlSlot(pat) THEN {}
  ELSE {DciDelay(pat, p, N2) + L : p \in {p \in Len0(pat) :
          HasUl(pat, p) /\ (p - DciDelay(pat, p, N2) - L) % Len(pat) = q}}

GenerateDl(pat, q) ==
  IF ~IsTdd(pat) /\ HasUlSlot(pat) THEN {}
  ELSE {DciDelay(pat, p, 0) + L : p \in {p \in Len0(pat) :
          HasDl(pat, p) /\ (p - DciDelay(pat, p, 0) - L) % Len(pat) = q}}

ASSUME PipelineAssumption ==
  /\ Sym \in Nat /\ SrsSym \in Nat \ {0} /\ SrsSym + DlCtrl + UlCtrl <= Sym /\ Sym < 256
  /\ N2 \in Nat /\ FirstUe \in Nat /\ FirstUe >= N2 /\ LastUe \in Nat
  /\ KeepSym \in Nat /\ KeepSym < Sym
  /\ MaxSlot \in Nat /\ Ahead \in Nat /\ Ahead >= L + N2 /\ Broadcast \subseteq Nat
  /\ SrsTypes \subseteq {"F", "UL"} /\ FixedMcsUl \in BOOLEAN
  /\ \A c \in Configs :
       /\ c.tdd \in Seq({"DL", "S", "F", "UL"}) /\ Len(c.tdd) > 0 /\ c.primary \in BOOLEAN /\ c.busy \subseteq Nat
       /\ \A p \in Len0(c.tdd), n \in {0, N2} : \E k \in n .. Ahead - L : FirstDciSlot(c.tdd, p, n, k)

VARIABLES
  conf,       \* the configuration
  slot,       \* m_currentSlot of the gNB
  phase,      \* "idle" before StartSlot, "air" after it, "end" after the uplink
  channel,    \* m_channelStatus, as StartSlot finds it
  slotAlloc,  \* m_slotAllocInfo: per slot its symbols and VarTtis
  onAir,      \* the VarTtis StartSlot scheduled in the current slot
  ulMap,      \* m_ulAllocationMap: per slot the UL symbols and the data blocks
  cqi,        \* m_ulCqiReceived: the uplink CQIs waiting in the MAC
  attached,   \* m_ueMap
  dci,        \* per UE the DCIs on air
  ueSlot,     \* m_currentSlot of the UEs
  ueAlloc,    \* m_slotAllocInfo of the UEs
  ueCurr      \* m_currSlotAllocInfo of the UEs

vars == <<conf, slot, phase, channel, slotAlloc, onAir, ulMap, cqi, attached,
          dci, ueSlot, ueAlloc, ueCurr>>

tdd == conf.tdd
pos == slot % Len(tdd)

(***************************************************************************)
(* Allocations.  A column is one VarTti, or the VarTtis of several UEs that *)
(* share its symbols.                                                       *)
(***************************************************************************)
VarTti == [type : {"CTRL", "DATA", "SRS"}, fmt : {"DL", "UL"}, start : 0 .. Sym - 1,
           num : 1 .. Sym, ues : SUBSET UE]
NoAlloc == [n |-> 0, ttis |-> {}]
NoElem == [tot |-> 0, blocks |-> {}]

Ctrl(fmt, s, num) == [type |-> "CTRL", fmt |-> fmt, start |-> s, num |-> num, ues |-> {}]
DlCtrlTti == Ctrl("DL", 0, DlCtrl)
FaultUlCtrlTti == Ctrl("UL", Sym, UlCtrl)
UlCtrlTti == Ctrl("UL", Sym - 1, UlCtrl)
\* DoScheduleSrs: SrsSym allocations of one symbol each.
Srs(u) == {[type |-> "SRS", fmt |-> "UL", start |-> Sym - UlCtrl - i, num |-> 1, ues |-> {u}] :
             i \in 1 .. SrsSym}

\* The ways to cut the symbols from .. to - 1 in adjacent columns: start -> length.
Tilings(from, to) ==
  {f \in UNION {[S -> 1 .. to - from] : S \in SUBSET (from .. to - 1)} :
     /\ from = to \/ from \in DOMAIN f
     /\ \A s \in DOMAIN f : s + f[s] = to \/ s + f[s] \in DOMAIN f
     /\ \A s, t \in DOMAIN f : s < t => s + f[s] <= t}
\* The owners of the columns.  Of new data, and in the downlink of
\* retransmissions too, a UE gets one DCI per slot.
Owners(S, ues) ==
  {g \in [S -> SUBSET ues \ {{}}] : \A s, t \in S : s # t => g[s] \cap g[t] = {}}

\* In the uplink, the last columns can be retransmissions (ScheduleUlHarq), one
\* DCI each and any number of one UE; a UE that has one, or an SRS in q, gets no
\* new data in the slot.
UlOwners(S, ues, q) ==
  {g \in [S -> SUBSET ues \ {{}}] :
     \E R \in SUBSET S :
       /\ \A r \in R : Cardinality(g[r]) = 1 /\ \A s \in S \ R : s < r
       /\ \A s \in S \ R : /\ \A t \in S \ {s} : g[s] \cap g[t] = {}
                           /\ \A a \in q : g[s] \cap a.ues = {}}
Data(fmt, f, g) ==
  {[type |-> "DATA", fmt |-> fmt, start |-> s, num |-> f[s], ues |-> g[s]] : s \in DOMAIN f}

Contains(A, type, fmt) == \E t \in A : t.type = type /\ t.fmt = fmt
FaultMerge(a, b) == [n |-> b.n, ttis |-> a.ttis \union b.ttis]
Merge(a, b) == [n |-> a.n + b.n, ttis |-> a.ttis \union b.ttis]

(***************************************************************************)
(* DoScheduleUl: UL CTRL in the last symbol, before it the SRS, before that *)
(* the retransmissions and the new data, going backward.                    *)
(***************************************************************************)
UlPlans(type, ues) ==
  LET low == IF type = "F" THEN DlCtrl ELSE 0
      last == Sym - UlCtrl
      srs == {{}} \union IF type \in SrsTypes THEN {Srs(u) : u \in ues} ELSE {}
      top(q) == IF q = {} THEN last ELSE last - SrsSym
      plan(q, first, f, g) ==
        [n |-> UlCtrl + (last - first), first |-> first, blocks |-> DOMAIN f,
         ttis |-> {UlCtrlTti} \union q \union Data("UL", f, g)]
  IN  UNION {UNION {UNION {{plan(q, first, f, g) : g \in UlOwners(DOMAIN f, ues, q)} :
        f \in Tilings(first, top(q))} : first \in low .. top(q)} : q \in srs}

\* The uplink symbols ScheduleDl leaves free: those booked, and the UL CTRL it
\* adds itself to an S slot.
FaultUlSymbols(type, elem) == IF type = "S" THEN UlCtrl ELSE 0
UlSymbols(type, elem) == elem.tot + (IF type = "S" THEN UlCtrl ELSE 0)

\* DoScheduleDl: from the first symbol after the DL CTRL on, in what the
\* uplink left (an uint8_t).
DlPlans(type, elem, ues) ==
  LET used == UlSymbols(type, elem)
      avail == (Sym - DlCtrl - used) % 256
      ctrl == {DlCtrlTti} \union (IF type = "S" THEN {UlCtrlTti} ELSE {})
      plan(len, f, g) ==
        [n |-> DlCtrl + len + (IF type = "S" THEN UlCtrl ELSE 0), used |-> used,
         ttis |-> ctrl \union Data("DL", f, g)]
  IN  UNION {UNION {{plan(len, f, g) : g \in Owners(DOMAIN f, ues)} :
        f \in Tilings(DlCtrl, DlCtrl + len)} : len \in 0 .. avail}

\* DoSchedUlCqiInfoReq for every CQI the MAC has kept.
CqiInfo(m) ==
  IF FixedMcsUl THEN m
  ELSE [s \in Slot |->
         LET left == {b \in m[s].blocks : <<s, b>> \notin cqi}
         IN  IF \A b \in 0 .. Sym - 1 : <<s, b>> \notin cqi THEN m[s]
             ELSE IF left = {} THEN NoElem ELSE [m[s] EXCEPT !.blocks = left]]

(***************************************************************************)
(* CallMacForSlotIndication: first the uplink indications, the first of     *)
(* which hands over the CQIs, then the downlink ones.  Each indication is   *)
(* for a slot of its own; ul and dl are the scheduler's decisions.          *)
(***************************************************************************)
Served(s) == IF s \in conf.busy THEN attached ELSE {}
UlTargets == {slot + k : k \in GenerateUl(tdd, pos)}
DlTargets == {slot + k : k \in GenerateDl(tdd, pos)}

AfterCqi == IF UlTargets = {} THEN ulMap ELSE CqiInfo(ulMap)

AfterUl(ul) ==
  [s \in Slot |-> IF s \in UlTargets
                  THEN [tot |-> AfterCqi[s].tot + ul[s].n,
                        blocks |-> AfterCqi[s].blocks \union ul[s].blocks]
                  ELSE AfterCqi[s]]

\* An entry with no more than the UL CTRL is erased with the downlink of its slot.
FaultAfterDl(m, dl) ==
  [s \in Slot |-> IF s \in DlTargets /\ dl[s].used <= UlCtrl + 1 THEN NoElem ELSE m[s]]
AfterDl(m, dl) ==
  [s \in Slot |-> IF s \notin DlTargets THEN m[s]
                  ELSE IF dl[s].used <= UlCtrl THEN NoElem
                  ELSE [m[s] EXCEPT !.tot = dl[s].used]]

Planned(ul, dl) ==
  [s \in Slot |->
     LET a == IF s = slot THEN NoAlloc ELSE slotAlloc[s]
         b == IF s \in UlTargets THEN Merge(a, ul[s]) ELSE a
     IN  IF s \in DlTargets THEN Merge(b, dl[s]) ELSE b]

UlDecisions ==
  {f \in [UlTargets -> UNION {UlPlans(TypeAt(tdd, s), Served(s)) : s \in UlTargets}] :
     \A s \in UlTargets : f[s] \in UlPlans(TypeAt(tdd, s), Served(s))}

DlDecisions(m) ==
  {f \in [DlTargets -> UNION {DlPlans(TypeAt(tdd, s), m[s], Served(s)) : s \in DlTargets}] :
     \A s \in DlTargets : f[s] \in DlPlans(TypeAt(tdd, s), m[s], Served(s))}

CallMacForSlotIndication ==
  \E ul \in UlDecisions : \E dl \in DlDecisions(AfterUl(ul)) :
    /\ slotAlloc' = Planned(ul, dl)
    /\ ulMap' = AfterDl(AfterUl(ul), dl)
    /\ cqi' = IF UlTargets = {} THEN cqi ELSE {}

(***************************************************************************)
(* NrGnbPhy::StartSlot.                                                     *)
(***************************************************************************)
\* The allocation of the slot, with a DL CTRL when the MIB or the SIB1 needs one.
Current ==
  LET a == slotAlloc[slot]
  IN  IF conf.primary /\ slot \in Broadcast /\ ~Contains(a.ttis, "CTRL", "DL")
      THEN [n |-> a.n + 1, ttis |-> a.ttis \union {DlCtrlTti}]
      ELSE a
HasUlDci ==
  /\ N2 > 0
  /\ \E t \in slotAlloc[slot + N2].ttis : t.type \in {"DATA", "SRS"}
NeedsChannel ==
  \/ \E t \in Current.ttis : t.type = "DATA"
  \/ Contains(Current.ttis, "CTRL", "DL")
  \/ HasUlDci

\* DoCheckOrReleaseChannel: the channel is kept when DL data reaches the end.
KeepsChannel ==
  \E t \in Current.ttis : t.type = "DATA" /\ t.fmt = "DL" /\ Sym - (t.start + t.num) <= KeepSym

\* RetrieveMsgsFromDCIs: DL DCIs for this slot, UL DCIs for the slot k2 later.
Dcis(u) ==
  {[slot |-> slot + k, tti |-> t] : k \in ToSendDl(tdd, pos), t \in
     {t \in Current.ttis : t.type # "CTRL" /\ t.fmt = "DL" /\ u \in t.ues}}
  \union
  UNION {{[slot |-> slot + k, tti |-> t] : t \in
     {t \in (IF k = 0 THEN Current ELSE slotAlloc'[slot + k]).ttis :
        t.type # "CTRL" /\ t.fmt = "UL" /\ u \in t.ues}} : k \in ToSendUl(tdd, pos)}

DoStartSlot ==
  IF Current.ttis = {}
  THEN channel' = "GRANTED" /\ onAir' = {} /\ UNCHANGED dci
  ELSE /\ channel' = IF KeepsChannel THEN "GRANTED" ELSE "TO_LOSE"
       /\ dci' = [u \in UE |-> Dcis(u)]
       /\ onAir' = Current.ttis

\* The only access manager of the repository grants the channel at once.
StartSlot ==
  /\ phase = "idle" /\ slot <= MaxSlot
  /\ phase' = "air"
  /\ CallMacForSlotIndication
  /\ IF channel = "GRANTED" \/ NeedsChannel
     THEN DoStartSlot
     ELSE /\ onAir' = {t \in Current.ttis : t.fmt = "UL" /\ t.type \in {"CTRL", "SRS"}}
          /\ UNCHANGED <<channel, dci>>
  /\ UNCHANGED <<conf, slot, attached, ueSlot, ueAlloc, ueCurr>>

(***************************************************************************)
(* The slot on air: the UEs that hold a grant of an uplink column and have  *)
(* data for it send it, and the gNB reports one CQI per column it receives. *)
(***************************************************************************)
\* A control message goes out in the DL CTRL of its slot, in FDD in that of the
\* bandwidth part the downlink is on.
Carried == ~IsTdd(tdd) \/ Contains(onAir, "CTRL", "DL")
Received == {t \in onAir : t.type = "DATA" /\ t.fmt = "UL" /\ \E u \in t.ues : t \in ueCurr[u]}
UplinkOnAir ==
  /\ phase = "air"
  /\ \A u \in UE : ueSlot[u] = slot /\ (Carried => dci[u] = {})
  /\ phase' = "end"
  /\ \E sent \in SUBSET Received : cqi' = cqi \union {<<slot, t.start>> : t \in sent}
  /\ UNCHANGED <<conf, slot, channel, slotAlloc, onAir, ulMap, attached, dci, ueSlot, ueAlloc, ueCurr>>

\* NrGnbPhy::EndSlot
EndSlot ==
  /\ phase = "end"
  /\ phase' = "idle"
  /\ slot' = slot + 1
  /\ channel' = IF channel = "TO_LOSE" THEN "NONE" ELSE channel
  /\ onAir' = {}
  /\ UNCHANGED <<conf, slotAlloc, ulMap, cqi, attached, dci, ueSlot, ueAlloc, ueCurr>>

\* A UE becomes known to the scheduler (DoCschedUeConfigReq).
AddUe(u) ==
  /\ phase = "idle" /\ slot \in FirstUe .. LastUe /\ u \notin attached
  /\ attached' = attached \union {u}
  /\ UNCHANGED <<conf, slot, phase, channel, slotAlloc, onAir, ulMap, cqi, dci, ueSlot, ueAlloc, ueCurr>>

(***************************************************************************)
(* The UE PHY.                                                              *)
(***************************************************************************)
\* PushCtrlAllocations: the control symbols the pattern gives the slot.
UeCtrl(s) ==
  (IF TypeAt(tdd, s) # "UL" THEN {DlCtrlTti} ELSE {})
  \union (IF TypeAt(tdd, s) # "DL" THEN {UlCtrlTti} ELSE {})

\* NrUePhy::StartSlot
UeStartSlot(u) ==
  /\ phase # "end" /\ slot <= MaxSlot /\ ueSlot[u] = slot - 1
  /\ ueSlot' = [ueSlot EXCEPT ![u] = slot]
  /\ ueCurr' = [ueCurr EXCEPT ![u] = UeCtrl(slot) \union {a.tti : a \in {a \in ueAlloc[u] : a.slot = slot}}]
  /\ ueAlloc' = [ueAlloc EXCEPT ![u] = {a \in @ : a.slot # slot}]
  /\ UNCHANGED <<conf, slot, phase, channel, slotAlloc, onAir, ulMap, cqi, attached, dci>>

\* NrUePhy::PhyCtrlMessagesReceived: a DL DCI is for this slot, a UL DCI for
\* the slot k2 later.
PhyCtrlMessagesReceived(u) ==
  /\ phase = "air" /\ Carried /\ dci[u] # {} /\ ueSlot[u] = slot
  /\ LET now == {d \in dci[u] : d.tti.fmt = "DL" \/ d.slot = ueSlot[u]}
     IN  /\ ueCurr' = [ueCurr EXCEPT ![u] = @ \union {d.tti : d \in now}]
         /\ ueAlloc' = [ueAlloc EXCEPT ![u] = @ \union (dci[u] \ now)]
  /\ dci' = [dci EXCEPT ![u] = {}]
  /\ UNCHANGED <<conf, slot, phase, channel, slotAlloc, onAir, ulMap, cqi, attached, ueSlot>>

Init ==
  /\ conf \in Configs
  /\ slot = 0 /\ phase = "idle" /\ channel = "NONE"
  /\ slotAlloc = [s \in Slot |-> NoAlloc] /\ onAir = {}
  /\ ulMap = [s \in Slot |-> NoElem] /\ cqi = {} /\ attached = {}
  /\ dci = [u \in UE |-> {}] /\ ueSlot = [u \in UE |-> -1]
  /\ ueAlloc = [u \in UE |-> {}] /\ ueCurr = [u \in UE |-> {}]

Next ==
  \/ StartSlot \/ UplinkOnAir \/ EndSlot
  \/ \E u \in UE : AddUe(u) \/ UeStartSlot(u) \/ PhyCtrlMessagesReceived(u)

Spec == Init /\ [][Next]_vars

(***************************************************************************)
(* Properties.                                                              *)
(***************************************************************************)
Grant == [slot : Slot, tti : VarTti]

\* Type invariant.
TypeOK ==
  /\ conf \in Configs /\ slot \in 0 .. MaxSlot + 1 /\ phase \in {"idle", "air", "end"}
  /\ channel \in {"NONE", "GRANTED", "TO_LOSE"}
  /\ slotAlloc \in [Slot -> [n : Nat, ttis : SUBSET VarTti]]
  /\ onAir \subseteq VarTti
  /\ ulMap \in [Slot -> [tot : 0 .. Sym, blocks : SUBSET (0 .. Sym - 1)]]
  /\ cqi \subseteq Slot \X (0 .. Sym - 1) /\ attached \subseteq UE
  /\ dci \in [UE -> SUBSET Grant] /\ ueSlot \in [UE -> -1 .. MaxSlot]
  /\ ueAlloc \in [UE -> SUBSET Grant] /\ ueCurr \in [UE -> SUBSET VarTti]

Disjoint(A) ==
  \A a, b \in A : a # b => a.start + a.num <= b.start \/ b.start + b.num <= a.start

\* "DL and UL allocation will not overlap" (nr-mac-scheduler-ns3.cc, above
\* DoScheduleDl): the uplink of a slot, planned k2 slots before its downlink,
\* the control symbols of the two indications, the SRS and the broadcast DL
\* CTRL never share a symbol, in what is on air and in what is planned.
NoOverlap ==
  /\ Disjoint(onAir)
  /\ \A s \in Slot : Disjoint(slotAlloc[s].ttis)

\* The assertion of GenerateAllocationStatistics: m_numSymAlloc, summed by
\* ScheduleUl, ScheduleDl, Merge and the broadcast DL CTRL, is the number of
\* symbols the allocations cover.
Symbols(A) == UNION {t.start .. t.start + t.num - 1 : t \in A}
Counted ==
  /\ \A s \in Slot : Cardinality(Symbols(slotAlloc[s].ttis)) = slotAlloc[s].n
  /\ phase = "idle" /\ slot <= MaxSlot => Cardinality(Symbols(Current.ttis)) = Current.n

\* When the slot is over, every UE has held exactly what the gNB has executed
\* in it: no allocation on air without its UE, no UE transmitting or
\* listening outside an allocation, although downlink and uplink DCIs travel
\* by different k0 and k2.
UeAgrees ==
  phase = "end" =>
    \A u \in UE :
      /\ {t \in onAir : t.type # "CTRL" /\ u \in t.ues} \subseteq ueCurr[u]
      /\ {t \in ueCurr[u] : t.type # "CTRL"} \subseteq onAir
      /\ {t \in onAir : t.type = "CTRL"} \subseteq ueCurr[u]

\* The assertions of DoSchedUlCqiInfoReq: a CQI the MAC has kept for the
\* scheduler finds the entry of its slot and the block of its first symbol.
CqiFindsAllocation == \A r \in cqi : r[2] \in ulMap[r[1]].blocks

\* A grant is announced once: a DCI on air is not held by the UE already.
DciOnce ==
  \A u \in UE : ueSlot[u] = slot =>
    \A d \in dci[u] : d \notin ueAlloc[u] /\ (d.slot = slot => d.tti \notin ueCurr[u])

\* The assertion of DoStartSlot: when a slot begins, every control message of
\* the slot before has found a DL CTRL to leave in, because DCIs are only due
\* in slots with downlink.
NoMessageLeft == phase = "idle" => \A u \in UE : dci[u] = {}
=============================================================================
