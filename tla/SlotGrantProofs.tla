-------------------------- MODULE SlotGrantProofs --------------------------
(***************************************************************************)
(* Proofs about the two ends of a grant in SlotPipeline: every DCI leaves   *)
(* in the slot the tables give it, once, and what a UE holds for a slot is   *)
(* what the gNB executes in it.                                             *)
(***************************************************************************)
EXTENDS SlotPipelineProofs

USE DEF L, DlCtrl, UlCtrl

\* What an FDD bandwidth part needs for its uplink: it has no S slots, which
\* nobody plans there, and the grants come at least one slot ahead, since
\* StartSlot asks for the channel on behalf of SRS only in that case.
FddPlanned ==
  \A c \in Configs : ~IsTdd(c.tdd) =>
    N2 > 0 /\ \A i \in 1 .. Len(c.tdd) : c.tdd[i] # "S"

(***************************************************************************)
(* The inductive invariant.                                                 *)
(***************************************************************************)
\* The slot in which the uplink grants of slot s are announced.
Announced(s) == s - DciDelay(tdd, s % Len(tdd), N2)

\* What the gNB has for slot s: on air if it is the present one.
AtGnb(s) == IF phase # "idle" /\ s = slot THEN onAir ELSE slotAlloc[s].ttis

\* The grants that u should hold: those of the present slot and those announced
\* for later ones.
Due(u) ==
  {d \in Grant :
     /\ d.slot >= slot /\ d.tti \in AtGnb(d.slot) /\ d.tti.type # "CTRL" /\ u \in d.tti.ues
     /\ IF d.tti.fmt = "UL" THEN Announced(d.slot) < Nxt ELSE d.slot < Nxt}

\* The grants that u holds, or that are on their way to it.
Present(u) == {d \in Grant : d.slot = slot /\ ueSlot[u] = slot /\ d.tti \in ueCurr[u]
                             /\ d.tti.type # "CTRL"}
Held(u) == ueAlloc[u] \union dci[u] \union Present(u)

\* Gained and kept: a UE holds what it should.
HoldsDue == \A u \in UE : Held(u) = Due(u)

\* What kinds of allocations a slot can have.
KindOf(t, s) ==
  \/ t \in UeCtrl(s)
  \/ /\ t.type # "CTRL" /\ t.fmt = "UL"
     /\ TypeAt(tdd, s) \in {"UL", "F"} /\ (IsTdd(tdd) \/ HasUlSlot(tdd))
     /\ t.ues # {} => Announced(s) >= L + N2
  \/ /\ t.type = "DATA" /\ t.fmt = "DL" /\ TypeAt(tdd, s) # "UL" /\ s >= L
     /\ IsTdd(tdd) \/ ~HasUlSlot(tdd)
Kinds == \A s \in Slot : \A t \in slotAlloc[s].ttis : KindOf(t, s)

\* An FDD uplink slot is never empty once the first one has been planned.
FddUlPlanned ==
  ~IsTdd(tdd) /\ HasUlSlot(tdd) /\ FddPlanned =>
    \A s \in Slot : (N2 + L <= s /\ s - (N2 + L) < Nxt /\ Nxt <= s)
                     => slotAlloc[s].ttis # {}

\* Nobody is known before FirstUe.
KnownFrom == attached # {} => Nxt >= FirstUe

\* The slots of the UEs: none is behind when the slot ends, and what a UE keeps
\* for later is for later.
InStep ==
  \A u \in UE :
    /\ ueSlot[u] \in {slot - 1, slot} /\ (phase = "end" => ueSlot[u] = slot)
    /\ ueSlot[u] = slot => /\ UeCtrl(slot) \subseteq ueCurr[u]
                           /\ \A a \in ueAlloc[u] : a.slot # slot

\* DCIs are on air only while a DL CTRL can carry them.
OnAirCarried ==
  \A u \in UE : dci[u] # {} => phase = "air" /\ Carried

\* A DCI on air is for this slot or announced now, all the UE holds was
\* announced before.
Fresh ==
  \A u \in UE : dci[u] # {} =>
    /\ \A d \in dci[u] : d.tti.fmt = "UL" => Announced(d.slot) = slot
    /\ \A d \in ueAlloc[u] \union Present(u) : d.tti.fmt = "UL" /\ Announced(d.slot) < slot

\* What is on air is of the present slot; the broadcast DL CTRL may be added.
OnAirKinds ==
  phase # "idle" => /\ slot \in Slot
                    /\ \A t \in onAir : KindOf(t, slot) \/ (t = DlCtrlTti /\ ~BroadcastInDl)

GInv ==
  /\ HoldsDue /\ Kinds /\ FddUlPlanned /\ KnownFrom /\ InStep /\ OnAirCarried /\ Fresh /\ OnAirKinds

(***************************************************************************)
(* When the grants of a slot are announced.                                 *)
(***************************************************************************)
\* Numbers of the configuration.
LEMMA Numbers ==
  ASSUME conf \in Configs
  PROVE  /\ N2 \in Nat /\ Ahead \in Nat /\ MaxSlot \in Nat /\ Ahead >= L + N2 /\ FirstUe >= N2 /\ FirstUe \in Nat
         /\ Len(tdd) \in Nat /\ Len(tdd) > 0
         /\ \A s \in Slot : s \in Int /\ s >= 0 /\ s <= MaxSlot + Ahead
         /\ \A s \in Int : s % Len(tdd) \in Len0(tdd) /\ s % Len(tdd) \in 0 .. Len(tdd) - 1
<1>1. N2 \in Nat /\ Ahead \in Nat /\ MaxSlot \in Nat /\ Ahead >= L + N2 /\ FirstUe >= N2 /\ FirstUe \in Nat
  BY PipelineAssumption
<1>2. Len(tdd) \in Nat /\ Len(tdd) > 0 BY Pattern
<1>3. \A s \in Slot : s \in Int /\ s >= 0 /\ s <= MaxSlot + Ahead BY <1>1 DEF Slot
<1>4. \A s \in Int : s % Len(tdd) \in Len0(tdd) BY Pattern
<1> QED BY <1>1, <1>2, <1>3, <1>4 DEF Len0

\* The type by which positions are generated does not depend on the period.
LEMMA GenTypeMod ==
  ASSUME conf \in Configs, NEW a \in Int, NEW b \in Int, a % Len(tdd) = b % Len(tdd)
  PROVE  GenType(tdd, a) = GenType(tdd, b)
  BY DEF GenType, TypeAt

\* The grants of a slot are announced N2 slots before it or earlier, in a slot
\* that has downlink; in FDD exactly N2 slots before.
LEMMA AnnouncedFacts ==
  ASSUME conf \in Configs, NEW s \in Int
  PROVE  /\ Announced(s) \in Int /\ Announced(s) <= s - N2 /\ s - Announced(s) <= Ahead - L
         /\ s - Announced(s) = DciDelay(tdd, s % Len(tdd), N2)
         /\ Delay(s) = s - Announced(s) + L
         /\ IsTdd(tdd) => TypeAt(tdd, Announced(s)) # "UL"
         /\ ~IsTdd(tdd) => Announced(s) = s - N2
<1> DEFINE n == Len(tdd)
           p == s % n
           k == DciDelay(tdd, p, N2)
<1>1. n \in Nat /\ n > 0 /\ N2 \in Nat /\ Ahead \in Nat /\ p \in Len0(tdd) /\ p \in 0 .. n - 1
  BY Numbers
<1>2. \E j \in N2 .. Ahead - L : FirstDciSlot(tdd, p, N2, j)
  BY <1>1, PipelineAssumption DEF tdd
<1>3. k \in N2 .. Ahead - L /\ FirstDciSlot(tdd, p, N2, k) BY <1>2 DEF DciDelay
<1>4. Announced(s) = s - k /\ Delay(s) = k + L BY DEF Announced, Delay
<1> HIDE DEF k
<1>5. k \in Int /\ k >= N2 /\ k <= Ahead - L BY <1>1, <1>3
<1>6. IsTdd(tdd) => TypeAt(tdd, Announced(s)) # "UL"
  <2>1. (p - k) % n = (s - k) % n
    <3>1. s - k \in Int /\ (s - k) + k = s BY <1>5
    <3> HIDE DEF n
    <3>2. ((((s - k) + k) % n) - k) % n = (s - k) % n BY <1>1, <1>5, <3>1, ModBack
    <3> QED BY <3>1, <3>2 DEF p
  <2>2. p - k \in Int /\ s - k \in Int BY <1>1, <1>5
  <2>3. GenType(tdd, p - k) = GenType(tdd, s - k) BY <2>1, <2>2, GenTypeMod
  <2> QED BY <1>3, <1>4, <2>3 DEF FirstDciSlot, GenType
<1>7. ~IsTdd(tdd) => k = N2
  <2> SUFFICES ASSUME ~IsTdd(tdd) PROVE k = N2 OBVIOUS
  <2>1. \A j \in N2 .. k - 1 : GenType(tdd, p - j) = "UL" BY <1>3 DEF FirstDciSlot
  <2>2. ~(N2 \in N2 .. k - 1) BY <2>1 DEF GenType
  <2> QED BY <1>1, <1>5, <2>2
<1>8. s - Announced(s) = k BY <1>4, <1>5
<1> QED BY <1>1, <1>4, <1>5, <1>6, <1>7, <1>8 DEF k

\* ToSendUl of the present position names the slots announced now.
LEMMA SendUlFacts ==
  ASSUME conf \in Configs, slot \in 0 .. MaxSlot
  PROVE  /\ \A k \in ToSendUl(tdd, pos) : k \in Nat /\ slot + k \in Slot /\ Announced(slot + k) = slot
         /\ \A s \in Slot : Announced(s) = slot /\ TypeAt(tdd, s) \in {"UL", "F"}
                              => s - slot \in ToSendUl(tdd, pos)
<1> DEFINE n == Len(tdd)
<1>1. n \in Nat /\ n > 0 /\ pos = slot % n /\ N2 \in Nat /\ Ahead \in Nat /\ MaxSlot \in Nat /\ slot \in Int
  BY Numbers DEF pos
<1>2. ASSUME NEW k \in ToSendUl(tdd, pos)
      PROVE  k \in Nat /\ slot + k \in Slot /\ Announced(slot + k) = slot
  <2>1. PICK p \in Len0(tdd) : k = DciDelay(tdd, p, N2) /\ (p - DciDelay(tdd, p, N2)) % n = pos
    BY DEF ToSendUl
  <2>2. k \in N2 .. Ahead - L BY <2>1, DelayFacts
  <2>3. k \in Nat /\ k \in Int /\ slot + k \in Slot BY <1>1, <2>2 DEF Slot
  <2>4. p \in 0 .. n - 1 BY DEF Len0
  <2>5. (p - k) % n = slot % n BY <1>1, <2>1
  <2>6. (slot + k) % n = p
    <3> HIDE DEF n
    <3> QED BY <1>1, <2>3, <2>4, <2>5, ModShift
  <2>7. Announced(slot + k) = slot BY <1>1, <2>1, <2>3, <2>6 DEF Announced
  <2> QED BY <2>3, <2>7
<1>3. ASSUME NEW s \in Slot, Announced(s) = slot, TypeAt(tdd, s) \in {"UL", "F"}
      PROVE  s - slot \in ToSendUl(tdd, pos)
  <2> DEFINE p == s % n
             k == DciDelay(tdd, p, N2)
  <2>1. s \in Int /\ p \in Len0(tdd) BY Numbers
  <2>2. k = s - slot /\ k \in Int
    <3>1. s - Announced(s) = k BY <2>1, AnnouncedFacts
    <3>2. s - slot \in Int BY <1>1, <2>1
    <3> QED BY <1>3, <3>1, <3>2
  <2>3. (p - k) % n = pos
    <3>1. slot + k = s BY <1>1, <2>1, <2>2
    <3> HIDE DEF n, k
    <3>2. (((slot + k) % n) - k) % n = slot % n BY <1>1, <2>2, ModBack
    <3> QED BY <1>1, <3>1, <3>2 DEF p
  <2>4. TypeAt(tdd, p) = TypeAt(tdd, s) BY <2>1, Pattern
  <2>5. HasUl(tdd, p) BY <1>3, <2>4 DEF HasUl, GenType
  <2> HIDE DEF p
  <2> QED BY <1>1, <2>1, <2>2, <2>3, <2>5 DEF ToSendUl
<1> QED BY <1>2, <1>3

\* DL DCIs are sent in the slot they are for.
LEMMA SendDlFacts ==
  ASSUME conf \in Configs, slot \in 0 .. MaxSlot
  PROVE  /\ \A k \in ToSendDl(tdd, pos) : k = 0
         /\ TypeAt(tdd, slot) # "UL" => 0 \in ToSendDl(tdd, pos)
<1> DEFINE n == Len(tdd)
<1>1. n \in Nat /\ n > 0 /\ pos = slot % n /\ pos \in Len0(tdd) /\ pos \in 0 .. n - 1 /\ slot \in Int
      /\ TypeAt(tdd, pos) = TypeAt(tdd, slot)
  BY Numbers, Pattern DEF pos
<1>2. \A p \in Len0(tdd) : HasDl(tdd, p) => DciDelay(tdd, p, 0) = 0 BY DelayFacts DEF HasDl
<1>3. pos % n = pos
  <2>1. n * 0 + pos = pos BY <1>1
  <2> HIDE DEF n
  <2>2. (n * 0 + pos) % n = pos BY <1>1, ModOf
  <2> QED BY <2>1, <2>2
<1>4. ASSUME TypeAt(tdd, slot) # "UL" PROVE 0 \in ToSendDl(tdd, pos)
  <2>1. HasDl(tdd, pos) BY <1>1, <1>4 DEF HasDl, GenType
  <2>2. DciDelay(tdd, pos, 0) = 0 BY <1>1, <1>2, <2>1
  <2>3. (pos - DciDelay(tdd, pos, 0)) % n = pos
    <3>1. pos - 0 = pos BY <1>1
    <3> QED BY <1>3, <2>2, <3>1
  <2> QED BY <1>1, <2>1, <2>2, <2>3 DEF ToSendDl
<1> QED BY <1>2, <1>4 DEF ToSendDl

\* In FDD the uplink of every slot is planned.
LEMMA UlTargetBack ==
  ASSUME conf \in Configs, slot \in 0 .. MaxSlot, FddPlanned, ~IsTdd(tdd), HasUlSlot(tdd)
  PROVE  slot + (N2 + L) \in UlTargets
<1> DEFINE n == Len(tdd)
           s == slot + (N2 + L)
           p == s % n
<1>1. n \in Nat /\ n > 0 /\ pos = slot % n /\ N2 \in Nat /\ slot \in Int /\ s \in Int
      /\ p \in Len0(tdd) /\ p \in 0 .. n - 1
  <2>1. n \in Nat /\ n > 0 /\ pos = slot % n /\ N2 \in Nat /\ slot \in Int /\ s \in Int
    BY Numbers DEF pos
  <2>2. p \in Len0(tdd) /\ p \in 0 .. n - 1 BY <2>1, Numbers
  <2> QED BY <2>1, <2>2
<1>2. TypeAt(tdd, p) # "S"
  <2>1. p \in Int BY <1>1
  <2>2. (p % n) + 1 \in 1 .. n BY <2>1, Numbers
  <2> QED BY <2>2 DEF FddPlanned, TypeAt, tdd
<1>3. HasUl(tdd, p) BY <1>2 DEF HasUl, GenType
<1>4. DciDelay(tdd, p, N2) = N2
  <2>1. s - Announced(s) = DciDelay(tdd, p, N2) /\ Announced(s) = s - N2 BY <1>1, AnnouncedFacts
  <2> QED BY <1>1, <2>1
<1>5. (p - (N2 + L)) % n = pos
  <2> DEFINE k == N2 + L
  <2>1. k \in Int BY <1>1
  <2> HIDE DEF n, k
  <2>2. (((slot + k) % n) - k) % n = slot % n BY <1>1, <2>1, ModBack
  <2> QED BY <1>1, <2>2 DEF k
<1>6. p - N2 - L = p - (N2 + L) BY <1>1
<1> HIDE DEF p
<1>7. N2 + L \in GenerateUl(tdd, pos)
  BY <1>1, <1>3, <1>4, <1>5, <1>6 DEF GenerateUl
<1> QED BY <1>7 DEF UlTargets

(***************************************************************************)
(* What a step of the plan adds to a slot.                                  *)
(***************************************************************************)
\* An uplink decision has the UL CTRL, and SRS and data of the UEs served.
LEMMA UlPlanKinds ==
  ASSUME NEW type \in {"UL", "F"}, NEW ues \in SUBSET UE, NEW a \in UlPlans(type, ues)
  PROVE  /\ UlCtrlTti \in a.ttis
         /\ \A t \in a.ttis :
              \/ t = UlCtrlTti
              \/ t.type \in {"DATA", "SRS"} /\ t.fmt = "UL" /\ t.ues \subseteq ues
<1> DEFINE low == IF type = "F" THEN DlCtrl ELSE 0
           last == Sym - UlCtrl
           top(q) == IF q = {} THEN last ELSE last - SrsSym
           plan(q, first, f, g) ==
             [n |-> UlCtrl + (last - first), first |-> first, blocks |-> DOMAIN f,
              ttis |-> {UlCtrlTti} \union q \union Data("UL", f, g)]
           srs == {{}} \union (IF type \in SrsTypes THEN {Srs(u) : u \in ues} ELSE {})
<1>1. PICK q \in srs : \E first \in low .. top(q) : \E f \in Tilings(first, top(q)) :
        \E g \in UlOwners(DOMAIN f, ues, q) : a = plan(q, first, f, g)
  BY DEF UlPlans
<1>2. PICK first \in low .. top(q) : \E f \in Tilings(first, top(q)) :
        \E g \in UlOwners(DOMAIN f, ues, q) : a = plan(q, first, f, g)
  BY <1>1
<1>3. PICK f \in Tilings(first, top(q)) : \E g \in UlOwners(DOMAIN f, ues, q) : a = plan(q, first, f, g)
  BY <1>2
<1>4. PICK g \in UlOwners(DOMAIN f, ues, q) : a = plan(q, first, f, g)
  BY <1>3
<1>5. a.ttis = {UlCtrlTti} \union q \union Data("UL", f, g) BY <1>4
<1>6. ASSUME NEW t \in q PROVE t.type = "SRS" /\ t.fmt = "UL" /\ t.ues \subseteq ues
  <2>1. PICK u \in ues : q = Srs(u) BY <1>1, <1>6
  <2> QED BY <1>6, <2>1 DEF Srs
<1>7. ASSUME NEW t \in Data("UL", f, g) PROVE t.type = "DATA" /\ t.fmt = "UL" /\ t.ues \subseteq ues
  <2>1. PICK s \in DOMAIN f : t = [type |-> "DATA", fmt |-> "UL", start |-> s, num |-> f[s], ues |-> g[s]]
    BY <1>7 DEF Data
  <2>2. g[s] \in SUBSET ues BY <2>1 DEF UlOwners
  <2> QED BY <2>1, <2>2
<1> QED BY <1>5, <1>6, <1>7

\* A downlink decision has the DL CTRL, the UL CTRL of an S slot, and data.
LEMMA DlPlanKinds ==
  ASSUME NEW type, NEW elem, NEW ues, NEW a \in DlPlans(type, elem, ues), NEW t \in a.ttis
  PROVE  \/ t = DlCtrlTti
         \/ t = UlCtrlTti /\ type = "S"
         \/ t.type = "DATA" /\ t.fmt = "DL"
<1> DEFINE used == UlSymbols(type, elem)
           avail == (Sym - DlCtrl - used) % 256
           sctrl == IF type = "S" THEN {UlCtrlTti} ELSE {}
           plan(len, f, g) ==
             [n |-> DlCtrl + len + (IF type = "S" THEN UlCtrl ELSE 0), used |-> used,
              ttis |-> {DlCtrlTti} \union sctrl \union Data("DL", f, g)]
<1>1. PICK len \in 0 .. avail : \E f \in Tilings(DlCtrl, DlCtrl + len) :
        \E g \in Owners(DOMAIN f, ues) : a = plan(len, f, g)
  BY DEF DlPlans
<1>2. PICK f \in Tilings(DlCtrl, DlCtrl + len) : \E g \in Owners(DOMAIN f, ues) : a = plan(len, f, g)
  BY <1>1
<1>3. PICK g \in Owners(DOMAIN f, ues) : a = plan(len, f, g)
  BY <1>2
<1>4. a.ttis = {DlCtrlTti} \union sctrl \union Data("DL", f, g) BY <1>3
<1>5. \A x \in Data("DL", f, g) : x.type = "DATA" /\ x.fmt = "DL" BY DEF Data
<1> QED BY <1>4, <1>5

\* What the indications of slot add to slot s: nothing is lost but the
\* allocations of slot itself, and the new ones are for later slots and fit the
\* type of theirs; uplink grants will be announced L slots from now.
LEMMA PlanStep ==
  ASSUME TypeOK, KnownFrom, phase = "idle", slot \in 0 .. MaxSlot,
         NEW ul \in UlDecisions, NEW dl \in DlDecisions(AfterUl(ul)), NEW s \in Slot
  PROVE  LET a == Planned(ul, dl)[s].ttis
         IN  /\ s # slot => slotAlloc[s].ttis \subseteq a
             /\ \A t \in a :
                  \/ t \in slotAlloc[s].ttis /\ s # slot
                  \/ /\ s >= slot + L /\ KindOf(t, s)
                     /\ t.type # "CTRL" => IF t.fmt = "UL" THEN Announced(s) = slot + L ELSE s = slot + L
             /\ s \in UlTargets => a # {}
<1> DEFINE a == Planned(ul, dl)[s].ttis
           b == WithUl(ul, s).ttis
           kept == Kept(s).ttis
<1>1. /\ conf \in Configs /\ slot \in Int /\ slot >= 0 /\ s \in Int /\ Nxt = slot /\ L + N2 \in Int
      /\ N2 \in Nat /\ FirstUe \in Nat /\ FirstUe >= N2
  BY Numbers DEF TypeOK, Nxt
<1>2. kept = IF s = slot THEN {} ELSE slotAlloc[s].ttis BY DEF Kept, NoAlloc
<1>3. b = IF s \in UlTargets THEN kept \union ul[s].ttis ELSE kept BY DEF WithUl, Merge
<1>4. a = IF s \in DlTargets THEN b \union dl[s].ttis ELSE b BY DEF Planned, WithUl, Kept, Merge
<1>5. Served(s) \in SUBSET UE /\ Served(s) \subseteq attached BY DEF Served, TypeOK
<1>6. ASSUME s \in UlTargets
      PROVE  /\ UlCtrlTti \in ul[s].ttis
             /\ \A t \in ul[s].ttis :
                  /\ s >= slot + L /\ KindOf(t, s)
                  /\ t.type # "CTRL" => t.fmt = "UL" /\ Announced(s) = slot + L
  <2>1. TypeAt(tdd, s) \in {"UL", "F"} /\ slot = s - Delay(s) /\ Delay(s) \in Nat /\ Delay(s) >= L
    BY <1>1, <1>6, UlTargetFacts
  <2>2. ul[s] \in UlPlans(TypeAt(tdd, s), Served(s)) BY <1>6 DEF UlDecisions
  <2>3. /\ UlCtrlTti \in ul[s].ttis
        /\ \A t \in ul[s].ttis :
              \/ t = UlCtrlTti
              \/ t.type \in {"DATA", "SRS"} /\ t.fmt = "UL" /\ t.ues \subseteq Served(s)
    BY <1>5, <2>1, <2>2, UlPlanKinds
  <2>4. Announced(s) \in Int /\ Delay(s) = s - Announced(s) + L BY <1>1, AnnouncedFacts
  <2>5. Announced(s) = slot + L /\ s >= slot + L BY <1>1, <2>1, <2>4
  <2>6. IsTdd(tdd) \/ HasUlSlot(tdd) BY <1>6 DEF UlTargets, GenerateUl
  <2>7. UlCtrlTti \in UeCtrl(s) BY <2>1 DEF UeCtrl
  <2>8. UlCtrlTti.type = "CTRL" BY CtrlFacts
  <2>9. attached # {} => Announced(s) >= L + N2 BY <1>1, <2>5 DEF KnownFrom
  <2>10. ASSUME NEW t \in ul[s].ttis
         PROVE  KindOf(t, s) /\ (t.type # "CTRL" => t.fmt = "UL")
    <3>1. CASE t = UlCtrlTti BY <2>7, <2>8, <3>1 DEF KindOf
    <3>2. CASE t.type \in {"DATA", "SRS"} /\ t.fmt = "UL" /\ t.ues \subseteq Served(s)
      <4>1. t.ues # {} => attached # {} BY <1>5, <3>2
      <4> QED BY <2>1, <2>6, <2>9, <3>2, <4>1 DEF KindOf
    <3> QED BY <2>3, <2>10, <3>1, <3>2
  <2> QED BY <2>3, <2>5, <2>10
<1>7. ASSUME s \in DlTargets, NEW t \in dl[s].ttis
      PROVE  /\ s = slot + L /\ KindOf(t, s)
             /\ t.type # "CTRL" => t.fmt = "DL"
  <2>1. TypeAt(tdd, s) # "UL" /\ s = slot + L BY <1>1, <1>7, DlTargetFacts
  <2>2. dl[s] \in DlPlans(TypeAt(tdd, s), AfterUl(ul)[s], Served(s)) BY <1>7 DEF DlDecisions
  <2>3. \/ t = DlCtrlTti
        \/ t = UlCtrlTti /\ TypeAt(tdd, s) = "S"
        \/ t.type = "DATA" /\ t.fmt = "DL"
    BY <1>7, <2>2, DlPlanKinds
  <2>4. IsTdd(tdd) \/ ~HasUlSlot(tdd) BY <1>7 DEF DlTargets, GenerateDl
  <2>5. DlCtrlTti \in UeCtrl(s) /\ (TypeAt(tdd, s) = "S" => UlCtrlTti \in UeCtrl(s)) BY <2>1 DEF UeCtrl
  <2>6. DlCtrlTti.type = "CTRL" /\ UlCtrlTti.type = "CTRL" BY CtrlFacts
  <2>7. s >= L BY <1>1, <2>1
  <2> QED BY <2>1, <2>3, <2>4, <2>5, <2>6, <2>7 DEF KindOf
<1>8. s = slot + L => s >= slot + L BY <1>1
<1> HIDE DEF a, b, kept
<1>9. s # slot => slotAlloc[s].ttis \subseteq a BY <1>2, <1>3, <1>4
<1>10. s \in UlTargets => a # {} BY <1>3, <1>4, <1>6
<1>11. ASSUME NEW t \in a
       PROVE  \/ t \in slotAlloc[s].ttis /\ s # slot
              \/ /\ s >= slot + L /\ KindOf(t, s)
                 /\ t.type # "CTRL" => IF t.fmt = "UL" THEN Announced(s) = slot + L ELSE s = slot + L
  <2>1. CASE t \in kept BY <1>2, <2>1
  <2>2. CASE s \in UlTargets /\ t \in ul[s].ttis BY <1>6, <2>2
  <2>3. CASE s \in DlTargets /\ t \in dl[s].ttis BY <1>7, <1>8, <2>3
  <2> QED BY <1>3, <1>4, <1>11, <2>1, <2>2, <2>3
<1> QED BY <1>9, <1>10, <1>11 DEF a

(***************************************************************************)
(* The steps.                                                               *)
(***************************************************************************)
\* What is on air, planned and held at the start.
LEMMA InitGInv == Init => GInv
<1> SUFFICES ASSUME Init PROVE GInv OBVIOUS
<1> USE DEF Init
<1>1. /\ slot = 0 /\ Nxt = 0 /\ conf \in Configs /\ N2 \in Nat
      /\ \A s \in Slot : slotAlloc[s].ttis = {} /\ s \in Int
      /\ \A u \in UE : ueSlot[u] = -1 /\ ueAlloc[u] = {} /\ dci[u] = {}
  BY Numbers DEF Nxt, NoAlloc
<1>2. HoldsDue
  <2>1. \A u \in UE : Due(u) = {} BY <1>1 DEF Due, AtGnb, Grant
  <2>2. \A u \in UE : Held(u) = {} BY <1>1 DEF Held, Present
  <2> QED BY <2>1, <2>2 DEF HoldsDue
<1>3. Kinds BY <1>1 DEF Kinds
<1>4. FddUlPlanned BY <1>1 DEF FddUlPlanned
<1>5. KnownFrom BY DEF KnownFrom
<1>6. InStep BY <1>1 DEF InStep
<1>7. OnAirCarried /\ Fresh /\ OnAirKinds BY <1>1 DEF OnAirCarried, Fresh, OnAirKinds
<1> QED BY <1>2, <1>3, <1>4, <1>5, <1>6, <1>7 DEF GInv

\* The slot takes its allocations on air whether the channel was granted or
\* not: without the channel there is nothing but uplink to execute.
LEMMA AllOnAir ==
  ASSUME IInv, GInv, StartSlot
  PROVE  /\ onAir' = Current.ttis
         /\ \A t \in Current.ttis : KindOf(t, slot) \/ (t = DlCtrlTti /\ ~BroadcastInDl)
         /\ {t \in Current.ttis : t.type # "CTRL"} = {t \in slotAlloc[slot].ttis : t.type # "CTRL"}
         /\ slotAlloc[slot].ttis \subseteq Current.ttis
<1>1. phase = "idle" /\ slot \in 0 .. MaxSlot /\ slot \in Slot
  BY PipelineAssumption DEF StartSlot, IInv, TypeOK, Slot
<1>2. \/ Current.ttis = slotAlloc[slot].ttis
      \/ /\ conf.primary /\ slot \in Broadcast
         /\ Current.ttis = slotAlloc[slot].ttis \union {DlCtrlTti}
  BY DEF Current
<1>3. DlCtrlTti.type = "CTRL" /\ DlCtrlTti.fmt = "DL" /\ UlCtrlTti.type = "CTRL" /\ UlCtrlTti.fmt = "UL"
  BY CtrlFacts
<1>4. ASSUME NEW t \in Current.ttis
      PROVE  KindOf(t, slot) \/ (t = DlCtrlTti /\ ~BroadcastInDl)
  <2>1. CASE t \in slotAlloc[slot].ttis BY <1>1, <2>1 DEF GInv, Kinds
  <2>2. CASE conf.primary /\ slot \in Broadcast /\ t = DlCtrlTti
    <3>1. BroadcastInDl => TypeAt(tdd, slot) # "UL"
      BY <2>2 DEF BroadcastInDl, tdd, IInv, TypeOK
    <3>2. BroadcastInDl => t \in UeCtrl(slot) BY <2>2, <3>1 DEF UeCtrl
    <3> QED BY <2>2, <3>2 DEF KindOf
  <2> QED BY <1>2, <1>4, <2>1, <2>2
<1>5. onAir' = Current.ttis
  <2>1. CASE channel = "GRANTED" \/ NeedsChannel BY <2>1 DEF StartSlot, DoStartSlot
  <2>2. CASE ~(channel = "GRANTED" \/ NeedsChannel)
    <3>1. onAir' = {t \in Current.ttis : t.fmt = "UL" /\ t.type \in {"CTRL", "SRS"}}
      BY <2>2 DEF StartSlot
    <3>2. ASSUME NEW t \in Current.ttis PROVE t.fmt = "UL" /\ t.type \in {"CTRL", "SRS"}
      <4>1. t.type # "DATA" /\ ~(t.type = "CTRL" /\ t.fmt = "DL")
        BY <2>2, <3>2 DEF NeedsChannel, Contains
      <4>2. t.type \in {"CTRL", "DATA", "SRS"} BY <1>1, <3>2, CurrentFacts DEF VarTti
      <4>3. t \in UeCtrl(slot) => t = UlCtrlTti BY <1>3, <4>1 DEF UeCtrl
      <4> QED BY <1>3, <1>4, <3>2, <4>1, <4>2, <4>3 DEF KindOf
    <3> QED BY <3>1, <3>2
  <2> QED BY <2>1, <2>2
<1> QED BY <1>2, <1>3, <1>4, <1>5

\* What StartSlot will have for slot s, and the grants that become due in it.
AtGnbNext(s) == IF s = slot THEN Current.ttis ELSE slotAlloc'[s].ttis
NewDue(u) ==
  {d \in Grant :
     /\ d.slot >= slot /\ d.tti \in AtGnbNext(d.slot) /\ d.tti.type # "CTRL" /\ u \in d.tti.ues
     /\ IF d.tti.fmt = "UL" THEN Announced(d.slot) = slot ELSE d.slot = slot}

\* The planning leaves every grant announced before alone.
LEMMA StartPlan ==
  ASSUME IInv, GInv, StartSlot
  PROVE  /\ phase = "idle" /\ phase' = "air" /\ slot' = slot /\ slot \in 0 .. MaxSlot /\ slot \in Slot
         /\ slot \in Int /\ Nxt = slot /\ Nxt' = slot + 1 /\ conf \in Configs /\ tdd' = tdd
         /\ UNCHANGED <<conf, attached, ueSlot, ueAlloc, ueCurr>>
         /\ \A s \in Slot : AtGnb(s)' = AtGnbNext(s) /\ AtGnb(s) = slotAlloc[s].ttis
         /\ Kinds' /\ FddUlPlanned'
         /\ \A s \in Slot : s >= slot => \A t \in AtGnbNext(s) : t.type # "CTRL" =>
              \/ t \in slotAlloc[s].ttis
              \/ /\ s >= slot + L
                 /\ IF t.fmt = "UL" THEN Announced(s) = slot + L ELSE s = slot + L
         /\ \A s \in Slot : s >= slot => \A t \in slotAlloc[s].ttis : t.type # "CTRL" => t \in AtGnbNext(s)
<1>1. /\ phase = "idle" /\ phase' = "air" /\ slot \in 0 .. MaxSlot /\ slot' = slot /\ conf' = conf
      /\ UNCHANGED <<attached, ueSlot, ueAlloc, ueCurr>>
  BY PipelineAssumption DEF StartSlot, IInv, TypeOK
<1>2. conf \in Configs /\ slot \in Int /\ tdd' = tdd /\ Nxt = slot /\ Nxt' = slot + 1
  BY <1>1 DEF IInv, TypeOK, tdd, Nxt
<1>3. MaxSlot \in Nat /\ Ahead \in Nat /\ N2 \in Nat /\ Ahead >= L + N2 /\ slot \in Slot
      /\ \A s \in Slot : s \in Int /\ s >= 0 /\ s <= MaxSlot + Ahead
  <2>1. MaxSlot \in Nat /\ Ahead \in Nat /\ N2 \in Nat /\ Ahead >= L + N2
        /\ \A s \in Slot : s \in Int /\ s >= 0 /\ s <= MaxSlot + Ahead
    BY <1>2, Numbers
  <2> QED BY <1>1, <2>1 DEF Slot
<1>4. PICK ul \in UlDecisions : \E dl \in DlDecisions(AfterUl(ul)) : slotAlloc' = Planned(ul, dl)
  BY DEF StartSlot, CallMacForSlotIndication
<1>5. PICK dl \in DlDecisions(AfterUl(ul)) : slotAlloc' = Planned(ul, dl)
  BY <1>4
<1>6. \A s \in Slot :
        /\ s # slot => slotAlloc[s].ttis \subseteq slotAlloc'[s].ttis
        /\ \A t \in slotAlloc'[s].ttis :
              \/ t \in slotAlloc[s].ttis /\ s # slot
              \/ /\ s >= slot + L /\ KindOf(t, s)
                 /\ t.type # "CTRL" => IF t.fmt = "UL" THEN Announced(s) = slot + L ELSE s = slot + L
        /\ s \in UlTargets => slotAlloc'[s].ttis # {}
  BY <1>1, <1>5, PlanStep DEF IInv, GInv
<1>7. /\ onAir' = Current.ttis
      /\ {t \in Current.ttis : t.type # "CTRL"} = {t \in slotAlloc[slot].ttis : t.type # "CTRL"}
  BY AllOnAir
<1>8. \A s \in Slot : AtGnb(s)' = AtGnbNext(s) /\ AtGnb(s) = slotAlloc[s].ttis
  BY <1>1, <1>7 DEF AtGnb, AtGnbNext
<1>9. Kinds'
  <2>1. \A s \in Slot : \A t \in slotAlloc'[s].ttis : KindOf(t, s) BY <1>6 DEF GInv, Kinds
  <2>2. \A s, t : KindOf(t, s)' = KindOf(t, s) BY <1>2 DEF KindOf, UeCtrl, Announced
  <2> QED BY <2>1, <2>2 DEF Kinds
<1>10. FddUlPlanned'
  <2> SUFFICES ASSUME ~IsTdd(tdd), HasUlSlot(tdd), FddPlanned, NEW s \in Slot,
                      N2 + L <= s, s - (N2 + L) < slot + 1, slot + 1 <= s
               PROVE  slotAlloc'[s].ttis # {}
    BY <1>2 DEF FddUlPlanned
  <2>1. CASE s - (N2 + L) < slot
    <3>1. slotAlloc[s].ttis # {} BY <1>2, <1>3, <2>1 DEF GInv, FddUlPlanned
    <3>2. s # slot BY <1>2, <1>3
    <3> QED BY <1>6, <3>1, <3>2
  <2>2. CASE ~(s - (N2 + L) < slot)
    <3>1. s = slot + (N2 + L) BY <1>2, <1>3, <2>2
    <3>2. s \in UlTargets BY <1>1, <1>2, <3>1, UlTargetBack
    <3> QED BY <1>6, <3>2
  <2> QED BY <2>1, <2>2
<1>11. ASSUME NEW s \in Slot, s >= slot, NEW t \in AtGnbNext(s), t.type # "CTRL"
       PROVE  \/ t \in slotAlloc[s].ttis
              \/ /\ s >= slot + L
                 /\ IF t.fmt = "UL" THEN Announced(s) = slot + L ELSE s = slot + L
  <2>1. CASE s = slot
    <3>1. t \in {x \in Current.ttis : x.type # "CTRL"} BY <1>11, <2>1 DEF AtGnbNext
    <3> QED BY <1>7, <2>1, <3>1
  <2>2. CASE s # slot BY <1>6, <1>11, <2>2 DEF AtGnbNext
  <2> QED BY <2>1, <2>2
<1>12. ASSUME NEW s \in Slot, s >= slot, NEW t \in slotAlloc[s].ttis, t.type # "CTRL"
       PROVE  t \in AtGnbNext(s)
  <2>1. CASE s = slot
    <3>1. t \in {x \in slotAlloc[slot].ttis : x.type # "CTRL"} BY <1>12, <2>1
    <3> QED BY <1>7, <2>1, <3>1 DEF AtGnbNext
  <2>2. CASE s # slot BY <1>6, <1>12, <2>2 DEF AtGnbNext
  <2> QED BY <2>1, <2>2
<1> QED BY <1>1, <1>2, <1>3, <1>8, <1>9, <1>10, <1>11, <1>12

\* With the grants that become due now, every grant is due that should be.
LEMMA DueSplit ==
  ASSUME IInv, GInv, StartSlot, NEW u \in UE
  PROVE  Due(u)' = Due(u) \union NewDue(u)
<1>1. \A d \in Grant : d.slot \in Slot /\ d.slot \in Int /\ Announced(d.slot) \in Int
  <2>1. conf \in Configs BY StartPlan
  <2>2. \A d \in Grant : d.slot \in Slot /\ d.slot \in Int BY <2>1, Numbers DEF Grant
  <2> QED BY <2>1, <2>2, AnnouncedFacts
<1>2. \A s \in Slot : Announced(s)' = Announced(s) BY StartPlan DEF Announced
<1>3. ASSUME NEW d \in Grant PROVE (d \in Due(u)') <=> (d \in Due(u) \/ d \in NewDue(u))
  <2>1. d \in Due(u)' <=>
          /\ d.slot >= slot /\ d.tti \in AtGnbNext(d.slot) /\ d.tti.type # "CTRL" /\ u \in d.tti.ues
          /\ IF d.tti.fmt = "UL" THEN Announced(d.slot) < slot + 1 ELSE d.slot < slot + 1
    BY <1>1, <1>2, StartPlan DEF Due
  <2>2. d \in Due(u) <=>
          /\ d.slot >= slot /\ d.tti \in slotAlloc[d.slot].ttis /\ d.tti.type # "CTRL" /\ u \in d.tti.ues
          /\ IF d.tti.fmt = "UL" THEN Announced(d.slot) < slot ELSE d.slot < slot
    BY <1>1, StartPlan DEF Due
  <2>3. d \in NewDue(u) <=>
          /\ d.slot >= slot /\ d.tti \in AtGnbNext(d.slot) /\ d.tti.type # "CTRL" /\ u \in d.tti.ues
          /\ IF d.tti.fmt = "UL" THEN Announced(d.slot) = slot ELSE d.slot = slot
    BY DEF NewDue
  <2>4. slot \in Int BY StartPlan
  <2>5. ASSUME d \in Due(u)' PROVE d \in Due(u) \/ d \in NewDue(u)
    <3>1. CASE d.tti.fmt = "UL"
      <4>1. CASE Announced(d.slot) = slot BY <2>1, <2>3, <2>5, <3>1, <4>1
      <4>2. CASE Announced(d.slot) # slot
        <5>1. Announced(d.slot) < slot /\ Announced(d.slot) # slot + L BY <1>1, <2>1, <2>4, <2>5, <3>1, <4>2
        <5>2. d.tti \in slotAlloc[d.slot].ttis BY <1>1, <2>1, <2>5, <3>1, <5>1, StartPlan
        <5> QED BY <2>1, <2>2, <2>5, <3>1, <5>1, <5>2
      <4> QED BY <4>1, <4>2
    <3>2. CASE d.tti.fmt # "UL"
      <4>1. d.slot = slot BY <1>1, <2>1, <2>4, <2>5, <3>2
      <4> QED BY <2>1, <2>3, <2>5, <3>2, <4>1
    <3> QED BY <3>1, <3>2
  <2>6. ASSUME d \in Due(u) PROVE d \in Due(u)'
    <3>1. d.tti \in AtGnbNext(d.slot) BY <1>1, <2>2, <2>6, StartPlan
    <3>2. IF d.tti.fmt = "UL" THEN Announced(d.slot) < slot + 1 ELSE d.slot < slot + 1
      BY <1>1, <2>2, <2>4, <2>6
    <3> QED BY <2>1, <2>2, <2>6, <3>1, <3>2
  <2>7. ASSUME d \in NewDue(u) PROVE d \in Due(u)'
    <3>1. IF d.tti.fmt = "UL" THEN Announced(d.slot) < slot + 1 ELSE d.slot < slot + 1
      BY <1>1, <2>3, <2>4, <2>7
    <3> QED BY <2>1, <2>3, <2>7, <3>1
  <2> QED BY <2>5, <2>6, <2>7
<1>4. Due(u)' \subseteq Grant /\ Due(u) \subseteq Grant /\ NewDue(u) \subseteq Grant BY DEF Due, NewDue, Grant
<1> QED BY <1>3, <1>4

\* When grants become due the gNB has something on air, asks for the channel,
\* and in TDD has a DL CTRL to send them in.
LEMMA DueSendable ==
  ASSUME IInv, GInv, StartSlot, FddPlanned, NEW u \in UE, NEW d \in NewDue(u)
  PROVE  /\ Current.ttis # {} /\ NeedsChannel
         /\ ~IsTdd(tdd) \/ Contains(Current.ttis, "CTRL", "DL")
<1>1. /\ d \in Grant /\ d.slot \in Slot /\ d.slot \in Int /\ d.tti \in VarTti /\ d.slot >= slot
      /\ d.tti \in AtGnbNext(d.slot) /\ d.tti.type # "CTRL" /\ u \in d.tti.ues
      /\ IF d.tti.fmt = "UL" THEN Announced(d.slot) = slot ELSE d.slot = slot
  BY PipelineAssumption DEF NewDue, Grant, Slot
<1>2. slot \in Slot /\ slot \in Int /\ Nxt = slot /\ conf \in Configs /\ N2 \in Nat /\ slotAlloc[slot].ttis \subseteq Current.ttis
  BY StartPlan, AllOnAir, Numbers
<1>3. d.tti \in slotAlloc[d.slot].ttis
  <2>1. \/ d.tti \in slotAlloc[d.slot].ttis
        \/ d.slot >= slot + L /\ IF d.tti.fmt = "UL" THEN Announced(d.slot) = slot + L ELSE d.slot = slot + L
    BY <1>1, StartPlan
  <2> QED BY <1>1, <1>2, <2>1
<1>4. KindOf(d.tti, d.slot) BY <1>1, <1>3 DEF GInv, Kinds
<1>5. \A t \in UeCtrl(d.slot) : t.type = "CTRL" BY CtrlFacts DEF UeCtrl
\* A slot behind the first ones that is not UL has its DL CTRL.
<1>6. ASSUME L <= slot, TypeAt(tdd, slot) # "UL", IsTdd(tdd) \/ ~HasUlSlot(tdd)
      PROVE  Contains(slotAlloc[slot].ttis, "CTRL", "DL")
  <2>1. slot - L < Nxt /\ Nxt <= slot BY <1>2
  <2> QED BY <1>2, <1>6, <2>1 DEF IInv, DlCtrlPlanned
<1>7. CASE d.tti.fmt = "DL"
  <2>1. d.tti.type = "DATA" /\ TypeAt(tdd, slot) # "UL" /\ slot >= L /\ (IsTdd(tdd) \/ ~HasUlSlot(tdd)) /\ d.slot = slot
    BY <1>1, <1>4, <1>5, <1>7 DEF KindOf
  <2>2. d.tti \in Current.ttis BY <1>1, <2>1 DEF AtGnbNext
  <2>3. Contains(slotAlloc[slot].ttis, "CTRL", "DL") BY <1>2, <1>6, <2>1
  <2>4. Contains(Current.ttis, "CTRL", "DL") BY <1>2, <2>3 DEF Contains
  <2> QED BY <2>1, <2>2, <2>4 DEF NeedsChannel
<1>8. CASE d.tti.fmt = "UL"
  <2>1. /\ slot >= L + N2 /\ (IsTdd(tdd) \/ HasUlSlot(tdd)) /\ Announced(d.slot) = slot
    BY <1>1, <1>4, <1>5, <1>8 DEF KindOf
  <2>2. CASE IsTdd(tdd)
    <3>1. TypeAt(tdd, slot) # "UL" BY <1>1, <1>2, <2>1, <2>2, AnnouncedFacts
    <3>2. L <= slot BY <1>2, <2>1
    <3>3. Contains(slotAlloc[slot].ttis, "CTRL", "DL") BY <1>6, <2>2, <3>1, <3>2
    <3>4. Contains(Current.ttis, "CTRL", "DL") BY <1>2, <3>3 DEF Contains
    <3> QED BY <3>4 DEF NeedsChannel, Contains
  <2>3. CASE ~IsTdd(tdd)
    <3>1. N2 > 0 BY <1>2, <2>3 DEF FddPlanned, tdd
    <3>2. d.slot = slot + N2
      <4>1. Announced(d.slot) = d.slot - N2 BY <1>1, <1>2, <2>3, AnnouncedFacts
      <4> QED BY <1>1, <1>2, <2>1, <4>1
    <3>3. slotAlloc[slot].ttis # {}
      <4>1. N2 + L <= slot /\ slot - (N2 + L) < Nxt /\ Nxt <= slot BY <1>2, <2>1
      <4> QED BY <1>2, <2>1, <2>3, <4>1 DEF GInv, FddUlPlanned
    <3>4. d.tti.type \in {"DATA", "SRS"} BY <1>1 DEF VarTti
    <3>5. HasUlDci BY <1>3, <3>1, <3>2, <3>4 DEF HasUlDci
    <3> QED BY <1>2, <2>3, <3>3, <3>5 DEF NeedsChannel
  <2> QED BY <2>2, <2>3
<1> QED BY <1>1, <1>7, <1>8 DEF VarTti

\* The DCIs that RetrieveMsgsFromDCIs collects are the grants that become due.
LEMMA SentIsDue ==
  ASSUME IInv, GInv, StartSlot, NEW u \in UE
  PROVE  Dcis(u) = NewDue(u)
<1>1. slot \in Slot /\ slot \in Int /\ slot \in 0 .. MaxSlot /\ conf \in Configs /\ slot + 0 = slot
  BY StartPlan
<1>2. Current.ttis \subseteq VarTti BY StartPlan, CurrentFacts
<1>3. \A s \in Slot : AtGnbNext(s) \subseteq VarTti
  <2>1. TypeOK' BY StartSlotIInv DEF IInv
  <2>2. \A s \in Slot : slotAlloc'[s].ttis \subseteq VarTti BY <2>1 DEF TypeOK
  <2> QED BY <1>2, <2>2 DEF AtGnbNext
<1>4. ASSUME NEW d \in Dcis(u) PROVE d \in NewDue(u)
  <2>1. CASE \E k \in ToSendDl(tdd, pos), t \in Current.ttis :
               d = [slot |-> slot + k, tti |-> t] /\ t.type # "CTRL" /\ t.fmt = "DL" /\ u \in t.ues
    <3>1. PICK k \in ToSendDl(tdd, pos), t \in Current.ttis :
               d = [slot |-> slot + k, tti |-> t] /\ t.type # "CTRL" /\ t.fmt = "DL" /\ u \in t.ues
      BY <2>1
    <3>2. d.slot = slot /\ d.tti = t /\ d \in Grant BY <1>1, <1>2, <3>1, SendDlFacts DEF Grant
    <3> QED BY <1>1, <3>1, <3>2 DEF NewDue, AtGnbNext
  <2>2. CASE \E k \in ToSendUl(tdd, pos) :
               \E t \in (IF k = 0 THEN Current ELSE slotAlloc'[slot + k]).ttis :
                 d = [slot |-> slot + k, tti |-> t] /\ t.type # "CTRL" /\ t.fmt = "UL" /\ u \in t.ues
    <3>1. PICK k \in ToSendUl(tdd, pos) :
               \E t \in (IF k = 0 THEN Current ELSE slotAlloc'[slot + k]).ttis :
                 d = [slot |-> slot + k, tti |-> t] /\ t.type # "CTRL" /\ t.fmt = "UL" /\ u \in t.ues
      BY <2>2
    <3>2. k \in Nat /\ slot + k \in Slot /\ Announced(slot + k) = slot BY <1>1, SendUlFacts
    <3>3. slot + k >= slot /\ (slot + k = slot <=> k = 0) BY <1>1, <3>2
    <3>4. (IF k = 0 THEN Current ELSE slotAlloc'[slot + k]).ttis = AtGnbNext(slot + k)
      BY <3>3 DEF AtGnbNext
    <3>5. PICK t \in AtGnbNext(slot + k) :
             d = [slot |-> slot + k, tti |-> t] /\ t.type # "CTRL" /\ t.fmt = "UL" /\ u \in t.ues
      BY <3>1, <3>4
    <3>6. d \in Grant /\ d.slot = slot + k /\ d.tti = t BY <1>3, <3>2, <3>5 DEF Grant
    <3> QED BY <3>2, <3>3, <3>5, <3>6 DEF NewDue
  <2> QED BY <1>4, <2>1, <2>2 DEF Dcis
<1>5. ASSUME NEW d \in NewDue(u) PROVE d \in Dcis(u)
  <2>1. /\ d \in Grant /\ d.slot \in Slot /\ d.slot \in Int /\ d.tti \in VarTti /\ d.slot >= slot
        /\ d.tti \in AtGnbNext(d.slot) /\ d.tti.type # "CTRL" /\ u \in d.tti.ues
        /\ IF d.tti.fmt = "UL" THEN Announced(d.slot) = slot ELSE d.slot = slot
    BY PipelineAssumption DEF NewDue, Grant, Slot
  <2>2. d = [slot |-> d.slot, tti |-> d.tti] BY <2>1 DEF Grant
  <2>3. KindOf(d.tti, d.slot)
    <3>1. \A s, t : KindOf(t, s)' = KindOf(t, s) BY StartPlan DEF KindOf, UeCtrl, Announced
    <3>2. CASE d.slot = slot
      <4>1. d.tti \in {t \in Current.ttis : t.type # "CTRL"} BY <2>1, <3>2 DEF AtGnbNext
      <4>2. d.tti \in slotAlloc[slot].ttis BY <4>1, AllOnAir
      <4> QED BY <1>1, <3>2, <4>2 DEF GInv, Kinds
    <3>3. CASE d.slot # slot BY <2>1, <3>1, <3>3, StartPlan DEF AtGnbNext, Kinds
    <3> QED BY <3>2, <3>3
  <2>4. \A t \in UeCtrl(d.slot) : t.type = "CTRL" BY CtrlFacts DEF UeCtrl
  <2>5. CASE d.tti.fmt = "DL"
    <3>1. TypeAt(tdd, slot) # "UL" /\ d.slot = slot BY <2>1, <2>3, <2>4, <2>5 DEF KindOf
    <3>2. 0 \in ToSendDl(tdd, pos) BY <1>1, <3>1, SendDlFacts
    <3>3. d.tti \in Current.ttis BY <2>1, <3>1 DEF AtGnbNext
    <3>4. d = [slot |-> slot + 0, tti |-> d.tti] BY <1>1, <2>2, <3>1
    <3>5. d.tti \in {t \in Current.ttis : t.type # "CTRL" /\ t.fmt = "DL" /\ u \in t.ues}
      BY <2>1, <2>5, <3>3
    <3> QED BY <3>2, <3>4, <3>5 DEF Dcis
  <2>6. CASE d.tti.fmt = "UL"
    <3> DEFINE k == d.slot - slot
    <3>1. TypeAt(tdd, d.slot) \in {"UL", "F"} /\ Announced(d.slot) = slot BY <2>1, <2>3, <2>4, <2>6 DEF KindOf
    <3>2. k \in ToSendUl(tdd, pos) BY <1>1, <2>1, <3>1, SendUlFacts
    <3>3. slot + k = d.slot /\ (k = 0 <=> d.slot = slot) BY <1>1, <2>1
    <3> HIDE DEF k
    <3>4. d.tti \in (IF k = 0 THEN Current ELSE slotAlloc'[slot + k]).ttis
      BY <2>1, <3>3 DEF AtGnbNext
    <3>5. d = [slot |-> slot + k, tti |-> d.tti] BY <2>2, <3>3
    <3>6. d.tti \in {t \in (IF k = 0 THEN Current ELSE slotAlloc'[slot + k]).ttis :
                       t.type # "CTRL" /\ t.fmt = "UL" /\ u \in t.ues}
      BY <2>1, <2>6, <3>4
    <3>7. d \in {[slot |-> slot + k, tti |-> t] : t \in
                   {t \in (IF k = 0 THEN Current ELSE slotAlloc'[slot + k]).ttis :
                      t.type # "CTRL" /\ t.fmt = "UL" /\ u \in t.ues}}
      BY <3>5, <3>6
    <3> QED BY <3>2, <3>7 DEF Dcis
  <2> QED BY <2>1, <2>5, <2>6 DEF VarTti
<1> QED BY <1>4, <1>5

\* StartSlot sends a DCI for each grant that becomes due.
LEMMA StartSlotGInv == FddPlanned /\ IInv /\ GInv /\ StartSlot => GInv'
<1> SUFFICES ASSUME FddPlanned, IInv, GInv, StartSlot PROVE GInv' OBVIOUS
<1>1. /\ phase = "idle" /\ phase' = "air" /\ slot' = slot /\ slot \in Slot /\ slot \in Int
      /\ Nxt = slot /\ Nxt' = slot + 1 /\ conf \in Configs /\ tdd' = tdd /\ FirstUe \in Nat
      /\ UNCHANGED <<conf, attached, ueSlot, ueAlloc, ueCurr>>
  BY StartPlan, Numbers
<1>2. \A s : Announced(s)' = Announced(s) BY <1>1 DEF Announced
<1>3. \A u \in UE : dci[u] = {} /\ Present(u)' = Present(u)
  BY <1>1 DEF GInv, OnAirCarried, Present, Grant
<1>4. \A u \in UE : dci'[u] = NewDue(u)
  <2>1. CASE dci' = [u \in UE |-> Dcis(u)] BY <2>1, SentIsDue
  <2>2. CASE dci' = dci /\ (Current.ttis = {} \/ ~NeedsChannel) BY <1>3, <2>2, DueSendable
  <2>3. dci' = [u \in UE |-> Dcis(u)] \/ (dci' = dci /\ (Current.ttis = {} \/ ~NeedsChannel))
    BY DEF StartSlot, DoStartSlot
  <2> QED BY <2>1, <2>2, <2>3
<1>5. HoldsDue'
  <2> SUFFICES ASSUME NEW u \in UE PROVE Held(u)' = Due(u)' BY DEF HoldsDue
  <2>1. Held(u)' = (ueAlloc[u] \union NewDue(u)) \union Present(u) BY <1>1, <1>3, <1>4 DEF Held
  <2>2. Due(u) = ueAlloc[u] \union Present(u) BY <1>3 DEF GInv, HoldsDue, Held
  <2>3. Due(u)' = Due(u) \union NewDue(u) BY DueSplit
  <2> QED BY <2>1, <2>2, <2>3
<1>6. Kinds' /\ FddUlPlanned' BY StartPlan
<1>7. KnownFrom' BY <1>1 DEF GInv, KnownFrom
<1>8. InStep'
  <2>1. UeCtrl(slot)' = UeCtrl(slot) BY <1>1 DEF UeCtrl
  <2> QED BY <1>1, <2>1 DEF GInv, InStep
<1>9. OnAirCarried'
  <2> SUFFICES ASSUME NEW u \in UE, dci'[u] # {} PROVE Carried' BY <1>1 DEF OnAirCarried
  <2>1. PICK d \in NewDue(u) : TRUE BY <1>4
  <2>2. ~IsTdd(tdd) \/ Contains(Current.ttis, "CTRL", "DL") BY <2>1, DueSendable
  <2> QED BY <1>1, <2>2, AllOnAir DEF Carried
<1>10. Fresh'
  <2> SUFFICES ASSUME NEW u \in UE
               PROVE  /\ \A d \in NewDue(u) : d.tti.fmt = "UL" => Announced(d.slot) = slot
                      /\ \A d \in ueAlloc[u] \union Present(u) : d.tti.fmt = "UL" /\ Announced(d.slot) < slot
    BY <1>1, <1>2, <1>3, <1>4 DEF Fresh
  <2>1. \A d \in NewDue(u) : d.tti.fmt = "UL" => Announced(d.slot) = slot BY DEF NewDue
  <2>2. ASSUME NEW d \in ueAlloc[u] \union Present(u)
        PROVE  d.tti.fmt = "UL" /\ Announced(d.slot) < slot
    <3>1. d \in Due(u) BY <2>2 DEF GInv, HoldsDue, Held
    <3>2. d \in Grant /\ d.slot \in Int /\ d.slot >= slot BY <3>1, Numbers, <1>1 DEF Due, Grant
    <3>3. ~(d.slot < slot) BY <1>1, <3>2
    <3> QED BY <1>1, <3>1, <3>3 DEF Due
  <2> QED BY <2>1, <2>2
<1>11. OnAirKinds'
  <2>1. \A s, t : KindOf(t, s)' = KindOf(t, s) BY <1>1 DEF KindOf, UeCtrl, Announced
  <2> QED BY <1>1, <2>1, AllOnAir DEF OnAirKinds
<1> QED BY <1>5, <1>6, <1>7, <1>8, <1>9, <1>10, <1>11 DEF GInv

\* A step that plans nothing, and starts and ends no slot, changes at most what
\* the UEs hold.
LEMMA GInvKept ==
  ASSUME GInv, conf' = conf, slot' = slot, slotAlloc' = slotAlloc, onAir' = onAir, Nxt' = Nxt,
         (phase' = "idle") <=> (phase = "idle")
  PROVE  /\ Kinds' /\ FddUlPlanned' /\ OnAirKinds' /\ \A u : Due(u)' = Due(u)
         /\ Carried' = Carried /\ (\A s : UeCtrl(s)' = UeCtrl(s) /\ Announced(s)' = Announced(s))
<1>1. tdd' = tdd BY DEF tdd
<1>2. \A s : UeCtrl(s)' = UeCtrl(s) /\ Announced(s)' = Announced(s) BY <1>1 DEF UeCtrl, Announced
<1>3. \A s, t : KindOf(t, s)' = KindOf(t, s) BY <1>1, <1>2 DEF KindOf
<1>4. Kinds' BY <1>3 DEF GInv, Kinds
<1>5. FddUlPlanned' BY <1>1 DEF GInv, FddUlPlanned
<1>6. OnAirKinds' BY <1>3 DEF GInv, OnAirKinds
<1>7. \A s : AtGnb(s)' = AtGnb(s) BY DEF AtGnb
<1>8. \A u : Due(u)' = Due(u) BY <1>2, <1>7 DEF Due, Grant
<1>9. Carried' = Carried BY <1>1 DEF Carried
<1> QED BY <1>2, <1>4, <1>5, <1>6, <1>8, <1>9

\* The uplink ends only when no control message is left on air.
LEMMA UplinkGInv == IInv /\ GInv /\ UplinkOnAir => GInv'
<1> SUFFICES ASSUME IInv, GInv, UplinkOnAir PROVE GInv' OBVIOUS
<1>1. /\ phase = "air" /\ phase' = "end" /\ Nxt' = Nxt
      /\ \A u \in UE : ueSlot[u] = slot /\ (Carried => dci[u] = {})
      /\ UNCHANGED <<conf, slot, channel, slotAlloc, onAir, ulMap, attached, dci, ueSlot, ueAlloc, ueCurr>>
  BY DEF UplinkOnAir, Nxt
<1>2. /\ Kinds' /\ FddUlPlanned' /\ OnAirKinds' /\ \A u : Due(u)' = Due(u)
      /\ Carried' = Carried /\ (\A s : UeCtrl(s)' = UeCtrl(s) /\ Announced(s)' = Announced(s))
  BY <1>1, GInvKept
<1>3. \A u \in UE : dci[u] = {} BY <1>1 DEF GInv, OnAirCarried
<1>4. HoldsDue' BY <1>1, <1>2 DEF GInv, HoldsDue, Held, Present, Grant
<1>5. KnownFrom' BY <1>1 DEF GInv, KnownFrom
<1>6. InStep' BY <1>1, <1>2 DEF GInv, InStep
<1>7. OnAirCarried' /\ Fresh' BY <1>1, <1>3 DEF OnAirCarried, Fresh
<1> QED BY <1>2, <1>4, <1>5, <1>6, <1>7 DEF GInv

\* With the slot its grants are gone, at the gNB and at the UEs.
LEMMA EndSlotGInv == IInv /\ GInv /\ EndSlot => GInv'
<1> SUFFICES ASSUME IInv, GInv, EndSlot PROVE GInv' OBVIOUS
<1>1. /\ phase = "end" /\ phase' = "idle" /\ slot' = slot + 1 /\ onAir' = {} /\ Nxt' = Nxt /\ Nxt = slot + 1
      /\ UNCHANGED <<conf, slotAlloc, ulMap, cqi, attached, dci, ueSlot, ueAlloc, ueCurr>>
  BY DEF EndSlot, Nxt
<1>2. slot \in Int /\ conf \in Configs /\ tdd' = tdd /\ \A d \in Grant : d.slot \in Int /\ d.slot \in Slot
  BY <1>1, Numbers DEF IInv, TypeOK, tdd, Grant
<1>3. \A s : UeCtrl(s)' = UeCtrl(s) /\ Announced(s)' = Announced(s) BY <1>2 DEF UeCtrl, Announced
<1>4. \A s, t : KindOf(t, s)' = KindOf(t, s) BY <1>2, <1>3 DEF KindOf
<1>5. Kinds' /\ FddUlPlanned' /\ OnAirKinds' /\ KnownFrom'
  BY <1>1, <1>2, <1>4 DEF GInv, Kinds, FddUlPlanned, OnAirKinds, KnownFrom
<1>6. \A u \in UE : dci[u] = {} /\ ueSlot[u] = slot /\ \A a \in ueAlloc[u] : a.slot # slot
  BY <1>1 DEF GInv, OnAirCarried, InStep
<1>7. HoldsDue'
  <2> SUFFICES ASSUME NEW u \in UE PROVE Held(u)' = Due(u)' BY DEF HoldsDue
  <2>1. Present(u)' = {}
    <3>1. ueSlot'[u] # slot' BY <1>1, <1>2, <1>6
    <3> QED BY <3>1 DEF Present
  <2>2. Held(u)' = ueAlloc[u] BY <1>1, <1>6, <2>1 DEF Held
  <2>3. ueAlloc[u] \union Present(u) = Due(u) BY <1>6 DEF GInv, HoldsDue, Held
  <2>4. \A d \in Present(u) : d.slot = slot BY DEF Present
  <2>5. ASSUME NEW d \in Grant PROVE d \in Due(u)' <=> d \in Due(u) /\ d.slot # slot
    <3>1. d.slot >= slot + 1 <=> (d.slot >= slot /\ d.slot # slot) BY <1>2
    <3>2. d.slot # slot => AtGnb(d.slot)' = AtGnb(d.slot) BY <1>1, <1>2 DEF AtGnb
    <3>3. d.slot # slot => (d \in Due(u)' <=> d \in Due(u)) BY <1>1, <1>3, <3>1, <3>2 DEF Due
    <3>4. d \in Due(u)' => d.slot # slot BY <1>1, <3>1 DEF Due
    <3> QED BY <3>3, <3>4
  <2>6. Due(u)' \subseteq Grant /\ Due(u) \subseteq Grant BY DEF Due, Grant
  <2> QED BY <1>6, <2>2, <2>3, <2>4, <2>5, <2>6
<1>8. InStep'
  <2>1. slot = slot' - 1 /\ slot # slot' BY <1>1, <1>2
  <2> QED BY <1>1, <1>6, <2>1 DEF InStep
<1>9. OnAirCarried' /\ Fresh' BY <1>1, <1>6 DEF OnAirCarried, Fresh
<1> QED BY <1>5, <1>7, <1>8, <1>9 DEF GInv

\* A UE that becomes known changes what may be planned, not what is held.
LEMMA AddUeGInv == ASSUME NEW u \in UE PROVE IInv /\ GInv /\ AddUe(u) => GInv'
<1> SUFFICES ASSUME IInv, GInv, AddUe(u) PROVE GInv' OBVIOUS
<1>1. /\ phase = "idle" /\ slot \in FirstUe .. LastUe /\ Nxt = slot /\ Nxt' = Nxt
      /\ UNCHANGED <<conf, slot, phase, channel, slotAlloc, onAir, ulMap, cqi, dci, ueSlot, ueAlloc, ueCurr>>
  BY DEF AddUe, Nxt
<1>2. /\ Kinds' /\ FddUlPlanned' /\ OnAirKinds' /\ \A v : Due(v)' = Due(v)
      /\ Carried' = Carried /\ (\A s : UeCtrl(s)' = UeCtrl(s) /\ Announced(s)' = Announced(s))
  BY <1>1, GInvKept
<1>3. KnownFrom' BY <1>1, PipelineAssumption DEF KnownFrom
<1>4. \A v \in UE : Present(v)' = Present(v) BY <1>1 DEF Present, Grant
<1>5. HoldsDue' BY <1>1, <1>2, <1>4 DEF GInv, HoldsDue, Held
<1>6. InStep' BY <1>1, <1>2 DEF GInv, InStep
<1>7. OnAirCarried' BY <1>1, <1>2 DEF GInv, OnAirCarried
<1>8. Fresh' BY <1>1, <1>2, <1>4 DEF GInv, Fresh
<1> QED BY <1>2, <1>3, <1>5, <1>6, <1>7, <1>8 DEF GInv

\* What a UE holds is well formed.
LEMMA HeldFacts ==
  ASSUME GInv, NEW u \in UE, NEW d \in ueAlloc[u] \union dci[u] \union Present(u)
  PROVE  d \in Due(u) /\ d \in Grant /\ d.tti.type # "CTRL" /\ d = [slot |-> d.slot, tti |-> d.tti]
<1>1. d \in Due(u) BY DEF GInv, HoldsDue, Held
<1>2. d \in Grant /\ d.tti.type # "CTRL" BY <1>1 DEF Due
<1> QED BY <1>1, <1>2 DEF Grant

\* A UE takes the grants of the new slot from those it kept.
LEMMA UeStartSlotGInv == ASSUME NEW u \in UE PROVE IInv /\ GInv /\ UeStartSlot(u) => GInv'
<1> SUFFICES ASSUME IInv, GInv, UeStartSlot(u) PROVE GInv' OBVIOUS
<1> DEFINE mine == {a \in ueAlloc[u] : a.slot = slot}
<1>1. /\ phase # "end" /\ slot <= MaxSlot /\ ueSlot[u] = slot - 1 /\ Nxt' = Nxt
      /\ ueSlot' = [ueSlot EXCEPT ![u] = slot]
      /\ ueCurr' = [ueCurr EXCEPT ![u] = UeCtrl(slot) \union {a.tti : a \in mine}]
      /\ ueAlloc' = [ueAlloc EXCEPT ![u] = {a \in @ : a.slot # slot}]
      /\ UNCHANGED <<conf, slot, phase, channel, slotAlloc, onAir, ulMap, cqi, attached, dci>>
  BY DEF UeStartSlot, Nxt
<1>2. /\ Kinds' /\ FddUlPlanned' /\ OnAirKinds' /\ \A v : Due(v)' = Due(v)
      /\ Carried' = Carried /\ (\A s : UeCtrl(s)' = UeCtrl(s) /\ Announced(s)' = Announced(s))
  BY <1>1, GInvKept
<1>3. /\ ueSlot'[u] = slot /\ ueCurr'[u] = UeCtrl(slot) \union {a.tti : a \in mine}
      /\ ueAlloc'[u] = {a \in ueAlloc[u] : a.slot # slot}
      /\ \A v \in UE \ {u} : ueSlot'[v] = ueSlot[v] /\ ueCurr'[v] = ueCurr[v] /\ ueAlloc'[v] = ueAlloc[v]
  BY <1>1 DEF IInv, TypeOK
<1>4. Present(u) = {} /\ Present(u)' = mine
  <2>1. slot \in Int BY PipelineAssumption DEF IInv, TypeOK
  <2>2. ueSlot[u] # slot BY <1>1, <2>1
  <2>3. \A t \in UeCtrl(slot) : t.type = "CTRL" BY CtrlFacts DEF UeCtrl
  <2>4. Present(u)' = {d \in Grant : d.slot = slot /\ d.tti \in ueCurr'[u] /\ d.tti.type # "CTRL"}
    BY <1>1, <1>3 DEF Present, Grant
  <2>5. ASSUME NEW a \in mine PROVE a \in Present(u)' BY <1>3, <2>4, HeldFacts
  <2>6. ASSUME NEW d \in Present(u)' PROVE d \in mine
    <3>1. d \in Grant /\ d.slot = slot /\ d.tti \in {a.tti : a \in mine} BY <1>3, <2>3, <2>4
    <3>2. PICK a \in mine : d.tti = a.tti BY <3>1
    <3>3. a = [slot |-> a.slot, tti |-> a.tti] BY HeldFacts
    <3>4. d = [slot |-> d.slot, tti |-> d.tti] BY <3>1 DEF Grant
    <3> QED BY <3>1, <3>2, <3>3, <3>4
  <2>7. Present(u) = {} BY <2>2 DEF Present
  <2> QED BY <2>5, <2>6, <2>7
<1>5. \A v \in UE \ {u} : Present(v)' = Present(v) BY <1>1, <1>3 DEF Present, Grant
<1>6. HoldsDue'
  <2> SUFFICES ASSUME NEW v \in UE PROVE Held(v)' = Due(v)' BY DEF HoldsDue
  <2>1. Held(v) = Due(v) /\ Due(v)' = Due(v) BY <1>2 DEF GInv, HoldsDue
  <2>2. CASE v = u BY <1>1, <1>3, <1>4, <2>1, <2>2 DEF Held
  <2>3. CASE v # u BY <1>1, <1>3, <1>5, <2>1, <2>3 DEF Held
  <2> QED BY <2>2, <2>3
<1>7. KnownFrom' BY <1>1 DEF GInv, KnownFrom
<1>8. InStep'
  <2> SUFFICES ASSUME NEW v \in UE
               PROVE  /\ ueSlot'[v] \in {slot - 1, slot}
                      /\ ueSlot'[v] = slot => /\ UeCtrl(slot) \subseteq ueCurr'[v]
                                             /\ \A a \in ueAlloc'[v] : a.slot # slot
    BY <1>1, <1>2 DEF InStep
  <2>1. CASE v = u BY <1>3, <2>1
  <2>2. CASE v # u BY <1>3, <2>2 DEF GInv, InStep
  <2> QED BY <2>1, <2>2
<1>9. OnAirCarried' BY <1>1, <1>2 DEF GInv, OnAirCarried
<1>10. Fresh'
  <2>1. \A v \in UE : ueAlloc'[v] \union Present(v)' \subseteq ueAlloc[v] \union Present(v)
    <3> SUFFICES ASSUME NEW v \in UE
                 PROVE  ueAlloc'[v] \union Present(v)' \subseteq ueAlloc[v] \union Present(v)
      OBVIOUS
    <3>1. CASE v = u BY <1>3, <1>4, <3>1
    <3>2. CASE v # u BY <1>3, <1>5, <3>2
    <3> QED BY <3>1, <3>2
  <2> QED BY <1>1, <1>2, <2>1 DEF GInv, Fresh
<1> QED BY <1>2, <1>6, <1>7, <1>8, <1>9, <1>10 DEF GInv

\* A UE sorts the DCIs it receives: those for this slot and those it keeps.
LEMMA PhyCtrlGInv ==
  ASSUME NEW u \in UE PROVE IInv /\ GInv /\ PhyCtrlMessagesReceived(u) => GInv'
<1> SUFFICES ASSUME IInv, GInv, PhyCtrlMessagesReceived(u) PROVE GInv' OBVIOUS
<1> DEFINE now == {d \in dci[u] : d.tti.fmt = "DL" \/ d.slot = ueSlot[u]}
<1>1. /\ phase = "air" /\ Carried /\ ueSlot[u] = slot /\ Nxt' = Nxt /\ Nxt = slot + 1
      /\ ueCurr' = [ueCurr EXCEPT ![u] = @ \union {d.tti : d \in now}]
      /\ ueAlloc' = [ueAlloc EXCEPT ![u] = @ \union (dci[u] \ now)]
      /\ dci' = [dci EXCEPT ![u] = {}]
      /\ UNCHANGED <<conf, slot, phase, channel, slotAlloc, onAir, ulMap, cqi, attached, ueSlot>>
  BY DEF PhyCtrlMessagesReceived, Nxt
<1>2. /\ Kinds' /\ FddUlPlanned' /\ OnAirKinds' /\ \A v : Due(v)' = Due(v)
      /\ Carried' = Carried /\ (\A s : UeCtrl(s)' = UeCtrl(s) /\ Announced(s)' = Announced(s))
  BY <1>1, GInvKept
<1>3. /\ ueCurr'[u] = ueCurr[u] \union {d.tti : d \in now}
      /\ ueAlloc'[u] = ueAlloc[u] \union (dci[u] \ now) /\ dci'[u] = {}
      /\ \A v \in UE \ {u} : dci'[v] = dci[v] /\ ueCurr'[v] = ueCurr[v] /\ ueAlloc'[v] = ueAlloc[v]
  BY <1>1 DEF IInv, TypeOK
<1>4. \A d \in now : d.slot = slot
  <2> SUFFICES ASSUME NEW d \in dci[u], d.tti.fmt = "DL" PROVE d.slot = slot BY <1>1
  <2>1. d \in Due(u) BY HeldFacts
  <2>2. slot \in Int /\ d.slot \in Int BY <2>1, PipelineAssumption DEF Due, Grant, Slot, IInv, TypeOK
  <2>3. d.slot >= slot /\ d.slot < Nxt BY <2>1 DEF Due
  <2> QED BY <1>1, <2>2, <2>3
<1>5. \A d \in dci[u] \ now : d.slot # slot BY <1>1
<1>6. Present(u)' = Present(u) \union now
  <2>1. Present(u)' = {d \in Grant : d.slot = slot /\ d.tti \in ueCurr'[u] /\ d.tti.type # "CTRL"}
    BY <1>1 DEF Present, Grant
  <2>2. Present(u) = {d \in Grant : d.slot = slot /\ d.tti \in ueCurr[u] /\ d.tti.type # "CTRL"}
    BY <1>1 DEF Present
  <2>3. ASSUME NEW d \in now PROVE d \in Present(u)' BY <1>3, <1>4, <2>1, HeldFacts
  <2>4. Present(u) \subseteq Present(u)' BY <1>3, <2>1, <2>2
  <2>5. ASSUME NEW d \in Present(u)', d \notin Present(u) PROVE d \in now
    <3>1. d \in Grant /\ d.slot = slot /\ d.tti \in {x.tti : x \in now} BY <1>3, <2>1, <2>2, <2>5
    <3>2. PICK a \in now : d.tti = a.tti BY <3>1
    <3>3. a = [slot |-> a.slot, tti |-> a.tti] /\ a.slot = slot BY <1>4, HeldFacts
    <3>4. d = [slot |-> d.slot, tti |-> d.tti] BY <3>1 DEF Grant
    <3> QED BY <3>1, <3>2, <3>3, <3>4
  <2> QED BY <2>3, <2>4, <2>5
<1> HIDE DEF now
<1>7. \A v \in UE \ {u} : Present(v)' = Present(v) BY <1>1, <1>3 DEF Present, Grant
<1>8. now \subseteq dci[u] BY DEF now
<1>9. HoldsDue'
  <2> SUFFICES ASSUME NEW v \in UE PROVE Held(v)' = Due(v)' BY DEF HoldsDue
  <2>1. Held(v) = Due(v) /\ Due(v)' = Due(v) BY <1>2 DEF GInv, HoldsDue
  <2>2. CASE v = u BY <1>3, <1>6, <1>8, <2>1, <2>2 DEF Held
  <2>3. CASE v # u BY <1>3, <1>7, <2>1, <2>3 DEF Held
  <2> QED BY <2>2, <2>3
<1>10. KnownFrom' BY <1>1 DEF GInv, KnownFrom
<1>11. InStep'
  <2> SUFFICES ASSUME NEW v \in UE
               PROVE  /\ ueSlot[v] \in {slot - 1, slot}
                      /\ ueSlot[v] = slot => /\ UeCtrl(slot) \subseteq ueCurr'[v]
                                            /\ \A a \in ueAlloc'[v] : a.slot # slot
    BY <1>1, <1>2 DEF InStep
  <2>1. CASE v = u BY <1>3, <1>5, <2>1 DEF GInv, InStep
  <2>2. CASE v # u BY <1>3, <2>2 DEF GInv, InStep
  <2> QED BY <2>1, <2>2
<1>12. OnAirCarried' BY <1>1, <1>2, <1>3 DEF OnAirCarried
<1>13. Fresh'
  <2> SUFFICES ASSUME NEW v \in UE, dci'[v] # {}
               PROVE  /\ \A d \in dci'[v] : d.tti.fmt = "UL" => Announced(d.slot) = slot
                      /\ \A d \in ueAlloc'[v] \union Present(v)' : d.tti.fmt = "UL" /\ Announced(d.slot) < slot
    BY <1>1, <1>2 DEF Fresh
  <2>1. v # u BY <1>3
  <2> QED BY <1>3, <1>7, <2>1 DEF GInv, Fresh
<1> QED BY <1>2, <1>9, <1>10, <1>11, <1>12, <1>13 DEF GInv

\* Every step preserves the invariant.
LEMMA NextGInv == FddPlanned /\ IInv /\ GInv /\ [Next]_vars => GInv'
<1> SUFFICES ASSUME FddPlanned, IInv, GInv, [Next]_vars PROVE GInv' OBVIOUS
<1>1. CASE StartSlot BY <1>1, StartSlotGInv
<1>2. CASE UplinkOnAir BY <1>2, UplinkGInv
<1>3. CASE EndSlot BY <1>3, EndSlotGInv
<1>4. ASSUME NEW u \in UE, AddUe(u) PROVE GInv' BY <1>4, AddUeGInv
<1>5. ASSUME NEW u \in UE, UeStartSlot(u) PROVE GInv' BY <1>5, UeStartSlotGInv
<1>6. ASSUME NEW u \in UE, PhyCtrlMessagesReceived(u) PROVE GInv' BY <1>6, PhyCtrlGInv
<1>7. CASE UNCHANGED vars
  <2>1. /\ UNCHANGED <<conf, slot, phase, channel, slotAlloc, onAir, ulMap, cqi, attached, dci, ueSlot, ueAlloc, ueCurr>>
        /\ Nxt' = Nxt
    BY <1>7 DEF vars, Nxt
  <2>2. /\ Kinds' /\ FddUlPlanned' /\ OnAirKinds' /\ \A v : Due(v)' = Due(v)
        /\ Carried' = Carried /\ (\A s : UeCtrl(s)' = UeCtrl(s) /\ Announced(s)' = Announced(s))
    BY <2>1, GInvKept
  <2>3. \A v \in UE : Present(v)' = Present(v) BY <2>1 DEF Present, Grant
  <2>4. HoldsDue' /\ Fresh' BY <2>1, <2>2, <2>3 DEF GInv, HoldsDue, Held, Fresh
  <2>5. KnownFrom' /\ InStep' /\ OnAirCarried' BY <2>1, <2>2 DEF GInv, KnownFrom, InStep, OnAirCarried
  <2> QED BY <2>2, <2>4, <2>5 DEF GInv
<1> QED BY <1>1, <1>2, <1>3, <1>4, <1>5, <1>6, <1>7 DEF Next

\* Gained and due are the same, at every moment.
LEMMA SpecGInv == FddPlanned => (Spec => [](IInv /\ GInv))
<1> SUFFICES ASSUME FddPlanned PROVE Spec => [](IInv /\ GInv) OBVIOUS
<1>1. Init => IInv /\ GInv BY InitIInv, InitGInv
<1>2. (IInv /\ GInv) /\ [Next]_vars => (IInv /\ GInv)' BY NextIInv, NextGInv
<1> QED BY <1>1, <1>2, PTL DEF Spec

(***************************************************************************)
(* The theorems.                                                            *)
(***************************************************************************)
\* When a slot is over, every UE has held exactly what the gNB has executed,
\* whatever the pattern, the delays and the decisions: the tables by which
\* ScheduleUl plans and RetrieveMsgsFromDCIs announces agree.
THEOREM GrantsAgree == FddPlanned /\ BroadcastInDl => (Spec => []UeAgrees)
<1> SUFFICES ASSUME FddPlanned, BroadcastInDl PROVE Spec => []UeAgrees OBVIOUS
<1>1. IInv /\ GInv => UeAgrees
  <2> SUFFICES ASSUME IInv, GInv, phase = "end", NEW u \in UE
               PROVE  /\ {t \in onAir : t.type # "CTRL" /\ u \in t.ues} \subseteq ueCurr[u]
                      /\ {t \in ueCurr[u] : t.type # "CTRL"} \subseteq onAir
                      /\ {t \in onAir : t.type = "CTRL"} \subseteq ueCurr[u]
    BY DEF UeAgrees
  <2>1. /\ ueSlot[u] = slot /\ dci[u] = {} /\ UeCtrl(slot) \subseteq ueCurr[u]
        /\ \A a \in ueAlloc[u] : a.slot # slot
    BY DEF GInv, InStep, OnAirCarried
  <2>2. ueAlloc[u] \union Present(u) = Due(u) BY <2>1 DEF GInv, HoldsDue, Held
  <2>3. /\ slot \in Slot /\ slot \in Int /\ conf \in Configs /\ Nxt = slot + 1 /\ N2 \in Nat
        /\ onAir \subseteq VarTti /\ ueCurr[u] \subseteq VarTti
    BY Numbers DEF GInv, OnAirKinds, IInv, TypeOK, Nxt
  <2>4. ASSUME NEW t \in onAir, t.type # "CTRL", u \in t.ues PROVE t \in ueCurr[u]
    <3> DEFINE d == [slot |-> slot, tti |-> t]
    <3>1. d \in Grant /\ d.slot = slot /\ d.tti = t BY <2>3, <2>4 DEF Grant
    <3>2. Announced(slot) < Nxt /\ slot < Nxt /\ slot >= slot BY <2>3, AnnouncedFacts
    <3> HIDE DEF d
    <3>3. d \in Due(u) BY <2>4, <3>1, <3>2 DEF Due, AtGnb
    <3>4. d \in Present(u) BY <2>1, <2>2, <3>1, <3>3
    <3> QED BY <3>1, <3>4 DEF Present
  <2>5. ASSUME NEW t \in ueCurr[u], t.type # "CTRL" PROVE t \in onAir
    <3> DEFINE d == [slot |-> slot, tti |-> t]
    <3>1. d \in Grant /\ d.slot = slot /\ d.tti = t BY <2>3, <2>5 DEF Grant
    <3> HIDE DEF d
    <3>2. d \in Present(u) BY <2>1, <2>5, <3>1 DEF Present
    <3>3. d \in Due(u) BY <2>2, <3>2
    <3> QED BY <3>1, <3>3 DEF Due, AtGnb
  <2>6. ASSUME NEW t \in onAir, t.type = "CTRL" PROVE t \in ueCurr[u]
    <3>1. KindOf(t, slot) BY <2>6 DEF GInv, OnAirKinds
    <3>2. t \in UeCtrl(slot) BY <2>6, <3>1 DEF KindOf
    <3> QED BY <2>1, <3>2
  <2> QED BY <2>4, <2>5, <2>6
<1> QED BY <1>1, SpecGInv, PTL

\* No grant is announced twice: m_toSendUl names each uplink slot once per
\* period of the pattern.
THEOREM DciOnceHolds == FddPlanned => (Spec => []DciOnce)
<1> SUFFICES ASSUME FddPlanned PROVE Spec => []DciOnce OBVIOUS
<1>1. IInv /\ GInv => DciOnce
  <2> SUFFICES ASSUME IInv, GInv, NEW u \in UE, ueSlot[u] = slot, NEW d \in dci[u]
               PROVE  d \notin ueAlloc[u] /\ (d.slot = slot => d.tti \notin ueCurr[u])
    BY DEF DciOnce
  <2>1. d \in Grant /\ d.slot \in Int /\ Announced(d.slot) \in Int /\ d.tti.type # "CTRL"
    <3>1. d \in Grant /\ d.tti.type # "CTRL" BY HeldFacts
    <3>2. conf \in Configs BY DEF IInv, TypeOK
    <3>3. d.slot \in Int BY <3>1, <3>2, Numbers DEF Grant
    <3> QED BY <3>1, <3>2, <3>3, AnnouncedFacts
  <2>2. slot \in Int BY PipelineAssumption DEF IInv, TypeOK
  <2>3. d \notin ueAlloc[u] \union Present(u) BY <2>1, <2>2 DEF GInv, Fresh
  <2>4. d.slot = slot /\ d.tti \in ueCurr[u] => d \in Present(u) BY <2>1 DEF Present
  <2> QED BY <2>3, <2>4
<1> QED BY <1>1, SpecGInv, PTL

\* DCIs are only due in slots that can carry them: none is left when a slot
\* begins.
THEOREM NoMessageLeftHolds == FddPlanned => (Spec => []NoMessageLeft)
<1> SUFFICES ASSUME FddPlanned PROVE Spec => []NoMessageLeft OBVIOUS
<1>1. IInv /\ GInv => NoMessageLeft BY DEF GInv, OnAirCarried, NoMessageLeft
<1> QED BY <1>1, SpecGInv, PTL
=============================================================================
