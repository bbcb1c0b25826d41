------------------------- MODULE SlotPipelineProofs -------------------------
(***************************************************************************)
(* Proofs about SlotPipeline, for every set of configurations, of UEs and   *)
(* of slots: the type invariant, that no two allocations of a slot share a  *)
(* symbol, and that every uplink CQI finds the block it is about.           *)
(***************************************************************************)
EXTENDS SlotPipeline, TLAPS

USE DEF L, DlCtrl, UlCtrl

(***************************************************************************)
(* The inductive invariant.                                                 *)
(***************************************************************************)
\* The next slot StartSlot is called for, and the slots from the planning of
\* the uplink of a slot to that slot.
Nxt == IF phase = "idle" THEN slot ELSE slot + 1
Delay(s) == DciDelay(tdd, s % Len(tdd), N2) + L

\* Nothing is planned or booked for a slot whose uplink is not planned yet.
NotPlanned ==
  \A s \in Slot :
    (Nxt <= s - L /\ (Nxt <= s - Delay(s) \/ TypeAt(tdd, s) \notin {"UL", "F"}))
      => slotAlloc[s].ttis = {} /\ ulMap[s] = NoElem

\* Until its downlink is planned, a slot holds what m_ulAllocationMap has
\* booked at its end, and no more.
Booked ==
  \A s \in Slot : Nxt <= s - L =>
    /\ \A t \in slotAlloc[s].ttis : t.start >= Sym - ulMap[s].tot
    /\ TypeAt(tdd, s) = "F" => ulMap[s].tot <= Sym - DlCtrl
    /\ ulMap[s].tot <= UlCtrl => ulMap[s].blocks = {}

SlotsDisjoint == \A s \in Slot : Disjoint(slotAlloc[s].ttis)

\* A CQI is about a slot that has been on air.
CqiPast == \A r \in cqi : r[1] < Nxt

\* Every uplink block, planned or on air, waits in m_ulAllocationMap for its CQI.
UlData(A) == {t \in A : t.type = "DATA" /\ t.fmt = "UL"}
Waiting ==
  /\ \A s \in Slot : Nxt <= s => \A t \in UlData(slotAlloc[s].ttis) : t.start \in ulMap[s].blocks
  /\ phase = "air" => \A t \in UlData(onAir) : t.start \in ulMap[slot].blocks

\* A primary bandwidth part has downlink, and its broadcast slots are not UL.
BroadcastInDl ==
  \A c \in Configs : c.primary =>
    /\ IsTdd(c.tdd) \/ ~HasUlSlot(c.tdd)
    /\ \A b \in Broadcast : TypeAt(c.tdd, b) # "UL"

\* The first slots have no allocation; later ones that may carry a broadcast
\* message have their DL CTRL.
DlCtrlPlanned ==
  /\ \A s \in Slot : s < L => slotAlloc[s].ttis = {}
  /\ IsTdd(tdd) \/ ~HasUlSlot(tdd) =>
       \A s \in Slot : (L <= s /\ s - L < Nxt /\ Nxt <= s /\ TypeAt(tdd, s) # "UL")
                        => Contains(slotAlloc[s].ttis, "CTRL", "DL")
\* What is on air shares no symbol, unless the broadcast DL CTRL meets an UL slot.
OnAirDisjoint == BroadcastInDl => Disjoint(onAir)

\* No slot behind MaxSlot is started.
Bounded == Nxt <= MaxSlot + 1

IInv ==
  /\ TypeOK /\ NotPlanned /\ Booked /\ SlotsDisjoint /\ CqiPast /\ CqiFindsAllocation
  /\ Waiting /\ DlCtrlPlanned /\ OnAirDisjoint /\ Bounded

(***************************************************************************)
(* Arithmetic of positions in the pattern.                                  *)
(***************************************************************************)
\* Division with remainder by the length of a pattern.
LEMMA DivMod ==
  ASSUME NEW n \in Nat, n > 0, NEW s \in Int
  PROVE  /\ s \div n \in Int /\ s % n \in 0 .. n - 1
         /\ s = n * (s \div n) + (s % n)
<1>1. s \div n \in Int BY SMT
<1>2. s % n \in 0 .. n-1 BY SMT
<1>3. s = n * (s \div n) + (s % n) BY SMT
<1> QED BY <1>1, <1>2, <1>3

\* The remainder of a multiple plus a position.
LEMMA ModOf ==
  ASSUME NEW n \in Nat, n > 0, NEW c \in Int, NEW p \in 0 .. n-1
  PROVE  (n*c + p) % n = p
  BY SMT

\* A product with a difference.
LEMMA Distr == ASSUME NEW n \in Int, NEW a \in Int, NEW b \in Int PROVE n * a - n * b = n * (a - b)
  BY SMT

\* The slot that lies k after a slot at position p - k is at position p.
LEMMA ModShift ==
  ASSUME NEW n \in Nat, n > 0, NEW p \in 0 .. n-1, NEW s \in Int, NEW k \in Int, (p - k) % n = s % n
  PROVE  (s + k) % n = p
<1> DEFINE a == s \div n
           b == (p - k) \div n
           r == s % n
<1>1. a \in Int /\ b \in Int /\ r \in Int /\ s = n * a + r BY DivMod
<1>2. p - k \in Int OBVIOUS
<1>3. p - k = n * b + r BY <1>2, DivMod
<1> HIDE DEF a, b, r
<1>4. n * a \in Int /\ n * b \in Int /\ n * a - n * b = n * (a - b) BY <1>1, Distr
<1>5. s + k = n * (a - b) + p BY <1>1, <1>3, <1>4
<1>6. a - b \in Int BY <1>1
<1> QED BY <1>5, <1>6, ModOf

\* And back: the slot k before a slot is k positions before it.
LEMMA ModBack ==
  ASSUME NEW n \in Nat, n > 0, NEW s \in Int, NEW k \in Int
  PROVE  (((s + k) % n) - k) % n = s % n
<1> DEFINE a == s \div n
           b == (s + k) \div n
           r == s % n
           q == (s + k) % n
<1>1. a \in Int /\ r \in 0 .. n - 1 /\ s = n * a + r BY DivMod
<1>2. s + k \in Int OBVIOUS
<1>3. b \in Int /\ q \in Int /\ s + k = n * b + q BY <1>2, DivMod
<1> HIDE DEF a, b, r, q
<1>4. n * a \in Int /\ n * b \in Int /\ n * a - n * b = n * (a - b) BY <1>1, <1>3, Distr
<1>5. q - k = n * (a - b) + r BY <1>1, <1>3, <1>4
<1>6. a - b \in Int BY <1>1, <1>3
<1>7. (n * (a - b) + r) % n = r BY <1>1, <1>6, ModOf
<1> QED BY <1>5, <1>7 DEF q, r

(***************************************************************************)
(* What the pattern gives: when a slot is planned and announced.            *)
(***************************************************************************)
Types == {"DL", "S", "F", "UL"}

\* A configuration has a pattern of known slot types.
LEMMA Pattern ==
  ASSUME conf \in Configs
  PROVE  /\ tdd \in Seq(Types) /\ Len(tdd) \in Nat /\ Len(tdd) > 0
         /\ \A s \in Int : s % Len(tdd) \in Len0(tdd) /\ TypeAt(tdd, s) \in Types
                           /\ TypeAt(tdd, s % Len(tdd)) = TypeAt(tdd, s)
<1>1. tdd \in Seq(Types) /\ Len(tdd) \in Nat /\ Len(tdd) > 0
  BY PipelineAssumption DEF tdd, Types
<1>2. ASSUME NEW s \in Int
      PROVE  s % Len(tdd) \in Len0(tdd) /\ TypeAt(tdd, s) \in Types
             /\ TypeAt(tdd, s % Len(tdd)) = TypeAt(tdd, s)
  <2>1. s % Len(tdd) \in Len0(tdd) BY <1>1, DivMod DEF Len0
  <2>2. (s % Len(tdd)) % Len(tdd) = s % Len(tdd)
    <3> DEFINE n == Len(tdd)
               p == s % Len(tdd)
    <3>1. n \in Nat /\ n > 0 /\ p \in 0 .. n - 1 BY <1>1, <2>1 DEF Len0
    <3> HIDE DEF n, p
    <3>2. (n * 0 + p) % n = p BY <3>1, ModOf
    <3>3. n * 0 + p = p BY <3>1
    <3> QED BY <3>2, <3>3 DEF n, p
  <2>3. (s % Len(tdd)) + 1 \in 1 .. Len(tdd) BY <1>1, <2>1 DEF Len0
  <2> QED BY <1>1, <2>1, <2>2, <2>3 DEF TypeAt
<1> QED BY <1>1, <1>2

\* The delay ReturnDciSlot finds is within the bound; it is 0 for a slot with
\* downlink and N0 = 0.
LEMMA DelayFacts ==
  ASSUME conf \in Configs, NEW p \in Len0(tdd)
  PROVE  /\ \A n \in {0, N2} : DciDelay(tdd, p, n) \in n .. Ahead - L
         /\ GenType(tdd, p) # "UL" => DciDelay(tdd, p, 0) = 0
<1>1. \A n \in {0, N2} : \E k \in n .. Ahead - L : FirstDciSlot(tdd, p, n, k)
  BY PipelineAssumption DEF tdd
<1>2. \A n \in {0, N2} : /\ DciDelay(tdd, p, n) \in n .. Ahead - L
                         /\ FirstDciSlot(tdd, p, n, DciDelay(tdd, p, n))
  BY <1>1 DEF DciDelay
<1>3. ASSUME GenType(tdd, p) # "UL" PROVE DciDelay(tdd, p, 0) = 0
  <2> DEFINE k == DciDelay(tdd, p, 0)
  <2>1. k \in 0 .. Ahead - L /\ FirstDciSlot(tdd, p, 0, k) BY <1>2
  <2> HIDE DEF k
  <2>2. Ahead \in Nat BY PipelineAssumption
  <2>3. \A j \in 0 .. k - 1 : GenType(tdd, p - j) = "UL" BY <2>1 DEF FirstDciSlot
  <2>4. p - 0 = p BY DEF Len0
  <2>5. ~(0 \in 0 .. k - 1) BY <2>3, <2>4, <1>3
  <2>6. k = 0 BY <2>1, <2>2, <2>5
  <2> QED BY <2>6 DEF k
<1> QED BY <1>2, <1>3

\* A pattern with neither F slots nor both directions.
LEMMA Fdd ==
  ASSUME conf \in Configs, ~IsTdd(tdd), NEW s \in Int
  PROVE  IF HasUlSlot(tdd) THEN TypeAt(tdd, s) \in {"S", "UL"} ELSE TypeAt(tdd, s) # "UL"
<1>1. (s % Len(tdd)) + 1 \in 1 .. Len(tdd) /\ TypeAt(tdd, s) \in Types
  <2>1. Len(tdd) \in Nat /\ s % Len(tdd) \in 0 .. Len(tdd) - 1 /\ TypeAt(tdd, s) \in Types
    BY Pattern DEF Len0
  <2> QED BY <2>1
<1>2. TypeAt(tdd, s) = tdd[(s % Len(tdd)) + 1] BY DEF TypeAt
<1> QED BY <1>1, <1>2 DEF IsTdd, HasUlSlot, Types

\* The uplink of a slot is planned once, Delay slots before it.
LEMMA UlTargetFacts ==
  ASSUME conf \in Configs, slot \in 0 .. MaxSlot, NEW s \in UlTargets
  PROVE  /\ s \in Slot /\ TypeAt(tdd, s) \in {"UL", "F"}
         /\ slot = s - Delay(s) /\ Delay(s) \in Nat /\ Delay(s) >= L
<1> DEFINE n == Len(tdd)
<1>1. n \in Nat /\ n > 0 /\ pos = slot % n /\ N2 \in Nat /\ Ahead \in Nat /\ MaxSlot \in Nat
  BY Pattern, PipelineAssumption DEF pos
<1>2. PICK p \in Len0(tdd) :
        /\ s = slot + (DciDelay(tdd, p, N2) + L)
        /\ HasUl(tdd, p) /\ (p - DciDelay(tdd, p, N2) - L) % n = pos
        /\ IsTdd(tdd) \/ HasUlSlot(tdd)
  BY DEF UlTargets, GenerateUl
<1> DEFINE k == DciDelay(tdd, p, N2) + L
<1>3. k \in Nat /\ k >= L /\ k <= Ahead
  <2>1. DciDelay(tdd, p, N2) \in N2 .. Ahead - L BY DelayFacts
  <2> QED BY <1>1, <2>1
<1>4. DciDelay(tdd, p, N2) \in Int /\ p \in 0 .. n - 1 BY <1>1, <1>3, DelayFacts DEF Len0
<1>5. p - DciDelay(tdd, p, N2) - L = p - k BY <1>4
<1>6. (slot + k) % n = p
  <2>1. (p - k) % n = slot % n BY <1>1, <1>2, <1>5
  <2>2. slot \in Int /\ k \in Int BY <1>3
  <2> HIDE DEF k, n
  <2> QED BY <1>1, <1>4, <2>1, <2>2, ModShift
<1>7. s = slot + k /\ s % n = p BY <1>2, <1>6
<1>8. s \in Slot BY <1>1, <1>3, <1>7 DEF Slot
<1>9. TypeAt(tdd, s) \in {"UL", "F"}
  <2>1. TypeAt(tdd, p) = TypeAt(tdd, s) BY <1>7, <1>8, Pattern DEF Slot
  <2>2. CASE IsTdd(tdd) BY <1>2, <2>1, <2>2 DEF HasUl, GenType
  <2>3. CASE ~IsTdd(tdd)
    <3>1. TypeAt(tdd, s) \in {"S", "UL"} BY <1>2, <1>8, <2>3, Fdd DEF Slot
    <3> QED BY <1>2, <2>1, <3>1 DEF HasUl
  <2> QED BY <2>2, <2>3
<1>10. Delay(s) = k BY <1>7 DEF Delay
<1> QED BY <1>3, <1>7, <1>8, <1>9, <1>10

\* The downlink of a slot is planned once, L slots before it.
LEMMA DlTargetFacts ==
  ASSUME conf \in Configs, slot \in 0 .. MaxSlot, NEW s \in DlTargets
  PROVE  s \in Slot /\ TypeAt(tdd, s) # "UL" /\ s = slot + L
<1> DEFINE n == Len(tdd)
<1>1. n \in Nat /\ n > 0 /\ pos = slot % n /\ N2 \in Nat /\ Ahead \in Nat /\ Ahead >= L /\ MaxSlot \in Nat
  BY Pattern, PipelineAssumption DEF pos
<1>2. PICK p \in Len0(tdd) :
        /\ s = slot + (DciDelay(tdd, p, 0) + L)
        /\ HasDl(tdd, p) /\ (p - DciDelay(tdd, p, 0) - L) % n = pos
        /\ IsTdd(tdd) \/ ~HasUlSlot(tdd)
  BY DEF DlTargets, GenerateDl
<1>3. DciDelay(tdd, p, 0) = 0 BY <1>2, DelayFacts DEF HasDl
<1>4. s = slot + L /\ s \in Slot BY <1>1, <1>2, <1>3 DEF Slot
<1>5. s % n = p
  <2>1. p \in 0 .. n - 1 BY DEF Len0
  <2>2. p - 0 - L = p - L BY <2>1
  <2>3. (p - L) % n = slot % n BY <1>1, <1>2, <1>3, <2>2
  <2> HIDE DEF n
  <2>4. slot \in Int /\ L \in Int BY <1>1
  <2>5. (slot + L) % n = p
    <3> HIDE DEF L
    <3> QED BY <1>1, <2>1, <2>3, <2>4, ModShift
  <2> QED BY <2>5, <1>4
<1>6. TypeAt(tdd, s) # "UL"
  <2>1. TypeAt(tdd, p) = TypeAt(tdd, s) BY <1>4, <1>5, Pattern DEF Slot
  <2>2. CASE IsTdd(tdd) BY <1>2, <2>1, <2>2 DEF HasDl, GenType
  <2>3. CASE ~IsTdd(tdd) BY <1>2, <1>4, <2>3, Fdd DEF Slot
  <2> QED BY <2>2, <2>3
<1> QED BY <1>4, <1>6

\* Where there is downlink at all, a slot that is not UL is planned L slots
\* before it.
LEMMA DlTargetBack ==
  ASSUME conf \in Configs, slot \in 0 .. MaxSlot, TypeAt(tdd, slot + L) # "UL",
         IsTdd(tdd) \/ ~HasUlSlot(tdd)
  PROVE  slot + L \in DlTargets
<1> DEFINE n == Len(tdd)
           p == (slot + L) % n
<1>1. n \in Nat /\ n > 0 /\ pos = slot % n /\ p \in Len0(tdd) /\ TypeAt(tdd, p) # "UL"
  BY Pattern DEF pos
<1>2. HasDl(tdd, p) BY <1>1 DEF HasDl, GenType
<1>3. DciDelay(tdd, p, 0) = 0 BY <1>1, <1>2, DelayFacts DEF HasDl
<1>4. (p - L) % n = slot % n
  <2>1. slot \in Int /\ L \in Int BY PipelineAssumption
  <2> HIDE DEF n, L
  <2> QED BY <1>1, <2>1, ModBack
<1>5. p - 0 - L = p - L BY <1>1 DEF Len0
<1>6. L \in GenerateDl(tdd, pos)
  <2>1. (p - DciDelay(tdd, p, 0) - L) % n = pos BY <1>1, <1>3, <1>4, <1>5
  <2>2. DciDelay(tdd, p, 0) + L = L BY <1>3
  <2> HIDE DEF p
  <2> QED BY <1>1, <1>2, <2>1, <2>2 DEF GenerateDl
<1> QED BY <1>6 DEF DlTargets

(***************************************************************************)
(* What the scheduler may decide for one slot.                              *)
(***************************************************************************)
\* A tiling cuts its range in columns that follow each other.
LEMMA TilingFacts ==
  ASSUME NEW from \in Nat, NEW to \in Nat, NEW f \in Tilings(from, to)
  PROVE  /\ \A s \in DOMAIN f : s \in from .. to - 1 /\ f[s] \in 1 .. to - from /\ s + f[s] <= to
         /\ \A s, t \in DOMAIN f : s < t => s + f[s] <= t
         /\ from = to => DOMAIN f = {}
<1>1. PICK S \in SUBSET (from .. to - 1) : f \in [S -> 1 .. to - from] BY DEF Tilings
<1>2. /\ \A s \in DOMAIN f : s + f[s] = to \/ s + f[s] \in DOMAIN f
      /\ \A s, t \in DOMAIN f : s < t => s + f[s] <= t
  BY DEF Tilings
<1>3. ASSUME NEW s \in DOMAIN f
      PROVE  s \in from .. to - 1 /\ f[s] \in 1 .. to - from /\ s + f[s] <= to
  <2>1. s \in from .. to - 1 /\ f[s] \in 1 .. to - from BY <1>1
  <2>2. DOMAIN f \subseteq from .. to - 1 BY <1>1
  <2>3. s + f[s] = to \/ s + f[s] \in from .. to - 1 BY <1>2, <2>2
  <2> QED BY <2>1, <2>3
<1>4. ASSUME from = to PROVE DOMAIN f = {}
  <2>1. from .. to - 1 = {} BY <1>4
  <2> QED BY <1>1, <2>1
<1> QED BY <1>2, <1>3, <1>4

\* Data columns lie where the tiling puts them and do not overlap.
LEMMA DataFacts ==
  ASSUME NEW from \in Nat, NEW to \in Nat, to <= Sym, NEW f \in Tilings(from, to),
         NEW ues \in SUBSET UE, NEW g \in [DOMAIN f -> SUBSET ues \ {{}}], NEW fmt \in {"DL", "UL"}
  PROVE  /\ Data(fmt, f, g) \subseteq VarTti
         /\ \A t \in Data(fmt, f, g) :
              /\ t.type = "DATA" /\ t.fmt = fmt /\ t.start \in DOMAIN f
              /\ from <= t.start /\ t.start + t.num <= to
         /\ Disjoint(Data(fmt, f, g))
<1>1. Sym \in Nat BY PipelineAssumption
<1>3. \A t \in Data(fmt, f, g) :
        \E s \in DOMAIN f : t = [type |-> "DATA", fmt |-> fmt, start |-> s, num |-> f[s], ues |-> g[s]]
  BY DEF Data
<1>4. ASSUME NEW s \in DOMAIN f
      PROVE  [type |-> "DATA", fmt |-> fmt, start |-> s, num |-> f[s], ues |-> g[s]] \in VarTti
  <2>1. s \in from .. to - 1 /\ f[s] \in 1 .. to - from BY TilingFacts
  <2>2. s \in 0 .. Sym - 1 /\ f[s] \in 1 .. Sym BY <1>1, <2>1
  <2>3. g[s] \in SUBSET UE OBVIOUS
  <2> QED BY <2>2, <2>3 DEF VarTti
<1>5. \A t \in Data(fmt, f, g) :
        /\ t.type = "DATA" /\ t.fmt = fmt /\ t.start \in DOMAIN f
        /\ from <= t.start /\ t.start + t.num <= to
  BY <1>3, TilingFacts
<1>6. ASSUME NEW a \in Data(fmt, f, g), NEW b \in Data(fmt, f, g), a # b
      PROVE  a.start + a.num <= b.start \/ b.start + b.num <= a.start
  <2>1. PICK s \in DOMAIN f : a = [type |-> "DATA", fmt |-> fmt, start |-> s, num |-> f[s], ues |-> g[s]]
    BY <1>3
  <2>2. PICK t \in DOMAIN f : b = [type |-> "DATA", fmt |-> fmt, start |-> t, num |-> f[t], ues |-> g[t]]
    BY <1>3
  <2>3. s # t BY <1>6, <2>1, <2>2
  <2>4. s \in Int /\ t \in Int BY TilingFacts
  <2>5. s < t \/ t < s BY <2>3, <2>4
  <2> QED BY <2>1, <2>2, <2>5, TilingFacts
<1> QED BY <1>3, <1>4, <1>5, <1>6 DEF Disjoint

\* The control symbols.
LEMMA CtrlFacts ==
  /\ DlCtrlTti \in VarTti /\ UlCtrlTti \in VarTti
  /\ DlCtrlTti.type = "CTRL" /\ DlCtrlTti.fmt = "DL" /\ DlCtrlTti.start = 0 /\ DlCtrlTti.num = 1
  /\ UlCtrlTti.type = "CTRL" /\ UlCtrlTti.fmt = "UL" /\ UlCtrlTti.start = Sym - 1 /\ UlCtrlTti.num = 1
<1>1. Sym \in Nat /\ Sym >= 3 BY PipelineAssumption
<1>2. 0 \in 0 .. Sym - 1 /\ Sym - 1 \in 0 .. Sym - 1 /\ 1 \in 1 .. Sym BY <1>1
<1> QED BY <1>2 DEF DlCtrlTti, UlCtrlTti, Ctrl, VarTti

\* The SRS of a UE fill the symbols before the UL CTRL.
LEMMA SrsFacts ==
  ASSUME NEW u \in UE
  PROVE  /\ Srs(u) \subseteq VarTti
         /\ \A t \in Srs(u) : /\ t.type = "SRS" /\ t.fmt = "UL" /\ t.num = 1
                              /\ t.start \in Sym - 1 - SrsSym .. Sym - 2
         /\ Disjoint(Srs(u))
<1>1. Sym \in Nat /\ SrsSym \in Nat /\ SrsSym + 2 <= Sym BY PipelineAssumption
<1>2. \A t \in Srs(u) : \E i \in 1 .. SrsSym :
        t = [type |-> "SRS", fmt |-> "UL", start |-> Sym - 1 - i, num |-> 1, ues |-> {u}]
  BY DEF Srs
<1>3. ASSUME NEW t \in Srs(u)
      PROVE  /\ t \in VarTti /\ t.type = "SRS" /\ t.fmt = "UL" /\ t.num = 1
             /\ t.start \in Sym - 1 - SrsSym .. Sym - 2
  <2>1. PICK i \in 1 .. SrsSym :
          t = [type |-> "SRS", fmt |-> "UL", start |-> Sym - 1 - i, num |-> 1, ues |-> {u}]
    BY <1>2
  <2>2. Sym - 1 - i \in 0 .. Sym - 1 /\ 1 \in 1 .. Sym /\ Sym - 1 - i \in Sym - 1 - SrsSym .. Sym - 2
    BY <1>1
  <2>3. {u} \in SUBSET UE OBVIOUS
  <2> QED BY <2>1, <2>2, <2>3 DEF VarTti
<1>4. ASSUME NEW a \in Srs(u), NEW b \in Srs(u), a # b
      PROVE  a.start + a.num <= b.start \/ b.start + b.num <= a.start
  <2>1. PICK i \in 1 .. SrsSym :
          a = [type |-> "SRS", fmt |-> "UL", start |-> Sym - 1 - i, num |-> 1, ues |-> {u}]
    BY <1>2
  <2>2. PICK j \in 1 .. SrsSym :
          b = [type |-> "SRS", fmt |-> "UL", start |-> Sym - 1 - j, num |-> 1, ues |-> {u}]
    BY <1>2
  <2>3. i # j BY <1>4, <2>1, <2>2
  <2>4. a.start = Sym - 1 - i /\ b.start = Sym - 1 - j /\ a.num = 1 /\ b.num = 1 BY <2>1, <2>2
  <2> QED BY <1>1, <2>3, <2>4
<1> QED BY <1>3, <1>4 DEF Disjoint

\* Two sets of allocations on the two sides of a symbol.
LEMMA DisjointUnion ==
  ASSUME NEW A \in SUBSET VarTti, NEW B \in SUBSET VarTti, NEW x \in Int, Disjoint(A), Disjoint(B),
         \A t \in A : t.start + t.num <= x, \A t \in B : t.start >= x
  PROVE  Disjoint(A \union B)
<1> SUFFICES ASSUME NEW a \in A \union B, NEW b \in A \union B, a # b
             PROVE  a.start + a.num <= b.start \/ b.start + b.num <= a.start
  BY DEF Disjoint
<1>1. /\ a.start \in Int /\ a.num \in Int /\ b.start \in Int /\ b.num \in Int
  BY PipelineAssumption DEF VarTti
<1>2. CASE a \in A /\ b \in A BY <1>2 DEF Disjoint
<1>3. CASE a \in B /\ b \in B BY <1>3 DEF Disjoint
<1>4. CASE a \in A /\ b \in B BY <1>1, <1>4
<1>5. CASE a \in B /\ b \in A BY <1>1, <1>5
<1> QED BY <1>2, <1>3, <1>4, <1>5

\* An uplink decision: it fills the end of the slot, leaves the DL CTRL of an
\* F slot alone, and books the blocks it contains.
LEMMA UlPlanFacts ==
  ASSUME NEW type \in {"UL", "F"}, NEW ues \in SUBSET UE, NEW a \in UlPlans(type, ues)
  PROVE  /\ a.n \in UlCtrl .. Sym /\ (type = "F" => a.n <= Sym - DlCtrl)
         /\ a.ttis \subseteq VarTti /\ Disjoint(a.ttis)
         /\ \A t \in a.ttis : t.start >= Sym - a.n
         /\ a.blocks \subseteq 0 .. Sym - 1 /\ (a.n <= UlCtrl => a.blocks = {})
         /\ \A t \in UlData(a.ttis) : t.start \in a.blocks
<1> DEFINE low == IF type = "F" THEN DlCtrl ELSE 0
           last == Sym - UlCtrl
           top(q) == IF q = {} THEN last ELSE last - SrsSym
<1>1. Sym \in Nat /\ SrsSym \in Nat /\ SrsSym + 2 <= Sym BY PipelineAssumption
<1> DEFINE plan(q, first, f, g) ==
             [n |-> UlCtrl + (last - first), first |-> first, blocks |-> DOMAIN f,
              ttis |-> {UlCtrlTti} \union q \union Data("UL", f, g)]
           srs == {{}} \union (IF type \in SrsTypes THEN {Srs(u) : u \in ues} ELSE {})
<1>a. PICK q \in srs : \E first \in low .. top(q) : \E f \in Tilings(first, top(q)) :
        \E g \in UlOwners(DOMAIN f, ues, q) : a = plan(q, first, f, g)
  BY DEF UlPlans
<1>2. PICK first \in low .. top(q) : \E f \in Tilings(first, top(q)) :
        \E g \in UlOwners(DOMAIN f, ues, q) : a = plan(q, first, f, g)
  BY <1>a
<1>b. PICK f \in Tilings(first, top(q)) : \E g \in UlOwners(DOMAIN f, ues, q) : a = plan(q, first, f, g)
  BY <1>2
<1>c. PICK g \in UlOwners(DOMAIN f, ues, q) : a = plan(q, first, f, g)
  BY <1>b
<1>o. g \in [DOMAIN f -> SUBSET ues \ {{}}] BY DEF UlOwners
<1>3. first \in Nat /\ top(q) \in Nat /\ top(q) <= last /\ first <= top(q) /\ last = Sym - 1
  BY <1>1
<1>4. q = {} \/ \E u \in UE : q = Srs(u) BY <1>a
<1>5. /\ q \subseteq VarTti /\ Disjoint(q)
      /\ \A t \in q : t.type = "SRS" /\ t.fmt = "UL" /\ t.start >= top(q) /\ t.start + t.num <= last
  <2>1. CASE q = {} BY <2>1 DEF Disjoint
  <2>2. CASE q # {}
    <3>1. PICK u \in UE : q = Srs(u) BY <1>4, <2>2
    <3>2. top(q) = Sym - 1 - SrsSym BY <2>2
    <3> HIDE DEF top
    <3>3. ASSUME NEW t \in q
          PROVE  t.type = "SRS" /\ t.fmt = "UL" /\ t.start >= top(q) /\ t.start + t.num <= last
      <4>1. t.type = "SRS" /\ t.fmt = "UL" /\ t.num = 1 /\ t.start \in Sym - 1 - SrsSym .. Sym - 2
        BY <3>1, <3>3, SrsFacts
      <4> QED BY <1>1, <1>3, <3>2, <4>1
    <3> QED BY <3>1, <3>3, SrsFacts
  <2> QED BY <2>1, <2>2
<1> DEFINE to == top(q)
           D == Data("UL", f, g)
<1>6. /\ D \subseteq VarTti /\ Disjoint(D)
      /\ \A t \in D : /\ t.type = "DATA" /\ t.fmt = "UL" /\ t.start \in DOMAIN f
                      /\ first <= t.start /\ t.start + t.num <= to
  <2>1. to \in Nat /\ to <= Sym /\ f \in Tilings(first, to)
    BY <1>1, <1>3
  <2> HIDE DEF top, to
  <2> QED
    BY <1>3, <1>o, <2>1, DataFacts
<1> HIDE DEF top, D, to
<1>7. to \in Int /\ last \in Int /\ first <= last BY <1>1, <1>3 DEF to
<1>8. D \union q \subseteq VarTti /\ Disjoint(D \union q) BY <1>5, <1>6, <1>7, DisjointUnion DEF to
<1>9. \A t \in D \union q : first <= t.start /\ t.start + t.num <= last
  <2>1. \A t \in D \union q : t.start \in Int /\ t.num \in Int BY <1>8, PipelineAssumption DEF VarTti
  <2> QED BY <1>3, <1>5, <1>6, <1>7, <2>1 DEF to
<1>10. Disjoint((D \union q) \union {UlCtrlTti})
  <2>1. Disjoint({UlCtrlTti}) /\ {UlCtrlTti} \subseteq VarTti BY CtrlFacts DEF Disjoint
  <2>2. \A t \in {UlCtrlTti} : t.start >= last BY <1>1, CtrlFacts
  <2> QED BY <1>7, <1>8, <1>9, <2>1, <2>2, DisjointUnion
<1>11. a.ttis = (D \union q) \union {UlCtrlTti} /\ a.n = Sym - first /\ a.blocks = DOMAIN f
  BY <1>1, <1>c, <1>3 DEF D
<1>12. a.n \in UlCtrl .. Sym /\ (type = "F" => a.n <= Sym - DlCtrl) BY <1>1, <1>3, <1>11
<1>13. \A t \in a.ttis : t.start >= Sym - a.n
  <2>1. Sym - a.n = first BY <1>1, <1>3, <1>11
  <2>2. UlCtrlTti.start >= first BY <1>1, <1>3, <1>7, CtrlFacts
  <2> QED BY <1>9, <1>11, <2>1, <2>2
<1>14. a.blocks \subseteq 0 .. Sym - 1 /\ (a.n <= UlCtrl => a.blocks = {})
  <2>1. \A s \in DOMAIN f : s \in first .. to - 1 BY <1>3, TilingFacts DEF to
  <2>2. to <= last BY <1>3 DEF to
  <2>3. DOMAIN f \subseteq 0 .. Sym - 1 BY <1>1, <1>3, <1>7, <2>1, <2>2
  <2>4. ASSUME a.n <= UlCtrl PROVE DOMAIN f = {}
    <3>1. first >= last BY <1>1, <1>3, <1>11, <2>4
    <3>2. ASSUME NEW s \in DOMAIN f PROVE FALSE
      <4>1. s \in first .. to - 1 BY <2>1
      <4> QED BY <1>3, <1>7, <2>2, <3>1, <4>1
    <3> QED BY <3>2
  <2> QED BY <1>11, <2>3, <2>4
<1>15. \A t \in UlData(a.ttis) : t.start \in a.blocks
  BY <1>5, <1>6, <1>11, CtrlFacts DEF UlData
<1> QED BY <1>8, <1>10, <1>11, <1>12, <1>13, <1>14, <1>15, CtrlFacts

\* A downlink decision: it has the DL CTRL and ends before the symbols booked
\* for the uplink.
LEMMA DlPlanFacts ==
  ASSUME NEW type \in Types, NEW elem, elem.tot \in 0 .. Sym - DlCtrl, type = "S" => elem.tot = 0,
         NEW ues \in SUBSET UE, NEW a \in DlPlans(type, elem, ues)
  PROVE  /\ a.n \in Nat /\ a.used = UlSymbols(type, elem) /\ a.used \in elem.tot .. Sym
         /\ a.ttis \subseteq VarTti /\ Disjoint(a.ttis) /\ Contains(a.ttis, "CTRL", "DL")
         /\ \A t \in a.ttis : t.start + t.num <= Sym - elem.tot
         /\ UlData(a.ttis) = {}
<1> DEFINE used == UlSymbols(type, elem)
           avail == (Sym - DlCtrl - used) % 256
           sctrl == IF type = "S" THEN {UlCtrlTti} ELSE {}
<1>1. Sym \in Nat /\ Sym >= 3 /\ Sym < 256 BY PipelineAssumption
<1>2. used \in elem.tot .. Sym - 1 /\ (type # "S" => used = elem.tot) /\ (type = "S" => used = 1)
  BY <1>1 DEF UlSymbols
<1>3. avail = Sym - 1 - used /\ avail \in Nat
  <2>1. Sym - 1 - used \in 0 .. 255 BY <1>1, <1>2
  <2> QED BY <1>1, <1>2, <2>1
<1> DEFINE plan(len, f, g) ==
             [n |-> DlCtrl + len + (IF type = "S" THEN UlCtrl ELSE 0), used |-> used,
              ttis |-> {DlCtrlTti} \union sctrl \union Data("DL", f, g)]
<1>a. PICK len \in 0 .. avail : \E f \in Tilings(DlCtrl, DlCtrl + len) :
        \E g \in Owners(DOMAIN f, ues) : a = plan(len, f, g)
  BY DEF DlPlans
<1>b. PICK f \in Tilings(DlCtrl, DlCtrl + len) : \E g \in Owners(DOMAIN f, ues) : a = plan(len, f, g)
  BY <1>a
<1>4. PICK g \in Owners(DOMAIN f, ues) : a = plan(len, f, g)
  BY <1>b
<1>o. g \in [DOMAIN f -> SUBSET ues \ {{}}] BY DEF Owners
<1> DEFINE D == Data("DL", f, g)
           to == 1 + len
<1> HIDE DEF avail, used
<1>5. to \in Nat /\ to <= Sym - used /\ to <= Sym /\ to >= 1 BY <1>1, <1>2, <1>3, <1>4
<1>6. /\ D \subseteq VarTti /\ Disjoint(D)
      /\ \A t \in D : t.type = "DATA" /\ t.fmt = "DL" /\ 1 <= t.start /\ t.start + t.num <= to
  BY <1>4, <1>5, <1>o, DataFacts
<1> HIDE DEF D
<1>7. {DlCtrlTti} \subseteq VarTti /\ sctrl \subseteq VarTti /\ Disjoint({DlCtrlTti}) /\ Disjoint(sctrl)
  BY CtrlFacts DEF Disjoint
<1>8. Disjoint({DlCtrlTti} \union D)
  <2>1. \A t \in {DlCtrlTti} : t.start + t.num <= 1 BY CtrlFacts
  <2> QED BY <1>6, <1>7, <2>1, DisjointUnion
<1>9. \A t \in {DlCtrlTti} \union D : t.start + t.num <= to BY <1>5, <1>6, CtrlFacts
<1>10. \A t \in sctrl : t.start >= to BY <1>1, <1>2, <1>5, CtrlFacts
<1>11. Disjoint(({DlCtrlTti} \union D) \union sctrl) /\ ({DlCtrlTti} \union D) \union sctrl \subseteq VarTti
  BY <1>5, <1>6, <1>7, <1>8, <1>9, <1>10, DisjointUnion
<1>12. a.ttis = ({DlCtrlTti} \union D) \union sctrl BY <1>4 DEF D
<1>13. \A t \in a.ttis : t.start + t.num <= Sym - elem.tot
  <2>1. to <= Sym - elem.tot BY <1>1, <1>2, <1>5
  <2>2. \A t \in {DlCtrlTti} \union D : t.start \in Int /\ t.num \in Int
    BY <1>6, <1>7, PipelineAssumption DEF VarTti
  <2>3. \A t \in {DlCtrlTti} \union D : t.start + t.num <= Sym - elem.tot
    BY <1>1, <1>5, <1>9, <2>1, <2>2
  <2>4. \A t \in sctrl : t.start + t.num <= Sym - elem.tot BY <1>1, CtrlFacts
  <2> QED BY <1>12, <2>3, <2>4
<1>14. Contains(a.ttis, "CTRL", "DL") BY <1>12, CtrlFacts DEF Contains
<1>15. UlData(a.ttis) = {} BY <1>6, <1>12, CtrlFacts DEF UlData
<1>16. a.n \in Nat /\ a.used = used /\ a.used \in elem.tot .. Sym BY <1>1, <1>2, <1>4
<1> QED BY <1>11, <1>12, <1>13, <1>14, <1>15, <1>16 DEF used

(***************************************************************************)
(* What CallMacForSlotIndication makes of one slot s.                       *)
(***************************************************************************)
Alloc == [n : Nat, ttis : SUBSET VarTti]
Elem == [tot : 0 .. Sym, blocks : SUBSET (0 .. Sym - 1)]
Kept(s) == IF s = slot THEN NoAlloc ELSE slotAlloc[s]
WithUl(ul, s) == IF s \in UlTargets THEN Merge(Kept(s), ul[s]) ELSE Kept(s)

\* The CQIs only touch the entries of slots that have been on air.
LEMMA CqiStep ==
  ASSUME TypeOK, CqiPast, phase = "idle", NEW s \in Slot
  PROVE  /\ AfterCqi[s] \in Elem
         /\ s >= slot => AfterCqi[s] = ulMap[s]
         /\ UlTargets = {} => AfterCqi[s] = ulMap[s]
<1>1. ulMap[s] \in Elem BY DEF TypeOK, Elem
<1>2. NoElem \in Elem BY PipelineAssumption DEF NoElem, Elem
<1>3. AfterCqi[s] \in Elem
  BY <1>1, <1>2 DEF AfterCqi, CqiInfo, Elem
<1>4. ASSUME s >= slot PROVE AfterCqi[s] = ulMap[s]
  <2>1. slot \in Int /\ s \in Int BY PipelineAssumption DEF TypeOK, Slot
  <2>2. \A b \in 0 .. Sym - 1 : <<s, b>> \notin cqi BY <1>4, <2>1 DEF CqiPast, Nxt
  <2> QED BY <2>2 DEF AfterCqi, CqiInfo
<1> QED BY <1>3, <1>4 DEF AfterCqi

\* The uplink indications.
LEMMA UlStep ==
  ASSUME TypeOK, NotPlanned, Booked, SlotsDisjoint, CqiPast, Waiting, phase = "idle",
         slot \in 0 .. MaxSlot, NEW ul \in UlDecisions, NEW s \in Slot
  PROVE  /\ WithUl(ul, s) \in Alloc /\ AfterUl(ul)[s] \in Elem
         /\ Disjoint(WithUl(ul, s).ttis)
         /\ slot <= s - L =>
              /\ \A t \in WithUl(ul, s).ttis : t.start >= Sym - AfterUl(ul)[s].tot
              /\ TypeAt(tdd, s) = "F" => AfterUl(ul)[s].tot <= Sym - DlCtrl
              /\ AfterUl(ul)[s].tot <= UlCtrl => AfterUl(ul)[s].blocks = {}
              /\ TypeAt(tdd, s) \notin {"UL", "F"} =>
                   WithUl(ul, s).ttis = {} /\ AfterUl(ul)[s] = NoElem
              /\ slot + 1 <= s - Delay(s) =>
                   WithUl(ul, s).ttis = {} /\ AfterUl(ul)[s] = NoElem
         /\ slot + 1 <= s => \A t \in UlData(WithUl(ul, s).ttis) : t.start \in AfterUl(ul)[s].blocks
         /\ s \notin UlTargets /\ s >= slot => AfterUl(ul)[s] = ulMap[s]
         /\ UlTargets = {} => AfterUl(ul)[s] = ulMap[s]
<1>1. /\ Sym \in Nat /\ slot \in Int /\ s \in Int /\ Nxt = slot /\ conf \in Configs
      /\ slotAlloc[s] \in Alloc /\ ulMap[s] \in Elem
  BY PipelineAssumption DEF Nxt, TypeOK, Slot, Alloc, Elem
<1>2. NoAlloc \in Alloc /\ Disjoint(NoAlloc.ttis) BY DEF NoAlloc, Alloc, Disjoint
<1>3. CASE s \notin UlTargets
  <2>1. WithUl(ul, s) = Kept(s) /\ AfterUl(ul)[s] = AfterCqi[s] BY <1>3 DEF WithUl, AfterUl
  <2>2. s >= slot => AfterUl(ul)[s] = ulMap[s] BY <2>1, CqiStep
  <2>3. slot + 1 <= s => Kept(s) = slotAlloc[s] BY <1>1 DEF Kept
  <2>4. slot <= s - L => slot + 1 <= s BY <1>1
  <2>5. Kept(s) \in Alloc /\ Disjoint(Kept(s).ttis) BY <1>1, <1>2 DEF Kept, SlotsDisjoint
  <2>6. slot + 1 <= s - Delay(s) => slot <= s - Delay(s)
    <3>1. Delay(s) \in Int
      <4>1. s % Len(tdd) \in Len0(tdd) BY <1>1, Pattern
      <4>2. DciDelay(tdd, s % Len(tdd), N2) \in N2 .. Ahead - L BY <1>1, <4>1, DelayFacts
      <4> QED BY <4>2, PipelineAssumption DEF Delay
    <3> QED BY <1>1, <3>1
  <2>7. slot <= s - L =>
              /\ \A t \in WithUl(ul, s).ttis : t.start >= Sym - AfterUl(ul)[s].tot
              /\ TypeAt(tdd, s) = "F" => AfterUl(ul)[s].tot <= Sym - DlCtrl
              /\ AfterUl(ul)[s].tot <= UlCtrl => AfterUl(ul)[s].blocks = {}
    BY <1>1, <2>1, <2>2, <2>3, <2>4 DEF Booked
  <2>8. slot <= s - L =>
              /\ TypeAt(tdd, s) \notin {"UL", "F"} =>
                   WithUl(ul, s).ttis = {} /\ AfterUl(ul)[s] = NoElem
              /\ slot + 1 <= s - Delay(s) =>
                   WithUl(ul, s).ttis = {} /\ AfterUl(ul)[s] = NoElem
    BY <1>1, <2>1, <2>2, <2>3, <2>4, <2>6 DEF NotPlanned
  <2>9. slot + 1 <= s => \A t \in UlData(WithUl(ul, s).ttis) : t.start \in AfterUl(ul)[s].blocks
    BY <1>1, <2>1, <2>2, <2>3 DEF Waiting
  <2> QED BY <1>3, <2>1, <2>2, <2>5, <2>7, <2>8, <2>9, CqiStep
<1>4. CASE s \in UlTargets
  <2>1. /\ TypeAt(tdd, s) \in {"UL", "F"} /\ slot = s - Delay(s) /\ Delay(s) \in Nat /\ Delay(s) >= L
    BY <1>1, <1>4, UlTargetFacts
  <2>2. slot <= s - L /\ slot + 1 <= s /\ s # slot BY <1>1, <2>1
  <2>3. slotAlloc[s].ttis = {} /\ ulMap[s] = NoElem BY <1>1, <2>1, <2>2 DEF NotPlanned
  <2>4. AfterCqi[s] = NoElem BY <1>1, <2>2, <2>3, CqiStep
  <2>5. ul[s] \in UlPlans(TypeAt(tdd, s), Served(s)) BY <1>4 DEF UlDecisions
  <2>6. Served(s) \in SUBSET UE BY DEF Served, TypeOK
  <2> DEFINE a == ul[s]
  <2>7. /\ a.n \in UlCtrl .. Sym /\ (TypeAt(tdd, s) = "F" => a.n <= Sym - DlCtrl)
        /\ a.ttis \subseteq VarTti /\ Disjoint(a.ttis)
        /\ \A t \in a.ttis : t.start >= Sym - a.n
        /\ a.blocks \subseteq 0 .. Sym - 1 /\ (a.n <= UlCtrl => a.blocks = {})
        /\ \A t \in UlData(a.ttis) : t.start \in a.blocks
    BY <2>1, <2>5, <2>6, UlPlanFacts
  <2> HIDE DEF a
  <2>8. WithUl(ul, s) = [n |-> slotAlloc[s].n + a.n, ttis |-> a.ttis]
    BY <1>4, <2>2, <2>3 DEF WithUl, Merge, Kept, a
  <2>9. AfterUl(ul)[s] = [tot |-> a.n, blocks |-> a.blocks]
    <3>1. AfterUl(ul)[s] = [tot |-> AfterCqi[s].tot + a.n, blocks |-> AfterCqi[s].blocks \union a.blocks]
      BY <1>4 DEF AfterUl, a
    <3>2. AfterCqi[s].tot = 0 /\ AfterCqi[s].blocks = {} BY <2>4 DEF NoElem
    <3>3. AfterUl(ul)[s] = [tot |-> 0 + a.n, blocks |-> {} \union a.blocks] BY <3>1, <3>2
    <3>4. 0 + a.n = a.n BY <1>1, <2>7
    <3> QED BY <3>3, <3>4
  <2>10. WithUl(ul, s) \in Alloc
    <3>1. slotAlloc[s].n \in Nat /\ a.n \in Nat BY <1>1, <2>7 DEF Alloc
    <3> QED BY <2>7, <2>8, <3>1 DEF Alloc
  <2>11. AfterUl(ul)[s] \in Elem
    <3>1. a.n \in 0 .. Sym BY <1>1, <2>7
    <3> QED BY <2>7, <2>9, <3>1 DEF Elem
  <2>12. ~(slot + 1 <= s - Delay(s)) BY <1>1, <2>1
  <2>13. WithUl(ul, s).ttis = a.ttis /\ AfterUl(ul)[s].tot = a.n /\ AfterUl(ul)[s].blocks = a.blocks
    BY <2>8, <2>9
  <2> QED BY <1>4, <2>1, <2>7, <2>10, <2>11, <2>12, <2>13
<1> QED BY <1>3, <1>4

\* Both: the slot after CallMacForSlotIndication.
LEMMA DlStep ==
  ASSUME TypeOK, NotPlanned, Booked, SlotsDisjoint, CqiPast, Waiting, DlCtrlPlanned, phase = "idle",
         slot \in 0 .. MaxSlot, NEW ul \in UlDecisions, NEW dl \in DlDecisions(AfterUl(ul)),
         NEW s \in Slot
  PROVE  LET a == Planned(ul, dl)[s]
             m == AfterDl(AfterUl(ul), dl)[s]
         IN  /\ a \in Alloc /\ m \in Elem /\ Disjoint(a.ttis)
             /\ slot + 1 <= s - L =>
                  /\ \A t \in a.ttis : t.start >= Sym - m.tot
                  /\ TypeAt(tdd, s) = "F" => m.tot <= Sym - DlCtrl
                  /\ m.tot <= UlCtrl => m.blocks = {}
                  /\ slot + 1 <= s - Delay(s) \/ TypeAt(tdd, s) \notin {"UL", "F"}
                       => a.ttis = {} /\ m = NoElem
             /\ slot + 1 <= s => \A t \in UlData(a.ttis) : t.start \in m.blocks
             /\ s < L => a.ttis = {}
             /\ (IsTdd(tdd) \/ ~HasUlSlot(tdd)) /\ L <= s /\ s - L < slot + 1 /\ slot + 1 <= s
                  /\ TypeAt(tdd, s) # "UL" => Contains(a.ttis, "CTRL", "DL")
             /\ s = slot => m = ulMap[s]
             /\ s <= slot /\ UlTargets = {} => m = ulMap[s]
<1> DEFINE a == Planned(ul, dl)[s]
           m == AfterDl(AfterUl(ul), dl)[s]
           b == WithUl(ul, s)
           e == AfterUl(ul)[s]
<1>1. /\ Sym \in Nat /\ Sym >= 3 /\ slot \in Int /\ s \in Int /\ slot >= 0 /\ s >= 0
      /\ Nxt = slot /\ conf \in Configs
  <2>1. Sym \in Nat /\ Sym >= 3 /\ MaxSlot \in Nat /\ Ahead \in Nat BY PipelineAssumption
  <2>2. s \in Int /\ s >= 0 BY <2>1 DEF Slot
  <2>3. conf \in Configs BY DEF TypeOK
  <2> QED BY <2>1, <2>2, <2>3 DEF Nxt
<1>2. a = IF s \in DlTargets THEN Merge(b, dl[s]) ELSE b BY DEF Planned, WithUl, Kept
<1>3. s \in UlTargets => slot + L <= s /\ TypeAt(tdd, s) \in {"UL", "F"}
  BY <1>1, UlTargetFacts
<1>4. s \in DlTargets => s = slot + L /\ TypeAt(tdd, s) # "UL" BY <1>1, DlTargetFacts
<1>5. s < L => b.ttis = {}
  <2>1. s < L => s \notin UlTargets BY <1>1, <1>3
  <2>2. s < L => slotAlloc[s].ttis = {} BY DEF DlCtrlPlanned
  <2> QED BY <2>1, <2>2 DEF WithUl, Kept, NoAlloc
<1>6. s = slot => e = ulMap[s] BY <1>1, <1>3, UlStep
<1>7. CASE s \notin DlTargets
  <2>1. a = b /\ m = e BY <1>2, <1>7 DEF AfterDl
  <2> HIDE DEF a, m
  <2>2. slot + 1 <= s - L => slot <= s - L BY <1>1
  <2>3. (IsTdd(tdd) \/ ~HasUlSlot(tdd)) /\ L <= s /\ s - L < slot + 1 /\ slot + 1 <= s
                  /\ TypeAt(tdd, s) # "UL" => Contains(b.ttis, "CTRL", "DL")
    <3> SUFFICES ASSUME IsTdd(tdd) \/ ~HasUlSlot(tdd), L <= s, s - L < slot + 1, slot + 1 <= s,
                        TypeAt(tdd, s) # "UL"
                 PROVE  Contains(b.ttis, "CTRL", "DL")
      OBVIOUS
    <3>1. s # slot + L BY <1>1, <1>7, DlTargetBack
    <3>2. s - L < slot /\ slot <= s /\ s # slot BY <1>1, <3>1
    <3>3. Contains(slotAlloc[s].ttis, "CTRL", "DL") BY <1>1, <3>2 DEF DlCtrlPlanned
    <3>4. s \notin UlTargets BY <1>1, <1>3, <3>1, <3>2
    <3> QED BY <3>2, <3>3, <3>4 DEF WithUl, Kept
  <2> QED BY <1>5, <1>6, <2>1, <2>2, <2>3, UlStep DEF a, m
<1>8. CASE s \in DlTargets
  <2>1. s = slot + L /\ TypeAt(tdd, s) # "UL" /\ slot <= s - L /\ ~(slot + 1 <= s - L)
        /\ ~(s < L) /\ s # slot /\ ~(s <= slot) /\ slot + 1 <= s
    BY <1>1, <1>4, <1>8
  <2>2. /\ b \in Alloc /\ e \in Elem /\ Disjoint(b.ttis)
        /\ \A t \in b.ttis : t.start >= Sym - e.tot
        /\ TypeAt(tdd, s) = "F" => e.tot <= Sym - DlCtrl
        /\ e.tot <= UlCtrl => e.blocks = {}
        /\ TypeAt(tdd, s) \notin {"UL", "F"} => b.ttis = {} /\ e = NoElem
        /\ \A t \in UlData(b.ttis) : t.start \in e.blocks
    BY <2>1, UlStep
  <2> DEFINE d == dl[s]
  <2>3. d \in DlPlans(TypeAt(tdd, s), e, Served(s)) BY <1>8 DEF DlDecisions
  <2>4. Served(s) \in SUBSET UE /\ TypeAt(tdd, s) \in Types BY <1>1, Pattern DEF Served, TypeOK
  <2>5. e.tot \in 0 .. Sym - DlCtrl /\ (TypeAt(tdd, s) # "F" => e.tot = 0)
    <3>1. e.tot \in 0 .. Sym BY <2>2 DEF Elem
    <3>2. TypeAt(tdd, s) # "F" => e.tot = 0 BY <2>1, <2>2, <2>4 DEF NoElem, Types
    <3> QED BY <1>1, <2>2, <3>1, <3>2
  <2> HIDE DEF b, e
  <2>6. /\ d.n \in Nat /\ d.used = UlSymbols(TypeAt(tdd, s), e) /\ d.used \in e.tot .. Sym
        /\ d.ttis \subseteq VarTti /\ Disjoint(d.ttis) /\ Contains(d.ttis, "CTRL", "DL")
        /\ \A t \in d.ttis : t.start + t.num <= Sym - e.tot
        /\ UlData(d.ttis) = {}
    <3>1. TypeAt(tdd, s) = "S" => e.tot = 0 BY <2>5
    <3> HIDE DEF d
    <3> QED BY <2>3, <2>4, <2>5, <3>1, DlPlanFacts
  <2> HIDE DEF d
  <2>7. a = [n |-> b.n + d.n, ttis |-> b.ttis \union d.ttis] BY <1>2, <1>8 DEF Merge, d
  <2>8. m = IF d.used <= UlCtrl THEN NoElem ELSE [e EXCEPT !.tot = d.used]
    BY <1>8 DEF AfterDl, d, e
  <2> HIDE DEF a, m
  <2>9. a \in Alloc
    <3>1. b.n \in Nat /\ b.ttis \subseteq VarTti BY <2>2 DEF Alloc
    <3>2. b.n + d.n \in Nat BY <2>6, <3>1
    <3> QED BY <2>6, <2>7, <3>1, <3>2 DEF Alloc
  <2>10. m \in Elem
    <3>1. NoElem \in Elem BY <1>1 DEF NoElem, Elem
    <3>2. d.used \in 0 .. Sym BY <1>1, <2>5, <2>6
    <3> QED BY <2>2, <2>8, <3>1, <3>2 DEF Elem
  <2>11. Disjoint(a.ttis)
    <3>1. b.ttis \in SUBSET VarTti BY <2>2 DEF Alloc
    <3>2. Sym - e.tot \in Int BY <1>1, <2>5
    <3>3. Disjoint(d.ttis \union b.ttis) BY <2>2, <2>6, <3>1, <3>2, DisjointUnion
    <3>4. a.ttis = d.ttis \union b.ttis BY <2>7
    <3> QED BY <3>3, <3>4
  <2>12. \A t \in UlData(a.ttis) : t.start \in m.blocks
    <3>1. UlData(a.ttis) = UlData(b.ttis) BY <2>6, <2>7 DEF UlData
    <3>2. CASE d.used <= UlCtrl
      <4>1. e.tot <= UlCtrl BY <1>1, <2>5, <2>6, <3>2
      <4> QED BY <2>2, <3>1, <4>1
    <3>3. CASE ~(d.used <= UlCtrl)
      <4>1. m.blocks = e.blocks BY <2>2, <2>8, <3>3 DEF Elem
      <4> QED BY <2>2, <3>1, <4>1
    <3> QED BY <3>2, <3>3
  <2>13. Contains(a.ttis, "CTRL", "DL") BY <2>6, <2>7 DEF Contains
  <2> QED BY <2>1, <2>9, <2>10, <2>11, <2>12, <2>13 DEF a, m
<1> QED BY <1>7, <1>8

(***************************************************************************)
(* The invariant is inductive.                                              *)
(***************************************************************************)
\* The initial states satisfy the invariant.
LEMMA InitIInv == Init => IInv
<1> SUFFICES ASSUME Init PROVE IInv OBVIOUS
<1> USE DEF Init
<1>1. /\ Sym \in Nat /\ Sym >= 3 /\ MaxSlot \in Nat /\ Nxt = 0
      /\ \A s \in Slot : slotAlloc[s] = NoAlloc /\ ulMap[s] = NoElem
  BY PipelineAssumption DEF Nxt
<1>2. TypeOK
  <2>1. NoAlloc \in [n : Nat, ttis : SUBSET VarTti] BY DEF NoAlloc
  <2>2. NoElem \in [tot : 0 .. Sym, blocks : SUBSET (0 .. Sym - 1)] BY <1>1 DEF NoElem
  <2>3. -1 \in -1 .. MaxSlot /\ 0 \in 0 .. MaxSlot + 1 BY <1>1
  <2> QED BY <2>1, <2>2, <2>3 DEF TypeOK
<1>3. NotPlanned BY <1>1 DEF NotPlanned, NoAlloc
<1>4. Booked BY <1>1 DEF Booked, NoAlloc, NoElem
<1>5. SlotsDisjoint BY <1>1 DEF SlotsDisjoint, NoAlloc, Disjoint
<1>6. CqiPast /\ CqiFindsAllocation BY DEF CqiPast, CqiFindsAllocation
<1>7. Waiting BY <1>1 DEF Waiting, NoAlloc, UlData
<1>8. DlCtrlPlanned
  <2>1. \A s \in Slot : ~(L <= s /\ s - L < Nxt)
    BY <1>1 DEF Slot
  <2> QED BY <1>1, <2>1 DEF DlCtrlPlanned, NoAlloc
<1>9. OnAirDisjoint /\ Bounded BY <1>1 DEF OnAirDisjoint, Disjoint, Bounded
<1> QED BY <1>2, <1>3, <1>4, <1>5, <1>6, <1>7, <1>8, <1>9 DEF IInv

\* What StartSlot finds in its slot.
LEMMA CurrentFacts ==
  ASSUME IInv, phase = "idle", slot \in 0 .. MaxSlot
  PROVE  /\ Current.ttis \subseteq VarTti /\ UlData(Current.ttis) = UlData(slotAlloc[slot].ttis)
         /\ BroadcastInDl => Disjoint(Current.ttis)
<1>1. /\ slot \in Int /\ slot >= 0 /\ Nxt = slot /\ conf \in Configs /\ slot \in Slot
      /\ slotAlloc[slot] \in [n : Nat, ttis : SUBSET VarTti]
  BY PipelineAssumption DEF Nxt, IInv, TypeOK, Slot
<1>2. Current.ttis = slotAlloc[slot].ttis
      \/ /\ conf.primary /\ slot \in Broadcast /\ ~Contains(slotAlloc[slot].ttis, "CTRL", "DL")
         /\ Current.ttis = slotAlloc[slot].ttis \union {DlCtrlTti}
  BY DEF Current
<1>3. Current.ttis \subseteq VarTti /\ UlData(Current.ttis) = UlData(slotAlloc[slot].ttis)
  BY <1>1, <1>2, CtrlFacts DEF UlData
<1>4. ASSUME BroadcastInDl PROVE Disjoint(Current.ttis)
  <2>1. CASE Current.ttis = slotAlloc[slot].ttis BY <1>1, <2>1 DEF IInv, SlotsDisjoint
  <2>2. CASE /\ conf.primary /\ slot \in Broadcast /\ ~Contains(slotAlloc[slot].ttis, "CTRL", "DL")
             /\ Current.ttis = slotAlloc[slot].ttis \union {DlCtrlTti}
    <3>1. (IsTdd(tdd) \/ ~HasUlSlot(tdd)) /\ TypeAt(tdd, slot) # "UL"
      BY <1>1, <1>4, <2>2 DEF BroadcastInDl, tdd
    <3>2. ~(L <= slot) BY <1>1, <2>2, <3>1 DEF IInv, DlCtrlPlanned
    <3>3. slotAlloc[slot].ttis = {} BY <1>1, <3>2 DEF IInv, DlCtrlPlanned
    <3> QED BY <2>2, <3>3 DEF Disjoint
  <2> QED BY <1>2, <2>1, <2>2
<1> QED BY <1>3, <1>4

\* StartSlot plans the slots of its tables and takes its own slot on air.
LEMMA StartSlotIInv == IInv /\ StartSlot => IInv'
<1> SUFFICES ASSUME IInv, StartSlot PROVE IInv' OBVIOUS
<1>1. /\ phase = "idle" /\ phase' = "air" /\ slot \in 0 .. MaxSlot /\ slot' = slot /\ conf' = conf
      /\ UNCHANGED <<attached, ueSlot, ueAlloc, ueCurr>>
  BY PipelineAssumption DEF StartSlot, IInv, TypeOK
<1>2. PICK ul \in UlDecisions : \E dl \in DlDecisions(AfterUl(ul)) :
        /\ slotAlloc' = Planned(ul, dl) /\ ulMap' = AfterDl(AfterUl(ul), dl)
        /\ cqi' = IF UlTargets = {} THEN cqi ELSE {}
  BY DEF StartSlot, CallMacForSlotIndication
<1>3. PICK dl \in DlDecisions(AfterUl(ul)) :
        /\ slotAlloc' = Planned(ul, dl) /\ ulMap' = AfterDl(AfterUl(ul), dl)
        /\ cqi' = IF UlTargets = {} THEN cqi ELSE {}
  BY <1>2
<1>4. /\ Nxt = slot /\ Nxt' = slot + 1 /\ tdd' = tdd /\ slot \in Int /\ slot >= 0
      /\ \A s \in Slot : s \in Int /\ Delay(s)' = Delay(s)
  BY <1>1, PipelineAssumption DEF Nxt, tdd, Slot, Delay
<1>5. \A s \in Slot :
        /\ slotAlloc'[s] \in Alloc /\ ulMap'[s] \in Elem /\ Disjoint(slotAlloc'[s].ttis)
        /\ slot + 1 <= s - L =>
             /\ \A t \in slotAlloc'[s].ttis : t.start >= Sym - ulMap'[s].tot
             /\ TypeAt(tdd, s) = "F" => ulMap'[s].tot <= Sym - DlCtrl
             /\ ulMap'[s].tot <= UlCtrl => ulMap'[s].blocks = {}
             /\ slot + 1 <= s - Delay(s) \/ TypeAt(tdd, s) \notin {"UL", "F"}
                  => slotAlloc'[s].ttis = {} /\ ulMap'[s] = NoElem
        /\ slot + 1 <= s => \A t \in UlData(slotAlloc'[s].ttis) : t.start \in ulMap'[s].blocks
        /\ s < L => slotAlloc'[s].ttis = {}
        /\ (IsTdd(tdd) \/ ~HasUlSlot(tdd)) /\ L <= s /\ s - L < slot + 1 /\ slot + 1 <= s
             /\ TypeAt(tdd, s) # "UL" => Contains(slotAlloc'[s].ttis, "CTRL", "DL")
        /\ s = slot => ulMap'[s] = ulMap[s]
        /\ s <= slot /\ UlTargets = {} => ulMap'[s] = ulMap[s]
  BY <1>1, <1>3, DlStep DEF IInv
<1>6. onAir' \subseteq Current.ttis
  <2>1. Current.ttis = {} => onAir' = {} \/ onAir' \subseteq Current.ttis BY DEF StartSlot, DoStartSlot
  <2> QED BY <2>1 DEF StartSlot, DoStartSlot
<1>7. /\ slotAlloc' \in [Slot -> Alloc] /\ ulMap' \in [Slot -> Elem]
  <2>1. slotAlloc' = [s \in Slot |-> slotAlloc'[s]] BY <1>3 DEF Planned
  <2>2. ulMap' = [s \in Slot |-> ulMap'[s]] BY <1>3 DEF AfterDl
  <2> QED BY <1>5, <2>1, <2>2
<1>8. dci' \in [UE -> SUBSET Grant]
  <2>1. CASE dci' = dci BY <2>1 DEF IInv, TypeOK
  <2>2. CASE dci' = [u \in UE |-> Dcis(u)]
    <3>1. \A k \in ToSendUl(tdd, pos) \union ToSendDl(tdd, pos) : slot + k \in Slot
      <4>1. /\ \A k \in ToSendUl(tdd, pos) : \E p \in Len0(tdd) : k = DciDelay(tdd, p, N2)
            /\ \A k \in ToSendDl(tdd, pos) : \E p \in Len0(tdd) : k = DciDelay(tdd, p, 0)
        BY DEF ToSendUl, ToSendDl
      <4>2. \A p \in Len0(tdd) : DciDelay(tdd, p, N2) \in N2 .. Ahead - L /\ DciDelay(tdd, p, 0) \in 0 .. Ahead - L
        BY DelayFacts DEF IInv, TypeOK
      <4>3. N2 \in Nat /\ Ahead \in Nat /\ MaxSlot \in Nat BY PipelineAssumption
      <4>4. \A k \in 0 .. Ahead - L : slot + k \in Slot BY <1>1, <4>3 DEF Slot
      <4>5. \A k \in N2 .. Ahead - L : k \in 0 .. Ahead - L BY <4>3
      <4> QED BY <4>1, <4>2, <4>4, <4>5
    <3>2. Current.ttis \subseteq VarTti BY <1>1, CurrentFacts
    <3>3. \A s \in Slot : slotAlloc'[s].ttis \subseteq VarTti BY <1>5 DEF Alloc
    <3>4. \A u \in UE : Dcis(u) \subseteq Grant
      BY <3>1, <3>2, <3>3 DEF Dcis, Grant
    <3> QED BY <2>2, <3>4
  <2> QED BY <2>1, <2>2 DEF StartSlot, DoStartSlot
<1>9. TypeOK'
  <2>1. onAir' \subseteq VarTti BY <1>1, <1>6, CurrentFacts
  <2>2. cqi' \subseteq Slot \X (0 .. Sym - 1) BY <1>3 DEF IInv, TypeOK
  <2>3. channel' \in {"NONE", "GRANTED", "TO_LOSE"}
    BY DEF StartSlot, DoStartSlot, IInv, TypeOK
  <2> QED BY <1>1, <1>7, <1>8, <2>1, <2>2, <2>3 DEF IInv, TypeOK, Alloc, Elem
<1>10. NotPlanned' BY <1>4, <1>5 DEF NotPlanned
<1>11. Booked' BY <1>4, <1>5 DEF Booked
<1>12. SlotsDisjoint' BY <1>5 DEF SlotsDisjoint
<1>13. CqiPast' /\ CqiFindsAllocation'
  <2>1. CASE UlTargets = {}
    <3>1. cqi' = cqi BY <1>3, <2>1
    <3>2. \A r \in cqi : r[1] \in Slot /\ r[1] < slot BY <1>4 DEF IInv, TypeOK, CqiPast
    <3>3. \A r \in cqi : r[1] <= slot /\ r[1] < slot + 1 BY <1>4, <3>2
    <3>4. \A r \in cqi : ulMap'[r[1]] = ulMap[r[1]] BY <1>5, <2>1, <3>2, <3>3
    <3> QED BY <1>4, <3>1, <3>3, <3>4 DEF IInv, CqiPast, CqiFindsAllocation
  <2>2. CASE UlTargets # {} BY <1>3, <2>2 DEF CqiPast, CqiFindsAllocation
  <2> QED BY <2>1, <2>2
<1>14. Waiting'
  <2>1. \A t \in UlData(onAir') : t.start \in ulMap'[slot].blocks
    <3>1. slot \in Slot BY <1>1, PipelineAssumption DEF Slot
    <3>2. ulMap'[slot] = ulMap[slot] BY <1>5, <3>1
    <3>3. \A t \in UlData(slotAlloc[slot].ttis) : t.start \in ulMap[slot].blocks
      BY <1>4, <3>1 DEF IInv, Waiting
    <3>4. UlData(onAir') \subseteq UlData(slotAlloc[slot].ttis)
      BY <1>1, <1>6, CurrentFacts DEF UlData
    <3> QED BY <3>2, <3>3, <3>4
  <2> QED BY <1>1, <1>4, <1>5, <2>1 DEF Waiting
<1>15. DlCtrlPlanned' BY <1>4, <1>5 DEF DlCtrlPlanned
<1>16. OnAirDisjoint' /\ Bounded'
  BY <1>1, <1>4, <1>6, CurrentFacts, PipelineAssumption DEF OnAirDisjoint, Disjoint, Bounded
<1> QED BY <1>9, <1>10, <1>11, <1>12, <1>13, <1>14, <1>15, <1>16 DEF IInv

\* The gNB's other steps and those of the UEs leave the plan alone.
LEMMA PlanKept ==
  ASSUME IInv, Nxt' = Nxt, conf' = conf, slotAlloc' = slotAlloc, ulMap' = ulMap
  PROVE  NotPlanned' /\ Booked' /\ SlotsDisjoint' /\ DlCtrlPlanned' /\ Bounded'
<1>1. tdd' = tdd /\ \A s \in Slot : Delay(s)' = Delay(s) BY DEF tdd, Delay
<1>2. NotPlanned' BY <1>1 DEF IInv, NotPlanned
<1>3. Booked' BY <1>1 DEF IInv, Booked
<1>4. SlotsDisjoint' BY DEF IInv, SlotsDisjoint
<1>5. DlCtrlPlanned' BY <1>1 DEF IInv, DlCtrlPlanned
<1>6. Bounded' BY DEF IInv, Bounded
<1> QED BY <1>2, <1>3, <1>4, <1>5, <1>6

\* The CQIs of a slot on air are about blocks that wait for them.
LEMMA UplinkIInv == IInv /\ UplinkOnAir => IInv'
<1> SUFFICES ASSUME IInv, UplinkOnAir PROVE IInv' OBVIOUS
<1> USE DEF UplinkOnAir
<1>1. PICK sent \in SUBSET Received : cqi' = cqi \union {<<slot, t.start>> : t \in sent} OBVIOUS
<1>2. Nxt' = Nxt /\ Nxt = slot + 1 /\ slot \in Slot /\ slot \in Int
  BY PipelineAssumption DEF Nxt, IInv, TypeOK, Slot
<1>3. \A t \in sent : t \in UlData(onAir) /\ t.start \in 0 .. Sym - 1
  BY DEF Received, UlData, IInv, TypeOK, VarTti
<1>4. NotPlanned' /\ Booked' /\ SlotsDisjoint' /\ DlCtrlPlanned' /\ Bounded' BY <1>2, PlanKept
<1>5. TypeOK' BY <1>1, <1>2, <1>3 DEF IInv, TypeOK
<1>6. CqiPast' BY <1>1, <1>2 DEF IInv, CqiPast
<1>7. CqiFindsAllocation'
  <2>1. \A t \in sent : t.start \in ulMap[slot].blocks BY <1>3 DEF IInv, Waiting
  <2> QED BY <1>1, <2>1 DEF IInv, CqiFindsAllocation
<1>8. Waiting' BY <1>2 DEF IInv, Waiting
<1>9. OnAirDisjoint' BY DEF IInv, OnAirDisjoint
<1> QED BY <1>4, <1>5, <1>6, <1>7, <1>8, <1>9 DEF IInv

\* EndSlot moves on to the next slot.
LEMMA EndSlotIInv == IInv /\ EndSlot => IInv'
<1> SUFFICES ASSUME IInv, EndSlot PROVE IInv' OBVIOUS
<1> USE DEF EndSlot
<1>1. Nxt' = Nxt /\ Nxt = slot + 1 /\ slot + 1 <= MaxSlot + 1 /\ slot \in 0 .. MaxSlot + 1
  BY DEF Nxt, IInv, TypeOK, Bounded
<1>2. NotPlanned' /\ Booked' /\ SlotsDisjoint' /\ DlCtrlPlanned' /\ Bounded' BY <1>1, PlanKept
<1>3. TypeOK'
  <2>1. slot + 1 \in 0 .. MaxSlot + 1 BY <1>1, PipelineAssumption
  <2> QED BY <2>1 DEF IInv, TypeOK
<1>4. CqiPast' /\ CqiFindsAllocation' /\ Waiting' BY <1>1 DEF IInv, CqiPast, CqiFindsAllocation, Waiting
<1>5. OnAirDisjoint' BY DEF OnAirDisjoint, Disjoint
<1> QED BY <1>2, <1>3, <1>4, <1>5 DEF IInv

\* A step that only changes who is attached or what the UEs hold.
LEMMA UeIInv ==
  ASSUME IInv, TypeOK', UNCHANGED <<conf, slot, phase, slotAlloc, onAir, ulMap, cqi>>
  PROVE  IInv'
<1>1. Nxt' = Nxt BY DEF Nxt
<1>2. NotPlanned' /\ Booked' /\ SlotsDisjoint' /\ DlCtrlPlanned' /\ Bounded' BY <1>1, PlanKept
<1> QED BY <1>1, <1>2 DEF IInv, CqiPast, CqiFindsAllocation, Waiting, OnAirDisjoint

\* The steps of the UEs and the attachment of a UE.
LEMMA UeSteps ==
  ASSUME IInv, NEW u \in UE, AddUe(u) \/ UeStartSlot(u) \/ PhyCtrlMessagesReceived(u)
  PROVE  IInv'
<1>1. CASE AddUe(u)
  <2>1. TypeOK' BY <1>1 DEF AddUe, IInv, TypeOK
  <2> QED BY <1>1, <2>1, UeIInv DEF AddUe
<1>2. CASE UeStartSlot(u)
  <2>1. slot \in -1 .. MaxSlot BY <1>2, PipelineAssumption DEF UeStartSlot, IInv, TypeOK
  <2>2. UeCtrl(slot) \subseteq VarTti BY CtrlFacts DEF UeCtrl
  <2>3. \A a \in ueAlloc[u] : a \in Grant /\ a.tti \in VarTti BY DEF IInv, TypeOK, Grant
  <2>4. TypeOK' BY <1>2, <2>1, <2>2, <2>3 DEF UeStartSlot, IInv, TypeOK
  <2> QED BY <1>2, <2>4, UeIInv DEF UeStartSlot
<1>3. CASE PhyCtrlMessagesReceived(u)
  <2>1. \A d \in dci[u] : d \in Grant /\ d.tti \in VarTti BY DEF IInv, TypeOK, Grant
  <2>2. TypeOK' BY <1>3, <2>1 DEF PhyCtrlMessagesReceived, IInv, TypeOK
  <2> QED BY <1>3, <2>2, UeIInv DEF PhyCtrlMessagesReceived
<1> QED BY <1>1, <1>2, <1>3

\* Every step preserves the invariant.
LEMMA NextIInv == IInv /\ [Next]_vars => IInv'
<1> SUFFICES ASSUME IInv, [Next]_vars PROVE IInv' OBVIOUS
<1>1. CASE StartSlot BY <1>1, StartSlotIInv
<1>2. CASE UplinkOnAir BY <1>2, UplinkIInv
<1>3. CASE EndSlot BY <1>3, EndSlotIInv
<1>4. ASSUME NEW u \in UE, AddUe(u) \/ UeStartSlot(u) \/ PhyCtrlMessagesReceived(u) PROVE IInv'
  BY <1>4, UeSteps
<1>5. CASE UNCHANGED vars
  <2>1. TypeOK' BY <1>5 DEF vars, IInv, TypeOK
  <2> QED BY <1>5, <2>1, UeIInv DEF vars
<1> QED BY <1>1, <1>2, <1>3, <1>4, <1>5 DEF Next

\* What m_slotAllocInfo and m_ulAllocationMap hold for a slot at each stage of
\* its life, from its planning by ScheduleUl to the CQIs about it.
THEOREM SpecIInv == Spec => []IInv
BY InitIInv, NextIInv, PTL DEF Spec

\* Every variable keeps its type; the symbols booked for the uplink of a slot
\* (m_totUlSym) never exceed the slot.
THEOREM TypeCorrect == Spec => []TypeOK
<1>1. IInv => TypeOK BY DEF IInv
<1> QED BY <1>1, SpecIInv, PTL

\* Two allocations of a slot never share a symbol, planned or on air, whatever
\* the pattern, the delay and the scheduler's decisions, as long as the MIB and
\* the SIB1 are not due in a UL slot.
THEOREM NoOverlapHolds == BroadcastInDl => (Spec => []NoOverlap)
<1> SUFFICES ASSUME BroadcastInDl PROVE Spec => []NoOverlap OBVIOUS
<1>1. IInv => NoOverlap BY DEF IInv, OnAirDisjoint, SlotsDisjoint, NoOverlap
<1> QED BY <1>1, SpecIInv, PTL

\* Every uplink CQI the MAC hands over finds the block it is about.
THEOREM CqiFound == Spec => []CqiFindsAllocation
<1>1. IInv => CqiFindsAllocation BY DEF IInv
<1> QED BY <1>1, SpecIInv, PTL

=============================================================================
