-------------------------- MODULE SlotCountProofs --------------------------
(***************************************************************************)
(* Proofs about the number of symbols SlotPipeline counts for a slot       *)
(* (m_numSymAlloc): whatever the scheduler decides, it is the number of    *)
(* symbols that the allocations of the slot cover.                         *)
(***************************************************************************)
EXTENDS SlotPipelineProofs, FiniteSetTheorems

USE DEF L, DlCtrl, UlCtrl

\* The symbols a set of allocations covers are as many as it is said to have.
IsCounted(a) == Cardinality(Symbols(a.ttis)) = a.n

\* The inductive strengthening of Counted, with the invariant of the pipeline.
AllCounted == \A s \in Slot : IsCounted(slotAlloc[s])

(***************************************************************************)
(* The symbols of a set of allocations.                                    *)
(***************************************************************************)
\* A non-empty set of symbols below a bound has a last one.
LEMMA LastOf ==
  ASSUME NEW to \in Nat, NEW T \in SUBSET (0 .. to), T # {}
  PROVE  \E m \in T : \A x \in T : x <= m
<1> DEFINE Less == OpToRel(<, Nat)
           B == {to - x : x \in T}
<1>1. B \subseteq Nat /\ B # {}
  <2>1. \A x \in T : to - x \in Nat
    OBVIOUS
  <2>2. PICK x \in T : TRUE
    OBVIOUS
  <2> QED
    BY <2>1, <2>2
<1>2. IsWellFoundedOn(Less, Nat)
  BY NatLessThanWellFounded
<1>3. \A x, y \in Nat : x < y => <<x, y>> \in Less
  BY DEF OpToRel
<1> HIDE DEF Less, B
<1>4. PICK b \in B : \A y \in B : ~ (<<y, b>> \in Less)
  BY <1>1, <1>2, WFMin
<1>5. PICK m \in T : b = to - m
  BY DEF B
<1>6. ASSUME NEW x \in T PROVE x <= m
  <2>1. to - x \in B
    BY DEF B
  <2>2. ~(to - x < to - m)
    BY <1>1, <1>3, <1>4, <1>5, <2>1
  <2>3. x \in Int /\ m \in Int
    OBVIOUS
  <2> QED
    BY <2>2, <2>3
<1> QED
  BY <1>6

\* The columns of a tiling cover its range.
LEMMA TilingCovers ==
  ASSUME NEW from \in Nat, NEW to \in Nat, from <= to, NEW f \in Tilings(from, to)
  PROVE  \A x \in from .. to - 1 : \E s \in DOMAIN f : x \in s .. s + f[s] - 1
<1> SUFFICES ASSUME NEW x \in from .. to - 1
             PROVE  \E s \in DOMAIN f : x \in s .. s + f[s] - 1
  OBVIOUS
<1> DEFINE T == {s \in DOMAIN f : s <= x}
<1>1. from \in DOMAIN f /\ \A s \in DOMAIN f : s + f[s] = to \/ s + f[s] \in DOMAIN f
  BY DEF Tilings
<1>2. \A s \in DOMAIN f : s \in from .. to - 1 /\ f[s] \in 1 .. to - from
  BY TilingFacts
<1>3. T \in SUBSET (0 .. to) /\ from \in T
  BY <1>1, <1>2
<1>4. PICK m \in T : \A s \in T : s <= m
  BY <1>3, LastOf
<1>5. m \in Int /\ f[m] \in Int /\ f[m] >= 1 /\ m <= x /\ m \in DOMAIN f
  BY <1>2
<1>6. ASSUME m + f[m] <= x PROVE FALSE
  <2>1. m + f[m] \in DOMAIN f
    BY <1>1, <1>5, <1>6
  <2>2. m + f[m] <= m
    BY <1>4, <1>6, <2>1
  <2> QED
    BY <1>5, <2>2
<1>7. x \in m .. m + f[m] - 1
  BY <1>5, <1>6
<1> QED
  BY <1>5, <1>7

\* The data columns that tile a range cover that range.
LEMMA SymbolsOfData ==
  ASSUME NEW from \in Nat, NEW to \in Nat, from <= to, NEW f \in Tilings(from, to),
         NEW g, NEW fmt
  PROVE  Symbols(Data(fmt, f, g)) = from .. to - 1
<1> DEFINE D == Data(fmt, f, g)
           tti(s) == [type |-> "DATA", fmt |-> fmt, start |-> s, num |-> f[s], ues |-> g[s]]
<1>1. \A t \in D : \E s \in DOMAIN f : t = tti(s)
  BY DEF Data
<1>2. \A s \in DOMAIN f : tti(s) \in D
  BY DEF Data
<1>3. ASSUME NEW x \in Symbols(D) PROVE x \in from .. to - 1
  <2>1. PICK t \in D : x \in t.start .. t.start + t.num - 1
    BY DEF Symbols
  <2>2. PICK s \in DOMAIN f : t = tti(s)
    BY <1>1
  <2>3. s \in from .. to - 1 /\ f[s] \in 1 .. to - from /\ s + f[s] <= to
    BY TilingFacts
  <2> QED
    BY <2>1, <2>2, <2>3
<1>4. ASSUME NEW x \in from .. to - 1 PROVE x \in Symbols(D)
  <2>1. PICK s \in DOMAIN f : x \in s .. s + f[s] - 1
    BY TilingCovers
  <2>2. tti(s) \in D /\ tti(s).start = s /\ tti(s).num = f[s]
    BY <1>2
  <2> HIDE DEF tti, D
  <2> QED
    BY <2>1, <2>2 DEF Symbols
<1> QED
  BY <1>3, <1>4

\* The symbols of two sets of allocations together.
LEMMA SymbolsUnion ==
  ASSUME NEW A, NEW B
  PROVE  Symbols(A \union B) = Symbols(A) \union Symbols(B)
BY DEF Symbols

\* The DL CTRL is the first symbol, the UL CTRL the last one.
LEMMA SymbolsOfCtrl ==
  /\ Symbols({DlCtrlTti}) = 0 .. 0
  /\ Symbols({UlCtrlTti}) = Sym - 1 .. Sym - 1
  /\ Symbols({}) = {}
<1>1. Sym \in Nat
  BY PipelineAssumption
<1> QED
  BY <1>1, CtrlFacts DEF Symbols

\* The SRS are the symbols before the UL CTRL.
LEMMA SymbolsOfSrs ==
  ASSUME NEW u \in UE
  PROVE  Symbols(Srs(u)) = Sym - 1 - SrsSym .. Sym - 2
<1> DEFINE tti(i) == [type |-> "SRS", fmt |-> "UL", start |-> Sym - 1 - i, num |-> 1, ues |-> {u}]
<1>1. Sym \in Nat /\ SrsSym \in Nat /\ SrsSym + 2 <= Sym
  BY PipelineAssumption
<1>2. ASSUME NEW x \in Symbols(Srs(u)) PROVE x \in Sym - 1 - SrsSym .. Sym - 2
  <2>1. PICK t \in Srs(u) : x \in t.start .. t.start + t.num - 1
    BY DEF Symbols
  <2>2. t.num = 1 /\ t.start \in Sym - 1 - SrsSym .. Sym - 2
    BY SrsFacts
  <2> QED
    BY <1>1, <2>1, <2>2
<1>3. ASSUME NEW x \in Sym - 1 - SrsSym .. Sym - 2 PROVE x \in Symbols(Srs(u))
  <2> DEFINE i == Sym - 1 - x
  <2>1. i \in 1 .. SrsSym /\ Sym - 1 - i = x
    BY <1>1
  <2>2. tti(i) \in Srs(u)
    BY <2>1 DEF Srs
  <2>3. tti(i).start = x /\ tti(i).num = 1
    BY <2>1
  <2>4. x \in x .. x + 1 - 1
    BY <1>1
  <2> HIDE DEF tti, i
  <2> QED
    BY <2>2, <2>3, <2>4 DEF Symbols
<1> QED
  BY <1>2, <1>3

\* The symbols of a slot's allocations are finitely many.
LEMMA SymbolsFinite ==
  ASSUME NEW A \in SUBSET VarTti
  PROVE  IsFiniteSet(Symbols(A)) /\ Symbols(A) \subseteq Int
<1>1. Sym \in Nat
  BY PipelineAssumption
<1>2. ASSUME NEW x \in Symbols(A) PROVE x \in 0 .. Sym + Sym
  <2>1. PICK t \in A : x \in t.start .. t.start + t.num - 1
    BY DEF Symbols
  <2>2. t.start \in 0 .. Sym - 1 /\ t.num \in 1 .. Sym
    BY DEF VarTti
  <2> QED
    BY <1>1, <2>1, <2>2
<1>3. Symbols(A) \in SUBSET (0 .. Sym + Sym) /\ Symbols(A) \subseteq Int
  BY <1>2
<1>4. IsFiniteSet(0 .. Sym + Sym)
  BY <1>1, FS_Interval
<1> QED
  BY <1>3, <1>4, FS_Subset

\* Merging two counted sets on the two sides of a symbol adds up the counts
\* (SlotAllocInfo::Merge).
LEMMA MergeCounted ==
  ASSUME NEW a \in Alloc, NEW b \in Alloc, IsCounted(a), IsCounted(b), NEW x \in Int,
         \A t \in a.ttis : t.start + t.num <= x, \A t \in b.ttis : t.start >= x
  PROVE  IsCounted([n |-> a.n + b.n, ttis |-> a.ttis \union b.ttis])
<1> DEFINE A == Symbols(a.ttis)
           B == Symbols(b.ttis)
<1>1. a.ttis \in SUBSET VarTti /\ b.ttis \in SUBSET VarTti /\ a.n \in Nat /\ b.n \in Nat
  BY DEF Alloc
<1>2. IsFiniteSet(A) /\ IsFiniteSet(B)
  BY <1>1, SymbolsFinite
<1>3. ASSUME NEW y \in A, y \in B PROVE FALSE
  <2>1. PICK t \in a.ttis : y \in t.start .. t.start + t.num - 1
    BY DEF Symbols
  <2>2. PICK v \in b.ttis : y \in v.start .. v.start + v.num - 1
    BY <1>3 DEF Symbols
  <2>3. t.start \in Int /\ t.num \in Int /\ v.start \in Int /\ v.num \in Int
    BY <1>1, PipelineAssumption DEF VarTti
  <2> QED
    BY <2>1, <2>2, <2>3
<1>4. A \cap B = {}
  BY <1>3
<1>5. Cardinality(A \cap B) = 0
  BY <1>4, FS_EmptySet
<1>6. Cardinality(A \union B) = Cardinality(A) + Cardinality(B) - Cardinality(A \cap B)
  BY <1>2, FS_Union
<1>7. Cardinality(A) = a.n /\ Cardinality(B) = b.n
  BY DEF IsCounted
<1>8. Symbols(a.ttis \union b.ttis) = A \union B
  BY SymbolsUnion
<1> HIDE DEF A, B
<1>9. Cardinality(A \union B) = a.n + b.n
  BY <1>1, <1>5, <1>6, <1>7
<1> QED
  BY <1>8, <1>9 DEF IsCounted
(***************************************************************************)
(* The scheduler's decisions are counted right.                            *)
(***************************************************************************)
\* Adjacent intervals of symbols.
LEMMA Adjacent ==
  ASSUME NEW i \in Int, NEW j \in Int, NEW k \in Int, i <= j, j <= k
  PROVE  (i .. j - 1) \union (j .. k - 1) = i .. k - 1
  OBVIOUS

\* An uplink decision is counted from its first symbol to the end of the slot.
LEMMA UlPlanCounted ==
  ASSUME NEW type \in {"UL", "F"}, NEW ues \in SUBSET UE, NEW a \in UlPlans(type, ues)
  PROVE  IsCounted(a)
<1> DEFINE low == IF type = "F" THEN DlCtrl ELSE 0
           last == Sym - UlCtrl
           top(q) == IF q = {} THEN last ELSE last - SrsSym
           plan(q, first, f, g) ==
             [n |-> UlCtrl + (last - first), first |-> first, blocks |-> DOMAIN f,
              ttis |-> {UlCtrlTti} \union q \union Data("UL", f, g)]
           srs == {{}} \union (IF type \in SrsTypes THEN {Srs(u) : u \in ues} ELSE {})
<1>1. Sym \in Nat /\ SrsSym \in Nat /\ SrsSym + 2 <= Sym
  BY PipelineAssumption
<1>2. PICK q \in srs : \E first \in low .. top(q) : \E f \in Tilings(first, top(q)) :
        \E g \in UlOwners(DOMAIN f, ues, q) : a = plan(q, first, f, g)
  BY DEF UlPlans
<1>3. PICK first \in low .. top(q) : \E f \in Tilings(first, top(q)) :
        \E g \in UlOwners(DOMAIN f, ues, q) : a = plan(q, first, f, g)
  BY <1>2
<1>4. PICK f \in Tilings(first, top(q)) : \E g \in UlOwners(DOMAIN f, ues, q) : a = plan(q, first, f, g)
  BY <1>3
<1>5. PICK g \in UlOwners(DOMAIN f, ues, q) : a = plan(q, first, f, g)
  BY <1>4
<1>6. first \in Nat /\ top(q) \in Nat /\ top(q) <= last /\ first <= top(q) /\ last = Sym - 1
  BY <1>1
<1>7. Symbols(q) = top(q) .. last - 1
  <2>1. CASE q = {}
    <3>1. top(q) = last /\ last \in Int
      BY <1>6, <2>1
    <3>2. last .. last - 1 = {}
      BY <3>1
    <3> QED
      BY <2>1, <3>1, <3>2, SymbolsOfCtrl
  <2>2. CASE q # {}
    <3>1. PICK u \in UE : q = Srs(u)
      BY <1>2, <2>2
    <3>2. top(q) = Sym - 1 - SrsSym /\ last - 1 = Sym - 2
      BY <1>1, <2>2
    <3> QED
      BY <3>1, <3>2, SymbolsOfSrs
  <2> QED
    BY <2>1, <2>2
<1> DEFINE D == Data("UL", f, g)
<1>8. Symbols(D) = first .. top(q) - 1
  BY <1>6, SymbolsOfData
<1>9. a.ttis = {UlCtrlTti} \union (q \union D) /\ a.n = Sym - first
  BY <1>1, <1>5, <1>6
<1> HIDE DEF D, top, last
<1>10. Symbols(q \union D) = first .. last - 1
  <2>1. Symbols(q \union D) = (first .. top(q) - 1) \union (top(q) .. last - 1)
    <3>1. Symbols(q \union D) = Symbols(q) \union Symbols(D)
      BY SymbolsUnion
    <3> QED
      BY <1>7, <1>8, <3>1
  <2>2. (first .. top(q) - 1) \union (top(q) .. last - 1) = first .. last - 1
    <3> DEFINE k == top(q)
    <3>1. first \in Int /\ k \in Int /\ last \in Int /\ first <= k /\ k <= last
      BY <1>6
    <3> HIDE DEF k
    <3>2. (first .. k - 1) \union (k .. last - 1) = first .. last - 1
      BY <3>1, Adjacent
    <3> QED
      BY <3>2 DEF k
  <2> QED
    BY <2>1, <2>2
<1>11. Symbols(a.ttis) = first .. Sym - 1
  <2>1. Symbols(a.ttis) = (first .. last - 1) \union (last .. Sym - 1)
    BY <1>6, <1>9, <1>10, SymbolsOfCtrl, SymbolsUnion
  <2> QED
    BY <1>1, <1>6, <2>1, Adjacent
<1>12. Cardinality(first .. Sym - 1) = Sym - first
  <2>1. first \in Int /\ Sym - 1 \in Int /\ ~(first > Sym - 1)
    BY <1>1, <1>6
  <2> QED
    BY <1>1, <1>6, <2>1, FS_Interval
<1> QED
  BY <1>9, <1>11, <1>12 DEF IsCounted

\* A downlink decision is counted from the DL CTRL to the end of the data, and
\* the UL CTRL of an S slot besides.
LEMMA DlPlanCounted ==
  ASSUME NEW type \in Types, NEW elem, elem.tot \in 0 .. Sym - DlCtrl, type = "S" => elem.tot = 0,
         NEW ues \in SUBSET UE, NEW a \in DlPlans(type, elem, ues)
  PROVE  IsCounted(a)
<1> DEFINE used == UlSymbols(type, elem)
           avail == (Sym - DlCtrl - used) % 256
           sctrl == IF type = "S" THEN {UlCtrlTti} ELSE {}
           plan(len, f, g) ==
             [n |-> DlCtrl + len + (IF type = "S" THEN UlCtrl ELSE 0), used |-> used,
              ttis |-> {DlCtrlTti} \union sctrl \union Data("DL", f, g)]
<1>1. Sym \in Nat /\ Sym >= 3 /\ Sym < 256
  BY PipelineAssumption
<1>2. used \in 0 .. Sym - 1 /\ (type = "S" => used = 1)
  BY <1>1 DEF UlSymbols
<1>3. avail = Sym - 1 - used /\ avail \in Nat
  <2>1. Sym - 1 - used \in 0 .. 255
    BY <1>1, <1>2
  <2> QED
    BY <1>1, <1>2, <2>1
<1>4. PICK len \in 0 .. avail : \E f \in Tilings(DlCtrl, DlCtrl + len) :
        \E g \in Owners(DOMAIN f, ues) : a = plan(len, f, g)
  BY DEF DlPlans
<1>5. PICK f \in Tilings(DlCtrl, DlCtrl + len) : \E g \in Owners(DOMAIN f, ues) : a = plan(len, f, g)
  BY <1>4
<1>6. PICK g \in Owners(DOMAIN f, ues) : a = plan(len, f, g)
  BY <1>5
<1> DEFINE D == Data("DL", f, g)
<1> HIDE DEF avail, used
<1>7. len \in Nat /\ len <= Sym - 1 /\ (type = "S" => len <= Sym - 2)
  BY <1>1, <1>2, <1>3
<1>8. Symbols(D) = 1 .. 1 + len - 1
  BY <1>7, SymbolsOfData
<1>9. Symbols({DlCtrlTti} \union D) = 0 .. len
  <2>1. Symbols({DlCtrlTti} \union D) = Symbols({DlCtrlTti}) \union Symbols(D)
    BY SymbolsUnion
  <2>2. Symbols({DlCtrlTti} \union D) = (0 .. 0) \union (1 .. 1 + len - 1)
    BY <1>8, <2>1, SymbolsOfCtrl
  <2>3. (0 .. 0) \union (1 .. 1 + len - 1) = 0 .. len
    BY <1>7
  <2> QED
    BY <2>2, <2>3
<1>10. IsFiniteSet(0 .. len) /\ Cardinality(0 .. len) = len + 1
  BY <1>7, FS_Interval
<1>11. CASE type = "S"
  <2>1. a.ttis = ({DlCtrlTti} \union D) \union {UlCtrlTti} /\ a.n = len + 2
    BY <1>6, <1>7, <1>11
  <2>2. Symbols(a.ttis) = (0 .. len) \union {Sym - 1}
    <3>1. Symbols(a.ttis) = Symbols({DlCtrlTti} \union D) \union Symbols({UlCtrlTti})
      BY <2>1, SymbolsUnion
    <3>2. Sym - 1 .. Sym - 1 = {Sym - 1}
      BY <1>1
    <3> QED
      BY <1>9, <3>1, <3>2, SymbolsOfCtrl
  <2>3. Sym - 1 \notin 0 .. len
    BY <1>1, <1>7, <1>11
  <2>4. Cardinality((0 .. len) \union {Sym - 1}) = len + 2
    <3> DEFINE S == 0 .. len
               x == Sym - 1
    <3>1. IsFiniteSet(S) /\ x \notin S /\ Cardinality(S) = len + 1
      BY <1>10, <2>3
    <3> HIDE DEF S, x
    <3>2. Cardinality(S \union {x}) = Cardinality(S) + 1
      BY <3>1, FS_AddElement
    <3> QED
      BY <1>7, <3>1, <3>2 DEF S, x
  <2> QED
    BY <2>1, <2>2, <2>4 DEF IsCounted
<1>12. CASE type # "S"
  <2>1. a.ttis = {DlCtrlTti} \union D /\ a.n = len + 1
    BY <1>6, <1>7, <1>12
  <2> QED
    BY <1>9, <1>10, <2>1 DEF IsCounted
<1> QED
  BY <1>11, <1>12

(***************************************************************************)
(* The count is kept by every step.                                        *)
(***************************************************************************)
\* The uplink indications plan a slot that is empty.
LEMMA UlCounted ==
  ASSUME IInv, AllCounted, phase = "idle", slot \in 0 .. MaxSlot,
         NEW ul \in UlDecisions, NEW s \in Slot
  PROVE  IsCounted(WithUl(ul, s))
<1>1. /\ slot \in Int /\ s \in Int /\ Nxt = slot /\ conf \in Configs
      /\ slotAlloc[s] \in Alloc /\ IsCounted(slotAlloc[s])
  BY PipelineAssumption DEF Nxt, IInv, TypeOK, Slot, Alloc, AllCounted
<1>2. IsCounted(NoAlloc)
  BY SymbolsOfCtrl, FS_EmptySet DEF IsCounted, NoAlloc
<1>3. CASE s \notin UlTargets
  BY <1>1, <1>2, <1>3 DEF WithUl, Kept
<1>4. CASE s \in UlTargets
  <2>1. TypeAt(tdd, s) \in {"UL", "F"} /\ slot = s - Delay(s) /\ Delay(s) \in Nat /\ Delay(s) >= L
    BY <1>1, <1>4, UlTargetFacts
  <2>2. slot <= s - L /\ s # slot /\ Nxt <= s - Delay(s)
    BY <1>1, <2>1
  <2>3. slotAlloc[s].ttis = {}
    BY <1>1, <2>2 DEF IInv, NotPlanned
  <2>4. slotAlloc[s].n = 0
    BY <1>1, <2>3, SymbolsOfCtrl, FS_EmptySet DEF IsCounted
  <2>5. ul[s] \in UlPlans(TypeAt(tdd, s), Served(s)) /\ Served(s) \in SUBSET UE
    BY <1>4 DEF UlDecisions, Served, IInv, TypeOK
  <2>6. IsCounted(ul[s]) /\ ul[s].n \in Nat
    <3>1. ul[s].n \in UlCtrl .. Sym
      BY <2>1, <2>5, UlPlanFacts
    <3> QED
      BY <2>1, <2>5, <3>1, UlPlanCounted, PipelineAssumption
  <2>7. WithUl(ul, s) = [n |-> 0 + ul[s].n, ttis |-> {} \union ul[s].ttis]
    BY <1>4, <2>2, <2>3, <2>4 DEF WithUl, Kept, Merge
  <2>8. 0 + ul[s].n = ul[s].n /\ {} \union ul[s].ttis = ul[s].ttis
    BY <2>6
  <2> QED
    BY <2>6, <2>7, <2>8 DEF IsCounted
<1> QED
  BY <1>3, <1>4

\* The downlink indication plans what the uplink has left of the slot.
LEMMA DlCounted ==
  ASSUME IInv, AllCounted, phase = "idle", slot \in 0 .. MaxSlot,
         NEW ul \in UlDecisions, NEW dl \in DlDecisions(AfterUl(ul)), NEW s \in Slot
  PROVE  IsCounted(Planned(ul, dl)[s])
<1> DEFINE b == WithUl(ul, s)
           e == AfterUl(ul)[s]
           d == dl[s]
<1>1. /\ Sym \in Nat /\ Sym >= 3 /\ slot \in Int /\ s \in Int /\ Nxt = slot /\ conf \in Configs
  BY PipelineAssumption DEF Nxt, IInv, TypeOK, Slot
<1>2. Planned(ul, dl)[s] = IF s \in DlTargets THEN Merge(b, d) ELSE b
  BY DEF Planned, WithUl, Kept
<1>3. IsCounted(b)
  BY UlCounted
<1>4. CASE s \in DlTargets
  <2>1. s = slot + L /\ TypeAt(tdd, s) # "UL" /\ slot <= s - L
    BY <1>1, <1>4, DlTargetFacts
  <2>2. /\ b \in Alloc /\ e \in Elem
        /\ \A t \in b.ttis : t.start >= Sym - e.tot
        /\ TypeAt(tdd, s) = "F" => e.tot <= Sym - DlCtrl
        /\ TypeAt(tdd, s) \notin {"UL", "F"} => e = NoElem
    BY <2>1, UlStep DEF IInv
  <2>3. d \in DlPlans(TypeAt(tdd, s), e, Served(s))
    BY <1>4 DEF DlDecisions
  <2>4. Served(s) \in SUBSET UE /\ TypeAt(tdd, s) \in Types
    BY <1>1, Pattern DEF Served, IInv, TypeOK
  <2>5. e.tot \in 0 .. Sym - DlCtrl /\ (TypeAt(tdd, s) = "S" => e.tot = 0)
    <3>1. e.tot \in 0 .. Sym
      BY <2>2 DEF Elem
    <3>2. TypeAt(tdd, s) # "F" => e.tot = 0
      BY <2>1, <2>2, <2>4 DEF NoElem, Types
    <3> QED
      BY <1>1, <2>2, <3>1, <3>2
  <2> HIDE DEF b, e, d
  <2>6. /\ d.n \in Nat /\ d.ttis \subseteq VarTti
        /\ \A t \in d.ttis : t.start + t.num <= Sym - e.tot
    BY <2>3, <2>4, <2>5, DlPlanFacts
  <2>7. IsCounted(d)
    BY <2>3, <2>4, <2>5, DlPlanCounted
  <2> DEFINE dd == [n |-> d.n, ttis |-> d.ttis]
  <2>8. dd \in Alloc /\ IsCounted(dd) /\ dd.n = d.n /\ dd.ttis = d.ttis
    BY <2>6, <2>7 DEF Alloc, IsCounted
  <2> HIDE DEF dd
  <2>9. Sym - e.tot \in Int
    BY <1>1, <2>5
  <2>10. IsCounted([n |-> dd.n + b.n, ttis |-> dd.ttis \union b.ttis])
    BY <1>3, <2>2, <2>6, <2>8, <2>9, MergeCounted
  <2>11. dd.n + b.n = b.n + d.n /\ dd.ttis \union b.ttis = b.ttis \union d.ttis
    BY <2>2, <2>6, <2>8 DEF Alloc
  <2> QED
    BY <1>2, <1>4, <2>10, <2>11 DEF Merge
<1> QED
  BY <1>2, <1>3, <1>4

\* Only StartSlot changes an allocation.
LEMMA NextCounted == IInv /\ AllCounted /\ [Next]_vars => AllCounted'
<1> SUFFICES ASSUME IInv, AllCounted, [Next]_vars PROVE AllCounted'
  OBVIOUS
<1>1. CASE StartSlot
  <2>1. phase = "idle" /\ slot \in 0 .. MaxSlot
    BY <1>1, PipelineAssumption DEF StartSlot, IInv, TypeOK
  <2>2. PICK ul \in UlDecisions : \E dl \in DlDecisions(AfterUl(ul)) : slotAlloc' = Planned(ul, dl)
    BY <1>1 DEF StartSlot, CallMacForSlotIndication
  <2>3. PICK dl \in DlDecisions(AfterUl(ul)) : slotAlloc' = Planned(ul, dl)
    BY <2>2
  <2>4. \A s \in Slot : IsCounted(Planned(ul, dl)[s])
    BY <2>1, DlCounted
  <2> QED
    BY <2>3, <2>4 DEF AllCounted, IsCounted
<1>2. CASE slotAlloc' = slotAlloc
  BY <1>2 DEF AllCounted, IsCounted
<1>3. CASE UplinkOnAir \/ EndSlot
  BY <1>2, <1>3 DEF UplinkOnAir, EndSlot
<1>4. ASSUME NEW u \in UE, AddUe(u) \/ UeStartSlot(u) \/ PhyCtrlMessagesReceived(u)
      PROVE  AllCounted'
  BY <1>2, <1>4 DEF AddUe, UeStartSlot, PhyCtrlMessagesReceived
<1>5. CASE UNCHANGED vars
  BY <1>2, <1>5 DEF vars
<1> QED
  BY <1>1, <1>3, <1>4, <1>5 DEF Next

\* The count of what StartSlot takes on air, with the broadcast DL CTRL.
LEMMA CurrentCounted ==
  ASSUME BroadcastInDl, IInv, AllCounted, phase = "idle", slot <= MaxSlot
  PROVE  IsCounted(Current)
<1>1. /\ slot \in Int /\ slot >= 0 /\ Nxt = slot /\ conf \in Configs /\ slot \in Slot
      /\ IsCounted(slotAlloc[slot])
  BY PipelineAssumption DEF Nxt, IInv, TypeOK, Slot, AllCounted
<1>2. CASE Current = slotAlloc[slot]
  BY <1>1, <1>2
<1>3. CASE /\ conf.primary /\ slot \in Broadcast /\ ~Contains(slotAlloc[slot].ttis, "CTRL", "DL")
           /\ Current = [n |-> slotAlloc[slot].n + 1, ttis |-> slotAlloc[slot].ttis \union {DlCtrlTti}]
  <2>1. (IsTdd(tdd) \/ ~HasUlSlot(tdd)) /\ TypeAt(tdd, slot) # "UL"
    BY <1>1, <1>3 DEF BroadcastInDl, tdd
  <2>2. ~(L <= slot)
    BY <1>1, <1>3, <2>1 DEF IInv, DlCtrlPlanned
  <2>3. slotAlloc[slot].ttis = {}
    BY <1>1, <2>2 DEF IInv, DlCtrlPlanned
  <2>4. slotAlloc[slot].n = 0
    BY <1>1, <2>3, SymbolsOfCtrl, FS_EmptySet DEF IsCounted
  <2>5. Current.n = 1 /\ Current.ttis = {DlCtrlTti}
    BY <1>3, <2>3, <2>4
  <2>6. Cardinality(0 .. 0) = 1
    <3>1. 0 .. 0 = {0}
      OBVIOUS
    <3> QED
      BY <3>1, FS_Singleton
  <2> QED
    BY <2>5, <2>6, SymbolsOfCtrl DEF IsCounted
<1> QED
  BY <1>2, <1>3 DEF Current

\* The assertion of GenerateAllocationStatistics holds for any pattern and any
\* decisions of the scheduler: m_numSymAlloc is the number of symbols that the
\* allocations cover, as long as the MIB and the SIB1 are not due in a UL slot.
THEOREM CountedHolds == BroadcastInDl => (Spec => []Counted)
<1> SUFFICES ASSUME BroadcastInDl PROVE Spec => []Counted
  OBVIOUS
<1>1. Init => AllCounted
  <2>1. Cardinality(Symbols({})) = 0
    BY SymbolsOfCtrl, FS_EmptySet
  <2>2. Init => \A s \in Slot : slotAlloc[s] = NoAlloc
    BY DEF Init
  <2> QED
    BY <2>1, <2>2 DEF AllCounted, IsCounted, NoAlloc
<1>2. IInv /\ AllCounted => Counted
  BY CurrentCounted DEF Counted, AllCounted, IsCounted
<1>3. IInv /\ AllCounted /\ [Next]_vars => AllCounted'
  BY NextCounted
<1> QED
  BY <1>1, <1>2, <1>3, SpecIInv, PTL DEF Spec

=============================================================================
