------------------------ MODULE VideoTransportProofs ------------------------
(***************************************************************************)
(* For any number of packets, groups and batches, any deadline and any     *)
(* estimates of the round trip: packets are let go only when the decoder   *)
(* has them or they are late, groups are finished only when they are, and  *)
(* the transport implements PacketDelivery.                                *)
(***************************************************************************)
EXTENDS VideoTransport, FiniteSetTheorems, SequenceTheorems, TLAPS

\* Packets, groups and batches are numbered as they are made; an object belongs
\* to the batch it names, and is encoded with its group, not before the packets
\* made earlier.
Objects ==
  /\ \E c \in 0 .. MaxPkt : Created = 1 .. c /\ nGroups <= c
  /\ \A p \in Packet : batchOf[p] = 0 <=> groupOf[p] = 0
  /\ \A p \in Created :
       /\ groupOf[p] <= nGroups
       /\ batchOf[p] \in DOMAIN batches
       /\ p \in batches[batchOf[p]].members
       /\ encode[p] <= now
  /\ \A p, q \in Created :
       /\ p <= q => encode[p] <= encode[q]
       /\ groupOf[p] = groupOf[q] => encode[p] = encode[q]

\* A batch has packets of one group, and is not made before them.
BatchesOk ==
  \A b \in DOMAIN batches :
    /\ batches[b].group \in 1 .. nGroups
    /\ batches[b].members \subseteq PktsOf(batches[b].group)
    /\ \A p \in PktsOf(batches[b].group) : encode[p] <= batches[b].at

\* What is queued, on its way and handed on.
InTransit ==
  /\ \A i \in DOMAIN queue : queue[i].batch \in DOMAIN batches /\ queue[i].data \subseteq Created
  /\ \A m \in link : m.batch \in DOMAIN batches /\ m.data \subseteq batches[m.batch].members
  /\ \A a \in acks : a \subseteq decoded
  /\ decoded \subseteq Created

\* A group object holds packets of its group that the decoder has, and its
\* encode time is not before theirs.
GroupOk(g, obj, got) ==
  /\ obj.decoded \subseteq got \intersect PktsOf(g)
  /\ \A p \in PktsOf(g) : encode[p] <= obj.enc
  /\ \A b \in obj.done : b \in DOMAIN batches /\ batches[b].members \subseteq got
  /\ \A b \in Batch : obj.data[b] \subseteq obj.decoded

GroupsOk ==
  /\ incomplete \subseteq 1 .. nGroups
  /\ complete \subseteq 1 .. nGroups
  /\ timeout \subseteq 1 .. nGroups
  /\ \A g \in incomplete : GroupOk(g, grp[g], decoded)
  /\ \A g \in complete : PktsOf(g) \subseteq decoded

\* The keys are in the order of the packets, and the packets kept have one.
KeysOk ==
  /\ \A i, j \in DOMAIN keys : i < j => keys[i] < keys[j]
  /\ \A i \in DOMAIN keys : keys[i] \in Created
  /\ \A p \in history : \E i \in DOMAIN keys : keys[i] = p

\* The inductive invariant.
IInv ==
  /\ TypeOK
  /\ Objects /\ BatchesOk /\ InTransit /\ GroupsOk /\ KeysOk
  /\ NeverForgotten /\ TimeoutIsLate

-----------------------------------------------------------------------------

\* The i-th of n packets is in one of the groups that n packets need.
LEMMA ShareLemma ==
  ASSUME NEW n \in Nat, NEW s \in 1 .. n, NEW i \in 1 .. n
  PROVE  /\ Share(i, s) \in 1 .. Share(n, s)
         /\ Share(n, s) \in 1 .. n
<1> DEFINE q(k) == (k - 1) \div s
<1>1. \A k \in 1 .. n : /\ q(k) \in Nat
                        /\ s * q(k) <= k - 1 /\ k - 1 < s * q(k) + s
  OBVIOUS
<1>2. q(n) <= n - 1
  <2>1. q(n) <= s * q(n)
    BY <1>1
  <2> QED
    BY <1>1, <2>1
<1>3. q(i) <= q(n)
  BY <1>1
<1> QED
  BY <1>1, <1>2, <1>3 DEF Share

\* None of these groups is empty.
LEMMA ShareOnto ==
  ASSUME NEW n \in Nat, NEW s \in 1 .. n, NEW k \in 1 .. Share(n, s)
  PROVE  \E i \in 1 .. n : Share(i, s) = k
<1> DEFINE i == (k - 1) * s + 1
           q == (n - 1) \div s
<1>1. k \in Nat /\ 1 <= k /\ k - 1 <= q /\ q \in Nat
  BY DEF Share
<1>2. s * q <= n - 1
  OBVIOUS
<1>3. (k - 1) * s <= s * q /\ (k - 1) * s \in Nat
  BY <1>1
<1>4. i \in 1 .. n
  BY <1>2, <1>3
<1>5. (i - 1) \div s = k - 1
  <2>1. i - 1 = (k - 1) * s
    BY <1>1, <1>3
  <2>2. ((k - 1) * s) \div s = k - 1
    BY <1>1
  <2> QED
    BY <2>1, <2>2
<1>6. Share(i, s) = k
  BY <1>1, <1>5 DEF Share
<1> QED
  BY <1>4, <1>6

\* A finite set of numbers has an order, and its elements occur in it.
LEMMA InOrderLemma ==
  ASSUME NEW N \in Nat, NEW S, S \subseteq 1 .. N, NEW d \in InOrder(S)
  PROVE  /\ d \in Seq(S)
         /\ DOMAIN d = 1 .. Len(d)
         /\ \A i, j \in DOMAIN d : i < j => d[i] < d[j]
         /\ \A x \in S : \E i \in DOMAIN d : d[i] = x
<1>1. IsFiniteSet(S)
  <2>1. IsFiniteSet(1 .. N)
    BY FS_Interval
  <2> QED
    BY <2>1, FS_Subset
<1>2. Cardinality(S) \in Nat
  BY <1>1, FS_CardinalityType
<1>3. d \in [1 .. Cardinality(S) -> S]
  BY DEF InOrder
<1>4. d \in Seq(S)
  BY <1>2, <1>3
<1> QED
  BY <1>4 DEF InOrder

\* What is appended to a sequence follows it.
LEMMA Appended ==
  ASSUME NEW S, NEW s \in Seq(S), NEW n \in Nat, NEW f \in [1 .. n -> S]
  PROVE  /\ s \o f \in Seq(S)
         /\ Len(s \o f) = Len(s) + n
         /\ DOMAIN (s \o f) = 1 .. Len(s) + n
         /\ \A i \in 1 .. Len(s) : (s \o f)[i] = s[i]
         /\ \A i \in 1 .. n : (s \o f)[Len(s) + i] = f[i]
<1>1. f \in Seq(S) /\ Len(f) = n /\ DOMAIN f = 1 .. n
  OBVIOUS
<1>2. s \o f \in Seq(S) /\ Len(s \o f) = Len(s) + Len(f)
  BY <1>1, ConcatProperties
<1>3. \A i \in 1 .. Len(s) + Len(f) :
        (s \o f)[i] = IF i <= Len(s) THEN s[i] ELSE f[i - Len(s)]
  BY <1>1, ConcatProperties
<1>4. Len(s) \in Nat
  OBVIOUS
<1>5. DOMAIN (s \o f) = 1 .. Len(s) + n
  BY <1>1, <1>2
<1>6. \A i \in 1 .. Len(s) : (s \o f)[i] = s[i]
  BY <1>1, <1>3, <1>4
<1>7. \A i \in 1 .. n : (s \o f)[Len(s) + i] = f[i]
  BY <1>1, <1>3, <1>4
<1> QED
  BY <1>1, <1>2, <1>5, <1>6, <1>7


\* Initially nothing has been made.
(* The same under a name, the shape in which the code's push_back loops leave *)
(* the lists.                                                                *)
IsAppended(r, s, n, f) ==
  /\ Len(r) = Len(s) + n
  /\ DOMAIN r = 1 .. Len(s) + n
  /\ \A i \in 1 .. Len(s) : r[i] = s[i]
  /\ \A i \in 1 .. n : r[Len(s) + i] = f[i]

LEMMA AppendedTo ==
  ASSUME NEW S, NEW s \in Seq(S), NEW n \in Nat, NEW f \in [1 .. n -> S]
  PROVE  (s \o f) \in Seq(S) /\ IsAppended(s \o f, s, n, f)
  BY Appended DEF IsAppended

LEMMA InitIInv == Init => IInv
<1> SUFFICES ASSUME Init PROVE IInv
  OBVIOUS
<1> USE TransportAssumption
<1>1. 0 \in Time /\ 0 \in Batch \union {0} /\ 0 \in Group \union {0}
  BY DEF Time
<1>2. NewGroup(0) \in GroupObject
  BY <1>1 DEF NewGroup, GroupObject
<1>3. TypeOK
  BY <1>1, <1>2 DEF Init, TypeOK
<1>4. Created = {} /\ \A g \in Group : PktsOf(g) = {}
  BY DEF Init, Created, PktsOf, Group
<1>5. Objects
  <2>1. Created = 1 .. 0 /\ nGroups <= 0
    BY <1>4 DEF Init
  <2> QED
    BY <1>4, <2>1 DEF Init, Objects
<1>6. BatchesOk /\ InTransit /\ GroupsOk /\ KeysOk
  BY <1>4 DEF Init, BatchesOk, InTransit, GroupsOk, KeysOk
<1>7. NeverForgotten /\ TimeoutIsLate
  BY <1>4 DEF Init, NeverForgotten, TimeoutIsLate
<1> QED
  BY <1>3, <1>5, <1>6, <1>7 DEF IInv

\* What CreateFrame makes: n packets behind the first c, encoded now, in groups
\* and batches that are new.
FrameMade(c, n) ==
  /\ c \in 0 .. MaxPkt - 1 /\ n \in 1 .. MaxPkt - c
  /\ Created = 1 .. c /\ Created' = 1 .. c + n
  /\ \A p \in Packet \ (c + 1 .. c + n) :
       groupOf'[p] = groupOf[p] /\ encode'[p] = encode[p] /\ batchOf'[p] = batchOf[p]
  /\ \A p \in c + 1 .. c + n :
       /\ encode'[p] = now
       /\ groupOf'[p] \in nGroups + 1 .. nGroups'
       /\ batchOf'[p] \in Len(batches) + 1 .. Len(batches')
       /\ batchOf'[p] \in DOMAIN batches' /\ p \in batches'[batchOf'[p]].members
  /\ nGroups' \in nGroups + 1 .. nGroups + n
  /\ history' = history \union (c + 1 .. c + n)
  /\ keys' = keys \o [i \in 1 .. n |-> c + i]
  /\ Len(batches') <= MaxBatch
  /\ DOMAIN batches \subseteq DOMAIN batches'
  /\ \A b \in DOMAIN batches : batches'[b] = batches[b]
  /\ \A b \in DOMAIN batches' \ DOMAIN batches :
       /\ batches'[b].group \in nGroups + 1 .. nGroups'
       /\ batches'[b].members \subseteq {p \in Packet : groupOf'[p] = batches'[b].group}
       /\ batches'[b].members # {} /\ batches'[b].members \subseteq c + 1 .. c + n
       /\ batches'[b].at = now
  /\ \A i \in DOMAIN queue' :
       \/ \E j \in DOMAIN queue : queue'[i] = queue[j]
       \/ queue'[i].batch \in DOMAIN batches' /\ queue'[i].data \subseteq c + 1 .. c + n
  /\ groupOf' \in [Packet -> Group \union {0}]
  /\ encode' \in [Packet -> Time]
  /\ batchOf' \in [Packet -> Batch \union {0}]
  /\ batches' \in Seq(BatchType) /\ queue' \in Seq(EntryType)

LEMMA FrameLemma ==
  ASSUME IInv, CreateFrame
  PROVE  \E c, n \in 0 .. MaxPkt : FrameMade(c, n)
<1> USE TransportAssumption
<1>1. PICK c \in 0 .. MaxPkt - 1 : \E n \in 1 .. MaxPkt - c :
         /\ Created = 1 .. c
         /\ encode' = [p \in Packet |-> IF p \in c + 1 .. c + n THEN now ELSE encode[p]]
         /\ \E s \in 1 .. n : \E f, r \in 0 .. MaxFec : SendPackets(c, n, s, f, r)
  BY DEF CreateFrame
<1>2. PICK n \in 1 .. MaxPkt - c :
         /\ Created = 1 .. c
         /\ encode' = [p \in Packet |-> IF p \in c + 1 .. c + n THEN now ELSE encode[p]]
         /\ \E s \in 1 .. n : \E f, r \in 0 .. MaxFec : SendPackets(c, n, s, f, r)
  BY <1>1
<1>3. PICK s \in 1 .. n, f \in 0 .. MaxFec, r \in 0 .. MaxFec : SendPackets(c, n, s, f, r)
  BY <1>2
<1> DEFINE fresh == c + 1 .. c + n
           new == 1 .. Share(n, s)
           Members(k) == {p \in fresh : Share(p - c, s) = k}
           FecNum(k) == IF k * s <= n THEN f ELSE r
           batch(k) == [group |-> nGroups + k, members |-> Members(k), fec |-> FecNum(k), at |-> now]
           entry(k) == [batch |-> Len(batches) + k, data |-> Members(k),
                        fec |-> 1 .. FecNum(k), rtx |-> FALSE]
           S == Share(n, s)
           L == Len(batches)
<1>4. /\ batches \in Seq(BatchType) /\ queue \in Seq(EntryType) /\ L \in Nat
      /\ groupOf \in [Packet -> Group \union {0}]
      /\ encode \in [Packet -> Time] /\ batchOf \in [Packet -> Batch \union {0}]
      /\ now \in Time /\ nGroups \in Group \union {0} /\ nGroups \in Nat
      /\ DOMAIN batches = 1 .. L
  BY DEF IInv, TypeOK, Group
<1>5. nGroups <= c
  <2>1. PICK d \in 0 .. MaxPkt : Created = 1 .. d /\ nGroups <= d
    BY DEF IInv, Objects
  <2>2. d = c
    <3>1. 1 .. d = 1 .. c
      BY <1>2, <2>1
    <3> QED
      BY <3>1
  <2> QED
    BY <2>1, <2>2
<1>6. S \in 1 .. n /\ \A p \in fresh : Share(p - c, s) \in 1 .. S
  <2>1. \A p \in fresh : p - c \in 1 .. n
    OBVIOUS
  <2> QED
    BY <2>1, ShareLemma
<1>7. fresh \subseteq Packet /\ c + n <= MaxPkt
  BY DEF Packet
<1> HIDE DEF S
<1>8. /\ L + S <= MaxBatch
      /\ nGroups' = nGroups + S
      /\ batches' = batches \o [k \in 1 .. S |-> batch(k)]
      /\ queue' = queue \o [k \in 1 .. S |-> entry(k)]
  BY <1>3 DEF S, SendPackets
<1>9. \A k \in 1 .. S : batch(k) \in BatchType /\ entry(k) \in EntryType
  <2> SUFFICES ASSUME NEW k \in 1 .. S
               PROVE  batch(k) \in BatchType /\ entry(k) \in EntryType
    OBVIOUS
  <2>1. Members(k) \in SUBSET Packet
    BY <1>7
  <2>2. FecNum(k) \in 0 .. MaxFec
    OBVIOUS
  <2>3. nGroups + k \in Group /\ L + k \in Batch
    BY <1>4, <1>5, <1>6, <1>7, <1>8 DEF Group, Batch
  <2>4. 1 .. FecNum(k) \in SUBSET Fec
    BY <2>2 DEF Fec
  <2> QED
    BY <1>4, <2>1, <2>2, <2>3, <2>4 DEF BatchType, EntryType
<1>10. /\ batches' \in Seq(BatchType)
       /\ Len(batches') = L + S /\ DOMAIN batches' = 1 .. L + S
       /\ \A b \in 1 .. L : batches'[b] = batches[b]
       /\ \A k \in 1 .. S : batches'[L + k] = batch(k)
  <2> DEFINE bs == [k \in 1 .. S |-> batch(k)]
  <2>1. bs \in [1 .. S -> BatchType] /\ \A k \in 1 .. S : bs[k] = batch(k)
    BY <1>9
  <2>2. batches' = batches \o bs /\ S \in Nat
    BY <1>6, <1>8
  <2> HIDE DEF bs, batch
  <2>5. bs \in [1 .. S -> BatchType]
    BY <2>1
  <2>3. batches \in Seq(BatchType)
    BY <1>4
  <2>4. batches' \in Seq(BatchType) /\ IsAppended(batches', batches, S, bs)
    BY <2>2, <2>3, <2>5, AppendedTo, Zenon
  <2> QED
    BY <2>1, <2>4 DEF IsAppended
<1>11. /\ queue' \in Seq(EntryType)
       /\ Len(queue') = Len(queue) + S
       /\ \A i \in 1 .. Len(queue) : queue'[i] = queue[i]
       /\ \A k \in 1 .. S : queue'[Len(queue) + k] = entry(k)
  <2> DEFINE es == [k \in 1 .. S |-> entry(k)]
  <2>1. es \in [1 .. S -> EntryType] /\ \A k \in 1 .. S : es[k] = entry(k)
    BY <1>9
  <2>2. queue' = queue \o es /\ S \in Nat
    BY <1>6, <1>8
  <2> HIDE DEF es, entry
  <2>5. es \in [1 .. S -> EntryType]
    BY <2>1
  <2>3. queue \in Seq(EntryType)
    BY <1>4
  <2>4. queue' \in Seq(EntryType) /\ IsAppended(queue', queue, S, es)
    BY <2>2, <2>3, <2>5, AppendedTo, Zenon
  <2> QED
    BY <2>1, <2>4 DEF IsAppended
<1>12. /\ \A p \in fresh : /\ groupOf'[p] = nGroups + Share(p - c, s)
                           /\ batchOf'[p] = L + Share(p - c, s)
                           /\ encode'[p] = now
       /\ \A p \in Packet \ fresh : /\ groupOf'[p] = groupOf[p]
                                    /\ batchOf'[p] = batchOf[p]
                                    /\ encode'[p] = encode[p]
  BY <1>2, <1>3, <1>7 DEF SendPackets
<1>13. /\ groupOf' \in [Packet -> Group \union {0}]
       /\ encode' \in [Packet -> Time]
       /\ batchOf' \in [Packet -> Batch \union {0}]
  <2>1. \A x \in 1 .. S : nGroups + x \in Group /\ L + x \in Batch
    BY <1>4, <1>5, <1>6, <1>7, <1>8 DEF Group, Batch
  <2>2. \A p \in fresh : nGroups + Share(p - c, s) \in Group /\ L + Share(p - c, s) \in Batch
    BY <1>6, <2>1
  <2> QED
    BY <1>2, <1>3, <1>4, <2>2 DEF SendPackets
<1>14. Created' = 1 .. c + n
  <2>1. \A p \in Packet \ fresh : groupOf'[p] # 0 <=> p \in 1 .. c
    <3>1. \A p \in Packet : groupOf[p] # 0 <=> p \in 1 .. c
      BY <1>2 DEF Created
    <3> QED
      BY <1>12, <3>1
  <2>2. \A p \in fresh : groupOf'[p] # 0
    <3> SUFFICES ASSUME NEW p \in fresh PROVE groupOf'[p] # 0
      OBVIOUS
    <3>1. PICK x \in 1 .. S : groupOf'[p] = nGroups + x
      BY <1>6, <1>12
    <3> QED
      BY <1>4, <1>6, <3>1
  <2>3. \A p \in Packet : p \in 1 .. c + n <=> p \in 1 .. c \/ p \in fresh
    BY DEF Packet
  <2>4. 1 .. c + n \subseteq Packet
    BY <1>7 DEF Packet
  <2> QED
    BY <2>1, <2>2, <2>3, <2>4 DEF Created
<1>15. \A p \in fresh : p \in batches'[batchOf'[p]].members
  <2> SUFFICES ASSUME NEW p \in fresh PROVE p \in batches'[batchOf'[p]].members
    OBVIOUS
  <2>1. PICK x \in 1 .. S : x = Share(p - c, s) /\ batchOf'[p] = L + x
    BY <1>6, <1>12
  <2>2. batches'[L + x] = batch(x)
    BY <1>10, <2>1
  <2> QED
    BY <2>1, <2>2
<1>16. \A b \in DOMAIN batches' \ DOMAIN batches :
         /\ batches'[b].group \in nGroups + 1 .. nGroups'
         /\ batches'[b].members \subseteq {p \in Packet : groupOf'[p] = batches'[b].group}
         /\ batches'[b].members # {} /\ batches'[b].members \subseteq fresh
         /\ batches'[b].at = now
  <2> SUFFICES ASSUME NEW b \in DOMAIN batches' \ DOMAIN batches
               PROVE  /\ batches'[b].group \in nGroups + 1 .. nGroups'
                      /\ batches'[b].members \subseteq {p \in Packet : groupOf'[p] = batches'[b].group}
                      /\ batches'[b].members # {} /\ batches'[b].members \subseteq fresh
                      /\ batches'[b].at = now
    OBVIOUS
  <2>1. PICK k \in 1 .. S : b = L + k
    <3>1. b - L \in 1 .. S /\ b = L + (b - L)
      BY <1>4, <1>6, <1>10
    <3> QED
      BY <3>1
  <2>2. batches'[b] = batch(k)
    BY <1>10, <2>1
  <2>3. Members(k) \subseteq {p \in Packet : groupOf'[p] = nGroups + k}
    BY <1>7, <1>12
  <2>4. nGroups + k \in nGroups + 1 .. nGroups'
    BY <1>4, <1>6, <1>8
  <2>5. Members(k) # {}
    <3>1. PICK i \in 1 .. n : Share(i, s) = k
      BY <2>1, ShareOnto DEF S
    <3>2. c + i \in fresh /\ (c + i) - c = i
      OBVIOUS
    <3>3. c + i \in Members(k)
      BY <3>1, <3>2
    <3> QED
      BY <3>3
  <2> QED
    BY <2>2, <2>3, <2>4, <2>5
<1>17. \A i \in DOMAIN queue' :
         \/ \E j \in DOMAIN queue : queue'[i] = queue[j]
         \/ queue'[i].batch \in DOMAIN batches' /\ queue'[i].data \subseteq fresh
  <2> SUFFICES ASSUME NEW i \in 1 .. Len(queue) + S
               PROVE  \/ \E j \in DOMAIN queue : queue'[i] = queue[j]
                      \/ queue'[i].batch \in DOMAIN batches' /\ queue'[i].data \subseteq fresh
    BY <1>11
  <2>1. CASE i \in 1 .. Len(queue)
    BY <1>4, <1>11, <2>1
  <2>2. CASE i \notin 1 .. Len(queue)
    <3>1. i - Len(queue) \in 1 .. S /\ i = Len(queue) + (i - Len(queue))
      BY <1>4, <1>6, <2>2
    <3>2. queue'[i] = entry(i - Len(queue))
      BY <1>11, <3>1
    <3>3. L + (i - Len(queue)) \in 1 .. L + S
      BY <1>4, <1>6, <3>1
    <3> QED
      BY <1>10, <3>2, <3>3
  <2> QED
    BY <2>1, <2>2
<1>18. FrameMade(c, n)
  <2>2. \A p \in fresh : /\ groupOf'[p] \in nGroups + 1 .. nGroups'
                         /\ batchOf'[p] \in L + 1 .. Len(batches')
                         /\ batchOf'[p] \in DOMAIN batches'
    <3> SUFFICES ASSUME NEW p \in fresh
                 PROVE  /\ groupOf'[p] \in nGroups + 1 .. nGroups + S
                        /\ batchOf'[p] \in L + 1 .. L + S
                        /\ batchOf'[p] \in 1 .. L + S
      BY <1>8, <1>10
    <3>1. PICK x \in 1 .. S : groupOf'[p] = nGroups + x /\ batchOf'[p] = L + x
      BY <1>6, <1>12
    <3> QED
      BY <1>4, <1>6, <3>1
  <2>3. nGroups' \in nGroups + 1 .. nGroups + n
    BY <1>4, <1>6, <1>8
  <2>4. DOMAIN batches \subseteq DOMAIN batches' /\ Len(batches') <= MaxBatch
    BY <1>4, <1>6, <1>8, <1>10
  <2>5. keys' = keys \o [i \in 1 .. n |-> c + i] /\ history' = history \union fresh
    BY <1>3 DEF StoredKeys, SendPackets
  <2> QED
    BY <1>2, <1>4, <1>10, <1>11, <1>12, <1>13, <1>14, <1>15, <1>16, <1>17, <2>2, <2>3, <2>4, <2>5
    DEF FrameMade
<1> QED
  BY <1>18, <1>7

\* A frame is divided, stored and queued.
LEMMA CreateFrameIInv ==
  ASSUME IInv, CreateFrame
  PROVE  IInv'
<1> USE TransportAssumption
<1>1. PICK c \in 0 .. MaxPkt, n \in 0 .. MaxPkt : FrameMade(c, n)
  BY FrameLemma
<1> DEFINE fresh == c + 1 .. c + n
<1> DEFINE L == Len(batches)
<1>u. UNCHANGED <<now, sent, link, acks, incomplete, grp, complete, timeout, decoded>>
  BY DEF CreateFrame, receiver
<1>c. /\ c \in 0 .. MaxPkt - 1 /\ n \in 1 .. MaxPkt - c
      /\ Created = 1 .. c /\ Created' = 1 .. c + n
  BY <1>1 DEF FrameMade
<1>2. \A p \in Created' : p \in Created \/ p \in fresh
  BY <1>c
<1>k. /\ now \in Time /\ now \in Nat
      /\ groupOf \in [Packet -> Group \union {0}]
      /\ encode \in [Packet -> Time]
      /\ nGroups \in Nat
      /\ batches \in Seq(BatchType) /\ L \in Nat /\ DOMAIN batches = 1 .. L
  BY DEF IInv, TypeOK, Group, Time
<1>t. /\ groupOf' \in [Packet -> Group \union {0}]
      /\ encode' \in [Packet -> Time]
      /\ batchOf' \in [Packet -> Batch \union {0}]
      /\ batches' \in Seq(BatchType) /\ queue' \in Seq(EntryType)
      /\ Len(batches') <= MaxBatch
  BY <1>1 DEF FrameMade
<1>o. \A p \in Packet \ fresh :
        groupOf'[p] = groupOf[p] /\ encode'[p] = encode[p] /\ batchOf'[p] = batchOf[p]
  BY <1>1 DEF FrameMade
<1>n. \A p \in fresh :
        /\ encode'[p] = now
        /\ groupOf'[p] \in nGroups + 1 .. nGroups'
        /\ batchOf'[p] \in L + 1 .. Len(batches')
        /\ batchOf'[p] \in DOMAIN batches' /\ p \in batches'[batchOf'[p]].members
  BY <1>1 DEF FrameMade
<1>g. nGroups' \in nGroups + 1 .. nGroups + n
  BY <1>1 DEF FrameMade
<1>b. /\ DOMAIN batches \subseteq DOMAIN batches'
      /\ \A b \in DOMAIN batches : batches'[b] = batches[b]
  BY <1>1 DEF FrameMade
<1>d. \A p \in Created : p \in Packet \ fresh
  BY <1>c DEF Created
<1>3. \A p \in Packet : groupOf[p] \in Nat /\ encode[p] \in Nat
  BY <1>k DEF Group, Time
<1>4. nGroups <= c
  <2>1. PICK d \in 0 .. MaxPkt : Created = 1 .. d /\ nGroups <= d
    BY DEF IInv, Objects
  <2>2. d = c
    <3>1. 1 .. d = 1 .. c
      BY <1>c, <2>1
    <3> QED
      BY <1>c, <3>1
  <2> QED
    BY <2>1, <2>2
<1>5. \A p \in Created : groupOf[p] \in 1 .. nGroups
  BY <1>k, <1>3 DEF IInv, Objects, Created
<1>6. \A g \in 1 .. nGroups : PktsOf(g)' = PktsOf(g)
  <2> SUFFICES ASSUME NEW g \in 1 .. nGroups, NEW p \in Packet
               PROVE  groupOf'[p] = g <=> groupOf[p] = g
    BY DEF PktsOf
  <2>1. CASE p \notin fresh
    BY <1>o, <2>1
  <2>2. CASE p \in fresh
    <3>1. groupOf'[p] > nGroups
      BY <1>k, <1>g, <1>n, <2>2
    <3>2. groupOf[p] = 0
      <4>1. p \notin 1 .. c
        BY <1>c, <2>2
      <4> QED
        BY <1>c, <4>1 DEF Created
    <3> QED
      BY <1>k, <3>1, <3>2
  <2> QED
    BY <2>1, <2>2
<1>11. \A g \in 1 .. nGroups : \A p \in PktsOf(g) : encode'[p] = encode[p]
  <2> SUFFICES ASSUME NEW g \in 1 .. nGroups, NEW p \in PktsOf(g)
               PROVE  encode'[p] = encode[p]
    OBVIOUS
  <2>1. p \in Created
    BY DEF PktsOf, Created
  <2> QED
    BY <1>o, <1>d, <2>1
<1>7. TypeOK'
  <2>1. keys' \in Seq(Packet)
    <3> DEFINE new == [i \in 1 .. n |-> c + i]
    <3>1. new \in [1 .. n -> Packet]
      BY <1>c DEF Packet
    <3>2. keys' = keys \o new /\ keys \in Seq(Packet) /\ n \in Nat
      BY <1>1, <1>c DEF IInv, TypeOK, FrameMade
    <3> HIDE DEF new
    <3> QED
      BY <3>1, <3>2, AppendedTo, Zenon
  <2>2. history' \subseteq Packet
    <3>1. history' = history \union fresh /\ history \subseteq Packet
      BY <1>1 DEF IInv, TypeOK, FrameMade
    <3>2. fresh \subseteq Packet
      BY <1>c DEF Packet
    <3> QED
      BY <3>1, <3>2
  <2>3. nGroups' \in Group \union {0}
    BY <1>c, <1>k, <1>g, <1>4 DEF Group
  <2>4. /\ now \in Time /\ sent \in [Packet -> Time]
        /\ link \subseteq MessageType /\ acks \subseteq SUBSET Packet
        /\ incomplete \subseteq Group /\ complete \subseteq Group /\ timeout \subseteq Group
        /\ grp \in [Group -> GroupObject] /\ decoded \subseteq Packet
    BY DEF IInv, TypeOK
  <2> QED
    BY <1>t, <1>u, <2>1, <2>2, <2>3, <2>4 DEF TypeOK
<1>8. Objects'
  <2>1. \E d \in 0 .. MaxPkt : Created' = 1 .. d /\ nGroups' <= d
    <3>1. nGroups' <= c + n /\ c + n \in 0 .. MaxPkt
      BY <1>c, <1>g, <1>k, <1>4
    <3> QED
      BY <1>c, <3>1
  <2>2. \A p \in Packet : batchOf'[p] = 0 <=> groupOf'[p] = 0
    <3> SUFFICES ASSUME NEW p \in Packet PROVE batchOf'[p] = 0 <=> groupOf'[p] = 0
      OBVIOUS
    <3>1. CASE p \notin fresh
      BY <1>o, <3>1 DEF IInv, Objects
    <3>2. CASE p \in fresh
      BY <1>n, <1>g, <1>k, <3>2
    <3> QED
      BY <3>1, <3>2
  <2>3. \A p \in Created' :
          /\ groupOf'[p] <= nGroups' /\ batchOf'[p] \in DOMAIN batches'
          /\ p \in batches'[batchOf'[p]].members /\ encode'[p] <= now'
    <3> SUFFICES ASSUME NEW p \in Created'
                 PROVE  /\ groupOf'[p] <= nGroups' /\ batchOf'[p] \in DOMAIN batches'
                        /\ p \in batches'[batchOf'[p]].members /\ encode'[p] <= now
      BY <1>u
    <3>1. CASE p \in Created
      <4>1. /\ groupOf[p] <= nGroups /\ batchOf[p] \in DOMAIN batches
            /\ p \in batches[batchOf[p]].members /\ encode[p] <= now
        BY <3>1 DEF IInv, Objects
      <4> QED
        BY <1>o, <1>d, <1>b, <1>g, <1>k, <1>5, <3>1, <4>1
    <3>2. CASE p \in fresh
      BY <1>n, <1>g, <1>k, <3>2, SMTT(30)
    <3> QED
      BY <1>2, <3>1, <3>2
  <2>4. \A p, q \in Created' :
          /\ p <= q => encode'[p] <= encode'[q]
          /\ groupOf'[p] = groupOf'[q] => encode'[p] = encode'[q]
    <3> SUFFICES ASSUME NEW p \in Created', NEW q \in Created'
                 PROVE  /\ p <= q => encode'[p] <= encode'[q]
                        /\ groupOf'[p] = groupOf'[q] => encode'[p] = encode'[q]
      OBVIOUS
    <3>1. \A x \in Created : /\ encode'[x] = encode[x] /\ encode[x] <= now
                             /\ groupOf'[x] = groupOf[x] /\ groupOf[x] \in 1 .. nGroups
                             /\ x \in 1 .. c
      BY <1>c, <1>o, <1>d, <1>5 DEF IInv, Objects
    <3>2. \A x \in fresh : /\ encode'[x] = now /\ groupOf'[x] \in nGroups + 1 .. nGroups'
      BY <1>n
    <3>3. CASE p \in Created /\ q \in Created
      BY <3>1, <3>3 DEF IInv, Objects
    <3>4. CASE p \in Created /\ q \in fresh
      BY <1>k, <1>g, <3>1, <3>2, <3>4
    <3>5. CASE p \in fresh /\ q \in Created
      <4>1. p > q /\ groupOf'[p] # groupOf'[q]
        BY <1>k, <1>g, <1>c, <3>1, <3>2, <3>5
      <4> QED
        BY <1>c, <3>1, <3>5, <4>1
    <3>6. CASE p \in fresh /\ q \in fresh
      BY <1>k, <3>2, <3>6
    <3> QED
      BY <1>2, <3>3, <3>4, <3>5, <3>6
  <2> QED
    BY <2>1, <2>2, <2>3, <2>4 DEF Objects
<1>9. BatchesOk'
  <2> SUFFICES ASSUME NEW b \in DOMAIN batches'
               PROVE  /\ batches'[b].group \in 1 .. nGroups'
                      /\ batches'[b].members \subseteq PktsOf(batches[b].group)'
                      /\ \A p \in PktsOf(batches[b].group)' : encode'[p] <= batches'[b].at
    BY DEF BatchesOk
  <2>1. CASE b \in DOMAIN batches
    <3>1. batches'[b] = batches[b]
      BY <1>b, <2>1
    <3>2. /\ batches[b].group \in 1 .. nGroups
          /\ batches[b].members \subseteq PktsOf(batches[b].group)
          /\ \A p \in PktsOf(batches[b].group) : encode[p] <= batches[b].at
      BY <2>1 DEF IInv, BatchesOk
    <3>3. PktsOf(batches[b].group)' = PktsOf(batches[b].group)
      BY <1>6, <3>1, <3>2 DEF PktsOf
    <3>4. \A p \in PktsOf(batches[b].group) : encode'[p] <= batches[b].at
      BY <1>11, <3>2
    <3>5. batches[b].group \in 1 .. nGroups'
      BY <1>g, <1>k, <3>2
    <3> QED
      BY <3>1, <3>2, <3>3, <3>4, <3>5
  <2>2. CASE b \notin DOMAIN batches
    <3>1. /\ batches'[b].group \in nGroups + 1 .. nGroups'
          /\ batches'[b].members \subseteq PktsOf(batches[b].group)'
          /\ batches'[b].at = now
      BY <1>1, <2>2 DEF FrameMade, PktsOf
    <3>2. \A p \in PktsOf(batches[b].group)' : encode'[p] <= now
      <4>1. PktsOf(batches[b].group)' \subseteq Created'
        BY <1>g, <1>k, <3>1 DEF PktsOf, Created
      <4> QED
        BY <1>u, <1>8, <4>1 DEF Objects
    <3> QED
      BY <1>g, <1>k, <3>1, <3>2
  <2> QED
    BY <2>1, <2>2
<1>10. InTransit'
  <2>1. \A i \in DOMAIN queue' : queue'[i].batch \in DOMAIN batches' /\ queue'[i].data \subseteq Created'
    BY <1>1, <1>2, <1>c, <1>b, <1>u DEF FrameMade, IInv, InTransit
  <2>2. \A m \in link' : m.batch \in DOMAIN batches' /\ m.data \subseteq batches'[m.batch].members
    BY <1>1, <1>2, <1>c, <1>b, <1>u DEF FrameMade, IInv, InTransit
  <2>3. (\A a \in acks' : a \subseteq decoded') /\ decoded' \subseteq Created'
    BY <1>c, <1>u DEF IInv, InTransit
  <2> QED
    BY <2>1, <2>2, <2>3 DEF InTransit
<1>12. GroupsOk'
  <2>1. incomplete' \subseteq 1 .. nGroups' /\ complete' \subseteq 1 .. nGroups' /\ timeout' \subseteq 1 .. nGroups'
    BY <1>g, <1>k, <1>u DEF IInv, GroupsOk
  <2>2. \A g \in incomplete' : GroupOk(g, grp[g], decoded)'
    <3> SUFFICES ASSUME NEW g \in incomplete PROVE GroupOk(g, grp[g], decoded)'
      BY <1>u
    <3>1. g \in 1 .. nGroups /\ GroupOk(g, grp[g], decoded)
      BY DEF IInv, GroupsOk
    <3>2. PktsOf(g)' = PktsOf(g)
      BY <1>6, <3>1
    <3> QED
      BY <1>b, <1>u, <1>11, <3>1, <3>2 DEF GroupOk
  <2>3. \A g \in complete' : PktsOf(g)' \subseteq decoded'
    BY <1>u, <1>6 DEF IInv, GroupsOk
  <2> QED
    BY <2>1, <2>2, <2>3 DEF GroupsOk
<1>13. KeysOk'
  <2> DEFINE new == [i \in 1 .. n |-> c + i]
  <2>1. /\ new \in [1 .. n -> Packet] /\ \A i \in 1 .. n : new[i] = c + i
        /\ n \in Nat /\ keys' = keys \o new /\ keys \in Seq(Packet)
    BY <1>1, <1>c DEF IInv, TypeOK, FrameMade, Packet
  <2> HIDE DEF new
  <2>2. /\ DOMAIN keys' = 1 .. Len(keys) + n
        /\ \A i \in 1 .. Len(keys) : keys'[i] = keys[i]
        /\ \A i \in 1 .. n : keys'[Len(keys) + i] = new[i]
    <3>1. IsAppended(keys', keys, n, new)
      BY <2>1, AppendedTo, Zenon
    <3> QED
      BY <3>1 DEF IsAppended
  <2>3. Len(keys) \in Nat /\ DOMAIN keys = 1 .. Len(keys)
    BY <2>1
  <2>4. \A i \in DOMAIN keys' : \/ i \in DOMAIN keys /\ keys'[i] = keys[i]
                                \/ i - Len(keys) \in 1 .. n /\ keys'[i] = c + (i - Len(keys))
    <3> SUFFICES ASSUME NEW i \in 1 .. Len(keys) + n, i \notin 1 .. Len(keys)
                 PROVE  i - Len(keys) \in 1 .. n /\ keys'[i] = c + (i - Len(keys))
      BY <2>2, <2>3
    <3>1. i - Len(keys) \in 1 .. n /\ i = Len(keys) + (i - Len(keys))
      BY <1>c, <2>3
    <3> QED
      BY <2>1, <2>2, <3>1
  <2>5. \A i \in DOMAIN keys : keys[i] \in 1 .. c
    BY <1>c DEF IInv, KeysOk
  <2>6. \A i, j \in DOMAIN keys' : i < j => keys'[i] < keys'[j]
    <3> SUFFICES ASSUME NEW i \in DOMAIN keys', NEW j \in DOMAIN keys', i < j
                 PROVE  keys'[i] < keys'[j]
      OBVIOUS
    <3>1. CASE i \in DOMAIN keys /\ j \in DOMAIN keys
      BY <2>2, <2>3, <3>1 DEF IInv, KeysOk
    <3>2. CASE i \in DOMAIN keys /\ j \notin DOMAIN keys
      <4>1. keys'[i] = keys[i] /\ keys[i] \in 1 .. c
        BY <2>2, <2>3, <2>5, <3>2
      <4>2. keys'[j] = c + (j - Len(keys)) /\ j - Len(keys) \in 1 .. n
        BY <2>4, <3>2
      <4> QED
        BY <1>c, <2>3, <4>1, <4>2
    <3>3. CASE i \notin DOMAIN keys
      <4>1. j \notin DOMAIN keys
        BY <2>2, <2>3, <3>3
      <4>2. keys'[j] = c + (j - Len(keys)) /\ keys'[i] = c + (i - Len(keys))
        BY <2>4, <3>3, <4>1
      <4> QED
        BY <1>c, <2>2, <2>3, <4>2
    <3> QED
      BY <3>1, <3>2, <3>3
  <2>7. \A i \in DOMAIN keys' : keys'[i] \in Created'
    <3> SUFFICES ASSUME NEW i \in DOMAIN keys' PROVE keys'[i] \in 1 .. c + n
      BY <1>c
    <3>1. CASE i \in DOMAIN keys /\ keys'[i] = keys[i]
      BY <1>c, <2>5, <3>1
    <3>2. CASE i - Len(keys) \in 1 .. n /\ keys'[i] = c + (i - Len(keys))
      BY <1>c, <3>2
    <3> QED
      BY <2>4, <3>1, <3>2
  <2>8. \A p \in history' : \E i \in DOMAIN keys' : keys'[i] = p
    <3> SUFFICES ASSUME NEW p \in history' PROVE \E i \in DOMAIN keys' : keys'[i] = p
      OBVIOUS
    <3>1. CASE p \in history
      <4>1. PICK i \in DOMAIN keys : keys[i] = p
        BY <3>1 DEF IInv, KeysOk
      <4> QED
        BY <2>1, <2>2, <2>3, <4>1
    <3>2. CASE p \in fresh
      <4>1. p - c \in 1 .. n /\ new[p - c] = p
        BY <1>c, <2>1, <3>2
      <4>2. Len(keys) + (p - c) \in 1 .. Len(keys) + n
        BY <1>c, <2>1, <2>3, <4>1
      <4> QED
        BY <2>2, <4>1, <4>2
    <3> QED
      BY <1>1, <3>1, <3>2 DEF FrameMade
  <2> QED
    BY <2>6, <2>7, <2>8 DEF KeysOk
<1>14. NeverForgotten'
  <2> SUFFICES ASSUME NEW p \in Created'
               PROVE  p \in history' \/ p \in decoded' \/ MissesDdl(p, now)'
    BY DEF NeverForgotten
  <2>1. CASE p \in Created
    <3>1. encode'[p] = encode[p] /\ history \subseteq history'
      BY <1>1, <1>o, <1>d, <2>1 DEF FrameMade
    <3> QED
      BY <1>u, <2>1, <3>1 DEF IInv, NeverForgotten, MissesDdl
  <2>2. CASE p \in fresh
    BY <1>1, <2>2 DEF FrameMade
  <2> QED
    BY <1>2, <2>1, <2>2
<1>15. TimeoutIsLate'
  <2> SUFFICES ASSUME NEW g \in timeout, NEW p \in PktsOf(g)' PROVE MissesDdl(p, now)'
    BY <1>u DEF TimeoutIsLate
  <2>1. g \in 1 .. nGroups
    BY DEF IInv, GroupsOk
  <2>2. p \in PktsOf(g) /\ encode'[p] = encode[p]
    BY <1>6, <1>11, <2>1
  <2> QED
    BY <1>u, <2>2 DEF IInv, TimeoutIsLate, MissesDdl
<1> QED
  BY <1>7, <1>8, <1>9, <1>10, <1>12, <1>13, <1>14, <1>15 DEF IInv

\* The queue when an entry replaces its head.
LEMMA ShortenedLemma ==
  ASSUME queue \in Seq(EntryType), queue # <<>>, NEW e \in EntryType
  PROVE  /\ Shortened(e) \in Seq(EntryType)
         /\ \A i \in DOMAIN Shortened(e) :
              Shortened(e)[i] = e \/ \E j \in DOMAIN queue : Shortened(e)[i] = queue[j]
<1>1. /\ Tail(queue) \in Seq(EntryType)
      /\ Len(Tail(queue)) = Len(queue) - 1 /\ Len(queue) \in Nat \ {0}
      /\ \A i \in 1 .. Len(Tail(queue)) : Tail(queue)[i] = queue[i + 1]
  BY HeadTailProperties
<1>2. \A i \in DOMAIN Tail(queue) : \E j \in DOMAIN queue : Tail(queue)[i] = queue[j]
  BY <1>1
<1>3. /\ <<e>> \o Tail(queue) \in Seq(EntryType)
      /\ \A i \in DOMAIN (<<e>> \o Tail(queue)) :
           \/ (<<e>> \o Tail(queue))[i] = e
           \/ \E j \in DOMAIN Tail(queue) : (<<e>> \o Tail(queue))[i] = Tail(queue)[j]
  <2>1. <<e>> \in Seq(EntryType) /\ Len(<<e>>) = 1 /\ <<e>>[1] = e
    OBVIOUS
  <2>2. /\ <<e>> \o Tail(queue) \in Seq(EntryType)
        /\ Len(<<e>> \o Tail(queue)) = 1 + Len(Tail(queue))
        /\ \A i \in 1 .. 1 + Len(Tail(queue)) :
             (<<e>> \o Tail(queue))[i] = IF i <= 1 THEN <<e>>[i] ELSE Tail(queue)[i - 1]
    BY <1>1, <2>1, ConcatProperties
  <2>3. \A i \in 1 .. 1 + Len(Tail(queue)) : i = 1 \/ i - 1 \in DOMAIN Tail(queue)
    BY <1>1
  <2>4. DOMAIN (<<e>> \o Tail(queue)) = 1 .. 1 + Len(Tail(queue))
    BY <2>2
  <2> QED
    BY <1>1, <2>1, <2>2, <2>3, <2>4
<1>4. CASE e.data = {} /\ e.fec = {}
  BY <1>1, <1>2, <1>4 DEF Shortened
<1>5. CASE ~ (e.data = {} /\ e.fec = {})
  <2>1. Shortened(e) = <<e>> \o Tail(queue)
    BY <1>5 DEF Shortened
  <2> HIDE DEF Shortened
  <2> QED
    BY <1>2, <1>3, <2>1
<1> QED
  BY <1>4, <1>5

\* One packet more is on its way.
LEMMA PutOnLinkLemma ==
  ASSUME NEW b \in Batch, NEW d \in SUBSET Packet, NEW k \in SUBSET Fec,
         link \subseteq MessageType, PutOnLink(b, d, k)
  PROVE  /\ link' \subseteq MessageType
         /\ \A m \in link' : m \in link \/ (m.batch = b /\ m.data = d)
<1>1. PICK i \in 0 .. MaxBatch :
        link' = link \union {[batch |-> b, data |-> d, fec |-> k, copy |-> i]}
  BY DEF PutOnLink
<1>2. [batch |-> b, data |-> d, fec |-> k, copy |-> i] \in MessageType
  BY DEF MessageType
<1> QED
  BY <1>1, <1>2

\* A packet goes out.
LEMMA SendPacketIInv ==
  ASSUME IInv, SendPacket
  PROVE  IInv'
<1> USE TransportAssumption
<1> DEFINE e == Head(queue)
<1>1. /\ queue # <<>> /\ queue \in Seq(EntryType) /\ e \in EntryType
      /\ 1 \in DOMAIN queue /\ e = queue[1]
      /\ link \subseteq MessageType /\ now \in Time
      /\ batchOf \in [Packet -> Batch \union {0}] /\ sent \in [Packet -> Time]
      /\ batches \in Seq(BatchType) /\ Len(batches) <= MaxBatch
  BY HeadTailProperties DEF SendPacket, IInv, TypeOK
<1>2. e.batch \in DOMAIN batches /\ e.data \subseteq Created
  BY <1>1 DEF IInv, InTransit
<1>3. UNCHANGED <<now, groupOf, encode, batchOf, nGroups, batches, history, keys, acks,
                  incomplete, grp, complete, timeout, decoded>>
  BY DEF SendPacket, receiver
<1>4. /\ link' \subseteq MessageType
      /\ \A m \in link' : m.batch \in DOMAIN batches /\ m.data \subseteq batches[m.batch].members
      /\ sent' \in [Packet -> Time]
      /\ \E x \in EntryType : /\ x.batch = e.batch /\ x.data \subseteq e.data
                              /\ queue' = Shortened(x)
  <2>1. ASSUME NEW p \in e.data, PutOnLink(batchOf[p], {p}, {}),
               sent' = [sent EXCEPT ![p] = now],
               queue' = Shortened([e EXCEPT !.data = @ \ {p}])
        PROVE  <1>4!:
    <3>1. p \in Created /\ p \in Packet
      BY <1>2 DEF Created
    <3>2. batchOf[p] \in DOMAIN batches /\ p \in batches[batchOf[p]].members
      BY <3>1 DEF IInv, Objects
    <3>3. batchOf[p] \in Batch
      BY <1>1, <3>2 DEF Batch
    <3>4. /\ link' \subseteq MessageType
          /\ \A m \in link' : m \in link \/ (m.batch = batchOf[p] /\ m.data = {p})
      <4>1. {p} \in SUBSET Packet /\ {} \in SUBSET Fec
        BY <3>1
      <4> QED
        BY <1>1, <2>1, <3>3, <4>1, PutOnLinkLemma
    <3>5. \A m \in link' : m.batch \in DOMAIN batches /\ m.data \subseteq batches[m.batch].members
      BY <3>2, <3>4 DEF IInv, InTransit
    <3>6. /\ [e EXCEPT !.data = @ \ {p}] \in EntryType
          /\ [e EXCEPT !.data = @ \ {p}].batch = e.batch
          /\ [e EXCEPT !.data = @ \ {p}].data \subseteq e.data
      BY <1>1 DEF EntryType
    <3> QED
      BY <1>1, <2>1, <3>1, <3>4, <3>5, <3>6
  <2>2. ASSUME NEW k \in e.fec, PutOnLink(e.batch, {}, {k}),
               queue' = Shortened([e EXCEPT !.fec = @ \ {k}]), UNCHANGED sent
        PROVE  <1>4!:
    <3>1. e.batch \in Batch /\ k \in Fec
      BY <1>1 DEF EntryType
    <3>2. /\ link' \subseteq MessageType
          /\ \A m \in link' : m \in link \/ (m.batch = e.batch /\ m.data = {})
      <4>1. {k} \in SUBSET Fec /\ {} \in SUBSET Packet
        BY <3>1
      <4> QED
        BY <1>1, <2>2, <3>1, <4>1, PutOnLinkLemma
    <3>3. \A m \in link' : m.batch \in DOMAIN batches /\ m.data \subseteq batches[m.batch].members
      BY <1>2, <3>2 DEF IInv, InTransit
    <3>4. /\ [e EXCEPT !.fec = @ \ {k}] \in EntryType
          /\ [e EXCEPT !.fec = @ \ {k}].batch = e.batch
          /\ [e EXCEPT !.fec = @ \ {k}].data \subseteq e.data
      BY <1>1 DEF EntryType
    <3> QED
      BY <1>1, <2>2, <3>2, <3>3, <3>4
  <2> QED
    BY <2>1, <2>2 DEF SendPacket
<1>5. /\ queue' \in Seq(EntryType)
      /\ \A i \in DOMAIN queue' : queue'[i].batch \in DOMAIN batches /\ queue'[i].data \subseteq Created
  <2>1. PICK x \in EntryType : x.batch = e.batch /\ x.data \subseteq e.data /\ queue' = Shortened(x)
    BY <1>4
  <2>2. /\ Shortened(x) \in Seq(EntryType)
        /\ \A i \in DOMAIN Shortened(x) :
             Shortened(x)[i] = x \/ \E j \in DOMAIN queue : Shortened(x)[i] = queue[j]
    BY <1>1, ShortenedLemma
  <2> QED
    BY <1>2, <2>1, <2>2 DEF IInv, InTransit
<1>6. Created' = Created /\ \A g : PktsOf(g)' = PktsOf(g)
  BY <1>3 DEF Created, PktsOf
<1>7. TypeOK'
  BY <1>3, <1>4, <1>5 DEF IInv, TypeOK
<1>8. Objects'
  BY <1>3, <1>6 DEF IInv, Objects
<1>9. BatchesOk'
  BY <1>3 DEF IInv, BatchesOk, PktsOf
<1>10. InTransit'
  BY <1>3, <1>4, <1>5, <1>6 DEF IInv, InTransit
<1>11. GroupsOk'
  BY <1>3 DEF IInv, GroupsOk, GroupOk, PktsOf
<1>12. KeysOk'
  BY <1>3, <1>6 DEF IInv, KeysOk
<1>13. NeverForgotten' /\ TimeoutIsLate'
  BY <1>3 DEF IInv, NeverForgotten, TimeoutIsLate, MissesDdl, Created, PktsOf
<1> QED
  BY <1>7, <1>8, <1>9, <1>10, <1>11, <1>12, <1>13 DEF IInv

\* An acknowledgement comes.
LEMMA RcvACKPacketIInv ==
  ASSUME IInv, RcvACKPacket
  PROVE  IInv'
<1>1. PICK a \in acks : acks' = acks \ {a} /\ history' = history \ a
  BY DEF RcvACKPacket
<1>2. UNCHANGED <<now, groupOf, encode, batchOf, sent, nGroups, batches, keys, queue, link,
                  incomplete, grp, complete, timeout, decoded>>
  BY DEF RcvACKPacket, receiver, objects
<1>3. Created' = Created
  BY <1>2 DEF Created
<1>4. TypeOK'
  BY <1>1, <1>2 DEF IInv, TypeOK
<1>5. Objects'
  BY <1>2, <1>3 DEF IInv, Objects
<1>6. BatchesOk' /\ GroupsOk'
  BY <1>2 DEF IInv, BatchesOk, GroupsOk, GroupOk, PktsOf
<1>7. InTransit'
  BY <1>1, <1>2, <1>3 DEF IInv, InTransit
<1>8. KeysOk'
  BY <1>1, <1>2, <1>3 DEF IInv, KeysOk
<1>9. NeverForgotten'
  BY <1>1, <1>2, <1>3 DEF IInv, InTransit, NeverForgotten, MissesDdl
<1>10. TimeoutIsLate'
  BY <1>2 DEF IInv, TimeoutIsLate, MissesDdl, PktsOf
<1> QED
  BY <1>4, <1>5, <1>6, <1>7, <1>8, <1>9, <1>10 DEF IInv

\* A step that changes nothing.
LEMMA StutterIInv ==
  ASSUME IInv, UNCHANGED vars
  PROVE  IInv'
<1>1. UNCHANGED <<now, groupOf, encode, batchOf, sent, nGroups, batches, history, keys, queue,
                  link, acks, incomplete, grp, complete, timeout, decoded>>
  BY DEF vars, sender, receiver, objects
<1>2. TypeOK' /\ Objects' /\ BatchesOk'
  BY <1>1 DEF IInv, TypeOK, Objects, BatchesOk, Created, PktsOf
<1>3. InTransit' /\ GroupsOk' /\ KeysOk'
  BY <1>1 DEF IInv, InTransit, GroupsOk, GroupOk, KeysOk, Created, PktsOf
<1>4. NeverForgotten' /\ TimeoutIsLate'
  BY <1>1 DEF IInv, NeverForgotten, TimeoutIsLate, MissesDdl, Created, PktsOf
<1> QED
  BY <1>2, <1>3, <1>4 DEF IInv

\* What a packet does to its group.
LEMMA AddPacketLemma ==
  ASSUME IInv, NEW m \in link
  PROVE  LET g == batches[m.batch].group
             members == batches[m.batch].members
             obj == AddPacket(Target(m), m, members, HeaderTime(m))
         IN  /\ g \in 1 .. nGroups /\ g \in Group
             /\ Returned(m) \subseteq PktsOf(g)
             /\ obj \in GroupObject
             /\ GroupOk(g, obj, decoded \union Returned(m))
<1> USE TransportAssumption
<1> DEFINE b == m.batch
           g == batches[b].group
           members == batches[b].members
           enc == HeaderTime(m)
           T == Target(m)
           new == Fresh(T, m, members)
           obj == AddPacket(T, m, members, enc)
<1>1. /\ m \in MessageType /\ m.data \subseteq members /\ b \in DOMAIN batches /\ b \in Batch
      /\ m.data \in SUBSET Packet /\ m.fec \in SUBSET Fec
  <2>1. m \in MessageType /\ b \in DOMAIN batches /\ m.data \subseteq members
    BY DEF IInv, TypeOK, InTransit
  <2> QED
    BY <2>1 DEF MessageType
<1>2. /\ g \in Group /\ members \in SUBSET Packet /\ batches[b].at \in Time
  <2>1. batches[b] \in BatchType
    BY <1>1 DEF IInv, TypeOK
  <2> QED
    BY <2>1 DEF BatchType
<1>3. /\ g \in 1 .. nGroups /\ members \subseteq PktsOf(g)
      /\ \A p \in PktsOf(g) : encode[p] <= batches[b].at
  BY <1>1 DEF IInv, BatchesOk
<1>4. PktsOf(g) \subseteq Created /\ \A p \in PktsOf(g) : encode[p] \in Time
  <2>1. encode \in [Packet -> Time]
    BY DEF IInv, TypeOK
  <2> QED
    BY <1>2, <2>1 DEF PktsOf, Created, Group
<1>5. enc \in Time /\ \A p \in PktsOf(g) : encode[p] <= enc
  <2>1. CASE m.data = {}
    BY <1>2, <1>3, <2>1 DEF HeaderTime
  <2>2. CASE m.data # {}
    <3>1. PICK q \in PktsOf(g) : enc = encode[q]
      BY <1>1, <1>3, <2>2 DEF HeaderTime
    <3>2. \A p \in PktsOf(g) : encode[p] = encode[q]
      BY <1>4, <3>1 DEF PktsOf, IInv, Objects
    <3> QED
      BY <1>4, <3>1, <3>2 DEF Time
  <2> QED
    BY <2>1, <2>2
<1> HIDE DEF enc
<1>6. T \in GroupObject /\ GroupOk(g, T, decoded)
  <2>1. CASE g \in incomplete
    BY <1>2, <2>1 DEF Target, IInv, TypeOK, GroupsOk
  <2>2. CASE g \notin incomplete
    <3>1. T = NewGroup(enc)
      BY <2>2 DEF Target, enc
    <3>2. NewGroup(enc) \in GroupObject
      BY <1>5 DEF NewGroup, GroupObject
    <3> QED
      BY <1>5, <3>1, <3>2 DEF GroupOk, NewGroup
  <2> QED
    BY <2>1, <2>2
<1> HIDE DEF T, b
<1>7. new \subseteq m.data \union members /\ new = Returned(m)
  BY DEF Fresh, Returned, T, b
<1>8. new \subseteq PktsOf(g) /\ new \in SUBSET Packet
  BY <1>1, <1>2, <1>3, <1>7
<1>9. /\ T.enc \in Time /\ T.decoded \in SUBSET Packet /\ T.done \in SUBSET Batch
      /\ T.data \in [Batch -> SUBSET Packet] /\ T.fec \in [Batch -> SUBSET Fec]
  BY <1>6 DEF GroupObject
<1>10. /\ Earliest(T.enc, enc) \in Time
       /\ \A p \in PktsOf(g) : encode[p] <= Earliest(T.enc, enc)
  <2>1. \A p \in PktsOf(g) : encode[p] <= T.enc
    BY <1>6 DEF GroupOk
  <2> QED
    BY <1>5, <1>9, <2>1 DEF Earliest
<1>11. /\ T.decoded \subseteq decoded \intersect PktsOf(g)
       /\ \A c \in T.done : c \in DOMAIN batches /\ batches[c].members \subseteq decoded
       /\ \A c \in Batch : T.data[c] \subseteq T.decoded
  BY <1>6 DEF GroupOk
<1>12. CASE Useless(T, m)
  <2>1. obj = [T EXCEPT !.enc = Earliest(T.enc, enc)]
    BY <1>12 DEF AddPacket
  <2>2. obj \in GroupObject
    BY <1>6, <1>10, <2>1 DEF GroupObject
  <2>3. /\ obj.enc = Earliest(T.enc, enc) /\ obj.decoded = T.decoded
        /\ obj.done = T.done /\ obj.data = T.data
    BY <1>6, <2>1 DEF GroupObject
  <2>4. GroupOk(g, obj, decoded \union new)
    BY <1>10, <1>11, <2>3 DEF GroupOk
  <2> QED
    BY <1>2, <1>3, <1>7, <1>8, <2>2, <2>4 DEF b, T, enc
<1>13. CASE ~ Useless(T, m)
  <2> DEFINE full == BatchComplete(T, m, members)
             dn == IF full THEN T.done \union {b} ELSE T.done
             da == [T.data EXCEPT ![b] = IF full THEN {} ELSE Held(T, m)]
             fe == [T.fec EXCEPT ![b] = IF full THEN {} ELSE Parity(T, m)]
  <2>1. new = m.data \union (IF full THEN members \ Held(T, m) ELSE {})
    BY <1>13 DEF Fresh
  <2>2. Held(T, m) \in SUBSET Packet /\ Parity(T, m) \in SUBSET Fec /\ Held(T, m) = T.data[b] \union m.data
    BY <1>1, <1>9 DEF Held, Parity, b
  <2> HIDE DEF full
  <2>3. /\ obj.enc = Earliest(T.enc, enc) /\ obj.decoded = T.decoded \union new
        /\ obj.done = dn /\ obj.data = da /\ obj.fec = fe
        /\ obj = [enc |-> obj.enc, decoded |-> obj.decoded, done |-> obj.done,
                  data |-> obj.data, fec |-> obj.fec]
    BY <1>6, <1>13 DEF AddPacket, GroupObject, full, b
  <2>4. /\ dn \in SUBSET Batch /\ da \in [Batch -> SUBSET Packet]
        /\ fe \in [Batch -> SUBSET Fec]
    BY <1>1, <1>9, <2>2
  <2>5. obj \in GroupObject
    BY <1>8, <1>9, <1>10, <2>3, <2>4 DEF GroupObject
  <2>6. \A c \in Batch : da[c] \subseteq T.decoded \union new
    BY <1>1, <1>9, <1>11, <2>1, <2>2
  <2>7. \A c \in dn : c \in DOMAIN batches /\ batches[c].members \subseteq decoded \union new
    <3>1. CASE full
      <4>1. members \subseteq decoded \union new
        BY <1>1, <1>11, <2>1, <2>2, <3>1
      <4> QED
        BY <1>1, <1>11, <3>1, <4>1
    <3>2. CASE ~ full
      BY <1>11, <3>2
    <3> QED
      BY <3>1, <3>2
  <2>8. T.decoded \union new \subseteq (decoded \union new) \intersect PktsOf(g)
    BY <1>8, <1>11
  <2>9. GroupOk(g, obj, decoded \union new)
    BY <1>10, <2>3, <2>6, <2>7, <2>8 DEF GroupOk
  <2> QED
    BY <1>2, <1>3, <1>7, <1>8, <2>5, <2>9 DEF b, T, enc
<1> QED
  BY <1>12, <1>13

\* A packet comes.
LEMMA ReceiveIInv ==
  ASSUME IInv, ReceiveUdpPacket
  PROVE  IInv'
<1> USE TransportAssumption
<1>1. PICK m \in link :
    LET g == batches[m.batch].group
        members == batches[m.batch].members
        gs == [grp EXCEPT ![g] = AddPacket(Target(m), m, members, HeaderTime(m))]
        whole == Cardinality(gs[g].decoded) = Cardinality(PktsOf(g))
        open == incomplete \union {g}
        rest == IF whole THEN open \ {g} ELSE open
        late == GivenUp(rest, gs)
        left == IF g \in complete \union timeout THEN open ELSE rest \ late
    IN  /\ link' = link \ {m}
        /\ decoded' = decoded \union Returned(m)
        /\ acks' = IF Acknowledged(m) = {} THEN acks ELSE acks \union {Acknowledged(m)}
        /\ incomplete' = left
        /\ grp' = [h \in Group |-> IF h \in left THEN gs[h] ELSE NewGroup(0)]
        /\ complete' = IF g \notin complete \union timeout /\ whole
                       THEN complete \union {g} ELSE complete
        /\ timeout' = IF g \in complete \union timeout
                      THEN timeout ELSE timeout \union late
        /\ UNCHANGED <<now, sender>>
  BY DEF ReceiveUdpPacket
<1> DEFINE g == batches[m.batch].group
           obj == AddPacket(Target(m), m, batches[m.batch].members, HeaderTime(m))
           gs == [grp EXCEPT ![g] = obj]
           whole == Cardinality(gs[g].decoded) = Cardinality(PktsOf(g))
           open == incomplete \union {g}
           rest == IF whole THEN open \ {g} ELSE open
           late == GivenUp(rest, gs)
           left == IF g \in complete \union timeout THEN open ELSE rest \ late
           got == decoded \union Returned(m)
<1>2. UNCHANGED <<now, groupOf, encode, batchOf, sent, nGroups, batches, history, keys, queue>>
  BY <1>1 DEF sender, objects
<1>3. /\ g \in 1 .. nGroups /\ g \in Group
      /\ Returned(m) \subseteq PktsOf(g)
      /\ obj \in GroupObject /\ GroupOk(g, obj, got)
  BY AddPacketLemma
<1>4. /\ link' = link \ {m} /\ decoded' = got
      /\ acks' \subseteq acks \union {Returned(m)}
      /\ incomplete' = left
      /\ grp' = [h \in Group |-> IF h \in left THEN gs[h] ELSE NewGroup(0)]
  BY <1>1 DEF Acknowledged
<1>5. /\ complete' \subseteq complete \union {g}
      /\ g \in complete' => g \in complete \/ whole
      /\ timeout' \subseteq timeout \union late
  BY <1>1
<1> HIDE DEF obj
<1>6. /\ incomplete \subseteq Group /\ complete \subseteq Group /\ timeout \subseteq Group
      /\ grp \in [Group -> GroupObject] /\ decoded \subseteq Packet /\ now \in Time
      /\ link \subseteq MessageType /\ acks \subseteq SUBSET Packet
      /\ encode \in [Packet -> Time] /\ nGroups \in Nat
  BY DEF IInv, TypeOK, Group
<1>7. gs \in [Group -> GroupObject] /\ gs[g] = obj /\ \A h \in Group : h # g => gs[h] = grp[h]
  BY <1>3, <1>6
<1> HIDE DEF gs
<1>8. /\ open \subseteq Group /\ rest \subseteq open /\ left \subseteq open
      /\ late \subseteq open /\ \A h \in late : now > gs[h].enc + Ddl
  BY <1>3, <1>6 DEF GivenUp
<1>9. PktsOf(g) \subseteq Created /\ Created' = Created /\ \A h : PktsOf(h)' = PktsOf(h)
  BY <1>2, <1>3, <1>6 DEF PktsOf, Created
<1>10. \A h \in open : GroupOk(h, gs[h], got)
  <2> SUFFICES ASSUME NEW h \in open PROVE GroupOk(h, gs[h], got)
    OBVIOUS
  <2>1. CASE h = g
    BY <1>3, <1>7, <2>1
  <2>2. CASE h # g
    <3>1. gs[h] = grp[h] /\ GroupOk(h, grp[h], decoded)
      BY <1>6, <1>7, <2>2 DEF IInv, GroupsOk
    <3> QED
      BY <3>1 DEF GroupOk
  <2> QED
    BY <2>1, <2>2
<1>11. whole => PktsOf(g) \subseteq got
  <2> SUFFICES ASSUME whole PROVE PktsOf(g) \subseteq got
    OBVIOUS
  <2>1. obj.decoded \subseteq got \intersect PktsOf(g)
    BY <1>3 DEF GroupOk
  <2>2. IsFiniteSet(PktsOf(g))
    <3>1. IsFiniteSet(1 .. MaxPkt) /\ PktsOf(g) \subseteq 1 .. MaxPkt
      BY FS_Interval DEF PktsOf, Packet
    <3> QED
      BY <3>1, FS_Subset
  <2>3. Cardinality(obj.decoded) = Cardinality(PktsOf(g))
    BY <1>7
  <2>4. obj.decoded = PktsOf(g)
    BY <2>1, <2>2, <2>3, FS_Subset
  <2> QED
    BY <2>1, <2>4
<1>12. TypeOK'
  <2>1. NewGroup(0) \in GroupObject
    BY DEF NewGroup, GroupObject, Time
  <2>2. grp' \in [Group -> GroupObject]
    BY <1>4, <1>7, <2>1
  <2>3. Returned(m) \in SUBSET Packet
    BY <1>3 DEF PktsOf
  <2>4. incomplete' \subseteq Group /\ complete' \subseteq Group /\ timeout' \subseteq Group
    BY <1>3, <1>4, <1>5, <1>6, <1>8
  <2>5. link' \subseteq MessageType /\ acks' \subseteq SUBSET Packet /\ decoded' \subseteq Packet
    BY <1>4, <1>6, <2>3
  <2> QED
    BY <1>2, <2>2, <2>4, <2>5 DEF IInv, TypeOK
<1>13. Objects'
  BY <1>2, <1>9 DEF IInv, Objects
<1>14. BatchesOk'
  BY <1>2 DEF IInv, BatchesOk, PktsOf
<1>15. InTransit'
  <2>1. \A a \in acks' : a \subseteq decoded'
    BY <1>4 DEF IInv, InTransit
  <2>2. decoded' \subseteq Created'
    BY <1>3, <1>4, <1>9 DEF IInv, InTransit
  <2> QED
    BY <1>2, <1>4, <1>9, <2>1, <2>2 DEF IInv, InTransit
<1>16. GroupsOk'
  <2>1. incomplete \subseteq 1 .. nGroups /\ complete \subseteq 1 .. nGroups /\ timeout \subseteq 1 .. nGroups
    BY DEF IInv, GroupsOk
  <2>2. open \subseteq 1 .. nGroups
    BY <1>3, <2>1
  <2>3. incomplete' \subseteq 1 .. nGroups' /\ complete' \subseteq 1 .. nGroups' /\ timeout' \subseteq 1 .. nGroups'
    BY <1>2, <1>3, <1>4, <1>5, <1>8, <2>1, <2>2
  <2>4. \A h \in incomplete' : GroupOk(h, grp[h], decoded)'
    <3> SUFFICES ASSUME NEW h \in left PROVE GroupOk(h, grp[h], decoded)'
      BY <1>4
    <3>1. GroupOk(h, gs[h], got) /\ grp'[h] = gs[h]
      BY <1>4, <1>8, <1>10
    <3> QED
      BY <1>2, <1>4, <3>1 DEF GroupOk, PktsOf
  <2>5. \A h \in complete' : PktsOf(h)' \subseteq decoded'
    BY <1>4, <1>5, <1>9, <1>11 DEF IInv, GroupsOk
  <2> QED
    BY <2>3, <2>4, <2>5 DEF GroupsOk
<1>17. KeysOk'
  BY <1>2, <1>9 DEF IInv, KeysOk
<1>18. NeverForgotten'
  BY <1>2, <1>4, <1>9 DEF IInv, NeverForgotten, MissesDdl
<1>19. TimeoutIsLate'
  <2> SUFFICES ASSUME NEW h \in timeout', NEW p \in PktsOf(h) PROVE MissesDdl(p, now)'
    BY <1>9 DEF TimeoutIsLate
  <2>1. CASE h \in timeout
    BY <1>2, <2>1 DEF IInv, TimeoutIsLate, MissesDdl
  <2>2. CASE h \in late
    <3>1. encode[p] <= gs[h].enc /\ now > gs[h].enc + Ddl
      BY <1>8, <1>10, <2>2 DEF GroupOk
    <3>2. encode[p] \in Nat /\ now \in Nat /\ gs[h].enc \in Nat
      <4>1. gs[h] \in GroupObject
        BY <1>7, <1>8, <2>2
      <4> QED
        BY <1>6, <4>1 DEF GroupObject, PktsOf, Time
    <3> QED
      BY <1>2, <3>1, <3>2 DEF MissesDdl
  <2> QED
    BY <1>5, <2>1, <2>2
<1> QED
  BY <1>12, <1>13, <1>14, <1>15, <1>16, <1>17, <1>18, <1>19 DEF IInv

\* The first loop keeps exactly what is not late.
LEMMA SweepLemma ==
  ASSUME IInv, NEW t \in Time, NEW first \in 1 .. Len(keys) + 1, FirstLoopEnds(first, t)
  PROVE  /\ Swept(first) \subseteq history
         /\ \A p \in history : p \in Swept(first) <=> ~ MissesDdl(p, t)
         /\ \A p \in Swept(first) : \E j \in DOMAIN keys : first <= j /\ keys[j] = p
         /\ \A j \in DOMAIN keys : first <= j /\ keys[j] \in history => keys[j] \in Swept(first)
<1> USE TransportAssumption
<1>1. /\ keys \in Seq(Packet) /\ DOMAIN keys = 1 .. Len(keys) /\ Len(keys) \in Nat
      /\ \A p \in Packet : encode[p] \in Nat
      /\ \A p \in Packet : p \in Nat
  BY DEF IInv, TypeOK, Time, Packet
<1>2. /\ \A i, j \in DOMAIN keys : i < j => keys[i] < keys[j]
      /\ \A i \in DOMAIN keys : keys[i] \in Created /\ keys[i] \in Packet
      /\ \A p \in history : \E i \in DOMAIN keys : keys[i] = p
  BY DEF IInv, KeysOk, Created
<1>3. \A i \in 1 .. first - 1 : i \in DOMAIN keys
  BY <1>1
<1>4. \A p \in Swept(first) : \E j \in DOMAIN keys : first <= j /\ keys[j] = p
  <2> SUFFICES ASSUME NEW p \in Swept(first)
               PROVE  \E j \in DOMAIN keys : first <= j /\ keys[j] = p
    OBVIOUS
  <2>1. PICK j \in DOMAIN keys : keys[j] = p
    BY <1>2 DEF Swept
  <2>2. j \notin 1 .. first - 1
    BY <2>1 DEF Swept
  <2> QED
    BY <1>1, <2>1, <2>2
<1>5. \A j \in DOMAIN keys : first <= j /\ keys[j] \in history => keys[j] \in Swept(first)
  <2> SUFFICES ASSUME NEW j \in DOMAIN keys, first <= j, keys[j] \in history,
                      NEW i \in 1 .. first - 1
               PROVE  keys[i] # keys[j]
    BY DEF Swept
  <2>1. i \in DOMAIN keys /\ i < j
    BY <1>1, <1>3
  <2>2. keys[i] < keys[j] /\ keys[i] \in Nat /\ keys[j] \in Nat
    BY <1>1, <1>2, <2>1
  <2> QED
    BY <2>2
<1>6. ASSUME NEW p \in history, p \notin Swept(first) PROVE MissesDdl(p, t)
  <2>1. PICK i \in 1 .. first - 1 : keys[i] = p
    BY <1>6 DEF Swept
  <2>2. ~ Kept(i, t)
    BY DEF FirstLoopEnds
  <2> QED
    BY <2>1, <2>2 DEF Kept
<1>7. ASSUME NEW p \in Swept(first) PROVE ~ MissesDdl(p, t)
  <2>1. PICK j \in DOMAIN keys : first <= j /\ keys[j] = p
    BY <1>4
  <2>2. first \in DOMAIN keys /\ Kept(first, t)
    BY <1>1, <2>1 DEF FirstLoopEnds
  <2>3. keys[first] <= p
    <3>1. CASE first = j
      BY <1>1, <1>2, <2>1, <3>1
    <3>2. CASE first < j
      BY <1>1, <1>2, <2>1, <2>2, <3>2
    <3> QED
      BY <1>1, <2>1, <3>1, <3>2
  <2>4. encode[keys[first]] <= encode[p]
    BY <1>2, <2>1, <2>2, <2>3 DEF IInv, Objects
  <2>5. encode[keys[first]] \in Nat /\ encode[p] \in Nat /\ t \in Nat
    BY <1>1, <1>2, <2>1, <2>2 DEF Time
  <2> QED
    BY <2>2, <2>4, <2>5 DEF Kept, MissesDdl
<1> QED
  BY <1>4, <1>5, <1>6, <1>7 DEF Swept

\* What Retransmit does to the batches, the queue and the objects.
Retransmitted(due, first, t) ==
  /\ batches' \in Seq(BatchType) /\ Len(batches') <= MaxBatch
  /\ queue' \in Seq(EntryType) /\ batchOf' \in [Packet -> Batch \union {0}]
  /\ DOMAIN batches \subseteq DOMAIN batches'
  /\ \A b \in DOMAIN batches : batches'[b] = batches[b]
  /\ \A b \in DOMAIN batches' \ DOMAIN batches : \E k \in DOMAIN due :
       /\ batches'[b].group = due[k] /\ batches'[b].at = t
       /\ batches'[b].members = Resent(due[k], first)
  /\ \A i \in DOMAIN queue' :
       \/ \E j \in DOMAIN queue : queue'[i] = queue[j]
       \/ queue'[i].batch \in DOMAIN batches' /\ queue'[i].data \subseteq Swept(first)
  /\ \A p \in Packet :
       \/ batchOf'[p] = batchOf[p]
       \/ /\ p \in Swept(first) /\ batchOf'[p] \in DOMAIN batches' /\ batchOf'[p] # 0
          /\ p \in batches'[batchOf'[p]].members

LEMMA RetransmitLemma ==
  ASSUME IInv, NEW t \in Time, NEW first, NEW due \in Seq(Group),
         NEW fec \in [DOMAIN due -> 0 .. MaxFec], Len(batches) + Len(due) <= MaxBatch,
         Retransmit(due, fec, first, t)
  PROVE  Retransmitted(due, first, t)
<1> USE TransportAssumption
<1> DEFINE L == Len(batches)
           n == Len(due)
           batch(k) == [group |-> due[k], members |-> Resent(due[k], first),
                        fec |-> fec[k], at |-> t]
           entry(k) == [batch |-> L + k, data |-> Resent(due[k], first),
                        fec |-> 1 .. fec[k], rtx |-> TRUE]
           bs == [k \in 1 .. n |-> batch(k)]
           es == [k \in 1 .. n |-> entry(n + 1 - k)]
<1>1. /\ batches \in Seq(BatchType) /\ queue \in Seq(EntryType) /\ L \in Nat
      /\ DOMAIN batches = 1 .. L /\ batchOf \in [Packet -> Batch \union {0}]
  BY DEF IInv, TypeOK
<1>2. n \in Nat /\ DOMAIN due = 1 .. n
  OBVIOUS
<1>3. \A k \in 1 .. n : /\ due[k] \in Group /\ fec[k] \in 0 .. MaxFec
                        /\ Resent(due[k], first) \in SUBSET Packet
                        /\ Resent(due[k], first) \subseteq Swept(first)
                        /\ L + k \in Batch
  BY <1>1, <1>2 DEF Resent, PktsOf, Batch
<1>4. \A k \in 1 .. n : batch(k) \in BatchType /\ entry(k) \in EntryType
  <2> SUFFICES ASSUME NEW k \in 1 .. n PROVE batch(k) \in BatchType /\ entry(k) \in EntryType
    OBVIOUS
  <2>1. 1 .. fec[k] \in SUBSET Fec
    BY <1>3 DEF Fec
  <2> QED
    BY <1>3, <2>1 DEF BatchType, EntryType
<1>5. /\ batches' = batches \o bs
      /\ queue' = [k \in DOMAIN due |-> [i \in DOMAIN due |-> entry(i)][Len(due) + 1 - k]] \o queue
      /\ batchOf' = [p \in Packet |->
           IF \E k \in DOMAIN due : p \in [i \in DOMAIN due |-> batch(i)][k].members
           THEN L + (CHOOSE k \in DOMAIN due : p \in [i \in DOMAIN due |-> batch(i)][k].members)
           ELSE batchOf[p]]
  BY <1>2 DEF Retransmit
<1>6. queue' = es \o queue
  <2>1. \A k \in 1 .. n : n + 1 - k \in 1 .. n
    BY <1>2
  <2>2. es = [k \in DOMAIN due |-> [i \in DOMAIN due |-> entry(i)][Len(due) + 1 - k]]
    BY <1>2, <2>1
  <2> QED
    BY <1>5, <2>2
<1>7. \A p \in Packet :
        \/ batchOf'[p] = batchOf[p]
        \/ \E k \in 1 .. n : batchOf'[p] = L + k /\ p \in Resent(due[k], first)
  <2> SUFFICES ASSUME NEW p \in Packet, NEW k \in 1 .. n, p \in Resent(due[k], first)
               PROVE  \E i \in 1 .. n : batchOf'[p] = L + i /\ p \in Resent(due[i], first)
    BY <1>2, <1>5
  <2>1. \A i \in 1 .. n : [j \in DOMAIN due |-> batch(j)][i].members = Resent(due[i], first)
    BY <1>2
  <2> DEFINE x == CHOOSE i \in DOMAIN due : p \in [j \in DOMAIN due |-> batch(j)][i].members
  <2>2. x \in DOMAIN due /\ p \in [j \in DOMAIN due |-> batch(j)][x].members
    BY <1>2, <2>1
  <2>3. batchOf'[p] = L + x
    BY <1>2, <1>5, <2>1
  <2> QED
    BY <1>2, <2>1, <2>2, <2>3
<1>8. batchOf' \in [Packet -> Batch \union {0}]
  <2>1. \A p \in Packet : batchOf'[p] \in Batch \union {0}
    BY <1>1, <1>3, <1>7
  <2>2. batchOf' = [p \in Packet |-> batchOf'[p]]
    BY <1>5
  <2> QED
    BY <2>1, <2>2
<1>9. /\ batches' \in Seq(BatchType)
      /\ Len(batches') = L + n /\ DOMAIN batches' = 1 .. L + n
      /\ \A b \in 1 .. L : batches'[b] = batches[b]
      /\ \A k \in 1 .. n : batches'[L + k] = batch(k)
  <2>1. bs \in [1 .. n -> BatchType] /\ \A k \in 1 .. n : bs[k] = batch(k)
    BY <1>4
  <2>2. batches' = batches \o bs /\ n \in Nat
    BY <1>2, <1>5
  <2> HIDE DEF bs, batch, n
  <2>5. bs \in [1 .. n -> BatchType]
    BY <2>1
  <2>3. batches \in Seq(BatchType)
    BY <1>1
  <2>4. batches' \in Seq(BatchType) /\ IsAppended(batches', batches, n, bs)
    BY <2>2, <2>3, <2>5, AppendedTo, Zenon
  <2> QED
    BY <2>1, <2>4 DEF IsAppended
<1>10. /\ queue' \in Seq(EntryType)
       /\ \A i \in DOMAIN queue' : \/ \E j \in DOMAIN queue : queue'[i] = queue[j]
                                   \/ \E k \in 1 .. n : queue'[i] = entry(k)
  <2>1. /\ es \in Seq(EntryType) /\ Len(es) = n
        /\ \A k \in 1 .. n : \E i \in 1 .. n : es[k] = entry(i)
    <3>1. \A k \in 1 .. n : n + 1 - k \in 1 .. n
      BY <1>2
    <3>2. es \in [1 .. n -> EntryType]
      BY <1>4, <3>1
    <3>3. \A k \in 1 .. n : es[k] = entry(n + 1 - k)
      OBVIOUS
    <3>4. n \in Nat
      BY <1>2
    <3> HIDE DEF es, entry, n
    <3> QED
      BY <3>1, <3>2, <3>3, <3>4
  <2>2. queue \in [1 .. Len(queue) -> EntryType] /\ Len(queue) \in Nat
    BY <1>1
  <2>n. n \in Nat /\ queue' = es \o queue
    BY <1>2, <1>6
  <2> HIDE DEF es, entry, n
  <2>3. /\ queue' \in Seq(EntryType) /\ DOMAIN queue' = 1 .. n + Len(queue)
        /\ \A i \in 1 .. n : queue'[i] = es[i]
        /\ \A i \in 1 .. Len(queue) : queue'[n + i] = queue[i]
    <3>1. /\ es \o queue \in Seq(EntryType)
          /\ DOMAIN (es \o queue) = 1 .. Len(es) + Len(queue)
          /\ \A i \in 1 .. Len(es) : (es \o queue)[i] = es[i]
          /\ \A i \in 1 .. Len(queue) : (es \o queue)[Len(es) + i] = queue[i]
      <4> DEFINE m == Len(queue)
      <4>1. m \in Nat /\ queue \in [1 .. m -> EntryType] /\ es \in Seq(EntryType)
        BY <2>1, <2>2
      <4> HIDE DEF m
      <4>2. /\ es \o queue \in Seq(EntryType)
            /\ DOMAIN (es \o queue) = 1 .. Len(es) + m
            /\ \A i \in 1 .. Len(es) : (es \o queue)[i] = es[i]
            /\ \A i \in 1 .. m : (es \o queue)[Len(es) + i] = queue[i]
        <5>1. (es \o queue) \in Seq(EntryType) /\ IsAppended(es \o queue, es, m, queue)
          BY <4>1, AppendedTo, Zenon
        <5> QED
          BY <5>1 DEF IsAppended
      <4> QED
        BY <4>2 DEF m
    <3>2. Len(es) = n /\ queue' = es \o queue
      BY <2>n, <2>1
    <3> QED
      BY <3>1, <3>2
  <2>4. \A i \in 1 .. n + Len(queue) :
          \/ i \in 1 .. n
          \/ i - n \in 1 .. Len(queue) /\ i = n + (i - n)
    BY <2>n, <2>2
  <2>5. DOMAIN queue = 1 .. Len(queue)
    BY <2>2
  <2> QED
    BY <2>1, <2>3, <2>4, <2>5
<1>11. \A b \in DOMAIN batches' \ DOMAIN batches : \E k \in 1 .. n : b = L + k
  <2>1. \A b \in 1 .. L + n : b \notin 1 .. L => b - L \in 1 .. n /\ b = L + (b - L)
    BY <1>1, <1>2
  <2> QED
    BY <1>1, <1>9, <2>1
<1>12. \A k \in 1 .. n : L + k \in 1 .. L + n /\ L + k # 0
  BY <1>1, <1>2
<1>13. \A b \in DOMAIN batches' \ DOMAIN batches : \E k \in DOMAIN due :
         /\ batches'[b].group = due[k] /\ batches'[b].at = t
         /\ batches'[b].members = Resent(due[k], first)
  <2> SUFFICES ASSUME NEW k \in 1 .. n
               PROVE  LET b == L + k IN /\ batches'[b].group = due[k] /\ batches'[b].at = t
                                        /\ batches'[b].members = Resent(due[k], first)
    BY <1>2, <1>11
  <2>1. batches'[L + k] = batch(k)
    BY <1>9
  <2> QED
    BY <2>1
<1>14. \A i \in DOMAIN queue' :
         \/ \E j \in DOMAIN queue : queue'[i] = queue[j]
         \/ queue'[i].batch \in DOMAIN batches' /\ queue'[i].data \subseteq Swept(first)
  <2> SUFFICES ASSUME NEW k \in 1 .. n, NEW i \in DOMAIN queue', queue'[i] = entry(k)
               PROVE  queue'[i].batch \in DOMAIN batches' /\ queue'[i].data \subseteq Swept(first)
    BY <1>10
  <2> QED
    BY <1>3, <1>9, <1>12
<1>15. \A p \in Packet :
         \/ batchOf'[p] = batchOf[p]
         \/ /\ p \in Swept(first) /\ batchOf'[p] \in DOMAIN batches' /\ batchOf'[p] # 0
            /\ p \in batches'[batchOf'[p]].members
  <2> SUFFICES ASSUME NEW p \in Packet, NEW k \in 1 .. n,
                      batchOf'[p] = L + k, p \in Resent(due[k], first)
               PROVE  /\ p \in Swept(first) /\ batchOf'[p] \in DOMAIN batches' /\ batchOf'[p] # 0
                      /\ p \in batches'[batchOf'[p]].members
    BY <1>7
  <2>1. batches'[L + k].members = Resent(due[k], first)
    <3>1. batches'[L + k] = batch(k)
      BY <1>9
    <3> QED
      BY <3>1
  <2> QED
    BY <1>3, <1>9, <1>12, <2>1
<1>16. DOMAIN batches \subseteq DOMAIN batches' /\ Len(batches') <= MaxBatch
  BY <1>1, <1>2, <1>9
<1> QED
  BY <1>1, <1>8, <1>9, <1>10, <1>13, <1>14, <1>15, <1>16 DEF Retransmitted

\* What CheckRetransmission does at time t, with the first loop ending at first.
Checked(t, first) ==
  /\ t \in Time /\ now <= t /\ now' = t /\ first \in 1 .. Len(keys) + 1
  /\ FirstLoopEnds(first, t)
  /\ history' = Swept(first)
  /\ \E due \in Seq(Group) :
       /\ Retransmitted(due, first, t)
       /\ \A k \in DOMAIN due : \E p \in Swept(first) : groupOf[p] = due[k]
  /\ keys' \in Seq(Packet)
  /\ \A i, j \in DOMAIN keys' : i < j => keys'[i] < keys'[j]
  /\ \A i \in DOMAIN keys' : keys'[i] \in Created
  /\ \A p \in Swept(first) : \E i \in DOMAIN keys' : keys'[i] = p

LEMMA CheckLemma ==
  ASSUME IInv, CheckRetransmission
  PROVE  \E t \in Time : \E first \in 1 .. Len(keys) + 1 : Checked(t, first)
<1> USE TransportAssumption
<1> DEFINE t == Min2(now + 1, MaxTime)
<1>1. PICK minRtt \in MinRtts, rto \in RtoChoices, dispersion \in Dispersions,
           first \in 1 .. Len(keys) + 1, young \in 1 .. Len(keys) + 1 :
        /\ first <= young
        /\ FirstLoopEnds(first, t)
        /\ SecondLoopEnds(first, young, t, minRtt)
        /\ \E due \in InOrder(RtxGroups(first, young, t, rto, dispersion)) :
           \E fec \in [DOMAIN due -> 0 .. MaxFec] :
             /\ Len(batches) + Len(due) <= MaxBatch
             /\ Retransmit(due, fec, first, t)
        /\ \E left \in InOrder(KeysLeft(first, young)) :
             keys' = [i \in DOMAIN left |-> keys[left[i]]]
        /\ now' = t
        /\ history' = Swept(first)
  BY DEF CheckRetransmission
<1>2. t \in Time /\ now <= t
  BY DEF IInv, TypeOK, Min2, Time
<1> HIDE DEF t
<1>3. /\ keys \in Seq(Packet) /\ DOMAIN keys = 1 .. Len(keys) /\ Len(keys) \in Nat
      /\ groupOf \in [Packet -> Group \union {0}]
      /\ \A i \in DOMAIN keys : keys[i] \in Created /\ keys[i] \in Packet
      /\ \A i, j \in DOMAIN keys : i < j => keys[i] < keys[j]
  BY DEF IInv, TypeOK, KeysOk, Created
<1>4. /\ \A p \in Swept(first) : \E j \in DOMAIN keys : first <= j /\ keys[j] = p
      /\ \A j \in DOMAIN keys : first <= j /\ keys[j] \in history => keys[j] \in Swept(first)
      /\ Swept(first) \subseteq history
  BY <1>1, <1>2, SweepLemma
<1>5. \E due \in Seq(Group) :
         /\ Retransmitted(due, first, t)
         /\ \A k \in DOMAIN due : \E p \in Swept(first) : groupOf[p] = due[k]
  <2> DEFINE R == RtxGroups(first, young, t, rto, dispersion)
  <2>1. PICK due \in InOrder(R) : \E fec \in [DOMAIN due -> 0 .. MaxFec] :
          /\ Len(batches) + Len(due) <= MaxBatch
          /\ Retransmit(due, fec, first, t)
    BY <1>1
  <2>2. PICK fec \in [DOMAIN due -> 0 .. MaxFec] :
          /\ Len(batches) + Len(due) <= MaxBatch
          /\ Retransmit(due, fec, first, t)
    BY <2>1
  <2>3. \A h \in R : h \in Group /\ \E p \in Swept(first) : groupOf[p] = h
    <3> SUFFICES ASSUME NEW i \in first .. young - 1, keys[i] \in history
                 PROVE  groupOf[keys[i]] \in Group /\ keys[i] \in Swept(first)
      BY DEF RtxGroups
    <3>1. i \in DOMAIN keys /\ first <= i
      BY <1>1, <1>3
    <3> QED
      BY <1>3, <1>4, <3>1 DEF Created
  <2>4. R \subseteq 1 .. MaxPkt /\ R \subseteq Group
    BY <2>3 DEF Group
  <2> HIDE DEF R
  <2>5. due \in Seq(R)
    BY <2>4, InOrderLemma
  <2>6. due \in Seq(Group) /\ \A k \in DOMAIN due : due[k] \in R
    <3>1. \A k \in 1 .. Len(due) : due[k] \in R
      BY <2>5
    <3>2. due = [k \in 1 .. Len(due) |-> due[k]] /\ Len(due) \in Nat /\ DOMAIN due = 1 .. Len(due)
      BY <2>5
    <3>3. due \in [1 .. Len(due) -> Group]
      BY <2>4, <3>1, <3>2
    <3> QED
      BY <3>1, <3>2, <3>3, SMTT(30)
  <2>7. Retransmitted(due, first, t)
    BY <1>2, <2>2, <2>6, RetransmitLemma
  <2> QED
    BY <2>3, <2>6, <2>7
<1>6. PICK left \in InOrder(KeysLeft(first, young)) : keys' = [i \in DOMAIN left |-> keys[left[i]]]
  BY <1>1
<1> DEFINE S == KeysLeft(first, young)
<1>7. S \subseteq 1 .. Len(keys)
  BY <1>1, <1>3 DEF KeysLeft
<1> HIDE DEF S
<1>8. /\ left \in Seq(S) /\ DOMAIN left = 1 .. Len(left)
      /\ \A i, j \in DOMAIN left : i < j => left[i] < left[j]
      /\ \A x \in S : \E i \in DOMAIN left : left[i] = x
  BY <1>3, <1>6, <1>7, InOrderLemma DEF S
<1>9. \A i \in DOMAIN left : left[i] \in S /\ left[i] \in DOMAIN keys
  <2>1. \A i \in 1 .. Len(left) : left[i] \in S
    BY <1>8
  <2> QED
    BY <1>3, <1>7, <1>8, <2>1
<1>10. DOMAIN keys' = DOMAIN left /\ \A i \in DOMAIN left : keys'[i] = keys[left[i]]
  BY <1>6
<1>11. keys' \in Seq(Packet)
  <2>1. Len(left) \in Nat
    BY <1>8
  <2>2. keys' \in [1 .. Len(left) -> Packet]
    BY <1>3, <1>6, <1>8, <1>9
  <2> QED
    BY <2>1, <2>2
<1>12. \A i, j \in DOMAIN keys' : i < j => keys'[i] < keys'[j]
  BY <1>3, <1>8, <1>9, <1>10
<1>13. \A i \in DOMAIN keys' : keys'[i] \in Created
  BY <1>3, <1>9, <1>10
<1>14. \A p \in Swept(first) : \E i \in DOMAIN keys' : keys'[i] = p
  <2> SUFFICES ASSUME NEW p \in Swept(first)
               PROVE  \E i \in DOMAIN keys' : keys'[i] = p
    OBVIOUS
  <2>1. PICK j \in DOMAIN keys : first <= j /\ keys[j] = p
    BY <1>4
  <2>2. j \in S
    BY <1>3, <1>4, <2>1 DEF S, KeysLeft
  <2> QED
    BY <1>8, <1>10, <2>1, <2>2
<1> QED
  BY <1>1, <1>2, <1>5, <1>11, <1>12, <1>13, <1>14 DEF Checked

\* The clock ticks, late packets are let go and others sent again.
LEMMA CheckIInv ==
  ASSUME IInv, CheckRetransmission
  PROVE  IInv'
<1> USE TransportAssumption
<1>1. PICK t \in Time, first \in 1 .. Len(keys) + 1 : Checked(t, first)
  BY CheckLemma
<1>2. UNCHANGED <<groupOf, encode, sent, nGroups, link, acks,
                  incomplete, grp, complete, timeout, decoded>>
  BY DEF CheckRetransmission, receiver
<1>3. now <= t /\ now' = t /\ FirstLoopEnds(first, t) /\ history' = Swept(first)
  BY <1>1 DEF Checked
<1>4. PICK due \in Seq(Group) :
        /\ Retransmitted(due, first, t)
        /\ \A k \in DOMAIN due : \E p \in Swept(first) : groupOf[p] = due[k]
  BY <1>1 DEF Checked
<1>5. /\ Swept(first) \subseteq history
      /\ \A p \in history : p \in Swept(first) <=> ~ MissesDdl(p, t)
  BY <1>3, SweepLemma
<1>6. Created' = Created /\ \A g : PktsOf(g)' = PktsOf(g)
  BY <1>2 DEF Created, PktsOf
<1>7. /\ now \in Nat /\ t \in Nat /\ \A p \in Packet : encode[p] \in Nat
      /\ history \subseteq Created /\ Created \subseteq Packet
  BY DEF IInv, TypeOK, Time, KeysOk, Created
<1>8. /\ DOMAIN batches \subseteq DOMAIN batches'
      /\ \A b \in DOMAIN batches : batches'[b] = batches[b]
      /\ \A b \in DOMAIN batches' \ DOMAIN batches : \E k \in DOMAIN due :
           /\ batches'[b].group = due[k] /\ batches'[b].at = t
           /\ batches'[b].members = Resent(due[k], first)
  BY <1>4 DEF Retransmitted
<1>9. TypeOK'
  <2>1. history' \subseteq Packet /\ keys' \in Seq(Packet) /\ now' \in Time
    BY <1>1, <1>3, <1>5, <1>7 DEF Checked
  <2>2. /\ batches' \in Seq(BatchType) /\ Len(batches') <= MaxBatch
        /\ queue' \in Seq(EntryType) /\ batchOf' \in [Packet -> Batch \union {0}]
    BY <1>4 DEF Retransmitted
  <2> QED
    BY <1>2, <2>1, <2>2 DEF IInv, TypeOK
<1>10. Objects'
  <2>1. \A p \in Packet :
          \/ batchOf'[p] = batchOf[p]
          \/ /\ p \in Swept(first) /\ batchOf'[p] \in DOMAIN batches' /\ batchOf'[p] # 0
             /\ p \in batches'[batchOf'[p]].members
    BY <1>4 DEF Retransmitted
  <2>2. \A p \in Packet : batchOf'[p] = 0 <=> groupOf'[p] = 0
    <3> SUFFICES ASSUME NEW p \in Packet PROVE batchOf'[p] = 0 <=> groupOf[p] = 0
      BY <1>2
    <3>1. CASE batchOf'[p] = batchOf[p]
      BY <3>1 DEF IInv, Objects
    <3>2. CASE p \in Swept(first) /\ batchOf'[p] # 0
      BY <1>5, <1>7, <3>2 DEF Created
    <3> QED
      BY <2>1, <3>1, <3>2
  <2>3. \A p \in Created : /\ batchOf'[p] \in DOMAIN batches'
                           /\ p \in batches'[batchOf'[p]].members
    <3> SUFFICES ASSUME NEW p \in Created
                 PROVE  batchOf'[p] \in DOMAIN batches' /\ p \in batches'[batchOf'[p]].members
      OBVIOUS
    <3>1. batchOf[p] \in DOMAIN batches /\ p \in batches[batchOf[p]].members /\ p \in Packet
      BY <1>7 DEF IInv, Objects
    <3> QED
      BY <1>8, <2>1, <3>1
  <2>4. \A p \in Created : groupOf[p] <= nGroups /\ encode[p] <= now'
    <3>1. \A p \in Created : groupOf[p] <= nGroups /\ encode[p] <= now /\ encode[p] \in Nat
      BY <1>7 DEF IInv, Objects
    <3> QED
      BY <1>3, <1>7, <3>1
  <2>5. \E c \in 0 .. MaxPkt : Created' = 1 .. c /\ nGroups' <= c
    BY <1>2, <1>6 DEF IInv, Objects
  <2>6. \A p, q \in Created' :
          /\ p <= q => encode'[p] <= encode'[q]
          /\ groupOf'[p] = groupOf'[q] => encode'[p] = encode'[q]
    BY <1>2, <1>6 DEF IInv, Objects
  <2> QED
    BY <1>2, <1>6, <2>2, <2>3, <2>4, <2>5, <2>6 DEF Objects
<1>11. BatchesOk'
  <2> SUFFICES ASSUME NEW b \in DOMAIN batches'
               PROVE  /\ batches'[b].group \in 1 .. nGroups
                      /\ batches'[b].members \subseteq {p \in Packet : groupOf[p] = batches'[b].group}
                      /\ \A p \in Packet :
                           groupOf[p] = batches'[b].group => encode[p] <= batches'[b].at
    BY <1>2 DEF BatchesOk, PktsOf
  <2>1. CASE b \in DOMAIN batches
    BY <1>8, <2>1 DEF IInv, BatchesOk, PktsOf
  <2>2. CASE b \notin DOMAIN batches
    <3>1. PICK k \in DOMAIN due : /\ batches'[b].group = due[k] /\ batches'[b].at = t
                                  /\ batches'[b].members = Resent(due[k], first)
      BY <1>8, <2>2
    <3>2. PICK p \in Swept(first) : groupOf[p] = due[k]
      BY <1>4
    <3>3. p \in Created /\ p \in Packet
      BY <1>5, <1>7
    <3>4. due[k] \in 1 .. nGroups
      <4>1. groupOf[p] \in Group \union {0} /\ groupOf[p] # 0 /\ groupOf[p] <= nGroups
        BY <3>3 DEF IInv, TypeOK, Objects, Created
      <4>2. nGroups \in Nat
        BY DEF IInv, TypeOK, Group
      <4> QED
        BY <3>2, <4>1, <4>2 DEF Group
    <3>5. \A q \in Packet : groupOf[q] = due[k] => encode[q] <= t
      <4> SUFFICES ASSUME NEW q \in Packet, groupOf[q] = due[k] PROVE encode[q] <= t
        OBVIOUS
      <4>1. q \in Created
        BY <3>4 DEF Created
      <4>2. encode[q] <= now
        BY <4>1 DEF IInv, Objects
      <4> QED
        BY <1>3, <1>7, <4>2
    <3> QED
      BY <3>1, <3>4, <3>5 DEF Resent, PktsOf
  <2> QED
    BY <2>1, <2>2
<1>12. InTransit'
  <2>1. \A i \in DOMAIN queue' : queue'[i].batch \in DOMAIN batches' /\ queue'[i].data \subseteq Created'
    <3>1. \A i \in DOMAIN queue' :
            \/ \E j \in DOMAIN queue : queue'[i] = queue[j]
            \/ queue'[i].batch \in DOMAIN batches' /\ queue'[i].data \subseteq Swept(first)
      BY <1>4 DEF Retransmitted
    <3>2. Swept(first) \subseteq Created'
      BY <1>5, <1>6, <1>7
    <3>3. \A j \in DOMAIN queue : queue[j].batch \in DOMAIN batches /\ queue[j].data \subseteq Created
      BY DEF IInv, InTransit
    <3> QED
      BY <1>6, <1>8, <3>1, <3>2, <3>3
  <2>2. \A m \in link : m.batch \in DOMAIN batches' /\ m.data \subseteq batches'[m.batch].members
    BY <1>8 DEF IInv, InTransit
  <2> QED
    BY <1>2, <1>6, <2>1, <2>2 DEF IInv, InTransit
<1>13. GroupsOk'
  <2>1. ASSUME NEW g, GroupOk(g, grp[g], decoded)
        PROVE  GroupOk(g, grp[g], decoded)'
    BY <1>2, <1>6, <1>8, <2>1 DEF GroupOk
  <2> QED
    BY <1>2, <1>6, <2>1 DEF IInv, GroupsOk
<1>14. KeysOk'
  BY <1>1, <1>6 DEF Checked, KeysOk
<1>15. NeverForgotten'
  <2> SUFFICES ASSUME NEW p \in Created
               PROVE  p \in history' \/ p \in decoded \/ MissesDdl(p, now)'
    BY <1>2, <1>6 DEF NeverForgotten
  <2>1. CASE p \in history
    BY <1>2, <1>3, <1>5, <2>1 DEF MissesDdl
  <2>2. CASE MissesDdl(p, now)
    BY <1>2, <1>3, <1>7, <2>2 DEF MissesDdl
  <2> QED
    BY <2>1, <2>2 DEF IInv, NeverForgotten
<1>16. TimeoutIsLate'
  <2> SUFFICES ASSUME NEW g \in timeout, NEW p \in PktsOf(g) PROVE MissesDdl(p, now)'
    BY <1>2, <1>6 DEF TimeoutIsLate
  <2>1. MissesDdl(p, now) /\ p \in Packet
    BY DEF IInv, TimeoutIsLate, PktsOf
  <2> QED
    BY <1>2, <1>3, <1>7, <2>1 DEF MissesDdl
<1> QED
  BY <1>9, <1>10, <1>11, <1>12, <1>13, <1>14, <1>15, <1>16 DEF IInv

-----------------------------------------------------------------------------

\* The inductive invariant holds initially and is kept by every step.
LEMMA Invariance == Spec => []IInv
<1>1. ASSUME IInv, [Next]_vars PROVE IInv'
  <2>1. CASE CreateFrame
    BY <1>1, <2>1, CreateFrameIInv
  <2>2. CASE SendPacket
    BY <1>1, <2>2, SendPacketIInv
  <2>3. CASE CheckRetransmission
    BY <1>1, <2>3, CheckIInv
  <2>4. CASE RcvACKPacket
    BY <1>1, <2>4, RcvACKPacketIInv
  <2>5. CASE ReceiveUdpPacket
    BY <1>1, <2>5, ReceiveIInv
  <2>6. CASE UNCHANGED vars
    BY <1>1, <2>6, StutterIInv
  <2> QED
    BY <1>1, <2>1, <2>2, <2>3, <2>4, <2>5, <2>6 DEF Next
<1> QED
  BY <1>1, InitIInv, PTL DEF Spec

\* The variables of sender, link and receiver keep their types.
THEOREM TypeCorrect == Spec => []TypeOK
<1>1. IInv => TypeOK
  BY DEF IInv
<1> QED
  BY <1>1, Invariance, PTL

\* RcvACKPacket and CheckRetransmission erase a packet only when the decoder has
\* it or its deadline has passed.
THEOREM NothingForgotten == Spec => []NeverForgotten
<1>1. IInv => NeverForgotten
  BY DEF IInv
<1> QED
  BY <1>1, Invariance, PTL

\* The sweep of ReceiveUdpPacket gives up only groups whose frame is late.
THEOREM TimedOutIsLate == Spec => []TimeoutIsLate
<1>1. IInv => TimeoutIsLate
  BY DEF IInv
<1> QED
  BY <1>1, Invariance, PTL

\* CheckComplete counts packets, and yet a complete group or batch has been
\* decoded in full.
THEOREM CompleteMeansDecoded == Spec => []CompleteIsDecoded
<1>1. IInv => CompleteIsDecoded
  BY DEF IInv, GroupsOk, GroupOk, CompleteIsDecoded
<1> QED
  BY <1>1, Invariance, PTL

\* Every packet kept has a key, and the keys are in the order of encoding, so
\* the loops of CheckRetransmission may end early.
THEOREM KeysInOrder == Spec => []HistoryIsIndexed
<1>1. ASSUME IInv PROVE HistoryIsIndexed
  <2>1. history \subseteq Range(keys)
    BY <1>1 DEF IInv, KeysOk, Range
  <2>2. \A i, j \in DOMAIN keys : i < j => encode[keys[i]] <= encode[keys[j]]
    <3> SUFFICES ASSUME NEW i \in DOMAIN keys, NEW j \in DOMAIN keys, i < j
                 PROVE  encode[keys[i]] <= encode[keys[j]]
      OBVIOUS
    <3>1. keys[i] \in Created /\ keys[j] \in Created /\ keys[i] < keys[j]
      BY <1>1 DEF IInv, KeysOk
    <3>2. keys[i] <= keys[j]
      BY <3>1 DEF Created, Packet
    <3> QED
      BY <1>1, <3>1, <3>2 DEF IInv, Objects
  <2> QED
    BY <2>1, <2>2 DEF HistoryIsIndexed
<1> QED
  BY <1>1, Invariance, PTL

\* CheckRetransmission leaves no late packet in the history, and retransmits
\* only packets of it.
THEOREM RetransmissionIsUseful == Spec => RtxIsUseful
<1> DEFINE Useful == /\ now' > now => \A p \in history' : ~ MissesDdl(p, now')
                     /\ \A b \in DOMAIN batches' \ DOMAIN batches :
                          batches'[b].members # {} /\ batches'[b].members \subseteq history'
<1>1. ASSUME IInv, [Next]_vars PROVE Useful \/ UNCHANGED vars
  <2> USE <1>1
  <2>1. CASE CreateFrame
    <3>1. PICK c \in 0 .. MaxPkt, n \in 0 .. MaxPkt : FrameMade(c, n)
      BY <2>1, FrameLemma
    <3>2. now' = now /\ now \in Nat
      BY <2>1 DEF CreateFrame, IInv, TypeOK, Time
    <3> QED
      BY <3>1, <3>2 DEF FrameMade
  <2>2. CASE CheckRetransmission
    <3>1. PICK t \in Time, first \in 1 .. Len(keys) + 1 : Checked(t, first)
      BY <2>2, CheckLemma
    <3>2. now' = t /\ history' = Swept(first) /\ FirstLoopEnds(first, t) /\ now <= t
      BY <3>1 DEF Checked
    <3>3. \A p \in Swept(first) : p \in history /\ ~ MissesDdl(p, t)
      BY <3>2, SweepLemma
    <3>4. UNCHANGED encode
      BY <2>2 DEF CheckRetransmission
    <3>5. PICK due \in Seq(Group) :
            /\ Retransmitted(due, first, t)
            /\ \A k \in DOMAIN due : \E p \in Swept(first) : groupOf[p] = due[k]
      BY <3>1 DEF Checked
    <3>6. \A k \in DOMAIN due : Resent(due[k], first) # {} /\ Resent(due[k], first) \subseteq Swept(first)
      <4> SUFFICES ASSUME NEW k \in DOMAIN due PROVE Resent(due[k], first) # {}
        BY DEF Resent
      <4>1. PICK p \in Swept(first) : groupOf[p] = due[k]
        BY <3>5
      <4>2. p \in Packet
        BY <3>3 DEF IInv, TypeOK
      <4> QED
        BY <4>1, <4>2 DEF Resent, PktsOf
    <3>7. \A b \in DOMAIN batches' \ DOMAIN batches :
            batches'[b].members # {} /\ batches'[b].members \subseteq history'
      BY <3>2, <3>5, <3>6 DEF Retransmitted
    <3>8. \A p \in history' : ~ MissesDdl(p, now')
      BY <3>2, <3>3, <3>4
    <3> QED
      BY <3>7, <3>8
  <2>3. CASE SendPacket \/ RcvACKPacket \/ ReceiveUdpPacket
    <3>1. CASE SendPacket
      BY <3>1 DEF SendPacket, IInv, TypeOK, Time
    <3>2. CASE RcvACKPacket
      BY <3>2 DEF RcvACKPacket, IInv, TypeOK, Time
    <3>3. CASE ReceiveUdpPacket
      <4>1. batches' = batches /\ now' = now
        BY <3>3 DEF ReceiveUdpPacket, sender
      <4>2. now \in Nat
        BY DEF IInv, TypeOK, Time
      <4> QED
        BY <4>1, <4>2
    <3> QED
      BY <2>3, <3>1, <3>2, <3>3
  <2> QED
    BY <2>1, <2>2, <2>3 DEF Next
<1>2. IInv /\ [Next]_vars => [Useful]_vars
  BY <1>1
<1> QED
  BY <1>2, Invariance, PTL DEF Spec, RtxIsUseful

\* Sender, link and receiver together implement PacketDelivery: a packet is
\* pending until it is delivered or late, whatever is lost, delayed, doubled or
\* recovered.
THEOREM TransportImplementsDelivery == Spec => ImplementsDelivery
<1> USE TransportAssumption
<1>1. Init => Delivery!Init
  BY DEF Init, Delivery!Init, Created, Late
<1>2. ASSUME IInv, IInv', [Next]_vars
      PROVE  \/ Delivery!Offer \/ Delivery!Deliver \/ Delivery!Expire \/ Delivery!Settle
             \/ UNCHANGED <<Created, Late, decoded, history>>
  <2> USE <1>2
  <2>1. CASE CreateFrame
    <3>1. PICK c \in 0 .. MaxPkt, n \in 0 .. MaxPkt : FrameMade(c, n)
      BY <2>1, FrameLemma
    <3> DEFINE fresh == c + 1 .. c + n
    <3>2. /\ Created = 1 .. c /\ Created' = 1 .. c + n
          /\ history' = history \union fresh
          /\ \A p \in fresh : encode'[p] = now
          /\ \A p \in Packet \ fresh : encode'[p] = encode[p]
          /\ now' = now /\ decoded' = decoded /\ now \in Nat
      <4>1. /\ Created = 1 .. c /\ Created' = 1 .. c + n
            /\ history' = history \union fresh
            /\ \A p \in fresh : encode'[p] = now
            /\ \A p \in Packet \ fresh : encode'[p] = encode[p]
        BY <3>1 DEF FrameMade
      <4>2. now' = now /\ decoded' = decoded
        BY <2>1 DEF CreateFrame, receiver
      <4>3. now \in Nat
        BY DEF IInv, TypeOK, Time
      <4> QED
        BY <4>1, <4>2, <4>3
    <3>3. Created' \ Created = fresh /\ Created \subseteq Created' /\ Created' \in SUBSET Packet
      <4>1. Created' \subseteq Packet
        BY DEF Created
      <4> QED
        BY <3>2, <4>1
    <3>4. \A p \in Created : p \in Packet \ fresh
      BY <3>2 DEF Created
    <3>5. Late' = Late
      <4>1. \A p \in fresh : ~ MissesDdl(p, now)'
        BY <3>2 DEF MissesDdl
      <4>2. \A p \in Created : MissesDdl(p, now)' <=> MissesDdl(p, now)
        BY <3>2, <3>4 DEF MissesDdl
      <4> QED
        BY <3>3, <4>1, <4>2 DEF Late
    <3>6. history' = history \union (Created' \ Created)
      BY <3>2, <3>3
    <3> QED
      BY <3>2, <3>3, <3>5, <3>6 DEF Delivery!Offer
  <2>2. CASE CheckRetransmission
    <3>1. PICK t \in Time, first \in 1 .. Len(keys) + 1 : Checked(t, first)
      BY <2>2, CheckLemma
    <3>2. now' = t /\ history' = Swept(first) /\ FirstLoopEnds(first, t) /\ now <= t
      BY <3>1 DEF Checked
    <3>3. /\ Swept(first) \subseteq history
          /\ \A p \in history : p \in Swept(first) <=> ~ MissesDdl(p, t)
      BY <3>2, SweepLemma
    <3>4. UNCHANGED <<encode, groupOf, decoded>> /\ Created' = Created
      BY <2>2 DEF CheckRetransmission, receiver, Created
    <3>5. history \subseteq Created /\ Created \subseteq Packet
      BY DEF IInv, KeysOk, Created
    <3>6. \A p \in Created : MissesDdl(p, now)' <=> MissesDdl(p, t)
      BY <3>2, <3>4 DEF MissesDdl
    <3>7. \A p \in Created : MissesDdl(p, now) => MissesDdl(p, t)
      <4>1. \A p \in Packet : encode[p] \in Nat
        BY DEF IInv, TypeOK, Time
      <4>2. now \in Nat /\ t \in Nat
        BY DEF IInv, TypeOK, Time
      <4> QED
        BY <3>2, <3>5, <4>1, <4>2 DEF MissesDdl
    <3>8. history' = history \ Late'
      BY <3>2, <3>3, <3>4, <3>5, <3>6 DEF Late
    <3>9. Late \subseteq Late' /\ Late' \in SUBSET Created
      BY <3>4, <3>6, <3>7 DEF Late
    <3> QED
      BY <3>4, <3>8, <3>9 DEF Delivery!Expire
  <2>3. CASE ReceiveUdpPacket
    <3>1. /\ UNCHANGED <<now, groupOf, encode, history>> /\ decoded \subseteq decoded'
      BY <2>3 DEF ReceiveUdpPacket, sender, objects
    <3>2. Created' = Created /\ Late' = Late
      BY <3>1 DEF Created, Late, MissesDdl
    <3>3. decoded' \in SUBSET Created
      BY <3>2 DEF IInv, InTransit
    <3> QED
      BY <3>1, <3>2, <3>3 DEF Delivery!Deliver
  <2>4. CASE RcvACKPacket
    <3>1. PICK a \in acks : history' = history \ a
      BY <2>4 DEF RcvACKPacket
    <3>2. UNCHANGED <<now, groupOf, encode, decoded>>
      BY <2>4 DEF RcvACKPacket, objects, receiver
    <3>3. Created' = Created /\ Late' = Late
      BY <3>2 DEF Created, Late, MissesDdl
    <3>4. a \subseteq decoded
      BY DEF IInv, InTransit
    <3> QED
      BY <3>1, <3>2, <3>3, <3>4 DEF Delivery!Settle
  <2>5. CASE SendPacket \/ UNCHANGED vars
    <3>1. UNCHANGED <<now, groupOf, encode, history, decoded>>
      BY <2>5 DEF SendPacket, vars, sender, receiver, objects
    <3>2. Created' = Created /\ Late' = Late
      BY <3>1 DEF Created, Late, MissesDdl
    <3> QED
      BY <3>1, <3>2
  <2> QED
    BY <2>1, <2>2, <2>3, <2>4, <2>5 DEF Next
<1>3. IInv /\ IInv' /\ [Next]_vars =>
        [Delivery!Offer \/ Delivery!Deliver \/ Delivery!Expire \/ Delivery!Settle]_
          <<Created, Late, decoded, history>>
  BY <1>2
<1> QED
  BY <1>1, <1>3, Invariance, PTL DEF Spec, ImplementsDelivery, Delivery!Spec

=============================================================================
