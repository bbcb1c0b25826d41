------------------------- MODULE VideoDecoderProofs -------------------------
(***************************************************************************)
(* Proofs about VideoDecoder, for videos of any length and any deadline.   *)
(***************************************************************************)
EXTENDS VideoDecoder, TLAPS

(***************************************************************************)
(* The inductive invariant: the played frames are a beginning of the       *)
(* video that reaches at least to m_lastPlayedFrameId (further when the    *)
(* discarding loop has set it back, and then what lies between was shown), *)
(* what was decoded is played, and what is complete next in turn is not    *)
(* left behind.                                                            *)
(***************************************************************************)
PlayedPrefix ==
  /\ \A f \in PlayedFrames : 0 .. f \subseteq PlayedFrames
  /\ 0 .. lastPlayed \subseteq PlayedFrames

\* Behind m_lastPlayedFrameId itself only frame 1 is complete.
NextIsIncomplete ==
  \A f \in Frame : unplayed[f] = "complete" /\ f = lastPlayed + 1 => f = 1

\* Where frames behind m_lastPlayedFrameId have been played, they were shown, and
\* so was the frame it was set back to, which is a null pointer by now.
SetBack ==
  \A g \in PlayedFrames :
    g > lastPlayed =>
      g \in decoded /\ lastPlayed \in decoded /\ played[lastPlayed] = "null"

IInv ==
  /\ TypeOK
  /\ PlayedPrefix
  /\ decoded \subseteq PlayedFrames
  /\ WindowBounded
  /\ NextIsIncomplete
  /\ SetBack

\* What a packet of frame f does, in terms of the frame r with which discarding
\* is over, the last frame it plays e, and m_lastPlayedFrameId in between.
LEMMA PacketEffect ==
  ASSUME IInv,
         NEW f \in Frame, NEW complete \in BOOLEAN,
         DecodeDataPacket(f, complete)
  PROVE  \E r, e, last \in -1 .. MaxFrame :
           /\ lastPlayed <= last /\ f - Lag <= last /\ last <= r /\ r < f
           /\ f - 1 <= e
           /\ f <= e => f = last + 1 \/ (f = 0 /\ e = 0)
           /\ PlayedFrames' = PlayedFrames \cup (lastPlayed + 1 .. r) \cup (f .. e)
           /\ lastPlayed' = IF f <= e THEN e ELSE last
           /\ \A g \in Frame : unplayed'[g] # "none" =>
                /\ g \notin lastPlayed + 1 .. r
                /\ g \notin f .. e
                /\ g # f => unplayed'[g] = unplayed[g]
           /\ \A g \in f .. e : g # f => unplayed[g] = "complete"
           /\ \A g \in decoded' : g \in decoded \/ unplayed[g] = "complete" \/ g = f
           /\ decoded' \subseteq decoded \cup (lastPlayed + 1 .. r) \cup (f .. e)
           /\ acked' \subseteq acked \cup (f .. e)
           /\ \A g \in Frame \ {1} :
                unplayed[g] = "complete" /\ unplayed'[g] # "complete" => g \in decoded'
           /\ NextIsIncomplete'
           /\ SetBack'
           /\ TypeOK'
<1> USE DecoderAssumption DEF Frame
<1>1. PICK r \in DiscardEnds(f) :
        LET last == LastAfterDiscard(f, r)
            run == (lastPlayed + 1 .. r) \ Late(f)
            filled == [Kept(r) EXCEPT ![f] = IF complete THEN "complete" ELSE "partial"]
        IN  /\ Kept(r)[f] = "complete" => complete
            /\ \E e \in PlayEnds(filled, f, last) :
                 /\ unplayed' = [g \in Frame |-> IF g \in f .. e THEN "none" ELSE filled[g]]
                 /\ played' = [g \in Frame |->
                                 IF g \in Late(f) THEN Discarded(f, g)
                                 ELSE IF g \in run \cup (f .. e) THEN "data" ELSE played[g]]
                 /\ lastPlayed' = IF f .. e = {} THEN last ELSE e
                 /\ decoded' = decoded \cup PlayedThenDiscarded(f) \cup run \cup (f .. e)
                 /\ acked' = IF f = 0 THEN acked ELSE acked \cup (f .. e)
  BY DEF DecodeDataPacket
<1> DEFINE last == LastAfterDiscard(f, r)
           run == (lastPlayed + 1 .. r) \ Late(f)
           filled == [Kept(r) EXCEPT ![f] = IF complete THEN "complete" ELSE "partial"]
<1>2. PICK e \in PlayEnds(filled, f, last) :
        /\ unplayed' = [g \in Frame |-> IF g \in f .. e THEN "none" ELSE filled[g]]
        /\ played' = [g \in Frame |->
                        IF g \in Late(f) THEN Discarded(f, g)
                        ELSE IF g \in run \cup (f .. e) THEN "data" ELSE played[g]]
        /\ lastPlayed' = IF f .. e = {} THEN last ELSE e
        /\ decoded' = decoded \cup PlayedThenDiscarded(f) \cup run \cup (f .. e)
        /\ acked' = IF f = 0 THEN acked ELSE acked \cup (f .. e)
  BY <1>1
<1>3. /\ lastPlayed \in -1 .. MaxFrame /\ maxFrame \in 0 .. MaxFrame
      /\ lastPlayed >= maxFrame - Lag
      /\ f \notin PlayedFrames /\ lastPlayed < f
      /\ \A g \in Frame : unplayed[g] # "none" => g <= maxFrame /\ g \notin PlayedFrames
  BY DEF IInv, TypeOK, WindowBounded, PlayedPrefix, DecodeDataPacket, Wanted, PlayedFrames
<1>4. /\ r \in -1 .. MaxFrame /\ lastPlayed <= r /\ f - Lag <= r /\ r < f
      /\ \A g \in run : unplayed[g] = "complete"
  <2>1. CASE Late(f) = {}
    <3>1. r = lastPlayed
      BY <1>1, <2>1 DEF DiscardEnds
    <3>2. lastPlayed + 1 > f - Lag
      BY <1>3, <2>1 DEF Late
    <3> QED
      BY <1>3, <3>1, <3>2
  <2>2. CASE Late(f) # {}
    <3>1. r \in RunEnds(unplayed, f - Lag + 1)
      BY <1>1, <2>2 DEF DiscardEnds
    <3>2. lastPlayed + 1 <= f - Lag
      BY <1>3, <2>2 DEF Late
    <3>3. /\ r \in f - Lag .. MaxFrame
          /\ \A h \in f - Lag + 1 .. r : unplayed[h] = "complete"
      BY <3>1 DEF RunEnds
    <3>4. r < f
      <4>1. f > maxFrame
        BY <1>3, <3>2
      <4>2. unplayed[f] # "complete"
        BY <1>3, <4>1
      <4> QED
        BY <3>3, <4>2
    <3> QED
      BY <1>3, <3>2, <3>3, <3>4 DEF Late
  <2> QED
    BY <2>1, <2>2
<1>5. /\ last \in -1 .. MaxFrame /\ lastPlayed <= last /\ f - Lag <= last /\ last <= r
      /\ PlayedThenDiscarded(f) \subseteq lastPlayed + 1 .. r
      /\ \A g \in PlayedThenDiscarded(f) : unplayed[g] = "complete"
  BY <1>3, <1>4 DEF LastAfterDiscard, PlayedThenDiscarded, Late
<1>6. /\ filled \in [Frame -> {"none", "partial", "complete"}]
      /\ \A g \in Frame : g # f => filled[g] = Kept(r)[g]
      /\ \A g \in Frame : Kept(r)[g] # "none" =>
           g \notin lastPlayed + 1 .. r /\ Kept(r)[g] = unplayed[g]
      /\ filled[f] # "none"
  BY DEF IInv, TypeOK, Kept
<1>7. /\ e \in -1 .. MaxFrame /\ f - 1 <= e
      /\ f <= e => (f # 0 /\ f = last + 1) \/ (f = 0 /\ e = 0)
      /\ \A g \in f .. e : g # f => unplayed[g] = "complete"
      /\ (f # 0 /\ f = last + 1) => (e < MaxFrame => filled[e + 1] # "complete")
  <2> HIDE DEF last, filled
  <2>1. CASE filled[f] # "complete"
    <3>1. e = f - 1
      BY <1>2, <2>1 DEF PlayEnds
    <3> QED
      BY <2>1, <3>1
  <2>2. CASE filled[f] = "complete" /\ f = 0
    <3>1. e = 0
      BY <1>2, <2>2 DEF PlayEnds
    <3> QED
      BY <2>2, <3>1
  <2>3. CASE filled[f] = "complete" /\ f # 0 /\ f = last + 1
    <3>1. e \in RunEnds(filled, f)
      BY <1>2, <2>3 DEF PlayEnds
    <3>2. /\ e \in f - 1 .. MaxFrame
          /\ \A h \in f .. e : filled[h] = "complete"
          /\ e < MaxFrame => filled[e + 1] # "complete"
      BY <3>1 DEF RunEnds
    <3>3. \A h \in f .. e : h # f => unplayed[h] = "complete"
      BY <1>6, <3>2
    <3> QED
      BY <2>3, <3>2, <3>3
  <2>4. CASE filled[f] = "complete" /\ f # 0 /\ f # last + 1
    <3>1. e = f - 1
      BY <1>2, <2>4 DEF PlayEnds
    <3> QED
      BY <2>4, <3>1
  <2> QED
    BY <2>1, <2>2, <2>3, <2>4
<1>8. lastPlayed' = IF f <= e THEN e ELSE last
  <2> HIDE DEF last
  <2> QED
    BY <1>2, <1>7
<1>9. played' \in [Frame -> {"no", "data", "null"}]
  BY <1>2 DEF IInv, TypeOK, Discarded
<1>10. PlayedFrames' = PlayedFrames \cup (lastPlayed + 1 .. r) \cup (f .. e)
  <2>1. \A g \in Frame : played'[g] # "no" <=> played[g] # "no" \/ g \in lastPlayed + 1 .. r \/ g \in f .. e
    BY <1>2, <1>3, <1>4 DEF Late, Discarded
  <2>2. lastPlayed + 1 .. r \subseteq Frame /\ f .. e \subseteq Frame
    BY <1>3, <1>4, <1>7
  <2> QED
    BY <2>1, <2>2 DEF PlayedFrames
<1>11. \A g \in Frame : unplayed'[g] # "none" =>
         /\ g \notin lastPlayed + 1 .. r
         /\ g \notin f .. e
         /\ g # f => unplayed'[g] = unplayed[g]
  <2> HIDE DEF filled
  <2>1. \A g \in Frame : unplayed'[g] # "none" => g \notin f .. e /\ unplayed'[g] = filled[g]
    BY <1>2
  <2>2. f \notin lastPlayed + 1 .. r
    BY <1>4
  <2> QED
    BY <1>6, <2>1, <2>2
<1>12. NextIsIncomplete'
  <2> SUFFICES ASSUME NEW g \in Frame, unplayed'[g] = "complete", g = lastPlayed' + 1
               PROVE  g = 1
    BY DEF NextIsIncomplete
  <2>1. unplayed'[g] = filled[g] /\ g \notin f .. e /\ g \notin lastPlayed + 1 .. r
    <3> HIDE DEF filled
    <3> QED
      BY <1>2, <1>11
  <2> HIDE DEF last, filled
  <2>2. CASE f <= e /\ f = 0 /\ e = 0
    BY <1>8, <2>2
  <2>3. CASE f <= e /\ f # 0
    BY <1>7, <1>8, <2>1, <2>3
  <2>4. CASE ~(f <= e)
    <3>1. g = last + 1
      BY <1>8, <2>4
    <3>2. g # f
      <4> SUFFICES ASSUME g = f  PROVE FALSE
        OBVIOUS
      <4>1. filled[f] = "complete" /\ f = last + 1 /\ e = f - 1
        BY <1>7, <2>1, <2>4, <3>1
      <4>2. f # 0
        <5>1. f = 0 => e = 0
          BY <1>2, <4>1 DEF PlayEnds
        <5> QED
          BY <4>1, <5>1
      <4> QED
        BY <1>7, <4>1, <4>2
    <3>3. unplayed[g] = "complete"
      BY <1>11, <2>1, <3>2
    <3>4. g = r + 1
      BY <1>3, <1>4, <1>5, <2>1, <3>1
    <3>5. CASE Late(f) = {}
      <4>1. r = lastPlayed
        BY <1>1, <3>5 DEF DiscardEnds
      <4> QED
        BY <3>3, <3>4, <4>1 DEF IInv, NextIsIncomplete
    <3>6. CASE Late(f) # {}
      <4>1. r \in RunEnds(unplayed, f - Lag + 1)
        BY <1>1, <3>6 DEF DiscardEnds
      <4> QED
        BY <1>4, <3>3, <3>4, <4>1 DEF RunEnds
    <3> QED
      BY <3>5, <3>6
  <2> QED
    BY <1>7, <2>2, <2>3, <2>4
<1>13. TypeOK'
  <2>1. unplayed' \in [Frame -> {"none", "partial", "complete"}]
    <3> HIDE DEF filled
    <3> QED
      BY <1>2, <1>6
  <2>2. lastPlayed' \in Frame \cup {-1}
    <3> HIDE DEF last
    <3> QED
      BY <1>5, <1>7, <1>8
  <2>3. decoded' \subseteq Frame /\ acked' \subseteq Frame
    <3>1. lastPlayed + 1 .. r \subseteq Frame /\ f .. e \subseteq Frame
      BY <1>3, <1>4, <1>7
    <3>2. decoded' \subseteq decoded \cup (lastPlayed + 1 .. r) \cup (f .. e)
      BY <1>2, <1>5
    <3>3. acked' \subseteq acked \cup (f .. e)
      BY <1>2
    <3> HIDE DEF last, run
    <3> QED
      BY <3>1, <3>2, <3>3 DEF IInv, TypeOK
  <2>4. maxFrame' \in Frame /\ client' \in {"running", "stopped", "aborted"}
    BY DEF DecodeDataPacket, IInv, TypeOK
  <2> QED
    BY <1>9, <2>1, <2>2, <2>3, <2>4 DEF TypeOK
<1>14. /\ \A g \in decoded' : g \in decoded \/ unplayed[g] = "complete" \/ g = f
       /\ decoded' \subseteq decoded \cup (lastPlayed + 1 .. r) \cup (f .. e)
       /\ acked' \subseteq acked \cup (f .. e)
  BY <1>2, <1>4, <1>5, <1>7
<1>15. SetBack'
  <2> SUFFICES ASSUME NEW g \in PlayedFrames', g > lastPlayed'
               PROVE  /\ g \in decoded'
                      /\ lastPlayed' \in decoded'
                      /\ played'[lastPlayed'] = "null"
    BY DEF SetBack
  <2>1. \A h \in PlayedFrames : h \in 0 .. MaxFrame /\ h < f
    BY <1>3 DEF IInv, PlayedPrefix, PlayedFrames
  <2> HIDE DEF last
  <2>2. ~(f <= e)
    BY <1>4, <1>7, <1>8, <1>10, <2>1
  <2>3. /\ lastPlayed' = last /\ f .. e = {} /\ g > last
        /\ g \in PlayedFrames \/ g \in lastPlayed + 1 .. r
    BY <1>7, <1>8, <1>10, <2>2
  <2>4. /\ decoded \subseteq decoded' /\ run \subseteq decoded'
        /\ PlayedThenDiscarded(f) \subseteq decoded'
    BY <1>2
  <2>5. \A h \in PlayedFrames : h > lastPlayed =>
          h \in decoded /\ lastPlayed \in decoded /\ played[lastPlayed] = "null"
    BY DEF IInv, SetBack
  <2>6. CASE Late(f) = {}
    <3>1. r = lastPlayed /\ last = lastPlayed
      BY <1>1, <1>3, <1>4, <1>5, <2>6 DEF DiscardEnds
    <3>2. g \in PlayedFrames /\ g > lastPlayed
      BY <1>3, <2>3, <3>1
    <3>3. lastPlayed \in Frame
      BY <1>3, <2>5, <3>2 DEF IInv, TypeOK
    <3>4. lastPlayed \notin run \cup (f .. e)
      BY <1>3, <2>3
    <3>5. played'[lastPlayed] = played[lastPlayed]
      BY <1>2, <2>6, <3>3, <3>4
    <3> QED
      BY <2>3, <2>4, <2>5, <3>1, <3>2, <3>5
  <2>7. CASE Late(f) # {}
    <3>1. lastPlayed + 1 <= f - Lag /\ f - Lag \in Late(f) /\ f - Lag \in Frame
      BY <1>3, <2>7 DEF Late
    <3>2. CASE f - Lag \in PlayedThenDiscarded(f)
      <4>1. last = f - Lag
        BY <3>2 DEF last, LastAfterDiscard
      <4>2. played'[last] = "null"
        BY <1>2, <3>1, <3>2, <4>1 DEF Discarded
      <4>3. g \in decoded'
        <5>1. CASE g \in PlayedFrames
          BY <1>3, <2>1, <2>3, <2>4, <2>5, <3>1, <4>1, <5>1
        <5>2. CASE g \in lastPlayed + 1 .. r
          <6>1. g \notin Late(f)
            BY <1>3, <1>4, <2>3, <4>1, <5>2 DEF Late
          <6> QED
            BY <2>4, <5>2, <6>1
        <5> QED
          BY <2>3, <5>1, <5>2
      <4> QED
        BY <2>3, <2>4, <3>2, <4>1, <4>2, <4>3
    <3>3. CASE f - Lag \notin PlayedThenDiscarded(f)
      <4>1. last = r
        BY <3>3 DEF last, LastAfterDiscard
      <4>2. g \in PlayedFrames /\ r < g /\ lastPlayed < r /\ r \in Frame
        BY <1>3, <1>4, <2>1, <2>3, <3>1, <4>1
      <4>3. r \in PlayedFrames
        BY <1>4, <2>1, <4>2 DEF IInv, PlayedPrefix
      <4>4. r \in decoded
        BY <1>3, <1>4, <2>5, <4>2, <4>3
      <4>5. unplayed[r] = "none"
        BY <1>3, <4>2, <4>3
      <4>6. r \in Late(f)
        BY <1>3, <1>4, <4>2, <4>5
      <4>7. played'[r] = "null"
        BY <1>2, <4>2, <4>5, <4>6 DEF Discarded
      <4>8. g \in decoded
        BY <1>3, <1>4, <2>1, <2>5, <4>2
      <4> QED
        BY <2>3, <2>4, <4>1, <4>4, <4>7, <4>8
    <3> QED
      BY <3>2, <3>3
  <2> QED
    BY <2>6, <2>7
<1>16. ASSUME NEW g \in Frame \ {1}, unplayed[g] = "complete", unplayed'[g] # "complete"
       PROVE  g \in decoded'
  <2>1. CASE g \in f .. e
    BY <1>2, <2>1
  <2>2. CASE g \notin f .. e
    <3>1. unplayed'[g] = filled[g]
      <4> HIDE DEF filled
      <4> QED
        BY <1>2, <2>2
    <3>2. CASE g \notin lastPlayed + 1 .. r
      <4>1. Kept(r)[g] = "complete"
        BY <1>16, <3>2 DEF Kept
      <4>2. filled[g] = "complete"
        <5>1. g = f => complete
          BY <1>1, <4>1
        <5>2. Kept(r) \in [Frame -> {"none", "partial", "complete"}]
          BY DEF IInv, TypeOK, Kept
        <5> QED
          BY <4>1, <5>1, <5>2
      <4> QED
        BY <1>16, <3>1, <4>2
    <3>3. CASE g \in lastPlayed + 1 .. r
      <4>1. g \notin Late(f) => g \in run
        BY <3>3
      <4>2. g \in Late(f) => g > lastPlayed + 1
        BY <1>3, <1>16 DEF Late, IInv, NextIsIncomplete
      <4>3. g \in Late(f) => g \in PlayedThenDiscarded(f)
        BY <1>16, <4>2 DEF PlayedThenDiscarded
      <4> QED
        BY <1>2, <4>1, <4>3
    <3> QED
      BY <3>2, <3>3
  <2> QED
    BY <2>1, <2>2
<1> HIDE DEF last
<1> QED
  BY <1>3, <1>4, <1>5, <1>7, <1>8, <1>10, <1>11, <1>12, <1>13, <1>14, <1>15, <1>16

LEMMA InitIInv == Init => IInv
<1> SUFFICES ASSUME Init PROVE IInv
  OBVIOUS
<1>1. TypeOK /\ lastPlayed = -1 /\ maxFrame = 0
  BY DecoderAssumption DEF Init, TypeOK, Frame
<1>2. PlayedFrames = {} /\ \A f \in Frame : unplayed[f] = "none"
  BY DEF Init, PlayedFrames
<1>3. PlayedPrefix
  BY <1>1, <1>2 DEF PlayedPrefix
<1>4. WindowBounded
  BY <1>1, <1>2, DecoderAssumption DEF WindowBounded
<1>5. NextIsIncomplete /\ SetBack
  BY <1>2 DEF NextIsIncomplete, SetBack
<1> QED
  BY <1>1, <1>2, <1>3, <1>4, <1>5 DEF IInv, Init

\* What a packet does to the order of the frames: it lengthens the played
\* beginning of the video, decodes frames that are new in it, and ACKs frames
\* behind all that were decoded before.
LEMMA PacketStep ==
  ASSUME IInv,
         NEW f \in Frame, NEW complete \in BOOLEAN,
         DecodeDataPacket(f, complete)
  PROVE  /\ IInv'
         /\ PlayedFrames \subseteq PlayedFrames'
         /\ decoded \subseteq decoded'
         /\ decoded' \ decoded \subseteq PlayedFrames' \ PlayedFrames
         /\ \A g \in acked' \ acked, h \in decoded : h < g
         /\ \A g \in Frame \ {1} :
              unplayed[g] = "complete" /\ unplayed'[g] # "complete" => g \in decoded'
<1> USE DecoderAssumption DEF Frame
<1>1. PICK r, e, last \in -1 .. MaxFrame :
        /\ lastPlayed <= last /\ f - Lag <= last /\ last <= r /\ r < f
        /\ f - 1 <= e
        /\ f <= e => f = last + 1 \/ (f = 0 /\ e = 0)
        /\ PlayedFrames' = PlayedFrames \cup (lastPlayed + 1 .. r) \cup (f .. e)
        /\ lastPlayed' = IF f <= e THEN e ELSE last
        /\ \A g \in Frame : unplayed'[g] # "none" =>
             /\ g \notin lastPlayed + 1 .. r
             /\ g \notin f .. e
             /\ g # f => unplayed'[g] = unplayed[g]
        /\ \A g \in f .. e : g # f => unplayed[g] = "complete"
        /\ \A g \in decoded' : g \in decoded \/ unplayed[g] = "complete" \/ g = f
        /\ decoded' \subseteq decoded \cup (lastPlayed + 1 .. r) \cup (f .. e)
        /\ acked' \subseteq acked \cup (f .. e)
        /\ \A g \in Frame \ {1} :
             unplayed[g] = "complete" /\ unplayed'[g] # "complete" => g \in decoded'
        /\ NextIsIncomplete'
        /\ SetBack'
        /\ TypeOK'
  BY PacketEffect
<1>2. /\ lastPlayed \in -1 .. MaxFrame /\ maxFrame \in 0 .. MaxFrame
      /\ lastPlayed >= maxFrame - Lag
      /\ f \notin PlayedFrames
      /\ \A g \in Frame : unplayed[g] # "none" => g <= maxFrame /\ g \notin PlayedFrames
      /\ PlayedFrames \subseteq Frame
      /\ 0 .. lastPlayed \subseteq PlayedFrames
  BY DEF IInv, TypeOK, WindowBounded, PlayedPrefix, DecodeDataPacket, Wanted, PlayedFrames
<1>3. \A g \in PlayedFrames : g < f
  BY <1>2 DEF IInv, PlayedPrefix
<1>4. maxFrame' = IF f > maxFrame THEN f ELSE maxFrame
  BY DEF DecodeDataPacket
<1>5. 0 .. r \subseteq PlayedFrames' /\ 0 .. last \subseteq PlayedFrames'
  BY <1>1, <1>2
<1>6. PlayedPrefix'
  <2>1. ASSUME NEW g \in f .. e  PROVE  0 .. g \subseteq PlayedFrames'
    BY <1>1, <1>5, <2>1
  <2>2. ASSUME NEW g \in PlayedFrames'  PROVE  0 .. g \subseteq PlayedFrames'
    <3>1. CASE g \in PlayedFrames
      BY <1>1, <3>1 DEF IInv, PlayedPrefix
    <3>2. CASE g \in lastPlayed + 1 .. r
      BY <1>2, <1>5, <3>2
    <3>3. CASE g \in f .. e
      BY <2>1, <3>3
    <3> QED
      BY <1>1, <2>2, <3>1, <3>2, <3>3
  <2>3. 0 .. lastPlayed' \subseteq PlayedFrames'
    <3>1. CASE f <= e
      BY <1>1, <2>1, <3>1
    <3>2. CASE ~(f <= e)
      BY <1>1, <1>5, <3>2
    <3> QED
      BY <3>1, <3>2
  <2> QED
    BY <2>2, <2>3 DEF PlayedPrefix
<1>7. WindowBounded'
  <2>1. lastPlayed' >= maxFrame' - Lag
    BY <1>1, <1>2, <1>4
  <2>2. ASSUME NEW g \in Frame, unplayed'[g] # "none"
        PROVE  g \in maxFrame' - Lag + 1 .. maxFrame' /\ g \notin PlayedFrames'
    <3>1. g \notin PlayedFrames /\ g <= maxFrame'
      BY <1>1, <1>2, <1>4, <2>2
    <3>2. g > lastPlayed /\ g \notin PlayedFrames'
      BY <1>1, <1>2, <2>2, <3>1
    <3>3. g > r
      BY <1>1, <1>2, <2>2, <3>2
    <3> QED
      BY <1>1, <1>2, <1>4, <3>1, <3>2, <3>3
  <2> QED
    BY <2>1, <2>2 DEF WindowBounded
<1>8. decoded \subseteq decoded'
  BY DEF DecodeDataPacket
<1>9. decoded' \ decoded \subseteq PlayedFrames' \ PlayedFrames
  <2> SUFFICES ASSUME NEW g \in decoded', g \notin decoded
               PROVE  g \in PlayedFrames' /\ g \notin PlayedFrames
    OBVIOUS
  <2>1. g \in PlayedFrames'
    BY <1>1
  <2>2. g \in Frame
    BY <1>1 DEF TypeOK
  <2> QED
    BY <1>1, <1>2, <2>1, <2>2
<1>10. decoded' \subseteq PlayedFrames' /\ PlayedFrames \subseteq PlayedFrames'
  BY <1>1 DEF IInv
<1>11. \A g \in acked' \ acked, h \in decoded : h < g
  BY <1>1, <1>2, <1>3 DEF IInv
<1> QED
  BY <1>1, <1>6, <1>7, <1>8, <1>9, <1>10, <1>11 DEF IInv

\* The invariant is inductive, and the statistics leave it alone.
LEMMA NextIInv == IInv /\ [Next]_vars => IInv'
<1> SUFFICES ASSUME IInv, [Next]_vars PROVE IInv'
  OBVIOUS
<1>1. CASE \E f \in Frame, complete \in BOOLEAN : DecodeDataPacket(f, complete)
  BY <1>1, PacketStep
<1>2. CASE GetDDLMissRate \/ UNCHANGED vars
  <2>1. /\ UNCHANGED <<unplayed, played, maxFrame, lastPlayed, decoded, acked>>
        /\ client' \in {"running", "stopped", "aborted"}
    BY <1>2 DEF GetDDLMissRate, vars, IInv, TypeOK
  <2> QED
    BY <2>1 DEF IInv, TypeOK, PlayedPrefix, PlayedFrames, WindowBounded,
                NextIsIncomplete, SetBack
<1> QED
  BY <1>1, <1>2 DEF Next

THEOREM Inductive == Spec => []IInv
BY InitIInv, NextIInv, PTL DEF Spec

\* The variables of the decoder keep their types.
THEOREM TypeCorrect == Spec => []TypeOK
<1>1. IInv => TypeOK
  BY DEF IInv
<1> QED
  BY <1>1, Inductive, PTL

\* What DecodeDataPacket collects stays within the deadline of the newest frame
\* and apart from what is played.
THEOREM WindowIsBounded == Spec => []WindowBounded
<1>1. IInv => WindowBounded
  BY DEF IInv
<1> QED
  BY <1>1, Inductive, PTL

\* A complete frame that waits behind played ones does so because the loop of
\* DecodeDataPacket that discards frames has set m_lastPlayedFrameId back to a
\* frame it had shown, and only until the deadline reaches the frame before it.
THEOREM ReadyFramesWait == Spec => []ReadyWaits
<1>1. IInv => ReadyWaits
  <2> SUFFICES ASSUME IInv, NEW f \in Frame \ {1}, unplayed[f] = "complete",
                      0 .. f - 1 \subseteq PlayedFrames
               PROVE  /\ f - 1 > maxFrame - Lag
                      /\ lastPlayed < f - 1
                      /\ lastPlayed \in decoded /\ played[lastPlayed] = "null"
    BY DEF ReadyWaits
  <2>1. /\ lastPlayed \in -1 .. MaxFrame /\ maxFrame \in 0 .. MaxFrame /\ f \in 0 .. MaxFrame
        /\ lastPlayed >= maxFrame - Lag /\ Lag \in Nat /\ MaxFrame \in Nat
        /\ f \notin PlayedFrames
    BY DecoderAssumption DEF IInv, TypeOK, WindowBounded, Frame
  <2>2. f > lastPlayed
    BY <2>1 DEF IInv, PlayedPrefix
  <2>3. f # lastPlayed + 1
    BY DEF IInv, NextIsIncomplete
  <2>4. lastPlayed < f - 1 /\ f - 1 \in PlayedFrames
    BY <2>1, <2>2, <2>3
  <2> QED
    BY <2>1, <2>4 DEF IInv, SetBack
<1> QED
  BY <1>1, Inductive, PTL

\* DecodeDataPacket throws no complete frame away, but frame 1: its loops show
\* what they take out of unplayed_frames.
THEOREM CompleteFramesShown == Spec => CompleteIsShown
<1>1. IInv /\ [Next]_vars =>
        [\A f \in Frame \ {1} :
           unplayed[f] = "complete" /\ unplayed'[f] # "complete" => f \in decoded']_vars
  <2> SUFFICES ASSUME IInv, Next
               PROVE  \A f \in Frame \ {1} :
                        unplayed[f] = "complete" /\ unplayed'[f] # "complete" => f \in decoded'
    OBVIOUS
  <2>1. CASE \E f \in Frame, complete \in BOOLEAN : DecodeDataPacket(f, complete)
    BY <2>1, PacketStep
  <2>2. CASE GetDDLMissRate
    BY <2>2 DEF GetDDLMissRate
  <2> QED
    BY <2>1, <2>2 DEF Next
<1> QED
  BY <1>1, Inductive, PTL DEF Spec, CompleteIsShown

\* ReplyFrameAck is called in the order of the frames.
THEOREM AcksInOrder == Spec => AckedInOrder
<1>1. IInv /\ [Next]_vars => [\A f \in acked' \ acked, g \in decoded : g < f]_vars
  <2> SUFFICES ASSUME IInv, Next
               PROVE  \A f \in acked' \ acked, g \in decoded : g < f
    OBVIOUS
  <2>1. CASE \E f \in Frame, complete \in BOOLEAN : DecodeDataPacket(f, complete)
    BY <2>1, PacketStep
  <2>2. CASE GetDDLMissRate
    BY <2>2 DEF GetDDLMissRate
  <2> QED
    BY <2>1, <2>2 DEF Next
<1> QED
  BY <1>1, Inductive, PTL DEF Spec, AckedInOrder

\* The decoder implements FrameOrder: each frame is passed once, in order, and
\* shown then or never.
THEOREM DecoderImplementsOrder == Spec => ImplementsOrder
<1>1. Init => Order!Init
  BY DEF Init, Order!Init, PlayedFrames
<1>2. IInv /\ IInv' /\ [Next]_vars => [Order!Advance]_<<PlayedFrames, decoded>>
  <2> SUFFICES ASSUME IInv, IInv', [Next]_vars
               PROVE  Order!Advance \/ UNCHANGED <<PlayedFrames, decoded>>
    OBVIOUS
  <2>1. CASE \E f \in Frame, complete \in BOOLEAN : DecodeDataPacket(f, complete)
    <3>1. /\ PlayedFrames \subseteq PlayedFrames'
          /\ decoded \subseteq decoded'
          /\ decoded' \ decoded \subseteq PlayedFrames' \ PlayedFrames
      BY <2>1, PacketStep
    <3>2. Order!Prefix(PlayedFrames')
      BY DEF IInv, PlayedPrefix, Order!Prefix
    <3>3. PlayedFrames' \in SUBSET Order!Frame
      BY DEF PlayedFrames, Frame, Order!Frame
    <3> QED
      BY <3>1, <3>2, <3>3 DEF Order!Advance
  <2>2. CASE GetDDLMissRate \/ UNCHANGED vars
    BY <2>2 DEF GetDDLMissRate, vars, PlayedFrames
  <2> QED
    BY <2>1, <2>2 DEF Next
<1> QED
  BY <1>1, <1>2, Inductive, PTL DEF Spec, ImplementsOrder, Order!Spec
=============================================================================
