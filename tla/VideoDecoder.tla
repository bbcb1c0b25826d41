---------------------------- MODULE VideoDecoder ----------------------------
(***************************************************************************)
(* The video decoder of the game client: it collects the packets of each   *)
(* frame, plays complete frames in the order of their numbers, and gives   *)
(* up frames that are a deadline behind the newest one.  Packets are lost, *)
(* sent again, recovered by FEC and duplicated: they come in any order.    *)
(*                                                                         *)
(* The loops of DecodeDataPacket are given by what they amount to.  Of a   *)
(* frame the model keeps whether some or all of its packets have come.     *)
(***************************************************************************)
EXTENDS Integers, FiniteSets

CONSTANTS
  MaxFrame,  \* bound: the last frame that is sent
  Lag        \* delay_ddl / m_frameInterval, in frames

\* The deadline is not shorter than the time between two frames.
ASSUME DecoderAssumption ==
  /\ MaxFrame \in Nat
  /\ Lag \in Nat \ {0}

Frame == 0 .. MaxFrame

VARIABLES
  unplayed,    \* unplayed_frames: "none" where there is no entry
  played,      \* played_frames: "no" entry, a frame ("data"), a null pointer
  maxFrame,    \* max_frame_id (min_frame_id is always 0)
  lastPlayed,  \* m_lastPlayedFrameId
  decoded,     \* history: the frames announced as decoded
  acked,       \* history: the frames ReplyFrameAck was called for
  client       \* "running", "stopped", or "aborted" by an NS_ASSERT

vars == <<unplayed, played, maxFrame, lastPlayed, decoded, acked, client>>

Init ==
  /\ unplayed = [f \in Frame |-> "none"]
  /\ played = [f \in Frame |-> "no"]
  /\ maxFrame = 0
  /\ lastPlayed = -1
  /\ decoded = {}
  /\ acked = {}
  /\ client = "running"

-----------------------------------------------------------------------------

\* Where a loop ends that plays the complete frames of u from g on, up to the
\* first that is not: g - 1 when there is none.  Fault: one frame too far.
FaultRunEnds(u, g) ==
  {r \in g .. MaxFrame + 1 :
     /\ \A h \in g .. r - 1 : u[h] = "complete"
     /\ r <= MaxFrame => u[r] # "complete"}

RunEnds(u, g) ==
  {r \in g - 1 .. MaxFrame :
     /\ \A h \in g .. r : u[h] = "complete"
     /\ r < MaxFrame => u[r + 1] # "complete"}

\* The frames that a packet of frame f makes the outer loop discard.  Fault: the
\* deadline itself is not yet too late.
FaultLate(f) == lastPlayed + 1 .. f - Lag - 1

Late(f) == lastPlayed + 1 .. f - Lag

\* The last frame dealt with when the loop is over: behind each frame it
\* discards, an inner loop plays what is complete.  Fault: no inner loop.
FaultDiscardEnds(f) == IF Late(f) = {} THEN {lastPlayed} ELSE {f - Lag}

DiscardEnds(f) ==
  IF Late(f) = {} THEN {lastPlayed} ELSE RunEnds(unplayed, f - Lag + 1)

\* The inner loop plays a frame that the outer loop has still before it.
PlayedThenDiscarded(f) ==
  {g \in Late(f) : g > lastPlayed + 1 /\ unplayed[g] = "complete"}

\* m_lastPlayedFrameId then: the outer loop sets it back when it discards a
\* frame out of a run that the inner loop has played.  Fault: the inner loop
\* does not move it.
FaultLastAfterDiscard(f, r) == IF Late(f) = {} THEN r ELSE f - Lag

LastAfterDiscard(f, r) ==
  IF f - Lag \in PlayedThenDiscarded(f) THEN f - Lag ELSE r

\* unplayed_frames then.
Kept(r) == [g \in Frame |-> IF g \in lastPlayed + 1 .. r THEN "none" ELSE unplayed[g]]

\* What the outer loop moves to played_frames[g]: a null pointer when there is
\* no such entry in unplayed_frames, or no longer.
Discarded(f, g) ==
  IF unplayed[g] = "none" \/ g \in PlayedThenDiscarded(f) THEN "null" ELSE "data"

\* Where playing ends when frame f of u has got a packet: only a complete frame
\* that is the next one plays, with those behind it (frame 0 by itself).
\* Fault: a complete frame need not be the next.
FaultPlayEnds(u, f, last) == IF u[f] = "complete" THEN RunEnds(u, f) ELSE {f - 1}

PlayEnds(u, f, last) ==
  IF u[f] # "complete" THEN {f - 1}
  ELSE IF f = 0 THEN {0}
  ELSE IF f = last + 1 THEN RunEnds(u, f)
  ELSE {f - 1}

\* Frames already played are skipped.  Fault: they are not.
FaultWanted(f) == TRUE

Wanted(f) == played[f] = "no"

\* A packet of frame f, after which the frame is complete or not.
DecodeDataPacket(f, complete) ==
  /\ client = "running"
  /\ Wanted(f)
  /\ \E r \in DiscardEnds(f) :
       LET last == LastAfterDiscard(f, r)
           run == (lastPlayed + 1 .. r) \ Late(f)
           filled == [Kept(r) EXCEPT ![f] = IF complete THEN "complete" ELSE "partial"]
       IN  /\ Kept(r)[f] = "complete" => complete
           /\ \E e \in PlayEnds(filled, f, last) :
                /\ unplayed' = [g \in Frame |-> IF g \in f .. e THEN "none" ELSE filled[g]]
                /\ played' = [g \in Frame |->
                                IF g \in Late(f) THEN Discarded(f, g)
                                ELSE IF g \in run \cup (f .. e) THEN "data" ELSE played[g]]
                /\ lastPlayed' = IF f .. e = {} THEN last ELSE e
                /\ decoded' = decoded \cup PlayedThenDiscarded(f) \cup run \cup (f .. e)
                /\ acked' = IF f = 0 THEN acked ELSE acked \cup (f .. e)
  /\ maxFrame' = IF f > maxFrame THEN f ELSE maxFrame
  /\ UNCHANGED client

PlayedFrames == {f \in Frame : played[f] # "no"}

\* "ddl miss rate = missed_frames / all_frames": the missed frames.
MissedFrames == maxFrame + 1 - Cardinality(PlayedFrames)

\* The client stops and puts out its statistics: GetDDLMissRate goes through
\* the played frames and asks each for its delay.
GetDDLMissRate ==
  /\ client = "running"
  /\ client' = IF \E f \in Frame : played[f] = "null" THEN "aborted" ELSE "stopped"
  /\ UNCHANGED <<unplayed, played, maxFrame, lastPlayed, decoded, acked>>

Next ==
  \/ \E f \in Frame, complete \in BOOLEAN : DecodeDataPacket(f, complete)
  \/ GetDDLMissRate

Spec == Init /\ [][Next]_vars

-----------------------------------------------------------------------------

\* The types of the variables.
TypeOK ==
  /\ unplayed \in [Frame -> {"none", "partial", "complete"}]
  /\ played \in [Frame -> {"no", "data", "null"}]
  /\ maxFrame \in Frame
  /\ lastPlayed \in Frame \cup {-1}
  /\ decoded \subseteq Frame
  /\ acked \subseteq Frame
  /\ client \in {"running", "stopped", "aborted"}

\* The decoder follows the newest frame at the distance of the deadline: what it
\* still collects lies within that window, never among the played frames, and
\* so never grows beyond it, whatever packets are lost, late or duplicated.
WindowBounded ==
  /\ lastPlayed >= maxFrame - Lag
  /\ \A f \in Frame : unplayed[f] # "none" =>
       f \in maxFrame - Lag + 1 .. maxFrame /\ f \notin PlayedFrames

\* A complete frame that directly follows the played ones is normally played at
\* once.  Two kinds wait: frame 1, since playing frame 0 does not look for what
\* follows it; and any frame after the discarding loop has set
\* m_lastPlayedFrameId back to a frame it had shown and replaced by a null
\* pointer.  The latter wait no longer than until the frame before them is a
\* deadline behind the newest one.
ReadyWaits ==
  \A f \in Frame \ {1} :
    unplayed[f] = "complete" /\ 0 .. f - 1 \subseteq PlayedFrames =>
      /\ f - 1 > maxFrame - Lag
      /\ lastPlayed < f - 1 /\ lastPlayed \in decoded /\ played[lastPlayed] = "null"

\* A complete frame is not thrown away: whether it plays in its turn, from the
\* discarding loop or after such a wait, it leaves unplayed_frames by being
\* shown.  Only frame 1 may be discarded complete.
CompleteIsShown ==
  [][\A f \in Frame \ {1} :
       unplayed[f] = "complete" /\ unplayed'[f] # "complete" => f \in decoded']_vars

\* ACKs go out in the order of the frames, for no frame that was played before
\* or that lies before a played one: the sender counts every ACK as a
\* finished frame without looking for doubles.
AckedInOrder ==
  [][\A f \in acked' \ acked, g \in decoded : g < f]_vars

\* Frames are played in their order, each one once, although the loop that
\* discards frames goes a second time over frames it has just played.
Order == INSTANCE FrameOrder WITH passed <- PlayedFrames, shown <- decoded

ImplementsOrder == Order!Spec

\* What GetDDLMissRate promises ("ddl miss rate = missed_frames / all_frames"):
\* a frame that was discarded is a missed one.
DiscardedAreMissed ==
  Cardinality(PlayedFrames \ decoded) <= MissedFrames

\* What Ptr asserts of a pointer through which GetFrameDelay is called: that it
\* is not zero.
NoNullFrame == client # "aborted"
=============================================================================
