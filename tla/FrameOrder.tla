----------------------------- MODULE FrameOrder -----------------------------
(***************************************************************************)
(* What a viewer may rely on: the frames of a video are passed in their    *)
(* order, each one once, and a frame is shown when it is passed or not at  *)
(* all.  VideoDecoder implements this.                                     *)
(***************************************************************************)
EXTENDS Integers

CONSTANT MaxFrame  \* the last frame of the video

Frame == 0 .. MaxFrame

VARIABLES
  passed,  \* the frames the player is through with
  shown    \* those of them that were shown

Init ==
  /\ passed = {}
  /\ shown = {}

\* No frame before one of P is missing in P.
Prefix(P) == \A f \in P : 0 .. f \subseteq P

\* The player goes on to some later frame and shows some of those in between.
Advance ==
  /\ passed' \in SUBSET Frame
  /\ passed \subseteq passed'
  /\ Prefix(passed')
  /\ shown \subseteq shown'
  /\ shown' \ shown \subseteq passed' \ passed

Spec == Init /\ [][Advance]_<<passed, shown>>
=============================================================================
