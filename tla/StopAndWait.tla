---------------------------- MODULE StopAndWait ----------------------------
(***************************************************************************)
(* What the HARQ processes of a scheduler promise, whatever the timers,    *)
(* lists and shares of symbols that bring it about: each process stops     *)
(* after a transmission and waits for its answer; a block that was         *)
(* received, or has had all its transmissions, leaves the process at the   *)
(* next round; no other block is sent twice, and no block is abandoned     *)
(* that may still be answered.                                             *)
(***************************************************************************)
EXTENDS Naturals

CONSTANTS
  Proc,     \* the processes
  MaxTries  \* the transmissions that a block may have

VARIABLES
  phase,  \* what the process knows of the last transmission of its block
  tries   \* the transmissions its block has had

\* free: no block.  sent: the answer is to come.  acked, nacked: it has come.
\* silent: no answer will ever come, or the one that came has been lost.
Phase == {"free", "sent", "acked", "nacked", "silent"}

Init ==
  /\ phase = [p \in Proc |-> "free"]
  /\ tries = [p \in Proc |-> 0]

Becomes(p, ph, n) == phase'[p] = ph /\ tries'[p] = n

Stays(p) == Becomes(p, phase[p], tries[p])

\* The last transmission of one process is answered, or never will be.
Answer ==
  \E p \in Proc :
    /\ phase[p] = "sent"
    /\ \E answer \in {"acked", "nacked", "silent"} : Becomes(p, answer, tries[p])
    /\ \A q \in Proc \ {p} : Stays(q)

\* The process has no use for its block any more.
Over(p) ==
  \/ phase[p] \in {"free", "acked", "silent"}
  \/ phase[p] = "nacked" /\ tries[p] = MaxTries

MayRetry(p) == phase[p] = "nacked" /\ tries[p] < MaxTries

\* The process waits: for its answer, or with a NACK for a round to come.
Wait(p) == (phase[p] \in {"free", "sent", "silent"} \/ MayRetry(p)) /\ Stays(p)

Resend(p) == MayRetry(p) /\ Becomes(p, "sent", tries[p] + 1)

\* The round forgets the NACK.
Drop(p) == MayRetry(p) /\ Becomes(p, "silent", tries[p])

Close(p) == Over(p) /\ Becomes(p, "free", 0)

Begin(p) == Over(p) /\ Becomes(p, "sent", 1)

\* The scheduler goes through all its processes.
Round == \A p \in Proc : Wait(p) \/ Resend(p) \/ Drop(p) \/ Close(p) \/ Begin(p)

Next ==
  /\ phase' \in [Proc -> Phase]
  /\ tries' \in [Proc -> 0 .. MaxTries]
  /\ Answer \/ Round

Spec == Init /\ [][Next]_<<phase, tries>>
=============================================================================
