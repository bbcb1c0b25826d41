--------------------------- MODULE PacketDelivery ---------------------------
(***************************************************************************)
(* What the video application may rely on when it hands packets to the     *)
(* sender: the sender keeps a packet until the decoder has it or its       *)
(* deadline has passed, the decoder gets nothing that was not sent, and a  *)
(* packet let go is not taken up again.                                    *)
(***************************************************************************)
EXTENDS Integers

CONSTANT Packet

VARIABLES
  offered,    \* handed to the sender
  late,       \* past the deadline
  delivered,  \* handed to the decoder
  pending     \* kept by the sender for a retransmission

Init ==
  /\ offered = {}
  /\ late = {}
  /\ delivered = {}
  /\ pending = {}

Offer ==
  /\ offered' \in SUBSET Packet
  /\ offered \subseteq offered'
  /\ pending' = pending \union (offered' \ offered)
  /\ UNCHANGED <<late, delivered>>

Deliver ==
  /\ delivered' \in SUBSET offered
  /\ delivered \subseteq delivered'
  /\ UNCHANGED <<offered, late, pending>>

\* Time passes, and what is late is let go.
Expire ==
  /\ late' \in SUBSET offered
  /\ late \subseteq late'
  /\ pending' = pending \ late'
  /\ UNCHANGED <<offered, delivered>>

\* The sender learns that packets have been delivered.
Settle ==
  /\ pending' \in SUBSET pending
  /\ pending \ pending' \subseteq delivered
  /\ UNCHANGED <<offered, late, delivered>>

Spec == Init /\ [][Offer \/ Deliver \/ Expire \/ Settle]_<<offered, late, delivered, pending>>
=============================================================================
