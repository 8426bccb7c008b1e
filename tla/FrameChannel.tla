---------------------------- MODULE FrameChannel ----------------------------
(***************************************************************************)
(* What the ground repeater promises to the USB network card: a bounded    *)
(* first-in first-out channel.  A message is accepted at one end, at most  *)
(* Capacity messages are on their way, and the other end delivers them     *)
(* whole, once, in the order in which they were accepted.                  *)
(***************************************************************************)
EXTENDS Naturals, Sequences

CONSTANTS Messages,  \* what the channel carries
          Capacity   \* how many accepted messages may wait

VARIABLES accepted,  \* every message accepted so far, in order
          delivered  \* every message delivered so far, in order

chanVars == <<accepted, delivered>>

ChanInit == accepted = <<>> /\ delivered = <<>>

Accept(m) == /\ Len(accepted) - Len(delivered) < Capacity
             /\ accepted' = Append(accepted, m)
             /\ UNCHANGED delivered

Deliver == /\ Len(delivered) < Len(accepted)
           /\ delivered' = Append(delivered, accepted[Len(delivered) + 1])
           /\ UNCHANGED accepted

ChanNext == Deliver \/ \E m \in Messages : Accept(m)

ChanSafety == ChanInit /\ [][ChanNext]_chanVars

ChanSpec == ChanSafety /\ WF_chanVars(Deliver)
=============================================================================
