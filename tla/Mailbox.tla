------------------------------- MODULE Mailbox -------------------------------
(***************************************************************************)
(* What a receiving CAN controller promises its firmware: the frames that  *)
(* arrive are delivered whole, once, and in the order they arrived.        *)
(***************************************************************************)
EXTENDS Sequences

CONSTANT Frame

VARIABLES
  pending,    \* frames that arrived and are not delivered
  delivered   \* frames the firmware has, in its order

Init ==
  /\ pending = <<>>
  /\ delivered = <<>>

Arrive(f) ==
  /\ pending' = Append(pending, f)
  /\ UNCHANGED delivered

Deliver ==
  /\ pending # <<>>
  /\ delivered' = Append(delivered, Head(pending))
  /\ pending' = Tail(pending)

Next == Deliver \/ \E f \in Frame : Arrive(f)

Spec == Init /\ [][Next]_<<pending, delivered>>
=============================================================================
