------------------------------ MODULE Mailbox ------------------------------
(***************************************************************************)
(* What message_box.h promises of a message box: a first-in first-out      *)
(* buffer that holds at most Capacity messages.  A message that is sent is *)
(* either accepted, and then handed to the receiver in its turn, whole and *)
(* exactly once, or refused, and then only because the box is full.        *)
(* MessageBox.tla is shown to implement this module for a box with one     *)
(* sender.                                                                 *)
(***************************************************************************)
EXTENDS Naturals, Sequences

CONSTANTS Record,    \* the message_t values that can be put in the box
          Capacity   \* how many of them the box holds at a time

VARIABLES accepted,  \* every record the box took, in the order it took them
          delivered, \* every record handed to the receiver, in that order
          refused    \* every record a sender was told does not fit

vars == <<accepted, delivered, refused>>

Pending == Len(accepted) - Len(delivered)

Init == accepted = <<>> /\ delivered = <<>> /\ refused = <<>>

Accept(m) ==
    /\ Pending < Capacity
    /\ accepted' = Append(accepted, m)
    /\ UNCHANGED <<delivered, refused>>

Refuse(m) ==
    /\ Pending = Capacity
    /\ refused' = Append(refused, m)
    /\ UNCHANGED <<accepted, delivered>>

Deliver ==
    /\ Pending > 0
    /\ delivered' = Append(delivered, accepted[Len(delivered) + 1])
    /\ UNCHANGED <<accepted, refused>>

Next == Deliver \/ \E m \in Record : Accept(m) \/ Refuse(m)

SafeSpec == Init /\ [][Next]_vars

\* A receiver that keeps running drains the box.
Spec == SafeSpec /\ WF_vars(Deliver)
=============================================================================
