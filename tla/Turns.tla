------------------------------- MODULE Turns -------------------------------
(***************************************************************************)
(* What every demo of the repository promises: two processes take turns.   *)
(* One hears a message, then the other hears the answer, and so on; neither *)
(* gets ahead by more than the message it is owed.                         *)
(***************************************************************************)
EXTENDS Naturals

CONSTANT Proc

VARIABLES first,  \* who hears first
          heard   \* messages each has received

Init ==
    /\ first \in Proc
    /\ heard = [p \in Proc |-> 0]

HearFirst ==
    /\ \A p \in Proc : heard[p] = heard[first]
    /\ heard' = [heard EXCEPT ![first] = @ + 1]

HearSecond(p) ==
    /\ heard[p] + 1 = heard[first]
    /\ heard' = [heard EXCEPT ![p] = @ + 1]

Next == (HearFirst \/ \E p \in Proc : HearSecond(p)) /\ UNCHANGED first

Spec == Init /\ [][Next]_<<first, heard>>
=============================================================================
