----------------------------- MODULE Sequencer -----------------------------
(***************************************************************************)
(* What the chat room promises: one log of announcements, and every reader *)
(* sees a part of it in the order of the log, each announcement at most    *)
(* once.  A reader may miss announcements.                                 *)
(***************************************************************************)
EXTENDS Naturals, Sequences

CONSTANTS Reader, Text

VARIABLES log,  \* what was announced
          seen  \* for each reader, the place in the log and the text of what it saw

vars == <<log, seen>>

At(r) == IF seen[r] = <<>> THEN 0 ELSE seen[r][Len(seen[r])][1]

Init == log = <<>> /\ seen = [r \in Reader |-> <<>>]

Announce == \E text \in Text : log' = Append(log, text) /\ UNCHANGED seen

See(r) ==
    /\ \E k \in At(r) + 1 .. Len(log) :
          seen' = [seen EXCEPT ![r] = Append(@, <<k, log[k]>>)]
    /\ UNCHANGED log

Next == Announce \/ \E r \in Reader : See(r)

Spec == Init /\ [][Next]_vars
=============================================================================
