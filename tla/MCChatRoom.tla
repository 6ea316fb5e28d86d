----------------------------- MODULE MCChatRoom -----------------------------
(***************************************************************************)
(* Instances of ChatRoom for TLC: who runs ./client with which arguments.  *)
(***************************************************************************)
EXTENDS ChatRoom

CONSTANTS ann, bob, cat, ann2

\* Every user has an id and a name of their own; ann2 is ann's id used again
\* by a user of another name.
Id(p)   == CASE p = ann -> 1 [] p = bob -> 2 [] p = cat -> 3 [] p = ann2 -> 1
Name(p) == CASE p = ann -> "ann" [] p = bob -> "bob" [] p = cat -> "cat" [] p = ann2 -> "dan"

IdOfProc   == [p \in Procs |-> Id(p)]
NameOfProc == [p \in Procs |-> Name(p)]

\* What the users type, and how many lines.
AnnListsBobQuits == [p \in Procs |-> IF p = ann THEN {"LIST", "BROADCAST"} ELSE {"BROADCAST", "QUIT"}]
AnnListsAndQuits == [p \in Procs |-> IF p = ann THEN {"LIST", "QUIT"} ELSE {}]
AnnWhispers      == [p \in Procs |-> IF p = ann THEN {"WHISPER"} ELSE {}]
Anything         == [p \in Procs |-> {"LIST", "WHISPER", "BROADCAST", "QUIT"}]

One      == [p \in Procs |-> 1]
BobTwice == [p \in Procs |-> IF p = bob THEN 2 ELSE 1]
Two      == [p \in Procs |-> 2]
Four     == [p \in Procs |-> 4]
=============================================================================
