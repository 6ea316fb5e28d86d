-------------------------------- MODULE Demo --------------------------------
(***************************************************************************)
(* What the small programs have in common: a server and a client, each     *)
(* with a loop of msg_count rounds that exchange a message of msg_size     *)
(* bytes.  A user runs one of the programs; its own module has its steps.  *)
(***************************************************************************)
EXTENDS Naturals

CONSTANTS Size,       \* msg_size, the same for both processes
          MaxRounds   \* bound on msg_count

ASSUME DemoAssumption == Size \in Nat \ {0} /\ MaxRounds \in Nat

Proc == {"server", "client"}
Other(p) == IF p = "server" THEN "client" ELSE "server"

VARIABLES program,    \* the program that is run
          pc,         \* where each process is; "off" before its start
          count,      \* msg_count of each process
          round,      \* i, the loop variable of each process
          disturbed,  \* history: a process was killed or took part of a message for all of it
          heard       \* history: messages each received while undisturbed

demoVars == <<program, pc, count, round, disturbed, heard>>

DemoInit(programs) ==
    /\ program \in programs
    /\ pc = [p \in Proc |-> "off"]
    /\ count = [p \in Proc |-> 0]
    /\ round = [p \in Proc |-> 0]
    /\ disturbed = FALSE
    /\ heard = [p \in Proc |-> 0]

\* "for (int i = 0; i < msg_count; i++)" before the first round
Enter(p, n, body, end) == IF 0 < n THEN body ELSE end

\* and after a round: i++ and the test.
NextRound(p, body, end) ==
    /\ round' = [round EXCEPT ![p] = @ + 1]
    /\ pc' = [pc EXCEPT ![p] = IF round[p] + 1 < count[p] THEN body ELSE end]

Goto(p, place) == pc' = [pc EXCEPT ![p] = place] /\ UNCHANGED round

Hear(p) == heard' = IF disturbed THEN heard ELSE [heard EXCEPT ![p] = @ + 1]

\* The places of all programs, in the order of their modules
Places == {"off", "done", "dead",
           "unlink", "hello", "greet", "wait", "write", "read", "detach",
           "get", "put", "back",
           "open", "ignore", "block", "notify", "close", "reap",
           "listen", "announce", "accept", "sigwait", "connect", "send", "recv"}

DemoTypeOK ==
    /\ pc \in [Proc -> Places]
    /\ count \in [Proc -> 0 .. MaxRounds]
    /\ round \in [Proc -> 0 .. MaxRounds]
    /\ disturbed \in BOOLEAN
    /\ heard \in [Proc -> Nat]
=============================================================================
