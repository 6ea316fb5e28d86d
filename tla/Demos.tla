------------------------------- MODULE Demos -------------------------------
(***************************************************************************)
(* The demos side by side: the user picks a program and runs its two       *)
(* processes.  They have nothing in common but the shape of module Demo,   *)
(* and each implements the abstract turns of module Turns.                 *)
(***************************************************************************)
EXTENDS GuardByte, EventFd, SignalPipe, Sockets

vars == <<demoVars, guardVars, eventVars, signalVars, filled, socketVars>>

Programs == GuardPrograms \cup {"eventfd", "pipe"} \cup SocketPrograms

Init ==
    /\ DemoInit(Programs)
    /\ GuardInit /\ EventInit /\ SignalInit /\ PipeInit /\ SocketInit

GuardDemo(A)  == A /\ UNCHANGED <<eventVars, signalVars, filled, socketVars>>
EventDemo(A)  == A /\ UNCHANGED <<guardVars, signalVars, filled, socketVars>>
PipeDemo(A)   == A /\ UNCHANGED <<guardVars, eventVars, socketVars>>
SocketDemo(A) == A /\ UNCHANGED <<guardVars, eventVars, filled>>

Next ==
    \/ GuardDemo(GuardNext) \/ EventDemo(EventNext)
    \/ PipeDemo(PipeNext) \/ SocketDemo(SocketNext)

Spec == Init /\ [][Next]_vars

\* A process that can go on does.  Nobody has to start a program.
Step(p) ==
    \/ program \in GuardPrograms /\ GuardDemo(GuardStep(p))
    \/ program = "eventfd" /\ EventDemo(EventStep(p))
    \/ program = "pipe" /\ PipeDemo(PipeStep(p))
    \/ program \in SocketPrograms /\ SocketDemo(SocketStep(p))

\* The kernel does not for ever give the event to the process that does not
\* want it.
Fairness ==
    \A p \in Proc :
        /\ WF_vars(Step(p))
        /\ SF_vars(program = "eventfd" /\ EventDemo(GetMine(p)))

FairSpec == Spec /\ Fairness
-----------------------------------------------------------------------------
(* Every variable of every demo holds a value the C types and code allow.  *)
TypeOK ==
    /\ DemoTypeOK /\ GuardTypeOK /\ EventTypeOK
    /\ SignalTypeOK /\ PipeTypeOK /\ SocketTypeOK

(* The two processes take turns: neither gets a message before the other   *)
(* has had the one before it.  The server of the eventfd demo hears first, *)
(* the client of all others.                                               *)
Alternation ==
    INSTANCE Turns WITH first <- IF program = "eventfd" THEN "server" ELSE "client"
ImplementsTurns == Alternation!Spec
=============================================================================
