------------------------------ MODULE Signals ------------------------------
(***************************************************************************)
(* signals.c: a server waits for SIGUSR1 and ignores SIGUSR2, a client the *)
(* other way round.  A process that has not got to its setup is killed by  *)
(* either.  Signals do not queue: one that is raised again while it is     *)
(* pending is lost.                                                        *)
(***************************************************************************)
EXTENDS Demo

VARIABLES mode,     \* how far the setup of each process is
          pending   \* whether the signal each process waits for is pending

signalVars == <<mode, pending>>

Awaited(p) == IF p = "server" THEN "SIGUSR1" ELSE "SIGUSR2"

SignalInit ==
    /\ mode = [p \in Proc |-> "default"]
    /\ pending = [p \in Proc |-> FALSE]

Running(p) == pc[p] \notin {"off", "done", "dead"}

\* What a signal does: the default action ends the process.
Fatal(p, s) == mode[p] = "default" \/ (s = Awaited(p) /\ mode[p] # "blocked")

\* kill: s reaches the processes in targets; self goes on to place.
Raise(s, targets, self, place) ==
    /\ pc' = [p \in Proc |-> IF p \in targets /\ Running(p) /\ Fatal(p, s) THEN "dead"
                             ELSE IF p = self THEN place ELSE pc[p]]
    /\ pending' = [p \in Proc |-> \/ pending[p]
                                  \/ /\ p \in targets /\ Running(p)
                                     /\ s = Awaited(p) /\ mode[p] = "blocked"]

\* sigaction for the signal that is ignored
SetupIgnore(p, next) ==
    /\ pc[p] = "ignore"
    /\ mode' = [mode EXCEPT ![p] = "handled"]
    /\ Goto(p, next)
    /\ UNCHANGED pending

\* sigprocmask for the one that is waited for
SetupBlock(p, next) ==
    /\ pc[p] = "block"
    /\ mode' = [mode EXCEPT ![p] = "blocked"]
    /\ Goto(p, next)
    /\ UNCHANGED pending

\* sigwait
SigWait(p) ==
    /\ pending[p]
    /\ pending' = [pending EXCEPT ![p] = FALSE]
    /\ UNCHANGED mode

SignalTypeOK ==
    /\ mode \in [Proc -> {"default", "handled", "blocked"}]
    /\ pending \in [Proc -> BOOLEAN]
=============================================================================
