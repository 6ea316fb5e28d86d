----------------------------- MODULE SignalPipe -----------------------------
(***************************************************************************)
(* The pipe demo: a parent, the server, writes messages into a pipe and    *)
(* tells its child, the client, by a signal; the client answers by one.    *)
(* The client does not read: it calls fwrite on the stream it opened for   *)
(* reading, which fails and whose result (0, compared with -1) is taken    *)
(* for success.  The pipe therefore fills up.                              *)
(*                                                                         *)
(* fdopen is given the address of a single char, so what follows it in     *)
(* memory belongs to the mode; a '+' there makes fdopen fail.  After its   *)
(* rounds the client runs on into run_server, whose fdopen fails for sure, *)
(* since the client has closed that end.                                   *)
(***************************************************************************)
EXTENDS Signals

CONSTANT PipeRoom  \* messages the pipe holds

ASSUME PipeAssumption == PipeRoom \in Nat

VARIABLE filled    \* messages in the pipe

PipeInit == filled = 0

PipeFork ==
    /\ pc = [p \in Proc |-> "off"]
    /\ pc' = [p \in Proc |-> "open"]
    /\ \E n \in 0 .. MaxRounds : count' = [p \in Proc |-> n]
    /\ UNCHANGED <<program, round, disturbed, heard, signalVars, filled>>

\* open_stream
OpenStream(p) ==
    /\ pc[p] = "open"
    /\ Goto(p, "ignore")
    /\ UNCHANGED <<program, count, disturbed, heard, signalVars, filled>>

OpenFails(p) ==
    /\ pc[p] = "open"
    /\ Goto(p, "dead")
    /\ UNCHANGED <<program, count, disturbed, heard, signalVars, filled>>

\* setup_server_signals, setup_client_signals
PipeIgnore(p) ==
    /\ SetupIgnore(p, "block")
    /\ UNCHANGED <<program, count, disturbed, heard, filled>>

PipeBlock(p) ==
    /\ SetupBlock(p, IF p = "server" THEN "hello" ELSE "greet")
    /\ UNCHANGED <<program, count, disturbed, heard, filled>>

\* The client's first SIGUSR1
PipeGreet ==
    /\ pc["client"] = "greet"
    /\ Raise("SIGUSR1", {"server"}, "client", Enter("client", count["client"], "wait", "close"))
    /\ UNCHANGED <<program, count, round, disturbed, heard, mode, filled>>

\* Mutation: the server starts without the client's signal.
PipeHelloAtOnce ==
    /\ pc["server"] = "hello"
    /\ Goto("server", Enter("server", count["server"], "write", "reap"))
    /\ UNCHANGED <<program, count, disturbed, heard, signalVars, filled>>

PipeHello ==
    /\ pc["server"] = "hello" /\ SigWait("server")
    /\ Goto("server", Enter("server", count["server"], "write", "reap"))
    /\ UNCHANGED <<program, count, disturbed, heard, filled>>

\* fwrite and fflush of a message, which wait for room in the pipe
PipeWrite ==
    /\ pc["server"] = "write" /\ filled < PipeRoom
    /\ filled' = filled + 1
    /\ Goto("server", "notify")
    /\ UNCHANGED <<program, count, disturbed, heard, signalVars>>

PipeNotify ==
    /\ pc["server"] = "notify"
    /\ Raise("SIGUSR2", {"client"}, "server", "wait")
    /\ UNCHANGED <<program, count, round, disturbed, heard, mode, filled>>

\* The client's sigwait, and its fwrite that does nothing
PipeTold ==
    /\ pc["client"] = "wait" /\ SigWait("client")
    /\ Hear("client")
    /\ Goto("client", "notify")
    /\ UNCHANGED <<program, count, disturbed, filled>>

\* Mutation: the answer is sent to the client itself.
PipeAnswerLost ==
    /\ pc["client"] = "notify"
    /\ LET next == IF round["client"] + 1 < count["client"] THEN "wait" ELSE "close"
       IN  Raise("SIGUSR1", {"client"}, "client", next)
    /\ round' = [round EXCEPT !["client"] = @ + 1]
    /\ UNCHANGED <<program, count, disturbed, heard, mode, filled>>

\* kill(server_pid, SIGUSR1) at the end of the client's round
PipeAnswer ==
    /\ pc["client"] = "notify"
    /\ LET next == IF round["client"] + 1 < count["client"] THEN "wait" ELSE "close"
       IN  Raise("SIGUSR1", {"server"}, "client", next)
    /\ round' = [round EXCEPT !["client"] = @ + 1]
    /\ UNCHANGED <<program, count, disturbed, heard, mode, filled>>

\* The server's sigwait at the end of its round
PipeAnswered ==
    /\ pc["server"] = "wait" /\ SigWait("server")
    /\ Hear("server")
    /\ NextRound("server", "write", "reap")
    /\ UNCHANGED <<program, count, disturbed, filled>>

\* The client closes its end and falls through into run_server: err_sys.
PipeClose ==
    /\ pc["client"] = "close"
    /\ Goto("client", "done")
    /\ UNCHANGED <<program, count, disturbed, heard, signalVars, filled>>

\* wait(NULL)
PipeReap ==
    /\ pc["server"] = "reap" /\ ~Running("client")
    /\ Goto("server", "done")
    /\ UNCHANGED <<program, count, disturbed, heard, signalVars, filled>>
-----------------------------------------------------------------------------
PipeStep(p) ==
    \/ OpenStream(p) \/ OpenFails(p) \/ PipeIgnore(p) \/ PipeBlock(p)
    \/ p = "server" /\ (PipeHello \/ PipeWrite \/ PipeNotify \/ PipeAnswered \/ PipeReap)
    \/ p = "client" /\ (PipeGreet \/ PipeTold \/ PipeAnswer \/ PipeClose)

PipeNext == program = "pipe" /\ (PipeFork \/ \E p \in Proc : PipeStep(p))
-----------------------------------------------------------------------------
PipeTypeOK == filled \in 0 .. PipeRoom

(* No signal is raised while the one before it is pending, so that none is *)
(* lost, though signals do not queue: server and client raise in turn.     *)
NoSignalLost ==
    program = "pipe" =>
        /\ pc["client"] \in {"greet", "notify"} => ~pending["server"]
        /\ pc["server"] = "notify" => ~pending["client"]

(* The server never writes into a pipe whose reading end is closed, which  *)
(* would kill it: the client outlives the server's last write.             *)
WriterHasReader ==
    program = "pipe" /\ pc["server"] = "write" => pc["client"] \in {"greet", "wait", "notify"}

\* Both have set up their signals before the client raises its first one.
BothReady == program = "pipe" /\ mode["server"] = "blocked" /\ pc["client"] = "greet"
Ended     == pc = [p \in Proc |-> "done"]

(* The test ends when the pipe holds all messages and the first signal did *)
(* not come too early for the server.                                      *)
PipeEnds == BothReady /\ count["server"] <= PipeRoom ~> Ended

(* The test ends ("pipe server test finished", pipe.c:88): the client, who *)
(* stops if it "Can`t read from pipe." (pipe.c:117), makes room for more.  *)
PipeTestFinishes == BothReady ~> Ended
=============================================================================
