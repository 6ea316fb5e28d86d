------------------------------ MODULE Sockets ------------------------------
(***************************************************************************)
(* The socket demos: TCP (socket/) and UNIX domain (socket_local/).  Both  *)
(* exchange messages of Size bytes over a stream that knows no messages: a *)
(* send puts the bytes in as there is room, a recv takes what is there, up *)
(* to Size.  A recv that got less ends the process, except in the TCP      *)
(* server, which takes it, and the end of the stream, for a message.       *)
(* Nobody answers a TCP client that connects before the server listens;    *)
(* a UNIX client waits for a SIGUSR2 that the server sends, once, when it  *)
(* listens.                                                                *)
(***************************************************************************)
EXTENDS Signals

CONSTANT SockRoom  \* bytes on their way to a process: the socket buffers

ASSUME SocketAssumption == SockRoom \in Nat /\ Size <= SockRoom

VARIABLES linked,  \* the client's connect has succeeded
          wire,    \* bytes on their way to each process
          unsent   \* bytes each process's send has not put in

socketVars == <<linked, wire, unsent>>

SocketPrograms == {"tcp", "unix"}

SocketInit ==
    /\ linked = FALSE
    /\ wire = [p \in Proc |-> 0]
    /\ unsent = [p \in Proc |-> 0]

Gone(p) == pc[p] \in {"done", "dead"}

Least(m, n) == IF m < n THEN m ELSE n
-----------------------------------------------------------------------------
\* The program is started.
SocketStart(p) ==
    /\ pc[p] = "off"
    /\ \E n \in 0 .. MaxRounds : count' = [count EXCEPT ![p] = n]
    /\ Goto(p, IF p = "server" THEN "listen" ELSE IF program = "tcp" THEN "connect" ELSE "ignore")
    /\ UNCHANGED <<program, disturbed, heard, signalVars, socketVars>>

\* Mutation: the announcement comes before the socket listens.
ListenLate ==
    /\ pc["server"] = "listen"
    /\ Raise("SIGUSR2", {"client"}, "server", IF program = "tcp" THEN "accept" ELSE "ignore")
    /\ UNCHANGED <<program, count, round, disturbed, heard, mode, socketVars>>

\* create_listen_socket, create_socket: from here on a connect succeeds.
Listen ==
    /\ pc["server"] = "listen"
    /\ Goto("server", IF program = "tcp" THEN "accept" ELSE "ignore")
    /\ UNCHANGED <<program, count, disturbed, heard, signalVars, socketVars>>

Listening == pc["server"] \in {"ignore", "block", "announce", "accept", "send", "recv", "close"}

\* setup_server_signals, setup_client_signals
SocketIgnore(p) ==
    /\ SetupIgnore(p, "block")
    /\ UNCHANGED <<program, count, disturbed, heard, socketVars>>

SocketBlock(p) ==
    /\ SetupBlock(p, IF p = "server" THEN "announce" ELSE "sigwait")
    /\ UNCHANGED <<program, count, disturbed, heard, socketVars>>

\* kill(0, SIGUSR2): to the server itself and to the client, if that is in the
\* same process group
Announce ==
    /\ pc["server"] = "announce"
    /\ \E group \in {Proc, {"server"}} : Raise("SIGUSR2", group, "server", "accept")
    /\ UNCHANGED <<program, count, round, disturbed, heard, mode, socketVars>>

AwaitServer ==
    /\ pc["client"] = "sigwait" /\ SigWait("client")
    /\ Goto("client", "connect")
    /\ UNCHANGED <<program, count, disturbed, heard, socketVars>>

Connect ==
    /\ pc["client"] = "connect" /\ Listening
    /\ linked' = TRUE
    /\ Goto("client", Enter("client", count["client"], "recv", "close"))
    /\ UNCHANGED <<program, count, disturbed, heard, signalVars, wire, unsent>>

ConnectRefused ==
    /\ pc["client"] = "connect" /\ ~Listening
    /\ Goto("client", "dead")
    /\ UNCHANGED <<program, count, disturbed, heard, signalVars, socketVars>>

Accept ==
    /\ pc["server"] = "accept" /\ linked
    /\ Goto("server", Enter("server", count["server"], "send", "close"))
    /\ unsent' = [unsent EXCEPT !["server"] = Size]
    /\ UNCHANGED <<program, count, disturbed, heard, signalVars, linked, wire>>
-----------------------------------------------------------------------------
\* p has sent its message: the server waits for the answer, the client's
\* round ends.
HaveSent(p) == IF p = "server" THEN Goto(p, "recv") ELSE NextRound(p, "recv", "close")

\* Part of a send: k bytes
SendSome(p) ==
    /\ pc[p] = "send" /\ ~Gone(Other(p))
    /\ \E k \in 1 .. unsent[p] :
          /\ wire[Other(p)] + k <= SockRoom
          /\ wire' = [wire EXCEPT ![Other(p)] = @ + k]
          /\ unsent' = [unsent EXCEPT ![p] = @ - k]
          /\ IF k = unsent[p] THEN HaveSent(p) ELSE UNCHANGED <<pc, round>>
    /\ UNCHANGED <<program, count, disturbed, heard, signalVars, linked>>

\* The peer has closed its socket: SIGPIPE, an error, or, with TCP, bytes that
\* nobody gets.
SendToNobody(p) ==
    /\ pc[p] = "send" /\ Gone(Other(p))
    /\ unsent' = [unsent EXCEPT ![p] = 0]
    /\ \/ Goto(p, "dead")
       \/ program = "tcp" /\ HaveSent(p)
    /\ UNCHANGED <<program, count, disturbed, heard, signalVars, linked, wire>>

\* p has a message, or takes what it got for one: the client answers, the
\* server's round ends.
HaveReceived(p) ==
    /\ unsent' = [unsent EXCEPT ![p] = Size]
    /\ IF p = "client" THEN Goto(p, "send") ELSE NextRound(p, "send", "close")

Received(p) == Least(wire[p], Size)
Take(p) == wire' = [wire EXCEPT ![p] = @ - Received(p)]

\* Which processes go on after a recv of less than Size bytes
TakesLess(p) == program = "tcp" /\ p = "server"

\* Mutation: any part of a message is taken for all of it.
RecvAny(p) ==
    /\ pc[p] = "recv" /\ wire[p] > 0
    /\ Take(p)
    /\ Hear(p)
    /\ HaveReceived(p)
    /\ UNCHANGED <<program, count, disturbed, signalVars, linked>>

RecvWhole(p) ==
    /\ pc[p] = "recv" /\ wire[p] >= Size
    /\ Take(p)
    /\ Hear(p)
    /\ HaveReceived(p)
    /\ UNCHANGED <<program, count, disturbed, signalVars, linked>>

\* Mutation: a recv that finds the peer gone is tried again.
ShortSome(p) == 0 < wire[p] /\ wire[p] < Size

\* Fewer bytes than a message, or none because the peer is gone
Short(p) == wire[p] < Size /\ (wire[p] > 0 \/ Gone(Other(p)))

RecvShort(p) ==
    /\ pc[p] = "recv" /\ Short(p) /\ TakesLess(p)
    /\ Take(p)
    /\ disturbed' = TRUE
    /\ HaveReceived(p)
    /\ UNCHANGED <<program, count, heard, signalVars, linked>>

\* err_sys; a TCP server gets an error, too, when the peer has reset the
\* connection.
RecvFails(p) ==
    /\ pc[p] = "recv" /\ Short(p)
    /\ ~TakesLess(p) \/ (wire[p] = 0 /\ Gone(Other(p)))
    /\ Goto(p, "dead")
    /\ UNCHANGED <<program, count, disturbed, heard, signalVars, socketVars>>

Hangup(p) ==
    /\ pc[p] = "close"
    /\ Goto(p, "done")
    /\ UNCHANGED <<program, count, disturbed, heard, signalVars, socketVars>>

SocketKill(p) ==
    /\ Running(p)
    /\ Goto(p, "dead")
    /\ disturbed' = TRUE
    /\ UNCHANGED <<program, count, heard, signalVars, socketVars>>
-----------------------------------------------------------------------------
SocketStep(p) ==
    \/ SocketIgnore(p) \/ SocketBlock(p)
    \/ p = "server" /\ (Listen \/ Announce \/ Accept)
    \/ p = "client" /\ (AwaitServer \/ Connect \/ ConnectRefused)
    \/ SendSome(p) \/ SendToNobody(p) \/ RecvWhole(p) \/ RecvShort(p) \/ RecvFails(p) \/ Hangup(p)

SocketNext ==
    /\ program \in SocketPrograms
    /\ \E p \in Proc : SocketStart(p) \/ SocketStep(p) \/ SocketKill(p)
-----------------------------------------------------------------------------
SocketTypeOK ==
    /\ linked \in BOOLEAN
    /\ wire \in [Proc -> 0 .. SockRoom] /\ unsent \in [Proc -> 0 .. Size]

(* At most one message is under way, in both directions together, so that  *)
(* no send ever waits for room, until somebody takes a part of a message   *)
(* for all of it: one of the two always waits for the other.               *)
OneUnderWay ==
    program \in SocketPrograms /\ ~disturbed =>
        /\ wire["server"] + wire["client"] <= Size
        /\ ~(pc["server"] = "send" /\ pc["client"] = "send")

(* A UNIX client that got the announcement is not refused: the server      *)
(* listens before it announces, and waits for it (socket_local).           *)
NeverRefused ==
    program = "unix" /\ ~disturbed /\ pc["client"] = "connect" => pc["server"] = "accept"

(* Once connected, both programs come to an end: the one that has rounds   *)
(* left when the other is gone is told so, whatever the two msg_counts,    *)
(* however the stream cuts the messages and whoever is killed.             *)
ExchangeEnds == linked ~> \A p \in Proc : Gone(p)
=============================================================================
