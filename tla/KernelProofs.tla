---------------------------- MODULE KernelProofs ----------------------------
(***************************************************************************)
(* Proofs about the demos whose processes meet in the kernel: eventfd,     *)
(* pipe and signals, TCP and UNIX sockets.  For any number of rounds, and  *)
(* any size of the pipe, of the message and of the socket buffers, however *)
(* the stream cuts the messages: there is one token; no signal is lost and *)
(* the pipe's writer has a reader; one message is under way at a time and  *)
(* an announced UNIX client is not refused; and server and client hear     *)
(* from each other in turn.                                                *)
(***************************************************************************)
EXTENDS Demos, TLAPS

(* The two processes of a demo.                                            *)
LEMMA Both == Proc = {"server", "client"} /\ "server" # "client"
BY DEF Proc

(* A step is a step of the program that runs.                              *)
LEMMA OneProgram ==
  ASSUME [Next]_vars
  PROVE  /\ UNCHANGED program
         /\ \/ GuardNext \/ EventNext \/ PipeNext \/ SocketNext
            \/ UNCHANGED vars
<1>1. CASE GuardDemo(GuardNext)
  BY <1>1 DEF GuardDemo, GuardNext, Attach, GuardStep, Unlink, Hello, Greet, WriteByte, Notify,
     Await, ReadByte, HaveRead, Detach, Kill, demoVars
<1>2. CASE EventDemo(EventNext)
  BY <1>2 DEF EventDemo, EventNext, EventFork, EventStep, GetMine, GetOther, WriteBack, PutToken
<1>3. CASE PipeDemo(PipeNext)
  BY <1>3 DEF PipeDemo, PipeNext, PipeFork, PipeStep, OpenStream, OpenFails, PipeIgnore, PipeBlock,
     PipeGreet, PipeHello, PipeWrite, PipeNotify, PipeTold, PipeAnswer, PipeAnswered, PipeClose,
     PipeReap
<1>4. CASE SocketDemo(SocketNext)
  BY <1>4 DEF SocketDemo, SocketNext, SocketStart, SocketStep, SocketKill, Listen, SocketIgnore,
     SocketBlock, Announce, AwaitServer, Connect, ConnectRefused, Accept, SendSome, SendToNobody,
     RecvWhole, RecvShort, RecvFails, Hangup
<1>5. CASE UNCHANGED vars
  BY <1>5 DEF vars, demoVars
<1> QED
  BY <1>1, <1>2, <1>3, <1>4, <1>5 DEF Next
-----------------------------------------------------------------------------
rs == round["server"]
rc == round["client"]
hs == heard["server"]
hc == heard["client"]
n  == count["client"]

\* A turn, taken by the one whose turn it is
Turn == [Alternation!Next]_<<IF program = "eventfd" THEN "server" ELSE "client", heard>>
-----------------------------------------------------------------------------
\* Where the token is, what comes next, and how far the two have got.
NotForked == pc = [p \in Proc |-> "off"] /\ counter = 0 /\ rs = 0 /\ rc = 0 /\ hs = hc
Over      == pc = [p \in Proc |-> "done"] /\ hs = hc
ClientPuts ==
    /\ pc["client"] = "put" /\ pc["server"] = "get" /\ counter = 0
    /\ rs = rc /\ rc < n /\ hs = hc
ToServer ==
    /\ pc["server"] = "get" /\ rs = rc /\ rc < n /\ hs = hc
    /\ \/ pc["client"] = "get" /\ counter = Token("server")
       \/ pc["client"] = "back" /\ counter = 0 /\ val["client"] = Token("server")
ServerPuts ==
    /\ pc["server"] = "put" /\ pc["client"] = "get" /\ counter = 0
    /\ rs = rc /\ rc < n /\ hs = hc + 1
ToClient ==
    /\ pc["client"] = "get" /\ rs = rc + 1 /\ rs <= n /\ hs = hc + 1
    /\ \/ /\ pc["server"] = IF rs < n THEN "get" ELSE "done"
          /\ counter = Token("client")
       \/ /\ pc["server"] = "back" /\ rs < n /\ counter = 0
          /\ val["server"] = Token("client")

EventShape ==
    /\ pc \in [Proc -> Places] /\ count \in [Proc -> Nat] /\ round \in [Proc -> Nat]
    /\ heard \in [Proc -> Nat] /\ val \in [Proc -> 0 .. 2]
    /\ count["server"] = n /\ ~disturbed

EventInv ==
    program = "eventfd" =>
        /\ EventShape
        /\ NotForked \/ Over \/ ClientPuts \/ ToServer \/ ServerPuts \/ ToClient

(* The invariant holds before the server starts.                           *)
LEMMA EventStarts == Init => EventInv
<1> SUFFICES ASSUME Init PROVE EventInv
  OBVIOUS
<1>1. "off" \in Places /\ "server" \in Proc /\ "client" \in Proc
  BY DEF Places, Proc
<1> QED
  BY <1>1 DEF Init, DemoInit, EventInit, EventInv, EventShape, NotForked, rs, rc, hs, hc, n

(* A start of the server, which forks the client, keeps it.                *)
LEMMA ForkKeeps ==
  ASSUME EventInv, program = "eventfd", EventFork
  PROVE  EventInv'
<1>1. PICK m \in 0 .. MaxRounds :
        /\ count' = [p \in Proc |-> m]
        /\ pc' = [p \in Proc |-> Enter(p, m, IF p = "server" THEN "get" ELSE "put", "done")]
  BY DEF EventFork
<1>2. m \in Nat /\ {"get", "put", "done"} \subseteq Places
  BY DemoAssumption DEF Places
<1>3. EventShape'
  BY <1>1, <1>2, Both DEF EventInv, EventShape, EventFork, eventVars, Enter, n
<1>4. NotForked
  <2>1. pc["client"] = "off" /\ pc["server"] = "off"
    BY Both DEF EventFork
  <2> QED
    BY <2>1, Both DEF EventInv, Over, ClientPuts, ToServer, ServerPuts, ToClient
<1>5. CASE m = 0
  <2>1. pc' = [p \in Proc |-> "done"]
    BY <1>1, <1>5 DEF Enter
  <2>2. hs' = hc'
    BY <1>4 DEF NotForked, EventFork, hs, hc
  <2> QED
    BY <1>3, <2>1, <2>2 DEF EventInv, Over
<1>6. CASE m # 0
  <2>1. ClientPuts'
    BY <1>1, <1>2, <1>4, <1>6, Both
    DEF ClientPuts, NotForked, EventFork, eventVars, Enter, hs, hc, rs, rc, n
  <2> QED
    BY <1>3, <2>1 DEF EventInv
<1> QED
  BY <1>5, <1>6

(* The counter holds the token of the process that reads its own.          *)
LEMMA GetMineKeeps ==
  ASSUME EventInv, program = "eventfd", NEW p \in Proc, GetMine(p)
  PROVE  /\ EventInv'
         /\ p = "server" => hs = hc /\ heard' = [heard EXCEPT !["server"] = @ + 1]
         /\ p = "client" => hs = hc + 1 /\ heard' = [heard EXCEPT !["client"] = @ + 1]
<1>0. EventShape /\ (NotForked \/ Over \/ ClientPuts \/ ToServer \/ ServerPuts \/ ToClient)
  BY DEF EventInv
<1>1. {"get", "put", "done"} \subseteq Places
  BY DEF Places
<1>2. heard' = [heard EXCEPT ![p] = @ + 1] /\ counter \in 0 .. 2
  BY <1>0 DEF GetMine, Hear, EventShape, Token
<1>3. EventShape'
  BY <1>0, <1>1, <1>2, Both DEF EventShape, GetMine, Goto, NextRound, n
<1>4. CASE p = "server"
  <2>1. ToServer
    BY <1>0, <1>4, Both DEF GetMine, Token, NotForked, Over, ClientPuts, ToServer, ServerPuts, ToClient
  <2>2. ServerPuts'
    BY <1>0, <1>2, <1>4, <2>1, Both
    DEF ToServer, ServerPuts, EventShape, GetMine, Goto, Token, rs, rc, hs, hc, n
  <2> QED
    BY <1>2, <1>3, <1>4, <2>1, <2>2, Both DEF EventInv, ToServer
<1>5. CASE p = "client"
  <2>1. ToClient
    BY <1>0, <1>5, Both DEF GetMine, Token, NotForked, Over, ClientPuts, ToServer, ServerPuts, ToClient
  <2>2. pc["server"] = IF rs < n THEN "get" ELSE "done"
    BY <1>5, <2>1, Both DEF ToClient, GetMine, Token
  <2>3. CASE rs < n
    <3>1. ClientPuts'
      BY <1>0, <1>2, <1>5, <2>1, <2>2, <2>3, Both
      DEF ToClient, ClientPuts, EventShape, GetMine, NextRound, rs, rc, hs, hc, n
    <3> QED
      BY <1>2, <1>3, <1>5, <2>1, <3>1, Both DEF EventInv, ToClient
  <2>4. CASE ~(rs < n)
    <3>1. pc'["client"] = "done" /\ pc'["server"] = "done"
      BY <1>0, <1>5, <2>1, <2>2, <2>4, Both
      DEF ToClient, EventShape, GetMine, NextRound, rs, rc, n
    <3>2. pc' = [q \in Proc |-> "done"]
      BY <1>3, <3>1, Both DEF EventShape
    <3>3. hs' = hc'
      BY <1>0, <1>2, <1>5, <2>1, Both DEF ToClient, EventShape, hs, hc
    <3> QED
      BY <1>2, <1>3, <1>5, <2>1, <3>2, <3>3, Both DEF EventInv, Over, ToClient
  <2> QED
    BY <2>3, <2>4
<1> QED
  BY <1>4, <1>5, Both

(* Taking the token of the other side keeps it.                            *)
LEMMA GetOtherKeeps ==
  ASSUME EventInv, program = "eventfd", NEW p \in Proc, GetOther(p)
  PROVE  EventInv' /\ UNCHANGED heard
<1>0. EventShape /\ (NotForked \/ Over \/ ClientPuts \/ ToServer \/ ServerPuts \/ ToClient)
  BY DEF EventInv
<1>1. "back" \in Places
  BY DEF Places
<1>2. CASE ToServer
  <2>1. p = "client"
    BY <1>2, Both DEF ToServer, GetOther, Token
  <2>2. ToServer'
    BY <1>0, <1>2, <2>1, Both
    DEF ToServer, EventShape, GetOther, Goto, Token, rs, rc, hs, hc, n
  <2>3. EventShape'
    BY <1>0, <1>1, <1>2, <2>1, Both DEF EventShape, ToServer, GetOther, Goto, Token, n
  <2> QED
    BY <2>2, <2>3 DEF EventInv, GetOther
<1>3. CASE ToClient
  <2>1. p = "server" /\ rs < n
    BY <1>3, Both DEF ToClient, GetOther, Token
  <2>2. ToClient'
    BY <1>0, <1>3, <2>1, Both
    DEF ToClient, EventShape, GetOther, Goto, Token, rs, rc, hs, hc, n
  <2>3. EventShape'
    BY <1>0, <1>1, <1>3, <2>1, Both DEF EventShape, ToClient, GetOther, Goto, Token, n
  <2> QED
    BY <2>2, <2>3 DEF EventInv, GetOther
<1> QED
  BY <1>0, <1>2, <1>3, Both DEF NotForked, Over, ClientPuts, ServerPuts, GetOther

(* Putting one's own token back keeps it.                                  *)
LEMMA WriteBackKeeps ==
  ASSUME EventInv, program = "eventfd", NEW p \in Proc, WriteBack(p)
  PROVE  EventInv' /\ UNCHANGED heard
<1>0. EventShape /\ (NotForked \/ Over \/ ClientPuts \/ ToServer \/ ServerPuts \/ ToClient)
  BY DEF EventInv
<1>1. "get" \in Places
  BY DEF Places
<1>2. EventShape'
  BY <1>0, <1>1, Both DEF EventShape, WriteBack, Goto, n
<1>3. CASE ToServer
  <2>1. p = "client"
    BY <1>3, Both DEF ToServer, WriteBack
  <2>2. ToServer'
    BY <1>0, <1>3, <2>1, Both
    DEF ToServer, EventShape, WriteBack, Goto, Token, rs, rc, hs, hc, n
  <2> QED
    BY <1>2, <2>2 DEF EventInv, WriteBack
<1>4. CASE ToClient
  <2>1. p = "server" /\ rs < n
    BY <1>4, Both DEF ToClient, WriteBack
  <2>2. ToClient'
    BY <1>0, <1>4, <2>1, Both
    DEF ToClient, EventShape, WriteBack, Goto, Token, rs, rc, hs, hc, n
  <2> QED
    BY <1>2, <2>2 DEF EventInv, WriteBack
<1> QED
  BY <1>0, <1>3, <1>4, Both DEF NotForked, Over, ClientPuts, ServerPuts, WriteBack

(* Answering with one's own token keeps it.                                *)
LEMMA PutTokenKeeps ==
  ASSUME EventInv, program = "eventfd", NEW p \in Proc, PutToken(p)
  PROVE  EventInv' /\ UNCHANGED heard
<1>0. EventShape /\ (NotForked \/ Over \/ ClientPuts \/ ToServer \/ ServerPuts \/ ToClient)
  BY DEF EventInv
<1>1. {"get", "done"} \subseteq Places
  BY DEF Places
<1>2. EventShape'
  BY <1>0, <1>1, Both DEF EventShape, PutToken, Goto, NextRound, n
<1>3. CASE ClientPuts
  <2>1. p = "client"
    BY <1>3, Both DEF ClientPuts, PutToken
  <2>2. ToServer'
    BY <1>0, <1>3, <2>1, Both
    DEF ClientPuts, ToServer, EventShape, PutToken, Goto, Token, Other, rs, rc, hs, hc, n
  <2> QED
    BY <1>2, <2>2 DEF EventInv, PutToken
<1>4. CASE ServerPuts
  <2>1. p = "server"
    BY <1>4, Both DEF ServerPuts, PutToken
  <2>2. ToClient'
    BY <1>0, <1>4, <2>1, Both
    DEF ServerPuts, ToClient, EventShape, PutToken, NextRound, Token, Other, rs, rc, hs, hc, n
  <2> QED
    BY <1>2, <2>2 DEF EventInv, PutToken
<1> QED
  BY <1>0, <1>3, <1>4, Both DEF NotForked, Over, ToServer, ToClient, PutToken
-----------------------------------------------------------------------------
(* Every step keeps it, and is a turn or silent.                           *)
LEMMA EventInductive ==
  ASSUME EventInv, [Next]_vars, program' = "eventfd"
  PROVE  EventInv' /\ Turn
<1>1. program = "eventfd" /\ (EventNext \/ UNCHANGED vars)
  BY OneProgram DEF GuardNext, PipeNext, SocketNext, GuardPrograms, SocketPrograms
<1>2. CASE EventFork
  <2>1. EventInv' /\ UNCHANGED <<heard, program>>
    BY <1>1, <1>2, ForkKeeps DEF EventFork
  <2> QED
    BY <2>1 DEF Turn
<1>3. ASSUME NEW p \in Proc, GetMine(p) PROVE EventInv' /\ Turn
  <2>1. UNCHANGED program
    BY <1>3 DEF GetMine
  <2>2. CASE p = "server"
    <3>1. Alternation!HearFirst
      BY <1>1, <1>3, <2>2, GetMineKeeps, Both DEF Alternation!HearFirst, hs, hc
    <3> QED
      BY <1>1, <1>3, <2>1, <3>1, GetMineKeeps DEF Turn, Alternation!Next
  <2>3. CASE p = "client"
    <3>1. Alternation!HearSecond("client")
      BY <1>1, <1>3, <2>3, GetMineKeeps, Both DEF Alternation!HearSecond, hs, hc
    <3> QED
      BY <1>1, <1>3, <2>1, <3>1, Both, GetMineKeeps DEF Turn, Alternation!Next
  <2> QED
    BY <2>2, <2>3, Both
<1>4. ASSUME NEW p \in Proc, GetOther(p) \/ WriteBack(p) \/ PutToken(p)
      PROVE  EventInv' /\ Turn
  <2>1. EventInv' /\ UNCHANGED <<heard, program>>
    BY <1>1, <1>4, GetOtherKeeps, WriteBackKeeps, PutTokenKeeps
    DEF GetOther, WriteBack, PutToken
  <2> QED
    BY <2>1 DEF Turn
<1>5. CASE UNCHANGED vars
  BY <1>5 DEF vars, demoVars, eventVars, Turn, EventInv, EventShape, NotForked, Over, ClientPuts,
     ToServer, ServerPuts, ToClient, rs, rc, hs, hc, n
<1> QED
  BY <1>1, <1>2, <1>3, <1>4, <1>5 DEF EventNext, EventStep

(* The one token of eventfd.c is in the counter or in one hand, always.    *)
THEOREM EventInvHolds == Spec => []EventInv
<1>1. EventInv /\ [Next]_vars => EventInv'
  BY EventInductive DEF EventInv
<1> QED
  BY <1>1, EventStarts, PTL DEF Spec

(* The token of the eventfd demo is never lost, doubled or added to        *)
(* another, for any number of rounds, however often a process takes the    *)
(* token meant for the other and puts it back.                             *)
THEOREM EventTokenOnce == Spec => []TokenOnce
<1>1. EventInv => TokenOnce
  BY Both DEF EventInv, TokenOnce, InHand, Token, NotForked, Over, ClientPuts, ToServer,
     ServerPuts, ToClient, rs, n
<1> QED
  BY <1>1, EventInvHolds, PTL

(* The eventfd demo implements the abstract turns: server and client hear  *)
(* their tokens in turn, the server first.                                 *)
THEOREM EventImplementsTurns == Spec /\ program = "eventfd" => ImplementsTurns
<1>1. Init /\ program = "eventfd" => Alternation!Init
  BY Both DEF Init, DemoInit, Alternation!Init
<1>2. program = "eventfd" /\ [Next]_vars => (program = "eventfd")'
  BY OneProgram
<1>3. EventInv /\ program = "eventfd" /\ [Next]_vars /\ (program = "eventfd")' => Turn
  BY EventInductive
<1> QED
  BY <1>1, <1>2, <1>3, EventInvHolds, PTL DEF Spec, ImplementsTurns, Alternation!Spec, Turn
-----------------------------------------------------------------------------
\* Which signal is pending, what comes next, and how far the two have got.
Quiet == ~pending["server"] /\ ~pending["client"]

Setup ==
    /\ pc["client"] \in {"off", "open", "ignore", "block", "greet", "dead"}
    /\ pc["server"] \in {"off", "open", "ignore", "block", "hello", "dead"}
    /\ pc["client"] = "off" <=> pc["server"] = "off"
    /\ Quiet /\ rs = 0 /\ rc = 0 /\ hs = hc
Greeted ==
    /\ pc["server"] \in {"hello", "dead"}
    /\ pending["server"] = (pc["server"] = "hello") /\ ~pending["client"]
    /\ IF 0 < n THEN pc["client"] = "wait" ELSE pc["client"] \in {"close", "done"}
    /\ rs = 0 /\ rc = 0 /\ hs = hc
Writing ==
    /\ pc["server"] \in {"write", "notify"} /\ pc["client"] = "wait"
    /\ Quiet /\ rs = rc /\ rc < n /\ hs = hc
Told ==
    /\ pc["server"] = "wait" /\ pc["client"] = "wait"
    /\ ~pending["server"] /\ pending["client"] /\ rs = rc /\ rc < n /\ hs = hc
Answering ==
    /\ pc["server"] = "wait" /\ pc["client"] = "notify"
    /\ Quiet /\ rs = rc /\ rc < n /\ hc = hs + 1
Answered ==
    /\ pc["server"] = "wait" /\ pending["server"] /\ ~pending["client"]
    /\ IF rc < n THEN pc["client"] = "wait" ELSE pc["client"] \in {"close", "done"}
    /\ rc = rs + 1 /\ rc <= n /\ hc = hs + 1
Leaving ==
    /\ pc["server"] \in {"reap", "done"} /\ pc["client"] \in {"close", "done"}
    /\ Quiet /\ hs = hc

Phases == \/ Setup \/ Greeted \/ Writing \/ Told \/ Answering \/ Answered \/ Leaving

\* How far the setup of the signals is tells what a signal does.
PipeModeOf(place) == IF place \in {"off", "open", "ignore"} THEN "default"
                 ELSE IF place = "block" THEN "handled" ELSE "blocked"

PipeShape ==
    /\ pc \in [Proc -> Places] /\ count \in [Proc -> Nat] /\ round \in [Proc -> Nat]
    /\ heard \in [Proc -> Nat] /\ pending \in [Proc -> BOOLEAN]
    /\ mode \in [Proc -> {"default", "handled", "blocked"}]
    /\ \A p \in Proc : pc[p] # "dead" => mode[p] = PipeModeOf(pc[p])
    /\ count["server"] = n /\ ~disturbed

PipeInv == program = "pipe" => PipeShape /\ Phases

(* The invariant holds before the server starts.                           *)
LEMMA PipeStarts == Init => PipeInv
<1> SUFFICES ASSUME Init PROVE PipeInv
  OBVIOUS
<1>1. "off" \in Places
  BY DEF Places
<1> QED
  BY <1>1, Both DEF Init, DemoInit, SignalInit, PipeInv, PipeShape, Phases, Setup, Quiet, PipeModeOf,
     rs, rc, hs, hc, n

\* A step that is nobody's hearing
Silent == PipeInv' /\ UNCHANGED heard

(* A start keeps it, and is no turn.                                       *)
LEMMA ForkIsSilent ==
  ASSUME PipeInv, program = "pipe", PipeFork
  PROVE  Silent
<1>1. PICK m \in 0 .. MaxRounds : count' = [p \in Proc |-> m]
  BY DEF PipeFork
<1>2. m \in Nat /\ "open" \in Places
  BY DemoAssumption DEF Places
<1>3. pc["client"] = "off" /\ PipeShape /\ Setup
  BY Both DEF PipeFork, PipeInv, Phases, Greeted, Writing, Told, Answering, Answered, Leaving
<1>4. PipeShape'
  BY <1>1, <1>2, <1>3, Both DEF PipeShape, PipeFork, signalVars, PipeModeOf, n
<1>5. Setup'
  BY <1>3, Both DEF Setup, Quiet, PipeFork, signalVars, rs, rc, hs, hc
<1> QED
  BY <1>4, <1>5 DEF Silent, PipeInv, Phases, PipeFork

(* Opening the stream and setting up the signals                           *)
LEMMA SetupIsSilent ==
  ASSUME PipeInv, program = "pipe", NEW p \in Proc,
         OpenStream(p) \/ OpenFails(p) \/ PipeIgnore(p) \/ PipeBlock(p)
  PROVE  Silent
<1>1. PipeShape /\ Setup
  BY Both DEF OpenStream, OpenFails, PipeIgnore, PipeBlock, SetupIgnore, SetupBlock, PipeInv, Phases,
     Greeted, Writing, Told, Answering, Answered, Leaving
<1>2. PICK place \in {"ignore", "dead", "block", "hello", "greet"} :
        /\ pc[p] # "off" /\ pc' = [pc EXCEPT ![p] = place]
        /\ place = "hello" => p = "server"
        /\ place = "greet" => p = "client"
        /\ place # "dead" => mode' = [mode EXCEPT ![p] = PipeModeOf(place)]
        /\ place = "dead" => UNCHANGED mode
  BY <1>1, Both DEF OpenStream, OpenFails, PipeIgnore, PipeBlock, SetupIgnore, SetupBlock, Goto,
     PipeShape, PipeModeOf, signalVars
<1>3. UNCHANGED <<program, count, round, disturbed, heard, pending>>
  BY DEF OpenStream, OpenFails, PipeIgnore, PipeBlock, SetupIgnore, SetupBlock, Goto, signalVars
<1>4. place \in Places
  BY DEF Places
<1>5. PipeShape'
  BY <1>1, <1>2, <1>3, <1>4 DEF PipeShape, PipeModeOf, n
<1>6. Setup'
  BY <1>1, <1>2, <1>3, Both DEF Setup, Quiet, PipeShape, rs, rc, hs, hc
<1> QED
  BY <1>3, <1>5, <1>6 DEF Silent, PipeInv, Phases

(* The client's first signal keeps it, and is no turn.                     *)
LEMMA GreetIsSilent ==
  ASSUME PipeInv, program = "pipe", PipeGreet
  PROVE  Silent
<1>1. PipeShape /\ Setup /\ pc["client"] = "greet"
  BY Both DEF PipeGreet, PipeInv, Phases, Greeted, Writing, Told, Answering, Answered, Leaving
<1>2. PICK place \in {"wait", "close"} :
        /\ place = (IF 0 < n THEN "wait" ELSE "close")
        /\ Raise("SIGUSR1", {"server"}, "client", place)
  BY DEF PipeGreet, Enter, n
<1>3. /\ pc'["client"] = place /\ pending'["client"] = pending["client"]
      /\ pc'["server"] = (IF pc["server"] = "hello" THEN "hello" ELSE "dead")
      /\ pending'["server"] = (pc["server"] = "hello")
      /\ pc' \in [Proc -> Places] /\ pending' \in [Proc -> BOOLEAN]
  BY <1>1, <1>2, Both DEF Raise, Running, Fatal, Awaited, PipeShape, Setup, Quiet, PipeModeOf, Places
<1>4. UNCHANGED <<program, count, round, disturbed, heard, mode>>
  BY DEF PipeGreet
<1>5. PipeShape'
  BY <1>1, <1>3, <1>4, Both DEF PipeShape, PipeModeOf, n
<1> QED
  BY <1>1, <1>2, <1>3, <1>4, <1>5, Both
  DEF Silent, PipeInv, Phases, Setup, Greeted, Quiet, rs, rc, hs, hc, n

(* The server's wait for that signal keeps it, and is no turn.             *)
LEMMA HelloIsSilent ==
  ASSUME PipeInv, program = "pipe", PipeHello
  PROVE  Silent
<1>1. PipeShape /\ Greeted /\ pc["server"] = "hello"
  BY Both DEF PipeHello, SigWait, PipeInv, PipeShape, Phases, Setup, Quiet, Writing, Told, Answering,
     Answered, Leaving
<1>2. PICK place \in {"write", "reap"} :
        /\ place = (IF 0 < n THEN "write" ELSE "reap")
        /\ pc' = [pc EXCEPT !["server"] = place]
  BY <1>1 DEF PipeHello, Goto, Enter, PipeShape
<1>3. /\ pending' = [pending EXCEPT !["server"] = FALSE]
      /\ UNCHANGED <<program, count, round, disturbed, heard, mode>>
  BY DEF PipeHello, SigWait, Goto
<1>4. place \in Places
  BY DEF Places
<1>5. PipeShape'
  BY <1>1, <1>2, <1>3, <1>4, Both DEF PipeShape, PipeModeOf, n
<1>6. CASE 0 < n
  <2>1. Writing'
    BY <1>1, <1>2, <1>3, <1>6, Both DEF PipeShape, Greeted, Writing, Quiet, rs, rc, hs, hc, n
  <2> QED
    BY <1>3, <1>5, <2>1 DEF Silent, PipeInv, Phases
<1>7. CASE ~(0 < n)
  <2>1. Leaving'
    BY <1>1, <1>2, <1>3, <1>7, Both DEF PipeShape, Greeted, Leaving, Quiet, rs, rc, hs, hc, n
  <2> QED
    BY <1>3, <1>5, <2>1 DEF Silent, PipeInv, Phases
<1> QED
  BY <1>6, <1>7

(* A write into the pipe keeps it, and is no turn.                         *)
LEMMA WriteIsSilent ==
  ASSUME PipeInv, program = "pipe", PipeWrite
  PROVE  Silent
<1>1. PipeShape /\ Writing
  BY Both DEF PipeWrite, PipeInv, Phases, Setup, Greeted, Told, Answering, Answered, Leaving
<1>2. /\ pc' = [pc EXCEPT !["server"] = "notify"] /\ "notify" \in Places
      /\ UNCHANGED <<program, count, round, disturbed, heard, mode, pending>>
  BY DEF PipeWrite, Goto, Places, signalVars
<1>3. PipeShape'
  BY <1>1, <1>2, Both DEF PipeShape, Writing, PipeModeOf, n
<1>4. Writing'
  BY <1>1, <1>2, Both DEF PipeShape, Writing, Quiet, rs, rc, hs, hc, n
<1> QED
  BY <1>2, <1>3, <1>4 DEF Silent, PipeInv, Phases

(* A signal to the reader keeps it, and is no turn.                        *)
LEMMA NotifyIsSilent ==
  ASSUME PipeInv, program = "pipe", PipeNotify
  PROVE  Silent
<1>1. PipeShape /\ Writing /\ pc["server"] = "notify"
  BY Both DEF PipeNotify, PipeInv, Phases, Setup, Greeted, Told, Answering, Answered, Leaving
<1>2. UNCHANGED <<program, count, round, disturbed, heard, mode>> /\ "wait" \in Places
  BY DEF PipeNotify, Places
<1>3. /\ pc' = [pc EXCEPT !["server"] = "wait"]
      /\ pending' = [pending EXCEPT !["client"] = TRUE]
  BY <1>1, Both DEF PipeNotify, Raise, Running, Fatal, Awaited, PipeShape, Writing, Quiet, PipeModeOf
<1>4. PipeShape'
  BY <1>1, <1>2, <1>3, Both DEF PipeShape, PipeModeOf, n
<1>5. Told'
  BY <1>1, <1>2, <1>3, Both DEF PipeShape, Writing, Told, Quiet, rs, rc, hs, hc, n
<1> QED
  BY <1>2, <1>4, <1>5 DEF Silent, PipeInv, Phases

(* The client hears the message the server owes it.                        *)
LEMMA ToldInTurn ==
  ASSUME PipeInv, program = "pipe", PipeTold
  PROVE  PipeInv' /\ hs = hc /\ heard' = [heard EXCEPT !["client"] = @ + 1]
<1>1. PipeShape /\ Told
  BY Both DEF PipeTold, SigWait, PipeInv, Phases, Setup, Greeted, Writing, Quiet, Answering, Answered,
     Leaving
<1>2. /\ pc' = [pc EXCEPT !["client"] = "notify"] /\ "notify" \in Places
      /\ pending' = [pending EXCEPT !["client"] = FALSE]
      /\ heard' = [heard EXCEPT !["client"] = @ + 1]
      /\ UNCHANGED <<program, count, round, disturbed, mode>>
  BY <1>1 DEF PipeTold, SigWait, Goto, Places, Hear, PipeShape
<1>3. PipeShape'
  BY <1>1, <1>2, Both DEF PipeShape, Told, PipeModeOf, n
<1>4. Answering'
  BY <1>1, <1>2, Both DEF PipeShape, Told, Answering, Quiet, rs, rc, hs, hc, n
<1> QED
  BY <1>1, <1>2, <1>3, <1>4 DEF PipeInv, Phases, Told

(* A signal to the writer keeps it, and is no turn.                        *)
LEMMA AnswerIsSilent ==
  ASSUME PipeInv, program = "pipe", PipeAnswer
  PROVE  Silent
<1>1. PipeShape /\ Answering
  BY Both DEF PipeAnswer, PipeInv, Phases, Setup, Greeted, Writing, Told, Answered, Leaving
<1>2. /\ round' = [round EXCEPT !["client"] = @ + 1]
      /\ UNCHANGED <<program, count, disturbed, heard, mode>>
      /\ {"wait", "close"} \subseteq Places
  BY DEF PipeAnswer, Places
<1>3. /\ pc' = [pc EXCEPT !["client"] = IF rc + 1 < n THEN "wait" ELSE "close"]
      /\ pending' = [pending EXCEPT !["server"] = TRUE]
  BY <1>1, Both DEF PipeAnswer, Raise, Running, Fatal, Awaited, PipeShape, Answering, Quiet, PipeModeOf,
     rc, n
<1>4. PipeShape'
  BY <1>1, <1>2, <1>3, Both DEF PipeShape, Answering, PipeModeOf, n
<1>5. Answered'
  BY <1>1, <1>2, <1>3, Both DEF PipeShape, Answering, Answered, Quiet, rs, rc, hs, hc, n
<1> QED
  BY <1>2, <1>4, <1>5 DEF Silent, PipeInv, Phases

(* The server hears the answer it is owed.                                 *)
LEMMA AnsweredInTurn ==
  ASSUME PipeInv, program = "pipe", PipeAnswered
  PROVE  PipeInv' /\ hc = hs + 1 /\ heard' = [heard EXCEPT !["server"] = @ + 1]
<1>1. PipeShape /\ Answered
  BY Both DEF PipeAnswered, SigWait, PipeInv, Phases, Setup, Greeted, Writing, Told, Quiet, Answering,
     Leaving
<1>2. /\ pc' = [pc EXCEPT !["server"] = IF rs + 1 < n THEN "write" ELSE "reap"]
      /\ round' = [round EXCEPT !["server"] = @ + 1]
      /\ pending' = [pending EXCEPT !["server"] = FALSE]
      /\ heard' = [heard EXCEPT !["server"] = @ + 1]
      /\ UNCHANGED <<program, count, disturbed, mode>>
      /\ {"write", "reap"} \subseteq Places
  BY <1>1 DEF PipeAnswered, SigWait, NextRound, Places, Hear, PipeShape, rs, n
<1>3. PipeShape'
  BY <1>1, <1>2, Both DEF PipeShape, Answered, PipeModeOf, n
<1>4. CASE rs + 1 < n
  <2>1. Writing'
    BY <1>1, <1>2, <1>4, Both DEF PipeShape, Answered, Writing, Quiet, rs, rc, hs, hc, n
  <2> QED
    BY <1>1, <1>2, <1>3, <2>1 DEF PipeInv, Phases, Answered
<1>5. CASE ~(rs + 1 < n)
  <2>1. Leaving'
    BY <1>1, <1>2, <1>5, Both DEF PipeShape, Answered, Leaving, Quiet, rs, rc, hs, hc, n
  <2> QED
    BY <1>1, <1>2, <1>3, <2>1 DEF PipeInv, Phases, Answered
<1> QED
  BY <1>4, <1>5

(* The end of a side keeps it, and is no turn.                             *)
LEMMA EndIsSilent ==
  ASSUME PipeInv, program = "pipe", PipeClose \/ PipeReap
  PROVE  Silent
<1>0. PipeShape /\ Phases
  BY DEF PipeInv
<1>1. PICK p \in Proc :
        /\ pc[p] = (IF p = "client" THEN "close" ELSE "reap")
        /\ pc' = [pc EXCEPT ![p] = "done"]
  BY Both DEF PipeClose, PipeReap, Goto
<1>2. UNCHANGED <<program, count, round, disturbed, heard, mode, pending>> /\ "done" \in Places
  BY DEF PipeClose, PipeReap, Goto, Places, signalVars
<1>3. PipeShape'
  BY <1>0, <1>1, <1>2 DEF PipeShape, PipeModeOf, n
<1>4. CASE Greeted
  <2>1. Greeted'
    BY <1>0, <1>1, <1>2, <1>4, Both DEF PipeShape, Greeted, Quiet, rs, rc, hs, hc, n
  <2> QED
    BY <1>2, <1>3, <2>1 DEF Silent, PipeInv, Phases
<1>5. CASE Answered
  <2>1. Answered'
    BY <1>0, <1>1, <1>2, <1>5, Both DEF PipeShape, Answered, Quiet, rs, rc, hs, hc, n
  <2> QED
    BY <1>2, <1>3, <2>1 DEF Silent, PipeInv, Phases
<1>6. CASE Leaving
  <2>1. Leaving'
    BY <1>0, <1>1, <1>2, <1>6, Both DEF PipeShape, Leaving, Quiet, rs, rc, hs, hc, n
  <2> QED
    BY <1>2, <1>3, <2>1 DEF Silent, PipeInv, Phases
<1> QED
  BY <1>0, <1>1, <1>4, <1>5, <1>6, Both DEF Phases, Setup, Writing, Told, Answering
-----------------------------------------------------------------------------
(* One step of any program                                                 *)
LEMMA PipeInductive ==
  ASSUME PipeInv, [Next]_vars, program' = "pipe"
  PROVE  PipeInv' /\ Turn
<1>1. program = "pipe" /\ UNCHANGED program /\ (PipeNext \/ UNCHANGED vars)
  BY OneProgram DEF GuardNext, EventNext, SocketNext, GuardPrograms, SocketPrograms
<1>2. CASE Silent
  BY <1>1, <1>2 DEF Silent, Turn
<1>3. CASE PipeTold
  <2>1. Alternation!HearFirst
    BY <1>1, <1>3, ToldInTurn, Both DEF Alternation!HearFirst, hs, hc
  <2> QED
    BY <1>1, <1>3, <2>1, ToldInTurn DEF Turn, Alternation!Next
<1>4. CASE PipeAnswered
  <2>1. Alternation!HearSecond("server")
    BY <1>1, <1>4, AnsweredInTurn, Both DEF Alternation!HearSecond, hs, hc
  <2> QED
    BY <1>1, <1>4, <2>1, AnsweredInTurn, Both DEF Turn, Alternation!Next
<1>5. CASE UNCHANGED vars
  <2>1. PipeInv' /\ UNCHANGED heard
    BY <1>5 DEF vars, demoVars, signalVars, PipeInv, PipeShape, Phases, Setup, Greeted, Writing, Told,
       Answering, Answered, Leaving, Quiet, rs, rc, hs, hc, n
  <2> QED
    BY <1>2, <2>1 DEF Silent
<1>6. ASSUME NEW p \in Proc, PipeStep(p) PROVE PipeInv' /\ Turn
  BY <1>1, <1>2, <1>3, <1>4, <1>6, SetupIsSilent, GreetIsSilent, HelloIsSilent, WriteIsSilent,
     NotifyIsSilent, AnswerIsSilent, EndIsSilent DEF PipeStep
<1> QED
  BY <1>1, <1>2, <1>5, <1>6, ForkIsSilent DEF PipeNext

(* Bytes, ends and signals of pipe.c are as the phase says, always.        *)
THEOREM PipeInvHolds == Spec => []PipeInv
<1>1. PipeInv /\ [Next]_vars => PipeInv'
  BY PipeInductive DEF PipeInv
<1> QED
  BY <1>1, PipeStarts, PTL DEF Spec

(* No signal of the pipe demo is raised while the one before it is still   *)
(* pending, which would lose it.                                           *)
THEOREM PipeNoSignalLost == Spec => []NoSignalLost
<1>1. PipeInv => NoSignalLost
  BY Both DEF PipeInv, NoSignalLost, Phases, Setup, Greeted, Writing, Told, Answering, Answered,
     Leaving, Quiet
<1> QED
  BY <1>1, PipeInvHolds, PTL

(* The server of the pipe demo writes only while the client is there.      *)
THEOREM PipeWriterHasReader == Spec => []WriterHasReader
<1>1. PipeInv => WriterHasReader
  BY DEF PipeInv, WriterHasReader, Phases, Setup, Greeted, Writing, Told, Answering, Answered,
     Leaving
<1> QED
  BY <1>1, PipeInvHolds, PTL

(* The pipe demo implements the abstract turns, the client first: the      *)
(* signals keep the two in step, though the client reads nothing.          *)
THEOREM PipeImplementsTurns == Spec /\ program = "pipe" => ImplementsTurns
<1>1. Init /\ program = "pipe" => Alternation!Init
  BY Both DEF Init, DemoInit, Alternation!Init
<1>2. program = "pipe" /\ [Next]_vars => (program = "pipe")'
  BY OneProgram
<1>3. PipeInv /\ program = "pipe" /\ [Next]_vars /\ (program = "pipe")' => Turn
  BY PipeInductive
<1> QED
  BY <1>1, <1>2, <1>3, PipeInvHolds, PTL DEF Spec, ImplementsTurns, Alternation!Spec, Turn
-----------------------------------------------------------------------------
\* Where the server is until it has accepted
Before == {"off", "listen", "ignore", "block", "announce", "accept"}

SocketShape ==
    /\ pc \in [Proc -> Places] /\ heard \in [Proc -> Nat] /\ disturbed \in BOOLEAN
    /\ wire \in [Proc -> Nat] /\ unsent \in [Proc -> Nat]

\* Bytes a process still has to put in
Owed(p) == IF pc[p] = "send" THEN unsent[p] ELSE 0

(* Every byte under way or still to be sent belongs to one message, and a  *)
(* process in its send has all the bytes of a message to account for.      *)
Loads ==
    /\ wire["server"] + wire["client"] + Owed("server") + Owed("client") <= Size
    /\ pc["server"] = "send" => unsent["server"] > 0 /\ unsent["server"] + wire["client"] = Size
    /\ pc["client"] = "send" => unsent["client"] > 0 /\ unsent["client"] + wire["server"] = Size
    /\ pc["server"] \in Before =>
           wire["server"] = 0 /\ wire["client"] = 0 /\ pc["client"] # "send"

(* The message under way is for the one who is to hear next.               *)
Owes ==
    /\ hs = hc \/ hc = hs + 1
    /\ pc["server"] \in Before \cup {"send"} \/ wire["client"] > 0 => hs = hc
    /\ pc["client"] = "send" \/ wire["server"] > 0 => hc = hs + 1

SocketInv ==
    program \in SocketPrograms =>
        /\ SocketShape
        /\ ~disturbed => Loads /\ Owes

(* The invariant holds before anyone starts.                               *)
LEMMA SocketStarts == Init => SocketInv
<1> SUFFICES ASSUME Init PROVE SocketInv
  OBVIOUS
<1>1. "off" \in Places /\ Size \in Nat
  BY DemoAssumption DEF Places
<1>2. /\ pc = [p \in Proc |-> "off"] /\ heard = [p \in Proc |-> 0] /\ disturbed = FALSE
      /\ wire = [p \in Proc |-> 0] /\ unsent = [p \in Proc |-> 0]
  BY DEF Init, DemoInit, SocketInit
<1>3. SocketShape
  BY <1>1, <1>2 DEF SocketShape
<1>4. Loads /\ Owes
  BY <1>1, <1>2, Both DEF Loads, Owed, Owes, Before, hs, hc
<1> QED
  BY <1>3, <1>4 DEF SocketInv

(* Whoever receives a whole message receives the only one under way.       *)
LEMMA WholeIsAll ==
  ASSUME SocketShape, Loads, Owes, NEW p \in Proc, RecvWhole(p)
  PROVE  /\ wire[p] = Size /\ wire[Other(p)] = 0 /\ \A q \in Proc : pc[q] # "send"
         /\ p = "client" => hs = hc
         /\ p = "server" => hc = hs + 1
<1>1. Size \in Nat /\ Size # 0 /\ wire[p] >= Size
  BY DemoAssumption DEF RecvWhole
<1>2. /\ wire["server"] \in Nat /\ wire["client"] \in Nat
      /\ Owed("server") \in Nat /\ Owed("client") \in Nat
  BY Both DEF SocketShape, Owed
<1>3. /\ wire[p] = Size /\ wire[Other(p)] = 0 /\ Owed("server") = 0 /\ Owed("client") = 0
  BY <1>1, <1>2, Both DEF Loads, Other
<1>4. \A q \in Proc : pc[q] # "send"
  BY <1>3, Both DEF Loads, Owed
<1>5. /\ p = "client" => hs = hc
      /\ p = "server" => hc = hs + 1
  BY <1>1, <1>3 DEF Owes
<1> QED
  BY <1>3, <1>4, <1>5

(* Starting, getting ready, connecting, failing and leaving                *)
LEMMA MovesKeep ==
  ASSUME SocketInv, program \in SocketPrograms,
         pc' \in [Proc -> Places], UNCHANGED <<program, disturbed, heard, wire, unsent>>,
         \A q \in Proc : pc'[q] = "send" => pc[q] = "send",
         pc'["server"] \in Before => pc["server"] \in Before
  PROVE  SocketInv'
<1>1. SocketShape'
  BY DEF SocketInv, SocketShape
<1>2. ASSUME ~disturbed PROVE Loads' /\ Owes'
  BY <1>2, Both DEF SocketInv, SocketShape, Loads, Owed, Owes, hs, hc
<1> QED
  BY <1>1, <1>2 DEF SocketInv

(* A start, the signal setup, a failed recv and a close keep it.           *)
LEMMA ReadyKeeps ==
  ASSUME SocketInv, program \in SocketPrograms, NEW p \in Proc,
         \/ SocketStart(p) \/ SocketIgnore(p) \/ SocketBlock(p) \/ RecvFails(p) \/ Hangup(p)
  PROVE  SocketInv' /\ UNCHANGED heard
<1>1. PICK place \in {"listen", "connect", "ignore", "block", "announce", "sigwait", "dead", "done"} :
        /\ pc' = [pc EXCEPT ![p] = place]
        /\ place \in Before => pc[p] \in Before
  BY DEF SocketStart, SocketIgnore, SocketBlock, SetupIgnore, SetupBlock, RecvFails, Hangup, Goto,
     Before
<1>2. place \in Places
  BY DEF Places
<1>3. UNCHANGED <<program, disturbed, heard, wire, unsent>>
  BY DEF SocketStart, SocketIgnore, SocketBlock, SetupIgnore, SetupBlock, RecvFails, Hangup, Goto,
     socketVars
<1> QED
  BY <1>1, <1>2, <1>3, MovesKeep, Both DEF SocketInv, SocketShape

(* The steps that bring server and client together keep it.                *)
LEMMA MeetKeeps ==
  ASSUME SocketInv, program \in SocketPrograms,
         Listen \/ Announce \/ AwaitServer \/ Connect \/ ConnectRefused
  PROVE  SocketInv' /\ UNCHANGED heard
<1>1. \A q \in Proc : \/ pc'[q] = pc[q]
                      \/ pc'[q] \in {"accept", "ignore", "connect", "recv", "close", "dead"}
  BY Both DEF Listen, Announce, Raise, AwaitServer, Connect, ConnectRefused, Goto, Enter, SocketInv,
     SocketShape
<1>2. pc'["server"] \in Before => pc["server"] \in Before
  BY Both DEF Listen, Announce, AwaitServer, Connect, ConnectRefused, Goto, Before, SocketInv,
     SocketShape
<1>3. {"accept", "ignore", "connect", "recv", "close", "dead"} \subseteq Places
  BY DEF Places
<1>4. pc' \in [Proc -> Places]
  BY <1>1, <1>3 DEF Listen, Announce, Raise, AwaitServer, Connect, ConnectRefused, Goto, SocketInv,
     SocketShape
<1>5. UNCHANGED <<program, disturbed, heard, wire, unsent>>
  BY DEF Listen, Announce, AwaitServer, Connect, ConnectRefused, Goto, socketVars
<1> QED
  BY <1>1, <1>2, <1>4, <1>5, MovesKeep

(* An accept keeps it.                                                     *)
LEMMA AcceptKeeps ==
  ASSUME SocketInv, program \in SocketPrograms, Accept
  PROVE  SocketInv' /\ UNCHANGED heard
<1>1. PICK place \in {"send", "close"} : pc' = [pc EXCEPT !["server"] = place]
  BY DEF Accept, Goto, Enter
<1>2. /\ pc["server"] = "accept" /\ unsent' = [unsent EXCEPT !["server"] = Size]
      /\ UNCHANGED <<program, disturbed, heard, wire>> /\ Size \in Nat \ {0} /\ {"send", "close"} \subseteq Places
  BY DemoAssumption DEF Accept, Places
<1>3. SocketShape'
  BY <1>1, <1>2 DEF SocketInv, SocketShape
<1>4. ASSUME ~disturbed PROVE Loads' /\ Owes'
  BY <1>1, <1>2, <1>4, Both DEF SocketInv, SocketShape, Loads, Owed, Owes, Before, hs, hc
<1> QED
  BY <1>2, <1>3, <1>4 DEF SocketInv

(* A message sent keeps it.                                                *)
LEMMA SendKeeps ==
  ASSUME SocketInv, program \in SocketPrograms, NEW p \in Proc, SendSome(p)
  PROVE  SocketInv' /\ UNCHANGED heard
<1>0. SocketShape /\ pc[p] = "send" /\ Other(p) \in Proc /\ Other(p) # p
  BY Both DEF SocketInv, SendSome, Other
<1>1. PICK k \in 1 .. unsent[p] :
        /\ wire' = [wire EXCEPT ![Other(p)] = @ + k]
        /\ unsent' = [unsent EXCEPT ![p] = @ - k]
        /\ IF k = unsent[p] THEN HaveSent(p) ELSE UNCHANGED <<pc, round>>
  BY DEF SendSome
<1>2. PICK place \in {"send", "recv", "close"} :
        /\ pc' = [pc EXCEPT ![p] = place]
        /\ place = "send" <=> k # unsent[p]
  <2>1. pc = [pc EXCEPT ![p] = "send"]
    BY <1>0 DEF SocketShape
  <2> QED
    BY <1>1, <2>1 DEF HaveSent, Goto, NextRound
<1>3. UNCHANGED <<program, disturbed, heard>> /\ {"send", "recv", "close"} \subseteq Places
  BY DEF SendSome, Places
<1>4. k \in Nat /\ unsent[p] \in Nat /\ k <= unsent[p] /\ k >= 1 /\ Size \in Nat
  BY <1>0, DemoAssumption DEF SocketShape
<1>5. SocketShape'
  BY <1>0, <1>1, <1>2, <1>3, <1>4 DEF SocketShape
<1>6. ASSUME ~disturbed PROVE Loads' /\ Owes'
  <2>1. Loads /\ Owes
    BY <1>6 DEF SocketInv
  <2>2. CASE p = "server"
    <3>1. /\ pc'["server"] = place /\ pc'["client"] = pc["client"]
          /\ wire'["client"] = wire["client"] + k /\ wire'["server"] = wire["server"]
          /\ unsent'["server"] = unsent["server"] - k /\ unsent'["client"] = unsent["client"]
      BY <1>0, <1>1, <1>2, <2>2, Both DEF SocketShape, Other
    <3> QED
      BY <1>0, <1>2, <1>3, <1>4, <2>1, <2>2, <3>1, Both
      DEF SocketShape, Loads, Owed, Owes, Before, hs, hc
  <2>3. CASE p = "client"
    <3>1. /\ pc'["client"] = place /\ pc'["server"] = pc["server"]
          /\ wire'["server"] = wire["server"] + k /\ wire'["client"] = wire["client"]
          /\ unsent'["client"] = unsent["client"] - k /\ unsent'["server"] = unsent["server"]
      BY <1>0, <1>1, <1>2, <2>3, Both DEF SocketShape, Other
    <3> QED
      BY <1>0, <1>2, <1>3, <1>4, <2>1, <2>3, <3>1, Both
      DEF SocketShape, Loads, Owed, Owes, Before, hs, hc
  <2> QED
    BY <2>2, <2>3, Both
<1> QED
  BY <1>3, <1>5, <1>6 DEF SocketInv

(* A send after the other side's end keeps it.                             *)
LEMMA SendToNobodyKeeps ==
  ASSUME SocketInv, program \in SocketPrograms, NEW p \in Proc, SendToNobody(p)
  PROVE  SocketInv' /\ UNCHANGED heard
<1>1. PICK place \in {"dead", "recv", "close"} : pc' = [pc EXCEPT ![p] = place]
  BY DEF SendToNobody, HaveSent, Goto, NextRound
<1>2. /\ unsent' = [unsent EXCEPT ![p] = 0] /\ {"dead", "recv", "close"} \subseteq Places
      /\ UNCHANGED <<program, disturbed, heard, wire>>
  BY DEF SendToNobody, Places
<1>3. SocketShape'
  BY <1>1, <1>2 DEF SocketInv, SocketShape
<1>4. ASSUME ~disturbed PROVE Loads' /\ Owes'
  BY <1>1, <1>2, <1>4, DemoAssumption, Both
  DEF SocketInv, SocketShape, Loads, Owed, Owes, Before, hs, hc
<1> QED
  BY <1>2, <1>3, <1>4 DEF SocketInv

(* A whole message is heard by the one who is to hear next, and nothing is *)
(* under way then.                                                         *)
LEMMA RecvKeeps ==
  ASSUME SocketInv, program \in SocketPrograms, NEW p \in Proc, RecvWhole(p)
  PROVE  /\ SocketInv'
         /\ \/ disturbed /\ UNCHANGED heard
            \/ /\ ~disturbed /\ heard' = [heard EXCEPT ![p] = @ + 1]
               /\ IF p = "client" THEN hs = hc ELSE hc = hs + 1
<1>0. SocketShape /\ Size \in Nat /\ Size # 0
  BY DemoAssumption DEF SocketInv
<1>1. PICK place \in {"send", "close"} : pc' = [pc EXCEPT ![p] = place]
  BY DEF RecvWhole, HaveReceived, Goto, NextRound
<1>2. /\ unsent' = [unsent EXCEPT ![p] = Size] /\ {"send", "close"} \subseteq Places
      /\ wire[p] >= Size /\ wire' = [wire EXCEPT ![p] = wire[p] - Size]
      /\ UNCHANGED <<program, disturbed>>
  <2>1. wire[p] \in Nat /\ wire[p] >= Size
    BY <1>0 DEF RecvWhole, SocketShape
  <2>2. Received(p) = Size
    BY <1>0, <2>1 DEF Received, Least
  <2> QED
    BY <2>1, <2>2 DEF RecvWhole, HaveReceived, Take, Places
<1>3. heard' = IF disturbed THEN heard ELSE [heard EXCEPT ![p] = @ + 1]
  BY DEF RecvWhole, Hear
<1>4. SocketShape'
  BY <1>0, <1>1, <1>2, <1>3 DEF SocketShape
<1>5. ASSUME ~disturbed
      PROVE  Loads' /\ Owes' /\ IF p = "client" THEN hs = hc ELSE hc = hs + 1
  <2>1. Loads /\ Owes
    BY <1>5 DEF SocketInv
  <2>2. /\ wire[p] = Size /\ wire[Other(p)] = 0 /\ \A q \in Proc : pc[q] # "send"
        /\ p = "client" => hs = hc
        /\ p = "server" => hc = hs + 1
    BY <1>0, <2>1, WholeIsAll
  <2>3. CASE p = "server"
    BY <1>0, <1>1, <1>2, <1>3, <1>5, <2>1, <2>2, <2>3, Both
    DEF SocketShape, Loads, Owed, Owes, Before, Other, hs, hc
  <2>4. CASE p = "client"
    BY <1>0, <1>1, <1>2, <1>3, <1>5, <2>1, <2>2, <2>4, Both
    DEF SocketShape, Loads, Owed, Owes, Before, Other, hs, hc
  <2> QED
    BY <2>2, <2>3, <2>4, Both
<1> QED
  BY <1>2, <1>3, <1>4, <1>5 DEF SocketInv, SocketShape

(* What disturbs the exchange ends the promise.                            *)
LEMMA DisturbKeeps ==
  ASSUME SocketInv, program \in SocketPrograms, NEW p \in Proc, RecvShort(p) \/ SocketKill(p)
  PROVE  SocketInv' /\ UNCHANGED heard
<1>1. PICK place \in {"send", "close", "dead"} : pc' = [pc EXCEPT ![p] = place]
  BY DEF RecvShort, SocketKill, HaveReceived, Goto, NextRound
<1>2. {"send", "close", "dead"} \subseteq Places /\ Size \in Nat
  BY DemoAssumption DEF Places
<1>3. wire' \in [Proc -> Nat] /\ unsent' \in [Proc -> Nat]
  BY <1>2 DEF SocketInv, SocketShape, RecvShort, SocketKill, HaveReceived, Take, Received, Least,
     socketVars
<1>4. disturbed' = TRUE /\ UNCHANGED <<program, heard>>
  BY DEF RecvShort, SocketKill
<1> QED
  BY <1>1, <1>2, <1>3, <1>4 DEF SocketInv, SocketShape
-----------------------------------------------------------------------------
\* How far the setup of the signals is tells what a signal does.
SocketModeOf(place) == IF place \in {"off", "listen", "ignore"} THEN "default"
                 ELSE IF place = "block" THEN "handled" ELSE "blocked"

(* A UNIX client connects only after it got the announcement, and the      *)
(* server that made it waits for the connection.                           *)
Announced ==
    /\ \A p \in Proc : pc[p] # "dead" => mode[p] = SocketModeOf(pc[p])
    /\ pc["client"] \in {"off", "ignore", "block", "sigwait", "connect"} => ~linked
    /\ pending["client"] => pc["client"] = "sigwait" /\ pc["server"] = "accept"
    /\ pc["client"] = "connect" => pc["server"] = "accept"
    /\ pc["server"] \in Before \ {"accept"} =>
           pc["client"] \in {"off", "ignore", "block", "sigwait", "dead"}

UnixInv ==
    program = "unix" =>
        /\ pc \in [Proc -> Places] /\ pending \in [Proc -> BOOLEAN]
        /\ mode \in [Proc -> {"default", "handled", "blocked"}]
        /\ ~disturbed => Announced

(* The invariant of the announcement holds before anyone starts.           *)
LEMMA UnixStarts == Init => UnixInv
<1>1. "off" \in Places
  BY DEF Places
<1> QED
  BY <1>1, Both DEF Init, DemoInit, SocketInit, SignalInit, UnixInv, Announced, SocketModeOf

(* A start keeps it.                                                       *)
LEMMA UnixStartKeeps ==
  ASSUME UnixInv, program = "unix", NEW p \in Proc,
         SocketStart(p) \/ SocketIgnore(p) \/ SocketBlock(p)
  PROVE  UnixInv'
<1>1. PICK place \in {"listen", "ignore", "block", "announce", "sigwait"} :
        /\ pc' = [pc EXCEPT ![p] = place]
        /\ mode' \in [Proc -> {"default", "handled", "blocked"}]
        /\ ~disturbed => mode' = [mode EXCEPT ![p] = SocketModeOf(place)]
        /\ pc[p] \in {"off", "ignore", "block"}
        /\ IF p = "server" THEN place # "sigwait" ELSE place \in {"ignore", "block", "sigwait"}
  <2>1. CASE SocketStart(p)
    BY <2>1, Both DEF SocketStart, Goto, signalVars, SocketModeOf, UnixInv, Announced
  <2>2. CASE SocketIgnore(p) \/ SocketBlock(p)
    BY <2>2, Both DEF SocketIgnore, SocketBlock, SetupIgnore, SetupBlock, Goto, SocketModeOf, UnixInv
  <2> QED
    BY <2>1, <2>2
<1>2. UNCHANGED <<program, disturbed, pending, linked>>
  BY DEF SocketStart, SocketIgnore, SocketBlock, SetupIgnore, SetupBlock, signalVars, socketVars
<1>3. place \in Places
  BY DEF Places
<1>4. ASSUME ~disturbed PROVE Announced'
  BY <1>1, <1>2, <1>4, Both DEF UnixInv, Announced, Before, SocketModeOf
<1> QED
  BY <1>1, <1>2, <1>3, <1>4 DEF UnixInv, SocketModeOf

(* The server's listen keeps it.                                           *)
LEMMA UnixListenKeeps ==
  ASSUME UnixInv, program = "unix", Listen
  PROVE  UnixInv'
<1>1. /\ pc' = [pc EXCEPT !["server"] = "ignore"] /\ pc["server"] = "listen"
      /\ "ignore" \in Places /\ UNCHANGED <<program, disturbed, mode, pending, linked>>
  BY DEF Listen, Goto, Places, signalVars, socketVars
<1>2. ASSUME ~disturbed PROVE Announced'
  BY <1>1, <1>2, Both DEF UnixInv, Announced, Before, SocketModeOf
<1> QED
  BY <1>1, <1>2, Both DEF UnixInv

(* The server's announcement keeps it.                                     *)
LEMMA UnixAnnounceKeeps ==
  ASSUME UnixInv, program = "unix", Announce
  PROVE  UnixInv'
<1>1. PICK group \in {Proc, {"server"}} : Raise("SIGUSR2", group, "server", "accept")
  BY DEF Announce
<1>2. UNCHANGED <<program, disturbed, mode, linked>> /\ pc["server"] = "announce"
      /\ {"accept", "dead"} \subseteq Places
  BY DEF Announce, socketVars, Places
<1>3. pc' \in [Proc -> Places] /\ pending' \in [Proc -> BOOLEAN]
  BY <1>1, <1>2 DEF Raise, UnixInv
<1>4. ASSUME ~disturbed PROVE Announced'
  <2>1. Announced
    BY <1>4 DEF UnixInv
  <2>2. mode["server"] = "blocked" /\ ~pending["client"]
        /\ pc["client"] \in {"off", "ignore", "block", "sigwait", "dead"}
    BY <1>2, <2>1, Both DEF Announced, SocketModeOf, Before
  <2>3. pc'["server"] = "accept"
    BY <1>1, <2>2, Both DEF Raise, Fatal, Awaited
  <2>4. CASE "client" \in group /\ pc["client"] \in {"ignore", "block"}
    <3>1. mode["client"] # "blocked" /\ pc'["client"] = "dead" /\ ~pending'["client"]
      BY <1>1, <2>1, <2>2, <2>4, Both DEF Raise, Running, Fatal, Awaited, Announced, SocketModeOf
    <3> QED
      BY <1>2, <1>3, <2>1, <2>2, <2>3, <3>1, Both DEF Announced, SocketModeOf, Before
  <2>5. CASE ~("client" \in group /\ pc["client"] \in {"ignore", "block"})
    <3>1. /\ pc'["client"] = pc["client"]
          /\ pending'["client"] => pc["client"] = "sigwait"
      BY <1>1, <2>1, <2>2, <2>5, Both DEF Raise, Running, Fatal, Awaited, Announced, SocketModeOf
    <3> QED
      BY <1>2, <1>3, <2>1, <2>2, <2>3, <3>1, Both DEF Announced, SocketModeOf, Before
  <2> QED
    BY <2>4, <2>5
<1> QED
  BY <1>2, <1>3, <1>4 DEF UnixInv

(* The client's wait for the announcement and its connect keep it.         *)
LEMMA UnixMeetKeeps ==
  ASSUME UnixInv, program = "unix", AwaitServer \/ Connect \/ ConnectRefused \/ Accept
  PROVE  UnixInv'
<1>1. UNCHANGED <<program, disturbed, mode>>
      /\ {"connect", "recv", "send", "close", "dead"} \subseteq Places
  BY DEF AwaitServer, Connect, ConnectRefused, Accept, SigWait, signalVars, Places
<1>2. CASE AwaitServer
  <2>1. /\ pc' = [pc EXCEPT !["client"] = "connect"] /\ pc["client"] = "sigwait"
        /\ pending["client"] /\ pending' = [pending EXCEPT !["client"] = FALSE]
        /\ UNCHANGED linked
    BY <1>2 DEF AwaitServer, SigWait, Goto, socketVars
  <2>2. ASSUME ~disturbed PROVE Announced'
    BY <1>1, <2>1, <2>2, Both DEF UnixInv, Announced, Before, SocketModeOf
  <2> QED
    BY <1>1, <2>1, <2>2, Both DEF UnixInv
<1>3. CASE Connect \/ ConnectRefused
  <2>1. PICK place \in {"recv", "close", "dead"} : pc' = [pc EXCEPT !["client"] = place]
    BY <1>3 DEF Connect, ConnectRefused, Goto, Enter
  <2>2. pc["client"] = "connect" /\ UNCHANGED pending
    BY <1>3 DEF Connect, ConnectRefused, signalVars
  <2>3. ASSUME ~disturbed PROVE Announced'
    BY <1>1, <2>1, <2>2, <2>3, Both DEF UnixInv, Announced, Before, SocketModeOf
  <2> QED
    BY <1>1, <2>1, <2>2, <2>3, Both DEF UnixInv
<1>4. CASE Accept
  <2>1. PICK place \in {"send", "close"} : pc' = [pc EXCEPT !["server"] = place]
    BY <1>4 DEF Accept, Goto, Enter
  <2>2. pc["server"] = "accept" /\ linked /\ UNCHANGED <<pending, linked>>
    BY <1>4 DEF Accept, signalVars
  <2>3. ASSUME ~disturbed PROVE Announced'
    BY <1>1, <2>1, <2>2, <2>3, Both DEF UnixInv, Announced, Before, SocketModeOf
  <2> QED
    BY <1>1, <2>1, <2>2, <2>3, Both DEF UnixInv
<1> QED
  BY <1>2, <1>3, <1>4

(* From the first message on                                               *)
LEMMA UnixExchangeKeeps ==
  ASSUME UnixInv, program = "unix", NEW p \in Proc,
         \/ SendSome(p) \/ SendToNobody(p) \/ RecvWhole(p) \/ RecvShort(p) \/ RecvFails(p)
         \/ Hangup(p) \/ SocketKill(p)
  PROVE  UnixInv'
<1>1. PICK place \in {"send", "recv", "close", "dead", "done"} : pc' = [pc EXCEPT ![p] = place]
  <2>1. pc = [pc EXCEPT ![p] = pc[p]]
    BY DEF UnixInv
  <2> QED
    BY <2>1 DEF SendSome, SendToNobody, RecvWhole, RecvShort, RecvFails, Hangup, SocketKill, HaveSent,
       HaveReceived, Goto, NextRound
<1>2. /\ UNCHANGED <<program, mode, pending, linked>>
      /\ disturbed \/ RecvShort(p) \/ SocketKill(p) => disturbed'
      /\ {"send", "recv", "close", "dead", "done"} \subseteq Places
  BY DEF SendSome, SendToNobody, RecvWhole, RecvShort, RecvFails, Hangup, SocketKill, signalVars,
     socketVars, Places
<1>3. ASSUME ~disturbed' PROVE Announced'
  <2>1. ~disturbed /\ ~SocketKill(p) /\ ~RecvShort(p)
    BY <1>2, <1>3
  <2>2. pc[p] \in {"send", "recv", "close"}
    BY <2>1 DEF SendSome, SendToNobody, RecvWhole, RecvFails, Hangup
  <2> QED
    BY <1>1, <1>2, <2>1, <2>2, Both DEF UnixInv, Announced, Before, SocketModeOf
<1> QED
  BY <1>1, <1>2, <1>3 DEF UnixInv
-----------------------------------------------------------------------------
(* One step of any program                                                 *)
LEMMA SocketInductive ==
  ASSUME SocketInv, UnixInv, [Next]_vars, program' \in SocketPrograms
  PROVE  SocketInv' /\ UnixInv' /\ Turn
<1>1. /\ program \in SocketPrograms /\ UNCHANGED program /\ program # "eventfd"
      /\ SocketNext \/ UNCHANGED vars
  BY OneProgram DEF GuardNext, EventNext, PipeNext, GuardPrograms, SocketPrograms
<1>2. ASSUME NEW p \in Proc, RecvWhole(p) PROVE Turn
  <2>1. \/ disturbed /\ UNCHANGED heard
        \/ /\ ~disturbed /\ heard' = [heard EXCEPT ![p] = @ + 1]
           /\ IF p = "client" THEN hs = hc ELSE hc = hs + 1
    BY <1>1, <1>2, RecvKeeps
  <2>2. CASE UNCHANGED heard
    BY <1>1, <2>2 DEF Turn
  <2>3. CASE p = "client" /\ hs = hc /\ heard' = [heard EXCEPT !["client"] = @ + 1]
    <3>1. Alternation!HearFirst
      BY <1>1, <2>3, Both DEF Alternation!HearFirst, hs, hc
    <3> QED
      BY <1>1, <3>1 DEF Turn, Alternation!Next
  <2>4. CASE p = "server" /\ hc = hs + 1 /\ heard' = [heard EXCEPT !["server"] = @ + 1]
    <3>1. Alternation!HearSecond("server")
      BY <1>1, <2>4, Both DEF Alternation!HearSecond, hs, hc
    <3> QED
      BY <1>1, <3>1, Both DEF Turn, Alternation!Next
  <2> QED
    BY <2>1, <2>2, <2>3, <2>4, Both
<1>3. ASSUME UNCHANGED heard PROVE Turn
  BY <1>1, <1>3 DEF Turn
<1>4. CASE UNCHANGED vars
  <2>1. SocketInv' /\ UnixInv' /\ UNCHANGED heard
    BY <1>4 DEF vars, demoVars, signalVars, socketVars, SocketInv, SocketShape, Loads, Owed, Owes, hs,
       hc, UnixInv, Announced
  <2> QED
    BY <1>3, <2>1
<1>5. ASSUME NEW p \in Proc, SocketStart(p) \/ SocketStep(p) \/ SocketKill(p)
      PROVE  SocketInv' /\ Turn
  BY <1>1, <1>2, <1>3, <1>5, ReadyKeeps, MeetKeeps, AcceptKeeps, SendKeeps, SendToNobodyKeeps,
     RecvKeeps, DisturbKeeps DEF SocketStep
<1>6. ASSUME NEW p \in Proc, SocketStart(p) \/ SocketStep(p) \/ SocketKill(p)
      PROVE  UnixInv'
  <2>1. CASE program = "unix"
    BY <1>6, <2>1, UnixStartKeeps, UnixListenKeeps, UnixAnnounceKeeps, UnixMeetKeeps,
       UnixExchangeKeeps DEF SocketStep
  <2>2. CASE program # "unix"
    BY <1>1, <2>2 DEF UnixInv
  <2> QED
    BY <2>1, <2>2
<1> QED
  BY <1>1, <1>4, <1>5, <1>6 DEF SocketNext

(* Bytes under way and announcements of the socket demos, always.          *)
THEOREM SocketInvHolds == Spec => [](SocketInv /\ UnixInv)
<1>1. SocketInv /\ UnixInv /\ [Next]_vars => SocketInv' /\ UnixInv'
  BY SocketInductive DEF SocketInv, UnixInv, SocketPrograms
<1> QED
  BY <1>1, SocketStarts, UnixStarts, PTL DEF Spec

(* The bytes under way between the two processes are never more than those *)
(* of one message, and the two never send at once.                         *)
THEOREM SocketOneUnderWay == Spec => []OneUnderWay
<1>1. SocketInv => OneUnderWay
  <2> SUFFICES ASSUME SocketInv, program \in SocketPrograms, ~disturbed
               PROVE  /\ wire["server"] + wire["client"] <= Size
                      /\ ~(pc["server"] = "send" /\ pc["client"] = "send")
    BY DEF OneUnderWay
  <2>1. /\ wire["server"] \in Nat /\ wire["client"] \in Nat /\ Size \in Nat
        /\ unsent["server"] \in Nat /\ unsent["client"] \in Nat
    BY Both, DemoAssumption DEF SocketInv, SocketShape
  <2> QED
    BY <2>1 DEF SocketInv, Loads, Owed
<1> QED
  BY <1>1, SocketInvHolds, PTL

(* A UNIX client that got the announcement finds a server that listens and *)
(* waits for it.                                                           *)
THEOREM SocketNeverRefused == Spec => []NeverRefused
<1>1. UnixInv => NeverRefused
  BY DEF UnixInv, Announced, NeverRefused
<1> QED
  BY <1>1, SocketInvHolds, PTL

(* The socket demos implement the abstract turns, the client first, up to  *)
(* the first kill or part of a message taken for all of it.                *)
THEOREM SocketImplementsTurns == Spec /\ program \in SocketPrograms => ImplementsTurns
<1>1. Init /\ program \in SocketPrograms => Alternation!Init
  BY Both DEF Init, DemoInit, SocketPrograms, Alternation!Init
<1>2. program \in SocketPrograms /\ [Next]_vars => (program \in SocketPrograms)'
  BY OneProgram DEF SocketPrograms
<1>3. SocketInv /\ UnixInv /\ [Next]_vars /\ (program \in SocketPrograms)' => Turn
  BY SocketInductive DEF SocketPrograms
<1> QED
  BY <1>1, <1>2, <1>3, SocketInvHolds, PTL DEF Spec, ImplementsTurns, Alternation!Spec, Turn
=============================================================================
