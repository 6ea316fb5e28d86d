---------------------------- MODULE DemosProofs ----------------------------
(***************************************************************************)
(* Proofs about the demos side by side: whichever program the user runs,   *)
(* its variables hold what the C types and the code allow, as those of the *)
(* others, which stay still, do; and every program implements the abstract *)
(* turns.                                                                  *)
(***************************************************************************)
EXTENDS GuardProofs

\* Where a process of the socket demos has not begun its loop, and where it is
\* inside
BeforeLoop == Before \cup {"sigwait", "connect"}

(* Before its loop a process has done no round, inside it some are left,   *)
(* also when the other side is gone or bytes are missing.                  *)
SocketRoundsLeft ==
    program \in SocketPrograms =>
        \A p \in Proc :
            /\ pc[p] \in BeforeLoop => round[p] = 0
            /\ pc[p] \in {"send", "recv"} => round[p] < count[p]

TypeInv == TypeOK /\ SocketRoundsLeft

\* What the four groups of programs have to themselves
Invs == EventInv /\ PipeInv /\ SocketInv /\ UnixInv /\ GuardInv

(* The types hold before anyone starts.                                    *)
LEMMA TypesStart == Init => TypeInv
<1> SUFFICES ASSUME Init PROVE TypeInv
  OBVIOUS
<1>1. /\ MaxRounds \in Nat /\ Size \in Nat /\ SockRoom \in Nat /\ PipeRoom \in Nat /\ MaxRuns \in Nat
      /\ 0 \in Offset /\ Zero \in Byte /\ "off" \in Places
  BY DemoAssumption, SocketAssumption, PipeAssumption, GuardAssumption, Offsets DEF Byte, Places
<1>2. DemoTypeOK
  <2>1. 0 \in 0 .. MaxRounds /\ 0 \in Nat
    BY <1>1
  <2>2. /\ pc = [p \in Proc |-> "off"] /\ count = [p \in Proc |-> 0]
        /\ round = [p \in Proc |-> 0] /\ disturbed = FALSE /\ heard = [p \in Proc |-> 0]
    BY DEF Init, DemoInit
  <2> QED
    BY <1>1, <2>1, <2>2 DEF DemoTypeOK
<1>3. GuardTypeOK
  <2>1. mem = <<>> /\ Len(mem) = 0 /\ mem \in Seq([Offset -> Byte])
    BY DEF Init, GuardInit
  <2> QED
    BY <1>1, <2>1 DEF Init, DemoInit, GuardInit, GuardTypeOK
<1>4. EventTypeOK /\ SignalTypeOK /\ PipeTypeOK
  BY <1>1 DEF Init, EventInit, SignalInit, PipeInit, EventTypeOK, SignalTypeOK, PipeTypeOK
<1>5. SocketTypeOK
  <2>1. 0 \in 0 .. SockRoom /\ 0 \in 0 .. Size
    BY <1>1
  <2> QED
    BY <2>1 DEF Init, SocketInit, SocketTypeOK
<1>6. SocketRoundsLeft
  BY DEF Init, DemoInit, SocketRoundsLeft
<1> QED
  BY <1>2, <1>3, <1>4, <1>5, <1>6 DEF TypeInv, TypeOK

(* A program leaves the guard demos' variables alone unless it is one.     *)
LEMMA GuardVarsRest ==
  ASSUME GuardTypeOK, UNCHANGED guardVars, program' \notin GuardPrograms
  PROVE  GuardTypeOK'
BY DEF GuardTypeOK, guardVars

(* The eventfd demo: the counter and both rounds stay within their bounds. *)
LEMMA EventKeepsTypes ==
  ASSUME TypeInv, EventInv, EventInv', program = "eventfd", EventDemo(EventNext)
  PROVE  TypeInv'
<1>1. EventNext /\ UNCHANGED <<program, guardVars, signalVars, filled, socketVars>>
  BY OneProgram DEF EventDemo, Next
<1>2. /\ EventShape /\ EventShape'
      /\ NotForked \/ Over \/ ClientPuts \/ ToServer \/ ServerPuts \/ ToClient
      /\ DemoTypeOK /\ EventTypeOK /\ MaxRounds \in Nat
  BY <1>1, DemoAssumption DEF EventInv, TypeInv, TypeOK
<1>3. UNCHANGED disturbed
  BY <1>1 DEF EventNext, EventFork, EventStep, GetMine, GetOther, WriteBack, PutToken
<1>4. ASSUME NEW p \in Proc, GetMine(p)
      PROVE  counter' \in 0 .. 2 /\ round' \in [Proc -> 0 .. MaxRounds] /\ UNCHANGED count
  <2>1. CASE p = "server"
    BY <1>2, <1>4, <2>1, Both DEF GetMine, Goto, DemoTypeOK
  <2>2. CASE p = "client"
    <3>1. ToClient
      BY <1>2, <1>4, <2>2, Both
      DEF GetMine, Token, NotForked, Over, ClientPuts, ToServer, ServerPuts
    <3> QED
      BY <1>2, <1>4, <2>2, <3>1, Both DEF GetMine, NextRound, ToClient, DemoTypeOK, rs, rc, n
  <2> QED
    BY <2>1, <2>2, Both
<1>5. ASSUME NEW p \in Proc, GetOther(p)
      PROVE  counter' \in 0 .. 2 /\ round' \in [Proc -> 0 .. MaxRounds] /\ UNCHANGED count
  BY <1>2, <1>5 DEF GetOther, Goto, DemoTypeOK
<1>6. ASSUME NEW p \in Proc, WriteBack(p)
      PROVE  counter' \in 0 .. 2 /\ round' \in [Proc -> 0 .. MaxRounds] /\ UNCHANGED count
  <2>1. counter = 0 /\ val[p] \in 0 .. 2
    BY <1>2, <1>6, Both
    DEF WriteBack, NotForked, Over, ClientPuts, ToServer, ServerPuts, ToClient, EventShape
  <2> QED
    BY <1>2, <1>6, <2>1 DEF WriteBack, Goto, DemoTypeOK
<1>7. ASSUME NEW p \in Proc, PutToken(p)
      PROVE  counter' \in 0 .. 2 /\ round' \in [Proc -> 0 .. MaxRounds] /\ UNCHANGED count
  <2>1. /\ counter = 0 /\ Token(Other(p)) \in 0 .. 2
        /\ p = "server" => rs = rc /\ rc < n
    BY <1>2, <1>7, Both
    DEF PutToken, NotForked, Over, ClientPuts, ToServer, ServerPuts, ToClient, Token
  <2>2. CASE p = "server"
    BY <1>2, <1>7, <2>1, <2>2, Both DEF PutToken, NextRound, DemoTypeOK, rs, rc, n
  <2>3. CASE p = "client"
    BY <1>2, <1>7, <2>1, <2>3, Both DEF PutToken, Goto, DemoTypeOK
  <2> QED
    BY <2>2, <2>3, Both
<1>8. DemoTypeOK' /\ EventTypeOK'
  <2>1. /\ pc' \in [Proc -> Places] /\ heard' \in [Proc -> Nat] /\ val' \in [Proc -> 0 .. 2]
        /\ disturbed' \in BOOLEAN
    BY <1>2, <1>3 DEF EventShape, DemoTypeOK
  <2>2. CASE EventFork
    BY <1>2, <2>1, <2>2 DEF DemoTypeOK, EventTypeOK, EventFork, eventVars
  <2>3. CASE \E p \in Proc : EventStep(p)
    <3>1. counter' \in 0 .. 2 /\ round' \in [Proc -> 0 .. MaxRounds] /\ UNCHANGED count
      BY <1>4, <1>5, <1>6, <1>7, <2>3 DEF EventStep
    <3> QED
      BY <1>2, <2>1, <3>1 DEF DemoTypeOK, EventTypeOK
  <2> QED
    BY <1>1, <2>2, <2>3 DEF EventNext
<1>9. SignalTypeOK' /\ PipeTypeOK' /\ SocketTypeOK' /\ GuardTypeOK' /\ SocketRoundsLeft'
  BY <1>1, GuardVarsRest DEF TypeInv, TypeOK, SignalTypeOK, signalVars, PipeTypeOK, SocketTypeOK,
     socketVars, SocketRoundsLeft, SocketPrograms, GuardPrograms
<1> QED
  BY <1>8, <1>9 DEF TypeInv, TypeOK

(* The pipe demo: what is in the pipe has room in it, and nobody begins a  *)
(* round after the last.                                                   *)
LEMMA PipeKeepsTypes ==
  ASSUME TypeInv, PipeInv, PipeInv', program = "pipe", PipeDemo(PipeNext)
  PROVE  TypeInv'
<1>1. PipeNext /\ UNCHANGED <<program, guardVars, eventVars, socketVars>>
  BY OneProgram DEF PipeDemo, Next
<1>2. /\ PipeShape /\ PipeShape' /\ Phases
      /\ DemoTypeOK /\ PipeTypeOK /\ MaxRounds \in Nat /\ PipeRoom \in Nat
  BY <1>1, DemoAssumption, PipeAssumption DEF PipeInv, TypeInv, TypeOK
<1>3. UNCHANGED disturbed /\ filled' \in 0 .. PipeRoom
  BY <1>1, <1>2 DEF PipeTypeOK, PipeNext, PipeFork, PipeStep, OpenStream, OpenFails, PipeIgnore,
     PipeBlock, PipeGreet, PipeHello, PipeWrite, PipeNotify, PipeTold, PipeAnswer, PipeAnswered,
     PipeClose, PipeReap
<1>4. count' \in [Proc -> 0 .. MaxRounds]
  BY <1>1, <1>2 DEF DemoTypeOK, PipeNext, PipeFork, PipeStep, OpenStream, OpenFails, PipeIgnore,
     PipeBlock, PipeGreet, PipeHello, PipeWrite, PipeNotify, PipeTold, PipeAnswer, PipeAnswered,
     PipeClose, PipeReap
<1>5. round' \in [Proc -> 0 .. MaxRounds]
  <2>1. CASE PipeAnswer
    <3>1. Answering
      BY <1>2, <2>1, Both DEF PipeAnswer, Phases, Setup, Greeted, Writing, Told, Answered, Leaving
    <3> QED
      BY <1>2, <2>1, <3>1, Both DEF PipeAnswer, Answering, DemoTypeOK, rs, rc, n
  <2>2. CASE PipeAnswered
    <3>1. Answered
      BY <1>2, <2>2, Both DEF PipeAnswered, SigWait, Phases, Setup, Greeted, Writing, Told, Quiet,
         Answering, Leaving
    <3> QED
      BY <1>2, <2>2, <3>1, Both DEF PipeAnswered, NextRound, Answered, DemoTypeOK, rs, rc, n
  <2>3. CASE ~PipeAnswer /\ ~PipeAnswered
    <3>1. UNCHANGED round
      BY <1>1, <2>3 DEF PipeNext, PipeFork, PipeStep, OpenStream, OpenFails, PipeIgnore, PipeBlock,
         SetupIgnore, SetupBlock, PipeGreet, PipeHello, PipeWrite, PipeNotify, PipeTold, PipeClose,
         PipeReap, Goto
    <3> QED
      BY <1>2, <3>1 DEF DemoTypeOK
  <2> QED
    BY <2>1, <2>2, <2>3
<1>6. DemoTypeOK' /\ SignalTypeOK' /\ PipeTypeOK'
  BY <1>2, <1>3, <1>4, <1>5 DEF PipeShape, DemoTypeOK, SignalTypeOK, PipeTypeOK
<1>7. EventTypeOK' /\ SocketTypeOK' /\ GuardTypeOK' /\ SocketRoundsLeft'
  BY <1>1, GuardVarsRest DEF TypeInv, TypeOK, EventTypeOK, eventVars, SocketTypeOK,
     socketVars, SocketRoundsLeft, SocketPrograms, GuardPrograms
<1> QED
  BY <1>6, <1>7 DEF TypeInv, TypeOK
-----------------------------------------------------------------------------
\* The program is a socket demo and stays it.
SocketRuns ==
    /\ program \in SocketPrograms /\ UNCHANGED program
    /\ DemoTypeOK /\ SignalTypeOK /\ SocketTypeOK /\ SocketRoundsLeft

\* What a step has to keep for the rounds
RoundsKept ==
    /\ count' \in [Proc -> 0 .. MaxRounds] /\ round' \in [Proc -> 0 .. MaxRounds]
    /\ SocketRoundsLeft'

(* A process that goes on within its round, or ends, keeps the rounds.     *)
LEMMA GoKeepsRounds ==
  ASSUME SocketRuns, NEW p \in Proc, NEW place \in Places, Goto(p, place), UNCHANGED count,
         place \in BeforeLoop => pc[p] \in BeforeLoop,
         place \in {"send", "recv"} => round[p] < count[p]
  PROVE  RoundsKept
BY DEF SocketRuns, DemoTypeOK, Goto, RoundsKept, SocketRoundsLeft

(* So does one whose round ends.                                           *)
LEMMA NextKeepsRounds ==
  ASSUME SocketRuns, NEW p \in Proc, NEW body \in {"send", "recv"}, NextRound(p, body, "close"),
         pc[p] \in {"send", "recv"}, UNCHANGED count
  PROVE  RoundsKept
<1>1. /\ round[p] \in Nat /\ count[p] \in 0 .. MaxRounds /\ round[p] < count[p] /\ MaxRounds \in Nat
      /\ pc \in [Proc -> Places] /\ round \in [Proc -> 0 .. MaxRounds]
      /\ count \in [Proc -> 0 .. MaxRounds]
  BY DemoAssumption DEF SocketRuns, DemoTypeOK, SocketRoundsLeft
<1>2. /\ round' = [round EXCEPT ![p] = round[p] + 1]
      /\ pc' = [pc EXCEPT ![p] = IF round[p] + 1 < count[p] THEN body ELSE "close"]
  BY DEF NextRound
<1>3. round' \in [Proc -> 0 .. MaxRounds]
  BY <1>1, <1>2
<1>4. "close" \notin BeforeLoop /\ body \notin BeforeLoop
  BY DEF BeforeLoop, Before
<1>5. SocketRoundsLeft'
  BY <1>1, <1>2, <1>4 DEF SocketRuns, SocketRoundsLeft
<1> QED
  BY <1>1, <1>3, <1>5 DEF RoundsKept

(* A start picks a msg_count and has done no round.                        *)
LEMMA StartKeepsRounds ==
  ASSUME SocketRuns, NEW p \in Proc, SocketStart(p)
  PROVE  RoundsKept
<1>1. PICK m \in 0 .. MaxRounds : count' = [count EXCEPT ![p] = m]
  BY DEF SocketStart
<1>2. PICK place \in {"listen", "connect", "ignore"} : pc' = [pc EXCEPT ![p] = place]
  BY DEF SocketStart, Goto
<1>3. pc[p] \in BeforeLoop /\ UNCHANGED round
  BY DEF SocketStart, Goto, BeforeLoop, Before
<1> QED
  BY <1>1, <1>2, <1>3 DEF SocketRuns, DemoTypeOK, RoundsKept, SocketRoundsLeft

(* The announcement may end processes, and moves the server on.            *)
LEMMA AnnounceKeepsRounds ==
  ASSUME SocketRuns, Announce
  PROVE  RoundsKept
<1>1. \A q \in Proc : pc'[q] \in {pc[q], "dead", "accept"}
  BY Both DEF Announce, Raise, SocketRuns, DemoTypeOK
<1>2. \A q \in Proc : pc'[q] = "accept" => pc[q] \in {"announce", "accept"}
  BY Both DEF Announce, Raise, SocketRuns, DemoTypeOK
<1>3. UNCHANGED <<count, round>>
  BY DEF Announce
<1> QED
  BY <1>1, <1>2, <1>3 DEF SocketRuns, DemoTypeOK, RoundsKept, SocketRoundsLeft, BeforeLoop, Before

(* Nobody begins a round after the last, whatever the sockets do.          *)
LEMMA SocketKeepsRounds ==
  ASSUME SocketRuns, NEW p \in Proc, SocketStart(p) \/ SocketStep(p) \/ SocketKill(p)
  PROVE  RoundsKept
<1>0. /\ {"dead", "done", "close", "send", "recv", "block", "announce", "sigwait", "accept",
          "ignore", "connect"} \subseteq Places
      /\ {"dead", "done", "close", "send", "recv"} \cap BeforeLoop = {}
      /\ {"listen", "ignore", "block", "sigwait"} \subseteq BeforeLoop
  BY DEF Places, BeforeLoop, Before
<1>1. CASE SocketStart(p) \/ Announce
  BY <1>1, StartKeepsRounds, AnnounceKeepsRounds
<1>2. CASE SocketKill(p) \/ Hangup(p) \/ RecvFails(p)
  BY <1>0, <1>2, GoKeepsRounds DEF SocketKill, Hangup, RecvFails
<1>3. CASE ConnectRefused
  BY <1>0, <1>3, GoKeepsRounds, Both DEF ConnectRefused
<1>4. CASE SocketIgnore(p) \/ SocketBlock(p)
  BY <1>0, <1>4, GoKeepsRounds DEF SocketIgnore, SocketBlock, SetupIgnore, SetupBlock
<1>5. CASE Listen
  BY <1>0, <1>5, GoKeepsRounds, Both DEF Listen
<1>6. CASE AwaitServer
  BY <1>0, <1>6, GoKeepsRounds, Both DEF AwaitServer
<1>7. CASE Connect
  <2>1. pc["client"] \in BeforeLoop /\ round["client"] = 0
    BY <1>7, Both DEF Connect, BeforeLoop, SocketRuns, SocketRoundsLeft
  <2> QED
    BY <1>0, <1>7, <2>1, GoKeepsRounds, Both DEF Connect, Enter
<1>8. CASE Accept
  <2>1. pc["server"] \in BeforeLoop /\ round["server"] = 0
    BY <1>8, Both DEF Accept, BeforeLoop, Before, SocketRuns, SocketRoundsLeft
  <2> QED
    BY <1>0, <1>8, <2>1, GoKeepsRounds, Both DEF Accept, Enter
<1>9. ASSUME HaveSent(p), pc[p] = "send", UNCHANGED count PROVE RoundsKept
  BY <1>0, <1>9, GoKeepsRounds, NextKeepsRounds DEF HaveSent, SocketRuns, SocketRoundsLeft
<1>10. ASSUME HaveReceived(p), pc[p] = "recv", UNCHANGED count PROVE RoundsKept
  BY <1>0, <1>10, GoKeepsRounds, NextKeepsRounds DEF HaveReceived, SocketRuns, SocketRoundsLeft
<1>11. CASE SendSome(p)
  <2>1. CASE HaveSent(p)
    BY <1>9, <1>11, <2>1 DEF SendSome
  <2>2. CASE UNCHANGED <<pc, round>>
    BY <1>11, <2>2 DEF SendSome, SocketRuns, DemoTypeOK, RoundsKept, SocketRoundsLeft
  <2> QED
    BY <1>11, <2>1, <2>2 DEF SendSome
<1>12. CASE SendToNobody(p)
  <2>1. CASE Goto(p, "dead")
    BY <1>0, <1>12, <2>1, GoKeepsRounds DEF SendToNobody
  <2>2. CASE HaveSent(p)
    BY <1>9, <1>12, <2>2 DEF SendToNobody
  <2> QED
    BY <1>12, <2>1, <2>2 DEF SendToNobody
<1>13. CASE RecvWhole(p) \/ RecvShort(p)
  BY <1>10, <1>13 DEF RecvWhole, RecvShort
<1> QED
  BY <1>1, <1>2, <1>3, <1>4, <1>5, <1>6, <1>7, <1>8, <1>11, <1>12, <1>13
  DEF SocketStep
-----------------------------------------------------------------------------
(* No step puts in more than there is room for, or takes more than is      *)
(* there.                                                                  *)
LEMMA SocketKeepsBytes ==
  ASSUME SocketRuns, NEW p \in Proc, SocketStart(p) \/ SocketStep(p) \/ SocketKill(p)
  PROVE  SocketTypeOK'
<1>0. SocketTypeOK /\ Size \in Nat /\ SockRoom \in Nat /\ Other(p) \in Proc
  BY DemoAssumption, SocketAssumption, Both DEF SocketRuns, Other
<1>1. CASE UNCHANGED <<wire, unsent>> /\ linked' \in {linked, TRUE}
  BY <1>0, <1>1 DEF SocketTypeOK
<1>2. CASE Accept
  BY <1>0, <1>2, Both DEF Accept, SocketTypeOK
<1>3. CASE SendSome(p)
  <2>1. PICK k \in 1 .. unsent[p] :
          /\ wire[Other(p)] + k <= SockRoom
          /\ wire' = [wire EXCEPT ![Other(p)] = @ + k]
          /\ unsent' = [unsent EXCEPT ![p] = @ - k]
    BY <1>3 DEF SendSome
  <2>2. wire[Other(p)] + k \in 0 .. SockRoom /\ unsent[p] - k \in 0 .. Size
    BY <1>0, <2>1 DEF SocketTypeOK
  <2> QED
    BY <1>0, <1>3, <2>1, <2>2 DEF SendSome, SocketTypeOK
<1>4. CASE SendToNobody(p)
  BY <1>0, <1>4 DEF SendToNobody, SocketTypeOK
<1>5. CASE RecvWhole(p) \/ RecvShort(p)
  <2>1. wire[p] - Received(p) \in 0 .. SockRoom
    BY <1>0 DEF SocketTypeOK, Received, Least
  <2> QED
    BY <1>0, <1>5, <2>1 DEF RecvWhole, RecvShort, Take, HaveReceived, SocketTypeOK
<1>6. CASE SocketStart(p) \/ SocketKill(p) \/ SocketIgnore(p) \/ SocketBlock(p) \/ Listen \/ Announce
           \/ AwaitServer \/ Connect \/ ConnectRefused \/ RecvFails(p) \/ Hangup(p)
  BY <1>1, <1>6 DEF SocketStart, SocketKill, SocketIgnore, SocketBlock, Listen, Announce, AwaitServer,
     Connect, ConnectRefused, RecvFails, Hangup, socketVars
<1> QED
  BY <1>2, <1>3, <1>4, <1>5, <1>6 DEF SocketStep

(* The setup of the signals and what is pending stay what they can be.     *)
LEMMA SocketKeepsSignals ==
  ASSUME SocketRuns, NEW p \in Proc, SocketStart(p) \/ SocketStep(p) \/ SocketKill(p)
  PROVE  SignalTypeOK'
<1>0. SignalTypeOK
  BY DEF SocketRuns
<1>1. CASE SocketIgnore(p) \/ SocketBlock(p)
  BY <1>0, <1>1 DEF SocketIgnore, SocketBlock, SetupIgnore, SetupBlock, SignalTypeOK
<1>2. CASE Announce
  BY <1>0, <1>2 DEF Announce, Raise, SignalTypeOK
<1>3. CASE AwaitServer
  BY <1>0, <1>3, Both DEF AwaitServer, SigWait, SignalTypeOK
<1>4. CASE UNCHANGED signalVars
  BY <1>0, <1>4 DEF signalVars, SignalTypeOK
<1> QED
  BY <1>1, <1>2, <1>3, <1>4 DEF SocketStart, SocketStep, SocketKill, Listen, Connect, ConnectRefused,
     Accept, SendSome, SendToNobody, RecvWhole, RecvShort, RecvFails, Hangup

(* The socket demos: no more bytes under way than the buffers hold.        *)
LEMMA SocketKeepsTypes ==
  ASSUME TypeInv, SocketInv', program \in SocketPrograms, SocketDemo(SocketNext)
  PROVE  TypeInv'
<1>1. SocketNext /\ UNCHANGED <<program, guardVars, eventVars, filled>>
  BY OneProgram DEF SocketDemo, Next
<1>2. SocketRuns /\ SocketShape'
  BY <1>1 DEF TypeInv, TypeOK, SocketRuns, SocketInv
<1>3. PICK p \in Proc : SocketStart(p) \/ SocketStep(p) \/ SocketKill(p)
  BY <1>1 DEF SocketNext
<1>4. RoundsKept /\ SocketTypeOK' /\ SignalTypeOK'
  BY <1>2, <1>3, SocketKeepsRounds, SocketKeepsBytes, SocketKeepsSignals
<1>5. DemoTypeOK'
  BY <1>2, <1>4 DEF SocketShape, RoundsKept, DemoTypeOK
<1>6. EventTypeOK' /\ PipeTypeOK' /\ GuardTypeOK'
  <2>1. program' \notin GuardPrograms
    BY <1>1 DEF SocketPrograms, GuardPrograms
  <2> QED
    BY <1>1, <2>1, GuardVarsRest DEF TypeInv, TypeOK, EventTypeOK, eventVars, PipeTypeOK
<1> QED
  BY <1>4, <1>5, <1>6 DEF TypeInv, TypeOK, RoundsKept
-----------------------------------------------------------------------------
(* Every step of whatever program runs keeps all types.                    *)
LEMMA TypesInductive ==
  ASSUME TypeInv, Invs, Invs', [Next]_vars
  PROVE  TypeInv'
<1>1. UNCHANGED program
  BY OneProgram
<1>2. CASE GuardDemo(GuardNext)
  <2>1. DemoTypeOK' /\ GuardTypeOK' /\ program' \notin SocketPrograms
    BY <1>1, <1>2 DEF GuardDemo, GuardNext, Invs, GuardInv, GuardPrograms, SocketPrograms
  <2> QED
    BY <1>2, <2>1 DEF GuardDemo, TypeInv, TypeOK, EventTypeOK, eventVars, SignalTypeOK, signalVars,
       PipeTypeOK, SocketTypeOK, socketVars, SocketRoundsLeft
<1>3. CASE EventDemo(EventNext)
  BY <1>3, EventKeepsTypes DEF EventDemo, EventNext, Invs
<1>4. CASE PipeDemo(PipeNext)
  BY <1>4, PipeKeepsTypes DEF PipeDemo, PipeNext, Invs
<1>5. CASE SocketDemo(SocketNext)
  BY <1>5, SocketKeepsTypes DEF SocketDemo, SocketNext, Invs
<1>6. CASE UNCHANGED vars
  BY <1>6 DEF vars, demoVars, guardVars, eventVars, signalVars, socketVars, TypeInv, TypeOK,
     DemoTypeOK, GuardTypeOK, EventTypeOK, SignalTypeOK, PipeTypeOK, SocketTypeOK, SocketRoundsLeft
<1> QED
  BY <1>2, <1>3, <1>4, <1>5, <1>6 DEF Next

(* Every variable of every demo holds a value that the C types and the     *)
(* code allow, whatever program runs, for any number of rounds and runs,   *)
(* any message size and any room in pipe and sockets: no loop runs beyond  *)
(* its msg_count, the event counter holds one token at most, and neither   *)
(* the pipe nor a socket takes more than it has room for.                  *)
THEOREM DemosTypeOK == Spec => []TypeOK
<1>1. TypeInv /\ Invs /\ [Next]_vars /\ Invs' => TypeInv'
  BY TypesInductive
<1>2. Spec => []Invs
  <2>1. EventInv /\ PipeInv /\ SocketInv /\ UnixInv /\ GuardInv => Invs
    BY DEF Invs
  <2> QED
    BY <2>1, EventInvHolds, PipeInvHolds, SocketInvHolds, GuardInvHolds, PTL
<1>3. TypeInv => TypeOK
  BY DEF TypeInv
<1> QED
  BY <1>1, <1>2, <1>3, TypesStart, PTL DEF Spec

(* Every demo implements the abstract turns: server and client hear from   *)
(* each other in turn, neither before the other has heard the last one.    *)
THEOREM DemosImplementTurns == Spec => ImplementsTurns
<1>1. Init => \/ program \in GuardPrograms \/ program = "eventfd"
              \/ program = "pipe" \/ program \in SocketPrograms
  BY DEF Init, DemoInit, Programs
<1>2. Spec => \/ program \in GuardPrograms \/ program = "eventfd"
              \/ program = "pipe" \/ program \in SocketPrograms
  BY <1>1 DEF Spec
<1> QED
  BY <1>2, GuardImplementsTurns, EventImplementsTurns, PipeImplementsTurns, SocketImplementsTurns
=============================================================================
