----------------------------- MODULE ChatClient -----------------------------
(***************************************************************************)
(* The chat clients, client.c.  A process is one run of ./client; it has a *)
(* thread that sends what is typed and a thread that shows what arrives.   *)
(* "while the server's box is full, wait; then send" is one step that is   *)
(* enabled when the box has room (two clients that do it at once are the   *)
(* matter of MessageBox.tla).                                              *)
(***************************************************************************)
EXTENDS ChatMemory

CONSTANTS Procs,      \* runs of ./client
          IdOf,       \* the client id each is given
          NameOf,     \* the user name each is given
          Commands,   \* the commands each user types
          Targets,    \* names a user whispers to
          Careful,    \* whether users whisper only to names they were shown
          MaxInputs,  \* bound on the lines each user types
          Breakers,   \* processes whose user presses Ctrl + C
          Mortal      \* processes that may be killed

ASSUME ClientAssumption ==
    /\ IdOf \in [Procs -> Ids \ {SERVER_ID}]  \* README: "[client_id](1-100)"
    /\ NameOf = [p \in Procs |-> NameOf[p]]
    /\ Commands \in [Procs -> SUBSET {"QUIT", "WHISPER", "LIST", "BROADCAST"}]
    /\ Careful \in BOOLEAN /\ MaxInputs \in [Procs -> Nat] /\ Breakers \subseteq Procs /\ Mortal \subseteq Procs

VARIABLES cpc,     \* the thread that joins and then sends
          rpc,     \* the thread that receives
          crun,    \* runflag
          sbox,    \* the server's box as this process mapped it
          mine,    \* its own box as this process mapped it
          sname,   \* msg->sender_name of the sending thread
          typed,   \* history: lines typed
          got,     \* history: messages received, in order
          seen     \* history: the announcements among them, by number and text

screen == <<got, seen>>
clientVars == <<cpc, rpc, crun, sbox, mine, sname, typed, screen>>

ClientInit ==
    /\ cpc = [p \in Procs |-> "start"] /\ rpc = [p \in Procs |-> "off"]
    /\ crun = [p \in Procs |-> TRUE]
    /\ sbox = [p \in Procs |-> NoBox] /\ mine = [p \in Procs |-> NoBox]
    /\ sname = NameOf
    /\ typed = [p \in Procs |-> 0]
    /\ got = [p \in Procs |-> <<>>] /\ seen = [p \in Procs |-> <<>>]

Request(p, type, text) ==
    [type |-> type, id |-> IdOf[p], name |-> sname[p], text |-> text, seq |-> 0]

\* The sending thread looks at runflag before it reads the next line.
NextLine(p) == IF crun[p] THEN "typing" ELSE "done"
-----------------------------------------------------------------------------
\* messagebox_open(SERVER_ID), client_join_chat: the send is not waited for.
Join(p) ==
    /\ cpc[p] = "start"
    /\ Bind(SERVER_ID)
    /\ sbox' = [sbox EXCEPT ![p] = ObjectOf(SERVER_ID)]
    /\ box' = Put(WithObject(SERVER_ID), ObjectOf(SERVER_ID), Request(p, "JOIN", <<>>))
    /\ cpc' = [cpc EXCEPT ![p] = "joined"]
    /\ UNCHANGED <<rpc, crun, mine, sname, typed, screen>>

\* The own box is mapped and emptied, then the threads start.
OpenOwn(p) ==
    /\ cpc[p] = "joined"
    /\ Bind(IdOf[p])
    /\ mine' = [mine EXCEPT ![p] = ObjectOf(IdOf[p])]
    /\ box' = Emptied(WithObject(IdOf[p]), ObjectOf(IdOf[p]))
    /\ cpc' = [cpc EXCEPT ![p] = "typing"] /\ rpc' = [rpc EXCEPT ![p] = "run"]
    /\ UNCHANGED <<crun, sbox, sname, typed, screen>>
-----------------------------------------------------------------------------
Typing(p, pc) == cpc[p] = pc /\ typed[p] < MaxInputs[p]

\* A line that is a command.  After Ctrl + C the line being typed still counts.
TypeCommand(p) ==
    /\ Typing(p, "typing")
    /\ \E c \in Commands[p] : cpc' = [cpc EXCEPT ![p] = c]
    /\ typed' = [typed EXCEPT ![p] = @ + 1]
    /\ UNCHANGED <<rpc, crun, sbox, mine, sname, screen, memory>>

\* Names the announcements and the answers to LIST have shown.
Shown(p) == {got[p][k].text[2] : k \in {k \in 1 .. Len(got[p]) : got[p][k].type = "SERVER"}}

\* non_canonical_read(msg->sender_name): the name the sender's messages carry
\* is overwritten, for this message and for those that follow.
TypeName(p) ==
    /\ Typing(p, "name")
    /\ \E to \in IF Careful THEN Targets \cap Shown(p) ELSE Targets :
          sname' = [sname EXCEPT ![p] = to]
    /\ cpc' = [cpc EXCEPT ![p] = "whisper"]
    /\ typed' = [typed EXCEPT ![p] = @ + 1]
    /\ UNCHANGED <<rpc, crun, sbox, mine, screen, memory>>

\* wait while the server's box is full, then messagebox_send
Send(p, m, pc) ==
    /\ ~IsFull(sbox[p])
    /\ box' = Put(box, sbox[p], m)
    /\ cpc' = [cpc EXCEPT ![p] = pc]
    /\ UNCHANGED <<rpc, sbox, mine, sname, typed, screen, shm>>

SendBroadcast(p) ==
    /\ cpc[p] = "BROADCAST"
    /\ Send(p, Request(p, "BROADCAST", <<"said", p, typed[p]>>), NextLine(p))
    /\ UNCHANGED crun

SendList(p) ==
    /\ cpc[p] = "LIST"
    /\ Send(p, Request(p, "LIST", <<>>), NextLine(p))
    /\ UNCHANGED crun

\* /whisper first asks for the list, then for the name.
SendWhisperList(p) ==
    /\ cpc[p] = "WHISPER"
    /\ Send(p, Request(p, "LIST", <<>>), "name")
    /\ UNCHANGED crun

SendWhisper(p) ==
    /\ cpc[p] = "whisper"
    /\ Send(p, Request(p, "WHISPER", <<"whispered", p, typed[p], sname[p]>>), NextLine(p))
    /\ UNCHANGED crun

SendQuit(p) ==
    /\ cpc[p] = "QUIT"
    /\ Send(p, Request(p, "QUIT", <<>>), "done")
    /\ crun' = [crun EXCEPT ![p] = FALSE]
-----------------------------------------------------------------------------
\* An announcement, and not an answer to LIST or a whisper
Public(m) == m.type \in {"BROADCAST", "SERVER"} /\ m.text[1] # "inside"
Sight(m)  == <<m.seq, m.text>>

Receive(p) ==
    /\ rpc[p] = "run" /\ crun[p] /\ box[mine[p]] # <<>>
    /\ LET m == Taken(box[mine[p]])
       IN  /\ got' = [got EXCEPT ![p] = Append(@, m)]
           /\ seen' = IF Public(m) THEN [seen EXCEPT ![p] = Append(@, Sight(m))] ELSE seen
    /\ box' = [box EXCEPT ![mine[p]] = Remaining(@)]
    /\ UNCHANGED <<cpc, rpc, crun, sbox, mine, sname, typed, shm>>

ReceiveStop(p) ==
    /\ rpc[p] = "run" /\ ~crun[p]
    /\ rpc' = [rpc EXCEPT ![p] = "done"]
    /\ UNCHANGED <<cpc, crun, sbox, mine, sname, typed, screen, memory>>

\* The sending thread stays in the line it reads; no QUIT is sent.
ClientSigint(p) ==
    /\ p \in Breakers /\ rpc[p] = "run" /\ crun[p]
    /\ crun' = [crun EXCEPT ![p] = FALSE]
    /\ UNCHANGED <<cpc, rpc, sbox, mine, sname, typed, screen, memory>>

Kill(p) ==
    /\ p \in Mortal /\ cpc[p] \notin {"start", "killed"}
    /\ cpc' = [cpc EXCEPT ![p] = "killed"] /\ rpc' = [rpc EXCEPT ![p] = "done"]
    /\ UNCHANGED <<crun, sbox, mine, sname, typed, screen, memory>>
-----------------------------------------------------------------------------
\* What the threads do of themselves, and what the user does.
ClientRun(p) == \/ OpenOwn(p) \/ SendBroadcast(p) \/ SendList(p) \/ SendWhisperList(p)
                \/ SendWhisper(p) \/ SendQuit(p)
ReceiverRun(p) == Receive(p) \/ ReceiveStop(p)
User(p) == Join(p) \/ TypeCommand(p) \/ TypeName(p) \/ ClientSigint(p) \/ Kill(p)

ClientNext(p) == ClientRun(p) \/ ReceiverRun(p) \/ User(p)
=============================================================================
