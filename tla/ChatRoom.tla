------------------------------ MODULE ChatRoom ------------------------------
(***************************************************************************)
(* The chat room: the server and the clients over the shared memory.  The  *)
(* parts interact through the message boxes and the names alone.           *)
(***************************************************************************)
EXTENDS ChatServer, ChatClient

vars == <<memory, serverVars, clientVars>>

Init == MemoryInit /\ ServerInit /\ ClientInit

Server == ServerNext /\ UNCHANGED clientVars
Client(p) == ClientNext(p) /\ UNCHANGED serverVars

Next == Server \/ \E p \in Procs : Client(p)

Spec == Init /\ [][Next]_vars

\* Processes and threads are scheduled.  Nobody has to start the server, to
\* join, to type or to press a key.
Fairness ==
    /\ WF_vars(ServerRun /\ UNCHANGED clientVars)
    /\ \A p \in Procs : /\ WF_vars(ClientRun(p) /\ UNCHANGED serverVars)
                        /\ WF_vars(ReceiverRun(p) /\ UNCHANGED serverVars)

FairSpec == Spec /\ Fairness
-----------------------------------------------------------------------------
\* What has reached the client's box: what it has read and what it has not.
Flow(p) == IF mine[p] = NoBox THEN <<>> ELSE got[p] \o box[mine[p]]

Members == {i \in 1 .. MAX_CLIENT : room[i].client_box # NoBox}
-----------------------------------------------------------------------------
(* Every variable holds a value the C types and the code allow; a box that *)
(* is mapped exists, and the loop variable stays within the room.          *)
TypeOK ==
    /\ shm \in [Ids -> 0 .. Len(box)]
    /\ \A b \in DOMAIN box : Len(box[b]) <= Capacity
    /\ spc \in {"off", "recv", "cast", "list", "whisper", "fault",
                "SERVER", "JOIN", "BROADCAST", "QUIT", "LIST", "WHISPER"}
    /\ runflag \in BOOLEAN
    /\ {server_box, client_box, receiver_box} \subseteq 0 .. Len(box)
    /\ msg.id \in Ids /\ cursor \in 1 .. MAX_CLIENT + 1
    /\ \A i \in Ids : room[i].client_box \in 0 .. Len(box)
    /\ fds \in 0 .. OPEN_MAX /\ starts \in 0 .. MaxStarts
    /\ cpc \in [Procs -> {"start", "joined", "typing", "name", "whisper", "done", "killed",
                          "QUIT", "WHISPER", "LIST", "BROADCAST"}]
    /\ rpc \in [Procs -> {"off", "run", "done"}] /\ crun \in [Procs -> BOOLEAN]
    /\ sbox \in [Procs -> 0 .. Len(box)] /\ mine \in [Procs -> 0 .. Len(box)]
    /\ \A p \in Procs : typed[p] \in 0 .. MaxInputs[p]

(* The room is a sequencer: whoever is killed, restarted, slow or shares a *)
(* box, any two clients see the announcements both see in the same order,  *)
(* none twice and none that was not made (server.c handles one message at  *)
(* a time and client_boardcast serves every member before the next).       *)
Texts == {<<kind, name>> : kind \in {"joined", "left"},
                           name \in Targets \cup {NameOf[p] : p \in Procs}}
         \cup UNION {{<<"said", p, n>> : n \in 1 .. MaxInputs[p]} : p \in Procs}
Ordered == INSTANCE Sequencer WITH Reader <- Procs, Text <- Texts
ImplementsSequencer == Ordered!Spec

(* What one user types is announced in the order it was typed, once.       *)
SenderOrder ==
    \A j, k \in 1 .. Len(log) :
        /\ j < k
        /\ log[j][1] = "said" /\ log[k][1] = "said" /\ log[j][2] = log[k][2]
        => log[j][3] < log[k][3]

(* A member's entry in the room leads to the box the member reads: the     *)
(* server, which opens the box by name when it takes JOIN, and the client, *)
(* which opens it after it sent JOIN, got the same object, as long as      *)
(* nobody else has used the id.                                            *)
OwnId(p) == \A q \in Procs \ {p} : IdOf[q] = IdOf[p] => cpc[q] = "start"
MembersReachable ==
    \A p \in Procs :
        rpc[p] = "run" /\ OwnId(p) /\ IdOf[p] \in Members
        => room[IdOf[p]].client_box = mine[p]

(* The answer to LIST is complete: the loop over the room has put one      *)
(* entry into the asking client's box for every other member it passed,    *)
(* however full the box was (the wait before each send is for that).       *)
ListComplete ==
    spc = "list" =>
        \A p \in Procs : mine[p] = client_box =>
            \A i \in Members \ {msg.id} : i < cursor =>
                \E k \in 1 .. Len(Flow(p)) :
                    /\ Flow(p)[k].text = <<"inside", room[i].session_owner>>
                    /\ Flow(p)[k].seq = msg.seq

(* A whisper is shown to the one it is meant for.                          *)
WhisperPrivate ==
    \A p \in Procs : \A k \in 1 .. Len(got[p]) :
        got[p][k].type = "WHISPER" => got[p][k].text[4] = NameOf[p]

(* A whisper is never signed with another name than that of the one who    *)
(* whispered, though the sender overwrote its own name with the receiver's;*)
(* a user whose JOIN was lost whispers without a name.                     *)
WhisperSigned ==
    \A p \in Procs : \A k \in 1 .. Len(got[p]) :
        got[p][k].type = "WHISPER" => got[p][k].name \in {NameOf[got[p][k].text[2]], NoName}

(* A request that reached the server's box is taken and dealt with, and    *)
(* the server gets round to all of them.                                   *)
Requests == server_box # NoBox /\ box[server_box] # <<>>
RequestsHandled == Requests ~> spc = "recv" /\ ~Requests

(* A user whose QUIT reached the server's box is, in the end, out of the   *)
(* room (README: graceful quit).                                           *)
QuitSent(i) ==
    /\ server_box # NoBox
    /\ \E k \in 1 .. Len(box[server_box]) :
          box[server_box][k].type = "QUIT" /\ box[server_box][k].id = i
QuitLeaves == \A i \in 1 .. MAX_CLIENT : QuitSent(i) ~> i \notin Members

(* Ctrl + C stops the server.                                              *)
CtrlCStops == ~runflag ~> spc \in {"off", "fault"}

(* The server never reads through a NULL box.                              *)
NeverFaults == spc # "fault"
=============================================================================
