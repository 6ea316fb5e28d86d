----------------------------- MODULE ChatServer -----------------------------
(***************************************************************************)
(* The chat server, server.c: one loop that takes a message from the       *)
(* server's box, opens the sender's box and handles the message by type.   *)
(* A loop over the room is one step per message sent, so that clients read *)
(* and write between them.                                                 *)
(***************************************************************************)
EXTENDS ChatMemory, FiniteSetsExt

CONSTANTS OPEN_MAX,    \* descriptors the server can have open
          MaxStarts,   \* bound on starts of the server
          Signals      \* the signals the server may get

ASSUME ServerAssumption == OPEN_MAX \in Nat \ {0} /\ MaxStarts \in Nat
                           /\ Signals \subseteq {"SIGINT", "SIGKILL"}

VARIABLES spc,           \* what the server is doing
          runflag,
          server_box, client_box, receiver_box,
          msg,           \* the message being handled
          cursor,        \* the loop variable i over the room
          room,
          fds,           \* descriptors opened by messagebox_open, never closed
          starts,        \* history: starts of the server
          log            \* history: the texts announced to the room

serverVars == <<spc, runflag, server_box, client_box, receiver_box, msg, cursor,
                room, fds, starts, log>>

\* text stands for the characters of message_t.message; seq is no field of
\* message_t but tells apart the announcements in the properties.
NoName == ""
Blank == [type |-> "SERVER", id |-> SERVER_ID, name |-> NoName, text |-> <<>>, seq |-> 0]

EmptyRoom == [id \in Ids |-> [session_owner |-> IF id = SERVER_ID THEN "SERVER" ELSE NoName,
                             client_box |-> NoBox]]

\* The members the loop has still to look at.
Rest == {i \in cursor .. MAX_CLIENT : room[i].client_box # NoBox}

\* Mutation: i is incremented twice.
AfterNext(i) == i + 2

\* i++
After(i) == i + 1

ServerInit ==
    /\ spc = "off" /\ runflag = TRUE
    /\ server_box = NoBox /\ client_box = NoBox /\ receiver_box = NoBox
    /\ msg = Blank /\ cursor = 1 /\ room = EmptyRoom
    /\ fds = 0 /\ starts = 0 /\ log = <<>>
-----------------------------------------------------------------------------
\* A new server process, after an earlier one stopped or crashed.
ServerStart ==
    /\ spc \in {"off", "fault"} /\ starts < MaxStarts
    /\ starts' = starts + 1
    /\ spc' = "recv" /\ runflag' = TRUE
    /\ Bind(SERVER_ID)
    /\ server_box' = ObjectOf(SERVER_ID)
    /\ box' = Emptied(WithObject(SERVER_ID), ObjectOf(SERVER_ID))
    /\ client_box' = NoBox /\ receiver_box' = NoBox
    /\ msg' = Blank /\ cursor' = 1 /\ room' = EmptyRoom /\ fds' = 1
    /\ UNCHANGED log

ServerSigint ==
    /\ "SIGINT" \in Signals /\ spc \notin {"off", "fault"} /\ runflag
    /\ runflag' = FALSE
    /\ UNCHANGED <<spc, server_box, client_box, receiver_box, msg, cursor, room, fds,
                   starts, log, memory>>

\* The process ends wherever it is; names and objects stay.
ServerKill ==
    /\ "SIGKILL" \in Signals /\ spc \notin {"off", "fault"}
    /\ spc' = "off"
    /\ UNCHANGED <<runflag, server_box, client_box, receiver_box, msg, cursor, room, fds,
                   starts, log, memory>>

\* messagebox_close_shm on the way out is given a key that no segment has.
ServerStop ==
    /\ spc = "recv" /\ ~runflag
    /\ spc' = "off"
    /\ UNCHANGED <<runflag, server_box, client_box, receiver_box, msg, cursor, room, fds,
                   starts, log, memory>>

\* messagebox_recv, then messagebox_open, whose descriptor is never closed:
\* with none left it returns NULL.
Recv ==
    /\ spc = "recv" /\ runflag /\ box[server_box] # <<>>
    /\ msg' = Taken(box[server_box])
    /\ spc' = msg'.type
    /\ IF fds < OPEN_MAX
       THEN /\ Bind(msg'.id)
            /\ client_box' = ObjectOf(msg'.id)
            /\ box' = [WithObject(msg'.id) EXCEPT ![server_box] = Remaining(@)]
            /\ fds' = fds + 1
       ELSE /\ client_box' = NoBox
            /\ box' = [box EXCEPT ![server_box] = Remaining(@)]
            /\ UNCHANGED <<shm, fds>>
    /\ UNCHANGED <<runflag, server_box, receiver_box, cursor, room, starts, log>>

\* No case for the type.
HandleOther ==
    /\ spc = "SERVER"
    /\ spc' = "recv"
    /\ UNCHANGED <<runflag, server_box, client_box, receiver_box, msg, cursor, room, fds,
                   starts, log, memory>>
-----------------------------------------------------------------------------
\* client_boardcast(m): the loop starts at the first client id.
Announce(m) ==
    /\ msg' = [m EXCEPT !.seq = Len(log) + 1]
    /\ log' = Append(log, m.text)
    /\ spc' = "cast" /\ cursor' = 1

HandleJoin ==
    /\ spc = "JOIN"
    /\ room' = [room EXCEPT ![msg.id] =
                   [session_owner |-> msg.name, client_box |-> client_box]]
    /\ Announce([msg EXCEPT !.type = "SERVER", !.text = <<"joined", msg.name>>])
    /\ UNCHANGED <<runflag, server_box, client_box, receiver_box, fds, starts, memory>>

HandleBroadcast ==
    /\ spc = "BROADCAST"
    /\ Announce(msg)
    /\ UNCHANGED <<runflag, server_box, client_box, receiver_box, room, fds, starts, memory>>

\* Mutation: the entry of a client that quits stays in the room.
WithoutNobody(id) == room

\* The session keeps its owner.
Without(id) == [room EXCEPT ![id].client_box = NoBox]

\* The name of the box goes, the object may stay.
HandleQuit ==
    /\ spc = "QUIT"
    /\ shm' = [shm EXCEPT ![msg.id] = NoBox]
    /\ room' = Without(msg.id)
    /\ Announce([msg EXCEPT !.type = "SERVER", !.text = <<"left", msg.name>>])
    /\ UNCHANGED <<runflag, server_box, client_box, receiver_box, fds, starts, box>>

\* Mutation: the broadcast waits for room, as LIST does and as the clients do.
CastWaits ==
    /\ spc = "cast" /\ Rest # {} /\ ~IsFull(room[Min(Rest)].client_box)
    /\ box' = Put(box, room[Min(Rest)].client_box, msg)
    /\ cursor' = After(Min(Rest))
    /\ UNCHANGED <<spc, runflag, server_box, client_box, receiver_box, msg, room, fds,
                   starts, log, shm>>

\* The sender gets its own broadcast too.
Cast ==
    /\ spc = "cast" /\ Rest # {}
    /\ box' = Put(box, room[Min(Rest)].client_box, msg)
    /\ cursor' = After(Min(Rest))
    /\ UNCHANGED <<spc, runflag, server_box, client_box, receiver_box, msg, room, fds,
                   starts, log, shm>>

CastDone ==
    /\ spc = "cast" /\ Rest = {}
    /\ spc' = "recv"
    /\ UNCHANGED <<runflag, server_box, client_box, receiver_box, msg, cursor, room, fds,
                   starts, log, memory>>
-----------------------------------------------------------------------------
HandleList ==
    /\ spc = "LIST"
    /\ msg' = [msg EXCEPT !.type = "SERVER", !.seq = Len(log)]
    /\ spc' = "list" /\ cursor' = 1
    /\ UNCHANGED <<runflag, server_box, client_box, receiver_box, room, fds, starts, log,
                   memory>>

\* Everybody in the room but the one who asked.
ToList == Rest \ {msg.id}

\* while (messagebox_check_full(client_box)): no way out by runflag
ListOne ==
    /\ spc = "list" /\ ToList # {} /\ client_box # NoBox /\ ~IsFull(client_box)
    /\ LET entry == [msg EXCEPT !.text = <<"inside", room[Min(ToList)].session_owner>>]
       IN  msg' = entry /\ box' = Put(box, client_box, entry)
    /\ cursor' = After(Min(ToList))
    /\ UNCHANGED <<spc, runflag, server_box, client_box, receiver_box, room, fds, starts,
                   log, shm>>

ListDone ==
    /\ spc = "list" /\ ToList = {}
    /\ spc' = "recv"
    /\ UNCHANGED <<runflag, server_box, client_box, receiver_box, msg, cursor, room, fds,
                   starts, log, memory>>
-----------------------------------------------------------------------------
Named(name) == {i \in 1 .. MAX_CLIENT : room[i].session_owner = name}

\* Mutations: the box of the sender; the session before the one that matched.
ReceiverSender(name) == {client_box}
ReceiverBefore(name) ==
    IF Named(name) # {} THEN {room[Min(Named(name)) - 1].client_box} ELSE {receiver_box}

\* receiver_box is not initialised: without a match it is what the previous
\* whisper left on the stack, or garbage.
Receiver(name) ==
    IF Named(name) # {} THEN {room[Min(Named(name))].client_box} ELSE {receiver_box, NoBox}

\* Mutation: the whisper keeps the name it came with.
SignedAsSent(m) == m

\* The name of the receiver gives way to that of the sender's session.
Signed(m) == [m EXCEPT !.name = room[m.id].session_owner]

HandleWhisper ==
    /\ spc = "WHISPER"
    /\ receiver_box' \in Receiver(msg.name)
    /\ msg' = Signed(msg)
    /\ spc' = "whisper"
    /\ UNCHANGED <<runflag, server_box, client_box, cursor, room, fds, starts, log, memory>>

\* The wait is for room in the sender's box, the send is to the receiver's.
WhisperSend ==
    /\ spc = "whisper" /\ client_box # NoBox /\ ~IsFull(client_box)
    /\ receiver_box # NoBox
    /\ box' = Put(box, receiver_box, msg)
    /\ spc' = "recv"
    /\ UNCHANGED <<runflag, server_box, client_box, receiver_box, msg, cursor, room, fds,
                   starts, log, shm>>

\* A box that is NULL is read: the process dies.
ServerFault ==
    /\ \/ spc = "list" /\ ToList # {} /\ client_box = NoBox
       \/ spc = "whisper" /\ client_box = NoBox
       \/ spc = "whisper" /\ client_box # NoBox /\ ~IsFull(client_box) /\ receiver_box = NoBox
    /\ spc' = "fault"
    /\ UNCHANGED <<runflag, server_box, client_box, receiver_box, msg, cursor, room, fds,
                   starts, log, memory>>
-----------------------------------------------------------------------------
\* What a running server does of itself.
ServerRun ==
    \/ ServerStop \/ Recv \/ HandleOther
    \/ HandleJoin \/ HandleBroadcast \/ HandleQuit \/ Cast \/ CastDone
    \/ HandleList \/ ListOne \/ ListDone
    \/ HandleWhisper \/ WhisperSend \/ ServerFault

ServerNext == ServerRun \/ ServerStart \/ ServerSigint \/ ServerKill
=============================================================================
