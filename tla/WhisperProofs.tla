---------------------------- MODULE WhisperProofs ----------------------------
(***************************************************************************)
(* Proofs about what is between two users of the chat room, whispers and   *)
(* the answers to LIST: for any number of clients, box and room sizes,     *)
(* kills of clients and, where a theorem says so, restarts of the server.  *)
(* Every theorem takes the ids of the users to differ: who uses another's  *)
(* id takes over his entry in the room, and with it his name and his box.  *)
(***************************************************************************)
EXTENDS ChatRoomProofs

DistinctIds == \A p, q \in Procs : IdOf[p] = IdOf[q] => p = q

\* m is among the messages of q.
Has(q, m) == \E k \in 1 .. Len(q) : q[k] = m

\* A box that is not the server's
ClientBox(b) == b \in 1 .. Len(box) /\ b # shm[SERVER_ID]

(* What a message appended to a queue, and one taken from it, leave in it  *)
LEMMA HasAppended ==
  ASSUME NEW S, NEW q \in Seq(S), NEW m \in S, NEW n
  PROVE  Has(Append(q, m), n) <=> Has(q, n) \/ n = m
<1>1. /\ Len(q) \in Nat /\ Len(Append(q, m)) = Len(q) + 1 /\ Append(q, m)[Len(q) + 1] = m
      /\ \A k \in 1 .. Len(q) : Append(q, m)[k] = q[k]
  OBVIOUS
<1>2. \A k \in 1 .. Len(q) + 1 : k \in 1 .. Len(q) \/ k = Len(q) + 1
  BY <1>1
<1>3. /\ Len(q) + 1 \in 1 .. Len(q) + 1
      /\ \A k \in 1 .. Len(q) : k \in 1 .. Len(q) + 1
  BY <1>1
<1> QED
  BY <1>1, <1>2, <1>3 DEF Has

(* The message taken from a queue was in it, and the others stay.          *)
LEMMA HasTaken ==
  ASSUME NEW S, NEW q \in Seq(S), q # <<>>, NEW n
  PROVE  /\ Has(q, Taken(q))
         /\ Has(q, n) <=> Has(Remaining(q), n) \/ n = Taken(q)
<1>1. /\ Len(q) \in Nat \ {0} /\ Taken(q) = q[1] /\ Len(Remaining(q)) = Len(q) - 1
      /\ \A k \in 1 .. Len(q) - 1 : Remaining(q)[k] = q[k + 1]
  BY Taking
<1>2. 1 \in 1 .. Len(q)
  BY <1>1
<1>3. \A k \in 1 .. Len(q) - 1 : k + 1 \in 1 .. Len(q)
  BY <1>1
<1>4. \A k \in 1 .. Len(q) : k = 1 \/ (k - 1 \in 1 .. Len(q) - 1 /\ (k - 1) + 1 = k)
  BY <1>1
<1>5. Has(q, n) => Has(Remaining(q), n) \/ n = Taken(q)
  <2> SUFFICES ASSUME NEW k \in 1 .. Len(q), q[k] = n, k # 1
               PROVE  Has(Remaining(q), n)
    BY <1>1 DEF Has
  <2>1. k - 1 \in 1 .. Len(q) - 1 /\ Remaining(q)[k - 1] = q[k]
    BY <1>1, <1>4
  <2> QED
    BY <1>1, <2>1 DEF Has
<1> QED
  BY <1>1, <1>2, <1>3, <1>5 DEF Has

(* Nothing is in an empty queue.                                           *)
LEMMA HasNothing ==
  ASSUME NEW m
  PROVE  ~Has(<<>>, m)
BY DEF Has
-----------------------------------------------------------------------------
\* The server puts the message it handles into the box b.
Delivers(b) ==
    /\ UNCHANGED clientVars
    /\ \/ Cast /\ b = room[Min(Rest)].client_box
       \/ ListOne /\ b = client_box
       \/ WhisperSend /\ b = receiver_box

(* Only the steps of a client and of the server's sends change the boxes   *)
(* of the clients, and a message that is new in one is the server's.       *)
LEMMA MailArrives ==
  ASSUME Known, RoomTypes', Next, NEW b, ClientBox(b)', NEW m, Has(box'[b], m)
  PROVE  ClientBox(b) /\ (Has(box[b], m) \/ (m = msg' /\ Delivers(b)))
<1> HIDE DEF Msg
<1>1. RoomTypes /\ Objects /\ box \in Boxes
  BY DEF Known, RoomTypes, MemoryTypes
<1>2. box'[b] # <<>>
  BY HasNothing
<1>3. ASSUME NEW c, OthersStay(c), b # c,
             shm'[SERVER_ID] = shm[SERVER_ID] \/ shm[SERVER_ID] = NoBox
      PROVE  ClientBox(b) /\ Has(box[b], m)
  <2>1. b \in 1 .. Len(box) /\ box'[b] = box[b]
    BY <1>2, <1>3 DEF OthersStay, ClientBox
  <2> QED
    BY <1>3, <2>1 DEF ClientBox, NoBox
<1>4. ASSUME NEW c, Posted(c), UNCHANGED clientVars, c = b => Delivers(b)
      PROVE  ClientBox(b) /\ (Has(box[b], m) \/ (m = msg' /\ Delivers(b)))
  <2>1. /\ OthersStay(c) /\ UNCHANGED shm /\ Len(box') = Len(box)
        /\ box'[c] \in {box[c], Append(box[c], msg')}
    BY <1>4 DEF Posted
  <2>2. CASE b # c
    BY <1>3, <2>1, <2>2
  <2>3. CASE b = c
    <3>1. b \in 1 .. Len(box) /\ box[b] \in Seq(Msg) /\ msg' \in Msg
      BY <1>1, <2>1, <2>3 DEF ClientBox, Boxes, RoomTypes, ServerTypes
    <3>2. Has(box[b], m) \/ m = msg'
      BY <2>1, <2>3, <3>1, HasAppended
    <3> QED
      BY <1>4, <2>1, <2>3, <3>1, <3>2 DEF ClientBox
  <2> QED
    BY <2>2, <2>3
<1>5. CASE UNCHANGED clientVars /\ (Looks \/ HandleWhisper \/ HandleJoin \/ HandleQuit)
  <2>1. CASE Still
    <3>1. UNCHANGED box /\ shm'[SERVER_ID] = shm[SERVER_ID]
      BY <1>1, <1>5, <2>1, LooksPointers, QuitObjects DEF Still, HandleWhisper, HandleJoin, memory
    <3> QED
      BY <3>1 DEF ClientBox
  <2>2. CASE Cast
    BY <1>4, <1>5, <2>2, CastEffect DEF Delivers
  <2>3. CASE ListOne
    BY <1>4, <1>5, <2>3, ListEffect DEF Delivers
  <2>4. CASE WhisperSend
    BY <1>4, <1>5, <2>4, WhisperEffect DEF Delivers
  <2> QED
    BY <1>5, <2>1, <2>2, <2>3, <2>4, LooksStill, HandlesStill
<1>6. CASE UNCHANGED clientVars /\ (ServerStart \/ Recv)
  <2>1. CASE ServerStart
    <3>1. OthersStay(shm'[SERVER_ID]) /\ shm'[SERVER_ID] = ObjectOf(SERVER_ID)
      BY <1>1, <2>1, StartEffect, Anchor DEF RoomTypes, MemoryTypes
    <3> QED
      BY <1>1, <1>3, <3>1, NameOfServer DEF ClientBox
  <2>2. CASE Recv
    BY <1>3, <2>2, RecvEffect DEF ClientBox
  <2> QED
    BY <1>6, <2>1, <2>2
<1>7. ASSUME UNCHANGED serverVars, NEW p \in Procs,
             Join(p) \/ OpenOwn(p) \/ Sits(p) \/ Sending(p) \/ Receive(p)
      PROVE  ClientBox(b) /\ Has(box[b], m)
  <2>1. CASE Join(p)
    BY <1>1, <1>3, <2>1, JoinEffect, NameOfServer DEF ClientBox
  <2>2. CASE OpenOwn(p)
    BY <1>1, <1>2, <1>3, <2>2, OpenOwnEffect
  <2>3. CASE Sits(p)
    <3>1. UNCHANGED box /\ UNCHANGED shm
      BY <2>3, SitsStill, SitsPointers, <1>1, <1>7 DEF Still
    <3> QED
      BY <3>1 DEF ClientBox
  <2>4. CASE Sending(p)
    BY <1>3, <2>4, SendingEffect DEF ClientBox
  <2>5. CASE Receive(p)
    <3>1. /\ OthersStay(mine[p]) /\ box[mine[p]] \in Seq(Msg) /\ box[mine[p]] # <<>>
          /\ box'[mine[p]] = Remaining(box[mine[p]]) /\ UNCHANGED shm
          /\ mine[p] \in 1 .. Len(box) /\ mine[p] # shm[SERVER_ID]
      BY <1>1, <2>5, ReceiveEffect DEF Receive
    <3>2. CASE b # mine[p]
      BY <1>3, <3>1, <3>2
    <3>3. CASE b = mine[p]
      BY <3>1, <3>3, HasTaken DEF ClientBox
    <3> QED
      BY <3>2, <3>3
  <2> QED
    BY <1>7, <2>1, <2>2, <2>3, <2>4, <2>5
<1> QED
  BY <1>5, <1>6, <1>7, Steps

(* What a client has got, it had, or took from its box.                    *)
LEMMA MailGot ==
  ASSUME Known, Next, NEW p \in Procs, NEW m, Has(got'[p], m)
  PROVE  Has(got[p], m) \/ (Receive(p) /\ ClientBox(mine[p]) /\ Has(box[mine[p]], m))
<1> HIDE DEF Msg
<1>1. RoomTypes /\ Objects /\ got \in [Procs -> Seq(Msg)]
  BY DEF Known, RoomTypes, ClientTypes
<1>2. ASSUME got' = got PROVE Has(got[p], m)
  BY <1>2
<1>3. ASSUME NEW q \in Procs, Receive(q)
      PROVE  Has(got[p], m) \/ (Receive(p) /\ ClientBox(mine[p]) /\ Has(box[mine[p]], m))
  <2> DEFINE n == Taken(box[mine[q]])
  <2>1. /\ box[mine[q]] \in Seq(Msg) /\ box[mine[q]] # <<>> /\ ClientBox(mine[q])
        /\ got' = [got EXCEPT ![q] = Append(@, n)]
    BY <1>1, <1>3, ReceiveEffect DEF Receive, ClientBox
  <2>2. n \in Msg /\ Has(box[mine[q]], n)
    BY <2>1, Taking, HasTaken
  <2> HIDE DEF n
  <2>3. CASE p = q
    <3>1. got'[p] = Append(got[p], n)
      BY <1>1, <2>1, <2>3
    <3>2. got[p] \in Seq(Msg)
      BY <1>1
    <3>3. Has(got[p], m) \/ m = n
      BY <2>2, <3>1, <3>2, HasAppended
    <3> QED
      BY <1>3, <2>1, <2>2, <2>3, <3>3
  <2>4. CASE p # q
    BY <1>1, <2>1, <2>4
  <2> QED
    BY <2>3, <2>4
<1>4. ASSUME NEW q \in Procs, Join(q) \/ OpenOwn(q) \/ Sits(q) \/ Sending(q) PROVE got' = got
  <2>1. Sending(q) => got' = got
    BY SendingEffect DEF screen
  <2>2. Sits(q) => got' = got
    BY DEF Sits, TypeCommand, TypeName, ReceiveStop, ClientSigint, Kill, screen
  <2>3. Join(q) \/ OpenOwn(q) => got' = got
    BY DEF Join, OpenOwn, screen
  <2> QED
    BY <1>4, <2>1, <2>2, <2>3
<1>5. CASE UNCHANGED clientVars
  BY <1>2, <1>5 DEF clientVars, screen
<1> QED
  BY <1>2, <1>3, <1>4, <1>5, Steps
-----------------------------------------------------------------------------
\* The process p sends the request m.
Wrote(p, m) ==
    /\ m.id = IdOf[p]
    /\ \/ m.type = "JOIN" /\ cpc[p] = "start" /\ m.name = sname[p]
       \/ m.type \in {"LIST", "BROADCAST"} /\ cpc[p] \notin {"start", "joined"}
       \/ m.type = "QUIT" /\ cpc[p] = "QUIT"
       \/ /\ m.type = "WHISPER" /\ cpc[p] = "whisper" /\ m.name = sname[p]
          /\ m.text = <<"whispered", p, typed[p], sname[p]>>

(* What is new in the server's box was sent by a client.                   *)
LEMMA RequestArrives ==
  ASSUME Known, RoomTypes', Next, NEW m, Has(Queue', m)
  PROVE  Has(Queue, m) \/ (UNCHANGED serverVars /\ \E p \in Procs : Wrote(p, m))
<1> HIDE DEF Msg
<1>1. RoomTypes /\ Objects /\ Queue \in Seq(Msg)
  BY Anchor DEF Known
<1>2. ASSUME Queue' = Queue PROVE Has(Queue, m)
  BY <1>2
<1>3. CASE UNCHANGED clientVars /\ (Looks \/ HandleWhisper \/ HandleJoin \/ HandleQuit)
  BY <1>2, <1>3, LooksQueue, HandlesStill DEF Still
<1>4. CASE ServerStart
  BY <1>1, <1>4, StartEffect, HasNothing
<1>5. CASE Recv
  BY <1>1, <1>5, RecvEffect, HasTaken
<1>6. ASSUME NEW p \in Procs, OpenOwn(p) \/ Sits(p) \/ Receive(p) PROVE Has(Queue, m)
  BY <1>1, <1>2, <1>6, OpenOwnEffect, SitsStill, ReceiveEffect DEF Still
<1>7. <<>> \in Content
  BY DEF Content
<1>8. ASSUME NEW p \in Procs, NEW n \in Msg, Queue' \in {Queue, Append(Queue, n)}, ~Has(Queue, m)
      PROVE  m = n
  BY <1>1, <1>8, HasAppended
<1>9. ASSUME NEW p \in Procs, Join(p) PROVE Has(Queue, m) \/ Wrote(p, m)
  <2> DEFINE n == Request(p, "JOIN", <<>>)
  <2>1. n \in Msg /\ cpc[p] = "start"
    BY <1>1, <1>7, <1>9, RequestIsMsg DEF Join, Request_
  <2>2. Queue' \in {Queue, Append(Queue, n)}
    BY <1>1, <1>9, JoinEffect
  <2>3. n.id = IdOf[p] /\ n.type = "JOIN" /\ n.name = sname[p]
    BY DEF Request
  <2> HIDE DEF n
  <2> QED
    BY <1>8, <2>1, <2>2, <2>3 DEF Wrote
<1>10. ASSUME NEW p \in Procs, Sending(p) PROVE Has(Queue, m) \/ Wrote(p, m)
  <2>1. /\ typed[p] \in Nat /\ sname[p] \in AnyName
    BY <1>1 DEF RoomTypes, ClientTypes, AnyName
  <2>2. /\ <<"said", p, typed[p]>> \in Content /\ <<"whispered", p, typed[p], sname[p]>> \in Content
    <3> HIDE DEF AnyName
    <3> QED
      BY <2>1 DEF Content
  <2> HIDE DEF Content
  <2>3. ASSUME NEW type \in Request_, NEW text \in Content, NEW pc,
               cpc[p] # "start", Send(p, Request(p, type, text), pc),
               Wrote(p, Request(p, type, text))
        PROVE  Has(Queue, m) \/ Wrote(p, m)
    <3> DEFINE n == Request(p, type, text)
    <3>1. n \in Msg
      BY <1>1, RequestIsMsg
    <3>2. Queue' = Append(Queue, n)
      BY <1>1, <2>3, <3>1, SendEffect
    <3>3. Wrote(p, n)
      BY <2>3
    <3> HIDE DEF n
    <3> QED
      BY <1>8, <3>1, <3>2, <3>3
  <2>4. CASE SendBroadcast(p)
    <3>1. Wrote(p, Request(p, "BROADCAST", <<"said", p, typed[p]>>))
      BY <2>4 DEF SendBroadcast, Wrote, Request
    <3> QED
      BY <2>2, <2>3, <2>4, <3>1 DEF SendBroadcast, Request_
  <2>5. CASE SendList(p) \/ SendWhisperList(p)
    <3>1. Wrote(p, Request(p, "LIST", <<>>))
      BY <2>5 DEF SendList, SendWhisperList, Wrote, Request
    <3> QED
      BY <1>7, <2>3, <2>5, <3>1 DEF SendList, SendWhisperList, Request_
  <2>6. CASE SendWhisper(p)
    <3>1. Wrote(p, Request(p, "WHISPER", <<"whispered", p, typed[p], sname[p]>>))
      BY <2>6 DEF SendWhisper, Wrote, Request
    <3> QED
      BY <2>2, <2>3, <2>6, <3>1 DEF SendWhisper, Request_
  <2>7. CASE SendQuit(p)
    <3>1. Wrote(p, Request(p, "QUIT", <<>>))
      BY <2>7 DEF SendQuit, Wrote, Request
    <3> QED
      BY <1>7, <2>3, <2>7, <3>1 DEF SendQuit, Request_
  <2> QED
    BY <1>10, <2>4, <2>5, <2>6, <2>7 DEF Sending
<1> QED
  BY <1>3, <1>4, <1>5, <1>6, <1>9, <1>10, Steps

(* The request the server handles, it handled, or takes from its box.      *)
LEMMA RequestTaken ==
  ASSUME Known, Next, spc' \in Request_
  PROVE  \/ UNCHANGED <<spc, msg, client_box, room>>
         \/ Recv /\ Has(Queue, msg') /\ spc' = msg'.type /\ UNCHANGED room
<1>1. CASE UNCHANGED serverVars
  BY <1>1 DEF serverVars
<1>2. CASE Recv
  <2>1. Queue # <<>> /\ msg' = Queue[1] /\ spc' = msg'.type
    BY <1>2, RecvEffect
  <2>2. Len(Queue) \in Nat /\ Queue \in Seq(Msg)
    BY Anchor DEF Known
  <2>3. 1 \in 1 .. Len(Queue)
    <3> HIDE DEF Msg
    <3> QED
      BY <2>1, <2>2
  <2> QED
    BY <1>2, <2>1, <2>3 DEF Has, Recv
<1>3. CASE ServerStart \/ HandleWhisper \/ HandleJoin \/ HandleQuit
  BY <1>3 DEF ServerStart, HandleWhisper, HandleJoin, HandleQuit, Announce, Request_
<1>4. CASE Looks
  BY <1>4 DEF Looks, ServerSigint, ServerKill, ServerStop, HandleOther, CastDone, ListDone,
     ServerFault, HandleList, HandleBroadcast, Announce, Cast, ListOne, WhisperSend, Request_
<1> QED
  BY <1>1, <1>2, <1>3, <1>4, Steps

(* No box that exists becomes the box of another id.                       *)
LEMMA TieIsOld ==
  ASSUME Known, RoomTypes', Next, NEW b \in 1 .. Len(box), NEW i \in 1 .. MAX_CLIENT, TiedTo(b, i)'
  PROVE  TiedTo(b, i)
<1> HIDE DEF Msg
<1>1. /\ RoomTypes /\ Objects /\ SERVER_ID \in Ids /\ i \in Ids /\ i # SERVER_ID /\ b # NoBox
      /\ shm \in [Ids -> 0 .. Len(box)] /\ room \in Rooms(Len(box)) /\ mine \in [Procs -> 0 .. Len(box)]
      /\ Len(box) \in Nat
  <2>1. RoomTypes /\ Objects
    BY DEF Known
  <2>2. SERVER_ID \in Ids /\ i \in Ids /\ i # SERVER_ID /\ Len(box) \in Nat
    BY <2>1, Anchor
  <2>3. b # NoBox
    BY <2>2 DEF NoBox
  <2> HIDE DEF Rooms, AnyName, Content, ClientStates, Boxes
  <2>4. shm \in [Ids -> 0 .. Len(box)]
    BY <2>1 DEF RoomTypes, MemoryTypes
  <2>5. room \in Rooms(Len(box))
    BY <2>1 DEF RoomTypes, ServerTypes
  <2>6. mine \in [Procs -> 0 .. Len(box)]
    BY <2>1 DEF RoomTypes, ClientTypes
  <2> QED
    BY <2>1, <2>2, <2>3, <2>4, <2>5, <2>6
<1>2. \A j \in Ids : b = ObjectOf(j) => b = shm[j]
  BY <1>1 DEF ObjectOf
<1>3. CASE UNCHANGED clientVars /\ Looks
  <2>1. UNCHANGED <<shm, room, client_box, mine>> /\ msg'.id = msg.id
    BY <1>1, <1>3, LooksPointers
  <2> QED
    BY <2>1 DEF TiedTo
<1>4. CASE UNCHANGED clientVars /\ (HandleWhisper \/ HandleJoin \/ HandleQuit)
  <2>1. msg \in Msg /\ msg.id \in Ids
    BY <1>1 DEF RoomTypes, ServerTypes, Msg
  <2>2. msg'.id = msg.id /\ UNCHANGED <<client_box, mine>>
    BY <1>4, <2>1 DEF HandleWhisper, Signed, HandleJoin, HandleQuit, Announce, Msg, clientVars
  <2>3. CASE HandleWhisper
    BY <2>2, <2>3 DEF HandleWhisper, memory, TiedTo
  <2>4. CASE HandleJoin
    <3>1. UNCHANGED shm /\ room' = [room EXCEPT ![msg.id] = [session_owner |-> msg.name, client_box |-> client_box]]
      BY <2>4 DEF HandleJoin, memory
    <3>2. room'[i].client_box = IF i = msg.id THEN client_box ELSE room[i].client_box
      BY <1>1, <2>1, <3>1 DEF Rooms
    <3> QED
      BY <2>2, <3>1, <3>2 DEF TiedTo
  <2>5. CASE HandleQuit
    <3>1. /\ shm' = [shm EXCEPT ![msg.id] = NoBox] /\ room' = [room EXCEPT ![msg.id].client_box = NoBox]
      BY <2>5 DEF HandleQuit, Without
    <3>2. shm'[i] \in {NoBox, shm[i]} /\ room'[i].client_box \in {NoBox, room[i].client_box}
      BY <1>1, <2>1, <3>1 DEF Rooms
    <3> QED
      BY <1>1, <2>2, <3>2 DEF TiedTo
  <2> QED
    BY <1>4, <2>3, <2>4, <2>5
<1>5. CASE UNCHANGED clientVars /\ ServerStart
  <2>1. shm'[i] = shm[i] /\ client_box' = NoBox /\ room' = EmptyRoom /\ UNCHANGED mine
    BY <1>1, <1>5, StartEffect DEF ServerStart, clientVars
  <2>2. room'[i].client_box = NoBox
    BY <1>1, <2>1 DEF EmptyRoom
  <2> QED
    BY <1>1, <2>1, <2>2 DEF TiedTo
<1>6. CASE UNCHANGED clientVars /\ Recv
  <2>1. /\ msg'.id \in Ids
        /\ \/ client_box' = NoBox /\ UNCHANGED shm
           \/ client_box' = ObjectOf(msg'.id) /\ shm' = [shm EXCEPT ![msg'.id] = ObjectOf(msg'.id)]
    BY <1>1, <1>6, RecvEffect, Anchor DEF Asks
  <2>2. UNCHANGED <<room, mine>>
    BY <1>6 DEF Recv, clientVars
  <2> QED
    BY <1>1, <1>2, <2>1, <2>2 DEF TiedTo
<1>7. ASSUME UNCHANGED serverVars, NEW p \in Procs, Join(p)
      PROVE  TiedTo(b, i)
  <2>1. shm'[i] = shm[i] /\ UNCHANGED <<room, mine, client_box, msg>>
    BY <1>1, <1>7, JoinEffect DEF Join, serverVars
  <2> QED
    BY <2>1 DEF TiedTo
<1>8. ASSUME UNCHANGED serverVars, NEW p \in Procs, OpenOwn(p)
      PROVE  TiedTo(b, i)
  <2>1. /\ shm' = [shm EXCEPT ![IdOf[p]] = ObjectOf(IdOf[p])]
        /\ mine' = [mine EXCEPT ![p] = ObjectOf(IdOf[p])]
        /\ IdOf[p] \in Ids /\ UNCHANGED <<room, client_box, msg>>
    BY <1>1, <1>8, OpenOwnEffect, ClientIds DEF serverVars
  <2> QED
    BY <1>1, <1>2, <2>1 DEF TiedTo
<1>9. ASSUME UNCHANGED serverVars, NEW p \in Procs, Sits(p) \/ Sending(p) \/ Receive(p)
      PROVE  TiedTo(b, i)
  <2>1. UNCHANGED <<shm, room, client_box, mine, msg>>
    BY <1>1, <1>9, SitsPointers
  <2> QED
    BY <2>1 DEF TiedTo
<1> QED
  BY <1>3, <1>4, <1>5, <1>6, <1>7, <1>8, <1>9, Steps

(* What the sending thread of a client does next                           *)
LEMMA Typist ==
  ASSUME Known, Next, NEW p \in Procs
  PROVE  /\ cpc'[p] = "start" => cpc[p] = "start" /\ sname'[p] = sname[p]
         /\ cpc'[p] \in {"start", "joined"} => cpc[p] \in {"start", "joined"}
         /\ cpc'[p] = "QUIT" => cpc[p] = "QUIT" \/ "QUIT" \in Commands[p]
         /\ cpc'[p] = "whisper" => \/ cpc[p] = "whisper" /\ sname'[p] = sname[p]
                                   \/ UNCHANGED <<serverVars, got>> /\ TypeName(p)
<1> DEFINE Fine == /\ cpc'[p] = "start" => cpc[p] = "start" /\ sname'[p] = sname[p]
                   /\ cpc'[p] \in {"start", "joined"} => cpc[p] \in {"start", "joined"}
                   /\ cpc'[p] = "QUIT" => cpc[p] = "QUIT" \/ "QUIT" \in Commands[p]
                   /\ cpc'[p] = "whisper" => \/ cpc[p] = "whisper" /\ sname'[p] = sname[p]
                                             \/ UNCHANGED <<serverVars, got>> /\ TypeName(p)
<1>1. ASSUME cpc'[p] = cpc[p], sname'[p] = sname[p] PROVE Fine
  BY <1>1
<1>2. cpc \in [Procs -> ClientStates] /\ sname \in [Procs -> UserName]
  BY DEF Known, RoomTypes, ClientTypes
<1>3. ASSUME NEW q \in Procs, NEW pc, cpc' = [cpc EXCEPT ![q] = pc], sname' = sname,
             pc \notin {"start", "whisper"}, pc = "joined" => cpc[q] = "start",
             pc = "QUIT" => "QUIT" \in Commands[q]
      PROVE  Fine
  BY <1>2, <1>3
<1> HIDE DEF Fine
<1>4. ASSUME NEW q \in Procs, Join(q) \/ OpenOwn(q) \/ Kill(q) PROVE Fine
  BY <1>3, <1>4 DEF Join, OpenOwn, Kill
<1>5. ASSUME NEW q \in Procs, TypeCommand(q) PROVE Fine
  <2>1. PICK c \in Commands[q] : cpc' = [cpc EXCEPT ![q] = c] /\ sname' = sname
    BY <1>5 DEF TypeCommand
  <2>2. c \in {"QUIT", "WHISPER", "LIST", "BROADCAST"}
    BY ClientAssumption
  <2> QED
    BY <1>3, <2>1, <2>2
<1>6. ASSUME UNCHANGED serverVars, NEW q \in Procs, TypeName(q) PROVE Fine
  <2>1. /\ \E to : sname' = [sname EXCEPT ![q] = to]
        /\ cpc' = [cpc EXCEPT ![q] = "whisper"] /\ UNCHANGED <<serverVars, got>>
    BY <1>6 DEF TypeName, screen
  <2>2. CASE q = p
    BY <1>2, <1>6, <2>1, <2>2 DEF Fine
  <2>3. CASE q # p
    BY <1>1, <1>2, <2>1, <2>3
  <2> QED
    BY <2>2, <2>3
<1>7. ASSUME NEW q \in Procs, ReceiveStop(q) \/ ClientSigint(q) \/ Receive(q) PROVE Fine
  BY <1>1, <1>7 DEF ReceiveStop, ClientSigint, Receive
<1>8. ASSUME NEW q \in Procs, Sending(q) PROVE Fine
  <2>1. \E pc \in {"typing", "done", "name"} : cpc' = [cpc EXCEPT ![q] = pc] /\ sname' = sname
    BY <1>8 DEF Sending, SendBroadcast, SendList, SendWhisperList, SendWhisper, SendQuit, Send, NextLine
  <2> QED
    BY <1>3, <2>1
<1>9. CASE UNCHANGED clientVars
  BY <1>1, <1>9 DEF clientVars
<1> QED
  BY <1>4, <1>5, <1>6, <1>7, <1>8, <1>9, Steps DEF Sits, Fine
-----------------------------------------------------------------------------
\* The request came from the process whose id it has: a JOIN with the name of
\* that process, a whisper with the name of its receiver.
Vouched(m) ==
    \E p \in Procs :
        /\ m.id = IdOf[p]
        /\ m.type = "JOIN" => m.name = NameOf[p]
        /\ m.type = "WHISPER" => m.text[2] = p /\ m.text[4] = m.name

\* An entry of the room is empty or has the name of a process of its id.
Session(i) ==
    \/ room[i].session_owner = NoName /\ room[i].client_box = NoBox
    \/ \E p \in Procs : IdOf[p] = i /\ room[i].session_owner = NameOf[p]

Names ==
    /\ \A p \in Procs : cpc[p] = "start" => sname[p] = NameOf[p]
    /\ \A m : Has(Queue, m) => Vouched(m)
    /\ spc \in Request_ => Vouched(msg)
    /\ \A i \in 1 .. MAX_CLIENT : Session(i)

(* What a client sends is vouched for.                                     *)
LEMMA WroteVouched ==
  ASSUME Names, NEW p \in Procs, NEW m, Wrote(p, m)
  PROVE  Vouched(m)
<1>1. m.type = "WHISPER" => m.text[2] = p /\ m.text[4] = m.name
  BY DEF Wrote
<1>2. m.type = "JOIN" => m.name = NameOf[p]
  BY DEF Wrote, Names
<1> QED
  BY <1>1, <1>2 DEF Wrote, Vouched

\* The steps that change the room
Rooming == HandleJoin \/ HandleQuit \/ ServerStart

(* Only those change it.                                                   *)
LEMMA RoomStays ==
  ASSUME Next
  PROVE  UNCHANGED room \/ (UNCHANGED clientVars /\ Rooming)
BY Steps DEF Rooming, serverVars, Looks, ServerSigint, ServerKill, ServerStop, HandleOther, CastDone,
   ListDone, ServerFault, HandleList, HandleBroadcast, Cast, ListOne, WhisperSend, HandleWhisper, Recv

(* What JOIN, QUIT and a start of the server do to the entries             *)
LEMMA RoomEffect ==
  ASSUME Known, Rooming, NEW i \in 1 .. MAX_CLIENT
  PROVE  \/ ServerStart /\ room'[i].session_owner = NoName /\ room'[i].client_box = NoBox
         \/ HandleJoin /\ msg.id = i /\ room'[i].session_owner = msg.name
            /\ room'[i].client_box = client_box
         \/ HandleQuit /\ msg.id = i /\ room'[i].session_owner = room[i].session_owner
            /\ room'[i].client_box = NoBox
         \/ (HandleJoin \/ HandleQuit) /\ msg.id # i /\ room'[i] = room[i]
<1> HIDE DEF Msg, Content, AnyName, ClientStates, Boxes
<1>1. i \in Ids /\ i # SERVER_ID
  BY Anchor DEF Known
<1>2. room \in Rooms(Len(box)) /\ msg.id \in Ids
  BY DEF Known, RoomTypes, ServerTypes, Msg
<1>3. CASE ServerStart
  BY <1>1, <1>3 DEF ServerStart, EmptyRoom
<1>4. CASE HandleJoin
  <2>1. room' = [room EXCEPT ![msg.id] = [session_owner |-> msg.name, client_box |-> client_box]]
    BY <1>4 DEF HandleJoin
  <2> QED
    BY <1>1, <1>2, <1>4, <2>1 DEF Rooms
<1>5. CASE HandleQuit
  <2>1. room' = [room EXCEPT ![msg.id].client_box = NoBox]
    BY <1>5 DEF HandleQuit, Without
  <2> QED
    BY <1>1, <1>2, <1>5, <2>1 DEF Rooms
<1> QED
  BY <1>3, <1>4, <1>5 DEF Rooming

(* Every step keeps the names of requests and entries.                     *)
LEMMA NamesNext ==
  ASSUME Known, RoomTypes', Names, [Next]_vars
  PROVE  Names'
<1> HIDE DEF Msg
<1>1. CASE UNCHANGED vars
  <2>1. UNCHANGED <<memory, serverVars, clientVars>>
    BY <1>1 DEF vars
  <2>2. UNCHANGED <<Queue, cpc, sname, spc, msg, room>>
    BY <2>1 DEF memory, serverVars, clientVars, Queue
  <2> QED
    BY <2>2 DEF Names, Session, Vouched
<1>2. CASE Next
  <2>1. \A p \in Procs : cpc'[p] = "start" => sname'[p] = NameOf[p]
    BY <1>2, Typist DEF Names
  <2>2. ASSUME NEW m, Has(Queue', m) PROVE Vouched(m)
    BY <1>2, <2>2, RequestArrives, WroteVouched DEF Names
  <2>3. spc' \in Request_ => Vouched(msg')
    BY <1>2, RequestTaken DEF Names
  <2>4. ASSUME NEW i \in 1 .. MAX_CLIENT PROVE Session(i)'
    <3>1. CASE UNCHANGED room
      BY <3>1 DEF Names, Session
    <3>2. CASE Rooming
      <4>1. HandleJoin => Vouched(msg) /\ msg.type = "JOIN"
        BY DEF HandleJoin, Names, Request_, Known, Asked
      <4>2. HandleJoin /\ msg.id = i => \E p \in Procs : IdOf[p] = i /\ msg.name = NameOf[p]
        BY <4>1 DEF Vouched
      <4> QED
        BY <3>2, <4>2, RoomEffect DEF Names, Session
    <3> QED
      BY <1>2, <3>1, <3>2, RoomStays
  <2> QED
    BY <2>1, <2>2, <2>3, <2>4 DEF Names, Vouched
<1> QED
  BY <1>1, <1>2

(* The names are right at the start.                                       *)
LEMMA NamesInit ==
  ASSUME Init
  PROVE  Names
<1>1. /\ room = EmptyRoom /\ Queue = <<>> /\ spc = "off" /\ sname = NameOf
  <2>1. SERVER_ID \in Ids
    BY MemoryAssumption DEF Ids, SERVER_ID
  <2> QED
    BY <2>1 DEF Init, MemoryInit, ServerInit, ClientInit, Queue
<1>2. \A i \in 1 .. MAX_CLIENT : i \in Ids /\ i # SERVER_ID
  BY MemoryAssumption DEF Ids, SERVER_ID
<1> QED
  BY <1>1, <1>2, HasNothing DEF Names, Session, EmptyRoom, Request_
-----------------------------------------------------------------------------
\* Signed by the one who whispered, or not at all
Authentic(m) == m.type = "WHISPER" => m.name \in {NameOf[m.text[2]], NoName}

Signs ==
    /\ \A b : ClientBox(b) => \A m : Has(box[b], m) => Authentic(m)
    /\ \A p \in Procs : \A m : Has(got[p], m) => Authentic(m)
    /\ spc = "whisper" => Authentic(msg)
    /\ spc = "cast" => msg.type # "WHISPER"
    /\ spc = "list" => msg.type = "SERVER"

(* What the server has at hand in the middle of an answer                  *)
LEMMA Answering ==
  ASSUME Known, Next
  PROVE  /\ spc' = "whisper" => \/ UNCHANGED <<spc, msg, receiver_box, client_box>>
                                \/ UNCHANGED clientVars /\ HandleWhisper
         /\ spc' = "cast" => \/ spc = "cast" /\ msg' = msg
                             \/ UNCHANGED clientVars /\ (HandleJoin \/ HandleQuit \/ HandleBroadcast)
         /\ spc' = "list" => \/ UNCHANGED <<spc, msg, cursor, client_box>>
                             \/ UNCHANGED clientVars /\ (HandleList \/ ListOne)
<1>1. CASE UNCHANGED serverVars
  BY <1>1 DEF serverVars
<1>2. CASE UNCHANGED clientVars /\ Recv
  <2>1. spc' \in Request_
    BY <1>2, RecvEffect DEF Asks
  <2> QED
    BY <2>1 DEF Request_
<1>3. CASE UNCHANGED clientVars /\ (ServerStart \/ HandleWhisper \/ HandleJoin \/ HandleQuit)
  BY <1>3 DEF ServerStart, HandleWhisper, HandleJoin, HandleQuit, Announce
<1>4. CASE UNCHANGED clientVars /\ Looks
  BY <1>4 DEF Looks, ServerSigint, ServerKill, ServerStop, HandleOther, CastDone, ListDone,
     ServerFault, HandleList, HandleBroadcast, Announce, Cast, ListOne, WhisperSend
<1> QED
  BY <1>1, <1>2, <1>3, <1>4, Steps

(* The types of the messages the server makes                              *)
LEMMA Making ==
  ASSUME Known
  PROVE  /\ HandleJoin \/ HandleQuit => msg'.type = "SERVER"
         /\ HandleBroadcast => msg'.type = "BROADCAST"
         /\ HandleList => msg'.type = "SERVER"
         /\ HandleWhisper => /\ msg.type = "WHISPER" /\ msg'.type = "WHISPER" /\ msg'.text = msg.text
                             /\ msg'.name = room[msg.id].session_owner
<1>1. msg \in Msg /\ (spc \in Request_ => msg.type = spc)
  BY DEF Known, RoomTypes, ServerTypes, Asked
<1> QED
  BY <1>1 DEF HandleJoin, HandleQuit, HandleBroadcast, HandleList, HandleWhisper, Announce, Signed,
     Msg, Request_

(* Every step keeps the signatures.                                        *)
LEMMA SignsNext ==
  ASSUME DistinctIds, Known, RoomTypes', Names, Signs, [Next]_vars
  PROVE  Signs'
<1> HIDE DEF Msg
<1>1. CASE UNCHANGED vars
  <2>1. UNCHANGED <<memory, serverVars, clientVars>>
    BY <1>1 DEF vars
  <2>2. UNCHANGED <<shm, box, got, spc, msg>>
    BY <2>1 DEF memory, serverVars, clientVars, screen
  <2> QED
    BY <2>2 DEF Signs, Authentic, ClientBox
<1>2. CASE Next
  <2>1. spc' = "cast" => msg'.type # "WHISPER"
    BY <1>2, Answering, Making DEF Signs
  <2>2. spc' = "list" => msg'.type = "SERVER"
    BY <1>2, Answering, Making, ListEffect DEF Signs
  <2>3. spc' = "whisper" => Authentic(msg')
    <3>1. CASE HandleWhisper
      <4>1. spc \in Request_
        BY <3>1 DEF HandleWhisper, Request_
      <4>2. PICK p \in Procs : msg.id = IdOf[p] /\ msg.text[2] = p
        BY <3>1, <4>1, Making DEF Names, Vouched
      <4>3. room[IdOf[p]].session_owner \in {NameOf[p], NoName}
        BY ClientIds DEF Names, Session, DistinctIds
      <4> QED
        BY <3>1, <4>2, <4>3, Making DEF Authentic
    <3> QED
      BY <1>2, <3>1, Answering DEF Signs
  <2>4. ASSUME NEW b, ClientBox(b)', NEW m, Has(box'[b], m) PROVE Authentic(m)
    <3>1. Cast => msg' = msg /\ spc = "cast"
      BY DEF Cast
    <3>2. ListOne => msg'.type = "SERVER"
      BY ListEffect DEF Signs
    <3>3. WhisperSend => msg' = msg /\ spc = "whisper"
      BY DEF WhisperSend
    <3>4. (\E c : Delivers(c)) => Authentic(msg')
      BY <3>1, <3>2, <3>3 DEF Delivers, Signs, Authentic
    <3> QED
      BY <1>2, <2>4, <3>4, MailArrives DEF Signs
  <2>5. ASSUME NEW p \in Procs, NEW m, Has(got'[p], m) PROVE Authentic(m)
    BY <1>2, <2>5, MailGot DEF Signs
  <2> QED
    BY <2>1, <2>2, <2>3, <2>4, <2>5 DEF Signs, Authentic
<1> QED
  BY <1>1, <1>2

(* Nothing is signed at the start.                                         *)
LEMMA SignsInit ==
  ASSUME Init
  PROVE  Signs
<1>1. box = <<>> /\ got = [p \in Procs |-> <<>>] /\ spc = "off"
  BY DEF Init, MemoryInit, ServerInit, ClientInit
<1> QED
  BY <1>1, HasNothing DEF Signs, ClientBox

(* The invariant of the names and signatures                               *)
LEMMA SignsHold ==
  ASSUME DistinctIds
  PROVE  Spec => [](Known /\ Names /\ Signs)
<1>1. Init => Known /\ Names /\ Signs
  BY KnownInit, NamesInit, SignsInit
<1>2. Known /\ Names /\ Signs /\ [Next]_vars => (Known /\ Names /\ Signs)'
  <2> SUFFICES ASSUME Known, Names, Signs, [Next]_vars PROVE (Known /\ Names /\ Signs)'
    OBVIOUS
  <2>1. Known' /\ RoomTypes'
    BY KnownNext DEF Known
  <2> QED
    BY <2>1, NamesNext, SignsNext
<1> QED
  BY <1>1, <1>2, PTL DEF Spec

(* A whisper is never signed with another name than that of the one who    *)
(* whispered, though the client overwrote its own name with the receiver's *)
(* and the server finds the name again by the id: for any commands, any    *)
(* targets, lost JOINs, kills and restarts, as long as no two users share  *)
(* an id.                                                                  *)
THEOREM RoomWhisperSigned ==
  ASSUME DistinctIds
  PROVE  Spec => []WhisperSigned
<1>1. Known /\ Signs => WhisperSigned
  <2> SUFFICES ASSUME Signs, NEW p \in Procs, NEW k \in 1 .. Len(got[p]), got[p][k].type = "WHISPER"
               PROVE  got[p][k].name \in {NameOf[got[p][k].text[2]], NoName}
    BY DEF WhisperSigned
  <2>1. Has(got[p], got[p][k])
    BY DEF Has
  <2> QED
    BY <2>1 DEF Signs, Authentic
<1> QED
  BY <1>1, SignsHold, PTL
-----------------------------------------------------------------------------
\* A client that has not opened its box has asked for nothing but to join.
Unasked ==
    \A p \in Procs : cpc[p] \in {"start", "joined"} =>
        /\ \A m : Has(Queue, m) /\ m.id = IdOf[p] => m.type = "JOIN"
        /\ spc \in (Request_ \ {"JOIN"}) \cup {"list"} => msg.id # IdOf[p]

\* The entry for the member i is in what reached the client p.
Listed(p, i) ==
    \E m : Has(Flow(p), m) /\ m.text = <<"inside", room[i].session_owner>> /\ m.seq = msg.seq

Complete ==
    spc = "list" =>
        /\ client_box = NoBox => cursor = 1
        /\ \A p \in Procs : mine[p] = client_box =>
              \A i \in Members \ {msg.id} : i < cursor => Listed(p, i)

(* Every step keeps a client without a box from having asked.              *)
LEMMA UnaskedNext ==
  ASSUME DistinctIds, Known, RoomTypes', Unasked, [Next]_vars
  PROVE  Unasked'
<1> HIDE DEF Msg
<1>1. CASE UNCHANGED vars
  <2>1. UNCHANGED <<memory, serverVars, clientVars>>
    BY <1>1 DEF vars
  <2>2. UNCHANGED <<Queue, cpc, spc, msg>>
    BY <2>1 DEF memory, serverVars, clientVars, Queue
  <2> QED
    BY <2>2 DEF Unasked
<1>2. CASE Next
  <2> SUFFICES ASSUME NEW p \in Procs, cpc'[p] \in {"start", "joined"}
               PROVE  /\ \A m : Has(Queue', m) /\ m.id = IdOf[p] => m.type = "JOIN"
                      /\ spc' \in (Request_ \ {"JOIN"}) \cup {"list"} => msg'.id # IdOf[p]
    BY DEF Unasked
  <2>1. cpc[p] \in {"start", "joined"}
    BY <1>2, Typist
  <2>2. ASSUME NEW m, Has(Queue', m), m.id = IdOf[p] PROVE m.type = "JOIN"
    <3>1. CASE Has(Queue, m)
      BY <2>1, <2>2, <3>1 DEF Unasked
    <3>2. ASSUME NEW q \in Procs, Wrote(q, m) PROVE m.type = "JOIN"
      <4>1. q = p
        BY <2>2, <3>2 DEF Wrote, DistinctIds
      <4> QED
        BY <2>1, <3>2, <4>1 DEF Wrote
    <3> QED
      BY <1>2, <2>2, <3>1, <3>2, RequestArrives
  <2>3. spc' \in Request_ \ {"JOIN"} => msg'.id # IdOf[p]
    BY <1>2, <2>1, RequestTaken DEF Unasked
  <2>4. ASSUME spc' = "list" PROVE msg'.id # IdOf[p]
    <3>1. CASE HandleList
      <4>1. msg'.id = msg.id /\ spc = "LIST"
        BY <3>1 DEF HandleList, Known, RoomTypes, ServerTypes, Msg
      <4> QED
        BY <2>1, <4>1 DEF Unasked, Request_
    <3>2. CASE ListOne
      BY <2>1, <3>2, ListEffect DEF Unasked
    <3>3. CASE UNCHANGED <<spc, msg>>
      BY <2>1, <2>4, <3>3 DEF Unasked
    <3> QED
      BY <1>2, <2>4, <3>1, <3>2, <3>3, Answering
  <2> QED
    BY <2>2, <2>3, <2>4
<1> QED
  BY <1>1, <1>2

(* What is in two queues put together                                      *)
LEMMA HasBoth ==
  ASSUME NEW S, NEW q \in Seq(S), NEW r \in Seq(S), NEW m
  PROVE  Has(q \o r, m) <=> Has(q, m) \/ Has(r, m)
<1> DEFINE n == Len(q)
<1>1. /\ Len(q) \in Nat /\ Len(r) \in Nat /\ Len(q \o r) = Len(q) + Len(r)
      /\ \A k \in 1 .. Len(q) + Len(r) :
            (q \o r)[k] = IF k <= Len(q) THEN q[k] ELSE r[k - Len(q)]
  OBVIOUS
<1>2. ASSUME NEW k \in 1 .. Len(q) PROVE k \in 1 .. Len(q) + Len(r) /\ (q \o r)[k] = q[k]
  BY <1>1
<1>3. ASSUME NEW k \in 1 .. Len(r)
      PROVE  Len(q) + k \in 1 .. Len(q) + Len(r) /\ (q \o r)[Len(q) + k] = r[k]
  <2>1. Len(q) + k \in 1 .. Len(q) + Len(r) /\ ~(Len(q) + k <= Len(q)) /\ (Len(q) + k) - Len(q) = k
    BY <1>1
  <2> QED
    BY <1>1, <2>1
<1>4. ASSUME NEW k \in 1 .. Len(q) + Len(r) PROVE k \in 1 .. Len(q) \/ k - Len(q) \in 1 .. Len(r)
  BY <1>1
<1>5. Has(q, m) \/ Has(r, m) => Has(q \o r, m)
  BY <1>1, <1>2, <1>3 DEF Has
<1>6. Has(q \o r, m) => Has(q, m) \/ Has(r, m)
  <2> SUFFICES ASSUME NEW k \in 1 .. Len(q) + Len(r), (q \o r)[k] = m
               PROVE  Has(q, m) \/ Has(r, m)
    BY <1>1 DEF Has
  <2>1. CASE k <= Len(q)
    <3>1. k \in 1 .. Len(q) /\ q[k] = m
      BY <1>1, <2>1
    <3> QED
      BY <3>1 DEF Has
  <2>2. CASE ~(k <= Len(q))
    <3>1. k - Len(q) \in 1 .. Len(r) /\ r[k - Len(q)] = m
      BY <1>1, <2>2
    <3> QED
      BY <3>1 DEF Has
  <2> QED
    BY <2>1, <2>2
<1> QED
  BY <1>5, <1>6

(* What reached a client is on its screen or in its box.                   *)
LEMMA HasFlow ==
  ASSUME RoomTypes, NEW p \in Procs, mine[p] # NoBox, NEW m
  PROVE  Has(Flow(p), m) <=> Has(got[p], m) \/ Has(box[mine[p]], m)
<1> HIDE DEF Msg
<1>1. mine[p] \in 1 .. Len(box) /\ got[p] \in Seq(Msg)
  BY DEF RoomTypes, ClientTypes, MemoryTypes, Boxes, NoBox
<1>2. box[mine[p]] \in Seq(Msg)
  BY <1>1 DEF RoomTypes, MemoryTypes, Boxes
<1> QED
  BY <1>1, <1>2, HasBoth DEF Flow

(* The box the answer goes to is in no other hand than that of the client  *)
(* who asked, and he empties it no more.                                   *)
LEMMA AnswerBox ==
  ASSUME DistinctIds, Known, Unasked, spc = "list", client_box # NoBox, NEW p \in Procs
  PROVE  /\ client_box \in 1 .. Len(box) /\ client_box # shm[SERVER_ID]
         /\ cpc[p] = "joined" => ObjectOf(IdOf[p]) # client_box
         /\ mine[p] = client_box => \A q \in Procs : mine[q] = client_box => q = p
<1> HIDE DEF Msg
<1>1. RoomTypes /\ Objects /\ msg.id \in 1 .. MAX_CLIENT /\ TiedTo(client_box, msg.id)
  BY DEF Known, Asked, TiedTo
<1>2. client_box \in 1 .. Len(box) /\ Len(box) \in Nat
  BY <1>1, Anchor DEF RoomTypes, ServerTypes, NoBox
<1>3. msg.id \in Ids /\ client_box # shm[SERVER_ID]
  BY <1>1, <1>2, Anchor
<1>4. \A q \in Procs : TiedTo(client_box, IdOf[q]) => IdOf[q] = msg.id
  BY <1>1, <1>2, <1>3, ClientIds DEF Objects
<1>5. ASSUME cpc[p] = "joined", ObjectOf(IdOf[p]) = client_box PROVE FALSE
  <2>1. shm[IdOf[p]] \in 0 .. Len(box)
    BY <1>1, ClientIds DEF RoomTypes, MemoryTypes
  <2>2. shm[IdOf[p]] = client_box
    BY <1>2, <1>5, <2>1 DEF ObjectOf
  <2>3. IdOf[p] = msg.id
    BY <1>4, <2>2 DEF TiedTo
  <2> QED
    BY <1>5, <2>3 DEF Unasked
<1>6. ASSUME NEW q \in Procs, mine[p] = client_box, mine[q] = client_box PROVE q = p
  <2>1. TiedTo(client_box, IdOf[p]) /\ TiedTo(client_box, IdOf[q])
    BY <1>6 DEF TiedTo
  <2> QED
    BY <1>4, <2>1 DEF DistinctIds
<1> QED
  BY <1>2, <1>3, <1>5, <1>6

(* While the server answers, nothing is lost on the way to the one who     *)
(* asked.                                                                  *)
LEMMA FlowKept ==
  ASSUME DistinctIds, Known, RoomTypes', Unasked, Next, spc = "list", spc' = "list",
         client_box # NoBox, client_box' = client_box, NEW p \in Procs, mine'[p] = client_box
  PROVE  /\ mine[p] = client_box
         /\ \A m : Has(Flow(p), m) => Has(Flow(p)', m)
<1> HIDE DEF Msg
<1> DEFINE b == client_box
<1>1. RoomTypes /\ Objects /\ Len(box) \in Nat /\ mine \in [Procs -> 0 .. Len(box)]
  BY Anchor DEF Known, RoomTypes, ClientTypes
<1>2. b \in 1 .. Len(box) /\ b # shm[SERVER_ID] /\ box[b] \in Seq(Msg) /\ got[p] \in Seq(Msg)
  BY <1>1, AnswerBox DEF RoomTypes, MemoryTypes, Boxes, ClientTypes
<1>3. \A m : Has(Flow(p)', m) <=> Has(got'[p], m) \/ Has(box'[b], m)
  <2> SUFFICES ASSUME NEW m PROVE Has(Flow(p)', m) <=> Has(got'[p], m) \/ Has(box'[b], m)
    OBVIOUS
  <2>1. mine'[p] # NoBox /\ got'[p] \in Seq(Msg) /\ box'[b] \in Seq(Msg)
    <3>1. mine'[p] \in 1 .. Len(box')
      BY DEF RoomTypes, ClientTypes, MemoryTypes, Boxes, NoBox
    <3> QED
      BY <3>1 DEF RoomTypes, ClientTypes, MemoryTypes, Boxes
  <2>2. Flow(p)' = got'[p] \o box'[b]
    BY <2>1 DEF Flow
  <2> QED
    BY <2>1, <2>2, HasBoth
<1>4. ASSUME mine'[p] = mine[p], got'[p] = got[p],
             \A m : Has(box[b], m) => Has(box'[b], m)
      PROVE  /\ mine[p] = client_box
             /\ \A m : Has(Flow(p), m) => Has(Flow(p)', m)
  BY <1>1, <1>3, <1>4, HasFlow
<1>5. b \in 1 .. Len(box')
  BY <1>2 DEF RoomTypes, ClientTypes, MemoryTypes, Boxes
<1>6. ASSUME mine'[p] = mine[p], got'[p] = got[p], NEW c, OthersStay(c), c # b
      PROVE  /\ mine[p] = client_box
             /\ \A m : Has(Flow(p), m) => Has(Flow(p)', m)
  <2>1. box'[b] = box[b]
    BY <1>2, <1>5, <1>6 DEF OthersStay
  <2> QED
    BY <1>4, <1>6, <2>1
<1>7. CASE UNCHANGED clientVars /\ (Looks \/ HandleWhisper \/ HandleJoin \/ HandleQuit \/ ServerStart \/ Recv)
  <2>1. UNCHANGED <<mine, got>>
    BY <1>7 DEF clientVars, screen
  <2>2. ListOne \/ UNCHANGED box
    <3>1. ~ServerStart /\ ~Recv /\ ~HandleWhisper /\ ~HandleJoin /\ ~HandleQuit /\ ~Cast /\ ~WhisperSend
      BY DEF ServerStart, Recv, HandleWhisper, HandleJoin, HandleQuit, Cast, WhisperSend
    <3>2. Looks => ListOne \/ UNCHANGED box
      BY <3>1, LooksStill DEF Still
    <3> QED
      BY <1>7, <3>1, <3>2
  <2>3. CASE ListOne
    <3>1. box'[b] \in {box[b], Append(box[b], msg')} /\ msg' \in Msg
      BY <2>3, ListEffect DEF Posted, RoomTypes, ServerTypes
    <3>2. \A m : Has(Append(box[b], msg'), m) <=> Has(box[b], m) \/ m = msg'
      BY <1>2, <3>1, HasAppended
    <3> QED
      BY <1>4, <2>1, <3>1, <3>2
  <2> QED
    BY <1>4, <2>1, <2>2, <2>3
<1>8. ASSUME NEW q \in Procs, Join(q)
      PROVE  /\ mine[p] = client_box
             /\ \A m : Has(Flow(p), m) => Has(Flow(p)', m)
  <2>1. OthersStay(shm'[SERVER_ID]) /\ shm'[SERVER_ID] = ObjectOf(SERVER_ID)
    BY <1>1, <1>8, JoinEffect
  <2>2. shm'[SERVER_ID] # b
    BY <1>1, <1>2, <2>1, NameOfServer
  <2>3. UNCHANGED <<mine, got>>
    BY <1>8 DEF Join, screen
  <2> QED
    BY <1>6, <2>1, <2>2, <2>3
<1>9. ASSUME NEW q \in Procs, OpenOwn(q)
      PROVE  /\ mine[p] = client_box
             /\ \A m : Has(Flow(p), m) => Has(Flow(p)', m)
  <2>1. /\ OthersStay(mine'[q]) /\ mine' = [mine EXCEPT ![q] = ObjectOf(IdOf[q])]
        /\ mine'[q] = ObjectOf(IdOf[q]) /\ cpc[q] = "joined" /\ UNCHANGED got
    BY <1>1, <1>9, OpenOwnEffect DEF OpenOwn, screen
  <2>2. mine'[q] # b
    BY <2>1, AnswerBox
  <2>3. mine'[p] = mine[p]
    BY <1>1, <2>1, <2>2
  <2> QED
    BY <1>6, <2>1, <2>2, <2>3
<1>10. ASSUME NEW q \in Procs, Sits(q)
      PROVE  /\ mine[p] = client_box
             /\ \A m : Has(Flow(p), m) => Has(Flow(p)', m)
  <2>1. UNCHANGED <<box, mine, got>>
    BY <1>10, SitsStill DEF Still, Sits, TypeCommand, TypeName, ReceiveStop, ClientSigint, Kill, screen
  <2> QED
    BY <1>4, <2>1
<1>11. ASSUME NEW q \in Procs, Sending(q)
      PROVE  /\ mine[p] = client_box
             /\ \A m : Has(Flow(p), m) => Has(Flow(p)', m)
  <2>1. OthersStay(shm[SERVER_ID]) /\ UNCHANGED <<mine, got>>
    BY <1>11, SendingEffect DEF screen
  <2> QED
    BY <1>2, <1>6, <2>1
<1>12. ASSUME NEW q \in Procs, Receive(q)
      PROVE  /\ mine[p] = client_box
             /\ \A m : Has(Flow(p), m) => Has(Flow(p)', m)
  <2> DEFINE n == Taken(box[mine[q]])
  <2>1. /\ OthersStay(mine[q]) /\ box[mine[q]] # <<>> /\ box[mine[q]] \in Seq(Msg)
        /\ box'[mine[q]] = Remaining(box[mine[q]]) /\ UNCHANGED mine
        /\ got' = [got EXCEPT ![q] = Append(@, n)] /\ got \in [Procs -> Seq(Msg)]
    BY <1>1, <1>12, ReceiveEffect DEF Receive, RoomTypes, ClientTypes
  <2>2. n \in Msg
    BY <2>1, Taking
  <2>3. mine[p] = b
    BY <2>1
  <2> HIDE DEF n
  <2>4. CASE q # p
    <3>1. mine[q] # b
      BY <2>3, <2>4, AnswerBox
    <3> QED
      BY <1>6, <2>1, <2>4, <3>1
  <2>5. CASE q = p
    <3>1. got'[p] = Append(got[p], n) /\ box'[b] = Remaining(box[b])
      BY <2>1, <2>3, <2>5
    <3>2. \A m : Has(got'[p], m) <=> Has(got[p], m) \/ m = n
      BY <1>2, <2>2, <3>1, HasAppended
    <3>3. \A m : Has(box[b], m) <=> Has(box'[b], m) \/ m = n
      BY <1>2, <2>1, <2>3, <2>5, <3>1, HasTaken DEF n
    <3>4. \A m : Has(Flow(p), m) <=> Has(got[p], m) \/ Has(box[b], m)
      BY <1>1, <1>2, <2>3, HasFlow DEF NoBox
    <3> QED
      BY <1>3, <2>3, <3>2, <3>3, <3>4
  <2> QED
    BY <2>4, <2>5
<1> QED
  BY <1>7, <1>8, <1>9, <1>10, <1>11, <1>12, Steps

(* The entry for the first member left is put into the box of the one who  *)
(* asked, which has room for it.                                           *)
LEMMA EntrySent ==
  ASSUME Known, RoomTypes', ListOne
  PROVE  /\ Has(box'[client_box], msg') /\ client_box # NoBox /\ UNCHANGED <<client_box, room>>
         /\ msg'.text = <<"inside", room[Min(ToList)].session_owner>>
         /\ msg'.seq = msg.seq /\ msg'.id = msg.id /\ cursor' = Min(ToList) + 1
         /\ \A i \in ToList : Min(ToList) <= i
<1> HIDE DEF Msg
<1>1. RoomTypes /\ Objects /\ client_box # NoBox /\ ~IsFull(client_box) /\ ToList # {}
      /\ UNCHANGED <<client_box, room>> /\ cursor' = Min(ToList) + 1
      /\ box' = Put(box, client_box, msg')
  BY DEF Known, ListOne, After
<1>2. client_box \in 1 .. Len(box) /\ box \in Boxes /\ box[client_box] \in Seq(Msg) /\ msg' \in Msg
  BY <1>1, Anchor DEF RoomTypes, ServerTypes, MemoryTypes, Boxes, NoBox
<1>3. Len(box[client_box]) < Capacity
  <2>1. Len(box[client_box]) \in Nat /\ Len(box[client_box]) <= Capacity
        /\ Len(box[client_box]) # Capacity /\ Capacity \in Nat
    BY <1>1, <1>2, MemoryAssumption DEF IsFull, RoomTypes, MemoryTypes, Bounded
  <2> QED
    BY <2>1
<1>4. box'[client_box] = Append(box[client_box], msg')
  BY <1>1, <1>2, <1>3, Putting
<1>5. Has(box'[client_box], msg')
  BY <1>2, <1>4, HasAppended
<1>6. ToList \subseteq Nat
  <2>1. MAX_CLIENT \in Nat /\ cursor \in Nat
    BY <1>1, MemoryAssumption DEF RoomTypes, ServerTypes
  <2> QED
    BY <2>1 DEF ToList, Rest
<1> QED
  BY <1>1, <1>5, <1>6, FirstOf, ListEffect

(* Every step keeps the answer to LIST complete.                           *)
LEMMA CompleteNext ==
  ASSUME DistinctIds, Known, RoomTypes', Unasked, Complete, [Next]_vars
  PROVE  Complete'
<1> HIDE DEF Msg
<1>1. CASE UNCHANGED vars
  <2>1. UNCHANGED <<memory, serverVars, clientVars>>
    BY <1>1 DEF vars
  <2>2. UNCHANGED <<box, got, mine, spc, msg, cursor, client_box, room>>
    BY <2>1 DEF memory, serverVars, clientVars, screen
  <2> QED
    BY <2>2 DEF Complete, Listed, Flow, Members
<1>2. CASE Next
  <2> SUFFICES ASSUME spc' = "list" PROVE Complete'
    BY DEF Complete
  <2>1. UNCHANGED room
    BY <1>2, RoomStays DEF Rooming, ServerStart, HandleJoin, HandleQuit, Announce
  <2>2. RoomTypes /\ MAX_CLIENT \in Nat /\ \A i \in Members : i \in Nat /\ i >= 1 /\ i \in 1 .. MAX_CLIENT
    BY MemoryAssumption DEF Known, Members
  <2>3. CASE HandleList
    <3>1. cursor' = 1
      BY <2>3 DEF HandleList
    <3>2. \A i \in Members' : ~(i < cursor')
      BY <2>1, <2>2, <3>1 DEF Members
    <3> QED
      BY <3>1, <3>2 DEF Complete
  <2>4. ASSUME NEW p \in Procs, spc = "list", client_box # NoBox, client_box' = client_box,
               mine'[p] = client_box, msg'.seq = msg.seq, NEW i, Listed(p, i)
        PROVE  Listed(p, i)'
    <3>1. PICK m : Has(Flow(p), m) /\ m.text = <<"inside", room[i].session_owner>> /\ m.seq = msg.seq
      BY <2>4 DEF Listed
    <3>2. Has(Flow(p)', m)
      BY <1>2, <2>4, <3>1, FlowKept
    <3> QED
      BY <2>1, <2>4, <3>1, <3>2 DEF Listed
  <2>5. CASE UNCHANGED <<spc, msg, cursor, client_box>>
    <3>1. client_box = NoBox => cursor = 1
      BY <2>5 DEF Complete
    <3> SUFFICES ASSUME NEW p \in Procs, mine'[p] = client_box', NEW i \in Members \ {msg.id},
                        i < cursor
                 PROVE  Listed(p, i)'
      BY <2>1, <2>5, <3>1 DEF Complete, Members
    <3>2. client_box # NoBox
      BY <2>2, <3>1
    <3>3. mine[p] = client_box
      BY <1>2, <2>5, <3>2, FlowKept
    <3>4. Listed(p, i)
      BY <2>5, <3>3 DEF Complete
    <3> QED
      BY <2>4, <2>5, <3>2, <3>4
  <2>6. CASE ListOne
    <3>1. /\ Has(box'[client_box], msg') /\ client_box # NoBox /\ UNCHANGED <<client_box, room>>
          /\ msg'.text = <<"inside", room[Min(ToList)].session_owner>>
          /\ msg'.seq = msg.seq /\ msg'.id = msg.id /\ cursor' = Min(ToList) + 1
          /\ \A i \in ToList : Min(ToList) <= i
      BY <2>6, EntrySent
    <3>2. spc = "list" /\ Min(ToList) \in Nat /\ Min(ToList) \in ToList /\ cursor \in Nat
      <4>1. spc = "list" /\ ToList # {} /\ RoomTypes
        BY <2>6 DEF ListOne, Known
      <4>2. cursor \in Nat
        <5>1. cursor \in 1 .. MAX_CLIENT + 1
          BY <4>1 DEF RoomTypes, ServerTypes
        <5> QED
          BY <2>2, <5>1
      <4>3. Min(ToList) \in ToList /\ Min(ToList) \in 1 .. MAX_CLIENT
        BY <4>1, Looping
      <4> QED
        BY <2>2, <4>1, <4>2, <4>3
    <3> SUFFICES ASSUME NEW p \in Procs, mine'[p] = client_box, NEW i \in Members \ {msg.id},
                        i < Min(ToList) + 1
                 PROVE  Listed(p, i)'
      BY <3>1, <2>1 DEF Complete, Members
    <3>3. mine[p] = client_box
      BY <1>2, <3>1, <3>2, FlowKept
    <3>4. CASE i < cursor
      <4>1. Listed(p, i)
        BY <3>2, <3>3, <3>4 DEF Complete
      <4> QED
        BY <2>4, <3>1, <3>2, <4>1
    <3>5. CASE ~(i < cursor)
      <4>1. i \in ToList
        BY <2>2, <3>2, <3>5 DEF ToList, Rest, Members
      <4>2. i = Min(ToList)
        BY <2>2, <3>1, <3>2, <4>1
      <4>3. Has(Flow(p)', msg')
        <5>1. RoomTypes' /\ mine'[p] # NoBox
          BY <3>1
        <5>2. mine'[p] \in 1 .. Len(box') /\ got'[p] \in Seq(Msg)
          BY <5>1 DEF RoomTypes, ClientTypes, MemoryTypes, Boxes, NoBox
        <5>3. box'[mine'[p]] \in Seq(Msg)
          BY <5>1, <5>2 DEF RoomTypes, MemoryTypes, Boxes
        <5>4. Flow(p)' = got'[p] \o box'[mine'[p]]
          BY <5>1 DEF Flow
        <5> QED
          BY <3>1, <5>2, <5>3, <5>4, HasBoth
      <4> QED
        BY <2>1, <3>1, <4>2, <4>3 DEF Listed
    <3> QED
      BY <3>4, <3>5
  <2> QED
    BY <1>2, <2>3, <2>5, <2>6, Answering
<1> QED
  BY <1>1, <1>2

(* Nobody has asked and nothing is answered at the start.                  *)
LEMMA CompleteInit ==
  ASSUME Init
  PROVE  Unasked /\ Complete
<1>1. /\ Queue = <<>> /\ spc = "off"
  <2>1. SERVER_ID \in Ids
    BY MemoryAssumption DEF Ids, SERVER_ID
  <2> QED
    BY <2>1 DEF Init, MemoryInit, ServerInit, Queue
<1> QED
  BY <1>1, HasNothing DEF Unasked, Complete, Request_

(* The answer to LIST is complete: whatever else happens while the server  *)
(* waits for room in the box of the one who asked, he has been sent one    *)
(* entry for every other member the loop has passed, and none of them is   *)
(* lost, as long as no two users share an id.                              *)
THEOREM RoomListComplete ==
  ASSUME DistinctIds
  PROVE  Spec => []ListComplete
<1>1. Init => Known /\ Unasked /\ Complete
  BY KnownInit, CompleteInit
<1>2. Known /\ Unasked /\ Complete /\ [Next]_vars => (Known /\ Unasked /\ Complete)'
  <2> SUFFICES ASSUME Known, Unasked, Complete, [Next]_vars PROVE (Known /\ Unasked /\ Complete)'
    OBVIOUS
  <2>1. Known' /\ RoomTypes'
    BY KnownNext DEF Known
  <2> QED
    BY <2>1, UnaskedNext, CompleteNext
<1>3. Complete => ListComplete
  <2> SUFFICES ASSUME spc = "list", NEW p \in Procs, NEW i, Listed(p, i)
               PROVE  \E k \in 1 .. Len(Flow(p)) :
                         /\ Flow(p)[k].text = <<"inside", room[i].session_owner>>
                         /\ Flow(p)[k].seq = msg.seq
    BY DEF Complete, ListComplete
  <2> QED
    BY DEF Listed, Has
<1> QED
  BY <1>1, <1>2, <1>3, PTL DEF Spec
-----------------------------------------------------------------------------
\* Nobody types QUIT.
NobodyQuits == \A p \in Procs : "QUIT" \notin Commands[p]

Stays ==
    /\ \A p \in Procs : cpc[p] # "QUIT"
    /\ \A m : Has(Queue, m) => m.type # "QUIT"
    /\ spc # "QUIT"

\* The user of that name is in the room; a QUIT would leave the name there.
Entered(n) == \E p \in Procs : n = NameOf[p] /\ room[IdOf[p]].session_owner = n

\* What the server tells of is a user in the room.
Tells(m) == m.type = "SERVER" => Entered(m.text[2])

\* A whisper in the box b is for all who take b for theirs.
Aimed(b, m) ==
    m.type = "WHISPER" => \A q \in Procs : TiedTo(b, IdOf[q]) => m.text[4] = NameOf[q]

\* Nothing is heard of the server before it is started.
Silent ==
    /\ spc = "off"
    /\ \A p \in Procs : got[p] = <<>> /\ cpc[p] # "whisper"
    /\ \A b : ClientBox(b) => box[b] = <<>>

Private ==
    /\ \A p \in Procs : cpc[p] = "whisper" => Entered(sname[p])
    /\ \A m : Has(Queue, m) /\ m.type = "WHISPER" => Entered(m.name)
    /\ spc = "WHISPER" => Entered(msg.name)
    /\ spc = "whisper" /\ receiver_box # NoBox => Aimed(receiver_box, msg)
    /\ spc = "cast" => Tells(msg)
    /\ \A b : ClientBox(b) => \A m : Has(box[b], m) => Tells(m) /\ Aimed(b, m)
    /\ \A p \in Procs : \A m : Has(got[p], m) =>
          Tells(m) /\ (m.type = "WHISPER" => m.text[4] = NameOf[p])

FirstSession == /\ starts = 0 => Silent
                /\ starts <= 1 => Private

(* Nobody quits in the course of the room.                                 *)
LEMMA StaysNext ==
  ASSUME NobodyQuits, Known, RoomTypes', Stays, [Next]_vars
  PROVE  Stays'
<1>1. CASE UNCHANGED vars
  <2>1. UNCHANGED <<memory, serverVars, clientVars>>
    BY <1>1 DEF vars
  <2>2. UNCHANGED <<Queue, cpc, spc>>
    BY <2>1 DEF memory, serverVars, clientVars, Queue
  <2> QED
    BY <2>2 DEF Stays
<1>2. CASE Next
  <2>1. \A p \in Procs : cpc'[p] # "QUIT"
    BY <1>2, Typist DEF Stays, NobodyQuits
  <2>2. ASSUME NEW m, Has(Queue', m) PROVE m.type # "QUIT"
    BY <1>2, <2>2, RequestArrives DEF Stays, Wrote
  <2>3. spc' # "QUIT"
    BY <1>2, RequestTaken DEF Stays, Request_
  <2> QED
    BY <2>1, <2>2, <2>3 DEF Stays
<1> QED
  BY <1>1, <1>2

(* Who has entered stays entered, as long as the server is not restarted.  *)
LEMMA EnteredStays ==
  ASSUME DistinctIds, Known, Names, Next, ~ServerStart, NEW n, Entered(n)
  PROVE  Entered(n)'
<1>1. PICK p \in Procs : n = NameOf[p] /\ room[IdOf[p]].session_owner = n
  BY DEF Entered
<1>2. IdOf[p] \in 1 .. MAX_CLIENT
  BY ClientIds
<1>3. ASSUME HandleJoin, msg.id = IdOf[p] PROVE msg.name = n
  <2>1. spc \in Request_ /\ msg.type = "JOIN"
    BY <1>3 DEF HandleJoin, Request_, Known, Asked
  <2>2. PICK q \in Procs : msg.id = IdOf[q] /\ msg.name = NameOf[q]
    BY <2>1 DEF Names, Vouched
  <2> QED
    BY <1>1, <1>3, <2>2 DEF DistinctIds
<1>4. room'[IdOf[p]].session_owner = n
  BY <1>1, <1>2, <1>3, RoomStays, RoomEffect
<1> QED
  BY <1>1, <1>4 DEF Entered

(* A box that is there is aimed at as before.                              *)
LEMMA AimedStays ==
  ASSUME Known, RoomTypes', Next, NEW b \in 1 .. Len(box), NEW m, Aimed(b, m)
  PROVE  Aimed(b, m)'
BY TieIsOld, ClientIds DEF Aimed

(* The whisper goes to the box of the session that has the receiver's name.*)
LEMMA ReceiverFound ==
  ASSUME Known, HandleWhisper, Private
  PROVE  \E i \in 1 .. MAX_CLIENT : /\ room[i].session_owner = msg.name
                                   /\ receiver_box' = room[i].client_box
<1>1. spc = "WHISPER" /\ receiver_box' \in Receiver(msg.name)
  BY DEF HandleWhisper
<1>2. Named(msg.name) # {}
  BY <1>1, ClientIds DEF Private, Entered, Named
<1>3. Named(msg.name) \subseteq Nat
  BY MemoryAssumption DEF Named
<1>4. Min(Named(msg.name)) \in Named(msg.name)
  BY <1>2, <1>3, FirstOf
<1> QED
  BY <1>1, <1>2, <1>4 DEF Receiver, Named

(* A whisper is for the one whose box was found.                           *)
LEMMA WhisperAimed ==
  ASSUME DistinctIds, Known, RoomTypes', Names, Next, UNCHANGED clientVars, HandleWhisper, Private,
         receiver_box' # NoBox
  PROVE  Aimed(receiver_box, msg)'
<1> HIDE DEF Msg
<1>1. PICK i \in 1 .. MAX_CLIENT : /\ room[i].session_owner = msg.name
                                  /\ receiver_box' = room[i].client_box
  BY ReceiverFound
<1>2. RoomTypes /\ Objects /\ i \in Ids
  BY Anchor DEF Known
<1>3. receiver_box' \in 1 .. Len(box)
  <2>1. room[i].client_box \in 0 .. Len(box)
    BY <1>2 DEF RoomTypes, ServerTypes, Rooms
  <2> QED
    BY <1>1, <2>1 DEF NoBox
<1> DEFINE b == receiver_box'
<1> SUFFICES ASSUME NEW q \in Procs, TiedTo(receiver_box, IdOf[q])'
             PROVE  msg'.text[4] = NameOf[q]
  BY DEF Aimed
<1>4. TiedTo(b, IdOf[q])
  <2>1. UNCHANGED <<shm, room, client_box, mine>> /\ msg'.id = msg.id
    <3>1. msg' = [msg EXCEPT !.name = room[msg.id].session_owner] /\ msg \in Msg
      BY <1>2 DEF HandleWhisper, Signed, RoomTypes, ServerTypes
    <3> QED
      BY <3>1 DEF HandleWhisper, memory, clientVars, Msg
  <2> QED
    BY <2>1 DEF TiedTo
<1>5. TiedTo(b, i)
  BY <1>1 DEF TiedTo
<1>6. IdOf[q] = i
  BY <1>2, <1>3, <1>4, <1>5, ClientIds DEF Objects
<1>7. PICK p \in Procs : IdOf[p] = i /\ room[i].session_owner = NameOf[p]
  BY <1>1 DEF Names, Session
<1>8. p = q
  BY <1>6, <1>7 DEF DistinctIds
<1>9. Vouched(msg) /\ msg.type = "WHISPER" /\ msg'.text = msg.text
  BY Making DEF HandleWhisper, Names, Request_
<1> QED
  BY <1>1, <1>7, <1>8, <1>9 DEF Vouched

(* What the server has just announced tells of a user in the room.         *)
LEMMA AnnouncementTells ==
  ASSUME DistinctIds, Known, RoomTypes', Names, Stays, Private, Next, ~ServerStart, spc' = "cast"
  PROVE  Tells(msg)'
<1> HIDE DEF Msg
<1>1. CASE spc = "cast" /\ msg' = msg
  BY <1>1, EnteredStays DEF Private, Tells
<1>2. CASE HandleJoin
  <2>1. spc \in Request_ /\ msg.type = "JOIN" /\ msg \in Msg
    BY <1>2 DEF HandleJoin, Request_, Known, Asked, RoomTypes, ServerTypes
  <2>2. PICK p \in Procs : msg.id = IdOf[p] /\ msg.name = NameOf[p]
    BY <2>1 DEF Names, Vouched
  <2>3. room'[IdOf[p]].session_owner = msg.name
    BY <1>2, <2>2, RoomEffect, ClientIds DEF Rooming, ServerStart, HandleQuit, HandleJoin
  <2>4. msg'.text = <<"joined", msg.name>>
    BY <1>2, <2>1 DEF HandleJoin, Announce, Msg
  <2> QED
    BY <2>2, <2>3, <2>4 DEF Tells, Entered
<1>3. CASE HandleBroadcast
  BY <1>3, Making DEF Tells
<1>4. ~HandleQuit
  BY DEF HandleQuit, Stays
<1> QED
  BY <1>1, <1>2, <1>3, <1>4, Answering

(* An entry of the answer to LIST tells of a user in the room.             *)
LEMMA EntryTells ==
  ASSUME Known, RoomTypes', Names, ListOne
  PROVE  Tells(msg)'
<1>1. msg'.text = <<"inside", room[Min(ToList)].session_owner>> /\ UNCHANGED room
  BY EntrySent
<1>2. Min(ToList) \in 1 .. MAX_CLIENT /\ room[Min(ToList)].client_box # NoBox
  BY Looping DEF ListOne, Known, Rest, NoBox
<1>3. PICK p \in Procs : IdOf[p] = Min(ToList) /\ room[Min(ToList)].session_owner = NameOf[p]
  BY <1>2 DEF Names, Session
<1> QED
  BY <1>1, <1>3 DEF Tells, Entered

(* Every step but a start of the server keeps whispers private.            *)
LEMMA PrivateNext ==
  ASSUME DistinctIds, Careful, Known, RoomTypes', Names, Signs, Stays, Private, Next, ~ServerStart
  PROVE  Private'
<1> HIDE DEF Msg
<1>1. RoomTypes /\ Objects
  BY DEF Known
<1>2. \A n : Entered(n) => Entered(n)'
  BY EnteredStays
<1>3. \A m : Tells(m) => Tells(m)'
  BY <1>2 DEF Tells
<1>4. ASSUME NEW p \in Procs, cpc'[p] = "whisper" PROVE Entered(sname[p])'
  <2>1. CASE cpc[p] = "whisper" /\ sname'[p] = sname[p]
    BY <1>2, <2>1 DEF Private
  <2>2. CASE TypeName(p)
    <3>1. PICK to \in Shown(p) : sname' = [sname EXCEPT ![p] = to]
      BY <2>2 DEF TypeName
    <3>2. sname'[p] = to
      BY <1>1, <3>1 DEF RoomTypes, ClientTypes
    <3>3. PICK k \in 1 .. Len(got[p]) : got[p][k].type = "SERVER" /\ to = got[p][k].text[2]
      BY DEF Shown
    <3>4. Tells(got[p][k])
      BY DEF Private, Has
    <3> QED
      BY <1>2, <3>2, <3>3, <3>4 DEF Tells
  <2> QED
    BY <1>4, <2>1, <2>2, Typist
<1>5. ASSUME NEW m, Has(Queue', m), m.type = "WHISPER" PROVE Entered(m.name)'
  BY <1>2, <1>5, RequestArrives DEF Private, Wrote
<1>6. ASSUME spc' = "WHISPER" PROVE Entered(msg.name)'
  BY <1>2, <1>6, RequestTaken DEF Private, Request_
<1>7. ASSUME spc' = "whisper", receiver_box' # NoBox PROVE Aimed(receiver_box, msg)'
  <2>1. CASE UNCHANGED <<spc, msg, receiver_box>>
    <3>1. receiver_box \in 1 .. Len(box) /\ Aimed(receiver_box, msg)
      BY <1>1, <1>7, <2>1 DEF Private, RoomTypes, ServerTypes, NoBox
    <3> QED
      BY <2>1, <3>1, AimedStays DEF Aimed
  <2> QED
    BY <1>7, <2>1, Answering, WhisperAimed
<1>8. spc' = "cast" => Tells(msg)'
  BY AnnouncementTells
<1>9. ASSUME NEW b, ClientBox(b)', NEW m, Has(box'[b], m) PROVE Tells(m)' /\ Aimed(b, m)'
  <2>1. ClientBox(b) /\ (Has(box[b], m) \/ (m = msg' /\ Delivers(b)))
    BY <1>9, MailArrives
  <2>2. b \in 1 .. Len(box)
    BY <2>1 DEF ClientBox
  <2>3. CASE Has(box[b], m)
    BY <1>3, <2>1, <2>2, <2>3, AimedStays DEF Private
  <2>4. CASE m = msg' /\ Cast
    <3>1. msg' = msg /\ spc = "cast"
      BY <2>4 DEF Cast
    <3> QED
      BY <1>3, <2>4, <3>1 DEF Private, Signs, Aimed
  <2>5. CASE m = msg' /\ ListOne
    <3>1. Tells(msg)' /\ msg'.type = "SERVER"
      BY <2>5, EntryTells, ListEffect DEF Signs
    <3> QED
      BY <2>5, <3>1 DEF Tells, Aimed
  <2>6. CASE m = msg' /\ WhisperSend /\ b = receiver_box
    <3>1. msg' = msg /\ spc = "whisper" /\ receiver_box # NoBox /\ msg.type = "WHISPER"
      BY <2>6, WhisperEffect DEF WhisperSend
    <3>2. Aimed(b, m)
      BY <2>6, <3>1 DEF Private
    <3> QED
      BY <2>2, <2>6, <3>1, <3>2, AimedStays DEF Tells
  <2> QED
    BY <2>1, <2>3, <2>4, <2>5, <2>6 DEF Delivers
<1>10. ASSUME NEW p \in Procs, NEW m, Has(got'[p], m)
       PROVE  Tells(m)' /\ (m.type = "WHISPER" => m.text[4] = NameOf[p])
  <2>1. CASE Has(got[p], m)
    BY <1>3, <2>1 DEF Private
  <2>2. CASE ClientBox(mine[p]) /\ Has(box[mine[p]], m)
    <3>1. Tells(m) /\ Aimed(mine[p], m) /\ TiedTo(mine[p], IdOf[p])
      BY <2>2 DEF Private, TiedTo
    <3> QED
      BY <1>3, <3>1 DEF Aimed
  <2> QED
    BY <1>10, <2>1, <2>2, MailGot
<1> QED
  BY <1>4, <1>5, <1>6, <1>7, <1>8, <1>9, <1>10 DEF Private

(* The first start of the server finds nothing that was said before.       *)
LEMMA FirstSessionNext ==
  ASSUME DistinctIds, Careful, Known, RoomTypes', Names, Signs, Stays, FirstSession, [Next]_vars
  PROVE  FirstSession'
<1> HIDE DEF Msg
<1>1. CASE UNCHANGED vars
  <2>1. UNCHANGED <<memory, serverVars, clientVars>>
    BY <1>1 DEF vars
  <2>2. UNCHANGED <<shm, box, got, cpc, sname, mine, Queue, starts, spc, msg, receiver_box, client_box, room>>
    BY <2>1 DEF memory, serverVars, clientVars, screen, Queue
  <2>3. Silent => Silent'
    BY <2>2 DEF Silent, ClientBox
  <2>4. Private => Private'
    BY <2>2 DEF Private, Entered, Tells, Aimed, TiedTo, ClientBox
  <2> QED
    BY <2>2, <2>3, <2>4 DEF FirstSession
<1>2. starts \in Nat
  BY ServerAssumption DEF Known, RoomTypes, ServerTypes
<1>3. CASE Next /\ ServerStart
  <2>1. starts' = starts + 1 /\ spc' = "recv"
    BY <1>3 DEF ServerStart
  <2>2. ASSUME starts' <= 1 PROVE Private'
    <3>1. Silent
      BY <1>2, <2>1, <2>2 DEF FirstSession
    <3>2. UNCHANGED clientVars /\ Queue' = <<>>
      <4>1. UNCHANGED clientVars
        BY <1>3, Steps DEF serverVars, ServerStart
      <4> QED
        BY <1>3, <4>1, StartEffect DEF Known
    <3>3. \A p \in Procs : got'[p] = <<>> /\ cpc'[p] # "whisper"
      BY <3>1, <3>2 DEF Silent, clientVars, screen
    <3>4. ASSUME NEW b, ClientBox(b)', NEW m PROVE ~Has(box'[b], m)
      <4>1. ~Cast /\ ~ListOne /\ ~WhisperSend
        BY <3>1 DEF Silent, Cast, ListOne, WhisperSend
      <4> QED
        BY <1>3, <3>1, <3>4, <4>1, MailArrives, HasNothing DEF Delivers, Silent
    <3> QED
      BY <2>1, <3>2, <3>3, <3>4, HasNothing DEF Private
  <2> QED
    BY <1>2, <2>1, <2>2 DEF FirstSession
<1>4. CASE Next /\ ~ServerStart
  <2>1. starts' = starts
    BY <1>4, Steps DEF serverVars, Looks, ServerSigint, ServerKill, ServerStop, HandleOther, CastDone,
       ListDone, ServerFault, HandleList, HandleBroadcast, Cast, ListOne, WhisperSend, HandleWhisper,
       Recv, HandleJoin, HandleQuit
  <2>2. starts <= 1 => Private'
    BY <1>4, PrivateNext DEF FirstSession
  <2>3. ASSUME Silent PROVE Silent'
    <3>1. spc' = "off"
      <4>1. UNCHANGED spc
        BY <1>4, <2>3, Steps DEF Silent, serverVars, Looks, ServerSigint, ServerKill, ServerStop, HandleOther,
           CastDone, ListDone, ServerFault, HandleList, HandleBroadcast, Cast, ListOne, WhisperSend,
           HandleWhisper, Recv, HandleJoin, HandleQuit
      <4> QED
        BY <2>3, <4>1 DEF Silent
    <3>2. ASSUME NEW b, ClientBox(b)' PROVE box'[b] = <<>>
      <4>1. ASSUME NEW m PROVE ~Has(box'[b], m)
        <5>1. ~Cast /\ ~ListOne /\ ~WhisperSend
          BY <2>3 DEF Silent, Cast, ListOne, WhisperSend
        <5> QED
          BY <1>4, <2>3, <3>2, <5>1, MailArrives, HasNothing DEF Delivers, Silent
      <4>2. box'[b] \in Seq(Msg)
        BY <3>2 DEF ClientBox, RoomTypes, MemoryTypes, Boxes
      <4> QED
        BY <4>1, <4>2, HasTaken
    <3>3. ASSUME NEW p \in Procs PROVE got'[p] = <<>> /\ cpc'[p] # "whisper"
      <4>1. ASSUME NEW m PROVE ~Has(got'[p], m)
        BY <1>4, <2>3, MailGot, HasNothing DEF Silent
      <4>2. got'[p] \in Seq(Msg)
        BY DEF RoomTypes, ClientTypes
      <4>3. Len(got[p]) = 0
        BY <2>3 DEF Silent
      <4>4. ~TypeName(p)
        BY <4>3 DEF TypeName, Shown
      <4> QED
        BY <1>4, <2>3, <4>1, <4>2, <4>4, HasTaken, Typist DEF Silent
    <3> QED
      BY <3>1, <3>2, <3>3 DEF Silent
  <2> QED
    BY <2>1, <2>2, <2>3 DEF FirstSession
<1> QED
  BY <1>1, <1>3, <1>4

(* Nobody has whispered and nothing is shown at the start.                 *)
LEMMA FirstSessionInit ==
  ASSUME Init
  PROVE  Stays /\ FirstSession
<1>1. /\ Queue = <<>> /\ spc = "off" /\ box = <<>>
      /\ got = [p \in Procs |-> <<>>] /\ cpc = [p \in Procs |-> "start"]
  <2>1. SERVER_ID \in Ids
    BY MemoryAssumption DEF Ids, SERVER_ID
  <2> QED
    BY <2>1 DEF Init, MemoryInit, ServerInit, ClientInit, Queue
<1> QED
  BY <1>1, HasNothing DEF Stays, FirstSession, Silent, Private, ClientBox

\* All that is known of the first session of a server
Session1 == Known /\ Names /\ Signs /\ Stays /\ FirstSession

(* The invariant of the first session                                      *)
LEMMA FirstSessionHolds ==
  ASSUME DistinctIds, Careful, NobodyQuits
  PROVE  Spec => []Session1
<1>1. Init => Session1
  BY KnownInit, NamesInit, SignsInit, FirstSessionInit DEF Session1
<1>2. Session1 /\ [Next]_vars => Session1'
  <2> SUFFICES ASSUME Session1, [Next]_vars PROVE Session1'
    OBVIOUS
  <2>1. Known /\ Names /\ Signs /\ Stays /\ FirstSession
    BY DEF Session1
  <2>2. Known' /\ RoomTypes'
    BY <2>1, KnownNext DEF Known
  <2> QED
    BY <2>1, <2>2, NamesNext, SignsNext, StaysNext, FirstSessionNext DEF Session1
<1> QED
  BY <1>1, <1>2, PTL DEF Spec

(* A whisper is shown to the one it is meant for, though the server finds  *)
(* the receiver by a search that leaves the previous receiver where it     *)
(* finds none: for any number of users who whisper, list, broadcast, are   *)
(* interrupted or killed and whose JOINs may be lost, as long as they have *)
(* different ids, whisper only to names they were shown and nobody quits,  *)
(* until the server is started for the second time.                        *)
THEOREM RoomWhisperPrivate ==
  ASSUME DistinctIds, Careful, NobodyQuits
  PROVE  Spec => [](starts <= 1 => WhisperPrivate)
<1>1. Session1 => (starts <= 1 => WhisperPrivate)
  <2> SUFFICES ASSUME Private, NEW p \in Procs, NEW k \in 1 .. Len(got[p]), got[p][k].type = "WHISPER"
               PROVE  got[p][k].text[4] = NameOf[p]
    BY DEF Session1, FirstSession, WhisperPrivate
  <2>1. Has(got[p], got[p][k])
    BY DEF Has
  <2> QED
    BY <2>1 DEF Private
<1> QED
  BY <1>1, FirstSessionHolds, PTL
-----------------------------------------------------------------------------
\* Every user has a name.
EveryoneNamed == \A p \in Procs : NameOf[p] # NoName

\* The boxes the server is about to use are there.
Usable ==
    /\ spc \in Request_ \cup {"list", "whisper"} => client_box # NoBox
    /\ \A i \in 1 .. MAX_CLIENT : room[i].session_owner = NoName \/ room[i].client_box # NoBox
    /\ spc = "whisper" => receiver_box # NoBox
    /\ spc # "fault"

\* The first session, as long as there are descriptors
Lasting == starts <= 1 /\ fds < OPEN_MAX => Usable

(* A request is handled with the box of its sender open.                   *)
LEMMA UsableBox ==
  ASSUME Known, Usable, Next, fds' < OPEN_MAX, spc' \in Request_ \cup {"list", "whisper"}
  PROVE  client_box' # NoBox
<1>1. ASSUME Recv PROVE client_box' # NoBox
  <2>1. fds \in Nat /\ fds < OPEN_MAX
    BY <1>1, ServerAssumption DEF Recv, Known, RoomTypes, ServerTypes
  <2>2. client_box' = ObjectOf(msg'.id)
    BY <1>1, <2>1 DEF Recv
  <2>3. Len(box) \in Nat
    BY Anchor DEF Known
  <2> QED
    BY <2>2, <2>3 DEF ObjectOf, NoBox
<1>2. CASE spc' \in Request_
  BY <1>1, <1>2, RequestTaken DEF Usable
<1>3. CASE spc' = "list"
  BY <1>3, Answering DEF HandleList, ListOne, Usable, Request_
<1>4. CASE spc' = "whisper"
  BY <1>4, Answering DEF HandleWhisper, Usable, Request_
<1> QED
  BY <1>2, <1>3, <1>4

(* Every step of the first session leaves the boxes usable.                *)
LEMMA UsableNext ==
  ASSUME EveryoneNamed, Known, RoomTypes', Names, Stays, Private, Usable, Next, ~ServerStart, fds' < OPEN_MAX
  PROVE  Usable'
<1>1. spc' \in Request_ \cup {"list", "whisper"} => client_box' # NoBox
  BY UsableBox
<1>2. ASSUME NEW i \in 1 .. MAX_CLIENT
      PROVE  room'[i].session_owner = NoName \/ room'[i].client_box # NoBox
  <2>1. HandleJoin => client_box # NoBox
    BY DEF HandleJoin, Usable, Request_
  <2>2. ~HandleQuit
    BY DEF HandleQuit, Stays
  <2> QED
    BY <2>1, <2>2, RoomStays, RoomEffect DEF Usable
<1>3. ASSUME spc' = "whisper" PROVE receiver_box' # NoBox
  <2>1. CASE HandleWhisper
    <3>1. PICK i \in 1 .. MAX_CLIENT : /\ room[i].session_owner = msg.name
                                      /\ receiver_box' = room[i].client_box
      BY <2>1, ReceiverFound
    <3>2. Entered(msg.name)
      BY <2>1 DEF HandleWhisper, Private
    <3>3. msg.name # NoName
      BY <3>2 DEF Entered, EveryoneNamed
    <3> QED
      BY <3>1, <3>3 DEF Usable
  <2> QED
    BY <1>3, <2>1, Answering DEF Usable
<1>4. spc' # "fault"
  <2>1. ~ServerFault
    BY DEF ServerFault, Usable
  <2>2. CASE Recv
    BY <2>2, RecvEffect DEF Asks, Request_
  <2> QED
    BY <2>1, <2>2, Steps DEF Usable, serverVars, Looks, ServerSigint, ServerKill, ServerStop, HandleOther,
       CastDone, ListDone, HandleList, HandleBroadcast, Announce, Cast, ListOne, WhisperSend,
       HandleWhisper, HandleJoin, HandleQuit, ServerStart
<1> QED
  BY <1>1, <1>2, <1>3, <1>4 DEF Usable

(* Descriptors are never given back before the server ends.                *)
LEMMA LastingNext ==
  ASSUME EveryoneNamed, Known, RoomTypes', Names, Stays, FirstSession, Lasting, [Next]_vars
  PROVE  Lasting'
<1>1. CASE UNCHANGED vars
  <2>1. UNCHANGED serverVars
    BY <1>1 DEF vars
  <2> QED
    BY <2>1 DEF Lasting, Usable, serverVars
<1>2. CASE Next /\ ServerStart
  <2>1. spc' = "recv" /\ \A i \in 1 .. MAX_CLIENT : room'[i].session_owner = NoName
    BY <1>2, RoomEffect DEF Rooming, ServerStart, HandleJoin, HandleQuit
  <2> QED
    BY <2>1 DEF Lasting, Usable, Request_
<1>3. CASE Next /\ ~ServerStart
  <2>1. starts' = starts /\ fds' \in {fds, fds + 1}
    BY <1>3, Steps DEF serverVars, Looks, ServerSigint, ServerKill, ServerStop, HandleOther, CastDone,
       ListDone, ServerFault, HandleList, HandleBroadcast, Cast, ListOne, WhisperSend, HandleWhisper,
       Recv, HandleJoin, HandleQuit
  <2>2. fds \in Nat /\ OPEN_MAX \in Nat
    BY ServerAssumption DEF Known, RoomTypes, ServerTypes
  <2> SUFFICES ASSUME starts' <= 1, fds' < OPEN_MAX PROVE Usable'
    BY DEF Lasting
  <2>3. starts <= 1 /\ fds < OPEN_MAX
    BY <2>1, <2>2
  <2> QED
    BY <1>3, <2>3, UsableNext DEF Lasting, FirstSession
<1> QED
  BY <1>1, <1>2, <1>3

(* The server never reads through a NULL box in its first session, as long *)
(* as it has descriptors, of which it uses one for each message and gives  *)
(* none back: for users that have a name and an id of their own, whisper   *)
(* only to names they were shown and do not quit.                          *)
THEOREM RoomNeverFaults ==
  ASSUME DistinctIds, Careful, NobodyQuits, EveryoneNamed
  PROVE  Spec => [](starts <= 1 /\ fds < OPEN_MAX => NeverFaults)
<1>1. Init => Lasting
  <2> SUFFICES ASSUME Init PROVE Usable
    BY DEF Lasting
  <2>1. spc = "off" /\ room = EmptyRoom
    BY DEF Init, ServerInit
  <2>2. \A i \in 1 .. MAX_CLIENT : i \in Ids /\ i # SERVER_ID
    BY MemoryAssumption DEF Ids, SERVER_ID
  <2> QED
    BY <2>1, <2>2 DEF Usable, EmptyRoom, Request_
<1>2. Session1 /\ Session1' /\ Lasting /\ [Next]_vars => Lasting'
  BY LastingNext DEF Session1, Known
<1>3. Lasting => (starts <= 1 /\ fds < OPEN_MAX => NeverFaults)
  BY DEF Lasting, Usable, NeverFaults
<1> QED
  BY <1>1, <1>2, <1>3, FirstSessionHolds, PTL DEF Spec
=============================================================================
