--------------------------- MODULE ChatTypeProofs ---------------------------
(***************************************************************************)
(* The types of the chat room: for any number of clients, ids used twice,  *)
(* box and room sizes, kills and restarts of the server.                   *)
(***************************************************************************)
EXTENDS ChatRoom, WellFoundedInduction, TLAPS

UserName == Targets \cup {NameOf[p] : p \in Procs}
AnyName  == UserName \cup {"SERVER", NoName}
Request_ == {"JOIN", "QUIT", "WHISPER", "LIST", "BROADCAST"}

Content ==
    {<<>>} \cup ({"joined", "left", "inside"} \X AnyName)
    \cup ({"said"} \X Procs \X Nat) \cup ({"whispered"} \X Procs \X Nat \X AnyName)
Msg == [type : Request_ \cup {"SERVER"}, id : Ids, name : AnyName, text : Content, seq : Nat]
Boxes == Seq(Seq(Msg))

(* The loop over the room looks at the first member left.                  *)
LEMMA FirstOf ==
  ASSUME NEW S, S \subseteq Nat, S # {}
  PROVE  Min(S) \in S /\ \A y \in S : Min(S) <= y
<1> DEFINE less == {ss \in Nat \X Nat : ss[1] < ss[2]}
<1>1. IsWellFoundedOn(less, Nat)
  BY NatLessThanWellFounded DEF OpToRel
<1>2. PICK x \in S : \A y \in S : ~(<<y, x>> \in less)
  <2> HIDE DEF less
  <2> QED BY <1>1, WFMin
<1>3. ASSUME NEW y \in S PROVE x <= y
  <2>1. <<y, x>> \in Nat \X Nat /\ ~(<<y, x>> \in less)
    BY <1>2
  <2>2. ~(y < x)
    BY <2>1
  <2> QED
    BY <2>1, <2>2
<1> QED
  BY <1>3 DEF Min

(* The oldest message leaves a box and the rest keep their order.          *)
LEMMA Taking ==
  ASSUME NEW S, NEW q \in Seq(S), q # <<>>
  PROVE  /\ Len(q) \in Nat \ {0} /\ Taken(q) = q[1] /\ Taken(q) \in S
         /\ Remaining(q) \in Seq(S) /\ Len(Remaining(q)) = Len(q) - 1
         /\ \A i \in 1 .. Len(q) - 1 : Remaining(q)[i] = q[i + 1]
<1>1. Len(q) \in Nat \ {0}
  OBVIOUS
<1>2. Remaining(q) = SubSeq(q, 1, 0) \o SubSeq(q, 2, Len(q))
  BY DEF Remaining, Oldest, RemoveAt
<1>3. SubSeq(q, 1, 0) = <<>>
  OBVIOUS
<1>4. SubSeq(q, 2, Len(q)) \in Seq(S) /\ Len(SubSeq(q, 2, Len(q))) = Len(q) - 1
      /\ \A i \in 1 .. Len(q) - 1 : SubSeq(q, 2, Len(q))[i] = q[i + 1]
  BY <1>1
<1>5. Remaining(q) = SubSeq(q, 2, Len(q))
  BY <1>2, <1>3, <1>4
<1> QED
  BY <1>1, <1>4, <1>5 DEF Taken, Oldest

(* A message is appended to a box, or dropped when the box is full.        *)
LEMMA Putting ==
  ASSUME NEW boxes \in Boxes, NEW b \in 1 .. Len(boxes), NEW m \in Msg
  PROVE  /\ Put(boxes, b, m) \in Boxes /\ Len(Put(boxes, b, m)) = Len(boxes)
         /\ \A c \in 1 .. Len(boxes) : c # b => Put(boxes, b, m)[c] = boxes[c]
         /\ Put(boxes, b, m)[b] = IF Len(boxes[b]) < Capacity THEN Append(boxes[b], m) ELSE boxes[b]
<1> HIDE DEF Msg
<1>1. boxes[b] \in Seq(Msg) /\ Append(boxes[b], m) \in Seq(Msg)
  BY DEF Boxes
<1> DEFINE new == IF Len(boxes[b]) < Capacity THEN Append(boxes[b], m) ELSE boxes[b]
<1>2. new \in Seq(Msg) /\ Put(boxes, b, m) = [boxes EXCEPT ![b] = new]
  BY <1>1 DEF Put, Boxes
<1> HIDE DEF new
<1>3. [boxes EXCEPT ![b] = new] \in Boxes /\ Len([boxes EXCEPT ![b] = new]) = Len(boxes)
  BY <1>2 DEF Boxes
<1>4. /\ [boxes EXCEPT ![b] = new][b] = new
      /\ \A c \in 1 .. Len(boxes) : c # b => [boxes EXCEPT ![b] = new][c] = boxes[c]
  BY DEF Boxes
<1> QED
  BY <1>2, <1>3, <1>4 DEF new

(* messagebox_open finds the object or makes one that is empty.            *)
LEMMA Opening ==
  ASSUME box \in Boxes, shm \in [Ids -> 0 .. Len(box)], NEW id \in Ids
  PROVE  /\ WithObject(id) \in Boxes /\ Len(box) <= Len(WithObject(id))
         /\ ObjectOf(id) \in 1 .. Len(WithObject(id))
         /\ \A c \in 1 .. Len(box) : WithObject(id)[c] = box[c]
         /\ \A c \in 1 .. Len(WithObject(id)) :
               c \in 1 .. Len(box) \/ (c = Len(box) + 1 /\ WithObject(id)[c] = <<>>)
         /\ IF shm[id] = NoBox THEN ObjectOf(id) = Len(box) + 1 ELSE ObjectOf(id) = shm[id]
<1> HIDE DEF Msg
<1>1. Len(box) \in Nat /\ shm[id] \in 0 .. Len(box)
  BY DEF Boxes
<1>2. CASE shm[id] = NoBox
  <2>1. ObjectOf(id) = Len(box) + 1 /\ WithObject(id) = Append(box, <<>>)
    BY <1>1, <1>2 DEF ObjectOf, WithObject
  <2>2. <<>> \in Seq(Msg)
    OBVIOUS
  <2> QED
    BY <1>1, <1>2, <2>1, <2>2 DEF Boxes
<1>3. CASE shm[id] # NoBox
  <2>1. ObjectOf(id) = shm[id] /\ WithObject(id) = box
    BY <1>1, <1>3 DEF ObjectOf, WithObject
  <2> QED
    BY <1>1, <1>3, <2>1 DEF NoBox
<1> QED
  BY <1>2, <1>3

(* A box that is emptied is a box.                                         *)
LEMMA Emptying ==
  ASSUME NEW boxes \in Boxes, NEW b \in 1 .. Len(boxes)
  PROVE  /\ Emptied(boxes, b) \in Boxes /\ Len(Emptied(boxes, b)) = Len(boxes)
         /\ Emptied(boxes, b)[b] = <<>>
         /\ \A c \in 1 .. Len(boxes) : c # b => Emptied(boxes, b)[c] = boxes[c]
<1> HIDE DEF Msg
<1>1. <<>> \in Seq(Msg)
  OBVIOUS
<1> QED
  BY <1>1 DEF Boxes, Emptied

(* One box replaced by another leaves the number of boxes.                 *)
LEMMA Replacing ==
  ASSUME NEW boxes \in Boxes, NEW b \in 1 .. Len(boxes), NEW q \in Seq(Msg)
  PROVE  /\ [boxes EXCEPT ![b] = q] \in Boxes /\ Len([boxes EXCEPT ![b] = q]) = Len(boxes)
         /\ [boxes EXCEPT ![b] = q][b] = q
         /\ \A c \in 1 .. Len(boxes) : c # b => [boxes EXCEPT ![b] = q][c] = boxes[c]
<1> HIDE DEF Msg
<1> QED
  BY DEF Boxes
-----------------------------------------------------------------------------
\* What is known of the memory, of the server and of the clients
Bounded(boxes) == \A b \in 1 .. Len(boxes) : Len(boxes[b]) <= Capacity

MemoryTypes ==
    /\ box \in Boxes /\ Bounded(box)
    /\ shm \in [Ids -> 0 .. Len(box)]

Rooms(n) == [Ids -> [session_owner : AnyName, client_box : 0 .. n]]

ServerTypes ==
    /\ spc \in {"off", "recv", "cast", "list", "whisper", "fault", "SERVER"} \cup Request_
    /\ runflag \in BOOLEAN
    /\ server_box \in 0 .. Len(box) /\ client_box \in 0 .. Len(box)
    /\ receiver_box \in 0 .. Len(box)
    /\ spc \notin {"off", "fault"} => server_box # NoBox
    /\ msg \in Msg /\ cursor \in 1 .. MAX_CLIENT + 1
    /\ room \in Rooms(Len(box))
    /\ fds \in 0 .. OPEN_MAX /\ starts \in 0 .. MaxStarts
    /\ log \in Seq(Content)

ClientStates == {"start", "joined", "typing", "name", "whisper", "done", "killed",
                 "QUIT", "WHISPER", "LIST", "BROADCAST"}

ClientTypes ==
    /\ cpc \in [Procs -> ClientStates]
    /\ rpc \in [Procs -> {"off", "run", "done"}] /\ crun \in [Procs -> BOOLEAN]
    /\ sbox \in [Procs -> 0 .. Len(box)] /\ mine \in [Procs -> 0 .. Len(box)]
    /\ \A p \in Procs : cpc[p] # "start" => sbox[p] # NoBox
    /\ \A p \in Procs : rpc[p] = "run" => mine[p] # NoBox
    /\ sname \in [Procs -> UserName]
    /\ typed \in [Procs -> Nat] /\ \A p \in Procs : typed[p] <= MaxInputs[p]
    /\ got \in [Procs -> Seq(Msg)] /\ seen \in [Procs -> Seq(Nat \X Content)]

RoomTypes == MemoryTypes /\ ServerTypes /\ ClientTypes

\* A step that only makes room for more objects
Grows == Len(box) <= Len(box')

(* More objects keep the types of all that points at objects.              *)
LEMMA Growing ==
  ASSUME RoomTypes, box' \in Boxes, Grows
  PROVE  /\ Len(box) \in Nat /\ Len(box') \in Nat
         /\ \A b : b \in 0 .. Len(box) => b \in 0 .. Len(box')
         /\ room \in Rooms(Len(box'))
         /\ UNCHANGED serverVars => ServerTypes'
         /\ UNCHANGED clientVars => ClientTypes'
<1> HIDE DEF Msg, AnyName, UserName
<1>1. Len(box) \in Nat /\ Len(box') \in Nat
  BY DEF RoomTypes, MemoryTypes, Boxes
<1>2. \A b : b \in 0 .. Len(box) => b \in 0 .. Len(box')
  BY <1>1 DEF Grows
<1>3. room \in Rooms(Len(box'))
  BY <1>2 DEF RoomTypes, ServerTypes, Rooms
<1> HIDE DEF Rooms
<1>4. ASSUME UNCHANGED serverVars PROVE ServerTypes'
  BY <1>2, <1>3, <1>4 DEF RoomTypes, ServerTypes, serverVars
<1>5. ASSUME UNCHANGED clientVars PROVE ClientTypes'
  BY <1>2, <1>5 DEF RoomTypes, ClientTypes, clientVars, screen
<1> QED
  BY <1>1, <1>2, <1>3, <1>4, <1>5
-----------------------------------------------------------------------------
(* The messages the server makes of the one it handles                     *)
LEMMA Editing ==
  ASSUME NEW m \in Msg
  PROVE  /\ m.id \in Ids /\ m.name \in AnyName /\ m.text \in Content /\ m.seq \in Nat
         /\ m.type \in Request_ \cup {"SERVER"}
         /\ \A n \in Nat : [m EXCEPT !.seq = n] \in Msg
         /\ \A n \in Nat : [m EXCEPT !.type = "SERVER", !.seq = n] \in Msg
         /\ \A t \in Content : [m EXCEPT !.text = t] \in Msg
         /\ \A t \in Content : [m EXCEPT !.type = "SERVER", !.text = t] \in Msg
         /\ \A a \in AnyName : [m EXCEPT !.name = a] \in Msg
         /\ \A a \in AnyName : {<<"joined", a>>, <<"left", a>>, <<"inside", a>>} \subseteq Content
<1>1. \A a \in AnyName : {<<"joined", a>>, <<"left", a>>, <<"inside", a>>} \subseteq Content
  BY DEF Content
<1> HIDE DEF Content, AnyName, Ids
<1>2. /\ m.id \in Ids /\ m.name \in AnyName /\ m.text \in Content /\ m.seq \in Nat
      /\ m.type \in Request_ \cup {"SERVER"}
  BY DEF Msg
<1>3. /\ \A n \in Nat : [m EXCEPT !.seq = n] \in Msg
      /\ \A n \in Nat : [m EXCEPT !.type = "SERVER", !.seq = n] \in Msg
      /\ \A t \in Content : [m EXCEPT !.text = t] \in Msg
      /\ \A t \in Content : [m EXCEPT !.type = "SERVER", !.text = t] \in Msg
      /\ \A a \in AnyName : [m EXCEPT !.name = a] \in Msg
  BY DEF Msg
<1> QED
  BY <1>1, <1>2, <1>3

(* The message the server starts with is a message.                        *)
LEMMA BlankIsMsg == Blank \in Msg
<1>1. SERVER_ID \in Ids
  BY MemoryAssumption DEF Ids, SERVER_ID
<1>2. NoName \in AnyName /\ <<>> \in Content
  BY DEF AnyName, Content
<1> QED
  BY <1>1, <1>2 DEF Blank, Msg

(* A step of the server that sends nothing and opens nothing               *)
LEMMA ServerOnlyTypes ==
  ASSUME RoomTypes, UNCHANGED <<box, clientVars>>,
         shm' \in [Ids -> 0 .. Len(box)], ServerTypes'
  PROVE  RoomTypes'
<1>1. Bounded(box)'
  BY DEF RoomTypes, MemoryTypes, Bounded
<1> QED
  BY <1>1, Growing DEF Grows, RoomTypes, MemoryTypes

(* The steps that change only the server's control keep the types.         *)
LEMMA ControlTypes ==
  ASSUME RoomTypes, UNCHANGED clientVars,
         ServerSigint \/ ServerKill \/ ServerStop \/ HandleOther \/ CastDone \/ ListDone
         \/ ServerFault
  PROVE  RoomTypes'
<1> HIDE DEF Msg, AnyName, Content
<1>1. UNCHANGED memory
  BY DEF ServerSigint, ServerKill, ServerStop, HandleOther, CastDone, ListDone, ServerFault
<1>2. ServerTypes'
  BY <1>1 DEF ServerSigint, ServerKill, ServerStop, HandleOther, CastDone, ListDone, ServerFault,
     memory, RoomTypes, ServerTypes
<1> QED
  BY <1>1, <1>2, ServerOnlyTypes DEF memory, RoomTypes, MemoryTypes

(* A LIST request keeps the types.                                         *)
LEMMA HandleListTypes ==
  ASSUME RoomTypes, UNCHANGED clientVars, HandleList
  PROVE  RoomTypes'
<1> HIDE DEF AnyName, Content, Rooms
<1>1. UNCHANGED memory /\ shm \in [Ids -> 0 .. Len(box)]
  BY DEF HandleList, RoomTypes, MemoryTypes
<1>2. msg \in Msg /\ Len(log) \in Nat
  BY DEF RoomTypes, ServerTypes
<1>3. msg' \in Msg
  BY <1>2 DEF HandleList, Msg
<1>4. cursor' \in 1 .. MAX_CLIENT + 1
  BY MemoryAssumption DEF HandleList
<1> HIDE DEF Msg
<1>5. ServerTypes'
  BY <1>1, <1>3, <1>4 DEF HandleList, memory, RoomTypes, ServerTypes
<1> QED
  BY <1>1, <1>5, ServerOnlyTypes DEF memory

(* What is left to show of a handler that announces                        *)
LEMMA AnnouncingTypes ==
  ASSUME RoomTypes, UNCHANGED <<box, clientVars>>, NEW m \in Msg, Announce(m),
         shm' \in [Ids -> 0 .. Len(box)], room' \in Rooms(Len(box)),
         spc \notin {"off", "fault"},
         UNCHANGED <<runflag, server_box, client_box, receiver_box, fds, starts>>
  PROVE  RoomTypes'
<1> HIDE DEF AnyName, Content, Rooms
<1>1. Len(log) \in Nat /\ m.text \in Content /\ log' \in Seq(Content)
  BY DEF Announce, Msg, RoomTypes, ServerTypes
<1>2. msg' \in Msg
  <2> DEFINE n == Len(log) + 1
  <2>1. n \in Nat
    BY <1>1
  <2>2. msg' = [m EXCEPT !.seq = n]
    BY DEF Announce
  <2> HIDE DEF n
  <2> QED
    BY <2>1, <2>2 DEF Msg
<1>3. cursor' \in 1 .. MAX_CLIENT + 1
  BY MemoryAssumption DEF Announce
<1> HIDE DEF Msg
<1>4. ServerTypes'
  BY <1>1, <1>2, <1>3 DEF Announce, RoomTypes, ServerTypes
<1> QED
  BY <1>4, ServerOnlyTypes

(* A JOIN keeps the types.                                                 *)
LEMMA HandleJoinTypes ==
  ASSUME RoomTypes, UNCHANGED clientVars, HandleJoin
  PROVE  RoomTypes'
<1> DEFINE m == [msg EXCEPT !.type = "SERVER", !.text = <<"joined", msg.name>>]
<1> HIDE DEF AnyName, Content
<1>1. UNCHANGED memory /\ shm \in [Ids -> 0 .. Len(box)]
  BY DEF HandleJoin, RoomTypes, MemoryTypes
<1>2. msg \in Msg /\ msg.id \in Ids /\ msg.name \in AnyName /\ client_box \in 0 .. Len(box)
  BY DEF RoomTypes, ServerTypes, Msg
<1>3. m \in Msg
  <2>1. <<"joined", msg.name>> \in Content
    BY <1>2 DEF Content
  <2> QED
    BY <1>2, <2>1 DEF Msg
<1> HIDE DEF Msg, m
<1>4. room' \in Rooms(Len(box))
  BY <1>2 DEF HandleJoin, Rooms, RoomTypes, ServerTypes
<1> HIDE DEF Rooms
<1>5. Announce(m) /\ spc \notin {"off", "fault"}
      /\ UNCHANGED <<runflag, server_box, client_box, receiver_box, fds, starts>>
  BY DEF HandleJoin, m
<1> QED
  BY <1>1, <1>3, <1>4, <1>5, AnnouncingTypes DEF memory

(* A line for all keeps the types.                                         *)
LEMMA HandleBroadcastTypes ==
  ASSUME RoomTypes, UNCHANGED clientVars, HandleBroadcast
  PROVE  RoomTypes'
<1> HIDE DEF Rooms, Msg
<1>1. UNCHANGED memory /\ shm \in [Ids -> 0 .. Len(box)]
  BY DEF HandleBroadcast, RoomTypes, MemoryTypes
<1>2. msg \in Msg /\ room' \in Rooms(Len(box))
  BY DEF HandleBroadcast, RoomTypes, ServerTypes
<1>3. Announce(msg) /\ spc \notin {"off", "fault"}
      /\ UNCHANGED <<runflag, server_box, client_box, receiver_box, fds, starts>>
  BY DEF HandleBroadcast
<1> QED
  BY <1>1, <1>2, <1>3, AnnouncingTypes DEF memory

(* A QUIT keeps the types.                                                 *)
LEMMA HandleQuitTypes ==
  ASSUME RoomTypes, UNCHANGED clientVars, HandleQuit
  PROVE  RoomTypes'
<1> DEFINE m == [msg EXCEPT !.type = "SERVER", !.text = <<"left", msg.name>>]
<1> HIDE DEF AnyName, Content
<1>1. msg \in Msg /\ msg.id \in Ids /\ msg.name \in AnyName /\ NoBox \in 0 .. Len(box)
  BY DEF RoomTypes, ServerTypes, MemoryTypes, Boxes, Msg, NoBox
<1>2. UNCHANGED box /\ shm' \in [Ids -> 0 .. Len(box)]
  BY <1>1 DEF HandleQuit, RoomTypes, MemoryTypes
<1>3. m \in Msg
  <2>1. <<"left", msg.name>> \in Content
    BY <1>1 DEF Content
  <2> QED
    BY <1>1, <2>1 DEF Msg
<1> HIDE DEF Msg, m
<1>4. room' \in Rooms(Len(box))
  BY <1>1 DEF HandleQuit, Without, Rooms, RoomTypes, ServerTypes
<1> HIDE DEF Rooms
<1>5. Announce(m) /\ spc \notin {"off", "fault"}
      /\ UNCHANGED <<runflag, server_box, client_box, receiver_box, fds, starts>>
  BY DEF HandleQuit, m
<1> QED
  BY <1>2, <1>3, <1>4, <1>5, AnnouncingTypes

(* A whisper goes to a box of the room, to the box of the last one, or     *)
(* nowhere.                                                                *)
LEMMA HandleWhisperTypes ==
  ASSUME RoomTypes, UNCHANGED clientVars, HandleWhisper
  PROVE  RoomTypes'
<1> HIDE DEF AnyName, Content
<1>1. UNCHANGED memory /\ shm \in [Ids -> 0 .. Len(box)]
  BY DEF HandleWhisper, RoomTypes, MemoryTypes
<1>2. /\ msg \in Msg /\ msg.id \in Ids /\ Len(box) \in Nat
      /\ \A i \in Ids : room[i].session_owner \in AnyName /\ room[i].client_box \in 0 .. Len(box)
  BY DEF RoomTypes, ServerTypes, MemoryTypes, Boxes, Msg, Rooms
<1>3. msg' \in Msg
  BY <1>2 DEF HandleWhisper, Signed, Msg
<1> HIDE DEF Msg
<1>4. receiver_box' \in 0 .. Len(box)
  <2>1. Named(msg.name) \subseteq Nat /\ Named(msg.name) \subseteq Ids
    BY MemoryAssumption DEF Named, Ids, SERVER_ID
  <2>2. CASE Named(msg.name) # {}
    <3>1. Min(Named(msg.name)) \in Ids
      BY <2>1, <2>2, FirstOf
    <3> QED
      BY <1>2, <2>2, <3>1 DEF HandleWhisper, Receiver
  <2>3. CASE Named(msg.name) = {}
    <3>1. receiver_box' \in {receiver_box, NoBox}
      BY <2>3 DEF HandleWhisper, Receiver
    <3> QED
      BY <1>2, <3>1 DEF NoBox, RoomTypes, ServerTypes
  <2> QED
    BY <2>2, <2>3
<1> HIDE DEF Rooms
<1>5. ServerTypes'
  BY <1>1, <1>3, <1>4 DEF HandleWhisper, memory, RoomTypes, ServerTypes
<1> QED
  BY <1>1, <1>5, ServerOnlyTypes DEF memory

(* A send to a client's box                                                *)
LEMMA SendingTypes ==
  ASSUME RoomTypes, UNCHANGED <<shm, clientVars>>,
         NEW b \in 1 .. Len(box), NEW m \in Msg, box' = Put(box, b, m)
  PROVE  MemoryTypes' /\ ClientTypes' /\ Len(box') = Len(box)
<1> HIDE DEF Msg
<1>1. box \in Boxes /\ Bounded(box) /\ Capacity \in Nat
  BY MemoryAssumption DEF RoomTypes, MemoryTypes
<1>2. /\ box' \in Boxes /\ Len(box') = Len(box)
      /\ \A c \in 1 .. Len(box) : c # b => box'[c] = box[c]
      /\ box'[b] = IF Len(box[b]) < Capacity THEN Append(box[b], m) ELSE box[b]
  BY <1>1, Putting
<1>3. Len(box'[b]) <= Capacity
  BY <1>1, <1>2 DEF Bounded, Boxes
<1>4. Bounded(box')
  BY <1>1, <1>2, <1>3 DEF Bounded
<1> QED
  BY <1>2, <1>4, Growing DEF Grows, RoomTypes, MemoryTypes, Boxes

(* The members the loops have still to look at have boxes.                 *)
LEMMA Looping ==
  ASSUME RoomTypes
  PROVE  /\ Len(box) \in Nat /\ ToList \subseteq Rest
         /\ \A i \in Rest : /\ i \in Ids /\ i \in 1 .. MAX_CLIENT /\ i + 1 \in 1 .. MAX_CLIENT + 1
                           /\ room[i].client_box \in 1 .. Len(box)
                           /\ room[i].session_owner \in AnyName
         /\ Rest # {} => Min(Rest) \in Rest
         /\ ToList # {} => Min(ToList) \in ToList
<1> HIDE DEF AnyName, Content, Msg
<1>1. /\ Len(box) \in Nat /\ cursor \in 1 .. MAX_CLIENT + 1
      /\ room \in Rooms(Len(box))
  BY DEF RoomTypes, ServerTypes, MemoryTypes, Boxes
<1>2. \A i \in Rest : i \in Ids /\ i \in 1 .. MAX_CLIENT /\ i + 1 \in 1 .. MAX_CLIENT + 1
                      /\ room[i].client_box # NoBox
  BY <1>1, MemoryAssumption DEF Rest, Ids, SERVER_ID
<1>3. \A i \in Ids : /\ room[i].client_box \in 0 .. Len(box)
                     /\ room[i].session_owner \in AnyName
  BY <1>1 DEF Rooms
<1>4. \A i \in Rest : room[i].client_box \in 1 .. Len(box)
  BY <1>1, <1>2, <1>3 DEF NoBox
<1>5. Rest \subseteq Nat /\ ToList \subseteq Rest
  BY <1>2 DEF ToList
<1>6. Rest # {} => Min(Rest) \in Rest
  BY <1>5, FirstOf
<1>7. ToList # {} => Min(ToList) \in ToList
  <2>1. ToList \subseteq Nat
    BY <1>5
  <2> QED
    BY <2>1, FirstOf
<1> QED
  BY <1>1, <1>2, <1>3, <1>4, <1>5, <1>6, <1>7

(* One send of client_boardcast keeps the types.                           *)
LEMMA CastTypes ==
  ASSUME RoomTypes, UNCHANGED clientVars, Cast
  PROVE  RoomTypes'
<1> HIDE DEF AnyName, Content, Msg, Rooms
<1> DEFINE i == Min(Rest)
<1>1. i \in Rest
  BY Looping DEF Cast
<1>2. room[i].client_box \in 1 .. Len(box) /\ i + 1 \in 1 .. MAX_CLIENT + 1
  BY <1>1, Looping
<1>3. box' = Put(box, room[i].client_box, msg) /\ msg \in Msg
  BY DEF Cast, RoomTypes, ServerTypes
<1>4. cursor' \in 1 .. MAX_CLIENT + 1
  BY <1>2 DEF Cast, After
<1> HIDE DEF i
<1>5. MemoryTypes' /\ ClientTypes' /\ Len(box') = Len(box)
  BY <1>2, <1>3, SendingTypes DEF Cast
<1> QED
  BY <1>4, <1>5 DEF Cast, RoomTypes, ServerTypes

(* One send of the answer to LIST keeps the types.                         *)
LEMMA ListOneTypes ==
  ASSUME RoomTypes, UNCHANGED clientVars, ListOne
  PROVE  RoomTypes'
<1> HIDE DEF AnyName, Content, Rooms
<1> DEFINE i == Min(ToList)
<1>1. i \in Rest
  BY Looping DEF ListOne
<1>2. room[i].session_owner \in AnyName /\ i + 1 \in 1 .. MAX_CLIENT + 1
  BY <1>1, Looping
<1>3. client_box \in 1 .. Len(box)
  BY Looping DEF ListOne, NoBox, RoomTypes, ServerTypes
<1>4. cursor' \in 1 .. MAX_CLIENT + 1
  BY <1>2 DEF ListOne, After
<1>5. msg' \in Msg
  <2>1. <<"inside", room[i].session_owner>> \in Content
    BY <1>2 DEF Content
  <2>2. PICK t \in Content : msg' = [msg EXCEPT !.text = t]
    BY <2>1 DEF ListOne
  <2>3. msg \in Msg
    BY DEF RoomTypes, ServerTypes
  <2> QED
    BY <2>2, <2>3 DEF Msg
<1> HIDE DEF i, Msg
<1>6. MemoryTypes' /\ ClientTypes' /\ Len(box') = Len(box)
  BY <1>3, <1>5, SendingTypes DEF ListOne
<1> QED
  BY <1>4, <1>5, <1>6 DEF ListOne, RoomTypes, ServerTypes

(* The send of a whisper keeps the types.                                  *)
LEMMA WhisperSendTypes ==
  ASSUME RoomTypes, UNCHANGED clientVars, WhisperSend
  PROVE  RoomTypes'
<1> HIDE DEF AnyName, Content, Msg, Rooms
<1>1. receiver_box \in 1 .. Len(box) /\ msg \in Msg
  BY Looping DEF WhisperSend, NoBox, RoomTypes, ServerTypes
<1>2. MemoryTypes' /\ ClientTypes' /\ Len(box') = Len(box)
  BY <1>1, SendingTypes DEF WhisperSend
<1> QED
  BY <1>2 DEF WhisperSend, RoomTypes, ServerTypes

(* The name of an id opened: the name table and the boxes that result      *)
LEMMA BindTypes ==
  ASSUME RoomTypes, NEW id \in Ids, Bind(id)
  PROVE  /\ WithObject(id) \in Boxes /\ Len(box) \in Nat /\ Len(box) <= Len(WithObject(id))
         /\ Bounded(WithObject(id)) /\ ObjectOf(id) \in 1 .. Len(WithObject(id))
         /\ shm' \in [Ids -> 0 .. Len(WithObject(id))]
<1> HIDE DEF Msg
<1>1. /\ box \in Boxes /\ Bounded(box) /\ shm \in [Ids -> 0 .. Len(box)] /\ Capacity \in Nat
      /\ Len(box) \in Nat
  BY MemoryAssumption DEF RoomTypes, MemoryTypes, Boxes
<1>2. /\ WithObject(id) \in Boxes /\ Len(box) <= Len(WithObject(id))
      /\ ObjectOf(id) \in 1 .. Len(WithObject(id))
      /\ \A c \in 1 .. Len(box) : WithObject(id)[c] = box[c]
      /\ \A c \in 1 .. Len(WithObject(id)) :
            c \in 1 .. Len(box) \/ (c = Len(box) + 1 /\ WithObject(id)[c] = <<>>)
  BY <1>1, Opening
<1>3. Bounded(WithObject(id))
  <2>1. Len(<<>>) = 0
    OBVIOUS
  <2> QED
    BY <1>1, <1>2, <2>1 DEF Bounded
<1>4. Len(WithObject(id)) \in Nat
  BY <1>2 DEF Boxes
<1>5. \A b \in 0 .. Len(box) : b \in 0 .. Len(WithObject(id))
  BY <1>1, <1>2, <1>4
<1>6. shm' \in [Ids -> 0 .. Len(WithObject(id))]
  BY <1>1, <1>2, <1>4, <1>5 DEF Bind
<1> QED
  BY <1>1, <1>2, <1>3, <1>6

(* Emptying a box or taking a message keeps the boxes bounded.             *)
LEMMA BoundKept ==
  ASSUME NEW boxes \in Boxes, Bounded(boxes), NEW b \in 1 .. Len(boxes)
  PROVE  /\ Bounded(Emptied(boxes, b))
         /\ boxes[b] # <<>> => /\ Taken(boxes[b]) \in Msg
                               /\ [boxes EXCEPT ![b] = Remaining(@)] \in Boxes
                               /\ Len([boxes EXCEPT ![b] = Remaining(@)]) = Len(boxes)
                               /\ Bounded([boxes EXCEPT ![b] = Remaining(@)])
<1> HIDE DEF Msg
<1>1. Capacity \in Nat /\ Len(<<>>) = 0 /\ boxes[b] \in Seq(Msg)
  BY MemoryAssumption DEF Boxes
<1>2. Bounded(Emptied(boxes, b))
  BY <1>1, Emptying DEF Bounded
<1>3. ASSUME boxes[b] # <<>>
      PROVE  /\ Taken(boxes[b]) \in Msg
             /\ [boxes EXCEPT ![b] = Remaining(@)] \in Boxes
             /\ Len([boxes EXCEPT ![b] = Remaining(@)]) = Len(boxes)
             /\ Bounded([boxes EXCEPT ![b] = Remaining(@)])
  <2> DEFINE q == Remaining(boxes[b])
             new == [boxes EXCEPT ![b] = q]
  <2>1. /\ Taken(boxes[b]) \in Msg /\ q \in Seq(Msg)
        /\ Len(boxes[b]) \in Nat /\ Len(q) = Len(boxes[b]) - 1
    BY <1>1, <1>3, Taking
  <2>2. Len(q) <= Capacity
    BY <1>1, <2>1 DEF Bounded
  <2> HIDE DEF q
  <2>3. /\ new \in Boxes /\ Len(new) = Len(boxes) /\ new[b] = q
        /\ \A c \in 1 .. Len(boxes) : c # b => new[c] = boxes[c]
    BY <2>1, Replacing
  <2>4. Bounded(new)
    BY <2>2, <2>3 DEF Bounded
  <2>5. [boxes EXCEPT ![b] = Remaining(@)] = new
    BY DEF q
  <2> HIDE DEF new
  <2> QED
    BY <2>1, <2>3, <2>4, <2>5
<1> QED
  BY <1>2, <1>3

(* A start of the server keeps the types.                                  *)
LEMMA StartTypes ==
  ASSUME RoomTypes, UNCHANGED clientVars, ServerStart
  PROVE  RoomTypes'
<1> HIDE DEF AnyName, Content, Msg, Rooms
<1>1. SERVER_ID \in Ids
  BY MemoryAssumption DEF Ids, SERVER_ID
<1> DEFINE w == WithObject(SERVER_ID)
           b == ObjectOf(SERVER_ID)
<1>2. /\ w \in Boxes /\ Len(box) \in Nat /\ Len(box) <= Len(w) /\ Bounded(w)
      /\ b \in 1 .. Len(w) /\ shm' \in [Ids -> 0 .. Len(w)]
  BY <1>1, BindTypes DEF ServerStart
<1>3. box' = Emptied(w, b) /\ server_box' = b
  BY DEF ServerStart
<1> HIDE DEF w, b
<1>4. box' \in Boxes /\ Len(box') = Len(w) /\ Bounded(box')
  BY <1>2, <1>3, Emptying, BoundKept
<1>5. EmptyRoom \in Rooms(Len(box')) /\ Len(box') \in Nat
  BY <1>4 DEF EmptyRoom, Rooms, AnyName, NoBox, Boxes
<1>6. server_box' \in 1 .. Len(box') /\ NoBox \in 0 .. Len(box')
  BY <1>2, <1>3, <1>4, <1>5 DEF NoBox
<1>7. starts' \in 0 .. MaxStarts /\ fds' \in 0 .. OPEN_MAX /\ cursor' \in 1 .. MAX_CLIENT + 1
  BY MemoryAssumption, ServerAssumption DEF ServerStart, RoomTypes, ServerTypes
<1>8. ServerTypes'
  BY <1>5, <1>6, <1>7, BlankIsMsg DEF ServerStart, RoomTypes, ServerTypes, NoBox
<1>9. MemoryTypes'
  BY <1>2, <1>4 DEF MemoryTypes
<1> QED
  BY <1>2, <1>4, <1>8, <1>9, Growing DEF Grows, RoomTypes

(* A request taken from the server's box keeps the types.                  *)
LEMMA RecvTypes ==
  ASSUME RoomTypes, UNCHANGED clientVars, Recv
  PROVE  RoomTypes'
<1> HIDE DEF AnyName, Content, Rooms
<1> DEFINE b == server_box
           m == Taken(box[b])
           w == WithObject(m.id)
<1>1. /\ box \in Boxes /\ Bounded(box) /\ Len(box) \in Nat /\ b \in 1 .. Len(box)
      /\ box[b] # <<>> /\ shm \in [Ids -> 0 .. Len(box)]
  BY DEF Recv, RoomTypes, ServerTypes, MemoryTypes, NoBox, Boxes
<1>2. m \in Msg
  BY <1>1, BoundKept
<1>3. m.id \in Ids /\ m.type \in Request_ \cup {"SERVER"}
  BY <1>2 DEF Msg
<1> HIDE DEF Msg
<1>4. msg' = m /\ spc' = m.type
  BY DEF Recv
<1>5. MemoryTypes' /\ Len(box) <= Len(box') /\ client_box' \in 0 .. Len(box')
      /\ fds' \in 0 .. OPEN_MAX
  <2>1. CASE fds < OPEN_MAX
    <3>1. Bind(m.id) /\ client_box' = ObjectOf(m.id) /\ fds' = fds + 1
          /\ box' = [w EXCEPT ![b] = Remaining(@)]
      BY <2>1, <1>4 DEF Recv
    <3>2. /\ w \in Boxes /\ Len(box) <= Len(w) /\ Bounded(w)
          /\ ObjectOf(m.id) \in 1 .. Len(w) /\ shm' \in [Ids -> 0 .. Len(w)]
      BY <1>3, <3>1, BindTypes
    <3>3. w[b] = box[b] /\ b \in 1 .. Len(w) /\ Len(w) \in Nat
      <4>1. Len(w) \in Nat
        BY <3>2 DEF Boxes
      <4> QED
        BY <1>1, <1>3, <3>2, <4>1, Opening
    <3> HIDE DEF w
    <3>4. box' \in Boxes /\ Len(box') = Len(w) /\ Bounded(box')
      BY <1>1, <3>1, <3>2, <3>3, BoundKept
    <3>5. fds' \in 0 .. OPEN_MAX
      BY <2>1, <3>1, ServerAssumption DEF RoomTypes, ServerTypes
    <3> QED
      BY <1>1, <3>1, <3>2, <3>3, <3>4, <3>5 DEF MemoryTypes
  <2>2. CASE ~(fds < OPEN_MAX)
    <3>1. client_box' = NoBox /\ box' = [box EXCEPT ![b] = Remaining(@)] /\ UNCHANGED <<shm, fds>>
      BY <2>2 DEF Recv
    <3>2. box' \in Boxes /\ Len(box') = Len(box) /\ Bounded(box')
      BY <1>1, <3>1, BoundKept
    <3> QED
      BY <1>1, <3>1, <3>2 DEF MemoryTypes, RoomTypes, ServerTypes, NoBox
  <2> QED
    BY <2>1, <2>2
<1>6. room \in Rooms(Len(box')) /\ \A c : c \in 0 .. Len(box) => c \in 0 .. Len(box')
  BY <1>5, Growing DEF Grows, MemoryTypes
<1> HIDE DEF m
<1>7. ServerTypes'
  BY <1>2, <1>3, <1>4, <1>5, <1>6 DEF Recv, RoomTypes, ServerTypes
<1>8. ClientTypes'
  BY <1>5, Growing DEF Grows, MemoryTypes
<1> QED
  BY <1>5, <1>7, <1>8 DEF RoomTypes
-----------------------------------------------------------------------------
(* What the clients do.  The server's variables stay as they are.          *)
LEMMA RequestIsMsg ==
  ASSUME RoomTypes, NEW p \in Procs, NEW type \in Request_, NEW text \in Content
  PROVE  Request(p, type, text) \in Msg
<1> HIDE DEF Content
<1>1. IdOf[p] \in Ids /\ sname[p] \in AnyName
  BY ClientAssumption DEF RoomTypes, ClientTypes, AnyName
<1> QED
  BY <1>1 DEF Request, Msg

(* A client that joins keeps the types.                                    *)
LEMMA JoinTypes ==
  ASSUME RoomTypes, UNCHANGED serverVars, NEW p \in Procs, Join(p)
  PROVE  RoomTypes'
<1> HIDE DEF AnyName, Content, Msg, Rooms, UserName
<1> DEFINE w == WithObject(SERVER_ID)
           b == ObjectOf(SERVER_ID)
           m == Request(p, "JOIN", <<>>)
<1>1. SERVER_ID \in Ids /\ Capacity \in Nat
  BY MemoryAssumption DEF Ids, SERVER_ID
<1>2. /\ w \in Boxes /\ Len(box) \in Nat /\ Len(box) <= Len(w) /\ Bounded(w)
      /\ b \in 1 .. Len(w) /\ shm' \in [Ids -> 0 .. Len(w)]
  BY <1>1, BindTypes DEF Join
<1>3. m \in Msg
  <2>1. <<>> \in Content
    BY DEF Content
  <2> QED
    BY <2>1, RequestIsMsg DEF Request_
<1>4. box' = Put(w, b, m) /\ sbox' = [sbox EXCEPT ![p] = b]
  BY DEF Join
<1> HIDE DEF w, b, m
<1>5. /\ box' \in Boxes /\ Len(box') = Len(w)
      /\ \A c \in 1 .. Len(w) : c # b => box'[c] = w[c]
      /\ box'[b] = IF Len(w[b]) < Capacity THEN Append(w[b], m) ELSE w[b]
  BY <1>2, <1>3, <1>4, Putting
<1>6. Bounded(box')
  <2>1. w[b] \in Seq(Msg)
    BY <1>2 DEF Boxes
  <2>2. Len(box'[b]) <= Capacity
    BY <1>1, <1>2, <1>5, <2>1 DEF Bounded
  <2> QED
    BY <1>2, <1>5, <2>2 DEF Bounded
<1>7. MemoryTypes' /\ Grows
  BY <1>2, <1>5, <1>6 DEF MemoryTypes, Grows
<1>8. ServerTypes' /\ \A c : c \in 0 .. Len(box) => c \in 0 .. Len(box')
  BY <1>7, Growing DEF MemoryTypes
<1>9. ClientTypes'
  <2>1. b \in 0 .. Len(box') /\ b # NoBox
    BY <1>2, <1>5 DEF NoBox
  <2>2. sbox' \in [Procs -> 0 .. Len(box')] /\ mine' \in [Procs -> 0 .. Len(box')]
    BY <1>4, <1>8, <2>1 DEF Join, RoomTypes, ClientTypes
  <2>3. \A q \in Procs : cpc'[q] # "start" => sbox'[q] # NoBox
    BY <1>4, <2>1 DEF Join, RoomTypes, ClientTypes
  <2> QED
    BY <2>2, <2>3 DEF Join, ClientStates, screen, RoomTypes, ClientTypes
<1> QED
  BY <1>7, <1>8, <1>9 DEF RoomTypes

(* A client that opens its own box keeps the types.                        *)
LEMMA OpenOwnTypes ==
  ASSUME RoomTypes, UNCHANGED serverVars, NEW p \in Procs, OpenOwn(p)
  PROVE  RoomTypes'
<1> HIDE DEF AnyName, Content, Msg, Rooms, UserName
<1> DEFINE w == WithObject(IdOf[p])
           b == ObjectOf(IdOf[p])
<1>1. IdOf[p] \in Ids
  BY ClientAssumption
<1>2. /\ w \in Boxes /\ Len(box) \in Nat /\ Len(box) <= Len(w) /\ Bounded(w)
      /\ b \in 1 .. Len(w) /\ shm' \in [Ids -> 0 .. Len(w)]
  BY <1>1, BindTypes DEF OpenOwn
<1>3. box' = Emptied(w, b) /\ mine' = [mine EXCEPT ![p] = b]
  BY DEF OpenOwn
<1> HIDE DEF w, b
<1>4. box' \in Boxes /\ Len(box') = Len(w) /\ Bounded(box')
  BY <1>2, <1>3, Emptying, BoundKept
<1>5. MemoryTypes' /\ Grows
  BY <1>2, <1>4 DEF MemoryTypes, Grows
<1>6. ServerTypes' /\ \A c : c \in 0 .. Len(box) => c \in 0 .. Len(box')
  BY <1>5, Growing DEF MemoryTypes
<1>7. ClientTypes'
  <2>1. b \in 0 .. Len(box') /\ b # NoBox
    BY <1>2, <1>4 DEF NoBox
  <2>2. sbox' \in [Procs -> 0 .. Len(box')] /\ mine' \in [Procs -> 0 .. Len(box')]
    BY <1>3, <1>6, <2>1 DEF OpenOwn, RoomTypes, ClientTypes
  <2>3. \A q \in Procs : rpc'[q] = "run" => mine'[q] # NoBox
    BY <1>3, <2>1 DEF OpenOwn, RoomTypes, ClientTypes
  <2> QED
    BY <2>2, <2>3 DEF OpenOwn, ClientStates, screen, RoomTypes, ClientTypes
<1> QED
  BY <1>5, <1>6, <1>7 DEF RoomTypes

(* A step of a client that touches no box                                  *)
LEMMA QuietTypes ==
  ASSUME RoomTypes, UNCHANGED <<memory, serverVars>>, ClientTypes'
  PROVE  RoomTypes'
<1> HIDE DEF AnyName, Content, Msg, Rooms, Boxes
<1>1. MemoryTypes' /\ ServerTypes'
  BY DEF RoomTypes, MemoryTypes, ServerTypes, serverVars, memory, Bounded
<1> QED
  BY <1>1 DEF RoomTypes

(* A typed command keeps the types.                                        *)
LEMMA TypeCommandTypes ==
  ASSUME RoomTypes, UNCHANGED serverVars, NEW p \in Procs, TypeCommand(p)
  PROVE  RoomTypes'
<1> HIDE DEF Content, Msg, UserName, Boxes
<1>1. UNCHANGED <<memory, rpc, crun, sbox, mine, sname, screen>>
  BY DEF TypeCommand
<1>2. MaxInputs[p] \in Nat /\ Commands[p] \subseteq {"QUIT", "WHISPER", "LIST", "BROADCAST"}
  BY ClientAssumption
<1>3. typed' \in [Procs -> Nat] /\ \A q \in Procs : typed'[q] <= MaxInputs[q]
  BY <1>2 DEF TypeCommand, Typing, RoomTypes, ClientTypes
<1>4. PICK c \in Commands[p] : cpc' = [cpc EXCEPT ![p] = c]
  BY DEF TypeCommand
<1>5. cpc' \in [Procs -> ClientStates]
  BY <1>2, <1>4 DEF ClientStates, RoomTypes, ClientTypes
<1>6. \A q \in Procs : cpc'[q] # "start" => sbox[q] # NoBox
  BY <1>4 DEF TypeCommand, Typing, RoomTypes, ClientTypes
<1>7. ClientTypes'
  BY <1>1, <1>3, <1>5, <1>6 DEF RoomTypes, ClientTypes, memory, screen
<1> QED
  BY <1>1, <1>7, QuietTypes

(* A typed name keeps the types.                                           *)
LEMMA TypeNameTypes ==
  ASSUME RoomTypes, UNCHANGED serverVars, NEW p \in Procs, TypeName(p)
  PROVE  RoomTypes'
<1> HIDE DEF Content, Msg, Boxes
<1>1. UNCHANGED <<memory, rpc, crun, sbox, mine, screen>>
  BY DEF TypeName
<1>2. MaxInputs[p] \in Nat
  BY ClientAssumption
<1>3. typed' \in [Procs -> Nat] /\ \A q \in Procs : typed'[q] <= MaxInputs[q]
  BY <1>2 DEF TypeName, Typing, RoomTypes, ClientTypes
<1>4. cpc' = [cpc EXCEPT ![p] = "whisper"] /\ cpc[p] # "start"
  BY DEF TypeName, Typing
<1>5. cpc' \in [Procs -> ClientStates]
  BY <1>4 DEF ClientStates, RoomTypes, ClientTypes
<1>6. sname' \in [Procs -> UserName]
  <2>1. PICK to \in Targets : sname' = [sname EXCEPT ![p] = to]
    BY DEF TypeName
  <2> QED
    BY <2>1 DEF UserName, RoomTypes, ClientTypes
<1>7. \A q \in Procs : cpc'[q] # "start" => sbox[q] # NoBox
  BY <1>4 DEF RoomTypes, ClientTypes
<1> HIDE DEF UserName
<1>8. ClientTypes'
  BY <1>1, <1>3, <1>5, <1>6, <1>7 DEF RoomTypes, ClientTypes, memory, screen
<1> QED
  BY <1>1, <1>8, QuietTypes

(* The end of a receiving thread keeps the types.                          *)
LEMMA ReceiveStopTypes ==
  ASSUME RoomTypes, UNCHANGED serverVars, NEW p \in Procs, ReceiveStop(p)
  PROVE  RoomTypes'
<1> HIDE DEF Content, Msg, Boxes, UserName
<1>1. UNCHANGED <<memory, cpc, crun, sbox, mine, sname, typed, screen>>
  BY DEF ReceiveStop
<1>2. rpc' = [rpc EXCEPT ![p] = "done"]
  BY DEF ReceiveStop
<1>3. ClientTypes'
  BY <1>1, <1>2 DEF RoomTypes, ClientTypes, memory, screen
<1> QED
  BY <1>1, <1>3, QuietTypes

(* Ctrl + C at a client keeps the types.                                   *)
LEMMA ClientSigintTypes ==
  ASSUME RoomTypes, UNCHANGED serverVars, NEW p \in Procs, ClientSigint(p)
  PROVE  RoomTypes'
<1> HIDE DEF Content, Msg, Boxes, UserName
<1>1. UNCHANGED <<memory, cpc, rpc, sbox, mine, sname, typed, screen>>
  BY DEF ClientSigint
<1>2. crun' = [crun EXCEPT ![p] = FALSE]
  BY DEF ClientSigint
<1>3. ClientTypes'
  BY <1>1, <1>2 DEF RoomTypes, ClientTypes, memory, screen
<1> QED
  BY <1>1, <1>3, QuietTypes

(* A kill of a client keeps the types.                                     *)
LEMMA KillTypes ==
  ASSUME RoomTypes, UNCHANGED serverVars, NEW p \in Procs, Kill(p)
  PROVE  RoomTypes'
<1> HIDE DEF Content, Msg, Boxes, UserName
<1>1. UNCHANGED <<memory, crun, sbox, mine, sname, typed, screen>>
  BY DEF Kill
<1>2. rpc' = [rpc EXCEPT ![p] = "done"] /\ cpc' = [cpc EXCEPT ![p] = "killed"] /\ cpc[p] # "start"
  BY DEF Kill
<1>3. cpc' \in [Procs -> ClientStates]
  BY <1>2 DEF ClientStates, RoomTypes, ClientTypes
<1>4. \A q \in Procs : /\ cpc'[q] # "start" => sbox[q] # NoBox
                       /\ rpc'[q] = "run" => mine[q] # NoBox
  BY <1>2 DEF RoomTypes, ClientTypes
<1>5. rpc' \in [Procs -> {"off", "run", "done"}]
  BY <1>2 DEF RoomTypes, ClientTypes
<1>6. ClientTypes'
  BY <1>1, <1>3, <1>4, <1>5 DEF RoomTypes, ClientTypes, memory, screen
<1> QED
  BY <1>1, <1>6, QuietTypes

(* A message sent: the state of the sender and of the box                  *)
LEMMA SendTypes ==
  ASSUME RoomTypes, UNCHANGED serverVars, NEW p \in Procs, NEW m \in Msg,
         cpc[p] # "start", NEW pc \in ClientStates \ {"start"}, Send(p, m, pc),
         crun' \in [Procs -> BOOLEAN]
  PROVE  RoomTypes'
<1> HIDE DEF AnyName, Content, Msg, UserName, Boxes, Rooms
<1>1. sbox[p] \in 1 .. Len(box) /\ UNCHANGED <<rpc, sbox, mine, sname, typed, screen, shm>>
  BY DEF Send, RoomTypes, MemoryTypes, ClientTypes, NoBox, Boxes
<1>2. /\ box \in Boxes /\ Bounded(box) /\ Capacity \in Nat
      /\ box' = Put(box, sbox[p], m) /\ cpc' = [cpc EXCEPT ![p] = pc]
  BY MemoryAssumption DEF Send, RoomTypes, MemoryTypes
<1>3. /\ box' \in Boxes /\ Len(box') = Len(box)
      /\ \A c \in 1 .. Len(box) : c # sbox[p] => box'[c] = box[c]
      /\ box'[sbox[p]] = IF Len(box[sbox[p]]) < Capacity
                           THEN Append(box[sbox[p]], m) ELSE box[sbox[p]]
  BY <1>1, <1>2, Putting
<1>4. Len(box'[sbox[p]]) <= Capacity
  BY <1>1, <1>2, <1>3 DEF Bounded, Boxes
<1>5. Bounded(box')
  BY <1>1, <1>2, <1>3, <1>4 DEF Bounded
<1>6. MemoryTypes' /\ Grows /\ Len(box) \in Nat
  BY <1>1, <1>2, <1>3, <1>5 DEF MemoryTypes, Grows, RoomTypes, Boxes
<1>7. ServerTypes'
  BY <1>6, Growing DEF MemoryTypes
<1>8. cpc' \in [Procs -> ClientStates] /\ \A q \in Procs : cpc'[q] # "start" => sbox[q] # NoBox
  BY <1>2 DEF RoomTypes, ClientTypes
<1>9. ClientTypes'
  BY <1>1, <1>3, <1>8 DEF RoomTypes, ClientTypes, screen
<1> QED
  BY <1>6, <1>7, <1>9 DEF RoomTypes

\* The five kinds of send
Sending(p) == SendBroadcast(p) \/ SendList(p) \/ SendWhisperList(p) \/ SendWhisper(p) \/ SendQuit(p)

(* What is sent, and the state of the sending thread after it              *)
LEMMA Sends ==
  ASSUME RoomTypes, NEW p \in Procs, Sending(p)
  PROVE  /\ cpc[p] # "start" /\ crun' \in [Procs -> BOOLEAN]
         /\ \E pc \in ClientStates \ {"start", "joined", "BROADCAST"} :
               \/ /\ cpc[p] = "BROADCAST"
                  /\ Send(p, Request(p, "BROADCAST", <<"said", p, typed[p]>>), pc)
               \/ cpc[p] \notin {"BROADCAST", "QUIT"} /\ Send(p, Request(p, "LIST", <<>>), pc)
               \/ /\ cpc[p] = "whisper"
                  /\ Send(p, Request(p, "WHISPER", <<"whispered", p, typed[p], sname[p]>>), pc)
               \/ cpc[p] = "QUIT" /\ Send(p, Request(p, "QUIT", <<>>), pc)
<1> DEFINE Ends == ClientStates \ {"start", "joined", "BROADCAST"}
<1>1. NextLine(p) \in Ends /\ "name" \in Ends /\ "done" \in Ends
  BY DEF NextLine, ClientStates
<1>2. crun' \in [Procs -> BOOLEAN] /\ cpc[p] # "start"
  BY DEF Sending, SendBroadcast, SendList, SendWhisperList, SendWhisper, SendQuit,
     RoomTypes, ClientTypes
<1> HIDE DEF Ends
<1>3. CASE SendBroadcast(p)
  BY <1>1, <1>2, <1>3 DEF SendBroadcast, Ends
<1>4. CASE SendList(p)
  BY <1>1, <1>2, <1>4 DEF SendList, Ends
<1>5. CASE SendWhisperList(p)
  BY <1>1, <1>2, <1>5 DEF SendWhisperList, Ends
<1>6. CASE SendWhisper(p)
  BY <1>1, <1>2, <1>6 DEF SendWhisper, Ends
<1>7. CASE SendQuit(p)
  BY <1>1, <1>2, <1>7 DEF SendQuit, Ends
<1> QED
  BY <1>3, <1>4, <1>5, <1>6, <1>7 DEF Sending

(* What the sending thread sends keeps the types.                          *)
LEMMA SendingClientTypes ==
  ASSUME RoomTypes, UNCHANGED serverVars, NEW p \in Procs, Sending(p)
  PROVE  RoomTypes'
<1>1. /\ <<>> \in Content /\ <<"said", p, typed[p]>> \in Content
      /\ <<"whispered", p, typed[p], sname[p]>> \in Content
  <2>1. typed[p] \in Nat /\ sname[p] \in AnyName
    BY DEF RoomTypes, ClientTypes, AnyName
  <2> HIDE DEF AnyName
  <2> QED
    BY <2>1 DEF Content
<1> HIDE DEF Content, Msg
<1>2. /\ Request(p, "BROADCAST", <<"said", p, typed[p]>>) \in Msg
      /\ Request(p, "LIST", <<>>) \in Msg
      /\ Request(p, "WHISPER", <<"whispered", p, typed[p], sname[p]>>) \in Msg
      /\ Request(p, "QUIT", <<>>) \in Msg
  BY <1>1, RequestIsMsg DEF Request_
<1>3. PICK m \in Msg, pc \in ClientStates \ {"start"} : Send(p, m, pc)
  BY <1>2, Sends
<1> QED
  BY <1>3, Sends, SendTypes

(* A message received leaves the box and goes on the screen.               *)
LEMMA ReceiveTypes ==
  ASSUME RoomTypes, UNCHANGED serverVars, NEW p \in Procs, Receive(p)
  PROVE  RoomTypes'
<1> HIDE DEF AnyName, Content, UserName, Boxes, Rooms
<1> DEFINE b == mine[p]
           m == Taken(box[b])
<1>1. box \in Boxes /\ Bounded(box) /\ Len(box) \in Nat /\ b \in 1 .. Len(box) /\ box[b] # <<>>
  BY DEF Receive, RoomTypes, ClientTypes, MemoryTypes, NoBox, Boxes
<1>2. m \in Msg /\ box' = [box EXCEPT ![b] = Remaining(@)]
  BY <1>1, BoundKept DEF Receive
<1>3. box' \in Boxes /\ Len(box') = Len(box) /\ Bounded(box')
  BY <1>1, <1>2, BoundKept
<1>4. Sight(m) \in Nat \X Content
  BY <1>2 DEF Msg, Sight
<1>5. /\ got' = [got EXCEPT ![p] = Append(@, m)]
      /\ seen' = IF Public(m) THEN [seen EXCEPT ![p] = Append(@, Sight(m))] ELSE seen
      /\ UNCHANGED <<cpc, rpc, crun, sbox, mine, sname, typed, shm>>
  BY DEF Receive
<1> HIDE DEF Msg, m
<1>6. got' \in [Procs -> Seq(Msg)]
  BY <1>2, <1>5 DEF RoomTypes, ClientTypes
<1>7. seen' \in [Procs -> Seq(Nat \X Content)]
  BY <1>4, <1>5 DEF RoomTypes, ClientTypes
<1>8. MemoryTypes' /\ Grows
  BY <1>1, <1>3, <1>5 DEF MemoryTypes, Grows, RoomTypes
<1>9. ServerTypes'
  BY <1>8, Growing DEF MemoryTypes
<1>10. ClientTypes'
  BY <1>3, <1>5, <1>6, <1>7 DEF RoomTypes, ClientTypes
<1> QED
  BY <1>8, <1>9, <1>10 DEF RoomTypes
-----------------------------------------------------------------------------
\* The steps of the server that open nothing and leave the room
Looks == \/ ServerSigint \/ ServerKill \/ ServerStop \/ HandleOther \/ CastDone \/ ListDone
         \/ ServerFault \/ HandleList \/ HandleBroadcast \/ Cast \/ ListOne \/ WhisperSend

\* The steps of the clients that touch no box
Sits(p) == \/ TypeCommand(p) \/ TypeName(p) \/ ReceiveStop(p) \/ ClientSigint(p) \/ Kill(p)

(* The actions of a step                                                   *)
LEMMA Steps ==
  ASSUME Next
  PROVE  \/ /\ UNCHANGED clientVars
            /\ Looks \/ HandleWhisper \/ HandleJoin \/ HandleQuit \/ ServerStart \/ Recv
         \/ /\ UNCHANGED serverVars
            /\ \E p \in Procs : Join(p) \/ OpenOwn(p) \/ Sits(p) \/ Sending(p) \/ Receive(p)
<1>1. CASE Server
  BY <1>1 DEF Server, ServerNext, ServerRun, Looks
<1>2. CASE \E p \in Procs : Client(p)
  BY <1>2 DEF Client, ClientNext, ClientRun, ReceiverRun, User, Sending, Sits
<1> QED
  BY <1>1, <1>2 DEF Next

(* The first state has the types.                                          *)
LEMMA InitTypes ==
  ASSUME Init
  PROVE  RoomTypes
<1> HIDE DEF Content, Msg
<1>1. Len(<<>>) = 0 /\ <<>> \in Seq(Seq(Msg)) /\ <<>> \in Seq(Msg) /\ <<>> \in Seq(Content)
      /\ <<>> \in Seq(Nat \X Content)
  OBVIOUS
<1>2. MemoryTypes
  BY <1>1 DEF Init, MemoryInit, MemoryTypes, Boxes, Bounded, NoBox
<1>3. EmptyRoom \in Rooms(0)
  BY DEF EmptyRoom, Rooms, AnyName, NoBox
<1> HIDE DEF Rooms
<1>4. ServerTypes
  BY <1>1, <1>3, BlankIsMsg, MemoryAssumption, ServerAssumption
  DEF Init, MemoryInit, ServerInit, ServerTypes, NoBox
<1>5. NameOf \in [Procs -> UserName]
  BY ClientAssumption DEF UserName
<1> HIDE DEF UserName
<1>6. ClientTypes
  BY <1>1, <1>5, ClientAssumption
  DEF Init, MemoryInit, ClientInit, ClientTypes, ClientStates, NoBox
<1> QED
  BY <1>2, <1>4, <1>6 DEF RoomTypes

(* Every step keeps the types.                                             *)
LEMMA NextTypes ==
  ASSUME RoomTypes, [Next]_vars
  PROVE  RoomTypes'
<1>1. CASE UNCHANGED vars
  BY <1>1, QuietTypes DEF vars, RoomTypes, ClientTypes, clientVars, screen, memory
<1>2. ASSUME UNCHANGED clientVars, Looks PROVE RoomTypes'
  BY <1>2, ControlTypes, HandleListTypes, HandleBroadcastTypes, CastTypes, ListOneTypes,
     WhisperSendTypes DEF Looks
<1>3. ASSUME UNCHANGED serverVars, NEW p \in Procs, Sits(p) PROVE RoomTypes'
  BY <1>3, TypeCommandTypes, TypeNameTypes, ReceiveStopTypes, ClientSigintTypes, KillTypes DEF Sits
<1>4. CASE Next
  BY <1>2, <1>3, <1>4, Steps, HandleWhisperTypes, HandleJoinTypes, HandleQuitTypes, StartTypes,
     RecvTypes, JoinTypes, OpenOwnTypes, SendingClientTypes, ReceiveTypes
<1> QED
  BY <1>1, <1>4

(* The types of the room hold always.                                      *)
LEMMA TypesHold == Spec => []RoomTypes
<1>1. Init => RoomTypes
  BY InitTypes
<1>2. RoomTypes /\ [Next]_vars => RoomTypes'
  BY NextTypes
<1> QED
  BY <1>1, <1>2, PTL DEF Spec

(* Every variable of the room holds a value the C types and the code allow,*)
(* whatever the number of clients, the size of a box and the kills.        *)
THEOREM RoomTypeOK == Spec => []TypeOK
<1>1. RoomTypes => TypeOK
  <2> HIDE DEF Content, UserName
  <2> SUFFICES ASSUME RoomTypes PROVE TypeOK
    OBVIOUS
  <2>1. msg.id \in Ids /\ \A i \in Ids : room[i].client_box \in 0 .. Len(box)
    BY DEF RoomTypes, ServerTypes, Rooms, Msg
  <2>2. \A b \in DOMAIN box : Len(box[b]) <= Capacity
    BY DEF RoomTypes, MemoryTypes, Bounded, Boxes
  <2> HIDE DEF Msg, Rooms
  <2>3. \A p \in Procs : typed[p] \in 0 .. MaxInputs[p]
    BY ClientAssumption DEF RoomTypes, ClientTypes
  <2> QED
    BY <2>1, <2>2, <2>3 DEF TypeOK, RoomTypes, MemoryTypes, ServerTypes, ClientTypes,
       ClientStates, Request_
<1> QED
  BY <1>1, TypesHold, PTL
=============================================================================
