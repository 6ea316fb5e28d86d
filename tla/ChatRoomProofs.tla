--------------------------- MODULE ChatRoomProofs ---------------------------
(***************************************************************************)
(* Proofs about the order of what the chat room shows and about who is in  *)
(* it: for any number of clients, ids used twice, box and room sizes, kills*)
(* and restarts of the server.                                             *)
(***************************************************************************)
EXTENDS ChatTypeProofs

\* The requests that wait in the server's box.  Its name is never removed.
Queue == IF shm[SERVER_ID] = NoBox THEN <<>> ELSE box[shm[SERVER_ID]]

\* What the room, the names, a client or the server take for the box of an id
TiedTo(b, i) ==
    \/ b = shm[i] \/ b = room[i].client_box
    \/ b = client_box /\ i = msg.id
    \/ \E p \in Procs : b = mine[p] /\ i = IdOf[p]

(* An object is the box of one id, however often the names change.         *)
Objects ==
    /\ \A i, j \in Ids : \A b \in 1 .. Len(box) : TiedTo(b, i) /\ TiedTo(b, j) => i = j
    /\ server_box \in {NoBox, shm[SERVER_ID]}
    /\ \A p \in Procs : sbox[p] \in {NoBox, shm[SERVER_ID]}
    /\ receiver_box # NoBox => receiver_box # shm[SERVER_ID]

\* A message a client sent
Said(t) == \E p \in Procs : \E n \in 1 .. MaxInputs[p] : t = <<"said", p, n>>
Asks(m) ==
    /\ m.type \in Request_ /\ m.id \in 1 .. MAX_CLIENT /\ m.name \in UserName
    /\ m.type = "BROADCAST" => Said(m.text)

(* What waits in the server's box and what the server handles was sent by a*)
(* client.                                                                 *)
Asked ==
    /\ \A k \in 1 .. Len(Queue) : Asks(Queue[k])
    /\ spc # "SERVER"
    /\ spc \in Request_ => Asks(msg) /\ msg.type = spc
    /\ spc \in {"cast", "list", "whisper"} => msg.id \in 1 .. MAX_CLIENT
    /\ spc = "whisper" => msg.type = "WHISPER"
    /\ \A p \in Procs : cpc[p] = "BROADCAST" => typed[p] >= 1

Known == RoomTypes /\ Objects /\ Asked

\* The boxes but one stay as they are; those that are new are empty.
OthersStay(b) ==
    \A c \in 1 .. Len(box') :
        c # b => IF c \in 1 .. Len(box) THEN box'[c] = box[c] ELSE box'[c] = <<>>
-----------------------------------------------------------------------------
(* The server's box exists, and it is no client's.                         *)
LEMMA Anchor ==
  ASSUME RoomTypes, Objects
  PROVE  /\ SERVER_ID \in Ids /\ Len(box) \in Nat /\ shm[SERVER_ID] \in 0 .. Len(box)
         /\ Queue \in Seq(Msg) /\ Len(Queue) \in Nat
         /\ server_box # NoBox => server_box = shm[SERVER_ID] /\ Queue = box[server_box]
         /\ \A p \in Procs : sbox[p] # NoBox => sbox[p] = shm[SERVER_ID] /\ Queue = box[sbox[p]]
         /\ \A i \in 1 .. MAX_CLIENT : i \in Ids /\ i # SERVER_ID
         /\ \A b \in 1 .. Len(box) : \A i \in 1 .. MAX_CLIENT : TiedTo(b, i) => b # shm[SERVER_ID]
<1> HIDE DEF Msg
<1>1. SERVER_ID \in Ids /\ \A i \in 1 .. MAX_CLIENT : i \in Ids /\ i # SERVER_ID
  BY MemoryAssumption DEF Ids, SERVER_ID
<1>2. Len(box) \in Nat /\ shm[SERVER_ID] \in 0 .. Len(box)
  BY <1>1 DEF RoomTypes, MemoryTypes, Boxes
<1>3. Queue \in Seq(Msg) /\ Len(Queue) \in Nat
  BY <1>2 DEF Queue, NoBox, RoomTypes, MemoryTypes, Boxes
<1>4. /\ server_box # NoBox => server_box = shm[SERVER_ID] /\ Queue = box[server_box]
      /\ \A p \in Procs : sbox[p] # NoBox => sbox[p] = shm[SERVER_ID] /\ Queue = box[sbox[p]]
  BY DEF Objects, Queue
<1>5. \A b \in 1 .. Len(box) : \A i \in 1 .. MAX_CLIENT : TiedTo(b, i) => b # shm[SERVER_ID]
  <2> SUFFICES ASSUME NEW b \in 1 .. Len(box), NEW i \in 1 .. MAX_CLIENT, TiedTo(b, i),
                      b = shm[SERVER_ID]
               PROVE  FALSE
    OBVIOUS
  <2>1. TiedTo(b, SERVER_ID)
    BY DEF TiedTo
  <2> QED
    BY <1>1, <2>1 DEF Objects
<1> QED
  BY <1>1, <1>2, <1>3, <1>4, <1>5

(* A message put into a client's box                                       *)
LEMMA PostEffect ==
  ASSUME RoomTypes, Objects, UNCHANGED shm, NEW b \in 1 .. Len(box), b # shm[SERVER_ID],
         NEW m \in Msg, box' = Put(box, b, m)
  PROVE  /\ Len(box') = Len(box) /\ Queue' = Queue /\ OthersStay(b)
         /\ box'[b] \in {box[b], Append(box[b], m)}
<1> HIDE DEF Msg
<1>1. box \in Boxes /\ shm[SERVER_ID] \in 0 .. Len(box)
  BY Anchor DEF RoomTypes, MemoryTypes
<1>2. /\ Len(box') = Len(box)
      /\ \A c \in 1 .. Len(box) : c # b => box'[c] = box[c]
      /\ box'[b] = IF Len(box[b]) < Capacity THEN Append(box[b], m) ELSE box[b]
  BY <1>1, Putting
<1>3. Queue' = Queue
  BY <1>1, <1>2 DEF Queue, NoBox
<1> QED
  BY <1>2, <1>3 DEF OthersStay

(* A start empties the server's box and leaves the others.                 *)
LEMMA StartEffect ==
  ASSUME RoomTypes, Objects, ServerStart
  PROVE  /\ Queue' = <<>> /\ OthersStay(shm'[SERVER_ID]) /\ server_box' = shm'[SERVER_ID]
         /\ shm' = [shm EXCEPT ![SERVER_ID] = ObjectOf(SERVER_ID)]
<1> HIDE DEF Msg
<1> DEFINE w == WithObject(SERVER_ID)
           b == ObjectOf(SERVER_ID)
<1>1. /\ SERVER_ID \in Ids /\ box \in Boxes /\ shm \in [Ids -> 0 .. Len(box)]
  BY Anchor DEF RoomTypes, MemoryTypes
<1>2. /\ w \in Boxes /\ b \in 1 .. Len(w) /\ Len(box) <= Len(w)
      /\ \A c \in 1 .. Len(box) : w[c] = box[c]
      /\ \A c \in 1 .. Len(w) :
            c \in 1 .. Len(box) \/ (c = Len(box) + 1 /\ w[c] = <<>>)
  BY <1>1, Opening
<1>3. box' = Emptied(w, b) /\ shm' = [shm EXCEPT ![SERVER_ID] = b] /\ server_box' = b
  BY DEF ServerStart, Bind
<1> HIDE DEF w
<1>4. /\ Len(box') = Len(w) /\ box'[b] = <<>>
      /\ \A c \in 1 .. Len(w) : c # b => box'[c] = w[c]
  BY <1>2, <1>3, Emptying
<1>5. shm'[SERVER_ID] = b
  BY <1>1, <1>3
<1>6. OthersStay(b)
  BY <1>2, <1>4 DEF OthersStay
<1> HIDE DEF b
<1> QED
  BY <1>3, <1>4, <1>5, <1>6 DEF Queue, b

(* The server takes the first request of the queue.                        *)
LEMMA RecvEffect ==
  ASSUME Known, Recv
  PROVE  /\ Queue # <<>> /\ msg' = Queue[1] /\ Asks(msg') /\ spc' = msg'.type
         /\ Queue' = Remaining(Queue) /\ OthersStay(shm[SERVER_ID])
         /\ shm'[SERVER_ID] = shm[SERVER_ID] /\ shm[SERVER_ID] # NoBox
         /\ \/ client_box' = NoBox /\ UNCHANGED shm
            \/ /\ client_box' = ObjectOf(msg'.id)
               /\ shm' = [shm EXCEPT ![msg'.id] = ObjectOf(msg'.id)]
<1> HIDE DEF Msg
<1> DEFINE b == server_box
           m == Taken(box[b])
           w == WithObject(m.id)
<1>1. /\ box \in Boxes /\ shm \in [Ids -> 0 .. Len(box)] /\ Len(box) \in Nat /\ SERVER_ID \in Ids
      /\ b \in 1 .. Len(box) /\ b = shm[SERVER_ID] /\ Queue = box[b] /\ box[b] # <<>>
      /\ Queue \in Seq(Msg)
  BY Anchor DEF Known, Recv, RoomTypes, MemoryTypes, ServerTypes, NoBox
<1>2. m = Queue[1] /\ Len(Queue) \in Nat \ {0} /\ Remaining(Queue) \in Seq(Msg)
  BY <1>1, Taking
<1>3. Asks(m)
  BY <1>2 DEF Known, Asked
<1>4. m.id \in Ids /\ m.id # SERVER_ID
  BY <1>3, Anchor DEF Known, Asks
<1>5. msg' = m /\ spc' = m.type
  BY DEF Recv
<1> DEFINE q == Remaining(Queue)
<1>6. CASE fds < OPEN_MAX
  <2>1. /\ shm' = [shm EXCEPT ![m.id] = ObjectOf(m.id)] /\ client_box' = ObjectOf(m.id)
        /\ box' = [w EXCEPT ![b] = Remaining(@)]
    BY <1>5, <1>6 DEF Recv, Bind
  <2>2. /\ w \in Boxes /\ Len(box) <= Len(w)
        /\ \A c \in 1 .. Len(box) : w[c] = box[c]
        /\ \A c \in 1 .. Len(w) : c \in 1 .. Len(box) \/ (c = Len(box) + 1 /\ w[c] = <<>>)
    BY <1>1, <1>4, Opening
  <2>3. w[b] = Queue /\ b \in 1 .. Len(w)
    <3>1. Len(w) \in Nat
      BY <2>2 DEF Boxes
    <3> QED
      BY <1>1, <2>2, <3>1
  <2> HIDE DEF w, m, b, q
  <2>4. box' = [w EXCEPT ![b] = q]
    BY <2>1, <2>3 DEF q
  <2>5. /\ Len(box') = Len(w) /\ box'[b] = q
        /\ \A c \in 1 .. Len(w) : c # b => box'[c] = w[c]
    BY <1>2, <2>2, <2>3, <2>4, Replacing DEF q
  <2>6. OthersStay(b)
    BY <2>2, <2>5 DEF OthersStay
  <2>7. shm'[SERVER_ID] = b /\ b # NoBox
    BY <1>1, <1>4, <2>1 DEF NoBox
  <2>8. Queue' = q
    BY <2>5, <2>7 DEF Queue
  <2> QED
    BY <1>1, <1>2, <1>3, <1>5, <2>1, <2>6, <2>7, <2>8 DEF q
<1>7. CASE ~(fds < OPEN_MAX)
  <2>1. UNCHANGED shm /\ client_box' = NoBox /\ box' = [box EXCEPT ![b] = Remaining(@)]
    BY <1>7 DEF Recv
  <2> HIDE DEF m, b, q
  <2>2. box' = [box EXCEPT ![b] = q]
    BY <1>1, <2>1 DEF q
  <2>3. /\ Len(box') = Len(box) /\ box'[b] = q
        /\ \A c \in 1 .. Len(box) : c # b => box'[c] = box[c]
    BY <1>1, <1>2, <2>2, Replacing DEF q
  <2>4. OthersStay(b) /\ Queue' = q
    BY <1>1, <2>1, <2>3 DEF OthersStay, Queue, NoBox
  <2> QED
    BY <1>1, <1>2, <1>3, <1>5, <2>1, <2>4 DEF q, NoBox
<1> QED
  BY <1>6, <1>7

(* A JOIN goes to the end of the queue, unless the box is full.            *)
LEMMA JoinEffect ==
  ASSUME RoomTypes, Objects, NEW p \in Procs, Join(p)
  PROVE  /\ Queue' \in {Queue, Append(Queue, Request(p, "JOIN", <<>>))}
         /\ OthersStay(shm'[SERVER_ID]) /\ sbox' = [sbox EXCEPT ![p] = shm'[SERVER_ID]]
         /\ shm' = [shm EXCEPT ![SERVER_ID] = ObjectOf(SERVER_ID)]
         /\ shm'[SERVER_ID] = ObjectOf(SERVER_ID)
<1> HIDE DEF Msg
<1> DEFINE w == WithObject(SERVER_ID)
           b == ObjectOf(SERVER_ID)
           m == Request(p, "JOIN", <<>>)
<1>1. /\ SERVER_ID \in Ids /\ box \in Boxes /\ shm \in [Ids -> 0 .. Len(box)] /\ Len(box) \in Nat
  BY Anchor DEF RoomTypes, MemoryTypes
<1>2. /\ w \in Boxes /\ b \in 1 .. Len(w) /\ Len(box) <= Len(w)
      /\ \A c \in 1 .. Len(box) : w[c] = box[c]
      /\ \A c \in 1 .. Len(w) :
            c \in 1 .. Len(box) \/ (c = Len(box) + 1 /\ w[c] = <<>>)
      /\ IF shm[SERVER_ID] = NoBox THEN b = Len(box) + 1 ELSE b = shm[SERVER_ID]
  BY <1>1, Opening
<1>3. w[b] = Queue
  BY <1>1, <1>2 DEF Queue, NoBox
<1>4. m \in Msg
  <2>1. <<>> \in Content
    BY DEF Content
  <2> QED
    BY <2>1, RequestIsMsg DEF Request_
<1>5. /\ box' = Put(w, b, m) /\ shm' = [shm EXCEPT ![SERVER_ID] = b]
      /\ sbox' = [sbox EXCEPT ![p] = b]
  BY DEF Join, Bind
<1> HIDE DEF w, m, b
<1>6. /\ Len(box') = Len(w)
      /\ \A c \in 1 .. Len(w) : c # b => box'[c] = w[c]
      /\ box'[b] \in {w[b], Append(w[b], m)}
  BY <1>2, <1>4, <1>5, Putting
<1>7. OthersStay(b)
  BY <1>2, <1>6 DEF OthersStay
<1>8. shm'[SERVER_ID] = b /\ b # NoBox
  BY <1>1, <1>2, <1>5 DEF NoBox
<1>9. Queue' = box'[b]
  BY <1>8 DEF Queue
<1> QED
  BY <1>3, <1>5, <1>6, <1>7, <1>8, <1>9 DEF b, m

(* A client opens the object of its own id and empties it.                 *)
LEMMA OpenOwnEffect ==
  ASSUME RoomTypes, Objects, NEW p \in Procs, OpenOwn(p)
  PROVE  /\ Queue' = Queue /\ UNCHANGED sbox /\ shm'[SERVER_ID] = shm[SERVER_ID]
         /\ OthersStay(mine'[p]) /\ mine' = [mine EXCEPT ![p] = ObjectOf(IdOf[p])]
         /\ mine'[p] = ObjectOf(IdOf[p]) /\ shm'[IdOf[p]] = mine'[p]
         /\ mine'[p] \in 1 .. Len(box') /\ box'[mine'[p]] = <<>>
         /\ shm' = [shm EXCEPT ![IdOf[p]] = ObjectOf(IdOf[p])]
<1> HIDE DEF Msg
<1> DEFINE i == IdOf[p]
           w == WithObject(i)
           b == ObjectOf(i)
<1>1. /\ SERVER_ID \in Ids /\ box \in Boxes /\ shm \in [Ids -> 0 .. Len(box)] /\ Len(box) \in Nat
      /\ mine \in [Procs -> 0 .. Len(box)]
  BY Anchor DEF RoomTypes, MemoryTypes, ClientTypes
<1>2. i \in Ids /\ i # SERVER_ID
  BY ClientAssumption
<1>3. /\ w \in Boxes /\ b \in 1 .. Len(w) /\ Len(box) <= Len(w)
      /\ \A c \in 1 .. Len(box) : w[c] = box[c]
      /\ \A c \in 1 .. Len(w) :
            c \in 1 .. Len(box) \/ (c = Len(box) + 1 /\ w[c] = <<>>)
      /\ IF shm[i] = NoBox THEN b = Len(box) + 1 ELSE b = shm[i]
  BY <1>1, <1>2, Opening
<1>4. /\ box' = Emptied(w, b) /\ shm' = [shm EXCEPT ![i] = b] /\ mine' = [mine EXCEPT ![p] = b]
      /\ UNCHANGED sbox
  BY DEF OpenOwn, Bind
<1> HIDE DEF w, b
<1>5. /\ Len(box') = Len(w) /\ box'[b] = <<>>
      /\ \A c \in 1 .. Len(w) : c # b => box'[c] = w[c]
  BY <1>3, <1>4, Emptying
<1>6. mine'[p] = b /\ shm'[i] = b /\ shm'[SERVER_ID] = shm[SERVER_ID]
  BY <1>1, <1>2, <1>4
<1>7. OthersStay(b)
  BY <1>3, <1>5 DEF OthersStay
<1>8. Queue' = Queue
  <2>1. CASE shm[SERVER_ID] = NoBox
    BY <1>6, <2>1 DEF Queue
  <2>2. CASE shm[SERVER_ID] # NoBox
    <3>1. shm[SERVER_ID] \in 1 .. Len(box)
      BY <1>1, <2>2 DEF NoBox
    <3>2. b # shm[SERVER_ID]
      <4>1. CASE shm[i] = NoBox
        BY <1>1, <1>3, <3>1, <4>1
      <4>2. CASE shm[i] # NoBox
        <5>1. b = shm[i] /\ TiedTo(b, i)
          BY <1>3, <4>2 DEF TiedTo
        <5> SUFFICES ASSUME b = shm[SERVER_ID] PROVE FALSE
          OBVIOUS
        <5>2. TiedTo(b, SERVER_ID)
          BY DEF TiedTo
        <5> QED
          BY <1>1, <1>2, <3>1, <5>1, <5>2 DEF Objects
      <4> QED
        BY <4>1, <4>2
    <3>3. box'[shm[SERVER_ID]] = box[shm[SERVER_ID]]
      BY <1>1, <1>3, <1>5, <3>1, <3>2 DEF Boxes
    <3> QED
      BY <1>6, <3>3 DEF Queue
  <2> QED
    BY <2>1, <2>2
<1> QED
  BY <1>3, <1>4, <1>5, <1>6, <1>7, <1>8 DEF b

(* What a client sends goes to the end of the queue.                       *)
LEMMA SendEffect ==
  ASSUME RoomTypes, Objects, NEW p \in Procs, NEW m \in Msg, NEW pc, cpc[p] # "start", Send(p, m, pc)
  PROVE  /\ Queue' = Append(Queue, m) /\ UNCHANGED <<shm, sbox, mine, typed, sname, rpc, screen>>
         /\ OthersStay(shm[SERVER_ID]) /\ shm[SERVER_ID] # NoBox
         /\ cpc' = [cpc EXCEPT ![p] = pc]
<1> HIDE DEF Msg
<1> DEFINE b == sbox[p]
<1>1. /\ box \in Boxes /\ Bounded(box) /\ Len(box) \in Nat /\ Capacity \in Nat
      /\ b \in 1 .. Len(box) /\ b = shm[SERVER_ID] /\ Queue = box[b]
  BY Anchor, MemoryAssumption DEF RoomTypes, MemoryTypes, ClientTypes, NoBox
<1>2. /\ box' = Put(box, b, m) /\ ~IsFull(b) /\ cpc' = [cpc EXCEPT ![p] = pc]
      /\ UNCHANGED <<shm, sbox, mine, typed, sname, rpc, screen>>
  BY DEF Send
<1>3. Len(box[b]) < Capacity
  <2>1. Len(box[b]) \in Nat /\ Len(box[b]) <= Capacity /\ Len(box[b]) # Capacity
    BY <1>1, <1>2 DEF IsFull, Bounded, Boxes
  <2> QED
    BY <1>1, <2>1
<1> HIDE DEF b
<1>4. /\ Len(box') = Len(box) /\ box'[b] = Append(box[b], m)
      /\ \A c \in 1 .. Len(box) : c # b => box'[c] = box[c]
  BY <1>1, <1>2, <1>3, Putting
<1> QED
  BY <1>1, <1>2, <1>4 DEF Queue, OthersStay, NoBox

(* A client takes the oldest message of its box and no other.              *)
LEMMA ReceiveEffect ==
  ASSUME RoomTypes, Objects, NEW p \in Procs, Receive(p)
  PROVE  /\ Queue' = Queue /\ mine[p] \in 1 .. Len(box) /\ mine[p] # shm[SERVER_ID]
         /\ Len(box') = Len(box) /\ OthersStay(mine[p])
         /\ box[mine[p]] \in Seq(Msg) /\ box[mine[p]] # <<>>
         /\ box'[mine[p]] = Remaining(box[mine[p]])
<1> HIDE DEF Msg
<1> DEFINE b == mine[p]
           q == Remaining(box[b])
<1>1. /\ box \in Boxes /\ Len(box) \in Nat /\ shm[SERVER_ID] \in 0 .. Len(box) /\ SERVER_ID \in Ids
      /\ b \in 1 .. Len(box) /\ box[b] # <<>>
  BY Anchor DEF Receive, RoomTypes, ClientTypes, MemoryTypes, NoBox
<1>2. box[b] \in Seq(Msg)
  BY <1>1 DEF Boxes
<1>3. q \in Seq(Msg) /\ box' = [box EXCEPT ![b] = q] /\ UNCHANGED shm
  BY <1>1, <1>2, Taking DEF Receive
<1>4. b # shm[SERVER_ID]
  <2> SUFFICES ASSUME b = shm[SERVER_ID] PROVE FALSE
    OBVIOUS
  <2>1. TiedTo(b, SERVER_ID) /\ TiedTo(b, IdOf[p]) /\ IdOf[p] \in Ids /\ IdOf[p] # SERVER_ID
    BY ClientAssumption DEF TiedTo
  <2> QED
    BY <1>1, <2>1 DEF Objects
<1> HIDE DEF q, b
<1>5. /\ Len(box') = Len(box) /\ box'[b] = q
      /\ \A c \in 1 .. Len(box) : c # b => box'[c] = box[c]
  BY <1>1, <1>3, Replacing
<1>6. Queue' = Queue
  BY <1>1, <1>3, <1>4, <1>5 DEF Queue, NoBox
<1> QED
  BY <1>1, <1>2, <1>4, <1>5, <1>6 DEF b, q, OthersStay
-----------------------------------------------------------------------------
\* Objects, in the two parts a step may disturb
Ties == \A i, j \in Ids : \A b \in 1 .. Len(box) : TiedTo(b, i) /\ TiedTo(b, j) => i = j

(* An object gets no second id, if a step ties to an id only what is tied  *)
(* to it or what opening its name finds.                                   *)
LEMMA TiesKept ==
  ASSUME RoomTypes, Objects, NEW id \in Ids, Len(box') \in Nat,
         \A i \in Ids : \A b \in 1 .. Len(box') :
            TiedTo(b, i)' => TiedTo(b, i) \/ (b = ObjectOf(id) /\ i = id)
  PROVE  Ties'
<1>1. \A i \in Ids : \A b \in 1 .. Len(box') : TiedTo(b, i) => b \in 1 .. Len(box)
  BY DEF TiedTo, RoomTypes, MemoryTypes, ServerTypes, Rooms, ClientTypes
<1>2. Len(box) \in Nat /\ shm[id] \in 0 .. Len(box)
  BY Anchor DEF RoomTypes, MemoryTypes
<1>3. ObjectOf(id) = Len(box) + 1 \/ TiedTo(ObjectOf(id), id)
  BY DEF ObjectOf, TiedTo
<1> SUFFICES ASSUME NEW i \in Ids, NEW j \in Ids, NEW b \in 1 .. Len(box'),
                    TiedTo(b, i)', TiedTo(b, j)'
             PROVE  i = j
  BY DEF Ties
<1>4. /\ TiedTo(b, i) \/ (b = ObjectOf(id) /\ i = id)
      /\ TiedTo(b, j) \/ (b = ObjectOf(id) /\ j = id)
  OBVIOUS
<1>5. CASE TiedTo(b, i) \/ TiedTo(b, j)
  <2>1. b \in 1 .. Len(box)
    BY <1>1, <1>5
  <2>2. TiedTo(b, i) /\ TiedTo(b, j)
    BY <1>2, <1>3, <1>4, <2>1
  <2> QED
    BY <2>1, <2>2 DEF Objects
<1> QED
  BY <1>4, <1>5

(* A step that leaves the names, the room and the pointers                 *)
LEMMA PointersStay ==
  ASSUME RoomTypes, Objects, Len(box') \in Nat,
         UNCHANGED <<shm, room, server_box, client_box, receiver_box, sbox, mine>>, msg'.id = msg.id
  PROVE  Objects'
<1>1. \A i \in Ids : \A b \in 1 .. Len(box') : TiedTo(b, i)' => TiedTo(b, i)
  BY DEF TiedTo
<1>2. Ties'
  BY <1>1, Anchor, TiesKept
<1> QED
  BY <1>2 DEF Objects, Ties

(* The steps that open nothing tie no object to a new id.                  *)
LEMMA LooksPointers ==
  ASSUME RoomTypes, UNCHANGED clientVars, Looks
  PROVE  /\ UNCHANGED <<shm, room, server_box, client_box, receiver_box, sbox, mine>>
         /\ msg'.id = msg.id
<1>1. UNCHANGED <<shm, room, server_box, client_box, receiver_box>>
  BY DEF Looks, ServerSigint, ServerKill, ServerStop, HandleOther, CastDone, ListDone,
     ServerFault, HandleList, HandleBroadcast, Cast, ListOne, WhisperSend, memory
<1>2. UNCHANGED <<sbox, mine>>
  BY DEF clientVars
<1>3. msg \in Msg
  BY DEF RoomTypes, ServerTypes
<1>4. ASSUME HandleList PROVE msg'.id = msg.id
  BY <1>3, <1>4 DEF HandleList, Msg
<1>5. ASSUME HandleBroadcast PROVE msg'.id = msg.id
  BY <1>3, <1>5 DEF HandleBroadcast, Announce, Msg
<1>6. ASSUME ListOne PROVE msg'.id = msg.id
  BY <1>3, <1>6 DEF ListOne, Msg
<1>7. ASSUME ServerSigint \/ ServerKill \/ ServerStop \/ HandleOther \/ CastDone \/ ListDone
             \/ ServerFault \/ Cast \/ WhisperSend
      PROVE  msg' = msg
  BY <1>7 DEF ServerSigint, ServerKill, ServerStop, HandleOther, CastDone, ListDone,
     ServerFault, Cast, WhisperSend
<1> QED
  BY <1>1, <1>2, <1>4, <1>5, <1>6, <1>7 DEF Looks

(* A whisper opens the object of the receiver's id.                        *)
LEMMA WhisperObjects ==
  ASSUME Known, UNCHANGED clientVars, HandleWhisper, RoomTypes'
  PROVE  Objects'
<1>1. msg \in Msg /\ msg'.id = msg.id
  BY DEF Known, RoomTypes, ServerTypes, HandleWhisper, Signed, Msg
<1>2. UNCHANGED <<shm, box, room, server_box, client_box, sbox, mine>>
  BY DEF HandleWhisper, memory, clientVars
<1>3. \A i \in Ids : \A b \in 1 .. Len(box') : TiedTo(b, i)' => TiedTo(b, i)
  BY <1>1, <1>2 DEF TiedTo
<1>4. Ties'
  BY <1>2, <1>3, Anchor, TiesKept DEF Known
<1>5. receiver_box' # NoBox => receiver_box' # shm[SERVER_ID]
  <2>1. CASE Named(msg.name) = {}
    BY <2>1 DEF HandleWhisper, Receiver, Known, Objects
  <2>2. CASE Named(msg.name) # {}
    <3> DEFINE i == Min(Named(msg.name))
    <3>1. Named(msg.name) \subseteq 1 .. MAX_CLIENT /\ Named(msg.name) \subseteq Nat
      BY DEF Named
    <3>2. i \in 1 .. MAX_CLIENT
      BY <2>2, <3>1, FirstOf
    <3>3. receiver_box' = room[i].client_box /\ TiedTo(room[i].client_box, i)
      BY <2>2 DEF HandleWhisper, Receiver, TiedTo
    <3> HIDE DEF i
    <3>4. room[i].client_box # NoBox => room[i].client_box \in 1 .. Len(box)
      <4>1. i \in Ids /\ Len(box) \in Nat
        BY <3>2, Anchor DEF Known
      <4>2. room \in [Ids -> [session_owner : AnyName, client_box : 0 .. Len(box)]]
        BY DEF Known, RoomTypes, ServerTypes, Rooms
      <4>3. room[i].client_box \in 0 .. Len(box)
        BY <4>1, <4>2
      <4> QED
        BY <4>1, <4>3 DEF NoBox
    <3> QED
      BY <3>2, <3>3, <3>4, Anchor DEF Known
  <2> QED
    BY <2>1, <2>2
<1> QED
  BY <1>2, <1>4, <1>5 DEF Known, Objects, Ties

(* A JOIN puts the object of the joiner's id into the room.                *)
LEMMA JoinedObjects ==
  ASSUME Known, UNCHANGED clientVars, HandleJoin, RoomTypes'
  PROVE  Objects'
<1>1. msg \in Msg /\ msg'.id = msg.id /\ msg.id \in Ids
  BY DEF Known, RoomTypes, ServerTypes, HandleJoin, Announce, Msg
<1>2. UNCHANGED <<shm, box, server_box, client_box, receiver_box, sbox, mine>>
  BY DEF HandleJoin, memory, clientVars
<1>3. \A i \in Ids : \A b \in 1 .. Len(box') : TiedTo(b, i)' => TiedTo(b, i)
  <2> SUFFICES ASSUME NEW i \in Ids, NEW b \in 1 .. Len(box'), TiedTo(b, i)' PROVE TiedTo(b, i)
    OBVIOUS
  <2>1. room'[i].client_box = IF i = msg.id THEN client_box ELSE room[i].client_box
    BY <1>1 DEF HandleJoin, Known, RoomTypes, ServerTypes, Rooms
  <2> QED
    BY <1>1, <1>2, <2>1 DEF TiedTo
<1>4. Ties'
  BY <1>1, <1>2, <1>3, Anchor, TiesKept DEF Known
<1> QED
  BY <1>2, <1>4 DEF Known, Objects, Ties

(* A QUIT removes a name, and the object stays with its id.                *)
LEMMA QuitObjects ==
  ASSUME Known, UNCHANGED clientVars, HandleQuit, RoomTypes'
  PROVE  Objects' /\ msg.id \in 1 .. MAX_CLIENT /\ shm'[SERVER_ID] = shm[SERVER_ID]
<1>1. msg \in Msg /\ msg'.id = msg.id
  BY DEF Known, RoomTypes, ServerTypes, HandleQuit, Announce, Msg
<1>2. UNCHANGED <<box, server_box, client_box, receiver_box, sbox, mine>>
  BY DEF HandleQuit, clientVars
<1>3. msg.id \in 1 .. MAX_CLIENT
  BY DEF HandleQuit, Known, Asked, Asks, Request_
<1>4. /\ shm'[SERVER_ID] = shm[SERVER_ID]
      /\ \A i \in Ids : shm'[i] \in {shm[i], NoBox} /\ room'[i].client_box \in {room[i].client_box, NoBox}
  BY <1>3, Anchor DEF HandleQuit, Without, Known, RoomTypes, MemoryTypes, ServerTypes, Rooms
<1>5. \A i \in Ids : \A b \in 1 .. Len(box') : TiedTo(b, i)' => TiedTo(b, i)
  BY <1>1, <1>2, <1>4 DEF TiedTo, NoBox
<1>6. Ties'
  BY <1>2, <1>4, <1>5, Anchor, TiesKept DEF Known
<1> QED
  BY <1>2, <1>3, <1>4, <1>6 DEF Known, Objects, Ties

\* The server's box is mapped by its name, which is never removed.
LEMMA NameOfServer ==
  ASSUME RoomTypes, Objects
  PROVE  /\ ObjectOf(SERVER_ID) # NoBox
         /\ shm[SERVER_ID] # NoBox => ObjectOf(SERVER_ID) = shm[SERVER_ID]
         /\ ObjectOf(SERVER_ID) \in {shm[SERVER_ID], Len(box) + 1}
BY Anchor DEF ObjectOf, NoBox

(* A start of the server opens its own object.                             *)
LEMMA StartObjects ==
  ASSUME Known, UNCHANGED clientVars, ServerStart, RoomTypes'
  PROVE  Objects'
<1> DEFINE b == ObjectOf(SERVER_ID)
<1>1. shm' = [shm EXCEPT ![SERVER_ID] = b] /\ server_box' = shm'[SERVER_ID]
  BY StartEffect DEF Known
<1>2. /\ client_box' = NoBox /\ receiver_box' = NoBox /\ room' = EmptyRoom /\ UNCHANGED <<sbox, mine>>
  BY DEF ServerStart, clientVars
<1>3. SERVER_ID \in Ids /\ shm \in [Ids -> 0 .. Len(box)] /\ Len(box') \in Nat
  BY Anchor DEF Known, RoomTypes, MemoryTypes, Boxes
<1> HIDE DEF b
<1>4. shm'[SERVER_ID] = b /\ \A i \in Ids : i # SERVER_ID => shm'[i] = shm[i]
  BY <1>1, <1>3
<1>5. \A i \in Ids : \A c \in 1 .. Len(box') : TiedTo(c, i)' => TiedTo(c, i) \/ (c = b /\ i = SERVER_ID)
  <2>1. \A i \in Ids : room'[i].client_box = NoBox
    BY <1>2 DEF EmptyRoom
  <2> QED
    BY <1>2, <1>4, <2>1 DEF TiedTo, NoBox
<1>6. Ties'
  BY <1>3, <1>5, TiesKept DEF b, Known
<1>7. \A p \in Procs : sbox[p] \in {NoBox, b}
  BY NameOfServer DEF Known, Objects, b
<1> QED
  BY <1>1, <1>2, <1>4, <1>6, <1>7 DEF Objects, Ties

(* The box of the one who asks is the object of its id.                    *)
LEMMA RecvObjects ==
  ASSUME Known, UNCHANGED clientVars, Recv, RoomTypes'
  PROVE  Objects'
<1> DEFINE id == msg'.id
           b == ObjectOf(id)
<1>1. /\ shm'[SERVER_ID] = shm[SERVER_ID] /\ id \in 1 .. MAX_CLIENT
      /\ \/ client_box' = NoBox /\ UNCHANGED shm
         \/ client_box' = b /\ shm' = [shm EXCEPT ![id] = b]
  BY RecvEffect DEF Asks
<1>2. UNCHANGED <<server_box, receiver_box, room, sbox, mine>>
  BY DEF Recv, clientVars
<1>3. id \in Ids /\ shm \in [Ids -> 0 .. Len(box)] /\ Len(box') \in Nat
  BY <1>1, Anchor DEF Known, RoomTypes, MemoryTypes, Boxes
<1> HIDE DEF b
<1>4. \A i \in Ids : \A c \in 1 .. Len(box') : TiedTo(c, i)' => TiedTo(c, i) \/ (c = b /\ i = id)
  BY <1>1, <1>2, <1>3 DEF TiedTo, NoBox
<1>5. Ties'
  BY <1>3, <1>4, TiesKept DEF b, Known
<1> QED
  BY <1>1, <1>2, <1>5 DEF Known, Objects, Ties

(* A client that joins opens the server's object.                          *)
LEMMA JoinObjects ==
  ASSUME Known, UNCHANGED serverVars, NEW p \in Procs, Join(p), RoomTypes'
  PROVE  Objects'
<1> DEFINE b == ObjectOf(SERVER_ID)
<1>1. /\ shm' = [shm EXCEPT ![SERVER_ID] = b] /\ sbox' = [sbox EXCEPT ![p] = b]
      /\ shm'[SERVER_ID] = b
  BY JoinEffect DEF Known
<1>2. /\ UNCHANGED <<server_box, client_box, receiver_box, room, msg, mine>>
  BY DEF Join, serverVars
<1>0. Len(box') \in Nat
  BY DEF RoomTypes, MemoryTypes, Boxes
<1>3. /\ SERVER_ID \in Ids /\ shm \in [Ids -> 0 .. Len(box)] /\ Len(box') \in Nat
      /\ sbox \in [Procs -> 0 .. Len(box)] /\ receiver_box \in 0 .. Len(box) /\ Len(box) \in Nat
  <2> USE DEF Known, RoomTypes
  <2>1. SERVER_ID \in Ids /\ Len(box) \in Nat
    BY Anchor
  <2>2. shm \in [Ids -> 0 .. Len(box)] /\ receiver_box \in 0 .. Len(box)
    BY DEF MemoryTypes, ServerTypes
  <2>3. sbox \in [Procs -> 0 .. Len(box)]
    BY DEF ClientTypes
  <2> QED
    BY <1>0, <2>1, <2>2, <2>3
<1>4. \A q \in Procs : sbox'[q] \in {NoBox, b}
  BY <1>1, <1>3, NameOfServer DEF Known, Objects
<1>5. server_box \in {NoBox, b} /\ (receiver_box # NoBox => receiver_box # b)
  BY <1>3, NameOfServer DEF Known, Objects
<1> HIDE DEF b
<1>6. \A i \in Ids : \A c \in 1 .. Len(box') : TiedTo(c, i)' => TiedTo(c, i) \/ (c = b /\ i = SERVER_ID)
  BY <1>1, <1>2, <1>3 DEF TiedTo
<1>7. Ties'
  BY <1>3, <1>6, TiesKept DEF b, Known
<1> QED
  BY <1>1, <1>2, <1>4, <1>5, <1>7 DEF Objects, Ties

(* A client opens the object of its own id.                                *)
LEMMA OpenOwnObjects ==
  ASSUME Known, UNCHANGED serverVars, NEW p \in Procs, OpenOwn(p), RoomTypes'
  PROVE  Objects'
<1> DEFINE id == IdOf[p]
           b == ObjectOf(id)
<1>1. /\ shm' = [shm EXCEPT ![id] = b] /\ mine' = [mine EXCEPT ![p] = b] /\ UNCHANGED sbox
      /\ shm'[SERVER_ID] = shm[SERVER_ID]
  BY OpenOwnEffect DEF Known
<1>2. UNCHANGED <<server_box, client_box, receiver_box, room, msg>>
  BY DEF serverVars
<1>3. /\ id \in Ids /\ shm \in [Ids -> 0 .. Len(box)] /\ Len(box') \in Nat
      /\ mine \in [Procs -> 0 .. Len(box)]
  BY ClientAssumption DEF Known, RoomTypes, MemoryTypes, ClientTypes, Boxes
<1> HIDE DEF b
<1>4. \A i \in Ids : \A c \in 1 .. Len(box') : TiedTo(c, i)' => TiedTo(c, i) \/ (c = b /\ i = id)
  BY <1>1, <1>2, <1>3 DEF TiedTo
<1>5. Ties'
  BY <1>3, <1>4, TiesKept DEF b, Known
<1> QED
  BY <1>1, <1>2, <1>5 DEF Known, Objects, Ties

(* The steps of a client that touch no box tie nothing.                    *)
LEMMA SitsPointers ==
  ASSUME RoomTypes, Objects, UNCHANGED serverVars, NEW p \in Procs, Sits(p) \/ Sending(p) \/ Receive(p)
  PROVE  UNCHANGED <<shm, room, server_box, client_box, receiver_box, sbox, mine, msg>>
BY DEF serverVars, Sits, Sending, SendBroadcast, SendList, SendWhisperList, SendWhisper, SendQuit,
   Send, Receive, TypeCommand, TypeName, ReceiveStop, ClientSigint, Kill, memory

(* Every step leaves an object with one id.                                *)
LEMMA ObjectsKept ==
  ASSUME Known, Next, RoomTypes'
  PROVE  Objects'
<1>1. Len(box') \in Nat
  BY DEF RoomTypes, MemoryTypes, Boxes
<1>2. CASE UNCHANGED clientVars /\ Looks
  BY <1>1, <1>2, LooksPointers, PointersStay DEF Known
<1>3. CASE UNCHANGED serverVars /\ \E p \in Procs : Sits(p) \/ Sending(p) \/ Receive(p)
  BY <1>1, <1>3, SitsPointers, PointersStay DEF Known
<1>4. CASE /\ UNCHANGED clientVars
           /\ HandleWhisper \/ HandleJoin \/ HandleQuit \/ ServerStart \/ Recv
  BY <1>4, WhisperObjects, JoinedObjects, QuitObjects, StartObjects, RecvObjects
<1>5. CASE UNCHANGED serverVars /\ \E p \in Procs : Join(p) \/ OpenOwn(p)
  BY <1>5, JoinObjects, OpenOwnObjects
<1> QED
  BY <1>2, <1>3, <1>4, <1>5, Steps
-----------------------------------------------------------------------------
\* A message the server puts into the box b of a client
Posted(b) ==
    /\ b \in 1 .. Len(box) /\ b # shm[SERVER_ID] /\ UNCHANGED shm
    /\ Len(box') = Len(box) /\ Queue' = Queue /\ OthersStay(b)
    /\ box'[b] \in {box[b], Append(box[b], msg')}

(* One send of client_boardcast is to the first member left.               *)
LEMMA CastEffect ==
  ASSUME Known, Cast
  PROVE  /\ Min(Rest) \in Rest /\ Posted(room[Min(Rest)].client_box)
         /\ msg' = msg /\ cursor' = Min(Rest) + 1
<1> DEFINE i == Min(Rest)
           b == room[i].client_box
<1>1. i \in Rest /\ i \in 1 .. MAX_CLIENT /\ b \in 1 .. Len(box)
  BY Looping DEF Cast, Known
<1>2. TiedTo(b, i)
  BY DEF TiedTo
<1>3. b # shm[SERVER_ID]
  BY <1>1, <1>2, Anchor DEF Known
<1>4. UNCHANGED <<shm, msg>> /\ box' = Put(box, b, msg) /\ cursor' = i + 1 /\ msg \in Msg
  BY DEF Cast, After, Known, RoomTypes, ServerTypes
<1> HIDE DEF i, Msg
<1> QED
  BY <1>1, <1>3, <1>4, PostEffect DEF Posted, Known, i

(* One send of the answer to LIST is to the one who asked.                 *)
LEMMA ListEffect ==
  ASSUME Known, ListOne, RoomTypes'
  PROVE  /\ Posted(client_box) /\ spc = "list" /\ spc' = "list" /\ msg'.id = msg.id
         /\ msg'.text = <<"inside", room[Min(ToList)].session_owner>>
         /\ msg'.seq = msg.seq /\ msg'.type = msg.type
<1>1. msg \in Msg /\ msg' \in Msg /\ client_box \in 1 .. Len(box)
  BY Anchor DEF Known, ListOne, RoomTypes, ServerTypes, NoBox
<1>2. /\ spc = "list" /\ spc' = "list" /\ msg'.id = msg.id
      /\ msg'.text = <<"inside", room[Min(ToList)].session_owner>>
      /\ msg'.seq = msg.seq /\ msg'.type = msg.type
  BY <1>1 DEF ListOne, Msg
<1>3. TiedTo(client_box, msg.id) /\ msg.id \in 1 .. MAX_CLIENT
  BY <1>2 DEF TiedTo, Known, Asked
<1>4. client_box # shm[SERVER_ID]
  BY <1>1, <1>3, Anchor DEF Known
<1>5. UNCHANGED shm /\ box' = Put(box, client_box, msg')
  BY DEF ListOne
<1> HIDE DEF Msg
<1> QED
  BY <1>1, <1>2, <1>4, <1>5, PostEffect DEF Posted, Known

(* A whisper is sent to the receiver's box alone.                          *)
LEMMA WhisperEffect ==
  ASSUME Known, WhisperSend
  PROVE  Posted(receiver_box) /\ msg' = msg /\ msg.type = "WHISPER"
<1>1. msg \in Msg /\ receiver_box \in 1 .. Len(box)
  BY Anchor DEF Known, WhisperSend, RoomTypes, ServerTypes, NoBox
<1>2. UNCHANGED <<shm, msg>> /\ box' = Put(box, receiver_box, msg) /\ spc = "whisper"
  BY DEF WhisperSend
<1>3. receiver_box # shm[SERVER_ID] /\ msg.type = "WHISPER"
  BY <1>2 DEF WhisperSend, Known, Objects, Asked
<1> HIDE DEF Msg
<1> QED
  BY <1>1, <1>2, <1>3, PostEffect DEF Posted, Known

\* Steps that move no message
Still == UNCHANGED <<box, Queue>>

(* The steps that send nothing leave the boxes.                            *)
LEMMA LooksStill ==
  ASSUME Known, Looks
  PROVE  Still \/ Cast \/ ListOne \/ WhisperSend
BY DEF Still, Queue, Looks, ServerSigint, ServerKill, ServerStop, HandleOther, CastDone, ListDone,
   ServerFault, HandleList, HandleBroadcast, memory

(* The steps that open nothing leave the queue of requests.                *)
LEMMA LooksQueue ==
  ASSUME Known, Looks, RoomTypes'
  PROVE  Queue' = Queue
BY LooksStill, CastEffect, ListEffect, WhisperEffect DEF Still, Posted

(* Handling a request leaves the queue of requests.                        *)
LEMMA HandlesStill ==
  ASSUME Known, UNCHANGED clientVars, HandleJoin \/ HandleQuit \/ HandleWhisper, RoomTypes'
  PROVE  Still
<1>1. UNCHANGED box /\ shm'[SERVER_ID] = shm[SERVER_ID]
  BY QuitObjects DEF HandleJoin, HandleQuit, HandleWhisper, memory
<1> QED
  BY <1>1 DEF Still, Queue

(* The steps of a client that touch no box leave the boxes.                *)
LEMMA SitsStill ==
  ASSUME NEW p, Sits(p)
  PROVE  Still
BY DEF Still, Queue, Sits, TypeCommand, TypeName, ReceiveStop, ClientSigint, Kill, memory
-----------------------------------------------------------------------------
(* Asked, for the steps of the server                                      *)
LEMMA AskedByLooks ==
  ASSUME Known, UNCHANGED clientVars, Looks, RoomTypes'
  PROVE  Asked'
<1>1. Queue' = Queue /\ msg'.id = msg.id
  BY LooksQueue, LooksPointers DEF Known
<1>2. UNCHANGED <<cpc, typed>>
  BY DEF clientVars
<1> DEFINE A == /\ spc' # "SERVER" /\ (spc' \in Request_ => Asks(msg') /\ msg'.type = spc')
                /\ (spc' \in {"cast", "list", "whisper"} => msg'.id \in 1 .. MAX_CLIENT)
                /\ (spc' = "whisper" => msg'.type = "WHISPER")
<1>3. ASSUME ServerSigint \/ ServerFault \/ ServerKill \/ ServerStop \/ HandleOther \/ CastDone \/ ListDone
             \/ WhisperSend
      PROVE  A
  BY <1>3 DEF ServerSigint, ServerFault, ServerKill, ServerStop, HandleOther, CastDone, ListDone,
     WhisperSend, Known, Asked, Request_
<1>4. ASSUME Cast PROVE A
  BY <1>4 DEF Cast, Known, Asked, Request_
<1>5. ASSUME ListOne PROVE A
  BY <1>1, <1>5, ListEffect DEF Known, Asked, Request_
<1>6. ASSUME HandleList \/ HandleBroadcast PROVE A
  <2>1. spc \in Request_ /\ spc' \in {"list", "cast"}
    BY <1>6 DEF HandleList, HandleBroadcast, Announce, Request_
  <2> QED
    BY <1>1, <2>1 DEF Known, Asked, Asks, Request_
<1>7. A
  BY <1>3, <1>4, <1>5, <1>6 DEF Looks
<1> QED
  BY <1>1, <1>2, <1>7 DEF Known, Asked, Asks, Said

(* Handling a request keeps what is known of requests.                     *)
LEMMA AskedByHandlers ==
  ASSUME Known, UNCHANGED clientVars, HandleJoin \/ HandleQuit \/ HandleWhisper, RoomTypes'
  PROVE  Asked'
<1>1. Queue' = Queue /\ UNCHANGED <<cpc, typed>>
  BY HandlesStill DEF Still, clientVars
<1>2. msg \in Msg /\ msg' \in Msg
  BY DEF Known, RoomTypes, ServerTypes
<1>3. msg'.id = msg.id /\ (HandleWhisper => msg'.type = msg.type)
  BY <1>2 DEF HandleJoin, HandleQuit, HandleWhisper, Announce, Signed, Msg
<1>4. spc \in Request_ /\ (spc' = "cast" \/ (spc' = "whisper" /\ spc = "WHISPER" /\ HandleWhisper))
  BY DEF HandleJoin, HandleQuit, HandleWhisper, Announce, Request_
<1>5. /\ spc' # "SERVER" /\ spc' \notin Request_ /\ msg'.id \in 1 .. MAX_CLIENT
      /\ spc' = "whisper" => msg'.type = "WHISPER"
  BY <1>3, <1>4 DEF Known, Asked, Asks, Request_
<1> QED
  BY <1>1, <1>5 DEF Known, Asked, Asks, Said

(* A start of the server keeps what is known of requests.                  *)
LEMMA AskedByStart ==
  ASSUME Known, UNCHANGED clientVars, ServerStart
  PROVE  Asked'
<1>1. Queue' = <<>> /\ Len(<<>>) = 0 /\ spc' = "recv" /\ UNCHANGED <<cpc, typed>>
  BY StartEffect DEF Known, ServerStart, clientVars
<1> QED
  BY <1>1 DEF Known, Asked, Request_

(* A request that is taken was sent by a client.                           *)
LEMMA AskedByRecv ==
  ASSUME Known, UNCHANGED clientVars, Recv
  PROVE  Asked'
<1> HIDE DEF Msg
<1>1. /\ Queue # <<>> /\ Queue' = Remaining(Queue) /\ Asks(msg') /\ spc' = msg'.type
      /\ UNCHANGED <<cpc, typed>>
  BY RecvEffect DEF clientVars
<1>2. Queue \in Seq(Msg)
  BY Anchor DEF Known
<1>3. /\ Len(Queue) \in Nat \ {0} /\ Len(Queue') = Len(Queue) - 1
      /\ \A k \in 1 .. Len(Queue) - 1 : Queue'[k] = Queue[k + 1]
  BY <1>1, <1>2, Taking
<1>4. ASSUME NEW k \in 1 .. Len(Queue') PROVE Asks(Queue'[k])
  <2>1. k \in 1 .. Len(Queue) - 1 /\ k + 1 \in 1 .. Len(Queue)
    BY <1>3
  <2> QED
    BY <1>3, <2>1 DEF Known, Asked
<1>5. spc' \in Request_ /\ spc' # "SERVER" /\ spc' \notin {"cast", "list", "whisper"}
  BY <1>1 DEF Asks, Request_
<1> QED
  BY <1>1, <1>4, <1>5 DEF Known, Asked, Asks, Said
-----------------------------------------------------------------------------
(* Asked, for the steps of the clients                                     *)
LEMMA RequestAsks ==
  ASSUME Known, NEW p \in Procs, NEW type \in Request_, NEW text,
         type = "BROADCAST" => cpc[p] = "BROADCAST" /\ text = <<"said", p, typed[p]>>
  PROVE  /\ Asks(Request(p, type, text)) /\ Request(p, type, text).type = type
         /\ Request(p, type, text).text = text /\ Request(p, type, text).id = IdOf[p]
<1>1. IdOf[p] \in 1 .. MAX_CLIENT
  BY ClientAssumption, MemoryAssumption DEF Ids, SERVER_ID
<1>2. sname[p] \in UserName
  BY DEF Known, RoomTypes, ClientTypes
<1>3. type = "BROADCAST" => Said(text)
  <2> SUFFICES ASSUME type = "BROADCAST" PROVE typed[p] \in 1 .. MaxInputs[p]
    BY DEF Said
  <2>1. typed[p] \in Nat /\ typed[p] <= MaxInputs[p] /\ MaxInputs[p] \in Nat
    BY ClientAssumption DEF Known, RoomTypes, ClientTypes
  <2> QED
    BY <2>1 DEF Known, Asked
<1> QED
  BY <1>1, <1>2, <1>3 DEF Request, Asks

(* A request appended to the queue                                         *)
LEMMA SendingEffect ==
  ASSUME Known, NEW p \in Procs, Sending(p)
  PROVE  /\ \E m \in Msg : \E pc \in ClientStates \ {"start", "joined", "BROADCAST"} :
               /\ Asks(m) /\ m.id = IdOf[p] /\ m.type # "JOIN" /\ Queue' = Append(Queue, m)
               /\ cpc' = [cpc EXCEPT ![p] = pc]
               /\ m.type = "BROADCAST" => cpc[p] = "BROADCAST" /\ m.text = <<"said", p, typed[p]>>
         /\ UNCHANGED <<shm, sbox, mine, typed, sname, rpc, screen>>
         /\ OthersStay(shm[SERVER_ID]) /\ shm[SERVER_ID] # NoBox /\ cpc[p] # "start"
<1> HIDE DEF Msg, ClientStates
<1> DEFINE Good(m) == /\ m \in Msg /\ Asks(m) /\ m.id = IdOf[p] /\ m.type # "JOIN"
                      /\ m.type = "BROADCAST" => /\ cpc[p] = "BROADCAST"
                                                 /\ m.text = <<"said", p, typed[p]>>
<1>1. RoomTypes /\ Objects
  BY DEF Known
<1>2. /\ <<>> \in Content /\ <<"said", p, typed[p]>> \in Content
      /\ <<"whispered", p, typed[p], sname[p]>> \in Content
  <2>1. typed[p] \in Nat /\ sname[p] \in AnyName
    BY <1>1 DEF RoomTypes, ClientTypes, AnyName
  <2> HIDE DEF AnyName
  <2> QED
    BY <2>1 DEF Content
<1> HIDE DEF Content
<1>3. /\ cpc[p] = "BROADCAST" => Good(Request(p, "BROADCAST", <<"said", p, typed[p]>>))
      /\ Good(Request(p, "LIST", <<>>)) /\ Good(Request(p, "QUIT", <<>>))
      /\ Good(Request(p, "WHISPER", <<"whispered", p, typed[p], sname[p]>>))
  BY <1>1, <1>2, RequestIsMsg, RequestAsks DEF Request_
<1> HIDE DEF Good
<1>4. /\ cpc[p] # "start"
      /\ \E m, pc : Good(m) /\ pc \in ClientStates \ {"start", "joined", "BROADCAST"} /\ Send(p, m, pc)
  BY <1>1, <1>3, Sends
<1>5. PICK m, pc : Good(m) /\ pc \in ClientStates \ {"start", "joined", "BROADCAST"} /\ Send(p, m, pc)
  BY <1>4
<1>6. m \in Msg
  BY <1>5 DEF Good
<1>7. /\ Queue' = Append(Queue, m) /\ UNCHANGED <<shm, sbox, mine, typed, sname, rpc, screen>>
      /\ OthersStay(shm[SERVER_ID]) /\ shm[SERVER_ID] # NoBox
      /\ cpc' = [cpc EXCEPT ![p] = pc]
  BY <1>1, <1>4, <1>5, <1>6, SendEffect
<1> QED
  BY <1>4, <1>5, <1>7 DEF Good

(* A client sends only requests of its own.                                *)
LEMMA AskedBySending ==
  ASSUME Known, UNCHANGED serverVars, NEW p \in Procs, Sending(p)
  PROVE  Asked'
<1> HIDE DEF Msg
<1>1. PICK m \in Msg, pc \in ClientStates \ {"start", "joined", "BROADCAST"} :
         Asks(m) /\ Queue' = Append(Queue, m) /\ cpc' = [cpc EXCEPT ![p] = pc]
  BY SendingEffect
<1>2. UNCHANGED <<typed, spc, msg>>
  BY SendingEffect DEF serverVars
<1>3. Queue \in Seq(Msg) /\ cpc \in [Procs -> ClientStates]
  BY Anchor DEF Known, RoomTypes, ClientTypes
<1>4. \A k \in 1 .. Len(Queue') : Asks(Queue'[k])
  BY <1>1, <1>3 DEF Known, Asked
<1>5. \A q \in Procs : cpc'[q] = "BROADCAST" => typed[q] >= 1
  BY <1>1, <1>3 DEF Known, Asked
<1> QED
  BY <1>2, <1>4, <1>5 DEF Known, Asked, Asks, Said

(* A JOIN is a request.                                                    *)
LEMMA AskedByJoin ==
  ASSUME Known, UNCHANGED serverVars, NEW p \in Procs, Join(p)
  PROVE  Asked'
<1> HIDE DEF Msg
<1> DEFINE m == Request(p, "JOIN", <<>>)
<1>1. Asks(m)
  BY RequestAsks DEF Request_
<1>2. Queue' \in {Queue, Append(Queue, m)}
  BY JoinEffect DEF Known
<1>3. cpc' = [cpc EXCEPT ![p] = "joined"] /\ UNCHANGED <<typed, spc, msg>>
  BY DEF Join, serverVars
<1>4. Queue \in Seq(Msg) /\ cpc \in [Procs -> ClientStates]
  BY Anchor DEF Known, RoomTypes, ClientTypes
<1>5. m \in Msg
  <2>1. <<>> \in Content
    BY DEF Content
  <2> QED
    BY <2>1, RequestIsMsg DEF Known, Request_
<1> HIDE DEF m
<1>6. \A k \in 1 .. Len(Queue') : Asks(Queue'[k])
  BY <1>1, <1>2, <1>4, <1>5 DEF Known, Asked
<1>7. \A q \in Procs : cpc'[q] = "BROADCAST" => typed[q] >= 1
  BY <1>3, <1>4 DEF Known, Asked
<1> QED
  BY <1>3, <1>6, <1>7 DEF Known, Asked, Asks, Said

(* The other steps of a client keep what is known of requests.             *)
LEMMA AskedByClient ==
  ASSUME Known, UNCHANGED serverVars, NEW p \in Procs, OpenOwn(p) \/ Sits(p) \/ Receive(p)
  PROVE  Asked'
<1>1. Queue' = Queue
  BY OpenOwnEffect, SitsStill, ReceiveEffect DEF Known, Still
<1>2. UNCHANGED <<spc, msg>>
  BY DEF serverVars
<1>3. /\ cpc \in [Procs -> ClientStates] /\ typed \in [Procs -> Nat]
      /\ \A q \in Procs : cpc[q] = "BROADCAST" => typed[q] >= 1
  BY DEF Known, RoomTypes, ClientTypes, Asked
<1>4. ASSUME NEW q \in Procs, cpc'[q] = "BROADCAST" PROVE typed'[q] >= 1
  <2>1. CASE TypeCommand(p)
    <3>1. PICK c : cpc' = [cpc EXCEPT ![p] = c]
      BY <2>1 DEF TypeCommand
    <3> QED
      BY <1>3, <1>4, <2>1, <3>1 DEF TypeCommand
  <2>2. CASE TypeName(p)
    BY <1>3, <1>4, <2>2 DEF TypeName
  <2>3. CASE OpenOwn(p)
    BY <1>3, <1>4, <2>3 DEF OpenOwn
  <2>4. CASE Kill(p)
    BY <1>3, <1>4, <2>4 DEF Kill
  <2>5. CASE Receive(p) \/ ReceiveStop(p) \/ ClientSigint(p)
    BY <1>3, <1>4, <2>5 DEF Receive, ReceiveStop, ClientSigint
  <2> QED
    BY <2>1, <2>2, <2>3, <2>4, <2>5 DEF Sits
<1> QED
  BY <1>1, <1>2, <1>4 DEF Known, Asked, Asks, Said

(* All this holds at first.                                                *)
LEMMA KnownInit ==
  ASSUME Init
  PROVE  Known
<1>1. RoomTypes
  BY InitTypes
<1>2. Objects
  <2>1. Len(box) = 0
    BY DEF Init, MemoryInit
  <2>2. SERVER_ID \in Ids
    BY MemoryAssumption DEF Ids, SERVER_ID
  <2> QED
    BY <2>1, <2>2 DEF Init, MemoryInit, ServerInit, ClientInit, Objects
<1>3. Asked
  <2>1. Queue = <<>> /\ Len(<<>>) = 0
    BY MemoryAssumption DEF Queue, Init, MemoryInit, Ids, SERVER_ID
  <2> QED
    BY <2>1 DEF Init, ServerInit, ClientInit, Asked, Request_
<1> QED
  BY <1>1, <1>2, <1>3 DEF Known

(* Every step keeps it.                                                    *)
LEMMA KnownNext ==
  ASSUME Known, [Next]_vars
  PROVE  Known'
<1>1. RoomTypes'
  BY NextTypes DEF Known
<1>2. CASE UNCHANGED vars
  <2>1. UNCHANGED <<memory, serverVars, clientVars>>
    BY <1>2 DEF vars
  <2>2. Objects' /\ Asked'
    BY <2>1 DEF Known, Objects, Asked, TiedTo, Queue, Asks, Said, memory, serverVars, clientVars
  <2> QED
    BY <1>1, <2>2 DEF Known
<1>3. CASE Next
  <2>1. Objects'
    BY <1>1, <1>3, ObjectsKept
  <2>2. Asked'
    BY <1>1, <1>3, Steps, AskedByLooks, AskedByHandlers, AskedByStart, AskedByRecv,
       AskedBySending, AskedByJoin, AskedByClient
  <2> QED
    BY <1>1, <2>1, <2>2 DEF Known
<1> QED
  BY <1>2, <1>3

(* Types, objects and requests, always.                                    *)
LEMMA KnownHolds == Spec => []Known
<1>1. Init => Known
  BY KnownInit
<1>2. Known /\ [Next]_vars => Known'
  BY KnownNext
<1> QED
  BY <1>1, <1>2, PTL DEF Spec
-----------------------------------------------------------------------------
(* The order of what one user says.  A line goes from the keyboard to the  *)
(* queue, to msg and to the log, and never past an earlier one.            *)
Older(s, t) == s[1] = "said" /\ t[1] = "said" /\ s[2] = t[2] => s[3] < t[3]

\* The line was typed; one that is typed and not yet sent is later.
NotAhead(t) ==
    \A p \in Procs :
        t[1] = "said" /\ t[2] = p =>
            t[3] \in Nat /\ t[3] <= typed[p] /\ (cpc[p] = "BROADCAST" => t[3] < typed[p])

InOrder ==
    /\ \A k \in 1 .. Len(log) : NotAhead(log[k])
    /\ \A j, k \in 1 .. Len(log) : j < k => Older(log[j], log[k])
    /\ spc = "BROADCAST" =>
          NotAhead(msg.text) /\ \A j \in 1 .. Len(log) : Older(log[j], msg.text)
    /\ \A k \in 1 .. Len(Queue) : Queue[k].type = "BROADCAST" =>
          /\ NotAhead(Queue[k].text)
          /\ \A j \in 1 .. Len(log) : Older(log[j], Queue[k].text)
          /\ spc = "BROADCAST" => Older(msg.text, Queue[k].text)
          /\ \A j \in 1 .. Len(Queue) :
                j < k /\ Queue[j].type = "BROADCAST" => Older(Queue[j].text, Queue[k].text)

(* A step that moves no line                                               *)
LEMMA OrderStays ==
  ASSUME InOrder, UNCHANGED <<Queue, log>>, \A t : NotAhead(t) => NotAhead(t)',
         spc' = "BROADCAST" => spc = "BROADCAST" /\ msg' = msg
  PROVE  InOrder'
<1> HIDE DEF NotAhead, Older, Queue
<1> QED
  BY DEF InOrder

(* The steps of the server that log no line keep the order.                *)
LEMMA OrderByQuietServer ==
  ASSUME Known, InOrder, UNCHANGED clientVars, Looks \/ HandleWhisper, ~HandleBroadcast, RoomTypes'
  PROVE  InOrder'
<1>1. Queue' = Queue
  BY LooksQueue, HandlesStill DEF Still
<1>2. log' = log
  BY DEF Looks, ServerSigint, ServerKill, ServerStop, HandleOther, CastDone, ListDone,
     ServerFault, HandleList, Cast, ListOne, WhisperSend, HandleWhisper
<1>3. spc' = "BROADCAST" => spc = "BROADCAST" /\ msg' = msg
  BY DEF Looks, ServerSigint, ServerKill, ServerStop, HandleOther, CastDone, ListDone,
     ServerFault, HandleList, Cast, ListOne, WhisperSend, HandleWhisper
<1>4. \A t : NotAhead(t) => NotAhead(t)'
  BY DEF NotAhead, clientVars
<1> QED
  BY <1>1, <1>2, <1>3, <1>4, OrderStays

(* An announcement, of what was said or of who came or went                *)
LEMMA OrderByAnnouncing ==
  ASSUME Known, InOrder, UNCHANGED clientVars, RoomTypes',
         HandleBroadcast \/ HandleJoin \/ HandleQuit
  PROVE  InOrder'
<1> HIDE DEF Msg, Content
<1>1. Queue' = Queue /\ spc' = "cast"
  BY LooksQueue, HandlesStill DEF Still, Looks, HandleBroadcast, HandleJoin, HandleQuit, Announce
<1>2. \A t : NotAhead(t) <=> NotAhead(t)'
  BY DEF NotAhead, clientVars
<1>3. PICK t : /\ log' = Append(log, t)
               /\ t[1] # "said" \/ (spc = "BROADCAST" /\ t = msg.text)
  <2>1. msg \in Msg
    BY DEF Known, RoomTypes, ServerTypes
  <2>2. CASE HandleBroadcast
    BY <2>2 DEF HandleBroadcast, Announce
  <2>3. CASE HandleJoin
    <3> DEFINE u == <<"joined", msg.name>>
    <3>1. log' = Append(log, u)
      BY <2>1, <2>3 DEF HandleJoin, Announce, Msg
    <3>2. u[1] # "said"
      OBVIOUS
    <3> HIDE DEF u
    <3> QED
      BY <3>1, <3>2
  <2>4. CASE HandleQuit
    <3> DEFINE u == <<"left", msg.name>>
    <3>1. log' = Append(log, u)
      BY <2>1, <2>4 DEF HandleQuit, Announce, Msg
    <3>2. u[1] # "said"
      OBVIOUS
    <3> HIDE DEF u
    <3> QED
      BY <3>1, <3>2
  <2> QED
    BY <2>2, <2>3, <2>4
<1>4. /\ NotAhead(t) /\ \A j \in 1 .. Len(log) : Older(log[j], t)
      /\ \A k \in 1 .. Len(Queue) : Queue[k].type = "BROADCAST" => Older(t, Queue[k].text)
  <2>1. CASE t[1] # "said"
    BY <2>1 DEF NotAhead, Older
  <2>2. CASE spc = "BROADCAST" /\ t = msg.text
    <3> HIDE DEF NotAhead, Older
    <3> QED
      BY <2>2 DEF InOrder
  <2> QED
    BY <1>3, <2>1, <2>2
<1>5. log \in Seq(Content)
  BY DEF Known, RoomTypes, ServerTypes
<1>6. \A k \in 1 .. Len(log') : log'[k] = IF k = Len(log) + 1 THEN t ELSE log[k]
  BY <1>3, <1>5
<1>7. /\ Len(log') = Len(log) + 1 /\ Len(log) \in Nat
  BY <1>3, <1>5
<1> HIDE DEF NotAhead, Older, Queue
<1>8. /\ \A k \in 1 .. Len(log') : NotAhead(log'[k])
      /\ \A j, k \in 1 .. Len(log') : j < k => Older(log'[j], log'[k])
  BY <1>4, <1>6, <1>7 DEF InOrder
<1>9. \A k \in 1 .. Len(Queue) : Queue[k].type = "BROADCAST" =>
          \A j \in 1 .. Len(log') : Older(log'[j], Queue[k].text)
  BY <1>4, <1>6, <1>7 DEF InOrder
<1> QED
  BY <1>1, <1>2, <1>8, <1>9 DEF InOrder

(* A start of the server keeps the order.                                  *)
LEMMA OrderByStart ==
  ASSUME Known, InOrder, UNCHANGED clientVars, ServerStart
  PROVE  InOrder'
<1>1. Queue' = <<>> /\ spc' = "recv" /\ log' = log /\ Len(<<>>) = 0
  BY StartEffect DEF Known, ServerStart
<1>2. \A t : NotAhead(t) <=> NotAhead(t)'
  BY DEF NotAhead, clientVars
<1> HIDE DEF NotAhead, Older, Queue
<1> QED
  BY <1>1, <1>2 DEF InOrder

(* The request taken is older than those that stay.                        *)
LEMMA OrderByRecv ==
  ASSUME Known, InOrder, UNCHANGED clientVars, Recv
  PROVE  InOrder'
<1> HIDE DEF Msg
<1>1. /\ Queue # <<>> /\ Queue' = Remaining(Queue) /\ msg' = Queue[1] /\ spc' = msg'.type
      /\ log' = log
  BY RecvEffect DEF Recv
<1>2. Queue \in Seq(Msg)
  BY Anchor DEF Known
<1>3. /\ Len(Queue) \in Nat \ {0} /\ Len(Queue') = Len(Queue) - 1
      /\ \A k \in 1 .. Len(Queue) - 1 : Queue'[k] = Queue[k + 1]
  BY <1>1, <1>2, Taking
<1>4. \A t : NotAhead(t) <=> NotAhead(t)'
  BY DEF NotAhead, clientVars
<1>5. \A k \in 1 .. Len(Queue') : /\ k + 1 \in 1 .. Len(Queue) /\ 1 < k + 1 /\ 1 \in 1 .. Len(Queue)
                                  /\ Queue'[k] = Queue[k + 1]
  BY <1>3
<1> HIDE DEF NotAhead, Older, Queue
<1>6. spc' = "BROADCAST" =>
          NotAhead(msg'.text) /\ \A j \in 1 .. Len(log) : Older(log[j], msg'.text)
  <2>1. 1 \in 1 .. Len(Queue)
    BY <1>3
  <2> QED
    BY <1>1, <2>1 DEF InOrder
<1>7. ASSUME NEW k \in 1 .. Len(Queue'), Queue'[k].type = "BROADCAST"
      PROVE  /\ NotAhead(Queue'[k].text)
             /\ \A j \in 1 .. Len(log) : Older(log[j], Queue'[k].text)
             /\ spc' = "BROADCAST" => Older(msg'.text, Queue'[k].text)
             /\ \A j \in 1 .. Len(Queue') :
                   j < k /\ Queue'[j].type = "BROADCAST" => Older(Queue'[j].text, Queue'[k].text)
  <2>1. k + 1 \in 1 .. Len(Queue) /\ 1 \in 1 .. Len(Queue) /\ 1 < k + 1 /\ Queue'[k] = Queue[k + 1]
    BY <1>5
  <2>2. /\ NotAhead(Queue[k + 1].text)
        /\ \A j \in 1 .. Len(log) : Older(log[j], Queue[k + 1].text)
        /\ \A j \in 1 .. Len(Queue) :
              j < k + 1 /\ Queue[j].type = "BROADCAST" => Older(Queue[j].text, Queue[k + 1].text)
    BY <1>7, <2>1 DEF InOrder
  <2>3. \A j \in 1 .. Len(Queue') : j < k => j + 1 < k + 1
    BY <1>3
  <2> QED
    BY <1>1, <1>5, <2>1, <2>2, <2>3
<1> QED
  BY <1>1, <1>4, <1>6, <1>7 DEF InOrder

(* A JOIN keeps the order.                                                 *)
LEMMA OrderByJoin ==
  ASSUME Known, InOrder, UNCHANGED serverVars, NEW p \in Procs, Join(p)
  PROVE  InOrder'
<1> HIDE DEF Msg
<1> DEFINE m == Request(p, "JOIN", <<>>)
<1>1. m.type # "BROADCAST"
  BY DEF Request
<1>2. Queue' \in {Queue, Append(Queue, m)}
  BY JoinEffect DEF Known
<1>3. cpc' = [cpc EXCEPT ![p] = "joined"] /\ UNCHANGED <<typed, spc, msg, log>>
  BY DEF Join, serverVars
<1>4. Queue \in Seq(Msg) /\ cpc \in [Procs -> ClientStates]
  BY Anchor DEF Known, RoomTypes, ClientTypes
<1>5. \A t : NotAhead(t) => NotAhead(t)'
  BY <1>3, <1>4 DEF NotAhead
<1> HIDE DEF m
<1>6. \A k \in 1 .. Len(Queue') : Queue'[k].type = "BROADCAST" =>
          k \in 1 .. Len(Queue) /\ Queue'[k] = Queue[k]
  BY <1>1, <1>2, <1>4
<1> HIDE DEF NotAhead, Older, Queue
<1> QED
  BY <1>3, <1>5, <1>6 DEF InOrder

(* A line that is sent is later than all its user's lines before.          *)
LEMMA OrderBySending ==
  ASSUME Known, InOrder, UNCHANGED serverVars, NEW p \in Procs, Sending(p)
  PROVE  InOrder'
<1> HIDE DEF Msg
<1>1. PICK m \in Msg, pc \in ClientStates \ {"start", "joined", "BROADCAST"} :
               /\ Asks(m) /\ m.id = IdOf[p] /\ m.type # "JOIN" /\ Queue' = Append(Queue, m)
               /\ cpc' = [cpc EXCEPT ![p] = pc]
               /\ m.type = "BROADCAST" => cpc[p] = "BROADCAST" /\ m.text = <<"said", p, typed[p]>>
  BY SendingEffect
<1>2. UNCHANGED <<typed, spc, msg, log>>
  BY SendingEffect DEF serverVars
<1>3. /\ Queue \in Seq(Msg) /\ Len(Queue) \in Nat /\ cpc \in [Procs -> ClientStates]
      /\ typed[p] \in Nat
  BY Anchor DEF Known, RoomTypes, ClientTypes
<1>4. \A t : NotAhead(t) => NotAhead(t)'
  BY <1>1, <1>2, <1>3 DEF NotAhead
<1>5. m.type = "BROADCAST" =>
         NotAhead(m.text)' /\ \A t : NotAhead(t) => Older(t, m.text)
  BY <1>1, <1>2, <1>3 DEF NotAhead, Older
<1>6. \A k \in 1 .. Len(Queue') :
          IF k = Len(Queue) + 1 THEN Queue'[k] = m ELSE k \in 1 .. Len(Queue) /\ Queue'[k] = Queue[k]
  BY <1>1, <1>3
<1>7. Len(Queue') = Len(Queue) + 1
  BY <1>1, <1>3
<1> HIDE DEF NotAhead, Older, Queue
<1>8. ASSUME NEW k \in 1 .. Len(Queue'), Queue'[k].type = "BROADCAST"
      PROVE  /\ NotAhead(Queue[k].text)'
             /\ \A j \in 1 .. Len(log) : Older(log[j], Queue'[k].text)
             /\ spc = "BROADCAST" => Older(msg.text, Queue'[k].text)
             /\ \A j \in 1 .. Len(Queue') :
                   j < k /\ Queue'[j].type = "BROADCAST" => Older(Queue'[j].text, Queue'[k].text)
  <2>1. CASE k = Len(Queue) + 1
    <3>1. \A j \in 1 .. Len(Queue') : j < k => j \in 1 .. Len(Queue) /\ Queue'[j] = Queue[j]
      BY <1>3, <1>6, <1>7, <2>1
    <3>2. Queue'[k] = m /\ m.type = "BROADCAST"
      BY <1>6, <1>8, <2>1
    <3>3. NotAhead(Queue[k].text)'
      BY <1>5, <3>2
    <3>4. \A j \in 1 .. Len(log) : NotAhead(log[j])
      BY DEF InOrder
    <3>5. spc = "BROADCAST" => NotAhead(msg.text)
      BY DEF InOrder
    <3>6. \A j \in 1 .. Len(Queue) : Queue[j].type = "BROADCAST" => NotAhead(Queue[j].text)
      BY DEF InOrder
    <3> QED
      BY <1>5, <3>1, <3>2, <3>3, <3>4, <3>5, <3>6
  <2>2. CASE k # Len(Queue) + 1
    <3>1. k \in 1 .. Len(Queue) /\ Queue'[k] = Queue[k]
      BY <1>6, <2>2
    <3>2. \A j \in 1 .. Len(Queue') : j < k => j \in 1 .. Len(Queue) /\ Queue'[j] = Queue[j]
      BY <1>3, <1>6, <1>7, <3>1
    <3> QED
      BY <1>4, <1>8, <3>1, <3>2 DEF InOrder
  <2> QED
    BY <2>1, <2>2
<1> QED
  BY <1>2, <1>4, <1>8 DEF InOrder

(* The other steps of a client keep the order.                             *)
LEMMA OrderByClient ==
  ASSUME Known, InOrder, UNCHANGED serverVars, NEW p \in Procs, OpenOwn(p) \/ Sits(p) \/ Receive(p)
  PROVE  InOrder'
<1>1. Queue' = Queue
  BY OpenOwnEffect, SitsStill, ReceiveEffect DEF Known, Still
<1>2. UNCHANGED <<spc, msg, log>>
  BY DEF serverVars
<1>3. cpc \in [Procs -> ClientStates] /\ typed \in [Procs -> Nat]
  BY DEF Known, RoomTypes, ClientTypes
<1>4. \A t : NotAhead(t) => NotAhead(t)'
  <2>1. CASE TypeCommand(p)
    <3>1. typed' = [typed EXCEPT ![p] = @ + 1] /\ \A q \in Procs : q # p => cpc'[q] = cpc[q]
      BY <1>3, <2>1 DEF TypeCommand
    <3> QED
      BY <1>3, <3>1 DEF NotAhead
  <2>2. CASE TypeName(p)
    <3>1. typed' = [typed EXCEPT ![p] = @ + 1] /\ \A q \in Procs : q # p => cpc'[q] = cpc[q]
      BY <1>3, <2>2 DEF TypeName
    <3> QED
      BY <1>3, <3>1 DEF NotAhead
  <2>3. CASE OpenOwn(p)
    BY <1>3, <2>3 DEF OpenOwn, NotAhead
  <2>4. CASE Kill(p)
    BY <1>3, <2>4 DEF Kill, NotAhead
  <2>5. CASE Receive(p) \/ ReceiveStop(p) \/ ClientSigint(p)
    BY <1>3, <2>5 DEF Receive, ReceiveStop, ClientSigint, NotAhead
  <2> QED
    BY <2>1, <2>2, <2>3, <2>4, <2>5 DEF Sits
<1> QED
  BY <1>1, <1>2, <1>4, OrderStays

(* Every step keeps the order of what one user says.                       *)
LEMMA OrderNext ==
  ASSUME Known, InOrder, [Next]_vars
  PROVE  InOrder'
<1>1. CASE UNCHANGED vars
  <2>1. UNCHANGED <<Queue, log, spc, msg, typed, cpc>>
    BY <1>1 DEF vars, memory, serverVars, clientVars, Queue
  <2>2. \A t : NotAhead(t) => NotAhead(t)'
    BY <2>1 DEF NotAhead
  <2> QED
    BY <2>1, <2>2, OrderStays
<1>2. CASE Next
  <2>1. RoomTypes'
    BY <1>2, NextTypes DEF Known
  <2> QED
    BY <1>2, <2>1, Steps, OrderByQuietServer, OrderByAnnouncing, OrderByStart, OrderByRecv,
       OrderByJoin, OrderBySending, OrderByClient
<1> QED
  BY <1>1, <1>2

(* What one user types is announced in the order it was typed, and once,   *)
(* for any number of clients, of lines and of restarts of the server.      *)
THEOREM RoomSenderOrder == Spec => []SenderOrder
<1>1. Init => InOrder
  <2> SUFFICES ASSUME Init PROVE InOrder
    OBVIOUS
  <2>1. Queue = <<>> /\ log = <<>> /\ spc = "off" /\ Len(<<>>) = 0
    BY MemoryAssumption DEF Queue, Init, MemoryInit, ServerInit, Ids, SERVER_ID
  <2> QED
    BY <2>1 DEF InOrder
<1>2. Known /\ InOrder /\ [Next]_vars => InOrder'
  BY OrderNext
<1>3. InOrder => SenderOrder
  BY DEF InOrder, SenderOrder, Older
<1> QED
  BY <1>1, <1>2, <1>3, KnownHolds, PTL DEF Spec
-----------------------------------------------------------------------------
(* The order of what the clients see.  Every box but the server's holds a  *)
(* part of the log in its order, all of it after what its readers have     *)
(* seen; while an announcement is handed round, the members that do not    *)
(* have it yet are behind it.                                              *)
SeenUpTo(p) == IF seen[p] = <<>> THEN 0 ELSE seen[p][Len(seen[p])][1]

Announced(m) == m.seq \in 1 .. Len(log) /\ m.text = log[m.seq]

Inbox(b) ==
    \A k \in 1 .. Len(box[b]) : Public(box[b][k]) =>
        /\ Announced(box[b][k])
        /\ \A j \in 1 .. Len(box[b]) : j < k /\ Public(box[b][j]) => box[b][j].seq < box[b][k].seq
        /\ \A p \in Procs : mine[p] = b => SeenUpTo(p) < box[b][k].seq

Behind(b) ==
    /\ \A k \in 1 .. Len(box[b]) : Public(box[b][k]) => box[b][k].seq < Len(log)
    /\ \A p \in Procs : mine[p] = b => SeenUpTo(p) < Len(log)

Casting == /\ Len(log) >= 1 /\ msg.seq = Len(log) /\ msg.text = log[Len(log)]
           /\ \A i \in Rest : \A b \in 1 .. Len(box) : b = room[i].client_box => Behind(b)

Shows ==
    /\ \A b \in 1 .. Len(box) : b # shm[SERVER_ID] => Inbox(b)
    /\ \A p \in Procs : SeenUpTo(p) \in 0 .. Len(log)
    /\ \A p \in Procs : cpc[p] \in {"start", "joined"} => seen[p] = <<>>
    /\ spc = "cast" => Casting
    /\ log \in Seq(Texts)

(* A member that waits for the announcement has a client's box.            *)
LEMMA RestBoxes ==
  Known => \A i \in Rest : /\ room[i].client_box \in 1 .. Len(box)
                          /\ room[i].client_box # shm[SERVER_ID]
<1> SUFFICES ASSUME Known, NEW i \in Rest
             PROVE  room[i].client_box \in 1 .. Len(box) /\ room[i].client_box # shm[SERVER_ID]
  OBVIOUS
<1>1. room[i].client_box \in 1 .. Len(box) /\ i \in 1 .. MAX_CLIENT
  BY Looping DEF Known
<1>2. TiedTo(room[i].client_box, i)
  BY DEF TiedTo
<1> QED
  BY <1>1, <1>2, Anchor DEF Known

(* The same after a step.                                                  *)
LEMMA RestBoxesNext ==
  Known' => \A i \in Rest' : /\ room'[i].client_box \in 1 .. Len(box')
                            /\ room'[i].client_box # shm'[SERVER_ID]
<1>1. Known' => (\A i \in Rest : /\ room[i].client_box \in 1 .. Len(box)
                                /\ room[i].client_box # shm[SERVER_ID])'
  BY RestBoxes, PTL
<1> QED
  BY <1>1

(* A box that a step leaves keeps its order.                               *)
LEMMA InboxStays ==
  ASSUME NEW b, box'[b] = box[b], Inbox(b), \A m : Announced(m) => Announced(m)',
         \A p \in Procs : mine'[p] = b => mine[p] = b /\ SeenUpTo(p)' = SeenUpTo(p)
  PROVE  Inbox(b)'
<1> HIDE DEF Announced, Public, SeenUpTo
<1> QED
  BY DEF Inbox, Public

(* An empty box is in order.                                               *)
LEMMA InboxEmpty ==
  ASSUME NEW b, box'[b] = <<>>
  PROVE  Inbox(b)'
BY DEF Inbox

(* A later announcement, or no announcement, keeps the order.              *)
LEMMA InboxAppend ==
  ASSUME NEW b, NEW m, box[b] \in Seq(Msg), box'[b] \in {box[b], Append(box[b], m)},
         Inbox(b), UNCHANGED <<log, mine, seen>>,
         Public(m) => /\ Announced(m)
                      /\ \A k \in 1 .. Len(box[b]) : Public(box[b][k]) => box[b][k].seq < m.seq
                      /\ \A p \in Procs : mine[p] = b => SeenUpTo(p) < m.seq
  PROVE  Inbox(b)'
<1> HIDE DEF Msg, Public
<1>1. \A x : Announced(x) <=> Announced(x)'
  BY DEF Announced
<1>2. \A p : SeenUpTo(p) = SeenUpTo(p)'
  BY DEF SeenUpTo
<1> HIDE DEF Announced, SeenUpTo
<1>3. CASE box'[b] = box[b]
  BY <1>1, <1>2, <1>3, InboxStays
<1>4. CASE box'[b] = Append(box[b], m)
  <2>1. /\ Len(box[b]) \in Nat /\ Len(box'[b]) = Len(box[b]) + 1
        /\ \A k \in 1 .. Len(box'[b]) :
              IF k = Len(box[b]) + 1 THEN box'[b][k] = m
              ELSE k \in 1 .. Len(box[b]) /\ box'[b][k] = box[b][k]
    BY <1>4
  <2>2. ASSUME NEW k \in 1 .. Len(box'[b]), Public(box'[b][k])
        PROVE  /\ Announced(box'[b][k])
               /\ \A j \in 1 .. Len(box'[b]) :
                     j < k /\ Public(box'[b][j]) => box'[b][j].seq < box'[b][k].seq
               /\ \A p \in Procs : mine[p] = b => SeenUpTo(p) < box'[b][k].seq
    <3>1. CASE k = Len(box[b]) + 1
      <4>1. box'[b][k] = m
        BY <2>1, <3>1
      <4>2. \A j \in 1 .. Len(box'[b]) : j < k => j \in 1 .. Len(box[b]) /\ box'[b][j] = box[b][j]
        BY <2>1, <3>1
      <4> QED
        BY <2>2, <4>1, <4>2
    <3>2. CASE k # Len(box[b]) + 1
      <4>1. k \in 1 .. Len(box[b]) /\ box'[b][k] = box[b][k]
        BY <2>1, <3>2
      <4>2. \A j \in 1 .. Len(box'[b]) : j < k => j \in 1 .. Len(box[b]) /\ box'[b][j] = box[b][j]
        BY <2>1, <4>1
      <4> QED
        BY <2>2, <4>1, <4>2 DEF Inbox
    <3> QED
      BY <3>1, <3>2
  <2> QED
    BY <1>1, <1>2, <2>2 DEF Inbox
<1> QED
  BY <1>3, <1>4

(* A box that a step leaves stays behind.                                  *)
LEMMA BehindStays ==
  ASSUME NEW b, box'[b] = box[b], Behind(b), UNCHANGED log,
         \A p \in Procs : mine'[p] = b => mine[p] = b /\ SeenUpTo(p)' = SeenUpTo(p)
  PROVE  Behind(b)'
<1> HIDE DEF SeenUpTo, Public
<1> QED
  BY DEF Behind, Public

(* A step that takes nothing from a client's box, puts nothing there and   *)
(* announces nothing                                                       *)
LEMMA ShowsStays ==
  ASSUME Known, Shows, UNCHANGED <<log, seen, mine>>,
         shm[SERVER_ID] # NoBox => shm'[SERVER_ID] = shm[SERVER_ID],
         OthersStay(shm'[SERVER_ID]),
         shm'[SERVER_ID] \in {shm[SERVER_ID], Len(box) + 1},
         \A p \in Procs : cpc'[p] \in {"start", "joined"} => cpc[p] \in {"start", "joined"},
         spc' = "cast" => spc = "cast" /\ UNCHANGED <<msg, cursor, room>>
  PROVE  Shows'
<1>1. Len(box) \in Nat /\ shm[SERVER_ID] \in 0 .. Len(box)
  BY Anchor DEF Known
<1>2. \A p : SeenUpTo(p)' = SeenUpTo(p)
  BY DEF SeenUpTo
<1>3. \A m : Announced(m) => Announced(m)'
  BY DEF Announced
<1> HIDE DEF SeenUpTo, Announced
<1>4. ASSUME NEW b \in 1 .. Len(box'), b # shm'[SERVER_ID] PROVE Inbox(b)'
  <2>1. CASE b \in 1 .. Len(box)
    <3>1. box'[b] = box[b] /\ b # shm[SERVER_ID]
      BY <1>1, <1>4, <2>1 DEF OthersStay, NoBox
    <3> QED
      BY <1>2, <1>3, <2>1, <3>1, InboxStays DEF Shows
  <2>2. CASE b \notin 1 .. Len(box)
    BY <1>4, <2>2, InboxEmpty DEF OthersStay
  <2> QED
    BY <2>1, <2>2
<1>5. ASSUME spc' = "cast" PROVE Casting'
  <2>1. Rest' = Rest /\ Casting
    BY <1>5 DEF Rest, Shows
  <2>2. ASSUME NEW i \in Rest, NEW b \in 1 .. Len(box'), b = room[i].client_box
        PROVE  Behind(b)'
    <3>1. b \in 1 .. Len(box) /\ b # shm[SERVER_ID]
      BY <2>2, RestBoxes
    <3>2. b # shm'[SERVER_ID] /\ Behind(b)
      BY <1>1, <2>1, <2>2, <3>1 DEF Casting
    <3> QED
      BY <1>2, <3>1, <3>2, BehindStays DEF OthersStay
  <2> QED
    BY <1>5, <2>1, <2>2 DEF Casting
<1> QED
  BY <1>2, <1>4, <1>5 DEF Shows

(* A step that changes no box leaves the others.                           *)
LEMMA StillOthers ==
  ASSUME UNCHANGED box, NEW b
  PROVE  OthersStay(b)
BY DEF OthersStay

\* The steps of the server that announce nothing and send nothing
LEMMA ShowsByQuietServer ==
  ASSUME Known, Shows, UNCHANGED clientVars, Looks \/ HandleWhisper,
         ~HandleBroadcast, ~Cast, ~ListOne, ~WhisperSend
  PROVE  Shows'
<1>1. UNCHANGED <<box, shm>>
  BY DEF Looks, ServerSigint, ServerKill, ServerStop, HandleOther, CastDone, ListDone,
     ServerFault, HandleList, HandleWhisper, memory
<1>2. log' = log /\ (spc' = "cast" => spc = "cast" /\ UNCHANGED <<msg, cursor, room>>)
  BY DEF Looks, ServerSigint, ServerKill, ServerStop, HandleOther, CastDone, ListDone,
     ServerFault, HandleList, HandleWhisper
<1>3. UNCHANGED <<seen, mine, cpc>>
  BY DEF clientVars, screen
<1>4. OthersStay(shm'[SERVER_ID])
  BY <1>1, StillOthers
<1> QED
  BY <1>1, <1>2, <1>3, <1>4, ShowsStays

(* A start of the server keeps the order of what is seen.                  *)
LEMMA ShowsByStart ==
  ASSUME Known, Shows, UNCHANGED clientVars, ServerStart
  PROVE  Shows'
<1>1. /\ OthersStay(shm'[SERVER_ID]) /\ shm' = [shm EXCEPT ![SERVER_ID] = ObjectOf(SERVER_ID)]
  BY StartEffect DEF Known
<1>2. shm'[SERVER_ID] = ObjectOf(SERVER_ID)
  BY <1>1, Anchor DEF Known, RoomTypes, MemoryTypes
<1>3. log' = log /\ spc' = "recv" /\ UNCHANGED <<seen, mine, cpc>>
  BY DEF ServerStart, clientVars, screen
<1> QED
  BY <1>1, <1>2, <1>3, NameOfServer, ShowsStays DEF Known

(* Taking a request keeps the order of what is seen.                       *)
LEMMA ShowsByRecv ==
  ASSUME Known, Shows, UNCHANGED clientVars, Recv
  PROVE  Shows'
<1>1. OthersStay(shm[SERVER_ID]) /\ shm'[SERVER_ID] = shm[SERVER_ID] /\ Asks(msg') /\ spc' = msg'.type
  BY RecvEffect
<1>2. log' = log /\ spc' # "cast" /\ UNCHANGED <<seen, mine, cpc>>
  BY <1>1 DEF Recv, clientVars, screen, Asks, Request_
<1> QED
  BY <1>1, <1>2, ShowsStays

(* A client that joins keeps the order of what is seen.                    *)
LEMMA ShowsByJoin ==
  ASSUME Known, Shows, UNCHANGED serverVars, NEW p \in Procs, Join(p)
  PROVE  Shows'
<1>1. OthersStay(shm'[SERVER_ID]) /\ shm'[SERVER_ID] = ObjectOf(SERVER_ID)
  BY JoinEffect DEF Known
<1>2. UNCHANGED <<log, spc, msg, cursor, room, seen, mine>>
  BY DEF serverVars, Join, screen
<1>3. \A q \in Procs : cpc'[q] \in {"start", "joined"} => cpc[q] \in {"start", "joined"}
  BY DEF Join, Known, RoomTypes, ClientTypes
<1> QED
  BY <1>1, <1>2, <1>3, NameOfServer, ShowsStays DEF Known

(* A client that sends keeps the order of what is seen.                    *)
LEMMA ShowsBySending ==
  ASSUME Known, Shows, UNCHANGED serverVars, NEW p \in Procs, Sending(p)
  PROVE  Shows'
<1>1. PICK pc \in ClientStates \ {"start", "joined", "BROADCAST"} : cpc' = [cpc EXCEPT ![p] = pc]
  BY SendingEffect
<1>2. UNCHANGED <<shm, mine, seen>> /\ OthersStay(shm[SERVER_ID])
  BY SendingEffect DEF screen
<1>3. UNCHANGED <<log, spc, msg, cursor, room>>
  BY DEF serverVars
<1>4. \A q \in Procs : cpc'[q] \in {"start", "joined"} => cpc[q] \in {"start", "joined"}
  BY <1>1 DEF Known, RoomTypes, ClientTypes
<1> QED
  BY <1>2, <1>3, <1>4, ShowsStays

(* The quiet steps of a client keep the order of what is seen.             *)
LEMMA ShowsBySits ==
  ASSUME Known, Shows, UNCHANGED serverVars, NEW p \in Procs, Sits(p)
  PROVE  Shows'
<1>1. UNCHANGED <<box, shm, mine, seen>>
  BY DEF Sits, TypeCommand, TypeName, ReceiveStop, ClientSigint, Kill, memory, screen
<1>2. UNCHANGED <<log, spc, msg, cursor, room>>
  BY DEF serverVars
<1>3. \A q \in Procs : cpc'[q] \in {"start", "joined"} => cpc[q] \in {"start", "joined"}
  <2>1. cpc \in [Procs -> ClientStates] /\ Commands[p] \subseteq {"QUIT", "WHISPER", "LIST", "BROADCAST"}
    BY ClientAssumption DEF Known, RoomTypes, ClientTypes
  <2>2. CASE TypeCommand(p)
    <3>1. PICK c \in Commands[p] : cpc' = [cpc EXCEPT ![p] = c]
      BY <2>2 DEF TypeCommand
    <3> QED
      BY <2>1, <3>1
  <2>3. CASE TypeName(p)
    BY <2>1, <2>3 DEF TypeName
  <2>4. CASE Kill(p)
    BY <2>1, <2>4 DEF Kill
  <2>5. CASE ReceiveStop(p) \/ ClientSigint(p)
    BY <2>5 DEF ReceiveStop, ClientSigint
  <2> QED
    BY <2>2, <2>3, <2>4, <2>5 DEF Sits
<1>4. OthersStay(shm'[SERVER_ID])
  BY <1>1, StillOthers
<1> QED
  BY <1>1, <1>2, <1>3, <1>4, ShowsStays

(* A message that is no announcement comes into a client's box.            *)
LEMMA ShowsByPrivate ==
  ASSUME Known, Shows, UNCHANGED <<clientVars, log>>, NEW b, Posted(b), ~Public(msg'), spc' # "cast"
  PROVE  Shows'
<1> HIDE DEF Msg, Public
<1>1. UNCHANGED <<mine, seen, cpc>>
  BY DEF clientVars, screen
<1>2. \A p : SeenUpTo(p)' = SeenUpTo(p)
  BY <1>1 DEF SeenUpTo
<1>3. \A m : Announced(m) => Announced(m)'
  BY DEF Announced
<1>4. ASSUME NEW c \in 1 .. Len(box'), c # shm'[SERVER_ID] PROVE Inbox(c)'
  <2>1. c \in 1 .. Len(box) /\ c # shm[SERVER_ID] /\ box[c] \in Seq(Msg) /\ Inbox(c)
    BY <1>4 DEF Posted, Shows, Known, RoomTypes, MemoryTypes, Boxes
  <2>2. CASE c = b
    BY <1>1, <2>1, <2>2, InboxAppend DEF Posted
  <2>3. CASE c # b
    <3>1. box'[c] = box[c]
      BY <2>1, <2>3, <1>4 DEF Posted, OthersStay
    <3> QED
      BY <1>1, <1>2, <1>3, <2>1, <3>1, InboxStays
  <2> QED
    BY <2>2, <2>3
<1> QED
  BY <1>1, <1>2, <1>4 DEF Shows

(* Answers to LIST and whispers keep the order of what is seen.            *)
LEMMA ShowsByListing ==
  ASSUME Known, Shows, UNCHANGED clientVars, ListOne \/ WhisperSend, RoomTypes'
  PROVE  Shows'
<1>1. CASE ListOne
  <2>1. /\ Posted(client_box) /\ spc' = "list"
        /\ msg'.text = <<"inside", room[Min(ToList)].session_owner>>
    BY <1>1, ListEffect
  <2>2. ~Public(msg')
    BY <2>1 DEF Public
  <2>3. log' = log
    BY <1>1 DEF ListOne
  <2> QED
    BY <2>1, <2>2, <2>3, ShowsByPrivate
<1>2. CASE WhisperSend
  <2>1. Posted(receiver_box) /\ msg' = msg /\ msg.type = "WHISPER"
    BY <1>2, WhisperEffect
  <2>2. log' = log /\ spc' = "recv"
    BY <1>2 DEF WhisperSend
  <2> QED
    BY <2>1, <2>2, ShowsByPrivate DEF Public
<1> QED
  BY <1>1, <1>2

(* The next member gets the announcement; those after it are still behind. *)
LEMMA ShowsByCast ==
  ASSUME Known, Shows, UNCHANGED clientVars, Cast
  PROVE  Shows'
<1> HIDE DEF Msg, Public, Rooms
<1> DEFINE i == Min(Rest)
           b == room[i].client_box
<1>1. i \in Rest /\ Posted(b) /\ msg' = msg /\ cursor' = i + 1
  BY CastEffect
<1>2. UNCHANGED <<log, spc, room, mine, seen, cpc>> /\ spc = "cast" /\ Casting
  BY DEF Cast, clientVars, screen, Shows
<1>3. b \in 1 .. Len(box) /\ Behind(b)
  BY <1>1, <1>2, RestBoxes DEF Casting
<1>4. i \in 1 .. MAX_CLIENT /\ i \in Ids
  BY <1>1, Looping DEF Known
<1>5. /\ \A p : SeenUpTo(p)' = SeenUpTo(p)
      /\ \A m : Announced(m) => Announced(m)'
      /\ Len(log) \in Nat
  BY <1>2 DEF SeenUpTo, Announced, Shows
<1>6. Announced(msg) /\ msg.seq = Len(log)
  BY <1>2, <1>5 DEF Announced, Casting
<1> HIDE DEF i, b
<1>7. ASSUME NEW c \in 1 .. Len(box'), c # shm'[SERVER_ID] PROVE Inbox(c)'
  <2>1. c \in 1 .. Len(box) /\ c # shm[SERVER_ID] /\ box[c] \in Seq(Msg) /\ Inbox(c)
    BY <1>1, <1>7 DEF Posted, Shows, Known, RoomTypes, MemoryTypes, Boxes
  <2>2. CASE c = b
    <3>1. /\ \A k \in 1 .. Len(box[c]) : Public(box[c][k]) => box[c][k].seq < msg.seq
          /\ \A p \in Procs : mine[p] = c => SeenUpTo(p) < msg.seq
      BY <1>3, <1>6, <2>2 DEF Behind
    <3> QED
      BY <1>1, <1>2, <1>6, <2>1, <2>2, <3>1, InboxAppend DEF Posted
  <2>3. CASE c # b
    <3>1. box'[c] = box[c]
      BY <1>1, <1>7, <2>1, <2>3 DEF Posted, OthersStay
    <3> QED
      BY <1>2, <1>5, <2>1, <3>1, InboxStays
  <2> QED
    BY <2>2, <2>3
<1>8. Casting'
  <2>1. ASSUME NEW j \in Rest', NEW c \in 1 .. Len(box'), c = room'[j].client_box
        PROVE  Behind(c)'
    <3>1. j \in Rest /\ j # i /\ j \in Ids /\ c = room[j].client_box
      <4>1. j \in cursor' .. MAX_CLIENT /\ room[j].client_box # NoBox
        BY <1>2 DEF Rest
      <4>2. cursor \in 1 .. MAX_CLIENT + 1 /\ i \in cursor .. MAX_CLIENT /\ MAX_CLIENT \in Nat
        BY <1>1, MemoryAssumption DEF Rest, Known, RoomTypes, ServerTypes
      <4>3. j \in cursor .. MAX_CLIENT /\ j # i /\ j \in 1 .. MAX_CLIENT
        BY <1>1, <4>1, <4>2
      <4> QED
        BY <1>2, <2>1, <4>1, <4>3, Anchor DEF Rest, Known
    <3>2. c \in 1 .. Len(box) /\ Behind(c)
      BY <1>2, <3>1, RestBoxes DEF Casting
    <3>3. c # b
      <4>1. TiedTo(c, j) /\ TiedTo(b, i)
        BY <3>1 DEF TiedTo, b
      <4> QED
        BY <1>3, <1>4, <3>1, <4>1 DEF Known, Objects
    <3>4. box'[c] = box[c]
      BY <1>1, <2>1, <3>2, <3>3 DEF Posted, OthersStay
    <3> QED
      BY <1>2, <1>5, <3>2, <3>4, BehindStays
  <2> QED
    BY <1>1, <1>2, <2>1 DEF Casting
<1> QED
  BY <1>2, <1>5, <1>7, <1>8 DEF Shows

(* The text of an announcement goes on the log.                            *)
LEMMA Announces ==
  ASSUME Known, HandleBroadcast \/ HandleJoin \/ HandleQuit
  PROVE  \E t \in Texts : /\ log' = Append(log, t) /\ msg'.text = t /\ msg'.seq = Len(log) + 1
                         /\ spc' = "cast" /\ UNCHANGED box
<1>1. msg \in Msg
  BY DEF Known, RoomTypes, ServerTypes
<1>2. CASE HandleBroadcast
  <2>1. Said(msg.text)
    BY <1>2 DEF HandleBroadcast, Known, Asked, Asks, Request_
  <2>2. msg.text \in Texts
    BY <2>1 DEF Said, Texts
  <2>3. /\ log' = Append(log, msg.text) /\ msg'.text = msg.text /\ msg'.seq = Len(log) + 1
        /\ spc' = "cast" /\ UNCHANGED box
    BY <1>1, <1>2 DEF HandleBroadcast, Announce, Msg, memory
  <2> QED
    BY <2>2, <2>3
<1>3. CASE HandleJoin
  <2> DEFINE t == <<"joined", msg.name>>
  <2>1. msg.name \in UserName
    BY <1>3 DEF HandleJoin, Known, Asked, Asks, Request_
  <2>2. t \in Texts
    BY <2>1 DEF Texts, UserName
  <2>3. /\ log' = Append(log, t) /\ msg'.text = t /\ msg'.seq = Len(log) + 1
        /\ spc' = "cast" /\ UNCHANGED box
    BY <1>1, <1>3 DEF HandleJoin, Announce, Msg, memory
  <2> HIDE DEF t
  <2> QED
    BY <2>2, <2>3
<1>4. CASE HandleQuit
  <2> DEFINE t == <<"left", msg.name>>
  <2>1. msg.name \in UserName
    BY <1>4 DEF HandleQuit, Known, Asked, Asks, Request_
  <2>2. t \in Texts
    BY <2>1 DEF Texts, UserName
  <2>3. /\ log' = Append(log, t) /\ msg'.text = t /\ msg'.seq = Len(log) + 1
        /\ spc' = "cast" /\ UNCHANGED box
    BY <1>1, <1>4 DEF HandleQuit, Announce, Msg
  <2> HIDE DEF t
  <2> QED
    BY <2>2, <2>3
<1> QED
  BY <1>2, <1>3, <1>4

(* A new announcement is later than all that are in the boxes.             *)
LEMMA ShowsByAnnouncing ==
  ASSUME Known, Known', Shows, UNCHANGED clientVars, HandleBroadcast \/ HandleJoin \/ HandleQuit
  PROVE  Shows'
<1> HIDE DEF Msg, Public, Texts
<1>1. PICK t \in Texts : /\ log' = Append(log, t) /\ msg'.text = t /\ msg'.seq = Len(log) + 1
                         /\ spc' = "cast" /\ UNCHANGED box
  BY Announces
<1>2. UNCHANGED <<mine, seen, cpc>>
  BY DEF clientVars, screen
<1>3. shm'[SERVER_ID] = shm[SERVER_ID]
  BY QuitObjects DEF HandleBroadcast, HandleJoin, memory, Known
<1>4. /\ Len(log) \in Nat /\ Len(log') = Len(log) + 1 /\ log' \in Seq(Texts)
      /\ \A k \in 1 .. Len(log) : log'[k] = log[k]
      /\ log'[Len(log')] = t
  BY <1>1 DEF Shows
<1>5. /\ \A p : SeenUpTo(p)' = SeenUpTo(p)
      /\ \A m : Announced(m) => Announced(m)'
  BY <1>2, <1>4 DEF SeenUpTo, Announced
<1>6. ASSUME NEW b \in 1 .. Len(box), b # shm[SERVER_ID]
      PROVE  Inbox(b)' /\ Behind(b)'
  <2>1. Inbox(b)
    BY <1>6 DEF Shows
  <2>2. Inbox(b)'
    BY <1>1, <1>2, <1>5, <2>1, InboxStays
  <2>3. \A k \in 1 .. Len(box[b]) : Public(box[b][k]) => box[b][k].seq < Len(log')
    BY <1>4, <2>1 DEF Inbox, Announced
  <2>4. \A p \in Procs : SeenUpTo(p)' < Len(log')
    BY <1>4, <1>5 DEF Shows
  <2> QED
    BY <1>1, <2>2, <2>3, <2>4 DEF Behind, Public
<1>7. Casting'
  <2>1. \A i \in Rest' : \A b \in 1 .. Len(box') : b = room'[i].client_box => b # shm'[SERVER_ID]
    BY RestBoxesNext
  <2> QED
    BY <1>1, <1>3, <1>4, <1>6, <2>1 DEF Casting
<1>8. \A p \in Procs : SeenUpTo(p)' \in 0 .. Len(log')
  BY <1>4, <1>5 DEF Shows
<1> QED
  BY <1>1, <1>2, <1>3, <1>4, <1>6, <1>7, <1>8 DEF Shows

(* A client that opens its box has seen nothing yet; the box is emptied.   *)
LEMMA ShowsByOpenOwn ==
  ASSUME Known, Shows, UNCHANGED serverVars, NEW p \in Procs, OpenOwn(p)
  PROVE  Shows'
<1> HIDE DEF Msg, Public
<1> DEFINE b == mine'[p]
<1>1. /\ shm'[SERVER_ID] = shm[SERVER_ID] /\ OthersStay(b) /\ b \in 1 .. Len(box') /\ box'[b] = <<>>
      /\ \A q \in Procs : q # p => mine'[q] = mine[q]
      /\ Len(box) \in Nat
  BY OpenOwnEffect, Anchor DEF Known, RoomTypes, ClientTypes
<1>2. UNCHANGED <<log, spc, msg, cursor, room>>
  BY DEF serverVars
<1>3. /\ cpc[p] = "joined" /\ UNCHANGED seen
      /\ \A q \in Procs : cpc'[q] \in {"start", "joined"} => cpc[q] \in {"start", "joined"}
  BY DEF OpenOwn, screen, Known, RoomTypes, ClientTypes
<1>4. SeenUpTo(p) = 0
  BY <1>3 DEF Shows, SeenUpTo
<1>5. /\ \A q : SeenUpTo(q)' = SeenUpTo(q)
      /\ \A m : Announced(m) => Announced(m)'
  BY <1>2, <1>3 DEF SeenUpTo, Announced
<1> HIDE DEF SeenUpTo, Announced, b
<1>6. ASSUME NEW c \in 1 .. Len(box'), c # shm'[SERVER_ID] PROVE Inbox(c)'
  <2>1. CASE c = b
    BY <1>1, <2>1, InboxEmpty
  <2>2. CASE c # b /\ c \in 1 .. Len(box)
    <3>1. box'[c] = box[c] /\ Inbox(c)
      BY <1>1, <1>6, <2>2 DEF OthersStay, Shows
    <3>2. \A q \in Procs : mine'[q] = c => mine[q] = c
      BY <1>1, <2>2 DEF b
    <3> QED
      BY <1>5, <3>1, <3>2, InboxStays
  <2>3. CASE c # b /\ c \notin 1 .. Len(box)
    BY <1>1, <1>6, <2>3, InboxEmpty DEF OthersStay
  <2> QED
    BY <2>1, <2>2, <2>3
<1>7. ASSUME spc' = "cast" PROVE Casting'
  <2>1. Rest' = Rest /\ Casting /\ Len(log) \in Nat
    BY <1>2, <1>7 DEF Rest, Shows
  <2>2. ASSUME NEW i \in Rest, NEW c \in 1 .. Len(box'), c = room[i].client_box
        PROVE  Behind(c)'
    <3>1. c \in 1 .. Len(box) /\ Behind(c)
      BY <2>1, <2>2, RestBoxes DEF Casting
    <3>2. CASE c = b
      <4>1. \A q \in Procs : mine'[q] = c => SeenUpTo(q) < Len(log)
        <5>1. 0 < Len(log)
          BY <2>1 DEF Casting
        <5>2. \A q \in Procs : q # p /\ mine'[q] = c => SeenUpTo(q) < Len(log)
          BY <1>1, <3>1 DEF Behind
        <5> QED
          BY <1>4, <5>1, <5>2
      <4>2. Len(box'[c]) = 0
        BY <1>1, <3>2
      <4> QED
        BY <1>2, <1>5, <4>1, <4>2 DEF Behind
    <3>3. CASE c # b
      <4>1. box'[c] = box[c]
        BY <1>1, <2>2, <3>1, <3>3 DEF OthersStay
      <4>2. \A q \in Procs : mine'[q] = c => mine[q] = c
        BY <1>1, <3>3 DEF b
      <4> QED
        BY <1>2, <1>5, <3>1, <4>1, <4>2, BehindStays
    <3> QED
      BY <3>2, <3>3
  <2> QED
    BY <1>2, <2>1, <2>2 DEF Casting
<1> QED
  BY <1>2, <1>3, <1>5, <1>6, <1>7 DEF Shows

(* The receiving thread runs only after the process has joined.            *)
Started == \A p \in Procs : rpc[p] = "run" => cpc[p] \notin {"start", "joined"}

(* No step starts the receiving thread early.                              *)
LEMMA StartedNext ==
  ASSUME Known, Started, [Next]_vars
  PROVE  Started'
<1>1. cpc \in [Procs -> ClientStates] /\ rpc \in [Procs -> {"off", "run", "done"}]
  BY DEF Known, RoomTypes, ClientTypes
<1>2. CASE UNCHANGED clientVars
  BY <1>2 DEF Started, clientVars
<1>3. ASSUME NEW p \in Procs, Join(p) PROVE Started'
  BY <1>1, <1>3 DEF Join, Started
<1>4. ASSUME NEW p \in Procs, OpenOwn(p) PROVE Started'
  BY <1>1, <1>4 DEF OpenOwn, Started
<1>5. ASSUME NEW p \in Procs, Receive(p) PROVE Started'
  BY <1>5 DEF Receive, Started
<1>6. ASSUME NEW p \in Procs, Sending(p) PROVE Started'
  <2>1. PICK pc \in ClientStates \ {"start", "joined", "BROADCAST"} : cpc' = [cpc EXCEPT ![p] = pc]
    BY <1>6, SendingEffect
  <2>2. UNCHANGED rpc
    BY <1>6 DEF Sending, SendBroadcast, SendList, SendWhisperList, SendWhisper, SendQuit, Send
  <2> QED
    BY <1>1, <2>1, <2>2 DEF Started
<1>7. ASSUME NEW p \in Procs, Sits(p) PROVE Started'
  <2>1. CASE TypeCommand(p)
    <3>1. PICK c \in Commands[p] : cpc' = [cpc EXCEPT ![p] = c]
      BY <2>1 DEF TypeCommand
    <3>2. c \in {"QUIT", "WHISPER", "LIST", "BROADCAST"}
      BY ClientAssumption
    <3> QED
      BY <1>1, <2>1, <3>1, <3>2 DEF TypeCommand, Started
  <2>2. CASE TypeName(p)
    BY <1>1, <2>2 DEF TypeName, Started
  <2>3. CASE Kill(p)
    BY <1>1, <2>3 DEF Kill, Started
  <2>4. CASE ReceiveStop(p)
    BY <1>1, <2>4 DEF ReceiveStop, Started
  <2>5. CASE ClientSigint(p)
    BY <2>5 DEF ClientSigint, Started
  <2> QED
    BY <1>7, <2>1, <2>2, <2>3, <2>4, <2>5 DEF Sits
<1> QED
  BY <1>2, <1>3, <1>4, <1>5, <1>6, <1>7, Steps DEF vars

(* A client sees the oldest message of its box: it is later than all the   *)
(* client has seen and earlier than all that stays in the box.             *)
LEMMA ReceivedSight ==
  ASSUME Known, Shows, NEW p \in Procs, Receive(p),
         NEW m, m = Taken(box[mine[p]])
  PROVE  /\ m = box[mine[p]][1] /\ m \in Msg
         /\ Public(m) => /\ Announced(m) /\ SeenUpTo(p) < m.seq /\ SeenUpTo(p)' = m.seq
                         /\ seen' = [seen EXCEPT ![p] = Append(@, Sight(m))]
         /\ ~Public(m) => UNCHANGED seen /\ SeenUpTo(p)' = SeenUpTo(p)
         /\ \A q \in Procs : q # p => SeenUpTo(q)' = SeenUpTo(q)
<1> DEFINE b == mine[p]
<1> HIDE DEF Msg, Public
<1>1. b \in 1 .. Len(box) /\ b # shm[SERVER_ID] /\ box[b] \in Seq(Msg) /\ box[b] # <<>>
  BY ReceiveEffect DEF Known
<1>2. m = box[b][1] /\ m \in Msg /\ 1 \in 1 .. Len(box[b])
  <2> DEFINE q == box[b]
  <2> HIDE DEF q
  <2>1. q \in Seq(Msg) /\ q # <<>> /\ m = Taken(q)
    BY <1>1 DEF q
  <2>2. Len(q) \in Nat \ {0} /\ Taken(q) = q[1] /\ Taken(q) \in Msg
    BY <2>1, Taking
  <2>3. m = q[1] /\ m \in Msg /\ 1 \in 1 .. Len(q)
    BY <2>1, <2>2
  <2> QED
    BY <2>3 DEF q
<1>3. Public(m) => Announced(m) /\ SeenUpTo(p) < m.seq
  BY <1>1, <1>2 DEF Shows, Inbox
<1>4. /\ Public(m) => seen' = [seen EXCEPT ![p] = Append(@, Sight(m))]
      /\ ~Public(m) => UNCHANGED seen
  BY DEF Receive
<1>5. seen \in [Procs -> Seq(Nat \X Content)]
  BY DEF Known, RoomTypes, ClientTypes
<1>6. \A q \in Procs : q # p => SeenUpTo(q)' = SeenUpTo(q)
  BY <1>4, <1>5 DEF SeenUpTo
<1>7. ASSUME Public(m) PROVE SeenUpTo(p)' = m.seq
  <2> DEFINE x == Sight(m)
  <2>2. x \in Nat \X Content /\ x[1] = m.seq
    BY <1>2 DEF Sight, Msg
  <2>3. seen'[p] = Append(seen[p], x) /\ seen[p] \in Seq(Nat \X Content)
    BY <1>4, <1>5, <1>7
  <2> HIDE DEF x, Content
  <2>4. seen'[p] # <<>> /\ seen'[p][Len(seen'[p])] = x
    BY <2>2, <2>3
  <2> QED
    BY <2>2, <2>4 DEF SeenUpTo
<1>8. ASSUME ~Public(m) PROVE SeenUpTo(p)' = SeenUpTo(p)
  BY <1>4, <1>8 DEF SeenUpTo
<1> QED
  BY <1>2, <1>3, <1>4, <1>6, <1>7, <1>8

(* What a client takes keeps the order of what is seen.                    *)
LEMMA ShowsByReceive ==
  ASSUME Known, Started, Shows, UNCHANGED serverVars, NEW p \in Procs, Receive(p)
  PROVE  Shows'
<1> HIDE DEF Msg, Public
<1> DEFINE b == mine[p]
<1>1. /\ b \in 1 .. Len(box) /\ b # shm[SERVER_ID] /\ Len(box') = Len(box) /\ OthersStay(b)
      /\ box[b] \in Seq(Msg) /\ box[b] # <<>> /\ box'[b] = Remaining(box[b])
  BY ReceiveEffect DEF Known
<1>2. /\ Len(box[b]) \in Nat \ {0} /\ Len(box'[b]) = Len(box[b]) - 1
      /\ \A k \in 1 .. Len(box[b]) - 1 : box'[b][k] = box[b][k + 1]
  BY <1>1, Taking
<1> DEFINE m == Taken(box[b])
<1>3. /\ m = box[b][1] /\ m \in Msg
      /\ Public(m) => Announced(m) /\ SeenUpTo(p) < m.seq /\ SeenUpTo(p)' = m.seq
      /\ ~Public(m) => SeenUpTo(p)' = SeenUpTo(p)
      /\ \A q \in Procs : q # p => SeenUpTo(q)' = SeenUpTo(q)
  BY ReceivedSight
<1>4. UNCHANGED <<log, spc, msg, cursor, room, mine, shm, cpc>>
  BY DEF serverVars, Receive
<1>5. \A x : Announced(x) <=> Announced(x)'
  BY <1>4 DEF Announced
<1>6. SeenUpTo(p)' \in 0 .. Len(log)
  BY <1>3 DEF Announced, Shows
<1>12. /\ \A k \in 1 .. Len(box[b]) : box[b][k].seq \in Nat
       /\ m.seq \in Nat /\ \A q \in Procs : SeenUpTo(q) \in Nat /\ SeenUpTo(q)' \in Nat
       /\ Len(log) \in Nat
  <2>1. \A k \in 1 .. Len(box[b]) : box[b][k] \in Msg
    BY <1>1
  <2>2. \A x \in Msg : x.seq \in Nat
    BY DEF Msg
  <2>3. \A q \in Procs : SeenUpTo(q) \in Nat
    BY DEF Shows
  <2> QED
    BY <1>3, <2>1, <2>2, <2>3 DEF Shows
<1>13. b' = b
  BY <1>4
<1> HIDE DEF SeenUpTo, Announced, b, m
<1>7. Inbox(b)'
  <2>1. Inbox(b)
    BY <1>1 DEF Shows
  <2>2. ASSUME NEW k \in 1 .. Len(box'[b]), Public(box'[b][k])
        PROVE  /\ Announced(box'[b][k])
               /\ \A j \in 1 .. Len(box'[b]) :
                     j < k /\ Public(box'[b][j]) => box'[b][j].seq < box'[b][k].seq
               /\ \A q \in Procs : mine[q] = b => SeenUpTo(q)' < box'[b][k].seq
    <3>1. /\ k + 1 \in 1 .. Len(box[b]) /\ box'[b][k] = box[b][k + 1]
          /\ 1 \in 1 .. Len(box[b]) /\ 1 < k + 1
      BY <1>2
    <3>2. \A j \in 1 .. Len(box'[b]) :
             j < k => j + 1 \in 1 .. Len(box[b]) /\ j + 1 < k + 1 /\ box'[b][j] = box[b][j + 1]
      BY <1>2
    <3>3. /\ Announced(box[b][k + 1])
          /\ \A j \in 1 .. Len(box[b]) :
                j < k + 1 /\ Public(box[b][j]) => box[b][j].seq < box[b][k + 1].seq
          /\ \A q \in Procs : mine[q] = b => SeenUpTo(q) < box[b][k + 1].seq
      BY <2>1, <2>2, <3>1 DEF Inbox
    <3>4. Public(m) => m.seq < box[b][k + 1].seq
      BY <1>3, <3>1, <3>3
    <3>5. \A q \in Procs : mine[q] = b => SeenUpTo(q)' < box[b][k + 1].seq
      <4>1. \A q \in Procs : q # p /\ mine[q] = b => SeenUpTo(q)' < box[b][k + 1].seq
        BY <1>3, <3>3
      <4>2. SeenUpTo(p)' < box[b][k + 1].seq
        BY <1>3, <3>3, <3>4 DEF b
      <4> QED
        BY <4>1, <4>2
    <3> QED
      BY <3>1, <3>2, <3>3, <3>5
  <2> QED
    BY <1>4, <1>5, <1>13, <2>2 DEF Inbox
<1>8. ASSUME NEW c \in 1 .. Len(box'), c # shm'[SERVER_ID] PROVE Inbox(c)'
  <2>1. CASE c = b
    BY <1>7, <1>13, <2>1
  <2>2. CASE c # b
    <3>1. c \in 1 .. Len(box) /\ box'[c] = box[c] /\ Inbox(c)
      BY <1>1, <1>4, <1>8, <2>2 DEF OthersStay, Shows
    <3>2. \A q \in Procs : mine'[q] = c => mine[q] = c /\ SeenUpTo(q)' = SeenUpTo(q)
      BY <1>3, <1>4, <2>2 DEF b
    <3> QED
      BY <1>5, <3>1, <3>2, InboxStays
  <2> QED
    BY <2>1, <2>2
<1>9. ASSUME spc' = "cast" PROVE Casting'
  <2>1. Rest' = Rest /\ Casting
    BY <1>4, <1>9 DEF Rest, Shows
  <2>2. ASSUME NEW i \in Rest, NEW c \in 1 .. Len(box'), c = room[i].client_box
        PROVE  Behind(c)'
    <3>1. c \in 1 .. Len(box) /\ Behind(c)
      BY <1>1, <2>1, <2>2 DEF Casting
    <3>2. CASE c = b
      <4>1. \A k \in 1 .. Len(box[b]) : Public(box[b][k]) => box[b][k].seq < Len(log)
        BY <3>1, <3>2 DEF Behind
      <4>2. \A k \in 1 .. Len(box'[b]) : k + 1 \in 1 .. Len(box[b]) /\ box'[b][k] = box[b][k + 1]
        BY <1>2
      <4>3. \A k \in 1 .. Len(box'[b]) : Public(box'[b][k]) => box'[b][k].seq < Len(log)
        BY <4>1, <4>2
      <4>4. Public(m) => m.seq < Len(log)
        <5>1. 1 \in 1 .. Len(box[b])
          BY <1>2
        <5> QED
          BY <1>3, <4>1, <5>1
      <4>5. \A q \in Procs : mine[q] = c => SeenUpTo(q)' < Len(log)
        <5>1. \A q \in Procs : mine[q] = c => SeenUpTo(q) < Len(log)
          BY <3>1 DEF Behind
        <5>2. \A q \in Procs : q # p /\ mine[q] = c => SeenUpTo(q)' < Len(log)
          BY <1>3, <5>1
        <5>3. SeenUpTo(p)' < Len(log)
          BY <1>3, <3>2, <4>4, <5>1 DEF b
        <5> QED
          BY <5>2, <5>3
      <4> QED
        BY <1>4, <3>2, <4>3, <4>5 DEF Behind
    <3>3. CASE c # b
      <4>1. box'[c] = box[c]
        BY <1>1, <2>2, <3>1, <3>3 DEF OthersStay
      <4>2. \A q \in Procs : mine'[q] = c => mine[q] = c /\ SeenUpTo(q)' = SeenUpTo(q)
        BY <1>3, <1>4, <3>3 DEF b
      <4> QED
        BY <1>4, <3>1, <4>1, <4>2, BehindStays
    <3> QED
      BY <3>2, <3>3
  <2> QED
    BY <1>4, <2>1, <2>2 DEF Casting
<1>10. \A q \in Procs : SeenUpTo(q)' \in 0 .. Len(log)
  BY <1>3, <1>6 DEF Shows
<1>11. \A q \in Procs : cpc[q] \in {"start", "joined"} => seen'[q] = <<>>
  <2>1. cpc[p] \notin {"start", "joined"}
    BY DEF Receive, Started
  <2>2. \A q \in Procs : q # p => seen'[q] = seen[q]
    BY DEF Receive, Known, RoomTypes, ClientTypes
  <2> QED
    BY <2>1, <2>2 DEF Shows
<1> QED
  BY <1>4, <1>8, <1>9, <1>10, <1>11 DEF Shows
(* Every step keeps the order of what is seen.                             *)
LEMMA ShowsNext ==
  ASSUME Known, Known', Started, Shows, [Next]_vars
  PROVE  Shows'
<1>1. CASE UNCHANGED vars
  <2>1. UNCHANGED <<memory, serverVars, clientVars>>
    BY <1>1 DEF vars
  <2>2. OthersStay(shm[SERVER_ID]) /\ shm'[SERVER_ID] = shm[SERVER_ID]
    BY <2>1 DEF OthersStay, memory
  <2> QED
    BY <2>1, <2>2, ShowsStays DEF serverVars, clientVars, screen
<1>2. ASSUME UNCHANGED clientVars, Looks \/ HandleWhisper PROVE Shows'
  <2>1. CASE ListOne \/ WhisperSend
    BY <1>2, <2>1, ShowsByListing DEF Known
  <2>2. CASE Cast
    BY <1>2, <2>2, ShowsByCast
  <2>3. CASE HandleBroadcast
    BY <1>2, <2>3, ShowsByAnnouncing
  <2> QED
    BY <1>2, <2>1, <2>2, <2>3, ShowsByQuietServer
<1>3. ASSUME UNCHANGED clientVars, HandleJoin \/ HandleQuit PROVE Shows'
  BY <1>3, ShowsByAnnouncing
<1>4. CASE Next
  BY <1>2, <1>3, <1>4, Steps, ShowsByStart, ShowsByRecv, ShowsByJoin, ShowsByOpenOwn,
     ShowsBySits, ShowsBySending, ShowsByReceive
<1> QED
  BY <1>1, <1>4

(* The order of what is seen, always.                                      *)
LEMMA ShowsHold == Spec => [](Known /\ Started /\ Shows)
<1>1. Init => Known
  BY KnownInit
<1>2. Init => Started /\ Shows
  <2> SUFFICES ASSUME Init PROVE Started /\ Shows
    OBVIOUS
  <2>1. Started
    BY DEF Init, ClientInit, Started
  <2>2. Len(box) = 0 /\ log = <<>> /\ spc = "off" /\ seen = [p \in Procs |-> <<>>]
    BY DEF Init, MemoryInit, ServerInit, ClientInit
  <2>3. Len(log) = 0 /\ log \in Seq(Texts)
    BY <2>2
  <2> QED
    BY <2>1, <2>2, <2>3 DEF Shows, SeenUpTo
<1>3. Known /\ [Next]_vars => Known'
  BY KnownNext
<1>4. Known /\ Started /\ [Next]_vars => Started'
  BY StartedNext
<1>5. Known /\ Known' /\ Started /\ Shows /\ [Next]_vars => Shows'
  BY ShowsNext
<1> QED
  BY <1>1, <1>2, <1>3, <1>4, <1>5, PTL DEF Spec

(* A client sees what the sequencer lets it see.                           *)
LEMMA SeesInOrder ==
  ASSUME Known, Shows, UNCHANGED serverVars, NEW p \in Procs, Receive(p)
  PROVE  [Ordered!Next]_(Ordered!vars)
<1> HIDE DEF Msg, Public
<1> DEFINE m == Taken(box[mine[p]])
<1>1. /\ Public(m) => /\ Announced(m) /\ SeenUpTo(p) < m.seq
                     /\ seen' = [seen EXCEPT ![p] = Append(@, Sight(m))]
      /\ ~Public(m) => UNCHANGED seen
      /\ m \in Msg
  BY ReceivedSight
<1> HIDE DEF m
<1>2. UNCHANGED log
  BY DEF serverVars
<1>3. CASE Public(m)
  <2>1. m.seq \in SeenUpTo(p) + 1 .. Len(log) /\ Sight(m) = <<m.seq, log[m.seq]>>
    BY <1>1, <1>3 DEF Announced, Sight, Shows
  <2>2. Ordered!At(p) = SeenUpTo(p)
    BY DEF Ordered!At, SeenUpTo
  <2>3. Ordered!See(p)
    BY <1>1, <1>2, <1>3, <2>1, <2>2 DEF Ordered!See
  <2> QED
    BY <2>3 DEF Ordered!Next
<1>4. CASE ~Public(m)
  BY <1>1, <1>2, <1>4 DEF Ordered!vars
<1> QED
  BY <1>3, <1>4

(* Every step of the room is a step of the sequencer, or none.             *)
LEMMA StepsInOrder ==
  ASSUME Known, Shows, [Next]_vars
  PROVE  [Ordered!Next]_(Ordered!vars)
<1>1. ASSUME UNCHANGED <<log, seen>> PROVE [Ordered!Next]_(Ordered!vars)
  BY <1>1 DEF Ordered!vars
<1>2. CASE UNCHANGED vars
  BY <1>1, <1>2 DEF vars, serverVars, clientVars, screen
<1>3. ASSUME UNCHANGED clientVars, HandleBroadcast \/ HandleJoin \/ HandleQuit
      PROVE  [Ordered!Next]_(Ordered!vars)
  <2>1. PICK t \in Texts : log' = Append(log, t)
    BY <1>3, Announces
  <2>2. UNCHANGED seen
    BY <1>3 DEF clientVars, screen
  <2> QED
    BY <2>1, <2>2 DEF Ordered!Next, Ordered!Announce
<1>4. ASSUME UNCHANGED clientVars, Looks \/ HandleWhisper \/ ServerStart \/ Recv
      PROVE  [Ordered!Next]_(Ordered!vars)
  <2>1. CASE HandleBroadcast
    BY <1>3, <1>4, <2>1
  <2>2. CASE ~HandleBroadcast
    <3>1. UNCHANGED log
      BY <1>4, <2>2 DEF Looks, HandleWhisper, ServerStart, Recv, ServerSigint, ServerKill, ServerStop,
         HandleOther, CastDone, ListDone, ServerFault, HandleList, Cast, ListOne, WhisperSend
    <3> QED
      BY <1>1, <1>4, <3>1 DEF clientVars, screen
  <2> QED
    BY <2>1, <2>2
<1>5. ASSUME UNCHANGED serverVars, NEW p \in Procs, Join(p) \/ OpenOwn(p) \/ Sits(p) \/ Sending(p)
      PROVE  [Ordered!Next]_(Ordered!vars)
  <2>1. UNCHANGED seen
    BY <1>5 DEF Join, OpenOwn, Sits, TypeCommand, TypeName, ReceiveStop, ClientSigint, Kill,
       Sending, SendBroadcast, SendList, SendWhisperList, SendWhisper, SendQuit, Send, screen
  <2> QED
    BY <1>1, <1>5, <2>1 DEF serverVars
<1>6. CASE Next
  BY <1>3, <1>4, <1>5, <1>6, Steps, SeesInOrder
<1> QED
  BY <1>2, <1>6

(* However many clients there are and whatever is killed, restarted, slow  *)
(* or shares a box, the room is a sequencer: server.c handles one message  *)
(* at a time and client_boardcast serves every member before the next.     *)
THEOREM RoomImplementsSequencer == Spec => ImplementsSequencer
<1>1. Init => Ordered!Init
  BY DEF Init, ServerInit, ClientInit, Ordered!Init
<1>2. Known /\ Shows /\ [Next]_vars => [Ordered!Next]_(Ordered!vars)
  BY StepsInOrder
<1> QED
  BY <1>1, <1>2, ShowsHold, PTL DEF Spec, ImplementsSequencer, Ordered!Spec
-----------------------------------------------------------------------------
(* A member's entry leads to the box the member reads.  An id nobody uses  *)
(* has left no trace; of an id that one process uses, the JOIN comes before*)
(* the QUIT, and until the QUIT is handled the name stays with the object. *)
Unused(i) == \A p \in Procs : IdOf[p] = i => cpc[p] = "start"

Waits(type, i) == \E k \in 1 .. Len(Queue) : Queue[k].type = type /\ Queue[k].id = i

NoTrace(i) ==
    /\ room[i].client_box = NoBox
    /\ \A k \in 1 .. Len(Queue) : Queue[k].id # i
    /\ spc \in Request_ => msg.id # i

\* The process p, if it has opened its box, has the object the name i leads to.
Fits(p, i) == mine[p] \in {NoBox, shm[i]}

Leads(p, i) ==
    /\ room[i].client_box # NoBox => room[i].client_box = shm[i] /\ Fits(p, i)
    /\ spc = "JOIN" /\ msg.id = i => client_box \in {NoBox, shm[i]} /\ Fits(p, i)
    /\ Waits("JOIN", i) => Fits(p, i)
    /\ spc = "QUIT" /\ msg.id = i => ~Waits("JOIN", i)
    /\ \A j, k \in 1 .. Len(Queue) :
          Queue[k].type = "QUIT" /\ Queue[k].id = i /\ Queue[j].type = "JOIN" /\ Queue[j].id = i => j < k

Reach ==
    /\ \A i \in 1 .. MAX_CLIENT : Unused(i) => NoTrace(i)
    /\ \A p \in Procs : OwnId(p) => Leads(p, IdOf[p])
    /\ \A p \in Procs : cpc[p] \in {"start", "joined"} => mine[p] = NoBox

\* No process goes back to where it had not joined.
Onward == \A q \in Procs : /\ cpc'[q] = "start" => cpc[q] = "start"
                           /\ cpc'[q] \in {"start", "joined"} => cpc[q] \in {"start", "joined"}

(* An id that is unused, or one process' own, after a step was so before.  *)
LEMMA OnwardIds ==
  ASSUME Onward
  PROVE  /\ \A i : Unused(i)' => Unused(i)
         /\ \A p : OwnId(p)' => OwnId(p)
BY DEF Onward, Unused, OwnId

(* The ids of the clients are ids of members.                              *)
LEMMA ClientIds ==
  \A p \in Procs : IdOf[p] \in 1 .. MAX_CLIENT /\ IdOf[p] \in Ids /\ IdOf[p] # SERVER_ID
BY ClientAssumption, MemoryAssumption DEF Ids, SERVER_ID

(* A step that leaves room, names and queue, and starts no JOIN or QUIT.   *)
LEMMA ReachStays ==
  ASSUME Reach, Onward, UNCHANGED <<room, mine, Queue>>,
         \A i \in 1 .. MAX_CLIENT : shm'[i] = shm[i],
         spc' \in Request_ => spc' = spc /\ msg'.id = msg.id /\ client_box' = client_box
  PROVE  Reach'
<1>1. ASSUME NEW i \in 1 .. MAX_CLIENT, Unused(i)' PROVE NoTrace(i)'
  BY <1>1, OnwardIds DEF Reach, NoTrace
<1>2. ASSUME NEW p \in Procs, OwnId(p)' PROVE Leads(p, IdOf[p])'
  <2> DEFINE i == IdOf[p]
  <2>1. i \in 1 .. MAX_CLIENT /\ shm'[i] = shm[i] /\ Leads(p, i)
    BY <1>2, OnwardIds, ClientIds DEF Reach
  <2>2. spc' \in {"JOIN", "QUIT"} => spc' = spc /\ msg'.id = msg.id /\ client_box' = client_box
    BY DEF Request_
  <2> HIDE DEF i
  <2>3. i' = i
    BY DEF i
  <2>4. Leads(p, i)'
    BY <2>1, <2>2, <2>3 DEF Leads, Fits, Waits
  <2> QED
    BY <2>4 DEF i
<1> QED
  BY <1>1, <1>2 DEF Reach, Onward

(* The steps of the server that open nothing keep the ways to the boxes.   *)
LEMMA ReachByServer ==
  ASSUME Known, Reach, UNCHANGED clientVars, Looks \/ HandleWhisper, RoomTypes'
  PROVE  Reach'
<1>1. Onward /\ UNCHANGED mine
  BY DEF Onward, clientVars
<1>2. UNCHANGED Queue
  BY HandlesStill, LooksQueue DEF Still
<1>3. UNCHANGED <<room, shm>>
  BY DEF Looks, HandleWhisper, ServerSigint, ServerKill, ServerStop, HandleOther, CastDone, ListDone,
     ServerFault, HandleList, HandleBroadcast, Cast, ListOne, WhisperSend, memory
<1>4. spc' \in Request_ => UNCHANGED <<spc, msg, client_box>>
  BY DEF Looks, HandleWhisper, ServerSigint, ServerKill, ServerStop, HandleOther, CastDone, ListDone,
     ServerFault, HandleList, HandleBroadcast, Announce, Cast, ListOne, WhisperSend, Request_
<1> QED
  BY <1>1, <1>2, <1>3, <1>4, ReachStays

(* The quiet steps of a client keep the ways to the boxes.                 *)
LEMMA ReachByQuietClient ==
  ASSUME Known, Reach, UNCHANGED serverVars, NEW p \in Procs, Sits(p) \/ Receive(p)
  PROVE  Reach'
<1>1. UNCHANGED <<shm, mine>>
  BY DEF Sits, TypeCommand, TypeName, ReceiveStop, ClientSigint, Kill, Receive, memory
<1>2. UNCHANGED <<room, spc, msg, client_box>>
  BY DEF serverVars
<1>3. Queue' = Queue
  BY ReceiveEffect, SitsStill DEF Known, Still
<1>4. Onward
  <2>1. cpc \in [Procs -> ClientStates] /\ Commands[p] \subseteq {"QUIT", "WHISPER", "LIST", "BROADCAST"}
    BY ClientAssumption DEF Known, RoomTypes, ClientTypes
  <2>2. CASE TypeCommand(p)
    <3>1. PICK c \in Commands[p] : cpc' = [cpc EXCEPT ![p] = c]
      BY <2>2 DEF TypeCommand
    <3> QED
      BY <2>1, <3>1 DEF Onward
  <2>3. CASE TypeName(p)
    BY <2>1, <2>3 DEF TypeName, Onward
  <2>4. CASE Kill(p)
    BY <2>1, <2>4 DEF Kill, Onward
  <2>5. CASE ReceiveStop(p) \/ ClientSigint(p) \/ Receive(p)
    BY <2>5 DEF ReceiveStop, ClientSigint, Receive, Onward
  <2> QED
    BY <2>2, <2>3, <2>4, <2>5 DEF Sits
<1> QED
  BY <1>1, <1>2, <1>3, <1>4, ReachStays

(* A start of the server empties the room and the queue.                   *)
LEMMA ReachByStart ==
  ASSUME Known, Reach, UNCHANGED clientVars, ServerStart
  PROVE  Reach'
<1>1. /\ Queue' = <<>> /\ spc' = "recv" /\ shm' = [shm EXCEPT ![SERVER_ID] = ObjectOf(SERVER_ID)]
      /\ room' = EmptyRoom
  BY StartEffect DEF Known, ServerStart
<1>2. Onward /\ UNCHANGED mine /\ Len(Queue') = 0 /\ \A i \in Ids : room'[i].client_box = NoBox
  BY <1>1 DEF Onward, clientVars, EmptyRoom
<1>3. \A i \in 1 .. MAX_CLIENT : i \in Ids
  BY Anchor DEF Known
<1>4. \A i \in 1 .. MAX_CLIENT : NoTrace(i)'
  BY <1>1, <1>2, <1>3 DEF NoTrace, Request_
<1>5. \A p \in Procs : Leads(p, IdOf[p])'
  BY <1>1, <1>2, ClientIds DEF Leads, Waits
<1> QED
  BY <1>2, <1>4, <1>5 DEF Reach, Onward

(* The server opens the box of an id by the name the client opens.         *)
LEMMA ReachByRecv ==
  ASSUME Known, Reach, UNCHANGED clientVars, Recv
  PROVE  Reach'
<1> HIDE DEF Msg
<1> DEFINE m == Queue[1]
<1>1. /\ Queue # <<>> /\ msg' = m /\ spc' = m.type
      /\ Queue' = Remaining(Queue) /\ m.id \in 1 .. MAX_CLIENT /\ m.type \in Request_
      /\ \/ client_box' = NoBox /\ UNCHANGED shm
         \/ /\ client_box' = ObjectOf(m.id)
            /\ shm' = [shm EXCEPT ![m.id] = ObjectOf(m.id)]
  BY RecvEffect DEF Asks
<1>2. Onward /\ UNCHANGED <<mine, room>>
  BY DEF Onward, clientVars, Recv
<1>3. /\ Len(Queue) \in Nat \ {0} /\ Len(Queue') = Len(Queue) - 1
      /\ \A k \in 1 .. Len(Queue) - 1 : Queue'[k] = Queue[k + 1]
  <2>1. Queue \in Seq(Msg)
    BY Anchor DEF Known
  <2> QED
    BY <1>1, <2>1, Taking
<1>4. /\ 1 \in 1 .. Len(Queue)
      /\ \A k \in 1 .. Len(Queue') : k + 1 \in 1 .. Len(Queue) /\ Queue'[k] = Queue[k + 1]
  BY <1>3
<1>5. shm \in [Ids -> Nat]
  BY DEF Known, RoomTypes, MemoryTypes, Boxes
<1>6. \A i \in 1 .. MAX_CLIENT : /\ shm[i] # NoBox => shm'[i] = shm[i]
                                 /\ client_box' # NoBox /\ m.id = i => client_box' = shm'[i]
  <2>1. \A i \in 1 .. MAX_CLIENT : i \in Ids
    BY Anchor DEF Known
  <2> QED
    BY <1>1, <1>5, <2>1 DEF ObjectOf
<1> HIDE DEF m
<1>7. ASSUME NEW i \in 1 .. MAX_CLIENT, Unused(i)' PROVE NoTrace(i)'
  <2>1. NoTrace(i)
    BY <1>2, <1>7, OnwardIds DEF Reach
  <2>2. m.id # i
    BY <1>4, <2>1 DEF NoTrace, m
  <2> QED
    BY <1>1, <1>2, <1>4, <2>1, <2>2 DEF NoTrace
<1>8. ASSUME NEW p \in Procs, OwnId(p)' PROVE Leads(p, IdOf[p])'
  <2> DEFINE i == IdOf[p]
  <2>1. i \in 1 .. MAX_CLIENT /\ Leads(p, i) /\ i' = i
    BY <1>2, <1>8, OnwardIds, ClientIds DEF Reach
  <2> HIDE DEF i
  <2>2. Fits(p, i) => Fits(p, i)'
    BY <1>2, <1>6, <2>1 DEF Fits
  <2>3. Waits("JOIN", i)' => Waits("JOIN", i)
    BY <1>4, <2>1 DEF Waits
  <2>4. m.type = "JOIN" /\ m.id = i => Waits("JOIN", i)
    BY <1>4 DEF Waits, m
  <2>5. m.type = "QUIT" /\ m.id = i => ~Waits("JOIN", i)'
    <3> SUFFICES ASSUME m.type = "QUIT", m.id = i,
                        NEW k \in 1 .. Len(Queue'), Queue'[k].type = "JOIN", Queue'[k].id = i
                 PROVE  FALSE
      BY <2>1 DEF Waits
    <3>1. k + 1 \in 1 .. Len(Queue) /\ Queue[k + 1].type = "JOIN" /\ Queue[k + 1].id = i
      BY <1>4
    <3>2. k + 1 < 1
      BY <1>4, <2>1, <3>1 DEF Leads, m
    <3> QED
      BY <3>2
  <2>6. \A j, k \in 1 .. Len(Queue') :
           Queue'[k].type = "QUIT" /\ Queue'[k].id = i /\ Queue'[j].type = "JOIN" /\ Queue'[j].id = i
           => j < k
    <3> SUFFICES ASSUME NEW j \in 1 .. Len(Queue'), NEW k \in 1 .. Len(Queue'),
                        Queue'[k].type = "QUIT", Queue'[k].id = i,
                        Queue'[j].type = "JOIN", Queue'[j].id = i
                 PROVE  j < k
      OBVIOUS
    <3>1. /\ k + 1 \in 1 .. Len(Queue) /\ Queue[k + 1] = Queue'[k]
          /\ j + 1 \in 1 .. Len(Queue) /\ Queue[j + 1] = Queue'[j]
      BY <1>4
    <3>2. j + 1 < k + 1
      BY <2>1, <3>1 DEF Leads
    <3> QED
      BY <3>2
  <2>7. room'[i].client_box # NoBox => room'[i].client_box = shm'[i] /\ Fits(p, i)'
    BY <1>2, <1>6, <2>1, <2>2 DEF Leads
  <2>8. spc' = "JOIN" /\ msg'.id = i => client_box' \in {NoBox, shm'[i]} /\ Fits(p, i)'
    BY <1>1, <1>6, <2>1, <2>2, <2>4 DEF Leads
  <2>9. Waits("JOIN", i)' => Fits(p, i)'
    BY <2>1, <2>2, <2>3 DEF Leads
  <2>10. Leads(p, i)'
    BY <1>1, <2>1, <2>5, <2>6, <2>7, <2>8, <2>9 DEF Leads
  <2> QED
    BY <2>10 DEF i
<1> QED
  BY <1>2, <1>7, <1>8 DEF Reach, Onward

(* A JOIN enters the box that was opened, a QUIT removes entry and name.   *)
LEMMA ReachByHandlers ==
  ASSUME Known, Reach, UNCHANGED clientVars, HandleJoin \/ HandleQuit, RoomTypes'
  PROVE  Reach'
<1> HIDE DEF Msg, Rooms
<1>1. /\ msg.id \in 1 .. MAX_CLIENT /\ spc' = "cast" /\ spc \in Request_
      /\ UNCHANGED Queue
  <2>1. spc \in Request_ /\ spc' = "cast"
    BY DEF HandleJoin, HandleQuit, Announce, Request_
  <2>2. msg.id \in 1 .. MAX_CLIENT
    BY <2>1 DEF Known, Asked, Asks
  <2> QED
    BY <2>1, <2>2, HandlesStill DEF Still
<1>2. Onward /\ UNCHANGED mine
  BY DEF Onward, clientVars
<1>3. \A i \in 1 .. MAX_CLIENT :
         i # msg.id => room'[i].client_box = room[i].client_box /\ shm'[i] = shm[i]
  <2>1. CASE HandleJoin
    BY <2>1 DEF HandleJoin, memory
  <2>2. CASE HandleQuit
    BY <2>2 DEF HandleQuit, Without
  <2> QED
    BY <2>1, <2>2
<1>6. /\ HandleJoin => room'[msg.id].client_box = client_box /\ UNCHANGED shm /\ spc = "JOIN"
      /\ HandleQuit => room'[msg.id].client_box = NoBox /\ spc = "QUIT"
  <2>1. room \in [Ids -> [session_owner : AnyName, client_box : 0 .. Len(box)]] /\ msg.id \in Ids
    BY <1>1, Anchor DEF Known, RoomTypes, ServerTypes, Rooms
  <2> QED
    BY <2>1 DEF HandleJoin, HandleQuit, Without, memory
<1>4. ASSUME NEW i \in 1 .. MAX_CLIENT, Unused(i)' PROVE NoTrace(i)'
  <2>1. NoTrace(i)
    BY <1>2, <1>4, OnwardIds DEF Reach
  <2> QED
    BY <1>1, <1>3, <2>1 DEF NoTrace, Request_
<1>5. ASSUME NEW p \in Procs, OwnId(p)' PROVE Leads(p, IdOf[p])'
  <2> DEFINE i == IdOf[p]
  <2>1. i \in 1 .. MAX_CLIENT /\ i \in Ids /\ Leads(p, i) /\ i' = i
    BY <1>2, <1>5, OnwardIds, ClientIds DEF Reach
  <2> HIDE DEF i
  <2>2. ASSUME i # msg.id PROVE Leads(p, i)'
    BY <1>1, <1>2, <1>3, <2>1, <2>2 DEF Leads, Fits, Waits
  <2>3. ASSUME i = msg.id, HandleJoin PROVE Leads(p, i)'
    <3>1. room'[i].client_box = client_box /\ UNCHANGED shm /\ spc = "JOIN"
      BY <1>6, <2>3
    <3> QED
      BY <1>1, <1>2, <2>1, <2>3, <3>1 DEF Leads, Fits, Waits
  <2>4. ASSUME i = msg.id, HandleQuit PROVE Leads(p, i)'
    <3>1. room'[i].client_box = NoBox /\ spc = "QUIT"
      BY <1>6, <2>4
    <3> QED
      BY <1>1, <1>2, <2>1, <2>4, <3>1 DEF Leads, Fits, Waits
  <2>5. Leads(p, i)'
    BY <2>2, <2>3, <2>4
  <2> QED
    BY <2>5 DEF i
<1> QED
  BY <1>2, <1>4, <1>5 DEF Reach, Onward

(* A JOIN comes after every request there is of its id.                    *)
LEMMA ReachByJoin ==
  ASSUME Known, Reach, UNCHANGED serverVars, NEW p \in Procs, Join(p)
  PROVE  Reach'
<1> HIDE DEF Msg
<1> DEFINE m == Request(p, "JOIN", <<>>)
<1>1. /\ Queue' \in {Queue, Append(Queue, m)}
      /\ shm' = [shm EXCEPT ![SERVER_ID] = ObjectOf(SERVER_ID)]
  BY JoinEffect DEF Known
<1>2. /\ UNCHANGED <<mine, room, spc, msg, client_box>> /\ cpc[p] = "start"
      /\ cpc' = [cpc EXCEPT ![p] = "joined"] /\ cpc \in [Procs -> ClientStates]
  BY DEF Join, serverVars, Known, RoomTypes, ClientTypes
<1>3. Onward /\ cpc'[p] # "start"
  BY <1>2 DEF Onward
<1>4. Queue \in Seq(Msg) /\ Len(Queue) \in Nat
  BY Anchor DEF Known
<1>5. m.type = "JOIN" /\ m.id = IdOf[p]
  BY DEF Request
<1> HIDE DEF m
<1>6. \A k \in 1 .. Len(Queue') : \/ k \in 1 .. Len(Queue) /\ Queue'[k] = Queue[k]
                                  \/ k = Len(Queue) + 1 /\ Queue'[k] = m
  BY <1>1, <1>4
<1>7. ASSUME NEW i \in 1 .. MAX_CLIENT, Unused(i)' PROVE NoTrace(i)'
  <2>1. NoTrace(i) /\ i # IdOf[p]
    BY <1>3, <1>7, OnwardIds DEF Reach, Unused
  <2> QED
    BY <1>2, <1>5, <1>6, <2>1 DEF NoTrace
<1>8. ASSUME NEW q \in Procs, OwnId(q)' PROVE Leads(q, IdOf[q])'
  <2> DEFINE i == IdOf[q]
  <2>1. i \in 1 .. MAX_CLIENT /\ Leads(q, i) /\ i' = i /\ shm'[i] = shm[i]
    BY <1>1, <1>3, <1>8, OnwardIds, ClientIds DEF Reach
  <2>2. i = IdOf[p] => q = p
    BY <1>3, <1>8 DEF OwnId
  <2>3. q = p => Unused(i) /\ mine[p] = NoBox
    BY <1>2, <1>3, <1>8, OnwardIds DEF OwnId, Unused, Reach
  <2>4. q = p => NoTrace(i) /\ mine[p] = NoBox
    BY <2>1, <2>3 DEF Reach
  <2> HIDE DEF i
  <2>5. Fits(q, i)' <=> Fits(q, i)
    BY <1>2, <2>1 DEF Fits
  <2>6. q = p => Fits(q, i)
    BY <2>4 DEF Fits
  <2>7. q # p => (Waits("JOIN", i)' => Waits("JOIN", i))
    BY <1>5, <1>6, <2>1, <2>2 DEF Waits, i
  <2>8. \A j, k \in 1 .. Len(Queue') :
           Queue'[k].type = "QUIT" /\ Queue'[k].id = i /\ Queue'[j].type = "JOIN" /\ Queue'[j].id = i
           => j < k
    <3> SUFFICES ASSUME NEW j \in 1 .. Len(Queue'), NEW k \in 1 .. Len(Queue'),
                        Queue'[k].type = "QUIT", Queue'[k].id = i,
                        Queue'[j].type = "JOIN", Queue'[j].id = i
                 PROVE  j < k
      OBVIOUS
    <3>1. k \in 1 .. Len(Queue) /\ Queue[k] = Queue'[k]
      BY <1>5, <1>6
    <3>2. q # p
      BY <2>4, <3>1 DEF NoTrace
    <3>3. j \in 1 .. Len(Queue) /\ Queue[j] = Queue'[j]
      BY <1>5, <1>6, <2>2, <3>2 DEF i
    <3> QED
      BY <2>1, <3>1, <3>3 DEF Leads
  <2>9. Leads(q, i)'
    <3>1. CASE q = p
      <4>1. spc = "JOIN" \/ spc = "QUIT" => msg.id # i
        BY <2>4, <3>1 DEF NoTrace, Request_
      <4> QED
        BY <1>2, <2>1, <2>4, <2>5, <2>6, <2>8, <3>1, <4>1 DEF Leads, NoTrace
    <3>2. CASE q # p
      BY <1>2, <2>1, <2>5, <2>7, <2>8, <3>2 DEF Leads
    <3> QED
      BY <3>1, <3>2
  <2> QED
    BY <2>9 DEF i
<1>9. \A q \in Procs : cpc'[q] \in {"start", "joined"} => mine'[q] = NoBox
  BY <1>2, <1>3 DEF Reach, Onward
<1> QED
  BY <1>7, <1>8, <1>9 DEF Reach

(* A client opens the object its name leads to.                            *)
LEMMA ReachByOpenOwn ==
  ASSUME Known, Reach, UNCHANGED serverVars, NEW p \in Procs, OpenOwn(p)
  PROVE  Reach'
<1> HIDE DEF Msg
<1>1. /\ Queue' = Queue /\ mine' = [mine EXCEPT ![p] = ObjectOf(IdOf[p])]
      /\ shm' = [shm EXCEPT ![IdOf[p]] = ObjectOf(IdOf[p])]
  BY OpenOwnEffect DEF Known
<1>2. /\ UNCHANGED <<room, spc, msg, client_box>> /\ cpc[p] = "joined"
      /\ cpc' = [cpc EXCEPT ![p] = "typing"] /\ cpc \in [Procs -> ClientStates]
  BY DEF OpenOwn, serverVars, Known, RoomTypes, ClientTypes
<1>3. Onward /\ cpc'[p] \notin {"start", "joined"}
  BY <1>2 DEF Onward
<1>4. /\ shm \in [Ids -> Nat] /\ mine \in [Procs -> Nat]
      /\ IdOf[p] \in Ids
  BY ClientIds DEF Known, RoomTypes, MemoryTypes, ClientTypes, Boxes
<1>5. /\ mine'[p] = shm'[IdOf[p]]
      /\ shm[IdOf[p]] # NoBox => shm'[IdOf[p]] = shm[IdOf[p]]
  BY <1>1, <1>4 DEF ObjectOf
<1>6. ASSUME NEW i \in 1 .. MAX_CLIENT, Unused(i)' PROVE NoTrace(i)'
  BY <1>1, <1>2, <1>3, <1>6, OnwardIds DEF Reach, NoTrace
<1>7. ASSUME NEW q \in Procs, OwnId(q)' PROVE Leads(q, IdOf[q])'
  <2> DEFINE i == IdOf[q]
  <2>1. i \in Ids /\ Leads(q, i) /\ i' = i
    BY <1>3, <1>7, OnwardIds, ClientIds DEF Reach
  <2>2. q # p => mine'[q] = mine[q] /\ shm'[i] = shm[i]
    BY <1>1, <1>2, <1>3, <1>4, <1>7 DEF OwnId
  <2>3. q = p => mine'[q] = shm'[i] /\ (shm[i] # NoBox => shm'[i] = shm[i])
    BY <1>5
  <2> HIDE DEF i
  <2>4. Leads(q, i)'
    <3>1. CASE q = p
      BY <1>1, <1>2, <2>1, <2>3, <3>1 DEF Leads, Fits, Waits
    <3>2. CASE q # p
      BY <1>1, <1>2, <2>1, <2>2, <3>2 DEF Leads, Fits, Waits
    <3> QED
      BY <3>1, <3>2
  <2> QED
    BY <2>4 DEF i
<1>8. \A q \in Procs : cpc'[q] \in {"start", "joined"} => mine'[q] = NoBox
  BY <1>1, <1>3, <1>4 DEF Reach, Onward
<1> QED
  BY <1>6, <1>7, <1>8 DEF Reach

(* What a client sends after its JOIN is no JOIN.                          *)
LEMMA ReachBySending ==
  ASSUME Known, Reach, UNCHANGED serverVars, NEW p \in Procs, Sending(p)
  PROVE  Reach'
<1> HIDE DEF Msg
<1>1. PICK m \in Msg, pc \in ClientStates \ {"start", "joined", "BROADCAST"} :
         /\ m.id = IdOf[p] /\ m.type # "JOIN" /\ Queue' = Append(Queue, m)
         /\ cpc' = [cpc EXCEPT ![p] = pc]
  BY SendingEffect
<1>2. UNCHANGED <<shm, mine, room, spc, msg, client_box>> /\ cpc[p] # "start"
  BY SendingEffect DEF serverVars
<1>3. Onward
  BY <1>1 DEF Onward, Known, RoomTypes, ClientTypes
<1>4. Queue \in Seq(Msg) /\ Len(Queue) \in Nat
  BY Anchor DEF Known
<1>5. \A k \in 1 .. Len(Queue') : \/ k \in 1 .. Len(Queue) /\ Queue'[k] = Queue[k]
                                  \/ k = Len(Queue) + 1 /\ Queue'[k] = m
  BY <1>1, <1>4
<1>6. ASSUME NEW i \in 1 .. MAX_CLIENT, Unused(i)' PROVE NoTrace(i)'
  <2>1. NoTrace(i) /\ i # IdOf[p]
    BY <1>2, <1>3, <1>6, OnwardIds DEF Reach, Unused
  <2> QED
    BY <1>1, <1>2, <1>5, <2>1 DEF NoTrace
<1>7. ASSUME NEW q \in Procs, OwnId(q)' PROVE Leads(q, IdOf[q])'
  <2> DEFINE i == IdOf[q]
  <2>1. Leads(q, i) /\ i' = i
    BY <1>3, <1>7, OnwardIds DEF Reach
  <2> HIDE DEF i
  <2>2. Waits("JOIN", i)' => Waits("JOIN", i)
    BY <1>1, <1>5, <2>1 DEF Waits
  <2>3. \A j, k \in 1 .. Len(Queue') :
           Queue'[k].type = "QUIT" /\ Queue'[k].id = i /\ Queue'[j].type = "JOIN" /\ Queue'[j].id = i
           => j < k
    <3> SUFFICES ASSUME NEW j \in 1 .. Len(Queue'), NEW k \in 1 .. Len(Queue'),
                        Queue'[k].type = "QUIT", Queue'[k].id = i,
                        Queue'[j].type = "JOIN", Queue'[j].id = i
                 PROVE  j < k
      OBVIOUS
    <3>1. j \in 1 .. Len(Queue) /\ Queue[j] = Queue'[j]
      BY <1>1, <1>5
    <3>2. CASE k \in 1 .. Len(Queue) /\ Queue'[k] = Queue[k]
      BY <2>1, <3>1, <3>2 DEF Leads
    <3>3. CASE k = Len(Queue) + 1
      BY <1>4, <3>1, <3>3
    <3> QED
      BY <1>5, <3>2, <3>3
  <2>4. Leads(q, i)'
    BY <1>2, <2>1, <2>2, <2>3 DEF Leads, Fits
  <2> QED
    BY <2>4 DEF i
<1>8. \A q \in Procs : cpc'[q] \in {"start", "joined"} => mine'[q] = NoBox
  BY <1>2, <1>3 DEF Reach, Onward
<1> QED
  BY <1>6, <1>7, <1>8 DEF Reach

(* Every step keeps the ways to the boxes.                                 *)
LEMMA ReachNext ==
  ASSUME Known, RoomTypes', Reach, [Next]_vars
  PROVE  Reach'
<1>1. CASE UNCHANGED vars
  <2>1. UNCHANGED <<memory, serverVars, clientVars>>
    BY <1>1 DEF vars
  <2>2. Onward /\ UNCHANGED <<mine, Queue, shm, room, spc, msg, client_box>>
    BY <2>1 DEF Onward, memory, serverVars, clientVars, Queue
  <2> QED
    BY <2>2, ReachStays
<1>2. ASSUME UNCHANGED clientVars, Looks \/ HandleWhisper PROVE Reach'
  BY <1>2, ReachByServer
<1>3. ASSUME UNCHANGED serverVars, NEW p \in Procs, Sits(p) \/ Receive(p) PROVE Reach'
  BY <1>3, ReachByQuietClient
<1>4. CASE Next
  BY <1>2, <1>3, <1>4, Steps, ReachByHandlers, ReachByStart, ReachByRecv, ReachByJoin, ReachByOpenOwn,
     ReachBySending
<1> QED
  BY <1>1, <1>4

(* A member's entry in the room leads to the box the member reads, though  *)
(* the server opens that box by name when it takes JOIN and the client     *)
(* after it sent JOIN, and though QUIT removes the name: for any number of *)
(* clients, restarts of the server and losses of a JOIN, as long as nobody *)
(* else used the id.                                                       *)
THEOREM RoomMembersReachable == Spec => []MembersReachable
<1>1. Init => Reach
  <2> SUFFICES ASSUME Init PROVE Reach
    OBVIOUS
  <2>1. /\ room = EmptyRoom /\ Queue = <<>> /\ Len(Queue) = 0 /\ spc = "off"
        /\ mine = [p \in Procs |-> NoBox] /\ SERVER_ID \in Ids
    <3>1. SERVER_ID \in Ids
      BY MemoryAssumption DEF Ids, SERVER_ID
    <3> QED
      BY <3>1 DEF Init, MemoryInit, ServerInit, ClientInit, Queue
  <2>2. \A i \in 1 .. MAX_CLIENT : i \in Ids /\ room[i].client_box = NoBox
    BY <2>1, MemoryAssumption DEF EmptyRoom, Ids, SERVER_ID
  <2>3. \A i \in 1 .. MAX_CLIENT : NoTrace(i)
    BY <2>1, <2>2 DEF NoTrace, Request_
  <2>4. \A p \in Procs : Leads(p, IdOf[p])
    BY <2>1, <2>2, ClientIds DEF Leads, Waits
  <2> QED
    BY <2>1, <2>3, <2>4 DEF Reach
<1>2. Known /\ RoomTypes' /\ Reach /\ [Next]_vars => Reach'
  BY ReachNext
<1>3. Known => RoomTypes
  BY DEF Known
<1>4. Known /\ Reach => MembersReachable
  <2> SUFFICES ASSUME Known, Reach, NEW p \in Procs, rpc[p] = "run", OwnId(p), IdOf[p] \in Members
               PROVE  room[IdOf[p]].client_box = mine[p]
    BY DEF MembersReachable
  <2>1. room[IdOf[p]].client_box # NoBox /\ mine[p] # NoBox
    BY DEF Members, Known, RoomTypes, ClientTypes
  <2> QED
    BY <2>1 DEF Reach, Leads, Fits
<1> QED
  BY <1>1, <1>2, <1>3, <1>4, KnownHolds, PTL DEF Spec
=============================================================================
