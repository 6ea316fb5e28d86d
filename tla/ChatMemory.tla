----------------------------- MODULE ChatMemory -----------------------------
(***************************************************************************)
(* What the processes of the chat room share: the names __msgbox_<id> of   *)
(* POSIX shared memory and the objects behind them.  An object outlives    *)
(* its name: shm_unlink removes the name, the processes that mapped the    *)
(* object keep it, and the next messagebox_open of the name makes another. *)
(*                                                                         *)
(* An object holds a message box, here the mailbox MessageBox.tla was      *)
(* shown to implement: a queue of at most Capacity messages.               *)
(***************************************************************************)
EXTENDS Naturals, Sequences, FiniteSets, SequencesExt

CONSTANTS MAX_CLIENT,  \* client ids are 1 .. MAX_CLIENT
          Capacity     \* messages a box holds: MESSAGE_BUF_SIZE - 1

ASSUME MemoryAssumption == MAX_CLIENT \in Nat \ {0} /\ Capacity \in Nat \ {0}

SERVER_ID == 0
Ids == SERVER_ID .. MAX_CLIENT

\* A name without an object; also the NULL pointer.
NoBox == 0

VARIABLES shm,  \* the object each name stands for
          box   \* the messages in each object, oldest first

memory == <<shm, box>>

MemoryInit == shm = [id \in Ids |-> NoBox] /\ box = <<>>

\* Mutation: every open of a client's box makes the object anew.
ObjectFresh(id) ==
    IF id # SERVER_ID \/ shm[id] = NoBox THEN Len(box) + 1 ELSE shm[id]

\* messagebox_open maps the object of the name, after making one if there is none.
ObjectOf(id) == IF shm[id] = NoBox THEN Len(box) + 1 ELSE shm[id]
Bind(id) == shm' = [shm EXCEPT ![id] = ObjectOf(id)]
WithObject(id) == IF ObjectOf(id) > Len(box) THEN Append(box, <<>>) ELSE box

\* Mutation: full one message late.
IsFullLate(b) == Len(box[b]) > Capacity

IsFull(b) == Len(box[b]) = Capacity

\* Mutation: the look for room is missing.
PutAlways(boxes, b, m) == [boxes EXCEPT ![b] = Append(@, m)]

\* messagebox_send, its result ignored: a message that does not fit is dropped.
Put(boxes, b, m) ==
    [boxes EXCEPT ![b] = IF Len(@) < Capacity THEN Append(@, m) ELSE @]


\* messagebox_recv on a box that is not empty
Oldest(q) == 1
Taken(q) == q[Oldest(q)]

\* Mutation: msg_out_pos does not advance.
RemainingAll(q) == q

Remaining(q) == RemoveAt(q, Oldest(q))

\* msg_in_pos = msg_out_pos = 0
Emptied(boxes, b) == [boxes EXCEPT ![b] = <<>>]
=============================================================================
