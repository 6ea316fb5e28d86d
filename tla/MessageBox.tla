----------------------------- MODULE MessageBox -----------------------------
(***************************************************************************)
(* One message box of the chat room: the ring buffer of message_box.c in   *)
(* shared memory, the processes that call messagebox_send on it and the    *)
(* one that calls messagebox_recv.  Nothing locks the box, so every read   *)
(* and write of the shared memory is a step of its own, and the memcpy of  *)
(* a message is two steps (its head and its body), so that a message can   *)
(* be seen half written.                                                   *)
(*                                                                         *)
(* The server's box has the clients as Senders; a client's box has one     *)
(* sender, the server.  Spec is a box already emptied by its owner;        *)
(* JoinSpec is a client's box from the moment the server may write to it,  *)
(* which is before the client has reset the positions.                     *)
(***************************************************************************)
EXTENDS Naturals, Sequences, FiniteSets

CONSTANTS Senders,          \* processes that send to this box
          MESSAGE_BUF_SIZE, \* slots of the ring
          MaxSends,         \* bound on the messages each process sends
          Zero,             \* what a slot holds that nobody ever wrote
          Stale             \* what a slot holds that an earlier session wrote

ASSUME BoxAssumption ==
    /\ MESSAGE_BUF_SIZE \in Nat \ {0, 1}
    /\ MaxSends \in Nat
    /\ Zero \notin Senders \X (1 .. MaxSends)
    /\ Stale \notin Senders \X (1 .. MaxSends)

Position == 0 .. MESSAGE_BUF_SIZE - 1

(* A message is named by its sender and its number; a slot holds two words. *)
Message == Senders \X (1 .. MaxSends)
Word    == Message \cup {Zero, Stale}
Slot    == [head : Word, body : Word]
Whole(m) == [head |-> m, body |-> m]

VARIABLES messages, msg_in_pos, msg_out_pos,    \* the shared memory
          sendPc, in_pos, sent, waited,         \* each sender
          recvPc, msg,                          \* the receiver
          accepted, delivered, refused,         \* history
          overlapped                            \* history: msg_in_pos had two writers

memVars  == <<messages, msg_in_pos, msg_out_pos>>
sendVars == <<sendPc, in_pos, sent, waited>>
recvVars == <<recvPc, msg>>
history  == <<accepted, delivered, refused, overlapped>>
vars     == <<memVars, sendVars, recvVars, history>>

\* Mutation: the ring does not wrap.
NextPosNoWrap(i) == i + 1

NextPos(i) == (i + 1) % MESSAGE_BUF_SIZE

\* Mutations: a send that never looks for room; one that keeps a slot too many free.
IsFullNever(i, o) == FALSE
IsFullEarly(i, o) == i # o /\ NextPos(NextPos(i)) = o

\* messagebox_check_full and the test that opens messagebox_send
IsFull(i, o) == NextPos(i) = o

\* messagebox_check_empty and the test that opens messagebox_recv
IsEmpty == msg_out_pos = msg_in_pos

Current(p) == <<p, sent[p]>>

\* from reading msg_in_pos to writing it back
InSend(p) == sendPc[p] \in {"compare", "head", "body", "publish"}
-----------------------------------------------------------------------------
InitWith(word, in, out, pc) ==
    /\ messages = [i \in Position |-> Whole(word)]
    /\ msg_in_pos = in /\ msg_out_pos = out
    /\ sendPc = [p \in Senders |-> "idle"]
    /\ in_pos = [p \in Senders |-> 0]
    /\ sent = [p \in Senders |-> 0]
    /\ waited = {}
    /\ recvPc = pc
    /\ msg = Whole(Zero)
    /\ accepted = <<>> /\ delivered = <<>> /\ refused = <<>>
    /\ overlapped = FALSE

\* The owner has set both positions to 0 and starts receiving.
Init == \E word \in {Zero, Stale} : InitWith(word, 0, 0, "poll")

\* A client sent JOIN and has not yet reset the box it reads, a new one or
\* one that an earlier session left anyhow.
JoinInit ==
    \/ InitWith(Zero, 0, 0, "resetIn")
    \/ \E in, out \in Position : InitWith(Stale, in, out, "resetIn")
-----------------------------------------------------------------------------
Goto(p, pc) == sendPc' = [sendPc EXCEPT ![p] = pc]

Begin(p, pc) ==
    /\ sendPc[p] = "idle" /\ sent[p] < MaxSends
    /\ Goto(p, pc)
    /\ sent' = [sent EXCEPT ![p] = @ + 1]
    /\ UNCHANGED <<memVars, in_pos, recvVars, history>>

\* client_join_chat and client_boardcast: send without looking first
SendNow(p) == Begin(p, "load") /\ waited' = waited \ {p}

\* while (messagebox_check_full(box)) usleep(100); messagebox_send(box, msg)
SendWhenNotFull(p) == Begin(p, "pollIn") /\ waited' = waited \cup {p}

PollIn(p) ==
    /\ sendPc[p] = "pollIn"
    /\ in_pos' = [in_pos EXCEPT ![p] = msg_in_pos]
    /\ Goto(p, "pollOut")
    /\ UNCHANGED <<memVars, sent, waited, recvVars, history>>

\* Mutation: "if" for "while": look once and go on.
PollOutOnce(p) ==
    /\ sendPc[p] = "pollOut"
    /\ Goto(p, "load")
    /\ UNCHANGED <<memVars, in_pos, sent, waited, recvVars, history>>

PollOut(p) ==
    /\ sendPc[p] = "pollOut"
    /\ Goto(p, IF IsFull(in_pos[p], msg_out_pos) THEN "pollIn" ELSE "load")
    /\ UNCHANGED <<memVars, in_pos, sent, waited, recvVars, history>>

LoadIn(p) ==
    /\ sendPc[p] = "load"
    /\ in_pos' = [in_pos EXCEPT ![p] = msg_in_pos]
    /\ Goto(p, "compare")
    /\ overlapped' = (overlapped \/ \E q \in Senders \ {p} : InSend(q))
    /\ UNCHANGED <<memVars, sent, waited, recvVars, accepted, delivered, refused>>

\* return -1: nobody looks at the result, the message is dropped
Refuse(p) ==
    /\ sendPc[p] = "compare" /\ IsFull(in_pos[p], msg_out_pos)
    /\ Goto(p, "idle")
    /\ refused' = Append(refused, Whole(Current(p)))
    /\ UNCHANGED <<memVars, in_pos, sent, waited, recvVars, accepted, delivered, overlapped>>

\* Mutation: msg_in_pos advances without the memcpy before it.
FitsPublishFirst(p) ==
    /\ sendPc[p] = "compare" /\ ~IsFull(in_pos[p], msg_out_pos)
    /\ Goto(p, "publish")
    /\ UNCHANGED <<memVars, in_pos, sent, waited, recvVars, history>>

Fits(p) ==
    /\ sendPc[p] = "compare" /\ ~IsFull(in_pos[p], msg_out_pos)
    /\ Goto(p, "head")
    /\ UNCHANGED <<memVars, in_pos, sent, waited, recvVars, history>>

CopyHead(p) ==
    /\ sendPc[p] = "head"
    /\ messages' = [messages EXCEPT ![in_pos[p]] = [head |-> Current(p), body |-> @.body]]
    /\ Goto(p, "body")
    /\ UNCHANGED <<msg_in_pos, msg_out_pos, in_pos, sent, waited, recvVars, history>>

CopyBody(p) ==
    /\ sendPc[p] = "body"
    /\ messages' = [messages EXCEPT ![in_pos[p]] = [head |-> @.head, body |-> Current(p)]]
    /\ Goto(p, "publish")
    /\ UNCHANGED <<msg_in_pos, msg_out_pos, in_pos, sent, waited, recvVars, history>>

\* The compiler may keep msg_in_pos in a register over the memcpy or read it
\* again: the build can do either.
Publish(p) ==
    /\ sendPc[p] = "publish"
    /\ \E i \in {in_pos[p], msg_in_pos} : msg_in_pos' = NextPos(i)
    /\ accepted' = Append(accepted, Whole(Current(p)))
    /\ Goto(p, "idle")
    /\ UNCHANGED <<messages, msg_out_pos, in_pos, sent, waited, recvVars,
                   delivered, refused, overlapped>>

\* A send in progress runs to its end by itself.
Continue(p) ==
    \/ PollIn(p) \/ PollOut(p) \/ LoadIn(p) \/ Refuse(p) \/ Fits(p)
    \/ CopyHead(p) \/ CopyBody(p) \/ Publish(p)
-----------------------------------------------------------------------------
\* client_box->msg_in_pos = 0; client_box->msg_out_pos = 0
ResetIn ==
    /\ recvPc = "resetIn"
    /\ msg_in_pos' = 0 /\ recvPc' = "resetOut"
    /\ overlapped' = (overlapped \/ \E p \in Senders : InSend(p))
    /\ UNCHANGED <<messages, msg_out_pos, sendVars, msg, accepted, delivered, refused>>

ResetOut ==
    /\ recvPc = "resetOut"
    /\ msg_out_pos' = 0 /\ recvPc' = "poll"
    /\ UNCHANGED <<messages, msg_in_pos, sendVars, msg, history>>

Poll ==
    /\ recvPc = "poll" /\ ~IsEmpty
    /\ recvPc' = "recv"
    /\ UNCHANGED <<memVars, sendVars, msg, history>>

\* messagebox_recv finds the box empty after all and returns -1, which the
\* caller ignores: it handles whatever its buffer still holds.
RecvNothing ==
    /\ recvPc = "recv" /\ IsEmpty
    /\ recvPc' = "poll"
    /\ delivered' = Append(delivered, msg)
    /\ UNCHANGED <<memVars, sendVars, msg, accepted, refused, overlapped>>

Recv ==
    /\ recvPc = "recv" /\ ~IsEmpty
    /\ recvPc' = "head"
    /\ UNCHANGED <<memVars, sendVars, msg, history>>

TakeHead ==
    /\ recvPc = "head"
    /\ msg' = [head |-> messages[msg_out_pos].head, body |-> msg.body]
    /\ recvPc' = "body"
    /\ UNCHANGED <<memVars, sendVars, history>>

TakeBody ==
    /\ recvPc = "body"
    /\ msg' = [head |-> msg.head, body |-> messages[msg_out_pos].body]
    /\ recvPc' = "release"
    /\ UNCHANGED <<memVars, sendVars, history>>

\* Mutation: the receiving loop ends after a message.
ReleaseLast ==
    /\ recvPc = "release"
    /\ msg_out_pos' = NextPos(msg_out_pos)
    /\ recvPc' = "done"
    /\ delivered' = Append(delivered, msg)
    /\ UNCHANGED <<messages, msg_in_pos, sendVars, msg, accepted, refused, overlapped>>

Release ==
    /\ recvPc = "release"
    /\ msg_out_pos' = NextPos(msg_out_pos)
    /\ recvPc' = "poll"
    /\ delivered' = Append(delivered, msg)
    /\ UNCHANGED <<messages, msg_in_pos, sendVars, msg, accepted, refused, overlapped>>

Receive == ResetIn \/ ResetOut \/ Poll \/ RecvNothing \/ Recv
           \/ TakeHead \/ TakeBody \/ Release
-----------------------------------------------------------------------------
Next == Receive \/ \E p \in Senders : SendNow(p) \/ SendWhenNotFull(p) \/ Continue(p)

\* Threads are scheduled; nobody is obliged to start a send.
Fairness == WF_vars(Receive) /\ \A p \in Senders : WF_vars(Continue(p))

Spec         == Init /\ [][Next]_vars
FairSpec     == Spec /\ Fairness
JoinSpec     == JoinInit /\ [][Next]_vars
-----------------------------------------------------------------------------
(* Every variable holds a value the C types and the code allow: in         *)
(* particular the positions never leave the ring, whatever the schedule.   *)
TypeOK ==
    /\ messages \in [Position -> Slot]
    /\ msg_in_pos \in Position /\ msg_out_pos \in Position
    /\ sendPc \in [Senders -> {"idle", "pollIn", "pollOut", "load", "compare",
                               "head", "body", "publish"}]
    /\ in_pos \in [Senders -> Position]
    /\ sent \in [Senders -> 0 .. MaxSends]
    /\ waited \subseteq Senders
    /\ \A p \in Senders : sendPc[p] # "idle" => sent[p] > 0
    /\ recvPc \in {"resetIn", "resetOut", "poll", "recv", "head", "body", "release"}
    /\ msg \in Slot
    /\ accepted \in Seq(Slot) /\ delivered \in Seq(Slot) /\ refused \in Seq(Slot)
    /\ overlapped \in BOOLEAN

(* What the receiver gets is what was sent: whole messages, in the order   *)
(* the box took them, none twice and none skipped (message_box.h: a send   *)
(* adds at msg_in_pos, a receive removes at msg_out_pos).                  *)
DeliveredAsSent ==
    /\ Len(delivered) <= Len(accepted)
    /\ \A k \in 1 .. Len(delivered) : delivered[k] = accepted[k]

(* It holds for any number of senders as long as no two of them were ever  *)
(* inside messagebox_send at once: the missing lock is all that is missing.*)
SerialSendsDeliver == ~overlapped => DeliveredAsSent

(* Under the same condition no sender writes the slot the receiver reads:  *)
(* the two memcpy calls, which nothing synchronises, never meet.           *)
CopiesNeverMeet ==
    ~overlapped =>
        \A p \in Senders :
            ~ /\ sendPc[p] \in {"head", "body"} /\ recvPc \in {"head", "body"}
              /\ in_pos[p] = msg_out_pos

(* A sender that waited for room has it: the room seen by the loop over    *)
(* messagebox_check_full is still there when messagebox_send looks again,  *)
(* so that the result of messagebox_send need not be looked at.            *)
WaitedNeverRefused ==
    \A p \in Senders :
        sendPc[p] = "compare" /\ p \in waited => ~IsFull(in_pos[p], msg_out_pos)

(* A box with one sender implements the abstract mailbox, drained by a     *)
(* receiver that keeps running.                                            *)
Capacity == MESSAGE_BUF_SIZE - 1
MB == INSTANCE Mailbox WITH Record <- {Whole(m) : m \in Message}
ImplementsMailbox == MB!Spec

(* A sender that waits for room gets in, as long as the receiver runs.     *)
WaitingSenderGetsIn ==
    \A p \in Senders : sendPc[p] \in {"pollIn", "pollOut"} ~> sendPc[p] = "idle"

(* Whatever an earlier session left in a client's box, and whatever the    *)
(* server has sent before the client resets the positions, the client gets *)
(* only messages of this session, whole, in order and none twice, as long  *)
(* as no send was under way when msg_in_pos was reset.  Some may be lost.  *)
JoinDeliversInOrder ==
    ~overlapped =>
        /\ \A k \in 1 .. Len(delivered) :
              \E j \in 1 .. Len(accepted) : delivered[k] = accepted[j]
        /\ \A j, k \in 1 .. Len(delivered) :
              j < k => delivered[j].head[2] < delivered[k].head[2]
=============================================================================
