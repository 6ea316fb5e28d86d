-------------------------- MODULE MessageBoxProofs --------------------------
(***************************************************************************)
(* Proofs about the message box, for every ring size, every set of senders *)
(* and every number of messages.                                           *)
(***************************************************************************)
EXTENDS MessageBox, TLAPS

N == MESSAGE_BUF_SIZE

(* The number of slots is a number above 1.                                *)
LEMMA SizeIsNat == N \in Nat /\ N > 1
BY BoxAssumption DEF N

(* The C expression (i + 1) % MESSAGE_BUF_SIZE, without the remainder.     *)
LEMMA NextPosCases ==
  ASSUME NEW i \in Position
  PROVE  /\ NextPos(i) = IF i = N - 1 THEN 0 ELSE i + 1
         /\ NextPos(i) \in Position
<1>1. CASE i = N - 1
  <2>1. N % N = 0
    BY SizeIsNat
  <2> QED BY <1>1, <2>1, SizeIsNat DEF NextPos, Position, N
<1>2. CASE i # N - 1
  <2>1. i + 1 \in 0 .. N - 1
    BY <1>2, SizeIsNat DEF Position, N
  <2>2. (i + 1) % N = i + 1
    BY <2>1, SizeIsNat
  <2> QED BY <1>2, <2>1, <2>2 DEF NextPos, Position, N
<1> QED BY <1>1, <1>2

(* A message is never the mark of an unwritten slot, and names its sender. *)
LEMMA CurrentIsMessage ==
  ASSUME TypeOK, NEW p \in Senders, sendPc[p] # "idle"
  PROVE  Current(p) \in Message /\ Whole(Current(p)) \in Slot
BY DEF TypeOK, Current, Message, Whole, Slot, Word
-----------------------------------------------------------------------------
(* The box its owner emptied is well typed.                                *)
LEMMA TypeInit == Init => TypeOK
<1> SUFFICES ASSUME Init PROVE TypeOK
  OBVIOUS
<1>1. 0 \in Position
  BY SizeIsNat DEF Position, N
<1>2. Whole(Zero) \in Slot /\ Whole(Stale) \in Slot
  BY DEF Whole, Slot, Word
<1>3. messages \in [Position -> Slot] /\ msg_in_pos \in Position /\ msg_out_pos \in Position
  BY <1>1, <1>2 DEF Init, InitWith
<1>4. sent \in [Senders -> 0 .. MaxSends] /\ in_pos \in [Senders -> Position]
  BY <1>1, BoxAssumption DEF Init, InitWith
<1>5. <<>> \in Seq(Slot)
  OBVIOUS
<1> QED
  BY <1>2, <1>3, <1>4, <1>5 DEF Init, InitWith, TypeOK

(* No step, of whichever process, leaves the types.                        *)
LEMMA TypeStep == TypeOK /\ [Next]_vars => TypeOK'
<1> SUFFICES ASSUME TypeOK, [Next]_vars PROVE TypeOK'
  OBVIOUS
<1>1. ASSUME NEW p \in Senders, SendNow(p) \/ SendWhenNotFull(p)
      PROVE  TypeOK'
  <2>1. PICK pc \in {"load", "pollIn"} : Begin(p, pc)
    BY <1>1 DEF SendNow, SendWhenNotFull
  <2>2. sent' \in [Senders -> 0 .. MaxSends]
    BY <2>1, BoxAssumption DEF Begin, TypeOK
  <2>3. \A q \in Senders : sendPc'[q] # "idle" => sent'[q] > 0
    BY <2>1, BoxAssumption DEF Begin, Goto, TypeOK
  <2>4. waited' \subseteq Senders
    BY <1>1 DEF SendNow, SendWhenNotFull, TypeOK
  <2> QED
    BY <2>1, <2>2, <2>3, <2>4 DEF Begin, Goto, TypeOK, memVars, recvVars, history
<1>2. ASSUME NEW p \in Senders, PollIn(p) \/ PollOut(p) \/ LoadIn(p) \/ Fits(p)
      PROVE  TypeOK'
  BY <1>2 DEF PollIn, PollOut, LoadIn, Fits, Goto, TypeOK, memVars, recvVars, history
<1>3. ASSUME NEW p \in Senders, Refuse(p)
      PROVE  TypeOK'
  <2>1. Whole(Current(p)) \in Slot
    BY <1>3, CurrentIsMessage DEF Refuse
  <2>2. refused' \in Seq(Slot)
    BY <1>3, <2>1 DEF Refuse, TypeOK
  <2>3. \A q \in Senders : sendPc'[q] # "idle" => sent'[q] > 0
    BY <1>3 DEF Refuse, Goto, TypeOK
  <2>4. sendPc' \in [Senders -> {"idle", "pollIn", "pollOut", "load", "compare",
                                "head", "body", "publish"}]
    BY <1>3 DEF Refuse, Goto, TypeOK
  <2> QED
    BY <1>3, <2>2, <2>3, <2>4 DEF Refuse, TypeOK, memVars, recvVars
<1>4. ASSUME NEW p \in Senders, CopyHead(p) \/ CopyBody(p)
      PROVE  TypeOK'
  <2>1. Current(p) \in Word
    BY <1>4, CurrentIsMessage DEF CopyHead, CopyBody, Word
  <2>2. in_pos[p] \in Position /\ messages[in_pos[p]] \in Slot
    BY DEF TypeOK
  <2>3. messages[in_pos[p]].head \in Word /\ messages[in_pos[p]].body \in Word
    BY <2>2 DEF Slot
  <2>4. /\ [head |-> Current(p), body |-> messages[in_pos[p]].body] \in Slot
        /\ [head |-> messages[in_pos[p]].head, body |-> Current(p)] \in Slot
    BY <2>1, <2>3 DEF Slot
  <2>5. CASE CopyHead(p)
    <3>1. messages' \in [Position -> Slot]
      BY <2>2, <2>4, <2>5 DEF CopyHead, TypeOK
    <3> QED
      BY <2>5, <3>1 DEF CopyHead, Goto, TypeOK, recvVars, history
  <2>6. CASE CopyBody(p)
    <3>1. messages' \in [Position -> Slot]
      BY <2>2, <2>4, <2>6 DEF CopyBody, TypeOK
    <3> QED
      BY <2>6, <3>1 DEF CopyBody, Goto, TypeOK, recvVars, history
  <2> QED BY <1>4, <2>5, <2>6
<1>5. ASSUME NEW p \in Senders, Publish(p)
      PROVE  TypeOK'
  <2>1. Whole(Current(p)) \in Slot
    BY <1>5, CurrentIsMessage DEF Publish
  <2>2. msg_in_pos' \in Position
    BY <1>5, NextPosCases DEF Publish, TypeOK
  <2> QED
    BY <1>5, <2>1, <2>2 DEF Publish, Goto, TypeOK, recvVars
<1>6. CASE ResetIn \/ ResetOut \/ Poll \/ Recv
  <2>1. 0 \in Position
    BY SizeIsNat DEF Position, N
  <2> QED
    BY <1>6, <2>1 DEF ResetIn, ResetOut, Poll, Recv, TypeOK, memVars, sendVars, history
<1>7. CASE RecvNothing \/ Release
  <2>1. NextPos(msg_out_pos) \in Position
    BY NextPosCases DEF TypeOK
  <2>2. CASE RecvNothing
    BY <2>2 DEF RecvNothing, TypeOK, memVars, sendVars
  <2>3. CASE Release
    BY <2>1, <2>3 DEF Release, TypeOK, sendVars
  <2> QED BY <1>7, <2>2, <2>3
<1>8. CASE TakeHead \/ TakeBody
  <2>1. msg' \in Slot
    BY <1>8 DEF TakeHead, TakeBody, TypeOK, Slot
  <2> QED
    BY <1>8, <2>1 DEF TakeHead, TakeBody, TypeOK, memVars, sendVars, history
<1>9. CASE UNCHANGED vars
  BY <1>9 DEF vars, memVars, sendVars, recvVars, history, TypeOK
<1> QED
  BY <1>1, <1>2, <1>3, <1>4, <1>5, <1>6, <1>7, <1>8, <1>9 DEF Next, Receive, Continue

(* Type correctness: whatever the schedule, and with any number of senders *)
(* racing, the positions stay in the ring and a slot holds two words.      *)
THEOREM TypeCorrect == Spec => []TypeOK
BY TypeInit, TypeStep, PTL DEF Spec
-----------------------------------------------------------------------------
(* The ring as a window on the sequence accepted: Held slots, the k-th of  *)
(* them at Nth(msg_out_pos, k).                                            *)
Count(i, o) == IF o <= i THEN i - o ELSE (i - o) + N
Nth(o, k)   == IF o + k < N THEN o + k ELSE (o + k) - N
Held        == Count(msg_in_pos, msg_out_pos)

(* How many slots are held follows from the two positions, and how many    *)
(* are held says whether the box is empty or full.                         *)
LEMMA CountRange ==
  ASSUME NEW i \in Position, NEW o \in Position
  PROVE  /\ Count(i, o) \in 0 .. N - 1
         /\ IsFull(i, o) <=> Count(i, o) = N - 1
         /\ i = o <=> Count(i, o) = 0
<1>1. NextPos(i) = IF i = N - 1 THEN 0 ELSE i + 1
  BY NextPosCases
<1> QED BY <1>1, SizeIsNat DEF Count, Position, IsFull, N

(* The held slots are slots of the ring, and none is the one msg_in_pos    *)
(* names: a send writes a slot that nothing is held in.                    *)
LEMMA NthRange ==
  ASSUME NEW i \in Position, NEW o \in Position
  PROVE  /\ \A k \in 0 .. Count(i, o) - 1 : Nth(o, k) \in Position \ {i}
         /\ Nth(o, Count(i, o)) = i /\ Nth(o, 0) = o
BY SizeIsNat DEF Count, Nth, Position, N

(* Advancing msg_in_pos holds one slot more.                               *)
LEMMA CountGrows ==
  ASSUME NEW i \in Position, NEW o \in Position, Count(i, o) < N - 1
  PROVE  Count(NextPos(i), o) = Count(i, o) + 1
<1>1. NextPos(i) = IF i = N - 1 THEN 0 ELSE i + 1
  BY NextPosCases
<1> QED BY <1>1, SizeIsNat DEF Count, Position, N

(* Advancing msg_out_pos holds one slot less; the others move up.          *)
LEMMA CountShrinks ==
  ASSUME NEW i \in Position, NEW o \in Position, Count(i, o) > 0
  PROVE  /\ Count(i, NextPos(o)) = Count(i, o) - 1
         /\ \A k \in 0 .. Count(i, o) - 2 : Nth(NextPos(o), k) = Nth(o, k + 1)
<1>1. NextPos(o) = IF o = N - 1 THEN 0 ELSE o + 1
  BY NextPosCases
<1> QED BY <1>1, SizeIsNat DEF Count, Nth, Position, N
-----------------------------------------------------------------------------
(* The inductive invariant.  While no two sends have overlapped:           *)
(*  - the held slots are what was accepted and not yet delivered, in order;*)
(*  - the receiver past its check has a slot to read, and has read it right;*)
(*  - at most one sender is between reading and writing msg_in_pos, with   *)
(*    the current value in hand, room ahead of it, and its words written.  *)
Window ==
    /\ Len(accepted) = Len(delivered) + Held
    /\ \A k \in 1 .. Len(delivered) : delivered[k] = accepted[k]
    /\ \A k \in 0 .. Held - 1 :
          messages[Nth(msg_out_pos, k)] = accepted[Len(delivered) + 1 + k]

Reader ==
    /\ recvPc \notin {"resetIn", "resetOut"}
    /\ recvPc # "poll" => Held > 0
    /\ recvPc = "body" => msg.head = accepted[Len(delivered) + 1].head
    /\ recvPc = "release" => msg = accepted[Len(delivered) + 1]

Writer(p) ==
    /\ InSend(p) => in_pos[p] = msg_in_pos
    /\ sendPc[p] \in {"head", "body", "publish"} => Held < N - 1
    /\ sendPc[p] = "body" => messages[msg_in_pos].head = Current(p)
    /\ sendPc[p] = "publish" => messages[msg_in_pos] = Whole(Current(p))

OneWriter == \A p, q \in Senders : InSend(p) /\ InSend(q) => p = q

Serial == Window /\ Reader /\ OneWriter /\ \A p \in Senders : Writer(p)

IInv == TypeOK /\ (~overlapped => Serial)

(* A step of sender p that leaves the shared memory, the receiver and what *)
(* went through the box alone disturbs the invariant at p only.            *)
LEMMA PrivateStep ==
  ASSUME TypeOK, TypeOK', Serial, NEW p \in Senders,
         UNCHANGED <<memVars, recvVars, accepted, delivered>>,
         \A q \in Senders \ {p} : /\ sendPc'[q] = sendPc[q] /\ in_pos'[q] = in_pos[q]
                                 /\ sent'[q] = sent[q],
         OneWriter', Writer(p)'
  PROVE  Serial'
<1>1. Window' /\ Reader'
  BY DEF Serial, Window, Reader, Held, Count, Nth, memVars, recvVars
<1>2. ASSUME NEW q \in Senders PROVE Writer(q)'
  BY <1>2 DEF Serial, Writer, InSend, Current, Held, Count, memVars
<1> QED BY <1>1, <1>2 DEF Serial

(* A step of the receiver that leaves the shared memory alone.             *)
LEMMA ReadingStep ==
  ASSUME TypeOK, Serial, UNCHANGED <<memVars, sendVars, accepted, delivered>>, Reader'
  PROVE  Serial'
<1>1. Window'
  BY DEF Serial, Window, Held, Count, Nth, memVars
<1>2. OneWriter' /\ \A p \in Senders : Writer(p)'
  BY DEF Serial, OneWriter, Writer, InSend, Current, Held, Count, memVars, sendVars
<1> QED BY <1>1, <1>2 DEF Serial

(* Sends that overlapped stay overlapped: the history is never cleared.    *)
LEMMA StaysSerial == [Next]_vars /\ TypeOK /\ ~overlapped' => ~overlapped
<1> SUFFICES ASSUME [Next]_vars, TypeOK, overlapped PROVE overlapped'
  BY DEF TypeOK
<1>1. ASSUME NEW p \in Senders, SendNow(p) \/ SendWhenNotFull(p) \/ Continue(p)
      PROVE  overlapped'
  BY <1>1 DEF SendNow, SendWhenNotFull, Begin, Continue, PollIn, PollOut, LoadIn, Refuse,
     Fits, CopyHead, CopyBody, Publish, history
<1>2. CASE Receive
  BY <1>2 DEF Receive, ResetIn, ResetOut, Poll, RecvNothing, Recv, TakeHead, TakeBody,
     Release, history
<1>3. CASE UNCHANGED vars
  BY <1>3 DEF vars, history
<1> QED BY <1>1, <1>2, <1>3 DEF Next

(* The invariant is inductive, one case for each action.                   *)
LEMMA SerialStep ==
  ASSUME IInv, [Next]_vars, ~overlapped'
  PROVE  Serial'
<1>1. TypeOK /\ TypeOK' /\ Serial
  BY TypeStep, StaysSerial DEF IInv
<1>2. /\ msg_in_pos \in Position /\ msg_out_pos \in Position
      /\ messages \in [Position -> Slot] /\ accepted \in Seq(Slot) /\ delivered \in Seq(Slot)
      /\ \A q \in Senders : in_pos[q] \in Position
  BY <1>1 DEF TypeOK
<1>3. /\ Held \in 0 .. N - 1
      /\ \A k \in 0 .. Held - 1 : Nth(msg_out_pos, k) \in Position \ {msg_in_pos}
      /\ Nth(msg_out_pos, Held) = msg_in_pos /\ Nth(msg_out_pos, 0) = msg_out_pos
      /\ IsFull(msg_in_pos, msg_out_pos) <=> Held = N - 1
      /\ IsEmpty <=> Held = 0
  BY <1>2, CountRange, NthRange DEF Held, IsEmpty
<1>4. ASSUME NEW p \in Senders, SendNow(p) \/ SendWhenNotFull(p) \/ PollIn(p) \/ PollOut(p)
      PROVE  Serial'
  <2>1. PICK pc \in {"load", "pollIn", "pollOut"} : sendPc' = [sendPc EXCEPT ![p] = pc]
    BY <1>4 DEF SendNow, SendWhenNotFull, Begin, PollIn, PollOut, Goto
  <2>2. ~InSend(p) /\ ~InSend(p)'
    BY <1>1, <1>4, <2>1 DEF SendNow, SendWhenNotFull, Begin, PollIn, PollOut, InSend, TypeOK
  <2>3. /\ UNCHANGED <<memVars, recvVars, accepted, delivered>>
        /\ \A q \in Senders \ {p} : /\ sendPc'[q] = sendPc[q] /\ in_pos'[q] = in_pos[q]
                                  /\ sent'[q] = sent[q]
    BY <1>1, <1>4, <2>1 DEF SendNow, SendWhenNotFull, Begin, PollIn, PollOut, history, TypeOK
  <2>4. OneWriter'
    BY <1>1, <2>2, <2>3 DEF Serial, OneWriter, InSend
  <2>5. Writer(p)'
    BY <2>2 DEF Writer, InSend
  <2> QED BY <1>1, <2>3, <2>4, <2>5, PrivateStep
<1>5. ASSUME NEW p \in Senders, LoadIn(p)
      PROVE  Serial'
  <2>1. /\ UNCHANGED <<memVars, recvVars, accepted, delivered>>
        /\ sendPc'[p] = "compare" /\ in_pos'[p] = msg_in_pos'
        /\ \A q \in Senders \ {p} : /\ sendPc'[q] = sendPc[q] /\ in_pos'[q] = in_pos[q]
                                  /\ sent'[q] = sent[q]
    BY <1>1, <1>5 DEF LoadIn, Goto, TypeOK, memVars
  <2>2. \A q \in Senders \ {p} : ~InSend(q)
    BY <1>5 DEF LoadIn
  <2>3. OneWriter'
    BY <2>1, <2>2 DEF OneWriter, InSend
  <2>4. Writer(p)'
    BY <2>1 DEF Writer, InSend
  <2> QED BY <1>1, <2>1, <2>3, <2>4, PrivateStep
<1>6. ASSUME NEW p \in Senders, Refuse(p) \/ Fits(p)
      PROVE  Serial'
  <2>1. /\ UNCHANGED <<memVars, recvVars, accepted, delivered, in_pos>>
        /\ sendPc[p] = "compare" /\ sendPc'[p] \in {"idle", "head"}
        /\ \A q \in Senders \ {p} : /\ sendPc'[q] = sendPc[q] /\ in_pos'[q] = in_pos[q]
                                  /\ sent'[q] = sent[q]
    BY <1>1, <1>6 DEF Refuse, Fits, Goto, TypeOK, history
  <2>2. OneWriter'
    BY <1>1, <2>1 DEF Serial, OneWriter, InSend
  <2>3. in_pos[p] = msg_in_pos
    BY <1>1, <2>1 DEF Serial, Writer, InSend
  <2>4. sendPc'[p] = "head" => Held < N - 1
    <3>1. CASE Refuse(p)
      BY <1>1, <3>1 DEF Refuse, Goto, TypeOK
    <3>2. CASE Fits(p)
      BY <1>3, <2>3, <3>2, SizeIsNat DEF Fits
    <3> QED BY <1>6, <3>1, <3>2
  <2>5. Writer(p)'
    BY <2>1, <2>3, <2>4 DEF Writer, InSend, Held, Count, memVars
  <2> QED BY <1>1, <2>1, <2>2, <2>5, PrivateStep
<1>7. ASSUME NEW p \in Senders, CopyHead(p) \/ CopyBody(p)
      PROVE  Serial'
  <2>1. /\ InSend(p) /\ InSend(p)' /\ sendPc[p] \in {"head", "body"}
        /\ sendPc'[p] \in {"body", "publish"}
        /\ UNCHANGED <<msg_in_pos, msg_out_pos, in_pos, sent, recvVars, accepted, delivered>>
        /\ \A q \in Senders \ {p} : sendPc'[q] = sendPc[q]
        /\ \A i \in Position \ {in_pos[p]} : messages'[i] = messages[i]
    BY <1>1, <1>2, <1>7 DEF CopyHead, CopyBody, Goto, InSend, TypeOK, history
  <2>2. in_pos[p] = msg_in_pos /\ Held < N - 1
    BY <1>1, <2>1 DEF Serial, Writer
  <2>3. Held' = Held
    BY <2>1 DEF Held, Count
  <2>4. ASSUME NEW k \in 0 .. Held' - 1
        PROVE  messages'[Nth(msg_out_pos, k)'] = accepted'[(Len(delivered) + 1 + k)']
    <3>1. Nth(msg_out_pos, k)' = Nth(msg_out_pos, k)
      BY <2>1 DEF Nth
    <3>2. messages'[Nth(msg_out_pos, k)] = messages[Nth(msg_out_pos, k)]
      BY <1>3, <2>1, <2>2, <2>3
    <3> QED BY <1>1, <2>1, <2>3, <3>1, <3>2 DEF Serial, Window
  <2>5. Window'
    BY <1>1, <2>1, <2>3, <2>4 DEF Serial, Window
  <2>6. Reader'
    BY <1>1, <2>1, <2>3 DEF Serial, Reader, recvVars
  <2>7. OneWriter' /\ \A q \in Senders \ {p} : ~InSend(q)'
    BY <1>1, <2>1 DEF Serial, OneWriter, InSend
  <2>8. CASE CopyHead(p)
    <3>1. messages'[msg_in_pos'].head = Current(p)' /\ sendPc'[p] = "body"
      BY <1>1, <1>2, <2>1, <2>2, <2>8 DEF CopyHead, Goto, Current, TypeOK
    <3>2. Writer(p)'
      BY <2>1, <2>2, <2>3, <3>1 DEF Writer
    <3> QED BY <2>5, <2>6, <2>7, <3>2 DEF Serial, Writer, InSend
  <2>9. CASE CopyBody(p)
    <3>1. messages[msg_in_pos].head = Current(p)
      BY <1>1, <2>9 DEF Serial, Writer, CopyBody
    <3>2. messages'[msg_in_pos'] = Whole(Current(p))' /\ sendPc'[p] = "publish"
      BY <1>1, <1>2, <2>1, <2>2, <2>9, <3>1 DEF CopyBody, Goto, Current, Whole, TypeOK
    <3>3. Writer(p)'
      BY <2>1, <2>2, <2>3, <3>2 DEF Writer
    <3> QED BY <2>5, <2>6, <2>7, <3>3 DEF Serial, Writer, InSend
  <2> QED BY <1>7, <2>8, <2>9
<1>8. ASSUME NEW p \in Senders, Publish(p)
      PROVE  Serial'
  <2>1. /\ InSend(p) /\ sendPc[p] = "publish" /\ sendPc'[p] = "idle"
        /\ UNCHANGED <<messages, msg_out_pos, in_pos, sent, recvVars, delivered>>
        /\ accepted' = Append(accepted, Whole(Current(p)))
        /\ \A q \in Senders \ {p} : sendPc'[q] = sendPc[q]
    BY <1>1, <1>8 DEF Publish, Goto, InSend, TypeOK
  <2>2. /\ in_pos[p] = msg_in_pos /\ Held < N - 1
        /\ messages[msg_in_pos] = Whole(Current(p)) /\ Whole(Current(p)) \in Slot
    BY <1>1, <2>1, CurrentIsMessage DEF Serial, Writer
  <2>3. msg_in_pos' = NextPos(msg_in_pos)
    BY <1>8, <2>2 DEF Publish
  <2>4. Held' = Held + 1
    BY <1>2, <2>1, <2>2, <2>3, CountGrows DEF Held
  <2>5. /\ Len(accepted) \in Nat /\ Len(delivered) \in Nat
        /\ Len(accepted) = Len(delivered) + Held
        /\ Len(accepted') = Len(accepted) + 1
        /\ accepted'[Len(accepted) + 1] = Whole(Current(p))
        /\ \A k \in 1 .. Len(accepted) : accepted'[k] = accepted[k]
    BY <1>1, <1>2, <2>1, <2>2 DEF Serial, Window
  <2>6. ASSUME NEW k \in 0 .. Held' - 1
        PROVE  messages'[Nth(msg_out_pos, k)'] = accepted'[(Len(delivered) + 1 + k)']
    <3>1. Nth(msg_out_pos, k)' = Nth(msg_out_pos, k) /\ Len(delivered)' = Len(delivered)
      BY <2>1 DEF Nth
    <3>2. CASE k = Held
      BY <1>3, <2>1, <2>2, <2>5, <3>1, <3>2
    <3>3. CASE k # Held
      <4>1. k \in 0 .. Held - 1 /\ Len(delivered) + 1 + k \in 1 .. Len(accepted)
        BY <1>3, <2>4, <2>5, <3>3
      <4> QED BY <1>1, <2>1, <2>5, <3>1, <4>1 DEF Serial, Window
    <3> QED BY <3>2, <3>3
  <2>7. Window'
    <3>1. Len(accepted)' = Len(delivered)' + Held'
      BY <1>3, <2>1, <2>4, <2>5
    <3>2. \A k \in 1 .. Len(delivered)' : delivered'[k] = accepted'[k]
      BY <1>1, <1>3, <2>1, <2>5 DEF Serial, Window
    <3> QED BY <2>6, <3>1, <3>2 DEF Window
  <2>8. Reader'
    <3>1. Held > 0 => accepted'[Len(delivered) + 1] = accepted[Len(delivered) + 1]
      BY <1>3, <2>5
    <3>2. recvPc' = recvPc /\ msg' = msg /\ Len(delivered)' = Len(delivered)
      BY <2>1 DEF recvVars
    <3>3. recvPc # "poll" => Held > 0 /\ Held' > 0
      BY <1>1, <1>3, <2>4 DEF Serial, Reader
    <3> QED BY <1>1, <3>1, <3>2, <3>3 DEF Serial, Reader
  <2>9. \A q \in Senders : ~InSend(q)'
    BY <1>1, <2>1 DEF Serial, OneWriter, InSend
  <2> QED BY <2>7, <2>8, <2>9 DEF Serial, OneWriter, Writer, InSend
<1>9. CASE ResetIn \/ ResetOut
  BY <1>1, <1>9 DEF ResetIn, ResetOut, Serial, Reader
<1>10. CASE Poll \/ Recv \/ TakeHead \/ TakeBody
  <2>1. UNCHANGED <<memVars, sendVars, accepted, delivered>>
    BY <1>10 DEF Poll, Recv, TakeHead, TakeBody, history
  <2>2. Held' = Held /\ Len(delivered)' = Len(delivered)
    BY <2>1 DEF Held, Count, memVars
  <2>3. Held > 0 => messages[msg_out_pos] = accepted[Len(delivered) + 1]
    <3>1. Held > 0 => 0 \in 0 .. Held - 1
      BY <1>3
    <3>2. Len(delivered) + 1 + 0 = Len(delivered) + 1
      BY <1>2
    <3> QED BY <1>1, <1>3, <3>1, <3>2 DEF Serial, Window
  <2>4. Reader'
    <3>1. CASE Poll
      BY <1>3, <2>1, <2>2, <3>1 DEF Poll, Reader
    <3>2. CASE Recv
      BY <1>3, <2>1, <2>2, <3>2 DEF Recv, Reader
    <3>3. CASE TakeHead
      BY <1>1, <2>1, <2>2, <2>3, <3>3 DEF TakeHead, Serial, Reader
    <3>4. CASE TakeBody
      <4>1. Held > 0 /\ msg.head = accepted[Len(delivered) + 1].head
        BY <1>1, <3>4 DEF TakeBody, Serial, Reader
      <4>2. messages[msg_out_pos] \in Slot
        BY <1>2
      <4>3. msg' = messages[msg_out_pos]
        BY <2>3, <3>4, <4>1, <4>2 DEF TakeBody, Slot
      <4> QED BY <2>1, <2>2, <2>3, <3>4, <4>1, <4>3 DEF TakeBody, Reader
    <3> QED BY <1>10, <3>1, <3>2, <3>3, <3>4
  <2> QED BY <1>1, <2>1, <2>4, ReadingStep
<1>11. CASE RecvNothing
  BY <1>1, <1>3, <1>11 DEF RecvNothing, Serial, Reader
<1>12. CASE Release
  <2>1. /\ UNCHANGED <<messages, msg_in_pos, sendVars, accepted>>
        /\ recvPc = "release" /\ recvPc' = "poll"
        /\ msg_out_pos' = NextPos(msg_out_pos)
        /\ delivered' = Append(delivered, msg)
    BY <1>12 DEF Release
  <2>2. Held > 0 /\ msg = accepted[Len(delivered) + 1] /\ msg \in Slot
    BY <1>1, <2>1 DEF Serial, Reader, TypeOK
  <2>3. /\ Held' = Held - 1
        /\ \A k \in 0 .. Held - 2 : Nth(NextPos(msg_out_pos), k) = Nth(msg_out_pos, k + 1)
    BY <1>2, <2>1, <2>2, CountShrinks DEF Held
  <2>4. /\ Len(accepted) \in Nat /\ Len(delivered) \in Nat
        /\ Len(accepted) = Len(delivered) + Held
        /\ Len(delivered') = Len(delivered) + 1
        /\ delivered'[Len(delivered) + 1] = msg
        /\ \A k \in 1 .. Len(delivered) : delivered'[k] = delivered[k]
    BY <1>1, <1>2, <2>1, <2>2 DEF Serial, Window
  <2>5. ASSUME NEW k \in 0 .. Held' - 1
        PROVE  messages'[Nth(msg_out_pos, k)'] = accepted'[(Len(delivered) + 1 + k)']
    <3>1. k \in 0 .. Held - 2 /\ k + 1 \in 0 .. Held - 1
      BY <1>3, <2>3
    <3>2. Nth(msg_out_pos, k)' = Nth(msg_out_pos, k + 1)
      BY <2>1, <2>3, <3>1 DEF Nth
    <3>3. messages[Nth(msg_out_pos, k + 1)] = accepted[Len(delivered) + 1 + (k + 1)]
      BY <1>1, <3>1 DEF Serial, Window
    <3>4. (Len(delivered) + 1 + k)' = Len(delivered) + 1 + (k + 1)
      BY <2>4, <3>1
    <3> QED BY <2>1, <3>2, <3>3, <3>4
  <2>6. Window'
    <3>1. Len(accepted)' = Len(delivered)' + Held'
      BY <1>3, <2>1, <2>3, <2>4
    <3>2. \A k \in 1 .. Len(delivered)' : delivered'[k] = accepted'[k]
      BY <1>1, <2>1, <2>2, <2>4 DEF Serial, Window
    <3> QED BY <2>5, <3>1, <3>2 DEF Window
  <2>7. Reader'
    BY <2>1 DEF Reader
  <2>8. OneWriter'
    BY <1>1, <2>1 DEF Serial, OneWriter, InSend, sendVars
  <2>9. ASSUME NEW p \in Senders PROVE Writer(p)'
    <3>1. Held < N - 1 => Held' < N - 1
      BY <1>3, <2>3, SizeIsNat
    <3>2. Writer(p)
      BY <1>1 DEF Serial
    <3>3. /\ sendPc' = sendPc /\ in_pos' = in_pos /\ msg_in_pos' = msg_in_pos
          /\ messages' = messages /\ Current(p)' = Current(p)
      BY <2>1 DEF sendVars, Current
    <3> QED BY <3>1, <3>2, <3>3 DEF Writer, InSend
  <2> QED BY <2>6, <2>7, <2>8, <2>9 DEF Serial
<1>13. CASE UNCHANGED vars
  <2>1. Reader'
    BY <1>1, <1>13 DEF vars, memVars, recvVars, history, Serial, Reader, Held, Count
  <2> QED BY <1>1, <1>13, <2>1, ReadingStep DEF vars, history
<1> QED
  BY <1>4, <1>5, <1>6, <1>7, <1>8, <1>9, <1>10, <1>11, <1>12, <1>13 DEF Next, Receive, Continue

(* The box its owner emptied holds nothing.                                *)
LEMMA SerialInit == Init => Serial
<1> SUFFICES ASSUME Init PROVE Serial
  OBVIOUS
<1>1. Held = 0
  BY DEF Init, InitWith, Held, Count
<1>2. \A p \in Senders : sendPc[p] = "idle"
  BY DEF Init, InitWith
<1>3. Window
  BY <1>1 DEF Init, InitWith, Window
<1>4. Reader
  BY DEF Init, InitWith, Reader
<1> QED BY <1>2, <1>3, <1>4 DEF Serial, OneWriter, Writer, InSend

(* The inductive invariant: types and, while no two sends overlapped, the  *)
(* window of held slots with the accepted messages not yet delivered.      *)
THEOREM Invariance == Spec => []IInv
<1>1. Init => IInv
  BY TypeInit, SerialInit DEF IInv
<1>2. IInv /\ [Next]_vars => IInv'
  BY TypeStep, SerialStep DEF IInv
<1> QED BY <1>1, <1>2, PTL DEF Spec
-----------------------------------------------------------------------------
(* As long as no two sends overlap, the receiver gets what the senders     *)
(* sent, whole, in order, once.                                            *)
THEOREM SerialDelivery == Spec => []SerialSendsDeliver
<1>1. IInv => SerialSendsDeliver
  BY CountRange DEF IInv, TypeOK, Serial, Window, Held, SerialSendsDeliver, DeliveredAsSent
<1> QED BY <1>1, Invariance, PTL

(* As long as no two sends overlap, the memcpy of a send and the memcpy of *)
(* a receive are never in the same slot.                                   *)
THEOREM CopiesApart == Spec => []CopiesNeverMeet
<1>1. IInv => CopiesNeverMeet
  BY CountRange DEF IInv, TypeOK, Serial, Reader, Writer, InSend, Held, CopiesNeverMeet
<1> QED BY <1>1, Invariance, PTL
-----------------------------------------------------------------------------
(* Refinement: a step that keeps sends apart is a step of the mailbox.     *)
LEMMA MailboxStep ==
  ASSUME IInv, [Next]_vars, ~overlapped'
  PROVE  [MB!Next]_(MB!vars)
<1>1. /\ TypeOK /\ Serial /\ Len(accepted) \in Nat /\ Len(delivered) \in Nat
      /\ msg_in_pos \in Position /\ msg_out_pos \in Position
  BY StaysSerial DEF IInv, TypeOK
<1>2. /\ Held \in 0 .. N - 1 /\ MB!Pending = Held /\ Capacity = N - 1
      /\ IsFull(msg_in_pos, msg_out_pos) <=> Held = N - 1
      /\ IsEmpty <=> Held = 0
  BY <1>1, CountRange DEF Held, MB!Pending, Capacity, N, Serial, Window, IsEmpty
<1>3. ASSUME NEW p \in Senders, Publish(p)
      PROVE  MB!Next
  <2>1. Current(p) \in Message /\ Held < N - 1
    BY <1>1, <1>3, CurrentIsMessage DEF Publish, Serial, Writer
  <2>2. MB!Accept(Whole(Current(p)))
    BY <1>2, <1>3, <2>1 DEF Publish, MB!Accept
  <2> QED BY <2>1, <2>2 DEF MB!Next
<1>4. ASSUME NEW p \in Senders, Refuse(p)
      PROVE  MB!Next
  <2>1. Current(p) \in Message /\ in_pos[p] = msg_in_pos
    BY <1>1, <1>4, CurrentIsMessage DEF Refuse, Serial, Writer, InSend
  <2>2. MB!Refuse(Whole(Current(p)))
    BY <1>2, <1>4, <2>1 DEF Refuse, MB!Refuse
  <2> QED BY <2>1, <2>2 DEF MB!Next
<1>5. CASE Release
  <2>1. Held > 0 /\ msg = accepted[Len(delivered) + 1]
    BY <1>1, <1>5 DEF Release, Serial, Reader
  <2>2. MB!Deliver
    BY <1>2, <1>5, <2>1 DEF Release, MB!Deliver
  <2> QED BY <2>2 DEF MB!Next
<1>6. ~RecvNothing
  BY <1>1, <1>2 DEF RecvNothing, Serial, Reader
<1>7. ASSUME NEW p \in Senders,
             SendNow(p) \/ SendWhenNotFull(p) \/ PollIn(p) \/ PollOut(p) \/ LoadIn(p)
             \/ Fits(p) \/ CopyHead(p) \/ CopyBody(p)
      PROVE  UNCHANGED MB!vars
  BY <1>7 DEF SendNow, SendWhenNotFull, Begin, PollIn, PollOut, LoadIn, Fits, CopyHead,
     CopyBody, history, MB!vars
<1>8. CASE ResetIn \/ ResetOut \/ Poll \/ Recv \/ TakeHead \/ TakeBody \/ UNCHANGED vars
  BY <1>8 DEF ResetIn, ResetOut, Poll, Recv, TakeHead, TakeBody, vars, history, MB!vars
<1> QED
  BY <1>3, <1>4, <1>5, <1>6, <1>7, <1>8 DEF Next, Receive, Continue

(* An emptied box is an empty mailbox.                                     *)
LEMMA MailboxInit == Init => MB!Init
BY DEF Init, InitWith, MB!Init

(* A box whose sends never overlap implements the abstract mailbox.        *)
THEOREM SerialRefinesMailbox == Spec /\ []~overlapped => MB!SafeSpec
<1>1. IInv /\ ~overlapped' /\ [Next]_vars => [MB!Next]_(MB!vars)
  BY MailboxStep
<1> QED BY <1>1, MailboxInit, Invariance, PTL DEF Spec, MB!SafeSpec
-----------------------------------------------------------------------------
(* One sender, as in every client's box: the server alone writes to it.    *)
LEMMA AloneNeverOverlaps ==
  ASSUME NEW s, Senders = {s}
  PROVE  Spec => []~overlapped
<1>1. Init => ~overlapped
  BY DEF Init, InitWith
<1>2. IInv /\ ~overlapped /\ [Next]_vars => ~overlapped'
  <2> SUFFICES ASSUME IInv, ~overlapped, [Next]_vars PROVE ~overlapped'
    OBVIOUS
  <2>1. ASSUME NEW p \in Senders, LoadIn(p) PROVE ~overlapped'
    BY <2>1 DEF LoadIn
  <2>2. ASSUME NEW p \in Senders,
               SendNow(p) \/ SendWhenNotFull(p) \/ PollIn(p) \/ PollOut(p) \/ Refuse(p)
               \/ Fits(p) \/ CopyHead(p) \/ CopyBody(p) \/ Publish(p)
        PROVE  ~overlapped'
    BY <2>2 DEF SendNow, SendWhenNotFull, Begin, PollIn, PollOut, Refuse, Fits, CopyHead,
       CopyBody, Publish, history
  <2>3. CASE Receive
    <3>1. ~ResetIn
      BY DEF ResetIn, IInv, Serial, Reader
    <3> QED
      BY <2>3, <3>1 DEF Receive, ResetOut, Poll, RecvNothing, Recv, TakeHead, TakeBody,
         Release, history
  <2>4. CASE UNCHANGED vars
    BY <2>4 DEF vars, history
  <2> QED BY <2>1, <2>2, <2>3, <2>4 DEF Next, Continue
<1> QED BY <1>1, <1>2, Invariance, PTL DEF Spec

(* A client's box implements the abstract mailbox: what the server puts in *)
(* it comes out whole, once, in order, and a send fails only on a full box.*)
THEOREM OneSenderRefinesMailbox ==
  ASSUME NEW s, Senders = {s}
  PROVE  Spec => MB!SafeSpec
BY AloneNeverOverlaps, SerialRefinesMailbox, PTL

(* What a lone sender has seen of the box when it has waited for room.     *)
RoomSeen(s) ==
    /\ sendPc[s] = "pollOut" => in_pos[s] = msg_in_pos
    /\ s \in waited /\ sendPc[s] \in {"load", "compare"} => Held < N - 1

(* What the lone sender has seen stays true: only it takes room away.      *)
LEMMA RoomSeenStep ==
  ASSUME NEW s, Senders = {s}, IInv, ~overlapped', ~overlapped, [Next]_vars, RoomSeen(s)
  PROVE  RoomSeen(s)'
<1>1. /\ TypeOK /\ Serial /\ Writer(s) /\ s \in Senders
      /\ msg_in_pos \in Position /\ msg_out_pos \in Position
  BY DEF IInv, TypeOK, Serial
<1>2. /\ Held \in 0 .. N - 1
      /\ IsFull(msg_in_pos, msg_out_pos) <=> Held = N - 1
  BY <1>1, CountRange DEF Held
<1>3. ASSUME SendNow(s) \/ SendWhenNotFull(s)
      PROVE  RoomSeen(s)'
  BY <1>1, <1>3 DEF SendNow, SendWhenNotFull, Begin, Goto, TypeOK, RoomSeen
<1>4. CASE PollIn(s)
  BY <1>1, <1>4 DEF PollIn, Goto, memVars, TypeOK, RoomSeen
<1>5. CASE PollOut(s)
  <2>1. Held' = Held /\ UNCHANGED <<in_pos, waited>> /\ sendPc'[s] \in {"pollIn", "load"}
    BY <1>1, <1>5 DEF PollOut, Goto, Held, Count, memVars, TypeOK
  <2>2. sendPc'[s] = "load" => Held < N - 1
    <3>1. in_pos[s] = msg_in_pos
      BY <1>5 DEF PollOut, RoomSeen
    <3>2. sendPc'[s] = "load" => ~IsFull(in_pos[s], msg_out_pos)
      BY <1>1, <1>5 DEF PollOut, Goto, TypeOK
    <3> QED BY <1>2, <3>1, <3>2, SizeIsNat
  <2> QED BY <2>1, <2>2 DEF RoomSeen
<1>6. CASE LoadIn(s)
  <2>1. Held' = Held /\ waited' = waited /\ sendPc[s] = "load" /\ sendPc'[s] = "compare"
    BY <1>1, <1>6 DEF LoadIn, Goto, Held, Count, memVars, TypeOK
  <2> QED BY <2>1 DEF RoomSeen
<1>7. ASSUME Refuse(s) \/ Fits(s) \/ CopyHead(s) \/ CopyBody(s) \/ Publish(s)
      PROVE  RoomSeen(s)'
  <2>1. sendPc'[s] \in {"idle", "head", "body", "publish"}
    BY <1>1, <1>7 DEF Refuse, Fits, CopyHead, CopyBody, Publish, Goto, TypeOK
  <2> QED BY <2>1 DEF RoomSeen
<1>8. CASE Receive
  <2>1. UNCHANGED sendVars /\ msg_in_pos' = msg_in_pos
    BY <1>1, <1>8 DEF Receive, ResetIn, ResetOut, Poll, RecvNothing, Recv, TakeHead,
       TakeBody, Release, memVars, Serial, Reader
  <2>2. Held < N - 1 => Held' < N - 1
    <3>1. CASE Release
      <4>1. Held > 0
        BY <1>1, <3>1 DEF Release, Serial, Reader
      <4>2. Held' = Held - 1
        BY <1>1, <3>1, <4>1, CountShrinks DEF Release, Held
      <4> QED BY <1>2, <4>2, SizeIsNat
    <3>2. CASE ~Release
      <4>1. msg_out_pos' = msg_out_pos
        BY <1>1, <1>8, <3>2 DEF Receive, ResetIn, ResetOut, Poll, RecvNothing, Recv,
           TakeHead, TakeBody, memVars, Serial, Reader
      <4> QED BY <2>1, <4>1 DEF Held, Count
    <3> QED BY <3>1, <3>2
  <2> QED BY <2>1, <2>2 DEF RoomSeen, sendVars
<1>9. CASE UNCHANGED vars
  BY <1>9 DEF vars, memVars, sendVars, RoomSeen, Held, Count
<1> QED
  BY <1>3, <1>4, <1>5, <1>6, <1>7, <1>8, <1>9 DEF Next, Continue

(* The wait before a send is enough when nobody else sends to the box.     *)
THEOREM WaitIsEnough ==
  ASSUME NEW s, Senders = {s}
  PROVE  Spec => []WaitedNeverRefused
<1>1. Init => RoomSeen(s)
  BY DEF Init, InitWith, RoomSeen
<1>2. IInv /\ ~overlapped /\ ~overlapped' /\ [Next]_vars /\ RoomSeen(s) => RoomSeen(s)'
  BY RoomSeenStep
<1>3. IInv /\ ~overlapped /\ RoomSeen(s) => WaitedNeverRefused
  <2> SUFFICES ASSUME IInv, ~overlapped, RoomSeen(s), sendPc[s] = "compare", s \in waited
               PROVE  ~IsFull(in_pos[s], msg_out_pos)
    BY DEF WaitedNeverRefused
  <2>1. in_pos[s] = msg_in_pos /\ Held < N - 1
    BY DEF IInv, Serial, Writer, InSend, RoomSeen
  <2> QED BY <2>1, CountRange, SizeIsNat DEF IInv, TypeOK, Held
<1> QED BY <1>1, <1>2, <1>3, Invariance, AloneNeverOverlaps, PTL DEF Spec
-----------------------------------------------------------------------------
(* The box of a client that joins: the server may write to it before the   *)
(* client has reset the two positions.  From the reset of msg_in_pos on    *)
(* the slots up to it hold the last messages the box took, counted from    *)
(* slot 0 even while msg_out_pos is still the one of an earlier session.   *)
Out  == IF recvPc = "resetOut" THEN 0 ELSE msg_out_pos
Left == Count(msg_in_pos, Out)

\* b messages were accepted before the reset, and are lost.
JoinWindow(b) ==
    /\ Len(accepted) = b + Len(delivered) + Left
    /\ \A k \in 1 .. Len(delivered) : delivered[k] = accepted[b + k]
    /\ \A k \in 0 .. Left - 1 :
          messages[Nth(Out, k)] = accepted[b + Len(delivered) + 1 + k]

JoinReader(b) ==
    /\ recvPc \notin {"resetOut", "poll"} => Left > 0
    /\ recvPc = "body" => msg.head = accepted[b + Len(delivered) + 1].head
    /\ recvPc = "release" => msg = accepted[b + Len(delivered) + 1]

JoinWriter(s) ==
    /\ InSend(s) => in_pos[s] = msg_in_pos
    /\ sendPc[s] \in {"head", "body", "publish"} => Left < N - 1
    /\ sendPc[s] = "body" => messages[msg_in_pos].head = Current(s)
    /\ sendPc[s] = "publish" => messages[msg_in_pos] = Whole(Current(s))

\* Between the two resets msg_in_pos has not come round to 0 again, because
\* the old msg_out_pos stops it, wherever that is.
NotWrapped(s) ==
    recvPc = "resetOut" =>
        /\ msg_out_pos = 0 \/ msg_in_pos < msg_out_pos
        /\ sendPc[s] \in {"head", "body", "publish"} => ~IsFull(msg_in_pos, msg_out_pos)

JoinSerial(s) ==
    IF recvPc = "resetIn" THEN delivered = <<>>
    ELSE /\ \E b \in Nat : JoinWindow(b) /\ JoinReader(b)
         /\ JoinWriter(s) /\ NotWrapped(s)

\* The numbers of the accepted messages go up, to the one being sent.
Climbing(s) ==
    /\ \A k \in 1 .. Len(accepted) :
          /\ accepted[k].head[2] \in Nat /\ accepted[k].head[2] <= sent[s]
          /\ sendPc[s] # "idle" => accepted[k].head[2] < sent[s]
    /\ \A j, k \in 1 .. Len(accepted) : j < k => accepted[j].head[2] < accepted[k].head[2]

JoinInv(s) == TypeOK /\ Climbing(s) /\ (~overlapped => JoinSerial(s))

(* A box as an earlier session left it is well typed, and nothing of this  *)
(* session has gone through it.                                            *)
LEMMA JoinStarts ==
  ASSUME NEW s, Senders = {s}, JoinInit
  PROVE  JoinInv(s)
<1>1. PICK word \in {Zero, Stale}, in \in Position, out \in Position :
        InitWith(word, in, out, "resetIn")
  <2>1. 0 \in Position
    BY SizeIsNat DEF Position, N
  <2> QED
    BY <2>1 DEF JoinInit
<1>2. Whole(word) \in Slot /\ Whole(Zero) \in Slot /\ <<>> \in Seq(Slot)
  BY DEF Whole, Slot, Word
<1>3. 0 \in Position /\ 0 \in 0 .. MaxSends
  BY SizeIsNat, BoxAssumption DEF Position, N
<1>4. TypeOK
  BY <1>1, <1>2, <1>3 DEF InitWith, TypeOK
<1>5. Len(accepted) = 0 /\ recvPc = "resetIn" /\ delivered = <<>>
  BY <1>1 DEF InitWith
<1> QED
  BY <1>4, <1>5 DEF JoinInv, Climbing, JoinSerial

(* Only a publish adds to what was accepted, and the sender is idle then.  *)
LEMMA ClimbingStep ==
  ASSUME NEW s, Senders = {s}, TypeOK, Climbing(s), [Next]_vars
  PROVE  Climbing(s)'
<1>0. s \in Senders /\ sent[s] \in Nat /\ accepted \in Seq(Slot)
  BY BoxAssumption DEF TypeOK
<1>1. CASE SendNow(s) \/ SendWhenNotFull(s)
  <2>1. sendPc[s] = "idle" /\ sent'[s] = sent[s] + 1 /\ accepted' = accepted
    BY <1>0, <1>1 DEF SendNow, SendWhenNotFull, Begin, history, TypeOK
  <2> QED
    BY <1>0, <2>1 DEF Climbing
<1>2. CASE PollIn(s) \/ PollOut(s) \/ LoadIn(s) \/ Refuse(s) \/ Fits(s) \/ CopyHead(s) \/ CopyBody(s)
  <2>1. sendPc[s] # "idle" /\ UNCHANGED <<sent, accepted>>
    BY <1>2 DEF PollIn, PollOut, LoadIn, Refuse, Fits, CopyHead, CopyBody, history
  <2> QED
    BY <1>0, <2>1 DEF Climbing
<1>3. CASE Publish(s)
  <2>1. /\ sendPc[s] = "publish" /\ sendPc'[s] = "idle" /\ sent' = sent
        /\ accepted' = Append(accepted, Whole(Current(s)))
    BY <1>0, <1>3 DEF Publish, Goto, TypeOK
  <2>2. Whole(Current(s)).head[2] = sent[s]
    BY DEF Whole, Current
  <2>3. /\ Len(accepted') = Len(accepted) + 1
        /\ accepted'[Len(accepted) + 1] = Whole(Current(s))
        /\ \A k \in 1 .. Len(accepted) : accepted'[k] = accepted[k]
    BY <1>0, <2>1
  <2>4. \A k \in 1 .. Len(accepted') : k \in 1 .. Len(accepted) \/ k = Len(accepted) + 1
    BY <1>0, <2>3
  <2>5. \A k \in 1 .. Len(accepted) :
          accepted'[k].head[2] \in Nat /\ accepted'[k].head[2] < sent[s]
    BY <2>1, <2>3 DEF Climbing
  <2>6. accepted'[Len(accepted) + 1].head[2] = sent[s]
    BY <2>2, <2>3
  <2>7. \A k \in 1 .. Len(accepted') :
          accepted'[k].head[2] \in Nat /\ accepted'[k].head[2] <= sent[s]
    BY <1>0, <2>4, <2>5, <2>6
  <2>8. ASSUME NEW j \in 1 .. Len(accepted'), NEW k \in 1 .. Len(accepted'), j < k
        PROVE  accepted'[j].head[2] < accepted'[k].head[2]
    <3>1. j \in 1 .. Len(accepted)
      BY <1>0, <2>3, <2>8
    <3>2. CASE k \in 1 .. Len(accepted)
      BY <2>3, <2>8, <3>1, <3>2 DEF Climbing
    <3>3. CASE k = Len(accepted) + 1
      BY <2>5, <2>6, <3>1, <3>3
    <3> QED
      BY <2>4, <3>2, <3>3
  <2> QED
    BY <2>1, <2>7, <2>8 DEF Climbing
<1>4. CASE Receive \/ UNCHANGED vars
  <2>1. UNCHANGED <<sendPc, sent, accepted>>
    BY <1>4 DEF Receive, ResetIn, ResetOut, Poll, RecvNothing, Recv, TakeHead, TakeBody, Release,
       vars, sendVars, history
  <2> QED
    BY <2>1 DEF Climbing
<1> QED
  BY <1>1, <1>2, <1>3, <1>4 DEF Next, Continue

(* Before the reset of msg_in_pos nothing is delivered; the reset, with no *)
(* send under way, leaves nothing in the box.                              *)
LEMMA ResetStep ==
  ASSUME NEW s, Senders = {s}, TypeOK, JoinSerial(s), recvPc = "resetIn",
         [Next]_vars, ~overlapped'
  PROVE  JoinSerial(s)'
<1>0. delivered = <<>> /\ s \in Senders /\ Len(accepted) \in Nat
  BY DEF JoinSerial, TypeOK
<1>1. CASE ResetIn
  <2>1. /\ msg_in_pos' = 0 /\ recvPc' = "resetOut" /\ ~InSend(s) /\ msg_out_pos' \in Position
        /\ UNCHANGED <<sendVars, accepted, delivered>>
    BY <1>0, <1>1 DEF ResetIn, TypeOK
  <2>2. Left' = 0 /\ ~InSend(s)'
    BY <2>1 DEF Left, Out, Count, InSend, sendVars
  <2>3. JoinWindow(Len(accepted))'
    BY <1>0, <2>1, <2>2 DEF JoinWindow
  <2>4. JoinReader(Len(accepted))'
    BY <2>1 DEF JoinReader
  <2>5. JoinWriter(s)' /\ NotWrapped(s)'
    BY <2>1, <2>2, SizeIsNat DEF JoinWriter, NotWrapped, InSend, Position, N
  <2>6. \E b \in Nat : JoinWindow(b)' /\ JoinReader(b)'
    BY <1>0, <2>1, <2>3, <2>4 DEF JoinWindow, JoinReader
  <2> QED
    BY <2>1, <2>5, <2>6 DEF JoinSerial
<1>2. CASE UNCHANGED <<recvPc, delivered>>
  BY <1>0, <1>2 DEF JoinSerial
<1>3. CASE Receive
  BY <1>1, <1>3 DEF Receive, ResetOut, Poll, RecvNothing, Recv, TakeHead, TakeBody, Release
<1>4. ASSUME NEW p \in Senders, SendNow(p) \/ SendWhenNotFull(p) \/ Continue(p)
      PROVE  UNCHANGED <<recvPc, delivered>>
  BY <1>4 DEF SendNow, SendWhenNotFull, Begin, Continue, PollIn, PollOut, LoadIn, Refuse, Fits,
     CopyHead, CopyBody, Publish, recvVars, history
<1>5. CASE UNCHANGED vars
  BY <1>2, <1>5 DEF vars, recvVars, history
<1> QED
  BY <1>2, <1>3, <1>4, <1>5 DEF Next

(* After it, a step of the sender that leaves the shared memory and the    *)
(* accepted messages alone disturbs only what the sender knows.            *)
LEMMA JoinPrivate ==
  ASSUME NEW s, JoinSerial(s), recvPc # "resetIn",
         UNCHANGED <<memVars, recvVars, accepted, delivered>>,
         JoinWriter(s)', NotWrapped(s)'
  PROVE  JoinSerial(s)'
<1>1. PICK b \in Nat : JoinWindow(b) /\ JoinReader(b)
  BY DEF JoinSerial
<1>2. JoinWindow(b)' /\ JoinReader(b)'
  BY <1>1 DEF JoinWindow, JoinReader, Left, Out, Count, Nth, memVars, recvVars
<1>3. \E c \in Nat : JoinWindow(c)' /\ JoinReader(c)'
  BY <1>2
<1> QED
  BY <1>3 DEF JoinSerial, recvVars

\* What the two positions say from the reset on
JoinPositions ==
    /\ Left \in 0 .. N - 1 /\ Out \in Position
    /\ \A k \in 0 .. Left - 1 : Nth(Out, k) \in Position \ {msg_in_pos}
    /\ Nth(Out, Left) = msg_in_pos /\ Nth(Out, 0) = Out
    /\ recvPc # "resetOut" =>
          (IsFull(msg_in_pos, msg_out_pos) <=> Left = N - 1) /\ (IsEmpty <=> Left = 0)

(* They say so for any types.                                              *)
LEMMA PositionsSay ==
  ASSUME TypeOK
  PROVE  JoinPositions
<1>1. msg_in_pos \in Position /\ Out \in Position
  BY SizeIsNat DEF TypeOK, Out, Position, N
<1>2. /\ Left \in 0 .. N - 1
      /\ \A k \in 0 .. Left - 1 : Nth(Out, k) \in Position \ {msg_in_pos}
      /\ Nth(Out, Left) = msg_in_pos /\ Nth(Out, 0) = Out
  BY <1>1, CountRange, NthRange DEF Left
<1>3. recvPc # "resetOut" =>
          (IsFull(msg_in_pos, msg_out_pos) <=> Left = N - 1) /\ (IsEmpty <=> Left = 0)
  BY <1>1, CountRange DEF Left, Out, IsEmpty
<1> QED
  BY <1>1, <1>2, <1>3 DEF JoinPositions

(* A sender that finds room has it, whichever msg_out_pos it looked at.    *)
LEMMA JoinFits ==
  ASSUME NEW s, TypeOK, recvPc # "resetIn", NotWrapped(s),
         ~IsFull(msg_in_pos, msg_out_pos)
  PROVE  Left < N - 1
<1>1. /\ msg_in_pos \in 0 .. N - 1 /\ msg_out_pos \in 0 .. N - 1
      /\ NextPos(msg_in_pos) = IF msg_in_pos = N - 1 THEN 0 ELSE msg_in_pos + 1
  BY NextPosCases DEF TypeOK, Position, N
<1>2. CASE recvPc = "resetOut"
  <2>1. Left = msg_in_pos
    BY <1>1, <1>2, SizeIsNat DEF Left, Out, Count
  <2>2. msg_in_pos # N - 1
    BY <1>1, <1>2, SizeIsNat DEF NotWrapped, IsFull
  <2> QED
    BY <1>1, <2>1, <2>2, SizeIsNat
<1>3. CASE recvPc # "resetOut"
  BY <1>3, PositionsSay, SizeIsNat DEF JoinPositions
<1> QED
  BY <1>2, <1>3

(* A step of the sender before it writes                                   *)
LEMMA JoinSendStep ==
  ASSUME NEW s, Senders = {s}, TypeOK, TypeOK', JoinSerial(s), recvPc # "resetIn",
         \/ SendNow(s) \/ SendWhenNotFull(s) \/ PollIn(s) \/ PollOut(s)
         \/ LoadIn(s) \/ Refuse(s) \/ Fits(s)
  PROVE  JoinSerial(s)'
<1>0. s \in Senders /\ JoinWriter(s) /\ NotWrapped(s)
  BY DEF JoinSerial
<1>1. UNCHANGED <<memVars, recvVars, accepted, delivered>>
  BY DEF SendNow, SendWhenNotFull, Begin, PollIn, PollOut, LoadIn, Refuse, Fits, history
<1>2. Left' = Left
  BY <1>1 DEF Left, Out, Count, memVars, recvVars
<1>3. CASE Fits(s)
  <2>1. /\ sendPc'[s] = "head" /\ UNCHANGED in_pos /\ sendPc[s] = "compare"
        /\ ~IsFull(in_pos[s], msg_out_pos)
    BY <1>0, <1>3 DEF Fits, Goto, TypeOK
  <2>2. in_pos[s] = msg_in_pos /\ Left < N - 1
    BY <1>0, <2>1, JoinFits DEF JoinWriter, InSend
  <2>3. JoinWriter(s)' /\ NotWrapped(s)'
    BY <1>0, <1>1, <1>2, <2>1, <2>2 DEF JoinWriter, NotWrapped, memVars, recvVars
  <2> QED
    BY <1>1, <2>3, JoinPrivate
<1>4. CASE ~Fits(s)
  <2>1. /\ sendPc'[s] \in {"load", "pollIn", "pollOut", "compare", "idle"}
        /\ sendPc'[s] = "compare" => in_pos'[s] = msg_in_pos
    BY <1>0, <1>4 DEF SendNow, SendWhenNotFull, Begin, PollIn, PollOut, LoadIn, Refuse, Goto, TypeOK
  <2>2. JoinWriter(s)' /\ NotWrapped(s)'
    BY <1>0, <1>1, <2>1 DEF JoinWriter, NotWrapped, InSend, memVars, recvVars
  <2> QED
    BY <1>1, <2>2, JoinPrivate
<1> QED
  BY <1>3, <1>4

(* The two steps of the memcpy write a slot that nothing is held in.       *)
LEMMA JoinCopyStep ==
  ASSUME NEW s, Senders = {s}, TypeOK, TypeOK', JoinSerial(s), recvPc # "resetIn",
         CopyHead(s) \/ CopyBody(s)
  PROVE  JoinSerial(s)'
<1>0. s \in Senders /\ JoinWriter(s) /\ NotWrapped(s) /\ JoinPositions
  BY PositionsSay DEF JoinSerial
<1>1. /\ sendPc[s] \in {"head", "body"} /\ sendPc'[s] \in {"body", "publish"}
      /\ UNCHANGED <<msg_in_pos, msg_out_pos, in_pos, sent, recvVars, accepted, delivered>>
      /\ in_pos[s] = msg_in_pos /\ Left < N - 1
      /\ \A i \in Position \ {msg_in_pos} : messages'[i] = messages[i]
  BY <1>0 DEF CopyHead, CopyBody, Goto, InSend, TypeOK, JoinWriter, history
<1>2. Left' = Left /\ Out' = Out /\ recvPc' = recvPc
  BY <1>1 DEF Left, Out, Count, recvVars
<1>3. PICK b \in Nat : JoinWindow(b) /\ JoinReader(b)
  BY DEF JoinSerial
<1>4. ASSUME NEW k \in 0 .. Left' - 1
      PROVE  messages'[Nth(Out, k)'] = accepted'[(b + Len(delivered) + 1 + k)']
  <2>1. Nth(Out, k)' = Nth(Out, k)
    BY <1>2 DEF Nth
  <2>2. messages'[Nth(Out, k)] = messages[Nth(Out, k)]
    BY <1>0, <1>1, <1>2 DEF JoinPositions
  <2> QED
    BY <1>1, <1>2, <1>3, <2>1, <2>2 DEF JoinWindow
<1>5. JoinWindow(b)' /\ JoinReader(b)'
  BY <1>1, <1>2, <1>3, <1>4 DEF JoinWindow, JoinReader, recvVars
<1>6. \E c \in Nat : JoinWindow(c)' /\ JoinReader(c)'
  BY <1>5
<1>7. NotWrapped(s)'
  BY <1>0, <1>1, <1>2 DEF NotWrapped
<1>8. JoinWriter(s)'
  <2>1. CASE CopyHead(s)
    <3>1. messages'[msg_in_pos'].head = Current(s)' /\ sendPc'[s] = "body"
      BY <1>0, <1>1, <2>1 DEF CopyHead, Goto, Current, TypeOK
    <3> QED
      BY <1>1, <1>2, <3>1 DEF JoinWriter
  <2>2. CASE CopyBody(s)
    <3>1. messages[msg_in_pos].head = Current(s)
      BY <1>0, <2>2 DEF JoinWriter, CopyBody
    <3>2. messages'[msg_in_pos'] = Whole(Current(s))' /\ sendPc'[s] = "publish"
      BY <1>0, <1>1, <2>2, <3>1 DEF CopyBody, Goto, Current, Whole, TypeOK
    <3> QED
      BY <1>1, <1>2, <3>2 DEF JoinWriter
  <2> QED
    BY <2>1, <2>2
<1> QED
  BY <1>2, <1>6, <1>7, <1>8 DEF JoinSerial

(* A publish takes the slot in, and msg_in_pos does not come round to 0    *)
(* before the reset of msg_out_pos.                                        *)
LEMMA JoinPublishStep ==
  ASSUME NEW s, Senders = {s}, TypeOK, TypeOK', JoinSerial(s), recvPc # "resetIn", Publish(s)
  PROVE  JoinSerial(s)'
<1>0. /\ s \in Senders /\ JoinWriter(s) /\ NotWrapped(s) /\ JoinPositions
      /\ msg_in_pos \in Position /\ msg_out_pos \in Position
  BY PositionsSay DEF JoinSerial, TypeOK
<1>1. /\ sendPc[s] = "publish" /\ sendPc'[s] = "idle"
      /\ UNCHANGED <<messages, msg_out_pos, recvVars, delivered>>
      /\ accepted' = Append(accepted, Whole(Current(s)))
  BY <1>0 DEF Publish, Goto, TypeOK
<1>2. /\ in_pos[s] = msg_in_pos /\ Left < N - 1
      /\ messages[msg_in_pos] = Whole(Current(s)) /\ Whole(Current(s)) \in Slot
  BY <1>0, <1>1, CurrentIsMessage DEF JoinWriter, InSend
<1>3. msg_in_pos' = NextPos(msg_in_pos)
  BY <1>2 DEF Publish
<1>4. Left' = Left + 1 /\ Out' = Out /\ recvPc' = recvPc /\ msg' = msg
  BY <1>0, <1>1, <1>2, <1>3, CountGrows DEF Left, Out, recvVars, JoinPositions
<1>5. PICK b \in Nat : JoinWindow(b) /\ JoinReader(b)
  BY DEF JoinSerial
<1>6. /\ Len(accepted) \in Nat /\ Len(delivered) \in Nat /\ Left \in Nat
      /\ Len(accepted) = b + Len(delivered) + Left
      /\ Len(accepted') = Len(accepted) + 1
      /\ accepted'[Len(accepted) + 1] = Whole(Current(s))
      /\ \A k \in 1 .. Len(accepted) : accepted'[k] = accepted[k]
  <2>1. accepted \in Seq(Slot) /\ delivered \in Seq(Slot)
    BY DEF TypeOK
  <2>2. Left \in Nat /\ Len(accepted) = b + Len(delivered) + Left
    BY <1>0, <1>5 DEF JoinWindow, JoinPositions
  <2> QED
    BY <1>1, <1>2, <2>1, <2>2
<1>7. ASSUME NEW k \in 0 .. Left' - 1
      PROVE  messages'[Nth(Out, k)'] = accepted'[(b + Len(delivered) + 1 + k)']
  <2>1. Nth(Out, k)' = Nth(Out, k) /\ Len(delivered)' = Len(delivered)
    BY <1>1, <1>4 DEF Nth
  <2>2. CASE k = Left
    <3>1. Nth(Out, k) = msg_in_pos /\ b + Len(delivered) + 1 + k = Len(accepted) + 1
      BY <1>0, <1>6, <2>2 DEF JoinPositions
    <3> QED
      BY <1>1, <1>2, <1>6, <2>1, <3>1
  <2>3. CASE k # Left
    <3>1. k \in 0 .. Left - 1 /\ b + Len(delivered) + 1 + k \in 1 .. Len(accepted)
      BY <1>4, <1>6, <2>3
    <3>2. messages[Nth(Out, k)] = accepted[b + Len(delivered) + 1 + k]
      BY <1>5, <3>1 DEF JoinWindow
    <3> QED
      BY <1>1, <1>6, <2>1, <3>1, <3>2
  <2> QED
    BY <2>2, <2>3
<1>8. JoinWindow(b)'
  <2>1. Len(accepted)' = b + Len(delivered)' + Left'
    BY <1>1, <1>4, <1>6
  <2>2. ASSUME NEW k \in 1 .. Len(delivered)'
        PROVE  delivered'[k] = accepted'[b + k]
    <3>1. k \in 1 .. Len(delivered) /\ b + k \in 1 .. Len(accepted)
      BY <1>1, <1>6
    <3> QED
      BY <1>1, <1>5, <1>6, <3>1 DEF JoinWindow
  <2> QED
    BY <1>7, <2>1, <2>2 DEF JoinWindow
<1>9. JoinReader(b)'
  <2>1. Left > 0 => b + Len(delivered) + 1 \in 1 .. Len(accepted)
    BY <1>6
  <2>2. Left > 0 => accepted'[b + Len(delivered) + 1] = accepted[b + Len(delivered) + 1]
    BY <1>6, <2>1
  <2>3. Len(delivered)' = Len(delivered)
    BY <1>1
  <2>4. recvPc \notin {"resetOut", "poll"} => Left > 0 /\ Left' > 0
    BY <1>4, <1>5, <1>6 DEF JoinReader
  <2> QED
    BY <1>4, <1>5, <2>2, <2>3, <2>4 DEF JoinReader
<1>10. NotWrapped(s)'
  <2>1. NextPos(msg_in_pos) = IF msg_in_pos = N - 1 THEN 0 ELSE msg_in_pos + 1
    BY <1>0, NextPosCases
  <2>2. CASE recvPc = "resetOut" /\ msg_out_pos # 0
    <3>1. msg_in_pos < msg_out_pos /\ NextPos(msg_in_pos) # msg_out_pos
      BY <1>0, <1>1, <2>2 DEF NotWrapped, IsFull
    <3>2. msg_in_pos + 1 < msg_out_pos /\ msg_in_pos' = msg_in_pos + 1
      BY <1>0, <1>3, <2>1, <3>1, SizeIsNat DEF Position, N
    <3> QED
      BY <1>1, <3>2 DEF NotWrapped
  <2>3. CASE recvPc # "resetOut" \/ msg_out_pos = 0
    BY <1>1, <1>4, <2>3 DEF NotWrapped
  <2> QED
    BY <2>2, <2>3
<1>11. JoinWriter(s)'
  BY <1>1 DEF JoinWriter, InSend
<1>12. \E c \in Nat : JoinWindow(c)' /\ JoinReader(c)'
  BY <1>8, <1>9
<1> QED
  BY <1>4, <1>10, <1>11, <1>12 DEF JoinSerial

(* The receiver's steps after its reset of msg_in_pos                      *)
LEMMA JoinReceiveStep ==
  ASSUME NEW s, Senders = {s}, TypeOK, TypeOK', JoinSerial(s), recvPc # "resetIn", Receive
  PROVE  JoinSerial(s)'
<1>0. /\ s \in Senders /\ JoinWriter(s) /\ NotWrapped(s) /\ JoinPositions
      /\ msg_in_pos \in Position /\ msg_out_pos \in Position
  BY PositionsSay DEF JoinSerial, TypeOK
<1>1. PICK b \in Nat : JoinWindow(b) /\ JoinReader(b)
  BY DEF JoinSerial
<1>2. /\ Len(accepted) \in Nat /\ Len(delivered) \in Nat /\ Left \in Nat
      /\ delivered \in Seq(Slot) /\ msg \in Slot /\ messages \in [Position -> Slot]
      /\ Len(accepted) = b + Len(delivered) + Left
  BY <1>0, <1>1 DEF TypeOK, JoinWindow, JoinPositions
<1>3. CASE ResetOut
  <2>1. /\ recvPc = "resetOut" /\ recvPc' = "poll" /\ msg_out_pos' = 0
        /\ UNCHANGED <<messages, msg_in_pos, sendVars, accepted, delivered>>
    BY <1>3 DEF ResetOut, history
  <2>2. Out' = Out /\ Left' = Left
    BY <2>1 DEF Out, Left, Count
  <2>3. JoinWindow(b)' /\ JoinReader(b)'
    BY <1>1, <2>1, <2>2 DEF JoinWindow, JoinReader, Nth
  <2>4. JoinWriter(s)' /\ NotWrapped(s)'
    BY <1>0, <2>1, <2>2 DEF JoinWriter, NotWrapped, InSend, Current, sendVars
  <2>5. \E c \in Nat : JoinWindow(c)' /\ JoinReader(c)'
    BY <2>3
  <2> QED
    BY <2>1, <2>4, <2>5 DEF JoinSerial
<1>4. CASE Poll \/ Recv \/ TakeHead \/ TakeBody
  <2>1. /\ UNCHANGED <<memVars, sendVars, accepted, delivered>>
        /\ recvPc # "resetOut" /\ recvPc' \notin {"resetIn", "resetOut", "poll"}
    BY <1>4 DEF Poll, Recv, TakeHead, TakeBody, history
  <2>2. Left' = Left /\ Out' = Out /\ Out = msg_out_pos /\ (IsEmpty <=> Left = 0)
    BY <1>0, <2>1 DEF Left, Out, Count, memVars, JoinPositions
  <2>3. JoinWindow(b)'
    BY <1>1, <2>1, <2>2 DEF JoinWindow, Nth, memVars
  <2>4. Left > 0
    BY <1>1, <1>2, <1>4, <2>2 DEF Poll, Recv, TakeHead, TakeBody, JoinReader
  <2>5. messages[msg_out_pos] = accepted[b + Len(delivered) + 1]
    <3>1. 0 \in 0 .. Left - 1 /\ b + Len(delivered) + 1 + 0 = b + Len(delivered) + 1
      BY <1>2, <2>4
    <3> QED
      BY <1>0, <1>1, <2>2, <3>1 DEF JoinWindow, JoinPositions
  <2>6. JoinReader(b)'
    <3>1. CASE Poll \/ Recv
      BY <2>2, <2>4, <3>1 DEF Poll, Recv, JoinReader
    <3>2. CASE TakeHead
      BY <2>1, <2>2, <2>4, <2>5, <3>2 DEF TakeHead, JoinReader
    <3>3. CASE TakeBody
      <4>1. msg.head = accepted[b + Len(delivered) + 1].head
        BY <1>1, <3>3 DEF TakeBody, JoinReader
      <4>2. messages[msg_out_pos] \in Slot
        BY <1>0, <1>2
      <4>3. msg' = messages[msg_out_pos]
        BY <2>5, <3>3, <4>1, <4>2 DEF TakeBody, Slot
      <4> QED
        BY <2>1, <2>2, <2>4, <2>5, <3>3, <4>3 DEF TakeBody, JoinReader
    <3> QED
      BY <1>4, <3>1, <3>2, <3>3
  <2>7. JoinWriter(s)' /\ NotWrapped(s)'
    BY <1>0, <2>1, <2>2 DEF JoinWriter, NotWrapped, InSend, Current, sendVars, memVars
  <2>8. \E c \in Nat : JoinWindow(c)' /\ JoinReader(c)'
    BY <2>3, <2>6
  <2> QED
    BY <2>1, <2>7, <2>8 DEF JoinSerial
<1>5. ~RecvNothing
  BY <1>0, <1>1 DEF RecvNothing, JoinReader, JoinPositions
<1>6. CASE Release
  <2>1. /\ UNCHANGED <<messages, msg_in_pos, sendVars, accepted>>
        /\ recvPc = "release" /\ recvPc' = "poll"
        /\ msg_out_pos' = NextPos(msg_out_pos)
        /\ delivered' = Append(delivered, msg)
    BY <1>6 DEF Release
  <2>2. Left > 0 /\ msg = accepted[b + Len(delivered) + 1]
    BY <1>1, <2>1 DEF JoinReader
  <2>3. /\ Out = msg_out_pos /\ Out' = NextPos(msg_out_pos) /\ Left' = Left - 1
        /\ \A k \in 0 .. Left - 2 : Nth(NextPos(msg_out_pos), k) = Nth(msg_out_pos, k + 1)
    BY <1>0, <2>1, <2>2, CountShrinks DEF Left, Out
  <2>4. /\ Len(delivered') = Len(delivered) + 1
        /\ delivered'[Len(delivered) + 1] = msg
        /\ \A k \in 1 .. Len(delivered) : delivered'[k] = delivered[k]
    BY <1>2, <2>1
  <2>5. ASSUME NEW k \in 0 .. Left' - 1
        PROVE  messages'[Nth(Out, k)'] = accepted'[(b + Len(delivered) + 1 + k)']
    <3>1. k \in 0 .. Left - 2 /\ k + 1 \in 0 .. Left - 1
      BY <1>2, <2>3
    <3>2. Nth(Out, k)' = Nth(Out, k + 1)
      BY <2>3, <3>1 DEF Nth
    <3>3. messages[Nth(Out, k + 1)] = accepted[b + Len(delivered) + 1 + (k + 1)]
      BY <1>1, <3>1 DEF JoinWindow
    <3>4. (b + Len(delivered) + 1 + k)' = b + Len(delivered) + 1 + (k + 1)
      BY <1>2, <2>4, <3>1
    <3> QED
      BY <2>1, <3>2, <3>3, <3>4
  <2>6. JoinWindow(b)'
    <3>1. Len(accepted)' = b + Len(delivered)' + Left'
      BY <1>2, <2>1, <2>3, <2>4
    <3>2. ASSUME NEW k \in 1 .. Len(delivered)'
          PROVE  delivered'[k] = accepted'[b + k]
      <4>1. CASE k = Len(delivered) + 1
        <5>1. b + k = b + Len(delivered) + 1
          BY <1>2, <4>1
        <5> QED
          BY <2>1, <2>2, <2>4, <4>1, <5>1
      <4>2. CASE k # Len(delivered) + 1
        <5>1. k \in 1 .. Len(delivered)
          BY <1>2, <2>4, <4>2
        <5> QED
          BY <1>1, <2>1, <2>4, <5>1 DEF JoinWindow
      <4> QED
        BY <4>1, <4>2
    <3> QED
      BY <2>5, <3>1, <3>2 DEF JoinWindow
  <2>7. JoinReader(b)' /\ NotWrapped(s)'
    BY <2>1 DEF JoinReader, NotWrapped
  <2>8. JoinWriter(s)'
    <3>1. Left < N - 1 => Left' < N - 1
      BY <1>2, <2>3, SizeIsNat
    <3> QED
      BY <1>0, <2>1, <3>1 DEF JoinWriter, InSend, Current, sendVars
  <2>9. \E c \in Nat : JoinWindow(c)' /\ JoinReader(c)'
    BY <2>6, <2>7
  <2> QED
    BY <2>1, <2>7, <2>8, <2>9 DEF JoinSerial
<1> QED
  BY <1>3, <1>4, <1>5, <1>6 DEF Receive, ResetIn

(* Every step keeps the invariant of a client's box.                       *)
LEMMA JoinStep ==
  ASSUME NEW s, Senders = {s}, JoinInv(s), [Next]_vars
  PROVE  JoinInv(s)'
<1>1. TypeOK /\ TypeOK' /\ Climbing(s)'
  BY TypeStep, ClimbingStep DEF JoinInv
<1>2. ASSUME ~overlapped' PROVE JoinSerial(s)'
  <2>1. JoinSerial(s)
    BY <1>1, <1>2, StaysSerial DEF JoinInv
  <2>2. CASE recvPc = "resetIn"
    BY <1>1, <1>2, <2>1, <2>2, ResetStep
  <2>3. CASE recvPc # "resetIn"
    <3>1. CASE UNCHANGED vars
      <4>1. JoinWriter(s)' /\ NotWrapped(s)'
        BY <2>1, <2>3, <3>1 DEF JoinSerial, JoinWriter, NotWrapped, InSend, Current, Left, Out, Count,
           vars, memVars, sendVars, recvVars
      <4> QED
        BY <2>1, <2>3, <3>1, <4>1, JoinPrivate DEF vars, history
    <3>2. CASE Receive
      BY <1>1, <2>1, <2>3, <3>2, JoinReceiveStep
    <3>3. CASE SendNow(s) \/ SendWhenNotFull(s) \/ Continue(s)
      BY <1>1, <2>1, <2>3, <3>3, JoinSendStep, JoinCopyStep, JoinPublishStep DEF Continue
    <3> QED
      BY <3>1, <3>2, <3>3 DEF Next
  <2> QED
    BY <2>2, <2>3
<1> QED
  BY <1>1, <1>2 DEF JoinInv

(* The invariant of a client's box, from before the client's two resets.   *)
THEOREM JoinInvHolds ==
  ASSUME NEW s, Senders = {s}
  PROVE  JoinSpec => []JoinInv(s)
<1>1. JoinInit => JoinInv(s)
  BY JoinStarts
<1>2. JoinInv(s) /\ [Next]_vars => JoinInv(s)'
  BY JoinStep
<1> QED
  BY <1>1, <1>2, PTL DEF JoinSpec

(* A client that joins gets only messages of this session, whole, in order *)
(* and none twice, whatever an earlier session left in its box and however *)
(* much the server wrote before the two resets, as long as no send was     *)
(* under way when msg_in_pos was reset.                                    *)
THEOREM JoinDelivery ==
  ASSUME NEW s, Senders = {s}
  PROVE  JoinSpec => []JoinDeliversInOrder
<1>1. JoinInv(s) => JoinDeliversInOrder
  <2> SUFFICES ASSUME JoinInv(s), ~overlapped
               PROVE  /\ \A k \in 1 .. Len(delivered) :
                            \E j \in 1 .. Len(accepted) : delivered[k] = accepted[j]
                      /\ \A j, k \in 1 .. Len(delivered) :
                            j < k => delivered[j].head[2] < delivered[k].head[2]
    BY DEF JoinDeliversInOrder
  <2>1. JoinSerial(s) /\ Climbing(s) /\ JoinPositions
    BY PositionsSay DEF JoinInv
  <2>2. CASE recvPc = "resetIn"
    <3>1. Len(delivered) = 0
      BY <2>1, <2>2 DEF JoinSerial
    <3> QED
      BY <3>1
  <2>3. CASE recvPc # "resetIn"
    <3>1. PICK b \in Nat : JoinWindow(b)
      BY <2>1, <2>3 DEF JoinSerial
    <3>2. /\ Len(delivered) \in Nat /\ Left \in Nat
          /\ Len(accepted) = b + Len(delivered) + Left
      BY <2>1, <3>1 DEF JoinInv, TypeOK, JoinWindow, JoinPositions
    <3>3. \A k \in 1 .. Len(delivered) : b + k \in 1 .. Len(accepted) /\ delivered[k] = accepted[b + k]
      BY <3>1, <3>2 DEF JoinWindow
    <3>4. ASSUME NEW j \in 1 .. Len(delivered), NEW k \in 1 .. Len(delivered), j < k
          PROVE  delivered[j].head[2] < delivered[k].head[2]
      <4>1. b + j < b + k
        BY <3>4
      <4> QED
        BY <2>1, <3>3, <4>1 DEF Climbing
    <3> QED
      BY <3>3, <3>4
  <2> QED
    BY <2>2, <2>3
<1> QED
  BY <1>1, JoinInvHolds, PTL
=============================================================================
