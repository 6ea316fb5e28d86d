# IPC box: models, checks and proofs

The repository collects small C programs, each showing one way for two Unix
processes to talk, and one real application built from them: `shm_chat`, a chat
room for many users whose server and clients share nothing but ring buffers in
POSIX shared memory. This project models the chat room, the terminal line its
users type into, and those of the small programs that get as far as talking;
checks the models with TLC; and proves with TLAPS, for every value of the
constants, that the ring buffer, the room, the line and the demos' protocols keep
what they promise.

Paths below are relative to the repository (`src/shm_chat/server.c` and so on).

## The system

| part | state | operations | talks to |
|---|---|---|---|
| message box (`message_box.c`) | `messages[128]`, `msg_in_pos`, `msg_out_pos`, in shared memory, no lock | send (refuses when full), receive, two polling checks, reset by the owner | processes that map it |
| names of boxes (`messagebox_open`, `messagebox_unlink`) | name `__msgbox_<id>`, the object behind it | open (makes the object if there is none), unlink | kernel |
| server (`server.c`) | `room[101]` (user name, box), the message at hand, its own box, open descriptors | JOIN, BROADCAST, QUIT, LIST, WHISPER, Ctrl + C | takes from its own box, sends to the clients' |
| client (`client.c`) | `runflag`, the server's box, its own box, the name it signs with | join, reset own box, `/quit`, `/whisper`, `/list`, a plain line, show what arrives, Ctrl + C | sends to the server's box, takes from its own; two threads |
| line buffer (`utils.c`) | `buf`, `pos`, `line_ready`; the terminal | a key, an echo, a print that redraws the line | both threads of the client |
| `shm`, `mmap` demos | a segment or file and its name; a guard byte in front of the payload | attach, wait for the guard, copy in, copy out, hand the guard over, detach and remove | one server, one client that are started on their own |
| `eventfd` demo | one counter that both processes read and write | take a token, put the other side's or one's own back | parent and forked child |
| `pipe` demo | a pipe, one pending signal of each kind | write, notify, await the answer | parent and forked child |
| `socket` (TCP), `socket_local` (UNIX) demos | two byte streams, the announcement by a signal | listen, announce, connect, accept, send, receive, close | one server, one client |
| `signals.c`, `sockets.c` | dispositions, mask and pending signals of a process; loops around send and recv | ignore, block, wait, raise | the demos |
| semaphore, shm_condition, fifo, mq demos | kernel objects | end or wait for ever before the first message, see "Not modelled" | |
| arguments, terminal mode, error exits | none of their own | | |

A user's line goes: line buffer, server's box, the server's loop, every
member's box, the members' terminals. Nothing on the way is locked and nothing
is acknowledged.

What is hard in it:

- **Interleaving.** Any number of clients run `messagebox_send` on the server's
  box at once. The server sends to a client's box while the client resets its
  positions. The client's two threads share a line and a terminal.
- **Checks that age.** Room seen by a waiting loop; a receiver's session found
  by name; a copy of the line taken before a key; an object opened by a name
  that is unlinked later.
- **Limits.** Boxes of 127 messages where a full box drops (broadcast, whisper,
  JOIN) or blocks (LIST, everything a client types); descriptors that are never
  closed; the last byte of the line.
- **Failure.** A client is killed or interrupted and its box fills up; the
  server stops, is killed or faults and is started again beside the old names.
- **Waiting.** LIST waits for the box of a client that may be gone. In the demos
  each side waits for the other; a signal that comes too early or twice is lost;
  the eventfd counter hands a process its own token.
- **Parts.** A demo's process is killed and started again on the memory the last
  run left; a stream gives a part of a message.

What makes each part correct:

- *box*: what is received is what was sent, whole, in order, once; a refusal
  only when full; a sender that waited is not refused; a waiting sender gets in.
- *room*: members never disagree on the order of announcements; a user's lines
  are announced in order and once; an entry in the room leads to the box its
  user reads; LIST is complete; a whisper goes to one user and is signed by the
  one who sent it; every request is dealt with; QUIT gets a user out; Ctrl + C
  stops the server.
- *line*: what is sent is what was typed; what is shown is what was typed.
- *demos*: the two sides take turns; they are never in the payload at once; no
  token, signal or message is lost or doubled; both get to the end.

## The modules

```
Mailbox   <- implemented by - MessageBox <- MessageBoxProofs
   :
   :  a box is a queue in
ChatMemory <- ChatServer --+
           <- ChatClient --+- ChatRoom <- MCChatRoom
                                 | ^
                                 | +- ChatTypeProofs <- ChatRoomProofs <- WhisperProofs
Sequencer <- implemented by -----+

Demo <- GuardByte ---------------+
     <- EventFd -----------------+
     <- Signals <- SignalPipe ---+- Demos <- KernelProofs <- GuardProofs <- DemosProofs
                <- Sockets ------+    |
                                      |
Turns     <- implemented by ----------+

LineBuf <- LineProofs
```

(`A <- B`: B extends A.)

**Mailbox** is what `message_box.h` promises: a bounded first-in first-out
buffer that accepts, refuses when full, and delivers.

**MessageBox** is `message_box.c` with every access to the shared memory a step
of its own. A send is `LoadIn`, `Refuse` or `Fits`, `CopyHead`, `CopyBody`,
`Publish`; the memcpy is two steps so that a half-written message can be seen.
The compiler may keep `msg_in_pos` over the memcpy or read it again (an
optimised build does read it again), so `Publish` may do either. A caller that
first polls (`SendWhenNotFull`) is told from one that does not (`SendNow`).
Within one expression the two positions are read in one step or in the order
the expression has them; stores become visible in program order, as on x86.
A message is a pair of sender and number; `Zero` and `Stale` are what a slot of
a new object, or of one an earlier session used, holds. `Init` is a box its
owner has emptied; `JoinInit` is a client's box between its JOIN and the reset,
new or in whatever position an earlier session left it.

**ChatMemory, ChatServer, ChatClient, ChatRoom** are the application. Each box
is now a queue of at most `Capacity` messages, which is what MessageBox proves
of a client's box (its one sender is the server). For the server's box this
takes the sends not to overlap, which the code does not guarantee: what then
happens is the matter of MessageBox, and the room is examined without it. A
client's "wait for room, then send" is one step for the same reason. The server
takes a message in `Recv`, which also opens the sender's box, and handles it in
the action of its type; a loop over the room takes one step per message sent,
so that clients read, type, die or join in between. The variables of
ChatServer have the names of the C variables; `spc` is the place in the loop.
Names are unlinked while objects stay mapped, so `shm` maps ids to objects and
the processes keep the object they mapped. `receiver_box` is not initialised in
the code: after a search without a match it is NULL or what the previous whisper
left. (Some compilers refuse the file for that reason under `-Wall -Werror`.)

**Sequencer** is what the room promises its readers: one log, and every reader
sees a part of it in its order, each announcement at most once.

**LineBuf** is the line being typed. The sending thread's stores to `buf`, its
echo, and the strlen, the copy and the write of a print are steps; `pos` and
`line_ready` belong to one thread and change along with the store next to them.
Enter stands for end of file and end of transmission too, which the code treats
alike once something is typed. The prompt is one character. A notice that the
sending thread prints between two lines is left out: the prompt that follows
clears it.

**Demo** is the frame the small programs share: a server and a client, `msg_count`
rounds each, a message of `Size` bytes. `heard` counts the messages each side
received until something `disturbed` the run. **Turns** is what all of them are
for: two sides hear in strict alternation.

**GuardByte** is `shm.c` with `shm_server.c`, `shm_client.c`, and the two mmap
programs. Memory outlives its name; a process finds the named one or makes a new
one. Every byte of a memset or memcpy is a step. The guard is byte 0; in mmap it
is part of the payload, so the copy touches it too. Any process may be killed
anywhere and started again on what is left. Both programs are taken to be given
the same message size. The guard is an atomic byte, so a process that sees it
handed over sees the payload written before it.

**EventFd** is the counter: a read takes the whole of it. A process that finds
its own token there puts it back and tries again, which nothing but the
scheduler ends.

**Signals** is what `signals.c` sets up: a disposition, a blocked mask, one
pending flag per kind of signal, and `sigwait`. Signals do not queue: a second
one while the first is pending is gone. **SignalPipe** is `pipe.c`. The client
never reads (it calls fwrite on its end), so `filled` only grows.

**Sockets** is both pairs of programs. A send puts any part of what is left into
the stream, a receive takes what is there up to a message. Where the code takes
a part for a whole (the TCP server), the model does so and sets `disturbed`.
A peer that is gone makes a receive fail and a send die, or with TCP vanish.

**Demos** puts them side by side: one is chosen at the start, and the others'
variables stay still. A single run and a single refinement then cover all six.

`PROJECT.json` gives the lines each definition stands for. A definition marked
"Mutation" is a plausible slip in the definition after it; substituting it must
make a property fail, which shows that the property depends on that code.

## The runs

Every run explores all states of a small instance. Deadlock is not checked:
users may stop typing and the bounds on their lines end every behaviour, as
does a program that was left.

| run | what it asks | bounds |
|---|---|---|
| `box_serial` | With two racing senders: types; messages whole, in order and once, and no copy in the slot being read, as long as sends did not overlap | ring of 3, 2 sends each: the ring fills, wraps and refuses |
| `box_mailbox` | With one sender: refinement of Mailbox including its liveness; a wait is enough; a waiting sender gets in | ring of 3, 6 sends: two turns of the ring |
| `box_join` | Reset of a client's box against the server's sends, from every pair of positions an earlier session can leave | ring of 4, 5 sends: the ring can fill |
| `room_order` | Refinement of Sequencer; order of one user's lines; entries lead to the right box; every request is dealt with and QUIT takes effect, while the other user lists and one may be killed | 2 users, 1 and 2 lines, boxes of 1: a LIST waits, broadcasts and a JOIN are dropped |
| `room_reuse` | Types, refinement of Sequencer and the right boxes for an id with two users, who send anything to any name, are killed or interrupted, while the server is interrupted or killed at any point and started again | 1 line each, boxes of 2, 2 starts, 4 descriptors: the server faults in some behaviours |
| `room_whisper` | LIST complete; whispers private and signed by their sender; no NULL box, for users who whisper to names they were shown and nobody quits | 3 users, 4 lines (two whispers in a row), boxes of 2: the list has to wait |
| `line_undisturbed` | Line sent as typed and cut to the caller's buffer; last byte stays NUL; the terminal shows the line unless the last print met a step of the other thread | buffer of 4, 6 keys, 2 messages: a full line, a second line over the rest of the first |
| `demos` | All six demos: refinement of Turns; hands apart, whole messages, one token, no lost signal, no refused client; each ends when its code can | messages of 2 bytes, up to 2 rounds on each side, 2 starts of each process, a pipe of 1 message, sockets of 3 bytes: a full pipe, a message cut in two, memory left by a killed run |
| `box_two_senders` | **fails**: the unconditional form of delivery | as `box_serial` |
| `room_stuck` | **fails**: Ctrl + C stops the server | one user lists and quits |
| `line_spoilt` | **fails**: a message never disturbs the line shown | as `line_undisturbed` |
| `pipe_stuck` | **fails**: the pipe test finishes once both sides are ready | as `demos` |

Why small is enough: the ring's arithmetic distinguishes empty, full, wrapped
and neither, all of which 3 slots have, and its theorems hold for every size.
The room's code treats members alike, in the order of ids: two readers are what
it takes to disagree on an order, three members what it takes for a whisper to
reach a bystander. `MAX_CLIENT` is 100 and boxes hold 127 messages in the code,
so there a LIST need not wait on an empty box, but it waits on one that is
partly full, which the small boxes stand for. In the demos one round of two
bytes already has a first byte, a last byte and a cut between them, and the
second round meets what the first left behind; a second start meets what a
killed run left. `room_reuse` is the largest run, 2.5 million states. Lines typed, starts of the server
and prints are bounded; no property speaks of their number. `OPEN_MAX = 1000`
means that descriptors do not run out.

**Fairness.** Processes and threads are scheduled: weak fairness of the server's
own steps, of each client's sending and receiving thread, and, in MessageBox, of
the receiver and of each send in progress. All waiting is polling, so a step
that stays enabled is taken. In `Demos` each process has weak fairness. The one
strong fairness is that of an eventfd process for its own token: the two
processes compete for a counter, and the side that does not want the event can
read it and put it back between any two tries of the other; the code relies on
the kernel not favouring that side for ever. Nobody is obliged to
start a program, type a line or press Ctrl + C. A killed process takes no step.

### What the failing runs show

- `box_two_senders`: two clients load the same `msg_in_pos`; both write that
  slot, or one publishes a slot that the other is still writing. A message is
  lost, mixed, or delivered before it is written. The header promises a ring
  buffer (`message_box.h:49-55`); the lock is all that is missing, which is what
  `SerialSendsDeliver` says and SerialDelivery proves.
- `room_stuck`: `server.c:162` waits for room in the client's box and does not
  look at `runflag`. A client that asks for the list and quits leaves the server
  there for good.
- `line_spoilt`: `utils.c:167` copies the line, the user's next key is stored and
  echoed, `utils.c:169` clears the terminal's line and writes the copy. The
  character is sent but not shown. The README lists the opposite as a feature.
- `pipe_stuck`: the client "reads" with fwrite (`pipe.c:116`), nothing leaves the
  pipe, and once it is full the server waits in fflush and the client for a
  signal. With the default arguments that is after 16 of 1000 messages.

Other behaviour met while modelling, which conditions of the passing properties
leave out and which has no run of its own: with two clients a sender that waited
may be refused and its message dropped (`client.c:190`); a reset of a used box
under a send can bring back old slots, deliver a half-written one or empty the
box (`client.c:265`); a JOIN on a full server box is dropped (`client.c:211`), as
is a whisper whose receiver's box is full; a whisper to somebody who left goes to
a NULL box (`server.c:177`) and one to an unknown name may go to the receiver of
the previous one (`server.c:175`); after a whisper a user's broadcasts carry the
other user's name (`client.c:147`); Ctrl + C in a client leaves its user in the
room (`client.c:26`); a client that takes an id before the previous user's QUIT
is handled reads a box the server no longer writes (`server.c:131`); a client of
a server that ended waits for room for ever (`client.c:190`). The models have all
of this; where no property speaks of it, nothing in the documentation promises
otherwise (`hazards` in `PROJECT.json`).

In the demos the passing properties leave out what their conditions name: a
shm or mmap process that was left alone waits for ever; a pipe server that is
told before it blocked its signals, or that has more messages than the pipe
holds, does not end; a TCP server takes a part of a message for a message; the
UNIX announcement reaches a client only in the same process group.

## The proofs

Every theorem is about the specification TLC checks, for all values of the
constants that satisfy the named assumptions.

**The ring buffer** (`MessageBoxProofs`, from `BoxAssumption`: at least two
slots, a natural bound on sends, two marks that are not messages; any set of
senders)

| theorem | states |
|---|---|
| `TypeCorrect` | `TypeOK` always holds, races included: the positions never leave the ring |
| `Invariance` | the inductive invariant `IInv` always holds |
| `SerialDelivery` | `SerialSendsDeliver` |
| `CopiesApart` | `CopiesNeverMeet` |
| `SerialRefinesMailbox` | behaviours whose sends never overlap are behaviours of Mailbox (its safety part) |
| `OneSenderRefinesMailbox` | so is every behaviour of a box with one sender |
| `WaitIsEnough` | with one sender, `WaitedNeverRefused` |
| `JoinInvHolds` | the invariant `JoinInv` of a box that its owner resets while the one sender uses it |
| `JoinDelivery` | `JoinDeliversInOrder`: what a client that joins gets, whatever an earlier session left in its box |

`SerialSendsDeliver` is not inductive: nothing in it connects the slots with the
history. `IInv` adds, under "no two sends overlapped": the held slots, counted
from `msg_out_pos` (`Count`, `Nth`), are the accepted messages not yet delivered,
in order (`Window`); a receiver past its check has a slot to read and has read it
right (`Reader`); at most one sender is between its load and its publish, with the
current position, room ahead, and its words written (`OneWriter`, `Writer`).
`CountRange`, `CountGrows`, `CountShrinks` and `NthRange` carry the modular
arithmetic, so that the steps need none; once sends have overlapped only types
are kept. The refinement maps each `Publish` to Accept, `Refuse` to Refuse,
`Release` to Deliver and every other step to a stutter.

`JoinInv` is that window for a box that starts between its owner's JOIN and the
reset, at any two positions. The reset of `msg_in_pos` loses what was accepted
before it, some number `b` of messages; from then on the slots up to `msg_in_pos`,
counted from slot 0 although `msg_out_pos` still is the old one (`Out`), hold the
accepted messages after the first `b + Len(delivered)` (`JoinWindow`). The second
reset would break this if `msg_in_pos` had come round to 0 in between: the old
`msg_out_pos`, wherever it is, makes the box full before that (`NotWrapped`).
`Climbing` (numbers of accepted messages go up) then turns positions into order.
A send that is under way at the first reset counts as an overlap: it may publish
an old position, and the theorem, like the property, says nothing of what follows.

**The chat room** (`ChatTypeProofs`, `ChatRoomProofs`, `WhisperProofs`, from
`MemoryAssumption`, `ServerAssumption`, `ClientAssumption`: any number of processes,
any commands, capacities, descriptors, kills and restarts, and, for the first four,
ids shared or not)

| theorem | states |
|---|---|
| `RoomTypeOK` | `TypeOK` |
| `RoomSenderOrder` | `SenderOrder`: one user's lines are announced in order, once |
| `RoomImplementsSequencer` | `ImplementsSequencer`: what clients see never disagrees with the one log |
| `RoomMembersReachable` | `MembersReachable`: an entry leads to the box its user reads |
| `RoomWhisperSigned` | `WhisperSigned`, if no two users share an id |
| `RoomListComplete` | `ListComplete`, if no two users share an id |
| `RoomWhisperPrivate` | `WhisperPrivate` in the server's first session, if no two users share an id, they whisper only to names they were shown, and nobody quits |
| `RoomNeverFaults` | `NeverFaults` in the first session as long as there are descriptors, if moreover every user has a name |

The invariants come in layers, each proved from those below it:

1. `RoomTypes`: the types, and that what is mapped exists.
2. `Objects`: an object of the shared memory is the box of one id only, though
   names are removed and made again; so the server's box is no client's, and two
   entries of the room never share a box. `Asked`: what waits in the server's box and what it
   handles was sent by a client. Together with the types this is `Known`.
3. `InOrder`, for `SenderOrder`: a line is typed, sent, queued, taken and logged,
   and at each of these places it is later than its user's lines further on.
4. `Shows`, for the sequencer: every box but the server's holds a part of the log
   in its order (`Inbox`), all of it after what its readers have seen; while
   `client_boardcast` goes round, every member it has not reached yet has neither
   in its box nor on its screen the announcement under way (`Casting`, `Behind`).
   This needs that members have different boxes, which is `Objects`; a client
   that opens its box has seen nothing (`Started` and the types).
5. `Reach`, for `MembersReachable`: an id nobody uses has left no trace in room
   or queue; of an id one process uses, no JOIN comes after a QUIT in the queue,
   and until the QUIT is handled the name stays with the object that the room,
   the server and the client have.

6. `Names` and `Signs`, for `WhisperSigned`: a request has the id of the process
   it came from and, if a JOIN, its name; so an entry of the room is empty or has
   the name of a process of its id, and the entry the server signs with is that
   of the one who whispered. The name in the request itself, which the client
   overwrites with the receiver's, plays no part.
7. `Unasked` and `Complete`, for `ListComplete`: a client that has not opened its
   box yet has not asked, so nothing of an answer is lost in a box without a
   reader; and what the loop has sent is in the box or on the screen until the
   answer ends, since requests of others wait and the room does not change.
8. `Private`, for `WhisperPrivate`: what a client was shown are names of users
   whose entries are in the room (`Tells`, `Entered`), and so are the receivers
   of its whispers, under way or being handled. Then the search finds an entry,
   the old `receiver_box` is not used, and the box found is read by nobody but
   that user (`Aimed`; `TieIsOld`: only the process of that id ever opens it).
   `FirstSession` adds that nothing is heard before the first start (`Silent`).
9. `Usable` and `Lasting`, for `NeverFaults`: as long as descriptors last, the
   box of whoever sent the request, the boxes in the room and the receiver's are
   there.

The hypotheses are what these need and no more than the code has to say. Who
uses another's id takes over its entry, so that a whisper is signed with the
wrong name and an answer goes to a box two clients read; nothing in the code
keeps ids apart. After a QUIT the name stays in the entry and the box does not: the
search then finds NULL (`server.c:177`). A JOIN that was dropped leaves a user
without an entry, whose QUIT the server would announce under no name. A restart
empties the room while clients still have names from before. The room of
`room_whisper` meets all the hypotheses.

A step of the room is `Announce` of the sequencer when the server handles a JOIN,
QUIT or BROADCAST, `See(p)` when client p takes an announcement, and a stutter
otherwise: answers to LIST and whispers are not part of the log.

**The line** (`LineProofs`, from the assumptions of `LineBuf`: any size of either
buffer, any number of keys and messages)

| theorem | states |
|---|---|
| `LineInvHolds` | the inductive invariant `LineInv` |
| `LineTypeOK` | `TypeOK`: `pos` and what a print measured stay inside `buf` |
| `LineIsAsTyped` | `LineAsTyped`: what is sent is what was typed, cut to the buffer |
| `LineShownUndisturbed` | `UndisturbedLineShown`: the terminal shows the line unless the last print met a step of the typing thread |

`LineInv` says that between two keys the first `pos` bytes of `buf` are the line
and the next is NUL, and in the middle of a key, that the character is there and
the NUL is not (`BufferHolds`); that a print which met nothing holds the line's
length or the line itself (`PrintHolds`); and that the terminal is the prompt and
the line but for the step under way (`ScreenHolds`). `LineAsTyped` alone is not
inductive, since it speaks of the moment of Enter. `StrLen` is
defined by CHOOSE and `Visible` by a recursive function; their lemmas (`StrLenIs`,
`VisibleIs`) go by induction on a length, in the form "a set of numbers with 0 and with the successor
of each of its members has all numbers" (`SetInduction`), which takes a set where
the library's theorem takes a predicate.

**The demos** (`KernelProofs`, `GuardProofs`, `DemosProofs`, from `DemoAssumption`
and the assumptions of the capacities)

| theorem | states |
|---|---|
| `DemosTypeOK` | `TypeOK` of all six demos |
| `DemosImplementTurns` | `ImplementsTurns`: runs of any of them are runs of Turns |
| `GuardHandsApart` | `HandsApart`: after any kills and restarts, on any memory |
| `GuardRoundsMatch` | `RoundsMatch`: what was copied out is the other side's message of that round, byte for byte |
| `GuardImplementsTurns` | runs of the shm and mmap demos are runs of Turns |
| `EventTokenOnce` | `TokenOnce` |
| `EventImplementsTurns` | runs of the eventfd demo are runs of Turns |
| `PipeNoSignalLost`, `PipeWriterHasReader` | `NoSignalLost`, `WriterHasReader` |
| `PipeImplementsTurns` | runs of the pipe demo are runs of Turns |
| `SocketOneUnderWay`, `SocketNeverRefused` | `OneUnderWay`, `NeverRefused` |
| `SocketImplementsTurns` | runs of the socket demos are runs of Turns |

`GuardInv` says that a process in the payload is the one the guard names, on
every memory there is, and that no process is past its last round. It does not
ask what the payload holds: the guard alone keeps the hands apart, and so it does
after a kill. `TurnInv` is about what it leaves out, on runs nobody was killed in:
each memory sees one run of each process, because the name goes before anyone is
done (`NameFollows`); where the client can be while the server is where it is, and
how many rounds ahead (`InStep`, `ClientAhead`); and the payload, which from the
guard that announces it to the last byte copied out is the message of that round
(`Gets`). The guard is left out of the comparison: in mmap it is one of the bytes
copied. `EventInv` lists where the one token can be. `PipeInv` lists the
phases of a round and, in each, who waits, what is pending and who heard last.
`SocketInv` does the same with the bytes under way (`Loads`) and the bytes owed
(`Owes`); `UnixInv` adds that an announcement is pending only while the server
listens and waits.

`TypeInv` adds to the types that a process in its loop has rounds left, and rests on
the five invariants above; `DemosImplementTurns` puts the refinements together.

Only model-checked: liveness (`ImplementsMailbox` beyond its safety part,
`WaitingSenderGetsIn`, `RequestsHandled`, `QuitLeaves` and the ends of the demos),
because neither fairness nor ENABLED is within the prover's reach. Every invariant
a passing run checks is stated by a theorem.

## Not modelled

- **Semaphore demo.** `semaph.c:11` gives `semctl(SETVAL)` a pointer where it
  takes an int; the kernel refuses the value as too large, and both programs end
  in `semaphores_init`. There is no behaviour after it.
- **shm_condition demo.** `client.c:27` compares `shm_addr < (void*)-1`, which
  every valid address satisfies: the client ends there, and the server waits
  alone.
- **fifo demo.** `server.c:66` raises SIGUSR2 at its own process group before
  the handler is installed: the server kills itself at its start.
- **Message queue demo.** `message_t` begins with an int where the kernel takes a
  long, so that the type a sender gives matches no receiver: both wait for ever
  in the first round.
- **Parts of the modelled programs.** The branches for non-blocking sockets
  (`NONBLOCK` is 0) and `get/set_socket_timeout`, which nothing calls; message
  sizes that differ between the two sides of shm or mmap; the System V variant of
  the message box, whose only call passes a key that names no segment; a client
  id of 0, outside the documented 1 to 100; `/help`, times and log lines.
- **Ends at the start.** Ctrl + C before a thread has called `signal`; failures of
  malloc, shm_open, mmap other than running out of descriptors. These end the
  process at once or do not change the state the properties speak of.
- **Lengths.** Lengths of messages and the arithmetic of `linebuf_print`'s output
  buffer; the model of the line has characters and a bound on them, the messages
  are values.
- Terminal modes, arguments, error exits, build files: no state of their own.

## What is left

- The two-sender server box in place of the queue in a composed room, to say which
  of the room's theorems survive overlapping sends.
- `WhisperPrivate` across restarts and with users who quit, under what the code
  would then have to be asked for: no name used again, no JOIN lost.
- `ListComplete` and `WhisperSigned` for a user whose id nobody shares, in a room
  where others share theirs.
