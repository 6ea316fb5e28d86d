----------------------------- MODULE GuardByte -----------------------------
(***************************************************************************)
(* The shm and mmap demos: two processes hand a piece of memory to and fro *)
(* by one atomic byte at its start, the guard.  's' means that it is the   *)
(* server's turn, 'c' the client's.  In the shm demo the payload follows   *)
(* the guard; in the mmap demo the guard is the payload's first byte, so   *)
(* that a memset of the payload stores over it.  memset and memcpy take a  *)
(* step per byte, in any order.                                            *)
(*                                                                         *)
(* The memory has a name (the System V key, or the path /tmp/mmap) under   *)
(* which a process finds it or makes it, and outlives the name while it is *)
(* mapped.  Any process can be killed at any point; it leaves memory and   *)
(* name behind for the next one.                                           *)
(***************************************************************************)
EXTENDS Demo, Sequences

CONSTANT MaxRuns      \* bound on the runs of each process

ASSUME GuardAssumption == MaxRuns \in Nat

VARIABLES mem,    \* the pieces of memory made so far
          named,  \* the one the name leads to, 0 for none
          at,     \* the one each process has mapped, 0 for none
          todo,   \* bytes a memset or memcpy has not got to
          buf,    \* the buffer each process copies the payload to
          runs    \* starts of each process

guardVars == <<mem, named, at, todo, buf, runs>>

GuardPrograms == {"shm", "mmap"}

Offset  == 0 .. Size
Payload == IF program = "shm" THEN 1 .. Size ELSE 0 .. Size - 1

\* A byte is a guard value, one of the payload of a process, or zero.
Mark(p) == <<p, 0>>
Fill(p) == <<p, round[p] + 1>>
Zero    == <<"zero", 0>>
Byte    == {Zero} \cup (Proc \X (0 .. MaxRounds))

Guard(p) == mem[at[p]][0]
Store(p, i, b) == mem' = [mem EXCEPT ![at[p]][i] = b]

GuardInit ==
    /\ mem = <<>> /\ named = 0
    /\ at = [p \in Proc |-> 0]
    /\ todo = [p \in Proc |-> {}]
    /\ buf = [p \in Proc |-> [i \in Offset |-> Zero]]
    /\ runs = [p \in Proc |-> 0]
-----------------------------------------------------------------------------
\* Find or make the memory: shmget(IPC_CREAT) and shmat, or open(O_CREAT),
\* ftruncate and mmap.  (A process whose segment is removed between its shmget
\* and its shmat ends at once, as if it had not been started.)
Attach(p) ==
    /\ pc[p] = "off" /\ runs[p] < MaxRuns
    /\ \E n \in 0 .. MaxRounds : count' = [count EXCEPT ![p] = n]
    /\ round' = [round EXCEPT ![p] = 0]
    /\ IF named = 0
       THEN /\ mem' = Append(mem, [i \in Offset |-> Zero])
            /\ named' = Len(mem) + 1
       ELSE UNCHANGED <<mem, named>>
    /\ at' = [at EXCEPT ![p] = named']
    /\ runs' = [runs EXCEPT ![p] = @ + 1]
    /\ pc' = [pc EXCEPT ![p] = IF p = "client" THEN "greet"
                               ELSE IF program = "mmap" THEN "unlink" ELSE "hello"]
    /\ UNCHANGED <<program, disturbed, heard, todo, buf>>

\* The mmap server takes the name away as soon as it has the file.
Unlink ==
    /\ pc["server"] = "unlink"
    /\ named' = 0
    /\ Goto("server", "hello")
    /\ UNCHANGED <<program, count, disturbed, heard, mem, at, todo, buf, runs>>

\* The client gives the guard its first value, whatever it holds.
Greet ==
    /\ pc["client"] = "greet"
    /\ Store("client", 0, Mark("server"))
    /\ Goto("client", Enter("client", count["client"], "wait", "detach"))
    /\ UNCHANGED <<program, count, disturbed, heard, named, at, todo, buf, runs>>

\* Mutation: the first value of the guard is not waited for.
HelloAtOnce ==
    /\ pc["server"] = "hello"
    /\ Goto("server", Enter("server", count["server"], "write", "detach"))
    /\ todo' = [todo EXCEPT !["server"] = Payload]
    /\ UNCHANGED <<program, count, disturbed, heard, mem, named, at, buf, runs>>

Hello ==
    /\ pc["server"] = "hello" /\ Guard("server") = Mark("server")
    /\ Goto("server", Enter("server", count["server"], "write", "detach"))
    /\ todo' = [todo EXCEPT !["server"] = Payload]
    /\ UNCHANGED <<program, count, disturbed, heard, mem, named, at, buf, runs>>

\* A byte of the memset
WriteByte(p) ==
    /\ pc[p] = "write"
    /\ \E i \in todo[p] : /\ Store(p, i, Fill(p))
                          /\ todo' = [todo EXCEPT ![p] = @ \ {i}]
    /\ UNCHANGED <<demoVars, named, at, buf, runs>>

\* Mutation: the other side is told before the payload is complete.
NotifyEarly(p) ==
    /\ pc[p] = "write"
    /\ Store(p, 0, Mark(Other(p)))
    /\ IF p = "server" THEN Goto(p, "wait") ELSE NextRound(p, "wait", "detach")
    /\ UNCHANGED <<program, count, disturbed, heard, named, at, todo, buf, runs>>

\* shm_notify
Notify(p) ==
    /\ pc[p] = "write" /\ todo[p] = {}
    /\ Store(p, 0, Mark(Other(p)))
    /\ IF p = "server" THEN Goto(p, "wait") ELSE NextRound(p, "wait", "detach")
    /\ UNCHANGED <<program, count, disturbed, heard, named, at, todo, buf, runs>>

\* Mutation: the process waits only until the guard is not the other side's.
AwaitNotOther(p) ==
    /\ pc[p] = "wait" /\ Guard(p) # Mark(Other(p))
    /\ Goto(p, "read")
    /\ todo' = [todo EXCEPT ![p] = Payload]
    /\ UNCHANGED <<program, count, disturbed, heard, mem, named, at, buf, runs>>

\* shm_wait
Await(p) ==
    /\ pc[p] = "wait" /\ Guard(p) = Mark(p)
    /\ Goto(p, "read")
    /\ todo' = [todo EXCEPT ![p] = Payload]
    /\ UNCHANGED <<program, count, disturbed, heard, mem, named, at, buf, runs>>

\* A byte of the memcpy
ReadByte(p) ==
    /\ pc[p] = "read"
    /\ \E i \in todo[p] : /\ buf' = [buf EXCEPT ![p][i] = mem[at[p]][i]]
                          /\ todo' = [todo EXCEPT ![p] = @ \ {i}]
    /\ UNCHANGED <<demoVars, mem, named, at, runs>>

\* The message is read: the client answers, the server's round ends.
HaveRead(p) ==
    /\ pc[p] = "read" /\ todo[p] = {}
    /\ Hear(p)
    /\ IF p = "client" THEN Goto(p, "write") ELSE NextRound(p, "write", "detach")
    /\ todo' = [todo EXCEPT ![p] = Payload]
    /\ UNCHANGED <<program, count, disturbed, mem, named, at, buf, runs>>

\* Both shm processes remove the segment they had mapped, if it is still there;
\* the mmap client removes the path, whatever it leads to.
Detach(p) ==
    /\ pc[p] = "detach"
    /\ named' = IF program = "mmap" THEN IF p = "client" THEN 0 ELSE named
                ELSE IF named = at[p] THEN 0 ELSE named
    /\ at' = [at EXCEPT ![p] = 0]
    /\ Goto(p, "off")
    /\ UNCHANGED <<program, count, disturbed, heard, mem, todo, buf, runs>>

Kill(p) ==
    /\ pc[p] # "off"
    /\ at' = [at EXCEPT ![p] = 0]
    /\ Goto(p, "off")
    /\ disturbed' = TRUE
    /\ UNCHANGED <<program, count, heard, mem, named, todo, buf, runs>>
-----------------------------------------------------------------------------
GuardStep(p) ==
    \/ p = "server" /\ (Unlink \/ Hello)
    \/ p = "client" /\ Greet
    \/ WriteByte(p) \/ Notify(p) \/ Await(p) \/ ReadByte(p) \/ HaveRead(p) \/ Detach(p)

GuardNext == program \in GuardPrograms /\ \E p \in Proc : Attach(p) \/ GuardStep(p) \/ Kill(p)
-----------------------------------------------------------------------------
GuardTypeOK ==
    /\ mem \in Seq([Offset -> Byte])
    /\ named \in 0 .. Len(mem) /\ at \in [Proc -> 0 .. Len(mem)]
    /\ todo \in [Proc -> SUBSET Offset]
    /\ buf \in [Proc -> [Offset -> Byte]]
    /\ runs \in [Proc -> 0 .. MaxRuns]
    /\ program \in GuardPrograms => \A p \in Proc : at[p] = 0 <=> pc[p] = "off"

(* The two processes are never in the payload at once, from the first byte *)
(* of a memcpy or memset to the guard that follows it, whoever is killed   *)
(* and started again on the memory the last run left (shm.c, mmap).        *)
Holds(p) == pc[p] \in {"write", "read"}
HandsApart ==
    program \in GuardPrograms /\ at["server"] = at["client"]
    => ~(Holds("server") /\ Holds("client"))

(* What a process has copied out is what the other side wrote in the same  *)
(* round, every byte of it but the guard, as long as nobody was killed.    *)
RoundsMatch ==
    \A p \in Proc :
        program \in GuardPrograms /\ ~disturbed /\ pc[p] = "read" /\ todo[p] = {}
        => \A i \in Payload \ {0} : buf[p][i] = <<Other(p), round[p] + 1>>

(* A process that met the other on the same memory and has no more rounds  *)
(* to go than the other gets through them and leaves.                      *)
Met(p) ==
    /\ program \in GuardPrograms /\ ~disturbed
    /\ at[p] # 0 /\ at[p] = at[Other(p)] /\ count[p] <= count[Other(p)]
GuardEnds == \A p \in Proc : Met(p) ~> pc[p] = "off" \/ disturbed
=============================================================================
