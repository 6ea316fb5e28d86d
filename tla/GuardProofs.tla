---------------------------- MODULE GuardProofs ----------------------------
(***************************************************************************)
(* Proofs about the shm and mmap demos: for every size of the message and  *)
(* any number of rounds, runs and kills, the two processes are never in    *)
(* the payload at once.                                                    *)
(***************************************************************************)
EXTENDS KernelProofs

(* A process's guard value and its payload bytes carry its name: while it  *)
(* holds the payload, the guard is one of them.                            *)
GuardNamesHolder == \A p \in Proc : Holds(p) => mem[at[p]][0][1] = p

(* Before its loop a process has done no round, inside it some are left.   *)
RoundsLeft ==
    \A p \in Proc :
        /\ pc[p] \in {"unlink", "hello", "greet"} => round[p] = 0
        /\ pc[p] \in {"wait", "write", "read"} => round[p] < count[p]

GuardInv ==
    program \in GuardPrograms =>
        DemoTypeOK /\ GuardTypeOK /\ RoundsLeft /\ GuardNamesHolder

(* The offsets of guard and payload lie within the memory.                 *)
LEMMA Offsets == 0 \in Offset /\ Payload \subseteq Offset
BY DemoAssumption DEF Offset, Payload

(* One element of a sequence is replaced.                                  *)
LEMMA Replaced ==
  ASSUME NEW S, NEW s \in Seq(S), NEW k \in 1 .. Len(s), NEW v \in S
  PROVE  LET t == [s EXCEPT ![k] = v]
         IN  /\ t \in Seq(S) /\ Len(t) = Len(s) /\ t[k] = v
             /\ \A j \in 1 .. Len(s) : j # k => t[j] = s[j]
<1>1. s \in [1 .. Len(s) -> S] /\ Len(s) \in Nat
  OBVIOUS
<1> DEFINE t == [s EXCEPT ![k] = v]
<1>2. t \in [1 .. Len(s) -> S] /\ t[k] = v /\ \A j \in 1 .. Len(s) : j # k => t[j] = s[j]
  BY <1>1
<1>3. t \in Seq(S) /\ Len(t) = Len(s)
  BY <1>1, <1>2
<1> QED
  BY <1>2, <1>3

(* A store changes one byte of one piece of memory.                        *)
LEMMA StoreChangesByte ==
  ASSUME GuardTypeOK, NEW p \in Proc, at[p] # 0, NEW i \in Offset, NEW b \in Byte, Store(p, i, b)
  PROVE  /\ mem' \in Seq([Offset -> Byte]) /\ Len(mem') = Len(mem)
         /\ mem'[at[p]][i] = b
         /\ \A j \in Offset : j # i => mem'[at[p]][j] = mem[at[p]][j]
         /\ \A k \in 1 .. Len(mem) : k # at[p] => mem'[k] = mem[k]
<1> DEFINE F == [Offset -> Byte]
           new == [mem[at[p]] EXCEPT ![i] = b]
<1>1. mem \in Seq(F) /\ at[p] \in 1 .. Len(mem)
  BY DEF GuardTypeOK
<1>2. mem[at[p]] \in F
  BY <1>1
<1>3. mem' = [mem EXCEPT ![at[p]] = new]
  BY <1>1 DEF Store
<1>4. new \in F /\ new[i] = b /\ \A j \in Offset : j # i => new[j] = mem[at[p]][j]
  BY <1>2
<1> HIDE DEF F, new
<1>5. /\ mem' \in Seq(F) /\ Len(mem') = Len(mem) /\ mem'[at[p]] = new
      /\ \A k \in 1 .. Len(mem) : k # at[p] => mem'[k] = mem[k]
  BY <1>1, <1>3, <1>4, Replaced
<1> QED
  BY <1>4, <1>5 DEF F

-----------------------------------------------------------------------------
(* Before a program is started nothing is held.                            *)
LEMMA GuardStarts == Init => GuardInv
<1> SUFFICES ASSUME Init PROVE GuardInv
  OBVIOUS
<1>1. [i \in Offset |-> Zero] \in [Offset -> Byte]
  BY DEF Byte
<1>2. <<>> \in Seq([Offset -> Byte]) /\ Len(<<>>) = 0
  OBVIOUS
<1>3. GuardTypeOK
  BY <1>1, <1>2, GuardAssumption DEF Init, DemoInit, GuardInit, GuardTypeOK
<1>4. DemoTypeOK
  <2>1. 0 \in 0 .. MaxRounds /\ 0 \in Nat /\ "off" \in Places
    BY DemoAssumption DEF Places
  <2> QED
    BY <2>1 DEF Init, DemoInit, DemoTypeOK
<1> QED
  BY <1>3, <1>4 DEF GuardInv, RoundsLeft, GuardNamesHolder, Holds, Init, DemoInit, Proc

(* Attaching: the process holds nothing yet, the other's memory stays.     *)
LEMMA AttachKeeps ==
  ASSUME GuardInv, program \in GuardPrograms, NEW p \in Proc, Attach(p)
  PROVE  GuardInv'
<1> DEFINE F == [Offset -> Byte]
           z == [i \in Offset |-> Zero]
<1>0. DemoTypeOK /\ GuardTypeOK /\ RoundsLeft /\ GuardNamesHolder
  BY DEF GuardInv
<1>1. DemoTypeOK'
  BY <1>0, DemoAssumption DEF DemoTypeOK, Attach, Places
<1>2. /\ mem' \in Seq(F) /\ Len(mem) <= Len(mem')
      /\ named' \in 1 .. Len(mem')
      /\ \A k \in 1 .. Len(mem) : mem'[k] = mem[k]
  <2>1. mem \in Seq(F) /\ z \in F /\ named \in 0 .. Len(mem)
    BY <1>0 DEF GuardTypeOK, Byte
  <2>2. /\ named = 0 => mem' = Append(mem, z) /\ named' = Len(mem) + 1
        /\ named # 0 => mem' = mem /\ named' = named
    BY DEF Attach
  <2> HIDE DEF F, z
  <2>3. CASE named = 0
    BY <2>1, <2>2, <2>3
  <2>4. CASE named # 0
    BY <2>1, <2>2, <2>4
  <2> QED BY <2>3, <2>4
<1>3. /\ pc' = [pc EXCEPT ![p] = pc'[p]]
      /\ pc'[p] \in {"greet", "unlink", "hello"}
      /\ at' = [at EXCEPT ![p] = named']
      /\ round' = [round EXCEPT ![p] = 0]
      /\ UNCHANGED <<todo, buf, program>>
  BY <1>0 DEF Attach, DemoTypeOK
<1>4. \E m \in 0 .. MaxRounds : count' = [count EXCEPT ![p] = m]
  BY DEF Attach
<1>5. runs' \in [Proc -> 0 .. MaxRuns]
  BY <1>0, GuardAssumption DEF GuardTypeOK, Attach
<1>6. GuardTypeOK'
  <2>1. at' \in [Proc -> 0 .. Len(mem')]
    BY <1>0, <1>2, <1>3 DEF GuardTypeOK
  <2>2. \A q \in Proc : at'[q] = 0 <=> pc'[q] = "off"
    BY <1>0, <1>2, <1>3 DEF GuardTypeOK, DemoTypeOK
  <2> QED
    BY <1>0, <1>2, <1>3, <1>5, <2>1, <2>2 DEF GuardTypeOK
<1>7. RoundsLeft'
  BY <1>0, <1>3, <1>4 DEF RoundsLeft, DemoTypeOK
<1>8. GuardNamesHolder'
  <2> SUFFICES ASSUME NEW q \in Proc, Holds(q)' PROVE mem'[at'[q]][0][1] = q
    BY DEF GuardNamesHolder
  <2>1. q # p /\ Holds(q) /\ at'[q] = at[q]
    BY <1>0, <1>3 DEF Holds, DemoTypeOK, GuardTypeOK
  <2>2. at[q] \in 1 .. Len(mem)
    BY <1>0, <1>3, <2>1 DEF Holds, GuardTypeOK
  <2> QED
    BY <1>0, <1>2, <2>1, <2>2 DEF GuardNamesHolder
<1> QED
  BY <1>1, <1>6, <1>7, <1>8 DEF GuardInv

(* A byte of a process carries its name.                                   *)
LEMMA BytesOf ==
  ASSUME DemoTypeOK, RoundsLeft, NEW p \in Proc
  PROVE  /\ Mark(p) \in Byte /\ Mark(p)[1] = p
         /\ Holds(p) => Fill(p) \in Byte /\ Fill(p)[1] = p
<1>1. 0 \in 0 .. MaxRounds
  BY DemoAssumption
<1>2. ASSUME Holds(p) PROVE round[p] + 1 \in 0 .. MaxRounds
  BY <1>2, DemoAssumption DEF DemoTypeOK, RoundsLeft, Holds
<1> QED
  BY <1>1, <1>2 DEF Mark, Fill, Byte

(* Two processes at the same memory do not both hold the payload.          *)
LEMMA NamedOnce ==
  ASSUME GuardNamesHolder, NEW p \in Proc, NEW q \in Proc, Holds(p), Holds(q), at[p] = at[q]
  PROVE  p = q
BY DEF GuardNamesHolder

(* A store leaves every holder its guard if nobody but the process that    *)
(* stores begins to hold, and if the guard of that memory, stored to or    *)
(* not, is the holder's.                                                   *)
LEMMA StoreKeepsNames ==
  ASSUME GuardTypeOK, GuardNamesHolder,
         NEW p \in Proc, at[p] # 0, NEW i \in Offset, NEW b \in Byte, Store(p, i, b),
         at' = at, \A q \in Proc : Holds(q)' => at[q] # 0,
         \A q \in Proc : q # p /\ Holds(q)' => Holds(q),
         \A q \in Proc : Holds(q)' /\ at[q] = at[p] =>
             IF i = 0 THEN b[1] = q ELSE mem[at[p]][0][1] = q
  PROVE  GuardNamesHolder'
<1> SUFFICES ASSUME NEW q \in Proc, Holds(q)' PROVE mem'[at'[q]][0][1] = q
  BY DEF GuardNamesHolder
<1>1. at'[q] = at[q] /\ at[q] \in 1 .. Len(mem)
  BY DEF GuardTypeOK
<1>2. CASE at[q] = at[p]
  BY <1>1, <1>2, StoreChangesByte, Offsets
<1>3. CASE at[q] # at[p]
  <2>1. mem'[at[q]] = mem[at[q]] /\ Holds(q)
    BY <1>1, <1>3, StoreChangesByte
  <2> QED
    BY <1>1, <2>1 DEF GuardNamesHolder
<1> QED
  BY <1>2, <1>3

(* A process in its program moves on within it.                            *)
LEMMA MoveKeepsTypes ==
  ASSUME DemoTypeOK, GuardTypeOK, program \in GuardPrograms,
         NEW p \in Proc, pc[p] # "off", NEW place \in Places \ {"off"},
         pc' = [pc EXCEPT ![p] = place],
         mem' \in Seq([Offset -> Byte]), Len(mem') = Len(mem), named' \in 0 .. Len(mem),
         todo' \in [Proc -> SUBSET Offset], buf' \in [Proc -> [Offset -> Byte]],
         UNCHANGED <<at, runs, program>>
  PROVE  GuardTypeOK' /\ pc' \in [Proc -> Places]
BY DEF DemoTypeOK, GuardTypeOK

(* The next round, or the end of the loop                                  *)
LEMMA NextRoundKeeps ==
  ASSUME DemoTypeOK, RoundsLeft, NEW p \in Proc, Holds(p), UNCHANGED count,
         NEW body \in {"wait", "write"}, NextRound(p, body, "detach")
  PROVE  /\ RoundsLeft' /\ round' \in [Proc -> 0 .. MaxRounds]
         /\ \E place \in {body, "detach"} : pc' = [pc EXCEPT ![p] = place]
<1>1. \E place \in {body, "detach"} : pc' = [pc EXCEPT ![p] = place]
  BY DEF NextRound
<1>2. round[p] \in Nat /\ round[p] + 1 \in 0 .. MaxRounds
  BY DemoAssumption DEF DemoTypeOK, RoundsLeft, Holds
<1>3. round' \in [Proc -> 0 .. MaxRounds]
  BY <1>2 DEF NextRound, DemoTypeOK
<1>4. RoundsLeft'
  BY <1>2 DEF NextRound, DemoTypeOK, RoundsLeft
<1> QED
  BY <1>1, <1>3, <1>4
-----------------------------------------------------------------------------
(* Removing the name keeps the invariant.                                  *)
LEMMA UnlinkKeeps ==
  ASSUME GuardInv, program \in GuardPrograms, Unlink
  PROVE  GuardInv'
<1>0. DemoTypeOK /\ GuardTypeOK /\ RoundsLeft /\ GuardNamesHolder
  BY DEF GuardInv
<1>1. /\ pc' = [pc EXCEPT !["server"] = "hello"] /\ pc["server"] = "unlink"
      /\ "server" \in Proc /\ "hello" \in Places \ {"off"}
  BY DEF Unlink, Goto, Proc, Places
<1>2. GuardTypeOK' /\ pc' \in [Proc -> Places]
  <2>1. 0 \in 0 .. Len(mem)
    BY <1>0 DEF GuardTypeOK
  <2>2. /\ mem \in Seq([Offset -> Byte]) /\ todo \in [Proc -> SUBSET Offset]
        /\ buf \in [Proc -> [Offset -> Byte]]
    BY <1>0 DEF GuardTypeOK
  <2>3. named' = 0 /\ UNCHANGED <<mem, at, todo, buf, runs, program>>
    BY DEF Unlink
  <2> QED
    BY <1>0, <1>1, <2>1, <2>2, <2>3, MoveKeepsTypes
<1>3. DemoTypeOK'
  BY <1>0, <1>2 DEF DemoTypeOK, Unlink, Goto
<1>4. RoundsLeft' /\ GuardNamesHolder'
  BY <1>0, <1>1 DEF RoundsLeft, GuardNamesHolder, Holds, DemoTypeOK, Unlink, Goto
<1> QED
  BY <1>2, <1>3, <1>4 DEF GuardInv

(* The client's first value of the guard keeps it.                         *)
LEMMA GreetKeeps ==
  ASSUME GuardInv, program \in GuardPrograms, Greet
  PROVE  GuardInv'
<1>0. DemoTypeOK /\ GuardTypeOK /\ RoundsLeft /\ GuardNamesHolder
  BY DEF GuardInv
<1>1. PICK place \in {"wait", "detach"} :
        /\ pc' = [pc EXCEPT !["client"] = place]
        /\ place = "wait" => 0 < count["client"]
  BY DEF Greet, Goto, Enter
<1>2. "client" \in Proc /\ "server" \in Proc /\ place \in Places \ {"off"}
      /\ pc["client"] = "greet" /\ at["client"] # 0
  BY <1>0 DEF Greet, Proc, Places, GuardTypeOK
<1>3. Mark("server") \in Byte /\ Mark("server")[1] = "server"
  BY <1>0, <1>2, BytesOf
<1>4. mem' \in Seq([Offset -> Byte]) /\ Len(mem') = Len(mem)
  BY <1>0, <1>2, <1>3, StoreChangesByte, Offsets DEF Greet
<1>5. GuardTypeOK' /\ pc' \in [Proc -> Places]
  BY <1>0, <1>1, <1>2, <1>4, MoveKeepsTypes DEF Greet, Goto, GuardTypeOK
<1>6. DemoTypeOK'
  BY <1>0, <1>5 DEF DemoTypeOK, Greet, Goto
<1>7. RoundsLeft'
  BY <1>0, <1>1, <1>2 DEF RoundsLeft, DemoTypeOK, Greet, Goto
<1>8. \A q \in Proc : Holds(q)' => Holds(q) /\ q = "server" /\ at[q] # 0
  BY <1>0, <1>1, <1>2 DEF Holds, DemoTypeOK, GuardTypeOK, Proc
<1>9. GuardNamesHolder'
  BY <1>0, <1>2, <1>3, <1>8, StoreKeepsNames, Offsets DEF Greet
<1> QED
  BY <1>5, <1>6, <1>7, <1>9 DEF GuardInv

(* The server's end of the wait for that first value keeps it.             *)
LEMMA HelloKeeps ==
  ASSUME GuardInv, program \in GuardPrograms, Hello
  PROVE  GuardInv'
<1>0. DemoTypeOK /\ GuardTypeOK /\ RoundsLeft /\ GuardNamesHolder
  BY DEF GuardInv
<1>1. PICK place \in {"write", "detach"} :
        /\ pc' = [pc EXCEPT !["server"] = place]
        /\ place = "write" => 0 < count["server"]
  BY DEF Hello, Goto, Enter
<1>2. "server" \in Proc /\ place \in Places \ {"off"} /\ pc["server"] = "hello"
  BY DEF Hello, Proc, Places
<1>3. todo' \in [Proc -> SUBSET Offset]
  BY <1>0, Offsets DEF Hello, GuardTypeOK
<1>4. GuardTypeOK' /\ pc' \in [Proc -> Places]
  BY <1>0, <1>1, <1>2, <1>3, MoveKeepsTypes DEF Hello, Goto, GuardTypeOK
<1>5. DemoTypeOK'
  BY <1>0, <1>4 DEF DemoTypeOK, Hello, Goto
<1>6. RoundsLeft'
  BY <1>0, <1>1, <1>2 DEF RoundsLeft, DemoTypeOK, Hello, Goto
<1>7. mem[at["server"]][0][1] = "server"
  BY <1>0, <1>2, BytesOf DEF Hello, Guard
<1>8. GuardNamesHolder'
  BY <1>0, <1>1, <1>2, <1>7 DEF GuardNamesHolder, Holds, DemoTypeOK, Hello
<1> QED
  BY <1>4, <1>5, <1>6, <1>8 DEF GuardInv

(* A byte of the memset keeps it.                                          *)
LEMMA WriteByteKeeps ==
  ASSUME GuardInv, program \in GuardPrograms, NEW p \in Proc, WriteByte(p)
  PROVE  GuardInv'
<1>0. DemoTypeOK /\ GuardTypeOK /\ RoundsLeft /\ GuardNamesHolder
  BY DEF GuardInv
<1>1. PICK i \in todo[p] : Store(p, i, Fill(p)) /\ todo' = [todo EXCEPT ![p] = @ \ {i}]
  BY DEF WriteByte
<1>2. Holds(p) /\ at[p] # 0 /\ i \in Offset
  BY <1>0, <1>1 DEF WriteByte, Holds, GuardTypeOK
<1>3. Fill(p) \in Byte /\ Fill(p)[1] = p
  BY <1>0, <1>2, BytesOf
<1>4. mem' \in Seq([Offset -> Byte]) /\ Len(mem') = Len(mem)
  BY <1>0, <1>1, <1>2, <1>3, StoreChangesByte
<1>5. todo' \in [Proc -> SUBSET Offset]
  BY <1>0, <1>1 DEF GuardTypeOK
<1>6. UNCHANGED <<demoVars, named, at, buf, runs>>
  BY DEF WriteByte
<1>7. GuardTypeOK' /\ DemoTypeOK' /\ RoundsLeft'
  BY <1>0, <1>4, <1>5, <1>6 DEF GuardTypeOK, DemoTypeOK, RoundsLeft, demoVars
<1>8. \A q \in Proc : Holds(q)' => Holds(q) /\ at[q] # 0
  BY <1>0, <1>6 DEF Holds, GuardTypeOK, demoVars
<1>9. \A q \in Proc : Holds(q)' /\ at[q] = at[p] => q = p
  BY <1>0, <1>2, <1>8, NamedOnce
<1>10. mem[at[p]][0][1] = p
  BY <1>0, <1>2 DEF GuardNamesHolder
<1>11. GuardNamesHolder'
  BY <1>0, <1>1, <1>2, <1>3, <1>6, <1>8, <1>9, <1>10, StoreKeepsNames
<1> QED
  BY <1>7, <1>11 DEF GuardInv

(* The guard byte handed to the other side keeps it.                       *)
LEMMA NotifyKeeps ==
  ASSUME GuardInv, program \in GuardPrograms, NEW p \in Proc, Notify(p)
  PROVE  GuardInv'
<1>0. DemoTypeOK /\ GuardTypeOK /\ RoundsLeft /\ GuardNamesHolder
  BY DEF GuardInv
<1>1. Holds(p) /\ at[p] # 0 /\ pc[p] = "write" /\ Other(p) \in Proc
  BY <1>0 DEF Notify, Holds, GuardTypeOK, Other, Proc
<1>2. Mark(Other(p)) \in Byte
  BY <1>0, <1>1, BytesOf
<1>3. mem' \in Seq([Offset -> Byte]) /\ Len(mem') = Len(mem)
  BY <1>0, <1>1, <1>2, StoreChangesByte, Offsets DEF Notify
<1>4. /\ RoundsLeft' /\ round' \in [Proc -> 0 .. MaxRounds]
      /\ \E place \in {"wait", "detach"} : pc' = [pc EXCEPT ![p] = place]
  <2>1. CASE p = "server"
    BY <1>0, <1>1, <2>1 DEF Notify, Goto, RoundsLeft, DemoTypeOK
  <2>2. CASE p # "server"
    BY <1>0, <1>1, <2>2, NextRoundKeeps DEF Notify
  <2> QED
    BY <2>1, <2>2
<1>5. PICK place \in {"wait", "detach"} : pc' = [pc EXCEPT ![p] = place]
  BY <1>4
<1>6. place \in Places \ {"off"}
  BY DEF Places
<1>7. GuardTypeOK' /\ pc' \in [Proc -> Places]
  BY <1>0, <1>1, <1>3, <1>5, <1>6, MoveKeepsTypes DEF Notify, GuardTypeOK
<1>8. DemoTypeOK'
  BY <1>0, <1>4, <1>7 DEF DemoTypeOK, Notify
<1>9. \A q \in Proc : Holds(q)' => Holds(q) /\ q # p /\ at[q] # 0
  BY <1>0, <1>5 DEF Holds, DemoTypeOK, GuardTypeOK
<1>10. \A q \in Proc : Holds(q)' => at[q] # at[p]
  BY <1>0, <1>1, <1>9, NamedOnce
<1>11. GuardNamesHolder'
  BY <1>0, <1>1, <1>2, <1>9, <1>10, StoreKeepsNames, Offsets DEF Notify
<1> QED
  BY <1>4, <1>7, <1>8, <1>11 DEF GuardInv

(* The end of a wait for the guard byte keeps it.                          *)
LEMMA AwaitKeeps ==
  ASSUME GuardInv, program \in GuardPrograms, NEW p \in Proc, Await(p)
  PROVE  GuardInv'
<1>0. DemoTypeOK /\ GuardTypeOK /\ RoundsLeft /\ GuardNamesHolder
  BY DEF GuardInv
<1>1. /\ pc[p] = "wait" /\ pc' = [pc EXCEPT ![p] = "read"]
      /\ "read" \in Places \ {"off"}
  BY DEF Await, Goto, Places
<1>2. todo' \in [Proc -> SUBSET Offset]
  BY <1>0, Offsets DEF Await, GuardTypeOK
<1>3. GuardTypeOK' /\ pc' \in [Proc -> Places]
  BY <1>0, <1>1, <1>2, MoveKeepsTypes DEF Await, Goto, GuardTypeOK
<1>4. DemoTypeOK'
  BY <1>0, <1>3 DEF DemoTypeOK, Await, Goto
<1>5. RoundsLeft'
  BY <1>0, <1>1 DEF RoundsLeft, DemoTypeOK, Await, Goto
<1>6. mem[at[p]][0][1] = p
  BY <1>0, BytesOf DEF Await, Guard
<1>7. GuardNamesHolder'
  BY <1>0, <1>1, <1>6 DEF GuardNamesHolder, Holds, DemoTypeOK, Await
<1> QED
  BY <1>3, <1>4, <1>5, <1>7 DEF GuardInv

(* A byte of the memcpy keeps it.                                          *)
LEMMA ReadByteKeeps ==
  ASSUME GuardInv, program \in GuardPrograms, NEW p \in Proc, ReadByte(p)
  PROVE  GuardInv'
<1>0. DemoTypeOK /\ GuardTypeOK /\ RoundsLeft /\ GuardNamesHolder
  BY DEF GuardInv
<1>1. PICK i \in todo[p] : /\ buf' = [buf EXCEPT ![p][i] = mem[at[p]][i]]
                           /\ todo' = [todo EXCEPT ![p] = @ \ {i}]
  BY DEF ReadByte
<1>2. at[p] \in 1 .. Len(mem) /\ i \in Offset
  BY <1>0, <1>1 DEF ReadByte, GuardTypeOK
<1>3. mem[at[p]] \in [Offset -> Byte]
  BY <1>0, <1>2 DEF GuardTypeOK
<1>4. mem[at[p]][i] \in Byte
  BY <1>2, <1>3
<1>5. buf' \in [Proc -> [Offset -> Byte]] /\ todo' \in [Proc -> SUBSET Offset]
  BY <1>0, <1>1, <1>2, <1>4 DEF GuardTypeOK
<1>6. UNCHANGED <<demoVars, mem, named, at, runs>>
  BY DEF ReadByte
<1>7. GuardTypeOK' /\ DemoTypeOK' /\ RoundsLeft'
  BY <1>0, <1>5, <1>6 DEF GuardTypeOK, DemoTypeOK, RoundsLeft, demoVars
<1>8. GuardNamesHolder'
  BY <1>0, <1>6 DEF GuardNamesHolder, Holds, demoVars
<1> QED
  BY <1>7, <1>8 DEF GuardInv

(* The end of a message read keeps it.                                     *)
LEMMA HaveReadKeeps ==
  ASSUME GuardInv, program \in GuardPrograms, NEW p \in Proc, HaveRead(p)
  PROVE  GuardInv'
<1>0. DemoTypeOK /\ GuardTypeOK /\ RoundsLeft /\ GuardNamesHolder
  BY DEF GuardInv
<1>1. pc[p] = "read" /\ Holds(p)
  BY DEF HaveRead, Holds
<1>2. /\ RoundsLeft' /\ round' \in [Proc -> 0 .. MaxRounds]
      /\ \E place \in {"write", "detach"} : pc' = [pc EXCEPT ![p] = place]
  <2>1. CASE p = "client"
    BY <1>0, <1>1, <2>1 DEF HaveRead, Goto, RoundsLeft, DemoTypeOK
  <2>2. CASE p # "client"
    BY <1>0, <1>1, <2>2, NextRoundKeeps DEF HaveRead
  <2> QED
    BY <2>1, <2>2
<1>3. PICK place \in {"write", "detach"} : pc' = [pc EXCEPT ![p] = place]
  BY <1>2
<1>4. place \in Places \ {"off"}
  BY DEF Places
<1>5. todo' \in [Proc -> SUBSET Offset]
  BY <1>0, Offsets DEF HaveRead, GuardTypeOK
<1>6. GuardTypeOK' /\ pc' \in [Proc -> Places]
  BY <1>0, <1>1, <1>3, <1>4, <1>5, MoveKeepsTypes DEF HaveRead, GuardTypeOK
<1>7. heard' \in [Proc -> Nat]
  BY <1>0 DEF HaveRead, Hear, DemoTypeOK
<1>8. DemoTypeOK'
  BY <1>0, <1>2, <1>6, <1>7 DEF DemoTypeOK, HaveRead
<1>9. GuardNamesHolder'
  BY <1>0, <1>1, <1>3 DEF GuardNamesHolder, Holds, DemoTypeOK, HaveRead
<1> QED
  BY <1>2, <1>6, <1>8, <1>9 DEF GuardInv

(* Leaving, in order or by a signal                                        *)
LEMMA LeaveKeeps ==
  ASSUME GuardInv, program \in GuardPrograms, NEW p \in Proc, Detach(p) \/ Kill(p)
  PROVE  GuardInv'
<1>0. DemoTypeOK /\ GuardTypeOK /\ RoundsLeft /\ GuardNamesHolder
  BY DEF GuardInv
<1>1. /\ pc' = [pc EXCEPT ![p] = "off"] /\ at' = [at EXCEPT ![p] = 0]
      /\ named' \in {0, named} /\ disturbed' \in {disturbed, TRUE}
      /\ UNCHANGED <<program, round, count, heard, mem, todo, buf, runs>>
  BY DEF Detach, Kill, Goto
<1>2. "off" \in Places
  BY DEF Places
<1>3. mem \in Seq([Offset -> Byte]) /\ Len(mem) \in Nat
  BY <1>0 DEF GuardTypeOK
<1>4. GuardTypeOK'
  <2>1. named' \in 0 .. Len(mem') /\ at' \in [Proc -> 0 .. Len(mem')]
    BY <1>0, <1>1, <1>3 DEF GuardTypeOK
  <2>2. \A q \in Proc : at'[q] = 0 <=> pc'[q] = "off"
    BY <1>0, <1>1 DEF GuardTypeOK, DemoTypeOK
  <2> QED
    BY <1>0, <1>1, <2>1, <2>2 DEF GuardTypeOK
<1>5. DemoTypeOK'
  BY <1>0, <1>1, <1>2 DEF DemoTypeOK
<1>6. RoundsLeft'
  BY <1>0, <1>1 DEF RoundsLeft, DemoTypeOK
<1>7. GuardNamesHolder'
  BY <1>0, <1>1 DEF GuardNamesHolder, Holds, DemoTypeOK, GuardTypeOK
<1> QED
  BY <1>4, <1>5, <1>6, <1>7 DEF GuardInv
-----------------------------------------------------------------------------
(* One step of any program                                                 *)
LEMMA GuardInductive == GuardInv /\ [Next]_vars => GuardInv'
<1> SUFFICES ASSUME GuardInv, [Next]_vars, program' \in GuardPrograms PROVE GuardInv'
  BY DEF GuardInv
<1>1. /\ UNCHANGED program
      /\ GuardNext \/ EventNext \/ PipeNext \/ SocketNext \/ UNCHANGED vars
  BY OneProgram
<1>2. CASE GuardNext
  <2>1. PICK p \in Proc : program \in GuardPrograms /\ (Attach(p) \/ GuardStep(p) \/ Kill(p))
    BY <1>2 DEF GuardNext
  <2> QED
    BY <2>1, AttachKeeps, UnlinkKeeps, GreetKeeps, HelloKeeps, WriteByteKeeps, NotifyKeeps,
       AwaitKeeps, ReadByteKeeps, HaveReadKeeps, LeaveKeeps DEF GuardStep
<1>3. ~(EventNext \/ PipeNext \/ SocketNext)
  BY <1>1 DEF EventNext, PipeNext, SocketNext, GuardPrograms, SocketPrograms
<1>4. CASE UNCHANGED vars
  BY <1>4 DEF vars, demoVars, guardVars, GuardInv, DemoTypeOK, GuardTypeOK, RoundsLeft,
     GuardNamesHolder, Holds
<1> QED
  BY <1>1, <1>2, <1>3, <1>4

(* The invariant, of which the theorem below is the part to remember       *)
THEOREM GuardInvHolds == Spec => []GuardInv
BY GuardStarts, GuardInductive, PTL DEF Spec

(* The two processes of the shm and of the mmap demo are never in the      *)
(* payload of the same memory at once, whatever the memory held when they  *)
(* came to it, whenever they are killed and however often they start again.*)
THEOREM GuardHandsApart == Spec => []HandsApart
<1>1. GuardInv => HandsApart
  BY NamedOnce DEF GuardInv, HandsApart, Proc
<1> QED
  BY <1>1, GuardInvHolds, PTL
-----------------------------------------------------------------------------
\* The payload but the guard
Text == Payload \ {0}

Alone(p) == at[p] # 0 /\ at[p] # at[Other(p)]
Together == at["client"] # 0 /\ at["client"] = at["server"]

(* Where the processes of these two programs are.                          *)
InPlaces ==
    /\ pc["server"] \in {"off", "unlink", "hello", "write", "wait", "read", "detach"}
    /\ pc["client"] \in {"off", "greet", "wait", "read", "write", "detach"}

(* Memory that has a name is used by somebody; whoever is there alone has  *)
(* not begun to exchange messages, so that each memory sees one run of     *)
(* each process.                                                           *)
NameFollows ==
    /\ named # 0 => named = at["server"] \/ named = at["client"]
    /\ named = at["server"] /\ Alone("server") =>
           pc["server"] \in {"unlink", "hello"} /\ Guard("server") = Zero
    /\ named = at["client"] /\ Alone("client") => rc = 0
    /\ program = "mmap" /\ named = at["server"] /\ named # 0 => pc["server"] = "unlink"

(* A client without a server waits in vain.                                *)
ClientAlone ==
    Alone("client") => /\ pc["client"] \in {"greet", "wait", "detach"}
                       /\ pc["client"] = "wait" => Guard("client") = Mark("server")

GreetsFresh == pc["client"] = "greet" => Guard("client") = Zero

\* The client waits, so many rounds ahead of the server, or has had enough.
ClientAwaits(ahead) ==
    /\ pc["client"] \in {"wait", "detach"}
    /\ pc["client"] = "wait" => rc = rs + ahead

(* What the client does while the server is where it is                    *)
InStep ==
    Together =>
        /\ pc["server"] \in {"unlink", "hello"} =>
               /\ pc["client"] \in {"greet", "wait", "detach"}
               /\ pc["client"] = "wait" => rc = 0 /\ Guard("client") = Mark("server")
        /\ pc["server"] = "write" => ClientAwaits(0)
        /\ pc["server"] = "read" => ClientAwaits(1)
        /\ pc["server"] = "wait" =>
               IF Guard("server") = Mark("server") THEN ClientAwaits(1)
               ELSE /\ pc["client"] \in {"wait", "read", "write", "detach"}
                    /\ pc["client"] # "detach" => rc = rs
        /\ pc["server"] = "detach" =>
               /\ pc["client"] \in {"wait", "detach"}
               /\ pc["client"] = "wait" => Guard("client") = Mark("server")

(* Between the client's hearing and the server's the client is ahead.      *)
ClientAhead ==
    \/ pc["server"] = "read" \/ pc["client"] = "write"
    \/ pc["server"] = "wait" /\ Guard("server") = Mark("server")

HeardInTurn == hc = hs + (IF ClientAhead THEN 1 ELSE 0)

(* The payload holds the other's message of the round from the guard that  *)
(* announces it to the last byte of the memcpy.                            *)
Gets(p) ==
    /\ pc[p] = "read" => Guard(p) = Mark(p)
    /\ pc[p] \in {"wait", "read"} /\ Guard(p) = Mark(p) =>
           \A i \in Text : mem[at[p]][i] = <<Other(p), round[p] + 1>>
    /\ pc[p] = "read" => \A i \in Text \ todo[p] : buf[p][i] = <<Other(p), round[p] + 1>>
    /\ pc[p] = "write" => \A i \in Text \ todo[p] : mem[at[p]][i] = Fill(p)
Passed == \A p \in Proc : Gets(p)

InTurns ==
    InPlaces /\ NameFollows /\ ClientAlone /\ GreetsFresh /\ InStep /\ HeardInTurn /\ Passed

TurnInv == program \in GuardPrograms /\ ~disturbed => InTurns

(* The values of a byte differ.                                            *)
LEMMA MarksDiffer ==
  ASSUME DemoTypeOK
  PROVE  /\ Mark("server") # Mark("client") /\ \A p \in Proc : Zero # Mark(p)
         /\ \A p, q \in Proc : Fill(p) # Mark(q) /\ Fill(p) # Zero
<1>1. \A p \in Proc : round[p] \in Nat
  BY DemoAssumption DEF DemoTypeOK
<1> QED
  BY <1>1, Both DEF Mark, Zero, Fill

(* What a store leaves of the bytes of either process's memory             *)
LEMMA StoreSeen ==
  ASSUME GuardTypeOK, NEW p \in Proc, at[p] # 0, NEW i \in Offset, NEW b \in Byte, Store(p, i, b),
         NEW q \in Proc, at[q] # 0, at' = at
  PROVE  /\ Guard(q)' = IF i = 0 /\ at[q] = at[p] THEN b ELSE Guard(q)
         /\ \A j \in Text : mem'[at'[q]][j] = IF i = j /\ at[q] = at[p] THEN b ELSE mem[at[q]][j]
<1>1. at[q] \in 1 .. Len(mem) /\ Text \subseteq Offset /\ 0 \in Offset /\ 0 \notin Text
  BY Offsets DEF GuardTypeOK, Text
<1>2. CASE at[q] = at[p]
  BY <1>1, <1>2, StoreChangesByte DEF Guard
<1>3. CASE at[q] # at[p]
  BY <1>1, <1>3, StoreChangesByte DEF Guard
<1> QED
  BY <1>2, <1>3

(* Before a program is started they are in step.                           *)
LEMMA TurnStarts == Init => TurnInv
BY Both DEF Init, DemoInit, GuardInit, TurnInv, InTurns, InPlaces, NameFollows, ClientAlone, GreetsFresh,
   InStep, HeardInTurn, ClientAhead, Passed, Gets, Alone, Together, rs, rc, hs, hc

\* A state of an undisturbed run of the shm or mmap demo
Undisturbed ==
    /\ program \in GuardPrograms /\ ~disturbed /\ InTurns
    /\ DemoTypeOK /\ GuardTypeOK /\ RoundsLeft /\ GuardNamesHolder

(* Taking the name away                                                    *)
LEMMA UnlinkInTurns ==
  ASSUME Undisturbed, Unlink
  PROVE  InTurns'
<1>1. /\ pc["server"] = "unlink" /\ pc' = [pc EXCEPT !["server"] = "hello"] /\ named' = 0
      /\ UNCHANGED <<program, round, heard, mem, at, todo, buf>>
  BY DEF Unlink, Goto
<1>2. pc'["server"] = "hello" /\ pc'["client"] = pc["client"] /\ at["server"] # 0
  BY <1>1, Both DEF Undisturbed, DemoTypeOK, GuardTypeOK
<1>3. InPlaces' /\ NameFollows' /\ ClientAlone' /\ GreetsFresh'
  BY <1>1, <1>2, Both DEF Undisturbed, InTurns, InPlaces, NameFollows, ClientAlone, GreetsFresh, Alone, Guard,
     Mark, rc
<1>4. InStep' /\ HeardInTurn'
  BY <1>1, <1>2, Both DEF Undisturbed, InTurns, InStep, Together, ClientAwaits, HeardInTurn,
     ClientAhead, Guard, Mark, rs, rc, hs, hc
<1>5. Passed'
  BY <1>1, <1>2, Both DEF Undisturbed, InTurns, Passed, Gets, Guard, Mark, Fill, Text, Payload
<1> QED
  BY <1>3, <1>4, <1>5 DEF InTurns

(* The first value of the guard                                            *)
LEMMA GreetInTurns ==
  ASSUME Undisturbed, Greet
  PROVE  InTurns'
<1>0. DemoTypeOK /\ GuardTypeOK /\ RoundsLeft /\ InTurns /\ program \in GuardPrograms
  BY DEF Undisturbed
<1>1. PICK place \in {"wait", "detach"} : pc' = [pc EXCEPT !["client"] = place]
  BY DEF Greet, Goto, Enter
<1>2. /\ pc["client"] = "greet" /\ Store("client", 0, Mark("server"))
      /\ UNCHANGED <<program, round, heard, named, at, todo, buf>>
  BY DEF Greet, Goto
<1>3. /\ pc'["server"] = pc["server"] /\ pc'["client"] = place /\ at["client"] # 0 /\ rc = 0
      /\ pc["server"] # "off" <=> at["server"] # 0
  BY <1>0, <1>1, <1>2, Both DEF DemoTypeOK, GuardTypeOK, RoundsLeft, rc
<1>4. /\ Guard("client")' = Mark("server")
      /\ at["server"] # 0 =>
           Guard("server")' = IF Together THEN Mark("server") ELSE Guard("server")
      /\ at["server"] # 0 => \A j \in Text : mem'[at'["server"]][j] = mem[at["server"]][j]
  <2>1. Mark("server") \in Byte /\ 0 \in Offset /\ 0 \notin Text
    BY <1>0, Both, BytesOf, Offsets DEF Text
  <2> QED
    BY <1>0, <1>2, <1>3, <2>1, Both, StoreSeen DEF Together
<1>5. Together => pc["server"] \in {"unlink", "hello"}
  BY <1>0, <1>2, <1>3, Both DEF InTurns, InPlaces, InStep, Together, ClientAwaits, GuardTypeOK
<1>6. Guard("client") = Zero /\ Zero # Mark("server") /\ UNCHANGED <<Mark("server"), Mark("client")>>
  BY <1>0, <1>2, Both, MarksDiffer DEF InTurns, GreetsFresh, Mark
<1>7. InPlaces' /\ NameFollows' /\ ClientAlone' /\ GreetsFresh'
  BY <1>0, <1>1, <1>2, <1>3, <1>4, <1>5, <1>6, Both
  DEF InTurns, InPlaces, NameFollows, ClientAlone, GreetsFresh, Alone, Together, Other, rc
<1>8. InStep' /\ HeardInTurn'
  BY <1>0, <1>1, <1>2, <1>3, <1>4, <1>5, <1>6, Both
  DEF InTurns, InPlaces, InStep, Together, ClientAwaits, HeardInTurn, ClientAhead, rs, rc, hs, hc
<1>9. Passed'
  <2>1. Mark("server") # Mark("client")
    BY <1>0, MarksDiffer
  <2> QED
    BY <1>0, <1>1, <1>2, <1>3, <1>4, <1>5, <1>6, <2>1, Both
    DEF InTurns, Passed, Gets, Together, Fill, Text, Payload
<1> QED
  BY <1>7, <1>8, <1>9 DEF InTurns

(* The end of the server's wait for that first value                       *)
LEMMA HelloInTurns ==
  ASSUME Undisturbed, Hello
  PROVE  InTurns'
<1>0. DemoTypeOK /\ GuardTypeOK /\ RoundsLeft /\ InTurns /\ program \in GuardPrograms
  BY DEF Undisturbed
<1>1. PICK place \in {"write", "detach"} : pc' = [pc EXCEPT !["server"] = place]
  BY DEF Hello, Goto, Enter
<1>2. /\ pc["server"] = "hello" /\ Guard("server") = Mark("server")
      /\ todo' = [todo EXCEPT !["server"] = Payload]
      /\ UNCHANGED <<program, round, heard, mem, named, at, buf>>
  BY DEF Hello, Goto
<1>3. /\ pc'["client"] = pc["client"] /\ pc'["server"] = place /\ at["server"] # 0 /\ rs = 0
      /\ todo'["server"] = Payload /\ todo'["client"] = todo["client"]
      /\ Zero # Mark("server") /\ \A p \in Proc : Mark(p)' = Mark(p) /\ Fill(p)' = Fill(p)
      /\ \A p \in Proc : Guard(p)' = Guard(p)
  BY <1>0, <1>1, <1>2, Both, MarksDiffer
  DEF DemoTypeOK, GuardTypeOK, RoundsLeft, Mark, Fill, Guard, rs
<1>4. InPlaces' /\ NameFollows' /\ ClientAlone' /\ GreetsFresh'
  BY <1>0, <1>1, <1>2, <1>3, Both
  DEF InTurns, InPlaces, NameFollows, ClientAlone, GreetsFresh, Alone, Other, rc
<1>5. Together => ClientAwaits(0) /\ (pc["client"] = "wait" => Guard("client") = Mark("server"))
  BY <1>0, <1>2, <1>3, Both
  DEF InTurns, InPlaces, InStep, GreetsFresh, Together, ClientAwaits, Guard, DemoTypeOK
<1>6. InStep' /\ HeardInTurn'
  BY <1>0, <1>1, <1>2, <1>3, <1>5, Both
  DEF InTurns, InStep, Together, ClientAwaits, HeardInTurn, ClientAhead, rs, rc, hs, hc
<1>7. Passed'
  <2>1. Text' = Text /\ Text \ Payload = {}
    BY <1>2 DEF Text, Payload
  <2>2. Gets("client")' /\ Gets("server")'
    BY <1>0, <1>1, <1>2, <1>3, <2>1, Both DEF InTurns, Passed, Gets
  <2> QED
    BY <2>2, Both DEF Passed
<1> QED
  BY <1>4, <1>6, <1>7 DEF InTurns

(* While the server writes, the client's guard is not its own.             *)
LEMMA ServerWrites ==
  ASSUME Undisturbed, pc["server"] \in {"write", "read"}
  PROVE  pc["client"] \notin {"write", "read"}
BY Both DEF Undisturbed, InTurns, InStep, ClientAlone, Alone, Together, Other, ClientAwaits,
   InPlaces, GuardTypeOK

(* A byte of the memset                                                    *)
LEMMA WriteByteInTurns ==
  ASSUME Undisturbed, GuardNamesHolder', NEW p \in Proc, WriteByte(p)
  PROVE  InTurns'
<1>0. DemoTypeOK /\ GuardTypeOK /\ RoundsLeft /\ InTurns /\ program \in GuardPrograms
      /\ GuardNamesHolder
  BY DEF Undisturbed
<1>1. PICK i \in todo[p] : Store(p, i, Fill(p)) /\ todo' = [todo EXCEPT ![p] = @ \ {i}]
  BY DEF WriteByte
<1>2. /\ pc[p] = "write" /\ UNCHANGED <<program, pc, round, heard, named, at, buf>>
  BY DEF WriteByte, demoVars
<1>3. Holds(p) /\ at[p] # 0 /\ i \in Offset /\ \A q \in Proc : pc[q] # "off" <=> at[q] # 0
  BY <1>0, <1>1, <1>2 DEF Holds, GuardTypeOK
<1>4. Fill(p) \in Byte /\ \A q \in Proc : Fill(p) # Mark(q) /\ Fill(p) # Zero
  BY <1>0, <1>3, BytesOf, MarksDiffer
<1>5. \A q \in Proc : at[q] # 0 =>
         /\ Guard(q)' = IF i = 0 /\ at[q] = at[p] THEN Fill(p) ELSE Guard(q)
         /\ \A j \in Text : mem'[at'[q]][j] =
                IF i = j /\ at[q] = at[p] THEN Fill(p) ELSE mem[at[q]][j]
  BY <1>0, <1>1, <1>2, <1>3, <1>4, StoreSeen
<1>6. \A q \in Proc : Mark(q)' = Mark(q) /\ Fill(q)' = Fill(q)
  BY <1>2 DEF Mark, Fill
<1>7. at[Other(p)] = at[p] => /\ pc[Other(p)] \in {"wait", "detach"}
                              /\ p = "client" => pc["server"] = "wait"
                              /\ Guard(p) # Mark(Other(p))
  <2>1. Guard(p)[1] = p
    BY <1>0, <1>3 DEF GuardNamesHolder, Guard
  <2>2. Guard(p) # Mark(Other(p))
    BY <2>1, Both DEF Mark, Other
  <2>3. at[Other(p)] = at[p] => Together /\ Guard(Other(p)) = Guard(p)
    BY <1>3, Both DEF Together, Other, Guard
  <2> QED
    BY <1>0, <1>2, <1>3, <2>2, <2>3, Both
    DEF InTurns, InPlaces, InStep, ClientAwaits, Other
<1>8. p = "client" => Together
  BY <1>0, <1>2, <1>3, Both DEF InTurns, ClientAlone, Alone, Together, Other
<1>9. InPlaces' /\ NameFollows' /\ ClientAlone' /\ GreetsFresh'
  BY <1>0, <1>2, <1>3, <1>4, <1>5, <1>6, <1>7, <1>8, Both
  DEF InTurns, InPlaces, NameFollows, ClientAlone, GreetsFresh, Alone, Other, rc
<1>10. InStep' /\ HeardInTurn'
  BY <1>0, <1>2, <1>3, <1>4, <1>5, <1>6, <1>7, <1>8, Both
  DEF InTurns, InPlaces, InStep, Together, ClientAwaits, HeardInTurn, ClientAhead, Other,
      rs, rc, hs, hc
<1>11. Passed'
  <2>1. Text' = Text
    BY <1>2 DEF Text, Payload
  <2>2. Gets(p)'
    BY <1>0, <1>1, <1>2, <1>3, <1>5, <1>6, <2>1 DEF InTurns, Passed, Gets, GuardTypeOK
  <2>3. ASSUME NEW q \in Proc, q = Other(p) PROVE Gets(q)'
    <3>1. todo'[q] = todo[q]
      BY <1>0, <1>1, <2>3, Both DEF Other, GuardTypeOK
    <3>2. CASE at[q] = at[p]
      <4>1. Guard(q)' # Mark(q)' /\ pc'[q] \in {"wait", "detach"}
        BY <1>2, <1>3, <1>4, <1>5, <1>6, <1>7, <2>3, <3>2 DEF Guard
      <4> QED
        BY <4>1 DEF Gets
    <3>3. CASE at[q] # at[p]
      BY <1>0, <1>2, <1>3, <1>5, <1>6, <2>1, <3>1, <3>3 DEF InTurns, Passed, Gets
    <3> QED
      BY <3>2, <3>3
  <2> QED
    BY <2>2, <2>3 DEF Passed, Other, Proc
<1> QED
  BY <1>9, <1>10, <1>11 DEF InTurns

(* A process in its program has memory.                                    *)
LEMMA Mapped ==
  ASSUME Undisturbed
  PROVE  \A q \in Proc : pc[q] # "off" <=> at[q] # 0
BY DEF Undisturbed, GuardTypeOK

(* The client exchanges messages only with a server that waits for it.     *)
LEMMA ClientHolds ==
  ASSUME Undisturbed,
         \/ pc["client"] \in {"read", "write"}
         \/ pc["client"] = "wait" /\ Guard("client") = Mark("client")
  PROVE  /\ Together /\ pc["server"] = "wait" /\ rc = rs
         /\ Guard("server") = Guard("client") /\ Guard("server") # Mark("server")
<1>0. DemoTypeOK /\ GuardTypeOK /\ InTurns /\ GuardNamesHolder
  BY DEF Undisturbed
<1>1. pc["client"] # "off" /\ at["client"] # 0
  BY Mapped, Both
<1>2. Mark("server") # Mark("client")
  BY <1>0, MarksDiffer
<1>3. Together
  BY <1>0, <1>1, <1>2, Both DEF InTurns, ClientAlone, Alone, Together, Other
<1>4. Guard("server") = Guard("client") /\ at["server"] # 0
  BY <1>3 DEF Together, Guard
<1>5. Guard("client")[1] = "client"
  BY <1>0, <1>2, Both DEF GuardNamesHolder, Holds, Guard, Mark, InTurns, Passed, Gets
<1>6. Guard("server") # Mark("server")
  BY <1>4, <1>5, Both DEF Mark
<1>7. pc["server"] \notin {"write", "read"}
  BY <1>0, <1>4, <1>5, Both DEF GuardNamesHolder, Holds, Guard
<1>8. pc["server"] = "wait" /\ rc = rs
  BY <1>0, <1>1, <1>3, <1>4, <1>6, <1>7, Both, Mapped DEF InTurns, InPlaces, InStep
<1> QED
  BY <1>3, <1>4, <1>6, <1>8

(* The server's notify                                                     *)
LEMMA ServerNotifyInTurns ==
  ASSUME Undisturbed, Notify("server")
  PROVE  InTurns'
<1>0. DemoTypeOK /\ GuardTypeOK /\ RoundsLeft /\ InTurns /\ program \in GuardPrograms
      /\ GuardNamesHolder
  BY DEF Undisturbed
<1>1. /\ pc["server"] = "write" /\ todo["server"] = {} /\ Store("server", 0, Mark("client"))
      /\ pc' = [pc EXCEPT !["server"] = "wait"]
      /\ UNCHANGED <<program, round, heard, named, at, todo, buf>>
  BY Both DEF Notify, Goto, Other
<1>2. /\ pc'["server"] = "wait" /\ pc'["client"] = pc["client"] /\ at["server"] # 0
      /\ \A q \in Proc : pc[q] # "off" <=> at[q] # 0
      /\ \A q \in Proc : Mark(q)' = Mark(q) /\ Fill(q)' = Fill(q)
      /\ Mark("server") # Mark("client")
  BY <1>0, <1>1, Both, Mapped, MarksDiffer DEF DemoTypeOK, Mark, Fill
<1>3. \A q \in Proc : at[q] # 0 =>
         /\ Guard(q)' = IF at[q] = at["server"] THEN Mark("client") ELSE Guard(q)
         /\ \A j \in Text : mem'[at'[q]][j] = mem[at[q]][j]
  <2>1. Mark("client") \in Byte /\ 0 \in Offset /\ 0 \notin Text
    BY <1>0, Both, BytesOf, Offsets DEF Text
  <2> QED
    BY <1>0, <1>1, <1>2, <2>1, Both, StoreSeen
<1>4. /\ pc["client"] \notin {"read", "write"}
      /\ Together => /\ pc["client"] \in {"wait", "detach"} /\ (pc["client"] = "wait" => rc = rs)
                     /\ at["client"] = at["server"]
  <2>1. rs \in Nat
    BY <1>0, DemoAssumption, Both DEF DemoTypeOK, rs
  <2> QED
    BY <1>0, <1>1, <2>1, ServerWrites DEF InTurns, InStep, ClientAwaits, Together
<1>5. InPlaces' /\ NameFollows' /\ ClientAlone' /\ GreetsFresh'
  <2>1. Together => pc["client"] # "greet"
    BY <1>0, <1>1 DEF InTurns, InStep, ClientAwaits
  <2> QED
    BY <1>0, <1>1, <1>2, <1>3, <2>1, Both
    DEF InTurns, InPlaces, NameFollows, ClientAlone, GreetsFresh, Alone, Together, Other, rc
<1>6. InStep' /\ HeardInTurn'
  BY <1>0, <1>1, <1>2, <1>3, <1>4, Both
  DEF InTurns, InStep, Together, ClientAwaits, HeardInTurn, ClientAhead, rs, rc, hs, hc
<1>7. Passed'
  <2>1. Text' = Text
    BY <1>1 DEF Text, Payload
  <2>2. Gets("server")'
    BY <1>2, <1>3, Both DEF Gets
  <2>3. Gets("client")'
    <3>1. CASE Together
      <4>1. pc["client"] = "wait" => rc = rs
        BY <1>4, <3>1
      <4>2. at["client"] = at["server"]
        BY <3>1 DEF Together
      <4>3. \A j \in Text : mem[at["server"]][j] = Fill("server")
        BY <1>0, <1>1, Both DEF InTurns, Passed, Gets
      <4> QED
        BY <1>1, <1>2, <1>3, <1>4, <2>1, <4>1, <4>2, <4>3, Both DEF Gets, Fill, Other, rs, rc
    <3>2. CASE ~Together
      BY <1>0, <1>1, <1>2, <1>3, <1>4, <2>1, <3>2, Both
      DEF InTurns, Passed, Gets, Together
    <3> QED
      BY <3>1, <3>2
  <2> QED
    BY <2>2, <2>3, Both DEF Passed
<1> QED
  BY <1>5, <1>6, <1>7 DEF InTurns

(* The client's notify                                                     *)
LEMMA ClientNotifyInTurns ==
  ASSUME Undisturbed, Notify("client")
  PROVE  InTurns'
<1>0. DemoTypeOK /\ GuardTypeOK /\ RoundsLeft /\ InTurns /\ program \in GuardPrograms
      /\ GuardNamesHolder
  BY DEF Undisturbed
<1>1. PICK place \in {"wait", "detach"} : pc' = [pc EXCEPT !["client"] = place]
  BY Both DEF Notify, NextRound
<1>2. /\ pc["client"] = "write" /\ todo["client"] = {} /\ Store("client", 0, Mark("server"))
      /\ round' = [round EXCEPT !["client"] = @ + 1]
      /\ UNCHANGED <<program, heard, named, at, todo, buf>>
  BY Both DEF Notify, NextRound, Other
<1>3. /\ pc'["client"] = place /\ pc'["server"] = pc["server"] /\ at["client"] # 0
      /\ rc' = rc + 1 /\ rs' = rs
      /\ \A q \in Proc : pc[q] # "off" <=> at[q] # 0
      /\ \A q \in Proc : Mark(q)' = Mark(q)
      /\ Mark("server") # Mark("client")
  BY <1>0, <1>1, <1>2, Both, Mapped, MarksDiffer DEF DemoTypeOK, Mark, rs, rc
<1>4. Together /\ at["client"] = at["server"] /\ pc["server"] = "wait" /\ rc = rs
      /\ Guard("server") # Mark("server")
  BY <1>2, ClientHolds DEF Together
<1>5. \A q \in Proc :
         /\ Guard(q)' = Mark("server")
         /\ \A j \in Text : mem'[at'[q]][j] = mem[at[q]][j]
  <2>1. Mark("server") \in Byte /\ 0 \in Offset /\ 0 \notin Text
    BY <1>0, Both, BytesOf, Offsets DEF Text
  <2> QED
    BY <1>0, <1>2, <1>3, <1>4, <2>1, Both, StoreSeen
<1>6. InPlaces' /\ NameFollows' /\ ClientAlone' /\ GreetsFresh'
  BY <1>0, <1>1, <1>2, <1>3, <1>4, <1>5, Both
  DEF InTurns, InPlaces, NameFollows, ClientAlone, GreetsFresh, Alone, Together, Other
<1>7. InStep' /\ HeardInTurn'
  BY <1>0, <1>1, <1>2, <1>3, <1>4, <1>5, Both
  DEF InTurns, InStep, Together, ClientAwaits, HeardInTurn, ClientAhead, hs, hc
<1>8. Passed'
  <2>1. Text' = Text
    BY <1>2 DEF Text, Payload
  <2>2. Gets("client")'
    BY <1>3, <1>5, Both DEF Gets
  <2>3. \A j \in Text : mem[at["client"]][j] = Fill("client")
    BY <1>0, <1>2, Both DEF InTurns, Passed, Gets
  <2>4. Gets("server")'
    BY <1>2, <1>3, <1>4, <1>5, <2>1, <2>3, Both DEF Gets, Fill, Other, rs, rc
  <2> QED
    BY <2>2, <2>4, Both DEF Passed
<1> QED
  BY <1>6, <1>7, <1>8 DEF InTurns

(* The end of a wait for the guard                                         *)
LEMMA AwaitInTurns ==
  ASSUME Undisturbed, NEW p \in Proc, Await(p)
  PROVE  InTurns'
<1>0. DemoTypeOK /\ GuardTypeOK /\ RoundsLeft /\ InTurns /\ program \in GuardPrograms
      /\ GuardNamesHolder
  BY DEF Undisturbed
<1>1. /\ pc[p] = "wait" /\ Guard(p) = Mark(p) /\ pc' = [pc EXCEPT ![p] = "read"]
      /\ todo' = [todo EXCEPT ![p] = Payload]
      /\ UNCHANGED <<program, round, heard, mem, named, at, buf>>
  BY DEF Await, Goto
<1>2. /\ pc'[p] = "read" /\ todo'[p] = Payload
      /\ \A q \in Proc \ {p} : pc'[q] = pc[q] /\ todo'[q] = todo[q]
      /\ \A q \in Proc : Mark(q)' = Mark(q) /\ Fill(q)' = Fill(q) /\ Guard(q)' = Guard(q)
      /\ \A q \in Proc : pc[q] # "off" <=> at[q] # 0
      /\ UNCHANGED <<rs, rc, hs, hc>>
  BY <1>0, <1>1, Mapped DEF DemoTypeOK, GuardTypeOK, Mark, Fill, Guard, rs, rc, hs, hc
<1>3. p = "client" => /\ Together /\ pc["server"] = "wait" /\ rc = rs
                      /\ Guard("server") # Mark("server")
  BY <1>1, ClientHolds
<1>4. InPlaces' /\ NameFollows' /\ ClientAlone' /\ GreetsFresh'
  BY <1>0, <1>1, <1>2, <1>3, Both
  DEF InTurns, InPlaces, NameFollows, ClientAlone, GreetsFresh, Alone, Together, Other
<1>5. InStep' /\ HeardInTurn'
  BY <1>0, <1>1, <1>2, <1>3, Both
  DEF InTurns, InStep, Together, ClientAwaits, HeardInTurn, ClientAhead
<1>6. Passed'
  <2>1. Text' = Text /\ Text \ Payload = {}
    BY <1>1 DEF Text, Payload
  <2>2. ASSUME NEW q \in Proc PROVE Gets(q)'
    BY <1>0, <1>1, <1>2, <2>1 DEF InTurns, Passed, Gets
  <2> QED
    BY <2>2 DEF Passed
<1> QED
  BY <1>4, <1>5, <1>6 DEF InTurns

(* A byte of the memcpy                                                    *)
LEMMA ReadByteInTurns ==
  ASSUME Undisturbed, NEW p \in Proc, ReadByte(p)
  PROVE  InTurns'
<1>0. DemoTypeOK /\ GuardTypeOK /\ RoundsLeft /\ InTurns /\ program \in GuardPrograms
  BY DEF Undisturbed
<1>1. PICK i \in todo[p] : /\ buf' = [buf EXCEPT ![p][i] = mem[at[p]][i]]
                           /\ todo' = [todo EXCEPT ![p] = @ \ {i}]
  BY DEF ReadByte
<1>2. /\ pc[p] = "read" /\ UNCHANGED <<program, pc, round, heard, mem, named, at>>
  BY DEF ReadByte, demoVars
<1>3. /\ \A q \in Proc : Mark(q)' = Mark(q) /\ Fill(q)' = Fill(q) /\ Guard(q)' = Guard(q)
      /\ UNCHANGED <<rs, rc, hs, hc>>
  BY <1>2 DEF Mark, Fill, Guard, rs, rc, hs, hc
<1>4. InPlaces' /\ NameFollows' /\ ClientAlone' /\ GreetsFresh'
  BY <1>0, <1>2, <1>3, Both
  DEF InTurns, InPlaces, NameFollows, ClientAlone, GreetsFresh, Alone, Other
<1>5. InStep' /\ HeardInTurn'
  BY <1>0, <1>2, <1>3, Both
  DEF InTurns, InStep, Together, ClientAwaits, HeardInTurn, ClientAhead
<1>6. Passed'
  <2>1. Text' = Text /\ Text \subseteq Offset
    BY <1>2, Offsets DEF Text, Payload
  <2>2. ASSUME NEW q \in Proc, q # p PROVE Gets(q)'
    BY <1>0, <1>1, <1>2, <1>3, <2>1, <2>2 DEF InTurns, Passed, Gets, GuardTypeOK
  <2>3. Gets(p)'
    <3>1. Gets(p)
      BY <1>0 DEF InTurns, Passed
    <3>2. \A j \in Text : mem[at[p]][j] = <<Other(p), round[p] + 1>>
      BY <1>2, <3>1 DEF Gets
    <3>3. \A j \in Text \ todo'[p] : buf'[p][j] = <<Other(p), round[p] + 1>>
      BY <1>0, <1>1, <1>2, <2>1, <3>1, <3>2 DEF Gets, GuardTypeOK
    <3> QED
      BY <1>2, <1>3, <2>1, <3>1, <3>2, <3>3 DEF Gets
  <2> QED
    BY <2>2, <2>3 DEF Passed
<1> QED
  BY <1>4, <1>5, <1>6 DEF InTurns

(* The client has heard the server's message, before the server hears the  *)
(* answer.                                                                 *)
LEMMA ClientHearsInTurn ==
  ASSUME Undisturbed, HaveRead("client")
  PROVE  InTurns' /\ hc = hs /\ heard' = [heard EXCEPT !["client"] = @ + 1]
<1>0. DemoTypeOK /\ GuardTypeOK /\ RoundsLeft /\ InTurns /\ program \in GuardPrograms
      /\ ~disturbed
  BY DEF Undisturbed
<1>1. /\ pc["client"] = "read" /\ pc' = [pc EXCEPT !["client"] = "write"]
      /\ todo' = [todo EXCEPT !["client"] = Payload]
      /\ heard' = [heard EXCEPT !["client"] = @ + 1]
      /\ UNCHANGED <<program, round, mem, named, at, buf>>
  BY <1>0 DEF HaveRead, Hear, Goto
<1>2. /\ pc'["client"] = "write" /\ pc'["server"] = pc["server"]
      /\ todo'["client"] = Payload /\ todo'["server"] = todo["server"]
      /\ \A q \in Proc : Mark(q)' = Mark(q) /\ Fill(q)' = Fill(q) /\ Guard(q)' = Guard(q)
      /\ rs' = rs /\ rc' = rc /\ hs' = hs /\ hc' = hc + 1 /\ hs \in Nat
  BY <1>0, <1>1, Both DEF DemoTypeOK, GuardTypeOK, Mark, Fill, Guard, rs, rc, hs, hc
<1>3. Together /\ pc["server"] = "wait" /\ rc = rs /\ Guard("server") # Mark("server")
  BY <1>1, ClientHolds
<1>4. InPlaces' /\ NameFollows' /\ ClientAlone' /\ GreetsFresh'
  BY <1>0, <1>1, <1>2, <1>3, Both
  DEF InTurns, InPlaces, NameFollows, ClientAlone, GreetsFresh, Alone, Together, Other
<1>5. ~ClientAhead /\ ClientAhead' /\ hc = hs
  BY <1>0, <1>1, <1>2, <1>3, Both DEF ClientAhead, InTurns, HeardInTurn
<1>6. InStep' /\ HeardInTurn'
  BY <1>1, <1>2, <1>3, <1>5, Both DEF InStep, Together, HeardInTurn
<1>7. Passed'
  <2>1. Text' = Text /\ Text \ Payload = {}
    BY <1>1 DEF Text, Payload
  <2>2. Gets("client")' /\ Gets("server")'
    BY <1>0, <1>1, <1>2, <2>1, Both DEF InTurns, Passed, Gets
  <2> QED
    BY <2>2, Both DEF Passed
<1> QED
  BY <1>1, <1>4, <1>5, <1>6, <1>7 DEF InTurns

(* The server has heard the answer of the client, which is ahead.          *)
LEMMA ServerHearsInTurn ==
  ASSUME Undisturbed, HaveRead("server")
  PROVE  InTurns' /\ hc = hs + 1 /\ heard' = [heard EXCEPT !["server"] = @ + 1]
<1>0. DemoTypeOK /\ GuardTypeOK /\ RoundsLeft /\ InTurns /\ program \in GuardPrograms
      /\ ~disturbed
  BY DEF Undisturbed
<1>1. PICK place \in {"write", "detach"} : pc' = [pc EXCEPT !["server"] = place]
  BY Both DEF HaveRead, NextRound
<1>2. /\ pc["server"] = "read" /\ round' = [round EXCEPT !["server"] = @ + 1]
      /\ todo' = [todo EXCEPT !["server"] = Payload]
      /\ heard' = [heard EXCEPT !["server"] = @ + 1]
      /\ UNCHANGED <<program, mem, named, at, buf>>
  BY <1>0, Both DEF HaveRead, Hear, NextRound
<1>3. /\ pc'["server"] = place /\ pc'["client"] = pc["client"]
      /\ todo'["server"] = Payload /\ todo'["client"] = todo["client"]
      /\ \A q \in Proc : Mark(q)' = Mark(q) /\ Guard(q)' = Guard(q)
      /\ Fill("client")' = Fill("client") /\ round'["client"] = round["client"]
      /\ rs' = rs + 1 /\ rc' = rc /\ hs' = hs + 1 /\ hc' = hc /\ hs \in Nat /\ rs \in Nat
      /\ Zero # Mark("server") /\ Guard("server") = Mark("server")
  BY <1>0, <1>1, <1>2, Both, MarksDiffer, DemoAssumption
  DEF DemoTypeOK, GuardTypeOK, InTurns, Passed, Gets, Mark, Fill, Guard, rs, rc, hs, hc
<1>4. Together => ClientAwaits(1) /\ Guard("client") = Mark("server")
  BY <1>0, <1>2, <1>3 DEF InTurns, InStep, Together, Guard
<1>5. pc["client"] \notin {"read", "write"}
  BY <1>2, ServerWrites
<1>6. InPlaces' /\ NameFollows' /\ ClientAlone' /\ GreetsFresh'
  BY <1>0, <1>1, <1>2, <1>3, <1>4, Both
  DEF InTurns, InPlaces, NameFollows, ClientAlone, GreetsFresh, Alone, Together, Other, rc
<1>7. ClientAhead /\ ~ClientAhead' /\ hc = hs + 1
  BY <1>0, <1>1, <1>2, <1>3, <1>5, Both DEF ClientAhead, InTurns, HeardInTurn
<1>8. InStep' /\ HeardInTurn'
  BY <1>1, <1>2, <1>3, <1>4, <1>7, Both DEF InStep, ClientAwaits, Together, HeardInTurn
<1>9. Passed'
  <2>1. Text' = Text /\ Text \ Payload = {}
    BY <1>2 DEF Text, Payload
  <2>2. Gets("client")' /\ Gets("server")'
    BY <1>0, <1>1, <1>2, <1>3, <2>1, Both DEF InTurns, Passed, Gets
  <2> QED
    BY <2>2, Both DEF Passed
<1> QED
  BY <1>2, <1>6, <1>7, <1>8, <1>9 DEF InTurns

(* Finding or making the memory leaves the other process's as it is.       *)
LEMMA AttachSees ==
  ASSUME Undisturbed, NEW p \in Proc, Attach(p)
  PROVE  /\ pc[p] = "off" /\ at[p] = 0 /\ named' # 0 /\ at'[p] = named'
         /\ pc'[p] = IF p = "client" THEN "greet"
                     ELSE IF program = "mmap" THEN "unlink" ELSE "hello"
         /\ round'[p] = 0 /\ UNCHANGED <<program, heard, todo, buf>>
         /\ \A q \in Proc : q # p => /\ pc'[q] = pc[q] /\ at'[q] = at[q] /\ round'[q] = round[q]
                                     /\ Fill(q)' = Fill(q)
         /\ \A q \in Proc : at[q] # 0 => Guard(q)' = Guard(q) /\ mem'[at'[q]] = mem[at[q]]
         /\ \A q \in Proc : Mark(q)' = Mark(q)
         /\ named = 0 => Guard(p)' = Zero /\ \A q \in Proc : at[q] # named'
         /\ named # 0 => named' = named /\ mem' = mem
<1>0. DemoTypeOK /\ GuardTypeOK /\ program \in GuardPrograms
  BY DEF Undisturbed
<1> DEFINE F == [Offset -> Byte]
           z == [i \in Offset |-> Zero]
<1>1. /\ pc[p] = "off" /\ at' = [at EXCEPT ![p] = named']
      /\ pc' = [pc EXCEPT ![p] = IF p = "client" THEN "greet"
                                 ELSE IF program = "mmap" THEN "unlink" ELSE "hello"]
      /\ round' = [round EXCEPT ![p] = 0] /\ UNCHANGED <<program, heard, todo, buf>>
      /\ named = 0 => mem' = Append(mem, z) /\ named' = Len(mem) + 1
      /\ named # 0 => UNCHANGED <<mem, named>>
  BY DEF Attach
<1>2. mem \in Seq(F) /\ Len(mem) \in Nat /\ z \in F /\ z[0] = Zero /\ \A q \in Proc : at[q] \in 0 .. Len(mem)
  BY <1>0, Offsets DEF GuardTypeOK, Byte
<1>3. /\ pc[p] = "off" /\ at[p] = 0 /\ at'[p] = named' /\ round'[p] = 0
      /\ pc'[p] = IF p = "client" THEN "greet"
                  ELSE IF program = "mmap" THEN "unlink" ELSE "hello"
      /\ \A q \in Proc : q # p => pc'[q] = pc[q] /\ at'[q] = at[q] /\ round'[q] = round[q]
  BY <1>0, <1>1 DEF DemoTypeOK, GuardTypeOK
<1>4. \A q \in Proc : Mark(q)' = Mark(q) /\ (q # p => Fill(q)' = Fill(q))
  BY <1>3 DEF Mark, Fill
<1> HIDE DEF F, z
<1>5. CASE named = 0
  <2>1. /\ mem'[Len(mem) + 1] = z /\ \A k \in 1 .. Len(mem) : mem'[k] = mem[k]
        /\ named' = Len(mem) + 1
    BY <1>1, <1>2, <1>5
  <2>2. \A q \in Proc : at[q] # 0 => at'[q] = at[q] /\ at[q] \in 1 .. Len(mem)
    BY <1>2, <1>3
  <2>3. \A q \in Proc : at[q] # 0 => Guard(q)' = Guard(q) /\ mem'[at'[q]] = mem[at[q]]
    BY <2>1, <2>2 DEF Guard
  <2>4. Guard(p)' = Zero
    BY <1>2, <1>3, <2>1 DEF Guard
  <2>5. named' # 0 /\ \A q \in Proc : at[q] # named'
    BY <1>2, <2>1
  <2> QED
    BY <1>1, <1>3, <1>4, <1>5, <2>3, <2>4, <2>5
<1>6. CASE named # 0
  <2>1. \A q \in Proc : at[q] # 0 => at'[q] = at[q]
    BY <1>3
  <2>2. mem' = mem /\ named' = named
    BY <1>1, <1>6
  <2>3. \A q \in Proc : at[q] # 0 => Guard(q)' = Guard(q) /\ mem'[at'[q]] = mem[at[q]]
    BY <2>1, <2>2 DEF Guard
  <2> QED
    BY <1>1, <1>3, <1>4, <1>6, <2>2, <2>3
<1> QED
  BY <1>5, <1>6

(* A client comes, to memory of its own or to a server that waits for it.  *)
LEMMA ClientAttachInTurns ==
  ASSUME Undisturbed, Attach("client")
  PROVE  InTurns'
<1>0. DemoTypeOK /\ GuardTypeOK /\ RoundsLeft /\ InTurns /\ program \in GuardPrograms
  BY DEF Undisturbed
<1>1. "client" \in Proc /\ \A q \in Proc : pc[q] # "off" <=> at[q] # 0
  BY Both, Mapped
<1> DEFINE p == "client"
<1>2. /\ pc[p] = "off" /\ at[p] = 0 /\ named' # 0 /\ at'[p] = named' /\ pc'[p] = "greet"
      /\ rc' = 0 /\ UNCHANGED <<program, heard, todo, buf, rs, hs, hc>>
      /\ pc'["server"] = pc["server"] /\ at'["server"] = at["server"]
      /\ round'["server"] = round["server"] /\ Fill("server")' = Fill("server")
      /\ at["server"] # 0 => /\ Guard("server")' = Guard("server")
                             /\ mem'[at'["server"]] = mem[at["server"]]
      /\ \A q \in Proc : Mark(q)' = Mark(q)
      /\ named = 0 => Guard(p)' = Zero /\ at["server"] # named'
      /\ named # 0 => named' = named /\ mem' = mem
  BY <1>1, AttachSees, Both DEF rs, rc, hs, hc
<1>3. named # 0 => /\ named = at["server"] /\ pc["server"] \in {"unlink", "hello"}
                   /\ Guard("server") = Zero /\ Guard(p)' = Zero
                   /\ program = "mmap" => pc["server"] = "unlink"
  BY <1>0, <1>2, Both DEF InTurns, NameFollows, Alone, Other, Guard
<1>4. Guard(p)' = Zero
  BY <1>2, <1>3
<1>5. InPlaces' /\ NameFollows' /\ ClientAlone' /\ GreetsFresh'
  BY <1>0, <1>1, <1>2, <1>3, <1>4, Both
  DEF InTurns, InPlaces, NameFollows, ClientAlone, GreetsFresh, Alone, Together, Other
<1>6. InStep'
  BY <1>1, <1>2, <1>3, <1>4 DEF InStep, Together
<1>7. HeardInTurn'
  <2>1. ClientAhead' <=> ClientAhead
    BY <1>1, <1>2, Both DEF ClientAhead
  <2> QED
    BY <1>0, <1>2, <2>1 DEF InTurns, HeardInTurn
<1>8. Passed'
  <2>1. Text' = Text
    BY <1>2 DEF Text, Payload
  <2>2. Gets("client")'
    BY <1>2 DEF Gets
  <2>3. Gets("server")'
    BY <1>0, <1>1, <1>2, <2>1, Both DEF InTurns, Passed, Gets, InPlaces
  <2> QED
    BY <2>2, <2>3, Both DEF Passed
<1> QED
  BY <1>5, <1>6, <1>7, <1>8 DEF InTurns

(* A server comes, to memory of its own or to a client that has not begun. *)
LEMMA ServerAttachInTurns ==
  ASSUME Undisturbed, Attach("server")
  PROVE  InTurns'
<1>0. DemoTypeOK /\ GuardTypeOK /\ RoundsLeft /\ InTurns /\ program \in GuardPrograms
  BY DEF Undisturbed
<1>1. "server" \in Proc /\ \A q \in Proc : pc[q] # "off" <=> at[q] # 0
  BY Both, Mapped
<1> DEFINE p == "server"
<1>2. /\ pc[p] = "off" /\ at[p] = 0 /\ named' # 0 /\ at'[p] = named'
      /\ pc'[p] = IF program = "mmap" THEN "unlink" ELSE "hello"
      /\ rs' = 0 /\ UNCHANGED <<program, heard, todo, buf, rc, hs, hc>>
      /\ pc'["client"] = pc["client"] /\ at'["client"] = at["client"]
      /\ round'["client"] = round["client"] /\ Fill("client")' = Fill("client")
      /\ at["client"] # 0 => /\ Guard("client")' = Guard("client")
                             /\ mem'[at'["client"]] = mem[at["client"]]
      /\ \A q \in Proc : Mark(q)' = Mark(q)
      /\ named = 0 => Guard(p)' = Zero /\ at["client"] # named'
      /\ named # 0 => named' = named /\ mem' = mem
  BY <1>1, AttachSees, Both DEF rs, rc, hs, hc
<1>3. named # 0 => named = at["client"] /\ rc = 0
  BY <1>0, <1>2, Both DEF InTurns, NameFollows, Alone, Other
<1>4. at["client"] # 0 => /\ pc["client"] \in {"greet", "wait", "detach"}
                          /\ pc["client"] = "wait" => Guard("client") = Mark("server")
  BY <1>0, <1>2, Both DEF InTurns, ClientAlone, Alone, Other
<1>5. InPlaces' /\ NameFollows' /\ ClientAlone' /\ GreetsFresh'
  BY <1>0, <1>1, <1>2, <1>3, <1>4, Both
  DEF InTurns, InPlaces, NameFollows, ClientAlone, GreetsFresh, Alone, Together, Other
<1>6. InStep'
  BY <1>1, <1>2, <1>3, <1>4, Both DEF InStep, Together
<1>7. HeardInTurn'
  <2>1. ~ClientAhead' /\ ~ClientAhead
    BY <1>1, <1>2, <1>4, Both DEF ClientAhead
  <2> QED
    BY <1>0, <1>2, <2>1 DEF InTurns, HeardInTurn
<1>8. Passed'
  <2>1. Text' = Text
    BY <1>2 DEF Text, Payload
  <2>2. Gets("server")'
    BY <1>2 DEF Gets
  <2>3. Gets("client")'
    BY <1>0, <1>1, <1>2, <2>1, Both DEF InTurns, Passed, Gets, InPlaces
  <2> QED
    BY <2>2, <2>3, Both DEF Passed
<1> QED
  BY <1>5, <1>6, <1>7, <1>8 DEF InTurns

(* Leaving: the name does not lead to memory that somebody has left.       *)
LEMMA DetachInTurns ==
  ASSUME Undisturbed, NEW p \in Proc, Detach(p)
  PROVE  InTurns'
<1>0. DemoTypeOK /\ GuardTypeOK /\ RoundsLeft /\ InTurns /\ program \in GuardPrograms
  BY DEF Undisturbed
<1>1. \A q \in Proc : pc[q] # "off" <=> at[q] # 0
  BY Mapped
<1>2. /\ pc[p] = "detach" /\ pc'[p] = "off" /\ at[p] # 0 /\ at'[p] = 0
      /\ UNCHANGED <<program, heard, mem, todo, buf, rs, rc, hs, hc>>
      /\ \A q \in Proc : q # p => pc'[q] = pc[q] /\ at'[q] = at[q]
      /\ \A q \in Proc : Mark(q)' = Mark(q) /\ Fill(q)' = Fill(q)
      /\ \A q \in Proc : q # p => Guard(q)' = Guard(q)
      /\ \A q \in Proc : round'[q] = round[q]
      /\ named' = IF program = "mmap" THEN IF p = "client" THEN 0 ELSE named
                  ELSE IF named = at[p] THEN 0 ELSE named
  BY <1>0, <1>1
  DEF Detach, Goto, DemoTypeOK, GuardTypeOK, Mark, Fill, Guard, rs, rc, hs, hc
<1>3. p = "server" => pc["client"] \in {"off", "greet", "wait", "detach"}
  BY <1>0, <1>1, <1>2, Both DEF InTurns, InPlaces, ClientAlone, InStep, Alone, Together, Other
<1>4. p = "server" /\ at["client"] # 0 =>
         (pc["client"] = "wait" => Guard("client") = Mark("server"))
  BY <1>0, <1>1, <1>2, Both DEF InTurns, ClientAlone, InStep, Alone, Together, Other
<1>5. InPlaces' /\ NameFollows' /\ ClientAlone' /\ GreetsFresh'
  <2>1. InPlaces' /\ GreetsFresh'
    BY <1>0, <1>2, Both DEF InTurns, InPlaces, GreetsFresh
  <2>2. ClientAlone'
    BY <1>0, <1>1, <1>2, <1>3, <1>4, Both
    DEF InTurns, ClientAlone, InStep, Alone, Together, Other
  <2>3. NameFollows'
    BY <1>0, <1>1, <1>2, Both DEF InTurns, NameFollows, Alone, Other
  <2> QED
    BY <2>1, <2>2, <2>3
<1>6. InStep'
  BY <1>1, <1>2, Both DEF InStep, Together
<1>7. HeardInTurn'
  <2>1. ClientAhead' <=> ClientAhead
    BY <1>2, Both DEF ClientAhead
  <2> QED
    BY <1>0, <1>2, <2>1 DEF InTurns, HeardInTurn
<1>8. Passed'
  <2>1. Text' = Text
    BY <1>2 DEF Text, Payload
  <2>2. ASSUME NEW q \in Proc PROVE Gets(q)'
    BY <1>0, <1>1, <1>2, <2>1 DEF InTurns, Passed, Gets
  <2> QED
    BY <2>2 DEF Passed
<1> QED
  BY <1>5, <1>6, <1>7, <1>8 DEF InTurns
-----------------------------------------------------------------------------
(* Every step keeps them in turns, and is a turn or silent.                *)
LEMMA TurnInductive ==
  ASSUME GuardInv, GuardInv', TurnInv, [Next]_vars, program' \in GuardPrograms
  PROVE  TurnInv' /\ Turn
<1>1. program \in GuardPrograms /\ UNCHANGED program /\ (GuardNext \/ UNCHANGED vars)
  BY OneProgram DEF EventNext, PipeNext, SocketNext, GuardPrograms, SocketPrograms
<1>2. program # "eventfd"
  BY <1>1 DEF GuardPrograms
<1>3. CASE UNCHANGED vars
  <2>1. UNCHANGED <<program, pc, round, disturbed, heard, mem, named, at, todo, buf>>
    BY <1>3 DEF vars, demoVars, guardVars
  <2>2. InTurns' <=> InTurns
    BY <2>1 DEF InTurns, InPlaces, NameFollows, ClientAlone, GreetsFresh, InStep, HeardInTurn,
       ClientAhead, ClientAwaits, Passed, Gets, Alone, Together, Guard, Mark, Fill, Zero, Text,
       Payload, rs, rc, hs, hc
  <2> QED
    BY <1>1, <2>1, <2>2 DEF TurnInv, Turn
<1>4. CASE GuardNext /\ disturbed
  <2>1. PICK p \in Proc : Attach(p) \/ GuardStep(p) \/ Kill(p)
    BY <1>4 DEF GuardNext
  <2>2. disturbed' /\ UNCHANGED heard
    BY <1>4, <2>1 DEF Attach, GuardStep, Kill, Unlink, Hello, Greet, WriteByte, Notify, Await,
       ReadByte, HaveRead, Hear, Detach, demoVars
  <2> QED
    BY <1>1, <2>2 DEF TurnInv, Turn
<1>5. CASE GuardNext /\ ~disturbed
  <2>0. Undisturbed
    BY <1>1, <1>5 DEF Undisturbed, TurnInv, GuardInv
  <2>1. PICK p \in Proc : Attach(p) \/ GuardStep(p) \/ Kill(p)
    BY <1>5 DEF GuardNext
  <2>2. CASE Kill(p)
    BY <2>2 DEF Kill, TurnInv, Turn
  <2>3. CASE HaveRead(p)
    <3>1. CASE p = "client"
      <4>1. InTurns' /\ Alternation!HearFirst
        BY <1>2, <2>0, <2>3, <3>1, Both, ClientHearsInTurn DEF Alternation!HearFirst, hs, hc
      <4> QED
        BY <1>1, <1>2, <4>1 DEF TurnInv, Turn, Alternation!Next
    <3>2. CASE p = "server"
      <4>1. InTurns' /\ Alternation!HearSecond("server")
        BY <1>2, <2>0, <2>3, <3>2, Both, ServerHearsInTurn DEF Alternation!HearSecond, hs, hc
      <4> QED
        BY <1>1, <1>2, <4>1, Both DEF TurnInv, Turn, Alternation!Next
    <3> QED
      BY <3>1, <3>2, Both
  <2>4. CASE ~Kill(p) /\ ~HaveRead(p)
    <3>1. UNCHANGED heard
      BY <2>1, <2>4 DEF Attach, GuardStep, Unlink, Hello, Greet, WriteByte, Notify, Await,
         ReadByte, Detach, demoVars
    <3>2. InTurns'
      BY <1>1, <2>0, <2>1, <2>4, Both, UnlinkInTurns, GreetInTurns, HelloInTurns, WriteByteInTurns,
         ServerNotifyInTurns, ClientNotifyInTurns, AwaitInTurns, ReadByteInTurns,
         ClientAttachInTurns, ServerAttachInTurns, DetachInTurns DEF GuardStep, GuardInv
    <3> QED
      BY <1>1, <3>1, <3>2 DEF TurnInv, Turn
  <2> QED
    BY <2>2, <2>3, <2>4
<1> QED
  BY <1>1, <1>3, <1>4, <1>5

(* Undisturbed, the two processes of the shm and mmap demos stay in turns. *)
THEOREM TurnInvHolds == Spec => []TurnInv
<1>1. GuardInv /\ GuardInv' /\ TurnInv /\ [Next]_vars => TurnInv'
  BY TurnInductive DEF TurnInv
<1> QED
  BY <1>1, TurnStarts, GuardInvHolds, PTL DEF Spec

(* What a process of the shm or mmap demo has copied out of the memory is  *)
(* the whole message the other side wrote in the same round, whichever of  *)
(* the two came first, however different the counts and the order of the   *)
(* bytes, and however many undisturbed runs there were before.             *)
THEOREM GuardRoundsMatch == Spec => []RoundsMatch
<1>1. TurnInv => RoundsMatch
  BY DEF TurnInv, InTurns, Passed, Gets, RoundsMatch, Text
<1> QED
  BY <1>1, TurnInvHolds, PTL

(* The shm and mmap demos implement the abstract turns, the client first.  *)
THEOREM GuardImplementsTurns == Spec /\ program \in GuardPrograms => ImplementsTurns
<1>1. Init /\ program \in GuardPrograms => Alternation!Init
  BY Both DEF Init, DemoInit, Alternation!Init, GuardPrograms
<1>2. program \in GuardPrograms /\ [Next]_vars => (program \in GuardPrograms)'
  BY OneProgram
<1>3. GuardInv /\ GuardInv' /\ TurnInv /\ [Next]_vars /\ (program \in GuardPrograms)' => Turn
  BY TurnInductive
<1> QED
  BY <1>1, <1>2, <1>3, GuardInvHolds, TurnInvHolds, PTL
  DEF Spec, ImplementsTurns, Alternation!Spec, Turn
=============================================================================
