----------------------------- MODULE LineProofs -----------------------------
(***************************************************************************)
(* Proofs about the line the user types: for any size of the buffer, any   *)
(* characters and any number of keys and messages, what is sent is what    *)
(* was typed, and a print that met no other step of the sending thread     *)
(* leaves the line on the terminal.                                        *)
(***************************************************************************)
EXTENDS LineBuf, SequenceTheorems, WellFoundedInduction, TLAPS

(* A set of numbers that is not empty has a least one.                     *)
LEMMA LeastNat ==
  ASSUME NEW T, T \subseteq Nat, T # {}
  PROVE  \E x \in T : \A y \in T : ~(y < x)
<1> DEFINE R == OpToRel(<, Nat)
<1>1. IsWellFoundedOn(R, Nat)
  BY NatLessThanWellFounded
<1>2. R = {ss \in Nat \X Nat : ss[1] < ss[2]}
  BY DEF OpToRel
<1> HIDE DEF R
<1>3. PICK x \in T : \A y \in T : ~ (<<y, x>> \in R)
  BY <1>1, WFMin
<1> QED
  BY <1>3, <1>2

(* A set that holds 0, and n + 1 with every n, holds every number.         *)
LEMMA SetInduction ==
  ASSUME NEW S, 0 \in S, \A n \in Nat : n \in S => n + 1 \in S
  PROVE  Nat \subseteq S
<1> SUFFICES ASSUME Nat \ S # {} PROVE FALSE
  OBVIOUS
<1>1. PICK x \in Nat \ S : \A y \in Nat \ S : ~(y < x)
  BY LeastNat
<1>2. x # 0 /\ x - 1 \in Nat
  BY <1>1
<1>3. x - 1 \in S
  BY <1>1, <1>2
<1> QED
  BY <1>1, <1>2, <1>3
-----------------------------------------------------------------------------
\* What Visible's function says of itself
Growing(f, s, m) ==
    f = [n \in 0 .. m |->
            IF n = 0 THEN <<>> ELSE IF s[n] = NUL THEN f[n - 1] ELSE Append(f[n - 1], s[n])]

(* Each value of that function follows from the one before it.             *)
LEMMA GrowingAt ==
  ASSUME NEW f, NEW s, NEW m \in Nat, Growing(f, s, m)
  PROVE  /\ f[0] = <<>>
         /\ \A n \in 1 .. m : f[n] = IF s[n] = NUL THEN f[n - 1] ELSE Append(f[n - 1], s[n])
<1> DEFINE next(n) ==
             IF n = 0 THEN <<>> ELSE IF s[n] = NUL THEN f[n - 1] ELSE Append(f[n - 1], s[n])
<1>1. f = [n \in 0 .. m |-> next(n)]
  BY DEF Growing
<1>2. 0 \in 0 .. m /\ \A n \in 1 .. m : n \in 0 .. m /\ n # 0
  OBVIOUS
<1> HIDE DEF next
<1>3. \A n \in 0 .. m : f[n] = next(n)
  BY <1>1
<1> QED
  BY <1>2, <1>3 DEF next

(* The function Visible defines by itself exists.                          *)
LEMMA GrowingExists ==
  ASSUME NEW s, NEW m \in Nat
  PROVE  \E f : Growing(f, s, m)
<1> DEFINE S == {k \in Nat : \E f : Growing(f, s, k)}
<1>1. 0 \in S
  <2>1. Growing([n \in 0 .. 0 |-> <<>>], s, 0)
    BY DEF Growing
  <2> QED
    BY <2>1
<1>2. ASSUME NEW k \in Nat, k \in S
      PROVE  k + 1 \in S
  <2>1. PICK f : Growing(f, s, k)
    BY <1>2
  <2> DEFINE last == IF s[k + 1] = NUL THEN f[k] ELSE Append(f[k], s[k + 1])
             g == [n \in 0 .. k + 1 |-> IF n = k + 1 THEN last ELSE f[n]]
             h == [n \in 0 .. k + 1 |->
                     IF n = 0 THEN <<>> ELSE IF s[n] = NUL THEN g[n - 1] ELSE Append(g[n - 1], s[n])]
  <2>2. ASSUME NEW n \in 0 .. k + 1 PROVE g[n] = h[n]
    <3>1. CASE n = 0
      BY <2>1, <3>1, GrowingAt
    <3>2. CASE n = k + 1
      BY <3>2
    <3>3. CASE n \in 1 .. k
      <4>1. g[n] = f[n] /\ g[n - 1] = f[n - 1]
        BY <3>3
      <4>2. f[n] = IF s[n] = NUL THEN f[n - 1] ELSE Append(f[n - 1], s[n])
        BY <2>1, <3>3, GrowingAt
      <4> QED
        BY <3>3, <4>1, <4>2
    <3> QED
      BY <3>1, <3>2, <3>3
  <2>3. g = h
    BY <2>2
  <2>4. Growing(g, s, k + 1)
    BY <2>3 DEF Growing
  <2> QED
    BY <2>4
<1>3. Nat \subseteq S
  <2> HIDE DEF S
  <2> QED
    BY <1>1, <1>2, SetInduction
<1> QED
  BY <1>3

(* What a terminal shows of a string are characters, and all of a string   *)
(* without a NUL.                                                          *)
LEMMA VisibleIs ==
  ASSUME NEW s \in Seq(Char \cup {NUL})
  PROVE  /\ Visible(s) \in Seq(Char)
         /\ s \in Seq(Char) => Visible(s) = s
<1> DEFINE first == CHOOSE f : Growing(f, s, Len(s))
<1>1. Growing(first, s, Len(s)) /\ Len(s) \in Nat
  <2>1. Len(s) \in Nat /\ \E f : Growing(f, s, Len(s))
    BY GrowingExists
  <2> QED
    BY <2>1, Zenon
<1>2. Visible(s) = first[Len(s)]
  BY DEF Visible, Growing
<1> HIDE DEF first
<1> DEFINE same(k) == Len(first[k]) = k /\ \A i \in 1 .. k : first[k][i] = s[i]
           S == {k \in Nat : k <= Len(s) =>
                                first[k] \in Seq(Char) /\ (s \in Seq(Char) => same(k))}
<1>3. 0 \in S
  <2>1. first[0] = <<>>
    BY <1>1, GrowingAt
  <2>2. first[0] \in Seq(Char) /\ same(0)
    BY <2>1
  <2> QED
    BY <2>2
<1>4. ASSUME NEW k \in Nat, k \in S
      PROVE  k + 1 \in S
  <2> SUFFICES ASSUME k + 1 <= Len(s)
               PROVE  /\ first[k + 1] \in Seq(Char)
                      /\ s \in Seq(Char) => same(k + 1)
    OBVIOUS
  <2>1. k + 1 \in 1 .. Len(s) /\ (k + 1) - 1 = k
    BY <1>1
  <2>2. first[k + 1] = IF s[k + 1] = NUL THEN first[k] ELSE Append(first[k], s[k + 1])
    BY <1>1, <2>1, GrowingAt
  <2>3. first[k] \in Seq(Char) /\ (s \in Seq(Char) => same(k))
    BY <1>1, <1>4, <2>1
  <2>4. CASE s[k + 1] = NUL
    BY <2>1, <2>2, <2>3, <2>4, LineAssumption
  <2>5. CASE s[k + 1] # NUL
    <3>1. s[k + 1] \in Char /\ first[k + 1] = Append(first[k], s[k + 1])
      BY <2>1, <2>2, <2>5
    <3>2. s \in Seq(Char) => same(k + 1)
      BY <2>3, <3>1
    <3> QED
      BY <2>3, <3>1, <3>2
  <2> QED
    BY <2>4, <2>5
<1>5. Len(s) \in S
  <2> HIDE DEF S
  <2> QED
    BY <1>1, <1>3, <1>4, SetInduction
<1>6. first[Len(s)] \in Seq(Char) /\ (s \in Seq(Char) => same(Len(s)))
  BY <1>1, <1>5
<1> QED
  BY <1>2, <1>6

(* A buffer with a NUL holds a string, which ends before the NUL.          *)
LEMMA StrLenIs ==
  ASSUME NEW b, NEW k \in Index, b[k] = NUL
  PROVE  /\ StrLen(b) \in Index /\ StrLen(b) <= k
         /\ b[StrLen(b)] = NUL /\ \A i \in Index : i < StrLen(b) => b[i] # NUL
         /\ (\A i \in Index : i < k => b[i] # NUL) => StrLen(b) = k
<1> DEFINE P(n) == b[n] = NUL /\ \A i \in Index : i < n => b[i] # NUL
           T == {n \in Index : b[n] = NUL}
<1>0. Index \subseteq Nat
  BY LineAssumption DEF Index
<1>1. PICK n \in T : \A j \in T : ~(j < n)
  BY <1>0, LeastNat
<1>2. n \in Index /\ P(n)
  BY <1>0, <1>1
<1>3. StrLen(b) \in Index /\ P(StrLen(b))
  <2>1. StrLen(b) = CHOOSE m \in Index : P(m)
    BY DEF StrLen
  <2> HIDE DEF P
  <2> QED
    BY <1>2, <2>1
<1>4. StrLen(b) \in Nat /\ k \in Nat
  BY <1>0, <1>3
<1>5. StrLen(b) <= k
  BY <1>3, <1>4
<1>6. ASSUME \A i \in Index : i < k => b[i] # NUL PROVE StrLen(b) = k
  BY <1>3, <1>4, <1>5, <1>6
<1> QED
  BY <1>3, <1>5, <1>6

(* A buffer that holds a line and a NUL after it holds that string.        *)
LEMMA StringIs ==
  ASSUME NEW b, NEW s \in Seq(Char), Len(s) \in Index, b[Len(s)] = NUL,
         \A i \in 1 .. Len(s) : b[i - 1] = s[i]
  PROVE  /\ StrLen(b) = Len(s) /\ String(b) = s
         /\ [i \in 1 .. Len(s) |-> b[i - 1]] = s
<1>1. Len(s) \in Nat /\ Index = 0 .. MAXLINE - 1 /\ MAXLINE \in Nat
  BY LineAssumption DEF Index
<1>2. ASSUME NEW i \in Index, i < Len(s) PROVE b[i] # NUL
  <2>1. i + 1 \in 1 .. Len(s) /\ (i + 1) - 1 = i
    BY <1>1, <1>2
  <2>2. b[i] = s[i + 1] /\ s[i + 1] \in Char
    BY <2>1
  <2> QED
    BY <2>2, LineAssumption
<1>3. StrLen(b) = Len(s)
  BY <1>2, StrLenIs
<1>4. [i \in 1 .. Len(s) |-> b[i - 1]] = s
  OBVIOUS
<1> QED
  BY <1>3, <1>4 DEF String

(* Cutting a line to a buffer leaves a line.                               *)
LEMMA CutIs ==
  ASSUME NEW s \in Seq(Char)
  PROVE  Cut(s) \in Seq(Char)
<1>1. CASE Len(s) < OutLen
  BY <1>1 DEF Cut
<1>2. CASE ~(Len(s) < OutLen)
  <2>1. OutLen - 1 \in 0 .. Len(s) /\ Cut(s) = SubSeq(s, 1, OutLen - 1)
    BY <1>2, LineAssumption DEF Cut
  <2> QED
    BY <2>1
<1> QED
  BY <1>1, <1>2

(* A sequence without its last element.                                    *)
LEMMA FrontIs ==
  ASSUME NEW C, NEW s \in Seq(C), s # <<>>
  PROVE  /\ Len(s) \in Nat \ {0}
         /\ Front(s) \in Seq(C) /\ Len(Front(s)) = Len(s) - 1
         /\ \A i \in 1 .. Len(s) - 1 : Front(s)[i] = s[i]
<1> DEFINE k == Len(s) - 1
<1>1. Len(s) \in Nat \ {0} /\ k \in 0 .. Len(s)
  BY EmptySeq
<1>2. Front(s) = SubSeq(s, 1, k)
  BY DEF Front
<1> HIDE DEF k
<1>3. /\ SubSeq(s, 1, k) \in Seq(C) /\ Len(SubSeq(s, 1, k)) = k
      /\ \A i \in 1 .. k : SubSeq(s, 1, k)[i] = s[i]
  BY <1>1
<1> QED
  BY <1>1, <1>2, <1>3 DEF k

(* Putting something in front of a sequence and changing its end commute.  *)
LEMMA EndOf ==
  ASSUME NEW C, NEW s \in Seq(C), NEW a, NEW c
  PROVE  /\ Append(<<a>> \o s, c) = <<a>> \o Append(s, c)
         /\ s # <<>> => /\ Len(s) > 0 /\ Front(s) \in Seq(C) /\ Len(Front(s)) = Len(s) - 1
                        /\ \A i \in 1 .. Len(s) - 1 : Front(s)[i] = s[i]
                        /\ Front(<<a>> \o s) = <<a>> \o Front(s)
<1>1. Append(<<a>> \o s, c) = <<a>> \o Append(s, c)
  OBVIOUS
<1>2. ASSUME s # <<>>
      PROVE  /\ Len(s) \in Nat \ {0}
             /\ Front(s) \in Seq(C) /\ Len(Front(s)) = Len(s) - 1
             /\ \A i \in 1 .. Len(s) - 1 : Front(s)[i] = s[i]
  BY <1>2, FrontIs
<1>3. ASSUME s # <<>> PROVE Front(<<a>> \o s) = <<a>> \o Front(s)
  <2> DEFINE D == C \cup {a}
             t == <<a>> \o s
             u == <<a>> \o Front(s)
  <2>1. t \in Seq(D) /\ Len(t) = Len(s) + 1
        /\ \A i \in 1 .. Len(t) : t[i] = IF i = 1 THEN a ELSE s[i - 1]
    OBVIOUS
  <2>2. u \in Seq(D) /\ Len(u) = Len(s)
        /\ \A i \in 1 .. Len(u) : u[i] = IF i = 1 THEN a ELSE Front(s)[i - 1]
    BY <1>2, <1>3
  <2> HIDE DEF t, u
  <2>3. Front(t) \in Seq(D) /\ Len(Front(t)) = Len(s)
        /\ \A i \in 1 .. Len(s) : Front(t)[i] = t[i]
    <3>1. Len(s) \in Nat /\ Len(<<>>) = 0
      OBVIOUS
    <3>2. t # <<>> /\ Len(t) - 1 = Len(s)
      BY <2>1, <3>1
    <3> QED
      BY <2>1, <3>2, FrontIs
  <2>4. ASSUME NEW i \in 1 .. Len(s) PROVE Front(t)[i] = u[i]
    <3>1. Len(s) \in Nat /\ i \in 1 .. Len(t) /\ i \in 1 .. Len(u) /\ Front(t)[i] = t[i]
      BY <2>1, <2>2, <2>3
    <3>2. CASE i = 1
      BY <2>1, <2>2, <3>1, <3>2
    <3>3. CASE i # 1
      <4>1. i - 1 \in 1 .. Len(s) - 1
        BY <3>1, <3>3
      <4>2. Front(s)[i - 1] = s[i - 1]
        BY <1>2, <1>3, <4>1
      <4> QED
        BY <2>1, <2>2, <3>1, <3>3, <4>2
    <3> QED
      BY <3>2, <3>3
  <2>5. Front(t) = u
    BY <2>2, <2>3, <2>4, SeqEqual
  <2> QED
    BY <2>5 DEF t, u
<1> QED
  BY <1>1, <1>2, <1>3

(* What a key does to the terminal leaves characters on it.                *)
LEMMA AfterKeyIs ==
  ASSUME NEW C, NEW s \in Seq(C), key \in C \cup {Erase}
  PROVE  AfterKey(s) \in Seq(C)
<1>1. CASE key # Erase
  BY <1>1 DEF AfterKey
<1>2. CASE key = Erase
  BY <1>2, EndOf DEF AfterKey
<1> QED
  BY <1>1, <1>2
-----------------------------------------------------------------------------
\* The first n bytes of buf are the line.
Typed(n) == Len(line) = n /\ \A i \in 1 .. n : buf[i - 1] = line[i]

(* Between two keys buf holds the line and a NUL; in the middle of a key   *)
(* the new character is there and the NUL is not yet.                      *)
BufferHolds ==
    /\ buf[MAXLINE - 1] = NUL
    /\ typist \in {"prompt", "printing", "key", "echo"} => Typed(pos) /\ buf[pos] = NUL
    /\ typist = "close" => pos < MAXLINE - 1 /\ Typed(pos + 1) /\ key \in Char
    /\ typist = "echo" => key \in Char \cup {Erase}
    /\ typist = "reset" => out = Cut(line)

(* A print that meets nothing finds the line and does not see it change.   *)
PrintHolds ==
    /\ typist \in {"prompt", "printing"} => pos = 0
    /\ print["send"] # "no" <=> typist = "printing"
    /\ ~clash =>
        /\ Arriving => typist = "key"
        /\ \A t \in Thread :
            /\ print[t] = "copy" => len[t] = pos
            /\ print[t] = "write" => copy[t] = line

(* While nothing arrives the terminal follows the keys.                    *)
ScreenHolds ==
    ~clash /\ ~Arriving =>
        /\ typist = "key" => screen = <<Prompt>> \o line
        /\ typist = "echo" => AfterKey(screen) = <<Prompt>> \o line
        /\ typist = "close" => Append(screen, key) = <<Prompt>> \o line

LineInv == TypeOK /\ BufferHolds /\ PrintHolds /\ ScreenHolds
-----------------------------------------------------------------------------
(* A step of the sending thread that is not marked met no message.         *)
LEMMA Unmarked ==
  ASSUME TypeOK, Meets, UNCHANGED printVars
  PROVE  /\ ~clash' => ~clash /\ ~Arriving /\ ~Arriving'
         /\ print' = print /\ len' = len /\ copy' = copy
<1>1. print' = print /\ len' = len /\ copy' = copy
  BY DEF printVars
<1>2. ~clash' => ~clash /\ ~Arriving
  BY DEF Meets
<1> QED
  BY <1>1, <1>2 DEF Arriving

(* The invariant holds before the first key.                               *)
LEMMA LineStarts == Init => LineInv
<1> SUFFICES ASSUME Init PROVE LineInv
  OBVIOUS
<1>1. 0 \in Index /\ MAXLINE - 1 \in Index
  BY LineAssumption DEF Index
<1>2. TypeOK
  <2>1. /\ <<>> \in Seq(Char) /\ <<>> \in Seq(Char \cup {NUL})
        /\ <<Prompt>> \in Seq(Char \cup {Prompt})
    OBVIOUS
  <2>2. 0 \in 0 .. MaxKeys /\ 0 \in 0 .. MaxPrints
    BY LineAssumption
  <2>3. copy \in [Thread -> Seq(Char \cup {NUL})] /\ len \in [Thread -> Index]
    BY <1>1, <2>1 DEF Init
  <2> QED
    BY <1>1, <2>1, <2>2, <2>3 DEF Init, TypeOK
<1>3. BufferHolds
  <2>1. Cut(<<>>) = <<>>
    BY LineAssumption DEF Cut
  <2> QED
    BY <1>1, <2>1 DEF Init, BufferHolds
<1>4. PrintHolds /\ ScreenHolds
  BY DEF Init, PrintHolds, ScreenHolds, Arriving, Thread
<1> QED
  BY <1>2, <1>3, <1>4 DEF LineInv

(* linebuf_reset empties the line and the buffer.                          *)
LEMMA ResetKeeps ==
  ASSUME LineInv, Reset
  PROVE  LineInv'
<1>0. TypeOK /\ BufferHolds /\ PrintHolds /\ ScreenHolds
  BY DEF LineInv
<1>1. 0 \in Index /\ MAXLINE - 1 \in Index
  BY LineAssumption DEF Index
<1>2. TypeOK'
  BY <1>0, <1>1 DEF TypeOK, Reset, Meets, Arriving, printVars
<1>3. BufferHolds'
  BY <1>0, <1>1, <1>2 DEF BufferHolds, Typed, TypeOK, Reset
<1>4. PrintHolds' /\ ScreenHolds'
  <2>1. Meets /\ UNCHANGED printVars /\ typist = "reset" /\ typist' = "prompt" /\ pos' = 0
    BY DEF Reset
  <2> QED
    BY <1>0, <2>1, Unmarked DEF PrintHolds, ScreenHolds, Arriving, Thread
<1> QED
  BY <1>2, <1>3, <1>4 DEF LineInv

(* The print of the empty line begins.                                     *)
LEMMA StartPromptKeeps ==
  ASSUME LineInv, StartPrompt
  PROVE  LineInv'
<1>0. TypeOK /\ BufferHolds /\ PrintHolds /\ ScreenHolds
  BY DEF LineInv
<1>1. TypeOK'
  BY <1>0 DEF TypeOK, StartPrompt, Arriving, Thread
<1>2. BufferHolds'
  BY <1>0 DEF BufferHolds, Typed, StartPrompt
<1>3. PrintHolds' /\ ScreenHolds'
  BY <1>0 DEF PrintHolds, ScreenHolds, TypeOK, StartPrompt, Arriving, Thread
<1> QED
  BY <1>1, <1>2, <1>3 DEF LineInv

(* A key without effect.                                                   *)
LEMMA IgnoreKeeps ==
  ASSUME LineInv, NEW k \in Char \cup {Enter, Erase}, Ignore(k)
  PROVE  LineInv'
<1>0. TypeOK /\ BufferHolds /\ PrintHolds /\ ScreenHolds
  BY DEF LineInv
<1>1. TypeOK'
  BY <1>0, LineAssumption DEF TypeOK, Ignore, Press, printVars
<1>2. BufferHolds'
  BY <1>0 DEF BufferHolds, Typed, Ignore, Press
<1>3. PrintHolds' /\ ScreenHolds'
  BY <1>0 DEF PrintHolds, ScreenHolds, Ignore, Press, printVars, Arriving
<1> QED
  BY <1>1, <1>2, <1>3 DEF LineInv

(* A character with room in the buffer is stored after the line.           *)
LEMMA TypeCharKeeps ==
  ASSUME LineInv, NEW k \in Char \cup {Enter, Erase}, TypeChar(k)
  PROVE  LineInv'
<1>0. TypeOK /\ BufferHolds /\ PrintHolds /\ ScreenHolds
  BY DEF LineInv
<1>1. /\ k \in Char /\ key' = k /\ line' = Append(line, k) /\ buf' = [buf EXCEPT ![pos] = k]
      /\ typist = "key" /\ typist' = "close" /\ Meets
      /\ UNCHANGED <<pos, out, printVars, screen>>
      /\ pos < MAXLINE - 1 /\ pos \in Nat /\ pos \in Index
      /\ MAXLINE - 1 \in Index /\ Index \subseteq Nat
  BY <1>0, LineAssumption DEF TypeChar, Press, Room, Meets, TypeOK, Index
<1>2. TypeOK'
  BY <1>0, <1>1, LineAssumption DEF TypeOK, TypeChar, Press, printVars, Meets, Arriving
<1>3. BufferHolds'
  <2>1. Len(line) = pos /\ line \in Seq(Char) /\ \A i \in 1 .. pos : buf[i - 1] = line[i]
    BY <1>0, <1>1 DEF BufferHolds, Typed, TypeOK
  <2>2. Len(line') = pos + 1 /\ line'[pos + 1] = k /\ \A i \in 1 .. pos : line'[i] = line[i]
    BY <1>1, <2>1
  <2>3. buf'[pos] = k /\ \A i \in Index : i # pos => buf'[i] = buf[i]
    BY <1>0, <1>1 DEF TypeOK
  <2>4. \A i \in 1 .. pos : i - 1 \in Index /\ i - 1 # pos
    BY <1>1, LineAssumption DEF Index
  <2>5. \A i \in 1 .. pos + 1 : buf'[i - 1] = line'[i]
    BY <1>1, <2>1, <2>2, <2>3, <2>4
  <2>6. buf'[MAXLINE - 1] = NUL
    BY <1>0, <1>1, <2>3 DEF BufferHolds
  <2> QED
    BY <1>1, <2>2, <2>5, <2>6 DEF BufferHolds, Typed
<1>4. PrintHolds'
  BY <1>0, <1>1, Unmarked DEF PrintHolds, Arriving, Thread
<1>5. ScreenHolds'
  <2>1. line \in Seq(Char)
    BY <1>0 DEF TypeOK
  <2> QED
    BY <1>0, <1>1, <2>1, Unmarked, EndOf DEF ScreenHolds
<1> QED
  BY <1>2, <1>3, <1>4, <1>5 DEF LineInv

(* The NUL after a new character.                                          *)
LEMMA CloseKeeps ==
  ASSUME LineInv, Close
  PROVE  LineInv'
<1>0. TypeOK /\ BufferHolds /\ PrintHolds /\ ScreenHolds
  BY DEF LineInv
<1>1. /\ pos' = pos + 1 /\ buf' = [buf EXCEPT ![pos + 1] = NUL]
      /\ typist = "close" /\ typist' = "echo" /\ Meets
      /\ UNCHANGED <<key, line, out, printVars, screen>>
      /\ pos + 1 \in Index /\ pos \in Nat /\ MAXLINE - 1 \in Index /\ Index \subseteq Nat
      /\ key \in Char /\ Typed(pos + 1)
  BY <1>0, LineAssumption DEF Close, Meets, TypeOK, BufferHolds, Index
<1>2. TypeOK'
  BY <1>0, <1>1 DEF TypeOK, Close, printVars, Meets, Arriving
<1>3. BufferHolds'
  <2>1. buf'[pos + 1] = NUL /\ \A i \in Index : i # pos + 1 => buf'[i] = buf[i]
    BY <1>0, <1>1 DEF TypeOK
  <2>2. \A i \in 1 .. pos + 1 : i - 1 \in Index /\ i - 1 # pos + 1
    BY <1>1, LineAssumption DEF Index
  <2>3. buf'[MAXLINE - 1] = NUL
    BY <1>0, <1>1, <2>1 DEF BufferHolds
  <2>4. ASSUME NEW i \in 1 .. pos + 1 PROVE buf'[i - 1] = line[i]
    BY <1>1, <2>1, <2>2 DEF Typed
  <2> QED
    BY <1>1, <2>1, <2>3, <2>4 DEF BufferHolds, Typed
<1>4. PrintHolds'
  BY <1>0, <1>1, Unmarked DEF PrintHolds, Arriving, Thread
<1>5. ScreenHolds'
  <2>1. key # Erase
    BY <1>1, LineAssumption
  <2> QED
    BY <1>0, <1>1, <2>1, Unmarked DEF ScreenHolds, AfterKey
<1> QED
  BY <1>2, <1>3, <1>4, <1>5 DEF LineInv

(* A backspace takes the last character off line and buffer.               *)
LEMMA EraseCharKeeps ==
  ASSUME LineInv, EraseChar
  PROVE  LineInv'
<1>0. TypeOK /\ BufferHolds /\ PrintHolds /\ ScreenHolds
  BY DEF LineInv
<1>1. /\ key' = Erase /\ line' = Front(line) /\ buf' = [buf EXCEPT ![pos - 1] = NUL]
      /\ pos' = pos - 1 /\ typist = "key" /\ typist' = "echo" /\ Meets
      /\ UNCHANGED <<out, printVars, screen>>
      /\ pos - 1 \in Index /\ pos \in Nat \ {0} /\ MAXLINE - 1 \in Index /\ Index \subseteq Nat
  BY <1>0, LineAssumption DEF EraseChar, Press, TypeOK, Index
<1>2. Len(line) = pos /\ line \in Seq(Char) /\ \A i \in 1 .. pos : buf[i - 1] = line[i]
  BY <1>0, <1>1 DEF BufferHolds, Typed, TypeOK
<1>3. /\ line # <<>> /\ line' \in Seq(Char) /\ Len(line') = pos - 1
      /\ \A i \in 1 .. pos - 1 : line'[i] = line[i]
  <2>1. line # <<>>
    BY <1>1, <1>2, EmptySeq
  <2> QED
    BY <1>1, <1>2, <2>1, FrontIs
<1>4. TypeOK'
  BY <1>0, <1>1, <1>3, LineAssumption DEF TypeOK, EraseChar, Press, printVars, Meets, Arriving
<1>5. BufferHolds'
  <2>1. buf'[pos - 1] = NUL /\ \A i \in Index : i # pos - 1 => buf'[i] = buf[i]
    BY <1>0, <1>1 DEF TypeOK
  <2>2. \A i \in 1 .. pos - 1 : i - 1 \in Index /\ i - 1 # pos - 1 /\ i \in 1 .. pos
    BY <1>1, LineAssumption DEF Index
  <2>3. buf'[MAXLINE - 1] = NUL
    BY <1>0, <1>1, <2>1 DEF BufferHolds
  <2>4. ASSUME NEW i \in 1 .. pos - 1 PROVE buf'[i - 1] = line'[i]
    BY <1>2, <1>3, <2>1, <2>2
  <2> QED
    BY <1>1, <1>3, <2>1, <2>3, <2>4 DEF BufferHolds, Typed
<1>6. PrintHolds'
  BY <1>0, <1>1, Unmarked DEF PrintHolds, Arriving, Thread
<1>7. ScreenHolds'
  <2> SUFFICES ASSUME ~clash', ~Arriving'
               PROVE  AfterKey(screen)' = <<Prompt>> \o line'
    BY <1>1 DEF ScreenHolds
  <2>1. screen' = screen /\ screen = <<Prompt>> \o line
    BY <1>0, <1>1, Unmarked DEF ScreenHolds
  <2>2. screen # <<>>
    BY <1>2, <2>1
  <2>3. AfterKey(screen)' = Front(screen)
    BY <1>1, <2>1, <2>2 DEF AfterKey
  <2> QED
    BY <1>1, <1>2, <1>3, <2>1, <2>3, EndOf
<1> QED
  BY <1>4, <1>5, <1>6, <1>7 DEF LineInv

(* The echo of a key brings the terminal up to the line.                   *)
LEMMA EchoKeeps ==
  ASSUME LineInv, Echo
  PROVE  LineInv'
<1>0. TypeOK /\ BufferHolds /\ PrintHolds /\ ScreenHolds
  BY DEF LineInv
<1>1. /\ screen' = AfterKey(screen) /\ typist = "echo" /\ typist' = "key" /\ Meets
      /\ UNCHANGED <<buf, pos, key, out, keys, line, printVars, prints>>
  BY DEF Echo
<1>2. TypeOK'
  <2>1. screen' \in Seq(Char \cup {Prompt})
    <3>1. key \in (Char \cup {Prompt}) \cup {Erase} /\ screen \in Seq(Char \cup {Prompt})
      BY <1>0, <1>1 DEF BufferHolds, TypeOK
    <3> QED
      BY <1>1, <3>1, AfterKeyIs
  <2> QED
    BY <1>0, <1>1, <2>1 DEF TypeOK, printVars, Meets, Arriving
<1>3. BufferHolds'
  BY <1>0, <1>1 DEF BufferHolds, Typed
<1>4. PrintHolds'
  BY <1>0, <1>1, Unmarked DEF PrintHolds, Arriving, Thread
<1>5. ScreenHolds'
  BY <1>0, <1>1, Unmarked DEF ScreenHolds
<1> QED
  BY <1>2, <1>3, <1>4, <1>5 DEF LineInv

(* Enter hands over the line, cut to the caller's buffer.                  *)
LEMMA SubmitKeeps ==
  ASSUME LineInv, Submit
  PROVE  LineInv'
<1>0. TypeOK /\ BufferHolds /\ PrintHolds /\ ScreenHolds
  BY DEF LineInv
<1>1. /\ buf' = [buf EXCEPT ![pos] = NUL] /\ out' = Cut(String(buf'))
      /\ typist = "key" /\ typist' = "reset" /\ Meets
      /\ UNCHANGED <<pos, line, printVars, screen>>
  BY DEF Submit, Press
<1>2. Len(line) = pos /\ line \in Seq(Char) /\ pos \in Index /\ buf[pos] = NUL
      /\ \A i \in 1 .. pos : buf[i - 1] = line[i]
  BY <1>0, <1>1 DEF BufferHolds, Typed, TypeOK
<1>3. buf' = buf
  BY <1>0, <1>1, <1>2 DEF TypeOK
<1>4. out' = Cut(line) /\ out' \in Seq(Char)
  <2>1. String(buf) = line
    BY <1>2, StringIs
  <2> QED
    BY <1>1, <1>2, <1>3, <2>1, CutIs
<1>5. TypeOK'
  BY <1>0, <1>1, <1>3, <1>4, LineAssumption DEF TypeOK, Submit, Press, printVars, Meets, Arriving
<1>6. BufferHolds'
  BY <1>0, <1>1, <1>3, <1>4 DEF BufferHolds
<1>7. PrintHolds' /\ ScreenHolds'
  BY <1>0, <1>1, Unmarked DEF PrintHolds, ScreenHolds, Arriving, Thread
<1> QED
  BY <1>5, <1>6, <1>7 DEF LineInv
-----------------------------------------------------------------------------
(* A message that arrives between two keys is unmarked.                    *)
LEMMA ArriveKeeps ==
  ASSUME LineInv, Arrive
  PROVE  LineInv'
<1>0. TypeOK /\ BufferHolds /\ PrintHolds /\ ScreenHolds
  BY DEF LineInv
<1>1. TypeOK'
  BY <1>0, LineAssumption DEF TypeOK, Arrive, lineVars, Thread
<1>2. BufferHolds'
  BY <1>0 DEF BufferHolds, Typed, Arrive, lineVars
<1>3. PrintHolds' /\ ScreenHolds'
  BY <1>0 DEF PrintHolds, ScreenHolds, TypeOK, Arrive, lineVars, Arriving, Thread
<1> QED
  BY <1>1, <1>2, <1>3 DEF LineInv

(* While a print is under way and unmarked, the buffer holds the line.     *)
LEMMA PrintsLine ==
  ASSUME LineInv, NEW t \in Thread, print[t] # "no"
  PROVE  /\ t = "send" => typist = "printing"
         /\ ~clash => /\ typist \in {"key", "printing"} /\ Typed(pos) /\ buf[pos] = NUL
                      /\ StrLen(buf) = pos /\ [i \in 1 .. pos |-> buf[i - 1]] = line
<1>0. TypeOK /\ BufferHolds /\ PrintHolds
  BY DEF LineInv
<1>1. t = "send" => typist = "printing"
  BY <1>0 DEF PrintHolds
<1>2. ASSUME ~clash PROVE typist \in {"key", "printing"}
  BY <1>0, <1>1, <1>2 DEF PrintHolds, Arriving, Thread
<1>3. ASSUME ~clash
      PROVE  /\ Typed(pos) /\ buf[pos] = NUL
             /\ StrLen(buf) = pos /\ [i \in 1 .. pos |-> buf[i - 1]] = line
  <2>1. Typed(pos) /\ buf[pos] = NUL /\ pos \in Index /\ line \in Seq(Char)
    BY <1>0, <1>2, <1>3 DEF BufferHolds, TypeOK
  <2> QED
    BY <2>1, StringIs DEF Typed
<1> QED
  BY <1>1, <1>2, <1>3

(* The strlen of a print stays within the buffer.                          *)
LEMMA MeasureKeeps ==
  ASSUME LineInv, NEW t \in Thread, Measure(t)
  PROVE  LineInv'
<1>0. TypeOK /\ BufferHolds /\ PrintHolds /\ ScreenHolds
  BY DEF LineInv
<1>1. /\ len' = [len EXCEPT ![t] = StrLen(buf)] /\ print' = [print EXCEPT ![t] = "copy"]
      /\ print[t] = "measure" /\ UNCHANGED <<lineVars, copy, screen, prints, clash>>
  BY DEF Measure
<1>2. StrLen(buf) \in Index
  <2>1. MAXLINE - 1 \in Index
    BY LineAssumption DEF Index
  <2> QED
    BY <1>0, <2>1, StrLenIs DEF BufferHolds
<1>3. TypeOK'
  BY <1>0, <1>1, <1>2 DEF TypeOK, lineVars
<1>4. BufferHolds'
  BY <1>0, <1>1 DEF BufferHolds, Typed, lineVars
<1>5. PrintHolds' /\ ScreenHolds'
  BY <1>0, <1>1, PrintsLine DEF PrintHolds, ScreenHolds, TypeOK, lineVars, Arriving, Thread
<1> QED
  BY <1>3, <1>4, <1>5 DEF LineInv

(* The copy of a print reads no byte past the buffer.                      *)
LEMMA CopyKeeps ==
  ASSUME LineInv, NEW t \in Thread, Copy(t)
  PROVE  LineInv'
<1>0. TypeOK /\ BufferHolds /\ PrintHolds /\ ScreenHolds
  BY DEF LineInv
<1> DEFINE bytes == [i \in 1 .. len[t] |-> buf[i - 1]]
<1>1. /\ copy' = [copy EXCEPT ![t] = bytes] /\ print' = [print EXCEPT ![t] = "write"]
      /\ print[t] = "copy" /\ UNCHANGED <<lineVars, len, screen, prints, clash>>
  BY DEF Copy
<1>2. bytes \in Seq(Char \cup {NUL})
  <2>1. len[t] \in Nat /\ \A i \in 1 .. len[t] : buf[i - 1] \in Char \cup {NUL}
    BY <1>0, LineAssumption DEF TypeOK, Index
  <2> QED
    BY <2>1
<1>3. ~clash => bytes = line
  BY <1>0, <1>1, PrintsLine DEF PrintHolds
<1> HIDE DEF bytes
<1>4. TypeOK'
  BY <1>0, <1>1, <1>2 DEF TypeOK, lineVars
<1>5. BufferHolds'
  BY <1>0, <1>1 DEF BufferHolds, Typed, lineVars
<1>6. PrintHolds' /\ ScreenHolds'
  BY <1>0, <1>1, <1>3 DEF PrintHolds, ScreenHolds, TypeOK, lineVars, Arriving, Thread
<1> QED
  BY <1>4, <1>5, <1>6 DEF LineInv

(* The write of an unmarked print shows the line.                          *)
LEMMA WriteKeeps ==
  ASSUME LineInv, NEW t \in Thread, Write(t)
  PROVE  LineInv'
<1>0. TypeOK /\ BufferHolds /\ PrintHolds /\ ScreenHolds
  BY DEF LineInv
<1>1. /\ screen' = <<Prompt>> \o Visible(copy[t]) /\ print' = [print EXCEPT ![t] = "no"]
      /\ typist' = IF t = "send" THEN "key" ELSE typist
      /\ print[t] = "write"
      /\ UNCHANGED <<buf, pos, key, out, keys, line, len, copy, prints, clash>>
  BY DEF Write
<1>2. Visible(copy[t]) \in Seq(Char) /\ (copy[t] \in Seq(Char) => Visible(copy[t]) = copy[t])
  <2>1. copy[t] \in Seq(Char \cup {NUL})
    BY <1>0 DEF TypeOK
  <2> QED
    BY <2>1, VisibleIs
<1>3. ~clash => screen' = <<Prompt>> \o line
  <2>1. line \in Seq(Char)
    BY <1>0 DEF TypeOK
  <2> QED
    BY <1>0, <1>1, <1>2, <2>1 DEF PrintHolds
<1>4. screen' \in Seq(Char \cup {Prompt})
  <2>1. <<Prompt>> \in Seq(Char \cup {Prompt}) /\ Visible(copy[t]) \in Seq(Char \cup {Prompt})
    BY <1>2
  <2> QED
    BY <1>1, <2>1
<1>5. TypeOK'
  BY <1>0, <1>1, <1>4 DEF TypeOK
<1>6. BufferHolds'
  BY <1>0, <1>1, PrintsLine DEF BufferHolds, Typed
<1>7. PrintHolds'
  BY <1>0, <1>1, PrintsLine DEF PrintHolds, TypeOK, Arriving, Thread
<1>8. ScreenHolds'
  BY <1>0, <1>1, <1>3, PrintsLine DEF ScreenHolds, PrintHolds, Arriving, Thread
<1> QED
  BY <1>5, <1>6, <1>7, <1>8 DEF LineInv
-----------------------------------------------------------------------------
(* Every step keeps the invariant.                                         *)
LEMMA LineInductive == LineInv /\ [Next]_vars => LineInv'
<1> SUFFICES ASSUME LineInv, [Next]_vars PROVE LineInv'
  OBVIOUS
<1>1. CASE UNCHANGED vars
  BY <1>1 DEF vars, lineVars, printVars, LineInv, TypeOK, BufferHolds, Typed, PrintHolds,
     ScreenHolds, Arriving, AfterKey
<1>2. CASE \E k \in Char \cup {Enter, Erase} : Key(k)
  BY <1>2, IgnoreKeeps, TypeCharKeeps DEF Key
<1>3. CASE \E t \in Thread : PrintStep(t)
  BY <1>3, MeasureKeeps, CopyKeeps, WriteKeeps DEF PrintStep
<1> QED
  BY <1>1, <1>2, <1>3, ResetKeeps, StartPromptKeeps, CloseKeeps, EraseCharKeeps, EchoKeeps,
     SubmitKeeps, ArriveKeeps DEF Next

(* Buffer, prints and terminal stay in step in every behaviour.            *)
THEOREM LineInvHolds == Spec => []LineInv
BY LineStarts, LineInductive, PTL DEF Spec

(* Every variable of the line buffer and the terminal holds a value the C  *)
(* types and the code allow: pos and the strlen of a print stay within     *)
(* buf, whatever key meets whatever print.                                 *)
THEOREM LineTypeOK == Spec => []TypeOK
<1>1. LineInv => TypeOK
  BY DEF LineInv
<1> QED
  BY <1>1, LineInvHolds, PTL

(* What is sent is what was typed, cut to the caller's buffer, for any     *)
(* size of either buffer.                                                  *)
THEOREM LineIsAsTyped == Spec => []LineAsTyped
<1>1. LineInv => LineAsTyped
  <2> SUFFICES ASSUME LineInv PROVE LineAsTyped
    OBVIOUS
  <2>1. TypeOK /\ BufferHolds
    BY DEF LineInv
  <2>2. ASSUME typist \in {"key", "echo"} PROVE pos = Len(line) /\ String(buf) = line
    <3>1. line \in Seq(Char) /\ pos \in Index /\ Typed(pos) /\ buf[pos] = NUL
      BY <2>1, <2>2 DEF BufferHolds, TypeOK
    <3> QED
      BY <3>1, StringIs DEF Typed
  <2> QED
    BY <2>1, <2>2 DEF LineAsTyped, BufferHolds
<1> QED
  BY <1>1, LineInvHolds, PTL

(* A message that arrives between two keys and is printed before the next  *)
(* leaves the line being typed on the terminal, after any number of        *)
(* messages that spoilt it.                                                *)
THEOREM LineShownUndisturbed == Spec => []UndisturbedLineShown
<1>1. LineInv => UndisturbedLineShown
  BY DEF LineInv, ScreenHolds, UndisturbedLineShown, Shown
<1> QED
  BY <1>1, LineInvHolds, PTL
=============================================================================
