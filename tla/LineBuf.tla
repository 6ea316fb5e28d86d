------------------------------ MODULE LineBuf ------------------------------
(***************************************************************************)
(* The line a user of the chat client is typing (utils.c) and             *)
(* the line of the terminal that shows it.  The sending thread edits buf   *)
(* key by key and echoes each key; the receiving thread prints what        *)
(* arrives: it clears the line, writes the message above and the prompt    *)
(* and its own copy of buf below.  Nothing locks buf or the terminal, so   *)
(* every store to buf, every read of it and every write to the terminal is *)
(* a step; pos and line_ready are used by the sending thread alone.        *)
(***************************************************************************)
EXTENDS Naturals, Sequences, SequencesExt

CONSTANTS Char,     \* what can be typed into a line
          NUL, Enter, Erase, Prompt,
          MAXLINE,  \* size of buf
          OutLen,   \* size of the caller's buffer, MESSAGE_LEN or USER_NAME_LEN
          MaxKeys,  \* bound on keys
          MaxPrints \* bound on the messages that arrive

ASSUME LineAssumption ==
    /\ MAXLINE \in Nat \ {0, 1} /\ OutLen \in Nat \ {0}
    /\ MaxKeys \in Nat /\ MaxPrints \in Nat
    /\ NUL \notin Char /\ Enter \notin Char /\ Erase \notin Char /\ Prompt \notin Char

Thread == {"send", "recv"}
Index  == 0 .. MAXLINE - 1

VARIABLES buf, pos,     \* line_buf
          typist,       \* where the sending thread is
          key,          \* the character fgetc returned
          out,          \* the caller's copy of the last line
          print,        \* where each thread is in linebuf_print
          len, copy,    \* its strlen of buf and its copy
          screen,       \* the active line of the terminal
          keys, prints, \* history: keys read, messages printed
          line,         \* history: the line as the user edited it
          clash         \* history: the last print met a step of the other thread

lineVars  == <<buf, pos, typist, key, out, keys, line>>
printVars == <<print, len, copy>>
vars == <<lineVars, printVars, screen, prints, clash>>

\* The string in an array: up to the first NUL.
StrLen(b) == CHOOSE n \in Index : b[n] = NUL /\ \A i \in Index : i < n => b[i] # NUL

\* strncpy(out, buf, len); out[len - 1] = '\0'
Cut(s) == IF Len(s) < OutLen THEN s ELSE SubSeq(s, 1, OutLen - 1)
String(b) == [i \in 1 .. StrLen(b) |-> b[i - 1]]

Init ==
    /\ buf = [i \in Index |-> NUL] /\ pos = 0
    /\ typist = "reset" /\ key = NUL /\ out = <<>>
    /\ print = [t \in Thread |-> "no"]
    /\ len = [t \in Thread |-> 0] /\ copy = [t \in Thread |-> <<>>]
    /\ screen = <<Prompt>>
    /\ keys = 0 /\ prints = 0 /\ line = <<>> /\ clash = FALSE
-----------------------------------------------------------------------------
\* A step of the sending thread on buf or the terminal meets a print of the
\* receiving thread that has begun.
Arriving == print["recv"] # "no"
Meets == clash' = (clash \/ Arriving)

\* linebuf_reset
Reset ==
    /\ typist = "reset"
    /\ pos' = 0 /\ buf' = [buf EXCEPT ![0] = NUL]
    /\ line' = <<>>
    /\ typist' = "prompt"
    /\ Meets
    /\ UNCHANGED <<key, out, keys, printVars, screen, prints>>

\* linebuf_print(line_buf, "")
StartPrompt ==
    /\ typist = "prompt"
    /\ print' = [print EXCEPT !["send"] = "measure"]
    /\ typist' = "printing"
    /\ clash' = Arriving
    /\ UNCHANGED <<buf, pos, key, out, keys, line, len, copy, screen, prints>>

\* fgetc
Press(k) ==
    /\ typist = "key" /\ keys < MaxKeys
    /\ keys' = keys + 1 /\ key' = k

\* Mutation: the last byte of buf is used too.
RoomAlways == pos < MAXLINE

Room == pos < MAXLINE - 1

\* Enter or backspace without input, or a character without room
Ignore(k) ==
    /\ Press(k)
    /\ IF k \in Char THEN ~Room ELSE pos = 0
    /\ UNCHANGED <<buf, pos, typist, out, line, printVars, screen, prints, clash>>

TypeChar(k) ==
    /\ Press(k) /\ k \in Char /\ Room
    /\ buf' = [buf EXCEPT ![pos] = k]
    /\ line' = Append(line, k)
    /\ typist' = "close"
    /\ Meets
    /\ UNCHANGED <<pos, out, printVars, screen, prints>>

\* Mutation: the byte after the new character keeps what it held.
CloseOpen ==
    /\ typist = "close"
    /\ pos' = pos + 1
    /\ typist' = "echo"
    /\ Meets
    /\ UNCHANGED <<buf, key, out, keys, line, printVars, screen, prints>>

Close ==
    /\ typist = "close"
    /\ pos' = pos + 1 /\ buf' = [buf EXCEPT ![pos + 1] = NUL]
    /\ typist' = "echo"
    /\ Meets
    /\ UNCHANGED <<key, out, keys, line, printVars, screen, prints>>

EraseChar ==
    /\ Press(Erase) /\ pos > 0
    /\ pos' = pos - 1 /\ buf' = [buf EXCEPT ![pos - 1] = NUL]
    /\ line' = Front(line)
    /\ typist' = "echo"
    /\ Meets
    /\ UNCHANGED <<out, printVars, screen, prints>>

\* Mutation: the erased character stays on the terminal.
AfterKeyLeft(s) == IF key = Erase THEN s ELSE Append(s, key)

\* fputc(c) or write("\b \b")
AfterKey(s) == IF key # Erase THEN Append(s, key) ELSE IF s = <<>> THEN s ELSE Front(s)

Echo ==
    /\ typist = "echo"
    /\ screen' = AfterKey(screen)
    /\ typist' = "key"
    /\ Meets
    /\ UNCHANGED <<buf, pos, key, out, keys, line, printVars, prints>>

\* line_ready: non_canonical_read copies the line and returns.
Submit ==
    /\ Press(Enter) /\ pos > 0
    /\ buf' = [buf EXCEPT ![pos] = NUL]
    /\ out' = Cut(String(buf'))
    /\ typist' = "reset"
    /\ Meets
    /\ UNCHANGED <<pos, line, printVars, screen, prints>>
-----------------------------------------------------------------------------
\* A message arrives and linebuf_print is called for it.
Arrive ==
    /\ print["recv"] = "no" /\ prints < MaxPrints
    /\ prints' = prints + 1
    /\ print' = [print EXCEPT !["recv"] = "measure"]
    /\ clash' = (typist # "key")
    /\ UNCHANGED <<lineVars, len, copy, screen>>

\* snprintf("%s", buf): the length first, then the bytes
Measure(t) ==
    /\ print[t] = "measure"
    /\ len' = [len EXCEPT ![t] = StrLen(buf)]
    /\ print' = [print EXCEPT ![t] = "copy"]
    /\ UNCHANGED <<lineVars, copy, screen, prints, clash>>

Copy(t) ==
    /\ print[t] = "copy"
    /\ copy' = [copy EXCEPT ![t] = [i \in 1 .. len[t] |-> buf[i - 1]]]
    /\ print' = [print EXCEPT ![t] = "write"]
    /\ UNCHANGED <<lineVars, len, screen, prints, clash>>

\* A terminal shows no NUL: the bytes of s that it does show.
Visible(s) ==
    LET first[n \in 0 .. Len(s)] ==  \* of the first n bytes
            IF n = 0 THEN <<>>
            ELSE IF s[n] = NUL THEN first[n - 1] ELSE Append(first[n - 1], s[n])
    IN  first[Len(s)]

\* The line is cleared and written anew.
Write(t) ==
    /\ print[t] = "write"
    /\ screen' = <<Prompt>> \o Visible(copy[t])
    /\ print' = [print EXCEPT ![t] = "no"]
    /\ typist' = IF t = "send" THEN "key" ELSE typist
    /\ UNCHANGED <<buf, pos, key, out, keys, line, len, copy, prints, clash>>
-----------------------------------------------------------------------------
PrintStep(t) == Measure(t) \/ Copy(t) \/ Write(t)

Key(k) == Ignore(k) \/ TypeChar(k)

Next ==
    \/ Reset \/ StartPrompt \/ Close \/ EraseChar \/ Echo \/ Submit
    \/ \E k \in Char \cup {Enter, Erase} : Key(k)
    \/ Arrive \/ \E t \in Thread : PrintStep(t)

Spec == Init /\ [][Next]_vars
-----------------------------------------------------------------------------
(* Every variable holds a value the C types and the code allow.            *)
TypeOK ==
    /\ buf \in [Index -> Char \cup {NUL}] /\ pos \in Index
    /\ typist \in {"reset", "prompt", "printing", "key", "close", "echo"}
    /\ key \in Char \cup {NUL, Enter, Erase}
    /\ out \in Seq(Char) /\ line \in Seq(Char)
    /\ print \in [Thread -> {"no", "measure", "copy", "write"}]
    /\ len \in [Thread -> Index] /\ copy \in [Thread -> Seq(Char \cup {NUL})]
    /\ screen \in Seq(Char \cup {Prompt})
    /\ keys \in 0 .. MaxKeys /\ prints \in 0 .. MaxPrints /\ clash \in BOOLEAN

(* What is sent is what was typed: between two keys buf holds the line as  *)
(* the user edited it, closed by a NUL; its last byte always is one, so    *)
(* that no print and no copy runs out of buf, even one that meets a key    *)
(* half way; and the caller gets the line, cut to the size of its buffer.  *)
LineAsTyped ==
    /\ buf[MAXLINE - 1] = NUL
    /\ typist \in {"key", "echo"} => pos = Len(line) /\ String(buf) = line
    /\ typist = "reset" => out = Cut(line)

Shown == typist = "key" /\ ~Arriving => screen = <<Prompt>> \o line

(* The terminal shows the line being typed whenever no print is under way  *)
(* (README: a peer's input never interrupts what the user has typed).      *)
LineShown == Shown

(* It does as long as the last print met no step of the other thread: one  *)
(* message that arrives between two keys repairs what earlier ones spoilt. *)
UndisturbedLineShown == ~clash => Shown
=============================================================================
