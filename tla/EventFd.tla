------------------------------ MODULE EventFd ------------------------------
(***************************************************************************)
(* The eventfd demo: a parent, the server, and its child, the client, hand *)
(* a token to each other through one counter that both read and write.  A  *)
(* read takes the whole counter and waits while it is zero, a write adds   *)
(* to it.  Whoever reads the token that is meant for the other writes it   *)
(* back and reads again.                                                   *)
(***************************************************************************)
EXTENDS Demo

VARIABLES counter,  \* the event counter
          val       \* event_val of each process

eventVars == <<counter, val>>

Token(p) == IF p = "server" THEN 1 ELSE 2  \* what p waits for

EventInit == counter = 0 /\ val = [p \in Proc |-> 0]
-----------------------------------------------------------------------------
\* Mutation: the server starts with a token of its own in the counter.
EventForkPut ==
    /\ pc = [p \in Proc |-> "off"]
    /\ \E n \in 0 .. MaxRounds :
          /\ count' = [p \in Proc |-> n]
          /\ pc' = [p \in Proc |-> Enter(p, n, "put", "done")]
    /\ UNCHANGED <<program, round, disturbed, heard, eventVars>>

\* fork: the server starts by reading, the client by writing.
EventFork ==
    /\ pc = [p \in Proc |-> "off"]
    /\ \E n \in 0 .. MaxRounds :
          /\ count' = [p \in Proc |-> n]
          /\ pc' = [p \in Proc |-> Enter(p, n, IF p = "server" THEN "get" ELSE "put", "done")]
    /\ UNCHANGED <<program, round, disturbed, heard, eventVars>>

\* read(fd, &event_val, 8) of the token meant for p; the client's round ends.
GetMine(p) ==
    /\ pc[p] = "get" /\ counter = Token(p)
    /\ counter' = 0 /\ val' = [val EXCEPT ![p] = counter]
    /\ Hear(p)
    /\ IF p = "server" THEN Goto(p, "put") ELSE NextRound(p, "put", "done")
    /\ UNCHANGED <<program, count, disturbed>>

\* read of another value
GetOther(p) ==
    /\ pc[p] = "get" /\ counter # 0 /\ counter # Token(p)
    /\ counter' = 0 /\ val' = [val EXCEPT ![p] = counter]
    /\ Goto(p, "back")
    /\ UNCHANGED <<program, count, disturbed, heard>>

\* Mutation: the process waits on without writing the token back.
WriteBackNot(p) ==
    /\ pc[p] = "back"
    /\ Goto(p, "get")
    /\ UNCHANGED <<program, count, disturbed, heard, eventVars>>

WriteBack(p) ==
    /\ pc[p] = "back"
    /\ counter' = counter + val[p]
    /\ Goto(p, "get")
    /\ UNCHANGED <<program, count, disturbed, heard, val>>

\* The token for the other side; the server's round ends.
PutToken(p) ==
    /\ pc[p] = "put"
    /\ counter' = counter + Token(Other(p))
    /\ IF p = "server" THEN NextRound(p, "get", "done") ELSE Goto(p, "get")
    /\ UNCHANGED <<program, count, disturbed, heard, val>>
-----------------------------------------------------------------------------
EventStep(p) == GetMine(p) \/ GetOther(p) \/ WriteBack(p) \/ PutToken(p)

EventNext == program = "eventfd" /\ (EventFork \/ \E p \in Proc : EventStep(p))
-----------------------------------------------------------------------------
EventTypeOK == counter \in 0 .. 2 /\ val \in [Proc -> 0 .. 2]

(* There is one token, in the counter or in one process's hands: it is     *)
(* never lost, doubled or added to another, though both processes take it  *)
(* out and put it back (eventfd.c).  It is gone when the client has had    *)
(* its last one.                                                           *)
InHand == {p \in Proc : pc[p] \in {"put", "back"}}
TokenOnce ==
    program = "eventfd" /\ pc["client"] \notin {"off", "done"}
    => /\ counter \in {0, Token("server"), Token("client")}
       /\ IF counter = 0 THEN \E p \in Proc : InHand = {p} ELSE InHand = {}

=============================================================================
