------------------------------- MODULE Numbers -------------------------------
(***************************************************************************)
(* lab_5/numbers: a server that takes one connection at a time, reads a     *)
(* number and answers with the number plus one and with an id, which counts *)
(* the clients it has answered.                                            *)
(***************************************************************************)
EXTENDS Naturals, Sequences, FiniteSets

CONSTANTS Visitor,   \* the client processes
          Uint       \* values of a uint32_t: 2^32 in the code

ASSUME NumbersAssumption ==
  IsFiniteSet(Visitor) /\ Uint \in Nat /\ Uint > 1

VARIABLES visitor,   \* [Visitor -> record]
          line,      \* visitors accept() has not returned yet
          number,    \* [Visitor -> the number on its way to the server]
          replies,   \* [Visitor -> Seq]: what is on its way back
          desk,      \* the server: where it is, whom it serves, what it has read
          id         \* clients answered

nvars == <<visitor, line, number, replies, desk, id>>

Number == 0..(Uint - 1)
NoNumber == Uint
Nobody == [pc |-> "accept", with |-> {}, value |-> NoNumber]

\* sent, and the two numbers of the answer.
VisitorState == [pc : {"new", "connected", "wait", "wait2", "done", "failed"},
                 sent : Number \cup {NoNumber},
                 next : Number \cup {NoNumber}, id : Number \cup {NoNumber}]

\* A program that is not run has ended.
NumbersStart(runs) ==
  /\ visitor = [v \in Visitor |->
       [pc |-> "new", sent |-> NoNumber, next |-> NoNumber, id |-> NoNumber]]
  /\ line = <<>>
  /\ number = [v \in Visitor |-> NoNumber]
  /\ replies = [v \in Visitor |-> <<>>]
  /\ desk = IF runs THEN Nobody ELSE [Nobody EXCEPT !.pc = "dead"]
  /\ id = 0

Left(v) == visitor[v].pc \in {"done", "failed"}
Serving(v) == desk.with = {v}
Open == desk.pc # "dead"

\* The server has closed the connection, or is dead.
HungUp(v) == ~Open \/ (visitor[v].pc # "new" /\ ~Serving(v)
                       /\ \A i \in 1..Len(line) : line[i] # v)

-----------------------------------------------------------------------------
(* The client *)

Visit(v) ==
  /\ visitor[v].pc = "new" /\ Open
  /\ visitor' = [visitor EXCEPT ![v].pc = "connected"]
  /\ line' = Append(line, v)
  /\ UNCHANGED <<number, replies, desk, id>>

SendNumber(v) ==
  /\ visitor[v].pc = "connected"
  /\ \E n \in Number :
       /\ visitor' = [visitor EXCEPT ![v].pc = "wait", ![v].sent = n]
       /\ number' = [number EXCEPT ![v] = n]
  /\ UNCHANGED <<line, replies, desk, id>>

\* Two numbers are read, one after the other.
GetNumber(v) ==
  /\ replies[v] # <<>>
  /\ \/ /\ visitor[v].pc = "wait"
        /\ visitor' = [visitor EXCEPT ![v].pc = "wait2", ![v].next = Head(replies[v])]
     \/ /\ visitor[v].pc = "wait2"
        /\ visitor' = [visitor EXCEPT ![v].pc = "done", ![v].id = Head(replies[v])]
  /\ replies' = [replies EXCEPT ![v] = Tail(@)]
  /\ UNCHANGED <<line, number, desk, id>>

\* read() fails, or the process is killed.
Fails(v) ==
  /\ ~Left(v) /\ visitor[v].pc # "new"
  /\ visitor' = [visitor EXCEPT ![v].pc = "failed"]
  /\ replies' = [replies EXCEPT ![v] = <<>>]
  /\ UNCHANGED <<line, number, desk, id>>

NoNumberComes(v) == visitor[v].pc \in {"wait", "wait2"} /\ replies[v] = <<>> /\ HungUp(v)

-----------------------------------------------------------------------------
(* The server *)

TakeVisitor ==
  /\ desk.pc = "accept" /\ line # <<>>
  /\ desk' = [pc |-> "read", with |-> {Head(line)}, value |-> NoNumber]
  /\ line' = Tail(line)
  /\ UNCHANGED <<visitor, number, replies, id>>

ReadNumber(v) ==
  /\ desk.pc = "read" /\ Serving(v)
  /\ \/ /\ number[v] # NoNumber
        /\ desk' = [desk EXCEPT !.pc = "answer", !.value = number[v]]
     \/ /\ number[v] = NoNumber /\ Left(v)
        /\ desk' = Nobody
  /\ UNCHANGED <<visitor, line, number, replies, id>>

ToVisitor(v, n) ==
  replies' = IF Left(v) THEN replies ELSE [replies EXCEPT ![v] = Append(@, n)]

\* ntohl(number) + 1, in 32 bits.
AnswerNumber(v) ==
  /\ desk.pc = "answer" /\ Serving(v)
  /\ ToVisitor(v, (desk.value + 1) % Uint)
  /\ desk' = [desk EXCEPT !.pc = "answer2"]
  /\ UNCHANGED <<visitor, line, number, id>>

\* Slip: the id is counted before accept(), and not for this client.
AnswerIdUncounted(v) ==
  /\ desk.pc = "answer2" /\ Serving(v)
  /\ ToVisitor(v, (id + 1) % Uint)
  /\ desk' = Nobody
  /\ UNCHANGED <<visitor, line, number, id>>

\* The id, close(), and id++.  To a client that is gone the second write() may
\* fail, and the id is used again, or raise SIGPIPE.
AnswerId(v) ==
  /\ desk.pc = "answer2" /\ Serving(v)
  /\ \/ /\ ToVisitor(v, (id + 1) % Uint)
        /\ desk' = Nobody
        /\ id' = (id + 1) % Uint
     \/ /\ Left(v)
        /\ desk' \in {Nobody, [Nobody EXCEPT !.pc = "dead"]}
        /\ UNCHANGED <<replies, id>>
  /\ UNCHANGED <<visitor, line, number>>

-----------------------------------------------------------------------------

DeskStep == \/ TakeVisitor
            \/ \E v \in Visitor : ReadNumber(v) \/ AnswerNumber(v) \/ AnswerId(v)

NumbersNext == \/ DeskStep
               \/ \E v \in Visitor : Visit(v) \/ SendNumber(v) \/ GetNumber(v) \/ Fails(v)

NumbersSpec == NumbersStart(TRUE) /\ [][NumbersNext]_nvars

\* The server runs; a client that is connected goes on, with its number and its
\* answer.
NumbersFairness ==
  /\ WF_nvars(DeskStep)
  /\ \A v \in Visitor : WF_nvars(SendNumber(v) \/ GetNumber(v) \/ (NoNumberComes(v) /\ Fails(v)))

-----------------------------------------------------------------------------
(* Properties *)

\* The variables of the number server keep their types.
NumbersTypeOK ==
  /\ visitor \in [Visitor -> VisitorState]
  /\ line \in Seq(Visitor)
  /\ number \in [Visitor -> Number \cup {NoNumber}]
  /\ replies \in [Visitor -> Seq(Number)]
  /\ desk \in [pc : {"accept", "read", "answer", "answer2", "dead"},
               with : SUBSET Visitor, value : Number \cup {NoNumber}]
  /\ id \in Number

\* Clients that have their whole answer have their own number plus one, and ids
\* of their own, although an id is counted only after it was sent and killed
\* clients are answered too.
IdsUnique ==
  LET Done == {v \in Visitor : visitor[v].pc = "done"} IN
  /\ \A v \in Done : visitor[v].next = (visitor[v].sent + 1) % Uint
  /\ Cardinality(Visitor) <= Uint =>
       \A v, w \in Done : v # w => visitor[v].id # visitor[w].id

\* Clients that have connected have all ended; that one is served at a time
\* holds nobody up for ever, for a client sends its number at once or is gone.
VisitsEnded ==
  (\A v \in Visitor : visitor[v].pc # "new") => \A v \in Visitor : Left(v)
=============================================================================
