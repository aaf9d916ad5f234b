------------------------------ MODULE KeyService ------------------------------
(***************************************************************************)
(* What the small TCP services share: client.c, the same program in         *)
(* lab_5/keys_command, lab_6/problem_2 and lab_7 and nearly so in           *)
(* lab_5/protocol_lab_3 and lab_6/fork_test, its connection, and exec_key.  *)
(* HandlerServer and PollServer add the servers.  Each program has a client *)
(* and a server of its own; which one runs is chosen once, in "program".    *)
(*                                                                         *)
(* A message is a size and that many bytes.  A connection is one client     *)
(* process.  "zero" stands for the empty line: its size is sent, then       *)
(* write() of no bytes returns 0 and the client takes that for an error.    *)
(* "half" is a size whose sender died before the bytes.  A request, a few    *)
(* bytes behind its size, is taken to be read whole; an answer is not.      *)
(***************************************************************************)
EXTENDS Integers, Sequences, FiniteSets

CONSTANTS Conn,         \* connections
          InParts,      \* those whose answers may come in parts (bound)
          Descriptors,  \* descriptors the server may still open
          Unread,       \* messages a socket holds unread (bound)
          None          \* no connection, no key

ASSUME ServiceAssumption ==
  /\ IsFiniteSet(Conn) /\ InParts \subseteq Conn
  /\ Descriptors \in Nat /\ Unread \in Nat \ {0}
  /\ None \notin Conn

HandlerPrograms == {"threads", "pool", "forks", "echo"}
PollPrograms == {"keys", "commands"}

VARIABLES program,  \* the program that runs
          client,   \* [Conn -> record]: the client processes
          backlog,  \* the connections accept() has not returned yet
          link,     \* [Conn -> state]: the server's end of the connection
          c2s, s2c, \* [Conn -> Seq(message)]: the two directions
          left,     \* descriptors the server process can still open
          up        \* the server process runs

service == <<program, client, backlog, link, c2s, s2c, left, up>>

Keys == {"known", "unknown"}

\* "other": cd, ls, or no command.
CommandLines == {"login", "quit", "other"}
Lines == IF program = "commands" THEN CommandLines ELSE Keys

\* An answer of no bytes, "Login successful", "exit", or anything else; to None, it
\* stands for bytes, of one answer or more, that will not be read as one.
Answer == [to : Keys \cup CommandLines \cup {None}, say : {"empty", "in", "exit", "text"}]
Saying(k, say) == [to |-> k, say |-> say]
Garbled(a) == Saying(None, IF a.say = "empty" THEN "empty" ELSE "text")

\* "first": at the first prompt.  logged: "Login successful" was read.  sync: every
\* answer so far was read whole; as long as that is so, line is the line whose
\* answer is awaited.
ClientState == [pc : {"new", "first", "prompt", "wait", "gone"},
                line : Keys \cup CommandLines \cup {None}, logged : BOOLEAN,
                sync : BOOLEAN]

NewClient == [pc |-> "new", line |-> None, logged |-> FALSE, sync |-> TRUE]

\* "dropped": still open, and forgotten by the server.
LinkState == {"none", "held", "dropped", "closed"}

\* A program that is not run has ended.
ServiceStart ==
  /\ client = [c \in Conn |-> NewClient]
  /\ backlog = <<>>
  /\ link = [c \in Conn |-> "none"]
  /\ c2s = [c \in Conn |-> <<>>]
  /\ s2c = [c \in Conn |-> <<>>]
  /\ left = Descriptors
  /\ up = (program \in HandlerPrograms \cup PollPrograms)

ServiceTypeOK ==
  /\ client \in [Conn -> ClientState]
  /\ backlog \in Seq(Conn)
  /\ link \in [Conn -> LinkState]
  /\ c2s \in [Conn -> Seq(Keys \cup CommandLines \cup {"zero", "half"})]
  /\ s2c \in [Conn -> Seq(Answer)]
  /\ left \in 0..Descriptors
  /\ up \in BOOLEAN

Gone(c) == client[c].pc = "gone"
Waiting(c) == client[c].pc = "wait"
Prompted(c) == client[c].pc \in {"first", "prompt"}

\* The server's end is shut: read() returns 0 once the answers are used up.
Shut(c) == ~up \/ link[c] = "closed"

-----------------------------------------------------------------------------
(* The client *)

Connect(c) ==
  /\ client[c].pc = "new" /\ up
  /\ client' = [client EXCEPT ![c].pc = "first"]
  /\ backlog' = Append(backlog, c)
  /\ UNCHANGED <<program, link, c2s, s2c, left, up>>

\* A line is typed: its size and its bytes are sent, and the answer is awaited.
Type(c) ==
  /\ Prompted(c) /\ ~Shut(c) /\ Len(c2s[c]) < Unread
  /\ \E k \in Lines :
       /\ client' = [client EXCEPT ![c].pc = "wait",
                                   ![c].line = IF client[c].sync THEN k ELSE None]
       /\ c2s' = [c2s EXCEPT ![c] = Append(@, k)]
  /\ UNCHANGED <<program, backlog, link, s2c, left, up>>

\* Nothing is typed but Enter.  The client of protocol_lab_3 puts its process
\* id before every line, so that none of its messages is empty.
TypeNothing(c) ==
  /\ Prompted(c) /\ ~Shut(c) /\ Len(c2s[c]) < Unread
  /\ program # "commands"
  /\ c2s' = [c2s EXCEPT ![c] = Append(@, "zero")]
  /\ UNCHANGED <<program, client, backlog, link, s2c, left, up>>

\* The answer is read.  Only protocol_lab_3's client looks at it: it leaves on
\* the "exit" that answers quit.
ReadAnswer(c) ==
  LET a == Head(s2c[c]) IN
  /\ Waiting(c) /\ client[c].sync /\ s2c[c] # <<>>
  /\ \/ /\ a.say = "exit"
        /\ client' = [client EXCEPT ![c] = [NewClient EXCEPT !.pc = "gone"]]
     \/ /\ a.say # "exit"
        /\ client' = [client EXCEPT ![c].pc = "prompt", ![c].line = None,
                                   ![c].logged = @ \/ a.say = "in"]
  /\ s2c' = [s2c EXCEPT ![c] = Tail(@)]
  /\ UNCHANGED <<program, backlog, link, c2s, left, up>>

\* read() returns what has come, which is enough for the client: the rest of an
\* answer is taken for the next size, and from then on whatever has come for size
\* and bytes.
ReadPart(c) ==
  /\ c \in InParts /\ Waiting(c) /\ s2c[c] # <<>>
  /\ client' = [client EXCEPT ![c].pc = "prompt", ![c].line = None, ![c].sync = FALSE]
  /\ \/ s2c' = [s2c EXCEPT ![c] = <<Garbled(Head(@))>>]
     \/ ~client[c].sync /\ s2c' = [s2c EXCEPT ![c] = <<>>]
  /\ UNCHANGED <<program, backlog, link, c2s, left, up>>

\* read() returns 0, and the client asks for the next line all the same.
ReadEof(c) ==
  /\ Waiting(c) /\ s2c[c] = <<>> /\ Shut(c)
  /\ client' = [client EXCEPT ![c].pc = "prompt", ![c].line = None]
  /\ UNCHANGED <<program, backlog, link, c2s, s2c, left, up>>

\* "exit", the end of input, a kill, which may come between the size and the
\* bytes, or, with the server's end shut, SIGPIPE, which fork_test's client
\* ignores.
Leave(c) ==
  /\ Prompted(c) \/ Waiting(c)
  /\ client' = [client EXCEPT ![c] = [NewClient EXCEPT !.pc = "gone"]]
  /\ s2c' = [s2c EXCEPT ![c] = <<>>]
  /\ \/ UNCHANGED c2s
     \/ /\ Prompted(c) /\ ~Shut(c) /\ Len(c2s[c]) < Unread
        /\ c2s' = [c2s EXCEPT ![c] = Append(@, "half")]
  /\ UNCHANGED <<program, backlog, link, left, up>>

ClientStep(c) == ReadAnswer(c) \/ ReadPart(c) \/ ReadEof(c)

\* A client that has something to read reads it; nobody has to type.
ClientFairness == \A c \in Conn : WF_service(ClientStep(c))

UserStep(c) == Connect(c) \/ Type(c) \/ TypeNothing(c) \/ Leave(c)

-----------------------------------------------------------------------------
(* The server's calls *)

\* An answer to a client that is gone is lost.  To one that does not know where it
\* begins it is bytes, which come behind those that are there.
Sent(c, a) ==
  s2c' = IF Gone(c) THEN s2c
         ELSE [s2c EXCEPT ![c] = IF client[c].sync THEN Append(@, a) ELSE <<Garbled(a)>>]

\* exec_key: the descriptors it uses up, and what it may return.  A known key's
\* command may print nothing; the server's end of the socketpair is never
\* closed, nor is comm.conf when the socketpair (two more descriptors) or fork()
\* fails, with the whole pair in the latter case.
ExecKey(k, used, say) ==
  /\ say \in {"empty", "text"}
  /\ \/ /\ k = "unknown" \/ left = 0
        /\ used = 0 /\ say = "text"
     \/ /\ k = "known" /\ left \in 1..2
        /\ used = 1 /\ say = "text"
     \/ /\ k = "known" /\ left >= 3
        /\ used = 1 \/ (used = 3 /\ say = "text")

-----------------------------------------------------------------------------
(* Properties *)

\* Answers stay with the lines they belong to, although a size and its bytes are
\* two reads and an empty line is half a message, as long as each read() of the
\* client returned all it asked for: at the prompt no answer is on its way, and
\* the one that is waited for is to the last line typed.
RepliesInStep ==
  \A c \in Conn : client[c].sync /\ s2c[c] # <<>> =>
    /\ Waiting(c) /\ Len(s2c[c]) = 1
    /\ Head(s2c[c]).to = client[c].line
=============================================================================
