------------------------------- MODULE Dialogue -------------------------------
(***************************************************************************)
(* lab_3/client+server.c: a parent that reads commands and a child that     *)
(* runs them, over a socketpair.  A command is a line; an answer is its     *)
(* length and its bytes.  The answers are told apart as far as the parent   *)
(* does ("quited"); "" is the payload of one byte that follows the message  *)
(* about an unknown command.                                               *)
(***************************************************************************)
EXTENDS Naturals, Sequences

CONSTANT MaxBehind   \* answers the parent may fall behind (bound)

ASSUME DialogueAssumption == MaxBehind \in Nat

VARIABLES parent,   \* the parent process
          child,    \* the child process, or why it ended
          request,  \* what was sent and is not read by the child
          answers,  \* the answers on their way to the parent
          behind    \* answers the lines typed have put the parent behind

dvars == <<parent, child, request, answers, behind>>

\* The parent sends a line of 266 bytes or more in two parts (bound), and waits
\* for an answer to each; the child takes 267 bytes at once.  "login+" is a
\* first part by which the line is a login; "end" is a second part that holds
\* the end of line alone, and any other is a line of its own for the child.
WholeLines == {"login", "cd", "ls", "quit", "unknown"}
Longer == [login |-> "login+", cd |-> "cd+", unknown |-> "unknown+"]
FirstParts == {"login+", "cd+", "unknown+"}
Typed == WholeLines \cup FirstParts \cup {"end"}
Said == {"text", "", "ERR", "quited"}

\* "left": after closing its end; "piped": by SIGPIPE; "killed": by another
\* signal; "spin": at the end of input, where fgets fails again and again.
ParentState == {"prompt", "wait", "left", "piped", "killed", "spin"}

\* "payload": between the two answers to an unknown command; "smashed": by
\* what it wrote behind one of its buffers.
ChildState == {"read", "payload", "quit", "failed", "deserted", "smashed"}

\* A program that is not run has ended.
DialogueStart(runs) == /\ parent = IF runs THEN "prompt" ELSE "left"
                       /\ child = IF runs THEN "read" ELSE "quit"
                       /\ request = <<>>
                       /\ answers = <<>>
                       /\ behind = 0

ChildRuns == child \in {"read", "payload"}
ParentRuns == parent \in {"prompt", "wait", "spin"}

-----------------------------------------------------------------------------
(* The parent *)

\* The second part of a line is still to be read from the terminal.
Parted == request # <<>> /\ request[Len(request)] \in FirstParts

\* The answers a line or a part of one has: two if it is no known command, and
\* none if it does but end a line.
Deserved(k) == CASE k \in {"unknown", "unknown+"} -> 2 [] k = "end" -> 0 [] OTHER -> 1

\* With the child gone the write raises SIGPIPE.
ParentSends ==
  /\ parent = "prompt"
  /\ \/ /\ ChildRuns /\ parent' = "wait"
        /\ \E k \in Typed :
             /\ IF Parted THEN k \notin FirstParts ELSE k # "end"
             /\ Deserved(k) = 2 => behind < MaxBehind
             /\ request' = Append(request, k)
             /\ behind' = behind + Deserved(k) - 1
     \/ /\ ~ChildRuns /\ parent' = "piped"
        /\ UNCHANGED <<request, behind>>
  /\ UNCHANGED <<child, answers>>

ParentAtEof ==
  /\ parent = "prompt" /\ parent' = "spin"
  /\ UNCHANGED <<child, request, answers, behind>>

ParentKilled ==
  /\ ParentRuns /\ parent' = "killed"
  /\ answers' = <<>>
  /\ UNCHANGED <<child, request, behind>>

ParentReads ==
  /\ parent = "wait" /\ answers # <<>>
  /\ parent' = IF Head(answers) = "quited" THEN "left" ELSE "prompt"
  /\ answers' = Tail(answers)
  /\ UNCHANGED <<child, request, behind>>

\* The child has ended: a message, and the next command is asked for.
ParentNoReply ==
  /\ parent = "wait" /\ answers = <<>> /\ ~ChildRuns
  /\ parent' = "prompt"
  /\ UNCHANGED <<child, request, answers, behind>>

-----------------------------------------------------------------------------
(* The child: child_stuff *)

\* write_from_kid; without a parent SIGPIPE ends the child.
Says(s) == /\ answers' = IF ParentRuns THEN Append(answers, s) ELSE answers
           /\ UNCHANGED <<parent, behind>>

Goes(state) == child' = IF ParentRuns THEN state ELSE "deserted"

\* fgets: the line k, or the first 267 bytes of a longer one, for which it
\* needs some of the second part.
Gets(k) ==
  /\ child = "read"
  /\ \/ /\ request # <<>> /\ Head(request) = k
        /\ request' = Tail(request)
     \/ /\ k \in DOMAIN Longer
        /\ Len(request) >= 2 /\ Head(request) = Longer[k]
        /\ request' = IF request[2] = "end" THEN Tail(Tail(request)) ELSE Tail(request)

\* k is read and answered with s.
Reply(k, s, state) == Gets(k) /\ Says(s) /\ Goes(state)

\* A word of 64 bytes after login, or of 128 after cd, is written behind the
\* buffer it is scanned into: the child goes on all the same, or it dies of it.
ChildOverrun ==
  /\ Gets("login") \/ Gets("cd")
  /\ child' = "smashed"
  /\ UNCHANGED <<parent, answers, behind>>

\* log is set here and looked at nowhere.
ChildLogin == Reply("login", "text", "read")

\* A directory that cannot be entered ends the child.
ChildCd == Reply("cd", "text", "read") \/ Reply("cd", "ERR", "failed")

\* Slip: no continue after the message about pipe() or fork().
ChildLsBoth == Reply("ls", "text", "read") \/ Reply("ls", "ERR", "payload")

\* ls writes to the terminal, for the pipe is made its standard input: the
\* payload is empty, or the child's complaint that there is no ls.
ChildLs == \/ \E s \in {"", "text"} : Reply("ls", s, "read")
           \/ Reply("ls", "ERR", "read")

ChildQuit == Reply("quit", "quited", "quit")

\* The message, and behind the if the payload, still empty.
ChildUnknown == Reply("unknown", "text", "payload")

ChildPayload ==
  /\ child = "payload"
  /\ Says("") /\ Goes("read")
  /\ UNCHANGED request

\* End of file, or of part of a line: a message about it, and SIGPIPE.
ChildDeserted ==
  /\ child = "read" /\ ~ParentRuns
  /\ request = <<>> \/ (Len(request) = 1 /\ Parted)
  /\ child' = "deserted" /\ request' = <<>>
  /\ UNCHANGED <<parent, answers, behind>>

-----------------------------------------------------------------------------

ParentStep == ParentReads \/ ParentNoReply

ChildStep == \/ ChildLogin \/ ChildCd \/ ChildLs \/ ChildQuit \/ ChildUnknown
             \/ ChildPayload \/ ChildDeserted \/ ChildOverrun

DialogueNext == ParentSends \/ ParentAtEof \/ ParentKilled \/ ParentStep \/ ChildStep

\* Both processes run when they can; nobody has to type.
DialogueFairness == WF_dvars(ParentStep) /\ WF_dvars(ChildStep)

DialogueSpec == DialogueStart(TRUE) /\ [][DialogueNext]_dvars

-----------------------------------------------------------------------------
(* Properties *)

\* The variables of the dialogue keep their types.
DialogueTypeOK == /\ parent \in ParentState
                  /\ child \in ChildState
                  /\ request \in Seq(Typed)
                  /\ answers \in Seq(Said)
                  /\ behind \in 0..MaxBehind

\* What puts the parent behind, or back: one answer more behind with each line
\* the child does not know (client+server.c:154-159), the second part of a long
\* one included, one less with each line of exactly 266 bytes, whose end is sent
\* by itself; by nothing else, errors included.
LagCounted ==
  parent = "prompt" /\ child = "read" /\ request = <<>> => Len(answers) = behind

\* The parent waits for no answer, unless it has sent the first part of a line
\* and both wait for the rest.
DialogueSettled == parent # "wait" \/ (Len(request) = 1 /\ Parted)

\* "quit — închide sesiunea (fiul răspunde și apoi termină; părintele închide
\* curat)", line 31: after quit the parent ends in order, not by SIGPIPE.
QuitCloses == child = "quit" => parent # "piped"
=============================================================================
