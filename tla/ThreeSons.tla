------------------------------ MODULE ThreeSons ------------------------------
(***************************************************************************)
(* lab_2/three_sons.c: F1 lets a grandchild run who into users.txt, waits   *)
(* for it and sends SIGUSR1 to F2, which then sends the lines that contain  *)
(* "tty" to the father through a pipe.                                     *)
(***************************************************************************)
EXTENDS Naturals, Sequences, Filter

CONSTANT Reports   \* what who may print: sequences of "tty" and "pts" lines

ASSUME SonsAssumption == Reports \subseteq Seq({"tty", "pts"})

VARIABLES father,   \* the father
          f1, f2,   \* the sons
          who,      \* the grandchild
          usr1,     \* SIGUSR1 is pending in F2
          forkFailed,
          report,   \* what who has to print still
          users,    \* users.txt; "old": as an earlier run left it
          copied,   \* lines F2 has read
          tube,     \* the pipe to the father
          printed   \* what the father has printed

svars == <<father, f1, f2, who, usr1, forkFailed, report, users, copied, tube, printed>>

IsTty(line) == line = "tty"

\* SIGUSR1 is blocked before either son exists; both inherit the mask.
\* A program that is not run has ended.
SonsStart(runs) ==
  /\ father = IF runs THEN "forkF2" ELSE "gone"
  /\ f1 = "none" /\ f2 = "none" /\ who = "none"
  /\ usr1 = FALSE /\ forkFailed = FALSE
  /\ report \in IF runs THEN Reports ELSE {<<>>}
  /\ users \in IF runs THEN {<<>>, <<"old">>} ELSE {<<>>}
  /\ copied = 0 /\ tube = <<>> /\ printed = <<>>

-----------------------------------------------------------------------------
(* The father *)

FatherForks ==
  /\ \/ /\ father = "forkF2"
        /\ \/ father' = "forkF1" /\ f2' = "install" /\ UNCHANGED forkFailed
           \/ father' = "gone" /\ forkFailed' = TRUE /\ UNCHANGED f2
        /\ UNCHANGED f1
     \/ /\ father = "forkF1"
        /\ \/ father' = "read" /\ f1' = "fork" /\ UNCHANGED forkFailed
           \/ father' = "gone" /\ forkFailed' = TRUE /\ UNCHANGED f1
        /\ UNCHANGED f2
  /\ UNCHANGED <<who, usr1, report, users, copied, tube, printed>>

\* read() until no process has the writing end of the pipe any more.
FatherReads ==
  /\ father = "read"
  /\ \/ /\ tube # <<>>
        /\ printed' = printed \o tube /\ tube' = <<>>
        /\ UNCHANGED father
     \/ /\ tube = <<>> /\ f2 = "gone"
        /\ father' = "wait"
        /\ UNCHANGED <<printed, tube>>
  /\ UNCHANGED <<f1, f2, who, usr1, forkFailed, report, users, copied>>

FatherWaits ==
  /\ father = "wait" /\ f1 = "gone" /\ f2 = "gone"
  /\ father' = "gone"
  /\ UNCHANGED <<f1, f2, who, usr1, forkFailed, report, users, copied, tube, printed>>

-----------------------------------------------------------------------------
(* F1: fiu1_stuff, and its child *)

F1Forks ==
  /\ f1 = "fork"
  /\ \/ f1' = "wait" /\ who' = "open" /\ UNCHANGED forkFailed
     \/ f1' = "gone" /\ forkFailed' = TRUE /\ UNCHANGED who
  /\ UNCHANGED <<father, f2, usr1, report, users, copied, tube, printed>>

\* open() or exec may fail: users.txt stays as it was, or empty.
WhoOpens ==
  /\ who = "open"
  /\ \/ who' = "failed" /\ UNCHANGED users
     \/ who' = "failed" /\ users' = <<>>
     \/ who' = "print" /\ users' = <<>>
  /\ UNCHANGED <<father, f1, f2, usr1, forkFailed, report, copied, tube, printed>>

WhoPrints ==
  /\ who = "print"
  /\ IF report = <<>> THEN who' = "done" /\ UNCHANGED <<report, users>>
     ELSE /\ users' = Append(users, Head(report))
          /\ report' = Tail(report)
          /\ UNCHANGED who
  /\ UNCHANGED <<father, f1, f2, usr1, forkFailed, copied, tube, printed>>

\* waitpid(gc), and kill(F2, SIGUSR1), however the grandchild ended.
F1Signals ==
  /\ f1 = "wait" /\ who \in {"done", "failed"}
  /\ usr1' = TRUE /\ f1' = "gone"
  /\ UNCHANGED <<father, f2, who, forkFailed, report, users, copied, tube, printed>>

-----------------------------------------------------------------------------
(* F2: fiu2_stuff *)

\* Slip: the signal is not blocked, and handled before sigsuspend() waits for it.
F2InstallsUnblocked ==
  /\ f2 = "install" /\ f2' = "suspend"
  /\ usr1' = FALSE
  /\ UNCHANGED <<father, f1, who, forkFailed, report, users, copied, tube, printed>>

F2Installs ==
  /\ f2 = "install" /\ f2' = "suspend"
  /\ UNCHANGED <<father, f1, who, usr1, forkFailed, report, users, copied, tube, printed>>

\* sigsuspend() unblocks and waits in one step; a file that cannot be opened
\* ends F2.
F2Wakes ==
  /\ f2 = "suspend" /\ usr1
  /\ usr1' = FALSE
  /\ f2' \in {"read", "gone"}
  /\ UNCHANGED <<father, f1, who, forkFailed, report, users, copied, tube, printed>>

F2Reads ==
  /\ f2 = "read"
  /\ IF copied = Len(users) THEN f2' = "gone" /\ UNCHANGED <<copied, tube>>
     ELSE /\ copied' = copied + 1
          /\ tube' = IF IsTty(users[copied + 1]) THEN Append(tube, users[copied + 1])
                     ELSE tube
          /\ UNCHANGED f2
  /\ UNCHANGED <<father, f1, who, usr1, forkFailed, report, users, printed>>

-----------------------------------------------------------------------------

SonStep == \/ FatherForks \/ FatherReads \/ FatherWaits
           \/ F1Forks \/ F1Signals \/ WhoOpens \/ WhoPrints
           \/ F2Installs \/ F2Wakes \/ F2Reads

SonsSpec == SonsStart(TRUE) /\ [][SonStep]_svars

\* Four processes, each of which goes on when it can.
SonsFairness == /\ WF_svars(FatherForks \/ FatherReads \/ FatherWaits)
                /\ WF_svars(F1Forks \/ F1Signals)
                /\ WF_svars(WhoOpens \/ WhoPrints)
                /\ WF_svars(F2Installs \/ F2Wakes \/ F2Reads)

-----------------------------------------------------------------------------
(* Properties *)

\* The processes are in states they have.
SonsTypeOK == /\ father \in {"forkF2", "forkF1", "read", "wait", "gone"}
              /\ f1 \in {"none", "fork", "wait", "gone"}
              /\ f2 \in {"none", "install", "suspend", "read", "gone"}
              /\ who \in {"none", "open", "print", "done", "failed"}
              /\ usr1 \in BOOLEAN /\ forkFailed \in BOOLEAN
              /\ copied \in 0..Len(users)

\* F2 reads users.txt only when who has written all of it, and what the father
\* has printed in the end is its tty lines, none missing and none older.
PrintsLogins ==
  /\ f2 = "read" => who \in {"done", "failed"}
  /\ father = "gone" /\ who = "done" /\ copied > 0 =>
       printed = Chosen(users, {"tty"}) /\ "old" \notin {users[i] : i \in 1..Len(users)}

\* The father has ended, unless a fork() failed and F2 waits for a signal nobody
\* sends.
SonsEnded == father = "gone" \/ forkFailed
=============================================================================
