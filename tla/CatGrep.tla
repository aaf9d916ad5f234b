------------------------------- MODULE CatGrep -------------------------------
(***************************************************************************)
(* lab_3/cat_grep.c: cat prog.c | grep include > prog.c, with two named     *)
(* pipes: fiu1 (cat prog.c) -> t_f1 -> fiu2 (grep) -> f1_f2 -> fiu3 (cat)   *)
(* -> prog.c, which is read and written at once.  A line is the unit.      *)
(***************************************************************************)
EXTENDS Naturals, Sequences, Filter

CONSTANT Programs   \* what prog.c may be: sequences of lines

ASSUME CatGrepAssumption == Programs \subseteq Seq({"include", "other"})

VARIABLES shell,            \* the parent
          fiu1, fiu2, fiu3, \* its children
          t_f1, f1_f2,      \* what is in the pipes
          prog, old,        \* prog.c, now and at first
          offset,           \* lines fiu1 has read
          found,            \* lines in the buffer of grep
          failed            \* what failed first: a fork(), an open(), an exec

cvars == <<shell, fiu1, fiu2, fiu3, t_f1, f1_f2, prog, old, offset, found, failed>>

IsInclude(line) == line = "include"

\* A program that is not run has ended.
CatGrepStart(runs) ==
  /\ shell = IF runs THEN "fork3" ELSE "unlinked"
  /\ fiu1 = IF runs THEN "none" ELSE "gone"
  /\ fiu2 = fiu1 /\ fiu3 = fiu1
  /\ t_f1 = <<>> /\ f1_f2 = <<>>
  /\ prog \in IF runs THEN Programs ELSE {<<>>}
  /\ old = prog
  /\ offset = 0 /\ found = <<>>
  /\ failed = "none"

-----------------------------------------------------------------------------
(* The parent *)

\* When fork() fails the parent returns and leaves the pipes and the children.
ShellForks ==
  /\ \/ /\ \/ shell = "fork3" /\ fiu3' = "open" /\ shell' = "fork2" /\ UNCHANGED <<fiu1, fiu2>>
           \/ shell = "fork2" /\ fiu2' = "open" /\ shell' = "fork1" /\ UNCHANGED <<fiu1, fiu3>>
           \/ shell = "fork1" /\ fiu1' = "open" /\ shell' = "wait1" /\ UNCHANGED <<fiu2, fiu3>>
        /\ UNCHANGED failed
     \/ /\ shell \in {"fork1", "fork2", "fork3"}
        /\ shell' = "failed"
        /\ failed' = IF failed = "none" THEN "fork" ELSE failed
        /\ UNCHANGED <<fiu1, fiu2, fiu3>>
  /\ UNCHANGED <<t_f1, f1_f2, prog, old, offset, found>>

\* fiu3 is not waited for.
ShellWaits ==
  /\ \/ shell = "wait1" /\ fiu1 = "gone" /\ shell' = "wait2"
     \/ shell = "wait2" /\ fiu2 = "gone" /\ shell' = "unlinked"
  /\ UNCHANGED <<fiu1, fiu2, fiu3, t_f1, f1_f2, prog, old, offset, found, failed>>

-----------------------------------------------------------------------------
(* open() of a named pipe: each side waits for the other *)

OpenT_F1 ==
  /\ fiu1 = "open" /\ fiu2 = "open"
  /\ fiu1' = "cat" /\ fiu2' = "opened"
  /\ UNCHANGED <<shell, fiu3, t_f1, f1_f2, prog, old, offset, found, failed>>

OpenF1_F2 ==
  /\ fiu2 = "opened" /\ fiu3 = "open"
  /\ fiu2' = "grep" /\ fiu3' = "opened"
  /\ UNCHANGED <<shell, fiu1, t_f1, f1_f2, prog, old, offset, found, failed>>

\* An open() of a named pipe fails, instead of waiting or at the end of it: the
\* child exits, and the one it was to meet goes on waiting.
OpenFails ==
  /\ \/ fiu1 = "open" /\ fiu1' = "gone" /\ UNCHANGED <<fiu2, fiu3>>
     \/ fiu2 \in {"open", "opened"} /\ fiu2' = "gone" /\ UNCHANGED <<fiu1, fiu3>>
     \/ fiu3 = "open" /\ fiu3' = "gone" /\ UNCHANGED <<fiu1, fiu2>>
  /\ failed = "none" /\ failed' = "open"
  /\ UNCHANGED <<shell, t_f1, f1_f2, prog, old, offset, found>>

\* execlp fails, or prog.c cannot be opened.
ExecFails ==
  /\ \/ fiu1 = "cat" /\ offset = 0 /\ fiu1' = "gone" /\ UNCHANGED <<fiu2, fiu3>>
     \/ fiu2 = "grep" /\ fiu2' = "gone" /\ UNCHANGED <<fiu1, fiu3>>
     \/ fiu3 \in {"opened", "copy"} /\ fiu3' = "gone" /\ UNCHANGED <<fiu1, fiu2>>
  /\ failed = "none" /\ failed' = "exec"
  /\ UNCHANGED <<shell, t_f1, f1_f2, prog, old, offset, found>>

-----------------------------------------------------------------------------
(* The programs that are run *)

\* A line is read where the file is by now, and sent; SIGPIPE if grep is gone.
CatReads ==
  /\ fiu1 = "cat"
  /\ IF offset >= Len(prog) \/ fiu2 = "gone"
     THEN fiu1' = "gone" /\ UNCHANGED <<t_f1, offset>>
     ELSE /\ t_f1' = Append(t_f1, prog[offset + 1])
          /\ offset' = offset + 1
          /\ UNCHANGED fiu1
  /\ UNCHANGED <<shell, fiu2, fiu3, f1_f2, prog, old, found, failed>>

GrepReads ==
  /\ fiu2 = "grep" /\ t_f1 # <<>>
  /\ t_f1' = Tail(t_f1)
  /\ found' = IF IsInclude(Head(t_f1)) THEN Append(found, Head(t_f1)) ELSE found
  /\ UNCHANGED <<shell, fiu1, fiu2, fiu3, f1_f2, prog, old, offset, failed>>

\* The buffer is written when it is full, which may be at any time, and at the
\* end; SIGPIPE if fiu3 is gone.
GrepWrites ==
  LET AtEnd == t_f1 = <<>> /\ fiu1 = "gone" IN
  /\ fiu2 = "grep" /\ (found # <<>> \/ AtEnd)
  /\ fiu2' = IF AtEnd \/ fiu3 = "gone" THEN "gone" ELSE "grep"
  /\ f1_f2' = IF fiu3 = "gone" THEN f1_f2 ELSE f1_f2 \o found
  /\ found' = <<>>
  /\ UNCHANGED <<shell, fiu1, fiu3, t_f1, prog, old, offset, failed>>

\* open() with O_TRUNC, after grep has opened both its pipes.
Truncate ==
  /\ fiu3 = "opened" /\ fiu3' = "copy"
  /\ prog' = <<>>
  /\ UNCHANGED <<shell, fiu1, fiu2, t_f1, f1_f2, old, offset, found, failed>>

Copies ==
  /\ fiu3 = "copy"
  /\ \/ /\ f1_f2 # <<>>
        /\ prog' = prog \o f1_f2 /\ f1_f2' = <<>>
        /\ UNCHANGED fiu3
     \/ /\ f1_f2 = <<>> /\ fiu2 = "gone"
        /\ fiu3' = "gone"
        /\ UNCHANGED <<prog, f1_f2>>
  /\ UNCHANGED <<shell, fiu1, fiu2, t_f1, old, offset, found, failed>>

-----------------------------------------------------------------------------

CatGrepNext == \/ ShellForks \/ ShellWaits
               \/ OpenT_F1 \/ OpenF1_F2 \/ OpenFails \/ ExecFails
               \/ CatReads \/ GrepReads \/ GrepWrites \/ Truncate \/ Copies

CatGrepSpec == CatGrepStart(TRUE) /\ [][CatGrepNext]_cvars

\* Each process goes on when it can.
CatGrepFairness == /\ WF_cvars(ShellForks \/ ShellWaits)
                   /\ WF_cvars(CatReads)
                   /\ WF_cvars(OpenT_F1 \/ OpenF1_F2 \/ GrepReads \/ GrepWrites)
                   /\ WF_cvars(Truncate \/ Copies)

-----------------------------------------------------------------------------
(* Properties *)

\* The processes are in states they have.
CatGrepTypeOK ==
  /\ shell \in {"fork3", "fork2", "fork1", "wait1", "wait2", "unlinked", "failed"}
  /\ fiu1 \in {"none", "open", "cat", "gone"}
  /\ fiu2 \in {"none", "open", "opened", "grep", "gone"}
  /\ fiu3 \in {"none", "open", "opened", "copy", "gone"}
  /\ failed \in {"none", "fork", "open", "exec"}
  /\ offset \in 0..Len(old)

\* What is written is grep's choice of the lines that were read before the file
\* was cut, all of them and in order, wherever the cut fell; lines that are
\* written are not read again, although it is one file.  After an open() that
\* failed the file is as it was.
WrittenIsGrep ==
  LET Choice(s) == Chosen(s, {"include"}) IN
  /\ failed \in {"none", "fork"} /\ (fiu3 = "copy" \/ (fiu3 = "gone" /\ fiu2 = "gone")) =>
       prog \o f1_f2 \o found \o Choice(t_f1) = Choice(SubSeq(old, 1, offset))
  /\ failed = "open" => prog = old

\* The pipes are removed only when nobody is still about to open them, although
\* the parent does not wait for fiu3: unless an open() failed, in fiu2 say, for
\* which fiu3 then waits in its own.
UnlinkedLate ==
  shell = "unlinked" =>
    fiu1 = "gone" /\ fiu2 = "gone" /\ (fiu3 # "open" \/ failed = "open")

\* Every process has ended, unless a fork() or an open() failed: then children
\* wait in open().
PipeEnded == (fiu1 = "gone" /\ fiu2 = "gone" /\ fiu3 = "gone") \/ failed \in {"fork", "open"}
=============================================================================
