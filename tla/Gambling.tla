------------------------------- MODULE Gambling -------------------------------
(***************************************************************************)
(* lab_2/gambling_with_kids: a parent tells its child, by the parity of the *)
(* child's process id, one of two messages:                                *)
(*   "sigs"    with a signal for each;                                      *)
(*   "normal"  in message.txt, whose name both know;                        *)
(*   "dir"     in a file the child finds because it is new.                 *)
(* message.txt is followed by inode, for it is opened, removed and created  *)
(* by both.  Inode 1 is what an earlier run left, 2 what this one creates.  *)
(***************************************************************************)
EXTENDS Naturals

VARIABLES game,     \* which of the three programs
          even,     \* the parity of the child's process id
          mother,   \* the parent: where it is
          kid,      \* the child: where it is
          signal,   \* the signal sent
          name,     \* the inode of message.txt; 0: there is none
          inode,    \* [1..2 -> content]
          pen,      \* the inode the parent writes to
          book,     \* the inode the child reads
          listed,   \* "dir": message.txt is in the list the child has
          shown,    \* what the child has shown
          leftover  \* message.txt was there when the game began

gvars == <<game, even, mother, kid, signal, name, inode, pen, book, listed, shown, leftover>>

Content == {"none", "", "old", "even", "odd"}

Message == IF even THEN "even" ELSE "odd"

\* A program that is not run has ended.
GamblingStart(runs) ==
  /\ game \in IF runs THEN {"sigs", "normal", "dir"} ELSE {"normal"}
  /\ even \in IF runs THEN BOOLEAN ELSE {TRUE}
  /\ mother = IF runs THEN "start" ELSE "gone"
  /\ kid = IF runs THEN "none" ELSE "gone"
  /\ signal = "none"
  /\ leftover \in IF runs THEN BOOLEAN ELSE {FALSE}
  /\ name = IF leftover THEN 1 ELSE 0
  /\ inode = [i \in 1..2 |-> IF i = 1 /\ leftover THEN "old" ELSE "none"]
  /\ pen = 0 /\ book = 0
  /\ listed = FALSE
  /\ shown = "none"

\* The handlers are there before the fork.
Begin ==
  /\ mother = "start"
  /\ \/ mother' = "told" /\ kid' = IF game = "dir" THEN "list" ELSE "look"
     \/ mother' = "gone" /\ UNCHANGED kid
  /\ UNCHANGED <<game, even, signal, name, inode, pen, book, listed, shown, leftover>>

-----------------------------------------------------------------------------
(* The parent *)

SendSignal ==
  /\ game = "sigs" /\ mother = "told"
  /\ signal' = Message
  /\ mother' = IF even THEN "wait" ELSE "gone"
  /\ UNCHANGED <<game, even, kid, name, inode, pen, book, listed, shown, leftover>>

\* fopen "w": an inode that has the name is emptied.
OpenToWrite ==
  /\ game \in {"normal", "dir"} /\ mother = "told"
  /\ \/ /\ mother' = "write"
        /\ pen' = IF name = 0 THEN 2 ELSE name
        /\ name' = pen'
        /\ inode' = [inode EXCEPT ![pen'] = ""]
     \/ mother' = "gone" /\ UNCHANGED <<name, inode, pen>>
  /\ UNCHANGED <<game, even, kid, signal, book, listed, shown, leftover>>

\* The text is in the file with fclose(); "normal" ends at once, without it if
\* the process id is odd.
Write ==
  /\ mother = "write"
  /\ IF game = "normal" /\ ~even THEN mother' = "remove" /\ UNCHANGED inode
     ELSE /\ inode' = [inode EXCEPT ![pen] = Message]
          /\ mother' = IF game = "dir" /\ even THEN "wait" ELSE "gone"
  /\ UNCHANGED <<game, even, kid, signal, name, pen, book, listed, shown, leftover>>

RemoveMessage ==
  /\ mother = "remove" /\ mother' = "gone"
  /\ name' = 0
  /\ UNCHANGED <<game, even, kid, signal, inode, pen, book, listed, shown, leftover>>

WaitForKid ==
  /\ mother = "wait" /\ kid = "gone" /\ mother' = "gone"
  /\ UNCHANGED <<game, even, kid, signal, name, inode, pen, book, listed, shown, leftover>>

-----------------------------------------------------------------------------
(* The child *)

GetSignal ==
  /\ game = "sigs" /\ kid = "look" /\ signal # "none"
  /\ shown' = signal
  /\ kid' = "gone"
  /\ UNCHANGED <<game, even, mother, signal, name, inode, pen, book, listed, leftover>>

\* "normal": stat() until the file is there and not empty.
SeeFile ==
  /\ game = "normal" /\ kid = "look"
  /\ name # 0 /\ inode[name] # ""
  /\ kid' = "open"
  /\ UNCHANGED <<game, even, mother, signal, name, inode, pen, book, listed, shown, leftover>>

\* "dir": the first MonitDir.
FirstList ==
  /\ kid = "list" /\ kid' = "look"
  /\ listed' = (name # 0)
  /\ UNCHANGED <<game, even, mother, signal, name, inode, pen, book, shown, leftover>>

\* "dir": a later MonitDir; the file is new if the list before did not have it.
ListAgain ==
  /\ game = "dir" /\ kid = "look"
  /\ listed' = (name # 0)
  /\ kid' = IF name # 0 /\ ~listed THEN "open" ELSE "look"
  /\ UNCHANGED <<game, even, mother, signal, name, inode, pen, book, shown, leftover>>

\* A file that is gone ends the child.
OpenToRead ==
  /\ kid = "open"
  /\ kid' = IF name = 0 THEN "gone" ELSE "read"
  /\ book' = name
  /\ UNCHANGED <<game, even, mother, signal, name, inode, pen, listed, shown, leftover>>

\* All lines are shown, and the name is removed, whatever it stands for by now.
Read ==
  /\ kid = "read" /\ kid' = "gone"
  /\ shown' = inode[book]
  /\ name' = 0
  /\ UNCHANGED <<game, even, mother, signal, inode, pen, book, listed, leftover>>

-----------------------------------------------------------------------------

MotherStep == \/ Begin \/ SendSignal \/ OpenToWrite \/ Write \/ RemoveMessage
              \/ WaitForKid

KidStep == GetSignal \/ SeeFile \/ FirstList \/ ListAgain \/ OpenToRead \/ Read

GamblingNext == MotherStep \/ KidStep

GamblingSpec == GamblingStart(TRUE) /\ [][GamblingNext]_gvars

\* Both processes run; listing the directory again is a step as well.
GamblingFairness == WF_gvars(MotherStep) /\ WF_gvars(KidStep)

-----------------------------------------------------------------------------
(* Properties *)

\* Processes and contents are what they may be.
GamblingTypeOK ==
  /\ mother \in {"start", "told", "write", "remove", "wait", "gone"}
  /\ kid \in {"none", "list", "look", "open", "read", "gone"}
  /\ signal \in Content /\ shown \in Content
  /\ inode \in [1..2 -> Content]
  /\ {name, pen, book} \subseteq 0..2
  /\ listed \in BOOLEAN

\* The child never shows what is meant for the other parity, and by signals always
\* shows its message.  Through a file it may show nothing, read between the
\* parent's fopen() and its fclose(): in "dir", or in "normal" after a file from an
\* earlier game, which it may show as well.
ShownIsTrue ==
  /\ \/ shown \in {"none", Message}
     \/ shown = "" /\ (game = "dir" \/ (game = "normal" /\ leftover))
     \/ shown = "old" /\ game = "normal" /\ leftover
  /\ game = "sigs" /\ kid = "gone" => shown = Message

\* The child has ended, unless the parent wrote nothing ("normal" with an odd process
\* id, or a fopen() that failed), or its first list had the file already.
KidEnded ==
  LET Unwritten == mother = "gone" /\ (pen = 0 \/ (game = "normal" /\ ~even)) IN
  \/ kid = "gone" \/ (mother = "gone" /\ kid = "none")
  \/ game # "sigs" /\ Unwritten
  \/ game = "dir" /\ listed
=============================================================================
