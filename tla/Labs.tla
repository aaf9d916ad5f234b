--------------------------------- MODULE Labs ---------------------------------
(***************************************************************************)
(* The programs of lab_1 to lab_7, one of which is run.  They share nothing *)
(* but the machine; each module keeps the state of its own programs, and a  *)
(* program that is not run has ended.                                      *)
(***************************************************************************)
EXTENDS HandlerServer, PollServer, Dialogue, CatGrep, ThreeSons, Gambling,
        Numbers, FileTools

OtherPrograms == {"dialogue", "cat_grep", "three_sons", "gambling", "numbers", "tools"}

Runs(p) == program = p

LabsInit ==
  /\ program \in HandlerPrograms \cup PollPrograms \cup OtherPrograms
  /\ ServiceStart /\ HandlerStart /\ PollStart
  /\ DialogueStart(Runs("dialogue"))
  /\ CatGrepStart(Runs("cat_grep"))
  /\ SonsStart(Runs("three_sons"))
  /\ GamblingStart(Runs("gambling"))
  /\ NumbersStart(Runs("numbers"))
  /\ ToolsStart(Runs("tools"))

others == <<dvars, cvars, svars, gvars, nvars, tvars>>

LabsNext ==
  \/ /\ program \in HandlerPrograms
     /\ HandlerNext /\ UNCHANGED <<others, fds, nfd, at, sessions, pid>>
  \/ /\ program \in PollPrograms
     /\ PollNext /\ UNCHANGED <<others, worker, td>>
  \/ DialogueNext /\ UNCHANGED <<hvars, pvars, cvars, svars, gvars, nvars, tvars>>
  \/ CatGrepNext /\ UNCHANGED <<hvars, pvars, dvars, svars, gvars, nvars, tvars>>
  \/ SonStep /\ UNCHANGED <<hvars, pvars, dvars, cvars, gvars, nvars, tvars>>
  \/ GamblingNext /\ UNCHANGED <<hvars, pvars, dvars, cvars, svars, nvars, tvars>>
  \/ NumbersNext /\ UNCHANGED <<hvars, pvars, dvars, cvars, svars, gvars, tvars>>
  \/ ToolsNext /\ UNCHANGED <<hvars, pvars, dvars, cvars, svars, gvars, nvars>>

labs == <<hvars, pvars, others>>

LabsSpec ==
  /\ LabsInit /\ [][LabsNext]_labs
  /\ ClientFairness /\ HandlerFairness /\ PollFairness /\ DialogueFairness
  /\ CatGrepFairness /\ SonsFairness /\ GamblingFairness /\ NumbersFairness

\* A client of a key or command service that waits for an answer gets one,
\* unless the server is gone, or its connection cannot be taken, or is passed
\* over, in one of the ways the modules name.
ServiceAnswers ==
  \A c \in Conn : Waiting(c) ~>
    \/ ~Waiting(c) \/ ~up
    \/ program \in HandlerPrograms /\ NoHandlerFor(c)
    \/ program \in PollPrograms /\ PassedOver(c)

\* Whichever program runs, its processes do not wait for each other for ever:
\* no signal, end of file or exit they wait for is lost, but in the cases each
\* part names.  The parts about programs that are not run are true throughout.
ProgramsEnd ==
  []<>(/\ ChildrenReaped /\ DialogueSettled /\ PipeEnded
       /\ SonsEnded /\ KidEnded /\ VisitsEnded)

\* What one process leaves for another in a pipe, a file or a counter: what grep
\* chose arrives whole and in order, and the pipes are there until they are opened
\* or an open() failed; the sons print the lines who passed on; the child is shown
\* no message but its own, though maybe none yet or an old one (ShownIsTrue); and
\* no two clients that have an id have the same.
HandedOver == WrittenIsGrep /\ UnlinkedLate /\ PrintsLogins /\ ShownIsTrue /\ IdsUnique

\* The variables of all programs keep their types.
LabsTypeOK == /\ ServiceTypeOK /\ HandlerTypeOK /\ PollTypeOK /\ DialogueTypeOK
              /\ CatGrepTypeOK /\ SonsTypeOK /\ GamblingTypeOK /\ NumbersTypeOK
              /\ ToolsTypeOK
=============================================================================
