------------------------- MODULE CommandServer_proof -------------------------
(***************************************************************************)
(* Types and sessions of the command server, for any number of clients,     *)
(* sessions and jobs, and with every failure.                               *)
(***************************************************************************)
EXTENDS CommandServer, WellFoundedInduction, SequenceTheorems, TLAPS

Sessions == [SessionSlot -> Session]

\* A job in use has been made for a request.
JobAsks == \A i \in JobSlot : jobs[i].st # "EMPT" => jobs[i].ask \in Request

\* What poll() has promised can be read: only the server takes requests.
AskedThere == server.asked => requests # <<>>

Typed == TypeOK /\ JobAsks /\ AskedThere

\* No two sessions in use, or used before, hide one another from find_ses.
Distinct(ss) ==
  \A i \in SessionSlot : ss[i].in_use =>
    \A k \in 1..(i - 1) : ss[k].fifo # ss[i].fifo

IInv == Typed /\ FindIsActive

Says == {"welcome", "ERR", "text", "list", "bye", "busy", "garbage"}

-----------------------------------------------------------------------------
(* The first of a set of slots *)

\* The least element that First chooses exists.
LEMMA FirstFacts ==
  ASSUME NEW S \in SUBSET Nat, S # {}
  PROVE  First(S) \in S /\ \A y \in S : First(S) <= y
<1> DEFINE R == {p \in Nat \X Nat : p[1] < p[2]}
<1>0. IsWellFoundedOn(R, Nat)
  BY NatLessThanWellFounded DEF OpToRel
<1>1. PICK x \in S : \A y \in S : ~ (<<y, x>> \in R)
  BY <1>0, WFMin
<1>2. ASSUME NEW y \in S PROVE x <= y
  <2>1. x \in Nat /\ y \in Nat /\ ~ (<<y, x>> \in R)
    BY <1>1
  <2>2. y < x => <<y, x>> \in R
    BY <2>1
  <2> QED
    BY <2>1, <2>2
<1> QED
  BY <1>2 DEF First

LEMMA Slots == SessionSlot \subseteq Nat /\ JobSlot \subseteq Nat /\ 0 \notin SessionSlot
  BY CommandAssumption DEF SessionSlot, JobSlot

\* create_get_ses: the path's own session, or a free one before which all are
\* in use, by others.
LEMMA SessionForFacts ==
  ASSUME NEW ss \in Sessions, NEW f \in Client,
         NEW i, i = SessionFor(f, ss), i # 0
  PROVE  /\ i \in SessionSlot
         /\ ss[i].in_use => ss[i].fifo = f
         /\ ~ss[i].in_use =>
              /\ \A k \in SessionSlot : ss[k].in_use => ss[k].fifo # f
              /\ \A k \in 1..(i - 1) : k \in SessionSlot /\ ss[k].in_use
<1> DEFINE own == {k \in SessionSlot : ss[k].fifo = f /\ ss[k].in_use}
           free == {k \in SessionSlot : ~ss[k].in_use}
<1>1. own \in SUBSET Nat /\ free \in SUBSET Nat
  BY Slots
<1>2. i = IF own # {} THEN First(own) ELSE IF free # {} THEN First(free) ELSE 0
  BY DEF SessionFor
<1>3. CASE own # {}
  <2>1. i \in own
    BY <1>1, <1>2, <1>3, FirstFacts
  <2> QED
    BY <2>1
<1>4. CASE own = {}
  <2>1. free # {} /\ i = First(free)
    BY <1>2, <1>4
  <2>2. i \in free /\ \A y \in free : i <= y
    BY <1>1, <2>1, FirstFacts
  <2>3. \A k \in 1..(i - 1) : k \in SessionSlot /\ k \notin free
    BY <2>2, CommandAssumption DEF SessionSlot
  <2> QED
    BY <1>4, <2>2, <2>3
<1> QED
  BY <1>3, <1>4

\* Entering a path keeps the sessions apart.
LEMMA EnteredFacts ==
  ASSUME NEW ss \in Sessions, NEW f \in Client, SessionFor(f, ss) # 0
  PROVE  /\ Entered(f, ss) \in Sessions
         /\ Distinct(ss) => Distinct(Entered(f, ss))
<1> DEFINE i == SessionFor(f, ss)
           new == [fifo |-> f, user |-> Nobody, in_use |-> TRUE]
<1>1. CASE ss[i].in_use
  BY <1>1 DEF Entered
<1>2. CASE ~ss[i].in_use
  <2>1. /\ i \in SessionSlot
        /\ \A k \in SessionSlot : ss[k].in_use => ss[k].fifo # f
        /\ \A k \in 1..(i - 1) : k \in SessionSlot /\ ss[k].in_use
    BY <1>2, SessionForFacts
  <2>2. Entered(f, ss) = [ss EXCEPT ![i] = new]
    BY <1>2 DEF Entered
  <2>3. new \in Session
    BY DEF Session
  <2>4. Entered(f, ss) \in Sessions
    BY <2>2, <2>3 DEF Sessions
  <2>5. /\ Entered(f, ss)[i] = new
        /\ \A k \in SessionSlot \ {i} : Entered(f, ss)[k] = ss[k]
    BY <2>1, <2>2 DEF Sessions
  <2>6. ASSUME Distinct(ss), NEW j \in SessionSlot, Entered(f, ss)[j].in_use,
               NEW k \in 1..(j - 1)
        PROVE  Entered(f, ss)[k].fifo # Entered(f, ss)[j].fifo
    <3>0. k \in SessionSlot /\ k # j
      BY <2>6, CommandAssumption DEF SessionSlot
    <3>1. CASE j = i
      BY <2>1, <2>5, <3>0, <3>1
    <3>2. CASE j # i /\ k = i
      BY <2>1, <2>5, <2>6, <3>2
    <3>3. CASE j # i /\ k # i
      BY <2>5, <2>6, <3>0, <3>3 DEF Distinct
    <3> QED
      BY <3>1, <3>2, <3>3
  <2> QED
    BY <2>4, <2>6 DEF Distinct
<1> QED
  BY <1>1, <1>2

\* A change of the user, or of in_use to FALSE, changes nothing for find_ses.
LEMMA UserFacts ==
  ASSUME NEW ss \in Sessions, NEW i, NEW u \in User \cup {Nobody}
  PROVE  /\ [ss EXCEPT ![i].user = u] \in Sessions
         /\ [ss EXCEPT ![i].in_use = FALSE] \in Sessions
         /\ Distinct(ss) => Distinct([ss EXCEPT ![i].user = u])
         /\ Distinct(ss) => Distinct([ss EXCEPT ![i].in_use = FALSE])
<1> DEFINE tt == [ss EXCEPT ![i].user = u]
           uu == [ss EXCEPT ![i].in_use = FALSE]
<1>1. tt \in Sessions /\ uu \in Sessions
  BY DEF Sessions, Session
<1>2. \A k \in SessionSlot : tt[k].fifo = ss[k].fifo /\ tt[k].in_use = ss[k].in_use
  BY DEF Sessions, Session
<1>3. \A k \in SessionSlot : uu[k].fifo = ss[k].fifo /\ (uu[k].in_use => ss[k].in_use)
  BY DEF Sessions, Session
<1>4. \A k \in SessionSlot : \A j \in 1..(k - 1) : j \in SessionSlot
  BY CommandAssumption DEF SessionSlot
<1> HIDE DEF tt, uu
<1>5. (Distinct(ss) => Distinct(tt)) /\ (Distinct(ss) => Distinct(uu))
  BY <1>2, <1>3, <1>4 DEF Distinct
<1> QED
  BY <1>1, <1>5 DEF tt, uu

-----------------------------------------------------------------------------
(* What the actions are built from *)

LEMMA Parts ==
  IInv <=> /\ sessions \in Sessions /\ jobs \in [JobSlot -> Job]
           /\ requests \in Seq(Request) /\ clients \in [Client -> ClientState]
           /\ fifo \in [Client -> Fifo] /\ server \in Server
           /\ JobAsks /\ AskedThere /\ Distinct(sessions)
  BY DEF IInv, Typed, TypeOK, FindIsActive, Distinct, Sessions

LEMMA NoneTyped ==
  /\ NoJob \in Job /\ NoAnswer \in Answer /\ ClientOff \in ClientState
  /\ Polling \in Server
  BY CommandAssumption
  DEF NoJob, NoAnswer, ClientOff, Polling, Job, Answer, ClientState, Server, CommandNames

LEMMA ThenTyped ==
  ASSUME server \in Server, NEW p \in {"poll", "exited", "log", "hdr", "forw"}, Then(p)
  PROVE  server' \in Server /\ ~server'.asked
<1>1. CASE p \in {"poll", "exited"}
  BY <1>1, NoneTyped DEF Then, Polling, Server
<1>2. CASE p \notin {"poll", "exited"}
  BY <1>2, NoneTyped DEF Then, Server
<1> QED
  BY <1>1, <1>2

LEMMA SayTyped ==
  ASSUME NEW r \in Request, NEW say \in Says
  PROVE  Say(r, say) \in Answer
  BY DEF Say, Request, Answer, Says

LEMMA AnsweringTyped ==
  ASSUME server \in Server, NEW r \in Request, NEW say \in Says,
         NEW p \in {"log", "exited"}, Answering(r, say, p)
  PROVE  server' \in Server /\ ~server'.asked
<1>1. r.from \in Client /\ Say(r, say) \in Answer
  BY SayTyped DEF Request
<1> QED
  BY <1>1 DEF Answering, Server

LEMMA ForkedTyped ==
  ASSUME jobs \in [JobSlot -> Job], JobAsks, NEW r \in Request,
         NEW st \in {"LOG", "HDR"}, Forked(r, st)
  PROVE  jobs' \in [JobSlot -> Job] /\ JobAsks'
<1> DEFINE j == [NoJob EXCEPT !.st = st, !.ask = r]
<1>1. j \in Job /\ j.ask = r
  BY NoneTyped DEF Job, NoJob
<1>2. jobs' = jobs \/ \E i : jobs' = [jobs EXCEPT ![i] = j]
  BY DEF Forked
<1> QED
  BY <1>1, <1>2 DEF JobAsks

LEMMA SettledTyped ==
  ASSUME NEW f \in Fifo, NEW b \in BOOLEAN
  PROVE  Settled(f, b) \in Fifo
<1>1. <<>> \in Seq(Answer)
  OBVIOUS
<1> QED
  BY <1>1 DEF Settled, Fifo

LEMMA ExitTyped ==
  ASSUME server \in Server, fifo \in [Client -> Fifo], Exit
  PROVE  server' \in Server /\ ~server'.asked /\ fifo' \in [Client -> Fifo]
<1>1. server' \in Server /\ ~server'.asked
  BY ThenTyped DEF Exit
<1>2. ASSUME NEW c \in Client
      PROVE  Settled([fifo[c] EXCEPT !.writer = FALSE, !.leaked = FALSE], Reader(c)) \in Fifo
  <2>1. Reader(c) \in BOOLEAN
    BY DEF Reader
  <2>2. [fifo[c] EXCEPT !.writer = FALSE, !.leaked = FALSE] \in Fifo
    BY DEF Fifo
  <2> QED
    BY <2>1, <2>2, SettledTyped
<1> QED
  BY <1>1, <1>2 DEF Exit

-----------------------------------------------------------------------------
(* The clients and the workers *)

LEMMA ClientSound ==
  ASSUME IInv, NEW c \in Client,
         ClientStep(c) \/ Start(c) \/ Send(c) \/ Leave(c)
  PROVE  IInv'
<1>1. /\ sessions \in Sessions /\ jobs \in [JobSlot -> Job]
      /\ requests \in Seq(Request) /\ clients \in [Client -> ClientState]
      /\ fifo \in [Client -> Fifo] /\ server \in Server
      /\ JobAsks /\ AskedThere /\ Distinct(sessions)
  BY Parts
<1>2. UNCHANGED <<sessions, jobs, server>>
  BY DEF ClientStep, Start, Send, Leave, OpenFifo, ReadAnswer, ReadEof
<1>3. requests' \in Seq(Request) /\ AskedThere'
  <2>1. CASE Send(c)
    <3>1. CASE UNCHANGED requests
      BY <1>1, <1>2, <3>1 DEF AskedThere
    <3>2. CASE \E n \in Commands, u \in User :
                 requests' = Append(requests,
                   [from |-> c, name |-> n, user |-> u, req |-> clients[c].req])
      <4>1. PICK n \in Commands, u \in User :
              requests' = Append(requests,
                   [from |-> c, name |-> n, user |-> u, req |-> clients[c].req])
        BY <3>2
      <4>2. [from |-> c, name |-> n, user |-> u, req |-> clients[c].req] \in Request
        BY <1>1, CommandAssumption DEF Request, ClientState
      <4> QED
        BY <1>1, <4>1, <4>2 DEF AskedThere
    <3> QED
      BY <2>1, <3>1, <3>2 DEF Send
  <2>2. CASE ~Send(c)
    BY <1>1, <1>2, <2>2
    DEF AskedThere, ClientStep, Start, Leave, OpenFifo, ReadAnswer, ReadEof
  <2> QED
    BY <2>1, <2>2
<1>4. clients' \in [Client -> ClientState]
  <2>0. /\ \A k \in ClientState, u \in User \cup {Nobody} : Prompt(k, u) \in ClientState
        /\ \A k \in ClientState : k.user \in User \cup {Nobody} /\ k.arg \in User
    BY NoneTyped DEF Prompt, ClientState
  <2>1. CASE Start(c)
    BY <1>1, <2>1, NoneTyped DEF Start, ClientState
  <2>2. CASE Send(c)
    <3>1. CASE clients' = [clients EXCEPT ![c] = ClientOff]
      BY <1>1, <3>1, NoneTyped
    <3>2. ASSUME NEW n \in Commands, NEW u \in User,
                 clients' = [clients EXCEPT ![c] =
                   [clients[c] EXCEPT !.pc = "sent", !.name = n, !.arg = u]]
          PROVE  clients' \in [Client -> ClientState]
      <4>1. n \in CommandNames /\ clients[c] \in ClientState
        BY <1>1, CommandAssumption
      <4>2. [clients[c] EXCEPT !.pc = "sent", !.name = n, !.arg = u] \in ClientState
        BY <4>1 DEF ClientState
      <4> QED
        BY <1>1, <3>2, <4>2
    <3> QED
      BY <2>2, <3>1, <3>2 DEF Send
  <2>3. CASE OpenFifo(c)
    BY <1>1, <2>3 DEF OpenFifo, ClientState
  <2>4. CASE ReadAnswer(c)
    BY <1>1, <2>0, <2>4, NoneTyped DEF ReadAnswer
  <2>5. CASE ReadEof(c)
    <3>1. Prompt(clients[c], clients[c].user) \in ClientState
      BY <1>1, <2>0
    <3>2. clients[c].req \in 0..1 /\ 1 - clients[c].req \in 0..1
      BY <1>1 DEF ClientState
    <3>3. [Prompt(clients[c], clients[c].user) EXCEPT !.req = 1 - clients[c].req] \in ClientState
      BY <3>1, <3>2 DEF ClientState
    <3> QED
      BY <1>1, <2>5, <3>3 DEF ReadEof
  <2>6. CASE Leave(c)
    BY <1>1, <2>6, NoneTyped DEF Leave
  <2> QED
    BY <2>1, <2>2, <2>3, <2>4, <2>5, <2>6 DEF ClientStep
<1>5. fifo' \in [Client -> Fifo]
  <2>1. CASE ReadAnswer(c)
    <3>1. fifo[c] \in Fifo /\ fifo[c].data \in Seq(Answer) /\ fifo[c].data # <<>>
      BY <1>1, <2>1 DEF Fifo, ReadAnswer
    <3>2. Tail(fifo[c].data) \in Seq(Answer)
      BY <3>1
    <3>3. [fifo[c] EXCEPT !.data = Tail(fifo[c].data)] \in Fifo
      BY <3>1, <3>2 DEF Fifo
    <3>4. fifo' = [fifo EXCEPT ![c] =
                    Settled([fifo[c] EXCEPT !.data = Tail(fifo[c].data)], FALSE)]
      BY <2>1 DEF ReadAnswer
    <3> QED
      BY <1>1, <3>3, <3>4, SettledTyped
  <2>2. CASE Leave(c)
    BY <1>1, <2>2, SettledTyped DEF Leave
  <2>3. CASE UNCHANGED fifo
    BY <1>1, <2>3
  <2> QED
    BY <2>1, <2>2, <2>3 DEF ClientStep, Start, Send, OpenFifo, ReadEof
<1>6. JobAsks' /\ Distinct(sessions)'
  BY <1>1, <1>2 DEF JobAsks, Distinct
<1> QED
  BY <1>1, <1>2, <1>3, <1>4, <1>5, <1>6, Parts DEF IInv, Typed, TypeOK, FindIsActive, Distinct, Sessions

LEMMA WorkerSound ==
  ASSUME IInv, NEW i \in JobSlot, WorkerWrite(i) \/ WorkerCrash(i)
  PROVE  IInv'
<1>1. jobs \in [JobSlot -> Job] /\ JobAsks
  BY Parts
<1>2. jobs' \in [JobSlot -> Job] /\ JobAsks'
  <2>1. jobs[i].wrote < 2 /\ jobs[i] \in Job
    BY <1>1 DEF WorkerWrite, WorkerCrash, Works
  <2>2. [jobs[i] EXCEPT !.wrote = @ + 1] \in Job /\ [jobs[i] EXCEPT !.dead = TRUE] \in Job
    <3>1. jobs[i].wrote + 1 \in 0..2
      BY <2>1 DEF Job
    <3> QED
      BY <2>1, <3>1 DEF Job
  <2>3. /\ [jobs[i] EXCEPT !.wrote = @ + 1].st = jobs[i].st
        /\ [jobs[i] EXCEPT !.dead = TRUE].st = jobs[i].st
        /\ [jobs[i] EXCEPT !.wrote = @ + 1].ask = jobs[i].ask
        /\ [jobs[i] EXCEPT !.dead = TRUE].ask = jobs[i].ask
    BY <2>1 DEF Job
  <2> QED
    BY <1>1, <2>2, <2>3 DEF WorkerWrite, WorkerCrash, JobAsks
<1>3. UNCHANGED <<sessions, requests, clients, fifo, server>>
  BY DEF WorkerWrite, WorkerCrash
<1> QED
  BY <1>2, <1>3 DEF IInv, Typed, TypeOK, FindIsActive, AskedThere

-----------------------------------------------------------------------------
(* The server: one request *)

LEMMA CommandSound ==
  ASSUME IInv, NEW r \in Request, NEW ss \in Sessions, Distinct(ss), NEW i,
         \/ Login(r, i, ss) \/ Info(r, i, ss) \/ Users(r, i, ss)
         \/ Logout(r, i, ss) \/ Quit(r, i, ss) \/ QuitServer(r, i, ss)
         \/ Other(r, i, ss)
  PROVE  /\ sessions' \in Sessions /\ Distinct(sessions')
         /\ jobs' \in [JobSlot -> Job] /\ JobAsks'
         /\ server' \in Server /\ ~server'.asked
<1>1. jobs \in [JobSlot -> Job] /\ JobAsks /\ server \in Server
  BY Parts
<1>2. sessions' \in Sessions /\ Distinct(sessions')
  <2>1. CASE sessions' = ss
    BY <2>1
  <2>2. CASE sessions' = [ss EXCEPT ![i].user = Nobody]
    <3>1. Nobody \in User \cup {Nobody}
      OBVIOUS
    <3> QED
      BY <2>2, <3>1, UserFacts
  <2>3. CASE sessions' = [ss EXCEPT ![i].in_use = FALSE]
    BY <2>3, UserFacts
  <2> QED
    BY <2>1, <2>2, <2>3 DEF Login, Info, Users, Logout, Quit, QuitServer, Other
<1>3. jobs' \in [JobSlot -> Job] /\ JobAsks'
  <2>1. CASE UNCHANGED jobs
    BY <1>1, <2>1 DEF JobAsks
  <2>2. CASE \E st \in {"LOG", "HDR"} : Forked(r, st)
    BY <1>1, <2>2, ForkedTyped
  <2>3. CASE jobs' = [j \in JobSlot |-> NoJob]
    BY <2>3, NoneTyped DEF JobAsks, NoJob
  <2> QED
    BY <2>1, <2>2, <2>3 DEF Login, Info, Users, Logout, Quit, QuitServer, Other
<1>4. server' \in Server /\ ~server'.asked
  <2>1. CASE Then("log")
    BY <1>1, <2>1, ThenTyped
  <2>2. CASE \E say \in Says, p \in {"log", "exited"} : Answering(r, say, p)
    BY <1>1, <2>2, AnsweringTyped
  <2> QED
    BY <2>1, <2>2 DEF Says, Login, Info, Users, Logout, Quit, QuitServer, Other
<1> QED
  BY <1>2, <1>3, <1>4

LEMMA BusySound ==
  ASSUME IInv, NEW r \in Request, Busy(r)
  PROVE  /\ UNCHANGED <<sessions, jobs>>
         /\ clients' \in [Client -> ClientState]
         /\ fifo' \in [Client -> Fifo]
         /\ server' \in Server /\ ~server'.asked
<1>1. /\ clients \in [Client -> ClientState] /\ fifo \in [Client -> Fifo]
      /\ server \in Server /\ r.from \in Client
  BY Parts DEF Request
<1>2. CASE Exit /\ UNCHANGED clients
  BY <1>1, <1>2, ExitTyped DEF Busy
<1>3. CASE /\ clients' = [clients EXCEPT ![r.from].pc = "reading"]
           /\ fifo' = [fifo EXCEPT ![r.from].leaked = TRUE]
           /\ server' = [server EXCEPT !.pc = "write", !.asked = FALSE, !.to = r.from,
                           !.then = "log", !.answer = Say(r, "busy")]
  <2>1. clients' \in [Client -> ClientState]
    BY <1>1, <1>3 DEF ClientState
  <2>2. fifo' \in [Client -> Fifo]
    BY <1>1, <1>3 DEF Fifo
  <2>3. Say(r, "busy") \in Answer
    BY SayTyped DEF Says
  <2>4. server' \in Server /\ ~server'.asked
    BY <1>1, <1>3, <2>3 DEF Server
  <2> QED
    BY <2>1, <2>2, <2>4 DEF Busy
<1> QED
  BY <1>2, <1>3 DEF Busy

LEMMA RequestSound ==
  ASSUME IInv, TakeRequest \/ NoRequest
  PROVE  IInv'
<1>1. /\ sessions \in Sessions /\ jobs \in [JobSlot -> Job]
      /\ requests \in Seq(Request) /\ clients \in [Client -> ClientState]
      /\ fifo \in [Client -> Fifo] /\ server \in Server
      /\ JobAsks /\ AskedThere /\ Distinct(sessions)
  BY Parts
<1>2. SUFFICES /\ sessions' \in Sessions /\ Distinct(sessions')
               /\ jobs' \in [JobSlot -> Job] /\ JobAsks'
               /\ requests' \in Seq(Request)
               /\ clients' \in [Client -> ClientState]
               /\ fifo' \in [Client -> Fifo]
               /\ server' \in Server /\ ~server'.asked
  BY <1>2 DEF IInv, Typed, TypeOK, FindIsActive, Distinct, Sessions, AskedThere
<1>3. CASE NoRequest
  BY <1>1, <1>3, ThenTyped DEF NoRequest, JobAsks, Distinct
<1>4. CASE TakeRequest
  <2> DEFINE r == Head(requests)
             i == SessionFor(r.from, sessions)
             ss == Entered(r.from, sessions)
  <2>1. requests # <<>>
    BY <1>1, <1>4 DEF TakeRequest, AskedThere
  <2>2. r \in Request /\ Tail(requests) \in Seq(Request) /\ r.from \in Client
    <3>1. r \in Request /\ Tail(requests) \in Seq(Request)
      BY <1>1, <2>1, HeadTailProperties
    <3> QED
      BY <3>1 DEF Request
  <2>3. requests' \in Seq(Request)
    BY <1>4, <2>2 DEF TakeRequest
  <2>4. CASE Busy(r)
    BY <1>1, <2>2, <2>3, <2>4, BusySound DEF JobAsks, Distinct
  <2>5. CASE i # 0 /\ ~Busy(r)
    <3>1. ss \in Sessions /\ Distinct(ss)
      BY <1>1, <2>2, <2>5, EnteredFacts
    <3>2. /\ \/ Login(r, i, ss) \/ Info(r, i, ss) \/ Users(r, i, ss)
             \/ Logout(r, i, ss) \/ Quit(r, i, ss) \/ QuitServer(r, i, ss)
             \/ Other(r, i, ss)
          /\ UNCHANGED <<clients, fifo>>
      BY <1>4, <2>5 DEF TakeRequest
    <3> HIDE DEF r, i, ss
    <3> QED
      BY <1>1, <2>2, <2>3, <3>1, <3>2, CommandSound
  <2> QED
    BY <1>4, <2>4, <2>5 DEF TakeRequest
<1> QED
  BY <1>3, <1>4

-----------------------------------------------------------------------------
(* The server: the loops over the jobs, and the answers *)

\* The job that the loops look at next has been made for a request.
LEMMA AtFacts ==
  ASSUME IInv, NEW st \in {"LOG", "HDR", "FORW"}, At(st)
  PROVE  /\ First(server.rest) \in JobSlot
         /\ jobs[First(server.rest)] \in Job
         /\ jobs[First(server.rest)].ask \in Request
         /\ jobs[First(server.rest)].ask.from \in Client
<1>1. server.rest \in SUBSET Nat /\ server.rest \subseteq JobSlot /\ server.rest # {}
  BY Parts, Slots DEF Server, At
<1>2. First(server.rest) \in JobSlot
  BY <1>1, FirstFacts
<1>3. jobs[First(server.rest)] \in Job
  BY <1>2, Parts
<1>4. jobs[First(server.rest)].ask \in Request
  BY <1>2, Parts DEF At, JobAsks
<1> QED
  BY <1>2, <1>3, <1>4 DEF Request

LEMMA PollSound ==
  ASSUME IInv, Poll
  PROVE  IInv'
<1> DEFINE used == {i \in JobSlot : jobs[i].st # "EMPT"}
           ready == {i \in used : jobs[i].wrote > 0 \/ (jobs[i].st = "LOG" /\ jobs[i].dead)}
<1>1. server' = [server EXCEPT !.pc = "request", !.asked = (requests # <<>>),
                               !.ready = ready, !.rest = used]
  BY DEF Poll
<1>2. ready \in SUBSET JobSlot /\ used \in SUBSET JobSlot /\ server \in Server
  BY Parts
<1> HIDE DEF ready, used
<1>3. server' \in Server /\ (server'.asked => requests # <<>>)
  BY <1>1, <1>2 DEF Server
<1> QED
  BY <1>3 DEF Poll, IInv, Typed, TypeOK, FindIsActive, JobAsks, AskedThere

LEMMA LoopSound ==
  ASSUME IInv, LogLoop \/ HdrLoop \/ ForwLoop
  PROVE  IInv'
<1> DEFINE i == First(server.rest)
           j == jobs[i]
<1>1. /\ sessions \in Sessions /\ jobs \in [JobSlot -> Job]
      /\ requests \in Seq(Request) /\ clients \in [Client -> ClientState]
      /\ fifo \in [Client -> Fifo] /\ server \in Server
      /\ JobAsks /\ AskedThere /\ Distinct(sessions)
  BY Parts
<1>2. SUFFICES /\ sessions' \in Sessions /\ Distinct(sessions')
               /\ jobs' \in [JobSlot -> Job] /\ JobAsks'
               /\ fifo' \in [Client -> Fifo]
               /\ server' \in Server /\ (server'.asked => server.asked)
  <2>1. UNCHANGED <<requests, clients>>
    BY DEF LogLoop, HdrLoop, ForwLoop
  <2> QED
    BY <1>1, <1>2, <2>1 DEF IInv, Typed, TypeOK, FindIsActive, Distinct, Sessions, AskedThere
<1>3. CASE \E p \in {"poll", "hdr", "forw"} :
             Then(p) /\ UNCHANGED <<sessions, jobs, fifo>>
  BY <1>1, <1>3, ThenTyped DEF JobAsks
<1>4. CASE Exit /\ UNCHANGED <<sessions, jobs>>
  BY <1>1, <1>4, ExitTyped DEF JobAsks
<1>5. CASE /\ server' = [server EXCEPT !.rest = @ \ {i}]
           /\ UNCHANGED <<sessions, jobs, fifo>>
  <2>1. server.rest \ {i} \in SUBSET JobSlot
    BY <1>1 DEF Server
  <2>2. server' \in Server /\ server'.asked = server.asked
    BY <1>1, <1>5, <2>1 DEF Server
  <2> QED
    BY <1>1, <1>5, <2>2 DEF JobAsks
<1>6. ASSUME jobs' = [jobs EXCEPT ![i] = NoJob]
      PROVE  jobs' \in [JobSlot -> Job] /\ JobAsks'
  BY <1>1, <1>6, NoneTyped DEF JobAsks, NoJob
<1>7. ASSUME At("LOG"), NEW say \in {"welcome", "ERR"}, NEW k,
             \/ sessions' = sessions
             \/ sessions' = [sessions EXCEPT ![k].user = j.ask.user],
             server' = [server EXCEPT !.pc = "open", !.rest = @ \ {i}, !.to = j.ask.from,
                          !.answer = Say(j.ask, say), !.then = "log"],
             jobs' = [jobs EXCEPT ![i] = NoJob],
             UNCHANGED fifo
      PROVE  <1>2!1
  <2>1. j.ask \in Request /\ j.ask.from \in Client
    BY <1>7, AtFacts
  <2>2. Say(j.ask, say) \in Answer
    BY <2>1, SayTyped DEF Says
  <2>3. server.rest \ {i} \in SUBSET JobSlot
    BY <1>1 DEF Server
  <2>4. server' \in Server /\ server'.asked = server.asked
    BY <1>1, <1>7, <2>1, <2>2, <2>3 DEF Server
  <2>5. sessions' \in Sessions /\ Distinct(sessions')
    <3>1. j.ask.user \in User \cup {Nobody}
      BY <2>1 DEF Request
    <3>2. CASE sessions' = sessions
      BY <1>1, <3>2
    <3>3. CASE sessions' = [sessions EXCEPT ![k].user = j.ask.user]
      <4> HIDE DEF j
      <4> QED
        BY <1>1, <3>1, <3>3, UserFacts
    <3> QED
      BY <1>7, <3>2, <3>3
  <2> QED
    BY <1>1, <1>6, <1>7, <2>4, <2>5
<1>8. CASE LogLoop
  <2> DEFINE ok == j.wrote = 2 /\ j.ask.user \in Known
             own == FindSes(j.ask.from)
  <2>1. CASE ~At("LOG")
    BY <1>3, <1>8, <2>1 DEF LogLoop
  <2>2. CASE At("LOG") /\ i \notin server.ready
    BY <1>5, <1>8, <2>2 DEF LogLoop
  <2>3. CASE Exit /\ UNCHANGED <<sessions, jobs>>
    BY <1>4, <2>3
  <2>4. CASE /\ At("LOG") /\ i \in server.ready
             /\ ~(Exit /\ UNCHANGED <<sessions, jobs>>)
    <3>1. /\ sessions' = IF ok THEN [sessions EXCEPT ![own].user = j.ask.user]
                         ELSE sessions
          /\ server' = [server EXCEPT !.pc = "open", !.rest = @ \ {i}, !.to = j.ask.from,
                          !.answer = Say(j.ask, IF ok THEN "welcome" ELSE "ERR"),
                          !.then = "log"]
          /\ jobs' = [jobs EXCEPT ![i] = NoJob]
          /\ UNCHANGED fifo
      BY <1>8, <2>4 DEF LogLoop
    <3> HIDE DEF ok, own
    <3>2. CASE ok
      BY <1>7, <2>4, <3>1, <3>2
    <3>3. CASE ~ok
      BY <1>7, <2>4, <3>1, <3>3
    <3> QED
      BY <3>2, <3>3
  <2> QED
    BY <2>1, <2>2, <2>3, <2>4
<1>9. CASE HdrLoop
  <2>1. CASE ~(At("HDR") /\ i \in server.ready)
    BY <1>3, <1>9, <2>1 DEF HdrLoop
  <2>2. CASE At("HDR") /\ i \in server.ready
    <3>1. /\ jobs' = [jobs EXCEPT ![i].st = "FORW"]
          /\ server' = [server EXCEPT !.pc = "open", !.to = j.ask.from, !.then = "forw"]
          /\ UNCHANGED <<sessions, fifo>>
      BY <1>9, <2>2 DEF HdrLoop
    <3>2. i \in JobSlot /\ j \in Job /\ j.ask \in Request /\ j.ask.from \in Client
      BY <2>2, AtFacts
    <3>3. jobs' \in [JobSlot -> Job] /\ JobAsks'
      BY <1>1, <3>1, <3>2 DEF Job, JobAsks
    <3>4. server' \in Server /\ server'.asked = server.asked
      BY <1>1, <3>1, <3>2 DEF Server
    <3> QED
      BY <1>1, <3>1, <3>3, <3>4
  <2> QED
    BY <2>1, <2>2
<1>10. CASE ForwLoop
  <2>1. CASE ~(At("FORW") /\ i \in server.ready)
    BY <1>3, <1>10, <2>1 DEF ForwLoop
  <2>2. CASE At("FORW") /\ i \in server.ready
    <3>1. PICK say \in Says :
            /\ server' = [server EXCEPT !.pc = "write", !.then = "poll",
                                        !.answer = Say(j.ask, say)]
            /\ jobs' = [jobs EXCEPT ![i] = NoJob]
            /\ UNCHANGED <<sessions, fifo>>
      BY <1>10, <2>2 DEF ForwLoop, Says
    <3>2. Say(j.ask, say) \in Answer
      BY <2>2, AtFacts, SayTyped
    <3>3. server' \in Server /\ server'.asked = server.asked
      BY <1>1, <3>1, <3>2 DEF Server
    <3> QED
      BY <1>1, <1>6, <3>1, <3>3
  <2> QED
    BY <2>1, <2>2
<1> QED
  BY <1>8, <1>9, <1>10

LEMMA AnswerSound ==
  ASSUME IInv, OpenAnswer \/ WriteAnswer \/ CloseAnswer \/ Interrupt
  PROVE  IInv'
<1> DEFINE c == server.to
<1>1. /\ sessions \in Sessions /\ jobs \in [JobSlot -> Job]
      /\ requests \in Seq(Request) /\ clients \in [Client -> ClientState]
      /\ fifo \in [Client -> Fifo] /\ server \in Server
      /\ JobAsks /\ AskedThere /\ Distinct(sessions)
  BY Parts
<1>2. UNCHANGED <<sessions, jobs, requests>>
  BY DEF OpenAnswer, WriteAnswer, CloseAnswer, Interrupt
<1>3. SUFFICES /\ clients' \in [Client -> ClientState]
               /\ fifo' \in [Client -> Fifo]
               /\ server' \in Server /\ (server'.asked => server.asked)
  BY <1>1, <1>2, <1>3
  DEF IInv, Typed, TypeOK, FindIsActive, Distinct, Sessions, JobAsks, AskedThere
<1>4. CASE Exit /\ UNCHANGED clients
  BY <1>1, <1>4, ExitTyped
<1>5. ASSUME NEW p \in {"poll", "log", "forw", "exited"}, Then(p)
      PROVE  server' \in Server /\ ~server'.asked
  BY <1>1, <1>5, ThenTyped
<1>6. server.then \in {"poll", "log", "forw", "exited"} /\ server.answer \in Answer
  BY <1>1 DEF Server
<1>7. CASE OpenAnswer
  <2>1. clients' \in [Client -> ClientState]
    BY <1>1, <1>7 DEF OpenAnswer, ClientState
  <2>2. fifo' \in [Client -> Fifo]
    BY <1>1, <1>7 DEF OpenAnswer, Fifo
  <2>3. server' \in Server /\ server'.asked = server.asked
    BY <1>1, <1>7 DEF OpenAnswer, Server
  <2> QED
    BY <2>1, <2>2, <2>3
<1>8. CASE WriteAnswer /\ Reader(c)
  <2>1. fifo' \in [Client -> Fifo]
    <3>1. ASSUME c \in Client
          PROVE  [fifo[c] EXCEPT !.data = Append(fifo[c].data, server.answer)] \in Fifo
      <4>1. fifo[c] \in Fifo /\ fifo[c].data \in Seq(Answer)
        BY <1>1, <3>1 DEF Fifo
      <4>2. Append(fifo[c].data, server.answer) \in Seq(Answer)
        BY <1>6, <4>1
      <4> QED
        BY <4>1, <4>2 DEF Fifo
    <3> QED
      BY <1>1, <1>8, <3>1 DEF WriteAnswer
  <2>2. server' \in Server /\ (server'.asked => server.asked)
    <3>1. CASE Then(server.then)
      BY <1>5, <1>6, <3>1
    <3>2. CASE server' = [server EXCEPT !.pc = "close"]
      BY <1>1, <3>2 DEF Server
    <3> QED
      BY <1>8, <3>1, <3>2 DEF WriteAnswer
  <2> QED
    BY <1>1, <1>8, <2>1, <2>2 DEF WriteAnswer
<1>9. CASE CloseAnswer /\ server.then # "exited"
  <2>1. fifo' \in [Client -> Fifo]
    <3>1. ASSUME c \in Client
          PROVE  Settled([fifo[c] EXCEPT !.writer = FALSE], Reader(c)) \in Fifo
      <4>1. [fifo[c] EXCEPT !.writer = FALSE] \in Fifo
        BY <1>1, <3>1 DEF Fifo
      <4>2. Reader(c) \in BOOLEAN
        BY DEF Reader
      <4> QED
        BY <4>1, <4>2, SettledTyped
    <3> QED
      BY <1>1, <1>9, <3>1 DEF CloseAnswer
  <2> QED
    BY <1>1, <1>5, <1>6, <1>9, <2>1 DEF CloseAnswer
<1> QED
  BY <1>4, <1>7, <1>8, <1>9 DEF WriteAnswer, CloseAnswer, Interrupt

-----------------------------------------------------------------------------
(* The theorems *)

LEMMA Initially == Init => IInv
<1> SUFFICES ASSUME Init PROVE IInv
  OBVIOUS
<1>1. sessions \in Sessions /\ Distinct(sessions)
  BY DEF Init, Sessions, Session, Distinct
<1>2. jobs \in [JobSlot -> Job] /\ JobAsks
  BY NoneTyped DEF Init, JobAsks, NoJob
<1>3. requests \in Seq(Request) /\ clients \in [Client -> ClientState]
  BY NoneTyped DEF Init
<1>4. fifo \in [Client -> Fifo]
  <2>1. <<>> \in Seq(Answer)
    OBVIOUS
  <2>2. [writer |-> FALSE, leaked |-> FALSE, data |-> <<>>] \in Fifo
    BY <2>1 DEF Fifo
  <2> QED
    BY <2>2 DEF Init
<1>5. server \in Server /\ AskedThere
  BY NoneTyped DEF Init, AskedThere, Polling
<1> QED
  BY <1>1, <1>2, <1>3, <1>4, <1>5, Parts

LEMMA Inductive == IInv /\ [Next]_vars => IInv'
<1> SUFFICES ASSUME IInv, [Next]_vars PROVE IInv'
  OBVIOUS
<1>1. CASE ServerStep \/ Interrupt
  BY <1>1, PollSound, RequestSound, LoopSound, AnswerSound DEF ServerStep
<1>2. CASE \E c \in Client : ClientStep(c) \/ Start(c) \/ Send(c) \/ Leave(c)
  BY <1>2, ClientSound
<1>3. CASE \E i \in JobSlot : WorkerWrite(i) \/ WorkerCrash(i)
  BY <1>3, WorkerSound
<1>4. CASE UNCHANGED vars
  BY <1>4 DEF vars, IInv, Typed, TypeOK, FindIsActive, JobAsks, AskedThere
<1> QED
  BY <1>1, <1>2, <1>3, <1>4 DEF Next

\* The inductive invariant holds in every state of the command server: the
\* types, a request for every job that is not EMPT (server.c:334-338), a request
\* to read whenever poll() has promised one (server.c:265), and sessions that do
\* not hide one another.
THEOREM Invariance == Spec => []IInv
  BY Initially, Inductive, PTL DEF Spec

\* Every variable of the command server keeps its type (server.c:31-54).
THEOREM TypeCorrect == Spec => []TypeOK
<1>1. IInv => TypeOK
  BY DEF IInv, Typed
<1> QED
  BY Invariance, <1>1, PTL

\* For any number of sessions and clients, and whatever fails: looking at the
\* path alone (server.c:81) is enough to find the session that is in use,
\* although quit leaves the path in the slot (server.c:480).
THEOREM FoundActive == Spec => []FindIsActive
<1>1. IInv => FindIsActive
  BY DEF IInv
<1> QED
  BY Invariance, <1>1, PTL

\* A request gives no session a user: it may take one away, or empty a slot.
LEMMA RequestGrantsNone ==
  ASSUME IInv, TakeRequest, NEW i \in SessionSlot
  PROVE  sessions'[i].user \in {Nobody, sessions[i].user}
<1>0. PICK r : r = Head(requests)
  OBVIOUS
<1>1. PICK k : k = SessionFor(r.from, sessions)
  OBVIOUS
<1>2. PICK ss : ss = Entered(r.from, sessions)
  OBVIOUS
<1>3. \/ UNCHANGED sessions
      \/ sessions' = ss \/ sessions' = [ss EXCEPT ![k].user = Nobody]
      \/ sessions' = [ss EXCEPT ![k].in_use = FALSE]
  BY <1>0, <1>1, <1>2
  DEF TakeRequest, Busy, Login, Info, Users, Logout, Quit, QuitServer, Other
<1>4. CASE UNCHANGED sessions
  BY <1>4
<1>5. CASE ~UNCHANGED sessions
  <2>1. sessions \in Sessions /\ Distinct(sessions)
    BY Parts
  <2>2. k # 0 /\ r.from \in Client
    <3>1. requests # <<>> /\ requests \in Seq(Request)
      BY Parts DEF TakeRequest, AskedThere
    <3>2. r \in Request
      BY <1>0, <3>1, HeadTailProperties
    <3>3. k # 0
      BY <1>0, <1>1, <1>5 DEF TakeRequest, Busy
    <3> QED
      BY <3>2, <3>3 DEF Request
  <2>3. ss \in Sessions
    BY <1>1, <1>2, <2>1, <2>2, EnteredFacts
  <2>4. ss[i].user \in {Nobody, sessions[i].user}
    <3>1. ss = sessions
          \/ ss = [sessions EXCEPT ![k] = [fifo |-> r.from, user |-> Nobody, in_use |-> TRUE]]
      BY <1>1, <1>2 DEF Entered
    <3> QED
      BY <2>1, <3>1 DEF Sessions
  <2>5. sessions'[i].user \in {Nobody, ss[i].user}
    <3>1. ss[i] \in Session
      BY <2>3 DEF Sessions
    <3> QED
      BY <1>3, <1>5, <2>3, <3>1 DEF Sessions, Session
  <2> QED
    BY <2>4, <2>5
<1> QED
  BY <1>4, <1>5

\* The only step that does is the LOG loop's, for the job it looks at.
LEMMA LoginGrants ==
  ASSUME IInv, LogLoop, NEW i \in SessionSlot,
         sessions'[i].user \notin {Nobody, sessions[i].user}
  PROVE  \E j \in JobSlot : /\ jobs[j].st = "LOG" /\ jobs[j].ask.user = sessions'[i].user
                            /\ jobs[j].ask.from = sessions'[i].fifo
<1>0. PICK j : j = First(server.rest)
  OBVIOUS
<1>1. PICK r : r = jobs[j].ask
  OBVIOUS
<1>2. PICK own : own = FindSes(r.from)
  OBVIOUS
<1>3. /\ At("LOG") /\ own # 0
      /\ sessions' = [sessions EXCEPT ![own].user = r.user]
  BY <1>0, <1>1, <1>2 DEF LogLoop
<1>4. j \in JobSlot /\ jobs[j].st = "LOG" /\ r.from \in Client
  BY <1>0, <1>1, <1>3, AtFacts DEF At
<1>5. own \in SessionSlot /\ sessions[own].fifo = r.from
  <2> DEFINE slots == {k \in SessionSlot : sessions[k].fifo = r.from}
  <2>1. slots \in SUBSET Nat
    BY Slots
  <2>2. slots # {} /\ own = First(slots)
    BY <1>2, <1>3 DEF FindSes
  <2> QED
    BY <2>1, <2>2, FirstFacts
<1>6. sessions \in Sessions
  BY Parts
<1>7. i = own /\ sessions'[i].user = r.user /\ sessions'[i].fifo = r.from
  BY <1>3, <1>5, <1>6 DEF Sessions, Session
<1> QED
  BY <1>1, <1>4, <1>7

\* For any number of clients, sessions and jobs, and whatever fails: a session
\* gets a user only from a job made for its own client's login of that user
\* (server.c:622), although find_ses looks at the path only.
THEOREM GrantedByLogin == Spec => UserGranted
<1> DEFINE Granted == \A i \in SessionSlot : LET u == sessions'[i].user IN
              u \notin {Nobody, sessions[i].user} =>
                \E j \in JobSlot : /\ jobs[j].st = "LOG" /\ jobs[j].ask.user = u
                                   /\ jobs[j].ask.from = sessions'[i].fifo
<1>1. ASSUME IInv, [Next]_vars
      PROVE  [Granted]_vars
  <2>1. CASE TakeRequest
    BY <1>1, <2>1, RequestGrantsNone
  <2>2. CASE LogLoop
    BY <1>1, <2>2, LoginGrants
  <2>3. CASE UNCHANGED sessions
    BY <2>3
  <2>4. \/ TakeRequest \/ LogLoop \/ UNCHANGED sessions
    BY <1>1 DEF Next, ServerStep, ClientStep, Poll, NoRequest, HdrLoop, ForwLoop, OpenAnswer,
       WriteAnswer, CloseAnswer, Interrupt, OpenFifo, ReadAnswer, ReadEof, Start, Send, Leave,
       WorkerWrite, WorkerCrash, vars
  <2> QED
    BY <2>1, <2>2, <2>3, <2>4
<1> HIDE DEF Granted
<1>2. Spec => [][Granted]_vars
  BY Invariance, <1>1, PTL DEF Spec
<1>3. [][Granted]_vars => UserGranted
  BY PTL DEF UserGranted, Granted
<1> QED
  BY <1>2, <1>3, PTL
=============================================================================
