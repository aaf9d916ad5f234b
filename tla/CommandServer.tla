---------------------------- MODULE CommandServer ----------------------------
(***************************************************************************)
(* The command server of tema_1: server.c and client.c.  Clients write      *)
(* requests to one FIFO and read the answers from FIFOs of their own, named *)
(* after their process ids.  One server process polls the request FIFO and  *)
(* the pipes of the workers it has forked for the slow commands.            *)
(*                                                                         *)
(* A client stands for its FIFO path: when the process is gone, a later one *)
(* with the same id uses the path again.  An answer is what the client      *)
(* tells apart: the greeting after a login, "ERR", the reply to quit, the   *)
(* list of users, anything else, or bytes that were never written.          *)
(***************************************************************************)
EXTENDS Integers, Sequences, FiniteSets

CONSTANTS Client,       \* the paths /tmp/client_<pid>_response
          User, Known,  \* user names, and those in users.conf
          Admin,        \* "admin"
          Commands,     \* the commands that are typed
          NSessions,    \* 256
          NJobs,        \* 256
          Capacity,     \* messages a FIFO holds; a write to a full one waits
          Faults,       \* what may go wrong
          Patient,      \* TRUE: no command is typed before the last answer's
                        \* FIFO is closed, as with a user at a keyboard
          Nobody        \* no user, no client

CommandNames == {"login", "info", "users", "logout", "quit", "quit-server",
                 "help", "xlogout", "quit-x"}

ASSUME CommandAssumption ==
  /\ {NSessions, NJobs, Capacity} \subseteq Nat \ {0}
  /\ Known \subseteq User /\ Admin \in User
  /\ Nobody \notin User /\ Nobody \notin Client
  /\ Commands \subseteq CommandNames
  /\ Faults \subseteq {"eof", "kill", "crash", "interrupt"}
  /\ Patient \in BOOLEAN

VARIABLES sessions,  \* User_session sessions[256]
          jobs,      \* Job jobs[256], with the progress of their workers
          requests,  \* the request FIFO
          clients,   \* [Client -> record]: the client processes
          fifo,      \* [Client -> record]: the answer FIFOs
          server     \* the server process

vars == <<sessions, jobs, requests, clients, fifo, server>>

SessionSlot == 1..NSessions
JobSlot == 1..NJobs

First(S) == CHOOSE x \in S : \A y \in S : x <= y

-----------------------------------------------------------------------------
(* The state *)

Session == [fifo : Client \cup {Nobody}, user : User \cup {Nobody}, in_use : BOOLEAN]

\* Requests and answers carry, for the properties only, the command they belong
\* to and how often (modulo 2) their client has given up waiting.
Request == [from : Client, name : CommandNames, user : User, req : 0..1]
Answer == [for : CommandNames, req : 0..1, say : {"welcome", "ERR", "text", "list", "bye", "busy", "garbage"}]
NoAnswer == [for |-> "help", req |-> 0, say |-> "text"]

\* A job, the request it was made for (fifo_path is its sender), and its worker:
\* how many of its two writes it has done, and whether it died before that.
Job == [st : {"EMPT", "LOG", "HDR", "FORW"}, ask : Request \cup {Nobody},
        wrote : 0..2, dead : BOOLEAN]

NoJob == [st |-> "EMPT", ask |-> Nobody, wrote |-> 0, dead |-> FALSE]

\* "opening": inside open(O_RDONLY), waiting for the server to open the FIFO.
ClientState == [pc : {"off", "prompt", "sent", "opening", "reading"},
                name : CommandNames, arg : User, req : 0..1,
                user : User \cup {Nobody}]

ClientOff == [pc |-> "off", name |-> "help", arg |-> Admin, req |-> 0, user |-> Nobody]

Prompt(k, name) == [ClientOff EXCEPT !.pc = "prompt", !.req = k.req, !.user = name]

\* writer: the server has it open; leaked: and another time, for ever.
Fifo == [writer : BOOLEAN, leaked : BOOLEAN, data : Seq(Answer)]

\* "request", "log", "hdr", "forw": the parts of the loop after poll(); "open",
\* "write", "close": answering client "to", and then going on with "then".
\* asked and ready are the POLLIN bits; rest is polld_fds from id on.
Server == [pc : {"poll", "request", "log", "hdr", "forw", "open", "write",
                 "close", "exited"},
           asked : BOOLEAN, ready : SUBSET JobSlot, rest : SUBSET JobSlot,
           to : Client \cup {Nobody}, answer : Answer,
           then : {"poll", "log", "forw", "exited"}]

Polling == [pc |-> "poll", asked |-> FALSE, ready |-> {}, rest |-> {},
            to |-> Nobody, answer |-> NoAnswer, then |-> "poll"]

Init ==
  /\ sessions = [i \in SessionSlot |-> [fifo |-> Nobody, user |-> Nobody, in_use |-> FALSE]]
  /\ jobs = [i \in JobSlot |-> NoJob]
  /\ requests = <<>>
  /\ clients = [c \in Client |-> ClientOff]
  /\ fifo = [c \in Client |-> [writer |-> FALSE, leaked |-> FALSE, data |-> <<>>]]
  /\ server = Polling

Reader(c) == clients[c].pc \in {"opening", "reading"}

\* What is left in a FIFO that nobody has open any more is lost.
Settled(f, reading) == IF reading \/ f.writer \/ f.leaked THEN f ELSE [f EXCEPT !.data = <<>>]

-----------------------------------------------------------------------------
(* The clients *)

Start(c) ==
  /\ clients[c].pc = "off" /\ server.pc # "exited"
  /\ clients' = [clients EXCEPT ![c] = [ClientOff EXCEPT !.pc = "prompt"]]
  /\ UNCHANGED <<sessions, jobs, requests, fifo, server>>

\* A command is typed and written to the server's FIFO.  With the server gone
\* the write raises SIGPIPE, which ends the client.
Send(c) ==
  /\ clients[c].pc = "prompt"
  /\ Patient => ~fifo[c].writer
  /\ \/ /\ server.pc # "exited" /\ Len(requests) < Capacity
        /\ \E n \in Commands, u \in User :
             /\ n # "login" => u = Admin
             /\ clients' = [clients EXCEPT ![c] =
                  [@ EXCEPT !.pc = "sent", !.name = n, !.arg = u]]
             /\ requests' = Append(requests,
                  [from |-> c, name |-> n, user |-> u, req |-> clients[c].req])
     \/ /\ server.pc = "exited"
        /\ clients' = [clients EXCEPT ![c] = ClientOff]
        /\ UNCHANGED requests
  /\ UNCHANGED <<sessions, jobs, fifo, server>>

\* open(O_RDONLY) waits for a writer, unless the server has the FIFO open.
OpenFifo(c) ==
  /\ clients[c].pc = "sent"
  /\ clients' = [clients EXCEPT ![c].pc =
       IF fifo[c].writer \/ fifo[c].leaked THEN "reading" ELSE "opening"]
  /\ UNCHANGED <<sessions, jobs, requests, fifo, server>>

\* The answer is read and the FIFO closed.  "quit-" is what the client looks
\* for to leave, and "logout" anywhere in the command to forget the name.
ReadAnswer(c) ==
  LET k == clients[c]
      a == Head(fifo[c].data)
      leaves == \/ k.name \in {"quit-server", "quit-x"} /\ a.say # "ERR"
                \/ k.name = "quit" /\ a.say = "bye"
      name == IF k.name \in {"logout", "xlogout"} THEN Nobody
              ELSE IF a.say # "welcome" THEN k.user
              ELSE IF k.name = "login" THEN k.arg ELSE Nobody IN
  /\ k.pc = "reading" /\ fifo[c].data # <<>>
  /\ clients' = [clients EXCEPT ![c] =
       IF leaves THEN ClientOff ELSE Prompt(k, name)]
  /\ fifo' = [fifo EXCEPT ![c] =
       Settled([fifo[c] EXCEPT !.data = Tail(fifo[c].data)], FALSE)]
  /\ UNCHANGED <<sessions, jobs, requests, server>>

\* read() returns 0: the last answer's writer has closed.  Back to the prompt
\* without this one.
ReadEof(c) ==
  /\ clients[c].pc = "reading" /\ fifo[c].data = <<>>
  /\ ~fifo[c].writer /\ ~fifo[c].leaked
  /\ clients' = [clients EXCEPT ![c] =
       [Prompt(clients[c], clients[c].user) EXCEPT !.req = 1 - clients[c].req]]
  /\ UNCHANGED <<sessions, jobs, requests, fifo, server>>

\* End of input at the prompt, or a kill: the server is not told.
Leave(c) ==
  /\ \/ clients[c].pc = "prompt" /\ "eof" \in Faults
     \/ clients[c].pc # "off" /\ "kill" \in Faults
  /\ clients' = [clients EXCEPT ![c] = ClientOff]
  /\ fifo' = [fifo EXCEPT ![c] = Settled(@, FALSE)]
  /\ UNCHANGED <<sessions, jobs, requests, server>>

-----------------------------------------------------------------------------
(* The workers: the length is written first, then the text. *)

\* Slip: the worker writes on.
WorksOn(i) == jobs[i].st # "EMPT" /\ ~jobs[i].dead
Works(i) == jobs[i].st # "EMPT" /\ ~jobs[i].dead /\ jobs[i].wrote < 2

WorkerWrite(i) ==
  /\ Works(i)
  /\ jobs' = [jobs EXCEPT ![i].wrote = @ + 1]
  /\ UNCHANGED <<sessions, requests, clients, fifo, server>>

\* Its end of the channel is closed: a login's socketpair, the others' pipe.
WorkerCrash(i) ==
  /\ "crash" \in Faults /\ Works(i)
  /\ jobs' = [jobs EXCEPT ![i].dead = TRUE]
  /\ UNCHANGED <<sessions, requests, clients, fifo, server>>

-----------------------------------------------------------------------------
(* The server: sessions and jobs *)

\* Slip: a free slot is looked for first.
SessionFree(f, ss) ==
  LET own == {i \in SessionSlot : ss[i].fifo = f /\ ss[i].in_use}
      free == {i \in SessionSlot : ~ss[i].in_use} IN
  IF free # {} THEN First(free) ELSE IF own # {} THEN First(own) ELSE 0

\* create_get_ses: the session in use for f, else the first free one, else 0.
SessionFor(f, ss) ==
  LET own == {i \in SessionSlot : ss[i].fifo = f /\ ss[i].in_use}
      free == {i \in SessionSlot : ~ss[i].in_use} IN
  IF own # {} THEN First(own) ELSE IF free # {} THEN First(free) ELSE 0

Entered(f, ss) ==
  LET i == SessionFor(f, ss) IN
  IF ss[i].in_use THEN ss
  ELSE [ss EXCEPT ![i] = [fifo |-> f, user |-> Nobody, in_use |-> TRUE]]

\* Slip: in use is looked at, the path is not.
FindSesInUse(f) ==
  LET own == {i \in SessionSlot : sessions[i].in_use} IN
  IF own # {} THEN First(own) ELSE 0

\* find_ses: the first session with this FIFO, in use or not, else 0.
FindSes(f) ==
  LET own == {i \in SessionSlot : sessions[i].fifo = f} IN
  IF own # {} THEN First(own) ELSE 0

\* fork, alloc and the new job; with no job left the pipe is closed again.
Forked(r, st) ==
  LET free == {i \in JobSlot : jobs[i].st = "EMPT"} IN
  jobs' = IF free = {} THEN jobs
          ELSE [jobs EXCEPT ![First(free)] = [NoJob EXCEPT !.st = st, !.ask = r]]

\* On to p; what the server only needed until now is forgotten.
Then(p) ==
  server' = IF p \in {"poll", "exited"} THEN [Polling EXCEPT !.pc = p]
            ELSE [server EXCEPT !.pc = p, !.asked = FALSE, !.to = Nobody,
                                !.answer = NoAnswer, !.then = "poll"]

Say(r, say) == [for |-> r.name, req |-> r.req, say |-> say]

\* open(O_WRONLY) for an answer to r comes next, and then p.
Answering(r, say, p) ==
  server' = [server EXCEPT !.pc = "open", !.asked = FALSE, !.to = r.from,
                           !.then = p, !.answer = Say(r, say)]

-----------------------------------------------------------------------------
(* The server: one request.  r is the request, i its session, ss the         *)
(* sessions with it.                                                         *)

\* Slip: the worker is forked for a user who is already logged in, too.
LoginTwice(r, i, ss) ==
  /\ r.name = "login"
  /\ sessions' = ss
  /\ Forked(r, "LOG")
  /\ IF ss[i].user # Nobody THEN Answering(r, "text", "log") ELSE Then("log")

Login(r, i, ss) ==
  /\ r.name = "login"
  /\ sessions' = ss
  /\ IF ss[i].user # Nobody
     THEN Answering(r, "text", "log") /\ UNCHANGED jobs
     ELSE Forked(r, "LOG") /\ Then("log")

\* get-logged-users and get-proc-info
Info(r, i, ss) ==
  /\ r.name = "info"
  /\ sessions' = ss
  /\ IF ss[i].user = Nobody
     THEN Answering(r, "ERR", "log") /\ UNCHANGED jobs
     ELSE Forked(r, "HDR") /\ Then("log")

\* Slip: any user will do.
UsersAny(r, i, ss) ==
  /\ r.name = "users"
  /\ sessions' = ss
  /\ IF ss[i].user = Nobody
     THEN Answering(r, "ERR", "log") /\ UNCHANGED jobs
     ELSE Forked(r, "HDR") /\ Then("log")

\* get-all-client-users
Users(r, i, ss) ==
  /\ r.name = "users"
  /\ sessions' = ss
  /\ IF ss[i].user # Admin
     THEN Answering(r, "ERR", "log") /\ UNCHANGED jobs
     ELSE Forked(r, "HDR") /\ Then("log")

Logout(r, i, ss) ==
  /\ r.name = "logout"
  /\ sessions' = [ss EXCEPT ![i].user = Nobody]
  /\ Answering(r, "text", "log")
  /\ UNCHANGED jobs

\* Only in_use is cleared: fifo and user stay until the slot is taken again.
Quit(r, i, ss) ==
  /\ r.name = "quit"
  /\ sessions' = [ss EXCEPT ![i].in_use = FALSE]
  /\ Answering(r, "bye", "log")
  /\ UNCHANGED jobs

QuitServer(r, i, ss) ==
  /\ r.name = "quit-server"
  /\ sessions' = ss
  /\ IF ss[i].user # Admin
     THEN Answering(r, "ERR", "log") /\ UNCHANGED jobs
     ELSE /\ jobs' = [j \in JobSlot |-> NoJob]
          /\ Answering(r, "text", "exited")

\* help, and everything that is not a command
Other(r, i, ss) ==
  /\ r.name \in {"help", "xlogout", "quit-x"}
  /\ sessions' = ss
  /\ Answering(r, "text", "log")
  /\ UNCHANGED jobs

\* exit(): every file is closed.
Exit == /\ Then("exited")
        /\ fifo' = [c \in Client |->
             Settled([fifo[c] EXCEPT !.writer = FALSE, !.leaked = FALSE], Reader(c))]

\* No session is left: a non-blocking open, which fails, and ends the server,
\* when the client has not opened its FIFO yet.  It is never closed again.
Busy(r) ==
  /\ UNCHANGED <<sessions, jobs>>
  /\ \/ /\ ~Reader(r.from)
        /\ Exit /\ UNCHANGED clients
     \/ /\ Reader(r.from)
        /\ clients' = [clients EXCEPT ![r.from].pc = "reading"]
        /\ fifo' = [fifo EXCEPT ![r.from].leaked = TRUE]
        /\ server' = [server EXCEPT !.pc = "write", !.asked = FALSE, !.to = r.from,
                        !.then = "log", !.answer = Say(r, "busy")]

TakeRequest ==
  /\ server.pc = "request" /\ server.asked
  /\ requests' = Tail(requests)
  /\ LET r == Head(requests)
         i == SessionFor(r.from, sessions)
         ss == Entered(r.from, sessions) IN
     \/ i = 0 /\ Busy(r)
     \/ /\ i # 0 /\ UNCHANGED <<clients, fifo>>
        /\ \/ Login(r, i, ss) \/ Info(r, i, ss) \/ Users(r, i, ss)
           \/ Logout(r, i, ss) \/ Quit(r, i, ss) \/ QuitServer(r, i, ss)
           \/ Other(r, i, ss)

NoRequest ==
  /\ server.pc = "request" /\ ~server.asked
  /\ Then("log")
  /\ UNCHANGED <<sessions, jobs, requests, clients, fifo>>

-----------------------------------------------------------------------------
(* The server: poll() and the three loops over the jobs *)

\* poll() returns when a request or a worker's output can be read, and also
\* when a worker has died: an empty socketpair then has POLLIN with POLLHUP, an
\* empty pipe POLLHUP alone, for ever.
Poll ==
  LET used == {i \in JobSlot : jobs[i].st # "EMPT"}
      ready == {i \in used : jobs[i].wrote > 0 \/ (jobs[i].st = "LOG" /\ jobs[i].dead)} IN
  /\ server.pc = "poll"
  /\ requests # <<>> \/ ready # {} \/ \E i \in used : jobs[i].dead
  /\ server' = [server EXCEPT !.pc = "request", !.asked = (requests # <<>>),
                              !.ready = ready, !.rest = used]
  /\ UNCHANGED <<sessions, jobs, requests, clients, fifo>>

\* The job that polld_fds[id] belongs to is in state st.
At(st) == server.rest # {} /\ jobs[First(server.rest)].st = st

\* Slip: no worker is ever found ready.
LogLoopBlind ==
  /\ server.pc = "log"
  /\ IF At("LOG") THEN server' = [server EXCEPT !.rest = @ \ {First(@)}] ELSE Then("hdr")
  /\ UNCHANGED <<sessions, jobs, requests, clients, fifo>>

\* The LOG loop.  The reads do not block: without the worker's second write
\* the message is whatever malloc returned, and not "OK"; without its first the
\* length is not set, and the server crashes if malloc does not have that much.
\* When the session has gone to another path, find_ses returns NULL and the server
\* crashes on it.
LogLoop ==
  LET i == First(server.rest)
      j == jobs[i]
      ok == j.wrote = 2 /\ j.ask.user \in Known
      own == FindSes(j.ask.from) IN
  /\ server.pc = "log"
  /\ \/ /\ ~At("LOG")
        /\ Then("hdr") /\ UNCHANGED <<sessions, jobs, fifo>>
     \/ /\ At("LOG") /\ i \notin server.ready
        /\ server' = [server EXCEPT !.rest = @ \ {i}]
        /\ UNCHANGED <<sessions, jobs, fifo>>
     \/ /\ At("LOG") /\ i \in server.ready
        /\ (ok /\ own = 0) \/ j.wrote = 0
        /\ Exit /\ UNCHANGED <<sessions, jobs>>
     \/ /\ At("LOG") /\ i \in server.ready /\ (ok => own # 0)
        /\ sessions' = IF ok THEN [sessions EXCEPT ![own].user = j.ask.user]
                       ELSE sessions
        /\ server' = [server EXCEPT !.pc = "open", !.rest = @ \ {i}, !.to = j.ask.from,
                        !.answer = Say(j.ask, IF ok THEN "welcome" ELSE "ERR"),
                        !.then = "log"]
        /\ jobs' = [jobs EXCEPT ![i] = NoJob]
        /\ UNCHANGED fifo
  /\ UNCHANGED <<requests, clients>>

\* The HDR loop, which leaves id where it is: the length is read, and the
\* client's FIFO opened for it.
HdrLoop ==
  LET i == First(server.rest) IN
  /\ server.pc = "hdr"
  /\ \/ /\ At("HDR") /\ i \in server.ready
        /\ jobs' = [jobs EXCEPT ![i].st = "FORW"]
        /\ server' = [server EXCEPT !.pc = "open", !.to = jobs[i].ask.from,
                                   !.then = "forw"]
     \/ /\ ~(At("HDR") /\ i \in server.ready)
        /\ Then("forw") /\ UNCHANGED jobs
  /\ UNCHANGED <<sessions, requests, clients, fifo>>

\* Slip: the job is not reset.
ForwLoopKeeps ==
  LET i == First(server.rest) IN
  /\ server.pc = "forw"
  /\ \/ /\ At("FORW") /\ i \in server.ready
        /\ server' = [server EXCEPT !.pc = "write", !.then = "poll",
                                   !.answer = Say(jobs[i].ask, "text")]
     \/ /\ ~(At("FORW") /\ i \in server.ready)
        /\ Then("poll")
  /\ UNCHANGED <<sessions, jobs, requests, clients, fifo>>

\* The FORW loop, for the same entry of polld_fds: the text is read without
\* another poll(), and may not have been written yet.
ForwLoop ==
  LET i == First(server.rest)
      j == jobs[i] IN
  /\ server.pc = "forw"
  /\ \/ /\ At("FORW") /\ i \in server.ready
        /\ server' = [server EXCEPT !.pc = "write", !.then = "poll",
             !.answer = Say(j.ask, IF j.wrote < 2 THEN "garbage"
                                   ELSE IF j.ask.name = "users" THEN "list" ELSE "text")]
        /\ jobs' = [jobs EXCEPT ![i] = NoJob]
     \/ /\ ~(At("FORW") /\ i \in server.ready)
        /\ Then("poll") /\ UNCHANGED jobs
  /\ UNCHANGED <<sessions, requests, clients, fifo>>

-----------------------------------------------------------------------------
(* The server: the answer *)

\* open(O_WRONLY) waits for the client.
OpenAnswer ==
  /\ server.pc = "open" /\ Reader(server.to)
  /\ clients' = [clients EXCEPT ![server.to].pc = "reading"]
  /\ fifo' = [fifo EXCEPT ![server.to].writer = TRUE]
  /\ server' = [server EXCEPT !.pc = IF server.then = "forw" THEN "forw" ELSE "write"]
  /\ UNCHANGED <<sessions, jobs, requests>>

\* Without a reader write() raises SIGPIPE, which ends the server.
WriteAnswer ==
  /\ server.pc = "write"
  /\ \/ /\ Reader(server.to) /\ Len(fifo[server.to].data) < Capacity
        /\ fifo' = [fifo EXCEPT ![server.to].data = Append(@, server.answer)]
        /\ IF server.answer.say = "busy" THEN Then(server.then)
           ELSE server' = [server EXCEPT !.pc = "close"]
     \/ ~Reader(server.to) /\ Exit
  /\ UNCHANGED <<sessions, jobs, requests, clients>>

CloseAnswer ==
  /\ server.pc = "close"
  /\ IF server.then = "exited" THEN Exit
     ELSE /\ fifo' = [fifo EXCEPT ![server.to] =
                        Settled([fifo[server.to] EXCEPT !.writer = FALSE], Reader(server.to))]
          /\ Then(server.then)
  /\ UNCHANGED <<sessions, jobs, requests, clients>>

\* sig_handle
Interrupt ==
  /\ "interrupt" \in Faults /\ server.pc # "exited"
  /\ Exit
  /\ UNCHANGED <<sessions, jobs, requests, clients>>

-----------------------------------------------------------------------------

ServerStep == \/ Poll \/ TakeRequest \/ NoRequest \/ LogLoop \/ HdrLoop \/ ForwLoop
              \/ OpenAnswer \/ WriteAnswer \/ CloseAnswer

ClientStep(c) == OpenFifo(c) \/ ReadAnswer(c) \/ ReadEof(c)

Next == \/ ServerStep \/ Interrupt
        \/ \E c \in Client : ClientStep(c) \/ Start(c) \/ Send(c) \/ Leave(c)
        \/ \E i \in JobSlot : WorkerWrite(i) \/ WorkerCrash(i)

Spec == Init /\ [][Next]_vars

\* Every process that can run is run in the end; nobody has to type.
Fairness == /\ WF_vars(ServerStep)
            /\ \A c \in Client : WF_vars(ClientStep(c))
            /\ \A i \in JobSlot : WF_vars(WorkerWrite(i))

FairSpec == Spec /\ Fairness

-----------------------------------------------------------------------------
(* Properties *)

\* Every variable keeps its type: sessions, jobs, requests, clients and FIFOs.
TypeOK == /\ sessions \in [SessionSlot -> Session]
          /\ jobs \in [JobSlot -> Job]
          /\ requests \in Seq(Request)
          /\ clients \in [Client -> ClientState]
          /\ fifo \in [Client -> Fifo]
          /\ server \in Server

Waiting(c) == clients[c].pc \in {"sent", "opening", "reading"}

\* find_ses looks at the path only (server.c:81) and quit leaves it in the slot
\* (server.c:480), yet it always finds the session in use: no slot before that
\* one holds the same path.
FindIsActive ==
  \A i \in SessionSlot : sessions[i].in_use =>
    \A k \in 1..(i - 1) : sessions[k].fifo # sessions[i].fifo

\* While the server runs, a job belongs to the request its client is waiting
\* about, made in a session that is still in use, and no client has two.
JobsOwned ==
  \A i \in JobSlot : server.pc # "exited" /\ jobs[i].st # "EMPT" =>
    LET c == jobs[i].ask.from IN
    /\ Waiting(c) /\ clients[c].name = jobs[i].ask.name
    /\ \E k \in SessionSlot : sessions[k].in_use /\ sessions[k].fifo = c
    /\ \A k \in JobSlot \ {i} : jobs[k].st # "EMPT" => jobs[k].ask.from # c

\* alloc never fails for a client that has a session (server.c:342 would leave
\* it waiting for ever).
JobLeft ==
  server.pc = "request" /\ server.asked /\ SessionFor(Head(requests).from, sessions) # 0
    => \E i \in JobSlot : jobs[i].st = "EMPT"

\* While the server runs, the name in a client's prompt is the user of its session.
PromptTruthful ==
  \A c \in Client : server.pc # "exited" /\ clients[c].pc = "prompt"
                                         /\ clients[c].user # Nobody =>
    \E i \in SessionSlot :
      sessions[i].in_use /\ sessions[i].fifo = c /\ sessions[i].user = clients[c].user

\* The answer a client finds is to the command it has just sent.
AnswerMatches ==
  \A c \in Client : fifo[c].data # <<>> =>
    LET a == Head(fifo[c].data) IN
    Waiting(c) /\ a.for = clients[c].name /\ a.req = clients[c].req

\* Only a session of the administrator is shown the list of users, although it
\* is delivered by a job that outlives the check (server.c:512, 679).
AdminOnly ==
  \A c \in Client : \A a \in {fifo[c].data[n] : n \in 1..Len(fifo[c].data)} :
    a.say = "list" => \E i \in SessionSlot :
      sessions[i].in_use /\ sessions[i].fifo = c /\ sessions[i].user = Admin

\* A session gets a user only from a login its own client typed, although the
\* worker that checks the name may answer after that client is gone and the
\* slot belongs to another (server.c:622).
UserGranted ==
  [][\A i \in SessionSlot : LET u == sessions'[i].user IN
       u \notin {Nobody, sessions[i].user} =>
         \E j \in JobSlot : /\ jobs[j].st = "LOG" /\ jobs[j].ask.user = u
                            /\ jobs[j].ask.from = sessions'[i].fifo]_vars

\* Every command is answered.
Answered == \A c \in Client : Waiting(c) ~> ~Waiting(c)
=============================================================================
