------------------------- MODULE CommandAnswers_proof -------------------------
(***************************************************************************)
(* Whose jobs, names and answers the command server's are, for any number of *)
(* clients, sessions and jobs, when users wait for their answers (Patient)   *)
(* and no client is killed while it waits; a worker may crash, the server be *)
(* interrupted, and a user leave at the prompt.                             *)
(***************************************************************************)
EXTENDS CommandServer_proof, FiniteSetTheorems

Running == server.pc # "exited"

LoggedIn(ss, c, u) == \E k \in SessionSlot : ss[k].in_use /\ ss[k].fifo = c /\ ss[k].user = u
HasSession(ss, c) == \E k \in SessionSlot : ss[k].in_use /\ ss[k].fifo = c

\* The requests in the FIFO, and the clients they are from.
Waits == {requests[n] : n \in 1..Len(requests)}
Queued(c) == \E r \in Waits : r.from = c
Pending(c) == \E i \in JobSlot : jobs[i].st # "EMPT" /\ jobs[i].ask.from = c

\* The client waits about request r; answer a is to what it waits about.
Asks(c, r) == /\ Waiting(c) /\ r.name = clients[c].name
              /\ r.user = clients[c].arg /\ r.req = clients[c].req
Fits(c, a) == Waiting(c) /\ a.for = clients[c].name /\ a.req = clients[c].req

\* What the client makes of a (ReadAnswer) is true of its session.
Truthful(c, a) ==
  /\ a.say = "welcome" => a.for = "login" /\ LoggedIn(sessions, c, clients[c].arg)
  /\ a.say = "list" => LoggedIn(sessions, c, Admin)
  /\ a.say = "bye" => a.for = "quit"
  /\ \/ a.for \in {"logout", "xlogout"} \/ a.say \in {"welcome", "bye"}
     \/ clients[c].user = Nobody \/ LoggedIn(sessions, c, clients[c].user)

\* A client has at most one request, and that is in one place: in the FIFO,
QueueLocal(c) ==
  \A r \in Waits : r.from = c =>
    /\ Asks(c, r) /\ ~fifo[c].writer /\ fifo[c].data = <<>>
    /\ ~Pending(c) /\ server.to # c

QueueOnce ==
  \A n, m \in 1..Len(requests) : requests[n].from = requests[m].from => n = m

\* with a worker,
JobLocal(c) ==
  \A i \in JobSlot : jobs[i].st # "EMPT" /\ jobs[i].ask.from = c =>
    /\ Asks(c, jobs[i].ask) /\ fifo[c].data = <<>> /\ HasSession(sessions, c)
    /\ \A k \in JobSlot : jobs[k].st # "EMPT" /\ jobs[k].ask.from = c => k = i
    /\ jobs[i].st = "LOG" => jobs[i].ask.name = "login" /\ clients[c].user = Nobody
    /\ jobs[i].st # "LOG" => jobs[i].ask.name \in {"info", "users"}
    /\ jobs[i].ask.name = "users" => LoggedIn(sessions, c, Admin)
    /\ jobs[i].st # "FORW" => server.to # c /\ ~fifo[c].writer
    /\ jobs[i].st = "FORW" => server.to = c /\ server.pc \in {"open", "forw"}
                              /\ server.then = "forw" /\ i = First(server.rest)

\* with the server, on its way to the client,
Delivers == server.pc = "write" \/ (server.pc = "open" /\ server.then # "forw")
Forwards == server.pc = "forw" \/ (server.pc = "open" /\ server.then = "forw")

ServerLocal(c) ==
  LET a == server.answer
      i == First(server.rest) IN
  server.to = c =>
    /\ server.pc \in {"open", "forw", "write", "close"}
    /\ server.pc = "open" => Waiting(c) /\ fifo[c].data = <<>> /\ ~fifo[c].writer
    /\ server.pc \in {"forw", "write"} => clients[c].pc = "reading" /\ fifo[c].data = <<>>
    /\ server.pc = "close" => ~Waiting(c) \/ fifo[c].data # <<>>
    /\ Delivers => Fits(c, a) /\ Truthful(c, a)
    /\ server.pc = "open" /\ server.then # "forw" => a.say # "busy"
    /\ Forwards => At("FORW") /\ jobs[i].ask.from = c /\ i \in server.ready
    /\ server.pc \in {"forw", "close"} => fifo[c].writer
    /\ server.pc = "write" => (fifo[c].writer <=> a.say # "busy")

ServerTo == server.pc \in {"open", "write", "close"} => server.to \in Client

\* or in the client's FIFO, which the server has open to answer it.
FifoLocal(c) ==
  /\ fifo[c].writer => server.to = c /\ server.pc \in {"forw", "write", "close"}
  /\ clients[c].pc = "reading" => fifo[c].writer \/ fifo[c].leaked \/ fifo[c].data # <<>>
  /\ fifo[c].data # <<>> => /\ Truthful(c, Head(fifo[c].data))
                            /\ server.to = c => server.pc = "close"

NameLocal(c) ==
  clients[c].user # Nobody /\ (clients[c].pc = "prompt" \/ Queued(c) \/ Pending(c))
    => LoggedIn(sessions, c, clients[c].user)

Local(c) == QueueLocal(c) /\ JobLocal(c) /\ ServerLocal(c) /\ FifoLocal(c) /\ NameLocal(c)

\* What is in a FIFO outlives the server.
DataLocal(c) ==
  fifo[c].data # <<>> =>
    /\ Len(fifo[c].data) = 1 /\ clients[c].pc = "reading" /\ Fits(c, Head(fifo[c].data))
    /\ Head(fifo[c].data).say = "list" => LoggedIn(sessions, c, Admin)

Owned == /\ \A c \in Client : DataLocal(c)
         /\ Running => QueueOnce /\ ServerTo /\ \A c \in Client : Local(c)

All == IInv /\ Owned

-----------------------------------------------------------------------------
(* What a step leaves alone *)

LEMMA Types ==
  ASSUME IInv
  PROVE  /\ sessions \in Sessions /\ jobs \in [JobSlot -> Job]
         /\ requests \in Seq(Request) /\ clients \in [Client -> ClientState]
         /\ fifo \in [Client -> Fifo] /\ server \in Server
         /\ JobAsks /\ AskedThere /\ Distinct(sessions)
         /\ \A r \in Waits : r \in Request
         /\ \A c \in Client : /\ clients[c].user \in User \cup {Nobody}
                              /\ clients[c].arg \in User
                              /\ fifo[c].data \in Seq(Answer)
         /\ Admin \in User /\ Nobody \notin Client /\ Nobody \notin User
<1>1. \A r \in Waits : r \in Request
  BY Parts DEF Waits
<1>2. \A c \in Client : /\ clients[c].user \in User \cup {Nobody}
                        /\ clients[c].arg \in User
                        /\ fifo[c].data \in Seq(Answer)
  BY Parts DEF ClientState, Fifo
<1> QED
  BY <1>1, <1>2, Parts, CommandAssumption

\* Sessions of c keep their users from ss to tt.
Kept(ss, tt, c) ==
  /\ \A u \in User : LoggedIn(ss, c, u) => LoggedIn(tt, c, u)
  /\ HasSession(ss, c) => HasSession(tt, c)

\* What does not touch client c, its FIFO, request, job and session.
LEMMA DataFrame ==
  ASSUME IInv, NEW c \in Client, DataLocal(c), clients'[c] = clients[c],
         fifo'[c] = fifo[c], Kept(sessions, sessions', c)
  PROVE  DataLocal(c)'
<1>1. Admin \in User
  BY Types
<1>2. Head(fifo[c].data).say = "list" /\ LoggedIn(sessions, c, Admin)
        => LoggedIn(sessions', c, Admin)
  BY <1>1 DEF Kept
<1> QED
  BY <1>2 DEF DataLocal, Fits, Waiting

LEMMA TruthFrame ==
  ASSUME IInv, NEW c \in Client, NEW a, Truthful(c, a), clients'[c] = clients[c],
         Kept(sessions, sessions', c)
  PROVE  Truthful(c, a)'
BY Types DEF Truthful, Kept

LEMMA Frame ==
  ASSUME IInv, NEW c \in Client, Local(c), clients'[c] = clients[c], fifo'[c] = fifo[c],
         Kept(sessions, sessions', c),
         \A r \in Waits' : r.from = c => r \in Waits,
         \A i \in JobSlot : jobs'[i].st # "EMPT" /\ jobs'[i].ask.from = c =>
           /\ jobs[i].st # "EMPT"
           /\ jobs'[i].st = jobs[i].st /\ jobs'[i].ask = jobs[i].ask,
         \/ server.to # c /\ server'.to # c
         \/ /\ server' = server
            /\ \A i \in JobSlot : jobs'[i].st = jobs[i].st /\ jobs'[i].ask = jobs[i].ask
  PROVE  Local(c)'
<1>1. Pending(c)' => Pending(c)
  BY DEF Pending
<1>2. Queued(c)' => Queued(c)
  BY DEF Queued
<1>3. QueueLocal(c)'
  <2>1. ASSUME NEW r \in Waits', r.from = c
        PROVE  /\ Asks(c, r)' /\ ~fifo'[c].writer /\ fifo'[c].data = <<>>
               /\ ~Pending(c)' /\ server'.to # c
    <3>1. /\ Asks(c, r) /\ ~fifo[c].writer /\ fifo[c].data = <<>>
          /\ ~Pending(c) /\ server.to # c
      BY <2>1 DEF Local, QueueLocal
    <3> QED
      BY <1>1, <3>1 DEF Asks, Waiting
  <2> QED
    BY <2>1 DEF QueueLocal
<1>4. JobLocal(c)'
  <2>1. ASSUME NEW i \in JobSlot, jobs'[i].st # "EMPT", jobs'[i].ask.from = c
        PROVE  /\ Asks(c, jobs[i].ask)' /\ fifo'[c].data = <<>> /\ HasSession(sessions', c)
               /\ \A k \in JobSlot : jobs'[k].st # "EMPT" /\ jobs'[k].ask.from = c => k = i
               /\ jobs'[i].st = "LOG" => jobs'[i].ask.name = "login" /\ clients'[c].user = Nobody
               /\ jobs'[i].st # "LOG" => jobs'[i].ask.name \in {"info", "users"}
               /\ jobs'[i].ask.name = "users" => LoggedIn(sessions', c, Admin)
               /\ jobs'[i].st # "FORW" => server'.to # c /\ ~fifo'[c].writer
               /\ jobs'[i].st = "FORW" => server'.to = c /\ server'.pc \in {"open", "forw"}
                                /\ server'.then = "forw" /\ i = First(server'.rest)
    <3>1. /\ jobs[i].st # "EMPT" /\ jobs[i].ask.from = c
          /\ jobs'[i].st = jobs[i].st /\ jobs'[i].ask = jobs[i].ask
      BY <2>1
    <3>2. /\ Asks(c, jobs[i].ask) /\ fifo[c].data = <<>> /\ HasSession(sessions, c)
          /\ \A k \in JobSlot : jobs[k].st # "EMPT" /\ jobs[k].ask.from = c => k = i
          /\ jobs[i].st = "LOG" => jobs[i].ask.name = "login" /\ clients[c].user = Nobody
          /\ jobs[i].st # "LOG" => jobs[i].ask.name \in {"info", "users"}
          /\ jobs[i].ask.name = "users" => LoggedIn(sessions, c, Admin)
          /\ jobs[i].st # "FORW" => server.to # c /\ ~fifo[c].writer
          /\ jobs[i].st = "FORW" => server.to = c /\ server.pc \in {"open", "forw"}
                                    /\ server.then = "forw" /\ i = First(server.rest)
      BY <3>1 DEF Local, JobLocal
    <3>3. Asks(c, jobs[i].ask)'
      BY <3>1, <3>2 DEF Asks, Waiting
    <3>4. HasSession(sessions', c) /\ (jobs'[i].ask.name = "users" => LoggedIn(sessions', c, Admin))
      BY <3>1, <3>2, Types DEF Kept
    <3>5. \A k \in JobSlot : jobs'[k].st # "EMPT" /\ jobs'[k].ask.from = c => k = i
      BY <3>2
    <3> QED
      BY <3>1, <3>2, <3>3, <3>4, <3>5
  <2> QED
    BY <2>1 DEF JobLocal
<1>5. ServerLocal(c)'
  <2>1. CASE server'.to # c
    BY <2>1 DEF ServerLocal
  <2>2. CASE /\ server' = server /\ server.to = c
             /\ \A i \in JobSlot : jobs'[i].st = jobs[i].st /\ jobs'[i].ask = jobs[i].ask
    <3> DEFINE a == server.answer
               i == First(server.rest)
    <3>1. /\ server.pc \in {"open", "forw", "write", "close"}
          /\ server.pc = "open" => Waiting(c) /\ fifo[c].data = <<>> /\ ~fifo[c].writer
          /\ server.pc \in {"forw", "write"} => clients[c].pc = "reading" /\ fifo[c].data = <<>>
          /\ server.pc = "close" => ~Waiting(c) \/ fifo[c].data # <<>>
          /\ Delivers => Fits(c, a) /\ Truthful(c, a)
          /\ server.pc = "open" /\ server.then # "forw" => a.say # "busy"
          /\ Forwards => At("FORW") /\ jobs[i].ask.from = c /\ i \in server.ready
          /\ server.pc \in {"forw", "close"} => fifo[c].writer
          /\ server.pc = "write" => (fifo[c].writer <=> a.say # "busy")
      BY <2>2 DEF Local, ServerLocal
    <3>2. (Delivers' <=> Delivers) /\ (Forwards' <=> Forwards)
      BY <2>2 DEF Delivers, Forwards
    <3>3. Truthful(c, a) => Truthful(c, a)'
      <4>1. \A b : Truthful(c, b) => Truthful(c, b)'
        BY TruthFrame
      <4> QED
        BY <2>2, <4>1 DEF Truthful
    <3>4. Fits(c, a) => Fits(c, a)'
      BY <2>2 DEF Fits, Waiting
    <3>5. At("FORW") => i \in JobSlot
      BY AtFacts
    <3>6. At("FORW") => At("FORW")'
      BY <2>2, <3>5 DEF At
    <3>7. Waiting(c)' <=> Waiting(c)
      BY DEF Waiting
    <3>8. Forwards' => jobs'[i].ask.from = c
      BY <2>2, <3>1, <3>2, <3>5
    <3>9. a' = a /\ i' = i
      BY <2>2
    <3> HIDE DEF a, i
    <3>10. /\ server'.pc \in {"open", "forw", "write", "close"}
           /\ server'.pc = "open" => Waiting(c)' /\ fifo'[c].data = <<>> /\ ~fifo'[c].writer
           /\ server'.pc \in {"forw", "write"} => clients'[c].pc = "reading" /\ fifo'[c].data = <<>>
           /\ server'.pc = "close" => ~Waiting(c)' \/ fifo'[c].data # <<>>
           /\ server'.pc = "open" /\ server'.then # "forw" => a.say # "busy"
           /\ server'.pc \in {"forw", "close"} => fifo'[c].writer
           /\ server'.pc = "write" => (fifo'[c].writer <=> a.say # "busy")
      BY <2>2, <3>1, <3>7
    <3>11. Delivers' => Fits(c, a)' /\ Truthful(c, a)'
      BY <3>1, <3>2, <3>3, <3>4
    <3>12. Forwards' => At("FORW")' /\ jobs'[i].ask.from = c /\ i \in server'.ready
      BY <2>2, <3>1, <3>2, <3>6, <3>8
    <3> QED
      BY <3>9, <3>10, <3>11, <3>12 DEF ServerLocal, a, i
  <2> QED
    BY <2>1, <2>2
<1>6. FifoLocal(c)'
  <2>1. FifoLocal(c)
    BY DEF Local
  <2>2. Truthful(c, Head(fifo[c].data)) => Truthful(c, Head(fifo[c].data))'
    <3>1. \A a : Truthful(c, a) => Truthful(c, a)'
      BY TruthFrame
    <3> QED
      BY <3>1 DEF Truthful
  <2> QED
    BY <2>1, <2>2 DEF FifoLocal
<1>7. NameLocal(c)'
  <2>1. NameLocal(c)
    BY DEF Local
  <2>2. clients[c].user \in User \cup {Nobody}
    BY Types
  <2> QED
    BY <1>1, <1>2, <2>1, <2>2 DEF NameLocal, Kept
<1> QED
  BY <1>3, <1>4, <1>5, <1>6, <1>7 DEF Local

-----------------------------------------------------------------------------
(* The requests *)

LEMMA QueueMore ==
  ASSUME IInv, QueueOnce, NEW r \in Request, ~Queued(r.from),
         requests' = Append(requests, r)
  PROVE  QueueOnce' /\ Waits' = Waits \cup {r}
<1> DEFINE q == requests
           p == Append(q, r)
           l == Len(q)
<1>1. /\ q \in Seq(Request) /\ l \in Nat /\ Len(p) = l + 1
      /\ \A i \in 1..l : p[i] = q[i]
      /\ p[l + 1] = r
  BY Types, AppendProperties
<1>2. 1..(l + 1) = (1..l) \cup {l + 1}
  BY <1>1
<1>3. requests' = p /\ Len(requests') = l + 1
  BY <1>1
<1> HIDE DEF p
<1>4. Waits' = {p[n] : n \in 1..(l + 1)}
  BY <1>3 DEF Waits
<1>5. Waits = {q[n] : n \in 1..l}
  BY DEF Waits
<1>6. \A n \in 1..l : q[n].from # r.from
  BY <1>5 DEF Queued
<1>7. ASSUME NEW n \in 1..(l + 1), NEW m \in 1..(l + 1), p[n].from = p[m].from
      PROVE  n = m
  <2>1. CASE n \in 1..l /\ m \in 1..l
    BY <1>1, <1>7, <2>1 DEF QueueOnce
  <2>2. CASE n \in 1..l /\ m = l + 1
    BY <1>1, <1>6, <1>7, <2>2
  <2>3. CASE n = l + 1 /\ m \in 1..l
    BY <1>1, <1>6, <1>7, <2>3
  <2> QED
    BY <1>2, <2>1, <2>2, <2>3
<1>8. Waits' = Waits \cup {r}
  BY <1>1, <1>2, <1>4, <1>5
<1> QED
  BY <1>3, <1>7, <1>8 DEF QueueOnce

LEMMA QueueLess ==
  ASSUME IInv, QueueOnce, requests # <<>>, requests' = Tail(requests)
  PROVE  /\ QueueOnce' /\ Waits' \subseteq Waits /\ Head(requests) \in Waits
         /\ \A r \in Waits' : r.from # Head(requests).from
<1> DEFINE q == requests
           p == Tail(q)
           l == Len(q)
<1>1. /\ q \in Seq(Request) /\ l \in Nat \ {0} /\ Len(p) = l - 1
      /\ \A i \in 1..Len(p) : p[i] = q[i + 1]
      /\ Head(q) = q[1]
  BY Types, HeadTailProperties, EmptySeq
<1>2. requests' = p /\ Len(requests') = l - 1
  BY <1>1
<1> HIDE DEF p
<1>3. \A i \in 1..(l - 1) : p[i] = q[i + 1] /\ i + 1 \in 1..l /\ i + 1 # 1
  BY <1>1
<1>4. Waits' = {p[n] : n \in 1..(l - 1)} /\ Waits = {q[n] : n \in 1..l}
  BY <1>2 DEF Waits
<1>5. Waits' \subseteq Waits
  BY <1>3, <1>4
<1>6. 1 \in 1..l
  BY <1>1
<1>7. Head(requests) \in Waits
  BY <1>1, <1>4, <1>6
<1>8. ASSUME NEW i \in 1..(l - 1)
      PROVE  p[i].from # q[1].from
  BY <1>3, <1>6 DEF QueueOnce
<1>9. \A r \in Waits' : r.from # Head(requests).from
  BY <1>1, <1>4, <1>8
<1>10. ASSUME NEW n \in 1..(l - 1), NEW m \in 1..(l - 1), p[n].from = p[m].from
       PROVE  n = m
  <2>1. n + 1 = m + 1
    BY <1>3, <1>10 DEF QueueOnce
  <2> QED
    BY <2>1
<1> QED
  BY <1>2, <1>5, <1>7, <1>9, <1>10 DEF QueueOnce

-----------------------------------------------------------------------------
(* The clients *)

\* Nothing is under way for a client that does not wait.
LEMMA NotWaiting ==
  ASSUME NEW c \in Client, ~Waiting(c), Local(c)
  PROVE  /\ ~Queued(c) /\ ~Pending(c)
         /\ server.to = c => server.pc = "close" /\ fifo[c].writer
<1>1. ~Queued(c) /\ ~Pending(c)
  BY DEF Local, QueueLocal, JobLocal, Asks, Queued, Pending
<1>2. server.to = c => server.pc = "close" /\ fifo[c].writer
  BY DEF Local, ServerLocal, Waiting
<1> QED
  BY <1>1, <1>2

LEMMA Idle ==
  ASSUME NEW c \in Client, Local(c), UNCHANGED server,
         server.to = c => server.pc = "close",
         ~Waiting(c)', ~Queued(c)', ~Pending(c)',
         fifo'[c].data = <<>>, fifo'[c].writer = fifo[c].writer,
         clients'[c].pc = "prompt" /\ clients'[c].user # Nobody
           => LoggedIn(sessions', c, clients'[c].user)
  PROVE  Local(c)'
<1>1. QueueLocal(c)'
  BY DEF QueueLocal, Queued
<1>2. JobLocal(c)'
  BY DEF JobLocal, Pending
<1>3. ServerLocal(c)'
  BY DEF Local, ServerLocal, Delivers, Forwards
<1>4. FifoLocal(c)'
  BY DEF Local, FifoLocal, Waiting
<1>5. NameLocal(c)'
  BY DEF NameLocal
<1> QED
  BY <1>1, <1>2, <1>3, <1>4, <1>5 DEF Local

LEMMA ClientOwned ==
  ASSUME IInv, Owned, Patient, "kill" \notin Faults, NEW c \in Client,
         ClientStep(c) \/ Start(c) \/ Send(c) \/ Leave(c)
  PROVE  Owned'
<1>1. /\ clients \in [Client -> ClientState] /\ fifo \in [Client -> Fifo]
      /\ fifo[c].data \in Seq(Answer) /\ clients[c].arg \in User
      /\ clients[c].user \in User \cup {Nobody} /\ jobs \in [JobSlot -> Job]
  BY Types
<1>2. /\ UNCHANGED <<sessions, jobs, server>> /\ Running' = Running
      /\ \A d \in Client \ {c} : clients'[d] = clients[d] /\ fifo'[d] = fifo[d]
  <2>1. UNCHANGED <<sessions, jobs, server>>
    BY DEF ClientStep, Start, Send, Leave, OpenFifo, ReadAnswer, ReadEof
  <2>2. /\ clients' = [clients EXCEPT ![c] = clients'[c]]
        /\ fifo' = [fifo EXCEPT ![c] = fifo'[c]]
    BY <1>1 DEF ClientStep, Start, Send, Leave, OpenFifo, ReadAnswer, ReadEof
  <2> QED
    BY <1>1, <2>1, <2>2 DEF Running
<1>3. \A d \in Client : Kept(sessions, sessions', d)
  BY <1>2 DEF Kept
<1>4. \A r \in Waits' : r.from # c => r \in Waits
  <2>1. CASE UNCHANGED requests
    BY <2>1 DEF Waits
  <2>2. CASE Send(c) /\ ~UNCHANGED requests
    <3>1. PICK n \in Commands, u \in User :
            requests' = Append(requests,
                   [from |-> c, name |-> n, user |-> u, req |-> clients[c].req])
      BY <2>2 DEF Send
    <3> DEFINE r == [from |-> c, name |-> n, user |-> u, req |-> clients[c].req]
    <3>2. \A m \in 1..Len(requests') : requests'[m] = r \/ requests'[m] \in Waits
      <4>1. r \in Request
        BY <1>1, CommandAssumption DEF Request, ClientState
      <4>2. /\ requests \in Seq(Request) /\ Len(requests) \in Nat
            /\ Len(requests') = Len(requests) + 1
            /\ \A i \in 1..Len(requests) : requests'[i] = requests[i]
            /\ requests'[Len(requests) + 1] = r
        BY <3>1, <4>1, Types, AppendProperties
      <4> HIDE DEF r
      <4>3. \A m \in 1..Len(requests') : m = Len(requests) + 1 \/ m \in 1..Len(requests)
        BY <4>2
      <4> QED
        BY <4>2, <4>3 DEF Waits
    <3>3. r.from = c
      OBVIOUS
    <3> HIDE DEF r
    <3> QED
      BY <3>2, <3>3 DEF Waits
  <2> QED
    BY <2>1, <2>2 DEF ClientStep, Start, Leave, OpenFifo, ReadAnswer, ReadEof
<1>5. ASSUME NEW d \in Client \ {c}
      PROVE  DataLocal(d)' /\ (Running => Local(d)')
  <2>1. DataLocal(d)'
    BY <1>2, <1>3, DataFrame DEF Owned
  <2>2. ASSUME Running
        PROVE  Local(d)'
    <3>1. Local(d)
      BY <2>2 DEF Owned
    <3>2. \A r \in Waits' : r.from = d => r \in Waits
      BY <1>4
    <3> QED
      BY <1>2, <1>3, <3>1, <3>2, Frame
  <2> QED
    BY <2>1, <2>2
<1>6. DataLocal(c) /\ (Running => QueueOnce /\ ServerTo /\ Local(c))
  BY DEF Owned
<1>7. SUFFICES DataLocal(c)' /\ (Running => QueueOnce' /\ Local(c)')
  BY <1>2, <1>5, <1>6, <1>7 DEF Owned, ServerTo
<1>8. ~Waiting(c) => fifo[c].data = <<>>
  BY <1>6 DEF DataLocal, Waiting
<1>9. ASSUME fifo'[c].data = <<>>
      PROVE  DataLocal(c)'
  BY <1>9 DEF DataLocal
<1>10. UNCHANGED requests => Waits' = Waits /\ (QueueOnce => QueueOnce')
                             /\ (Queued(c)' <=> Queued(c)) /\ (Pending(c)' <=> Pending(c))
  BY <1>2 DEF Waits, QueueOnce, Queued, Pending
<1>11. CASE Start(c) \/ Leave(c)
  <2>1. /\ ~Waiting(c) /\ clients'[c].pc \in {"prompt", "off"} /\ clients'[c].user = Nobody
        /\ UNCHANGED requests
    <3>1. CASE Start(c)
      BY <1>1, <3>1 DEF Start, Waiting, ClientOff
    <3>2. CASE Leave(c)
      BY <1>1, <3>2 DEF Leave, Waiting, ClientOff
    <3> QED
      BY <1>11, <3>1, <3>2
  <2>2. fifo'[c].data = <<>> /\ fifo'[c].writer = fifo[c].writer
    BY <1>1, <1>8, <1>11, <2>1 DEF Start, Leave, Settled, Fifo
  <2>3. ~Waiting(c)'
    BY <2>1 DEF Waiting
  <2>4. Running => Local(c)'
    BY <1>2, <1>6, <1>10, <2>1, <2>2, <2>3, NotWaiting, Idle
  <2> QED
    BY <1>6, <1>9, <1>10, <2>1, <2>2, <2>4
<1>12. CASE ReadAnswer(c)
  <2> DEFINE k == clients[c]
             a == Head(fifo[c].data)
             leaves == \/ k.name \in {"quit-server", "quit-x"} /\ a.say # "ERR"
                       \/ k.name = "quit" /\ a.say = "bye"
             name == IF k.name \in {"logout", "xlogout"} THEN Nobody
                     ELSE IF a.say # "welcome" THEN k.user
                     ELSE IF k.name = "login" THEN k.arg ELSE Nobody
  <2>1. /\ k.pc = "reading" /\ fifo[c].data # <<>> /\ UNCHANGED requests
        /\ clients'[c] = IF leaves THEN ClientOff ELSE Prompt(k, name)
        /\ fifo'[c] = Settled([fifo[c] EXCEPT !.data = Tail(fifo[c].data)], FALSE)
    BY <1>1, <1>12 DEF ReadAnswer
  <2>2. Tail(fifo[c].data) = <<>>
    <3>1. Len(fifo[c].data) = 1
      BY <1>6, <2>1 DEF DataLocal
    <3>2. Len(Tail(fifo[c].data)) = 0 /\ Tail(fifo[c].data) \in Seq(Answer)
      BY <1>1, <2>1, <3>1, HeadTailProperties
    <3> QED
      BY <3>2, EmptySeq
  <2>3. fifo'[c].data = <<>> /\ fifo'[c].writer = fifo[c].writer
    BY <1>1, <2>1, <2>2 DEF Settled, Fifo
  <2>4. a.for = k.name
    BY <1>6, <2>1 DEF DataLocal, Fits
  <2> HIDE DEF a, leaves, name
  <2>5. /\ clients'[c].pc \in {"off", "prompt"}
        /\ clients'[c].pc = "prompt" => ~leaves /\ clients'[c].user = name
    BY <1>1, <2>1 DEF Prompt, ClientOff, ClientState
  <2>6. ASSUME Running
        PROVE  Local(c)'
    <3>1. /\ Truthful(c, a) /\ (server.to = c => server.pc = "close")
          /\ ~Queued(c) /\ ~Pending(c)
      BY <1>6, <2>1, <2>6
      DEF Local, FifoLocal, QueueLocal, JobLocal, Queued, Pending, a
    <3>2. clients'[c].pc = "prompt" /\ clients'[c].user # Nobody
            => LoggedIn(sessions, c, clients'[c].user)
      BY <2>4, <2>5, <3>1 DEF Truthful, name, leaves
    <3>3. ~Waiting(c)'
      BY <2>5 DEF Waiting
    <3> QED
      BY <1>2, <1>6, <1>10, <2>1, <2>3, <2>6, <3>1, <3>2, <3>3, Idle
  <2> QED
    BY <1>6, <1>9, <1>10, <2>1, <2>3, <2>6
<1>13. CASE ReadEof(c)
  <2>1. /\ clients[c].pc = "reading" /\ fifo[c].data = <<>>
        /\ ~fifo[c].writer /\ ~fifo[c].leaked /\ UNCHANGED fifo
    BY <1>13 DEF ReadEof
  <2>2. ~Running
    BY <1>6, <2>1 DEF Local, FifoLocal
  <2> QED
    BY <1>9, <2>1, <2>2
<1>14. CASE OpenFifo(c)
  <2>1. /\ clients[c].pc = "sent" /\ UNCHANGED <<requests, fifo>>
        /\ clients'[c].pc = IF fifo[c].writer \/ fifo[c].leaked THEN "reading" ELSE "opening"
        /\ clients'[c].name = clients[c].name /\ clients'[c].arg = clients[c].arg
        /\ clients'[c].req = clients[c].req /\ clients'[c].user = clients[c].user
    BY <1>1, <1>14 DEF OpenFifo, ClientState
  <2>2. /\ fifo[c].data = <<>> /\ Waiting(c) /\ Waiting(c)'
        /\ \A r : Asks(c, r) => Asks(c, r)'
        /\ \A r : Fits(c, r) => Fits(c, r)'
        /\ \A r : Truthful(c, r) => Truthful(c, r)'
    <3>1. fifo[c].data = <<>> /\ Waiting(c) /\ Waiting(c)'
      BY <1>6, <2>1 DEF DataLocal, Waiting
    <3> QED
      BY <1>2, <2>1, <3>1 DEF Asks, Fits, Truthful
  <2>3. ASSUME Running
        PROVE  Local(c)'
    <3>0. Local(c)
      BY <1>6, <2>3
    <3>1. QueueLocal(c)'
      BY <1>2, <1>10, <2>1, <2>2, <3>0 DEF Local, QueueLocal
    <3>2. JobLocal(c)'
      BY <1>2, <2>1, <2>2, <3>0 DEF Local, JobLocal, Asks
    <3>3. ServerLocal(c)'
      BY <1>2, <2>1, <2>2, <3>0 DEF Local, ServerLocal, Delivers, Forwards, At, Fits, Truthful
    <3>4. FifoLocal(c)'
      BY <1>2, <2>1, <2>2, <3>0 DEF Local, FifoLocal
    <3>5. NameLocal(c)'
      BY <1>2, <1>10, <2>1, <3>0 DEF Local, NameLocal
    <3> QED
      BY <3>1, <3>2, <3>3, <3>4, <3>5 DEF Local
  <2> QED
    BY <1>6, <1>9, <1>10, <2>1, <2>2, <2>3
<1>15. CASE Send(c)
  <2>1. clients[c].pc = "prompt" /\ ~Waiting(c) /\ ~fifo[c].writer /\ UNCHANGED fifo
    BY <1>15 DEF Send, Waiting
  <2>2. ASSUME Running
        PROVE  QueueOnce' /\ Local(c)'
    <3>1. PICK n \in Commands, u \in User :
            /\ clients' = [clients EXCEPT ![c] =
                             [clients[c] EXCEPT !.pc = "sent", !.name = n, !.arg = u]]
            /\ requests' = Append(requests,
                   [from |-> c, name |-> n, user |-> u, req |-> clients[c].req])
      BY <1>15, <2>2 DEF Send, Running
    <3>2. [from |-> c, name |-> n, user |-> u, req |-> clients[c].req] \in Request
      BY <1>1, CommandAssumption DEF Request, ClientState
    <3>3. PICK r \in Request :
            /\ r.from = c /\ r.name = n /\ r.user = u /\ r.req = clients[c].req
            /\ requests' = Append(requests, r)
      BY <3>1, <3>2
    <3>4. /\ clients'[c].pc = "sent" /\ clients'[c].name = n /\ clients'[c].arg = u
          /\ clients'[c].req = clients[c].req /\ clients'[c].user = clients[c].user
      BY <1>1, <3>1 DEF ClientState
    <3>5. Local(c) /\ ~Queued(c) /\ ~Pending(c) /\ server.to # c
      BY <1>6, <2>1, <2>2, NotWaiting
    <3>6. QueueOnce' /\ Waits' = Waits \cup {r}
      BY <1>6, <2>2, <3>3, <3>5, QueueMore
    <3>7. ~Pending(c)' /\ server'.to # c
      BY <1>2, <3>5 DEF Pending
    <3>8. QueueLocal(c)'
      <4>1. Asks(c, r)'
        BY <3>3, <3>4 DEF Asks, Waiting
      <4>2. \A m \in Waits' : m.from = c => m = r
        BY <3>5, <3>6 DEF Queued
      <4>3. \A m \in Waits' : m.from = c => Asks(c, m)'
        BY <4>1, <4>2 DEF Asks
      <4> QED
        BY <1>8, <2>1, <3>7, <4>3 DEF QueueLocal
    <3>9. JobLocal(c)' /\ ServerLocal(c)'
      BY <3>7 DEF JobLocal, ServerLocal, Pending
    <3>10. FifoLocal(c)'
      BY <1>8, <2>1, <3>4 DEF FifoLocal
    <3>11. NameLocal(c)'
      BY <1>2, <2>1, <3>4, <3>5 DEF Local, NameLocal
    <3> QED
      BY <3>6, <3>8, <3>9, <3>10, <3>11 DEF Local
  <2> QED
    BY <1>8, <1>9, <2>1, <2>2
<1> QED
  BY <1>11, <1>12, <1>13, <1>14, <1>15 DEF ClientStep

-----------------------------------------------------------------------------
(* The workers, and the steps of the server that answer nobody *)

LEMMA WorkerOwned ==
  ASSUME IInv, Owned, NEW i \in JobSlot, WorkerWrite(i) \/ WorkerCrash(i)
  PROVE  Owned'
<1>1. UNCHANGED <<sessions, requests, clients, fifo, server>>
  BY DEF WorkerWrite, WorkerCrash
<1>2. \A k \in JobSlot : jobs'[k].st = jobs[k].st /\ jobs'[k].ask = jobs[k].ask
  <2>1. jobs \in [JobSlot -> Job]
    BY Types
  <2>2. CASE WorkerWrite(i)
    BY <2>1, <2>2 DEF WorkerWrite, Job
  <2>3. CASE WorkerCrash(i)
    BY <2>1, <2>3 DEF WorkerCrash, Job
  <2> QED
    BY <2>2, <2>3
<1>3. \A c \in Client : Kept(sessions, sessions', c)
  BY <1>1 DEF Kept
<1>4. Waits' = Waits /\ Running' = Running /\ (QueueOnce => QueueOnce') /\ (ServerTo => ServerTo')
  BY <1>1 DEF Waits, Running, QueueOnce, ServerTo
<1>5. \A c \in Client : DataLocal(c)'
  BY <1>1, <1>3, DataFrame DEF Owned
<1>6. ASSUME Running, NEW c \in Client
      PROVE  Local(c)'
  <2>1. Local(c)
    BY <1>6 DEF Owned
  <2> QED
    BY <1>1, <1>2, <1>3, <1>4, <2>1, Frame
<1> QED
  BY <1>4, <1>5, <1>6 DEF Owned

\* When the server ends, only what it has written remains.
LEMMA ExitOwned ==
  ASSUME IInv, Owned, Exit, UNCHANGED <<sessions, clients>>
  PROVE  Owned'
<1>1. ~Running'
  BY DEF Exit, Then, Running, Polling
<1>2. ASSUME NEW c \in Client
      PROVE  DataLocal(c)'
  <2>1. fifo[c] \in Fifo /\ DataLocal(c)
    BY Types DEF Owned
  <2>2. fifo'[c].data = IF Reader(c) THEN fifo[c].data ELSE <<>>
    BY <2>1 DEF Exit, Settled, Fifo
  <2> QED
    BY <2>1, <2>2 DEF DataLocal, Fits, Waiting
<1> QED
  BY <1>1, <1>2 DEF Owned

LEMMA ThenFacts ==
  ASSUME server \in Server, NEW p \in {"poll", "exited", "log", "hdr", "forw"}, Then(p)
  PROVE  server'.pc = p /\ server'.to = Nobody
<1>1. CASE p \in {"poll", "exited"}
  BY <1>1 DEF Then, Polling
<1>2. CASE p \notin {"poll", "exited"}
  BY <1>2 DEF Then, Server
<1> QED
  BY <1>1, <1>2

LEMMA QuietOwned ==
  ASSUME IInv, Owned, Running, UNCHANGED <<sessions, jobs, requests, clients, fifo>>,
         server.to \notin Client, server'.to \notin Client,
         server'.pc \notin {"open", "write", "close"}
  PROVE  Owned'
<1>1. \A c \in Client : Kept(sessions, sessions', c)
  BY DEF Kept
<1>2. Waits' = Waits /\ QueueOnce' /\ ServerTo'
  BY DEF Waits, QueueOnce, ServerTo, Owned
<1>3. \A c \in Client : DataLocal(c)'
  BY <1>1, DataFrame DEF Owned
<1>4. ASSUME NEW c \in Client
      PROVE  Local(c)'
  <2>1. Local(c) /\ server.to # c /\ server'.to # c
    BY DEF Owned
  <2> QED
    BY <1>1, <1>2, <2>1, Frame
<1> QED
  BY <1>2, <1>3, <1>4 DEF Owned

\* Between answers the server is at none.
LEMMA NoOne ==
  ASSUME IInv, Owned, Running,
         \/ server.pc \notin {"open", "forw", "write", "close"}
         \/ /\ server.pc = "forw"
            /\ ~(At("FORW") /\ First(server.rest) \in server.ready)
  PROVE  server.to \notin Client
<1> SUFFICES ASSUME server.to \in Client
             PROVE  FALSE
  OBVIOUS
<1>1. ServerLocal(server.to)
  BY DEF Owned, Local
<1> QED
  BY <1>1 DEF ServerLocal, Forwards

LEMMA PollOwned ==
  ASSUME IInv, Owned, Poll \/ NoRequest
  PROVE  Owned'
<1>1. server \in Server
  BY Types
<1>2. Running /\ server.to \notin Client
  <2>1. Running /\ server.pc \notin {"open", "forw", "write", "close"}
    BY DEF Poll, NoRequest, Running
  <2> QED
    BY <2>1, NoOne
<1>3. CASE Poll
  <2>1. server'.pc = "request" /\ server'.to = server.to
    BY <1>1, <1>3 DEF Poll, Server
  <2> QED
    BY <1>2, <1>3, <2>1, QuietOwned DEF Poll
<1>4. CASE NoRequest
  <2>1. server'.pc = "log" /\ server'.to = Nobody
    BY <1>1, <1>4, ThenFacts DEF NoRequest
  <2> QED
    BY <1>2, <1>4, <2>1, Types, QuietOwned DEF NoRequest
<1> QED
  BY <1>3, <1>4

-----------------------------------------------------------------------------
(* The answers *)

\* Nothing but the answer is under way for the client that is answered.
LEMMA NothingElse ==
  ASSUME NEW c \in Client, Local(c), server.to = c, server.pc \in {"open", "write", "close"},
         server.pc = "open" => server.then # "forw"
  PROVE  ~Queued(c) /\ ~Pending(c)
BY DEF Local, QueueLocal, JobLocal, Queued, Pending

\* An answer to the only request of c is taken up.
LEMMA AnswerOpens ==
  ASSUME NEW c \in Client, FifoLocal(c), Waiting(c), clients'[c] = clients[c],
         fifo'[c] = fifo[c], fifo[c].data = <<>>, ~fifo[c].writer,
         ~Queued(c)', ~Pending(c)',
         server'.pc = "open", server'.to = c, server'.then # "forw",
         server'.answer.say # "busy",
         Fits(c, server.answer)', Truthful(c, server.answer)'
  PROVE  Local(c)'
<1>0. Waiting(c)'
  BY DEF Waiting
<1>1. QueueLocal(c)'
  BY DEF QueueLocal, Queued
<1>2. JobLocal(c)'
  BY DEF JobLocal, Pending
<1>3. ServerLocal(c)'
  BY <1>0 DEF ServerLocal, Delivers, Forwards
<1>4. FifoLocal(c)'
  BY DEF FifoLocal
<1>5. NameLocal(c)'
  BY <1>0 DEF NameLocal, Waiting
<1> QED
  BY <1>1, <1>2, <1>3, <1>4, <1>5 DEF Local

LEMMA OpenOwned ==
  ASSUME IInv, Owned, OpenAnswer
  PROVE  Owned'
<1> DEFINE s == server
           i == First(server.rest)
<1>1. PICK c \in Client : c = server.to /\ Running
  BY DEF OpenAnswer, Owned, ServerTo, Running
<1>2. /\ s.pc = "open" /\ UNCHANGED <<sessions, jobs, requests>> /\ Local(c)
      /\ QueueOnce
  BY <1>1 DEF OpenAnswer, Owned
<1>3. /\ clients'[c].pc = "reading" /\ clients'[c].name = clients[c].name
      /\ clients'[c].arg = clients[c].arg /\ clients'[c].req = clients[c].req
      /\ clients'[c].user = clients[c].user
      /\ fifo'[c].writer /\ fifo'[c].data = fifo[c].data
      /\ \A d \in Client \ {c} : clients'[d] = clients[d] /\ fifo'[d] = fifo[d]
  BY <1>1, Types DEF OpenAnswer, ClientState, Fifo
<1>4. /\ server'.pc = IF s.then = "forw" THEN "forw" ELSE "write"
      /\ server'.to = c /\ server'.then = s.then /\ server'.answer = s.answer
      /\ server'.rest = s.rest /\ server'.ready = s.ready
  BY <1>1, Types DEF OpenAnswer, Server
<1>5. \A d \in Client : Kept(sessions, sessions', d)
  BY <1>2 DEF Kept
<1>6. /\ Waits' = Waits /\ QueueOnce' /\ ServerTo' /\ (Queued(c)' <=> Queued(c))
      /\ (Pending(c)' <=> Pending(c))
  BY <1>1, <1>2, <1>4 DEF Waits, QueueOnce, ServerTo, Queued, Pending
<1>7. ASSUME NEW d \in Client \ {c}
      PROVE  DataLocal(d)' /\ Local(d)'
  <2>1. Local(d) /\ DataLocal(d) /\ server.to # d /\ server'.to # d
    BY <1>1, <1>4 DEF Owned
  <2> QED
    BY <1>2, <1>3, <1>5, <1>6, <2>1, Frame, DataFrame
<1>8. Waiting(c) /\ fifo[c].data = <<>>
  BY <1>1, <1>2 DEF Local, ServerLocal
<1>9. /\ Waiting(c)'
      /\ \A r : Asks(c, r) => Asks(c, r)'
      /\ \A r : Fits(c, r) => Fits(c, r)'
      /\ \A r : Truthful(c, r) => Truthful(c, r)'
  <2>1. Waiting(c)'
    BY <1>3 DEF Waiting
  <2> QED
    BY <1>2, <1>3, <1>8, <2>1 DEF Asks, Fits, Truthful
<1>10. DataLocal(c)'
  BY <1>3, <1>8 DEF DataLocal
<1>11. ~Queued(c)
  BY <1>1, <1>2 DEF Local, QueueLocal, Queued
<1>12. QueueLocal(c)'
  BY <1>6, <1>11 DEF QueueLocal, Queued
<1>13. JobLocal(c)'
  BY <1>1, <1>2, <1>3, <1>4, <1>8, <1>9 DEF Local, JobLocal, Asks
<1>14. ServerLocal(c)'
  BY <1>1, <1>2, <1>3, <1>4, <1>8, <1>9
  DEF Local, ServerLocal, Delivers, Forwards, At, Fits, Truthful
<1>15. FifoLocal(c)'
  BY <1>3, <1>4, <1>8 DEF FifoLocal
<1>16. NameLocal(c)'
  BY <1>2, <1>3, <1>6, <1>11 DEF Local, NameLocal
<1>17. Local(c)'
  BY <1>12, <1>13, <1>14, <1>15, <1>16 DEF Local
<1> QED
  BY <1>6, <1>7, <1>10, <1>17 DEF Owned

LEMMA WriteOwned ==
  ASSUME IInv, Owned, WriteAnswer
  PROVE  Owned'
<1>0. PICK a : a = server.answer
  OBVIOUS
<1>1. PICK c \in Client : c = server.to /\ Running
  BY DEF WriteAnswer, Owned, ServerTo, Running
<1>2. /\ server.pc = "write" /\ UNCHANGED <<sessions, jobs, requests, clients>> /\ Local(c)
      /\ QueueOnce /\ server \in Server
  BY <1>1, Types DEF WriteAnswer, Owned
<1>3. CASE Exit
  BY <1>2, <1>3, ExitOwned
<1>4. CASE ~Exit
  <2>1. /\ fifo' = [fifo EXCEPT ![c].data = Append(@, a)]
        /\ IF a.say = "busy" THEN Then(server.then)
           ELSE server' = [server EXCEPT !.pc = "close"]
    BY <1>0, <1>1, <1>4 DEF WriteAnswer
  <2>2. /\ clients[c].pc = "reading" /\ fifo[c].data = <<>> /\ Fits(c, a) /\ Truthful(c, a)
        /\ fifo[c].writer <=> a.say # "busy"
    BY <1>0, <1>1, <1>2 DEF Local, ServerLocal, Delivers
  <2>3. /\ fifo'[c].data = Append(<<>>, a) /\ fifo'[c].writer = fifo[c].writer
        /\ \A d \in Client \ {c} : fifo'[d] = fifo[d]
    BY <2>1, <2>2, Types DEF Fifo
  <2>4. /\ fifo'[c].data # <<>> /\ Len(fifo'[c].data) = 1 /\ Head(fifo'[c].data) = a
    BY <2>3
  <2>5. /\ ~Queued(c) /\ ~Pending(c)
    BY <1>1, <1>2, NothingElse
  <2>6. /\ Waits' = Waits /\ QueueOnce' /\ ~Queued(c)' /\ ~Pending(c)'
    BY <1>2, <2>5 DEF Waits, QueueOnce, Queued, Pending
  <2>7. \/ server'.pc = "close" /\ server'.to = c /\ a.say # "busy"
        \/ /\ a.say = "busy" /\ server'.to = Nobody
           /\ server'.pc \in {"poll", "log", "forw", "exited"}
    <3>1. server.then \in {"poll", "log", "forw", "exited"}
      BY <1>2 DEF Server
    <3>2. CASE a.say = "busy"
      BY <1>2, <2>1, <3>1, <3>2, ThenFacts
    <3>3. CASE a.say # "busy"
      BY <1>1, <1>2, <2>1, <3>3 DEF Server
    <3> QED
      BY <3>2, <3>3
  <2>8. \A d \in Client : Kept(sessions, sessions', d)
    BY <1>2 DEF Kept
  <2>9. ASSUME NEW d \in Client \ {c}
        PROVE  DataLocal(d)' /\ Local(d)'
    <3>1. Local(d) /\ DataLocal(d) /\ server.to # d /\ server'.to # d
      BY <1>1, <2>7, Types DEF Owned
    <3> QED
      BY <1>2, <2>3, <2>6, <2>8, <3>1, Frame, DataFrame
  <2>10. Fits(c, a)' /\ Truthful(c, a)' /\ Waiting(c)'
    BY <1>2, <2>2 DEF Fits, Truthful, Waiting
  <2>11. DataLocal(c)'
    BY <1>2, <2>2, <2>4, <2>10 DEF DataLocal, Truthful, Fits
  <2>12. QueueLocal(c)' /\ JobLocal(c)'
    BY <2>6 DEF QueueLocal, JobLocal, Queued, Pending
  <2>13. ServerLocal(c)'
    BY <2>2, <2>3, <2>4, <2>7, Types DEF ServerLocal, Delivers, Forwards
  <2>14. FifoLocal(c)'
    <3>1. fifo'[c].writer => server'.to = c /\ server'.pc = "close"
      BY <2>2, <2>3, <2>7
    <3>2. Truthful(c, Head(fifo[c].data))'
      BY <2>4, <2>10 DEF Truthful
    <3>3. server'.to = c => server'.pc = "close"
      BY <2>7, Types
    <3> QED
      BY <2>4, <3>1, <3>2, <3>3 DEF FifoLocal
  <2>15. NameLocal(c)'
    BY <2>6, <2>10 DEF NameLocal, Waiting
  <2> QED
    <3>1. ServerTo'
      BY <1>1, <2>7 DEF ServerTo
    <3>2. Local(c)'
      BY <2>12, <2>13, <2>14, <2>15 DEF Local
    <3> QED
      BY <2>6, <2>9, <2>11, <3>1, <3>2 DEF Owned
<1> QED
  BY <1>3, <1>4

LEMMA CloseOwned ==
  ASSUME IInv, Owned, CloseAnswer
  PROVE  Owned'
<1>1. PICK c \in Client : c = server.to /\ Running
  BY DEF CloseAnswer, Owned, ServerTo, Running
<1>2. /\ server.pc = "close" /\ UNCHANGED <<sessions, jobs, requests, clients>> /\ Local(c)
      /\ QueueOnce /\ server \in Server /\ DataLocal(c)
  BY <1>1, Types DEF CloseAnswer, Owned
<1>3. CASE server.then = "exited"
  BY <1>2, <1>3, ExitOwned DEF CloseAnswer
<1>4. CASE server.then # "exited"
  <2>1. /\ fifo' = [fifo EXCEPT ![c] = Settled([fifo[c] EXCEPT !.writer = FALSE], Reader(c))]
        /\ Then(server.then) /\ server.then \in {"poll", "log", "forw"}
    BY <1>1, <1>2, <1>4 DEF CloseAnswer, Server
  <2>2. server'.to = Nobody /\ server'.pc \in {"poll", "log", "forw"}
    BY <1>2, <2>1, ThenFacts
  <2>3. /\ fifo'[c].data = fifo[c].data /\ ~fifo'[c].writer
        /\ \A d \in Client \ {c} : fifo'[d] = fifo[d]
    <3>1. fifo[c].data # <<>> => Reader(c)
      BY <1>2 DEF DataLocal, Reader
    <3> QED
      BY <2>1, <3>1, Types DEF Settled, Fifo
  <2>4. ~Waiting(c) \/ fifo[c].data # <<>>
    BY <1>1, <1>2 DEF Local, ServerLocal
  <2>5. /\ ~Queued(c) /\ ~Pending(c)
    BY <1>1, <1>2, NothingElse
  <2>6. /\ Waits' = Waits /\ QueueOnce' /\ ~Queued(c)' /\ ~Pending(c)'
    BY <1>2, <2>5 DEF Waits, QueueOnce, Queued, Pending
  <2>7. \A d \in Client : Kept(sessions, sessions', d)
    BY <1>2 DEF Kept
  <2>8. ASSUME NEW d \in Client \ {c}
        PROVE  DataLocal(d)' /\ Local(d)'
    <3>1. Local(d) /\ DataLocal(d) /\ server.to # d /\ server'.to # d
      BY <1>1, <2>2, Types DEF Owned
    <3> QED
      BY <1>2, <2>3, <2>6, <2>7, <3>1, Frame, DataFrame
  <2>9. DataLocal(c)'
    BY <1>2, <2>3 DEF DataLocal, Fits, Waiting
  <2>10. QueueLocal(c)' /\ JobLocal(c)'
    BY <2>6 DEF QueueLocal, JobLocal, Queued, Pending
  <2>11. ServerLocal(c)'
    BY <2>2, Types DEF ServerLocal
  <2>12. FifoLocal(c)'
    BY <1>2, <2>2, <2>3, <2>4, Types DEF Local, FifoLocal, Waiting, Truthful
  <2>13. NameLocal(c)'
    BY <1>2, <2>6 DEF Local, NameLocal
  <2> QED
    BY <2>2, <2>6, <2>8, <2>9, <2>10, <2>11, <2>12, <2>13 DEF Owned, Local, ServerTo
<1> QED
  BY <1>3, <1>4

-----------------------------------------------------------------------------
(* The sessions *)

\* The session of a path is the only one in use with it, and find_ses finds it.
LEMMA FindFacts ==
  ASSUME IInv, NEW c \in Client, HasSession(sessions, c)
  PROVE  /\ FindSes(c) \in SessionSlot
         /\ sessions[FindSes(c)].in_use /\ sessions[FindSes(c)].fifo = c
<1> DEFINE own == {k \in SessionSlot : sessions[k].fifo = c}
<1>1. PICK k \in SessionSlot : sessions[k].in_use /\ sessions[k].fifo = c
  BY DEF HasSession
<1>2. own \in SUBSET Nat /\ own # {} /\ FindSes(c) = First(own)
  BY <1>1, Slots DEF FindSes
<1>3. First(own) \in own /\ First(own) <= k
  BY <1>1, <1>2, FirstFacts
<1>4. First(own) = k
  <2>1. First(own) \notin 1..(k - 1)
    BY <1>1, <1>3, Types DEF Distinct
  <2>2. First(own) \in 1..NSessions /\ k \in 1..NSessions /\ NSessions \in Nat
    BY <1>1, <1>3, CommandAssumption DEF SessionSlot
  <2> QED
    BY <1>3, <2>1, <2>2
<1> QED
  BY <1>1, <1>2, <1>4

LEMMA OneSession ==
  ASSUME NEW ss \in Sessions, Distinct(ss), NEW i \in SessionSlot, NEW k \in SessionSlot,
         ss[i].in_use, ss[k].in_use, ss[i].fifo = ss[k].fifo
  PROVE  i = k
<1>1. i \in Nat \ {0} /\ k \in Nat \ {0}
  BY CommandAssumption DEF SessionSlot
<1>2. i \notin 1..(k - 1) /\ k \notin 1..(i - 1)
  BY DEF Distinct
<1> QED
  BY <1>1, <1>2

\* A change of the sessions of c alone.
LEMMA OthersKept ==
  ASSUME NEW ss \in Sessions, NEW tt, NEW c, NEW d, d # c, NEW i \in SessionSlot,
         ss[i].in_use => ss[i].fifo = c,
         \A k \in SessionSlot \ {i} : tt[k] = ss[k]
  PROVE  Kept(ss, tt, d)
BY DEF Kept, LoggedIn, HasSession

\* The session i of c gets user u.
LEMMA UserSet ==
  ASSUME NEW ss \in Sessions, NEW c, NEW i \in SessionSlot, ss[i].in_use, ss[i].fifo = c,
         NEW u, NEW tt, tt = [ss EXCEPT ![i].user = u]
  PROVE  /\ LoggedIn(tt, c, u) /\ HasSession(tt, c)
         /\ \A d : d # c => Kept(ss, tt, d)
<1>1. tt[i].in_use /\ tt[i].fifo = c /\ tt[i].user = u
  BY DEF Sessions, Session
<1>2. \A k \in SessionSlot \ {i} : tt[k] = ss[k]
  BY DEF Sessions
<1>3. LoggedIn(tt, c, u) /\ HasSession(tt, c)
  BY <1>1 DEF LoggedIn, HasSession
<1>4. ASSUME NEW d, d # c
      PROVE  Kept(ss, tt, d)
  BY <1>2, <1>4, OthersKept
<1> QED
  BY <1>3, <1>4

-----------------------------------------------------------------------------
(* The loops over the jobs *)

\* The job the loops look at, and its client.
LEMMA JobFacts ==
  ASSUME IInv, Owned, Running, NEW st \in {"LOG", "HDR", "FORW"}, At(st),
         NEW i, i = First(server.rest), NEW r, r = jobs[i].ask
  PROVE  /\ i \in JobSlot /\ r \in Request /\ r.from \in Client
         /\ jobs[i].st = st /\ st # "EMPT" /\ Pending(r.from) /\ ~Queued(r.from)
         /\ Local(r.from) /\ DataLocal(r.from)
         /\ Asks(r.from, r) /\ fifo[r.from].data = <<>> /\ HasSession(sessions, r.from)
         /\ \A k \in JobSlot : jobs[k].st # "EMPT" /\ jobs[k].ask.from = r.from => k = i
         /\ st = "LOG" => r.name = "login" /\ clients[r.from].user = Nobody
         /\ st # "LOG" => r.name \in {"info", "users"}
         /\ r.name = "users" => LoggedIn(sessions, r.from, Admin)
         /\ st # "FORW" => server.to # r.from /\ ~fifo[r.from].writer
         /\ st = "FORW" => server.to = r.from
<1>1. /\ i \in JobSlot /\ r \in Request /\ r.from \in Client
      /\ jobs[i].st = st /\ st # "EMPT"
  BY AtFacts DEF At
<1>2. Local(r.from) /\ DataLocal(r.from) /\ Pending(r.from)
  BY <1>1 DEF Owned, Pending
<1>3. ~Queued(r.from)
  BY <1>2 DEF Local, QueueLocal, Queued
<1>4. JobLocal(r.from)
  BY <1>2 DEF Local
<1> QED
  BY <1>1, <1>2, <1>3, <1>4 DEF JobLocal

LEMMA LogOwned ==
  ASSUME IInv, Owned, LogLoop
  PROVE  Owned'
<1> DEFINE i == First(server.rest)
           j == jobs[i]
           ok == j.wrote = 2 /\ j.ask.user \in Known
           own == FindSes(j.ask.from)
<1>0. Running /\ server.to \notin Client /\ server \in Server
  <2>1. Running /\ server.pc \notin {"open", "forw", "write", "close"}
    BY DEF LogLoop, Running
  <2> QED
    BY <2>1, NoOne, Types
<1>1. server.pc = "log" /\ UNCHANGED <<requests, clients>>
  BY DEF LogLoop
<1>2. CASE ~At("LOG")
  <2>1. Then("hdr") /\ UNCHANGED <<sessions, jobs, fifo>>
    BY <1>2 DEF LogLoop
  <2>2. server'.pc = "hdr" /\ server'.to = Nobody
    BY <1>0, <2>1, ThenFacts
  <2> QED
    BY <1>0, <1>1, <2>1, <2>2, Types, QuietOwned
<1>3. CASE At("LOG") /\ i \notin server.ready
  <2>1. server' = [server EXCEPT !.rest = @ \ {i}] /\ UNCHANGED <<sessions, jobs, fifo>>
    BY <1>3 DEF LogLoop
  <2>2. server'.pc = "log" /\ server'.to = server.to
    BY <1>0, <1>1, <2>1 DEF Server
  <2> QED
    BY <1>0, <1>1, <2>1, <2>2, QuietOwned
<1>4. CASE Exit /\ UNCHANGED <<sessions, jobs>>
  BY <1>1, <1>4, ExitOwned
<1>5. CASE /\ At("LOG") /\ i \in server.ready /\ (ok => own # 0)
           /\ ~(Exit /\ UNCHANGED <<sessions, jobs>>)
  <2>1. PICK r : r = j.ask
    OBVIOUS
  <2>2. PICK c : c = r.from
    OBVIOUS
  <2>3. PICK say \in {"welcome", "ERR"} :
          /\ say = "welcome" => sessions' = [sessions EXCEPT ![FindSes(c)].user = r.user]
          /\ say = "ERR" => sessions' = sessions
          /\ server' = [server EXCEPT !.pc = "open", !.rest = @ \ {i}, !.to = c,
                          !.answer = Say(r, say), !.then = "log"]
          /\ jobs' = [jobs EXCEPT ![i] = NoJob]
          /\ UNCHANGED fifo
    <3>1. /\ sessions' = IF ok THEN [sessions EXCEPT ![own].user = j.ask.user]
                         ELSE sessions
          /\ server' = [server EXCEPT !.pc = "open", !.rest = @ \ {i}, !.to = j.ask.from,
                          !.answer = Say(j.ask, IF ok THEN "welcome" ELSE "ERR"),
                          !.then = "log"]
          /\ jobs' = [jobs EXCEPT ![i] = NoJob]
          /\ UNCHANGED fifo
      BY <1>5 DEF LogLoop
    <3> HIDE DEF ok
    <3>2. CASE ok
      BY <2>1, <2>2, <3>1, <3>2
    <3>3. CASE ~ok
      BY <2>1, <2>2, <3>1, <3>3
    <3> QED
      BY <3>2, <3>3
  <2>4. /\ i \in JobSlot /\ r \in Request /\ c \in Client
        /\ ~Queued(c) /\ Local(c) /\ Asks(c, r) /\ fifo[c].data = <<>>
        /\ HasSession(sessions, c) /\ ~fifo[c].writer
        /\ \A k \in JobSlot : jobs[k].st # "EMPT" /\ jobs[k].ask.from = c => k = i
        /\ r.name = "login" /\ clients[c].user = Nobody
    <3>1. At("LOG")
      BY <1>5
    <3> HIDE DEF i
    <3> QED
      BY <1>0, <2>1, <2>2, <3>1, JobFacts DEF i
  <2> HIDE DEF i, j, ok, own
  <2>5. /\ server'.pc = "open" /\ server'.to = c /\ server'.then = "log"
        /\ server'.answer = Say(r, say)
    BY <1>0, <2>3 DEF Server
  <2>6. /\ \A d \in Client \ {c} : Kept(sessions, sessions', d)
        /\ say = "welcome" => LoggedIn(sessions', c, r.user)
    <3>1. CASE say = "ERR"
      BY <2>3, <3>1 DEF Kept
    <3>2. CASE say = "welcome"
      <4>1. /\ FindSes(c) \in SessionSlot /\ sessions[FindSes(c)].in_use
            /\ sessions[FindSes(c)].fifo = c
        BY <2>4, FindFacts
      <4>2. sessions \in Sessions
        BY Types
      <4>3. sessions' = [sessions EXCEPT ![FindSes(c)].user = r.user]
        BY <2>3, <3>2
      <4> QED
        BY <3>2, <4>1, <4>2, <4>3, UserSet
    <3> QED
      BY <3>1, <3>2
  <2>7. /\ jobs'[i].st = "EMPT" /\ \A k \in JobSlot \ {i} : jobs'[k] = jobs[k]
    BY <2>3, <2>4, Types DEF NoJob
  <2>8. ~Pending(c)'
    BY <2>4, <2>7 DEF Pending
  <2>9. Waits' = Waits /\ QueueOnce' /\ ~Queued(c)'
    BY <1>0, <1>1, <2>4 DEF Waits, QueueOnce, Queued, Owned
  <2>10. ASSUME NEW d \in Client \ {c}
         PROVE  DataLocal(d)' /\ Local(d)'
    <3>1. Local(d) /\ DataLocal(d) /\ server.to # d /\ server'.to # d
      BY <1>0, <2>5 DEF Owned
    <3>2. \A k \in JobSlot : jobs'[k].st # "EMPT" /\ jobs'[k].ask.from = d =>
            /\ jobs[k].st # "EMPT" /\ jobs'[k].st = jobs[k].st /\ jobs'[k].ask = jobs[k].ask
      BY <2>7
    <3> QED
      BY <1>1, <2>3, <2>6, <2>9, <3>1, <3>2, Frame, DataFrame
  <2>11. DataLocal(c)'
    BY <2>3, <2>4 DEF DataLocal
  <2>12. Local(c)'
    <3>1. Waiting(c) /\ FifoLocal(c) /\ clients'[c] = clients[c] /\ fifo'[c] = fifo[c]
      BY <1>1, <2>3, <2>4 DEF Asks, Local
    <3>2. server'.answer.say = say /\ server'.answer.for = "login" /\ server'.answer.req = r.req
      BY <2>4, <2>5 DEF Say
    <3>3. Fits(c, server.answer)'
      BY <2>4, <3>1, <3>2 DEF Fits, Asks, Waiting
    <3>4. Truthful(c, server.answer)'
      BY <2>4, <2>6, <3>1, <3>2 DEF Truthful, Asks
    <3> QED
      BY <2>4, <2>5, <2>8, <2>9, <3>1, <3>2, <3>3, <3>4, AnswerOpens
  <2> QED
    BY <2>4, <2>5, <2>9, <2>10, <2>11, <2>12 DEF Owned, ServerTo
<1> QED
  BY <1>2, <1>3, <1>4, <1>5 DEF LogLoop

LEMMA HdrOwned ==
  ASSUME IInv, Owned, HdrLoop
  PROVE  Owned'
<1> DEFINE i == First(server.rest)
<1>0. Running /\ server.to \notin Client /\ server \in Server
  <2>1. Running /\ server.pc \notin {"open", "forw", "write", "close"}
    BY DEF HdrLoop, Running
  <2> QED
    BY <2>1, NoOne, Types
<1>1. server.pc = "hdr" /\ UNCHANGED <<sessions, requests, clients, fifo>>
  BY DEF HdrLoop
<1>2. CASE ~(At("HDR") /\ i \in server.ready)
  <2>1. Then("forw") /\ UNCHANGED jobs
    BY <1>2 DEF HdrLoop
  <2>2. server'.pc = "forw" /\ server'.to = Nobody
    BY <1>0, <2>1, ThenFacts
  <2> QED
    BY <1>0, <1>1, <2>1, <2>2, Types, QuietOwned
<1>3. CASE At("HDR") /\ i \in server.ready
  <2>1. PICK r : r = jobs[i].ask
    OBVIOUS
  <2>2. PICK c : c = r.from
    OBVIOUS
  <2>3. /\ jobs' = [jobs EXCEPT ![i].st = "FORW"]
        /\ server' = [server EXCEPT !.pc = "open", !.to = c, !.then = "forw"]
    BY <1>3, <2>1, <2>2 DEF HdrLoop
  <2>4. /\ i \in JobSlot /\ r \in Request /\ c \in Client
        /\ ~Queued(c) /\ Local(c) /\ Asks(c, r) /\ fifo[c].data = <<>>
        /\ HasSession(sessions, c) /\ ~fifo[c].writer /\ jobs[i].st = "HDR"
        /\ \A k \in JobSlot : jobs[k].st # "EMPT" /\ jobs[k].ask.from = c => k = i
        /\ r.name \in {"info", "users"}
        /\ r.name = "users" => LoggedIn(sessions, c, Admin)
        /\ Pending(c)
    <3>1. At("HDR")
      BY <1>3
    <3> HIDE DEF i
    <3> QED
      BY <1>0, <2>1, <2>2, <3>1, JobFacts DEF i
  <2>5. /\ server'.pc = "open" /\ server'.to = c /\ server'.then = "forw"
        /\ server'.rest = server.rest /\ server'.ready = server.ready
    BY <1>0, <2>3 DEF Server
  <2>6. /\ jobs'[i].st = "FORW" /\ jobs'[i].ask = r
        /\ \A k \in JobSlot \ {i} : jobs'[k] = jobs[k]
    BY <2>1, <2>3, <2>4, Types DEF Job
  <2>7. i' = i /\ server.rest # {} /\ i \in server.ready
    BY <1>3, <2>5 DEF At
  <2> HIDE DEF i
  <2>8. /\ \A d \in Client : Kept(sessions, sessions', d)
        /\ Waits' = Waits /\ QueueOnce' /\ ~Queued(c)'
    BY <1>0, <1>1, <2>4 DEF Kept, Waits, QueueOnce, Queued, Owned
  <2>9. ASSUME NEW d \in Client \ {c}
        PROVE  DataLocal(d)' /\ Local(d)'
    <3>1. Local(d) /\ DataLocal(d) /\ server.to # d /\ server'.to # d
      BY <1>0, <2>5 DEF Owned
    <3>2. \A k \in JobSlot : jobs'[k].st # "EMPT" /\ jobs'[k].ask.from = d =>
            /\ jobs[k].st # "EMPT" /\ jobs'[k].st = jobs[k].st /\ jobs'[k].ask = jobs[k].ask
      BY <2>2, <2>6
    <3> QED
      BY <1>1, <2>8, <3>1, <3>2, Frame, DataFrame
  <2>10. DataLocal(c)'
    BY <1>1, <2>4 DEF DataLocal
  <2>11. QueueLocal(c)'
    BY <2>8 DEF QueueLocal, Queued
  <2>12. Asks(c, r)' /\ Waiting(c)'
    BY <1>1, <2>4 DEF Asks, Waiting
  <2>13. JobLocal(c)'
    <3>1. \A k \in JobSlot : jobs'[k].st # "EMPT" /\ jobs'[k].ask.from = c => k = i
      BY <2>4, <2>6
    <3>2. i = First(server'.rest)
      BY <2>7 DEF i
    <3>3. /\ fifo'[c].data = <<>> /\ HasSession(sessions', c)
          /\ r.name = "users" => LoggedIn(sessions', c, Admin)
      BY <1>1, <2>4
    <3>4. ASSUME NEW k \in JobSlot, jobs'[k].st # "EMPT", jobs'[k].ask.from = c
          PROVE  /\ Asks(c, jobs[k].ask)' /\ fifo'[c].data = <<>> /\ HasSession(sessions', c)
                 /\ \A m \in JobSlot : jobs'[m].st # "EMPT" /\ jobs'[m].ask.from = c => m = k
                 /\ jobs'[k].st = "FORW" /\ jobs'[k].ask = r /\ k = First(server'.rest)
      <4>1. k = i
        BY <3>1, <3>4
      <4>2. jobs'[k].ask = r
        BY <2>6, <4>1
      <4>3. Asks(c, jobs[k].ask)'
        BY <2>12, <4>2 DEF Asks
      <4> QED
        BY <2>6, <3>1, <3>2, <3>3, <4>1, <4>3
    <3> QED
      BY <2>4, <2>5, <3>3, <3>4 DEF JobLocal
  <2>14. ServerLocal(c)'
    <3>1. At("FORW")'
      BY <2>5, <2>6, <2>7 DEF At, i
    <3>2. jobs'[First(server'.rest)].ask.from = c /\ First(server'.rest) \in server'.ready
      BY <2>2, <2>5, <2>6, <2>7 DEF i
    <3> QED
      BY <1>1, <2>4, <2>5, <2>12, <3>1, <3>2 DEF ServerLocal, Delivers, Forwards
  <2>15. FifoLocal(c)'
    BY <1>1, <2>4 DEF Local, FifoLocal
  <2>16. NameLocal(c)'
    BY <1>1, <2>4 DEF Local, NameLocal
  <2> QED
    BY <2>4, <2>5, <2>8, <2>9, <2>10, <2>11, <2>13, <2>14, <2>15, <2>16
    DEF Owned, ServerTo, Local
<1> QED
  BY <1>2, <1>3

LEMMA ForwOwned ==
  ASSUME IInv, Owned, ForwLoop
  PROVE  Owned'
<1> DEFINE i == First(server.rest)
<1>0. Running /\ server.pc = "forw" /\ server \in Server
  BY Types DEF ForwLoop, Running
<1>1. UNCHANGED <<sessions, requests, clients, fifo>>
  BY DEF ForwLoop
<1>2. CASE ~(At("FORW") /\ i \in server.ready)
  <2>1. Then("poll") /\ UNCHANGED jobs
    BY <1>2 DEF ForwLoop
  <2>2. server'.pc = "poll" /\ server'.to = Nobody
    BY <1>0, <2>1, ThenFacts
  <2>3. server.to \notin Client
    BY <1>0, <1>2, NoOne
  <2> QED
    BY <1>0, <1>1, <2>1, <2>2, <2>3, Types, QuietOwned
<1>3. CASE At("FORW") /\ i \in server.ready
  <2>1. PICK r : r = jobs[i].ask
    OBVIOUS
  <2>2. PICK c : c = r.from
    OBVIOUS
  <2>3. PICK say \in {"garbage", "list", "text"} :
          /\ say = "list" => r.name = "users"
          /\ server' = [server EXCEPT !.pc = "write", !.then = "poll", !.answer = Say(r, say)]
          /\ jobs' = [jobs EXCEPT ![i] = NoJob]
    <3> DEFINE said == IF jobs[i].wrote < 2 THEN "garbage"
                       ELSE IF jobs[i].ask.name = "users" THEN "list" ELSE "text"
    <3>1. /\ server' = [server EXCEPT !.pc = "write", !.then = "poll",
                                       !.answer = Say(jobs[i].ask, said)]
          /\ jobs' = [jobs EXCEPT ![i] = NoJob]
      BY <1>3 DEF ForwLoop
    <3>2. said \in {"garbage", "list", "text"} /\ (said = "list" => r.name = "users")
      BY <2>1
    <3> HIDE DEF said
    <3> QED
      BY <2>1, <3>1, <3>2
  <2>4. /\ i \in JobSlot /\ r \in Request /\ c \in Client
        /\ ~Queued(c) /\ Local(c) /\ Asks(c, r) /\ fifo[c].data = <<>>
        /\ \A k \in JobSlot : jobs[k].st # "EMPT" /\ jobs[k].ask.from = c => k = i
        /\ r.name \in {"info", "users"}
        /\ r.name = "users" => LoggedIn(sessions, c, Admin)
        /\ Pending(c) /\ server.to = c
    <3>1. At("FORW")
      BY <1>3
    <3> HIDE DEF i
    <3> QED
      BY <1>0, <2>1, <2>2, <3>1, JobFacts DEF i
  <2> HIDE DEF i
  <2>5. /\ server'.pc = "write" /\ server'.to = c
        /\ server'.answer = Say(r, say)
    BY <1>0, <2>3, <2>4 DEF Server
  <2>6. /\ \A d \in Client : Kept(sessions, sessions', d)
        /\ Waits' = Waits /\ QueueOnce' /\ ~Queued(c)'
    BY <1>0, <1>1, <2>4 DEF Kept, Waits, QueueOnce, Queued, Owned
  <2>7. /\ jobs'[i].st = "EMPT" /\ \A k \in JobSlot \ {i} : jobs'[k] = jobs[k]
    BY <2>3, <2>4, Types DEF NoJob
  <2>8. ~Pending(c)'
    BY <2>4, <2>7 DEF Pending
  <2>9. ASSUME NEW d \in Client \ {c}
        PROVE  DataLocal(d)' /\ Local(d)'
    <3>1. Local(d) /\ DataLocal(d) /\ server.to # d /\ server'.to # d
      BY <1>0, <2>4, <2>5 DEF Owned
    <3>2. \A k \in JobSlot : jobs'[k].st # "EMPT" /\ jobs'[k].ask.from = d =>
            /\ jobs[k].st # "EMPT" /\ jobs'[k].st = jobs[k].st /\ jobs'[k].ask = jobs[k].ask
      BY <2>7
    <3> QED
      BY <1>1, <2>6, <3>1, <3>2, Frame, DataFrame
  <2>10. DataLocal(c)'
    BY <1>1, <2>4 DEF DataLocal
  <2>11. /\ Waiting(c)' /\ clients'[c].pc = "reading" /\ fifo'[c].data = <<>>
         /\ fifo'[c].writer
    BY <1>0, <1>1, <2>4 DEF Local, ServerLocal, Waiting
  <2>12. /\ server'.answer.say = say /\ server'.answer.for = r.name
         /\ server'.answer.req = r.req
    BY <2>5 DEF Say
  <2>13. Fits(c, server.answer)'
    BY <1>1, <2>4, <2>11, <2>12 DEF Fits, Asks, Waiting
  <2>14. Truthful(c, server.answer)'
    <3>1. say = "list" => LoggedIn(sessions', c, Admin)
      BY <1>1, <2>3, <2>4
    <3>2. clients'[c].user = Nobody \/ LoggedIn(sessions', c, clients'[c].user)
      BY <1>1, <2>4 DEF Local, NameLocal
    <3> QED
      BY <2>3, <2>12, <3>1, <3>2 DEF Truthful
  <2>15. QueueLocal(c)' /\ JobLocal(c)'
    BY <2>6, <2>8 DEF QueueLocal, JobLocal, Queued, Pending
  <2>16. ServerLocal(c)'
    BY <2>3, <2>5, <2>11, <2>12, <2>13, <2>14 DEF ServerLocal, Delivers, Forwards
  <2>17. FifoLocal(c)'
    BY <2>5, <2>11 DEF FifoLocal
  <2>18. NameLocal(c)'
    BY <2>6, <2>8, <2>11 DEF NameLocal
  <2> QED
    BY <2>4, <2>5, <2>6, <2>9, <2>10, <2>15, <2>16, <2>17, <2>18
    DEF Owned, ServerTo, Local
<1> QED
  BY <1>2, <1>3

-----------------------------------------------------------------------------
(* The request *)

\* The session a request is taken in: the path's own, or a free one.
LEMMA EntersOwn ==
  ASSUME NEW ss \in Sessions, Distinct(ss), NEW c \in Client,
         NEW i, i = SessionFor(c, ss), i # 0, NEW tt, tt = Entered(c, ss)
  PROVE  /\ i \in SessionSlot /\ tt \in Sessions /\ Distinct(tt)
         /\ tt[i].in_use /\ tt[i].fifo = c
         /\ \A d : d # c => Kept(ss, tt, d)
         /\ \A u \in User : LoggedIn(ss, c, u) => tt[i].user = u
<1>1. /\ i \in SessionSlot /\ (ss[i].in_use => ss[i].fifo = c)
      /\ ~ss[i].in_use => \A k \in SessionSlot : ss[k].in_use => ss[k].fifo # c
  BY SessionForFacts
<1>2. tt \in Sessions /\ Distinct(tt)
  BY EnteredFacts
<1>3. CASE ss[i].in_use
  <2>1. tt = ss
    BY <1>3 DEF Entered
  <2>2. \A d : Kept(ss, tt, d)
    BY <2>1 DEF Kept
  <2>3. ASSUME NEW u \in User, LoggedIn(ss, c, u)
        PROVE  tt[i].user = u
    <3>1. PICK k \in SessionSlot : ss[k].in_use /\ ss[k].fifo = c /\ ss[k].user = u
      BY <2>3 DEF LoggedIn
    <3>2. i = k
      BY <1>1, <1>3, <3>1, OneSession
    <3> QED
      BY <2>1, <3>1, <3>2
  <2> QED
    BY <1>1, <1>2, <1>3, <2>1, <2>2, <2>3
<1>4. CASE ~ss[i].in_use
  <2>1. tt = [ss EXCEPT ![i] = [fifo |-> c, user |-> Nobody, in_use |-> TRUE]]
    BY <1>4 DEF Entered
  <2>2. /\ tt[i] = [fifo |-> c, user |-> Nobody, in_use |-> TRUE]
        /\ \A k \in SessionSlot \ {i} : tt[k] = ss[k]
    BY <1>1, <2>1 DEF Sessions
  <2>3. ASSUME NEW d, d # c
        PROVE  Kept(ss, tt, d)
    BY <1>1, <1>4, <2>2, <2>3, OthersKept
  <2>4. ASSUME NEW u \in User, LoggedIn(ss, c, u)
        PROVE  FALSE
    BY <1>1, <1>4, <2>4 DEF LoggedIn
  <2> QED
    BY <1>1, <1>2, <2>2, <2>3, <2>4
<1> QED
  BY <1>3, <1>4

\* The client whose request is taken waits about it, and about nothing else.
LEMMA TakenFacts ==
  ASSUME IInv, Owned, TakeRequest, NEW r, r = Head(requests), NEW c, c = r.from
  PROVE  /\ Running /\ server.to \notin Client /\ server \in Server
         /\ r \in Request /\ c \in Client /\ Local(c) /\ DataLocal(c)
         /\ QueueOnce' /\ ~Queued(c)' /\ \A m \in Waits' : m \in Waits
         /\ Asks(c, r) /\ Waiting(c) /\ ~fifo[c].writer /\ fifo[c].data = <<>> /\ ~Pending(c)
         /\ clients[c].user # Nobody => LoggedIn(sessions, c, clients[c].user)
<1>1. Running /\ server.pc = "request" /\ requests # <<>> /\ requests' = Tail(requests)
  BY Types DEF TakeRequest, Running, AskedThere
<1>2. QueueOnce
  BY <1>1 DEF Owned
<1>3. QueueOnce' /\ Waits' \subseteq Waits /\ r \in Waits /\ \A m \in Waits' : m.from # c
  BY <1>1, <1>2, QueueLess
<1>4. r \in Request /\ c \in Client
  BY <1>3, Types DEF Request
<1>5. Local(c) /\ DataLocal(c)
  BY <1>1, <1>4 DEF Owned
<1>6. Asks(c, r) /\ ~fifo[c].writer /\ fifo[c].data = <<>> /\ ~Pending(c)
  BY <1>3, <1>5 DEF Local, QueueLocal
<1>7. Queued(c) /\ ~Queued(c)'
  BY <1>3 DEF Queued
<1>8. clients[c].user # Nobody => LoggedIn(sessions, c, clients[c].user)
  BY <1>5, <1>7 DEF Local, NameLocal
<1>9. server.to \notin Client
  BY <1>1, NoOne
<1> QED
  BY <1>1, <1>3, <1>4, <1>5, <1>6, <1>7, <1>8, <1>9, Types DEF Asks

\* A request that is answered at once.
LEMMA AnsweredOwned ==
  ASSUME IInv, Owned, TakeRequest, NEW r, r = Head(requests), NEW c, c = r.from,
         NEW say \in {"text", "ERR", "bye"}, NEW p \in {"log", "exited"},
         Answering(r, say, p), UNCHANGED <<clients, fifo>>,
         \A d : d # c => Kept(sessions, sessions', d),
         \A k \in JobSlot : jobs'[k].st # "EMPT" => jobs'[k] = jobs[k],
         say = "bye" => r.name = "quit",
         \/ r.name = "logout" \/ say = "bye"
         \/ clients[c].user = Nobody \/ LoggedIn(sessions', c, clients[c].user)
  PROVE  Owned'
<1>1. /\ Running /\ server.to \notin Client /\ server \in Server
      /\ r \in Request /\ c \in Client /\ Local(c) /\ DataLocal(c)
      /\ QueueOnce' /\ ~Queued(c)' /\ \A m \in Waits' : m \in Waits
      /\ Asks(c, r) /\ Waiting(c) /\ ~fifo[c].writer /\ fifo[c].data = <<>> /\ ~Pending(c)
  BY TakenFacts
<1>2. /\ server'.pc = "open" /\ server'.to = c /\ server'.then # "forw"
      /\ server'.answer = Say(r, say)
  BY <1>1 DEF Answering, Server
<1>3. server'.answer.say = say /\ server'.answer.for = r.name /\ server'.answer.req = r.req
  BY <1>2 DEF Say
<1>4. ASSUME NEW d \in Client \ {c}
      PROVE  DataLocal(d)' /\ Local(d)'
  <2>1. Local(d) /\ DataLocal(d) /\ server.to # d /\ server'.to # d
    BY <1>1, <1>2 DEF Owned
  <2>2. Kept(sessions, sessions', d)
    OBVIOUS
  <2> QED
    BY <1>1, <2>1, <2>2, Frame, DataFrame
<1>5. DataLocal(c)'
  BY <1>1 DEF DataLocal
<1>6. Local(c)'
  <2>1. ~Pending(c)'
    BY <1>1 DEF Pending
  <2>2. Fits(c, server.answer)'
    BY <1>1, <1>3 DEF Fits, Asks, Waiting
  <2>3. Truthful(c, server.answer)'
    BY <1>3 DEF Truthful
  <2>4. FifoLocal(c)
    BY <1>1 DEF Local
  <2> QED
    BY <1>1, <1>2, <1>3, <2>1, <2>2, <2>3, <2>4, AnswerOpens
<1> QED
  BY <1>1, <1>2, <1>4, <1>5, <1>6 DEF Owned, ServerTo

\* A request that a worker is forked for, or for which there is no job.
LEMMA ForkedOwned ==
  ASSUME IInv, Owned, TakeRequest, NEW r, r = Head(requests), NEW c, c = r.from,
         NEW st \in {"LOG", "HDR"}, Forked(r, st), Then("log"), UNCHANGED <<clients, fifo>>,
         \A d : d # c => Kept(sessions, sessions', d), HasSession(sessions', c),
         clients[c].user # Nobody => LoggedIn(sessions', c, clients[c].user),
         st = "LOG" => r.name = "login" /\ clients[c].user = Nobody,
         st = "HDR" => r.name \in {"info", "users"},
         r.name = "users" => LoggedIn(sessions', c, Admin)
  PROVE  Owned'
<1>1. /\ Running /\ server.to \notin Client /\ server \in Server
      /\ r \in Request /\ c \in Client /\ Local(c) /\ DataLocal(c)
      /\ QueueOnce' /\ ~Queued(c)' /\ \A m \in Waits' : m \in Waits
      /\ Asks(c, r) /\ Waiting(c) /\ ~fifo[c].writer /\ fifo[c].data = <<>> /\ ~Pending(c)
  BY TakenFacts
<1>2. server'.pc = "log" /\ server'.to = Nobody /\ Nobody \notin Client
  BY <1>1, ThenFacts, Types
<1>3. PICK i : \A k \in JobSlot : \/ jobs'[k] = jobs[k]
                                  \/ k = i /\ jobs'[k].st = st /\ jobs'[k].ask = r
  <2> DEFINE free == {k \in JobSlot : jobs[k].st = "EMPT"}
             i == First(free)
             j == [NoJob EXCEPT !.st = st, !.ask = r]
  <2>1. jobs' = IF free = {} THEN jobs ELSE [jobs EXCEPT ![i] = j]
    BY DEF Forked
  <2>2. j.st = st /\ j.ask = r
    BY DEF NoJob
  <2> HIDE DEF free, i, j
  <2>3. \A k \in JobSlot : jobs'[k] = jobs[k] \/ (k = i /\ jobs'[k] = j)
    BY <2>1, Types
  <2> QED
    BY <2>2, <2>3
<1>4. ASSUME NEW d \in Client \ {c}
      PROVE  DataLocal(d)' /\ Local(d)'
  <2>1. Local(d) /\ DataLocal(d) /\ server.to # d /\ server'.to # d
    BY <1>1, <1>2 DEF Owned
  <2>2. Kept(sessions, sessions', d)
    OBVIOUS
  <2>3. \A k \in JobSlot : jobs'[k].st # "EMPT" /\ jobs'[k].ask.from = d =>
          /\ jobs[k].st # "EMPT" /\ jobs'[k].st = jobs[k].st /\ jobs'[k].ask = jobs[k].ask
    BY <1>3
  <2> QED
    BY <1>1, <2>1, <2>2, <2>3, Frame, DataFrame
<1>5. DataLocal(c)'
  BY <1>1 DEF DataLocal
<1>6. QueueLocal(c)' /\ ServerLocal(c)'
  BY <1>1, <1>2 DEF QueueLocal, Queued, ServerLocal
<1>7. JobLocal(c)'
  <2>1. ASSUME NEW k \in JobSlot, jobs'[k].st # "EMPT", jobs'[k].ask.from = c
        PROVE  k = i /\ jobs'[k].st = st /\ jobs'[k].ask = r /\ Asks(c, jobs[k].ask)'
    <3>1. k = i /\ jobs'[k].st = st /\ jobs'[k].ask = r
      BY <1>1, <1>3, <2>1 DEF Pending
    <3>2. Asks(c, r)'
      BY <1>1 DEF Asks, Waiting
    <3> QED
      BY <3>1, <3>2 DEF Asks
  <2>2. fifo'[c].data = <<>> /\ ~fifo'[c].writer /\ server'.to # c
    BY <1>1, <1>2
  <2> QED
    BY <2>1, <2>2 DEF JobLocal
<1>8. FifoLocal(c)'
  BY <1>1, <1>2 DEF Local, FifoLocal
<1>9. NameLocal(c)'
  BY DEF NameLocal
<1> QED
  BY <1>1, <1>2, <1>4, <1>5, <1>6, <1>7, <1>8, <1>9 DEF Owned, ServerTo, Local

\* No session is left.
LEMMA BusyOwned ==
  ASSUME IInv, Owned, TakeRequest, NEW r, r = Head(requests), NEW c, c = r.from, Busy(r)
  PROVE  Owned'
<1>1. /\ Running /\ server.to \notin Client /\ server \in Server
      /\ r \in Request /\ c \in Client /\ Local(c) /\ DataLocal(c)
      /\ QueueOnce' /\ ~Queued(c)' /\ \A m \in Waits' : m \in Waits
      /\ Asks(c, r) /\ Waiting(c) /\ ~fifo[c].writer /\ fifo[c].data = <<>> /\ ~Pending(c)
      /\ clients[c].user # Nobody => LoggedIn(sessions, c, clients[c].user)
  BY TakenFacts
<1>2. UNCHANGED <<sessions, jobs>>
  BY DEF Busy
<1>3. CASE ~Reader(c)
  BY <1>2, <1>3, ExitOwned DEF Busy
<1>4. CASE Reader(c)
  <2>1. /\ clients' = [clients EXCEPT ![c].pc = "reading"]
        /\ fifo' = [fifo EXCEPT ![c].leaked = TRUE]
        /\ server' = [server EXCEPT !.pc = "write", !.asked = FALSE, !.to = c,
                        !.then = "log", !.answer = Say(r, "busy")]
    BY <1>4 DEF Busy
  <2>2. /\ clients'[c].pc = "reading" /\ clients'[c].name = clients[c].name
        /\ clients'[c].arg = clients[c].arg /\ clients'[c].req = clients[c].req
        /\ clients'[c].user = clients[c].user
        /\ fifo'[c].leaked /\ fifo'[c].writer = fifo[c].writer /\ fifo'[c].data = fifo[c].data
        /\ \A d \in Client \ {c} : clients'[d] = clients[d] /\ fifo'[d] = fifo[d]
    BY <1>1, <2>1, Types DEF ClientState, Fifo
  <2>3. /\ server'.pc = "write" /\ server'.to = c /\ server'.answer = Say(r, "busy")
    BY <1>1, <2>1 DEF Server
  <2>4. /\ server'.answer.say = "busy" /\ server'.answer.for = r.name
        /\ server'.answer.req = r.req
    BY <2>3 DEF Say
  <2>5. ASSUME NEW d \in Client \ {c}
        PROVE  DataLocal(d)' /\ Local(d)'
    <3>1. Local(d) /\ DataLocal(d) /\ server.to # d /\ server'.to # d
      BY <1>1, <2>3 DEF Owned
    <3>2. Kept(sessions, sessions', d)
      BY <1>2 DEF Kept
    <3> QED
      BY <1>1, <1>2, <2>2, <3>1, <3>2, Frame, DataFrame
  <2>6. Waiting(c)' /\ ~Pending(c)'
    BY <1>1, <1>2, <2>2 DEF Waiting, Pending
  <2>7. DataLocal(c)' /\ QueueLocal(c)' /\ JobLocal(c)'
    BY <1>1, <2>2, <2>6 DEF DataLocal, QueueLocal, JobLocal, Queued, Pending
  <2>8. Fits(c, server.answer)'
    BY <1>1, <2>2, <2>4, <2>6 DEF Fits, Asks
  <2>9. Truthful(c, server.answer)'
    BY <1>1, <1>2, <2>2, <2>4 DEF Truthful
  <2>10. ServerLocal(c)'
    BY <1>1, <2>2, <2>3, <2>4, <2>8, <2>9 DEF ServerLocal, Delivers, Forwards
  <2>11. FifoLocal(c)' /\ NameLocal(c)'
    BY <1>1, <2>2, <2>6 DEF FifoLocal, NameLocal
  <2> QED
    BY <1>1, <2>3, <2>5, <2>7, <2>10, <2>11 DEF Owned, ServerTo, Local
<1> QED
  BY <1>3, <1>4

LEMMA RequestOwned ==
  ASSUME IInv, Owned, TakeRequest
  PROVE  Owned'
<1>0. PICK r : r = Head(requests)
  OBVIOUS
<1>1. PICK c : c = r.from
  OBVIOUS
<1>2. PICK i : i = SessionFor(c, sessions)
  OBVIOUS
<1>3. PICK ss : ss = Entered(c, sessions)
  OBVIOUS
<1>4. \/ i = 0 /\ Busy(r)
      \/ /\ i # 0 /\ UNCHANGED <<clients, fifo>>
         /\ \/ Login(r, i, ss) \/ Info(r, i, ss) \/ Users(r, i, ss)
            \/ Logout(r, i, ss) \/ Quit(r, i, ss) \/ QuitServer(r, i, ss)
            \/ Other(r, i, ss)
  BY <1>0, <1>1, <1>2, <1>3 DEF TakeRequest
<1>5. CASE i = 0 /\ Busy(r)
  BY <1>0, <1>5, BusyOwned
<1>6. CASE /\ i # 0 /\ UNCHANGED <<clients, fifo>>
           /\ \/ Login(r, i, ss) \/ Info(r, i, ss) \/ Users(r, i, ss)
              \/ Logout(r, i, ss) \/ Quit(r, i, ss) \/ QuitServer(r, i, ss)
              \/ Other(r, i, ss)
  <2>1. /\ Running /\ server.to \notin Client /\ server \in Server
        /\ r \in Request /\ c \in Client /\ sessions \in Sessions /\ Distinct(sessions)
        /\ clients[c].user # Nobody => LoggedIn(sessions, c, clients[c].user)
        /\ clients[c].user \in User \cup {Nobody} /\ Admin \in User /\ Nobody \notin User
    <3>1. /\ Running /\ server.to \notin Client /\ server \in Server
          /\ r \in Request /\ c \in Client
          /\ clients[c].user # Nobody => LoggedIn(sessions, c, clients[c].user)
      BY <1>0, <1>1, TakenFacts
    <3> QED
      BY <3>1, Types
  <2>2. /\ i \in SessionSlot /\ ss \in Sessions /\ Distinct(ss)
        /\ ss[i].in_use /\ ss[i].fifo = c
        /\ \A d : d # c => Kept(sessions, ss, d)
        /\ \A u \in User : LoggedIn(sessions, c, u) => ss[i].user = u
    BY <1>2, <1>3, <1>6, <2>1, EntersOwn
  <2>3. clients[c].user # Nobody => ss[i].user = clients[c].user
    BY <2>1, <2>2
  <2>4. HasSession(ss, c) /\ LoggedIn(ss, c, ss[i].user)
    BY <2>2 DEF HasSession, LoggedIn
  <2>5. ASSUME NEW say \in {"text", "ERR"}, NEW p \in {"log", "exited"}, Answering(r, say, p),
               sessions' = ss, \A k \in JobSlot : jobs'[k].st # "EMPT" => jobs'[k] = jobs[k]
        PROVE  Owned'
    <3>1. clients[c].user = Nobody \/ LoggedIn(sessions', c, clients[c].user)
      BY <2>3, <2>4, <2>5
    <3>2. say \in {"text", "ERR", "bye"} /\ say # "bye"
      OBVIOUS
    <3>3. \A d : d # c => Kept(sessions, sessions', d)
      BY <2>2, <2>5
    <3> QED
      BY <1>0, <1>1, <1>6, <2>5, <3>1, <3>2, <3>3, AnsweredOwned
  <2>6. ASSUME NEW st \in {"LOG", "HDR"}, Forked(r, st), Then("log"), sessions' = ss,
               st = "LOG" => r.name = "login" /\ ss[i].user = Nobody,
               st = "HDR" => r.name \in {"info", "users"},
               r.name = "users" => ss[i].user = Admin
        PROVE  Owned'
    <3>1. clients[c].user # Nobody => LoggedIn(sessions', c, clients[c].user)
      BY <2>3, <2>4, <2>6
    <3>2. HasSession(sessions', c) /\ (r.name = "users" => LoggedIn(sessions', c, Admin))
      BY <2>4, <2>6
    <3>3. \A d : d # c => Kept(sessions, sessions', d)
      BY <2>2, <2>6
    <3>4. st = "LOG" => r.name = "login" /\ clients[c].user = Nobody
      BY <2>3, <2>6
    <3>5. st = "HDR" => r.name \in {"info", "users"}
      BY <2>6
    <3> QED
      BY <1>0, <1>1, <1>6, <2>6, <3>1, <3>2, <3>3, <3>4, <3>5, ForkedOwned
  <2>7. UNCHANGED jobs => \A k \in JobSlot : jobs'[k].st # "EMPT" => jobs'[k] = jobs[k]
    OBVIOUS
  <2>8. CASE Login(r, i, ss)
    <3>1. CASE ss[i].user # Nobody
      BY <2>5, <2>7, <2>8, <3>1 DEF Login
    <3>2. CASE ss[i].user = Nobody
      <4>1. /\ r.name = "login" /\ Forked(r, "LOG") /\ Then("log") /\ sessions' = ss
            /\ "LOG" \in {"LOG", "HDR"} /\ "LOG" # "HDR" /\ r.name # "users"
        BY <2>8, <3>2 DEF Login
      <4> QED
        BY <2>6, <3>2, <4>1
    <3> QED
      BY <3>1, <3>2
  <2>9. CASE Info(r, i, ss)
    <3>1. CASE ss[i].user = Nobody
      BY <2>5, <2>7, <2>9, <3>1 DEF Info
    <3>2. CASE ss[i].user # Nobody
      <4>1. /\ r.name = "info" /\ Forked(r, "HDR") /\ Then("log") /\ sessions' = ss
            /\ "HDR" \in {"LOG", "HDR"} /\ "LOG" # "HDR" /\ r.name # "users"
        BY <2>9, <3>2 DEF Info
      <4> QED
        BY <2>6, <4>1
    <3> QED
      BY <3>1, <3>2
  <2>10. CASE Users(r, i, ss)
    <3>1. CASE ss[i].user # Admin
      BY <2>5, <2>7, <2>10, <3>1 DEF Users
    <3>2. CASE ss[i].user = Admin
      <4>1. /\ r.name = "users" /\ Forked(r, "HDR") /\ Then("log") /\ sessions' = ss
            /\ "HDR" \in {"LOG", "HDR"} /\ "LOG" # "HDR"
        BY <2>10, <3>2 DEF Users
      <4> QED
        BY <2>6, <3>2, <4>1
    <3> QED
      BY <3>1, <3>2
  <2>11. CASE Logout(r, i, ss)
    <3>1. /\ r.name = "logout" /\ sessions' = [ss EXCEPT ![i].user = Nobody]
          /\ Answering(r, "text", "log") /\ UNCHANGED jobs
      BY <2>11 DEF Logout
    <3>2. \A k \in SessionSlot \ {i} : sessions'[k] = ss[k]
      BY <2>2, <3>1 DEF Sessions
    <3>3. ASSUME NEW d, d # c
          PROVE  Kept(sessions, sessions', d)
      <4>1. Kept(ss, sessions', d)
        BY <2>2, <3>2, <3>3, OthersKept
      <4> QED
        BY <2>2, <3>3, <4>1 DEF Kept
    <3>4. "text" \in {"text", "ERR", "bye"} /\ "log" \in {"log", "exited"} /\ "text" # "bye"
      OBVIOUS
    <3> QED
      BY <1>0, <1>1, <1>6, <2>7, <3>1, <3>3, <3>4, AnsweredOwned
  <2>12. CASE Quit(r, i, ss)
    <3>1. /\ r.name = "quit" /\ sessions' = [ss EXCEPT ![i].in_use = FALSE]
          /\ Answering(r, "bye", "log") /\ UNCHANGED jobs
      BY <2>12 DEF Quit
    <3>2. \A k \in SessionSlot \ {i} : sessions'[k] = ss[k]
      BY <2>2, <3>1 DEF Sessions
    <3>3. ASSUME NEW d, d # c
          PROVE  Kept(sessions, sessions', d)
      <4>1. Kept(ss, sessions', d)
        BY <2>2, <3>2, <3>3, OthersKept
      <4> QED
        BY <2>2, <3>3, <4>1 DEF Kept
    <3>4. "bye" \in {"text", "ERR", "bye"} /\ "log" \in {"log", "exited"}
      OBVIOUS
    <3> QED
      BY <1>0, <1>1, <1>6, <2>7, <3>1, <3>3, <3>4, AnsweredOwned
  <2>13. CASE QuitServer(r, i, ss)
    <3>1. CASE ss[i].user # Admin
      BY <2>5, <2>7, <2>13, <3>1 DEF QuitServer
    <3>2. CASE ss[i].user = Admin
      <4>1. /\ jobs' = [j \in JobSlot |-> NoJob] /\ Answering(r, "text", "exited")
            /\ sessions' = ss
        BY <2>13, <3>2 DEF QuitServer
      <4>2. \A k \in JobSlot : jobs'[k].st # "EMPT" => jobs'[k] = jobs[k]
        BY <4>1 DEF NoJob
      <4> QED
        BY <2>5, <4>1, <4>2
    <3> QED
      BY <3>1, <3>2
  <2>14. CASE Other(r, i, ss)
    BY <2>5, <2>7, <2>14 DEF Other
  <2> QED
    BY <1>6, <2>8, <2>9, <2>10, <2>11, <2>12, <2>13, <2>14
<1> QED
  BY <1>4, <1>5, <1>6

-----------------------------------------------------------------------------

LEMMA OwnedFirst == Init => Owned
<1> SUFFICES ASSUME Init PROVE Owned
  OBVIOUS
<1>1. /\ requests = <<>> /\ server = Polling
      /\ \A k \in JobSlot : jobs[k].st = "EMPT"
      /\ \A c \in Client : /\ clients[c].pc = "off" /\ clients[c].user = Nobody
                           /\ fifo[c].data = <<>> /\ ~fifo[c].writer
  BY DEF Init, NoJob, ClientOff
<1>2. server.pc = "poll" /\ server.to = Nobody /\ Nobody \notin Client
  BY <1>1, CommandAssumption DEF Polling
<1>3. Waits = {}
  BY <1>1 DEF Waits
<1>4. QueueOnce /\ ServerTo
  BY <1>1, <1>2 DEF QueueOnce, ServerTo
<1>5. ASSUME NEW c \in Client
      PROVE  DataLocal(c) /\ Local(c)
  <2>1. DataLocal(c) /\ QueueLocal(c) /\ JobLocal(c) /\ ServerLocal(c)
    BY <1>1, <1>2, <1>3 DEF DataLocal, QueueLocal, JobLocal, ServerLocal
  <2>2. FifoLocal(c) /\ NameLocal(c)
    BY <1>1 DEF FifoLocal, NameLocal
  <2> QED
    BY <2>1, <2>2 DEF Local
<1> QED
  BY <1>4, <1>5 DEF Owned

LEMMA OwnedStays ==
  ASSUME Patient, "kill" \notin Faults, IInv, Owned, [Next]_vars
  PROVE  Owned'
<1>1. CASE ServerStep
  BY <1>1, PollOwned, RequestOwned, LogOwned, HdrOwned, ForwOwned, OpenOwned, WriteOwned,
     CloseOwned DEF ServerStep
<1>2. CASE Interrupt
  BY <1>2, ExitOwned DEF Interrupt
<1>3. CASE \E c \in Client : ClientStep(c) \/ Start(c) \/ Send(c) \/ Leave(c)
  BY <1>3, ClientOwned
<1>4. CASE \E i \in JobSlot : WorkerWrite(i) \/ WorkerCrash(i)
  BY <1>4, WorkerOwned
<1>5. CASE UNCHANGED vars
  BY <1>5 DEF vars, Owned, Running, QueueOnce, ServerTo, DataLocal, Local, QueueLocal, JobLocal,
     ServerLocal, FifoLocal, NameLocal, Waits, Queued, Pending, Asks, Fits, Truthful, Delivers,
     Forwards, At, Waiting
<1> QED
  BY <1>1, <1>2, <1>3, <1>4, <1>5 DEF Next

-----------------------------------------------------------------------------
(* What holds of every client, session and job *)

THEOREM OwnedAlways ==
  ASSUME Patient, "kill" \notin Faults
  PROVE  Spec => []All
<1>1. Init => All
  BY Initially, OwnedFirst DEF All
<1>2. All /\ [Next]_vars => All'
  BY Inductive, OwnedStays DEF All
<1> QED
  BY <1>1, <1>2, PTL DEF Spec

\* While the server runs, a job belongs to the one command its client waits
\* about, made in a session that is still in use: nothing but the answer can
\* take the session from it (server.c:342, 480).
THEOREM JobsAreOwned ==
  ASSUME Patient, "kill" \notin Faults
  PROVE  Spec => []JobsOwned
<1>1. ASSUME All, NEW i \in JobSlot, Running, jobs[i].st # "EMPT"
      PROVE  LET c == jobs[i].ask.from IN
             /\ Waiting(c) /\ clients[c].name = jobs[i].ask.name
             /\ \E k \in SessionSlot : sessions[k].in_use /\ sessions[k].fifo = c
             /\ \A k \in JobSlot \ {i} : jobs[k].st # "EMPT" => jobs[k].ask.from # c
  <2>1. jobs[i].ask.from \in Client
    BY <1>1, Types DEF All, JobAsks, Request
  <2>2. JobLocal(jobs[i].ask.from)
    BY <1>1, <2>1 DEF All, Owned, Local
  <2> QED
    BY <1>1, <2>2 DEF JobLocal, Asks, HasSession
<1>2. All => JobsOwned
  BY <1>1 DEF JobsOwned, Running
<1> QED
  BY <1>2, OwnedAlways, PTL

\* While the server runs, the name in a client's prompt is the user of the
\* session it has in use (client.c:107-137, server.c:622).
THEOREM PromptIsTruthful ==
  ASSUME Patient, "kill" \notin Faults
  PROVE  Spec => []PromptTruthful
<1>1. ASSUME All, NEW c \in Client, Running, clients[c].pc = "prompt", clients[c].user # Nobody
      PROVE  LoggedIn(sessions, c, clients[c].user)
  BY <1>1 DEF All, Owned, Local, NameLocal
<1>2. All => PromptTruthful
  BY <1>1 DEF PromptTruthful, Running, LoggedIn
<1> QED
  BY <1>2, OwnedAlways, PTL

\* The answer that a client finds in its FIFO is to the command it waits about.
THEOREM AnswersMatch ==
  ASSUME Patient, "kill" \notin Faults
  PROVE  Spec => []AnswerMatches
<1>1. All => AnswerMatches
  BY DEF All, Owned, DataLocal, Fits, AnswerMatches
<1> QED
  BY <1>1, OwnedAlways, PTL

\* The list of users reaches a session of the administrator only, although the
\* job that delivers it outlives the check (server.c:512, 679).
THEOREM ListOnlyToAdmin ==
  ASSUME Patient, "kill" \notin Faults
  PROVE  Spec => []AdminOnly
<1>1. ASSUME All, NEW c \in Client, NEW n \in 1..Len(fifo[c].data), fifo[c].data[n].say = "list"
      PROVE  LoggedIn(sessions, c, Admin)
  <2>1. fifo[c].data \in Seq(Answer) /\ DataLocal(c)
    BY <1>1, Types DEF All, Owned
  <2>2. fifo[c].data # <<>>
    BY <1>1, <2>1
  <2>3. Len(fifo[c].data) = 1 /\ Head(fifo[c].data) = fifo[c].data[1]
    BY <2>1, <2>2, HeadTailProperties DEF DataLocal
  <2>4. n = 1
    BY <2>3
  <2> QED
    BY <1>1, <2>1, <2>2, <2>3, <2>4 DEF DataLocal
<1>2. All => AdminOnly
  BY <1>1 DEF AdminOnly, LoggedIn
<1> QED
  BY <1>2, OwnedAlways, PTL

\* Every job has a session of its own, and the client asking has none of those.
LEMMA JobFree ==
  ASSUME All, NSessions <= NJobs, server.pc = "request", server.asked,
         SessionFor(Head(requests).from, sessions) # 0
  PROVE  \E i \in JobSlot : jobs[i].st = "EMPT"
<1> SUFFICES ASSUME \A i \in JobSlot : jobs[i].st # "EMPT"
             PROVE  FALSE
  OBVIOUS
<1>1. PICK c : c = Head(requests).from
  OBVIOUS
<1>2. PICK s : s = SessionFor(c, sessions)
  OBVIOUS
<1> DEFINE f == [i \in JobSlot |-> FindSes(jobs[i].ask.from)]
           T == SessionSlot \ {s}
<1>3. IInv /\ Owned /\ Running
  BY DEF All, Running
<1>4. c \in Client /\ ~Pending(c)
  <2>1. requests # <<>> /\ requests \in Seq(Request)
    BY <1>3, Types DEF AskedThere
  <2>2. Head(requests) \in Request /\ Head(requests) = requests[1] /\ Len(requests) \in Nat \ {0}
    BY <2>1, HeadTailProperties, EmptySeq
  <2>3. c \in Client /\ Queued(c)
    BY <1>1, <2>2 DEF Request, Queued, Waits
  <2> QED
    BY <1>3, <2>3 DEF Owned, Local, QueueLocal, Queued
<1>5. s \in SessionSlot /\ (sessions[s].in_use => sessions[s].fifo = c)
  BY <1>1, <1>2, <1>3, <1>4, Types, SessionForFacts
<1>6. ASSUME NEW i \in JobSlot
      PROVE  /\ jobs[i].ask.from \in Client /\ HasSession(sessions, jobs[i].ask.from)
             /\ f[i] \in T /\ sessions[f[i]].fifo = jobs[i].ask.from
             /\ \A k \in JobSlot : jobs[k].ask.from = jobs[i].ask.from => k = i
  <2>1. jobs[i].ask.from \in Client
    BY <1>3, <1>6, Types DEF JobAsks, Request
  <2>2. JobLocal(jobs[i].ask.from)
    BY <1>3, <2>1 DEF Owned, Local
  <2>3. /\ HasSession(sessions, jobs[i].ask.from)
        /\ \A k \in JobSlot : jobs[k].ask.from = jobs[i].ask.from => k = i
    BY <2>2 DEF JobLocal
  <2>4. /\ f[i] \in SessionSlot
        /\ sessions[f[i]].in_use /\ sessions[f[i]].fifo = jobs[i].ask.from
    BY <1>3, <2>1, <2>3, FindFacts
  <2>5. jobs[i].ask.from # c
    BY <1>4 DEF Pending
  <2> QED
    BY <1>5, <2>1, <2>3, <2>4, <2>5
<1>7. f \in [JobSlot -> T]
  BY <1>6
<1>8. \A i, k \in JobSlot : f[i] = f[k] => i = k
  BY <1>6
<1> HIDE DEF f
<1>9. /\ IsFiniteSet(JobSlot) /\ Cardinality(JobSlot) = NJobs
      /\ IsFiniteSet(SessionSlot) /\ Cardinality(SessionSlot) = NSessions
      /\ NJobs \in Nat \ {0} /\ NSessions \in Nat \ {0}
  <2>1. /\ NJobs \in Nat \ {0} /\ NSessions \in Nat \ {0}
        /\ 1 \in Int /\ NJobs \in Int /\ NSessions \in Int
    BY CommandAssumption
  <2>2. IsFiniteSet(1..NJobs) /\ Cardinality(1..NJobs) = NJobs
    <3>1. /\ IsFiniteSet(1..NJobs)
          /\ Cardinality(1..NJobs) = IF 1 > NJobs THEN 0 ELSE NJobs - 1 + 1
      BY <2>1, FS_Interval
    <3> QED
      BY <2>1, <3>1
  <2>3. IsFiniteSet(1..NSessions) /\ Cardinality(1..NSessions) = NSessions
    <3>1. /\ IsFiniteSet(1..NSessions)
          /\ Cardinality(1..NSessions) = IF 1 > NSessions THEN 0 ELSE NSessions - 1 + 1
      BY <2>1, FS_Interval
    <3> QED
      BY <2>1, <3>1
  <2> QED
    BY <2>1, <2>2, <2>3 DEF JobSlot, SessionSlot
<1>10. IsFiniteSet(T) /\ Cardinality(T) = NSessions - 1
  BY <1>5, <1>9, FS_RemoveElement
<1>11. Cardinality(T) < Cardinality(JobSlot)
  BY <1>9, <1>10
<1> HIDE DEF T
<1> QED
  BY <1>7, <1>8, <1>9, <1>10, <1>11, FS_PigeonHole

\* With at least as many jobs as sessions (both are 256), alloc never fails for
\* a client that has a session; server.c:342 would leave it waiting for ever.
THEOREM JobIsLeft ==
  ASSUME Patient, "kill" \notin Faults, NSessions <= NJobs
  PROVE  Spec => []JobLeft
<1>1. All => JobLeft
  BY JobFree DEF JobLeft
<1> QED
  BY <1>1, OwnedAlways, PTL
=============================================================================
