------------------------------ MODULE PollServer ------------------------------
(***************************************************************************)
(* The services of one process that polls all connections: "keys" is        *)
(* lab_5/keys_command/server.c, "commands" lab_5/protocol_lab_3/server.c.   *)
(* The array of pollfd begins with the listening socket; an entry that is   *)
(* removed is overwritten by the last one.  In "commands" a session belongs *)
(* to the process id a client puts before its commands, and is never freed. *)
(***************************************************************************)
EXTENDS KeyService

CONSTANTS Sizes,      \* how many entries the array may have: 10 in the code
          Listener,   \* the listening socket
          Pid,        \* process ids of the clients, whose hosts may differ
          PidsOf,     \* which client may have which
          NSessions   \* 10 in the code

ASSUME PollAssumption ==
  /\ Sizes \subseteq Nat \ {0} /\ Sizes # {} /\ NSessions \in Nat
  /\ Listener \notin Conn /\ Listener # None
  /\ None \notin Pid
  /\ PidsOf \subseteq [Conn -> Pid] /\ PidsOf # {}

VARIABLES fds,       \* the array: descriptors, and whether revents has POLLIN
          nfd,       \* how many of its entries are in use
          at,        \* the entry the loop is at; 0: inside poll()
          sessions,  \* User_sessions sessions[10]
          pid        \* [Conn -> Pid]: what getpid() is in the clients

pvars == <<service, fds, nfd, at, sessions, pid>>

Entry == 1..Len(fds)
SessionSlot == 1..NSessions

PollFd == [fd : Conn \cup {Listener, None}, rev : BOOLEAN]
Session == [pid : Pid \cup {None}, user : BOOLEAN]

Polls == program \in PollPrograms

\* The array is not initialised: revents may be anything, here alike in all
\* entries (bound).
PollStart ==
  /\ \E n \in IF Polls THEN Sizes ELSE {CHOOSE n \in Sizes : TRUE} : \E rev \in BOOLEAN :
       /\ rev => Polls
       /\ fds = [i \in 1..n |->
            IF i = 1 THEN [fd |-> Listener, rev |-> FALSE] ELSE [fd |-> None, rev |-> rev]]
  /\ nfd = 1
  /\ at = 0
  /\ sessions = [i \in SessionSlot |-> [pid |-> None, user |-> FALSE]]
  /\ IF program = "commands" THEN pid \in PidsOf
     ELSE pid = CHOOSE f \in PidsOf : TRUE

-----------------------------------------------------------------------------
(* The array *)

Ready(fd) == IF fd = Listener THEN backlog # <<>> ELSE c2s[fd] # <<>> \/ Gone(fd)

Poll ==
  /\ up /\ at = 0
  /\ \E i \in 1..nfd : Ready(fds[i].fd)
  /\ fds' = [i \in Entry |->
       IF i <= nfd THEN [fds[i] EXCEPT !.rev = Ready(fds[i].fd)] ELSE fds[i]]
  /\ at' = 1
  /\ UNCHANGED <<service, nfd, sessions, pid>>

\* On to the next entry of n.
Onward(n) == at' = IF at < n THEN at + 1 ELSE 0

Stay == /\ Onward(nfd)
        /\ UNCHANGED <<fds, nfd>>

\* Slip: the descriptor is moved, revents are not.
LeaveOldRev ==
  /\ fds' = [fds EXCEPT ![at].fd = fds[nfd].fd, ![nfd].fd = None]
  /\ nfd' = nfd - 1
  /\ at' = IF at <= nfd - 1 THEN at ELSE 0

\* Slip: no i--.
LeaveAhead ==
  /\ fds' = [fds EXCEPT ![at] = fds[nfd], ![nfd].fd = None]
  /\ nfd' = nfd - 1
  /\ at' = at + 1

\* fds[i] = fds[nfd - 1]; nfd--; i--;  Of the last entry only revents count from
\* now on.
LeaveArray ==
  /\ fds' = [fds EXCEPT ![at] = fds[nfd], ![nfd].fd = None]
  /\ nfd' = nfd - 1
  /\ at' = IF at <= nfd - 1 THEN at ELSE 0

\* Slip: close() after the entry has been overwritten.
CloseAfter(c, used) ==
  LET d == fds[nfd].fd IN
  /\ LeaveArray
  /\ link' = [link EXCEPT ![d] = "closed"]
  /\ c2s' = [c2s EXCEPT ![c] = <<>>, ![d] = <<>>]
  /\ left' = left - used + 1

\* close() and out of the array, after a call that used up some descriptors.
Close(c, used) ==
  /\ link' = [link EXCEPT ![c] = "closed"]
  /\ c2s' = [c2s EXCEPT ![c] = <<>>]
  /\ left' = left - used + 1
  /\ LeaveArray

-----------------------------------------------------------------------------
(* One entry *)

NotReady ==
  /\ up /\ at # 0 /\ ~fds[at].rev
  /\ Stay
  /\ UNCHANGED <<service, sessions, pid>>

\* A new connection goes behind the last entry, where revents still says what it
\* said before; the loop comes to it in the same round.  Nothing keeps nfd below
\* the size of the array: what a store behind it does is undefined, and the
\* model ends there.
Accept ==
  LET c == Head(backlog) IN
  /\ up /\ at # 0 /\ fds[at].rev /\ fds[at].fd = Listener
  /\ \/ left = 0 /\ Stay /\ UNCHANGED <<backlog, link, left, up>>
     \/ /\ left > 0 /\ left' = left - 1
        /\ backlog' = Tail(backlog)
        /\ link' = [link EXCEPT ![c] = "held"]
        /\ \/ /\ nfd < Len(fds)
              /\ fds' = [fds EXCEPT ![nfd + 1].fd = c]
              /\ nfd' = nfd + 1
              /\ at' = at + 1
              /\ UNCHANGED up
           \/ nfd = Len(fds) /\ up' = FALSE /\ UNCHANGED <<fds, nfd, at>>
  /\ UNCHANGED <<program, client, c2s, s2c, sessions, pid>>

At(c) == up /\ at # 0 /\ fds[at].rev /\ fds[at].fd = c

\* read() of a size returns 0.
PollHangup(c) ==
  /\ At(c) /\ c2s[c] = <<>> /\ Gone(c)
  /\ Close(c, 0)
  /\ UNCHANGED <<program, client, backlog, s2c, up, sessions, pid>>

\* The bytes after the size do not come.  In keys_command close() is commented
\* out: the connection stays open and is looked at no more.
NoBytes(c) ==
  /\ At(c) /\ c2s[c] # <<>> /\ Head(c2s[c]) \in {"zero", "half"}
  /\ IF program = "commands" THEN Close(c, 0)
     ELSE /\ LeaveArray
          /\ link' = [link EXCEPT ![c] = "dropped"]
          /\ c2s' = [c2s EXCEPT ![c] = Tail(@)]
          /\ UNCHANGED left
  /\ UNCHANGED <<program, client, backlog, s2c, up, sessions, pid>>

\* An answer to a client that is gone may raise SIGPIPE, which ends the server.
PollPiped(c) ==
  /\ At(c) /\ Gone(c) /\ c2s[c] # <<>> /\ Head(c2s[c]) \in Lines
  /\ up' = FALSE
  /\ UNCHANGED <<program, client, backlog, link, c2s, s2c, left, fds, nfd, at, sessions, pid>>

Took(c) == c2s' = [c2s EXCEPT ![c] = Tail(@)]

\* keys_command: a write() to a client that is gone may fail, and one of no
\* bytes is taken for a failure.
Key(c) ==
  LET k == Head(c2s[c]) IN
  /\ At(c) /\ c2s[c] # <<>> /\ k \in Keys
  /\ \E n \in 0..3, say \in {"empty", "text"} :
       /\ ExecKey(k, n, say)
       /\ Sent(c, Saying(k, say))
       /\ \/ (say = "empty" \/ Gone(c)) /\ Close(c, n)
          \/ say = "text" /\ Stay /\ Took(c) /\ left' = left - n /\ UNCHANGED link
  /\ UNCHANGED <<program, client, backlog, up, sessions, pid>>

-----------------------------------------------------------------------------
(* protocol_lab_3: a command *)

First(S) == CHOOSE x \in S : \A y \in S : x <= y

\* make_or_find_session, 0 for NULL.
FindSession(p) ==
  LET own == {i \in SessionSlot : sessions[i].pid = p}
      free == {i \in SessionSlot : sessions[i].pid = None} IN
  IF own # {} THEN First(own) ELSE IF free # {} THEN First(free) ELSE 0

SessionsWith(i, p) ==
  [sessions EXCEPT ![i] = IF @.pid = p THEN @ ELSE [pid |-> p, user |-> FALSE]]

\* The answer has been sent, the connection stays.
Answers(c, say) ==
  /\ Sent(c, Saying(Head(c2s[c]), say)) /\ Took(c) /\ Stay
  /\ UNCHANGED <<link, left>>

NoSession(c) ==
  /\ FindSession(pid[c]) = 0
  /\ Answers(c, "text")
  /\ UNCHANGED sessions

\* The name is looked up in /etc/passwd, unless a user is logged in.
Login(c, i, ss) ==
  /\ Head(c2s[c]) = "login"
  /\ \E found \in BOOLEAN :
       LET accepted == found /\ ~ss[i].user /\ left > 0 IN
       /\ Answers(c, IF accepted THEN "in" ELSE "text")
       /\ sessions' = IF accepted THEN [ss EXCEPT ![i].user = TRUE] ELSE ss

\* Slip: the session is given back.
QuitFrees(c, i, ss) ==
  /\ Head(c2s[c]) = "quit"
  /\ sessions' = [ss EXCEPT ![i] = [pid |-> None, user |-> FALSE]]
  /\ Sent(c, Saying("quit", "exit"))
  /\ Close(c, 0)

\* The session stays, logged in.
Quit(c, i, ss) ==
  /\ Head(c2s[c]) = "quit"
  /\ sessions' = ss
  /\ Sent(c, Saying("quit", "exit"))
  /\ Close(c, 0)

\* ls may find nothing to list for a user.  cd changes the directory of the
\* process, and so of all sessions; which it is decides over nothing here.
Other(c, i, ss) ==
  /\ Head(c2s[c]) = "other"
  /\ sessions' = ss
  /\ \/ Answers(c, "text")
     \/ ss[i].user /\ left > 0 /\ Answers(c, "empty")

Command(c) ==
  LET i == FindSession(pid[c])
      ss == SessionsWith(i, pid[c]) IN
  /\ At(c) /\ c2s[c] # <<>> /\ Head(c2s[c]) \in CommandLines
  /\ \/ NoSession(c)
     \/ /\ i # 0
        /\ Login(c, i, ss) \/ Quit(c, i, ss) \/ Other(c, i, ss)
  /\ UNCHANGED <<program, client, backlog, up, pid>>

-----------------------------------------------------------------------------

PollStep == \/ Poll \/ NotReady \/ Accept
            \/ \E c \in Conn : PollHangup(c) \/ NoBytes(c) \/ PollPiped(c) \/ Key(c) \/ Command(c)

Elsewhere == UNCHANGED <<fds, nfd, at, sessions, pid>>

PollNext == \/ PollStep
            \/ \E c \in Conn : (ClientStep(c) \/ UserStep(c)) /\ Elsewhere

PollInit == program \in PollPrograms /\ ServiceStart /\ PollStart

PollSpec == PollInit /\ [][PollNext]_pvars

\* The server runs when it can.
PollFairness == WF_pvars(Polls /\ PollStep)

-----------------------------------------------------------------------------
(* Properties *)

\* The server's variables keep their types.
PollTypeOK == /\ fds \in Seq(PollFd) /\ Len(fds) \in Sizes
              /\ nfd \in Entry
              /\ at \in 0..nfd
              /\ sessions \in [SessionSlot -> Session]
              /\ pid \in [Conn -> Pid]

\* Through all removals by overwriting, the array holds the listening socket
\* first and behind it each connection the server has open exactly once.
ArrayExact ==
  up /\ program \in PollPrograms =>
    /\ fds[1].fd = Listener
    /\ {fds[i].fd : i \in 2..nfd} = {c \in Conn : link[c] = "held"}
    /\ \A i, j \in 2..nfd : fds[i].fd = fds[j].fd => i = j

\* The one read() that can stop the whole server, of an entry whose client has
\* sent nothing, is that of a connection accepted in this round, found ready
\* by the revents some earlier connection left there.
BlockedOnlyByNew ==
  \A c \in Conn : At(c) /\ c2s[c] = <<>> /\ ~Gone(c) => client[c].pc = "first"

\* A connection is closed for what its own client did: it is gone, or the
\* message it sent last was cut short, answered by nothing, or quit.
ClosedForCause ==
  [][\A c \in Conn : link[c] = "held" /\ link'[c] = "closed" =>
       \/ Gone(c)
       \/ c2s[c] # <<>> /\ Head(c2s[c]) \in {"zero", "half", "quit"}
       \/ \E a \in {s2c'[c][i] : i \in 1..Len(s2c'[c])} : a.say = "empty"]_link

\* A client that was told "Login successful" is logged in from then on: the
\* session found by the process id it claims has a user, whoever else claims
\* the same id and quits.
LoginRemembered ==
  \A c \in Conn : client[c].logged =>
    FindSession(pid[c]) # 0 /\ sessions[FindSession(pid[c])].user

\* The server has forgotten the connection, cannot accept it, or is stopped in
\* read() by a new client.
PassedOver(c) ==
  LET Queued == \E i \in 1..Len(backlog) : backlog[i] = c
      Blocked == \E d \in Conn : At(d) /\ c2s[d] = <<>> /\ ~Gone(d) IN
  link[c] = "dropped" \/ (Queued /\ left = 0) \/ Blocked
=============================================================================
