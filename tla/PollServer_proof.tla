--------------------------- MODULE PollServer_proof ---------------------------
(***************************************************************************)
(* The services around poll(), for any connections, array sizes, numbers of *)
(* descriptors and sessions, and any process ids.                          *)
(***************************************************************************)
EXTENDS PollServer, WellFoundedInduction, SequenceTheorems, TLAPS

KeyMessage == Keys \cup CommandLines \cup {"zero", "half"}
Sessions == [SessionSlot -> Session]

FdsTyped == /\ fds \in Seq(PollFd) /\ Len(fds) \in Sizes
            /\ nfd \in Entry
            /\ at \in 0..nfd

PollTyped ==
  /\ program \in PollPrograms
  /\ client \in [Conn -> ClientState]
  /\ backlog \in Seq(Conn)
  /\ link \in [Conn -> LinkState]
  /\ c2s \in [Conn -> Seq(KeyMessage)]
  /\ s2c \in [Conn -> Seq(Answer)]
  /\ sessions \in Sessions
  /\ pid \in [Conn -> Pid]
  /\ FdsTyped

\* A client that the loop may meet without a poll() for it has sent something,
\* is gone, or is at its first prompt.
Fresh(c) == c2s[c] # <<>> \/ Gone(c) \/ client[c].pc = "first"

\* What is not accepted is queued once and unknown to the server.
Queued ==
  /\ \A c \in Conn : client[c].pc = "new" => link[c] = "none"
  /\ \A i \in 1..Len(backlog) :
       /\ link[backlog[i]] = "none" /\ client[backlog[i]].pc # "new"
       /\ Fresh(backlog[i])
  /\ \A i, j \in 1..Len(backlog) : backlog[i] = backlog[j] => i = j

\* ArrayExact, entry by entry.
Array ==
  up => /\ fds[1].fd = Listener
        /\ \A i \in 2..nfd : fds[i].fd \in Conn /\ link[fds[i].fd] = "held"
        /\ \A c \in Conn : link[c] = "held" => \E i \in 2..nfd : fds[i].fd = c
        /\ \A i, j \in 2..nfd : fds[i].fd = fds[j].fd => i = j

\* The entries this round has still to come to.
Ahead ==
  /\ up /\ at = 1 /\ fds[1].rev => backlog # <<>>
  /\ up => \A i \in 2..nfd : at # 0 /\ i >= at /\ fds[i].rev => Fresh(fds[i].fd)

Apart(ss) ==
  \A i, j \in SessionSlot : ss[i].pid = ss[j].pid /\ ss[i].pid # None => i = j

LoggedIn(p, ss) == \E i \in SessionSlot : ss[i].pid = p /\ ss[i].user

\* A login that was granted is in the sessions before its client reads of it.
Logins ==
  /\ Apart(sessions)
  /\ \A c \in Conn :
       client[c].logged \/ (\E k \in 1..Len(s2c[c]) : s2c[c][k].say = "in")
         => LoggedIn(pid[c], sessions)

PollInv == PollTyped /\ Queued /\ Array /\ Ahead /\ Logins

-----------------------------------------------------------------------------
(* Sessions *)

\* The least element that First chooses exists.
LEMMA FirstIn ==
  ASSUME NEW S \in SUBSET Nat, S # {}
  PROVE  First(S) \in S
<1> DEFINE R == {p \in Nat \X Nat : p[1] < p[2]}
<1>1. PICK x \in S : \A y \in S : ~ (<<y, x>> \in R)
  BY NatLessThanWellFounded, WFMin DEF OpToRel
<1>2. ASSUME NEW y \in S PROVE x <= y
  <2>1. x \in Nat /\ y \in Nat /\ ~ (<<y, x>> \in R)
    BY <1>1
  <2>2. y < x => <<y, x>> \in R
    BY <2>1
  <2> QED
    BY <2>1, <2>2
<1> QED
  BY <1>2 DEF First

\* make_or_find_session: the slot has the id from then on, no other has, and
\* nobody is logged out.
LEMMA SessionFound ==
  ASSUME PollTyped, Logins, NEW p \in Pid, NEW i, i = FindSession(p), i # 0,
         NEW ss, ss = SessionsWith(i, p)
  PROVE  /\ i \in SessionSlot /\ ss \in Sessions /\ Apart(ss) /\ ss[i].pid = p
         /\ \A q \in Pid : LoggedIn(q, sessions) => LoggedIn(q, ss)
<1> DEFINE own == {k \in SessionSlot : sessions[k].pid = p}
           free == {k \in SessionSlot : sessions[k].pid = None}
<1>1. own \in SUBSET Nat /\ free \in SUBSET Nat
  BY PollAssumption DEF SessionSlot
<1>2. IF own # {} THEN i \in own ELSE i \in free
  BY <1>1, FirstIn DEF FindSession
<1>3. i \in SessionSlot /\ p # None /\ sessions \in Sessions
  BY <1>2, PollAssumption DEF PollTyped
<1>4. CASE own # {}
  <2>1. ss = sessions
    BY <1>2, <1>3, <1>4 DEF SessionsWith, Sessions
  <2> QED
    BY <1>2, <1>3, <1>4, <2>1 DEF Logins
<1>5. CASE own = {}
  <2>1. ss = [sessions EXCEPT ![i] = [pid |-> p, user |-> FALSE]]
    BY <1>2, <1>3, <1>5 DEF SessionsWith, Sessions
  <2>2. ss \in Sessions
    BY <1>3, <2>1 DEF Sessions, Session
  <2>3. ss[i].pid = p /\ \A k \in SessionSlot : k # i => ss[k] = sessions[k]
    BY <1>3, <2>1 DEF Sessions
  <2>4. Apart(ss)
    BY <1>3, <1>5, <2>3 DEF Logins, Apart
  <2>5. \A q \in Pid : LoggedIn(q, sessions) => LoggedIn(q, ss)
    BY <1>2, <1>5, <2>3, PollAssumption DEF LoggedIn
  <2> QED
    BY <1>3, <2>2, <2>3, <2>4, <2>5
<1> QED
  BY <1>4, <1>5

LEMMA GarbledType == ASSUME NEW a PROVE Garbled(a) \in Answer /\ Garbled(a).say # "in"
  BY DEF Garbled, Saying, Answer

\* An answer that tells of no login, or of one that is in the sessions.
LEMMA SentKeeps ==
  ASSUME PollTyped, Logins, NEW c \in Conn, NEW a \in Answer, Sent(c, a),
         UNCHANGED <<client, pid>>, Apart(sessions'),
         \A q \in Pid : LoggedIn(q, sessions) => LoggedIn(q, sessions'),
         a.say = "in" => LoggedIn(pid[c], sessions')
  PROVE  s2c' \in [Conn -> Seq(Answer)] /\ Logins'
<1>1. s2c' \in [Conn -> Seq(Answer)]
  <2>1. s2c \in [Conn -> Seq(Answer)] /\ s2c[c] \in Seq(Answer)
    BY DEF PollTyped
  <2>2. Append(s2c[c], a) \in Seq(Answer) /\ <<Garbled(a)>> \in Seq(Answer)
    BY <2>1, GarbledType
  <2> QED
    BY <2>1, <2>2 DEF Sent
<1>2. ASSUME NEW d \in Conn, NEW k \in 1..Len(s2c'[d]), s2c'[d][k].say = "in"
      PROVE  LoggedIn(pid[d], sessions')
  <2>1. pid[d] \in Pid /\ s2c[d] \in Seq(Answer)
    BY DEF PollTyped
  <2>2. CASE k \in 1..Len(s2c[d]) /\ s2c'[d][k] = s2c[d][k]
    BY <1>2, <2>1, <2>2 DEF Logins
  <2>3. CASE d = c /\ s2c'[d] = Append(s2c[d], a)
    <3>1. k \in 1..Len(s2c[d]) \/ k = Len(s2c[d]) + 1
      BY <1>2, <2>1, <2>3
    <3>2. k = Len(s2c[d]) + 1 => s2c'[d][k] = a
      BY <2>1, <2>3
    <3> QED
      BY <1>2, <2>1, <2>2, <2>3, <3>1, <3>2
  <2>4. \/ s2c'[d] = s2c[d]
        \/ d = c /\ (s2c'[d] = Append(s2c[d], a) \/ s2c'[d] = <<Garbled(a)>>)
    BY DEF Sent, PollTyped
  <2>5. CASE s2c'[d] = <<Garbled(a)>>
    <3>1. s2c'[d][k].say = Garbled(a).say
      BY <1>2, <2>5
    <3> QED
      BY <1>2, <3>1 DEF Garbled, Saying
  <2> QED
    BY <1>2, <2>2, <2>3, <2>4, <2>5
<1>3. \A d \in Conn : client[d].logged => LoggedIn(pid[d], sessions')
  BY DEF Logins, PollTyped
<1> QED
  BY <1>1, <1>2, <1>3 DEF Logins

-----------------------------------------------------------------------------
(* The array *)

\* The entry the loop is at, when it is a connection's.
LEMMA AtFacts ==
  ASSUME PollTyped, Array, NEW c \in Conn, At(c)
  PROVE  /\ at \in 2..nfd /\ nfd \in 2..Len(fds) /\ up
         /\ fds[at].fd = c /\ link[c] = "held"
<1>1. up /\ at # 0 /\ fds[at].fd = c
  BY DEF At
<1>2. fds[1].fd = Listener /\ c # Listener
  BY <1>1, PollAssumption DEF Array
<1>3. at \in 0..nfd /\ nfd \in 1..Len(fds) /\ Len(fds) \in Nat
  BY DEF PollTyped, FdsTyped, Entry
<1>4. at \in 2..nfd
  BY <1>1, <1>2, <1>3
<1> QED
  BY <1>1, <1>3, <1>4 DEF Array

\* An entry is removed by overwriting, and its connection closed or forgotten.
LEMMA LeaveKeeps ==
  ASSUME PollTyped, Array, Ahead, NEW c \in Conn, At(c), LeaveArray,
         NEW s \in {"closed", "dropped"}, link' = [link EXCEPT ![c] = s],
         \A d \in Conn : d # c => c2s'[d] = c2s[d],
         UNCHANGED <<client, up>>
  PROVE  FdsTyped' /\ Array' /\ Ahead'
<1>1. /\ at \in 2..nfd /\ nfd \in 2..Len(fds) /\ up
      /\ fds[at].fd = c /\ link[c] = "held"
  BY AtFacts
<1>2. fds \in Seq(PollFd) /\ Len(fds) \in Sizes /\ Len(fds) \in Nat
  BY DEF PollTyped, FdsTyped
<1>3. /\ fds' = [fds EXCEPT ![at] = fds[nfd], ![nfd].fd = None]
      /\ nfd' = nfd - 1
      /\ at' = IF at <= nfd - 1 THEN at ELSE 0
  BY DEF LeaveArray
<1>4. fds' \in Seq(PollFd) /\ Len(fds') = Len(fds)
  <2>1. fds[nfd] \in PollFd /\ at \in 1..Len(fds)
    BY <1>1, <1>2
  <2>2. [fds EXCEPT ![at] = fds[nfd]] \in Seq(PollFd)
    BY <1>2, <2>1
  <2> QED
    BY <1>1, <1>2, <1>3, <2>1, <2>2 DEF PollFd
<1>5. nfd' \in 1..Len(fds') /\ at' \in 0..nfd' /\ at' # 1 /\ 1 \in 1..Len(fds)
  BY <1>1, <1>2, <1>3, <1>4
<1>6. FdsTyped'
  BY <1>2, <1>4, <1>5 DEF FdsTyped, Entry
<1>7. \A i \in 1..nfd' : fds'[i] = IF i = at THEN fds[nfd] ELSE fds[i]
  BY <1>1, <1>2, <1>3
<1>8. \A i \in 2..nfd' : IF i = at THEN fds'[i] = fds[nfd] /\ nfd \in 2..nfd /\ nfd # at
                         ELSE fds'[i] = fds[i] /\ i \in 2..nfd /\ i # at /\ i # nfd
  BY <1>1, <1>2, <1>3, <1>7
<1>9. \A i \in 2..nfd' : fds'[i].fd \in Conn /\ fds'[i].fd # c /\ link'[fds'[i].fd] = "held"
  <2>1. ASSUME NEW i \in 2..nfd'
        PROVE  \E j \in 2..nfd : j # at /\ fds'[i] = fds[j]
    BY <1>1, <1>8
  <2>2. \A j \in 2..nfd : j # at => fds[j].fd \in Conn /\ fds[j].fd # c
                                  /\ link[fds[j].fd] = "held"
    BY <1>1 DEF Array
  <2>3. \A d \in Conn : d # c => link'[d] = link[d]
    BY DEF PollTyped
  <2> QED
    BY <2>1, <2>2, <2>3
<1>10. \A d \in Conn : link'[d] = "held" => \E i \in 2..nfd' : fds'[i].fd = d
  <2> SUFFICES ASSUME NEW d \in Conn, link'[d] = "held"
               PROVE  \E i \in 2..nfd' : fds'[i].fd = d
    OBVIOUS
  <2>1. d # c /\ link[d] = "held"
    BY DEF PollTyped
  <2>2. PICK i \in 2..nfd : fds[i].fd = d
    BY <1>1, <2>1 DEF Array
  <2>3. i # at
    BY <1>1, <2>1, <2>2
  <2>4. CASE i = nfd
    <3>1. at \in 2..nfd' /\ fds'[at] = fds[nfd]
      BY <1>1, <1>3, <1>7, <2>3, <2>4
    <3> QED
      BY <2>2, <2>4, <3>1
  <2>5. CASE i # nfd
    <3>1. i \in 2..nfd' /\ fds'[i] = fds[i]
      BY <1>1, <1>3, <1>7, <2>2, <2>3, <2>5
    <3> QED
      BY <2>2, <3>1
  <2> QED
    BY <2>4, <2>5
<1>11. \A i, j \in 2..nfd' : fds'[i].fd = fds'[j].fd => i = j
  BY <1>1, <1>8 DEF Array
<1>12. Array'
  <2>1. fds'[1].fd = Listener
    BY <1>1, <1>5, <1>7 DEF Array
  <2> QED
    BY <1>9, <1>10, <1>11, <2>1 DEF Array
<1>13. ASSUME NEW i \in 2..nfd', at' # 0, i >= at', fds'[i].rev
       PROVE  Fresh(fds[i].fd)'
  <2>1. PICK j \in 2..nfd : fds'[i] = fds[j] /\ j >= at
    BY <1>1, <1>3, <1>8, <1>13
  <2>2. Fresh(fds[j].fd)
    BY <1>1, <1>13, <2>1 DEF Ahead
  <2> QED
    BY <1>9, <1>13, <2>1, <2>2 DEF Fresh, Gone
<1> QED
  BY <1>5, <1>6, <1>12, <1>13 DEF Ahead

\* The loop goes on to the next entry.
LEMMA StayKeeps ==
  ASSUME PollTyped, Array, Ahead, NEW c \in Conn, At(c), Stay,
         \A d \in Conn : d # c => c2s'[d] = c2s[d],
         UNCHANGED <<client, link, up>>
  PROVE  FdsTyped' /\ Array' /\ Ahead'
<1>1. at \in 2..nfd /\ nfd \in Nat /\ up /\ fds[at].fd = c
  BY AtFacts
<1>2. at' \in 0..nfd /\ at' # 1 /\ (at' # 0 => at' = at + 1)
  BY <1>1 DEF Stay, Onward
<1>3. fds' = fds /\ nfd' = nfd
  BY DEF Stay
<1>4. FdsTyped'
  BY <1>2, <1>3 DEF PollTyped, FdsTyped, Entry
<1>5. Array'
  BY <1>3 DEF Array
<1>6. ASSUME NEW i \in 2..nfd, at' # 0, i >= at', fds[i].rev
      PROVE  Fresh(fds[i].fd)'
  <2>1. i > at /\ fds[i].fd # c /\ fds[i].fd \in Conn
    BY <1>1, <1>2, <1>6 DEF Array
  <2>2. Fresh(fds[i].fd)
    BY <1>1, <1>6, <2>1 DEF Ahead
  <2> QED
    BY <1>3, <2>1, <2>2 DEF Fresh, Gone
<1> QED
  BY <1>2, <1>3, <1>4, <1>5, <1>6 DEF Ahead

\* What the server does to a connection it has leaves the queue alone.
LEMMA QueueKeeps ==
  ASSUME PollTyped, Array, Queued, NEW c \in Conn, At(c),
         \A d \in Conn : d # c => link'[d] = link[d] /\ c2s'[d] = c2s[d],
         UNCHANGED <<client, backlog>>
  PROVE  Queued'
<1>1. link[c] = "held"
  BY AtFacts
<1>2. \A i \in 1..Len(backlog) : backlog[i] \in Conn /\ backlog[i] # c
  BY <1>1 DEF PollTyped, Queued
<1>3. \A d \in Conn : client[d].pc = "new" => d # c
  BY <1>1 DEF Queued
<1> QED
  BY <1>2, <1>3 DEF Queued, Fresh, Gone

-----------------------------------------------------------------------------
(* The clients *)

Told(c) == client[c].logged \/ \E k \in 1..Len(s2c[c]) : s2c[c][k].say = "in"

\* What a client may do to itself and its connection.
LEMMA ClientKeeps ==
  ASSUME PollInv, NEW c \in Conn, Elsewhere, UNCHANGED <<program, link, up>>,
         client' \in [Conn -> ClientState],
         c2s' \in [Conn -> Seq(KeyMessage)], s2c' \in [Conn -> Seq(Answer)],
         \A d \in Conn : d # c => /\ client'[d] = client[d]
                                  /\ c2s'[d] = c2s[d] /\ s2c'[d] = s2c[d],
         client'[c].pc # "new",
         Fresh(c) => Fresh(c)', Told(c)' => Told(c),
         \/ client[c].pc # "new" /\ backlog' = backlog
         \/ client[c].pc = "new" /\ client'[c].pc = "first" /\ backlog' = Append(backlog, c)
  PROVE  PollInv'
<1>1. PollTyped /\ Queued /\ Array /\ Ahead /\ Logins
  BY DEF PollInv
<1>2. backlog \in Seq(Conn) /\ backlog' \in Seq(Conn)
  <2>1. backlog \in Seq(Conn)
    BY <1>1 DEF PollTyped
  <2>2. backlog' = backlog \/ backlog' = Append(backlog, c)
    OBVIOUS
  <2>3. Append(backlog, c) \in Seq(Conn)
    BY <2>1, AppendProperties
  <2> QED
    BY <2>1, <2>2, <2>3
<1>3. PollTyped'
  BY <1>1, <1>2 DEF PollTyped, FdsTyped, Entry, Elsewhere
<1>4. \A d \in Conn : Fresh(d) => Fresh(d)'
  BY DEF Fresh, Gone
<1>5. Queued'
  <2>1. \A d \in Conn : client'[d].pc = "new" => link'[d] = "none"
    BY <1>1 DEF Queued
  <2>2. CASE backlog' = backlog
    <3>1. ASSUME NEW i \in 1..Len(backlog)
          PROVE  /\ link'[backlog[i]] = "none" /\ client'[backlog[i]].pc # "new"
                 /\ Fresh(backlog[i])'
      <4>1. backlog[i] \in Conn /\ Fresh(backlog[i])
        BY <1>1, <1>2 DEF Queued
      <4>2. c2s'[backlog[i]] # <<>> \/ client'[backlog[i]].pc \in {"gone", "first"}
        BY <1>4, <4>1 DEF Fresh, Gone
      <4>3. link[backlog[i]] = "none" /\ client[backlog[i]].pc # "new"
        BY <1>1 DEF Queued
      <4> QED
        BY <2>2, <4>1, <4>2, <4>3 DEF Fresh, Gone
    <3> QED
      BY <1>1, <2>1, <2>2, <3>1 DEF Queued, Fresh, Gone
  <2>3. CASE /\ client[c].pc = "new" /\ client'[c].pc = "first"
             /\ backlog' = Append(backlog, c)
    <3>1. /\ Len(backlog') = Len(backlog) + 1 /\ Len(backlog) \in Nat
          /\ backlog'[Len(backlog')] = c
          /\ \A i \in 1..Len(backlog) : backlog'[i] = backlog[i] /\ backlog[i] \in Conn
      BY <1>2, <2>3
    <3>2. \A i \in 1..Len(backlog) : /\ link[backlog[i]] = "none" /\ backlog[i] # c
                                     /\ client[backlog[i]].pc # "new" /\ Fresh(backlog[i])
      BY <1>1, <2>3 DEF Queued
    <3>3. link[c] = "none"
      BY <1>1, <2>3 DEF Queued
    <3>4. \A i \in 1..Len(backlog') :
            i = Len(backlog') \/ (i \in 1..Len(backlog) /\ i # Len(backlog'))
      BY <3>1
    <3>5. ASSUME NEW i \in 1..Len(backlog')
          PROVE  /\ link'[backlog'[i]] = "none" /\ client'[backlog'[i]].pc # "new"
                 /\ c2s'[backlog'[i]] # <<>> \/ client'[backlog'[i]].pc \in {"gone", "first"}
      <4>1. CASE i = Len(backlog')
        BY <2>3, <3>1, <3>3, <4>1
      <4>2. CASE i \in 1..Len(backlog)
        <5>1. /\ backlog'[i] = backlog[i] /\ backlog[i] \in Conn
              /\ link[backlog[i]] = "none" /\ backlog[i] # c
              /\ client[backlog[i]].pc # "new" /\ Fresh(backlog[i])
          BY <3>1, <3>2, <4>2
        <5> QED
          BY <5>1 DEF Fresh, Gone
      <4> QED
        BY <3>4, <4>1, <4>2
    <3>6. \A i, j \in 1..Len(backlog) : backlog[i] = backlog[j] => i = j
      BY <1>1 DEF Queued
    <3>7. ASSUME NEW i \in 1..Len(backlog'), NEW j \in 1..Len(backlog'),
                 backlog'[i] = backlog'[j]
          PROVE  i = j
      BY <3>1, <3>2, <3>4, <3>6, <3>7
    <3> QED
      BY <2>1, <3>5, <3>7 DEF Queued, Fresh, Gone
  <2> QED
    BY <2>2, <2>3
<1>6. Array'
  BY <1>1 DEF Array, Elsewhere
<1>7. Ahead'
  <2>1. backlog # <<>> => backlog' # <<>>
    BY <1>2
  <2>2. ASSUME up, NEW i \in 2..nfd, at # 0, i >= at, fds[i].rev
        PROVE  Fresh(fds[i].fd)'
    <3>1. fds[i].fd \in Conn /\ Fresh(fds[i].fd)
      BY <1>1, <2>2 DEF Array, Ahead
    <3> QED
      BY <1>4, <3>1 DEF Fresh, Gone, Elsewhere
  <2> QED
    BY <1>1, <2>1, <2>2 DEF Ahead, Elsewhere
<1>8. Logins'
  BY <1>1 DEF Logins, Told, Elsewhere
<1> QED
  BY <1>3, <1>5, <1>6, <1>7, <1>8 DEF PollInv

\* The client record after a line is typed, and after an answer or part of one.
LEMMA RecordTypes ==
  ASSUME NEW r \in ClientState, NEW k \in Keys \cup CommandLines \cup {None}, NEW b \in BOOLEAN,
         NEW t \in {[r EXCEPT !.pc = "wait", !.line = k],
                    [r EXCEPT !.pc = "prompt", !.line = None, !.logged = b],
                    [r EXCEPT !.pc = "prompt", !.line = None, !.sync = FALSE]}
  PROVE  t \in ClientState /\ t.pc # "new"
  BY DEF ClientState

\* Every step of a client is of that kind.
LEMMA ClientsKeep ==
  ASSUME PollInv, NEW c \in Conn, ClientStep(c) \/ UserStep(c), Elsewhere
  PROVE  PollInv'
<1> USE DEF ClientState
<1>1. /\ client \in [Conn -> ClientState] /\ c2s \in [Conn -> Seq(KeyMessage)]
      /\ s2c \in [Conn -> Seq(Answer)] /\ program \in PollPrograms
  BY DEF PollInv, PollTyped
<1>2. Lines \subseteq Keys \cup CommandLines /\ "zero" \in KeyMessage /\ "half" \in KeyMessage
  BY DEF Lines, KeyMessage
<1>3. [NewClient EXCEPT !.pc = "gone"] \in ClientState
  BY DEF NewClient
<1>4. CASE Connect(c)
  BY <1>1, <1>4, ClientKeeps DEF Connect, Fresh, Told
<1>5. CASE Type(c)
  <2>1. PICK k \in Lines :
          /\ client' = [client EXCEPT ![c].pc = "wait",
                                      ![c].line = IF client[c].sync THEN k ELSE None]
          /\ c2s' = [c2s EXCEPT ![c] = Append(@, k)]
    BY <1>5 DEF Type
  <2>2. c2s' \in [Conn -> Seq(KeyMessage)] /\ c2s'[c] # <<>>
    <3>1. k \in KeyMessage
      BY <1>2 DEF KeyMessage
    <3>2. c2s[c] \in Seq(KeyMessage)
      BY <1>1
    <3>3. Append(c2s[c], k) \in Seq(KeyMessage) /\ Append(c2s[c], k) # <<>>
      BY <3>1, <3>2, AppendProperties
    <3> QED
      BY <1>1, <2>1, <3>3
  <2>3. client' \in [Conn -> ClientState]
    <3> DEFINE m == IF client[c].sync THEN k ELSE None
               r == [client[c] EXCEPT !.pc = "wait", !.line = m]
    <3>1. client' = [client EXCEPT ![c] = r]
      BY <2>1
    <3>2. m \in Keys \cup CommandLines \cup {None} /\ client[c] \in ClientState
      BY <1>1, <1>2
    <3> HIDE DEF m, ClientState
    <3>3. r \in ClientState
      BY <3>2, RecordTypes, Zenon
    <3> HIDE DEF r
    <3> QED
      BY <1>1, <3>1, <3>3
  <2> QED
    BY <1>1, <1>5, <2>1, <2>2, <2>3, ClientKeeps DEF Type, Fresh, Told, Prompted
<1>6. CASE TypeNothing(c)
  <2>1. c2s' \in [Conn -> Seq(KeyMessage)] /\ c2s'[c] # <<>>
    <3>1. c2s[c] \in Seq(KeyMessage)
      BY <1>1
    <3>2. Append(c2s[c], "zero") \in Seq(KeyMessage) /\ Append(c2s[c], "zero") # <<>>
      BY <1>2, <3>1, AppendProperties
    <3> QED
      BY <1>1, <1>6, <3>2 DEF TypeNothing
  <2> QED
    BY <1>1, <1>6, <2>1, ClientKeeps DEF TypeNothing, Fresh, Told, Prompted
<1>7. CASE ReadAnswer(c)
  <2> DEFINE a == Head(s2c[c])
  <2>1. /\ Waiting(c) /\ s2c[c] # <<>>
        /\ s2c' = [s2c EXCEPT ![c] = Tail(@)]
        /\ UNCHANGED <<program, backlog, link, c2s, left, up>>
    BY <1>7 DEF ReadAnswer
  <2>2. \/ client' = [client EXCEPT ![c] = [NewClient EXCEPT !.pc = "gone"]]
        \/ client' = [client EXCEPT ![c].pc = "prompt", ![c].line = None,
                                    ![c].logged = @ \/ a.say = "in"]
    BY <1>7 DEF ReadAnswer
  <2>3. s2c' \in [Conn -> Seq(Answer)]
    BY <1>1, <2>1
  <2>4. client' \in [Conn -> ClientState] /\ client'[c].pc # "new"
    <3>1. CASE client' = [client EXCEPT ![c] = [NewClient EXCEPT !.pc = "gone"]]
      BY <1>1, <1>3, <3>1 DEF NewClient
    <3>2. CASE client' = [client EXCEPT ![c].pc = "prompt", ![c].line = None,
                                        ![c].logged = @ \/ a.say = "in"]
      <4> DEFINE told == client[c].logged \/ a.say = "in"
      <4>1. told \in BOOLEAN
        OBVIOUS
      <4> DEFINE r == [client[c] EXCEPT !.pc = "prompt", !.line = None, !.logged = told]
      <4>2. client' = [client EXCEPT ![c] = r] /\ client[c] \in ClientState
        BY <1>1, <3>2
      <4>3. None \in Keys \cup CommandLines \cup {None}
        OBVIOUS
      <4> HIDE DEF told, ClientState
      <4>4. r \in ClientState /\ r.pc # "new"
        BY <4>1, <4>2, <4>3, RecordTypes, Zenon
      <4> HIDE DEF r
      <4> QED
        BY <1>1, <4>2, <4>4
    <3> QED
      BY <2>2, <3>1, <3>2
  <2>5. Fresh(c) => Fresh(c)'
    BY <2>1 DEF Fresh, Gone, Waiting
  <2>6. Told(c)' => Told(c)
    <3>1. \A k \in 1..Len(s2c'[c]) : /\ k + 1 \in 1..Len(s2c[c])
                                     /\ s2c'[c][k] = s2c[c][k + 1]
      BY <1>1, <2>1
    <3>2. a = s2c[c][1] /\ 1 \in 1..Len(s2c[c])
      BY <1>1, <2>1
    <3>3. client'[c].logged => client[c].logged \/ a.say = "in"
      <4>1. CASE client' = [client EXCEPT ![c] = [NewClient EXCEPT !.pc = "gone"]]
        BY <1>1, <4>1 DEF NewClient
      <4>2. CASE client' = [client EXCEPT ![c].pc = "prompt", ![c].line = None,
                                          ![c].logged = @ \/ a.say = "in"]
        BY <1>1, <4>2
      <4> QED
        BY <2>2, <4>1, <4>2
    <3> QED
      BY <3>1, <3>2, <3>3 DEF Told
  <2> QED
    BY <1>1, <2>1, <2>2, <2>3, <2>4, <2>5, <2>6, ClientKeeps DEF Waiting
<1>8. CASE ReadEof(c)
  BY <1>1, <1>8, ClientKeeps DEF ReadEof, Fresh, Gone, Told, Waiting
<1>10. CASE ReadPart(c)
  <2> DEFINE a == Garbled(Head(s2c[c]))
  <2>1. /\ client' = [client EXCEPT ![c].pc = "prompt", ![c].line = None, ![c].sync = FALSE]
        /\ s2c' = [s2c EXCEPT ![c] = <<a>>] \/ s2c' = [s2c EXCEPT ![c] = <<>>]
        /\ Waiting(c) /\ UNCHANGED <<program, backlog, link, c2s, left, up>>
    BY <1>10 DEF ReadPart
  <2>2. a \in Answer /\ a.say # "in"
    BY GarbledType
  <2> HIDE DEF a
  <2>3. client' \in [Conn -> ClientState] /\ client'[c].pc # "new"
    <3> DEFINE r == [client[c] EXCEPT !.pc = "prompt", !.line = None, !.sync = FALSE]
    <3>1. client' = [client EXCEPT ![c] = r] /\ client[c] \in ClientState
      BY <1>1, <2>1
    <3>2. None \in Keys \cup CommandLines \cup {None} /\ TRUE \in BOOLEAN
      OBVIOUS
    <3> HIDE DEF ClientState
    <3>3. r \in ClientState /\ r.pc # "new"
      BY <3>1, <3>2, RecordTypes, Zenon
    <3> HIDE DEF r
    <3> QED
      BY <1>1, <3>1, <3>3
  <2>4. s2c' \in [Conn -> Seq(Answer)]
    <3>1. <<a>> \in Seq(Answer) /\ <<>> \in Seq(Answer)
      BY <2>2
    <3> QED
      BY <1>1, <2>1, <3>1
  <2>5. Fresh(c) => Fresh(c)'
    BY <2>1 DEF Fresh, Gone, Waiting
  <2>6. Told(c)' => Told(c)
    <3>1. client'[c].logged => client[c].logged
      BY <1>1, <2>1
    <3>2. \A k \in 1..Len(s2c'[c]) : s2c'[c][k].say # "in"
      BY <1>1, <2>1, <2>2
    <3> QED
      BY <3>1, <3>2 DEF Told
  <2>7. client[c].pc # "new" /\ \A d \in Conn : d # c => client'[d] = client[d] /\ s2c'[d] = s2c[d]
    BY <1>1, <2>1 DEF Waiting
  <2> QED
    BY <1>1, <2>1, <2>3, <2>4, <2>5, <2>6, <2>7, ClientKeeps
<1>9. CASE Leave(c)
  <2>1. /\ client' = [client EXCEPT ![c] = [NewClient EXCEPT !.pc = "gone"]]
        /\ s2c' = [s2c EXCEPT ![c] = <<>>]
        /\ Prompted(c) \/ Waiting(c)
        /\ UNCHANGED <<program, backlog, link, left, up>>
    BY <1>9 DEF Leave
  <2>2. c2s' = c2s \/ c2s' = [c2s EXCEPT ![c] = Append(@, "half")]
    BY <1>9 DEF Leave
  <2>3. /\ c2s' \in [Conn -> Seq(KeyMessage)] /\ \A d \in Conn : d # c => c2s'[d] = c2s[d]
        /\ c2s[c] # <<>> => c2s'[c] # <<>>
    <3>1. CASE c2s' = c2s
      BY <1>1, <3>1
    <3>2. CASE c2s' = [c2s EXCEPT ![c] = Append(@, "half")]
      <4>1. c2s[c] \in Seq(KeyMessage)
        BY <1>1
      <4>2. Append(c2s[c], "half") \in Seq(KeyMessage) /\ Append(c2s[c], "half") # <<>>
        BY <1>2, <4>1, AppendProperties
      <4> QED
        BY <1>1, <3>2, <4>2
    <3> QED
      BY <2>2, <3>1, <3>2
  <2>4. client' \in [Conn -> ClientState] /\ client'[c].pc = "gone" /\ ~client'[c].logged
    BY <1>1, <1>3, <2>1 DEF NewClient
  <2>5. s2c' \in [Conn -> Seq(Answer)] /\ Len(s2c'[c]) = 0
    BY <1>1, <2>1
  <2>6. Fresh(c) => Fresh(c)'
    BY <2>4 DEF Fresh, Gone
  <2>7. ~Told(c)'
    BY <2>4, <2>5 DEF Told
  <2>8. \A d \in Conn : d # c => client'[d] = client[d] /\ s2c'[d] = s2c[d]
    BY <1>1, <2>1
  <2>9. client[c].pc # "new"
    BY <2>1 DEF Prompted, Waiting
  <2> QED
    BY <2>1, <2>3, <2>4, <2>5, <2>6, <2>7, <2>8, <2>9, ClientKeeps
<1> QED
  BY <1>4, <1>5, <1>6, <1>7, <1>8, <1>9, <1>10 DEF ClientStep, UserStep

-----------------------------------------------------------------------------
(* The server *)

\* One entry: what a step does to its connection, and to the array.
LEMMA EntryKeeps ==
  ASSUME PollInv, NEW c \in Conn, At(c), UNCHANGED <<program, client, backlog, up, pid>>,
         sessions' \in Sessions, s2c' \in [Conn -> Seq(Answer)], Logins',
         \/ c2s' = [c2s EXCEPT ![c] = <<>>]
         \/ c2s[c] # <<>> /\ c2s' = [c2s EXCEPT ![c] = Tail(@)],
         \/ Stay /\ link' = link
         \/ LeaveArray /\ \E s \in {"closed", "dropped"} : link' = [link EXCEPT ![c] = s]
  PROVE  PollInv'
<1>1. PollTyped /\ Queued /\ Array /\ Ahead
  BY DEF PollInv
<1>2. c2s' \in [Conn -> Seq(KeyMessage)] /\ \A d \in Conn : d # c => c2s'[d] = c2s[d]
  <2>1. c2s \in [Conn -> Seq(KeyMessage)] /\ c2s[c] \in Seq(KeyMessage) /\ <<>> \in Seq(KeyMessage)
    BY <1>1 DEF PollTyped
  <2>2. c2s[c] # <<>> => Tail(c2s[c]) \in Seq(KeyMessage)
    BY <2>1
  <2> QED
    BY <2>1, <2>2
<1>3. link' \in [Conn -> LinkState] /\ \A d \in Conn : d # c => link'[d] = link[d]
  BY <1>1 DEF PollTyped, LinkState
<1>4. FdsTyped' /\ Array' /\ Ahead'
  BY <1>1, <1>2, StayKeeps, LeaveKeeps
<1>5. PollTyped'
  BY <1>1, <1>2, <1>3, <1>4 DEF PollTyped
<1>6. Queued'
  BY <1>1, <1>2, <1>3, QueueKeeps
<1> QED
  BY <1>4, <1>5, <1>6 DEF PollInv

\* poll() looks at every entry in use.
LEMMA PollKeeps ==
  ASSUME PollInv, Poll
  PROVE  PollInv'
<1>1. PollTyped /\ Queued /\ Array /\ Ahead /\ Logins
  BY DEF PollInv
<1>2. /\ fds \in Seq(PollFd) /\ Len(fds) \in Sizes /\ Len(fds) \in Nat
      /\ nfd \in 1..Len(fds) /\ up
  BY <1>1 DEF PollTyped, FdsTyped, Entry, Poll
<1>3. /\ fds' = [i \in 1..Len(fds) |->
           IF i <= nfd THEN [fds[i] EXCEPT !.rev = Ready(fds[i].fd)] ELSE fds[i]]
      /\ at' = 1 /\ nfd' = nfd
      /\ UNCHANGED <<service, sessions, pid>>
  BY DEF Poll, Entry
<1>4. \A i \in 1..nfd : fds[i].fd = Listener \/ fds[i].fd \in Conn
  BY <1>1, <1>2 DEF Array
<1>5. \A i \in 1..Len(fds) : fds'[i] \in PollFd
  <2> SUFFICES ASSUME NEW i \in 1..Len(fds)
               PROVE  fds'[i] \in PollFd
    OBVIOUS
  <2>1. fds[i] \in PollFd
    BY <1>2
  <2>2. Ready(fds[i].fd) \in BOOLEAN
    BY DEF Ready, Gone
  <2> HIDE DEF Ready
  <2> QED
    BY <1>3, <2>1, <2>2 DEF PollFd
<1>6. fds' \in Seq(PollFd) /\ Len(fds') = Len(fds)
  BY <1>2, <1>3, <1>5
<1>7. \A i \in 1..nfd : fds'[i].fd = fds[i].fd /\ (fds'[i].rev => Ready(fds[i].fd))
  <2> SUFFICES ASSUME NEW i \in 1..nfd
               PROVE  fds'[i].fd = fds[i].fd /\ (fds'[i].rev => Ready(fds[i].fd))
    OBVIOUS
  <2>1. i \in 1..Len(fds) /\ fds[i] \in PollFd
    BY <1>2
  <2> DEFINE r == Ready(fds[i].fd)
  <2>2. fds'[i] = [fds[i] EXCEPT !.rev = r]
    BY <1>2, <1>3, <2>1
  <2> HIDE DEF r
  <2>3. fds'[i].fd = fds[i].fd /\ fds'[i].rev = r
    BY <2>1, <2>2 DEF PollFd
  <2> QED
    BY <2>3 DEF r
<1>8. FdsTyped'
  BY <1>2, <1>3, <1>6 DEF FdsTyped, Entry
<1>9. PollTyped' /\ Queued' /\ Logins'
  BY <1>1, <1>3, <1>8 DEF PollTyped, Queued, Fresh, Gone, Logins, service
<1>10. 1 \in 1..nfd /\ \A i \in 2..nfd : i \in 1..nfd
  BY <1>2
<1>11. Array'
  <2>1. fds'[1].fd = Listener /\ \A i \in 2..nfd : fds'[i].fd = fds[i].fd
    BY <1>1, <1>2, <1>7, <1>10 DEF Array
  <2> QED
    BY <1>1, <1>2, <1>3, <2>1 DEF Array, service
<1>12. Ahead'
  <2>1. fds'[1].rev => Ready(Listener)
    BY <1>1, <1>2, <1>7, <1>10 DEF Array
  <2>2. ASSUME NEW i \in 2..nfd, fds'[i].rev
        PROVE  Fresh(fds'[i].fd)
    <3>1. fds'[i].fd = fds[i].fd /\ Ready(fds[i].fd) /\ fds[i].fd # Listener
      BY <1>1, <1>2, <1>7, <1>10, <2>2, PollAssumption DEF Array
    <3> QED
      BY <3>1 DEF Ready, Fresh
  <2> QED
    BY <1>3, <2>1, <2>2 DEF Ahead, Fresh, Gone, Ready, service
<1> QED
  BY <1>9, <1>11, <1>12 DEF PollInv

\* The entry is not ready, or is the listening socket when no descriptor is left.
LEMMA PassKeeps ==
  ASSUME PollInv, at # 0, Stay, UNCHANGED <<service, sessions, pid>>
  PROVE  PollInv'
<1>1. PollTyped /\ Queued /\ Array /\ Ahead /\ Logins
  BY DEF PollInv
<1>2. at \in 1..nfd /\ nfd \in Nat
  BY <1>1 DEF PollTyped, FdsTyped, Entry
<1>3. at' \in 0..nfd /\ at' # 1 /\ (at' # 0 => at' = at + 1) /\ fds' = fds /\ nfd' = nfd
  BY <1>2 DEF Stay, Onward
<1>4. PollTyped' /\ Queued' /\ Array' /\ Logins'
  BY <1>1, <1>3 DEF PollTyped, FdsTyped, Entry, Queued, Array, Logins, Fresh, Gone, service
<1>5. Ahead'
  <2>1. ASSUME up, NEW i \in 2..nfd, at' # 0, i >= at', fds[i].rev
        PROVE  Fresh(fds[i].fd)
    BY <1>1, <1>2, <1>3, <2>1 DEF Ahead
  <2> QED
    BY <1>3, <2>1 DEF Ahead, Fresh, Gone, service
<1> QED
  BY <1>4, <1>5 DEF PollInv

\* A connection leaves the queue, for the array or past its end.
LEMMA AcceptKeeps ==
  ASSUME PollInv, Accept
  PROVE  PollInv'
<1> DEFINE c == Head(backlog)
<1>1. PollTyped /\ Queued /\ Array /\ Ahead /\ Logins
  BY DEF PollInv
<1>2. /\ up /\ at # 0 /\ fds[at].rev /\ fds[at].fd = Listener
      /\ UNCHANGED <<program, client, c2s, s2c, sessions, pid>>
  BY DEF Accept
<1>3. /\ fds \in Seq(PollFd) /\ Len(fds) \in Sizes /\ Len(fds) \in Nat
      /\ nfd \in 1..Len(fds) /\ at \in 0..nfd
      /\ backlog \in Seq(Conn) /\ link \in [Conn -> LinkState]
  BY <1>1 DEF PollTyped, FdsTyped, Entry
<1>4. at = 1
  BY <1>1, <1>2, <1>3, PollAssumption DEF Array
<1>5. CASE left = 0 /\ Stay /\ UNCHANGED <<backlog, link, left, up>>
  BY <1>2, <1>5, PassKeeps DEF service
<1>6. CASE /\ backlog' = Tail(backlog)
           /\ link' = [link EXCEPT ![c] = "held"]
           /\ \/ /\ nfd < Len(fds)
                 /\ fds' = [fds EXCEPT ![nfd + 1].fd = c]
                 /\ nfd' = nfd + 1
                 /\ at' = at + 1
                 /\ UNCHANGED up
              \/ nfd = Len(fds) /\ up' = FALSE /\ UNCHANGED <<fds, nfd, at>>
  <2>1. backlog # <<>>
    BY <1>1, <1>2, <1>4 DEF Ahead
  <2>2. /\ c = backlog[1] /\ c \in Conn /\ 1 \in 1..Len(backlog) /\ Len(backlog) \in Nat
        /\ backlog' \in Seq(Conn) /\ Len(backlog') = Len(backlog) - 1
        /\ \A i \in 1..Len(backlog') : /\ i + 1 \in 1..Len(backlog)
                                       /\ backlog'[i] = backlog[i + 1]
    BY <1>3, <1>6, <2>1
  <2>3. /\ link[c] = "none" /\ client[c].pc # "new" /\ Fresh(c)
        /\ link'[c] = "held" /\ \A d \in Conn : d # c => link'[d] = link[d]
        /\ link' \in [Conn -> LinkState]
    BY <1>1, <1>3, <1>6, <2>2 DEF Queued, LinkState
  <2>4. \A i \in 1..Len(backlog') : backlog'[i] # c /\ backlog'[i] \in Conn
    BY <1>1, <1>3, <2>2 DEF Queued
  <2>5. Queued'
    <3>1. \A d \in Conn : client'[d].pc = "new" => link'[d] = "none"
      BY <1>1, <1>2, <2>3 DEF Queued
    <3>2. ASSUME NEW i \in 1..Len(backlog')
          PROVE  /\ link'[backlog'[i]] = "none" /\ client'[backlog'[i]].pc # "new"
                 /\ Fresh(backlog'[i])
      <4>1. /\ link[backlog[i + 1]] = "none" /\ client[backlog[i + 1]].pc # "new"
            /\ Fresh(backlog[i + 1])
        BY <1>1, <2>2 DEF Queued
      <4> QED
        BY <1>2, <2>2, <2>3, <2>4, <4>1
    <3>3. ASSUME NEW i \in 1..Len(backlog'), NEW j \in 1..Len(backlog'),
                 backlog'[i] = backlog'[j]
          PROVE  i = j
      <4>1. /\ i + 1 \in 1..Len(backlog) /\ j + 1 \in 1..Len(backlog)
            /\ backlog[i + 1] = backlog[j + 1]
        BY <2>2, <3>3
      <4>2. i + 1 = j + 1
        BY <1>1, <4>1 DEF Queued
      <4> QED
        BY <4>2
    <3> QED
      BY <1>2, <3>1, <3>2, <3>3 DEF Queued, Fresh, Gone
  <2>6. Logins'
    BY <1>1, <1>2 DEF Logins
  <2>7. CASE nfd = Len(fds) /\ up' = FALSE /\ UNCHANGED <<fds, nfd, at>>
    <3>1. PollTyped'
      BY <1>1, <1>2, <2>2, <2>3, <2>7 DEF PollTyped, FdsTyped, Entry
    <3> QED
      BY <2>5, <2>6, <2>7, <3>1 DEF PollInv, Array, Ahead
  <2>8. CASE /\ nfd < Len(fds)
             /\ fds' = [fds EXCEPT ![nfd + 1].fd = c]
             /\ nfd' = nfd + 1
             /\ at' = at + 1
             /\ UNCHANGED up
    <3>1. nfd + 1 \in 1..Len(fds) /\ fds[nfd + 1] \in PollFd
      BY <1>3, <2>8
    <3>2. /\ fds' \in Seq(PollFd) /\ Len(fds') = Len(fds) /\ fds'[nfd + 1].fd = c
          /\ \A i \in 1..nfd : fds'[i] = fds[i]
      <4> DEFINE new == [fds[nfd + 1] EXCEPT !.fd = c]
      <4>1. new \in PollFd /\ new.fd = c
        BY <2>2, <3>1 DEF PollFd
      <4>2. fds' = [fds EXCEPT ![nfd + 1] = new]
        BY <2>8
      <4> HIDE DEF new, c
      <4> QED
        BY <1>3, <3>1, <4>1, <4>2
    <3>3. PollTyped'
      BY <1>1, <1>2, <1>3, <1>4, <2>2, <2>3, <2>8, <3>1, <3>2 DEF PollTyped, FdsTyped, Entry
    <3>4. \A i \in 2..nfd' : \/ i = nfd + 1 /\ fds'[i].fd = c
                             \/ i \in 2..nfd /\ i # nfd + 1 /\ fds'[i] = fds[i]
      BY <1>3, <2>8, <3>2
    <3>5. \A i \in 2..nfd : /\ fds[i].fd \in Conn /\ link[fds[i].fd] = "held"
                            /\ fds[i].fd # c
      BY <1>1, <1>2, <2>3 DEF Array
    <3>6. Array'
      <4>1. fds'[1].fd = Listener
        BY <1>1, <1>2, <1>3, <3>2 DEF Array
      <4>2. \A i \in 2..nfd' : fds'[i].fd \in Conn /\ link'[fds'[i].fd] = "held"
        BY <2>2, <2>3, <3>4, <3>5
      <4>3. ASSUME NEW d \in Conn, link'[d] = "held"
            PROVE  \E i \in 2..nfd' : fds'[i].fd = d
        <5>1. CASE d = c
          <6>1. nfd + 1 \in 2..nfd'
            BY <1>3, <2>8
          <6> QED
            BY <3>2, <5>1, <6>1
        <5>2. CASE d # c
          <6>1. PICK i \in 2..nfd : fds[i].fd = d
            BY <1>1, <1>2, <2>3, <4>3, <5>2 DEF Array
          <6>2. i \in 2..nfd' /\ i \in 1..nfd
            BY <1>3, <2>8
          <6> QED
            BY <3>2, <6>1, <6>2
        <5> QED
          BY <5>1, <5>2
      <4>4. \A i, j \in 2..nfd' : fds'[i].fd = fds'[j].fd => i = j
        BY <1>1, <1>2, <3>4, <3>5 DEF Array
      <4> QED
        BY <4>1, <4>2, <4>3, <4>4 DEF Array
    <3>7. ASSUME NEW i \in 2..nfd', fds'[i].rev
          PROVE  Fresh(fds'[i].fd)
      <4>1. CASE i = nfd + 1
        BY <2>3, <3>2, <4>1
      <4>2. CASE i \in 2..nfd /\ fds'[i] = fds[i]
        BY <1>1, <1>2, <1>4, <3>7, <4>2 DEF Ahead
      <4> QED
        BY <3>4, <4>1, <4>2
    <3>8. Ahead'
      BY <1>2, <1>4, <2>8, <3>7 DEF Ahead, Fresh, Gone
    <3> QED
      BY <2>5, <2>6, <3>3, <3>6, <3>8 DEF PollInv
  <2> QED
    BY <1>6, <2>7, <2>8
<1> QED
  BY <1>5, <1>6 DEF Accept

\* The steps that leave answers and sessions as they are.
LEMMA SilentKeeps ==
  ASSUME PollInv, NEW c \in Conn, PollHangup(c) \/ NoBytes(c) \/ PollPiped(c)
  PROVE  PollInv'
<1>1. PollTyped /\ Queued /\ Array /\ Ahead /\ Logins
  BY DEF PollInv
<1>2. CASE PollHangup(c) \/ NoBytes(c)
  <2>1. /\ At(c) /\ UNCHANGED <<program, client, backlog, s2c, up, sessions, pid>>
        /\ LeaveArray /\ \E s \in {"closed", "dropped"} : link' = [link EXCEPT ![c] = s]
        /\ \/ c2s' = [c2s EXCEPT ![c] = <<>>]
           \/ c2s[c] # <<>> /\ c2s' = [c2s EXCEPT ![c] = Tail(@)]
    BY <1>2 DEF PollHangup, NoBytes, Close
  <2>2. /\ s2c' \in [Conn -> Seq(Answer)] /\ sessions' \in Sessions /\ Logins'
    BY <1>1, <2>1 DEF PollTyped, Logins
  <2> QED
    BY <2>1, <2>2, EntryKeeps
<1>3. CASE PollPiped(c)
  BY <1>1, <1>3 DEF PollPiped, PollInv, PollTyped, FdsTyped, Entry, Queued, Fresh, Gone,
                    Array, Ahead, Logins
<1> QED
  BY <1>2, <1>3

\* An entry that is answered, and stays or leaves.
LEMMA AnswerKeeps ==
  ASSUME PollInv, NEW c \in Conn, At(c), UNCHANGED <<program, client, backlog, up, pid>>,
         NEW a \in Answer, Sent(c, a), sessions' \in Sessions, Apart(sessions'),
         \A q \in Pid : LoggedIn(q, sessions) => LoggedIn(q, sessions'),
         a.say = "in" => LoggedIn(pid[c], sessions'),
         c2s[c] # <<>>,
         (Took(c) /\ Stay /\ UNCHANGED link) \/ \E n \in 0..3 : Close(c, n)
  PROVE  PollInv'
<1>1. PollTyped /\ Logins
  BY DEF PollInv
<1>2. s2c' \in [Conn -> Seq(Answer)] /\ Logins'
  BY <1>1, SentKeeps
<1>3. /\ \/ Stay /\ link' = link
         \/ LeaveArray /\ \E s \in {"closed", "dropped"} : link' = [link EXCEPT ![c] = s]
      /\ \/ c2s' = [c2s EXCEPT ![c] = <<>>]
         \/ c2s[c] # <<>> /\ c2s' = [c2s EXCEPT ![c] = Tail(@)]
  BY DEF Took, Close
<1> QED
  BY <1>2, <1>3, EntryKeeps

\* keys_command answers a key.
LEMMA KeyKeeps ==
  ASSUME PollInv, NEW c \in Conn, Key(c)
  PROVE  PollInv'
<1> DEFINE k == Head(c2s[c])
<1>1. PICK n \in 0..3, say \in {"empty", "text"} :
        /\ Sent(c, Saying(k, say))
        /\ \/ (say = "empty" \/ Gone(c)) /\ Close(c, n)
           \/ say = "text" /\ Stay /\ Took(c) /\ left' = left - n /\ UNCHANGED link
  BY DEF Key
<1>2. /\ At(c) /\ c2s[c] # <<>> /\ k \in Keys
      /\ UNCHANGED <<program, client, backlog, up, sessions, pid>>
  BY DEF Key
<1>3. Saying(k, say) \in Answer /\ Saying(k, say).say # "in"
  BY <1>2 DEF Saying, Answer
<1>4. sessions' \in Sessions /\ Apart(sessions')
  BY <1>2 DEF PollInv, PollTyped, Logins
<1>5. (Took(c) /\ Stay /\ UNCHANGED link) \/ \E m \in 0..3 : Close(c, m)
  BY <1>1
<1>6. Sent(c, Saying(k, say))
  BY <1>1
<1>7. \A q \in Pid : LoggedIn(q, sessions) => LoggedIn(q, sessions')
  BY <1>2
<1> HIDE DEF k
<1> QED
  BY <1>2, <1>3, <1>4, <1>5, <1>6, <1>7, AnswerKeeps

\* protocol_lab_3 runs a command in the session of the process id.
LEMMA CommandKeeps ==
  ASSUME PollInv, NEW c \in Conn, Command(c)
  PROVE  PollInv'
<1> DEFINE i == FindSession(pid[c])
           ss == SessionsWith(i, pid[c])
           k == Head(c2s[c])
<1>1. PollTyped /\ Logins /\ pid[c] \in Pid
  BY DEF PollInv, PollTyped
<1>2. /\ At(c) /\ c2s[c] # <<>> /\ k \in CommandLines
      /\ UNCHANGED <<program, client, backlog, up, pid>>
  BY DEF Command
<1>3. \A say \in {"empty", "in", "exit", "text"} :
        Saying(k, say) \in Answer /\ Saying(k, say).say = say
  BY <1>2 DEF Saying, Answer
<1>4. CASE NoSession(c)
  <2>1. /\ Sent(c, Saying(k, "text")) /\ Took(c) /\ Stay
        /\ UNCHANGED <<link, sessions>>
    BY <1>4 DEF NoSession, Answers
  <2>2. sessions' \in Sessions /\ Apart(sessions')
    BY <1>1, <2>1 DEF PollTyped, Logins
  <2>3. \A q \in Pid : LoggedIn(q, sessions) => LoggedIn(q, sessions')
    BY <2>1
  <2> HIDE DEF k
  <2> QED
    BY <1>2, <1>3, <2>1, <2>2, <2>3, AnswerKeeps
<1>5. CASE i # 0 /\ (Login(c, i, ss) \/ Quit(c, i, ss) \/ Other(c, i, ss))
  <2>1. /\ i \in SessionSlot /\ ss \in Sessions /\ Apart(ss) /\ ss[i].pid = pid[c]
        /\ \A q \in Pid : LoggedIn(q, sessions) => LoggedIn(q, ss)
    BY <1>1, <1>5, SessionFound
  <2>2. CASE sessions' = ss /\ \E say \in {"empty", "exit", "text"} :
               /\ Sent(c, Saying(k, say))
               /\ (Took(c) /\ Stay /\ UNCHANGED link) \/ Close(c, 0)
    <3>1. PICK say \in {"empty", "exit", "text"} :
            /\ Sent(c, Saying(k, say))
            /\ (Took(c) /\ Stay /\ UNCHANGED link) \/ \E n \in 0..3 : Close(c, n)
      BY <2>2
    <3>2. /\ sessions' \in Sessions /\ Apart(sessions')
          /\ \A q \in Pid : LoggedIn(q, sessions) => LoggedIn(q, sessions')
      BY <2>1, <2>2
    <3>3. Saying(k, say) \in Answer /\ Saying(k, say).say # "in"
      BY <1>3
    <3> HIDE DEF k, ss, i
    <3> QED
      BY <1>2, <3>1, <3>2, <3>3, AnswerKeeps
  <2>3. CASE /\ sessions' = [ss EXCEPT ![i].user = TRUE]
             /\ Sent(c, Saying(k, "in")) /\ Took(c) /\ Stay /\ UNCHANGED link
    <3> HIDE DEF ss, i
    <3>1. /\ sessions' \in Sessions
          /\ \A j \in SessionSlot : /\ sessions'[j].pid = ss[j].pid
                                    /\ ss[j].user => sessions'[j].user
          /\ sessions'[i].user
      BY <2>1, <2>3 DEF Sessions, Session
    <3>2. Apart(sessions')
      BY <2>1, <3>1 DEF Apart
    <3>3. /\ \A q \in Pid : LoggedIn(q, sessions) => LoggedIn(q, sessions')
          /\ LoggedIn(pid[c], sessions')
      BY <2>1, <3>1 DEF LoggedIn
    <3>4. Saying(k, "in") \in Answer
      BY <1>3
    <3> HIDE DEF k
    <3> QED
      BY <1>2, <2>3, <3>1, <3>2, <3>3, <3>4, AnswerKeeps
  <2>4. CASE Login(c, i, ss)
    <3> HIDE DEF ss, i
    <3> QED
      BY <2>2, <2>3, <2>4 DEF Login, Answers
  <2>5. CASE Quit(c, i, ss)
    <3> HIDE DEF ss, i
    <3>1. Sent(c, Saying(k, "exit"))
      BY <2>5 DEF Quit
    <3> QED
      BY <2>2, <2>5, <3>1 DEF Quit
  <2>6. CASE Other(c, i, ss)
    <3> HIDE DEF ss, i
    <3> QED
      BY <2>2, <2>6 DEF Other, Answers
  <2> QED
    BY <1>5, <2>4, <2>5, <2>6
<1> QED
  BY <1>4, <1>5 DEF Command

-----------------------------------------------------------------------------
(* The invariant *)

LEMMA PollBegins == ASSUME PollInit PROVE PollInv
<1>1. /\ client = [c \in Conn |-> NewClient] /\ backlog = <<>>
      /\ link = [c \in Conn |-> "none"]
      /\ c2s = [c \in Conn |-> <<>>] /\ s2c = [c \in Conn |-> <<>>]
      /\ program \in PollPrograms
  BY DEF PollInit, ServiceStart
<1>2. PICK n \in Sizes, rev \in BOOLEAN : fds = [j \in 1..n |->
        IF j = 1 THEN [fd |-> Listener, rev |-> FALSE] ELSE [fd |-> None, rev |-> rev]]
  BY DEF PollInit, PollStart, Polls
<1>3. /\ nfd = 1 /\ at = 0
      /\ sessions = [j \in SessionSlot |-> [pid |-> None, user |-> FALSE]]
  BY DEF PollInit, PollStart
<1>4. pid \in PidsOf
  <2>1. pid \in PidsOf \/ pid = CHOOSE f \in PidsOf : TRUE
    BY DEF PollInit, PollStart
  <2> QED
    BY <2>1, PollAssumption
<1>5. pid \in [Conn -> Pid]
  BY <1>4, PollAssumption
<1>6. n \in Nat \ {0}
  BY PollAssumption
<1>7. FdsTyped
  <2>1. fds \in Seq(PollFd) /\ Len(fds) = n
    BY <1>2, <1>6 DEF PollFd
  <2> QED
    BY <1>3, <1>6, <2>1 DEF FdsTyped, Entry
<1>8. NewClient \in ClientState /\ NewClient.pc = "new" /\ ~NewClient.logged
  BY DEF NewClient, ClientState
<1>9. PollTyped
  BY <1>1, <1>3, <1>5, <1>7, <1>8 DEF PollTyped, LinkState, Sessions, Session
<1>10. Queued
  BY <1>1 DEF Queued
<1>11. Array /\ Ahead
  BY <1>1, <1>2, <1>3, <1>6 DEF Array, Ahead
<1>12. Logins
  <2>1. Apart(sessions)
    BY <1>3 DEF Apart
  <2>2. \A c \in Conn : ~client[c].logged /\ Len(s2c[c]) = 0
    BY <1>1, <1>8
  <2> QED
    BY <2>1, <2>2 DEF Logins
<1> QED
  BY <1>9, <1>10, <1>11, <1>12 DEF PollInv

LEMMA PollInductive == ASSUME PollInv, [PollNext]_pvars PROVE PollInv'
<1>1. CASE UNCHANGED pvars
  BY <1>1 DEF pvars, service, PollInv, PollTyped, FdsTyped, Entry, Queued, Fresh, Gone,
              Array, Ahead, Logins
<1>2. CASE NotReady
  BY <1>2, PassKeeps DEF NotReady
<1>3. ASSUME NEW c \in Conn, (ClientStep(c) \/ UserStep(c)) /\ Elsewhere
      PROVE  PollInv'
  BY <1>3, ClientsKeep
<1> QED
  BY <1>1, <1>2, <1>3, PollKeeps, AcceptKeeps, SilentKeeps, KeyKeeps, CommandKeeps
  DEF PollNext, PollStep

\* The invariant of both services.
THEOREM PollInvariance == PollSpec => []PollInv
  BY PollBegins, PollInductive, PTL DEF PollSpec

-----------------------------------------------------------------------------
(* The theorems *)

\* The server's variables keep their types, whatever the clients send and when
\* they leave.
THEOREM PollTypeCorrect == PollSpec => []PollTypeOK
<1>1. PollInv => PollTypeOK
  BY DEF PollInv, PollTyped, FdsTyped, PollTypeOK, Sessions
<1> QED
  BY <1>1, PollInvariance, PTL

\* The array of pollfd holds each open connection exactly once, through all
\* removals in the middle of the loop: nobody is skipped for ever, served twice
\* or closed for another.
THEOREM ArrayKept == PollSpec => []ArrayExact
<1>1. PollInv => ArrayExact
  <2> SUFFICES ASSUME PollInv, up
               PROVE  /\ fds[1].fd = Listener
                      /\ {fds[i].fd : i \in 2..nfd} = {c \in Conn : link[c] = "held"}
                      /\ \A i, j \in 2..nfd : fds[i].fd = fds[j].fd => i = j
    BY DEF ArrayExact
  <2> QED
    BY DEF PollInv, Array
<1> QED
  BY <1>1, PollInvariance, PTL

\* The revents that a new entry finds in its place can stop the server only in
\* read() of a client that has not typed anything yet.
THEOREM BlockedByNew == PollSpec => []BlockedOnlyByNew
<1>1. PollInv => BlockedOnlyByNew
  <2> SUFFICES ASSUME PollInv, NEW c \in Conn, At(c), c2s[c] = <<>>, ~Gone(c)
               PROVE  client[c].pc = "first"
    BY DEF BlockedOnlyByNew
  <2>1. PollTyped /\ Array /\ Ahead
    BY DEF PollInv
  <2>2. at \in 2..nfd /\ nfd \in Nat /\ up /\ fds[at].fd = c
    BY <2>1, AtFacts
  <2>3. fds[at].rev
    BY DEF At
  <2> QED
    BY <2>1, <2>2, <2>3 DEF Ahead, Fresh
<1> QED
  BY <1>1, PollInvariance, PTL

\* However many clients claim one process id, and whoever of them quits, a
\* client that was told "Login successful" finds a session with a user.
THEOREM LoginKept == PollSpec => []LoginRemembered
<1>1. PollInv => LoginRemembered
  <2> SUFFICES ASSUME PollInv, NEW c \in Conn, client[c].logged
               PROVE  /\ FindSession(pid[c]) # 0
                      /\ sessions[FindSession(pid[c])].user
    BY DEF LoginRemembered
  <2> DEFINE own == {i \in SessionSlot : sessions[i].pid = pid[c]}
  <2>1. PollTyped /\ Logins /\ pid[c] \in Pid /\ pid[c] # None
    BY PollAssumption DEF PollInv, PollTyped
  <2>2. PICK i \in SessionSlot : sessions[i].pid = pid[c] /\ sessions[i].user
    BY <2>1 DEF Logins, LoggedIn
  <2>3. own = {i}
    BY <2>1, <2>2 DEF Logins, Apart
  <2>4. i \in Nat \ {0}
    BY PollAssumption DEF SessionSlot
  <2>5. First(own) = i
    BY <2>3, <2>4 DEF First
  <2> QED
    BY <2>2, <2>3, <2>4, <2>5 DEF FindSession
<1> QED
  BY <1>1, PollInvariance, PTL

\* No connection is closed for what another client did: not by an entry that
\* takes the place of another, nor by a shared process id.
THEOREM ClosedRightly == PollSpec => ClosedForCause
<1> DEFINE Cause(c) ==
      \/ Gone(c)
      \/ c2s[c] # <<>> /\ Head(c2s[c]) \in {"zero", "half", "quit"}
      \/ \E a \in {s2c'[c][i] : i \in 1..Len(s2c'[c])} : a.say = "empty"
<1>1. ASSUME PollInv, [PollNext]_pvars, NEW c \in Conn, link[c] = "held", link'[c] = "closed"
      PROVE  Cause(c)
  <2>1. link \in [Conn -> LinkState] /\ s2c \in [Conn -> Seq(Answer)]
    BY <1>1 DEF PollInv, PollTyped
  <2>2. link' # link
    BY <1>1
  <2>3. CASE Accept
    <3>1. link' = link \/ link' = [link EXCEPT ![Head(backlog)] = "held"]
      BY <2>3 DEF Accept
    <3> QED
      BY <1>1, <2>1, <3>1
  <2>4. ASSUME NEW d \in Conn, NEW n \in 0..3, Close(d, n) PROVE d = c
    BY <1>1, <2>1, <2>4 DEF Close
  <2>5. ASSUME NEW d \in Conn, PollHangup(d) PROVE Cause(c)
    BY <2>4, <2>5 DEF PollHangup
  <2>6. ASSUME NEW d \in Conn, NoBytes(d) PROVE Cause(c)
    <3>1. Close(d, 0) \/ link' = [link EXCEPT ![d] = "dropped"]
      BY <2>6 DEF NoBytes
    <3>2. d = c
      BY <1>1, <2>1, <2>4, <3>1
    <3> QED
      BY <2>6, <3>2 DEF NoBytes
  <2>7. ASSUME NEW d \in Conn, Key(d) PROVE Cause(c)
    <3>1. PICK n \in 0..3, say \in {"empty", "text"} :
            /\ Sent(d, Saying(Head(c2s[d]), say))
            /\ (say = "empty" \/ Gone(d)) /\ Close(d, n)
      BY <2>2, <2>7 DEF Key
    <3>2. d = c
      BY <2>4, <3>1
    <3>3. CASE ~Gone(c)
      <4> DEFINE a == Saying(Head(c2s[c]), say)
             b == Garbled(a)
      <4>1. /\ s2c' = [s2c EXCEPT ![c] = Append(@, a)] \/ s2c' = [s2c EXCEPT ![c] = <<b>>]
            /\ a.say = "empty" /\ b.say = "empty"
        BY <3>1, <3>2, <3>3 DEF Sent, Saying, Garbled
      <4> HIDE DEF a, b
      <4>2. s2c[c] \in Seq(Answer)
        BY <2>1
      <4>3. s2c'[c] = Append(s2c[c], a) \/ s2c'[c] = <<b>>
        BY <2>1, <4>1
      <4>4. /\ Len(s2c'[c]) \in 1..Len(s2c'[c])
            /\ s2c'[c][Len(s2c'[c])] = a \/ s2c'[c][Len(s2c'[c])] = b
        <5>1. CASE s2c'[c] = Append(s2c[c], a)
          BY <4>2, <5>1
        <5>2. CASE s2c'[c] = <<b>>
          BY <5>2
        <5> QED
          BY <4>3, <5>1, <5>2
      <4> QED
        BY <4>1, <4>4
    <3> QED
      BY <3>3
  <2>8. ASSUME NEW d \in Conn, Command(d) PROVE Cause(c)
    <3>1. PICK i, ss : Quit(d, i, ss)
      BY <2>2, <2>8 DEF Command, NoSession, Login, Other, Answers
    <3> QED
      BY <2>4, <2>8, <3>1 DEF Quit, Command
  <2>9. ASSUME NEW d \in Conn, ClientStep(d) \/ UserStep(d) PROVE FALSE
    BY <2>2, <2>9 DEF ClientStep, UserStep, ReadAnswer, ReadPart, ReadEof, Connect, Type,
                      TypeNothing, Leave
  <2>10. ~UNCHANGED pvars /\ ~Poll /\ ~NotReady /\ \A d \in Conn : ~PollPiped(d)
    BY <2>2 DEF pvars, service, Poll, NotReady, PollPiped
  <2> HIDE DEF Cause
  <2> QED
    BY <1>1, <2>3, <2>5, <2>6, <2>7, <2>8, <2>9, <2>10 DEF PollNext, PollStep
<1>2. PollInv /\ [PollNext]_pvars =>
        [\A c \in Conn : link[c] = "held" /\ link'[c] = "closed" =>
           \/ Gone(c)
           \/ c2s[c] # <<>> /\ Head(c2s[c]) \in {"zero", "half", "quit"}
           \/ \E a \in {s2c'[c][i] : i \in 1..Len(s2c'[c])} : a.say = "empty"]_link
  BY <1>1
<1> QED
  BY <1>2, PollInvariance, PTL DEF PollSpec, ClosedForCause
=============================================================================
