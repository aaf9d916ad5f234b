---------------------------- MODULE Session_proof ----------------------------
(***************************************************************************)
(* The dialogue of a session, for any connections, users, accounts,         *)
(* commands, numbers of open files and failures.                            *)
(***************************************************************************)
EXTENDS Session, SequenceTheorems, TLAPS

\* A LOGIN_REQ header and its body are never apart.
Framing(s) ==
  \A i \in 1..Len(s) : s[i] = Header("LOGIN_REQ") =>
    i + 1 \in 1..Len(s) /\ s[i + 1].u = "request"

(* Of one connection: its client k, its handler h, what is on the way to the *)
(* handler and what is on the way to the client.                             *)

\* A process that is gone has left nothing.
Cleared(k, h, in, out) ==
  /\ k.pc = "off" => k = ClientOff /\ out = <<>>
  /\ ~h.up => h = HandlerNone /\ in = <<>>

\* The commands whose answers change is_logged_in.
Asking(pc) == pc \in {"reply", "logout"}

\* Only the command that waits has such a request on its way, as the last.
Last(pc, in) ==
  /\ \A i \in 1..Len(in) : in[i] = Header("LOGIN_REQ") => pc = "reply" /\ Len(in) = i + 1
  /\ \A i \in 1..Len(in) : in[i] = Header("LOGOUT_REQ") => pc = "logout" /\ Len(in) = i

Clean(out) == \A i \in 1..Len(out) : out[i] # Header("LOGIN_RES")

\* The command that waits, alone on its way, and its refusal.
Asked(pc, in) ==
  \/ pc \in {"prompt", "astray"} /\ in = <<>>
  \/ pc = "reply" /\ \E a \in Account, new \in BOOLEAN :
                       in = Framed("LOGIN_REQ", LoginBody(a, new))
  \/ pc = "logout" /\ in = <<Header("LOGOUT_REQ")>>
  \/ pc = "list" /\ in = <<Header("LIST_REQ")>>
  \/ pc = "upload" /\ in = Framed("UPL_REQ", FileName)
  \/ pc = "download" /\ in = Framed("DWL_REQ", FileName)

Denied(pc, out) ==
  \/ pc = "list" /\ out = Framed("LIST_RES", Listing(1))
  \/ pc = "upload" /\ out = Framed("UPL_RES", Result(1))
  \/ pc = "download" /\ out = Framed("DWL_RES", Result(1))

\* Logged in on both sides: transfers may have left anything on the streams.
Inside(k, h, in, out) == h.user # Nobody /\ k.logged /\ Last(k.pc, in) /\ Clean(out)

\* On neither side: the streams hold one question, or one answer.
Outside(k, h, in, out) ==
  /\ h.user = Nobody /\ ~k.logged /\ h.mode = "dispatch" /\ ~h.torn
  /\ \/ Asked(k.pc, in) /\ out = <<>>
     \/ in = <<>> /\ Denied(k.pc, out)

\* The answer that says what has become of the handler's flag.
Told(k, h, in, out) ==
  /\ Asking(k.pc) /\ in = <<>> /\ h.mode = "dispatch" /\ ~h.torn
  /\ \E st \in {0, 1} :
       /\ out = Framed("LOGIN_RES", Result(st))
       /\ h.user # Nobody <=> IF k.pc = "reply" THEN k.logged \/ st = 0
                              ELSE k.logged /\ st # 0

\* What the client will take for another answer.
Stray(k, out) == Asking(k.pc) /\ out # <<>> /\ out[1] # Header("LOGIN_RES")

InStep(k, h, in, out) ==
  k.pc # "off" /\ h.up /\ k.sync =>
    \/ Stray(k, out) \/ Inside(k, h, in, out) \/ Outside(k, h, in, out)
    \/ Told(k, h, in, out)

Right(k, h, in, out) ==
  Framing(in) /\ Cleared(k, h, in, out) /\ InStep(k, h, in, out)

IInv == TypeOK /\ \A c \in Conn : Right(client[c], handler[c], c2s[c], s2c[c])

-----------------------------------------------------------------------------
(* Units and streams *)

\* What is sent is a unit of its stream, and headers and bodies differ.
LEMMA Units ==
  /\ \A t \in Bodies \cup Bare : Header(t) \in ToServer
  /\ \A a \in Account, new \in BOOLEAN : LoginBody(a, new) \in ToServer
  /\ FileName \in ToServer /\ Data \in ToServer /\ Ack \in ToServer
  /\ \A st \in {0, 1} : Result(st) \in ToClient /\ Listing(st) \in ToClient
  /\ Data \in ToClient /\ Ack \in ToClient
  /\ \A t \in {"LOGIN_RES", "LIST_RES", "UPL_RES", "UPL_ACK", "DWL_RES", "DWL_CHUNK"} :
       Header(t) \in ToClient
BY DEF Header, LoginBody, Result, Listing, ToServer, ToClient

LEMMA Kinds ==
  /\ \A t : Header(t).u = "header" /\ Header(t).type = t
  /\ \A a, new : LoginBody(a, new).u = "request"
  /\ FileName.u = "file" /\ Data.u = "data" /\ Ack.u = "ack"
  /\ \A st : Result(st).u = "result" /\ Result(st).status = st
  /\ \A st : Listing(st).u = "listing" /\ Listing(st).status = st
BY DEF Header, LoginBody, FileName, Data, Ack, Result, Listing

LEMMA Frames ==
  ASSUME NEW t, NEW body
  PROVE  /\ Framed(t, body)[1] = Header(t) /\ Framed(t, body)[2] = body
         /\ Len(Framed(t, body)) = 2 /\ Framed(t, body) # <<>>
BY DEF Framed

\* The unit after a LOGIN_REQ header is the body of a request.
LEMMA BodyFollows ==
  ASSUME NEW s \in Seq(ToServer), Framing(s), s # <<>>, s[1] = Header("LOGIN_REQ")
  PROVE  2 \in 1..Len(s) /\ s[2].account \in Account /\ s[2].create \in BOOLEAN
<1>1. 1 \in 1..Len(s)
  BY EmptySeq
<1>2. 2 \in 1..Len(s) /\ s[2].u = "request"
  BY <1>1 DEF Framing
<1>3. s[2] \in ToServer
  BY <1>2
<1>4. s[2] \notin {FileName, Data, Ack}
  BY <1>2, Kinds
<1> QED
  BY <1>2, <1>3, <1>4 DEF ToServer

\* Taking units off a stream keeps what is said of all of its rest.
LEMMA Dropped ==
  ASSUME NEW s \in Seq(ToServer), s # <<>>, NEW n \in {1, 2}
  PROVE  LET t == SubSeq(s, n + 1, Len(s)) IN
         /\ t \in Seq(ToServer)
         /\ Framing(s) => Framing(t)
         /\ \A pc : Last(pc, s) => Last(pc, t)
         /\ Len(s) = n => t = <<>>
<1> DEFINE t == SubSeq(s, n + 1, Len(s))
<1>1. Len(s) \in Nat \ {0}
  BY EmptySeq
<1>2. \A i \in n + 1..Len(s) : s[i] \in ToServer
  OBVIOUS
<1>3. /\ t \in Seq(ToServer) /\ \A i \in 1..Len(t) : t[i] = s[i + n]
      /\ Len(t) = IF n <= Len(s) THEN Len(s) - n ELSE 0
  BY <1>1, <1>2, SubSeqProperties
<1> HIDE DEF t
<1>4. Framing(s) => Framing(t)
  BY <1>1, <1>3 DEF Framing
<1>5. ASSUME NEW pc, Last(pc, s) PROVE Last(pc, t)
  <2>1. ASSUME NEW i \in 1..Len(t)
        PROVE  /\ i + n \in 1..Len(s) /\ t[i] = s[i + n]
               /\ Len(s) = i + n + 1 => Len(t) = i + 1
               /\ Len(s) = i + n => Len(t) = i
    BY <1>1, <1>3
  <2>2. \A i \in 1..Len(t) : t[i] = Header("LOGIN_REQ") => pc = "reply" /\ Len(t) = i + 1
    BY <1>5, <2>1 DEF Last
  <2>3. \A i \in 1..Len(t) : t[i] = Header("LOGOUT_REQ") => pc = "logout" /\ Len(t) = i
    BY <1>5, <2>1 DEF Last
  <2> QED
    BY <2>2, <2>3 DEF Last
<1>6. Len(s) = n => t = <<>>
  BY <1>1, <1>3, EmptySeq
<1> QED
  BY <1>3, <1>4, <1>5, <1>6 DEF t

\* Putting units on a stream.
LEMMA Added ==
  ASSUME NEW s \in Seq(ToServer), Framing(s), NEW q \in Seq(ToServer), Framing(q)
  PROVE  /\ s \o q \in Seq(ToServer) /\ Framing(s \o q)
         /\ \A pc, pd : Last(pc, s) /\ ~Asking(pc) /\ Last(pd, q) => Last(pd, s \o q)
<1> DEFINE r == s \o q
<1>1. /\ r \in Seq(ToServer) /\ Len(r) = Len(s) + Len(q)
      /\ \A i \in 1..Len(r) : r[i] = IF i <= Len(s) THEN s[i] ELSE q[i - Len(s)]
  BY ConcatProperties
<1> HIDE DEF r
<1>2. Len(s) \in Nat /\ Len(q) \in Nat
  OBVIOUS
<1>3. Framing(r)
  <2> SUFFICES ASSUME NEW i \in 1..Len(r), r[i] = Header("LOGIN_REQ")
               PROVE  i + 1 \in 1..Len(r) /\ r[i + 1].u = "request"
    BY DEF Framing
  <2>1. CASE i <= Len(s)
    <3>1. i \in 1..Len(s) /\ s[i] = Header("LOGIN_REQ")
      BY <1>1, <1>2, <2>1
    <3>2. i + 1 \in 1..Len(s) /\ s[i + 1].u = "request"
      BY <3>1 DEF Framing
    <3> QED
      BY <1>1, <1>2, <3>2
  <2>2. CASE ~(i <= Len(s))
    <3>1. i - Len(s) \in 1..Len(q) /\ q[i - Len(s)] = Header("LOGIN_REQ")
      BY <1>1, <1>2, <2>2
    <3>2. i - Len(s) + 1 \in 1..Len(q) /\ q[i - Len(s) + 1].u = "request"
      BY <3>1 DEF Framing
    <3> QED
      BY <1>1, <1>2, <2>2, <3>2
  <2> QED
    BY <2>1, <2>2
<1>4. ASSUME NEW pc, NEW pd, Last(pc, s), ~Asking(pc), Last(pd, q) PROVE Last(pd, r)
  <2>1. \A i \in 1..Len(s) : s[i] # Header("LOGIN_REQ") /\ s[i] # Header("LOGOUT_REQ")
    BY <1>4 DEF Last, Asking
  <2>2. ASSUME NEW i \in 1..Len(r),
               r[i] = Header("LOGIN_REQ") \/ r[i] = Header("LOGOUT_REQ")
        PROVE  \E j \in 1..Len(q) :
                 /\ r[i] = q[j]
                 /\ Len(q) = j + 1 => Len(r) = i + 1
                 /\ Len(q) = j => Len(r) = i
    <3>1. ~(i <= Len(s))
      BY <1>1, <1>2, <2>1, <2>2
    <3>2. i - Len(s) \in 1..Len(q) /\ r[i] = q[i - Len(s)]
      BY <1>1, <1>2, <3>1
    <3>3. /\ Len(q) = i - Len(s) + 1 => Len(r) = i + 1
          /\ Len(q) = i - Len(s) => Len(r) = i
      BY <1>1, <1>2
    <3> QED
      BY <3>2, <3>3
  <2>3. \A i \in 1..Len(r) : r[i] = Header("LOGIN_REQ") => pd = "reply" /\ Len(r) = i + 1
    BY <1>4, <2>2 DEF Last
  <2>4. \A i \in 1..Len(r) : r[i] = Header("LOGOUT_REQ") => pd = "logout" /\ Len(r) = i
    BY <1>4, <2>2 DEF Last
  <2> QED
    BY <2>3, <2>4 DEF Last
<1> QED
  BY <1>1, <1>3, <1>4 DEF r

LEMMA NothingThere ==
  /\ <<>> \in Seq(ToServer) /\ <<>> \in Seq(ToClient) /\ Len(<<>>) = 0
  /\ Framing(<<>>) /\ Clean(<<>>) /\ \A pc : Last(pc, <<>>)
BY DEF Framing, Clean, Last

LEMMA OneSent ==
  ASSUME NEW t \in Bare, NEW pc, t = "LOGOUT_REQ" => pc = "logout"
  PROVE  LET q == <<Header(t)>> IN q \in Seq(ToServer) /\ Framing(q) /\ Last(pc, q)
<1> DEFINE q == <<Header(t)>>
<1>1. Header(t) \in ToServer /\ Header(t) # Header("LOGIN_REQ")
      /\ (Header(t) = Header("LOGOUT_REQ") => t = "LOGOUT_REQ")
  BY Units, Kinds DEF Bare
<1>2. q \in Seq(ToServer) /\ Len(q) = 1 /\ q[1] = Header(t)
  BY <1>1
<1> HIDE DEF q
<1>3. \A i \in 1..Len(q) : i = 1
  BY <1>2
<1>4. Framing(q) /\ Last(pc, q)
  BY <1>1, <1>2, <1>3 DEF Framing, Last
<1> QED
  BY <1>2, <1>4 DEF q

LEMMA TwoSent ==
  ASSUME NEW t \in Bodies, NEW body \in ToServer, body.u # "header", NEW pc,
         t = "LOGIN_REQ" => pc = "reply" /\ body.u = "request"
  PROVE  LET q == Framed(t, body) IN q \in Seq(ToServer) /\ Framing(q) /\ Last(pc, q)
<1> DEFINE q == Framed(t, body)
<1>1. /\ Header(t) \in ToServer /\ Header(t) # Header("LOGOUT_REQ")
      /\ Header(t) = Header("LOGIN_REQ") => t = "LOGIN_REQ"
      /\ body # Header("LOGIN_REQ") /\ body # Header("LOGOUT_REQ")
  BY Units, Kinds DEF Bodies
<1>2. q \in Seq(ToServer)
  BY <1>1 DEF Framed
<1>3. Len(q) = 2 /\ q[1] = Header(t) /\ q[2] = body
  BY Frames
<1> HIDE DEF q
<1>4. \A i \in 1..Len(q) : i = 1 \/ i = 2
  BY <1>3
<1>5. Framing(q) /\ Last(pc, q)
  BY <1>1, <1>3, <1>4 DEF Framing, Last
<1> QED
  BY <1>2, <1>5 DEF q

\* The same for answers.
LEMMA AnswerAdded ==
  ASSUME NEW s \in Seq(ToClient), NEW q \in Seq(ToClient)
  PROVE  /\ s \o q \in Seq(ToClient) /\ (s = <<>> => s \o q = q)
         /\ s # <<>> => s \o q # <<>> /\ (s \o q)[1] = s[1]
         /\ Clean(s) /\ Clean(q) => Clean(s \o q)
<1> DEFINE r == s \o q
<1>1. /\ r \in Seq(ToClient) /\ Len(r) = Len(s) + Len(q)
      /\ \A i \in 1..Len(r) : r[i] = IF i <= Len(s) THEN s[i] ELSE q[i - Len(s)]
  BY ConcatProperties
<1>2. s = <<>> => r = q
  BY ConcatEmptySeq
<1> HIDE DEF r
<1>3. Len(s) \in Nat /\ Len(q) \in Nat
  OBVIOUS
<1>4. s # <<>> => 1 \in 1..Len(r) /\ 1 <= Len(s)
  BY <1>1, <1>3, EmptySeq
<1>5. s # <<>> => r # <<>> /\ r[1] = s[1]
  BY <1>1, <1>4, EmptySeq
<1>6. ASSUME Clean(s), Clean(q) PROVE Clean(r)
  <2> SUFFICES ASSUME NEW i \in 1..Len(r) PROVE r[i] # Header("LOGIN_RES")
    BY DEF Clean
  <2>1. CASE i <= Len(s)
    BY <1>1, <1>3, <1>6, <2>1 DEF Clean
  <2>2. CASE ~(i <= Len(s))
    <3>1. i - Len(s) \in 1..Len(q) /\ r[i] = q[i - Len(s)]
      BY <1>1, <1>3, <2>2
    <3> QED
      BY <1>6, <3>1 DEF Clean
  <2> QED
    BY <2>1, <2>2
<1> QED
  BY <1>1, <1>2, <1>5, <1>6 DEF r

LEMMA AnswerTaken ==
  ASSUME NEW s \in Seq(ToClient), Len(s) >= 2
  PROVE  /\ Tail(Tail(s)) \in Seq(ToClient)
         /\ Len(s) = 2 => Tail(Tail(s)) = <<>>
         /\ Clean(s) => Clean(Tail(Tail(s)))
<1> DEFINE t == Tail(s)
           u == Tail(t)
<1>1. s # <<>> /\ Len(s) \in Nat
  BY EmptySeq
<1>2. t \in Seq(ToClient) /\ Len(t) = Len(s) - 1 /\ \A i \in 1..Len(t) : t[i] = s[i + 1]
  BY <1>1, HeadTailProperties
<1>3. t # <<>>
  <2>1. Len(t) # 0
    BY <1>1, <1>2
  <2> QED
    BY <2>1, NothingThere
<1> HIDE DEF t
<1>4. u \in Seq(ToClient) /\ Len(u) = Len(t) - 1 /\ \A i \in 1..Len(u) : u[i] = t[i + 1]
  BY <1>2, <1>3, HeadTailProperties
<1> HIDE DEF u
<1>5. Len(s) = 2 => u = <<>>
  BY <1>2, <1>4, EmptySeq
<1>6. \A i \in 1..Len(u) : i + 2 \in 1..Len(s) /\ u[i] = s[i + 2]
  BY <1>1, <1>2, <1>4
<1>7. Clean(s) => Clean(u)
  BY <1>6 DEF Clean
<1> QED
  BY <1>4, <1>5, <1>7 DEF u, t

LEMMA AnswerFramed ==
  ASSUME NEW t \in {"LOGIN_RES", "LIST_RES", "UPL_RES", "UPL_ACK", "DWL_RES", "DWL_CHUNK"},
         NEW body \in ToClient, body.u # "header"
  PROVE  /\ Framed(t, body) \in Seq(ToClient)
         /\ t # "LOGIN_RES" => Clean(Framed(t, body))
<1> DEFINE q == Framed(t, body)
<1>1. /\ Header(t) \in ToClient /\ body # Header("LOGIN_RES")
      /\ Header(t) = Header("LOGIN_RES") => t = "LOGIN_RES"
  BY Units, Kinds
<1>2. q \in Seq(ToClient)
  BY <1>1 DEF Framed
<1>3. Len(q) = 2 /\ q[1] = Header(t) /\ q[2] = body
  BY Frames
<1> HIDE DEF q
<1>4. \A i \in 1..Len(q) : i = 1 \/ i = 2
  BY <1>3
<1>5. t # "LOGIN_RES" => Clean(q)
  BY <1>1, <1>3, <1>4 DEF Clean
<1> QED
  BY <1>2, <1>5 DEF q

\* The answers of the handler.
LEMMA Results ==
  ASSUME NEW st \in {0, 1}
  PROVE  /\ Framed("LOGIN_RES", Result(st)) \in Seq(ToClient)
         /\ <<Result(st)>> \in Seq(ToClient)
         /\ Framed("LIST_RES", Listing(st)) \in Seq(ToClient)
         /\ Clean(Framed("LIST_RES", Listing(st)))
         /\ \A t \in {"UPL_RES", "DWL_RES"} :
              Framed(t, Result(st)) \in Seq(ToClient) /\ Clean(Framed(t, Result(st)))
<1>1. /\ Result(st) \in ToClient /\ Listing(st) \in ToClient
      /\ Result(st).u # "header" /\ Listing(st).u # "header"
  BY Units, Kinds
<1>2. <<Result(st)>> \in Seq(ToClient)
  BY <1>1
<1> QED
  BY <1>1, <1>2, AnswerFramed

LEMMA Chunks ==
  /\ Framed("UPL_ACK", Ack) \in Seq(ToClient) /\ Clean(Framed("UPL_ACK", Ack))
  /\ Framed("DWL_CHUNK", Data) \in Seq(ToClient) /\ Clean(Framed("DWL_CHUNK", Data))
BY Units, Kinds, AnswerFramed

LEMMA Ended ==
  /\ Final \in Seq(ToClient) /\ Clean(Final)
  /\ \A end \in Endings : end \in Seq(ToClient) /\ Clean(end)
<1>1. Final \in Seq(ToClient) /\ Clean(Final)
  BY Results DEF Final
<1>2. /\ Framed("DWL_RES", Result(1)) \o Final \in Seq(ToClient)
      /\ Clean(Framed("DWL_RES", Result(1)) \o Final)
  BY <1>1, Results, AnswerAdded
<1> QED
  BY <1>1, <1>2 DEF Endings

-----------------------------------------------------------------------------
(* Steps of one connection *)

\* A step touches one connection, and leaves it right.
LEMMA Local ==
  ASSUME IInv, NEW c \in Conn, NEW k \in ClientState, NEW h \in HandlerState,
         NEW in \in Seq(ToServer), NEW out \in Seq(ToClient),
         client' = [client EXCEPT ![c] = k], handler' = [handler EXCEPT ![c] = h],
         c2s' = [c2s EXCEPT ![c] = in], s2c' = [s2c EXCEPT ![c] = out],
         accounts' \subseteq Account,
         Right(k, h, in, out)
  PROVE  IInv'
<1>1. TypeOK'
  BY DEF IInv, TypeOK
<1>2. ASSUME NEW d \in Conn
      PROVE  Right(client'[d], handler'[d], c2s'[d], s2c'[d])
  <2>1. CASE d = c
    BY <2>1 DEF IInv, TypeOK
  <2>2. CASE d # c
    BY <2>2 DEF IInv, TypeOK
  <2> QED
    BY <2>1, <2>2
<1> QED
  BY <1>1, <1>2 DEF IInv

\* What the invariant says of the connection a step is of.
LEMMA Here ==
  ASSUME IInv, NEW c \in Conn
  PROVE  /\ client[c] \in ClientState /\ handler[c] \in HandlerState
         /\ c2s[c] \in Seq(ToServer) /\ s2c[c] \in Seq(ToClient)
         /\ accounts \subseteq Account
         /\ Right(client[c], handler[c], c2s[c], s2c[c])
         /\ client = [client EXCEPT ![c] = client[c]]
         /\ handler = [handler EXCEPT ![c] = handler[c]]
         /\ c2s = [c2s EXCEPT ![c] = c2s[c]] /\ s2c = [s2c EXCEPT ![c] = s2c[c]]
BY DEF IInv, TypeOK

\* Where a client can be.
LEMMA Places ==
  Waiting = {"reply", "astray", "logout", "list", "upload", "ack", "fin",
             "download", "copy"}
BY DEF Waiting, Expected

\* Records that are gone, typed.
LEMMA Gone == ClientOff \in ClientState /\ HandlerNone \in HandlerState
BY SessionAssumption DEF ClientOff, ClientState, HandlerNone, HandlerState

\* A client that goes on elsewhere.
LEMMA Moved ==
  ASSUME NEW k \in ClientState, NEW pc \in Waiting \cup {"prompt"}
  PROVE  LET m == [k EXCEPT !.pc = pc] IN
         m \in ClientState /\ m.pc = pc /\ m.logged = k.logged /\ m.sync = k.sync
BY DEF ClientState

-----------------------------------------------------------------------------
(* The client *)

\* At the prompt in step the two agree, and nobody's streams are empty.
LEMMA AtPrompt ==
  ASSUME NEW k, NEW h, NEW in, NEW out,
         Right(k, h, in, out), k.pc = "prompt", h.up, k.sync
  PROVE  \/ Inside(k, h, in, out)
         \/ Outside(k, h, in, out) /\ in = <<>> /\ out = <<>>
BY DEF Right, InStep, Stray, Told, Asking, Outside, Asked, Denied

\* A command that waits for its answer.
LEMMA AskingKeeps ==
  ASSUME IInv, NEW c \in Conn, NEW pc \in Waiting, NEW units \in Seq(ToServer),
         client[c].pc = "prompt", Alive(c), Asks(c, pc, units),
         Framing(units), Last(pc, units), Asked(pc, units)
  PROVE  IInv'
<1> DEFINE k == [client[c] EXCEPT !.pc = pc]
           in == c2s[c] \o units
<1>1. /\ client[c] \in ClientState /\ handler[c] \in HandlerState
      /\ c2s[c] \in Seq(ToServer) /\ s2c[c] \in Seq(ToClient) /\ handler[c].up
      /\ Right(client[c], handler[c], c2s[c], s2c[c])
  BY Here DEF Alive
<1>2. /\ k \in ClientState /\ k.pc = pc
      /\ k.logged = client[c].logged /\ k.sync = client[c].sync
  BY <1>1, Moved
<1>3. /\ in \in Seq(ToServer) /\ Framing(in)
      /\ Last("prompt", c2s[c]) => Last(pc, in)
      /\ c2s[c] = <<>> => in = units
  BY <1>1, Added, ConcatEmptySeq DEF Right, Asking
<1>4. client' = [client EXCEPT ![c] = k] /\ c2s' = [c2s EXCEPT ![c] = in]
  BY DEF Asks, Goes, IInv, TypeOK
<1> HIDE DEF k, in
<1>5. pc # "off"
  BY Places
<1>6. InStep(k, handler[c], in, s2c[c])
  <2> SUFFICES ASSUME k.sync
               PROVE  Inside(k, handler[c], in, s2c[c]) \/ Outside(k, handler[c], in, s2c[c])
    BY DEF InStep
  <2>1. CASE Inside(client[c], handler[c], c2s[c], s2c[c])
    BY <1>2, <1>3, <2>1 DEF Inside
  <2>2. CASE Outside(client[c], handler[c], c2s[c], s2c[c]) /\ c2s[c] = <<>> /\ s2c[c] = <<>>
    BY <1>2, <1>3, <2>2 DEF Outside
  <2> QED
    BY <1>1, <1>2, <2>1, <2>2, AtPrompt
<1>7. Right(k, handler[c], in, s2c[c])
  BY <1>1, <1>2, <1>3, <1>5, <1>6 DEF Right, Cleared
<1>8. /\ handler' = [handler EXCEPT ![c] = handler[c]]
      /\ s2c' = [s2c EXCEPT ![c] = s2c[c]] /\ accounts' \subseteq Account
  BY Here DEF Asks
<1> QED
  BY <1>1, <1>2, <1>3, <1>4, <1>7, <1>8, Local

LEMMA UserKeeps ==
  ASSUME IInv, NEW c \in Conn, UserStep(c)
  PROVE  IInv'
<1>1. /\ client[c] \in ClientState /\ handler[c] \in HandlerState
      /\ c2s[c] \in Seq(ToServer) /\ s2c[c] \in Seq(ToClient)
      /\ accounts \subseteq Account
      /\ Framing(c2s[c]) /\ Cleared(client[c], handler[c], c2s[c], s2c[c])
      /\ InStep(client[c], handler[c], c2s[c], s2c[c])
  BY Here DEF Right
<1>2. CASE Connect(c)
  <2> DEFINE k == [client[c] EXCEPT !.pc = "prompt"]
             h == [handler[c] EXCEPT !.up = TRUE]
  <2>1. /\ c2s[c] = <<>> /\ s2c[c] = <<>>
        /\ client[c] = ClientOff /\ handler[c] = HandlerNone
    BY <1>1, <1>2 DEF Connect, Up, Alive, Cleared
  <2>2. k \in ClientState /\ h \in HandlerState
    BY <1>1 DEF ClientState, HandlerState
  <2>3. /\ k.pc = "prompt" /\ ~k.logged /\ h.up /\ h.user = Nobody
        /\ h.mode = "dispatch" /\ ~h.torn
    BY <2>1 DEF ClientOff, HandlerNone
  <2>4. client' = [client EXCEPT ![c] = k] /\ handler' = [handler EXCEPT ![c] = h]
    BY <1>2 DEF Connect, IInv, TypeOK
  <2> HIDE DEF k, h
  <2>5. Outside(k, h, c2s[c], s2c[c])
    BY <2>1, <2>3 DEF Outside, Asked
  <2>6. Right(k, h, c2s[c], s2c[c])
    BY <1>1, <2>3, <2>5 DEF Right, Cleared, InStep
  <2>7. /\ c2s' = [c2s EXCEPT ![c] = c2s[c]] /\ s2c' = [s2c EXCEPT ![c] = s2c[c]]
        /\ accounts' \subseteq Account
    BY <1>1, <1>2, Here DEF Connect
  <2> QED
    BY <1>1, <2>2, <2>4, <2>6, <2>7, Local
<1>3. ASSUME NEW a \in Account, NEW new \in BOOLEAN, Enter(c, a, new)
      PROVE  IInv'
  <2> DEFINE q == Framed("LOGIN_REQ", LoginBody(a, new))
  <2>1. "LOGIN_REQ" \in Bodies /\ "reply" \in Waiting
    BY Places DEF Bodies
  <2>2. LoginBody(a, new) \in ToServer /\ LoginBody(a, new).u = "request"
    BY Units, Kinds
  <2>3. q \in Seq(ToServer) /\ Framing(q) /\ Last("reply", q)
    BY <2>1, <2>2, TwoSent
  <2>4. Asked("reply", q)
    BY DEF Asked
  <2>5. client[c].pc = "prompt" /\ Alive(c) /\ Asks(c, "reply", q)
    BY <1>3 DEF Enter, Types
  <2> HIDE DEF q
  <2> QED
    BY <2>1, <2>3, <2>4, <2>5, AskingKeeps
<1>4. CASE Logout(c)
  <2> DEFINE q == <<Header("LOGOUT_REQ")>>
  <2>1. "LOGOUT_REQ" \in Bare /\ "logout" \in Waiting
    BY Places DEF Bare
  <2>2. q \in Seq(ToServer) /\ Framing(q) /\ Last("logout", q)
    BY <2>1, OneSent
  <2>3. Asked("logout", q)
    BY DEF Asked
  <2>4. client[c].pc = "prompt" /\ Alive(c) /\ Asks(c, "logout", q)
    BY <1>4 DEF Logout, Types
  <2> HIDE DEF q
  <2> QED
    BY <2>1, <2>2, <2>3, <2>4, AskingKeeps
<1>5. CASE List(c)
  <2> DEFINE q == <<Header("LIST_REQ")>>
  <2>1. "LIST_REQ" \in Bare /\ "list" \in Waiting
    BY Places DEF Bare
  <2>2. q \in Seq(ToServer) /\ Framing(q) /\ Last("list", q)
    BY <2>1, OneSent
  <2>3. Asked("list", q)
    BY DEF Asked
  <2>4. client[c].pc = "prompt" /\ Alive(c) /\ Asks(c, "list", q)
    BY <1>5 DEF List, Types
  <2> HIDE DEF q
  <2> QED
    BY <2>1, <2>2, <2>3, <2>4, AskingKeeps
<1>6. CASE SendFile(c)
  <2> DEFINE q == Framed("UPL_REQ", FileName)
  <2>1. "UPL_REQ" \in Bodies /\ "upload" \in Waiting
    BY Places DEF Bodies
  <2>2. FileName \in ToServer /\ FileName.u # "header"
    BY Units, Kinds
  <2>3. q \in Seq(ToServer) /\ Framing(q) /\ Last("upload", q)
    BY <2>1, <2>2, TwoSent
  <2>4. Asked("upload", q)
    BY DEF Asked
  <2>5. client[c].pc = "prompt" /\ Alive(c) /\ Asks(c, "upload", q)
    BY <1>6 DEF SendFile, Types
  <2> HIDE DEF q
  <2> QED
    BY <2>1, <2>3, <2>4, <2>5, AskingKeeps
<1>7. CASE FetchFile(c)
  <2> DEFINE q == Framed("DWL_REQ", FileName)
  <2>1. "DWL_REQ" \in Bodies /\ "download" \in Waiting
    BY Places DEF Bodies
  <2>2. FileName \in ToServer /\ FileName.u # "header"
    BY Units, Kinds
  <2>3. q \in Seq(ToServer) /\ Framing(q) /\ Last("download", q)
    BY <2>1, <2>2, TwoSent
  <2>4. Asked("download", q)
    BY DEF Asked
  <2>5. client[c].pc = "prompt" /\ Alive(c) /\ Asks(c, "download", q)
    BY <1>7 DEF FetchFile, Types
  <2> HIDE DEF q
  <2> QED
    BY <2>1, <2>3, <2>4, <2>5, AskingKeeps
<1>8. CASE Unknown(c)
  <2>1. "astray" \in Waiting
    BY Places
  <2>2. Asked("astray", <<>>)
    BY DEF Asked
  <2>3. client[c].pc = "prompt" /\ Alive(c) /\ Asks(c, "astray", <<>>)
    BY <1>8 DEF Unknown, Types
  <2> QED
    BY <2>1, <2>2, <2>3, NothingThere, AskingKeeps
<1>9. CASE Quit(c)
  <2> DEFINE q == <<Header("EXIT_REQ")>>
             in == c2s[c] \o q
  <2>1. "EXIT_REQ" \in Bare /\ Header("EXIT_REQ") \in ToServer
    BY Units DEF Bare
  <2>2. q \in Seq(ToServer) /\ Framing(q)
    BY <2>1, OneSent
  <2>3. Append(c2s[c], Header("EXIT_REQ")) = in
    BY <1>1, <2>1, AppendIsConcat
  <2>4. in \in Seq(ToServer) /\ Framing(in)
    BY <1>1, <2>2, Added
  <2>5. /\ client' = [client EXCEPT ![c] = ClientOff]
        /\ handler' = [handler EXCEPT ![c] = handler[c]]
        /\ s2c' = [s2c EXCEPT ![c] = <<>>] /\ accounts' \subseteq Account
    BY <1>1, <1>9, Here DEF Quit
  <2>6. c2s' = [c2s EXCEPT ![c] = in]
    BY <1>9, <2>3 DEF Quit, IInv, TypeOK
  <2> HIDE DEF in, q
  <2>7. Right(ClientOff, handler[c], in, <<>>)
    BY <1>1, <1>9, <2>4 DEF Right, Cleared, InStep, ClientOff, Quit, Types, Alive
  <2> QED
    BY <1>1, <2>4, <2>5, <2>6, <2>7, NothingThere, Gone, Local
<1>10. CASE Leave(c)
  <2>1. /\ client' = [client EXCEPT ![c] = ClientOff]
        /\ handler' = [handler EXCEPT ![c] = handler[c]]
        /\ c2s' = [c2s EXCEPT ![c] = c2s[c]]
        /\ s2c' = [s2c EXCEPT ![c] = <<>>] /\ accounts' \subseteq Account
    BY <1>1, <1>10, Here DEF Leave
  <2>2. Right(ClientOff, handler[c], c2s[c], <<>>)
    BY <1>1 DEF Right, Cleared, InStep, ClientOff
  <2> QED
    BY <1>1, <2>1, <2>2, NothingThere, Gone, Local
<1> QED
  BY <1>2, <1>3, <1>4, <1>5, <1>6, <1>7, <1>8, <1>9, <1>10 DEF UserStep

\* An answer that says nothing of the flags: the command goes on, or ends.
LEMMA TransferKeeps ==
  ASSUME IInv, NEW c \in Conn, NEW pc \in {"prompt", "ack", "fin", "copy"},
         NEW units \in Seq(ToServer), Framing(units), Last("prompt", units),
         client[c].pc \in {"list", "upload", "ack", "fin", "download", "copy"},
         Len(s2c[c]) >= 2, Took(c), Goes(c, pc), Sends(c, units),
         UNCHANGED <<handler, accounts>>,
         Outside(client[c], handler[c], c2s[c], s2c[c]) =>
           pc = "prompt" /\ units = <<>> /\ Len(s2c[c]) = 2
  PROVE  IInv'
<1> DEFINE k == [client[c] EXCEPT !.pc = pc]
           in == IF Alive(c) THEN c2s[c] \o units ELSE c2s[c]
           out == Tail(Tail(s2c[c]))
<1>1. /\ client[c] \in ClientState /\ handler[c] \in HandlerState
      /\ c2s[c] \in Seq(ToServer) /\ s2c[c] \in Seq(ToClient)
      /\ Framing(c2s[c]) /\ Cleared(client[c], handler[c], c2s[c], s2c[c])
      /\ InStep(client[c], handler[c], c2s[c], s2c[c])
  BY Here DEF Right
<1>2. /\ k \in ClientState /\ k.pc = pc
      /\ k.logged = client[c].logged /\ k.sync = client[c].sync
  BY <1>1, Places, Moved
<1>3. /\ out \in Seq(ToClient) /\ (Len(s2c[c]) = 2 => out = <<>>)
      /\ Clean(s2c[c]) => Clean(out)
  BY <1>1, AnswerTaken
<1>4. ~Asking(client[c].pc) /\ ~Asking(pc) /\ pc # "off" /\ client[c].pc # "off"
  BY DEF Asking
<1>5. \A q : Last("prompt", q) => Last(pc, q)
  BY DEF Last
<1>6. /\ in \in Seq(ToServer) /\ Framing(in)
      /\ Alive(c) /\ Last(client[c].pc, c2s[c]) => Last(pc, in)
      /\ Alive(c) /\ units = <<>> => in = c2s[c]
  <2>1. CASE Alive(c)
    <3>1. in = c2s[c] \o units
      BY <2>1
    <3>2. c2s[c] \o units \in Seq(ToServer) /\ Framing(c2s[c] \o units)
      BY <1>1, Added
    <3>3. Last(client[c].pc, c2s[c]) => Last(pc, c2s[c] \o units)
      BY <1>1, <1>4, <1>5, Added
    <3>4. c2s[c] \o <<>> = c2s[c]
      BY <1>1, ConcatEmptySeq
    <3> QED
      BY <3>1, <3>2, <3>3, <3>4
  <2>2. CASE ~Alive(c)
    BY <1>1, <2>2
  <2> QED
    BY <2>1, <2>2
<1>7. c2s' = [c2s EXCEPT ![c] = in]
  <2>1. CASE Alive(c)
    BY <2>1 DEF Sends, IInv, TypeOK
  <2>2. CASE ~Alive(c)
    BY <2>2, Here DEF Sends
  <2> QED
    BY <2>1, <2>2
<1>8. client' = [client EXCEPT ![c] = k] /\ s2c' = [s2c EXCEPT ![c] = out]
  BY DEF Goes, Took, IInv, TypeOK
<1>9. ~Alive(c) => in = c2s[c]
  OBVIOUS
<1> HIDE DEF k, in, out
<1>10. InStep(k, handler[c], in, out)
  <2> SUFFICES ASSUME k.sync, handler[c].up
               PROVE  Inside(k, handler[c], in, out) \/ Outside(k, handler[c], in, out)
    BY DEF InStep
  <2>1. \/ Inside(client[c], handler[c], c2s[c], s2c[c])
        \/ Outside(client[c], handler[c], c2s[c], s2c[c])
    BY <1>1, <1>2, <1>4 DEF InStep, Stray, Told
  <2>2. CASE Inside(client[c], handler[c], c2s[c], s2c[c])
    BY <1>2, <1>3, <1>6, <2>2 DEF Inside, Alive
  <2>3. CASE Outside(client[c], handler[c], c2s[c], s2c[c])
    <3>1. in = c2s[c] /\ out = <<>> /\ pc = "prompt"
      BY <1>3, <1>6, <2>3 DEF Alive
    <3>2. c2s[c] = <<>>
      <4>1. s2c[c] # <<>>
        BY NothingThere
      <4> QED
        BY <2>3, <4>1 DEF Outside
    <3> QED
      BY <1>2, <2>3, <3>1, <3>2 DEF Outside, Asked
  <2> QED
    BY <2>1, <2>2, <2>3
<1>11. Right(k, handler[c], in, out)
  BY <1>1, <1>2, <1>4, <1>6, <1>9, <1>10 DEF Right, Cleared, Alive
<1>12. handler' = [handler EXCEPT ![c] = handler[c]] /\ accounts' \subseteq Account
  BY Here
<1> QED
  BY <1>1, <1>2, <1>3, <1>6, <1>7, <1>8, <1>11, <1>12, Local

\* The answer of a login or logout in step tells what the handler's flag is.
LEMMA ToldKeeps ==
  ASSUME IInv, NEW c \in Conn, NEW told \in BOOLEAN, Answered(c, "LOGIN_RES"), Took(c),
         client' = [client EXCEPT ![c].pc = "prompt", ![c].logged = told],
         UNCHANGED <<handler, c2s, accounts>>,
         client[c].pc \in {"reply", "astray", "logout"},
         told <=> IF client[c].pc # "logout" THEN client[c].logged \/ s2c[c][2].status = 0
                  ELSE client[c].logged /\ s2c[c][2].status # 0
  PROVE  IInv'
<1> DEFINE k == [client[c] EXCEPT !.pc = "prompt", !.logged = told]
           out == Tail(Tail(s2c[c]))
<1>1. /\ client[c] \in ClientState /\ handler[c] \in HandlerState
      /\ c2s[c] \in Seq(ToServer) /\ s2c[c] \in Seq(ToClient)
      /\ Framing(c2s[c]) /\ Cleared(client[c], handler[c], c2s[c], s2c[c])
      /\ InStep(client[c], handler[c], c2s[c], s2c[c])
  BY Here DEF Right
<1>2. k \in ClientState /\ k.pc = "prompt" /\ k.logged = told /\ k.sync = client[c].sync
  BY <1>1 DEF ClientState
<1>3. Len(s2c[c]) >= 2 /\ s2c[c][1] = Header("LOGIN_RES")
  BY DEF Answered
<1>4. out \in Seq(ToClient) /\ (Len(s2c[c]) = 2 => out = <<>>)
  BY <1>1, <1>3, AnswerTaken
<1>5. client' = [client EXCEPT ![c] = k] /\ s2c' = [s2c EXCEPT ![c] = out]
  BY DEF Took, IInv, TypeOK
<1> HIDE DEF k, out
<1>6. InStep(k, handler[c], c2s[c], out)
  <2> SUFFICES ASSUME k.sync, handler[c].up
               PROVE  Inside(k, handler[c], c2s[c], out) \/ Outside(k, handler[c], c2s[c], out)
    BY DEF InStep
  <2>1. 1 \in 1..Len(s2c[c]) /\ s2c[c] # <<>>
    BY <1>1, <1>3, NothingThere
  <2>2. ~Stray(client[c], s2c[c]) /\ ~Inside(client[c], handler[c], c2s[c], s2c[c])
    BY <1>3, <2>1 DEF Stray, Inside, Clean
  <2>3. ~Outside(client[c], handler[c], c2s[c], s2c[c])
    BY <2>1 DEF Outside, Denied
  <2>4. Told(client[c], handler[c], c2s[c], s2c[c])
    BY <1>1, <1>2, <2>2, <2>3 DEF InStep
  <2>5. PICK st \in {0, 1} :
          /\ s2c[c] = Framed("LOGIN_RES", Result(st))
          /\ handler[c].user # Nobody <=>
               IF client[c].pc = "reply" THEN client[c].logged \/ st = 0
               ELSE client[c].logged /\ st # 0
    BY <2>4 DEF Told
  <2>6. Len(s2c[c]) = 2 /\ s2c[c][2].status = st
    BY <2>5, Frames, Kinds
  <2>7. handler[c].user # Nobody <=> told
    BY <2>4, <2>5, <2>6 DEF Told, Asking
  <2>8. c2s[c] = <<>> /\ out = <<>> /\ handler[c].mode = "dispatch" /\ ~handler[c].torn
    BY <1>4, <2>4, <2>6 DEF Told
  <2>9. Last(k.pc, c2s[c]) /\ Clean(out) /\ Asked(k.pc, c2s[c])
    BY <1>2, <2>8, NothingThere DEF Asked
  <2> QED
    BY <1>2, <2>7, <2>8, <2>9 DEF Inside, Outside
<1>7. Right(k, handler[c], c2s[c], out)
  BY <1>1, <1>2, <1>6 DEF Right, Cleared
<1>8. /\ handler' = [handler EXCEPT ![c] = handler[c]]
      /\ c2s' = [c2s EXCEPT ![c] = c2s[c]] /\ accounts' \subseteq Account
  BY Here
<1> QED
  BY <1>1, <1>2, <1>4, <1>5, <1>7, <1>8, Local

\* What was asked outside and is answered is refused.
LEMMA DeniedIs ==
  ASSUME NEW c \in Conn, s2c[c] \in Seq(ToClient), Len(s2c[c]) >= 2,
         Outside(client[c], handler[c], c2s[c], s2c[c])
  PROVE  /\ client[c].pc \in {"list", "upload", "download"} /\ Len(s2c[c]) = 2
         /\ client[c].pc # "list" => s2c[c][2].status = 1
<1>1. s2c[c] # <<>>
  BY NothingThere
<1>2. Denied(client[c].pc, s2c[c])
  BY <1>1 DEF Outside
<1> QED
  BY <1>2, Frames, Kinds DEF Denied

LEMMA ClientKeeps ==
  ASSUME IInv, NEW c \in Conn, ClientStep(c)
  PROVE  IInv'
<1>1. /\ client[c] \in ClientState /\ handler[c] \in HandlerState
      /\ c2s[c] \in Seq(ToServer) /\ s2c[c] \in Seq(ToClient)
      /\ accounts \subseteq Account
      /\ Framing(c2s[c]) /\ Cleared(client[c], handler[c], c2s[c], s2c[c])
  BY Here DEF Right
<1>2. Len(s2c[c]) >= 2 /\ Outside(client[c], handler[c], c2s[c], s2c[c]) =>
        /\ client[c].pc \in {"list", "upload", "download"} /\ Len(s2c[c]) = 2
        /\ client[c].pc # "list" => s2c[c][2].status = 1
  BY <1>1, DeniedIs
\* Nothing is sent.
<1>3. UNCHANGED c2s => Sends(c, <<>>)
  <2>1. c2s[c] \o <<>> = c2s[c]
    BY <1>1, ConcatEmptySeq
  <2>2. [c2s EXCEPT ![c] = c2s[c] \o <<>>] = c2s
    BY <2>1, Here
  <2> QED
    BY <2>2 DEF Sends
<1>4. CASE ReadReply(c)
  <2> DEFINE told == client[c].logged \/ s2c[c][2].status = 0
  <2>1. told \in BOOLEAN
    OBVIOUS
  <2>2. client' = [client EXCEPT ![c].pc = "prompt", ![c].logged = told]
    BY <1>4 DEF ReadReply
  <2>3. told <=> IF client[c].pc # "logout" THEN client[c].logged \/ s2c[c][2].status = 0
                 ELSE client[c].logged /\ s2c[c][2].status # 0
    BY <1>4 DEF ReadReply
  <2> HIDE DEF told
  <2> QED
    BY <1>4, <2>1, <2>2, <2>3, ToldKeeps DEF ReadReply
<1>5. CASE ReadLogout(c)
  <2> DEFINE told == client[c].logged /\ s2c[c][2].status # 0
  <2>1. told \in BOOLEAN
    OBVIOUS
  <2>2. client' = [client EXCEPT ![c].pc = "prompt", ![c].logged = told]
    BY <1>5 DEF ReadLogout
  <2>3. told <=> IF client[c].pc # "logout" THEN client[c].logged \/ s2c[c][2].status = 0
                 ELSE client[c].logged /\ s2c[c][2].status # 0
    BY <1>5 DEF ReadLogout
  <2> HIDE DEF told
  <2> QED
    BY <1>5, <2>1, <2>2, <2>3, ToldKeeps DEF ReadLogout
\* A transfer or a list that ends at the prompt.
<1>6. ASSUME client[c].pc \in {"list", "upload", "ack", "fin", "download", "copy"},
             Len(s2c[c]) >= 2, Took(c), Goes(c, "prompt"),
             UNCHANGED <<handler, c2s, accounts>>
      PROVE  IInv'
  BY <1>2, <1>3, <1>6, NothingThere, TransferKeeps
\* One that goes on.
<1>7. ASSUME client[c].pc \in {"upload", "ack", "download", "copy"},
             client[c].pc \in {"upload", "download"} => s2c[c][2].status = 0,
             Len(s2c[c]) >= 2, Took(c), UNCHANGED <<handler, accounts>>,
             NEW pc \in {"ack", "fin", "copy"}, Goes(c, pc),
             NEW units \in Seq(ToServer), Framing(units), Last("prompt", units),
             Sends(c, units)
      PROVE  IInv'
  <2>1. ~Outside(client[c], handler[c], c2s[c], s2c[c])
    BY <1>2, <1>7
  <2> QED
    BY <1>7, <2>1, TransferKeeps
<1>8. /\ <<Header("UPL_COMPLETE")>> \in Seq(ToServer)
      /\ Framing(<<Header("UPL_COMPLETE")>>) /\ Last("prompt", <<Header("UPL_COMPLETE")>>)
  <2>1. "UPL_COMPLETE" \in Bare
    BY DEF Bare
  <2> QED
    BY <2>1, OneSent
<1>9. ASSUME NEW t \in {"UPL_CHUNK", "DWL_ACK"}, NEW body \in {Data, Ack}
      PROVE  /\ Framed(t, body) \in Seq(ToServer)
             /\ Framing(Framed(t, body)) /\ Last("prompt", Framed(t, body))
  <2>1. t \in Bodies /\ t # "LOGIN_REQ" /\ body \in ToServer /\ body.u # "header"
    BY Units, Kinds DEF Bodies
  <2> QED
    BY <2>1, TwoSent
<1>10. CASE ReadLast(c)
  BY <1>6, <1>10 DEF ReadLast, Answered
<1>11. CASE ReadUpload(c)
  <2>1. /\ client[c].pc = "upload" /\ Len(s2c[c]) >= 2 /\ Took(c)
        /\ UNCHANGED <<handler, accounts>>
    BY <1>11 DEF ReadUpload, Answered
  <2>2. CASE Goes(c, "prompt") /\ UNCHANGED c2s
    BY <1>6, <2>1, <2>2
  <2>3. CASE s2c[c][2].status = 0 /\ SendsChunk(c)
    <3>1. Goes(c, "ack") /\ Sends(c, Framed("UPL_CHUNK", Data))
      BY <2>3 DEF SendsChunk
    <3> QED
      BY <1>7, <1>9, <2>1, <2>3, <3>1
  <2>4. CASE s2c[c][2].status = 0 /\ SendsEnd(c)
    <3>1. Goes(c, "fin") /\ Sends(c, <<Header("UPL_COMPLETE")>>)
      BY <2>4 DEF SendsEnd
    <3> QED
      BY <1>7, <1>8, <2>1, <2>4, <3>1
  <2> QED
    BY <1>11, <2>2, <2>3, <2>4 DEF ReadUpload, GivesUp
<1>12. CASE ReadAck(c)
  <2>1. /\ client[c].pc = "ack" /\ Len(s2c[c]) >= 2 /\ Took(c)
        /\ UNCHANGED <<handler, accounts>>
    BY <1>12 DEF ReadAck, Answered
  <2>2. CASE Goes(c, "prompt") /\ UNCHANGED c2s
    BY <1>6, <2>1, <2>2
  <2>3. CASE SendsEnd(c)
    <3>1. Goes(c, "fin") /\ Sends(c, <<Header("UPL_COMPLETE")>>)
      BY <2>3 DEF SendsEnd
    <3> QED
      BY <1>7, <1>8, <2>1, <3>1
  <2> QED
    BY <1>12, <2>2, <2>3 DEF ReadAck, GivesUp
<1>13. CASE ReadDownload(c)
  <2>1. /\ client[c].pc = "download" /\ Len(s2c[c]) >= 2 /\ Took(c)
        /\ UNCHANGED <<handler, accounts>>
    BY <1>13 DEF ReadDownload, Answered
  <2>2. CASE Goes(c, "prompt") /\ UNCHANGED c2s
    BY <1>6, <2>1, <2>2
  <2>3. CASE s2c[c][2].status = 0 /\ Goes(c, "copy") /\ UNCHANGED c2s
    BY <1>3, <1>7, <2>1, <2>3, NothingThere
  <2> QED
    BY <1>13, <2>2, <2>3 DEF ReadDownload, GivesUp
<1>14. CASE ReadCopy(c)
  <2>1. /\ client[c].pc = "copy" /\ Len(s2c[c]) >= 2 /\ Took(c)
        /\ UNCHANGED <<handler, accounts>>
    BY <1>14 DEF ReadCopy, Answered
  <2>2. CASE Goes(c, "prompt") /\ UNCHANGED c2s
    BY <1>6, <2>1, <2>2
  <2>3. CASE Goes(c, "copy") /\ Sends(c, Framed("DWL_ACK", Ack))
    BY <1>7, <1>9, <2>1, <2>3
  <2> QED
    BY <1>14, <2>2, <2>3 DEF ReadCopy, GivesUp
<1>15. CASE ReadOdd(c)
  <2>1. PICK torn \in BOOLEAN, out \in {s2c[c], Tail(s2c[c])} :
          /\ client' = [client EXCEPT ![c].pc = "prompt", ![c].sync = FALSE,
                                      ![c].torn = torn]
          /\ s2c' = [s2c EXCEPT ![c] = out]
    BY <1>15 DEF ReadOdd
  <2> DEFINE k == [client[c] EXCEPT !.pc = "prompt", !.sync = FALSE, !.torn = torn]
  <2>2. client' = [client EXCEPT ![c] = k]
    BY <2>1 DEF IInv, TypeOK
  <2>3. k \in ClientState /\ k.pc = "prompt" /\ ~k.sync
    BY <1>1 DEF ClientState
  <2>4. Tail(s2c[c]) \in Seq(ToClient)
    BY <1>1, <1>15, HeadTailProperties DEF ReadOdd
  <2>5. out \in Seq(ToClient)
    BY <1>1, <2>4
  <2> HIDE DEF k
  <2>6. Right(k, handler[c], c2s[c], out)
    BY <1>1, <2>3 DEF Right, Cleared, InStep
  <2>7. /\ handler' = [handler EXCEPT ![c] = handler[c]]
        /\ c2s' = [c2s EXCEPT ![c] = c2s[c]] /\ accounts' \subseteq Account
    BY <1>1, <1>15, Here DEF ReadOdd
  <2> QED
    BY <1>1, <2>1, <2>2, <2>3, <2>5, <2>6, <2>7, Local
<1>16. CASE ClientLost(c)
  <2>1. /\ handler' = [handler EXCEPT ![c] = handler[c]]
        /\ c2s' = [c2s EXCEPT ![c] = c2s[c]] /\ s2c' = [s2c EXCEPT ![c] = s2c[c]]
        /\ accounts' \subseteq Account
    BY <1>1, <1>16, Here DEF ClientLost
  <2>2. ~handler[c].up /\ s2c[c] = <<>>
    BY <1>16 DEF ClientLost, Alive
  <2>3. CASE client' = [client EXCEPT ![c].pc = "prompt", ![c].torn = FALSE]
    <3> DEFINE k == [client[c] EXCEPT !.pc = "prompt", !.torn = FALSE]
    <3>1. client' = [client EXCEPT ![c] = k]
      BY <2>3 DEF IInv, TypeOK
    <3>2. k \in ClientState /\ k.pc = "prompt"
      BY <1>1 DEF ClientState
    <3> HIDE DEF k
    <3>3. Right(k, handler[c], c2s[c], s2c[c])
      BY <1>1, <2>2, <3>2 DEF Right, Cleared, InStep
    <3> QED
      BY <1>1, <2>1, <3>1, <3>2, <3>3, Local
  <2>4. CASE client' = [client EXCEPT ![c] = ClientOff]
    <3>1. Right(ClientOff, handler[c], c2s[c], s2c[c])
      BY <1>1, <2>2 DEF Right, Cleared, InStep, ClientOff
    <3> QED
      BY <1>1, <2>1, <2>4, <3>1, Gone, Local
  <2> QED
    BY <1>16, <2>3, <2>4 DEF ClientLost
<1> QED
  BY <1>4, <1>5, <1>10, <1>11, <1>12, <1>13, <1>14, <1>15, <1>16 DEF ClientStep

-----------------------------------------------------------------------------
(* The handler *)

\* What the handler makes of its input keeps the two in step.
Handled(k, h, in, units) ==
  Inside(k, h, in, units) \/ Outside(k, h, in, units) \/ Told(k, h, in, units)
  \/ Stray(k, units)

LEMMA AnswersKeep ==
  ASSUME IInv, NEW c \in Conn, NEW units \in Seq(ToClient), NEW n \in {1, 2},
         NEW h \in HandlerState, Alive(c), h.up, c2s[c] # <<>>,
         Answers(c, units, n, h), UNCHANGED client, accounts' \subseteq Account,
         NEW in, in = SubSeq(c2s[c], n + 1, Len(c2s[c])),
         Inside(client[c], handler[c], c2s[c], s2c[c]) =>
           \/ h.user # Nobody /\ Clean(units)
           \/ Told(client[c], h, in, units),
         Outside(client[c], handler[c], c2s[c], <<>>) =>
           Handled(client[c], h, in, units)
  PROVE  IInv'
<1> DEFINE out == s2c[c] \o units
<1>1. /\ client[c] \in ClientState /\ handler[c] \in HandlerState
      /\ c2s[c] \in Seq(ToServer) /\ s2c[c] \in Seq(ToClient)
      /\ Framing(c2s[c]) /\ Cleared(client[c], handler[c], c2s[c], s2c[c])
      /\ InStep(client[c], handler[c], c2s[c], s2c[c])
      /\ client' = [client EXCEPT ![c] = client[c]]
  BY Here DEF Right
<1>2. /\ in \in Seq(ToServer) /\ Framing(in)
      /\ \A pc : Last(pc, c2s[c]) => Last(pc, in)
  BY <1>1, Dropped
<1>3. /\ out \in Seq(ToClient) /\ (s2c[c] = <<>> => out = units)
      /\ s2c[c] # <<>> => out # <<>> /\ out[1] = s2c[c][1]
      /\ Clean(s2c[c]) /\ Clean(units) => Clean(out)
  BY <1>1, AnswerAdded
<1>4. CASE /\ handler' = [handler EXCEPT ![c] = h] /\ c2s' = [c2s EXCEPT ![c] = in]
           /\ Up(c) /\ s2c' = [s2c EXCEPT ![c] = out]
  <2> HIDE DEF out
  <2>1. client[c].pc # "off" /\ handler[c].up
    BY <1>4 DEF Up, Alive
  <2>2. InStep(client[c], h, in, out)
    <3> SUFFICES ASSUME client[c].sync
                 PROVE  \/ Stray(client[c], out) \/ Inside(client[c], h, in, out)
                        \/ Outside(client[c], h, in, out) \/ Told(client[c], h, in, out)
      BY DEF InStep
    <3>1. CASE Stray(client[c], s2c[c])
      BY <1>3, <3>1 DEF Stray
    <3>2. CASE Inside(client[c], handler[c], c2s[c], s2c[c])
      <4>1. CASE h.user # Nobody /\ Clean(units)
        BY <1>2, <1>3, <3>2, <4>1 DEF Inside
      <4>2. CASE Told(client[c], h, in, units)
        <5>1. CASE s2c[c] = <<>>
          BY <1>3, <4>2, <5>1
        <5>2. CASE s2c[c] # <<>>
          <6>1. 1 \in 1..Len(s2c[c])
            BY <1>1, <5>2, EmptySeq
          <6>2. s2c[c][1] # Header("LOGIN_RES")
            BY <3>2, <6>1 DEF Inside, Clean
          <6> QED
            BY <1>3, <4>2, <5>2, <6>2 DEF Told, Stray
        <5> QED
          BY <5>1, <5>2
      <4> QED
        BY <3>2, <4>1, <4>2
    <3>3. CASE Outside(client[c], handler[c], c2s[c], s2c[c])
      <4>1. s2c[c] = <<>>
        BY <3>3 DEF Outside
      <4> QED
        BY <1>3, <3>3, <4>1 DEF Handled
    <3>4. ~Told(client[c], handler[c], c2s[c], s2c[c])
      BY DEF Told
    <3> QED
      BY <1>1, <2>1, <3>1, <3>2, <3>3, <3>4 DEF InStep
  <2>3. Right(client[c], h, in, out)
    BY <1>2, <2>1, <2>2 DEF Right, Cleared
  <2> QED
    BY <1>1, <1>2, <1>3, <1>4, <2>3, Local DEF out
<1>5. CASE /\ handler' = [handler EXCEPT ![c] = h] /\ c2s' = [c2s EXCEPT ![c] = in]
           /\ ~Up(c) /\ s2c' = s2c
  <2> HIDE DEF out
  <2>1. Right(client[c], h, in, s2c[c])
    BY <1>1, <1>2, <1>5 DEF Right, Cleared, InStep, Up
  <2>2. s2c' = [s2c EXCEPT ![c] = s2c[c]]
    BY <1>5, Here
  <2> QED
    BY <1>1, <1>2, <1>5, <2>1, <2>2, Local
<1>6. CASE /\ handler' = [handler EXCEPT ![c] = HandlerNone]
           /\ c2s' = [c2s EXCEPT ![c] = <<>>] /\ s2c' = s2c
  <2>1. Right(client[c], HandlerNone, <<>>, s2c[c])
    BY <1>1, NothingThere DEF Right, Cleared, InStep, HandlerNone
  <2>2. s2c' = [s2c EXCEPT ![c] = s2c[c]]
    BY <1>6, Here
  <2> QED
    BY <1>1, <1>6, <2>1, <2>2, NothingThere, Gone, Local
<1> QED
  BY <1>3, <1>4, <1>5, <1>6 DEF Answers, IInv, TypeOK

\* Outside, the first header says which command waits, and is all of its question.
LEMMA AskedIs ==
  ASSUME NEW pc, NEW in, Asked(pc, in), in # <<>>
  PROVE  /\ in[1].u = "header"
         /\ \/ pc = "reply" /\ in[1].type = "LOGIN_REQ" /\ Len(in) = 2
            \/ pc = "logout" /\ in[1].type = "LOGOUT_REQ" /\ Len(in) = 1
            \/ pc = "list" /\ in[1].type = "LIST_REQ" /\ Len(in) = 1
            \/ pc = "upload" /\ in[1].type = "UPL_REQ" /\ Len(in) = 2
            \/ pc = "download" /\ in[1].type = "DWL_REQ" /\ Len(in) = 2
<1>1. \A t : <<Header(t)>>[1] = Header(t) /\ Len(<<Header(t)>>) = 1
  OBVIOUS
<1> QED
  BY <1>1, Frames, Kinds DEF Asked

LEMMA Found ==
  ASSUME IInv, NEW c \in Conn, NEW mode, NEW types, Finds(c, mode, types)
  PROVE  /\ Alive(c) /\ c2s[c] # <<>> /\ c2s[c] \in Seq(ToServer)
         /\ c2s[c][1].type \in types /\ c2s[c][1] = Header(c2s[c][1].type)
         /\ handler[c].mode = mode /\ ~handler[c].torn
<1>1. /\ Alive(c) /\ c2s[c] # <<>> /\ c2s[c][1].type \in types /\ c2s[c][1].u = "header"
      /\ handler[c].mode = mode /\ ~handler[c].torn
  BY DEF Finds
<1>2. c2s[c] \in Seq(ToServer)
  BY Here
<1>3. c2s[c][1] \in ToServer
  BY <1>1, <1>2, EmptySeq
<1>4. c2s[c][1] \notin {FileName, Data, Ack}
  BY <1>1, Kinds
<1>5. c2s[c][1] = Header(c2s[c][1].type)
  BY <1>1, <1>3, <1>4 DEF ToServer, Header
<1> QED
  BY <1>1, <1>2, <1>5

\* Answers that say nothing of the flags, where no question of outside is read.
LEMMA LoopKeeps ==
  ASSUME IInv, NEW c \in Conn, NEW units \in Seq(ToClient), NEW n \in {1, 2},
         NEW h \in HandlerState, Alive(c), h.up, c2s[c] # <<>>, h.user = handler[c].user,
         ~Outside(client[c], handler[c], c2s[c], <<>>),
         handler[c].user # Nobody => Clean(units),
         Answers(c, units, n, h), UNCHANGED <<client, accounts>>
  PROVE  IInv'
<1>1. accounts' \subseteq Account
  BY Here
<1> DEFINE in == SubSeq(c2s[c], n + 1, Len(c2s[c]))
<1>2. in = SubSeq(c2s[c], n + 1, Len(c2s[c]))
  OBVIOUS
<1> HIDE DEF in
<1>3. Inside(client[c], handler[c], c2s[c], s2c[c]) => h.user # Nobody /\ Clean(units)
  BY DEF Inside
<1> QED
  BY <1>1, <1>2, <1>3, AnswersKeep

\* A refusal outside: list, upload and download.
LEMMA RefusalKeeps ==
  ASSUME IInv, NEW c \in Conn, NEW units \in Seq(ToClient), NEW n \in {1, 2},
         Alive(c), c2s[c] # <<>>, Clean(units),
         Answers(c, units, n, handler[c]), UNCHANGED <<client, accounts>>,
         Asked(client[c].pc, c2s[c]) => Denied(client[c].pc, units) /\ Len(c2s[c]) = n
  PROVE  IInv'
<1>1. accounts' \subseteq Account /\ handler[c] \in HandlerState /\ c2s[c] \in Seq(ToServer)
  BY Here
<1> DEFINE in == SubSeq(c2s[c], n + 1, Len(c2s[c]))
<1>2. in = SubSeq(c2s[c], n + 1, Len(c2s[c])) /\ (Len(c2s[c]) = n => in = <<>>)
  BY <1>1, Dropped
<1> HIDE DEF in
<1>3. Inside(client[c], handler[c], c2s[c], s2c[c]) => handler[c].user # Nobody
  BY DEF Inside
<1>4. ASSUME Outside(client[c], handler[c], c2s[c], <<>>)
      PROVE  Outside(client[c], handler[c], in, units)
  <2>1. Denied(client[c].pc, units) /\ in = <<>>
    BY <1>2, <1>4 DEF Outside
  <2> QED
    BY <1>4, <2>1 DEF Outside
<1> QED
  BY <1>1, <1>2, <1>3, <1>4, AnswersKeep DEF Alive, Handled

\* The header of a command that changes the flags: it is the only one on its way.
LEMMA ToldBy ==
  ASSUME IInv, NEW c \in Conn, NEW t \in {"LOGIN_REQ", "LOGOUT_REQ"}, Reads(c, t),
         NEW units \in Seq(ToClient), NEW h \in HandlerState, h.up,
         NEW n \in {1, 2}, n = 2 <=> t = "LOGIN_REQ",
         Answers(c, units, n, h), UNCHANGED client, accounts' \subseteq Account,
         /\ client[c].pc = (IF t = "LOGIN_REQ" THEN "reply" ELSE "logout")
         /\ client[c].logged <=> handler[c].user # Nobody
         /\ handler[c].mode = "dispatch" /\ ~handler[c].torn
         => \/ Told(client[c], h, <<>>, units)
            \/ handler[c].user = Nobody /\ Stray(client[c], units)
  PROVE  IInv'
<1>1. /\ Alive(c) /\ c2s[c] # <<>> /\ c2s[c] \in Seq(ToServer) /\ c2s[c][1] = Header(t)
      /\ c2s[c][1].type = t /\ handler[c].mode = "dispatch" /\ ~handler[c].torn
  BY Found DEF Reads
<1> DEFINE in == SubSeq(c2s[c], n + 1, Len(c2s[c]))
<1>2. in = SubSeq(c2s[c], n + 1, Len(c2s[c])) /\ (Len(c2s[c]) = n => in = <<>>)
  BY <1>1, Dropped
<1>3. 1 \in 1..Len(c2s[c])
  BY <1>1, EmptySeq
<1> HIDE DEF in
<1>4. ASSUME Inside(client[c], handler[c], c2s[c], s2c[c])
      PROVE  Told(client[c], h, in, units)
  <2>1. client[c].pc = (IF t = "LOGIN_REQ" THEN "reply" ELSE "logout") /\ Len(c2s[c]) = n
    BY <1>1, <1>3, <1>4 DEF Inside, Last
  <2> QED
    BY <1>1, <1>2, <1>4, <2>1 DEF Inside
<1>5. ASSUME Outside(client[c], handler[c], c2s[c], <<>>)
      PROVE  Handled(client[c], h, in, units)
  <2>1. Asked(client[c].pc, c2s[c])
    BY <1>1, <1>5 DEF Outside
  <2>2. client[c].pc = (IF t = "LOGIN_REQ" THEN "reply" ELSE "logout") /\ Len(c2s[c]) = n
    BY <1>1, <2>1, AskedIs
  <2> QED
    BY <1>1, <1>2, <1>5, <2>2 DEF Outside, Handled
<1> QED
  BY <1>1, <1>2, <1>4, <1>5, AnswersKeep

LEMMA SrvLoginKeeps ==
  ASSUME IInv, NEW c \in Conn, SrvLogin(c)
  PROVE  IInv'
<1> DEFINE Refused(g) == Answers(c, Framed("LOGIN_RES", Result(1)), 2, g)
<1>1. Reads(c, "LOGIN_REQ") /\ UNCHANGED <<client, accounts>>
  BY DEF SrvLogin
<1>2. /\ handler[c] \in HandlerState /\ handler[c].up /\ c2s[c] \in Seq(ToServer)
      /\ accounts \subseteq Account /\ Framing(c2s[c])
  BY <1>1, Here, Found DEF Reads, Right, Alive
<1>3. accounts' \subseteq Account
  BY <1>1, <1>2
<1>4. c2s[c][2].account \in Account
  <2>1. c2s[c] # <<>> /\ c2s[c][1] = Header(c2s[c][1].type) /\ c2s[c][1].type = "LOGIN_REQ"
    BY <1>1, Found DEF Reads
  <2> QED
    BY <1>2, <2>1, BodyFollows
<1>5. Framed("LOGIN_RES", Result(0)) \in Seq(ToClient)
      /\ Framed("LOGIN_RES", Result(1)) \in Seq(ToClient)
  BY Results
<1>6. ASSUME NEW h \in HandlerState, h.up, h.user = handler[c].user,
             h.mode = handler[c].mode, h.torn = handler[c].torn, Refused(h)
      PROVE  IInv'
  <2>1. ASSUME client[c].pc = "reply", client[c].logged <=> handler[c].user # Nobody,
               handler[c].mode = "dispatch", ~handler[c].torn
        PROVE  Told(client[c], h, <<>>, Framed("LOGIN_RES", Result(1)))
    <3>1. h.user # Nobody <=> client[c].logged \/ 1 = 0
      BY <1>6, <2>1
    <3> QED
      BY <1>6, <2>1, <3>1 DEF Told, Asking
  <2>2. Answers(c, Framed("LOGIN_RES", Result(1)), 2, h)
    BY <1>6
  <2> QED
    BY <1>1, <1>3, <1>5, <1>6, <2>1, <2>2, ToldBy
<1>7. CASE Refused(handler[c])
  BY <1>2, <1>6, <1>7
<1>8. CASE handler[c].lost < MaxFiles /\ Refused([handler[c] EXCEPT !.lost = @ + 1])
  <2> DEFINE h == [handler[c] EXCEPT !.lost = @ + 1]
  <2>1. /\ h \in HandlerState /\ h.up = handler[c].up /\ h.user = handler[c].user
        /\ h.mode = handler[c].mode /\ h.torn = handler[c].torn
    <3>1. handler[c].lost + 1 \in 0..MaxFiles
      BY <1>2, <1>8, SessionAssumption DEF HandlerState
    <3> QED
      BY <1>2, <3>1 DEF HandlerState
  <2>2. Refused(h)
    BY <1>8
  <2> HIDE DEF h
  <2> QED
    BY <1>2, <1>6, <2>1, <2>2
<1>9. ASSUME NEW a \in Account, handler[c].user = Nobody,
             Answers(c, Framed("LOGIN_RES", Result(0)), 2, [handler[c] EXCEPT !.user = a[1]])
      PROVE  IInv'
  <2> DEFINE h == [handler[c] EXCEPT !.user = a[1]]
  <2>1. a[1] \in User /\ a[1] # Nobody
    BY SessionAssumption DEF Account
  <2>2. /\ h \in HandlerState /\ h.up = handler[c].up /\ h.user # Nobody
        /\ h.mode = handler[c].mode /\ h.torn = handler[c].torn
    BY <1>2, <2>1 DEF HandlerState
  <2>3. Answers(c, Framed("LOGIN_RES", Result(0)), 2, h)
    BY <1>9
  <2> HIDE DEF h
  <2>4. ASSUME client[c].pc = "reply", handler[c].mode = "dispatch", ~handler[c].torn
        PROVE  Told(client[c], h, <<>>, Framed("LOGIN_RES", Result(0)))
    BY <2>2, <2>4 DEF Told, Asking
  <2> QED
    BY <1>1, <1>2, <1>3, <1>5, <2>2, <2>3, <2>4, ToldBy
<1> QED
  BY <1>4, <1>7, <1>8, <1>9 DEF SrvLogin

LEMMA SrvCreateKeeps ==
  ASSUME IInv, NEW c \in Conn, SrvCreate(c)
  PROVE  IInv'
<1>1. Reads(c, "LOGIN_REQ") /\ UNCHANGED client /\ handler[c].user = Nobody
  BY DEF SrvCreate
<1>2. /\ handler[c] \in HandlerState /\ handler[c].up /\ c2s[c] \in Seq(ToServer)
      /\ accounts \subseteq Account /\ Framing(c2s[c])
  BY <1>1, Here, Found DEF Reads, Right, Alive
<1>3. c2s[c][2].account \in Account
  <2>1. c2s[c] # <<>> /\ c2s[c][1] = Header(c2s[c][1].type) /\ c2s[c][1].type = "LOGIN_REQ"
    BY <1>1, Found DEF Reads
  <2> QED
    BY <1>2, <2>1, BodyFollows
<1>4. ASSUME NEW h \in HandlerState, h.up, NEW st \in {0, 1},
             Answers(c, <<Result(st)>>, 2, h), accounts' \subseteq Account
      PROVE  IInv'
  <2> DEFINE q == <<Result(st)>>
  <2>1. q \in Seq(ToClient)
    BY Results
  <2>2. q # <<>> /\ q[1] # Header("LOGIN_RES")
    BY Kinds
  <2>3. Answers(c, q, 2, h)
    BY <1>4
  <2> HIDE DEF q
  <2>4. client[c].pc = "reply" => handler[c].user = Nobody /\ Stray(client[c], q)
    BY <1>1, <2>2 DEF Stray, Asking
  <2> QED
    BY <1>1, <1>4, <2>1, <2>3, <2>4, ToldBy
<1>5. CASE UNCHANGED accounts /\ Answers(c, <<Result(1)>>, 2, handler[c])
  BY <1>2, <1>4, <1>5
<1>6. ASSUME NEW a \in Account, accounts' = accounts \cup {a},
             Answers(c, <<Result(0)>>, 2, [handler[c] EXCEPT !.user = a[1]])
      PROVE  IInv'
  <2> DEFINE h == [handler[c] EXCEPT !.user = a[1]]
  <2>1. h \in HandlerState /\ h.up = handler[c].up
    BY <1>2 DEF HandlerState, Account
  <2>2. Answers(c, <<Result(0)>>, 2, h)
    BY <1>6
  <2> HIDE DEF h
  <2> QED
    BY <1>2, <1>4, <1>6, <2>1, <2>2
<1> QED
  BY <1>3, <1>5, <1>6 DEF SrvCreate

LEMMA SrvLogoutKeeps ==
  ASSUME IInv, NEW c \in Conn, SrvLogout(c)
  PROVE  IInv'
<1> DEFINE st == IF handler[c].user = Nobody THEN 1 ELSE 0
           h == [handler[c] EXCEPT !.user = Nobody]
<1>1. /\ Reads(c, "LOGOUT_REQ") /\ UNCHANGED <<client, accounts>>
      /\ Answers(c, Framed("LOGIN_RES", Result(st)), 1, h)
  BY DEF SrvLogout
<1>2. handler[c] \in HandlerState /\ handler[c].up /\ accounts' \subseteq Account
  BY <1>1, Here, Found DEF Reads, Alive
<1>3. st \in {0, 1} /\ (handler[c].user # Nobody <=> st = 0)
  OBVIOUS
<1>4. /\ h \in HandlerState /\ h.up = handler[c].up /\ h.user = Nobody
      /\ h.mode = handler[c].mode /\ h.torn = handler[c].torn
  BY <1>2 DEF HandlerState
<1> HIDE DEF st, h
<1>5. Framed("LOGIN_RES", Result(st)) \in Seq(ToClient)
  BY <1>3, Results
<1>6. ASSUME client[c].pc = "logout", client[c].logged <=> handler[c].user # Nobody,
             handler[c].mode = "dispatch", ~handler[c].torn
      PROVE  Told(client[c], h, <<>>, Framed("LOGIN_RES", Result(st)))
  <2>1. h.user # Nobody <=> client[c].logged /\ st # 0
    BY <1>3, <1>4, <1>6
  <2> QED
    BY <1>3, <1>4, <1>6, <2>1 DEF Told, Asking
<1>7. h.up /\ UNCHANGED client
  BY <1>1, <1>2, <1>4
<1> DEFINE q == Framed("LOGIN_RES", Result(st))
<1>8. /\ q \in Seq(ToClient) /\ Answers(c, q, 1, h)
      /\ /\ client[c].pc = "logout" /\ (client[c].logged <=> handler[c].user # Nobody)
         /\ handler[c].mode = "dispatch" /\ ~handler[c].torn
         => Told(client[c], h, <<>>, q)
  BY <1>1, <1>5, <1>6
<1> HIDE DEF q
<1> QED
  BY <1>1, <1>2, <1>4, <1>7, <1>8, ToldBy

\* What a question outside cannot be: in the loop of a transfer, or with a type
\* that no command begins with.
LEMMA NotOutside ==
  ASSUME IInv, NEW c \in Conn, NEW mode, NEW types, Finds(c, mode, types),
         mode # "dispatch" \/ types \cap {"LOGIN_REQ", "LOGOUT_REQ", "LIST_REQ",
                                          "UPL_REQ", "DWL_REQ"} = {}
  PROVE  ~Outside(client[c], handler[c], c2s[c], <<>>)
<1> SUFFICES ASSUME Outside(client[c], handler[c], c2s[c], <<>>) PROVE FALSE
  OBVIOUS
<1>1. c2s[c] # <<>> /\ c2s[c][1].type \in types /\ handler[c].mode = mode
  BY Found
<1>2. Asked(client[c].pc, c2s[c]) /\ mode = "dispatch"
  BY <1>1 DEF Outside
<1>3. c2s[c][1].type \in {"LOGIN_REQ", "LOGOUT_REQ", "LIST_REQ", "UPL_REQ", "DWL_REQ"}
  BY <1>1, <1>2, AskedIs
<1> QED
  BY <1>1, <1>2, <1>3

\* The handler goes to another loop, or meets what it does not know.
LEMMA Turned ==
  ASSUME NEW h \in HandlerState, NEW mode \in {"dispatch", "chunks", "acks"},
         NEW torn \in BOOLEAN
  PROVE  /\ [h EXCEPT !.mode = mode] \in HandlerState
         /\ [h EXCEPT !.mode = mode].up = h.up /\ [h EXCEPT !.mode = mode].user = h.user
         /\ [h EXCEPT !.mode = mode, !.swallowed = TRUE] \in HandlerState
         /\ [h EXCEPT !.mode = mode, !.swallowed = TRUE].up = h.up
         /\ [h EXCEPT !.mode = mode, !.swallowed = TRUE].user = h.user
         /\ [h EXCEPT !.swallowed = TRUE] \in HandlerState
         /\ [h EXCEPT !.swallowed = TRUE].up = h.up
         /\ [h EXCEPT !.swallowed = TRUE].user = h.user
         /\ [h EXCEPT !.torn = torn, !.swallowed = TRUE] \in HandlerState
         /\ [h EXCEPT !.torn = torn, !.swallowed = TRUE].up = h.up
         /\ [h EXCEPT !.torn = torn, !.swallowed = TRUE].user = h.user
BY DEF HandlerState

\* Whoever opens a file is logged in.
LEMMA Opening ==
  ASSUME NEW c \in Conn, Opens(handler[c])
  PROVE  ~Outside(client[c], handler[c], c2s[c], <<>>)
BY DEF Opens, Outside

\* Nothing is answered to who is logged in.
LEMMA Unanswered ==
  ASSUME NEW h
  PROVE  Unasked(h) \in Seq(ToClient) /\ (h.user # Nobody => Clean(Unasked(h)))
BY Results, NothingThere DEF Unasked

LEMMA TransferServed ==
  ASSUME IInv, NEW c \in Conn, UNCHANGED <<client, accounts>>,
         \/ SrvList(c) \/ SrvUpload(c) \/ SrvChunk(c) \/ SrvComplete(c) \/ SrvBreakUpload(c)
         \/ SrvDownload(c) \/ SrvAcked(c) \/ SrvBreakDownload(c)
  PROVE  IInv'
<1>1. handler[c] \in HandlerState
  BY Here
<1>2. \A mode, types : Finds(c, mode, types) =>
        /\ Alive(c) /\ handler[c].up /\ c2s[c] # <<>> /\ c2s[c][1].type \in types
  BY Found DEF Alive
\* A question of outside is refused.
<1>3. ASSUME NEW t \in {"LIST_REQ", "UPL_REQ", "DWL_REQ"}, Reads(c, t),
             Asked(client[c].pc, c2s[c])
      PROVE  \/ t = "LIST_REQ" /\ client[c].pc = "list" /\ Len(c2s[c]) = 1
             \/ t = "UPL_REQ" /\ client[c].pc = "upload" /\ Len(c2s[c]) = 2
             \/ t = "DWL_REQ" /\ client[c].pc = "download" /\ Len(c2s[c]) = 2
  BY <1>2, <1>3, AskedIs DEF Reads
\* A loop that goes on, ends or is entered.
<1>4. ASSUME NEW mode, NEW types, Finds(c, mode, types),
             ~Outside(client[c], handler[c], c2s[c], <<>>),
             NEW units \in Seq(ToClient), Clean(units), NEW n \in {1, 2},
             NEW h \in HandlerState, h.up = handler[c].up, h.user = handler[c].user,
             Answers(c, units, n, h)
      PROVE  IInv'
  BY <1>2, <1>4, LoopKeeps
<1>5. CASE SrvList(c)
  <2>1. Reads(c, "LIST_REQ")
    BY <1>5 DEF SrvList
  <2>2. PICK st \in {0, 1} : /\ st = 0 => Opens(handler[c])
                             /\ Answers(c, Framed("LIST_RES", Listing(st)), 1, handler[c])
    BY <1>5 DEF SrvList
  <2>3. Framed("LIST_RES", Listing(st)) \in Seq(ToClient) /\ Clean(Framed("LIST_RES", Listing(st)))
    BY Results
  <2>4. CASE st = 0
    BY <1>1, <1>4, <2>1, <2>2, <2>3, <2>4, Opening DEF Reads
  <2>5. CASE st = 1
    <3>1. Asked(client[c].pc, c2s[c]) =>
            Denied(client[c].pc, Framed("LIST_RES", Listing(st))) /\ Len(c2s[c]) = 1
      BY <1>3, <2>1, <2>5 DEF Denied
    <3> QED
      BY <1>2, <2>1, <2>2, <2>3, <3>1, RefusalKeeps DEF Reads
  <2> QED
    BY <2>4, <2>5
<1>6. CASE SrvUpload(c)
  <2>1. Reads(c, "UPL_REQ")
    BY <1>6 DEF SrvUpload
  <2>2. \A st \in {0, 1} : /\ Framed("UPL_RES", Result(st)) \in Seq(ToClient)
                           /\ Clean(Framed("UPL_RES", Result(st)))
    BY Results
  <2>3. CASE /\ Opens(handler[c])
             /\ Answers(c, Framed("UPL_RES", Result(0)), 2, [handler[c] EXCEPT !.mode = "chunks"])
    BY <1>1, <1>4, <2>1, <2>2, <2>3, Opening, Turned DEF Reads
  <2>4. CASE Answers(c, Framed("UPL_RES", Result(1)), 2, handler[c])
    <3>1. Asked(client[c].pc, c2s[c]) =>
            Denied(client[c].pc, Framed("UPL_RES", Result(1))) /\ Len(c2s[c]) = 2
      BY <1>3, <2>1 DEF Denied
    <3> QED
      BY <1>2, <2>1, <2>2, <2>4, <3>1, RefusalKeeps DEF Reads
  <2> QED
    BY <1>6, <2>3, <2>4 DEF SrvUpload
<1>7. CASE SrvChunk(c)
  BY <1>1, <1>4, <1>7, NotOutside, Chunks DEF SrvChunk
<1>8. CASE SrvComplete(c)
  <2>1. Finds(c, "chunks", {"UPL_COMPLETE"})
    BY <1>8 DEF SrvComplete
  <2>2. PICK st \in {0, 1} :
          Answers(c, Framed("UPL_RES", Result(st)), 1, [handler[c] EXCEPT !.mode = "dispatch"])
    BY <1>8 DEF SrvComplete
  <2> QED
    BY <1>1, <1>4, <2>1, <2>2, NotOutside, Results, Turned
<1>9. CASE SrvBreakUpload(c)
  <2>1. PICK types : Finds(c, "chunks", types)
    BY <1>9 DEF SrvBreakUpload
  <2>2. Answers(c, <<>>, 1, [handler[c] EXCEPT !.mode = "dispatch", !.swallowed = TRUE])
    BY <1>9 DEF SrvBreakUpload
  <2> QED
    BY <1>1, <1>4, <2>1, <2>2, NotOutside, NothingThere, Turned
<1>10. CASE SrvDownload(c)
  <2>1. Reads(c, "DWL_REQ")
    BY <1>10 DEF SrvDownload
  <2>2. \A st \in {0, 1} : /\ Framed("DWL_RES", Result(st)) \in Seq(ToClient)
                           /\ Clean(Framed("DWL_RES", Result(st)))
    BY Results
  <2>3. CASE Answers(c, Framed("DWL_RES", Result(1)), 2, handler[c])
    <3>1. Asked(client[c].pc, c2s[c]) =>
            Denied(client[c].pc, Framed("DWL_RES", Result(1))) /\ Len(c2s[c]) = 2
      BY <1>3, <2>1 DEF Denied
    <3> QED
      BY <1>2, <2>1, <2>2, <2>3, <3>1, RefusalKeeps DEF Reads
  <2>4. CASE /\ Opens(handler[c])
             /\ Answers(c, Framed("DWL_RES", Result(0)) \o Framed("DWL_CHUNK", Data), 2,
                        [handler[c] EXCEPT !.mode = "acks"])
    <3>1. /\ Framed("DWL_RES", Result(0)) \o Framed("DWL_CHUNK", Data) \in Seq(ToClient)
          /\ Clean(Framed("DWL_RES", Result(0)) \o Framed("DWL_CHUNK", Data))
      BY <2>2, Chunks, AnswerAdded
    <3> QED
      BY <1>1, <1>4, <2>1, <2>4, <3>1, Opening, Turned DEF Reads
  <2>5. ASSUME Opens(handler[c]), NEW end \in Endings,
               Answers(c, Framed("DWL_RES", Result(0)) \o end, 2, handler[c])
        PROVE  IInv'
    <3>1. /\ Framed("DWL_RES", Result(0)) \o end \in Seq(ToClient)
          /\ Clean(Framed("DWL_RES", Result(0)) \o end)
      BY <2>2, Ended, AnswerAdded
    <3> QED
      BY <1>1, <1>4, <2>1, <2>5, <3>1, Opening DEF Reads
  <2> QED
    BY <1>10, <2>3, <2>4, <2>5 DEF SrvDownload
<1>11. CASE SrvAcked(c)
  <2>1. Finds(c, "acks", {"DWL_ACK"})
    BY <1>11 DEF SrvAcked
  <2>2. PICK end \in Endings :
          Answers(c, end, 2, [handler[c] EXCEPT !.mode = "dispatch"])
    BY <1>11 DEF SrvAcked
  <2> QED
    BY <1>1, <1>4, <2>1, <2>2, NotOutside, Ended, Turned
<1>12. CASE SrvBreakDownload(c)
  <2>1. PICK types : Finds(c, "acks", types)
    BY <1>12 DEF SrvBreakDownload
  <2>2. Answers(c, Final, 1, [handler[c] EXCEPT !.mode = "dispatch", !.swallowed = TRUE])
    BY <1>12 DEF SrvBreakDownload
  <2> QED
    BY <1>1, <1>4, <2>1, <2>2, NotOutside, Ended, Turned
<1> QED
  BY <1>5, <1>6, <1>7, <1>8, <1>9, <1>10, <1>11, <1>12

LEMMA HandlerKeeps ==
  ASSUME IInv, NEW c \in Conn, Request(c) \/ SrvExit(c)
  PROVE  IInv'
<1>1. CASE SrvLogin(c) \/ SrvCreate(c) \/ SrvLogout(c)
  BY <1>1, SrvLoginKeeps, SrvCreateKeeps, SrvLogoutKeeps
<1>2. CASE \/ SrvList(c) \/ SrvUpload(c) \/ SrvChunk(c) \/ SrvComplete(c)
           \/ SrvBreakUpload(c) \/ SrvDownload(c) \/ SrvAcked(c) \/ SrvBreakDownload(c)
  <2>1. UNCHANGED <<client, accounts>>
    BY <1>2 DEF SrvList, SrvUpload, SrvChunk, SrvComplete, SrvBreakUpload, SrvDownload,
                SrvAcked, SrvBreakDownload
  <2> QED
    BY <1>2, <2>1, TransferServed
<1>3. CASE SrvUnknown(c)
  <2>1. /\ Finds(c, "dispatch", {"UPL_CHUNK", "UPL_COMPLETE", "DWL_ACK"})
        /\ Answers(c, Unasked(handler[c]), 1, [handler[c] EXCEPT !.swallowed = TRUE])
        /\ UNCHANGED <<client, accounts>>
    BY <1>3 DEF SrvUnknown
  <2>2. ~Outside(client[c], handler[c], c2s[c], <<>>)
    BY <2>1, NotOutside
  <2>3. Alive(c) /\ c2s[c] # <<>> /\ handler[c].up /\ handler[c] \in HandlerState
    BY <2>1, Found, Here DEF Alive
  <2> DEFINE h == [handler[c] EXCEPT !.swallowed = TRUE]
  <2>4. h \in HandlerState /\ h.up /\ h.user = handler[c].user
    BY <2>3, Turned
  <2>5. /\ Unasked(handler[c]) \in Seq(ToClient)
        /\ handler[c].user # Nobody => Clean(Unasked(handler[c]))
    BY Unanswered
  <2>6. Answers(c, Unasked(handler[c]), 1, h)
    BY <2>1
  <2> HIDE DEF h
  <2> QED
    BY <2>1, <2>2, <2>3, <2>4, <2>5, <2>6, LoopKeeps
<1>4. CASE SrvAstray(c)
  <2>1. /\ Alive(c) /\ c2s[c] # <<>> /\ (handler[c].torn \/ c2s[c][1].u # "header")
        /\ UNCHANGED <<client, accounts>>
    BY <1>4 DEF SrvAstray
  <2>2. PICK torn \in BOOLEAN :
          Answers(c, Unasked(handler[c]), 1,
                  [handler[c] EXCEPT !.torn = torn, !.swallowed = TRUE])
    BY <1>4 DEF SrvAstray
  <2>3. ~Outside(client[c], handler[c], c2s[c], <<>>)
    BY <2>1, AskedIs DEF Outside
  <2>4. handler[c].up /\ handler[c] \in HandlerState
    BY <2>1, Here DEF Alive
  <2> DEFINE h == [handler[c] EXCEPT !.torn = torn, !.swallowed = TRUE]
  <2>5. h \in HandlerState /\ h.up /\ h.user = handler[c].user
    BY <2>4, Turned
  <2>6. /\ Unasked(handler[c]) \in Seq(ToClient)
        /\ handler[c].user # Nobody => Clean(Unasked(handler[c]))
    BY Unanswered
  <2>7. Answers(c, Unasked(handler[c]), 1, h)
    BY <2>2
  <2> HIDE DEF h
  <2> QED
    BY <2>1, <2>3, <2>4, <2>5, <2>6, <2>7, LoopKeeps
<1>5. CASE SrvExit(c)
  <2>1. /\ client[c] \in ClientState /\ s2c[c] \in Seq(ToClient) /\ accounts \subseteq Account
        /\ s2c = [s2c EXCEPT ![c] = s2c[c]] /\ client = [client EXCEPT ![c] = client[c]]
    BY Here
  <2>2. Right(client[c], HandlerNone, <<>>, s2c[c])
    BY Here, NothingThere DEF Right, Cleared, InStep, HandlerNone
  <2> QED
    BY <1>5, <2>1, <2>2, NothingThere, Gone, Local DEF SrvExit
<1> QED
  BY <1>1, <1>2, <1>3, <1>4, <1>5 DEF Request

-----------------------------------------------------------------------------
(* The invariant *)

LEMMA Begins == Init => IInv
<1> SUFFICES ASSUME Init PROVE IInv
  OBVIOUS
<1>1. TypeOK
  BY Gone, NothingThere, SessionAssumption DEF Init, TypeOK, Account
<1>2. Right(ClientOff, HandlerNone, <<>>, <<>>)
  BY NothingThere DEF Right, Cleared, InStep, ClientOff
<1> QED
  BY <1>1, <1>2 DEF Init, IInv

LEMMA Inductive == IInv /\ [Next]_vars => IInv'
<1> SUFFICES ASSUME IInv, [Next]_vars PROVE IInv'
  OBVIOUS
<1>1. CASE UNCHANGED vars
  BY <1>1 DEF vars, IInv, TypeOK
<1>2. ASSUME NEW c \in Conn, ClientStep(c) \/ UserStep(c) \/ Request(c) \/ SrvExit(c)
      PROVE  IInv'
  BY <1>2, ClientKeeps, UserKeeps, HandlerKeeps
<1> QED
  BY <1>1, <1>2 DEF Next

\* Streams stay framed; a client that has misread nothing is logged in on both
\* sides, whatever transfers have left on the streams, or on neither, and then
\* they hold one question or one answer.
THEOREM Invariance == Spec => []IInv
BY Begins, Inductive, PTL DEF Spec

\* Every variable keeps its type: no request is short of its body when
\* login_manager reads it, whatever was misread before.
THEOREM TypeCorrect == Spec => []TypeOK
<1>1. IInv => TypeOK
  BY DEF IInv
<1> QED
  BY <1>1, Invariance, PTL

\* Until an answer is misread, the two is_logged_in flags agree at the prompt.
THEOREM Agreement == Spec => []FlagsAgree
<1>1. IInv => FlagsAgree
  BY AtPrompt DEF IInv, TypeOK, FlagsAgree, Alive, Inside, Outside
<1> QED
  BY <1>1, Invariance, PTL
=============================================================================
