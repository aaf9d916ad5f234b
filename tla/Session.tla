------------------------------- MODULE Session -------------------------------
(***************************************************************************)
(* The dialogue of lab_6/uploader: the prompt of client.c against           *)
(* handle_client in server.c, with every command.  Of an upload or a        *)
(* download it keeps what it leaves on the connection: one chunk stands for *)
(* all of them, and files are the matter of Upload and Download.  A handler *)
(* is forked for each connection; users.txt is shared.                      *)
(*                                                                         *)
(* A stream is a sequence of units, one for each read() that is meant to    *)
(* take it: a header, with its type, or a body.  A header's read that meets *)
(* a body, or the rest of a unit, takes bytes that are no type of a header. *)
(***************************************************************************)
EXTENDS Integers, Sequences

CONSTANTS Conn,      \* connections: a client and the handler forked for it
          User,      \* user names
          Password,
          Known,     \* the accounts users.txt holds at first
          Commands,  \* what is typed at the prompt
          MaxFiles,  \* files a handler can have open (bound)
          Backlog,   \* units on the way with which no command is typed (bound)
          Faults,    \* the kinds of failure that may happen
          Nobody

CommandNames == {"login", "create", "logout", "list", "upload", "download",
                 "quit", "unknown"}

\* A handler killed; users.txt not opened; the directory of a user not opened or
\* not written; a file of the server not read; a file of the client not opened,
\* read or written.
FaultNames == {"kill", "users", "dir", "read", "local"}

ASSUME SessionAssumption ==
  /\ Known \subseteq User \X Password
  /\ Commands \subseteq CommandNames
  /\ MaxFiles \in Nat \ {0} /\ Backlog \in Nat \ {0}
  /\ Faults \subseteq FaultNames
  /\ Nobody \notin User

VARIABLES client,    \* [Conn -> record]: the client processes
          handler,   \* [Conn -> record]: the forked server processes
          c2s, s2c,  \* [Conn -> Seq(unit)]: the two directions of the sockets
          accounts   \* users.txt: the (name, password) pairs it holds

vars == <<client, handler, c2s, s2c, accounts>>

Account == User \X Password

Header(type) == [u |-> "header", type |-> type]
LoginBody(a, new) == [u |-> "request", account |-> a, create |-> new]
FileName == [u |-> "file"]
Data == [u |-> "data"]
Ack == [u |-> "ack"]
Result(st) == [u |-> "result", status |-> st]
\* Slip: the code takes the place of the status.
ListingCode(st) == [u |-> "listing", status |-> 2 * st]
Listing(st) == [u |-> "listing", status |-> st]

Framed(type, body) == <<Header(type), body>>

Bodies == {"LOGIN_REQ", "UPL_REQ", "UPL_CHUNK", "DWL_REQ", "DWL_ACK"}
Bare == {"LOGOUT_REQ", "LIST_REQ", "UPL_COMPLETE", "EXIT_REQ"}
ToServer == [u : {"header"}, type : Bodies \cup Bare]
            \cup [u : {"request"}, account : Account, create : BOOLEAN]
            \cup {FileName, Data, Ack}
ToClient == [u : {"header"}, type : {"LOGIN_RES", "LIST_RES", "UPL_RES", "UPL_ACK",
                                     "DWL_RES", "DWL_CHUNK"}]
            \cup [u : {"result", "listing"}, status : {0, 1}]
            \cup {Data, Ack}

(* The client waits at "reply", the read at the bottom of main's loop, which is *)
(* "astray" when nothing has been asked, at "logout" and "list", at "upload",   *)
(* "ack" and "fin" in an upload, at "download" and "copy" in a download.  sync  *)
(* is set until it misreads an answer; torn is set while the first unit of its  *)
(* stream has been read in part.                                                *)

Expected == [reply    |-> {"LOGIN_RES"}, astray |-> {"LOGIN_RES"},
             logout   |-> {"LOGIN_RES"}, list   |-> {"LIST_RES"},
             upload   |-> {"UPL_RES"},   ack    |-> {"UPL_ACK"},
             fin      |-> {"UPL_RES"},   download |-> {"DWL_RES"},
             copy     |-> {"DWL_CHUNK", "DWL_RES"}]
Waiting == DOMAIN Expected

ClientState == [pc : Waiting \cup {"off", "prompt"}, logged : BOOLEAN,
                sync : BOOLEAN, torn : BOOLEAN]

ClientOff == [pc |-> "off", logged |-> FALSE, sync |-> TRUE, torn |-> FALSE]

(* The handler reads a header in handle_client, in the loop of an upload that   *)
(* takes "chunks", or in that of a download that takes "acks".  user is Nobody  *)
(* while is_logged_in is unset; lost counts the FILEs that is_logged has left   *)
(* open; swallowed is set once a header has been taken and not acted upon.      *)

HandlerState == [up : BOOLEAN, user : User \cup {Nobody}, lost : 0..MaxFiles,
                 mode : {"dispatch", "chunks", "acks"}, torn : BOOLEAN,
                 swallowed : BOOLEAN]

HandlerNone == [up |-> FALSE, user |-> Nobody, lost |-> 0, mode |-> "dispatch",
                torn |-> FALSE, swallowed |-> FALSE]

Up(c) == client[c].pc # "off"
Reading(c) == client[c].pc \in Waiting
Alive(c) == handler[c].up

Init == /\ client = [c \in Conn |-> ClientOff]
        /\ handler = [c \in Conn |-> HandlerNone]
        /\ c2s = [c \in Conn |-> <<>>] /\ s2c = [c \in Conn |-> <<>>]
        /\ accounts = Known

-----------------------------------------------------------------------------
(* The client *)

Connect(c) ==
  /\ ~Up(c) /\ ~Alive(c)
  /\ client' = [client EXCEPT ![c].pc = "prompt"]
  /\ handler' = [handler EXCEPT ![c].up = TRUE]
  /\ UNCHANGED <<c2s, s2c, accounts>>

Types(c, name) == /\ client[c].pc = "prompt" /\ Alive(c) /\ name \in Commands
                  /\ Len(c2s[c]) + Len(s2c[c]) < Backlog

Goes(c, pc) == client' = [client EXCEPT ![c].pc = pc]

Asks(c, pc, units) == /\ Goes(c, pc)
                      /\ c2s' = [c2s EXCEPT ![c] = @ \o units]
                      /\ UNCHANGED <<handler, s2c, accounts>>

\* "login" and "create".
Enter(c, a, new) ==
  /\ Types(c, IF new THEN "create" ELSE "login")
  /\ Asks(c, "reply", Framed("LOGIN_REQ", LoginBody(a, new)))

Logout(c) == Types(c, "logout") /\ Asks(c, "logout", <<Header("LOGOUT_REQ")>>)
List(c) == Types(c, "list") /\ Asks(c, "list", <<Header("LIST_REQ")>>)
SendFile(c) == Types(c, "upload") /\ Asks(c, "upload", Framed("UPL_REQ", FileName))
FetchFile(c) == Types(c, "download") /\ Asks(c, "download", Framed("DWL_REQ", FileName))

\* An unknown command sends nothing, and yet the reply is read.
Unknown(c) == Types(c, "unknown") /\ Asks(c, "astray", <<>>)

Quit(c) ==
  /\ Types(c, "quit")
  /\ client' = [client EXCEPT ![c] = ClientOff]
  /\ c2s' = [c2s EXCEPT ![c] = Append(@, Header("EXIT_REQ"))]
  /\ s2c' = [s2c EXCEPT ![c] = <<>>]
  /\ UNCHANGED <<handler, accounts>>

\* The next answer is one of this type: a header and its body.
Answered(c, type) == /\ ~client[c].torn /\ Len(s2c[c]) >= 2
                     /\ s2c[c][1] = Header(type) /\ type \in Expected[client[c].pc]
Took(c) == s2c' = [s2c EXCEPT ![c] = Tail(Tail(@))]

\* What a transfer sends: it reaches a handler that is there.
Sends(c, units) == c2s' = IF Alive(c) THEN [c2s EXCEPT ![c] = @ \o units] ELSE c2s

\* LOGIN_RES: status 0 sets is_logged_in.
ReadReply(c) ==
  /\ client[c].pc \in {"reply", "astray"} /\ Answered(c, "LOGIN_RES") /\ Took(c)
  /\ client' = [client EXCEPT ![c].pc = "prompt",
                              ![c].logged = @ \/ s2c[c][2].status = 0]
  /\ UNCHANGED <<handler, c2s, accounts>>

\* Slip: the answer is not looked at.
ReadLogoutBlind(c) ==
  /\ client[c].pc = "logout" /\ Answered(c, "LOGIN_RES") /\ Took(c)
  /\ client' = [client EXCEPT ![c].pc = "prompt"]
  /\ UNCHANGED <<handler, c2s, accounts>>

\* Only user.username is cleared, which nobody shows.
ReadLogout(c) ==
  /\ client[c].pc = "logout" /\ Answered(c, "LOGIN_RES") /\ Took(c)
  /\ client' = [client EXCEPT ![c].pc = "prompt",
                              ![c].logged = @ /\ s2c[c][2].status # 0]
  /\ UNCHANGED <<handler, c2s, accounts>>

\* LIST_RES, or the last answer of a transfer.
ReadLast(c) ==
  /\ \/ client[c].pc = "list" /\ Answered(c, "LIST_RES")
     \/ client[c].pc = "fin" /\ Answered(c, "UPL_RES")
     \/ client[c].pc = "copy" /\ Answered(c, "DWL_RES")
  /\ Took(c) /\ Goes(c, "prompt")
  /\ UNCHANGED <<handler, c2s, accounts>>

\* The next of an upload: a chunk, or UPL_COMPLETE at the end of the file.
SendsChunk(c) == Goes(c, "ack") /\ Sends(c, Framed("UPL_CHUNK", Data))
SendsEnd(c) == Goes(c, "fin") /\ Sends(c, <<Header("UPL_COMPLETE")>>)

\* The transfer is given up, with nothing said to the handler: its file cannot
\* be opened, or not be read or written any further.
GivesUp(c) == "local" \in Faults /\ Goes(c, "prompt") /\ UNCHANGED c2s

ReadUpload(c) ==
  /\ client[c].pc = "upload" /\ Answered(c, "UPL_RES") /\ Took(c)
  /\ \/ s2c[c][2].status # 0 /\ Goes(c, "prompt") /\ UNCHANGED c2s
     \/ s2c[c][2].status = 0 /\ (SendsChunk(c) \/ SendsEnd(c) \/ GivesUp(c))
  /\ UNCHANGED <<handler, accounts>>

ReadAck(c) ==
  /\ client[c].pc = "ack" /\ Answered(c, "UPL_ACK") /\ Took(c)
  /\ SendsEnd(c) \/ GivesUp(c)
  /\ UNCHANGED <<handler, accounts>>

\* Left by a client that gives up: the first chunk, which is sent unasked.
ReadDownload(c) ==
  /\ client[c].pc = "download" /\ Answered(c, "DWL_RES") /\ Took(c)
  /\ \/ s2c[c][2].status # 0 /\ Goes(c, "prompt") /\ UNCHANGED c2s
     \/ s2c[c][2].status = 0 /\ Goes(c, "copy") /\ UNCHANGED c2s
     \/ s2c[c][2].status = 0 /\ GivesUp(c)
  /\ UNCHANGED <<handler, accounts>>

ReadCopy(c) ==
  /\ client[c].pc = "copy" /\ Answered(c, "DWL_CHUNK") /\ Took(c)
  /\ \/ Goes(c, "copy") /\ Sends(c, Framed("DWL_ACK", Ack))
     \/ GivesUp(c)
  /\ UNCHANGED <<handler, accounts>>

\* A header is read from a body, or from the rest of a unit: the read ends
\* inside that unit, with it, or inside the next one.
Misread(s, torn, rest) == \/ rest = s /\ torn
                          \/ rest = Tail(s) /\ (torn => rest # <<>>)

\* Another type than the one awaited: the command returns at once, and leaves
\* what follows to the next one.
ReadOdd(c) ==
  /\ Reading(c) /\ s2c[c] # <<>>
  /\ \E torn \in BOOLEAN, rest \in {s2c[c], Tail(s2c[c])} :
       /\ IF client[c].torn \/ s2c[c][1].u # "header"
          THEN Misread(s2c[c], torn, rest)
          ELSE /\ s2c[c][1].type \notin Expected[client[c].pc]
               /\ rest = Tail(s2c[c]) /\ ~torn
       /\ client' = [client EXCEPT ![c].pc = "prompt", ![c].sync = FALSE,
                                   ![c].torn = torn]
       /\ s2c' = [s2c EXCEPT ![c] = rest]
  /\ UNCHANGED <<handler, c2s, accounts>>

\* read() finds the connection closed: back to the prompt, if SIGPIPE has not
\* ended the client at a write before.
ClientLost(c) ==
  /\ Reading(c) /\ ~Alive(c) /\ s2c[c] = <<>>
  /\ \/ client' = [client EXCEPT ![c].pc = "prompt", ![c].torn = FALSE]
     \/ client' = [client EXCEPT ![c] = ClientOff]
  /\ UNCHANGED <<handler, c2s, s2c, accounts>>

\* "quit" on a closed connection, or SIGPIPE from another command.
Leave(c) ==
  /\ client[c].pc = "prompt" /\ ~Alive(c)
  /\ client' = [client EXCEPT ![c] = ClientOff]
  /\ s2c' = [s2c EXCEPT ![c] = <<>>]
  /\ UNCHANGED <<handler, c2s, accounts>>

-----------------------------------------------------------------------------
(* The handler *)

\* The next header it reads in this mode.
Finds(c, mode, types) ==
  /\ Alive(c) /\ handler[c].mode = mode /\ ~handler[c].torn
  /\ c2s[c] # <<>> /\ c2s[c][1].u = "header" /\ c2s[c][1].type \in types

Reads(c, type) == Finds(c, "dispatch", {type})

\* The handler answers with units, drops n units of its input, and goes on as h.
\* To a client that is gone the answer is lost, and SIGPIPE may end the handler.
Answers(c, units, n, h) ==
  \/ /\ handler' = [handler EXCEPT ![c] = h]
     /\ c2s' = [c2s EXCEPT ![c] = SubSeq(@, n + 1, Len(@))]
     /\ s2c' = IF Up(c) THEN [s2c EXCEPT ![c] = @ \o units] ELSE s2c
  \/ /\ ~Up(c) /\ units # <<>>
     /\ handler' = [handler EXCEPT ![c] = HandlerNone]
     /\ c2s' = [c2s EXCEPT ![c] = <<>>]
     /\ UNCHANGED s2c

\* fopen("users.txt") fails: no file left to open, or no users.txt.
Unopened(h) == h.lost = MaxFiles \/ "users" \in Faults

\* LOGIN_REQ for an account that exists: is_logged closes the file only when
\* it has found the account in it.
SrvLogin(c) ==
  /\ Reads(c, "LOGIN_REQ")
  /\ LET h == handler[c]
         a == c2s[c][2].account
         Refused(g) == Answers(c, Framed("LOGIN_RES", Result(1)), 2, g) IN
     \/ h.user # Nobody /\ Refused(h)
     \/ /\ h.user = Nobody /\ ~c2s[c][2].create
        /\ \/ Unopened(h) /\ Refused(h)
           \/ /\ h.lost < MaxFiles /\ a \notin accounts
              /\ Refused([h EXCEPT !.lost = @ + 1])
           \/ /\ h.lost < MaxFiles /\ a \in accounts
              /\ Answers(c, Framed("LOGIN_RES", Result(0)), 2, [h EXCEPT !.user = a[1]])
  /\ UNCHANGED <<client, accounts>>

\* LOGIN_REQ for a new account: it is appended, whoever has that name already,
\* and its user is logged in.  This answer has no header.
SrvCreate(c) ==
  /\ Reads(c, "LOGIN_REQ") /\ c2s[c][2].create
  /\ LET h == handler[c]
         a == c2s[c][2].account IN
     /\ h.user = Nobody
     /\ \/ /\ Unopened(h) /\ UNCHANGED accounts
           /\ Answers(c, <<Result(1)>>, 2, h)
        \/ /\ h.lost < MaxFiles
           /\ accounts' = accounts \cup {a}
           /\ Answers(c, <<Result(0)>>, 2, [h EXCEPT !.user = a[1]])
  /\ UNCHANGED client

SrvLogout(c) ==
  /\ Reads(c, "LOGOUT_REQ")
  /\ LET h == handler[c] IN
     Answers(c, Framed("LOGIN_RES", Result(IF h.user = Nobody THEN 1 ELSE 0)), 1,
             [h EXCEPT !.user = Nobody])
  /\ UNCHANGED <<client, accounts>>

\* Slip: only a user who is logged in is answered.
SrvListMute(c) ==
  /\ Reads(c, "LIST_REQ")
  /\ Answers(c, IF handler[c].user = Nobody THEN <<>> ELSE Framed("LIST_RES", Listing(0)),
             1, handler[c])
  /\ UNCHANGED <<client, accounts>>

\* A file or the directory of the user is opened: when somebody is logged in,
\* and a file is left to open.
Opens(h) == h.user # Nobody /\ h.lost < MaxFiles

\* LIST_REQ: the directory of the user may not exist yet.
SrvList(c) ==
  /\ Reads(c, "LIST_REQ")
  /\ \E st \in {0, 1} :
       /\ st = 0 => Opens(handler[c])
       /\ st = 1 => ~Opens(handler[c]) \/ "dir" \in Faults
       /\ Answers(c, Framed("LIST_RES", Listing(st)), 1, handler[c])
  /\ UNCHANGED <<client, accounts>>

SrvUpload(c) ==
  /\ Reads(c, "UPL_REQ")
  /\ \/ /\ Opens(handler[c])
        /\ Answers(c, Framed("UPL_RES", Result(0)), 2, [handler[c] EXCEPT !.mode = "chunks"])
     \/ /\ ~Opens(handler[c]) \/ "dir" \in Faults
        /\ Answers(c, Framed("UPL_RES", Result(1)), 2, handler[c])
  /\ UNCHANGED <<client, accounts>>

SrvChunk(c) ==
  /\ Finds(c, "chunks", {"UPL_CHUNK"})
  /\ Answers(c, Framed("UPL_ACK", Ack), 2, handler[c])
  /\ UNCHANGED <<client, accounts>>

\* Refused when the size is not the one announced, or rename() fails.
SrvComplete(c) ==
  /\ Finds(c, "chunks", {"UPL_COMPLETE"})
  /\ \E st \in {0, 1} :
       /\ st = 1 => "dir" \in Faults
       /\ Answers(c, Framed("UPL_RES", Result(st)), 1, [handler[c] EXCEPT !.mode = "dispatch"])
  /\ UNCHANGED <<client, accounts>>

\* Any other header ends the loop of the upload, and is not answered.
SrvBreakUpload(c) ==
  /\ Finds(c, "chunks", (Bodies \cup Bare) \ {"UPL_CHUNK", "UPL_COMPLETE"})
  /\ Answers(c, <<>>, 1, [handler[c] EXCEPT !.mode = "dispatch", !.swallowed = TRUE])
  /\ UNCHANGED <<client, accounts>>

\* What is said at the end of a download: an error of fread() too is followed
\* by "Download complete."
Final == Framed("DWL_RES", Result(0))
Endings == {Final} \cup (IF "read" \in Faults
                         THEN {Framed("DWL_RES", Result(1)) \o Final} ELSE {})

\* DWL_REQ: refused, or accepted; then the first chunk, or the end of an empty file.
SrvDownload(c) ==
  /\ Reads(c, "DWL_REQ")
  /\ LET h == handler[c] IN
     \/ Answers(c, Framed("DWL_RES", Result(1)), 2, h)
     \/ /\ Opens(h)
        /\ Answers(c, Framed("DWL_RES", Result(0)) \o Framed("DWL_CHUNK", Data), 2,
                   [h EXCEPT !.mode = "acks"])
     \/ /\ Opens(h)
        /\ \E end \in Endings : Answers(c, Framed("DWL_RES", Result(0)) \o end, 2, h)
  /\ UNCHANGED <<client, accounts>>

SrvAcked(c) ==
  /\ Finds(c, "acks", {"DWL_ACK"})
  /\ \E end \in Endings : Answers(c, end, 2, [handler[c] EXCEPT !.mode = "dispatch"])
  /\ UNCHANGED <<client, accounts>>

\* Any other header ends the loop of the download, as if it were complete.
SrvBreakDownload(c) ==
  /\ Finds(c, "acks", (Bodies \cup Bare) \ {"DWL_ACK"})
  /\ Answers(c, Final, 1, [handler[c] EXCEPT !.mode = "dispatch", !.swallowed = TRUE])
  /\ UNCHANGED <<client, accounts>>

\* A type handle_client does not know: only who is not logged in is answered.
Unasked(h) == IF h.user = Nobody THEN Framed("LOGIN_RES", Result(1)) ELSE <<>>

SrvUnknown(c) ==
  /\ Finds(c, "dispatch", {"UPL_CHUNK", "UPL_COMPLETE", "DWL_ACK"})
  /\ Answers(c, Unasked(handler[c]), 1, [handler[c] EXCEPT !.swallowed = TRUE])
  /\ UNCHANGED <<client, accounts>>

\* The same for what is no header at all.
SrvAstray(c) ==
  /\ Alive(c) /\ c2s[c] # <<>> /\ (handler[c].torn \/ c2s[c][1].u # "header")
  /\ \E torn \in BOOLEAN :
       /\ Misread(c2s[c], torn, Tail(c2s[c]))
       /\ Answers(c, Unasked(handler[c]), 1,
                  [handler[c] EXCEPT !.torn = torn, !.swallowed = TRUE])
  /\ UNCHANGED <<client, accounts>>

\* EXIT_REQ, end of file, or a kill.
SrvExit(c) ==
  /\ Alive(c)
  /\ Reads(c, "EXIT_REQ") \/ (~Up(c) /\ c2s[c] = <<>>) \/ "kill" \in Faults
  /\ handler' = [handler EXCEPT ![c] = HandlerNone]
  /\ c2s' = [c2s EXCEPT ![c] = <<>>]
  /\ UNCHANGED <<client, s2c, accounts>>

-----------------------------------------------------------------------------

ClientStep(c) == \/ ReadReply(c) \/ ReadLogout(c) \/ ReadLast(c) \/ ReadUpload(c)
                 \/ ReadAck(c) \/ ReadDownload(c) \/ ReadCopy(c) \/ ReadOdd(c)
                 \/ ClientLost(c)

UserStep(c) == \/ Connect(c) \/ \E a \in Account, new \in BOOLEAN : Enter(c, a, new)
               \/ Logout(c) \/ List(c) \/ SendFile(c) \/ FetchFile(c) \/ Unknown(c)
               \/ Quit(c) \/ Leave(c)

Request(c) == \/ SrvLogin(c) \/ SrvCreate(c) \/ SrvLogout(c) \/ SrvList(c)
              \/ SrvUpload(c) \/ SrvChunk(c) \/ SrvComplete(c) \/ SrvBreakUpload(c)
              \/ SrvDownload(c) \/ SrvAcked(c) \/ SrvBreakDownload(c)
              \/ SrvUnknown(c) \/ SrvAstray(c)

Next == \E c \in Conn : ClientStep(c) \/ UserStep(c) \/ Request(c) \/ SrvExit(c)

Spec == Init /\ [][Next]_vars

\* Every process that can run is run; the user owes nothing.
FairSpec == Spec /\ \A c \in Conn : WF_vars(ClientStep(c)) /\ WF_vars(Request(c))

-----------------------------------------------------------------------------
(* Properties *)

\* Every variable keeps its type: the two processes, the streams, users.txt.
TypeOK == /\ client \in [Conn -> ClientState]
          /\ handler \in [Conn -> HandlerState]
          /\ c2s \in [Conn -> Seq(ToServer)]
          /\ s2c \in [Conn -> Seq(ToClient)]
          /\ accounts \subseteq Account

\* Until an answer is misread, the two is_logged_in flags agree at the prompt:
\* refused and repeated logins, logouts, lists, and transfers given up half way
\* or answered twice, change both or none.
FlagsAgree ==
  \A c \in Conn : client[c].pc = "prompt" /\ client[c].sync /\ Alive(c) =>
    (client[c].logged <=> handler[c].user # Nobody)

\* "Plese login or create an account" (client.c:584): whoever the server has
\* logged in, by either of the two, is logged in for the client.
EntersByEither ==
  \A c \in Conn : client[c].pc = "prompt" /\ Alive(c) /\ handler[c].user # Nobody =>
    client[c].logged

\* Every command that is sent returns to the prompt, or the client ends,
\* whatever was misread before it, unless the handler has swallowed a header:
\* one that met the loop of a transfer given up (server.c:426, 662), or a type
\* that it does not know (server.c:866).
CommandEnds ==
  \A c \in Conn : client[c].pc \in Waiting \ {"astray"} ~>
                  client[c].pc \in {"prompt", "off"} \/ handler[c].swallowed
=============================================================================
