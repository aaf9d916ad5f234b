------------------------------- MODULE Download -------------------------------
(***************************************************************************)
(* The download of lab_6/uploader: download_manager_client in client.c      *)
(* against download_manager_server in server.c, over one connection, while  *)
(* uploads of the same user go on replacing the stored file.  The server    *)
(* opens the file first and computes its SHA-256 afterwards, by path.  The  *)
(* digest of a file is its version, NoFile the zeros of one that could not  *)
(* be computed.  chunk_no and the messages for the user are left out.       *)
(***************************************************************************)
EXTENDS FileData

CONSTANTS BufferSize,  \* BUFFER_SIZE of share.h
          Faults,      \* the kinds of failure that may happen
          MaxFaults,   \* how many of them (bound)
          Backlog      \* messages on the way with which no command is typed (bound)

FaultKinds == {"corrupt",  \* a chunk arrives with a CRC that does not match
               "short",    \* read() of a chunk returns less than all of it
               "io",       \* an I/O error on the server
               "local",    \* an I/O error on the client
               "digest",   \* SHA-256 cannot be computed
               "kill",     \* the handler dies
               "replace"}  \* an upload publishes another version of the file

ASSUME DownloadAssumption ==
  /\ Size \in [Version -> Nat]
  /\ Version # {} /\ NoFile \notin Version
  /\ BufferSize \in Nat \ {0}
  /\ Faults \subseteq FaultKinds
  /\ MaxFaults \in Nat /\ Backlog \in Nat \ {0}

VARIABLES client, handler,  \* the two processes
          c2s, s2c,         \* the two directions of the socket
          stored,           \* the version at storage/<user>/<name>
          local,            \* <name>.part and <name> in the client's directory
          faults            \* failures so far

vars == <<client, handler, c2s, s2c, stored, local, faults>>

Digest == Version \cup {NoFile}

Req          == [t |-> "req"]
ListReq      == [t |-> "list"]
ExitReq      == [t |-> "exit"]
\* Slip: the offset of the chunk before.
AckBehind(st, off) == [t |-> "ack", status |-> st, off |-> off - BufferSize]
Ack(st, off) == [t |-> "ack", status |-> st, off |-> off]

Res(st, size, sha) == [t |-> "res", status |-> st, size |-> size, sha |-> sha]
Chunk(at, d, b)    == [t |-> "chunk", at |-> at, data |-> d, ok |-> b]
ListRes            == [t |-> "list"]

ToServer == [t : {"req", "list", "exit"}] \cup [t : {"ack"}, status : {0, 1}, off : Nat]
ToClient == [t : {"res"}, status : {0, 1}, size : Nat, sha : Digest]
            \cup [t : {"chunk"}, at : Nat, data : Seq(Datum), ok : BOOLEAN]
            \cup [t : {"list"}]

-----------------------------------------------------------------------------
(* The client: "res" and "list" wait for the first answer to a download or  *)
(* to a list, "loop" is the loop over chunks.  cur is cur_offset.  sync is  *)
(* FALSE, on either side, once part of a message has been left unread.      *)

Busy == {"res", "list", "loop"}

ClientState == [pc : {"off", "prompt"} \cup Busy, sync : BOOLEAN, cur : Nat,
                report : {"none", "ok", "unchecked", "refused", "failed", "size",
                          "mismatch"}]

ClientOff == [pc |-> "off", sync |-> TRUE, cur |-> 0, report |-> "none"]

\* download_manager_client has returned, having told the user r.
Returned(k, r) == [k EXCEPT !.pc = "prompt", !.cur = 0, !.report = r]

(* The handler: "dispatch" is the read of handle_client; "hash" lies between *)
(* fopen and sha256_file_path, "send" before an fread, "await" before an     *)
(* ACK.  ver is the version behind FILE* f and pos its position.             *)

HandlerState == [pc : {"none", "dispatch", "hash", "send", "await"},
                 logged : BOOLEAN, sync : BOOLEAN, ver : Version, sha : Digest,
                 off : Nat, pos : Nat]

HandlerIdle(b) == [pc |-> "dispatch", logged |-> b, sync |-> TRUE,
                   ver |-> CHOOSE v \in Version : TRUE, sha |-> NoFile,
                   off |-> 0, pos |-> 0]
HandlerNone == [HandlerIdle(FALSE) EXCEPT !.pc = "none"]

Up == client.pc # "off"
Alive == handler.pc # "none"

Init == /\ client = ClientOff
        /\ handler = HandlerNone
        /\ c2s = <<>> /\ s2c = <<>>
        /\ stored \in Digest
        /\ local = [part |-> NoFile, final |-> NoFile]
        /\ faults = 0

Fault(kind) == /\ kind \in Faults
               /\ faults < MaxFaults
               /\ faults' = faults + 1

NoFault == faults' = faults

-----------------------------------------------------------------------------
(* The client *)

Connect ==
  /\ ~Up /\ ~Alive
  /\ client' = [ClientOff EXCEPT !.pc = "prompt"]
  /\ \E b \in BOOLEAN : handler' = HandlerIdle(b)
  /\ UNCHANGED <<c2s, s2c, stored, local, faults>>

\* "download <name>" or "list"
Ask ==
  /\ client.pc = "prompt" /\ Alive
  /\ Len(c2s) + Len(s2c) < Backlog
  /\ \/ /\ client' = [client EXCEPT !.pc = "res", !.report = "none"]
        /\ c2s' = Append(c2s, Req)
     \/ /\ client' = [client EXCEPT !.pc = "list", !.report = "none"]
        /\ c2s' = Append(c2s, ListReq)
  /\ UNCHANGED <<handler, s2c, stored, local, faults>>

Receive(p, t) == /\ client.pc = p /\ client.sync
                 /\ s2c # <<>> /\ Head(s2c).t = t /\ s2c' = Tail(s2c)

\* Written to a handler that is gone, m is lost; ClientLost does the rest.
Tells(m) == c2s' = IF Alive THEN Append(c2s, m) ELSE c2s

\* The first DWL_RES: with status 0 the local .part is started afresh.
ClientRes ==
  /\ Receive("res", "res")
  /\ \/ /\ Head(s2c).status # 0
        /\ client' = Returned(client, "refused") /\ NoFault /\ UNCHANGED local
     \/ /\ Head(s2c).status = 0
        /\ client' = [client EXCEPT !.pc = "loop", !.cur = 0]
        /\ local' = [local EXCEPT !.part = <<>>] /\ NoFault
     \/ /\ Head(s2c).status = 0 /\ Fault("local")
        /\ client' = Returned(client, "failed") /\ UNCHANGED local
  /\ UNCHANGED <<handler, c2s, stored>>

\* A chunk is written where it says and acknowledged.  With a CRC that does
\* not match, or read only in part, it is asked for again from cur_offset.  A
\* local error ends the download without an answer.
ClientChunk ==
  /\ client.pc = "loop" /\ client.sync /\ s2c # <<>> /\ Head(s2c).t = "chunk"
  /\ LET m == Head(s2c)
         cur == m.at + Len(m.data) IN
     \/ /\ m.ok /\ NoFault
        /\ client' = [client EXCEPT !.cur = cur]
        /\ local' = [local EXCEPT !.part = WriteAt(@, m.at, m.data)]
        /\ Tells(Ack(0, cur)) /\ s2c' = Tail(s2c)
     \/ /\ ~m.ok /\ NoFault
        /\ Tells(Ack(1, client.cur)) /\ s2c' = Tail(s2c)
        /\ UNCHANGED <<client, local>>
     \/ /\ Fault("short")
        /\ client' = [client EXCEPT !.sync = FALSE]
        /\ Tells(Ack(1, client.cur))
        /\ UNCHANGED <<local, s2c>>
     \/ /\ m.ok /\ Fault("local")
        /\ client' = Returned(client, "failed") /\ s2c' = Tail(s2c)
        /\ UNCHANGED <<local, c2s>>
  /\ UNCHANGED <<handler, stored>>

\* Slip: a file of the right size is taken for the right file.
ClientFinalTrusts ==
  /\ Receive("loop", "res")
  /\ \/ /\ client' = Returned(client, "ok") /\ NoFault
        /\ local' = [part |-> NoFile, final |-> local.part]
     \/ /\ Fault("local") /\ client' = Returned(client, "ok")
        /\ \E k \in 0..(Len(local.part) - 1) :
             local' = [part |-> NoFile, final |-> Prefix(local.part, k)]
  /\ UNCHANGED <<handler, c2s, stored>>

\* The last DWL_RES: .part is closed, its size and digest are compared (not
\* when the digest cannot be computed), and it is renamed.  A local error is
\* one of the rename, or of fclose, which loses bytes and is not checked.
ClientFinal ==
  LET m == Head(s2c)
      Kept(r) == client' = Returned(client, r) /\ UNCHANGED local
      Right == \E v \in Version : v = m.sha /\ local.part = Content(v)
      Renamed(r) == /\ client' = Returned(client, r)
                    /\ local' = [part |-> NoFile, final |-> local.part] IN
  /\ Receive("loop", "res")
  /\ \/ m.status # 0 /\ Kept("refused") /\ NoFault
     \/ m.status = 0 /\ client.cur # m.size /\ Kept("size") /\ NoFault
     \/ /\ m.status = 0 /\ client.cur = m.size
        /\ \/ Right /\ Renamed("ok") /\ NoFault
           \/ ~Right /\ Kept("mismatch") /\ NoFault
           \/ Fault("digest") /\ Renamed("unchecked")
           \/ Fault("local") /\ Right /\ Kept("failed")
           \/ /\ Fault("local") /\ client' = Returned(client, "mismatch")
              /\ \E k \in 0..(Len(local.part) - 1) :
                   local' = [local EXCEPT !.part = Prefix(@, k)]
  /\ UNCHANGED <<handler, c2s, stored>>

ClientList ==
  /\ Receive("list", "list")
  /\ client' = Returned(client, "none")
  /\ UNCHANGED <<handler, c2s, stored, local, faults>>

\* A header of another type, or bytes read out of step: back to the prompt,
\* with the body that belongs to it unread.
ClientOdd ==
  /\ client.pc \in Busy /\ s2c # <<>>
  /\ \/ ~client.sync
     \/ client.pc = "res" /\ Head(s2c).t # "res"
     \/ client.pc = "list" /\ Head(s2c).t # "list"
  /\ client' = [Returned(client, "failed") EXCEPT !.sync = FALSE]
  /\ UNCHANGED <<handler, c2s, s2c, stored, local, faults>>

\* The handler is gone: end of file, an error, or SIGPIPE.
ClientLost ==
  /\ client.pc \in Busy /\ ~Alive /\ s2c = <<>>
  /\ client' \in {Returned(client, "failed"), ClientOff}
  /\ UNCHANGED <<handler, c2s, s2c, stored, local, faults>>

\* "quit" at the prompt, or the client is killed.
ClientStops ==
  /\ Up /\ client' = ClientOff
  /\ c2s' = IF client.pc = "prompt" /\ Alive THEN Append(c2s, ExitReq) ELSE c2s
  /\ s2c' = <<>>
  /\ UNCHANGED <<handler, stored, local, faults>>

-----------------------------------------------------------------------------
(* The handler *)

Reads(p, t) == /\ handler.pc = p /\ handler.sync
               /\ c2s # <<>> /\ Head(c2s).t = t

\* The handler sends ms and goes on as h with q left to read, unless the client
\* is gone and SIGPIPE ends it.
Sends(ms, h, q) ==
  \/ handler' = h /\ c2s' = q /\ s2c' = IF Up THEN s2c \o ms ELSE s2c
  \/ ~Up /\ handler' = HandlerNone /\ c2s' = <<>> /\ UNCHANGED s2c

Closed(h) == [h EXCEPT !.pc = "dispatch", !.off = 0, !.pos = 0, !.sha = NoFile]

\* The DWL_RES after the loop: its status is 0 however the loop was left.
Final == Res(0, Size[handler.ver], handler.sha)

\* DWL_REQ: refuse, or open the file and measure it.
SrvRequest ==
  /\ Reads("dispatch", "req")
  /\ \/ /\ IF handler.logged /\ stored # NoFile THEN Fault("io") ELSE NoFault
        /\ Sends(<<Res(1, 0, NoFile)>>, handler, Tail(c2s))
     \/ /\ handler.logged /\ stored # NoFile /\ NoFault
        /\ handler' = [handler EXCEPT !.pc = "hash", !.ver = stored]
        /\ c2s' = Tail(c2s) /\ UNCHANGED s2c
  /\ UNCHANGED <<client, stored, local>>

\* sha256_file_path opens the path again.  Then the first DWL_RES.
SrvHash ==
  /\ handler.pc = "hash"
  /\ \E d \in {stored, NoFile} :
       /\ IF d = stored THEN NoFault ELSE Fault("digest")
       /\ Sends(<<Res(0, Size[handler.ver], d)>>, 
                [handler EXCEPT !.pc = "send", !.sha = d], c2s)
  /\ UNCHANGED <<client, stored, local>>

\* fread: a chunk, the end of the file, or an error, which is reported before
\* the end is.
SrvSend ==
  LET h == handler
      n == Least(BufferSize, Size[h.ver] - h.pos) IN
  /\ h.pc = "send"
  /\ \/ /\ n > 0
        /\ \E b \in BOOLEAN :
             /\ IF b THEN NoFault ELSE Fault("corrupt")
             /\ Sends(<<Chunk(h.off, SubSeq(Content(h.ver), h.pos + 1, h.pos + n), b)>>,
                      [h EXCEPT !.pc = "await", !.pos = h.pos + n], c2s)
     \/ n = 0 /\ NoFault /\ Sends(<<Final>>, Closed(h), c2s)
     \/ Fault("io") /\ Sends(<<[Final EXCEPT !.status = 1], Final>>, Closed(h), c2s)
  /\ UNCHANGED <<client, stored, local>>

\* Slip: offset follows the NACK, the file position does not.
SrvAckNoSeek ==
  LET h == handler
      m == Head(c2s) IN
  /\ Reads("await", "ack")
  /\ \/ m.status # 0 /\ Sends(<<>>, [h EXCEPT !.pc = "send", !.off = m.off], Tail(c2s))
     \/ /\ m.status = 0
        /\ IF h.pos < Size[h.ver]
           THEN Sends(<<>>, [h EXCEPT !.pc = "send", !.off = h.pos], Tail(c2s))
           ELSE Sends(<<Final>>, Closed(h), Tail(c2s))
  /\ UNCHANGED <<client, stored, local, faults>>

\* Slip: after a NACK the next answer is awaited.
SrvAckWaits ==
  LET h == handler
      m == Head(c2s) IN
  /\ Reads("await", "ack")
  /\ \/ m.status # 0 /\ Sends(<<>>, h, Tail(c2s))
     \/ /\ m.status = 0
        /\ IF h.pos < Size[h.ver]
           THEN Sends(<<>>, [h EXCEPT !.pc = "send", !.off = h.pos], Tail(c2s))
           ELSE Sends(<<Final>>, Closed(h), Tail(c2s))
  /\ UNCHANGED <<client, stored, local, faults>>

\* DWL_ACK: after a NACK the file is read again from the offset it names (the
\* download ends if that fails); after an ACK it goes on, or is complete.
SrvAck ==
  LET h == handler
      m == Head(c2s)
      off == Least(m.off, Size[h.ver])
      Goes(to) == /\ handler' = [h EXCEPT !.pc = "send", !.off = to, !.pos = to]
                  /\ c2s' = Tail(c2s) /\ UNCHANGED s2c
      Ends == Sends(<<Final>>, Closed(h), Tail(c2s)) IN
  /\ Reads("await", "ack")
  /\ \/ m.status # 0 /\ Goes(off) /\ NoFault
     \/ m.status # 0 /\ Ends /\ Fault("io")
     \/ m.status = 0 /\ h.pos < Size[h.ver] /\ Goes(h.pos) /\ NoFault
     \/ m.status = 0 /\ h.pos >= Size[h.ver] /\ Ends /\ NoFault
  /\ UNCHANGED <<client, stored, local>>

\* Anything else ends the loop: end of file, or another header, of which only
\* the header is read.
SrvBreak ==
  LET h == Closed(handler) IN
  /\ handler.pc = "await"
  /\ \/ c2s = <<>> /\ ~Up /\ Sends(<<Final>>, h, c2s)
     \/ /\ c2s # <<>> /\ Head(c2s).t \in {"list", "exit"}
        /\ Sends(<<Final>>, h, Tail(c2s))
     \/ /\ c2s # <<>> /\ Head(c2s).t = "req"
        /\ Sends(<<Final>>, [h EXCEPT !.sync = FALSE], c2s)
  /\ UNCHANGED <<client, stored, local, faults>>

SrvList ==
  /\ Reads("dispatch", "list")
  /\ Sends(<<ListRes>>, handler, Tail(c2s))
  /\ UNCHANGED <<client, stored, local, faults>>

\* handle_client has no answer to bytes out of step, for a user logged in.
SrvIgnore ==
  /\ handler.pc = "dispatch" /\ ~handler.sync /\ c2s # <<>>
  /\ c2s' = Tail(c2s)
  /\ UNCHANGED <<client, handler, s2c, stored, local, faults>>

\* EXIT_REQ, or end of file.
SrvExit ==
  /\ \/ Reads("dispatch", "exit")
     \/ handler.pc = "dispatch" /\ c2s = <<>> /\ ~Up
  /\ handler' = HandlerNone /\ c2s' = <<>>
  /\ UNCHANGED <<client, s2c, stored, local, faults>>

SrvKilled ==
  /\ Alive /\ Fault("kill")
  /\ handler' = HandlerNone /\ c2s' = <<>>
  /\ UNCHANGED <<client, s2c, stored, local>>

\* Another connection of the user publishes a version of the file.
Replace ==
  /\ Fault("replace")
  /\ stored' \in Version \ {stored}
  /\ UNCHANGED <<client, handler, c2s, s2c, local>>

-----------------------------------------------------------------------------

ClientStep == ClientRes \/ ClientChunk \/ ClientFinal \/ ClientList \/ ClientOdd \/ ClientLost

HandlerStep == \/ SrvRequest \/ SrvHash \/ SrvSend \/ SrvAck \/ SrvBreak
               \/ SrvList \/ SrvIgnore \/ SrvExit

Next == \/ ClientStep \/ HandlerStep
        \/ Connect \/ Ask \/ ClientStops \/ SrvKilled \/ Replace

Spec == Init /\ [][Next]_vars

\* Both processes are run; nobody has to type, and nothing has to fail.
FairSpec == Spec /\ WF_vars(ClientStep) /\ WF_vars(HandlerStep)

-----------------------------------------------------------------------------
(* Properties *)

\* Every variable keeps its type: the two processes, the messages, the files.
TypeOK == /\ client \in ClientState
          /\ handler \in HandlerState
          /\ c2s \in Seq(ToServer)
          /\ s2c \in Seq(ToClient)
          /\ stored \in Digest
          /\ local \in [part : File, final : File]
          /\ faults \in 0..MaxFaults

\* What the client renames to its final name and reports as downloaded is one
\* whole version of the stored file, never a mixture or a part of one
\* (client.c:480, 491), unless the user is warned that it was not checked
\* (client.c:489).
FetchedWhole == client.report = "ok" => \E v \in Version : local.final = Content(v)

\* While a transfer is on, .part is the start, up to cur_offset, of the version
\* the server has opened, whatever was NACKed or replaced meanwhile.
PartFollows ==
  client.pc = "loop" /\ client.sync /\ handler.pc \in {"send", "await"} =>
    local.part = Prefix(Content(handler.ver), client.cur)

InStep == client.sync /\ handler.sync

\* A command ends: the user gets the prompt back, or the client is gone, unless
\* client and handler no longer agree on where messages begin.
DownloadEnds == client.pc \in Busy /\ InStep ~> client.pc \in {"prompt", "off"} \/ ~InStep
=============================================================================
