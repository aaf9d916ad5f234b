-------------------------------- MODULE Upload --------------------------------
(***************************************************************************)
(* The resumable upload of lab_6/uploader: upload_manager_client in         *)
(* client.c against upload_manager_server in server.c.  The server forks    *)
(* one handler per connection; all handlers share the storage directory.    *)
(* A file is staged under "<name>.part" and renamed when it is complete.    *)
(*                                                                         *)
(* A chunk carries "ok", whether its CRC matches its data; chunk_no is left *)
(* out (it is only printed).  A connection belongs to one (user, file name) *)
(* pair.  What the other commands of the session do is left to Session and  *)
(* Download, but for the bytes they may leave unread in front of an upload. *)
(***************************************************************************)
EXTENDS FileData

CONSTANTS Conn,        \* connections: a client and the handler forked for it
          Name,        \* (user, file name) pairs: paths below storage/
          NameOf,      \* the path a connection uploads to
          BufferSize,  \* BUFFER_SIZE of share.h
          Backlog,     \* messages waiting where an upload may start (bound)
          Faults,      \* the kinds of failure that may happen
          MaxFaults    \* how many of them (bound)

FaultKinds == {"corrupt", "short", "io", "kill", "abort", "edit"}

ASSUME UploadAssumption ==
  /\ NameOf \in [Conn -> Name]
  /\ Version # {}
  /\ Size \in [Version -> Nat \ {0}]     \* client.c:70 refuses an empty file
  /\ BufferSize \in Nat \ {0}
  /\ Backlog \in Nat
  /\ Faults \subseteq FaultKinds
  /\ MaxFaults \in Nat
  /\ Hole \notin Datum
  /\ NoFile \notin Seq(Byte)

VARIABLES client,   \* [Conn -> record]: the client process
          handler,  \* [Conn -> record]: the forked server process
          c2s, s2c, \* [Conn -> Seq(message)]: the two directions of the socket
          disk,     \* [Name -> [part, final]]: storage/<user>/<name>[.part]
          faults    \* failures so far

vars == <<client, handler, c2s, s2c, disk, faults>>

\* The disk after d is written to the file that is now linked at n/w; a file
\* that is linked nowhere any more takes the bytes with it.
Put(n, w, at, d, dk) ==
  IF d = <<>> THEN dk
  ELSE IF w = "part" THEN [dk EXCEPT ![n].part = WriteAt(@, at, d)]
  ELSE IF w = "final" THEN [dk EXCEPT ![n].final = WriteAt(@, at, d)]
  ELSE dk

-----------------------------------------------------------------------------
(* Messages, packet_header_t and body together. *)

Req(n)          == [t |-> "req", size |-> n]
Chunk(at, d, b) == [t |-> "chunk", at |-> at, data |-> d, ok |-> b]
Complete        == [t |-> "complete"]
ExitReq         == [t |-> "exit"]
Res(st, off)    == [t |-> "res", status |-> st, off |-> off]
\* Slip: an acknowledgement under the header of an UPL_RES.
AckAsRes(st, off) == Res(st, off)
Ack(st, off)    == [t |-> "ack", status |-> st, off |-> off]
\* Bytes of an earlier command's answer: no header that an upload waits for.
Left            == [t |-> "left"]

ToServer == [t : {"req"}, size : Nat] \cup [t : {"complete", "exit"}]
            \cup [t : {"chunk"}, at : Nat, data : Seq(Datum), ok : BOOLEAN]
ToClient == [t : {"res", "ack"}, status : {0, 1}, off : Nat] \cup [t : {"left"}]

-----------------------------------------------------------------------------
(* The client process: pc "off" (not running), "prompt", or inside          *)
(* upload_manager_client waiting for the first UPL_RES ("req"), about to    *)
(* read the file ("send"), waiting for UPL_ACK ("ack") or for the final     *)
(* UPL_RES ("fin").  pos is the file position of f, off is cur_offset.      *)
(* sync is FALSE once an earlier command left part of an answer unread.     *)

Busy == {"req", "send", "ack", "fin"}

ClientState == [pc : {"off", "prompt"} \cup Busy, ver : Version, size : Nat,
                pos : Nat, off : Nat, report : {"none", "ok", "err"},
                sync : BOOLEAN]

ClientOff == [pc |-> "off", ver |-> CHOOSE v \in Version : TRUE, size |-> 0,
              pos |-> 0, off |-> 0, report |-> "none", sync |-> TRUE]

\* The process of k has ended.
Off(k) == [ClientOff EXCEPT !.sync = k.sync]

\* upload_manager_client has returned, having told the user r.
Returned(k, r) == [Off(k) EXCEPT !.pc = "prompt", !.size = k.size, !.report = r]

(* The handler: "dispatch" is the read of handle_client; "open" lies        *)
(* between file_exists_partial and fopen, "publish" between fclose and      *)
(* rename, "down" is a download waiting for its DWL_ACK.  file says where   *)
(* the file behind the FILE* "part" is linked now; at and data are the      *)
(* bytes stdio still buffers.  sync is FALSE once part of a message was     *)
(* left unread: all that follows is read out of step.                       *)

HandlerState == [pc : {"none", "dispatch", "open", "chunk", "publish", "down"},
                 logged : BOOLEAN, sync : BOOLEAN, size : Nat,
                 exists : BOOLEAN, old : Nat, off : Nat,
                 file : {"none", "part", "final", "gone"},
                 at : Nat, data : Seq(Datum)]

HandlerIdle(b) == [pc |-> "dispatch", logged |-> b, sync |-> TRUE, size |-> 0,
                   exists |-> FALSE, old |-> 0, off |-> 0, file |-> "none",
                   at |-> 0, data |-> <<>>]
HandlerNone == [HandlerIdle(FALSE) EXCEPT !.pc = "none"]

Up(c) == client[c].pc # "off"
Alive(c) == handler[c].pc # "none"

Init == /\ client = [c \in Conn |-> ClientOff]
        /\ handler = [c \in Conn |-> HandlerNone]
        /\ c2s = [c \in Conn |-> <<>>]
        /\ s2c = [c \in Conn |-> <<>>]
        /\ disk = [n \in Name |-> [part |-> NoFile, final |-> NoFile]]
        /\ faults = 0

Fault(kind) == /\ kind \in Faults
               /\ faults < MaxFaults
               /\ faults' = faults + 1

NoFault == faults' = faults

-----------------------------------------------------------------------------
(* The client *)

\* connect() and accept() + fork(); the user may log in on the connection first.
Connect(c) ==
  /\ ~Up(c) /\ ~Alive(c)
  /\ client' = [client EXCEPT ![c] = [ClientOff EXCEPT !.pc = "prompt"]]
  /\ \E b \in BOOLEAN : handler' = [handler EXCEPT ![c] = HandlerIdle(b)]
  /\ UNCHANGED <<c2s, s2c, disk, faults>>

\* Another command leaves part of its answer unread: a "create", whose answer
\* has no header; the rest of a short read, or the second answer to a download
\* whose fread failed; a chunk of a download whose local .part does not open.
LeaveUnread(c) ==
  /\ client[c].pc = "prompt" /\ client[c].sync
  /\ handler[c].pc = "dispatch" /\ handler[c].sync /\ c2s[c] = <<>>
  /\ client' = [client EXCEPT ![c] = [@ EXCEPT !.sync = FALSE]]
  /\ s2c' = [s2c EXCEPT ![c] = <<Left>>]
  /\ \/ /\ ~handler[c].logged /\ NoFault
        /\ \E b \in BOOLEAN : handler' = [handler EXCEPT ![c] = HandlerIdle(b)]
     \/ /\ Fault("short") \/ (handler[c].logged /\ Fault("io"))
        /\ UNCHANGED handler
     \/ /\ handler[c].logged /\ Fault("abort")
        /\ handler' = [handler EXCEPT ![c] = [@ EXCEPT !.pc = "down"]]
  /\ UNCHANGED <<c2s, disk>>

\* "upload <path>": the size is taken, then UPL_REQ is sent.
StartUpload(c) ==
  /\ client[c].pc = "prompt" /\ Alive(c)
  /\ Len(c2s[c]) + Len(s2c[c]) < Backlog
  /\ \E v \in Version :
       /\ client' = [client EXCEPT ![c] =
                       [@ EXCEPT !.pc = "req", !.ver = v, !.size = Size[v],
                                 !.report = "none"]]
       /\ c2s' = [c2s EXCEPT ![c] = Append(@, Req(Size[v]))]
  /\ UNCHANGED <<handler, s2c, disk, faults>>

Receive(c, t) == s2c[c] # <<>> /\ Head(s2c[c]).t = t
Received(c) == s2c' = [s2c EXCEPT ![c] = Tail(@)]

\* Where the answer is due the header read is stale bytes, whose rest may stay.
ClientInvalid(c) ==
  /\ client[c].pc = "req" /\ ~client[c].sync /\ s2c[c] # <<>>
  /\ client' = [client EXCEPT ![c] = Returned(@, "err")]
  /\ Received(c) \/ UNCHANGED s2c
  /\ UNCHANGED <<handler, c2s, disk, faults>>

\* The first UPL_RES.  The file is opened only now: under "edit" it has been
\* replaced since its size was announced.
ClientRes(c) ==
  /\ client[c].pc = "req" /\ client[c].sync /\ Receive(c, "res") /\ Received(c)
  /\ LET m == Head(s2c[c]) IN
     \/ /\ m.status # 0
        /\ client' = [client EXCEPT ![c] = Returned(@, "err")]
        /\ NoFault
     \/ /\ m.status = 0
        /\ \E v \in Version :
             /\ client' = [client EXCEPT ![c] =
                  [@ EXCEPT !.pc = "send", !.ver = v, !.pos = m.off, !.off = m.off]]
             /\ IF v = client[c].ver THEN NoFault ELSE Fault("edit")
  /\ UNCHANGED <<handler, c2s, disk>>

\* fread of up to BUFFER_SIZE bytes at pos, labelled with cur_offset.
SendChunk(c) ==
  LET k == client[c]
      n == Least(BufferSize, Size[k.ver] - k.pos) IN
  /\ k.pc = "send" /\ Alive(c)
  /\ k.pos < Size[k.ver]
  /\ client' = [client EXCEPT ![c] = [@ EXCEPT !.pc = "ack", !.pos = k.pos + n]]
  /\ \E b \in BOOLEAN :
       /\ c2s' = [c2s EXCEPT ![c] =
            Append(@, Chunk(k.off, SubSeq(Content(k.ver), k.pos + 1, k.pos + n), b))]
       /\ IF b THEN NoFault ELSE Fault("corrupt")
  /\ UNCHANGED <<handler, s2c, disk>>

\* fread returns 0 at end of file: UPL_COMPLETE.
SendComplete(c) ==
  /\ client[c].pc = "send" /\ Alive(c)
  /\ client[c].pos >= Size[client[c].ver]
  /\ client' = [client EXCEPT ![c] = [@ EXCEPT !.pc = "fin"]]
  /\ c2s' = [c2s EXCEPT ![c] = Append(@, Complete)]
  /\ UNCHANGED <<handler, s2c, disk, faults>>

\* Slip: a NACK without fseek, so that reading goes on behind the lost chunk.
ClientAckNoSeek(c) ==
  /\ client[c].pc = "ack" /\ Receive(c, "ack") /\ Received(c)
  /\ client' = [client EXCEPT ![c] = [@ EXCEPT !.pc = "send",
       !.off = IF Head(s2c[c]).status = 0 THEN Head(s2c[c]).off ELSE @]]
  /\ UNCHANGED <<handler, c2s, disk, faults>>

\* UPL_ACK: a NACK seeks back to cur_offset, an ACK adopts the server's offset.
ClientAck(c) ==
  /\ client[c].pc = "ack" /\ Receive(c, "ack") /\ Received(c)
  /\ LET m == Head(s2c[c]) IN
     \/ /\ m.status # 0
        /\ client' = [client EXCEPT ![c] =
             [@ EXCEPT !.pc = "send", !.pos = client[c].off]]
     \/ /\ m.status = 0
        /\ client' = [client EXCEPT ![c] = [@ EXCEPT !.pc = "send", !.off = m.off]]
  /\ UNCHANGED <<handler, c2s, disk, faults>>

\* Slip: the status of the final answer is not looked at.
ClientFinalBlind(c) ==
  /\ client[c].pc = "fin" /\ Receive(c, "res") /\ Received(c)
  /\ client' = [client EXCEPT ![c] = Returned(@, "ok")]
  /\ UNCHANGED <<handler, c2s, disk, faults>>

\* The final UPL_RES: what the user is told.
ClientFinal(c) ==
  /\ client[c].pc = "fin" /\ Receive(c, "res") /\ Received(c)
  /\ client' = [client EXCEPT ![c] =
       Returned(@, IF Head(s2c[c]).status = 0 THEN "ok" ELSE "err")]
  /\ UNCHANGED <<handler, c2s, disk, faults>>

\* The handler is gone: read() returns 0 or an error, or the next write()
\* raises SIGPIPE, which the client does not handle.
ClientLost(c) ==
  /\ client[c].pc \in Busy /\ ~Alive(c) /\ s2c[c] = <<>>
  /\ \E k \in {Returned(client[c], "err"), Off(client[c])} :
       client' = [client EXCEPT ![c] = k]
  /\ UNCHANGED <<handler, c2s, s2c, disk, faults>>

\* A local fopen, fseek or fread error: back to the prompt without a word to
\* the server, which stays in its chunk loop.
ClientAbort(c) ==
  /\ client[c].pc = "send" /\ Fault("abort")
  /\ client' = [client EXCEPT ![c] = Returned(@, "err")]
  /\ UNCHANGED <<handler, c2s, s2c, disk>>

ClientQuit(c) ==
  /\ client[c].pc = "prompt"
  /\ client' = [client EXCEPT ![c] = Off(@)]
  /\ c2s' = IF Alive(c) THEN [c2s EXCEPT ![c] = Append(@, ExitReq)] ELSE c2s
  /\ s2c' = [s2c EXCEPT ![c] = <<>>]
  /\ UNCHANGED <<handler, disk, faults>>

\* The client or its host dies; what it sent is still delivered.
ClientKilled(c) ==
  /\ client[c].pc \in Busy
  /\ client' = [client EXCEPT ![c] = Off(@)]
  /\ s2c' = [s2c EXCEPT ![c] = <<>>]
  /\ UNCHANGED <<handler, c2s, disk, faults>>

-----------------------------------------------------------------------------
(* The handler *)

\* The message the handler reads next, understood as type t.
Reads(c, p, t) == /\ handler[c].pc = p /\ handler[c].sync
                  /\ c2s[c] # <<>> /\ Head(c2s[c]).t = t
Consume(c) == c2s' = [c2s EXCEPT ![c] = Tail(@)]

\* The handler answers m and goes on in state h with q left to read.  To a
\* client that is gone the answer is lost, and its second write() may raise
\* SIGPIPE (the line that would ignore it is commented out): the handler dies
\* with its stdio buffer.
ReplyLeaving(c, m, h, q) ==
  \/ /\ handler' = [handler EXCEPT ![c] = h]
     /\ s2c' = IF Up(c) THEN [s2c EXCEPT ![c] = Append(@, m)] ELSE s2c
     /\ c2s' = [c2s EXCEPT ![c] = q]
  \/ /\ ~Up(c)
     /\ handler' = [handler EXCEPT ![c] = HandlerNone]
     /\ c2s' = [c2s EXCEPT ![c] = <<>>]
     /\ UNCHANGED s2c

Reply(c, m, h) == ReplyLeaving(c, m, h, Tail(c2s[c]))

\* upload_manager_server has returned, part is closed: handle_client goes on.
Closed(h) == [HandlerIdle(h.logged) EXCEPT !.sync = h.sync]

Pending(c) == Put(NameOf[c], handler[c].file, handler[c].at, handler[c].data, disk)

\* UPL_REQ: refuse, or look whether a .part is there and how long it is.
SrvRequest(c) ==
  /\ Reads(c, "dispatch", "req")
  /\ LET h == handler[c]
         p == disk[NameOf[c]].part IN
     \/ ~h.logged /\ Reply(c, Res(1, 0), h)
     \/ /\ h.logged /\ UNCHANGED <<c2s, s2c>>
        /\ handler' = [handler EXCEPT ![c] =
             [@ EXCEPT !.pc = "open", !.size = Head(c2s[c]).size,
                       !.exists = (p # NoFile),
                       !.old = IF p = NoFile THEN 0 ELSE Len(p)]]
  /\ UNCHANGED <<client, disk, faults>>

\* Slip: "wb" also to resume.
SrvOpenAnew(c) ==
  LET h == handler[c]
      off == IF h.old <= h.size THEN h.old ELSE 0 IN
  /\ h.pc = "open"
  /\ disk' = [disk EXCEPT ![NameOf[c]].part = <<>>]
  /\ Reply(c, Res(0, off), [h EXCEPT !.pc = "chunk", !.off = off, !.file = "part"])
  /\ UNCHANGED <<client, faults>>

\* The .part is opened: "wb" for a new or oversized one (or when the seek to
\* the resume point fails), "r+b" to resume.  The decision uses what
\* SrvRequest saw.
SrvOpen(c) ==
  LET h == handler[c]
      n == NameOf[c]
      Open(off) == [h EXCEPT !.pc = "chunk", !.off = off, !.file = "part",
                             !.at = 0, !.data = <<>>] IN
  /\ h.pc = "open"
  /\ \/ /\ h.exists /\ h.old <= h.size /\ disk[n].part # NoFile
        /\ UNCHANGED disk /\ NoFault
        /\ Reply(c, Res(0, h.old), Open(h.old))
     \/ /\ IF h.exists /\ h.old <= h.size
           THEN disk[n].part # NoFile /\ Fault("io") ELSE NoFault
        /\ disk' = [disk EXCEPT ![n].part = <<>>]
        /\ Reply(c, Res(0, 0), Open(0))
  /\ UNCHANGED client

\* fopen fails: on an I/O error, or "r+b" on a .part that is gone by now.
SrvOpenFails(c) ==
  LET h == handler[c] IN
  /\ h.pc = "open"
  /\ IF h.exists /\ h.old <= h.size /\ disk[NameOf[c]].part = NoFile
     THEN NoFault ELSE Fault("io")
  /\ Reply(c, Res(1, 0), Closed(h))
  /\ UNCHANGED <<client, disk>>

\* A chunk with a good CRC: fseek writes out what is pending, fwrite writes
\* the first k bytes and buffers the others, cur_offset follows the chunk.
SrvChunk(c) ==
  /\ Reads(c, "chunk", "chunk")
  /\ LET h == handler[c]
         m == Head(c2s[c])
         off == m.at + Len(m.data) IN
     /\ m.ok
     /\ \E k \in 0..Len(m.data) :
          /\ disk' = Put(NameOf[c], h.file, m.at, Prefix(m.data, k), Pending(c))
          /\ Reply(c, Ack(0, off), [h EXCEPT !.off = off, !.at = m.at + k,
                                             !.data = Rest(m.data, k)])
  /\ UNCHANGED <<client, faults>>

\* Slip: the NACK names the chunk before this one.
SrvNackBehind(c) ==
  /\ Reads(c, "chunk", "chunk") /\ ~Head(c2s[c]).ok
  /\ Reply(c, Ack(1, handler[c].off - BufferSize), handler[c])
  /\ UNCHANGED <<client, disk, faults>>

\* Slip: a chunk with a bad CRC is dropped without an answer.
SrvNackSilent(c) ==
  /\ Reads(c, "chunk", "chunk") /\ ~Head(c2s[c]).ok /\ Consume(c)
  /\ UNCHANGED <<client, handler, s2c, disk, faults>>

\* CRC mismatch: NACK with the offset the server is at.  A short read() of the
\* body gives the same answer and leaves the rest of the body unread.
SrvNack(c) ==
  /\ Reads(c, "chunk", "chunk")
  /\ LET h == handler[c] IN
     \/ ~Head(c2s[c]).ok /\ NoFault /\ Reply(c, Ack(1, h.off), h)
     \/ /\ Fault("short")
        /\ ReplyLeaving(c, Ack(1, h.off), [h EXCEPT !.sync = FALSE], c2s[c])
  /\ UNCHANGED <<client, disk>>

\* fseek fails having written k of the pending bytes, or fwrite fails having
\* written k of the chunk's: the file is closed and no answer is sent.
SrvWriteFails(c) ==
  /\ Reads(c, "chunk", "chunk") /\ Head(c2s[c]).ok /\ Fault("io")
  /\ LET h == handler[c]
         m == Head(c2s[c]) IN
     \/ \E k \in 0..Len(h.data) :
          disk' = Put(NameOf[c], h.file, h.at, Prefix(h.data, k), disk)
     \/ \E k \in 0..Len(m.data) :
          disk' = Put(NameOf[c], h.file, m.at, Prefix(m.data, k), Pending(c))
  /\ handler' = [handler EXCEPT ![c] = Closed(@)]
  /\ Consume(c)
  /\ UNCHANGED <<client, s2c>>

\* UPL_COMPLETE: fflush, compare cur_offset with the announced size, fclose.
\* Neither fflush nor fclose is checked: an I/O error goes unnoticed.
SrvFinish(c) ==
  /\ Reads(c, "chunk", "complete")
  /\ LET h == handler[c] IN
     /\ \/ disk' = Pending(c) /\ NoFault
        \/ /\ Fault("io")
           /\ \E k \in 0..Len(h.data) :
                disk' = Put(NameOf[c], h.file, h.at, Prefix(h.data, k), disk)
     /\ \/ /\ h.off # h.size
           /\ Reply(c, Res(1, h.off), Closed(h))
        \/ /\ h.off = h.size
           /\ handler' = [handler EXCEPT ![c] = 
                [h EXCEPT !.pc = "publish", !.file = "none", !.at = 0, !.data = <<>>]]
           /\ UNCHANGED <<c2s, s2c>>
  /\ UNCHANGED client

\* rename(.part, final).  Open files stay with the file they wrote to.
Renamed(n, hs) ==
  [d \in Conn |->
     IF NameOf[d] # n THEN hs[d]
     ELSE IF hs[d].file = "part" THEN [hs[d] EXCEPT !.file = "final"]
     ELSE IF hs[d].file = "final" THEN [hs[d] EXCEPT !.file = "gone"]
     ELSE hs[d]]

SrvPublish(c) ==
  LET h == handler[c]
      n == NameOf[c] IN
  /\ h.pc = "publish"
  /\ \/ /\ disk[n].part # NoFile /\ NoFault
        /\ disk' = [disk EXCEPT ![n] = [part |-> NoFile, final |-> @.part]]
        /\ \/ /\ handler' = [Renamed(n, handler) EXCEPT ![c] = Closed(h)]
              /\ s2c' = IF Up(c) THEN [s2c EXCEPT ![c] = Append(@, Res(0, h.off))] ELSE s2c
              /\ Consume(c)
           \/ /\ ~Up(c)
              /\ handler' = [Renamed(n, handler) EXCEPT ![c] = HandlerNone]
              /\ c2s' = [c2s EXCEPT ![c] = <<>>]
              /\ UNCHANGED s2c
     \/ /\ IF disk[n].part = NoFile THEN NoFault ELSE Fault("io")
        /\ UNCHANGED disk
        /\ Reply(c, Res(1, h.off), Closed(h))
  /\ UNCHANGED client

\* Slip: the .part of a broken upload is removed.
SrvBreakRemoves(c) ==
  /\ handler[c].pc = "chunk" /\ c2s[c] = <<>> /\ ~Up(c)
  /\ handler' = [handler EXCEPT ![c] = Closed(@)]
  /\ disk' = [disk EXCEPT ![NameOf[c]].part = NoFile]
  /\ UNCHANGED <<client, c2s, s2c, faults>>

\* The loop is left on end of file, on a header that is neither UPL_CHUNK nor
\* UPL_COMPLETE, or on one read out of step: fclose flushes.  Only a header was
\* read: the body of an UPL_REQ stays in the stream.
SrvBreak(c) ==
  LET h == handler[c] IN
  /\ h.pc = "chunk"
  /\ \/ /\ IF c2s[c] = <<>> THEN ~Up(c) ELSE h.sync /\ Head(c2s[c]).t = "exit"
        /\ handler' = [handler EXCEPT ![c] = Closed(@)]
        /\ c2s' = [c2s EXCEPT ![c] = <<>>]
     \/ /\ c2s[c] # <<>>
        /\ ~h.sync \/ Head(c2s[c]).t = "req"
        /\ handler' = [handler EXCEPT ![c] = [Closed(@) EXCEPT !.sync = FALSE]]
        /\ UNCHANGED c2s
  /\ disk' = Pending(c)
  /\ UNCHANGED <<client, s2c, faults>>

\* The download waits for a DWL_ACK that does not come: any other header, or end
\* of file, breaks its loop.  It answers once more and leaves the body unread.
SrvBreakDownload(c) ==
  LET h == handler[c] IN
  /\ h.pc = "down"
  /\ \/ /\ c2s[c] # <<>> /\ Head(c2s[c]).t = "req"
        /\ ReplyLeaving(c, Left, [Closed(h) EXCEPT !.sync = FALSE], c2s[c])
     \/ /\ IF c2s[c] = <<>> THEN ~Up(c) ELSE Head(c2s[c]).t = "exit"
        /\ ReplyLeaving(c, Left, Closed(h), <<>>)
  /\ UNCHANGED <<client, disk, faults>>

\* handle_client reading out of step: what is left over is taken for no known
\* type, and a user who is logged in gets no answer to that.
SrvIgnore(c) ==
  /\ handler[c].pc = "dispatch" /\ ~handler[c].sync /\ c2s[c] # <<>>
  /\ Consume(c)
  /\ UNCHANGED <<client, handler, s2c, disk, faults>>

\* Slip: at end of file the loop goes round.
SrvExitDeaf(c) ==
  \/ /\ Reads(c, "dispatch", "exit") /\ Consume(c)
     /\ handler' = [handler EXCEPT ![c] = HandlerNone]
     /\ UNCHANGED <<client, s2c, disk, faults>>
  \/ /\ handler[c].pc = "dispatch" /\ c2s[c] = <<>> /\ ~Up(c)
     /\ UNCHANGED vars

\* EXIT_REQ, or end of file: the handler ends.
SrvExit(c) ==
  /\ \/ Reads(c, "dispatch", "exit")
     \/ handler[c].pc = "dispatch" /\ c2s[c] = <<>> /\ ~Up(c)
  /\ handler' = [handler EXCEPT ![c] = HandlerNone]
  /\ c2s' = [c2s EXCEPT ![c] = <<>>]
  /\ UNCHANGED <<client, s2c, disk, faults>>

\* The handler is killed: stdio's buffer and the unread input are lost.
SrvKilled(c) ==
  /\ Alive(c) /\ Fault("kill")
  /\ handler' = [handler EXCEPT ![c] = HandlerNone]
  /\ c2s' = [c2s EXCEPT ![c] = <<>>]
  /\ UNCHANGED <<client, s2c, disk>>

-----------------------------------------------------------------------------

UploadStep(c) == \/ ClientRes(c) \/ SendChunk(c) \/ SendComplete(c)
                 \/ ClientAck(c) \/ ClientFinal(c) \/ ClientLost(c)
                 \/ ClientInvalid(c)

UserStep(c) == \/ Connect(c) \/ StartUpload(c) \/ ClientAbort(c)
               \/ ClientQuit(c) \/ ClientKilled(c) \/ LeaveUnread(c)

HandlerStep(c) == \/ SrvRequest(c) \/ SrvOpen(c) \/ SrvOpenFails(c)
                  \/ SrvChunk(c) \/ SrvNack(c) \/ SrvWriteFails(c)
                  \/ SrvFinish(c) \/ SrvPublish(c) \/ SrvBreak(c)
                  \/ SrvIgnore(c) \/ SrvExit(c) \/ SrvBreakDownload(c)

Next == \E c \in Conn : \/ UploadStep(c) \/ UserStep(c)
                        \/ HandlerStep(c) \/ SrvKilled(c)

Spec == Init /\ [][Next]_vars

\* Every process that can run is run in the end; the user owes nothing.
FairSpec == Spec /\ \A c \in Conn : /\ WF_vars(UploadStep(c))
                                    /\ WF_vars(HandlerStep(c))

-----------------------------------------------------------------------------
(* Properties *)

\* Every variable keeps its type: the states of the two loops, messages, bytes.
TypeOK == /\ client \in [Conn -> ClientState]
          /\ handler \in [Conn -> HandlerState]
          /\ c2s \in [Conn -> Seq(ToServer)]
          /\ s2c \in [Conn -> Seq(ToClient)]
          /\ disk \in [Name -> [part : File, final : File]]
          /\ faults \in 0..MaxFaults

\* No two connections upload to one path: one client per user and file.
Exclusive == \A c, d \in Conn : NameOf[c] = NameOf[d] => c = d

\* A chunk in flight carries the bytes its offset names, whatever was NACKed or
\* resumed before (server.c:470 trusts that offset, and the CRC leaves it out).
InTransitAligned ==
  \A c \in Conn : \A i \in 1..Len(c2s[c]) :
    LET m == c2s[c][i] IN
    m.t = "chunk" => \A j \in 1..Len(m.data) : m.data[j][2] = m.at + j

\* An upload whose answers begin with nothing stale never talks past its handler:
\* what the client reads is of the kind it waits for.  Stale bytes of an earlier
\* command are met by client.c:114 alone: 199 and 256 never fire.
ReplyExpected ==
  \A c \in Conn :
    /\ client[c].sync /\ s2c[c] # <<>> =>
         /\ Len(s2c[c]) = 1
         /\ client[c].pc \in (IF Head(s2c[c]).t = "res" THEN {"req", "fin"} ELSE {"ack"})
    /\ client[c].pc \in {"send", "ack", "fin"} => client[c].sync

\* An acknowledged offset is covered by the .part together with the bytes still
\* in the handler's buffer: an ACK never runs ahead of the data.
AckedIsStaged ==
  \A c \in Conn : handler[c].pc = "chunk" =>
    /\ disk[NameOf[c]].part # NoFile
    /\ handler[c].off <= Len(Pending(c)[NameOf[c]].part)

\* However many connections write to one path, every byte stored under it is at
\* the place it has in some version of the local file, or was never written.
StoredInPlace ==
  \A n \in Name : \A f \in {disk[n].part, disk[n].final} : f # NoFile =>
    \A i \in 1..Len(f) : f[i] = Hole \/ f[i][2] = i

\* A published file has a length that was announced and no hole.
PublishedComplete ==
  \A n \in Name : disk[n].final # NoFile =>
    /\ \E v \in Version : Len(disk[n].final) = Size[v]
    /\ \A i \in 1..Len(disk[n].final) : disk[n].final[i] # Hole

\* "Upload complete" is true: the file is published at the announced length.
ReportTrue ==
  \A c \in Conn : client[c].report = "ok" =>
    /\ disk[NameOf[c]].final # NoFile
    /\ Len(disk[NameOf[c]].final) = client[c].size

\* An interrupted upload keeps its .part for the next attempt ("pastrat pentru
\* resume", server.c:508): a .part only grows, is published, or is restarted
\* because it is longer than the file announced.
KeptForResume ==
  [][\A n \in Name :
       disk[n].part # NoFile =>
         \/ disk'[n].part = NoFile /\ disk'[n].final = disk[n].part
         \/ disk'[n].part # NoFile /\ Len(disk'[n].part) >= Len(disk[n].part)
         \/ \E c \in Conn : /\ NameOf[c] = n /\ handler[c].pc = "open"
                            /\ handler[c].size < Len(disk[n].part)]_vars

\* One connection per path implements the staged file of StagedFile: the .part
\* is only appended to, and published in one step at a length announced.
Staged == INSTANCE StagedFile WITH Length <- {Size[v] : v \in Version}
StagedSpec == Staged!Spec

\* An upload ends: the user gets the prompt back, or the client is gone.  Only
\* a handler that left part of a message unread (a short read, or a request
\* that reached its chunk loop) may keep the client waiting.
UploadEnds ==
  \A c \in Conn : client[c].pc \in Busy ~>
    client[c].pc \in {"prompt", "off"} \/ ~handler[c].sync

\* No handler outlives its client for ever.
HandlerReaped == \A c \in Conn : ~Up(c) ~> ~Alive(c)
=============================================================================
