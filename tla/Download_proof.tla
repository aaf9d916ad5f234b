---------------------------- MODULE Download_proof ----------------------------
(***************************************************************************)
(* What holds of the download for any versions, sizes, buffers and backlog, *)
(* whatever fails: types, what .part is during a transfer, and what is      *)
(* reported as downloaded.                                                 *)
(***************************************************************************)
EXTENDS Download, SequenceTheorems, TLAPS

\* The file behind FILE* f is read where offset says; between commands both are 0.
Positions(h) ==
  /\ h.pc \in {"dispatch", "hash"} => h.off = 0 /\ h.pos = 0
  /\ h.pc = "send" => h.off = h.pos
  /\ h.off <= h.pos /\ h.pos <= Size[h.ver]
  /\ h.pc \in {"hash", "send", "await"} => h.sync

\* A dead handler has left nothing to be read by the next one, nor a dead client.
Clean(k, h, q, r) == /\ h.pc = "none" => q = <<>>
                     /\ k.pc = "off" => r = <<>>

Slice(h) == SubSeq(Content(h.ver), h.off + 1, h.pos)

Talking(k) == k.sync /\ k.pc \in {"prompt", "res", "loop"}

\* No list is on its way to a client that did not ask for it; the answer to one
\* is the last message there is.
Lists(k, h, q, r) ==
  /\ Talking(k) => \A i \in 1..Len(r) : r[i].t # "list"
  /\ k.sync /\ k.pc = "list" =>
       /\ h.sync => \A i \in 1..Len(q) : q[i].t = "list" => i = Len(q)
       /\ r # <<>> /\ Head(r).t = "list" => q = <<>> /\ Tail(r) = <<>>
                                            /\ h.pc \in {"none", "dispatch"}

\* To a client in step the handler, while it is in step itself, has sent answers
\* of any number of requests, and after them the chunk it awaits the ACK of.
Sent(h, r) ==
  /\ \A i \in 1..Len(r) :
       \/ r[i].t = "res"
       \/ /\ r[i].t = "chunk" /\ i = Len(r) /\ h.pc = "await"
          /\ r[i].at = h.off /\ r[i].data = Slice(h)
  /\ h.pc = "await" /\ r # <<>> => r[Len(r)].t = "chunk"
  /\ h.pc \in {"send", "await"} /\ r # <<>> /\ Head(r).t = "res" => h.off = 0

\* It has sent any number of requests, and after them an ACK of that chunk.
Asked(k, h, q, r) ==
  \A i \in 1..Len(q) :
    \/ q[i].t = "req"
    \/ q[i].t = "ack" /\ i = Len(q) /\ h.pc = "await" /\ r = <<>> /\ k.pc = "loop"

\* The .part p follows the transfer, and the two agree on where they are.
Following(k, h, q, r, p) ==
  /\ h.pc \in {"dispatch", "hash", "send"} => k.cur = 0 \/ (q = <<>> /\ h.pc # "hash")
  /\ h.pc \in {"dispatch", "hash"} /\ k.cur = 0 => p = <<>>
  /\ h.pc \in {"send", "await"} =>
       /\ k.cur <= Size[h.ver] /\ p = Prefix(Content(h.ver), k.cur)
       /\ r # <<>> => k.cur = (IF Head(r).t = "res" THEN 0 ELSE h.off)
       /\ r = <<>> /\ h.pc = "send" => k.cur = h.off
       /\ r = <<>> /\ h.pc = "await" =>
            q # <<>> /\ \/ Head(q).t = "req"
                        \/ /\ Head(q).t = "ack" /\ Head(q).off = k.cur
                           /\ k.cur = (IF Head(q).status = 0 THEN h.pos ELSE h.off)

Right(k, h, q, r, p) ==
  /\ Positions(h) /\ Clean(k, h, q, r) /\ Lists(k, h, q, r)
  /\ k.pc = "loop" => p \in Seq(Byte)
  /\ Talking(k) /\ h.sync /\ h.pc # "none" =>
       /\ Sent(h, r) /\ Asked(k, h, q, r)
       /\ k.pc = "loop" => Following(k, h, q, r, p)

IInv == /\ TypeOK
        /\ Right(client, handler, c2s, s2c, local.part)
        /\ FetchedWhole
-----------------------------------------------------------------------------
(* Sequences *)

LEMMA AppendFacts ==
  ASSUME NEW S, NEW s \in Seq(S), NEW m \in S
  PROVE  /\ Append(s, m) \in Seq(S) /\ Append(s, m) # <<>>
         /\ Len(Append(s, m)) = Len(s) + 1 /\ Len(s) \in Nat
         /\ \A i \in 1..Len(s) : Append(s, m)[i] = s[i]
         /\ Append(s, m)[Len(s) + 1] = m
         /\ Head(Append(s, m)) = (IF s = <<>> THEN m ELSE Head(s))
         /\ s \o <<m>> = Append(s, m)
<1>1. /\ Append(s, m) \in Seq(S) /\ Len(Append(s, m)) = Len(s) + 1 /\ Len(s) \in Nat
      /\ \A i \in 1..Len(s) : Append(s, m)[i] = s[i]
      /\ Append(s, m)[Len(s) + 1] = m
  BY AppendProperties
<1>2. Append(s, m) # <<>>
  BY AppendProperties
<1>3. CASE s = <<>>
  BY <1>1, <1>3, EmptySeq
<1>4. CASE s # <<>>
  <2>1. Len(s) \in Nat \ {0}
    BY <1>4, EmptySeq
  <2>2. Append(s, m)[1] = s[1]
    BY <1>1, <2>1
  <2> QED
    BY <1>1, <1>2, <1>4, <2>2
<1> QED
  BY <1>1, <1>2, <1>3, <1>4

LEMMA TailFacts ==
  ASSUME NEW S, NEW s \in Seq(S), s # <<>>
  PROVE  /\ Head(s) \in S /\ Tail(s) \in Seq(S) /\ Head(s) = s[1]
         /\ Len(s) \in Nat \ {0} /\ Len(Tail(s)) = Len(s) - 1
         /\ \A i \in 1..Len(s) - 1 : Tail(s)[i] = s[i + 1]
         /\ Len(s) = 1 <=> Tail(s) = <<>>
         /\ Tail(s) # <<>> => Head(Tail(s)) = s[2] /\ Len(s) > 1
<1>1. /\ Head(s) \in S /\ Tail(s) \in Seq(S) /\ Head(s) = s[1]
      /\ Len(s) \in Nat \ {0} /\ Len(Tail(s)) = Len(s) - 1
      /\ \A i \in 1..Len(Tail(s)) : Tail(s)[i] = s[i + 1]
  BY HeadTailProperties, EmptySeq
<1> DEFINE t == Tail(s)
<1>0. t \in Seq(S)
  BY <1>1
<1> HIDE DEF t
<1>2. /\ t = <<>> => Len(t) = 0
      /\ t # <<>> => Len(t) \in Nat \ {0} /\ Head(t) = t[1]
  BY <1>0, EmptySeq
<1>3. t # <<>> => 1 \in 1..Len(t)
  BY <1>2
<1> QED
  BY <1>1, <1>2, <1>3 DEF t

-----------------------------------------------------------------------------
(* The file *)

\* The bytes of version v from a to b, as a chunk carries them.
LEMMA SliceFacts ==
  ASSUME NEW v \in Version, NEW a \in Nat, NEW b \in Nat, a <= b, b <= Size[v]
  PROVE  LET d == SubSeq(Content(v), a + 1, b) IN
         /\ d \in Seq(Datum) /\ Len(d) = b - a
         /\ \A i \in 1..(b - a) : d[i] = <<v, a + i>>
<1>1. Content(v) \in Seq(Datum) /\ Len(Content(v)) = Size[v]
  BY DownloadAssumption DEF Content, Datum
<1>2. \A i \in 1..Size[v] : Content(v)[i] = <<v, i>>
  BY DEF Content
<1> QED
  BY <1>1, <1>2, DownloadAssumption

LEMMA WriteTyped ==
  ASSUME NEW s \in Seq(Byte), NEW at \in Nat, NEW d \in Seq(Datum)
  PROVE  WriteAt(s, at, d) \in Seq(Byte)
<1>1. d \in Seq(Byte) /\ Len(d) \in Nat /\ Len(s) \in Nat
  BY DEF Byte
<1> DEFINE n == Most(Len(s), at + Len(d))
           e(i) == IF i \in (at + 1)..(at + Len(d)) THEN d[i - at]
                   ELSE IF i <= Len(s) THEN s[i] ELSE Hole
<1>2. n \in Nat
  BY <1>1 DEF Most
<1>3. \A i \in 1..n : e(i) \in Byte
  BY <1>1, <1>2 DEF Byte, Most
<1>4. [i \in 1..n |-> e(i)] \in Seq(Byte)
  <2> HIDE DEF n, e
  <2> QED
    BY <1>2, <1>3
<1> QED
  BY <1>4 DEF WriteAt

\* Writing the next slice at the end of what is there leaves what is there then.
LEMMA WriteFollows ==
  ASSUME NEW v \in Version, NEW a \in Nat, NEW b \in Nat, a <= b, b <= Size[v]
  PROVE  WriteAt(Prefix(Content(v), a), a, SubSeq(Content(v), a + 1, b))
           = Prefix(Content(v), b)
<1> DEFINE s == Prefix(Content(v), a)
           d == SubSeq(Content(v), a + 1, b)
           f == Prefix(Content(v), b)
<1>1. /\ s \in Seq(Datum) /\ Len(s) = a /\ \A i \in 1..a : s[i] = <<v, i>>
      /\ f \in Seq(Datum) /\ Len(f) = b /\ \A i \in 1..b : f[i] = <<v, i>>
  <2>1. ASSUME NEW n \in Nat, n <= Size[v]
        PROVE  LET t == Prefix(Content(v), n) IN
               t \in Seq(Datum) /\ Len(t) = n /\ \A i \in 1..n : t[i] = <<v, i>>
    <3> DEFINE z == 0
    <3>1. z \in Nat /\ z <= n /\ z + 1 = 1 /\ n - z = n /\ \A i \in 1..n : z + i = i
      OBVIOUS
    <3> HIDE DEF z
    <3>2. LET t == SubSeq(Content(v), z + 1, n) IN
          /\ t \in Seq(Datum) /\ Len(t) = n - z
          /\ \A i \in 1..(n - z) : t[i] = <<v, z + i>>
      BY <2>1, <3>1, SliceFacts
    <3> QED
      BY <3>1, <3>2 DEF Prefix
  <2>2. Size[v] \in Nat
    BY DownloadAssumption
  <2>3. a <= Size[v]
    BY <2>2
  <2> QED
    BY <2>1, <2>3
<1>2. d \in Seq(Datum) /\ Len(d) = b - a /\ \A i \in 1..(b - a) : d[i] = <<v, a + i>>
  BY SliceFacts
<1> HIDE DEF s, d, f
<1>3. /\ Most(Len(s), a + Len(d)) = b
      /\ (a + 1)..(a + Len(d)) = (a + 1)..b
  BY <1>1, <1>2 DEF Most
<1>4. WriteAt(s, a, d) = [i \in 1..b |-> IF i \in (a + 1)..b THEN d[i - a]
                                       ELSE IF i <= a THEN s[i] ELSE Hole]
  BY <1>1, <1>3 DEF WriteAt
<1>5. f = [i \in 1..b |-> f[i]]
  BY <1>1
<1>6. ASSUME NEW i \in 1..b
      PROVE  f[i] = IF i \in (a + 1)..b THEN d[i - a] ELSE IF i <= a THEN s[i] ELSE Hole
  <2>1. CASE i \in (a + 1)..b
    <3>1. i - a \in 1..(b - a) /\ a + (i - a) = i
      BY <2>1
    <3> QED
      BY <1>1, <1>2, <2>1, <3>1
  <2>2. CASE i \notin (a + 1)..b
    <3>1. i \in 1..a /\ i <= a
      BY <2>2
    <3>2. f[i] = <<v, i>> /\ s[i] = <<v, i>>
      BY <1>1, <3>1
    <3> QED
      BY <2>2, <3>1, <3>2
  <2> QED
    BY <2>1, <2>2
<1> QED
  BY <1>4, <1>5, <1>6 DEF s, d, f

LEMMA NothingYet ==
  ASSUME NEW v
  PROVE  Prefix(Content(v), 0) = <<>>
BY SubSeqEmpty DEF Prefix

-----------------------------------------------------------------------------
(* Types *)

LEMMA FaultsTyped ==
  ASSUME faults \in 0..MaxFaults, NEW kind, Fault(kind) \/ NoFault
  PROVE  faults' \in 0..MaxFaults
BY DownloadAssumption DEF Fault, NoFault

LEMMA Starts ==
  /\ ClientOff \in ClientState /\ HandlerNone \in HandlerState
  /\ \A b \in BOOLEAN : HandlerIdle(b) \in HandlerState
  /\ [ClientOff EXCEPT !.pc = "prompt"] \in ClientState
BY DownloadAssumption DEF ClientOff, ClientState, HandlerNone, HandlerIdle, HandlerState, Digest

LEMMA ReturnedTyped ==
  ASSUME NEW k \in ClientState,
         NEW r \in {"none", "ok", "unchecked", "refused", "failed", "size", "mismatch"}
  PROVE  /\ Returned(k, r) \in ClientState
         /\ Returned(k, r).pc = "prompt" /\ Returned(k, r).sync = k.sync
         /\ Returned(k, r).report = r
BY DEF Returned, ClientState

LEMMA ClosedTyped ==
  ASSUME NEW h \in HandlerState
  PROVE  /\ Closed(h) \in HandlerState
         /\ Closed(h).pc = "dispatch" /\ Closed(h).off = 0 /\ Closed(h).pos = 0
         /\ Closed(h).ver = h.ver /\ Closed(h).sync = h.sync
BY DEF Closed, HandlerState, Digest

LEMMA AskedTyped ==
  /\ Req \in ToServer /\ ListReq \in ToServer /\ ExitReq \in ToServer
  /\ \A n \in Nat : Ack(0, n) \in ToServer /\ Ack(1, n) \in ToServer
BY DEF Req, ListReq, ExitReq, Ack, ToServer

LEMMA ReadTyped ==
  /\ \A m \in ToServer : m.t = "ack" => m.status \in {0, 1} /\ m.off \in Nat
  /\ \A m \in ToClient : m.t = "chunk" => m.at \in Nat /\ m.data \in Seq(Datum)
BY DEF ToServer, ToClient

LEMMA ClientTyped ==
  ASSUME IInv, ClientStep \/ Connect \/ Ask \/ ClientStops
  PROVE  TypeOK'
<1>1. /\ client \in ClientState /\ handler \in HandlerState
      /\ c2s \in Seq(ToServer) /\ s2c \in Seq(ToClient) /\ stored \in Digest
      /\ local \in [part : File, final : File] /\ faults \in 0..MaxFaults
  BY DEF IInv, TypeOK
<1>2. client.pc = "loop" => local.part \in Seq(Byte)
  BY DEF IInv, Right
<1>3. \A m \in ToServer : Append(c2s, m) \in Seq(ToServer)
  BY <1>1
<1>4. /\ s2c # <<>> => Tail(s2c) \in Seq(ToClient) /\ Head(s2c) \in ToClient
      /\ <<>> \in Seq(ToClient)
  BY <1>1
<1>5. client.cur \in Nat
  BY <1>1 DEF ClientState
<1>6. ASSUME NEW s \in Seq(Byte), NEW j \in 0..(Len(s) - 1) PROVE Prefix(s, j) \in Seq(Byte)
  BY DEF Prefix
<1>7. UNCHANGED handler => handler' \in HandlerState
  BY <1>1
<1>8. CASE Connect
  BY <1>1, <1>8, Starts DEF Connect, TypeOK
<1>9. CASE Ask
  <2>1. /\ [client EXCEPT !.pc = "res", !.report = "none"] \in ClientState
        /\ [client EXCEPT !.pc = "list", !.report = "none"] \in ClientState
    BY <1>1 DEF ClientState, Busy
  <2> QED
    BY <1>1, <1>3, <1>9, <2>1, AskedTyped DEF Ask, TypeOK
<1>10. CASE ClientRes
  <2>1. /\ [client EXCEPT !.pc = "loop", !.cur = 0] \in ClientState
        /\ <<>> \in File
    BY <1>1, EmptySeq DEF ClientState, Busy, File
  <2>2. faults' \in 0..MaxFaults
    BY <1>1, <1>10, FaultsTyped DEF ClientRes
  <2>3. client' \in ClientState /\ local' \in [part : File, final : File]
    BY <1>1, <1>10, <2>1, ReturnedTyped DEF ClientRes, Receive
  <2> QED
    BY <1>1, <1>4, <1>10, <2>2, <2>3 DEF ClientRes, Receive, TypeOK
<1>11. CASE ClientChunk
  <2> DEFINE m == Head(s2c)
             n == m.at + Len(m.data)
  <2>1. /\ s2c # <<>> /\ m.t = "chunk" /\ client.pc = "loop"
        /\ UNCHANGED <<handler, stored>>
    BY <1>11 DEF ClientChunk
  <2>2. m.at \in Nat /\ m.data \in Seq(Datum)
    BY <1>4, <2>1, ReadTyped
  <2>3. n \in Nat
    BY <2>2
  <2>4. /\ [client EXCEPT !.cur = n] \in ClientState
        /\ [client EXCEPT !.sync = FALSE] \in ClientState
    BY <1>1, <2>3 DEF ClientState
  <2>5. [local EXCEPT !.part = WriteAt(@, m.at, m.data)] \in [part : File, final : File]
    <3>1. WriteAt(local.part, m.at, m.data) \in File
      BY <1>2, <2>1, <2>2, WriteTyped DEF File
    <3> QED
      BY <1>1, <3>1
  <2>6. faults' \in 0..MaxFaults
    BY <1>1, <1>11, FaultsTyped DEF ClientChunk
  <2>7. c2s' \in Seq(ToServer)
    <3>1. /\ Append(c2s, Ack(0, n)) \in Seq(ToServer)
          /\ Append(c2s, Ack(1, client.cur)) \in Seq(ToServer)
      BY <1>3, <1>5, <2>3, AskedTyped
    <3> QED
      BY <1>1, <1>11, <3>1 DEF ClientChunk, Tells
  <2>8. client' \in ClientState
    <3>1. client' \in {client, [client EXCEPT !.cur = n],
                      [client EXCEPT !.sync = FALSE], Returned(client, "failed")}
      BY <1>11 DEF ClientChunk
    <3>2. Returned(client, "failed") \in ClientState
      BY <1>1, ReturnedTyped
    <3> QED
      BY <1>1, <2>4, <3>1, <3>2
  <2>9. s2c' \in Seq(ToClient)
    BY <1>1, <1>4, <1>11, <2>1 DEF ClientChunk
  <2>10. local' \in [part : File, final : File]
    BY <1>1, <1>11, <2>5 DEF ClientChunk
  <2> QED
    BY <1>1, <2>1, <2>6, <2>7, <2>8, <2>9, <2>10 DEF TypeOK
<1>12. CASE ClientFinal
  <2>1. /\ s2c # <<>> /\ s2c' = Tail(s2c) /\ client.pc = "loop"
        /\ UNCHANGED <<handler, c2s, stored>>
    BY <1>12 DEF ClientFinal, Receive
  <2>2. faults' \in 0..MaxFaults
    BY <1>1, <1>12, FaultsTyped DEF ClientFinal
  <2>3. client' \in ClientState
    BY <1>1, <1>12, ReturnedTyped DEF ClientFinal
  <2>4. local' \in [part : File, final : File]
    <3>1. [part |-> NoFile, final |-> local.part] \in [part : File, final : File]
      BY <1>1 DEF File
    <3>2. \A j \in 0..(Len(local.part) - 1) :
            [local EXCEPT !.part = Prefix(@, j)] \in [part : File, final : File]
      <4> TAKE j \in 0..(Len(local.part) - 1)
      <4>1. Prefix(local.part, j) \in File
        BY <1>2, <1>6, <2>1 DEF File
      <4> QED
        BY <1>1, <4>1
    <3> QED
      BY <1>1, <1>12, <3>1, <3>2 DEF ClientFinal
  <2> QED
    BY <1>1, <1>4, <2>1, <2>2, <2>3, <2>4 DEF TypeOK
<1>13. CASE ClientList
  BY <1>1, <1>4, <1>13, ReturnedTyped DEF ClientList, Receive, TypeOK
<1>14. CASE ClientOdd
  <2>1. [Returned(client, "failed") EXCEPT !.sync = FALSE] \in ClientState
    <3>1. Returned(client, "failed") \in ClientState
      BY <1>1, ReturnedTyped
    <3> QED
      BY <3>1 DEF ClientState
  <2> QED
    BY <1>1, <1>14, <2>1 DEF ClientOdd, TypeOK
<1>15. CASE ClientLost
  BY <1>1, <1>15, ReturnedTyped, Starts DEF ClientLost, TypeOK
<1>16. CASE ClientStops
  BY <1>1, <1>3, <1>4, <1>16, Starts, AskedTyped DEF ClientStops, TypeOK
<1> QED
  BY <1>8, <1>9, <1>10, <1>11, <1>12, <1>13, <1>14, <1>15, <1>16 DEF ClientStep

\* Sending keeps the types of the queues and of the handler.
LEMMA SendsTyped ==
  ASSUME TypeOK, NEW ms \in Seq(ToClient), NEW h \in HandlerState,
         NEW q \in Seq(ToServer), Sends(ms, h, q)
  PROVE  handler' \in HandlerState /\ c2s' \in Seq(ToServer) /\ s2c' \in Seq(ToClient)
<1>1. s2c \o ms \in Seq(ToClient) /\ s2c \in Seq(ToClient) /\ <<>> \in Seq(ToServer)
  BY DEF TypeOK
<1> QED
  BY <1>1, Starts DEF Sends

\* The final answer, and the one after a read error.
LEMMA FinalTyped ==
  ASSUME TypeOK
  PROVE  /\ Final \in ToClient /\ Final.t = "res"
         /\ [Final EXCEPT !.status = 1] \in ToClient
         /\ [Final EXCEPT !.status = 1].t = "res"
<1>1. handler.ver \in Version /\ handler.sha \in Digest
  BY DEF TypeOK, HandlerState
<1>2. Size[handler.ver] \in Nat
  BY <1>1, DownloadAssumption
<1> QED
  BY <1>1, <1>2 DEF Final, Res, ToClient

\* The next chunk of a handler that sends, the n of SrvSend, and its new state.
LEMMA ChunkTyped ==
  ASSUME TypeOK, handler.off <= handler.pos, handler.pos <= Size[handler.ver],
         NEW b \in BOOLEAN
  PROVE  LET h == handler
             n == Least(BufferSize, Size[h.ver] - h.pos)
             d == SubSeq(Content(h.ver), h.pos + 1, h.pos + n) IN
         /\ n \in Nat /\ h.pos + n <= Size[h.ver] /\ h.pos \in Nat /\ h.off \in Nat
         /\ d \in Seq(Datum) /\ Chunk(h.off, d, b) \in ToClient
         /\ [h EXCEPT !.pc = "await", !.pos = h.pos + n] \in HandlerState
<1> DEFINE h == handler
           n == Least(BufferSize, Size[h.ver] - h.pos)
           d == SubSeq(Content(h.ver), h.pos + 1, h.pos + n)
<1>1. h \in HandlerState /\ h.ver \in Version /\ h.pos \in Nat /\ h.off \in Nat
  BY DEF TypeOK, HandlerState
<1>2. Size[h.ver] \in Nat /\ BufferSize \in Nat
  BY <1>1, DownloadAssumption
<1>3. n \in Nat /\ h.pos + n <= Size[h.ver] /\ h.pos + n \in Nat
  BY <1>1, <1>2 DEF Least
<1>4. d \in Seq(Datum)
  <2> HIDE DEF n
  <2>1. h.pos <= h.pos + n
    BY <1>1, <1>3
  <2> QED
    BY <1>1, <1>3, <2>1, SliceFacts
<1>5. Chunk(h.off, d, b) \in ToClient
  <2> HIDE DEF d
  <2> QED
    BY <1>1, <1>4 DEF Chunk, ToClient
<1>6. [h EXCEPT !.pc = "await", !.pos = h.pos + n] \in HandlerState
  <2> HIDE DEF n
  <2> QED
    BY <1>1, <1>3 DEF HandlerState
<1> QED
  BY <1>1, <1>3, <1>4, <1>5, <1>6

LEMMA HandlerTyped ==
  ASSUME IInv, HandlerStep \/ SrvKilled \/ Replace
  PROVE  TypeOK'
<1> DEFINE h == handler
           rest == Tail(c2s)
<1>1. /\ h \in HandlerState /\ h.ver \in Version /\ h.off \in Nat /\ h.pos \in Nat
      /\ c2s \in Seq(ToServer) /\ s2c \in Seq(ToClient) /\ stored \in Digest
      /\ client \in ClientState /\ local \in [part : File, final : File]
      /\ faults \in 0..MaxFaults
      /\ h.off <= h.pos /\ h.pos <= Size[h.ver] /\ Size[h.ver] \in Nat
  BY DownloadAssumption DEF IInv, TypeOK, HandlerState, Right, Positions
<1>2. /\ c2s # <<>> => rest \in Seq(ToServer) /\ Head(c2s) \in ToServer
      /\ <<>> \in Seq(ToServer) /\ <<>> \in Seq(ToClient)
  BY <1>1
<1>3. \A m \in ToClient : <<m>> \in Seq(ToClient)
  OBVIOUS
<1>4. Closed(h) \in HandlerState
  BY <1>1, ClosedTyped
<1>5. TypeOK
  BY DEF IInv
<1> HIDE DEF h, rest
<1>6. ASSUME UNCHANGED <<client, stored, local>>, faults' \in 0..MaxFaults,
             handler' \in HandlerState, c2s' \in Seq(ToServer), s2c' \in Seq(ToClient)
      PROVE  TypeOK'
  BY <1>1, <1>6 DEF TypeOK
<1>7. ASSUME UNCHANGED <<client, stored, local>>, faults' \in 0..MaxFaults,
             NEW ms \in Seq(ToClient), NEW h2 \in HandlerState,
             NEW q \in Seq(ToServer), Sends(ms, h2, q)
      PROVE  TypeOK'
  BY <1>5, <1>6, <1>7, SendsTyped
<1>8. CASE SrvRequest
  <2>1. /\ c2s # <<>> /\ UNCHANGED <<client, stored, local>>
    BY <1>8 DEF SrvRequest, Reads
  <2>2. faults' \in 0..MaxFaults
    BY <1>1, <1>8, FaultsTyped DEF SrvRequest
  <2>3. CASE Sends(<<Res(1, 0, NoFile)>>, h, rest)
    <3>1. Res(1, 0, NoFile) \in ToClient
      BY DEF Res, ToClient, Digest
    <3> QED
      BY <1>1, <1>2, <1>3, <1>7, <2>1, <2>2, <2>3, <3>1
  <2>4. CASE /\ stored # NoFile /\ handler' = [h EXCEPT !.pc = "hash", !.ver = stored]
             /\ c2s' = rest /\ UNCHANGED s2c
    <3>1. handler' \in HandlerState
      BY <1>1, <2>4 DEF HandlerState, Digest
    <3> QED
      BY <1>1, <1>2, <1>6, <2>1, <2>2, <2>4, <3>1
  <2> QED
    BY <1>8, <2>3, <2>4 DEF SrvRequest, h, rest
<1>9. CASE SrvHash
  <2>1. PICK d \in {stored, NoFile} :
          Sends(<<Res(0, Size[h.ver], d)>>, [h EXCEPT !.pc = "send", !.sha = d], c2s)
    BY <1>9 DEF SrvHash, h
  <2>2. d \in Digest
    BY <1>1, <2>1 DEF Digest
  <2>3. /\ Res(0, Size[h.ver], d) \in ToClient
        /\ [h EXCEPT !.pc = "send", !.sha = d] \in HandlerState
    BY <1>1, <2>2 DEF Res, ToClient, HandlerState
  <2>4. UNCHANGED <<client, stored, local>>
    BY <1>9 DEF SrvHash
  <2>5. faults' \in 0..MaxFaults
    BY <1>1, <1>9, FaultsTyped DEF SrvHash
  <2> QED
    BY <1>1, <1>3, <1>7, <2>1, <2>3, <2>4, <2>5
<1>10. CASE SrvSend
  <2> DEFINE n == Least(BufferSize, Size[h.ver] - h.pos)
             d == SubSeq(Content(h.ver), h.pos + 1, h.pos + n)
             h2 == [h EXCEPT !.pc = "await", !.pos = h.pos + n]
  <2>1. UNCHANGED <<client, stored, local>>
    BY <1>10 DEF SrvSend
  <2>2. faults' \in 0..MaxFaults
    BY <1>1, <1>10, FaultsTyped DEF SrvSend
  <2>3. ASSUME NEW b \in BOOLEAN, Sends(<<Chunk(h.off, d, b)>>, h2, c2s)
        PROVE  TypeOK'
    <3>1. Chunk(h.off, d, b) \in ToClient /\ h2 \in HandlerState
      BY <1>1, <1>5, ChunkTyped DEF h
    <3> HIDE DEF d, h2
    <3> QED
      BY <1>1, <1>3, <1>7, <2>1, <2>2, <2>3, <3>1
  <2>4. CASE Sends(<<Final>>, Closed(h), c2s)
    BY <1>1, <1>3, <1>4, <1>5, <1>7, <2>1, <2>2, <2>4, FinalTyped
  <2>5. CASE Sends(<<[Final EXCEPT !.status = 1], Final>>, Closed(h), c2s)
    <3>1. <<[Final EXCEPT !.status = 1], Final>> \in Seq(ToClient)
      BY <1>5, FinalTyped
    <3> QED
      BY <1>1, <1>4, <1>7, <2>1, <2>2, <2>5, <3>1
  <2> QED
    BY <1>10, <2>3, <2>4, <2>5 DEF SrvSend, h
<1>11. CASE SrvAck
  <2>1. /\ c2s # <<>> /\ Head(c2s).t = "ack" /\ UNCHANGED <<client, stored, local>>
    BY <1>11 DEF SrvAck, Reads
  <2>2. faults' \in 0..MaxFaults
    BY <1>1, <1>11, FaultsTyped DEF SrvAck
  <2> DEFINE off == Least(Head(c2s).off, Size[h.ver])
  <2>3. off \in Nat
    BY <1>1, <1>2, <2>1, ReadTyped DEF Least
  <2> HIDE DEF off
  <2>4. ASSUME NEW to \in Nat, handler' = [h EXCEPT !.pc = "send", !.off = to, !.pos = to],
               c2s' = rest, UNCHANGED s2c
        PROVE  TypeOK'
    <3>1. handler' \in HandlerState
      BY <1>1, <2>4 DEF HandlerState
    <3> QED
      BY <1>1, <1>2, <1>6, <2>1, <2>2, <2>4, <3>1
  <2>5. CASE Sends(<<Final>>, Closed(h), rest)
    BY <1>1, <1>2, <1>3, <1>4, <1>5, <1>7, <2>1, <2>2, <2>5, FinalTyped
  <2> QED
    BY <1>1, <1>11, <2>3, <2>4, <2>5 DEF SrvAck, h, rest, off
<1>12. CASE SrvBreak
  <2>1. /\ UNCHANGED <<client, stored, local, faults>>
        /\ c2s # <<>> \/ c2s = <<>>
    BY <1>12 DEF SrvBreak
  <2>2. [Closed(h) EXCEPT !.sync = FALSE] \in HandlerState
    BY <1>4 DEF HandlerState
  <2>3. PICK h2 \in HandlerState, q \in Seq(ToServer) : Sends(<<Final>>, h2, q)
    BY <1>1, <1>2, <1>4, <1>12, <2>2 DEF SrvBreak, h, rest
  <2> QED
    BY <1>1, <1>3, <1>5, <1>7, <2>1, <2>3, FinalTyped
<1>13. CASE SrvList
  <2>1. ListRes \in ToClient
    BY DEF ListRes, ToClient
  <2>2. /\ c2s # <<>> /\ Sends(<<ListRes>>, h, rest)
        /\ UNCHANGED <<client, stored, local, faults>>
    BY <1>13 DEF SrvList, Reads, h, rest
  <2> QED
    BY <1>1, <1>2, <1>3, <1>7, <2>1, <2>2
<1>14. CASE SrvIgnore
  BY <1>1, <1>2, <1>14 DEF SrvIgnore, TypeOK, h, rest
<1>15. CASE SrvExit \/ SrvKilled
  <2>1. /\ handler' = HandlerNone /\ c2s' = <<>>
        /\ UNCHANGED <<client, s2c, stored, local>>
    BY <1>15 DEF SrvExit, SrvKilled
  <2>2. faults' \in 0..MaxFaults
    BY <1>1, <1>15, FaultsTyped DEF SrvExit, SrvKilled
  <2> QED
    BY <1>1, <1>2, <1>6, <2>1, <2>2, Starts
<1>16. CASE Replace
  <2>1. faults' \in 0..MaxFaults
    BY <1>1, <1>16, FaultsTyped DEF Replace
  <2> QED
    BY <1>1, <1>16, <2>1 DEF Replace, TypeOK, Digest, h
<1> QED
  BY <1>8, <1>9, <1>10, <1>11, <1>12, <1>13, <1>14, <1>15, <1>16 DEF HandlerStep

-----------------------------------------------------------------------------
(* What is on its way *)

Answers(r) == \A i \in 1..Len(r) : r[i].t = "res"
Requests(q) == \A i \in 1..Len(q) : q[i].t = "req"

LEMMA SentMore ==
  ASSUME NEW r \in Seq(ToClient), Answers(r), NEW m \in ToClient, NEW h,
         \/ m.t = "res" /\ h.pc # "await"
         \/ m.t = "chunk" /\ h.pc = "await" /\ m.at = h.off /\ m.data = Slice(h),
         h.pc \in {"send", "await"} /\ (r # <<>> \/ m.t = "res") => h.off = 0
  PROVE  Sent(h, Append(r, m))
<1> DEFINE s == Append(r, m)
<1>1. /\ s # <<>> /\ Len(s) = Len(r) + 1 /\ Len(r) \in Nat
      /\ \A i \in 1..Len(r) : s[i] = r[i]
      /\ s[Len(r) + 1] = m /\ Head(s) = (IF r = <<>> THEN m ELSE Head(r))
  BY AppendFacts
<1> HIDE DEF s
<1>2. ASSUME NEW i \in 1..Len(s)
      PROVE  \/ s[i].t = "res"
             \/ /\ s[i].t = "chunk" /\ i = Len(s) /\ h.pc = "await"
                /\ s[i].at = h.off /\ s[i].data = Slice(h)
  <2>1. CASE i = Len(r) + 1
    BY <1>1, <2>1
  <2>2. CASE i # Len(r) + 1
    <3>1. i \in 1..Len(r)
      BY <1>1, <2>2
    <3> QED
      BY <1>1, <3>1 DEF Answers
  <2> QED
    BY <2>1, <2>2
<1>3. h.pc = "await" => s[Len(s)].t = "chunk"
  BY <1>1
<1>4. h.pc \in {"send", "await"} /\ Head(s).t = "res" => h.off = 0
  <2>1. CASE r = <<>>
    BY <1>1, <2>1
  <2>2. CASE r # <<>>
    BY <2>2
  <2> QED
    BY <2>1, <2>2
<1> QED
  BY <1>2, <1>3, <1>4 DEF Sent, s

LEMMA AnswersMore ==
  ASSUME NEW r \in Seq(ToClient), Answers(r), NEW m \in ToClient, m.t = "res"
  PROVE  Answers(Append(r, m))
<1>1. /\ Len(Append(r, m)) = Len(r) + 1 /\ Len(r) \in Nat
      /\ \A i \in 1..Len(r) : Append(r, m)[i] = r[i]
      /\ Append(r, m)[Len(r) + 1] = m
  BY AppendFacts
<1>2. \A i \in 1..Len(r) + 1 : i = Len(r) + 1 \/ i \in 1..Len(r)
  BY <1>1
<1> QED
  BY <1>1, <1>2 DEF Answers

LEMMA SentTail ==
  ASSUME NEW h, NEW r \in Seq(ToClient), Sent(h, r), r # <<>>
  PROVE  /\ Sent(h, Tail(r))
         /\ Head(r).t \in {"res", "chunk"}
         /\ Head(r).t = "chunk" => /\ Tail(r) = <<>> /\ h.pc = "await"
                                   /\ Head(r).at = h.off /\ Head(r).data = Slice(h)
         /\ Tail(r) # <<>> /\ h.pc \in {"send", "await"} => h.off = 0
         /\ h.pc = "await" /\ Tail(r) = <<>> => Head(r).t = "chunk"
<1> DEFINE s == Tail(r)
<1>1. /\ Head(r) = r[1] /\ Len(r) \in Nat \ {0} /\ Len(s) = Len(r) - 1
      /\ \A i \in 1..Len(r) - 1 : s[i] = r[i + 1]
      /\ Len(r) = 1 <=> s = <<>>
      /\ s # <<>> => Head(s) = r[2] /\ Len(r) > 1
  BY TailFacts
<1> HIDE DEF s
<1>2. 1 \in 1..Len(r)
  BY <1>1
<1>3. /\ Head(r).t \in {"res", "chunk"}
      /\ Head(r).t = "chunk" => /\ s = <<>> /\ h.pc = "await"
                                /\ Head(r).at = h.off /\ Head(r).data = Slice(h)
  <2>1. \/ r[1].t = "res"
        \/ /\ r[1].t = "chunk" /\ 1 = Len(r) /\ h.pc = "await"
           /\ r[1].at = h.off /\ r[1].data = Slice(h)
    BY <1>2 DEF Sent
  <2> QED
    BY <1>1, <2>1
<1>4. s # <<>> /\ h.pc \in {"send", "await"} => h.off = 0
  BY <1>3 DEF Sent
<1>5. h.pc = "await" /\ s = <<>> => Head(r).t = "chunk"
  BY <1>1 DEF Sent
<1>6. Sent(h, s)
  <2>1. ASSUME NEW i \in 1..Len(s)
        PROVE  \/ s[i].t = "res"
               \/ /\ s[i].t = "chunk" /\ i = Len(s) /\ h.pc = "await"
                  /\ s[i].at = h.off /\ s[i].data = Slice(h)
    <3>1. i + 1 \in 1..Len(r) /\ s[i] = r[i + 1] /\ (i + 1 = Len(r) <=> i = Len(s))
      BY <1>1
    <3> QED
      BY <3>1 DEF Sent
  <2>2. h.pc = "await" /\ s # <<>> => s[Len(s)].t = "chunk"
    <3>1. s # <<>> => s[Len(s)] = r[Len(r)]
      BY <1>1
    <3> QED
      BY <3>1 DEF Sent
  <2> QED
    BY <1>4, <2>1, <2>2 DEF Sent
<1> QED
  BY <1>3, <1>4, <1>5, <1>6 DEF s

LEMMA SentAnswers ==
  ASSUME NEW h, NEW r \in Seq(ToClient), Sent(h, r), h.pc # "await"
  PROVE  Answers(r)
BY DEF Sent, Answers

LEMMA AnswersHead ==
  ASSUME NEW r \in Seq(ToClient), Answers(r), r # <<>>
  PROVE  Head(r).t = "res"
<1>1. 1 \in 1..Len(r) /\ Head(r) = r[1]
  BY TailFacts
<1> QED
  BY <1>1 DEF Answers

LEMMA NothingSent ==
  ASSUME NEW h
  PROVE  Sent(h, <<>>) /\ Answers(<<>>)
BY DEF Sent, Answers

LEMMA AskedRequests ==
  ASSUME NEW k, NEW h, NEW q \in Seq(ToServer), NEW r, Asked(k, h, q, r),
         h.pc # "await" \/ r # <<>> \/ k.pc # "loop"
  PROVE  Requests(q)
BY DEF Asked, Requests

LEMMA RequestsAsked ==
  ASSUME NEW k, NEW h, NEW q, NEW r, Requests(q)
  PROVE  Asked(k, h, q, r)
BY DEF Asked, Requests

\* The message at the head is a request, or an ACK with nothing behind it.
LEMMA AskedTail ==
  ASSUME NEW k, NEW h, NEW q \in Seq(ToServer), NEW r, Asked(k, h, q, r), q # <<>>
  PROVE  /\ Head(q).t \in {"req", "ack"}
         /\ Head(q).t = "ack" => /\ Tail(q) = <<>> /\ h.pc = "await" /\ r = <<>>
                                 /\ k.pc = "loop"
         /\ Requests(q) => Requests(Tail(q))
<1>1. /\ Head(q) = q[1] /\ Len(q) \in Nat \ {0} /\ Len(Tail(q)) = Len(q) - 1
      /\ \A i \in 1..Len(q) - 1 : Tail(q)[i] = q[i + 1]
      /\ Len(q) = 1 <=> Tail(q) = <<>>
  BY TailFacts
<1>2. 1 \in 1..Len(q) /\ \A i \in 1..Len(q) - 1 : i + 1 \in 1..Len(q)
  BY <1>1
<1> QED
  BY <1>1, <1>2 DEF Asked, Requests

LEMMA AskedMore ==
  ASSUME NEW k, NEW h, NEW q \in Seq(ToServer), NEW r, Requests(q), NEW m \in ToServer,
         \/ m.t = "req"
         \/ m.t = "ack" /\ h.pc = "await" /\ r = <<>> /\ k.pc = "loop"
  PROVE  Asked(k, h, Append(q, m), r)
<1>1. /\ Len(Append(q, m)) = Len(q) + 1 /\ Len(q) \in Nat
      /\ \A i \in 1..Len(q) : Append(q, m)[i] = q[i]
      /\ Append(q, m)[Len(q) + 1] = m
  BY AppendFacts
<1>2. \A i \in 1..Len(q) + 1 : i = Len(q) + 1 \/ i \in 1..Len(q)
  BY <1>1
<1> QED
  BY <1>1, <1>2 DEF Asked, Requests

\* The client: no list is on its way to it, and taking a message keeps it so.
LEMMA NoListTail ==
  ASSUME NEW r \in Seq(ToClient), r # <<>>, \A i \in 1..Len(r) : r[i].t # "list"
  PROVE  Head(r).t # "list" /\ \A i \in 1..Len(Tail(r)) : Tail(r)[i].t # "list"
<1>1. /\ Head(r) = r[1] /\ Len(r) \in Nat \ {0} /\ Len(Tail(r)) = Len(r) - 1
      /\ \A i \in 1..Len(r) - 1 : Tail(r)[i] = r[i + 1]
  BY TailFacts
<1>2. 1 \in 1..Len(r) /\ \A i \in 1..Len(r) - 1 : i + 1 \in 1..Len(r)
  BY <1>1
<1> QED
  BY <1>1, <1>2

LEMMA NoListMore ==
  ASSUME NEW r \in Seq(ToClient), \A i \in 1..Len(r) : r[i].t # "list",
         NEW m \in ToClient, m.t # "list"
  PROVE  \A i \in 1..Len(Append(r, m)) : Append(r, m)[i].t # "list"
<1>1. /\ Len(Append(r, m)) = Len(r) + 1 /\ Len(r) \in Nat
      /\ \A i \in 1..Len(r) : Append(r, m)[i] = r[i]
      /\ Append(r, m)[Len(r) + 1] = m
  BY AppendFacts
<1>2. \A i \in 1..Len(r) + 1 : i = Len(r) + 1 \/ i \in 1..Len(r)
  BY <1>1
<1> QED
  BY <1>1, <1>2

-----------------------------------------------------------------------------
(* The client *)

LEMMA ClientRight ==
  ASSUME IInv, ClientStep \/ Connect \/ Ask \/ ClientStops
  PROVE  Right(client', handler', c2s', s2c', local'.part)
<1> DEFINE k == client
           h == handler
           q == c2s
           r == s2c
           p == local.part
           rest == Tail(s2c)
           k2 == client'
           q2 == c2s'
           r2 == s2c'
           p2 == local'.part
<1>1. /\ k \in ClientState /\ h \in HandlerState
      /\ q \in Seq(ToServer) /\ r \in Seq(ToClient)
      /\ local \in [part : File, final : File]
      /\ h.ver \in Version /\ h.off \in Nat /\ h.pos \in Nat /\ k.cur \in Nat
      /\ Size[h.ver] \in Nat
  BY DownloadAssumption DEF IInv, TypeOK, HandlerState, ClientState
<1>2. /\ Positions(h) /\ Clean(k, h, q, r) /\ Lists(k, h, q, r)
      /\ k.pc = "loop" => p \in Seq(Byte)
      /\ Talking(k) /\ h.sync /\ h.pc # "none" =>
           /\ Sent(h, r) /\ Asked(k, h, q, r)
           /\ k.pc = "loop" => Following(k, h, q, r, p)
  BY DEF IInv, Right
<1>3. ~Alive => h.pc = "none" /\ q = <<>>
  BY <1>2 DEF Alive, Clean
<1>4. \A m \in ToServer : /\ Append(q, m) # <<>>
                          /\ Head(Append(q, m)) = (IF q = <<>> THEN m ELSE Head(q))
  BY <1>1, AppendFacts
<1>5. r # <<>> => Head(r) \in ToClient /\ rest \in Seq(ToClient)
  BY <1>1, TailFacts
<1> HIDE DEF k, h, q, r, p, rest, k2, q2, r2, p2
<1>6. CASE Connect
  <2>1. /\ h.pc = "none" /\ k.pc = "off" /\ q2 = q /\ r2 = r
        /\ k2 = [ClientOff EXCEPT !.pc = "prompt"]
    BY <1>6 DEF Connect, Up, Alive, k, h, k2, q, r, q2, r2
  <2>2. PICK b \in BOOLEAN : handler' = HandlerIdle(b)
    BY <1>6 DEF Connect
  <2>3. q = <<>> /\ r = <<>> /\ k2.pc = "prompt"
    BY <1>2, <2>1 DEF Clean, ClientOff
  <2> DEFINE h2 == HandlerIdle(b)
  <2>4. /\ h2.pc = "dispatch" /\ h2.off = 0 /\ h2.pos = 0 /\ h2.ver \in Version
    BY DownloadAssumption DEF HandlerIdle
  <2>5. Size[h2.ver] \in Nat
    BY <2>4, DownloadAssumption
  <2> HIDE DEF h2
  <2>6. Positions(h2)
    BY <2>4, <2>5 DEF Positions
  <2>7. Sent(h2, <<>>) /\ Asked(k2, h2, <<>>, <<>>) /\ Lists(k2, h2, <<>>, <<>>)
    BY <2>3, NothingSent DEF Asked, Lists
  <2>8. Clean(k2, h2, <<>>, <<>>)
    BY DEF Clean
  <2>9. Right(k2, h2, <<>>, <<>>, p2)
    BY <2>3, <2>6, <2>7, <2>8 DEF Right
  <2> QED
    BY <2>1, <2>2, <2>3, <2>9 DEF h2, k2, q2, r2, p2
<1>7. ASSUME handler' = handler,
             Clean(k2, h, q2, r2), Lists(k2, h, q2, r2),
             k2.pc = "loop" => p2 \in Seq(Byte),
             Talking(k2) /\ h.sync /\ h.pc # "none" =>
               /\ Sent(h, r2) /\ Asked(k2, h, q2, r2)
               /\ k2.pc = "loop" => Following(k2, h, q2, r2, p2)
      PROVE  Right(client', handler', c2s', s2c', local'.part)
  <2>1. Right(k2, h, q2, r2, p2)
    BY <1>2, <1>7 DEF Right
  <2> QED
    BY <1>7, <2>1 DEF k2, h, q2, r2, p2
\* A client whose stream is out of step, or that is gone, is owed nothing.
<1>8. ASSUME handler' = handler, ~Talking(k2), ~(k2.sync /\ k2.pc = "list"),
             k2.pc # "loop" \/ (k.pc = "loop" /\ p2 = p),
             Clean(k2, h, q2, r2)
      PROVE  Right(client', handler', c2s', s2c', local'.part)
  BY <1>2, <1>7, <1>8 DEF Lists
\* Back at the prompt, having taken the head of what was on its way.
<1>9. ASSUME handler' = handler, k2.pc = "prompt", k2.sync = k.sync, Talking(k),
             q2 = q, r # <<>>, r2 = rest
      PROVE  Right(client', handler', c2s', s2c', local'.part)
  <2>1. \A i \in 1..Len(rest) : rest[i].t # "list"
    BY <1>1, <1>2, <1>9, NoListTail DEF Lists, rest, r
  <2>2. Lists(k2, h, q2, rest) /\ Clean(k2, h, q2, rest)
    BY <1>2, <1>9, <2>1 DEF Lists, Clean
  <2>3. ASSUME h.sync, h.pc # "none"
        PROVE  Sent(h, rest) /\ Asked(k2, h, q, rest)
    <3>1. Sent(h, r) /\ Asked(k, h, q, r)
      BY <1>2, <1>9, <2>3
    <3>2. Sent(h, rest)
      BY <1>1, <1>9, <3>1, SentTail DEF rest, r
    <3>3. Requests(q)
      BY <1>1, <1>9, <3>1, AskedRequests
    <3> QED
      BY <3>2, <3>3, RequestsAsked
  <2> QED
    BY <1>7, <1>9, <2>2, <2>3
<1>10. CASE Ask
  <2>1. /\ k.pc = "prompt" /\ r2 = r /\ p2 = p /\ handler' = handler /\ h.pc # "none"
    BY <1>10 DEF Ask, Alive, k, r, r2, p, p2, h
  <2>2. k.sync => \A i \in 1..Len(r) : r[i].t # "list"
    BY <1>2, <2>1 DEF Lists, Talking
  <2>3. k.sync /\ h.sync => Sent(h, r) /\ Requests(q)
    BY <1>1, <1>2, <2>1, AskedRequests DEF Talking
  <2>4. CASE k2 = [k EXCEPT !.pc = "res", !.report = "none"] /\ q2 = Append(q, Req)
    <3>1. k2.pc = "res" /\ k2.sync = k.sync
      BY <1>1, <2>4 DEF ClientState
    <3>2. Req \in ToServer /\ Req.t = "req"
      BY AskedTyped DEF Req
    <3>3. k.sync /\ h.sync => Asked(k2, h, q2, r)
      BY <1>1, <2>3, <2>4, <3>2, AskedMore
    <3>4. Lists(k2, h, q2, r2) /\ Clean(k2, h, q2, r2)
      BY <2>1, <2>2, <3>1 DEF Lists, Talking, Clean
    <3> QED
      BY <1>7, <2>1, <2>3, <3>1, <3>3, <3>4 DEF Talking
  <2>5. CASE k2 = [k EXCEPT !.pc = "list", !.report = "none"] /\ q2 = Append(q, ListReq)
    <3>1. k2.pc = "list" /\ k2.sync = k.sync
      BY <1>1, <2>5 DEF ClientState
    <3>2. k.sync /\ h.sync => \A i \in 1..Len(q2) : q2[i].t = "list" => i = Len(q2)
      <4>1. /\ Len(q2) = Len(q) + 1 /\ Len(q) \in Nat
            /\ \A i \in 1..Len(q) : q2[i] = q[i]
        BY <1>1, <2>5, AppendFacts, AskedTyped
      <4>2. \A i \in 1..Len(q) + 1 : i = Len(q) + 1 \/ i \in 1..Len(q)
        BY <4>1
      <4> QED
        BY <2>3, <4>1, <4>2 DEF Requests
    <3>3. k.sync /\ r # <<>> => Head(r).t # "list"
      BY <1>1, <2>2, NoListTail
    <3>4. Lists(k2, h, q2, r2) /\ Clean(k2, h, q2, r2)
      BY <2>1, <3>1, <3>2, <3>3 DEF Lists, Talking, Clean
    <3>5. ~Talking(k2)
      BY <3>1 DEF Talking
    <3> QED
      BY <1>7, <2>1, <3>1, <3>4, <3>5
  <2> QED
    BY <1>10, <2>4, <2>5 DEF Ask, k, k2, q, q2
<1>11. CASE ClientRes
  <2>1. /\ k.pc = "res" /\ k.sync /\ Talking(k) /\ r # <<>> /\ Head(r).t = "res"
        /\ r2 = rest /\ q2 = q /\ handler' = handler
    BY <1>11 DEF ClientRes, Receive, Talking, k, r, r2, rest, q, q2
  <2>2. ASSUME NEW e \in {"refused", "failed"}, k2 = Returned(k, e)
        PROVE  Right(client', handler', c2s', s2c', local'.part)
    <3>1. k2.pc = "prompt" /\ k2.sync = k.sync
      BY <1>1, <2>2, ReturnedTyped
    <3> QED
      BY <1>9, <2>1, <3>1
  <2>3. CASE /\ k2 = [k EXCEPT !.pc = "loop", !.cur = 0]
             /\ local' = [local EXCEPT !.part = <<>>]
    <3>1. k2.pc = "loop" /\ k2.cur = 0 /\ k2.sync = k.sync /\ p2 = <<>>
      BY <1>1, <2>3 DEF ClientState, p2
    <3>2. \A i \in 1..Len(rest) : rest[i].t # "list"
      BY <1>1, <1>2, <2>1, NoListTail DEF Lists, rest, r
    <3>3. Lists(k2, h, q, rest) /\ Clean(k2, h, q, rest)
      BY <1>2, <2>1, <3>1, <3>2 DEF Lists, Clean, Talking
    <3>4. ASSUME h.sync, h.pc # "none"
          PROVE  Sent(h, rest) /\ Asked(k2, h, q, rest) /\ Following(k2, h, q, rest, <<>>)
      <4>1. Sent(h, r) /\ Asked(k, h, q, r)
        BY <1>2, <2>1, <3>4
      <4>2. /\ Sent(h, rest)
            /\ rest # <<>> /\ h.pc \in {"send", "await"} => h.off = 0
            /\ ~(h.pc = "await" /\ rest = <<>>)
        BY <1>1, <2>1, <4>1, SentTail DEF rest, r
      <4>3. h.pc = "send" => h.off = 0
        BY <2>1, <4>1 DEF Sent
      <4>4. Asked(k2, h, q, rest)
        BY <1>1, <2>1, <4>1, AskedRequests, RequestsAsked
      <4>5. Following(k2, h, q, rest, <<>>)
        BY <1>1, <3>1, <4>2, <4>3, NothingYet DEF Following
      <4> QED
        BY <4>2, <4>4, <4>5
    <3>5. <<>> \in Seq(Byte)
      BY EmptySeq
    <3> QED
      BY <1>7, <2>1, <3>1, <3>3, <3>4, <3>5
  <2> QED
    BY <1>11, <2>2, <2>3 DEF ClientRes, k, k2
<1>12. CASE ClientFinal
  <2>1. /\ k.pc = "loop" /\ k.sync /\ Talking(k) /\ r # <<>>
        /\ r2 = rest /\ q2 = q /\ handler' = handler
    BY <1>12 DEF ClientFinal, Receive, Talking, k, r, r2, rest, q, q2
  <2>2. PICK e \in {"refused", "size", "ok", "mismatch", "unchecked", "failed"} :
          k2 = Returned(k, e)
    BY <1>12 DEF ClientFinal, k, k2
  <2>3. k2.pc = "prompt" /\ k2.sync = k.sync
    BY <1>1, <2>2, ReturnedTyped
  <2> QED
    BY <1>9, <2>1, <2>3
<1>13. CASE ClientList
  <2>1. /\ k.pc = "list" /\ k.sync /\ r # <<>> /\ Head(r).t = "list"
        /\ r2 = rest /\ q2 = q /\ handler' = handler /\ k2 = Returned(k, "none")
    BY <1>13 DEF ClientList, Receive, k, r, r2, rest, q, q2, k2
  <2>2. q = <<>> /\ rest = <<>>
    BY <1>2, <2>1 DEF Lists, rest, r
  <2>3. k2.pc = "prompt" /\ k2.sync
    BY <1>1, <2>1, ReturnedTyped
  <2>4. Sent(h, <<>>) /\ Asked(k2, h, <<>>, <<>>) /\ Lists(k2, h, <<>>, <<>>)
    BY <2>3, NothingSent DEF Asked, Lists
  <2>5. Clean(k2, h, <<>>, <<>>)
    BY DEF Clean
  <2> QED
    BY <1>7, <2>1, <2>2, <2>3, <2>4, <2>5
<1>14. CASE ClientOdd
  <2>1. /\ q2 = q /\ r2 = r /\ handler' = handler
        /\ k2 = [Returned(k, "failed") EXCEPT !.sync = FALSE]
    BY <1>14 DEF ClientOdd, q, q2, r, r2, k, k2
  <2>2. ~k2.sync /\ k2.pc = "prompt"
    <3>1. Returned(k, "failed") \in ClientState /\ Returned(k, "failed").pc = "prompt"
      BY <1>1, ReturnedTyped
    <3> QED
      BY <2>1, <3>1 DEF ClientState
  <2>3. Clean(k2, h, q2, r2)
    BY <1>2, <2>1, <2>2 DEF Clean
  <2> QED
    BY <1>8, <2>1, <2>2, <2>3 DEF Talking
<1>15. CASE ClientLost
  <2>1. /\ h.pc = "none" /\ r = <<>> /\ q2 = q /\ r2 = r /\ handler' = handler
        /\ k2 \in {Returned(k, "failed"), ClientOff}
    BY <1>15 DEF ClientLost, Alive, h, q, q2, r, r2, k, k2
  <2>2. k2.pc \in {"prompt", "off"}
    BY <1>1, <2>1, ReturnedTyped DEF ClientOff
  <2>3. Lists(k2, h, q2, r2) /\ Clean(k2, h, q2, r2)
    BY <1>2, <2>1, <2>2 DEF Lists, Clean
  <2> QED
    BY <1>7, <2>1, <2>2, <2>3
<1>16. CASE ClientStops
  <2>1. /\ k2 = ClientOff /\ r2 = <<>> /\ handler' = handler
        /\ h.pc = "none" => q2 = q
    BY <1>16 DEF ClientStops, Alive, k2, r2, h, q, q2
  <2>2. k2.pc = "off"
    BY <2>1 DEF ClientOff
  <2>3. Clean(k2, h, q2, r2)
    BY <1>2, <2>1 DEF Clean
  <2> QED
    BY <1>8, <2>1, <2>2, <2>3 DEF Talking
<1>17. CASE ClientChunk
  <2> DEFINE m == Head(r)
             n == m.at + Len(m.data)
  <2>1. /\ k.pc = "loop" /\ k.sync /\ Talking(k) /\ r # <<>> /\ m.t = "chunk"
        /\ handler' = handler /\ p \in Seq(Byte)
    BY <1>2, <1>17 DEF ClientChunk, Talking, k, r
  <2>2. m.at \in Nat /\ m.data \in Seq(Datum) /\ n \in Nat
    BY <1>5, <2>1, ReadTyped
  <2>3. \A i \in 1..Len(rest) : rest[i].t # "list"
    BY <1>1, <1>2, <2>1, NoListTail DEF Lists, rest, r
  <2>4. ASSUME h.sync, h.pc # "none"
        PROVE  /\ Sent(h, rest) /\ Requests(q)
               /\ rest = <<>> /\ h.pc = "await" /\ m.at = h.off /\ m.data = Slice(h)
               /\ k.cur = h.off /\ p = Prefix(Content(h.ver), h.off)
               /\ q # <<>> => Head(q).t = "req"
    <3>1. Sent(h, r) /\ Asked(k, h, q, r) /\ Following(k, h, q, r, p)
      BY <1>2, <2>1, <2>4
    <3>2. /\ Sent(h, rest) /\ rest = <<>> /\ h.pc = "await"
          /\ m.at = h.off /\ m.data = Slice(h)
      BY <1>1, <2>1, <3>1, SentTail DEF rest, r
    <3>3. Requests(q)
      BY <1>1, <2>1, <3>1, AskedRequests
    <3>4. k.cur = h.off /\ p = Prefix(Content(h.ver), h.off)
      BY <2>1, <3>1, <3>2 DEF Following
    <3>5. q # <<>> => Head(q).t = "req"
      BY <1>1, <3>1, <3>3, TailFacts DEF Requests
    <3> QED
      BY <3>2, <3>3, <3>4, <3>5
  <2>5. ASSUME h.sync, h.pc = "await"
        PROVE  /\ n = h.pos /\ h.off <= h.pos /\ h.pos <= Size[h.ver]
               /\ WriteAt(p, m.at, m.data) = Prefix(Content(h.ver), h.pos)
    <3>1. /\ m.at = h.off /\ m.data = Slice(h) /\ p = Prefix(Content(h.ver), h.off)
          /\ h.off <= h.pos /\ h.pos <= Size[h.ver]
      BY <1>2, <2>4, <2>5 DEF Positions
    <3>2. Len(Slice(h)) = h.pos - h.off
      BY <1>1, <3>1, SliceFacts DEF Slice
    <3>3. n = h.pos
      BY <1>1, <3>1, <3>2
    <3>4. WriteAt(Prefix(Content(h.ver), h.off), h.off, Slice(h)) = Prefix(Content(h.ver), h.pos)
      BY <1>1, <3>1, WriteFollows DEF Slice
    <3> QED
      BY <3>1, <3>3, <3>4
  <2>6. ASSUME k2.pc = "loop", k2.sync = k.sync, r2 = rest, p2 \in Seq(Byte),
               NEW a, q2 = (IF h.pc # "none" THEN Append(q, a) ELSE q),
               \/ a = Ack(0, n) /\ k2.cur = n /\ p2 = WriteAt(p, m.at, m.data)
               \/ a = Ack(1, k.cur) /\ k2.cur = k.cur /\ p2 = p
        PROVE  Right(client', handler', c2s', s2c', local'.part)
    <3>1. /\ a \in ToServer /\ a.t = "ack" /\ a.off = k2.cur /\ a.status \in {0, 1}
          /\ a.status = 0 => k2.cur = n /\ p2 = WriteAt(p, m.at, m.data)
          /\ a.status = 1 => k2.cur = k.cur /\ p2 = p
      <4>1. CASE a = Ack(0, n) /\ k2.cur = n /\ p2 = WriteAt(p, m.at, m.data)
        <5>1. a \in ToServer
          BY <2>2, <4>1, AskedTyped
        <5>2. a.t = "ack" /\ a.off = n /\ a.status = 0
          BY <4>1 DEF Ack
        <5> QED
          BY <4>1, <5>1, <5>2
      <4>2. CASE a = Ack(1, k.cur) /\ k2.cur = k.cur /\ p2 = p
        <5>1. a \in ToServer
          BY <1>1, <4>2, AskedTyped
        <5>2. a.t = "ack" /\ a.off = k.cur /\ a.status = 1
          BY <4>2 DEF Ack
        <5> QED
          BY <4>2, <5>1, <5>2
      <4> QED
        BY <2>6, <4>1, <4>2
    <3>2. Lists(k2, h, q2, rest) /\ Clean(k2, h, q2, rest)
      BY <1>2, <1>3, <2>1, <2>3, <2>6 DEF Lists, Clean, Talking
    <3>3. ASSUME h.sync, h.pc # "none"
          PROVE  Asked(k2, h, q2, rest) /\ Following(k2, h, q2, rest, p2)
      <4>1. Asked(k2, h, q2, rest)
        BY <1>1, <2>4, <2>6, <3>1, <3>3, AskedMore
      <4>2. q2 # <<>> /\ (Head(q2).t = "req" \/ Head(q2) = a)
        BY <1>4, <2>4, <2>6, <3>1, <3>3
      <4>3. /\ k2.cur = (IF a.status = 0 THEN h.pos ELSE h.off)
            /\ k2.cur <= Size[h.ver] /\ p2 = Prefix(Content(h.ver), k2.cur)
        BY <1>1, <2>4, <2>5, <3>1, <3>3
      <4>4. Following(k2, h, q2, rest, p2)
        BY <2>4, <3>1, <3>3, <4>2, <4>3 DEF Following
      <4> QED
        BY <4>1, <4>4
    <3>4. h.sync /\ h.pc # "none" => Sent(h, rest)
      BY <2>4
    <3> QED
      BY <1>7, <2>1, <2>6, <3>2, <3>3, <3>4
  <2>7. CASE /\ k2 = [k EXCEPT !.cur = n]
             /\ local' = [local EXCEPT !.part = WriteAt(@, m.at, m.data)]
             /\ Tells(Ack(0, n)) /\ s2c' = Tail(s2c)
    <3>1. k2.pc = "loop" /\ k2.sync = k.sync /\ k2.cur = n
      BY <1>1, <2>1, <2>7 DEF ClientState
    <3>2. p2 = WriteAt(p, m.at, m.data)
      BY <1>1, <2>7 DEF p, p2
    <3>3. p2 \in Seq(Byte)
      BY <2>1, <2>2, <3>2, WriteTyped
    <3>4. q2 = (IF h.pc # "none" THEN Append(q, Ack(0, n)) ELSE q) /\ r2 = rest
      BY <2>7 DEF Tells, Alive, h, q, q2, r2, rest
    <3> QED
      BY <2>6, <3>1, <3>2, <3>3, <3>4
  <2>8. CASE /\ k2 = k /\ p2 = p /\ Tells(Ack(1, k.cur)) /\ s2c' = Tail(s2c)
    <3>1. q2 = (IF h.pc # "none" THEN Append(q, Ack(1, k.cur)) ELSE q) /\ r2 = rest
      BY <2>8 DEF Tells, Alive, h, q, q2, r2, rest
    <3> QED
      BY <2>1, <2>6, <2>8, <3>1
  <2>9. CASE /\ k2 = [k EXCEPT !.sync = FALSE] /\ p2 = p /\ Tells(Ack(1, k.cur)) /\ r2 = r
    <3>1. ~k2.sync /\ k2.pc = "loop"
      BY <1>1, <2>1, <2>9 DEF ClientState
    <3>2. h.pc = "none" => q2 = q
      BY <2>9 DEF Tells, Alive, h, q, q2
    <3>3. Clean(k2, h, q2, r2)
      BY <1>2, <2>9, <3>1, <3>2 DEF Clean
    <3> QED
      BY <1>8, <2>1, <2>9, <3>1, <3>3 DEF Talking
  <2>10. CASE k2 = Returned(k, "failed") /\ s2c' = Tail(s2c) /\ q2 = q
    <3>1. r2 = rest
      BY <2>10 DEF r2, rest
    <3> QED
      BY <1>1, <1>9, <2>1, <2>10, <3>1, ReturnedTyped
  <2> QED
    BY <1>17, <2>7, <2>8, <2>9, <2>10 DEF ClientChunk, k, k2, p, p2, q, q2, r, r2
<1> QED
  BY <1>6, <1>10, <1>11, <1>12, <1>13, <1>14, <1>15, <1>16, <1>17 DEF ClientStep

-----------------------------------------------------------------------------
(* The handler *)

\* What the handler reads and sends leaves the answer to a list where it is.
LEMMA ListsKept ==
  ASSUME NEW k, NEW h, NEW q \in Seq(ToServer), NEW r \in Seq(ToClient),
         Lists(k, h, q, r), h.pc \notin {"none", "dispatch"} \/ q # <<>>,
         NEW h2, h2.sync => h.sync,
         NEW q2, q2 = q \/ (q # <<>> /\ q2 = Tail(q))
  PROVE  /\ Lists(k, h2, q2, r)
         /\ \A m \in ToClient : m.t # "list" => Lists(k, h2, q2, Append(r, m))
<1>1. ASSUME k.sync, k.pc = "list", h2.sync
      PROVE  \A i \in 1..Len(q2) : q2[i].t = "list" => i = Len(q2)
  <2>1. \A i \in 1..Len(q) : q[i].t = "list" => i = Len(q)
    BY <1>1 DEF Lists
  <2>2. CASE q # <<>> /\ q2 = Tail(q)
    <3>1. /\ Len(q) \in Nat \ {0} /\ Len(q2) = Len(q) - 1
          /\ \A i \in 1..Len(q) - 1 : q2[i] = q[i + 1]
      BY <2>2, TailFacts
    <3>2. ASSUME NEW i \in 1..Len(q2), q2[i].t = "list"
          PROVE  i = Len(q2)
      <4>1. i + 1 \in 1..Len(q) /\ q2[i] = q[i + 1]
        BY <3>1
      <4>2. i + 1 = Len(q)
        BY <2>1, <3>2, <4>1
      <4> QED
        BY <3>1, <4>2
    <3> QED
      BY <3>2
  <2> QED
    BY <2>1, <2>2
<1>2. k.sync /\ k.pc = "list" /\ r # <<>> => Head(r).t # "list"
  BY DEF Lists
<1>3. Lists(k, h2, q2, r)
  BY <1>1, <1>2 DEF Lists
<1>4. ASSUME NEW m \in ToClient, m.t # "list"
      PROVE  Lists(k, h2, q2, Append(r, m))
  <2>1. Talking(k) => \A i \in 1..Len(Append(r, m)) : Append(r, m)[i].t # "list"
    BY <1>4, NoListMore DEF Lists
  <2>2. Head(Append(r, m)) = (IF r = <<>> THEN m ELSE Head(r))
    BY AppendFacts
  <2> QED
    BY <1>1, <1>2, <1>4, <2>1, <2>2 DEF Lists
<1> QED
  BY <1>3, <1>4

LEMMA NonePositions == HandlerNone.pc = "none" /\ Positions(HandlerNone)
<1>1. /\ HandlerNone.pc = "none" /\ HandlerNone.off = 0 /\ HandlerNone.pos = 0
      /\ HandlerNone.ver \in Version
  BY DownloadAssumption DEF HandlerNone, HandlerIdle
<1>2. Size[HandlerNone.ver] \in Nat
  BY <1>1, DownloadAssumption
<1> QED
  BY <1>1, <1>2 DEF Positions

\* Sending keeps the invariant if it holds of what was sent to a client.
LEMMA SendsRight ==
  ASSUME IInv, UNCHANGED <<client, local>>,
         NEW ms, NEW h2, NEW q2, Sends(ms, h2, q2), h2.pc # "none", Positions(h2),
         NEW r2, r2 = s2c \o ms, Lists(client, h2, q2, r2),
         Talking(client) /\ h2.sync =>
           /\ Sent(h2, r2) /\ Asked(client, h2, q2, r2)
           /\ client.pc = "loop" => Following(client, h2, q2, r2, local.part)
  PROVE  Right(client', handler', c2s', s2c', local'.part)
<1>1. client.pc = "loop" => local.part \in Seq(Byte)
  BY DEF IInv, Right
<1>2. CASE Up
  <2>1. handler' = h2 /\ c2s' = q2 /\ s2c' = r2
    BY <1>2 DEF Sends
  <2>2. Right(client, h2, q2, r2, local.part)
    BY <1>1, <1>2 DEF Right, Clean, Up
  <2> QED
    BY <2>1, <2>2
<1>3. CASE ~Up
  <2>1. client.pc = "off" /\ s2c' = s2c /\ s2c = <<>>
    BY <1>3 DEF Up, Sends, IInv, Right, Clean
  <2>2. \A h, q : Positions(h) /\ (h.pc = "none" => q = <<>>)
                    => Right(client, h, q, <<>>, local.part)
    BY <2>1 DEF Right, Clean, Lists, Talking
  <2>3. Positions(HandlerNone)
    BY NonePositions
  <2>4. CASE handler' = h2 /\ c2s' = q2
    <3>1. Right(client, h2, q2, <<>>, local.part)
      BY <2>2
    <3> QED
      BY <2>1, <2>4, <3>1
  <2>5. CASE handler' = HandlerNone /\ c2s' = <<>>
    <3>1. Right(client, HandlerNone, <<>>, <<>>, local.part)
      BY <2>2, <2>3
    <3> QED
      BY <2>1, <2>5, <3>1
  <2> QED
    BY <1>3, <2>4, <2>5 DEF Sends
<1> QED
  BY <1>2, <1>3

LEMMA HandlerRight ==
  ASSUME IInv, HandlerStep \/ SrvKilled \/ Replace
  PROVE  Right(client', handler', c2s', s2c', local'.part)
<1> DEFINE k == client
           h == handler
           q == c2s
           r == s2c
           p == local.part
           rest == Tail(c2s)
<1>1. /\ k \in ClientState /\ h \in HandlerState
      /\ q \in Seq(ToServer) /\ r \in Seq(ToClient)
      /\ h.ver \in Version /\ h.off \in Nat /\ h.pos \in Nat /\ k.cur \in Nat
      /\ Size[h.ver] \in Nat
  BY DownloadAssumption DEF IInv, TypeOK, HandlerState, ClientState
<1>2. /\ Positions(h) /\ Clean(k, h, q, r) /\ Lists(k, h, q, r)
      /\ k.pc = "loop" => p \in Seq(Byte)
      /\ Talking(k) /\ h.sync /\ h.pc # "none" =>
           /\ Sent(h, r) /\ Asked(k, h, q, r)
           /\ k.pc = "loop" => Following(k, h, q, r, p)
  BY DEF IInv, Right
<1>3. /\ \A m \in ToClient : r \o <<m>> = Append(r, m)
      /\ r \o <<>> = r
      /\ q # <<>> => Head(q) \in ToServer /\ rest \in Seq(ToServer)
  BY <1>1, AppendFacts, TailFacts, ConcatEmptySeq
<1>4. Final \in ToClient /\ Final.t = "res"
  BY FinalTyped DEF IInv
<1>5. /\ Closed(h).pc = "dispatch" /\ Closed(h).sync = h.sync /\ Positions(Closed(h))
  <2>1. /\ Closed(h).pc = "dispatch" /\ Closed(h).off = 0 /\ Closed(h).pos = 0
        /\ Closed(h).ver = h.ver /\ Closed(h).sync = h.sync
    BY <1>1, ClosedTyped
  <2> QED
    BY <1>1, <2>1 DEF Positions
<1> HIDE DEF k, h, q, r, p, rest
\* The handler is gone: what it has sent is still on its way.
<1>6. ASSUME UNCHANGED <<client, local, s2c>>, handler' = HandlerNone, c2s' = <<>>
      PROVE  Right(client', handler', c2s', s2c', local'.part)
  <2>1. HandlerNone.pc = "none" /\ Positions(HandlerNone)
    BY NonePositions
  <2>2. Lists(k, HandlerNone, <<>>, r)
    BY <1>2, <2>1 DEF Lists
  <2>3. Clean(k, HandlerNone, <<>>, r)
    BY <1>2 DEF Clean
  <2>4. Right(k, HandlerNone, <<>>, r, p)
    BY <1>2, <2>1, <2>2, <2>3 DEF Right
  <2> QED
    BY <1>6, <2>4 DEF k, r, p
\* Nothing is sent.
<1>7. ASSUME UNCHANGED <<client, local, s2c>>, NEW h2, handler' = h2, NEW q2, c2s' = q2,
             h2.pc # "none", h.pc # "none", Positions(h2), Lists(k, h2, q2, r),
             Talking(k) /\ h2.sync =>
               /\ Sent(h2, r) /\ Asked(k, h2, q2, r)
               /\ k.pc = "loop" => Following(k, h2, q2, r, p)
      PROVE  Right(client', handler', c2s', s2c', local'.part)
  <2>1. Clean(k, h2, q2, r)
    BY <1>2, <1>7 DEF Clean
  <2>2. Right(k, h2, q2, r, p)
    BY <1>2, <1>7, <2>1 DEF Right
  <2> QED
    BY <1>7, <2>2 DEF k, r, p
\* A message is sent.
<1>8. ASSUME UNCHANGED <<client, local>>, NEW h2, NEW q2, NEW m \in ToClient,
             Sends(<<m>>, h2, q2), h2.pc # "none", Positions(h2),
             Lists(k, h2, q2, Append(r, m)),
             Talking(k) /\ h2.sync =>
               /\ Sent(h2, Append(r, m)) /\ Asked(k, h2, q2, Append(r, m))
               /\ k.pc = "loop" => Following(k, h2, q2, Append(r, m), p)
      PROVE  Right(client', handler', c2s', s2c', local'.part)
  <2> DEFINE r2 == Append(r, m)
  <2>1. r2 = s2c \o <<m>>
    BY <1>3 DEF r
  <2>2. /\ Lists(client, h2, q2, r2)
        /\ Talking(client) /\ h2.sync =>
             /\ Sent(h2, r2) /\ Asked(client, h2, q2, r2)
             /\ client.pc = "loop" => Following(client, h2, q2, r2, local.part)
    BY <1>8 DEF k, p
  <2> HIDE DEF r2
  <2> QED
    BY <1>8, <2>1, <2>2, SendsRight
<1>9. CASE SrvExit \/ SrvKilled
  BY <1>6, <1>9 DEF SrvExit, SrvKilled
<1>10. CASE Replace
  <2>1. Right(k, h, q, r, p)
    BY DEF IInv, k, h, q, r, p
  <2> QED
    BY <1>10, <2>1 DEF Replace, k, h, q, r, p
<1>11. CASE SrvIgnore
  <2>1. /\ h.pc = "dispatch" /\ ~h.sync /\ q # <<>> /\ handler' = h /\ c2s' = rest
        /\ UNCHANGED <<client, local, s2c>>
    BY <1>11 DEF SrvIgnore, h, q, rest
  <2>2. Lists(k, h, rest, r)
    BY <1>1, <1>2, <2>1, ListsKept DEF rest, q
  <2> QED
    BY <1>2, <1>7, <2>1, <2>2
\* A request to a client that has not asked for a list, or at least not in step.
<1>12. ASSUME Talking(k), h.sync, h.pc # "none"
       PROVE  /\ Sent(h, r) /\ Asked(k, h, q, r)
              /\ k.pc = "loop" => Following(k, h, q, r, p)
              /\ q # <<>> => /\ Head(q).t \in {"req", "ack"}
                             /\ Head(q).t = "ack" => rest = <<>> /\ r = <<>> /\ k.pc = "loop"
              /\ h.pc # "await" => /\ Requests(q) /\ Answers(r)
                                   /\ q # <<>> => Requests(rest)
  <2>1. /\ Sent(h, r) /\ Asked(k, h, q, r)
        /\ k.pc = "loop" => Following(k, h, q, r, p)
    BY <1>2, <1>12
  <2>2. h.pc # "await" => Requests(q) /\ Answers(r)
    BY <1>1, <2>1, AskedRequests, SentAnswers
  <2>3. q # <<>> => /\ Head(q).t \in {"req", "ack"}
                    /\ Head(q).t = "ack" => rest = <<>> /\ r = <<>> /\ k.pc = "loop"
                    /\ Requests(q) => Requests(rest)
    BY <1>1, <2>1, AskedTail DEF rest, q
  <2> QED
    BY <2>1, <2>2, <2>3
<1>13. CASE SrvList
  <2>1. /\ h.pc = "dispatch" /\ h.sync /\ q # <<>> /\ Head(q).t = "list"
        /\ Sends(<<ListRes>>, h, rest) /\ UNCHANGED <<client, local>>
    BY <1>13 DEF SrvList, Reads, h, q, rest
  <2>2. ~Talking(k)
    BY <1>12, <2>1
  <2>3. ListRes \in ToClient /\ ListRes.t = "list"
    BY DEF ListRes, ToClient
  <2>4. k.sync /\ k.pc = "list" => rest = <<>> /\ (r # <<>> => Head(r).t # "list")
    <3>1. Head(q) = q[1] /\ Len(q) \in Nat \ {0} /\ (Len(q) = 1 <=> rest = <<>>)
      BY <1>1, <2>1, TailFacts DEF rest, q
    <3>2. ASSUME k.sync, k.pc = "list"
          PROVE  rest = <<>>
      <4>1. \A i \in 1..Len(q) : q[i].t = "list" => i = Len(q)
        BY <1>2, <2>1, <3>2 DEF Lists
      <4>2. 1 \in 1..Len(q) /\ q[1].t = "list"
        BY <2>1, <3>1
      <4> QED
        BY <3>1, <4>1, <4>2
    <3>3. k.sync /\ k.pc = "list" /\ r # <<>> => Head(r).t # "list"
      BY <1>2, <2>1 DEF Lists
    <3> QED
      BY <3>2, <3>3
  <2>5. /\ Head(Append(r, ListRes)) = (IF r = <<>> THEN ListRes ELSE Head(r))
        /\ r = <<>> => Tail(Append(r, ListRes)) = <<>>
    <3>1. /\ Append(r, ListRes) \in Seq(ToClient) /\ Append(r, ListRes) # <<>>
          /\ Len(Append(r, ListRes)) = Len(r) + 1
          /\ Head(Append(r, ListRes)) = (IF r = <<>> THEN ListRes ELSE Head(r))
      BY <1>1, <2>3, AppendFacts
    <3>2. r = <<>> => Len(Append(r, ListRes)) = 1
      BY <3>1
    <3> QED
      BY <3>1, <3>2, TailFacts
  <2>6. Lists(k, h, rest, Append(r, ListRes))
    <3>1. k.sync /\ k.pc = "list" => \A i \in 1..Len(rest) : rest[i].t = "list" => i = Len(rest)
      BY <2>4
    <3> QED
      BY <2>1, <2>2, <2>4, <2>5, <3>1 DEF Lists
  <2> QED
    BY <1>2, <1>8, <2>1, <2>2, <2>3, <2>6
<1>14. CASE SrvRequest
  <2>1. /\ h.pc = "dispatch" /\ h.sync /\ q # <<>> /\ Head(q).t = "req"
        /\ UNCHANGED <<client, local>>
    BY <1>14 DEF SrvRequest, Reads, h, q
  <2>2. ASSUME Talking(k), k.pc = "loop"
        PROVE  k.cur = 0 /\ p = <<>>
    BY <1>12, <2>1, <2>2 DEF Following
  <2>3. CASE Sends(<<Res(1, 0, NoFile)>>, h, rest)
    <3> DEFINE m == Res(1, 0, NoFile)
    <3>1. m \in ToClient /\ m.t = "res"
      BY DEF Res, ToClient, Digest
    <3> HIDE DEF m
    <3>2. Lists(k, h, rest, Append(r, m))
      BY <1>1, <1>2, <2>1, <3>1, ListsKept DEF rest, q
    <3>3. Talking(k) => Sent(h, Append(r, m))
      BY <1>1, <1>12, <2>1, <3>1, SentMore
    <3>4. Talking(k) => Asked(k, h, rest, Append(r, m))
      BY <1>12, <2>1, RequestsAsked
    <3>5. Talking(k) /\ k.pc = "loop" => Following(k, h, rest, Append(r, m), p)
      BY <2>1, <2>2 DEF Following
    <3>6. Sends(<<m>>, h, rest)
      BY <2>3 DEF m
    <3> QED
      BY <1>2, <1>8, <2>1, <3>1, <3>2, <3>3, <3>4, <3>5, <3>6
  <2>4. CASE /\ stored # NoFile /\ handler' = [h EXCEPT !.pc = "hash", !.ver = stored]
             /\ c2s' = rest /\ UNCHANGED s2c
    <3> DEFINE h2 == [h EXCEPT !.pc = "hash", !.ver = stored]
    <3>1. stored \in Version
      BY <2>4 DEF IInv, TypeOK, Digest
    <3>2. h2.pc = "hash" /\ h2.sync /\ h2.ver = stored /\ h2.off = h.off /\ h2.pos = h.pos
      BY <1>1, <2>1 DEF HandlerState
    <3> HIDE DEF h2
    <3>3. Positions(h2)
      <4>1. h2.off = 0 /\ h2.pos = 0 /\ Size[h2.ver] \in Nat
        BY <1>2, <2>1, <3>1, <3>2, DownloadAssumption DEF Positions
      <4> QED
        BY <3>2, <4>1 DEF Positions
    <3>4. Lists(k, h2, rest, r)
      BY <1>1, <1>2, <2>1, ListsKept DEF rest, q
    <3>5. Talking(k) => Sent(h2, r) /\ Asked(k, h2, rest, r)
      <4>1. Talking(k) => Answers(r) /\ Requests(rest)
        BY <1>12, <2>1
      <4>2. Answers(r) => Sent(h2, r)
        BY <3>2 DEF Answers, Sent
      <4> QED
        BY <4>1, <4>2, RequestsAsked
    <3>6. Talking(k) /\ k.pc = "loop" => Following(k, h2, rest, r, p)
      BY <2>2, <3>2 DEF Following
    <3>7. handler' = h2
      BY <2>4 DEF h2
    <3> QED
      BY <1>7, <2>1, <2>4, <3>2, <3>3, <3>4, <3>5, <3>6, <3>7
  <2> QED
    BY <1>14, <2>3, <2>4 DEF SrvRequest, h, rest
<1>15. CASE SrvHash
  <2>1. h.pc = "hash" /\ h.sync /\ h.off = 0 /\ h.pos = 0 /\ UNCHANGED <<client, local>>
    BY <1>2, <1>15 DEF SrvHash, Positions, h
  <2>2. PICK d \in {stored, NoFile} :
          Sends(<<Res(0, Size[h.ver], d)>>, [h EXCEPT !.pc = "send", !.sha = d], q)
    BY <1>15 DEF SrvHash, h, q
  <2> DEFINE m == Res(0, Size[h.ver], d)
             h2 == [h EXCEPT !.pc = "send", !.sha = d]
  <2>3. m \in ToClient /\ m.t = "res"
    BY <1>1 DEF Res, ToClient, Digest, IInv, TypeOK
  <2>4. /\ h2.pc = "send" /\ h2.sync /\ h2.off = 0 /\ h2.pos = 0 /\ h2.ver = h.ver
    BY <1>1, <2>1 DEF HandlerState
  <2>5. Sends(<<m>>, h2, q)
    BY <2>2
  <2> HIDE DEF m, h2
  <2>6. Positions(h2)
    BY <1>1, <2>4 DEF Positions
  <2>7. Lists(k, h2, q, Append(r, m))
    BY <1>1, <1>2, <2>1, <2>3, ListsKept
  <2>8. Talking(k) => Sent(h2, Append(r, m)) /\ Asked(k, h2, q, Append(r, m))
    <3>1. Talking(k) => Answers(r) /\ Requests(q)
      BY <1>12, <2>1
    <3>2. Answers(r) => Sent(h2, Append(r, m))
      BY <1>1, <2>3, <2>4, SentMore
    <3> QED
      BY <3>1, <3>2, RequestsAsked
  <2>9. ASSUME Talking(k), k.pc = "loop"
        PROVE  Following(k, h2, q, Append(r, m), p)
    <3>1. k.cur = 0 /\ p = <<>> /\ Answers(r)
      BY <1>12, <2>1, <2>9 DEF Following
    <3>2. Head(Append(r, m)).t = "res" /\ Append(r, m) # <<>>
      <4>1. /\ Append(r, m) # <<>>
            /\ Head(Append(r, m)) = (IF r = <<>> THEN m ELSE Head(r))
        BY <1>1, <2>3, AppendFacts
      <4>2. r # <<>> => Head(r).t = "res"
        BY <1>1, <3>1, AnswersHead
      <4> QED
        BY <2>3, <4>1, <4>2
    <3>3. k.cur <= Size[h2.ver] /\ p = Prefix(Content(h2.ver), k.cur)
      BY <1>1, <2>4, <3>1, NothingYet
    <3> QED
      BY <2>4, <3>1, <3>2, <3>3 DEF Following
  <2> QED
    BY <1>8, <2>1, <2>3, <2>4, <2>5, <2>6, <2>7, <2>8, <2>9
\* The transfer is over, and the final answer sent.
<1>16. ASSUME UNCHANGED <<client, local>>, h.pc \in {"send", "await"},
              NEW q2, q2 = q \/ (q # <<>> /\ q2 = rest), Sends(<<Final>>, Closed(h), q2),
              Talking(k) /\ h.sync =>
                /\ Requests(q2) /\ Answers(r)
                /\ k.pc = "loop" => /\ k.cur = 0 \/ q2 = <<>>
                                    /\ k.cur = 0 => p = <<>>
       PROVE  Right(client', handler', c2s', s2c', local'.part)
  <2> DEFINE h2 == Closed(h)
             m == Final
  <2>1. h2.pc = "dispatch" /\ h2.sync = h.sync /\ Positions(h2)
    BY <1>5
  <2>2. m \in ToClient /\ m.t = "res"
    BY <1>4
  <2>3. Sends(<<m>>, h2, q2)
    BY <1>16
  <2> HIDE DEF h2, m
  <2>4. Lists(k, h2, q2, Append(r, m))
    BY <1>1, <1>2, <1>16, <2>1, <2>2, ListsKept DEF rest, q
  <2>5. Talking(k) /\ h2.sync => Sent(h2, Append(r, m)) /\ Asked(k, h2, q2, Append(r, m))
    <3>1. Answers(r) => Sent(h2, Append(r, m))
      BY <1>1, <2>1, <2>2, SentMore
    <3> QED
      BY <1>16, <2>1, <3>1, RequestsAsked
  <2>6. Talking(k) /\ h2.sync /\ k.pc = "loop" => Following(k, h2, q2, Append(r, m), p)
    BY <1>16, <2>1 DEF Following
  <2> QED
    BY <1>8, <1>16, <2>1, <2>2, <2>3, <2>4, <2>5, <2>6
<1>17. CASE SrvBreak
  <2>1. h.pc = "await" /\ h.sync /\ UNCHANGED <<client, local>>
    BY <1>2, <1>17 DEF SrvBreak, Positions, h
  <2>2. CASE ~Up /\ Sends(<<Final>>, Closed(h), q)
    <3>1. ~Talking(k)
      BY <2>2 DEF Up, Talking, k
    <3> QED
      BY <1>16, <2>1, <2>2, <3>1
  <2>3. CASE /\ q # <<>> /\ Head(q).t \in {"list", "exit"}
             /\ Sends(<<Final>>, Closed(h), rest)
    <3>1. ~Talking(k)
      BY <1>12, <2>1, <2>3
    <3> QED
      BY <1>16, <2>1, <2>3, <3>1
  <2>4. CASE Sends(<<Final>>, [Closed(h) EXCEPT !.sync = FALSE], q)
    <3> DEFINE h2 == [Closed(h) EXCEPT !.sync = FALSE]
    <3>1. Closed(h) \in HandlerState
      BY <1>1, ClosedTyped
    <3>2. /\ h2.pc = "dispatch" /\ ~h2.sync /\ h2.off = Closed(h).off
          /\ h2.pos = Closed(h).pos /\ h2.ver = Closed(h).ver
      BY <1>5, <3>1 DEF HandlerState
    <3>3. Sends(<<Final>>, h2, q)
      BY <2>4
    <3> HIDE DEF h2
    <3>4. Positions(h2)
      BY <1>5, <3>2 DEF Positions
    <3>5. Lists(k, h2, q, Append(r, Final))
      BY <1>1, <1>2, <1>4, <2>1, <3>2, ListsKept
    <3> QED
      BY <1>4, <1>8, <2>1, <3>2, <3>3, <3>4, <3>5
  <2> QED
    BY <1>17, <2>2, <2>3, <2>4 DEF SrvBreak, h, q, rest
<1>18. CASE SrvAck
  <2> DEFINE m == Head(q)
             off == Least(m.off, Size[h.ver])
  <2>1. /\ h.pc = "await" /\ h.sync /\ q # <<>> /\ m.t = "ack"
        /\ UNCHANGED <<client, local>>
    BY <1>18 DEF SrvAck, Reads, h, q
  <2>2. m.off \in Nat /\ m.status \in {0, 1} /\ off \in Nat /\ off <= Size[h.ver]
    BY <1>1, <1>3, <2>1, ReadTyped DEF Least
  <2>3. ASSUME Talking(k)
        PROVE  /\ rest = <<>> /\ r = <<>> /\ k.pc = "loop" /\ k.cur <= Size[h.ver]
               /\ p = Prefix(Content(h.ver), k.cur)
               /\ k.cur = (IF m.status = 0 THEN h.pos ELSE off)
    <3>1. rest = <<>> /\ r = <<>> /\ k.pc = "loop" /\ Following(k, h, q, r, p)
      BY <1>12, <2>1, <2>3
    <3>2. /\ k.cur <= Size[h.ver] /\ p = Prefix(Content(h.ver), k.cur)
          /\ m.off = k.cur /\ (m.status = 0 => k.cur = h.pos)
      BY <2>1, <3>1 DEF Following
    <3>3. off = k.cur
      BY <1>1, <3>2 DEF Least
    <3> QED
      BY <2>2, <3>1, <3>2, <3>3
  <2> HIDE DEF m, off
  <2>4. ASSUME NEW to \in Nat, to <= Size[h.ver], Talking(k) => k.cur = to,
               handler' = [h EXCEPT !.pc = "send", !.off = to, !.pos = to],
               c2s' = rest, UNCHANGED s2c
        PROVE  Right(client', handler', c2s', s2c', local'.part)
    <3> DEFINE h2 == [h EXCEPT !.pc = "send", !.off = to, !.pos = to]
    <3>1. h2.pc = "send" /\ h2.sync /\ h2.off = to /\ h2.pos = to /\ h2.ver = h.ver
      BY <1>1, <2>1 DEF HandlerState
    <3>2. handler' = h2
      BY <2>4
    <3> HIDE DEF h2
    <3>3. Positions(h2)
      BY <1>1, <2>4, <3>1 DEF Positions
    <3>4. Lists(k, h2, rest, r)
      BY <1>1, <1>2, <2>1, ListsKept DEF rest, q
    <3>5. ASSUME Talking(k)
          PROVE  Sent(h2, r) /\ Asked(k, h2, rest, r) /\ Following(k, h2, rest, r, p)
      <4>1. rest = <<>> /\ r = <<>> /\ k.cur <= Size[h2.ver]
            /\ p = Prefix(Content(h2.ver), k.cur) /\ k.cur = h2.off
        BY <2>3, <2>4, <3>1, <3>5
      <4>2. Sent(h2, r) /\ Asked(k, h2, rest, r)
        BY <4>1, NothingSent DEF Asked
      <4>3. Following(k, h2, rest, r, p)
        BY <3>1, <4>1 DEF Following
      <4> QED
        BY <4>2, <4>3
    <3> QED
      BY <1>7, <2>1, <2>4, <3>1, <3>2, <3>3, <3>4, <3>5
  <2>5. CASE Sends(<<Final>>, Closed(h), rest)
    <3>1. ASSUME Talking(k)
          PROVE  /\ Requests(rest) /\ Answers(r) /\ rest = <<>>
                 /\ k.cur = 0 => p = <<>>
      BY <2>3, <3>1, NothingSent, NothingYet DEF Requests
    <3> QED
      BY <1>16, <2>1, <2>5, <3>1
  <2>6. \/ /\ m.status # 0 /\ c2s' = rest /\ UNCHANGED s2c
           /\ handler' = [h EXCEPT !.pc = "send", !.off = off, !.pos = off]
        \/ /\ m.status = 0 /\ c2s' = rest /\ UNCHANGED s2c
           /\ handler' = [h EXCEPT !.pc = "send", !.off = h.pos, !.pos = h.pos]
        \/ Sends(<<Final>>, Closed(h), rest)
    BY <1>18 DEF SrvAck, h, q, rest, m, off
  <2>7. h.pos <= Size[h.ver]
    BY <1>2 DEF Positions
  <2> QED
    BY <1>1, <2>2, <2>3, <2>4, <2>5, <2>6, <2>7
<1>19. CASE SrvSend
  <2> DEFINE n == Least(BufferSize, Size[h.ver] - h.pos)
             d == SubSeq(Content(h.ver), h.pos + 1, h.pos + n)
  <2>1. /\ h.pc = "send" /\ h.sync /\ h.off = h.pos /\ h.off <= h.pos
        /\ h.pos <= Size[h.ver] /\ UNCHANGED <<client, local>>
    BY <1>2, <1>19 DEF SrvSend, Positions, h
  <2>2. ASSUME Talking(k)
        PROVE  Requests(q) /\ Answers(r)
    BY <1>12, <2>1, <2>2
  <2>3. ASSUME Talking(k), k.pc = "loop"
        PROVE  /\ k.cur = 0 \/ q = <<>>
               /\ k.cur <= Size[h.ver] /\ p = Prefix(Content(h.ver), k.cur)
               /\ k.cur = 0 => p = <<>>
               /\ k.cur = (IF r = <<>> THEN h.off ELSE 0)
    <3>1. Following(k, h, q, r, p)
      BY <1>12, <2>1, <2>3
    <3>2. r # <<>> => Head(r).t = "res"
      BY <1>1, <2>2, <2>3, AnswersHead
    <3> QED
      BY <2>1, <3>1, <3>2, NothingYet DEF Following
  <2>4. CASE Sends(<<Final>>, Closed(h), q)
    BY <1>16, <2>1, <2>2, <2>3, <2>4
  <2>5. CASE Sends(<<[Final EXCEPT !.status = 1], Final>>, Closed(h), q)
    <3> DEFINE h2 == Closed(h)
               e == [Final EXCEPT !.status = 1]
               m == Final
               s == Append(r, e)
               r2 == Append(s, m)
    <3>1. h2.pc = "dispatch" /\ h2.sync = h.sync /\ Positions(h2)
      BY <1>5
    <3>2. /\ m \in ToClient /\ m.t = "res" /\ e \in ToClient /\ e.t = "res"
      BY FinalTyped DEF IInv
    <3>3. Sends(<<e, m>>, h2, q)
      BY <2>5
    <3> HIDE DEF h2, e, m
    <3>4. s \in Seq(ToClient) /\ Lists(k, h, q, s)
      BY <1>1, <1>2, <2>1, <3>2, ListsKept, AppendFacts
    <3>5. r2 = r \o <<e, m>>
      BY <1>1, <3>2
    <3>6. Talking(k) => Answers(s)
      BY <1>1, <2>2, <3>2, AnswersMore
    <3> HIDE DEF s
    <3>7. Lists(k, h2, q, r2)
      BY <1>1, <2>1, <3>1, <3>2, <3>4, ListsKept
    <3>8. Talking(k) /\ h2.sync => Sent(h2, r2) /\ Asked(k, h2, q, r2)
      <4>1. Answers(s) => Sent(h2, r2)
        BY <3>1, <3>2, <3>4, SentMore
      <4> QED
        BY <2>2, <3>6, <4>1, RequestsAsked
    <3> HIDE DEF r2
    <3>9. Talking(k) /\ h2.sync /\ k.pc = "loop" => Following(k, h2, q, r2, p)
      BY <2>3, <3>1 DEF Following
    <3>10. /\ r2 = s2c \o <<e, m>> /\ Lists(client, h2, q, r2)
           /\ Talking(client) /\ h2.sync =>
                /\ Sent(h2, r2) /\ Asked(client, h2, q, r2)
                /\ client.pc = "loop" => Following(client, h2, q, r2, local.part)
      BY <3>5, <3>7, <3>8, <3>9 DEF k, p, r
    <3> QED
      BY <2>1, <3>1, <3>3, <3>10, SendsRight
  <2>6. ASSUME n > 0, NEW b \in BOOLEAN,
               Sends(<<Chunk(h.off, d, b)>>, [h EXCEPT !.pc = "await", !.pos = h.pos + n], q)
        PROVE  Right(client', handler', c2s', s2c', local'.part)
    <3> DEFINE m == Chunk(h.off, d, b)
               h2 == [h EXCEPT !.pc = "await", !.pos = h.pos + n]
    <3>1. /\ n \in Nat /\ h.pos + n <= Size[h.ver] /\ m \in ToClient
      <4>1. TypeOK
        BY DEF IInv
      <4> QED
        BY <2>1, <4>1, ChunkTyped DEF h
    <3>2. m.t = "chunk" /\ m.at = h.off /\ m.data = d
      BY DEF Chunk
    <3> HIDE DEF n
    <3>3. /\ h2.pc = "await" /\ h2.sync /\ h2.ver = h.ver
          /\ h2.off = h.off /\ h2.pos = h.pos + n
      BY <1>1, <2>1 DEF HandlerState
    <3>4. Slice(h2) = d
      BY <2>1, <3>3 DEF Slice
    <3>5. Sends(<<m>>, h2, q)
      BY <2>6
    <3> HIDE DEF m, h2, d
    <3>6. Positions(h2)
      BY <1>1, <2>1, <3>1, <3>3 DEF Positions
    <3>7. Lists(k, h2, q, Append(r, m))
      BY <1>1, <1>2, <2>1, <3>1, <3>2, <3>3, ListsKept
    <3>8. /\ Append(r, m) # <<>>
          /\ Head(Append(r, m)) = (IF r = <<>> THEN m ELSE Head(r))
      BY <1>1, <3>1, AppendFacts
    <3>9. ASSUME Talking(k)
          PROVE  Sent(h2, Append(r, m)) /\ Asked(k, h2, q, Append(r, m))
      <4>1. r # <<>> => h2.off = 0
        <5>1. r # <<>> => Head(r).t = "res"
          BY <1>1, <2>2, <3>9, AnswersHead
        <5>2. Sent(h, r)
          BY <1>12, <2>1, <3>9
        <5> QED
          BY <2>1, <3>3, <5>1, <5>2 DEF Sent
      <4>2. Sent(h2, Append(r, m))
        BY <1>1, <2>2, <3>1, <3>2, <3>3, <3>4, <3>9, <4>1, SentMore
      <4> QED
        BY <2>2, <3>9, <4>2, RequestsAsked
    <3>10. ASSUME Talking(k), k.pc = "loop"
           PROVE  Following(k, h2, q, Append(r, m), p)
      <4>1. r # <<>> => Head(r).t = "res"
        BY <1>1, <2>2, <3>10, AnswersHead
      <4>2. k.cur = (IF Head(Append(r, m)).t = "res" THEN 0 ELSE h2.off)
        BY <2>3, <3>2, <3>3, <3>8, <3>10, <4>1
      <4>3. k.cur <= Size[h2.ver] /\ p = Prefix(Content(h2.ver), k.cur)
        BY <2>3, <3>3, <3>10
      <4> QED
        BY <3>3, <3>8, <4>2, <4>3 DEF Following
    <3> QED
      BY <1>8, <2>1, <3>1, <3>3, <3>5, <3>6, <3>7, <3>9, <3>10
  <2> QED
    BY <1>19, <2>4, <2>5, <2>6 DEF SrvSend, h, q
<1> QED
  BY <1>9, <1>10, <1>11, <1>13, <1>14, <1>15, <1>17, <1>18, <1>19 DEF HandlerStep

-----------------------------------------------------------------------------
(* What is reported *)

LEMMA FetchedKept ==
  ASSUME IInv, Next
  PROVE  FetchedWhole'
<1>1. client \in ClientState /\ local \in [part : File, final : File]
  BY DEF IInv, TypeOK
<1>2. ASSUME client'.report = client.report, local'.final = local.final
      PROVE  FetchedWhole'
  BY <1>2 DEF IInv, FetchedWhole
<1>3. CASE client'.report # "ok"
  BY <1>3 DEF FetchedWhole
<1>4. CASE HandlerStep \/ SrvKilled \/ Replace
  <2>1. UNCHANGED <<client, local>>
    BY <1>4 DEF HandlerStep, SrvRequest, SrvHash, SrvSend, SrvAck, SrvBreak, SrvList,
                SrvIgnore, SrvExit, SrvKilled, Replace
  <2> QED
    BY <2>1 DEF IInv, FetchedWhole
<1>5. CASE Connect \/ ClientStops
  BY <1>3, <1>5 DEF Connect, ClientStops, ClientOff
<1>6. CASE Ask
  BY <1>1, <1>3, <1>6 DEF Ask, ClientState
<1>7. CASE ClientList \/ ClientLost
  <2>1. client' \in {Returned(client, "none"), Returned(client, "failed"), ClientOff}
    BY <1>7 DEF ClientList, ClientLost
  <2>2. client'.report # "ok"
    BY <1>1, <2>1, ReturnedTyped DEF ClientOff
  <2> QED
    BY <1>3, <2>2
<1>8. CASE ClientOdd
  <2>1. client' = [Returned(client, "failed") EXCEPT !.sync = FALSE]
    BY <1>8 DEF ClientOdd
  <2>2. Returned(client, "failed") \in ClientState /\ Returned(client, "failed").report = "failed"
    BY <1>1, ReturnedTyped
  <2>3. client'.report = "failed"
    BY <2>1, <2>2 DEF ClientState
  <2> QED
    BY <1>3, <2>3
<1>9. CASE ClientRes
  <2>1. CASE client' \in {Returned(client, "refused"), Returned(client, "failed")}
    <3>1. client'.report # "ok"
      BY <1>1, <2>1, ReturnedTyped
    <3> QED
      BY <1>3, <3>1
  <2>2. CASE /\ client' = [client EXCEPT !.pc = "loop", !.cur = 0]
             /\ local' = [local EXCEPT !.part = <<>>]
    <3>1. client'.report = client.report /\ local'.final = local.final
      BY <1>1, <2>2 DEF ClientState
    <3> QED
      BY <1>2, <3>1
  <2> QED
    BY <1>9, <2>1, <2>2 DEF ClientRes
<1>10. CASE ClientChunk
  <2>1. CASE client' = Returned(client, "failed")
    <3>1. client'.report # "ok"
      BY <1>1, <2>1, ReturnedTyped
    <3> QED
      BY <1>3, <3>1
  <2> DEFINE m == Head(s2c)
             n == m.at + Len(m.data)
             w == WriteAt(local.part, m.at, m.data)
  <2>2. \/ client' = Returned(client, "failed")
        \/ client' = [client EXCEPT !.cur = n] /\ local' = [local EXCEPT !.part = w]
        \/ UNCHANGED <<client, local>>
        \/ client' = [client EXCEPT !.sync = FALSE] /\ UNCHANGED local
    BY <1>1, <1>10 DEF ClientChunk
  <2> HIDE DEF n, w
  <2>3. CASE client' = [client EXCEPT !.cur = n] /\ local' = [local EXCEPT !.part = w]
    <3>1. client'.report = client.report
      BY <1>1, <2>3 DEF ClientState
    <3>2. local'.final = local.final
      BY <1>1, <2>3
    <3> QED
      BY <1>2, <3>1, <3>2
  <2>4. CASE UNCHANGED <<client, local>>
    BY <1>2, <2>4
  <2>5. CASE client' = [client EXCEPT !.sync = FALSE] /\ UNCHANGED local
    <3>1. client'.report = client.report
      BY <1>1, <2>5 DEF ClientState
    <3> QED
      BY <1>2, <2>5, <3>1
  <2> QED
    BY <2>1, <2>2, <2>3, <2>4, <2>5
<1>11. CASE ClientFinal
  <2>1. CASE /\ \E v \in Version : local.part = Content(v)
             /\ client' = Returned(client, "ok")
             /\ local' = [part |-> NoFile, final |-> local.part]
    BY <2>1 DEF FetchedWhole
  <2>2. CASE client' \in {Returned(client, "refused"), Returned(client, "size"),
                          Returned(client, "mismatch"), Returned(client, "unchecked"),
                          Returned(client, "failed")}
    <3>1. client'.report # "ok"
      BY <1>1, <2>2, ReturnedTyped
    <3> QED
      BY <1>3, <3>1
  <2> QED
    BY <1>11, <2>1, <2>2 DEF ClientFinal
<1> QED
  BY <1>4, <1>5, <1>6, <1>7, <1>8, <1>9, <1>10, <1>11 DEF Next, ClientStep

-----------------------------------------------------------------------------
(* The theorems *)

LEMMA InitRight ==
  ASSUME Init
  PROVE  IInv
<1>1. client = ClientOff /\ handler = HandlerNone /\ c2s = <<>> /\ s2c = <<>>
  BY DEF Init
<1>2. TypeOK
  BY <1>1, Starts, DownloadAssumption DEF Init, TypeOK, File
<1>3. client.pc = "off" /\ client.report = "none" /\ handler.pc = "none"
  BY <1>1, NonePositions DEF ClientOff
<1>4. Right(client, handler, c2s, s2c, local.part)
  BY <1>1, <1>3, NonePositions DEF Right, Clean, Lists, Talking
<1> QED
  BY <1>2, <1>3, <1>4 DEF IInv, FetchedWhole

LEMMA Inductive ==
  ASSUME IInv, [Next]_vars
  PROVE  IInv'
<1>1. CASE ClientStep \/ Connect \/ Ask \/ ClientStops
  <2>1. TypeOK' /\ Right(client', handler', c2s', s2c', local'.part)
    BY <1>1, ClientTyped, ClientRight
  <2>2. FetchedWhole'
    BY <1>1, FetchedKept DEF Next
  <2> QED
    BY <2>1, <2>2 DEF IInv
<1>2. CASE HandlerStep \/ SrvKilled \/ Replace
  <2>1. TypeOK' /\ Right(client', handler', c2s', s2c', local'.part)
    BY <1>2, HandlerTyped, HandlerRight
  <2>2. FetchedWhole'
    BY <1>2, FetchedKept DEF Next
  <2> QED
    BY <2>1, <2>2 DEF IInv
<1>3. CASE UNCHANGED vars
  BY <1>3 DEF vars, IInv, TypeOK, FetchedWhole
<1> QED
  BY <1>1, <1>2, <1>3 DEF Next

\* The invariant of the download: what each process may have sent the other, and
\* what .part is meanwhile.
THEOREM Invariance == Spec => []IInv
BY InitRight, Inductive, PTL DEF Spec

\* The processes, their messages and the files always have their types.
THEOREM TypeCorrect == Spec => []TypeOK
<1>1. IInv => TypeOK
  BY DEF IInv
<1> QED
  BY <1>1, Invariance, PTL

\* While a transfer is on, .part is the start, up to cur_offset, of the version
\* the server has opened, whatever is NACKed, replaced, lost or killed.
THEOREM PartFollowed == Spec => []PartFollows
<1>1. ASSUME IInv
      PROVE  PartFollows
  <2>1. SUFFICES ASSUME client.pc = "loop", client.sync, handler.pc \in {"send", "await"}
                 PROVE  local.part = Prefix(Content(handler.ver), client.cur)
    BY DEF PartFollows
  <2>2. Right(client, handler, c2s, s2c, local.part)
    BY <1>1 DEF IInv
  <2>3. handler.sync
    BY <2>1, <2>2 DEF Right, Positions
  <2>4. Following(client, handler, c2s, s2c, local.part)
    BY <2>1, <2>2, <2>3 DEF Right, Talking
  <2> QED
    BY <2>1, <2>4 DEF Following
<1> QED
  BY <1>1, Invariance, PTL

\* What is reported as downloaded and checked is one whole version of the file.
THEOREM Fetched == Spec => []FetchedWhole
<1>1. IInv => FetchedWhole
  BY DEF IInv
<1> QED
  BY <1>1, Invariance, PTL
=============================================================================
