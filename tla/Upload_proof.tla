----------------------------- MODULE Upload_proof -----------------------------
EXTENDS UploadInv, SequenceTheorems, TLAPS

\* What fseek and fwrite leave behind: the longer of the two, d at its place.
LEMMA WriteAtFacts ==
  ASSUME NEW s \in Seq(Byte), NEW at \in Nat, NEW d \in Seq(Byte)
  PROVE  /\ WriteAt(s, at, d) \in Seq(Byte)
         /\ Len(WriteAt(s, at, d)) = Most(Len(s), at + Len(d))
         /\ \A i \in 1..Most(Len(s), at + Len(d)) :
              LET x == WriteAt(s, at, d)[i] IN
              /\ i \in (at + 1)..(at + Len(d)) => x = d[i - at]
              /\ i \notin (at + 1)..(at + Len(d)) /\ i <= Len(s) => x = s[i]
              /\ i \notin (at + 1)..(at + Len(d)) /\ i > Len(s) => x = Hole
<1> DEFINE n == Most(Len(s), at + Len(d))
           e(i) == IF i \in (at + 1)..(at + Len(d)) THEN d[i - at]
                   ELSE IF i <= Len(s) THEN s[i] ELSE Hole
<1>1. n \in Nat
  BY DEF Most
<1>2. \A i \in 1..n : e(i) \in Byte
  BY <1>1 DEF Byte, Most
<1>3. WriteAt(s, at, d) = [i \in 1..n |-> e(i)]
  BY DEF WriteAt
<1>4. [i \in 1..n |-> e(i)] \in [1..n -> Byte]
  BY <1>2
<1> HIDE DEF n, e
<1>5. WriteAt(s, at, d) \in Seq(Byte) /\ Len(WriteAt(s, at, d)) = n
  BY <1>1, <1>3, <1>4
<1>6. \A i \in 1..n : WriteAt(s, at, d)[i] = e(i)
  BY <1>3
<1> QED
  BY <1>5, <1>6 DEF n, e

LEMMA PrefixFacts ==
  ASSUME NEW d \in Seq(Datum), NEW k \in 0..Len(d)
  PROVE  /\ Prefix(d, k) \in Seq(Datum) /\ Len(Prefix(d, k)) = k
         /\ \A j \in 1..k : Prefix(d, k)[j] = d[j]
         /\ Rest(d, k) \in Seq(Datum) /\ Len(Rest(d, k)) = Len(d) - k
         /\ \A j \in 1..(Len(d) - k) : Rest(d, k)[j] = d[k + j]
  BY DEF Prefix, Rest

LEMMA PiecesPlaced ==
  ASSUME NEW d \in Seq(Datum), NEW k \in 0..Len(d), NEW at \in Nat, Placed(d, at)
  PROVE  Placed(Prefix(d, k), at) /\ Placed(Rest(d, k), at + k)
<1>1. \A j \in 1..Len(Prefix(d, k)) : Prefix(d, k)[j][2] = at + j
  <2>1. \A j \in 1..k : j \in 1..Len(d) /\ Prefix(d, k)[j] = d[j]
    BY PrefixFacts
  <2> QED
    BY <2>1, PrefixFacts DEF Placed
<1>2. \A j \in 1..Len(Rest(d, k)) : Rest(d, k)[j][2] = (at + k) + j
  <2>1. \A j \in 1..(Len(d) - k) : /\ k + j \in 1..Len(d)
                                   /\ at + (k + j) = (at + k) + j
    OBVIOUS
  <2>2. \A j \in 1..(Len(d) - k) : Rest(d, k)[j] = d[k + j]
    BY PrefixFacts
  <2>3. \A j \in 1..(Len(d) - k) : d[k + j][2] = at + (k + j)
    BY <2>1 DEF Placed
  <2>4. Len(Rest(d, k)) = Len(d) - k
    BY PrefixFacts
  <2> QED
    BY <2>1, <2>2, <2>3, <2>4
<1> QED
  BY <1>1, <1>2 DEF Placed

\* The data of a chunk: at most n bytes of version v from position p on.
LEMMA SliceFacts ==
  ASSUME NEW v \in Version, NEW p \in Nat, NEW n \in Nat, p + n <= Size[v]
  PROVE  LET s == SubSeq(Content(v), p + 1, p + n) IN
         /\ s \in Seq(Datum) /\ Len(s) = n
         /\ \A j \in 1..n : s[j] = <<v, p + j>>
<1>1. Content(v) \in Seq(Datum) /\ Len(Content(v)) = Size[v]
  BY UploadAssumption DEF Content, Datum
<1>2. \A i \in 1..Size[v] : Content(v)[i] = <<v, i>>
  BY DEF Content
<1> QED
  BY <1>1, <1>2, UploadAssumption

-----------------------------------------------------------------------------
(* The disk *)

Disk == [Name -> [part : File, final : File]]

\* A file that is linked stays a file, in place if d is, and no other changes.
DiskInPlace(dk) ==
  \A n \in Name : \A f \in {dk[n].part, dk[n].final} : f # NoFile =>
    \A i \in 1..Len(f) : f[i] = Hole \/ f[i][2] = i

LEMMA WriteInPlace ==
  ASSUME NEW s \in Seq(Byte), NEW at \in Nat, NEW d \in Seq(Datum), Placed(d, at),
         \A i \in 1..Len(s) : s[i] = Hole \/ s[i][2] = i
  PROVE  LET f == WriteAt(s, at, d) IN
         \A i \in 1..Len(f) : f[i] = Hole \/ f[i][2] = i
<1>1. d \in Seq(Byte)
  BY DEF Byte
<1>2. Len(WriteAt(s, at, d)) = Most(Len(s), at + Len(d))
  BY <1>1, WriteAtFacts
<1> SUFFICES ASSUME NEW i \in 1..Most(Len(s), at + Len(d))
             PROVE  \/ WriteAt(s, at, d)[i] = Hole
                    \/ WriteAt(s, at, d)[i][2] = i
  BY <1>2
<1>3. CASE i \in (at + 1)..(at + Len(d))
  <2>1. WriteAt(s, at, d)[i] = d[i - at]
    BY <1>1, <1>3, WriteAtFacts
  <2>2. i - at \in 1..Len(d) /\ at + (i - at) = i
    BY <1>3
  <2> QED
    BY <2>1, <2>2 DEF Placed
<1>4. CASE i \notin (at + 1)..(at + Len(d)) /\ i <= Len(s)
  <2>1. WriteAt(s, at, d)[i] = s[i]
    BY <1>1, <1>4, WriteAtFacts
  <2>2. i \in 1..Len(s)
    BY <1>4 DEF Most
  <2> QED
    BY <2>1, <2>2
<1>5. CASE i \notin (at + 1)..(at + Len(d)) /\ i > Len(s)
  <2>1. WriteAt(s, at, d)[i] = Hole
    BY <1>1, <1>5, WriteAtFacts
  <2> QED
    BY <2>1
<1> QED
  BY <1>1, <1>3, <1>4, <1>5 DEF Most

LEMMA PutFacts ==
  ASSUME NEW dk \in Disk, NEW n \in Name, NEW w, NEW at \in Nat,
         NEW d \in Seq(Datum),
         w = "part" => dk[n].part # NoFile, w = "final" => dk[n].final # NoFile
  PROVE  /\ Put(n, w, at, d, dk) \in Disk
         /\ \A m \in Name : /\ Put(n, w, at, d, dk)[m].part = NoFile <=> dk[m].part = NoFile
                            /\ Put(n, w, at, d, dk)[m].final = NoFile <=> dk[m].final = NoFile
         /\ DiskInPlace(dk) /\ Placed(d, at) => DiskInPlace(Put(n, w, at, d, dk))
<1>0. d \in Seq(Byte)
  BY DEF Byte
<1>1. NoFile \notin Seq(Byte)
  BY UploadAssumption DEF Byte, Datum
<1>2. ASSUME NEW s \in File, s # NoFile
      PROVE  /\ s \in Seq(Byte)
             /\ WriteAt(s, at, d) \in Seq(Byte)
             /\ WriteAt(s, at, d) # NoFile
  <2>1. s \in Seq(Byte)
    BY <1>2 DEF File
  <2>2. WriteAt(s, at, d) \in Seq(Byte)
    BY <1>0, <2>1, WriteAtFacts
  <2> QED
    BY <1>1, <2>1, <2>2
<1>3. ASSUME NEW s \in File, s # NoFile, Placed(d, at),
             \A i \in 1..Len(s) : s[i] = Hole \/ s[i][2] = i
      PROVE  \A i \in 1..Len(WriteAt(s, at, d)) :
               WriteAt(s, at, d)[i] = Hole \/ WriteAt(s, at, d)[i][2] = i
  <2>1. s \in Seq(Byte)
    BY <1>3 DEF File
  <2> QED
    BY <1>3, <2>1, WriteInPlace
<1>4. CASE d = <<>> \/ w \notin {"part", "final"}
  <2>1. Put(n, w, at, d, dk) = dk
    BY <1>4 DEF Put
  <2> QED
    BY <2>1
<1>5. CASE d # <<>> /\ w = "part"
  <2> DEFINE new == WriteAt(dk[n].part, at, d)
  <2>1. Put(n, w, at, d, dk) = [dk EXCEPT ![n].part = new]
    BY <1>5 DEF Put
  <2>2. new \in File /\ new # NoFile
    BY <1>5, <1>2 DEF Disk, File
  <2>3. DiskInPlace(dk) /\ Placed(d, at) =>
          \A i \in 1..Len(new) : new[i] = Hole \/ new[i][2] = i
    BY <1>5, <1>3 DEF Disk, DiskInPlace
  <2> HIDE DEF new
  <2>4. \A m \in Name : /\ [dk EXCEPT ![n].part = new][m].part = IF m = n THEN new ELSE dk[m].part
                        /\ [dk EXCEPT ![n].part = new][m].final = dk[m].final
    BY DEF Disk
  <2>5. [dk EXCEPT ![n].part = new] \in Disk
    BY <2>2 DEF Disk
  <2>6. DiskInPlace(dk) /\ Placed(d, at) => DiskInPlace([dk EXCEPT ![n].part = new])
    BY <2>3, <2>4 DEF DiskInPlace
  <2> QED
    BY <1>5, <2>1, <2>2, <2>4, <2>5, <2>6
<1>6. CASE d # <<>> /\ w = "final"
  <2> DEFINE new == WriteAt(dk[n].final, at, d)
  <2>1. Put(n, w, at, d, dk) = [dk EXCEPT ![n].final = new]
    BY <1>6 DEF Put
  <2>2. new \in File /\ new # NoFile
    BY <1>6, <1>2 DEF Disk, File
  <2>3. DiskInPlace(dk) /\ Placed(d, at) =>
          \A i \in 1..Len(new) : new[i] = Hole \/ new[i][2] = i
    BY <1>6, <1>3 DEF Disk, DiskInPlace
  <2> HIDE DEF new
  <2>4. \A m \in Name : /\ [dk EXCEPT ![n].final = new][m].final = IF m = n THEN new ELSE dk[m].final
                        /\ [dk EXCEPT ![n].final = new][m].part = dk[m].part
    BY DEF Disk
  <2>5. [dk EXCEPT ![n].final = new] \in Disk
    BY <2>2 DEF Disk
  <2>6. DiskInPlace(dk) /\ Placed(d, at) => DiskInPlace([dk EXCEPT ![n].final = new])
    BY <2>3, <2>4 DEF DiskInPlace
  <2> QED
    BY <1>6, <2>1, <2>2, <2>4, <2>5, <2>6
<1> QED
  BY <1>4, <1>5, <1>6

-----------------------------------------------------------------------------
(* Types.  Each action keeps the two process records and the messages typed *)
(* and leaves a typed disk on which every open file is still linked.        *)

LEMMA Starts ==
  /\ ClientOff \in ClientState
  /\ \A b \in BOOLEAN : HandlerIdle(b) \in HandlerState
  /\ HandlerNone \in HandlerState
<1>1. (CHOOSE v \in Version : TRUE) \in Version
  BY UploadAssumption, Zenon
<1>2. <<>> \in Seq(Datum)
  OBVIOUS
<1> QED
  BY <1>1, <1>2 DEF ClientOff, ClientState, Busy, HandlerIdle, HandlerState, HandlerNone

LEMMA OffTyped ==
  ASSUME NEW k \in ClientState
  PROVE  /\ Off(k) \in ClientState
         /\ Off(k).pc = "off" /\ Off(k).sync = k.sync
<1>1. /\ ClientOff \in ClientState /\ ClientOff.pc = "off"
  BY Starts DEF ClientOff
<1>2. k.sync \in BOOLEAN
  BY DEF ClientState
<1>3. ASSUME NEW o \in ClientState, o.pc = "off", NEW b \in BOOLEAN
      PROVE  /\ [o EXCEPT !.sync = b] \in ClientState
             /\ [o EXCEPT !.sync = b].pc = "off" /\ [o EXCEPT !.sync = b].sync = b
  BY <1>3 DEF ClientState
<1> QED
  BY <1>1, <1>2, <1>3 DEF Off

LEMMA ReturnedTyped ==
  ASSUME NEW k \in ClientState, NEW r \in {"none", "ok", "err"}
  PROVE  /\ Returned(k, r) \in ClientState
         /\ Returned(k, r).pc = "prompt" /\ Returned(k, r).sync = k.sync
<1>1. k.size \in Nat
  BY DEF ClientState
<1>2. ASSUME NEW o \in ClientState, NEW n \in Nat
      PROVE  LET g == [o EXCEPT !.pc = "prompt", !.size = n, !.report = r] IN
             g \in ClientState /\ g.pc = "prompt" /\ g.sync = o.sync
  BY DEF ClientState
<1> QED
  BY <1>1, <1>2, OffTyped DEF Returned

LEMMA FaultsTyped ==
  ASSUME faults \in 0..MaxFaults, NoFault \/ \E kind \in FaultKinds : Fault(kind)
  PROVE  faults' \in 0..MaxFaults
  BY UploadAssumption DEF NoFault, Fault

LEMMA LeftTyped == <<Left>> \in Seq(ToClient) /\ Left \in ToClient
<1>1. Left \in ToClient
  BY DEF Left, ToClient
<1> QED
  BY <1>1

\* Only an acknowledgement or an UPL_RES has an offset.
LEMMA AnswerTyped ==
  ASSUME NEW m \in ToClient, m.t \in {"res", "ack"}
  PROVE  m.off \in Nat
  BY DEF ToClient

LEMMA EmptyTyped ==
  /\ <<>> \in Seq(Datum) /\ <<>> \in Seq(Byte)
  /\ <<>> \in Seq(ToServer) /\ <<>> \in Seq(ToClient)
  OBVIOUS

LEMMA ReadsTyped ==
  ASSUME NEW T, NEW q \in [Conn -> Seq(T)], NEW c \in Conn, q[c] # <<>>
  PROVE  Head(q[c]) \in T /\ [q EXCEPT ![c] = Tail(@)] \in [Conn -> Seq(T)]
<1>1. q[c] \in Seq(T)
  OBVIOUS
<1>2. Head(q[c]) \in T /\ Tail(q[c]) \in Seq(T)
  BY <1>1
<1> QED
  BY <1>2

LEMMA ClientTyped ==
  ASSUME TypeOK, NEW c \in Conn, UploadStep(c) \/ UserStep(c)
  PROVE  TypeOK'
<1> USE DEF TypeOK
<1>0. client[c] \in ClientState
  OBVIOUS
<1>1. CASE Connect(c)
  <2>1. [ClientOff EXCEPT !.pc = "prompt"] \in ClientState
    BY Starts DEF ClientState
  <2> QED
    BY <1>1, <2>1, Starts DEF Connect
<1>2. CASE StartUpload(c)
  <2> PICK v \in Version :
       /\ client' = [client EXCEPT ![c] =
                       [@ EXCEPT !.pc = "req", !.ver = v, !.size = Size[v],
                                 !.report = "none"]]
       /\ c2s' = [c2s EXCEPT ![c] = Append(@, Req(Size[v]))]
    BY <1>2 DEF StartUpload
  <2>1. [client[c] EXCEPT !.pc = "req", !.ver = v, !.size = Size[v], !.report = "none"]
          \in ClientState
    BY <1>0, UploadAssumption DEF ClientState, Busy
  <2>2. Req(Size[v]) \in ToServer
    BY UploadAssumption DEF Req, ToServer
  <2> QED
    BY <1>2, <2>1, <2>2 DEF StartUpload
<1>3. CASE ClientRes(c)
  <2> DEFINE m == Head(s2c[c])
  <2>1. m \in ToClient /\ s2c' \in [Conn -> Seq(ToClient)]
    BY <1>3, ReadsTyped DEF ClientRes, Receive, Received
  <2>2. m.off \in Nat
    BY <1>3, <2>1, AnswerTyped DEF ClientRes, Receive
  <2>3. CASE /\ m.status # 0 /\ NoFault
             /\ client' = [client EXCEPT ![c] = Returned(@, "err")]
    BY <1>0, <1>3, <2>1, <2>3, ReturnedTyped DEF ClientRes, NoFault
  <2>4. CASE \E v \in Version :
             /\ client' = [client EXCEPT ![c] =
                  [@ EXCEPT !.pc = "send", !.ver = v, !.pos = m.off, !.off = m.off]]
             /\ IF v = client[c].ver THEN NoFault ELSE Fault("edit")
    <3> PICK v \in Version :
             /\ client' = [client EXCEPT ![c] =
                  [@ EXCEPT !.pc = "send", !.ver = v, !.pos = m.off, !.off = m.off]]
             /\ IF v = client[c].ver THEN NoFault ELSE Fault("edit")
      BY <2>4
    <3>1. [client[c] EXCEPT !.pc = "send", !.ver = v, !.pos = m.off, !.off = m.off]
            \in ClientState
      BY <1>0, <2>2 DEF ClientState, Busy
    <3>2. faults' \in 0..MaxFaults
      BY FaultsTyped DEF FaultKinds
    <3> QED
      BY <1>3, <2>1, <3>1, <3>2 DEF ClientRes
  <2> QED
    BY <1>3, <2>3, <2>4 DEF ClientRes
<1>4. CASE SendChunk(c)
  <2> DEFINE k == client[c]
             n == Least(BufferSize, Size[k.ver] - k.pos)
             d == SubSeq(Content(k.ver), k.pos + 1, k.pos + n)
  <2> PICK b \in BOOLEAN :
         /\ c2s' = [c2s EXCEPT ![c] = Append(@, Chunk(k.off, d, b))]
         /\ IF b THEN NoFault ELSE Fault("corrupt")
    BY <1>4 DEF SendChunk
  <2>1. /\ k.ver \in Version /\ k.pos \in Nat /\ k.off \in Nat /\ n \in Nat
        /\ k.pos + n <= Size[k.ver]
    <3>1. k.ver \in Version /\ k.pos \in Nat /\ k.off \in Nat
      BY <1>0 DEF ClientState
    <3>2. k.pos < Size[k.ver]
      BY <1>4 DEF SendChunk
    <3>3. Size[k.ver] \in Nat /\ BufferSize \in Nat
      BY <3>1, UploadAssumption
    <3> QED
      BY <3>1, <3>2, <3>3 DEF Least
  <2> HIDE DEF n
  <2>2. d \in Seq(Datum)
    BY <2>1, SliceFacts
  <2> HIDE DEF d
  <2>3. Chunk(k.off, d, b) \in ToServer
    BY <2>1, <2>2 DEF Chunk, ToServer
  <2>4. [k EXCEPT !.pc = "ack", !.pos = k.pos + n] \in ClientState
    <3>1. k.pos + n \in Nat
      BY <2>1
    <3> QED
      BY <1>0, <3>1 DEF ClientState, Busy
  <2>5. faults' \in 0..MaxFaults
    BY FaultsTyped DEF FaultKinds
  <2>6. client' = [client EXCEPT ![c] = [@ EXCEPT !.pc = "ack", !.pos = k.pos + n]]
    BY <1>4 DEF SendChunk, n
  <2> QED
    BY <1>4, <2>3, <2>4, <2>5, <2>6 DEF SendChunk
<1>5. CASE SendComplete(c)
  <2>1. [client[c] EXCEPT !.pc = "fin"] \in ClientState
    BY <1>0 DEF ClientState, Busy
  <2>2. Complete \in ToServer
    BY DEF Complete, ToServer
  <2> QED
    BY <1>5, <2>1, <2>2 DEF SendComplete
<1>6. CASE ClientAck(c)
  <2> DEFINE m == Head(s2c[c])
  <2>1. m \in ToClient /\ s2c' \in [Conn -> Seq(ToClient)]
    <3>1. s2c[c] # <<>> /\ s2c' = [s2c EXCEPT ![c] = Tail(@)]
      BY <1>6 DEF ClientAck, Receive, Received
    <3> QED
      BY <3>1, ReadsTyped
  <2>2. /\ [client[c] EXCEPT !.pc = "send", !.pos = client[c].off] \in ClientState
        /\ [client[c] EXCEPT !.pc = "send", !.off = m.off] \in ClientState
    <3>1. m.off \in Nat
      BY <1>6, <2>1, AnswerTyped DEF ClientAck, Receive
    <3> QED
      BY <1>0, <3>1 DEF ClientState, Busy
  <2> QED
    BY <1>6, <2>1, <2>2 DEF ClientAck
<1>7. CASE ClientFinal(c)
  <2>1. s2c' \in [Conn -> Seq(ToClient)]
    BY <1>7 DEF ClientFinal, Receive, Received
  <2>2. Returned(client[c], IF Head(s2c[c]).status = 0 THEN "ok" ELSE "err") \in ClientState
    BY <1>0, ReturnedTyped
  <2> QED
    BY <1>7, <2>1, <2>2 DEF ClientFinal
<1>8. CASE ClientLost(c)
  BY <1>0, <1>8, ReturnedTyped, OffTyped DEF ClientLost
<1>9. CASE ClientAbort(c)
  BY <1>0, <1>9, ReturnedTyped, UploadAssumption DEF ClientAbort, Fault
<1>10. CASE ClientQuit(c)
  <2>1. ExitReq \in ToServer
    BY DEF ExitReq, ToServer
  <2> QED
    BY <1>0, <1>10, <2>1, OffTyped DEF ClientQuit
<1>11. CASE ClientKilled(c)
  BY <1>0, <1>11, OffTyped DEF ClientKilled
<1>12. CASE ClientInvalid(c)
  <2>1. s2c' \in [Conn -> Seq(ToClient)]
    <3>1. s2c[c] # <<>> => [s2c EXCEPT ![c] = Tail(@)] \in [Conn -> Seq(ToClient)]
      BY ReadsTyped
    <3> QED
      BY <1>12, <3>1 DEF ClientInvalid, Received
  <2> QED
    BY <1>0, <1>12, <2>1, ReturnedTyped DEF ClientInvalid
<1>13. CASE LeaveUnread(c)
  <2>1. /\ UNCHANGED <<c2s, disk>>
        /\ client' = [client EXCEPT ![c] = [@ EXCEPT !.sync = FALSE]]
        /\ s2c' = [s2c EXCEPT ![c] = <<Left>>]
    BY <1>13 DEF LeaveUnread
  <2>2. [client[c] EXCEPT !.sync = FALSE] \in ClientState
    BY <1>0 DEF ClientState
  <2>3. client' \in [Conn -> ClientState] /\ s2c' \in [Conn -> Seq(ToClient)]
    BY <2>1, <2>2, LeftTyped
  <2>4. faults' \in 0..MaxFaults
    BY <1>13, FaultsTyped DEF LeaveUnread, FaultKinds
  <2>5. [handler[c] EXCEPT !.pc = "down"] \in HandlerState
    <3>1. handler[c] \in HandlerState
      OBVIOUS
    <3> QED
      BY <3>1 DEF HandlerState
  <2>6. handler' \in [Conn -> HandlerState]
    BY <1>13, <2>5, Starts DEF LeaveUnread
  <2> QED
    BY <2>1, <2>3, <2>4, <2>6
<1> QED
  BY <1>1, <1>2, <1>3, <1>4, <1>5, <1>6, <1>7, <1>8, <1>9, <1>10, <1>11, <1>12, <1>13
  DEF UploadStep, UserStep

LEMMA ChunkTyped ==
  ASSUME NEW m \in ToServer, m.t = "chunk"
  PROVE  m.at \in Nat /\ m.data \in Seq(Datum) /\ m.ok \in BOOLEAN
  BY DEF ToServer

LEMMA HandlerTyped ==
  ASSUME NEW h \in HandlerState
  PROVE  /\ h.size \in Nat /\ h.old \in Nat /\ h.off \in Nat /\ h.at \in Nat
         /\ h.data \in Seq(Datum) /\ h.logged \in BOOLEAN /\ h.sync \in BOOLEAN
         /\ Closed(h) \in HandlerState
<1>1. <<>> \in Seq(Datum)
  OBVIOUS
<1> QED
  BY <1>1 DEF HandlerState, Closed, HandlerIdle

\* What a write of the handler may do to the disk.
Kept(dk) ==
  /\ dk \in Disk
  /\ \A n \in Name : /\ disk[n].part # NoFile => dk[n].part # NoFile
                     /\ disk[n].final # NoFile => dk[n].final # NoFile
  /\ StoredInPlace /\ AllPlaced => DiskInPlace(dk)

LEMMA Writes ==
  ASSUME TypeOK, OpenLinked, NEW c \in Conn
  PROVE  LET h == handler[c]
             m == Head(c2s[c])
             n == NameOf[c] IN
         /\ Kept(disk) /\ Kept(Pending(c))
         /\ \A k \in 0..Len(h.data) : Kept(Put(n, h.file, h.at, Prefix(h.data, k), disk))
         /\ c2s[c] # <<>> /\ m.t = "chunk" =>
              \A k \in 0..Len(m.data) :
                Kept(Put(n, h.file, m.at, Prefix(m.data, k), Pending(c)))
<1> DEFINE h == handler[c]
           m == Head(c2s[c])
           n == NameOf[c]
<1>1. /\ n \in Name /\ disk \in Disk /\ h \in HandlerState
      /\ h.file = "part" => disk[n].part # NoFile
      /\ h.file = "final" => disk[n].final # NoFile
  BY UploadAssumption DEF TypeOK, OpenLinked, Disk
<1>2. h.at \in Nat /\ h.data \in Seq(Datum)
  BY <1>1, HandlerTyped
<1>3. Kept(disk)
  BY <1>1 DEF Kept, StoredInPlace, DiskInPlace
<1>4. AllPlaced => Placed(h.data, h.at)
  BY DEF AllPlaced, PlacedAt
<1> HIDE DEF h, n, m
<1>5. ASSUME NEW d \in Seq(Datum), NEW at \in Nat, AllPlaced => Placed(d, at),
             NEW dk, Kept(dk)
      PROVE  Kept(Put(n, h.file, at, d, dk))
  <2>1. /\ dk \in Disk
        /\ h.file = "part" => dk[n].part # NoFile
        /\ h.file = "final" => dk[n].final # NoFile
    BY <1>1, <1>5 DEF Kept
  <2>2. /\ Put(n, h.file, at, d, dk) \in Disk
        /\ \A x \in Name : /\ Put(n, h.file, at, d, dk)[x].part = NoFile <=> dk[x].part = NoFile
                           /\ Put(n, h.file, at, d, dk)[x].final = NoFile <=> dk[x].final = NoFile
        /\ DiskInPlace(dk) /\ Placed(d, at) => DiskInPlace(Put(n, h.file, at, d, dk))
    BY <1>1, <2>1, PutFacts
  <2> QED
    BY <1>5, <2>2 DEF Kept
<1>6. Kept(Pending(c))
  <2>1. Pending(c) = Put(n, h.file, h.at, h.data, disk)
    BY DEF Pending, h, n
  <2> QED
    BY <1>2, <1>3, <1>4, <1>5, <2>1
<1>7. ASSUME NEW k \in 0..Len(h.data)
      PROVE  Kept(Put(n, h.file, h.at, Prefix(h.data, k), disk))
  <2>1. Prefix(h.data, k) \in Seq(Datum)
    BY <1>2, PrefixFacts
  <2>2. AllPlaced => Placed(Prefix(h.data, k), h.at)
    BY <1>2, <1>4, <1>7, PiecesPlaced
  <2> QED
    BY <1>2, <1>3, <1>5, <2>1, <2>2
<1>8. ASSUME c2s[c] # <<>>, m.t = "chunk", NEW k \in 0..Len(m.data)
      PROVE  Kept(Put(n, h.file, m.at, Prefix(m.data, k), Pending(c)))
  <2>1. c2s[c] \in Seq(ToServer)
    BY DEF TypeOK
  <2>2. m \in ToServer /\ m = c2s[c][1] /\ 1 \in 1..Len(c2s[c])
    BY <1>8, <2>1 DEF m
  <2>3. m.at \in Nat /\ m.data \in Seq(Datum)
    BY <1>8, <2>2, ChunkTyped
  <2>4. AllPlaced => Placed(m.data, m.at)
    BY <1>8, <2>2 DEF AllPlaced, PlacedAt
  <2>5. Prefix(m.data, k) \in Seq(Datum)
    BY <2>3, <1>8, PrefixFacts
  <2>6. AllPlaced => Placed(Prefix(m.data, k), m.at)
    BY <1>8, <2>3, <2>4, PiecesPlaced
  <2> QED
    BY <1>5, <1>6, <2>3, <2>5, <2>6
<1> QED
  BY <1>3, <1>6, <1>7, <1>8 DEF h, m, n

LEMMA ReplyTyped ==
  ASSUME TypeOK, NEW c \in Conn, NEW m \in ToClient, NEW h \in HandlerState,
         NEW q \in Seq(ToServer), ReplyLeaving(c, m, h, q)
  PROVE  /\ handler' \in [Conn -> HandlerState]
         /\ c2s' \in [Conn -> Seq(ToServer)]
         /\ s2c' \in [Conn -> Seq(ToClient)]
         /\ \E g \in {h, HandlerNone} : handler' = [handler EXCEPT ![c] = g]
<1>1. CASE /\ handler' = [handler EXCEPT ![c] = h]
           /\ s2c' = IF Up(c) THEN [s2c EXCEPT ![c] = Append(@, m)] ELSE s2c
           /\ c2s' = [c2s EXCEPT ![c] = q]
  BY <1>1 DEF TypeOK
<1>2. CASE /\ handler' = [handler EXCEPT ![c] = HandlerNone]
           /\ c2s' = [c2s EXCEPT ![c] = <<>>]
           /\ UNCHANGED s2c
  BY <1>2, Starts DEF TypeOK
<1> QED
  BY <1>1, <1>2 DEF ReplyLeaving

\* What a step of the handler has to show about the disk and the types.
Sound == TypeOK' /\ OpenLinked' /\ (StoredInPlace /\ AllPlaced => StoredInPlace')

LEMMA Settle ==
  ASSUME TypeOK, OpenLinked, NEW c \in Conn, NEW g \in HandlerState,
         handler' = [handler EXCEPT ![c] = g],
         \/ g.file \in {"none", handler[c].file}
         \/ g.file = "part" /\ disk'[NameOf[c]].part # NoFile,
         Kept(disk'), UNCHANGED client, faults' \in 0..MaxFaults,
         c2s' \in [Conn -> Seq(ToServer)], s2c' \in [Conn -> Seq(ToClient)]
  PROVE  Sound
<1>1. TypeOK'
  BY DEF TypeOK, Kept, Disk
<1>2. OpenLinked'
  <2> SUFFICES ASSUME NEW d \in Conn
               PROVE  /\ handler'[d].file = "part" => disk'[NameOf[d]].part # NoFile
                      /\ handler'[d].file = "final" => disk'[NameOf[d]].final # NoFile
    BY DEF OpenLinked
  <2>1. NameOf[d] \in Name
    BY UploadAssumption
  <2>2. \/ handler'[d].file \in {"none", handler[d].file}
        \/ handler'[d].file = "part" /\ disk'[NameOf[d]].part # NoFile
    BY DEF TypeOK
  <2>3. /\ handler[d].file = "part" => disk[NameOf[d]].part # NoFile
        /\ handler[d].file = "final" => disk[NameOf[d]].final # NoFile
    BY DEF OpenLinked
  <2> QED
    BY <2>1, <2>2, <2>3 DEF Kept
<1>3. StoredInPlace /\ AllPlaced => StoredInPlace'
  BY DEF Kept, StoredInPlace, DiskInPlace
<1> QED
  BY <1>1, <1>2, <1>3 DEF Sound

LEMMA SettleReply ==
  ASSUME TypeOK, OpenLinked, NEW c \in Conn, NEW m \in ToClient,
         NEW h \in HandlerState, NEW q \in Seq(ToServer), ReplyLeaving(c, m, h, q),
         \/ h.file \in {"none", handler[c].file}
         \/ h.file = "part" /\ disk'[NameOf[c]].part # NoFile,
         Kept(disk'), UNCHANGED client, faults' \in 0..MaxFaults
  PROVE  Sound
<1>1. PICK g \in {h, HandlerNone} : handler' = [handler EXCEPT ![c] = g]
  BY ReplyTyped
<1>2. /\ g \in HandlerState
      /\ \/ g.file \in {"none", handler[c].file}
         \/ g.file = "part" /\ disk'[NameOf[c]].part # NoFile
  BY Starts DEF HandlerNone, HandlerIdle
<1>3. c2s' \in [Conn -> Seq(ToServer)] /\ s2c' \in [Conn -> Seq(ToClient)]
  BY ReplyTyped
<1> QED
  BY <1>1, <1>2, <1>3, Settle

LEMMA Answers ==
  ASSUME NEW n \in Nat
  PROVE  /\ Res(0, n) \in ToClient /\ Res(1, n) \in ToClient
         /\ Ack(0, n) \in ToClient /\ Ack(1, n) \in ToClient
  BY DEF Res, Ack, ToClient

LEMMA RenamedTyped ==
  ASSUME TypeOK, NEW n
  PROVE  /\ Renamed(n, handler) \in [Conn -> HandlerState]
         /\ \A d \in Conn :
              /\ Renamed(n, handler)[d] \in
                   {handler[d], [handler[d] EXCEPT !.file = "final"],
                                [handler[d] EXCEPT !.file = "gone"]}
              /\ Renamed(n, handler)[d].file =
                   IF NameOf[d] # n THEN handler[d].file
                   ELSE IF handler[d].file = "part" THEN "final"
                   ELSE IF handler[d].file = "final" THEN "gone" ELSE handler[d].file
<1>1. ASSUME NEW d \in Conn
      PROVE  /\ Renamed(n, handler)[d] \in HandlerState
             /\ Renamed(n, handler)[d] \in
                   {handler[d], [handler[d] EXCEPT !.file = "final"],
                                [handler[d] EXCEPT !.file = "gone"]}
             /\ Renamed(n, handler)[d].file =
                  IF NameOf[d] # n THEN handler[d].file
                  ELSE IF handler[d].file = "part" THEN "final"
                  ELSE IF handler[d].file = "final" THEN "gone" ELSE handler[d].file
  <2>1. handler[d] \in HandlerState
    BY DEF TypeOK
  <2>2. /\ [handler[d] EXCEPT !.file = "final"] \in HandlerState
        /\ [handler[d] EXCEPT !.file = "gone"] \in HandlerState
        /\ [handler[d] EXCEPT !.file = "final"].file = "final"
        /\ [handler[d] EXCEPT !.file = "gone"].file = "gone"
    BY <2>1 DEF HandlerState
  <2> QED
    BY <2>1, <2>2 DEF Renamed
<1>2. Renamed(n, handler) \in [Conn -> HandlerState]
  BY <1>1 DEF Renamed
<1> QED
  BY <1>1, <1>2

LEMMA HandlerSound ==
  ASSUME TypeOK, OpenLinked, InStep, NEW c \in Conn,
         HandlerStep(c) \/ SrvKilled(c)
  PROVE  Sound
<1> DEFINE h == handler[c]
           m == Head(c2s[c])
           n == NameOf[c]
<1>1. /\ n \in Name /\ h \in HandlerState /\ disk \in Disk
      /\ c2s \in [Conn -> Seq(ToServer)] /\ s2c \in [Conn -> Seq(ToClient)]
      /\ faults \in 0..MaxFaults
  BY UploadAssumption DEF TypeOK, Disk
<1>2. /\ h.size \in Nat /\ h.old \in Nat /\ h.off \in Nat /\ h.at \in Nat
      /\ h.data \in Seq(Datum) /\ h.logged \in BOOLEAN /\ h.sync \in BOOLEAN
      /\ Closed(h) \in HandlerState /\ Closed(h).file = "none"
  BY <1>1, HandlerTyped DEF Closed, HandlerIdle
<1>3. c2s[c] # <<>> => /\ m \in ToServer /\ Tail(c2s[c]) \in Seq(ToServer)
                       /\ [c2s EXCEPT ![c] = Tail(@)] \in [Conn -> Seq(ToServer)]
  <2>1. c2s[c] \in Seq(ToServer)
    BY <1>1
  <2> QED
    BY <1>1, <2>1
<1>4. h.pc \in {"open", "publish"} => c2s[c] # <<>>
  BY DEF InStep, InStepAt, OneQuestion
<1>5. Kept(disk) /\ Kept(Pending(c))
  BY Writes
<1>6. NoFault \/ (\E kind \in FaultKinds : Fault(kind)) => faults' \in 0..MaxFaults
  BY <1>1, FaultsTyped
<1>7. UNCHANGED faults => faults' \in 0..MaxFaults
  BY <1>1
<1> HIDE DEF h, m, n
<1>8. CASE SrvRequest(c)
  <2>1. /\ Reads(c, "dispatch", "req") /\ UNCHANGED <<client, disk, faults>>
        /\ c2s[c] # <<>> /\ m.t = "req"
    BY <1>8 DEF SrvRequest, Reads, m
  <2>2. m.size \in Nat
    BY <1>3, <2>1 DEF ToServer
  <2>3. CASE Reply(c, Res(1, 0), h)
    BY <1>1, <1>3, <1>5, <1>7, <2>1, <2>3, Answers, SettleReply DEF Reply, h
  <2>4. CASE /\ h.logged /\ UNCHANGED <<c2s, s2c>>
             /\ \E e \in BOOLEAN, o \in Nat :
                  handler' = [handler EXCEPT ![c] =
                    [@ EXCEPT !.pc = "open", !.size = m.size, !.exists = e, !.old = o]]
    <3> PICK e \in BOOLEAN, o \in Nat :
           handler' = [handler EXCEPT ![c] =
             [@ EXCEPT !.pc = "open", !.size = m.size, !.exists = e, !.old = o]]
      BY <2>4
    <3> DEFINE g == [h EXCEPT !.pc = "open", !.size = m.size, !.exists = e, !.old = o]
    <3>1. g \in HandlerState /\ g.file = h.file
      BY <1>1, <2>2 DEF HandlerState
    <3>2. handler' = [handler EXCEPT ![c] = g]
      BY DEF h
    <3> HIDE DEF g
    <3> QED
      BY <1>1, <1>5, <1>7, <2>1, <2>4, <3>1, <3>2, Settle DEF h
  <2>5. disk[n].part = NoFile \/ Len(disk[n].part) \in Nat
    BY <1>1 DEF Disk, File
  <2> QED
    BY <1>8, <2>3, <2>4, <2>5 DEF SrvRequest, h, m, n
<1>9. CASE SrvOpen(c)
  <2>1. h.pc = "open" /\ UNCHANGED client /\ c2s[c] # <<>>
    BY <1>4, <1>9 DEF SrvOpen, h
  <2> DEFINE Open(off) == [h EXCEPT !.pc = "chunk", !.off = off, !.file = "part",
                                    !.at = 0, !.data = <<>>]
  <2>2. \A off \in Nat : Open(off) \in HandlerState /\ Open(off).file = "part"
    BY <1>1, EmptyTyped DEF HandlerState
  <2> HIDE DEF Open
  <2>3. CASE /\ disk[n].part # NoFile /\ UNCHANGED disk /\ NoFault
             /\ Reply(c, Res(0, h.old), Open(h.old))
    BY <1>2, <1>3, <1>5, <1>6, <2>1, <2>2, <2>3, Answers, SettleReply DEF Reply, n
  <2>4. CASE /\ disk' = [disk EXCEPT ![n].part = <<>>]
             /\ NoFault \/ Fault("io")
             /\ Reply(c, Res(0, 0), Open(0))
    <3>1. Kept(disk') /\ disk'[n].part # NoFile
      <4>1. <<>> \in File /\ <<>> # NoFile
        BY EmptyTyped, UploadAssumption DEF File, Byte, Datum
      <4>2. disk' \in Disk
        BY <1>1, <2>4, <4>1 DEF Disk
      <4>3. \A x \in Name : /\ disk'[x].part = IF x = n THEN <<>> ELSE disk[x].part
                            /\ disk'[x].final = disk[x].final
        BY <1>1, <2>4 DEF Disk
      <4>4. StoredInPlace => DiskInPlace(disk')
        BY <4>3 DEF StoredInPlace, DiskInPlace
      <4> QED
        BY <1>1, <4>1, <4>2, <4>3, <4>4 DEF Kept
    <3>2. Open(0) \in HandlerState /\ Open(0).file = "part" /\ Res(0, 0) \in ToClient
      BY <2>2, Answers
    <3>3. faults' \in 0..MaxFaults
      BY <1>6, <2>4 DEF FaultKinds
    <3> QED
      BY <1>3, <2>1, <2>4, <3>1, <3>2, <3>3, SettleReply DEF Reply, n
  <2> QED
    BY <1>9, <2>3, <2>4 DEF SrvOpen, h, n, Open
<1>10. CASE SrvOpenFails(c)
  <2>1. c2s[c] # <<>>
    BY <1>4, <1>10 DEF SrvOpenFails, h
  <2>2. faults' \in 0..MaxFaults
    BY <1>6, <1>10 DEF SrvOpenFails, FaultKinds
  <2>3. /\ Reply(c, Res(1, 0), Closed(h)) /\ UNCHANGED <<client, disk>>
        /\ Res(1, 0) \in ToClient
    BY <1>10, Answers DEF SrvOpenFails, h
  <2> QED
    BY <1>2, <1>3, <1>5, <2>1, <2>2, <2>3, SettleReply DEF Reply
<1>11. CASE SrvChunk(c)
  <2>1. /\ c2s[c] # <<>> /\ m.t = "chunk" /\ UNCHANGED <<client, faults>>
    BY <1>11 DEF SrvChunk, Reads, m
  <2>2. m.at \in Nat /\ m.data \in Seq(Datum)
    BY <1>3, <2>1, ChunkTyped
  <2> DEFINE off == m.at + Len(m.data)
             g(k) == [h EXCEPT !.off = off, !.at = m.at + k, !.data = Rest(m.data, k)]
  <2>3. PICK k \in 0..Len(m.data) :
          /\ disk' = Put(n, h.file, m.at, Prefix(m.data, k), Pending(c))
          /\ Reply(c, Ack(0, off), g(k))
    BY <1>11 DEF SrvChunk, h, m, n
  <2>4. off \in Nat /\ m.at + k \in Nat /\ Rest(m.data, k) \in Seq(Datum)
    BY <2>2, PrefixFacts
  <2> HIDE DEF off
  <2>5. g(k) \in HandlerState /\ g(k).file = h.file
    BY <1>1, <2>4 DEF HandlerState
  <2> HIDE DEF g
  <2>6. Kept(disk')
    BY <2>1, <2>3, Writes DEF h, m, n
  <2> QED
    BY <1>3, <1>7, <2>1, <2>3, <2>4, <2>5, <2>6, Answers, SettleReply DEF Reply, h
<1>12. CASE SrvNack(c)
  <2>1. /\ c2s[c] # <<>> /\ UNCHANGED <<client, disk>> /\ Ack(1, h.off) \in ToClient
    BY <1>2, <1>12, Answers DEF SrvNack, Reads
  <2>2. faults' \in 0..MaxFaults
    BY <1>6, <1>12 DEF SrvNack, FaultKinds
  <2>3. CASE Reply(c, Ack(1, h.off), h)
    BY <1>1, <1>3, <1>5, <2>1, <2>2, <2>3, SettleReply DEF Reply, h
  <2>4. CASE ReplyLeaving(c, Ack(1, h.off), [h EXCEPT !.sync = FALSE], c2s[c])
    <3>1. [h EXCEPT !.sync = FALSE] \in HandlerState /\ [h EXCEPT !.sync = FALSE].file = h.file
      BY <1>1 DEF HandlerState
    <3>2. c2s[c] \in Seq(ToServer)
      BY <1>1
    <3> QED
      BY <1>5, <2>1, <2>2, <2>4, <3>1, <3>2, SettleReply DEF h
  <2> QED
    BY <1>12, <2>3, <2>4 DEF SrvNack, h
<1>13. CASE SrvWriteFails(c)
  <2>1. /\ c2s[c] # <<>> /\ m.t = "chunk" /\ UNCHANGED <<client, s2c>>
        /\ handler' = [handler EXCEPT ![c] = Closed(h)]
        /\ c2s' = [c2s EXCEPT ![c] = Tail(@)]
    BY <1>13 DEF SrvWriteFails, Reads, Consume, m, h
  <2>2. faults' \in 0..MaxFaults
    BY <1>6, <1>13 DEF SrvWriteFails, FaultKinds
  <2>3. Kept(disk')
    BY <1>13, <2>1, Writes DEF SrvWriteFails, m, h
  <2> QED
    BY <1>1, <1>2, <1>3, <2>1, <2>2, <2>3, Settle
<1>14. CASE SrvFinish(c)
  <2>1. /\ c2s[c] # <<>> /\ UNCHANGED client /\ Res(1, h.off) \in ToClient
    BY <1>2, <1>14, Answers DEF SrvFinish, Reads
  <2>2. faults' \in 0..MaxFaults
    BY <1>6, <1>14 DEF SrvFinish, FaultKinds
  <2>3. Kept(disk')
    BY <1>5, <1>14, Writes DEF SrvFinish, h
  <2>4. CASE Reply(c, Res(1, h.off), Closed(h))
    BY <1>2, <1>3, <2>1, <2>2, <2>3, <2>4, SettleReply DEF Reply
  <2> DEFINE g == [h EXCEPT !.pc = "publish", !.file = "none", !.at = 0, !.data = <<>>]
  <2>5. CASE /\ handler' = [handler EXCEPT ![c] = g]
             /\ UNCHANGED <<c2s, s2c>>
    <3>1. g \in HandlerState /\ g.file = "none"
      BY <1>1, EmptyTyped DEF HandlerState
    <3> HIDE DEF g
    <3> QED
      BY <1>1, <2>1, <2>2, <2>3, <2>5, <3>1, Settle
  <2> QED
    BY <1>14, <2>4, <2>5 DEF SrvFinish, h
<1>15. CASE SrvPublish(c)
  <2>1. /\ c2s[c] # <<>> /\ UNCHANGED client
        /\ Res(0, h.off) \in ToClient /\ Res(1, h.off) \in ToClient
    BY <1>2, <1>4, <1>15, Answers DEF SrvPublish, h
  <2>2. faults' \in 0..MaxFaults
    BY <1>6, <1>15 DEF SrvPublish, FaultKinds
  <2>3. CASE UNCHANGED disk /\ Reply(c, Res(1, h.off), Closed(h))
    BY <1>2, <1>3, <1>5, <2>1, <2>2, <2>3, SettleReply DEF Reply
  <2>4. ASSUME disk[n].part # NoFile,
               disk' = [disk EXCEPT ![n] = [part |-> NoFile, final |-> @.part]],
               NEW g \in {Closed(h), HandlerNone},
               handler' = [Renamed(n, handler) EXCEPT ![c] = g],
               c2s' \in [Conn -> Seq(ToServer)], s2c' \in [Conn -> Seq(ToClient)]
        PROVE  Sound
    <3>1. /\ disk' \in Disk
          /\ disk'[n].part = NoFile /\ disk'[n].final = disk[n].part
          /\ \A x \in Name : x # n => disk'[x] = disk[x]
      BY <1>1, <2>4 DEF Disk, File
    <3>2. g \in HandlerState /\ g.file = "none"
      BY <1>2, Starts DEF HandlerNone, HandlerIdle
    <3>3. /\ Renamed(n, handler) \in [Conn -> HandlerState]
          /\ \A d \in Conn : Renamed(n, handler)[d].file =
               IF NameOf[d] # n THEN handler[d].file
               ELSE IF handler[d].file = "part" THEN "final"
               ELSE IF handler[d].file = "final" THEN "gone" ELSE handler[d].file
      BY RenamedTyped
    <3>4. handler' \in [Conn -> HandlerState]
      BY <2>4, <3>2, <3>3
    <3>5. TypeOK'
      BY <2>1, <2>2, <2>4, <3>1, <3>4 DEF TypeOK, Disk
    <3>6. OpenLinked'
      <4> SUFFICES ASSUME NEW d \in Conn
                   PROVE  /\ handler'[d].file = "part" => disk'[NameOf[d]].part # NoFile
                          /\ handler'[d].file = "final" => disk'[NameOf[d]].final # NoFile
        BY DEF OpenLinked
      <4>1. NameOf[d] \in Name
        BY UploadAssumption
      <4>2. CASE d = c
        BY <2>4, <3>2, <4>2 DEF Renamed
      <4>3. CASE d # c
        <5>1. handler'[d] = Renamed(n, handler)[d]
          BY <2>4, <4>3 DEF Renamed
        <5>2. /\ handler[d].file = "part" => disk[NameOf[d]].part # NoFile
              /\ handler[d].file = "final" => disk[NameOf[d]].final # NoFile
          BY DEF OpenLinked
        <5> QED
          BY <2>4, <3>1, <3>3, <4>1, <5>1, <5>2
      <4> QED
        BY <4>2, <4>3
    <3>7. StoredInPlace => StoredInPlace'
      BY <1>1, <2>4, <3>1 DEF StoredInPlace
    <3> QED
      BY <3>5, <3>6, <3>7 DEF Sound
  <2>5. [c2s EXCEPT ![c] = <<>>] \in [Conn -> Seq(ToServer)]
    BY <1>1, EmptyTyped
  <2>6. [s2c EXCEPT ![c] = Append(@, Res(0, h.off))] \in [Conn -> Seq(ToClient)]
    BY <1>1, <2>1
  <2> QED
    BY <1>1, <1>3, <1>15, <2>1, <2>3, <2>4, <2>5, <2>6 DEF SrvPublish, Consume, h, n
<1>16. CASE SrvBreak(c)
  <2>1. UNCHANGED <<client, s2c, faults>> /\ Kept(disk')
    BY <1>5, <1>16 DEF SrvBreak
  <2>2. CASE /\ handler' = [handler EXCEPT ![c] = Closed(h)]
             /\ c2s' = [c2s EXCEPT ![c] = <<>>]
    <3>1. c2s' \in [Conn -> Seq(ToServer)]
      BY <1>1, <2>2, EmptyTyped
    <3> QED
      BY <1>1, <1>2, <1>7, <2>1, <2>2, <3>1, Settle
  <2>3. CASE /\ handler' = [handler EXCEPT ![c] = [Closed(h) EXCEPT !.sync = FALSE]]
             /\ UNCHANGED c2s
    <3>1. /\ [Closed(h) EXCEPT !.sync = FALSE] \in HandlerState
          /\ [Closed(h) EXCEPT !.sync = FALSE].file = "none"
      BY <1>2 DEF HandlerState
    <3> QED
      BY <1>1, <1>7, <2>1, <2>3, <3>1, Settle
  <2> QED
    BY <1>16, <2>2, <2>3 DEF SrvBreak, h
<1>17. CASE SrvIgnore(c)
  <2>1. /\ c2s[c] # <<>> /\ UNCHANGED <<client, handler, s2c, disk, faults>>
        /\ c2s' = [c2s EXCEPT ![c] = Tail(@)]
    BY <1>17 DEF SrvIgnore, Consume
  <2>2. handler' = [handler EXCEPT ![c] = h]
    BY <2>1 DEF TypeOK, h
  <2> QED
    BY <1>1, <1>3, <1>5, <1>7, <2>1, <2>2, Settle DEF h
<1>18. CASE SrvExit(c) \/ SrvKilled(c)
  <2>1. /\ handler' = [handler EXCEPT ![c] = HandlerNone]
        /\ c2s' = [c2s EXCEPT ![c] = <<>>]
        /\ UNCHANGED <<client, s2c, disk>>
    BY <1>18 DEF SrvExit, SrvKilled
  <2>2. HandlerNone \in HandlerState /\ HandlerNone.file = "none"
    BY Starts DEF HandlerNone, HandlerIdle
  <2>3. faults' \in 0..MaxFaults
    BY <1>6, <1>7, <1>18 DEF SrvExit, SrvKilled, FaultKinds
  <2>4. c2s' \in [Conn -> Seq(ToServer)]
    BY <1>1, <2>1, EmptyTyped
  <2> QED
    BY <1>1, <1>5, <2>1, <2>2, <2>3, <2>4, Settle
<1>19. CASE SrvBreakDownload(c)
  <2>1. UNCHANGED <<client, disk, faults>>
    BY <1>19 DEF SrvBreakDownload
  <2>2. CASE ReplyLeaving(c, Left, [Closed(h) EXCEPT !.sync = FALSE], c2s[c])
    <3>1. /\ [Closed(h) EXCEPT !.sync = FALSE] \in HandlerState
          /\ [Closed(h) EXCEPT !.sync = FALSE].file = "none"
      BY <1>2 DEF HandlerState
    <3> QED
      BY <1>1, <1>5, <1>7, <2>1, <2>2, <3>1, LeftTyped, SettleReply
  <2>3. CASE ReplyLeaving(c, Left, Closed(h), <<>>)
    BY <1>1, <1>2, <1>5, <1>7, <2>1, <2>3, LeftTyped, EmptyTyped, SettleReply
  <2> QED
    BY <1>19, <2>2, <2>3 DEF SrvBreakDownload, h
<1> QED
  BY <1>8, <1>9, <1>10, <1>11, <1>12, <1>13, <1>14, <1>15, <1>16, <1>17, <1>18, <1>19
  DEF HandlerStep

-----------------------------------------------------------------------------
(* The dialogue stays in step. *)

LEMMA TailFacts ==
  ASSUME NEW T, NEW q \in Seq(T), q # <<>>, Len(q) <= 1
  PROVE  Tail(q) = <<>> /\ Len(Tail(q)) = 0
<1>1. Len(q) = 1
  <2>1. Len(q) \in Nat /\ Len(q) # 0
    BY EmptySeq
  <2>2. \A n \in Nat : n # 0 /\ n <= 1 => n = 1
    OBVIOUS
  <2> QED
    BY <2>1, <2>2
<1>2. Tail(q) \in Seq(T) /\ Len(Tail(q)) = 0
  BY <1>1
<1> QED
  BY <1>2

LEMMA QueueFacts ==
  ASSUME NEW T, NEW x \in T
  PROVE  /\ Append(<<>>, x) # <<>> /\ Head(Append(<<>>, x)) = x
         /\ Len(Append(<<>>, x)) = 1 /\ Len(<<>>) = 0
  OBVIOUS

\* An answer of the kind the client waits for, about the message at the head.
Fits(m, q) == /\ m.t = IF q.t = "chunk" THEN "ack" ELSE "res"
              /\ q.t \in {"req", "chunk", "complete"}
              /\ m.t = "ack" /\ m.status = 0 => m.off = q.at + Len(q.data)

\* What an answer does to its own connection.
ReplyAt(c, m, g, q) ==
  \/ /\ handler'[c] = g /\ c2s'[c] = q
     /\ s2c'[c] = IF Up(c) THEN Append(s2c[c], m) ELSE s2c[c]
  \/ ~Up(c) /\ handler'[c] = HandlerNone /\ c2s'[c] = <<>> /\ s2c'[c] = s2c[c]

LEMMA ReplyHere ==
  ASSUME TypeOK, NEW c \in Conn, NEW m, NEW g, NEW q, ReplyLeaving(c, m, g, q)
  PROVE  ReplyAt(c, m, g, q)
<1>1. c \in DOMAIN handler /\ c \in DOMAIN c2s /\ c \in DOMAIN s2c
  BY DEF TypeOK
<1> QED
  BY <1>1 DEF ReplyLeaving, ReplyAt

LEMMA ReplyInStep ==
  ASSUME TypeOK, NEW c \in Conn, InStepAt(c), client[c].sync,
         handler[c].sync, c2s[c] # <<>>,
         NEW m \in ToClient, Fits(m, Head(c2s[c])),
         NEW h \in HandlerState, h.pc \in {"dispatch", "chunk"},
         NEW q, q = Tail(c2s[c]) \/ (q = c2s[c] /\ ~h.sync),
         ReplyAt(c, m, h, q), UNCHANGED client
  PROVE  InStepAt(c)'
<1>1. /\ c2s[c] \in Seq(ToServer) /\ s2c[c] \in Seq(ToClient)
      /\ c \in DOMAIN handler /\ c \in DOMAIN c2s /\ c \in DOMAIN s2c
  BY DEF TypeOK
<1>2. /\ s2c[c] = <<>> /\ Len(c2s[c]) <= 1
      /\ client[c].pc \in {"off", Waiting(Head(c2s[c]).t)}
      /\ Head(c2s[c]).t = "chunk" /\ client[c].pc = "ack" =>
           Head(c2s[c]).at + Len(Head(c2s[c]).data) = client[c].pos
  <2>1. s2c[c] = <<>>
    BY DEF InStepAt, OneAnswer
  <2>2. /\ Len(c2s[c]) <= 1
        /\ client[c].pc \in {"off", Waiting(Head(c2s[c]).t)}
        /\ Head(c2s[c]).t = "chunk" /\ client[c].pc = "ack" =>
             Head(c2s[c]).at + Len(Head(c2s[c]).data) = client[c].pos
    BY DEF InStepAt, OneQuestion
  <2> QED
    BY <2>1, <2>2
<1>6. Tail(c2s[c]) = <<>> /\ Len(Tail(c2s[c])) = 0
  BY <1>1, <1>2, TailFacts
<1>3. client'[c] = client[c]
  OBVIOUS
<1>4. CASE ~Up(c)
  <2>1. s2c'[c] = <<>> /\ client[c].pc = "off"
    BY <1>2, <1>4 DEF ReplyAt, Up
  <2>2. OneAnswer(c)'
    BY <1>3, <2>1 DEF OneAnswer
  <2>3. OneQuestion(c)'
    <3>1. CASE handler'[c] = h /\ c2s'[c] = q
      BY <1>2, <1>6, <1>3, <2>1, <3>1 DEF OneQuestion
    <3>2. CASE handler'[c] = HandlerNone /\ c2s'[c] = <<>>
      BY <3>2 DEF OneQuestion, HandlerNone, HandlerIdle
    <3> QED
      BY <1>1, <3>1, <3>2 DEF ReplyAt
  <2>4. OutOfStep(c)'
    BY <1>3 DEF ReplyAt, OutOfStep, HandlerNone, HandlerIdle
  <2> QED
    BY <1>3, <2>1, <2>2, <2>3, <2>4 DEF InStepAt
<1>5. CASE Up(c)
  <2>1. /\ handler'[c] = h /\ c2s'[c] = q /\ s2c'[c] = Append(<<>>, m)
    BY <1>1, <1>2, <1>5 DEF ReplyAt
  <2>2. /\ s2c'[c] # <<>> /\ Head(s2c'[c]) = m /\ Len(s2c'[c]) = 1
        /\ m.t # "left"
    BY <1>1, <2>1, QueueFacts DEF Fits
  <2>3. client[c].pc = Waiting(Head(c2s[c]).t)
    BY <1>2, <1>5 DEF Up
  <2>4. h.sync => c2s'[c] = <<>>
    BY <1>2, <1>6, <2>1
  <2>5. /\ client[c].pc \in (IF m.t = "res" THEN {"req", "fin"} ELSE {"ack"})
        /\ m.t = "ack" /\ m.status = 0 => m.off = client[c].pos
    BY <1>2, <2>3 DEF Fits, Waiting
  <2>6. OneAnswer(c)'
    BY <1>3, <2>1, <2>2, <2>4, <2>5 DEF OneAnswer
  <2>7. OneQuestion(c)'
    BY <2>1, <2>4 DEF OneQuestion
  <2>8. OutOfStep(c)'
    BY <1>3, <2>1 DEF OutOfStep
  <2>9. client'[c].pc # "send"
    BY <1>3, <2>3 DEF Waiting
  <2> QED
    BY <2>6, <2>7, <2>8, <2>9 DEF InStepAt
<1> QED
  BY <1>4, <1>5

\* The client sends m while nothing is under way.
LEMMA AskInStep ==
  ASSUME TypeOK, NEW c \in Conn, InStepAt(c), client[c].pc \in {"prompt", "send"},
         client[c].sync, client'[c].sync, Alive(c), NEW m \in ToServer, c2s' = [c2s EXCEPT ![c] = Append(@, m)],
         UNCHANGED handler, s2c'[c] = <<>>,
         client'[c].pc = Waiting(m.t),
         m.t = "chunk" => m.at + Len(m.data) = client'[c].pos
  PROVE  InStepAt(c)'
<1>1. c2s[c] \in Seq(ToServer) /\ c \in DOMAIN c2s
  BY DEF TypeOK
<1>2. handler[c].sync => c2s[c] = <<>>
  BY DEF InStepAt, OneQuestion, Waiting
<1>3. /\ c2s'[c] = Append(c2s[c], m) /\ c2s'[c] # <<>>
      /\ handler[c].sync => Head(c2s'[c]) = m /\ Len(c2s'[c]) = 1
  <2>1. c2s'[c] = Append(c2s[c], m) /\ c2s'[c] # <<>>
    BY <1>1
  <2>2. ASSUME handler[c].sync PROVE Head(c2s'[c]) = m /\ Len(c2s'[c]) = 1
    BY <1>1, <1>2, <2>1, <2>2, QueueFacts
  <2> QED
    BY <2>1, <2>2
<1>4. handler[c].pc \notin {"none", "open", "publish", "down"}
  BY <1>2 DEF InStepAt, OneQuestion, OutOfStep, Alive
<1>5. OneAnswer(c)'
  BY <1>3 DEF OneAnswer
<1>6. OneQuestion(c)'
  BY <1>3, <1>4 DEF OneQuestion
<1>7. client'[c].pc # "send"
  BY DEF Waiting
<1>8. OutOfStep(c)'
  BY <1>4 DEF OutOfStep
<1> QED
  BY <1>5, <1>6, <1>7, <1>8 DEF InStepAt

\* The client reads the answer.
LEMMA ReadInStep ==
  ASSUME TypeOK, NEW c \in Conn, InStepAt(c), s2c[c] # <<>>,
         client[c].sync, client'[c].sync,
         s2c' = [s2c EXCEPT ![c] = Tail(@)], UNCHANGED <<c2s, handler>>,
         client'[c].pc \in {"prompt", "send"},
         client'[c].pc = "send" => client'[c].pos = client'[c].off
  PROVE  InStepAt(c)'
<1>1. s2c[c] \in Seq(ToClient) /\ c \in DOMAIN s2c
  BY DEF TypeOK
<1>2. Len(s2c[c]) <= 1 /\ (handler[c].sync => c2s[c] = <<>>)
  <2>1. Len(s2c[c]) = 1 /\ (handler[c].sync => c2s[c] = <<>>)
    BY DEF InStepAt, OneAnswer
  <2> QED
    BY <2>1
<1>3. s2c'[c] = <<>> /\ Len(s2c'[c]) = 0
  BY <1>1, <1>2, TailFacts
<1>4. OneAnswer(c)'
  BY <1>3 DEF OneAnswer
<1>5. OneQuestion(c)'
  BY <1>2 DEF InStepAt, OneQuestion
<1>6. OutOfStep(c)'
  BY DEF InStepAt, OutOfStep
<1> QED
  BY <1>4, <1>5, <1>6 DEF InStepAt

\* What is left to show when the client reads, or will read, out of step.
LEMMA Astray ==
  ASSUME NEW c \in Conn, ~client'[c].sync,
         client'[c].pc \in {"off", "prompt", "req"},
         client'[c].pc = "off" => s2c'[c] = <<>>,
         handler'[c].pc = "none" => c2s'[c] = <<>>,
         handler'[c].pc = "open" =>
           handler'[c].sync /\ c2s'[c] # <<>> /\ Head(c2s'[c]).t = "req",
         handler'[c].pc # "publish",
         handler'[c].pc = "down" => handler'[c].sync,
         \A i \in 1..Len(c2s'[c]) : c2s'[c][i].t \in {"req", "exit"}
  PROVE  InStepAt(c)'
<1>1. OneAnswer(c)'
  BY DEF OneAnswer
<1>2. OneQuestion(c)'
  BY DEF OneQuestion
<1>3. OutOfStep(c)'
  BY DEF OutOfStep
<1> QED
  BY <1>1, <1>2, <1>3 DEF InStepAt

\* The queue of a client out of step stays one of requests.
LEMMA RequestsAlone ==
  ASSUME NEW q \in Seq(ToServer), \A i \in 1..Len(q) : q[i].t \in {"req", "exit"}
  PROVE  /\ q # <<>> => Head(q).t \in {"req", "exit"}
         /\ q # <<>> => \A i \in 1..Len(Tail(q)) : Tail(q)[i].t \in {"req", "exit"}
         /\ \A i \in 1..Len(<<>>) : <<>>[i].t \in {"req", "exit"}
         /\ \A m \in ToServer : m.t \in {"req", "exit"} =>
              /\ \A i \in 1..Len(Append(q, m)) : Append(q, m)[i].t \in {"req", "exit"}
              /\ Append(q, m) # <<>>
              /\ q # <<>> => Head(Append(q, m)) = Head(q)
<1>1. q # <<>> => Head(q).t \in {"req", "exit"}
  BY HeadTailProperties
<1>2. q # <<>> => \A i \in 1..Len(Tail(q)) : Tail(q)[i].t \in {"req", "exit"}
  OBVIOUS
<1>3. \A i \in 1..Len(<<>>) : <<>>[i].t \in {"req", "exit"}
  OBVIOUS
<1>4. ASSUME NEW m \in ToServer, m.t \in {"req", "exit"}
      PROVE  /\ \A i \in 1..Len(Append(q, m)) : Append(q, m)[i].t \in {"req", "exit"}
             /\ Append(q, m) # <<>>
             /\ q # <<>> => Head(Append(q, m)) = Head(q)
  <2>1. /\ Append(q, m) \in Seq(ToServer) /\ Len(Append(q, m)) = Len(q) + 1
        /\ \A i \in 1..Len(q) : Append(q, m)[i] = q[i]
        /\ Append(q, m)[Len(q) + 1] = m
    BY AppendProperties
  <2>2. Len(q) \in Nat /\ (q # <<>> => Len(q) # 0)
    BY EmptySeq
  <2>3. ASSUME NEW i \in 1..Len(Append(q, m)) PROVE Append(q, m)[i].t \in {"req", "exit"}
    <3>1. i \in 1..Len(q) \/ i = Len(q) + 1
      BY <2>1, <2>2
    <3> QED
      BY <1>4, <2>1, <3>1
  <2>4. Append(q, m) # <<>>
    BY <2>1, <2>2
  <2>5. ASSUME q # <<>> PROVE Head(Append(q, m)) = Head(q)
    <3>1. 1 \in 1..Len(q)
      BY <2>2, <2>5
    <3> QED
      BY <2>1, <2>4, <2>5, <3>1
  <2> QED
    BY <2>3, <2>4, <2>5
<1> QED
  BY <1>1, <1>2, <1>3, <1>4

LEMMA ClientAstray ==
  ASSUME TypeOK, NEW c \in Conn, InStepAt(c), UploadStep(c) \/ UserStep(c),
         ~client[c].sync
  PROVE  InStepAt(c)'
<1> DEFINE k == client[c]
<1>1. /\ c2s[c] \in Seq(ToServer) /\ s2c[c] \in Seq(ToClient) /\ k \in ClientState
      /\ c \in DOMAIN client /\ c \in DOMAIN handler /\ c \in DOMAIN c2s /\ c \in DOMAIN s2c
  BY DEF TypeOK
<1>2. /\ k.pc \in {"off", "prompt", "req"} /\ ~k.sync
      /\ k.pc = "off" => s2c[c] = <<>>
      /\ handler[c].pc = "none" => c2s[c] = <<>>
      /\ handler[c].pc = "open" => handler[c].sync /\ c2s[c] # <<>> /\ Head(c2s[c]).t = "req"
      /\ handler[c].pc = "down" => handler[c].sync
      /\ \A i \in 1..Len(c2s[c]) : c2s[c][i].t \in {"req", "exit"}
  BY DEF InStepAt, OneAnswer, OneQuestion, OutOfStep
<1>3. handler[c].pc # "publish"
  <2>1. handler[c].pc = "publish" => c2s[c] # <<>> /\ Head(c2s[c]).t = "complete"
    BY DEF InStepAt, OneQuestion
  <2> QED
    BY <1>1, <1>2, <2>1, RequestsAlone
<1>4. \A r \in {"none", "ok", "err"} :
        /\ Returned(k, r).pc = "prompt" /\ ~Returned(k, r).sync
        /\ Off(k).pc = "off" /\ ~Off(k).sync
  BY <1>1, <1>2, ReturnedTyped, OffTyped
<1> HIDE DEF k
<1>5. CASE Connect(c)
  <2>1. handler[c].pc = "none" /\ k.pc = "off" /\ UNCHANGED <<c2s, s2c>>
    BY <1>5 DEF Connect, Up, Alive, k
  <2>2. /\ client'[c].pc = "prompt" /\ client'[c].sync
        /\ handler'[c].pc = "dispatch"
    <3>1. /\ client' = [client EXCEPT ![c] = [ClientOff EXCEPT !.pc = "prompt"]]
          /\ \E b \in BOOLEAN : handler' = [handler EXCEPT ![c] = HandlerIdle(b)]
      BY <1>5 DEF Connect
    <3>2. /\ [ClientOff EXCEPT !.pc = "prompt"].pc = "prompt"
          /\ [ClientOff EXCEPT !.pc = "prompt"].sync
      BY DEF ClientOff
    <3>3. \A b \in BOOLEAN : HandlerIdle(b).pc = "dispatch"
      BY DEF HandlerIdle
    <3> QED
      BY <1>1, <3>1, <3>2, <3>3
  <2>3. c2s'[c] = <<>> /\ s2c'[c] = <<>>
    BY <1>2, <2>1
  <2>4. Len(<<>>) = 0
    OBVIOUS
  <2> QED
    BY <2>2, <2>3, <2>4 DEF InStepAt, OneAnswer, OneQuestion, OutOfStep
<1>6. CASE StartUpload(c)
  <2>1. PICK v \in Version :
       /\ client' = [client EXCEPT ![c] =
                       [@ EXCEPT !.pc = "req", !.ver = v, !.size = Size[v],
                                 !.report = "none"]]
       /\ c2s' = [c2s EXCEPT ![c] = Append(@, Req(Size[v]))]
    BY <1>6 DEF StartUpload
  <2>2. /\ handler[c].pc # "none" /\ UNCHANGED <<handler, s2c>>
    BY <1>6 DEF StartUpload, Alive
  <2>3. client'[c].pc = "req" /\ ~client'[c].sync
    BY <1>1, <1>2, <2>1 DEF ClientState, k
  <2>4. Req(Size[v]) \in ToServer /\ Req(Size[v]).t = "req"
    BY UploadAssumption DEF Req, ToServer
  <2>5. c2s'[c] = Append(c2s[c], Req(Size[v]))
    BY <1>1, <2>1
  <2>6. /\ \A i \in 1..Len(c2s'[c]) : c2s'[c][i].t \in {"req", "exit"}
        /\ c2s'[c] # <<>>
        /\ c2s[c] # <<>> => Head(c2s'[c]) = Head(c2s[c])
    BY <1>1, <1>2, <2>4, <2>5, RequestsAlone
  <2> QED
    BY <1>2, <1>3, <2>2, <2>3, <2>6, Astray
<1>7. CASE ClientInvalid(c)
  <2>1. client'[c].pc = "prompt" /\ ~client'[c].sync /\ UNCHANGED <<handler, c2s>>
    BY <1>1, <1>4, <1>7 DEF ClientInvalid, k
  <2> QED
    BY <1>2, <1>3, <2>1, Astray
<1>8. CASE ClientLost(c)
  <2>1. /\ UNCHANGED <<handler, c2s, s2c>> /\ s2c[c] = <<>>
        /\ \E g \in {Returned(k, "err"), Off(k)} : client' = [client EXCEPT ![c] = g]
    BY <1>8 DEF ClientLost, k
  <2>2. client'[c].pc \in {"prompt", "off"} /\ ~client'[c].sync
    BY <1>1, <1>4, <2>1
  <2> QED
    BY <1>2, <1>3, <2>1, <2>2, Astray
<1>9. CASE ClientQuit(c)
  <2>1. client'[c] = Off(k) /\ s2c'[c] = <<>> /\ UNCHANGED handler
    BY <1>1, <1>9 DEF ClientQuit, k
  <2>2. ExitReq \in ToServer /\ ExitReq.t = "exit"
    BY DEF ExitReq, ToServer
  <2>3. CASE Alive(c)
    <3>1. c2s'[c] = Append(c2s[c], ExitReq)
      BY <1>1, <1>9, <2>3 DEF ClientQuit
    <3>2. /\ \A i \in 1..Len(c2s'[c]) : c2s'[c][i].t \in {"req", "exit"}
          /\ c2s'[c] # <<>>
          /\ c2s[c] # <<>> => Head(c2s'[c]) = Head(c2s[c])
      BY <1>1, <1>2, <2>2, <3>1, RequestsAlone
    <3>3. handler[c].pc # "none"
      BY <2>3 DEF Alive
    <3> QED
      BY <1>2, <1>3, <1>4, <2>1, <3>2, <3>3, Astray
  <2>4. CASE ~Alive(c)
    <3>1. UNCHANGED c2s
      BY <1>9, <2>4 DEF ClientQuit
    <3> QED
      BY <1>2, <1>3, <1>4, <2>1, <3>1, Astray
  <2> QED
    BY <2>3, <2>4
<1>10. CASE ClientKilled(c)
  <2>1. client'[c] = Off(k) /\ s2c'[c] = <<>> /\ UNCHANGED <<handler, c2s>>
    BY <1>1, <1>10 DEF ClientKilled, k
  <2> QED
    BY <1>2, <1>3, <1>4, <2>1, Astray
<1>11. /\ ~ClientRes(c) /\ ~SendChunk(c) /\ ~SendComplete(c) /\ ~ClientAck(c)
       /\ ~ClientFinal(c) /\ ~ClientAbort(c) /\ ~LeaveUnread(c)
  BY <1>2 DEF ClientRes, SendChunk, SendComplete, ClientAck, ClientFinal, ClientAbort,
              LeaveUnread, k
<1> QED
  BY <1>5, <1>6, <1>7, <1>8, <1>9, <1>10, <1>11 DEF UploadStep, UserStep

LEMMA ClientInStep ==
  ASSUME TypeOK, NEW c \in Conn, InStepAt(c), UploadStep(c) \/ UserStep(c)
  PROVE  InStepAt(c)'
<1>0. SUFFICES ASSUME client[c].sync PROVE InStepAt(c)'
  BY ClientAstray
<1> DEFINE k == client[c]
<1>1. /\ c2s[c] \in Seq(ToServer) /\ s2c[c] \in Seq(ToClient) /\ k \in ClientState
      /\ c \in DOMAIN client /\ c \in DOMAIN handler /\ c \in DOMAIN c2s /\ c \in DOMAIN s2c
  BY DEF TypeOK
<1>2. /\ k.ver \in Version /\ k.pos \in Nat /\ k.off \in Nat
      /\ k.pc \in {"off", "prompt", "send"} => s2c[c] = <<>>
      /\ k.sync
  <2>1. /\ k.ver \in Version /\ k.pos \in Nat /\ k.off \in Nat
    BY <1>1 DEF ClientState
  <2>2. k.pc \in {"off", "prompt", "send"} => s2c[c] = <<>>
    BY <1>0 DEF InStepAt, OneAnswer
  <2> QED
    BY <1>0, <2>1, <2>2
<1>a. \A r \in {"none", "ok", "err"} :
        /\ Returned(k, r).pc = "prompt" /\ Returned(k, r).sync
        /\ Off(k).pc = "off" /\ Off(k).sync
  BY <1>1, <1>2, ReturnedTyped, OffTyped
<1>3. CASE Connect(c)
  BY <1>1, <1>3 DEF Connect, Up, Alive, ClientOff, HandlerIdle,
                    InStepAt, OneAnswer, OneQuestion, OutOfStep
<1>4. CASE StartUpload(c)
  <2>1. PICK v \in Version :
       /\ client' = [client EXCEPT ![c] =
                       [@ EXCEPT !.pc = "req", !.ver = v, !.size = Size[v],
                                 !.report = "none"]]
       /\ c2s' = [c2s EXCEPT ![c] = Append(@, Req(Size[v]))]
    BY <1>4 DEF StartUpload
  <2>2. /\ k.pc = "prompt" /\ Alive(c) /\ UNCHANGED <<handler, s2c>>
    BY <1>4 DEF StartUpload
  <2>3. client'[c].pc = "req" /\ client'[c].sync
    BY <1>1, <1>2, <2>1 DEF ClientState
  <2>4. Req(Size[v]) \in ToServer /\ Req(Size[v]).t = "req"
    BY UploadAssumption DEF Req, ToServer
  <2> QED
    BY <1>2, <2>1, <2>2, <2>3, <2>4, AskInStep DEF Waiting
<1>5. CASE ClientRes(c)
  <2>1. /\ s2c[c] # <<>> /\ s2c' = [s2c EXCEPT ![c] = Tail(@)]
        /\ UNCHANGED <<c2s, handler>> /\ Head(s2c[c]).t = "res"
    BY <1>5 DEF ClientRes, Receive, Received
  <2>2. /\ client'[c].pc \in {"prompt", "send"} /\ client'[c].sync
        /\ client'[c].pc = "send" => client'[c].pos = client'[c].off
    <3>1. CASE client' = [client EXCEPT ![c] = Returned(@, "err")]
      BY <1>1, <1>a, <3>1 DEF k
    <3>2. ASSUME NEW v \in Version, NEW off \in Nat,
                 client' = [client EXCEPT ![c] =
                   [@ EXCEPT !.pc = "send", !.ver = v, !.pos = off, !.off = off]]
          PROVE  /\ client'[c].pc = "send" /\ client'[c].pos = client'[c].off
                 /\ client'[c].sync
      BY <1>1, <1>2, <3>2 DEF ClientState
    <3>3. Head(s2c[c]).off \in Nat
      <4>1. Head(s2c[c]) \in ToClient
        BY <1>1, <2>1
      <4> QED
        BY <2>1, <4>1, AnswerTyped
    <3> QED
      BY <1>5, <3>1, <3>2, <3>3 DEF ClientRes
  <2> QED
    BY <1>0, <2>1, <2>2, ReadInStep
<1>6. CASE SendChunk(c)
  <2> DEFINE n == Least(BufferSize, Size[k.ver] - k.pos)
             d == SubSeq(Content(k.ver), k.pos + 1, k.pos + n)
  <2>1. PICK b \in BOOLEAN : c2s' = [c2s EXCEPT ![c] = Append(@, Chunk(k.off, d, b))]
    BY <1>6 DEF SendChunk
  <2>2. /\ n \in Nat /\ k.pos + n <= Size[k.ver]
        /\ k.pc = "send" /\ Alive(c) /\ UNCHANGED <<handler, s2c>>
        /\ client' = [client EXCEPT ![c] = [@ EXCEPT !.pc = "ack", !.pos = k.pos + n]]
    BY <1>2, <1>6, UploadAssumption DEF SendChunk, Least
  <2> HIDE DEF n
  <2>3. d \in Seq(Datum) /\ Len(d) = n
    <3>1. k.ver \in Version /\ k.pos \in Nat /\ n \in Nat /\ k.pos + n <= Size[k.ver]
      BY <1>2, <2>2
    <3> HIDE DEF k
    <3> QED
      BY <3>1, SliceFacts
  <2> HIDE DEF d
  <2>4. /\ Chunk(k.off, d, b) \in ToServer
        /\ Chunk(k.off, d, b).t = "chunk" /\ Chunk(k.off, d, b).at = k.off
        /\ Chunk(k.off, d, b).data = d
    BY <1>2, <2>3 DEF Chunk, ToServer
  <2>5. client'[c].pc = "ack" /\ client'[c].pos = k.pos + n /\ client'[c].sync
    BY <1>1, <1>2, <2>2 DEF ClientState
  <2>6. k.off = k.pos
    BY <2>2 DEF InStepAt
  <2> HIDE DEF k
  <2>7. s2c'[c] = <<>> /\ client[c].pc \in {"prompt", "send"} /\ client[c].sync
    BY <1>2, <2>2 DEF k
  <2> QED
    BY <2>1, <2>2, <2>3, <2>4, <2>5, <2>6, <2>7, AskInStep DEF Waiting
<1>7. CASE SendComplete(c)
  <2>1. /\ k.pc = "send" /\ Alive(c) /\ UNCHANGED <<handler, s2c>>
        /\ c2s' = [c2s EXCEPT ![c] = Append(@, Complete)]
        /\ client'[c].pc = "fin" /\ client'[c].sync
    BY <1>1, <1>2, <1>7 DEF SendComplete, ClientState
  <2>2. Complete \in ToServer /\ Complete.t = "complete"
    BY DEF Complete, ToServer
  <2> QED
    BY <1>2, <2>1, <2>2, AskInStep DEF Waiting
<1>8. CASE ClientAck(c)
  <2>1. /\ s2c[c] # <<>> /\ s2c' = [s2c EXCEPT ![c] = Tail(@)]
        /\ UNCHANGED <<c2s, handler>> /\ Head(s2c[c]).t = "ack"
    BY <1>8 DEF ClientAck, Receive, Received
  <2>2. Head(s2c[c]).status = 0 => Head(s2c[c]).off = k.pos
    BY <1>0, <2>1 DEF InStepAt, OneAnswer
  <2>3. /\ client'[c].pc = "send" /\ client'[c].pos = client'[c].off
        /\ client'[c].sync
    <3>1. CASE client' = [client EXCEPT ![c] = [@ EXCEPT !.pc = "send", !.pos = k.off]]
      BY <1>1, <1>2, <3>1 DEF ClientState
    <3>2. CASE /\ Head(s2c[c]).status = 0
               /\ client' = [client EXCEPT ![c] =
                    [@ EXCEPT !.pc = "send", !.off = Head(s2c[c]).off]]
      BY <1>1, <1>2, <2>2, <3>2 DEF ClientState
    <3> QED
      BY <1>8, <3>1, <3>2 DEF ClientAck
  <2> QED
    BY <1>0, <2>1, <2>3, ReadInStep
<1>9. CASE ClientFinal(c)
  <2>1. /\ s2c[c] # <<>> /\ s2c' = [s2c EXCEPT ![c] = Tail(@)]
        /\ UNCHANGED <<c2s, handler>>
    BY <1>9 DEF ClientFinal, Receive, Received
  <2>2. client'[c].pc = "prompt" /\ client'[c].sync
    BY <1>1, <1>9, <1>a DEF ClientFinal
  <2> QED
    BY <1>0, <2>1, <2>2, ReadInStep
<1>10. CASE ClientLost(c)
  <2>1. /\ UNCHANGED <<handler, c2s, s2c>> /\ ~Alive(c) /\ s2c[c] = <<>>
        /\ \E g \in {Returned(k, "err"), Off(k)} : client' = [client EXCEPT ![c] = g]
    BY <1>10 DEF ClientLost
  <2>3. client'[c].pc \in {"prompt", "off"} /\ client'[c].sync
    <3>1. PICK g \in {Returned(k, "err"), Off(k)} : client' = [client EXCEPT ![c] = g]
      BY <2>1
    <3>2. g.pc \in {"prompt", "off"} /\ g.sync
      BY <1>a
    <3> QED
      BY <1>1, <3>1, <3>2
  <2>2. c2s[c] = <<>> /\ Len(<<>>) = 0
    BY <2>1 DEF InStepAt, OneQuestion, Alive
  <2> QED
    BY <1>1, <2>1, <2>2, <2>3 DEF Alive, InStepAt, OneAnswer, OneQuestion, OutOfStep
<1>11. CASE ClientAbort(c)
  <2>1. /\ k.pc = "send" /\ UNCHANGED <<handler, c2s, s2c>>
        /\ client'[c].pc = "prompt" /\ client'[c].sync
    BY <1>1, <1>11, <1>a DEF ClientAbort
  <2>2. handler[c].sync => c2s[c] = <<>>
    BY <1>0, <2>1 DEF InStepAt, OneQuestion, Waiting
  <2>3. OneAnswer(c)'
    BY <1>2, <2>1 DEF OneAnswer
  <2>4. OneQuestion(c)'
    BY <2>1, <2>2 DEF InStepAt, OneQuestion
  <2>5. OutOfStep(c)'
    BY <1>0, <2>1 DEF InStepAt, OutOfStep
  <2> QED
    BY <2>1, <2>3, <2>4, <2>5 DEF InStepAt
<1>12. CASE ClientQuit(c)
  <2>1. /\ k.pc = "prompt" /\ UNCHANGED handler /\ s2c'[c] = <<>>
        /\ client'[c].pc = "off" /\ client'[c].sync
    BY <1>1, <1>12, <1>a DEF ClientQuit
  <2>2. ExitReq \in ToServer /\ ExitReq.t = "exit"
    BY DEF ExitReq, ToServer
  <2>3. CASE Alive(c)
    BY <1>0, <1>12, <2>1, <2>2, <2>3, AskInStep DEF ClientQuit, Waiting
  <2>4. CASE ~Alive(c)
    <3>1. UNCHANGED c2s
      BY <1>12, <2>4 DEF ClientQuit
    <3>2. c2s[c] = <<>> /\ Len(<<>>) = 0
      BY <2>4 DEF Alive, InStepAt, OneQuestion
    <3> QED
      BY <2>1, <2>4, <3>1, <3>2 DEF Alive, InStepAt, OneAnswer, OneQuestion, OutOfStep
  <2> QED
    BY <2>3, <2>4
<1>13. CASE ClientKilled(c)
  <2>1. /\ UNCHANGED <<handler, c2s>> /\ s2c'[c] = <<>>
        /\ client'[c].pc = "off" /\ client'[c].sync
    BY <1>1, <1>13, <1>a DEF ClientKilled
  <2>2. OneAnswer(c)'
    BY <2>1 DEF OneAnswer
  <2>3. OneQuestion(c)'
    BY <1>0, <2>1 DEF InStepAt, OneQuestion
  <2>4. OutOfStep(c)'
    BY <1>0, <2>1 DEF InStepAt, OutOfStep
  <2> QED
    BY <2>1, <2>2, <2>3, <2>4 DEF InStepAt
<1>14. CASE LeaveUnread(c)
  <2>1. /\ k.pc = "prompt" /\ c2s[c] = <<>> /\ UNCHANGED c2s
        /\ handler[c].pc = "dispatch" /\ handler[c].sync
    BY <1>14 DEF LeaveUnread
  <2>2. client'[c].pc = "prompt" /\ ~client'[c].sync
    <3>1. client' = [client EXCEPT ![c] = [@ EXCEPT !.sync = FALSE]]
      BY <1>14 DEF LeaveUnread
    <3> QED
      BY <1>1, <2>1, <3>1 DEF ClientState
  <2>3. handler'[c].pc \in {"dispatch", "down"} /\ handler'[c].sync
    <3>1. handler[c] \in HandlerState
      BY DEF TypeOK
    <3>2. /\ [handler[c] EXCEPT !.pc = "down"].pc = "down"
          /\ [handler[c] EXCEPT !.pc = "down"].sync
      BY <2>1, <3>1 DEF HandlerState
    <3>3. \A b \in BOOLEAN : HandlerIdle(b).pc = "dispatch" /\ HandlerIdle(b).sync
      BY DEF HandlerIdle
    <3> QED
      BY <1>1, <1>14, <2>1, <3>2, <3>3 DEF LeaveUnread
  <2>4. \A i \in 1..Len(c2s'[c]) : c2s'[c][i].t \in {"req", "exit"}
    BY <2>1
  <2> QED
    BY <2>2, <2>3, <2>4, Astray
<1>15. ~ClientInvalid(c)
  BY <1>0 DEF ClientInvalid
<1> QED
  BY <1>3, <1>4, <1>5, <1>6, <1>7, <1>8, <1>9, <1>10, <1>11, <1>12, <1>13, <1>14, <1>15
  DEF UploadStep, UserStep

\* What an answer to a client out of step does to its connection.
LEMMA ReplyAstray ==
  ASSUME TypeOK, NEW c \in Conn, ~client[c].sync, UNCHANGED client,
         client[c].pc \in {"off", "prompt", "req"},
         client[c].pc = "off" => s2c[c] = <<>>,
         NEW m, NEW g, g.pc \in {"dispatch", "chunk"},
         NEW q, \A i \in 1..Len(q) : q[i].t \in {"req", "exit"},
         ReplyAt(c, m, g, q)
  PROVE  InStepAt(c)'
<1>1. /\ client'[c].pc \in {"off", "prompt", "req"} /\ ~client'[c].sync
      /\ client'[c].pc = "off" => s2c'[c] = <<>>
  BY DEF ReplyAt, Up
<1>2. CASE handler'[c] = g /\ c2s'[c] = q
  BY <1>1, <1>2, Astray
<1>3. CASE handler'[c] = HandlerNone /\ c2s'[c] = <<>>
  <2>1. handler'[c].pc = "none" /\ \A i \in 1..Len(c2s'[c]) : c2s'[c][i].t \in {"req", "exit"}
    BY <1>3 DEF HandlerNone, HandlerIdle
  <2> QED
    BY <1>1, <1>3, <2>1, Astray
<1> QED
  BY <1>2, <1>3 DEF ReplyAt

LEMMA HandlerAstray ==
  ASSUME TypeOK, NEW c \in Conn, InStepAt(c), HandlerStep(c) \/ SrvKilled(c),
         ~client[c].sync
  PROVE  InStepAt(c)'
<1> DEFINE h == handler[c]
           m == Head(c2s[c])
           Requests(q) == \A i \in 1..Len(q) : q[i].t \in {"req", "exit"}
<1>1. /\ c2s[c] \in Seq(ToServer) /\ s2c[c] \in Seq(ToClient) /\ h \in HandlerState
      /\ c \in DOMAIN handler /\ c \in DOMAIN c2s /\ c \in DOMAIN s2c
  BY DEF TypeOK
<1>2. /\ client[c].pc \in {"off", "prompt", "req"} /\ ~client[c].sync
      /\ client[c].pc = "off" => s2c[c] = <<>>
      /\ h.pc = "open" => h.sync /\ c2s[c] # <<>> /\ m.t = "req"
      /\ h.pc = "down" => h.sync
      /\ h.pc = "publish" => c2s[c] # <<>> /\ m.t = "complete"
      /\ \A i \in 1..Len(c2s[c]) : c2s[c][i].t \in {"req", "exit"}
  BY DEF InStepAt, OneAnswer, OneQuestion, OutOfStep
<1>3. /\ c2s[c] # <<>> => m.t \in {"req", "exit"} /\ Requests(Tail(c2s[c]))
      /\ Requests(c2s[c]) /\ Requests(<<>>)
  BY <1>1, <1>2, RequestsAlone
<1>4. h.pc # "publish"
  BY <1>2, <1>3
<1>5. Closed(h) \in HandlerState /\ Closed(h).pc = "dispatch" /\ Closed(h).sync = h.sync
  BY <1>1, HandlerTyped DEF Closed, HandlerIdle
<1>6. ASSUME UNCHANGED client, NEW a, NEW g, g.pc \in {"dispatch", "chunk"},
             \/ ReplyAt(c, a, g, c2s[c])
             \/ c2s[c] # <<>> /\ ReplyAt(c, a, g, Tail(c2s[c]))
      PROVE  InStepAt(c)'
  <2>1. CASE ReplyAt(c, a, g, c2s[c])
    BY <1>2, <1>3, <1>6, <2>1, ReplyAstray
  <2>2. CASE c2s[c] # <<>> /\ ReplyAt(c, a, g, Tail(c2s[c]))
    <3> DEFINE q == Tail(c2s[c])
    <3>1. (\A i \in 1..Len(q) : q[i].t \in {"req", "exit"}) /\ ReplyAt(c, a, g, q)
      BY <1>3, <2>2
    <3> HIDE DEF q
    <3> QED
      BY <1>2, <1>6, <3>1, ReplyAstray
  <2> QED
    BY <1>6, <2>1, <2>2
<1>7. \* No answer is sent.
      ASSUME UNCHANGED <<client, s2c>>, NEW g, handler'[c] = g,
             g.pc \in {"none", "open", "dispatch", "chunk"},
             NEW q, q \in {c2s[c], <<>>} \/ (c2s[c] # <<>> /\ q = Tail(c2s[c])),
             c2s'[c] = q,
             g.pc = "none" => q = <<>>,
             g.pc = "open" => g.sync /\ q # <<>> /\ Head(q).t = "req"
      PROVE  InStepAt(c)'
  <2>1. Requests(q)
    BY <1>3, <1>7
  <2> QED
    BY <1>2, <1>7, <2>1, Astray
<1> HIDE DEF h, m, Requests
<1>8. CASE SrvRequest(c)
  <2>1. /\ h.pc = "dispatch" /\ h.sync /\ c2s[c] # <<>> /\ m.t = "req"
        /\ UNCHANGED client
    BY <1>8 DEF SrvRequest, Reads, h, m
  <2>2. CASE Reply(c, Res(1, 0), h)
    BY <1>6, <2>1, <2>2, ReplyHere DEF Reply
  <2>3. ASSUME NEW e, NEW o, UNCHANGED <<c2s, s2c>>,
               handler' = [handler EXCEPT ![c] =
                 [@ EXCEPT !.pc = "open", !.size = m.size, !.exists = e, !.old = o]]
        PROVE  InStepAt(c)'
    <3>1. handler'[c].pc = "open" /\ handler'[c].sync = h.sync
      BY <1>1, <2>3 DEF HandlerState, h
    <3> HIDE DEF InStepAt
    <3> QED
      BY <1>7, <2>1, <2>3, <3>1 DEF m
  <2> QED
    BY <1>8, <2>2, <2>3 DEF SrvRequest, h, m
<1>9. CASE SrvOpen(c)
  <2>1. h.sync /\ c2s[c] # <<>> /\ m.t = "req" /\ UNCHANGED client
    BY <1>2, <1>9 DEF SrvOpen, h
  <2> DEFINE Open(off) == [h EXCEPT !.pc = "chunk", !.off = off, !.file = "part",
                                    !.at = 0, !.data = <<>>]
  <2>2. \A off : Open(off).pc = "chunk"
    BY <1>1 DEF HandlerState
  <2>3. \E off : ReplyAt(c, Res(0, off), Open(off), Tail(c2s[c]))
    BY <1>9, ReplyHere DEF SrvOpen, Reply, h
  <2> HIDE DEF Open
  <2> QED
    BY <1>6, <2>1, <2>2, <2>3
<1>10. CASE SrvOpenFails(c)
  <2>1. h.sync /\ c2s[c] # <<>> /\ m.t = "req" /\ UNCHANGED client
    BY <1>2, <1>10 DEF SrvOpenFails, h
  <2>2. ReplyAt(c, Res(1, 0), Closed(h), Tail(c2s[c]))
    BY <1>10, ReplyHere DEF SrvOpenFails, Reply, h
  <2> QED
    BY <1>5, <1>6, <2>1, <2>2
<1>11. /\ ~SrvChunk(c) /\ ~SrvNack(c) /\ ~SrvWriteFails(c) /\ ~SrvFinish(c)
       /\ ~SrvPublish(c)
  BY <1>3, <1>4 DEF SrvChunk, SrvNack, SrvWriteFails, SrvFinish, SrvPublish, Reads, h, m
<1>12. /\ [Closed(h) EXCEPT !.sync = FALSE].pc = "dispatch"
  BY <1>5 DEF HandlerState
<1>13. CASE SrvBreak(c)
  <2>1. UNCHANGED <<client, s2c>>
    BY <1>13 DEF SrvBreak
  <2>2. CASE /\ handler' = [handler EXCEPT ![c] = Closed(h)]
             /\ c2s' = [c2s EXCEPT ![c] = <<>>]
    <3>1. handler'[c] = Closed(h) /\ c2s'[c] = <<>>
      BY <1>1, <2>2
    <3> QED
      BY <1>5, <1>7, <2>1, <3>1
  <2>3. CASE /\ handler' = [handler EXCEPT ![c] = [Closed(h) EXCEPT !.sync = FALSE]]
             /\ UNCHANGED c2s
    <3>1. handler'[c] = [Closed(h) EXCEPT !.sync = FALSE] /\ c2s'[c] = c2s[c]
      BY <1>1, <2>3
    <3> QED
      BY <1>7, <1>12, <2>1, <3>1
  <2> QED
    BY <1>13, <2>2, <2>3 DEF SrvBreak, h
<1>14. CASE SrvIgnore(c)
  <2>1. /\ UNCHANGED <<client, s2c>> /\ h.pc = "dispatch" /\ handler'[c] = h
        /\ c2s[c] # <<>> /\ c2s'[c] = Tail(c2s[c])
    BY <1>1, <1>14 DEF SrvIgnore, Consume, h
  <2> QED
    BY <1>7, <2>1
<1>15. CASE SrvExit(c) \/ SrvKilled(c)
  <2>1. /\ handler'[c] = HandlerNone /\ HandlerNone.pc = "none"
        /\ c2s'[c] = <<>> /\ UNCHANGED <<client, s2c>>
    BY <1>1, <1>15 DEF SrvExit, SrvKilled, HandlerNone, HandlerIdle
  <2>2. \A i \in 1..Len(c2s'[c]) : c2s'[c][i].t \in {"req", "exit"}
    BY <2>1
  <2>3. /\ client'[c].pc \in {"off", "prompt", "req"} /\ ~client'[c].sync
        /\ client'[c].pc = "off" => s2c'[c] = <<>>
    BY <1>2, <2>1
  <2> QED
    BY <2>1, <2>2, <2>3, Astray
<1>16. CASE SrvBreakDownload(c)
  <2>1. UNCHANGED client
    BY <1>16 DEF SrvBreakDownload
  <2>2. CASE c2s[c] # <<>> /\ ReplyLeaving(c, Left, [Closed(h) EXCEPT !.sync = FALSE], c2s[c])
    <3> DEFINE g == [Closed(h) EXCEPT !.sync = FALSE]
    <3>1. ReplyAt(c, Left, g, c2s[c]) /\ g.pc = "dispatch"
      BY <1>12, <2>2, ReplyHere
    <3> HIDE DEF g
    <3> QED
      BY <1>6, <2>1, <3>1
  <2>3. CASE ReplyLeaving(c, Left, Closed(h), <<>>)
    <3>1. ReplyAt(c, Left, Closed(h), <<>>)
      BY <2>3, ReplyHere
    <3>2. Requests(<<>>)
      BY <1>3
    <3> QED
      BY <1>2, <1>5, <2>1, <3>1, <3>2, ReplyAstray DEF Requests
  <2> QED
    BY <1>16, <2>2, <2>3 DEF SrvBreakDownload, h
<1> QED
  BY <1>8, <1>9, <1>10, <1>11, <1>13, <1>14, <1>15, <1>16 DEF HandlerStep

LEMMA HandlerInStep ==
  ASSUME TypeOK, NEW c \in Conn, InStepAt(c), HandlerStep(c) \/ SrvKilled(c)
  PROVE  InStepAt(c)'
<1>0. SUFFICES ASSUME client[c].sync PROVE InStepAt(c)'
  BY HandlerAstray
<1> DEFINE h == handler[c]
           m == Head(c2s[c])
<1>1. /\ c2s[c] \in Seq(ToServer) /\ s2c[c] \in Seq(ToClient) /\ h \in HandlerState
      /\ c \in DOMAIN handler /\ c \in DOMAIN c2s /\ c \in DOMAIN s2c
  BY DEF TypeOK
<1>2. /\ h.size \in Nat /\ h.old \in Nat /\ h.off \in Nat /\ h.at \in Nat
      /\ Closed(h) \in HandlerState /\ Closed(h).pc = "dispatch" /\ Closed(h).sync = h.sync
  BY <1>1, HandlerTyped DEF Closed, HandlerIdle
<1>3. /\ h.pc = "open" => h.sync /\ c2s[c] # <<>> /\ m.t = "req"
      /\ h.pc = "publish" => h.sync /\ c2s[c] # <<>> /\ m.t = "complete"
  BY DEF InStepAt, OneQuestion
<1>4. c2s[c] # <<>> => m \in ToServer
  BY <1>1
<1>5. ASSUME h.sync, c2s[c] # <<>>, NEW g \in HandlerState, g.pc \in {"dispatch", "chunk"},
             NEW n \in Nat, NEW a, UNCHANGED client,
             \/ a \in {Res(0, n), Res(1, n)} /\ m.t \in {"req", "complete"} /\ ReplyAt(c, a, g, Tail(c2s[c]))
             \/ a = Ack(1, n) /\ m.t = "chunk" /\ ReplyAt(c, a, g, Tail(c2s[c]))
             \/ a = Ack(1, n) /\ m.t = "chunk" /\ ~g.sync /\ ReplyAt(c, a, g, c2s[c])
             \/ a = Ack(0, n) /\ m.t = "chunk" /\ n = m.at + Len(m.data) /\ ReplyAt(c, a, g, Tail(c2s[c]))
      PROVE  InStepAt(c)'
  <2>1. a \in ToClient
    BY <1>5, Answers
  <2>2. Fits(a, m)
    BY <1>5 DEF Fits, Res, Ack
  <2>3. \/ ReplyAt(c, a, g, Tail(c2s[c]))
        \/ ~g.sync /\ ReplyAt(c, a, g, c2s[c])
    BY <1>5 DEF ReplyAt
  <2>4. /\ handler[c].sync /\ c2s[c] # <<>> /\ Fits(a, Head(c2s[c]))
        /\ g \in HandlerState /\ g.pc \in {"dispatch", "chunk"} /\ UNCHANGED client
    BY <1>5, <2>2
  <2>6. CASE ReplyAt(c, a, g, Tail(c2s[c]))
    BY <1>0, <2>1, <2>4, <2>6, ReplyInStep
  <2>7. CASE ~g.sync /\ ReplyAt(c, a, g, c2s[c])
    BY <1>0, <2>1, <2>4, <2>7, ReplyInStep
  <2> QED
    BY <2>3, <2>6, <2>7
<1>6. \* The handler stops talking: what is left to read, if anything, is junk.
      ASSUME NEW g, handler' = [handler EXCEPT ![c] = g], g.pc \in {"none", "dispatch", "chunk"},
             UNCHANGED <<client, s2c>>,
             \/ c2s'[c] = <<>>
             \/ ~g.sync /\ g.pc # "none"
      PROVE  InStepAt(c)'
  <2>1. handler'[c] = g
    BY <1>1, <1>6
  <2>2. Len(<<>>) = 0
    OBVIOUS
  <2>3. OneAnswer(c)'
    BY <1>6, <2>1 DEF InStepAt, OneAnswer
  <2>4. OneQuestion(c)'
    BY <1>6, <2>1, <2>2 DEF OneQuestion
  <2>5. OutOfStep(c)'
    BY <1>0, <1>6, <2>1 DEF OutOfStep
  <2> QED
    BY <1>6, <2>3, <2>4, <2>5 DEF InStepAt
<1>7. h.sync /\ c2s[c] # <<>> => Tail(c2s[c]) = <<>>
  <2> HAVE h.sync /\ c2s[c] # <<>>
  <2>1. Len(c2s[c]) <= 1
    BY <1>0 DEF InStepAt, OneQuestion
  <2> QED
    BY <1>1, <2>1, TailFacts
<1> HIDE DEF h, m
<1>8. CASE SrvRequest(c)
  <2>1. h.pc = "dispatch" /\ h.sync /\ c2s[c] # <<>> /\ m.t = "req" /\ UNCHANGED client
    BY <1>8 DEF SrvRequest, Reads, h, m
  <2>2. CASE ReplyAt(c, Res(1, 0), h, Tail(c2s[c]))
    BY <1>1, <1>5, <2>1, <2>2
  <2>3. CASE /\ UNCHANGED <<c2s, s2c>>
             /\ handler'[c].pc = "open" /\ handler'[c].sync = h.sync
    <3>1. OneAnswer(c)'
      BY <2>1, <2>3 DEF InStepAt, OneAnswer, h
    <3>2. OneQuestion(c)'
      BY <2>1, <2>3 DEF InStepAt, OneQuestion, h, m
    <3>3. OutOfStep(c)'
      BY <1>0, <2>1, <2>3 DEF OutOfStep
    <3> QED
      BY <2>1, <3>1, <3>2, <3>3 DEF InStepAt
  <2>4. ASSUME NEW e, NEW o, UNCHANGED <<c2s, s2c>>,
               handler' = [handler EXCEPT ![c] =
                 [@ EXCEPT !.pc = "open", !.size = m.size, !.exists = e, !.old = o]]
        PROVE  handler'[c].pc = "open" /\ handler'[c].sync = h.sync
    BY <1>1, <2>4 DEF HandlerState, h
  <2>5. Reply(c, Res(1, 0), h) => ReplyAt(c, Res(1, 0), h, Tail(c2s[c]))
    BY ReplyHere DEF Reply
  <2> QED
    BY <1>8, <2>2, <2>3, <2>4, <2>5 DEF SrvRequest, h, m
<1>9. CASE SrvOpen(c)
  <2>1. h.sync /\ c2s[c] # <<>> /\ m.t = "req" /\ UNCHANGED client
    BY <1>3, <1>9 DEF SrvOpen, h
  <2> DEFINE Open(off) == [h EXCEPT !.pc = "chunk", !.off = off, !.file = "part",
                                    !.at = 0, !.data = <<>>]
  <2>2. \A off \in Nat : Open(off) \in HandlerState /\ Open(off).pc = "chunk"
    BY <1>1, EmptyTyped DEF HandlerState
  <2>3. \E off \in Nat : ReplyAt(c, Res(0, off), Open(off), Tail(c2s[c]))
    BY <1>2, <1>9, ReplyHere DEF SrvOpen, Reply, h
  <2> HIDE DEF Open
  <2> QED
    BY <1>5, <2>1, <2>2, <2>3
<1>10. CASE SrvOpenFails(c)
  <2>1. h.sync /\ c2s[c] # <<>> /\ m.t = "req" /\ UNCHANGED client
    BY <1>3, <1>10 DEF SrvOpenFails, h
  <2>2. ReplyAt(c, Res(1, 0), Closed(h), Tail(c2s[c]))
    BY <1>10, ReplyHere DEF SrvOpenFails, Reply, h
  <2> QED
    BY <1>2, <1>5, <2>1, <2>2
<1>11. CASE SrvChunk(c)
  <2>1. h.pc = "chunk" /\ h.sync /\ c2s[c] # <<>> /\ m.t = "chunk" /\ UNCHANGED client
    BY <1>11 DEF SrvChunk, Reads, h, m
  <2>2. m.at \in Nat /\ m.data \in Seq(Datum)
    BY <1>4, <2>1, ChunkTyped
  <2> DEFINE off == m.at + Len(m.data)
             g(k) == [h EXCEPT !.off = off, !.at = m.at + k, !.data = Rest(m.data, k)]
  <2>3. PICK k \in 0..Len(m.data) : ReplyAt(c, Ack(0, off), g(k), Tail(c2s[c]))
    BY <1>11, ReplyHere DEF SrvChunk, Reply, h, m
  <2>4. off \in Nat /\ m.at + k \in Nat /\ Rest(m.data, k) \in Seq(Datum)
    BY <2>2, PrefixFacts
  <2>5. g(k) \in HandlerState /\ g(k).pc = "chunk"
    BY <1>1, <2>1, <2>4 DEF HandlerState
  <2> HIDE DEF g
  <2> QED
    BY <1>5, <2>1, <2>3, <2>4, <2>5
<1>12. CASE SrvNack(c)
  <2>1. h.pc = "chunk" /\ h.sync /\ c2s[c] # <<>> /\ m.t = "chunk" /\ UNCHANGED client
    BY <1>12 DEF SrvNack, Reads, h, m
  <2>2. /\ [h EXCEPT !.sync = FALSE] \in HandlerState
        /\ [h EXCEPT !.sync = FALSE].pc = "chunk" /\ ~[h EXCEPT !.sync = FALSE].sync
    BY <1>1, <2>1 DEF HandlerState
  <2>3. \/ ReplyAt(c, Ack(1, h.off), h, Tail(c2s[c]))
        \/ ReplyAt(c, Ack(1, h.off), [h EXCEPT !.sync = FALSE], c2s[c])
    BY <1>12, ReplyHere DEF SrvNack, Reply, h
  <2> QED
    BY <1>1, <1>2, <1>5, <2>1, <2>2, <2>3
<1>13. CASE SrvWriteFails(c)
  <2>1. /\ h.sync /\ c2s[c] # <<>> /\ UNCHANGED <<client, s2c>>
        /\ handler' = [handler EXCEPT ![c] = Closed(h)]
        /\ c2s'[c] = Tail(c2s[c])
    BY <1>1, <1>13 DEF SrvWriteFails, Reads, Consume, h
  <2> QED
    BY <1>2, <1>6, <1>7, <2>1
<1>14. CASE SrvFinish(c)
  <2>1. h.pc = "chunk" /\ h.sync /\ c2s[c] # <<>> /\ m.t = "complete" /\ UNCHANGED client
    BY <1>14 DEF SrvFinish, Reads, h, m
  <2>2. CASE Reply(c, Res(1, h.off), Closed(h))
    BY <1>2, <1>5, <2>1, <2>2, ReplyHere DEF Reply
  <2>3. CASE /\ UNCHANGED <<c2s, s2c>>
             /\ handler'[c].pc = "publish" /\ handler'[c].sync = h.sync
    <3>1. OneAnswer(c)'
      BY <2>1, <2>3 DEF InStepAt, OneAnswer, h
    <3>2. OneQuestion(c)'
      BY <2>1, <2>3 DEF InStepAt, OneQuestion, h, m
    <3>3. OutOfStep(c)'
      BY <1>0, <2>1, <2>3 DEF OutOfStep
    <3> QED
      BY <2>1, <3>1, <3>2, <3>3 DEF InStepAt
  <2>4. ASSUME handler' = [handler EXCEPT ![c] = 
                 [h EXCEPT !.pc = "publish", !.file = "none", !.at = 0, !.data = <<>>]]
        PROVE  handler'[c].pc = "publish" /\ handler'[c].sync = h.sync
    BY <1>1, <2>4 DEF HandlerState
  <2> QED
    BY <1>14, <2>2, <2>3, <2>4 DEF SrvFinish, h
<1>15. CASE SrvPublish(c)
  <2>1. h.sync /\ c2s[c] # <<>> /\ m.t = "complete" /\ UNCHANGED client
    BY <1>3, <1>15 DEF SrvPublish, h
  <2>2. CASE Reply(c, Res(1, h.off), Closed(h))
    BY <1>2, <1>5, <2>1, <2>2, ReplyHere DEF Reply
  <2>3. CASE \E hs \in [Conn -> HandlerState] :
               \/ /\ handler' = [hs EXCEPT ![c] = Closed(h)]
                  /\ s2c' = IF Up(c) THEN [s2c EXCEPT ![c] = Append(@, Res(0, h.off))] ELSE s2c
                  /\ Consume(c)
               \/ /\ ~Up(c)
                  /\ handler' = [hs EXCEPT ![c] = HandlerNone]
                  /\ c2s' = [c2s EXCEPT ![c] = <<>>]
                  /\ UNCHANGED s2c
    <3>1. ReplyAt(c, Res(0, h.off), Closed(h), Tail(c2s[c]))
      BY <1>1, <2>3 DEF ReplyAt, Consume
    <3> QED
      BY <1>2, <1>5, <2>1, <3>1
  <2>4. Renamed(NameOf[c], handler) \in [Conn -> HandlerState]
    BY RenamedTyped
  <2> QED
    BY <1>15, <2>2, <2>3, <2>4 DEF SrvPublish, h
<1>16. CASE SrvBreak(c)
  <2>1. UNCHANGED <<client, s2c>>
    BY <1>16 DEF SrvBreak
  <2>2. CASE /\ handler' = [handler EXCEPT ![c] = Closed(h)]
             /\ c2s' = [c2s EXCEPT ![c] = <<>>]
    BY <1>1, <1>2, <1>6, <2>1, <2>2
  <2>3. CASE /\ handler' = [handler EXCEPT ![c] = [Closed(h) EXCEPT !.sync = FALSE]]
             /\ UNCHANGED c2s
    <3>1. /\ [Closed(h) EXCEPT !.sync = FALSE].pc = "dispatch"
          /\ ~[Closed(h) EXCEPT !.sync = FALSE].sync
      BY <1>2 DEF HandlerState
    <3> QED
      BY <1>6, <2>1, <2>3, <3>1
  <2> QED
    BY <1>16, <2>2, <2>3 DEF SrvBreak, h
<1>17. CASE SrvIgnore(c)
  <2>1. /\ UNCHANGED <<client, handler, s2c>> /\ ~h.sync /\ h.pc = "dispatch"
    BY <1>17 DEF SrvIgnore, h
  <2>2. handler' = [handler EXCEPT ![c] = h]
    BY <2>1 DEF TypeOK, h
  <2> QED
    BY <1>6, <2>1, <2>2
<1>18. CASE SrvExit(c) \/ SrvKilled(c)
  <2>1. /\ handler' = [handler EXCEPT ![c] = HandlerNone] /\ HandlerNone.pc = "none"
        /\ c2s'[c] = <<>> /\ UNCHANGED <<client, s2c>>
    BY <1>1, <1>18 DEF SrvExit, SrvKilled, HandlerNone, HandlerIdle
  <2> QED
    BY <1>6, <2>1
<1>19. ~SrvBreakDownload(c)
  BY <1>0 DEF SrvBreakDownload, InStepAt, OutOfStep
<1> QED
  BY <1>8, <1>9, <1>10, <1>11, <1>12, <1>13, <1>14, <1>15, <1>16, <1>17, <1>18, <1>19
  DEF HandlerStep

-----------------------------------------------------------------------------
(* The bytes in flight and in the buffers. *)

QueuePlaced(q) == \A i \in 1..Len(q) : q[i].t = "chunk" => Placed(q[i].data, q[i].at)

LEMMA QueuesPlaced ==
  ASSUME NEW q \in Seq(ToServer), QueuePlaced(q)
  PROVE  /\ QueuePlaced(<<>>)
         /\ q # <<>> => QueuePlaced(Tail(q))
         /\ \A m \in ToServer : (m.t = "chunk" => Placed(m.data, m.at)) =>
              QueuePlaced(Append(q, m))
<1>1. QueuePlaced(<<>>)
  BY DEF QueuePlaced
<1>2. ASSUME q # <<>> PROVE QueuePlaced(Tail(q))
  <2>1. Len(Tail(q)) = Len(q) - 1 /\ \A i \in 1..Len(Tail(q)) : Tail(q)[i] = q[i + 1]
    BY <1>2
  <2>2. Len(q) \in Nat
    OBVIOUS
  <2>3. \A i \in 1..Len(Tail(q)) : i + 1 \in 1..Len(q)
    BY <2>1, <2>2
  <2> QED
    BY <2>1, <2>3 DEF QueuePlaced
<1>3. ASSUME NEW m \in ToServer, m.t = "chunk" => Placed(m.data, m.at)
      PROVE  QueuePlaced(Append(q, m))
  <2>1. /\ Len(Append(q, m)) = Len(q) + 1
        /\ \A i \in 1..Len(Append(q, m)) :
             Append(q, m)[i] = IF i <= Len(q) THEN q[i] ELSE m
    OBVIOUS
  <2>2. Len(q) \in Nat
    OBVIOUS
  <2> SUFFICES ASSUME NEW i \in 1..Len(Append(q, m)), Append(q, m)[i].t = "chunk"
               PROVE  Placed(Append(q, m)[i].data, Append(q, m)[i].at)
    BY DEF QueuePlaced
  <2>3. CASE i <= Len(q)
    <3>1. i \in 1..Len(q) /\ Append(q, m)[i] = q[i]
      BY <2>1, <2>2, <2>3
    <3> QED
      BY <3>1 DEF QueuePlaced
  <2>4. CASE ~(i <= Len(q))
    BY <1>3, <2>1, <2>4
  <2> QED
    BY <2>3, <2>4
<1> QED
  BY <1>1, <1>2, <1>3

LEMMA NothingPlaced == \A at : Placed(<<>>, at)
BY DEF Placed

LEMMA ClientPlaced ==
  ASSUME TypeOK, NEW c \in Conn, InStepAt(c), PlacedAt(c), UploadStep(c) \/ UserStep(c)
  PROVE  PlacedAt(c)'
<1> DEFINE k == client[c]
<1>1. /\ c2s[c] \in Seq(ToServer) /\ k \in ClientState /\ c \in DOMAIN c2s
      /\ c \in DOMAIN handler
  BY DEF TypeOK
<1>2. QueuePlaced(c2s[c])
  BY DEF PlacedAt, QueuePlaced
<1>3. CASE Connect(c)
  <2>1. handler'[c].data = <<>> /\ UNCHANGED c2s
    BY <1>1, <1>3 DEF Connect, HandlerIdle
  <2> QED
    BY <1>2, <2>1, NothingPlaced DEF PlacedAt
<1>4. ASSUME UNCHANGED <<handler, c2s>> PROVE PlacedAt(c)'
  BY <1>4 DEF PlacedAt
<1>5. ASSUME UNCHANGED handler, NEW m \in ToServer,
             c2s' = [c2s EXCEPT ![c] = Append(@, m)],
             m.t = "chunk" => Placed(m.data, m.at)
      PROVE  PlacedAt(c)'
  <2>1. c2s'[c] = Append(c2s[c], m)
    BY <1>1, <1>5
  <2>2. QueuePlaced(Append(c2s[c], m))
    BY <1>1, <1>2, <1>5, QueuesPlaced
  <2> QED
    BY <1>5, <2>1, <2>2 DEF PlacedAt, QueuePlaced
<1>6. CASE StartUpload(c)
  <2>1. PICK v \in Version : c2s' = [c2s EXCEPT ![c] = Append(@, Req(Size[v]))]
    BY <1>6 DEF StartUpload
  <2>2. Req(Size[v]) \in ToServer /\ Req(Size[v]).t = "req"
    BY UploadAssumption DEF Req, ToServer
  <2>3. UNCHANGED handler
    BY <1>6 DEF StartUpload
  <2> QED
    BY <1>5, <2>1, <2>2, <2>3
<1>7. CASE SendChunk(c)
  <2> DEFINE n == Least(BufferSize, Size[k.ver] - k.pos)
             d == SubSeq(Content(k.ver), k.pos + 1, k.pos + n)
  <2>1. PICK b \in BOOLEAN : c2s' = [c2s EXCEPT ![c] = Append(@, Chunk(k.off, d, b))]
    BY <1>7 DEF SendChunk
  <2>2. k.ver \in Version /\ k.pos \in Nat /\ k.off \in Nat
    BY <1>1 DEF ClientState
  <2>3. /\ n \in Nat /\ k.pos + n <= Size[k.ver] /\ k.pc = "send" /\ UNCHANGED handler
    BY <2>2, <1>7, UploadAssumption DEF SendChunk, Least
  <2>4. k.off = k.pos
    BY <2>3 DEF InStepAt
  <2> HIDE DEF n, k
  <2>5. d \in Seq(Datum) /\ Len(d) = n /\ \A j \in 1..n : d[j] = <<k.ver, k.pos + j>>
    BY <2>2, <2>3, SliceFacts
  <2> HIDE DEF d
  <2>6. Placed(d, k.off)
    BY <2>4, <2>5 DEF Placed
  <2>7. /\ Chunk(k.off, d, b) \in ToServer
        /\ Chunk(k.off, d, b).at = k.off /\ Chunk(k.off, d, b).data = d
    BY <2>2, <2>5 DEF Chunk, ToServer
  <2> QED
    BY <1>5, <2>1, <2>3, <2>6, <2>7
<1>8. CASE SendComplete(c)
  <2>1. Complete \in ToServer /\ Complete.t = "complete"
    BY DEF Complete, ToServer
  <2> QED
    BY <1>5, <1>8, <2>1 DEF SendComplete
<1>9. CASE ClientQuit(c)
  <2>1. ExitReq \in ToServer /\ ExitReq.t = "exit"
    BY DEF ExitReq, ToServer
  <2> QED
    BY <1>4, <1>5, <1>9, <2>1 DEF ClientQuit
<1>10. CASE ClientRes(c) \/ ClientAck(c) \/ ClientFinal(c) \/ ClientLost(c)
            \/ ClientAbort(c) \/ ClientKilled(c) \/ ClientInvalid(c)
  BY <1>4, <1>10
  DEF ClientRes, ClientAck, ClientFinal, ClientLost, ClientAbort, ClientKilled,
      ClientInvalid
<1>11. CASE LeaveUnread(c)
  <2>1. UNCHANGED c2s
    BY <1>11 DEF LeaveUnread
  <2>2. CASE UNCHANGED handler
    BY <1>4, <2>1, <2>2
  <2>3. CASE \E b \in BOOLEAN : handler' = [handler EXCEPT ![c] = HandlerIdle(b)]
    <3>1. handler'[c].data = <<>>
      BY <1>1, <2>3 DEF HandlerIdle
    <3> QED
      BY <1>2, <2>1, <3>1, NothingPlaced DEF PlacedAt
  <2>4. CASE handler' = [handler EXCEPT ![c] = [@ EXCEPT !.pc = "down"]]
    <3>1. handler[c] \in HandlerState
      BY DEF TypeOK
    <3>2. /\ [handler[c] EXCEPT !.pc = "down"].data = handler[c].data
          /\ [handler[c] EXCEPT !.pc = "down"].at = handler[c].at
      BY <3>1 DEF HandlerState
    <3>3. handler'[c].data = handler[c].data /\ handler'[c].at = handler[c].at
      BY <1>1, <2>4, <3>2
    <3> QED
      BY <2>1, <3>3 DEF PlacedAt
  <2> QED
    BY <1>11, <2>2, <2>3, <2>4 DEF LeaveUnread
<1> QED
  BY <1>3, <1>6, <1>7, <1>8, <1>9, <1>10, <1>11 DEF UploadStep, UserStep

LEMMA HandlerPlaced ==
  ASSUME TypeOK, NEW c \in Conn, InStepAt(c), PlacedAt(c), HandlerStep(c) \/ SrvKilled(c)
  PROVE  PlacedAt(c)'
<1> DEFINE h == handler[c]
           m == Head(c2s[c])
<1>1. /\ c2s[c] \in Seq(ToServer) /\ h \in HandlerState
      /\ c \in DOMAIN handler /\ c \in DOMAIN c2s
  BY DEF TypeOK
<1>2. QueuePlaced(c2s[c]) /\ Placed(h.data, h.at)
  BY DEF PlacedAt, QueuePlaced
<1>3. h.pc \in {"open", "publish"} => c2s[c] # <<>>
  BY DEF InStepAt, OneQuestion
<1>4. Closed(h).data = <<>> /\ HandlerNone.data = <<>>
  BY DEF Closed, HandlerNone, HandlerIdle
<1>5. ASSUME NEW g, Placed(g.data, g.at), handler'[c] \in {g, HandlerNone},
             c2s'[c] \in {c2s[c], <<>>} \/ (c2s[c] # <<>> /\ c2s'[c] = Tail(c2s[c]))
      PROVE  PlacedAt(c)'
  <2>1. QueuePlaced(c2s'[c])
    BY <1>1, <1>2, <1>5, QueuesPlaced
  <2>2. Placed(handler'[c].data, handler'[c].at)
    BY <1>4, <1>5, NothingPlaced
  <2> QED
    BY <2>1, <2>2 DEF PlacedAt, QueuePlaced
<1>6. ASSUME NEW g, Placed(g.data, g.at), NEW a, ReplyAt(c, a, g, Tail(c2s[c])), c2s[c] # <<>>
      PROVE  PlacedAt(c)'
  BY <1>5, <1>6 DEF ReplyAt
<1> HIDE DEF h, m
<1>8. CASE SrvRequest(c)
  <2>1. c2s[c] # <<>>
    BY <1>8 DEF SrvRequest, Reads
  <2>2. CASE ReplyAt(c, Res(1, 0), h, Tail(c2s[c]))
    BY <1>2, <1>6, <2>1, <2>2
  <2>3. ASSUME NEW e, NEW o, NEW s, UNCHANGED c2s,
               handler' = [handler EXCEPT ![c] =
                 [@ EXCEPT !.pc = "open", !.size = s, !.exists = e, !.old = o]]
        PROVE  PlacedAt(c)'
    <3>1. handler'[c].data = h.data /\ handler'[c].at = h.at
      BY <1>1, <2>3 DEF HandlerState, h
    <3> QED
      BY <1>2, <1>5, <2>3, <3>1
  <2> QED
    BY <1>8, <2>2, <2>3, ReplyHere DEF SrvRequest, Reply, h
<1>9. CASE SrvOpen(c)
  <2> DEFINE Open(off) == [h EXCEPT !.pc = "chunk", !.off = off, !.file = "part",
                                    !.at = 0, !.data = <<>>]
  <2>1. \E off : ReplyAt(c, Res(0, off), Open(off), Tail(c2s[c]))
    BY <1>9, ReplyHere DEF SrvOpen, Reply, h
  <2>2. \A off : Open(off).data = <<>>
    BY <1>1 DEF HandlerState
  <2>3. c2s[c] # <<>>
    BY <1>3, <1>9 DEF SrvOpen, h
  <2> HIDE DEF Open
  <2> QED
    BY <1>6, <2>1, <2>2, <2>3, NothingPlaced
<1>10. CASE SrvOpenFails(c)
  <2>1. ReplyAt(c, Res(1, 0), Closed(h), Tail(c2s[c])) /\ c2s[c] # <<>>
    BY <1>3, <1>10, ReplyHere DEF SrvOpenFails, Reply, h
  <2> QED
    BY <1>4, <1>6, <2>1, NothingPlaced
<1>11. CASE SrvChunk(c)
  <2>1. c2s[c] # <<>> /\ m.t = "chunk"
    BY <1>11 DEF SrvChunk, Reads, m
  <2>2. m \in ToServer /\ m.at \in Nat /\ m.data \in Seq(Datum)
    <3>1. m \in ToServer
      BY <1>1, <2>1 DEF m
    <3> QED
      BY <2>1, <3>1, ChunkTyped
  <2>3. Placed(m.data, m.at)
    <3>1. m = c2s[c][1] /\ 1 \in 1..Len(c2s[c])
      BY <1>1, <2>1 DEF m
    <3> QED
      BY <1>2, <2>1, <3>1 DEF QueuePlaced
  <2> DEFINE off == m.at + Len(m.data)
             g(k) == [h EXCEPT !.off = off, !.at = m.at + k, !.data = Rest(m.data, k)]
  <2>4. PICK k \in 0..Len(m.data) : ReplyAt(c, Ack(0, off), g(k), Tail(c2s[c]))
    BY <1>11, ReplyHere DEF SrvChunk, Reply, h, m
  <2>5. g(k).at = m.at + k /\ g(k).data = Rest(m.data, k)
    BY <1>1 DEF HandlerState
  <2>6. Placed(Rest(m.data, k), m.at + k)
    BY <2>2, <2>3, PiecesPlaced
  <2> HIDE DEF g
  <2> QED
    BY <1>6, <2>1, <2>4, <2>5, <2>6
<1>12. CASE SrvNack(c)
  <2>1. c2s[c] # <<>>
    BY <1>12 DEF SrvNack, Reads
  <2>2. CASE ReplyAt(c, Ack(1, h.off), h, Tail(c2s[c]))
    BY <1>2, <1>6, <2>1, <2>2
  <2>3. CASE ReplyAt(c, Ack(1, h.off), [h EXCEPT !.sync = FALSE], c2s[c])
    <3>1. [h EXCEPT !.sync = FALSE].data = h.data /\ [h EXCEPT !.sync = FALSE].at = h.at
      BY <1>1 DEF HandlerState
    <3> QED
      BY <1>2, <1>5, <2>3, <3>1 DEF ReplyAt
  <2> QED
    BY <1>12, <2>2, <2>3, ReplyHere DEF SrvNack, Reply, h
<1>13. CASE SrvWriteFails(c)
  <2>1. c2s[c] # <<>> /\ handler'[c] = Closed(h) /\ c2s'[c] = Tail(c2s[c])
    BY <1>1, <1>13 DEF SrvWriteFails, Reads, Consume, h
  <2> QED
    BY <1>4, <1>5, <2>1, NothingPlaced
<1>14. CASE SrvFinish(c)
  <2>1. c2s[c] # <<>>
    BY <1>14 DEF SrvFinish, Reads
  <2>2. CASE ReplyAt(c, Res(1, h.off), Closed(h), Tail(c2s[c]))
    BY <1>4, <1>6, <2>1, <2>2, NothingPlaced
  <2>3. CASE /\ UNCHANGED c2s
             /\ handler' = [handler EXCEPT ![c] =
                  [h EXCEPT !.pc = "publish", !.file = "none", !.at = 0, !.data = <<>>]]
    <3>1. handler'[c].data = <<>>
      BY <1>1, <2>3 DEF HandlerState
    <3> QED
      BY <1>5, <2>3, <3>1, NothingPlaced
  <2> QED
    BY <1>14, <2>2, <2>3, ReplyHere DEF SrvFinish, Reply, h
<1>15. CASE SrvPublish(c)
  <2>1. c2s[c] # <<>>
    BY <1>3, <1>15 DEF SrvPublish, h
  <2>2. CASE ReplyAt(c, Res(1, h.off), Closed(h), Tail(c2s[c]))
    BY <1>4, <1>6, <2>1, <2>2, NothingPlaced
  <2>3. ASSUME NEW hs \in [Conn -> HandlerState],
               \/ /\ handler' = [hs EXCEPT ![c] = Closed(h)]
                  /\ Consume(c)
               \/ /\ handler' = [hs EXCEPT ![c] = HandlerNone]
                  /\ c2s' = [c2s EXCEPT ![c] = <<>>]
        PROVE  PlacedAt(c)'
    <3>1. /\ handler'[c] \in {Closed(h), HandlerNone}
          /\ c2s'[c] \in {Tail(c2s[c]), <<>>}
      BY <1>1, <2>3 DEF Consume
    <3> QED
      BY <1>4, <1>5, <2>1, <3>1, NothingPlaced
  <2>4. Renamed(NameOf[c], handler) \in [Conn -> HandlerState]
    BY RenamedTyped
  <2> QED
    BY <1>15, <2>2, <2>3, <2>4, ReplyHere DEF SrvPublish, Reply, h
<1>16. CASE SrvBreak(c)
  <2>1. /\ handler'[c] \in {Closed(h), [Closed(h) EXCEPT !.sync = FALSE]}
        /\ c2s'[c] \in {c2s[c], <<>>}
    BY <1>1, <1>16 DEF SrvBreak, h
  <2>2. [Closed(h) EXCEPT !.sync = FALSE].data = <<>>
    BY DEF Closed, HandlerIdle
  <2> QED
    BY <1>4, <1>5, <2>1, <2>2, NothingPlaced
<1>17. CASE SrvIgnore(c)
  <2>1. handler'[c] = h /\ c2s[c] # <<>> /\ c2s'[c] = Tail(c2s[c])
    BY <1>1, <1>17 DEF SrvIgnore, Consume, h
  <2> QED
    BY <1>2, <1>5, <2>1
<1>18. CASE SrvExit(c) \/ SrvKilled(c)
  <2>1. handler'[c] = HandlerNone /\ c2s'[c] = <<>>
    BY <1>1, <1>18 DEF SrvExit, SrvKilled
  <2> QED
    BY <1>4, <1>5, <2>1, NothingPlaced
<1>19. CASE SrvBreakDownload(c)
  <2>1. \/ ReplyAt(c, Left, [Closed(h) EXCEPT !.sync = FALSE], c2s[c])
        \/ ReplyAt(c, Left, Closed(h), <<>>)
    BY <1>19, ReplyHere DEF SrvBreakDownload, h
  <2>2. [Closed(h) EXCEPT !.sync = FALSE].data = <<>>
    BY DEF Closed, HandlerIdle
  <2> QED
    BY <1>4, <1>5, <2>1, <2>2, NothingPlaced DEF ReplyAt
<1> QED
  BY <1>8, <1>9, <1>10, <1>11, <1>12, <1>13, <1>14, <1>15, <1>16, <1>17, <1>18, <1>19
  DEF HandlerStep

-----------------------------------------------------------------------------
(* The theorems. *)

\* The client's steps leave the storage and the open files alone.
LEMMA ClientSound ==
  ASSUME TypeOK, OpenLinked, NEW c \in Conn, UploadStep(c) \/ UserStep(c)
  PROVE  TypeOK' /\ OpenLinked' /\ (StoredInPlace => StoredInPlace')
<1>1. TypeOK'
  BY ClientTyped
<1>2. UNCHANGED disk
  BY DEF UploadStep, UserStep, ClientRes, SendChunk, SendComplete, ClientAck,
         ClientFinal, ClientLost, Connect, StartUpload, ClientAbort, ClientQuit,
         ClientKilled, ClientInvalid, LeaveUnread
<1>3. StoredInPlace => StoredInPlace'
  BY <1>2 DEF StoredInPlace
<1>4. CASE Connect(c)
  <2>1. PICK b \in BOOLEAN : handler' = [handler EXCEPT ![c] = HandlerIdle(b)]
    BY <1>4 DEF Connect
  <2>2. HandlerIdle(b).file = "none"
    BY DEF HandlerIdle
  <2>3. \A d \in Conn : handler'[d].file \in {"none", handler[d].file}
    BY <2>1, <2>2 DEF TypeOK
  <2> QED
    BY <1>1, <1>2, <1>3, <2>3 DEF OpenLinked
<1>5. CASE UNCHANGED handler
  BY <1>1, <1>2, <1>3, <1>5 DEF OpenLinked
<1>6. CASE LeaveUnread(c)
  <2>1. handler[c] \in HandlerState
    BY DEF TypeOK
  <2>2. [handler[c] EXCEPT !.pc = "down"].file = handler[c].file
    BY <2>1 DEF HandlerState
  <2>3. \A b \in BOOLEAN : HandlerIdle(b).file = "none"
    BY DEF HandlerIdle
  <2>4. \A d \in Conn : handler'[d].file \in {"none", handler[d].file}
    BY <1>6, <2>2, <2>3 DEF LeaveUnread, TypeOK
  <2> QED
    BY <1>1, <1>2, <1>3, <2>4 DEF OpenLinked
<1> QED
  BY <1>4, <1>5, <1>6 DEF UploadStep, UserStep, ClientRes, SendChunk, SendComplete,
         ClientAck, ClientFinal, ClientLost, StartUpload, ClientAbort, ClientQuit,
         ClientKilled, ClientInvalid

Step(c) == UploadStep(c) \/ UserStep(c) \/ HandlerStep(c) \/ SrvKilled(c)

\* A step of one connection touches no other, except that a rename moves the
\* file under its open handlers.
Apart(d) ==
  /\ client'[d] = client[d] /\ c2s'[d] = c2s[d] /\ s2c'[d] = s2c[d]
  /\ handler'[d].pc = handler[d].pc /\ handler'[d].sync = handler[d].sync
  /\ handler'[d].at = handler[d].at /\ handler'[d].data = handler[d].data

LEMMA OthersApart ==
  ASSUME TypeOK, NEW c \in Conn, Step(c), NEW d \in Conn, d # c
  PROVE  Apart(d)
<1>1. CASE UploadStep(c) \/ UserStep(c)
  BY <1>1 DEF UploadStep, UserStep, ClientRes, SendChunk, SendComplete, ClientAck,
         ClientFinal, ClientLost, Connect, StartUpload, ClientAbort, ClientQuit,
         ClientKilled, ClientInvalid, LeaveUnread, Received, Apart, TypeOK
<1>2. ASSUME NEW h, UNCHANGED client, NEW a, NEW q, ReplyLeaving(c, a, h, q)
      PROVE  Apart(d)
  BY <1>2 DEF ReplyLeaving, Apart, TypeOK
<1>3. CASE SrvPublish(c)
  <2>1. UNCHANGED client
    BY <1>3 DEF SrvPublish
  <2>2. CASE Reply(c, Res(1, handler[c].off), Closed(handler[c]))
    BY <1>2, <2>1, <2>2 DEF Reply
  <2>3. ASSUME NEW g, handler' = [Renamed(NameOf[c], handler) EXCEPT ![c] = g]
        PROVE  /\ handler'[d].pc = handler[d].pc /\ handler'[d].sync = handler[d].sync
               /\ handler'[d].at = handler[d].at /\ handler'[d].data = handler[d].data
    <3>1. handler'[d] = Renamed(NameOf[c], handler)[d]
      BY <2>3 DEF Renamed
    <3>2. handler'[d] \in {handler[d], [handler[d] EXCEPT !.file = "final"],
                           [handler[d] EXCEPT !.file = "gone"]}
      BY <3>1, RenamedTyped
    <3>3. handler[d] \in HandlerState
      BY DEF TypeOK
    <3> QED
      BY <3>2, <3>3 DEF HandlerState
  <2>4. CASE /\ \E g : handler' = [Renamed(NameOf[c], handler) EXCEPT ![c] = g]
             /\ s2c'[d] = s2c[d] /\ c2s'[d] = c2s[d]
    BY <2>1, <2>3, <2>4 DEF Apart
  <2> QED
    BY <1>3, <2>2, <2>4 DEF SrvPublish, Consume, TypeOK
<1>4. CASE SrvRequest(c) \/ SrvOpen(c) \/ SrvOpenFails(c) \/ SrvChunk(c)
           \/ SrvNack(c) \/ SrvFinish(c) \/ SrvBreakDownload(c)
  BY <1>2, <1>4 DEF SrvRequest, SrvOpen, SrvOpenFails, SrvChunk, SrvNack, SrvFinish,
                    SrvBreakDownload, Reply, Apart, TypeOK
<1>5. CASE SrvWriteFails(c) \/ SrvBreak(c) \/ SrvIgnore(c) \/ SrvExit(c) \/ SrvKilled(c)
  BY <1>5 DEF SrvWriteFails, SrvBreak, SrvIgnore, SrvExit, SrvKilled, Consume, Apart, TypeOK
<1> QED
  BY <1>1, <1>3, <1>4, <1>5 DEF Step, HandlerStep

LEMMA ApartKeeps ==
  ASSUME NEW d \in Conn, Apart(d)
  PROVE  /\ InStepAt(d) => InStepAt(d)'
         /\ PlacedAt(d) => PlacedAt(d)'
<1>1. ASSUME InStepAt(d) PROVE InStepAt(d)'
  <2>1. OneAnswer(d)'
    BY <1>1 DEF Apart, InStepAt, OneAnswer
  <2>2. OneQuestion(d)'
    BY <1>1 DEF Apart, InStepAt, OneQuestion
  <2>3. OutOfStep(d)'
    BY <1>1 DEF Apart, InStepAt, OutOfStep
  <2> QED
    BY <1>1, <2>1, <2>2, <2>3 DEF Apart, InStepAt
<1>2. PlacedAt(d) => PlacedAt(d)'
  BY DEF Apart, PlacedAt
<1> QED
  BY <1>1, <1>2

LEMMA Initially == Init => IInv
<1> SUFFICES ASSUME Init PROVE IInv
  OBVIOUS
<1>1. TypeOK
  BY Starts, EmptyTyped, UploadAssumption DEF Init, TypeOK, File
<1>2. \A c \in Conn : /\ client[c].pc = "off" /\ handler[c].pc = "none"
                      /\ handler[c].file = "none" /\ handler[c].data = <<>>
                      /\ c2s[c] = <<>> /\ s2c[c] = <<>> /\ client[c].sync
  BY DEF Init, ClientOff, HandlerNone, HandlerIdle
<1>3. \A c \in Conn : Len(c2s[c]) = 0 /\ Len(s2c[c]) = 0
  <2>1. Len(<<>>) = 0
    OBVIOUS
  <2> QED
    BY <1>2, <2>1, Zenon
<1>4. OpenLinked
  BY <1>2 DEF OpenLinked
<1>5. InStep
  <2> SUFFICES ASSUME NEW c \in Conn PROVE InStepAt(c)
    BY DEF InStep
  <2>1. OneAnswer(c)
    BY <1>2, <1>3 DEF OneAnswer
  <2>2. OneQuestion(c)
    BY <1>2, <1>3 DEF OneQuestion
  <2>3. OutOfStep(c)
    BY <1>2 DEF OutOfStep
  <2> QED
    BY <1>2, <2>1, <2>2, <2>3 DEF InStepAt
<1>6. AllPlaced
  <2> SUFFICES ASSUME NEW c \in Conn PROVE PlacedAt(c)
    BY DEF AllPlaced
  <2>1. Placed(handler[c].data, handler[c].at)
    BY <1>2, NothingPlaced
  <2>2. 1..Len(c2s[c]) = {}
    BY <1>3
  <2> QED
    BY <2>1, <2>2 DEF PlacedAt
<1>7. StoredInPlace
  BY DEF Init, StoredInPlace
<1> QED
  BY <1>1, <1>4, <1>5, <1>6, <1>7 DEF IInv

LEMMA Inductive == IInv /\ [Next]_vars => IInv'
<1> SUFFICES ASSUME IInv, [Next]_vars PROVE IInv'
  OBVIOUS
<1>1. TypeOK /\ OpenLinked /\ InStep /\ AllPlaced /\ StoredInPlace
  BY DEF IInv
<1>2. CASE UNCHANGED vars
  <2>1. TypeOK' /\ OpenLinked' /\ StoredInPlace'
    BY <1>1, <1>2 DEF vars, TypeOK, OpenLinked, StoredInPlace
  <2>2. \A d \in Conn : Apart(d)
    BY <1>2 DEF vars, Apart
  <2> QED
    BY <1>1, <2>1, <2>2, ApartKeeps DEF IInv, InStep, AllPlaced
<1>3. CASE Next
  <2>1. PICK c \in Conn : Step(c)
    BY <1>3 DEF Next, Step
  <2>2. TypeOK' /\ OpenLinked' /\ StoredInPlace'
    <3>1. CASE UploadStep(c) \/ UserStep(c)
      BY <1>1, <3>1, ClientSound
    <3>2. CASE HandlerStep(c) \/ SrvKilled(c)
      BY <1>1, <3>2, HandlerSound DEF Sound
    <3> QED
      BY <2>1, <3>1, <3>2 DEF Step
  <2>3. InStepAt(c) /\ PlacedAt(c)
    BY <1>1 DEF InStep, AllPlaced
  <2>4. InStepAt(c)' /\ PlacedAt(c)'
    <3>1. CASE UploadStep(c) \/ UserStep(c)
      BY <1>1, <2>3, <3>1, ClientInStep, ClientPlaced
    <3>2. CASE HandlerStep(c) \/ SrvKilled(c)
      BY <1>1, <2>3, <3>2, HandlerInStep, HandlerPlaced
    <3> QED
      BY <2>1, <3>1, <3>2 DEF Step
  <2>5. ASSUME NEW d \in Conn, d # c PROVE InStepAt(d)' /\ PlacedAt(d)'
    <3>1. InStepAt(d) /\ PlacedAt(d)
      BY <1>1 DEF InStep, AllPlaced
    <3> QED
      BY <1>1, <2>1, <2>5, <3>1, OthersApart, ApartKeeps
  <2> QED
    BY <2>2, <2>4, <2>5 DEF IInv, InStep, AllPlaced
<1> QED
  BY <1>2, <1>3 DEF Next

\* Whatever the connections, versions, sizes and failures, the strengthened
\* invariant of UploadInv holds: it is initial and every step keeps it.
THEOREM Invariance == Spec => []IInv
<1>1. Init => IInv
  BY Initially
<1>2. IInv /\ [Next]_vars => IInv'
  BY Inductive
<1> QED
  BY <1>1, <1>2, PTL DEF Spec

\* The client, its handler, the messages and the files keep their types.
THEOREM TypeCorrect == Spec => []TypeOK
<1>1. IInv => TypeOK
  BY DEF IInv
<1> QED
  BY <1>1, Invariance, PTL

\* The bytes stored under a path are in place whatever the connections that
\* write there do, and whatever fails (server.c:470-488, 446-468, 378-424).
THEOREM InPlace == Spec => []StoredInPlace
<1>1. IInv => StoredInPlace
  BY DEF IInv
<1> QED
  BY <1>1, Invariance, PTL

\* Every chunk on its way carries the bytes its offset names: the fseek after a
\* NACK and the resume point keep f and cur_offset together (client.c:156-229).
THEOREM ChunksAligned == Spec => []InTransitAligned
<1>1. IInv => InTransitAligned
  BY DEF IInv, AllPlaced, PlacedAt, Placed, InTransitAligned
<1> QED
  BY <1>1, Invariance, PTL

\* A client whose upload meets nothing stale reads the kind of answer it waits
\* for, even after a short read put the handler out of step; bytes an earlier
\* command left on the connection end the upload at its first answer
\* (client.c:114; 199 and 256 do not fire).
THEOREM DialogueKept == Spec => []ReplyExpected
<1>1. IInv => ReplyExpected
  <2> SUFFICES ASSUME IInv, NEW c \in Conn
               PROVE  /\ client[c].sync /\ s2c[c] # <<>> =>
                           /\ Len(s2c[c]) = 1
                           /\ client[c].pc \in (IF Head(s2c[c]).t = "res"
                                              THEN {"req", "fin"} ELSE {"ack"})
                      /\ client[c].pc \in {"send", "ack", "fin"} => client[c].sync
    BY DEF ReplyExpected
  <2>1. OneAnswer(c) /\ OutOfStep(c)
    BY DEF IInv, InStep, InStepAt
  <2> QED
    BY <2>1 DEF OneAnswer, OutOfStep
<1> QED
  BY <1>1, Invariance, PTL
=============================================================================
