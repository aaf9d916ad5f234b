-------------------------- MODULE StagedUpload_proof --------------------------
(***************************************************************************)
(* One connection for each path, and no I/O errors: the upload implements   *)
(* the staged file, and what is acknowledged, published and reported is     *)
(* there.  For any paths, versions, sizes, buffers and other failures.      *)
(***************************************************************************)
EXTENDS Upload_proof

Lengths == {Size[v] : v \in Version}
Solid(f) == \A i \in 1..Len(f) : f[i] # Hole

\* No file that is linked has a hole, and none is published before its length.
WholeFile(f) ==
  /\ f.part # NoFile => Solid(f.part)
  /\ f.final # NoFile => Solid(f.final) /\ Len(f.final) \in Lengths

\* The .part is as long as the handler takes it to be: what stdio still
\* buffers belongs at its end, and cur_offset counts both.
Exact(h, p) ==
  /\ h.pc # "chunk" => h.file = "none" /\ h.data = <<>>
  /\ h.pc \in {"open", "chunk", "publish"} => h.size \in Lengths
  /\ h.pc = "open" => /\ h.exists <=> p # NoFile
                      /\ p # NoFile => h.old = Len(p)
  /\ h.pc = "chunk" => /\ h.file = "part" /\ p # NoFile
                       /\ h.data # <<>> => h.at = Len(p)
                       /\ h.off = Len(p) + Len(h.data)
  /\ h.pc = "publish" => p # NoFile /\ h.off = h.size /\ Len(p) = h.size

\* In step, client and handler k and h agree on the offset and on the size, the
\* question q and the answer r on their way counted in.
Agreed(k, h, q, r) ==
  /\ h.pc = "open" /\ q # <<>> => Head(q).size = h.size
  /\ q # <<>> /\ Head(q).t = "req" /\ k.pc = "req" => Head(q).size = k.size
  /\ h.pc = "chunk" =>
       /\ q # <<>> /\ Head(q).t = "chunk" => Head(q).at = h.off
       /\ k.pc = "req" /\ r # <<>> => Head(r).off = h.off
       /\ k.pc = "send" => k.off = h.off
       /\ k.pc = "ack" => (IF r # <<>> /\ Head(r).status = 0
                           THEN Head(r).off ELSE k.off) = h.off
  /\ h.pc \in {"chunk", "publish"} /\ k.pc \in Busy =>
       k.size = h.size \/ (q # <<>> /\ Head(q).t = "req")

\* What the user is told, or is about to be, about the final file f.
Told(k, r, f) ==
  k.report = "ok" \/ (k.pc = "fin" /\ r # <<>> /\ Head(r).status = 0) =>
    f # NoFile /\ Len(f) = k.size

Announced(q) == \A i \in 1..Len(q) : q[i].t = "req" => q[i].size \in Lengths

Right(k, h, q, r, f) ==
  /\ Exact(h, f.part)
  /\ h.sync /\ k.sync => Agreed(k, h, q, r)
  /\ k.report = "ok" => k.pc = "prompt"
  /\ Told(k, r, f.final)
  /\ Announced(q)

StagedInv ==
  /\ \A n \in Name : WholeFile(disk[n])
  /\ \A c \in Conn : Right(client[c], handler[c], c2s[c], s2c[c], disk[NameOf[c]])
-----------------------------------------------------------------------------
(* The disk *)

\* q is p with bytes appended.
Extends(p, q) == Len(q) >= Len(p) /\ \A i \in 1..Len(p) : q[i] = p[i]

\* A write at the end of a file appends, and leaves no hole.
LEMMA WriteAppends ==
  ASSUME NEW p \in Seq(Byte), NEW d \in Seq(Datum), Solid(p)
  PROVE  LET q == WriteAt(p, Len(p), d) IN
         /\ q \in Seq(Byte) /\ q # NoFile /\ Solid(q)
         /\ Len(q) = Len(p) + Len(d) /\ Extends(p, q)
<1> DEFINE q == WriteAt(p, Len(p), d)
<1>1. d \in Seq(Byte) /\ Len(p) \in Nat /\ Len(d) \in Nat
  BY DEF Byte
<1>2. q \in Seq(Byte) /\ Len(q) = Len(p) + Len(d)
  <2>1. q \in Seq(Byte) /\ Len(q) = Most(Len(p), Len(p) + Len(d))
    BY <1>1, WriteAtFacts
  <2> QED
    BY <1>1, <2>1 DEF Most
<1>3. \A i \in 1..Len(p) + Len(d) :
        /\ i \in (Len(p) + 1)..(Len(p) + Len(d)) => q[i] = d[i - Len(p)]
        /\ i \notin (Len(p) + 1)..(Len(p) + Len(d)) /\ i <= Len(p) => q[i] = p[i]
  <2>1. Most(Len(p), Len(p) + Len(d)) = Len(p) + Len(d)
    BY <1>1 DEF Most
  <2>2. \A i \in 1..Most(Len(p), Len(p) + Len(d)) :
          /\ i \in (Len(p) + 1)..(Len(p) + Len(d)) => q[i] = d[i - Len(p)]
          /\ i \notin (Len(p) + 1)..(Len(p) + Len(d)) /\ i <= Len(p) => q[i] = p[i]
    BY <1>1, WriteAtFacts
  <2> QED
    BY <2>1, <2>2
<1> HIDE DEF q
<1>4. \A i \in 1..Len(p) : q[i] = p[i]
  BY <1>1, <1>3
<1>5. \A j \in 1..Len(d) : d[j] # Hole
  BY UploadAssumption
<1>6. \A i \in 1..Len(q) : q[i] # Hole
  <2> SUFFICES ASSUME NEW i \in 1..Len(q) PROVE q[i] # Hole
    OBVIOUS
  <2>1. CASE i <= Len(p)
    BY <1>1, <1>2, <1>4, <2>1 DEF Solid
  <2>2. CASE ~(i <= Len(p))
    <3>1. i - Len(p) \in 1..Len(d) /\ i \in (Len(p) + 1)..(Len(p) + Len(d))
      BY <1>1, <1>2, <2>2
    <3> QED
      BY <1>1, <1>2, <1>3, <1>5, <3>1
  <2> QED
    BY <2>1, <2>2
<1>7. q # NoFile
  BY <1>2, UploadAssumption
<1> QED
  BY <1>1, <1>2, <1>4, <1>6, <1>7 DEF Extends, Solid, q

\* What a write at the end of the .part of n may leave behind: the .part is a
\* file of l bytes that extends the one in dk.
Longer(dk, dk2, n, l) ==
  \E q \in Seq(Byte) : /\ q # NoFile /\ Solid(q) /\ Len(q) = l
                       /\ Extends(dk[n].part, q)
                       /\ dk2 = [dk EXCEPT ![n].part = q]

LEMMA PutAppends ==
  ASSUME NEW dk \in Disk, NEW n \in Name, dk[n].part # NoFile, WholeFile(dk[n]),
         NEW at \in Nat, NEW d \in Seq(Datum), d # <<>> => at = Len(dk[n].part)
  PROVE  Longer(dk, Put(n, "part", at, d, dk), n, Len(dk[n].part) + Len(d))
<1>1. dk[n].part \in Seq(Byte) /\ Solid(dk[n].part) /\ Len(dk[n].part) \in Nat
  BY DEF Disk, File, WholeFile
<1>2. CASE d = <<>>
  <2>1. Put(n, "part", at, d, dk) = [dk EXCEPT ![n].part = dk[n].part]
    BY <1>2 DEF Put, Disk
  <2>2. Len(dk[n].part) = Len(dk[n].part) + Len(d)
    BY <1>1, <1>2
  <2>3. Extends(dk[n].part, dk[n].part)
    BY <1>1 DEF Extends
  <2> QED
    BY <1>1, <2>1, <2>2, <2>3 DEF Longer
<1>3. CASE d # <<>>
  <2> DEFINE q == WriteAt(dk[n].part, Len(dk[n].part), d)
  <2>1. Put(n, "part", at, d, dk) = [dk EXCEPT ![n].part = q]
    BY <1>3 DEF Put
  <2>2. /\ q \in Seq(Byte) /\ q # NoFile /\ Solid(q)
        /\ Len(q) = Len(dk[n].part) + Len(d) /\ Extends(dk[n].part, q)
    BY <1>1, WriteAppends
  <2> HIDE DEF q
  <2> QED
    BY <2>1, <2>2 DEF Longer
<1> QED
  BY <1>2, <1>3

\* What a longer .part means for the disk.
LEMMA LongerFacts ==
  ASSUME NEW dk \in Disk, NEW n \in Name, WholeFile(dk[n]), NEW l \in Nat,
         NEW dk2, Longer(dk, dk2, n, l)
  PROVE  /\ dk2 \in Disk /\ WholeFile(dk2[n])
         /\ dk2[n].part # NoFile /\ Len(dk2[n].part) = l
         /\ Extends(dk[n].part, dk2[n].part) /\ dk2[n].final = dk[n].final
         /\ dk2 = [dk EXCEPT ![n].part = dk2[n].part]
         /\ \A x \in Name : x # n => dk2[x] = dk[x]
<1>1. PICK q \in Seq(Byte) : /\ q # NoFile /\ Solid(q) /\ Len(q) = l
                             /\ Extends(dk[n].part, q)
                             /\ dk2 = [dk EXCEPT ![n].part = q]
  BY DEF Longer
<1>2. dk2[n].part = q /\ dk2[n].final = dk[n].final
  BY <1>1 DEF Disk
<1>3. dk2 \in Disk /\ \A x \in Name : x # n => dk2[x] = dk[x]
  BY <1>1 DEF Disk, File
<1>4. WholeFile(dk2[n])
  BY <1>1, <1>2 DEF WholeFile
<1> QED
  BY <1>1, <1>2, <1>3, <1>4

LEMMA LongerTwice ==
  ASSUME NEW dk \in Disk, NEW n \in Name, WholeFile(dk[n]), dk[n].part # NoFile,
         NEW l \in Nat, NEW l2 \in Nat,
         NEW dk1, Longer(dk, dk1, n, l), NEW dk2, Longer(dk1, dk2, n, l2)
  PROVE  Longer(dk, dk2, n, l2)
<1>1. /\ dk1 \in Disk /\ dk1[n].part # NoFile /\ Extends(dk[n].part, dk1[n].part)
      /\ Len(dk1[n].part) = l /\ dk1 = [dk EXCEPT ![n].part = dk1[n].part]
  BY LongerFacts
<1>2. PICK q \in Seq(Byte) : /\ q # NoFile /\ Solid(q) /\ Len(q) = l2
                             /\ Extends(dk1[n].part, q)
                             /\ dk2 = [dk1 EXCEPT ![n].part = q]
  BY DEF Longer
<1>3. dk[n].part \in Seq(Byte) /\ Len(dk[n].part) \in Nat
  BY DEF Disk, File
<1>4. Extends(dk[n].part, q)
  BY <1>1, <1>2, <1>3 DEF Extends
<1>5. dk2 = [dk EXCEPT ![n].part = q]
  <2>1. dk1 \in [Name -> [part : File, final : File]] /\ dk \in [Name -> [part : File, final : File]]
    BY <1>1 DEF Disk
  <2> QED
    BY <1>1, <1>2, <2>1
<1> QED
  BY <1>2, <1>4, <1>5 DEF Longer

-----------------------------------------------------------------------------
(* One connection *)

LEMMA Here ==
  ASSUME IInv, StagedInv, NEW c \in Conn
  PROVE  /\ NameOf[c] \in Name /\ disk \in Disk /\ WholeFile(disk[NameOf[c]])
         /\ client[c] \in ClientState /\ handler[c] \in HandlerState
         /\ c2s[c] \in Seq(ToServer) /\ s2c[c] \in Seq(ToClient)
         /\ Right(client[c], handler[c], c2s[c], s2c[c], disk[NameOf[c]])
         /\ InStepAt(c)
BY UploadAssumption DEF IInv, TypeOK, InStep, StagedInv, Disk

\* A step touches one connection and, where no other shares it, one path.
LEMMA Local ==
  ASSUME Exclusive, IInv, StagedInv, NEW c \in Conn,
         \A d \in Conn : d # c =>
           /\ client'[d] = client[d] /\ handler'[d] = handler[d]
           /\ c2s'[d] = c2s[d] /\ s2c'[d] = s2c[d],
         \A n \in Name : n # NameOf[c] => disk'[n] = disk[n],
         WholeFile(disk'[NameOf[c]]),
         Right(client'[c], handler'[c], c2s'[c], s2c'[c], disk'[NameOf[c]])
  PROVE  StagedInv'
<1>1. \A n \in Name : WholeFile(disk'[n])
  <2> SUFFICES ASSUME NEW n \in Name PROVE WholeFile(disk'[n])
    OBVIOUS
  <2> QED
    BY DEF StagedInv
<1>2. ASSUME NEW d \in Conn
      PROVE  Right(client'[d], handler'[d], c2s'[d], s2c'[d], disk'[NameOf[d]])
  <2>1. CASE d # c
    <3>1. NameOf[d] # NameOf[c] /\ NameOf[d] \in Name
      BY <2>1, UploadAssumption DEF Exclusive
    <3> QED
      BY <2>1, <3>1 DEF StagedInv
  <2> QED
    BY <2>1
<1> QED
  BY <1>1, <1>2 DEF StagedInv

\* While the client is in step, there is one message on its way at most.
LEMMA OneMessage ==
  ASSUME NEW c \in Conn, TypeOK, InStepAt(c), client[c].sync
  PROVE  /\ handler[c].pc = "none" => c2s[c] = <<>>
         /\ s2c[c] # <<>> => Tail(s2c[c]) = <<>>
         /\ client[c].pc \in {"off", "prompt", "send"} => s2c[c] = <<>>
         /\ handler[c].sync =>
              /\ client[c].pc \in {"prompt", "send"} => c2s[c] = <<>>
              /\ handler[c].pc \in {"open", "publish"} => c2s[c] # <<>>
              /\ c2s[c] # <<>> => s2c[c] = <<>> /\ Tail(c2s[c]) = <<>>
         /\ handler[c].pc \in {"open", "publish"} => handler[c].sync
<1>1. c2s[c] \in Seq(ToServer) /\ s2c[c] \in Seq(ToClient)
  BY DEF TypeOK
<1>2. \A t : Waiting(t) \notin {"prompt", "send"}
  BY DEF Waiting
<1>3. /\ handler[c].pc = "none" => c2s[c] = <<>>
      /\ client[c].pc \in {"off", "prompt", "send"} => s2c[c] = <<>>
      /\ handler[c].pc \in {"open", "publish"} => handler[c].sync /\ c2s[c] # <<>>
  BY DEF InStepAt, OneAnswer, OneQuestion
<1>4. s2c[c] # <<>> => Tail(s2c[c]) = <<>>
  <2>1. s2c[c] # <<>> => Len(s2c[c]) = 1
    BY DEF InStepAt, OneAnswer
  <2>2. s2c[c] # <<>> => Len(s2c[c]) <= 1
    <3>1. 1 <= 1
      OBVIOUS
    <3> QED
      BY <2>1, <3>1, Zenon
  <2> QED
    BY <1>1, <2>2, TailFacts
<1>5. handler[c].sync /\ c2s[c] # <<>> => Tail(c2s[c]) = <<>>
  <2>1. handler[c].sync => Len(c2s[c]) <= 1
    BY DEF InStepAt, OneQuestion
  <2> QED
    BY <1>1, <2>1, TailFacts
<1>6. handler[c].sync /\ c2s[c] # <<>> => s2c[c] = <<>>
  BY DEF InStepAt, OneAnswer
<1>7. handler[c].sync /\ client[c].pc \in {"prompt", "send"} => c2s[c] = <<>>
  BY <1>2 DEF InStepAt, OneQuestion
<1> QED
  BY <1>3, <1>4, <1>5, <1>6, <1>7

\* A client out of step is in no upload, and its handler reads requests alone.
LEMMA OutOfStepFacts ==
  ASSUME NEW c \in Conn, TypeOK, InStepAt(c), ~client[c].sync
  PROVE  /\ client[c].pc \in {"off", "prompt", "req"}
         /\ c2s[c] # <<>> => Head(c2s[c]).t \in {"req", "exit"}
         /\ handler[c].pc # "publish"
<1>1. /\ client[c].pc \in {"off", "prompt", "req"} /\ c2s[c] \in Seq(ToServer)
      /\ \A i \in 1..Len(c2s[c]) : c2s[c][i].t \in {"req", "exit"}
      /\ handler[c].pc = "publish" => c2s[c] # <<>> /\ Head(c2s[c]).t = "complete"
  BY DEF TypeOK, InStepAt, OutOfStep, OneQuestion
<1> QED
  BY <1>1, RequestsAlone

LEMMA AnnouncedAppend ==
  ASSUME NEW q \in Seq(ToServer), Announced(q), NEW m \in ToServer,
         m.t = "req" => m.size \in Lengths
  PROVE  Announced(Append(q, m))
<1>1. /\ Len(Append(q, m)) = Len(q) + 1 /\ Len(q) \in Nat
      /\ \A i \in 1..Len(q) : Append(q, m)[i] = q[i]
      /\ Append(q, m)[Len(q) + 1] = m
  BY AppendProperties
<1>2. ASSUME NEW i \in 1..Len(q) + 1
      PROVE  Append(q, m)[i].t = "req" => Append(q, m)[i].size \in Lengths
  <2>1. CASE i \in 1..Len(q)
    BY <1>1, <2>1 DEF Announced
  <2>2. CASE i = Len(q) + 1
    BY <1>1, <2>2
  <2> QED
    BY <1>1, <2>1, <2>2
<1> QED
  BY <1>1, <1>2 DEF Announced

LEMMA AnnouncedTail ==
  ASSUME NEW q \in Seq(ToServer), Announced(q), q # <<>>
  PROVE  Announced(Tail(q)) /\ (Head(q).t = "req" => Head(q).size \in Lengths)
<1>1. /\ Len(q) \in Nat \ {0} /\ Len(Tail(q)) = Len(q) - 1
      /\ \A i \in 1..Len(Tail(q)) : Tail(q)[i] = q[i + 1]
      /\ Head(q) = q[1]
  BY HeadTailProperties, EmptySeq
<1>2. \A i \in 1..Len(q) - 1 : i + 1 \in 1..Len(q)
  BY <1>1
<1> QED
  BY <1>1, <1>2 DEF Announced

-----------------------------------------------------------------------------
(* The client *)

\* A step of the client, after which it is k with q and r on their way.
LEMMA ClientLocal ==
  ASSUME Exclusive, IInv, StagedInv, NEW c \in Conn, NEW k, NEW q, NEW r,
         client' = [client EXCEPT ![c] = k], c2s' = [c2s EXCEPT ![c] = q],
         s2c' = [s2c EXCEPT ![c] = r], UNCHANGED <<handler, disk>>,
         handler[c].sync /\ k.sync => Agreed(k, handler[c], q, r),
         k.report = "ok" => k.pc = "prompt",
         Told(k, r, disk[NameOf[c]].final), Announced(q)
  PROVE  StagedInv'
<1>1. /\ client'[c] = k /\ c2s'[c] = q /\ s2c'[c] = r
      /\ \A d \in Conn : d # c => /\ client'[d] = client[d] /\ c2s'[d] = c2s[d]
                                  /\ s2c'[d] = s2c[d]
  BY DEF IInv, TypeOK
<1>2. Right(k, handler[c], q, r, disk[NameOf[c]])
  BY Here DEF Right
<1>3. WholeFile(disk[NameOf[c]])
  BY Here
<1> QED
  BY <1>1, <1>2, <1>3, Local

\* The fields a client's record has once it is back at the prompt, or gone.
LEMMA BackFacts ==
  /\ \A k, r : /\ Returned(k, r).pc = "prompt" /\ Returned(k, r).report = r
               /\ Returned(k, r).size = k.size /\ Returned(k, r).sync = k.sync
  /\ \A k : Off(k).pc = "off" /\ Off(k).report = "none" /\ Off(k).sync = k.sync
  /\ ClientOff.pc = "off" /\ ClientOff.report = "none"
BY DEF Returned, Off, ClientOff

\* A client out of step learns nothing of the file and announces what it has.
LEMMA ClientAstrayStaged ==
  ASSUME Exclusive, IInv, StagedInv, NEW c \in Conn, ~client[c].sync,
         UploadStep(c) \/ UserStep(c), ~Connect(c)
  PROVE  StagedInv'
<1> DEFINE k == client[c]
           q == c2s[c]
           r == s2c[c]
<1>1. /\ k \in ClientState /\ q \in Seq(ToServer)
      /\ client = [client EXCEPT ![c] = k] /\ c2s = [c2s EXCEPT ![c] = q]
      /\ s2c = [s2c EXCEPT ![c] = r]
  BY Here DEF IInv, TypeOK
<1>2. k.pc \in {"off", "prompt", "req"} /\ ~k.sync
  BY Here, OutOfStepFacts DEF IInv
<1>3. Announced(q)
  BY Here DEF Right
<1> HIDE DEF k, q, r
<1>4. ASSUME NEW k2, ~k2.sync, k2.report # "ok", k2.pc # "fin",
             NEW q2, Announced(q2), NEW r2,
             client' = [client EXCEPT ![c] = k2], c2s' = [c2s EXCEPT ![c] = q2],
             s2c' = [s2c EXCEPT ![c] = r2], UNCHANGED <<handler, disk>>
      PROVE  StagedInv'
  <2>1. Told(k2, r2, disk[NameOf[c]].final)
    BY <1>4 DEF Told
  <2> QED
    BY <1>4, <2>1, ClientLocal
<1>5. CASE StartUpload(c)
  <2>1. PICK v \in Version :
          /\ client' = [client EXCEPT ![c] =
               [@ EXCEPT !.pc = "req", !.ver = v, !.size = Size[v], !.report = "none"]]
          /\ c2s' = [c2s EXCEPT ![c] = Append(@, Req(Size[v]))]
    BY <1>5 DEF StartUpload
  <2> DEFINE k2 == [k EXCEPT !.pc = "req", !.ver = v, !.size = Size[v],
                             !.report = "none"]
             m == Req(Size[v])
  <2>2. client' = [client EXCEPT ![c] = k2] /\ c2s' = [c2s EXCEPT ![c] = Append(q, m)]
    BY <2>1 DEF k, q, IInv, TypeOK
  <2>3. k2.pc = "req" /\ ~k2.sync /\ k2.report = "none"
    BY <1>1, <1>2 DEF ClientState
  <2>4. m \in ToServer /\ m.t = "req" /\ m.size = Size[v] /\ Size[v] \in Lengths
    BY UploadAssumption DEF Req, ToServer, Lengths
  <2> HIDE DEF k2, m
  <2>5. Announced(Append(q, m))
    BY <1>1, <1>3, <2>4, AnnouncedAppend
  <2>6. s2c' = [s2c EXCEPT ![c] = r] /\ UNCHANGED <<handler, disk>>
    BY <1>1, <1>5 DEF StartUpload
  <2> QED
    BY <1>4, <2>2, <2>3, <2>5, <2>6
<1>6. CASE ClientInvalid(c)
  <2>1. PICK r2 \in {r, Tail(r)} : s2c' = [s2c EXCEPT ![c] = r2]
    BY <1>1, <1>6 DEF ClientInvalid, Received, r, IInv, TypeOK
  <2>2. /\ client' = [client EXCEPT ![c] = Returned(k, "err")]
        /\ c2s' = [c2s EXCEPT ![c] = q] /\ UNCHANGED <<handler, disk>>
    BY <1>1, <1>6 DEF ClientInvalid, k, IInv, TypeOK
  <2>3. /\ Returned(k, "err").pc = "prompt" /\ Returned(k, "err").report = "err"
        /\ ~Returned(k, "err").sync
    BY <1>2, BackFacts
  <2> QED
    BY <1>3, <1>4, <2>1, <2>2, <2>3
<1>7. CASE ClientLost(c)
  <2>1. PICK k2 \in {Returned(k, "err"), Off(k)} : client' = [client EXCEPT ![c] = k2]
    BY <1>7 DEF ClientLost, k
  <2>2. k2.pc # "fin" /\ k2.report # "ok" /\ ~k2.sync
    BY <1>2, BackFacts
  <2>3. /\ c2s' = [c2s EXCEPT ![c] = q] /\ s2c' = [s2c EXCEPT ![c] = r]
        /\ UNCHANGED <<handler, disk>>
    BY <1>1, <1>7 DEF ClientLost
  <2> QED
    BY <1>3, <1>4, <2>1, <2>2, <2>3
<1>8. CASE ClientQuit(c) \/ ClientKilled(c)
  <2>1. PICK q2 \in {q, Append(q, ExitReq)} : c2s' = [c2s EXCEPT ![c] = q2]
    BY <1>1, <1>8 DEF ClientQuit, ClientKilled, q, IInv, TypeOK
  <2>2. /\ client' = [client EXCEPT ![c] = Off(k)] /\ UNCHANGED <<handler, disk>>
        /\ s2c' = [s2c EXCEPT ![c] = <<>>]
    BY <1>8 DEF ClientQuit, ClientKilled, k, IInv, TypeOK
  <2>3. ExitReq \in ToServer /\ ExitReq.t = "exit"
    BY DEF ExitReq, ToServer
  <2>4. Announced(q2)
    BY <1>1, <1>3, <2>1, <2>3, AnnouncedAppend
  <2>5. Off(k).pc = "off" /\ Off(k).report = "none" /\ ~Off(k).sync
    BY <1>2, BackFacts
  <2> QED
    BY <1>4, <2>1, <2>2, <2>4, <2>5
<1> QED
  BY <1>2, <1>5, <1>6, <1>7, <1>8
     DEF UploadStep, UserStep, LeaveUnread, ClientRes, SendChunk, SendComplete,
         ClientAck, ClientFinal, ClientAbort, k

LEMMA ClientStaged ==
  ASSUME Exclusive, IInv, StagedInv, NEW c \in Conn, client[c].sync,
         UploadStep(c) \/ UserStep(c), ~Connect(c), ~LeaveUnread(c)
  PROVE  StagedInv'
<1> DEFINE k == client[c]
           h == handler[c]
           q == c2s[c]
           r == s2c[c]
           f == disk[NameOf[c]]
<1>1. /\ k \in ClientState /\ h \in HandlerState
      /\ q \in Seq(ToServer) /\ r \in Seq(ToClient)
      /\ client = [client EXCEPT ![c] = k] /\ c2s = [c2s EXCEPT ![c] = q]
      /\ s2c = [s2c EXCEPT ![c] = r]
  BY Here DEF IInv, TypeOK
<1>2. /\ h.pc = "none" => q = <<>>
      /\ r # <<>> => Tail(r) = <<>>
      /\ k.pc \in {"off", "prompt", "send"} => r = <<>>
      /\ h.sync => /\ k.pc \in {"prompt", "send"} => q = <<>>
                   /\ h.pc \in {"open", "publish"} => q # <<>>
                   /\ q # <<>> => r = <<>> /\ Tail(q) = <<>>
      /\ h.pc \in {"open", "publish"} => h.sync
  BY Here, OneMessage DEF IInv
<1>3. /\ h.sync => Agreed(k, h, q, r)
      /\ k.sync
      /\ k.report = "ok" => k.pc = "prompt"
      /\ Told(k, r, f.final) /\ Announced(q)
  BY Here DEF Right
<1> HIDE DEF k, h, q, r, f
<1>4. ASSUME NEW k2, NEW q2, NEW r2,
             client' = [client EXCEPT ![c] = k2], c2s' = [c2s EXCEPT ![c] = q2],
             s2c' = [s2c EXCEPT ![c] = r2], UNCHANGED <<handler, disk>>,
             h.sync => Agreed(k2, h, q2, r2), k2.report = "ok" => k2.pc = "prompt",
             Told(k2, r2, f.final), Announced(q2)
      PROVE  StagedInv'
  BY <1>4, ClientLocal DEF h, f
<1>5. \A m \in ToServer : /\ Head(Append(<<>>, m)) = m
                          /\ Append(<<>>, m) # <<>>
  BY QueueFacts
<1>6. CASE StartUpload(c)
  <2>1. PICK v \in Version :
          /\ client' = [client EXCEPT ![c] =
               [@ EXCEPT !.pc = "req", !.ver = v, !.size = Size[v], !.report = "none"]]
          /\ c2s' = [c2s EXCEPT ![c] = Append(@, Req(Size[v]))]
    BY <1>6 DEF StartUpload
  <2> DEFINE k2 == [k EXCEPT !.pc = "req", !.ver = v, !.size = Size[v],
                             !.report = "none"]
             m == Req(Size[v])
             q2 == Append(q, m)
  <2>2. client' = [client EXCEPT ![c] = k2] /\ c2s' = [c2s EXCEPT ![c] = q2]
    BY <2>1 DEF k, q, IInv, TypeOK
  <2>3. /\ k.pc = "prompt" /\ UNCHANGED <<handler, s2c, disk>>
    BY <1>6 DEF StartUpload, k
  <2>4. k2.pc = "req" /\ k2.size = Size[v] /\ k2.report = "none"
    BY <1>1 DEF ClientState
  <2>5. m \in ToServer /\ m.t = "req" /\ m.size = Size[v] /\ Size[v] \in Lengths
    BY UploadAssumption DEF Req, ToServer, Lengths
  <2> HIDE DEF k2, m
  <2>6. h.sync => q2 # <<>> /\ Head(q2) = m /\ h.pc \notin {"open", "publish"} /\ r = <<>>
    BY <1>2, <1>5, <2>3, <2>5
  <2>7. Announced(q2)
    BY <1>1, <1>3, <2>5, AnnouncedAppend
  <2> HIDE DEF q2
  <2>8. h.sync => Agreed(k2, h, q2, r)
    BY <2>4, <2>5, <2>6 DEF Agreed
  <2>9. Told(k2, r, f.final)
    BY <2>4 DEF Told
  <2> QED
    BY <1>1, <1>4, <2>2, <2>3, <2>4, <2>7, <2>8, <2>9
<1>7. CASE ClientRes(c)
  <2> DEFINE m == Head(r)
  <2>1. /\ k.pc = "req" /\ r # <<>> /\ UNCHANGED <<handler, c2s, disk>>
        /\ s2c' = [s2c EXCEPT ![c] = Tail(r)]
    BY <1>7 DEF ClientRes, Receive, Received, k, r, IInv, TypeOK
  <2>2. Tail(r) = <<>> /\ (h.sync => q = <<>>)
    BY <1>2, <2>1
  <2>3. CASE client' = [client EXCEPT ![c] = Returned(k, "err")]
    <3>1. h.sync => Agreed(Returned(k, "err"), h, q, <<>>)
      BY <1>2, <2>2, BackFacts DEF Agreed, Busy
    <3>2. Told(Returned(k, "err"), <<>>, f.final)
      BY BackFacts DEF Told
    <3>3. Returned(k, "err").pc = "prompt"
      BY BackFacts
    <3> QED
      BY <1>1, <1>3, <1>4, <2>1, <2>2, <2>3, <3>1, <3>2, <3>3
  <2>4. ASSUME NEW v \in Version,
               client' = [client EXCEPT ![c] =
                 [k EXCEPT !.pc = "send", !.ver = v, !.pos = m.off, !.off = m.off]]
        PROVE  StagedInv'
    <3> DEFINE k2 == [k EXCEPT !.pc = "send", !.ver = v, !.pos = m.off, !.off = m.off]
    <3>1. client' = [client EXCEPT ![c] = k2]
      BY <2>4
    <3>2. /\ k2.pc = "send" /\ k2.off = m.off /\ k2.size = k.size
          /\ k2.report = k.report
      BY <1>1 DEF ClientState
    <3> HIDE DEF k2
    <3>3. h.sync => Agreed(k2, h, q, <<>>)
      BY <1>2, <1>3, <2>1, <2>2, <3>2 DEF Agreed, Busy
    <3>4. k.report # "ok"
      BY <1>3, <2>1
    <3>5. Told(k2, <<>>, f.final)
      BY <3>2, <3>4 DEF Told
    <3> QED
      BY <1>1, <1>3, <1>4, <2>1, <2>2, <3>1, <3>2, <3>3, <3>4, <3>5
  <2> QED
    BY <1>7, <2>3, <2>4 DEF ClientRes, k, r, IInv, TypeOK
<1>8. CASE SendChunk(c)
  <2> DEFINE n == Least(BufferSize, Size[k.ver] - k.pos)
             d == SubSeq(Content(k.ver), k.pos + 1, k.pos + n)
             k2 == [k EXCEPT !.pc = "ack", !.pos = k.pos + n]
  <2>1. PICK b \in BOOLEAN : c2s' = [c2s EXCEPT ![c] = Append(q, Chunk(k.off, d, b))]
    BY <1>8 DEF SendChunk, k, q, IInv, TypeOK
  <2>2. /\ client' = [client EXCEPT ![c] = k2] /\ UNCHANGED <<handler, s2c, disk>>
        /\ k.pc = "send" /\ k.pos < Size[k.ver]
    BY <1>8 DEF SendChunk, k, IInv, TypeOK
  <2>3. /\ k2.pc = "ack" /\ k2.off = k.off /\ k2.size = k.size
        /\ k2.report = k.report
    BY <1>1 DEF ClientState
  <2> DEFINE m == Chunk(k.off, d, b)
             q2 == Append(q, m)
  <2>4. /\ k.ver \in Version /\ k.pos \in Nat /\ k.off \in Nat
        /\ Size[k.ver] \in Nat /\ BufferSize \in Nat
    BY <1>1, UploadAssumption DEF ClientState
  <2>5. n \in Nat /\ k.pos + n <= Size[k.ver]
    BY <2>2, <2>4 DEF Least
  <2>6. d \in Seq(Datum)
    BY <2>4, <2>5, SliceFacts
  <2>7. m \in ToServer /\ m.t = "chunk" /\ m.at = k.off
    BY <2>4, <2>6 DEF Chunk, ToServer
  <2>8. c2s' = [c2s EXCEPT ![c] = q2]
    BY <2>1
  <2> HIDE DEF n, d, k2, m
  <2>9. h.sync => q2 # <<>> /\ Head(q2) = m /\ q = <<>> /\ h.pc \notin {"open", "publish"}
    BY <1>2, <1>5, <2>2, <2>7
  <2>10. Announced(q2)
    BY <1>1, <1>3, <2>7, AnnouncedAppend
  <2>11. r = <<>> /\ k.report # "ok"
    BY <1>2, <1>3, <2>2
  <2> HIDE DEF q2
  <2>12. h.sync => Agreed(k2, h, q2, r)
    BY <1>3, <2>2, <2>3, <2>7, <2>9, <2>11 DEF Agreed, Busy
  <2>13. Told(k2, r, f.final)
    BY <2>3, <2>11 DEF Told
  <2> QED
    BY <1>1, <1>4, <2>2, <2>3, <2>8, <2>10, <2>11, <2>12, <2>13
<1>9. CASE SendComplete(c)
  <2> DEFINE k2 == [k EXCEPT !.pc = "fin"]
             q2 == Append(q, Complete)
  <2>1. /\ client' = [client EXCEPT ![c] = k2] /\ c2s' = [c2s EXCEPT ![c] = q2]
        /\ k.pc = "send" /\ UNCHANGED <<handler, s2c, disk>>
    BY <1>9 DEF SendComplete, k, q, IInv, TypeOK
  <2>2. k2.pc = "fin" /\ k2.size = k.size /\ k2.report = k.report
    BY <1>1 DEF ClientState
  <2>3. Complete \in ToServer /\ Complete.t = "complete"
    BY DEF Complete, ToServer
  <2> HIDE DEF k2
  <2>4. h.sync => q2 # <<>> /\ Head(q2) = Complete /\ q = <<>>
                  /\ h.pc \notin {"open", "publish"}
    BY <1>2, <1>5, <2>1, <2>3
  <2>5. Announced(q2)
    BY <1>1, <1>3, <2>3, AnnouncedAppend
  <2>6. r = <<>> /\ k.report # "ok"
    BY <1>2, <1>3, <2>1
  <2> HIDE DEF q2
  <2>7. h.sync => Agreed(k2, h, q2, r)
    BY <1>3, <2>1, <2>2, <2>3, <2>4, <2>6 DEF Agreed, Busy
  <2>8. Told(k2, r, f.final)
    BY <2>2, <2>6 DEF Told
  <2> QED
    BY <1>1, <1>4, <2>1, <2>2, <2>5, <2>6, <2>7, <2>8
<1>10. CASE ClientAck(c)
  <2> DEFINE m == Head(r)
  <2>1. /\ k.pc = "ack" /\ r # <<>> /\ UNCHANGED <<handler, c2s, disk>>
        /\ s2c' = [s2c EXCEPT ![c] = Tail(r)]
    BY <1>10 DEF ClientAck, Receive, Received, k, r, IInv, TypeOK
  <2>2. /\ Tail(r) = <<>> /\ (h.sync => q = <<>>) /\ k.report # "ok"
    BY <1>2, <1>3, <2>1
  <2>3. ASSUME NEW k2, client' = [client EXCEPT ![c] = k2],
               k2.pc = "send", k2.size = k.size, k2.report = k.report,
               k2.off = IF m.status = 0 THEN m.off ELSE k.off
        PROVE  StagedInv'
    <3>1. h.sync => Agreed(k2, h, q, <<>>)
      BY <1>2, <1>3, <2>1, <2>2, <2>3 DEF Agreed, Busy
    <3>2. Told(k2, <<>>, f.final)
      BY <2>2, <2>3 DEF Told
    <3> QED
      BY <1>1, <1>3, <1>4, <2>1, <2>2, <2>3, <3>1, <3>2
  <2>4. CASE m.status # 0 /\ client' = [client EXCEPT ![c] =
               [k EXCEPT !.pc = "send", !.pos = k.off]]
    <3> DEFINE k2 == [k EXCEPT !.pc = "send", !.pos = k.off]
    <3>1. k2.pc = "send" /\ k2.size = k.size /\ k2.report = k.report /\ k2.off = k.off
      BY <1>1 DEF ClientState
    <3>2. client' = [client EXCEPT ![c] = k2]
      BY <2>4
    <3> HIDE DEF k2, m
    <3> QED
      BY <2>3, <2>4, <3>1, <3>2
  <2>5. CASE m.status = 0 /\ client' = [client EXCEPT ![c] =
               [k EXCEPT !.pc = "send", !.off = m.off]]
    <3> DEFINE k2 == [k EXCEPT !.pc = "send", !.off = m.off]
    <3>1. k2.pc = "send" /\ k2.size = k.size /\ k2.report = k.report /\ k2.off = m.off
      BY <1>1 DEF ClientState
    <3>2. client' = [client EXCEPT ![c] = k2]
      BY <2>5
    <3> HIDE DEF k2, m
    <3> QED
      BY <2>3, <2>5, <3>1, <3>2
  <2> QED
    BY <1>10, <2>4, <2>5 DEF ClientAck, k, r, IInv, TypeOK
<1>11. CASE ClientFinal(c)
  <2>1. /\ k.pc = "fin" /\ r # <<>> /\ UNCHANGED <<handler, c2s, disk>>
        /\ s2c' = [s2c EXCEPT ![c] = Tail(r)]
    BY <1>11 DEF ClientFinal, Receive, Received, k, r, IInv, TypeOK
  <2>2. Tail(r) = <<>> /\ (h.sync => q = <<>>)
    BY <1>2, <2>1
  <2> DEFINE told == IF Head(r).status = 0 THEN "ok" ELSE "err"
  <2>3. client' = [client EXCEPT ![c] = Returned(k, told)]
    BY <1>11 DEF ClientFinal, k, r, IInv, TypeOK
  <2>4. told = "ok" => Head(r).status = 0
    OBVIOUS
  <2> HIDE DEF told
  <2>5. h.sync => Agreed(Returned(k, told), h, q, <<>>)
    BY <1>2, <2>2, BackFacts DEF Agreed, Busy
  <2>6. Told(Returned(k, told), <<>>, f.final)
    BY <1>3, <2>1, <2>4, BackFacts DEF Told
  <2>7. Returned(k, told).pc = "prompt"
    BY BackFacts
  <2> QED
    BY <1>1, <1>3, <1>4, <2>1, <2>2, <2>3, <2>5, <2>6, <2>7
<1>12. CASE ClientLost(c)
  <2>1. /\ h.pc = "none" /\ q = <<>> /\ r = <<>>
        /\ UNCHANGED <<handler, c2s, s2c, disk>>
    BY <1>2, <1>12 DEF ClientLost, Alive, h, r
  <2>2. PICK k2 \in {Returned(k, "err"), Off(k)} : client' = [client EXCEPT ![c] = k2]
    BY <1>12 DEF ClientLost, k
  <2>3. k2.pc \in {"prompt", "off"} /\ k2.report # "ok"
    BY BackFacts
  <2>4. Agreed(k2, h, q, r) /\ Told(k2, r, f.final)
    BY <2>1, <2>3 DEF Agreed, Told
  <2> QED
    BY <1>1, <1>3, <1>4, <2>1, <2>2, <2>3, <2>4
<1>13. CASE ClientAbort(c)
  <2>1. /\ k.pc = "send" /\ UNCHANGED <<handler, c2s, s2c, disk>>
        /\ client' = [client EXCEPT ![c] = Returned(k, "err")]
    BY <1>13 DEF ClientAbort, k, IInv, TypeOK
  <2>2. r = <<>> /\ (h.sync => q = <<>>)
    BY <1>2, <2>1
  <2>3. h.sync => Agreed(Returned(k, "err"), h, q, r)
    BY <1>2, <2>2, BackFacts DEF Agreed, Busy
  <2>4. Told(Returned(k, "err"), r, f.final)
    BY <2>2, BackFacts DEF Told
  <2>5. Returned(k, "err").pc = "prompt"
    BY BackFacts
  <2> QED
    BY <1>1, <1>3, <1>4, <2>1, <2>3, <2>4, <2>5
<1>14. CASE ClientQuit(c)
  <2>1. /\ k.pc = "prompt" /\ UNCHANGED <<handler, disk>>
        /\ client' = [client EXCEPT ![c] = Off(k)]
        /\ s2c' = [s2c EXCEPT ![c] = <<>>]
    BY <1>14 DEF ClientQuit, k, IInv, TypeOK
  <2>2. PICK q2 \in {q, Append(q, ExitReq)} : c2s' = [c2s EXCEPT ![c] = q2]
    BY <1>1, <1>14 DEF ClientQuit, q, IInv, TypeOK
  <2>3. ExitReq \in ToServer /\ ExitReq.t = "exit"
    BY DEF ExitReq, ToServer
  <2>4. h.sync => q = <<>> /\ h.pc \notin {"open", "publish"}
    BY <1>2, <2>1
  <2>5. Announced(q2)
    BY <1>1, <1>3, <2>2, <2>3, AnnouncedAppend
  <2>6. h.sync => q2 = <<>> \/ Head(q2).t = "exit"
    BY <1>5, <2>2, <2>3, <2>4
  <2>7. h.sync => Agreed(Off(k), h, q2, <<>>)
    BY <2>4, <2>6, BackFacts DEF Agreed, Busy
  <2>8. Told(Off(k), <<>>, f.final)
    BY BackFacts DEF Told
  <2> QED
    BY <1>4, <2>1, <2>2, <2>5, <2>7, <2>8, BackFacts
<1>15. CASE ClientKilled(c)
  <2>1. /\ client' = [client EXCEPT ![c] = Off(k)] /\ UNCHANGED <<handler, c2s, disk>>
        /\ s2c' = [s2c EXCEPT ![c] = <<>>]
    BY <1>15 DEF ClientKilled, k, IInv, TypeOK
  <2>2. h.sync => Agreed(Off(k), h, q, <<>>)
    BY <1>3, BackFacts DEF Agreed, Busy
  <2>3. Told(Off(k), <<>>, f.final)
    BY BackFacts DEF Told
  <2> QED
    BY <1>1, <1>3, <1>4, <2>1, <2>2, <2>3, BackFacts
<1> QED
  BY <1>3, <1>6, <1>7, <1>8, <1>9, <1>10, <1>11, <1>12, <1>13, <1>14, <1>15
     DEF UploadStep, UserStep, ClientInvalid, k

-----------------------------------------------------------------------------
(* The handler.  Each step keeps the invariant and is a step of StagedFile. *)

\* A file is started again by a handler that was told of a shorter one.
Restart(n) ==
  /\ Staged!Begin(n)
  /\ disk[n].part # NoFile =>
       \E c \in Conn : /\ NameOf[c] = n /\ handler[c].pc = "open"
                      /\ handler[c].size < Len(disk[n].part)

StagedStep == UNCHANGED disk \/ \E n \in Name : Restart(n) \/ Staged!Extend(n)
                                           \/ Staged!Publish(n)

\* Appending to the .part is what StagedFile allows.
LEMMA LongerExtends ==
  ASSUME disk \in Disk, NEW n \in Name, WholeFile(disk[n]), disk[n].part # NoFile,
         NEW l \in Nat, Longer(disk, disk', n, l)
  PROVE  Staged!Extend(n)
<1> DEFINE p == disk[n].part
           q == disk'[n].part
<1>1. /\ disk' \in Disk /\ q # NoFile /\ Extends(p, q)
      /\ disk' = [disk EXCEPT ![n].part = q]
  BY LongerFacts
<1>2. p \in Seq(Byte) /\ q \in Seq(Byte) /\ p # NoFile
  BY <1>1 DEF Disk, File
<1> HIDE DEF p, q
<1>3. Len(q) >= Len(p) /\ \A i \in 1..Len(p) : q[i] = p[i]
  BY <1>1 DEF Extends
<1>4. SubSeq(q, 1, Len(p)) = p
  <2>1. Len(p) \in Nat /\ \A i \in 1..Len(p) : q[i] \in Byte
    BY <1>2, <1>3
  <2> DEFINE s == SubSeq(q, 1, Len(p))
  <2>2. /\ s \in Seq(Byte) /\ Len(s) = IF 1 <= Len(p) THEN Len(p) - 1 + 1 ELSE 0
        /\ \A i \in 1..Len(p) - 1 + 1 : s[i] = q[1 + i - 1]
    BY <2>1, SubSeqProperties
  <2> HIDE DEF s
  <2>3. Len(s) = Len(p) /\ \A i \in 1..Len(s) : s[i] = p[i]
    BY <1>3, <2>1, <2>2
  <2>4. s = p
    BY <1>2, <2>2, <2>3, SeqEqual
  <2> QED
    BY <2>4 DEF s
<1> QED
  BY <1>1, <1>2, <1>3, <1>4 DEF Staged!Extend, p, q

\* Resizing to nothing is, when there was no .part or it was longer than announced.
LEMMA Restarts ==
  ASSUME disk \in Disk, NEW n \in Name, disk' = [disk EXCEPT ![n].part = <<>>],
         disk[n].part = NoFile \/ \E l \in Lengths : l < Len(disk[n].part)
  PROVE  Staged!Begin(n)
BY DEF Staged!Begin, Lengths

\* A step of the handler, after which it is h with q and r on their way.
LEMMA HandlerLocal ==
  ASSUME Exclusive, IInv, StagedInv, NEW c \in Conn, NEW h, NEW q, NEW r,
         handler' = [handler EXCEPT ![c] = h], c2s' = [c2s EXCEPT ![c] = q],
         s2c' = [s2c EXCEPT ![c] = r], UNCHANGED client,
         \A n \in Name : n # NameOf[c] => disk'[n] = disk[n],
         WholeFile(disk'[NameOf[c]]),
         Right(client[c], h, q, r, disk'[NameOf[c]])
  PROVE  StagedInv'
<1>1. /\ handler'[c] = h /\ c2s'[c] = q /\ s2c'[c] = r
      /\ \A d \in Conn : d # c => /\ handler'[d] = handler[d] /\ c2s'[d] = c2s[d]
                                  /\ s2c'[d] = s2c[d]
  BY DEF IInv, TypeOK
<1> QED
  BY <1>1, Local

\* A handler that is gone has nothing to say of the file.
LEMMA GoneRight ==
  ASSUME NEW k, NEW r, NEW f, k.report = "ok" => k.pc = "prompt", Told(k, r, f.final)
  PROVE  Right(k, HandlerNone, <<>>, r, f)
BY DEF Right, Exact, Agreed, Announced, HandlerNone, HandlerIdle

\* A client that has quit or died is told nothing.
LEMMA GoneTold ==
  ASSUME NEW k, NEW r, NEW f, k.report = "ok" => k.pc = "prompt", k.pc = "off"
  PROVE  Told(k, r, f)
BY DEF Told

\* An answer m, after which the handler is h with q2 left to read.
LEMMA ReplyStaged ==
  ASSUME Exclusive, IInv, StagedInv, NEW c \in Conn, handler[c].sync,
         client[c].sync => c2s[c] # <<>>,
         NEW m \in ToClient, NEW h, h.pc \in {"dispatch", "chunk"}, NEW q,
         \/ q = <<>>
         \/ c2s[c] # <<>> /\ q = Tail(c2s[c])
         \/ q = c2s[c] /\ ~h.sync,
         ReplyLeaving(c, m, h, q), UNCHANGED client,
         \A n \in Name : n # NameOf[c] => disk'[n] = disk[n],
         WholeFile(disk'[NameOf[c]]), Exact(h, disk'[NameOf[c]].part),
         disk'[NameOf[c]].final = disk[NameOf[c]].final,
         h.sync /\ h.pc = "chunk" /\ client[c].sync =>
           /\ client[c].pc = "req" => m.off = h.off
           /\ client[c].pc = "ack" => (IF m.status = 0 THEN m.off ELSE client[c].off) = h.off
           /\ client[c].pc \in Busy => client[c].size = h.size,
         client[c].sync /\ client[c].pc = "fin" => m.status # 0
  PROVE  StagedInv'
<1> DEFINE k == client[c]
           f == disk'[NameOf[c]]
           r == IF Up(c) THEN Append(s2c[c], m) ELSE s2c[c]
<1>1. /\ c2s[c] \in Seq(ToServer)
      /\ k.sync => s2c[c] = <<>> /\ Tail(c2s[c]) = <<>> /\ k.pc # "send"
      /\ ~k.sync => k.pc # "fin"
  BY Here, OneMessage, OutOfStepFacts DEF IInv
<1>2. k.sync => /\ k.pc # "off" => r # <<>> /\ Head(r) = m
                /\ k.pc = "off" => r = <<>>
  BY <1>1, QueueFacts DEF Up
<1>3. /\ k.report = "ok" => k.pc = "prompt"
      /\ Told(k, s2c[c], f.final) /\ Announced(c2s[c])
  BY Here DEF Right
<1>4. Announced(q)
  <2>1. Announced(<<>>)
    BY DEF Announced
  <2> QED
    BY <1>1, <1>3, <2>1, AnnouncedTail
<1> HIDE DEF k, f, r
<1>5. Right(k, h, q, r, f)
  <2>1. h.sync /\ k.sync => q = <<>>
    BY <1>1
  <2>2. h.sync /\ k.sync => Agreed(k, h, q, r)
    BY <1>1, <1>2, <2>1 DEF Agreed, Busy, k
  <2>3. Told(k, r, f.final)
    BY <1>1, <1>2, <1>3 DEF Told, k
  <2> QED
    BY <1>3, <1>4, <2>2, <2>3 DEF Right, f
<1>6. CASE /\ handler' = [handler EXCEPT ![c] = h]
           /\ s2c' = IF Up(c) THEN [s2c EXCEPT ![c] = Append(@, m)] ELSE s2c
           /\ c2s' = [c2s EXCEPT ![c] = q]
  <2>1. s2c' = [s2c EXCEPT ![c] = r]
    BY <1>6 DEF r, IInv, TypeOK
  <2> QED
    BY <1>5, <1>6, <2>1, HandlerLocal DEF k, f
<1>7. CASE /\ ~Up(c)
           /\ handler' = [handler EXCEPT ![c] = HandlerNone]
           /\ c2s' = [c2s EXCEPT ![c] = <<>>]
           /\ UNCHANGED s2c
  <2>1. s2c' = [s2c EXCEPT ![c] = s2c[c]]
    BY <1>7 DEF IInv, TypeOK
  <2>2. Right(k, HandlerNone, <<>>, s2c[c], f)
    BY <1>3, GoneRight
  <2> QED
    BY <1>7, <2>1, <2>2, HandlerLocal DEF k, f
<1> QED
  BY <1>6, <1>7 DEF ReplyLeaving

\* What stdio still buffers belongs at the end of the .part.
LEMMA PendingAppends ==
  ASSUME IInv, StagedInv, NEW c \in Conn, handler[c].pc = "chunk"
  PROVE  /\ disk[NameOf[c]].part # NoFile /\ handler[c].off \in Nat
         /\ Longer(disk, Pending(c), NameOf[c], handler[c].off)
<1> DEFINE h == handler[c]
           n == NameOf[c]
<1>1. /\ n \in Name /\ disk \in Disk /\ WholeFile(disk[n]) /\ h \in HandlerState
      /\ Exact(h, disk[n].part)
  BY Here DEF Right
<1>2. h.at \in Nat /\ h.data \in Seq(Datum) /\ h.off \in Nat
  BY <1>1, HandlerTyped
<1>3. /\ h.file = "part" /\ disk[n].part # NoFile
      /\ h.data # <<>> => h.at = Len(disk[n].part)
      /\ h.off = Len(disk[n].part) + Len(h.data)
  BY <1>1 DEF Exact
<1>4. Pending(c) = Put(n, "part", h.at, h.data, disk)
  BY <1>3 DEF Pending
<1> HIDE DEF h, n
<1>5. Longer(disk, Pending(c), n, h.off)
  BY <1>1, <1>2, <1>3, <1>4, PutAppends
<1> QED
  BY <1>2, <1>3, <1>5 DEF h, n

\* A closed file leaves nothing behind in the handler's record.
LEMMA ClosedFacts ==
  ASSUME NEW h
  PROVE  /\ Closed(h).pc = "dispatch" /\ Closed(h).file = "none"
         /\ Closed(h).data = <<>> /\ Closed(h).sync = h.sync
         /\ \A p : Exact(Closed(h), p) /\ Exact([Closed(h) EXCEPT !.sync = FALSE], p)
BY DEF Closed, HandlerIdle, Exact

\* SrvRequest, SrvOpen, SrvNack: the file is not written.
LEMMA AskedStaged ==
  ASSUME Exclusive, "io" \notin Faults, IInv, StagedInv, NEW c \in Conn,
         SrvRequest(c) \/ SrvOpen(c) \/ SrvOpenFails(c) \/ SrvNack(c)
  PROVE  StagedInv' /\ StagedStep
<1> DEFINE k == client[c]
           h == handler[c]
           q == c2s[c]
           r == s2c[c]
           n == NameOf[c]
           rest == Tail(c2s[c])
<1>1. /\ n \in Name /\ disk \in Disk /\ WholeFile(disk[n])
      /\ h \in HandlerState /\ q \in Seq(ToServer) /\ r \in Seq(ToClient)
      /\ c2s = [c2s EXCEPT ![c] = q] /\ s2c = [s2c EXCEPT ![c] = r]
  BY Here DEF IInv, TypeOK
<1>2. /\ Exact(h, disk[n].part) /\ (h.sync /\ k.sync => Agreed(k, h, q, r))
      /\ k.report = "ok" => k.pc = "prompt"
      /\ Told(k, r, disk[n].final) /\ Announced(q)
  BY Here DEF Right
<1>3. /\ h.pc = "open" => h.sync /\ q # <<>> /\ Head(q).t = "req"
      /\ h.sync /\ k.sync /\ q # <<>> => k.pc \in {"off", Waiting(Head(q).t)}
      /\ ~k.sync /\ q # <<>> => Head(q).t # "chunk"
  BY Here, OutOfStepFacts DEF IInv, InStepAt, OneQuestion
<1>4. /\ h.size \in Nat /\ h.old \in Nat /\ h.off \in Nat
  BY <1>1, HandlerTyped
<1> HIDE DEF k, h, q, r, n, rest
<1>9. ASSUME NEW m \in ToClient, NEW h2, h2.pc \in {"dispatch", "chunk"}, NEW q2,
             q2 = rest \/ (q2 = q /\ ~h2.sync), h.sync, q # <<>>,
             ReplyLeaving(c, m, h2, q2), UNCHANGED client,
             \A x \in Name : x # n => disk'[x] = disk[x],
             WholeFile(disk'[n]), Exact(h2, disk'[n].part),
             disk'[n].final = disk[n].final,
             h2.sync /\ h2.pc = "chunk" /\ k.sync =>
               /\ k.pc = "req" => m.off = h2.off
               /\ k.pc = "ack" => (IF m.status = 0 THEN m.off ELSE k.off) = h2.off
               /\ k.pc \in Busy => k.size = h2.size,
             k.sync /\ k.pc = "fin" => m.status # 0
      PROVE  StagedInv'
  BY <1>9, ReplyStaged DEF k, h, q, n, rest
<1>10. ASSUME UNCHANGED disk PROVE StagedStep /\ disk' = disk
  BY <1>10 DEF StagedStep
<1>5. CASE SrvRequest(c)
  <2> DEFINE p == disk[n].part
  <2>1. /\ h.pc = "dispatch" /\ h.sync /\ q # <<>> /\ Head(q).t = "req"
        /\ UNCHANGED <<client, disk>>
    BY <1>5 DEF SrvRequest, Reads, h, q
  <2>2. k.sync => k.pc # "fin"
    BY <1>3, <2>1 DEF Waiting
  <2>3. CASE Reply(c, Res(1, 0), h)
    <3>1. Res(1, 0) \in ToClient
      BY Answers
    <3>2. ReplyLeaving(c, Res(1, 0), h, rest)
      BY <2>3 DEF Reply, rest
    <3> QED
      BY <1>1, <1>2, <1>9, <1>10, <2>1, <2>2, <3>1, <3>2
  <2>4. CASE /\ UNCHANGED <<c2s, s2c>>
             /\ handler' = [handler EXCEPT ![c] =
                  [h EXCEPT !.pc = "open", !.size = Head(q).size,
                            !.exists = (p # NoFile),
                            !.old = IF p = NoFile THEN 0 ELSE Len(p)]]
    <3> DEFINE e == (p # NoFile)
               o == IF p = NoFile THEN 0 ELSE Len(p)
               h2 == [h EXCEPT !.pc = "open", !.size = Head(q).size,
                               !.exists = e, !.old = o]
    <3>1. e \in BOOLEAN /\ (e <=> p # NoFile) /\ (p # NoFile => o = Len(p))
      OBVIOUS
    <3>2. handler' = [handler EXCEPT ![c] = h2]
      BY <2>4
    <3> HIDE DEF e, o
    <3>3. /\ h2.pc = "open" /\ h2.size = Head(q).size /\ h2.exists = e /\ h2.old = o
          /\ h2.file = h.file /\ h2.data = h.data /\ h2.sync = h.sync
      BY <1>1 DEF HandlerState
    <3> HIDE DEF h2
    <3>4. Head(q).size \in Lengths
      BY <1>1, <1>2, <2>1, AnnouncedTail
    <3>5. Exact(h2, p)
      BY <1>2, <2>1, <3>1, <3>3, <3>4 DEF Exact
    <3>6. k.sync => Agreed(k, h2, q, r)
      BY <1>2, <2>1, <3>3 DEF Agreed
    <3>7. Right(k, h2, q, r, disk[n])
      BY <1>2, <3>5, <3>6 DEF Right
    <3>8. StagedInv'
      <4>1. /\ c2s' = [c2s EXCEPT ![c] = q] /\ s2c' = [s2c EXCEPT ![c] = r]
            /\ WholeFile(disk'[n]) /\ \A x \in Name : disk'[x] = disk[x]
            /\ Right(k, h2, q, r, disk'[n]) /\ UNCHANGED client
        BY <1>1, <2>1, <2>4, <3>7
      <4> QED
        BY <3>2, <4>1, HandlerLocal DEF k, n
    <3> QED
      BY <2>1, <3>8 DEF StagedStep
  <2> QED
    BY <1>1, <1>5, <2>3, <2>4 DEF SrvRequest, h, q, n, IInv, TypeOK
<1>6. ASSUME SrvOpen(c) PROVE StagedInv' /\ StagedStep
  <2> DEFINE Open(off) == [h EXCEPT !.pc = "chunk", !.off = off, !.file = "part",
                                    !.at = 0, !.data = <<>>]
  <2>1. /\ h.pc = "open" /\ h.sync /\ q # <<>> /\ Head(q).t = "req"
        /\ UNCHANGED client
    BY <1>3, <1>6 DEF SrvOpen, h
  <2>2. /\ h.size \in Lengths /\ (h.exists <=> disk[n].part # NoFile)
        /\ disk[n].part # NoFile => h.old = Len(disk[n].part)
    BY <1>2, <2>1 DEF Exact
  <2>3. k.sync => k.pc \in {"off", "req"} /\ (k.pc = "req" => k.size = h.size)
    BY <1>2, <1>3, <2>1 DEF Agreed, Waiting
  <2>4. ASSUME NEW off \in Nat, Reply(c, Res(0, off), Open(off)),
               \A x \in Name : x # n => disk'[x] = disk[x],
               disk'[n].part # NoFile, Len(disk'[n].part) = off,
               WholeFile(disk'[n]), disk'[n].final = disk[n].final
        PROVE  StagedInv'
    <3> DEFINE h2 == Open(off)
    <3>1. /\ h2.pc = "chunk" /\ h2.off = off /\ h2.file = "part" /\ h2.data = <<>>
          /\ h2.size = h.size /\ h2.sync = h.sync
      BY <1>1 DEF HandlerState
    <3>2. Reply(c, Res(0, off), h2)
      BY <2>4
    <3> HIDE DEF h2, Open
    <3>3. Exact(h2, disk'[n].part)
      BY <2>2, <2>4, <3>1 DEF Exact
    <3>4. /\ Res(0, off) \in ToClient /\ Res(0, off).off = off
      BY Answers DEF Res
    <3>5. ReplyLeaving(c, Res(0, off), h2, rest)
      BY <3>2 DEF Reply, rest
    <3>6. k.sync => k.pc \notin {"ack", "fin"} /\ (k.pc \in Busy => k.size = h2.size)
      BY <2>3, <3>1 DEF Busy
    <3> QED
      BY <1>9, <2>1, <2>4, <3>1, <3>3, <3>4, <3>5, <3>6
  <2>5. CASE /\ h.exists /\ h.old <= h.size /\ UNCHANGED disk
             /\ Reply(c, Res(0, h.old), Open(h.old))
    <3> HIDE DEF Open
    <3>1. StagedInv'
      BY <1>1, <1>4, <2>2, <2>4, <2>5
    <3> QED
      BY <2>5, <3>1 DEF StagedStep
  <2>6. CASE /\ ~(h.exists /\ h.old <= h.size)
             /\ disk' = [disk EXCEPT ![n].part = <<>>]
             /\ Reply(c, Res(0, 0), Open(0))
    <3> HIDE DEF Open
    <3>1. /\ \A x \in Name : x # n => disk'[x] = disk[x]
          /\ disk'[n].part = <<>> /\ disk'[n].final = disk[n].final
      BY <1>1, <2>6 DEF Disk
    <3>2. <<>> # NoFile /\ Len(<<>>) = 0
      BY UploadAssumption, EmptyTyped
    <3>3. WholeFile(disk'[n])
      BY <1>1, <3>1 DEF WholeFile, Solid
    <3>4. StagedInv'
      BY <2>4, <2>6, <3>1, <3>2, <3>3
    <3>5. disk[n].part = NoFile \/ h.size < Len(disk[n].part)
      BY <1>4, <2>2, <2>6
    <3>6. Restart(n)
      <4>1. Staged!Begin(n)
        BY <1>1, <2>2, <2>6, <3>5, Restarts
      <4> QED
        BY <2>1, <3>5, <4>1 DEF Restart, n, h
    <3> QED
      BY <1>1, <3>4, <3>6 DEF StagedStep
  <2> QED
    BY <1>6, <2>5, <2>6 DEF SrvOpen, Fault, h, n
<1>7. CASE SrvOpenFails(c)
  <2>1. h.pc = "open" /\ h.exists /\ disk[n].part = NoFile
    BY <1>7 DEF SrvOpenFails, Fault, h, n
  <2> QED
    BY <1>2, <2>1 DEF Exact
<1>8. ASSUME SrvNack(c) PROVE StagedInv' /\ StagedStep
  <2>1. /\ h.pc = "chunk" /\ h.sync /\ q # <<>> /\ Head(q).t = "chunk"
        /\ UNCHANGED <<client, disk>>
    BY <1>8 DEF SrvNack, Reads, h, q
  <2>2. k.sync /\ k.pc \in {"off", "ack"} /\ r = <<>>
    BY <1>3, <2>1, Here, OneMessage DEF Waiting, IInv, h, k, q, r
  <2>3. k.pc = "ack" => k.off = h.off /\ k.size = h.size
    BY <1>2, <2>1, <2>2 DEF Agreed, Busy
  <2>4. /\ Ack(1, h.off) \in ToClient /\ Ack(1, h.off).status = 1
    BY <1>4, Answers DEF Ack
  <2>5. CASE Reply(c, Ack(1, h.off), h)
    <3>1. ReplyLeaving(c, Ack(1, h.off), h, rest)
      BY <2>5 DEF Reply, rest
    <3>2. /\ k.pc \notin {"req", "fin"} /\ (k.pc = "ack" => k.off = h.off)
          /\ k.pc \in Busy => k.size = h.size
      BY <2>2, <2>3 DEF Busy
    <3> QED
      BY <1>1, <1>2, <1>9, <1>10, <2>1, <2>4, <3>1, <3>2
  <2>6. CASE ReplyLeaving(c, Ack(1, h.off), [h EXCEPT !.sync = FALSE], q)
    <3> DEFINE h2 == [h EXCEPT !.sync = FALSE]
    <3>1. /\ ~h2.sync /\ h2.pc = h.pc /\ h2.file = h.file /\ h2.data = h.data
          /\ h2.size = h.size /\ h2.at = h.at /\ h2.off = h.off
      BY <1>1 DEF HandlerState
    <3>2. ReplyLeaving(c, Ack(1, h.off), h2, q)
      BY <2>6
    <3> HIDE DEF h2
    <3>3. Exact(h2, disk[n].part)
      BY <1>2, <2>1, <3>1 DEF Exact
    <3>4. h2.pc = "chunk"
      BY <2>1, <3>1
    <3> QED
      BY <1>1, <1>9, <1>10, <2>1, <2>2, <2>4, <3>1, <3>2, <3>3, <3>4
  <2> QED
    BY <1>8, <2>5, <2>6 DEF SrvNack, h, q
<1> QED
  BY <1>5, <1>6, <1>7, <1>8

\* SrvChunk, SrvFinish, SrvBreak: the .part is written to.
LEMMA WrittenStaged ==
  ASSUME Exclusive, "io" \notin Faults, IInv, StagedInv, NEW c \in Conn,
         SrvChunk(c) \/ SrvWriteFails(c) \/ SrvFinish(c) \/ SrvBreak(c)
  PROVE  StagedInv' /\ StagedStep
<1> DEFINE k == client[c]
           h == handler[c]
           q == c2s[c]
           r == s2c[c]
           n == NameOf[c]
           rest == Tail(c2s[c])
<1>1. /\ n \in Name /\ disk \in Disk /\ WholeFile(disk[n])
      /\ h \in HandlerState /\ q \in Seq(ToServer) /\ r \in Seq(ToClient)
      /\ c2s = [c2s EXCEPT ![c] = q] /\ s2c = [s2c EXCEPT ![c] = r]
  BY Here DEF IInv, TypeOK
<1>2. /\ Exact(h, disk[n].part) /\ (h.sync /\ k.sync => Agreed(k, h, q, r))
      /\ k.report = "ok" => k.pc = "prompt"
      /\ Told(k, r, disk[n].final) /\ Announced(q)
  BY Here DEF Right
<1>3. /\ h.sync /\ k.sync /\ q # <<>> => /\ k.pc \in {"off", Waiting(Head(q).t)}
                                          /\ r = <<>> /\ rest = <<>>
      /\ ~k.sync /\ q # <<>> => Head(q).t \notin {"chunk", "complete"}
  BY Here, OneMessage, OutOfStepFacts DEF IInv, InStepAt, OneQuestion
<1>4. h.pc = "chunk"
  BY DEF SrvChunk, SrvWriteFails, SrvFinish, SrvBreak, Reads
<1>5. /\ disk[n].part # NoFile /\ h.off \in Nat /\ h.file = "part"
      /\ h.size \in Lengths /\ h.size \in Nat
      /\ Longer(disk, Pending(c), n, h.off)
  BY <1>1, <1>2, <1>4, PendingAppends, HandlerTyped DEF Exact
<1>6. /\ q # <<>> => Head(q) \in ToServer
      /\ Pending(c) \in Disk /\ WholeFile(Pending(c)[n])
      /\ Pending(c)[n].part # NoFile /\ Len(Pending(c)[n].part) = h.off
  BY <1>1, <1>5, LongerFacts
<1> HIDE DEF k, h, q, r, n, rest
<1>7. ASSUME NEW l \in Nat, Longer(disk, disk', n, l)
      PROVE  /\ \A x \in Name : x # n => disk'[x] = disk[x]
             /\ WholeFile(disk'[n]) /\ disk'[n].final = disk[n].final
             /\ disk'[n].part # NoFile /\ Len(disk'[n].part) = l
             /\ StagedStep
  BY <1>1, <1>5, <1>7, LongerFacts, LongerExtends DEF StagedStep
<1>7a. ASSUME NEW m \in ToClient, NEW h2, h2.pc \in {"dispatch", "chunk"}, NEW q2,
              q2 = rest \/ (q2 = q /\ ~h2.sync), h.sync, q # <<>>,
              ReplyLeaving(c, m, h2, q2), UNCHANGED client,
              \A x \in Name : x # n => disk'[x] = disk[x],
              WholeFile(disk'[n]), Exact(h2, disk'[n].part),
              disk'[n].final = disk[n].final,
              h2.sync /\ h2.pc = "chunk" /\ k.sync =>
                /\ k.pc = "req" => m.off = h2.off
                /\ k.pc = "ack" => (IF m.status = 0 THEN m.off ELSE k.off) = h2.off
                /\ k.pc \in Busy => k.size = h2.size,
              k.sync /\ k.pc = "fin" => m.status # 0
       PROVE  StagedInv'
  BY <1>7a, ReplyStaged DEF k, h, q, n, rest
<1>8. ASSUME NEW m \in ToClient, NEW h2, h2.pc \in {"dispatch", "chunk"},
             ReplyLeaving(c, m, h2, rest),
             h.sync, q # <<>>, UNCHANGED client,
             NEW l \in Nat, Longer(disk, disk', n, l), Exact(h2, disk'[n].part),
             h2.sync /\ h2.pc = "chunk" /\ k.sync =>
               /\ k.pc = "req" => m.off = h2.off
               /\ k.pc = "ack" => (IF m.status = 0 THEN m.off ELSE k.off) = h2.off
               /\ k.pc \in Busy => k.size = h2.size,
             k.sync /\ k.pc = "fin" => m.status # 0
      PROVE  StagedInv' /\ StagedStep
  <2>1. /\ \A x \in Name : x # n => disk'[x] = disk[x]
        /\ WholeFile(disk'[n]) /\ disk'[n].final = disk[n].final /\ StagedStep
    BY <1>7, <1>8
  <2>2. StagedInv'
    BY <1>8, <1>7a, <2>1
  <2> QED
    BY <2>1, <2>2
<1>9. ASSUME NEW h2, NEW q2, handler' = [handler EXCEPT ![c] = h2],
             c2s' = [c2s EXCEPT ![c] = q2], UNCHANGED <<client, s2c>>,
             NEW l \in Nat, Longer(disk, disk', n, l), Exact(h2, disk'[n].part),
             h2.sync /\ k.sync => Agreed(k, h2, q2, r), Announced(q2)
      PROVE  StagedInv' /\ StagedStep
  <2>1. /\ \A x \in Name : x # n => disk'[x] = disk[x]
        /\ WholeFile(disk'[n]) /\ disk'[n].final = disk[n].final /\ StagedStep
    BY <1>7, <1>9
  <2>2. s2c' = [s2c EXCEPT ![c] = r]
    BY <1>1, <1>9
  <2>3. Right(k, h2, q2, r, disk'[n])
    BY <1>2, <1>9, <2>1 DEF Right
  <2> QED
    BY <1>9, <2>1, <2>2, <2>3, HandlerLocal DEF k, n
<1>10. ASSUME SrvChunk(c) PROVE StagedInv' /\ StagedStep
  <2> DEFINE m == Head(q)
             off == m.at + Len(m.data)
  <2>1. /\ h.sync /\ q # <<>> /\ m.t = "chunk" /\ k.sync /\ UNCHANGED client
    BY <1>3, <1>10 DEF SrvChunk, Reads, h, q
  <2>2. m.at = h.off /\ m.at \in Nat /\ m.data \in Seq(Datum)
    BY <1>2, <1>4, <1>6, <2>1, ChunkTyped DEF Agreed
  <2>3. off \in Nat
    BY <2>2
  <2>4. PICK j \in 0..Len(m.data) :
          /\ disk' = Put(n, h.file, m.at, Prefix(m.data, j), Pending(c))
          /\ Reply(c, Ack(0, off), [h EXCEPT !.off = off, !.at = m.at + j,
                                             !.data = Rest(m.data, j)])
    BY <1>10 DEF SrvChunk, h, q, n
  <2> DEFINE h2 == [h EXCEPT !.off = off, !.at = m.at + j, !.data = Rest(m.data, j)]
  <2>5. /\ h2.pc = "chunk" /\ h2.off = off /\ h2.at = m.at + j /\ h2.data = Rest(m.data, j)
        /\ h2.file = "part" /\ h2.size = h.size /\ h2.sync
    BY <1>1, <1>4, <1>5, <2>1 DEF HandlerState
  <2>6. ReplyLeaving(c, Ack(0, off), h2, rest)
    BY <2>4 DEF Reply, rest
  <2>7. /\ Prefix(m.data, j) \in Seq(Datum) /\ Len(Prefix(m.data, j)) = j
        /\ Len(Rest(m.data, j)) = Len(m.data) - j
    BY <2>2, PrefixFacts
  <2>8. /\ Ack(0, off) \in ToClient /\ Ack(0, off).off = off /\ Ack(0, off).status = 0
    BY <2>3, Answers DEF Ack
  <2> HIDE DEF h2, m
  <2>9. Longer(Pending(c), disk', n, h.off + j)
    <3> DEFINE d == Prefix(m.data, j)
               dk == Pending(c)
    <3>1. disk' = Put(n, "part", m.at, d, dk) /\ m.at = Len(dk[n].part)
      BY <1>5, <1>6, <2>2, <2>4
    <3>2. /\ dk \in Disk /\ dk[n].part # NoFile /\ WholeFile(dk[n])
          /\ d \in Seq(Datum) /\ Len(dk[n].part) + Len(d) = h.off + j
      BY <1>6, <2>7
    <3> HIDE DEF d, dk
    <3>3. Longer(dk, Put(n, "part", m.at, d, dk), n, Len(dk[n].part) + Len(d))
      BY <1>1, <2>2, <3>1, <3>2, PutAppends
    <3> QED
      BY <3>1, <3>2, <3>3 DEF dk
  <2>10. h.off + j \in Nat /\ Longer(disk, disk', n, h.off + j)
    <3>1. h.off + j \in Nat
      BY <1>5, <2>2, <2>4
    <3> QED
      BY <1>1, <1>5, <2>9, <3>1, LongerTwice
  <2>11. disk'[n].part # NoFile /\ Len(disk'[n].part) = h.off + j
    BY <1>7, <2>10
  <2>12. off = (h.off + j) + (Len(m.data) - j)
    BY <1>5, <2>2, <2>4
  <2>13. Exact(h2, disk'[n].part)
    BY <1>5, <2>2, <2>5, <2>7, <2>11, <2>12 DEF Exact
  <2>14. k.pc \in {"off", "ack"} /\ (k.pc = "ack" => k.size = h.size)
    <3>1. k.pc \in {"off", "ack"}
      BY <1>3, <2>1 DEF Waiting, m
    <3> QED
      BY <1>2, <1>4, <2>1, <3>1 DEF Agreed, Busy, m
  <2> HIDE DEF off
  <2> QED
    BY <1>8, <2>1, <2>5, <2>6, <2>8, <2>10, <2>13, <2>14 DEF Busy
<1>11. CASE SrvWriteFails(c)
  BY <1>11 DEF SrvWriteFails, Fault
<1>12. ASSUME SrvFinish(c) PROVE StagedInv' /\ StagedStep
  <2>1. /\ h.sync /\ q # <<>> /\ Head(q).t = "complete" /\ k.sync /\ UNCHANGED client
        /\ disk' = Pending(c)
    BY <1>3, <1>12 DEF SrvFinish, Reads, Fault, h, q
  <2>2. k.pc \in {"off", "fin"} /\ (k.pc = "fin" => k.size = h.size)
    <3>1. k.pc \in {"off", "fin"}
      BY <1>3, <2>1 DEF Waiting
    <3> QED
      BY <1>2, <1>4, <2>1, <3>1 DEF Agreed, Busy
  <2>3. CASE Reply(c, Res(1, h.off), Closed(h))
    <3>1. ReplyLeaving(c, Res(1, h.off), Closed(h), rest)
      BY <2>3 DEF Reply, rest
    <3>2. Res(1, h.off) \in ToClient /\ Res(1, h.off).status = 1
      BY <1>5, Answers DEF Res
    <3>3. Closed(h).pc = "dispatch" /\ Exact(Closed(h), disk'[n].part)
      BY ClosedFacts
    <3> QED
      BY <1>5, <1>8, <2>1, <3>1, <3>2, <3>3
  <2>4. CASE /\ h.off = h.size /\ UNCHANGED <<c2s, s2c>>
             /\ handler' = [handler EXCEPT ![c] =
                  [h EXCEPT !.pc = "publish", !.file = "none", !.at = 0, !.data = <<>>]]
    <3> DEFINE h2 == [h EXCEPT !.pc = "publish", !.file = "none", !.at = 0, !.data = <<>>]
    <3>1. /\ h2.pc = "publish" /\ h2.file = "none" /\ h2.data = <<>>
          /\ h2.off = h.off /\ h2.size = h.size
      BY <1>1 DEF HandlerState
    <3>2. handler' = [handler EXCEPT ![c] = h2] /\ c2s' = [c2s EXCEPT ![c] = q]
      BY <1>1, <2>4
    <3> HIDE DEF h2
    <3>3. disk'[n].part # NoFile /\ Len(disk'[n].part) = h.off
      BY <1>5, <1>7, <2>1
    <3>4. Exact(h2, disk'[n].part)
      BY <1>5, <2>4, <3>1, <3>3 DEF Exact
    <3>5. Agreed(k, h2, q, r)
      BY <2>1, <2>2, <3>1 DEF Agreed, Busy
    <3> QED
      BY <1>2, <1>5, <1>9, <2>1, <2>4, <3>2, <3>4, <3>5
  <2> QED
    BY <1>12, <2>3, <2>4 DEF SrvFinish, h, q
<1>13. ASSUME SrvBreak(c) PROVE StagedInv' /\ StagedStep
  <2>1. disk' = Pending(c) /\ UNCHANGED <<client, s2c>>
    BY <1>13 DEF SrvBreak
  <2>2. CASE /\ handler' = [handler EXCEPT ![c] = Closed(h)]
             /\ c2s' = [c2s EXCEPT ![c] = <<>>]
    <3>1. Closed(h).pc = "dispatch"
      BY ClosedFacts
    <3>3. Agreed(k, Closed(h), <<>>, r)
      BY <3>1 DEF Agreed
    <3>4. Announced(<<>>)
      BY DEF Announced
    <3>2. Exact(Closed(h), disk'[n].part)
      BY ClosedFacts
    <3> QED
      BY <1>5, <1>9, <2>1, <2>2, <3>2, <3>3, <3>4
  <2>3. CASE /\ handler' = [handler EXCEPT ![c] = [Closed(h) EXCEPT !.sync = FALSE]]
             /\ UNCHANGED c2s
    <3> DEFINE h2 == [Closed(h) EXCEPT !.sync = FALSE]
    <3>1. ~h2.sync /\ Exact(h2, disk'[n].part)
      <4>1. Closed(h) \in HandlerState
        BY <1>1, HandlerTyped
      <4> QED
        BY <4>1, ClosedFacts DEF HandlerState
    <3>2. handler' = [handler EXCEPT ![c] = h2] /\ c2s' = [c2s EXCEPT ![c] = q]
      BY <1>1, <2>3
    <3> HIDE DEF h2
    <3> QED
      BY <1>2, <1>5, <1>9, <2>1, <3>1, <3>2
  <2> QED
    BY <1>13, <2>2, <2>3 DEF SrvBreak, h, IInv, TypeOK
<1> QED
  BY <1>10, <1>11, <1>12, <1>13

\* SrvPublish: the whole .part becomes the final file.
LEMMA PublishStaged ==
  ASSUME Exclusive, "io" \notin Faults, IInv, StagedInv, NEW c \in Conn, SrvPublish(c)
  PROVE  StagedInv' /\ StagedStep
<1> DEFINE k == client[c]
           h == handler[c]
           q == c2s[c]
           r == s2c[c]
           n == NameOf[c]
           rest == Tail(c2s[c])
           f == [part |-> NoFile, final |-> disk[n].part]
           r2 == IF Up(c) THEN Append(r, Res(0, h.off)) ELSE r
<1>1. /\ n \in Name /\ disk \in Disk /\ WholeFile(disk[n])
      /\ h \in HandlerState /\ q \in Seq(ToServer) /\ r \in Seq(ToClient)
      /\ s2c = [s2c EXCEPT ![c] = r]
  BY Here DEF IInv, TypeOK
<1>2. /\ Exact(h, disk[n].part) /\ (h.sync /\ k.sync => Agreed(k, h, q, r))
      /\ k.report = "ok" => k.pc = "prompt"
      /\ Told(k, r, disk[n].final)
  BY Here DEF Right
<1>3. h.pc = "publish" /\ UNCHANGED client
  BY DEF SrvPublish
<1>4. /\ h.sync /\ k.sync /\ q # <<>> /\ Head(q).t = "complete"
      /\ k.pc \in {"off", "fin"} /\ r = <<>> /\ rest = <<>>
  <2>1. k.sync
    BY <1>3, Here, OutOfStepFacts DEF IInv
  <2> QED
    BY <1>3, <2>1, Here, OneMessage DEF IInv, InStepAt, OneQuestion, Waiting
<1>5. /\ disk[n].part # NoFile /\ h.off = h.size /\ Len(disk[n].part) = h.size
      /\ h.size \in Lengths /\ h.file = "none" /\ h.off \in Nat
  BY <1>1, <1>2, <1>3, HandlerTyped DEF Exact
<1>6. Renamed(n, handler) = handler
  <2>1. handler \in [Conn -> HandlerState]
    BY DEF IInv, TypeOK
  <2>2. ASSUME NEW d \in Conn PROVE Renamed(n, handler)[d] = handler[d]
    <3>1. CASE d = c
      BY <1>5, <3>1 DEF Renamed
    <3>2. CASE d # c
      BY <3>2 DEF Renamed, Exclusive
    <3> QED
      BY <3>1, <3>2
  <2> QED
    BY <2>1, <2>2 DEF Renamed
<1>7. disk' = [disk EXCEPT ![n] = f]
  BY <1>5 DEF SrvPublish, Fault
<1>8. /\ disk'[n] = f /\ f.part = NoFile /\ f.final = disk[n].part
      /\ \A x \in Name : x # n => disk'[x] = disk[x]
  BY <1>1, <1>7 DEF Disk
<1>9. Staged!Publish(n)
  BY <1>5, <1>7 DEF Staged!Publish, Lengths
<1>10. k.pc = "fin" => k.size = h.size
  BY <1>2, <1>3, <1>4 DEF Agreed, Busy
<1>11. /\ (\E m : m = Res(0, h.off) /\ m \in ToClient)
       /\ k.pc # "off" => r2 = Append(<<>>, Res(0, h.off))
       /\ k.pc = "off" => r2 = <<>>
  BY <1>4, <1>5, Answers DEF Up
<1> HIDE DEF k, h, q, r, n, rest, f, r2
<1>12. WholeFile(disk'[n])
  BY <1>1, <1>5, <1>8 DEF WholeFile
<1>13. /\ Told(k, r2, disk'[n].final)
       /\ Told(k, r, disk'[n].final)
  BY <1>2, <1>4, <1>5, <1>8, <1>10 DEF Told
<1>14. /\ Right(k, Closed(h), rest, r2, disk'[n])
       /\ Right(k, HandlerNone, <<>>, r, disk'[n])
  <2>3. Closed(h).pc = "dispatch"
    BY ClosedFacts
  <2>1. Agreed(k, Closed(h), rest, r2) /\ Announced(rest)
    BY <1>4, <2>3 DEF Agreed, Announced
  <2>2. Right(k, Closed(h), rest, r2, disk'[n])
    BY <1>2, <1>13, <2>1, ClosedFacts DEF Right
  <2> QED
    BY <1>2, <1>13, <2>2, GoneRight
<1>15. CASE /\ handler' = [handler EXCEPT ![c] = Closed(h)]
            /\ s2c' = [s2c EXCEPT ![c] = r2]
            /\ c2s' = [c2s EXCEPT ![c] = rest]
  BY <1>3, <1>8, <1>9, <1>1, <1>12, <1>14, <1>15, HandlerLocal DEF StagedStep, k, n
<1>16. CASE /\ handler' = [handler EXCEPT ![c] = HandlerNone]
            /\ s2c' = [s2c EXCEPT ![c] = r]
            /\ c2s' = [c2s EXCEPT ![c] = <<>>]
  BY <1>3, <1>8, <1>9, <1>1, <1>12, <1>14, <1>16, HandlerLocal DEF StagedStep, k, n
<1>17. \/ /\ handler' = [handler EXCEPT ![c] = Closed(h)]
          /\ s2c' = [s2c EXCEPT ![c] = r2]
          /\ c2s' = [c2s EXCEPT ![c] = rest]
       \/ /\ handler' = [handler EXCEPT ![c] = HandlerNone]
          /\ s2c' = s2c
          /\ c2s' = [c2s EXCEPT ![c] = <<>>]
  BY <1>5, <1>6 DEF SrvPublish, Fault, Consume, h, n, r, r2, rest, IInv, TypeOK
<1> QED
  BY <1>1, <1>15, <1>16, <1>17

\* The handler's other steps, Connect and LeaveUnread: no file is touched.
LEMMA RestStaged ==
  ASSUME Exclusive, IInv, StagedInv, NEW c \in Conn,
         \/ SrvIgnore(c) \/ SrvExit(c) \/ SrvBreakDownload(c) \/ SrvKilled(c)
         \/ Connect(c) \/ LeaveUnread(c)
  PROVE  StagedInv' /\ StagedStep
<1> DEFINE k == client[c]
           h == handler[c]
           q == c2s[c]
           r == s2c[c]
           f == disk[NameOf[c]]
           rest == Tail(c2s[c])
<1>1. /\ NameOf[c] \in Name /\ disk \in Disk /\ WholeFile(f)
      /\ q \in Seq(ToServer) /\ r \in Seq(ToClient)
      /\ handler = [handler EXCEPT ![c] = h] /\ s2c = [s2c EXCEPT ![c] = r]
      /\ c2s = [c2s EXCEPT ![c] = q]
  BY Here DEF IInv, TypeOK
<1>2. /\ Exact(h, f.part) /\ (h.sync /\ k.sync => Agreed(k, h, q, r))
      /\ k.report = "ok" => k.pc = "prompt"
      /\ Told(k, r, f.final) /\ Announced(q)
  BY Here DEF Right
<1>3. UNCHANGED disk
  BY DEF SrvIgnore, SrvExit, SrvBreakDownload, SrvKilled, Connect, LeaveUnread
<1> HIDE DEF k, h, q, r, f, rest
<1>4. CASE SrvIgnore(c)
  <2>1. /\ ~h.sync /\ q # <<>> /\ UNCHANGED <<client, handler, s2c>>
        /\ c2s' = [c2s EXCEPT ![c] = rest]
    BY <1>4 DEF SrvIgnore, Consume, h, q, rest, IInv, TypeOK
  <2>2. Announced(rest)
    BY <1>1, <1>2, <2>1, AnnouncedTail DEF q, rest
  <2>3. Right(k, h, rest, r, f)
    BY <1>2, <2>1, <2>2 DEF Right
  <2>4. handler' = [handler EXCEPT ![c] = h] /\ s2c' = [s2c EXCEPT ![c] = r]
    BY <1>1, <2>1
  <2>5. StagedInv'
    BY <1>1, <1>3, <2>1, <2>3, <2>4, HandlerLocal DEF k, f
  <2> QED
    BY <1>3, <2>5 DEF StagedStep
<1>5. CASE SrvExit(c) \/ SrvKilled(c)
  <2>1. /\ handler' = [handler EXCEPT ![c] = HandlerNone]
        /\ c2s' = [c2s EXCEPT ![c] = <<>>] /\ UNCHANGED <<client, s2c>>
    BY <1>5 DEF SrvExit, SrvKilled
  <2>2. s2c' = [s2c EXCEPT ![c] = r]
    BY <1>1, <2>1
  <2>3. Right(k, HandlerNone, <<>>, r, f)
    BY <1>2, GoneRight
  <2>4. StagedInv'
    BY <1>1, <1>3, <2>1, <2>2, <2>3, HandlerLocal DEF k, f
  <2> QED
    BY <1>3, <2>4 DEF StagedStep
<1>6. CASE Connect(c)
  <2> DEFINE k2 == [ClientOff EXCEPT !.pc = "prompt"]
  <2>1. PICK b \in BOOLEAN : handler' = [handler EXCEPT ![c] = HandlerIdle(b)]
    BY <1>6 DEF Connect
  <2>2. client' = [client EXCEPT ![c] = k2] /\ UNCHANGED <<c2s, s2c>>
        /\ h.pc = "none" /\ k.pc = "off"
    BY <1>6 DEF Connect, Up, Alive, h, k
  <2>3. q = <<>> /\ r = <<>>
    BY <2>2, Here DEF InStepAt, OneAnswer, OneQuestion, h, k, q, r
  <2>4. k2.pc = "prompt" /\ k2.report = "none"
    BY DEF ClientOff
  <2>5. /\ HandlerIdle(b).pc = "dispatch" /\ HandlerIdle(b).file = "none"
        /\ HandlerIdle(b).data = <<>>
    BY DEF HandlerIdle
  <2> HIDE DEF k2
  <2>6. Right(k2, HandlerIdle(b), q, r, f)
    BY <1>2, <2>3, <2>4, <2>5 DEF Right, Exact, Agreed, Told, Busy
  <2>7. /\ client'[c] = k2 /\ handler'[c] = HandlerIdle(b) /\ c2s'[c] = q /\ s2c'[c] = r
        /\ \A d \in Conn : d # c =>
             /\ client'[d] = client[d] /\ handler'[d] = handler[d]
             /\ c2s'[d] = c2s[d] /\ s2c'[d] = s2c[d]
    BY <2>1, <2>2 DEF q, r, IInv, TypeOK
  <2>8. StagedInv'
    BY <1>1, <1>3, <2>6, <2>7, Local DEF f
  <2> QED
    BY <1>3, <2>8 DEF StagedStep
<1>7. CASE SrvBreakDownload(c)
  <2>1. /\ h.pc = "down" /\ h.sync /\ ~k.sync /\ h \in HandlerState /\ UNCHANGED client
    BY <1>7, Here DEF SrvBreakDownload, InStepAt, OutOfStep, h, k
  <2>2. Closed(h) \in HandlerState
    BY <2>1, HandlerTyped
  <2> DEFINE h1 == [Closed(h) EXCEPT !.sync = FALSE]
  <2>3. /\ h1.pc = "dispatch" /\ ~h1.sync /\ Closed(h).pc = "dispatch"
        /\ Exact(h1, f.part) /\ Exact(Closed(h), f.part)
    BY <2>2, ClosedFacts DEF HandlerState
  <2>4. \/ q # <<>> /\ ReplyLeaving(c, Left, h1, q)
        \/ ReplyLeaving(c, Left, Closed(h), <<>>)
    BY <1>7 DEF SrvBreakDownload, h, q
  <2> HIDE DEF h1
  <2>5. /\ \A x \in Name : x # NameOf[c] => disk'[x] = disk[x]
        /\ disk'[NameOf[c]] = f /\ disk[NameOf[c]] = f
    BY <1>3 DEF f
  <2>6. ASSUME NEW h2, h2.pc = "dispatch", Exact(h2, f.part), NEW q2,
               q2 = <<>> \/ (q2 = q /\ ~h2.sync), ReplyLeaving(c, Left, h2, q2)
        PROVE  StagedInv'
    <3>1. Left \in ToClient
      BY LeftTyped
    <3>2. /\ handler[c].sync /\ ~client[c].sync /\ UNCHANGED client
          /\ q2 = <<>> \/ (q2 = c2s[c] /\ ~h2.sync)
      BY <2>1, <2>6 DEF h, k, q
    <3>3. /\ WholeFile(disk'[NameOf[c]]) /\ Exact(h2, disk'[NameOf[c]].part)
          /\ disk'[NameOf[c]].final = disk[NameOf[c]].final
      BY <1>1, <2>5, <2>6
    <3> QED
      BY <2>5, <2>6, <3>1, <3>2, <3>3, ReplyStaged
  <2>7. StagedInv'
    BY <2>3, <2>4, <2>6
  <2> QED
    BY <1>3, <2>7 DEF StagedStep
<1>8. CASE LeaveUnread(c)
  <2> DEFINE k2 == [k EXCEPT !.sync = FALSE]
  <2>1. /\ client' = [client EXCEPT ![c] = k2] /\ s2c' = [s2c EXCEPT ![c] = <<Left>>]
        /\ UNCHANGED c2s /\ q = <<>> /\ h.pc = "dispatch" /\ k.pc = "prompt"
        /\ k \in ClientState /\ h \in HandlerState
    BY <1>8, Here DEF LeaveUnread, h, k, q, IInv, TypeOK
  <2>2. k2.pc = "prompt" /\ k2.report = k.report /\ ~k2.sync /\ k2.size = k.size
    BY <2>1 DEF ClientState
  <2>3. PICK h2 \in {h, [h EXCEPT !.pc = "down"], HandlerIdle(TRUE), HandlerIdle(FALSE)} :
          handler' = [handler EXCEPT ![c] = h2]
    BY <1>1, <1>8 DEF LeaveUnread, h, IInv, TypeOK
  <2> HIDE DEF k2
  <2>4. h2.pc \in {"dispatch", "down"} /\ h2.file = "none" /\ h2.data = <<>>
    <3>1. h.file = "none" /\ h.data = <<>>
      BY <1>2, <2>1 DEF Exact
    <3> QED
      BY <2>1, <2>3, <3>1 DEF HandlerIdle, HandlerState
  <2>5. Right(k2, h2, q, <<Left>>, f)
    <3>1. Exact(h2, f.part)
      BY <2>4 DEF Exact
    <3>2. Told(k2, <<Left>>, f.final)
      BY <1>2, <2>2 DEF Told
    <3> QED
      BY <1>2, <2>2, <3>1, <3>2 DEF Right
  <2>6. /\ client'[c] = k2 /\ handler'[c] = h2 /\ c2s'[c] = q /\ s2c'[c] = <<Left>>
        /\ \A d \in Conn : d # c =>
             /\ client'[d] = client[d] /\ handler'[d] = handler[d]
             /\ c2s'[d] = c2s[d] /\ s2c'[d] = s2c[d]
    BY <2>1, <2>3 DEF q, IInv, TypeOK
  <2>7. StagedInv'
    BY <1>1, <1>3, <2>5, <2>6, Local DEF f
  <2> QED
    BY <1>3, <2>7 DEF StagedStep
<1> QED
  BY <1>4, <1>5, <1>6, <1>7, <1>8

-----------------------------------------------------------------------------
(* The invariant and the refinement *)

LEMMA StagedInitially == Init => StagedInv
<1> SUFFICES ASSUME Init PROVE StagedInv
  OBVIOUS
<1>1. \A n \in Name : WholeFile(disk[n])
  BY DEF Init, WholeFile
<1>2. ASSUME NEW c \in Conn
      PROVE  Right(client[c], handler[c], c2s[c], s2c[c], disk[NameOf[c]])
  <2>1. Told(client[c], s2c[c], disk[NameOf[c]].final)
    BY BackFacts DEF Init, Told
  <2>2. client[c].report # "ok"
    BY BackFacts DEF Init
  <2>3. /\ handler[c] = HandlerNone /\ c2s[c] = <<>>
    BY DEF Init
  <2> QED
    BY <2>1, <2>2, <2>3, GoneRight
<1> QED
  BY <1>1, <1>2 DEF StagedInv

LEMMA StagedInductive ==
  ASSUME Exclusive, "io" \notin Faults, IInv, StagedInv, [Next]_vars
  PROVE  StagedInv' /\ StagedStep
<1>1. CASE UNCHANGED vars
  <2>1. UNCHANGED <<client, handler, c2s, s2c, disk>>
    BY <1>1 DEF vars
  <2> QED
    BY <2>1 DEF StagedInv, StagedStep
<1>2. ASSUME NEW c \in Conn, UploadStep(c) \/ UserStep(c),
             ~Connect(c), ~LeaveUnread(c)
      PROVE  StagedInv' /\ StagedStep
  <2>1. UNCHANGED disk
    BY <1>2 DEF UploadStep, UserStep, StartUpload, ClientRes, SendChunk, SendComplete,
                ClientAck, ClientFinal, ClientLost, ClientAbort, ClientQuit, ClientKilled,
                ClientInvalid
  <2> QED
    BY <1>2, <2>1, ClientStaged, ClientAstrayStaged DEF StagedStep
<1>3. ASSUME NEW c \in Conn,
             HandlerStep(c) \/ SrvKilled(c) \/ Connect(c) \/ LeaveUnread(c)
      PROVE  StagedInv' /\ StagedStep
  BY <1>3, AskedStaged, WrittenStaged, PublishStaged, RestStaged DEF HandlerStep
<1> QED
  BY <1>1, <1>2, <1>3 DEF Next

\* With one connection for each path and no I/O error the invariant holds, for
\* any number of connections, paths, versions, sizes and other failures.
THEOREM StagedInvariance ==
  ASSUME Exclusive, "io" \notin Faults
  PROVE  Spec => []StagedInv
<1>1. IInv /\ StagedInv /\ [Next]_vars => StagedInv'
  BY StagedInductive
<1> QED
  BY <1>1, StagedInitially, Invariance, PTL DEF Spec

\* An acknowledged offset never runs ahead of what is in the .part and in the
\* handler's buffer (server.c:446-488).
THEOREM AckedCovered ==
  ASSUME Exclusive, "io" \notin Faults
  PROVE  Spec => []AckedIsStaged
<1>1. IInv /\ StagedInv => AckedIsStaged
  <2> SUFFICES ASSUME IInv, StagedInv, NEW c \in Conn, handler[c].pc = "chunk"
               PROVE  /\ disk[NameOf[c]].part # NoFile
                      /\ handler[c].off <= Len(Pending(c)[NameOf[c]].part)
    BY DEF AckedIsStaged
  <2>1. /\ disk[NameOf[c]].part # NoFile /\ handler[c].off \in Nat
        /\ Longer(disk, Pending(c), NameOf[c], handler[c].off)
    BY PendingAppends
  <2>2. /\ NameOf[c] \in Name /\ disk \in Disk /\ WholeFile(disk[NameOf[c]])
    BY Here
  <2>3. Len(Pending(c)[NameOf[c]].part) = handler[c].off
    BY <2>1, <2>2, LongerFacts
  <2> QED
    BY <2>1, <2>3
<1> QED
  BY <1>1, Invariance, StagedInvariance, PTL

\* A file is published at a length that was announced, and whole (server.c:495-520).
THEOREM Published ==
  ASSUME Exclusive, "io" \notin Faults
  PROVE  Spec => []PublishedComplete
<1>1. StagedInv => PublishedComplete
  BY DEF StagedInv, WholeFile, Solid, Lengths, PublishedComplete
<1> QED
  BY <1>1, StagedInvariance, PTL

\* A user who reads "Upload complete" finds the file at the announced length
\* (client.c:231-262).
THEOREM Reported ==
  ASSUME Exclusive, "io" \notin Faults
  PROVE  Spec => []ReportTrue
<1>1. StagedInv => ReportTrue
  BY DEF StagedInv, Right, Told, ReportTrue
<1> QED
  BY <1>1, StagedInvariance, PTL

\* The upload implements StagedFile: the .part is only appended to, started
\* again when it is longer than the file announced, and published in one step.
THEOREM StagedImplemented ==
  ASSUME Exclusive, "io" \notin Faults
  PROVE  Spec => StagedSpec
<1>1. Init => Staged!Init
  BY DEF Init, Staged!Init
<1>2. IInv /\ StagedInv /\ [Next]_vars => [Staged!Next]_disk
  BY StagedInductive DEF StagedStep, Restart, Staged!Next
<1> QED
  BY <1>1, <1>2, Invariance, StagedInvariance, PTL DEF Spec, StagedSpec, Staged!Spec

\* What a step may do to the .part of n by KeptForResume.
Keep(n) ==
  disk[n].part # NoFile =>
    \/ disk'[n].part = NoFile /\ disk'[n].final = disk[n].part
    \/ disk'[n].part # NoFile /\ Len(disk'[n].part) >= Len(disk[n].part)
    \/ \E c \in Conn : /\ NameOf[c] = n /\ handler[c].pc = "open"
                       /\ handler[c].size < Len(disk[n].part)

\* An interrupted upload keeps its .part: with the path to itself a connection
\* loses none of it to any failure but I/O errors (server.c:378-424, 508).
THEOREM ResumeKept ==
  ASSUME Exclusive, "io" \notin Faults
  PROVE  Spec => KeptForResume
<1>1. ASSUME IInv, StagedStep, NEW n \in Name PROVE Keep(n)
  <2>1. /\ disk \in [Name -> [part : File, final : File]]
        /\ disk[n].part # NoFile => Len(disk[n].part) \in Nat
    BY <1>1 DEF IInv, TypeOK, File
  <2>2. ASSUME NEW x \in Name, Staged!Extend(x) PROVE Keep(n)
    <3>1. CASE x = n
      BY <2>2, <3>1 DEF Keep, Staged!Extend
    <3>2. CASE x # n
      BY <2>1, <2>2, <3>2 DEF Keep, Staged!Extend
    <3> QED
      BY <3>1, <3>2
  <2>3. ASSUME NEW x \in Name, Restart(x) PROVE Keep(n)
    <3>1. CASE x = n
      BY <2>3, <3>1 DEF Restart, Keep
    <3>2. CASE x # n
      BY <2>1, <2>3, <3>2 DEF Keep, Restart, Staged!Begin
    <3> QED
      BY <3>1, <3>2
  <2>4. ASSUME NEW x \in Name, Staged!Publish(x) PROVE Keep(n)
    BY <2>1, <2>4 DEF Staged!Publish, Keep
  <2>5. ASSUME UNCHANGED disk PROVE Keep(n)
    BY <2>1, <2>5 DEF Keep
  <2> QED
    BY <1>1, <2>2, <2>3, <2>4, <2>5 DEF StagedStep
<1>2. IInv /\ StagedInv /\ [Next]_vars => [\A n \in Name : Keep(n)]_vars
  BY <1>1, StagedInductive
<1>3. Spec => [][\A n \in Name : Keep(n)]_vars
  BY <1>2, Invariance, StagedInvariance, PTL DEF Spec
<1>4. [][\A n \in Name : Keep(n)]_vars => KeptForResume
  BY PTL DEF Keep, KeptForResume
<1> QED
  BY <1>3, <1>4, PTL
=============================================================================
