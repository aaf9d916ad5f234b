------------------------------ MODULE UploadInv ------------------------------
(***************************************************************************)
(* The inductive invariants from which the properties of Upload are proved. *)
(***************************************************************************)
EXTENDS Upload

\* An open .part is linked where the handler's record says it is.
OpenLinked ==
  \A c \in Conn :
    /\ handler[c].file = "part" => disk[NameOf[c]].part # NoFile
    /\ handler[c].file = "final" => disk[NameOf[c]].final # NoFile

\* The state a running client is in while its message is being answered.
Waiting(t) == CASE t = "req" -> "req" [] t = "chunk" -> "ack"
                [] t = "complete" -> "fin" [] OTHER -> "off"

\* One question, then one answer, unless an earlier command left bytes unread.
OneAnswer(c) ==
  LET m == Head(s2c[c]) IN
  /\ client[c].pc = "off" => s2c[c] = <<>>
  /\ client[c].sync /\ client[c].pc \in {"prompt", "send"} => s2c[c] = <<>>
  /\ client[c].sync /\ s2c[c] # <<>> =>
       /\ Len(s2c[c]) = 1
       /\ m.t # "left"
       /\ client[c].pc \in (IF m.t = "res" THEN {"req", "fin"} ELSE {"ack"})
       /\ handler[c].sync => c2s[c] = <<>>
       /\ m.t = "ack" /\ m.status = 0 => m.off = client[c].pos

\* While the stream is in step, the handler has one message to read, and it is
\* the one its client is waiting about.
OneQuestion(c) ==
  LET m == Head(c2s[c]) IN
  /\ handler[c].pc = "none" => c2s[c] = <<>>
  /\ handler[c].pc = "open" => handler[c].sync /\ c2s[c] # <<>> /\ m.t = "req"
  /\ handler[c].pc = "publish" => handler[c].sync /\ c2s[c] # <<>> /\ m.t = "complete"
  /\ handler[c].sync /\ client[c].sync => Len(c2s[c]) <= 1
  /\ handler[c].sync /\ client[c].sync /\ c2s[c] # <<>> =>
       /\ client[c].pc \in {"off", Waiting(m.t)}
       /\ m.t = "chunk" /\ client[c].pc = "ack" =>
            m.at + Len(m.data) = client[c].pos

\* A client that reads out of step sends requests alone.
OutOfStep(c) ==
  /\ handler[c].pc = "down" => handler[c].sync /\ ~client[c].sync
  /\ ~client[c].sync =>
       /\ client[c].pc \in {"off", "prompt", "req"}
       /\ \A i \in 1..Len(c2s[c]) : c2s[c][i].t \in {"req", "exit"}

InStepAt(c) == /\ OneAnswer(c) /\ OneQuestion(c) /\ OutOfStep(c)
               /\ client[c].pc = "send" => client[c].pos = client[c].off

InStep == \A c \in Conn : InStepAt(c)

\* The bytes d lie at the places after "at".
Placed(d, at) == \A j \in 1..Len(d) : d[j][2] = at + j

PlacedAt(c) ==
  /\ Placed(handler[c].data, handler[c].at)
  /\ \A i \in 1..Len(c2s[c]) :
       c2s[c][i].t = "chunk" => Placed(c2s[c][i].data, c2s[c][i].at)

AllPlaced == \A c \in Conn : PlacedAt(c)

IInv == TypeOK /\ OpenLinked /\ InStep /\ AllPlaced /\ StoredInPlace
=============================================================================
