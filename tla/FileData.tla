------------------------------- MODULE FileData -------------------------------
(***************************************************************************)
(* Files as lab_6/uploader transfers them.  Byte i of version v of a file   *)
(* is the pair <<v, i>>, so that a misplaced or foreign byte shows; Hole is *)
(* a byte nobody wrote.                                                     *)
(***************************************************************************)
EXTENDS Integers, Sequences

CONSTANTS Version,     \* contents the file to be transferred may have
          Size,        \* their lengths in bytes
          NoFile, Hole

Datum == Version \X (Nat \ {0})
Byte == Datum \cup {Hole}
File == Seq(Byte) \cup {NoFile}
Content(v) == [i \in 1..Size[v] |-> <<v, i>>]

Least(a, b) == IF a <= b THEN a ELSE b
Most(a, b) == IF a >= b THEN a ELSE b

\* fseek(at) and fwrite(d): a gap below "at" is filled with bytes nobody wrote.
WriteAt(s, at, d) ==
  [i \in 1..Most(Len(s), at + Len(d)) |->
     IF i \in (at + 1)..(at + Len(d)) THEN d[i - at]
     ELSE IF i <= Len(s) THEN s[i] ELSE Hole]

Prefix(d, k) == SubSeq(d, 1, k)
Rest(d, k) == SubSeq(d, k + 1, Len(d))
=============================================================================
