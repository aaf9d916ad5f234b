------------------------------ MODULE StagedFile ------------------------------
(***************************************************************************)
(* What the staging area of lab_6/uploader promises for each path: bytes    *)
(* are collected in a .part that is only appended to, so an interrupted     *)
(* upload can be resumed where it stopped, and a reader of the final name   *)
(* sees nothing of it until it is renamed, whole, in one step.              *)
(***************************************************************************)
EXTENDS Integers, Sequences

CONSTANTS Name,    \* the paths
          Length,  \* the lengths a complete file may have
          NoFile

VARIABLE disk  \* [Name -> [part, final]]

Init == disk = [n \in Name |-> [part |-> NoFile, final |-> NoFile]]

\* A new .part, or a fresh start over one that is longer than a file to come.
Begin(n) ==
  /\ \/ disk[n].part = NoFile
     \/ \E l \in Length : l < Len(disk[n].part)
  /\ disk' = [disk EXCEPT ![n].part = <<>>]

Extend(n) ==
  LET p == disk[n].part
      q == disk'[n].part IN
  /\ p # NoFile /\ q # NoFile
  /\ Len(q) >= Len(p) /\ SubSeq(q, 1, Len(p)) = p
  /\ disk' = [disk EXCEPT ![n].part = q]

Publish(n) ==
  /\ disk[n].part # NoFile /\ Len(disk[n].part) \in Length
  /\ disk' = [disk EXCEPT ![n] = [part |-> NoFile, final |-> disk[n].part]]

Next == \E n \in Name : Begin(n) \/ Extend(n) \/ Publish(n)

Spec == Init /\ [][Next]_disk
=============================================================================
