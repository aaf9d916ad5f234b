------------------------------ MODULE MCUpload ------------------------------
(* Instances of Upload: names for the connections, sizes for the versions.  *)
EXTENDS UploadInv, TLC

CONSTANTS c1, c2, n1, v1, v2

OneConn  == {c1}
TwoConns == {c1, c2}
OneName  == {n1}
OneVersion  == {v1}
TwoVersions == {v1, v2}

AllOnOneName == [c \in Conn |-> n1]

\* v1 needs two chunks, the second of them short; v2 is smaller.
Sizes == [v \in Version |-> IF v = v1 THEN 3 ELSE 2]

\* Two chunks of one byte, for the runs with two connections.
SmallSizes == [v \in Version |-> 2]

AllFaults   == FaultKinds
NoIo        == FaultKinds \ {"io"}
NoFaults    == {}

\* The two connections to one path are alike (UploadShared).
TwoAlike == Permutations(TwoConns)
=============================================================================
