----------------------------- MODULE MCDownload -----------------------------
(* Instances of Download: a file of three bytes, one of one, an empty one.   *)
EXTENDS Download

CONSTANTS v1, v2, v3

ThreeVersions == {v1, v2, v3}
Sizes == [v \in Version |-> IF v = v1 THEN 3 ELSE IF v = v2 THEN 1 ELSE 0]

AllFaults   == FaultKinds
=============================================================================
