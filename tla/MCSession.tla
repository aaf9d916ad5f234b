------------------------------ MODULE MCSession ------------------------------
(* Instances of Session: two users with one password, one of them known.     *)
EXTENDS Session

CONSTANTS c1, ana, dan, pw

OneConn   == {c1}
TwoUsers  == {ana, dan}
OnePassword == {pw}
OneAccount == {<<ana, pw>>}

AllCommands   == CommandNames
WithCreate    == {"login", "create", "logout"}

NoFaults  == {}
AllFaults == FaultNames
=============================================================================
