-------------------------------- MODULE MCLabs --------------------------------
(* A small instance of each program of the labs.                            *)
EXTENDS Labs

CONSTANTS c1, c2, p1, p2, v1, v2

TwoConnections == {c1, c2}
OneConnection  == {c1}
TwoPids        == {p1, p2}
SameOrNot      == {f \in [TwoConnections -> TwoPids] : f[c1] = p1}

TwoReports    == BoundedSeq({"tty", "pts"}, 2)
ThreeLines    == BoundedSeq({"include", "other"}, 3)
TwoVisitors   == {v1, v2}

Words     == {"p", "q", "r"}
Options   == {[opt |-> o, val |-> "p"] : o \in {"v", "i", "c", "l", "L"}}
WithWords == {[opt |-> o, val |-> w] : o \in {"e", "word"}, w \in Words}
Commands  == BoundedSeq(Options \cup WithWords, 3)
FiveBytes == BoundedSeq({"nl", "a"}, 5)

\* "r" is no file.
Bare  == [exact |-> {}, fold |-> {}]
Mixed == [exact |-> {"p"}, fold |-> {"p", "q"}]
Exact == [exact |-> {"q"}, fold |-> {"q"}]
Files == {[w \in {"p", "q"} |-> IF w = "p" THEN s ELSE <<Exact>>] :
            s \in {<<Bare, Mixed>>, <<Mixed, Exact, Mixed>>, <<>>}}
=============================================================================
