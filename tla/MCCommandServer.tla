--------------------------- MODULE MCCommandServer ---------------------------
(* Instances of CommandServer: two clients, two user names.                 *)
EXTENDS CommandServer, TLC

CONSTANTS c1, c2, admin, bob

TwoClients == {c1, c2}
Users2     == {admin, bob}
Users1     == {admin}

MainCommands  == {"login", "users", "logout", "quit", "quit-server", "xlogout"}
FourCommands  == {"login", "info", "logout", "quit"}
LoginQuit     == {"login", "quit"}
OnlyHelp      == {"help"}

TwoAlike == Permutations({c1, c2})

NoFaults  == {}
Leaving   == {"eof"}
AllFaults == {"eof", "kill", "crash", "interrupt"}
=============================================================================
