\* Every command of a connection after the other, with all failures.
SPECIFICATION FairSpec
CONSTANTS
  c1 = c1
  ana = ana
  dan = dan
  pw = pw
  Conn <- OneConn
  User <- TwoUsers
  Password <- OnePassword
  Known <- OneAccount
  Commands <- AllCommands
  MaxFiles = 1
  Backlog = 4
  Faults <- AllFaults
  Nobody = Nobody
INVARIANTS TypeOK FlagsAgree
 
CHECK_DEADLOCK FALSE
