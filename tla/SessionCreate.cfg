\* An account is created.
SPECIFICATION Spec
CONSTANTS
  c1 = c1
  ana = ana
  dan = dan
  pw = pw
  Conn <- OneConn
  User <- TwoUsers
  Password <- OnePassword
  Known <- OneAccount
  Commands <- WithCreate
  MaxFiles = 1
  Backlog = 2
  Faults <- NoFaults
  Nobody = Nobody
INVARIANTS EntersByEither
