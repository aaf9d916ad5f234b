\* Commands typed faster than the server closes the last answer.
SPECIFICATION Spec
CONSTANTS
  c1 = c1
  c2 = c2
  admin = admin
  bob = bob
  Client <- TwoClients
  User <- Users1
  Known <- Users1
  Admin = admin
  Commands <- OnlyHelp
  NSessions = 2
  NJobs = 2
  Capacity = 2
  Faults <- NoFaults
  Patient = FALSE
  Nobody = Nobody
INVARIANT AnswerMatches
