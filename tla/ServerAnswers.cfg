\* Two clients are always answered.
SPECIFICATION FairSpec
CONSTANTS
  c1 = c1
  c2 = c2
  admin = admin
  bob = bob
  Client <- TwoClients
  User <- Users1
  Known <- Users1
  Admin = admin
  Commands <- FourCommands
  NSessions = 2
  NJobs = 2
  Capacity = 2
  Faults <- Leaving
  Patient = TRUE
  Nobody = Nobody
PROPERTIES Answered
