\* Two clients log in, list, log out, quit and end the server.
SPECIFICATION Spec
CONSTANTS
  c1 = c1
  c2 = c2
  admin = admin
  bob = bob
  Client <- TwoClients
  User <- Users2
  Known <- Users2
  Admin = admin
  Commands <- MainCommands
  NSessions = 2
  NJobs = 2
  Capacity = 2
  Faults <- Leaving
  Patient = TRUE
  Nobody = Nobody
INVARIANTS TypeOK JobsOwned JobLeft PromptTruthful AnswerMatches AdminOnly FindIsActive
CHECK_DEADLOCK FALSE
SYMMETRY TwoAlike
