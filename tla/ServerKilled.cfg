\* One session for two clients that are killed, like the worker and the server.
SPECIFICATION Spec
CONSTANTS
  c1 = c1
  c2 = c2
  admin = admin
  bob = bob
  Client <- TwoClients
  User <- Users1
  Known <- Users1
  Admin = admin
  Commands <- LoginQuit
  NSessions = 1
  NJobs = 1
  Capacity = 1
  Faults <- AllFaults
  Patient = TRUE
  Nobody = Nobody
PROPERTIES UserGranted
CHECK_DEADLOCK FALSE
SYMMETRY TwoAlike
