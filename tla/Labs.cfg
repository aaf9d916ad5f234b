SPECIFICATION LabsSpec
CONSTANTS
  c1 = c1
  c2 = c2
  p1 = p1
  p2 = p2
  v1 = v1
  v2 = v2
  None = None
  Listener = Listener
  Conn <- TwoConnections
  InParts <- OneConnection
  Descriptors = 4
  Unread = 1
  NWorkers = 2
  PoolSizes = {1, 2}
  Sizes = {2, 3}
  Pid <- TwoPids
  PidsOf <- SameOrNot
  NSessions = 1
  MaxBehind = 2
  Programs <- ThreeLines
  Reports <- TwoReports
  Visitor <- TwoVisitors
  Uint = 3
  Word <- Words
  Arguments <- Commands
  Contents <- Files
  MaxPats = 2
  Texts <- FiveBytes
  LineMax = 3
CHECK_DEADLOCK FALSE
INVARIANTS LabsTypeOK RepliesInStep OneHandler ArrayExact BlockedOnlyByNew LoginRemembered LagCounted HandedOver GrepRight TacRight
PROPERTIES ClosedForCause ServiceAnswers ProgramsEnd
