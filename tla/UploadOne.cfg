\* One connection to the path, two versions of the file, any two failures but I/O errors.
SPECIFICATION FairSpec
CONSTANTS
  c1 = c1
  c2 = c2
  n1 = n1
  v1 = v1
  v2 = v2
  Conn <- OneConn
  Name <- OneName
  NameOf <- AllOnOneName
  Version <- TwoVersions
  Size <- Sizes
  BufferSize = 2
  Backlog = 3
  Faults <- NoIo
  MaxFaults = 2
  NoFile = NoFile
  Hole = Hole
INVARIANTS TypeOK InTransitAligned  AckedIsStaged PublishedComplete ReportTrue
PROPERTIES StagedSpec UploadEnds HandlerReaped
