\* Any three failures.
SPECIFICATION FairSpec
CONSTANTS
  v1 = v1
  v2 = v2
  v3 = v3
  Version <- ThreeVersions
  Size <- Sizes
  NoFile = NoFile
  Hole = Hole
  BufferSize = 2
  Faults <- AllFaults
  MaxFaults = 3
  Backlog = 3
INVARIANTS TypeOK PartFollows FetchedWhole
PROPERTIES DownloadEnds
