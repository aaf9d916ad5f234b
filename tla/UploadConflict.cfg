\* Two connections of one user upload the same file.
SPECIFICATION Spec
CONSTANTS
  c1 = c1
  c2 = c2
  n1 = n1
  v1 = v1
  v2 = v2
  Conn <- TwoConns
  Name <- OneName
  NameOf <- AllOnOneName
  Version <- OneVersion
  Size <- Sizes
  BufferSize = 2
  Backlog = 2
  Faults <- NoFaults
  MaxFaults = 0
  NoFile = NoFile
  Hole = Hole
PROPERTIES KeptForResume
