\* Two connections to one path and any one failure.
SPECIFICATION Spec
CONSTANTS
  c1 = c1
  c2 = c2
  n1 = n1
  v1 = v1
  v2 = v2
  Conn <- TwoConns
  Name <- OneName
  NameOf <- AllOnOneName
  Version <- OneVersion
  Size <- SmallSizes
  BufferSize = 1
  Backlog = 2
  Faults <- AllFaults
  MaxFaults = 1
  NoFile = NoFile
  Hole = Hole
SYMMETRY TwoAlike
INVARIANT IInv
