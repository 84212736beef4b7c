SPECIFICATION Spec
CONSTANTS
  InitSize = 4
  InitOverflow = 2
  Reshapes <- NoReshapes
  WriteSizes = {1, 2}
  ReadSizes = {0, 2, 3}
  Frame = 1
  Streaming = TRUE
  Stamps = 3
INVARIANTS
  TypeOK
  IndicesAgree
  PointersHold
  WindowsInMemory
  WindowsDisjoint
  RefusedOnlyWhenNeeded
  NeverBothRefused
PROPERTIES
  StreamSpec
