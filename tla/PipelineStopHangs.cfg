SPECIFICATION FairSpec
CONSTANTS
  FileLen = 2
  Corrupt <- NoneCorrupt
  InCap = 2
  ReadAhead = 2
  HeadAhead = 2
  OutCap = 2
  CardCap = 1
  MaxTokens = 1
  MaxSeeks = 0
  MaxPauses = 0
  SeekTo <- Nowhere
  CardMayFail = FALSE
  MayStop = TRUE
CHECK_DEADLOCK FALSE
PROPERTY StopEnds
