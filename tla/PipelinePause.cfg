SPECIFICATION Spec
CONSTANTS
  FileLen = 4
  Corrupt <- SecondCorrupt
  InCap = 2
  ReadAhead = 2
  HeadAhead = 2
  OutCap = 3
  CardCap = 1
  MaxTokens = 1
  MaxSeeks = 0
  MaxPauses = 2
  SeekTo <- Nowhere
  CardMayFail = TRUE
  MayStop = FALSE
CHECK_DEADLOCK FALSE
PROPERTIES NextFrame
