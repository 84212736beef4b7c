SPECIFICATION FairSpec
CONSTANTS
  FileLen = 5
  Corrupt <- SecondCorrupt
  InCap = 2
  ReadAhead = 2
  HeadAhead = 2
  OutCap = 3
  CardCap = 2
  MaxTokens = 2
  MaxSeeks = 0
  MaxPauses = 0
  SeekTo <- Nowhere
  CardMayFail = TRUE
  MayStop = FALSE
CHECK_DEADLOCK FALSE
INVARIANTS TypeOK EventsNearFrame FewLeft
PROPERTIES NextFrame Completes
