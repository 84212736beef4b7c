SPECIFICATION Spec
CONSTANTS
  FileLen = 2
  Corrupt <- NoneCorrupt
  InCap = 2
  ReadAhead = 2
  HeadAhead = 2
  OutCap = 2
  CardCap = 1
  MaxTokens = 1
  MaxSeeks = 2
  MaxPauses = 0
  SeekTo <- ToFirst
  CardMayFail = FALSE
  MayStop = FALSE
CHECK_DEADLOCK FALSE
INVARIANTS  NoStaleInput StaleWithinSeeks NoneAsleepWithWindow
CONSTRAINT UntilDecoded
VIEW Seen
