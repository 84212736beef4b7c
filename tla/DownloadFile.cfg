SPECIFICATION FairSpec
CONSTANTS
  Items = {a}
  Versions = 2
  Length <- TwoThenOne
  ServerDates = TRUE
  DiskMayFill = TRUE
  Calls <- AllCalls
  Adverse = TRUE
  MaxSignals = 1
  NoFile = NoFile
  NoItem = NoItem
  NoCall = NoCall
INVARIANTS TypeOK OnePiece NoneStranded
PROPERTIES CancelFreesThread ExitEnds
