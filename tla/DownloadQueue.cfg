SPECIFICATION FairSpec
CONSTANTS
  Items = {a, b}
  Versions = 1
  Length <- Single
  ServerDates = FALSE
  DiskMayFill = FALSE
  Calls <- QueueOnly
  Adverse = FALSE
  MaxSignals = 1
  NoFile = NoFile
  NoItem = NoItem
  NoCall = NoCall
PROPERTIES QueuedIsTried
