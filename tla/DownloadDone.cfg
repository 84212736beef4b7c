SPECIFICATION Spec
CONSTANTS
  Items = {a}
  Versions = 1
  Length <- Single
  ServerDates = TRUE
  DiskMayFill = FALSE
  Calls <- AllCalls
  Adverse = TRUE
  MaxSignals = 1
  NoFile = NoFile
  NoItem = NoItem
  NoCall = NoCall
PROPERTIES DoneStays
