SPECIFICATION FairSpec
CONSTANTS
  Tracks = 3
  UICount = 2
  Commands <- AnyRequest
  MaxQueue = 2
  MayChoose = TRUE
  MayFail = TRUE
CHECK_DEADLOCK FALSE
INVARIANTS TypeOK StateTracksOutput EndIsNoticed AnswersOnTheirWay
PROPERTIES OnlyChoiceParts QuitEnds
