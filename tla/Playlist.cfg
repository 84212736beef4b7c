CONSTANTS
  Items = {a, b, c}
  NoItem = none
  Threads = {t1, t2}
  RepeatModes <- StopAtEnd
SPECIFICATION FairSpec
INVARIANTS TypeOK ShuffleIsArrangement NoneFreedUnderThread
PROPERTIES CursorValid CursorStays RemovedAreFreed
CHECK_DEADLOCK FALSE
