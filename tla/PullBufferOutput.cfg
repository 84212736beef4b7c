SPECIFICATION FlowSpec
CONSTANTS
  InitSize = 4
  InitOverflow = 0
  Reshapes <- FrameReshapes
  WriteSizes = {2}
  ReadSizes = {2}
  Frame = 2
  Streaming = FALSE
  Stamps = 7
PROPERTIES
  StreamSpec
  ReaderServed
