SPECIFICATION FairSpec
CONSTANTS
  Newline = Newline
  BadByte = BadByte
  Byte = {Letter, Newline, BadByte}
  Streams <- AllStreams
  Log <- Numbered
  MaxStdout = 4
  MaxLog = 4
  MaxLine = 2
  MaxStderr = 2
  Buffer = 3
INVARIANTS
  TypeOK
  ReadIsExact
  SinceIsTail
PROPERTIES
  ImplementsReader
  EveryReadEnds
CHECK_DEADLOCK FALSE
