SPECIFICATION Spec
CONSTANTS
  SeqSpace = 8
  DefaultSize = 1
  Segments <- MCSegments
  Iss = 5
  Window = 3
  ByteBase = 2
  Connects = FALSE
  SendSizes = {}
  ReplySizes = {0, 2, 3, 4}
  HeaderRoom = 3
  LowerRoom = 2
  SendBound = 0
  FlagSets = {{"SYN"}, {"ACK"}, {"RST"}, {"SYN", "ACK"}, {"SYN", "RST"}, {"FIN", "ACK"}, {}}
  SeqNums = {0, 3, 4, 6}
  AckNums = {6, 7}
  Windows = {2}
  PayloadSizes = {0, 2}
INVARIANTS
  TypeOK
  BuffersSorted
  HeadPresent
  DataAfterHandshake
PROPERTIES
  ReceiveNextMonotone
  WindowCloses
  PacketsFinish
\* a fault ends the process
CHECK_DEADLOCK FALSE
