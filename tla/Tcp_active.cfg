SPECIFICATION Spec
CONSTANTS
  SeqSpace = 16
  DefaultSize = 1
  Segments <- MCSegments
  Iss = 2
  Window = 2
  ByteBase = 2
  Connects = TRUE
  SendSizes = {1}
  ReplySizes = {}
  HeaderRoom = 3
  LowerRoom = 2
  SendBound = 4
  FlagSets = {{"SYN"}, {"ACK"}, {"RST"}, {"SYN", "RST"}, {"SYN", "ACK"}, {"RST", "ACK"}, {"FIN", "ACK"}}
  SeqNums = {4, 5}
  AckNums = {2, 3}
  Windows = {2}
  PayloadSizes = {0, 1, 3}
INVARIANTS
  NoDataInSynSent
PROPERTIES
  ConnectHoldsTcb
  
\* a fault ends the process
CHECK_DEADLOCK FALSE
