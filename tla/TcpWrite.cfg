SPECIFICATION Spec
CONSTANTS
  SeqSpace = 32
  DefaultSize = 1
  Threads = {"worker", "app"}
  ReplySizes = {0, 3}
  SendSizes = {2}
  Room = 6
  Windows = {1, 3}
  Renumbers = {1}
  Highest = 1
  ReadBound = 1
  PacketBound = 3
  MoveBound = 1
INVARIANTS
  OwnHeader
  Encapsulated
  QueueConsistent
  LeaveInOrder
PROPERTIES
  CallsEnd
\* a fault ends the process, and the packets are bounded
CHECK_DEADLOCK FALSE
