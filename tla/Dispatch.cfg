SPECIFICATION Spec
CONSTANTS
  Frames <- MCFrames
  ArpType = 2054
  Ipv4Type = 2048
  MinType = 1536
  TcpProtocol = 6
  MaxSize = 2
  PriorityBound = 4
  Types = {2054, 2048, 34525, 60, 256}
  Protocols = {6, 17}
INVARIANTS
  MapsConsistent
PROPERTIES
  NotLostTwice
  MisroutedOnlyOnMove
