SPECIFICATION Spec
CONSTANTS
  PortSpace = 4
  Sockets = {1, 2}
  Hosts = {1}
  Ports = {1, 2}
  Apps = {a1}
  FlagSets = {{"SYN"}, {"SYN", "RST"}, {"RST", "ACK"}, {"SYN", "ACK"}}
  ListSize = 3
  NumTcb = 2
  ListMemory = {Null, Wild}
  TableMemory = {Null, Wild}
  TcbBound = 3
  Null = Null
  Wild = Wild
INVARIANTS
  TablesConsistent
  LostOnlyWhenFull
  FoundUntilReset
  HeldBlockLive
  SamePorts
  SocketListUsable
\* a fault ends the process
CHECK_DEADLOCK FALSE
