SPECIFICATION Spec
CHECK_DEADLOCK FALSE
CONSTANTS
  Devices = {{}, {0}, {1}, {0, 1}}
  MaxCheckTime = 2
  NoPort = NoPort
  Mbufs = {m1, m2, m3, m4}
  WorkCapacity = 1
  WriteCapacity = 3
  MaxBurst = 2
  TxRoom = 3
  FrameBound = 2
  WriteBound = 3
  WorkerLcores = {TRUE, FALSE}
  Null = Null
INVARIANTS MbufOwnedOnce QueuesConsistent WritesAfterRing LinkReported
PROPERTIES QueuedIsHandled QuitReachesWait
