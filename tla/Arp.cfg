SPECIFICATION Spec
CONSTANTS
  Size = 2
  Entries = {e1, e2, e3}
  Ips = {ip1, ip2, ip3}
  Macs <- TwoMacs
  InitialIndex = {0, 1, 2}
  Garbage = {0, 2}
  Null = Null
SYMMETRY Symmetry
INVARIANTS ListConsistent MappingIsLatest NoUseAfterFree
