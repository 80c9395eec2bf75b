SPECIFICATION UnitsSpec
CONSTANTS
  W = 4
  Window = 4
  ListenPorts = {80}
  OtherPorts = {99}
  IPs = {"host", "other"}
  GuestPorts = {8080, 1025}
  FlagSets = {{}, {"SYN"}, {"ACK"}, {"SYN", "ACK"}, {"ACK", "PSH"}, {"ACK", "FIN"}}
  Lens = {0, 1, 2}
  ReplyLens = {0, 2}
  HostIP = "host"
  Threads = {1, 2}
  SpaceUnits = 8
  Requests = {1, 2, 3}
INVARIANTS AcksMatchData
  ChecksumsRight  KernelFindsItsMemory   
  KeysKept  TicksGetThrough TimeWasShown CardsAttached HeapExact 
CHECK_DEADLOCK FALSE
