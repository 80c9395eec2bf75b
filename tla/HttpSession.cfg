SPECIFICATION SessionSpec
CONSTANTS
  W = 16
  Window = 6
  ListenPorts = {80}
  OtherPorts = {}
  IPs = {host}
  GuestPorts = {8080, 1025, 1026}
  FlagSets = {}
  Lens = {}
  ReplyLens = {}
  HostIP = host
  Clients = {1025, 1026}
  Isn <- MCIsn
  Pieces <- MCPieces
  MaxLoss = 1
  Cap = 2
INVARIANTS AnswersRight
PROPERTIES AllServed
CHECK_DEADLOCK FALSE
