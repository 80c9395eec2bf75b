SPECIFICATION FilesSpec
CONSTANTS
  Clients = {1, 2}
  Names = {"a", "b"}
  MAXOPEN = 2
  MAXFD = 2
  IDS = 8
  MaxOpens = 3
  Procs = {1, 2, 3, 4, 5}
  FirstProc = 1
  PipeIds = {1, 2}
  MAXFDS = 5
  PIPEBUFSIZ = 2
  PipeBytes = {0, 1, 2, 3}
  Message <- SmallMessage
  Polls = 2
INVARIANTS
  ClosedIsTrue BytesInOrder
   DiskDirectUnshared FlushMakesDurable
  DescriptorsLeadToTheirFile  
PROPERTY PipelineEnds
CHECK_DEADLOCK FALSE
