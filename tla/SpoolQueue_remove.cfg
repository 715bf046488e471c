SPECIFICATION FairSpec
CONSTANTS
  QUEUE_LENGTH = 2
  Clients = {c1,c2}
  Removers = {r1}
  Printers = {p1,p2}
  MaxJobs = 2
  UnknownUsers = {c2}
  AdminMoves = 0
  MaxCrashes = 0
  StartCounts = {3}
  Free = Free
  Service = Service
INVARIANTS TypeOK LockExclusion ChildrenCounted
PROPERTIES LockComesFree
CHECK_DEADLOCK FALSE
