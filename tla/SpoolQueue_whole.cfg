SPECIFICATION Spec
CONSTANTS
  QUEUE_LENGTH = 2
  Clients = {c1,c2}
  Removers = {}
  Printers = {p1,p2}
  StartCounts = {3}
  MaxJobs = 3
  UnknownUsers = {}
  AdminMoves = 0
  MaxCrashes = 0
  Free = Free
  Service = Service
SYMMETRY Symmetry
INVARIANTS WholeJobsSent
CHECK_DEADLOCK FALSE
