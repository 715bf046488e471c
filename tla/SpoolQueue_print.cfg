SPECIFICATION Spec
CONSTANTS
  QUEUE_LENGTH = 2
  Clients = {c1,c2}
  Removers = {}
  Printers = {p1,p2}
  MaxJobs = 3
  UnknownUsers = {}
  AdminMoves = 1
  MaxCrashes = 1
  StartCounts = {3}
  Free = Free
  Service = Service
SYMMETRY Symmetry
INVARIANTS PrintingFilesInPlace ChargedToOwner NothingAbandoned InfFilesWindowed NumberIsFree PrintedOnce
PROPERTIES QueuedJobStays ImplementsPrintSpool
CHECK_DEADLOCK FALSE
