SPECIFICATION Spec
CONSTANTS
  QUEUE_LENGTH = 2
  Removers = {r1,r2}
  NumPrinters = 1
  Garbage = {0}
  MaxJobs = 5
  MaxRequests = 2
  Free = Free
  Service = Service
INVARIANTS StoppedWasAsked NobodyStuck
PROPERTIES UndisturbedUnlessCut
SYMMETRY Symmetry
CHECK_DEADLOCK FALSE
