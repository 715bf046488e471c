SPECIFICATION Spec
CONSTANTS
  QUEUE_LENGTH = 3
  NumPrinters = 2
  Programs = {"ppq","lpq","pprm"}
  PpqModulus = 8
  OldestJobs = {4}
  Garbage = {0}
  MaxArrivals = 2
INVARIANTS EveryJobShown ReportedAgainBehindLater RemovedUpToHere
CHECK_DEADLOCK FALSE
