SPECIFICATION Spec
CONSTANTS
  Pages = {g1, g2}
  QueueNames = {a, b}
  PrinterNames = {p, q}
  MAX_QUEUES = 2
  MAX_PRINTERS_PER_QUEUE = 2
  StartQueues = {0, 2}
  MaxRequests = 5
SYMMETRY Symmetry
INVARIANTS RowsDistinct RowsWhole ReadFailsOnlyOnDeleted
CHECK_DEADLOCK FALSE
