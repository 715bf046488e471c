SPECIFICATION TableSpec
CONSTANTS
  NumKeys = 3
  MAX_PRINTERS_PER_QUEUE = 2
  MaxEdits = 3
INVARIANTS NoPrinterTwice ListMatchesCopy
PROPERTIES BusyEntryStays
CHECK_DEADLOCK FALSE
