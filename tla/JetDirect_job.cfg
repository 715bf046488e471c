SPECIFICATION Spec
CONSTANTS
  MaxChars = 2
  MaxTries = 2
  MaxPages = 2
  MaxCount = 3
  MaxLine = 2
  MaxEvents = 2
INVARIANTS NoPageInvented PagesComplete
PROPERTY DriverEnds
CHECK_DEADLOCK FALSE
