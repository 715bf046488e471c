SPECIFICATION Spec
CONSTANTS
  Users = {u1}
  Children = {c1, c2}
  Pages = {p1}
  JobPrice = 1
  MaxPages = 2
  FirstBalance = 1
  Deposit = 1
  Garbage <- SomeGarbage
  MaxJobs = 3
  MaxEdits = 2
  MaxFailures = 1
  Free = Free
INVARIANTS TypeOK ReadIsFresh BalanceIsLedger OverdraftBounded
SYMMETRY Symmetry
CHECK_DEADLOCK FALSE
