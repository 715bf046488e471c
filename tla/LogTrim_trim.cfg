SPECIFICATION FairSpec
CONSTANTS
  Writers = {w1,w2}
  Unsure = {w2}
  Marks <- SomeMarks
  MaxEntries = 5
  MaxKills = 1
  Free = Free
INVARIANTS NewestLinesKept LogBounded
PROPERTIES EntryEnds
CHECK_DEADLOCK FALSE
