\* The event file while runs truncate or replace it.
SPECIFICATION FairSpec
CONSTANTS
  MaxRuns = 3
  MaxLines = 2
INVARIANTS
  Faithful
  NothingTwice
PROPERTIES
  TailCatchesUp
CHECK_DEADLOCK FALSE
