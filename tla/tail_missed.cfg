\* The event file while runs truncate or replace it.
SPECIFICATION Spec
CONSTANTS
  MaxRuns = 2
  MaxLines = 2
INVARIANTS
  ReopensFromTop
CHECK_DEADLOCK FALSE
