\* The result of an alert of the last run.
SPECIFICATION Spec
CONSTANTS
  MaxAlerts = 2
  MaxResets = 1
INVARIANTS
  NeverFaked
CHECK_DEADLOCK FALSE
