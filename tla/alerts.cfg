\* Alerts of the dashboard and of runs while runs begin and the link fails.
SPECIFICATION FairSpec
CONSTANTS
  MaxAlerts = 3
  MaxResets = 2
INVARIANTS
  CreatedOnce
  CardsAreTrue
  StopLosesTheTail
PROPERTIES
  EveryAlertAnswered
CHECK_DEADLOCK FALSE
