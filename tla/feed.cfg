\* A run on the dashboard: what the page shows agrees with what happened.
SPECIFICATION FairFeedSpec
CONSTANTS
  marker = marker
  binA = binA
  run_order = run_order
  None = None
  Callers = {run_order}
  Items = {marker}
  Taught = {marker}
  Bins = {binA}
  Orders <- MCOrders
  MaxAttempts = 2
  Verifying = TRUE
  Perceiving = TRUE
  MaxPipe = 2
  MaxFile = 4
  NoOrder = NoOrder
INVARIANTS
  PageIsRight
  StripIsRight
PROPERTIES
  BoardCatchesUp
