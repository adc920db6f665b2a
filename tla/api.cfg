SPECIFICATION FairApiSpec
CONSTANTS
  Callers = {t1, t2}
  Items = {"marker", "mug"}
  Taught = {"marker", "mug"}
  Bins = {"A", "B"}
  Orders <- MCOrders
  MaxAttempts = 1
  Verifying = TRUE
  Perceiving = FALSE
  None = None
  MaxRequests = 3
CHECK_DEADLOCK FALSE
INVARIANTS
  OneArm
  ReplyIsTrue
PROPERTIES
  IsSerialCell
  RequestsAreAnswered
