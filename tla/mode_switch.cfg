SPECIFICATION MockSpec
CONSTANTS
  NoOrder = NoOrder
  Requests = {r1}
  AskedModes = {"fusion"}
  AskedOutcomes = {"fail"}
  StartMode = "order"
  StartOutcome = "auto"
PROPERTIES ReplyNamesMode
