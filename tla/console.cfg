SPECIFICATION FairMockSpec
CONSTANTS
  NoOrder = NoOrder
  Requests = {r1, r2}
  AskedModes = {"fusion"}
  AskedOutcomes = {"fail"}
  StartMode = "qc"
  StartOutcome = "auto"
INVARIANTS
  PageOfThisRun
  MockTellsTheTruth
PROPERTIES
  SwitchTakesEffect
  StopEnds
