SPECIFICATION FairRoSpec
CONSTANTS
  Callers = {loop}
  Main = loop
  Items = {"marker", "mug"}
  Taught = {"marker"}
  Bins = {"A", "B"}
  Orders <- MCOrders
  MaxAttempts = 2
  Verifying = TRUE
  Perceiving = TRUE
  None = None
  Scale = 10
  CaptureSize <- MCCaptureSize
  Far = 3700000
  Near = 1000
  RollLimit = 90
  JawOffset = 0
  Devices <- MCDevices
  FrameSizes <- MCFrameSizes
  Sight <- MCSight
  Regions <- MCRegions
  Axes = {0, 60, 150}
  Pans <- MCPans
INVARIANTS
  HonestSuccess
  BinsHoldOrders
  ResultTellsTheStory
  ExitIsTrue
  GraspIsAcross
PROPERTIES
  TaughtNeverRefused
  EyesKeepTheBargain
  CommandEnds
