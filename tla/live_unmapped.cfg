SPECIFICATION BenchSpec
CONSTANTS
  Joints = {"2", "6"}
  JointNames = {"2", "6"}
  Gripper = "6"
  MaxDuration = 5
  MaxActions = 4
  Tolerance = 1
  Lo <- MCLo
  Hi <- MCHi
  SdkName <- MCSdkName
  Probe <- MCProbe
  Rests <- MCRests
  Commands <- MCCommands
  Seen <- MCSeen
  MaxClicks = 5
  Labels <- MCLabels
INVARIANT EveryJointLanded
