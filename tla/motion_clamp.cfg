SPECIFICATION Spec
CONSTANTS
  Joints <- MCJoints
  JointNames <- MCJointNames
  Lo <- MCLo
  Hi <- MCHi
  MaxDuration = 3
  MaxActions = 3
  Plans <- MCPlans
  ArmStarts <- MCArmStarts
  HomeDuration = 2
INVARIANT AlwaysClamped
