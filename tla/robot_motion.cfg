SPECIFICATION MotionSpec
CONSTANTS
  EnableOutcomes = {"ok", "refused"}
  MaxRuns = 2
  MaxJointDelta = 2
  JointMin = 0
  JointMax = 4
  MaxGripperDelta = 2
  GripperMin = 0
  GripperMax = 4
  GripperThreshold = 2
  RampStep = 1
  RampMaxSteps = 10
  MaxDeltaPerStep = 3
  JointTargets = {0, 5}
  GripperTargets = {0, 4}
  StartJoint = 1
  StartGripper = 0
  PoseJoint = 4
  PoseGripper = 2
  None = None
CHECK_DEADLOCK FALSE
INVARIANTS SafeWhenEnded NoStolenReply
PROPERTIES PowerOffBeforeClose StepBounded GripperStepBounded PoseReached
