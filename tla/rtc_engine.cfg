SPECIFICATION FairSpec
CONSTANTS
  OperatorTasks = {t0, t1}
  InitialTask = t0
  Subtasks = {t1}
  Goals = {g}
  Question = Question
  None = None
  Chunk = 2
  MaxDelay = 1
  Threshold = 1
  Warmup = 1
  MaxErrors = 2
  MaxSegments = 1
  MaxQuestions = 1
CHECK_DEADLOCK FALSE
INVARIANTS FreshActions LabelsInForce OperatorWins QuestionsKept
PROPERTIES QuestionsResolve SteeringGoesOn RobotIsFed
