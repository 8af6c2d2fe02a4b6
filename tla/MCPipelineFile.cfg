SPECIFICATION Spec
CONSTANTS
  SubtaskChoices <- MCLongSubtask
  MaxSubtasks = 2
  MaxRuns = 1
  RecursionLimit = 23
  GitEnabled = FALSE
  Ids = {"st-1", "st-2"}
  IdPrefix <- MCPrefix
INVARIANTS
  LimitOnlyStopsLongPlans
PROPERTIES
  InvocationSettles
