SPECIFICATION Spec
CONSTANTS
  SubtaskChoices <- MCShortSubtasks
  MaxSubtasks = 2
  MaxRuns = 2
  RecursionLimit = 20
  GitEnabled = TRUE
  Ids = {"st-1", "st-2"}
  IdPrefix <- MCPrefix
INVARIANTS
  CommittedPrefix
PROPERTIES
  ImplementsTaskFlow
