SPECIFICATION Spec
CONSTANTS
  SubtaskChoices <- MCSubtasks
  MaxSubtasks = 2
  MaxRuns = 1
  RecursionLimit = 45
  GitEnabled = TRUE
  Ids = {"st-1", "st-2"}
  IdPrefix <- MCPrefix
INVARIANTS
  TypeOK AssertionsHold IterationHistory CoderSeesLastFailures
  EscalationIsJustified
PROPERTIES
  OnlyApprovedCodeIsDelivered
