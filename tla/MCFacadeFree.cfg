SPECIFICATION Spec
CONSTANTS
  Clients = {c1, c2}
  Plans = {"p1"}
  SubtaskIds = {"a", "b"}
  PlanChoices <- MCOnePlan
  Checkpointed = TRUE
  Guided = FALSE
  MaxCalls = 6
  MaxCodes = 2
  MaxRestarts = 0
SYMMETRY MCClients
INVARIANTS
  StatesAreConsistent CommittedOnce
CHECK_DEADLOCK FALSE
