SPECIFICATION Spec
CONSTANTS
  Clients = {c1, c2}
  Plans = {"p1", "p2"}
  SubtaskIds = {"a", "b", "c"}
  PlanChoices <- MCDistinct
  Checkpointed = FALSE
  Guided = TRUE
  MaxCalls = 0
  MaxCodes = 3
  MaxRestarts = 1
INVARIANTS
  TypeOK GuidedCommitsAreValidated CommitsFollowPlan ArtifactIsTheOneMeant NothingForgotten
CHECK_DEADLOCK FALSE
