SPECIFICATION Spec
CONSTANTS
  Flows = {"f1", "f2"}
  Files = {"A", "B"}
  Branches = {"b1", "b2", "b d"}
  WellFormed = {"b1", "b2"}
  Prs = TRUE
INVARIANTS CommitIsItsOwn OnlyWrittenCode
PROPERTIES BranchesOnlyGrow
