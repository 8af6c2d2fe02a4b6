SPECIFICATION Spec
CONSTANTS
  Names = {"ut"}
  Versions = {"1", "2"}
  Indexes = {"call_graph"}
  Procs = {p, q}
  p = p
  q = q
  Secondary <- MCSecondary
  MaxCommands = 4
  MaxEvents = 2
INVARIANTS RegisteredIsUsable FreshIsCurrent
PROPERTIES EntriesKept SuccessIsReal
CHECK_DEADLOCK FALSE
SYMMETRY MCSymmetry
