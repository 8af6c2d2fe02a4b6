SPECIFICATION Spec
CONSTANTS
  a = a
  b = b
  c = c
  d = d
  x = x
  y = y
  none = none
  Objects <- MCObjects
  NoObject = none
  CodeFiles = {"f1", "f2"}
  NoModule = "None"
  ModuleBody = "<module>"
  STANDARD_OBJECTS = {"Users"}
  BSL_KEYWORDS = {"If"}
  CyrillicNames <- MCCyrillicNames
  Configurations <- MCConfigurations
  DependencyQueries <- MCDependencyQueries
  CallQueries <- MCCallQueries
INVARIANTS
  EdgesOfNeighboursIncluded
