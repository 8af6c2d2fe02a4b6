SPECIFICATION Spec
CONSTANTS
  Sources = {"ut"}
  v1 = v1
  v2 = v2
  Versions = {v1, v2}
  o1 = o1
  o2 = o2
  o3 = o3
  Objects = {o1, o2, o3}
  obj = obj
  mgr = mgr
  Kinds = {obj, mgr}
  Codes = {"x", "y", "z"}
  Matches <- MCMatches
  Similarity <- MCSimilarity
  NoEmbedding = 99
  MaxBatch = 2
  MaxChunks = 3
  MaxDeletes = 1
  TopK = {1, 2}
INVARIANTS StoresAgree HybridRespectsBoth AnswersAreClean
PROPERTIES ImplementsStore
SYMMETRY MCSymmetry
CHECK_DEADLOCK FALSE
