---------------------------- MODULE MCVectorStore ----------------------------
EXTENDS VectorStore, TLC

\* Only the codes differ in anything but their names.
MCSymmetry == Permutations(Versions) \cup Permutations(Objects) \cup Permutations(Kinds)

\* x is found by both searches, y only by its embedding, z has none.
MCMatches == [c \in Codes |-> CASE c = "x" -> 2 [] c = "y" -> 0 [] OTHER -> 1]
MCSimilarity == [c \in Codes |-> CASE c = "x" -> 1 [] c = "y" -> 2 [] OTHER -> NoEmbedding]
=============================================================================
