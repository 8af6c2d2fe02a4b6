------------------------------ MODULE MCConfig ------------------------------
EXTENDS ConfigLifecycle, TLC

\* The processes run the same commands and no property names one of them.
MCSymmetry == Permutations(Procs)

\* One of the three indexes built after unified_metadata stands for them all.
MCSecondary == <<"call_graph">>
=============================================================================
