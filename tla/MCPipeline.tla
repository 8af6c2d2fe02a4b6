----------------------------- MODULE MCPipeline -----------------------------
(***************************************************************************)
(* Instances of Pipeline for TLC.                                          *)
(***************************************************************************)
EXTENDS Pipeline

\* Two subtasks whose ids differ only after the eighth character would share
\* a branch; here they do not.
MCPrefix == [i \in Ids |-> i]

\* A subtask with a short and one with a longer budget, of two kinds.
MCSubtasks == {[id |-> "st-1", type |-> "CommonModule", max_iterations |-> 1],
               [id |-> "st-2", type |-> "Catalog", max_iterations |-> 3]}

\* Budgets of one and two, for runs with several invocations.
MCShortSubtasks == {[id |-> "st-1", type |-> "Document", max_iterations |-> 1],
                    [id |-> "st-2", type |-> "Other", max_iterations |-> 2]}

\* Two modules whose generated file has the same name.
MCTwoModules == {[id |-> i, type |-> "CommonModule", max_iterations |-> 1] : i \in Ids}

\* The longest budget there is.
MCLongSubtask == {[id |-> "st-1", type |-> "Other", max_iterations |-> 5]}

\* The default budget.
MCDefaultSubtask == {[id |-> "st-1", type |-> "CommonModule", max_iterations |-> 3]}
=============================================================================
