------------------------------ MODULE TaskFlow ------------------------------
(***************************************************************************)
(* What the pipeline promises for one task, without its nodes: a plan is a *)
(* sequence of budgets; the subtasks are worked on in order; each gets     *)
(* between one and its budget of attempts and is then delivered, or the    *)
(* whole task is given up for a human; nothing is delivered twice and      *)
(* nothing is skipped.  The task may fail at any time and be started       *)
(* again, from the beginning.                                              *)
(***************************************************************************)
EXTENDS Integers, Sequences

VARIABLES
  budgets,     \* attempts each subtask may take; empty until planned
  delivered,   \* subtasks delivered so far
  attempts,    \* attempts made on the subtask in hand
  status       \* of the task

flowVars == <<budgets, delivered, attempts, status>>

Final == {"done", "escalated", "failed"}

FlowInit ==
  /\ budgets = <<>>
  /\ delivered = 0
  /\ attempts = 0
  /\ status = "planning"

MakePlan ==
  /\ status = "planning"
  /\ budgets' \in Seq(1..5) \ {<<>>}
  /\ status' = "working"
  /\ UNCHANGED <<delivered, attempts>>

Attempt ==
  /\ status = "working"
  /\ attempts < budgets[delivered + 1]
  /\ attempts' = attempts + 1
  /\ UNCHANGED <<budgets, delivered, status>>

Deliver ==
  /\ status = "working"
  /\ attempts > 0
  /\ delivered' = delivered + 1
  /\ status' = IF delivered' = Len(budgets) THEN "done" ELSE "delivered"
  /\ UNCHANGED <<budgets, attempts>>

TakeNext ==
  /\ status = "delivered"
  /\ attempts' = 0
  /\ status' = "working"
  /\ UNCHANGED <<budgets, delivered>>

GiveUp ==
  /\ status = "working"
  /\ attempts > 0
  /\ status' = "escalated"
  /\ UNCHANGED <<budgets, delivered, attempts>>

Fail ==
  /\ status \notin Final
  /\ status' = "failed"
  /\ UNCHANGED <<budgets, delivered, attempts>>

StartAgain ==
  /\ status \in Final
  /\ FlowInit'

FlowNext == MakePlan \/ Attempt \/ Deliver \/ TakeNext \/ GiveUp \/ Fail \/ StartAgain

FlowSpec == FlowInit /\ [][FlowNext]_flowVars
=============================================================================
