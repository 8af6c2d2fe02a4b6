------------------------------ MODULE Pipeline ------------------------------
(***************************************************************************)
(* The code-generation pipeline of packages/orchestrator: the LangGraph    *)
(* StateGraph of graph.py, its ten nodes and its four routers, driven by   *)
(* the CLI command `1c-ai generate`.                                       *)
(*                                                                         *)
(*   preflight -> plan -> gather -> code -> validate -> review -> commit   *)
(*                                   ^         |          |   \      |     *)
(*                                   +- retry <+----------+    \  next_    *)
(*                                        |                     \ subtask  *)
(*                                        +----> escalate <------+         *)
(*                                                                         *)
(* One action is one node: everything the node function reads, assigns and *)
(* writes outside the state, and the routing decision LangGraph takes when *)
(* the node returns.  What an LLM, a validator, git or the file system     *)
(* answers is a nondeterministic choice.  An exception that a node does    *)
(* not catch leaves the graph (node "aborted"), the death of the process   *)
(* leaves it in node "crashed"; the command may then be given again.       *)
(***************************************************************************)
EXTENDS Integers, Sequences

CONSTANTS
  SubtaskChoices,   \* the subtasks the Planner LLM may put into a plan
  MaxSubtasks,      \* bound: length of a plan
  MaxRuns,          \* bound: how often `1c-ai generate` is given
  RecursionLimit,   \* LangGraph: node executions allowed in one invocation
  GitEnabled,       \* git_server and repo_path are configured
  Ids,              \* subtask ids (text chosen by the LLM)
  IdPrefix          \* id -> id[:8], the part that reaches the branch name

TargetTypes == {"CommonModule", "Catalog", "Document", "Other"}

\* class Subtask; max_iterations is declared ge=1, le=5.
Subtask == [id : Ids \cup {"uuid"}, type : TargetTypes, max_iterations : 1..5]

ASSUME PipelineAssumption ==
  /\ SubtaskChoices \subseteq [id : Ids, type : TargetTypes, max_iterations : 1..5]
  /\ MaxSubtasks \in Nat \ {0}
  /\ MaxRuns \in Nat \ {0}
  /\ RecursionLimit \in Nat
  /\ GitEnabled \in BOOLEAN
  /\ "uuid" \notin Ids

VARIABLES
  node,                  \* the node LangGraph executes next, or how it stopped
  run,                   \* number of the invocation of `1c-ai generate`
  steps,                 \* nodes executed in this invocation
  \* TaskState (state.py)
  fsm_state, subtasks, current_subtask_idx, current_iteration, iterations,
  constraints_reminder, validation_passed, review_passed, critical_findings,
  gather_result, validate_result, review_result, commit_result,
  \* outside the process
  branches,              \* branches of the git repository
  head,                  \* the branch checked out in its work tree
  commits,               \* the commits made, oldest first
  generated,             \* runtime/generated/: set of <<file name, code>>
  escalation             \* what escalate_node reported and saved last

planVars == <<subtasks, current_subtask_idx>>
attemptVars == <<current_iteration, iterations, constraints_reminder>>
verdictVars == <<validation_passed, review_passed, critical_findings>>
resultVars == <<gather_result, validate_result, review_result, commit_result>>
taskVars == <<fsm_state, planVars, attemptVars, verdictVars, resultVars>>
worldVars == <<branches, head, commits, generated, escalation>>
vars == <<node, run, steps, fsm_state, subtasks, current_subtask_idx, current_iteration,
          iterations, constraints_reminder, validation_passed, review_passed,
          critical_findings, gather_result, validate_result, review_result,
          commit_result, branches, head, commits, generated, escalation>>

-----------------------------------------------------------------------------
(***************************************************************************)
(* Values.  A piece of generated code is named by where it came from: the  *)
(* invocation, the subtask and the attempt.  A failed check is named by    *)
(* the attempt that caused it and its severity.                            *)
(***************************************************************************)

Code == [run : Nat, subtask : Nat, attempt : Nat]
Check == [subtask : Nat, attempt : Nat, severity : {"critical", "warning"}]

\* An attempt; prompt is what the prompt's constraints_reminder asked for.
Iteration == [number : Nat, code : Code, prompt : SUBSET Check]
ValidateResult == [subtask : Int, attempt : Nat, passed : BOOLEAN, failed_checks : SUBSET Check]
Decision == {"none", "proceed", "retry", "escalate"}
ReviewResult == [subtask : Int, attempt : Nat, decision : Decision, passed : BOOLEAN,
                 critical : 0..3]

EscalateResult == [reason : {"none", "max_iterations_exceeded", "critical_findings_count",
                             "tool_error"},
                   subtask : Int, attempt : Nat, code : Code]

FSMState == {"init", "planning", "gathering", "coding", "validating",
             "reviewing", "committing", "escalated", "done"}
Running == {"preflight", "plan", "gather", "code", "validate", "review",
            "retry", "commit", "next_subtask", "escalate"}
Stopped == {"end", "aborted", "out_of_steps", "crashed"}

NoValidation == [subtask |-> -1, attempt |-> 0, passed |-> FALSE, failed_checks |-> {}]
NoReview == [subtask |-> -1, attempt |-> 0, decision |-> "none", passed |-> FALSE,
             critical |-> 0]
NoEscalation == [reason |-> "none", subtask |-> -1, attempt |-> 0,
                 code |-> [run |-> 0, subtask |-> 0, attempt |-> 0]]

current_subtask == subtasks[current_subtask_idx + 1]
has_current_subtask == current_subtask_idx < Len(subtasks)
LastIteration == iterations[Len(iterations)]

MainBranch == <<"main", 0>>

\* feature/{task_id[:8]}-{subtask.id[:8]}: task_id is the same in every
\* invocation for one configuration; a uuid never repeats.
branch_name ==
  IF current_subtask.id = "uuid"
  THEN <<"uuid", run>>
  ELSE <<IdPrefix[current_subtask.id], 0>>

\* The basename of _derive_file_path, the only part _file_fallback keeps.
fallback_file(subtask, attempt) ==
  CASE subtask.type = "CommonModule" -> <<"Module.bsl", 0>>
    [] subtask.type \in {"Catalog", "Document"} -> <<"ObjectModule.bsl", 0>>
    [] subtask.type = "Other" -> <<subtask.id, attempt>>

Branch == {MainBranch} \cup ({IdPrefix[i] : i \in Ids} \X {0}) \cup ({"uuid"} \X Nat)
File == {<<"Module.bsl", 0>>, <<"ObjectModule.bsl", 0>>} \cup ((Ids \cup {"uuid"}) \X Nat)

-----------------------------------------------------------------------------
(***************************************************************************)
(* Routers (routers.py).  LangGraph evaluates them on the state a node     *)
(* leaves behind, so each takes the values it reads as parameters.         *)
(***************************************************************************)

\* Mutant: the gate lets everything through.
GateOpen(passed) == "review"

route_after_validate(passed) == IF passed THEN "review" ELSE "retry"

route_after_review(passed, critical) ==
  IF ~has_current_subtask THEN "escalate"
  ELSE IF passed THEN "commit"
  ELSE IF critical >= 3 THEN "escalate"
  ELSE IF current_iteration >= current_subtask.max_iterations THEN "escalate"
  ELSE "retry"

\* Mutant: the guard against endless cycles is gone.
RetryForever == IF ~has_current_subtask THEN "escalate" ELSE "code"

\* Mutant: the last attempt is never made.
RetryStopsEarly ==
  IF ~has_current_subtask THEN "escalate"
  ELSE IF current_iteration + 1 >= current_subtask.max_iterations THEN "escalate"
  ELSE "code"

route_after_retry ==
  IF ~has_current_subtask THEN "escalate"
  ELSE IF current_iteration >= current_subtask.max_iterations THEN "escalate"
  ELSE "code"

\* Mutants: the last subtask counted twice; left out; a misspelt node.
OneSubtaskTooMany ==
  IF current_subtask_idx + 1 <= Len(subtasks) THEN "next_subtask" ELSE "end"
OneSubtaskTooFew ==
  IF current_subtask_idx + 2 < Len(subtasks) THEN "next_subtask" ELSE "end"
MisspeltNode ==
  IF current_subtask_idx + 1 < Len(subtasks) THEN "nextSubtask" ELSE "end"

route_after_commit ==
  IF current_subtask_idx + 1 < Len(subtasks) THEN "next_subtask" ELSE "end"

\* LangGraph runs one node: it is the next one and the limit is not reached.
Execute(n) == node = n /\ steps < RecursionLimit /\ steps' = steps + 1 /\ UNCHANGED run

\* The node raised: LangGraph keeps the state the previous node left.
Raise == node' = "aborted" /\ UNCHANGED taskVars

-----------------------------------------------------------------------------
(***************************************************************************)
(* Nodes                                                                   *)
(***************************************************************************)

Preflight ==
  /\ Execute("preflight")
  /\ \/ /\ node' = "plan"
        /\ fsm_state' = "planning"
        /\ UNCHANGED <<planVars, attemptVars, verdictVars, resultVars>>
     \/ Raise            \* PreflightError, IndexStaleError
  /\ UNCHANGED worldVars

FallbackPlan == <<[id |-> "uuid", type |-> "CommonModule", max_iterations |-> 3]>>
LlmPlans == UNION {[1..n -> SubtaskChoices] : n \in 1..MaxSubtasks}

\* Any LLM failure, and a plan without one valid subtask, is the fallback plan.
Plan ==
  /\ Execute("plan")
  /\ subtasks' \in LlmPlans \cup {FallbackPlan}
  /\ fsm_state' = "gathering"
  /\ node' = "gather"
  /\ UNCHANGED <<current_subtask_idx, attemptVars, verdictVars, resultVars, worldVars>>

\* Every server call is wrapped in try/except: gather cannot fail.
Gather ==
  /\ Execute("gather")
  /\ gather_result' = [subtask |-> current_subtask_idx]
  /\ fsm_state' = "coding"
  /\ node' = "code"
  /\ UNCHANGED <<planVars, attemptVars, verdictVars, validate_result, review_result,
                 commit_result, worldVars>>

CodeNode ==
  /\ Execute("code")
  /\ \/ /\ current_iteration' = current_iteration + 1
        /\ iterations' = Append(iterations,
             [number |-> current_iteration + 1,
              code   |-> [run |-> run, subtask |-> current_subtask_idx,
                          attempt |-> current_iteration + 1],
              prompt |-> constraints_reminder])
        /\ fsm_state' = "validating"
        /\ node' = "validate"
        /\ UNCHANGED <<planVars, constraints_reminder, verdictVars, resultVars>>
     \/ Raise            \* no LLM, LLM error, answer against the schema
  /\ UNCHANGED worldVars

\* found: the severities among the findings of the four validators.
Validate ==
  /\ Execute("validate")
  /\ \E found \in SUBSET {"critical", "warning"} :
       LET passed == "critical" \notin found IN
       /\ validate_result' =
            [subtask |-> current_subtask_idx,
             attempt |-> LastIteration.number,
             passed  |-> passed,
             failed_checks |-> {[subtask |-> current_subtask_idx,
                                 attempt |-> LastIteration.number,
                                 severity |-> s] : s \in found}]
       /\ validation_passed' = passed
       /\ node' = route_after_validate(passed)
  /\ fsm_state' = "reviewing"
  /\ UNCHANGED <<planVars, attemptVars, review_passed, critical_findings,
                 gather_result, review_result, commit_result, worldVars>>

\* The fields of the LLM's answer are taken as they are, whatever they say
\* together; critical is 0..3, 3 standing for every larger count too.
LlmReviews == [decision : {"proceed", "retry", "escalate"}, passed : BOOLEAN,
               critical : 0..3]
FallbackReview ==
  IF validation_passed
  THEN [decision |-> "proceed", passed |-> TRUE, critical |-> 0]
  ELSE [decision |-> "retry", passed |-> FALSE, critical |-> 1]

Review ==
  /\ Execute("review")
  /\ \E answer \in LlmReviews \cup {FallbackReview} :
       /\ review_result' = [subtask  |-> current_subtask_idx,
                            attempt  |-> LastIteration.number,
                            decision |-> answer.decision,
                            passed   |-> answer.passed,
                            critical |-> answer.critical]
       /\ review_passed' = answer.passed
       /\ critical_findings' = answer.critical
       /\ fsm_state' = IF answer.passed THEN "committing" ELSE "coding"
       /\ node' = route_after_review(answer.passed, answer.critical)
  /\ UNCHANGED <<planVars, attemptVars, validation_passed, gather_result,
                 validate_result, commit_result, worldVars>>

\* Mutant: reminders pile up from attempt to attempt.
ReminderPilesUp == constraints_reminder \cup validate_result.failed_checks

\* The reminder is made from the failed checks of the last validation only.
reminder_for_retry ==
  IF validate_result = NoValidation THEN {} ELSE validate_result.failed_checks

Retry ==
  /\ Execute("retry")
  /\ constraints_reminder' = reminder_for_retry
  /\ fsm_state' = "coding"
  /\ node' = route_after_retry
  /\ UNCHANGED <<planVars, current_iteration, iterations, verdictVars, resultVars,
                 worldVars>>

\* What a finished commit leaves in the state.
CommitDone(place) ==
  /\ commit_result' = [subtask |-> current_subtask_idx, place |-> place]
  /\ fsm_state' = "done"
  /\ node' = route_after_commit
  /\ UNCHANGED <<planVars, attemptVars, verdictVars, gather_result, validate_result,
                 review_result>>

\* _file_fallback: write_text empties the file and then writes it.
target_file == fallback_file(current_subtask, LastIteration.number)
EmptiedFile == {p \in generated : p[1] # target_file}
WrittenFile == EmptiedFile \cup {<<target_file, LastIteration.code>>}

CommitToFile ==
  /\ ~GitEnabled
  /\ \/ generated' = WrittenFile /\ CommitDone(target_file)
     \/ generated' \in {generated, EmptiedFile} /\ Raise    \* mkdir, open or write failed
  /\ UNCHANGED <<branches, head, commits, escalation>>

\* git checkout -b, which refuses a branch that exists.
CreateBranch ==
  /\ branch_name \notin branches
  /\ branches' = branches \cup {branch_name}
  /\ head' = branch_name

MakeCommit ==
  commits' = Append(commits, [branch |-> branch_name, base |-> head, code |-> LastIteration.code])

\* _git_flow.  Each of its git commands may fail or time out, after it had its
\* effect too, and nothing is undone.  open_pr may fail without consequence.
CommitToGit ==
  /\ GitEnabled
  /\ \/ Raise /\ UNCHANGED <<branches, head, commits>>
     \/ CreateBranch /\ Raise /\ UNCHANGED commits
     \/ CreateBranch /\ MakeCommit /\ (CommitDone(branch_name) \/ Raise)
  /\ UNCHANGED <<generated, escalation>>

Commit == Execute("commit") /\ (CommitToFile \/ CommitToGit)

\* Mutants: a field of the finished subtask is kept.
ResetKeepsIterations ==
  /\ UNCHANGED iterations
  /\ current_iteration' = 0
  /\ constraints_reminder' = {}

ResetAttempts ==
  /\ iterations' = <<>>
  /\ current_iteration' = 0
  /\ constraints_reminder' = {}

NextSubtask ==
  /\ Execute("next_subtask")
  /\ current_subtask_idx' = current_subtask_idx + 1
  /\ ResetAttempts
  /\ validation_passed' = FALSE
  /\ review_passed' = FALSE
  /\ critical_findings' = 0
  /\ fsm_state' = "gathering"
  /\ node' = "gather"
  /\ UNCHANGED <<subtasks, resultVars, worldVars>>

escalate_reason ==
  IF current_iteration >= 3 THEN "max_iterations_exceeded"
  ELSE IF critical_findings >= 3 THEN "critical_findings_count"
  ELSE "tool_error"

\* The code of the last attempt goes to runtime/escalations/.
Escalate ==
  /\ Execute("escalate")
  /\ \/ /\ escalation' = [reason  |-> escalate_reason,
                           subtask |-> current_subtask_idx,
                           attempt |-> current_iteration,
                           code    |-> LastIteration.code]
        /\ fsm_state' = "escalated"
        /\ node' = "end"
        /\ UNCHANGED <<planVars, attemptVars, verdictVars, resultVars>>
     \/ /\ Raise         \* mkdir or write_text failed
        /\ UNCHANGED escalation
  /\ UNCHANGED <<branches, head, commits, generated>>

-----------------------------------------------------------------------------
(***************************************************************************)
(* What LangGraph, the process and the user do around the nodes            *)
(***************************************************************************)

\* GraphRecursionError: the graph has not ended within the limit.
OutOfSteps ==
  /\ node \in Running
  /\ steps >= RecursionLimit
  /\ node' = "out_of_steps"
  /\ UNCHANGED <<run, steps, taskVars, worldVars>>

\* The process dies while a node runs.  Only commit writes something that
\* outlives it, and may have come any part of its way.
Crash ==
  /\ node \in Running
  /\ node' = "crashed"
  /\ \/ UNCHANGED worldVars
     \/ /\ node = "commit" /\ ~GitEnabled
        /\ generated' \in {EmptiedFile, WrittenFile}
        /\ UNCHANGED <<branches, head, commits, escalation>>
     \/ /\ node = "commit" /\ GitEnabled
        /\ CreateBranch
        /\ MakeCommit \/ UNCHANGED commits
        /\ UNCHANGED <<generated, escalation>>
  /\ UNCHANGED <<run, steps, taskVars>>

InitialTaskState ==
  /\ fsm_state = "init"
  /\ subtasks = <<>>
  /\ current_subtask_idx = 0
  /\ current_iteration = 0
  /\ iterations = <<>>
  /\ constraints_reminder = {}
  /\ validation_passed = FALSE
  /\ review_passed = FALSE
  /\ critical_findings = 0
  /\ gather_result = [subtask |-> -1]
  /\ validate_result = NoValidation
  /\ review_result = NoReview
  /\ commit_result = [subtask |-> -1, place |-> <<"none", 0>>]

\* `1c-ai generate` again: ainvoke gets a complete new TaskState, which
\* replaces every channel of the thread's last checkpoint.
Generate ==
  /\ node \in Stopped
  /\ run < MaxRuns
  /\ run' = run + 1
  /\ steps' = 0
  /\ node' = "preflight"
  /\ fsm_state' = "init"
  /\ subtasks' = <<>>
  /\ current_subtask_idx' = 0
  /\ current_iteration' = 0
  /\ iterations' = <<>>
  /\ constraints_reminder' = {}
  /\ validation_passed' = FALSE
  /\ review_passed' = FALSE
  /\ critical_findings' = 0
  /\ gather_result' = [subtask |-> -1]
  /\ validate_result' = NoValidation
  /\ review_result' = NoReview
  /\ commit_result' = [subtask |-> -1, place |-> <<"none", 0>>]
  /\ UNCHANGED worldVars

\* No further invocation: the system has really stopped.
Finished ==
  /\ node \in Stopped
  /\ run = MaxRuns
  /\ UNCHANGED vars

Init ==
  /\ node = "preflight"
  /\ run = 1
  /\ steps = 0
  /\ InitialTaskState
  /\ branches = {MainBranch}
  /\ head = MainBranch
  /\ commits = <<>>
  /\ generated = {}
  /\ escalation = NoEscalation

PipelineStep ==
  \/ Preflight \/ Plan \/ Gather \/ CodeNode \/ Validate \/ Review \/ Retry
  \/ Commit \/ NextSubtask \/ Escalate \/ OutOfSteps

Next == PipelineStep \/ Crash \/ Generate \/ Finished

\* asyncio goes on as soon as an awaited call returns or raises.
Fairness == WF_vars(PipelineStep)

Spec == Init /\ [][Next]_vars /\ Fairness

-----------------------------------------------------------------------------
(***************************************************************************)
(* Properties                                                              *)
(***************************************************************************)

TaskTypeOK ==
  /\ node \in Running \cup Stopped
  /\ run \in 1..MaxRuns
  /\ steps \in Nat
  /\ fsm_state \in FSMState
  /\ subtasks \in Seq(Subtask)
  /\ current_subtask_idx \in Nat
  /\ current_iteration \in Nat
  /\ iterations \in Seq(Iteration)
  /\ constraints_reminder \in SUBSET Check
  /\ validation_passed \in BOOLEAN
  /\ review_passed \in BOOLEAN
  /\ critical_findings \in 0..3
  /\ gather_result \in [subtask : Int]
  /\ validate_result \in ValidateResult
  /\ review_result \in ReviewResult

WorldTypeOK ==
  /\ branches \subseteq Branch
  /\ head \in Branch
  /\ commits \in Seq([branch : Branch, base : Branch, code : Code])
  /\ generated \subseteq File \X Code
  /\ escalation \in EscalateResult

TypeOK == TaskTypeOK /\ WorldTypeOK

\* The assertions of the nodes never fail: a node that needs the current
\* subtask, or an attempt of it, is entered only when there is one
\* ("assert subtask is not None", "assert state.iterations").
AssertionsHold ==
  /\ node \in Running \ {"preflight", "plan"} => has_current_subtask
  /\ node \in Running \ {"preflight", "plan", "gather", "code"} => iterations # <<>>

\* state.iterations is the history of the current subtask and of nothing
\* else, numbered without gaps, and no longer than the subtask allows.
IterationHistory ==
  /\ current_iteration = Len(iterations)
  /\ \A i \in 1..Len(iterations) :
       /\ iterations[i].number = i
       /\ iterations[i].code = [run |-> run, subtask |-> current_subtask_idx, attempt |-> i]
  /\ has_current_subtask => current_iteration <= current_subtask.max_iterations

\* The prompt of an attempt carries the failed checks of the attempt right
\* before it and of no other, never those of an earlier subtask; a retry
\* after a failed validation always names a critical check.
CoderSeesLastFailures ==
  /\ \A i \in 1..Len(iterations) : \A c \in iterations[i].prompt :
       c.subtask = current_subtask_idx /\ c.attempt = i - 1
  /\ node = "code" /\ current_iteration > 0 =>
       /\ constraints_reminder = validate_result.failed_checks
       /\ validate_result.subtask = current_subtask_idx
       /\ validate_result.attempt = current_iteration
       /\ ~validation_passed => \E c \in constraints_reminder : c.severity = "critical"

Approved(code) ==
  /\ code = [run |-> run, subtask |-> current_subtask_idx, attempt |-> current_iteration]
  /\ validate_result.passed /\ review_result.passed
  /\ validate_result.subtask = code.subtask /\ review_result.subtask = code.subtask
  /\ validate_result.attempt = code.attempt /\ review_result.attempt = code.attempt

Delivered == {commits[i].code : i \in 1..Len(commits)} \cup {p[2] : p \in generated}

\* Whatever leaves the pipeline is the code of the current attempt, and that
\* very code passed the validators and the review: no gate is skipped and no
\* verdict on another attempt or subtask is used in its place.
OnlyApprovedCodeIsDelivered ==
  [][\A code \in Delivered' \ Delivered : Approved(code)]_vars

\* Escalation gives up only on rejected code, and only when the attempts are
\* used up or the reviewer counted three critical findings.
EscalationIsJustified ==
  node = "escalate" =>
    /\ ~validation_passed \/ ~review_passed
    /\ \/ current_iteration = current_subtask.max_iterations
       \/ validation_passed /\ critical_findings >= 3

\* Commits made by this invocation, by subtask.
CommitsOf(i) == {k \in 1..Len(commits) : commits[k].code.run = run /\ commits[k].code.subtask = i}

\* With git, the subtasks are committed in the order of the plan, each once,
\* and the state says which: those before the current one, and that one too
\* when it is "done".  Only an invocation that failed inside commit may leave
\* one more commit than its state tells.  "done" at the end means everything.
CommittedPrefix ==
  GitEnabled =>
    /\ \A i \in 0..Len(subtasks) :
         LET committed == i < current_subtask_idx
                            \/ (i = current_subtask_idx /\ fsm_state = "done")
             unsure == i = current_subtask_idx /\ node \in {"aborted", "crashed"} IN
         \/ CommitsOf(i) = {} /\ ~committed
         \/ (committed \/ unsure) /\ \E k \in 1..Len(commits) : CommitsOf(i) = {k}
    /\ node = "end" /\ fsm_state = "done" => current_subtask_idx + 1 = Len(subtasks)

\* Two nodes, and per subtask 22: gather, at most five times code, validate,
\* review and retry (or the way out), and next_subtask, which the last
\* subtask does not have.
EnoughSteps(n) == 1 + 22 * n

\* LangGraph's limit stops an invocation only when the plan is too long for
\* it: retries alone never exhaust a limit that is large enough.
LimitOnlyStopsLongPlans ==
  node = "out_of_steps" /\ subtasks # <<>> => RecursionLimit < EnoughSteps(Len(subtasks))

PlanTooLong == RecursionLimit < EnoughSteps(Len(subtasks))

\* An invocation ends by itself: it commits everything, escalates or fails,
\* and only a plan too long for the limit ends for want of steps.
Settled == node \in {"end", "aborted", "crashed"} \/ (node = "out_of_steps" /\ PlanTooLong)
InvocationSettles == node \in Running ~> Settled

\* The pipeline is an implementation of TaskFlow: attempts stay within the
\* budget of the plan, delivery is in order, once, after an attempt, and "done"
\* is said exactly when the last subtask of the plan has been delivered.
flow_status ==
  CASE node \in {"preflight", "plan"} -> "planning"
    [] node \in Running \ {"preflight", "plan", "next_subtask"} -> "working"
    [] node = "next_subtask" -> "delivered"
    [] node = "end" -> fsm_state
    [] node \in {"aborted", "out_of_steps", "crashed"} -> "failed"

Flow == INSTANCE TaskFlow WITH
  budgets   <- [i \in 1..Len(subtasks) |-> subtasks[i].max_iterations],
  delivered <- IF fsm_state = "done" THEN current_subtask_idx + 1 ELSE current_subtask_idx,
  attempts  <- current_iteration,
  status    <- flow_status

ImplementsTaskFlow == Flow!FlowSpec

-----------------------------------------------------------------------------
(***************************************************************************)
(* What the documents and comments say of the pipeline, and the code does  *)
(* not do.                                                                 *)
(***************************************************************************)

\* errors.py:238, MaxIterationsExceededError: max_iterations was reached.
\* The reason of an escalation names what happened.
EscalationReasonIsTrue ==
  fsm_state = "escalated" =>
    LET exhausted == escalation.attempt >= current_subtask.max_iterations IN
    /\ escalation.reason = "max_iterations_exceeded" => exhausted
    /\ escalation.reason = "tool_error" => ~exhausted

\* nodes/commit.py:30: commit saves the generated code.  When a task is done,
\* the code of each of its subtasks is in runtime/generated/.
SavedCodeSurvives ==
  ~GitEnabled /\ node = "end" /\ fsm_state = "done" =>
    \A i \in 0..current_subtask_idx :
      \E p \in generated : p[2].run = run /\ p[2].subtask = i

\* docs/architecture/00-overview.md:163: at most three attempts, then escalate.
\* An invocation never stops without having committed or escalated for want of
\* LangGraph steps.
NeverOutOfSteps == node # "out_of_steps"

=============================================================================
