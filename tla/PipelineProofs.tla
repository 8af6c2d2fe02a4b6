--------------------------- MODULE PipelineProofs ---------------------------
(***************************************************************************)
(* Theorems about Pipeline, for every plan, every number of invocations    *)
(* and every value of LangGraph's limit.                                   *)
(***************************************************************************)
EXTENDS Pipeline, SequenceTheorems, TLAPS

LEMMA EmptyTypes ==
  /\ NoValidation \in ValidateResult
  /\ NoReview \in ReviewResult
  /\ [subtask |-> -1] \in [subtask : Int]
  /\ \A S : <<>> \in Seq(S)
<1>1. NoValidation \in ValidateResult
  BY DEF NoValidation, ValidateResult
<1>2. NoReview \in ReviewResult
  BY DEF NoReview, ReviewResult, Decision
<1>3. [subtask |-> -1] \in [subtask : Int]
  OBVIOUS
<1>4. \A S : <<>> \in Seq(S)
  OBVIOUS
<1> QED
  BY <1>1, <1>2, <1>3, <1>4

\* The state of a new invocation has its types.
LEMMA InitialTypes ==
  ASSUME InitialTaskState, node = "preflight", steps = 0, run \in 1..MaxRuns
  PROVE  TaskTypeOK
<1>1. /\ node \in Running \cup Stopped
      /\ steps \in Nat
      /\ fsm_state \in FSMState
      /\ current_subtask_idx \in Nat
      /\ current_iteration \in Nat
      /\ constraints_reminder \in SUBSET Check
      /\ critical_findings \in 0..3
  BY DEF InitialTaskState, Running, FSMState
<1>4. validation_passed \in BOOLEAN /\ review_passed \in BOOLEAN
  BY DEF InitialTaskState
<1>2. subtasks \in Seq(Subtask) /\ iterations \in Seq(Iteration)
  BY EmptyTypes DEF InitialTaskState
<1>3. gather_result \in [subtask : Int] /\ validate_result \in ValidateResult
        /\ review_result \in ReviewResult
  BY EmptyTypes DEF InitialTaskState
<1> QED
  BY <1>1, <1>2, <1>3, <1>4 DEF TaskTypeOK

LEMMA PlansAreSeqs ==
  ASSUME NEW plan \in LlmPlans \cup {FallbackPlan}
  PROVE  plan \in Seq(Subtask) /\ plan # <<>>
<1>1. CASE plan \in LlmPlans
  <2>1. PICK n \in 1..MaxSubtasks : plan \in [1..n -> SubtaskChoices]
    BY <1>1 DEF LlmPlans
  <2>2. SubtaskChoices \subseteq Subtask
    BY PipelineAssumption DEF Subtask
  <2> QED
    BY <2>1, <2>2, PipelineAssumption
<1>2. CASE plan = FallbackPlan
  BY <1>2 DEF FallbackPlan, Subtask, TargetTypes
<1> QED
  BY <1>1, <1>2

\* The result records the nodes build have their types.
LEMMA ResultTypes ==
  /\ \A s, a \in Nat, p \in BOOLEAN, F \in SUBSET {"critical", "warning"} :
       [subtask |-> s, attempt |-> a, passed |-> p,
        failed_checks |-> {[subtask |-> s, attempt |-> a, severity |-> v] : v \in F}]
         \in ValidateResult
  /\ \A s, a \in Nat, answer \in LlmReviews :
       /\ [subtask |-> s, attempt |-> a, decision |-> answer.decision, passed |-> answer.passed,
           critical |-> answer.critical] \in ReviewResult
       /\ answer.passed \in BOOLEAN /\ answer.critical \in 0..3
  /\ validation_passed \in BOOLEAN => FallbackReview \in LlmReviews
  /\ \A n, r, s \in Nat, P \in SUBSET Check :
       [number |-> n, code |-> [run |-> r, subtask |-> s, attempt |-> n], prompt |-> P] \in Iteration
<1>1. \A s, a \in Nat, p \in BOOLEAN, F \in SUBSET {"critical", "warning"} :
       [subtask |-> s, attempt |-> a, passed |-> p,
        failed_checks |-> {[subtask |-> s, attempt |-> a, severity |-> v] : v \in F}]
         \in ValidateResult
  BY DEF ValidateResult, Check
<1>2. \A s, a \in Nat, answer \in LlmReviews :
       /\ [subtask |-> s, attempt |-> a, decision |-> answer.decision, passed |-> answer.passed,
           critical |-> answer.critical] \in ReviewResult
       /\ answer.passed \in BOOLEAN /\ answer.critical \in 0..3
  BY DEF LlmReviews, ReviewResult, Decision
<1>3. validation_passed \in BOOLEAN => FallbackReview \in LlmReviews
  BY DEF LlmReviews, FallbackReview
<1>4. \A n, r, s \in Nat, P \in SUBSET Check :
       [number |-> n, code |-> [run |-> r, subtask |-> s, attempt |-> n], prompt |-> P] \in Iteration
  BY DEF Iteration, Code
<1> QED
  BY <1>1, <1>2, <1>3, <1>4

-----------------------------------------------------------------------------
(***************************************************************************)
(* The inductive invariant.  What a node may rely on depends on where in   *)
(* the cycle it stands, so most conjuncts name the nodes they hold at.     *)
(***************************************************************************)

Planned == Running \ {"preflight", "plan"}
Attempted == Planned \ {"gather", "code"}
Validated == Attempted \ {"validate"}

\* Nothing has been attempted before there is a plan; afterwards there is a
\* current subtask.
PlanInv ==
  /\ node \in {"preflight", "plan"} =>
       subtasks = <<>> /\ current_subtask_idx = 0 /\ current_iteration = 0
  /\ node \in Planned => has_current_subtask

\* Where attempts may be missing, and where one more is allowed.
AttemptInv ==
  /\ node = "gather" => current_iteration = 0
  /\ node = "code" => current_iteration < current_subtask.max_iterations
  /\ node \in Attempted => current_iteration > 0

\* A reminder waiting for the coder, and each prompt that was sent, speaks of
\* the attempt before.
ReminderInv ==
  /\ node \in {"preflight", "plan", "gather"} => constraints_reminder = {}
  /\ node = "code" => \A c \in constraints_reminder :
                        c.subtask = current_subtask_idx /\ c.attempt = current_iteration
  /\ CoderSeesLastFailures

\* The verdicts in the state are about the attempt in hand.
VerdictInv ==
  /\ node \in Validated =>
       /\ validate_result.subtask = current_subtask_idx
       /\ validate_result.attempt = current_iteration
       /\ validate_result.passed = validation_passed
       /\ \A c \in validate_result.failed_checks :
            c.subtask = current_subtask_idx /\ c.attempt = current_iteration
       /\ ~validation_passed =>
            \E c \in validate_result.failed_checks : c.severity = "critical"
  /\ node \in {"review", "commit"} => validation_passed
  /\ node = "commit" =>
       /\ review_result.subtask = current_subtask_idx
       /\ review_result.attempt = current_iteration
       /\ review_result.passed
  /\ node = "retry" => ~validation_passed \/ ~review_passed
  /\ EscalationIsJustified

\* Nodes executed so far: per finished subtask 22, per finished attempt 4.
StepsInv ==
  LET finished == 22 * current_subtask_idx + 4 * current_iteration IN
  /\ node = "preflight" => steps = 0
  /\ node = "plan" => steps <= 1
  /\ node = "gather" => steps <= finished + 2
  /\ node = "code" => steps <= finished + 3
  /\ node = "validate" => steps <= finished
  /\ node = "review" => steps <= finished + 1
  /\ node = "retry" => /\ steps <= finished + 2
                       /\ current_iteration = current_subtask.max_iterations =>
                            steps <= finished + 1
  /\ node \in {"commit", "escalate"} => steps <= finished + 2
  /\ node = "next_subtask" => /\ steps <= finished + 3
                              /\ current_subtask_idx + 1 < Len(subtasks)
  /\ LimitOnlyStopsLongPlans

IInv ==
  TaskTypeOK /\ IterationHistory /\ PlanInv /\ AttemptInv /\ ReminderInv /\ VerdictInv /\ StepsInv

-----------------------------------------------------------------------------

\* What the invariant says of the subtask and the attempt a node works on.
LEMMA CurrentFacts ==
  ASSUME IInv
  PROVE  /\ has_current_subtask =>
              current_subtask \in Subtask /\ current_subtask.max_iterations \in 1..5
         /\ node \in Attempted =>
              /\ LastIteration \in Iteration
              /\ LastIteration.number = current_iteration
              /\ LastIteration.code = [run |-> run, subtask |-> current_subtask_idx,
                                      attempt |-> current_iteration]
<1> USE DEF IInv, TaskTypeOK
<1>1. ASSUME has_current_subtask
      PROVE  current_subtask \in Subtask /\ current_subtask.max_iterations \in 1..5
  <2>1. current_subtask_idx + 1 \in 1..Len(subtasks)
    BY <1>1 DEF has_current_subtask
  <2>2. current_subtask \in Subtask
    BY <2>1 DEF current_subtask
  <2> QED
    BY <2>2 DEF Subtask
<1>2. ASSUME node \in Attempted
      PROVE  /\ LastIteration \in Iteration
             /\ LastIteration.number = current_iteration
             /\ LastIteration.code = [run |-> run, subtask |-> current_subtask_idx,
                                     attempt |-> current_iteration]
  <2>1. Len(iterations) = current_iteration /\ current_iteration > 0
    BY <1>2 DEF AttemptInv, IterationHistory
  <2> QED
    BY <2>1 DEF IterationHistory, LastIteration
<1> QED
  BY <1>1, <1>2

LEMMA InvInit == Init => IInv
<1> SUFFICES ASSUME Init PROVE IInv
  OBVIOUS
<1>1. TaskTypeOK
  <2>1. InitialTaskState /\ node = "preflight" /\ steps = 0
    BY DEF Init
  <2>2. run \in 1..MaxRuns
    BY PipelineAssumption DEF Init
  <2> QED
    BY <2>1, <2>2, InitialTypes
<1> USE DEF Init, InitialTaskState
<1>2. IterationHistory
  BY DEF IterationHistory, has_current_subtask
<1>3. PlanInv /\ AttemptInv
  BY DEF PlanInv, AttemptInv, Planned, Attempted, Running
<1>4. ReminderInv
  BY DEF ReminderInv, CoderSeesLastFailures
<1>5. VerdictInv
  BY DEF VerdictInv, Validated, Attempted, Planned, Running, EscalationIsJustified
<1>6. StepsInv
  BY DEF StepsInv, LimitOnlyStopsLongPlans
<1> QED
  BY <1>1, <1>2, <1>3, <1>4, <1>5, <1>6 DEF IInv

\* However the invocation stops, what it did stays as it was.
LEMMA StopStep ==
  ASSUME IInv, node' \in Stopped,
         UNCHANGED <<run, planVars, attemptVars, verdictVars, resultVars>>,
         fsm_state' \in FSMState, steps' \in Nat,
         node' = "out_of_steps" => node \in Running /\ RecursionLimit <= steps
  PROVE  IInv'
<1> USE DEF planVars, attemptVars, verdictVars, resultVars
<1>1. TaskTypeOK'
  BY DEF IInv, TaskTypeOK
<1>2. IterationHistory'
  BY DEF IInv, IterationHistory, has_current_subtask, current_subtask
<1>3. PlanInv' /\ AttemptInv'
  BY DEF PlanInv, AttemptInv, Attempted, Planned, Running, Stopped
<1>4. ReminderInv'
  BY DEF IInv, ReminderInv, CoderSeesLastFailures, Stopped
<1>5. VerdictInv'
  BY DEF VerdictInv, EscalationIsJustified, Validated, Attempted, Planned, Running, Stopped
<1>6. LimitOnlyStopsLongPlans'
  <2> SUFFICES ASSUME node' = "out_of_steps", subtasks # <<>>
               PROVE  RecursionLimit < EnoughSteps(Len(subtasks))
    BY DEF LimitOnlyStopsLongPlans
  <2>1. node \in Planned /\ current_subtask_idx < Len(subtasks)
    BY DEF IInv, PlanInv, Planned, has_current_subtask
  <2>2. current_iteration <= current_subtask.max_iterations
          /\ current_subtask.max_iterations \in 1..5
    BY <2>1, CurrentFacts DEF IInv, IterationHistory, has_current_subtask
  <2>3. \/ steps <= 22 * current_subtask_idx + 22
        \/ steps <= 22 * current_subtask_idx + 23 /\ current_subtask_idx + 1 < Len(subtasks)
    BY <2>1, <2>2 DEF IInv, TaskTypeOK, StepsInv, AttemptInv, Planned, Running
  <2> QED
    BY <2>1, <2>3, PipelineAssumption DEF IInv, TaskTypeOK, EnoughSteps
<1>7. StepsInv'
  BY <1>6 DEF StepsInv, Stopped
<1> QED
  BY <1>1, <1>2, <1>3, <1>4, <1>5, <1>7 DEF IInv

LEMMA PreflightStep == IInv /\ Preflight => IInv'
<1> SUFFICES ASSUME IInv, Preflight PROVE IInv'
  OBVIOUS
<1>1. CASE Raise
  BY <1>1, StopStep DEF Preflight, Execute, Raise, Stopped, taskVars, IInv, TaskTypeOK
<1>2. CASE ~Raise
  <2>1. /\ node = "preflight" /\ node' = "plan" /\ fsm_state' = "planning"
        /\ steps' = steps + 1
        /\ UNCHANGED <<run, planVars, attemptVars, verdictVars, resultVars>>
    BY <1>2 DEF Preflight, Execute
  <2> USE <2>1 DEF planVars, attemptVars, verdictVars, resultVars
  <2>2. TaskTypeOK'
    BY DEF IInv, TaskTypeOK, Running, FSMState
  <2>3. IterationHistory'
    BY DEF IInv, IterationHistory, has_current_subtask, current_subtask
  <2>4. PlanInv' /\ AttemptInv'
    BY DEF IInv, PlanInv, AttemptInv, Attempted, Planned, Running
  <2>5. ReminderInv'
    BY DEF IInv, ReminderInv, CoderSeesLastFailures
  <2>6. VerdictInv'
    BY DEF VerdictInv, EscalationIsJustified, Validated, Attempted, Planned, Running
  <2>7. StepsInv'
    BY DEF IInv, StepsInv, LimitOnlyStopsLongPlans
  <2> QED
    BY <2>2, <2>3, <2>4, <2>5, <2>6, <2>7 DEF IInv
<1> QED
  BY <1>1, <1>2

LEMMA PlanStep == IInv /\ Plan => IInv'
<1> SUFFICES ASSUME IInv, Plan PROVE IInv'
  OBVIOUS
<1>1. /\ node = "plan" /\ node' = "gather" /\ fsm_state' = "gathering"
      /\ steps' = steps + 1
      /\ subtasks' \in Seq(Subtask) /\ subtasks' # <<>>
      /\ UNCHANGED <<run, current_subtask_idx, attemptVars, verdictVars, resultVars>>
  BY PlansAreSeqs DEF Plan, Execute
<1>2. current_subtask_idx = 0 /\ current_iteration = 0 /\ iterations = <<>>
  BY <1>1 DEF IInv, TaskTypeOK, PlanInv, IterationHistory
<1> USE <1>1, <1>2 DEF attemptVars, verdictVars, resultVars
<1>3. TaskTypeOK'
  BY DEF IInv, TaskTypeOK, Running, FSMState
<1>4. Len(subtasks') > 0 /\ (current_subtask.max_iterations)' \in 1..5
  <2>1. Len(subtasks') > 0
    OBVIOUS
  <2>2. current_subtask' \in Subtask
    BY <2>1 DEF current_subtask
  <2> QED
    BY <2>1, <2>2 DEF Subtask
<1>5. IterationHistory'
  BY <1>4 DEF IInv, IterationHistory
<1>6. PlanInv' /\ AttemptInv'
  BY <1>4 DEF PlanInv, AttemptInv, Attempted, Planned, Running, has_current_subtask
<1>7. ReminderInv'
  BY DEF IInv, ReminderInv, CoderSeesLastFailures
<1>8. VerdictInv'
  BY DEF VerdictInv, EscalationIsJustified, Validated, Attempted, Planned, Running
<1>9. StepsInv'
  BY DEF IInv, TaskTypeOK, StepsInv, LimitOnlyStopsLongPlans
<1> QED
  BY <1>3, <1>5, <1>6, <1>7, <1>8, <1>9 DEF IInv

LEMMA GatherStep == IInv /\ Gather => IInv'
<1> SUFFICES ASSUME IInv, Gather PROVE IInv'
  OBVIOUS
<1>1. /\ node = "gather" /\ node' = "code" /\ fsm_state' = "coding"
      /\ steps' = steps + 1
      /\ gather_result' = [subtask |-> current_subtask_idx]
      /\ UNCHANGED <<run, planVars, attemptVars, verdictVars, validate_result, review_result>>
  BY DEF Gather, Execute
<1>2. /\ has_current_subtask /\ current_iteration = 0 /\ constraints_reminder = {}
      /\ current_subtask.max_iterations \in 1..5
  BY <1>1, CurrentFacts DEF IInv, PlanInv, AttemptInv, ReminderInv, Planned, Running
<1> USE <1>1, <1>2 DEF planVars, attemptVars, verdictVars
<1>3. TaskTypeOK'
  BY DEF IInv, TaskTypeOK, Running, FSMState
<1>4. IterationHistory'
  BY DEF IInv, IterationHistory, has_current_subtask, current_subtask
<1>5. PlanInv' /\ AttemptInv'
  BY DEF PlanInv, AttemptInv, Attempted, Planned, Running, has_current_subtask, current_subtask
<1>6. ReminderInv'
  BY DEF IInv, ReminderInv, CoderSeesLastFailures
<1>7. VerdictInv'
  BY DEF VerdictInv, EscalationIsJustified, Validated, Attempted, Planned, Running
<1>8. StepsInv'
  BY DEF IInv, TaskTypeOK, StepsInv, LimitOnlyStopsLongPlans
<1> QED
  BY <1>3, <1>4, <1>5, <1>6, <1>7, <1>8 DEF IInv

LEMMA CodeStep == IInv /\ CodeNode => IInv'
<1> SUFFICES ASSUME IInv, CodeNode PROVE IInv'
  OBVIOUS
<1>1. CASE Raise
  BY <1>1, StopStep DEF CodeNode, Execute, Raise, Stopped, taskVars, IInv, TaskTypeOK
<1>2. CASE ~Raise
  <2> DEFINE attempt == [number |-> current_iteration + 1,
                         code   |-> [run |-> run, subtask |-> current_subtask_idx,
                                     attempt |-> current_iteration + 1],
                         prompt |-> constraints_reminder]
  <2>1. /\ node = "code" /\ node' = "validate" /\ fsm_state' = "validating"
        /\ steps' = steps + 1
        /\ current_iteration' = current_iteration + 1
        /\ iterations' = Append(iterations, attempt)
        /\ UNCHANGED <<run, planVars, constraints_reminder, verdictVars, resultVars>>
    BY <1>2 DEF CodeNode, Execute
  <2>2. attempt \in Iteration
    <3>1. /\ run \in Nat /\ current_subtask_idx \in Nat /\ current_iteration + 1 \in Nat
          /\ constraints_reminder \in SUBSET Check
      BY PipelineAssumption DEF IInv, TaskTypeOK
    <3> QED
      BY <3>1, ResultTypes
  <2>3. /\ Len(iterations') = Len(iterations) + 1
        /\ \A i \in 1..Len(iterations) : iterations'[i] = iterations[i]
        /\ iterations'[Len(iterations) + 1] = attempt
    BY <2>1, <2>2 DEF IInv, TaskTypeOK
  <2>4. current_iteration = Len(iterations) /\ has_current_subtask
          /\ current_iteration < current_subtask.max_iterations
    BY <2>1 DEF IInv, IterationHistory, AttemptInv, PlanInv, Planned, Running
  <2>5. TaskTypeOK'
    BY <2>1, <2>2 DEF IInv, TaskTypeOK, Running, FSMState, planVars, verdictVars, resultVars
  <2>6. IterationHistory'
    <3>1. current_iteration' = Len(iterations')
      BY <2>1, <2>3, <2>4
    <3>2. ASSUME NEW i \in 1..Len(iterations')
          PROVE  /\ iterations'[i].number = i
                 /\ iterations'[i].code = [run |-> run, subtask |-> current_subtask_idx,
                                           attempt |-> i]
      <4>1. CASE i \in 1..Len(iterations)
        BY <4>1, <2>3 DEF IInv, IterationHistory
      <4>2. CASE i = Len(iterations) + 1
        BY <4>2, <2>3, <2>4
      <4> QED
        BY <4>1, <4>2, <2>3 DEF IInv, TaskTypeOK
    <3>3. (current_iteration <= current_subtask.max_iterations)'
      BY <2>1, <2>4, CurrentFacts, SMTT(20) DEF IInv, TaskTypeOK, planVars, current_subtask
    <3> QED
      BY <3>1, <3>2, <3>3, <2>1 DEF IterationHistory, planVars
  <2>7. PlanInv' /\ AttemptInv'
    BY <2>1, <2>4 DEF IInv, TaskTypeOK, PlanInv, AttemptInv, Attempted, Planned, Running,
      has_current_subtask, planVars
  <2>8. ReminderInv'
    <3>1. ASSUME NEW i \in 1..Len(iterations'), NEW c \in iterations'[i].prompt
          PROVE  c.subtask = current_subtask_idx /\ c.attempt = i - 1
      <4>1. CASE i \in 1..Len(iterations)
        BY <4>1, <2>3 DEF IInv, ReminderInv, CoderSeesLastFailures
      <4>2. CASE i = Len(iterations) + 1
        BY <4>2, <2>1, <2>3, <2>4 DEF IInv, TaskTypeOK, ReminderInv
      <4> QED
        BY <4>1, <4>2, <2>3 DEF IInv, TaskTypeOK
    <3> QED
      BY <3>1, <2>1 DEF ReminderInv, CoderSeesLastFailures, planVars
  <2>9. VerdictInv'
    BY <2>1 DEF VerdictInv, EscalationIsJustified, Validated, Attempted, Planned, Running
  <2>10. StepsInv'
    BY <2>1 DEF IInv, TaskTypeOK, StepsInv, LimitOnlyStopsLongPlans, planVars
  <2> QED
    BY <2>5, <2>6, <2>7, <2>8, <2>9, <2>10 DEF IInv
<1> QED
  BY <1>1, <1>2

LEMMA ValidateStep == IInv /\ Validate => IInv'
<1> SUFFICES ASSUME IInv, Validate PROVE IInv'
  OBVIOUS
<1>1. node = "validate"
  BY DEF Validate, Execute
<1>2. /\ current_iteration > 0 /\ has_current_subtask
      /\ LastIteration.number = current_iteration
  BY <1>1, CurrentFacts DEF IInv, AttemptInv, PlanInv, Attempted, Planned, Running
<1>3. PICK found \in SUBSET {"critical", "warning"} :
        LET passed == "critical" \notin found IN
        /\ validate_result' =
             [subtask |-> current_subtask_idx,
              attempt |-> LastIteration.number,
              passed  |-> passed,
              failed_checks |-> {[subtask |-> current_subtask_idx,
                                  attempt |-> LastIteration.number,
                                  severity |-> s] : s \in found}]
        /\ validation_passed' = passed
        /\ node' = route_after_validate(passed)
  BY DEF Validate
<1>4. /\ fsm_state' = "reviewing" /\ steps' = steps + 1
      /\ UNCHANGED <<run, planVars, attemptVars, review_passed, critical_findings,
                     gather_result, review_result>>
  BY DEF Validate, Execute
<1>5. /\ validation_passed' \in BOOLEAN
      /\ node' = IF validation_passed' THEN "review" ELSE "retry"
      /\ validate_result'.subtask = current_subtask_idx
      /\ validate_result'.attempt = current_iteration
      /\ validate_result'.passed = validation_passed'
      /\ \A c \in validate_result'.failed_checks :
           c.subtask = current_subtask_idx /\ c.attempt = current_iteration
      /\ ~validation_passed' =>
           \E c \in validate_result'.failed_checks : c.severity = "critical"
  <2>1. validation_passed' = ("critical" \notin found)
    BY <1>3
  <2>2. validation_passed' \in BOOLEAN
    BY <2>1
  <2>3. node' = route_after_validate(validation_passed')
    BY <1>3
  <2>4. validate_result'.passed = validation_passed'
    BY <1>3, <2>1
  <2>5. /\ validate_result'.subtask = current_subtask_idx
        /\ validate_result'.attempt = current_iteration
        /\ validate_result'.failed_checks =
             {[subtask |-> current_subtask_idx, attempt |-> current_iteration,
               severity |-> s] : s \in found}
    BY <1>2, <1>3
  <2>6. ASSUME ~validation_passed'
        PROVE  \E c \in validate_result'.failed_checks : c.severity = "critical"
    <3> DEFINE check == [subtask |-> current_subtask_idx, attempt |-> current_iteration,
                         severity |-> "critical"]
    <3>1. "critical" \in found
      BY <2>1, <2>6
    <3>2. check \in validate_result'.failed_checks
      BY <2>5, <3>1
    <3>3. check.severity = "critical"
      OBVIOUS
    <3> QED
      BY <3>2, <3>3
  <2> QED
    BY <2>2, <2>3, <2>4, <2>5, <2>6 DEF route_after_validate
<1>6. validate_result' \in ValidateResult
  <2>1. current_subtask_idx \in Nat /\ LastIteration.number \in Nat
    BY <1>2 DEF IInv, TaskTypeOK
  <2> QED
    BY <1>3, <2>1, ResultTypes
<1> USE <1>1, <1>4 DEF planVars, attemptVars
<1>7. TaskTypeOK'
  BY <1>5, <1>6 DEF IInv, TaskTypeOK, Running, FSMState
<1>8. IterationHistory'
  BY DEF IInv, IterationHistory, has_current_subtask, current_subtask
<1>9. PlanInv' /\ AttemptInv'
  BY <1>2, <1>5 DEF PlanInv, AttemptInv, Attempted, Planned, Running, has_current_subtask
<1>10. ReminderInv'
  BY <1>5 DEF IInv, ReminderInv, CoderSeesLastFailures
<1>11. VerdictInv'
  BY <1>5 DEF VerdictInv, EscalationIsJustified
<1>12. StepsInv'
  BY <1>5 DEF IInv, TaskTypeOK, StepsInv, LimitOnlyStopsLongPlans, Running
<1> QED
  BY <1>7, <1>8, <1>9, <1>10, <1>11, <1>12 DEF IInv

LEMMA ReviewStep == IInv /\ Review => IInv'
<1> SUFFICES ASSUME IInv, Review PROVE IInv'
  OBVIOUS
<1>1. node = "review"
  BY DEF Review, Execute
<1>2. /\ current_iteration > 0 /\ has_current_subtask /\ validation_passed
      /\ LastIteration.number = current_iteration
      /\ current_iteration <= current_subtask.max_iterations
      /\ current_subtask.max_iterations \in 1..5
  BY <1>1, CurrentFacts
  DEF IInv, AttemptInv, PlanInv, VerdictInv, IterationHistory, Attempted, Planned, Running
<1>3. PICK answer \in LlmReviews \cup {FallbackReview} :
        /\ review_result' = [subtask  |-> current_subtask_idx,
                             attempt  |-> LastIteration.number,
                             decision |-> answer.decision,
                             passed   |-> answer.passed,
                             critical |-> answer.critical]
        /\ review_passed' = answer.passed
        /\ critical_findings' = answer.critical
        /\ fsm_state' = IF answer.passed THEN "committing" ELSE "coding"
        /\ node' = route_after_review(answer.passed, answer.critical)
  BY DEF Review
<1>4. /\ steps' = steps + 1
      /\ UNCHANGED <<run, planVars, attemptVars, validation_passed, gather_result,
                     validate_result>>
  BY DEF Review, Execute
<1>5. answer \in LlmReviews
  BY ResultTypes DEF IInv, TaskTypeOK
<1>6. /\ review_result' \in ReviewResult
      /\ answer.passed \in BOOLEAN /\ answer.critical \in 0..3
  <2>1. current_subtask_idx \in Nat /\ LastIteration.number \in Nat
    BY <1>2 DEF IInv, TaskTypeOK
  <2> QED
    BY <1>3, <1>5, <2>1, ResultTypes
<1>7. /\ review_passed' => node' = "commit"
      /\ ~review_passed' => \/ /\ node' = "escalate"
                               /\ \/ critical_findings' >= 3
                                  \/ current_iteration = current_subtask.max_iterations
                            \/ /\ node' = "retry"
                               /\ current_iteration < current_subtask.max_iterations
  BY <1>2, <1>3, <1>6 DEF route_after_review, IInv, TaskTypeOK
<1>8. node' \in {"commit", "escalate", "retry"}
  BY <1>3, <1>7
<1> USE <1>1, <1>4 DEF planVars, attemptVars
<1>9. TaskTypeOK'
  <2>1. /\ node' \in Running \cup Stopped /\ fsm_state' \in FSMState
        /\ critical_findings' \in 0..3 /\ review_result' \in ReviewResult
    BY <1>3, <1>6, <1>8 DEF Running, FSMState
  <2>2. review_passed' \in BOOLEAN
    BY <1>3, <1>6
  <2> QED
    BY <2>1, <2>2 DEF IInv, TaskTypeOK
<1>10. IterationHistory'
  BY DEF IInv, IterationHistory, has_current_subtask, current_subtask
<1>11. PlanInv' /\ AttemptInv'
  BY <1>2, <1>8 DEF PlanInv, AttemptInv, Attempted, Planned, Running, has_current_subtask
<1>12. ReminderInv'
  BY <1>8 DEF IInv, ReminderInv, CoderSeesLastFailures
<1>13. VerdictInv'
  <2>1. /\ review_result'.subtask = current_subtask_idx
        /\ review_result'.attempt = current_iteration
        /\ review_result'.passed = review_passed'
    BY <1>2, <1>3
  <2>2. EscalationIsJustified'
    BY <1>2, <1>7, <1>8 DEF EscalationIsJustified, current_subtask
  <2> QED
    BY <1>2, <1>7, <1>8, <2>1, <2>2
    DEF IInv, VerdictInv, Validated, Attempted, Planned, Running
<1>14. StepsInv'
  BY <1>2, <1>7, <1>8 DEF IInv, TaskTypeOK, StepsInv, LimitOnlyStopsLongPlans, current_subtask
<1> QED
  BY <1>9, <1>10, <1>11, <1>12, <1>13, <1>14 DEF IInv

LEMMA RetryStep == IInv /\ Retry => IInv'
<1> SUFFICES ASSUME IInv, Retry PROVE IInv'
  OBVIOUS
<1>1. /\ node = "retry" /\ fsm_state' = "coding" /\ steps' = steps + 1
      /\ node' = route_after_retry
      /\ constraints_reminder' = reminder_for_retry
      /\ UNCHANGED <<run, planVars, current_iteration, iterations, verdictVars, resultVars>>
  BY DEF Retry, Execute
<1>2. /\ current_iteration > 0 /\ has_current_subtask
      /\ ~validation_passed \/ ~review_passed
      /\ current_iteration <= current_subtask.max_iterations
      /\ current_subtask.max_iterations \in 1..5
  BY <1>1, CurrentFacts
  DEF IInv, AttemptInv, PlanInv, VerdictInv, IterationHistory, Attempted, Planned, Running
<1>3. \/ /\ node' = "escalate"
         /\ current_iteration = current_subtask.max_iterations
      \/ /\ node' = "code"
         /\ current_iteration < current_subtask.max_iterations
  BY <1>1, <1>2 DEF route_after_retry, IInv, TaskTypeOK
<1>4. /\ validate_result.subtask = current_subtask_idx
      /\ validate_result.attempt = current_iteration
      /\ \A c \in validate_result.failed_checks :
           c.subtask = current_subtask_idx /\ c.attempt = current_iteration
      /\ ~validation_passed =>
           \E c \in validate_result.failed_checks : c.severity = "critical"
      /\ validate_result.failed_checks \in SUBSET Check
  BY <1>1 DEF IInv, TaskTypeOK, ValidateResult, VerdictInv, Validated, Attempted, Planned, Running
<1>5. constraints_reminder' = validate_result.failed_checks
  <2>1. validate_result # NoValidation
    BY <1>4 DEF NoValidation, IInv, TaskTypeOK
  <2> QED
    BY <1>1, <2>1 DEF reminder_for_retry
<1> USE <1>1 DEF planVars, verdictVars, resultVars
<1>6. TaskTypeOK'
  BY <1>3, <1>4, <1>5 DEF IInv, TaskTypeOK, Running, FSMState
<1>7. IterationHistory'
  BY DEF IInv, IterationHistory, has_current_subtask, current_subtask
<1>8. PlanInv' /\ AttemptInv'
  BY <1>2, <1>3 DEF PlanInv, AttemptInv, Attempted, Planned, Running,
    has_current_subtask, current_subtask
<1>9. ReminderInv'
  BY <1>3, <1>4, <1>5 DEF IInv, ReminderInv, CoderSeesLastFailures
<1>10. VerdictInv'
  BY <1>2, <1>3 DEF IInv, VerdictInv, EscalationIsJustified, current_subtask,
    Validated, Attempted, Planned, Running
<1>11. StepsInv'
  BY <1>3 DEF IInv, TaskTypeOK, StepsInv, LimitOnlyStopsLongPlans, current_subtask
<1> QED
  BY <1>6, <1>7, <1>8, <1>9, <1>10, <1>11 DEF IInv

LEMMA CommitStep == IInv /\ Commit => IInv'
<1> SUFFICES ASSUME IInv, Commit PROVE IInv'
  OBVIOUS
<1>1. node = "commit" /\ steps' = steps + 1 /\ UNCHANGED run
  BY DEF Commit, Execute
<1>2. CASE Raise
  BY <1>1, <1>2, StopStep DEF Raise, Stopped, taskVars, IInv, TaskTypeOK
<1>3. ASSUME NEW place, CommitDone(place)
      PROVE  IInv'
  <2>1. /\ fsm_state' = "done" /\ node' = route_after_commit
        /\ UNCHANGED <<planVars, attemptVars, verdictVars, gather_result, validate_result,
                       review_result>>
    BY <1>3 DEF CommitDone
  <2>2. \/ node' = "end"
        \/ node' = "next_subtask" /\ current_subtask_idx + 1 < Len(subtasks)
    BY <2>1 DEF route_after_commit
  <2>3. current_iteration > 0 /\ has_current_subtask
    BY <1>1 DEF IInv, AttemptInv, PlanInv, Attempted, Planned, Running
  <2> USE <1>1, <2>1 DEF planVars, attemptVars, verdictVars
  <2>4. TaskTypeOK'
    BY <2>2 DEF IInv, TaskTypeOK, Running, Stopped, FSMState
  <2>5. IterationHistory'
    BY DEF IInv, IterationHistory, has_current_subtask, current_subtask
  <2>6. PlanInv' /\ AttemptInv'
    BY <2>2, <2>3 DEF PlanInv, AttemptInv, Attempted, Planned, Running, has_current_subtask
  <2>7. ReminderInv'
    BY <2>2 DEF IInv, ReminderInv, CoderSeesLastFailures
  <2>8. VerdictInv'
    BY <2>2 DEF IInv, VerdictInv, EscalationIsJustified, Validated, Attempted, Planned, Running
  <2>9. StepsInv'
    BY <2>2 DEF IInv, TaskTypeOK, StepsInv, LimitOnlyStopsLongPlans
  <2> QED
    BY <2>4, <2>5, <2>6, <2>7, <2>8, <2>9 DEF IInv
<1> QED
  BY <1>2, <1>3 DEF Commit, CommitToFile, CommitToGit

LEMMA NextSubtaskStep == IInv /\ NextSubtask => IInv'
<1> SUFFICES ASSUME IInv, NextSubtask PROVE IInv'
  OBVIOUS
<1>1. /\ node = "next_subtask" /\ node' = "gather" /\ fsm_state' = "gathering"
      /\ steps' = steps + 1
      /\ current_subtask_idx' = current_subtask_idx + 1
      /\ iterations' = <<>> /\ current_iteration' = 0 /\ constraints_reminder' = {}
      /\ critical_findings' = 0
      /\ UNCHANGED <<run, subtasks, resultVars>>
  BY DEF NextSubtask, ResetAttempts, Execute
<1>2. validation_passed' \in BOOLEAN /\ review_passed' \in BOOLEAN
  BY DEF NextSubtask
<1>3. /\ current_subtask_idx + 1 < Len(subtasks)
      /\ current_iteration <= 5
  <2>1. has_current_subtask
    BY <1>1 DEF IInv, PlanInv, Planned, Running
  <2>2. current_subtask.max_iterations \in 1..5
    BY <2>1, CurrentFacts
  <2> QED
    BY <1>1, <2>1, <2>2, SMTT(20) DEF IInv, TaskTypeOK, StepsInv, IterationHistory
<1>4. (has_current_subtask => current_subtask.max_iterations \in 1..5)'
  <2>1. current_subtask' \in Subtask
    BY <1>1, <1>3 DEF IInv, TaskTypeOK, current_subtask
  <2> QED
    BY <2>1 DEF Subtask
<1> USE <1>1 DEF resultVars
<1>5. TaskTypeOK'
  BY <1>2, EmptyTypes DEF IInv, TaskTypeOK, Running, FSMState
<1>6. IterationHistory'
  BY <1>4 DEF IterationHistory
<1>7. PlanInv' /\ AttemptInv'
  BY <1>3 DEF PlanInv, AttemptInv, Attempted, Planned, Running, has_current_subtask
<1>8. ReminderInv'
  BY DEF ReminderInv, CoderSeesLastFailures
<1>9. VerdictInv'
  BY DEF VerdictInv, EscalationIsJustified, Validated, Attempted, Planned, Running
<1>10. StepsInv'
  BY <1>3 DEF IInv, TaskTypeOK, StepsInv, LimitOnlyStopsLongPlans
<1> QED
  BY <1>5, <1>6, <1>7, <1>8, <1>9, <1>10 DEF IInv

LEMMA EscalateStep == IInv /\ Escalate => IInv'
<1> SUFFICES ASSUME IInv, Escalate PROVE IInv'
  OBVIOUS
<1>1. node' \in {"end", "aborted"} /\ steps' = steps + 1 /\ fsm_state' \in FSMState
        /\ UNCHANGED <<run, planVars, attemptVars, verdictVars, resultVars>>
  BY DEF Escalate, Execute, Raise, taskVars, FSMState, IInv, TaskTypeOK
<1> QED
  BY <1>1, StopStep DEF Stopped, IInv, TaskTypeOK

LEMMA OutsideStep ==
  IInv /\ (OutOfSteps \/ Crash \/ Generate \/ UNCHANGED vars) => IInv'
<1> SUFFICES ASSUME IInv, OutOfSteps \/ Crash \/ Generate \/ UNCHANGED vars PROVE IInv'
  OBVIOUS
<1>1. CASE OutOfSteps
  BY <1>1, StopStep DEF OutOfSteps, Stopped, taskVars, IInv, TaskTypeOK
<1>2. CASE Crash
  BY <1>2, StopStep DEF Crash, Stopped, taskVars, IInv, TaskTypeOK
<1>3. CASE Generate
  <2>1. node' = "preflight" /\ steps' = 0 /\ InitialTaskState'
    BY <1>3 DEF Generate, InitialTaskState
  <2>8. run' \in 1..MaxRuns
    BY <1>3, PipelineAssumption DEF Generate, IInv, TaskTypeOK
  <2> USE <2>1, <2>8 DEF InitialTaskState
  <2>2. TaskTypeOK'
    <3>1. validation_passed' \in BOOLEAN /\ review_passed' \in BOOLEAN
      OBVIOUS
    <3>2. gather_result' \in [subtask : Int] /\ validate_result' \in ValidateResult
            /\ review_result' \in ReviewResult
      BY EmptyTypes
    <3>3. subtasks' \in Seq(Subtask) /\ iterations' \in Seq(Iteration)
      BY EmptyTypes
    <3>4. /\ node' \in Running \cup Stopped /\ fsm_state' \in FSMState
          /\ steps' \in Nat /\ current_subtask_idx' \in Nat /\ current_iteration' \in Nat
          /\ constraints_reminder' \in SUBSET Check
          /\ critical_findings' \in 0..3
      BY DEF Running, FSMState
    <3> QED
      BY <3>1, <3>2, <3>3, <3>4 DEF TaskTypeOK
  <2>3. IterationHistory'
    BY DEF IterationHistory, has_current_subtask
  <2>4. PlanInv' /\ AttemptInv'
    BY DEF PlanInv, AttemptInv, Planned, Attempted, Running
  <2>5. ReminderInv'
    BY DEF ReminderInv, CoderSeesLastFailures
  <2>6. VerdictInv'
    BY DEF VerdictInv, Validated, Attempted, Planned, Running, EscalationIsJustified
  <2>7. StepsInv'
    BY DEF StepsInv, LimitOnlyStopsLongPlans
  <2> QED
    BY <2>2, <2>3, <2>4, <2>5, <2>6, <2>7 DEF IInv
<1>4. CASE UNCHANGED vars
  <2> USE <1>4 DEF vars
  <2>1. TaskTypeOK'
    BY DEF IInv, TaskTypeOK
  <2>2. IterationHistory' /\ PlanInv' /\ AttemptInv'
    BY DEF IInv, IterationHistory, PlanInv, AttemptInv, has_current_subtask, current_subtask
  <2>3. ReminderInv'
    BY DEF IInv, ReminderInv, CoderSeesLastFailures
  <2>4. VerdictInv'
    BY DEF IInv, VerdictInv, EscalationIsJustified, current_subtask
  <2>5. StepsInv'
    BY DEF IInv, StepsInv, LimitOnlyStopsLongPlans, current_subtask
  <2> QED
    BY <2>1, <2>2, <2>3, <2>4, <2>5 DEF IInv
<1> QED
  BY <1>1, <1>2, <1>3, <1>4

LEMMA InvStep == IInv /\ [Next]_vars => IInv'
  BY PreflightStep, PlanStep, GatherStep, CodeStep, ValidateStep, ReviewStep, RetryStep,
     CommitStep, NextSubtaskStep, EscalateStep, OutsideStep
  DEF Next, PipelineStep, Finished

LEMMA Invariance == Spec => []IInv
  BY InvInit, InvStep, PTL DEF Spec

\* Outside the state: git, the files and the escalation report.
LEMMA WorldTypesInit == Init => WorldTypeOK
<1> SUFFICES ASSUME Init PROVE WorldTypeOK
  OBVIOUS
<1>1. head \in Branch /\ branches \subseteq Branch
  BY DEF Init, Branch
<1>2. commits \in Seq([branch : Branch, base : Branch, code : Code])
  BY EmptyTypes DEF Init
<1>3. generated \subseteq File \X Code
  BY DEF Init
<1>4. escalation \in EscalateResult
  BY DEF Init, NoEscalation, EscalateResult, Code
<1> QED
  BY <1>1, <1>2, <1>3, <1>4 DEF WorldTypeOK

\* What commit, finished or not, may have written.
LEMMA CommitWrites ==
  ASSUME IInv, [Next]_vars, Commit \/ (Crash /\ ~UNCHANGED worldVars)
  PROVE  /\ node = "commit" /\ UNCHANGED escalation
         /\ \/ UNCHANGED <<branches, head>>
            \/ branches' = branches \cup {branch_name} /\ head' = branch_name
         /\ MakeCommit \/ UNCHANGED commits
         /\ generated' \in {generated, EmptiedFile, WrittenFile}
<1>1. CASE Commit
  BY <1>1 DEF Commit, Execute, CommitToFile, CommitToGit, CreateBranch
<1>2. CASE Crash /\ ~UNCHANGED worldVars
  BY <1>2 DEF Crash, CreateBranch
<1> QED
  BY <1>1, <1>2

LEMMA WorldTypesStep == IInv /\ WorldTypeOK /\ [Next]_vars => WorldTypeOK'
<1> SUFFICES ASSUME IInv, WorldTypeOK, [Next]_vars PROVE WorldTypeOK'
  OBVIOUS
<1>1. CASE UNCHANGED worldVars
  BY <1>1 DEF worldVars, WorldTypeOK
<1>2. CASE Commit \/ (Crash /\ ~UNCHANGED worldVars)
  <2>1. /\ node = "commit" /\ UNCHANGED escalation
        /\ \/ UNCHANGED <<branches, head>>
           \/ branches' = branches \cup {branch_name} /\ head' = branch_name
        /\ MakeCommit \/ UNCHANGED commits
        /\ generated' \in {generated, EmptiedFile, WrittenFile}
    BY <1>2, CommitWrites
  <2>2. /\ has_current_subtask
        /\ LastIteration \in Iteration
        /\ current_subtask \in Subtask /\ run \in Nat
    BY <2>1, CurrentFacts, PipelineAssumption
    DEF IInv, TaskTypeOK, PlanInv, Attempted, Planned, Running
  <2>3. LastIteration.code \in Code /\ LastIteration.number \in Nat
    BY <2>2 DEF Iteration
  <2>4. branch_name \in Branch
    BY <2>2 DEF branch_name, Branch, Subtask
  <2>5. target_file \in File
    BY <2>2, <2>3 DEF target_file, fallback_file, File, Subtask, TargetTypes
  <2>6. commits' \in Seq([branch : Branch, base : Branch, code : Code])
    <3> DEFINE new == [branch |-> branch_name, base |-> head, code |-> LastIteration.code]
    <3>1. new \in [branch : Branch, base : Branch, code : Code]
      BY <2>3, <2>4 DEF WorldTypeOK
    <3> HIDE DEF new
    <3>2. Append(commits, new) \in Seq([branch : Branch, base : Branch, code : Code])
      BY <3>1 DEF WorldTypeOK
    <3> QED
      BY <2>1, <3>2 DEF WorldTypeOK, MakeCommit, new
  <2>7. generated' \subseteq File \X Code
    BY <2>1, <2>3, <2>5 DEF WorldTypeOK, EmptiedFile, WrittenFile
  <2> QED
    BY <2>1, <2>4, <2>6, <2>7 DEF WorldTypeOK
<1>3. CASE Escalate
  <2>1. node = "escalate"
    BY <1>3 DEF Escalate, Execute
  <2>2. LastIteration.code \in Code
    BY <2>1, CurrentFacts DEF Attempted, Planned, Running, Iteration
  <2>3. escalation' \in EscalateResult
    BY <1>3, <2>2 DEF Escalate, EscalateResult, escalate_reason, WorldTypeOK, IInv, TaskTypeOK
  <2> QED
    BY <1>3, <2>3 DEF Escalate, WorldTypeOK
<1> QED
  BY <1>1, <1>2, <1>3
  DEF Next, PipelineStep, Preflight, Plan, Gather, CodeNode, Validate, Review, Retry,
    NextSubtask, OutOfSteps, Generate, Finished, worldVars, vars

-----------------------------------------------------------------------------
(***************************************************************************)
(* The theorems                                                            *)
(***************************************************************************)

\* The state keeps its types (state.py, contracts.py).
THEOREM Types == Spec => []TypeOK
<1>1. IInv /\ WorldTypeOK => TypeOK
  BY DEF IInv, TypeOK
<1> QED
  BY <1>1, Invariance, WorldTypesInit, WorldTypesStep, PTL DEF Spec

\* No assertion of a node fails: the current subtask and an attempt of it are
\* there wherever a node relies on them.
THEOREM Assertions == Spec => []AssertionsHold
<1>1. IInv => AssertionsHold
  <2> SUFFICES ASSUME IInv PROVE AssertionsHold
    OBVIOUS
  <2>1. node \in Planned => has_current_subtask
    BY DEF IInv, PlanInv
  <2>2. node \in Attempted => iterations # <<>>
    BY DEF IInv, TaskTypeOK, AttemptInv, IterationHistory
  <2> QED
    BY <2>1, <2>2 DEF AssertionsHold, Attempted, Planned
<1> QED
  BY <1>1, Invariance, PTL

\* state.iterations is the gapless history of the current subtask, within its
\* budget, for budgets and plans of every size.
THEOREM History == Spec => []IterationHistory
<1>1. IInv => IterationHistory
  BY DEF IInv
<1> QED
  BY <1>1, Invariance, PTL

\* Each prompt carries the failed checks of the attempt right before it.
THEOREM Reminders == Spec => []CoderSeesLastFailures
<1>1. IInv => CoderSeesLastFailures
  BY DEF IInv, ReminderInv
<1> QED
  BY <1>1, Invariance, PTL

\* Escalation gives up only on rejected code, for one of the two reasons.
THEOREM Escalation == Spec => []EscalationIsJustified
<1>1. IInv => EscalationIsJustified
  BY DEF IInv, VerdictInv
<1> QED
  BY <1>1, Invariance, PTL

\* LangGraph's limit stops only plans that are too long for it: a plan of n
\* subtasks never needs more than 1 + 22 n steps to commit or to escalate.
THEOREM Limit == Spec => []LimitOnlyStopsLongPlans
<1>1. IInv => LimitOnlyStopsLongPlans
  BY DEF IInv, StepsInv
<1> QED
  BY <1>1, Invariance, PTL

\* Code reaches git or the file system only in commit, and then it is the
\* last attempt, validated and reviewed as such.
THEOREM Delivery == Spec => OnlyApprovedCodeIsDelivered
<1> DEFINE A == \A code \in Delivered' \ Delivered : Approved(code)
<1>1. TypeOK /\ IInv /\ [Next]_vars => [A]_vars
  <2> SUFFICES ASSUME TypeOK, IInv, Next PROVE A
    BY DEF vars
  <2>1. CASE Commit \/ (Crash /\ ~UNCHANGED worldVars)
    <3>1. /\ node = "commit"
          /\ MakeCommit \/ UNCHANGED commits
          /\ generated' \in {generated, EmptiedFile, WrittenFile}
      BY <2>1, CommitWrites
    <3>2. Approved(LastIteration.code)
      <4>1. LastIteration.code = [run |-> run, subtask |-> current_subtask_idx,
                                  attempt |-> current_iteration]
        BY <3>1, CurrentFacts DEF Attempted, Planned, Running
      <4>2. /\ LastIteration.code.subtask = current_subtask_idx
            /\ LastIteration.code.attempt = current_iteration
        BY <4>1
      <4>3. /\ validate_result.subtask = current_subtask_idx
            /\ validate_result.attempt = current_iteration
            /\ validate_result.passed
            /\ review_result.subtask = current_subtask_idx
            /\ review_result.attempt = current_iteration
            /\ review_result.passed
        BY <3>1 DEF IInv, VerdictInv, Validated, Attempted, Planned, Running
      <4> QED
        BY <4>1, <4>2, <4>3 DEF Approved
    <3>3. \A code \in {commits'[i].code : i \in 1..Len(commits')} :
            code \in {commits[i].code : i \in 1..Len(commits)} \/ code = LastIteration.code
      <4>1. CASE UNCHANGED commits
        BY <4>1
      <4>2. CASE MakeCommit
        <5> DEFINE new == [branch |-> branch_name, base |-> head, code |-> LastIteration.code]
        <5>1. /\ commits' = Append(commits, new)
              /\ commits \in Seq([branch : Branch, base : Branch, code : Code])
          BY <4>2 DEF MakeCommit, TypeOK, WorldTypeOK
        <5>2. /\ Len(commits') = Len(commits) + 1
              /\ \A i \in 1..Len(commits) : commits'[i] = commits[i]
              /\ commits'[Len(commits) + 1] = new
          BY <5>1
        <5>3. ASSUME NEW i \in 1..Len(commits')
              PROVE  \/ i \in 1..Len(commits) /\ commits'[i] = commits[i]
                     \/ commits'[i] = new
          BY <5>1, <5>2
        <5>4. new.code = LastIteration.code
          OBVIOUS
        <5> HIDE DEF new
        <5> QED
          BY <5>3, <5>4
      <4> QED
        BY <3>1, <4>1, <4>2
    <3>4. \A code \in {p[2] : p \in generated'} :
            code \in {p[2] : p \in generated} \/ code = LastIteration.code
      BY <3>1 DEF EmptiedFile, WrittenFile
    <3> QED
      BY <3>2, <3>3, <3>4 DEF Delivered
  <2>2. CASE ~(Commit \/ (Crash /\ ~UNCHANGED worldVars))
    <3>1. UNCHANGED <<commits, generated>>
      BY <2>2 DEF Next, PipelineStep, Preflight, Plan, Gather, CodeNode, Validate, Review, Retry,
        NextSubtask, Escalate, OutOfSteps, Generate, Finished, worldVars, vars
    <3> QED
      BY <3>1 DEF Delivered
  <2> QED
    BY <2>1, <2>2
<1> QED
  BY <1>1, Types, Invariance, PTL DEF Spec, OnlyApprovedCodeIsDelivered

-----------------------------------------------------------------------------
(***************************************************************************)
(* The commits of an invocation.  Which of them there are is told by the   *)
(* index of the current subtask and by fsm_state, so it takes two more     *)
(* invariants: where "done" is said, and what has been committed by then.  *)
(* The latter speaks of all invocations, because a later one must not find *)
(* commits that look like its own.                                         *)
(***************************************************************************)

\* "done" is said between the commit of a subtask and what follows it, and
\* nowhere else; the graph ends in "done" or "escalated".
StatusInv ==
  /\ node = "next_subtask" => fsm_state = "done"
  /\ node \in Running \ {"next_subtask"} => fsm_state # "done"
  /\ node = "end" => fsm_state \in {"done", "escalated"}
  /\ node = "end" /\ fsm_state = "done" => current_subtask_idx + 1 = Len(subtasks)

\* The commits of this invocation are those of the subtasks before the
\* current one, in the order of the plan, and of that one when it is done.
PrefixInv ==
  GitEnabled =>
    /\ \A k \in 1..Len(commits) : commits[k].code.run <= run
    /\ \A i \in Nat : i < current_subtask_idx => \E k \in 1..Len(commits) : CommitsOf(i) = {k}
    /\ \A i \in Nat : i > current_subtask_idx => CommitsOf(i) = {}
    /\ fsm_state = "done" => \E k \in 1..Len(commits) : CommitsOf(current_subtask_idx) = {k}
    /\ fsm_state # "done" =>
         \/ CommitsOf(current_subtask_idx) = {}
         \/ /\ node \in {"aborted", "crashed"}
            /\ \E k \in 1..Len(commits) : CommitsOf(current_subtask_idx) = {k}

LEMMA StatusInit == Init => StatusInv
  BY DEF Init, InitialTaskState, StatusInv, Running

LEMMA StatusStep == IInv /\ StatusInv /\ [Next]_vars => StatusInv'
<1> SUFFICES ASSUME IInv, StatusInv, [Next]_vars PROVE StatusInv'
  OBVIOUS
<1>1. ASSUME node' \in Running, fsm_state' # "done", node' # "next_subtask"
      PROVE  StatusInv'
  BY <1>1 DEF StatusInv, Running
<1>2. ASSUME node' \in {"aborted", "crashed", "out_of_steps"}
      PROVE  StatusInv'
  BY <1>2 DEF StatusInv, Running
<1>3. CASE Preflight \/ Plan \/ Gather \/ CodeNode \/ NextSubtask \/ Generate
  BY <1>1, <1>2, <1>3
  DEF Preflight, Plan, Gather, CodeNode, NextSubtask, Generate, Raise, Running
<1>4. CASE Validate
  BY <1>1, <1>4 DEF Validate, route_after_validate, Running
<1>5. CASE Review
  BY <1>1, <1>5 DEF Review, route_after_review, Running
<1>6. CASE Retry
  BY <1>1, <1>6 DEF Retry, route_after_retry, Running
<1>7. CASE Escalate
  BY <1>2, <1>7 DEF Escalate, Raise, StatusInv, Running
<1>8. CASE Commit
  <2>1. CASE Raise
    BY <1>2, <2>1 DEF Raise
  <2>2. ASSUME NEW place, CommitDone(place)
        PROVE  StatusInv'
    <3>1. /\ fsm_state' = "done"
          /\ node' = route_after_commit
          /\ UNCHANGED <<subtasks, current_subtask_idx>>
      BY <2>2 DEF CommitDone, planVars
    <3>2. has_current_subtask
      BY <1>8 DEF Commit, Execute, IInv, PlanInv, Planned, Running
    <3> QED
      BY <3>1, <3>2 DEF route_after_commit, StatusInv, Running, has_current_subtask, IInv, TaskTypeOK
  <2> QED
    BY <1>8, <2>1, <2>2 DEF Commit, CommitToFile, CommitToGit
<1>9. CASE OutOfSteps \/ Crash
  BY <1>2, <1>9 DEF OutOfSteps, Crash
<1>10. CASE UNCHANGED vars
  BY <1>10 DEF vars, StatusInv
<1> QED
  BY <1>3, <1>4, <1>5, <1>6, <1>7, <1>8, <1>9, <1>10 DEF Next, PipelineStep, Finished

LEMMA SameCommits ==
  ASSUME UNCHANGED <<run, commits>>
  PROVE  \A i : CommitsOf(i)' = CommitsOf(i)
BY DEF CommitsOf

\* One more commit of the subtask in hand adds to that subtask only.
LEMMA OneMoreCommit ==
  ASSUME IInv, WorldTypeOK, node = "commit", MakeCommit, UNCHANGED run
  PROVE  /\ Len(commits') = Len(commits) + 1
         /\ \A k \in 1..Len(commits) : commits'[k] = commits[k]
         /\ commits'[Len(commits) + 1].code.run = run
         /\ \A i : i = current_subtask_idx => CommitsOf(i)' = CommitsOf(i) \cup {Len(commits) + 1}
         /\ \A i : i # current_subtask_idx => CommitsOf(i)' = CommitsOf(i)
<1> DEFINE new == [branch |-> branch_name, base |-> head, code |-> LastIteration.code]
<1>1. /\ commits' = Append(commits, new)
      /\ commits \in Seq([branch : Branch, base : Branch, code : Code])
  BY DEF MakeCommit, WorldTypeOK
<1>2. LastIteration.code = [run |-> run, subtask |-> current_subtask_idx,
                            attempt |-> current_iteration]
  BY CurrentFacts DEF Attempted, Planned, Running
<1>3. new.code = LastIteration.code
  OBVIOUS
<1>4. new.code.run = run /\ new.code.subtask = current_subtask_idx
  BY <1>2, <1>3
<1> HIDE DEF new
<1>5. /\ Len(commits') = Len(commits) + 1
      /\ \A k \in 1..Len(commits) : commits'[k] = commits[k]
      /\ commits'[Len(commits) + 1] = new
      /\ Len(commits) \in Nat
  BY <1>1
<1>6. \A k \in 1..Len(commits') : k \in 1..Len(commits) \/ k = Len(commits) + 1
  BY <1>5
<1>7. Len(commits) + 1 \in 1..Len(commits') /\ 1..Len(commits) \subseteq 1..Len(commits')
        /\ Len(commits) + 1 \notin 1..Len(commits)
  BY <1>5
<1>8. ASSUME NEW i, NEW k
      PROVE  k \in CommitsOf(i)' <=>
               k \in CommitsOf(i) \/ (k = Len(commits) + 1 /\ i = current_subtask_idx)
  <2>1. CASE k \in 1..Len(commits)
    BY <2>1, <1>5, <1>7 DEF CommitsOf
  <2>2. CASE k = Len(commits) + 1
    BY <2>2, <1>4, <1>5, <1>7 DEF CommitsOf
  <2> QED
    BY <2>1, <2>2, <1>6 DEF CommitsOf
<1>9. ASSUME NEW i, i = current_subtask_idx
      PROVE  CommitsOf(i)' = CommitsOf(i) \cup {Len(commits) + 1}
  BY <1>8, <1>9
<1>10. ASSUME NEW i, i # current_subtask_idx
       PROVE  CommitsOf(i)' = CommitsOf(i)
  <2>1. \A k : k \in CommitsOf(i)' <=> k \in CommitsOf(i)
    BY <1>8, <1>10
  <2> QED
    BY <2>1, Zenon
<1> QED
  BY <1>4, <1>5, <1>9, <1>10

LEMMA PrefixInit == Init => PrefixInv
<1> SUFFICES ASSUME Init PROVE PrefixInv
  OBVIOUS
<1>1. commits = <<>> /\ current_subtask_idx = 0 /\ fsm_state = "init"
  BY DEF Init, InitialTaskState
<1>2. \A i : CommitsOf(i) = {}
  BY <1>1 DEF CommitsOf
<1> QED
  BY <1>1, <1>2 DEF PrefixInv

LEMMA PrefixStep ==
  IInv /\ WorldTypeOK /\ StatusInv /\ PrefixInv /\ [Next]_vars => PrefixInv'
<1> SUFFICES ASSUME IInv, WorldTypeOK, StatusInv, PrefixInv, [Next]_vars, GitEnabled
             PROVE  PrefixInv'
  BY DEF PrefixInv
<1> USE DEF planVars, taskVars
\* Nothing is committed and the subtask stays the same.
<1>1. ASSUME UNCHANGED <<run, commits, current_subtask_idx>>,
             \/ UNCHANGED <<node, fsm_state>>
             \/ node \in Running /\ UNCHANGED fsm_state
             \/ node \in Running \ {"next_subtask"} /\ fsm_state' # "done"
      PROVE  PrefixInv'
  <2>1. \A i : CommitsOf(i)' = CommitsOf(i)
    BY <1>1, SameCommits
  <2>2. /\ \A k \in 1..Len(commits') : commits'[k].code.run <= run'
        /\ \A i \in Nat : i < current_subtask_idx' => \E k \in 1..Len(commits') : CommitsOf(i)' = {k}
        /\ \A i \in Nat : i > current_subtask_idx' => CommitsOf(i)' = {}
    BY <1>1, <2>1 DEF PrefixInv
  <2>3. fsm_state' = "done" =>
          \A i : i = current_subtask_idx => \E k \in 1..Len(commits') : CommitsOf(i)' = {k}
    BY <1>1, <2>1 DEF PrefixInv, StatusInv, Running
  <2>4. fsm_state' # "done" =>
          \A i : i = current_subtask_idx =>
            \/ CommitsOf(i)' = {}
            \/ /\ node' \in {"aborted", "crashed"}
               /\ \E k \in 1..Len(commits') : CommitsOf(i)' = {k}
    BY <1>1, <2>1 DEF PrefixInv, StatusInv, Running
  <2>5. /\ (fsm_state = "done" =>
             \E k \in 1..Len(commits) : CommitsOf(current_subtask_idx) = {k})'
        /\ (fsm_state # "done" =>
             \/ CommitsOf(current_subtask_idx) = {}
             \/ /\ node \in {"aborted", "crashed"}
                /\ \E k \in 1..Len(commits) : CommitsOf(current_subtask_idx) = {k})'
    BY <1>1, <2>3, <2>4 DEF CommitsOf
  <2> QED
    BY <1>1, <2>2, <2>5 DEF PrefixInv
\* The subtask in hand is committed.
<1>2. ASSUME node = "commit", MakeCommit, UNCHANGED <<run, current_subtask_idx>>,
             fsm_state' = "done" \/ node' \in {"aborted", "crashed"}
      PROVE  PrefixInv'
  <2>1. /\ Len(commits') = Len(commits) + 1 /\ Len(commits) \in Nat
        /\ \A k \in 1..Len(commits) : commits'[k] = commits[k]
        /\ commits'[Len(commits) + 1].code.run = run
        /\ \A i : i = current_subtask_idx => CommitsOf(i)' = CommitsOf(i) \cup {Len(commits) + 1}
        /\ \A i : i # current_subtask_idx => CommitsOf(i)' = CommitsOf(i)
    BY <1>2, OneMoreCommit DEF WorldTypeOK
  <2>2. CommitsOf(current_subtask_idx) = {}
    BY <1>2 DEF PrefixInv, StatusInv, Running
  <2>3. run \in Nat /\ current_subtask_idx \in Nat
    BY PipelineAssumption DEF IInv, TaskTypeOK
  <2>4. \A k \in 1..Len(commits') : commits'[k].code.run <= run'
    <3> SUFFICES ASSUME NEW k \in 1..Len(commits') PROVE commits'[k].code.run <= run
      BY <1>2
    <3>1. CASE k \in 1..Len(commits)
      BY <3>1, <2>1 DEF PrefixInv
    <3>2. CASE k = Len(commits) + 1
      BY <3>2, <2>1, <2>3
    <3> QED
      BY <3>1, <3>2, <2>1
  <2>5. \A i \in Nat : i < current_subtask_idx => \E k \in 1..Len(commits') : CommitsOf(i)' = {k}
    <3> SUFFICES ASSUME NEW i \in Nat, i < current_subtask_idx
                 PROVE  \E k \in 1..Len(commits') : CommitsOf(i)' = {k}
      OBVIOUS
    <3>1. CommitsOf(i)' = CommitsOf(i)
      BY <2>1, <2>3
    <3>2. PICK k \in 1..Len(commits) : CommitsOf(i) = {k}
      BY DEF PrefixInv
    <3>3. k \in 1..Len(commits')
      BY <2>1
    <3> QED
      BY <3>1, <3>2, <3>3
  <2>6. \A i \in Nat : i > current_subtask_idx => CommitsOf(i)' = {}
    BY <2>1, <2>3 DEF PrefixInv
  <2>7. \A i : i = current_subtask_idx => \E k \in 1..Len(commits') : CommitsOf(i)' = {k}
    <3> SUFFICES ASSUME NEW i, i = current_subtask_idx
                 PROVE  CommitsOf(i)' = {Len(commits) + 1}
      BY <2>1
    <3> QED
      BY <2>1, <2>2
  <2>8. (\E k \in 1..Len(commits) : CommitsOf(current_subtask_idx) = {k})'
    BY <1>2, <2>7 DEF CommitsOf
  <2> QED
    BY <1>2, <2>4, <2>5, <2>6, <2>8 DEF PrefixInv
<1>3. CASE NextSubtask
  <2>1. /\ UNCHANGED <<run, commits>>
        /\ current_subtask_idx' = current_subtask_idx + 1
        /\ current_subtask_idx \in Nat
        /\ fsm_state = "done" /\ fsm_state' # "done"
    BY <1>3 DEF NextSubtask, Execute, StatusInv, worldVars, IInv, TaskTypeOK
  <2>2. \A i : CommitsOf(i)' = CommitsOf(i)
    BY <2>1, SameCommits
  <2>3. ASSUME NEW i \in Nat, i < current_subtask_idx'
        PROVE  \E k \in 1..Len(commits') : CommitsOf(i)' = {k}
    BY <2>1, <2>2, <2>3 DEF PrefixInv
  <2>4. ASSUME NEW i \in Nat, i >= current_subtask_idx'
        PROVE  CommitsOf(i)' = {}
    BY <2>1, <2>2, <2>4 DEF PrefixInv
  <2>5. (CommitsOf(current_subtask_idx) = {})'
    <3>1. \A i : i = current_subtask_idx' => CommitsOf(i)' = {}
      BY <2>1, <2>4
    <3> QED
      BY <3>1 DEF CommitsOf
  <2>6. \A k \in 1..Len(commits') : commits'[k].code.run <= run'
    BY <2>1 DEF PrefixInv
  <2> QED
    BY <2>1, <2>3, <2>4, <2>5, <2>6 DEF PrefixInv
<1>4. CASE Generate
  <2>1. /\ UNCHANGED commits /\ run' = run + 1 /\ current_subtask_idx' = 0
        /\ run \in Nat
        /\ fsm_state' # "done"
    BY <1>4, PipelineAssumption DEF Generate, worldVars, IInv, TaskTypeOK
  <2>2. ASSUME NEW k \in 1..Len(commits)
        PROVE  commits[k].code.run \in Nat /\ commits[k].code.run <= run
    <3> DEFINE S == [branch : Branch, base : Branch, code : Code]
    <3>1. commits \in Seq(S)
      BY DEF WorldTypeOK
    <3> HIDE DEF S
    <3>2. commits[k] \in S
      BY <3>1
    <3>3. commits[k].code \in Code
      BY <3>2 DEF S
    <3>4. commits[k].code.run \in Nat
      BY <3>3 DEF Code
    <3> QED
      BY <3>4 DEF PrefixInv
  <2>3. \A k \in 1..Len(commits') : commits'[k].code.run <= run' /\ commits'[k].code.run # run'
    BY <2>1, <2>2
  <2>4. \A i : CommitsOf(i)' = {}
    BY <2>3 DEF CommitsOf
  <2>5. (CommitsOf(current_subtask_idx) = {})'
    BY <2>3 DEF CommitsOf
  <2> QED
    BY <2>1, <2>3, <2>4, <2>5 DEF PrefixInv
<1>5. CASE Preflight \/ Plan \/ Gather \/ CodeNode \/ Validate \/ Review \/ Retry \/ Escalate
  <2>1. /\ UNCHANGED <<run, commits, current_subtask_idx>>
        /\ node \in Running \ {"next_subtask"}
    BY <1>5 DEF Preflight, Plan, Gather, CodeNode, Validate, Review, Retry, Escalate, Execute,
      Raise, worldVars, Running
  <2>2. UNCHANGED fsm_state \/ fsm_state' # "done"
    BY <1>5 DEF Preflight, Plan, Gather, CodeNode, Validate, Review, Retry, Escalate, Raise
  <2> QED
    BY <1>1, <2>1, <2>2
<1>6. CASE Commit
  <2>1. node = "commit" /\ UNCHANGED <<run, current_subtask_idx>>
    BY <1>6 DEF Commit, Execute, CommitToFile, CommitToGit, CommitDone, Raise
  <2>2. \/ MakeCommit /\ (fsm_state' = "done" \/ node' = "aborted")
        \/ UNCHANGED <<commits, fsm_state>>
    BY <1>6 DEF Commit, CommitToFile, CommitToGit, CommitDone, Raise
  <2> QED
    BY <1>1, <1>2, <2>1, <2>2 DEF Running
<1>7. CASE Crash
  <2>1. /\ UNCHANGED <<run, current_subtask_idx, fsm_state>>
        /\ node \in Running /\ node' = "crashed"
        /\ UNCHANGED commits \/ (node = "commit" /\ MakeCommit)
    BY <1>7 DEF Crash, worldVars
  <2> QED
    BY <1>1, <1>2, <2>1
<1>8. CASE OutOfSteps
  <2>1. UNCHANGED <<run, commits, current_subtask_idx, fsm_state>> /\ node \in Running
    BY <1>8 DEF OutOfSteps, worldVars
  <2> QED
    BY <1>1, <2>1
<1>9. CASE UNCHANGED vars
  <2>1. UNCHANGED <<run, commits, current_subtask_idx, fsm_state, node>>
    BY <1>9 DEF vars
  <2> QED
    BY <1>1, <2>1
<1> QED
  BY <1>3, <1>4, <1>5, <1>6, <1>7, <1>8, <1>9 DEF Next, PipelineStep, Finished

\* With git, the subtasks are committed in the order of the plan, each once,
\* and the state tells which: for plans and budgets of every size and any
\* number of invocations.
THEOREM CommitsArePrefix == Spec => []CommittedPrefix
<1>1. IInv /\ StatusInv /\ PrefixInv => CommittedPrefix
  <2> SUFFICES ASSUME IInv, StatusInv, PrefixInv, GitEnabled
               PROVE  /\ \A i \in 0..Len(subtasks) :
                           LET committed == i < current_subtask_idx
                                              \/ (i = current_subtask_idx /\ fsm_state = "done")
                               unsure == i = current_subtask_idx /\ node \in {"aborted", "crashed"} IN
                           \/ CommitsOf(i) = {} /\ ~committed
                           \/ (committed \/ unsure) /\ \E k \in 1..Len(commits) : CommitsOf(i) = {k}
                      /\ node = "end" /\ fsm_state = "done" =>
                           current_subtask_idx + 1 = Len(subtasks)
    BY DEF CommittedPrefix
  <2>1. node = "end" /\ fsm_state = "done" => current_subtask_idx + 1 = Len(subtasks)
    BY DEF StatusInv
  <2>2. ASSUME NEW i \in 0..Len(subtasks)
        PROVE  LET committed == i < current_subtask_idx
                                  \/ (i = current_subtask_idx /\ fsm_state = "done")
                   unsure == i = current_subtask_idx /\ node \in {"aborted", "crashed"} IN
               \/ CommitsOf(i) = {} /\ ~committed
               \/ (committed \/ unsure) /\ \E k \in 1..Len(commits) : CommitsOf(i) = {k}
    <3>1. i \in Nat /\ current_subtask_idx \in Nat
      BY DEF IInv, TaskTypeOK
    <3>2. CASE i < current_subtask_idx
      BY <3>1, <3>2 DEF PrefixInv
    <3>3. CASE i = current_subtask_idx
      BY <3>1, <3>3 DEF PrefixInv
    <3>4. CASE i > current_subtask_idx
      BY <3>1, <3>4 DEF PrefixInv
    <3> QED
      BY <3>1, <3>2, <3>3, <3>4
  <2> QED
    BY <2>1, <2>2
<1> QED
  BY <1>1, Invariance, WorldTypesInit, WorldTypesStep, StatusInit, StatusStep, PrefixInit,
     PrefixStep, PTL DEF Spec

-----------------------------------------------------------------------------
(***************************************************************************)
(* The refinement of TaskFlow                                              *)
(***************************************************************************)

\* The abstract state, named.
BudgetsOf(plan) == [i \in 1..Len(plan) |-> plan[i].max_iterations]
Budgets == BudgetsOf(subtasks)
DeliveredNow == IF fsm_state = "done" THEN current_subtask_idx + 1 ELSE current_subtask_idx

LEMMA BudgetFacts ==
  ASSUME NEW plan \in Seq(Subtask)
  PROVE  /\ BudgetsOf(plan) \in Seq(1..5)
         /\ Len(BudgetsOf(plan)) = Len(plan)
         /\ (BudgetsOf(plan) = <<>> <=> plan = <<>>)
         /\ \A i \in 1..Len(plan) : BudgetsOf(plan)[i] = plan[i].max_iterations
<1>1. ASSUME NEW i \in 1..Len(plan)
      PROVE  plan[i].max_iterations \in 1..5
  <2>1. plan[i] \in Subtask
    BY <1>1
  <2> QED
    BY <2>1 DEF Subtask
<1>2. Len(plan) \in Nat
  OBVIOUS
<1>3. BudgetsOf(plan) \in [1..Len(plan) -> 1..5]
  BY <1>1 DEF BudgetsOf
<1>4. BudgetsOf(plan) \in Seq(1..5)
  BY <1>2, <1>3, IsASeq, SeqDef
<1>5. Len(BudgetsOf(plan)) = Len(plan)
  BY <1>2, <1>3, <1>4, LenProperties
<1>6. BudgetsOf(plan) = <<>> <=> plan = <<>>
  BY <1>4, <1>5, EmptySeq
<1>7. \A i \in 1..Len(plan) : BudgetsOf(plan)[i] = plan[i].max_iterations
  BY DEF BudgetsOf
<1> QED
  BY <1>4, <1>5, <1>6, <1>7

LEMMA FlowInitial == Init => Flow!FlowInit
<1> SUFFICES ASSUME Init PROVE Flow!FlowInit
  OBVIOUS
<1>1. subtasks = <<>> /\ subtasks \in Seq(Subtask)
  BY EmptyTypes DEF Init, InitialTaskState
<1>2. Budgets = <<>>
  BY <1>1, BudgetFacts DEF Budgets
<1>3. DeliveredNow = 0 /\ current_iteration = 0 /\ flow_status = "planning"
  BY DEF Init, InitialTaskState, DeliveredNow, flow_status
<1> QED
  BY <1>2, <1>3 DEF Flow!FlowInit, Budgets, BudgetsOf, DeliveredNow

\* What the status of the task is, node by node.
LEMMA FlowStatus ==
  ASSUME IInv, StatusInv
  PROVE  /\ node \in {"preflight", "plan"} => flow_status = "planning"
         /\ node \in Planned \ {"next_subtask"} => flow_status = "working"
         /\ node = "next_subtask" => flow_status = "delivered"
         /\ node = "end" => flow_status = fsm_state
         /\ node \in {"aborted", "out_of_steps", "crashed"} => flow_status = "failed"
         /\ node \in Running => flow_status \notin Flow!Final
         /\ node \in Stopped => flow_status \in Flow!Final
<1>1. /\ node \in {"preflight", "plan"} => flow_status = "planning"
      /\ node \in Planned \ {"next_subtask"} => flow_status = "working"
      /\ node = "next_subtask" => flow_status = "delivered"
      /\ node = "end" => flow_status = fsm_state
      /\ node \in {"aborted", "out_of_steps", "crashed"} => flow_status = "failed"
  BY DEF flow_status, Planned, Running
<1> QED
  BY <1>1 DEF StatusInv, Planned, Running, Stopped, Flow!Final

LEMMA FlowStep ==
  IInv /\ IInv' /\ StatusInv /\ StatusInv' /\ [Next]_vars => [Flow!FlowNext]_(Flow!flowVars)
<1> SUFFICES ASSUME IInv, IInv', StatusInv, StatusInv', [Next]_vars
             PROVE  [Flow!FlowNext]_(Flow!flowVars)
  OBVIOUS
<1> USE DEF planVars, attemptVars, taskVars
<1>1. subtasks \in Seq(Subtask) /\ subtasks' \in Seq(Subtask)
  BY DEF IInv, TaskTypeOK
<1>2. /\ node' \in {"preflight", "plan"} => flow_status' = "planning"
      /\ node' \in Planned \ {"next_subtask"} => flow_status' = "working"
      /\ node' = "next_subtask" => flow_status' = "delivered"
      /\ node' = "end" => flow_status' = fsm_state'
      /\ node' \in {"aborted", "out_of_steps", "crashed"} => flow_status' = "failed"
  BY DEF flow_status, Planned, Running
<1>3. UNCHANGED subtasks => UNCHANGED Budgets
  BY DEF Budgets, BudgetsOf
\* What the abstract steps are about.
<1>4. /\ Flow!flowVars = <<Budgets, DeliveredNow, current_iteration, flow_status>>
      /\ (UNCHANGED Flow!flowVars
           <=> UNCHANGED <<Budgets, DeliveredNow, current_iteration, flow_status>>)
  BY DEF Flow!flowVars, Budgets, BudgetsOf, DeliveredNow
\* Whatever goes wrong.
<1>5. ASSUME node \in Running, node' \in {"aborted", "out_of_steps", "crashed"},
             UNCHANGED <<fsm_state, subtasks, current_subtask_idx, current_iteration>>
      PROVE  Flow!Fail
  <2>1. UNCHANGED <<Budgets, DeliveredNow, current_iteration>>
    BY <1>3, <1>5 DEF DeliveredNow
  <2> QED
    BY <1>2, <1>5, <2>1, FlowStatus DEF Flow!Fail, Budgets, BudgetsOf, DeliveredNow
\* The nodes between an attempt and its verdict.
<1>6. ASSUME node \in Running \ {"next_subtask"}, node' \in Running \ {"next_subtask"},
             flow_status' = flow_status,
             UNCHANGED <<subtasks, current_subtask_idx, current_iteration>>
      PROVE  UNCHANGED Flow!flowVars
  <2>1. UNCHANGED DeliveredNow
    BY <1>6 DEF DeliveredNow, StatusInv
  <2> QED
    BY <1>3, <1>4, <1>6, <2>1
<1>7. CASE Preflight
  <2>1. CASE Raise
    BY <1>5, <1>7, <2>1 DEF Preflight, Execute, Raise, Running, Flow!FlowNext
  <2>2. CASE ~Raise
    <3>1. /\ node = "preflight" /\ node' = "plan"
          /\ UNCHANGED <<subtasks, current_subtask_idx, current_iteration>>
      BY <1>7, <2>2 DEF Preflight, Execute
    <3> QED
      BY <1>2, <1>6, <3>1, FlowStatus DEF Running
  <2> QED
    BY <2>1, <2>2
<1>8. CASE Plan
  <2>1. /\ node = "plan" /\ node' = "gather" /\ fsm_state' = "gathering"
        /\ subtasks' # <<>>
        /\ UNCHANGED <<current_subtask_idx, current_iteration>>
    BY <1>8, PlansAreSeqs DEF Plan, Execute
  <2>2. flow_status = "planning" /\ flow_status' = "working"
    BY <1>2, <2>1, FlowStatus DEF Planned, Running
  <2>3. Budgets' \in Seq(1..5) \ {<<>>}
    <3>1. Budgets' \in Seq(1..5) /\ (Budgets' = <<>> <=> subtasks' = <<>>)
      BY <1>1, BudgetFacts DEF Budgets
    <3> QED
      BY <2>1, <3>1
  <2>4. UNCHANGED DeliveredNow
    BY <2>1 DEF DeliveredNow, StatusInv, Running
  <2>5. Flow!MakePlan
    BY <2>1, <2>2, <2>3, <2>4 DEF Flow!MakePlan, Budgets, BudgetsOf, DeliveredNow
  <2> QED
    BY <2>5 DEF Flow!FlowNext
<1>9. CASE Gather \/ Validate \/ Retry \/ Review
  <2>1. /\ node \in Planned \ {"next_subtask"} /\ node' \in Planned \ {"next_subtask"}
        /\ UNCHANGED <<subtasks, current_subtask_idx, current_iteration>>
    <3>1. CASE Gather
      BY <3>1 DEF Gather, Execute, Planned, Running
    <3>2. CASE Validate
      BY <3>2 DEF Validate, Execute, route_after_validate, Planned, Running
    <3>3. CASE Retry
      BY <3>3 DEF Retry, Execute, route_after_retry, Planned, Running
    <3>4. CASE Review
      BY <3>4 DEF Review, Execute, route_after_review, Planned, Running
    <3> QED
      BY <1>9, <3>1, <3>2, <3>3, <3>4
  <2>2. flow_status' = flow_status
    BY <1>2, <2>1, FlowStatus
  <2> QED
    BY <1>6, <2>1, <2>2 DEF Planned
<1>10. CASE CodeNode
  <2>1. CASE Raise
    BY <1>5, <1>10, <2>1 DEF CodeNode, Execute, Raise, Running, Flow!FlowNext
  <2>2. CASE ~Raise
    <3>1. /\ node = "code" /\ node' = "validate" /\ fsm_state' = "validating"
          /\ current_iteration' = current_iteration + 1
          /\ UNCHANGED <<subtasks, current_subtask_idx>>
      BY <1>10, <2>2 DEF CodeNode, Execute
    <3>2. flow_status = "working" /\ flow_status' = "working"
      BY <1>2, <3>1, FlowStatus DEF Planned, Running
    <3>3. UNCHANGED DeliveredNow /\ DeliveredNow = current_subtask_idx
      BY <3>1 DEF DeliveredNow, StatusInv, Running
    <3>4. current_subtask_idx + 1 \in 1..Len(subtasks)
            /\ current_iteration < current_subtask.max_iterations
      BY <3>1 DEF IInv, TaskTypeOK, PlanInv, AttemptInv, Planned, Running, has_current_subtask
    <3>5. current_iteration < Budgets[DeliveredNow + 1]
      BY <3>3, <3>4, <1>1, BudgetFacts DEF Budgets, current_subtask
    <3>6. Flow!Attempt
      BY <1>3, <3>1, <3>2, <3>3, <3>5 DEF Flow!Attempt, Budgets, BudgetsOf, DeliveredNow
    <3> QED
      BY <3>6 DEF Flow!FlowNext
  <2> QED
    BY <2>1, <2>2
<1>11. CASE Commit
  <2>1. node = "commit"
    BY <1>11 DEF Commit, Execute
  <2>2. CASE Raise
    BY <1>5, <2>1, <2>2 DEF Raise, Running, Flow!FlowNext
  <2>3. ASSUME NEW place, CommitDone(place)
        PROVE  Flow!FlowNext
    <3>1. /\ fsm_state' = "done" /\ node' = route_after_commit
          /\ UNCHANGED <<subtasks, current_subtask_idx, current_iteration>>
      BY <2>3 DEF CommitDone
    <3>2. DeliveredNow' = DeliveredNow + 1 /\ DeliveredNow = current_subtask_idx
      BY <2>1, <3>1 DEF DeliveredNow, StatusInv, Running
    <3>3. current_iteration > 0 /\ current_subtask_idx < Len(subtasks)
            /\ current_subtask_idx \in Nat
      BY <2>1 DEF IInv, TaskTypeOK, AttemptInv, PlanInv, Attempted, Planned, Running,
        has_current_subtask
    <3>4. flow_status = "working"
      BY <2>1, FlowStatus DEF Planned, Running
    <3>5. UNCHANGED Budgets /\ Len(Budgets') = Len(subtasks)
      BY <1>1, <1>3, <3>1, BudgetFacts DEF Budgets
    <3>6. flow_status' = IF DeliveredNow' = Len(Budgets) THEN "done" ELSE "delivered"
      <4>1. CASE current_subtask_idx + 1 < Len(subtasks)
        BY <4>1, <1>2, <3>1, <3>2, <3>3, <3>5 DEF route_after_commit
      <4>2. CASE current_subtask_idx + 1 = Len(subtasks)
        BY <4>2, <1>2, <3>1, <3>2, <3>3, <3>5 DEF route_after_commit
      <4> QED
        BY <4>1, <4>2, <3>3, <1>1
    <3>7. Flow!Deliver
      BY <3>1, <3>2, <3>3, <3>4, <3>5, <3>6 DEF Flow!Deliver, Budgets, BudgetsOf, DeliveredNow
    <3> QED
      BY <3>7 DEF Flow!FlowNext
  <2> QED
    BY <1>11, <2>2, <2>3 DEF Commit, CommitToFile, CommitToGit
<1>12. CASE NextSubtask
  <2>1. /\ node = "next_subtask" /\ node' = "gather" /\ fsm_state' = "gathering"
        /\ current_subtask_idx' = current_subtask_idx + 1 /\ current_iteration' = 0
        /\ UNCHANGED subtasks
    BY <1>12 DEF NextSubtask, Execute, ResetAttempts
  <2>2. flow_status = "delivered" /\ flow_status' = "working"
    BY <1>2, <2>1, FlowStatus DEF Planned, Running
  <2>3. UNCHANGED DeliveredNow
    BY <2>1 DEF DeliveredNow, StatusInv
  <2>4. Flow!TakeNext
    BY <1>3, <2>1, <2>2, <2>3 DEF Flow!TakeNext, Budgets, BudgetsOf, DeliveredNow
  <2> QED
    BY <2>4 DEF Flow!FlowNext
<1>13. CASE Escalate
  <2>1. node = "escalate"
    BY <1>13 DEF Escalate, Execute
  <2>2. CASE Raise
    BY <1>5, <2>1, <2>2 DEF Raise, Running, Flow!FlowNext
  <2>3. CASE ~Raise
    <3>1. /\ node' = "end" /\ fsm_state' = "escalated"
          /\ UNCHANGED <<subtasks, current_subtask_idx, current_iteration>>
      BY <1>13, <2>3 DEF Escalate
    <3>2. flow_status = "working" /\ flow_status' = "escalated"
      BY <1>2, <2>1, <3>1, FlowStatus DEF Planned, Running
    <3>3. UNCHANGED DeliveredNow
      BY <2>1, <3>1 DEF DeliveredNow, StatusInv, Running
    <3>4. current_iteration > 0
      BY <2>1 DEF IInv, AttemptInv, Attempted, Planned, Running
    <3>5. Flow!GiveUp
      BY <1>3, <3>1, <3>2, <3>3, <3>4 DEF Flow!GiveUp, Budgets, BudgetsOf, DeliveredNow
    <3> QED
      BY <3>5 DEF Flow!FlowNext
  <2> QED
    BY <2>2, <2>3
<1>14. CASE OutOfSteps \/ Crash
  BY <1>5, <1>14 DEF OutOfSteps, Crash, Flow!FlowNext
<1>15. CASE Generate
  <2>1. /\ node \in Stopped /\ node' = "preflight" /\ fsm_state' = "init"
        /\ subtasks' = <<>> /\ current_subtask_idx' = 0 /\ current_iteration' = 0
    BY <1>15 DEF Generate
  <2>2. flow_status \in Flow!Final /\ flow_status' = "planning"
    BY <1>2, <2>1, FlowStatus
  <2>3. Budgets' = <<>>
    <3>1. Budgets' = <<>> <=> subtasks' = <<>>
      BY <1>1, BudgetFacts DEF Budgets
    <3> QED
      BY <2>1, <3>1
  <2>4. DeliveredNow' = 0
    BY <2>1 DEF DeliveredNow
  <2>5. Flow!StartAgain
    BY <2>1, <2>2, <2>3, <2>4 DEF Flow!StartAgain, Flow!FlowInit, Budgets, BudgetsOf, DeliveredNow
  <2> QED
    BY <2>5 DEF Flow!FlowNext
<1>16. CASE UNCHANGED vars
  <2>1. UNCHANGED <<Budgets, DeliveredNow, current_iteration, flow_status>>
    BY <1>3, <1>16 DEF vars, DeliveredNow, flow_status
  <2> QED
    BY <1>4, <2>1
<1> QED
  BY <1>7, <1>8, <1>9, <1>10, <1>11, <1>12, <1>13, <1>14, <1>15, <1>16
  DEF Next, PipelineStep, Finished

\* The pipeline keeps the promise of TaskFlow: attempts within the budget of
\* the plan, delivery in order, once, after an attempt, and "done" said when
\* the last subtask of the plan has been delivered and at no other time.
THEOREM Flows == Spec => ImplementsTaskFlow
  BY Invariance, StatusInit, StatusStep, FlowInitial, FlowStep, PTL
  DEF Spec, ImplementsTaskFlow, Flow!FlowSpec

=============================================================================
