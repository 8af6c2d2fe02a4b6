------------------------------- MODULE Facade -------------------------------
(***************************************************************************)
(* The agent facade (packages/mcp_servers/.../facade): the lifecycle tools *)
(* plan, gather, generate, validate and review that an outside LLM client  *)
(* calls one by one instead of running the pipeline, and the store that    *)
(* keeps the TaskState of each plan between the calls.                     *)
(*                                                                         *)
(* The MCP server handles requests concurrently in one asyncio process.  A *)
(* handler loads the state, awaits a node and saves the copy it updated.   *)
(* With the in-memory store only the node suspends it, so a call is two    *)
(* steps: up to the await of the node, and from there to the reply (three  *)
(* for a review that commits).  A checkpointer suspends the handler while  *)
(* it loads and while it saves too; here these awaits belong to the steps. *)
(* A restart of the process drops the calls in progress, the cache of      *)
(* subtasks and everything kept in memory.                                 *)
(***************************************************************************)
EXTENDS Integers, Sequences

CONSTANTS
  Clients,       \* each has at most one call in progress
  Plans,         \* the plan ids that will be given out, in any order
  SubtaskIds,    \* ids the Planner LLM may give to subtasks
  PlanChoices,   \* plan -> the sequences of subtask ids it may decompose the task into
  Checkpointed,  \* DATABASE_URL is set: states go to a checkpointer
  Guided,        \* clients call only what the last next_action told them
  MaxCalls,      \* bound: calls of clients that are not guided
  MaxCodes,      \* bound: pieces of code generated for one plan
  MaxRestarts    \* bound: restarts of the process

ASSUME FacadeAssumption ==
  /\ PlanChoices \in [Plans -> SUBSET (Seq(SubtaskIds) \ {<<>>})]
  /\ Checkpointed \in BOOLEAN
  /\ Guided \in BOOLEAN
  /\ MaxCalls \in Nat
  /\ MaxCodes \in Nat
  /\ MaxRestarts \in Nat
  /\ "none" \notin Plans \cup SubtaskIds

VARIABLES
  in_memory,         \* FacadeStateStore._in_memory: plan -> state
  checkpoint,        \* plan -> the state in its checkpoint with the greatest id
  subtask_to_plan,   \* FacadeHandlers._subtask_to_plan: subtask id -> plan
  call,              \* client -> the handler that works for it
  suggested,         \* client -> the next_action of the last answer
  used,              \* plan ids given out
  codes,             \* plan -> the subtasks code was generated for, oldest first
  branches,          \* branches of the git repository: <<plan, subtask id>>
  commits,           \* plan -> the commits made for it, oldest first
  calls,             \* calls begun by clients that are not guided
  restarts           \* restarts so far

storeVars == <<in_memory, checkpoint, subtask_to_plan>>
gitVars == <<branches, commits>>
vars == <<storeVars, call, suggested, used, codes, gitVars, calls, restarts>>

-----------------------------------------------------------------------------
(***************************************************************************)
(* Values.  A piece of code is named by its number among those generated   *)
(* for the plan; 0 is none.  A verdict names the code it is about.         *)
(***************************************************************************)

\* The TaskState of a plan; subtasks are counted from 1.
NewState(ids) ==
  [subtasks |-> ids,
   current_subtask_idx |-> 1,
   current_iteration |-> 0,
   iterations |-> <<>>,
   validate_result |-> [code |-> 0, passed |-> FALSE],
   review_result |-> [code |-> 0, decision |-> "none", by |-> "none"],
   commit_result |-> 0]

\* None: a state that was saved has subtasks.
NoState == NewState(<<>>)

last_iteration(state) == state.iterations[Len(state.iterations)]
last_code(state) == IF state.iterations = <<>> THEN 0 ELSE last_iteration(state).code
current_subtask(state) == state.subtasks[state.current_subtask_idx]

\* A tool with its arguments: a request, and what next_action suggests.
Request == [tool : {"gather", "generate", "validate", "review"}, plan : Plans \cup {"none"},
            subtask : SubtaskIds, iteration : Nat]
DataStatus == [tool |-> "data_status", plan |-> "none", subtask |-> "none", iteration |-> 0]
Idle == [step |-> "idle", request |-> DataStatus, plan |-> "none", state |-> NoState]

-----------------------------------------------------------------------------
(***************************************************************************)
(* next_action.py                                                          *)
(***************************************************************************)

gather(plan, s) == [tool |-> "gather", plan |-> plan, subtask |-> s, iteration |-> 1]
generate(plan, s, n) == [tool |-> "generate", plan |-> plan, subtask |-> s, iteration |-> n]
\* validate and review get the artifact "subtask#iteration", without the plan.
validate(s, n) == [tool |-> "validate", plan |-> "none", subtask |-> s, iteration |-> n]
review(s, n) == [tool |-> "review", plan |-> "none", subtask |-> s, iteration |-> n]

\* Mutant: state.subtasks[-1] instead of [0].
StartWithLast(plan, state) == gather(plan, state.subtasks[Len(state.subtasks)])

after_plan(plan, state) == gather(plan, state.subtasks[1])
after_gather(plan, s) == generate(plan, s, 1)

\* Mutant: the artifact is named after the iteration of a first request.
NameFirstAttempt(s, n) == validate(s, 1)

after_generate(s, n) == validate(s, n)

\* Mutant: the verdict is not asked for.
AlwaysReview(plan, s, n, passed) == review(s, n)

after_validate(plan, s, n, passed) ==
  IF passed THEN review(s, n) ELSE generate(plan, s, n + 1)

\* Mutant: after the last subtask comes a gather of nothing.
GatherNothing(plan, s, n, state) ==
  CASE state.review_result.decision = "proceed" ->
         IF state.current_subtask_idx + 1 <= Len(state.subtasks)
         THEN gather(plan, state.subtasks[state.current_subtask_idx + 1]) ELSE gather(plan, "none")
    [] state.review_result.decision = "retry" -> generate(plan, s, n + 1)
    [] state.review_result.decision = "escalate" -> DataStatus

after_review(plan, s, n, state) ==
  CASE state.review_result.decision = "proceed" ->
         IF state.current_subtask_idx + 1 <= Len(state.subtasks)
         THEN gather(plan, state.subtasks[state.current_subtask_idx + 1]) ELSE DataStatus
    [] state.review_result.decision = "retry" -> generate(plan, s, n + 1)
    [] state.review_result.decision = "escalate" -> DataStatus

-----------------------------------------------------------------------------
(***************************************************************************)
(* FacadeStateStore                                                        *)
(***************************************************************************)

\* What load_state may answer.  An exception of the checkpointer is answered
\* with None; so is a checkpointer that kept the checkpoint without values.
load_state(plan) == IF Checkpointed THEN {NoState, checkpoint[plan]} ELSE {in_memory[plan]}

\* Checkpoint ids are random (uuid4) and the greatest is read: the new
\* checkpoint is the one read from now on, or it never is, or aput raises.
save_state(plan, state) ==
  \/ /\ Checkpointed
     /\ \/ checkpoint' = [checkpoint EXCEPT ![plan] = state]
        \/ checkpoint[plan] # NoState /\ UNCHANGED checkpoint
     /\ UNCHANGED in_memory
  \/ /\ in_memory' = [in_memory EXCEPT ![plan] = state]
     /\ UNCHANGED checkpoint

\* _save_state: the subtasks of the plan are entered into the cache as well.
Save(plan, state) ==
  /\ save_state(plan, state)
  /\ subtask_to_plan' = [s \in SubtaskIds |->
       IF \E i \in 1..Len(state.subtasks) : state.subtasks[i] = s THEN plan
       ELSE subtask_to_plan[s]]

-----------------------------------------------------------------------------
(***************************************************************************)
(* The nodes, as far as the facade lets them see and change the state      *)
(***************************************************************************)

\* Mutants: numbering per subtask over a history that goes on; the history
\* keeps the last attempt only.
NumberFromOne(state, code) ==
  [state EXCEPT !.current_iteration = 1,
                !.iterations = Append(@, [number |-> 1, code |-> code])]
KeepLastOnly(state, code) ==
  [state EXCEPT !.current_iteration = @ + 1,
                !.iterations = <<[number |-> state.current_iteration + 1, code |-> code]>>]

code_node(state, code) ==
  [state EXCEPT !.current_iteration = @ + 1,
                !.iterations = Append(@, [number |-> state.current_iteration + 1, code |-> code])]

validate_node(state, passed) ==
  [state EXCEPT !.validate_result = [code |-> last_code(state), passed |-> passed]]

\* An LLM decides as it likes; without one the last validation decides.
Reviews(state) ==
  [code : {last_code(state)}, decision : {"proceed", "retry", "escalate"}, by : {"llm"}]
  \cup {[code |-> last_code(state), by |-> "fallback",
         decision |-> IF state.validate_result.passed THEN "proceed" ELSE "retry"]}

-----------------------------------------------------------------------------
(***************************************************************************)
(* Handlers, first step: up to the await of the node                       *)
(***************************************************************************)

\* What the client may ask for.  The handlers only hand an iteration back, so
\* one is enough for clients that do not follow what they are told.
Requests(c) ==
  IF Guided THEN {suggested[c]}
  ELSE {[tool |-> t, plan |-> p, subtask |-> s, iteration |-> 1] :
          t \in {"gather", "generate", "validate", "review"}, p \in Plans, s \in SubtaskIds}

\* A client without a call in progress makes one.
Begin(c) ==
  /\ call[c].step = "idle"
  /\ Guided \/ calls < MaxCalls
  /\ calls' = IF Guided THEN calls ELSE calls + 1

\* The handler waits; nothing else has changed.
Await(c, step, request, plan, state) ==
  /\ call' = [call EXCEPT ![c] = [step |-> step, request |-> request, plan |-> plan,
                                  state |-> state]]
  /\ UNCHANGED <<storeVars, suggested, codes, gitVars, restarts>>

\* handle_plan makes a new plan id and a new state; there is nothing to load.
CallPlan(c) ==
  /\ Begin(c)
  /\ Guided => suggested[c] = DataStatus
  /\ \E plan \in Plans \ used :
       /\ used' = used \cup {plan}
       /\ Await(c, "plan", DataStatus, plan, NoState)

\* handle_gather and handle_generate select the subtask in the loaded state;
\* generate does not look at the iteration.  An unknown plan or subtask is a
\* KeyError, which changes nothing.
CallOnSubtask(c) ==
  /\ Begin(c)
  /\ \E request \in Requests(c) :
       /\ request.tool \in {"gather", "generate"}
       /\ request.plan \in Plans
       /\ \E state \in load_state(request.plan) : \E i \in 1..Len(state.subtasks) :
            /\ state.subtasks[i] = request.subtask
            /\ \A j \in 1..i - 1 : state.subtasks[j] # request.subtask
            /\ Await(c, request.tool, request, request.plan,
                     [state EXCEPT !.current_subtask_idx = i])
  /\ UNCHANGED used

\* handle_validate and handle_review find the plan by the subtask part of the
\* artifact id and take the state as it is: neither the subtask nor the
\* attempt is looked at.  A node that finds no attempt fails its assertion.
CallOnArtifact(c) ==
  /\ Begin(c)
  /\ \E request \in Requests(c) :
       /\ request.tool \in {"validate", "review"}
       /\ LET plan == subtask_to_plan[request.subtask] IN
          /\ plan # "none"
          /\ \E state \in load_state(plan) :
               /\ state.iterations # <<>>
               /\ Await(c, request.tool, request, plan, state)
  /\ UNCHANGED used

-----------------------------------------------------------------------------
(***************************************************************************)
(* Handlers, last step: the node has returned                              *)
(***************************************************************************)

\* The answer: the state is saved, the client is told what to do next (which
\* is remembered for clients that follow it only).
Answer(c, state, next_action) ==
  /\ Save(call[c].plan, state)
  /\ call' = [call EXCEPT ![c] = Idle]
  /\ suggested' = IF Guided THEN [suggested EXCEPT ![c] = next_action] ELSE suggested
  /\ UNCHANGED <<used, calls, restarts>>

\* An error is answered without a next_action, and nothing is saved.
AnswerError(c) ==
  /\ call' = [call EXCEPT ![c] = Idle]
  /\ UNCHANGED <<storeVars, suggested, used, codes, calls, restarts>>

PlanDone(c) ==
  /\ call[c].step = "plan"
  /\ \E ids \in PlanChoices[call[c].plan] :
       Answer(c, NewState(ids), after_plan(call[c].plan, NewState(ids)))
  /\ UNCHANGED <<codes, gitVars>>

GatherDone(c) ==
  /\ call[c].step = "gather"
  /\ Answer(c, call[c].state, after_gather(call[c].plan, call[c].request.subtask))
  /\ UNCHANGED <<codes, gitVars>>

GenerateDone(c) ==
  /\ call[c].step = "generate"
  /\ LET plan == call[c].plan
         state == code_node(call[c].state, Len(codes[plan]) + 1) IN
     \/ /\ Len(codes[plan]) < MaxCodes
        /\ codes' = [codes EXCEPT ![plan] = Append(@, current_subtask(state))]
        /\ Answer(c, state, after_generate(call[c].request.subtask,
                                           last_iteration(state).number))
     \/ AnswerError(c)          \* the LLM failed
  /\ UNCHANGED gitVars

ValidateDone(c) ==
  /\ call[c].step = "validate"
  /\ \E passed \in BOOLEAN :
       Answer(c, validate_node(call[c].state, passed),
              after_validate(call[c].plan, call[c].request.subtask,
                             call[c].request.iteration, passed))
  /\ UNCHANGED <<codes, gitVars>>

\* After "proceed" the handler goes on to commit, with nothing saved yet.
ReviewDone(c) ==
  /\ call[c].step = "review"
  /\ \E result \in Reviews(call[c].state) :
       LET state == [call[c].state EXCEPT !.review_result = result]
           request == call[c].request IN
       IF result.decision = "proceed"
       THEN Await(c, "commit", request, call[c].plan, state) /\ UNCHANGED <<used, calls>>
       ELSE /\ Answer(c, state, after_review(call[c].plan, request.subtask,
                                             request.iteration, state))
            /\ UNCHANGED <<codes, gitVars>>

\* Mutant: a branch that exists is used again.
ReuseBranch(plan, s) == branches' = branches \cup {<<plan, s>>}

\* git checkout -b feature/{task_id[:8]}-{subtask.id[:8]}
CreateBranch(plan, s) ==
  /\ <<plan, s>> \notin branches
  /\ branches' = branches \cup {<<plan, s>>}

\* commit_node, with git: it may raise at any point, and nothing is undone.
CommitDone(c) ==
  /\ call[c].step = "commit"
  /\ LET plan == call[c].plan
         state == [call[c].state EXCEPT !.commit_result = last_code(call[c].state)]
         s == current_subtask(state) IN
     \/ UNCHANGED gitVars /\ AnswerError(c)
     \/ CreateBranch(plan, s) /\ UNCHANGED commits /\ AnswerError(c)
     \/ /\ CreateBranch(plan, s)
        /\ commits' = [commits EXCEPT ![plan] =
                         Append(@, [subtask |-> s, code |-> last_code(state)])]
        /\ \/ AnswerError(c)
           \/ /\ Answer(c, state, after_review(plan, call[c].request.subtask,
                                               call[c].request.iteration, state))
              /\ UNCHANGED codes

-----------------------------------------------------------------------------

\* The process is started again.  Clients keep what they were told.
Restart ==
  /\ restarts < MaxRestarts
  /\ restarts' = restarts + 1
  /\ in_memory' = [p \in Plans |-> NoState]
  /\ subtask_to_plan' = [s \in SubtaskIds |-> "none"]
  /\ call' = [c \in Clients |-> Idle]
  /\ UNCHANGED <<checkpoint, suggested, used, codes, gitVars, calls>>

Init ==
  /\ in_memory = [p \in Plans |-> NoState]
  /\ checkpoint = [p \in Plans |-> NoState]
  /\ subtask_to_plan = [s \in SubtaskIds |-> "none"]
  /\ call = [c \in Clients |-> Idle]
  /\ suggested = [c \in Clients |-> DataStatus]
  /\ used = {}
  /\ codes = [p \in Plans |-> <<>>]
  /\ branches = {}
  /\ commits = [p \in Plans |-> <<>>]
  /\ calls = 0
  /\ restarts = 0

Handle(c) ==
  \/ CallPlan(c) \/ CallOnSubtask(c) \/ CallOnArtifact(c)
  \/ PlanDone(c) \/ GatherDone(c) \/ GenerateDone(c) \/ ValidateDone(c) \/ ReviewDone(c)
  \/ CommitDone(c)

Next == Restart \/ \E c \in Clients : Handle(c)

Spec == Init /\ [][Next]_vars

-----------------------------------------------------------------------------
(***************************************************************************)
(* Properties                                                              *)
(***************************************************************************)

Iteration == [number : Nat, code : Nat]
ValidateResult == [code : Nat, passed : BOOLEAN]
ReviewResult == [code : Nat, decision : {"none", "proceed", "retry", "escalate"},
                 by : {"none", "llm", "fallback"}]

State == [subtasks : Seq(SubtaskIds), current_subtask_idx : Nat, current_iteration : Nat,
          iterations : Seq(Iteration), validate_result : ValidateResult,
          review_result : ReviewResult, commit_result : Nat]

Calls == [step : {"idle", "plan", "gather", "generate", "validate", "review", "commit"},
          request : Request \cup {DataStatus}, plan : Plans \cup {"none"}, state : State]

TypeOK ==
  /\ in_memory \in [Plans -> State]
  /\ checkpoint \in [Plans -> State]
  /\ subtask_to_plan \in [SubtaskIds -> Plans \cup {"none"}]
  /\ call \in [Clients -> Calls]
  /\ suggested \in [Clients -> Request \cup {DataStatus}]
  /\ used \subseteq Plans
  /\ codes \in [Plans -> Seq(SubtaskIds)]
  /\ branches \subseteq Plans \X SubtaskIds
  /\ commits \in [Plans -> Seq([subtask : SubtaskIds, code : Nat])]
  /\ calls \in 0..MaxCalls
  /\ restarts \in 0..MaxRestarts

\* Every state there is, of a plan: saved, or in the hands of a call.
StatesOf(plan) ==
  {in_memory[plan], checkpoint[plan]} \cup {call[c].state : c \in {d \in Clients : call[d].plan = plan}}

\* Attempts are numbered without gaps, each is a piece of code of its own, in
\* the order of generation, of the n that were generated for the plan; and the
\* verdicts are about codes among them.
Consistent(n, state) ==
  LET its == state.iterations IN
  /\ state.current_iteration = Len(its)
  /\ \A i \in 1..Len(its) : its[i].number = i /\ its[i].code \in 1..n
  /\ \A i \in 2..Len(its) : its[i - 1].code < its[i].code
  /\ {state.validate_result.code, state.review_result.code, state.commit_result}
       \subseteq {0} \cup {its[i].code : i \in 1..Len(its)}

\* Calls may overlap, load stale states and overwrite each other's updates:
\* each state is still consistent in itself.
StatesAreConsistent ==
  \A plan \in Plans : \A state \in StatesOf(plan) : Consistent(Len(codes[plan]), state)

\* However calls overlap, fail and are repeated, no subtask of a plan is
\* committed twice: commit refuses a branch that an earlier try left behind.
CommittedOnce ==
  \A plan \in Plans : \A i, j \in 1..Len(commits[plan]) :
    commits[plan][i].subtask = commits[plan][j].subtask => i = j

\* A client that follows next_action commits only code that passed validation:
\* the verdict in the state is about this very code, and so is the review.
GuidedCommitsAreValidated ==
  \A c \in Clients : call[c].step = "commit" =>
    LET state == call[c].state IN
    /\ state.validate_result = [code |-> last_code(state), passed |-> TRUE]
    /\ state.review_result.code = last_code(state)

\* Clients that follow next_action, each on its own plan, commit the subtasks
\* in the order of the plan, each once and each with code generated for it.
CommitsFollowPlan ==
  \A plan \in Plans : \A k \in 1..Len(commits[plan]) :
    /\ \E order \in PlanChoices[plan] : \A j \in 1..k :
         j <= Len(order) /\ commits[plan][j].subtask = order[j]
    /\ codes[plan][commits[plan][k].code] = commits[plan][k].subtask

\* The artifact a client is told to validate or to review is the one the
\* server will look at: contracts.py:96, the artifact id names the subtask
\* and the attempt.  (Until a restart loses it.)
ArtifactIsTheOneMeant ==
  \A c \in Clients :
    LET told == suggested[c]
        plan == subtask_to_plan[told.subtask] IN
    call[c].step = "idle" /\ told.tool \in {"validate", "review"} /\ plan # "none" =>
      \A state \in load_state(plan) :
        /\ state.iterations # <<>>
        /\ current_subtask(state) = told.subtask
        /\ last_iteration(state).number = told.iteration

\* The state of a plan knows every piece of code that was generated for it
\* and reported to the client.
NothingForgotten ==
  \A plan \in Plans : in_memory[plan] # NoState =>
    /\ Len(in_memory[plan].iterations) = Len(codes[plan])
    /\ \A i \in 1..Len(codes[plan]) : in_memory[plan].iterations[i].code = i

-----------------------------------------------------------------------------
(***************************************************************************)
(* What the documents, comments and tests say, and the code does not do.   *)
(***************************************************************************)

\* orchestrator/state.py:111, TaskState.iterations: of the current subtask only.
IterationsOfCurrentSubtask ==
  \A c \in Clients : call[c].step = "validate" =>
    LET state == call[c].state IN
    \A i \in 1..Len(state.iterations) :
      codes[call[c].plan][state.iterations[i].code] = current_subtask(state)

\* state_store.py:157: a state that could not be saved is kept in memory so
\* as not to lose it in the current session.
SessionKeepsState ==
  \A plan \in Plans : in_memory[plan] # NoState => in_memory[plan] \in load_state(plan)

\* nodes/review.py:152: without an LLM the review proceeds because the
\* validation passed.
FallbackProceedsOnValidated ==
  \A c \in Clients : call[c].step = "commit" /\ call[c].state.review_result.by = "fallback" =>
    call[c].state.validate_result = [code |-> last_code(call[c].state), passed |-> TRUE]

=============================================================================
