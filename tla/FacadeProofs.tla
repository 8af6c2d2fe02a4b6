---------------------------- MODULE FacadeProofs ----------------------------
(***************************************************************************)
(* Theorems about Facade, for any number of clients, plans, calls and      *)
(* restarts, both stores, and clients that follow next_action or do not.   *)
(***************************************************************************)
EXTENDS Facade, SequenceTheorems, TLAPS

-----------------------------------------------------------------------------
(***************************************************************************)
(* The inductive invariant                                                 *)
(***************************************************************************)

\* A state as the handlers find it and leave it, when n pieces of code were
\* generated for its plan.
Sound(n, state) ==
  /\ state \in State
  /\ state.subtasks # <<>> => state.current_subtask_idx \in 1..Len(state.subtasks)
  /\ state.iterations # <<>> => state.subtasks # <<>>
  /\ Consistent(n, state)

\* Whatever the store may answer is sound.
StoredInv ==
  \A plan \in Plans :
    /\ Sound(Len(codes[plan]), in_memory[plan])
    /\ Sound(Len(codes[plan]), checkpoint[plan])

\* So is the copy a handler works on, which has what the rest of it relies on.
InHand(c) ==
  /\ call[c].step # "idle" =>
       call[c].plan \in Plans /\ Sound(Len(codes[call[c].plan]), call[c].state)
  /\ call[c].step = "idle" => call[c].plan = "none"
  /\ call[c].step \in {"gather", "generate"} =>
       call[c].request \in Request /\ call[c].state.subtasks # <<>>
  /\ call[c].step \in {"validate", "review", "commit"} =>
       call[c].request \in Request /\ call[c].state.iterations # <<>>
  /\ call[c].step = "commit" => call[c].state.review_result.decision = "proceed"
InHandInv == \A c \in Clients : InHand(c)

\* Every commit stands on a branch of its own.
BranchInv ==
  \A plan \in Plans : \A k \in 1..Len(commits[plan]) :
    <<plan, commits[plan][k].subtask>> \in branches

FInv == TypeOK /\ StoredInv /\ InHandInv /\ BranchInv /\ CommittedOnce

-----------------------------------------------------------------------------
(***************************************************************************)
(* States                                                                  *)
(***************************************************************************)

\* A state is its seven fields.
LEMMA StateFields ==
  ASSUME NEW state \in State
  PROVE  /\ state.subtasks \in Seq(SubtaskIds)
         /\ state.current_subtask_idx \in Nat
         /\ state.current_iteration \in Nat
         /\ state.iterations \in Seq(Iteration)
         /\ state.validate_result \in ValidateResult
         /\ state.review_result \in ReviewResult
         /\ state.commit_result \in Nat
  BY DEF State

\* A new state, and so NoState, is sound for every plan.
LEMMA NewStateIsSound ==
  ASSUME NEW n, NEW ids \in Seq(SubtaskIds)
  PROVE  /\ Sound(n, NewState(ids)) /\ NewState(ids) \in State
         /\ NewState(ids).subtasks = ids
<1> DEFINE state == NewState(ids)
<1>1. /\ state.subtasks = ids /\ state.current_subtask_idx = 1
      /\ state.current_iteration = 0 /\ state.iterations = <<>>
      /\ state.validate_result.code = 0 /\ state.review_result.code = 0
      /\ state.commit_result = 0
  BY DEF NewState
<1>2. state \in State
  <2>1. /\ [code |-> 0, passed |-> FALSE] \in ValidateResult
        /\ [code |-> 0, decision |-> "none", by |-> "none"] \in ReviewResult
        /\ <<>> \in Seq(Iteration)
    BY DEF ValidateResult, ReviewResult
  <2> QED
    BY <2>1 DEF NewState, State
<1>3. Consistent(n, state)
  BY <1>1 DEF Consistent
<1>4. ids # <<>> => 1 \in 1..Len(ids)
  OBVIOUS
<1> HIDE DEF state
<1>5. Sound(n, state)
  BY <1>1, <1>2, <1>3, <1>4 DEF Sound
<1> QED
  BY <1>1, <1>2, <1>5 DEF state

LEMMA NoStateIsSound ==
  ASSUME NEW n
  PROVE  NoState \in State /\ Sound(n, NoState)
<1>1. <<>> \in Seq(SubtaskIds)
  OBVIOUS
<1> QED
  BY <1>1, NewStateIsSound DEF NoState

\* What else the nodes and handlers read of a sound state.
LEMMA SoundFacts ==
  ASSUME NEW n \in Nat, NEW state, Sound(n, state)
  PROVE  /\ state.subtasks # <<>> => current_subtask(state) \in SubtaskIds
         /\ state.iterations # <<>> =>
              /\ last_iteration(state) \in Iteration
              /\ last_code(state) \in {state.iterations[i].code : i \in 1..Len(state.iterations)}
              /\ last_code(state) \in Nat
<1>1. state.subtasks \in Seq(SubtaskIds) /\ state.iterations \in Seq(Iteration)
  BY StateFields DEF Sound
<1>2. state.subtasks # <<>> => current_subtask(state) \in SubtaskIds
  BY <1>1 DEF Sound, current_subtask
<1>3. ASSUME state.iterations # <<>>
      PROVE  /\ last_iteration(state) \in Iteration
             /\ last_code(state) \in {state.iterations[i].code : i \in 1..Len(state.iterations)}
             /\ last_code(state) \in Nat
  <2>1. Len(state.iterations) \in 1..Len(state.iterations)
    BY <1>1, <1>3
  <2>2. last_iteration(state) \in Iteration
    BY <1>1, <2>1 DEF last_iteration
  <2>3. last_code(state) = last_iteration(state).code
    BY <1>3 DEF last_code
  <2> QED
    BY <2>1, <2>2, <2>3 DEF last_iteration, Iteration
<1> QED
  BY <1>2, <1>3

\* Code generated meanwhile does not matter.
LEMMA SoundForMore ==
  ASSUME NEW n \in Nat, NEW m \in Nat, n <= m, NEW state, Sound(n, state)
  PROVE  Sound(m, state)
<1>1. Consistent(m, state)
  <2> DEFINE its == state.iterations
  <2>1. \A i \in 1..Len(its) : its[i].number = i /\ its[i].code \in 1..n
    BY DEF Sound, Consistent
  <2>2. 1..n \subseteq 1..m
    OBVIOUS
  <2>3. \A i \in 1..Len(its) : its[i].number = i /\ its[i].code \in 1..m
    BY <2>1, <2>2
  <2> QED
    BY <2>3 DEF Sound, Consistent
<1> QED
  BY <1>1 DEF Sound

\* Selecting a subtask keeps a state sound.
LEMMA SelectIsSound ==
  ASSUME NEW n \in Nat, NEW state, Sound(n, state), NEW i \in 1..Len(state.subtasks)
  PROVE  /\ Sound(n, [state EXCEPT !.current_subtask_idx = i])
         /\ [state EXCEPT !.current_subtask_idx = i].subtasks # <<>>
<1> DEFINE new == [state EXCEPT !.current_subtask_idx = i]
<1>1. state \in State /\ state.subtasks \in Seq(SubtaskIds) /\ i \in Nat
  BY StateFields DEF Sound
<1>2. /\ new \in State /\ new.current_subtask_idx = i
      /\ new.subtasks = state.subtasks /\ new.iterations = state.iterations
      /\ new.current_iteration = state.current_iteration
      /\ new.validate_result = state.validate_result
      /\ new.review_result = state.review_result /\ new.commit_result = state.commit_result
  BY <1>1 DEF State
<1>3. new.subtasks # <<>>
  BY <1>1, <1>2
<1> HIDE DEF new
<1>4. Consistent(n, new) = Consistent(n, state)
  BY <1>2 DEF Consistent
<1>5. Sound(n, new)
  BY <1>2, <1>3, <1>4 DEF Sound
<1> QED
  BY <1>3, <1>5 DEF new

\* code_node numbers the new attempt on and names code nobody else has.
LEMMA CodeIsSound ==
  ASSUME NEW n \in Nat, NEW state, Sound(n, state), state.subtasks # <<>>
  PROVE  /\ Sound(n + 1, code_node(state, n + 1))
         /\ code_node(state, n + 1) \in State
         /\ code_node(state, n + 1).iterations # <<>>
         /\ code_node(state, n + 1).subtasks # <<>>
<1> DEFINE attempt == [number |-> state.current_iteration + 1, code |-> n + 1]
           new == code_node(state, n + 1)
           its == state.iterations
           its2 == Append(its, attempt)
<1>1. /\ state \in State /\ its \in Seq(Iteration)
      /\ state.current_iteration = Len(its)
  BY StateFields DEF Sound, Consistent
<1>2. /\ attempt \in Iteration /\ attempt.number = Len(its) + 1 /\ attempt.code = n + 1
      /\ Len(its) \in Nat
  BY <1>1 DEF Iteration
<1> HIDE DEF attempt
<1>3. /\ its2 \in Seq(Iteration) /\ Len(its2) = Len(its) + 1
      /\ \A i \in 1..Len(its) : its2[i] = its[i]
      /\ its2[Len(its) + 1] = attempt
  BY <1>1, <1>2
<1> HIDE DEF its2
<1>4. new = [state EXCEPT !.current_iteration = Len(its) + 1, !.iterations = its2]
  BY <1>1 DEF code_node, its2, attempt
<1>5. /\ new \in State
      /\ new.current_iteration = Len(its) + 1 /\ new.iterations = its2
      /\ new.subtasks = state.subtasks
      /\ new.current_subtask_idx = state.current_subtask_idx
      /\ new.validate_result = state.validate_result
      /\ new.review_result = state.review_result /\ new.commit_result = state.commit_result
  <2> DEFINE number == Len(its) + 1
  <2>1. number \in Nat /\ state \in State /\ its2 \in Seq(Iteration)
    BY <1>1, <1>2, <1>3
  <2>2. new = [state EXCEPT !.current_iteration = number, !.iterations = its2]
    BY <1>4
  <2> HIDE DEF number, its, new
  <2>3. /\ new.current_iteration = number /\ new.iterations = its2
        /\ new.subtasks = state.subtasks
        /\ new.current_subtask_idx = state.current_subtask_idx
        /\ new.validate_result = state.validate_result
        /\ new.review_result = state.review_result /\ new.commit_result = state.commit_result
    BY <2>1, <2>2 DEF State
  <2>4. new \in State
    BY <2>1, <2>2 DEF State
  <2> QED
    BY <2>3, <2>4 DEF number
<1> HIDE DEF new
<1>6. /\ \A i \in 1..Len(its) : its[i].number = i /\ its[i].code \in 1..n
      /\ \A i \in 2..Len(its) : its[i - 1].code < its[i].code
      /\ {state.validate_result.code, state.review_result.code, state.commit_result}
           \subseteq {0} \cup {its[i].code : i \in 1..Len(its)}
  BY DEF Sound, Consistent
<1> HIDE DEF its
<1>7. ASSUME NEW i \in 1..Len(its2)
      PROVE  its2[i].number = i /\ its2[i].code \in 1..n + 1
  <2>1. i \in 1..Len(its) \/ i = Len(its) + 1
    BY <1>2, <1>3
  <2>2. CASE i \in 1..Len(its)
    <3>1. its2[i] = its[i] /\ its[i].number = i /\ its[i].code \in 1..n
      BY <2>2, <1>3, <1>6
    <3> QED
      BY <3>1
  <2>3. CASE i = Len(its) + 1
    BY <2>3, <1>2, <1>3
  <2> QED
    BY <2>1, <2>2, <2>3
<1>8. ASSUME NEW i \in 2..Len(its2)
      PROVE  its2[i - 1].code < its2[i].code
  <2>1. CASE i \in 2..Len(its)
    <3>1. i - 1 \in 1..Len(its) /\ i \in 1..Len(its)
      BY <2>1, <1>2
    <3> QED
      BY <2>1, <3>1, <1>3, <1>6
  <2>2. CASE i = Len(its) + 1
    <3>1. i - 1 \in 1..Len(its)
      BY <2>2, <1>2
    <3>2. its2[i - 1].code \in 1..n
      BY <3>1, <1>3, <1>6
    <3> QED
      BY <2>2, <3>2, <1>2, <1>3
  <2> QED
    BY <2>1, <2>2, <1>2, <1>3
<1>9. {its[i].code : i \in 1..Len(its)} \subseteq {its2[i].code : i \in 1..Len(its2)}
  <2> SUFFICES ASSUME NEW i \in 1..Len(its)
               PROVE  \E j \in 1..Len(its2) : its2[j].code = its[i].code
    OBVIOUS
  <2>1. i \in 1..Len(its2) /\ its2[i] = its[i]
    BY <1>2, <1>3
  <2> QED
    BY <2>1
<1>10. Consistent(n + 1, new)
  <2>1. {new.validate_result.code, new.review_result.code, new.commit_result}
          \subseteq {0} \cup {its2[i].code : i \in 1..Len(its2)}
    <3>1. {new.validate_result.code, new.review_result.code, new.commit_result}
            \subseteq {0} \cup {its[i].code : i \in 1..Len(its)}
      BY <1>5, <1>6
    <3> QED
      BY <3>1, <1>9
  <2>2. new.iterations = its2
    BY <1>5
  <2> QED
    BY <2>1, <2>2, <1>3, <1>5, <1>7, <1>8 DEF Consistent
<1>11. its2 # <<>>
  BY <1>2, <1>3
<1>12. Sound(n + 1, new)
  BY <1>5, <1>10 DEF Sound
<1> QED
  BY <1>5, <1>11, <1>12 DEF new

\* A verdict on the last attempt keeps a state sound, in each of its fields.
LEMMA ValidateIsSound ==
  ASSUME NEW n \in Nat, NEW state, Sound(n, state), state.iterations # <<>>,
         NEW passed \in BOOLEAN
  PROVE  Sound(n, validate_node(state, passed))
<1> DEFINE code == last_code(state)
           new == validate_node(state, passed)
<1>1. /\ state \in State /\ code \in Nat
      /\ code \in {state.iterations[i].code : i \in 1..Len(state.iterations)}
  BY SoundFacts DEF Sound
<1> HIDE DEF code
<1>2. [code |-> code, passed |-> passed] \in ValidateResult
  BY <1>1 DEF ValidateResult
<1>3. new = [state EXCEPT !.validate_result = [code |-> code, passed |-> passed]]
  BY DEF validate_node, code
<1>4. /\ new \in State /\ new.validate_result = [code |-> code, passed |-> passed]
      /\ new.subtasks = state.subtasks
      /\ new.current_subtask_idx = state.current_subtask_idx
      /\ new.current_iteration = state.current_iteration
      /\ new.iterations = state.iterations
      /\ new.review_result = state.review_result /\ new.commit_result = state.commit_result
  BY <1>1, <1>2, <1>3 DEF State
<1>5. new.validate_result.code = code
  BY <1>4
<1> HIDE DEF new
<1>6. Consistent(n, new)
  <2> DEFINE codes_in == {state.iterations[i].code : i \in 1..Len(state.iterations)}
  <2>1. {state.review_result.code, state.commit_result} \subseteq {0} \cup codes_in
    BY DEF Sound, Consistent
  <2>2. {new.validate_result.code, new.review_result.code, new.commit_result}
          \subseteq {0} \cup codes_in
    BY <2>1, <1>1, <1>4, <1>5
  <2> QED
    BY <2>2, <1>4 DEF Sound, Consistent
<1>7. Sound(n, new)
  BY <1>4, <1>6 DEF Sound
<1> QED
  BY <1>7 DEF new

LEMMA ReviewIsSound ==
  ASSUME NEW n \in Nat, NEW state, Sound(n, state), state.iterations # <<>>,
         NEW result \in Reviews(state)
  PROVE  /\ result.decision \in {"proceed", "retry", "escalate"}
         /\ Sound(n, [state EXCEPT !.review_result = result])
         /\ [state EXCEPT !.review_result = result].iterations # <<>>
         /\ [state EXCEPT !.review_result = result].review_result = result
<1> DEFINE code == last_code(state)
           new == [state EXCEPT !.review_result = result]
<1>1. /\ state \in State /\ code \in Nat
      /\ code \in {state.iterations[i].code : i \in 1..Len(state.iterations)}
  BY SoundFacts DEF Sound
<1>2. /\ result.code = code /\ result \in ReviewResult
      /\ result.decision \in {"proceed", "retry", "escalate"}
  BY <1>1 DEF Reviews, ReviewResult
<1> HIDE DEF code
<1>3. /\ new \in State /\ new.review_result = result
      /\ new.subtasks = state.subtasks
      /\ new.current_subtask_idx = state.current_subtask_idx
      /\ new.current_iteration = state.current_iteration
      /\ new.iterations = state.iterations
      /\ new.validate_result = state.validate_result /\ new.commit_result = state.commit_result
  BY <1>1, <1>2 DEF State
<1> HIDE DEF new
<1>4. Consistent(n, new)
  BY <1>1, <1>2, <1>3 DEF Sound, Consistent
<1>5. Sound(n, new)
  BY <1>3, <1>4 DEF Sound
<1> QED
  BY <1>2, <1>3, <1>5 DEF new

LEMMA CommitIsSound ==
  ASSUME NEW n \in Nat, NEW state, Sound(n, state), state.iterations # <<>>
  PROVE  /\ Sound(n, [state EXCEPT !.commit_result = last_code(state)])
         /\ [state EXCEPT !.commit_result = last_code(state)].subtasks = state.subtasks
         /\ [state EXCEPT !.commit_result = last_code(state)].iterations = state.iterations
         /\ [state EXCEPT !.commit_result = last_code(state)].review_result = state.review_result
         /\ [state EXCEPT !.commit_result = last_code(state)].current_subtask_idx
              = state.current_subtask_idx
<1> DEFINE code == last_code(state)
           new == [state EXCEPT !.commit_result = code]
<1>1. /\ state \in State /\ code \in Nat
      /\ code \in {state.iterations[i].code : i \in 1..Len(state.iterations)}
  BY SoundFacts DEF Sound
<1> HIDE DEF code
<1>2. /\ new \in State /\ new.commit_result = code
      /\ new.subtasks = state.subtasks
      /\ new.current_subtask_idx = state.current_subtask_idx
      /\ new.current_iteration = state.current_iteration
      /\ new.iterations = state.iterations
      /\ new.validate_result = state.validate_result /\ new.review_result = state.review_result
  BY <1>1 DEF State
<1> HIDE DEF new
<1>3. Consistent(n, new)
  BY <1>1, <1>2 DEF Sound, Consistent
<1>4. Sound(n, new)
  BY <1>2, <1>3 DEF Sound
<1> QED
  BY <1>2, <1>4 DEF new, code

-----------------------------------------------------------------------------
(***************************************************************************)
(* Steps                                                                   *)
(***************************************************************************)

LEMMA FInvInit == Init => FInv
<1> SUFFICES ASSUME Init PROVE FInv
  OBVIOUS
<1> USE DEF Init
<1>1. \A n : NoState \in State /\ Sound(n, NoState)
  BY NoStateIsSound
<1>2. Idle \in Calls
  BY <1>1 DEF Idle, Calls
<1>3. TypeOK
  BY <1>1, <1>2, FacadeAssumption DEF TypeOK
<1>4. StoredInv
  BY <1>1 DEF StoredInv
<1>5. InHandInv
  BY DEF InHandInv, InHand, Idle, DataStatus
<1>6. BranchInv /\ CommittedOnce
  BY DEF BranchInv, CommittedOnce
<1> QED
  BY <1>3, <1>4, <1>5, <1>6 DEF FInv

\* The pieces of code of each plan may only have become more.
CodesGrow ==
  /\ codes' \in [Plans -> Seq(SubtaskIds)]
  /\ \A plan \in Plans : Len(codes[plan]) <= Len(codes'[plan])

LEMMA CodesStay == ASSUME FInv, UNCHANGED codes PROVE CodesGrow
<1>1. \A plan \in Plans : Len(codes[plan]) \in Nat
  BY DEF FInv, TypeOK
<1> QED
  BY <1>1 DEF CodesGrow, FInv, TypeOK

\* Numbers of pieces of code.
LEMMA Lengths ==
  ASSUME FInv, CodesGrow
  PROVE  \A plan \in Plans : /\ Len(codes[plan]) \in Nat /\ Len(codes'[plan]) \in Nat
                             /\ Len(codes[plan]) <= Len(codes'[plan])
  BY DEF FInv, TypeOK, CodesGrow

\* What the store holds stays sound, with and without a new state in it.
LEMMA StoreStays ==
  ASSUME FInv, CodesGrow, UNCHANGED <<in_memory, checkpoint>>
  PROVE  StoredInv'
<1> SUFFICES ASSUME NEW plan \in Plans
             PROVE  /\ Sound(Len(codes'[plan]), in_memory[plan])
                    /\ Sound(Len(codes'[plan]), checkpoint[plan])
  BY DEF StoredInv
<1>1. Sound(Len(codes[plan]), in_memory[plan]) /\ Sound(Len(codes[plan]), checkpoint[plan])
  BY DEF FInv, StoredInv
<1> QED
  BY <1>1, Lengths, SoundForMore

LEMMA StoreSaves ==
  ASSUME FInv, CodesGrow, NEW plan \in Plans, NEW state,
         Sound(Len(codes'[plan]), state), Save(plan, state)
  PROVE  /\ StoredInv'
         /\ in_memory' \in [Plans -> State] /\ checkpoint' \in [Plans -> State]
         /\ subtask_to_plan' \in [SubtaskIds -> Plans \cup {"none"}]
<1>1. /\ in_memory' = in_memory \/ in_memory' = [in_memory EXCEPT ![plan] = state]
      /\ checkpoint' = checkpoint \/ checkpoint' = [checkpoint EXCEPT ![plan] = state]
      /\ subtask_to_plan' \in [SubtaskIds -> Plans \cup {"none"}]
  BY DEF Save, save_state, FInv, TypeOK
<1>2. state \in State
  BY DEF Sound
<1>3. in_memory' \in [Plans -> State] /\ checkpoint' \in [Plans -> State]
  BY <1>1, <1>2 DEF FInv, TypeOK
<1>4. ASSUME NEW p \in Plans
      PROVE  Sound(Len(codes'[p]), in_memory'[p]) /\ Sound(Len(codes'[p]), checkpoint'[p])
  <2>1. Sound(Len(codes'[p]), in_memory[p]) /\ Sound(Len(codes'[p]), checkpoint[p])
    BY Lengths, SoundForMore DEF FInv, StoredInv
  <2>2. /\ in_memory'[p] = in_memory[p] \/ (p = plan /\ in_memory'[p] = state)
        /\ checkpoint'[p] = checkpoint[p] \/ (p = plan /\ checkpoint'[p] = state)
    BY <1>1 DEF FInv, TypeOK
  <2> QED
    BY <2>1, <2>2
<1> QED
  BY <1>1, <1>3, <1>4 DEF StoredInv

\* A step of one client, after which it waits as in_hand says: what the other
\* clients have in hand stays sound.
LEMMA OneCall ==
  ASSUME FInv, CodesGrow, NEW c \in Clients, NEW new \in Calls,
         call' = [call EXCEPT ![c] = new], InHand(c)'
  PROVE  InHandInv' /\ call' \in [Clients -> Calls]
<1>1. call \in [Clients -> Calls] /\ InHandInv
  BY DEF FInv, TypeOK
<1>2. ASSUME NEW d \in Clients PROVE InHand(d)'
  <2>1. CASE d = c
    BY <2>1
  <2>2. CASE d # c
    <3>1. call'[d] = call[d] /\ InHand(d)
      BY <1>1, <2>2 DEF InHandInv
    <3>2. call[d].step # "idle" => Sound(Len(codes'[call[d].plan]), call[d].state)
      BY <3>1, Lengths, SoundForMore DEF InHand
    <3> QED
      BY <3>1, <3>2 DEF InHand
  <2> QED
    BY <2>1, <2>2
<1> QED
  BY <1>1, <1>2 DEF InHandInv

LEMMA IdleInHand ==
  ASSUME FInv, NEW c \in Clients, call' = [call EXCEPT ![c] = Idle]
  PROVE  InHand(c)' /\ Idle \in Calls
<1>1. Idle \in Calls
  BY NoStateIsSound DEF Idle, Calls
<1>2. call'[c] = Idle
  BY DEF FInv, TypeOK
<1>3. Idle.step = "idle" /\ Idle.plan = "none"
  BY DEF Idle
<1> QED
  BY <1>1, <1>2, <1>3 DEF InHand

\* A handler that starts to wait.
LEMMA AwaitStep ==
  ASSUME FInv, NEW c \in Clients, NEW step, NEW request, NEW plan \in Plans, NEW state,
         Await(c, step, request, plan, state),
         used' \subseteq Plans, calls' \in 0..MaxCalls,
         Sound(Len(codes[plan]), state),
         \/ step = "plan" /\ request = DataStatus
         \/ step \in {"gather", "generate"} /\ request \in Request /\ state.subtasks # <<>>
         \/ step \in {"validate", "review"} /\ request \in Request /\ state.iterations # <<>>
         \/ /\ step = "commit" /\ request \in Request /\ state.iterations # <<>>
            /\ state.review_result.decision = "proceed"
  PROVE  FInv'
<1> DEFINE new == [step |-> step, request |-> request, plan |-> plan, state |-> state]
<1>1. /\ call' = [call EXCEPT ![c] = new]
      /\ UNCHANGED <<storeVars, suggested, codes, gitVars, restarts>>
  BY DEF Await
<1>2. new \in Calls
  BY DEF Calls, Sound
<1>3. CodesGrow
  BY <1>1, CodesStay
<1>4. InHand(c)'
  <2>1. call'[c] = new
    BY <1>1 DEF FInv, TypeOK
  <2>2. new.step = step /\ new.request = request /\ new.plan = plan /\ new.state = state
    OBVIOUS
  <2> HIDE DEF new
  <2> QED
    BY <1>1, <2>1, <2>2 DEF InHand
<1>5. InHandInv' /\ call' \in [Clients -> Calls]
  <2> HIDE DEF new
  <2> QED
    BY <1>1, <1>2, <1>3, <1>4, OneCall
<1>6. TypeOK'
  BY <1>1, <1>5 DEF FInv, TypeOK, storeVars, gitVars
<1>7. StoredInv'
  BY <1>1, <1>3, StoreStays DEF storeVars
<1>8. BranchInv' /\ CommittedOnce'
  BY <1>1 DEF FInv, BranchInv, CommittedOnce, gitVars
<1> QED
  BY <1>5, <1>6, <1>7, <1>8 DEF FInv

\* What the git repository looks like after a step.
GitOK ==
  /\ branches' \subseteq Plans \X SubtaskIds
  /\ commits' \in [Plans -> Seq([subtask : SubtaskIds, code : Nat])]
  /\ BranchInv' /\ CommittedOnce'

LEMMA GitStays == ASSUME FInv, UNCHANGED gitVars PROVE GitOK
  BY DEF FInv, TypeOK, GitOK, BranchInv, CommittedOnce, gitVars

\* A handler that answers.
LEMMA AnswerStep ==
  ASSUME FInv, CodesGrow, GitOK, NEW c \in Clients, call[c].plan \in Plans, NEW state,
         NEW next_action \in Request \cup {DataStatus},
         Sound(Len(codes'[call[c].plan]), state), Answer(c, state, next_action)
  PROVE  FInv'
<1>1. /\ Save(call[c].plan, state) /\ call' = [call EXCEPT ![c] = Idle]
      /\ suggested' \in [Clients -> Request \cup {DataStatus}]
      /\ UNCHANGED <<used, calls, restarts>>
  BY DEF Answer, FInv, TypeOK
<1>2. /\ StoredInv'
      /\ in_memory' \in [Plans -> State] /\ checkpoint' \in [Plans -> State]
      /\ subtask_to_plan' \in [SubtaskIds -> Plans \cup {"none"}]
  BY <1>1, StoreSaves
<1>3. InHandInv' /\ call' \in [Clients -> Calls]
  BY <1>1, IdleInHand, OneCall
<1>4. TypeOK'
  BY <1>1, <1>2, <1>3 DEF FInv, TypeOK, GitOK, CodesGrow
<1> QED
  BY <1>2, <1>3, <1>4 DEF FInv, GitOK

LEMMA ErrorStep ==
  ASSUME FInv, GitOK, NEW c \in Clients, AnswerError(c)
  PROVE  FInv'
<1>1. /\ call' = [call EXCEPT ![c] = Idle]
      /\ UNCHANGED <<storeVars, suggested, used, codes, calls, restarts>>
  BY DEF AnswerError
<1>2. CodesGrow
  BY <1>1, CodesStay
<1>3. StoredInv'
  BY <1>1, <1>2, StoreStays DEF storeVars
<1>4. InHandInv' /\ call' \in [Clients -> Calls]
  BY <1>1, <1>2, IdleInHand, OneCall
<1>5. TypeOK'
  BY <1>1, <1>4 DEF FInv, TypeOK, GitOK, storeVars
<1> QED
  BY <1>3, <1>4, <1>5 DEF FInv, GitOK

-----------------------------------------------------------------------------
(***************************************************************************)
(* The handlers' first steps                                               *)
(***************************************************************************)

LEMMA BeginStep ==
  ASSUME FInv, NEW c \in Clients, Begin(c)
  PROVE  calls' \in 0..MaxCalls
  BY FacadeAssumption DEF Begin, FInv, TypeOK

LEMMA LoadIsSound ==
  ASSUME FInv, NEW plan \in Plans, NEW state \in load_state(plan)
  PROVE  Sound(Len(codes[plan]), state)
<1>1. state \in {NoState, checkpoint[plan], in_memory[plan]}
  BY DEF load_state
<1> QED
  BY <1>1, NoStateIsSound DEF FInv, StoredInv

LEMMA RequestType ==
  ASSUME FInv, NEW c \in Clients, NEW request \in Requests(c), request.tool # "data_status"
  PROVE  request \in Request
<1>1. CASE Guided
  <2>1. request = suggested[c] /\ suggested[c] \in Request \cup {DataStatus}
    BY <1>1 DEF Requests, FInv, TypeOK
  <2>2. DataStatus.tool = "data_status"
    BY DEF DataStatus
  <2> QED
    BY <2>1, <2>2
<1>2. CASE ~Guided
  BY <1>2 DEF Requests, Request
<1> QED
  BY <1>1, <1>2

LEMMA CallPlanStep == ASSUME FInv, NEW c \in Clients, CallPlan(c) PROVE FInv'
<1>1. PICK plan \in Plans \ used :
        used' = used \cup {plan} /\ Await(c, "plan", DataStatus, plan, NoState)
  BY DEF CallPlan
<1>2. calls' \in 0..MaxCalls
  BY BeginStep DEF CallPlan
<1>3. used' \subseteq Plans
  BY <1>1 DEF FInv, TypeOK
<1>4. Sound(Len(codes[plan]), NoState)
  BY NoStateIsSound
<1> QED
  BY <1>1, <1>2, <1>3, <1>4, AwaitStep

LEMMA CallOnSubtaskStep == ASSUME FInv, NEW c \in Clients, CallOnSubtask(c) PROVE FInv'
<1>1. PICK request \in Requests(c) :
        /\ request.tool \in {"gather", "generate"}
        /\ request.plan \in Plans
        /\ \E state \in load_state(request.plan) : \E i \in 1..Len(state.subtasks) :
             Await(c, request.tool, request, request.plan,
                   [state EXCEPT !.current_subtask_idx = i])
  BY DEF CallOnSubtask
<1>2a. PICK state \in load_state(request.plan) : \E i \in 1..Len(state.subtasks) :
         Await(c, request.tool, request, request.plan, [state EXCEPT !.current_subtask_idx = i])
  BY <1>1
<1>2. PICK i \in 1..Len(state.subtasks) :
        Await(c, request.tool, request, request.plan, [state EXCEPT !.current_subtask_idx = i])
  BY <1>2a
<1>3. calls' \in 0..MaxCalls /\ used' \subseteq Plans
  BY BeginStep DEF CallOnSubtask, FInv, TypeOK
<1>4. request \in Request
  BY <1>1, RequestType
<1>5. Len(codes[request.plan]) \in Nat
  BY <1>1 DEF FInv, TypeOK
<1> DEFINE new == [state EXCEPT !.current_subtask_idx = i]
<1>6. Sound(Len(codes[request.plan]), new) /\ new.subtasks # <<>>
  BY <1>1, <1>5, LoadIsSound, SelectIsSound
<1>7. Await(c, request.tool, request, request.plan, new)
  BY <1>2
<1> HIDE DEF new
<1> QED
  BY <1>1, <1>3, <1>4, <1>6, <1>7, AwaitStep

LEMMA CallOnArtifactStep == ASSUME FInv, NEW c \in Clients, CallOnArtifact(c) PROVE FInv'
<1>1. PICK request \in Requests(c) :
        /\ request.tool \in {"validate", "review"}
        /\ subtask_to_plan[request.subtask] # "none"
        /\ \E state \in load_state(subtask_to_plan[request.subtask]) :
             /\ state.iterations # <<>>
             /\ Await(c, request.tool, request, subtask_to_plan[request.subtask], state)
  BY DEF CallOnArtifact
<1>2. request \in Request
  BY <1>1, RequestType
<1>3. subtask_to_plan[request.subtask] \in Plans
  BY <1>1, <1>2 DEF Request, FInv, TypeOK
<1>4. PICK state \in load_state(subtask_to_plan[request.subtask]) :
        /\ state.iterations # <<>>
        /\ Await(c, request.tool, request, subtask_to_plan[request.subtask], state)
  BY <1>1
<1>5. calls' \in 0..MaxCalls /\ used' \subseteq Plans
  BY BeginStep DEF CallOnArtifact, FInv, TypeOK
<1>6. Sound(Len(codes[subtask_to_plan[request.subtask]]), state)
  BY <1>3, LoadIsSound
<1> QED
  BY <1>1, <1>2, <1>3, <1>4, <1>5, <1>6, AwaitStep

-----------------------------------------------------------------------------
(***************************************************************************)
(* The handlers' last steps                                                *)
(***************************************************************************)

\* What next_action.py answers is a request that can be made.
LEMMA NextActions ==
  ASSUME NEW plan \in Plans, NEW s \in SubtaskIds, NEW n \in Nat
  PROVE  /\ gather(plan, s) \in Request /\ generate(plan, s, n) \in Request
         /\ validate(s, n) \in Request /\ review(s, n) \in Request
         /\ \A state \in State :
              /\ state.subtasks # <<>> => after_plan(plan, state) \in Request
              /\ state.review_result.decision \in {"proceed", "retry", "escalate"} =>
                   after_review(plan, s, n, state) \in Request \cup {DataStatus}
<1>1. /\ \A t \in SubtaskIds : gather(plan, t) \in Request
      /\ \A m \in Nat : generate(plan, s, m) \in Request
      /\ validate(s, n) \in Request /\ review(s, n) \in Request
  BY DEF gather, generate, validate, review, Request
<1>2. ASSUME NEW state \in State, state.subtasks # <<>>
      PROVE  after_plan(plan, state) \in Request
  <2>1. state.subtasks \in Seq(SubtaskIds)
    BY StateFields
  <2>2. state.subtasks[1] \in SubtaskIds
    BY <1>2, <2>1
  <2> QED
    BY <1>1, <2>2 DEF after_plan
<1>3. ASSUME NEW state \in State,
             state.review_result.decision \in {"proceed", "retry", "escalate"}
      PROVE  after_review(plan, s, n, state) \in Request \cup {DataStatus}
  <2>1. state.subtasks \in Seq(SubtaskIds) /\ state.current_subtask_idx \in Nat
    BY StateFields
  <2>2. state.current_subtask_idx + 1 <= Len(state.subtasks) =>
          state.subtasks[state.current_subtask_idx + 1] \in SubtaskIds
    BY <2>1
  <2>3. CASE state.review_result.decision = "proceed"
    BY <1>1, <2>2, <2>3 DEF after_review
  <2>4. CASE state.review_result.decision = "retry"
    BY <1>1, <2>4 DEF after_review
  <2>5. CASE state.review_result.decision = "escalate"
    BY <2>5 DEF after_review
  <2> QED
    BY <1>3, <2>3, <2>4, <2>5
<1> QED
  BY <1>1, <1>2, <1>3

\* The call a handler finishes, and what it has in hand.
LEMMA CallFacts ==
  ASSUME FInv, NEW c \in Clients, call[c].step # "idle"
  PROVE  /\ InHand(c)
         /\ call[c].plan \in Plans /\ Len(codes[call[c].plan]) \in Nat
         /\ Sound(Len(codes[call[c].plan]), call[c].state) /\ call[c].state \in State
         /\ call[c].request \in Request =>
              call[c].request.subtask \in SubtaskIds /\ call[c].request.iteration \in Nat
<1>1. InHand(c)
  BY DEF FInv, InHandInv
<1>2. call[c].plan \in Plans /\ Sound(Len(codes[call[c].plan]), call[c].state)
  BY <1>1 DEF InHand
<1>3. call[c].state \in State
  BY <1>2 DEF Sound
<1>4. Len(codes[call[c].plan]) \in Nat
  BY <1>2 DEF FInv, TypeOK
<1> QED
  BY <1>1, <1>2, <1>3, <1>4 DEF Request

LEMMA PlanDoneStep == ASSUME FInv, NEW c \in Clients, PlanDone(c) PROVE FInv'
<1> DEFINE plan == call[c].plan
<1>1. PICK ids \in PlanChoices[plan] :
        Answer(c, NewState(ids), after_plan(plan, NewState(ids)))
  BY DEF PlanDone
<1>2. plan \in Plans
  BY CallFacts DEF PlanDone
<1>3. ids \in Seq(SubtaskIds) /\ ids # <<>>
  BY <1>2, FacadeAssumption
<1>4. CodesGrow /\ GitOK
  BY CodesStay, GitStays DEF PlanDone
<1>5. /\ Sound(Len(codes'[plan]), NewState(ids)) /\ NewState(ids) \in State
      /\ NewState(ids).subtasks # <<>>
  BY <1>3, NewStateIsSound
<1>6. after_plan(plan, NewState(ids)) \in Request
  <2>1. ids[1] \in SubtaskIds
    BY <1>3
  <2> QED
    BY <1>2, <1>5, <2>1, NextActions
<1> QED
  BY <1>1, <1>2, <1>4, <1>5, <1>6, AnswerStep

LEMMA GatherDoneStep == ASSUME FInv, NEW c \in Clients, GatherDone(c) PROVE FInv'
<1> DEFINE plan == call[c].plan
<1>1. /\ call[c].step = "gather" /\ UNCHANGED <<codes, gitVars>>
      /\ Answer(c, call[c].state, after_gather(plan, call[c].request.subtask))
  BY DEF GatherDone
<1>2. /\ plan \in Plans /\ Sound(Len(codes'[plan]), call[c].state)
      /\ call[c].request.subtask \in SubtaskIds
  BY <1>1, CallFacts DEF InHand
<1>3. CodesGrow /\ GitOK
  BY <1>1, CodesStay, GitStays
<1>4. after_gather(plan, call[c].request.subtask) \in Request
  BY <1>2, NextActions DEF after_gather
<1> QED
  BY <1>1, <1>2, <1>3, <1>4, AnswerStep

LEMMA GenerateDoneStep == ASSUME FInv, NEW c \in Clients, GenerateDone(c) PROVE FInv'
<1> DEFINE plan == call[c].plan
           n == Len(codes[plan])
           new == code_node(call[c].state, n + 1)
           s == call[c].request.subtask
<1>1. /\ plan \in Plans /\ n \in Nat /\ Sound(n, call[c].state)
      /\ call[c].state.subtasks # <<>> /\ s \in SubtaskIds
  BY CallFacts DEF GenerateDone, InHand
<1>2. GitOK
  BY GitStays DEF GenerateDone
<1>3. CASE AnswerError(c)
  BY <1>2, <1>3, ErrorStep
<1>4. CASE /\ codes' = [codes EXCEPT ![plan] = Append(@, current_subtask(new))]
           /\ Answer(c, new, after_generate(s, last_iteration(new).number))
  <2>1. Sound(n + 1, new) /\ new.iterations # <<>> /\ new.subtasks # <<>>
    BY <1>1, CodeIsSound
  <2> HIDE DEF new, n
  <2>2. current_subtask(new) \in SubtaskIds /\ last_iteration(new) \in Iteration
    BY <1>1, <2>1, SoundFacts
  <2>3. last_iteration(new).number \in Nat
    BY <2>2 DEF Iteration
  <2>4. codes \in [Plans -> Seq(SubtaskIds)]
    BY DEF FInv, TypeOK
  <2>5. Append(codes[plan], current_subtask(new)) \in Seq(SubtaskIds)
    BY <1>1, <2>2, <2>4
  <2>6. codes'[plan] = Append(codes[plan], current_subtask(new))
    BY <1>1, <1>4, <2>4
  <2>7. Len(codes'[plan]) = n + 1
    BY <1>1, <2>2, <2>4, <2>6 DEF n
  <2>8. CodesGrow
    <3>1. codes' \in [Plans -> Seq(SubtaskIds)]
      BY <1>4, <2>4, <2>5
    <3>2. ASSUME NEW p \in Plans PROVE Len(codes[p]) <= Len(codes'[p])
      <4>1. CASE p = plan
        BY <1>1, <2>7, <4>1 DEF n
      <4>2. CASE p # plan
        BY <1>4, <2>4, <4>2
      <4> QED
        BY <4>1, <4>2
    <3> QED
      BY <3>1, <3>2 DEF CodesGrow
  <2>9. after_generate(s, last_iteration(new).number) \in Request
    BY <1>1, <2>3, NextActions DEF after_generate
  <2>10. Sound(Len(codes'[plan]), new)
    BY <2>1, <2>7
  <2> QED
    BY <1>1, <1>2, <1>4, <2>8, <2>9, <2>10, AnswerStep
<1> QED
  BY <1>3, <1>4 DEF GenerateDone

LEMMA ValidateDoneStep == ASSUME FInv, NEW c \in Clients, ValidateDone(c) PROVE FInv'
<1> DEFINE plan == call[c].plan
           s == call[c].request.subtask
           n == call[c].request.iteration
<1>1. PICK passed \in BOOLEAN :
        Answer(c, validate_node(call[c].state, passed), after_validate(plan, s, n, passed))
  BY DEF ValidateDone
<1>2. /\ plan \in Plans /\ Len(codes[plan]) \in Nat /\ Sound(Len(codes[plan]), call[c].state)
      /\ call[c].state.iterations # <<>> /\ s \in SubtaskIds /\ n \in Nat
  BY CallFacts DEF ValidateDone, InHand
<1>3. CodesGrow /\ GitOK /\ UNCHANGED codes
  BY CodesStay, GitStays DEF ValidateDone
<1>4. Sound(Len(codes'[plan]), validate_node(call[c].state, passed))
  BY <1>2, <1>3, ValidateIsSound
<1>5. after_validate(plan, s, n, passed) \in Request
  <2>1. n + 1 \in Nat
    BY <1>2
  <2> QED
    BY <1>2, <2>1, NextActions DEF after_validate
<1> QED
  BY <1>1, <1>2, <1>3, <1>4, <1>5, AnswerStep

LEMMA ReviewDoneStep == ASSUME FInv, NEW c \in Clients, ReviewDone(c) PROVE FInv'
<1> DEFINE plan == call[c].plan
           request == call[c].request
<1>1. PICK result \in Reviews(call[c].state) :
        LET state == [call[c].state EXCEPT !.review_result = result] IN
        IF result.decision = "proceed"
        THEN Await(c, "commit", request, plan, state) /\ UNCHANGED <<used, calls>>
        ELSE /\ Answer(c, state, after_review(plan, request.subtask, request.iteration, state))
             /\ UNCHANGED <<codes, gitVars>>
  BY DEF ReviewDone
<1> DEFINE state == [call[c].state EXCEPT !.review_result = result]
<1>2. /\ plan \in Plans /\ Len(codes[plan]) \in Nat /\ Sound(Len(codes[plan]), call[c].state)
      /\ call[c].state.iterations # <<>> /\ request \in Request
      /\ request.subtask \in SubtaskIds /\ request.iteration \in Nat
  BY CallFacts DEF ReviewDone, InHand
<1>3. /\ result.decision \in {"proceed", "retry", "escalate"}
      /\ Sound(Len(codes[plan]), state)
      /\ state.iterations # <<>> /\ state.review_result = result
  <2> DEFINE n == Len(codes[plan])
             old == call[c].state
  <2>1. n \in Nat /\ Sound(n, old) /\ old.iterations # <<>> /\ result \in Reviews(old)
    BY <1>2
  <2> HIDE DEF n, old
  <2>2. /\ result.decision \in {"proceed", "retry", "escalate"}
        /\ Sound(n, [old EXCEPT !.review_result = result])
        /\ [old EXCEPT !.review_result = result].iterations # <<>>
        /\ [old EXCEPT !.review_result = result].review_result = result
    BY <2>1, ReviewIsSound
  <2> QED
    BY <2>2 DEF n, old
<1>4. state \in State
  BY <1>3 DEF Sound
<1> HIDE DEF state
<1>5. CASE result.decision = "proceed"
  <2>1. Await(c, "commit", request, plan, state) /\ UNCHANGED <<used, calls>>
    BY <1>1, <1>5 DEF state
  <2>2. used' \subseteq Plans /\ calls' \in 0..MaxCalls
    BY <2>1 DEF FInv, TypeOK
  <2>3. state.review_result.decision = "proceed"
    BY <1>3, <1>5
  <2> QED
    BY <1>2, <1>3, <2>1, <2>2, <2>3, AwaitStep
<1>6. CASE result.decision # "proceed"
  <2>1. /\ Answer(c, state, after_review(plan, request.subtask, request.iteration, state))
        /\ UNCHANGED <<codes, gitVars>>
    BY <1>1, <1>6 DEF state
  <2>2. CodesGrow /\ GitOK
    BY <2>1, CodesStay, GitStays
  <2>3. after_review(plan, request.subtask, request.iteration, state) \in Request \cup {DataStatus}
    BY <1>2, <1>3, <1>4, NextActions
  <2> QED
    BY <1>2, <1>3, <2>1, <2>2, <2>3, AnswerStep
<1> QED
  BY <1>5, <1>6

\* A branch nobody has, and at most one commit on it.
LEMMA NewBranch ==
  ASSUME FInv, NEW plan \in Plans, NEW s \in SubtaskIds, NEW code \in Nat,
         CreateBranch(plan, s),
         \/ UNCHANGED commits
         \/ commits' = [commits EXCEPT ![plan] = Append(@, [subtask |-> s, code |-> code])]
  PROVE  GitOK
<1> DEFINE Commits == [subtask : SubtaskIds, code : Nat]
           new == [subtask |-> s, code |-> code]
<1>1. /\ commits \in [Plans -> Seq(Commits)] /\ BranchInv /\ CommittedOnce
      /\ branches \subseteq Plans \X SubtaskIds
  BY DEF FInv, TypeOK
<1>2. /\ <<plan, s>> \notin branches /\ branches' = branches \cup {<<plan, s>>}
      /\ branches' \subseteq Plans \X SubtaskIds
  BY <1>1 DEF CreateBranch
<1>3. new \in Commits /\ new.subtask = s
  OBVIOUS
<1> HIDE DEF new, Commits
<1>4. CASE UNCHANGED commits
  BY <1>1, <1>2, <1>4 DEF GitOK, BranchInv, CommittedOnce, Commits
<1>5. CASE commits' = [commits EXCEPT ![plan] = Append(@, new)]
  <2> DEFINE old == commits[plan]
  <2>1. /\ old \in Seq(Commits) /\ Append(old, new) \in Seq(Commits)
        /\ Len(old) \in Nat /\ Len(Append(old, new)) = Len(old) + 1
        /\ \A k \in 1..Len(old) : Append(old, new)[k] = old[k]
        /\ Append(old, new)[Len(old) + 1] = new
    BY <1>1, <1>3
  <2>2. /\ commits' \in [Plans -> Seq(Commits)] /\ commits'[plan] = Append(old, new)
        /\ \A p \in Plans : p # plan => commits'[p] = commits[p]
    BY <1>1, <1>5, <2>1
  <2>3. /\ \A k \in 1..Len(old) : <<plan, old[k].subtask>> \in branches
        /\ \A i, j \in 1..Len(old) : old[i].subtask = old[j].subtask => i = j
    BY <1>1 DEF BranchInv, CommittedOnce
  <2> HIDE DEF old
  <2>4. \A k \in 1..Len(commits'[plan]) :
          \/ k \in 1..Len(old) /\ commits'[plan][k] = old[k] /\ old[k].subtask # s
          \/ k = Len(old) + 1 /\ commits'[plan][k].subtask = s
    BY <1>2, <1>3, <2>1, <2>2, <2>3
  <2>5. BranchInv'
    <3> SUFFICES ASSUME NEW p \in Plans, NEW k \in 1..Len(commits'[p])
                 PROVE  <<p, commits'[p][k].subtask>> \in branches'
      BY DEF BranchInv
    <3>1. CASE p # plan
      BY <3>1, <1>1, <1>2, <2>2 DEF BranchInv
    <3>2. CASE p = plan
      BY <3>2, <1>2, <2>3, <2>4
    <3> QED
      BY <3>1, <3>2
  <2>6. CommittedOnce'
    <3> SUFFICES ASSUME NEW p \in Plans, NEW i \in 1..Len(commits'[p]),
                        NEW j \in 1..Len(commits'[p]),
                        commits'[p][i].subtask = commits'[p][j].subtask
                 PROVE  i = j
      BY DEF CommittedOnce
    <3>1. CASE p # plan
      BY <3>1, <1>1, <2>2 DEF CommittedOnce
    <3>2. CASE p = plan
      BY <3>2, <2>3, <2>4
    <3> QED
      BY <3>1, <3>2
  <2> QED
    BY <1>2, <2>2, <2>5, <2>6 DEF GitOK, Commits
<1> QED
  BY <1>4, <1>5 DEF new

LEMMA CommitDoneStep == ASSUME FInv, NEW c \in Clients, CommitDone(c) PROVE FInv'
<1> DEFINE plan == call[c].plan
           code == last_code(call[c].state)
           state == [call[c].state EXCEPT !.commit_result = code]
           s == current_subtask(state)
           request == call[c].request
<1>1. /\ plan \in Plans /\ Len(codes[plan]) \in Nat /\ Sound(Len(codes[plan]), call[c].state)
      /\ call[c].state.iterations # <<>> /\ request \in Request
      /\ request.subtask \in SubtaskIds /\ request.iteration \in Nat
      /\ call[c].state.review_result.decision = "proceed"
  BY CallFacts DEF CommitDone, InHand
<1>2. /\ Sound(Len(codes[plan]), state) /\ state.iterations = call[c].state.iterations
      /\ state.review_result = call[c].state.review_result
  BY <1>1, CommitIsSound
<1>3. /\ \/ UNCHANGED gitVars /\ AnswerError(c)
         \/ CreateBranch(plan, s) /\ UNCHANGED commits /\ AnswerError(c)
         \/ /\ CreateBranch(plan, s)
            /\ commits' = [commits EXCEPT ![plan] =
                             Append(@, [subtask |-> s, code |-> last_code(state)])]
            /\ \/ AnswerError(c)
               \/ /\ Answer(c, state, after_review(plan, request.subtask,
                                                   request.iteration, state))
                  /\ UNCHANGED codes
  BY DEF CommitDone
<1> HIDE DEF state
<1>4. state.subtasks # <<>> /\ state.iterations # <<>> /\ state \in State
  BY <1>1, <1>2 DEF Sound
<1>5. s \in SubtaskIds /\ last_code(state) \in Nat
  BY <1>1, <1>2, <1>4, SoundFacts
<1>6. GitOK
  BY <1>1, <1>3, <1>5, GitStays, NewBranch
<1>7. CASE AnswerError(c)
  BY <1>6, <1>7, ErrorStep
<1>8. CASE /\ Answer(c, state, after_review(plan, request.subtask, request.iteration, state))
           /\ UNCHANGED codes
  <2>1. CodesGrow
    BY <1>8, CodesStay
  <2>2. after_review(plan, request.subtask, request.iteration, state) \in Request \cup {DataStatus}
    BY <1>1, <1>2, <1>4, NextActions
  <2> QED
    BY <1>1, <1>2, <1>6, <1>8, <2>1, <2>2, AnswerStep
<1> QED
  BY <1>3, <1>7, <1>8

LEMMA RestartStep == ASSUME FInv, Restart PROVE FInv'
<1> USE DEF Restart
<1>1. CodesGrow /\ GitOK
  BY CodesStay, GitStays
<1>2. NoState \in State /\ Idle \in Calls /\ \A n : Sound(n, NoState)
  BY NoStateIsSound DEF Idle, Calls
<1>3. StoredInv'
  <2> SUFFICES ASSUME NEW plan \in Plans
               PROVE  /\ Sound(Len(codes'[plan]), in_memory'[plan])
                      /\ Sound(Len(codes'[plan]), checkpoint'[plan])
    BY DEF StoredInv
  <2> QED
    BY <1>2 DEF FInv, StoredInv
<1>4. InHandInv'
  <2>1. Idle.step = "idle" /\ Idle.plan = "none"
    BY DEF Idle
  <2> QED
    BY <2>1 DEF InHandInv, InHand
<1>5. TypeOK'
  <2>1. TypeOK
    BY DEF FInv
  <2>2. /\ in_memory' \in [Plans -> State] /\ checkpoint' \in [Plans -> State]
        /\ subtask_to_plan' \in [SubtaskIds -> Plans \cup {"none"}]
        /\ call' \in [Clients -> Calls]
    BY <1>2, <2>1 DEF TypeOK
  <2>3. restarts' \in 0..MaxRestarts
    BY <2>1, FacadeAssumption DEF TypeOK
  <2>4. /\ suggested' \in [Clients -> Request \cup {DataStatus}]
        /\ used' \subseteq Plans /\ calls' \in 0..MaxCalls
        /\ codes' \in [Plans -> Seq(SubtaskIds)]
    BY <2>1 DEF TypeOK
  <2> QED
    BY <1>1, <2>2, <2>3, <2>4 DEF TypeOK, GitOK
<1> QED
  BY <1>1, <1>3, <1>4, <1>5 DEF FInv, GitOK

LEMMA FInvStep == FInv /\ [Next]_vars => FInv'
<1> SUFFICES ASSUME FInv, [Next]_vars PROVE FInv'
  OBVIOUS
<1>1. CASE UNCHANGED vars
  BY <1>1 DEF FInv, vars, storeVars, gitVars, TypeOK, StoredInv, InHandInv, InHand,
    BranchInv, CommittedOnce
<1>2. CASE Restart
  BY <1>2, RestartStep
<1>3. ASSUME NEW c \in Clients, Handle(c) PROVE FInv'
  BY <1>3, CallPlanStep, CallOnSubtaskStep, CallOnArtifactStep, PlanDoneStep, GatherDoneStep,
     GenerateDoneStep, ValidateDoneStep, ReviewDoneStep, CommitDoneStep DEF Handle
<1> QED
  BY <1>1, <1>2, <1>3 DEF Next

LEMMA FInvariance == Spec => []FInv
  BY FInvInit, FInvStep, PTL DEF Spec

-----------------------------------------------------------------------------
(***************************************************************************)
(* The theorems                                                            *)
(***************************************************************************)

\* States, requests and answers keep their types; in particular next_action
\* only ever names a subtask and a plan that exist.
THEOREM FacadeTypes == Spec => []TypeOK
<1>1. FInv => TypeOK
  BY DEF FInv
<1> QED
  BY <1>1, FInvariance, PTL

\* Overlapping calls, stale loads and lost updates leave every state of a plan
\* consistent in itself.
THEOREM Consistency == Spec => []StatesAreConsistent
<1>1. FInv => StatesAreConsistent
  <2> SUFFICES ASSUME FInv, NEW plan \in Plans, NEW state \in StatesOf(plan)
               PROVE  Consistent(Len(codes[plan]), state)
    BY DEF StatesAreConsistent
  <2>1. CASE state \in {in_memory[plan], checkpoint[plan]}
    BY <2>1 DEF FInv, StoredInv, Sound
  <2>2. CASE state \in {call[c].state : c \in {d \in Clients : call[d].plan = plan}}
    <3>1. PICK c \in Clients : call[c].plan = plan /\ state = call[c].state
      BY <2>2
    <3>2. InHand(c)
      BY DEF FInv, InHandInv
    <3>3. call[c].step # "idle"
      BY <3>1, <3>2, FacadeAssumption DEF InHand
    <3> QED
      BY <3>1, <3>2, <3>3 DEF InHand, Sound
  <2> QED
    BY <2>1, <2>2 DEF StatesOf
<1> QED
  BY <1>1, FInvariance, PTL

\* However calls overlap, fail and are repeated, and whatever restarts lose, no
\* subtask of a plan is committed twice.
THEOREM Once == Spec => []CommittedOnce
<1>1. FInv => CommittedOnce
  BY DEF FInv
<1> QED
  BY <1>1, FInvariance, PTL

-----------------------------------------------------------------------------
(***************************************************************************)
(* Clients that follow next_action: what the guided runs check, for any    *)
(* number of them, of plans and of restarts.                               *)
(***************************************************************************)
\* The ids a plan may give its subtasks.
IdsOf(plan) == UNION {{ids[i] : i \in 1..Len(ids)} : ids \in PlanChoices[plan]}

\* Clients follow next_action, states are kept in memory, and no two subtasks
\* share an id, in one plan or in two: what the guided properties rest on.
GuidedAlone ==
  /\ Guided /\ ~Checkpointed
  /\ \A p, q \in Plans : p # q => IdsOf(p) \cap IdsOf(q) = {}
  /\ \A p \in Plans : \A ids \in PlanChoices[p] : \A i, j \in 1..Len(ids) :
       ids[i] = ids[j] => i = j

\* The plans a client may act on: the one its next action is about, and one it
\* is making.
PlansOf(told) ==
  {p \in Plans : \/ told.tool \in {"gather", "generate"} /\ told.plan = p
                 \/ told.tool \in {"validate", "review"} /\ told.subtask \in IdsOf(p)}
Claims(c) ==
  PlansOf(suggested[c]) \cup {p \in Plans : call[c].step = "plan" /\ call[c].plan = p}

\* No client acts on a plan that was not given out, and no two on the same.
OwnInv ==
  /\ \A c \in Clients : Claims(c) \subseteq used
  /\ \A c, d \in Clients : c # d => Claims(c) \cap Claims(d) = {}

\* A plan that is not given out, or still being made, has left no trace.
Traceless(p) == in_memory[p] = NoState /\ codes[p] = <<>> /\ commits[p] = <<>>
FreshInv ==
  /\ \A p \in Plans : p \notin used => Traceless(p)
  /\ \A c \in Clients : call[c].step = "plan" =>
       suggested[c] = DataStatus /\ Traceless(call[c].plan)

\* The cache leads from a subtask to the plan it belongs to, which is there.
CacheInv ==
  \A s \in SubtaskIds : subtask_to_plan[s] # "none" =>
    /\ s \in IdsOf(subtask_to_plan[s])
    /\ in_memory[subtask_to_plan[s]] # NoState

\* A state knows every code made for its plan, and how far the plan is done.
Recorded(plan, state, made, done) ==
  /\ state.subtasks \in PlanChoices[plan]
  /\ Len(state.iterations) = Len(made)
  /\ \A i \in 1..Len(made) : state.iterations[i].code = i
  /\ Len(done) \in {state.current_subtask_idx - 1, state.current_subtask_idx}
  /\ \A k \in 1..Len(done) : done[k].subtask = state.subtasks[k]
RecordInv ==
  \A p \in Plans : in_memory[p] # NoState => Recorded(p, in_memory[p], codes[p], commits[p])

\* Every commit is of code made for its subtask, and they are in order.
MadeForIt(made, done) ==
  \A k \in 1..Len(done) : done[k].code \in 1..Len(made) /\ made[done[k].code] = done[k].subtask
InOrder(plan, done) ==
  \A k \in 1..Len(done) : \E order \in PlanChoices[plan] : \A j \in 1..k :
    j <= Len(order) /\ done[j].subtask = order[j]
DoneInv == \A p \in Plans : MadeForIt(codes[p], commits[p]) /\ InOrder(p, commits[p])

\* What a client was told to do next fits the state of the plan.
Fits(told, state, made, done) ==
  /\ told.tool = "gather" =>
       /\ Len(done) < Len(state.subtasks)
       /\ state.subtasks[Len(done) + 1] = told.subtask
  /\ told.tool = "generate" => current_subtask(state) = told.subtask
  /\ told.tool \in {"validate", "review"} =>
       /\ state.iterations # <<>>
       /\ current_subtask(state) = told.subtask
       /\ last_iteration(state).number = told.iteration
       /\ made[Len(made)] = told.subtask
  /\ told.tool = "review" =>
       state.validate_result = [code |-> last_code(state), passed |-> TRUE]
FitsInv ==
  \A c \in Clients : \A p \in PlansOf(suggested[c]) :
    in_memory[p] # NoState => Fits(suggested[c], in_memory[p], codes[p], commits[p])

\* A handler works on what is in memory, changed at most by itself, and does
\* what its client was told to do.
OnlyReviewed(state, mem) ==
  /\ state.subtasks = mem.subtasks
  /\ state.current_subtask_idx = mem.current_subtask_idx
  /\ state.current_iteration = mem.current_iteration
  /\ state.iterations = mem.iterations
  /\ state.validate_result = mem.validate_result
  /\ state.commit_result = mem.commit_result
  /\ state.review_result.code = last_code(mem)
Works(handler, told, mem, done) ==
  /\ handler.plan \in PlansOf(told) /\ mem # NoState
  /\ handler.request = told
  /\ told.tool = IF handler.step = "commit" THEN "review" ELSE handler.step
  /\ handler.step = "gather" =>
       handler.state = [mem EXCEPT !.current_subtask_idx = Len(done) + 1]
  /\ handler.step \in {"generate", "validate", "review"} => handler.state = mem
  /\ handler.step = "commit" => OnlyReviewed(handler.state, mem)
WorkInv ==
  \A c \in Clients : call[c].step \notin {"idle", "plan"} =>
    Works(call[c], suggested[c], in_memory[call[c].plan], commits[call[c].plan])

GInv ==
  /\ FInv /\ GuidedAlone
  /\ OwnInv /\ FreshInv /\ CacheInv /\ RecordInv /\ DoneInv /\ FitsInv /\ WorkInv

LEMMA GuidedInit == GuidedAlone /\ Init => GInv
<1> SUFFICES ASSUME GuidedAlone, Init PROVE GInv
  OBVIOUS
<1>1. \A p \in Plans : in_memory[p] = NoState /\ codes[p] = <<>> /\ commits[p] = <<>>
  BY DEF Init
<1>2. \A c \in Clients : call[c].step = "idle" /\ suggested[c] = DataStatus
  BY DEF Init, Idle
<1>3. ASSUME NEW c \in Clients PROVE Claims(c) = {}
  <2>1. DataStatus.tool = "data_status"
    BY DEF DataStatus
  <2>2. PlansOf(DataStatus) = {}
    BY <2>1 DEF PlansOf
  <2> QED
    BY <1>2, <2>2 DEF Claims
<1>4. OwnInv /\ FreshInv
  BY <1>1, <1>2, <1>3 DEF OwnInv, FreshInv, Traceless
<1>5. CacheInv
  BY DEF Init, CacheInv
<1>6. RecordInv /\ DoneInv
  BY <1>1 DEF RecordInv, DoneInv, MadeForIt, InOrder
<1>7. FitsInv
  BY <1>1 DEF FitsInv, PlansOf
<1>8. WorkInv
  BY <1>2 DEF WorkInv
<1> QED
  BY <1>4, <1>5, <1>6, <1>7, <1>8, FInvInit DEF GInv

\* A next action is about one plan at most.
LEMMA OnePlan ==
  ASSUME GuidedAlone, NEW p \in Plans, NEW s, NEW n
  PROVE  /\ PlansOf(DataStatus) = {}
         /\ PlansOf(gather(p, s)) = {p} /\ PlansOf(generate(p, s, n)) = {p}
         /\ s \in IdsOf(p) => PlansOf(validate(s, n)) = {p} /\ PlansOf(review(s, n)) = {p}
<1>1. PlansOf(DataStatus) = {}
  BY DEF PlansOf, DataStatus
<1>2. PlansOf(gather(p, s)) = {p} /\ PlansOf(generate(p, s, n)) = {p}
  BY DEF PlansOf, gather, generate
<1>3. ASSUME s \in IdsOf(p)
      PROVE  \A q \in Plans : s \in IdsOf(q) <=> q = p
  <2> SUFFICES ASSUME NEW q \in Plans, s \in IdsOf(q), q # p PROVE FALSE
    BY <1>3
  <2>1. IdsOf(p) \cap IdsOf(q) = {}
    BY DEF GuidedAlone
  <2> QED
    BY <1>3, <2>1
<1>4. ASSUME s \in IdsOf(p)
      PROVE  PlansOf(validate(s, n)) = {p} /\ PlansOf(review(s, n)) = {p}
  BY <1>3, <1>4 DEF PlansOf, validate, review
<1> QED
  BY <1>1, <1>2, <1>4

\* The plan of a call belongs to its client, and to nobody else.
LEMMA PlanClaimed ==
  ASSUME GInv, NEW c \in Clients, call[c].step # "idle"
  PROVE  /\ call[c].plan \in Plans /\ call[c].plan \in Claims(c) /\ call[c].plan \in used
         /\ \A d \in Clients : d # c => call[c].plan \notin Claims(d)
<1>1. call[c].plan \in Plans
  BY CallFacts DEF GInv
<1>2. call[c].plan \in Claims(c)
  BY <1>1 DEF GInv, WorkInv, Works, Claims
<1> QED
  BY <1>1, <1>2 DEF GInv, OwnInv

\* A handler of client c ends, and what it did is about plan p0.
LEMMA HandlerEnds ==
  ASSUME GInv, FInv', NEW c \in Clients, NEW p0 \in Plans, p0 \in Claims(c),
         call' = [call EXCEPT ![c] = Idle], UNCHANGED used,
         \A d \in Clients : d # c => suggested'[d] = suggested[d],
         \A p \in Plans : p # p0 => /\ in_memory'[p] = in_memory[p]
                                    /\ codes'[p] = codes[p] /\ commits'[p] = commits[p],
         CacheInv',
         in_memory'[p0] # NoState => Recorded(p0, in_memory'[p0], codes'[p0], commits'[p0]),
         MadeForIt(codes'[p0], commits'[p0]), InOrder(p0, commits'[p0]),
         PlansOf(suggested'[c]) \subseteq Claims(c),
         \A p \in PlansOf(suggested'[c]) : in_memory'[p] # NoState =>
           Fits(suggested'[c], in_memory'[p], codes'[p], commits'[p])
  PROVE  GInv'
<1>1. /\ call \in [Clients -> Calls]
      /\ OwnInv /\ FreshInv /\ CacheInv /\ RecordInv /\ DoneInv /\ FitsInv /\ WorkInv
  BY DEF GInv, FInv, TypeOK
<1>2. /\ call'[c].step = "idle"
      /\ \A d \in Clients : d # c => call'[d] = call[d]
  BY <1>1 DEF Idle
<1>3. ASSUME NEW d \in Clients
      PROVE  Claims(d)' \subseteq Claims(d) /\ (d # c => p0 \notin Claims(d))
  <2>1. CASE d = c
    BY <1>2, <2>1 DEF Claims
  <2>2. CASE d # c
    BY <1>1, <1>2, <2>2 DEF Claims, OwnInv
  <2> QED
    BY <2>1, <2>2
<1>4. OwnInv'
  BY <1>1, <1>3 DEF OwnInv
<1>5. FreshInv'
  <2>1. p0 \in used
    BY <1>1 DEF OwnInv
  <2>2. ASSUME NEW p \in Plans, p # p0
        PROVE  Traceless(p)' <=> Traceless(p)
    BY <2>2 DEF Traceless
  <2>3. ASSUME NEW p \in Plans, p \notin used'
        PROVE  Traceless(p)'
    BY <1>1, <2>1, <2>2, <2>3 DEF FreshInv
  <2>4. ASSUME NEW d \in Clients, call'[d].step = "plan"
        PROVE  suggested'[d] = DataStatus /\ Traceless(call[d].plan)'
    <3>1. d # c /\ call'[d] = call[d] /\ call[d].step = "plan"
      BY <1>2, <2>4
    <3>2. call[d].plan \in Plans /\ call[d].plan \in Claims(d)
      BY <3>1, PlanClaimed
    <3>3. call[d].plan # p0
      BY <1>3, <3>1, <3>2
    <3>4. suggested[d] = DataStatus /\ Traceless(call[d].plan)
      BY <1>1, <3>1 DEF FreshInv
    <3> DEFINE q == call[d].plan
    <3>5. in_memory'[q] = NoState /\ codes'[q] = <<>> /\ commits'[q] = <<>>
      BY <3>2, <3>3, <3>4 DEF Traceless
    <3> QED
      BY <3>1, <3>4, <3>5 DEF Traceless
  <2> QED
    BY <2>3, <2>4 DEF FreshInv, Traceless
<1>6. RecordInv'
  BY <1>1 DEF RecordInv
<1>7. DoneInv'
  BY <1>1 DEF DoneInv
<1>8. FitsInv'
  <2> SUFFICES ASSUME NEW d \in Clients, NEW p \in PlansOf(suggested'[d]), in_memory'[p] # NoState
               PROVE  Fits(suggested'[d], in_memory'[p], codes'[p], commits'[p])
    BY DEF FitsInv
  <2>1. CASE d = c
    BY <2>1
  <2>2. CASE d # c
    <3>1. suggested'[d] = suggested[d] /\ p \in Plans /\ p \in Claims(d)
      BY <2>2 DEF PlansOf, Claims
    <3>2. p # p0
      BY <1>3, <2>2, <3>1
    <3> QED
      BY <1>1, <3>1, <3>2 DEF FitsInv
  <2> QED
    BY <2>1, <2>2
<1>9. WorkInv'
  <2> SUFFICES ASSUME NEW d \in Clients, call'[d].step \notin {"idle", "plan"}
               PROVE  Works(call'[d], suggested'[d], in_memory'[call'[d].plan],
                            commits'[call'[d].plan])
    BY DEF WorkInv
  <2>1. d # c /\ call'[d] = call[d]
    BY <1>2
  <2>2. call[d].plan \in Plans /\ call[d].plan # p0
    BY <1>3, <2>1, PlanClaimed
  <2>3. Works(call[d], suggested[d], in_memory[call[d].plan], commits[call[d].plan])
    BY <1>1, <2>1 DEF WorkInv
  <2> QED
    BY <2>1, <2>2, <2>3
<1> QED
  BY <1>4, <1>5, <1>6, <1>7, <1>8, <1>9 DEF GInv, GuidedAlone

\* A handler of client c begins to wait.
LEMMA HandlerWaits ==
  ASSUME GInv, FInv', NEW c \in Clients, NEW handler, call' = [call EXCEPT ![c] = handler],
         UNCHANGED <<storeVars, suggested, codes, commits>>,
         OwnInv', used \subseteq used',
         handler.step = "plan" => suggested[c] = DataStatus /\ Traceless(handler.plan),
         handler.step \notin {"idle", "plan"} =>
           Works(handler, suggested[c], in_memory[handler.plan], commits[handler.plan])
  PROVE  GInv'
<1>1. /\ call \in [Clients -> Calls]
      /\ FreshInv /\ CacheInv /\ RecordInv /\ DoneInv /\ FitsInv /\ WorkInv
  BY DEF GInv, FInv, TypeOK
<1>2. /\ call'[c] = handler
      /\ \A d \in Clients : d # c => call'[d] = call[d]
  BY <1>1
<1>3. FreshInv'
  <2>1. ASSUME NEW p PROVE Traceless(p)' <=> Traceless(p)
    BY DEF Traceless, storeVars
  <2>2. \A p \in Plans : p \notin used' => Traceless(p)'
    BY <1>1, <2>1 DEF FreshInv
  <2>3. ASSUME NEW d \in Clients, call'[d].step = "plan"
        PROVE  suggested'[d] = DataStatus /\ Traceless(call[d].plan)'
    <3>1. CASE d = c
      <4>1. Traceless(handler.plan) /\ suggested[c] = DataStatus
        BY <1>2, <2>3, <3>1
      <4> QED
        BY <1>2, <3>1, <4>1 DEF Traceless, storeVars
    <3>2. CASE d # c
      BY <1>1, <1>2, <2>3, <3>2 DEF FreshInv, Traceless, storeVars
    <3> QED
      BY <3>1, <3>2
  <2> QED
    BY <2>2, <2>3 DEF FreshInv
<1>4. CacheInv' /\ RecordInv' /\ DoneInv' /\ FitsInv'
  BY <1>1 DEF CacheInv, RecordInv, DoneInv, FitsInv, storeVars
<1>5. WorkInv'
  <2> SUFFICES ASSUME NEW d \in Clients, call'[d].step \notin {"idle", "plan"}
               PROVE  Works(call'[d], suggested'[d], in_memory'[call'[d].plan],
                            commits'[call'[d].plan])
    BY DEF WorkInv
  <2>1. CASE d = c
    BY <1>2, <2>1 DEF storeVars
  <2>2. CASE d # c
    BY <1>1, <1>2, <2>2 DEF WorkInv, storeVars
  <2> QED
    BY <2>1, <2>2
<1> QED
  BY <1>3, <1>4, <1>5 DEF GInv, GuidedAlone

LEMMA PlannedState ==
  ASSUME NEW p \in Plans, NEW state, NEW made, NEW done, Recorded(p, state, made, done)
  PROVE  /\ state # NoState /\ state.subtasks \in Seq(SubtaskIds) /\ state.subtasks # <<>>
         /\ \A i \in 1..Len(state.subtasks) : state.subtasks[i] \in IdsOf(p)
<1>1. state.subtasks \in PlanChoices[p]
  BY DEF Recorded
<1>2. state.subtasks \in Seq(SubtaskIds) /\ state.subtasks # <<>>
  BY <1>1, FacadeAssumption
<1>3. NoState.subtasks = <<>>
  BY DEF NoState, NewState
<1>4. \A i \in 1..Len(state.subtasks) : state.subtasks[i] \in IdsOf(p)
  BY <1>1 DEF IdsOf
<1> QED
  BY <1>2, <1>3, <1>4

\* An answer, after which the state in memory is the one that was in hand.
LEMMA AnswerKeeps ==
  ASSUME GInv, FInv', NEW c \in Clients, call[c].step # "idle", NEW p0, p0 = call[c].plan,
         NEW state, NEW next_action, Answer(c, state, next_action),
         \A p \in Plans : p # p0 => codes'[p] = codes[p] /\ commits'[p] = commits[p],
         PlansOf(next_action) \subseteq {p0},
         Recorded(p0, state, codes'[p0], commits'[p0]),
         MadeForIt(codes'[p0], commits'[p0]), InOrder(p0, commits'[p0]),
         Fits(next_action, state, codes'[p0], commits'[p0])
  PROVE  GInv'
<1>1. /\ GuidedAlone /\ CacheInv
      /\ in_memory \in [Plans -> State] /\ subtask_to_plan \in [SubtaskIds -> Plans \cup {"none"}]
      /\ suggested \in [Clients -> Request \cup {DataStatus}]
  BY DEF GInv, FInv, TypeOK
<1>2. p0 \in Plans /\ p0 \in Claims(c)
  BY PlanClaimed
<1>3. /\ in_memory' = [in_memory EXCEPT ![p0] = state]
      /\ subtask_to_plan' = [s \in SubtaskIds |->
           IF \E i \in 1..Len(state.subtasks) : state.subtasks[i] = s THEN p0
           ELSE subtask_to_plan[s]]
      /\ call' = [call EXCEPT ![c] = Idle] /\ UNCHANGED used
      /\ suggested' = [suggested EXCEPT ![c] = next_action]
  BY <1>1 DEF Answer, Save, save_state, GuidedAlone
<1>4. /\ in_memory'[p0] = state
      /\ \A p \in Plans : p # p0 => in_memory'[p] = in_memory[p]
      /\ suggested'[c] = next_action
      /\ \A d \in Clients : d # c => suggested'[d] = suggested[d]
  BY <1>1, <1>2, <1>3
<1>5. /\ state # NoState
      /\ \A i \in 1..Len(state.subtasks) : state.subtasks[i] \in IdsOf(p0)
  BY <1>2, PlannedState
<1>6. CacheInv'
  <2> SUFFICES ASSUME NEW s \in SubtaskIds, subtask_to_plan'[s] # "none"
               PROVE  /\ s \in IdsOf(subtask_to_plan'[s])
                      /\ in_memory'[subtask_to_plan'[s]] # NoState
    BY DEF CacheInv, IdsOf
  <2>1. CASE \E i \in 1..Len(state.subtasks) : state.subtasks[i] = s
    BY <1>3, <1>4, <1>5, <2>1
  <2>2. CASE ~\E i \in 1..Len(state.subtasks) : state.subtasks[i] = s
    <3>1. subtask_to_plan'[s] = subtask_to_plan[s] /\ subtask_to_plan[s] \in Plans
      BY <1>1, <1>3, <2>2
    <3> QED
      BY <1>1, <1>4, <1>5, <3>1 DEF CacheInv
  <2> QED
    BY <2>1, <2>2
<1>7. PlansOf(suggested'[c]) \subseteq Claims(c)
  BY <1>2, <1>4
<1>8. \A p \in PlansOf(suggested'[c]) : in_memory'[p] # NoState =>
        Fits(suggested'[c], in_memory'[p], codes'[p], commits'[p])
  BY <1>4
<1>9. \A p \in Plans : p # p0 => /\ in_memory'[p] = in_memory[p]
                                 /\ codes'[p] = codes[p] /\ commits'[p] = commits[p]
  BY <1>4
<1>10. in_memory'[p0] # NoState => Recorded(p0, in_memory'[p0], codes'[p0], commits'[p0])
  BY <1>4
<1>11. call' = [call EXCEPT ![c] = Idle] /\ UNCHANGED used
  BY <1>3
<1> QED
  BY <1>2, <1>4, <1>6, <1>7, <1>8, <1>9, <1>10, <1>11, HandlerEnds

\* An error, after which at most one more commit is there.
LEMMA ErrorKeeps ==
  ASSUME GInv, FInv', NEW c \in Clients, call[c].step # "idle", NEW p0, p0 = call[c].plan,
         AnswerError(c),
         \A p \in Plans : p # p0 => commits'[p] = commits[p],
         in_memory[p0] # NoState => Recorded(p0, in_memory[p0], codes[p0], commits'[p0]),
         MadeForIt(codes[p0], commits'[p0]), InOrder(p0, commits'[p0]),
         p0 \in PlansOf(suggested[c]) /\ in_memory[p0] # NoState =>
           Fits(suggested[c], in_memory[p0], codes[p0], commits'[p0])
  PROVE  GInv'
<1>1. CacheInv /\ FitsInv
  BY DEF GInv
<1>2. p0 \in Plans /\ p0 \in Claims(c)
  BY PlanClaimed
<1>3. /\ call' = [call EXCEPT ![c] = Idle]
      /\ UNCHANGED <<in_memory, subtask_to_plan, suggested, used, codes>>
  BY DEF AnswerError, storeVars
<1>4. CacheInv'
  BY <1>1, <1>3 DEF CacheInv
<1>5. PlansOf(suggested'[c]) \subseteq Claims(c)
  BY <1>3 DEF Claims
<1>6. ASSUME NEW p \in PlansOf(suggested'[c]), in_memory'[p] # NoState
      PROVE  Fits(suggested'[c], in_memory'[p], codes'[p], commits'[p])
  <2>1. p \in Plans /\ p \in PlansOf(suggested[c])
    BY <1>3, <1>6 DEF PlansOf
  <2>2. CASE p = p0
    BY <1>3, <1>6, <2>1, <2>2
  <2>3. CASE p # p0
    BY <1>1, <1>3, <1>6, <2>1, <2>3 DEF FitsInv
  <2> QED
    BY <2>2, <2>3
<1> QED
  BY <1>2, <1>3, <1>4, <1>5, <1>6, HandlerEnds

LEMMA PlainError ==
  ASSUME GInv, FInv', NEW c \in Clients, call[c].step # "idle", AnswerError(c),
         UNCHANGED commits
  PROVE  GInv'
<1> DEFINE p0 == call[c].plan
<1>1. p0 \in Plans
  BY PlanClaimed
<1>2. /\ in_memory[p0] # NoState => Recorded(p0, in_memory[p0], codes[p0], commits[p0])
      /\ MadeForIt(codes[p0], commits[p0]) /\ InOrder(p0, commits[p0])
      /\ p0 \in PlansOf(suggested[c]) /\ in_memory[p0] # NoState =>
           Fits(suggested[c], in_memory[p0], codes[p0], commits[p0])
  BY <1>1 DEF GInv, RecordInv, DoneInv, FitsInv
<1> HIDE DEF p0
<1>3. p0 = call[c].plan
  BY DEF p0
<1> QED
  BY <1>2, <1>3, ErrorKeeps

-----------------------------------------------------------------------------
(***************************************************************************)
(* The guided handlers' first steps                                        *)
(***************************************************************************)

LEMMA GuidedPlan == ASSUME GInv, FInv', NEW c \in Clients, CallPlan(c) PROVE GInv'
<1>1. PICK plan \in Plans \ used :
        used' = used \cup {plan} /\ Await(c, "plan", DataStatus, plan, NoState)
  BY DEF CallPlan
<1>2. /\ GuidedAlone /\ OwnInv /\ FreshInv /\ call \in [Clients -> Calls]
      /\ suggested[c] = DataStatus
  BY DEF CallPlan, GInv, GuidedAlone, FInv, TypeOK
<1> DEFINE handler == [step |-> "plan", request |-> DataStatus, plan |-> plan, state |-> NoState]
<1>3. /\ call' = [call EXCEPT ![c] = handler]
      /\ UNCHANGED <<storeVars, suggested, codes, commits>>
  BY <1>1 DEF Await, gitVars
<1>4. handler.step = "plan" /\ handler.plan = plan
  OBVIOUS
<1> HIDE DEF handler
<1>5. Traceless(plan)
  BY <1>1, <1>2 DEF FreshInv
<1>6. OwnInv'
  <2>1. Claims(c)' = {plan}
    <3>1. PlansOf(suggested'[c]) = {}
      BY <1>2, <1>3, <1>1, OnePlan
    <3>2. call'[c] = handler
      BY <1>2, <1>3
    <3> QED
      BY <1>1, <1>4, <3>1, <3>2 DEF Claims
  <2>2. ASSUME NEW d \in Clients, d # c
        PROVE  Claims(d)' = Claims(d) /\ plan \notin Claims(d)
    <3>1. call'[d] = call[d] /\ suggested'[d] = suggested[d]
      BY <1>2, <1>3, <2>2
    <3> QED
      BY <1>1, <1>2, <2>2, <3>1 DEF Claims, OwnInv
  <2> QED
    BY <1>1, <1>2, <2>1, <2>2 DEF OwnInv
<1>7. used \subseteq used'
  BY <1>1
<1> QED
  BY <1>2, <1>3, <1>4, <1>5, <1>6, <1>7, HandlerWaits

\* A handler other than plan's takes no new plan.
LEMMA GuidedWait ==
  ASSUME GInv, FInv', NEW c \in Clients, NEW step, NEW request, NEW plan, NEW state,
         Await(c, step, request, plan, state), UNCHANGED used,
         step \notin {"idle", "plan"},
         Works([step |-> step, request |-> request, plan |-> plan, state |-> state],
               suggested[c], in_memory[plan], commits[plan])
  PROVE  GInv'
<1> DEFINE handler == [step |-> step, request |-> request, plan |-> plan, state |-> state]
<1>1. /\ call' = [call EXCEPT ![c] = handler]
      /\ UNCHANGED <<storeVars, suggested, codes, commits>>
  BY DEF Await, gitVars
<1>2. handler.step = step /\ handler.plan = plan
  OBVIOUS
<1>3. Works(handler, suggested[c], in_memory[plan], commits[plan])
  OBVIOUS
<1> HIDE DEF handler
<1>4. call \in [Clients -> Calls] /\ OwnInv
  BY DEF GInv, FInv, TypeOK
<1>5. ASSUME NEW d \in Clients PROVE Claims(d)' \subseteq Claims(d)
  <2>1. CASE d = c
    BY <1>1, <1>2, <1>4, <2>1 DEF Claims
  <2>2. CASE d # c
    BY <1>1, <1>4, <2>2 DEF Claims
  <2> QED
    BY <2>1, <2>2
<1>6. OwnInv'
  BY <1>4, <1>5 DEF OwnInv
<1> QED
  BY <1>1, <1>2, <1>3, <1>6, HandlerWaits

LEMMA GuidedSubtask == ASSUME GInv, FInv', NEW c \in Clients, CallOnSubtask(c) PROVE GInv'
<1>1. GuidedAlone /\ FInv /\ RecordInv /\ FitsInv
  BY DEF GInv
<1> DEFINE told == suggested[c]
           p == told.plan
           mem == in_memory[p]
<1>2. /\ told.tool \in {"gather", "generate"} /\ p \in Plans /\ UNCHANGED used
      /\ \E i \in 1..Len(mem.subtasks) :
           /\ mem.subtasks[i] = told.subtask
           /\ Await(c, told.tool, told, p, [mem EXCEPT !.current_subtask_idx = i])
  BY <1>1 DEF CallOnSubtask, Requests, load_state, GuidedAlone
<1>3. PICK i \in 1..Len(mem.subtasks) :
        /\ mem.subtasks[i] = told.subtask
        /\ Await(c, told.tool, told, p, [mem EXCEPT !.current_subtask_idx = i])
  BY <1>2
<1>4. p \in PlansOf(told)
  BY <1>2 DEF PlansOf
<1>5. mem # NoState
  BY <1>3 DEF NoState, NewState
<1>6. /\ Recorded(p, mem, codes[p], commits[p]) /\ Fits(told, mem, codes[p], commits[p])
      /\ mem.subtasks \in PlanChoices[p]
  BY <1>1, <1>2, <1>4, <1>5 DEF RecordInv, FitsInv, Recorded
<1>7. /\ mem \in State /\ Len(mem.subtasks) \in Nat
      /\ mem.current_subtask_idx \in 1..Len(mem.subtasks) /\ Len(commits[p]) \in Nat
  <2>1. Sound(Len(codes[p]), mem) /\ commits[p] \in Seq([subtask : SubtaskIds, code : Nat])
    BY <1>1, <1>2 DEF FInv, StoredInv, TypeOK
  <2>2. mem.subtasks \in Seq(SubtaskIds) /\ mem.subtasks # <<>>
    BY <1>2, <1>6, PlannedState
  <2>3. Len(commits[p]) \in Nat
    BY <2>1
  <2> QED
    BY <2>1, <2>2, <2>3 DEF Sound
<1>8. \A j, k \in 1..Len(mem.subtasks) : mem.subtasks[j] = mem.subtasks[k] => j = k
  BY <1>1, <1>2, <1>6 DEF GuidedAlone
<1> DEFINE new == [mem EXCEPT !.current_subtask_idx = i]
           handler == [step |-> told.tool, request |-> told, plan |-> p, state |-> new]
<1>11. /\ handler.step = told.tool /\ handler.request = told
       /\ handler.plan = p /\ handler.state = new
  OBVIOUS
<1>9. CASE told.tool = "gather"
  <2>1. i = Len(commits[p]) + 1
    <3>1. /\ Len(commits[p]) < Len(mem.subtasks)
          /\ mem.subtasks[Len(commits[p]) + 1] = told.subtask
      BY <1>6, <1>9 DEF Fits
    <3>2. Len(commits[p]) + 1 \in 1..Len(mem.subtasks)
      <4> DEFINE n == Len(commits[p])
                 m == Len(mem.subtasks)
      <4>1. n \in Nat /\ m \in Nat /\ n < m
        BY <1>7, <3>1
      <4> HIDE DEF n, m
      <4>2. n + 1 \in 1..m
        BY <4>1
      <4> QED
        BY <4>2 DEF n, m
    <3> QED
      BY <1>3, <1>8, <3>1, <3>2
  <2>2. Works(handler, told, mem, commits[p])
    <3>1. new = [mem EXCEPT !.current_subtask_idx = Len(commits[p]) + 1]
      BY <2>1
    <3> HIDE DEF handler, new, mem, told
    <3> QED
      BY <1>4, <1>5, <1>9, <1>11, <3>1 DEF Works
  <2> QED
    BY <1>2, <1>3, <1>9, <2>2, GuidedWait
<1>10. CASE told.tool = "generate"
  <2>1. i = mem.current_subtask_idx
    BY <1>3, <1>6, <1>7, <1>8, <1>10 DEF Fits, current_subtask
  <2>2. new = mem
    BY <1>7, <2>1 DEF State
  <2>3. Works(handler, told, mem, commits[p])
    BY <1>4, <1>5, <1>10, <2>2 DEF Works
  <2> QED
    BY <1>2, <1>3, <1>10, <2>3, GuidedWait
<1> QED
  BY <1>2, <1>9, <1>10

LEMMA GuidedArtifact == ASSUME GInv, FInv', NEW c \in Clients, CallOnArtifact(c) PROVE GInv'
<1>1. GuidedAlone /\ FInv /\ CacheInv
  BY DEF GInv
<1> DEFINE told == suggested[c]
           p == subtask_to_plan[told.subtask]
           mem == in_memory[p]
<1>2. /\ told.tool \in {"validate", "review"} /\ p # "none" /\ UNCHANGED used
      /\ Await(c, told.tool, told, p, mem)
  BY <1>1 DEF CallOnArtifact, Requests, load_state, GuidedAlone
<1>3. told \in Request
  BY <1>1, <1>2 DEF FInv, TypeOK, DataStatus
<1>4. told.subtask \in SubtaskIds /\ p \in Plans
  BY <1>1, <1>2, <1>3 DEF Request, FInv, TypeOK
<1>5. p \in PlansOf(told) /\ mem # NoState
  BY <1>1, <1>2, <1>4 DEF CacheInv, PlansOf
<1>6. Works([step |-> told.tool, request |-> told, plan |-> p, state |-> mem], told, mem, commits[p])
  BY <1>2, <1>5 DEF Works
<1> QED
  BY <1>2, <1>6, GuidedWait

-----------------------------------------------------------------------------
(***************************************************************************)
(* The guided handlers' last steps                                         *)
(***************************************************************************)

\* What a handler at work may rely on.
LEMMA WorkFacts ==
  ASSUME GInv, NEW c \in Clients, call[c].step \notin {"idle", "plan"},
         NEW p, p = call[c].plan, NEW mem, mem = in_memory[p], NEW told, told = suggested[c]
  PROVE  /\ p \in Plans /\ mem \in State /\ Sound(Len(codes[p]), mem)
         /\ codes[p] \in Seq(SubtaskIds)
         /\ commits[p] \in Seq([subtask : SubtaskIds, code : Nat])
         /\ Recorded(p, mem, codes[p], commits[p])
         /\ MadeForIt(codes[p], commits[p]) /\ InOrder(p, commits[p])
         /\ Fits(told, mem, codes[p], commits[p])
         /\ Works(call[c], told, mem, commits[p])
         /\ mem.subtasks \in PlanChoices[p] /\ mem.subtasks \in Seq(SubtaskIds)
         /\ mem.current_subtask_idx \in 1..Len(mem.subtasks)
         /\ current_subtask(mem) \in IdsOf(p)
         /\ \A i \in 1..Len(mem.subtasks) : mem.subtasks[i] \in IdsOf(p)
<1>1. p \in Plans
  BY PlanClaimed
<1>2. Works(call[c], told, mem, commits[p])
  BY DEF GInv, WorkInv
<1>3. p \in PlansOf(told) /\ mem # NoState
  BY <1>2 DEF Works
<1>4. Fits(told, mem, codes[p], commits[p]) /\ Recorded(p, mem, codes[p], commits[p])
        /\ MadeForIt(codes[p], commits[p]) /\ InOrder(p, commits[p])
  BY <1>1, <1>3 DEF GInv, FitsInv, RecordInv, DoneInv
<1>5. Sound(Len(codes[p]), mem) /\ codes[p] \in Seq(SubtaskIds)
        /\ commits[p] \in Seq([subtask : SubtaskIds, code : Nat])
  BY <1>1 DEF GInv, FInv, StoredInv, TypeOK
<1>6. /\ mem.subtasks \in PlanChoices[p] /\ mem.subtasks \in Seq(SubtaskIds)
      /\ mem.subtasks # <<>>
      /\ \A i \in 1..Len(mem.subtasks) : mem.subtasks[i] \in IdsOf(p)
  <2>1. mem.subtasks \in PlanChoices[p]
    BY <1>4 DEF Recorded
  <2>2. /\ mem.subtasks \in Seq(SubtaskIds) /\ mem.subtasks # <<>>
        /\ \A i \in 1..Len(mem.subtasks) : mem.subtasks[i] \in IdsOf(p)
    BY <1>1, <1>4, PlannedState
  <2> QED
    BY <2>1, <2>2
<1>7. mem \in State /\ mem.current_subtask_idx \in 1..Len(mem.subtasks)
  BY <1>5, <1>6 DEF Sound
<1> QED
  BY <1>1, <1>2, <1>4, <1>5, <1>6, <1>7 DEF current_subtask

\* Recorded looks at three fields of a state only.
LEMMA RecordedAlike ==
  ASSUME NEW p, NEW state, NEW new, NEW made, NEW done, Recorded(p, state, made, done),
         new.subtasks = state.subtasks, new.iterations = state.iterations,
         new.current_subtask_idx = state.current_subtask_idx
  PROVE  Recorded(p, new, made, done)
BY DEF Recorded

LEMMA GuidedPlanDone == ASSUME GInv, FInv', NEW c \in Clients, PlanDone(c) PROVE GInv'
<1>1. GuidedAlone /\ FreshInv
  BY DEF GInv
<1> DEFINE p == call[c].plan
<1>2. call[c].step = "plan" /\ p \in Plans /\ UNCHANGED <<codes, commits>>
  BY PlanClaimed DEF PlanDone, gitVars
<1>3. PICK ids \in PlanChoices[p] : Answer(c, NewState(ids), after_plan(p, NewState(ids)))
  BY DEF PlanDone
<1>4. codes[p] = <<>> /\ commits[p] = <<>>
  BY <1>1, <1>2 DEF FreshInv, Traceless
<1>5. ids \in Seq(SubtaskIds) /\ ids # <<>> /\ Len(ids) \in Nat /\ Len(ids) > 0
  BY <1>2, <1>3, FacadeAssumption
<1> DEFINE new == NewState(ids)
<1>6. new.subtasks = ids /\ new.current_subtask_idx = 1 /\ new.iterations = <<>>
  BY DEF NewState
<1> HIDE DEF new
<1>7. Recorded(p, new, codes'[p], commits'[p])
  BY <1>2, <1>3, <1>4, <1>6 DEF Recorded
<1>8. MadeForIt(codes'[p], commits'[p]) /\ InOrder(p, commits'[p])
  BY <1>2, <1>4 DEF MadeForIt, InOrder
<1>9. after_plan(p, new) = gather(p, ids[1])
  BY <1>6 DEF after_plan
<1>10. PlansOf(gather(p, ids[1])) = {p}
  BY <1>1, <1>2, OnePlan
<1>11. Fits(gather(p, ids[1]), new, codes'[p], commits'[p])
  BY <1>2, <1>4, <1>5, <1>6 DEF Fits, gather
<1>12. Answer(c, new, gather(p, ids[1]))
  BY <1>3, <1>9 DEF new
<1> HIDE DEF p
<1>13. p = call[c].plan /\ call[c].step # "idle"
  BY <1>2 DEF p
<1> QED
  BY <1>2, <1>7, <1>8, <1>10, <1>11, <1>12, <1>13, AnswerKeeps

LEMMA GuidedGatherDone == ASSUME GInv, FInv', NEW c \in Clients, GatherDone(c) PROVE GInv'
<1> DEFINE p == call[c].plan
           mem == in_memory[p]
           told == suggested[c]
           new == call[c].state
<1>1. /\ call[c].step = "gather" /\ UNCHANGED <<codes, commits>>
      /\ Answer(c, new, after_gather(p, call[c].request.subtask))
  BY DEF GatherDone, gitVars
<1>2. /\ p \in Plans /\ mem \in State /\ Recorded(p, mem, codes[p], commits[p])
      /\ commits[p] \in Seq([subtask : SubtaskIds, code : Nat])
      /\ MadeForIt(codes[p], commits[p]) /\ InOrder(p, commits[p])
      /\ Fits(told, mem, codes[p], commits[p]) /\ Works(call[c], told, mem, commits[p])
  BY <1>1, WorkFacts
<1>3. /\ new = [mem EXCEPT !.current_subtask_idx = Len(commits[p]) + 1]
      /\ told.tool = "gather" /\ call[c].request = told
  BY <1>1, <1>2 DEF Works
<1>4. Len(commits[p]) \in Nat
  BY <1>2
<1>5. /\ new.subtasks = mem.subtasks /\ new.iterations = mem.iterations
      /\ new.current_subtask_idx = Len(commits[p]) + 1
  BY <1>2, <1>3 DEF State
<1>6. mem.subtasks[Len(commits[p]) + 1] = told.subtask
  BY <1>2, <1>3 DEF Fits
<1> HIDE DEF new, mem, p, told
<1>7. Recorded(p, new, codes'[p], commits'[p])
  BY <1>1, <1>2, <1>4, <1>5 DEF Recorded
<1> DEFINE next_action == generate(p, told.subtask, 1)
<1>8. Fits(next_action, new, codes'[p], commits'[p])
  BY <1>5, <1>6 DEF Fits, generate, current_subtask
<1>9. PlansOf(next_action) = {p}
  BY <1>2, OnePlan DEF GInv
<1>10. Answer(c, new, next_action)
  BY <1>1, <1>3 DEF after_gather
<1> HIDE DEF next_action
<1>11. p = call[c].plan /\ call[c].step # "idle"
  BY <1>1 DEF p
<1> QED
  BY <1>1, <1>2, <1>7, <1>8, <1>9, <1>10, <1>11, AnswerKeeps

\* code_node numbers the attempt on and leaves the rest.
LEMMA CodeFields ==
  ASSUME NEW state \in State, NEW n \in Nat
  PROVE  /\ code_node(state, n).subtasks = state.subtasks
         /\ code_node(state, n).current_subtask_idx = state.current_subtask_idx
         /\ code_node(state, n).iterations =
              Append(state.iterations, [number |-> state.current_iteration + 1, code |-> n])
<1> DEFINE attempt == [number |-> state.current_iteration + 1, code |-> n]
           its == Append(state.iterations, attempt)
           number == state.current_iteration + 1
<1>1. code_node(state, n) = [state EXCEPT !.current_iteration = number, !.iterations = its]
  BY DEF code_node
<1> HIDE DEF its, number
<1>2. /\ code_node(state, n).subtasks = state.subtasks
      /\ code_node(state, n).current_subtask_idx = state.current_subtask_idx
      /\ code_node(state, n).iterations = its
  BY <1>1 DEF State
<1> QED
  BY <1>2 DEF its

LEMMA GuidedGenerateDone == ASSUME GInv, FInv', NEW c \in Clients, GenerateDone(c) PROVE GInv'
<1> DEFINE p == call[c].plan
           mem == in_memory[p]
           told == suggested[c]
           made == codes[p]
           done == commits[p]
           new == code_node(mem, Len(made) + 1)
           next_action == validate(told.subtask, last_iteration(new).number)
<1>1. call[c].step = "generate" /\ UNCHANGED commits /\ call[c].step # "idle"
  BY DEF GenerateDone, gitVars
<1>2. /\ p \in Plans /\ mem \in State /\ Recorded(p, mem, made, done)
      /\ made \in Seq(SubtaskIds) /\ Sound(Len(made), mem)
      /\ MadeForIt(made, done) /\ InOrder(p, done)
      /\ Fits(told, mem, made, done) /\ Works(call[c], told, mem, done)
      /\ current_subtask(mem) \in IdsOf(p)
      /\ mem.current_subtask_idx \in 1..Len(mem.subtasks)
      /\ mem.subtasks \in Seq(SubtaskIds)
  BY <1>1, WorkFacts
<1>3. /\ call[c].state = mem /\ call[c].request = told /\ told.tool = "generate"
      /\ current_subtask(mem) = told.subtask
  BY <1>1, <1>2 DEF Works, Fits
<1>4. CASE AnswerError(c)
  BY <1>1, <1>4, PlainError
<1>5. CASE /\ codes' = [codes EXCEPT ![p] = Append(@, current_subtask(new))]
           /\ Answer(c, new, after_generate(told.subtask, last_iteration(new).number))
  <2>1. codes \in [Plans -> Seq(SubtaskIds)] /\ Len(made) \in Nat
    BY <1>2 DEF GInv, FInv, TypeOK
  <2>2. mem.iterations \in Seq(Iteration) /\ mem.current_iteration \in Nat
          /\ Len(mem.iterations) \in Nat
    BY <1>2, StateFields
  <2> DEFINE attempt == [number |-> mem.current_iteration + 1, code |-> Len(made) + 1]
  <2>3. attempt \in Iteration /\ attempt.code = Len(made) + 1
    BY <2>1, <2>2 DEF Iteration
  <2>4. /\ new.subtasks = mem.subtasks /\ new.current_subtask_idx = mem.current_subtask_idx
        /\ new.iterations = Append(mem.iterations, attempt)
    <3> DEFINE n == Len(made) + 1
    <3>1. n \in Nat /\ mem \in State
      BY <1>2, <2>1
    <3> HIDE DEF n, mem
    <3>2. /\ code_node(mem, n).subtasks = mem.subtasks
          /\ code_node(mem, n).current_subtask_idx = mem.current_subtask_idx
          /\ code_node(mem, n).iterations =
               Append(mem.iterations, [number |-> mem.current_iteration + 1, code |-> n])
      BY <3>1, CodeFields
    <3> QED
      BY <3>2 DEF n
  <2>5. current_subtask(new) = told.subtask /\ told.subtask \in SubtaskIds
    <3> HIDE DEF new, mem, told
    <3>1. current_subtask(new) = current_subtask(mem)
      BY <2>4 DEF current_subtask
    <3>2. current_subtask(mem) \in SubtaskIds
      BY <1>2 DEF current_subtask
    <3> QED
      BY <1>3, <3>1, <3>2
  <2> DEFINE made2 == Append(made, told.subtask)
  <2>6. /\ codes'[p] = made2
        /\ \A q \in Plans : q # p => codes'[q] = codes[q]
    BY <1>2, <1>5, <2>1, <2>5
  <2>7. /\ Len(made2) = Len(made) + 1 /\ made2[Len(made) + 1] = told.subtask
        /\ \A i \in 1..Len(made) : made2[i] = made[i]
    <3> HIDE DEF made, told, mem, new
    <3>1. made \in Seq(SubtaskIds) /\ told.subtask \in SubtaskIds
      BY <1>2, <2>5
    <3> QED
      BY <3>1
  <2> HIDE DEF attempt, new, mem
  <2>8. /\ Len(new.iterations) = Len(mem.iterations) + 1
        /\ new.iterations[Len(mem.iterations) + 1] = attempt
        /\ \A i \in 1..Len(mem.iterations) : new.iterations[i] = mem.iterations[i]
    BY <2>2, <2>3, <2>4
  <2> DEFINE m == Len(made)
  <2>9. Len(mem.iterations) = m /\ m \in Nat
    BY <1>2, <2>1 DEF Recorded
  <2> HIDE DEF told, made, done, made2, p, m
  <2>10. Recorded(p, new, made2, done)
    <3>1. Len(made2) = m + 1 /\ Len(new.iterations) = m + 1
      BY <2>7, <2>8, <2>9 DEF m
    <3>2. ASSUME NEW i \in 1..m + 1 PROVE new.iterations[i].code = i
      <4>1. CASE i \in 1..m
        BY <4>1, <1>2, <2>8, <2>9 DEF Recorded, m
      <4>2. CASE i = m + 1
        BY <4>2, <2>3, <2>8, <2>9 DEF m
      <4> QED
        BY <4>1, <4>2, <2>9
    <3> QED
      BY <1>2, <2>4, <3>1, <3>2 DEF Recorded
  <2>11. MadeForIt(made2, done)
    <3> SUFFICES ASSUME NEW k \in 1..Len(done)
                 PROVE  done[k].code \in 1..Len(made2) /\ made2[done[k].code] = done[k].subtask
      BY DEF MadeForIt
    <3>1. done[k].code \in 1..m /\ made[done[k].code] = done[k].subtask
      BY <1>2 DEF MadeForIt, m
    <3> QED
      BY <2>7, <2>9, <3>1 DEF m
  <2>12. Fits(next_action, new, made2, done)
    <3>1. new.iterations # <<>>
      BY <2>8, <2>9
    <3>2. made2[Len(made2)] = told.subtask
      BY <2>7
    <3> QED
      BY <2>5, <3>1, <3>2 DEF Fits, validate
  <2>13. PlansOf(next_action) = {p}
    BY <1>2, <1>3, OnePlan DEF GInv
  <2>14. Answer(c, new, next_action) /\ p = call[c].plan
    BY <1>5 DEF after_generate, p
  <2>15. done = commits'[p] /\ \A q \in Plans : q # p => commits'[q] = commits[q]
    BY <1>1 DEF done
  <2> HIDE DEF next_action
  <2> QED
    BY <1>1, <1>2, <2>6, <2>10, <2>11, <2>12, <2>13, <2>14, <2>15, AnswerKeeps
<1> QED
  BY <1>3, <1>4, <1>5 DEF GenerateDone

LEMMA GuidedValidateDone == ASSUME GInv, FInv', NEW c \in Clients, ValidateDone(c) PROVE GInv'
<1> DEFINE p == call[c].plan
           mem == in_memory[p]
           told == suggested[c]
           made == codes[p]
           done == commits[p]
<1>1. /\ call[c].step = "validate" /\ UNCHANGED <<codes, commits>> /\ call[c].step # "idle"
  BY DEF ValidateDone, gitVars
<1>2. /\ p \in Plans /\ mem \in State /\ Recorded(p, mem, made, done)
      /\ MadeForIt(made, done) /\ InOrder(p, done)
      /\ Fits(told, mem, made, done) /\ Works(call[c], told, mem, done)
      /\ current_subtask(mem) \in IdsOf(p)
  BY <1>1, WorkFacts
<1>3. /\ call[c].state = mem /\ call[c].request = told /\ told.tool = "validate"
      /\ mem.iterations # <<>> /\ current_subtask(mem) = told.subtask
      /\ last_iteration(mem).number = told.iteration /\ made[Len(made)] = told.subtask
  BY <1>1, <1>2 DEF Works, Fits
<1>4. PICK passed \in BOOLEAN :
        Answer(c, validate_node(mem, passed),
               after_validate(p, told.subtask, told.iteration, passed))
  BY <1>3 DEF ValidateDone
<1> DEFINE new == validate_node(mem, passed)
           next_action == after_validate(p, told.subtask, told.iteration, passed)
<1>5. /\ new.subtasks = mem.subtasks /\ new.iterations = mem.iterations
      /\ new.current_subtask_idx = mem.current_subtask_idx
      /\ new.validate_result = [code |-> last_code(mem), passed |-> passed]
  BY <1>2 DEF validate_node, State
<1> HIDE DEF new
<1>6. /\ current_subtask(new) = told.subtask /\ last_iteration(new) = last_iteration(mem)
      /\ last_code(new) = last_code(mem)
  BY <1>3, <1>5 DEF current_subtask, last_iteration, last_code
<1> HIDE DEF mem, told, made, done, p
<1>7. Recorded(p, new, made, done)
  BY <1>2, <1>5, RecordedAlike
<1>8. Fits(next_action, new, made, done) /\ PlansOf(next_action) = {p}
  <2>1. CASE passed
    <3>1. next_action = review(told.subtask, told.iteration)
      BY <2>1 DEF after_validate
    <3>2. PlansOf(next_action) = {p}
      BY <1>2, <1>3, <3>1, OnePlan DEF GInv
    <3>3. new.validate_result = [code |-> last_code(new), passed |-> TRUE]
      BY <1>5, <1>6, <2>1
    <3>4. Fits(review(told.subtask, told.iteration), new, made, done)
      BY <1>3, <1>5, <1>6, <3>3 DEF Fits, review
    <3> QED
      BY <3>1, <3>2, <3>4
  <2>2. CASE ~passed
    <3>1. next_action = generate(p, told.subtask, told.iteration + 1)
      BY <2>2 DEF after_validate
    <3>2. PlansOf(next_action) = {p}
      BY <1>2, <3>1, OnePlan DEF GInv
    <3>3. Fits(generate(p, told.subtask, told.iteration + 1), new, made, done)
      BY <1>6 DEF Fits, generate
    <3> QED
      BY <3>1, <3>2, <3>3
  <2> QED
    BY <2>1, <2>2
<1>9. Answer(c, new, next_action) /\ p = call[c].plan
  BY <1>4 DEF new, p
<1>10. made = codes'[p] /\ done = commits'[p]
  BY <1>1 DEF made, done
<1> HIDE DEF next_action
<1> QED
  BY <1>1, <1>2, <1>7, <1>8, <1>9, <1>10, AnswerKeeps

LEMMA GuidedReviewDone == ASSUME GInv, FInv', NEW c \in Clients, ReviewDone(c) PROVE GInv'
<1> DEFINE p == call[c].plan
           mem == in_memory[p]
           told == suggested[c]
           made == codes[p]
           done == commits[p]
<1>1. call[c].step = "review"
  BY DEF ReviewDone
<1>2. /\ p \in Plans /\ mem \in State /\ Recorded(p, mem, made, done)
      /\ MadeForIt(made, done) /\ InOrder(p, done)
      /\ Fits(told, mem, made, done) /\ Works(call[c], told, mem, done)
  BY <1>1, WorkFacts
<1>3. /\ call[c].state = mem /\ call[c].request = told /\ told.tool = "review"
      /\ mem.iterations # <<>> /\ current_subtask(mem) = told.subtask
      /\ p \in PlansOf(told) /\ mem # NoState
  BY <1>1, <1>2 DEF Works, Fits
<1>4. PICK result \in Reviews(mem) :
        LET state == [mem EXCEPT !.review_result = result] IN
        IF result.decision = "proceed"
        THEN Await(c, "commit", told, p, state) /\ UNCHANGED <<used, calls>>
        ELSE /\ Answer(c, state, after_review(p, told.subtask, told.iteration, state))
             /\ UNCHANGED <<codes, gitVars>>
  BY <1>3 DEF ReviewDone
<1> DEFINE new == [mem EXCEPT !.review_result = result]
<1>5. /\ new.subtasks = mem.subtasks /\ new.iterations = mem.iterations
      /\ new.current_subtask_idx = mem.current_subtask_idx
      /\ new.current_iteration = mem.current_iteration
      /\ new.validate_result = mem.validate_result
      /\ new.commit_result = mem.commit_result
      /\ new.review_result = result
  BY <1>2 DEF State
<1>6. result.code = last_code(mem) /\ result.decision \in {"proceed", "retry", "escalate"}
  BY DEF Reviews
<1>7. CASE result.decision = "proceed"
  <2>1. Await(c, "commit", told, p, new) /\ UNCHANGED used
    BY <1>4, <1>7
  <2> HIDE DEF new, mem, p, told, done
  <2>2. OnlyReviewed(new, mem)
    BY <1>5, <1>6 DEF OnlyReviewed
  <2> DEFINE handler == [step |-> "commit", request |-> told, plan |-> p, state |-> new]
  <2>3. /\ handler.step = "commit" /\ handler.request = told
        /\ handler.plan = p /\ handler.state = new
    OBVIOUS
  <2> HIDE DEF handler
  <2>4. Works(handler, told, mem, done)
    BY <1>3, <2>2, <2>3 DEF Works
  <2>5. Works(handler, suggested[c], in_memory[p], commits[p])
    BY <2>4 DEF told, mem, done
  <2> QED
    BY <2>1, <2>5, GuidedWait DEF handler
<1>8. CASE result.decision # "proceed"
  <2> DEFINE next_action == after_review(p, told.subtask, told.iteration, new)
  <2>1. Answer(c, new, next_action) /\ UNCHANGED <<codes, commits>>
    BY <1>4, <1>8 DEF gitVars
  <2> HIDE DEF new, mem, told, made, done, p
  <2>2. Recorded(p, new, made, done)
    BY <1>2, <1>5, RecordedAlike
  <2>3. current_subtask(new) = told.subtask
    BY <1>3, <1>5 DEF current_subtask
  <2>4. CASE result.decision = "retry"
    <3>1. next_action = generate(p, told.subtask, told.iteration + 1)
      BY <1>5, <2>4 DEF after_review
    <3>2. PlansOf(next_action) = {p}
      BY <1>2, <3>1, OnePlan DEF GInv
    <3>3. Fits(generate(p, told.subtask, told.iteration + 1), new, made, done)
      BY <2>3 DEF Fits, generate
    <3> HIDE DEF next_action
    <3>4. p = call[c].plan /\ made = codes'[p] /\ done = commits'[p] /\ call[c].step # "idle"
      BY <1>1, <2>1 DEF p, made, done
    <3> QED
      BY <1>2, <2>1, <2>2, <3>1, <3>2, <3>3, <3>4, AnswerKeeps
  <2>5. CASE result.decision = "escalate"
    <3>1. next_action = DataStatus
      BY <1>5, <2>5 DEF after_review
    <3>2. PlansOf(next_action) = {}
      BY <1>2, <3>1, OnePlan DEF GInv
    <3>3. Fits(DataStatus, new, made, done)
      BY DEF Fits, DataStatus
    <3> HIDE DEF next_action
    <3>4. p = call[c].plan /\ made = codes'[p] /\ done = commits'[p] /\ call[c].step # "idle"
      BY <1>1, <2>1 DEF p, made, done
    <3> QED
      BY <1>2, <2>1, <2>2, <3>1, <3>2, <3>3, <3>4, AnswerKeeps
  <2> QED
    BY <1>6, <1>8, <2>4, <2>5
<1> QED
  BY <1>7, <1>8

\* One more commit, of the code made last, for the next subtask of the plan.
ReadyToCommit(p, mem, made, done) ==
  /\ p \in Plans
  /\ made \in Seq(SubtaskIds) /\ done \in Seq([subtask : SubtaskIds, code : Nat])
  /\ Recorded(p, mem, made, done) /\ MadeForIt(made, done) /\ InOrder(p, done)
  /\ mem.subtasks \in Seq(SubtaskIds)
  /\ mem.current_subtask_idx \in 1..Len(mem.subtasks)
  /\ Len(done) + 1 = mem.current_subtask_idx
  /\ Len(made) > 0 /\ made[Len(made)] = current_subtask(mem)

Committed(p, mem, made, done) ==
  /\ Recorded(p, mem, made, done) /\ MadeForIt(made, done) /\ InOrder(p, done)
  /\ Len(done) = mem.current_subtask_idx

LEMMA NextCommit ==
  ASSUME NEW p, NEW mem, NEW made, NEW done, ReadyToCommit(p, mem, made, done)
  PROVE  Committed(p, mem, made,
                   Append(done, [subtask |-> current_subtask(mem), code |-> Len(made)]))
<1> DEFINE done2 == Append(done, [subtask |-> current_subtask(mem), code |-> Len(made)])
<1> USE DEF ReadyToCommit
<1> DEFINE C == [subtask : SubtaskIds, code : Nat]
           new == [subtask |-> current_subtask(mem), code |-> Len(made)]
           idx == mem.current_subtask_idx
<1>1. current_subtask(mem) \in SubtaskIds /\ current_subtask(mem) = mem.subtasks[idx]
  BY DEF current_subtask
<1>2. Len(made) \in Nat /\ Len(done) \in Nat /\ idx \in Nat /\ Len(mem.subtasks) \in Nat
  OBVIOUS
<1>3. new \in C /\ new.subtask = mem.subtasks[idx] /\ new.code = Len(made)
  BY <1>1, <1>2
<1>0. done2 = Append(done, new)
  OBVIOUS
<1> HIDE DEF new, C, done2
<1>4. /\ Len(done2) = Len(done) + 1 /\ done2[Len(done) + 1] = new
      /\ \A k \in 1..Len(done) : done2[k] = done[k]
  BY <1>0, <1>3 DEF C
<1>5. Len(done2) = idx /\ done2[idx] = new
        /\ \A k \in 1..idx : k = idx \/ k \in 1..Len(done)
  BY <1>2, <1>4
<1>6. \A k \in 1..Len(done2) : done2[k].subtask = mem.subtasks[k]
  BY <1>3, <1>4, <1>5 DEF Recorded
<1>7. Recorded(p, mem, made, done2)
  BY <1>5, <1>6 DEF Recorded
<1>8. MadeForIt(made, done2)
  <2> SUFFICES ASSUME NEW k \in 1..Len(done2)
               PROVE  done2[k].code \in 1..Len(made) /\ made[done2[k].code] = done2[k].subtask
    BY DEF MadeForIt
  <2>1. CASE k = idx
    BY <2>1, <1>1, <1>2, <1>3, <1>5
  <2>2. CASE k \in 1..Len(done)
    BY <2>2, <1>4 DEF MadeForIt
  <2> QED
    BY <2>1, <2>2, <1>5
<1>9. InOrder(p, done2)
  <2> SUFFICES ASSUME NEW k \in 1..Len(done2)
               PROVE  \A j \in 1..k : j <= Len(mem.subtasks)
                                        /\ done2[j].subtask = mem.subtasks[j]
    BY DEF InOrder, Recorded
  <2>1. Len(done2) \in Nat /\ Len(mem.subtasks) \in Nat /\ Len(done2) <= Len(mem.subtasks)
    BY <1>2, <1>5
  <2>2. \A j \in 1..k : j \in 1..Len(done2) /\ j <= Len(mem.subtasks)
    <3> DEFINE n == Len(done2)
               m == Len(mem.subtasks)
    <3>1. n \in Nat /\ m \in Nat /\ n <= m /\ k \in 1..n
      BY <2>1
    <3> HIDE DEF n, m
    <3>2. \A j \in 1..k : j \in 1..n /\ j <= m
      BY <3>1
    <3> QED
      BY <3>2 DEF n, m
  <2> QED
    BY <1>6, <2>2
<1> QED
  BY <1>5, <1>7, <1>8, <1>9 DEF Committed, done2

\* The code a state knows last is the last one made, and a plan is done up to
\* the subtask a client works on, or with it.
LEMMA LastRecorded ==
  ASSUME NEW p, NEW mem, NEW made, NEW done, Recorded(p, mem, made, done),
         mem.iterations \in Seq(Iteration), mem.iterations # <<>>, made \in Seq(SubtaskIds)
  PROVE  Len(made) > 0 /\ last_code(mem) = Len(made)
<1>1. /\ Len(mem.iterations) = Len(made)
      /\ \A i \in 1..Len(made) : mem.iterations[i].code = i
  BY DEF Recorded
<1>2. Len(mem.iterations) > 0 /\ Len(mem.iterations) \in Nat
  BY EmptySeq, LenProperties
<1>3. last_code(mem) = mem.iterations[Len(mem.iterations)].code
  BY DEF last_code, last_iteration
<1> QED
  BY <1>1, <1>2, <1>3

LEMMA DoneSoFar ==
  ASSUME NEW p, NEW mem, NEW made, NEW done, Recorded(p, mem, made, done)
  PROVE  /\ Len(done) \in {mem.current_subtask_idx - 1, mem.current_subtask_idx}
         /\ \A k \in 1..Len(done) : done[k].subtask = mem.subtasks[k]
BY DEF Recorded

LEMMA GuidedCommitDone == ASSUME GInv, FInv', NEW c \in Clients, CommitDone(c) PROVE GInv'
<1> DEFINE p == call[c].plan
           mem == in_memory[p]
           told == suggested[c]
           made == codes[p]
           done == commits[p]
           hand == call[c].state
           new == [hand EXCEPT !.commit_result = last_code(hand)]
           s == current_subtask(new)
           next_action == after_review(p, told.subtask, told.iteration, new)
<1>1. call[c].step = "commit" /\ call[c].step # "idle"
  BY DEF CommitDone
<1>2. /\ p \in Plans /\ mem \in State /\ Recorded(p, mem, made, done) /\ Sound(Len(made), mem)
      /\ made \in Seq(SubtaskIds) /\ done \in Seq([subtask : SubtaskIds, code : Nat])
      /\ MadeForIt(made, done) /\ InOrder(p, done)
      /\ Fits(told, mem, made, done) /\ Works(call[c], told, mem, done)
      /\ mem.subtasks \in Seq(SubtaskIds)
      /\ mem.current_subtask_idx \in 1..Len(mem.subtasks)
  BY <1>1, WorkFacts
<1>3. /\ OnlyReviewed(hand, mem) /\ call[c].request = told /\ told.tool = "review"
      /\ mem.iterations # <<>> /\ current_subtask(mem) = told.subtask
      /\ made[Len(made)] = told.subtask /\ p \in PlansOf(told) /\ mem # NoState
  BY <1>1, <1>2 DEF Works, Fits
<1>4. hand \in State /\ hand.review_result.decision = "proceed"
  BY <1>1, CallFacts DEF GInv, InHand
<1>5. /\ new.subtasks = mem.subtasks /\ new.iterations = mem.iterations
      /\ new.current_subtask_idx = mem.current_subtask_idx
      /\ new.review_result.decision = "proceed"
  BY <1>3, <1>4 DEF State, OnlyReviewed
<1>6. \/ UNCHANGED gitVars /\ AnswerError(c)
      \/ CreateBranch(p, s) /\ UNCHANGED commits /\ AnswerError(c)
      \/ /\ CreateBranch(p, s)
         /\ commits' = [commits EXCEPT ![p] =
                          Append(@, [subtask |-> s, code |-> last_code(new)])]
         /\ AnswerError(c) \/ (Answer(c, new, next_action) /\ UNCHANGED codes)
  BY <1>3 DEF CommitDone
<1>7. CASE UNCHANGED commits /\ AnswerError(c)
  BY <1>1, <1>7, PlainError
<1>8. CASE /\ CreateBranch(p, s)
           /\ commits' = [commits EXCEPT ![p] =
                            Append(@, [subtask |-> s, code |-> last_code(new)])]
           /\ AnswerError(c) \/ (Answer(c, new, next_action) /\ UNCHANGED codes)
  <2>1. /\ BranchInv /\ commits \in [Plans -> Seq([subtask : SubtaskIds, code : Nat])]
        /\ mem.iterations \in Seq(Iteration)
    BY <1>2, StateFields DEF GInv, FInv, TypeOK
  <2> HIDE DEF new
  <2>2. s = current_subtask(mem) /\ last_code(new) = last_code(mem)
    BY <1>5 DEF current_subtask, last_code, last_iteration
  <2>3. Len(made) > 0 /\ last_code(mem) = Len(made)
    <3> HIDE DEF p, mem, made, done
    <3> QED
      BY <1>2, <1>3, <2>1, LastRecorded
  <2> DEFINE entry == [subtask |-> current_subtask(mem), code |-> Len(made)]
             done2 == Append(done, entry)
  <2>4. commits'[p] = done2 /\ \A q \in Plans : q # p => commits'[q] = commits[q]
    BY <1>2, <1>8, <2>1, <2>2, <2>3
  <2>5. Len(done) + 1 = mem.current_subtask_idx
    <3> DEFINE idx == mem.current_subtask_idx
    <3>1. Len(done) \in {idx - 1, idx} /\ idx \in Nat /\ Len(done) \in Nat
            /\ \A k \in 1..Len(done) : done[k].subtask = mem.subtasks[k]
      <4> HIDE DEF p, mem, made, done
      <4>1. idx \in Nat /\ Len(done) \in Nat
        BY <1>2
      <4> QED
        BY <1>2, <4>1, DoneSoFar
    <3>2. \A k \in 1..Len(done) : <<p, done[k].subtask>> \in branches
      BY <1>2, <2>1 DEF BranchInv
    <3>3. <<p, mem.subtasks[idx]>> \notin branches
      BY <1>8, <2>2 DEF CreateBranch, current_subtask
    <3>4. Len(done) # idx
      <4> SUFFICES ASSUME Len(done) = idx PROVE FALSE
        OBVIOUS
      <4>1. idx \in 1..Len(done)
        BY <1>2
      <4> QED
        BY <3>1, <3>2, <3>3, <4>1
    <3> DEFINE n == Len(done)
    <3>5. n \in Nat /\ idx \in Nat /\ n \in {idx - 1, idx} /\ n # idx
      BY <3>1, <3>4
    <3> HIDE DEF n, idx
    <3>6. n + 1 = idx
      BY <3>5
    <3> QED
      BY <3>6 DEF n, idx
  <2>6. /\ Recorded(p, mem, made, done2) /\ MadeForIt(made, done2) /\ InOrder(p, done2)
        /\ Len(done2) = mem.current_subtask_idx
    <3>1. made[Len(made)] = current_subtask(mem)
      BY <1>3
    <3> HIDE DEF mem, made, done, p, told, hand, s
    <3>2. /\ p \in Plans /\ mem \in State /\ made \in Seq(SubtaskIds)
          /\ done \in Seq([subtask : SubtaskIds, code : Nat])
          /\ Recorded(p, mem, made, done) /\ MadeForIt(made, done) /\ InOrder(p, done)
          /\ mem.subtasks \in Seq(SubtaskIds)
          /\ mem.current_subtask_idx \in 1..Len(mem.subtasks)
      BY <1>2
    <3>3. ReadyToCommit(p, mem, made, done)
      BY <3>2, <2>3, <2>5, <3>1 DEF ReadyToCommit
    <3> QED
      BY <3>3, NextCommit DEF Committed
  <2> HIDE DEF done2, mem, told, done, p, next_action
  <2>7. CASE AnswerError(c)
    <3> USE DEF made
    <3>1. Fits(told, mem, made, done2)
      BY <1>2, <1>3 DEF Fits
    <3>2. p = call[c].plan /\ mem = in_memory[p] /\ told = suggested[c]
      BY DEF p, mem, told
    <3> QED
      BY <1>1, <2>4, <2>6, <2>7, <3>1, <3>2, ErrorKeeps
  <2>8. CASE Answer(c, new, next_action) /\ UNCHANGED codes
    <3>1. Recorded(p, new, made, done2)
      BY <1>5, <2>6, RecordedAlike
    <3>2. PlansOf(next_action) \subseteq {p} /\ Fits(next_action, new, made, done2)
      <4> DEFINE idx == mem.current_subtask_idx
      <4>1. CASE idx + 1 <= Len(mem.subtasks)
        <5>1. next_action = gather(p, mem.subtasks[idx + 1])
          BY <1>5, <4>1 DEF after_review, next_action
        <5>2. PlansOf(next_action) = {p}
          BY <1>2, <5>1, OnePlan DEF GInv
        <5>3. idx < Len(mem.subtasks)
          BY <1>2, <4>1
        <5>4. Fits(gather(p, mem.subtasks[idx + 1]), new, made, done2)
          BY <1>5, <2>6, <5>3 DEF Fits, gather
        <5> QED
          BY <5>1, <5>2, <5>4
      <4>2. CASE ~(idx + 1 <= Len(mem.subtasks))
        <5>1. next_action = DataStatus
          BY <1>5, <4>2 DEF after_review, next_action
        <5>2. PlansOf(next_action) = {}
          BY <1>2, <5>1, OnePlan DEF GInv
        <5>3. Fits(DataStatus, new, made, done2)
          BY DEF Fits, DataStatus
        <5> QED
          BY <5>1, <5>2, <5>3
      <4> QED
        BY <4>1, <4>2
    <3>3. p = call[c].plan /\ made = codes'[p]
      BY <2>8 DEF p
    <3>4. \A q \in Plans : q # p => codes'[q] = codes[q]
      BY <2>8
    <3> HIDE DEF made
    <3> QED
      BY <1>1, <2>4, <2>6, <2>8, <3>1, <3>2, <3>3, <3>4, AnswerKeeps
  <2> QED
    BY <1>8, <2>7, <2>8
<1> QED
  BY <1>6, <1>7, <1>8 DEF gitVars

LEMMA GuidedRestart == ASSUME GInv, FInv', Restart PROVE GInv'
<1>1. /\ in_memory' = [p \in Plans |-> NoState]
      /\ subtask_to_plan' = [s \in SubtaskIds |-> "none"]
      /\ call' = [c \in Clients |-> Idle]
      /\ UNCHANGED <<suggested, used, codes, commits>>
  BY DEF Restart, gitVars
<1>2. \A c \in Clients : call'[c].step = "idle"
  BY <1>1 DEF Idle
<1>3. ASSUME NEW c \in Clients PROVE Claims(c)' \subseteq Claims(c)
  BY <1>1, <1>2 DEF Claims
<1>4. OwnInv'
  BY <1>1, <1>3 DEF GInv, OwnInv
<1>5. FreshInv'
  BY <1>1, <1>2 DEF GInv, FreshInv, Traceless
<1>6. CacheInv'
  BY <1>1 DEF CacheInv
<1>7. RecordInv' /\ FitsInv'
  BY <1>1 DEF RecordInv, FitsInv, PlansOf
<1>8. DoneInv'
  BY <1>1 DEF GInv, DoneInv
<1>9. WorkInv'
  BY <1>2 DEF WorkInv
<1> QED
  BY <1>4, <1>5, <1>6, <1>7, <1>8, <1>9 DEF GInv, GuidedAlone

LEMMA GInvStep == GInv /\ [Next]_vars => GInv'
<1> SUFFICES ASSUME GInv, [Next]_vars PROVE GInv'
  OBVIOUS
<1>1. FInv'
  BY FInvStep DEF GInv
<1>2. CASE UNCHANGED vars
  <2>1. UNCHANGED <<in_memory, subtask_to_plan, call, suggested, used, codes, commits>>
    BY <1>2 DEF vars, storeVars, gitVars
  <2>2. \A c : Claims(c)' = Claims(c)
    BY <2>1 DEF Claims
  <2>3. OwnInv' /\ FreshInv' /\ CacheInv'
    BY <2>1, <2>2 DEF GInv, OwnInv, FreshInv, Traceless, CacheInv
  <2>4. RecordInv' /\ DoneInv' /\ FitsInv' /\ WorkInv'
    BY <2>1 DEF GInv, RecordInv, DoneInv, FitsInv, WorkInv
  <2> QED
    BY <1>1, <2>3, <2>4 DEF GInv, GuidedAlone
<1>3. CASE Restart
  BY <1>1, <1>3, GuidedRestart
<1>4. ASSUME NEW c \in Clients, Handle(c) PROVE GInv'
  BY <1>1, <1>4, GuidedPlan, GuidedSubtask, GuidedArtifact, GuidedPlanDone, GuidedGatherDone,
     GuidedGenerateDone, GuidedValidateDone, GuidedReviewDone, GuidedCommitDone DEF Handle
<1> QED
  BY <1>2, <1>3, <1>4 DEF Next

LEMMA GInvariance == GuidedAlone /\ Spec => []GInv
  BY GuidedInit, GInvStep, PTL DEF Spec

\* Clients that follow next_action commit only code that passed validation,
\* however many there are and whatever fails, as long as states are kept in
\* memory and ids are not shared.
THEOREM GuidedValidated == GuidedAlone /\ Spec => []GuidedCommitsAreValidated
<1>1. GInv => GuidedCommitsAreValidated
  <2> SUFFICES ASSUME GInv, NEW c \in Clients, call[c].step = "commit"
               PROVE  LET state == call[c].state IN
                      /\ state.validate_result = [code |-> last_code(state), passed |-> TRUE]
                      /\ state.review_result.code = last_code(state)
    BY DEF GuidedCommitsAreValidated
  <2> DEFINE mem == in_memory[call[c].plan]
             state == call[c].state
  <2>1. /\ Works(call[c], suggested[c], mem, commits[call[c].plan])
        /\ Fits(suggested[c], mem, codes[call[c].plan], commits[call[c].plan])
    BY WorkFacts
  <2>2. /\ OnlyReviewed(state, mem)
        /\ mem.validate_result = [code |-> last_code(mem), passed |-> TRUE]
    BY <2>1 DEF Works, Fits
  <2>3. last_code(state) = last_code(mem)
    BY <2>2 DEF OnlyReviewed, last_code, last_iteration
  <2> QED
    BY <2>2, <2>3 DEF OnlyReviewed
<1> QED
  BY <1>1, GInvariance, PTL

\* They commit the subtasks in the order of the plan, each once and each with
\* code generated for it.
THEOREM GuidedInOrder == GuidedAlone /\ Spec => []CommitsFollowPlan
<1>1. GInv => CommitsFollowPlan
  BY DEF GInv, DoneInv, MadeForIt, InOrder, CommitsFollowPlan
<1> QED
  BY <1>1, GInvariance, PTL

\* The artifact a client is told to validate or to review is the one the
\* server will look at, unless a restart lost it.
THEOREM GuidedArtifacts == GuidedAlone /\ Spec => []ArtifactIsTheOneMeant
<1>1. GInv => ArtifactIsTheOneMeant
  <2> SUFFICES ASSUME GInv, NEW c \in Clients,
                      suggested[c].tool \in {"validate", "review"},
                      subtask_to_plan[suggested[c].subtask] # "none",
                      NEW state \in load_state(subtask_to_plan[suggested[c].subtask])
               PROVE  /\ state.iterations # <<>>
                      /\ current_subtask(state) = suggested[c].subtask
                      /\ last_iteration(state).number = suggested[c].iteration
    BY DEF ArtifactIsTheOneMeant
  <2> DEFINE told == suggested[c]
             p == subtask_to_plan[told.subtask]
  <2>1. told \in Request
    BY DEF GInv, FInv, TypeOK, DataStatus
  <2>2. told.subtask \in SubtaskIds /\ p \in Plans
    BY <2>1 DEF Request, GInv, FInv, TypeOK
  <2>3. p \in PlansOf(told) /\ in_memory[p] # NoState
    BY <2>2 DEF GInv, CacheInv, PlansOf
  <2>4. state = in_memory[p]
    BY DEF load_state, GInv, GuidedAlone
  <2>5. Fits(told, state, codes[p], commits[p])
    BY <2>3, <2>4 DEF GInv, FitsInv
  <2> QED
    BY <2>5 DEF Fits
<1> QED
  BY <1>1, GInvariance, PTL

\* The state of a plan knows every piece of code that was generated for it and
\* reported to the client.
THEOREM GuidedMemory == GuidedAlone /\ Spec => []NothingForgotten
<1>1. GInv => NothingForgotten
  BY DEF GInv, RecordInv, Recorded, NothingForgotten
<1> QED
  BY <1>1, GInvariance, PTL

=============================================================================
