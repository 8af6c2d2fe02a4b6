--------------------------- MODULE GitServerProofs ---------------------------
(***************************************************************************)
(* What holds of commit flows on one work tree, for any number of flows,   *)
(* files and branches, whichever commands fail, and before or after their  *)
(* effect.                                                                 *)
(***************************************************************************)
EXTENDS GitServer, SequenceTheorems, TLAPS

-----------------------------------------------------------------------------
(* The inductive invariant *)

Underway == {"write", "checkout", "add", "commit", "report", "open_pr"}

\* A flow under way was called with a branch; once it has made it, the branch
\* is there, and HEAD has left main for good.
BranchInv ==
  \A a \in Flows :
    /\ pc[a] \in Steps => args[a].branch \in Branches
    /\ pc[a] \in Underway => refs[args[a].branch] # 0 /\ head # "main"

\* A content belongs in a file: it was there first, or is of a flow that was
\* called for this file.
Own(f, c) ==
  \/ c = commits[1].tree[f]
  \/ c \in Flows /\ pc[c] # "idle" /\ args[c].file = f

WrittenInv ==
  /\ Len(commits) >= 1
  /\ \A f \in Files :
       /\ commits[1].tree[f] \notin Flows
       /\ Own(f, index[f]) /\ Own(f, worktree[f])
       /\ \A k \in 1..Len(commits) : Own(f, commits[k].tree[f])

\* What a flow leaves behind: once it has added its file, its code is staged if
\* it is in the work tree; once it has committed, what is staged of it is on HEAD.
Added(c) == c \in Flows => pc[c] \in {"commit", "report", "open_pr", "done"}
Committed(c) == c \in Flows => pc[c] \in {"report", "open_pr", "done"}

CleanInv ==
  \A f \in Files :
    /\ Added(worktree[f]) => index[f] = worktree[f]
    /\ Committed(index[f]) => tree(head)[f] = index[f]

\* Commit k is the one flow a is to make.
IsCommitOf(a, k) ==
  /\ k \in 2..Len(commits) /\ commits[k].parent \in 1..Len(commits)
  /\ author[k] = a
  /\ commits[k].tree[args[a].file] = a
  /\ \A f \in Changes(k) \ {args[a].file} :
       commits[k].tree[f] \in Flows /\ pc[commits[k].tree[f]] = "failed"

\* How far a flow has come that nobody mixed with.
AloneFlow(a) ==
  /\ pc[a] = "checkout_b" => base[a] = head
  /\ pc[a] \in Underway \cup {"done"} => base[a] # args[a].branch
  /\ pc[a] \in {"write", "checkout", "add", "commit"} => head = args[a].branch
  /\ pc[a] \in {"checkout", "add", "commit"} => worktree[args[a].file] = a
  /\ pc[a] = "commit" => index[args[a].file] = a
  /\ pc[a] = "report" => IsCommitOf(a, refs[head])
  /\ pc[a] \in {"open_pr", "done"} => IsCommitOf(a, sha[a])
  /\ pr[a] \in {NoBranch, base[a]}
  /\ pc[a] # "done" => pr[a] = NoBranch

AloneInv == \A a \in Flows \ mixed : AloneFlow(a)

GitInv == TypeOK /\ BranchInv /\ WrittenInv /\ CleanInv /\ AloneInv

-----------------------------------------------------------------------------
(* Types *)

LEMMA ContentTypes ==
  ASSUME TypeOK
  PROVE  /\ \A k \in 1..Len(commits) : commits[k].tree \in Tree /\ commits[k].parent \in Nat
         /\ \A b \in AllBranches : refs[b] # 0 => refs[b] \in 1..Len(commits) /\ tree(b) \in Tree
         /\ tree(head) \in Tree
         /\ Flows \subseteq Content
<1>1. \A k \in 1..Len(commits) : commits[k] \in [tree : Tree, parent : Nat]
  <2>1. commits \in Seq([tree : Tree, parent : Nat])
    BY DEF TypeOK
  <2> QED
    BY <2>1, ElementOfSeq
<1>2. \A k \in 1..Len(commits) : commits[k].tree \in Tree /\ commits[k].parent \in Nat
  BY <1>1
<1>3. \A b \in AllBranches : refs[b] # 0 => refs[b] \in 1..Len(commits)
  <2>1. refs \in [AllBranches -> 0..Len(commits)] /\ Len(commits) \in Nat
    BY DEF TypeOK
  <2> QED
    BY <2>1
<1>4. \A b \in AllBranches : refs[b] # 0 => tree(b) \in Tree
  BY <1>2, <1>3 DEF tree
<1>5. head \in AllBranches /\ refs[head] # 0
  BY DEF TypeOK
<1> QED
  BY <1>2, <1>3, <1>4, <1>5 DEF Content

LEMMA TypeInit == Init => TypeOK
  BY GitAssumption DEF Init, TypeOK, Tree, Content, AllBranches, NoBranch

LEMMA TypeStep ==
  ASSUME TypeOK, BranchInv, [Next]_vars
  PROVE  TypeOK'
<1> USE GitAssumption DEF Steps, Goto, At, Goes, GoesOrFails, Fails, AllBranches
<1>1. ASSUME NEW a \in Flows, Call(a)
      PROVE  TypeOK'
  BY <1>1 DEF Call, TypeOK, repoVars, observed
<1>2. ASSUME NEW a \in Flows, RevParse(a)
      PROVE  TypeOK'
  <2>1. base' \in [Flows -> AllBranches \cup {NoBranch}]
    <3>1. base \in [Flows -> AllBranches \cup {NoBranch}] /\ head \in AllBranches
      BY DEF TypeOK
    <3>2. base' = base \/ base' = [base EXCEPT ![a] = head]
      BY <1>2 DEF RevParse
    <3> QED
      BY <3>1, <3>2
  <2>2. pc' \in [Flows -> Steps \cup {"idle", "done", "failed"}] /\ mixed' \subseteq Flows
    <3>1. pc \in [Flows -> Steps \cup {"idle", "done", "failed"}] /\ mixed \subseteq Flows
      BY DEF TypeOK
    <3>2. \E s \in Steps \cup {"failed"} : pc' = [pc EXCEPT ![a] = s]
      BY <1>2 DEF RevParse
    <3>3. mixed' = mixed \cup {b \in Flows \ {a} : pc[b] \in Steps} \cup
                   (IF {b \in Flows \ {a} : pc[b] \in Steps} = {} THEN {} ELSE {a})
      BY <1>2 DEF RevParse
    <3> QED
      BY <3>1, <3>2, <3>3
  <2>3. UNCHANGED <<args, sha, pr, repoVars, author>>
    BY <1>2 DEF RevParse
  <2> QED
    BY <2>1, <2>2, <2>3 DEF TypeOK, repoVars
<1>3. ASSUME NEW a \in Flows, CheckoutB(a)
      PROVE  TypeOK'
  <2>1. args[a].branch \in Branches
    BY <1>3 DEF CheckoutB, BranchInv
  <2>2. /\ refs' \in [AllBranches -> 0..Len(commits)]
        /\ head' \in AllBranches /\ refs'[head'] # 0
    <3>1. /\ refs \in [AllBranches -> 0..Len(commits)] /\ head \in AllBranches /\ refs[head] # 0
      BY DEF TypeOK
    <3>2. CASE UNCHANGED <<head, refs>>
      BY <3>1, <3>2
    <3>3. CASE NewBranch(args[a].branch) /\ head' \in {head, args[a].branch}
      BY <2>1, <3>1, <3>3 DEF NewBranch
    <3> QED
      BY <1>3, <3>2, <3>3 DEF CheckoutB
  <2> QED
    BY <1>3, <2>2 DEF CheckoutB, TypeOK
<1>4. ASSUME NEW a \in Flows, WriteCode(a)
      PROVE  TypeOK'
  <2>1. worktree' \in Tree
    BY <1>4 DEF WriteCode, Written, TypeOK, Tree, Content
  <2> QED
    BY <1>4, <2>1 DEF WriteCode, TypeOK
<1>5. ASSUME NEW a \in Flows, Checkout(a)
      PROVE  TypeOK'
  <2>1. args[a].branch \in Branches /\ refs[args[a].branch] # 0
    BY <1>5 DEF Checkout, BranchInv, Underway
  <2>2. index' \in Tree /\ worktree' \in Tree /\ head' \in AllBranches /\ refs[head'] # 0
    <3>1. tree(args[a].branch) \in Tree
      BY <2>1, ContentTypes
    <3>2. index \in Tree /\ worktree \in Tree /\ head \in AllBranches /\ refs[head] # 0
      BY DEF TypeOK
    <3> QED
      BY <1>5, <2>1, <3>1, <3>2 DEF Checkout, Switch, Tree
  <2> QED
    BY <1>5, <2>2 DEF Checkout, TypeOK
<1>6. ASSUME NEW a \in Flows, Add(a)
      PROVE  TypeOK'
  BY <1>6 DEF Add, AddFile, TypeOK, Tree
<1>7. ASSUME NEW a \in Flows, MakeCommit(a)
      PROVE  TypeOK'
  <2>1. CASE UNCHANGED <<refs, commits, author>>
    BY <1>7, <2>1 DEF MakeCommit, TypeOK
  <2>2. CASE commits' = Append(commits, [tree |-> index, parent |-> ParentOf(head)])
             /\ refs' = [refs EXCEPT ![head] = Len(commits) + 1] /\ author' = Append(author, a)
    <3>1. /\ refs \in [AllBranches -> 0..Len(commits)] /\ Len(commits) \in Nat
          /\ head \in AllBranches /\ refs[head] # 0
          /\ commits \in Seq([tree : Tree, parent : Nat]) /\ index \in Tree
          /\ author \in Seq(Flows \cup {"none"}) /\ Len(author) = Len(commits)
          /\ sha \in [Flows -> 0..Len(commits)]
      BY DEF TypeOK
    <3>2. [tree |-> index, parent |-> ParentOf(head)] \in [tree : Tree, parent : Nat]
      BY <3>1 DEF ParentOf
    <3>3. /\ commits' \in Seq([tree : Tree, parent : Nat]) /\ Len(commits') = Len(commits) + 1
          /\ author' \in Seq(Flows \cup {"none"}) /\ Len(author') = Len(author) + 1
      BY <2>2, <3>1, <3>2
    <3>4. /\ refs' \in [AllBranches -> 0..Len(commits')] /\ refs'[head] # 0
          /\ sha \in [Flows -> 0..Len(commits')]
      BY <2>2, <3>1, <3>3
    <3> QED
      BY <1>7, <3>1, <3>3, <3>4 DEF MakeCommit, TypeOK
  <2> QED
    BY <1>7, <2>1, <2>2 DEF MakeCommit
<1>8. ASSUME NEW a \in Flows, Report(a)
      PROVE  TypeOK'
  BY <1>8 DEF Report, TypeOK, repoVars
<1>9. ASSUME NEW a \in Flows, OpenPr(a)
      PROVE  TypeOK'
  BY <1>9 DEF OpenPr, TypeOK, repoVars
<1>10. CASE UNCHANGED vars
  BY <1>10 DEF vars, TypeOK
<1> QED
  BY <1>1, <1>2, <1>3, <1>4, <1>5, <1>6, <1>7, <1>8, <1>9, <1>10 DEF Next, Step, Finished

-----------------------------------------------------------------------------
(* What every step of a flow has in common *)

\* A step is one flow's own: what the others are called with and have found out
\* stays, and whoever else is under way is mixed with it.
LEMMA StepIsOnesOwn ==
  ASSUME TypeOK, NEW a \in Flows, Step(a)
  PROVE  /\ args' = args
         /\ pc[a] \in Steps /\ pc'[a] \in Steps \cup {"done", "failed"} /\ pc'[a] # "rev_parse"
         /\ \A c \in Flows \ {a} :
              pc'[c] = pc[c] /\ base'[c] = base[c] /\ sha'[c] = sha[c] /\ pr'[c] = pr[c]
         /\ \A c \in Flows : c \notin mixed' => c \notin mixed
         /\ \A c \in Flows \ {a} : pc[c] \in Steps => c \in mixed' /\ a \in mixed'
<1> USE DEF At, Goto, Goes, GoesOrFails, Fails, Steps
<1>1. pc \in [Flows -> Steps \cup {"idle", "done", "failed"}] /\ mixed \subseteq Flows
      /\ base \in [Flows -> AllBranches \cup {NoBranch}] /\ DOMAIN sha = Flows
      /\ pr \in [Flows -> AllBranches \cup {NoBranch}]
  BY DEF TypeOK
<1>2. \E s \in Steps : At(a, s)
  BY DEF Step, RevParse, CheckoutB, WriteCode, Checkout, Add, MakeCommit, Report, OpenPr
<1>3. /\ args' = args /\ pc[a] \in Steps
      /\ \A c \in Flows : c \notin mixed' => c \notin mixed
      /\ \A c \in Flows \ {a} : pc[c] \in Steps => c \in mixed' /\ a \in mixed'
  BY <1>2
<1>4. \E s \in (Steps \ {"rev_parse"}) \cup {"done", "failed"} : pc' = [pc EXCEPT ![a] = s]
  BY DEF Step, RevParse, CheckoutB, WriteCode, Checkout, Add, MakeCommit, Report, OpenPr
<1>5. \A c \in Flows \ {a} : base'[c] = base[c] /\ sha'[c] = sha[c] /\ pr'[c] = pr[c]
  BY <1>1 DEF Step, RevParse, CheckoutB, WriteCode, Checkout, Add, MakeCommit, Report, OpenPr
<1> QED
  BY <1>1, <1>3, <1>4, <1>5

\* Commits are only added, at most one by a step.
LEMMA CommitsStay ==
  ASSUME TypeOK, [Next]_vars
  PROVE  /\ Len(commits') >= Len(commits)
         /\ \A k \in 1..Len(commits) : commits'[k] = commits[k] /\ author'[k] = author[k]
<1>1. commits \in Seq([tree : Tree, parent : Nat]) /\ author \in Seq(Flows \cup {"none"})
      /\ Len(author) = Len(commits) /\ Len(commits) \in Nat
  BY DEF TypeOK
<1>2. CASE commits' = commits /\ author' = author
  BY <1>1, <1>2
<1>3. ASSUME NEW a \in Flows, MakeCommit(a), commits' # commits \/ author' # author
      PROVE  /\ Len(commits') >= Len(commits)
             /\ \A k \in 1..Len(commits) : commits'[k] = commits[k] /\ author'[k] = author[k]
  <2>1. PICK c : commits' = Append(commits, c) /\ author' = Append(author, a)
    BY <1>3 DEF MakeCommit
  <2>2. /\ Len(commits') = Len(commits) + 1
        /\ \A k \in 1..Len(commits) : commits'[k] = commits[k] /\ author'[k] = author[k]
    BY <1>1, <2>1, AppendProperties
  <2> QED
    BY <1>1, <2>2
<1> QED
  BY <1>2, <1>3 DEF Next, Step, Finished, vars, Call, RevParse, CheckoutB, WriteCode, Checkout,
                    Add, Report, OpenPr, repoVars, observed

-----------------------------------------------------------------------------
(* Branches *)

\* A flow under way was called with a branch; what changes a ref.
LEMMA RefsChange ==
  ASSUME TypeOK, BranchInv, [Next]_vars
  PROVE  \/ refs' = refs
         \/ \E b \in Branches : refs[b] = 0 /\ refs' = [refs EXCEPT ![b] = refs[head]]
                                /\ commits' = commits
         \/ /\ head # "main"
            /\ \E s : commits' = Append(commits, [tree |-> s, parent |-> refs[head]])
            /\ refs' = [refs EXCEPT ![head] = Len(commits) + 1]
<1>1. ASSUME NEW a \in Flows, CheckoutB(a)
      PROVE  \/ refs' = refs
             \/ \E b \in Branches : refs[b] = 0 /\ refs' = [refs EXCEPT ![b] = refs[head]]
                                    /\ commits' = commits
  BY <1>1 DEF CheckoutB, NewBranch, At, Steps, BranchInv
<1>2. ASSUME NEW a \in Flows, MakeCommit(a)
      PROVE  \/ refs' = refs
             \/ /\ head # "main"
                /\ \E s : commits' = Append(commits, [tree |-> s, parent |-> refs[head]])
                /\ refs' = [refs EXCEPT ![head] = Len(commits) + 1]
  BY <1>2 DEF MakeCommit, At, ParentOf, BranchInv, Underway
<1> QED
  BY <1>1, <1>2 DEF Next, Step, Finished, vars, Call, RevParse, WriteCode, Checkout,
                    Add, Report, OpenPr, repoVars, observed

LEMMA RefsStay ==
  ASSUME TypeOK, BranchInv, [Next]_vars
  PROVE  \A b \in AllBranches : refs[b] # 0 => refs'[b] # 0
<1>1. refs \in [AllBranches -> 0..Len(commits)] /\ Len(commits) \in Nat /\ refs[head] # 0
  BY DEF TypeOK
<1> QED
  BY <1>1, RefsChange DEF AllBranches

LEMMA BranchStep ==
  ASSUME TypeOK, BranchInv, [Next]_vars
  PROVE  BranchInv'
<1>1. ASSUME NEW a \in Flows, Call(a)
      PROVE  BranchInv'
  <2>1. pc \in [Flows -> Steps \cup {"idle", "done", "failed"}] /\ DOMAIN args = Flows
    BY DEF TypeOK
  <2> QED
    BY <1>1, <2>1 DEF Call, Goto, repoVars, BranchInv, Steps, Underway
<1>2. ASSUME NEW a \in Flows, Step(a)
      PROVE  BranchInv'
  <2>1. \A c \in Flows : pc'[c] \in Steps => pc[c] \in Steps /\ args'[c].branch \in Branches
    BY <1>2, StepIsOnesOwn DEF BranchInv
  <2>2. \A c \in Flows \ {a} : pc'[c] \in Underway => refs'[args'[c].branch] # 0
    BY <1>2, StepIsOnesOwn, RefsStay DEF BranchInv, Steps, Underway, AllBranches
  <2>3. pc'[a] \in Underway => refs'[args[a].branch] # 0
    <3>1. CASE pc[a] \in Underway
      BY <3>1, RefsStay, <2>1 DEF BranchInv, AllBranches, Underway, Steps
    <3>2. CASE pc[a] \notin Underway /\ pc'[a] \in Underway
      <4>1. pc \in [Flows -> Steps \cup {"idle", "done", "failed"}]
            /\ refs \in [AllBranches -> 0..Len(commits)] /\ refs[head] # 0
        BY DEF TypeOK
      <4>2. CheckoutB(a)
        BY <1>2, <3>2, <4>1 DEF Step, RevParse, WriteCode, Checkout, Add, MakeCommit, Report, OpenPr,
                           At, Goto, Goes, GoesOrFails, Fails, Underway
      <4>3. args[a].branch \in Branches
        BY <4>2 DEF CheckoutB, At, BranchInv, Steps
      <4> QED
        BY <3>2, <4>1, <4>2, <4>3 DEF CheckoutB, NewBranch, Goto, Fails, Underway, AllBranches
    <3> QED
      BY <3>1, <3>2
  <2>4. (\E c \in Flows : pc'[c] \in Underway) => head' # "main"
    <3>1. head # "main" => head' # "main"
      BY <1>2, GitAssumption DEF Step, RevParse, CheckoutB, WriteCode, Checkout, Switch, Add, MakeCommit,
                                 Report, OpenPr, repoVars, At, BranchInv, Steps
    <3>2. ASSUME pc[a] \notin Underway, pc'[a] \in Underway
          PROVE  head' # "main"
      <4>1. pc \in [Flows -> Steps \cup {"idle", "done", "failed"}]
        BY DEF TypeOK
      <4> QED
        BY <1>2, <3>2, <4>1, GitAssumption
           DEF Step, RevParse, CheckoutB, WriteCode, Checkout, Add, MakeCommit, Report, OpenPr,
               At, Goto, Goes, GoesOrFails, Fails, Underway, BranchInv, Steps
    <3> QED
      BY <1>2, <3>1, <3>2, StepIsOnesOwn DEF BranchInv
  <2> QED
    BY <1>2, <2>1, <2>2, <2>3, <2>4, StepIsOnesOwn DEF BranchInv
<1>3. CASE UNCHANGED vars
  BY <1>3 DEF vars, BranchInv
<1> QED
  BY <1>1, <1>2, <1>3 DEF Next, Finished

-----------------------------------------------------------------------------
(* Contents *)

\* A flow keeps its file, and the first commit its tree: what is a file's own
\* stays so.
LEMMA OwnStays ==
  ASSUME TypeOK, Len(commits) >= 1, [Next]_vars, NEW f, NEW c, Own(f, c)
  PROVE  Own(f, c)'
<1>1. commits'[1] = commits[1]
  BY CommitsStay DEF TypeOK
<1>2. ASSUME c \in Flows, pc[c] # "idle"
      PROVE  pc'[c] # "idle" /\ args'[c] = args[c]
  <2>1. pc \in [Flows -> Steps \cup {"idle", "done", "failed"}] /\ DOMAIN args = Flows
    BY DEF TypeOK
  <2>2. ASSUME NEW a \in Flows, Call(a)
        PROVE  pc'[c] # "idle" /\ args'[c] = args[c]
    BY <1>2, <2>1, <2>2 DEF Call, Goto
  <2>3. ASSUME NEW a \in Flows, Step(a)
        PROVE  pc'[c] # "idle" /\ args'[c] = args[c]
    BY <1>2, <2>3, StepIsOnesOwn DEF Steps
  <2>4. CASE UNCHANGED vars
    BY <1>2, <2>4 DEF vars
  <2> QED
    BY <2>2, <2>3, <2>4 DEF Next, Finished
<1> QED
  BY <1>1, <1>2 DEF Own

\* What may be staged, written or committed in one step.
LEMMA ContentsChange ==
  ASSUME TypeOK, BranchInv, [Next]_vars
  PROVE  /\ commits' = commits \/ \E k : commits' = Append(commits, [tree |-> index, parent |-> k])
         /\ \A f \in Files :
              /\ \/ index'[f] \in {index[f], worktree[f]}
                 \/ \E k \in 1..Len(commits) : index'[f] = commits[k].tree[f]
              /\ \/ worktree'[f] = worktree[f]
                 \/ \E k \in 1..Len(commits) : worktree'[f] = commits[k].tree[f]
                 \/ \E a \in Flows : pc[a] = "write" /\ worktree'[f] = a /\ args[a].file = f
<1>1. index \in Tree /\ worktree \in Tree
  BY DEF TypeOK
<1> DEFINE Same == commits' = commits /\ index' = index /\ worktree' = worktree
<1>2. ASSUME NEW a \in Flows, WriteCode(a)
      PROVE  /\ commits' = commits /\ index' = index
             /\ \A f \in Files :
                  \/ worktree'[f] = worktree[f]
                  \/ pc[a] = "write" /\ worktree'[f] = a /\ args[a].file = f
  <2>1. CASE worktree' = worktree
    BY <1>2, <2>1 DEF WriteCode
  <2>2. CASE worktree' = [worktree EXCEPT ![args[a].file] = a]
    BY <1>1, <1>2, <2>2 DEF WriteCode, At, Tree
  <2> QED
    BY <1>2, <2>1, <2>2 DEF WriteCode, Written
<1>3. ASSUME NEW a \in Flows, Checkout(a)
      PROVE  /\ commits' = commits
             /\ \/ index' = index /\ worktree' = worktree
                \/ \E k \in 1..Len(commits) : \A f \in Files :
                     /\ index'[f] \in {index[f], commits[k].tree[f]}
                     /\ worktree'[f] \in {worktree[f], commits[k].tree[f]}
  <2>1. CASE index' = index /\ worktree' = worktree
    BY <1>3, <2>1 DEF Checkout
  <2>2. CASE Switch(args[a].branch)
    <3>1. refs[args[a].branch] \in 1..Len(commits)
      BY <1>3, ContentTypes DEF Checkout, At, BranchInv, Steps, Underway, AllBranches
    <3> QED
      BY <1>3, <2>2, <3>1 DEF Checkout, Switch, tree
  <2> QED
    BY <1>3, <2>1, <2>2 DEF Checkout
<1>4. ASSUME NEW a \in Flows, Add(a)
      PROVE  /\ commits' = commits /\ worktree' = worktree
             /\ \A f \in Files : index'[f] \in {index[f], worktree[f]}
  BY <1>1, <1>4 DEF Add, AddFile, Tree
<1>5. ASSUME NEW a \in Flows, MakeCommit(a)
      PROVE  /\ commits' = commits \/ \E k : commits' = Append(commits, [tree |-> index, parent |-> k])
             /\ index' = index /\ worktree' = worktree
  BY <1>5 DEF MakeCommit
<1>6. ASSUME NEW a \in Flows, Call(a) \/ RevParse(a) \/ CheckoutB(a) \/ Report(a) \/ OpenPr(a)
      PROVE  Same
  BY <1>6 DEF Call, RevParse, CheckoutB, Report, OpenPr, repoVars
<1>7. CASE UNCHANGED vars
  BY <1>7 DEF vars
<1> QED
  BY <1>2, <1>3, <1>4, <1>5, <1>6, <1>7, ZenonT(40) DEF Next, Step, Finished

LEMMA WrittenStep ==
  ASSUME TypeOK, BranchInv, WrittenInv, [Next]_vars
  PROVE  WrittenInv'
<1>1. Len(commits) >= 1 /\ Len(commits) \in Nat
  BY DEF WrittenInv, TypeOK
<1>2. \A f, c : Own(f, c) => Own(f, c)'
  BY <1>1, OwnStays
<1>3. Len(commits') >= 1
  BY <1>1, CommitsStay
<1>4. ASSUME NEW f \in Files
      PROVE  Own(f, index[f])' /\ Own(f, worktree[f])'
  <2>1. \A a \in Flows : pc[a] = "write" /\ args[a].file = f => Own(f, a)
    BY DEF Own
  <2>2. Own(f, index'[f]) /\ Own(f, worktree'[f])
    BY <2>1, ContentsChange DEF WrittenInv
  <2> QED
    BY <2>2, <1>2 DEF Own
<1>5. ASSUME NEW f \in Files, NEW k \in 1..Len(commits')
      PROVE  Own(f, commits[k].tree[f])'
  <2>1. CASE k \in 1..Len(commits)
    <3>1. commits'[k] = commits[k]
      BY <2>1, CommitsStay
    <3>2. Own(f, commits'[k].tree[f])
      BY <2>1, <3>1 DEF WrittenInv
    <3> QED
      BY <3>2, <1>2 DEF Own
  <2>2. CASE k \notin 1..Len(commits)
    <3>1. PICK j : commits' = Append(commits, [tree |-> index, parent |-> j])
      BY <2>2, ContentsChange
    <3>2. commits'[k].tree = index
      <4>1. commits \in Seq([tree : Tree, parent : Nat])
        BY DEF TypeOK
      <4> QED
        BY <1>1, <2>2, <3>1, <4>1
    <3>3. Own(f, commits'[k].tree[f])
      BY <3>2 DEF WrittenInv
    <3> QED
      BY <3>3, <1>2 DEF Own
  <2> QED
    BY <2>1, <2>2
<1>6. commits'[1] = commits[1]
  BY <1>1, CommitsStay
<1> QED
  BY <1>3, <1>4, <1>5, <1>6 DEF WrittenInv, Own

-----------------------------------------------------------------------------
(* What flows leave behind *)

LEMMA CleanStep ==
  ASSUME TypeOK, BranchInv, WrittenInv, CleanInv, [Next]_vars
  PROVE  CleanInv'
<1>1. /\ pc \in [Flows -> Steps \cup {"idle", "done", "failed"}]
      /\ index \in Tree /\ worktree \in Tree /\ head \in AllBranches
      /\ refs \in [AllBranches -> 0..Len(commits)] /\ refs[head] \in 1..Len(commits)
      /\ commits \in Seq([tree : Tree, parent : Nat])
  BY ContentTypes DEF TypeOK
<1> USE DEF At, Goto, Goes, GoesOrFails, Fails
\* Only git add makes a flow one that has added, and only git commit one that
\* has committed.
<1>2. ASSUME NEW a \in Flows, Step(a), ~Add(a), ~MakeCommit(a), NEW c
      PROVE  (Added(c)' => Added(c)) /\ (Committed(c)' => Committed(c))
  BY <1>1, <1>2 DEF Step, RevParse, CheckoutB, WriteCode, Checkout, Report, OpenPr, Added, Committed
<1>3. ASSUME NEW a \in Flows, Call(a), NEW c
      PROVE  (Added(c)' => Added(c)) /\ (Committed(c)' => Committed(c))
  BY <1>1, <1>3 DEF Call, Added, Committed
<1>4. ASSUME NEW a \in Flows, Call(a) \/ RevParse(a) \/ Report(a) \/ OpenPr(a)
      PROVE  CleanInv'
  <2>1. UNCHANGED repoVars
    BY <1>4 DEF Call, RevParse, Report, OpenPr
  <2>2. ~Add(a) /\ ~MakeCommit(a)
    BY <1>4 DEF Call, RevParse, Report, OpenPr, Add, MakeCommit
  <2> QED
    BY <1>2, <1>3, <1>4, <2>1, <2>2 DEF CleanInv, repoVars, tree, Step
<1>5. ASSUME NEW a \in Flows, CheckoutB(a)
      PROVE  CleanInv'
  <2>1. ~Add(a) /\ ~MakeCommit(a)
    BY <1>5 DEF CheckoutB, Add, MakeCommit
  <2>2. args[a].branch \in AllBranches
    BY <1>5 DEF CheckoutB, BranchInv, AllBranches, Steps
  <2>3. tree(head)' = tree(head)
    BY <1>1, <1>5, <2>2 DEF CheckoutB, NewBranch, tree
  <2> QED
    BY <1>2, <1>5, <2>1, <2>3 DEF CleanInv, Step, CheckoutB
<1>6. ASSUME NEW a \in Flows, WriteCode(a)
      PROVE  CleanInv'
  <2>1. ~Add(a) /\ ~MakeCommit(a)
    BY <1>6 DEF WriteCode, Add, MakeCommit
  <2>2. ASSUME NEW f \in Files
        PROVE  worktree'[f] = worktree[f] \/ worktree'[f] = a
    BY <1>1, <1>6 DEF WriteCode, Written, Tree
  <2>3. ~Added(a)'
    BY <1>1, <1>6 DEF WriteCode, Added
  <2> QED
    BY <1>2, <1>6, <2>1, <2>2, <2>3 DEF CleanInv, Step, WriteCode, tree
<1>7. ASSUME NEW a \in Flows, Checkout(a)
      PROVE  CleanInv'
  <2>1. ~Add(a) /\ ~MakeCommit(a)
    BY <1>7 DEF Checkout, Add, MakeCommit
  <2>2. CASE UNCHANGED <<head, index, worktree>>
    BY <1>2, <1>7, <2>1, <2>2 DEF CleanInv, Step, Checkout, tree
  <2>3. CASE Switch(args[a].branch)
    <3>1. head' = args[a].branch /\ tree(head)' = tree(args[a].branch)
      BY <1>7, <2>3 DEF Checkout, Switch, tree
    <3>2. ASSUME NEW f \in dirty, f \in Files
          PROVE  /\ index'[f] = index[f] /\ worktree'[f] = worktree[f]
                 /\ tree(head)'[f] = tree(head)[f]
      BY <2>3, <3>1, <3>2 DEF Switch
    <3>3. ASSUME NEW f \in Files, f \notin dirty
          PROVE  index'[f] = tree(head)'[f] /\ worktree'[f] = tree(head)'[f]
      BY <2>3, <3>1, <3>3 DEF Switch
    <3> QED
      BY <1>2, <1>7, <2>1, <3>2, <3>3 DEF CleanInv, Step
  <2> QED
    BY <1>7, <2>2, <2>3 DEF Checkout
<1>8. ASSUME NEW a \in Flows, Add(a)
      PROVE  CleanInv'
  <2>1. tree(head)' = tree(head) /\ worktree' = worktree
    BY <1>8 DEF Add, tree
  <2>2. ASSUME NEW c
        PROVE  (Added(c)' => Added(c) \/ c = a) /\ (Committed(c)' => Committed(c))
    BY <1>1, <1>8 DEF Add, Added, Committed
  <2>3. Added(a)' => index' = [index EXCEPT ![args[a].file] = worktree[args[a].file]]
    BY <1>1, <1>8 DEF Add, AddFile, Added
  <2>4. ASSUME NEW f \in Files
        PROVE  index'[f] = index[f] \/ index'[f] = worktree[f]
    BY <1>1, <1>8 DEF Add, AddFile, Tree
  <2>5. ASSUME NEW c
        PROVE  Committed(c) => Added(c)
    BY DEF Committed, Added
  <2>6. ASSUME NEW f \in Files, Added(worktree[f])'
        PROVE  index'[f] = worktree[f]
    <3>1. CASE Added(worktree[f])
      BY <2>4, <3>1 DEF CleanInv
    <3>2. CASE worktree[f] = a /\ f = args[a].file
      BY <1>1, <2>1, <2>3, <2>6, <3>2 DEF Tree
    <3>3. worktree[f] = a => f = args[a].file
      BY DEF WrittenInv, Own
    <3> QED
      BY <2>1, <2>2, <2>6, <3>1, <3>2, <3>3
  <2>7. ASSUME NEW f \in Files, Committed(index[f])'
        PROVE  tree(head)[f] = index'[f]
    BY <2>2, <2>4, <2>5, <2>7 DEF CleanInv
  <2> QED
    BY <2>1, <2>6, <2>7 DEF CleanInv
<1>9. ASSUME NEW a \in Flows, MakeCommit(a)
      PROVE  CleanInv'
  <2>1. index' = index /\ worktree' = worktree /\ head' = head
    BY <1>9 DEF MakeCommit
  <2>2. ASSUME NEW c
        PROVE  Added(c)' => Added(c)
    BY <1>1, <1>9 DEF MakeCommit, Added
  <2>3. CASE commits' = commits
    <3>1. refs' = refs /\ \A c : Committed(c)' => Committed(c)
      BY <1>1, <1>9, <2>3, AppendProperties DEF MakeCommit, Committed, Tree
    <3> QED
      BY <2>1, <2>2, <2>3, <3>1 DEF CleanInv, tree
  <2>4. CASE commits' # commits
    <3>1. tree(head)' = index
      <4>1. /\ commits' = Append(commits, [tree |-> index, parent |-> ParentOf(head)])
            /\ refs' = [refs EXCEPT ![head] = Len(commits) + 1]
        BY <1>9, <2>4 DEF MakeCommit
      <4>2. [tree |-> index, parent |-> ParentOf(head)] \in [tree : Tree, parent : Nat]
        BY <1>1 DEF ParentOf
      <4> QED
        BY <1>1, <2>1, <4>1, <4>2, AppendProperties DEF tree
    <3> QED
      BY <2>1, <2>2, <3>1 DEF CleanInv
  <2> QED
    BY <2>3, <2>4
<1>10. CASE UNCHANGED vars
  BY <1>10 DEF vars, CleanInv, Added, Committed, tree
<1> QED
  BY <1>4, <1>5, <1>6, <1>7, <1>8, <1>9, <1>10 DEF Next, Step, Finished

-----------------------------------------------------------------------------
(* Flows that had the work tree to themselves *)

\* Once made, the commit of a flow is its commit for good.
LEMMA CommitOfStays ==
  ASSUME TypeOK, BranchInv, [Next]_vars, NEW a \in Flows, pc[a] # "idle", NEW k, IsCommitOf(a, k)
  PROVE  IsCommitOf(a, k)'
<1>1. Len(commits) \in Nat /\ Len(commits') \in Nat
  BY TypeStep DEF TypeOK
<1>2. /\ k \in 2..Len(commits') /\ commits[k].parent \in 1..Len(commits')
      /\ commits'[k] = commits[k] /\ author'[k] = author[k]
      /\ commits'[commits[k].parent] = commits[commits[k].parent]
  BY <1>1, CommitsStay DEF IsCommitOf
<1>3. Changes(k)' = Changes(k)
  BY <1>2 DEF Changes
<1>4. /\ \A c \in Flows : pc[c] = "failed" => pc'[c] = "failed"
      /\ args'[a] = args[a]
  <2>1. pc \in [Flows -> Steps \cup {"idle", "done", "failed"}] /\ DOMAIN args = Flows
    BY DEF TypeOK
  <2>2. ASSUME NEW b \in Flows, Call(b)
        PROVE  (\A c \in Flows : pc[c] = "failed" => pc'[c] = "failed") /\ args'[a] = args[a]
    BY <2>1, <2>2 DEF Call, Goto
  <2>3. ASSUME NEW b \in Flows, Step(b)
        PROVE  (\A c \in Flows : pc[c] = "failed" => pc'[c] = "failed") /\ args'[a] = args[a]
    BY <2>3, StepIsOnesOwn DEF Steps
  <2>4. CASE UNCHANGED vars
    BY <2>4 DEF vars
  <2> QED
    BY <2>2, <2>3, <2>4 DEF Next, Finished
<1> QED
  BY <1>2, <1>3, <1>4 DEF IsCommitOf

\* What a flow that is alone commits besides its own file was left behind by
\* flows that failed: whatever is staged of another is on HEAD already.
LEMMA CommitIsOnesOwn ==
  ASSUME GitInv, NEW a \in Flows \ mixed, MakeCommit(a), a \notin mixed', commits' # commits
  PROVE  IsCommitOf(a, refs[head])'
<1>1. /\ Len(commits) \in Nat /\ Len(commits) >= 1
      /\ commits \in Seq([tree : Tree, parent : Nat]) /\ index \in Tree
      /\ author \in Seq(Flows \cup {"none"}) /\ Len(author) = Len(commits)
      /\ refs \in [AllBranches -> 0..Len(commits)] /\ head \in AllBranches
      /\ refs[head] \in 1..Len(commits)
  BY ContentTypes DEF GitInv, TypeOK, WrittenInv
<1> PICK n : n = Len(commits) + 1
  OBVIOUS
<1> PICK c : c = [tree |-> index, parent |-> refs[head]]
  OBVIOUS
<1>2. /\ commits' = Append(commits, c) /\ author' = Append(author, a)
      /\ refs' = [refs EXCEPT ![head] = n] /\ head' = head /\ pc[a] = "commit"
  BY DEF MakeCommit, ParentOf, At
<1>3. /\ Len(commits') = n /\ commits'[n] = c /\ author'[n] = a
      /\ \A k \in 1..Len(commits) : commits'[k] = commits[k]
  <2>1. c \in [tree : Tree, parent : Nat]
    BY <1>1
  <2> QED
    BY <1>1, <1>2, <2>1, AppendProperties
<1>4. refs'[head'] = n
  BY <1>1, <1>2
<1>5. args' = args /\ \A b \in Flows \ {a} : pc'[b] = pc[b] /\ pc[b] \notin Steps
  BY StepIsOnesOwn DEF GitInv, Step
<1>6. Changes(n)' = {f \in Files : index[f] # tree(head)[f]}
  BY <1>1, <1>3 DEF Changes, tree
<1>7. ASSUME NEW f \in Files, index[f] # tree(head)[f], f # args[a].file
      PROVE  index[f] \in Flows /\ pc'[index[f]] = "failed"
  <2>1. index[f] \in Flows /\ ~Committed(index[f])
    BY <1>7 DEF GitInv, CleanInv, Committed
  <2>2. pc[index[f]] # "idle" /\ args[index[f]].file = f
    BY <2>1, <1>7 DEF GitInv, WrittenInv, Own
  <2>3. pc \in [Flows -> Steps \cup {"idle", "done", "failed"}]
    BY DEF GitInv, TypeOK
  <2>4. index[f] \in Flows \ {a}
    BY <1>7, <2>1, <2>2
  <2> QED
    BY <1>5, <2>1, <2>2, <2>3, <2>4 DEF Committed
<1>8. index[args[a].file] = a
  BY <1>2 DEF GitInv, AloneInv, AloneFlow
<1> QED
  BY <1>1, <1>3, <1>4, <1>5, <1>6, <1>7, <1>8 DEF IsCommitOf

LEMMA AloneStep ==
  ASSUME GitInv, [Next]_vars
  PROVE  AloneInv'
<1>1. /\ TypeOK /\ BranchInv
      /\ pc \in [Flows -> Steps \cup {"idle", "done", "failed"}] /\ DOMAIN args = Flows
      /\ base \in [Flows -> AllBranches \cup {NoBranch}] /\ sha \in [Flows -> 0..Len(commits)]
      /\ pr \in [Flows -> AllBranches \cup {NoBranch}]
      /\ index \in Tree /\ worktree \in Tree /\ args \in [Flows -> [branch : Branches \cup {NoBranch}, file : Files]]
  BY DEF GitInv, TypeOK
<1>2. \A a \in Flows \ mixed : AloneFlow(a)
  BY DEF GitInv, AloneInv
\* A flow whose variables stay, and which is not under way.
<1>3. ASSUME NEW a \in Flows \ mixed, pc[a] \notin Steps,
             pc'[a] = pc[a], args'[a] = args[a], base'[a] = base[a], sha'[a] = sha[a], pr'[a] = pr[a]
      PROVE  AloneFlow(a)'
  <2>1. pc[a] = "done" => IsCommitOf(a, sha[a])
    BY <1>2, <1>3 DEF AloneFlow
  <2>2. pc[a] = "done" => IsCommitOf(a, sha[a])'
    <3>1. ASSUME pc[a] = "done"
          PROVE  \A k : IsCommitOf(a, k) => IsCommitOf(a, k)'
      BY <1>1, <3>1, CommitOfStays
    <3> QED
      BY <1>3, <2>1, <3>1, SMTT(20) DEF IsCommitOf, Changes
  <2> QED
    BY <1>1, <1>2, <1>3, <2>2 DEF AloneFlow, Underway, Steps
<1>4. ASSUME NEW b \in Flows, Call(b), NEW a \in Flows \ mixed'
      PROVE  AloneFlow(a)'
  <2>1. a \in Flows \ mixed /\ UNCHANGED <<base, sha, pr, head, refs, commits, index, worktree, author>>
    BY <1>4 DEF Call, repoVars, observed
  <2>2. CASE a = b
    BY <1>1, <1>2, <1>4, <2>1, <2>2 DEF Call, Goto, AloneFlow, Underway
  <2>3. CASE a # b /\ pc[a] \notin Steps
    <3>1. pc'[a] = pc[a] /\ args'[a] = args[a]
      BY <1>1, <1>4, <2>3 DEF Call, Goto
    <3> QED
      BY <1>3, <2>1, <2>3, <3>1
  <2>4. CASE a # b /\ pc[a] \in Steps
    <3>1. pc'[a] = pc[a] /\ args'[a] = args[a]
      BY <1>1, <1>4, <2>4 DEF Call, Goto
    <3>2. \A k : IsCommitOf(a, k) => IsCommitOf(a, k)'
      BY <1>1, <2>1, <2>4, CommitOfStays DEF Steps
    <3>3. AloneFlow(a)
      BY <1>2, <2>1
    <3>4. pc[a] = "report" => IsCommitOf(a, refs[head])'
      BY <2>1, <3>2, <3>3, SMTT(20) DEF AloneFlow, IsCommitOf, Changes
    <3>5. pc[a] = "open_pr" => IsCommitOf(a, sha[a])'
      BY <2>1, <3>2, <3>3, SMTT(20) DEF AloneFlow, IsCommitOf, Changes
    <3> QED
      BY <2>1, <2>4, <3>1, <3>3, <3>4, <3>5 DEF AloneFlow, Steps
  <2> QED
    BY <2>2, <2>3, <2>4
<1>5. ASSUME NEW b \in Flows, Step(b), NEW a \in Flows \ mixed', a # b
      PROVE  AloneFlow(a)'
  <2>1. /\ a \in Flows \ mixed /\ pc[a] \notin Steps /\ args'[a] = args[a]
        /\ pc'[a] = pc[a] /\ base'[a] = base[a] /\ sha'[a] = sha[a] /\ pr'[a] = pr[a]
    BY <1>1, <1>5, StepIsOnesOwn
  <2> QED
    BY <1>3, <2>1
<1>6. ASSUME NEW a \in Flows, a \notin mixed', Step(a)
      PROVE  AloneFlow(a)'
  <2>1. a \in Flows \ mixed /\ args' = args /\ AloneFlow(a) /\ pc[a] # "idle"
    BY <1>1, <1>2, <1>6, StepIsOnesOwn DEF Steps
  <2>10. \A k : IsCommitOf(a, k) => IsCommitOf(a, k)'
    BY <1>1, <2>1, CommitOfStays
  <2>2. CASE RevParse(a)
    BY <1>1, <2>1, <2>2 DEF RevParse, At, Goto, Fails, repoVars, AloneFlow, Underway
  <2>3. CASE CheckoutB(a)
    <3>1. refs[head] # 0 /\ pc[a] = "checkout_b"
      BY <2>3 DEF CheckoutB, At, GitInv, TypeOK
    <3> QED
      BY <1>1, <2>1, <2>3, <3>1 DEF CheckoutB, NewBranch, At, Goto, Goes, GoesOrFails, Fails, AloneFlow, Underway
  <2>4. CASE WriteCode(a)
    BY <1>1, <2>1, <2>4 DEF WriteCode, Written, At, Goto, Goes, GoesOrFails, Fails, AloneFlow, Underway, Tree
  <2>5. CASE Checkout(a)
    BY <1>1, <2>1, <2>5 DEF Checkout, At, Goto, Goes, GoesOrFails, Fails, AloneFlow, Underway, Switch, dirty, Tree
  <2>6. CASE Add(a)
    BY <1>1, <2>1, <2>6 DEF Add, AddFile, At, Goto, Goes, GoesOrFails, Fails, AloneFlow, Underway, Tree
  <2>7. CASE MakeCommit(a)
    <3>1. commits' # commits => IsCommitOf(a, refs[head])'
      BY <1>6, <2>1, <2>7, CommitIsOnesOwn
    <3>2. pc'[a] = "report" => commits' # commits
      <4>1. ASSUME commits' = Append(commits, [tree |-> index, parent |-> ParentOf(head)])
            PROVE  commits' # commits
        <5>1. Len(commits) \in Nat /\ commits \in Seq([tree : Tree, parent : Nat])
          BY DEF GitInv, TypeOK
        <5>2. [tree |-> index, parent |-> ParentOf(head)] \in [tree : Tree, parent : Nat]
          BY DEF GitInv, TypeOK, ParentOf
        <5>3. Len(commits') = Len(commits) + 1
          BY <4>1, <5>1, <5>2, AppendProperties
        <5> QED
          BY <5>1, <5>3
      <4> QED
        BY <1>1, <2>7, <4>1 DEF MakeCommit, At, Goto, Fails
    <3> QED
      BY <1>1, <2>1, <2>7, <3>1, <3>2 DEF MakeCommit, At, Goto, Goes, GoesOrFails, Fails, AloneFlow, Underway
  <2>8. CASE Report(a)
    <3>1. IsCommitOf(a, refs[head]) /\ refs' = refs /\ head' = head
      BY <2>1, <2>8 DEF Report, At, AloneFlow, repoVars
    <3>2. CASE Fails(a)
      BY <1>1, <2>1, <2>8, <3>2 DEF Report, At, Goto, Fails, AloneFlow, Underway
    <3>3. CASE ~Fails(a)
      <4>1. sha'[a] = refs[head] /\ pc'[a] \in {"open_pr", "done"} /\ UNCHANGED <<base, pr>>
        BY <1>1, <2>8, <3>3 DEF Report, At, Goto
      <4>2. IsCommitOf(a, sha[a])'
        BY <2>10, <3>1, <4>1, SMTT(20) DEF IsCommitOf, Changes
      <4> QED
        BY <2>1, <2>8, <4>1, <4>2 DEF Report, At, AloneFlow, Underway
    <3> QED
      BY <3>2, <3>3
  <2>9. CASE OpenPr(a)
    <3>1. IsCommitOf(a, sha[a]) /\ sha' = sha
      BY <2>1, <2>9 DEF OpenPr, At, AloneFlow
    <3>2. IsCommitOf(a, sha[a])'
      BY <2>10, <3>1 DEF IsCommitOf, Changes
    <3> QED
      BY <1>1, <2>1, <2>9, <3>2 DEF OpenPr, At, Goto, AloneFlow, Underway
  <2> QED
    BY <1>6, <2>2, <2>3, <2>4, <2>5, <2>6, <2>7, <2>8, <2>9 DEF Step
<1>7. CASE UNCHANGED vars
  <2>1. UNCHANGED <<pc, args, base, sha, pr, head, refs, commits, index, worktree, mixed, author>>
    BY <1>7 DEF vars
  <2>2. \A a \in Flows : \A k : IsCommitOf(a, k)' <=> IsCommitOf(a, k)
    <3>1. \A k : Changes(k)' = Changes(k)
      BY <2>1 DEF Changes
    <3> SUFFICES ASSUME NEW a \in Flows, NEW k
                 PROVE  IsCommitOf(a, k)' <=> IsCommitOf(a, k)
      OBVIOUS
    <3> QED
      BY <2>1, <3>1 DEF IsCommitOf
  <2>3. \A a \in Flows \ mixed : AloneFlow(a)'
    <3> SUFFICES ASSUME NEW a \in Flows \ mixed PROVE AloneFlow(a)'
      OBVIOUS
    <3>1. (pc[a] = "report" => IsCommitOf(a, refs[head])')
            /\ (pc[a] \in {"open_pr", "done"} => IsCommitOf(a, sha[a])')
      BY <1>2, <2>1, <2>2 DEF AloneFlow
    <3> QED
      BY <1>2, <2>1, <3>1 DEF AloneFlow
  <2> QED
    BY <2>1, <2>3 DEF AloneInv
<1> QED
  BY <1>4, <1>5, <1>6, <1>7 DEF Next, Finished, AloneInv, AloneFlow

-----------------------------------------------------------------------------
(* The theorems *)

LEMMA GitInit == Init => GitInv
<1> SUFFICES ASSUME Init
             PROVE  GitInv
  OBVIOUS
<1>1. TypeOK
  BY TypeInit
<1>2. BranchInv /\ AloneInv
  BY DEF Init, BranchInv, AloneInv, AloneFlow, Steps, Underway
<1>3. PICK o \in Files :
        /\ commits = <<[tree |-> [g \in Files |-> IF o = g THEN "old" ELSE "absent"], parent |-> 0]>>
        /\ index = commits[1].tree /\ worktree = commits[1].tree
  BY DEF Init
<1>4. WrittenInv
  <2>1. Len(commits) = 1 /\ \A f \in Files : commits[1].tree[f] \in {"old", "absent"}
    BY <1>3
  <2> QED
    BY <1>3, <2>1, GitAssumption DEF WrittenInv, Own
<1>5. CleanInv
  <2>1. refs[head] = 1
    BY DEF Init, AllBranches
  <2> QED
    BY <1>3, <2>1 DEF CleanInv, tree
<1> QED
  BY <1>1, <1>2, <1>4, <1>5 DEF GitInv

LEMMA GitStep == GitInv /\ [Next]_vars => GitInv'
  BY TypeStep, BranchStep, WrittenStep, CleanStep, AloneStep DEF GitInv

THEOREM GitInvariance == Spec => []GitInv
  BY GitInit, GitStep, PTL DEF Spec

\* The types of GitServer, for any number of flows, files and names.
THEOREM Types == Spec => []TypeOK
<1>1. GitInv => TypeOK
  BY DEF GitInv
<1> QED
  BY <1>1, GitInvariance, PTL

\* Whatever flows are mixed and whatever command fails, before or after its
\* effect, no branch loses a commit, and main stays as it is (GitServer.commit,
\* GitServer.create_branch).
THEOREM Growth == Spec => BranchesOnlyGrow
<1>1. ASSUME GitInv, [Next]_vars
      PROVE  [/\ \A b \in AllBranches : refs[b] # 0 => \/ refs'[b] = refs[b]
                                                       \/ commits'[refs'[b]].parent = refs[b]
              /\ refs'["main"] = refs["main"]]_vars
  <2>1. /\ TypeOK /\ BranchInv
        /\ commits \in Seq([tree : Tree, parent : Nat]) /\ Len(commits) \in Nat
        /\ refs \in [AllBranches -> 0..Len(commits)]
        /\ head \in AllBranches
    BY <1>1 DEF GitInv, TypeOK
  <2>2. CASE refs' = refs
    BY <2>2
  <2>3. ASSUME NEW b \in Branches, refs[b] = 0, refs' = [refs EXCEPT ![b] = refs[head]]
        PROVE  /\ \A c \in AllBranches : refs[c] # 0 => refs'[c] = refs[c]
               /\ refs'["main"] = refs["main"]
    BY <2>1, <2>3, GitAssumption DEF AllBranches
  <2>4. ASSUME NEW s, head # "main", commits' = Append(commits, [tree |-> s, parent |-> refs[head]]),
               refs' = [refs EXCEPT ![head] = Len(commits) + 1]
        PROVE  /\ \A c \in AllBranches \ {head} : refs'[c] = refs[c]
               /\ commits'[refs'[head]].parent = refs[head]
               /\ refs'["main"] = refs["main"]
    BY <2>1, <2>4 DEF AllBranches
  <2> QED
    BY <1>1, <2>1, <2>2, <2>3, <2>4, RefsChange
<1> QED
  BY <1>1, GitInvariance, PTL DEF Spec, BranchesOnlyGrow

\* No code is ever committed in another file than the one its flow was called
\* for (_git_flow, GitServer.commit).
THEOREM CodeInItsFile == Spec => []OnlyWrittenCode
<1>1. GitInv => OnlyWrittenCode
  BY DEF GitInv, WrittenInv, Own, OnlyWrittenCode
<1> QED
  BY <1>1, GitInvariance, PTL

\* A flow that had the work tree to itself has committed what it reports, and
\* besides it only what flows that failed left behind (_git_flow).
THEOREM Commits == Spec => []CommitIsItsOwn
<1>1. GitInv => CommitIsItsOwn
  BY DEF GitInv, AloneInv, AloneFlow, IsCommitOf, CommitIsItsOwn, Underway
<1> QED
  BY <1>1, GitInvariance, PTL
=============================================================================
