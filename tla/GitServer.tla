------------------------------ MODULE GitServer ------------------------------
(***************************************************************************)
(* Commits to a git work tree: the operations create_branch, commit and    *)
(* open_pr of git/server.py as _git_flow of nodes/commit.py calls them, by *)
(* several flows on one work tree (two sessions of the facade, or          *)
(* `1c-ai generate` beside it).                                            *)
(*                                                                         *)
(* Every git command is a subprocess of its own, awaited with a timeout    *)
(* that kills it.  HEAD, the index and the files are shared, nothing is    *)
(* undone when a step fails, and no step looks at what the others did.     *)
(***************************************************************************)
EXTENDS Integers, Sequences, FiniteSets

CONSTANTS
  Flows,          \* the calls of _git_flow
  Files,          \* paths _derive_file_path yields
  Branches,       \* feature/{task_id[:8]}-{subtask.id[:8]}, well-formed or not
  WellFormed,     \* the branches _validate_branch_name accepts
  Prs             \* 1C_AI_OPEN_PR=1

ASSUME GitAssumption ==
  /\ WellFormed \subseteq Branches
  /\ "main" \notin Branches
  /\ Prs \in BOOLEAN
  /\ {"old", "absent"} \cap Flows = {}

VARIABLES
  pc,             \* flow -> the next step
  args,           \* flow -> the branch and the file it was called with
  base,           \* flow -> what rev-parse --abbrev-ref HEAD printed
  sha,            \* flow -> the commit it reports
  pr,             \* flow -> base of the pull request it opened
  head,           \* HEAD, a symbolic ref
  refs,           \* branch -> its commit
  commits,        \* every commit: its tree and its parent
  index,          \* file -> staged content
  worktree,       \* file -> content
  mixed,          \* observed: the flows another flow's commands ran between
  author          \* observed: commit -> the flow that ran git commit

flowVars == <<pc, args, base, sha, pr>>
repoVars == <<head, refs, commits, index, worktree>>
observed == <<mixed, author>>
vars == <<pc, args, base, sha, pr, head, refs, commits, index, worktree, mixed, author>>

\* A content is named by the flow whose code it is; "old" was there before.
Content == Flows \cup {"old", "absent"}
NoBranch == "none"
AllBranches == Branches \cup {"main"}
Steps == {"rev_parse", "checkout_b", "write", "checkout", "add", "commit", "report", "open_pr"}

tree(b) == commits[refs[b]].tree
dirty == {f \in Files : worktree[f] # tree(head)[f] \/ index[f] # tree(head)[f]}

-----------------------------------------------------------------------------
(* Steps *)

\* Flow a is at step s; every flow under way is now mixed with it.
At(a, s) ==
  /\ pc[a] = s
  /\ LET others == {b \in Flows \ {a} : pc[b] \in Steps} IN
       mixed' = mixed \cup others \cup (IF others = {} THEN {} ELSE {a})
  /\ UNCHANGED args

Goto(a, s) == pc' = [pc EXCEPT ![a] = s]

\* An exit code other than 0, a timeout, a missing executable: an exception
\* that leaves the flow.  The command may have had its effect.
Fails(a) == Goto(a, "failed") /\ UNCHANGED <<base, sha, pr>>
Goes(a, s) == Goto(a, s) /\ UNCHANGED <<base, sha, pr>>
GoesOrFails(a, s) == Goes(a, s) \/ Fails(a)

Call(a) ==
  /\ pc[a] = "idle"
  /\ \E b \in Branches, f \in Files : args' = [args EXCEPT ![a] = [branch |-> b, file |-> f]]
  /\ Goto(a, "rev_parse")
  /\ UNCHANGED <<base, sha, pr, repoVars, observed>>

\* create_branch: the name is validated, HEAD is read.
RevParse(a) ==
  /\ At(a, "rev_parse")
  /\ \/ /\ args[a].branch \in WellFormed
        /\ base' = [base EXCEPT ![a] = head]
        /\ Goto(a, "checkout_b")
        /\ UNCHANGED <<sha, pr>>
     \/ Fails(a)
  /\ UNCHANGED <<repoVars, author>>

NewBranch(b) == refs[b] = 0 /\ refs' = [refs EXCEPT ![b] = refs[head]]

\* git checkout -b: index and files stay; killed, it may have made the ref only.
CheckoutB(a) ==
  /\ At(a, "checkout_b")
  /\ \/ Fails(a) /\ UNCHANGED <<head, refs>>
     \/ NewBranch(args[a].branch) /\ Fails(a) /\ UNCHANGED head
     \/ NewBranch(args[a].branch) /\ head' = args[a].branch /\ GoesOrFails(a, "write")
  /\ UNCHANGED <<commits, index, worktree, author>>

\* Mutant: every object's code goes to one and the same file.
WrittenByType(a) == [worktree EXCEPT ![CHOOSE f \in Files : TRUE] = a]

Written(a) == [worktree EXCEPT ![args[a].file] = a]

\* The code is written before commit looks at its arguments.
WriteCode(a) ==
  /\ At(a, "write")
  /\ \/ Fails(a) /\ UNCHANGED worktree
     \/ worktree' = Written(a) /\ GoesOrFails(a, "checkout")
  /\ UNCHANGED <<head, refs, commits, index, author>>

\* git checkout <branch> carries uncommitted changes along, and refuses when
\* the branches differ in a changed file.
Switch(b) ==
  /\ \A f \in dirty : b # head => tree(b)[f] = tree(head)[f]
  /\ head' = b
  /\ index' = [f \in Files |-> IF f \in dirty THEN index[f] ELSE tree(b)[f]]
  /\ worktree' = [f \in Files |-> IF f \in dirty THEN worktree[f] ELSE tree(b)[f]]

Checkout(a) ==
  /\ At(a, "checkout")
  /\ \/ Fails(a) /\ UNCHANGED <<head, index, worktree>>
     \/ Switch(args[a].branch) /\ GoesOrFails(a, "add")
  /\ UNCHANGED <<refs, commits, author>>

\* Mutant: git add -u, which leaves out a file that is new.
AddTracked(f) == index' = IF index[f] = "absent" THEN index ELSE [index EXCEPT ![f] = worktree[f]]

AddFile(f) == index' = [index EXCEPT ![f] = worktree[f]]

Add(a) ==
  /\ At(a, "add")
  /\ \/ Fails(a) /\ UNCHANGED index
     \/ AddFile(args[a].file) /\ GoesOrFails(a, "commit")
  /\ UNCHANGED <<head, refs, commits, worktree, author>>

\* Mutant: the commit replaces the last one (--amend).
ParentOfLast(b) == commits[refs[b]].parent

ParentOf(b) == refs[b]

\* git commit -m: the whole index, on whatever HEAD is; refused without a change.
MakeCommit(a) ==
  /\ At(a, "commit")
  /\ \/ Fails(a) /\ UNCHANGED <<refs, commits, author>>
     \/ /\ index # tree(head)
        /\ commits' = Append(commits, [tree |-> index, parent |-> ParentOf(head)])
        /\ refs' = [refs EXCEPT ![head] = Len(commits) + 1]
        /\ author' = Append(author, a)
        /\ GoesOrFails(a, "report")
  /\ UNCHANGED <<head, index, worktree>>

\* git rev-parse HEAD.
Report(a) ==
  /\ At(a, "report")
  /\ \/ /\ sha' = [sha EXCEPT ![a] = refs[head]]
        /\ Goto(a, IF Prs THEN "open_pr" ELSE "done")
        /\ UNCHANGED <<base, pr>>
     \/ Fails(a)
  /\ UNCHANGED <<repoVars, author>>

\* gh pr create --base <base>; its failure is logged and forgotten.
OpenPr(a) ==
  /\ At(a, "open_pr")
  /\ Goto(a, "done")
  /\ pr' \in {pr, [pr EXCEPT ![a] = base[a]]}
  /\ UNCHANGED <<base, sha, repoVars, author>>

Step(a) ==
  \/ RevParse(a) \/ CheckoutB(a) \/ WriteCode(a) \/ Checkout(a) \/ Add(a)
  \/ MakeCommit(a) \/ Report(a) \/ OpenPr(a)

Finished == (\A a \in Flows : pc[a] \in {"done", "failed"}) /\ UNCHANGED vars

Init ==
  /\ pc = [a \in Flows |-> "idle"]
  /\ args = [a \in Flows |-> [branch |-> NoBranch, file |-> CHOOSE f \in Files : TRUE]]
  /\ base = [a \in Flows |-> NoBranch]
  /\ sha = [a \in Flows |-> 0]
  /\ pr = [a \in Flows |-> NoBranch]
  /\ head = "main"
  /\ refs = [b \in AllBranches |-> IF b = "main" THEN 1 ELSE 0]
  /\ \E f \in Files : commits = <<[tree |-> [g \in Files |-> IF f = g THEN "old" ELSE "absent"], parent |-> 0]>>
  /\ index = commits[1].tree
  /\ worktree = commits[1].tree
  /\ mixed = {}
  /\ author = <<"none">>

Next == (\E a \in Flows : Call(a) \/ Step(a)) \/ Finished

Spec == Init /\ [][Next]_vars

-----------------------------------------------------------------------------
(* Properties *)

Tree == [Files -> Content]

TypeOK ==
  /\ pc \in [Flows -> Steps \cup {"idle", "done", "failed"}]
  /\ args \in [Flows -> [branch : Branches \cup {NoBranch}, file : Files]]
  /\ base \in [Flows -> AllBranches \cup {NoBranch}]
  /\ pr \in [Flows -> AllBranches \cup {NoBranch}]
  /\ commits \in Seq([tree : Tree, parent : Nat])
  /\ sha \in [Flows -> 0..Len(commits)]
  /\ refs \in [AllBranches -> 0..Len(commits)]
  /\ head \in AllBranches /\ refs[head] # 0
  /\ index \in Tree /\ worktree \in Tree
  /\ mixed \subseteq Flows
  /\ author \in Seq(Flows \cup {"none"}) /\ Len(author) = Len(commits)

\* The files in which a commit differs from its parent.
Changes(k) == {f \in Files : commits[k].tree[f] # commits[commits[k].parent].tree[f]}

\* A flow that had the work tree to itself and reports success has made the
\* commit it reports: its code in its file, on its branch, cut from the branch
\* it takes for its base.  Anything else in that commit was left behind by a
\* flow that failed.
CommitIsItsOwn ==
  \A a \in Flows : pc[a] = "done" /\ a \notin mixed =>
    LET k == sha[a] IN
    /\ author[k] = a
    /\ commits[k].tree[args[a].file] = a
    /\ \A f \in Changes(k) \ {args[a].file} : pc[commits[k].tree[f]] = "failed"
    /\ pr[a] \in {NoBranch, base[a]}
    /\ base[a] # args[a].branch

\* However flows are mixed and whatever fails, a branch only grows: no ref
\* ever loses a commit it had, and main, which no flow commits to, stays.
BranchesOnlyGrow ==
  [][/\ \A b \in AllBranches : refs[b] # 0 => \/ refs'[b] = refs[b]
                                              \/ commits'[refs'[b]].parent = refs[b]
     /\ refs'["main"] = refs["main"]]_vars

\* Whatever is committed was written by some flow: the old code of a file is
\* replaced by a flow that was called for that very file, never lost or
\* carried to another file.
OnlyWrittenCode ==
  \A k \in 1..Len(commits) : \A f \in Files :
    commits[k].tree[f] = commits[1].tree[f] \/ args[commits[k].tree[f]].file = f

-----------------------------------------------------------------------------
\* git/contracts.py: files_changed of CommitOutput lists what the commit changed.
FilesChangedIsTrue ==
  \A a \in Flows : pc[a] = "done" /\ a \notin mixed => Changes(sha[a]) \subseteq {args[a].file}

=============================================================================
