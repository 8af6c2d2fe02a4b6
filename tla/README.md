# TLA+ specifications of 1c-ai-assistant

Modules, TLC configurations and machine-checked proofs that describe what the
program does with its state: the code-generation pipeline, the agent facade that
hands the same steps to an outside LLM client, and the validators, git server,
configuration registry, vector store, sessions and graphs around them. Every
definition is translated from the Python code; `PROJECT.json` names the lines each
definition stands for.

    tlc -workers 2 -config MCPipeline.cfg MCPipeline     # a run
    tlapm PipelineProofs.tla                             # the proofs

## 1. The system

### 1.1 The components

| component | state | operations | where it is |
|---|---|---|---|
| Generation pipeline | `TaskState`: plan, index of the subtask, attempts, reminder, verdicts, results | ten nodes, four routers, the CLI command `generate` | `packages/orchestrator`, `agent/cli_commands/generate.py` |
| Agent facade | `_in_memory` and checkpoints (plan → state), `_subtask_to_plan` | plan, gather, generate, validate, review (explain, run_cli, data_status read only) | `mcp_servers/facade` |
| Validators | none | four validators, fan-out and fan-in, the gate | `orchestrator/nodes/validate.py` |
| Knowledge base | documents loaded once, a cache of the methods database | detect, method availability, lookups, search | `mcp_servers/kb` |
| BSL LS server | none; a process per call, a container with a queue | lint, parse the report, choose a backend | `mcp_servers/bsl_ls`, `docker/bsl_ls_http_server.py` |
| Git server | branches, HEAD, index and work tree of a repository | create_branch, commit, open_pr, diff | `mcp_servers/git` |
| Config registry | `_entries` in memory, one JSON file | add, remove, update_freshness, list | `data_layer/config_registry.py` |
| Config lifecycle, freshness | data and derived directories, index files, modification times | `config add`, `build`, `list`, `remove` | `agent/cli_commands/config.py`, `freshness.py`, `path_manager.py` |
| Vector store | chunks (table or list) | upsert, three searches, delete | `mcp_servers/codebase/vector_store.py` |
| Codebase server | vector store, call graph, embeddings | semantic_search, call_graph, get_module, get_similar | `mcp_servers/codebase/server.py` |
| Metadata server | index cache per process | dependency graph and lookups in the unified index | `mcp_servers/metadata` |
| XML parsers, dependency graph | none | metadata files → references; walks over them | `packages/parsers/xml` |
| BSL parsers, call graph | none | modules → methods → calls | `packages/parsers/bsl` |
| Persistence manager | connection, saver | enter, fall back, exit, health | `orchestrator/persistence.py` |
| Retry policy, error taxonomy | attempt counter of one call | `with_retry`, `_compute_delay` | `orchestrator/retry.py`, `errors.py` |
| LLM providers | a process and a file per z-ai call | `complete` | `orchestrator/llm.py`, `zai_llm.py` |
| Tool groups, tool provider | which servers exist | groups per role, construction | `orchestrator/tool_groups.py`, `agent/cli_commands/tool_provider.py` |
| MCP transport, server factory | HTTP sessions of the library | dispatch | `mcp_servers/server_factory.py`, `http_server.py` |
| Platform help, indexers, models | none | files → records | `packages/parsers` |
| Agent CLI | none | arguments and output | `agent` |
| Deployment | database schema | migrations, images | `docker`, `migrations`, `scripts` |

`PROJECT.json` lists the same components with their sources and what is modelled
of each; the components without a module say why.

### 1.2 How they interact

* The pipeline **calls** the servers in-process and awaits each call: metadata,
  knowledge base and codebase in `gather`; BSL LS, knowledge base and metadata in
  `validate`; git in `commit`; the LLM in `plan`, `code` and `review`. Exceptions
  either are caught in the node (gather, validators, fallback plan and review)
  or leave the graph (code, commit, preflight).
* LangGraph **schedules** the nodes one at a time, evaluates a router on the state
  the node left, and counts executions against a limit. It checkpoints after
  each node, under a `thread_id` made from the configuration's name.
* The facade runs **single nodes** (plan, gather, code, validate, review, commit)
  without the graph between them: the client is told in `next_action` what to
  call, and what the routers, `retry` and `next_subtask` would do is up to it.
* `validate` starts its validators in one **task group**: two never suspend, one
  goes to a thread, one starts Java (blocking the loop) or asks a container.
* The MCP server serves clients **concurrently** on one event loop; calls interleave
  at their awaits, and share the store, the cache `_subtask_to_plan` and the
  one git work tree.
* Registry, derived indexes, the table of chunks, generated files and the repository
  are **shared with other processes** and outlive this one. `config build` makes
  the graphs and indexes the servers answer from.

### 1.3 What is hard, and what makes each component correct

* **Pipeline.** A cycle (code, validate, retry) inside a loop over subtasks, with
  counters, feedback and verdicts that must be reset or overwritten at the right
  moment. *Correct:* only approved code leaves; attempts are counted right and
  bounded; a prompt speaks of the attempt before it; subtasks are committed in
  order, once; an invocation ends, with everything committed, an escalation
  or an error.
* **Facade.** Overlapping calls on one state, a store that may forget or answer
  an old state, restarts, clients that call in any order. *Correct:* every state
  is consistent in itself; an artifact id means what the client thinks; a client
  that follows `next_action` commits validated code, in plan order; nothing is
  committed twice.
* **Validators.** Concurrent, each may fail, over files that may be broken and a
  database that changes. *Correct:* an error closes the gate unless the validator
  that looks for it was blind; a broken file costs its own findings; a validation
  ends and leaves nothing temporary.
* **Git.** Three processes per commit, each may be killed after its effect; flows
  share a work tree. *Correct:* who had the work tree alone has committed his
  code on his branch; in any case branches only grow.
* **Registry, lifecycle.** Several processes with a copy each, whole-file writes,
  steps of `add`, `build` and `remove` that fail midway. *Correct:* what is
  registered is there; what is called fresh is current; no entry is lost;
  success means it.
* **Vector store.** *Correct:* both implementations hold the same code; an answer
  respects both searches it is fused from.
* **Sessions.** A connection, a process, a file, retries, cancellation at any
  await. *Correct:* nothing is left behind, a call ends, a retry is made exactly
  when the error is worth it.
* **Graphs.** A breadth-first walk over references with cycles and ways of different
  length; two readers of the same code. *Correct:* exactly what is within reach is
  found, and every call, under the method around it.

The hazards are listed one by one, with the lines where they bite, in
`PROJECT.json`; those without a property that could hold say what does not.

## 2. The modules

| module | extends, uses | what it models |
|---|---|---|
| `Pipeline`, `TaskFlow` | | the LangGraph pipeline; what a task promises |
| `Facade` | | the MCP facade |
| `Validators` | `KnowledgeBase`, `BslLs`, `Gate` | the fan-out of `validate` over both servers; what a validation promises |
| `GitServer` | | commit flows on one work tree |
| `ConfigLifecycle` | `ConfigRegistry` | commands of several processes over registry, sources and indexes |
| `VectorStore` | `ChunkStore` | two stores and the hybrid search; what a store promises |
| `Session` | `RetryPolicy` | persistence manager, retries, z-ai calls of a command |
| `Analysis` | `DependencyGraph`, `CallGraph` | from files through the graphs to the servers' answers |
| `PipelineProofs`, `FacadeProofs`, `AnalysisProofs`, `GitServerProofs`, `ValidatorsProofs`, `SessionProofs`, `ConfigProofs`, `VectorStoreProofs` | | section 4 |
| `MC...` | | values of the constants for TLC: plans, files, codes, symmetry sets |

### 2.1 `Pipeline`, and what it says of the code

One action is one node function with everything it reads, assigns and writes,
and with the router LangGraph evaluates when it returns.

| TLA+ | code |
|---|---|
| `node` | the node LangGraph runs next; `end`, `aborted` (an exception left the graph), `out_of_steps` (`GraphRecursionError`), `crashed` |
| `fsm_state` … `commit_result` | the fields of `TaskState` (`state.py`), of the same names |
| `steps`, `RecursionLimit` | LangGraph's count of node executions and its limit |
| `run`, `Generate` | the n-th `1c-ai generate` on the same configuration, i.e. the same `thread_id` |
| `branches`, `head`, `commits` | the git repository, as `create_branch` and `commit` change it |
| `generated` | files in `runtime/generated/` and the code in them |
| `escalation` | the last report in `runtime/escalations/` |
| `route_after_*` | `routers.py` |
| `Preflight` … `Escalate` | `nodes/*.py` |

A piece of code is named by the invocation, subtask and attempt it came from, and
a failed check by the attempt that caused it; so a property can tell *whose*
code was committed and *which* attempt a verdict or a prompt speaks of. What an
LLM, validator, git command or file operation answers is a nondeterministic
choice among the answers the code accepts. Exceptions are the `Raise`
disjuncts. A git command may fail after it had its effect. `Crash` interrupts
any node, `commit` after any of its writes.

`TaskFlow` is the abstract specification: what a task promises, without nodes,
verdicts and feedback: budgets, deliveries in order, done exactly after the last
one, escalation only after an attempt. `ImplementsTaskFlow` is the refinement
(`Flow == INSTANCE TaskFlow WITH ...` in `Pipeline`).

### 2.2 `Facade`

| TLA+ | code |
|---|---|
| `in_memory`, `checkpoint` | `FacadeStateStore._in_memory`; the checkpoint `aget_tuple` answers |
| `subtask_to_plan` | `FacadeHandlers._subtask_to_plan` |
| `call[c]` | the local variables of the handler coroutine that serves client `c` |
| `suggested[c]` | the `next_action` of the last answer |
| `CallPlan`, `CallOnSubtask`, `CallOnArtifact` | the handlers up to the await of the node |
| `PlanDone` … `CommitDone` | the rest of each handler, with `_save_state` and the answer |
| `after_*` | `next_action.py` |
| `load_state`, `save_state` | `state_store.py` |
| `code_node`, `validate_node`, `Reviews` | the nodes, as far as they touch the state here |

A handler loads the state, awaits a node and saves *its copy*: the two halves are
two actions, so calls on one plan overlap as they do on the event loop. (With the
in-memory store this is the exact granularity, because nothing else in a handler
suspends it. With a checkpointer, load and save suspend too; they are part of
the neighbouring step.) `load_state` with a checkpointer may answer `None`:
the code turns every exception into that, and so does a saver that stored the
checkpoint without its channel values. `save_state` may fail over to memory, and
a checkpoint may never become the one that is read, as its id is a random
`uuid4` and both savers of LangGraph answer the greatest id.

Clients either follow `next_action` (`Guided`) or call anything at all.

### 2.3 `Validators`, over `KnowledgeBase` and `BslLs`

| TLA+ | code |
|---|---|
| `check[n]` | the local variables of the n-th `validate_node` and of its validators: verdict, code, and the fields below |
| `task[v]` | validator `v` as the event loop sees it: `ready`, `waiting` (a thread, Java, the container), `done` |
| `May` | the loop runs the ready tasks in the order of their creation, and none while Java blocks it |
| `found`, `failed_checks` | the list each validator returns; what `validate_node` passes on of the four |
| `collection`, `schemas` | `KBCollection` after `__init__`: id → file; which JSON schemas it found |
| `methods_cache`, `database` | `_platform_methods_cache`; `platform-methods.db` as it is now |
| `Asks`, `seen_methods` | the loop over the calls in the code, in the thread of a validation |
| `FindsEmpty`, `ReadDatabase`, `StoreDatabase`; `reading` | `_load_platform_methods_from_db` without a lock: its test, its read, its assignment; what the thread has read and not yet stored |
| `java`, `temp`, `jar`, `backend` | Java processes and their temporary files; the jar; the strategy `make_bsl_ls_backend` chose |
| `parse_lint_output`, `FindingsOf` | the loops that stop at the first entry they cannot read |
| `blind`, `settled`, `died` | observed only: who could not look, by which contents a question was answered while no other thread was loading any, whose preparation failed |

`Start` makes the servers of a process (`CliToolProvider`), `FanOut` starts a task
group, `FanIn` judges. The facade answers its calls beside each other with one
`KbServer` and one `BslLsServer`, so **validations overlap**: `FanOut` waits for no other
validation, each has a thread of its own for the methods, and the container works on the
requests of all. Only a Java subprocess keeps everybody waiting (`LoopFree`): event loop and
fan-outs, though not the threads. The jar and the database come, change and go at any moment.
`Gate` is the abstract specification of any number of validations: checkers report in any
order, once each; a gate opens exactly if nobody reported a critical finding; everything
that is not mere information is passed on. `ImplementsGate` is the refinement.

Since the cache of the methods database is loaded by threads without a lock, two of them may
find it empty, read the file before and after it is written anew, and judge by
different contents; the later assignment wins, so even one validation may be judged by two.
This is what the code does, and no property denies it. `OneDatabaseOnceSettled` says how far it
goes: from the first question answered from the database while no other thread was between
the test and the assignment, the cache is what that question was answered by, and no
thread loads again, whatever becomes of the file.

Worth knowing: the docstring of `validate.py` calls the validators parallel, but `lint`
in a subprocess is a blocking `subprocess.run`, so the other validators wait, which is
why `May` asks for `LoopFree`. A file whose schema is missing is loaded unchecked.

### 2.4 `GitServer`

A flow (`_git_flow` of `nodes/commit.py`) is `rev-parse`, `checkout -b`, the file, then
`checkout`, `add`, `commit`, and, with `1C_AI_OPEN_PR=1`, the pull request; each a
subprocess, each its own action, each possibly failing before or after its effect.
`head`, `index`, `worktree`, `refs` and `commits` are git's state, shared by all flows.
`mixed` is observed: the flows between whose commands another flow's ran.
The names of branches are cut to eight characters of the ids in the code, so two
flows may be given one branch; a name that is not well-formed is refused.

### 2.5 `ConfigLifecycle`, over `ConfigRegistry`

| TLA+ | code |
|---|---|
| `registry` | `runtime/config-registry.json`: whole, torn (being written) or absent; `Load` is `_load` |
| `proc[p]` | a command: its instance of the registry (`entries`, read once at the start), where it stands, what is left to do, its exit code |
| `source[c]`, `index[c]` | the unpacked sources and the index files of a version, with modification times and the contents they were built from |
| `is_fresh`, `freshness_check` | `data_layer/freshness.py` |
| `StartSave`, `FinishSave` | `write_text`: truncated, then filled |
| `Unpack` … `BuildSecondary` | the steps of `config_add`, `config_remove`, `config_build` in their order |
| `Edit`, `EditQuietly` | a user changes sources, with or without a newer modification time |
| `raced` | observed: commands met in a way the registry has no protection for |

`raced` is set when `add` or `remove` runs beside any other command (`Meets`) and when
two writes of the registry overlap (`StartSave`). Nothing in the code excludes these
meetings (there is no lock), and they do lose entries, so the properties are stated
up to such a meeting; they hold in every other case, builds and checks in parallel,
crashes between any two steps and edits at any moment included.

What the code does beyond that and the definitions abstract: the order of entries in the
file; the registry that the facade reads once at its start. `Secondary` is a sequence: one index stands for the three
that are built after `unified_metadata` in the same way. Visible in the definitions: a
torn `unified_metadata` has a modification time and counts as fresh (`FreshIsCurrent`
speaks of whole ones); after a crash between it and the other indexes a later build
calls the version fresh and leaves those out; `build` without a version returns 0 at
the first fresh version (`Skip`).

### 2.6 `VectorStore`, `ChunkStore`

`chunks` is the list of `InMemoryVectorStore`, `rows` the table `code_chunks` of
`PgVectorStore`. Both get the same batches and deletes: the list at once, the table
a row at a time (`batch` is what is left of it), and either the process or a row
that PostgreSQL refuses (`'NULL'::vector`) may end the batch in the middle. `reader`
is `semantic_search` in another process: two queries, then the fusion by rank
(`Fuse`, with the constant 60 of the code). Of equal scores the list keeps its order,
the table any (`StableTop`, `AnyTop`). A search of the table is an exact top-n here; the
IVFFLAT index (`vector_store.py:299`) is approximate and may answer other rows, which no
property depends on. A sort is the positions of a list `Arranged` in
an order, a filter the entries `Kept` at some positions. Scores of the fusion are exact
fractions (`Share`, `Exceeds`); the code's doubles tell the same ones apart, as a sum of
two of them is monotone in each and strict far beyond any `top_k`. `ChunkStore` is what
`VectorStoreProtocol` promises, a map in which an id has the last chunk given for it and
nothing else changes, written as what must hold of the map afterwards; the list, which
drops and appends chunk by chunk, implements it.

Worth knowing: `chunk_id` is made of the configuration, object and method, so a method
of the object module and one of the manager module with the same name are one chunk,
and `ON CONFLICT` keeps the old row's `module_kind` (hence `StoresAgree` is about the
code only); the hybrid answer of PostgreSQL nests its metadata, so the server
answers module `"unknown"`; `get_similar` of PostgreSQL is always empty; the fallback of
`make_vector_store` is never taken; `_conn` is kept after a failure; `upsert_chunks` has
no caller outside the tests.

### 2.7 `Session`, over `RetryPolicy`

| TLA+ | code |
|---|---|
| `EnterMemory`, `EnterPostgres`, `Connect`, `Setup`, `Exit` | `PersistenceManager.__aenter__`, `__aexit__` |
| `conn`, `saver` | the connection held by `_saver_cm`; `_checkpointer` |
| `StartRetry`, `Succeeds`, `Fails`, `Sleep` | `with_retry`; `tries` are the errors and the delays so far |
| `compute_delay` | `_compute_delay`: what the server asks for, multiples, or powers of two (`Power2`), capped by `MaxDelay` |
| `StartCli`, `CliAnswers`, `CliTimesOut`, `Reap` | `ZaiCliLLM._call_cli`: the process, its file, its timeout, kill and wait |
| `Cancel` | `CancelledError` at any await; `except Exception` does not see it |

Worth knowing: `with_retry`, `RETRYABLE_ERRORS`, `TOOL_GROUPS` and `ToolProvider` have no
caller, so `Session` lets a session call `with_retry` with any function;
`RETRYABLE_ERRORS` lists three classes while the code retries every error whose action
is `RETRY`; failures of z-ai are no `AgentError`s; an exhausted `LLMRateLimitError` is
reported as `tool_error`; `max_attempts=0` ends in an `AssertionError`; the facade enters the
manager inside an `asyncio.run` whose loop is closed before the server runs. A
cancellation while the connection is set up leaks it, one during a z-ai call leaves
the process: the properties name these two places and no others.

Delays are not simply increasing in the code. What a rate limit asks for has nothing to do
with the attempts before it, and a connection error at attempt n waits n times the base,
where any other error waits 2^(n-1) times (`retry.py:119-123`): after a timeout at
attempt 4 (8 times) a connection error at attempt 5 (5 times) waits less.
`RetryKeepsItsWord` names these two exceptions and no others; it speaks of delays that are
slept, for errors in any mixture (`Raised`).

Two simplifications: a timeout of the z-ai process always ends the session, although a caller
may catch it and go on; and a connection whose closing failed
(`"given up"`) counts as closed, as nobody holds it any more.

### 2.8 `Analysis`, over `DependencyGraph` and `CallGraph`

`config build` reads every code file twice (exports, then calls) and every metadata file
once; files come in any order. Then a client asks. `queue`, `visited`, `result` are
the variables of `get_transitive_dependencies` / `_dependents`, one `Visit` per object
taken from the queue, which meets the neighbours in any order (the order of the edge
list is that of a directory listing). `Collected` is `_collect_edges_for_targets` with its
set of objects *and* pairs. `CallGraph` has both readers: `_extract_methods`, by regular
expressions over the text, and `_find_current_procedure`, backwards by lines.

**Not every call is seen.** `call_graph.py` passes over a cross-module call whose object has a
name in `_STANDARD_OBJECTS` or `_BSL_KEYWORDS` (lines 331-332) before it asks whether the
configuration has a module of that name, so calls of a common module «Пользователи» or
«ФоновыеЗадания», say, are lost; line 70 has it that such names are no modules of a
configuration. The expressions (30-32, 349) know only names that begin with a
Cyrillic letter, and names are compared with upper and lower case as written. `Skipped` and
`CyrillicNames` model this (a name stands for one spelling), and what `CallersAreFound` owes are the
calls of `Visible` names: a query for the callers of any other module is answered, and may
be answered with nothing. The run has a module of either kind.

Worth knowing, and visible in the definitions: the scan by lines does not know `Асинх`;
code behind the last procedure is attributed to it; a local call is answered as one of
`CommonModule.Unknown` (`Converted`), although `models/graph.py` says `None` is the same
module; every target is answered as a common module; forms' modules pass as common
modules of the form's name; of a composite type only the first reference counts;
registers of accounting and calculation and HTTP services match no file. Not visible:
regions get wrong ends (`module.py:303-389`); `Экспорт` in a comment behind a head counts;
`utf-8` without `-sig` hides a method in the first line of a file with a BOM; the whole
graph is cut off at 500 edges.

## 3. The runs

### 3.1 Runs that pass

| run | instance | properties | what it shows |
|---|---|---|---|
| `pipeline_git` | every plan of one or two subtasks with budgets 1 and 3, git | `TypeOK`, `AssertionsHold`, `IterationHistory`, `CoderSeesLastFailures`, `EscalationIsJustified`, `OnlyApprovedCodeIsDelivered` | against every combination of answers and a crash anywhere, the nodes' assertions hold, counters and feedback belong to the subtask and attempt at hand, and no gate is passed on another attempt's verdict |
| `pipeline_file` | one or two subtasks with the longest budget, without git, limit exactly 23 | `LimitOnlyStopsLongPlans`, `InvocationSettles` | 1 + 22 n steps are enough for n subtasks (plans of two may be cut off, of one never), and every invocation ends |
| `pipeline_rerun` | two invocations over one repository | `CommittedPrefix`, `ImplementsTaskFlow` | commits follow the plan and the state tells which are there; the pipeline implements `TaskFlow` |
| `facade_guided` | two clients that follow `next_action`, two plans without a subtask id in common, failing LLM and git, one restart, store in memory | `TypeOK`, `GuidedCommitsAreValidated`, `CommitsFollowPlan`, `ArtifactIsTheOneMeant`, `NothingForgotten` | guided clients commit validated code, in the order of the plan; the artifact the client means is the one the server looks at |
| `facade_free` | two clients that make any six calls on one plan, store with a checkpointer | `StatesAreConsistent`, `CommittedOnce` | lost updates and stale loads never produce an inconsistent state or a second commit of a subtask |
| `validators` | two validations, overlapping or one after the other, or restarts; three backends, a knowledge base with an unreadable file, two against their schema, of which one is missing, one that does not compile and two with one id, two contents of the database and none | `GateIsSound`, `BadFileDisablesItself`, `NothingLeftBehind`, `OneDatabaseOnceSettled`, `ValidationReturns`, `ImplementsGate` | the gate is open on plainly wrong code only where the validator that looks for it was blind; a bad file costs its own findings; every validation ends; threads that load the database together end with one of its contents; the fan-outs implement the gate |
| `git_server` | two flows, two files, three branch names (one ill-formed) | `CommitIsItsOwn`, `OnlyWrittenCode`, `BranchesOnlyGrow` | flows may commit to each other's branch, but no branch loses a commit, code stays in its file, and a flow that was alone reports the truth |
| `config` | two processes, two versions of one configuration, four commands, two events on sources | `RegisteredIsUsable`, `FreshIsCurrent`, `EntriesKept`, `SuccessIsReal` | across crashes between any two steps, what is registered is there, fresh is current, entries are kept, and exit code 0 means it |
| `vector_store` | three chunks of three objects, two versions and two kinds, one without an embedding, one delete, a search in parallel | `StoresAgree`, `HybridRespectsBoth`, `AnswersAreClean`, `ImplementsStore` | list and table hold the same code, the list implements `ChunkStore`, fused answers respect both searches even when the table changes between them |
| `session` | two calls, 0, 1 or 6 attempts, with and without a database, six errors, one at least of each way to be treated, in any mixture | `NothingIsLeftBehind`, `RetryKeepsItsWord`, `CallEnds` | whatever fails or is cancelled, connection, process and file are gone except in two named places; retries follow the taxonomy, and what is slept shrinks only as the code's formulas let it |
| `analysis` | 810 reference graphs of three objects and a register, with cycles and a torn file, a diamond; modules that call each other, one of them named like a platform object, one with a Latin name; all questions about dependencies and calls | `TransitiveIsReachable`, `AnswerStaysInReach`, `CallersAreFound` | walks find exactly what is within reach; every call of visible names is found under its method in whatever order files were read |

### 3.2 Where the code differs from what is written about it

`claim_neighbours` checks the comment of `metadata/server.py:402`, edges of the transitive
neighbours are included (`EdgesOfNeighboursIncluded`): `seen_targets` already holds the
direct neighbours, and line 404 skips those, so of A → B → C asked with depth 2 the edge
B → C is missing. `PROJECT.json` ("findings") quotes the lines.

These definitions state further promises of comments and documents that the code does
not keep. They have no run, so that all runs are checked together; each is
violated by TLC with the instance named.

| definition | instance | statement | what happens |
|---|---|---|---|
| `Pipeline!EscalationReasonIsTrue` | `MCSubtasks` | `errors.py:238`, the reason of an escalation | `escalate.py:43` compares with a fixed 3 instead of the budget: an exhausted budget of 1 is a "tool error" |
| `Pipeline!SavedCodeSurvives` | `MCTwoModules`, no git | `commit.py:30`, commit saves the generated code | a module of the same kind overwrites the file: only its base name is kept |
| `Pipeline!NeverOutOfSteps` | `MCDefaultSubtask`, limit 25, two subtasks | `00-overview.md:163`, three attempts, then escalation | LangGraph's default limit of 25 ends the run before |
| `Facade!IterationsOfCurrentSubtask` | `MCDistinct` | `state.py:111`, `iterations` is of the current subtask only | the facade never runs `next_subtask` |
| `Facade!ArtifactIsTheOneMeant` | `MCSameId` | `facade/contracts.py:96`, the artifact id names subtask and attempt | plans with a subtask id in common redirect each other's |
| `Facade!SessionKeepsState` | `MCOnePlan`, checkpointer | `state_store.py:157`, a state whose save failed is kept for the session | it is written where no load looks |
| `Facade!FallbackProceedsOnValidated` | `MCOnePlan`, not guided | `review.py:152`, without an LLM, review proceeds on a validated attempt | on the verdict in the state, whichever attempt it is of |
| `GitServer!FilesChangedIsTrue` | `MCGitServer` | `git/contracts.py`, `files_changed` is what the commit changed | what a failed flow left in the index is in the next commit too |
| `ConfigLifecycle!BuildSkipsOnlyFresh` | `MCConfig` | `config.py:185`, what is fresh is skipped | at the first fresh version the whole command returns 0 (line 195) |

Noted while modelling, visible in the definitions and left without one:

* `docs/architecture/00-overview.md:131`, the LLM cannot make a fourth attempt:
  `max_iterations` (1..5) comes from the Planner LLM (`LlmPlans`).
* `contracts.py:169`, `passed` = `decision == "proceed"`: `Review` takes both from the
  LLM's answer, unrelated; the router reads `passed`, the facade `decision`.
* `contracts.py:157`, a finding's recommendation is proposed to the LLM in the retry:
  `reminder_for_retry` reads only the failed checks of the validation.
* `docs/architecture/CONCEPTUAL.md:159`, long tasks are restored from the last
  checkpoint: `Generate` passes a complete new `TaskState`.
* `next_action.py:61`, the retry has the failed checks in its feedback: the facade
  never runs `retry`, the reminder stays empty (so `Facade` leaves it out).
* `tests/mcp_servers/test_facade_state_store.py:280`, the second save overwrites the
  first: with random checkpoint ids it may not (`save_state`).

### 3.3 Bounds, and why they are enough

* **Subtasks and budgets.** Two subtasks reach every transition between subtasks
  (first, next, last); budgets 1, 2, 3 and 5 reach the limits of both routers with
  and without a retry. The theorems have no such bound.
* **Invocations** (`MaxRuns` = 2): what an earlier invocation leaves (branch,
  commit, file) meets a later one. A third meets nothing new: each reads only
  whether a branch or a file exists.
* **`RecursionLimit`**: 45 = 1 + 22·2 never interferes; 20 cuts some plans off; 23 is
  the exact need of one subtask.
* **`critical` 0..3**: the router only compares with 3.
* **`MaxCodes`** (2 or 3 pieces of code per plan), **`MaxCalls`** = 6 in `facade_free`: a
  plan, two subtasks, a retry and a repeated call. At the bound, `generate` can only
  fail. Six calls of two clients hold plan, generate, validate, review and an overlapping
  generate and review: each pair of handlers that read and write the same field.
* **`validators`**, `MaxCalls` = 2: the second validation meets what the first left
  (cache, container's queue, temporary files), in the same process or a new one, or runs
  beside it, which is all that two threads need to load the cache together; a third would
  add readers, not ways to meet. One file of each fate, one issue of each fault before and
  behind an error, one question to the database per piece of code. The schema of standards
  is always missing, so that their detection always raises, and never that of antipatterns:
  the other cases are the theorems' only.
* **`git_server`**: two flows overlap or follow each other; a third would add commits, not
  ways to meet, since each command reads HEAD, index and one ref.
* **`config`**, `MaxCommands` = 4 (add, build, a command that crashes, and one that meets
  what it left), `MaxEvents` = 2 (unpacking and one edit), one index for the three
  secondary ones, each of which is built like it.
* **`vector_store`**, `MaxChunks` = 3, `MaxBatch` = 2: a first writing, a conflict and a failure in one
  batch or several; codes for each relation of the two searches (both, one, no
  embedding); `TopK` 1 and 2 cut the answer or not. `NoEmbedding` is a number no
  similarity has.
* **`session`**: two calls, so that one follows what the other left; 6 attempts reach the
  cap of the delay (8 times the base) and the mixture of errors in which a later delay is
  shorter, 1 and 0 are the ends of the range.
* **`analysis`**: three objects with up to two references each make every cycle up to
  length three and every self-reference; ways of different length to one object need
  the diamond. Depths 1 to 3 are below, at and above the diameter.
* Every safety property of every run has a theorem without these bounds (section 4); what
  `Facade` promises guided clients under the hypothesis given there.
* **Symmetry** (`facade_free`: clients; `config`: processes; `vector_store`: versions, objects,
  kinds): no action or property names one of them, and these runs have no liveness.
* **Deadlock** is checked wherever `Finished` says where the system really ends. It is off
  for `config` and `vector_store`, which stop when the bound of commands or chunks is
  used up, and for the facade's runs: clients stop at the bounds and, after a restart
  in memory, guided clients have nothing left to call.

### 3.4 Fairness

* `Pipeline`: weak fairness of `PipelineStep` as a whole: asyncio continues a
  coroutine once what it awaits has returned or raised, and every call of a node is
  bounded by a timeout or raises; nothing says *which* disjunct happens, so
  `InvocationSettles` does not rely on a kind LLM, only on the attempt limits. No
  fairness of `Crash` or `Generate`.
* `Validators`: weak fairness of `Progress`, i.e. of all steps of tasks and all fan-ins
  together: the event loop runs ready tasks, the threads run, and Java and the client of the
  container have timeouts, which are among the disjuncts. That is enough for overlapping
  validations, as each has a bounded number of steps. None of `Start`, `FanOut`, `World`
  or `Crash`.
* `Session`: weak fairness of `Sleep`, of `CliTimesOut` or `CliAnswers` together, and of
  `Reap`: timers fire, and a process that is over is noticed. Nothing is assumed of the
  z-ai process: `CallEnds` holds because of the timeout.
* The others have none: nothing obliges a client, a user or another process to act.

## 4. What is proved

`PipelineProofs` proves, for every set of subtasks, plan length, number of
invocations and step limit (assumption `PipelineAssumption`: the types of the
constants, with budgets between 1 and 5 as `Subtask` declares):

| theorem | property |
|---|---|
| `Types` | `[]TypeOK` |
| `Assertions` | `[]AssertionsHold` |
| `History` | `[]IterationHistory` |
| `Reminders` | `[]CoderSeesLastFailures` |
| `Escalation` | `[]EscalationIsJustified` |
| `Limit` | `[]LimitOnlyStopsLongPlans` |
| `Delivery` | `OnlyApprovedCodeIsDelivered` |
| `CommitsArePrefix` | `[]CommittedPrefix` |
| `Flows` | `ImplementsTaskFlow` |

None of the properties is inductive: what a node may rely on depends on where in
the cycle it stands. The inductive invariant `IInv` therefore says what holds at
which node, in parts:

* `TaskTypeOK` and `IterationHistory`;
* `PlanInv`: before `plan` has run nothing was attempted; afterwards there is a
  current subtask (needed wherever `current_subtask` is read);
* `AttemptInv`: no attempt at `gather`, room for one more at `code`, at least one
  after it (this is what the two routers' comparisons are for);
* `ReminderInv`: a reminder waiting for the coder is of the attempt before;
* `VerdictInv`: from `review` on, the validation in the state is of the current
  attempt; at `commit` the review is too, and both passed;
* `StepsInv`: a bound of the executed nodes by 22 per finished subtask and 4 per
  attempt, with a constant that depends on the node.

`InvInit` and `InvStep` (one lemma per node; `StopStep` for every way an
invocation stops) give `Invariance`; types of what is outside the process are
proved from it with `CommitWrites`, which says what a commit, complete or not, can
have written. `Delivery` is an action property: from `IInv` at the step,
`CommitWrites` leaves one new piece of code, the last attempt.

The last two need to know what is in git, not only what the state says, so two more
invariants rest on `IInv`. `StatusInv`: "done" is said between the commit of a subtask and
what follows it and nowhere else. `PrefixInv`: the commits of this invocation are those of
the subtasks before the current one, one each, in the order of the plan, and that of the
current one once it is done or, if the node was interrupted, perhaps. It speaks of the
commits of *all* invocations, because a later one must not find commits that look like
its own. For the refinement, a node is one step of `TaskFlow` or a stutter: `plan` fixes
the budgets, `code` makes an attempt, `commit` delivers, and whatever stops the graph
before its end is a `Fail`.

`FacadeProofs` proves, for any number of clients, plans, subtask ids, calls, pieces
of code and restarts, for both stores, and for clients that follow `next_action`
or do not (assumption `FacadeAssumption`: the types of the constants; a plan has a
subtask, as `nodes/plan.py:135` sees to; `"none"` is not an id):

| theorem | property |
|---|---|
| `FacadeTypes` | `[]TypeOK` |
| `Consistency` | `[]StatesAreConsistent` |
| `Once` | `[]CommittedOnce` |

`FInv` is the inductive invariant. That a saved state is consistent depends on the
copy some handler has been holding since before other handlers saved theirs, and that copy on
whatever the store answered then; so `FInv` says the same of all of them:

* `StoredInv`: whatever the store may answer is `Sound`, i.e. consistent with the code
  generated for the plan *so far*, and its index is in the plan;
* `InHandInv`: so is the copy of each handler, which also has what the rest of
  the handler relies on (subtasks, an attempt, the decision to proceed);
* `BranchInv`: each commit stands on a branch of its own, which with the refusal of
  `git checkout -b` gives `CommittedOnce`.

`SoundForMore` is why overlaps do no harm: code generated by others meanwhile only widens
what a state may name. `NewStateIsSound` … `CommitIsSound` say that each node keeps a
state sound, `AwaitStep`, `AnswerStep` and `ErrorStep` treat the three ways a
handler's step ends, one lemma per action puts them together.

What `Facade` promises guided clients is proved as `GuidedAlone /\ Spec => []P`:

| theorem | property |
|---|---|
| `GuidedValidated` | `[]GuidedCommitsAreValidated` |
| `GuidedInOrder` | `[]CommitsFollowPlan` |
| `GuidedArtifacts` | `[]ArtifactIsTheOneMeant` |
| `GuidedMemory` | `[]NothingForgotten` |

`GuidedAlone` says that clients follow `next_action`, that states are kept in memory, and
that no two subtasks share an id, in one plan or in two. It is a hypothesis and no
assumption on the constants, since the code guarantees none of it: ids are the Planner
LLM's wherever it gives any (`plan.py:124`), and a checkpointer may answer an older
state. Where it fails these properties are not claimed, and section 3.2
shows two ways in which they break; `Consistency` and `Once` need none of it. The run
`facade_guided` is an instance of it. The invariant `GInv` adds to `FInv`:

* `OwnInv`: no two clients act on one plan, and `FreshInv`: a plan that is not given out or
  still being made has left no trace;
* `CacheInv`: the cache leads from a subtask to the plan it belongs to;
* `RecordInv`: a state in memory knows every piece of code made for its plan and how far it is
  done; `DoneInv`: commits are of code made for their subtask, in order;
* `FitsInv`: what a client was told to do next fits the state, down to the number of the
  attempt and the verdict on it; `WorkInv`: a handler's copy is what is in memory, changed at
  most by itself.

The last two tie a client's idea of the plan to the server's across restarts, failures and
the await in the middle of each handler; the four properties are read off them.

`AnalysisProofs` proves, for any set of objects and files, any configurations and any
questions, i.e. for every reference graph, direction and depth, and for every order of
files and neighbours (assumption `AnalysisAssumption`):

| theorem | property |
|---|---|
| `Reach` | `[]TransitiveIsReachable` |
| `InReach` | `[]AnswerStaysInReach` |
| `Callers` | `[]CallersAreFound` |
| `Types` | `[]TypeOK` |

The specification of a walk is about paths (`Within(n)`: a path of 1 to n references leads
there), the code marks objects when it meets them and compares the depth when it takes them
from the queue. `AnalysisInv` joins them: `GraphInv`, the edges collected so far are the
references of the files read, and all of them once the graph is served; `QueryInv`; and
during a walk `WalkInv`: everything queued, visited or in the result is within reach; and
there is a function `d` of depths (a witness, as the code keeps none) for which the
queue is in the order of the depths and spans two of them, and whatever a visited
object is next to was met no more than one deeper. When the queue is empty, a shortest
path to an object that was not met is a contradiction. Shortest paths need induction
over lengths, which the library has only with an operator parameter; `LeastNumber`, proved
from the least element of a set of naturals, replaces it.

`InReach` needs `AnswerInv`, that an answer is what was collected for the result of the walk,
and `EdgesAreTold`: every reference has a first edge in the list of the edges met.
`Callers` needs `CallInv`: the calls on disk are those of the files read so far, found
with the names of *all* of them, which is why the second pass may come only after the
first is complete; `ProcedureBefore` says which procedure the scan by lines finds. It is
why `AnalysisAssumption` also says of code files that lines are numbered, that a module
has a name and that no method is called `<модуль>`, which no identifier can be, or by a
keyword of the language. What it finds is all calls of `Visible` names, and the theorem holds for
any sets of platform objects, keywords and Cyrillic names.

`GitServerProofs` proves, for any number of flows, files and branch names, well-formed or
not, and any number of them interrupted or failing (assumption `GitAssumption`):

| theorem | property |
|---|---|
| `Growth` | `BranchesOnlyGrow` |
| `CodeInItsFile` | `[]OnlyWrittenCode` |
| `Commits` | `[]CommitIsItsOwn` |
| `Types` | `[]TypeOK` |

Flows share HEAD, the index and the work tree, so what a commit contains depends on what every
other flow has left there. `GitInv` follows a flow's code through all three places:
`BranchInv`, HEAD leaves the main branch for good once a flow has made its branch, and that
branch exists; `WrittenInv`, in every place the content of a file is the initial one or that of
a flow called for this file; `CleanInv`, what is in the work tree of a flow that has added is
staged, and what is staged of a flow that has committed is on HEAD, so a later commit
sweeps up only what a failed flow has left; `AloneInv`, how far a flow that nobody mixed
with has come: on its branch, its code in the work tree, staged, committed, and
nothing else with it. `CommitIsItsOwn` is `AloneInv` at its end.

`ValidatorsProofs` proves, for any pieces of code, knowledge base files, databases and
backends, with and without servers, and any number of validations and restarts
(assumptions `KnowledgeBaseAssumption`, of which the proofs need that a directory has
finitely many files and that schemas demand a pattern, `BslLsAssumption`, and
`ValidatorsAssumption`, the types of the rest):

| theorem | property |
|---|---|
| `Gatekeeping` | `[]GateIsSound` |
| `BadFiles` | `[]BadFileDisablesItself` |
| `FilesGo` | `[]NothingLeftBehind` |
| `OneDatabaseSettles` | `[]OneDatabaseOnceSettled` |
| `Gating` | `ImplementsGate` |
| `Types` | `[]TypeOK` |

Any number of validations share the event loop, the cache and the container, and a verdict
is given after the last validator, each of which has looked at another moment. So the
invariant `ValidatorsInv` has a part about one validation, by its local state alone:
`LocalInv` carries what each validator saw to the verdict. A validator that is done is blind or
has `Looked`, i.e. reported what there is to see (`ReportInv`); every method the thread has
behind it that nobody allows is found (`DenialInv`), whichever contents answered;
`SightInv`; `VerdictInv`. What a step of any task does is a *turn* of one validation (`Turn`) that
no other one notices (`Becomes`); `TaskTurns` reduces the steps to turns, `TurnKeeps` shows
`LocalInv` of a turn, and `LocalsStep` puts the validations together. The rest is about the
process: `DownInv`, a process that is down remembers nothing; `LoadedInv`, the entries are
those of the start; `FutureInv`, validations begin in the order of their numbers; and
`OneDatabaseOnceSettled` itself, which is inductive: a thread that stores alone leaves nobody
who could store after it (`SettledStep`). `ErrorGetsThrough` says what the two loops that
stop at an unreadable entry let through, `Loaded` which file an id stands for. For the
refinement, a validator that returns is a `Report` of its validation, entering the task group
`Begin`, leaving it `Judge` and a crash `Die`, and everything else a stutter.

`SessionProofs` proves, for any numbers of calls and attempts and any delays:

| theorem | property |
|---|---|
| `NothingLeft` | `[]NothingIsLeftBehind` |
| `RetryHolds` | `[]RetryKeepsItsWord` |
| `Types` | `[]TypeOK` |

`SessionInv` adds what makes the first inductive: only a session that is over was cancelled,
so the two exceptions of the property are about the call that was under way, and a process
that is waited for is dead. `RetryInv` is for the second: every attempt but the last raised
a retryable error; while `with_retry` runs so did the last, and one is left; every delay is
the one of its attempt, and at most `MaxDelay`. That what is slept
shrinks only in the two ways named is then `DelayGrows`: powers of two grow (`Power2Grows`), and
the power of an attempt is no less than its number (`Power2Bound`), so an exponential
delay after a linear one is no shorter.

`ConfigProofs` proves, for any number of processes, configurations, commands and events and
any sequence of secondary indexes (assumption `ConfigAssumption`: types, and
`unified_metadata` is not a secondary index):

| theorem | property |
|---|---|
| `TypesHold` | `[]TypeOK` |
| `RegisteredUsable` | `[]RegisteredIsUsable` |
| `FreshCurrent` | `[]FreshIsCurrent` |
| `EntriesStay` | `EntriesKept` |
| `SuccessHolds` | `SuccessIsReal` |

Commands act on copies of a file that others rewrite, so `ConfigInv` says who may be running
and what each copy has in common with the file:

* `PlaceInv`, `TodoInv`: which steps belong to which command, and what is left to do;
* `MeetInv`: of two commands at a time both know, and unless they raced neither changes what
  is registered; `SaveInv`: who saves alone finds the file as it left it, truncated;
* `KeysInv`: while nobody raced, all running commands and the file, whenever it is whole, have
  the same configurations registered. This is the step a crash or a torn file would break;
* `UsableInv`: what any of them has registered has complete sources, and what `add` or
  `remove` is working on is registered by none;
* `TimeInv`: what was read at the time t is what is there, unless an edit came later or left
  no time. `is_fresh` compares times only, so this is what freshness rests on;
* `AloneInv`: how far a command that nobody interfered with has come (`Undisturbed`), and
  which indexes a build has made (`BuiltSoFar`). `SuccessIsReal` is its end.

`VectorStoreProofs` proves, for any sources, versions, objects, kinds and codes, any scores,
batches of any size and any `top_k` (assumption `StoreAssumption`: the types of the
constants):

| theorem | property |
|---|---|
| `Types` | `[]TypeOK` |
| `Agree` | `[]StoresAgree` |
| `Respectful` | `[]HybridRespectsBoth` |
| `AnswersClean` | `[]AnswersAreClean` |
| `Implements` | `ImplementsStore` |

List and table differ all the time a batch is being written, so `StoreInv` says how: the list
has one chunk per id; of the ids that the batch still has, the last chunk is in the list
already (`PendingIsThere`); of the others, both have the same code (`OthersAgree`).
`ReaderInv` says that what a search has got so far is clean, whatever became of the rows
since. The operators need more than the steps: `LineUp`, that a finite set can be arranged
in any strict total order, is behind every sort and filter (`ArrangedIs`, `PickedKeeps`,
`KeptFacts`, `StableTopFacts`); `UpsertAllFacts` says what a list is after a batch;
`BetterShare`, that a better rank in one search and no worse one in the other is a greater
sum of fractions, is the heart of `FuseFacts` and of `Respectful`.

What a recursive function returns is proved here, for batches and for powers of two, by
hand: partial results exist up to every length and agree where both exist, each by the
least length at which they would not (`WritesExist`, `UpsertAllIs`; `DoublesExist`,
`DoublesAgree`).

Only model-checked: the liveness properties `InvocationSettles`, `ValidationReturns` and
`CallEnds`, as liveness under fairness is out of the prover's reach. Every other property of
a run that passes is stated by a theorem above, and the types of every module too.

## 5. Plan

Done: `Pipeline`, `Facade`, `Validators`, `GitServer`, `ConfigLifecycle`, `VectorStore`, `Session`,
`Analysis`, with the theorems of section 4. What could follow:

1. the guided theorems under a weaker hypothesis than `GuidedAlone`: with the ids of a plan
   repeated inside it TLC still finds all four properties to hold (plans `<<"a", "a">>` and
   `<<"c">>`). `CallOnSubtask` then finds the first position of the id and sets the index
   back to it, so `WorkInv`, `RecordInv` and `Fits` would have to follow the first position.
   That no other plan has the ids is needed: with ids shared between plans TLC finds
   `GuidedCommitsAreValidated` and `NothingForgotten` violated: the cache leads a call
   with such an id to the plan that entered it last, which may be another client's;
2. the safety half of the three liveness properties as bounds: how many steps a call or an
   invocation can still take, as `StepsInv` does for the pipeline.

## 6. What is not modelled, and why

* Wording: prompts, logs, messages, formatting of answers; `explain`, `run_cli` and
  `data_status` of the facade, `diff` of git, `format` and `health_check` of BSL LS, and the
  lookups and searches of the knowledge base and metadata servers change nothing
  that another call reads.
* `form.py`, `configuration.py` and the platform-help parsers: one file in, one record
  out, without state; regions, variables and comments of a module likewise.
* `PgVectorStore.get_similar`: a search by the embedding of a stored chunk, which on
  PostgreSQL is always empty.
* The transport and the server factory: the sessions are those of the MCP library.
* LLM providers, embeddings, git, PostgreSQL, LangGraph, Java: outside; modelled by what
  the code relies on (answers, failures, step limit, checkpoint order).
* The CLI apart from `generate`, `config` and the parts of `health` in `Session`: arguments
  and output; `library` follows the steps of `config`.
* Domain models: frozen records. Deployment, migrations, CI: configuration.
* Out of the prover's reach, so left to TLC: liveness and `ENABLED`.
