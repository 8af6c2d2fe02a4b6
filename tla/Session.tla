------------------------------- MODULE Session -------------------------------
(***************************************************************************)
(* What a command does with the world outside: it enters a                 *)
(* PersistenceManager (persistence.py), makes calls, some through          *)
(* with_retry (retry.py), some to the z-ai executable (zai_llm.py), and    *)
(* leaves, as generate and health do.  It can be cancelled at every await: *)
(* CancelledError is no Exception.  with_retry has no caller in the        *)
(* repository; it is modelled for any function it may be given.            *)
(***************************************************************************)
EXTENDS RetryPolicy, Sequences, FiniteSets

CONSTANTS
  Dsns,           \* is DATABASE_URL set: a subset of BOOLEAN
  Attempts,       \* values of max_attempts
  Raised,         \* what a function given to with_retry may raise
  MaxCalls        \* bound: calls of a session

ASSUME SessionAssumption ==
  Dsns \subseteq BOOLEAN /\ Attempts \subseteq Nat /\ Raised \subseteq Errors /\ MaxCalls \in Nat

VARIABLES
  pc,             \* where the session is
  dsn,            \* DATABASE_URL is set
  conn,           \* the connection of the held AsyncPostgresSaver context manager
  saver,          \* _checkpointer
  tables,         \* the checkpoint tables are there
  max_attempts,
  tries,          \* with_retry: what the attempts so far raised, and the delays after them
  child,          \* the z-ai process
  file,           \* the output file of the z-ai call
  calls,
  cancelled       \* observed: where the session was cancelled

pmVars == <<dsn, conn, saver, tables>>
retryVars == <<max_attempts, tries>>
llmVars == <<child, file>>
vars == <<pc, dsn, conn, saver, tables, max_attempts, tries, child, file, calls, cancelled>>

Nowhere == "nowhere"
Awaits == {"connecting", "setup", "trying", "sleeping", "cli", "reaping", "health"}
Calling == {"trying", "sleeping", "cli", "reaping", "health"}
Ended == {"over", "failed"}

-----------------------------------------------------------------------------
(* PersistenceManager.__aenter__ *)

\* Without a DSN, or without the package, a MemorySaver.
EnterMemory ==
  /\ pc = "start"
  /\ saver' = "memory"
  /\ pc' = "inside"
  /\ UNCHANGED <<dsn, conn, tables, retryVars, llmVars, calls, cancelled>>

EnterPostgres ==
  /\ pc = "start" /\ dsn
  /\ pc' = "connecting"
  /\ UNCHANGED <<pmVars, retryVars, llmVars, calls, cancelled>>

Connect ==
  /\ pc = "connecting"
  /\ \/ conn' = "open" /\ pc' = "setup"
     \/ conn' = "none" /\ pc' = "failed"
  /\ UNCHANGED <<dsn, saver, tables, retryVars, llmVars, calls, cancelled>>

\* Mutant: only the connection attempt is guarded.
KeepOpen == UNCHANGED conn

\* _close_saver_cm: an error while closing is logged, the handle is given up.
CloseSaver == conn' \in {"none", IF conn = "open" THEN "given up" ELSE "none"}

\* saver.setup() creates the tables; if it fails the connection is closed and
\* PersistenceError raised.
Setup ==
  /\ pc = "setup"
  /\ \/ saver' = "postgres" /\ tables' = TRUE /\ pc' = "inside" /\ UNCHANGED conn
     \/ CloseSaver /\ pc' = "failed" /\ UNCHANGED <<saver, tables>>
  /\ UNCHANGED <<dsn, retryVars, llmVars, calls, cancelled>>

\* __aexit__, and what the caller does with an exception that comes through it.
Leave(end) ==
  /\ CloseSaver
  /\ saver' = "none"
  /\ pc' = end

Exit ==
  /\ pc = "inside"
  /\ Leave("over")
  /\ UNCHANGED <<dsn, tables, retryVars, llmVars, calls, cancelled>>

\* health_check: aget_tuple over the connection, which may be lost.
CheckHealth ==
  /\ pc = "inside" /\ calls < MaxCalls
  /\ calls' = calls + 1
  /\ pc' = IF saver = "postgres" THEN "health" ELSE "inside"
  /\ UNCHANGED <<pmVars, retryVars, llmVars, cancelled>>

HealthKnown ==
  /\ pc = "health"
  /\ pc' = "inside"
  /\ UNCHANGED <<pmVars, retryVars, llmVars, calls, cancelled>>

-----------------------------------------------------------------------------
(* with_retry *)

\* An exception leaves the session.
Raise == Leave("failed")

StartRetry ==
  /\ pc = "inside" /\ calls < MaxCalls
  /\ calls' = calls + 1
  /\ max_attempts' \in Attempts
  /\ tries' = <<>>
  /\ IF max_attempts' = 0
       THEN Raise          \* the loop is not entered: AssertionError
       ELSE pc' = "trying" /\ UNCHANGED <<conn, saver>>
  /\ UNCHANGED <<dsn, tables, llmVars, cancelled>>

Succeeds ==
  /\ pc = "trying"
  /\ pc' = "inside"
  /\ tries' = <<>> /\ max_attempts' = 0
  /\ UNCHANGED <<pmVars, llmVars, calls, cancelled>>

LastAttempt == Len(tries) + 1 = max_attempts

\* Mutant: every error of the pipeline is worth another attempt.
RetriesAll(e) == e \in AgentErrors

WorthRetrying(e) == e \in Retried

\* The function raises e: raised on at once unless e is retryable and there is
\* an attempt left.
Fails ==
  /\ pc = "trying"
  /\ \E e \in Raised, h \in RetryAfters :
       LET again == WorthRetrying(e) /\ ~LastAttempt
           delay == IF again THEN compute_delay(e, Len(tries) + 1, h) ELSE 0
       IN /\ e # "LLMRateLimitError" => h = NoHint
          /\ tries' = Append(tries, [error |-> e, delay |-> delay])
          /\ IF again THEN pc' = "sleeping" /\ UNCHANGED <<conn, saver>> ELSE Raise
  /\ UNCHANGED <<dsn, tables, max_attempts, llmVars, calls, cancelled>>

Sleep ==
  /\ pc = "sleeping"
  /\ pc' = "trying"
  /\ UNCHANGED <<pmVars, retryVars, llmVars, calls, cancelled>>

-----------------------------------------------------------------------------
(* _call_zai_cli *)

\* The output file is made, the process is started; it may not be installed.
StartCli ==
  /\ pc = "inside" /\ calls < MaxCalls
  /\ calls' = calls + 1
  /\ \/ file' = "empty" /\ child' = "running" /\ pc' = "cli" /\ UNCHANGED <<conn, saver>>
     \/ UNCHANGED llmVars /\ Raise
  /\ UNCHANGED <<dsn, tables, retryVars, cancelled>>

\* The finally block.
Unlink == file' = "none"

\* The process is over: an exit code other than 0, an answer that is no JSON or
\* does not fit the schema raise; none of these is an AgentError.
CliAnswers ==
  /\ pc = "cli" /\ child = "exited"
  /\ child' = "none"
  /\ Unlink
  /\ \/ pc' = "inside" /\ UNCHANGED <<conn, saver>>
     \/ Raise
  /\ UNCHANGED <<dsn, tables, retryVars, calls, cancelled>>

\* Mutant: the process is asked to end, and may not.
Terminate == UNCHANGED child

\* proc.kill()
Kill == child' = "exited"

\* wait_for: proc.kill(), proc.wait(), TimeoutError.
CliTimesOut ==
  /\ pc = "cli" /\ child \in {"running", "exited"}
  /\ Kill
  /\ pc' = "reaping"
  /\ UNCHANGED <<pmVars, retryVars, file, calls, cancelled>>

Reap ==
  /\ pc = "reaping" /\ child = "exited"
  /\ child' = "none"
  /\ Unlink
  /\ Raise
  /\ UNCHANGED <<dsn, tables, retryVars, calls, cancelled>>

-----------------------------------------------------------------------------
(* Cancellation, and the world *)

\* CancelledError at an await: __aexit__ and the finally blocks run; the except
\* blocks for Exception and TimeoutError, which close a connection that is being
\* set up and kill the process, do not.
Cancel ==
  /\ pc \in Awaits
  /\ cancelled' = pc
  /\ pc' = "failed"
  /\ saver' = "none"
  /\ IF pc \in Calling THEN CloseSaver
     ELSE IF pc = "connecting" THEN conn' \in {"none", "open"} ELSE UNCHANGED conn
  /\ IF pc \in {"cli", "reaping"} THEN Unlink ELSE UNCHANGED file
  /\ UNCHANGED <<dsn, tables, retryVars, child, calls>>

\* The z-ai process writes its output file, and ends.
CliWrites ==
  /\ child = "running"
  /\ file' = "written"
  /\ UNCHANGED <<pc, pmVars, retryVars, child, calls, cancelled>>

CliEnds ==
  /\ child = "running"
  /\ child' = "exited"
  /\ UNCHANGED <<pc, pmVars, retryVars, file, calls, cancelled>>

\* The database goes away.
LoseConnection ==
  /\ conn = "open"
  /\ conn' = "lost"
  /\ UNCHANGED <<pc, dsn, saver, tables, retryVars, llmVars, calls, cancelled>>

Finished == pc \in Ended /\ child # "running" /\ UNCHANGED vars

Init ==
  /\ pc = "start" /\ dsn \in Dsns /\ conn = "none" /\ saver = "none" /\ tables \in BOOLEAN
  /\ max_attempts = 0 /\ tries = <<>>
  /\ child = "none" /\ file = "none" /\ calls = 0 /\ cancelled = Nowhere

Manager == EnterMemory \/ EnterPostgres \/ Connect \/ Setup \/ Exit \/ CheckHealth \/ HealthKnown
Retry == StartRetry \/ Succeeds \/ Fails \/ Sleep
Llm == StartCli \/ CliAnswers \/ CliTimesOut \/ Reap
World == CliWrites \/ CliEnds \/ LoseConnection

Next == Manager \/ Retry \/ Llm \/ Cancel \/ World \/ Finished

\* Timers fire, and a process that is over is noticed; nothing is assumed of the
\* z-ai process itself.
Fairness == WF_vars(Sleep) /\ WF_vars(CliTimesOut \/ CliAnswers) /\ WF_vars(Reap)

Spec == Init /\ [][Next]_vars /\ Fairness

-----------------------------------------------------------------------------
(* Properties *)

TypeOK ==
  /\ pc \in {"start", "inside"} \cup Awaits \cup Ended
  /\ dsn \in BOOLEAN /\ tables \in BOOLEAN
  /\ conn \in {"none", "open", "lost", "given up"}
  /\ saver \in {"none", "memory", "postgres"}
  /\ max_attempts \in Attempts \cup {0}
  /\ Len(tries) =< max_attempts
  /\ \A k \in 1..Len(tries) : tries[k] \in [error : Errors, delay : 0..MaxDelay]
  /\ child \in {"none", "running", "exited"} /\ file \in {"none", "empty", "written"}
  /\ calls \in 0..MaxCalls /\ cancelled \in Awaits \cup {Nowhere}

\* However a session ends, by an error of any call, by a failed set-up, by
\* cancellation, it holds no connection, except one that it was cancelled over
\* while it was being opened or set up.
ConnectionIsClosed ==
  pc \in Ended /\ conn \in {"open", "lost"} => cancelled \in {"connecting", "setup"}

\* No process and no file of a z-ai call outlives it, unless it was cancelled:
\* then the process runs on, and may leave its file.
CallLeavesNothing ==
  pc \notin {"cli", "reaping"} /\ (child = "running" \/ file # "none") => cancelled = "cli"

\* So a session leaves nothing behind: no connection, no process, no file.
NothingIsLeftBehind == ConnectionIsClosed /\ CallLeavesNothing

\* with_retry goes on exactly after retryable errors, the last attempt excepted:
\* it gives up on an error it was to retry only when no attempt was left.  A delay
\* is never shorter than one before it, with two exceptions: delays after rate
\* limits are what these dictate, and the linear one after a connection error may
\* be shorter than an exponential one after an earlier error of another kind.
RetryKeepsItsWord ==
  LET n == Len(tries)
      Slept == {k \in 1..n : k < n \/ pc = "sleeping"}
      Dictated(k) == tries[k].error = "LLMRateLimitError"
      Linear(k) == tries[k].error = "ToolConnectionError"
  IN /\ \A k \in 1..n - 1 : tries[k].error \in Retried
     /\ pc = "failed" /\ cancelled = Nowhere /\ n > 0 => tries[n].error \notin Retried \/ n = max_attempts
     /\ pc = "sleeping" => n < max_attempts /\ tries[n].error \in Retried
     /\ \A j, k \in Slept : j < k /\ tries[k].delay < tries[j].delay
          => Dictated(j) \/ Dictated(k) \/ (Linear(k) /\ ~Linear(j))

\* A z-ai call ends, even if the process never answers.
CallEnds == pc = "cli" ~> pc \in {"inside"} \cup Ended

=============================================================================
