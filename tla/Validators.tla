------------------------------ MODULE Validators ------------------------------
(***************************************************************************)
(* The fan-out of nodes/validate.py: four validators of one piece of code  *)
(* in one asyncio.TaskGroup, over the knowledge base and the BSL Language  *)
(* Server.  The event loop starts them in order and runs each until it     *)
(* awaits: the two detections never do, the methods are checked in a       *)
(* thread, and lint awaits only in backend "http" -- in backend            *)
(* "subprocess" it blocks the loop until Java has ended.                   *)
(*                                                                         *)
(* A validator that raises is one that reports what it found before it.    *)
(***************************************************************************)
EXTENDS KnowledgeBase, BslLs

CONSTANTS
  Codes,        \* the pieces of code that may be validated, see CodeOK
  Keywords,     \* words of Methods that are keywords of the language
  KbGiven,      \* a kb_server was passed to the node
  BslGiven,     \* a bsl_ls_server was passed to the node
  MaxCalls      \* bound: validations and restarts

\* issues: the report BSL LS would write; matched: the entries of the
\* knowledge base whose expression matches; calls: the identifiers followed by
\* a parenthesis, in order; context: constraints.target_context.
CodeOK(c) ==
  /\ c.issues \in Seq([id : STRING, severity : STRING, fault : {"none", "unparsable", "rejected"}])
  /\ c.calls \in Seq(Methods)
  /\ c.context \in Contexts

ASSUME ValidatorsAssumption ==
  /\ Codes # {} /\ \A c \in Codes : CodeOK(c)
  /\ KbGiven \in BOOLEAN /\ BslGiven \in BOOLEAN
  /\ MaxCalls \in Nat

Order == <<"bsl_ls", "antipatterns", "methods", "standards">>
Validator == {Order[k] : k \in 1..4}

Validations == 1..MaxCalls

\* The local state of a validation:
\*   verdict       "idle", "checking", "open" or "closed"
\*   code          what is validated
\*   task          validator -> "ready", "waiting" (thread, HTTP, Java) or "done"
\*   found         validator -> its findings
\*   blind         observed: the validators that raised or had no report to read
\*   seen_methods  of the method thread
\*   reading       None, or "loading" the database, or the contents it has read and not
\*                   yet stored
\*   failed_checks the findings passed on
VARIABLES
  up,           \* the server process runs
  call,         \* number of validations begun; Java processes have these numbers
  check,        \* validation -> its local state
  settled,      \* observed: contents that a question was answered by while no other
                \*   thread was loading any
  died          \* observed: validations whose lint could not be prepared or died with the process

vars == <<check, call, up, java, temp, methods_cache, settled, died,
          database, jar, backend, schemas, collection>>

NoCode == CHOOSE c \in Codes : TRUE

Idle == [verdict |-> "idle", code |-> NoCode,
         task |-> [v \in Validator |-> "ready"], found |-> [v \in Validator |-> {}], blind |-> {},
         seen_methods |-> {}, reading |-> None, failed_checks |-> {}]

Finding(source, id, severity) == [source |-> source, id |-> id, severity |-> severity]

-----------------------------------------------------------------------------
(* Tasks *)

Checking(n) == check[n].verdict = "checking"

\* Validation n has asked for a lint and not yet got it.
Awaited(n) == Checking(n) /\ check[n].task["bsl_ls"] = "waiting"

\* A Java process that is a child of the server blocks the event loop.
LoopFree == backend = "subprocess" => \A n \in Validations : ~Awaited(n)

\* v of validation n has not started and everybody before it has.
May(n, v) ==
  /\ LoopFree
  /\ Checking(n) /\ check[n].task[v] = "ready"
  /\ \A k, l \in 1..4 : Order[l] = v /\ k < l => check[n].task[Order[k]] # "ready"

Waits(n, v) == check' = [check EXCEPT ![n].task[v] = "waiting"]

\* A validator returns what it has.
Returns(n, v, findings) ==
  check' = [check EXCEPT ![n].task[v] = "done", ![n].found[v] = findings]

\* Mutant: a validator that failed is tried again.
TriesAgain(n, v) == check' = [check EXCEPT ![n].blind = @ \cup {v}]

\* `except Exception`
Fails(n, v) ==
  check' = [check EXCEPT ![n].task[v] = "done", ![n].found[v] = {}, ![n].blind = @ \cup {v}]

\* ValidationFinding refuses an issue: the ones before it are kept.
FindingsOf(diagnostics) ==
  LET kept == Before(diagnostics, "rejected") IN
  {Finding("bsl_ls", kept[k].id, kept[k].severity) : k \in DOMAIN kept}

LintSkipped(n) ==
  /\ May(n, "bsl_ls")
  /\ ~BslGiven \/ backend = "stub"
  /\ Returns(n, "bsl_ls", {})
  /\ UNCHANGED <<settled, died, methods_cache, java, temp>>

\* No jar any more, or no temporary directory: the source file may stay.
LintRefused(n) ==
  /\ May(n, "bsl_ls") /\ BslGiven /\ backend # "stub"
  /\ Fails(n, "bsl_ls")
  /\ \/ UNCHANGED <<temp, died>>
     \/ /\ backend = "subprocess" /\ jar
        /\ temp' = temp \cup {<<n, "source">>}
        /\ died' = died \cup {n}
  /\ UNCHANGED <<settled, methods_cache, java>>

\* The container queues the request behind the ones it is working on.
LintStarts(n) ==
  /\ May(n, "bsl_ls") /\ BslGiven
  /\ backend = "http" \/ (backend = "subprocess" /\ jar)
  /\ RunStarts(n)
  /\ Waits(n, "bsl_ls")
  /\ UNCHANGED <<settled, died, methods_cache>>

\* Java ends: with a report, without one, with an exception or a timeout.
JavaEnds ==
  /\ java # <<>>
  /\ RunEnds
  /\ LET n == Head(java) IN
       IF Awaited(n)
       THEN \/ Returns(n, "bsl_ls", FindingsOf(parse_lint_output(check[n].code.issues)))
            \/ Fails(n, "bsl_ls")
       ELSE UNCHANGED check
  /\ UNCHANGED <<settled, died, methods_cache>>

\* httpx gives up; the container does not notice.
ClientTimeout(n) ==
  /\ backend = "http" /\ Awaited(n)
  /\ Fails(n, "bsl_ls")
  /\ UNCHANGED <<settled, died, methods_cache, java, temp>>

\* A detection over the knowledge base, for the validators that only do that.
Detects(n, v, kind, source, filter) ==
  /\ May(n, v)
  /\ IF ~KbGiven THEN Returns(n, v, {})
     ELSE IF DetectionRaises(kind, filter) THEN Fails(n, v)
     ELSE Returns(n, v, {Finding(source, i, collection[kind][i].severity) :
                           i \in Detect(kind, filter, check[n].code.matched)})
  /\ UNCHANGED <<settled, died, methods_cache, java, temp>>

KbAntipatterns(n) == Detects(n, "antipatterns", "antipattern", "kb_antipatterns", {"critical", "warning"})
KbStandards(n) == Detects(n, "standards", "standard", "kb_standards", Severity)

MethodsStart(n) ==
  /\ May(n, "methods")
  /\ IF KbGiven THEN Waits(n, "methods") ELSE Returns(n, "methods", {})
  /\ UNCHANGED <<settled, died, methods_cache, java, temp>>

-----------------------------------------------------------------------------
(* The thread of a validation that checks the methods: any number of them   *)
(* run beside each other and beside the event loop.                         *)

InThread(n) == Checking(n) /\ check[n].task["methods"] = "waiting"

\* Keywords and methods seen before are passed over.
Passed(n, m) == m \in Keywords \cup check[n].seen_methods

\* m is the next call in the code that is a question.
Asks(n, m) ==
  LET calls == check[n].code.calls IN
  /\ InThread(n) /\ ~Passed(n, m)
  /\ \E k \in DOMAIN calls : calls[k] = m /\ \A l \in 1..k - 1 : Passed(n, calls[l])

\* It finds the cache empty and goes for the file, and can be interrupted.
FindsEmpty(n) ==
  /\ \E m \in Methods : Asks(n, m)
  /\ check[n].reading = None /\ cache_empty
  /\ check' = [check EXCEPT ![n].reading = "loading"]
  /\ UNCHANGED <<settled, died, methods_cache, java, temp>>

\* Whatever another thread has stored meanwhile.
ReadDatabase(n) ==
  /\ InThread(n) /\ check[n].reading = "loading" /\ database \notin NoDatabase
  /\ check' = [check EXCEPT ![n].reading = database]
  /\ UNCHANGED <<settled, died, methods_cache, java, temp>>

\* Mutant: methods of the client are looked for on the server.
ContextSwapped(known, m, context) ==
  check_method_availability(known, m, IF context = "server" THEN "thin_client" ELSE "server")

Available(known, m, context) == check_method_availability(known, m, context)

\* No other thread is between finding the cache empty and the end of its loading.
Alone(n) == \A o \in Validations \ {n} : check[o].reading = None

\* The answer by `known`, with which the thread goes on.
Answer(n, m, known) ==
  /\ check' = [check EXCEPT
       ![n].seen_methods = @ \cup {m},
       ![n].reading = None,
       ![n].found["methods"] = IF Available(known, m, check[n].code.context) THEN @
                               ELSE @ \cup {Finding("kb_antipatterns", m, "critical")}]
  /\ settled' = IF Alone(n) /\ known # None THEN settled \cup {known} ELSE settled

\* What was read replaces what another thread may have stored meanwhile.
StoreDatabase(n, m) ==
  /\ Asks(n, m) /\ check[n].reading \in Databases
  /\ methods_cache' = check[n].reading
  /\ Answer(n, m, check[n].reading)
  /\ UNCHANGED <<died, java, temp>>

\* No file, or no table in it: the lists answer.
LoadFails(n, m) ==
  /\ Asks(n, m) /\ check[n].reading = "loading" /\ database \in NoDatabase
  /\ Answer(n, m, None)
  /\ UNCHANGED <<died, methods_cache, java, temp>>

AskCache(n, m) ==
  /\ Asks(n, m) /\ check[n].reading = None /\ ~cache_empty
  /\ Answer(n, m, methods_cache)
  /\ UNCHANGED <<died, methods_cache, java, temp>>

MethodsEnd(n) ==
  /\ InThread(n) /\ \A k \in DOMAIN check[n].code.calls : Passed(n, check[n].code.calls[k])
  /\ check' = [check EXCEPT ![n].task["methods"] = "done"]
  /\ UNCHANGED <<settled, died, methods_cache, java, temp>>

TaskStep ==
  /\ UNCHANGED <<call, up, database, jar, backend, schemas, collection>>
  /\ \/ JavaEnds
     \/ \E n \in Validations :
          \/ LintSkipped(n) \/ LintRefused(n) \/ LintStarts(n) \/ ClientTimeout(n)
          \/ KbAntipatterns(n) \/ MethodsStart(n) \/ KbStandards(n)
          \/ FindsEmpty(n) \/ ReadDatabase(n) \/ MethodsEnd(n)
          \/ \E m \in Methods : StoreDatabase(n, m) \/ LoadFails(n, m) \/ AskCache(n, m)

-----------------------------------------------------------------------------
(* The node and the process *)

Start ==
  /\ ~up /\ call < MaxCalls
  /\ up' = TRUE
  /\ KbStart /\ BslStart
  /\ UNCHANGED <<call, check, settled, died>>

\* validate_node: the TaskGroup is entered.  The facade answers its calls
\* beside each other, so others may be in theirs.
FanOut ==
  /\ up /\ call < MaxCalls /\ LoopFree
  /\ call' = call + 1
  /\ \E c \in Codes : check' = [check EXCEPT ![call + 1] = [Idle EXCEPT !.verdict = "checking", !.code = c]]
  /\ UNCHANGED <<up, settled, died, kbVars, bslVars>>

\* Mutant: the second validator is not collected.
ThreeOfFour(n) == LET found == check[n].found IN found["bsl_ls"] \cup found["methods"] \cup found["standards"]

Collected(n) == UNION {check[n].found[v] : v \in Validator}

\* The TaskGroup is left when everybody is done.
FanIn(n) ==
  /\ Checking(n) /\ LoopFree
  /\ \A v \in Validator : check[n].task[v] = "done"
  /\ check' = [check EXCEPT
       ![n].verdict = IF \E f \in Collected(n) : f.severity = "critical" THEN "closed" ELSE "open",
       ![n].failed_checks = {f \in Collected(n) : f.severity \in {"critical", "warning"}}]
  /\ UNCHANGED <<up, call, settled, died, kbVars, bslVars>>

\* The process dies, and with it a Java process of its own.
Crash ==
  /\ up
  /\ up' = FALSE
  /\ methods_cache' = None
  /\ java' = IF backend = "subprocess" THEN <<>> ELSE java
  /\ died' = IF backend = "subprocess" THEN died \cup {java[k] : k \in DOMAIN java} ELSE died
  /\ check' = [n \in Validations |-> Idle]
  /\ settled' = {}
  /\ UNCHANGED <<call, schemas, collection, database, jar, backend, temp>>

World ==
  /\ \/ ReplaceDatabase /\ UNCHANGED bslVars
     \/ JarChanges /\ UNCHANGED kbVars
  /\ UNCHANGED <<up, call, check, settled, died>>

\* No further validation; the container has nothing left to do.
Finished ==
  /\ call = MaxCalls /\ java = <<>> /\ \A n \in Validations : ~Checking(n)
  /\ UNCHANGED vars

Init ==
  /\ KbInit /\ BslInit
  /\ up = FALSE /\ call = 0
  /\ check = [n \in Validations |-> Idle]
  /\ settled = {} /\ died = {}

Progress == TaskStep \/ \E n \in Validations : FanIn(n)

Next == Progress \/ Start \/ FanOut \/ Crash \/ World \/ Finished

\* The loop and the threads go on; Java ends or is killed by its timeout.
Spec == Init /\ [][Next]_vars /\ WF_vars(Progress)

-----------------------------------------------------------------------------
(* Properties *)

Findings == [source : {"bsl_ls", "kb_antipatterns", "kb_standards"},
             id : STRING, severity : Severity]

Contents == Databases \cup {None}

ValidationState == [
  verdict : {"idle", "checking", "open", "closed"}, code : Codes,
  task : [Validator -> {"ready", "waiting", "done"}],
  found : [Validator -> SUBSET Findings], blind : SUBSET Validator,
  seen_methods : SUBSET Methods, reading : Contents \cup {"loading"},
  failed_checks : SUBSET Findings]

TypeOK ==
  /\ schemas \subseteq Kinds
  /\ \A k \in Kinds : \A i \in DOMAIN collection[k] : collection[k][i] \in KbFiles
  /\ database \in Databases \cup NoDatabase
  /\ methods_cache \in Contents
  /\ jar \in BOOLEAN /\ backend \in {"subprocess", "http", "stub"}
  /\ java \in Seq(Validations) /\ temp \subseteq Validations \X {"source", "output"}
  /\ up \in BOOLEAN /\ call \in 0..MaxCalls
  /\ check \in [Validations -> ValidationState]
  /\ settled \subseteq Databases
  /\ died \subseteq Validations

\* The entry a file stands for, when nothing is wrong with it and no later
\* file of its directory has its id.
Sound(f) ==
  /\ f.content = "valid" /\ f.detect = "regex"
  /\ \A g \in KbFiles : g.kind = f.kind /\ g.id = f.id => g.number <= f.number

\* A method that the lists and every possible database deny the context.
Denied(m, context) ==
  /\ ~check_method_availability(None, m, context)
  /\ \A db \in Databases : ~check_method_availability(db, m, context)

\* What nobody disputes is wrong with a piece of code, by the validator to see it.
Undisputed(code, v) ==
  CASE v = "bsl_ls" ->
         /\ BslGiven
         /\ \E k \in 1..Len(code.issues) :
              /\ code.issues[k].severity \in {"error", "critical", "1"}
              /\ \A l \in 1..k : code.issues[l].fault = "none"
    [] v = "antipatterns" ->
         /\ KbGiven
         /\ \E f \in KbFiles : /\ f.kind = "antipattern" /\ f.severity = "critical"
                               /\ Sound(f) /\ f.id \in code.matched
    [] v = "standards" ->
         /\ KbGiven
         /\ \E f \in KbFiles : /\ f.kind = "standard" /\ f.severity = "critical"
                               /\ Sound(f) /\ f.id \in code.matched
    [] v = "methods" ->
         /\ KbGiven
         /\ \E k \in 1..Len(code.calls) : /\ code.calls[k] \notin Keywords
                                          /\ Denied(code.calls[k], code.context)

\* The gate opens on code that is plainly wrong only if the very validator
\* that should have seen it could not look: no failure of another one, no
\* malformed finding behind the error, no order of events and no other
\* validation beside this one hides an error.
GateIsSound ==
  \A n \in Validations : check[n].verdict = "open" =>
    \A v \in Validator : Undisputed(check[n].code, v) =>
      v \in check[n].blind \/ (v = "bsl_ls" /\ backend = "stub")

\* A file of the knowledge base that is unreadable, against its schema or
\* whose expression does not compile costs its own findings and no others:
\* while the schemas are there, the detections never fail as a whole.
BadFileDisablesItself ==
  \A n \in Validations :
    /\ "antipattern" \in schemas => "antipatterns" \notin check[n].blind
    /\ "standard" \in schemas => "standards" \notin check[n].blind
    /\ check[n].verdict \in {"open", "closed"} =>
         \A f \in KbFiles :
           Sound(f) /\ f.kind = "antipattern" /\ f.id \in check[n].code.matched /\ KbGiven
             /\ f.severity # "info" /\ "antipattern" \in schemas
           => Finding("kb_antipatterns", f.id, f.severity) \in check[n].failed_checks

\* The temporary files of a Java process go away however it ends: what is left
\* belongs to a process that runs, to a call whose preparation failed, or to a
\* server process that died in the middle.
NothingLeftBehind ==
  \A t \in temp :
    \/ t[1] \in {java[k] : k \in DOMAIN java}
    \/ t[1] \in died

\* Threads that find the cache empty together may judge by different contents
\* of the file, one validation even by two.  That ends with the first question
\* answered from the database while no other thread is between finding the cache
\* empty and storing what it read: from then on the process judges by these contents, whatever
\* happens to the file, and no thread reads it again.
OneDatabaseOnceSettled ==
  \A db \in settled :
    /\ methods_cache = db
    /\ \A n \in Validations : check[n].reading = None

\* Validations come to an end, MaxCalls of them beside each other as well: no
\* validator waits for ever.
ValidationReturns ==
  (\E n \in Validations : Checking(n)) ~> (\A n \in Validations : ~Checking(n))

\* Every finding there can be, of the code in hand and of any other.
Possible ==
  (UNION {{Finding("bsl_ls", c.issues[k].id, map_severity(c.issues[k].severity)) :
             k \in DOMAIN c.issues} : c \in Codes})
  \cup {Finding("kb_antipatterns", f.id, f.severity) : f \in {g \in KbFiles : g.kind = "antipattern"}}
  \cup {Finding("kb_standards", f.id, f.severity) : f \in {g \in KbFiles : g.kind = "standard"}}
  \cup {Finding("kb_antipatterns", m, "critical") : m \in Methods}

\* The fan-outs implement the gate.
TheGate == INSTANCE Gate WITH
  Validations <- Validations,
  Checkers    <- Validator,
  Findings    <- Possible,
  SeverityOf  <- [f \in Possible |-> f.severity],
  reports     <- [n \in Validations |-> [v \in {w \in Validator : check[n].task[w] = "done"} |-> check[n].found[v]]],
  verdict     <- [n \in Validations |-> check[n].verdict],
  told        <- [n \in Validations |-> check[n].failed_checks]

ImplementsGate == TheGate!GateSpec

=============================================================================
