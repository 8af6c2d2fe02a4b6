-------------------------------- MODULE BslLs --------------------------------
(***************************************************************************)
(* The BSL Language Server of packages/mcp_servers (bsl_ls/server.py,      *)
(* backends.py, runner.py) and its container (docker/bsl_ls_http_server.py)*)
(*                                                                         *)
(* lint is a Java process given a temporary source file and a temporary    *)
(* output directory.  Backend "subprocess" runs it inside the calling      *)
(* process and blocks its event loop, backend "http" asks the container,   *)
(* which runs one Java process after the other, backend "stub" runs        *)
(* nothing.  Java processes are named by the call that wanted them.        *)
(***************************************************************************)
EXTENDS Integers, Sequences

CONSTANTS Modes        \* values 1C_AI_BSL_LS_MODE may have when a process starts

ASSUME BslLsAssumption == Modes \subseteq {"auto", "subprocess", "http", "stub", "misspelt"}

VARIABLES
  jar,          \* bsl-language-server.jar exists where the Java process looks
  backend,      \* the strategy chosen when the server was made
  java,         \* calls whose Java process runs (head) or waits in the container
  temp          \* <<call, "source" or "output">>: temporary files that exist

bslVars == <<jar, backend, java, temp>>

-----------------------------------------------------------------------------
(* make_bsl_ls_backend: the decision, and the jar that may vanish after it  *)

\* url: BSL_LS_HTTP_URL is set.
auto_backend(url) == IF jar THEN "subprocess" ELSE IF url THEN "http" ELSE "stub"

make_bsl_ls_backend(mode, url) ==
  CASE mode = "stub" -> "stub"
    [] mode = "http" -> "http"
    [] mode = "subprocess" -> IF jar THEN "subprocess" ELSE "stub"
    [] OTHER -> auto_backend(url)

-----------------------------------------------------------------------------
(* What the runner makes of a report                                        *)

\* Severity names in lower case, and the numbers of the LSP.
map_severity(s) ==
  CASE s \in {"error", "critical", "1"} -> "critical"
    [] s \in {"warning", "warn", "2"} -> "warning"
    [] OTHER -> "info"

\* The issues up to the first with this fault.
Before(issues, fault) ==
  LET bad == {k \in 1..Len(issues) : issues[k].fault = fault} IN
  IF bad = {} THEN issues
  ELSE SubSeq(issues, 1, (CHOOSE k \in bad : \A l \in bad : k <= l) - 1)

\* The loop over the issues stops at the first it cannot read and keeps what
\* it has; a report that is missing, empty or no JSON has no issues.
parse_lint_output(report) ==
  [k \in DOMAIN Before(report, "unparsable") |->
     [id |-> report[k].id, severity |-> map_severity(report[k].severity),
      fault |-> report[k].fault]]

-----------------------------------------------------------------------------
(* The Java process                                                         *)

TempFiles(call) == {<<call, "source">>, <<call, "output">>}

\* Mutant: the output directory is forgotten.
RemoveSource(call) == temp \ {<<call, "source">>}

\* finally: unlink and rmtree.
RemoveTemp(call) == temp \ TempFiles(call)

RunStarts(call) == java' = Append(java, call) /\ temp' = temp \cup TempFiles(call)

\* The process ends, by itself or killed by its timeout.
RunEnds == java' = Tail(java) /\ temp' = RemoveTemp(Head(java))

BslInit ==
  /\ jar \in BOOLEAN
  /\ backend = "stub"
  /\ java = <<>>
  /\ temp = {}

\* BslLsServer(): the backend is chosen once, for the life of the process.
BslStart ==
  /\ \E mode \in Modes, url \in BOOLEAN : backend' = make_bsl_ls_backend(mode, url)
  /\ UNCHANGED <<jar, java, temp>>

\* `1c-ai bsl-ls download`, or somebody cleaning up vendor/.
JarChanges ==
  /\ jar' = ~jar
  /\ UNCHANGED <<backend, java, temp>>

=============================================================================
