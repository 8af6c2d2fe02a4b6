--------------------------- MODULE ValidatorsProofs ---------------------------
(***************************************************************************)
(* What validations say and leave behind, for any code, knowledge base,    *)
(* database and backend, whichever validators fail, in whatever order they *)
(* run and however many validations of a process overlap.                  *)
(***************************************************************************)
EXTENDS Validators, SequenceTheorems, FiniteSetTheorems, WellFoundedInduction, TLAPS

-----------------------------------------------------------------------------
(* The inductive invariant: of one validation, by its local state r         *)

Local == [
  verdict : {"idle", "checking", "open", "closed"}, code : Codes,
  task : [Validator -> {"ready", "waiting", "done"}],
  found : [Validator -> SUBSET Possible], blind : SUBSET Validator,
  seen_methods : SUBSET Methods, reading : Contents \cup {"loading"},
  failed_checks : SUBSET Possible]

\* The critical findings among those a validator reported.
HasCritical(r, v) == \E f \in r.found[v] : f.severity = "critical"

\* The findings of a detection that saw all entries.
Detected(r, kind, source, filter) ==
  {Finding(source, i, collection[kind][i].severity) : i \in Detect(kind, filter, r.code.matched)}

\* A validator that has reported has seen what there is to see.
Looked(r, v) ==
  /\ v = "bsl_ls" /\ Undisputed(r.code, v) => backend = "stub" \/ HasCritical(r, v)
  /\ v = "antipatterns" /\ KbGiven =>
       r.found[v] = Detected(r, "antipattern", "kb_antipatterns", {"critical", "warning"})
  /\ v = "methods" /\ Undisputed(r.code, v) => HasCritical(r, v)
  /\ v = "standards" /\ KbGiven => r.found[v] = Detected(r, "standard", "kb_standards", Severity)

\* Or it could not look.
ReportInv(r) == \A v \in Validator : r.task[v] = "done" => v \in r.blind \/ Looked(r, v)

\* Every method seen by the thread that nobody allows is found.
DenialInv(r) ==
  KbGiven => \A m \in r.seen_methods :
    Denied(m, r.code.context) => Finding("kb_antipatterns", m, "critical") \in r.found["methods"]

\* While their schemas are there, the detections do not fail.
SightInv(r) ==
  /\ "antipattern" \in schemas => "antipatterns" \notin r.blind
  /\ "standard" \in schemas => "standards" \notin r.blind

AllFound(r) == UNION {r.found[v] : v \in Validator}
VerdictOn(r) == IF \E f \in AllFound(r) : f.severity = "critical" THEN "closed" ELSE "open"
ToldOf(r) == {f \in AllFound(r) : f.severity \in {"critical", "warning"}}

\* A verdict is about the findings that were collected.
VerdictInv(r) ==
  r.verdict \in {"open", "closed"} =>
    /\ \A v \in Validator : r.task[v] = "done"
    /\ r.verdict = VerdictOn(r) /\ r.failed_checks = ToldOf(r)

LocalInv(r) == r \in Local /\ ReportInv(r) /\ DenialInv(r) /\ SightInv(r) /\ VerdictInv(r)

-----------------------------------------------------------------------------
(* The inductive invariant: of the process                                  *)

\* What is remembered besides the validations.
PlaceInv ==
  /\ DOMAIN check = Validations /\ up \in BOOLEAN /\ call \in 0..MaxCalls
  /\ database \in Databases \cup NoDatabase /\ methods_cache \in Contents
  /\ settled \subseteq Databases /\ died \subseteq Validations
  /\ jar \in BOOLEAN /\ backend \in {"subprocess", "http", "stub"}
  /\ java \in Seq(Validations) /\ temp \subseteq Validations \X {"source", "output"}

LocalsInv == \A n \in Validations : LocalInv(check[n])

\* A process that is down remembers nothing.
DownInv == ~up => settled = {} /\ \A n \in Validations : check[n] = Idle

\* The knowledge base is the one that was loaded at the start.
LoadedInv ==
  /\ schemas \subseteq Kinds
  /\ \/ ~up /\ collection = [k \in Kinds |-> <<>>]
     \/ collection = LoadAll(schemas)

\* Validations begin in the order of their numbers.
FutureInv == \A n \in Validations : n > call => check[n] = Idle

\* The table has the validations and nothing else.
ShapeInv == check = [n \in Validations |-> check[n]]

ValidatorsInv ==
  /\ PlaceInv /\ ShapeInv /\ LocalsInv /\ DownInv /\ LoadedInv /\ FutureInv
  /\ NothingLeftBehind /\ OneDatabaseOnceSettled

LEMMA FourValidators == Validator = {"bsl_ls", "antipatterns", "methods", "standards"}
<1>1. 1..4 = {1, 2, 3, 4}
  OBVIOUS
<1> QED
  BY <1>1 DEF Validator, Order

-----------------------------------------------------------------------------
(* The turns of a validation: what a step of a task makes of its local state *)

With(r, task, found, blind, seen_methods, reading) ==
  [verdict |-> r.verdict, code |-> r.code, task |-> task, found |-> found, blind |-> blind,
   seen_methods |-> seen_methods, reading |-> reading, failed_checks |-> r.failed_checks]

Done(r, v) == [r.task EXCEPT ![v] = "done"]

Reported(r, v, F) == With(r, Done(r, v), [r.found EXCEPT ![v] = F], r.blind, r.seen_methods, r.reading)
Blinded(r, v) == With(r, Done(r, v), [r.found EXCEPT ![v] = {}], r.blind \cup {v}, r.seen_methods, r.reading)
Waiting(r, v) == With(r, [r.task EXCEPT ![v] = "waiting"], r.found, r.blind, r.seen_methods, r.reading)
Reading(r, contents) == With(r, r.task, r.found, r.blind, r.seen_methods, contents)
Ended(r) == With(r, Done(r, "methods"), r.found, r.blind, r.seen_methods, r.reading)

Answered(r, m, known) ==
  With(r, r.task,
       [r.found EXCEPT !["methods"] = IF Available(known, m, r.code.context) THEN @
                                      ELSE @ \cup {Finding("kb_antipatterns", m, "critical")}],
       r.blind, r.seen_methods \cup {m}, None)

LintTurn(r, s) ==
  /\ r.task["bsl_ls"] # "done"
  /\ \/ s = Reported(r, "bsl_ls", {}) /\ (~BslGiven \/ backend = "stub")
     \/ s = Reported(r, "bsl_ls", FindingsOf(parse_lint_output(r.code.issues)))
     \/ s = Blinded(r, "bsl_ls")
     \/ s = Waiting(r, "bsl_ls")

DetectTurn(r, s, v, kind, source, filter) ==
  /\ r.task[v] # "done"
  /\ \/ s = Reported(r, v, {}) /\ ~KbGiven
     \/ s = Blinded(r, v) /\ DetectionRaises(kind, filter)
     \/ s = Reported(r, v, Detected(r, kind, source, filter))

StartTurn(r, s) ==
  /\ r.task["methods"] = "ready"
  /\ \/ s = Reported(r, "methods", {}) /\ ~KbGiven
     \/ s = Waiting(r, "methods")

ThreadTurn(r, s) ==
  /\ r.task["methods"] = "waiting"
  /\ \/ \E contents \in Contents \cup {"loading"} : s = Reading(r, contents)
     \/ \E m \in Methods, known \in Contents : s = Answered(r, m, known)
     \/ s = Ended(r) /\ \A k \in DOMAIN r.code.calls : r.code.calls[k] \in Keywords \cup r.seen_methods

Turn(r, s) ==
  /\ r.verdict = "checking"
  /\ \/ LintTurn(r, s) \/ StartTurn(r, s) \/ ThreadTurn(r, s)
     \/ DetectTurn(r, s, "antipatterns", "antipattern", "kb_antipatterns", {"critical", "warning"})
     \/ DetectTurn(r, s, "standards", "standard", "kb_standards", Severity)

\* Validation n takes it, and no other validation notices.
Becomes(n, s) ==
  check'[n] = s /\ DOMAIN check' = Validations /\ \A m \in Validations \ {n} : check'[m] = check[m]

-----------------------------------------------------------------------------
(* Numbers *)

\* A set of naturals that is not empty has a least member.
LEMMA LeastNumber ==
  ASSUME NEW S, S \subseteq Nat, S # {}
  PROVE  \E m \in S : \A k \in S : m <= k
<1> DEFINE R == OpToRel(<, Nat)
<1>1. IsWellFoundedOn(R, Nat)
  BY NatLessThanWellFounded
<1>2. \E m \in S : \A k \in S : <<k, m>> \notin R
  <2> HIDE DEF R
  <2> QED
    BY <1>1, WFMin
<1>3. PICK m \in S : \A k \in S : <<k, m>> \notin R
  BY <1>2
<1>4. ASSUME NEW k \in S
      PROVE  m <= k
  <2>1. <<k, m>> \in Nat \X Nat /\ ~(k < m)
    BY <1>3 DEF OpToRel
  <2> QED
    BY <2>1
<1> QED
  BY <1>4

-----------------------------------------------------------------------------
(* The knowledge base *)

\* What loading makes of a kind: entries that load, under their ids, and a sound
\* file among them under its own.
LEMMA Loaded ==
  ASSUME NEW kind \in Kinds, NEW known
  PROVE  /\ \A i \in DOMAIN LoadAll(known)[kind] :
              LET f == LoadAll(known)[kind][i] IN
              f \in KbFiles /\ f.kind = kind /\ f.id = i /\ Loads(f, known)
         /\ \A f \in KbFiles : Sound(f) /\ f.kind = kind =>
              f.id \in DOMAIN LoadAll(known)[kind] /\ LoadAll(known)[kind][f.id] = f
<1> DEFINE loaded == {f \in KbFiles : f.kind = kind /\ Loads(f, known)}
           Last(f, i) == f.id = i /\ \A g \in loaded : g.id = i => g.number <= f.number
           Entry(i) == CHOOSE f \in loaded : Last(f, i)
<1>1. LoadAll(known)[kind] = [i \in {f.id : f \in loaded} |-> Entry(i)]
  BY DEF LoadAll, LoadDirectory
<1>2. ASSUME NEW i \in {f.id : f \in loaded}
      PROVE  \E f \in loaded : Last(f, i)
  <2> DEFINE n == Cardinality(KbFiles)
             ways == {n - g.number : g \in {h \in loaded : h.id = i}}
  <2>1. n \in Nat /\ \A f \in KbFiles : f.number \in 1..n
    BY KnowledgeBaseAssumption, FS_CardinalityType
  <2>2. ways \subseteq Nat /\ ways # {}
    <3> HIDE DEF n
    <3> QED
      BY <1>2, <2>1
  <2>3. PICK m \in ways : \A k \in ways : m <= k
    <3> HIDE DEF ways
    <3> QED
      BY <2>2, LeastNumber
  <2>4. PICK f \in loaded : f.id = i /\ m = n - f.number
    BY <2>3
  <2>5. ASSUME NEW g \in loaded, g.id = i
        PROVE  g.number <= f.number
    <3>1. n - f.number <= n - g.number
      BY <2>3, <2>4, <2>5
    <3> HIDE DEF n
    <3> QED
      BY <2>1, <3>1
  <2> QED
    BY <2>4, <2>5
<1>3. ASSUME NEW i \in {f.id : f \in loaded}
      PROVE  Entry(i) \in loaded /\ Entry(i).id = i
  BY <1>2, <1>3
<1>4. ASSUME NEW f \in KbFiles, Sound(f), f.kind = kind
      PROVE  f \in loaded /\ Entry(f.id) = f
  <2>1. f \in loaded /\ Last(f, f.id)
    BY <1>4 DEF Sound, Loads
  <2>2. Entry(f.id) \in loaded /\ Last(Entry(f.id), f.id)
    <3> HIDE DEF Last, loaded
    <3> QED
      BY <2>1
  <2>3. f.number <= Entry(f.id).number /\ Entry(f.id).number <= f.number
    BY <1>4, <2>1, <2>2 DEF Sound
  <2>4. f.number = Entry(f.id).number
    BY <1>4, <2>2, <2>3, KnowledgeBaseAssumption DEF KbFile
  <2> QED
    BY <1>4, <2>1, <2>2, <2>4, KnowledgeBaseAssumption
<1> HIDE DEF Entry
<1> QED
  BY <1>1, <1>3, <1>4

-----------------------------------------------------------------------------
(* The report of the BSL Language Server *)

\* Reading up to the first entry with a fault keeps what stands before it.
LEMMA BeforeKeeps ==
  ASSUME NEW S, NEW s \in Seq(S), NEW fault
  PROVE  /\ Before(s, fault) \in Seq(S)
         /\ Len(Before(s, fault)) <= Len(s)
         /\ \A j \in 1..Len(Before(s, fault)) : Before(s, fault)[j] = s[j]
         /\ \A k \in 1..Len(s) : (\A l \in 1..k : s[l].fault # fault) => k <= Len(Before(s, fault))
<1> DEFINE bad == {k \in 1..Len(s) : s[k].fault = fault}
           first == CHOOSE k \in bad : \A l \in bad : k <= l
<1>1. CASE bad = {}
  <2>1. Before(s, fault) = s
    BY <1>1 DEF Before
  <2> QED
    BY <2>1
<1>2. CASE bad # {}
  <2>1. Before(s, fault) = SubSeq(s, 1, first - 1)
    BY <1>2 DEF Before
  <2>2. first \in bad /\ \A l \in bad : first <= l
    <3>1. bad \subseteq Nat
      OBVIOUS
    <3>2. \E k \in bad : \A l \in bad : k <= l
      BY <1>2, <3>1, LeastNumber
    <3> HIDE DEF bad
    <3> QED
      BY <3>2
  <2>3. first \in 1..Len(s) /\ s[first].fault = fault
    BY <2>2
  <2> HIDE DEF first, bad
  <2>4. /\ Before(s, fault) \in Seq(S) /\ Len(Before(s, fault)) = first - 1
        /\ \A j \in 1..first - 1 : Before(s, fault)[j] = s[j]
    <3>1. \A j \in 1..first - 1 : s[j] \in S
      BY <2>3
    <3>2. /\ SubSeq(s, 1, first - 1) \in Seq(S)
          /\ Len(SubSeq(s, 1, first - 1)) = IF 1 <= first - 1 THEN first - 1 - 1 + 1 ELSE 0
          /\ \A j \in 1..first - 1 - 1 + 1 : SubSeq(s, 1, first - 1)[j] = s[1 + j - 1]
      <4>1. first - 1 \in Int /\ 1 \in Int
        BY <2>3
      <4> QED
        BY <3>1, <4>1, SubSeqProperties
    <3>3. first - 1 >= 0 /\ first - 1 - 1 + 1 = first - 1 /\ \A j \in 1..first - 1 : 1 + j - 1 = j
      BY <2>3
    <3> QED
      BY <2>1, <2>3, <3>2, <3>3
  <2>5. ASSUME NEW k \in 1..Len(s), \A l \in 1..k : s[l].fault # fault
        PROVE  k <= first - 1
    BY <2>3, <2>5
  <2> QED
    BY <2>3, <2>4, <2>5
<1> QED
  BY <1>1, <1>2

\* The loop of the runner and the conversion of the node let an error through
\* that has nothing unreadable before it.
LEMMA ErrorGetsThrough ==
  ASSUME NEW c, CodeOK(c), NEW k \in 1..Len(c.issues),
         c.issues[k].severity \in {"error", "critical", "1"},
         \A l \in 1..k : c.issues[l].fault = "none"
  PROVE  \E f \in FindingsOf(parse_lint_output(c.issues)) : f.severity = "critical"
<1> DEFINE Issue == [id : STRING, severity : STRING, fault : {"none", "unparsable", "rejected"}]
           read == Before(c.issues, "unparsable")
           parsed(j) == [id |-> c.issues[j].id, severity |-> map_severity(c.issues[j].severity),
                         fault |-> c.issues[j].fault]
           Parsed == {parsed(j) : j \in 1..Len(read)}
           report == parse_lint_output(c.issues)
           kept == Before(report, "rejected")
<1>1. c.issues \in Seq(Issue)
  BY DEF CodeOK
<1>2. read \in Seq(Issue) /\ k <= Len(read)
  BY <1>1, BeforeKeeps
<1>3. report = [j \in 1..Len(read) |-> parsed(j)]
  BY <1>2 DEF parse_lint_output
<1> HIDE DEF read
<1>4. report \in Seq(Parsed) /\ Len(report) = Len(read)
  BY <1>2, <1>3
<1>5. \A l \in 1..k : l \in 1..Len(report) /\ report[l].fault # "rejected"
  BY <1>2, <1>3, <1>4
<1>6. k \in 1..Len(report) /\ report[k].severity = "critical"
  BY <1>2, <1>3, <1>4 DEF map_severity
<1> HIDE DEF report, Parsed
<1>7. kept \in Seq(Parsed) /\ k <= Len(kept) /\ kept[k] = report[k]
  BY <1>4, <1>5, <1>6, BeforeKeeps
<1>8. k \in DOMAIN kept
  BY <1>6, <1>7
<1>9. Finding("bsl_ls", kept[k].id, kept[k].severity) \in FindingsOf(report)
  BY <1>8 DEF FindingsOf
<1> QED
  BY <1>6, <1>7, <1>9 DEF Finding, report

-----------------------------------------------------------------------------
(* The findings there can be *)

LintFindings ==
  UNION {{Finding("bsl_ls", c.issues[k].id, map_severity(c.issues[k].severity)) : k \in DOMAIN c.issues} : c \in Codes}
KbFindings(source, kind) ==
  {Finding(source, f.id, f.severity) : f \in {g \in KbFiles : g.kind = kind}}
MethodFindings == {Finding("kb_antipatterns", m, "critical") : m \in Methods}

LEMMA PossibleParts ==
  Possible = LintFindings \cup KbFindings("kb_antipatterns", "antipattern")
               \cup KbFindings("kb_standards", "standard") \cup MethodFindings
  BY DEF Possible, LintFindings, KbFindings, MethodFindings

LEMMA PossibleSeverity == \A f \in Possible : f.severity \in Severity
<1>1. \A s : map_severity(s) \in Severity
  BY DEF map_severity, Severity
<1>2. \A f \in KbFiles : f.severity \in Severity
  BY KnowledgeBaseAssumption DEF KbFile
<1>3. \A f \in LintFindings : f.severity \in Severity
  BY <1>1 DEF LintFindings, Finding
<1>4. \A source, kind : \A f \in KbFindings(source, kind) : f.severity \in Severity
  BY <1>2 DEF KbFindings, Finding
<1>5. \A f \in MethodFindings : f.severity \in Severity
  BY DEF MethodFindings, Finding, Severity
<1> QED
  BY <1>3, <1>4, <1>5, PossibleParts

\* What is made of a report comes from the report.
LEMMA LintPossible ==
  ASSUME NEW c \in Codes
  PROVE  FindingsOf(parse_lint_output(c.issues)) \subseteq Possible
<1> DEFINE Issue == [id : STRING, severity : STRING, fault : {"none", "unparsable", "rejected"}]
           read == Before(c.issues, "unparsable")
           parsed(j) == [id |-> c.issues[j].id, severity |-> map_severity(c.issues[j].severity),
                         fault |-> c.issues[j].fault]
           Parsed == {parsed(j) : j \in 1..Len(read)}
           report == parse_lint_output(c.issues)
           kept == Before(report, "rejected")
<1>1. c.issues \in Seq(Issue)
  BY ValidatorsAssumption DEF CodeOK
<1>2. read \in Seq(Issue) /\ Len(read) <= Len(c.issues)
  BY <1>1, BeforeKeeps
<1>3. report = [j \in 1..Len(read) |-> parsed(j)]
  BY <1>2 DEF parse_lint_output
<1> HIDE DEF read
<1>4. report \in Seq(Parsed) /\ Len(report) = Len(read)
  <2>1. Len(read) \in Nat /\ \A j \in 1..Len(read) : parsed(j) \in Parsed
    BY <1>2
  <2> HIDE DEF parsed, Parsed, report
  <2> QED
    BY <1>3, <2>1
<1>5. /\ kept \in Seq(Parsed) /\ Len(kept) <= Len(report)
      /\ \A j \in 1..Len(kept) : kept[j] = report[j]
  <2> HIDE DEF report, Parsed
  <2> QED
    BY <1>4, BeforeKeeps
<1>6. ASSUME NEW j \in DOMAIN kept
      PROVE  /\ j \in DOMAIN c.issues
             /\ kept[j].id = c.issues[j].id /\ kept[j].severity = map_severity(c.issues[j].severity)
  <2>1. j \in 1..Len(kept) /\ j \in 1..Len(read) /\ j \in 1..Len(c.issues)
    <3> HIDE DEF kept, report, Parsed
    <3> QED
      BY <1>1, <1>2, <1>4, <1>5, <1>6
  <2>2. kept[j] = parsed(j)
    BY <1>3, <1>5, <2>1
  <2> QED
    BY <1>1, <2>1, <2>2
<1>7. ASSUME NEW j \in DOMAIN kept
      PROVE  Finding("bsl_ls", kept[j].id, kept[j].severity) \in Possible
  <2>1. Finding("bsl_ls", kept[j].id, kept[j].severity) \in LintFindings
    <3> HIDE DEF kept
    <3> QED
      BY <1>6, <1>7 DEF LintFindings
  <2> QED
    BY <2>1, PossibleParts
<1> HIDE DEF kept
<1>8. FindingsOf(report) = {Finding("bsl_ls", kept[j].id, kept[j].severity) : j \in DOMAIN kept}
  BY DEF FindingsOf, kept
<1> QED
  BY <1>7, <1>8

LEMMA PossibleIsFinding == Possible \subseteq Findings
<1>1. \A f \in KbFiles : f.id \in STRING
  BY KnowledgeBaseAssumption DEF KbFile
<1>2. ASSUME NEW c \in Codes, NEW k \in DOMAIN c.issues PROVE c.issues[k].id \in STRING
  <2> DEFINE Issue == [id : STRING, severity : STRING, fault : {"none", "unparsable", "rejected"}]
  <2>1. c.issues \in Seq(Issue)
    BY ValidatorsAssumption DEF CodeOK
  <2> HIDE DEF Issue
  <2>2. c.issues[k] \in Issue
    BY <2>1, ElementOfSeq
  <2> QED
    BY <2>2 DEF Issue
<1>3. \A m \in Methods : m \in STRING
  BY KnowledgeBaseAssumption
<1>4. \A f \in LintFindings : f \in Findings
  <2>1. \A x : map_severity(x) \in Severity
    BY DEF map_severity, Severity
  <2> QED
    BY <1>2, <2>1 DEF LintFindings, Finding, Findings
<1>5. \A kind : \A f \in KbFindings("kb_antipatterns", kind) \cup KbFindings("kb_standards", kind) : f \in Findings
  <2>1. \A f \in KbFiles : f.severity \in Severity
    BY KnowledgeBaseAssumption DEF KbFile
  <2> QED
    BY <1>1, <2>1 DEF KbFindings, Finding, Findings
<1>6. \A f \in MethodFindings : f \in Findings
  BY <1>3 DEF MethodFindings, Finding, Findings, Severity
<1> QED
  BY <1>4, <1>5, <1>6, PossibleParts

-----------------------------------------------------------------------------
(* Steps of tasks are turns of validations *)

LEMMA ReturnsStep ==
  ASSUME PlaceInv, NEW n \in Validations, check[n] \in Local, NEW v \in Validator, NEW F, Returns(n, v, F)
  PROVE  Becomes(n, Reported(check[n], v, F))
<1>1. check'[n] = [check[n] EXCEPT !.task[v] = "done", !.found[v] = F]
  BY DEF Returns, PlaceInv
<1> QED
  BY <1>1 DEF Returns, Becomes, Reported, Done, With, Local, PlaceInv

LEMMA FailsStep ==
  ASSUME PlaceInv, NEW n \in Validations, check[n] \in Local, NEW v \in Validator, Fails(n, v)
  PROVE  Becomes(n, Blinded(check[n], v))
<1>1. check'[n] = [check[n] EXCEPT !.task[v] = "done", !.found[v] = {}, !.blind = @ \cup {v}]
  BY DEF Fails, PlaceInv
<1> QED
  BY <1>1 DEF Fails, Becomes, Blinded, Done, With, Local, PlaceInv

LEMMA WaitsStep ==
  ASSUME PlaceInv, NEW n \in Validations, check[n] \in Local, NEW v \in Validator, Waits(n, v)
  PROVE  Becomes(n, Waiting(check[n], v))
<1>1. check'[n] = [check[n] EXCEPT !.task[v] = "waiting"]
  BY DEF Waits, PlaceInv
<1> QED
  BY <1>1 DEF Waits, Becomes, Waiting, With, Local, PlaceInv

LEMMA AnswerStep ==
  ASSUME PlaceInv, NEW n \in Validations, check[n] \in Local, NEW m, NEW known, Answer(n, m, known)
  PROVE  Becomes(n, Answered(check[n], m, known))
<1>1. check'[n] =
        [check[n] EXCEPT
           !.seen_methods = @ \cup {m}, !.reading = None,
           !.found["methods"] = IF Available(known, m, check[n].code.context) THEN @
                                ELSE @ \cup {Finding("kb_antipatterns", m, "critical")}]
  BY DEF Answer, PlaceInv
<1> QED
  BY <1>1 DEF Answer, Becomes, Answered, With, Local, PlaceInv

\* A turn of validation n.
Turns(n) == \E s : Becomes(n, s) /\ Turn(check[n], s)

LEMMA LintTurns ==
  ASSUME PlaceInv, NEW n \in Validations, check[n] \in Local,
         LintSkipped(n) \/ LintRefused(n) \/ LintStarts(n) \/ ClientTimeout(n)
  PROVE  Turns(n)
<1> USE FourValidators
<1>1. CASE LintSkipped(n)
  BY <1>1, ReturnsStep DEF LintSkipped, May, Checking, Turns, Turn, LintTurn
<1>2. CASE LintRefused(n)
  BY <1>2, FailsStep DEF LintRefused, May, Checking, Turns, Turn, LintTurn
<1>3. CASE LintStarts(n)
  BY <1>3, WaitsStep DEF LintStarts, May, Checking, Turns, Turn, LintTurn
<1>4. CASE ClientTimeout(n)
  BY <1>4, FailsStep DEF ClientTimeout, Awaited, Checking, Turns, Turn, LintTurn
<1> QED
  BY <1>1, <1>2, <1>3, <1>4

\* Java ends for a validation that waits for it, or for none.
LEMMA JavaTurns ==
  ASSUME PlaceInv, LocalsInv, JavaEnds
  PROVE  UNCHANGED check \/ \E n \in Validations : Turns(n)
<1> USE FourValidators
<1> DEFINE n == Head(java)
<1>1. n \in Validations
  BY HeadTailProperties DEF JavaEnds, PlaceInv
<1>2. check[n] \in Local
  BY <1>1 DEF LocalsInv, LocalInv
<1>3. \/ UNCHANGED check
      \/ /\ Awaited(n)
         /\ \/ Returns(n, "bsl_ls", FindingsOf(parse_lint_output(check[n].code.issues)))
            \/ Fails(n, "bsl_ls")
  BY DEF JavaEnds
<1> HIDE DEF n
<1>4. ASSUME Awaited(n), Returns(n, "bsl_ls", FindingsOf(parse_lint_output(check[n].code.issues)))
      PROVE  Turns(n)
  BY <1>1, <1>2, <1>4, ReturnsStep DEF Awaited, Checking, Turns, Turn, LintTurn
<1>5. ASSUME Awaited(n), Fails(n, "bsl_ls")
      PROVE  Turns(n)
  BY <1>1, <1>2, <1>5, FailsStep DEF Awaited, Checking, Turns, Turn, LintTurn
<1> QED
  BY <1>1, <1>3, <1>4, <1>5

LEMMA DetectTurns ==
  ASSUME PlaceInv, NEW n \in Validations, check[n] \in Local, KbAntipatterns(n) \/ KbStandards(n)
  PROVE  Turns(n)
<1> USE FourValidators
<1>1. ASSUME NEW v \in Validator, NEW kind, NEW source, NEW filter, Detects(n, v, kind, source, filter)
      PROVE  check[n].verdict = "checking" /\ \E s : Becomes(n, s) /\ DetectTurn(check[n], s, v, kind, source, filter)
  <2>1. check[n].verdict = "checking" /\ check[n].task[v] # "done"
    BY <1>1 DEF Detects, May, Checking
  <2>2. CASE ~KbGiven /\ Returns(n, v, {})
    BY <2>1, <2>2, ReturnsStep DEF DetectTurn
  <2>3. CASE DetectionRaises(kind, filter) /\ Fails(n, v)
    BY <2>1, <2>3, FailsStep DEF DetectTurn
  <2>4. CASE Returns(n, v, Detected(check[n], kind, source, filter))
    BY <2>1, <2>4, ReturnsStep DEF DetectTurn
  <2> QED
    BY <1>1, <2>2, <2>3, <2>4 DEF Detects, Detected
<1>2. CASE KbAntipatterns(n)
  <2>1. PICK s : Becomes(n, s) /\ DetectTurn(check[n], s, "antipatterns", "antipattern", "kb_antipatterns", {"critical", "warning"})
    BY <1>1, <1>2 DEF KbAntipatterns
  <2> QED
    BY <1>1, <1>2, <2>1 DEF KbAntipatterns, Turns, Turn
<1>3. CASE KbStandards(n)
  <2>1. PICK s : Becomes(n, s) /\ DetectTurn(check[n], s, "standards", "standard", "kb_standards", Severity)
    BY <1>1, <1>3 DEF KbStandards
  <2> QED
    BY <1>1, <1>3, <2>1 DEF KbStandards, Turns, Turn
<1> QED
  BY <1>2, <1>3

\* The start of the thread, its waiting for the database, its answers, its end.
LEMMA ThreadTurns ==
  ASSUME PlaceInv, NEW n \in Validations, check[n] \in Local,
         \/ MethodsStart(n) \/ FindsEmpty(n) \/ ReadDatabase(n) \/ MethodsEnd(n)
         \/ \E m \in Methods : StoreDatabase(n, m) \/ LoadFails(n, m) \/ AskCache(n, m)
  PROVE  Turns(n)
<1> USE FourValidators
<1>1. CASE MethodsStart(n)
  <2>1. check[n].verdict = "checking" /\ check[n].task["methods"] = "ready"
    BY <1>1 DEF MethodsStart, May, Checking
  <2>2. CASE Waits(n, "methods")
    BY <2>1, <2>2, WaitsStep DEF Turns, Turn, StartTurn
  <2>3. CASE ~KbGiven /\ Returns(n, "methods", {})
    BY <2>1, <2>3, ReturnsStep DEF Turns, Turn, StartTurn
  <2> QED
    BY <1>1, <2>2, <2>3 DEF MethodsStart
<1>2. ASSUME NEW contents \in Contents \cup {"loading"}, InThread(n),
             check' = [check EXCEPT ![n].reading = contents]
      PROVE  Turns(n)
  <2>1. Becomes(n, Reading(check[n], contents))
    <3>1. check'[n] = [check[n] EXCEPT !.reading = contents]
      BY <1>2 DEF PlaceInv
    <3> QED
      BY <1>2, <3>1 DEF Becomes, Reading, With, Local, PlaceInv
  <2> QED
    BY <1>2, <2>1 DEF InThread, Checking, Turns, Turn, ThreadTurn
<1>3. CASE FindsEmpty(n)
  BY <1>2, <1>3 DEF FindsEmpty, Asks
<1>4. CASE ReadDatabase(n)
  <2>1. database \in Contents
    BY <1>4 DEF ReadDatabase, PlaceInv, Contents
  <2> QED
    BY <1>2, <1>4, <2>1 DEF ReadDatabase
<1>5. ASSUME NEW m \in Methods, NEW known \in Contents, InThread(n), Answer(n, m, known)
      PROVE  Turns(n)
  BY <1>5, AnswerStep DEF InThread, Checking, Turns, Turn, ThreadTurn
<1>6. ASSUME NEW m \in Methods, StoreDatabase(n, m) \/ LoadFails(n, m) \/ AskCache(n, m)
      PROVE  Turns(n)
  BY <1>5, <1>6 DEF StoreDatabase, LoadFails, AskCache, Asks, Contents, PlaceInv
<1>7. CASE MethodsEnd(n)
  <2>1. check'[n] = [check[n] EXCEPT !.task["methods"] = "done"]
    BY <1>7 DEF MethodsEnd, PlaceInv
  <2>2. Becomes(n, Ended(check[n]))
    BY <1>7, <2>1 DEF MethodsEnd, Becomes, Ended, Done, With, Local, PlaceInv
  <2>3. \A k \in DOMAIN check[n].code.calls : check[n].code.calls[k] \in Keywords \cup check[n].seen_methods
    BY <1>7 DEF MethodsEnd, Passed
  <2> QED
    BY <1>7, <2>2, <2>3 DEF MethodsEnd, InThread, Checking, Turns, Turn, ThreadTurn
<1> QED
  BY <1>1, <1>3, <1>4, <1>6, <1>7

LEMMA TaskTurns ==
  ASSUME PlaceInv, LocalsInv, TaskStep
  PROVE  UNCHANGED check \/ \E n \in Validations : Turns(n)
<1>1. \A n \in Validations : check[n] \in Local
  BY DEF LocalsInv, LocalInv
<1> QED
  BY <1>1, JavaTurns, LintTurns, DetectTurns, ThreadTurns DEF TaskStep

-----------------------------------------------------------------------------
(* A turn keeps the local invariant *)

LEMMA WithType ==
  ASSUME NEW r \in Local, NEW task \in [Validator -> {"ready", "waiting", "done"}],
         NEW found \in [Validator -> SUBSET Possible], NEW blind \in SUBSET Validator,
         NEW seen \in SUBSET Methods, NEW reading \in Contents \cup {"loading"}
  PROVE  With(r, task, found, blind, seen, reading) \in Local
  BY DEF Local, With

LEMMA LocalParts ==
  ASSUME NEW r \in Local
  PROVE  /\ r.code \in Codes /\ r.task \in [Validator -> {"ready", "waiting", "done"}]
         /\ r.found \in [Validator -> SUBSET Possible] /\ r.blind \in SUBSET Validator
         /\ r.seen_methods \in SUBSET Methods /\ r.reading \in Contents \cup {"loading"}
  BY DEF Local

\* Entries come from files, so what a detection finds can be found.
LEMMA DetectedPossible ==
  ASSUME NEW r, NEW kind \in {"antipattern", "standard"}, collection = LoadAll(schemas), NEW filter
  PROVE  Detected(r, kind, IF kind = "standard" THEN "kb_standards" ELSE "kb_antipatterns", filter) \subseteq Possible
<1> DEFINE source == IF kind = "standard" THEN "kb_standards" ELSE "kb_antipatterns"
<1>1. ASSUME NEW i \in Detect(kind, filter, r.code.matched)
      PROVE  Finding(source, i, collection[kind][i].severity) \in Possible
  <2>1. i \in DOMAIN collection[kind] /\ kind \in Kinds
    BY <1>1 DEF Detect, Selected, Kinds
  <2>2. collection[kind][i] \in KbFiles /\ collection[kind][i].kind = kind /\ collection[kind][i].id = i
    BY <2>1, Loaded
  <2>3. Finding(source, i, collection[kind][i].severity) \in KbFindings(source, kind)
    BY <2>2 DEF KbFindings
  <2> QED
    BY <2>3, PossibleParts
<1> QED
  BY <1>1 DEF Detected

LEMMA TurnTypes ==
  ASSUME NEW r \in Local, NEW s, Turn(r, s), collection = LoadAll(schemas)
  PROVE  s \in Local
<1> USE FourValidators, LocalParts, WithType
<1>1. \A v \in Validator : Done(r, v) \in [Validator -> {"ready", "waiting", "done"}]
  BY DEF Done
<1>2. ASSUME NEW v \in Validator, NEW F \in SUBSET Possible, s = Reported(r, v, F)
      PROVE  s \in Local
  <2>1. [r.found EXCEPT ![v] = F] \in [Validator -> SUBSET Possible]
    OBVIOUS
  <2> QED
    BY <1>1, <1>2, <2>1 DEF Reported
<1>3. ASSUME NEW v \in Validator, s = Blinded(r, v)
      PROVE  s \in Local
  <2>1. [r.found EXCEPT ![v] = {}] \in [Validator -> SUBSET Possible] /\ r.blind \cup {v} \in SUBSET Validator
    OBVIOUS
  <2> QED
    BY <1>1, <1>3, <2>1 DEF Blinded
<1>4. ASSUME NEW v \in Validator, s = Waiting(r, v)
      PROVE  s \in Local
  <2>1. [r.task EXCEPT ![v] = "waiting"] \in [Validator -> {"ready", "waiting", "done"}]
    OBVIOUS
  <2> QED
    BY <1>4, <2>1 DEF Waiting
<1>5. CASE LintTurn(r, s)
  <2>1. FindingsOf(parse_lint_output(r.code.issues)) \in SUBSET Possible
    BY LintPossible
  <2> QED
    BY <1>2, <1>3, <1>4, <1>5, <2>1 DEF LintTurn
<1>6. CASE StartTurn(r, s)
  BY <1>2, <1>4, <1>6 DEF StartTurn
<1>7. CASE ThreadTurn(r, s)
  <2>1. ASSUME NEW m \in Methods, NEW known, s = Answered(r, m, known)
        PROVE  s \in Local
    <3>1. Finding("kb_antipatterns", m, "critical") \in Possible
      BY PossibleParts DEF MethodFindings
    <3>2. \A F \in SUBSET Possible : [r.found EXCEPT !["methods"] = F] \in [Validator -> SUBSET Possible]
      OBVIOUS
    <3>3. r.seen_methods \cup {m} \in SUBSET Methods /\ None \in Contents
      BY DEF Contents
    <3>4. r.found["methods"] \in SUBSET Possible
      OBVIOUS
    <3>5. [r.found EXCEPT !["methods"] = IF Available(known, m, r.code.context) THEN @
                                         ELSE @ \cup {Finding("kb_antipatterns", m, "critical")}]
            \in [Validator -> SUBSET Possible]
      BY <3>1, <3>2, <3>4
    <3> QED
      BY <2>1, <3>3, <3>5 DEF Answered
  <2>2. ASSUME NEW contents \in Contents \cup {"loading"}, s = Reading(r, contents)
        PROVE  s \in Local
    BY <2>2 DEF Reading
  <2>3. ASSUME s = Ended(r)
        PROVE  s \in Local
    BY <1>1, <2>3 DEF Ended
  <2> QED
    BY <1>7, <2>1, <2>2, <2>3 DEF ThreadTurn
<1>8. CASE DetectTurn(r, s, "antipatterns", "antipattern", "kb_antipatterns", {"critical", "warning"})
  <2>1. Detected(r, "antipattern", "kb_antipatterns", {"critical", "warning"}) \in SUBSET Possible
    BY DetectedPossible
  <2> QED
    BY <1>2, <1>3, <1>8, <2>1 DEF DetectTurn
<1>9. CASE DetectTurn(r, s, "standards", "standard", "kb_standards", Severity)
  <2>1. Detected(r, "standard", "kb_standards", Severity) \in SUBSET Possible
    BY DetectedPossible
  <2> QED
    BY <1>2, <1>3, <1>9, <2>1 DEF DetectTurn
<1> QED
  BY <1>5, <1>6, <1>7, <1>8, <1>9 DEF Turn

\* What a turn of validator v, or of nobody, leaves alone.
Apart(r, s, v) ==
  /\ s.verdict = r.verdict /\ s.code = r.code /\ s.failed_checks = r.failed_checks
  /\ s.blind \subseteq r.blind \cup {v} /\ r.blind \subseteq s.blind
  /\ \A w \in Validator \ {v} : s.task[w] = r.task[w] /\ s.found[w] = r.found[w]

\* One validator moves: it is enough that it has looked.
LEMMA OneLooks ==
  ASSUME NEW r, NEW s, NEW v \in Validator, Apart(r, s, v), ReportInv(r),
         s.task[v] = "done" => v \in s.blind \/ Looked(s, v)
  PROVE  ReportInv(s)
<1>1. ASSUME NEW w \in Validator, w # v
      PROVE  s.task[w] = "done" => w \in s.blind \/ Looked(s, w)
  <2>1. (s.task[w] = r.task[w] /\ s.found[w] = r.found[w]) /\ s.code = r.code /\ r.blind \subseteq s.blind
    BY <1>1 DEF Apart
  <2>2. Looked(r, w) => Looked(s, w)
    BY <2>1 DEF Looked, HasCritical, Detected
  <2> QED
    BY <2>1, <2>2 DEF ReportInv
<1> QED
  BY <1>1 DEF ReportInv

LEMMA ReportedParts ==
  ASSUME NEW r \in Local, NEW v \in Validator, NEW F, NEW s, s = Reported(r, v, F)
  PROVE  /\ Apart(r, s, v) /\ s.task[v] = "done" /\ s.found[v] = F
         /\ s.blind = r.blind /\ s.seen_methods = r.seen_methods
  BY DEF Reported, With, Done, Local, Apart

LEMMA BlindedParts ==
  ASSUME NEW r \in Local, NEW v \in Validator, NEW s, s = Blinded(r, v)
  PROVE  Apart(r, s, v) /\ s.task[v] = "done" /\ v \in s.blind /\ s.seen_methods = r.seen_methods
  BY DEF Blinded, With, Done, Local, Apart

LEMMA WaitingParts ==
  ASSUME NEW r \in Local, NEW v \in Validator, NEW s, s = Waiting(r, v)
  PROVE  /\ Apart(r, s, v) /\ s.task[v] = "waiting" /\ s.found = r.found
         /\ s.blind = r.blind /\ s.seen_methods = r.seen_methods
  BY DEF Waiting, With, Local, Apart

\* validate_with_bsl_ls
LEMMA LintLooks ==
  ASSUME NEW r \in Local, NEW s, LintTurn(r, s), ReportInv(r)
  PROVE  ReportInv(s) /\ Apart(r, s, "bsl_ls") /\ s.seen_methods = r.seen_methods
<1> USE FourValidators
<1>1. CASE s = Reported(r, "bsl_ls", {}) /\ (~BslGiven \/ backend = "stub")
  <2>1. Looked(s, "bsl_ls")
    BY <1>1 DEF Looked, Undisputed
  <2> QED
    BY <1>1, <2>1, ReportedParts, OneLooks
<1>2. CASE s = Reported(r, "bsl_ls", FindingsOf(parse_lint_output(r.code.issues)))
  <2>1. s.code = r.code /\ s.found["bsl_ls"] = FindingsOf(parse_lint_output(s.code.issues)) /\ CodeOK(s.code)
    BY <1>2, ReportedParts, LocalParts, ValidatorsAssumption DEF Apart
  <2>2. Undisputed(s.code, "bsl_ls") => HasCritical(s, "bsl_ls")
    BY <2>1, ErrorGetsThrough DEF Undisputed, HasCritical
  <2>3. Looked(s, "bsl_ls")
    BY <2>2 DEF Looked
  <2> QED
    BY <1>2, <2>3, ReportedParts, OneLooks
<1>3. CASE s = Blinded(r, "bsl_ls")
  BY <1>3, BlindedParts, OneLooks
<1>4. CASE s = Waiting(r, "bsl_ls")
  BY <1>4, WaitingParts, OneLooks
<1> QED
  BY <1>1, <1>2, <1>3, <1>4 DEF LintTurn

\* validate_kb_antipatterns and validate_kb_standards
LEMMA DetectLooks ==
  ASSUME NEW r \in Local, NEW s, ReportInv(r),
         \/ DetectTurn(r, s, "antipatterns", "antipattern", "kb_antipatterns", {"critical", "warning"})
         \/ DetectTurn(r, s, "standards", "standard", "kb_standards", Severity)
  PROVE  ReportInv(s)
<1> USE FourValidators
<1>1. ASSUME NEW v \in Validator, NEW kind, NEW source, NEW filter, DetectTurn(r, s, v, kind, source, filter),
             v \in {"antipatterns", "standards"},
             \A t : t.found[v] = Detected(t, kind, source, filter) => Looked(t, v)
      PROVE  ReportInv(s)
  <2>1. CASE s = Reported(r, v, {}) /\ ~KbGiven
    <3>1. Looked(s, v)
      BY <1>1, <2>1 DEF Looked
    <3> QED
      BY <2>1, <3>1, ReportedParts, OneLooks
  <2>2. CASE s = Blinded(r, v)
    BY <2>2, BlindedParts, OneLooks
  <2>3. CASE s = Reported(r, v, Detected(r, kind, source, filter))
    <3>1. s.found[v] = Detected(r, kind, source, filter) /\ s.code = r.code
      BY <2>3, ReportedParts DEF Apart
    <3>2. s.found[v] = Detected(s, kind, source, filter)
      BY <3>1 DEF Detected
    <3> QED
      BY <1>1, <2>3, <3>2, ReportedParts, OneLooks
  <2> QED
    BY <1>1, <2>1, <2>2, <2>3 DEF DetectTurn
<1>2. \A t : t.found["antipatterns"] = Detected(t, "antipattern", "kb_antipatterns", {"critical", "warning"})
               => Looked(t, "antipatterns")
  BY DEF Looked
<1>3. \A t : t.found["standards"] = Detected(t, "standard", "kb_standards", Severity) => Looked(t, "standards")
  BY DEF Looked
<1> QED
  BY <1>1, <1>2, <1>3

\* validate_method_availability and its thread: the thread has seen every method
\* there is to see when it ends, and found what nobody allows.
LEMMA ThreadLooks ==
  ASSUME NEW r \in Local, NEW s, StartTurn(r, s) \/ ThreadTurn(r, s), ReportInv(r), DenialInv(r)
  PROVE  ReportInv(s) /\ DenialInv(s) /\ Apart(r, s, "methods") /\ s.blind = r.blind
<1> USE FourValidators
<1>1. ASSUME Apart(r, s, "methods"), s.blind = r.blind, s.seen_methods = r.seen_methods,
             s.found["methods"] = r.found["methods"], s.task["methods"] # "done"
      PROVE  ReportInv(s) /\ DenialInv(s) /\ Apart(r, s, "methods") /\ s.blind = r.blind
  BY <1>1, OneLooks DEF DenialInv, Apart
<1>2. CASE s = Reported(r, "methods", {}) /\ ~KbGiven
  <2>1. Looked(s, "methods") /\ DenialInv(s)
    BY <1>2 DEF Looked, Undisputed, DenialInv
  <2> QED
    BY <1>2, <2>1, ReportedParts, OneLooks
<1>3. CASE s = Waiting(r, "methods")
  BY <1>1, <1>3, WaitingParts
<1>4. ASSUME NEW contents \in Contents \cup {"loading"}, s = Reading(r, contents), r.task["methods"] = "waiting"
      PROVE  ReportInv(s) /\ DenialInv(s) /\ Apart(r, s, "methods") /\ s.blind = r.blind
  BY <1>1, <1>4 DEF Reading, With, Apart
<1>5. ASSUME NEW m \in Methods, NEW known \in Contents, s = Answered(r, m, known), r.task["methods"] = "waiting"
      PROVE  ReportInv(s) /\ DenialInv(s) /\ Apart(r, s, "methods") /\ s.blind = r.blind
  <2> DEFINE here == Finding("kb_antipatterns", m, "critical")
  <2>1. Apart(r, s, "methods") /\ s.blind = r.blind /\ s.task = r.task
    BY <1>5 DEF Answered, With, Local, Apart
  <2>2. s.seen_methods = r.seen_methods \cup {m} /\ s.code = r.code
    BY <1>5 DEF Answered, With
  <2>3. s.found["methods"] = IF Available(known, m, r.code.context) THEN r.found["methods"]
                             ELSE r.found["methods"] \cup {here}
    BY <1>5, LocalParts DEF Answered, With
  <2>4. Denied(m, r.code.context) => ~Available(known, m, r.code.context)
    BY <1>5 DEF Denied, Available, Contents
  <2>5. DenialInv(s)
    BY <2>2, <2>3, <2>4 DEF DenialInv
  <2> QED
    BY <1>5, <2>1, <2>5, OneLooks
<1>6. ASSUME s = Ended(r), \A k \in DOMAIN r.code.calls : r.code.calls[k] \in Keywords \cup r.seen_methods
      PROVE  ReportInv(s) /\ DenialInv(s) /\ Apart(r, s, "methods") /\ s.blind = r.blind
  <2>1. /\ Apart(r, s, "methods") /\ s.blind = r.blind /\ s.found = r.found
        /\ s.seen_methods = r.seen_methods /\ s.code = r.code
    BY <1>6 DEF Ended, With, Done, Local, Apart
  <2>2. DenialInv(s)
    BY <2>1 DEF DenialInv
  <2>3. Undisputed(s.code, "methods") => HasCritical(s, "methods")
    <3>1. CodeOK(s.code)
      BY <2>1, LocalParts, ValidatorsAssumption
    <3>2. ASSUME KbGiven, NEW k \in 1..Len(s.code.calls), s.code.calls[k] \notin Keywords,
                 Denied(s.code.calls[k], s.code.context)
          PROVE  HasCritical(s, "methods")
      <4>1. k \in DOMAIN r.code.calls
        BY <2>1, <3>1, <3>2 DEF CodeOK
      <4>2. s.code.calls[k] \in s.seen_methods
        BY <1>6, <2>1, <3>2, <4>1
      <4>3. Finding("kb_antipatterns", s.code.calls[k], "critical") \in s.found["methods"]
        BY <2>2, <3>2, <4>2 DEF DenialInv
      <4> QED
        BY <4>3 DEF HasCritical, Finding
    <3> QED
      BY <3>2 DEF Undisputed
  <2>4. Looked(s, "methods")
    BY <2>3 DEF Looked
  <2> QED
    BY <2>1, <2>2, <2>4, OneLooks
<1> QED
  BY <1>2, <1>3, <1>4, <1>5, <1>6 DEF StartTurn, ThreadTurn

\* With a schema, what loaded has all its parts, so no detection of its kind
\* fails.
LEMMA DetectionHolds ==
  ASSUME collection = LoadAll(schemas), NEW kind \in Kinds, kind \in schemas, NEW filter
  PROVE  ~DetectionRaises(kind, filter)
<1> SUFFICES ASSUME NEW i \in DOMAIN collection[kind], collection[kind][i].detect = "no_pattern"
             PROVE  FALSE
  BY DEF DetectionRaises, Selected
<1>1. collection[kind][i] \in KbFiles /\ collection[kind][i].kind = kind /\ Loads(collection[kind][i], schemas)
  BY Loaded
<1>2. collection[kind][i].content = "valid"
  BY <1>1, KnowledgeBaseAssumption DEF Loads, KbFile
<1> QED
  BY <1>1, <1>2, KnowledgeBaseAssumption

LEMMA DetectSees ==
  ASSUME NEW r \in Local, NEW s, NEW v \in Validator, NEW kind \in Kinds, NEW source, NEW filter,
         DetectTurn(r, s, v, kind, source, filter), collection = LoadAll(schemas)
  PROVE  /\ Apart(r, s, v) /\ s.seen_methods = r.seen_methods
         /\ kind \in schemas => s.blind = r.blind
<1>1. CASE s = Blinded(r, v) /\ DetectionRaises(kind, filter)
  BY <1>1, BlindedParts, DetectionHolds
<1>2. ASSUME NEW F, s = Reported(r, v, F)
      PROVE  Apart(r, s, v) /\ s.seen_methods = r.seen_methods /\ s.blind = r.blind
  BY <1>2, ReportedParts
<1> QED
  BY <1>1, <1>2 DEF DetectTurn

LEMMA TurnKeeps ==
  ASSUME NEW r, LocalInv(r), NEW s, Turn(r, s), collection = LoadAll(schemas)
  PROVE  LocalInv(s)
<1> USE FourValidators
<1>1. r \in Local /\ ReportInv(r) /\ DenialInv(r) /\ SightInv(r) /\ r.verdict = "checking"
  BY DEF LocalInv, Turn
<1>2. s \in Local
  BY <1>1, TurnTypes
<1>3. ASSUME NEW v \in Validator \ {"methods"}, Apart(r, s, v), s.seen_methods = r.seen_methods
      PROVE  DenialInv(s) /\ VerdictInv(s)
  BY <1>1, <1>3 DEF Apart, DenialInv, VerdictInv
<1>4. CASE LintTurn(r, s)
  <2>1. ReportInv(s) /\ Apart(r, s, "bsl_ls") /\ s.seen_methods = r.seen_methods
    BY <1>1, <1>4, LintLooks
  <2>2. SightInv(s)
    BY <1>1, <2>1 DEF SightInv, Apart
  <2> QED
    BY <1>2, <1>3, <2>1, <2>2 DEF LocalInv
<1>5. CASE StartTurn(r, s) \/ ThreadTurn(r, s)
  <2>1. ReportInv(s) /\ DenialInv(s) /\ Apart(r, s, "methods") /\ s.blind = r.blind
    BY <1>1, <1>5, ThreadLooks
  <2>2. SightInv(s) /\ VerdictInv(s)
    BY <1>1, <2>1 DEF SightInv, VerdictInv, Apart
  <2> QED
    BY <1>2, <2>1, <2>2 DEF LocalInv
<1>6. CASE DetectTurn(r, s, "antipatterns", "antipattern", "kb_antipatterns", {"critical", "warning"})
  <2>1. /\ Apart(r, s, "antipatterns") /\ s.seen_methods = r.seen_methods
        /\ "antipattern" \in schemas => s.blind = r.blind
    BY <1>1, <1>6, DetectSees DEF Kinds
  <2>2. SightInv(s)
    BY <1>1, <2>1 DEF SightInv, Apart
  <2> QED
    BY <1>1, <1>2, <1>3, <1>6, <2>1, <2>2, DetectLooks DEF LocalInv
<1>7. CASE DetectTurn(r, s, "standards", "standard", "kb_standards", Severity)
  <2>1. /\ Apart(r, s, "standards") /\ s.seen_methods = r.seen_methods
        /\ "standard" \in schemas => s.blind = r.blind
    BY <1>1, <1>7, DetectSees DEF Kinds
  <2>2. SightInv(s)
    BY <1>1, <2>1 DEF SightInv, Apart
  <2> QED
    BY <1>1, <1>2, <1>3, <1>7, <2>1, <2>2, DetectLooks DEF LocalInv
<1> QED
  BY <1>4, <1>5, <1>6, <1>7 DEF Turn

-----------------------------------------------------------------------------
(* Steps of the process *)

\* The local invariant speaks of the knowledge base and the backend, which stay.
LEMMA Steady ==
  ASSUME UNCHANGED <<schemas, collection, backend>>, NEW n, NEW r, check'[n] = r, LocalInv(r)
  PROVE  LocalInv(check[n])'
<1>1. \A kind, source, filter : Detected(check[n], kind, source, filter)' = Detected(r, kind, source, filter)
  BY DEF Detected, Detect, Selected
<1>2. \A v : Looked(check[n], v)' <=> Looked(r, v)
  BY <1>1 DEF Looked, HasCritical
<1>3. ReportInv(check[n])'
  BY <1>2 DEF LocalInv, ReportInv
<1>4. DenialInv(check[n])' /\ SightInv(check[n])'
  BY DEF LocalInv, DenialInv, SightInv
<1>5. VerdictInv(check[n])'
  BY DEF LocalInv, VerdictInv, VerdictOn, ToldOf, AllFound
<1> QED
  BY <1>3, <1>4, <1>5 DEF LocalInv

\* A validation that begins has nothing to show, whatever is loaded.
Begun(verdict, c) ==
  [verdict |-> verdict, code |-> c, task |-> [v \in Validator |-> "ready"], found |-> [v \in Validator |-> {}],
   blind |-> {}, seen_methods |-> {}, reading |-> None, failed_checks |-> {}]

LEMMA BegunParts == Idle = Begun("idle", NoCode) /\ NoCode \in Codes
<1>1. NoCode \in Codes
  BY ValidatorsAssumption DEF NoCode
<1> QED
  BY <1>1 DEF Idle, Begun

\* A validation that begins, or has not begun, has nothing to show.
BegunInv ==
  \A n \in Validations, c \in Codes, verdict \in {"idle", "checking"} :
    check[n] = Begun(verdict, c) => LocalInv(check[n])

LEMMA FreshNow == BegunInv
<1> SUFFICES ASSUME NEW n \in Validations, NEW c \in Codes, NEW verdict \in {"idle", "checking"},
                    check[n] = Begun(verdict, c)
             PROVE  LocalInv(check[n])
  BY DEF BegunInv
<1> DEFINE task == [v \in Validator |-> "ready"]
           found == [v \in Validator |-> {}]
<1>1. task \in [Validator -> {"ready", "waiting", "done"}] /\ found \in [Validator -> SUBSET Possible]
  OBVIOUS
<1>2. \A v \in Validator : task[v] # "done"
  OBVIOUS
<1>3. check[n] = [verdict |-> verdict, code |-> c, task |-> task, found |-> found,
                  blind |-> {}, seen_methods |-> {}, reading |-> None, failed_checks |-> {}]
  BY DEF Begun
<1> HIDE DEF task, found
<1>4. check[n] \in Local
  BY <1>1, <1>3 DEF Local, Contents
<1>5. ReportInv(check[n])
  BY <1>2, <1>3 DEF ReportInv
<1>6. DenialInv(check[n]) /\ SightInv(check[n]) /\ VerdictInv(check[n])
  BY <1>3 DEF DenialInv, SightInv, VerdictInv
<1> QED
  BY <1>4, <1>5, <1>6 DEF LocalInv

LEMMA Fresh ==
  ASSUME NEW n \in Validations, NEW c \in Codes, NEW verdict \in {"idle", "checking"}, check'[n] = Begun(verdict, c)
  PROVE  LocalInv(check[n])'
<1>1. BegunInv'
  BY FreshNow, PTL
<1> QED
  BY <1>1 DEF BegunInv

LEMMA FreshIdle == ASSUME NEW n \in Validations, check'[n] = Idle PROVE LocalInv(check[n])'
  BY BegunParts, Fresh

\* The node's judgement of what was collected.
LEMMA JudgeKeeps ==
  ASSUME NEW n \in Validations, LocalInv(check[n]), DOMAIN check = Validations, FanIn(n)
  PROVE  \E s : /\ Becomes(n, s) /\ LocalInv(s)
                /\ s.task = check[n].task /\ s.found = check[n].found
                /\ s.verdict = VerdictOn(check[n]) /\ s.failed_checks = ToldOf(check[n])
<1> DEFINE r == check[n]
           s == [verdict |-> VerdictOn(r), code |-> r.code, task |-> r.task, found |-> r.found, blind |-> r.blind,
                 seen_methods |-> r.seen_methods, reading |-> r.reading, failed_checks |-> ToldOf(r)]
<1>1. r \in Local
  BY DEF LocalInv
<1>2. Collected(n) = AllFound(r)
  BY DEF Collected, AllFound
<1>3. check'[n] = [r EXCEPT !.verdict = VerdictOn(r), !.failed_checks = ToldOf(r)]
  BY <1>2 DEF FanIn, VerdictOn, ToldOf
<1>4. check'[n] = s
  BY <1>1, <1>3 DEF Local
<1>5. Becomes(n, s)
  BY <1>4 DEF FanIn, Becomes
<1>6. s \in Local
  <2>1. VerdictOn(r) \in {"open", "closed"} /\ ToldOf(r) \in SUBSET Possible
    <3>1. \A v \in Validator : r.found[v] \subseteq Possible
      BY <1>1 DEF Local
    <3> QED
      BY <3>1 DEF VerdictOn, ToldOf, AllFound
  <2> QED
    BY <1>1, <2>1 DEF Local
<1>7. s.code = r.code /\ s.task = r.task /\ s.found = r.found /\ s.blind = r.blind /\ s.seen_methods = r.seen_methods
  OBVIOUS
<1>8. s.verdict = VerdictOn(r) /\ s.failed_checks = ToldOf(r)
  OBVIOUS
<1> HIDE DEF s
<1>9. ReportInv(s) /\ DenialInv(s) /\ SightInv(s)
  BY <1>7 DEF LocalInv, ReportInv, Looked, HasCritical, Detected, DenialInv, SightInv
<1>10. VerdictOn(s) = VerdictOn(r) /\ ToldOf(s) = ToldOf(r)
  BY <1>7 DEF VerdictOn, ToldOf, AllFound
<1>11. VerdictInv(s)
  BY <1>7, <1>8, <1>10 DEF FanIn, VerdictInv
<1> QED
  BY <1>5, <1>6, <1>7, <1>8, <1>9, <1>11 DEF LocalInv

\* Only a process that runs checks, and it has loaded its knowledge base.
LEMMA CheckingLoaded ==
  ASSUME DownInv, LoadedInv, NEW n \in Validations, check[n].verdict # "idle"
  PROVE  up /\ collection = LoadAll(schemas)
  BY DEF DownInv, LoadedInv, Idle

LEMMA LocalsStep == PlaceInv /\ LocalsInv /\ DownInv /\ LoadedInv /\ [Next]_vars => LocalsInv'
<1> SUFFICES ASSUME PlaceInv, LocalsInv, DownInv, LoadedInv, [Next]_vars PROVE LocalsInv'
  OBVIOUS
<1>1. ASSUME UNCHANGED <<schemas, collection, backend>>, UNCHANGED check
      PROVE  LocalsInv'
  BY <1>1, Steady DEF LocalsInv
<1>2. ASSUME UNCHANGED <<schemas, collection, backend>>, NEW n \in Validations, NEW s, Becomes(n, s), LocalInv(s)
      PROVE  LocalsInv'
  <2>1. \A m \in Validations : LocalInv(check'[m])
    BY <1>2 DEF Becomes, LocalsInv
  <2> QED
    BY <1>2, <2>1, Steady DEF LocalsInv
<1>3. CASE TaskStep
  <2>1. UNCHANGED <<schemas, collection, backend>>
    BY <1>3 DEF TaskStep
  <2>2. ASSUME NEW n \in Validations, Turns(n)
        PROVE  LocalsInv'
    <3>1. PICK s : Becomes(n, s) /\ Turn(check[n], s)
      BY <2>2 DEF Turns
    <3>2. collection = LoadAll(schemas)
      BY <3>1, CheckingLoaded DEF Turn
    <3>3. LocalInv(s)
      BY <3>1, <3>2, TurnKeeps DEF LocalsInv
    <3> QED
      BY <1>2, <2>1, <3>1, <3>3
  <2> QED
    BY <1>1, <1>3, <2>1, <2>2, TaskTurns
<1>4. ASSUME NEW n \in Validations, FanIn(n)
      PROVE  LocalsInv'
  <2>1. UNCHANGED <<schemas, collection, backend>>
    BY <1>4 DEF FanIn, kbVars, bslVars
  <2>2. LocalInv(check[n]) /\ DOMAIN check = Validations
    BY DEF LocalsInv, PlaceInv
  <2>3. PICK s : Becomes(n, s) /\ LocalInv(s)
    BY <1>4, <2>2, JudgeKeeps
  <2> QED
    BY <1>2, <2>1, <2>3
<1>5. CASE Start
  <2>1. \A n \in Validations : check'[n] = Idle
    BY <1>5 DEF Start, DownInv
  <2> QED
    BY <2>1, FreshIdle DEF LocalsInv
<1>6. CASE Crash
  <2>1. \A n \in Validations : check'[n] = Idle
    BY <1>6 DEF Crash
  <2> QED
    BY <2>1, FreshIdle DEF LocalsInv
<1>7. CASE FanOut
  <2>1. UNCHANGED <<schemas, collection, backend>>
    BY <1>7 DEF FanOut, kbVars, bslVars
  <2>2. PICK c \in Codes : check' = [check EXCEPT ![call + 1] = [Idle EXCEPT !.verdict = "checking", !.code = c]]
    BY <1>7 DEF FanOut
  <2>3. ASSUME NEW n \in Validations
        PROVE  LocalInv(check[n])'
    <3>1. CASE n = call + 1
      <4>1. check'[n] = Begun("checking", c)
        BY <2>2, <3>1 DEF PlaceInv, Idle, Begun
      <4> QED
        BY <4>1, Fresh
    <3>2. CASE n # call + 1
      <4>1. check'[n] = check[n]
        BY <2>2, <3>2 DEF PlaceInv
      <4> QED
        BY <2>1, <4>1, Steady DEF LocalsInv
    <3> QED
      BY <3>1, <3>2
  <2> QED
    BY <2>3 DEF LocalsInv
<1>8. CASE World \/ UNCHANGED vars \/ Finished
  BY <1>1, <1>8 DEF World, ReplaceDatabase, JarChanges, kbVars, bslVars, Finished, vars
<1> QED
  BY <1>3, <1>4, <1>5, <1>6, <1>7, <1>8 DEF Next, Progress

\* A step of a task leaves the process alone.
LEMMA TaskPlaces ==
  ASSUME PlaceInv, LocalsInv, TaskStep
  PROVE  PlaceInv'
<1> USE DEF PlaceInv
<1>1. UNCHANGED <<call, up, database, jar, backend, schemas, collection>>
  BY DEF TaskStep
<1>2. DOMAIN check' = Validations
  BY TaskTurns DEF Turns, Becomes
<1>3. ASSUME java' \in Seq(Validations), temp' \subseteq Validations \X {"source", "output"},
             died' \subseteq Validations, methods_cache' \in Contents, settled' \subseteq Databases
      PROVE  PlaceInv'
  BY <1>1, <1>2, <1>3
<1>4. CASE JavaEnds
  <2>1. java' \in Seq(Validations) /\ temp' \subseteq Validations \X {"source", "output"}
    BY <1>4, HeadTailProperties DEF JavaEnds, RunEnds, RemoveTemp
  <2> QED
    BY <1>3, <1>4, <2>1 DEF JavaEnds
<1>5. ASSUME NEW n \in Validations, LintRefused(n)
      PROVE  PlaceInv'
  <2>1. temp' \subseteq Validations \X {"source", "output"} /\ died' \subseteq Validations
    BY <1>5 DEF LintRefused
  <2> QED
    BY <1>3, <1>5, <2>1 DEF LintRefused
<1>6. ASSUME NEW n \in Validations, LintStarts(n)
      PROVE  PlaceInv'
  <2>1. java' \in Seq(Validations) /\ temp' \subseteq Validations \X {"source", "output"}
    BY <1>6, AppendProperties DEF LintStarts, RunStarts, TempFiles
  <2> QED
    BY <1>3, <1>6, <2>1 DEF LintStarts
<1>7. ASSUME NEW n \in Validations, NEW m, StoreDatabase(n, m) \/ LoadFails(n, m) \/ AskCache(n, m)
      PROVE  PlaceInv'
  <2>1. methods_cache' \in Contents /\ settled' \subseteq Databases
    BY <1>7, KnowledgeBaseAssumption DEF StoreDatabase, LoadFails, AskCache, Answer, Contents
  <2>2. UNCHANGED <<java, temp, died>>
    BY <1>7 DEF StoreDatabase, LoadFails, AskCache
  <2> QED
    BY <1>3, <2>1, <2>2
<1>8. ASSUME NEW n \in Validations,
             \/ LintSkipped(n) \/ ClientTimeout(n) \/ KbAntipatterns(n) \/ MethodsStart(n) \/ KbStandards(n)
             \/ FindsEmpty(n) \/ ReadDatabase(n) \/ MethodsEnd(n)
      PROVE  PlaceInv'
  <2>1. UNCHANGED <<settled, died, methods_cache, java, temp>>
    BY <1>8 DEF LintSkipped, ClientTimeout, KbAntipatterns, KbStandards, Detects, MethodsStart,
       FindsEmpty, ReadDatabase, MethodsEnd
  <2> QED
    BY <1>3, <2>1
<1> QED
  BY <1>4, <1>5, <1>6, <1>7, <1>8 DEF TaskStep

LEMMA PlaceStep == PlaceInv /\ LocalsInv /\ [Next]_vars => PlaceInv'
<1> SUFFICES ASSUME PlaceInv, LocalsInv, [Next]_vars PROVE PlaceInv'
  OBVIOUS
<1> USE DEF PlaceInv
<1>1. CASE TaskStep
  BY <1>1, TaskPlaces
<1>2. ASSUME NEW n \in Validations, FanIn(n)
      PROVE  PlaceInv'
  BY <1>2 DEF FanIn, kbVars, bslVars
<1>3. CASE Start
  <2>1. backend' \in {"subprocess", "http", "stub"} /\ UNCHANGED <<jar, java, temp>>
    BY <1>3 DEF Start, BslStart, make_bsl_ls_backend, auto_backend
  <2> QED
    BY <1>3, <2>1 DEF Start, KbStart, Contents
<1>4. CASE FanOut
  <2>1. call' \in 0..MaxCalls /\ DOMAIN check' = Validations
    BY <1>4, ValidatorsAssumption DEF FanOut
  <2> QED
    BY <1>4, <2>1 DEF FanOut, kbVars, bslVars
<1>5. CASE Crash
  <2>1. \A k \in DOMAIN java : java[k] \in Validations
    BY ElementOfSeq
  <2>2. java' \in Seq(Validations) /\ died' \subseteq Validations
    BY <1>5, <2>1 DEF Crash
  <2> QED
    BY <1>5, <2>2 DEF Crash, Contents
<1>6. CASE World \/ UNCHANGED vars \/ Finished
  BY <1>6 DEF World, ReplaceDatabase, JarChanges, kbVars, bslVars, vars, Finished
<1> QED
  BY <1>1, <1>2, <1>3, <1>4, <1>5, <1>6 DEF Next, Progress

\* Nothing of a process outlives it in memory.
LEMMA DownStep == PlaceInv /\ LocalsInv /\ DownInv /\ [Next]_vars => DownInv'
<1> SUFFICES ASSUME PlaceInv, LocalsInv, DownInv, [Next]_vars, ~up' PROVE DownInv'
  BY DEF DownInv
<1>1. CASE TaskStep
  <2>1. ~up /\ \A n \in Validations : check[n].verdict = "idle"
    BY <1>1 DEF TaskStep, DownInv, Idle
  <2>2. UNCHANGED check
    BY <1>1, <2>1, TaskTurns DEF Turns, Turn
  <2>3. ASSUME NEW n \in Validations, NEW m, StoreDatabase(n, m) \/ LoadFails(n, m) \/ AskCache(n, m)
        PROVE  FALSE
    <3>1. check[n].verdict = "checking"
      BY <2>3 DEF StoreDatabase, LoadFails, AskCache, Asks, InThread, Checking
    <3> QED
      BY <2>1, <3>1
  <2>4. UNCHANGED settled
    BY <1>1, <2>3 DEF TaskStep, JavaEnds, LintSkipped, LintRefused, LintStarts, ClientTimeout, KbAntipatterns,
       KbStandards, Detects, MethodsStart, FindsEmpty, ReadDatabase, MethodsEnd
  <2> QED
    BY <2>1, <2>2, <2>4 DEF DownInv
<1>2. CASE Crash
  BY <1>2 DEF Crash, DownInv
<1>3. ASSUME NEW n \in Validations, FanIn(n)
      PROVE  FALSE
  <2>1. ~up /\ check[n].verdict = "checking"
    BY <1>3 DEF FanIn, Checking
  <2> QED
    BY <2>1 DEF DownInv, Idle
<1>4. ASSUME UNCHANGED <<up, check, settled>>
      PROVE  DownInv'
  BY <1>4 DEF DownInv
<1>5. CASE World \/ Finished \/ UNCHANGED vars
  BY <1>4, <1>5 DEF World, Finished, vars
<1>6. ~Start
  BY DEF Start
<1>7. ~FanOut
  <2>1. FanOut => up /\ up' = up
    BY DEF FanOut
  <2> QED
    BY <2>1
<1> QED
  BY <1>1, <1>2, <1>3, <1>5, <1>6, <1>7 DEF Next, Progress

\* KbServer() loads once; nothing changes the entries afterwards.
LEMMA LoadedStep == LoadedInv /\ [Next]_vars => LoadedInv'
<1> SUFFICES ASSUME LoadedInv, [Next]_vars PROVE LoadedInv'
  OBVIOUS
<1>1. CASE Start
  BY <1>1, KnowledgeBaseAssumption DEF Start, KbStart, LoadedInv
<1>2. CASE Crash
  BY <1>2 DEF Crash, LoadedInv
<1>3. UNCHANGED <<up, collection, schemas>> => LoadedInv'
  BY DEF LoadedInv
<1> QED
  BY <1>1, <1>2, <1>3 DEF Next, Progress, TaskStep, FanOut, FanIn, World, ReplaceDatabase, Finished, kbVars, vars

\* Files whose Java process neither runs nor died were removed (lint,
\* subprocess.run, the container's worker).
LEMMA TempStep == PlaceInv /\ NothingLeftBehind /\ [Next]_vars => NothingLeftBehind'
<1> SUFFICES ASSUME PlaceInv, NothingLeftBehind, [Next]_vars PROVE NothingLeftBehind'
  OBVIOUS
<1>1. CASE UNCHANGED <<java, temp, died>>
  BY <1>1 DEF NothingLeftBehind
<1>2. ASSUME NEW n \in Validations, LintRefused(n)
      PROVE  NothingLeftBehind'
  BY <1>2 DEF LintRefused, NothingLeftBehind
<1>3. ASSUME NEW n \in Validations, LintStarts(n)
      PROVE  NothingLeftBehind'
  <2>1. java' = Append(java, n) /\ temp' = temp \cup TempFiles(n) /\ died' = died
    BY <1>3 DEF LintStarts, RunStarts
  <2>2. \A k \in DOMAIN java : k \in DOMAIN java' /\ java'[k] = java[k]
    BY <2>1, AppendProperties DEF PlaceInv
  <2>3. Len(java) + 1 \in DOMAIN java' /\ java'[Len(java) + 1] = n
    BY <2>1, AppendProperties DEF PlaceInv
  <2> QED
    BY <2>1, <2>2, <2>3 DEF NothingLeftBehind, TempFiles
<1>4. CASE JavaEnds
  <2>1. java # <<>> /\ java' = Tail(java) /\ temp' = temp \ TempFiles(Head(java)) /\ died' = died
    BY <1>4 DEF JavaEnds, RunEnds, RemoveTemp
  <2>2. ASSUME NEW k \in DOMAIN java
        PROVE  java[k] = Head(java) \/ \E l \in DOMAIN java' : java'[l] = java[k]
    <3>1. CASE k = 1
      BY <3>1
    <3>2. CASE k # 1
      <4>1. k - 1 \in DOMAIN java' /\ java'[k - 1] = java[k]
        BY <2>1, <2>2, <3>2, HeadTailProperties DEF PlaceInv
      <4> QED
        BY <4>1
    <3> QED
      BY <3>1, <3>2
  <2>3. ASSUME NEW t \in temp'
        PROVE  t[1] # Head(java)
    BY <2>1, <2>3 DEF TempFiles, PlaceInv
  <2> QED
    BY <2>1, <2>2, <2>3 DEF NothingLeftBehind
<1>5. CASE Crash
  BY <1>5 DEF Crash, NothingLeftBehind
<1>6. CASE TaskStep
  <2>1. ASSUME NEW n \in Validations
        PROVE  /\ LintSkipped(n) \/ ClientTimeout(n) \/ KbAntipatterns(n) \/ MethodsStart(n) \/ KbStandards(n)
                    => UNCHANGED <<java, temp, died>>
               /\ FindsEmpty(n) \/ ReadDatabase(n) \/ MethodsEnd(n) => UNCHANGED <<java, temp, died>>
               /\ \A m : StoreDatabase(n, m) \/ LoadFails(n, m) \/ AskCache(n, m) => UNCHANGED <<java, temp, died>>
    BY DEF LintSkipped, ClientTimeout, KbAntipatterns, KbStandards, Detects, MethodsStart, FindsEmpty,
           ReadDatabase, MethodsEnd, StoreDatabase, LoadFails, AskCache
  <2> QED
    BY <1>1, <1>2, <1>3, <1>4, <1>6, <2>1 DEF TaskStep
<1>7. Start \/ FanOut \/ (\E n \in Validations : FanIn(n)) \/ World => UNCHANGED <<java, temp, died>>
  BY DEF Start, BslStart, FanOut, FanIn, World, JarChanges, bslVars
<1> QED
  BY <1>1, <1>5, <1>6, <1>7 DEF Next, Progress, Finished, vars


\* When contents have settled in the cache, nobody loads any more: whoever finds
\* the cache empty does so before, and the last of them settles them.
LEMMA SettledStep ==
  PlaceInv /\ LocalsInv /\ DownInv /\ OneDatabaseOnceSettled /\ [Next]_vars => OneDatabaseOnceSettled'
<1> SUFFICES ASSUME PlaceInv, LocalsInv, DownInv, OneDatabaseOnceSettled, [Next]_vars PROVE OneDatabaseOnceSettled'
  OBVIOUS
<1> DEFINE Quiet == \A n \in Validations : check'[n].reading = check[n].reading \/ check'[n].reading = None
<1>1. ASSUME UNCHANGED <<methods_cache, settled>>, Quiet
      PROVE  OneDatabaseOnceSettled'
  BY <1>1 DEF OneDatabaseOnceSettled
<1>2. ASSUME settled = {}, UNCHANGED settled
      PROVE  OneDatabaseOnceSettled'
  BY <1>2 DEF OneDatabaseOnceSettled
<1>3. \A db \in settled : db \in Databases /\ db # None
  BY KnowledgeBaseAssumption DEF PlaceInv, None
<1>4. ASSUME NEW n \in Validations, FindsEmpty(n) \/ ReadDatabase(n)
      PROVE  OneDatabaseOnceSettled'
  <2>1. UNCHANGED settled /\ (methods_cache = None \/ check[n].reading # None)
    BY <1>4, KnowledgeBaseAssumption DEF FindsEmpty, ReadDatabase, cache_empty, None
  <2>2. settled = {}
    BY <1>3, <2>1 DEF OneDatabaseOnceSettled
  <2> QED
    BY <1>2, <2>1, <2>2
<1>5. ASSUME NEW n \in Validations, NEW m, NEW known, Answer(n, m, known)
      PROVE  /\ check'[n].reading = None /\ \A o \in Validations \ {n} : check'[o].reading = check[o].reading
             /\ settled' = IF Alone(n) /\ known # None THEN settled \cup {known} ELSE settled
  <2>1. check[n] \in Local
    BY DEF LocalsInv, LocalInv
  <2>2. Becomes(n, Answered(check[n], m, known))
    BY <1>5, <2>1, AnswerStep
  <2> QED
    BY <1>5, <2>2 DEF Becomes, Answered, With, Answer
<1>6. ASSUME NEW n \in Validations, NEW m, StoreDatabase(n, m)
      PROVE  OneDatabaseOnceSettled'
  <2> DEFINE db == check[n].reading
  <2>1. db \in Databases /\ db # None /\ methods_cache' = db
    BY <1>6, KnowledgeBaseAssumption DEF StoreDatabase, None
  <2>2. settled = {}
    BY <2>1 DEF OneDatabaseOnceSettled
  <2>3. /\ check'[n].reading = None /\ \A o \in Validations \ {n} : check'[o].reading = check[o].reading
        /\ settled' = IF Alone(n) /\ db # None THEN {db} ELSE {}
    BY <1>5, <1>6, <2>2 DEF StoreDatabase
  <2> QED
    BY <2>1, <2>3 DEF Alone, OneDatabaseOnceSettled
<1>7. ASSUME NEW n \in Validations, NEW m, LoadFails(n, m)
      PROVE  OneDatabaseOnceSettled'
  <2>1. settled' = settled /\ methods_cache' = methods_cache /\ Quiet
    BY <1>5, <1>7 DEF LoadFails
  <2> QED
    BY <1>1, <2>1
<1>8. ASSUME NEW n \in Validations, NEW m, AskCache(n, m)
      PROVE  OneDatabaseOnceSettled'
  <2>1. /\ check[n].reading = None /\ methods_cache' = methods_cache /\ methods_cache # None
        /\ settled' = IF Alone(n) /\ methods_cache # None THEN settled \cup {methods_cache} ELSE settled
        /\ Quiet /\ check'[n].reading = None
        /\ \A o \in Validations \ {n} : check'[o].reading = check[o].reading
    BY <1>5, <1>8 DEF AskCache, cache_empty
  <2>2. CASE Alone(n)
    BY <2>1, <2>2 DEF Alone, OneDatabaseOnceSettled
  <2>3. CASE ~Alone(n)
    BY <1>1, <2>1, <2>3
  <2> QED
    BY <2>2, <2>3
<1>9. ASSUME NEW n \in Validations,
             \/ LintSkipped(n) \/ LintRefused(n) \/ LintStarts(n) \/ ClientTimeout(n)
             \/ KbAntipatterns(n) \/ KbStandards(n) \/ MethodsStart(n) \/ MethodsEnd(n)
      PROVE  OneDatabaseOnceSettled'
  <2>1. UNCHANGED <<methods_cache, settled>>
    BY <1>9 DEF LintSkipped, LintRefused, LintStarts, ClientTimeout, KbAntipatterns, KbStandards, Detects,
       MethodsStart, MethodsEnd
  <2>2. check[n] \in Local
    BY DEF LocalsInv, LocalInv
  <2>3. (\E v, F : Returns(n, v, F)) \/ (\E v : Fails(n, v)) \/ (\E v : Waits(n, v))
          \/ check' = [check EXCEPT ![n].task["methods"] = "done"]
    BY <1>9 DEF LintSkipped, LintRefused, LintStarts, ClientTimeout, KbAntipatterns, KbStandards, Detects,
       MethodsStart, MethodsEnd
  <2> DEFINE Keeps == check'[n].reading = check[n].reading /\ \A o \in Validations \ {n} : check'[o] = check[o]
  <2>4. ASSUME NEW v, NEW F, Returns(n, v, F)
        PROVE  Keeps
    BY <2>2, <2>4 DEF Returns, Local, PlaceInv
  <2>5. ASSUME NEW v, Fails(n, v)
        PROVE  Keeps
    BY <2>2, <2>5 DEF Fails, Local, PlaceInv
  <2>6. ASSUME NEW v, Waits(n, v)
        PROVE  Keeps
    BY <2>2, <2>6 DEF Waits, Local, PlaceInv
  <2>7. check' = [check EXCEPT ![n].task["methods"] = "done"] => Keeps
    BY <2>2 DEF Local, PlaceInv
  <2> HIDE DEF Keeps
  <2>8. Keeps
    BY <2>3, <2>4, <2>5, <2>6, <2>7
  <2>9. Quiet
    BY <2>8 DEF Keeps
  <2> QED
    BY <1>1, <2>1, <2>9
<1>10. CASE JavaEnds
  <2>1. Head(java) \in Validations
    BY <1>10, HeadTailProperties DEF JavaEnds, PlaceInv
  <2> DEFINE n == Head(java)
  <2>2. check[n] \in Local
    BY <2>1 DEF LocalsInv, LocalInv
  <2>3. UNCHANGED check \/ (\E F : Returns(n, "bsl_ls", F)) \/ Fails(n, "bsl_ls")
    BY <1>10 DEF JavaEnds
  <2> HIDE DEF n
  <2>4. Quiet
    BY <2>2, <2>3 DEF Returns, Fails, Local, PlaceInv
  <2> QED
    BY <1>1, <1>10, <2>4 DEF JavaEnds
<1>11. CASE TaskStep
  BY <1>4, <1>6, <1>7, <1>8, <1>9, <1>10, <1>11 DEF TaskStep
<1>12. ASSUME NEW n \in Validations, FanIn(n)
       PROVE  OneDatabaseOnceSettled'
  <2>1. PICK s : s.verdict = VerdictOn(check[n]) /\ Becomes(n, s)
    BY <1>12, JudgeKeeps DEF LocalsInv, PlaceInv
  <2>2. check'[n].reading = check[n].reading /\ UNCHANGED <<methods_cache, settled>>
    BY <1>12 DEF FanIn, kbVars, LocalsInv, LocalInv, Local, PlaceInv
  <2> QED
    BY <1>1, <2>1, <2>2 DEF Becomes
<1>13. CASE Start
  BY <1>2, <1>13 DEF Start, DownInv
<1>14. CASE Crash
  BY <1>14 DEF Crash, OneDatabaseOnceSettled
<1>15. CASE FanOut
  <2>1. PICK c \in Codes : check' = [check EXCEPT ![call + 1] = [Idle EXCEPT !.verdict = "checking", !.code = c]]
    BY <1>15 DEF FanOut
  <2>2. Quiet
    BY <2>1 DEF Idle, PlaceInv
  <2> QED
    BY <1>1, <1>15, <2>2 DEF FanOut, kbVars
<1>16. CASE World \/ UNCHANGED vars \/ Finished
  BY <1>1, <1>16 DEF World, ReplaceDatabase, kbVars, Finished, vars
<1> QED
  BY <1>11, <1>12, <1>13, <1>14, <1>15, <1>16 DEF Next, Progress



\* Nothing but the validations' states is in the table of them.
LEMMA ShapeStep == PlaceInv /\ ShapeInv /\ [Next]_vars => ShapeInv'
<1> SUFFICES ASSUME PlaceInv, ShapeInv, [Next]_vars PROVE ShapeInv'
  OBVIOUS
<1>1. DOMAIN check = Validations
  BY DEF PlaceInv
<1>2. ASSUME NEW n \in Validations, NEW local, check' = [check EXCEPT ![n] = local]
      PROVE  ShapeInv'
  BY <1>1, <1>2 DEF ShapeInv
<1>3. ASSUME UNCHANGED check
      PROVE  ShapeInv'
  BY <1>3 DEF ShapeInv
<1>4. ASSUME NEW n \in Validations,
             (\E v, F : Returns(n, v, F)) \/ (\E v : Fails(n, v)) \/ (\E v : Waits(n, v))
      PROVE  ShapeInv'
  <2>1. ASSUME NEW v, NEW F, Returns(n, v, F)
        PROVE  ShapeInv'
    BY <1>1, <2>1 DEF Returns, ShapeInv
  <2>2. ASSUME NEW v, Fails(n, v)
        PROVE  ShapeInv'
    BY <1>1, <2>2 DEF Fails, ShapeInv
  <2>3. ASSUME NEW v, Waits(n, v)
        PROVE  ShapeInv'
    BY <1>1, <2>3 DEF Waits, ShapeInv
  <2> QED
    BY <1>4, <2>1, <2>2, <2>3
<1>5. ASSUME NEW n \in Validations, NEW v,
             \/ LintSkipped(n) \/ LintRefused(n) \/ LintStarts(n) \/ ClientTimeout(n)
             \/ KbAntipatterns(n) \/ KbStandards(n) \/ MethodsStart(n)
      PROVE  ShapeInv'
  BY <1>4, <1>5 DEF LintSkipped, LintRefused, LintStarts, ClientTimeout, KbAntipatterns, KbStandards, Detects, MethodsStart
<1>6. ASSUME NEW n \in Validations, FindsEmpty(n) \/ ReadDatabase(n) \/ MethodsEnd(n)
      PROVE  ShapeInv'
  BY <1>2, <1>6 DEF FindsEmpty, ReadDatabase, MethodsEnd
<1>7. ASSUME NEW n \in Validations, NEW m, NEW known, Answer(n, m, known)
      PROVE  ShapeInv'
  <2> DEFINE Seen == [check EXCEPT ![n].seen_methods = @ \cup {m}]
             Read == [Seen EXCEPT ![n].reading = None]
  <2>1. check' = [Read EXCEPT ![n].found["methods"] = IF Available(known, m, check[n].code.context) THEN @
                                ELSE @ \cup {Finding("kb_antipatterns", m, "critical")}]
    BY <1>7 DEF Answer
  <2>2. DOMAIN Read = Validations
    BY <1>1
  <2> HIDE DEF Read
  <2> QED
    BY <2>1, <2>2 DEF ShapeInv
<1>8. ASSUME NEW n \in Validations, NEW m, StoreDatabase(n, m) \/ LoadFails(n, m) \/ AskCache(n, m)
      PROVE  ShapeInv'
  BY <1>7, <1>8 DEF StoreDatabase, LoadFails, AskCache
<1>9. CASE JavaEnds
  <2>1. Head(java) \in Validations
    BY <1>9, HeadTailProperties DEF JavaEnds, PlaceInv
  <2> QED
    BY <1>3, <1>4, <1>9, <2>1 DEF JavaEnds
<1>10. CASE TaskStep
  BY <1>5, <1>6, <1>8, <1>9, <1>10 DEF TaskStep
<1>11. ASSUME NEW n \in Validations, FanIn(n)
       PROVE  ShapeInv'
  BY <1>2, <1>11 DEF FanIn
<1>12. CASE FanOut
  <2>1. call + 1 \in Validations
    BY <1>12, ValidatorsAssumption DEF FanOut, PlaceInv, Validations
  <2> QED
    BY <1>2, <1>12, <2>1 DEF FanOut
<1>13. CASE Crash
  BY <1>13 DEF Crash, ShapeInv
<1>14. CASE Start \/ World \/ Finished \/ UNCHANGED vars
  BY <1>3, <1>14 DEF Start, World, Finished, vars
<1> QED
  BY <1>10, <1>11, <1>12, <1>13, <1>14 DEF Next, Progress

\* Nobody takes a turn in a validation that has not begun.
LEMMA FutureStep == PlaceInv /\ LocalsInv /\ DownInv /\ FutureInv /\ [Next]_vars => FutureInv'
<1> SUFFICES ASSUME PlaceInv, LocalsInv, DownInv, FutureInv, [Next]_vars PROVE FutureInv'
  OBVIOUS
<1>1. ASSUME UNCHANGED <<call, check>>
      PROVE  FutureInv'
  BY <1>1 DEF FutureInv
<1>2. ASSUME NEW n \in Validations, NEW s, check[n].verdict = "checking", Becomes(n, s), call' = call
      PROVE  FutureInv'
  <2>1. ~(n > call)
    BY <1>2 DEF FutureInv, Idle
  <2> QED
    BY <1>2, <2>1 DEF FutureInv, Becomes
<1>3. CASE TaskStep
  <2>1. call' = call
    BY <1>3 DEF TaskStep
  <2> QED
    BY <1>1, <1>2, <1>3, <2>1, TaskTurns DEF Turns, Turn
<1>4. ASSUME NEW n \in Validations, FanIn(n)
      PROVE  FutureInv'
  <2>1. call' = call /\ check[n].verdict = "checking"
    BY <1>4 DEF FanIn, Checking
  <2>2. LocalInv(check[n]) /\ DOMAIN check = Validations
    BY DEF LocalsInv, PlaceInv
  <2>3. PICK s : Becomes(n, s)
    BY <1>4, <2>2, JudgeKeeps
  <2> QED
    BY <1>2, <2>1, <2>3
<1>5. CASE FanOut
  <2>1. PICK c \in Codes : check' = [check EXCEPT ![call + 1] = [Idle EXCEPT !.verdict = "checking", !.code = c]]
    BY <1>5 DEF FanOut
  <2>2. call' = call + 1
    BY <1>5 DEF FanOut
  <2>3. call \in Nat
    BY ValidatorsAssumption DEF PlaceInv
  <2>4. ASSUME NEW n \in Validations, n > call'
        PROVE  check'[n] = Idle
    <3>1. n > call /\ n # call + 1
      BY <2>2, <2>3, <2>4 DEF Validations
    <3> QED
      BY <2>1, <3>1 DEF FutureInv, PlaceInv
  <2> QED
    BY <2>4 DEF FutureInv
<1>6. CASE Crash
  BY <1>6 DEF Crash, FutureInv
<1>7. CASE Start \/ World \/ Finished \/ UNCHANGED vars
  BY <1>1, <1>7 DEF Start, World, Finished, vars
<1> QED
  BY <1>3, <1>4, <1>5, <1>6, <1>7 DEF Next, Progress

-----------------------------------------------------------------------------
(* The invariant                                                           *)

LEMMA ValidatorsInit == Init => ValidatorsInv
<1> SUFFICES ASSUME Init PROVE ValidatorsInv
  OBVIOUS
<1>1. \A n \in Validations : check[n] = Idle
  BY DEF Init
<1>2. PlaceInv
  <2>1. DOMAIN check = Validations /\ up \in BOOLEAN /\ settled \subseteq Databases /\ died \subseteq Validations
    BY DEF Init
  <2>4. call \in 0..MaxCalls
    <3>1. call = 0
      BY DEF Init
    <3> QED
      BY <3>1, ValidatorsAssumption
  <2>2. database \in Databases \cup NoDatabase /\ methods_cache \in Contents
    BY DEF Init, KbInit, Contents
  <2>3. jar \in BOOLEAN /\ backend \in {"subprocess", "http", "stub"}
        /\ java \in Seq(Validations) /\ temp \subseteq Validations \X {"source", "output"}
    BY DEF Init, BslInit
  <2> QED
    BY <2>1, <2>2, <2>3, <2>4 DEF PlaceInv
<1>3. \A n \in Validations : LocalInv(check[n])
  BY <1>1, BegunParts, FreshNow DEF BegunInv
<1>4. DownInv /\ LoadedInv /\ FutureInv /\ NothingLeftBehind /\ OneDatabaseOnceSettled
  BY <1>1 DEF Init, KbInit, BslInit, DownInv, LoadedInv, FutureInv, NothingLeftBehind, OneDatabaseOnceSettled
<1>5. ShapeInv
  BY DEF Init, ShapeInv
<1> QED
  BY <1>2, <1>3, <1>4, <1>5 DEF ValidatorsInv, LocalsInv

LEMMA ValidatorsInvariance == Spec => []ValidatorsInv
<1>1. ValidatorsInv /\ [Next]_vars => ValidatorsInv'
  BY PlaceStep, ShapeStep, LocalsStep, DownStep, LoadedStep, FutureStep, TempStep, SettledStep DEF ValidatorsInv
<1> QED
  BY <1>1, ValidatorsInit, PTL DEF Spec

-----------------------------------------------------------------------------
(* What it implies                                                         *)

\* No temporary file outlives its Java process, but for those of calls whose
\* preparation failed or whose process died (lint, the container's worker).
THEOREM FilesGo == Spec => []NothingLeftBehind
<1>1. ValidatorsInv => NothingLeftBehind
  BY DEF ValidatorsInv
<1> QED
  BY <1>1, ValidatorsInvariance, PTL

\* However the threads of overlapping validations interleave in loading the
\* database, and whatever happens to the file: contents that answered a question
\* while no other thread was loading are the ones the process judges by until it
\* ends (_load_platform_methods_from_db).
THEOREM OneDatabaseSettles == Spec => []OneDatabaseOnceSettled
<1>1. ValidatorsInv => OneDatabaseOnceSettled
  BY DEF ValidatorsInv
<1> QED
  BY <1>1, ValidatorsInvariance, PTL

\* A sound critical entry that matches is a critical finding of a detection that
\* saw all entries.
LEMMA DetectionCloses ==
  ASSUME NEW r, NEW v, NEW kind \in {"antipattern", "standard"}, NEW source, NEW filter, "critical" \in filter,
         collection = LoadAll(schemas), r.found[v] = Detected(r, kind, source, filter),
         NEW f \in KbFiles, f.kind = kind, f.severity = "critical", Sound(f), f.id \in r.code.matched
  PROVE  HasCritical(r, v)
<1>1. f.id \in DOMAIN collection[kind] /\ collection[kind][f.id] = f
  BY Loaded DEF Kinds
<1>2. f.id \in Detect(kind, filter, r.code.matched)
  BY <1>1 DEF Detect, Selected, Sound
<1>3. Finding(source, f.id, f.severity) \in r.found[v]
  BY <1>1, <1>2 DEF Detected
<1> QED
  BY <1>3 DEF HasCritical, Finding

\* An open gate on code that is plainly wrong means that the validator which
\* should have seen it could not look (validate_node).
THEOREM Gatekeeping == Spec => []GateIsSound
<1>1. ValidatorsInv => GateIsSound
  <2> SUFFICES ASSUME ValidatorsInv, NEW n \in Validations, check[n].verdict = "open",
                      NEW v \in Validator, Undisputed(check[n].code, v),
                      v \notin check[n].blind, ~(v = "bsl_ls" /\ backend = "stub")
               PROVE  FALSE
    BY DEF GateIsSound
  <2> DEFINE r == check[n]
  <2>1. LocalInv(r)
    BY DEF ValidatorsInv, LocalsInv
  <2>2. r.task[v] = "done" /\ r.verdict = VerdictOn(r)
    BY <2>1 DEF LocalInv, VerdictInv
  <2>3. Looked(r, v)
    BY <2>1, <2>2 DEF LocalInv, ReportInv
  <2>4. ~HasCritical(r, v)
    BY <2>2 DEF VerdictOn, AllFound, HasCritical
  <2>5. collection = LoadAll(schemas)
    BY CheckingLoaded DEF ValidatorsInv
  <2>6. CASE v = "bsl_ls" \/ v = "methods"
    BY <2>3, <2>4, <2>6 DEF Looked
  <2>7. CASE v = "antipatterns"
    <3>1. KbGiven /\ \E f \in KbFiles : /\ f.kind = "antipattern" /\ f.severity = "critical"
                                        /\ Sound(f) /\ f.id \in r.code.matched
      BY <2>7 DEF Undisputed
    <3>2. r.found[v] = Detected(r, "antipattern", "kb_antipatterns", {"critical", "warning"})
      BY <2>3, <2>7, <3>1 DEF Looked
    <3> HIDE DEF r
    <3> QED
      BY <2>4, <2>5, <3>1, <3>2, DetectionCloses
  <2>8. CASE v = "standards"
    <3>1. KbGiven /\ \E f \in KbFiles : /\ f.kind = "standard" /\ f.severity = "critical"
                                        /\ Sound(f) /\ f.id \in r.code.matched
      BY <2>8 DEF Undisputed
    <3>2. r.found[v] = Detected(r, "standard", "kb_standards", Severity)
      BY <2>3, <2>8, <3>1 DEF Looked
    <3>3. "critical" \in Severity
      BY DEF Severity
    <3> HIDE DEF r
    <3> QED
      BY <2>4, <2>5, <3>1, <3>2, <3>3, DetectionCloses
  <2> QED
    BY <2>6, <2>7, <2>8, FourValidators
<1> QED
  BY <1>1, ValidatorsInvariance, PTL

\* A file of the knowledge base that is broken costs no findings but its own
\* (load_all, detect_antipatterns, detect_standards).
THEOREM BadFiles == Spec => []BadFileDisablesItself
<1>1. ASSUME ValidatorsInv, NEW n \in Validations, check[n].verdict \in {"open", "closed"},
             NEW f \in KbFiles, Sound(f), f.kind = "antipattern", f.id \in check[n].code.matched, KbGiven,
             f.severity # "info", "antipattern" \in schemas
      PROVE  Finding("kb_antipatterns", f.id, f.severity) \in check[n].failed_checks
  <2> DEFINE r == check[n]
  <2>1. "antipatterns" \in Validator
    BY FourValidators
  <2>2. LocalInv(r)
    BY <1>1 DEF ValidatorsInv, LocalsInv
  <2>3. r.task["antipatterns"] = "done" /\ r.failed_checks = ToldOf(r)
    BY <1>1, <2>1, <2>2 DEF LocalInv, VerdictInv
  <2>4. Looked(r, "antipatterns")
    BY <1>1, <2>1, <2>2, <2>3 DEF LocalInv, ReportInv, SightInv
  <2>5. f.severity \in {"critical", "warning"}
    BY <1>1, KnowledgeBaseAssumption DEF KbFile, Severity
  <2>6. collection = LoadAll(schemas)
    BY <1>1, CheckingLoaded DEF ValidatorsInv
  <2>7. f.id \in DOMAIN collection["antipattern"] /\ collection["antipattern"][f.id] = f
    BY <1>1, <2>6, Loaded DEF Kinds
  <2>8. f.id \in Detect("antipattern", {"critical", "warning"}, r.code.matched)
    BY <1>1, <2>5, <2>7 DEF Detect, Selected, Sound
  <2>9. Finding("kb_antipatterns", f.id, f.severity) \in r.found["antipatterns"]
    BY <1>1, <2>4, <2>7, <2>8 DEF Looked, Detected
  <2>10. Finding("kb_antipatterns", f.id, f.severity) \in AllFound(r)
    BY <2>1, <2>9 DEF AllFound
  <2> QED
    BY <2>3, <2>5, <2>10 DEF ToldOf, Finding
<1>2. ValidatorsInv => BadFileDisablesItself
  BY <1>1 DEF BadFileDisablesItself, ValidatorsInv, LocalsInv, LocalInv, SightInv
<1> QED
  BY <1>2, ValidatorsInvariance, PTL


-----------------------------------------------------------------------------
(* The gate *)

\* What a validation has reported, by its local state.
ReportsOf(r) == [v \in {w \in Validator : r.task[w] = "done"} |-> r.found[v]]

\* A turn of a task is nothing to the gate, or one validator's report.
LEMMA TurnReports ==
  ASSUME NEW r \in Local, NEW s \in Local, Turn(r, s)
  PROVE  /\ r.verdict = "checking" /\ s.verdict = "checking" /\ s.failed_checks = r.failed_checks
         /\ \/ ReportsOf(s) = ReportsOf(r)
            \/ \E v \in Validator :
                 /\ v \notin DOMAIN ReportsOf(r) /\ DOMAIN ReportsOf(s) = DOMAIN ReportsOf(r) \cup {v}
                 /\ ReportsOf(s)[v] \subseteq Possible
                 /\ \A w \in DOMAIN ReportsOf(r) : ReportsOf(s)[w] = ReportsOf(r)[w]
<1> USE FourValidators
<1> DEFINE Silent == ReportsOf(s) = ReportsOf(r)
           Speaks(v) == /\ v \notin DOMAIN ReportsOf(r) /\ DOMAIN ReportsOf(s) = DOMAIN ReportsOf(r) \cup {v}
                        /\ ReportsOf(s)[v] \subseteq Possible
                        /\ \A w \in DOMAIN ReportsOf(r) : ReportsOf(s)[w] = ReportsOf(r)[w]
<1>1. r.verdict = "checking" /\ s.verdict = r.verdict /\ s.failed_checks = r.failed_checks
  BY DEF Turn, LintTurn, StartTurn, ThreadTurn, DetectTurn, Reported, Blinded, Waiting, Reading, Answered, Ended, With
<1>2. ASSUME NEW v \in Validator, r.task[v] # "done", s.task[v] = "done",
             \A w \in Validator \ {v} : s.task[w] = r.task[w] /\ s.found[w] = r.found[w]
      PROVE  Speaks(v)
  <2>1. s.found[v] \subseteq Possible
    BY DEF Local
  <2> QED
    BY <1>2, <2>1 DEF ReportsOf
<1>3. ASSUME \A w \in Validator : s.task[w] = "done" <=> r.task[w] = "done",
             \A w \in Validator : r.task[w] = "done" => s.found[w] = r.found[w]
      PROVE  Silent
  BY <1>3 DEF ReportsOf
<1>4. ASSUME NEW v \in Validator, r.task[v] # "done",
             (\E F : s = Reported(r, v, F)) \/ s = Blinded(r, v)
      PROVE  Speaks(v)
  <2>1. CASE s = Blinded(r, v)
    BY <1>2, <1>4, <2>1 DEF Blinded, With, Done, Local
  <2>2. ASSUME NEW F, s = Reported(r, v, F)
        PROVE  Speaks(v)
    BY <1>2, <1>4, <2>2 DEF Reported, With, Done, Local
  <2> HIDE DEF Speaks
  <2> QED
    BY <1>4, <2>1, <2>2
<1>5. ASSUME NEW v \in Validator, r.task[v] # "done", s = Waiting(r, v)
      PROVE  Silent
  BY <1>3, <1>5 DEF Waiting, With, Local
<1>6. ASSUME NEW contents, s = Reading(r, contents)
      PROVE  Silent
  BY <1>3, <1>6 DEF Reading, With, Local
<1>7. ASSUME NEW m, NEW known, r.task["methods"] # "done", s = Answered(r, m, known)
      PROVE  Silent
  BY <1>3, <1>7 DEF Answered, With, Local
<1>8. ASSUME r.task["methods"] # "done", s = Ended(r)
      PROVE  Speaks("methods")
  BY <1>2, <1>8 DEF Ended, With, Done, Local
<1> HIDE DEF Silent, Speaks
<1>9. Silent \/ \E v \in Validator : Speaks(v)
  <2>1. CASE LintTurn(r, s)
    BY <1>4, <1>5, <2>1 DEF LintTurn
  <2>2. CASE StartTurn(r, s)
    BY <1>4, <1>5, <2>2 DEF StartTurn
  <2>3. CASE ThreadTurn(r, s)
    BY <1>6, <1>7, <1>8, <2>3 DEF ThreadTurn
  <2>4. ASSUME NEW v \in {"antipatterns", "standards"}, NEW kind, NEW source, NEW filter,
               DetectTurn(r, s, v, kind, source, filter)
        PROVE  Speaks(v)
    BY <1>4, <2>4 DEF DetectTurn
  <2> QED
    BY <2>1, <2>2, <2>3, <2>4 DEF Turn
<1> QED
  BY <1>1, <1>9 DEF Silent, Speaks

ReportsNow == [n \in Validations |-> ReportsOf(check[n])]
VerdictsNow == [n \in Validations |-> check[n].verdict]
ToldNow == [n \in Validations |-> check[n].failed_checks]

GateStep == TheGate!GateNext \/ UNCHANGED <<ReportsNow, VerdictsNow, ToldNow>>

\* The step of a task.
LEMMA TaskGate ==
  ASSUME PlaceInv, LocalsInv, LocalsInv', TaskStep
  PROVE  GateStep
<1>1. CASE UNCHANGED check
  BY <1>1 DEF GateStep, ReportsNow, VerdictsNow, ToldNow
<1>2. ASSUME NEW n \in Validations, Turns(n)
      PROVE  GateStep
  <2>1. PICK s : Becomes(n, s) /\ Turn(check[n], s)
    BY <1>2 DEF Turns
  <2>2. check[n] \in Local
    BY DEF LocalsInv, LocalInv
  <2>3. s \in Local
    BY <2>1 DEF LocalsInv, LocalInv, Becomes
  <2> DEFINE r == check[n]
             Speaks(v) == /\ v \notin DOMAIN ReportsOf(r) /\ DOMAIN ReportsOf(s) = DOMAIN ReportsOf(r) \cup {v}
                          /\ ReportsOf(s)[v] \subseteq Possible
                          /\ \A w \in DOMAIN ReportsOf(r) : ReportsOf(s)[w] = ReportsOf(r)[w]
  <2>4. /\ r.verdict = "checking" /\ s.verdict = "checking" /\ s.failed_checks = r.failed_checks
        /\ ReportsOf(s) = ReportsOf(r) \/ \E v \in Validator : Speaks(v)
    BY <2>1, <2>2, <2>3, TurnReports
  <2>5. \A m \in Validations : /\ VerdictsNow'[m] = VerdictsNow[m] /\ ToldNow'[m] = ToldNow[m]
                               /\ m # n => ReportsNow'[m] = ReportsNow[m]
    BY <2>1, <2>4 DEF Becomes, VerdictsNow, ToldNow, ReportsNow, ReportsOf
  <2>6. UNCHANGED <<VerdictsNow, ToldNow>>
    BY <2>5 DEF VerdictsNow, ToldNow
  <2>7. ReportsNow[n] = ReportsOf(r) /\ ReportsNow'[n] = ReportsOf(s) /\ VerdictsNow[n] = "checking"
    BY <2>1, <2>4 DEF Becomes, ReportsNow, ReportsOf, VerdictsNow
  <2>8. DOMAIN ReportsNow' = Validations
    BY DEF ReportsNow
  <2>9. CASE ReportsOf(s) = ReportsOf(r)
    <3>1. \A m \in Validations : ReportsNow'[m] = ReportsNow[m]
      BY <2>5, <2>7, <2>9
    <3>2. ReportsNow' = ReportsNow
      BY <3>1 DEF ReportsNow
    <3> QED
      BY <2>6, <3>2 DEF GateStep
  <2>10. ASSUME NEW v \in Validator, Speaks(v)
         PROVE  GateStep
    <3>1. TheGate!Report(n, v)
      <4> HIDE DEF r
      <4>1. /\ VerdictsNow[n] = "checking" /\ v \notin DOMAIN ReportsNow[n] /\ DOMAIN ReportsNow' = Validations
            /\ \A m \in Validations \ {n} : ReportsNow'[m] = ReportsNow[m]
            /\ DOMAIN ReportsNow'[n] = DOMAIN ReportsNow[n] \cup {v}
            /\ ReportsNow'[n][v] \subseteq Possible
            /\ \A d \in DOMAIN ReportsNow[n] : ReportsNow'[n][d] = ReportsNow[n][d]
            /\ UNCHANGED <<VerdictsNow, ToldNow>>
        BY <2>5, <2>6, <2>7, <2>8, <2>10
      <4> QED
        BY <4>1 DEF TheGate!Report, ReportsNow, VerdictsNow, ToldNow, ReportsOf
    <3> QED
      BY <3>1 DEF GateStep, TheGate!GateNext
  <2> HIDE DEF Speaks
  <2> QED
    BY <2>4, <2>9, <2>10
<1> QED
  BY <1>1, <1>2, TaskTurns

\* A validation without reports.
LEMMA NoReports ==
  ASSUME NEW verdict, NEW c
  PROVE  /\ ReportsOf(Begun(verdict, c)) = <<>> /\ Begun(verdict, c).verdict = verdict
         /\ Begun(verdict, c).failed_checks = {}
<1>1. {w \in Validator : Begun(verdict, c).task[w] = "done"} = {}
  BY DEF Begun
<1>2. Begun(verdict, c).verdict = verdict /\ Begun(verdict, c).failed_checks = {}
  BY DEF Begun
<1> QED
  BY <1>1, <1>2 DEF ReportsOf

\* Entering the task group is Begin, leaving it Judge, a crash Die.
LEMMA BeginGate ==
  ASSUME PlaceInv, FutureInv, FanOut
  PROVE  TheGate!GateNext
<1> PICK n \in Validations : n = call + 1
  BY ValidatorsAssumption DEF FanOut, PlaceInv, Validations
<1>1. PICK c \in Codes : check' = [check EXCEPT ![n] = [Idle EXCEPT !.verdict = "checking", !.code = c]]
  BY DEF FanOut
<1>2. n \in Validations /\ n > call
  BY ValidatorsAssumption DEF FanOut, PlaceInv, Validations
<1>3. check[n] = Idle
  BY <1>2 DEF FutureInv
<1>4. check'[n] = Begun("checking", c) /\ \A m \in Validations \ {n} : check'[m] = check[m]
  BY <1>1, <1>2 DEF PlaceInv, Idle, Begun
<1>5. VerdictsNow[n] # "checking"
  BY <1>2, <1>3 DEF VerdictsNow, Idle
<1>6. /\ ReportsOf(check'[n]) = <<>> /\ check'[n].verdict = "checking" /\ check'[n].failed_checks = {}
  BY <1>4, NoReports
<1>7. VerdictsNow' = [VerdictsNow EXCEPT ![n] = "checking"]
  BY <1>4, <1>6 DEF VerdictsNow
<1>8. ToldNow' = [ToldNow EXCEPT ![n] = {}]
  BY <1>4, <1>6 DEF ToldNow
<1>9. ReportsNow' = [ReportsNow EXCEPT ![n] = <<>>]
  <2>1. ReportsNow' = [m \in Validations |-> ReportsOf(check'[m])]
    BY DEF ReportsNow, ReportsOf
  <2>2. \A m \in Validations : ReportsOf(check'[m]) = IF m = n THEN <<>> ELSE ReportsOf(check[m])
    BY <1>4, <1>6
  <2> QED
    BY <2>1, <2>2 DEF ReportsNow
<1>10. TheGate!Begin(n)
  BY <1>5, <1>7, <1>8, <1>9 DEF TheGate!Begin, VerdictsNow, ToldNow, ReportsNow, ReportsOf
<1> QED
  BY <1>2, <1>10 DEF TheGate!GateNext

LEMMA JudgeGate ==
  ASSUME PlaceInv, LocalsInv, NEW n \in Validations, FanIn(n)
  PROVE  TheGate!GateNext
<1> DEFINE r == check[n]
           Sev == [f \in Possible |-> f.severity]
<1>1. LocalInv(r) /\ DOMAIN check = Validations
  BY DEF LocalsInv, PlaceInv
<1>2. PICK s : /\ Becomes(n, s) /\ s.task = r.task /\ s.found = r.found
               /\ s.verdict = VerdictOn(r) /\ s.failed_checks = ToldOf(r)
  BY <1>1, JudgeKeeps
<1>3. VerdictsNow[n] = "checking"
  BY DEF FanIn, Checking, VerdictsNow
<1>4. ReportsOf(r) = [v \in Validator |-> r.found[v]]
  <2>1. {w \in Validator : r.task[w] = "done"} = Validator
    BY DEF FanIn
  <2> QED
    BY <2>1 DEF ReportsOf
<1>5. ReportsNow[n] = ReportsOf(r)
  BY DEF ReportsNow
<1>6. UNION {ReportsNow[n][c] : c \in Validator} = AllFound(r) /\ DOMAIN ReportsNow[n] = Validator
  BY <1>4, <1>5 DEF AllFound
<1>7. AllFound(r) \subseteq Possible
  <2>1. \A v \in Validator : r.found[v] \subseteq Possible
    BY <1>1 DEF LocalInv, Local
  <2> QED
    BY <2>1 DEF AllFound
<1>8. \A f \in AllFound(r) : Sev[f] = f.severity /\ (f.severity # "info" <=> f.severity \in {"critical", "warning"})
  BY <1>7, PossibleSeverity DEF Severity
<1>9. /\ VerdictOn(r) = IF \E f \in AllFound(r) : Sev[f] = "critical" THEN "closed" ELSE "open"
      /\ ToldOf(r) = {f \in AllFound(r) : Sev[f] # "info"}
  <2> HIDE DEF Sev, r
  <2> QED
    BY <1>8 DEF VerdictOn, ToldOf
<1>10. ReportsNow' = ReportsNow
  <2>1. ReportsNow' = [m \in Validations |-> ReportsOf(check'[m])]
    BY DEF ReportsNow, ReportsOf
  <2>2. \A m \in Validations : ReportsOf(check'[m]) = ReportsOf(check[m])
    BY <1>2 DEF Becomes, ReportsOf
  <2> QED
    BY <2>1, <2>2 DEF ReportsNow
<1>11. VerdictsNow' = [VerdictsNow EXCEPT ![n] = VerdictOn(r)]
  <2> HIDE DEF r
  <2> QED
    BY <1>2 DEF Becomes, VerdictsNow
<1>12. ToldNow' = [ToldNow EXCEPT ![n] = ToldOf(r)]
  <2> HIDE DEF r
  <2> QED
    BY <1>2 DEF Becomes, ToldNow
<1>13. TheGate!Judge(n)
  <2> DEFINE all == UNION {ReportsNow[n][c] : c \in Validator}
  <2>1. /\ VerdictsNow' = [VerdictsNow EXCEPT ![n] = IF \E f \in all : Sev[f] = "critical" THEN "closed" ELSE "open"]
        /\ ToldNow' = [ToldNow EXCEPT ![n] = {f \in all : Sev[f] # "info"}]
    BY <1>6, <1>9, <1>11, <1>12
  <2> QED
    BY <1>3, <1>6, <1>10, <2>1 DEF TheGate!Judge, VerdictsNow, ToldNow, ReportsNow, ReportsOf
<1> QED
  BY <1>13 DEF TheGate!GateNext

LEMMA DieGate ==
  ASSUME \A n \in Validations : check'[n] = Idle
  PROVE  TheGate!Die
<1>1. \A n \in Validations : ReportsOf(check'[n]) = <<>> /\ check'[n].verdict = "idle" /\ check'[n].failed_checks = {}
  BY BegunParts, NoReports
<1>2. VerdictsNow' = [n \in Validations |-> "idle"] /\ ToldNow' = [n \in Validations |-> {}]
  BY <1>1 DEF VerdictsNow, ToldNow
<1>3. ReportsNow' = [n \in Validations |-> <<>>]
  BY <1>1 DEF ReportsNow, ReportsOf
<1> QED
  BY <1>2, <1>3 DEF TheGate!Die, TheGate!Nothing, VerdictsNow, ToldNow, ReportsNow, ReportsOf

\* The fan-outs of validate_node, however many overlap, with failing validators,
\* blocking Java, threads and restarts, are a gate.
THEOREM Gating == Spec => ImplementsGate
<1>1. Init => TheGate!GateInit
  <2> SUFFICES ASSUME Init PROVE TheGate!GateInit
    OBVIOUS
  <2>1. \A n \in Validations : check[n] = Idle
    BY DEF Init
  <2>2. \A n \in Validations : ReportsOf(check[n]) = <<>> /\ check[n].verdict = "idle" /\ check[n].failed_checks = {}
    BY <2>1, BegunParts, NoReports
  <2>3. /\ ReportsNow = [n \in Validations |-> <<>>] /\ VerdictsNow = [n \in Validations |-> "idle"]
        /\ ToldNow = [n \in Validations |-> {}]
    BY <2>2 DEF ReportsNow, VerdictsNow, ToldNow
  <2> QED
    BY <2>3 DEF TheGate!GateInit, TheGate!Nothing, ReportsNow, VerdictsNow, ToldNow, ReportsOf
<1>2. ASSUME ValidatorsInv, ValidatorsInv', [Next]_vars
      PROVE  [TheGate!GateNext]_TheGate!gateVars
  <2>1. CASE TaskStep
    <3>1. GateStep
      BY <1>2, <2>1, TaskGate DEF ValidatorsInv
    <3> QED
      BY <3>1 DEF GateStep, TheGate!gateVars, ReportsNow, VerdictsNow, ToldNow, ReportsOf
  <2>2. CASE FanOut
    BY <1>2, <2>2, BeginGate DEF ValidatorsInv
  <2>3. ASSUME NEW n \in Validations, FanIn(n)
        PROVE  TheGate!GateNext
    BY <1>2, <2>3, JudgeGate DEF ValidatorsInv
  <2>4. CASE Crash
    BY <2>4, DieGate DEF Crash, TheGate!GateNext
  <2>5. CASE UNCHANGED check
    BY <2>5 DEF TheGate!gateVars
  <2>6. CASE Start \/ World \/ UNCHANGED vars \/ Finished
    BY <2>5, <2>6 DEF Start, World, Finished, vars
  <2> QED
    BY <1>2, <2>1, <2>2, <2>3, <2>4, <2>6 DEF Next, Progress
<1> QED
  BY <1>1, <1>2, ValidatorsInvariance, PTL DEF Spec, ImplementsGate, TheGate!GateSpec

-----------------------------------------------------------------------------
(* Types *)

\* The types of Validators, for any files, databases, backends and numbers of
\* validations and restarts (validate_node, KnowledgeBaseLoader, the BSL LS runner).
THEOREM Types == Spec => []TypeOK
<1>1. ASSUME ValidatorsInv
      PROVE  TypeOK
  <2>1. PlaceInv /\ LocalsInv /\ LoadedInv /\ OneDatabaseOnceSettled
    BY <1>1 DEF ValidatorsInv
  <2>2. \A k \in Kinds : \A i \in DOMAIN collection[k] : collection[k][i] \in KbFiles
    <3>1. CASE collection = LoadAll(schemas)
      BY <3>1, Loaded
    <3>2. CASE collection = [k \in Kinds |-> <<>>]
      BY <3>2
    <3> QED
      BY <2>1, <3>1, <3>2 DEF LoadedInv
  <2>3. ASSUME NEW n \in Validations
        PROVE  check[n] \in ValidationState
    <3>1. check[n] \in Local
      BY <2>1 DEF LocalsInv, LocalInv
    <3> QED
      BY <3>1, PossibleIsFinding DEF Local, ValidationState
  <2>4. check \in [Validations -> ValidationState]
    BY <1>1, <2>3 DEF ValidatorsInv, ShapeInv
  <2> QED
    BY <2>1, <2>2, <2>4 DEF PlaceInv, LoadedInv, TypeOK
<1> QED
  BY <1>1, ValidatorsInvariance, PTL
==============================================================================
