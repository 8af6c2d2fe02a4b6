---------------------------- MODULE KnowledgeBase ----------------------------
(***************************************************************************)
(* The knowledge base of packages/mcp_servers (kb/loader.py, kb/server.py):*)
(* the YAML files it is loaded from, its detection of antipatterns and of  *)
(* violated standards, and its judgement on platform methods, taken from a *)
(* SQLite database when there is one and from two built-in lists else.     *)
(*                                                                         *)
(* A file is named by what loading makes of it; a regular expression by    *)
(* the pieces of code it matches; the database by its contents.            *)
(***************************************************************************)
EXTENDS Integers, FiniteSets

CONSTANTS
  KbFiles,          \* the YAML files, see KbFile
  Methods,          \* method names that occur in code
  ServerOnly,       \* the built-in lists (methods not on the client,
  ClientOnly,       \*   not on the server)
  Databases,        \* the contents platform-methods.db may have
  SchemaSets,       \* the sets of kinds whose schema a start may find readable
  Availability      \* contents -> method -> the contexts it is available in

Kinds == {"pattern", "antipattern", "standard"}
Clients == {"thin_client", "web_client", "mobile_client"}
Contexts == Clients \cup {"server", "external_connection"}
Severity == {"critical", "warning", "info"}

\* number is the place of the file among the sorted names of its directory;
\* "no_pattern" is detect.regex without its pattern, which no schema admits.
KbFile == [kind : Kinds, number : Nat, id : STRING,
           content : {"valid", "off_schema", "unreadable", "no_id"},
           severity : Severity,
           detect : {"regex", "bad_regex", "no_pattern", "bsl_ls_rule"}]

ASSUME KnowledgeBaseAssumption ==
  /\ KbFiles \subseteq KbFile /\ IsFiniteSet(KbFiles)
  /\ \A f \in KbFiles : f.number \in 1..Cardinality(KbFiles)
  /\ \A f \in KbFiles : f.detect = "no_pattern" => f.content # "valid"
  /\ \A f, g \in KbFiles : f.kind = g.kind /\ f.number = g.number => f = g
  /\ SchemaSets \subseteq SUBSET Kinds
  /\ Methods \subseteq STRING /\ ServerOnly \subseteq Methods /\ ClientOnly \subseteq Methods
  /\ DOMAIN Availability = Databases
  /\ \A db \in Databases : /\ DOMAIN Availability[db] \subseteq Methods
                          /\ \A m \in DOMAIN Availability[db] : Availability[db][m] \subseteq Contexts
  /\ {"absent", "None", "loading"} \cap Databases = {}

VARIABLES
  schemas,            \* the kinds whose JSON schema was found and read
  collection,         \* kind -> id -> the file the entry was loaded from
  database,           \* platform-methods.db: its contents, or NoDatabase
  methods_cache       \* _platform_methods_cache

kbVars == <<schemas, collection, database, methods_cache>>

\* No file, or one that cannot be read.
NoDatabase == {"absent"}
None == "None"

-----------------------------------------------------------------------------
(* Loading *)

\* Mutant: files are loaded without being validated against their schema.
SchemaUnused(f, known) == f.content \notin {"unreadable", "no_id"}

Loads(f, known) ==
  /\ f.content \notin {"unreadable", "no_id"}
  /\ f.content = "off_schema" => f.kind \notin known

\* Sorted file names: the last file that loads wins its id.
LoadDirectory(kind, known) ==
  LET loaded == {f \in KbFiles : f.kind = kind /\ Loads(f, known)} IN
  [i \in {f.id : f \in loaded} |->
     CHOOSE f \in loaded : f.id = i /\ \A g \in loaded : g.id = i => g.number <= f.number]

LoadAll(known) == [k \in Kinds |-> LoadDirectory(k, known)]

-----------------------------------------------------------------------------
(* Detection: the entries an id-set of matching expressions makes findings  *)

Selected(kind, filter) ==
  {i \in DOMAIN collection[kind] : collection[kind][i].severity \in filter}

\* A KeyError leaves the whole detection, other entries' findings included.
DetectionRaises(kind, filter) ==
  \E i \in Selected(kind, filter) : collection[kind][i].detect = "no_pattern"

Detect(kind, filter, matched) ==
  {i \in Selected(kind, filter) : collection[kind][i].detect = "regex" /\ i \in matched}

-----------------------------------------------------------------------------
(* Method availability *)

\* Mutant: every question reads the file again.
ReadsAgain == TRUE

\* The test of _load_platform_methods_from_db.  There is no lock between it and
\* the assignment, and only a successful read is remembered.
cache_empty == methods_cache = None

\* The contents in use know the method.
Knows(known, m) == known # None /\ m \in DOMAIN Availability[known]

\* A method that neither the database nor a list knows counts as available.
check_method_availability(known, m, context) ==
  IF Knows(known, m) THEN context \in Availability[known][m]
  ELSE /\ ~(context \in Clients /\ m \in ServerOnly)
       /\ ~(context = "server" /\ m \in ClientOnly)

\* `1c-ai index` for the platform writes the database anew while the server runs.
ReplaceDatabase ==
  /\ database' \in (Databases \cup NoDatabase) \ {database}
  /\ UNCHANGED <<schemas, collection, methods_cache>>

KbInit ==
  /\ schemas = {}
  /\ collection = [k \in Kinds |-> <<>>]
  /\ database \in Databases \cup NoDatabase
  /\ methods_cache = None

\* KbServer(): __init__ loads everything; schemas that are missing or broken
\* leave their kind unvalidated.
KbStart ==
  /\ schemas' \in SchemaSets
  /\ collection' = LoadAll(schemas')
  /\ methods_cache' = None
  /\ UNCHANGED database

=============================================================================
