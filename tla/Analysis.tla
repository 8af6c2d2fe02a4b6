------------------------------ MODULE Analysis ------------------------------
(***************************************************************************)
(* The call graph and the dependency graph of a configuration from the     *)
(* files to the answers: `config build` reads the code twice and the       *)
(* metadata once, a file at a time; then metadata.get_dependency_graph     *)
(* walks the references of an object, an object at a time, and             *)
(* codebase.call_graph filters the calls.                                  *)
(***************************************************************************)
EXTENDS DependencyGraph, CallGraph, Functions, FiniteSets

CONSTANTS Configurations,    \* [metadata, code]: what may be on disk
          DependencyQueries, \* [tool, root, direction, depth]
          CallQueries        \* [tool, type, name, method]; "" for no method

ASSUME AnalysisAssumption ==
    /\ IsFiniteSet(Objects)
    /\ \A cf \in Configurations : cf.metadata \in [Objects -> MetadataFiles]
    /\ DependencyQueries \subseteq [tool : {"dependencies"}, root : Objects,
                                  direction : {"depends_on", "depended_by"}, depth : Nat]
    /\ \A q \in CallQueries : q.tool = "calls"
    \* Lines are numbered, every module has a name; "<модуль>" and words of the
    \* language name no method.
    /\ \A cf \in Configurations, f \in CodeFiles : LET file == cf.code[f] IN
          /\ Len(file.lines) \in Nat /\ DOMAIN file.lines = 1..Len(file.lines)
          /\ file.name # NoModule
          /\ \A i \in DOMAIN file.lines : file.lines[i].name \notin {ModuleBody} \cup BSL_KEYWORDS

VARIABLES config,            \* the files that `config build` reads
          phase,             \* "exports", "calls", "metadata", "served",
                             \* "walking", "answered", "not_found"
          left,              \* files this pass has still to read
          module_names, export_methods,
          calls,             \* call-graph.json
          edges, nodes,      \* dependency-graph.json
          query,             \* the arguments of the tool call
          queue, visited, result,  \* of get_transitive_*
          answer             \* the edges of the answer

graphs == <<config, left, module_names, export_methods, calls, edges, nodes>>
walk   == <<query, queue, visited, result, answer>>
vars   == <<phase, graphs, walk>>

NoQuery == [tool |-> "none"]

Init ==
    /\ config \in Configurations
    /\ phase = "exports"
    /\ left = CodeFiles
    /\ module_names = {} /\ export_methods = {}
    /\ calls = {} /\ edges = {} /\ nodes = {}
    /\ query = NoQuery
    /\ queue = <<>> /\ visited = {} /\ result = <<>>
    /\ answer = {}

----------------------------------------------------------------------------
(* A pass over `files` in the order of the directory listing, which is any  *)
(* order; after the last one the next pass starts with its own files.       *)
PassEnds(f, files, next) ==
    IF left = {f} THEN phase' = next /\ left' = files
                  ELSE phase' = phase /\ left' = left \ {f}

(* build_call_graph, pass 1: a module counts even if it cannot be read.     *)
CollectExports(f) ==
    /\ phase = "exports" /\ f \in left
    /\ module_names' = module_names \cup {config.code[f].name}
    /\ export_methods' = export_methods \cup ExportsOf(config.code[f])
    /\ PassEnds(f, CodeFiles, "calls")
    /\ UNCHANGED <<config, calls, edges, nodes, walk>>

(* build_call_graph, pass 2.                                                *)
ScanCalls(f) ==
    /\ phase = "calls" /\ f \in left
    /\ calls' = calls \cup _parse_bsl_file(config.code[f], module_names, export_methods)
    /\ PassEnds(f, Objects, "metadata")
    /\ UNCHANGED <<config, module_names, export_methods, edges, nodes, walk>>

(* build_dependency_graph.                                                  *)
ScanMetadata(o) ==
    /\ phase = "metadata" /\ o \in left
    /\ edges' = edges \cup EdgesOfFile(o, config.metadata[o])
    /\ nodes' = nodes \cup NodesOfFile(o, config.metadata[o])
    /\ PassEnds(o, {}, "served")
    /\ UNCHANGED <<config, module_names, export_methods, calls, walk>>

----------------------------------------------------------------------------
Idle == phase \in {"served", "answered", "not_found"}

(* raw_edges; an empty list is reported as MetadataNotFoundError.           *)
Reply(raw_edges) ==
    /\ answer' = raw_edges
    /\ phase' = IF raw_edges = {} THEN "not_found" ELSE "answered"

(* depth 1: the edges of the object, all of them.                           *)
AskDirect(q) ==
    /\ Idle /\ q.depth = 1
    /\ query' = q
    /\ queue' = <<>> /\ visited' = {} /\ result' = <<>>
    /\ Reply(EdgesAt(edges, q.root, q.direction))
    /\ UNCHANGED graphs

(* depth > 1: the walk begins at the object, which is not visited itself.   *)
AskTransitive(q) ==
    /\ Idle /\ q.depth > 1
    /\ query' = q
    /\ queue' = <<[object |-> q.root, depth |-> 0]>>
    /\ visited' = {} /\ result' = <<>> /\ answer' = {}
    /\ phase' = "walking"
    /\ UNCHANGED graphs

\* Mutant: one reference further than asked.
OneFurther(depth) == depth > query.depth

TooDeep(depth) == depth >= query.depth

(* The neighbours the walk has not met, in the order of the edges.          *)
NewNeighbours(o) ==
    LET new == Neighbours(edges, o, query.direction) \ visited
    IN  Bijection(1..Cardinality(new), new)

Visit ==
    /\ phase = "walking" /\ queue # <<>>
    /\ LET current == Head(queue)
       IN  IF TooDeep(current.depth)
           THEN queue' = Tail(queue) /\ UNCHANGED <<visited, result>>
           ELSE \E deps \in NewNeighbours(current.object) :
                   /\ visited' = visited \cup Neighbours(edges, current.object, query.direction)
                   /\ result' = result \o deps
                   /\ queue' = Tail(queue) \o
                        [i \in DOMAIN deps |-> [object |-> deps[i], depth |-> current.depth + 1]]
    /\ UNCHANGED <<phase, graphs, query, answer>>

(* Of several edges between two objects the first: attributes in their      *)
(* order, then the recorder.                                                *)
IsFirst(e, among) ==
    \A f \in among :
        f.source = e.source /\ f.target = e.target /\ f # e =>
            \/ f.edge_type = "registered_by"
            \/ e.edge_type = "uses_attribute" /\ e.detail < f.detail

\* Mutant: the edges as they come.
AllOfThem(some) == some

OnePerPair(some) == {e \in some : IsFirst(e, some)}

(* _collect_edges_for_targets: the edges of the object, then those of the   *)
(* objects it reaches, except the object's own neighbours.                  *)
Collected(transitive_refs) ==
    LET near == Neighbours(edges, query.root, query.direction)
        far  == transitive_refs \ (near \cup {query.root})
    IN  OnePerPair(UNION {EdgesAt(edges, o, query.direction) : o \in far \cup {query.root}})

WalkEnds ==
    /\ phase = "walking" /\ queue = <<>>
    /\ Reply(Collected(Range(result)))
    /\ UNCHANGED <<graphs, query, queue, visited, result>>

----------------------------------------------------------------------------
_match_ref(type, name, q) == type = q.type /\ name = q.name

(* A call of the module itself has no target module to match ...            *)
Matches(e, q) ==
    /\ \/ _match_ref(e.type, e.source_module, q)
       \/ e.target_module # NoModule /\ _match_ref("CommonModule", e.target_module, q)
    /\ q.method # "" => q.method \in {e.source_method, e.target_method}

(* ... and is answered as one of a module "Unknown".                        *)
Converted(e) == IF e.target_module = NoModule THEN [e EXCEPT !.target_module = "Unknown"] ELSE e

(* codebase.call_graph: no edges is an answer, too.                         *)
AskCalls(q) ==
    /\ Idle
    /\ query' = q
    /\ queue' = <<>> /\ visited' = {} /\ result' = <<>>
    /\ answer' = {Converted(e) : e \in {c \in calls : Matches(c, q)}}
    /\ phase' = "answered"
    /\ UNCHANGED graphs

Next ==
    \/ \E f \in CodeFiles : CollectExports(f) \/ ScanCalls(f)
    \/ \E o \in Objects : ScanMetadata(o)
    \/ \E q \in DependencyQueries : AskDirect(q) \/ AskTransitive(q)
    \/ \E q \in CallQueries : AskCalls(q)
    \/ Visit \/ WalkEnds

Spec == Init /\ [][Next]_vars

TypeOK ==
    /\ config \in Configurations
    /\ phase \in {"exports", "calls", "metadata", "served", "walking", "answered", "not_found"}
    /\ left \subseteq CodeFiles \cup Objects
    /\ edges \subseteq DependencyEdges /\ nodes \subseteq Objects
    /\ visited \subseteq Objects /\ result \in Seq(Objects)
    /\ queue \in Seq([object : Objects, depth : Nat])

----------------------------------------------------------------------------
(* What the answers are measured against, taken from the files.             *)

(* o refers to p in its XML: by the first type of an attribute, or as the   *)
(* recorder of a register.                                                  *)
Refers(o, p) ==
    /\ config.metadata[o].fate = "fine"
    /\ \/ config.metadata[o].recorder = p
       \/ o # p /\ \E i \in DOMAIN config.metadata[o].attributes :
                      LET types == config.metadata[o].attributes[i]
                      IN  types # <<>> /\ types[1] = p

Beside(o, p) == IF query.direction = "depends_on" THEN Refers(o, p) ELSE Refers(p, o)

(* A path of k references leads from the object of the question to p.       *)
Leads(k, p) ==
    \E path \in [1..k -> Objects] :
        /\ path[k] = p
        /\ \A i \in 1..k : Beside(IF i = 1 THEN query.root ELSE path[i - 1], path[i])

(* The objects that 1 to n references lead to.                              *)
Within(n) == {p \in Objects : \E k \in 1..n : Leads(k, p)}

NearEnd(e) == IF query.direction = "depends_on" THEN e.source ELSE e.target

DependenciesAnswered == phase \in {"answered", "not_found"} /\ query.tool = "dependencies"

(* A transitive answer is drawn from exactly the objects that 1 to `depth`  *)
(* references lead to, each met once, whatever cycles, diamonds and         *)
(* unreadable files there are, and in whatever order files and edges come   *)
(* (get_transitive_dependencies, get_transitive_dependents).                *)
TransitiveIsReachable ==
    DependenciesAnswered /\ query.depth > 1 =>
        /\ Range(result) = Within(query.depth)
        /\ \A i, j \in DOMAIN result : result[i] = result[j] => i = j

(* "Not found" is said exactly of an object without references in that      *)
(* direction; every edge of an answer starts within `depth` references of   *)
(* the object and is a reference of the XML; every neighbour of the object  *)
(* is shown with it; beyond depth 1, two objects are joined by one edge     *)
(* only (get_dependency_graph, _collect_edges_for_targets).                 *)
AnswerStaysInReach ==
    DependenciesAnswered =>
        /\ phase = "not_found" <=> Within(1) = {}
        /\ \A e \in answer :
              /\ Refers(e.source, e.target)
              /\ NearEnd(e) \in {query.root} \cup Within(query.depth)
        /\ \A p \in Within(1) :
              \E e \in answer : NearEnd(e) = query.root /\ FarEnd(e, query.direction) = p
        /\ query.depth > 1 =>
              \A e, f \in answer : e.source = f.source /\ e.target = f.target => e = f

(* metadata/server.py:402: the edges from transitive neighbours to their    *)
(* own neighbours are in the answer.  The code skips those of the object's  *)
(* direct neighbours (:404), so a chain A -> B -> C asked with depth 2 is   *)
(* answered without B -> C.                                                 *)
EdgesOfNeighboursIncluded ==
    DependenciesAnswered /\ query.depth > 1 =>
        \A o \in Range(result), p \in Objects :
            o # query.root /\ Beside(o, p) =>
                \E e \in answer : {e.source, e.target} = {o, p}

----------------------------------------------------------------------------
(* The method whose head and end enclose a line, by the ends.               *)
Encloses(lines, h, i) ==
    /\ h \in Heads(lines) /\ h < i
    /\ \A k \in (h + 1)..(i - 1) : lines[k].is \notin {"def", "end"}

(* A file as codebase.call_graph is asked about it.                         *)
IsOf(file, q) == file.type = q.type /\ file.name = q.name

(* Names the scan can see: a method's, and a module's that is not also the  *)
(* name of a platform object.  Calls of «Пользователи» or of «Main» are     *)
(* never found, even if modules of these names are there.                   *)
Visible(line) ==
    /\ line.name \in CyrillicNames
    /\ line.module \in {NoModule} \cup (CyrillicNames \ (STANDARD_OBJECTS \cup BSL_KEYWORDS))

(* Calls the answer owes: of a module of the configuration, or, from        *)
(* another method, of a method the module itself exports.                   *)
Owed(file, i, q) ==
    LET line == file.lines[i]
    IN  /\ line.is = "call" /\ Visible(line)
        /\ q.method \in {"", line.name}
        /\ \/ line.module \in {config.code[f].name : f \in CodeFiles}
              /\ (IsOf(file, q) \/ (q.type = "CommonModule" /\ line.module = q.name))
           \/ /\ line.module = NoModule /\ IsOf(file, q)
              /\ \E h \in Heads(file.lines) :
                    file.lines[h].export /\ file.lines[h].name = line.name
              /\ ~\E h \in HeadsBefore(file.lines, i) : file.lines[h].name = line.name

(* Whoever asks for the callers of a module or method gets every call of    *)
(* visible names that is written in a readable file, at its line and under  *)
(* the method around it, whichever file was read first; and what he gets is *)
(* a call, or the head of an Асинх method, which the scan by lines takes    *)
(* for one                                                                  *)
(* (build_call_graph's two passes against parse_bsl_module's methods,       *)
(* CodebaseServer.call_graph).                                              *)
CallersAreFound ==
    phase = "answered" /\ query.tool = "calls" =>
        /\ \A f \in CodeFiles : LET file == config.code[f] IN
              file.readable => \A i \in DOMAIN file.lines :
                 Owed(file, i, query) =>
                    \E e \in answer :
                       /\ e.type = file.type /\ e.source_module = file.name
                       /\ e.line = i /\ e.target_method = file.lines[i].name
                       /\ \A h \in Heads(file.lines) :
                             Encloses(file.lines, h, i) /\ ~file.lines[h].async =>
                                e.source_method = file.lines[h].name
        /\ \A e \in answer : \E f \in CodeFiles : LET file == config.code[f] IN
              /\ file.type = e.type /\ file.name = e.source_module
              /\ e.line \in DOMAIN file.lines
              /\ file.lines[e.line].name = e.target_method
              /\ \/ file.lines[e.line].is = "call"
                 \/ file.lines[e.line].is = "def" /\ file.lines[e.line].async
============================================================================
