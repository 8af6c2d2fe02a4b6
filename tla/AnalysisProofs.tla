--------------------------- MODULE AnalysisProofs ---------------------------
(***************************************************************************)
(* The walks of metadata.get_dependency_graph reach exactly what they      *)
(* should and its answers stay within it, for every configuration, object, *)
(* direction and depth; codebase.call_graph finds every caller.            *)
(***************************************************************************)
EXTENDS Analysis, FiniteSetTheorems, SequenceTheorems, TLAPS

Served == {"served", "walking", "answered", "not_found"}

\* What every state has: the graph on disk is that of the files read so far.
GraphInv ==
  /\ config.metadata \in [Objects -> MetadataFiles]
  /\ phase \in {"exports", "calls", "metadata"} \cup Served
  /\ phase \in {"exports", "calls"} => edges = {}
  /\ phase = "metadata" =>
       edges = UNION {EdgesOfFile(o, config.metadata[o]) : o \in Objects \ left}
  /\ phase \in Served =>
       edges = UNION {EdgesOfFile(o, config.metadata[o]) : o \in Objects}

QueryInv ==
  /\ phase \notin {"walking", "answered", "not_found"} => query = NoQuery
  /\ phase \in {"walking", "answered", "not_found"} =>
       query \in DependencyQueries \cup CallQueries
  /\ phase = "walking" => query \in DependencyQueries /\ query.depth > 1

\* The references of an object in the direction asked for.
Next1(o) == {p \in Objects : Beside(o, p)}

\* Every object of the answer was met, once.
Met ==
  /\ result \in Seq(Objects)
  /\ visited = Range(result)
  /\ \A i, j \in DOMAIN result : result[i] = result[j] => i = j

\* The items of the queue are objects met, the first of them nearest.
Queued ==
  /\ queue \in Seq([object : Objects, depth : Nat])
  /\ \A i \in DOMAIN queue :
       /\ queue[i].object \in visited \cup {query.root}
       /\ queue[i].depth <= query.depth
       /\ queue[i].depth <= queue[1].depth + 1
       /\ \A j \in DOMAIN queue : i <= j => queue[i].depth <= queue[j].depth
       /\ queue[i].depth > 0 => Leads(queue[i].depth, queue[i].object)
       /\ queue[i].depth = 0 => queue[i].object = query.root

\* d[o] is the depth at which the walk met o.  An object met above the limit is
\* still in the queue, or all it refers to was met, at most one further away.
Expanded(d, o) ==
  d[o] < query.depth =>
    \/ \E i \in DOMAIN queue : queue[i].object = o /\ queue[i].depth = d[o]
    \/ \A p \in Next1(o) : p \in visited /\ d[p] <= d[o] + 1

Depths(d) ==
  /\ d[query.root] = 0
  /\ \A o \in visited \cup {query.root} : Expanded(d, o)
  /\ queue # <<>> => \A o \in visited : d[o] <= queue[1].depth + 1

WalkInv ==
  /\ Met
  /\ Queued
  /\ visited \subseteq Within(query.depth)
  /\ \E d \in [Objects -> Nat] : Depths(d)

AnalysisInv ==
  /\ GraphInv
  /\ QueryInv
  /\ phase = "walking" => WalkInv
  /\ TransitiveIsReachable

-----------------------------------------------------------------------------
\* Every set of natural numbers that is not empty has a least element: what
\* stands in for induction below.
LEMMA LeastNumber ==
  ASSUME NEW S, S \subseteq Nat, S # {}
  PROVE  \E m \in S : \A k \in S : m <= k
<1> DEFINE R == OpToRel(<, Nat)
<1>1. IsWellFoundedOn(R, Nat)
  BY NatLessThanWellFounded
<1>2. \E m \in S : \A k \in S : <<k, m>> \notin R
  <2> HIDE DEF R
  <2> QED
    BY <1>1, WFMin
<1>3. PICK m \in S : \A k \in S : <<k, m>> \notin R
  BY <1>2
<1>4. ASSUME NEW k \in S
      PROVE  m <= k
  <2>1. <<k, m>> \in Nat \X Nat
    OBVIOUS
  <2>2. ~(k < m)
    BY <2>1, <1>3 DEF OpToRel
  <2> QED
    BY <2>2
<1> QED
  BY <1>4

\* What `config build` reads is what the files say.
LEMMA EdgesAreReferences ==
  ASSUME config.metadata \in [Objects -> MetadataFiles],
         edges = UNION {EdgesOfFile(o, config.metadata[o]) : o \in Objects}
  PROVE  /\ \A e \in edges : e.source \in Objects /\ e.target \in Objects /\ Refers(e.source, e.target)
         /\ \A o, p \in Objects : Refers(o, p) => \E e \in edges : e.source = o /\ e.target = p
<1>1. ASSUME NEW e \in edges
      PROVE  e.source \in Objects /\ e.target \in Objects /\ Refers(e.source, e.target)
  <2>1. PICK o \in Objects : e \in EdgesOfFile(o, config.metadata[o])
    OBVIOUS
  <2> DEFINE file == config.metadata[o]
  <2>2. /\ file \in MetadataFiles
        /\ file.attributes \in Seq(Seq(Objects \cup {NoObject}))
        /\ file.recorder \in Objects \cup {NoObject}
    BY DEF MetadataFiles
  <2>3. file.fate = "fine" /\ e \in AttributeEdges(o, file) \cup _scan_recorder(o, file)
    BY <2>1, <2>2 DEF EdgesOfFile, MetadataFiles
  <2>4. CASE e \in AttributeEdges(o, file)
    <3>1. PICK i \in DOMAIN file.attributes :
             /\ extract_type(file.attributes[i]) \notin {o, NoObject}
             /\ e = [source |-> o, target |-> extract_type(file.attributes[i]),
                     edge_type |-> "uses_attribute", detail |-> i]
      BY <2>4 DEF AttributeEdges
    <3>2. file.attributes[i] \in Seq(Objects \cup {NoObject})
      BY <2>2
    <3>3. file.attributes[i] # <<>> /\ extract_type(file.attributes[i]) = file.attributes[i][1]
      BY <3>1, <3>2 DEF extract_type
    <3>4. file.attributes[i][1] \in Objects
      BY <3>1, <3>2, <3>3
    <3> QED
      BY <2>3, <3>1, <3>3, <3>4 DEF Refers
  <2>5. CASE e \in _scan_recorder(o, file)
    <3>1. file.recorder # NoObject /\ e.source = o /\ e.target = file.recorder
      BY <2>5 DEF _scan_recorder
    <3> QED
      BY <2>2, <2>3, <3>1 DEF Refers
  <2> QED
    BY <2>3, <2>4, <2>5
<1>2. ASSUME NEW o \in Objects, NEW p \in Objects, Refers(o, p)
      PROVE  \E e \in edges : e.source = o /\ e.target = p
  <2> DEFINE file == config.metadata[o]
  <2>1. SUFFICES \E e \in EdgesOfFile(o, file) : e.source = o /\ e.target = p
    OBVIOUS
  <2>2. /\ file.fate = "fine" /\ file \in MetadataFiles
        /\ EdgesOfFile(o, file) = AttributeEdges(o, file) \cup _scan_recorder(o, file)
    BY <1>2 DEF Refers, EdgesOfFile
  <2>3. CASE file.recorder = p
    <3>1. [source |-> o, target |-> p, edge_type |-> "registered_by", detail |-> 0]
             \in _scan_recorder(o, file)
      BY <2>3, NoObjectAssumption DEF _scan_recorder
    <3> QED
      BY <2>2, <3>1
  <2>4. CASE o # p /\ \E i \in DOMAIN file.attributes :
                         file.attributes[i] # <<>> /\ file.attributes[i][1] = p
    <3>1. PICK i \in DOMAIN file.attributes :
                   file.attributes[i] # <<>> /\ file.attributes[i][1] = p
      BY <2>4
    <3>2. file.attributes[i] \in Seq(Objects \cup {NoObject})
      BY <2>2 DEF MetadataFiles
    <3>3. extract_type(file.attributes[i]) = p
      BY <3>1, <3>2 DEF extract_type
    <3>4. [source |-> o, target |-> p, edge_type |-> "uses_attribute", detail |-> i]
             \in AttributeEdges(o, file)
      BY <2>4, <3>3, NoObjectAssumption DEF AttributeEdges
    <3> QED
      BY <2>2, <3>4
  <2> QED
    BY <1>2, <2>3, <2>4 DEF Refers
<1> QED
  BY <1>1, <1>2

\* The neighbours the code computes are the references of the XML.
LEMMA NeighboursAreReferences ==
  ASSUME GraphInv, phase \in Served, query \in DependencyQueries, NEW o \in Objects
  PROVE  Neighbours(edges, o, query.direction) = Next1(o)
<1>1. /\ \A e \in edges : e.source \in Objects /\ e.target \in Objects /\ Refers(e.source, e.target)
      /\ \A x, p \in Objects : Refers(x, p) => \E e \in edges : e.source = x /\ e.target = p
  BY EdgesAreReferences DEF GraphInv
<1>2. CASE query.direction = "depends_on"
  <2>1. Next1(o) = {p \in Objects : Refers(o, p)}
    BY <1>2 DEF Next1, Beside
  <2>2. Neighbours(edges, o, query.direction) = {e.target : e \in {f \in edges : f.source = o}}
    BY <1>2 DEF Neighbours, EdgesAt, FarEnd, get_dependencies
  <2> QED
    BY <1>1, <2>1, <2>2
<1>3. CASE query.direction # "depends_on"
  <2>1. Next1(o) = {p \in Objects : Refers(p, o)}
    BY <1>3 DEF Next1, Beside
  <2>2. Neighbours(edges, o, query.direction) = {e.source : e \in {f \in edges : f.target = o}}
    BY <1>3 DEF Neighbours, EdgesAt, FarEnd, get_dependents
  <2> QED
    BY <1>1, <2>1, <2>2
<1> QED
  BY <1>2, <1>3

-----------------------------------------------------------------------------
\* A reference of the object is a path of one; a path goes on with a reference.
LEMMA PathBegins ==
  ASSUME NEW p \in Next1(query.root)
  PROVE  Leads(1, p)
<1> DEFINE path == [i \in 1..1 |-> p]
<1>1. path \in [1..1 -> Objects] /\ path[1] = p /\ Beside(query.root, p)
  BY DEF Next1
<1>2. \A i \in 1..1 : Beside(IF i = 1 THEN query.root ELSE path[i - 1], path[i])
  BY <1>1
<1> HIDE DEF path
<1> QED
  BY <1>1, <1>2 DEF Leads

LEMMA PathGoesOn ==
  ASSUME NEW k \in Nat, k > 0, NEW o \in Objects, Leads(k, o), NEW p \in Next1(o)
  PROVE  Leads(k + 1, p)
<1>1. PICK path \in [1..k -> Objects] :
         /\ path[k] = o
         /\ \A i \in 1..k : Beside(IF i = 1 THEN query.root ELSE path[i - 1], path[i])
  BY DEF Leads
<1> DEFINE longer == [i \in 1..(k + 1) |-> IF i = k + 1 THEN p ELSE path[i]]
<1>2. p \in Objects /\ Beside(o, p)
  BY DEF Next1
<1>3. longer \in [1..(k + 1) -> Objects] /\ longer[k + 1] = p
  BY <1>2
<1>4. ASSUME NEW i \in 1..(k + 1)
      PROVE  Beside(IF i = 1 THEN query.root ELSE longer[i - 1], longer[i])
  <2>1. CASE i = k + 1
    <3>1. i # 1 /\ longer[i - 1] = o /\ longer[i] = p
      BY <2>1, <1>1
    <3> QED
      BY <3>1, <1>2
  <2>2. CASE i # k + 1
    <3>1. i \in 1..k /\ longer[i] = path[i] /\ (i # 1 => longer[i - 1] = path[i - 1])
      BY <2>2
    <3> HIDE DEF longer
    <3>2. Beside(IF i = 1 THEN query.root ELSE path[i - 1], path[i])
      BY <1>1, <3>1
    <3>3. CASE i = 1
      BY <3>1, <3>2, <3>3
    <3>4. CASE i # 1
      BY <3>1, <3>2, <3>4
    <3> QED
      BY <3>3, <3>4
  <2> QED
    BY <2>1, <2>2
<1> HIDE DEF longer
<1>5. k + 1 \in Nat
  OBVIOUS
<1> QED
  BY <1>3, <1>4 DEF Leads

\* What is within reach stays so while the question and the files do.
LEMMA ReachStays ==
  ASSUME query' = query, config' = config
  PROVE  /\ \A k, p : Leads(k, p)' <=> Leads(k, p)
         /\ \A n : Within(n)' = Within(n)
         /\ \A o : Next1(o)' = Next1(o)
<1>1. \A o, p : Beside(o, p)' <=> Beside(o, p)
  BY DEF Beside, Refers
<1>2. \A k, p : Leads(k, p)' <=> Leads(k, p)
  BY <1>1 DEF Leads
<1> QED
  BY <1>1, <1>2 DEF Within, Next1

-----------------------------------------------------------------------------
\* A walk that ended has met everything that 1 to `depth` references lead to.
LEMMA WalkIsComplete ==
  ASSUME WalkInv, queue = <<>>, query.root \in Objects, query.depth \in Nat,
         NEW k \in 1..query.depth, NEW p, Leads(k, p)
  PROVE  p \in visited
<1>1. PICK d \in [Objects -> Nat] : Depths(d)
  BY DEF WalkInv
<1>2. PICK path \in [1..k -> Objects] :
         /\ path[k] = p
         /\ \A i \in 1..k : Beside(IF i = 1 THEN query.root ELSE path[i - 1], path[i])
  BY DEF Leads
<1> DEFINE Missed == {i \in 1..k : ~(path[i] \in visited /\ d[path[i]] <= i)}
<1>3. Missed = {}
  <2> SUFFICES ASSUME Missed # {}
               PROVE  FALSE
    OBVIOUS
  <2>1. Missed \subseteq Nat
    OBVIOUS
  <2>2. PICK m \in Missed : \A i \in Missed : m <= i
    BY <2>1, LeastNumber
  <2> DEFINE o == IF m = 1 THEN query.root ELSE path[m - 1]
  <2>3. m \in 1..k /\ Beside(o, path[m]) /\ path[m] \in Objects
    BY <1>2
  <2>4. o \in visited \cup {query.root} /\ o \in Objects /\ d[o] <= m - 1
    <3>1. CASE m = 1
      BY <3>1, <1>1 DEF Depths
    <3>2. CASE m # 1
      <4>1. m - 1 \in 1..k /\ m - 1 \notin Missed /\ o = path[m - 1]
        BY <2>2, <2>3, <3>2
      <4> QED
        BY <4>1
    <3> QED
      BY <3>1, <3>2
  <2>5. Expanded(d, o) /\ d[o] < query.depth
    <3>1. d[o] \in Nat /\ m <= k
      BY <2>3, <2>4
    <3> QED
      BY <1>1, <2>3, <2>4, <3>1 DEF Depths
  <2>6. path[m] \in Next1(o)
    BY <2>3 DEF Next1
  <2>7. path[m] \in visited /\ d[path[m]] <= d[o] + 1
    BY <2>5, <2>6 DEF Expanded
  <2>8. d[path[m]] <= m
    BY <2>3, <2>4, <2>7
  <2> QED
    BY <2>7, <2>8
<1> QED
  BY <1>2, <1>3

LEMMA WalkAnswers ==
  ASSUME WalkInv, queue = <<>>, query.root \in Objects, query.depth \in Nat
  PROVE  /\ Range(result) = Within(query.depth)
         /\ \A i, j \in DOMAIN result : result[i] = result[j] => i = j
<1>1. Range(result) = visited /\ visited \subseteq Within(query.depth)
  BY DEF WalkInv, Met
<1>2. Within(query.depth) \subseteq visited
  BY WalkIsComplete DEF Within
<1> QED
  BY <1>1, <1>2 DEF WalkInv, Met

\* A walk begins with the object alone.
LEMMA WalkStarts ==
  ASSUME NEW q \in DependencyQueries, AskTransitive(q)
  PROVE  WalkInv'
<1>1. q.root \in Objects /\ q.depth \in Nat /\ q.depth > 1
  BY AnalysisAssumption DEF AskTransitive
<1>2. /\ queue' = <<[object |-> q.root, depth |-> 0]>>
      /\ visited' = {} /\ result' = <<>> /\ query' = q
  BY DEF AskTransitive
<1>3. /\ queue' \in Seq([object : Objects, depth : Nat]) /\ DOMAIN queue' = 1..1
      /\ queue'[1].object = q.root /\ queue'[1].depth = 0
  BY <1>1, <1>2
<1>4. Met'
  BY <1>2 DEF Met, Range
<1>5. Queued'
  BY <1>1, <1>2, <1>3 DEF Queued
<1> DEFINE d == [o \in Objects |-> 0]
<1>6. Depths(d)'
  <2>1. /\ (d[query.root])' = 0 /\ \A o \in Objects : d[o] = 0
    BY <1>1, <1>2
  <2>2. \A o \in (visited \cup {query.root})' : Expanded(d, o)'
    BY <1>2, <1>3, <2>1 DEF Expanded
  <2> QED
    BY <1>2, <2>1, <2>2 DEF Depths
<1>7. \E e \in [Objects -> Nat] : Depths(e)'
  <2>1. d \in [Objects -> Nat]
    OBVIOUS
  <2> HIDE DEF d
  <2> QED
    BY <1>6, <2>1
<1> QED
  BY <1>2, <1>4, <1>5, <1>7 DEF WalkInv

\* An item at the limit is dropped: what was met at its depth is not followed.
LEMMA DropKeepsWalk ==
  ASSUME WalkInv, query.root \in Objects, query.depth \in Nat,
         queue # <<>>, Head(queue).depth >= query.depth,
         queue' = Tail(queue), UNCHANGED <<visited, result, query, config>>
  PROVE  WalkInv'
<1> DEFINE Item == [object : Objects, depth : Nat]
<1>1. queue \in Seq(Item) /\ Head(queue) = queue[1] /\ Len(queue) \in Nat /\ Len(queue) > 0
  BY DEF WalkInv, Queued
<1>2. /\ queue' \in Seq(Item) /\ Len(queue') = Len(queue) - 1
      /\ \A i \in 1..Len(queue') : queue'[i] = queue[i + 1]
  BY <1>1, HeadTailProperties
<1>3. DOMAIN queue = 1..Len(queue) /\ DOMAIN queue' = 1..Len(queue')
      /\ \A i \in DOMAIN queue : queue[i].depth \in Nat
  <2>1. DOMAIN queue = 1..Len(queue)
    BY <1>1, LenProperties
  <2>2. DOMAIN queue' = 1..Len(queue')
    <3> HIDE DEF Item
    <3> QED
      BY <1>2, LenProperties
  <2>3. \A i \in DOMAIN queue : queue[i] \in Item
    <3> HIDE DEF Item
    <3> QED
      BY <1>1, <2>1, ElementOfSeq
  <2> QED
    BY <2>1, <2>2, <2>3
<1>4. Met' /\ (visited \subseteq Within(query.depth))'
  BY ReachStays DEF WalkInv, Met
<1>5. Queued'
  <2> SUFFICES ASSUME NEW i \in DOMAIN queue'
               PROVE  /\ queue'[i].object \in visited \cup {query.root}
                      /\ queue'[i].depth <= query.depth
                      /\ queue'[i].depth <= queue'[1].depth + 1
                      /\ \A j \in DOMAIN queue' : i <= j => queue'[i].depth <= queue'[j].depth
                      /\ queue'[i].depth > 0 => Leads(queue'[i].depth, queue'[i].object)
                      /\ queue'[i].depth = 0 => queue'[i].object = query.root
    BY <1>2, ReachStays DEF Queued
  <2>1. i + 1 \in DOMAIN queue /\ queue'[i] = queue[i + 1] /\ 1 \in DOMAIN queue'
        /\ 1 \in DOMAIN queue /\ 2 \in DOMAIN queue /\ queue'[1] = queue[2]
    BY <1>2, <1>3
  <2>2. queue[i + 1].depth <= queue[1].depth + 1 /\ queue[1].depth <= queue[2].depth
    BY <2>1 DEF WalkInv, Queued
  <2>3. queue'[i].depth <= queue'[1].depth + 1
    BY <1>3, <2>1, <2>2
  <2>4. \A j \in DOMAIN queue' : i <= j => queue'[i].depth <= queue'[j].depth
    <3> SUFFICES ASSUME NEW j \in DOMAIN queue', i <= j
                 PROVE  queue'[i].depth <= queue'[j].depth
      OBVIOUS
    <3>1. j + 1 \in DOMAIN queue /\ queue'[j] = queue[j + 1] /\ i + 1 <= j + 1
      BY <1>2, <1>3, SMTT(20)
    <3> QED
      BY <2>1, <3>1 DEF WalkInv, Queued
  <2> QED
    BY <2>1, <2>3, <2>4 DEF WalkInv, Queued
<1>6. PICK d \in [Objects -> Nat] : Depths(d)
  BY DEF WalkInv
<1>7. visited \subseteq Objects
  BY DEF WalkInv, Within
<1>8. ASSUME NEW o \in visited \cup {query.root}
      PROVE  Expanded(d, o)'
  <2> SUFFICES ASSUME d[o] < query.depth
               PROVE  \/ \E i \in DOMAIN queue' : queue'[i].object = o /\ queue'[i].depth = d[o]
                      \/ \A p \in Next1(o) : p \in visited /\ d[p] <= d[o] + 1
    BY ReachStays DEF Expanded
  <2>1. CASE \E i \in DOMAIN queue : queue[i].object = o /\ queue[i].depth = d[o]
    <3>1. PICK i \in DOMAIN queue : queue[i].object = o /\ queue[i].depth = d[o]
      BY <2>1
    <3>2. i # 1
      BY <1>1, <1>3, <1>7, <3>1
    <3>3. i - 1 \in DOMAIN queue' /\ queue'[i - 1] = queue[i]
      <4> DEFINE n == Len(queue)
                 k == i - 1
      <4>1. n \in Nat /\ i \in 1..n /\ Len(queue') = n - 1
        BY <1>1, <1>2, <1>3
      <4> HIDE DEF n
      <4>2. k \in 1..(n - 1) /\ k + 1 = i
        BY <4>1, <3>2
      <4> HIDE DEF k
      <4>3. k \in DOMAIN queue' /\ queue'[k] = queue[k + 1]
        BY <1>2, <1>3, <4>1, <4>2
      <4> QED
        BY <4>2, <4>3 DEF k
    <3> QED
      BY <3>1, <3>3
  <2>2. CASE \A p \in Next1(o) : p \in visited /\ d[p] <= d[o] + 1
    BY <2>2
  <2> QED
    BY <1>6, <2>1, <2>2 DEF Depths, Expanded
<1>9. queue' # <<>> => \A o \in visited : d[o] <= queue'[1].depth + 1
  <2> SUFFICES ASSUME queue' # <<>>, NEW o \in visited
               PROVE  d[o] <= queue'[1].depth + 1
    OBVIOUS
  <2>1. 1 \in DOMAIN queue /\ 2 \in DOMAIN queue /\ queue'[1] = queue[2]
    BY <1>2, <1>3
  <2>2. d[o] <= queue[1].depth + 1 /\ queue[1].depth <= queue[2].depth
    BY <1>1, <1>6, <2>1 DEF Depths, WalkInv, Queued
  <2> QED
    BY <1>3, <1>7, <2>1, <2>2
<1>10. Depths(d)'
  BY <1>6, <1>8, <1>9 DEF Depths
<1> QED
  BY <1>4, <1>5, <1>10 DEF WalkInv

\* The neighbours not met yet, numbered, are a sequence without repetition.
LEMMA Numbered ==
  ASSUME NEW new \in SUBSET Objects, NEW deps \in Bijection(1..Cardinality(new), new)
  PROVE  /\ deps \in Seq(Objects) /\ Len(deps) = Cardinality(new)
         /\ DOMAIN deps = 1..Len(deps) /\ Len(deps) \in Nat
         /\ \A i \in DOMAIN deps : deps[i] \in new
         /\ \A p \in new : \E i \in DOMAIN deps : deps[i] = p
         /\ \A i, j \in DOMAIN deps : deps[i] = deps[j] => i = j
<1> DEFINE n == Cardinality(new)
<1>1. n \in Nat
  BY AnalysisAssumption, FS_Subset, FS_CardinalityType
<1>2. /\ deps \in [1..n -> new]
      /\ \A i, j \in DOMAIN deps : deps[i] = deps[j] => i = j
      /\ \A p \in new : \E i \in 1..n : deps[i] = p
  BY DEF Bijection, Injection, Surjection, IsInjective
<1> HIDE DEF n
<1>3. deps \in [1..n -> Objects]
  BY <1>2
<1>4. deps \in Seq(Objects) /\ Len(deps) = n
  BY <1>1, <1>3
<1> QED
  BY <1>1, <1>2, <1>4 DEF n

\* The queue after a step that follows the references of its first item.
LEMMA QueueGrows ==
  ASSUME queue \in Seq([object : Objects, depth : Nat]), queue # <<>>, NEW k \in Nat,
         NEW deps \in Seq(Objects), DOMAIN deps = 1..Len(deps),
         queue' = Tail(queue) \o
                     [i \in DOMAIN deps |-> [object |-> deps[i], depth |-> k + 1]]
  PROVE  /\ queue' \in Seq([object : Objects, depth : Nat])
         /\ DOMAIN queue' = 1..(Len(queue) - 1 + Len(deps))
         /\ DOMAIN queue = 1..Len(queue) /\ Len(queue) \in Nat \ {0}
         /\ \A i \in 1..(Len(queue) - 1) : queue'[i] = queue[i + 1]
         /\ \A i \in DOMAIN deps :
              queue'[Len(queue) - 1 + i] = [object |-> deps[i], depth |-> k + 1]
<1> DEFINE Item == [object : Objects, depth : Nat]
           added == [i \in DOMAIN deps |-> [object |-> deps[i], depth |-> k + 1]]
           m == Len(queue) - 1
           n == Len(deps)
<1>1. n \in Nat /\ deps \in [1..n -> Objects]
  BY LenProperties
<1>2. added \in [1..n -> Item] /\ \A i \in 1..n : added[i] = [object |-> deps[i], depth |-> k + 1]
  BY <1>1
<1> HIDE DEF added, Item
<1>3. added \in Seq(Item) /\ Len(added) = n
  <2> HIDE DEF n
  <2> QED
    BY <1>1, <1>2
<1>4. queue \in Seq(Item) /\ DOMAIN queue = 1..Len(queue) /\ Len(queue) \in Nat \ {0}
  BY LenProperties, EmptySeq DEF Item
<1>5. /\ Tail(queue) \in Seq(Item) /\ Len(Tail(queue)) = m /\ m \in Nat
      /\ \A i \in 1..m : Tail(queue)[i] = queue[i + 1]
  BY <1>4, HeadTailProperties
<1>6. queue' = Tail(queue) \o added
  BY DEF added
<1>7. /\ queue' \in Seq(Item) /\ Len(queue') = m + n
      /\ \A i \in 1..(m + n) : queue'[i] = IF i <= m THEN Tail(queue)[i] ELSE added[i - m]
  <2> DEFINE rest == Tail(queue)
  <2>1. rest \in Seq(Item) /\ Len(rest) = m /\ queue' = rest \o added
    BY <1>5, <1>6
  <2> HIDE DEF rest, m, n
  <2>2. /\ rest \o added \in Seq(Item) /\ Len(rest \o added) = m + n
        /\ \A i \in 1..(m + n) : (rest \o added)[i] = IF i <= m THEN rest[i] ELSE added[i - m]
    BY <1>3, <2>1, ConcatProperties
  <2> QED
    BY <2>1, <2>2 DEF rest
<1>8. DOMAIN queue' = 1..(m + n)
  BY <1>7, LenProperties
<1>9. \A i \in 1..m : queue'[i] = queue[i + 1]
  BY <1>1, <1>5, <1>7
<1>10. ASSUME NEW i \in DOMAIN deps
       PROVE  queue'[m + i] = [object |-> deps[i], depth |-> k + 1]
  <2>1. i \in 1..n /\ m + i \in 1..(m + n) /\ ~(m + i <= m) /\ (m + i) - m = i
    BY <1>1, <1>5
  <2> QED
    BY <1>2, <1>7, <2>1
<1> QED
  BY <1>4, <1>7, <1>8, <1>9, <1>10 DEF Item

LEMMA ResultGrows ==
  ASSUME Met, NEW new \in SUBSET Objects, new \cap visited = {},
         NEW deps \in Bijection(1..Cardinality(new), new),
         result' = result \o deps, visited' = visited \cup new
  PROVE  Met'
<1> DEFINE m == Len(result)
           n == Len(deps)
<1>1. /\ deps \in Seq(Objects) /\ DOMAIN deps = 1..n /\ n \in Nat
      /\ \A i \in DOMAIN deps : deps[i] \in new
      /\ \A p \in new : \E i \in DOMAIN deps : deps[i] = p
      /\ \A i, j \in DOMAIN deps : deps[i] = deps[j] => i = j
  BY Numbered
<1>2. result \in Seq(Objects) /\ m \in Nat /\ DOMAIN result = 1..m
  BY LenProperties DEF Met
<1>3. /\ result' \in Seq(Objects) /\ Len(result') = m + n
      /\ \A i \in 1..(m + n) : result'[i] = IF i <= m THEN result[i] ELSE deps[i - m]
  BY <1>1, <1>2, ConcatProperties
<1>4. DOMAIN result' = 1..(m + n)
  BY <1>3, LenProperties
<1> HIDE DEF m, n
<1>5. \A i \in 1..m : i \in DOMAIN result' /\ result'[i] = result[i] /\ result'[i] \in visited
  BY <1>1, <1>2, <1>3, <1>4 DEF Met, Range
<1>6. \A i \in 1..n : /\ m + i \in DOMAIN result' /\ result'[m + i] = deps[i]
                      /\ result'[m + i] \in new
  BY <1>1, <1>2, <1>3, <1>4, SMTT(20)
<1>7. \A i \in DOMAIN result' : i \in 1..m \/ \E j \in 1..n : i = m + j
  <2> TAKE i \in DOMAIN result'
  <2>1. i \in 1..m \/ (i - m \in 1..n /\ i = m + (i - m))
    BY <1>1, <1>2, <1>4
  <2> QED
    BY <2>1
<1>8. Range(result') = visited \cup new
  <2>1. Range(result') \subseteq visited \cup new
    BY <1>5, <1>6, <1>7 DEF Range
  <2>2. visited \subseteq Range(result')
    <3> SUFFICES ASSUME NEW p \in visited
                 PROVE  \E i \in DOMAIN result' : result'[i] = p
      BY DEF Range
    <3>1. PICK i \in 1..m : result[i] = p
      BY <1>2 DEF Met, Range
    <3> QED
      BY <1>5, <3>1
  <2>3. new \subseteq Range(result')
    <3> SUFFICES ASSUME NEW p \in new
                 PROVE  \E i \in DOMAIN result' : result'[i] = p
      BY DEF Range
    <3>1. PICK i \in 1..n : deps[i] = p
      BY <1>1
    <3> QED
      BY <1>6, <3>1
  <2> QED
    BY <2>1, <2>2, <2>3
<1>9. ASSUME NEW i \in DOMAIN result', NEW j \in DOMAIN result', result'[i] = result'[j]
      PROVE  i = j
  <2>1. CASE i \in 1..m /\ j \in 1..m
    BY <1>2, <1>5, <1>9, <2>1 DEF Met
  <2>2. CASE i \in 1..m /\ j \notin 1..m
    BY <1>5, <1>6, <1>7, <1>9, <2>2
  <2>3. CASE i \notin 1..m /\ j \in 1..m
    BY <1>5, <1>6, <1>7, <1>9, <2>3
  <2>4. CASE i \notin 1..m /\ j \notin 1..m
    <3>1. PICK u \in 1..n : i = m + u
      BY <1>7, <2>4
    <3>2. PICK v \in 1..n : j = m + v
      BY <1>7, <2>4
    <3> QED
      BY <1>1, <1>6, <1>9, <3>1, <3>2, ZenonT(40)
  <2> QED
    BY <2>1, <2>2, <2>3, <2>4
<1> QED
  BY <1>3, <1>8, <1>9 DEF Met

\* The objects of `deps` take the place of the first item of the queue, at the end.
Follows(k, deps) ==
  queue' = Tail(queue) \o [i \in DOMAIN deps |-> [object |-> deps[i], depth |-> k + 1]]

\* An item below the limit is replaced by what its object refers to and the walk
\* has not met: the object met nearest is always followed first, so that nobody
\* is met further away than he is.
LEMMA FollowKeepsWalk ==
  ASSUME WalkInv, query.root \in Objects, query.depth \in Nat,
         queue # <<>>, NEW k, k = Head(queue).depth, k < query.depth,
         NEW o, o = Head(queue).object,
         NEW new, new = Next1(o) \ visited,
         NEW deps \in Bijection(1..Cardinality(new), new),
         visited' = visited \cup Next1(o),
         result' = result \o deps,
         Follows(k, deps),
         UNCHANGED <<query, config>>
  PROVE  WalkInv'
<1> DEFINE m == Len(queue) - 1
           n == Len(deps)
           Item == [object : Objects, depth : Nat]
<1>1. /\ queue \in Seq(Item) /\ Head(queue) = queue[1] /\ DOMAIN queue = 1..Len(queue)
      /\ Len(queue) \in Nat \ {0}
  BY LenProperties, EmptySeq DEF WalkInv, Queued
<1>2. /\ 1 \in DOMAIN queue /\ queue[1] \in Item /\ k \in Nat /\ o \in Objects
      /\ k = queue[1].depth /\ o = queue[1].object
  <2>1. 1 \in DOMAIN queue
    BY <1>1
  <2>2. queue[1] \in Item
    <3> HIDE DEF Item
    <3> QED
      BY <1>1, <2>1, ElementOfSeq
  <2> QED
    BY <1>1, <2>1, <2>2
<1>3. new \in SUBSET Objects /\ new \cap visited = {} /\ visited' = visited \cup new
  BY DEF Next1
<1>4. /\ deps \in Seq(Objects) /\ DOMAIN deps = 1..n /\ n \in Nat
      /\ \A i \in DOMAIN deps : deps[i] \in new
      /\ \A p \in new : \E i \in DOMAIN deps : deps[i] = p
  BY <1>3, Numbered
<1>5. Met'
  BY <1>3, ResultGrows DEF WalkInv
<1>6. /\ queue' \in Seq(Item) /\ DOMAIN queue' = 1..(m + n) /\ m \in Nat
      /\ \A i \in 1..m : queue'[i] = queue[i + 1]
      /\ \A i \in 1..n : queue'[m + i] = [object |-> deps[i], depth |-> k + 1]
  BY <1>1, <1>2, <1>4, QueueGrows DEF Follows
<1>7. \A p \in new : Leads(k + 1, p)
  <2> TAKE p \in new
  <2>1. p \in Next1(o)
    OBVIOUS
  <2>2. CASE k = 0
    <3>1. o = query.root
      BY <1>2, <2>2 DEF WalkInv, Queued
    <3>2. Leads(1, p)
      BY <2>1, <3>1, PathBegins
    <3> QED
      BY <2>2, <3>2
  <2>3. CASE k # 0
    <3>1. k > 0 /\ Leads(k, o)
      BY <1>2, <2>3 DEF WalkInv, Queued
    <3> QED
      BY <1>2, <2>1, <3>1, PathGoesOn
  <2> QED
    BY <2>2, <2>3
<1>8. (visited \subseteq Within(query.depth))'
  <2>1. visited \subseteq Within(query.depth)
    BY DEF WalkInv
  <2>2. k + 1 \in 1..query.depth
    BY <1>2
  <2>3. new \subseteq Within(query.depth)
    BY <1>3, <1>7, <2>2 DEF Within
  <2> QED
    BY <1>3, <2>1, <2>3, ReachStays
<1> HIDE DEF m, n, Item
<1>9. \A i \in 1..m : /\ i \in DOMAIN queue' /\ i + 1 \in DOMAIN queue /\ queue'[i] = queue[i + 1]
                      /\ queue[i + 1] \in Item
                      /\ k <= queue'[i].depth /\ queue'[i].depth <= k + 1
  <2> TAKE i \in 1..m
  <2>1. i \in DOMAIN queue' /\ i + 1 \in DOMAIN queue /\ queue'[i] = queue[i + 1] /\ 1 <= i + 1
    BY <1>1, <1>4, <1>6 DEF m
  <2>2. queue[i + 1] \in Item
    BY <1>1, <2>1, ElementOfSeq
  <2>3. queue[1].depth <= queue[i + 1].depth /\ queue[i + 1].depth <= queue[1].depth + 1
    BY <1>2, <2>1 DEF WalkInv, Queued
  <2> QED
    BY <1>2, <2>1, <2>2, <2>3
<1>10. \A i \in 1..n : /\ m + i \in DOMAIN queue' /\ queue'[m + i].depth = k + 1
                       /\ queue'[m + i].object = deps[i] /\ deps[i] \in new
  <2> TAKE i \in 1..n
  <2>1. m + i \in 1..(m + n)
    BY <1>4, <1>6
  <2>2. queue'[m + i] = [object |-> deps[i], depth |-> k + 1]
    BY <1>6
  <2> QED
    BY <1>4, <1>6, <2>1, <2>2
<1>11. \A i \in DOMAIN queue' : i \in 1..m \/ \E j \in 1..n : i = m + j
  <2> TAKE i \in DOMAIN queue'
  <2>1. i \in 1..m \/ (i - m \in 1..n /\ i = m + (i - m))
    BY <1>4, <1>6
  <2> QED
    BY <2>1
<1>12. \A i \in DOMAIN queue' : /\ queue'[i].depth \in Nat
                                /\ k <= queue'[i].depth /\ queue'[i].depth <= k + 1
  <2> TAKE i \in DOMAIN queue'
  <2>1. CASE i \in 1..m
    <3>1. queue'[i].depth \in Nat
      BY <1>9, <2>1 DEF Item
    <3> QED
      BY <1>9, <2>1, <3>1
  <2>2. CASE i \notin 1..m
    <3>1. queue'[i].depth = k + 1
      BY <1>10, <1>11, <2>2
    <3> QED
      BY <1>2, <3>1
  <2> QED
    BY <2>1, <2>2
<1>13. Queued'
  <2> SUFFICES ASSUME NEW i \in DOMAIN queue'
               PROVE  /\ queue'[i].object \in visited' \cup {query.root}
                      /\ queue'[i].depth <= query.depth
                      /\ queue'[i].depth <= queue'[1].depth + 1
                      /\ \A j \in DOMAIN queue' : i <= j => queue'[i].depth <= queue'[j].depth
                      /\ queue'[i].depth > 0 => Leads(queue'[i].depth, queue'[i].object)
                      /\ queue'[i].depth = 0 => queue'[i].object = query.root
    BY <1>6, ReachStays DEF Queued, Item
  <2>1. 1 \in DOMAIN queue'
    <3>1. m + n >= 1
      BY <1>4, <1>6
    <3> QED
      BY <1>4, <1>6, <3>1
  <2>2. queue'[i].depth <= queue'[1].depth + 1
    <3>1. k <= queue'[1].depth /\ queue'[1].depth \in Nat
      BY <1>12, <2>1
    <3>2. queue'[i].depth <= k + 1 /\ queue'[i].depth \in Nat
      BY <1>12
    <3> QED
      BY <1>2, <3>1, <3>2
  <2>3. queue'[i].depth <= query.depth
    BY <1>2, <1>12
  <2>4. \A j \in DOMAIN queue' : i <= j => queue'[i].depth <= queue'[j].depth
    <3> SUFFICES ASSUME NEW j \in DOMAIN queue', i <= j
                 PROVE  queue'[i].depth <= queue'[j].depth
      OBVIOUS
    <3>1. CASE j \in 1..m
      <4>1. i \in 1..m
        <5>1. i \in 1..(m + n) /\ j <= m
          BY <1>6, <3>1
        <5> QED
          BY <1>4, <1>6, <5>1
      <4>2. i + 1 \in DOMAIN queue /\ j + 1 \in DOMAIN queue /\ i + 1 <= j + 1
        BY <1>9, <3>1, <4>1
      <4>3. queue[i + 1].depth <= queue[j + 1].depth
        BY <4>2 DEF WalkInv, Queued
      <4> QED
        BY <1>9, <3>1, <4>1, <4>3
    <3>2. CASE j \notin 1..m
      BY <1>10, <1>11, <1>12, <3>2
    <3> QED
      BY <3>1, <3>2
  <2>5. CASE i \in 1..m
    <3>1. i + 1 \in DOMAIN queue /\ queue'[i] = queue[i + 1]
      BY <1>9, <2>5
    <3> QED
      BY <1>3, <2>2, <2>3, <2>4, <3>1 DEF WalkInv, Queued
  <2>6. CASE i \notin 1..m
    <3>1. PICK j \in 1..n : i = m + j
      BY <1>11, <2>6
    <3>2. queue'[i].object \in new /\ queue'[i].depth = k + 1
      BY <1>10, <3>1
    <3>3. Leads(k + 1, queue'[i].object) /\ k + 1 > 0
      BY <1>2, <1>7, <3>2
    <3> QED
      BY <1>2, <1>3, <2>2, <2>3, <2>4, <3>2, <3>3
  <2> QED
    BY <2>5, <2>6
<1>14. PICK d \in [Objects -> Nat] : Depths(d)
  BY DEF WalkInv
<1>20. PICK e \in [Objects -> Nat] :
          \A x \in Objects : e[x] = IF x \in new \ {query.root} THEN k + 1 ELSE d[x]
  <2> DEFINE f == [x \in Objects |-> IF x \in new \ {query.root} THEN k + 1 ELSE d[x]]
  <2>1. f \in [Objects -> Nat]
    BY <1>2
  <2> QED
    BY <2>1
<1>15. visited \subseteq Objects
  BY DEF WalkInv, Within
<1>16. \A x \in visited \cup {query.root} : x \in Objects /\ e[x] = d[x]
  BY <1>3, <1>15, <1>20
<1>17. \A x \in new \ {query.root} : x \in Objects /\ e[x] = k + 1
  BY <1>3, <1>20
<1>18. \A x \in visited : d[x] <= k + 1
  BY <1>2, <1>14 DEF Depths
<1>19. d[query.root] = 0
  BY <1>14 DEF Depths
<1>21. \A x \in visited \cup new : e[x] <= k + 1
  BY <1>2, <1>16, <1>17, <1>18, <1>19
<1>22. ASSUME NEW x \in (visited \cup {query.root})', e[x] < query.depth
       PROVE  \/ \E i \in DOMAIN queue' : queue'[i].object = x /\ queue'[i].depth = e[x]
              \/ \A p \in Next1(x) : p \in visited' /\ e[p] <= e[x] + 1
  <2>1. CASE x \in new \ {query.root}
    <3>1. PICK i \in 1..n : deps[i] = x
      BY <1>4, <2>1
    <3> QED
      BY <1>10, <1>17, <2>1, <3>1
  <2>2. CASE x \in visited \cup {query.root}
    <3>1. e[x] = d[x] /\ Expanded(d, x)
      BY <1>14, <1>16, <2>2 DEF Depths
    <3>2. CASE \E i \in DOMAIN queue : queue[i].object = x /\ queue[i].depth = d[x]
      <4>1. PICK i \in DOMAIN queue : queue[i].object = x /\ queue[i].depth = d[x]
        BY <3>2
      <4>2. CASE i = 1
        <5>1. x = o /\ d[x] = k
          BY <1>2, <4>1, <4>2
        <5>2. \A p \in Next1(x) : p \in visited \cup new
          BY <5>1
        <5> QED
          BY <1>3, <1>21, <3>1, <5>1, <5>2
      <4>3. CASE i # 1
        <5>1. i - 1 \in 1..m /\ (i - 1) + 1 = i
          BY <1>1, <4>3 DEF m
        <5>2. i - 1 \in DOMAIN queue' /\ queue'[i - 1] = queue[i]
          BY <1>9, <5>1
        <5> QED
          BY <3>1, <4>1, <5>2
      <4> QED
        BY <4>2, <4>3
    <3>3. CASE \A p \in Next1(x) : p \in visited /\ d[p] <= d[x] + 1
      BY <1>3, <1>16, <3>1, <3>3
    <3> QED
      BY <1>22, <3>1, <3>2, <3>3 DEF Expanded
  <2> QED
    BY <1>3, <2>1, <2>2
<1>23. queue' # <<>> => \A x \in visited' : e[x] <= queue'[1].depth + 1
  <2> SUFFICES ASSUME queue' # <<>>, NEW x \in visited'
               PROVE  e[x] <= queue'[1].depth + 1
    OBVIOUS
  <2>1. 1 \in DOMAIN queue'
    <3>1. queue' \in Seq(Item) /\ Len(queue') \in Nat \ {0}
      BY <1>6, EmptySeq
    <3>2. DOMAIN queue' = 1..Len(queue')
      BY <3>1, LenProperties
    <3> QED
      BY <3>1, <3>2
  <2>2. k <= queue'[1].depth /\ queue'[1].depth \in Nat
    BY <1>12, <2>1
  <2>3. e[x] <= k + 1 /\ e[x] \in Nat
    BY <1>3, <1>15, <1>21
  <2> QED
    BY <1>2, <2>2, <2>3
<1>24. Depths(e)'
  <2>1. \A x \in (visited \cup {query.root})' : Expanded(e, x)'
    BY <1>22, ReachStays DEF Expanded
  <2> QED
    BY <1>16, <1>19, <1>23, <2>1 DEF Depths
<1> QED
  BY <1>5, <1>8, <1>13, <1>24 DEF WalkInv

LEMMA VisitKeepsWalk ==
  ASSUME GraphInv, WalkInv, phase \in Served, query \in DependencyQueries, Visit
  PROVE  WalkInv'
<1>1. query.root \in Objects /\ query.depth \in Nat
  BY AnalysisAssumption
<1>2. queue # <<>> /\ UNCHANGED <<query, config>>
  BY DEF Visit, graphs
<1>3. Head(queue) \in [object : Objects, depth : Nat]
  BY <1>2, HeadTailProperties DEF WalkInv, Queued
<1>4. CASE TooDeep(Head(queue).depth)
  <2>1. queue' = Tail(queue) /\ UNCHANGED <<visited, result>>
    BY <1>4 DEF Visit
  <2> QED
    BY <1>1, <1>2, <1>4, <2>1, DropKeepsWalk DEF TooDeep
<1>5. CASE ~TooDeep(Head(queue).depth)
  <2> DEFINE k == Head(queue).depth
             o == Head(queue).object
             new == Next1(o) \ visited
  <2>1. k < query.depth /\ o \in Objects
    BY <1>1, <1>3, <1>5 DEF TooDeep
  <2>2. Neighbours(edges, o, query.direction) = Next1(o)
    BY <2>1, NeighboursAreReferences
  <2>3. PICK deps \in Bijection(1..Cardinality(new), new) :
           /\ visited' = visited \cup Next1(o)
           /\ result' = result \o deps
           /\ Follows(k, deps)
    BY <1>5, <2>2 DEF Visit, NewNeighbours, Follows
  <2>4. ASSUME NEW kk, kk = k, NEW oo, oo = o, NEW nn, nn = new,
               NEW dd \in Bijection(1..Cardinality(nn), nn),
               visited' = visited \cup Next1(oo), result' = result \o dd, Follows(kk, dd)
        PROVE  WalkInv'
    BY <1>1, <1>2, <2>1, <2>4, FollowKeepsWalk
  <2> HIDE DEF k, o, new
  <2> QED
    BY <2>3, <2>4
<1> QED
  BY <1>4, <1>5

-----------------------------------------------------------------------------
\* `config build` keeps the graph on disk that of the files it has read.
LEMMA BuildKeeps ==
  ASSUME AnalysisInv,
         \/ \E f \in CodeFiles : CollectExports(f) \/ ScanCalls(f)
         \/ \E o \in Objects : ScanMetadata(o)
  PROVE  AnalysisInv'
<1>1. GraphInv /\ QueryInv
  BY DEF AnalysisInv
<1>2. CASE \E f \in CodeFiles : CollectExports(f)
  <2>1. PICK f \in CodeFiles : CollectExports(f)
    BY <1>2
  <2>2. /\ phase = "exports" /\ phase' \in {"exports", "calls"}
        /\ config' = config /\ edges' = edges /\ query' = query
    BY <2>1 DEF CollectExports, PassEnds, walk
  <2> QED
    BY <1>1, <2>2 DEF AnalysisInv, GraphInv, QueryInv, Served, TransitiveIsReachable, DependenciesAnswered
<1>3. CASE \E f \in CodeFiles : ScanCalls(f)
  <2>1. PICK f \in CodeFiles : ScanCalls(f)
    BY <1>3
  <2>2. /\ phase = "calls" /\ phase' \in {"calls", "metadata"}
        /\ phase' = "metadata" => left' = Objects
        /\ config' = config /\ edges' = edges /\ query' = query
    BY <2>1 DEF ScanCalls, PassEnds, walk
  <2>3. edges = {} /\ UNION {EdgesOfFile(o, config.metadata[o]) : o \in Objects \ Objects} = {}
    BY <1>1, <2>2 DEF GraphInv
  <2> QED
    BY <1>1, <2>2, <2>3 DEF AnalysisInv, GraphInv, QueryInv, Served, TransitiveIsReachable, DependenciesAnswered
<1>4. CASE \E o \in Objects : ScanMetadata(o)
  <2>1. PICK o \in Objects : ScanMetadata(o)
    BY <1>4
  <2>2. /\ phase = "metadata" /\ o \in left
        /\ config' = config /\ query' = query
        /\ edges' = edges \cup EdgesOfFile(o, config.metadata[o])
        /\ \/ left = {o} /\ phase' = "served"
           \/ phase' = "metadata" /\ left' = left \ {o}
    BY <2>1 DEF ScanMetadata, PassEnds, walk
  <2>3. edges = UNION {EdgesOfFile(x, config.metadata[x]) : x \in Objects \ left}
    BY <1>1, <2>2 DEF GraphInv
  <2>4. edges' = UNION {EdgesOfFile(x, config.metadata[x]) : x \in Objects \ (left \ {o})}
    BY <2>2, <2>3
  <2>5. CASE left = {o} /\ phase' = "served"
    <3>1. Objects \ (left \ {o}) = Objects
      BY <2>5
    <3> QED
      BY <1>1, <2>2, <2>4, <2>5, <3>1
      DEF AnalysisInv, GraphInv, QueryInv, Served, TransitiveIsReachable, DependenciesAnswered
  <2>6. CASE phase' = "metadata" /\ left' = left \ {o}
    BY <1>1, <2>2, <2>4, <2>6
    DEF AnalysisInv, GraphInv, QueryInv, Served, TransitiveIsReachable, DependenciesAnswered
  <2> QED
    BY <2>2, <2>5, <2>6
<1> QED
  BY <1>2, <1>3, <1>4

\* The graph is not touched once it is served.
LEMMA GraphStays ==
  ASSUME GraphInv, phase \in Served, phase' \in Served, UNCHANGED graphs
  PROVE  GraphInv'
BY DEF GraphInv, Served, graphs

LEMMA AnswersKeep ==
  ASSUME AnalysisInv,
         \/ \E q \in DependencyQueries : AskDirect(q) \/ AskTransitive(q)
         \/ \E q \in CallQueries : AskCalls(q)
         \/ Visit
         \/ WalkEnds
  PROVE  AnalysisInv'
<1>1. GraphInv /\ QueryInv /\ (phase = "walking" => WalkInv)
  BY DEF AnalysisInv
<1>2. CASE \E q \in DependencyQueries : AskDirect(q)
  <2>1. PICK q \in DependencyQueries : AskDirect(q)
    BY <1>2
  <2>2. /\ phase \in Served /\ phase' \in {"answered", "not_found"} /\ query' = q
        /\ UNCHANGED graphs /\ ~(q.depth > 1)
    BY <2>1 DEF AskDirect, Idle, Reply, Served
  <2>3. GraphInv'
    BY <1>1, <2>2, GraphStays DEF Served
  <2> QED
    BY <2>2, <2>3 DEF AnalysisInv, QueryInv, TransitiveIsReachable, DependenciesAnswered
<1>3. CASE \E q \in DependencyQueries : AskTransitive(q)
  <2>1. PICK q \in DependencyQueries : AskTransitive(q)
    BY <1>3
  <2>2. /\ phase \in Served /\ phase' = "walking" /\ query' = q
        /\ UNCHANGED graphs /\ q.depth > 1
    BY <2>1 DEF AskTransitive, Idle, Served
  <2>3. GraphInv'
    BY <1>1, <2>2, GraphStays DEF Served
  <2>4. WalkInv'
    BY <2>1, WalkStarts
  <2> QED
    BY <2>2, <2>3, <2>4 DEF AnalysisInv, QueryInv, TransitiveIsReachable, DependenciesAnswered
<1>4. CASE \E q \in CallQueries : AskCalls(q)
  <2>1. PICK q \in CallQueries : AskCalls(q)
    BY <1>4
  <2>2. /\ phase \in Served /\ phase' = "answered" /\ query' = q /\ query'.tool = "calls"
        /\ UNCHANGED graphs
    BY <2>1, AnalysisAssumption DEF AskCalls, Idle, Served
  <2>3. GraphInv'
    BY <1>1, <2>2, GraphStays DEF Served
  <2> QED
    BY <2>2, <2>3 DEF AnalysisInv, QueryInv, TransitiveIsReachable, DependenciesAnswered
<1>5. CASE Visit
  <2>1. phase = "walking" /\ phase' = phase /\ query' = query /\ UNCHANGED graphs
    BY <1>5 DEF Visit
  <2>2. GraphInv'
    BY <1>1, <2>1, GraphStays DEF Served
  <2>3. WalkInv'
    BY <1>1, <1>5, <2>1, VisitKeepsWalk DEF QueryInv, Served
  <2> QED
    BY <1>1, <2>1, <2>2, <2>3 DEF AnalysisInv, QueryInv, TransitiveIsReachable, DependenciesAnswered
<1>6. CASE WalkEnds
  <2>1. /\ phase = "walking" /\ phase' \in {"answered", "not_found"} /\ queue = <<>>
        /\ UNCHANGED <<graphs, query, queue, visited, result>>
    BY <1>6 DEF WalkEnds, Reply
  <2>2. GraphInv'
    BY <1>1, <2>1, GraphStays DEF Served
  <2>3. query.root \in Objects /\ query.depth \in Nat
    BY <1>1, <2>1, AnalysisAssumption DEF QueryInv
  <2>4. /\ Range(result) = Within(query.depth)
        /\ \A i, j \in DOMAIN result : result[i] = result[j] => i = j
    BY <1>1, <2>1, <2>3, WalkAnswers
  <2>5. Within(query.depth)' = Within(query.depth)
    BY <2>1, ReachStays DEF graphs
  <2> QED
    BY <1>1, <2>1, <2>2, <2>4, <2>5
    DEF AnalysisInv, QueryInv, TransitiveIsReachable, DependenciesAnswered
<1> QED
  BY <1>2, <1>3, <1>4, <1>5, <1>6

LEMMA InvInductive ==
  ASSUME AnalysisInv, [Next]_vars
  PROVE  AnalysisInv'
<1>1. CASE Next
  BY <1>1, BuildKeeps, AnswersKeep DEF Next
<1>2. CASE UNCHANGED vars
  <2>1. UNCHANGED <<phase, config, left, edges, query, queue, visited, result>>
    BY <1>2 DEF vars, graphs, walk
  <2>2. /\ \A k, p : Leads(k, p)' <=> Leads(k, p)
        /\ \A n : Within(n)' = Within(n)
        /\ \A o : Next1(o)' = Next1(o)
    BY <2>1, ReachStays
  <2>3. GraphInv' /\ QueryInv'
    BY <2>1 DEF AnalysisInv, GraphInv, QueryInv
  <2>4. WalkInv => WalkInv'
    BY <2>1, <2>2 DEF WalkInv, Met, Queued, Depths, Expanded
  <2> QED
    BY <2>1, <2>2, <2>3, <2>4 DEF AnalysisInv, TransitiveIsReachable, DependenciesAnswered
<1> QED
  BY <1>1, <1>2

\* Before anything is read.
LEMMA StartsRight == Init => AnalysisInv
<1> SUFFICES ASSUME Init
             PROVE  AnalysisInv
  OBVIOUS
<1>1. /\ config.metadata \in [Objects -> MetadataFiles]
      /\ phase = "exports" /\ edges = {} /\ query = NoQuery
  BY AnalysisAssumption DEF Init
<1> QED
  BY <1>1 DEF AnalysisInv, GraphInv, QueryInv, Served, TransitiveIsReachable, DependenciesAnswered

\* A transitive answer is drawn from exactly the objects within reach, each met
\* once: for every configuration, object, direction and depth, and in whatever
\* order files are read and references are followed (get_transitive_dependencies,
\* get_transitive_dependents).
THEOREM Reach == Spec => []TransitiveIsReachable
<1>1. AnalysisInv /\ [Next]_vars => AnalysisInv'
  BY InvInductive
<1>2. AnalysisInv => TransitiveIsReachable
  BY DEF AnalysisInv
<1> QED
  BY <1>1, <1>2, StartsRight, PTL DEF Spec

-----------------------------------------------------------------------------
\* What the answer to a question about dependencies was taken from.
AnswerInv ==
  DependenciesAnswered =>
    /\ query.depth \in Nat \ {0}
    /\ answer = IF query.depth = 1 THEN EdgesAt(edges, query.root, query.direction)
                ELSE Collected(Range(result))
    /\ phase = "not_found" <=> answer = {}

\* The first reference of a path is one of the object.
LEMMA ReachBegins ==
  /\ Within(1) = Next1(query.root)
  /\ \A n \in Nat \ {0} : Within(n) # {} => Within(1) # {}
<1>1. ASSUME NEW k \in Nat \ {0}, NEW p, Leads(k, p)
      PROVE  \E x \in Next1(query.root) : k = 1 => x = p
  <2>1. PICK path \in [1..k -> Objects] :
           /\ path[k] = p
           /\ \A i \in 1..k : Beside(IF i = 1 THEN query.root ELSE path[i - 1], path[i])
    BY <1>1 DEF Leads
  <2>2. 1 \in 1..k
    OBVIOUS
  <2>3. path[1] \in Objects /\ Beside(query.root, path[1])
    BY <2>1, <2>2
  <2> QED
    BY <2>1, <2>3 DEF Next1
<1>2. Within(1) = Next1(query.root)
  <2>1. ASSUME NEW p \in Within(1) PROVE p \in Next1(query.root)
    <3>1. Leads(1, p)
      BY DEF Within
    <3> QED
      BY <1>1, <3>1
  <2>2. ASSUME NEW p \in Next1(query.root) PROVE p \in Within(1)
    <3>1. Leads(1, p) /\ p \in Objects
      BY PathBegins DEF Next1
    <3> QED
      BY <3>1 DEF Within
  <2> QED
    BY <2>1, <2>2
<1>3. ASSUME NEW n \in Nat \ {0}, Within(n) # {} PROVE Within(1) # {}
  <2>1. PICK p \in Objects : \E k \in 1..n : Leads(k, p)
    BY <1>3 DEF Within
  <2>2. PICK k \in 1..n : Leads(k, p)
    BY <2>1
  <2>3. \E x \in Next1(query.root) : k = 1 => x = p
    BY <1>1, <2>2
  <2> QED
    BY <1>2, <2>3
<1> QED
  BY <1>2, <1>3

\* An edge is told by its ends, its kind and its attribute.
LEMMA EdgesAreTold ==
  ASSUME config.metadata \in [Objects -> MetadataFiles],
         edges = UNION {EdgesOfFile(o, config.metadata[o]) : o \in Objects}
  PROVE  /\ edges \subseteq DependencyEdges
         /\ \A e \in edges : e.edge_type = "registered_by" => e.detail = 0
<1> SUFFICES ASSUME NEW e \in edges
             PROVE  e \in DependencyEdges /\ (e.edge_type = "registered_by" => e.detail = 0)
  OBVIOUS
<1>1. e.source \in Objects /\ e.target \in Objects
  BY EdgesAreReferences
<1>2. PICK o \in Objects : e \in EdgesOfFile(o, config.metadata[o])
  OBVIOUS
<1> DEFINE file == config.metadata[o]
<1>3. file.attributes \in Seq(Seq(Objects \cup {NoObject}))
  BY DEF MetadataFiles
<1>4. e \in AttributeEdges(o, file) \cup _scan_recorder(o, file)
  BY <1>2 DEF EdgesOfFile
<1>5. CASE e \in AttributeEdges(o, file)
  <2>1. PICK i \in DOMAIN file.attributes :
           e = [source |-> o, target |-> extract_type(file.attributes[i]),
                edge_type |-> "uses_attribute", detail |-> i]
    BY <1>5 DEF AttributeEdges
  <2>2. i \in Nat
    BY <1>3
  <2> QED
    BY <1>1, <2>1, <2>2 DEF DependencyEdges
<1>6. CASE e \in _scan_recorder(o, file)
  BY <1>1, <1>6 DEF DependencyEdges, _scan_recorder
<1> QED
  BY <1>4, <1>5, <1>6

\* Of the edges between two objects there is a first one, and only one.
LEMMA OneIsFirst ==
  ASSUME NEW some, some \subseteq DependencyEdges,
         \A e \in some : e.edge_type = "registered_by" => e.detail = 0
  PROVE  /\ \A e \in some : \E f \in OnePerPair(some) : f.source = e.source /\ f.target = e.target
         /\ \A e, f \in OnePerPair(some) :
              e.source = f.source /\ e.target = f.target => e = f
<1>1. \A e, f \in some :
         e.source = f.source /\ e.target = f.target /\ e.edge_type = f.edge_type
           /\ e.detail = f.detail => e = f
  BY DEF DependencyEdges
<1>2. \A e \in some : e.edge_type \in {"uses_attribute", "registered_by"} /\ e.detail \in Nat
  BY DEF DependencyEdges
<1>3. ASSUME NEW e \in some
      PROVE  \E f \in OnePerPair(some) : f.source = e.source /\ f.target = e.target
  <2> DEFINE Between == {f \in some : f.source = e.source /\ f.target = e.target
                                         /\ f.edge_type = "uses_attribute"}
  <2>1. CASE Between = {}
    <3>1. ASSUME NEW f \in some, f.source = e.source, f.target = e.target
          PROVE  f.edge_type = "registered_by"
      BY <1>2, <2>1, <3>1
    <3>2. IsFirst(e, some)
      BY <3>1 DEF IsFirst
    <3> QED
      BY <3>2 DEF OnePerPair
  <2>2. CASE Between # {}
    <3> DEFINE S == {f.detail : f \in Between}
    <3>1. S \subseteq Nat /\ S # {}
      BY <1>2, <2>2
    <3>2. PICK n \in S : \A k \in S : n <= k
      BY <3>1, LeastNumber
    <3>3. PICK f \in Between : f.detail = n
      OBVIOUS
    <3>4. ASSUME NEW g \in some, g.source = f.source, g.target = f.target, g # f,
                 g.edge_type # "registered_by"
          PROVE  f.edge_type = "uses_attribute" /\ f.detail < g.detail
      <4>1. g \in Between
        BY <1>2, <3>4
      <4>2. f.detail <= g.detail /\ f.detail \in Nat /\ g.detail \in Nat
        BY <1>2, <3>2, <3>3, <4>1
      <4>3. f.detail # g.detail
        BY <1>1, <3>4, <4>1
      <4> QED
        BY <4>2, <4>3
    <3>5. IsFirst(f, some)
      BY <3>4 DEF IsFirst
    <3> QED
      BY <3>5 DEF OnePerPair
  <2> QED
    BY <2>1, <2>2
<1>4. ASSUME NEW e \in OnePerPair(some), NEW f \in OnePerPair(some),
             e.source = f.source, e.target = f.target, e # f
      PROVE  FALSE
  <2>1. e \in some /\ f \in some /\ IsFirst(e, some) /\ IsFirst(f, some)
    BY DEF OnePerPair
  <2>2. \/ f.edge_type = "registered_by"
        \/ e.edge_type = "uses_attribute" /\ e.detail < f.detail
    BY <1>4, <2>1 DEF IsFirst
  <2>3. \/ e.edge_type = "registered_by"
        \/ f.edge_type = "uses_attribute" /\ f.detail < e.detail
    BY <1>4, <2>1 DEF IsFirst
  <2>4. e.detail \in Nat /\ f.detail \in Nat
    BY <1>2, <2>1
  <2> QED
    BY <1>1, <1>4, <2>1, <2>2, <2>3, <2>4
<1> QED
  BY <1>3, <1>4

\* What the code calls the edges of an object.
LEMMA EdgesOfObject ==
  ASSUME NEW some, NEW o, NEW e
  PROVE  e \in EdgesAt(some, o, query.direction) <=> e \in some /\ NearEnd(e) = o
BY DEF EdgesAt, get_dependencies, get_dependents, NearEnd

\* An answer taken so stays in reach.
LEMMA AnswersStay ==
  ASSUME AnalysisInv, AnswerInv
  PROVE  AnswerStaysInReach
<1> SUFFICES ASSUME DependenciesAnswered
             PROVE  /\ phase = "not_found" <=> Within(1) = {}
                    /\ \A e \in answer :
                          /\ Refers(e.source, e.target)
                          /\ NearEnd(e) \in {query.root} \cup Within(query.depth)
                    /\ \A p \in Within(1) :
                          \E e \in answer : NearEnd(e) = query.root
                                              /\ FarEnd(e, query.direction) = p
                    /\ query.depth > 1 =>
                          \A e, f \in answer : e.source = f.source /\ e.target = f.target => e = f
  BY DEF AnswerStaysInReach
<1>1. /\ GraphInv /\ phase \in Served /\ query \in DependencyQueries /\ query.root \in Objects
      /\ query.depth \in Nat \ {0} /\ (phase = "not_found" <=> answer = {})
  BY AnalysisAssumption DEF AnalysisInv, QueryInv, DependenciesAnswered, Served, AnswerInv
<1>2. /\ \A e \in edges : Refers(e.source, e.target)
      /\ edges \subseteq DependencyEdges
      /\ \A e \in edges : e.edge_type = "registered_by" => e.detail = 0
  BY <1>1, EdgesAreReferences, EdgesAreTold DEF GraphInv
<1>3. Within(1) = Neighbours(edges, query.root, query.direction)
  BY <1>1, NeighboursAreReferences, ReachBegins
<1>4. \A p \in Within(1) : \E e \in edges : NearEnd(e) = query.root
                                               /\ FarEnd(e, query.direction) = p
  BY <1>3, EdgesOfObject DEF Neighbours
<1>5. \A e \in edges : NearEnd(e) = query.root => FarEnd(e, query.direction) \in Within(1)
  BY <1>3, EdgesOfObject DEF Neighbours
<1>6. CASE query.depth = 1
  <2>1. \A e : e \in answer <=> e \in edges /\ NearEnd(e) = query.root
    BY <1>6, EdgesOfObject DEF AnswerInv
  <2> QED
    BY <1>1, <1>2, <1>4, <1>5, <1>6, <2>1
<1>7. CASE query.depth # 1
  <2> DEFINE near == Neighbours(edges, query.root, query.direction)
             roots == (Range(result) \ (near \cup {query.root})) \cup {query.root}
             some == UNION {EdgesAt(edges, o, query.direction) : o \in roots}
  <2>1. answer = OnePerPair(some)
    BY <1>7 DEF AnswerInv, Collected
  <2>2. Range(result) = Within(query.depth)
    BY <1>1, <1>7 DEF AnalysisInv, TransitiveIsReachable
  <2>3. \A e : e \in some <=> e \in edges /\ NearEnd(e) \in roots
    BY EdgesOfObject
  <2>4. /\ roots \subseteq {query.root} \cup Within(query.depth) /\ query.root \in roots
        /\ Within(1) = {} => roots = {query.root}
    BY <1>1, <2>2, ReachBegins
  <2> HIDE DEF some, roots
  <2>5. /\ \A e \in some : \E f \in answer : f.source = e.source /\ f.target = e.target
        /\ \A e, f \in answer : e.source = f.source /\ e.target = f.target => e = f
        /\ answer \subseteq some
    <3>1. some \subseteq DependencyEdges
            /\ \A e \in some : e.edge_type = "registered_by" => e.detail = 0
      BY <1>2, <2>3
    <3> QED
      BY <2>1, <3>1, OneIsFirst DEF OnePerPair
  <2>6. \A e \in answer : Refers(e.source, e.target) /\ NearEnd(e) \in roots
    BY <1>2, <2>3, <2>5
  <2>7. \A p \in Within(1) : \E e \in answer : NearEnd(e) = query.root
                                                 /\ FarEnd(e, query.direction) = p
    <3> SUFFICES ASSUME NEW p \in Within(1)
                 PROVE  \E e \in answer : NearEnd(e) = query.root
                                            /\ FarEnd(e, query.direction) = p
      OBVIOUS
    <3>1. PICK e \in edges : NearEnd(e) = query.root /\ FarEnd(e, query.direction) = p
      BY <1>4
    <3>2. e \in some
      BY <2>3, <2>4, <3>1
    <3>3. PICK f \in answer : f.source = e.source /\ f.target = e.target
      BY <2>5, <3>2
    <3> QED
      BY <3>1, <3>3 DEF NearEnd, FarEnd
  <2>8. answer # {} => Within(1) # {}
    <3> SUFFICES ASSUME NEW e \in answer, Within(1) = {} PROVE FALSE
      OBVIOUS
    <3>1. NearEnd(e) = query.root /\ e \in edges
      BY <2>3, <2>4, <2>5, <2>6
    <3> QED
      BY <1>5, <3>1
  <2> QED
    BY <1>1, <2>4, <2>5, <2>6, <2>7, <2>8
<1> QED
  BY <1>6, <1>7

LEMMA AnswerStep ==
  ASSUME AnalysisInv, AnswerInv, [Next]_vars
  PROVE  AnswerInv'
<1>1. CASE \E q \in DependencyQueries : AskDirect(q)
  <2>1. PICK q \in DependencyQueries : AskDirect(q)
    BY <1>1
  <2>2. /\ q.depth = 1 /\ query' = q /\ edges' = edges
        /\ answer' = EdgesAt(edges, q.root, q.direction)
        /\ phase' = IF answer' = {} THEN "not_found" ELSE "answered"
    BY <2>1 DEF AskDirect, Reply, graphs
  <2> QED
    BY <2>2 DEF AnswerInv
<1>2. CASE WalkEnds
  <2>1. /\ query.depth \in Nat \ {0} /\ query.depth # 1
    BY <1>2, AnalysisAssumption DEF WalkEnds, AnalysisInv, QueryInv
  <2>2. /\ UNCHANGED <<edges, query, result>> /\ answer' = Collected(Range(result))
        /\ phase' = IF answer' = {} THEN "not_found" ELSE "answered"
    BY <1>2 DEF WalkEnds, Reply, graphs
  <2>3. Collected(Range(result))' = Collected(Range(result))
    BY <2>2 DEF Collected
  <2> QED
    BY <2>1, <2>2, <2>3 DEF AnswerInv
<1>3. CASE UNCHANGED vars
  <2>1. UNCHANGED <<phase, edges, query, result, answer>>
    BY <1>3 DEF vars, graphs, walk
  <2> QED
    BY <2>1 DEF AnswerInv, DependenciesAnswered, Collected
<1>4. CASE ~DependenciesAnswered'
  BY <1>4 DEF AnswerInv
<1>5. \/ \E q \in DependencyQueries : AskDirect(q)
      \/ WalkEnds
      \/ UNCHANGED vars
      \/ ~DependenciesAnswered'
  <2>1. ASSUME NEW f \in CodeFiles, CollectExports(f) \/ ScanCalls(f)
        PROVE  ~DependenciesAnswered'
    BY <2>1 DEF CollectExports, ScanCalls, PassEnds, DependenciesAnswered
  <2>2. ASSUME NEW o \in Objects, ScanMetadata(o)
        PROVE  ~DependenciesAnswered'
    BY <2>2 DEF ScanMetadata, PassEnds, DependenciesAnswered
  <2>3. ASSUME NEW q \in CallQueries, AskCalls(q)
        PROVE  ~DependenciesAnswered'
    BY <2>3, AnalysisAssumption DEF AskCalls, DependenciesAnswered
  <2>4. ASSUME NEW q \in DependencyQueries, AskTransitive(q)
        PROVE  ~DependenciesAnswered'
    BY <2>4 DEF AskTransitive, DependenciesAnswered
  <2>5. ASSUME Visit PROVE ~DependenciesAnswered'
    BY <2>5 DEF Visit, DependenciesAnswered
  <2> QED
    BY <2>1, <2>2, <2>3, <2>4, <2>5 DEF Next
<1> QED
  BY <1>1, <1>2, <1>3, <1>4, <1>5

\* "Not found" is said exactly of an object without references, every edge of an
\* answer is one of the XML within `depth` references, no neighbour is left out,
\* and beyond depth 1 two objects are joined once (get_dependency_graph,
\* _collect_edges_for_targets).
THEOREM InReach == Spec => []AnswerStaysInReach
<1>1. Init => AnalysisInv /\ AnswerInv
  <2> SUFFICES ASSUME Init PROVE AnalysisInv /\ AnswerInv
    OBVIOUS
  <2>1. phase = "exports"
    BY DEF Init
  <2> QED
    BY <2>1, StartsRight DEF AnswerInv, DependenciesAnswered
<1>2. AnalysisInv /\ AnswerInv /\ [Next]_vars => (AnalysisInv /\ AnswerInv)'
  BY InvInductive, AnswerStep
<1>3. AnalysisInv /\ AnswerInv => AnswerStaysInReach
  BY AnswersStay
<1> QED
  BY <1>1, <1>2, <1>3, PTL DEF Spec

-----------------------------------------------------------------------------
\* A file whose lines are numbered, of a module with a name.
WellFormed(file) ==
  /\ Len(file.lines) \in Nat /\ DOMAIN file.lines = 1..Len(file.lines)
  /\ file.name # NoModule
  /\ \A i \in DOMAIN file.lines : file.lines[i].name \notin {ModuleBody} \cup BSL_KEYWORDS

\* What the two passes have read of some files.
NamesIn(files)   == {config.code[f].name : f \in files}
ExportsIn(files) == UNION {ExportsOf(config.code[f]) : f \in files}
CallsIn(files)   ==
  UNION {_parse_bsl_file(config.code[f], NamesIn(CodeFiles), ExportsIn(CodeFiles)) : f \in files}

\* The calls on disk are those of the files read so far, found with the names of
\* all of them, and an answer is taken from the calls of all files.
CallInv ==
  /\ \A f \in CodeFiles : WellFormed(config.code[f])
  /\ phase = "exports" =>
       /\ module_names = NamesIn(CodeFiles \ left)
       /\ export_methods = ExportsIn(CodeFiles \ left)
       /\ calls = {}
  /\ phase # "exports" =>
       /\ module_names = NamesIn(CodeFiles)
       /\ export_methods = ExportsIn(CodeFiles)
       /\ calls = CallsIn(IF phase = "calls" THEN CodeFiles \ left ELSE CodeFiles)
  /\ phase = "answered" /\ query.tool = "calls" =>
       answer = {Converted(e) : e \in {x \in calls : Matches(x, query)}}

\* The procedure a line is taken to be in is the last one that begins before it.
LEMMA ProcedureBefore ==
  ASSUME NEW file, WellFormed(file), NEW i \in DOMAIN file.lines,
         HeadsBefore(file.lines, i) # {}
  PROVE  \E h \in HeadsBefore(file.lines, i) :
           /\ \A k \in HeadsBefore(file.lines, i) : k <= h
           /\ _find_current_procedure(file.lines, i) = file.lines[h].name
<1> DEFINE H == HeadsBefore(file.lines, i)
           S == {i - h : h \in H}
<1>1. i \in Nat /\ \A h \in H : h \in Nat /\ h <= i
  BY DEF WellFormed, HeadsBefore, Heads
<1>2. S \subseteq Nat /\ S # {}
  <2> HIDE DEF H
  <2>1. \A h \in H : i - h \in Nat
    BY <1>1
  <2>2. H # {}
    BY DEF H
  <2> QED
    BY <2>1, <2>2
<1>3. PICK n \in S : \A k \in S : n <= k
  BY <1>2, LeastNumber
<1>4. \E h \in H : \A k \in H : k <= h
  <2> HIDE DEF H
  <2>1. PICK h \in H : n = i - h
    BY <1>3
  <2>2. ASSUME NEW k \in H PROVE k <= h
    <3>1. i - k \in S
      OBVIOUS
    <3>2. i - h <= i - k
      BY <1>3, <2>1, <3>1
    <3> QED
      BY <1>1, <3>2
  <2> QED
    BY <2>2
<1> DEFINE last == CHOOSE h \in H : \A k \in H : k <= h
<1>5. last \in H /\ \A k \in H : k <= last
  <2> HIDE DEF H
  <2> QED
    BY <1>4
<1>6. _find_current_procedure(file.lines, i) = file.lines[last].name
  BY DEF _find_current_procedure
<1> HIDE DEF last
<1> QED
  BY <1>5, <1>6

\* Every call that is owed is in the answer.
LEMMA OwedIsFound ==
  ASSUME CallInv, phase = "answered", query.tool = "calls",
         NEW f \in CodeFiles, config.code[f].readable,
         NEW i \in DOMAIN config.code[f].lines, Owed(config.code[f], i, query)
  PROVE  LET file == config.code[f] IN
         \E e \in answer :
            /\ e.type = file.type /\ e.source_module = file.name
            /\ e.line = i /\ e.target_method = file.lines[i].name
            /\ \A h \in Heads(file.lines) :
                  Encloses(file.lines, h, i) /\ ~file.lines[h].async =>
                     e.source_method = file.lines[h].name
<1> DEFINE file == config.code[f]
           line == file.lines[i]
<1>1. WellFormed(file) /\ calls = CallsIn(CodeFiles)
      /\ answer = {Converted(e) : e \in {x \in calls : Matches(x, query)}}
  BY DEF CallInv
<1>2. line.is = "call" /\ query.method \in {"", line.name}
  BY DEF Owed
<1>3. Visible(line)
  BY DEF Owed
<1>4. \A h \in Heads(file.lines) :
         Encloses(file.lines, h, i) /\ ~file.lines[h].async =>
            _find_current_procedure(file.lines, i) = file.lines[h].name
  <2> SUFFICES ASSUME NEW h \in Heads(file.lines), Encloses(file.lines, h, i),
                      ~file.lines[h].async
               PROVE  _find_current_procedure(file.lines, i) = file.lines[h].name
    OBVIOUS
  <2>1. h < i /\ \A k \in (h + 1)..(i - 1) : file.lines[k].is # "def"
    BY DEF Encloses
  <2>2. i \in Nat /\ \A k \in Heads(file.lines) : k \in Nat
    BY <1>1 DEF WellFormed, Heads
  <2>3. h \in HeadsBefore(file.lines, i)
    BY <2>1, <2>2 DEF HeadsBefore
  <2>4. PICK last \in HeadsBefore(file.lines, i) :
           /\ \A k \in HeadsBefore(file.lines, i) : k <= last
           /\ _find_current_procedure(file.lines, i) = file.lines[last].name
    BY <1>1, <2>3, ProcedureBefore
  <2>5. h <= last /\ last <= i /\ last \in Heads(file.lines)
    BY <2>3, <2>4 DEF HeadsBefore
  <2>6. file.lines[last].is = "def"
    BY <2>5 DEF Heads
  <2>7. last # i
    BY <1>2, <2>6
  <2>8. last = h
    BY <2>1, <2>2, <2>5, <2>6, <2>7
  <2> QED
    BY <2>4, <2>8
<1>5. ASSUME NEW target, CallEdge(file, i, target) \in CallsIn({f}),
             Matches(CallEdge(file, i, target), query)
      PROVE  \E e \in answer :
                /\ e.type = file.type /\ e.source_module = file.name
                /\ e.line = i /\ e.target_method = line.name
                /\ e.source_method = _find_current_procedure(file.lines, i)
  <2> DEFINE found == CallEdge(file, i, target)
  <2>1. found \in calls
    BY <1>1, <1>5 DEF CallsIn
  <2>2. Converted(found) \in answer
    BY <1>1, <1>5, <2>1
  <2>3. /\ Converted(found).type = file.type /\ Converted(found).source_module = file.name
        /\ Converted(found).line = i /\ Converted(found).target_method = line.name
        /\ Converted(found).source_method = _find_current_procedure(file.lines, i)
    BY DEF Converted, CallEdge
  <2> HIDE DEF found
  <2> QED
    BY <2>2, <2>3
<1>6. CASE /\ line.module \in NamesIn(CodeFiles)
           /\ \/ IsOf(file, query)
              \/ query.type = "CommonModule" /\ line.module = query.name
  <2>1. line.module # NoModule
    BY <1>6 DEF NamesIn, CallInv, WellFormed
  <2>2. CallEdge(file, i, line.module) \in CrossCalls(file, NamesIn(CodeFiles))
    BY <1>2, <1>3, <1>6, <2>1 DEF CrossCalls, Visible, Skipped
  <2>3. CallEdge(file, i, line.module) \in CallsIn({f})
    BY <2>2 DEF CallsIn, _parse_bsl_file
  <2>4. Matches(CallEdge(file, i, line.module), query)
    BY <1>2, <1>6, <2>1 DEF Matches, _match_ref, CallEdge, IsOf
  <2> QED
    BY <1>4, <1>5, <2>3, <2>4
<1>7. CASE /\ line.module = NoModule /\ IsOf(file, query)
           /\ \E h \in Heads(file.lines) :
                 file.lines[h].export /\ file.lines[h].name = line.name
           /\ ~\E h \in HeadsBefore(file.lines, i) : file.lines[h].name = line.name
  <2>1. <<file.name, line.name>> \in ExportsIn(CodeFiles)
    <3>1. PICK h \in Heads(file.lines) : file.lines[h].export /\ file.lines[h].name = line.name
      BY <1>7
    <3> DEFINE m == [name |-> file.lines[h].name, is_export |-> file.lines[h].export,
                     is_async |-> file.lines[h].async, start_line |-> FirstLine(file.lines, h),
                     end_line |-> LastLine(file.lines, h)]
    <3>2. m \in extract_export_methods(file.lines) /\ m.name = line.name
      BY <3>1 DEF extract_export_methods, _extract_methods
    <3> HIDE DEF m
    <3>3. <<file.name, line.name>> \in ExportsOf(file)
      BY <3>2 DEF ExportsOf
    <3> QED
      BY <3>3 DEF ExportsIn
  <2>2. line.name # _find_current_procedure(file.lines, i)
    <3>1. CASE HeadsBefore(file.lines, i) = {}
      BY <1>1, <3>1 DEF _find_current_procedure, WellFormed
    <3>2. CASE HeadsBefore(file.lines, i) # {}
      BY <1>1, <1>7, <3>2, ProcedureBefore
    <3> QED
      BY <3>1, <3>2
  <2>3. CallEdge(file, i, NoModule) \in LocalCalls(file, ExportsIn(CodeFiles))
    BY <1>1, <1>2, <1>3, <2>1, <2>2 DEF LocalCalls, Visible, WellFormed
  <2>4. CallEdge(file, i, NoModule) \in CallsIn({f})
    BY <2>3 DEF CallsIn, _parse_bsl_file
  <2>5. Matches(CallEdge(file, i, NoModule), query)
    BY <1>2, <1>7 DEF Matches, _match_ref, CallEdge, IsOf
  <2> QED
    BY <1>4, <1>5, <2>4, <2>5
<1>8. NamesIn(CodeFiles) = {config.code[x].name : x \in CodeFiles}
  BY DEF NamesIn
<1> QED
  BY <1>6, <1>7, <1>8 DEF Owed

\* Everything in the answer is a call, or the head of an Асинх method.
LEMMA FoundIsACall ==
  ASSUME CallInv, phase = "answered", query.tool = "calls", NEW e \in answer
  PROVE  \E f \in CodeFiles : LET file == config.code[f] IN
           /\ file.type = e.type /\ file.name = e.source_module
           /\ e.line \in DOMAIN file.lines
           /\ file.lines[e.line].name = e.target_method
           /\ \/ file.lines[e.line].is = "call"
              \/ file.lines[e.line].is = "def" /\ file.lines[e.line].async
<1>1. calls = CallsIn(CodeFiles)
      /\ answer = {Converted(x) : x \in {y \in calls : Matches(y, query)}}
  BY DEF CallInv
<1>2. PICK x \in calls : e = Converted(x)
  BY <1>1
<1>3. PICK f \in CodeFiles :
         x \in _parse_bsl_file(config.code[f], NamesIn(CodeFiles), ExportsIn(CodeFiles))
  BY <1>1, <1>2 DEF CallsIn
<1> DEFINE file == config.code[f]
<1>4. WellFormed(file)
  BY DEF CallInv
<1>5. \/ x \in CrossCalls(file, NamesIn(CodeFiles))
      \/ x \in LocalCalls(file, ExportsIn(CodeFiles))
  BY <1>3 DEF _parse_bsl_file
<1>6. PICK i \in DOMAIN file.lines : \E target :
         /\ x = CallEdge(file, i, target)
         /\ \/ file.lines[i].is = "call"
            \/ /\ file.lines[i].is = "def"
               /\ file.lines[i].name # _find_current_procedure(file.lines, i)
  BY <1>5 DEF CrossCalls, LocalCalls
<1>7. /\ e.type = file.type /\ e.source_module = file.name
      /\ e.line = i /\ e.target_method = file.lines[i].name
  BY <1>2, <1>6 DEF Converted, CallEdge
<1>8. ASSUME file.lines[i].is = "def", ~file.lines[i].async
      PROVE  file.lines[i].name = _find_current_procedure(file.lines, i)
  <2>1. i \in Nat /\ \A h \in Heads(file.lines) : h \in Nat
    BY <1>4 DEF WellFormed, Heads
  <2>2. i \in HeadsBefore(file.lines, i)
    BY <1>8, <2>1 DEF HeadsBefore, Heads
  <2>3. PICK last \in HeadsBefore(file.lines, i) :
           /\ \A k \in HeadsBefore(file.lines, i) : k <= last
           /\ _find_current_procedure(file.lines, i) = file.lines[last].name
    BY <1>4, <2>2, ProcedureBefore
  <2>4. last = i
    BY <2>1, <2>2, <2>3 DEF HeadsBefore
  <2> QED
    BY <2>3, <2>4
<1> QED
  BY <1>6, <1>7, <1>8

LEMMA CallStart == Init => CallInv
<1> SUFFICES ASSUME Init PROVE CallInv
  OBVIOUS
<1>1. /\ phase = "exports" /\ left = CodeFiles /\ config \in Configurations
      /\ module_names = {} /\ export_methods = {} /\ calls = {}
  BY DEF Init
<1>2. NamesIn(CodeFiles \ left) = {} /\ ExportsIn(CodeFiles \ left) = {}
  BY <1>1 DEF NamesIn, ExportsIn
<1>3. \A f \in CodeFiles : WellFormed(config.code[f])
  BY <1>1, AnalysisAssumption DEF WellFormed
<1> QED
  BY <1>1, <1>2, <1>3 DEF CallInv

LEMMA CallStep ==
  ASSUME AnalysisInv, CallInv, [Next]_vars
  PROVE  CallInv'
<1>1. ASSUME config' = config
      PROVE  /\ \A files : NamesIn(files)' = NamesIn(files)
             /\ \A files : ExportsIn(files)' = ExportsIn(files)
             /\ \A files : CallsIn(files)' = CallsIn(files)
             /\ \A f \in CodeFiles : WellFormed(config.code[f])'
  BY <1>1 DEF NamesIn, ExportsIn, CallsIn, CallInv, WellFormed
<1>2. ASSUME NEW f \in CodeFiles, NEW files
      PROVE  /\ NamesIn(files) \cup {config.code[f].name} = NamesIn(files \cup {f})
             /\ ExportsIn(files) \cup ExportsOf(config.code[f]) = ExportsIn(files \cup {f})
             /\ CallsIn(files) \cup _parse_bsl_file(config.code[f], NamesIn(CodeFiles),
                                                    ExportsIn(CodeFiles)) = CallsIn(files \cup {f})
  <2>1. NamesIn(files) \cup {config.code[f].name} = NamesIn(files \cup {f})
    BY DEF NamesIn
  <2>2. ExportsIn(files) \cup ExportsOf(config.code[f]) = ExportsIn(files \cup {f})
    BY DEF ExportsIn
  <2>3. CallsIn(files) \cup _parse_bsl_file(config.code[f], NamesIn(CodeFiles),
                                             ExportsIn(CodeFiles)) = CallsIn(files \cup {f})
    BY DEF CallsIn
  <2> QED
    BY <2>1, <2>2, <2>3
<1>3. ASSUME NEW f \in CodeFiles, CollectExports(f)
      PROVE  CallInv'
  <2>1. /\ phase = "exports" /\ f \in left /\ config' = config /\ calls' = calls
        /\ module_names' = module_names \cup {config.code[f].name}
        /\ export_methods' = export_methods \cup ExportsOf(config.code[f])
        /\ \/ left = {f} /\ phase' = "calls" /\ left' = CodeFiles
           \/ left # {f} /\ phase' = "exports" /\ left' = left \ {f}
    BY <1>3 DEF CollectExports, PassEnds
  <2>2. /\ module_names' = NamesIn((CodeFiles \ left) \cup {f})
        /\ export_methods' = ExportsIn((CodeFiles \ left) \cup {f})
        /\ calls' = {}
    BY <1>2, <2>1 DEF CallInv
  <2>3. CASE left = {f} /\ phase' = "calls" /\ left' = CodeFiles
    <3>1. (CodeFiles \ left) \cup {f} = CodeFiles /\ CodeFiles \ left' = {}
      BY <2>3
    <3>2. CallsIn({}) = {}
      BY DEF CallsIn
    <3> QED
      BY <1>1, <2>1, <2>2, <2>3, <3>1, <3>2 DEF CallInv
  <2>4. CASE left # {f} /\ phase' = "exports" /\ left' = left \ {f}
    <3>1. (CodeFiles \ left) \cup {f} = CodeFiles \ left'
      BY <2>1, <2>4
    <3> QED
      BY <1>1, <2>1, <2>2, <2>4, <3>1 DEF CallInv
  <2> QED
    BY <2>1, <2>3, <2>4
<1>4. ASSUME NEW f \in CodeFiles, ScanCalls(f)
      PROVE  CallInv'
  <2>1. /\ phase = "calls" /\ f \in left /\ UNCHANGED <<config, module_names, export_methods>>
        /\ calls' = calls \cup _parse_bsl_file(config.code[f], module_names, export_methods)
        /\ \/ left = {f} /\ phase' = "metadata"
           \/ left # {f} /\ phase' = "calls" /\ left' = left \ {f}
    BY <1>4 DEF ScanCalls, PassEnds
  <2>2. /\ module_names = NamesIn(CodeFiles) /\ export_methods = ExportsIn(CodeFiles)
        /\ calls = CallsIn(CodeFiles \ left)
    BY <2>1 DEF CallInv
  <2>3. calls' = CallsIn((CodeFiles \ left) \cup {f})
    BY <1>2, <2>1, <2>2
  <2>4. CASE left = {f} /\ phase' = "metadata"
    <3>1. (CodeFiles \ left) \cup {f} = CodeFiles
      BY <2>4
    <3> QED
      BY <1>1, <2>1, <2>2, <2>3, <2>4, <3>1 DEF CallInv
  <2>5. CASE left # {f} /\ phase' = "calls" /\ left' = left \ {f}
    <3>1. (CodeFiles \ left) \cup {f} = CodeFiles \ left'
      BY <2>1, <2>5
    <3> QED
      BY <1>1, <2>1, <2>2, <2>3, <2>5, <3>1 DEF CallInv
  <2> QED
    BY <2>1, <2>4, <2>5
<1>5. ASSUME phase \notin {"exports", "calls"}, phase' \notin {"exports", "calls"},
             UNCHANGED <<config, module_names, export_methods, calls>>,
             phase' = "answered" /\ query'.tool = "calls" =>
               answer' = {Converted(e) : e \in {x \in calls : Matches(x, query')}}
      PROVE  CallInv'
  <2>1. /\ module_names' = NamesIn(CodeFiles) /\ export_methods' = ExportsIn(CodeFiles)
        /\ calls' = CallsIn(CodeFiles)
    BY <1>5 DEF CallInv
  <2>2. phase' = "answered" /\ query'.tool = "calls" =>
           answer' = {Converted(e) : e \in {x \in calls' : Matches(x, query')}}
    BY <1>5
  <2> QED
    BY <1>1, <1>5, <2>1, <2>2 DEF CallInv
<1>6. ASSUME NEW o \in Objects, ScanMetadata(o)
      PROVE  CallInv'
  BY <1>5, <1>6 DEF ScanMetadata, PassEnds
<1>7. ASSUME NEW q \in DependencyQueries, AskDirect(q) \/ AskTransitive(q)
      PROVE  CallInv'
  <2>1. q.tool = "dependencies"
    BY AnalysisAssumption
  <2> QED
    BY <1>5, <1>7, <2>1 DEF AskDirect, AskTransitive, Idle, Reply, graphs
<1>8. ASSUME NEW q \in CallQueries, AskCalls(q)
      PROVE  CallInv'
  BY <1>5, <1>8 DEF AskCalls, Idle, graphs
<1>9. CASE Visit
  BY <1>5, <1>9 DEF Visit, graphs
<1>10. CASE WalkEnds
  <2>1. query.tool = "dependencies"
    BY <1>10, AnalysisAssumption DEF AnalysisInv, QueryInv, WalkEnds
  <2> QED
    BY <1>5, <1>10, <2>1 DEF WalkEnds, Reply, graphs
<1>11. CASE UNCHANGED vars
  BY <1>1, <1>11 DEF vars, graphs, walk, CallInv
<1> QED
  BY <1>3, <1>4, <1>6, <1>7, <1>8, <1>9, <1>10, <1>11 DEF Next

\* Whoever asks for the callers of a module or method gets every call of visible
\* names (beginning with a Cyrillic letter, of no module named like a platform
\* object) written in a readable file, under the method around it, and nothing that is no call but
\* the head of an Асинх method, whichever file was read first
\* (build_call_graph, CodebaseServer.call_graph).
THEOREM Callers == Spec => []CallersAreFound
<1>1. AnalysisInv /\ CallInv /\ [Next]_vars => (AnalysisInv /\ CallInv)'
  BY InvInductive, CallStep
<1>2. CallInv => CallersAreFound
  BY OwedIsFound, FoundIsACall DEF CallersAreFound
<1> QED
  BY <1>1, <1>2, StartsRight, CallStart, PTL DEF Spec

-----------------------------------------------------------------------------
(* Types *)

LEMMA EdgesOfFileType ==
  ASSUME NEW o \in Objects, NEW file \in MetadataFiles
  PROVE  EdgesOfFile(o, file) \subseteq DependencyEdges
<1>1. file.attributes \in Seq(Seq(Objects \cup {NoObject})) /\ file.recorder \in Objects \cup {NoObject}
  BY DEF MetadataFiles
<1>2. ASSUME NEW e \in AttributeEdges(o, file)
      PROVE  e \in DependencyEdges
  <2>1. PICK i \in DOMAIN file.attributes :
           /\ extract_type(file.attributes[i]) \notin {o, NoObject}
           /\ e = [source |-> o, target |-> extract_type(file.attributes[i]),
                   edge_type |-> "uses_attribute", detail |-> i]
    BY DEF AttributeEdges
  <2>2. file.attributes[i] \in Seq(Objects \cup {NoObject}) /\ i \in Nat
    BY <1>1
  <2>3. file.attributes[i] # <<>> /\ extract_type(file.attributes[i]) = file.attributes[i][1]
    BY <2>1, <2>2 DEF extract_type
  <2>4. file.attributes[i][1] \in Objects
    BY <2>1, <2>2, <2>3
  <2> QED
    BY <2>1, <2>2, <2>3, <2>4 DEF DependencyEdges
<1>3. _scan_recorder(o, file) \subseteq DependencyEdges
  BY <1>1 DEF _scan_recorder, DependencyEdges
<1> QED
  BY <1>2, <1>3 DEF EdgesOfFile

LEMMA TypesStep ==
  ASSUME TypeOK, AnalysisInv, AnalysisInv', [Next]_vars
  PROVE  TypeOK'
<1> USE DEF graphs, walk
<1>1. ASSUME NEW files, NEW next, NEW f \in left, PassEnds(f, files, next),
             files \subseteq CodeFiles \cup Objects
      PROVE  left' \subseteq CodeFiles \cup Objects /\ phase' \in {phase, next}
  BY <1>1 DEF PassEnds, TypeOK
<1>2. ASSUME NEW f \in CodeFiles, CollectExports(f)
      PROVE  TypeOK'
  <2>1. PassEnds(f, CodeFiles, "calls")
    BY <1>2 DEF CollectExports
  <2>2. left' \subseteq CodeFiles \cup Objects /\ phase' \in {phase, "calls"}
    BY <1>1, <1>2, <2>1 DEF CollectExports
  <2> QED
    BY <1>2, <2>2 DEF CollectExports, TypeOK
<1>3. ASSUME NEW f \in CodeFiles, ScanCalls(f)
      PROVE  TypeOK'
  <2>1. PassEnds(f, Objects, "metadata")
    BY <1>3 DEF ScanCalls
  <2>2. left' \subseteq CodeFiles \cup Objects /\ phase' \in {phase, "metadata"}
    BY <1>1, <1>3, <2>1 DEF ScanCalls
  <2> QED
    BY <1>3, <2>2 DEF ScanCalls, TypeOK
<1>4. ASSUME NEW o \in Objects, ScanMetadata(o)
      PROVE  TypeOK'
  <2>1. PassEnds(o, {}, "served")
    BY <1>4 DEF ScanMetadata
  <2>2. left' \subseteq CodeFiles \cup Objects /\ phase' \in {phase, "served"}
    BY <1>1, <1>4, <2>1 DEF ScanMetadata
  <2>3. config.metadata[o] \in MetadataFiles
    BY DEF AnalysisInv, GraphInv
  <2>4. EdgesOfFile(o, config.metadata[o]) \subseteq DependencyEdges
    BY <2>3, EdgesOfFileType
  <2>5. NodesOfFile(o, config.metadata[o]) \subseteq Objects
    BY <2>4 DEF NodesOfFile, DependencyEdges
  <2> QED
    BY <1>4, <2>2, <2>4, <2>5 DEF ScanMetadata, TypeOK
<1>5. ASSUME NEW q, AskDirect(q) \/ AskCalls(q)
      PROVE  TypeOK'
  <2>1. /\ queue' = <<>> /\ visited' = {} /\ result' = <<>>
        /\ phase' \in {"answered", "not_found"}
        /\ UNCHANGED <<config, left, edges, nodes>>
    BY <1>5 DEF AskDirect, AskCalls, Reply
  <2>2. \A S : <<>> \in Seq(S)
    OBVIOUS
  <2> QED
    BY <2>1, <2>2 DEF TypeOK
<1>6. ASSUME NEW q \in DependencyQueries, AskTransitive(q)
      PROVE  TypeOK'
  <2>1. q.root \in Objects
    BY AnalysisAssumption
  <2>2. queue' \in Seq([object : Objects, depth : Nat])
    BY <1>6, <2>1 DEF AskTransitive
  <2> QED
    BY <1>6, <2>2 DEF AskTransitive, TypeOK
\* The walk keeps its own types, as the invariant of walks says.
<1>7. CASE Visit
  <2>1. phase' = "walking" /\ UNCHANGED <<config, left, edges, nodes>>
    BY <1>7 DEF Visit
  <2>2. /\ result' \in Seq(Objects) /\ visited' = Range(result)'
        /\ queue' \in Seq([object : Objects, depth : Nat])
    BY <2>1 DEF AnalysisInv, WalkInv, Met, Queued
  <2>3. visited' \subseteq Objects
    BY <2>2 DEF Range
  <2> QED
    BY <2>1, <2>2, <2>3 DEF TypeOK
<1>8. CASE WalkEnds
  BY <1>8 DEF WalkEnds, Reply, TypeOK
<1>9. CASE UNCHANGED vars
  BY <1>9 DEF vars, TypeOK
<1> QED
  BY <1>2, <1>3, <1>4, <1>5, <1>6, <1>7, <1>8, <1>9 DEF Next

\* The types of Analysis, for any files and questions: what is in the graph and
\* in an answer are objects of the configuration (build_dependency_graph,
\* get_transitive_dependencies).
THEOREM Types == Spec => []TypeOK
<1>1. Init => TypeOK
  BY DEF Init, TypeOK
<1>2. AnalysisInv /\ [Next]_vars => AnalysisInv'
  BY InvInductive
<1>3. TypeOK /\ AnalysisInv /\ AnalysisInv' /\ [Next]_vars => TypeOK'
  BY TypesStep
<1> QED
  BY <1>1, <1>2, <1>3, StartsRight, PTL DEF Spec
=============================================================================
