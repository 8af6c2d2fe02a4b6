-------------------------- MODULE DependencyGraph --------------------------
(***************************************************************************)
(* How `config build` turns the XML files of a configuration into the      *)
(* graph of metadata references, and the one-hop questions asked of it     *)
(* (parsers/xml/dependency_graph.py, _xml_utils.py).                       *)
(*                                                                         *)
(* A metadata file is [fate, attributes, recorder].  "torn": parse_xml or  *)
(* find_child gets nothing out of it.  An attribute is the sequence of     *)
(* types of its <Type> element (several for a composite type): objects, or *)
(* NoObject for anything that is not a reference.  Only registers have a   *)
(* recorder.  Edges are a set: their order in the JSON list is that of the *)
(* directory listing and tells nothing.                                    *)
(***************************************************************************)
EXTENDS Naturals, Sequences

CONSTANTS Objects,      \* "Catalog.Товары", ...
          NoObject      \* a primitive type; no recorder

ASSUME NoObjectAssumption == NoObject \notin Objects

MetadataFiles ==
    [fate : {"fine", "torn"}, attributes : Seq(Seq(Objects \cup {NoObject})),
     recorder : Objects \cup {NoObject}]

DependencyEdges ==
    [source : Objects, target : Objects, edge_type : {"uses_attribute", "registered_by"},
     detail : Nat]

----------------------------------------------------------------------------
(* extract_type answers the first type of a composite one and drops the     *)
(* others; no type at all is "Неизвестно".                                  *)
extract_type(attribute) == IF attribute = <<>> THEN NoObject ELSE Head(attribute)

(* The references of the attributes; one to the object itself is skipped.   *)
AttributeEdges(o, file) ==
    {[source |-> o, target |-> extract_type(file.attributes[i]),
      edge_type |-> "uses_attribute", detail |-> i] :
        i \in {k \in DOMAIN file.attributes :
                  extract_type(file.attributes[k]) \notin {o, NoObject}}}

_scan_recorder(o, file) ==
    IF file.recorder = NoObject THEN {}
    ELSE {[source |-> o, target |-> file.recorder,
           edge_type |-> "registered_by", detail |-> 0]}

(* What one file adds to the graph.  Any exception is swallowed.            *)
EdgesOfFile(o, file) ==
    IF file.fate = "torn" THEN {} ELSE AttributeEdges(o, file) \cup _scan_recorder(o, file)

(* The object is a node whether or not its file can be read.                *)
NodesOfFile(o, file) == {o} \cup {e.target : e \in EdgesOfFile(o, file)}

----------------------------------------------------------------------------
get_dependencies(edges, o) == {e \in edges : e.source = o}
get_dependents(edges, o)   == {e \in edges : e.target = o}

(* The edges of one object in the direction of a question, and the object   *)
(* at the far end of such an edge.                                          *)
EdgesAt(edges, o, direction) ==
    IF direction = "depends_on" THEN get_dependencies(edges, o) ELSE get_dependents(edges, o)

FarEnd(e, direction) == IF direction = "depends_on" THEN e.target ELSE e.source

(* dependencies_map, dependents_map: the neighbours of an object.           *)
Neighbours(edges, o, direction) == {FarEnd(e, direction) : e \in EdgesAt(edges, o, direction)}
============================================================================
