----------------------------- MODULE CallGraph -----------------------------
(***************************************************************************)
(* How the code of a module becomes methods (parsers/bsl/module.py) and    *)
(* call edges (parsers/bsl/call_graph.py).  The two read the same text in  *)
(* different ways: one by regular expressions over the whole source, the   *)
(* other line by line, looking backwards for the procedure a line is in.   *)
(*                                                                         *)
(* A file of code is [readable, type, name, lines]: type and name are what *)
(* its path is taken for.  A line is [is, module, name, export, async]:    *)
(*   "def"    the head of a procedure or function `name`                   *)
(*   "end"    КонецПроцедуры, КонецФункции                                 *)
(*   "call"   a call of `name`, of another `module` or of none             *)
(*   "note"   the same call behind //                                      *)
(*   "blank"  an empty line                                                *)
(***************************************************************************)
EXTENDS Naturals, Sequences, FiniteSets

CONSTANTS CodeFiles,         \* the .bsl files of a configuration
          NoModule,          \* target_module None: a call of the module itself
          ModuleBody,        \* "<модуль>"
          STANDARD_OBJECTS,  \* names of platform objects
          BSL_KEYWORDS,      \* words of the language
          CyrillicNames      \* names that begin with a Cyrillic letter

Kinds == {"def", "end", "call", "note", "blank"}

Def(name, export, async) ==
    [is |-> "def", module |-> NoModule, name |-> name, export |-> export, async |-> async]
Call(module, name) ==
    [is |-> "call", module |-> module, name |-> name, export |-> FALSE, async |-> FALSE]
Note(module, name) == [Call(module, name) EXCEPT !.is = "note"]
End   == [Call(NoModule, "") EXCEPT !.is = "end"]
Blank == [Call(NoModule, "") EXCEPT !.is = "blank"]

----------------------------------------------------------------------------
(* module.py                                                                *)
Heads(lines) == {i \in DOMAIN lines : lines[i].is = "def"}

(* "^\s*" of the expression for a head also matches the empty lines before  *)
(* it, "\s*$" of the one for an end the empty lines after it.               *)
FirstLine(lines, head) ==
    CHOOSE i \in 1..head :
        /\ \A k \in i..(head - 1) : lines[k].is = "blank"
        /\ i = 1 \/ lines[i - 1].is # "blank"

Ends(lines, head) == {i \in head..Len(lines) : lines[i].is = "end"}

LastLine(lines, head) ==
    IF Ends(lines, head) = {} THEN FirstLine(lines, head)
    ELSE LET end == CHOOSE i \in Ends(lines, head) : \A k \in Ends(lines, head) : i <= k
         IN  CHOOSE i \in end..Len(lines) :
                /\ \A k \in (end + 1)..i : lines[k].is = "blank"
                /\ i = Len(lines) \/ lines[i + 1].is # "blank"

_extract_methods(lines) ==
    {[name |-> lines[h].name, is_export |-> lines[h].export, is_async |-> lines[h].async,
      start_line |-> FirstLine(lines, h), end_line |-> LastLine(lines, h)] : h \in Heads(lines)}

extract_export_methods(lines) == {m \in _extract_methods(lines) : m.is_export}

----------------------------------------------------------------------------
(* call_graph.py, pass 1: what a file contributes to export_methods.        *)
ExportsOf(file) ==
    IF file.readable THEN {<<file.name, m.name>> : m \in extract_export_methods(file.lines)}
    ELSE {}

(* The expression for a definition does not know Асинх, and the end of a    *)
(* procedure is not looked for.                                             *)
HeadsBefore(lines, i) == {h \in Heads(lines) : h <= i /\ ~lines[h].async}

\* Mutant: the first procedure of the file.
FirstProcedure(lines, i) ==
    IF HeadsBefore(lines, i) = {} THEN ModuleBody
    ELSE lines[CHOOSE h \in HeadsBefore(lines, i) : \A k \in HeadsBefore(lines, i) : h <= k].name

_find_current_procedure(lines, i) ==
    IF HeadsBefore(lines, i) = {} THEN ModuleBody
    ELSE lines[CHOOSE h \in HeadsBefore(lines, i) : \A k \in HeadsBefore(lines, i) : k <= h].name

CallEdge(file, i, target_module) ==
    [type |-> file.type, source_module |-> file.name,
     source_method |-> _find_current_procedure(file.lines, i),
     target_module |-> target_module, target_method |-> file.lines[i].name, line |-> i]

(* A name in front of the dot that is not taken for a module's, whatever    *)
(* modules there are.                                                       *)
Skipped(module) == module \in STANDARD_OBJECTS \cup BSL_KEYWORDS

(* Calls of other modules, whether the method exists there or not.  The     *)
(* expressions for calls know only names that begin with a Cyrillic letter. *)
CrossCalls(file, module_names) ==
    {CallEdge(file, i, file.lines[i].module) :
        i \in {k \in DOMAIN file.lines :
                  /\ file.lines[k].is = "call"
                  /\ {file.lines[k].module, file.lines[k].name} \subseteq CyrillicNames
                  /\ ~Skipped(file.lines[k].module)
                  /\ file.lines[k].module \in module_names}}

(* Anything that looks like a call of a method this module exports: the     *)
(* head of a method looks like one too, and so does the second half of a    *)
(* call of another module.  A recursive call is left out.                   *)
LocalCalls(file, export_methods) ==
    {CallEdge(file, i, NoModule) :
        i \in {k \in DOMAIN file.lines :
                  /\ file.lines[k].is \in {"call", "def"}
                  /\ file.lines[k].name \in CyrillicNames \ BSL_KEYWORDS
                  /\ file.lines[k].name # _find_current_procedure(file.lines, k)
                  /\ <<file.name, file.lines[k].name>> \in export_methods}}

_parse_bsl_file(file, module_names, export_methods) ==
    IF file.readable THEN CrossCalls(file, module_names) \cup LocalCalls(file, export_methods)
    ELSE {}
============================================================================
