----------------------------- MODULE MCAnalysis -----------------------------
(* Analysis on small configurations for TLC.                               *)
EXTENDS Analysis, TLC

CONSTANTS a, b, c, d, x, y, none

MCObjects == {a, b, c, d, x, y}

File(attributes) == [fate |-> "fine", attributes |-> attributes, recorder |-> none]
Torn == [File(<<>>) EXCEPT !.fate = "torn"]
Register(attributes, doc) == [File(attributes) EXCEPT !.recorder = doc]

(* Every graph of a, b, c with up to two references each, cycles included,  *)
(* composite and primitive types, a torn file, a register.                  *)
RefLists == {<<>>, <<<<a>>>>, <<<<b>>>>, <<<<c>>>>, <<<<a>>, <<b>>>>, <<<<b>>, <<c>>>>,
             <<<<c>>, <<a>>>>, <<<<b, a>>, <<none>>>>, <<<<c>>, <<c>>>>}
SmallFiles == {File(r) : r \in RefLists}
SmallGraphs ==
    {(a :> fa) @@ (b :> fb) @@ (c :> fc) @@ (d :> fd) @@ (x :> File(<<>>)) @@ (y :> File(<<>>)) :
        fa \in SmallFiles \cup {Torn}, fb \in SmallFiles, fc \in SmallFiles,
        fd \in {Register(<<<<a>>>>, a)}}

(* A diamond in which the longer way must not cut off what lies beyond the  *)
(* shorter one: a -> b -> x -> y and a -> c -> d -> x.                      *)
Diamond ==
    (a :> File(<<<<b>>, <<c>>>>)) @@ (b :> File(<<<<x>>>>)) @@ (c :> File(<<<<d>>>>))
    @@ (d :> File(<<<<x>>>>)) @@ (x :> File(<<<<y>>>>)) @@ (y :> Torn)

MCDependencyQueries ==
    [tool : {"dependencies"}, root : {a, b, d, x}, direction : {"depends_on", "depended_by"},
     depth : 1..3]

----------------------------------------------------------------------------
(* Two common modules, or a module and the module of an object, that call   *)
(* each other and themselves.                                               *)
Code(type, name, lines) == [readable |-> TRUE, type |-> type, name |-> name, lines |-> lines]
Unreadable(file) == [file EXCEPT !.readable = FALSE]

Plain(name, other) == Code("CommonModule", name,
    <<Def("Run", TRUE, FALSE), Call(other, "Do"), End, Blank, Def("Do", FALSE, FALSE), Call(NoModule, "Run"),
      Note(other, "Run"), End>>)
Bodied(name, other) == Code("CommonModule", name,
    <<Blank, Def("Do", TRUE, FALSE), Call(NoModule, "Do"), Call(other, "Run"), End, Blank, Call(other, "Do")>>)
Async(name, other) == Code("CommonModule", name,
    <<Def("Do", TRUE, FALSE), Note(NoModule, "Run"), End, Def("Run", TRUE, TRUE), Call(other, "Do"), End>>)
AsyncFirst(name, other) == Code("CommonModule", name,
    <<Def("Run", TRUE, TRUE), Call(other, "Do"), End, Blank, Def("Do", TRUE, FALSE), Call(NoModule, "Run"), End>>)
OfObject(name, other) == Code("Catalog", name,
    <<Def("Do", TRUE, FALSE), Call("Elsewhere", "Do"), Call(other, "Run"), End>>)

(* A method whose name the scan for calls does not know.                    *)
Latin(name, other) == Code("CommonModule", name,
    <<Def("Do", TRUE, FALSE), Call(NoModule, "main"), Call(other, "main"), End,
      Def("main", TRUE, FALSE), Call(other, "Do"), Call(NoModule, "Do"), End>>)

(* "Users" is also a platform object, "Lib" does not begin with a Cyrillic  *)
(* letter.                                                                  *)
MCCyrillicNames == {"M", "N", "Users", "Do", "Run"}

MCSources ==
    LET of(m, n) == {Plain(m, n), Bodied(m, n), Async(m, n), AsyncFirst(m, n), OfObject(m, n), Latin(m, n),
                     Unreadable(Plain(m, n))}
    IN  [{"f1"} -> of("M", "N")] \X [{"f2"} -> of("N", "M") \cup of("M", "M")]
        \cup UNION {[{"f1"} -> of("M", n)] \X [{"f2"} -> {Plain(n, "M"), Latin(n, "M")}] : n \in {"Users", "Lib"}}

NoCode == ("f1" :> Unreadable(Plain("M", "N"))) @@ ("f2" :> Unreadable(Plain("N", "M")))
NoMetadata == [o \in MCObjects |-> File(<<>>)]

MCConfigurations ==
    {[metadata |-> g, code |-> NoCode] : g \in SmallGraphs \cup {Diamond}}
    \cup {[metadata |-> NoMetadata, code |-> s[1] @@ s[2]] : s \in MCSources}

MCCallQueries ==
    [tool : {"calls"}, type : {"CommonModule", "Catalog"}, name : {"M", "N", "Users", "Lib"},
     method : {"", "Do", "Run", "main"}]
============================================================================
