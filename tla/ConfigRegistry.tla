--------------------------- MODULE ConfigRegistry ---------------------------
(***************************************************************************)
(* The registry of loaded configurations, runtime/config-registry.json, of *)
(* data_layer/config_registry.py, and the freshness test of                *)
(* data_layer/freshness.py that its is_fresh field repeats.                *)
(*                                                                         *)
(* An instance reads the file once, when it is made; every change writes   *)
(* the whole file from the instance's own entries.                         *)
(***************************************************************************)
EXTENDS Integers, FiniteSets

CONSTANTS
  Names,          \* names of configurations
  Versions,       \* their versions
  Indexes         \* the indexes freshness_check names, without unified_metadata

Configs == Names \X Versions

\* The state of an entry: absent, or its is_fresh (None, False, True).
Flags == {"none", "unknown", "stale", "fresh"}
NoEntries == [c \in Configs |-> "none"]
Keys(entries) == {c \in Configs : entries[c] # "none"}

(* The file: not there, complete, or ended early by a write that did not   *)
(* finish: "torn" is not JSON, "cut" ends inside a character.              *)
RegistryFile == [kind : {"absent", "ok", "torn", "cut"}, entries : [Configs -> Flags]]
NoFile == [kind |-> "absent", entries |-> NoEntries]
Whole(entries) == [kind |-> "ok", entries |-> entries]
Torn == [kind |-> "torn", entries |-> NoEntries]
Cut == [kind |-> "cut", entries |-> NoEntries]

\* A file that cannot be decoded is no JSONDecodeError and no OSError: the
\* exception leaves the constructor.
Decodable(file) == file.kind # "cut"

\* _load: a file that is not JSON is logged and read as an empty registry.
Load(file) == file.entries

Add(entries, c) == [entries EXCEPT ![c] = "unknown"]

\* Mutant: every version of the name is removed.
RemoveName(entries, c) == [d \in Configs |-> IF d[1] = c[1] THEN "none" ELSE entries[d]]

Remove(entries, c) == [entries EXCEPT ![c] = "none"]
UpdateFreshness(entries, c, fresh) == [entries EXCEPT ![c] = IF fresh THEN "fresh" ELSE "stale"]

-----------------------------------------------------------------------------
(* Sources and indexes.  A content is named by the event that produced it; *)
(* mtime 0 stands for a directory without files.                           *)

Source == [state : {"none", "empty", "partial", "complete"}, of : Nat, mtime : Nat, quiet : BOOLEAN]
NoSource == [state |-> "none", of |-> 0, mtime |-> 0, quiet |-> FALSE]
EmptySource == [NoSource EXCEPT !.state = "empty"]

\* What an index was built from, when that was read, and when it was written.
Index == [state : {"absent", "torn", "whole"}, of : Nat, read : Nat, mtime : Nat]
NoIndex == [state |-> "absent", of |-> 0, read |-> 0, mtime |-> 0]

AllIndexes == {"unified_metadata"} \cup Indexes
NoIndexes == [i \in AllIndexes |-> NoIndex]

\* Mutant: an index is fresh when it exists.
FreshWhenThere(source, index) == index.state # "absent"

\* is_fresh: only the times of the files are looked at.
is_fresh(source, index) ==
  /\ index.state # "absent"
  /\ source.mtime # 0 => index.mtime >= source.mtime

\* PathManager.freshness_check.
freshness_check(source, indexes) ==
  [i \in AllIndexes |-> source.state # "none" /\ is_fresh(source, indexes[i])]

=============================================================================
