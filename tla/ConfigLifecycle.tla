--------------------------- MODULE ConfigLifecycle ---------------------------
(***************************************************************************)
(* The life of a configuration: `1c-ai config add`, `build` and `remove`   *)
(* of cli_commands/config.py, run by several processes over one data       *)
(* directory, with users who edit the unpacked sources and processes that  *)
(* die between two steps.                                                  *)
(*                                                                         *)
(* Every file is written in two steps, truncated and filled; nothing is    *)
(* locked.  `config list` only prints and is left out.                     *)
(***************************************************************************)
EXTENDS ConfigRegistry, Sequences

CONSTANTS
  Procs,          \* processes that run commands
  Secondary,      \* the sequence of the indexes built after unified_metadata
  MaxCommands,    \* bound: commands of a behaviour
  MaxEvents       \* bound: unpackings and edits of sources

ASSUME ConfigAssumption ==
  /\ MaxCommands \in Nat /\ MaxEvents \in Nat
  /\ Secondary \in Seq(Indexes)
  /\ "unified_metadata" \notin Indexes

VARIABLES
  registry,       \* runtime/config-registry.json
  source,         \* config -> data/configs/{name}/{version}
  index,          \* config -> derived/configs/{name}/{version}
  proc,           \* process -> the command it runs
  now,            \* the time of the last event on sources
  commands,       \* how many commands were given
  raced           \* observed: commands met in a way the registry is not safe for

vars == <<registry, source, index, proc, now, commands, raced>>

AnyVersion == "any"
Command ==
  [op : {"add", "remove"}, name : Names, version : Versions, flag : BOOLEAN]
    \cup [op : {"build", "check"}, name : Names, version : Versions \cup {AnyVersion}, flag : BOOLEAN]

\* flag is --keep-data of remove and --force of build.
Commands == {k \in Command : k.op \in {"add", "check"} => ~k.flag}

Order == <<"unified_metadata">> \o Secondary

Phases == {"unpack", "extract", "register", "save", "rm_source", "rm_derived",
           "check", "skip", "build", "open_index", "write_index", "mark", "secondary"}

Nobody == [pc |-> "idle", cmd |-> [op |-> "none"], entries |-> NoEntries, todo |-> {}, cur |-> <<>>,
           read |-> [of |-> 0, at |-> 0], ix |-> 1, after |-> "idle", rc |-> 0, alone |-> TRUE]

Active(p) == proc[p].pc \in Phases
Target(p) == <<proc[p].cmd.name, proc[p].cmd.version>>

\* The registered configurations a build is asked for.
Selected(entries, k) ==
  {c \in Keys(entries) : c[1] = k.name /\ k.version \in {AnyVersion, c[2]}}

Become(p, r) == proc' = [proc EXCEPT ![p] = r]
Goto(p, s) == Become(p, [proc[p] EXCEPT !.pc = s])
Done(code) == [Nobody EXCEPT !.pc = "done", !.rc = code]
Return(p, code) == Become(p, Done(code))

-----------------------------------------------------------------------------
(* Starting a command: its registry is loaded *)

\* add and remove are not safe beside any command.
Meets(p, k) == \E q \in Procs \ {p} :
  Active(q) /\ (k.op \in {"add", "remove"} \/ proc[q].cmd.op \in {"add", "remove"})

FirstStep(k, entries) ==
  CASE k.op = "add" -> IF entries[<<k.name, k.version>>] # "none" THEN "error" ELSE "unpack"
    [] k.op = "remove" -> IF entries[<<k.name, k.version>>] = "none" THEN "error" ELSE "register"
    [] OTHER -> IF Selected(entries, k) = {} THEN "error"
                ELSE IF k.op = "check" THEN "check" ELSE IF k.flag THEN "build" ELSE "skip"

Begin(p) ==
  /\ ~Active(p)
  /\ commands < MaxCommands
  /\ commands' = commands + 1
  /\ \E k \in Commands :
       LET entries == Load(registry)
           step == IF Decodable(registry) THEN FirstStep(k, entries) ELSE "error"
           others == {q \in Procs \ {p} : Active(q)}
           fresh == [Nobody EXCEPT !.cmd = k, !.entries = entries, !.alone = others = {}, !.pc = step,
                       !.todo = IF k.op \in {"build", "check"} THEN Selected(entries, k) ELSE {}]
       IN /\ proc' = [q \in Procs |-> IF q = p THEN (IF step = "error" THEN Done(1) ELSE fresh)
                                      ELSE IF q \in others THEN [proc[q] EXCEPT !.alone = FALSE]
                                      ELSE proc[q]]
          /\ raced' = (raced \/ (step # "error" /\ Meets(p, k)))
  /\ UNCHANGED <<registry, source, index, now>>

-----------------------------------------------------------------------------
(* ConfigRegistry._save: write_text truncates the file and fills it *)

\* Two saves that overlap are not safe for the registry either.
StartSave(p, entries, r) ==
  /\ registry' = Torn
  /\ Become(p, [r EXCEPT !.entries = entries, !.after = r.pc, !.pc = "save"])
  /\ raced' = (raced \/ \E q \in Procs \ {p} : proc[q].pc = "save")

\* A file another process filled meanwhile is overwritten from its start on.
FinishSave(p) ==
  /\ proc[p].pc = "save"
  /\ \/ registry' = Whole(proc[p].entries)
     \/ registry.kind # "torn" /\ registry' = Torn
  /\ IF proc[p].after = "done" THEN Return(p, 0) ELSE Goto(p, proc[p].after)
  /\ UNCHANGED <<source, index, now, commands, raced>>

-----------------------------------------------------------------------------
(* config add *)

\* shutil.rmtree of what is there, mkdir.
Unpack(p) ==
  /\ proc[p].pc = "unpack"
  /\ source' = [source EXCEPT ![Target(p)] = EmptySource]
  /\ Goto(p, "extract")
  /\ UNCHANGED <<registry, index, now, commands, raced>>

\* Mutant: a damaged archive is registered as far as it was unpacked.
Tolerant == {"empty", "partial", "complete"}

\* What the archive leaves that add goes on with.
Accepted == {"complete"}

\* extractall and the search for Configuration.xml: an empty archive, a damaged
\* one, and one without exactly one Configuration.xml end the command.
Extract(p) ==
  /\ proc[p].pc = "extract"
  /\ now < MaxEvents
  /\ now' = now + 1
  /\ \E s \in {"empty", "partial", "complete"} :
       /\ source' = [source EXCEPT ![Target(p)] =
                       [state |-> s, of |-> IF s = "empty" THEN 0 ELSE now',
                        mtime |-> IF s = "empty" THEN 0 ELSE now', quiet |-> FALSE]]
       /\ IF s \in Accepted THEN Goto(p, "register") ELSE Return(p, 1)
  /\ UNCHANGED <<registry, index, commands, raced>>

-----------------------------------------------------------------------------
(* The registry's part of add and remove, and the rest of remove *)

Register(p) ==
  /\ proc[p].pc = "register"
  /\ LET k == proc[p].cmd IN
       IF k.op = "add"
         THEN StartSave(p, Add(proc[p].entries, Target(p)), [proc[p] EXCEPT !.pc = "done"])
         ELSE StartSave(p, Remove(proc[p].entries, Target(p)),
                        [proc[p] EXCEPT !.pc = IF k.flag THEN "done" ELSE "rm_source"])
  /\ UNCHANGED <<source, index, now, commands>>

\* Mutant: the sources go, the indexes stay.
KeepsIndexes(p) == UNCHANGED index

RemoveIndexes(p) == index' = [index EXCEPT ![Target(p)] = NoIndexes]

RmSource(p) ==
  /\ proc[p].pc = "rm_source"
  /\ source' = [source EXCEPT ![Target(p)] = NoSource]
  /\ Goto(p, "rm_derived")
  /\ UNCHANGED <<registry, index, now, commands, raced>>

RmDerived(p) ==
  /\ proc[p].pc = "rm_derived"
  /\ RemoveIndexes(p)
  /\ Return(p, 0)
  /\ UNCHANGED <<registry, source, now, commands, raced>>

-----------------------------------------------------------------------------
(* config build.  The entries come in the order of the file, here in any. *)

fresh_of(c) == freshness_check(source[c], index[c])

\* --check-freshness: each entry is tested and the answer saved at once.
Check(p) ==
  /\ proc[p].pc = "check"
  /\ \/ /\ proc[p].todo = {}
        /\ Return(p, 0)
        /\ UNCHANGED <<registry, raced>>
     \/ \E c \in proc[p].todo :
          StartSave(p, UpdateFreshness(proc[p].entries, c, fresh_of(c)["unified_metadata"]),
                    [proc[p] EXCEPT !.todo = @ \ {c}])
  /\ UNCHANGED <<source, index, now, commands>>

\* Without --force, the first fresh entry ends the command, successfully.
Skip(p) ==
  /\ proc[p].pc = "skip"
  /\ \E c \in proc[p].todo :
       IF fresh_of(c)["unified_metadata"] THEN Return(p, 0)
       ELSE IF proc[p].todo = {c}
         THEN Become(p, [proc[p] EXCEPT !.pc = "build", !.todo = Selected(proc[p].entries, proc[p].cmd)])
         ELSE Become(p, [proc[p] EXCEPT !.todo = @ \ {c}])
  /\ UNCHANGED <<registry, source, index, now, commands, raced>>

\* The sources are read for the index to be built next.
ReadSource(p, r) ==
  Become(p, [r EXCEPT !.read = [of |-> source[r.cur].of, at |-> now], !.pc = "open_index"])

\* build_metadata_index raises when the directory or Configuration.xml is missing
\* or the file is not valid.
Build(p) ==
  /\ proc[p].pc = "build"
  /\ \E c \in proc[p].todo :
       \/ source[c].state \in {"partial", "complete"}
            /\ ReadSource(p, [proc[p] EXCEPT !.cur = c, !.todo = @ \ {c}, !.ix = 1])
       \/ Return(p, 1)
  /\ UNCHANGED <<registry, source, index, now, commands, raced>>

SetIndex(p, v) == index' = [index EXCEPT ![proc[p].cur][Order[proc[p].ix]] = v]

\* save_*: open(path, "w") truncates, json.dump fills; parents are made anew.
OpenIndex(p) ==
  /\ proc[p].pc = "open_index"
  /\ SetIndex(p, [NoIndex EXCEPT !.state = "torn", !.mtime = now])
  /\ Goto(p, "write_index")
  /\ UNCHANGED <<registry, source, now, commands, raced>>

\* An index another process filled meanwhile may end up torn.
WriteIndex(p) ==
  /\ proc[p].pc = "write_index"
  /\ \/ SetIndex(p, [state |-> "whole", of |-> proc[p].read.of, read |-> proc[p].read.at, mtime |-> now])
     \/ /\ index[proc[p].cur][Order[proc[p].ix]].state # "torn"
        /\ SetIndex(p, [NoIndex EXCEPT !.state = "torn", !.mtime = now])
  /\ Goto(p, IF proc[p].ix = 1 THEN "mark" ELSE "secondary")
  /\ UNCHANGED <<registry, source, now, commands, raced>>

\* registry.update_freshness(name, version, True), as soon as unified_metadata is saved.
Mark(p) ==
  /\ proc[p].pc = "mark"
  /\ StartSave(p, UpdateFreshness(proc[p].entries, proc[p].cur, TRUE), [proc[p] EXCEPT !.pc = "secondary"])
  /\ UNCHANGED <<source, index, now, commands>>

\* api-reference, call-graph, dependency-graph: an exception in one is printed
\* and the next is built.
BuildSecondary(p) ==
  /\ proc[p].pc = "secondary"
  /\ \/ /\ proc[p].ix = Len(Order)
        /\ IF proc[p].todo = {} THEN Return(p, 0) ELSE Goto(p, "build")
     \/ /\ proc[p].ix < Len(Order)
        /\ \/ ReadSource(p, [proc[p] EXCEPT !.ix = @ + 1])
           \/ Become(p, [proc[p] EXCEPT !.ix = @ + 1])
  /\ UNCHANGED <<registry, source, index, now, commands, raced>>

-----------------------------------------------------------------------------
(* The environment *)

\* A process dies.  What it was writing stays as it is: an archive unpacked in
\* part, a directory removed in part, a file without its end.
Crash(p) ==
  /\ Active(p)
  /\ Become(p, [Nobody EXCEPT !.pc = "crashed"])
  /\ IF proc[p].pc = "save" /\ registry = Torn THEN registry' \in {Torn, Cut} ELSE UNCHANGED registry
  /\ IF proc[p].pc \in {"unpack", "extract", "rm_source"}
       THEN \E s \in {source[Target(p)].state, "partial"} :
              source' = [source EXCEPT ![Target(p)].state = IF @ = "none" THEN @ ELSE s]
       ELSE UNCHANGED source
  /\ UNCHANGED <<index, now, commands, raced>>

\* The sources are edited, at a new time or at the time of the last event.
Disturbs == proc' = [p \in Procs |-> IF Active(p) THEN [proc[p] EXCEPT !.alone = FALSE] ELSE proc[p]]

Edit(c) ==
  /\ source[c].state = "complete"
  /\ now < MaxEvents
  /\ now' = now + 1
  /\ \E t \in {now, now + 1} : source' = [source EXCEPT ![c].of = now', ![c].mtime = t]
  /\ Disturbs
  /\ UNCHANGED <<registry, index, commands, raced>>

\* A file is deleted, or replaced by one that brings its older time along: no
\* file has a new time.
EditQuietly(c) ==
  /\ source[c].state = "complete"
  /\ now < MaxEvents
  /\ now' = now + 1
  /\ source' = [source EXCEPT ![c].of = now', ![c].quiet = TRUE]
  /\ Disturbs
  /\ UNCHANGED <<registry, index, commands, raced>>

-----------------------------------------------------------------------------
Init ==
  /\ registry = NoFile
  /\ source = [c \in Configs |-> NoSource]
  /\ index = [c \in Configs |-> NoIndexes]
  /\ proc = [p \in Procs |-> Nobody]
  /\ now = 0 /\ commands = 0 /\ raced = FALSE

Step(p) ==
  \/ FinishSave(p) \/ Unpack(p) \/ Extract(p) \/ Register(p) \/ RmSource(p) \/ RmDerived(p)
  \/ Check(p) \/ Skip(p) \/ Build(p) \/ OpenIndex(p) \/ WriteIndex(p) \/ Mark(p) \/ BuildSecondary(p)

Next ==
  \/ \E p \in Procs : Begin(p) \/ Step(p) \/ Crash(p)
  \/ \E c \in Configs : Edit(c) \/ EditQuietly(c)

Spec == Init /\ [][Next]_vars

-----------------------------------------------------------------------------
(* Properties *)

TypeOK ==
  /\ registry \in RegistryFile
  /\ source \in [Configs -> Source]
  /\ index \in [Configs -> [AllIndexes -> Index]]
  /\ \A p \in Procs :
       /\ proc[p].pc \in Phases \cup {"idle", "done", "crashed"}
       /\ proc[p].entries \in [Configs -> Flags]
       /\ proc[p].todo \subseteq Keys(proc[p].entries)
       /\ proc[p].ix \in 1..Len(Order)
       /\ Active(p) => proc[p].cmd \in Commands
  /\ now \in 0..MaxEvents /\ commands \in 0..MaxCommands /\ raced \in BOOLEAN

\* What the registry holds, the write under way included.
Registered ==
  IF registry.kind = "ok" THEN Keys(registry.entries)
  ELSE UNION {Keys(proc[p].entries) : p \in {q \in Procs : proc[q].pc = "save"}}

\* What is registered is there, completely unpacked, whatever dies when: add
\* registers last, remove unregisters first.
RegisteredIsUsable == ~raced => \A c \in Registered : source[c].state = "complete"

\* An index that freshness_check calls fresh, and that was written to its end,
\* was built from the sources as they are, unless they were edited while it was
\* being built, or in a way that leaves no newer time.
FreshIsCurrent ==
  ~raced => \A c \in Registered, i \in AllIndexes :
    fresh_of(c)[i] /\ index[c][i].state = "whole" =>
      \/ index[c][i].of = source[c].of
      \/ source[c].mtime \in index[c][i].read..index[c][i].mtime
      \/ source[c].quiet

\* An entry disappears by a remove of that very configuration, or all of them
\* with a process that dies while it writes the registry: builds and checks of
\* any number of processes lose none, as long as no two of them write at once.
EntriesKept ==
  [][~raced' => \A c \in Registered \ Registered' :
       \E p \in Procs : \/ proc[p].pc = "register" /\ proc[p].cmd.op = "remove" /\ c = Target(p)
                        \/ proc[p].pc = "save" /\ proc'[p].pc = "crashed"]_vars

\* A command nothing interfered with, and that says it succeeded, did what it is
\* for: the configuration is there, is gone with its indexes, or every selected
\* version has a complete index of its present sources and is marked fresh.
SuccessIsReal ==
  [][\A p \in Procs :
       Active(p) /\ proc'[p].pc = "done" /\ proc'[p].rc = 0 /\ proc[p].alone =>
         LET k == proc[p].cmd IN
         CASE k.op = "add" -> Target(p) \in Registered' /\ source'[Target(p)].state = "complete"
           [] k.op = "remove" -> /\ Target(p) \notin Registered'
                                 /\ k.flag \/ (/\ source'[Target(p)] = NoSource
                                               /\ index'[Target(p)] = NoIndexes)
           [] k.op = "build" /\ proc[p].pc # "skip" ->
                \A c \in Selected(proc[p].entries, k) :
                  /\ index'[c]["unified_metadata"].state = "whole"
                  /\ index'[c]["unified_metadata"].of = source'[c].of
                  /\ registry'.entries[c] = "fresh"
           [] OTHER -> TRUE]_vars

-----------------------------------------------------------------------------
\* config.py:185: without --force a build checks freshness and skips the fresh:
\* after its success every version it was asked for is fresh.
BuildSkipsOnlyFresh ==
  [][\A p \in Procs :
       Active(p) /\ proc'[p].pc = "done" /\ proc'[p].rc = 0 /\ proc[p].alone /\ proc[p].cmd.op = "build" =>
         \A c \in Selected(proc[p].entries, proc[p].cmd) : fresh_of(c)'["unified_metadata"]]_vars

=============================================================================
