---------------------------- MODULE ConfigProofs ----------------------------
(***************************************************************************)
(* What the registry, the sources and the indexes of the configurations    *)
(* promise each other, for any number of processes, configurations,        *)
(* versions and indexes, and any number of commands and edits.             *)
(***************************************************************************)
EXTENDS ConfigLifecycle, SequenceTheorems, TLAPS

-----------------------------------------------------------------------------
(* The inductive invariant *)

Process ==
  [pc : Phases \cup {"idle", "done", "crashed"}, cmd : Commands \cup {[op |-> "none"]},
   entries : [Configs -> Flags], todo : SUBSET Configs, cur : Configs \cup {<<>>},
   read : [of : Nat, at : Nat], ix : 1..Len(Order), after : Phases \cup {"idle", "done"},
   rc : {0, 1}, alone : BOOLEAN]

TypeInv ==
  /\ registry \in RegistryFile
  /\ registry.kind # "ok" => registry.entries = NoEntries
  /\ source \in [Configs -> Source]
  /\ index \in [Configs -> [AllIndexes -> Index]]
  /\ proc \in [Procs -> Process]
  /\ now \in 0..MaxEvents /\ commands \in 0..MaxCommands /\ raced \in BOOLEAN

\* A process at an index, from the reading of its sources on.
Indexing(r) ==
  r.pc \in {"open_index", "write_index", "mark", "secondary"} \/ (r.pc = "save" /\ r.cmd.op = "build")

\* The operations whose steps a phase belongs to, and where a save returns to.
OpsAt(r) ==
  CASE r.pc \in {"unpack", "extract"} -> {"add"}
    [] r.pc = "register" -> {"add", "remove"}
    [] r.pc \in {"rm_source", "rm_derived"} -> {"remove"}
    [] r.pc = "check" -> {"check"}
    [] r.pc = "save" -> {"add", "remove", "check", "build"}
    [] OTHER -> {"build"}

AfterSave(k) ==
  CASE k.op = "add" -> "done"
    [] k.op = "remove" -> IF k.flag THEN "done" ELSE "rm_source"
    [] k.op = "check" -> "check"
    [] OTHER -> "secondary"

Place(r) ==
  r.pc \in Phases =>
    /\ r.cmd \in Commands
    /\ r.cmd.op \in OpsAt(r)
    /\ r.pc = "save" => r.after = AfterSave(r.cmd)
    /\ r.pc \in {"rm_source", "rm_derived"} => ~r.cmd.flag
    /\ r.cmd.op \in {"build", "check"} => r.todo \subseteq Selected(r.entries, r.cmd)
    /\ Indexing(r) => r.cur \in Selected(r.entries, r.cmd) \ r.todo
    /\ r.pc = "mark" \/ (r.pc = "save" /\ r.cmd.op = "build") => r.ix = 1

PlaceInv == \A p \in Procs : Place(proc[p])

\* Only builds and checks have versions to do.
TodoInv == \A p \in Procs :
  proc[p].todo # {} => proc[p].pc \in Phases /\ proc[p].cmd.op \in {"build", "check"}

\* Two commands at a time: both know, and neither changes what is registered
\* unless they raced.
MeetInv ==
  \A p \in Procs : \A q \in Procs \ {p} :
    Active(p) /\ Active(q) =>
      /\ ~proc[p].alone
      /\ ~raced => proc[p].cmd.op \in {"build", "check"}

\* Who saves alone finds the file as it left it, truncated.
SaveInv ==
  \A p \in Procs : proc[p].pc = "save" =>
    /\ proc[p].alone \/ ~raced => registry = Torn
    /\ ~raced => \A q \in Procs \ {p} : proc[q].pc # "save"

\* All running commands have the same configurations registered, and the file
\* has them too whenever it is complete.
KeysInv ==
  ~raced => \A p \in Procs : Active(p) =>
    /\ \A q \in Procs : Active(q) => Keys(proc[p].entries) = Keys(proc[q].entries)
    /\ registry.kind = "ok" => Keys(proc[p].entries) = Keys(registry.entries)

\* add works on a configuration that is not registered, and remove goes on with
\* one that no longer is.
Outside(r) ==
  \/ r.pc \in {"unpack", "extract"}
  \/ r.pc = "register" /\ r.cmd.op = "add"
  \/ r.pc \in {"save", "rm_source", "rm_derived"} /\ r.cmd.op = "remove"

UsableInv ==
  ~raced =>
    /\ \A c \in Keys(registry.entries) : source[c].state = "complete"
    /\ \A p \in Procs : Active(p) =>
         /\ \A c \in Keys(proc[p].entries) : source[c].state = "complete"
         /\ Outside(proc[p]) => Target(p) \notin Keys(proc[p].entries)
         /\ proc[p].pc = "register" => source[Target(p)].state = "complete"

\* Something read at the time t is what is there, unless an edit was later or
\* left no time.
Current(c, of, t) ==
  source[c].state = "complete" => of = source[c].of \/ source[c].quiet \/ source[c].mtime >= t

TimeInv ==
  /\ \A c \in Configs :
       /\ source[c].mtime <= now
       /\ source[c].state = "complete" => source[c].mtime >= 1
       /\ \A i \in AllIndexes : index[c][i].state = "whole" =>
            index[c][i].read <= now /\ Current(c, index[c][i].of, index[c][i].read)
  /\ \A p \in Procs : proc[p].pc \in {"open_index", "write_index"} =>
       proc[p].read.at <= now /\ Current(proc[p].cur, proc[p].read.of, proc[p].read.at)

\* The first index of c is whole and of what is there.
Built(c) ==
  /\ index[c]["unified_metadata"].state = "whole"
  /\ index[c]["unified_metadata"].of = source[c].of

\* What a command that nothing interfered with has done so far.
Undisturbed(p) ==
  LET r == proc[p] IN
  /\ r.pc # "save" => registry.entries = r.entries
  /\ r.cmd.op = "add" /\ r.pc \in {"register", "save"} => source[Target(p)].state = "complete"
  /\ r.cmd.op = "add" /\ r.pc = "save" => r.entries[Target(p)] # "none"
  /\ r.cmd.op = "remove" /\ r.pc \in {"save", "rm_source", "rm_derived"} => r.entries[Target(p)] = "none"
  /\ r.pc \in {"rm_source", "rm_derived"} => registry.kind = "ok"
  /\ r.pc = "rm_derived" => source[Target(p)] = NoSource

\* What a build that nothing interfered with has done so far: all versions but
\* those to do and the one under way are indexed and marked.
BuiltSoFar(p) ==
  LET r == proc[p] IN
  /\ r.pc = "build" \/ Indexing(r) =>
       \A c \in Selected(r.entries, r.cmd) \ r.todo :
         (Indexing(r) => c # r.cur) => Built(c) /\ r.entries[c] = "fresh"
  /\ r.pc \in {"open_index", "write_index"} /\ r.ix = 1 => r.read.of = source[r.cur].of
  /\ r.pc = "write_index" => index[r.cur][Order[r.ix]].state = "torn"
  /\ r.pc = "mark" => Built(r.cur)
  /\ Indexing(r) /\ (r.ix > 1 \/ r.pc \in {"save", "secondary"}) => Built(r.cur) /\ r.entries[r.cur] = "fresh"

AloneInv == \A p \in Procs : Active(p) /\ proc[p].alone => Undisturbed(p) /\ BuiltSoFar(p)

ConfigInv ==
  /\ TypeInv /\ PlaceInv /\ TodoInv /\ MeetInv /\ SaveInv /\ KeysInv
  /\ UsableInv /\ TimeInv /\ AloneInv

-----------------------------------------------------------------------------
(* Constants and records *)

LEMMA OrderFacts ==
  /\ Len(Order) \in Nat /\ 1 \in 1..Len(Order)
  /\ Order[1] = "unified_metadata" /\ "unified_metadata" \in AllIndexes
  /\ \A k \in 1..Len(Order) : Order[k] \in AllIndexes /\ (k > 1 => Order[k] # "unified_metadata")
<1>1. <<"unified_metadata">> \in Seq(AllIndexes) /\ Secondary \in Seq(AllIndexes)
  BY ConfigAssumption DEF AllIndexes
<1>2. Len(Order) = 1 + Len(Secondary) /\ Len(Secondary) \in Nat
  BY <1>1 DEF Order
<1>3. Order[1] = "unified_metadata"
  BY <1>1 DEF Order
<1>4. ASSUME NEW k \in 1..Len(Order), k > 1
      PROVE  Order[k] \in Indexes
  <2>1. k - 1 \in 1..Len(Secondary) /\ Order[k] = Secondary[k - 1]
    BY <1>1, <1>2, <1>4 DEF Order
  <2> QED
    BY <2>1, ConfigAssumption
<1> QED
  BY <1>2, <1>3, <1>4, ConfigAssumption DEF AllIndexes

LEMMA CommandFacts ==
  ASSUME NEW k \in Commands
  PROVE  /\ k.op \in {"add", "remove", "build", "check"}
         /\ k.flag \in BOOLEAN
         /\ k.op \in {"add", "remove"} => <<k.name, k.version>> \in Configs
  BY DEF Commands, Command, Configs

\* A step of a process needs its process, and is a step of no other.
Moves(p) ==
  /\ Active(p)
  /\ \A q \in Procs \ {p} : proc'[q] = proc[q]
  /\ commands' = commands /\ (raced => raced')

LEMMA StepMoves ==
  ASSUME TypeInv, NEW p \in Procs, Step(p) \/ Crash(p)
  PROVE  Moves(p)
<1> USE DEF TypeInv, Moves, Active, Phases, Become, Goto, Return, StartSave
<1>1. CASE Crash(p)
  BY <1>1 DEF Crash
<1>2. CASE FinishSave(p)
  BY <1>2 DEF FinishSave
<1>3. CASE Unpack(p) \/ Extract(p)
  BY <1>3 DEF Unpack, Extract
<1>4. CASE Register(p)
  BY <1>4 DEF Register
<1>5. CASE RmSource(p) \/ RmDerived(p)
  BY <1>5 DEF RmSource, RmDerived
<1>6. CASE Check(p)
  BY <1>6 DEF Check
<1>7. CASE Skip(p)
  BY <1>7 DEF Skip
<1>8. CASE Build(p) \/ BuildSecondary(p)
  BY <1>8 DEF Build, BuildSecondary, ReadSource
<1>9. CASE OpenIndex(p) \/ WriteIndex(p)
  BY <1>9 DEF OpenIndex, WriteIndex
<1>10. CASE Mark(p)
  BY <1>10 DEF Mark
<1> QED
  BY <1>1, <1>2, <1>3, <1>4, <1>5, <1>6, <1>7, <1>8, <1>9, <1>10 DEF Step

LEMMA IdleProcess ==
  /\ Nobody \in Process
  /\ \A code \in {0, 1} : Done(code) \in Process
  /\ [Nobody EXCEPT !.pc = "crashed"] \in Process
  BY OrderFacts DEF Nobody, Done, Process, Phases, NoEntries, Flags

\* What the steps make of a record.
LEMMA Updates ==
  ASSUME NEW r \in Process
  PROVE  /\ \A s \in Phases \cup {"done"} : [r EXCEPT !.pc = s] \in Process
         /\ \A e \in [Configs -> Flags], s \in Phases \cup {"idle", "done"} :
              [r EXCEPT !.entries = e, !.after = s, !.pc = "save"] \in Process
         /\ \A t \in SUBSET Configs : [r EXCEPT !.todo = t] \in Process
         /\ \A s \in Phases, t \in SUBSET Configs : [r EXCEPT !.pc = s, !.todo = t] \in Process
         /\ \A c \in Configs, t \in SUBSET Configs : [r EXCEPT !.cur = c, !.todo = t, !.ix = 1] \in Process
         /\ r.ix < Len(Order) => [r EXCEPT !.ix = @ + 1] \in Process
         /\ \A d \in [of : Nat, at : Nat] : [r EXCEPT !.read = d, !.pc = "open_index"] \in Process
         /\ [r EXCEPT !.alone = FALSE] \in Process
<1>1. \A s \in Phases \cup {"done"} : [r EXCEPT !.pc = s] \in Process
  BY DEF Process
<1>2. \A e \in [Configs -> Flags], s \in Phases \cup {"idle", "done"} :
        [r EXCEPT !.entries = e, !.after = s, !.pc = "save"] \in Process
  <2>1. "save" \in Phases
    BY DEF Phases
  <2> QED
    BY <2>1 DEF Process
<1>3. \A t \in SUBSET Configs : [r EXCEPT !.todo = t] \in Process
  BY DEF Process
<1>4. \A s \in Phases, t \in SUBSET Configs : [r EXCEPT !.pc = s, !.todo = t] \in Process
  BY DEF Process
<1>5. \A c \in Configs, t \in SUBSET Configs : [r EXCEPT !.cur = c, !.todo = t, !.ix = 1] \in Process
  BY OrderFacts DEF Process
<1>6. r.ix < Len(Order) => [r EXCEPT !.ix = @ + 1] \in Process
  BY OrderFacts DEF Process
<1>7. \A d \in [of : Nat, at : Nat] : [r EXCEPT !.read = d, !.pc = "open_index"] \in Process
  BY DEF Process, Phases
<1>8. [r EXCEPT !.alone = FALSE] \in Process
  BY DEF Process
<1> QED
  BY <1>1, <1>2, <1>3, <1>4, <1>5, <1>6, <1>7, <1>8

-----------------------------------------------------------------------------
(* Types *)

\* A step to a record keeps the type of the processes.
LEMMA BecomeType ==
  ASSUME TypeInv, NEW p \in Procs
  PROVE  /\ \A r \in Process : Become(p, r) => proc' \in [Procs -> Process]
         /\ \A s \in Phases \cup {"done"} : Goto(p, s) => proc' \in [Procs -> Process]
         /\ \A code \in {0, 1} : Return(p, code) => proc' \in [Procs -> Process]
<1>1. \A r \in Process : Become(p, r) => proc' \in [Procs -> Process]
  BY DEF Become, TypeInv
<1>2. \A s \in Phases \cup {"done"} : [proc[p] EXCEPT !.pc = s] \in Process
  BY Updates DEF TypeInv
<1> QED
  BY <1>1, <1>2, IdleProcess DEF Goto, Return

\* A save writes entries and goes on in s.
LEMMA SaveType ==
  ASSUME TypeInv, NEW p \in Procs, NEW r \in Process, NEW e \in [Configs -> Flags], r.pc # "crashed",
         StartSave(p, e, r)
  PROVE  proc' \in [Procs -> Process] /\ registry' = Torn /\ raced' \in BOOLEAN
<1>1. r.pc \in Phases \cup {"idle", "done"}
  BY DEF Process
<1>2. [r EXCEPT !.entries = e, !.after = r.pc, !.pc = "save"] \in Process
  BY <1>1, Updates
<1> QED
  BY <1>2 DEF StartSave, Become, TypeInv

LEMMA FileFacts ==
  /\ NoFile \in RegistryFile /\ Torn \in RegistryFile /\ Cut \in RegistryFile
  /\ \A e \in [Configs -> Flags] : Whole(e) \in RegistryFile /\ Whole(e).kind = "ok" /\ Whole(e).entries = e
  /\ NoFile.kind = "absent" /\ Torn.kind = "torn" /\ Cut.kind = "cut"
  /\ NoFile.entries = NoEntries /\ Torn.entries = NoEntries /\ Cut.entries = NoEntries
  /\ NoEntries \in [Configs -> Flags]
  BY DEF NoFile, Torn, Cut, Whole, RegistryFile, NoEntries, Flags

LEMMA EntryFacts ==
  ASSUME NEW e \in [Configs -> Flags], NEW c \in Configs
  PROVE  /\ Add(e, c) \in [Configs -> Flags] /\ Keys(Add(e, c)) = Keys(e) \cup {c}
         /\ Remove(e, c) \in [Configs -> Flags] /\ Keys(Remove(e, c)) = Keys(e) \ {c}
         /\ \A f \in BOOLEAN :
              /\ UpdateFreshness(e, c, f) \in [Configs -> Flags]
              /\ Keys(UpdateFreshness(e, c, f)) = Keys(e) \cup {c}
  BY DEF Add, Remove, UpdateFreshness, Keys, Flags

LEMMA FreshType == \A c \in Configs : fresh_of(c)["unified_metadata"] \in BOOLEAN
  BY DEF fresh_of, freshness_check, is_fresh, AllIndexes

LEMMA SourceFacts ==
  /\ NoSource \in Source /\ EmptySource \in Source
  /\ NoSource.state = "none" /\ EmptySource.state = "empty" /\ NoSource.mtime = 0 /\ EmptySource.mtime = 0
  /\ NoIndex \in Index /\ NoIndex.state = "absent"
  /\ NoIndexes \in [AllIndexes -> Index] /\ \A i \in AllIndexes : NoIndexes[i] = NoIndex
  BY DEF NoSource, EmptySource, Source, NoIndex, Index, NoIndexes

\* The configuration a command is about.
LEMMA TargetType ==
  ASSUME TypeInv, PlaceInv, NEW p \in Procs, Active(p)
  PROVE  /\ proc[p] \in Process /\ Place(proc[p]) /\ proc[p].cmd \in Commands
         /\ proc[p].cmd.op \in {"add", "remove"} => Target(p) \in Configs
  BY CommandFacts DEF TypeInv, PlaceInv, Place, Active, Target

\* Which of the shared files a step of a process changes.
LEMMA StepTypes ==
  ASSUME TypeInv, PlaceInv, NEW p \in Procs, Step(p)
  PROVE  TypeInv'
<1> DEFINE r == proc[p]
<1>1. r \in Process /\ r.entries \in [Configs -> Flags] /\ r.todo \in SUBSET Configs
  BY DEF TypeInv, Process
<1>2. Active(p) /\ commands' = commands
  BY StepMoves DEF Moves
<1>3. /\ Place(r)
      /\ r.cmd.op \in {"add", "remove"} => Target(p) \in Configs
  BY <1>2, TargetType
<1>4. \A s \in Phases \cup {"done"} : [r EXCEPT !.pc = s] \in Process /\ [r EXCEPT !.pc = s].pc = s
  <2>1. ASSUME NEW s \in Phases \cup {"done"}
        PROVE  [r EXCEPT !.pc = s] \in Process /\ [r EXCEPT !.pc = s].pc = s
    <3>1. [r EXCEPT !.pc = s].pc = s
      BY <1>1 DEF Process
    <3> QED
      BY <1>1, <3>1, Updates
  <2> QED
    BY <2>1
<1> HIDE DEF r
<1>5. CASE FinishSave(p)
  <2>1. r.after \in Phases \cup {"done"}
    BY <1>2, <1>3, <1>5 DEF FinishSave, Place, Phases, AfterSave, r
  <2>2. proc' \in [Procs -> Process]
    BY <1>5, <2>1, BecomeType DEF FinishSave, r
  <2>3. registry' \in RegistryFile /\ (registry.kind # "ok" => registry.entries = NoEntries)'
    BY <1>1, <1>5, FileFacts DEF FinishSave, r
  <2> QED
    BY <1>5, <2>2, <2>3 DEF FinishSave, TypeInv
<1>6. CASE Unpack(p)
  <2>1. Target(p) \in Configs
    BY <1>2, <1>3, <1>6 DEF Unpack, Place, Active, OpsAt, r
  <2>2. proc' \in [Procs -> Process]
    BY <1>6, BecomeType DEF Unpack, Phases
  <2> QED
    BY <1>6, <2>1, <2>2, SourceFacts DEF Unpack, TypeInv
<1>7. CASE Extract(p)
  <2>1. PICK s \in {"empty", "partial", "complete"} :
          /\ source' = [source EXCEPT ![Target(p)] =
                           [state |-> s, of |-> IF s = "empty" THEN 0 ELSE now',
                            mtime |-> IF s = "empty" THEN 0 ELSE now', quiet |-> FALSE]]
          /\ IF s \in Accepted THEN Goto(p, "register") ELSE Return(p, 1)
    BY <1>7 DEF Extract
  <2>2. now' \in 0..MaxEvents /\ now' \in Nat
    BY <1>7, ConfigAssumption DEF Extract, TypeInv
  <2>3. [state |-> s, of |-> IF s = "empty" THEN 0 ELSE now',
         mtime |-> IF s = "empty" THEN 0 ELSE now', quiet |-> FALSE] \in Source
    BY <2>2 DEF Source
  <2>4. source' \in [Configs -> Source]
    BY <2>1, <2>3 DEF TypeInv
  <2>5. proc' \in [Procs -> Process]
    BY <2>1, BecomeType DEF Phases
  <2> QED
    BY <1>7, <2>2, <2>4, <2>5 DEF Extract, TypeInv
<1>8. CASE Register(p)
  <2>1. Target(p) \in Configs
    BY <1>2, <1>3, <1>8 DEF Register, Place, Active, OpsAt, r
  <2>2. PICK e \in [Configs -> Flags], s \in Phases \cup {"done"} : StartSave(p, e, [r EXCEPT !.pc = s])
    BY <1>1, <1>8, <2>1, EntryFacts DEF Register, r, Phases
  <2>3. proc' \in [Procs -> Process] /\ registry' = Torn /\ raced' \in BOOLEAN
    BY <1>4, <2>2, SaveType DEF Phases
  <2> QED
    BY <1>8, <2>3, FileFacts DEF Register, TypeInv
<1>9. CASE RmSource(p)
  <2>1. proc' \in [Procs -> Process]
    BY <1>9, BecomeType DEF RmSource, Phases
  <2> QED
    BY <1>9, <2>1, SourceFacts DEF RmSource, TypeInv
<1>10. CASE RmDerived(p)
  <2>1. proc' \in [Procs -> Process]
    BY <1>10, BecomeType DEF RmDerived
  <2> QED
    BY <1>10, <2>1, SourceFacts DEF RmDerived, RemoveIndexes, TypeInv
<1>11. CASE Check(p)
  <2>1. CASE UNCHANGED registry /\ Return(p, 0) /\ UNCHANGED raced
    BY <1>11, <2>1, BecomeType DEF Check, TypeInv
  <2>2. CASE \E c \in proc[p].todo :
               StartSave(p, UpdateFreshness(proc[p].entries, c, fresh_of(c)["unified_metadata"]),
                         [proc[p] EXCEPT !.todo = @ \ {c}])
    <3>1. PICK c \in r.todo :
            StartSave(p, UpdateFreshness(r.entries, c, fresh_of(c)["unified_metadata"]),
                      [r EXCEPT !.todo = @ \ {c}])
      BY <2>2 DEF r
    <3>2. [r EXCEPT !.todo = @ \ {c}] \in Process /\ [r EXCEPT !.todo = @ \ {c}].pc # "crashed"
      <4>1. [r EXCEPT !.todo = @ \ {c}].pc = "check"
        BY <1>1, <1>11 DEF Process, Check, r
      <4> QED
        BY <1>1, <4>1, Updates
    <3>3. UpdateFreshness(r.entries, c, fresh_of(c)["unified_metadata"]) \in [Configs -> Flags]
      BY <1>1, EntryFacts, FreshType
    <3>4. proc' \in [Procs -> Process] /\ registry' = Torn /\ raced' \in BOOLEAN
      BY <3>1, <3>2, <3>3, SaveType
    <3> QED
      BY <1>11, <3>4, FileFacts DEF Check, TypeInv
  <2> QED
    BY <1>11, <2>1, <2>2 DEF Check
<1>12. CASE Skip(p)
  <2>1. proc' \in [Procs -> Process]
    <3>1. PICK c \in r.todo :
            \/ Return(p, 0)
            \/ Become(p, [r EXCEPT !.pc = "build", !.todo = Selected(r.entries, r.cmd)])
            \/ Become(p, [r EXCEPT !.todo = @ \ {c}])
      BY <1>12 DEF Skip, r
    <3>2. Selected(r.entries, r.cmd) \in SUBSET Configs /\ r.todo \ {c} \in SUBSET Configs
      BY <1>1 DEF Selected, Keys
    <3> QED
      BY <1>1, <3>1, <3>2, BecomeType, Updates DEF Phases
  <2> QED
    BY <1>12, <2>1 DEF Skip, TypeInv
<1>13. CASE Build(p)
  <2>1. PICK c \in r.todo :
          \/ ReadSource(p, [r EXCEPT !.cur = c, !.todo = @ \ {c}, !.ix = 1])
          \/ Return(p, 1)
    BY <1>13 DEF Build, r
  <2>2. proc' \in [Procs -> Process]
    <3>1. [r EXCEPT !.cur = c, !.todo = @ \ {c}, !.ix = 1] \in Process
      BY <1>1, Updates
    <3>2. CASE ReadSource(p, [r EXCEPT !.cur = c, !.todo = @ \ {c}, !.ix = 1])
      <4>1. [r EXCEPT !.cur = c, !.todo = @ \ {c}, !.ix = 1].cur = c
        BY <1>1 DEF Process
      <4>2. [of |-> source[c].of, at |-> now] \in [of : Nat, at : Nat]
        BY <1>1, ConfigAssumption DEF TypeInv, Source
      <4> QED
        BY <3>1, <3>2, <4>1, <4>2, Updates, BecomeType DEF ReadSource
    <3> QED
      BY <2>1, <3>2, BecomeType
  <2> QED
    BY <1>13, <2>2 DEF Build, TypeInv
<1>14. CASE OpenIndex(p) \/ WriteIndex(p)
  <2>1. r.cur \in Configs /\ r.ix \in 1..Len(Order) /\ r.read \in [of : Nat, at : Nat]
    BY <1>1, <1>2, <1>3, <1>14 DEF OpenIndex, WriteIndex, Place, Indexing, Selected, Keys, Active, r, Process
  <2>2. now \in Nat
    BY ConfigAssumption DEF TypeInv
  <2>3. /\ [NoIndex EXCEPT !.state = "torn", !.mtime = now] \in Index
        /\ [state |-> "whole", of |-> r.read.of, read |-> r.read.at, mtime |-> now] \in Index
    BY <2>1, <2>2 DEF NoIndex, Index
  <2>4. PICK v \in Index : SetIndex(p, v)
    BY <1>14, <2>3 DEF OpenIndex, WriteIndex, r
  <2>5. index' \in [Configs -> [AllIndexes -> Index]]
    BY <2>1, <2>4, OrderFacts DEF SetIndex, TypeInv, r
  <2>6. proc' \in [Procs -> Process]
    BY <1>14, BecomeType DEF OpenIndex, WriteIndex, Phases
  <2> QED
    BY <1>14, <2>5, <2>6 DEF OpenIndex, WriteIndex, TypeInv
<1>15. CASE Mark(p)
  <2>1. r.cur \in Configs
    BY <1>2, <1>3, <1>15 DEF Mark, Place, Indexing, Selected, Keys, Active, r
  <2>2. UpdateFreshness(r.entries, r.cur, TRUE) \in [Configs -> Flags]
    BY <1>1, <2>1, EntryFacts
  <2>3. proc' \in [Procs -> Process] /\ registry' = Torn /\ raced' \in BOOLEAN
    BY <1>4, <1>15, <2>2, SaveType DEF Mark, Phases, r
  <2> QED
    BY <1>15, <2>3, FileFacts DEF Mark, TypeInv
<1>16. CASE BuildSecondary(p)
  <2>1. proc' \in [Procs -> Process]
    <3>1. CASE r.ix = Len(Order)
      BY <1>16, <3>1, BecomeType, OrderFacts DEF BuildSecondary, r, Phases
    <3>2. CASE r.ix < Len(Order)
      <4>1. [r EXCEPT !.ix = @ + 1] \in Process /\ [r EXCEPT !.ix = @ + 1].cur = r.cur
        <5>1. [r EXCEPT !.ix = @ + 1].cur = r.cur
          BY <1>1 DEF Process
        <5> QED
          BY <1>1, <3>2, <5>1, Updates
      <4>2. r.cur \in Configs
        BY <1>2, <1>3, <1>16 DEF BuildSecondary, Place, Indexing, Selected, Keys, Active, r
      <4>3. [of |-> source[r.cur].of, at |-> now] \in [of : Nat, at : Nat]
        BY <4>2, ConfigAssumption DEF TypeInv, Source
      <4> QED
        <5>1. \/ ReadSource(p, [r EXCEPT !.ix = @ + 1])
              \/ Become(p, [r EXCEPT !.ix = @ + 1])
          BY <1>16, <3>2, OrderFacts DEF BuildSecondary, r
        <5>2. [[r EXCEPT !.ix = @ + 1] EXCEPT !.read = [of |-> source[r.cur].of, at |-> now],
                                              !.pc = "open_index"] \in Process
          BY <4>1, <4>3, Updates
        <5> QED
          BY <4>1, <5>1, <5>2, BecomeType DEF ReadSource
    <3> QED
      BY <1>1, <1>16, <3>1, <3>2 DEF BuildSecondary, Process, r
  <2> QED
    BY <1>16, <2>1 DEF BuildSecondary, TypeInv
<1> QED
  BY <1>5, <1>6, <1>7, <1>8, <1>9, <1>10, <1>11, <1>12, <1>13, <1>14, <1>15, <1>16 DEF Step

-----------------------------------------------------------------------------
(* What the steps do, field by field *)

\* The records agree on all but the phase, the result and alone.
Like(n, r) ==
  /\ n.cmd = r.cmd /\ n.entries = r.entries /\ n.todo = r.todo /\ n.cur = r.cur
  /\ n.read = r.read /\ n.ix = r.ix /\ n.after = r.after

LEMMA GotoFields ==
  ASSUME TypeInv, NEW p \in Procs, NEW s, Goto(p, s)
  PROVE  proc'[p].pc = s /\ Like(proc'[p], proc[p]) /\ proc'[p].alone = proc[p].alone
  BY DEF TypeInv, Goto, Become, Like, Process

LEMMA ReturnFields ==
  ASSUME TypeInv, NEW p \in Procs, NEW code, Return(p, code)
  PROVE  proc'[p].pc = "done" /\ proc'[p].rc = code /\ proc'[p].todo = {}
  BY DEF TypeInv, Return, Become, Done, Nobody

\* r differs from the process in fields a save leaves alone.
LEMMA SaveFields ==
  ASSUME TypeInv, NEW p \in Procs, NEW r \in Process, NEW e, StartSave(p, e, r)
  PROVE  /\ proc'[p].pc = "save" /\ proc'[p].entries = e /\ proc'[p].after = r.pc
         /\ proc'[p].cmd = r.cmd /\ proc'[p].todo = r.todo /\ proc'[p].cur = r.cur
         /\ proc'[p].read = r.read /\ proc'[p].ix = r.ix /\ proc'[p].alone = r.alone
         /\ registry' = Torn
         /\ raced' = (raced \/ \E q \in Procs \ {p} : proc[q].pc = "save")
<1>1. proc'[p] = [r EXCEPT !.entries = e, !.after = r.pc, !.pc = "save"]
  BY DEF StartSave, Become, TypeInv
<1>2. /\ [r EXCEPT !.entries = e, !.after = r.pc, !.pc = "save"].pc = "save"
      /\ [r EXCEPT !.entries = e, !.after = r.pc, !.pc = "save"].entries = e
      /\ [r EXCEPT !.entries = e, !.after = r.pc, !.pc = "save"].after = r.pc
      /\ [r EXCEPT !.entries = e, !.after = r.pc, !.pc = "save"].cmd = r.cmd
      /\ [r EXCEPT !.entries = e, !.after = r.pc, !.pc = "save"].todo = r.todo
      /\ [r EXCEPT !.entries = e, !.after = r.pc, !.pc = "save"].cur = r.cur
      /\ [r EXCEPT !.entries = e, !.after = r.pc, !.pc = "save"].read = r.read
      /\ [r EXCEPT !.entries = e, !.after = r.pc, !.pc = "save"].ix = r.ix
      /\ [r EXCEPT !.entries = e, !.after = r.pc, !.pc = "save"].alone = r.alone
  BY DEF Process
<1> QED
  BY <1>1, <1>2 DEF StartSave

LEMMA RegisterFields ==
  ASSUME TypeInv, PlaceInv, NEW p \in Procs, Register(p)
  PROVE  /\ proc[p].cmd.op = "add" => proc'[p].entries = Add(proc[p].entries, Target(p))
         /\ proc[p].cmd.op = "remove" => proc'[p].entries = Remove(proc[p].entries, Target(p))
         /\ proc'[p].after = AfterSave(proc[p].cmd)
         /\ proc'[p].pc = "save" /\ proc'[p].cmd = proc[p].cmd /\ proc'[p].alone = proc[p].alone
         /\ proc'[p].todo = proc[p].todo /\ proc'[p].cur = proc[p].cur
         /\ registry' = Torn
         /\ raced' = (raced \/ \E q \in Procs \ {p} : proc[q].pc = "save")
<1> DEFINE s == IF proc[p].cmd.op = "add" \/ proc[p].cmd.flag THEN "done" ELSE "rm_source"
           r == [proc[p] EXCEPT !.pc = s]
           e == IF proc[p].cmd.op = "add" THEN Add(proc[p].entries, Target(p))
                ELSE Remove(proc[p].entries, Target(p))
<1>1. s \in Phases \cup {"done"}
  BY DEF Phases
<1>2. r \in Process
  BY <1>1, Updates DEF TypeInv
<1>3. StartSave(p, e, r)
  BY DEF Register
<1>4. proc[p] \in Process
  BY DEF TypeInv
<1>5. r.pc = s /\ r.cmd = proc[p].cmd /\ r.alone = proc[p].alone /\ r.todo = proc[p].todo /\ r.cur = proc[p].cur
  BY <1>4 DEF Process
<1>6. proc[p].cmd.op \in {"add", "remove"}
  BY DEF PlaceInv, Place, Register, Phases, OpsAt
<1>7. s = AfterSave(proc[p].cmd)
  BY <1>6 DEF AfterSave
<1> HIDE DEF r, s
<1> QED
  BY <1>2, <1>3, <1>5, <1>6, <1>7, SaveFields

LEMMA CheckFields ==
  ASSUME TypeInv, PlaceInv, NEW p \in Procs, Check(p)
  PROVE  \/ proc'[p].pc = "done" /\ proc'[p].todo = {} /\ UNCHANGED <<registry, raced>>
         \/ \E c \in proc[p].todo, f \in BOOLEAN :
              /\ proc'[p].pc = "save" /\ proc'[p].after = "check"
              /\ proc'[p].entries = UpdateFreshness(proc[p].entries, c, f)
              /\ proc'[p].todo = proc[p].todo \ {c}
              /\ proc'[p].cmd = proc[p].cmd /\ proc'[p].alone = proc[p].alone
              /\ registry' = Torn
              /\ raced' = (raced \/ \E q \in Procs \ {p} : proc[q].pc = "save")
<1>1. CASE Return(p, 0) /\ UNCHANGED <<registry, raced>>
  BY <1>1, ReturnFields
<1>2. ASSUME NEW c \in proc[p].todo,
             StartSave(p, UpdateFreshness(proc[p].entries, c, fresh_of(c)["unified_metadata"]),
                       [proc[p] EXCEPT !.todo = @ \ {c}])
      PROVE  \E f \in BOOLEAN :
              /\ proc'[p].pc = "save" /\ proc'[p].after = "check"
              /\ proc'[p].entries = UpdateFreshness(proc[p].entries, c, f)
              /\ proc'[p].todo = proc[p].todo \ {c}
              /\ proc'[p].cmd = proc[p].cmd /\ proc'[p].alone = proc[p].alone
              /\ registry' = Torn
              /\ raced' = (raced \/ \E q \in Procs \ {p} : proc[q].pc = "save")
  <2> DEFINE r == [proc[p] EXCEPT !.todo = @ \ {c}]
  <2>1. proc[p] \in Process /\ proc[p].todo \in SUBSET Configs
    BY DEF TypeInv, Process
  <2>2. r \in Process
    BY <2>1, Updates
  <2>3. r.pc = "check" /\ r.cmd = proc[p].cmd /\ r.alone = proc[p].alone /\ r.todo = proc[p].todo \ {c}
    BY <2>1 DEF Process, Check
  <2>4. fresh_of(c)["unified_metadata"] \in BOOLEAN
    BY <2>1, FreshType
  <2> HIDE DEF r
  <2>5. StartSave(p, UpdateFreshness(proc[p].entries, c, fresh_of(c)["unified_metadata"]), r)
    BY <1>2 DEF r
  <2> QED
    BY <2>2, <2>3, <2>4, <2>5, SaveFields
<1> QED
  BY <1>1, <1>2 DEF Check

LEMMA MarkFields ==
  ASSUME TypeInv, NEW p \in Procs, Mark(p)
  PROVE  /\ proc'[p].pc = "save" /\ proc'[p].after = "secondary"
         /\ proc'[p].entries = UpdateFreshness(proc[p].entries, proc[p].cur, TRUE)
         /\ proc'[p].todo = proc[p].todo /\ proc'[p].cur = proc[p].cur /\ proc'[p].ix = proc[p].ix
         /\ proc'[p].cmd = proc[p].cmd /\ proc'[p].alone = proc[p].alone
         /\ registry' = Torn
         /\ raced' = (raced \/ \E q \in Procs \ {p} : proc[q].pc = "save")
<1> DEFINE r == [proc[p] EXCEPT !.pc = "secondary"]
           e == UpdateFreshness(proc[p].entries, proc[p].cur, TRUE)
<1>1. proc[p] \in Process
  BY DEF TypeInv
<1>2. r \in Process
  BY <1>1, Updates DEF Phases
<1>3. r.pc = "secondary" /\ r.cmd = proc[p].cmd /\ r.alone = proc[p].alone /\ r.todo = proc[p].todo
      /\ r.cur = proc[p].cur /\ r.ix = proc[p].ix
  BY <1>1 DEF Process
<1> HIDE DEF r
<1>4. StartSave(p, e, r)
  BY DEF Mark, r
<1> HIDE DEF e
<1>5. /\ proc'[p].pc = "save" /\ proc'[p].entries = e /\ proc'[p].after = r.pc
      /\ proc'[p].cmd = r.cmd /\ proc'[p].todo = r.todo /\ proc'[p].cur = r.cur
      /\ proc'[p].ix = r.ix /\ proc'[p].alone = r.alone
      /\ registry' = Torn
      /\ raced' = (raced \/ \E q \in Procs \ {p} : proc[q].pc = "save")
  BY <1>2, <1>4, SaveFields
<1> QED
  BY <1>3, <1>5 DEF e

LEMMA SkipFields ==
  ASSUME TypeInv, NEW p \in Procs, Skip(p)
  PROVE  \/ proc'[p].pc = "done" /\ proc'[p].todo = {}
         \/ /\ proc'[p].cmd = proc[p].cmd /\ proc'[p].alone = proc[p].alone
            /\ proc'[p].entries = proc[p].entries
            /\ \/ proc'[p].pc = "build" /\ proc'[p].todo = Selected(proc[p].entries, proc[p].cmd)
               \/ proc'[p].pc = "skip" /\ proc'[p].todo \subseteq proc[p].todo
<1>1. proc[p] \in Process
  BY DEF TypeInv
<1>2. PICK c \in proc[p].todo :
        \/ Return(p, 0)
        \/ Become(p, [proc[p] EXCEPT !.pc = "build", !.todo = Selected(proc[p].entries, proc[p].cmd)])
        \/ Become(p, [proc[p] EXCEPT !.todo = @ \ {c}])
  BY DEF Skip
<1>3. CASE Return(p, 0)
  BY <1>3, ReturnFields
<1>4. CASE Become(p, [proc[p] EXCEPT !.pc = "build", !.todo = Selected(proc[p].entries, proc[p].cmd)])
  <2>1. proc'[p] = [proc[p] EXCEPT !.pc = "build", !.todo = Selected(proc[p].entries, proc[p].cmd)]
    BY <1>4 DEF Become, TypeInv
  <2> QED
    BY <1>1, <2>1 DEF Process
<1>5. CASE Become(p, [proc[p] EXCEPT !.todo = @ \ {c}])
  <2>1. proc'[p] = [proc[p] EXCEPT !.todo = @ \ {c}]
    BY <1>5 DEF Become, TypeInv
  <2> QED
    BY <1>1, <2>1 DEF Process, Skip
<1> QED
  BY <1>2, <1>3, <1>4, <1>5

LEMMA ReadFields ==
  ASSUME TypeInv, NEW p \in Procs, NEW r \in Process, ReadSource(p, r)
  PROVE  /\ proc'[p].pc = "open_index" /\ proc'[p].cmd = r.cmd /\ proc'[p].alone = r.alone
         /\ proc'[p].entries = r.entries /\ proc'[p].todo = r.todo /\ proc'[p].cur = r.cur
         /\ proc'[p].ix = r.ix
         /\ proc'[p].read.of = source[r.cur].of /\ proc'[p].read.at = now
<1>1. proc'[p] = [r EXCEPT !.read = [of |-> source[r.cur].of, at |-> now], !.pc = "open_index"]
  BY DEF ReadSource, Become, TypeInv
<1> QED
  BY <1>1 DEF Process

LEMMA BuildFields ==
  ASSUME TypeInv, NEW p \in Procs, Build(p)
  PROVE  \/ proc'[p].pc = "done" /\ proc'[p].rc = 1 /\ proc'[p].todo = {}
         \/ \E c \in proc[p].todo :
              /\ proc'[p].pc = "open_index" /\ proc'[p].cmd = proc[p].cmd /\ proc'[p].alone = proc[p].alone
              /\ proc'[p].entries = proc[p].entries /\ proc'[p].todo = proc[p].todo \ {c}
              /\ proc'[p].cur = c /\ proc'[p].ix = 1
              /\ proc'[p].read.of = source[c].of /\ proc'[p].read.at = now
<1>1. PICK c \in proc[p].todo :
        \/ ReadSource(p, [proc[p] EXCEPT !.cur = c, !.todo = @ \ {c}, !.ix = 1])
        \/ Return(p, 1)
  BY DEF Build
<1>2. CASE ReadSource(p, [proc[p] EXCEPT !.cur = c, !.todo = @ \ {c}, !.ix = 1])
  <2> DEFINE r == [proc[p] EXCEPT !.cur = c, !.todo = @ \ {c}, !.ix = 1]
  <2>1. proc[p] \in Process /\ proc[p].todo \in SUBSET Configs
    BY DEF TypeInv, Process
  <2>2. r \in Process
    BY <2>1, Updates
  <2>3. r.cmd = proc[p].cmd /\ r.alone = proc[p].alone /\ r.todo = proc[p].todo \ {c} /\ r.cur = c
        /\ r.ix = 1 /\ r.entries = proc[p].entries
    BY <2>1 DEF Process
  <2> HIDE DEF r
  <2>4. ReadSource(p, r)
    BY <1>2 DEF r
  <2>5. /\ proc'[p].pc = "open_index" /\ proc'[p].cmd = r.cmd /\ proc'[p].alone = r.alone
        /\ proc'[p].entries = r.entries /\ proc'[p].todo = r.todo /\ proc'[p].cur = r.cur
        /\ proc'[p].ix = r.ix
        /\ proc'[p].read.of = source[r.cur].of /\ proc'[p].read.at = now
    BY <2>2, <2>4, ReadFields
  <2> QED
    BY <2>3, <2>5
<1> QED
  BY <1>1, <1>2, ReturnFields

LEMMA SecondaryFields ==
  ASSUME TypeInv, NEW p \in Procs, BuildSecondary(p)
  PROVE  \/ proc'[p].pc = "done" /\ proc[p].todo = {} /\ proc'[p].todo = {}
         \/ /\ proc'[p].cmd = proc[p].cmd /\ proc'[p].alone = proc[p].alone
            /\ proc'[p].entries = proc[p].entries /\ proc'[p].todo = proc[p].todo /\ proc'[p].cur = proc[p].cur
            /\ \/ proc'[p].pc = "build"
               \/ /\ proc'[p].pc \in {"open_index", "secondary"} /\ proc'[p].ix > 1
                  /\ proc'[p].pc = "open_index" =>
                       proc'[p].read.of = source[proc[p].cur].of /\ proc'[p].read.at = now
<1>1. proc[p] \in Process /\ proc[p].ix \in 1..Len(Order)
  BY DEF TypeInv, Process
<1>2. CASE proc[p].ix = Len(Order)
  <2>1. IF proc[p].todo = {} THEN Return(p, 0) ELSE Goto(p, "build")
    BY <1>2, OrderFacts DEF BuildSecondary
  <2> QED
    BY <2>1, ReturnFields, GotoFields DEF Like
<1>3. CASE proc[p].ix < Len(Order)
  <2> DEFINE r == [proc[p] EXCEPT !.ix = @ + 1]
  <2>1. r \in Process
    BY <1>1, <1>3, Updates
  <2>2. r.cmd = proc[p].cmd /\ r.alone = proc[p].alone /\ r.todo = proc[p].todo /\ r.cur = proc[p].cur
        /\ r.ix > 1 /\ r.entries = proc[p].entries /\ r.pc = "secondary"
    BY <1>1, OrderFacts DEF Process, BuildSecondary
  <2> HIDE DEF r
  <2>3. ReadSource(p, r) \/ Become(p, r)
    BY <1>3, OrderFacts DEF BuildSecondary, r
  <2>4. CASE ReadSource(p, r)
    <3>1. /\ proc'[p].pc = "open_index" /\ proc'[p].cmd = r.cmd /\ proc'[p].alone = r.alone
          /\ proc'[p].entries = r.entries /\ proc'[p].todo = r.todo /\ proc'[p].cur = r.cur
          /\ proc'[p].ix = r.ix
          /\ proc'[p].read.of = source[r.cur].of /\ proc'[p].read.at = now
      BY <2>1, <2>4, ReadFields
    <3> QED
      BY <2>2, <3>1
  <2>5. CASE Become(p, r)
    <3>1. proc'[p] = r
      BY <2>5 DEF Become, TypeInv
    <3> QED
      BY <2>2, <3>1
  <2> QED
    BY <2>3, <2>4, <2>5
<1> QED
  BY <1>1, <1>2, <1>3, OrderFacts DEF BuildSecondary

\* What Edit and EditQuietly do to the processes.
LEMMA DisturbedFields ==
  ASSUME TypeInv, Disturbs
  PROVE  /\ proc' \in [Procs -> Process]
         /\ \A p \in Procs : /\ proc'[p].pc = proc[p].pc /\ Like(proc'[p], proc[p])
                             /\ Active(p) => ~proc'[p].alone
<1>1. proc' \in [Procs -> Process]
  BY Updates DEF Disturbs, TypeInv
<1>2. ASSUME NEW p \in Procs
      PROVE  proc'[p].pc = proc[p].pc /\ Like(proc'[p], proc[p]) /\ (Active(p) => ~proc'[p].alone)
  <2>1. proc[p] \in Process
    BY DEF TypeInv
  <2>2. proc'[p] = IF Active(p) THEN [proc[p] EXCEPT !.alone = FALSE] ELSE proc[p]
    BY DEF Disturbs
  <2> QED
    BY <2>1, <2>2 DEF Process, Like
<1> QED
  BY <1>1, <1>2

\* What a command starts with.
Started(p, k) ==
  /\ proc'[p].cmd = k /\ proc'[p].entries = registry.entries
  /\ k.op = "add" => proc'[p].pc = "unpack" /\ registry.entries[<<k.name, k.version>>] = "none"
  /\ k.op = "remove" => proc'[p].pc = "register" /\ registry.entries[<<k.name, k.version>>] # "none"
  /\ k.op \in {"build", "check"} => /\ proc'[p].todo = Selected(registry.entries, k)
                                    /\ Selected(registry.entries, k) # {}
  /\ k.op = "build" => proc'[p].pc \in {"build", "skip"}
  /\ k.op = "check" => proc'[p].pc = "check"
  /\ k.op \in {"add", "remove"} => proc'[p].todo = {}
  /\ proc'[p].alone => \A q \in Procs \ {p} : ~Active(q)
  /\ raced' = (raced \/ Meets(p, k))

LEMMA BeginFields ==
  ASSUME TypeInv, NEW p \in Procs, Begin(p)
  PROVE  /\ proc' \in [Procs -> Process] /\ raced' \in BOOLEAN /\ (raced => raced')
         /\ commands' \in 0..MaxCommands
         /\ \A q \in Procs \ {p} : /\ proc'[q].pc = proc[q].pc /\ Like(proc'[q], proc[q])
                                   /\ Active(q) => ~proc'[q].alone
         /\ \/ proc'[p].pc = "done" /\ proc'[p].todo = {} /\ raced' = raced
            \/ \E k \in Commands : Started(p, k)
<1>1. PICK k \in Commands :
        LET entries == Load(registry)
            step == IF Decodable(registry) THEN FirstStep(k, entries) ELSE "error"
            others == {q \in Procs \ {p} : Active(q)}
            fresh == [Nobody EXCEPT !.cmd = k, !.entries = entries, !.alone = others = {}, !.pc = step,
                        !.todo = IF k.op \in {"build", "check"} THEN Selected(entries, k) ELSE {}]
        IN /\ proc' = [q \in Procs |-> IF q = p THEN (IF step = "error" THEN Done(1) ELSE fresh)
                                       ELSE IF q \in others THEN [proc[q] EXCEPT !.alone = FALSE]
                                       ELSE proc[q]]
           /\ raced' = (raced \/ (step # "error" /\ Meets(p, k)))
  BY DEF Begin
<1> DEFINE entries == Load(registry)
           step == IF Decodable(registry) THEN FirstStep(k, entries) ELSE "error"
           others == {q \in Procs \ {p} : Active(q)}
           todo == IF k.op \in {"build", "check"} THEN Selected(entries, k) ELSE {}
           fresh == [Nobody EXCEPT !.cmd = k, !.entries = entries, !.alone = others = {}, !.pc = step,
                                   !.todo = todo]
<1>2. entries = registry.entries /\ entries \in [Configs -> Flags]
  BY DEF Load, TypeInv, RegistryFile
<1>3. todo \in SUBSET Configs
  BY DEF Selected, Keys
<1>4. k.op \in {"add", "remove", "build", "check"} /\ k.flag \in BOOLEAN
  BY CommandFacts
<1>5. step # "error" =>
        /\ k.op = "add" => step = "unpack" /\ entries[<<k.name, k.version>>] = "none"
        /\ k.op = "remove" => step = "register" /\ entries[<<k.name, k.version>>] # "none"
        /\ k.op \in {"build", "check"} => Selected(entries, k) # {}
        /\ k.op = "build" => step \in {"build", "skip"}
        /\ k.op = "check" => step = "check"
  BY <1>4 DEF FirstStep
<1>6. /\ \A q \in Procs \ {p} : proc'[q] = IF q \in others THEN [proc[q] EXCEPT !.alone = FALSE] ELSE proc[q]
      /\ proc'[p] = IF step = "error" THEN Done(1) ELSE fresh
      /\ DOMAIN proc' = Procs /\ proc' = [q \in Procs |-> proc'[q]]
      /\ raced' = (raced \/ (step # "error" /\ Meets(p, k)))
  BY <1>1
<1>7. step = "error" \/ step \in Phases
  BY <1>4, <1>5 DEF Phases
<1> HIDE DEF step, todo, entries
<1>8. step # "error" => fresh \in Process
  <2> DEFINE b == others = {}
  <2>1. b \in BOOLEAN
    OBVIOUS
  <2> HIDE DEF b
  <2>2. step \in Phases =>
          [Nobody EXCEPT !.cmd = k, !.entries = entries, !.alone = b, !.pc = step, !.todo = todo] \in Process
    BY <1>2, <1>3, <2>1, OrderFacts DEF Nobody, Process
  <2> QED
    BY <1>7, <2>2 DEF b
<1>9. /\ fresh.cmd = k /\ fresh.entries = entries /\ fresh.pc = step /\ fresh.todo = todo
      /\ fresh.alone = (others = {})
  BY DEF Nobody
<1>10. ASSUME NEW q \in Procs \ {p} PROVE proc'[q] \in Process
  <2>1. proc[q] \in Process
    BY DEF TypeInv
  <2>2. [proc[q] EXCEPT !.alone = FALSE] \in Process
    BY <2>1, Updates
  <2> HIDE DEF others, fresh
  <2> QED
    BY <1>6, <2>1, <2>2
<1>11. proc' \in [Procs -> Process]
  <2>1. proc'[p] \in Process
    BY <1>6, <1>8, IdleProcess
  <2> QED
    BY <1>6, <1>10, <2>1
<1>12. ASSUME NEW q \in Procs \ {p}
       PROVE  proc'[q].pc = proc[q].pc /\ Like(proc'[q], proc[q]) /\ (Active(q) => ~proc'[q].alone)
  <2>1. proc[q] \in Process
    BY DEF TypeInv
  <2> QED
    BY <1>6, <2>1 DEF Process, Like
<1>13. ASSUME step # "error" PROVE Started(p, k)
  <2>1. proc'[p] = fresh /\ raced' = (raced \/ Meets(p, k))
    BY <1>6, <1>13
  <2>2. fresh.alone => \A q \in Procs \ {p} : ~Active(q)
    BY <1>9
  <2> HIDE DEF fresh
  <2> QED
    BY <1>2, <1>5, <1>9, <1>13, <2>1, <2>2 DEF Started, todo
<1>14. step = "error" => proc'[p].pc = "done" /\ proc'[p].todo = {} /\ raced' = raced
  BY <1>6 DEF Done, Nobody, TypeInv
<1>15. raced' \in BOOLEAN /\ (raced => raced')
  BY <1>6 DEF TypeInv
<1>16. commands' \in 0..MaxCommands
  <2>1. commands < MaxCommands /\ commands' = commands + 1
    BY DEF Begin
  <2> QED
    BY <2>1, ConfigAssumption DEF TypeInv
<1> QED
  BY <1>11, <1>12, <1>13, <1>14, <1>15, <1>16

LEMMA BeginOthers ==
  ASSUME TypeInv, NEW p \in Procs, Begin(p), NEW q \in Procs \ {p}
  PROVE  proc'[q].pc = proc[q].pc /\ Like(proc'[q], proc[q]) /\ (Active(q) => ~proc'[q].alone)
<1>1. \A t \in Procs \ {p} : /\ proc'[t].pc = proc[t].pc /\ Like(proc'[t], proc[t])
                             /\ Active(t) => ~proc'[t].alone
  BY BeginFields
<1> QED
  BY <1>1

LEMMA CrashFields ==
  ASSUME TypeInv, PlaceInv, NEW p \in Procs, Crash(p)
  PROVE  /\ proc' \in [Procs -> Process] /\ proc'[p].pc = "crashed" /\ proc'[p].todo = {}
         /\ \/ proc[p].pc = "save" /\ registry = Torn /\ registry' \in {Torn, Cut}
            \/ UNCHANGED registry
         /\ source' \in [Configs -> Source]
         /\ \A c \in Configs :
              \/ source'[c] = source[c]
              \/ /\ proc[p].pc \in {"unpack", "extract", "rm_source"} /\ c = Target(p)
                 /\ source'[c].mtime = source[c].mtime /\ source'[c].of = source[c].of
                 /\ source'[c].quiet = source[c].quiet
                 /\ source'[c].state = "complete" => source[c].state = "complete"
<1>1. proc' = [proc EXCEPT ![p] = [Nobody EXCEPT !.pc = "crashed"]]
  BY DEF Crash, Become
<1>2. proc' \in [Procs -> Process] /\ proc'[p].pc = "crashed" /\ proc'[p].todo = {}
  <2>1. [Nobody EXCEPT !.pc = "crashed"].pc = "crashed" /\ [Nobody EXCEPT !.pc = "crashed"].todo = {}
    BY DEF Nobody
  <2> QED
    BY <1>1, <2>1, IdleProcess DEF TypeInv
<1>3. CASE proc[p].pc \in {"unpack", "extract", "rm_source"}
  <2>1. PICK s \in {source[Target(p)].state, "partial"} :
          source' = [source EXCEPT ![Target(p)].state = IF @ = "none" THEN @ ELSE s]
    BY <1>3 DEF Crash
  <2>2. Target(p) \in Configs
    BY <1>3, TargetType DEF Active, Phases, Place, OpsAt
  <2>3. source[Target(p)] \in Source
    BY <2>2 DEF TypeInv
  <2>4. PICK t : /\ source' = [source EXCEPT ![Target(p)] = [source[Target(p)] EXCEPT !.state = t]]
                 /\ t \in {source[Target(p)].state, "partial"}
    BY <2>1, <2>2 DEF TypeInv
  <2>5. [source[Target(p)] EXCEPT !.state = t] \in Source
    BY <2>3, <2>4 DEF Source
  <2>6. /\ source' \in [Configs -> Source]
        /\ source'[Target(p)] = [source[Target(p)] EXCEPT !.state = t]
        /\ \A c \in Configs \ {Target(p)} : source'[c] = source[c]
    BY <2>2, <2>4, <2>5 DEF TypeInv
  <2>7. /\ [source[Target(p)] EXCEPT !.state = t].mtime = source[Target(p)].mtime
        /\ [source[Target(p)] EXCEPT !.state = t].of = source[Target(p)].of
        /\ [source[Target(p)] EXCEPT !.state = t].quiet = source[Target(p)].quiet
        /\ [source[Target(p)] EXCEPT !.state = t].state = t
    BY <2>3 DEF Source
  <2>8. \/ proc[p].pc = "save" /\ registry = Torn /\ registry' \in {Torn, Cut}
        \/ UNCHANGED registry
    BY DEF Crash
  <2> QED
    BY <1>2, <1>3, <2>4, <2>6, <2>7, <2>8
<1>4. CASE proc[p].pc \notin {"unpack", "extract", "rm_source"}
  BY <1>2, <1>4 DEF Crash, TypeInv
<1> QED
  BY <1>3, <1>4

LEMMA TypeStep == TypeInv /\ PlaceInv /\ [Next]_vars => TypeInv'
<1> SUFFICES ASSUME TypeInv, PlaceInv, [Next]_vars PROVE TypeInv'
  OBVIOUS
<1>1. CASE UNCHANGED vars
  BY <1>1 DEF vars, TypeInv
<1>2. ASSUME NEW p \in Procs, Begin(p) PROVE TypeInv'
  <2>1. UNCHANGED <<registry, source, index, now>>
    BY <1>2 DEF Begin
  <2> QED
    BY <1>2, <2>1, BeginFields DEF TypeInv
<1>3. ASSUME NEW p \in Procs, Step(p) PROVE TypeInv'
  BY <1>3, StepTypes
<1>4. ASSUME NEW p \in Procs, Crash(p) PROVE TypeInv'
  <2>1. UNCHANGED <<index, now, commands, raced>>
    BY <1>4 DEF Crash
  <2> QED
    BY <1>4, <2>1, CrashFields, FileFacts DEF TypeInv
<1>5. ASSUME NEW c \in Configs, Edit(c) PROVE TypeInv'
  <2>1. PICK t \in {now, now + 1} : source' = [source EXCEPT ![c].of = now', ![c].mtime = t]
    BY <1>5 DEF Edit
  <2>2. now \in Nat /\ now' \in 0..MaxEvents /\ now' \in Nat /\ t \in Nat
    BY <1>5, <2>1, ConfigAssumption DEF Edit, TypeInv
  <2>3. source' \in [Configs -> Source]
    BY <2>1, <2>2 DEF TypeInv, Source
  <2>4. UNCHANGED <<registry, index, commands, raced>>
    BY <1>5 DEF Edit
  <2>5. proc' \in [Procs -> Process]
    BY <1>5, DisturbedFields DEF Edit
  <2> QED
    BY <2>2, <2>3, <2>4, <2>5 DEF TypeInv
<1>6. ASSUME NEW c \in Configs, EditQuietly(c) PROVE TypeInv'
  <2>1. source' = [source EXCEPT ![c].of = now', ![c].quiet = TRUE]
    BY <1>6 DEF EditQuietly
  <2>2. now' \in 0..MaxEvents /\ now' \in Nat
    BY <1>6, ConfigAssumption DEF EditQuietly, TypeInv
  <2>3. source' \in [Configs -> Source]
    BY <2>1, <2>2 DEF TypeInv, Source
  <2>4. UNCHANGED <<registry, index, commands, raced>>
    BY <1>6 DEF EditQuietly
  <2>5. proc' \in [Procs -> Process]
    BY <1>6, DisturbedFields DEF EditQuietly
  <2> QED
    BY <2>2, <2>3, <2>4, <2>5 DEF TypeInv
<1> QED
  BY <1>1, <1>2, <1>3, <1>4, <1>5, <1>6 DEF Next

-----------------------------------------------------------------------------
(* What a step of a process does to the registry *)

StartsSave(p) ==
  /\ proc[p].pc # "save" /\ proc'[p].pc = "save" /\ registry' = Torn
  /\ raced' = (raced \/ \E q \in Procs \ {p} : proc[q].pc = "save")
  /\ \/ /\ proc[p].pc = "register" /\ proc[p].cmd.op = "add"
        /\ proc'[p].entries = Add(proc[p].entries, Target(p))
     \/ /\ proc[p].pc = "register" /\ proc[p].cmd.op = "remove"
        /\ proc'[p].entries = Remove(proc[p].entries, Target(p))
     \/ /\ proc[p].pc # "register" /\ proc[p].cmd.op \in {"build", "check"}
        /\ Keys(proc'[p].entries) = Keys(proc[p].entries)

EndsSave(p) ==
  /\ proc[p].pc = "save" /\ proc'[p].pc # "save" /\ raced' = raced
  /\ proc'[p].pc \in Phases => proc'[p].entries = proc[p].entries
  /\ \/ registry' = Whole(proc[p].entries)
     \/ registry.kind # "torn" /\ registry' = Torn
     \/ proc'[p].pc = "crashed" /\ registry = Torn /\ registry' \in {Torn, Cut}
     \/ proc'[p].pc = "crashed" /\ UNCHANGED registry

Works(p) ==
  /\ proc[p].pc # "save" /\ proc'[p].pc # "save" /\ UNCHANGED <<registry, raced>>
  /\ proc'[p].pc \in Phases => proc'[p].entries = proc[p].entries

LEMMA StepShape ==
  ASSUME TypeInv, PlaceInv, NEW p \in Procs, Step(p) \/ Crash(p)
  PROVE  /\ Moves(p)
         /\ proc'[p].pc \in Phases => proc'[p].cmd = proc[p].cmd /\ proc'[p].alone = proc[p].alone
         /\ StartsSave(p) \/ EndsSave(p) \/ Works(p)
<1> DEFINE Kept == proc'[p].pc \in Phases => proc'[p].cmd = proc[p].cmd /\ proc'[p].alone = proc[p].alone
           Shape == StartsSave(p) \/ EndsSave(p) \/ Works(p)
<1> SUFFICES Kept /\ Shape
  BY StepMoves
<1>0. /\ proc[p] \in Process /\ proc[p].entries \in [Configs -> Flags] /\ Place(proc[p])
      /\ Active(p) /\ "crashed" \notin Phases /\ "done" \notin Phases /\ "save" \in Phases
  BY StepMoves DEF TypeInv, PlaceInv, Process, Moves, Phases
<1>1. CASE Crash(p)
  <2>1. raced' = raced
    BY <1>1 DEF Crash
  <2> QED
    BY <1>0, <1>1, <2>1, CrashFields DEF EndsSave, Works
<1>2. CASE FinishSave(p)
  <2>1. proc'[p].pc = "done" \/ Goto(p, AfterSave(proc[p].cmd))
    BY <1>0, <1>2, ReturnFields DEF FinishSave, Place
  <2>2. AfterSave(proc[p].cmd) # "save"
    BY DEF AfterSave
  <2>3. /\ proc[p].pc = "save" /\ raced' = raced
        /\ registry' = Whole(proc[p].entries) \/ (registry.kind # "torn" /\ registry' = Torn)
    BY <1>2 DEF FinishSave
  <2> QED
    BY <1>0, <2>1, <2>2, <2>3, GotoFields DEF EndsSave, Like
<1>3. CASE Unpack(p) \/ RmSource(p) \/ OpenIndex(p) \/ WriteIndex(p)
  <2>1. PICK s \in {"extract", "rm_derived", "write_index", "mark", "secondary"} : Goto(p, s)
    BY <1>3 DEF Unpack, RmSource, OpenIndex, WriteIndex
  <2>2. proc[p].pc # "save" /\ UNCHANGED <<registry, raced>>
    BY <1>3 DEF Unpack, RmSource, OpenIndex, WriteIndex
  <2> QED
    BY <2>1, <2>2, GotoFields DEF Works, Like
<1>4. CASE Extract(p)
  <2>1. Goto(p, "register") \/ Return(p, 1)
    BY <1>4 DEF Extract
  <2>2. proc[p].pc # "save" /\ UNCHANGED <<registry, raced>>
    BY <1>4 DEF Extract
  <2> QED
    BY <1>0, <2>1, <2>2, GotoFields, ReturnFields DEF Works, Like
<1>5. CASE RmDerived(p)
  <2>1. proc'[p].pc = "done" /\ proc[p].pc # "save" /\ UNCHANGED <<registry, raced>>
    BY <1>5, ReturnFields DEF RmDerived
  <2> QED
    BY <1>0, <2>1 DEF Works
<1>6. CASE Register(p)
  <2>1. proc[p].cmd.op \in {"add", "remove"} /\ proc[p].pc = "register"
    BY <1>0, <1>6 DEF Register, Place, OpsAt, Active
  <2> QED
    BY <1>6, <2>1, RegisterFields DEF StartsSave
<1>7. CASE Check(p)
  <2>1. proc[p].pc = "check" /\ proc[p].cmd.op = "check" /\ proc[p].todo \subseteq Keys(proc[p].entries)
    BY <1>0, <1>7 DEF Check, Place, OpsAt, Selected, Active
  <2>2. ASSUME NEW c \in proc[p].todo, NEW f \in BOOLEAN
        PROVE  Keys(UpdateFreshness(proc[p].entries, c, f)) = Keys(proc[p].entries)
    <3>1. c \in Configs /\ c \in Keys(proc[p].entries)
      BY <2>1 DEF Keys
    <3>2. Keys(UpdateFreshness(proc[p].entries, c, f)) = Keys(proc[p].entries) \cup {c}
      BY <1>0, <3>1, EntryFacts
    <3> QED
      BY <3>1, <3>2
  <2> QED
    BY <1>0, <1>7, <2>1, <2>2, CheckFields DEF StartsSave, Works
<1>8. CASE Mark(p)
  <2>1. proc[p].pc = "mark" /\ proc[p].cmd.op = "build" /\ proc[p].cur \in Keys(proc[p].entries)
    BY <1>0, <1>8 DEF Mark, Place, OpsAt, Selected, Active, Indexing
  <2>2. Keys(UpdateFreshness(proc[p].entries, proc[p].cur, TRUE)) = Keys(proc[p].entries)
    <3>1. proc[p].cur \in Configs
      BY <2>1 DEF Keys
    <3>2. Keys(UpdateFreshness(proc[p].entries, proc[p].cur, TRUE)) = Keys(proc[p].entries) \cup {proc[p].cur}
      BY <1>0, <3>1, EntryFacts
    <3> QED
      BY <2>1, <3>2
  <2> QED
    BY <1>8, <2>1, <2>2, MarkFields DEF StartsSave
<1>9. CASE Skip(p)
  <2>1. proc[p].pc # "save" /\ UNCHANGED <<registry, raced>>
    BY <1>9 DEF Skip
  <2> QED
    BY <1>0, <1>9, <2>1, SkipFields DEF Works
<1>10. CASE Build(p)
  <2>1. proc[p].pc # "save" /\ UNCHANGED <<registry, raced>>
    BY <1>10 DEF Build
  <2> QED
    BY <1>0, <1>10, <2>1, BuildFields DEF Works
<1>11. CASE BuildSecondary(p)
  <2>1. proc[p].pc # "save" /\ UNCHANGED <<registry, raced>>
    BY <1>11 DEF BuildSecondary
  <2> QED
    BY <1>0, <1>11, <2>1, SecondaryFields DEF Works
<1> QED
  BY <1>1, <1>2, <1>3, <1>4, <1>5, <1>6, <1>7, <1>8, <1>9, <1>10, <1>11 DEF Step

\* An edit changes nothing in the registry and stops no command.
LEMMA EditShape ==
  ASSUME TypeInv, NEW c \in Configs, Edit(c) \/ EditQuietly(c)
  PROVE  /\ UNCHANGED <<registry, index, raced>> /\ now \in Nat /\ now' = now + 1
         /\ \A p \in Procs : /\ proc'[p].pc = proc[p].pc /\ Like(proc'[p], proc[p])
                             /\ Active(p) => ~proc'[p].alone
         /\ \A d \in Configs \ {c} : source'[d] = source[d]
         /\ source[c].state = "complete" /\ source'[c].state = "complete"
         /\ \/ source'[c].mtime \in {now, now + 1}
            \/ source'[c].mtime = source[c].mtime /\ source'[c].quiet
<1>1. UNCHANGED <<registry, index, raced>> /\ now' = now + 1 /\ Disturbs /\ source[c].state = "complete"
  BY DEF Edit, EditQuietly
<1>2. now \in Nat /\ source[c] \in Source
  BY ConfigAssumption DEF TypeInv
<1>3. PICK t \in {now, now + 1} : \/ source' = [source EXCEPT ![c].of = now', ![c].mtime = t]
                                  \/ source' = [source EXCEPT ![c].of = now', ![c].quiet = TRUE]
  BY DEF Edit, EditQuietly
<1>4. \A d \in Configs \ {c} : source'[d] = source[d]
  BY <1>3 DEF TypeInv
<1>5. \/ source'[c] = [source[c] EXCEPT !.of = now', !.mtime = t]
      \/ source'[c] = [source[c] EXCEPT !.of = now', !.quiet = TRUE]
  BY <1>3 DEF TypeInv
<1>6. /\ source'[c].state = source[c].state
      /\ \/ source'[c].mtime = t
         \/ source'[c].mtime = source[c].mtime /\ source'[c].quiet
  BY <1>2, <1>5 DEF Source
<1> QED
  BY <1>1, <1>2, <1>4, <1>6, DisturbedFields

-----------------------------------------------------------------------------
(* Places, meetings and saves *)

LEMMA PlaceOfMove ==
  ASSUME TypeInv, PlaceInv, NEW p \in Procs, Step(p) \/ Crash(p)
  PROVE  Place(proc'[p])
<1> DEFINE r == proc[p]
           n == proc'[p]
<1>0. /\ r \in Process /\ r.entries \in [Configs -> Flags] /\ Place(r) /\ Active(p)
      /\ "crashed" \notin Phases /\ "done" \notin Phases
  BY StepMoves DEF TypeInv, PlaceInv, Process, Moves, Phases
<1>a. r.pc \in Phases
  BY <1>0 DEF Active
<1>1. CASE Crash(p)
  BY <1>0, <1>1, CrashFields DEF Place
<1>2. CASE FinishSave(p)
  <2>1. r.pc = "save" /\ r.after = AfterSave(r.cmd)
    BY <1>0, <1>a, <1>2 DEF FinishSave, Place
  <2>2. CASE r.after = "done"
    BY <1>0, <1>2, <2>2, ReturnFields DEF FinishSave, Place
  <2>3. CASE r.after # "done"
    <3>1. n.pc = AfterSave(r.cmd) /\ Like(n, r)
      BY <1>2, <2>1, <2>3, GotoFields DEF FinishSave
    <3>2. r.cmd.op \in {"add", "remove", "build", "check"}
      BY <1>0, <1>a, CommandFacts DEF Place
    <3> QED
      BY <1>0, <1>a, <2>1, <2>3, <3>1, <3>2 DEF Place, Like, AfterSave, OpsAt, Indexing
  <2> QED
    BY <2>2, <2>3
<1>3. CASE Unpack(p) \/ Extract(p) \/ RmSource(p) \/ RmDerived(p)
  <2>1. \/ r.pc = "unpack" /\ Goto(p, "extract")
        \/ r.pc = "extract" /\ Goto(p, "register")
        \/ r.pc = "rm_source" /\ Goto(p, "rm_derived")
        \/ \E code \in {0, 1} : Return(p, code)
    BY <1>3 DEF Unpack, Extract, RmSource, RmDerived
  <2>2. CASE \E code \in {0, 1} : Return(p, code)
    BY <1>0, <2>2, ReturnFields DEF Place
  <2>3. CASE ~\E code \in {0, 1} : Return(p, code)
    <3>1. /\ Like(n, r)
          /\ \/ r.pc = "unpack" /\ n.pc = "extract"
             \/ r.pc = "extract" /\ n.pc = "register"
             \/ r.pc = "rm_source" /\ n.pc = "rm_derived"
      <4>1. CASE r.pc = "unpack" /\ Goto(p, "extract")
        <5>1. n.pc = "extract" /\ Like(n, r)
          BY <4>1, GotoFields
        <5> QED
          BY <4>1, <5>1
      <4>2. CASE r.pc = "extract" /\ Goto(p, "register")
        <5>1. n.pc = "register" /\ Like(n, r)
          BY <4>2, GotoFields
        <5> QED
          BY <4>2, <5>1
      <4>3. CASE r.pc = "rm_source" /\ Goto(p, "rm_derived")
        <5>1. n.pc = "rm_derived" /\ Like(n, r)
          BY <4>3, GotoFields
        <5> QED
          BY <4>3, <5>1
      <4> QED
        BY <2>1, <2>3, <4>1, <4>2, <4>3
    <3> QED
      BY <1>0, <1>a, <3>1 DEF Place, Like, OpsAt, Indexing
  <2> QED
    BY <2>2, <2>3
<1>4. CASE Register(p)
  <2>1. r.pc = "register" /\ r.cmd.op \in {"add", "remove"} /\ r.cmd \in Commands
    BY <1>0, <1>a, <1>4 DEF Register, Place, OpsAt
  <2>2. n.pc = "save" /\ n.cmd = r.cmd /\ n.after = AfterSave(r.cmd)
    BY <1>4, RegisterFields
  <2> QED
    BY <2>1, <2>2 DEF Place, OpsAt, Indexing
<1>5. CASE Check(p)
  <2>1. /\ r.pc = "check" /\ r.cmd.op = "check" /\ r.cmd \in Commands
        /\ r.todo \subseteq Selected(r.entries, r.cmd)
    BY <1>0, <1>a, <1>5 DEF Check, Place, OpsAt
  <2>2. CASE n.pc = "done"
    BY <1>0, <2>2 DEF Place
  <2>3. CASE n.pc # "done"
    <3>1. /\ n.pc = "save" /\ n.after = "check" /\ n.cmd = r.cmd /\ n.todo \subseteq r.todo
      BY <1>5, <2>3, CheckFields
    <3>2. Keys(n.entries) = Keys(r.entries)
      BY <1>5, <2>1, <3>1, StepShape DEF StartsSave, EndsSave, Works, Step
    <3> QED
      BY <2>1, <3>1, <3>2 DEF Place, OpsAt, Indexing, AfterSave, Selected
  <2> QED
    BY <2>2, <2>3
<1>6. CASE Mark(p)
  <2>1. /\ r.pc = "mark" /\ r.cmd.op = "build" /\ r.cmd \in Commands /\ r.ix = 1
        /\ r.todo \subseteq Selected(r.entries, r.cmd) /\ r.cur \in Selected(r.entries, r.cmd) \ r.todo
    BY <1>0, <1>a, <1>6 DEF Mark, Place, OpsAt, Indexing
  <2>2. /\ n.pc = "save" /\ n.after = "secondary" /\ n.cmd = r.cmd /\ n.todo = r.todo /\ n.cur = r.cur
        /\ n.ix = r.ix
    BY <1>6, MarkFields
  <2>3. Keys(n.entries) = Keys(r.entries)
    BY <1>6, <2>1, <2>2, StepShape DEF StartsSave, EndsSave, Works, Step
  <2> QED
    BY <2>1, <2>2, <2>3 DEF Place, OpsAt, Indexing, AfterSave, Selected
<1>7. CASE Skip(p)
  <2>1. r.pc = "skip" /\ r.cmd.op = "build" /\ r.cmd \in Commands /\ r.todo \subseteq Selected(r.entries, r.cmd)
    BY <1>0, <1>a, <1>7 DEF Skip, Place, OpsAt
  <2> QED
    BY <1>0, <1>7, <2>1, SkipFields DEF Place, OpsAt, Indexing
<1>8. CASE Build(p)
  <2>1. r.pc = "build" /\ r.cmd.op = "build" /\ r.cmd \in Commands /\ r.todo \subseteq Selected(r.entries, r.cmd)
    BY <1>0, <1>a, <1>8 DEF Build, Place, OpsAt
  <2> QED
    BY <1>0, <1>8, <2>1, BuildFields DEF Place, OpsAt, Indexing
<1>9. CASE OpenIndex(p) \/ WriteIndex(p)
  <2>1. \/ r.pc = "open_index" /\ Goto(p, "write_index")
        \/ r.pc = "write_index" /\ Goto(p, IF r.ix = 1 THEN "mark" ELSE "secondary")
    BY <1>9 DEF OpenIndex, WriteIndex
  <2>2. \/ r.pc = "open_index" /\ n.pc = "write_index" /\ Like(n, r)
        \/ r.pc = "write_index" /\ (n.pc = IF r.ix = 1 THEN "mark" ELSE "secondary") /\ Like(n, r)
    <3>1. CASE r.pc = "open_index" /\ Goto(p, "write_index")
      BY <3>1, GotoFields
    <3>2. CASE r.pc = "write_index" /\ Goto(p, IF r.ix = 1 THEN "mark" ELSE "secondary")
      BY <3>2, GotoFields
    <3> QED
      BY <2>1, <3>1, <3>2
  <2> QED
    BY <1>0, <1>a, <2>2 DEF Place, Like, OpsAt, Indexing
<1>10. CASE BuildSecondary(p)
  <2>1. /\ r.pc = "secondary" /\ r.cmd.op = "build" /\ r.cmd \in Commands
        /\ r.todo \subseteq Selected(r.entries, r.cmd) /\ r.cur \in Selected(r.entries, r.cmd) \ r.todo
    BY <1>0, <1>a, <1>10 DEF BuildSecondary, Place, OpsAt, Indexing
  <2> QED
    BY <1>0, <1>10, <2>1, SecondaryFields DEF Place, OpsAt, Indexing
<1> QED
  BY <1>1, <1>2, <1>3, <1>4, <1>5, <1>6, <1>7, <1>8, <1>9, <1>10 DEF Step

\* A process that starts a command, or is disturbed, is where its phase says.
LEMMA PlaceOfLike ==
  ASSUME NEW r, NEW n, Place(r), Like(n, r), n.pc = r.pc
  PROVE  Place(n)
  BY DEF Place, Like, OpsAt, Indexing

LEMMA PlaceStep == TypeInv /\ PlaceInv /\ [Next]_vars => PlaceInv'
<1> SUFFICES ASSUME TypeInv, PlaceInv, [Next]_vars, NEW p \in Procs PROVE Place(proc'[p])
  BY DEF PlaceInv
<1>0. Place(proc[p])
  BY DEF PlaceInv
<1>1. CASE UNCHANGED vars
  BY <1>0, <1>1 DEF vars
<1>2. ASSUME NEW q \in Procs, Begin(q) PROVE Place(proc'[p])
  <2>1. CASE p # q
    <3>1. p \in Procs \ {q}
      BY <2>1
    <3>2. proc'[p].pc = proc[p].pc /\ Like(proc'[p], proc[p])
      BY <1>2, <3>1, BeginOthers
    <3> QED
      BY <1>0, <3>2, PlaceOfLike
  <2>2. CASE p = q /\ proc'[p].pc = "done"
    BY <2>2 DEF Place, Phases
  <2>3. CASE p = q /\ proc'[p].pc # "done"
    <3>1. PICK k \in Commands : Started(p, k)
      BY <1>2, <2>3, BeginFields
    <3> QED
      BY <3>1, CommandFacts DEF Started, Place, OpsAt, Indexing
  <2> QED
    BY <2>1, <2>2, <2>3
<1>3. ASSUME NEW q \in Procs, Step(q) \/ Crash(q) PROVE Place(proc'[p])
  <2>1. CASE p = q
    BY <1>3, <2>1, PlaceOfMove
  <2>2. CASE p # q
    BY <1>0, <1>3, <2>2, StepMoves DEF Moves
  <2> QED
    BY <2>1, <2>2
<1>4. ASSUME NEW c \in Configs, Edit(c) \/ EditQuietly(c) PROVE Place(proc'[p])
  <2>1. proc'[p].pc = proc[p].pc /\ Like(proc'[p], proc[p])
    BY <1>4, EditShape
  <2> QED
    BY <1>0, <2>1, PlaceOfLike
<1> QED
  BY <1>1, <1>2, <1>3, <1>4 DEF Next

LEMMA TodoOfMove ==
  ASSUME TypeInv, PlaceInv, TodoInv, NEW p \in Procs, Step(p) \/ Crash(p), proc'[p].todo # {}
  PROVE  proc'[p].pc \in Phases /\ proc'[p].cmd.op \in {"build", "check"}
<1>1. /\ proc'[p].pc \in Phases => proc'[p].cmd = proc[p].cmd
      /\ proc'[p] \in Process /\ Active(p) /\ Place(proc[p])
  BY StepShape, StepTypes, CrashFields DEF Moves, PlaceInv, TypeInv
<1>2. ASSUME proc'[p].pc \in Phases, proc[p].todo # {}
      PROVE  proc'[p].cmd.op \in {"build", "check"}
  BY <1>1, <1>2 DEF TodoInv
<1>3. ASSUME proc'[p].pc \in Phases, OpsAt(proc[p]) \subseteq {"build", "check"}
      PROVE  proc'[p].cmd.op \in {"build", "check"}
  BY <1>1, <1>3 DEF Place, Active
<1>4. CASE Crash(p)
  BY <1>4, CrashFields
<1>5. CASE FinishSave(p) \/ Unpack(p) \/ Extract(p) \/ RmSource(p) \/ RmDerived(p)
  <2>1. \/ Return(p, 0) \/ Return(p, 1)
        \/ Goto(p, "extract") \/ Goto(p, "register") \/ Goto(p, "rm_derived")
        \/ proc[p].pc = "save" /\ proc[p].after # "done" /\ Goto(p, proc[p].after)
    BY <1>5 DEF FinishSave, Unpack, Extract, RmSource, RmDerived
  <2>2. ~Return(p, 0) /\ ~Return(p, 1)
    BY ReturnFields
  <2>3. CASE \E s \in {"extract", "register", "rm_derived"} : Goto(p, s)
    BY <1>2, <2>3, GotoFields DEF Like, Phases
  <2>4. CASE proc[p].pc = "save" /\ proc[p].after # "done" /\ Goto(p, proc[p].after)
    <3>1. proc[p].after \in Phases
      BY <1>1, <2>4 DEF Place, Active, AfterSave, Phases
    <3> QED
      BY <1>2, <2>4, <3>1, GotoFields DEF Like
  <2> QED
    BY <2>1, <2>2, <2>3, <2>4
<1>6. CASE Register(p)
  BY <1>2, <1>6, RegisterFields DEF Phases
<1>7. CASE Check(p)
  <2>1. proc'[p].pc = "save"
    BY <1>7, CheckFields
  <2>2. OpsAt(proc[p]) = {"check"}
    BY <1>7 DEF Check, OpsAt
  <2> QED
    BY <1>3, <2>1, <2>2 DEF Phases
<1>8. CASE Skip(p) \/ Build(p) \/ OpenIndex(p) \/ WriteIndex(p) \/ Mark(p) \/ BuildSecondary(p)
  <2>1. OpsAt(proc[p]) = {"build"}
    BY <1>8 DEF Skip, Build, OpenIndex, WriteIndex, Mark, BuildSecondary, OpsAt
  <2>2. proc'[p].pc \in Phases
    <3>1. CASE Skip(p)
      BY <3>1, SkipFields DEF Phases
    <3>2. CASE Build(p)
      BY <3>2, BuildFields DEF Phases
    <3>3. CASE OpenIndex(p) \/ WriteIndex(p)
      <4>1. PICK s \in {"write_index", "mark", "secondary"} : Goto(p, s)
        BY <3>3 DEF OpenIndex, WriteIndex
      <4> QED
        BY <4>1, GotoFields DEF Phases
    <3>4. CASE Mark(p)
      BY <3>4, MarkFields DEF Phases
    <3>5. CASE BuildSecondary(p)
      BY <3>5, SecondaryFields DEF Phases
    <3> QED
      BY <1>8, <3>1, <3>2, <3>3, <3>4, <3>5
  <2> QED
    BY <1>3, <2>1, <2>2
<1> QED
  BY <1>4, <1>5, <1>6, <1>7, <1>8 DEF Step

LEMMA TodoStep == TypeInv /\ PlaceInv /\ TodoInv /\ [Next]_vars => TodoInv'
<1> SUFFICES ASSUME TypeInv, PlaceInv, TodoInv, [Next]_vars, NEW p \in Procs, proc'[p].todo # {}
             PROVE  proc'[p].pc \in Phases /\ proc'[p].cmd.op \in {"build", "check"}
  BY DEF TodoInv
<1>0. proc[p].todo # {} => proc[p].pc \in Phases /\ proc[p].cmd.op \in {"build", "check"}
  BY DEF TodoInv
<1>1. CASE UNCHANGED vars
  BY <1>0, <1>1 DEF vars
<1>2. ASSUME NEW b \in Procs, Begin(b)
      PROVE  proc'[p].pc \in Phases /\ proc'[p].cmd.op \in {"build", "check"}
  <2>1. CASE b # p
    <3>1. p \in Procs \ {b}
      BY <2>1
    <3> QED
      BY <1>0, <1>2, <3>1, BeginOthers DEF Like
  <2>2. CASE b = p
    <3>1. PICK k \in Commands : Started(p, k)
      BY <1>2, <2>2, BeginFields
    <3> QED
      BY <3>1, CommandFacts DEF Started, Phases
  <2> QED
    BY <2>1, <2>2
<1>3. ASSUME NEW b \in Procs, Step(b) \/ Crash(b)
      PROVE  proc'[p].pc \in Phases /\ proc'[p].cmd.op \in {"build", "check"}
  <2>1. CASE b = p
    BY <1>3, <2>1, TodoOfMove
  <2>2. CASE b # p
    BY <1>0, <1>3, <2>2, StepMoves DEF Moves
  <2> QED
    BY <2>1, <2>2
<1>4. ASSUME NEW c \in Configs, Edit(c) \/ EditQuietly(c)
      PROVE  proc'[p].pc \in Phases /\ proc'[p].cmd.op \in {"build", "check"}
  BY <1>0, <1>4, EditShape DEF Like
<1> QED
  BY <1>1, <1>2, <1>3, <1>4 DEF Next

LEMMA StartedPhase ==
  ASSUME TypeInv, NEW p \in Procs, NEW k \in Commands, Started(p, k)
  PROVE  /\ proc'[p].pc \in {"unpack", "register", "build", "skip", "check"} /\ proc'[p].cmd = k
         /\ k.op \in {"add", "remove", "build", "check"}
         /\ k.op = "add" => proc'[p].pc = "unpack"
         /\ k.op = "remove" => proc'[p].pc = "register"
  BY CommandFacts DEF Started

LEMMA MeetStep == TypeInv /\ PlaceInv /\ MeetInv /\ [Next]_vars => MeetInv'
<1> SUFFICES ASSUME TypeInv, PlaceInv, MeetInv, [Next]_vars,
                    NEW p \in Procs, NEW q \in Procs \ {p},
                    proc'[p].pc \in Phases, proc'[q].pc \in Phases
             PROVE  ~proc'[p].alone /\ (~raced' => proc'[p].cmd.op \in {"build", "check"})
  BY DEF MeetInv, Active
<1>0. "done" \notin Phases /\ p \in Procs \ {q}
  BY DEF Phases
<1>a. Active(p) /\ Active(q) => ~proc[p].alone /\ (~raced => proc[p].cmd.op \in {"build", "check"})
  BY DEF MeetInv
<1>1. CASE UNCHANGED vars
  BY <1>a, <1>1 DEF vars, Active
<1>2. ASSUME NEW b \in Procs, Begin(b)
      PROVE  ~proc'[p].alone /\ (~raced' => proc'[p].cmd.op \in {"build", "check"})
  <2>0. raced => raced'
    BY <1>2, BeginFields
  <2>1. CASE b = p
    <3>1. PICK k \in Commands : Started(p, k)
      BY <1>0, <1>2, <2>1, BeginFields
    <3>2. Active(q)
      BY <1>2, <2>1, BeginOthers DEF Active
    <3>3. proc'[p].cmd = k /\ k.op \in {"add", "remove", "build", "check"}
      BY <3>1, StartedPhase
    <3> QED
      BY <3>1, <3>2, <3>3 DEF Started, Meets
  <2>2. CASE b = q
    <3>1. PICK k \in Commands : Started(q, k)
      BY <1>0, <1>2, <2>2, BeginFields
    <3>2. /\ Active(p) /\ proc'[p].cmd = proc[p].cmd /\ ~proc'[p].alone
      BY <1>0, <1>2, <2>2, BeginOthers DEF Active, Like
    <3>3. proc[p].cmd.op \in {"add", "remove", "build", "check"}
      BY <3>2, TargetType, CommandFacts
    <3> QED
      BY <1>0, <3>1, <3>2, <3>3 DEF Started, Meets
  <2>3. CASE b # p /\ b # q
    <3>1. p \in Procs \ {b} /\ q \in Procs \ {b}
      BY <2>3
    <3>2. Active(p) /\ Active(q) /\ proc'[p].cmd = proc[p].cmd /\ ~proc'[p].alone
      BY <1>2, <3>1, BeginOthers DEF Active, Like
    <3> QED
      BY <1>a, <2>0, <3>2
  <2> QED
    BY <2>1, <2>2, <2>3
<1>3. ASSUME NEW b \in Procs, Step(b) \/ Crash(b)
      PROVE  ~proc'[p].alone /\ (~raced' => proc'[p].cmd.op \in {"build", "check"})
  <2>1. Moves(b) /\ (proc'[b].pc \in Phases => proc'[b].cmd = proc[b].cmd /\ proc'[b].alone = proc[b].alone)
    BY <1>3, StepShape
  <2>2. /\ Active(p) /\ Active(q)
        /\ proc'[p].cmd = proc[p].cmd /\ proc'[p].alone = proc[p].alone
    BY <2>1 DEF Moves, Active
  <2> QED
    BY <1>a, <2>1, <2>2 DEF Moves
<1>4. ASSUME NEW c \in Configs, Edit(c) \/ EditQuietly(c)
      PROVE  ~proc'[p].alone /\ (~raced' => proc'[p].cmd.op \in {"build", "check"})
  <2>1. /\ UNCHANGED raced
        /\ \A t \in Procs : /\ proc'[t].pc = proc[t].pc /\ Like(proc'[t], proc[t])
                            /\ Active(t) => ~proc'[t].alone
    BY <1>4, EditShape
  <2> QED
    BY <1>a, <2>1 DEF Active, Like
<1> QED
  BY <1>1, <1>2, <1>3, <1>4 DEF Next

LEMMA SaveStep == TypeInv /\ PlaceInv /\ MeetInv /\ SaveInv /\ [Next]_vars => SaveInv'
<1> DEFINE Good(p) == /\ proc'[p].alone \/ ~raced' => registry' = Torn
                      /\ ~raced' => \A q \in Procs \ {p} : proc'[q].pc # "save"
<1> SUFFICES ASSUME TypeInv, PlaceInv, MeetInv, SaveInv, [Next]_vars,
                    NEW p \in Procs, proc'[p].pc = "save"
             PROVE  Good(p)
  BY DEF SaveInv
<1>a. proc[p].pc = "save" =>
        /\ proc[p].alone \/ ~raced => registry = Torn
        /\ ~raced => \A q \in Procs \ {p} : proc[q].pc # "save"
        /\ Active(p)
  BY DEF SaveInv, Active, Phases
<1>1. CASE UNCHANGED vars
  BY <1>a, <1>1 DEF vars
<1>2. ASSUME NEW b \in Procs, Begin(b) PROVE Good(p)
  <2>0. (raced => raced') /\ UNCHANGED registry
    BY <1>2, BeginFields DEF Begin
  <2>1. proc'[b].pc # "save"
    BY <1>2, BeginFields, StartedPhase
  <2>2. \A q \in Procs \ {b} : /\ proc'[q].pc = proc[q].pc
                               /\ Active(q) => ~proc'[q].alone
    BY <1>2, BeginOthers
  <2> QED
    BY <1>a, <2>0, <2>1, <2>2
<1>3. ASSUME NEW b \in Procs, Step(b) \/ Crash(b) PROVE Good(p)
  <2>1. /\ Active(b) /\ (raced => raced')
        /\ \A q \in Procs \ {b} : proc'[q] = proc[q]
        /\ StartsSave(b) \/ EndsSave(b) \/ Works(b)
    BY <1>3, StepShape DEF Moves
  <2>2. CASE b = p
    BY <2>1, <2>2 DEF StartsSave, EndsSave, Works
  <2>3. CASE b # p
    <3>1. /\ proc[p].pc = "save" /\ Active(p) /\ proc'[p] = proc[p] /\ p \in Procs \ {b} /\ b \in Procs \ {p}
      BY <1>a, <2>1, <2>3
    <3>2. ~proc[p].alone
      BY <2>1, <3>1 DEF MeetInv
    <3>3. ~raced' => Works(b)
      BY <1>a, <2>1, <3>1 DEF StartsSave, EndsSave
    <3> QED
      BY <1>a, <2>1, <3>1, <3>2, <3>3 DEF Works
  <2> QED
    BY <2>2, <2>3
<1>4. ASSUME NEW c \in Configs, Edit(c) \/ EditQuietly(c) PROVE Good(p)
  <2>1. /\ UNCHANGED <<registry, raced>>
        /\ \A t \in Procs : /\ proc'[t].pc = proc[t].pc
                            /\ Active(t) => ~proc'[t].alone
    BY <1>4, EditShape
  <2> QED
    BY <1>a, <2>1
<1> QED
  BY <1>1, <1>2, <1>3, <1>4 DEF Next

\* No entries, no keys.
LEMMA NoKeys == Keys(NoEntries) = {}
  BY DEF Keys, NoEntries

LEMMA KeysStep ==
  TypeInv /\ PlaceInv /\ MeetInv /\ KeysInv /\ MeetInv' /\ [Next]_vars => KeysInv'
<1> DEFINE Agree(p, q) == proc'[p].pc \in Phases /\ proc'[q].pc \in Phases =>
                            Keys(proc'[p].entries) = Keys(proc'[q].entries)
           Filed(p) == proc'[p].pc \in Phases /\ registry'.kind = "ok" =>
                         Keys(proc'[p].entries) = Keys(registry'.entries)
<1> SUFFICES ASSUME TypeInv, PlaceInv, MeetInv, KeysInv, MeetInv', [Next]_vars, ~raced',
                    NEW p \in Procs, NEW q \in Procs
             PROVE  Agree(p, q) /\ Filed(p)
  BY DEF KeysInv, Active
<1>a. ~raced => \A t \in Procs : Active(t) =>
        /\ \A u \in Procs : Active(u) => Keys(proc[t].entries) = Keys(proc[u].entries)
        /\ registry.kind = "ok" => Keys(proc[t].entries) = Keys(registry.entries)
  BY DEF KeysInv
<1>1. CASE UNCHANGED vars
  BY <1>a, <1>1 DEF vars, Active
<1>2. ASSUME NEW b \in Procs, Begin(b) PROVE Agree(p, q) /\ Filed(p)
  <2>0. ~raced /\ UNCHANGED registry
    BY <1>2, BeginFields DEF Begin
  <2>1. \A t \in Procs \ {b} : /\ proc'[t].pc = proc[t].pc /\ proc'[t].entries = proc[t].entries
    BY <1>2, BeginOthers DEF Like
  <2>2. CASE proc'[b].pc = "done"
    BY <1>a, <2>0, <2>1, <2>2 DEF Active, Phases
  <2>3. ASSUME NEW k \in Commands, Started(b, k) PROVE Agree(p, q) /\ Filed(p)
    <3>1. proc'[b].entries = registry.entries /\ proc'[b].cmd = k /\ proc'[b].pc \in Phases
      BY <2>3, StartedPhase DEF Started, Phases
    <3>2. ASSUME NEW t \in Procs \ {b}, Active(t) PROVE Keys(proc[t].entries) = Keys(registry.entries)
      <4>1. proc'[t].pc \in Phases
        BY <2>1, <3>2 DEF Active
      <4>2. k.op \in {"build", "check"}
        BY <3>1, <4>1 DEF MeetInv, Active
      <4>3. Keys(registry.entries) # {}
        BY <2>3, <4>2 DEF Started, Selected
      <4>4. registry.kind = "ok"
        BY <4>3, NoKeys DEF TypeInv
      <4> QED
        BY <1>a, <2>0, <3>2, <4>4
    <3> QED
      BY <1>a, <2>0, <2>1, <3>1, <3>2 DEF Active
  <2> QED
    BY <1>2, <2>2, <2>3, BeginFields
<1>3. ASSUME NEW b \in Procs, Step(b) \/ Crash(b) PROVE Agree(p, q) /\ Filed(p)
  <2>1. /\ Active(b) /\ ~raced
        /\ \A t \in Procs \ {b} : proc'[t] = proc[t]
        /\ StartsSave(b) \/ EndsSave(b) \/ Works(b)
    BY <1>3, StepShape DEF Moves
  <2>2. CASE StartsSave(b)
    <3>1. registry'.kind # "ok"
      BY <2>2, FileFacts DEF StartsSave
    <3>2. \A t \in Procs \ {b} : Active(t) => Keys(proc'[b].entries) = Keys(proc[t].entries)
      BY <1>a, <2>1, <2>2 DEF StartsSave, MeetInv
    <3> QED
      BY <1>a, <2>1, <3>1, <3>2 DEF Active
  <2>3. CASE EndsSave(b)
    <3>1. proc[b].entries \in [Configs -> Flags]
      BY DEF TypeInv, Process
    <3>2. registry'.kind = "ok" => registry'.entries = proc[b].entries \/ UNCHANGED registry
      BY <2>3, <3>1, FileFacts DEF EndsSave
    <3>3. \A t \in Procs : proc'[t].pc \in Phases => Active(t) /\ proc'[t].entries = proc[t].entries
      BY <2>1, <2>3 DEF EndsSave, Active
    <3> QED
      BY <1>a, <2>1, <3>2, <3>3
  <2>4. CASE Works(b)
    <3>1. \A t \in Procs : proc'[t].pc \in Phases => Active(t) /\ proc'[t].entries = proc[t].entries
      BY <2>1, <2>4 DEF Works, Active
    <3> QED
      BY <1>a, <2>1, <2>4, <3>1 DEF Works
  <2> QED
    BY <2>1, <2>2, <2>3, <2>4
<1>4. ASSUME NEW c \in Configs, Edit(c) \/ EditQuietly(c) PROVE Agree(p, q) /\ Filed(p)
  <2>1. UNCHANGED <<registry, raced>> /\ \A t \in Procs : proc'[t].pc = proc[t].pc /\ proc'[t].entries = proc[t].entries
    BY <1>4, EditShape DEF Like
  <2> QED
    BY <1>a, <2>1 DEF Active
<1> QED
  BY <1>1, <1>2, <1>3, <1>4 DEF Next

-----------------------------------------------------------------------------
(* Sources *)

\* Where add and remove come from, and what they have done then.
LEMMA FlowOfMove ==
  ASSUME TypeInv, PlaceInv, NEW p \in Procs, Step(p) \/ Crash(p)
  PROVE  /\ proc'[p].pc # "unpack"
         /\ proc'[p].pc = "extract" => proc[p].pc = "unpack"
         /\ proc'[p].pc = "register" => /\ proc[p].pc = "extract" /\ proc[p].cmd.op = "add"
                                        /\ source'[Target(p)].state = "complete"
         /\ proc'[p].pc = "rm_source" => proc[p].pc = "save"
         /\ proc'[p].pc = "rm_derived" => proc[p].pc = "rm_source" /\ source'[Target(p)] = NoSource
         /\ proc'[p].pc = "save" => proc[p].pc \in {"register", "check", "mark"}
         /\ proc[p].pc \in {"unpack", "extract", "rm_source", "rm_derived"} /\ proc'[p].pc \notin {"done", "crashed"} =>
              Like(proc'[p], proc[p])
<1>0. Active(p) /\ Place(proc[p])
  BY StepMoves DEF Moves, PlaceInv
<1>1. CASE Crash(p)
  BY <1>1, CrashFields
<1>2. CASE FinishSave(p)
  <2>1. proc[p].pc = "save" /\ (proc'[p].pc = "done" \/ proc'[p].pc = AfterSave(proc[p].cmd))
    BY <1>0, <1>2, ReturnFields, GotoFields DEF FinishSave, Place, Active
  <2>2. AfterSave(proc[p].cmd) \in {"done", "rm_source", "check", "secondary"}
    BY DEF AfterSave
  <2> QED
    BY <2>1, <2>2
<1>3. CASE Unpack(p)
  <2>1. proc[p].pc = "unpack" /\ proc'[p].pc = "extract" /\ Like(proc'[p], proc[p])
    BY <1>3, GotoFields DEF Unpack
  <2> QED
    BY <2>1
<1>4. CASE Extract(p)
  <2>1. PICK s \in {"empty", "partial", "complete"} :
          /\ source' = [source EXCEPT ![Target(p)] =
                           [state |-> s, of |-> IF s = "empty" THEN 0 ELSE now',
                            mtime |-> IF s = "empty" THEN 0 ELSE now', quiet |-> FALSE]]
          /\ IF s \in Accepted THEN Goto(p, "register") ELSE Return(p, 1)
    BY <1>4 DEF Extract
  <2>2. proc[p].pc = "extract" /\ proc[p].cmd.op = "add" /\ Target(p) \in Configs
    BY <1>0, <1>4, TargetType DEF Extract, Place, OpsAt, Active
  <2>3. source'[Target(p)].state = s
    BY <2>1, <2>2 DEF TypeInv
  <2>4. \/ proc'[p].pc = "done"
        \/ proc'[p].pc = "register" /\ s = "complete" /\ Like(proc'[p], proc[p])
    BY <2>1, ReturnFields, GotoFields DEF Accepted
  <2> QED
    BY <2>2, <2>3, <2>4
<1>5. CASE Register(p)
  <2>1. proc'[p].pc = "save" /\ proc[p].pc = "register"
    BY <1>5, RegisterFields DEF Register
  <2> QED
    BY <2>1
<1>6. CASE RmSource(p)
  <2>1. proc[p].pc = "rm_source" /\ proc'[p].pc = "rm_derived" /\ Like(proc'[p], proc[p])
    BY <1>6, GotoFields DEF RmSource
  <2>2. Target(p) \in Configs
    BY <1>0, <2>1, TargetType DEF Place, OpsAt, Active
  <2>3. source'[Target(p)] = NoSource
    BY <1>6, <2>2 DEF RmSource, TypeInv
  <2> QED
    BY <2>1, <2>3
<1>7. CASE RmDerived(p)
  BY <1>7, ReturnFields DEF RmDerived
<1>8. CASE Check(p)
  <2>1. proc[p].pc = "check" /\ proc'[p].pc \in {"done", "save"}
    BY <1>8, CheckFields DEF Check
  <2> QED
    BY <2>1
<1>9. CASE Skip(p)
  <2>1. proc[p].pc = "skip" /\ proc'[p].pc \in {"done", "build", "skip"}
    BY <1>9, SkipFields DEF Skip
  <2> QED
    BY <2>1
<1>10. CASE Build(p)
  <2>1. proc[p].pc = "build" /\ proc'[p].pc \in {"done", "open_index"}
    BY <1>10, BuildFields DEF Build
  <2> QED
    BY <2>1
<1>11. CASE OpenIndex(p)
  <2>1. proc[p].pc = "open_index" /\ proc'[p].pc = "write_index"
    BY <1>11, GotoFields DEF OpenIndex
  <2> QED
    BY <2>1
<1>12. CASE WriteIndex(p)
  <2>1. proc[p].pc = "write_index" /\ proc'[p].pc \in {"mark", "secondary"}
    BY <1>12, GotoFields DEF WriteIndex
  <2> QED
    BY <2>1
<1>13. CASE Mark(p)
  <2>1. proc[p].pc = "mark" /\ proc'[p].pc = "save"
    BY <1>13, MarkFields DEF Mark
  <2> QED
    BY <2>1
<1>14. CASE BuildSecondary(p)
  <2>1. proc[p].pc = "secondary" /\ proc'[p].pc \in {"done", "build", "open_index", "secondary"}
    BY <1>14, SecondaryFields DEF BuildSecondary
  <2> QED
    BY <2>1
<1> QED
  BY <1>1, <1>2, <1>3, <1>4, <1>5, <1>6, <1>7, <1>8, <1>9, <1>10, <1>11, <1>12, <1>13, <1>14 DEF Step

\* Only add and remove touch sources, those of their configuration.
LEMMA SourceMove ==
  ASSUME TypeInv, PlaceInv, NEW p \in Procs, Step(p) \/ Crash(p), NEW c \in Configs
  PROVE  \/ source'[c] = source[c]
         \/ c = Target(p) /\ proc[p].pc \in {"unpack", "extract", "rm_source"}
<1>1. CASE Crash(p)
  BY <1>1, CrashFields
<1>2. CASE Unpack(p) \/ Extract(p) \/ RmSource(p)
  <2>1. PICK v : source' = [source EXCEPT ![Target(p)] = v]
    BY <1>2 DEF Unpack, Extract, RmSource
  <2>2. proc[p].pc \in {"unpack", "extract", "rm_source"}
    BY <1>2 DEF Unpack, Extract, RmSource
  <2> QED
    BY <2>1, <2>2 DEF TypeInv
<1>3. CASE UNCHANGED source
  BY <1>3
<1> QED
  BY <1>1, <1>2, <1>3 DEF Step, FinishSave, Register, RmDerived, Check, Skip, Build, OpenIndex, WriteIndex,
                          Mark, BuildSecondary

LEMMA UsableStep ==
  TypeInv /\ PlaceInv /\ MeetInv /\ KeysInv /\ UsableInv /\ [Next]_vars => UsableInv'
<1> DEFINE Complete(c) == source'[c].state = "complete"
           Filed == \A c \in Keys(registry'.entries) : Complete(c)
           Held(p) == \A c \in Keys(proc'[p].entries) : Complete(c)
           Out(p) == Outside(proc'[p]) => <<proc'[p].cmd.name, proc'[p].cmd.version>> \notin Keys(proc'[p].entries)
           Unpacked(p) == proc'[p].pc = "register" => Complete(<<proc'[p].cmd.name, proc'[p].cmd.version>>)
           Good(p) == proc'[p].pc \in Phases => Held(p) /\ Out(p) /\ Unpacked(p)
<1> SUFFICES ASSUME TypeInv, PlaceInv, MeetInv, KeysInv, UsableInv, [Next]_vars, ~raced'
             PROVE  Filed /\ \A p \in Procs : Good(p)
  BY DEF UsableInv, Active, Target
<1> USE DEF Target
<1>a. ~raced =>
        /\ \A c \in Keys(registry.entries) : source[c].state = "complete"
        /\ \A t \in Procs : Active(t) =>
             /\ \A c \in Keys(proc[t].entries) : source[c].state = "complete"
             /\ Outside(proc[t]) => Target(t) \notin Keys(proc[t].entries)
             /\ proc[t].pc = "register" => source[Target(t)].state = "complete"
  BY DEF UsableInv
<1>b. \A e : Keys(e) \subseteq Configs
  BY DEF Keys
<1>1. CASE UNCHANGED vars
  BY <1>a, <1>1 DEF vars, Active
<1>2. ASSUME NEW b \in Procs, Begin(b) PROVE Filed /\ \A p \in Procs : Good(p)
  <2>0. ~raced /\ UNCHANGED <<registry, source>>
    BY <1>2, BeginFields DEF Begin
  <2>1. Filed
    BY <1>a, <2>0
  <2> SUFFICES ASSUME NEW p \in Procs PROVE Good(p)
    BY <2>1
  <2>2. CASE b # p
    <3>1. p \in Procs \ {b}
      BY <2>2
    <3>2. proc'[p].pc = proc[p].pc /\ Like(proc'[p], proc[p])
      BY <1>2, <3>1, BeginOthers
    <3>3. Outside(proc'[p]) = Outside(proc[p])
      BY <3>2 DEF Outside, Like
    <3> QED
      BY <1>a, <2>0, <2>1, <3>2, <3>3 DEF Active, Like
  <2>3. CASE b = p
    <3>1. CASE proc'[p].pc = "done"
      BY <2>1, <3>1 DEF Phases
    <3>2. ASSUME NEW k \in Commands, Started(p, k) PROVE Good(p)
      <4>1. Held(p)
        BY <2>0, <2>1, <3>2 DEF Started
      <4>2. k.op \in {"add", "remove", "build", "check"} /\ proc'[p].cmd = k
        BY <3>2, StartedPhase
      <4>3. Outside(proc'[p]) => k.op = "add"
        BY <3>2, <4>2, StartedPhase DEF Started, Outside
      <4>4. Out(p)
        BY <3>2, <4>2, <4>3 DEF Started, Keys
      <4>5. Unpacked(p)
        <5>1. proc'[p].pc = "register" => k.op = "remove"
          BY <3>2, <4>2 DEF Started
        <5>2. k.op = "remove" => <<k.name, k.version>> \in Keys(registry.entries)
          BY <3>2, CommandFacts DEF Started, Keys
        <5> QED
          BY <1>a, <2>0, <4>2, <5>1, <5>2
      <4> QED
        BY <2>1, <4>1, <4>4, <4>5
    <3> QED
      BY <1>2, <2>3, <3>1, <3>2, BeginFields
  <2> QED
    BY <2>2, <2>3
<1>3. ASSUME NEW b \in Procs, Step(b) \/ Crash(b) PROVE Filed /\ \A p \in Procs : Good(p)
  <2>1. /\ Active(b) /\ ~raced
        /\ \A t \in Procs \ {b} : proc'[t] = proc[t]
        /\ proc'[b].pc \in Phases => proc'[b].cmd = proc[b].cmd
        /\ StartsSave(b) \/ EndsSave(b) \/ Works(b)
    BY <1>3, StepShape DEF Moves
  <2>2. proc[b].entries \in [Configs -> Flags] /\ Place(proc[b]) /\ proc[b].pc \in Phases
    BY <2>1 DEF TypeInv, Process, PlaceInv, Active
  <2>3. proc[b].pc \in {"unpack", "extract", "rm_source"} => proc[b].cmd.op \in {"add", "remove"} /\ Outside(proc[b])
    BY <2>2 DEF Place, OpsAt, Outside
  \* What is registered, or held by a running command, is not touched.
  <2>4. ASSUME NEW c \in Configs,
               c \in Keys(registry.entries) \/ \E t \in Procs : Active(t) /\ c \in Keys(proc[t].entries)
        PROVE  source'[c].state = "complete"
    <3>1. source[c].state = "complete"
      BY <1>a, <2>1, <2>4
    <3>2. CASE source'[c] = source[c]
      BY <3>1, <3>2
    <3>3. CASE source'[c] # source[c]
      <4>1. c = Target(b) /\ proc[b].pc \in {"unpack", "extract", "rm_source"}
        BY <1>3, <3>3, SourceMove
      <4>2. \A t \in Procs \ {b} : ~Active(t)
        BY <2>1, <2>3, <4>1 DEF MeetInv
      <4>3. c \notin Keys(proc[b].entries)
        BY <1>a, <2>1, <2>3, <4>1
      <4>4. registry.kind = "ok" => Keys(proc[b].entries) = Keys(registry.entries)
        BY <2>1 DEF KeysInv
      <4>5. registry.kind # "ok" => Keys(registry.entries) = {}
        BY NoKeys DEF TypeInv
      <4> QED
        BY <2>4, <4>2, <4>3, <4>4, <4>5
    <3> QED
      BY <3>2, <3>3
  <2>5. Filed
    <3>1. \/ registry'.entries = registry.entries
          \/ registry'.entries = NoEntries
          \/ registry'.entries = proc[b].entries
      BY <2>1, <2>2, FileFacts DEF StartsSave, EndsSave, Works
    <3> QED
      BY <1>b, <2>1, <2>4, <3>1, NoKeys
  <2> SUFFICES ASSUME NEW p \in Procs PROVE Good(p)
    BY <2>5
  <2>6. CASE b # p
    <3>1. proc'[p] = proc[p]
      BY <2>1, <2>6
    <3>2. ASSUME Active(p) PROVE Held(p) /\ Out(p) /\ Unpacked(p)
      <4>1. Held(p)
        BY <1>b, <2>4, <3>1, <3>2
      <4>2. Out(p)
        BY <1>a, <2>1, <3>1, <3>2
      <4>3. ASSUME proc[p].pc = "register" PROVE FALSE \/ Unpacked(p)
        <5>1. proc[p].cmd.op \in {"add", "remove"} /\ <<proc[p].cmd.name, proc[p].cmd.version>> \in Configs
          BY <3>2, <4>3, TargetType DEF Place, OpsAt, Active
        <5>2. proc[b].cmd.op \in {"build", "check"} /\ proc[p].cmd.op \in {"build", "check"}
          BY <2>1, <2>6, <3>2 DEF MeetInv
        <5> QED
          BY <5>1, <5>2
      <4> QED
        BY <3>1, <4>1, <4>2, <4>3
    <3> QED
      BY <2>5, <3>1, <3>2 DEF Active
  <2>7. CASE b = p
    <3> SUFFICES ASSUME proc'[p].pc \in Phases PROVE Held(p) /\ Out(p) /\ Unpacked(p)
      BY <2>5
    <3>0. proc'[p].cmd = proc[p].cmd /\ "done" \notin Phases /\ "crashed" \notin Phases
      BY <2>1, <2>7 DEF Phases
    <3>1. Unpacked(p)
      BY <1>3, <2>7, <3>0, FlowOfMove
    <3>2. CASE proc[p].pc = "register" /\ proc'[p].pc = "save"
      <4>1. proc[p].cmd.op \in {"add", "remove"} /\ Target(p) \in Configs
        BY <2>1, <2>2, <2>7, <3>2, TargetType DEF Place, OpsAt
      <4>2. CASE proc[p].cmd.op = "add"
        <5>1. proc'[p].entries = Add(proc[p].entries, Target(p))
          BY <2>1, <2>7, <3>2, <4>2 DEF StartsSave, EndsSave, Works
        <5>2. Keys(proc'[p].entries) = Keys(proc[p].entries) \cup {Target(p)}
          BY <2>2, <2>7, <4>1, <5>1, EntryFacts
        <5>3. source[Target(p)].state = "complete" /\ source'[Target(p)] = source[Target(p)]
          BY <1>3, <1>a, <2>1, <2>7, <3>2, <4>1, SourceMove
        <5>4. Held(p)
          BY <1>b, <2>1, <2>4, <2>7, <5>2, <5>3
        <5>5. ~Outside(proc'[p])
          BY <3>0, <3>2, <4>2 DEF Outside
        <5> QED
          BY <3>1, <5>4, <5>5
      <4>3. CASE proc[p].cmd.op = "remove"
        <5>1. proc'[p].entries = Remove(proc[p].entries, Target(p))
          BY <2>1, <2>7, <3>2, <4>3 DEF StartsSave, EndsSave, Works
        <5>2. Keys(proc'[p].entries) = Keys(proc[p].entries) \ {Target(p)}
          BY <2>2, <2>7, <4>1, <5>1, EntryFacts
        <5> QED
          BY <1>b, <2>1, <2>4, <2>7, <3>0, <3>1, <5>2
      <4> QED
        BY <4>1, <4>2, <4>3
    <3>3. CASE ~(proc[p].pc = "register" /\ proc'[p].pc = "save")
      <4>1. Keys(proc'[p].entries) = Keys(proc[p].entries)
        BY <2>1, <2>7, <3>3 DEF StartsSave, EndsSave, Works
      <4>2. Held(p)
        BY <1>b, <2>1, <2>4, <2>7, <4>1
      <4>3. ASSUME Outside(proc'[p]) PROVE Outside(proc[p])
        <5>1. CASE proc'[p].pc = "save"
          <6>1. proc[p].pc \in {"check", "mark"} /\ proc[p].cmd.op = "remove"
            BY <1>3, <2>7, <3>0, <3>3, <4>3, <5>1, FlowOfMove DEF Outside
          <6> QED
            BY <2>2, <2>7, <6>1 DEF Place, OpsAt
        <5>2. CASE proc'[p].pc = "rm_source"
          <6>1. proc[p].pc = "save" /\ proc[p].cmd.op = "remove"
            BY <1>3, <2>7, <3>0, <4>3, <5>2, FlowOfMove DEF Outside
          <6> QED
            BY <6>1 DEF Outside
        <5>3. CASE proc'[p].pc \in {"extract", "register", "rm_derived"}
          <6>1. proc[p].pc \in {"unpack", "extract", "rm_source"}
            BY <1>3, <2>7, <5>3, FlowOfMove
          <6> QED
            BY <2>3, <2>7, <6>1
        <5>4. proc'[p].pc # "unpack"
          BY <1>3, <2>7, FlowOfMove
        <5> QED
          BY <4>3, <5>1, <5>2, <5>3, <5>4 DEF Outside
      <4>4. Out(p)
        BY <1>a, <2>1, <2>7, <3>0, <4>1, <4>3
      <4> QED
        BY <3>1, <4>2, <4>4
    <3> QED
      BY <3>2, <3>3
  <2> QED
    BY <2>6, <2>7
<1>4. ASSUME NEW d \in Configs, Edit(d) \/ EditQuietly(d) PROVE Filed /\ \A p \in Procs : Good(p)
  <2>0. UNCHANGED <<registry, raced>>
    BY <1>4, EditShape
  <2>a. Filed
    BY <1>4, <1>a, <1>b, <2>0, EditShape
  <2> SUFFICES ASSUME NEW p \in Procs PROVE Good(p)
    BY <2>a
  <2>1. proc'[p].pc = proc[p].pc /\ Like(proc'[p], proc[p])
    BY <1>4, EditShape
  <2>2. \A c \in Configs : source[c].state = "complete" => source'[c].state = "complete"
    BY <1>4, EditShape
  <2>3. Outside(proc'[p]) = Outside(proc[p])
    BY <2>1 DEF Outside, Like
  <2>4. ASSUME Active(p), proc[p].pc = "register" PROVE Target(p) \in Configs
    BY <2>4, TargetType DEF Place, OpsAt, Active
  <2> QED
    BY <1>a, <1>b, <2>0, <2>1, <2>2, <2>3, <2>4 DEF Active, Like
<1> QED
  BY <1>1, <1>2, <1>3, <1>4 DEF Next

-----------------------------------------------------------------------------
(* Times *)

\* A source stays, or is no longer complete, or is newer than all that was read
\* so far, or has changed in a way that leaves no time.
Ages(c) ==
  \/ source'[c] = source[c]
  \/ source'[c].state # "complete" /\ source'[c].mtime \in {0, source[c].mtime, now'}
  \/ /\ now' = now + 1
     /\ \/ source'[c].mtime = now'
        \/ source'[c].mtime = now /\ source[c].state = "complete"
  \/ /\ source[c].state = "complete" /\ source'[c].mtime = source[c].mtime
     /\ source'[c].quiet \/ (source'[c].quiet = source[c].quiet /\ source'[c].of = source[c].of)

LEMMA SourceAges ==
  ASSUME TypeInv, PlaceInv, Next
  PROVE  /\ now \in Nat /\ now' \in {now, now + 1}
         /\ \A c \in Configs : Ages(c)
<1>0. now \in Nat
  BY ConfigAssumption DEF TypeInv
<1>1. ASSUME NEW p \in Procs, Begin(p) PROVE now' = now /\ \A c \in Configs : Ages(c)
  BY <1>1 DEF Begin, Ages
<1>2. ASSUME NEW p \in Procs, Crash(p) PROVE now' = now /\ \A c \in Configs : Ages(c)
  <2>1. now' = now
    BY <1>2 DEF Crash
  <2> QED
    BY <1>2, <2>1, CrashFields DEF Ages
<1>3. ASSUME NEW p \in Procs, Unpack(p) \/ RmSource(p) PROVE now' = now /\ \A c \in Configs : Ages(c)
  <2>1. now' = now /\ \E v \in {NoSource, EmptySource} : source' = [source EXCEPT ![Target(p)] = v]
    BY <1>3 DEF Unpack, RmSource
  <2>2. PICK v \in {NoSource, EmptySource} : source' = [source EXCEPT ![Target(p)] = v]
    BY <2>1
  <2>3. v.state # "complete" /\ v.mtime = 0
    BY SourceFacts
  <2> QED
    BY <2>1, <2>2, <2>3 DEF Ages, TypeInv
<1>4. ASSUME NEW p \in Procs, Extract(p) PROVE now' = now + 1 /\ \A c \in Configs : Ages(c)
  <2>1. now' = now + 1
    BY <1>4 DEF Extract
  <2>2. PICK s \in {"empty", "partial", "complete"} :
          source' = [source EXCEPT ![Target(p)] =
                       [state |-> s, of |-> IF s = "empty" THEN 0 ELSE now',
                        mtime |-> IF s = "empty" THEN 0 ELSE now', quiet |-> FALSE]]
    BY <1>4 DEF Extract
  <2>3. ASSUME NEW c \in Configs PROVE Ages(c)
    <3>1. CASE c = Target(p)
      <4>1. source'[c] = [state |-> s, of |-> IF s = "empty" THEN 0 ELSE now',
                          mtime |-> IF s = "empty" THEN 0 ELSE now', quiet |-> FALSE]
        BY <2>2, <3>1 DEF TypeInv
      <4>2. /\ source'[c].state = s
            /\ source'[c].mtime = IF s = "empty" THEN 0 ELSE now'
        BY <4>1
      <4>3. CASE s = "complete"
        BY <2>1, <4>2, <4>3 DEF Ages
      <4>4. CASE s # "complete"
        BY <4>2, <4>4 DEF Ages
      <4> QED
        BY <4>3, <4>4
    <3>2. CASE c # Target(p)
      BY <2>2, <3>2 DEF Ages, TypeInv
    <3> QED
      BY <3>1, <3>2
  <2> QED
    BY <2>1, <2>3
<1>5. ASSUME NEW p \in Procs, Step(p), ~Extract(p), ~Unpack(p), ~RmSource(p)
      PROVE  now' = now /\ \A c \in Configs : Ages(c)
  BY <1>5 DEF Step, FinishSave, Register, RmDerived, Check, Skip, Build, OpenIndex, WriteIndex, Mark,
              BuildSecondary, Ages
<1>6. ASSUME NEW d \in Configs, Edit(d) \/ EditQuietly(d)
      PROVE  now' = now + 1 /\ \A c \in Configs : Ages(c)
  BY <1>6, EditShape DEF Ages
<1> QED
  BY <1>0, <1>1, <1>2, <1>3, <1>4, <1>5, <1>6 DEF Next

\* What was current stays current, by its own terms.
LEMMA CurrentStays ==
  ASSUME TypeInv, PlaceInv, TimeInv, Next,
         NEW c \in Configs, NEW of, NEW t \in Nat, t <= now, Current(c, of, t)
  PROVE  source'[c].state = "complete" => of = source'[c].of \/ source'[c].quiet \/ source'[c].mtime >= t
<1>1. now \in Nat /\ now' \in {now, now + 1} /\ Ages(c)
  BY SourceAges
<1>2. source[c] \in Source
  BY DEF TypeInv
<1> QED
  BY <1>1, <1>2 DEF Ages, Current, Source

\* Whole indexes are written by builds, from what they have read.
LEMMA IndexMove ==
  ASSUME TypeInv, PlaceInv, NEW p \in Procs, Step(p) \/ Crash(p), NEW c \in Configs, NEW i \in AllIndexes
  PROVE  \/ index'[c][i] = index[c][i]
         \/ index'[c][i].state # "whole"
         \/ /\ proc[p].pc = "write_index" /\ c = proc[p].cur
            /\ index'[c][i].read = proc[p].read.at /\ index'[c][i].of = proc[p].read.of
<1>1. CASE RmDerived(p)
  <2>1. index' = [index EXCEPT ![Target(p)] = NoIndexes]
    BY <1>1 DEF RmDerived, RemoveIndexes
  <2> QED
    BY <2>1, SourceFacts DEF TypeInv
<1>2. CASE OpenIndex(p) \/ WriteIndex(p)
  <2>1. [NoIndex EXCEPT !.state = "torn", !.mtime = now].state = "torn"
    BY DEF NoIndex
  <2> DEFINE written == [state |-> "whole", of |-> proc[p].read.of, read |-> proc[p].read.at, mtime |-> now]
             torn == [NoIndex EXCEPT !.state = "torn", !.mtime = now]
  <2>a. SetIndex(p, torn) \/ (proc[p].pc = "write_index" /\ SetIndex(p, written))
    BY <1>2 DEF OpenIndex, WriteIndex
  <2>b. written.read = proc[p].read.at /\ written.of = proc[p].read.of
    OBVIOUS
  <2> HIDE DEF written, torn
  <2>2. PICK v :
          /\ SetIndex(p, v)
          /\ \/ v.state # "whole"
             \/ /\ proc[p].pc = "write_index"
                /\ v.read = proc[p].read.at /\ v.of = proc[p].read.of
    BY <2>1, <2>a, <2>b DEF torn
  <2>3. \/ index'[c][i] = index[c][i]
        \/ c = proc[p].cur /\ index'[c][i] = v
    <3>1. index' = [index EXCEPT ![proc[p].cur][Order[proc[p].ix]] = v]
      BY <2>2 DEF SetIndex
    <3>2. index[c] \in [AllIndexes -> Index]
      BY DEF TypeInv
    <3> QED
      BY <3>1, <3>2 DEF TypeInv
  <2> QED
    BY <2>2, <2>3
<1>3. CASE UNCHANGED index
  BY <1>3
<1> QED
  BY <1>1, <1>2, <1>3 DEF Step, Crash, FinishSave, Unpack, Extract, Register, RmSource, Check, Skip, Build,
                          Mark, BuildSecondary

\* What a build has in hand was read now, or before it opened the index.
LEMMA ReadMove ==
  ASSUME TypeInv, PlaceInv, NEW p \in Procs, Step(p) \/ Crash(p),
         proc'[p].pc \in {"open_index", "write_index"}
  PROVE  \/ /\ proc[p].pc = "open_index" /\ proc'[p].pc = "write_index" /\ Like(proc'[p], proc[p])
         \/ /\ proc[p].pc \in {"build", "secondary"} /\ UNCHANGED source
            /\ proc'[p].cur \in Configs
            /\ proc'[p].read.of = source[proc'[p].cur].of /\ proc'[p].read.at = now
<1>0. Active(p) /\ Place(proc[p]) /\ proc[p] \in Process
  BY StepMoves DEF Moves, PlaceInv, TypeInv
<1>1. CASE Build(p)
  <2>1. UNCHANGED source /\ proc[p].pc = "build" /\ proc[p].todo \subseteq Configs
    BY <1>0, <1>1 DEF Build, Process
  <2> QED
    BY <1>1, <2>1, BuildFields
<1>2. CASE BuildSecondary(p)
  <2>1. UNCHANGED source /\ proc[p].pc = "secondary" /\ proc[p].cur \in Configs
    BY <1>0, <1>2 DEF BuildSecondary, Place, Indexing, Selected, Keys, Active
  <2> QED
    BY <1>2, <2>1, SecondaryFields
<1>3. CASE OpenIndex(p)
  <2>1. proc[p].pc = "open_index" /\ proc'[p].pc = "write_index" /\ Like(proc'[p], proc[p])
    BY <1>3, GotoFields DEF OpenIndex
  <2> QED
    BY <2>1
<1>4. CASE WriteIndex(p)
  <2>1. proc'[p].pc \in {"mark", "secondary"}
    BY <1>4, GotoFields DEF WriteIndex
  <2> QED
    BY <2>1
<1>5. CASE Crash(p)
  BY <1>5, CrashFields
<1>6. CASE FinishSave(p)
  <2>1. proc'[p].pc = "done" \/ proc'[p].pc = AfterSave(proc[p].cmd)
    BY <1>0, <1>6, ReturnFields, GotoFields DEF FinishSave, Place, Active
  <2>2. AfterSave(proc[p].cmd) \in {"done", "rm_source", "check", "secondary"}
    BY DEF AfterSave
  <2> QED
    BY <2>1, <2>2
<1>7. CASE Unpack(p) \/ RmSource(p) \/ RmDerived(p) \/ Extract(p)
  <2>1. proc'[p].pc \in {"extract", "rm_derived", "register", "done"}
    <3>1. Goto(p, "extract") \/ Goto(p, "rm_derived") \/ Goto(p, "register") \/ Return(p, 0) \/ Return(p, 1)
      BY <1>7 DEF Unpack, RmSource, RmDerived, Extract
    <3> QED
      BY <3>1, GotoFields, ReturnFields
  <2> QED
    BY <2>1
<1>8. CASE Register(p)
  BY <1>8, RegisterFields
<1>9. CASE Check(p)
  BY <1>9, CheckFields
<1>10. CASE Skip(p)
  BY <1>10, SkipFields
<1>11. CASE Mark(p)
  BY <1>11, MarkFields
<1> QED
  BY <1>1, <1>2, <1>3, <1>4, <1>5, <1>6, <1>7, <1>8, <1>9, <1>10, <1>11 DEF Step

LEMMA TimeStep == TypeInv /\ PlaceInv /\ TimeInv /\ [Next]_vars => TimeInv'
<1> DEFINE Alive(c, of, t) ==
             source'[c].state = "complete" => of = source'[c].of \/ source'[c].quiet \/ source'[c].mtime >= t
           Aged(c) == /\ source'[c].mtime <= now'
                      /\ source'[c].state = "complete" => source'[c].mtime >= 1
           Indexed(c) == \A i \in AllIndexes : index'[c][i].state = "whole" =>
                           index'[c][i].read <= now' /\ Alive(c, index'[c][i].of, index'[c][i].read)
           Read(p) == proc'[p].pc \in {"open_index", "write_index"} =>
                        proc'[p].read.at <= now' /\ Alive(proc'[p].cur, proc'[p].read.of, proc'[p].read.at)
<1> SUFFICES ASSUME TypeInv, PlaceInv, TimeInv, Next
             PROVE  (\A c \in Configs : Aged(c) /\ Indexed(c)) /\ \A p \in Procs : Read(p)
  <2>1. ASSUME TypeInv, PlaceInv, TimeInv, UNCHANGED vars PROVE TimeInv'
    BY <2>1 DEF TimeInv, Current, vars
  <2>2. ASSUME (\A c \in Configs : Aged(c) /\ Indexed(c)) /\ \A p \in Procs : Read(p) PROVE TimeInv'
    BY <2>2 DEF TimeInv, Current
  <2> QED
    BY <2>1, <2>2
<1>1. /\ now \in Nat /\ now' \in {now, now + 1} /\ \A c \in Configs : Ages(c)
  BY SourceAges
<1>2. ASSUME NEW c \in Configs PROVE Aged(c)
  <2>1. source[c] \in Source /\ source[c].mtime <= now /\ (source[c].state = "complete" => source[c].mtime >= 1)
    BY DEF TypeInv, TimeInv
  <2> QED
    BY <1>1, <2>1 DEF Ages, Source
<1>3. ASSUME NEW c \in Configs, NEW of, NEW t \in Nat, t <= now, Current(c, of, t)
      PROVE  Alive(c, of, t)
  BY <1>3, CurrentStays
<1>4. ASSUME NEW c \in Configs, NEW i \in AllIndexes, index'[c][i] = index[c][i], index[c][i].state = "whole"
      PROVE  index'[c][i].read <= now' /\ Alive(c, index'[c][i].of, index'[c][i].read)
  <2>1. index[c][i].read \in Nat /\ index[c][i].read <= now /\ Current(c, index[c][i].of, index[c][i].read)
    BY <1>4 DEF TypeInv, TimeInv, Index
  <2>2. Alive(c, index[c][i].of, index[c][i].read)
    BY <1>3, <2>1
  <2> HIDE DEF Alive
  <2> QED
    BY <1>1, <1>4, <2>1, <2>2
\* What a process has read stays current as long as it is used.
<1>5. ASSUME NEW p \in Procs, proc[p].pc \in {"open_index", "write_index"}
      PROVE  /\ proc[p].cur \in Configs /\ proc[p].read.at \in Nat /\ proc[p].read.at <= now'
             /\ Alive(proc[p].cur, proc[p].read.of, proc[p].read.at)
  <2>1. proc[p].cur \in Configs
    BY <1>5 DEF PlaceInv, Place, Indexing, Selected, Keys, Phases
  <2>2. proc[p].read.at \in Nat
    BY DEF TypeInv, Process
  <2>3. proc[p].read.at <= now /\ Current(proc[p].cur, proc[p].read.of, proc[p].read.at)
    BY <1>5 DEF TimeInv
  <2>4. Alive(proc[p].cur, proc[p].read.of, proc[p].read.at)
    BY <1>3, <2>1, <2>2, <2>3
  <2> HIDE DEF Alive
  <2> QED
    BY <1>1, <2>1, <2>2, <2>3, <2>4
<1>6. ASSUME NEW p \in Procs, proc'[p].pc = proc[p].pc, proc'[p].cur = proc[p].cur, proc'[p].read = proc[p].read
      PROVE  Read(p)
  <2> HIDE DEF Alive
  <2> QED
    BY <1>5, <1>6
<1>7. ASSUME UNCHANGED index PROVE \A c \in Configs : Indexed(c)
  BY <1>4, <1>7
<1>8. ASSUME NEW b \in Procs, Begin(b)
      PROVE  (\A c \in Configs : Indexed(c)) /\ \A p \in Procs : Read(p)
  <2>1. UNCHANGED index
    BY <1>8 DEF Begin
  <2>2. Read(b)
    BY <1>8, BeginFields, StartedPhase
  <2>3. ASSUME NEW p \in Procs \ {b} PROVE Read(p)
    <3>1. proc'[p].pc = proc[p].pc /\ proc'[p].cur = proc[p].cur /\ proc'[p].read = proc[p].read
      BY <1>8, BeginOthers DEF Like
    <3> HIDE DEF Read
    <3> QED
      BY <1>6, <3>1
  <2> HIDE DEF Read, Indexed
  <2> QED
    BY <1>7, <2>1, <2>2, <2>3
<1>9. ASSUME NEW b \in Procs, Step(b) \/ Crash(b)
      PROVE  (\A c \in Configs : Indexed(c)) /\ \A p \in Procs : Read(p)
  <2>1. ASSUME NEW c \in Configs, NEW i \in AllIndexes, index'[c][i].state = "whole"
        PROVE  index'[c][i].read <= now' /\ Alive(c, index'[c][i].of, index'[c][i].read)
    <3>1. CASE index'[c][i] = index[c][i]
      <4> HIDE DEF Alive
      <4> QED
        BY <1>4, <2>1, <3>1
    <3>2. CASE index'[c][i] # index[c][i]
      <4>1. /\ proc[b].pc = "write_index" /\ c = proc[b].cur
            /\ index'[c][i].read = proc[b].read.at /\ index'[c][i].of = proc[b].read.of
        BY <1>9, <2>1, <3>2, IndexMove
      <4> HIDE DEF Alive
      <4> QED
        BY <1>5, <4>1
    <3> QED
      BY <3>1, <3>2
  <2>2. ASSUME NEW p \in Procs PROVE Read(p)
    <3>1. CASE p # b
      <4>1. proc'[p] = proc[p]
        BY <1>9, <3>1, StepMoves DEF Moves
      <4> HIDE DEF Read
      <4> QED
        BY <1>6, <4>1
    <3>2. CASE p = b /\ proc'[p].pc \in {"open_index", "write_index"}
      <4>1. CASE proc[p].pc = "open_index" /\ Like(proc'[p], proc[p])
        <5> HIDE DEF Alive
        <5> QED
          BY <1>5, <4>1 DEF Like
      <4>2. CASE /\ UNCHANGED source /\ proc'[p].cur \in Configs
                 /\ proc'[p].read.of = source[proc'[p].cur].of /\ proc'[p].read.at = now
        BY <1>1, <4>2
      <4> HIDE DEF Read
      <4> QED
        BY <1>9, <3>2, <4>1, <4>2, ReadMove
    <3>3. CASE proc'[p].pc \notin {"open_index", "write_index"}
      BY <3>3
    <3> QED
      BY <3>1, <3>2, <3>3
  <2> QED
    BY <2>1, <2>2
<1>10. ASSUME NEW d \in Configs, Edit(d) \/ EditQuietly(d)
      PROVE  (\A c \in Configs : Indexed(c)) /\ \A p \in Procs : Read(p)
  <2>1. UNCHANGED index
    BY <1>10 DEF Edit, EditQuietly
  <2>2. ASSUME NEW p \in Procs PROVE Read(p)
    <3>1. proc'[p].pc = proc[p].pc /\ proc'[p].cur = proc[p].cur /\ proc'[p].read = proc[p].read
      BY <1>10, EditShape DEF Like
    <3> HIDE DEF Read
    <3> QED
      BY <1>6, <3>1
  <2> HIDE DEF Read, Indexed
  <2> QED
    BY <1>7, <2>1, <2>2
<1> HIDE DEF Aged, Indexed, Read
<1> QED
  BY <1>2, <1>8, <1>9, <1>10 DEF Next

-----------------------------------------------------------------------------
(* Commands that nothing interferes with *)

LEMMA UndisturbedMove ==
  ASSUME TypeInv, PlaceInv, SaveInv, NEW p \in Procs, Step(p) \/ Crash(p),
         proc'[p].pc \in Phases, proc[p].alone, Undisturbed(p)
  PROVE  Undisturbed(p)'
<1> DEFINE r == proc[p]
           n == proc'[p]
<1>1. /\ n.cmd = r.cmd /\ Active(p) /\ "crashed" \notin Phases
      /\ StartsSave(p) \/ EndsSave(p) \/ Works(p)
  BY StepShape DEF Moves, Phases
<1>2. r.pc \in Phases /\ Place(r) /\ r.entries \in [Configs -> Flags]
  BY <1>1 DEF Active, PlaceInv, TypeInv, Process
<1>3. r.cmd.op \in {"add", "remove"} => Target(p) \in Configs
  BY <1>1, TargetType
<1>4. /\ Target(p) = <<r.cmd.name, r.cmd.version>>
      /\ <<n.cmd.name, n.cmd.version>> = Target(p)
  BY <1>1 DEF Target
<1>5. n.pc = "save" => StartsSave(p) /\ (r.cmd.op \in {"add", "remove"} => r.pc = "register")
  BY <1>1 DEF StartsSave, EndsSave, Works
<1>6. n.pc # "save" => registry'.entries = n.entries
  <2>1. CASE EndsSave(p)
    <3>1. registry = Torn
      BY <2>1 DEF EndsSave, SaveInv
    <3>2. registry' = Whole(r.entries) /\ n.entries = r.entries
      BY <1>1, <2>1, <3>1, FileFacts DEF EndsSave
    <3> QED
      BY <1>2, <3>2, FileFacts
  <2>2. CASE Works(p)
    BY <2>2 DEF Works, Undisturbed
  <2> QED
    BY <1>1, <2>1, <2>2 DEF StartsSave
<1>7. n.cmd.op = "add" /\ n.pc \in {"register", "save"} => source'[Target(p)].state = "complete"
  <2>1. n.pc = "register" => source'[Target(p)].state = "complete"
    BY FlowOfMove
  <2>2. ASSUME n.pc = "save", r.cmd.op = "add" PROVE source'[Target(p)].state = "complete"
    <3>1. r.pc = "register" /\ Target(p) \in Configs
      BY <1>3, <1>5, <2>2
    <3>2. source'[Target(p)] = source[Target(p)]
      BY <3>1, SourceMove
    <3> QED
      BY <2>2, <3>1, <3>2 DEF Undisturbed
  <2> QED
    BY <1>1, <2>1, <2>2
<1>8. n.cmd.op = "add" /\ n.pc = "save" => n.entries[Target(p)] # "none"
  BY <1>1, <1>2, <1>3, <1>5 DEF StartsSave, Add
<1>9. n.cmd.op = "remove" /\ n.pc \in {"save", "rm_source", "rm_derived"} => n.entries[Target(p)] = "none"
  <2>1. n.cmd.op = "remove" /\ n.pc = "save" => n.entries[Target(p)] = "none"
    BY <1>1, <1>2, <1>3, <1>5 DEF StartsSave, Remove
  <2>2. n.pc \in {"rm_source", "rm_derived"} => r.pc \in {"save", "rm_source"}
    BY FlowOfMove
  <2>3. n.pc \in {"rm_source", "rm_derived"} => n.entries = r.entries
    BY <1>1, <2>2 DEF StartsSave, EndsSave, Works, Phases
  <2> QED
    BY <1>1, <2>1, <2>2, <2>3 DEF Undisturbed
<1>10. n.pc \in {"rm_source", "rm_derived"} => registry'.kind = "ok"
  <2>1. n.pc = "rm_source" => registry'.kind = "ok"
    <3>1. ASSUME n.pc = "rm_source" PROVE registry = Torn /\ EndsSave(p)
      BY <1>1, <3>1, FlowOfMove DEF StartsSave, Works, SaveInv
    <3> QED
      BY <1>1, <1>2, <3>1, FileFacts DEF EndsSave
  <2>2. n.pc = "rm_derived" => r.pc = "rm_source"
    BY FlowOfMove
  <2> QED
    BY <1>1, <2>1, <2>2 DEF StartsSave, EndsSave, Works, Undisturbed
<1>11. n.pc = "rm_derived" => source'[Target(p)] = NoSource
  BY FlowOfMove
<1> HIDE DEF n
<1> QED
  BY <1>4, <1>6, <1>7, <1>8, <1>9, <1>10, <1>11 DEF Undisturbed, Target, n

\* The index of one configuration is of no other, and no later index is the first.
LEMMA IndexSet ==
  ASSUME TypeInv, NEW p \in Procs, NEW v, SetIndex(p, v), proc[p].cur \in Configs
  PROVE  /\ \A c \in Configs \ {proc[p].cur} : index'[c] = index[c]
         /\ index'[proc[p].cur][Order[proc[p].ix]] = v
         /\ proc[p].ix = 1 => index'[proc[p].cur]["unified_metadata"] = v
         /\ proc[p].ix > 1 =>
              index'[proc[p].cur]["unified_metadata"] = index[proc[p].cur]["unified_metadata"]
<1>1. index' = [index EXCEPT ![proc[p].cur][Order[proc[p].ix]] = v]
  BY DEF SetIndex
<1>2. index[proc[p].cur] \in [AllIndexes -> Index] /\ proc[p].ix \in 1..Len(Order)
  BY DEF TypeInv, Process
<1>3. Order[proc[p].ix] \in AllIndexes /\ (proc[p].ix > 1 => Order[proc[p].ix] # "unified_metadata")
  BY <1>2, OrderFacts
<1>4. "unified_metadata" \in AllIndexes /\ Order[1] = "unified_metadata"
  BY OrderFacts
<1> QED
  BY <1>1, <1>2, <1>3, <1>4 DEF TypeInv

LEMMA BuiltMove ==
  ASSUME TypeInv, PlaceInv, SaveInv, NEW p \in Procs, Step(p) \/ Crash(p),
         proc'[p].pc \in Phases, proc[p].alone, BuiltSoFar(p)
  PROVE  BuiltSoFar(p)'
<1> DEFINE r == proc[p]
           n == proc'[p]
           Chosen == Selected(r.entries, r.cmd)
           Is(c) == /\ index'[c]["unified_metadata"].state = "whole"
                    /\ index'[c]["unified_metadata"].of = source'[c].of
           Others == n.pc = "build" \/ Indexing(n) =>
                       \A c \in Selected(n.entries, n.cmd) \ n.todo :
                         (Indexing(n) => c # n.cur) => Is(c) /\ n.entries[c] = "fresh"
           Reads == n.pc \in {"open_index", "write_index"} /\ n.ix = 1 => n.read.of = source'[n.cur].of
           Opened == n.pc = "write_index" => index'[n.cur][Order[n.ix]].state = "torn"
           Written == n.pc = "mark" => Is(n.cur)
           Marked == Indexing(n) /\ (n.ix > 1 \/ n.pc \in {"save", "secondary"}) => Is(n.cur) /\ n.entries[n.cur] = "fresh"
           Goal == Others /\ Reads /\ Opened /\ Written /\ Marked
<1> SUFFICES Goal
  BY DEF BuiltSoFar, Built
<1>1. /\ n.cmd = r.cmd /\ Active(p)
      /\ "crashed" \notin Phases /\ "done" \notin Phases
  BY StepShape DEF Moves, Phases
<1>2. r.pc \in Phases /\ Place(r) /\ r \in Process /\ r.entries \in [Configs -> Flags] /\ Chosen \subseteq Configs
  BY <1>1 DEF Active, PlaceInv, TypeInv, Process, Selected, Keys
<1>3. CASE ~Indexing(n) /\ n.pc # "build"
  BY <1>3 DEF Indexing
<1>4. CASE FinishSave(p)
  <2>1. r.pc = "save" /\ r.after = AfterSave(r.cmd) /\ UNCHANGED <<source, index>>
    BY <1>2, <1>4 DEF FinishSave, Place
  <2>2. n.pc = AfterSave(r.cmd) /\ Like(n, r)
    BY <1>1, <1>4, <2>1, ReturnFields, GotoFields DEF FinishSave
  <2>3. CASE r.cmd.op = "build"
    <3>1. n.pc = "secondary" /\ Indexing(r)
      BY <2>1, <2>2, <2>3 DEF AfterSave, Indexing
    <3> QED
      BY <2>1, <2>2, <3>1 DEF BuiltSoFar, Built, Like, Indexing
  <2>4. CASE r.cmd.op # "build"
    <3>1. n.pc \in {"done", "rm_source", "check"}
      BY <1>2, <2>2, <2>4, CommandFacts DEF AfterSave, Place
    <3> QED
      BY <3>1 DEF Indexing
  <2> QED
    BY <2>3, <2>4
<1>5. CASE Mark(p)
  <2>1. /\ r.pc = "mark" /\ r.ix = 1 /\ r.cur \in Chosen \ r.todo /\ r.cmd.op = "build"
        /\ UNCHANGED <<source, index>>
    BY <1>2, <1>5 DEF Mark, Place, Indexing, OpsAt
  <2>2. /\ n.pc = "save" /\ n.entries = UpdateFreshness(r.entries, r.cur, TRUE)
        /\ n.todo = r.todo /\ n.cur = r.cur /\ n.ix = r.ix
    BY <1>5, MarkFields
  <2>3. Keys(n.entries) = Keys(r.entries)
    BY <1>5, <2>1, <2>2, StepShape DEF StartsSave, EndsSave, Works
  <2>4. Selected(n.entries, n.cmd) = Chosen
    BY <1>1, <2>3 DEF Selected
  <2>5. n.entries[r.cur] = "fresh" /\ \A c \in Configs \ {r.cur} : n.entries[c] = r.entries[c]
    BY <1>2, <2>1, <2>2 DEF UpdateFreshness
  <2>6. Is(r.cur)
    BY <2>1 DEF BuiltSoFar, Built
  <2>7. \A c \in Chosen \ r.todo : c # r.cur => Is(c) /\ r.entries[c] = "fresh"
    BY <2>1 DEF BuiltSoFar, Built, Indexing
  <2> HIDE DEF Is
  <2> QED
    BY <1>2, <2>2, <2>4, <2>5, <2>6, <2>7
<1>6. CASE Skip(p)
  <2>1. \/ n.pc = "build" /\ n.todo = Selected(n.entries, n.cmd)
        \/ n.pc = "skip"
    BY <1>1, <1>6, SkipFields
  <2> QED
    BY <2>1 DEF Indexing
<1>7. CASE Build(p)
  <2>1. r.pc = "build" /\ UNCHANGED <<source, index>>
    BY <1>7 DEF Build
  <2>2. PICK c \in r.todo :
          /\ n.pc = "open_index" /\ n.entries = r.entries /\ n.todo = r.todo \ {c}
          /\ n.cur = c /\ n.ix = 1 /\ n.read.of = source[c].of
    BY <1>1, <1>7, BuildFields
  <2>3. \A d \in Chosen \ r.todo : Is(d) /\ r.entries[d] = "fresh"
    BY <2>1 DEF BuiltSoFar, Built, Indexing
  <2> HIDE DEF Is
  <2> QED
    BY <1>1, <2>1, <2>2, <2>3 DEF Indexing
<1>8. CASE OpenIndex(p)
  <2>1. /\ r.pc = "open_index" /\ r.cur \in Chosen \ r.todo /\ UNCHANGED source
        /\ SetIndex(p, [NoIndex EXCEPT !.state = "torn", !.mtime = now])
    BY <1>2, <1>8 DEF OpenIndex, Place, Indexing
  <2>2. n.pc = "write_index" /\ Like(n, r)
    BY <1>8, GotoFields DEF OpenIndex
  <2>3. [NoIndex EXCEPT !.state = "torn", !.mtime = now].state = "torn"
    BY DEF NoIndex
  <2>4. /\ \A c \in Configs \ {r.cur} : index'[c] = index[c]
        /\ index'[r.cur][Order[r.ix]].state = "torn"
        /\ r.ix > 1 => index'[r.cur]["unified_metadata"] = index[r.cur]["unified_metadata"]
    BY <1>2, <2>1, <2>3, IndexSet
  <2>5. \A c \in Chosen \ r.todo : c # r.cur => Is(c) /\ r.entries[c] = "fresh"
    BY <1>2, <2>1, <2>4 DEF BuiltSoFar, Built, Indexing
  <2>6. r.ix > 1 => Is(r.cur) /\ r.entries[r.cur] = "fresh"
    BY <2>1, <2>4 DEF BuiltSoFar, Built, Indexing
  <2>7. r.ix = 1 => r.read.of = source[r.cur].of
    BY <2>1 DEF BuiltSoFar
  <2> HIDE DEF Is
  <2> QED
    BY <2>1, <2>2, <2>4, <2>5, <2>6, <2>7 DEF Like
<1>9. CASE WriteIndex(p)
  <2>1. /\ r.pc = "write_index" /\ r.cur \in Chosen \ r.todo /\ UNCHANGED source
        /\ Indexing(r) /\ r.ix \in 1..Len(Order)
    BY <1>2, <1>9 DEF WriteIndex, Place, Indexing, Process
  <2>2. (n.pc = IF r.ix = 1 THEN "mark" ELSE "secondary") /\ Like(n, r)
    BY <1>9, GotoFields DEF WriteIndex
  <2> DEFINE v == [state |-> "whole", of |-> r.read.of, read |-> r.read.at, mtime |-> now]
  <2>3. SetIndex(p, v)
    BY <1>9, <2>1 DEF WriteIndex, BuiltSoFar
  <2>4. v.state = "whole" /\ v.of = r.read.of
    OBVIOUS
  <2> HIDE DEF v
  <2>5. /\ \A c \in Configs \ {r.cur} : index'[c] = index[c]
        /\ r.ix = 1 => index'[r.cur]["unified_metadata"] = v
        /\ r.ix > 1 => index'[r.cur]["unified_metadata"] = index[r.cur]["unified_metadata"]
    BY <1>2, <2>1, <2>3, IndexSet
  <2>6. \A c \in Chosen \ r.todo : c # r.cur => Is(c) /\ r.entries[c] = "fresh"
    BY <1>2, <2>1, <2>5 DEF BuiltSoFar, Built
  <2>7. r.ix > 1 => Is(r.cur) /\ r.entries[r.cur] = "fresh"
    BY <2>1, <2>5 DEF BuiltSoFar, Built
  <2>8. r.ix = 1 => Is(r.cur)
    BY <2>1, <2>4, <2>5 DEF BuiltSoFar
  <2>9. r.ix = 1 \/ r.ix > 1
    BY <2>1, OrderFacts
  <2> HIDE DEF Is
  <2> QED
    BY <2>1, <2>2, <2>6, <2>7, <2>8, <2>9 DEF Like
<1>10. CASE BuildSecondary(p)
  <2>1. r.pc = "secondary" /\ Indexing(r) /\ r.cur \in Chosen \ r.todo /\ UNCHANGED <<source, index>>
    BY <1>2, <1>10 DEF BuildSecondary, Place, Indexing
  <2>2. /\ n.entries = r.entries /\ n.todo = r.todo /\ n.cur = r.cur
        /\ \/ n.pc = "build"
           \/ n.pc \in {"open_index", "secondary"} /\ n.ix > 1
    BY <1>1, <1>10, SecondaryFields
  <2>3. \A c \in Chosen \ r.todo : c # r.cur => Is(c) /\ r.entries[c] = "fresh"
    BY <2>1 DEF BuiltSoFar, Built
  <2>4. Is(r.cur) /\ r.entries[r.cur] = "fresh"
    BY <2>1 DEF BuiltSoFar, Built
  <2>5. n.ix > 1 => ~(n.ix = 1)
    OBVIOUS
  <2> HIDE DEF Is
  <2> QED
    BY <1>1, <2>1, <2>2, <2>3, <2>4, <2>5 DEF Indexing
<1>11. CASE Unpack(p) \/ Extract(p) \/ RmSource(p) \/ RmDerived(p) \/ Crash(p)
  <2>1. n.pc \in {"extract", "rm_derived", "register", "done", "crashed"}
    <3>1. \/ Goto(p, "extract") \/ Goto(p, "rm_derived") \/ Goto(p, "register") \/ Return(p, 0) \/ Return(p, 1)
          \/ Crash(p)
      BY <1>11 DEF Unpack, RmSource, RmDerived, Extract
    <3> QED
      BY <3>1, GotoFields, ReturnFields, CrashFields
  <2> QED
    BY <1>3, <2>1 DEF Indexing
<1>12. CASE Register(p) \/ Check(p)
  <2>1. n.pc = "save" /\ r.cmd.op # "build"
    BY <1>1, <1>2, <1>12, RegisterFields, CheckFields DEF Register, Check, Place, OpsAt
  <2> QED
    BY <1>1, <1>3, <2>1 DEF Indexing
<1> HIDE DEF Goal
<1> QED
  BY <1>4, <1>5, <1>6, <1>7, <1>8, <1>9, <1>10, <1>11, <1>12 DEF Step

LEMMA AloneStep ==
  TypeInv /\ PlaceInv /\ MeetInv /\ SaveInv /\ AloneInv /\ [Next]_vars => AloneInv'
<1> SUFFICES ASSUME TypeInv, PlaceInv, MeetInv, SaveInv, AloneInv, [Next]_vars,
                    NEW p \in Procs, proc'[p].pc \in Phases, proc'[p].alone
             PROVE  Undisturbed(p)' /\ BuiltSoFar(p)'
  BY DEF AloneInv, Active
<1>0. "done" \notin Phases /\ "save" \in Phases
  BY DEF Phases
<1>a. Active(p) /\ proc[p].alone => Undisturbed(p) /\ BuiltSoFar(p)
  BY DEF AloneInv
<1>1. CASE UNCHANGED vars
  BY <1>a, <1>1, SMTT(20) DEF vars, Active, Undisturbed, BuiltSoFar, Built, Target
<1>2. ASSUME NEW b \in Procs, Begin(b) PROVE Undisturbed(p)' /\ BuiltSoFar(p)'
  <2>1. b = p
    <3>1. ASSUME b # p PROVE FALSE
      <4>1. p \in Procs \ {b}
        BY <3>1
      <4>2. proc'[p].pc = proc[p].pc /\ (Active(p) => ~proc'[p].alone)
        BY <1>2, <4>1, BeginOthers
      <4> QED
        BY <4>2 DEF Active
    <3> QED
      BY <3>1
  <2>2. PICK k \in Commands : Started(p, k)
    BY <1>0, <1>2, <2>1, BeginFields
  <2>3. /\ proc'[p].pc \in {"unpack", "register", "build", "skip", "check"} /\ proc'[p].cmd = k
        /\ k.op \in {"add", "remove", "build", "check"}
        /\ k.op = "add" => proc'[p].pc = "unpack"
    BY <2>2, StartedPhase
  <2>4. registry' = registry /\ proc'[p].entries = registry.entries
    BY <1>2, <2>2 DEF Begin, Started
  <2>5. Undisturbed(p)'
    BY <2>3, <2>4 DEF Undisturbed
  <2>6. proc'[p].pc = "build" => proc'[p].todo = Selected(proc'[p].entries, proc'[p].cmd)
    BY <2>2, <2>3, <2>4 DEF Started
  <2>7. BuiltSoFar(p)'
    BY <2>3, <2>6 DEF BuiltSoFar, Indexing
  <2> QED
    BY <2>5, <2>7
<1>3. ASSUME NEW b \in Procs, Step(b) \/ Crash(b) PROVE Undisturbed(p)' /\ BuiltSoFar(p)'
  <2>1. /\ Active(b) /\ \A q \in Procs \ {b} : proc'[q] = proc[q]
        /\ proc'[b].pc \in Phases => proc'[b].alone = proc[b].alone
    BY <1>3, StepShape DEF Moves
  <2>2. b = p
    <3>1. ASSUME b # p PROVE FALSE
      <4>1. Active(p) /\ proc[p].alone /\ p \in Procs \ {b} /\ b \in Procs \ {p}
        BY <2>1, <3>1 DEF Active
      <4> QED
        BY <2>1, <4>1 DEF MeetInv
    <3> QED
      BY <3>1
  <2> QED
    BY <1>3, <1>a, <2>1, <2>2, UndisturbedMove, BuiltMove
<1>4. ASSUME NEW c \in Configs, Edit(c) \/ EditQuietly(c) PROVE FALSE
  <2>1. proc'[p].pc = proc[p].pc /\ (Active(p) => ~proc'[p].alone)
    BY <1>4, EditShape
  <2> QED
    BY <2>1 DEF Active
<1> QED
  BY <1>1, <1>2, <1>3, <1>4 DEF Next

-----------------------------------------------------------------------------
(* The theorems *)

LEMMA ConfigInit == Init => ConfigInv
<1> SUFFICES ASSUME Init PROVE ConfigInv
  OBVIOUS
<1>1. /\ registry = NoFile /\ source = [c \in Configs |-> NoSource] /\ index = [c \in Configs |-> NoIndexes]
      /\ proc = [p \in Procs |-> Nobody] /\ now = 0 /\ commands = 0 /\ raced = FALSE
  BY DEF Init
<1>2. TypeInv
  <2>1. registry \in RegistryFile /\ registry.entries = NoEntries
    BY <1>1, FileFacts
  <2>2. source \in [Configs -> Source] /\ index \in [Configs -> [AllIndexes -> Index]]
    BY <1>1, SourceFacts
  <2>3. proc \in [Procs -> Process]
    BY <1>1, IdleProcess
  <2>4. now \in 0..MaxEvents /\ commands \in 0..MaxCommands /\ raced \in BOOLEAN
    <3>1. now = 0 /\ commands = 0
      BY <1>1
    <3>2. MaxEvents \in Nat /\ MaxCommands \in Nat
      BY ConfigAssumption
    <3>3. raced \in BOOLEAN
      BY <1>1, Zenon
    <3> QED
      BY <3>1, <3>2, <3>3
  <2> QED
    BY <2>1, <2>2, <2>3, <2>4 DEF TypeInv
<1>3. \A p \in Procs : ~Active(p) /\ proc[p].pc = "idle" /\ proc[p].todo = {}
  BY <1>1 DEF Active, Phases, Nobody
<1>4. PlaceInv /\ TodoInv /\ MeetInv /\ SaveInv /\ KeysInv /\ AloneInv
  BY <1>3 DEF PlaceInv, TodoInv, Place, Phases, MeetInv, SaveInv, KeysInv, AloneInv
<1>5. Keys(registry.entries) = {}
  BY <1>1, FileFacts, NoKeys
<1>6. UsableInv
  BY <1>3, <1>5 DEF UsableInv
<1>7. \A c \in Configs : /\ source[c].state = "none" /\ source[c].mtime = 0
                         /\ \A i \in AllIndexes : index[c][i].state = "absent"
  BY <1>1, SourceFacts
<1>8. TimeInv
  BY <1>1, <1>3, <1>7 DEF TimeInv
<1> QED
  BY <1>2, <1>4, <1>6, <1>8 DEF ConfigInv

LEMMA ConfigInvariance == Spec => []ConfigInv
<1>1. ConfigInv /\ [Next]_vars => ConfigInv'
  BY TypeStep, PlaceStep, TodoStep, MeetStep, SaveStep, KeysStep, UsableStep, TimeStep, AloneStep DEF ConfigInv
<1> QED
  BY ConfigInit, <1>1, PTL DEF Spec

\* The variables keep their types: the registry, the sources and the indexes
\* hold what the program writes, and a process is at a step of its command.
THEOREM TypesHold == Spec => []TypeOK
<1>1. ConfigInv => TypeOK
  <2> SUFFICES ASSUME ConfigInv PROVE TypeOK
    OBVIOUS
  <2>1. ASSUME NEW p \in Procs
        PROVE  /\ proc[p].pc \in Phases \cup {"idle", "done", "crashed"}
               /\ proc[p].entries \in [Configs -> Flags]
               /\ proc[p].todo \subseteq Keys(proc[p].entries)
               /\ proc[p].ix \in 1..Len(Order)
               /\ Active(p) => proc[p].cmd \in Commands
    <3>1. proc[p] \in Process /\ Place(proc[p])
      BY DEF ConfigInv, TypeInv, PlaceInv
    <3>2. proc[p].todo # {} => proc[p].todo \subseteq Selected(proc[p].entries, proc[p].cmd)
      BY <3>1 DEF ConfigInv, TodoInv, Place
    <3>3. proc[p].todo \subseteq Keys(proc[p].entries)
      BY <3>2 DEF Selected
    <3> QED
      BY <3>1, <3>3 DEF Process, Place, Active
  <2> QED
    BY <2>1 DEF ConfigInv, TypeInv, TypeOK
<1> QED
  BY <1>1, ConfigInvariance, PTL

LEMMA UsableMeans == ConfigInv => RegisteredIsUsable
<1> SUFFICES ASSUME ConfigInv, ~raced, NEW c \in Registered PROVE source[c].state = "complete"
  BY DEF RegisteredIsUsable
<1>1. registry.kind = "ok" => c \in Keys(registry.entries)
  BY DEF Registered
<1>2. registry.kind # "ok" => \E p \in Procs : Active(p) /\ c \in Keys(proc[p].entries)
  BY DEF Registered, Active, Phases
<1> QED
  BY <1>1, <1>2 DEF ConfigInv, UsableInv

\* While the commands do not race, all that is registered is there, completely
\* unpacked, whichever processes die between two steps of config.py.
THEOREM RegisteredUsable == Spec => []RegisteredIsUsable
<1> QED
  BY UsableMeans, ConfigInvariance, PTL

\* An index that freshness_check calls fresh is of the sources as they are, but
\* for edits while it was built and edits that leave no newer time.
THEOREM FreshCurrent == Spec => []FreshIsCurrent
<1>1. ConfigInv => RegisteredIsUsable
  BY UsableMeans
<1>2. ConfigInv /\ RegisteredIsUsable => FreshIsCurrent
  <2> SUFFICES ASSUME ConfigInv, RegisteredIsUsable, ~raced, NEW c \in Registered, NEW i \in AllIndexes,
                      fresh_of(c)[i], index[c][i].state = "whole"
               PROVE  \/ index[c][i].of = source[c].of
                      \/ source[c].mtime \in index[c][i].read..index[c][i].mtime
                      \/ source[c].quiet
    BY DEF FreshIsCurrent
  <2>1. c \in Configs
    BY DEF Registered, Keys
  <2>2. source[c].state = "complete"
    BY DEF RegisteredIsUsable
  <2>3. source[c] \in Source /\ index[c][i] \in Index
    BY <2>1 DEF ConfigInv, TypeInv
  <2>4. /\ source[c].mtime >= 1
        /\ index[c][i].of = source[c].of \/ source[c].quiet \/ source[c].mtime >= index[c][i].read
    BY <2>1, <2>2 DEF ConfigInv, TimeInv, Current
  <2>5. source[c].mtime # 0 => index[c][i].mtime >= source[c].mtime
    BY DEF fresh_of, freshness_check, is_fresh
  <2> QED
    BY <2>3, <2>4, <2>5 DEF Source, Index
<1> QED
  BY <1>1, <1>2, ConfigInvariance, PTL

\* A step takes an entry out of the registry only as the remove of that very
\* configuration, or with the process that writes the file.
LEMMA EntryStep ==
  ASSUME ConfigInv, Next, ~raced', NEW c \in Registered, c \notin Registered'
  PROVE  \E p \in Procs : \/ proc[p].pc = "register" /\ proc[p].cmd.op = "remove" /\ c = Target(p)
                          \/ proc[p].pc = "save" /\ proc'[p].pc = "crashed"
<1>0. /\ TypeInv /\ PlaceInv /\ MeetInv /\ SaveInv /\ KeysInv
  BY DEF ConfigInv
<1>1. ASSUME UNCHANGED registry,
             \A p \in Procs : proc'[p].pc = "save" <=> proc[p].pc = "save",
             \A p \in Procs : proc[p].pc = "save" => proc'[p].entries = proc[p].entries
      PROVE  FALSE
  BY <1>1 DEF Registered
<1>2. ASSUME NEW b \in Procs, Begin(b) PROVE FALSE
  <2>1. UNCHANGED registry /\ proc[b].pc # "save" /\ proc'[b].pc # "save"
    <3>1. proc'[b].pc # "save"
      BY <1>0, <1>2, BeginFields, StartedPhase
    <3> QED
      BY <1>2, <3>1 DEF Begin, Active, Phases
  <2>2. \A p \in Procs \ {b} : proc'[p].pc = proc[p].pc /\ proc'[p].entries = proc[p].entries
    BY <1>0, <1>2, BeginOthers DEF Like
  <2> QED
    BY <1>1, <2>1, <2>2
<1>3. ASSUME NEW d \in Configs, Edit(d) \/ EditQuietly(d) PROVE FALSE
  <2>1. UNCHANGED registry /\ \A p \in Procs : proc'[p].pc = proc[p].pc /\ proc'[p].entries = proc[p].entries
    BY <1>0, <1>3, EditShape DEF Like
  <2> QED
    BY <1>1, <2>1
<1>4. ASSUME NEW b \in Procs, Step(b) \/ Crash(b)
      PROVE  \/ proc[b].pc = "register" /\ proc[b].cmd.op = "remove" /\ c = Target(b)
             \/ proc[b].pc = "save" /\ proc'[b].pc = "crashed"
  <2>1. /\ Active(b) /\ ~raced /\ \A q \in Procs \ {b} : proc'[q] = proc[q]
        /\ StartsSave(b) \/ EndsSave(b) \/ Works(b)
    BY <1>0, <1>4, StepShape DEF Moves
  <2>2. proc[b].entries \in [Configs -> Flags] /\ Place(proc[b])
    BY <1>0 DEF TypeInv, Process, PlaceInv
  <2>3. CASE StartsSave(b)
    <3>1. \A q \in Procs : proc[q].pc # "save"
      BY <2>1, <2>3 DEF StartsSave
    <3>2. c \in Keys(proc[b].entries)
      BY <1>0, <2>1, <3>1 DEF Registered, KeysInv
    <3>3. Keys(proc'[b].entries) \subseteq Registered'
      <4>1. registry'.kind # "ok"
        BY <2>3, FileFacts DEF StartsSave
      <4> QED
        BY <2>3, <4>1 DEF Registered, StartsSave
    <3>4. c \notin Keys(proc'[b].entries)
      BY <3>3
    <3>5. proc[b].pc = "register" /\ proc[b].cmd.op \in {"add", "remove"}
      BY <2>1, <2>2, <2>3, <3>2, <3>4 DEF StartsSave
    <3>6. Target(b) \in Configs
      BY <1>0, <2>1, <3>5, TargetType
    <3> QED
      BY <2>2, <2>3, <3>2, <3>4, <3>5, <3>6, EntryFacts DEF StartsSave
  <2>4. CASE EndsSave(b)
    <3>1. registry = Torn /\ \A q \in Procs \ {b} : proc[q].pc # "save"
      BY <1>0, <2>1, <2>4 DEF EndsSave, SaveInv
    <3>2. c \in Keys(proc[b].entries)
      BY <3>1, FileFacts DEF Registered
    <3>3. ASSUME registry' = Whole(proc[b].entries) PROVE FALSE
      BY <2>2, <3>2, <3>3, FileFacts DEF Registered
    <3> QED
      BY <2>4, <3>1, <3>3, FileFacts DEF EndsSave
  <2>5. CASE Works(b)
    BY <1>1, <2>1, <2>5 DEF Works
  <2> QED
    BY <2>1, <2>3, <2>4, <2>5
<1> DEFINE Lost(p) == \/ proc[p].pc = "register" /\ proc[p].cmd.op = "remove" /\ c = Target(p)
                      \/ proc[p].pc = "save" /\ proc'[p].pc = "crashed"
<1>5. ASSUME NEW b \in Procs, Step(b) \/ Crash(b) PROVE Lost(b)
  BY <1>4, <1>5
<1> HIDE DEF Lost
<1>6. \E p \in Procs : Lost(p)
  BY <1>2, <1>3, <1>5 DEF Next
<1> QED
  BY <1>6 DEF Lost

\* Builds and checks of any number of processes lose no entry: what leaves the
\* registry was removed, or went with a process that died while writing it.
THEOREM EntriesStay == Spec => EntriesKept
<1>1. ConfigInv /\ [Next]_vars =>
        [~raced' => \A c \in Registered \ Registered' :
           \E p \in Procs : \/ proc[p].pc = "register" /\ proc[p].cmd.op = "remove" /\ c = Target(p)
                            \/ proc[p].pc = "save" /\ proc'[p].pc = "crashed"]_vars
  BY EntryStep
<1> QED
  BY <1>1, ConfigInvariance, PTL DEF Spec, EntriesKept

LEMMA DoneStep ==
  ASSUME ConfigInv, Next, NEW p \in Procs, Active(p), proc'[p].pc = "done", proc'[p].rc = 0, proc[p].alone
  PROVE  LET k == proc[p].cmd IN
         CASE k.op = "add" -> Target(p) \in Registered' /\ source'[Target(p)].state = "complete"
           [] k.op = "remove" -> /\ Target(p) \notin Registered'
                                 /\ k.flag \/ (/\ source'[Target(p)] = NoSource
                                               /\ index'[Target(p)] = NoIndexes)
           [] k.op = "build" /\ proc[p].pc # "skip" ->
                \A c \in Selected(proc[p].entries, k) :
                  /\ index'[c]["unified_metadata"].state = "whole"
                  /\ index'[c]["unified_metadata"].of = source'[c].of
                  /\ registry'.entries[c] = "fresh"
           [] OTHER -> TRUE
<1> DEFINE r == proc[p]
           Added == Target(p) \in Registered' /\ source'[Target(p)].state = "complete"
           Removed == /\ Target(p) \notin Registered'
                      /\ r.cmd.flag \/ (source'[Target(p)] = NoSource /\ index'[Target(p)] = NoIndexes)
           AllBuilt == \A c \in Selected(r.entries, r.cmd) :
                        /\ index'[c]["unified_metadata"].state = "whole"
                        /\ index'[c]["unified_metadata"].of = source'[c].of
                        /\ registry'.entries[c] = "fresh"
           Goal == \/ r.cmd.op = "add" /\ Added
                   \/ r.cmd.op = "remove" /\ Removed
                   \/ r.cmd.op = "build" /\ (r.pc = "skip" \/ AllBuilt)
                   \/ r.cmd.op = "check"
<1> HIDE DEF Added, Removed, AllBuilt
<1> SUFFICES Goal
  BY DEF Added, Removed, AllBuilt
<1>0. /\ TypeInv /\ PlaceInv /\ SaveInv /\ Undisturbed(p) /\ BuiltSoFar(p) /\ Place(r) /\ r.pc \in Phases
      /\ r.entries \in [Configs -> Flags] /\ "done" \notin Phases
  BY DEF ConfigInv, AloneInv, PlaceInv, Active, TypeInv, Process, Phases
<1>1. Step(p)
  <2>1. ASSUME NEW b \in Procs, Begin(b) PROVE FALSE
    <3>1. p \in Procs \ {b}
      BY <2>1 DEF Begin
    <3> QED
      BY <1>0, <2>1, <3>1, BeginOthers
  <2>2. ASSUME NEW b \in Procs \ {p}, Step(b) \/ Crash(b) PROVE FALSE
    <3>1. proc'[p] = proc[p]
      BY <1>0, <2>2, StepMoves DEF Moves
    <3> QED
      BY <1>0, <3>1
  <2>3. ASSUME NEW c \in Configs, Edit(c) \/ EditQuietly(c) PROVE FALSE
    BY <1>0, <2>3, EditShape
  <2>4. ~Crash(p)
    BY <1>0, CrashFields
  <2> QED
    BY <2>1, <2>2, <2>3, <2>4 DEF Next
<1>2. r.cmd.op \in {"add", "remove"} => Target(p) \in Configs
  BY <1>0, TargetType
<1>3. CASE FinishSave(p)
  <2>1. r.pc = "save" /\ r.after = AfterSave(r.cmd) /\ registry = Torn /\ UNCHANGED <<source, index>>
    BY <1>0, <1>3 DEF FinishSave, Place, SaveInv
  <2>2. registry' = Whole(r.entries)
    BY <1>3, <2>1, FileFacts DEF FinishSave
  <2>3. r.after = "done"
    BY <1>0, <1>3, GotoFields DEF FinishSave
  <2>4. Registered' = Keys(r.entries)
    BY <1>0, <2>2, FileFacts DEF Registered
  <2>5. r.cmd.op = "add" \/ (r.cmd.op = "remove" /\ r.cmd.flag)
    BY <1>0, <2>1, <2>3, CommandFacts DEF AfterSave, Place
  <2>6. r.cmd.op = "add" => Added
    BY <1>0, <1>2, <2>1, <2>4 DEF Undisturbed, Keys, Added
  <2>7. r.cmd.op = "remove" => Target(p) \notin Registered'
    BY <1>0, <1>2, <2>1, <2>4 DEF Undisturbed, Keys
  <2> QED
    BY <2>5, <2>6, <2>7 DEF Removed
<1>4. CASE RmDerived(p)
  <2>1. r.pc = "rm_derived" /\ r.cmd.op = "remove" /\ UNCHANGED <<registry, source>>
        /\ index' = [index EXCEPT ![Target(p)] = NoIndexes]
    BY <1>0, <1>4 DEF RmDerived, RemoveIndexes, Place, OpsAt
  <2>2. /\ registry.kind = "ok" /\ registry.entries = r.entries /\ r.entries[Target(p)] = "none"
        /\ source[Target(p)] = NoSource
    BY <1>0, <2>1 DEF Undisturbed
  <2>3. Target(p) \notin Registered'
    BY <2>1, <2>2 DEF Registered, Keys
  <2>4. index'[Target(p)] = NoIndexes
    BY <1>0, <1>2, <2>1 DEF TypeInv
  <2> QED
    BY <2>1, <2>2, <2>3, <2>4 DEF Removed
<1>5. CASE BuildSecondary(p)
  <2>1. r.pc = "secondary" /\ Indexing(r) /\ r.cmd.op = "build" /\ UNCHANGED <<registry, source, index>>
    BY <1>0, <1>5 DEF BuildSecondary, Place, OpsAt, Indexing
  <2>2. r.todo = {}
    BY <1>0, <1>5, SecondaryFields DEF Phases
  <2>3. \A c \in Selected(r.entries, r.cmd) : Built(c) /\ r.entries[c] = "fresh"
    BY <1>0, <2>1, <2>2 DEF BuiltSoFar
  <2>4. registry.entries = r.entries
    BY <1>0, <2>1 DEF Undisturbed
  <2> QED
    BY <2>1, <2>3, <2>4 DEF AllBuilt, Built
<1>6. CASE Check(p)
  BY <1>0, <1>6 DEF Check, Place, OpsAt
<1>7. CASE Skip(p)
  BY <1>0, <1>7 DEF Skip, Place, OpsAt
<1>8. ~Build(p)
  BY <1>0, BuildFields
<1>9. ~Extract(p)
  <2>1. Extract(p) => Goto(p, "register") \/ Return(p, 1)
    BY DEF Extract
  <2> QED
    BY <1>0, <2>1, GotoFields, ReturnFields
<1>10. ~Register(p) /\ ~Mark(p)
  BY <1>0, RegisterFields, MarkFields
<1>11. ~Unpack(p) /\ ~RmSource(p) /\ ~OpenIndex(p) /\ ~WriteIndex(p)
  <2>1. Unpack(p) \/ RmSource(p) \/ OpenIndex(p) \/ WriteIndex(p) =>
          \E s \in {"extract", "rm_derived", "write_index", "mark", "secondary"} : Goto(p, s)
    BY DEF Unpack, RmSource, OpenIndex, WriteIndex
  <2> QED
    BY <1>0, <2>1, GotoFields
<1> QED
  BY <1>1, <1>3, <1>4, <1>5, <1>6, <1>7, <1>8, <1>9, <1>10, <1>11 DEF Step

\* A command nothing interfered with, and that exits with 0, did what it is for.
THEOREM SuccessHolds == Spec => SuccessIsReal
<1>1. ConfigInv /\ [Next]_vars =>
        [\A p \in Procs :
           Active(p) /\ proc'[p].pc = "done" /\ proc'[p].rc = 0 /\ proc[p].alone =>
             LET k == proc[p].cmd IN
             CASE k.op = "add" -> Target(p) \in Registered' /\ source'[Target(p)].state = "complete"
               [] k.op = "remove" -> /\ Target(p) \notin Registered'
                                     /\ k.flag \/ (/\ source'[Target(p)] = NoSource
                                                   /\ index'[Target(p)] = NoIndexes)
               [] k.op = "build" /\ proc[p].pc # "skip" ->
                    \A c \in Selected(proc[p].entries, k) :
                      /\ index'[c]["unified_metadata"].state = "whole"
                      /\ index'[c]["unified_metadata"].of = source'[c].of
                      /\ registry'.entries[c] = "fresh"
               [] OTHER -> TRUE]_vars
  BY DoneStep
<1> QED
  BY <1>1, ConfigInvariance, PTL DEF Spec, SuccessIsReal

=============================================================================
