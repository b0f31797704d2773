------------------------------- MODULE Scope -------------------------------
(***************************************************************************)
(* src/scope.rs as scan of src/lib.rs uses it: which files, and which code *)
(* in the other files, are taken for test code, whose findings are         *)
(* dropped.                                                                *)
(*                                                                         *)
(* A file is its directory and its stem.  Its content is its modules       *)
(* without a body and the places where it has code; each of them stands in *)
(* a chain of inline modules, outermost first.  What rustc compiles is the *)
(* reference; it is external to the repository.                            *)
(***************************************************************************)
EXTENDS Naturals, Sequences, FiniteSets, SequencesExt

CONSTANTS
  File,        \* the files of the tree, [dir, stem]
  Order,       \* their order in the walk
  Crates,      \* the directories with a Cargo.toml
  Fuzz,        \* those of them that are marked cargo-fuzz
  CrateRoots,  \* the files rustc is started on
  TestRoots,   \* those of them that are built for `cargo test` alone
  Flag,        \* what a cfg predicate can ask for, "test" among others
  Predicate,   \* the cfg predicates that occur, with their parts
  Trees,       \* the contents the files may have
  Gone,        \* no such file
  None         \* no #[path]

Chain == Seq([name : STRING, cfg : SUBSET Predicate])
Mod == [name : STRING \ {"mod"}, cfg : SUBSET Predicate, path : File \cup {None}, within : Chain]
Content == [mods : SUBSET Mod, code : SUBSET Chain]

ASSUME FileAssumption ==
  /\ File \subseteq [dir : Seq(STRING), stem : STRING]
  /\ Order \in Seq(File) /\ {Order[i] : i \in DOMAIN Order} = File
  /\ TestRoots \subseteq CrateRoots /\ CrateRoots \subseteq File
  /\ Fuzz \subseteq Crates /\ Crates \subseteq Seq(STRING)

\* Predicates are finite: going from parts to their parts ends.
ASSUME PredicateAssumption ==
  /\ Flag \subseteq STRING /\ "test" \in Flag
  /\ \A p \in Predicate : /\ p.op \in {"flag", "all", "any", "not"}
                          /\ p.flag \in Flag
                          /\ p.parts \subseteq Predicate
  /\ \A S \in SUBSET Predicate : S # {} => \E p \in S : p.parts \cap S = {}

ASSUME TreeAssumption ==
  \A tree \in Trees : DOMAIN tree = File /\ \A f \in File : tree[f] = Gone \/ tree[f] \in Content

VARIABLES
  tree,       \* the files
  phase,      \* "collect", "check", "done"
  at,         \* the next file
  m3,         \* m3_set
  reported    \* the places whose findings are kept

scopeVars == <<tree, phase, at, m3, reported>>

ScopeInit ==
  /\ tree \in Trees
  /\ phase = "collect"
  /\ at = 1
  /\ m3 = {}
  /\ reported = {}

----------------------------------------------------------------------------
\* Mutant of ContainsBareTest: any list will do.
ContainsTest(p) ==
  LET contains[q \in Predicate] ==
        \/ q.op = "flag" /\ q.flag = "test"
        \/ q.op \in {"all", "any"} /\ \E part \in q.parts : contains[part]
  IN  contains[p]

\* meta_contains_bare_test: `test`, or an `all` with such a part.
ContainsBareTest(p) ==
  LET contains[q \in Predicate] ==
        \/ q.op = "flag" /\ q.flag = "test"
        \/ q.op = "all" /\ \E part \in q.parts : contains[part]
  IN  contains[p]

\* attrs_have_cfg_test: one attribute is enough.
IsCfgTest(cfg) == \E p \in cfg : ContainsBareTest(p)

IsFile(f) == f \in File /\ tree[f] # Gone
Files == {f \in File : IsFile(f)}

\* Mutant of ModSearchDir: modules are searched beside every file.
SearchBeside(f) == f.dir

\* mod_search_dir
ModSearchDir(f) == IF f.stem \in {"lib", "mod", "main"} THEN f.dir ELSE Append(f.dir, f.stem)

Named(dir, name) == [dir |-> dir, stem |-> name]
ModFile(dir, name) == [dir |-> Append(dir, name), stem |-> "mod"]

\* insert_dir_contents
Below(dir) == {f \in Files : IsPrefix(dir, f.dir)}

\* collect_cfg_test_mods for one file: top-level declarations, #[path] not looked at.
TestTargets(f) ==
  LET dir == ModSearchDir(f)
      declared == {m \in tree[f].mods : m.within = <<>> /\ IsCfgTest(m.cfg)}
      Of(name) == {Named(dir, name), ModFile(dir, name)} \cap Files
  IN  UNION {Of(m.name) \cup Below(Append(dir, m.name)) :
               m \in {d \in declared : Of(d.name) # {}}}

\* nearest_cargo_toml_dir
CrateRoot(f) ==
  CHOOSE d \in Crates : /\ IsPrefix(d, f.dir)
                        /\ \A e \in Crates : IsPrefix(e, f.dir) => IsPrefix(e, d)

HasCrate(f) == \E d \in Crates : IsPrefix(d, f.dir)

IsM1(f) ==
  /\ HasCrate(f)
  /\ Len(f.dir) > Len(CrateRoot(f))
  /\ f.dir[Len(CrateRoot(f)) + 1] \in {"tests", "benches"}

IsM2(f) == HasCrate(f) /\ CrateRoot(f) \in Fuzz

IsTestScope(f) == IsM1(f) \/ IsM2(f) \/ f \in m3

\* test_ranges and in_test_range: the place is in an inline module that is #[cfg(test)].
InTestRange(chain) == \E i \in DOMAIN chain : IsCfgTest(chain[i].cfg)

----------------------------------------------------------------------------
\* collect_m3_set, one file of the list.
Collect ==
  /\ phase = "collect"
  /\ at <= Len(Order)
  /\ m3' = m3 \cup IF tree[Order[at]] = Gone THEN {} ELSE TestTargets(Order[at])
  /\ at' = at + 1
  /\ UNCHANGED <<tree, phase, reported>>

NextPhase ==
  /\ phase # "done"
  /\ at > Len(Order)
  /\ phase' = IF phase = "collect" THEN "check" ELSE "done"
  /\ at' = 1
  /\ UNCHANGED <<tree, m3, reported>>

SkipFile ==
  /\ phase = "check"
  /\ at <= Len(Order)
  /\ tree[Order[at]] = Gone \/ IsTestScope(Order[at])
  /\ at' = at + 1
  /\ UNCHANGED <<tree, phase, m3, reported>>

\* Findings in a test range are dropped, the others kept.
CheckFile ==
  /\ phase = "check"
  /\ at <= Len(Order)
  /\ LET f == Order[at]
     IN  /\ tree[f] # Gone
         /\ ~IsTestScope(f)
         /\ reported' = reported \cup {[file |-> f, chain |-> c] :
                                         c \in {d \in tree[f].code : ~InTestRange(d)}}
  /\ at' = at + 1
  /\ UNCHANGED <<tree, phase, m3>>

ScopeNext == Collect \/ NextPhase \/ SkipFile \/ CheckFile

ScopeSpec == ScopeInit /\ [][ScopeNext]_scopeVars

----------------------------------------------------------------------------
(***************************************************************************)
(* What rustc does.                                                        *)
(***************************************************************************)
\* A predicate under the flags that are on.
Holds(p, on) ==
  LET holds[q \in Predicate] ==
        \/ q.op = "flag" /\ q.flag \in on
        \/ q.op = "all" /\ \A part \in q.parts : holds[part]
        \/ q.op = "any" /\ \E part \in q.parts : holds[part]
        \/ q.op = "not" /\ \A part \in q.parts : ~holds[part]
  IN  holds[p]

AllHold(cfg, on) == \A p \in cfg : Holds(p, on)
ChainHolds(chain, on) == \A i \in DOMAIN chain : AllHold(chain[i].cfg, on)

\* The directory of a file's modules: that of crate roots and mod.rs, else the one named like the file.
Own(f) == IF f \in CrateRoots \/ f.stem = "mod" THEN f.dir ELSE Append(f.dir, f.stem)

\* The directory a module is in, and its path.
Inside(f, m) == Own(f) \o [j \in DOMAIN m.within |-> m.within[j].name]
ModulePath(f, m) == Append(Inside(f, m), m.name)

\* The file a module stands in.
Resolved(f, m) ==
  Files \cap IF m.path # None THEN {m.path}
             ELSE {Named(Inside(f, m), m.name), ModFile(Inside(f, m), m.name)}

\* S with all that its files bring in.
Modules(S, brings) ==
  LET grown[n \in 0 .. Cardinality(File)] ==
        IF n = 0 THEN S
        ELSE LET before == grown[n - 1] IN before \cup UNION {brings[f] : f \in before}
  IN  grown[Cardinality(File)]

\* The files that are compiled with these flags.
Compiled(on) ==
  LET compiled(f) == {m \in tree[f].mods : AllHold(m.cfg, on) /\ ChainHolds(m.within, on)}
  IN  Modules({f \in CrateRoots \cap Files : f \in TestRoots => "test" \in on},
              [f \in Files |-> UNION {Resolved(f, m) : m \in compiled(f)}])

----------------------------------------------------------------------------
(***************************************************************************)
(* Layouts.  Files are told by where they are and modules by their names,  *)
(* so a project can be laid out so that one file is two modules; what the  *)
(* properties ask of the layout is here.                                   *)
(***************************************************************************)
\* Some build without `test` has the module if it has the file.
Ships(m) ==
  \E on \in SUBSET (Flag \ {"test"}) : AllHold(m.cfg, on) /\ ChainHolds(m.within, on)

\* Where scope.rs looks for the modules at the top of a file that never ship.
TestPlaces ==
  UNION {{Append(ModSearchDir(f), m.name) : m \in {d \in tree[f].mods : d.within = <<>> /\ ~Ships(d)}} :
           f \in Files}

AtTestPlace(f) == \E d \in TestPlaces : IsPrefix(d, Append(f.dir, f.stem))

\* No manifest lies between a file and the modules in it.
NoManifestBetween ==
  \A f \in Files : \A m \in tree[f].mods : m.path = None =>
    \A d \in Crates : IsPrefix(d, ModulePath(f, m)) => Len(d) <= Len(f.dir)

\* What rustc is started on is no module of tests, and in tests/ or benches/ only as a test.
RootsApart ==
  \A f \in CrateRoots \cap Files : ~AtTestPlace(f) /\ (IsM1(f) => f \in TestRoots)

\* A module that ships is not where one that never ships is looked for, unless its file is.
ModulesApart ==
  \A f \in Files : \A m \in tree[f].mods : m.path = None /\ Ships(m) =>
    \A d \in TestPlaces : IsPrefix(d, ModulePath(f, m)) => Len(d) <= Len(Own(f))

\* Beside a manifest, no module that ships is called tests or benches.
NoneCalledTests ==
  \A f \in Files : \A m \in tree[f].mods : m.path = None /\ Ships(m) /\ f.dir \in Crates =>
    ModulePath(f, m)[Len(f.dir) + 1] \notin {"tests", "benches"}

\* A #[path] leads from code to code, and from tests to tests.
PathsToCode ==
  \A f \in Files : \A m \in tree[f].mods :
    m.path \in Files /\ Ships(m) /\ (IsM1(m.path) \/ AtTestPlace(m.path)) => IsM1(f) \/ AtTestPlace(f)

Targets == UNION {TestTargets(f) : f \in Files}
IsSilent(f) == IsM1(f) \/ IsM2(f) \/ f \in Targets

PathsToTests ==
  \A f \in Files : \A m \in tree[f].mods : m.path \in Files /\ IsSilent(f) => IsSilent(m.path)

\* What declares tests is called lib or main exactly if rustc is started on it.
RootsCalledSo ==
  \A f \in Files : \A m \in tree[f].mods : m.within = <<>> /\ IsCfgTest(m.cfg) =>
    IsM1(f) \/ IsM2(f) \/ (f \in CrateRoots <=> f.stem \in {"lib", "main"})

(***************************************************************************)
(* "Never a missed vulnerability": code that some build without `test`     *)
(* compiles is never dropped, whatever its files and directories are       *)
(* called.  What cargo-fuzz builds is no program.                          *)
(***************************************************************************)
ShippedCodeIsReported ==
  /\ phase = "done"
  /\ NoManifestBetween /\ RootsApart /\ ModulesApart /\ NoneCalledTests /\ PathsToCode
  => \A features \in SUBSET (Flag \ {"test"}) : \A f \in Compiled(features) :
       \A chain \in tree[f].code :
         /\ ChainHolds(chain, features)
         /\ \A d \in Fuzz : ~IsPrefix(d, f.dir)
         => [file |-> f, chain |-> chain] \in reported

\* Files that modules declared #[cfg(test)] at the top of a compiled file bring in.
TestModules ==
  LET tests(f) == {m \in tree[f].mods : m.within = <<>> /\ m.path = None /\ IsCfgTest(m.cfg)}
  IN  Modules(UNION {UNION {Resolved(f, m) : m \in tests(f)} : f \in Compiled(Flag)},
              [f \in Files |-> UNION {Resolved(f, m) : m \in tree[f].mods}])

(***************************************************************************)
(* And a module declared `#[cfg(test)] mod NAME;` is silent with every     *)
(* module in it, however deep and in whichever of the layouts rustc knows. *)
(***************************************************************************)
TestModulesAreSilent ==
  /\ phase = "done"
  /\ NoManifestBetween /\ RootsApart /\ RootsCalledSo /\ PathsToTests
  => \A r \in reported : r.file \notin TestModules
============================================================================
