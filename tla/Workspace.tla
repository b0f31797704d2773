----------------------------- MODULE Workspace -----------------------------
(***************************************************************************)
(* WorkspaceResolver of src/project.rs: which manifest Cargo would read    *)
(* [profile.release] from for a directory, and whether it switches         *)
(* overflow-checks on.  Answers are cached by directory and manifests by   *)
(* path, while manifests may be edited, created and removed between any    *)
(* two looks at the file system.                                           *)
(*                                                                         *)
(* A directory is the sequence of its names below the file-system root,    *)
(* and a manifest is named by its directory.                               *)
(***************************************************************************)
EXTENDS Naturals, Sequences

CONSTANTS
  Dir,        \* the directories
  Content,    \* the contents of manifests that parse
  Broken,     \* a Cargo.toml that cannot be read or is not TOML
  Gone,       \* no Cargo.toml
  Unread,     \* a manifest the resolver has not read
  None,       \* no manifest, no pointer, no answer, no call
  Trees,      \* the trees a scan may start on
  MaxEdits    \* bound: changes of manifests during the scan

\* package.workspace, [workspace], workspace.exclude and profile.release.overflow-checks.
Manifest == [pointer : Dir \cup {None}, workspace : BOOLEAN, exclude : SUBSET Dir, checks : BOOLEAN]

OnDisk == Content \cup {Broken, Gone}

ASSUME DirAssumption ==
  /\ Dir \subseteq Seq(STRING)
  /\ \A d \in Dir : \A n \in 0 .. Len(d) : SubSeq(d, 1, n) \in Dir
  /\ None \notin Dir

ASSUME ContentAssumption ==
  /\ Content \subseteq Manifest
  /\ {Broken, Gone, Unread} \cap Content = {} /\ Unread # Broken

ASSUME BoundAssumption == Trees \subseteq [Dir -> OnDisk] /\ MaxEdits \in Nat

Parent(d) == IF d = <<>> THEN None ELSE SubSeq(d, 1, Len(d) - 1)

\* Path::starts_with
Under(d, e) == Len(e) <= Len(d) /\ SubSeq(d, 1, Len(e)) = e

VARIABLES
  disk,     \* the manifests as they are now
  edits,    \* how often they were changed
  toml,     \* toml_cache; Broken stands for a cached None
  known,    \* dir_cache
  call      \* the resolve_uncached that is running, or None

vars == <<disk, edits, toml, known, call>>

Answer == [manifest : Dir \cup {None}, checks : BOOLEAN]

Init ==
  /\ disk \in Trees
  /\ edits = 0
  /\ toml = [d \in Dir |-> Unread]
  /\ known = [d \in Dir |-> None]
  /\ call = None

\* Someone saves, breaks, creates or removes a manifest.
Edit(d) ==
  /\ edits < MaxEdits
  /\ disk' \in {[disk EXCEPT ![d] = c] : c \in OnDisk}
  /\ edits' = edits + 1
  /\ UNCHANGED <<toml, known, call>>

IsFile(d) == disk[d] # Gone

\* Mutant of Read: nothing is cached.
ReadAgain(d) == IF disk[d] \in Content THEN disk[d] ELSE Broken

\* read_toml: what it returns, and what it leaves in the cache.
Read(d) == IF toml[d] # Unread THEN toml[d] ELSE IF disk[d] \in Content THEN disk[d] ELSE Broken
Cached(d) == toml' = [toml EXCEPT ![d] = Read(d)]

\* The running call is at this step.
At(step) == call # None /\ call.step = step

\* The call goes on; or it has found the root, and only the profile is left to read.
GoOn(step, at) == call' = [call EXCEPT !.step = step, !.at = at]
Root(d) == GoOn("profile", d)

\* Mutants of Up: past the file-system root; not up at all.
UpAndOut(d, package) == GoOn("climb", Parent(d))
UpNowhere(d, package) == IF Parent(d) = None THEN Root(package) ELSE GoOn("climb", d)

\* Nearest `[workspace]` ancestor next, or, past the last one, the package on its own.
Up(d, package) == IF Parent(d) = None THEN Root(package) ELSE GoOn("climb", Parent(d))

\* resolve for a file of d.  A directory in dir_cache is answered there and then.
Resolve(d) ==
  /\ call = None
  /\ known[d] = None
  /\ call' = [dir |-> d, step |-> "package", at |-> d, package |-> None]
  /\ UNCHANGED <<disk, edits, toml, known>>

\* walk_to_cargo_toml
FindPackage ==
  /\ At("package")
  /\ \/ /\ IsFile(call.at)
        /\ call' = [call EXCEPT !.step = "pointer", !.package = call.at]
        /\ UNCHANGED known
     \/ /\ ~IsFile(call.at) /\ Parent(call.at) # None
        /\ GoOn("package", Parent(call.at))
        /\ UNCHANGED known
     \/ /\ ~IsFile(call.at) /\ Parent(call.at) = None
        /\ known' = [known EXCEPT ![call.dir] = [manifest |-> None, checks |-> FALSE]]
        /\ call' = None
  /\ UNCHANGED <<disk, edits, toml>>

ReadPointer ==
  /\ At("pointer")
  /\ Cached(call.package)
  /\ LET value == Read(call.package)
     IN  IF value \in Content /\ value.pointer # None
         THEN GoOn("candidate", value.pointer)
         ELSE Up(call.package, call.package)
  /\ UNCHANGED <<disk, edits, known>>

\* Mutant of FollowPointer: a pointer to nothing is followed.
FollowBlindly ==
  /\ At("candidate")
  /\ Root(call.at)
  /\ UNCHANGED <<disk, edits, toml, known>>

FollowPointer ==
  /\ At("candidate")
  /\ IF IsFile(call.at) THEN Root(call.at) ELSE Up(call.package, call.package)
  /\ UNCHANGED <<disk, edits, toml, known>>

Climb ==
  /\ At("climb")
  /\ IF IsFile(call.at) THEN GoOn("inspect", call.at) ELSE Up(call.at, call.package)
  /\ UNCHANGED <<disk, edits, toml, known>>

\* is_excluded
Excludes(manifest, d) == \E e \in manifest.exclude : Under(d, e)

Inspect ==
  /\ At("inspect")
  /\ Cached(call.at)
  /\ LET value == Read(call.at)
     IN  IF value \in Content /\ value.workspace
         THEN Root(IF Excludes(value, call.package) THEN call.package ELSE call.at)
         ELSE Up(call.at, call.package)
  /\ UNCHANGED <<disk, edits, known>>

\* read_overflow_checks, and the end of resolve.
ReadProfile ==
  /\ At("profile")
  /\ Cached(call.at)
  /\ LET value == Read(call.at)
     IN  known' = [known EXCEPT ![call.dir] =
           [manifest |-> call.at, checks |-> value \in Content /\ value.checks]]
  /\ call' = None
  /\ UNCHANGED <<disk, edits>>

Step == FindPackage \/ ReadPointer \/ FollowPointer \/ Climb \/ Inspect \/ ReadProfile

Next ==
  \/ \E d \in Dir : Edit(d)
  \/ \E d \in Dir : Resolve(d)
  \/ Step

\* Once called, resolve runs to its end.
Spec == Init /\ [][Next]_vars /\ WF_vars(Step)

----------------------------------------------------------------------------
\* The type of every variable.
TypeOK ==
  /\ disk \in [Dir -> OnDisk]
  /\ edits \in 0 .. MaxEdits
  /\ toml \in [Dir -> Content \cup {Broken, Unread}]
  /\ known \in [Dir -> Answer \cup {None}]
  /\ call \in {None} \cup
       [dir : Dir, step : {"package", "pointer", "candidate", "climb", "inspect", "profile"},
        at : Dir, package : Dir \cup {None}]

(***************************************************************************)
(* The reference, on the manifests c: the package is the nearest manifest, *)
(* and its root is what package.workspace points at, else the nearest      *)
(* [workspace] above the package unless it excludes it, else the package.  *)
(***************************************************************************)
Nearest(S) == CHOOSE d \in S : \A e \in S : Len(e) <= Len(d)

Package(c, d) == LET S == {e \in Dir : Under(d, e) /\ c[e] # Gone}
                 IN  IF S = {} THEN None ELSE Nearest(S)

Pointed(c, p) == /\ c[p] \in Content
                 /\ c[p].pointer # None
                 /\ c[c[p].pointer] # Gone

RootsAbove(c, p) == {e \in Dir : e # p /\ Under(p, e) /\ c[e] \in Content /\ c[e].workspace}

WorkspaceRoot(c, p) ==
  IF Pointed(c, p) THEN c[p].pointer
  ELSE IF RootsAbove(c, p) = {} \/ Excludes(c[Nearest(RootsAbove(c, p))], p) THEN p
  ELSE Nearest(RootsAbove(c, p))

Correct(c, d) ==
  IF Package(c, d) = None THEN [manifest |-> None, checks |-> FALSE]
  ELSE LET root == WorkspaceRoot(c, Package(c, d))
       IN  [manifest |-> root, checks |-> c[root] \in Content /\ c[root].checks]

(***************************************************************************)
(* Among manifests nobody touches, every directory is answered as if it    *)
(* were the only one asked about: what the caches hold of other            *)
(* directories, in whatever order they were asked, changes nothing.        *)
(***************************************************************************)
QuietAnswersAreCorrect ==
  edits = 0 => \A d \in Dir : known[d] # None => known[d] = Correct(disk, d)

(***************************************************************************)
(* However the manifests change during the scan, one root is never said    *)
(* to have overflow-checks for one file and to lack them for another: the  *)
(* wording of VL003 and the finding on the manifest cannot disagree.       *)
(***************************************************************************)
OneVerdictPerRoot ==
  \A d, e \in Dir :
    known[d] # None /\ known[e] # None /\ known[d].manifest = known[e].manifest
      => known[d].checks = known[e].checks

\* Every call of resolve returns.
ResolveReturns == call # None ~> call = None

(***************************************************************************)
(* "vaultlint resolves the root the way Cargo does": for Cargo a package   *)
(* that declares [workspace] itself is the root of its own workspace, and  *)
(* only that manifest's [profile.release] counts.                          *)
(***************************************************************************)
OwnRoot(c, d) == c[Package(c, d)] \in Content /\ c[Package(c, d)].workspace

RootIsCargos ==
  edits = 0 =>
    \A d \in Dir :
      known[d] # None /\ Package(disk, d) # None /\ OwnRoot(disk, d)
        => known[d].manifest = Package(disk, d)
============================================================================
