----------------------------- MODULE Manifests -----------------------------
(***************************************************************************)
(* Cargo manifests as src/depgraph.rs reads them, and the local crates     *)
(* each one compiles in.  A manifest is named by its normalised path; its  *)
(* content is the part path_dependencies and inherited look at: the        *)
(* dependency entries of every table, and the paths that                   *)
(* [workspace.dependencies] gives to names when the manifest is a          *)
(* workspace root.                                                         *)
(*                                                                         *)
(* What a manifest compiles in is computed from what has been read so far, *)
(* a function from manifests to contents: a manifest nobody has read yet   *)
(* contributes nothing.                                                    *)
(***************************************************************************)
EXTENDS FiniteSets

CONSTANTS
  Manifest,     \* normalised paths of manifests, existing or not
  Path,         \* strings a `path` key may hold
  Name,         \* dependency names
  Content,      \* the contents of manifests that parse
  Unreadable,   \* a manifest that is missing or is not TOML
  Unread,       \* a manifest DepGraph has not looked at
  None,         \* an absent key, root or result
  RootOf,       \* what WorkspaceResolver answers for a manifest
  ManifestIn    \* manifest_in: the manifest a path names, seen from another's directory

Table == {"dependencies", "target", "dev", "build"}

Entry == [table     : Table,
          name      : Name,
          optional  : BOOLEAN,
          path      : Path \cup {None},
          workspace : BOOLEAN]

ASSUME ContentAssumption ==
  \A c \in Content : /\ c.deps \subseteq Entry
                     /\ IsFiniteSet(c.deps)
                     /\ c.inherit \in [Name -> Path \cup {None}]

ASSUME MarkerAssumption ==
  /\ Unreadable \notin Content /\ Unread \notin Content /\ Unread # Unreadable
  /\ None \notin Manifest \cup Path

ASSUME LayoutAssumption ==
  /\ RootOf \in [Manifest -> Manifest \cup {None}]
  /\ ManifestIn \in [Manifest -> [Path -> Manifest]]

OnDisk == Content \cup {Unreadable}

Reads == [Manifest -> OnDisk \cup {Unread}]

----------------------------------------------------------------------------
(***************************************************************************)
(* The entries that ship: the plain and the per-target dependency tables,  *)
(* without what a feature may or may not switch on.                        *)
(***************************************************************************)
Shipped(c) == {e \in c.deps : /\ e.table \in {"dependencies", "target"}
                              /\ ~e.optional}

\* An entry is inherited from the workspace only when it has no path itself.
Inherits(e) == e.path = None /\ e.workspace

\* The manifest of a name listed in the [workspace.dependencies] of m's root.
Inherited(read, m, name) ==
  LET root == RootOf[m]
  IN  IF root = None \/ read[root] \notin Content \/ read[root].inherit[name] = None
      THEN None
      ELSE ManifestIn[root][read[root].inherit[name]]

Target(read, m, e) ==
  IF e.path # None THEN ManifestIn[m][e.path]
  ELSE IF e.workspace THEN Inherited(read, m, e.name)
  ELSE None

\* Mutants of Local: registry crates are pushed like local ones; an inherited name that leads
\* nowhere ends the search.
LocalOrNot(read, m) == IF read[m] \in Content THEN Shipped(read[m]) ELSE {}

LocalUnlessLost(read, m) ==
  IF read[m] \in Content /\ \A e \in Shipped(read[m]) : Inherits(e) => Target(read, m, e) # None
  THEN {e \in Shipped(read[m]) : Target(read, m, e) # None}
  ELSE {}

\* The entries of m that name a local crate, one push onto the worklist each.
Local(read, m) ==
  IF read[m] \in Content
  THEN {e \in Shipped(read[m]) : Target(read, m, e) # None}
  ELSE {}

PathDependencies(read, m) == {Target(read, m, e) : e \in Local(read, m)}

\* The manifests path_dependencies parses in order to answer for m.
Consults(content, m) ==
  {m} \cup IF content \in Content /\ (\E e \in Shipped(content) : Inherits(e))
           THEN {RootOf[m]} \ {None}
           ELSE {}

----------------------------------------------------------------------------
(***************************************************************************)
(* The reference definition: a build of m takes in the crate of n when a   *)
(* dependency that every build has names its path, in place or through the *)
(* workspace.  One that leads nowhere takes nothing away from the others.  *)
(***************************************************************************)
TakesIn(read, m, n) ==
  /\ read[m] \in Content
  /\ \E e \in read[m].deps :
       /\ e.table \notin {"dev", "build"} /\ e.optional = FALSE
       /\ \E p \in Path :
            \/ e.path = p /\ ManifestIn[m][p] = n
            \/ /\ e.path = None /\ e.workspace
               /\ \E root \in {RootOf[m]} \cap Manifest :
                    read[root] \in Content /\ read[root].inherit[e.name] = p /\ ManifestIn[root][p] = n

\* No build in S takes in a crate from outside S.
Closed(read, S) == \A m \in S, n \in Manifest \ S : ~TakesIn(read, m, n)

\* The least closed set that holds r.
Reach(read, r) ==
  {m \in Manifest : \A S \in SUBSET Manifest : r \in S /\ Closed(read, S) => m \in S}

\* Nothing that decides Reach(read, r) is still to be read.
Settled(read, S) == \A m \in S : \A n \in Consults(read[m], m) : read[n] # Unread
============================================================================
