------------------------------- MODULE MCJoin -------------------------------
(***************************************************************************)
(* Two programs and a library for TLC.  Program p and the library share a  *)
(* workspace, program q is a workspace of its own; a loose file belongs to *)
(* no crate.  Path "lib" leads to the library and "p" to p.                *)
(***************************************************************************)
EXTENDS Join

CONSTANTS p, q, lib, ws, A, B

MCManifest == {p, q, lib, ws}
MCPath == {"lib", "p"}
MCName == {"x"}
MCRootOf == [m \in MCManifest |-> IF m = q THEN q ELSE ws]
MCManifestIn == [m \in MCManifest |-> [s \in MCPath |-> IF s = "lib" THEN lib ELSE p]]

Dep(table, path, workspace) ==
  [table |-> table, name |-> "x", optional |-> FALSE, path |-> path, workspace |-> workspace]
Holding(deps, inherit) == [deps |-> deps, inherit |-> [n \in MCName |-> inherit]]

Alone == Holding({}, None)
UsesLib == Holding({Dep("dependencies", "lib", FALSE)}, None)
Inheriting == Holding({Dep("target", None, TRUE)}, None)
TestsP == Holding({Dep("dev", "p", FALSE)}, None)
Listing == Holding({}, "lib")

MCContent == {Alone, UsesLib, Inheriting, TestsP, Listing}

MCTrees ==
  { [m \in MCManifest |-> CASE m = p -> x [] m = q -> y [] m = lib -> z [] m = ws -> Listing] :
      x \in {Alone, UsesLib, Inheriting}, y \in {Alone, UsesLib}, z \in {Alone, TestsP} }

MCFile == {"lib.rs", "loose.rs", "p.rs", "q.rs"}
MCOrder == <<"lib.rs", "loose.rs", "p.rs", "q.rs">>
MCCrateOf == [f \in MCFile |->
  CASE f = "p.rs" -> p [] f = "q.rs" -> q [] f = "lib.rs" -> lib [] f = "loose.rs" -> None]
MCAddress == {A, B}

MCSources ==
  { [f \in MCFile |-> CASE f = "p.rs" -> x [] f = "q.rs" -> y [] f = "lib.rs" -> z [] f = "loose.rs" -> l] :
      x \in {<<>>, <<A>>, <<B, A, B>>}, y \in {<<>>, <<A>>, <<B>>}, z \in {<<>>, <<B>>}, l \in {<<>>, <<A>>} }

\* One program in two workspaces, both with its id.
MCTwins == {[f \in MCFile |-> IF f \in {"p.rs", "q.rs"} THEN <<A>> ELSE <<>>]}
============================================================================
