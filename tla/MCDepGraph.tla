----------------------------- MODULE MCDepGraph -----------------------------
(***************************************************************************)
(* A workspace root ws and two crates for TLC.  The crates sit beside each *)
(* other, so that "a" and "b" lead to the same crate from anywhere, and    *)
(* "here" is a crate's own directory.  b belongs to no workspace.          *)
(***************************************************************************)
EXTENDS DepGraph

CONSTANTS ws, a, b

MCManifest == {ws, a, b}
MCPath == {"a", "b", "here"}
MCName == {"x"}

MCRootOf == [m \in MCManifest |-> IF m = b THEN None ELSE ws]

MCManifestIn ==
  [m \in MCManifest |-> [p \in MCPath |-> CASE p = "a" -> a
                                             [] p = "b" -> b
                                             [] OTHER -> m]]

Dep(table, optional, path, workspace) ==
  [table |-> table, name |-> "x", optional |-> optional, path |-> path, workspace |-> workspace]

Holding(deps, inherit) == [deps |-> deps, inherit |-> [n \in MCName |-> inherit]]

\* Path dependencies both ways (a cycle), an inherited one beside a plain one, and what must not be followed.
MCContent ==
  { Holding({}, "b"),
    Holding({Dep("dependencies", FALSE, "a", FALSE)}, "here"),
    Holding({Dep("target", FALSE, "b", TRUE), Dep("dependencies", FALSE, "a", FALSE)}, None),
    Holding({Dep("dependencies", FALSE, None, TRUE), Dep("target", FALSE, "a", FALSE)}, "b"),
    Holding({Dep("dependencies", TRUE, "a", FALSE), Dep("dev", FALSE, "b", FALSE),
             Dep("build", FALSE, None, TRUE), Dep("target", FALSE, None, FALSE)}, "b") }
============================================================================
