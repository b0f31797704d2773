---------------------------- MODULE MCWorkspace ----------------------------
(***************************************************************************)
(* Three nested directories and one beside them for TLC: a repository, a   *)
(* program in it, a crate below the program, and a sibling without files.  *)
(***************************************************************************)
EXTENDS Workspace

Repo == <<>>
Prog == <<"prog">>
Sub == <<"prog", "sub">>
Lib == <<"lib">>

MCDir == {Repo, Prog, Sub, Lib}

Plain == [pointer |-> None, workspace |-> FALSE, exclude |-> {}, checks |-> FALSE]
Flagged == [Plain EXCEPT !.checks = TRUE]
Virtual == [Flagged EXCEPT !.workspace = TRUE]
Excluding == [Plain EXCEPT !.workspace = TRUE, !.exclude = {Prog}]
Pointing == [Plain EXCEPT !.pointer = Lib]

MCContent == {Plain, Flagged, Virtual, Excluding, Pointing}

MCTrees ==
  {[d \in MCDir |-> CASE d = Repo -> r [] d = Prog -> p [] d = Sub -> s [] d = Lib -> l] :
     r \in {Plain, Virtual, Excluding, Gone}, p \in OnDisk, s \in {Flagged, Pointing, Gone},
     l \in {Virtual, Gone}}

\* A crate with a [workspace] of its own, below a repository that does not list it.
Own == [Plain EXCEPT !.workspace = TRUE]

MCNestedContent == {Virtual, Own}

MCNestedTrees == {[d \in MCDir |-> CASE d = Repo -> Virtual [] d = Lib -> Own [] OTHER -> Gone]}
============================================================================
