------------------------------ MODULE Sources ------------------------------
(***************************************************************************)
(* Rust source files as the scan sees them, and the reference definition   *)
(* of what a scan of a tree that nobody touches must report.               *)
(*                                                                         *)
(* A file's content is what the rules extract from it: the findings of the *)
(* file-local rules, the lines where findings are suppressed or lie in an  *)
(* inline test module, the Accounts structs, and its functions in the      *)
(* order walk_fns visits them.  The one linked rule is VL001, which        *)
(* judges an Accounts struct by the bodies that address its fields.        *)
(***************************************************************************)
EXTENDS Naturals, Sequences, FiniteSets

CONSTANTS
  File,        \* paths of .rs files under the scan root
  Order,       \* all of File in the order of the directory walk
  CrateOf,     \* the directory with the nearest Cargo.toml, for each file
  RootOf,      \* its workspace root manifest, or None
  TestPath,    \* the files under tests/, benches/ or in a fuzz crate (M1, M2)
  Unchecked,   \* the root manifests whose release profile lacks overflow-checks
  InScan,      \* the root manifests that lie under the scan root
  Struct,      \* names of Accounts structs
  Ident,       \* names of functions and parameters
  Line,        \* line numbers
  Content,     \* contents of files that parse
  Broken,      \* a file that cannot be read or parsed
  Gone,        \* no such file
  None         \* absent

\* How a body spells the fields of a struct: through its Context or as a method.
Mode == {"context", "self"}

\* What is known of a function after phase 1 (FnFact).
Fact == [name : Ident, ctx : Struct \cup {None}, self : Struct \cup {None}, params : Seq(Ident)]

(***************************************************************************)
(* What only its body says, for the candidate field of the struct: the     *)
(* spellings under which the body reads the field's key or its is_signer,  *)
(* the calls that pass the field on, and the parameters whose is_signer    *)
(* the body reads.                                                         *)
(***************************************************************************)
Body == [key : SUBSET Mode, signer : SUBSET Mode,
         forwards : SUBSET [callee : Ident, position : Nat], tests : SUBSET Ident]

\* `candidate`: VL001's structural tests T1 to T4 pass and S1 to S3 do not.
Accounts == [name : Struct, line : Line, candidate : BOOLEAN]

LocalFinding == [rule : {"VL002", "VL003", "VL004", "VL005"}, line : Line]

ASSUME ContentAssumption ==
  \A c \in Content :
    /\ c.facts \in Seq(Fact) /\ c.bodies \in Seq(Body) /\ Len(c.bodies) = Len(c.facts)
    /\ c.accounts \subseteq Accounts
    /\ c.local \subseteq LocalFinding
    /\ c.hidden \subseteq Line
    /\ c.m3 \subseteq File
    /\ c.onchain \in BOOLEAN

ASSUME MarkerAssumption ==
  /\ Broken \notin Content /\ Gone \notin Content /\ None \notin Content /\ Broken # Gone
  /\ None \notin Struct

ASSUME TreeAssumption ==
  /\ Order \in Seq(File) /\ {Order[i] : i \in DOMAIN Order} = File
  /\ \A i, j \in DOMAIN Order : Order[i] = Order[j] => i = j
  /\ TestPath \subseteq File
  /\ InScan \cap File = {} /\ None \notin InScan

OnDisk == Content \cup {Broken, Gone}

\* The files an external `#[cfg(test)] mod` of a content names, if they exist.
TestTargets(disk, content) ==
  IF content \in Content THEN {f \in content.m3 : disk[f] # Gone} ELSE {}

\* The findings of the file-local rules that `retain` keeps.
Kept(f, content) ==
  {[rule |-> x.rule, file |-> f, line |-> x.line] : x \in {y \in content.local : y.line \notin content.hidden}}

Vl001(f, struct) == [rule |-> "VL001", file |-> f, line |-> struct.line]

Manifest(root) == [rule |-> "VL003", file |-> root, line |-> 1]

----------------------------------------------------------------------------
(***************************************************************************)
(* The reference definition, on a tree `disk` that does not change.        *)
(***************************************************************************)
TestScope(disk) == TestPath \cup UNION {TestTargets(disk, disk[f]) : f \in File}

Readable(disk) == {f \in File \ TestScope(disk) : disk[f] \in Content}

\* The functions of a crate: a file and an ordinal.
Functions(disk, crate) ==
  UNION {{<<f, i>> : i \in DOMAIN disk[f].facts} : f \in {g \in Readable(disk) : CrateOf[g] = crate}}

Addresses(fact, struct, mode) ==
  \/ mode = "context" /\ fact.ctx = struct
  \/ mode = "self" /\ fact.self = struct

ChecksArgument(fact, body, position) ==
  position \in DOMAIN fact.params /\ fact.params[position] \in body.tests

\* Some body that addresses the struct writes the key; none proves a signature.
Unproven(fns, disk, struct) ==
  LET Uses(mode) == {x \in fns : Addresses(disk[x[1]].facts[x[2]], struct, mode)}
      Of(x) == disk[x[1]].bodies[x[2]]
  IN  /\ \E mode \in Mode : \E x \in Uses(mode) : mode \in Of(x).key
      /\ \A mode \in Mode : \A x \in Uses(mode) :
           /\ mode \notin Of(x).signer
           /\ \A call \in Of(x).forwards : \A y \in fns :
                ~ /\ disk[y[1]].facts[y[2]].name = call.callee
                  /\ ChecksArgument(disk[y[1]].facts[y[2]], Of(y), call.position)

LinkedFindings(disk) ==
  UNION { {Vl001(f, s) : s \in {t \in disk[f].accounts :
             /\ t.candidate
             /\ t.line \notin disk[f].hidden
             /\ Unproven(Functions(disk, CrateOf[f]), disk, t.name)}} : f \in Readable(disk)}

ManifestFindings(disk) ==
  {Manifest(root) : root \in {r \in Unchecked \cap InScan :
     \E f \in Readable(disk) : RootOf[f] = r /\ disk[f].onchain}}

Findings(disk) ==
  (UNION {Kept(f, disk[f]) : f \in Readable(disk)}) \cup LinkedFindings(disk) \cup ManifestFindings(disk)
============================================================================
