------------------------------- MODULE Bodies -------------------------------
(***************************************************************************)
(* Source files as the rules read them: function bodies, in the form VL002 *)
(* and VL005 look at, and the lexical scoping that these are measured by.  *)
(*                                                                         *)
(* A body is what it does in the order of the text.  The rules look at     *)
(* normalised text; here an expression is a path of identifiers with what  *)
(* is done to it, and texts are compared identifier by identifier.         *)
(***************************************************************************)
EXTENDS Anchor, Pda, Arithmetic

Place == Seq(Name) \ {<<>>}

(***************************************************************************)
(* A place, or the key of an account at a place; the bytes of an account;  *)
(* an Instruction built with a program id; any other call.                 *)
(***************************************************************************)
Expr == [form : {"place", "bytes", "build", "call"}, place : Place, key : BOOLEAN]

(***************************************************************************)
(* A block opens, seen by the search for bindings, or "aside", where that  *)
(* search does not go (an argument of a call); a block closes; a name is   *)
(* bound; a CPI; a deserialiser is called; places are compared or          *)
(* asserted; an address is derived.  Marks: the text has `.owner` in a     *)
(* checking position, or one of VERIFICATION_SIGNALS.                      *)
(***************************************************************************)
Event == [kind   : {"open", "aside", "close", "let", "cpi", "read", "check", "derive"},
          name   : Name,
          expr   : Expr,
          places : SUBSET Place,
          marks  : SUBSET {"owner", "signal"}]

Param == [name   : Name,
          type   : {"context", "cpi_context", "program", "account_info", "struct", "other"},
          struct : Name]

\* A function has at most one Context, as Anchor wants it of an instruction; the code takes the first.
Params == {ps \in SUBSET Param : \A p, q \in ps : p.type = "context" /\ q.type = "context" => p = q}

\* The qualifying type and the name of a function.
QualifiedName == [self : Name, function : Name]

(***************************************************************************)
(* Of a function VL003 and VL004 see the assignments and the derivations   *)
(* of addresses, in the order of the text, and VL003 the items around it.  *)
(***************************************************************************)
Function == [is : QualifiedName, guards : SUBSET QualifiedName, params : Params, body : Seq(Event),
             within : SUBSET Enclosing, writes : Seq(Write), derivations : Seq(Derivation)]

\* A file as it is written, with the answer for its workspace.
SourceFile == [functions : Seq(Function), items : Seq(RawStruct), overflowChecks : BOOLEAN]

----------------------------------------------------------------------------
\* The blocks of a body that are open at a position.
OpenAt(body, at) ==
  LET Deep(k) == Cardinality({i \in 1 .. k : body[i].kind \in {"open", "aside"}})
                   - Cardinality({i \in 1 .. k : body[i].kind = "close"})
  IN  {b \in 1 .. at - 1 : /\ body[b].kind \in {"open", "aside"}
                           /\ \A k \in b .. at - 1 : Deep(k) >= Deep(b)}

Bindings(body, name) == {j \in DOMAIN body : body[j].kind = "let" /\ body[j].name = name}

\* collect_let_bindings: the search goes into blocks that are statements or initialisers.
Collected(body, name) ==
  {j \in Bindings(body, name) : \A b \in OpenAt(body, j) : body[b].kind = "open"}

\* blocks_for: the functions of this file that an #[access_control] names, qualified.
BlocksFor(file, f) == {g \in DOMAIN file.functions : file.functions[g].is \in file.functions[f].guards}

\* merged_with: what runs, in the body and in the guards before it.
Evidence(file, f) ==
  Range(file.functions[f].body) \cup UNION {Range(file.functions[g].body) : g \in BlocksFor(file, f)}

----------------------------------------------------------------------------
(***************************************************************************)
(* The reference: a binding is visible as long as its block is open.       *)
(***************************************************************************)
Visible(body, name, at) ==
  {j \in Bindings(body, name) : j < at /\ OpenAt(body, j) \subseteq OpenAt(body, at)}

\* What a name means at a position; 0 when it is no local.
Meaning(body, name, at) == Max(Visible(body, name, at) \cup {0})

(***************************************************************************)
(* A name is tidy at a position when every binding before it is one the    *)
(* search finds, and those of closed blocks are bound again since.         *)
(***************************************************************************)
Tidy(body, name, at) ==
  \A j \in Bindings(body, name) :
    j < at => j \in Collected(body, name) /\ j <= Meaning(body, name, at)
============================================================================
