-------------------------------- MODULE Cpi --------------------------------
(***************************************************************************)
(* VL005, src/rules/cpi.rs: a CPI whose program id is the key of an        *)
(* account that nothing has verified.                                      *)
(***************************************************************************)
EXTENDS Bodies

\* Mutant of NearestPreceding: the last binding of the body.
LastBinding(body, name, at) == Max(Collected(body, name) \cup {0})

\* nearest_preceding: the last binding before the call, in whatever block; 0 for none.
NearestPreceding(body, name, at) == Max({j \in Collected(body, name) : j < at} \cup {0})

IsLocal(e) == e.form = "place" /\ Len(e.place) = 1 /\ ~e.key

\* resolve_one_hop: what the argument of the CPI at `at` stands for.
Instruction(body, at) ==
  LET e == body[at].expr
      j == IF IsLocal(e) THEN NearestPreceding(body, e.place[1], at) ELSE 0
  IN  IF j = 0 THEN e ELSE body[j].expr

\* e with the initialiser of its first identifier put in its place.
Expanded(body, e, j) ==
  IF j = 0 THEN e
  ELSE [e EXCEPT !.place = body[j].expr.place \o Tail(e.place), !.key = body[j].expr.key \/ @]

\* resolve_program_id_text, as of the call's position.
ProgramId(body, e, at) == Expanded(body, e, NearestPreceding(body, e.place[1], at))

\* context_program_fields: the places Anchor has verified the program at.
ProgramFields(file, f) ==
  LET Programs(p) == {d.name : d \in {x \in FieldsOf(file.anchor, p.struct) : x.ty.kind = "Program"}}
      Of(p) == CASE p.type = "context" -> {<<p.name, "accounts", n>> : n \in Programs(p)}
                 [] p.type = "struct"  -> {<<p.name, n>> : n \in Programs(p)}
                 [] p.type = "program" -> {<<p.name>>}
                 [] OTHER              -> {}
  IN  UNION {Of(p) : p \in file.functions[f].params}

\* whole_word_match: the identifiers of needle follow each other in place.
Occurs(needle, place) ==
  \E i \in 0 .. Len(place) - Len(needle) : SubSeq(place, i + 1, i + Len(needle)) = needle

IsCpiHelper(file, f) == \E p \in file.functions[f].params : p.type = "cpi_context"

HasSignal(file, f) == \E e \in Evidence(file, f) : "signal" \in e.marks

Calls(body) == {at \in DOMAIN body : body[at].kind = "cpi"}

\* check_body: the calls of function f that are reported.
UncheckedCpi(file, f) ==
  LET body == file.functions[f].body
  IN  {at \in Calls(body) :
         LET built == Instruction(body, at)
             id == ProgramId(body, built, at)
         IN  /\ ~IsCpiHelper(file, f)
             /\ ~HasSignal(file, f)
             /\ built.form = "build"
             /\ id.key
             /\ ~\E needle \in ProgramFields(file, f) : Occurs(needle, id.place)}

----------------------------------------------------------------------------
(***************************************************************************)
(* The reference: names mean what they mean where they stand, the program  *)
(* id where the Instruction is built, and an account is verified when its  *)
(* place starts with one that Anchor has verified.                         *)
(***************************************************************************)
BuiltAt(body, at) ==
  LET e == body[at].expr
      j == IF IsLocal(e) THEN Meaning(body, e.place[1], at) ELSE 0
  IN  IF j = 0 THEN at ELSE j

ArbitraryCpi(file, f) ==
  LET body == file.functions[f].body
  IN  {at \in Calls(body) :
         LET from == BuiltAt(body, at)
             built == body[from].expr
             id == Expanded(body, built, Meaning(body, built.place[1], from))
         IN  /\ ~IsCpiHelper(file, f)
             /\ ~HasSignal(file, f)
             /\ built.form = "build"
             /\ id.key
             /\ ~\E verified \in ProgramFields(file, f) : IsPrefix(verified, id.place)}

(***************************************************************************)
(* What the rule's search relies on for a call: the names in it are tidy,  *)
(* the one the program id was built from has not been bound again, and a   *)
(* verified place is found in the id nowhere but at its start, so that the *)
(* identifiers tell accounts apart.                                        *)
(***************************************************************************)
TidyCall(file, f, at) ==
  LET body == file.functions[f].body
      from == BuiltAt(body, at)
      built == body[from].expr
      name == built.place[1]
      id == Expanded(body, built, Meaning(body, name, from))
  IN  /\ Tidy(body, body[at].expr.place[1], at)
      /\ Tidy(body, name, at)
      /\ Meaning(body, name, at) = Meaning(body, name, from)
      /\ \A verified \in ProgramFields(file, f) : Occurs(verified, id.place) => IsPrefix(verified, id.place)
============================================================================
