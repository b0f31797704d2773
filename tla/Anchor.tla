------------------------------- MODULE Anchor -------------------------------
(***************************************************************************)
(* The model of Anchor's account structs, src/anchor: from the attributes  *)
(* and types as they are written to what the rules ask about.              *)
(*                                                                         *)
(* Text is abstracted to the identifiers in it.  One is "bare" when it     *)
(* names a field or a variable, a "member" behind a dot (`vault.bump`), or *)
(* a part of a "path" (`config::ID`); a text that is nothing but one place *)
(* has it as its path.                                                     *)
(***************************************************************************)
EXTENDS Naturals, Sequences, FiniteSets, SequencesExt

CONSTANTS Name      \* identifiers

Mention == [name : Name, as : {"bare", "member", "path"}]

\* A place mentions its first identifier, and the others as its members.
Text ==
  {t \in [mentions : SUBSET Mention, path : Seq(Name), empty : BOOLEAN] :
     t.path # <<>> =>
       /\ t.mentions = {[name |-> t.path[i], as |-> IF i = 1 THEN "bare" ELSE "member"] : i \in DOMAIN t.path}
       /\ ~t.empty}

NoText == [mentions |-> {}, path |-> <<>>, empty |-> TRUE]

\* Keys of #[account(..)]; "literal" is Anchor's legacy `#[account("<expr>")]`.
Key == {"init", "init_if_needed", "mut", "seeds", "bump", "has_one", "constraint", "literal",
        "signer", "address", "token::authority"}

\* One `key` or `key = value`; of a literal, the expression in it.
MetaItem == [key : Key, text : Text]

\* A type from the outside in, <<"Box", "Account", "Vault">>; <<>> is not a path.
\* Anchor turns away a second `bump`.
RawField ==
  {field \in [name : Name, type : Seq(Name), items : Seq(MetaItem)] :
     \A i, j \in DOMAIN field.items : field.items[i].key = "bump" /\ field.items[j].key = "bump" => i = j}

\* The modules or functions around a struct, and its #[instruction(..)] attributes.
\* The compiler turns away a second field of the same name.
RawStruct ==
  {struct \in [name : Name, derives : SUBSET Name, within : Seq({"mod", "fn"}),
               instruction : Seq(Seq(Name)), fields : Seq(RawField)] :
     \A i, j \in DOMAIN struct.fields : struct.fields[i].name = struct.fields[j].name => i = j}

----------------------------------------------------------------------------
Constraint == [kind : {"Init", "Mut", "Seeds", "Bump", "HasOne", "Custom", "Other"}, key : Key, text : Text]

AccountTy == [kind : {"Signer", "AccountInfo", "UncheckedAccount", "Program", "Account", "Other"},
              of : Seq(Name)]

AccountField == [name : Name, ty : AccountTy, constraints : Seq(Constraint)]

AccountsStruct == [name : Name, args : SUBSET Name, fields : Seq(AccountField)]

KindOf ==
  [init |-> "Init", init_if_needed |-> "Init", mut |-> "Mut", seeds |-> "Seeds", bump |-> "Bump",
   has_one |-> "HasOne", constraint |-> "Custom", literal |-> "Custom"]

\* to_constraint
ToConstraint(item) ==
  [kind |-> IF item.key \in DOMAIN KindOf THEN KindOf[item.key] ELSE "Other",
   key  |-> item.key,
   text |-> item.text]

\* account_ty: boxes are taken off as long as they hold a type.
ToAccountTy(type) ==
  LET boxes == Max({n \in 0 .. Len(type) : \A i \in 1 .. n : type[i] = "Box" /\ i < Len(type)})
      bare == SubSeq(type, boxes + 1, Len(type))
  IN  IF bare = <<>> THEN [kind |-> "Other", of |-> <<>>]
      ELSE IF bare[1] \in {"Account", "InterfaceAccount"} THEN [kind |-> "Account", of |-> Tail(bare)]
      ELSE IF bare[1] \in {"Signer", "AccountInfo", "UncheckedAccount", "Program"} THEN [kind |-> bare[1], of |-> <<>>]
      ELSE [kind |-> "Other", of |-> <<bare[1]>>]

\* account_field
ToField(field) ==
  [name        |-> field.name,
   ty          |-> ToAccountTy(field.type),
   constraints |-> [i \in DOMAIN field.items |-> ToConstraint(field.items[i])]]

\* instruction_arg_names: of the first such attribute.
InstructionArgs(struct) == IF struct.instruction = <<>> THEN {} ELSE Range(struct.instruction[1])

\* collect: inline modules are entered, functions are not.
IsAccounts(struct) == "Accounts" \in struct.derives /\ \A i \in DOMAIN struct.within : struct.within[i] = "mod"

\* The struct that is pushed for an item.
ToStruct(struct) ==
  [name   |-> struct.name,
   args   |-> InstructionArgs(struct),
   fields |-> [k \in DOMAIN struct.fields |-> ToField(struct.fields[k])]]

\* The fields of the first struct of a name.
FieldsOf(anchor, name) ==
  LET named == {i \in DOMAIN anchor : anchor[i].name = name}
  IN  IF named = {} THEN {} ELSE Range(anchor[Min(named)].fields)

Has(field, kind) == \E c \in Range(field.constraints) : c.kind = kind
============================================================================
