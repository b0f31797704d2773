--------------------------------- MODULE Pda ---------------------------------
(***************************************************************************)
(* VL004, src/rules/pda.rs: a program address with a bump that the caller  *)
(* may choose, as a constraint and as a call.                              *)
(***************************************************************************)
EXTENDS Anchor

\* A call that derives an address.  `last` are the elements of the last seed
\* when the seeds are written out and that seed is an array, else <<>>.
Derivation == [function : {"create_program_address", "find_program_address"}, last : Seq(Text)]

IsBareIdentifier(text) == Len(text.path) = 1

\* The first `bump = <expr>` of a field.
BumpExpr(field) ==
  LET bumps == {i \in DOMAIN field.constraints :
                  field.constraints[i].kind = "Bump" /\ ~field.constraints[i].text.empty}
  IN  IF bumps = {} THEN {} ELSE {field.constraints[Min(bumps)].text}

\* Mutant of NonCanonicalBumps: an account that is being created is no exception.
BumpsOfAnyField(accounts) ==
  {k \in DOMAIN accounts.fields :
     LET field == accounts.fields[k]
     IN  /\ Has(field, "Seeds")
         /\ \E bump \in BumpExpr(field) : IsBareIdentifier(bump) /\ bump.path[1] \in accounts.args}

\* The declarative half of check.
NonCanonicalBumps(accounts) ==
  {k \in DOMAIN accounts.fields :
     LET field == accounts.fields[k]
     IN  /\ Has(field, "Seeds")
         /\ ~Has(field, "Init")
         /\ \E bump \in BumpExpr(field) : IsBareIdentifier(bump) /\ bump.path[1] \in accounts.args}

\* bump_seed: the last seed, if it has one element.
BumpSeed(call) == IF Len(call.last) = 1 THEN {call.last[1]} ELSE {}

ReadsStoredValue(text) == \E m \in text.mentions : m.as = "member"

\* The visitor of calls.
NonCanonicalCalls(derivations) ==
  {i \in DOMAIN derivations :
     /\ derivations[i].function = "create_program_address"
     /\ ~\E seed \in BumpSeed(derivations[i]) : ReadsStoredValue(seed)}

----------------------------------------------------------------------------
(***************************************************************************)
(* The reference: the bumps that get through for one set of seeds.  What   *)
(* an account stores is the canonical bump, what `find_program_address`    *)
(* finds and `init` stores; an argument is whatever the caller passes.     *)
(***************************************************************************)
Passing(text, args) ==
  IF \E m \in text.mentions : m.as = "bare" /\ m.name \in args THEN {"canonical", "other"} ELSE {"canonical"}

\* The fields that can be filled with more than one account for the same seeds.
Ambiguous(accounts) ==
  {k \in DOMAIN accounts.fields :
     LET constraints == Range(accounts.fields[k].constraints)
     IN  /\ \E c \in constraints : c.key = "seeds"
         /\ \E c \in constraints : c.key = "bump" /\ Passing(c.text, accounts.args) # {"canonical"}
         /\ ~\E c \in constraints : c.key \in {"init", "init_if_needed"}}

\* The bump of a field is an argument, and no part of one.
TakenAsIs(accounts, k) ==
  \E c \in Range(accounts.fields[k].constraints) : c.key = "bump" /\ \E a \in accounts.args : c.text.path = <<a>>

\* A call by its function and the last of its last seed.
Searches(call) == call.function = "find_program_address"

TakesStored(call) == Len(call.last) = 1 /\ Len(call.last[1].path) > 1

MayChoose(call) ==
  call.function = "create_program_address" /\ (call.last = <<>> \/ Len(call.last[1].path) = 1)
============================================================================
