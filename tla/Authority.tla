----------------------------- MODULE Authority -----------------------------
(***************************************************************************)
(* VL001, src/rules/init_authority.rs, as far as one struct goes: T1 to T4 *)
(* and S1 to S3.  T5 and S4, over the handlers of the crate, are in Scan.  *)
(***************************************************************************)
EXTENDS Anchor

CONSTANTS Words     \* the parts of an identifier between its underscores

Markers == {"authority", "admin", "owner", "signer", "payer", "delegate", "manager", "governance"}

IsAuthorityNamed(name) == Last(Words[name]) \in Markers

\* name_in_seeds
NamedIn(name, text) == [name |-> name, as |-> "bare"] \in text.mentions

CarriesInit(field) == Has(field, "Init")

SeedsName(field, name) == \E c \in Range(field.constraints) : c.kind = "Seeds" /\ NamedIn(name, c.text)

\* S1
OwnConstraintsValidate(field) ==
  \E c \in Range(field.constraints) :
    \/ c.kind \in {"Seeds", "Custom"}
    \/ c.kind = "Other" /\ c.key \in {"signer", "address"}

\* Keys of two parts, `token::authority` and its like.
IsNamespaced(key) == key = "token::authority"

Binds(c, name) ==
  \/ c.kind \in {"HasOne", "Custom"} /\ NamedIn(name, c.text)
  \/ c.kind = "Other" /\ IsNamespaced(c.key) /\ c.text.path = <<name>>

\* Mutant of BoundBySettledSibling: an account that is being created counts.
BoundBySibling(accounts, name) ==
  \E sibling \in Range(accounts.fields) :
    sibling.name # name /\ \E c \in Range(sibling.constraints) : Binds(c, name)

\* S2
BoundBySettledSibling(accounts, name) ==
  \E sibling \in Range(accounts.fields) :
    /\ sibling.name # name
    /\ ~CarriesInit(sibling)
    /\ \E c \in Range(sibling.constraints) : Binds(c, name)

\* S3
HasProvenSignerAuthority(accounts) ==
  \E field \in Range(accounts.fields) :
    field.ty.kind = "Signer" /\ IsAuthorityNamed(field.name) /\ BoundBySettledSibling(accounts, field.name)

\* T1, T2 and T4: a raw account with such a name, in the seeds of one that is created.
Designated(accounts, field) ==
  /\ field.ty.kind \in {"AccountInfo", "UncheckedAccount"}
  /\ IsAuthorityNamed(field.name)
  /\ \E init \in Range(accounts.fields) : CarriesInit(init) /\ SeedsName(init, field.name)

\* check: the fields that are left for the handlers to prove.
Candidates(accounts) ==
  {k \in DOMAIN accounts.fields :
     LET field == accounts.fields[k]
     IN  /\ Designated(accounts, field)
         /\ ~HasProvenSignerAuthority(accounts)
         /\ ~OwnConstraintsValidate(field)
         /\ ~BoundBySettledSibling(accounts, field.name)}

----------------------------------------------------------------------------
(***************************************************************************)
(* The reference: Anchor's checks of a call by someone without standing,   *)
(* the only one to sign it.  Every account that exists names a "settled"   *)
(* party only, the one whose signature it took; an account that the call   *)
(* creates names whoever the call says.  The "victim" has never signed.    *)
(***************************************************************************)
Party == {"caller", "victim", "settled"}

\* Whose key each constraint pins to what existing accounts or the program say.
Pinned(accounts) ==
  {name \in {f.name : f \in Range(accounts.fields)} :
     \E f \in Range(accounts.fields) : \E c \in Range(f.constraints) :
       \/ /\ ~CarriesInit(f) /\ f.name # name
          /\ \/ c.key \in {"has_one", "constraint", "literal"} /\ NamedIn(name, c.text)
             \/ c.key = "token::authority" /\ c.text.path = <<name>>
       \/ f.name = name /\ c.key \in {"seeds", "address", "constraint", "literal"} }

Signs(field) == field.ty.kind = "Signer" \/ \E c \in Range(field.constraints) : c.key = "signer"

\* The ways to fill the struct that Anchor lets pass.
Accepted(accounts) ==
  { who \in [DOMAIN accounts.fields -> Party] :
      \A k \in DOMAIN accounts.fields :
        /\ accounts.fields[k].name \in Pinned(accounts) => who[k] = "settled"
        /\ Signs(accounts.fields[k]) => who[k] = "caller" }

\* The designated fields that can be filled with someone who never agreed.
Unproven(accounts) ==
  {k \in DOMAIN accounts.fields :
     Designated(accounts, accounts.fields[k]) /\ \E who \in Accepted(accounts) : who[k] = "victim"}

\* A signer that an existing account names, though its name is no authority's.
OtherSignerProven(accounts) ==
  \E f \in Range(accounts.fields) : Signs(f) /\ f.name \in Pinned(accounts)
============================================================================
