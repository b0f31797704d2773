------------------------------- MODULE Owner -------------------------------
(***************************************************************************)
(* VL002, src/rules/owner.rs: the bytes of an account are deserialised and *)
(* nothing has verified the owner or the address of the account.           *)
(***************************************************************************)
EXTENDS Bodies

IsAlias(e) == e.form = "place" /\ ~e.key

\* Mutant of ReceiversOf: the name is not followed.
ReceiverAsWritten(body, place) == {place}

\* receivers_of: the place as written, and with every alias its head may be.
ReceiversOf(body, place) ==
  {place} \cup {body[j].expr.place \o Tail(place) :
                  j \in {i \in Collected(body, place[1]) : IsAlias(body[i].expr)}}

\* read_receivers: whose bytes reach the deserialiser; empty when it reads none.
ReadReceivers(body, at) ==
  LET e == body[at].expr
  IN  IF e.form = "bytes" THEN ReceiversOf(body, e.place)
      ELSE UNION {ReceiversOf(body, body[j].expr.place) :
                    j \in {i \in Collected(body, e.place[1]) : body[i].expr.form = "bytes"}}

HasOwnerCheck(file, f) == \E e \in Evidence(file, f) : "owner" \in e.marks

Derives(file, f) == \E e \in Evidence(file, f) : e.kind = "derive"

\* AddressEvidence.proofs: the places in comparisons, assertions and derivations.
Proofs(file, f) == UNION {e.places : e \in {x \in Evidence(file, f) : x.kind \in {"check", "derive"}}}

\* Mutant of PdaCheckCovers: a check of any account will do.
AnyCheckCovers(file, f, receivers) == Derives(file, f) /\ Proofs(file, f) # {}

\* pda_address_check_covers: the account's own name is in a proof.
PdaCheckCovers(file, f, receivers) ==
  /\ Derives(file, f)
  /\ \E r \in receivers : \E proof \in Proofs(file, f) : Last(r) \in Range(proof)

\* context_accounts_struct: `Context<Self>` is the type of the impl.
ContextStruct(file, f) ==
  {IF p.struct = "Self" THEN file.functions[f].is.self ELSE p.struct :
     p \in {x \in file.functions[f].params : x.type = "context"}}

\* field_after_accounts: the identifier behind the first `.accounts.`, if any.
FieldAfterAccounts(r) ==
  LET places == {i \in 2 .. Len(r) - 1 : r[i] = "accounts"}
  IN  IF places = {} THEN {} ELSE {r[Min(places) + 1]}

\* is_address_constrained
AddressConstrained(field) ==
  \E c \in Range(field.constraints) : c.kind = "Seeds" \/ (c.kind = "Other" /\ c.key = "address")

\* anchor_address_constraint_covers
ConstraintCovers(file, f, receivers) ==
  \E s \in ContextStruct(file, f) : \E d \in FieldsOf(file.anchor, s) :
    AddressConstrained(d) /\ \E r \in receivers : d.name \in FieldAfterAccounts(r)

Reads(body) == {at \in DOMAIN body : body[at].kind = "read"}

\* check_body: the reads of function f that are reported.
MissingOwnerCheck(file, f) ==
  LET body == file.functions[f].body
  IN  {at \in Reads(body) :
         LET receivers == ReadReceivers(body, at)
         IN  /\ ~HasOwnerCheck(file, f)
             /\ receivers # {}
             /\ ~PdaCheckCovers(file, f, receivers)
             /\ ~ConstraintCovers(file, f, receivers)}

\* read_parameter: a read of a bare AccountInfo parameter is Medium, any other High.
Severity(file, f, at) ==
  IF \E r \in ReadReceivers(file.functions[f].body, at) : \E p \in file.functions[f].params :
       p.type = "account_info" /\ p.name = r[1]
  THEN "medium" ELSE "high"

----------------------------------------------------------------------------
(***************************************************************************)
(* The reference: which account's bytes a read has, by lexical scoping,    *)
(* and what proves that very account.  As in the rule, an owner check      *)
(* anywhere counts, and the order of the read and the proof does not.      *)
(***************************************************************************)
\* The place a place stands for, after one alias.
Account(body, place, at) ==
  LET j == Meaning(body, place[1], at)
  IN  IF j # 0 /\ IsAlias(body[j].expr) THEN body[j].expr.place \o Tail(place) ELSE place

\* Where the bytes that a read deserialises are borrowed, if it has any.
BorrowedAt(body, at) ==
  LET e == body[at].expr
  IN  {b \in {IF e.form = "bytes" THEN at ELSE Meaning(body, e.place[1], at)} :
         b # 0 /\ body[b].expr.form = "bytes"}

\* The functions that have run when f returns: Anchor calls its guards first.
Running(file, f) ==
  {f} \cup {g \in DOMAIN file.functions :
             \E guard \in file.functions[f].guards :
               file.functions[g].is.self = guard.self /\ file.functions[g].is.function = guard.function}

Happened(file, f) == UNION {Range(file.functions[g].body) : g \in Running(file, f)}

OwnerChecked(file, f) == \E e \in Happened(file, f) : "owner" \in e.marks

Derived(file, f) == \E e \in Happened(file, f) : e.kind = "derive"

\* The accounts named in the comparisons, assertions and derivations of what runs.
ProvenPlaces(file, f) ==
  UNION {LET body == file.functions[g].body
         IN  UNION {{Account(body, p, at) : p \in body[at].places} :
                      at \in {i \in DOMAIN body : body[i].kind \in {"check", "derive"}}} :
           g \in Running(file, f)}

\* The accounts whose address Anchor has verified.
Constrained(file, f) ==
  UNION {{<<p.name, "accounts", d.name>> :
            d \in {x \in UNION {FieldsOf(file.anchor, s) : s \in ContextStruct(file, f)} :
                     \E c \in Range(x.constraints) : c.key \in {"seeds", "address"}}} :
           p \in {x \in file.functions[f].params : x.type = "context"}}

\* The places in ps include the account at `place`, or a part of it.
Names(ps, place) == \E p \in ps : IsPrefix(place, p)

\* The same places as they are written.
WrittenProofs(file, f) == UNION {e.places : e \in {x \in Happened(file, f) : x.kind \in {"check", "derive"}}}

\* The reads of an account that nothing proves.
UnprovenReads(file, f) ==
  LET body == file.functions[f].body
  IN  {at \in Reads(body) :
         /\ ~OwnerChecked(file, f)
         /\ \E b \in BorrowedAt(body, at) :
              LET account == Account(body, body[b].expr.place, b)
              IN  /\ ~(Derived(file, f) /\ Names(ProvenPlaces(file, f), account))
                  /\ ~\E c \in Constrained(file, f) : IsPrefix(c, account)}

\* The reads of an account that a proof names in full or the way the read does.
PlainlyProven(file, f) ==
  LET body == file.functions[f].body
  IN  {at \in Reads(body) :
         \/ OwnerChecked(file, f)
         \/ \E b \in BorrowedAt(body, at) :
              LET written == body[b].expr.place
                  account == Account(body, written, b)
              IN  \/ Derived(file, f) /\ \E r \in {written, account} : Names(WrittenProofs(file, f), r)
                  \/ \E c \in Constrained(file, f) : IsPrefix(c, account)}

(***************************************************************************)
(* What the rule relies on, having no positions: a name is bound once, its *)
(* binding is one the search finds, and an alias names no other local.     *)
(***************************************************************************)
BoundOnce(body) ==
  \A j \in DOMAIN body : body[j].kind = "let" =>
    /\ Bindings(body, body[j].name) = {j}
    /\ j \in Collected(body, body[j].name)
    /\ IsAlias(body[j].expr) => Bindings(body, body[j].expr.place[1]) = {}

(***************************************************************************)
(* And what it relies on for a read, comparing identifiers and no places:  *)
(* the names on the way to the bytes have no other binding; a proof with   *)
(* the last identifier of the account in it, or of the name the account is *)
(* read by, is of that account; and so is the field behind `.accounts.`.   *)
(***************************************************************************)
ToldApart(file, f, at) ==
  LET body == file.functions[f].body
      Only(name, i) == Bindings(body, name) \subseteq {Meaning(body, name, i)}
  IN  /\ Only(body[at].expr.place[1], at)
      /\ \A b \in BorrowedAt(body, at) :
           LET written == body[b].expr.place
               account == Account(body, written, b)
           IN  /\ Only(written[1], b)
               /\ \A r \in {written, account} :
                    /\ \A g \in Running(file, f) : \A i \in DOMAIN file.functions[g].body :
                         LET event == file.functions[g].body[i]
                         IN  event.kind \in {"check", "derive"} =>
                               \A p \in event.places :
                                 Last(r) \in Range(p) => IsPrefix(account, Account(file.functions[g].body, p, i))
                    /\ \A name \in FieldAfterAccounts(r) :
                         \E ctx \in file.functions[f].params :
                           ctx.type = "context" /\ IsPrefix(<<ctx.name, "accounts", name>>, account)
=============================================================================
