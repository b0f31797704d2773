------------------------------- MODULE MCRules -------------------------------
(***************************************************************************)
(* Files for TLC.  For VL002 and VL005: a handler with bindings before, in *)
(* and after the arms of a branch and a CPI in one of them, or one that    *)
(* deserialises an account; beside it the guard it may name and one like   *)
(* it.  For VL001 and VL004: Accounts structs.  For VL003 and VL004:       *)
(* functions with assignments or derivations, in test code or not.         *)
(***************************************************************************)
EXTENDS Rules

MCName == {"ctx", "accounts", "account", "program", "other", "info", "t", "ix", "data",
           "Self", "Guard", "Decoy", "Vault", "run", "validate", "none",
           "Accounts", "Debug", "Box", "Account", "AccountInfo", "UncheckedAccount", "Signer", "Program",
           "new_authority", "authority_bump", "authority", "admin", "user", "vault", "config",
           "bump", "user_bump", "amount", "args"}

MCWords ==
  [n \in MCName |-> CASE n = "new_authority"  -> <<"new", "authority">>
                     [] n = "authority_bump" -> <<"authority", "bump">>
                     [] n = "user_bump"      -> <<"user", "bump">>
                     [] OTHER                -> <<n>>]

Held(name) == <<"ctx", "accounts", name>>
ThePlace(p) == [form |-> "place", place |-> p, key |-> FALSE]
TheKey(p) == [form |-> "place", place |-> p, key |-> TRUE]
Bytes(p) == [form |-> "bytes", place |-> p, key |-> FALSE]
BuildBy(p) == [form |-> "build", place |-> p, key |-> TRUE]
BuildOf(p) == [form |-> "build", place |-> p, key |-> FALSE]
Call == [form |-> "call", place |-> <<"other">>, key |-> FALSE]

Event0(kind) == [kind |-> kind, name |-> "none", expr |-> Call, places |-> {}, marks |-> {}]
Let(name, e) == [Event0("let") EXCEPT !.name = name, !.expr = e]
Using(kind, e) == [Event0(kind) EXCEPT !.expr = e]
Over(kind, places, marks) == [Event0(kind) EXCEPT !.places = places, !.marks = marks]

\* Every local that the body names is in scope.
Compiles(body) ==
  \A i \in DOMAIN body : \A p \in {body[i].expr.place} \cup body[i].places :
    p[1] \in {"t", "ix", "data"} => Meaning(body, p[1], i) # 0

When(chosen, part) == IF chosen THEN part ELSE <<>>

Param0(name, type, struct) == [name |-> name, type |-> type, struct |-> struct]
Context == Param0("ctx", "context", "Self")
OfVault == Param0("ctx", "context", "Vault")

Function0 ==
  [is |-> [self |-> "Vault", function |-> "run"], guards |-> {}, params |-> {}, body |-> <<>>,
   within |-> {}, writes |-> <<>>, derivations |-> <<>>]

\* `Vault::run` with its guards; `Guard::validate`; `Decoy::validate`.
Handler(guarded, params, body, guard) ==
  << [Function0 EXCEPT !.params = params, !.body = body,
                       !.guards = IF guarded THEN {[self |-> "Guard", function |-> "validate"]} ELSE {}],
     [Function0 EXCEPT !.is = [self |-> "Guard", function |-> "validate"], !.body = guard],
     [Function0 EXCEPT !.is = [self |-> "Decoy", function |-> "validate"],
                       !.body = << Over("check", {Held("account")}, {"owner", "signal"}) >>] >>

Bare(name) == [name |-> name, as |-> "bare"]
Member(name) == [name |-> name, as |-> "member"]

\* `name`; `of.name`; an expression with one of them in it; a literal.
TheName(name) == [mentions |-> {Bare(name)}, path |-> <<name>>, empty |-> FALSE]
TheMember(of, name) == [mentions |-> {Bare(of), Member(name)}, path |-> <<of, name>>, empty |-> FALSE]
Within(mentions) == [mentions |-> mentions, path |-> <<>>, empty |-> FALSE]
Literal == Within({})

Item(key, text) == [key |-> key, text |-> text]
Flag(key) == Item(key, NoText)
Raw(name, type, items) == [name |-> name, type |-> type, items |-> items]
Struct(fields) ==
  [name |-> "Vault", derives |-> {"Accounts"}, within |-> <<>>, instruction |-> <<>>, fields |-> fields]

\* The struct's fields: an account, one whose address is constrained, a program.
VaultStruct ==
  Struct(<< Raw("account", <<"AccountInfo">>, <<>>),
            Raw("other", <<"AccountInfo">>, << Item("address", Literal) >>),
            Raw("program", <<"Box", "Program">>, <<>>) >>)

----------------------------------------------------------------------------
Target(name) == << Let("t", IF name = "program" THEN TheKey(Held(name)) ELSE ThePlace(Held(name))) >>
Built == << Let("ix", BuildBy(<<"t">>)) >>
BuiltOf == << Let("ix", BuildOf(<<"t">>)) >>
Imported == << Let("ix", Call) >>

Cpi == << Using("cpi", ThePlace(<<"ix">>)) >>

InArm == {<<>>, Built, Imported, Target("account") \o Built, Target("program") \o BuiltOf}

CpiBodies ==
  { body \in
      { before \o << Event0(arm) >> \o then \o When(in = 1, Cpi) \o << Event0("close"), Event0("open") >>
          \o else \o When(in = 2, Cpi) \o << Event0("close") >> \o rebound \o When(in = 3, Cpi) \o after :
        before \in {Target("account"), Target("account") \o Built, Target("program") \o BuiltOf, Imported},
        then \in InArm, else \in InArm, rebound \in {<<>>, Target("program"), Built},
        after \in {<<>>, Imported}, arm \in {"open", "aside"}, in \in 1 .. 3 } :
    Compiles(body) }

\* What may stand in the argument of the CPI itself.
InPlace == { << Using("cpi", e) >> : e \in {BuildBy(Held("account")), BuildBy(Held("program")), BuildBy(<<"t">>), Call} }

CpiFunctions ==
  { Handler(FALSE, {OfVault}, body, <<>>) : body \in CpiBodies }
    \cup { Handler(guarded, params, << Let("t", ThePlace(Held("program"))) >> \o body, guard) :
             guarded \in BOOLEAN, body \in InPlace,
             params \in {{OfVault}, {Context}, {OfVault, Param0("info", "cpi_context", "Vault")}},
             guard \in {<<>>, << Over("check", {}, {"signal"}) >>} }

----------------------------------------------------------------------------
Accounts == {Held("account"), Held("other"), <<"info">>}

\* The account whose bytes are read, possibly through an alias, and the bytes
\* themselves, possibly through a binding that follows the read; `info.account` is
\* an account that VL002 does not tell from `ctx.accounts.account`.
OwnerBodies ==
  { body \in
      { alias \o block \o bytes \o proof \o read \o derive \o When(block # <<>>, << Event0("close") >>) :
        alias \in {<<>>} \cup {<< Let("t", ThePlace(a)) >> : a \in Accounts},
        block \in {<<>>, << Event0("open") >>, << Event0("aside") >>},
        bytes \in {<<>>} \cup {<< Let("data", Bytes(p)) >> : p \in Accounts \cup {<<"t">>}},
        proof \in {<<>>} \cup {<< Over("check", {p}, marks) >> : p \in Accounts \cup {<<"t">>, <<"info", "account">>}, marks \in {{}, {"owner"}}},
        read \in {<< Using("read", e) >> : e \in {Bytes(<<"t">>), Bytes(Held("account")), ThePlace(<<"data">>), Call}},
        derive \in {<<>>, << Over("derive", {}, {}) >>, << Over("derive", {Held("account")}, {}) >>} } :
    Compiles(body) }

OwnerFunctions ==
  { Handler(guarded, {Context, Param0("info", "account_info", "none")}, body, guard) :
      guarded \in BOOLEAN, body \in OwnerBodies,
      guard \in {<< Over("check", {Held("account")}, {}) >>, << Over("derive", {Held("other")}, {}) >>,
                 << Let("t", ThePlace(Held("account"))), Over("check", {<<"t">>}, {"owner"}) >>} }

----------------------------------------------------------------------------
\* VL001: who is named in the seeds of the account to be created, who the
\* authority is, and who vouches for it.
Seeds == {<<Within({Bare("new_authority")})>>, <<Within({[name |-> "new_authority", as |-> "path"]})>>, <<Within({Bare("config"), Member("new_authority")})>>, <<>>}

Own == {<<>>, <<Flag("mut")>>, <<Flag("signer")>>, <<Item("address", Literal)>>, <<Item("literal", Within({}))>>}

Vouching ==
  {<<>>, <<Item("has_one", TheName("new_authority"))>>, <<Item("has_one", TheName("admin"))>>,
   <<Item("has_one", TheName("user"))>>,
   <<Item("constraint", Within({Bare("new_authority"), Member("bump")}))>>,
   <<Item("constraint", Within({Bare("config"), Member("new_authority")}))>>,
   <<Item("literal", Within({Bare("admin")}))>>,
   <<Item("token::authority", TheName("new_authority"))>>,
   <<Item("token::authority", TheMember("config", "new_authority"))>>}

Others == {<<>>} \cup {<<Raw(name, <<type>>, <<>>)>> : name \in {"admin", "user"}, type \in {"Signer", "AccountInfo"}}

AuthorityStructs ==
  { Struct(<< Raw("vault", <<"Account", "Vault">>,
                 [i \in DOMAIN seeds |-> Item("seeds", seeds[i])] \o << Flag(init) >> \o itself),
              Raw("new_authority", type, own),
              Raw("config", <<"Box", "Account", "Vault">>, When(created, << Flag("init_if_needed") >>) \o vouching) >>
             \o others) :
      seeds \in Seeds, init \in {"init", "mut"}, itself \in {<<>>, <<Item("has_one", TheName("new_authority"))>>},
      type \in {<<"AccountInfo">>, <<"Box", "UncheckedAccount">>, <<"Signer">>},
      own \in Own, created \in BOOLEAN, vouching \in Vouching, others \in Others }

\* VL004: the bump of one account.
Bumps ==
  {<<>>, <<Flag("bump")>>} \cup
    {<<Item("bump", text)>> : text \in {TheName("user_bump"), TheName("authority_bump"), TheMember("vault", "bump"),
                                        TheMember("args", "bump"), Literal}}

BumpStructs ==
  { [Struct(<< Raw("vault", <<"Account", "Vault">>, When(init, << Flag("init") >>) \o When(seeded, << Item("seeds", Literal) >>) \o bump) >>)
       EXCEPT !.instruction = instruction, !.derives = derives, !.within = within] :
      init \in BOOLEAN, seeded \in BOOLEAN, bump \in Bumps,
      instruction \in {<<>>, << <<"user_bump">> >>, << <<"amount", "args">> >>, << <<"amount">>, <<"user_bump">> >>},
      derives \in {{"Accounts", "Debug"}, {"Debug"}}, within \in {<<>>, <<"mod">>, <<"mod", "fn">>} }

----------------------------------------------------------------------------
Writes ==
  { <<[target |-> target, op |-> op], [target |-> "field", op |-> other]>> :
      target \in {"field", "other"}, op \in {"add", "sub", "mul", "div", "rem", "call"}, other \in {"mul", "call"} }

\* The items around a function and the function, one of them for tests or none.
Around ==
  { {[item |-> "mod", test |-> tested = "mod"], [item |-> last, test |-> tested = last]} :
      last \in {"fn", "impl", "method"}, tested \in {"mod", "fn", "impl", "method", "none"} }

Derivations ==
  { [function |-> function, last |-> last] :
      function \in {"create_program_address", "find_program_address"},
      last \in {<<>>, <<TheName("user_bump")>>, <<TheMember("vault", "bump")>>, <<Within({Bare("vault"), Member("bump")})>>,
                 <<Literal>>, <<TheName("bump"), TheName("amount")>>} }

Leaves ==
  { [Function0 EXCEPT !.within = within, !.writes = writes] : within \in Around, writes \in Writes }
    \cup { [Function0 EXCEPT !.derivations = <<first, second>>] : first, second \in Derivations }

File(functions, structs, overflowChecks) ==
  [functions |-> functions, items |-> structs, overflowChecks |-> overflowChecks]

Described ==
  ((CpiFunctions \cup OwnerFunctions) \X {<< VaultStruct >>} \X {FALSE})
    \cup ({<< f >> : f \in Leaves} \X {<<>>} \X BOOLEAN)
    \cup ({<<>>} \X ({<< struct >> : struct \in AuthorityStructs} \cup {<< struct, VaultStruct >> : struct \in BumpStructs}) \X {TRUE})

MCSourceFiles == {File(x[1], x[2], x[3]) : x \in Described}
============================================================================
