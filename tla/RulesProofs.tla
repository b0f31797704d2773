---------------------------- MODULE RulesProofs ----------------------------
(***************************************************************************)
(* The pass of Rules finds exactly what the rules decide struct by struct  *)
(* and function by function; and what VL001, VL003 and VL004 decide is     *)
(* right for structs of any number of fields and functions of any length.  *)
(***************************************************************************)
EXTENDS Rules, SequenceTheorems, WellFoundedInduction, TLAPS

----------------------------------------------------------------------------
(***************************************************************************)
(* The Anchor model: what the translation of a field keeps.                *)
(***************************************************************************)

(***************************************************************************)
(* A constraint has its kind from its key (to_constraint).                 *)
(***************************************************************************)
LEMMA ConstraintKinds ==
  ASSUME NEW item \in MetaItem
  PROVE  LET c == ToConstraint(item)
         IN  /\ c.key = item.key /\ c.text = item.text /\ c.key \in Key
             /\ c.kind = "Init" <=> c.key \in {"init", "init_if_needed"}
             /\ c.kind = "Seeds" <=> c.key = "seeds"
             /\ c.kind = "Bump" <=> c.key = "bump"
             /\ c.kind = "HasOne" <=> c.key = "has_one"
             /\ c.kind = "Custom" <=> c.key \in {"constraint", "literal"}
             /\ c.kind = "Other" <=> c.key \in {"signer", "address", "token::authority"}
<1>1. item.key \in Key
  BY DEF MetaItem
<1>2. DOMAIN KindOf = {"init", "init_if_needed", "mut", "seeds", "bump", "has_one", "constraint", "literal"}
  BY DEF KindOf
<1> QED  BY <1>1, <1>2 DEF ToConstraint, KindOf, Key

\* A field of a struct of the model, with the constraints it has.
IsField(field) ==
  /\ \A i, j \in DOMAIN field.constraints :
       field.constraints[i].kind = "Bump" /\ field.constraints[j].kind = "Bump" => i = j
  /\ \A c \in Range(field.constraints) : \E item \in MetaItem : c = ToConstraint(item)
  /\ DOMAIN field.constraints \subseteq Nat

IsStruct(accounts) ==
  /\ \A k \in DOMAIN accounts.fields : IsField(accounts.fields[k])
  /\ \A j, k \in DOMAIN accounts.fields : accounts.fields[j].name = accounts.fields[k].name => j = k

(***************************************************************************)
(* What is pushed for an item is such a struct.                            *)
(***************************************************************************)
LEMMA StructsAreTranslated ==
  ASSUME NEW raw \in RawStruct
  PROVE  IsStruct(ToStruct(raw))
<1>. DEFINE accounts == ToStruct(raw)
<1>1. /\ DOMAIN accounts.fields = DOMAIN raw.fields
      /\ \A k \in DOMAIN raw.fields : accounts.fields[k] = ToField(raw.fields[k])
  BY DEF ToStruct
<1>2. \A k \in DOMAIN raw.fields : raw.fields[k] \in RawField
  BY DEF RawStruct
<1>3. \A j, k \in DOMAIN accounts.fields : accounts.fields[j].name = accounts.fields[k].name => j = k
  <2>. HIDE DEF accounts
  <2>1. \A field : ToField(field).name = field.name
    BY DEF ToField
  <2>2. \A j, k \in DOMAIN raw.fields : raw.fields[j].name = raw.fields[k].name => j = k
    BY DEF RawStruct
  <2> QED  BY <1>1, <2>1, <2>2
<1>4. ASSUME NEW field \in RawField
      PROVE  IsField(ToField(field))
  <2>. DEFINE cs == ToField(field).constraints
  <2>1. /\ DOMAIN cs = DOMAIN field.items
        /\ \A i \in DOMAIN cs : field.items[i] \in MetaItem /\ cs[i] = ToConstraint(field.items[i])
    BY <1>4 DEF RawField, ToField
  <2>2. \A i \in DOMAIN cs : cs[i].kind = "Bump" <=> field.items[i].key = "bump"
    BY <2>1, ConstraintKinds
  <2>3. \A i, j \in DOMAIN cs : cs[i].kind = "Bump" /\ cs[j].kind = "Bump" => i = j
    BY <2>1, <2>2, <1>4 DEF RawField
  <2>4. \A c \in Range(cs) : \E item \in MetaItem : c = ToConstraint(item)
    BY <2>1 DEF Range
  <2>5. DOMAIN cs \subseteq Nat
    BY <2>1 DEF RawField
  <2> QED  BY <2>3, <2>4, <2>5 DEF IsField
<1> QED  BY <1>1, <1>2, <1>3, <1>4 DEF IsStruct

----------------------------------------------------------------------------
(***************************************************************************)
(* Places and positions.                                                   *)
(***************************************************************************)

(***************************************************************************)
(* A set of naturals that is not empty has a least element; if it has a    *)
(* bound, also a greatest.                                                 *)
(***************************************************************************)
LEMMA LeastPosition ==
  ASSUME NEW T, T \subseteq Nat, T # {}
  PROVE  Min(T) \in T /\ \A y \in T : Min(T) <= y
<1>. DEFINE R == OpToRel(<, Nat)
<1>1. IsWellFoundedOn(R, Nat)
  BY NatLessThanWellFounded
<1>2. \A x, y \in Nat : <<x, y>> \in R <=> x < y
  BY DEF OpToRel
<1>. HIDE DEF R
<1>3. PICK x \in T : \A y \in T : ~(<<y, x>> \in R)
  BY <1>1, WFMin
<1>4. \A y \in T : ~(y < x)
  BY <1>2, <1>3
<1>5. \A y \in T : x <= y
  BY <1>4
<1> QED  BY <1>5 DEF Min

LEMMA GreatestPosition ==
  ASSUME NEW n \in Nat, NEW T, T \subseteq 0 .. n, T # {}
  PROVE  Max(T) \in T /\ \A y \in T : y <= Max(T)
<1>. DEFINE Above == {n - y : y \in T}
<1>1. Above \subseteq Nat /\ Above # {}
  <2>1. \A y \in T : y \in 0 .. n /\ n - y \in Nat
    OBVIOUS
  <2> QED  BY <2>1
<1>2. PICK x \in T : Min(Above) = n - x
  BY <1>1, LeastPosition
<1>3. ASSUME NEW y \in T
      PROVE  y <= x
  <2>1. n - y \in Above
    OBVIOUS
  <2>2. n - x <= n - y
    BY <1>1, <1>2, <2>1, LeastPosition
  <2>3. x \in 0 .. n /\ y \in 0 .. n
    OBVIOUS
  <2> QED  BY <2>2, <2>3
<1>4. \A y \in T : x >= y
  BY <1>3
<1>5. Max(T) \in T /\ \A y \in T : Max(T) >= y
  BY <1>4 DEF Max
<1> QED  BY <1>5

(***************************************************************************)
(* A prefix has the first elements of the list.                            *)
(***************************************************************************)
LEMMA PrefixElements ==
  ASSUME NEW S, NEW T, NEW s \in Seq(S), NEW t \in Seq(T), IsPrefix(s, t)
  PROVE  /\ Len(s) <= Len(t)
         /\ \A i \in 1 .. Len(s) : s[i] = t[i]
         /\ SubSeq(t, 1, Len(s)) = s
<1>1. Len(s) \in Nat /\ Len(t) \in Nat /\ Len(s) <= Len(t) /\ SubSeq(s, 1, Len(s)) = SubSeq(t, 1, Len(s))
  BY LenProperties DEF IsPrefix
<1>2. \A i \in 1 .. Len(s) : SubSeq(s, 1, Len(s))[i] = s[i] /\ SubSeq(t, 1, Len(s))[i] = t[i]
  BY <1>1
<1>3. SubSeq(s, 1, Len(s)) = s
  BY LenProperties
<1> QED  BY <1>1, <1>2, <1>3

----------------------------------------------------------------------------
(***************************************************************************)
(* VL001.                                                                  *)
(***************************************************************************)

(***************************************************************************)
(* A sibling that binds a name pins its key to what an existing account    *)
(* says (S2), and no other way of pinning a key is by a sibling.           *)
(***************************************************************************)
LEMMA SettledSiblingsPin ==
  ASSUME NEW accounts, IsStruct(accounts), NEW k \in DOMAIN accounts.fields
  PROVE  LET name == accounts.fields[k].name
         IN  name \in Pinned(accounts) <=>
               \/ BoundBySettledSibling(accounts, name)
               \/ \E c \in Range(accounts.fields[k].constraints) :
                    c.key \in {"seeds", "address", "constraint", "literal"}
<1>. DEFINE name == accounts.fields[k].name
            fields == Range(accounts.fields)
<1>1. /\ \A f \in fields : IsField(f)
      /\ \A f \in fields : f.name = name => f = accounts.fields[k]
      /\ accounts.fields[k] \in fields
      /\ name \in {f.name : f \in fields}
  BY DEF IsStruct, Range
<1>2. ASSUME NEW f \in fields, NEW c \in Range(f.constraints)
      PROVE  Binds(c, name) <=>
               \/ c.key \in {"has_one", "constraint", "literal"} /\ NamedIn(name, c.text)
               \/ c.key = "token::authority" /\ c.text.path = <<name>>
  BY <1>1, ConstraintKinds DEF IsField, Binds, IsNamespaced
<1>3. BoundBySettledSibling(accounts, name) <=>
        \E f \in fields : \E c \in Range(f.constraints) : ~CarriesInit(f) /\ f.name # name /\ Binds(c, name)
  BY DEF BoundBySettledSibling
<1>4. name \in Pinned(accounts) <=>
        \E f \in fields : \E c \in Range(f.constraints) :
          \/ /\ ~CarriesInit(f) /\ f.name # name
             /\ \/ c.key \in {"has_one", "constraint", "literal"} /\ NamedIn(name, c.text)
                \/ c.key = "token::authority" /\ c.text.path = <<name>>
          \/ f.name = name /\ c.key \in {"seeds", "address", "constraint", "literal"}
  BY <1>1 DEF Pinned
<1> QED  BY <1>1, <1>2, <1>3, <1>4

(***************************************************************************)
(* S1 is the rest: a field is not validated by its own constraints exactly *)
(* if none of them pins its key and none asks for its signature.           *)
(***************************************************************************)
LEMMA OwnConstraintsPinOrSign ==
  ASSUME NEW field, IsField(field)
  PROVE  OwnConstraintsValidate(field) <=>
           \E c \in Range(field.constraints) :
             c.key \in {"seeds", "address", "constraint", "literal", "signer"}
<1>1. ASSUME NEW c \in Range(field.constraints)
      PROVE  (\/ c.kind \in {"Seeds", "Custom"}
              \/ c.kind = "Other" /\ c.key \in {"signer", "address"})
               <=> c.key \in {"seeds", "address", "constraint", "literal", "signer"}
  BY ConstraintKinds DEF IsField
<1> QED  BY <1>1 DEF OwnConstraintsValidate

(***************************************************************************)
(* VL001 decides a struct of any size the way a stranger's call does:      *)
(* CandidatesAreUnproven, for the struct itself.                           *)
(***************************************************************************)
THEOREM StrangersDecide ==
  ASSUME NEW accounts, IsStruct(accounts)
  PROVE  /\ Unproven(accounts) \subseteq Candidates(accounts)
         /\ OtherSignerProven(accounts) \/ Candidates(accounts) \subseteq Unproven(accounts)
<1>. DEFINE F == accounts.fields
            P == Pinned(accounts)
<1>1. ASSUME NEW k \in Unproven(accounts)
      PROVE  k \in Candidates(accounts)
  <2>1. /\ k \in DOMAIN F
        /\ Designated(accounts, F[k])
    BY DEF Unproven
  <2>2. PICK who \in Accepted(accounts) : who[k] = "victim"
    BY DEF Unproven
  <2>3. \A j \in DOMAIN F : (F[j].name \in P => who[j] = "settled") /\ (Signs(F[j]) => who[j] = "caller")
    BY DEF Accepted
  <2>4. F[k].name \notin P /\ ~Signs(F[k])
    BY <2>1, <2>2, <2>3
  <2>5. ~BoundBySettledSibling(accounts, F[k].name)
    BY <2>1, <2>4, SettledSiblingsPin
  <2>6. ~OwnConstraintsValidate(F[k])
    BY <2>1, <2>4, SettledSiblingsPin, OwnConstraintsPinOrSign DEF IsStruct, Signs
  <2>7. ~HasProvenSignerAuthority(accounts)
    <3>1. SUFFICES ASSUME NEW j \in DOMAIN F, F[j].ty.kind = "Signer",
                          BoundBySettledSibling(accounts, F[j].name)
                   PROVE  FALSE
      BY DEF HasProvenSignerAuthority, Range
    <3>2. F[j].name \in P /\ Signs(F[j])
      BY <3>1, SettledSiblingsPin DEF Signs
    <3> QED  BY <2>3, <3>2
  <2> QED  BY <2>1, <2>5, <2>6, <2>7 DEF Candidates
<1>2. ASSUME ~OtherSignerProven(accounts), NEW k \in Candidates(accounts)
      PROVE  k \in Unproven(accounts)
  <2>. DEFINE who == [j \in DOMAIN F |-> IF F[j].name \in P THEN "settled"
                                         ELSE IF Signs(F[j]) THEN "caller" ELSE "victim"]
  <2>1. /\ k \in DOMAIN F
        /\ Designated(accounts, F[k])
        /\ ~OwnConstraintsValidate(F[k])
        /\ ~BoundBySettledSibling(accounts, F[k].name)
    BY DEF Candidates
  <2>2. \A j \in DOMAIN F : ~(F[j].name \in P /\ Signs(F[j]))
    BY <1>2 DEF OtherSignerProven, Range
  <2>3. who \in Accepted(accounts)
    BY <2>2 DEF Accepted, Party
  <2>4. F[k].name \notin P
    BY <2>1, SettledSiblingsPin, OwnConstraintsPinOrSign DEF IsStruct
  <2>5. ~Signs(F[k])
    BY <2>1, OwnConstraintsPinOrSign DEF IsStruct, Signs, Designated
  <2>6. who[k] = "victim"
    BY <2>1, <2>4, <2>5
  <2> QED  BY <2>1, <2>3, <2>6 DEF Unproven
<1> QED  BY <1>1, <1>2

----------------------------------------------------------------------------
(***************************************************************************)
(* VL004.                                                                  *)
(***************************************************************************)

(***************************************************************************)
(* A field has at most one bump: BumpExpr is its text, if it has any.      *)
(***************************************************************************)
LEMMA BumpIsTheOne ==
  ASSUME NEW field, IsField(field),
         NEW i \in DOMAIN field.constraints, field.constraints[i].kind = "Bump"
  PROVE  BumpExpr(field) = IF field.constraints[i].text.empty THEN {} ELSE {field.constraints[i].text}
<1>. DEFINE bumps == {j \in DOMAIN field.constraints :
                        field.constraints[j].kind = "Bump" /\ ~field.constraints[j].text.empty}
<1>1. bumps = IF field.constraints[i].text.empty THEN {} ELSE {i}
  BY DEF IsField
<1>2. i \in Nat
  BY DEF IsField
<1>3. Min({i}) = i
  BY <1>2 DEF Min
<1>4. BumpExpr(field) = IF bumps = {} THEN {} ELSE {field.constraints[Min(bumps)].text}
  BY DEF BumpExpr
<1>. HIDE DEF bumps
<1> QED  BY <1>1, <1>3, <1>4

(***************************************************************************)
(* A list of one element is not the empty one.                             *)
(***************************************************************************)
LEMMA OneIsNotEmpty ==
  ASSUME NEW s, Len(s) = 1
  PROVE  s # <<>>
OBVIOUS

(***************************************************************************)
(* A text of one identifier mentions it bare, and nothing else.            *)
(***************************************************************************)
LEMMA OneNameIsBare ==
  ASSUME NEW t \in Text, Len(t.path) = 1
  PROVE  t.mentions = {[name |-> t.path[1], as |-> "bare"]} /\ ~t.empty
<1>1. t.path \in Seq(Name) /\ t.path # <<>> /\ DOMAIN t.path = {1}
  BY DEF Text
<1>2. t.mentions = {[name |-> t.path[i], as |-> IF i = 1 THEN "bare" ELSE "member"] : i \in DOMAIN t.path} /\ ~t.empty
  BY <1>1 DEF Text
<1> QED  BY <1>1, <1>2

(***************************************************************************)
(* One of several identifiers has a member.                                *)
(***************************************************************************)
LEMMA LongPlacesHaveMembers ==
  ASSUME NEW t \in Text, Len(t.path) > 1
  PROVE  ReadsStoredValue(t)
<1>1. t.path \in Seq(Name) /\ t.path # <<>> /\ 2 \in DOMAIN t.path
  BY DEF Text
<1>2. [name |-> t.path[2], as |-> "member"] \in t.mentions
  <2>1. t.mentions = {[name |-> t.path[i], as |-> IF i = 1 THEN "bare" ELSE "member"] : i \in DOMAIN t.path}
    BY <1>1 DEF Text
  <2> QED  BY <1>1, <2>1
<1> QED  BY <1>2 DEF ReadsStoredValue

(***************************************************************************)
(* VL004 decides a struct of any size by the accounts that get through:    *)
(* the first half of BumpVerdicts.                                         *)
(***************************************************************************)
THEOREM BumpsDecide ==
  ASSUME NEW accounts, IsStruct(accounts)
  PROVE  /\ NonCanonicalBumps(accounts) \subseteq Ambiguous(accounts)
         /\ {k \in Ambiguous(accounts) : TakenAsIs(accounts, k)} \subseteq NonCanonicalBumps(accounts)
<1>. DEFINE F == accounts.fields
<1>1. ASSUME NEW k \in DOMAIN F
      PROVE  /\ IsField(F[k])
             /\ Has(F[k], "Seeds") <=> \E c \in Range(F[k].constraints) : c.key = "seeds"
             /\ Has(F[k], "Init") <=> \E c \in Range(F[k].constraints) : c.key \in {"init", "init_if_needed"}
             /\ \A c \in Range(F[k].constraints) :
                  c.text \in Text /\ (c.key = "bump" => c.kind = "Bump") /\ (c.kind = "Bump" => c.key = "bump")
  <2>1. IsField(F[k])
    BY DEF IsStruct
  <2>2. \A c \in Range(F[k].constraints) :
          /\ c.text \in Text
          /\ c.kind = "Bump" <=> c.key = "bump"
          /\ c.kind = "Seeds" <=> c.key = "seeds"
          /\ c.kind = "Init" <=> c.key \in {"init", "init_if_needed"}
    BY <2>1, ConstraintKinds DEF IsField, MetaItem
  <2> QED  BY <2>1, <2>2 DEF Has
<1>2. ASSUME NEW k \in NonCanonicalBumps(accounts)
      PROVE  k \in Ambiguous(accounts)
  <2>1. /\ k \in DOMAIN F /\ Has(F[k], "Seeds") /\ ~Has(F[k], "Init")
        /\ \E bump \in BumpExpr(F[k]) : IsBareIdentifier(bump) /\ bump.path[1] \in accounts.args
    BY DEF NonCanonicalBumps
  <2>2. PICK i \in DOMAIN F[k].constraints : F[k].constraints[i].kind = "Bump"
    BY <2>1 DEF BumpExpr
  <2>. DEFINE c == F[k].constraints[i]
  <2>3. Len(c.text.path) = 1 /\ c.text.path[1] \in accounts.args
    BY <1>1, <2>1, <2>2, BumpIsTheOne DEF IsBareIdentifier
  <2>4. c \in Range(F[k].constraints)
    BY DEF Range
  <2>5. c.key = "bump" /\ c.text \in Text
    BY <1>1, <2>1, <2>2, <2>4
  <2>6. Passing(c.text, accounts.args) # {"canonical"}
    <3>1. \E m \in c.text.mentions : m.as = "bare" /\ m.name \in accounts.args
      <4>1. c.text.mentions = {[name |-> c.text.path[1], as |-> "bare"]}
        BY <2>3, <2>5, OneNameIsBare
      <4>. DEFINE m == [name |-> c.text.path[1], as |-> "bare"]
      <4>2. m \in c.text.mentions /\ m.as = "bare" /\ m.name = c.text.path[1]
        BY <4>1
      <4> QED  BY <2>3, <4>2
    <3>2. Passing(c.text, accounts.args) = {"canonical", "other"}
      BY <3>1 DEF Passing
    <3> QED  BY <3>2
  <2>. HIDE DEF c
  <2> QED  BY <1>1, <2>1, <2>4, <2>5, <2>6 DEF Ambiguous
<1>3. ASSUME NEW k \in Ambiguous(accounts), TakenAsIs(accounts, k)
      PROVE  k \in NonCanonicalBumps(accounts)
  <2>1. k \in DOMAIN F /\ Has(F[k], "Seeds") /\ ~Has(F[k], "Init")
    BY <1>1 DEF Ambiguous
  <2>2. PICK i \in DOMAIN F[k].constraints :
          F[k].constraints[i].key = "bump" /\ \E a \in accounts.args : F[k].constraints[i].text.path = <<a>>
    BY <1>3 DEF TakenAsIs, Range
  <2>. DEFINE c == F[k].constraints[i]
  <2>3. c.kind = "Bump" /\ c.text \in Text
    BY <1>1, <2>1, <2>2 DEF Range
  <2>4. Len(c.text.path) = 1 /\ c.text.path[1] \in accounts.args
    BY <2>2
  <2>5. BumpExpr(F[k]) = {c.text}
    BY <1>1, <2>1, <2>3, <2>4, BumpIsTheOne, OneNameIsBare
  <2> QED  BY <2>1, <2>4, <2>5 DEF NonCanonicalBumps, IsBareIdentifier
<1> QED  BY <1>2, <1>3

(***************************************************************************)
(* And a call by where its bump comes from: the second half.               *)
(***************************************************************************)
THEOREM CallsDecide ==
  ASSUME NEW calls \in Seq(Derivation), NEW i \in DOMAIN calls
  PROVE  /\ MayChoose(calls[i]) => i \in NonCanonicalCalls(calls)
         /\ Searches(calls[i]) \/ TakesStored(calls[i]) => i \notin NonCanonicalCalls(calls)
<1>. DEFINE call == calls[i]
<1>1. call.last \in Seq(Text)
  <2>1. call \in Derivation
    OBVIOUS
  <2> QED  BY <2>1 DEF Derivation
<1>2. ASSUME Len(call.last) = 1
      PROVE  call.last[1] \in Text /\ BumpSeed(call) = {call.last[1]}
  BY <1>1, <1>2 DEF BumpSeed
<1>3. ASSUME MayChoose(call)
      PROVE  ~\E seed \in BumpSeed(call) : ReadsStoredValue(seed)
  <2>1. CASE Len(call.last) = 1
    <3>1. call.last # <<>>
      BY <2>1, OneIsNotEmpty
    <3>2. Len(call.last[1].path) = 1
      BY <1>3, <3>1 DEF MayChoose
    <3> QED  BY <1>2, <2>1, <3>2, OneNameIsBare DEF ReadsStoredValue
  <2>2. CASE Len(call.last) # 1
    BY <2>2 DEF BumpSeed
  <2> QED  BY <2>1, <2>2
<1>4. ASSUME TakesStored(call)
      PROVE  \E seed \in BumpSeed(call) : ReadsStoredValue(seed)
  BY <1>2, <1>4, LongPlacesHaveMembers DEF TakesStored
<1> QED  BY <1>3, <1>4 DEF NonCanonicalCalls, MayChoose, Searches

----------------------------------------------------------------------------
(***************************************************************************)
(* VL003.                                                                  *)
(***************************************************************************)

(***************************************************************************)
(* Addition, subtraction and multiplication of integers of a fixed width   *)
(* may wrap, division, remainder and calls may not.                        *)
(***************************************************************************)
LEMMA PlainArithmeticWraps ==
  ASSUME NEW write \in Write
  PROVE  MayWrap(write.op, 4) <=> write.op \in PlainArithmetic
<1>1. MayWrap("add", 4)
  BY DEF MayWrap, Fits
<1>2. MayWrap("sub", 4)
  BY DEF MayWrap, Fits
<1>3. MayWrap("mul", 4)
  <2>1. 3 \in 0 .. 3 /\ 3 * 3 \notin 0 .. 3
    OBVIOUS
  <2> QED  BY <2>1 DEF MayWrap, Fits
<1>4. ~MayWrap("div", 4)
  <2>1. \A x, y \in 0 .. 3 : y # 0 => x \div y \in 0 .. 3
    OBVIOUS
  <2> QED  BY <2>1 DEF MayWrap, Fits
<1>5. ~MayWrap("rem", 4)
  <2>1. \A x, y \in 0 .. 3 : y # 0 => x % y \in 0 .. 3
    OBVIOUS
  <2> QED  BY <2>1 DEF MayWrap, Fits
<1>6. ~MayWrap("call", 4)
  BY DEF MayWrap, Fits
<1> QED  BY <1>1, <1>2, <1>3, <1>4, <1>5, <1>6 DEF Write, PlainArithmetic

(***************************************************************************)
(* VL003 decides a function of any length as ArithmeticVerdicts has it.    *)
(***************************************************************************)
THEOREM WrappingDecides ==
  ASSUME NEW function \in Function, NEW overflowChecks \in BOOLEAN
  PROVE  LET wraps == {i \in DOMAIN function.writes :
                         /\ ~overflowChecks
                         /\ function.writes[i].target = "field"
                         /\ MayWrap(function.writes[i].op, 4)}
             found == UncheckedArithmetic(overflowChecks, function)
         IN  /\ found \subseteq wraps
             /\ Shipped(function) => wraps \subseteq found
             /\ found # {} => \A x \in function.within : x.test => x.item \in {"impl", "method"}
<1>1. \A i \in DOMAIN function.writes :
        MayWrap(function.writes[i].op, 4) <=> function.writes[i].op \in PlainArithmetic
  <2>1. function.writes \in Seq(Write)
    BY DEF Function
  <2> QED  BY <2>1, PlainArithmeticWraps
<1>2. function.within \subseteq Enclosing
  BY DEF Function
<1>3. Visited(function) => \A x \in function.within : x.test => x.item \in {"impl", "method"}
  BY <1>2 DEF Visited, Enclosing
<1>4. Shipped(function) => Visited(function)
  BY DEF Shipped, Visited
<1> QED  BY <1>1, <1>3, <1>4 DEF UncheckedArithmetic

----------------------------------------------------------------------------
(***************************************************************************)
(* VL005.                                                                  *)
(***************************************************************************)

(***************************************************************************)
(* What a name means is a binding before the position, or none.            *)
(***************************************************************************)
LEMMA MeaningIsVisible ==
  ASSUME NEW body \in Seq(Event), NEW name, NEW pos \in Nat
  PROVE  /\ Meaning(body, name, pos) \in Visible(body, name, pos) \cup {0}
         /\ \A j \in Visible(body, name, pos) : j <= Meaning(body, name, pos)
         /\ Visible(body, name, pos) \subseteq {j \in Bindings(body, name) : j < pos}
<1>. DEFINE V == Visible(body, name, pos) \cup {0}
<1>1. Visible(body, name, pos) \subseteq {j \in Bindings(body, name) : j < pos}
  BY DEF Visible
<1>2. V \subseteq 0 .. pos /\ V # {}
  BY <1>1 DEF Bindings
<1>3. Max(V) \in V /\ \A j \in V : j <= Max(V)
  BY <1>2, GreatestPosition
<1> QED  BY <1>1, <1>3 DEF Meaning

(***************************************************************************)
(* Where a name is tidy, the nearest binding before a position is the one  *)
(* that is visible there.                                                  *)
(***************************************************************************)
LEMMA NearestIsVisible ==
  ASSUME NEW body \in Seq(Event), NEW name, NEW pos \in Nat, Tidy(body, name, pos)
  PROVE  NearestPreceding(body, name, pos) = Meaning(body, name, pos)
<1>. DEFINE C == {j \in Collected(body, name) : j < pos} \cup {0}
            m == Meaning(body, name, pos)
<1>1. m \in C
  BY MeaningIsVisible DEF Tidy
<1>2. \A j \in C : j \in Nat /\ j <= m
  BY MeaningIsVisible DEF Tidy, Collected, Bindings
<1>3. Max(C) = m
  <2>. HIDE DEF C, m
  <2>1. \A j \in C : m >= j
    BY <1>1, <1>2
  <2>2. Max(C) \in C /\ \A j \in C : Max(C) >= j
    BY <1>1, <2>1 DEF Max
  <2>3. Max(C) >= m /\ m >= Max(C) /\ m \in Nat /\ Max(C) \in Nat
    BY <1>1, <1>2, <2>1, <2>2
  <2> QED  BY <2>3
<1> QED  BY <1>3 DEF NearestPreceding

(***************************************************************************)
(* VL005 decides a tidy call of any body as lexical scoping does.          *)
(***************************************************************************)
THEOREM ScopingDecides ==
  ASSUME NEW source, NEW f, source.functions[f].body \in Seq(Event),
         NEW pos \in Calls(source.functions[f].body), TidyCall(source, f, pos)
  PROVE  pos \in UncheckedCpi(source, f) <=> pos \in ArbitraryCpi(source, f)
<1>. DEFINE body == source.functions[f].body
            from == BuiltAt(body, pos)
            built == body[from].expr
            name == built.place[1]
            id == Expanded(body, built, Meaning(body, name, from))
<1>1. body \in Seq(Event) /\ pos \in DOMAIN body /\ pos \in Nat
  BY DEF Calls
<1>2. /\ Tidy(body, body[pos].expr.place[1], pos) /\ Tidy(body, name, pos)
      /\ Meaning(body, name, pos) = Meaning(body, name, from)
      /\ \A verified \in ProgramFields(source, f) : Occurs(verified, id.place) => IsPrefix(verified, id.place)
  BY DEF TidyCall
<1>3. Instruction(body, pos) = built
  BY <1>1, <1>2, NearestIsVisible DEF Instruction, BuiltAt
<1>4. ProgramId(body, built, pos) = id
  BY <1>1, <1>2, NearestIsVisible DEF ProgramId
<1>5. from \in DOMAIN body /\ Meaning(body, name, from) \in DOMAIN body \cup {0}
  <2>1. from \in DOMAIN body
    BY <1>1, MeaningIsVisible DEF BuiltAt, Bindings
  <2> QED  BY <1>1, <2>1, MeaningIsVisible DEF Bindings
<1>6. id.place \in Seq(Name)
  <2>1. \A j \in DOMAIN body : body[j].expr \in Expr /\ body[j].expr.place \in Seq(Name)
    <3>1. \A j \in DOMAIN body : body[j].expr \in Expr
      <4>. HIDE DEF body
      <4>1. \A j \in DOMAIN body : body[j] \in Event
        BY <1>1
      <4> QED  BY <4>1 DEF Event
    <3> QED  BY <3>1 DEF Expr, Place
  <2>. HIDE DEF body, from
  <2> QED  BY <1>5, <2>1 DEF Expanded, Expr, Place
<1>7. ASSUME NEW verified \in ProgramFields(source, f)
      PROVE  Occurs(verified, id.place) <=> IsPrefix(verified, id.place)
  <2>1. \E S : verified \in Seq(S)
    <3>0. PICK p \in source.functions[f].params : \E n :
            verified \in {<<p.name, "accounts", n>>, <<p.name, n>>, <<p.name>>}
      BY DEF ProgramFields
    <3>1. PICK n : verified \in {<<p.name, "accounts", n>>, <<p.name, n>>, <<p.name>>}
      BY <3>0
    <3>. DEFINE S == {p.name, "accounts", n}
    <3>2. <<p.name, "accounts", n>> \in Seq(S) /\ <<p.name, n>> \in Seq(S) /\ <<p.name>> \in Seq(S)
      OBVIOUS
    <3> QED  BY <3>1, <3>2
  <2>2. ASSUME IsPrefix(verified, id.place)
        PROVE  Occurs(verified, id.place)
    <3>. HIDE DEF id
    <3>1. /\ Len(verified) <= Len(id.place) /\ Len(verified) \in Nat /\ Len(id.place) \in Nat
          /\ SubSeq(id.place, 1, Len(verified)) = verified
      BY <1>6, <2>1, <2>2, PrefixElements, LenProperties
    <3>2. 0 \in 0 .. Len(id.place) - Len(verified) /\ 0 + 1 = 1 /\ 0 + Len(verified) = Len(verified)
      BY <3>1
    <3> QED  BY <3>1, <3>2 DEF Occurs
  <2> QED  BY <1>2, <2>2
<1> QED  BY <1>3, <1>4, <1>7 DEF UncheckedCpi, ArbitraryCpi

----------------------------------------------------------------------------
(***************************************************************************)
(* VL002.                                                                  *)
(***************************************************************************)

\* A file as the rules get it.
IsFile(source) ==
  /\ source.functions \in Seq(Function)
  /\ DOMAIN source.anchor \subseteq Nat
  /\ \A s \in DOMAIN source.anchor : IsStruct(source.anchor[s])

(***************************************************************************)
(* What has run when a function returns is what the rule looks at.         *)
(***************************************************************************)
LEMMA EvidenceHappened ==
  ASSUME NEW source, IsFile(source), NEW f \in DOMAIN source.functions
  PROVE  Happened(source, f) = Evidence(source, f)
<1>1. \A g \in DOMAIN source.functions :
        source.functions[g].is \in QualifiedName /\ source.functions[g].guards \subseteq QualifiedName
  <2>1. \A g \in DOMAIN source.functions : source.functions[g] \in Function
    BY DEF IsFile
  <2> QED  BY <2>1 DEF Function
<1>2. ASSUME NEW g \in DOMAIN source.functions, NEW guard \in source.functions[f].guards
      PROVE  source.functions[g].is.self = guard.self /\ source.functions[g].is.function = guard.function
               <=> source.functions[g].is = guard
  BY <1>1 DEF QualifiedName
<1>3. Running(source, f) = {f} \cup BlocksFor(source, f)
  BY <1>2 DEF Running, BlocksFor
<1> QED  BY <1>3 DEF Happened, Evidence

(***************************************************************************)
(* The account that a read has its bytes from, as it is written and as its *)
(* alias has it, is among the receivers the rule considers.                *)
(***************************************************************************)
LEMMA AccountIsReceiver ==
  ASSUME NEW body \in Seq(Event), BoundOnce(body), NEW pos \in Reads(body), NEW b \in BorrowedAt(body, pos)
  PROVE  LET written == body[b].expr.place
             account == Account(body, written, b)
         IN  /\ {written, account} \subseteq ReadReceivers(body, pos)
             /\ written \in Place /\ account \in Place
<1>. DEFINE written == body[b].expr.place
            account == Account(body, written, b)
            e == body[pos].expr
<1>1. pos \in DOMAIN body /\ pos \in Nat
  BY DEF Reads
<1>2. ASSUME NEW name, NEW i \in Nat, Meaning(body, name, i) # 0
      PROVE  Meaning(body, name, i) \in Collected(body, name) /\ Meaning(body, name, i) \in DOMAIN body
  <2>1. Meaning(body, name, i) \in Bindings(body, name)
    BY <1>2, MeaningIsVisible
  <2> QED  BY <2>1 DEF Bindings, BoundOnce
<1>3. /\ body[b].expr.form = "bytes" /\ b # 0
      /\ b = IF e.form = "bytes" THEN pos ELSE Meaning(body, e.place[1], pos)
  BY DEF BorrowedAt
<1>4. b \in DOMAIN body /\ b \in Nat
  BY <1>1, <1>2, <1>3
<1>5. ReceiversOf(body, written) \subseteq ReadReceivers(body, pos)
  <2>1. CASE e.form = "bytes"
    BY <1>3, <2>1 DEF ReadReceivers
  <2>2. CASE e.form # "bytes"
    <3>1. b \in {i \in Collected(body, e.place[1]) : body[i].expr.form = "bytes"}
      BY <1>1, <1>2, <1>3, <2>2
    <3> QED  BY <2>2, <3>1 DEF ReadReceivers
  <2> QED  BY <2>1, <2>2
<1>. DEFINE j == Meaning(body, written[1], b)
<1>6. j # 0 => j \in Collected(body, written[1]) /\ j \in DOMAIN body
  BY <1>2, <1>4
<1>7. account = IF j # 0 /\ IsAlias(body[j].expr) THEN body[j].expr.place \o Tail(written) ELSE written
  BY DEF Account
<1>8. {written, account} \subseteq ReceiversOf(body, written)
  BY <1>6, <1>7 DEF ReceiversOf
<1>9. \A i \in DOMAIN body : body[i].expr.place \in Place
  <2>1. \A i \in DOMAIN body : body[i] \in Event
    OBVIOUS
  <2>2. \A i \in DOMAIN body : body[i].expr \in Expr
    BY <2>1 DEF Event
  <2> QED  BY <2>2 DEF Expr
<1>10. ASSUME NEW p \in Place, NEW q \in Place
       PROVE  p \o Tail(q) \in Place
  <2>1. /\ p \in Seq(Name) /\ p # <<>> /\ Tail(q) \in Seq(Name)
    BY DEF Place
  <2> QED  BY <2>1, ConcatEqualIffEmpty, ConcatProperties DEF Place
<1>11. written \in Place /\ account \in Place
  BY <1>4, <1>6, <1>7, <1>9, <1>10
<1> QED  BY <1>5, <1>8, <1>11

(***************************************************************************)
(* An account in a place that starts with a field of the context is the    *)
(* one that the rule looks for in the struct.                              *)
(***************************************************************************)
LEMMA FieldIsFound ==
  ASSUME NEW ctx, NEW name, NEW place \in Place, IsPrefix(<<ctx, "accounts", name>>, place)
  PROVE  name \in FieldAfterAccounts(place)
<1>. DEFINE c == <<ctx, "accounts", name>>
            places == {i \in 2 .. Len(place) - 1 : place[i] = "accounts"}
<1>1. c \in Seq({ctx, "accounts", name}) /\ Len(c) = 3 /\ c[2] = "accounts" /\ c[3] = name
  OBVIOUS
<1>2. place \in Seq(Name) /\ Len(place) \in Nat
  BY DEF Place
<1>3. Len(place) >= 3 /\ place[2] = "accounts" /\ place[3] = name
  <2>1. IsPrefix(c, place)
    OBVIOUS
  <2>. HIDE DEF c
  <2>2. Len(c) <= Len(place) /\ \A i \in 1 .. 3 : c[i] = place[i]
    BY <1>1, <1>2, <2>1, PrefixElements
  <2> QED  BY <1>1, <1>2, <2>2
<1>4. 2 \in places /\ places \subseteq Nat /\ \A i \in places : 2 <= i
  BY <1>2, <1>3
<1>5. Min(places) = 2
  <2>. HIDE DEF places
  <2>1. Min(places) \in places /\ Min(places) <= 2
    BY <1>4, LeastPosition
  <2>2. Min(places) \in Nat /\ 2 <= Min(places)
    BY <1>4, <2>1
  <2> QED  BY <2>1, <2>2
<1>6. FieldAfterAccounts(place) = {place[2 + 1]}
  BY <1>4, <1>5 DEF FieldAfterAccounts
<1> QED  BY <1>3, <1>6

(***************************************************************************)
(* A proof that names an account names it by its last identifier.          *)
(***************************************************************************)
LEMMA LastIsNamed ==
  ASSUME NEW r \in Place, NEW p \in Place, IsPrefix(r, p)
  PROVE  Last(r) \in Range(p)
<1>1. r \in Seq(Name) /\ p \in Seq(Name) /\ Len(r) \in Nat \ {0} /\ Len(p) \in Nat
  BY EmptySeq, LenProperties DEF Place
<1>2. Len(r) <= Len(p) /\ r[Len(r)] = p[Len(r)]
  BY <1>1, PrefixElements
<1>3. Len(r) \in DOMAIN p
  BY <1>1, <1>2, LenProperties
<1> QED  BY <1>2, <1>3 DEF Last, Range

(***************************************************************************)
(* What the rules find for a name of a struct are fields of the model.     *)
(***************************************************************************)
LEMMA FieldsOfAnchor ==
  ASSUME NEW source, IsFile(source), NEW s, NEW d \in FieldsOf(source.anchor, s)
  PROVE  IsField(d)
<1>. DEFINE named == {i \in DOMAIN source.anchor : source.anchor[i].name = s}
<1>1. named # {} /\ d \in Range(source.anchor[Min(named)].fields)
  BY DEF FieldsOf
<1>2. Min(named) \in DOMAIN source.anchor
  BY <1>1, LeastPosition DEF IsFile
<1>3. IsStruct(source.anchor[Min(named)])
  BY <1>2 DEF IsFile
<1>. HIDE DEF named
<1>4. PICK k \in DOMAIN source.anchor[Min(named)].fields : d = source.anchor[Min(named)].fields[k]
  BY <1>1 DEF Range
<1>. QED BY <1>3, <1>4 DEF IsStruct

(***************************************************************************)
(* VL002 hears the proofs in a function of any length: ProofsAreHeard, for *)
(* the function itself.                                                    *)
(***************************************************************************)
THEOREM ProofsDecide ==
  ASSUME NEW source, IsFile(source), NEW f \in DOMAIN source.functions,
         BoundOnce(source.functions[f].body)
  PROVE  MissingOwnerCheck(source, f) \cap PlainlyProven(source, f) = {}
<1>. DEFINE body == source.functions[f].body
<1>1. \A g \in DOMAIN source.functions : source.functions[g].body \in Seq(Event)
  <2>1. \A g \in DOMAIN source.functions : source.functions[g] \in Function
    BY DEF IsFile
  <2> QED  BY <2>1 DEF Function
<1>2. \A e \in Happened(source, f) : e \in Event
  <2>1. Running(source, f) \subseteq DOMAIN source.functions
    BY DEF Running
  <2> QED  BY <1>1, <2>1 DEF Happened, Range
<1>3. SUFFICES ASSUME NEW pos \in MissingOwnerCheck(source, f), pos \in PlainlyProven(source, f)
               PROVE  FALSE
  OBVIOUS
<1>4. /\ pos \in Reads(body)
      /\ ~HasOwnerCheck(source, f)
      /\ ~PdaCheckCovers(source, f, ReadReceivers(body, pos))
      /\ ~ConstraintCovers(source, f, ReadReceivers(body, pos))
  BY DEF MissingOwnerCheck
<1>5. ~OwnerChecked(source, f)
  BY <1>4, EvidenceHappened DEF HasOwnerCheck, OwnerChecked
<1>6. PICK b \in BorrowedAt(body, pos) :
        LET written == body[b].expr.place
            account == Account(body, written, b)
        IN  \/ Derived(source, f) /\ \E r \in {written, account} : Names(WrittenProofs(source, f), r)
            \/ \E c \in Constrained(source, f) : IsPrefix(c, account)
  BY <1>3, <1>5 DEF PlainlyProven
<1>. DEFINE written == body[b].expr.place
            account == Account(body, written, b)
<1>7. /\ {written, account} \subseteq ReadReceivers(body, pos)
      /\ written \in Place /\ account \in Place
  BY <1>1, <1>4, AccountIsReceiver
<1>8. ASSUME Derived(source, f), NEW r \in {written, account}, Names(WrittenProofs(source, f), r)
      PROVE  FALSE
  <2>1. Derives(source, f) /\ WrittenProofs(source, f) = Proofs(source, f)
    BY <1>8, EvidenceHappened DEF Derived, Derives, WrittenProofs, Proofs
  <2>2. PICK p \in WrittenProofs(source, f) : IsPrefix(r, p)
    BY <1>8 DEF Names
  <2>3. p \in Place
    BY <1>2, <2>2 DEF WrittenProofs, Event
  <2>4. Last(r) \in Range(p)
    BY <1>7, <2>2, <2>3, LastIsNamed
  <2> QED  BY <1>4, <1>7, <2>1, <2>2, <2>4 DEF PdaCheckCovers
<1>9. ASSUME NEW c \in Constrained(source, f), IsPrefix(c, account)
      PROVE  FALSE
  <2>1. PICK p \in {x \in source.functions[f].params : x.type = "context"},
             d \in UNION {FieldsOf(source.anchor, s) : s \in ContextStruct(source, f)} :
               /\ c = <<p.name, "accounts", d.name>>
               /\ \E k \in Range(d.constraints) : k.key \in {"seeds", "address"}
    BY <1>9 DEF Constrained
  <2>2. PICK s \in ContextStruct(source, f) : d \in FieldsOf(source.anchor, s)
    OBVIOUS
  <2>3. IsField(d)
    BY <2>2, FieldsOfAnchor
  <2>4. AddressConstrained(d)
    BY <2>1, <2>3, ConstraintKinds DEF IsField, AddressConstrained
  <2>5. d.name \in FieldAfterAccounts(account)
    BY <1>7, <1>9, <2>1, FieldIsFound
  <2> QED  BY <1>4, <1>7, <2>2, <2>4, <2>5 DEF ConstraintCovers
<1> QED  BY <1>6, <1>8, <1>9

(***************************************************************************)
(* Of a read whose account is told apart, the receivers are the account's  *)
(* place as it is written and as the one alias has it.                     *)
(***************************************************************************)
LEMMA ReceiverIsAccount ==
  ASSUME NEW body \in Seq(Event), BoundOnce(body), NEW pos \in Reads(body), NEW b \in BorrowedAt(body, pos),
         Bindings(body, body[pos].expr.place[1]) \subseteq {Meaning(body, body[pos].expr.place[1], pos)},
         Bindings(body, body[b].expr.place[1]) \subseteq {Meaning(body, body[b].expr.place[1], b)}
  PROVE  LET written == body[b].expr.place
         IN  ReadReceivers(body, pos) \subseteq {written, Account(body, written, b)}
<1>. DEFINE written == body[b].expr.place
            account == Account(body, written, b)
            e == body[pos].expr
            j == Meaning(body, written[1], b)
<1>1. /\ body[b].expr.form = "bytes" /\ b # 0
      /\ b = IF e.form = "bytes" THEN pos ELSE Meaning(body, e.place[1], pos)
  BY DEF BorrowedAt
<1>2. 0 \notin DOMAIN body
  OBVIOUS
<1>3. \A name : Collected(body, name) \subseteq Bindings(body, name) /\ Bindings(body, name) \subseteq DOMAIN body
  BY DEF Collected, Bindings
<1>4. ReceiversOf(body, written) \subseteq {written, account}
  <2>. SUFFICES ASSUME NEW i \in Collected(body, written[1]), IsAlias(body[i].expr)
                PROVE  body[i].expr.place \o Tail(written) = account
    BY DEF ReceiversOf
  <2>1. i = j /\ i # 0
    BY <1>2, <1>3
  <2>. QED BY <2>1 DEF Account
<1>5. CASE e.form = "bytes"
  BY <1>1, <1>4, <1>5 DEF ReadReceivers
<1>6. CASE e.form # "bytes"
  <2>1. \A i \in Collected(body, e.place[1]) : i = b
    BY <1>1, <1>3, <1>6
  <2>2. ReadReceivers(body, pos) \subseteq ReceiversOf(body, written)
    BY <1>6, <2>1 DEF ReadReceivers
  <2>. QED BY <1>4, <2>2
<1>. QED BY <1>5, <1>6

(***************************************************************************)
(* VL002 reports the unproven reads of a function of any length:           *)
(* UnprovenReadsAreReported, for the function itself.                      *)
(***************************************************************************)
THEOREM UnprovenDecide ==
  ASSUME NEW source, IsFile(source), NEW f \in DOMAIN source.functions,
         BoundOnce(source.functions[f].body),
         NEW pos \in UnprovenReads(source, f), ToldApart(source, f, pos)
  PROVE  pos \in MissingOwnerCheck(source, f)
<1>. DEFINE body == source.functions[f].body
<1>1. body \in Seq(Event)
  <2>1. source.functions[f] \in Function
    BY DEF IsFile
  <2>. QED BY <2>1 DEF Function
<1>2. /\ pos \in Reads(body) /\ ~OwnerChecked(source, f)
      /\ \E b \in BorrowedAt(body, pos) :
           LET account == Account(body, body[b].expr.place, b)
           IN  /\ ~(Derived(source, f) /\ Names(ProvenPlaces(source, f), account))
               /\ ~\E c \in Constrained(source, f) : IsPrefix(c, account)
  BY DEF UnprovenReads
<1>3. PICK b \in BorrowedAt(body, pos) :
        LET account == Account(body, body[b].expr.place, b)
        IN  /\ ~(Derived(source, f) /\ Names(ProvenPlaces(source, f), account))
            /\ ~\E c \in Constrained(source, f) : IsPrefix(c, account)
  BY <1>2
<1>. DEFINE written == body[b].expr.place
            account == Account(body, written, b)
            receivers == ReadReceivers(body, pos)
<1>4. /\ Bindings(body, body[pos].expr.place[1]) \subseteq {Meaning(body, body[pos].expr.place[1], pos)}
      /\ Bindings(body, written[1]) \subseteq {Meaning(body, written[1], b)}
      /\ \A r \in {written, account} :
           /\ \A g \in Running(source, f) : \A i \in DOMAIN source.functions[g].body :
                source.functions[g].body[i].kind \in {"check", "derive"} =>
                  \A p \in source.functions[g].body[i].places :
                    Last(r) \in Range(p) => IsPrefix(account, Account(source.functions[g].body, p, i))
           /\ \A name \in FieldAfterAccounts(r) :
                \E ctx \in source.functions[f].params :
                  ctx.type = "context" /\ IsPrefix(<<ctx.name, "accounts", name>>, account)
  BY DEF ToldApart
<1>5. receivers = {written, account}
  <2>1. {written, account} \subseteq receivers
    BY <1>1, <1>2, AccountIsReceiver
  <2>2. receivers \subseteq {written, account}
    BY <1>1, <1>2, <1>4, ReceiverIsAccount
  <2>. QED BY <2>1, <2>2
<1>6. ~HasOwnerCheck(source, f)
  BY <1>2, EvidenceHappened DEF HasOwnerCheck, OwnerChecked
<1>7. ~PdaCheckCovers(source, f, receivers)
  <2>. SUFFICES ASSUME Derives(source, f), NEW r \in receivers, NEW proof \in Proofs(source, f),
                       Last(r) \in Range(proof)
                PROVE  FALSE
    BY DEF PdaCheckCovers
  <2>1. Derived(source, f)
    BY EvidenceHappened DEF Derived, Derives
  <2>2. PICK x \in Happened(source, f) : x.kind \in {"check", "derive"} /\ proof \in x.places
    BY EvidenceHappened DEF Proofs
  <2>3. PICK g \in Running(source, f) : x \in Range(source.functions[g].body)
    BY <2>2 DEF Happened
  <2>4. PICK i \in DOMAIN source.functions[g].body : x = source.functions[g].body[i]
    BY <2>3 DEF Range
  <2>5. IsPrefix(account, Account(source.functions[g].body, proof, i))
    BY <1>4, <1>5, <2>2, <2>4
  <2>6. Account(source.functions[g].body, proof, i) \in ProvenPlaces(source, f)
    BY <2>2, <2>4 DEF ProvenPlaces
  <2>. QED BY <1>3, <2>1, <2>5, <2>6 DEF Names
<1>8. ~ConstraintCovers(source, f, receivers)
  <2>. SUFFICES ASSUME NEW s \in ContextStruct(source, f), NEW d \in FieldsOf(source.anchor, s),
                       AddressConstrained(d), NEW r \in receivers, d.name \in FieldAfterAccounts(r)
                PROVE  FALSE
    BY DEF ConstraintCovers
  <2>1. PICK ctx \in source.functions[f].params :
          ctx.type = "context" /\ IsPrefix(<<ctx.name, "accounts", d.name>>, account)
    BY <1>4, <1>5
  <2>2. IsField(d)
    BY FieldsOfAnchor
  <2>3. \E c \in Range(d.constraints) : c.key \in {"seeds", "address"}
    BY <2>2, ConstraintKinds DEF AddressConstrained, IsField
  <2>4. <<ctx.name, "accounts", d.name>> \in Constrained(source, f)
    BY <2>1, <2>3 DEF Constrained
  <2>. QED BY <1>3, <2>1, <2>4
<1>. QED BY <1>2, <1>5, <1>6, <1>7, <1>8 DEF MissingOwnerCheck

----------------------------------------------------------------------------
(***************************************************************************)
(* The pass.  While the Anchor model is built nothing is found; after that *)
(* the model stands still, and of every visit that is over what was found  *)
(* is what the rule decides there, and of every other nothing.             *)
(***************************************************************************)
RuleName == {"VL001", "VL002", "VL003", "VL004", "VL005"}

\* What may be left to run.
Schedules ==
  {<<"anchor", "VL002", "VL003", "VL004", "VL005", "VL001">>,
   <<"VL002", "VL003", "VL004", "VL005", "VL001">>,
   <<"VL003", "VL004", "VL005", "VL001">>,
   <<"VL004", "VL005", "VL001">>,
   <<"VL005", "VL001">>,
   <<"VL001">>,
   <<>>}

Translated == {ToStruct(raw) : raw \in RawStruct}

FileInv ==
  \E source \in SourceFiles, anchor \in Seq(Translated) :
    file = [functions |-> source.functions, items |-> source.items, anchor |-> anchor,
            overflowChecks |-> source.overflowChecks]

ScheduleInv ==
  /\ rules \in Schedules
  /\ at \in Nat \ {0}
  /\ rules = <<"anchor", "VL002", "VL003", "VL004", "VL005", "VL001">> => findings = {}

\* What a rule decides about a struct or a function.
Verdict(rule, in, n) == IF in = "struct" THEN InStruct(rule, n) ELSE InFunction(rule, n)

\* The k-th visit of a rule is over.
Passed(rule, k) ==
  \/ \A i \in DOMAIN rules : rules[i] # rule
  \/ rules # <<>> /\ Head(rules) = rule /\ k < at

IsPassed(rule, in, n) ==
  \E k \in DOMAIN Visits(rule) : Visits(rule)[k] = <<in, n>> /\ Passed(rule, k)

FoundInv ==
  \A rule \in RuleName, in \in {"struct", "function"}, n \in Nat :
    Found(rule, in, n) = IF IsPassed(rule, in, n) THEN Verdict(rule, in, n) ELSE {}

PassInv == FileInv /\ ScheduleInv /\ FoundInv

(***************************************************************************)
(* The visits of one kind are a list.                                      *)
(***************************************************************************)
LEMMA VisitsOfAKind ==
  ASSUME NEW S, NEW list \in Seq(S), NEW in \in {"item", "struct", "function"}
  PROVE  [i \in DOMAIN list |-> <<in, i>>] \in Seq({"item", "struct", "function"} \X Nat)
OBVIOUS

(***************************************************************************)
(* Whatever a rule visits, the visits are a list.                          *)
(***************************************************************************)
LEMMA VisitsAreListed ==
  ASSUME FileInv, NEW rule
  PROVE  /\ DOMAIN Visits(rule) = 1 .. Len(Visits(rule)) /\ Len(Visits(rule)) \in Nat
         /\ \A k \in DOMAIN Visits(rule) : Visits(rule)[k] = <<Visits(rule)[k][1], Visits(rule)[k][2]>>
<1>. DEFINE items == [i \in DOMAIN file.items |-> <<"item", i>>]
            structs == [s \in DOMAIN file.anchor |-> <<"struct", s>>]
            functions == [f \in DOMAIN file.functions |-> <<"function", f>>]
            Visit0 == {"item", "struct", "function"} \X Nat
<1>1. file.items \in Seq(RawStruct) /\ file.anchor \in Seq(Translated) /\ file.functions \in Seq(Function)
  BY SourceFilesAssumption DEF FileInv, SourceFile
<1>2. items \in Seq(Visit0) /\ structs \in Seq(Visit0) /\ functions \in Seq(Visit0)
  BY <1>1, VisitsOfAKind
<1>3. structs \o functions \in Seq(Visit0)
  BY <1>2, ConcatProperties
<1>4. Visits(rule) \in {items, structs, structs \o functions, functions}
  BY DEF Visits
<1>5. Visits(rule) \in Seq(Visit0)
  BY <1>2, <1>3, <1>4
<1>. HIDE DEF Visit0
<1>6. DOMAIN Visits(rule) = 1 .. Len(Visits(rule)) /\ Len(Visits(rule)) \in Nat
  BY <1>5, LenProperties
<1>7. \A k \in DOMAIN Visits(rule) : Visits(rule)[k] \in Visit0
  BY <1>5, <1>6, ElementOfSeq
<1> QED  BY <1>6, <1>7 DEF Visit0

(***************************************************************************)
(* The structs are visited by VL001 and VL004, the functions by the rules  *)
(* but VL001.                                                              *)
(***************************************************************************)
LEMMA AllAreVisited ==
  ASSUME FileInv
  PROVE  /\ \A rule \in {"VL001", "VL004"} : \A s \in DOMAIN file.anchor :
              s \in Nat /\ \E k \in DOMAIN Visits(rule) : Visits(rule)[k] = <<"struct", s>>
         /\ \A rule \in RuleName \ {"VL001"} : \A f \in DOMAIN file.functions :
              f \in Nat /\ \E k \in DOMAIN Visits(rule) : Visits(rule)[k] = <<"function", f>>
<1>. DEFINE structs == [s \in DOMAIN file.anchor |-> <<"struct", s>>]
            functions == [f \in DOMAIN file.functions |-> <<"function", f>>]
            Visit0 == {"item", "struct", "function"} \X Nat
<1>1. file.anchor \in Seq(Translated) /\ file.functions \in Seq(Function)
  BY SourceFilesAssumption DEF FileInv, SourceFile
<1>2. structs \in Seq(Visit0) /\ functions \in Seq(Visit0)
  BY <1>1, VisitsOfAKind
<1>3. /\ Visits("VL001") = structs
      /\ Visits("VL004") = structs \o functions
      /\ \A rule \in RuleName \ {"VL001", "VL004"} : Visits(rule) = functions
  BY DEF Visits, RuleName
<1>4. /\ DOMAIN file.anchor = 1 .. Len(structs) /\ Len(structs) \in Nat
      /\ DOMAIN file.functions = 1 .. Len(functions) /\ Len(functions) \in Nat
  BY <1>1, <1>2, LenProperties
<1>. DEFINE both == structs \o functions
<1>5. /\ DOMAIN both = 1 .. Len(structs) + Len(functions)
      /\ \A i \in 1 .. Len(structs) + Len(functions) :
           both[i] = IF i <= Len(structs) THEN structs[i] ELSE functions[i - Len(structs)]
  BY <1>2, ConcatProperties, LenProperties
<1>6. ASSUME NEW s \in DOMAIN file.anchor
      PROVE  s \in Nat /\ s \in DOMAIN both /\ both[s] = <<"struct", s>>
  BY <1>4, <1>5
<1>7. ASSUME NEW f \in DOMAIN file.functions
      PROVE  f \in Nat /\ Len(structs) + f \in DOMAIN both /\ both[Len(structs) + f] = <<"function", f>>
  <2>. HIDE DEF structs, both
  <2>1. /\ f \in 1 .. Len(functions)
        /\ Len(structs) + f \in 1 .. Len(structs) + Len(functions)
        /\ ~(Len(structs) + f <= Len(structs)) /\ (Len(structs) + f) - Len(structs) = f
    BY <1>4
  <2> QED  BY <1>5, <2>1
<1>8. /\ \A s \in DOMAIN file.anchor : s \in DOMAIN structs /\ structs[s] = <<"struct", s>>
      /\ \A f \in DOMAIN file.functions : f \in DOMAIN functions /\ functions[f] = <<"function", f>>
  OBVIOUS
<1>. HIDE DEF structs, functions, both
<1>9. ASSUME NEW rule \in {"VL001", "VL004"}, NEW s \in DOMAIN file.anchor
      PROVE  s \in Nat /\ \E k \in DOMAIN Visits(rule) : Visits(rule)[k] = <<"struct", s>>
  BY <1>3, <1>6, <1>8 DEF both
<1>10. ASSUME NEW rule \in RuleName \ {"VL001"}, NEW f \in DOMAIN file.functions
       PROVE  f \in Nat /\ \E k \in DOMAIN Visits(rule) : Visits(rule)[k] = <<"function", f>>
  BY <1>3, <1>7, <1>8 DEF both
<1> QED  BY <1>9, <1>10

(***************************************************************************)
(* A visit adds its verdict to what was found in its place.                *)
(***************************************************************************)
LEMMA VisitAddsItsVerdict ==
  ASSUME PassInv, Visit, NEW rule, NEW in, NEW n
  PROVE  Found(rule, in, n)' =
           Found(rule, in, n) \cup
             (IF rule = Head(rules) /\ Visits(rule)[at] = <<in, n>> THEN Verdict(rule, in, n) ELSE {})
<1>. DEFINE r == Head(rules)
            v == Visits(r)[at]
            new == {[rule |-> r, in |-> v[1], n |-> v[2], at |-> i, severity |-> SeverityOf(r, v[2], i)] :
                      i \in Verdict(r, v[1], v[2])}
<1>1. findings' = findings \cup new
  BY DEF Visit, Verdict
<1>2. /\ \A y \in new : y.rule = r /\ y.in = v[1] /\ y.n = v[2] /\ y.at \in Verdict(r, v[1], v[2])
      /\ \A i \in Verdict(r, v[1], v[2]) : \E y \in new : y.at = i
  <2>. DEFINE told(i) == [rule |-> r, in |-> v[1], n |-> v[2], at |-> i, severity |-> SeverityOf(r, v[2], i)]
  <2>. HIDE DEF v, r
  <2>1. \A i : told(i).rule = r /\ told(i).in = v[1] /\ told(i).n = v[2] /\ told(i).at = i
    OBVIOUS
  <2>2. new = {told(i) : i \in Verdict(r, v[1], v[2])}
    OBVIOUS
  <2>. HIDE DEF told, new
  <2> QED  BY <2>1, <2>2
<1>. HIDE DEF new
<1>3. at \in DOMAIN Visits(r)
  BY VisitsAreListed DEF PassInv, ScheduleInv, Visit
<1>4. v = <<v[1], v[2]>>
  BY <1>3, VisitsAreListed DEF PassInv
<1>. DEFINE old == {y \in findings : y.rule = rule /\ y.in = in /\ y.n = n}
            more == {y \in new : y.rule = rule /\ y.in = in /\ y.n = n}
<1>5. Found(rule, in, n)' = {x.at : x \in old} \cup {x.at : x \in more}
  BY <1>1 DEF Found
<1>6. Found(rule, in, n) = {x.at : x \in old}
  BY DEF Found
<1>7. {x.at : x \in more} = IF rule = r /\ v = <<in, n>> THEN Verdict(rule, in, n) ELSE {}
  <2>. HIDE DEF v, r
  <2>1. CASE rule = r /\ v = <<in, n>>
    <3>1. v[1] = in /\ v[2] = n
      BY <2>1
    <3>2. more = new
      BY <1>2, <2>1, <3>1
    <3> QED  BY <1>2, <2>1, <3>1, <3>2
  <2>2. CASE ~(rule = r /\ v = <<in, n>>)
    <3>1. more = {}
      BY <1>2, <1>4, <2>2
    <3> QED  BY <2>2, <3>1
  <2> QED  BY <2>1, <2>2
<1> QED  BY <1>5, <1>6, <1>7

(***************************************************************************)
(* Every step keeps the invariant.                                         *)
(***************************************************************************)
LEMMA InitPass == Init => PassInv
<1>. SUFFICES ASSUME Init
              PROVE  PassInv
  OBVIOUS
<1>1. FileInv
  BY EmptySeq DEF Init, FileInv
<1>2. ScheduleInv
  BY DEF Init, ScheduleInv, Schedules
<1>3. \A rule \in RuleName : \A k : ~Passed(rule, k)
  BY DEF Init, RuleName, Passed
<1>4. \A rule, in, n : Found(rule, in, n) = {}
  BY DEF Init, Found
<1> QED  BY <1>1, <1>2, <1>3, <1>4 DEF PassInv, FoundInv, IsPassed

LEMMA CollectKeeps == PassInv /\ Collect => PassInv'
<1>. SUFFICES ASSUME PassInv, Collect
              PROVE  PassInv'
  OBVIOUS
<1>1. PICK source \in SourceFiles, anchor \in Seq(Translated) :
        file = [functions |-> source.functions, items |-> source.items, anchor |-> anchor,
                overflowChecks |-> source.overflowChecks]
  BY DEF PassInv, FileInv
<1>2. FileInv'
  <2>1. CASE IsAccounts(file.items[at])
    <3>1. file.items[at] \in RawStruct
      BY <1>1, SourceFilesAssumption DEF SourceFile, Collect, PassInv, ScheduleInv
    <3>2. Append(anchor, ToStruct(file.items[at])) \in Seq(Translated)
      BY <3>1, AppendProperties DEF Translated
    <3> QED  BY <1>1, <2>1, <3>2 DEF Collect, FileInv
  <2>2. CASE ~IsAccounts(file.items[at])
    BY <1>1, <2>2 DEF Collect, FileInv
  <2> QED  BY <2>1, <2>2
<1>3. rules = <<"anchor", "VL002", "VL003", "VL004", "VL005", "VL001">> /\ findings = {}
  BY DEF PassInv, ScheduleInv, Schedules, Collect
<1>4. ScheduleInv'
  BY <1>3 DEF PassInv, ScheduleInv, Collect
<1>5. \A rule \in RuleName : \A k : ~Passed(rule, k)'
  BY <1>3 DEF Collect, RuleName, Passed
<1>6. \A rule, in, n : Found(rule, in, n)' = {}
  BY <1>3 DEF Collect, Found
<1>7. FoundInv'
  BY <1>5, <1>6 DEF FoundInv, IsPassed
<1> QED  BY <1>2, <1>4, <1>7 DEF PassInv

LEMMA VisitKeeps == PassInv /\ Visit => PassInv'
<1>. SUFFICES ASSUME PassInv, Visit
              PROVE  PassInv'
  OBVIOUS
<1>1. FileInv'
  BY DEF PassInv, FileInv, Visit
<1>2. rules # <<"anchor", "VL002", "VL003", "VL004", "VL005", "VL001">>
  BY DEF Visit
<1>3. ScheduleInv'
  BY <1>2 DEF PassInv, ScheduleInv, Visit
<1>4. at \in DOMAIN Visits(Head(rules))
  BY VisitsAreListed DEF PassInv, ScheduleInv, Visit
<1>5. ASSUME NEW rule, NEW k \in Nat
      PROVE  Passed(rule, k)' <=> Passed(rule, k) \/ (rule = Head(rules) /\ k = at)
  <2>1. rules # <<>> /\ rules' = rules /\ at' = at + 1 /\ at \in Nat
    BY DEF Visit, PassInv, ScheduleInv
  <2> QED  BY <2>1 DEF Passed
<1>6. ASSUME NEW rule, NEW in, NEW n
      PROVE  /\ Visits(rule)' = Visits(rule)
             /\ Verdict(rule, in, n)' = Verdict(rule, in, n)
  BY DEF Visit, Visits, Verdict, InStruct, InFunction
<1>7. ASSUME NEW rule, NEW in, NEW n
      PROVE  IsPassed(rule, in, n)' <=>
               IsPassed(rule, in, n) \/ (rule = Head(rules) /\ Visits(rule)[at] = <<in, n>>)
  <2>1. DOMAIN Visits(rule) \subseteq Nat
    BY VisitsAreListed DEF PassInv
  <2> QED  BY <1>4, <1>5, <1>6, <2>1 DEF IsPassed
<1>8. FoundInv'
  <2>1. SUFFICES ASSUME NEW rule \in RuleName, NEW in \in {"struct", "function"}, NEW n \in Nat
                 PROVE  Found(rule, in, n)' = IF IsPassed(rule, in, n)' THEN Verdict(rule, in, n)' ELSE {}
    BY DEF FoundInv
  <2>2. Found(rule, in, n) = IF IsPassed(rule, in, n) THEN Verdict(rule, in, n) ELSE {}
    BY DEF PassInv, FoundInv
  <2> QED  BY <1>6, <1>7, <2>2, VisitAddsItsVerdict
<1> QED  BY <1>1, <1>3, <1>8 DEF PassInv

(***************************************************************************)
(* What is left after the current rule, and which rules are over then.     *)
(***************************************************************************)
LEMMA ScheduleShrinks ==
  ASSUME NEW r \in Schedules, r # <<>>
  PROVE  /\ Tail(r) \in Schedules
         /\ Tail(r) # <<"anchor", "VL002", "VL003", "VL004", "VL005", "VL001">>
         /\ \A x : (\A i \in DOMAIN Tail(r) : Tail(r)[i] # x) <=> x = Head(r) \/ \A i \in DOMAIN r : r[i] # x
<1>. DEFINE Without(list, x) == \A i \in DOMAIN list : list[i] # x
<1>1. CASE r = <<"anchor", "VL002", "VL003", "VL004", "VL005", "VL001">>
  <2>1. Tail(r) = <<"VL002", "VL003", "VL004", "VL005", "VL001">> /\ Head(r) = "anchor"
    BY <1>1
  <2>2. \A x : Without(<<"VL002", "VL003", "VL004", "VL005", "VL001">>, x) <=> x \notin {"VL002", "VL003", "VL004", "VL005", "VL001"}
    OBVIOUS
  <2>3. \A x : Without(<<"anchor", "VL002", "VL003", "VL004", "VL005", "VL001">>, x) <=> x \notin {"anchor", "VL002", "VL003", "VL004", "VL005", "VL001"}
    OBVIOUS
  <2>4. Tail(r) \in Schedules /\ Tail(r) # <<"anchor", "VL002", "VL003", "VL004", "VL005", "VL001">>
    BY <2>1 DEF Schedules
  <2> QED  BY <1>1, <2>1, <2>2, <2>3, <2>4
<1>2. CASE r = <<"VL002", "VL003", "VL004", "VL005", "VL001">>
  <2>1. Tail(r) = <<"VL003", "VL004", "VL005", "VL001">> /\ Head(r) = "VL002"
    BY <1>2
  <2>2. \A x : Without(<<"VL003", "VL004", "VL005", "VL001">>, x) <=> x \notin {"VL003", "VL004", "VL005", "VL001"}
    OBVIOUS
  <2>3. \A x : Without(<<"VL002", "VL003", "VL004", "VL005", "VL001">>, x) <=> x \notin {"VL002", "VL003", "VL004", "VL005", "VL001"}
    OBVIOUS
  <2>4. Tail(r) \in Schedules /\ Tail(r) # <<"anchor", "VL002", "VL003", "VL004", "VL005", "VL001">>
    BY <2>1 DEF Schedules
  <2> QED  BY <1>2, <2>1, <2>2, <2>3, <2>4
<1>3. CASE r = <<"VL003", "VL004", "VL005", "VL001">>
  <2>1. Tail(r) = <<"VL004", "VL005", "VL001">> /\ Head(r) = "VL003"
    BY <1>3
  <2>2. \A x : Without(<<"VL004", "VL005", "VL001">>, x) <=> x \notin {"VL004", "VL005", "VL001"}
    OBVIOUS
  <2>3. \A x : Without(<<"VL003", "VL004", "VL005", "VL001">>, x) <=> x \notin {"VL003", "VL004", "VL005", "VL001"}
    OBVIOUS
  <2>4. Tail(r) \in Schedules /\ Tail(r) # <<"anchor", "VL002", "VL003", "VL004", "VL005", "VL001">>
    BY <2>1 DEF Schedules
  <2> QED  BY <1>3, <2>1, <2>2, <2>3, <2>4
<1>4. CASE r = <<"VL004", "VL005", "VL001">>
  <2>1. Tail(r) = <<"VL005", "VL001">> /\ Head(r) = "VL004"
    BY <1>4
  <2>2. \A x : Without(<<"VL005", "VL001">>, x) <=> x \notin {"VL005", "VL001"}
    OBVIOUS
  <2>3. \A x : Without(<<"VL004", "VL005", "VL001">>, x) <=> x \notin {"VL004", "VL005", "VL001"}
    OBVIOUS
  <2>4. Tail(r) \in Schedules /\ Tail(r) # <<"anchor", "VL002", "VL003", "VL004", "VL005", "VL001">>
    BY <2>1 DEF Schedules
  <2> QED  BY <1>4, <2>1, <2>2, <2>3, <2>4
<1>5. CASE r = <<"VL005", "VL001">>
  <2>1. Tail(r) = <<"VL001">> /\ Head(r) = "VL005"
    BY <1>5
  <2>2. \A x : Without(<<"VL001">>, x) <=> x \notin {"VL001"}
    OBVIOUS
  <2>3. \A x : Without(<<"VL005", "VL001">>, x) <=> x \notin {"VL005", "VL001"}
    OBVIOUS
  <2>4. Tail(r) \in Schedules /\ Tail(r) # <<"anchor", "VL002", "VL003", "VL004", "VL005", "VL001">>
    BY <2>1 DEF Schedules
  <2> QED  BY <1>5, <2>1, <2>2, <2>3, <2>4
<1>6. CASE r = <<"VL001">>
  <2>1. Tail(r) = <<>> /\ Head(r) = "VL001"
    BY <1>6
  <2>2. \A x : Without(<<>>, x) <=> x \notin {}
    OBVIOUS
  <2>3. \A x : Without(<<"VL001">>, x) <=> x \notin {"VL001"}
    OBVIOUS
  <2>4. Tail(r) \in Schedules /\ Tail(r) # <<"anchor", "VL002", "VL003", "VL004", "VL005", "VL001">>
    BY <2>1 DEF Schedules
  <2> QED  BY <1>6, <2>1, <2>2, <2>3, <2>4
<1> QED  BY <1>1, <1>2, <1>3, <1>4, <1>5, <1>6 DEF Schedules

LEMMA NextRuleKeeps == PassInv /\ NextRule => PassInv'
<1>. SUFFICES ASSUME PassInv, NextRule
              PROVE  PassInv'
  OBVIOUS
<1>1. FileInv'
  BY DEF PassInv, FileInv, NextRule
<1>2. rules \in Schedules /\ rules # <<>> /\ rules' = Tail(rules) /\ at' = 1 /\ findings' = findings /\ file' = file
  BY DEF PassInv, ScheduleInv, NextRule
<1>3. rules' \in Schedules /\ rules' # <<"anchor", "VL002", "VL003", "VL004", "VL005", "VL001">>
  BY <1>2, ScheduleShrinks
<1>4. ScheduleInv'
  BY <1>2, <1>3 DEF ScheduleInv
<1>5. ASSUME NEW rule \in RuleName, NEW k \in DOMAIN Visits(rule)
      PROVE  Passed(rule, k)' <=> Passed(rule, k)
  <2>1. k \in 1 .. Len(Visits(rule)) /\ Len(Visits(rule)) \in Nat
    BY VisitsAreListed DEF PassInv
  <2>2. at \in Nat /\ Len(Visits(Head(rules))) < at
    BY VisitsAreListed DEF NextRule, PassInv, ScheduleInv
  <2>3. rule = Head(rules) => Passed(rule, k)
    BY <1>2, <2>1, <2>2 DEF Passed
  <2>4. (\A i \in DOMAIN rules' : rules'[i] # rule)
          <=> rule = Head(rules) \/ \A i \in DOMAIN rules : rules[i] # rule
    BY <1>2, ScheduleShrinks
  <2>5. ~(k < 1)
    BY <2>1
  <2> QED  BY <1>2, <2>3, <2>4, <2>5 DEF Passed
<1>6. ASSUME NEW rule \in RuleName, NEW in, NEW n
      PROVE  /\ IsPassed(rule, in, n)' <=> IsPassed(rule, in, n)
             /\ Verdict(rule, in, n)' = Verdict(rule, in, n)
             /\ Found(rule, in, n)' = Found(rule, in, n)
  <2>1. Visits(rule)' = Visits(rule)
    BY <1>2 DEF Visits
  <2>2. IsPassed(rule, in, n)' <=> IsPassed(rule, in, n)
    BY <1>5, <2>1 DEF IsPassed
  <2> QED  BY <1>2, <2>2 DEF Verdict, InStruct, InFunction, Found
<1>7. FoundInv'
  BY <1>6 DEF PassInv, FoundInv
<1> QED  BY <1>1, <1>4, <1>7 DEF PassInv

LEMMA PassInvariant == Spec => []PassInv
<1>1. PassInv /\ UNCHANGED vars => PassInv'
  <2>1. SUFFICES ASSUME PassInv, UNCHANGED vars
                 PROVE  PassInv'
    OBVIOUS
  <2>2. FileInv' /\ ScheduleInv'
    BY <2>1 DEF vars, PassInv, FileInv, ScheduleInv
  <2>3. \A rule, in, n : /\ Visits(rule)' = Visits(rule)
                         /\ Verdict(rule, in, n)' = Verdict(rule, in, n)
                         /\ Found(rule, in, n)' = Found(rule, in, n)
    BY <2>1 DEF vars, Visits, Verdict, InStruct, InFunction, Found
  <2>4. \A rule, k : Passed(rule, k)' <=> Passed(rule, k)
    BY <2>1 DEF vars, Passed
  <2>5. FoundInv'
    BY <2>1, <2>3, <2>4 DEF PassInv, FoundInv, IsPassed
  <2> QED  BY <2>2, <2>5 DEF PassInv
<1>2. PassInv /\ [Next]_vars => PassInv'
  BY <1>1, CollectKeeps, VisitKeeps, NextRuleKeeps DEF Next
<1> QED  BY <1>2, InitPass, PTL DEF Spec

(***************************************************************************)
(* At the end, what was found is what the rules decide, everywhere.        *)
(***************************************************************************)
LEMMA AllIsDecided ==
  ASSUME PassInv, rules = <<>>
  PROVE  /\ \A rule \in {"VL001", "VL004"} : \A s \in DOMAIN file.anchor :
              Found(rule, "struct", s) = InStruct(rule, s)
         /\ \A rule \in RuleName \ {"VL001"} : \A f \in DOMAIN file.functions :
              Found(rule, "function", f) = InFunction(rule, f)
<1>1. \A rule, k : Passed(rule, k)
  BY DEF Passed
<1>2. ASSUME NEW rule \in {"VL001", "VL004"}, NEW s \in DOMAIN file.anchor
      PROVE  Found(rule, "struct", s) = InStruct(rule, s)
  <2>1. s \in Nat /\ IsPassed(rule, "struct", s)
    BY <1>1, AllAreVisited DEF PassInv, IsPassed
  <2> QED  BY <2>1 DEF PassInv, FoundInv, Verdict, RuleName
<1>3. ASSUME NEW rule \in RuleName \ {"VL001"}, NEW f \in DOMAIN file.functions
      PROVE  Found(rule, "function", f) = InFunction(rule, f)
  <2>1. f \in Nat /\ IsPassed(rule, "function", f)
    BY <1>1, AllAreVisited DEF PassInv, IsPassed
  <2> QED  BY <2>1 DEF PassInv, FoundInv, Verdict
<1> QED  BY <1>2, <1>3

(***************************************************************************)
(* VL001's candidates are, in every file and at any number of structs, the *)
(* fields a stranger could fill with a victim.                             *)
(***************************************************************************)
THEOREM CandidatesCorrect == Spec => []CandidatesAreUnproven
<1>1. PassInv => CandidatesAreUnproven
  <2>1. SUFFICES ASSUME PassInv, rules = <<>>, NEW s \in DOMAIN file.anchor
                 PROVE  /\ Unproven(file.anchor[s]) \subseteq Found("VL001", "struct", s)
                        /\ \/ OtherSignerProven(file.anchor[s])
                           \/ Found("VL001", "struct", s) \subseteq Unproven(file.anchor[s])
    BY DEF CandidatesAreUnproven
  <2>2. Found("VL001", "struct", s) = Candidates(file.anchor[s])
    BY <2>1, AllIsDecided DEF InStruct
  <2>3. IsStruct(file.anchor[s])
    BY <2>1, StructsAreTranslated DEF PassInv, FileInv, Translated
  <2> QED  BY <2>2, <2>3, StrangersDecide
<1> QED  BY <1>1, PassInvariant, PTL

(***************************************************************************)
(* VL004's verdicts are those of the bumps that get through.               *)
(***************************************************************************)
THEOREM BumpsCorrect == Spec => []BumpVerdicts
<1>1. PassInv => BumpVerdicts
  <2>1. ASSUME PassInv, rules = <<>>, NEW s \in DOMAIN file.anchor
        PROVE  /\ Found("VL004", "struct", s) = NonCanonicalBumps(file.anchor[s])
               /\ IsStruct(file.anchor[s])
    <3>1. IsStruct(file.anchor[s])
      BY <2>1, StructsAreTranslated DEF PassInv, FileInv, Translated
    <3> QED  BY <2>1, <3>1, AllIsDecided DEF InStruct
  <2>2. ASSUME PassInv, rules = <<>>, NEW f \in DOMAIN file.functions
        PROVE  /\ Found("VL004", "function", f) = NonCanonicalCalls(file.functions[f].derivations)
               /\ file.functions[f].derivations \in Seq(Derivation)
    <3>1. file.functions[f] \in Function
      BY <2>2, SourceFilesAssumption DEF PassInv, FileInv, SourceFile
    <3>2. Found("VL004", "function", f) = NonCanonicalCalls(file.functions[f].derivations)
      BY <2>2, AllIsDecided DEF InFunction, RuleName
    <3> QED  BY <3>1, <3>2 DEF Function
  <2> QED  BY <2>1, <2>2, BumpsDecide, CallsDecide DEF BumpVerdicts
<1> QED  BY <1>1, PassInvariant, PTL

(***************************************************************************)
(* VL003's verdicts are those of the operations that may wrap.             *)
(***************************************************************************)
THEOREM ArithmeticCorrect == Spec => []ArithmeticVerdicts
<1>1. PassInv => ArithmeticVerdicts
  <2>1. ASSUME PassInv, rules = <<>>, NEW f \in DOMAIN file.functions
        PROVE  /\ Found("VL003", "function", f) = UncheckedArithmetic(file.overflowChecks, file.functions[f])
               /\ file.functions[f] \in Function /\ file.overflowChecks \in BOOLEAN
    <3>1. file.functions[f] \in Function /\ file.overflowChecks \in BOOLEAN
      BY <2>1, SourceFilesAssumption DEF PassInv, FileInv, SourceFile
    <3> QED  BY <2>1, <3>1, AllIsDecided DEF InFunction, RuleName
  <2> QED  BY <2>1, WrappingDecides DEF ArithmeticVerdicts
<1> QED  BY <1>1, PassInvariant, PTL

(***************************************************************************)
(* VL005's verdicts are those of lexical scoping, for every tidy call.     *)
(***************************************************************************)
THEOREM CpiCorrect == Spec => []CpiVerdictIsLexical
<1>1. PassInv => CpiVerdictIsLexical
  <2>1. SUFFICES ASSUME PassInv, rules = <<>>, NEW f \in DOMAIN file.functions,
                        NEW i \in Calls(file.functions[f].body), TidyCall(file, f, i)
                 PROVE  i \in Found("VL005", "function", f) <=> i \in ArbitraryCpi(file, f)
    BY DEF CpiVerdictIsLexical
  <2>2. Found("VL005", "function", f) = UncheckedCpi(file, f)
    BY <2>1, AllIsDecided DEF InFunction, RuleName
  <2>3. file.functions[f] \in Function
    BY <2>1, SourceFilesAssumption DEF PassInv, FileInv, SourceFile
  <2>4. file.functions[f].body \in Seq(Event)
    BY <2>3 DEF Function
  <2> QED  BY <2>1, <2>2, <2>4, ScopingDecides
<1> QED  BY <1>1, PassInvariant, PTL

\* What the rules are given is such a file.
LEMMA FileOfThePass ==
  ASSUME PassInv
  PROVE  IsFile(file)
<1>1. file.functions \in Seq(Function) /\ file.anchor \in Seq(Translated)
  BY SourceFilesAssumption DEF PassInv, FileInv, SourceFile
<1>2. \A s \in DOMAIN file.anchor : s \in Nat /\ file.anchor[s] \in Translated
  BY <1>1
<1>. QED BY <1>1, <1>2, StructsAreTranslated DEF IsFile, Translated

(***************************************************************************)
(* No read that a proof names is among what VL002 found.                   *)
(***************************************************************************)
THEOREM ProofsHeard == Spec => []ProofsAreHeard
<1>1. PassInv => ProofsAreHeard
  <2>1. SUFFICES ASSUME PassInv, rules = <<>>, NEW f \in DOMAIN file.functions,
                        BoundOnce(file.functions[f].body)
                 PROVE  Found("VL002", "function", f) \cap PlainlyProven(file, f) = {}
    BY DEF ProofsAreHeard
  <2>2. Found("VL002", "function", f) = MissingOwnerCheck(file, f)
    BY <2>1, AllIsDecided DEF InFunction, RuleName
  <2>3. IsFile(file)
    BY <2>1, FileOfThePass
  <2> QED  BY <2>1, <2>2, <2>3, ProofsDecide
<1> QED  BY <1>1, PassInvariant, PTL

(***************************************************************************)
(* No proof of another account silences VL002: an unproven read of a       *)
(* function that binds its names once is found, wherever identifiers tell  *)
(* the accounts apart.                                                     *)
(***************************************************************************)
THEOREM UnprovenReported == Spec => []UnprovenReadsAreReported
<1>1. PassInv => UnprovenReadsAreReported
  <2>1. SUFFICES ASSUME PassInv, rules = <<>>, NEW f \in DOMAIN file.functions,
                        BoundOnce(file.functions[f].body),
                        NEW i \in UnprovenReads(file, f), ToldApart(file, f, i)
                 PROVE  i \in Found("VL002", "function", f)
    BY DEF UnprovenReadsAreReported
  <2>2. Found("VL002", "function", f) = MissingOwnerCheck(file, f)
    BY <2>1, AllIsDecided DEF InFunction, RuleName
  <2>. QED BY <2>1, <2>2, FileOfThePass, UnprovenDecide
<1>. QED BY <1>1, PassInvariant, PTL
============================================================================
