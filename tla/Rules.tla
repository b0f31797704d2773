------------------------------- MODULE Rules -------------------------------
(***************************************************************************)
(* The pass of the rules over one file (src/lib.rs, src/rules/mod.rs).     *)
(* The Anchor model is built first; then each rule in turn visits what it  *)
(* is about: the Accounts structs, the functions, or the one and then the  *)
(* other.  VL001 comes last, when every file has been read; what it leaves *)
(* to the handlers is in Scan.                                             *)
(***************************************************************************)
EXTENDS Cpi, Owner, Authority

CONSTANTS SourceFiles      \* the files a pass may be made over

ASSUME SourceFilesAssumption == SourceFiles \subseteq SourceFile

VARIABLES
  file,       \* the file, and what the rules are given: the Anchor model, overflow_checks
  rules,      \* what is still to run, the current one first: "anchor" and the rules
  at,         \* the next item, struct or function
  findings    \* file_findings, and the candidates of VL001

vars == <<file, rules, at, findings>>

Init ==
  /\ \E source \in SourceFiles :
       file = [functions |-> source.functions, items |-> source.items, anchor |-> <<>>,
               overflowChecks |-> source.overflowChecks]
  /\ rules = <<"anchor", "VL002", "VL003", "VL004", "VL005", "VL001">>
  /\ at = 1
  /\ findings = {}

\* What a rule visits: for VL004 the structs and then the whole file.
Visits(rule) ==
  LET items == [i \in DOMAIN file.items |-> <<"item", i>>]
      structs == [s \in DOMAIN file.anchor |-> <<"struct", s>>]
      functions == [f \in DOMAIN file.functions |-> <<"function", f>>]
  IN  CASE rule = "anchor" -> items
        [] rule = "VL001" -> structs
        [] rule = "VL004" -> structs \o functions
        [] OTHER          -> functions

\* Where a rule reports in a struct: the fields.
InStruct(rule, s) ==
  CASE rule = "VL001" -> Candidates(file.anchor[s])
    [] rule = "VL004" -> NonCanonicalBumps(file.anchor[s])

\* Where a rule reports in a function.
InFunction(rule, f) ==
  CASE rule = "VL002" -> MissingOwnerCheck(file, f)
    [] rule = "VL003" -> UncheckedArithmetic(file.overflowChecks, file.functions[f])
    [] rule = "VL004" -> NonCanonicalCalls(file.functions[f].derivations)
    [] rule = "VL005" -> UncheckedCpi(file, f)

SeverityOf(rule, n, i) ==
  CASE rule = "VL002" -> Severity(file, n, i)
    [] rule = "VL003" -> "low"
    [] OTHER          -> "medium"

\* build, item by item.
Collect ==
  /\ rules # <<>>
  /\ Head(rules) = "anchor"
  /\ at <= Len(file.items)
  /\ file' = IF IsAccounts(file.items[at])
             THEN [file EXCEPT !.anchor = Append(@, ToStruct(file.items[at]))]
             ELSE file
  /\ at' = at + 1
  /\ UNCHANGED <<rules, findings>>

Visit ==
  /\ rules # <<>>
  /\ Head(rules) # "anchor"
  /\ at <= Len(Visits(Head(rules)))
  /\ LET rule == Head(rules)
         in == Visits(rule)[at][1]
         n == Visits(rule)[at][2]
     IN  findings' = findings \cup
           {[rule |-> rule, in |-> in, n |-> n, at |-> i, severity |-> SeverityOf(rule, n, i)] :
              i \in IF in = "struct" THEN InStruct(rule, n) ELSE InFunction(rule, n)}
  /\ at' = at + 1
  /\ UNCHANGED <<file, rules>>

NextRule ==
  /\ rules # <<>>
  /\ at > Len(Visits(Head(rules)))
  /\ rules' = Tail(rules)
  /\ at' = 1
  /\ UNCHANGED <<file, findings>>

Next == Collect \/ Visit \/ NextRule

Spec == Init /\ [][Next]_vars

----------------------------------------------------------------------------
Found(rule, in, n) == {x.at : x \in {y \in findings : y.rule = rule /\ y.in = in /\ y.n = n}}

(***************************************************************************)
(* VL005 gives every CPI the verdict lexical scoping gives it, wherever    *)
(* the nearest binding before it can stand for the visible one: bindings   *)
(* after the call, in the other arm of a branch, or shadowed, do not count.*)
(***************************************************************************)
CpiVerdictIsLexical ==
  rules = <<>> =>
    \A f \in DOMAIN file.functions : \A i \in Calls(file.functions[f].body) :
      TidyCall(file, f, i)
        => (i \in Found("VL005", "function", f) <=> i \in ArbitraryCpi(file, f))

(***************************************************************************)
(* "Verified something, therefore verified everything" never happens in    *)
(* VL002: where names are bound once and identifiers tell accounts apart,  *)
(* a read is reported when no owner is checked and nothing proves the very *)
(* account its bytes come from.  A proof of another account, or one in a   *)
(* function that the handler's #[access_control] does not name, leaves the *)
(* finding.                                                                *)
(***************************************************************************)
UnprovenReadsAreReported ==
  rules = <<>> =>
    \A f \in DOMAIN file.functions :
      BoundOnce(file.functions[f].body) =>
        \A i \in UnprovenReads(file, f) : ToldApart(file, f, i) => i \in Found("VL002", "function", f)

(***************************************************************************)
(* VL002 hears a proof wherever it stands: a read is not reported when the *)
(* body or a guard checks its account, named in full or as in the read.    *)
(***************************************************************************)
ProofsAreHeard ==
  rules = <<>> =>
    \A f \in DOMAIN file.functions :
      BoundOnce(file.functions[f].body) => Found("VL002", "function", f) \cap PlainlyProven(file, f) = {}

(***************************************************************************)
(* VL001 rests on what a stranger can do: a designated authority becomes a *)
(* candidate if a call that no known party signs can name a victim in it,  *)
(* bindings by accounts that this very call creates not counting.  A field *)
(* that no such call can fill with a victim is no candidate, unless it is  *)
(* a signer without an authority's name that rules the call out.           *)
(***************************************************************************)
CandidatesAreUnproven ==
  rules = <<>> =>
    \A s \in DOMAIN file.anchor :
      LET unproven == Unproven(file.anchor[s])
      IN  /\ unproven \subseteq Found("VL001", "struct", s)
          /\ OtherSignerProven(file.anchor[s]) \/ Found("VL001", "struct", s) \subseteq unproven

(***************************************************************************)
(* VL004 reports a field only if the caller's bump can choose between      *)
(* accounts, and every such field whose bump is an argument as it stands;  *)
(* of the calls, each that takes a bump from an argument or out of sight,  *)
(* and none that searches the bump or takes it from an account.            *)
(***************************************************************************)
BumpVerdicts ==
  rules = <<>> =>
    /\ \A s \in DOMAIN file.anchor :
         LET found == Found("VL004", "struct", s)
         IN  /\ found \subseteq Ambiguous(file.anchor[s])
             /\ {k \in Ambiguous(file.anchor[s]) : TakenAsIs(file.anchor[s], k)} \subseteq found
    /\ \A f \in DOMAIN file.functions :
         LET calls == file.functions[f].derivations
         IN  \A i \in DOMAIN calls :
               /\ MayChoose(calls[i]) => i \in Found("VL004", "function", f)
               /\ Searches(calls[i]) \/ TakesStored(calls[i]) => i \notin Found("VL004", "function", f)

(***************************************************************************)
(* VL003 tells, of the assignments to fields, exactly those that can wrap: *)
(* none in a workspace where an overflow aborts, none under a test module  *)
(* or test function, and none that leaves out code that ships.             *)
(***************************************************************************)
ArithmeticVerdicts ==
  rules = <<>> =>
    \A f \in DOMAIN file.functions :
      LET function == file.functions[f]
          wraps == {i \in DOMAIN function.writes :
                      /\ ~file.overflowChecks
                      /\ function.writes[i].target = "field"
                      /\ MayWrap(function.writes[i].op, 4)}
          found == Found("VL003", "function", f)
      IN  /\ found \subseteq wraps
          /\ Shipped(function) => wraps \subseteq found
          /\ found # {} => \A x \in function.within : x.test => x.item \in {"impl", "method"}
============================================================================
