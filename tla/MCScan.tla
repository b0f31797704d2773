------------------------------- MODULE MCScan -------------------------------
(***************************************************************************)
(* A tree of two crates for TLC: lib.rs and ix.rs with tests/it.rs in the  *)
(* first, other.rs in the second, all four free to declare and to handle   *)
(* the same struct.  The first crate's workspace root, at the scan root,   *)
(* lacks overflow-checks; the second's lies outside the scan.              *)
(***************************************************************************)
EXTENDS Scan

MCFile == {"lib.rs", "ix.rs", "it.rs", "other.rs"}
MCOrder == <<"ix.rs", "lib.rs", "other.rs", "it.rs">>
MCCrateOf == [f \in MCFile |-> IF f = "other.rs" THEN "second" ELSE "first"]
MCRootOf == [f \in MCFile |-> IF f = "other.rs" THEN "outer" ELSE "root"]
MCTestPath == {"it.rs"}
MCUnchecked == {"root", "outer"}
MCInScan == {"root"}
MCStruct == {"Create"}
MCIdent == {"handler", "check", "who"}
MCLine == {1, 2}

Fn(name, ctx, self, params) == [name |-> name, ctx |-> ctx, self |-> self, params |-> params]
Code(key, signer, forwards, tests) ==
  [key |-> key, signer |-> signer, forwards |-> forwards, tests |-> tests]
Create == [name |-> "Create", line |-> 1, candidate |-> TRUE]
ToCheck(position) == {[callee |-> "check", position |-> position]}

\* The struct, with a handler that passes the field on, and one finding of a local rule.
Declares ==
  [facts |-> <<Fn("handler", "Create", None, <<"who">>)>>,
   bodies |-> <<Code({"context"}, {}, ToCheck(2), {})>>,
   accounts |-> {Create}, local |-> {[rule |-> "VL004", line |-> 1], [rule |-> "VL002", line |-> 2]},
   hidden |-> {2}, m3 |-> {}, onchain |-> TRUE]

\* The struct without a handler, in two modules, suppressed in one of them.
Suppressed == [Declares EXCEPT !.facts = <<>>, !.bodies = <<>>, !.hidden = {1}, !.onchain = FALSE,
                               !.accounts = {Create, [Create EXCEPT !.line = 2]}]

\* The helper, behind an unrelated function.
Checks ==
  [facts |-> <<Fn("handler", None, None, <<>>), Fn("check", None, None, <<"handler", "who">>)>>,
   bodies |-> <<Code({"self"}, {}, {}, {}), Code({}, {}, {}, {"who"})>>,
   accounts |-> {}, local |-> {}, hidden |-> {}, m3 |-> {}, onchain |-> FALSE]

\* A method of the struct that is also a handler: one body, two spellings.
Method ==
  [facts |-> <<Fn("handler", "Create", "Create", <<"who">>)>>,
   bodies |-> <<Code({"self"}, {}, {}, {})>>,
   accounts |-> {Create}, local |-> {[rule |-> "VL005", line |-> 2]},
   hidden |-> {}, m3 |-> {}, onchain |-> TRUE]

\* Another handler; the proof of signature is in its second spelling.
Proves ==
  [facts |-> <<Fn("check", None, None, <<"who">>), Fn("handler", "Create", "Create", <<>>)>>,
   bodies |-> <<Code({"self"}, {"self"}, {}, {"who"}), Code({"context"}, {"self"}, {}, {})>>,
   accounts |-> {}, local |-> {[rule |-> "VL005", line |-> 1]},
   hidden |-> {}, m3 |-> {}, onchain |-> FALSE]

\* `#[cfg(test)] mod ix;` and `mod other;`
Tests == [Suppressed EXCEPT !.accounts = {}, !.m3 = {"ix.rs", "other.rs"}]

MCContent == {Declares, Suppressed, Checks, Method, Proves, Tests}

MCTrees ==
  { [f \in MCFile |-> CASE f = "lib.rs" -> x [] f = "ix.rs" -> y [] f = "other.rs" -> z [] f = "it.rs" -> t] :
      x \in OnDisk, y \in OnDisk, z \in {Declares, Checks, Proves}, t \in {Method} }
============================================================================
