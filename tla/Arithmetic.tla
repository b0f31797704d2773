----------------------------- MODULE Arithmetic -----------------------------
(***************************************************************************)
(* VL003, src/rules/arithmetic.rs, the half about single operations.  The  *)
(* half about manifests is in Scan.                                        *)
(***************************************************************************)
EXTENDS Integers, Sequences

\* A write into a field or another place: the operator of the assignment, or the
\* outermost one on the right of a plain `=`; "call" is anything else there.
Write == [target : {"field", "other"}, op : {"add", "sub", "mul", "div", "rem", "call"}]

\* An item around a function, or the function: is it for tests only?
Enclosing == [item : {"mod", "fn", "impl", "method"}, test : BOOLEAN]

\* Mutant of PlainArithmetic: no multiplication.
SumsOnly == {"add", "sub"}

\* plain_arithmetic and compound_arithmetic
PlainArithmetic == {"add", "sub", "mul"}

\* The visitor turns back at modules and free functions of tests.
Visited(function) == \A x \in function.within : x.test => x.item \notin {"mod", "fn"}

UncheckedArithmetic(overflowChecks, function) ==
  {i \in DOMAIN function.writes :
     /\ ~overflowChecks
     /\ Visited(function)
     /\ function.writes[i].target = "field"
     /\ function.writes[i].op \in PlainArithmetic}

----------------------------------------------------------------------------
\* The reference: integers up to a modulus in which the result of an operation does not fit.
Fits(op, x, y, modulus) ==
  LET Integer == 0 .. modulus - 1
  IN  CASE op = "add" -> x + y \in Integer
        [] op = "sub" -> x - y \in Integer
        [] op = "mul" -> x * y \in Integer
        [] op = "div" -> y # 0 => x \div y \in Integer
        [] op = "rem" -> y # 0 => x % y \in Integer
        [] op = "call" -> TRUE

MayWrap(op, modulus) == \E x, y \in 0 .. modulus - 1 : ~Fits(op, x, y, modulus)

Shipped(function) == \A x \in function.within : ~x.test
============================================================================
