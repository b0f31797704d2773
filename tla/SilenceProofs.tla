---------------------------- MODULE SilenceProofs ----------------------------
(***************************************************************************)
(* What vaultlint is silent about: findings with a marker above them       *)
(* (Suppress) and code that is taken for tests (Scope).                    *)
(*                                                                         *)
(* The walk of is_suppressed silences a finding exactly for a marker in    *)
(* the block above it, for files of any number of lines and lines of any   *)
(* number of brackets.  It reads brackets from the right and counts what   *)
(* it has seen closed; what a reader means is read from the left.  The     *)
(* argument is that the two agree: where only attributes leave brackets    *)
(* open, the walk's depth is the height the line above ends at.            *)
(*                                                                         *)
(* scope.rs drops no code that ships and keeps no module of tests, for any *)
(* number of files, modules and predicates.  The argument follows rustc    *)
(* from a crate root through its modules: what it comes to in a build      *)
(* without `test` is never at a place where scope.rs looks for tests, and  *)
(* what it comes to from a module of tests always is.                      *)
(***************************************************************************)
EXTENDS Suppress, Scope, FiniteSetTheorems, SequenceTheorems, WellFoundedInduction, TLAPS

----------------------------------------------------------------------------
(***************************************************************************)
(* A set of natural numbers has a least one.                               *)
(***************************************************************************)
LEMMA LeastNumber ==
  ASSUME NEW T, T \subseteq Nat, T # {}
  PROVE  \E x \in T : \A y \in T : x <= y
<1>. DEFINE R == OpToRel(<, Nat)
<1>1. IsWellFoundedOn(R, Nat)
  BY NatLessThanWellFounded
<1>2. \A x, y \in Nat : <<x, y>> \in R <=> x < y
  BY DEF OpToRel
<1>. HIDE DEF R
<1>3. PICK x \in T : \A y \in T : ~(<<y, x>> \in R)
  BY <1>1, WFMin
<1>4. \A y \in T : ~(y < x)
  BY <1>2, <1>3
<1>5. \A y \in T : x <= y
  BY <1>4
<1> QED  BY <1>5

\* d counts on from e, with step.
Counts(d, n, e, step) == d[0] = e /\ \A k \in 1 .. n : d[k] = step[k][d[k - 1]]

(***************************************************************************)
(* What counts on from a value exists: the recursive functions of         *)
(* Through, Heights and Modules are what their equations say.              *)
(***************************************************************************)
LEMMA CountExists ==
  ASSUME NEW n \in Nat, NEW S, NEW e \in S, NEW step \in [1 .. n -> [S -> S]]
  PROVE  \E d \in [0 .. n -> S] : Counts(d, n, e, step)
<1>. DEFINE Bad == {m \in 0 .. n : ~\E d \in [0 .. m -> S] : Counts(d, m, e, step)}
<1>1. SUFFICES ASSUME Bad # {} PROVE FALSE
  <2>1. n \in 0 .. n
    OBVIOUS
  <2> QED  BY <1>1, <2>1
<1>2. PICK m \in Bad : \A x \in Bad : m <= x
  <2>1. Bad \subseteq Nat
    OBVIOUS
  <2> QED  BY <1>1, <2>1, LeastNumber
<1>3. m # 0
  <2>. DEFINE d == [k \in 0 .. 0 |-> e]
  <2>1. d \in [0 .. 0 -> S] /\ Counts(d, 0, e, step)
    BY DEF Counts
  <2> QED  BY <1>2, <2>1
<1>4. m \in 1 .. n /\ m - 1 \in 0 .. n /\ m - 1 < m
  BY <1>2, <1>3
<1>5. m - 1 \notin Bad
  BY <1>2, <1>4
<1>6. PICK d \in [0 .. m - 1 -> S] : Counts(d, m - 1, e, step)
  BY <1>4, <1>5
<1>. DEFINE longer == [k \in 0 .. m |-> IF k = m THEN step[m][d[m - 1]] ELSE d[k]]
<1>7. d[m - 1] \in S /\ step[m][d[m - 1]] \in S
  BY <1>4, <1>6
<1>8. longer \in [0 .. m -> S]
  BY <1>4, <1>6, <1>7
<1>9. Counts(longer, m, e, step)
  <2>1. longer[0] = e
    BY <1>4, <1>6 DEF Counts
  <2>2. ASSUME NEW k \in 1 .. m
        PROVE  longer[k] = step[k][longer[k - 1]]
    <3>1. k - 1 \in 0 .. m /\ k - 1 # m /\ longer[k - 1] = d[k - 1]
      BY <1>4
    <3>2. CASE k = m
      BY <3>1, <3>2, <1>4
    <3>3. CASE k # m
      <4>1. k \in 1 .. m - 1
        BY <1>4, <3>3
      <4>2. longer[k] = d[k]
        BY <3>3
      <4> QED  BY <3>1, <4>1, <4>2, <1>6 DEF Counts
    <3> QED  BY <3>2, <3>3
  <2> QED  BY <2>1, <2>2 DEF Counts
<1> QED  BY <1>2, <1>8, <1>9

----------------------------------------------------------------------------
(***************************************************************************)
(* The count of a line's brackets from the right, as Through has it.       *)
(***************************************************************************)
IsCount(d, line, before) ==
  LET n == Len(line.brackets)
  IN  /\ d = [k \in 0 .. n |-> d[k]]
      /\ d[0] = before
      /\ \A k \in 1 .. n :
           d[k] = IF line.brackets[n + 1 - k] = "close" THEN d[k - 1] + 1
                  ELSE IF d[k - 1] = 0 THEN 0 ELSE d[k - 1] - 1

LEMMA ThroughCounts ==
  ASSUME NEW line \in Text, NEW before \in Nat
  PROVE  \E d \in [0 .. Len(line.brackets) -> Nat] :
           IsCount(d, line, before) /\ Through(line, before) = d[Len(line.brackets)]
<1>. DEFINE n == Len(line.brackets)
            Step(k, x) == IF line.brackets[n + 1 - k] = "close" THEN x + 1
                          ELSE IF x = 0 THEN 0 ELSE x - 1
            step == [k \in 1 .. n |-> [x \in Nat |-> Step(k, x)]]
            Equation(d) == d = [k \in 0 .. n |-> IF k = 0 THEN before ELSE Step(k, d[k - 1])]
<1>1. n \in Nat
  BY DEF Text
<1>2. step \in [1 .. n -> [Nat -> Nat]]
  OBVIOUS
<1>3. PICK c \in [0 .. n -> Nat] : Counts(c, n, before, step)
  <2>. HIDE DEF n, step
  <2> QED  BY <1>1, <1>2, CountExists
<1>4. Equation(c)
  <2>1. ASSUME NEW k \in 0 .. n
        PROVE  c[k] = IF k = 0 THEN before ELSE Step(k, c[k - 1])
    <3>1. CASE k = 0
      BY <1>3, <3>1 DEF Counts
    <3>2. CASE k # 0
      <4>1. k \in 1 .. n /\ k - 1 \in 0 .. n
        BY <1>1, <3>2
      <4>2. c[k - 1] \in Nat
        BY <1>3, <4>1
      <4> QED  BY <1>3, <3>2, <4>1, <4>2 DEF Counts
    <3> QED  BY <3>1, <3>2
  <2>. HIDE DEF Step
  <2> QED  BY <1>3, <2>1
<1>. DEFINE d == CHOOSE f : Equation(f)
<1>5. Equation(d)
  BY <1>4
<1>6. Through(line, before) = d[n]
  BY DEF Through
<1>. HIDE DEF d
<1>7. ASSUME NEW k \in 0 .. n
      PROVE  d[k] \in Nat
  <2>. DEFINE Bad == {m \in 0 .. n : d[m] \notin Nat}
  <2>1. SUFFICES ASSUME Bad # {} PROVE FALSE
    OBVIOUS
  <2>2. PICK m \in Bad : \A x \in Bad : m <= x
    <3>1. Bad \subseteq Nat
      OBVIOUS
    <3> QED  BY <2>1, <3>1, LeastNumber
  <2>3. m # 0
    BY <1>1, <1>5, <2>2
  <2>4. m - 1 \in 0 .. n /\ d[m - 1] \in Nat /\ m \in 0 .. n
    BY <1>1, <2>2, <2>3
  <2>5. d[m] = Step(m, d[m - 1])
    <3>. HIDE DEF Step
    <3> QED  BY <1>5, <2>3, <2>4
  <2> QED  BY <2>2, <2>4, <2>5
<1>8. d \in [0 .. n -> Nat]
  <2>. HIDE DEF Step
  <2> QED  BY <1>5, <1>7
<1>9. IsCount(d, line, before)
  <2>1. 0 \in 0 .. n /\ d[0] = before
    BY <1>1, <1>5
  <2>2. ASSUME NEW k \in 1 .. n
        PROVE  d[k] = Step(k, d[k - 1])
    <3>1. k \in 0 .. n /\ k # 0
      BY <1>1
    <3>. HIDE DEF Step
    <3> QED  BY <1>5, <3>1
  <2>3. d = [k \in 0 .. n |-> d[k]]
    BY <1>8
  <2> QED  BY <2>1, <2>2, <2>3 DEF IsCount
<1> QED  BY <1>6, <1>8, <1>9

(***************************************************************************)
(* The heights of a line's brackets from the left, as Heights has them.    *)
(***************************************************************************)
LEMMA HeightsCount ==
  ASSUME NEW line \in Text
  PROVE  LET n == Len(line.brackets)
             h == Heights(line)
         IN  /\ h[0] = line.above
             /\ \A k \in 0 .. n : h[k] \in Int
             /\ \A k \in 1 .. n :
                  h[k] = IF line.brackets[k] = "open" THEN h[k - 1] + 1 ELSE h[k - 1] - 1
<1>. DEFINE n == Len(line.brackets)
            Step(k, x) == IF line.brackets[k] = "open" THEN x + 1 ELSE x - 1
            step == [k \in 1 .. n |-> [x \in Int |-> Step(k, x)]]
            Equation(d) == d = [k \in 0 .. n |-> IF k = 0 THEN line.above ELSE Step(k, d[k - 1])]
<1>1. n \in Nat /\ line.above \in Int
  BY DEF Text
<1>2. step \in [1 .. n -> [Int -> Int]]
  OBVIOUS
<1>3. PICK c \in [0 .. n -> Int] : Counts(c, n, line.above, step)
  <2>. HIDE DEF n, step
  <2> QED  BY <1>1, <1>2, CountExists
<1>4. Equation(c)
  <2>1. ASSUME NEW k \in 0 .. n
        PROVE  c[k] = IF k = 0 THEN line.above ELSE Step(k, c[k - 1])
    <3>1. CASE k = 0
      BY <1>3, <3>1 DEF Counts
    <3>2. CASE k # 0
      <4>1. k \in 1 .. n /\ k - 1 \in 0 .. n
        BY <1>1, <3>2
      <4>2. c[k - 1] \in Int
        BY <1>3, <4>1
      <4> QED  BY <1>3, <3>2, <4>1, <4>2 DEF Counts
    <3> QED  BY <3>1, <3>2
  <2>. HIDE DEF Step
  <2> QED  BY <1>3, <2>1
<1>. DEFINE h == CHOOSE f : Equation(f)
<1>5. Equation(h)
  BY <1>4
<1>6. Heights(line) = h
  BY DEF Heights
<1>. HIDE DEF h
<1>7. ASSUME NEW k \in 0 .. n
      PROVE  h[k] \in Int
  <2>. DEFINE Bad == {m \in 0 .. n : h[m] \notin Int}
  <2>1. SUFFICES ASSUME Bad # {} PROVE FALSE
    OBVIOUS
  <2>2. PICK m \in Bad : \A x \in Bad : m <= x
    <3>1. Bad \subseteq Nat
      OBVIOUS
    <3> QED  BY <2>1, <3>1, LeastNumber
  <2>3. m # 0
    BY <1>1, <1>5, <2>2
  <2>4. m - 1 \in 0 .. n /\ h[m - 1] \in Int /\ m \in 0 .. n
    BY <1>1, <2>2, <2>3
  <2>5. h[m] = Step(m, h[m - 1])
    <3>. HIDE DEF Step
    <3> QED  BY <1>5, <2>3, <2>4
  <2> QED  BY <2>2, <2>4, <2>5
<1>8. h[0] = line.above
  BY <1>1, <1>5
<1>9. ASSUME NEW k \in 1 .. n
      PROVE  h[k] = Step(k, h[k - 1])
  <2>1. k \in 0 .. n /\ k # 0
    BY <1>1
  <2>. HIDE DEF Step
  <2> QED  BY <1>5, <2>1
<1> QED  BY <1>6, <1>7, <1>8, <1>9

(***************************************************************************)
(* From the right, a line that closes no foreign bracket is never counted  *)
(* deeper than it is high: each bracket undone on the way up was there.    *)
(***************************************************************************)
LEMMA DepthAtMostHeight ==
  ASSUME NEW line \in Text, OwnBrackets(line), NEW before \in Nat, before <= EndHeight(line)
  PROVE  Through(line, before) <= line.above
<1>. DEFINE n == Len(line.brackets)
            h == Heights(line)
<1>1. n \in Nat
  BY DEF Text
<1>2. PICK d \in [0 .. n -> Nat] : IsCount(d, line, before) /\ Through(line, before) = d[n]
  BY ThroughCounts
<1>3. \A k \in 0 .. n : h[k] \in Nat
  BY HeightsCount DEF OwnBrackets
<1>. DEFINE Bad == {k \in 0 .. n : ~(d[k] <= h[n - k])}
<1>4. SUFFICES Bad = {}
  <2>1. n \in 0 .. n /\ n - n = 0
    BY <1>1
  <2>2. d[n] <= h[0]
    BY <1>4, <2>1
  <2> QED  BY <1>2, <2>2, HeightsCount
<1>5. SUFFICES ASSUME Bad # {} PROVE FALSE
  OBVIOUS
<1>6. PICK k \in Bad : \A x \in Bad : k <= x
  <2>1. Bad \subseteq Nat
    OBVIOUS
  <2> QED  BY <1>5, <2>1, LeastNumber
<1>7. k # 0
  <2>1. n - 0 = n /\ 0 \in 0 .. n
    BY <1>1
  <2>2. d[0] <= h[n]
    BY <1>2 DEF IsCount, EndHeight
  <2> QED  BY <1>6, <2>1, <2>2
<1>8. k - 1 \in 0 .. n /\ k \in 1 .. n /\ n - (k - 1) = (n - k) + 1 /\ n + 1 - k = (n - k) + 1
  BY <1>1, <1>6, <1>7
<1>9. d[k - 1] <= h[(n - k) + 1] /\ (n - k) + 1 \in 1 .. n /\ n - k \in 0 .. n
  BY <1>1, <1>6, <1>7, <1>8
<1>10. h[(n - k) + 1] = IF line.brackets[(n - k) + 1] = "open" THEN h[n - k] + 1 ELSE h[n - k] - 1
  <2>1. ((n - k) + 1) - 1 = n - k
    BY <1>9
  <2> QED  BY <1>9, <2>1, HeightsCount
<1>11. d[k] = IF line.brackets[(n - k) + 1] = "close" THEN d[k - 1] + 1
              ELSE IF d[k - 1] = 0 THEN 0 ELSE d[k - 1] - 1
  BY <1>2, <1>8 DEF IsCount
<1>12. line.brackets[(n - k) + 1] \in {"open", "close"}
  BY <1>9 DEF Text
<1>13. h[n - k] \in Nat /\ h[(n - k) + 1] \in Nat /\ d[k - 1] \in Nat
  <2>1. (n - k) + 1 \in 0 .. n
    BY <1>1, <1>9
  <2> QED  BY <2>1, <1>2, <1>3, <1>8, <1>9
<1>14. d[k] <= h[n - k]
  <2>1. CASE line.brackets[(n - k) + 1] = "close"
    <3>1. h[(n - k) + 1] = h[n - k] - 1 /\ d[k] = d[k - 1] + 1
      BY <2>1, <1>10, <1>11
    <3>. HIDE DEF h
    <3> QED  BY <3>1, <1>9, <1>13, SMTT(30)
  <2>2. CASE line.brackets[(n - k) + 1] = "open"
    <3>1. h[(n - k) + 1] = h[n - k] + 1 /\ d[k] = IF d[k - 1] = 0 THEN 0 ELSE d[k - 1] - 1
      BY <2>2, <1>10, <1>11
    <3>. HIDE DEF h
    <3> QED  BY <3>1, <1>9, <1>13, SMTT(30)
  <2> QED  BY <2>1, <2>2, <1>12
<1> QED  BY <1>6, <1>14

(***************************************************************************)
(* And inside an attribute the two are equal.                              *)
(***************************************************************************)
LEMMA DepthIsHeight ==
  ASSUME NEW line \in Text, OwnBrackets(line), EndHeight(line) \in Nat
  PROVE  Through(line, EndHeight(line)) = line.above
<1>. DEFINE n == Len(line.brackets)
            h == Heights(line)
            before == EndHeight(line)
<1>1. n \in Nat
  BY DEF Text
<1>2. PICK d \in [0 .. n -> Nat] : IsCount(d, line, before) /\ Through(line, before) = d[n]
  BY ThroughCounts
<1>3. \A k \in 0 .. n : h[k] \in Nat
  BY HeightsCount DEF OwnBrackets
<1>. DEFINE Bad == {k \in 0 .. n : d[k] # h[n - k]}
<1>4. SUFFICES Bad = {}
  <2>1. n \in 0 .. n /\ n - n = 0
    BY <1>1
  <2>2. d[n] = h[0]
    BY <1>4, <2>1
  <2> QED  BY <1>2, <2>2, HeightsCount
<1>5. SUFFICES ASSUME Bad # {} PROVE FALSE
  OBVIOUS
<1>6. PICK k \in Bad : \A x \in Bad : k <= x
  <2>1. Bad \subseteq Nat
    OBVIOUS
  <2> QED  BY <1>5, <2>1, LeastNumber
<1>7. k # 0
  <2>1. n - 0 = n /\ 0 \in 0 .. n
    BY <1>1
  <2>2. d[0] = h[n]
    BY <1>2 DEF IsCount, EndHeight
  <2> QED  BY <1>6, <2>1, <2>2
<1>8. k - 1 \in 0 .. n /\ k \in 1 .. n /\ n - (k - 1) = (n - k) + 1 /\ n + 1 - k = (n - k) + 1
  BY <1>1, <1>6, <1>7
<1>9. d[k - 1] = h[(n - k) + 1] /\ (n - k) + 1 \in 1 .. n /\ n - k \in 0 .. n
  BY <1>1, <1>6, <1>7, <1>8
<1>10. h[(n - k) + 1] = IF line.brackets[(n - k) + 1] = "open" THEN h[n - k] + 1 ELSE h[n - k] - 1
  <2>1. ((n - k) + 1) - 1 = n - k
    BY <1>9
  <2> QED  BY <1>9, <2>1, HeightsCount
<1>11. d[k] = IF line.brackets[(n - k) + 1] = "close" THEN d[k - 1] + 1
              ELSE IF d[k - 1] = 0 THEN 0 ELSE d[k - 1] - 1
  BY <1>2, <1>8 DEF IsCount
<1>12. line.brackets[(n - k) + 1] \in {"open", "close"}
  BY <1>9 DEF Text
<1>13. h[n - k] \in Nat /\ h[(n - k) + 1] \in Nat /\ d[k - 1] \in Nat
  <2>1. (n - k) + 1 \in 0 .. n
    BY <1>1, <1>9
  <2> QED  BY <2>1, <1>2, <1>3, <1>8, <1>9
<1>14. d[k] = h[n - k]
  <2>1. CASE line.brackets[(n - k) + 1] = "close"
    <3>1. h[(n - k) + 1] = h[n - k] - 1 /\ d[k] = d[k - 1] + 1
      BY <2>1, <1>10, <1>11
    <3>. HIDE DEF h
    <3> QED  BY <3>1, <1>9, <1>13
  <2>2. CASE line.brackets[(n - k) + 1] = "open"
    <3>1. h[(n - k) + 1] = h[n - k] + 1 /\ d[k] = IF d[k - 1] = 0 THEN 0 ELSE d[k - 1] - 1
      BY <2>2, <1>10, <1>11
    <3>. HIDE DEF h
    <3> QED  BY <3>1, <1>9, <1>13, SMTT(30)
  <2> QED  BY <2>1, <2>2, <1>12
<1> QED  BY <1>6, <1>14

----------------------------------------------------------------------------
(***************************************************************************)
(* Every variable of the walk keeps its type, for any lines.               *)
(***************************************************************************)
LEMMA LinesOfTheFile ==
  ASSUME lines \in Sources
  PROVE  /\ Len(lines) \in Nat
         /\ \A j \in 1 .. Len(lines) : lines[j] \in Line /\ lines[j] \in Text
<1>1. lines \in Seq(Line)
  BY SourceAssumption
<1> QED  BY <1>1, LineAssumption

LEMMA ThroughInNat ==
  ASSUME NEW line \in Text, NEW before \in Nat
  PROVE  Through(line, before) \in Nat
<1>1. PICK d \in [0 .. Len(line.brackets) -> Nat] :
        IsCount(d, line, before) /\ Through(line, before) = d[Len(line.brackets)]
  BY ThroughCounts
<1>2. Len(line.brackets) \in 0 .. Len(line.brackets)
  BY DEF Text
<1> QED  BY <1>1, <1>2

LEMMA TypeInit ==
  ASSUME Init
  PROVE  TypeOK
<1>1. Len(lines) \in Nat
  BY LinesOfTheFile DEF Init
<1> QED  BY <1>1 DEF Init, TypeOK

LEMMA TypeNext ==
  ASSUME TypeOK, [Next]_vars
  PROVE  TypeOK'
<1>1. Len(lines) \in Nat /\ DOMAIN lines = 1 .. Len(lines)
  <2>1. lines \in Seq(Line)
    BY SourceAssumption DEF TypeOK
  <2> QED  BY <2>1
<1>2. CASE Start
  <2>1. index - 1 \in 0 .. Len(lines)
    BY <1>1 DEF TypeOK
  <2> QED  BY <2>1, <1>2 DEF Start, TypeOK
<1>3. CASE Turn
  <2>1. i \in 1 .. Len(lines) /\ i - 1 \in 0 .. Len(lines)
    BY <1>1, <1>3 DEF TypeOK, Turn
  <2>2. Through(lines[i], depth) \in Nat
    BY <2>1, LinesOfTheFile, ThroughInNat DEF TypeOK
  <2>3. depth' \in Nat /\ i' \in 0 .. Len(lines)
    BY <1>3, <2>1, <2>2 DEF TypeOK, Turn
  <2>4. verdict' \in {"walking", "suppressed", "reported"}
    BY <1>3 DEF TypeOK, Turn
  <2> QED  BY <2>3, <2>4, <1>3 DEF TypeOK, Turn
<1>4. CASE UNCHANGED vars
  BY <1>4 DEF vars, TypeOK
<1> QED  BY <1>2, <1>3, <1>4 DEF Next

(***************************************************************************)
(* is_suppressed's index stays inside the file, and its depth a natural    *)
(* number (saturating_sub).                                                *)
(***************************************************************************)
THEOREM TypeCorrect == Spec => []TypeOK
<1>1. Init => TypeOK
  BY TypeInit
<1>2. TypeOK /\ [Next]_vars => TypeOK'
  BY TypeNext
<1> QED  BY <1>1, <1>2, PTL DEF Spec

----------------------------------------------------------------------------
(***************************************************************************)
(* The invariant of the walk.                                              *)
(***************************************************************************)

\* The height at which line j ends: the brackets of its attribute that it leaves open.
LeftOpen(j) == IF lines[j].part = "continued" THEN EndHeight(lines[j]) ELSE 0

\* The lines passed carry no marker and end no block, and the depth is where the next one ends.
Walked ==
  /\ i = 0 => depth = 0
  /\ i > 0 => /\ i < index
              /\ \A k \in i + 1 .. index : ~lines[k].marks
              /\ \A k \in i + 1 .. index - 1 : ~EndsBlock(lines[k])
              /\ depth = LeftOpen(i)

WalkInv ==
  /\ TypeOK
  /\ lines[index].part = "code"
  /\ PlainAbove =>
       /\ verdict = "walking" => Walked
       /\ verdict = "suppressed" => \E j \in Block \cup {index} : lines[j].marks
       /\ verdict = "reported" => \A j \in Block \cup {index} : ~lines[j].marks

LEMMA WalkInit ==
  ASSUME Init
  PROVE  WalkInv
<1>1. TypeOK
  BY TypeInit
<1>2. i = 0 /\ depth = 0 /\ verdict = "walking" /\ lines[index].part = "code"
  BY DEF Init
<1> QED  BY <1>1, <1>2 DEF WalkInv, Walked

(***************************************************************************)
(* The line right above the finding leaves no bracket of an attribute      *)
(* open: the finding's own is code.                                        *)
(***************************************************************************)
LEMMA WalkStart ==
  ASSUME WalkInv, Start, PlainAbove
  PROVE  /\ verdict' = "walking" => /\ i' = index - 1 /\ i' > 0
                                    /\ LeftOpen(i') = 0
                                    /\ ~lines[index].marks
         /\ verdict' = "suppressed" => lines[index].marks
         /\ verdict' = "reported" => \A j \in Block \cup {index} : ~lines[j].marks
<1>. DEFINE top == index - 1
<1>1. Len(lines) \in Nat /\ index \in 1 .. Len(lines) /\ lines[index].part = "code"
  <2>1. lines \in Seq(Line)
    BY SourceAssumption DEF WalkInv, TypeOK
  <2> QED  BY <2>1 DEF WalkInv, TypeOK
<1>2. CASE lines[index].marks
  BY <1>2 DEF Start
<1>3. CASE ~lines[index].marks /\ index = 1
  <2>1. Block = {}
    BY <1>3 DEF Block
  <2> QED  BY <1>3, <2>1 DEF Start
<1>4. CASE ~lines[index].marks /\ index # 1
  <2>1. top \in Reach /\ top \in 1 .. Len(lines) /\ top + 1 = index
    BY <1>1, <1>4 DEF Reach
  <2>2. LeftOpen(top) = 0
    <3>1. CASE lines[top].part = "continued"
      <4>1. Continues(top)
        BY <2>1, <3>1 DEF PlainAbove
      <4>2. EndHeight(lines[top]) = 0
        BY <4>1, <2>1, <1>1 DEF Continues
      <4> QED  BY <3>1, <4>2 DEF LeftOpen
    <3> QED  BY <3>1 DEF LeftOpen
  <2> QED  BY <1>1, <1>4, <2>1, <2>2 DEF Start
<1> QED  BY <1>2, <1>3, <1>4

(***************************************************************************)
(* The walk takes the line it looks at for one of the block exactly when   *)
(* it does not end the block, and leaves it at the height it begins at.    *)
(***************************************************************************)
LEMMA LineIsRead ==
  ASSUME WalkInv, PlainAbove, verdict = "walking", i > 0
  PROVE  /\ i \in 1 .. Len(lines) /\ i \in Reach
         /\ Stops(lines[i], depth) \/ ~IsBlockLine(lines[i], depth) <=> EndsBlock(lines[i])
         /\ ~EndsBlock(lines[i]) =>
              Through(lines[i], depth) = IF lines[i].part = "continued" THEN lines[i].above ELSE 0
<1>. DEFINE line == lines[i]
<1>1. Walked /\ TypeOK
  BY DEF WalkInv
<1>2. Len(lines) \in Nat /\ index \in 1 .. Len(lines)
  <2>1. lines \in Seq(Line)
    BY <1>1, SourceAssumption DEF TypeOK
  <2> QED  BY <1>1, <2>1 DEF TypeOK
<1>3. i \in 1 .. index - 1 /\ i \in 1 .. Len(lines)
  BY <1>1, <1>2 DEF Walked, TypeOK
<1>4. i \in Reach
  BY <1>1, <1>3 DEF Walked, Reach
<1>5. OwnBrackets(line)
  BY <1>4 DEF PlainAbove
<1>6. line \in Line /\ line \in Text
  BY <1>1, <1>3, LinesOfTheFile DEF TypeOK
<1>7. depth = LeftOpen(i)
  BY <1>1 DEF Walked
<1>8. CASE line.part = "continued"
  <2>1. Continues(i) /\ depth = EndHeight(line) /\ depth \in Nat
    BY <1>1, <1>4, <1>7, <1>8 DEF PlainAbove, LeftOpen, TypeOK
  <2>2. Through(line, depth) = line.above /\ line.above \in Nat
    BY <1>5, <1>6, <2>1, DepthIsHeight DEF Text
  <2>3. ~EndsBlock(line)
    BY <1>8 DEF EndsBlock
  <2>4. ~Stops(line, depth)
    BY <2>1 DEF Stops, Continues
  <2>5. IsBlockLine(line, depth)
    BY <2>1, <2>2 DEF IsBlockLine, Continues
  <2> QED  BY <1>3, <1>4, <1>8, <2>2, <2>3, <2>4, <2>5
<1>9. CASE line.part # "continued"
  <2>1. depth = 0
    BY <1>7, <1>9 DEF LeftOpen
  <2>2. /\ line.above = 0
        /\ <<line.part, line.starts>> \in {<<"blank", "nothing">>, <<"comment", "//">>,
                                           <<"attribute", "#[">>, <<"code", "other">>}
    BY <1>6, <1>9, LineAssumption
  <2>3. 0 <= EndHeight(line)
    <3>1. Len(line.brackets) \in 0 .. Len(line.brackets)
      BY <1>6 DEF Text
    <3> QED  BY <1>5, <3>1 DEF OwnBrackets, EndHeight
  <2>4. Through(line, depth) = 0
    <3>1. Through(line, 0) \in Nat
      BY <1>6, ThroughInNat
    <3>2. Through(line, 0) <= 0
      BY <1>5, <1>6, <2>2, <2>3, DepthAtMostHeight
    <3> QED  BY <2>1, <3>1, <3>2
  <2>5. line.part = "code" <=> line.starts = "other"
    BY <2>2
  <2>6. Stops(line, depth) <=> line.brace
    BY <2>1 DEF Stops
  <2>7. IsBlockLine(line, depth) <=> line.part # "code"
    BY <2>4, <2>5 DEF IsBlockLine
  <2> QED  BY <1>3, <1>4, <1>9, <2>4, <2>6, <2>7 DEF EndsBlock
<1> QED  BY <1>8, <1>9

LEMMA WalkTurn ==
  ASSUME WalkInv, Turn, PlainAbove
  PROVE  /\ verdict' = "walking" =>
              /\ i' = i - 1 /\ i' > 0 /\ i' < index
              /\ \A k \in i' + 1 .. index : ~lines[k].marks
              /\ \A k \in i' + 1 .. index - 1 : ~EndsBlock(lines[k])
              /\ depth' = LeftOpen(i')
         /\ verdict' = "suppressed" => \E j \in Block \cup {index} : lines[j].marks
         /\ verdict' = "reported" => \A j \in Block \cup {index} : ~lines[j].marks
<1>. DEFINE line == lines[i]
<1>1. verdict = "walking" /\ i > 0 /\ TypeOK /\ Walked
  BY DEF WalkInv, Turn
<1>2. /\ i \in 1 .. Len(lines) /\ i \in Reach
      /\ Stops(line, depth) \/ ~IsBlockLine(line, depth) <=> EndsBlock(line)
      /\ ~EndsBlock(line) =>
           Through(line, depth) = IF line.part = "continued" THEN line.above ELSE 0
  BY <1>1, LineIsRead
<1>3. Len(lines) \in Nat /\ index \in 1 .. Len(lines) /\ i \in 1 .. index - 1
  <2>1. lines \in Seq(Line)
    BY <1>1, SourceAssumption DEF TypeOK
  <2> QED  BY <1>1, <1>2, <2>1 DEF TypeOK, Walked
<1>4. /\ \A k \in i + 1 .. index : ~lines[k].marks
      /\ \A k \in i + 1 .. index - 1 : ~EndsBlock(lines[k])
  BY <1>1 DEF Walked
<1>5. CASE EndsBlock(line)
  <2>1. verdict' = "reported"
    BY <1>2, <1>5 DEF Turn
  <2>2. \A j \in Block : j \in i + 1 .. index - 1
    BY <1>3, <1>5 DEF Block
  <2>3. \A j \in Block \cup {index} : j \in i + 1 .. index
    BY <1>3, <2>2
  <2> QED  BY <1>4, <2>1, <2>3
<1>6. CASE ~EndsBlock(line)
  <2>1. /\ verdict' = IF line.marks THEN "suppressed" ELSE IF i = 1 THEN "reported" ELSE "walking"
        /\ i' = i - 1
        /\ depth' = Through(line, depth)
    BY <1>2, <1>6 DEF Turn
  <2>2. \A k \in i .. index - 1 : ~EndsBlock(lines[k])
    <3>1. ASSUME NEW k \in i .. index - 1
          PROVE  ~EndsBlock(lines[k])
      <4>1. k = i \/ k \in i + 1 .. index - 1
        BY <1>3
      <4> QED  BY <1>4, <1>6, <4>1
    <3> QED  BY <3>1
  <2>3. CASE line.marks
    <3>1. i \in Block
      BY <1>3, <2>2 DEF Block
    <3> QED  BY <2>1, <2>3, <3>1
  <2>4. CASE ~line.marks
    <3>1. \A k \in i .. index : ~lines[k].marks
      <4>1. ASSUME NEW k \in i .. index
            PROVE  ~lines[k].marks
        <5>1. k = i \/ k \in i + 1 .. index
          BY <1>3
        <5> QED  BY <1>4, <2>4, <5>1
      <4> QED  BY <4>1
    <3>2. CASE i = 1
      <4>1. \A j \in Block \cup {index} : j \in i .. index
        BY <1>3, <3>2 DEF Block
      <4> QED  BY <2>1, <2>4, <3>1, <3>2, <4>1
    <3>3. CASE i # 1
      <4>. DEFINE up == i - 1
      <4>1. up \in 1 .. index - 1 /\ up + 1 = i /\ up > 0 /\ up < index
        BY <1>3, <3>3
      <4>2. up \in Reach
        BY <2>2, <4>1 DEF Reach
      <4>3. lines[up].part = "continued" => Continues(up)
        BY <4>2 DEF PlainAbove
      <4>4. lines[i].part = "continued" => Continues(i)
        BY <1>2 DEF PlainAbove
      <4>5. Through(line, depth) = LeftOpen(up)
        <5>1. CASE lines[up].part = "continued"
          <6>1. LeftOpen(up) = IF line.part = "continued" THEN line.above ELSE 0
            BY <4>1, <4>3, <5>1 DEF Continues, LeftOpen
          <6> QED  BY <1>2, <1>6, <6>1
        <5>2. CASE lines[up].part # "continued"
          <6>1. line.part = "continued" => line.above = 0
            BY <4>4, <5>2 DEF Continues
          <6> QED  BY <1>2, <1>6, <5>2, <6>1 DEF LeftOpen
        <5> QED  BY <5>1, <5>2
      <4>6. verdict' = "walking" /\ i' = up
        BY <2>1, <2>4, <3>3
      <4> QED  BY <2>1, <2>2, <3>1, <4>1, <4>5, <4>6
    <3> QED  BY <3>2, <3>3
  <2> QED  BY <2>3, <2>4
<1> QED  BY <1>5, <1>6

LEMMA WalkNext ==
  ASSUME WalkInv, [Next]_vars
  PROVE  WalkInv'
<1>1. TypeOK'
  BY TypeNext DEF WalkInv
<1>2. CASE UNCHANGED vars
  BY <1>2 DEF vars, WalkInv, TypeOK, PlainAbove, Reach, Continues, EndsBlock, Walked, LeftOpen, Block
<1>3. CASE Start \/ Turn
  <2>1. lines' = lines /\ index' = index
    BY <1>3 DEF Start, Turn
  <2>2. Reach' = Reach /\ Block' = Block
    BY <2>1 DEF Reach, Block
  <2>3. PlainAbove' <=> PlainAbove
    BY <2>1, <2>2 DEF PlainAbove, Continues
  <2>4. ASSUME PlainAbove
        PROVE  /\ verdict' = "walking" => Walked'
               /\ verdict' = "suppressed" => \E j \in Block \cup {index} : lines[j].marks
               /\ verdict' = "reported" => \A j \in Block \cup {index} : ~lines[j].marks
    <3>1. CASE Start
      <4>1. index \in Nat /\ depth' = 0
        <5>1. depth = 0
          BY <2>4, <3>1 DEF WalkInv, Start, Walked
        <5>2. lines \in Seq(Line)
          BY SourceAssumption DEF WalkInv, TypeOK
        <5> QED  BY <3>1, <5>1, <5>2 DEF Start, WalkInv, TypeOK
      <4>2. verdict' = "walking" => Walked'
        <5>1. SUFFICES ASSUME verdict' = "walking" PROVE Walked'
          OBVIOUS
        <5>2. i' = index - 1 /\ i' > 0 /\ LeftOpen(index - 1) = 0 /\ ~lines[index].marks
          BY <2>4, <3>1, <5>1, WalkStart
        <5>3. LeftOpen(i)' = 0
          BY <2>1, <5>2 DEF LeftOpen
        <5>4. i' + 1 = index /\ i' < index /\ i' # 0
          BY <4>1, <5>2
        <5>5. \A k \in i' + 1 .. index : k = index
          BY <4>1, <5>4
        <5>6. i' + 1 .. index - 1 = {}
          BY <4>1, <5>4
        <5> QED  BY <2>1, <4>1, <5>2, <5>3, <5>4, <5>5, <5>6 DEF Walked
      <4> QED  BY <2>4, <3>1, <4>2, WalkStart
    <3>2. CASE Turn
      <4>1. verdict' = "walking" => Walked'
        <5>1. SUFFICES ASSUME verdict' = "walking" PROVE Walked'
          OBVIOUS
        <5>2. /\ i' > 0 /\ i' < index
              /\ \A k \in i' + 1 .. index : ~lines[k].marks
              /\ \A k \in i' + 1 .. index - 1 : ~EndsBlock(lines[k])
              /\ depth' = LeftOpen(i')
          BY <2>4, <3>2, <5>1, WalkTurn
        <5>3. LeftOpen(i)' = LeftOpen(i')
          BY <2>1 DEF LeftOpen
        <5>4. i' # 0
          BY <5>2
        <5> QED  BY <2>1, <5>2, <5>3, <5>4 DEF Walked
      <4> QED  BY <2>4, <3>2, <4>1, WalkTurn
    <3> QED  BY <1>3, <3>1, <3>2
  <2> QED  BY <1>1, <2>1, <2>2, <2>3, <2>4 DEF WalkInv
<1> QED  BY <1>2, <1>3 DEF Next

(***************************************************************************)
(* No finding is silenced but by a marker on its own line or in the block  *)
(* above it, whatever the file (is_suppressed).                            *)
(***************************************************************************)
THEOREM SilencedRightly == Spec => []SilencedByItsBlock
<1>1. Init => WalkInv
  BY WalkInit
<1>2. WalkInv /\ [Next]_vars => WalkInv'
  BY WalkNext
<1>3. WalkInv => SilencedByItsBlock
  BY DEF WalkInv, SilencedByItsBlock
<1> QED  BY <1>1, <1>2, <1>3, PTL DEF Spec

(***************************************************************************)
(* And a marker there is never missed: the walk does not give up inside an *)
(* attribute of several lines.                                             *)
(***************************************************************************)
THEOREM MarkerHonoured == Spec => []MarkerIsHonoured
<1>1. Init => WalkInv
  BY WalkInit
<1>2. WalkInv /\ [Next]_vars => WalkInv'
  BY WalkNext
<1>3. WalkInv => MarkerIsHonoured
  BY DEF WalkInv, MarkerIsHonoured
<1> QED  BY <1>1, <1>2, <1>3, PTL DEF Spec

----------------------------------------------------------------------------
(***************************************************************************)
(* Directories and the directories above them.                             *)
(***************************************************************************)
Path == Seq(STRING)

LEMMA PrefixIs ==
  ASSUME NEW s \in Path, NEW t \in Path
  PROVE  IsPrefix(s, t) <=> Len(s) <= Len(t) /\ \A k \in 1 .. Len(s) : s[k] = t[k]
<1>1. CASE Len(s) <= Len(t)
  <2>. DEFINE n == Len(s)
  <2>1. n \in Nat /\ SubSeq(s, 1, n) = s
    BY DEF Path
  <2>2. SubSeq(t, 1, n) \in Path /\ Len(SubSeq(t, 1, n)) = n
    BY <1>1, <2>1 DEF Path
  <2>3. \A k \in 1 .. n : SubSeq(t, 1, n)[k] = t[k]
    BY <1>1, <2>1 DEF Path
  <2>4. (\A k \in 1 .. n : s[k] = t[k]) => s = SubSeq(t, 1, n)
    <3>1. SUFFICES ASSUME \A k \in 1 .. n : s[k] = t[k] PROVE s = SubSeq(t, 1, n)
      OBVIOUS
    <3> QED  BY <2>2, <2>3, <3>1 DEF Path
  <2> QED  BY <1>1, <2>1, <2>3, <2>4 DEF IsPrefix
<1>2. CASE ~(Len(s) <= Len(t))
  BY <1>2 DEF IsPrefix
<1> QED  BY <1>1, <1>2

LEMMA PrefixOfItself ==
  ASSUME NEW s \in Path
  PROVE  IsPrefix(s, s)
BY PrefixIs DEF Path

LEMMA PrefixTrans ==
  ASSUME NEW s \in Path, NEW t \in Path, NEW u \in Path, IsPrefix(s, t), IsPrefix(t, u)
  PROVE  IsPrefix(s, u)
<1>1. /\ Len(s) <= Len(t) /\ \A k \in 1 .. Len(s) : s[k] = t[k]
      /\ Len(t) <= Len(u) /\ \A k \in 1 .. Len(t) : t[k] = u[k]
  BY PrefixIs
<1>2. Len(s) \in Nat /\ Len(t) \in Nat /\ Len(u) \in Nat
  BY DEF Path
<1>3. Len(s) <= Len(u) /\ \A k \in 1 .. Len(s) : k \in 1 .. Len(t)
  BY <1>1, <1>2
<1> QED  BY <1>1, <1>3, PrefixIs

\* Of two directories above a third, the shorter is above the longer.
LEMMA PrefixesNest ==
  ASSUME NEW s \in Path, NEW t \in Path, NEW u \in Path,
         IsPrefix(s, u), IsPrefix(t, u), Len(s) <= Len(t)
  PROVE  IsPrefix(s, t)
<1>1. /\ Len(s) <= Len(u) /\ \A k \in 1 .. Len(s) : s[k] = u[k]
      /\ Len(t) <= Len(u) /\ \A k \in 1 .. Len(t) : t[k] = u[k]
  BY PrefixIs
<1>2. Len(s) \in Nat /\ Len(t) \in Nat /\ Len(u) \in Nat
  BY DEF Path
<1>3. \A k \in 1 .. Len(s) : k \in 1 .. Len(t)
  BY <1>2
<1> QED  BY <1>1, <1>3, PrefixIs

LEMMA PrefixOfConcat ==
  ASSUME NEW s \in Path, NEW t \in Path
  PROVE  s \o t \in Path /\ IsPrefix(s, s \o t) /\ Len(s \o t) = Len(s) + Len(t)
<1>. DEFINE joined == s \o t
<1>1. /\ joined \in Path /\ Len(joined) = Len(s) + Len(t) /\ Len(s) \in Nat /\ Len(t) \in Nat
      /\ \A k \in 1 .. Len(s) : joined[k] = s[k]
  BY DEF Path
<1>2. IsPrefix(s, joined)
  <2>. HIDE DEF joined
  <2>1. Len(s) <= Len(joined)
    BY <1>1
  <2> QED  BY <1>1, <2>1, PrefixIs
<1> QED  BY <1>1, <1>2

LEMMA AppendIs ==
  ASSUME NEW t \in Path, NEW e \in STRING
  PROVE  /\ Append(t, e) \in Path /\ Len(Append(t, e)) = Len(t) + 1
         /\ \A k \in 1 .. Len(t) : Append(t, e)[k] = t[k]
<1>1. Append(t, e) \in Path
  BY AppendProperties DEF Path
<1>2. Len(Append(t, e)) = Len(t) + 1
  BY AppendProperties DEF Path
<1>3. \A k \in 1 .. Len(t) : Append(t, e)[k] = t[k]
  BY AppendProperties DEF Path
<1> QED  BY <1>1, <1>2, <1>3

LEMMA PrefixOfAppend ==
  ASSUME NEW t \in Path, NEW e \in STRING
  PROVE  /\ Append(t, e) \in Path
         /\ IsPrefix(t, Append(t, e))
         /\ Len(Append(t, e)) = Len(t) + 1
         /\ \A s \in Path : IsPrefix(s, Append(t, e)) => IsPrefix(s, t) \/ s = Append(t, e)
<1>. DEFINE longer == Append(t, e)
<1>1. /\ longer \in Path /\ Len(longer) = Len(t) + 1 /\ Len(t) \in Nat
      /\ \A k \in 1 .. Len(t) : longer[k] = t[k]
  <2>1. Len(t) \in Nat
    BY DEF Path
  <2> QED  BY <2>1, AppendIs, Zenon
<1>2. IsPrefix(t, longer)
  <2>. HIDE DEF longer
  <2> QED  BY <1>1, PrefixIs
<1>3. ASSUME NEW s \in Path, IsPrefix(s, longer)
      PROVE  IsPrefix(s, t) \/ s = longer
  <2>. HIDE DEF longer
  <2>1. Len(s) <= Len(longer) /\ \A k \in 1 .. Len(s) : s[k] = longer[k]
    BY <1>1, <1>3, PrefixIs
  <2>2. Len(s) \in Nat
    BY DEF Path
  <2>3. CASE Len(s) = Len(longer)
    <3>1. s = longer
      BY <1>1, <2>1, <2>3 DEF Path
    <3> QED  BY <3>1
  <2>4. CASE Len(s) # Len(longer)
    <3>1. Len(s) <= Len(t)
      BY <1>1, <2>1, <2>2, <2>4
    <3> QED  BY <1>1, <1>2, <1>3, <3>1, PrefixesNest
  <2> QED  BY <2>3, <2>4
<1> QED  BY <1>1, <1>2, <1>3

----------------------------------------------------------------------------
(***************************************************************************)
(* Predicates.  What is defined over the parts of a predicate exists,      *)
(* since going from parts to parts ends.                                   *)
(***************************************************************************)
\* What step makes of a predicate and the values of all depends on its parts' values.
ByParts(step, V) ==
  /\ step \in [Predicate -> [[Predicate -> V] -> V]]
  /\ \A q \in Predicate : \A f, g \in [Predicate -> V] :
       (\A part \in q.parts : f[part] = g[part]) => step[q][f] = step[q][g]

\* f has the values that step makes, on a set of predicates that has their parts.
Valued(f, D, step, V) ==
  /\ D \subseteq Predicate /\ f \in [Predicate -> V]
  /\ \A q \in D : q.parts \subseteq D /\ f[q] = step[q][f]

LEMMA ValuesAgree ==
  ASSUME NEW V, NEW step, ByParts(step, V),
         NEW D, NEW f, Valued(f, D, step, V), NEW E, NEW g, Valued(g, E, step, V)
  PROVE  \A q \in D \cap E : f[q] = g[q]
<1>. DEFINE Bad == {q \in D \cap E : f[q] # g[q]}
<1>1. SUFFICES ASSUME Bad # {} PROVE FALSE
  OBVIOUS
<1>2. Bad \in SUBSET Predicate
  BY DEF Valued
<1>3. PICK q \in Bad : q.parts \cap Bad = {}
  BY <1>1, <1>2, PredicateAssumption
<1>4. \A part \in q.parts : f[part] = g[part]
  BY <1>3 DEF Valued
<1>5. q \in Predicate /\ f \in [Predicate -> V] /\ g \in [Predicate -> V]
  BY <1>2 DEF Valued
<1>6. step[q][f] = step[q][g]
  BY <1>4, <1>5 DEF ByParts
<1>7. f[q] = step[q][f] /\ g[q] = step[q][g]
  BY DEF Valued
<1> QED  BY <1>6, <1>7

LEMMA ValuesExist ==
  ASSUME NEW V, NEW step, V # {}, ByParts(step, V)
  PROVE  \E f \in [Predicate -> V] : \A q \in Predicate : f[q] = step[q][f]
<1>. PICK v \in V : TRUE
  OBVIOUS
<1>. DEFINE All == [Predicate -> V]
            Reached == {q \in Predicate : \E D \in SUBSET Predicate : \E f \in All :
                          q \in D /\ Valued(f, D, step, V)}
            Value(q) == CHOOSE w \in V : \E D \in SUBSET Predicate : \E f \in All :
                          q \in D /\ Valued(f, D, step, V) /\ w = f[q]
            F == [q \in Predicate |-> IF q \in Reached THEN Value(q) ELSE v]
<1>1. ASSUME NEW D \in SUBSET Predicate, NEW f \in All, Valued(f, D, step, V), NEW q \in D
      PROVE  q \in Reached /\ Value(q) = f[q] /\ F[q] = f[q]
  <2>1. q \in Reached /\ q \in Predicate
    BY <1>1
  <2>2. f[q] \in V
    BY <2>1
  <2>3. \E w \in V : \E E \in SUBSET Predicate : \E g \in All :
          q \in E /\ Valued(g, E, step, V) /\ w = g[q]
    BY <1>1, <2>2
  <2>4. PICK E \in SUBSET Predicate, g \in All :
          q \in E /\ Valued(g, E, step, V) /\ Value(q) = g[q]
    BY <2>3
  <2>5. f[q] = g[q]
    BY <1>1, <2>4, ValuesAgree
  <2>. HIDE DEF Reached, Value
  <2> QED  BY <2>1, <2>4, <2>5
<1>2. F \in All
  <2>1. ASSUME NEW q \in Reached
        PROVE  Value(q) \in V
    <3>1. PICK D \in SUBSET Predicate, f \in All : q \in D /\ Valued(f, D, step, V)
      OBVIOUS
    <3>2. Value(q) = f[q] /\ q \in Predicate
      BY <1>1, <3>1
    <3> QED  BY <3>2
  <2>. HIDE DEF Reached, Value
  <2> QED  BY <2>1
<1>3. Valued(F, Reached, step, V)
  <2>1. ASSUME NEW q \in Reached
        PROVE  q.parts \subseteq Reached /\ F[q] = step[q][F]
    <3>1. PICK D \in SUBSET Predicate, f \in All : q \in D /\ Valued(f, D, step, V)
      OBVIOUS
    <3>2. q.parts \subseteq D /\ f[q] = step[q][f] /\ q \in Predicate
      BY <3>1 DEF Valued
    <3>3. \A part \in q.parts : part \in Reached /\ F[part] = f[part]
      <4>1. SUFFICES ASSUME NEW part \in q.parts PROVE part \in Reached /\ F[part] = f[part]
        OBVIOUS
      <4>2. part \in D
        BY <3>2, <4>1
      <4>. HIDE DEF F, Reached
      <4> QED  BY <1>1, <3>1, <4>2
    <3>4. F[q] = f[q]
      BY <1>1, <3>1
    <3>. HIDE DEF F, Reached
    <3>5. step[q][F] = step[q][f]
      BY <1>2, <3>2, <3>3 DEF ByParts
    <3> QED  BY <3>2, <3>3, <3>4, <3>5
  <2>2. Reached \subseteq Predicate
    OBVIOUS
  <2>. HIDE DEF F, Reached
  <2> QED  BY <1>2, <2>1, <2>2 DEF Valued
<1>4. Reached \subseteq Predicate
  OBVIOUS
<1>. HIDE DEF F
<1>5. Predicate \subseteq Reached
  <2>. DEFINE Bad == Predicate \ Reached
  <2>1. SUFFICES ASSUME Bad # {} PROVE FALSE
    OBVIOUS
  <2>2. Bad \in SUBSET Predicate
    OBVIOUS
  <2>3. PICK p \in Bad : p.parts \cap Bad = {}
    BY <2>1, <2>2, PredicateAssumption
  <2>4. p \in Predicate /\ p \notin Reached /\ p.parts \subseteq Reached
    <3>1. p.parts \subseteq Predicate
      BY <2>2, <2>3, PredicateAssumption
    <3> QED  BY <2>2, <2>3, <3>1
  <2>. DEFINE G == [F EXCEPT ![p] = step[p][F]]
  <2>. HIDE DEF Reached, Bad
  <2>5. step[p][F] \in V
    BY <1>2, <2>4 DEF ByParts
  <2>6. G \in All /\ G[p] = step[p][F] /\ \A q \in Reached : G[q] = F[q]
    BY <1>2, <1>4, <2>4, <2>5
  <2>. HIDE DEF G
  <2>7. ASSUME NEW q \in Reached \cup {p}
        PROVE  q.parts \subseteq Reached /\ G[q] = step[q][G]
    <3>1. q \in Predicate /\ q.parts \subseteq Reached
      BY <1>3, <2>4 DEF Valued
    <3>2. \A part \in q.parts : F[part] = G[part]
      BY <2>6, <3>1
    <3>3. step[q][F] = step[q][G]
      BY <1>2, <2>6, <3>1, <3>2 DEF ByParts
    <3>4. G[q] = step[q][F]
      BY <1>3, <2>6 DEF Valued
    <3> QED  BY <3>1, <3>3, <3>4
  <2>8. Valued(G, Reached \cup {p}, step, V)
    BY <1>4, <2>4, <2>6, <2>7 DEF Valued
  <2>9. p \in Reached
    <3>1. Reached \cup {p} \in SUBSET Predicate
      BY <1>4, <2>4
    <3>2. p \in Reached \cup {p}
      OBVIOUS
    <3> QED  BY <1>1, <2>6, <2>8, <3>1, <3>2
  <2> QED  BY <2>4, <2>9
<1> QED  BY <1>2, <1>3, <1>5 DEF Valued

\* The equations of ContainsBareTest and of Holds.
BareIn(q, f) ==
  \/ q.op = "flag" /\ q.flag = "test"
  \/ q.op = "all" /\ \E part \in q.parts : f[part]

TrueIn(q, f, on) ==
  \/ q.op = "flag" /\ q.flag \in on
  \/ q.op = "all" /\ \A part \in q.parts : f[part]
  \/ q.op = "any" /\ \E part \in q.parts : f[part]
  \/ q.op = "not" /\ \A part \in q.parts : ~f[part]

LEMMA ContainsIs ==
  \E f \in [Predicate -> BOOLEAN] :
    /\ \A q \in Predicate : f[q] = BareIn(q, f)
    /\ \A q \in Predicate : ContainsBareTest(q) = f[q]
<1>. DEFINE step == [q \in Predicate |-> [f \in [Predicate -> BOOLEAN] |-> BareIn(q, f)]]
            Equation(f) == f = [q \in Predicate |-> BareIn(q, f)]
<1>1. ByParts(step, BOOLEAN)
  <2>1. \A q \in Predicate : \A f \in [Predicate -> BOOLEAN] : BareIn(q, f) \in BOOLEAN
    BY DEF BareIn
  <2>2. ASSUME NEW q \in Predicate, NEW f \in [Predicate -> BOOLEAN], NEW g \in [Predicate -> BOOLEAN],
               \A part \in q.parts : f[part] = g[part]
        PROVE  BareIn(q, f) = BareIn(q, g)
    BY <2>2 DEF BareIn
  <2>3. step \in [Predicate -> [[Predicate -> BOOLEAN] -> BOOLEAN]]
    BY <2>1
  <2> QED  BY <2>2, <2>3 DEF ByParts
<1>2. PICK c \in [Predicate -> BOOLEAN] : \A q \in Predicate : c[q] = step[q][c]
  <2>. DEFINE V == BOOLEAN
  <2>1. V # {} /\ ByParts(step, V)
    BY <1>1
  <2>. HIDE DEF step, V
  <2>2. \E c \in [Predicate -> V] : \A q \in Predicate : c[q] = step[q][c]
    BY <2>1, ValuesExist
  <2> QED  BY <2>2 DEF V
<1>3. \A q \in Predicate : c[q] = BareIn(q, c)
  BY <1>2
<1>4. Equation(c)
  BY <1>3
<1>. DEFINE d == CHOOSE f : Equation(f)
<1>5. Equation(d)
  BY <1>4
<1>6. \A q : ContainsBareTest(q) = d[q]
  BY DEF ContainsBareTest, BareIn
<1>. HIDE DEF d
<1>7. \A q \in Predicate : d[q] = BareIn(q, d)
  BY <1>5
<1>8. \A q \in Predicate : BareIn(q, d) \in BOOLEAN
  BY DEF BareIn
<1>9. d \in [Predicate -> BOOLEAN]
  BY <1>5, <1>8
<1> QED  BY <1>6, <1>7, <1>9

LEMMA HoldsIs ==
  ASSUME NEW on
  PROVE  \E f \in [Predicate -> BOOLEAN] :
           /\ \A q \in Predicate : f[q] = TrueIn(q, f, on)
           /\ \A q \in Predicate : Holds(q, on) = f[q]
<1>. DEFINE step == [q \in Predicate |-> [f \in [Predicate -> BOOLEAN] |-> TrueIn(q, f, on)]]
            Equation(f) == f = [q \in Predicate |-> TrueIn(q, f, on)]
<1>1. ByParts(step, BOOLEAN)
  <2>1. \A q \in Predicate : \A f \in [Predicate -> BOOLEAN] : TrueIn(q, f, on) \in BOOLEAN
    BY DEF TrueIn
  <2>2. ASSUME NEW q \in Predicate, NEW f \in [Predicate -> BOOLEAN], NEW g \in [Predicate -> BOOLEAN],
               \A part \in q.parts : f[part] = g[part]
        PROVE  TrueIn(q, f, on) = TrueIn(q, g, on)
    BY <2>2 DEF TrueIn
  <2>3. step \in [Predicate -> [[Predicate -> BOOLEAN] -> BOOLEAN]]
    BY <2>1
  <2> QED  BY <2>2, <2>3 DEF ByParts
<1>2. PICK c \in [Predicate -> BOOLEAN] : \A q \in Predicate : c[q] = step[q][c]
  <2>. DEFINE V == BOOLEAN
  <2>1. V # {} /\ ByParts(step, V)
    BY <1>1
  <2>. HIDE DEF step, V
  <2>2. \E c \in [Predicate -> V] : \A q \in Predicate : c[q] = step[q][c]
    BY <2>1, ValuesExist
  <2> QED  BY <2>2 DEF V
<1>3. \A q \in Predicate : c[q] = TrueIn(q, c, on)
  BY <1>2
<1>4. Equation(c)
  BY <1>3
<1>. DEFINE d == CHOOSE f : Equation(f)
<1>5. Equation(d)
  BY <1>4
<1>6. \A q : Holds(q, on) = d[q]
  BY DEF Holds, TrueIn
<1>. HIDE DEF d
<1>7. \A q \in Predicate : d[q] = TrueIn(q, d, on)
  BY <1>5
<1>8. \A q \in Predicate : TrueIn(q, d, on) \in BOOLEAN
  BY DEF TrueIn
<1>9. d \in [Predicate -> BOOLEAN]
  BY <1>5, <1>8
<1> QED  BY <1>6, <1>7, <1>9

(***************************************************************************)
(* What meta_contains_bare_test takes for a test is true in no build       *)
(* without `test`.                                                         *)
(***************************************************************************)
THEOREM BareTestNeedsTest ==
  ASSUME NEW on, "test" \notin on, NEW p \in Predicate, ContainsBareTest(p)
  PROVE  ~Holds(p, on)
<1>1. PICK c \in [Predicate -> BOOLEAN] :
        /\ \A q \in Predicate : c[q] = BareIn(q, c)
        /\ \A q \in Predicate : ContainsBareTest(q) = c[q]
  BY ContainsIs
<1>2. PICK h \in [Predicate -> BOOLEAN] :
        /\ \A q \in Predicate : h[q] = TrueIn(q, h, on)
        /\ \A q \in Predicate : Holds(q, on) = h[q]
  BY HoldsIs
<1>. DEFINE Bad == {q \in Predicate : c[q] /\ h[q]}
<1>3. SUFFICES ASSUME Bad # {} PROVE FALSE
  BY <1>1, <1>2
<1>4. PICK q \in Bad : q.parts \cap Bad = {}
  <2>1. Bad \in SUBSET Predicate
    OBVIOUS
  <2> QED  BY <1>3, <2>1, PredicateAssumption
<1>5. q \in Predicate /\ BareIn(q, c) /\ TrueIn(q, h, on)
  BY <1>1, <1>2, <1>4
<1>6. q.op = "all"
  BY <1>5 DEF BareIn, TrueIn
<1>7. PICK part \in q.parts : c[part]
  BY <1>5, <1>6 DEF BareIn
<1>8. h[part]
  BY <1>5, <1>6 DEF TrueIn
<1>9. part \in Predicate
  BY <1>5, <1>7, PredicateAssumption
<1> QED  BY <1>4, <1>7, <1>8, <1>9

LEMMA CfgTestNeedsTest ==
  ASSUME NEW on, "test" \notin on, NEW cfg \in SUBSET Predicate, IsCfgTest(cfg)
  PROVE  ~AllHold(cfg, on)
BY BareTestNeedsTest DEF IsCfgTest, AllHold

----------------------------------------------------------------------------
(***************************************************************************)
(* The walk over modules.                                                  *)
(***************************************************************************)
LEMMA FilesAreFinite == IsFiniteSet(File) /\ Cardinality(File) \in Nat
<1>1. Order \in Seq(File) /\ \A f \in File : \E j \in 1 .. Len(Order) : f = Order[j]
  BY FileAssumption
<1>2. Len(Order) \in Nat /\ IsFiniteSet(1 .. Len(Order))
  BY <1>1, FS_Interval
<1>. DEFINE order == [j \in 1 .. Len(Order) |-> Order[j]]
<1>3. order \in Surjection(1 .. Len(Order), File)
  <2>1. order \in [1 .. Len(Order) -> File]
    BY <1>1
  <2>2. \A f \in File : \E j \in 1 .. Len(Order) : order[j] = f
    BY <1>1
  <2> QED  BY <2>1, <2>2 DEF Surjection
<1>4. IsFiniteSet(File)
  BY <1>2, <1>3, FS_Surjection
<1> QED  BY <1>4, FS_CardinalityType

(***************************************************************************)
(* What holds of the files the walk begins with and goes on from a file to *)
(* those it brings in holds of all that it finds.                          *)
(***************************************************************************)
LEMMA ModulesWithin ==
  ASSUME NEW S, NEW brings, NEW Good, S \subseteq Good, \A f \in Good : brings[f] \subseteq Good
  PROVE  Modules(S, brings) \subseteq Good
<1>. DEFINE n == Cardinality(File)
            Step(X) == X \cup UNION {brings[f] : f \in X}
            step == [k \in 1 .. n |-> [X \in SUBSET Good |-> Step(X)]]
            Equation(g) == g = [k \in 0 .. n |-> IF k = 0 THEN S ELSE Step(g[k - 1])]
<1>1. n \in Nat
  BY FilesAreFinite
<1>2. \A X \in SUBSET Good : Step(X) \in SUBSET Good
  OBVIOUS
<1>. HIDE DEF Step, n
<1>3. PICK c \in [0 .. n -> SUBSET Good] : Counts(c, n, S, step)
  <2>1. step \in [1 .. n -> [SUBSET Good -> SUBSET Good]]
    BY <1>2
  <2>2. S \in SUBSET Good
    OBVIOUS
  <2>. HIDE DEF step
  <2> QED  BY <1>1, <2>1, <2>2, CountExists
<1>4. Equation(c)
  <2>1. ASSUME NEW k \in 0 .. n
        PROVE  c[k] = IF k = 0 THEN S ELSE Step(c[k - 1])
    <3>1. CASE k = 0
      BY <1>3, <3>1 DEF Counts
    <3>2. CASE k # 0
      <4>1. k \in 1 .. n /\ k - 1 \in 0 .. n
        BY <1>1, <3>2
      <4>2. c[k - 1] \in SUBSET Good
        BY <1>3, <4>1
      <4> QED  BY <1>3, <3>2, <4>1, <4>2 DEF Counts
    <3> QED  BY <3>1, <3>2
  <2> QED  BY <1>3, <2>1
<1>. DEFINE g == CHOOSE d : Equation(d)
<1>5. Equation(g)
  BY <1>4
<1>6. Modules(S, brings) = g[n]
  BY DEF Modules, Step, n
<1>. HIDE DEF g
<1>. DEFINE Bad == {k \in 0 .. n : ~(g[k] \subseteq Good)}
<1>7. SUFFICES ASSUME Bad # {} PROVE FALSE
  <2>1. n \in 0 .. n
    BY <1>1
  <2> QED  BY <1>6, <1>7, <2>1
<1>8. PICK k \in Bad : \A x \in Bad : k <= x
  <2>1. Bad \subseteq Nat
    OBVIOUS
  <2> QED  BY <1>7, <2>1, LeastNumber
<1>9. k # 0
  <2>1. 0 \in 0 .. n
    BY <1>1
  <2>2. g[0] = S
    BY <1>5, <2>1
  <2> QED  BY <1>8, <2>2
<1>10. k \in 0 .. n /\ k - 1 \in 0 .. n /\ g[k - 1] \in SUBSET Good
  BY <1>1, <1>8, <1>9
<1>11. g[k] = Step(g[k - 1])
  BY <1>5, <1>9, <1>10
<1> QED  BY <1>2, <1>8, <1>10, <1>11

----------------------------------------------------------------------------
(***************************************************************************)
(* The crate of a file is the nearest directory above it with a manifest.  *)
(***************************************************************************)
LEMMA CrateRootIs ==
  ASSUME NEW f \in File, HasCrate(f)
  PROVE  /\ CrateRoot(f) \in Crates /\ IsPrefix(CrateRoot(f), f.dir)
         /\ \A d \in Crates : IsPrefix(d, f.dir) => IsPrefix(d, CrateRoot(f))
<1>1. f.dir \in Path /\ Crates \subseteq Path
  BY FileAssumption DEF Path
<1>. DEFINE Above == {d \in Crates : IsPrefix(d, f.dir)}
            Far == {Len(f.dir) - Len(d) : d \in Above}
<1>2. \A d \in Above : Len(d) \in Nat /\ Len(f.dir) \in Nat /\ Len(d) <= Len(f.dir)
  <2>1. \A d \in Above : d \in Path /\ IsPrefix(d, f.dir)
    BY <1>1
  <2> QED  BY <1>1, <2>1, PrefixIs DEF Path
<1>3. PICK far \in Far : \A other \in Far : far <= other
  <2>1. Far \subseteq Nat
    BY <1>2
  <2>2. Far # {}
    BY DEF HasCrate
  <2>. HIDE DEF Far
  <2> QED  BY <2>1, <2>2, LeastNumber
<1>4. PICK d \in Above : far = Len(f.dir) - Len(d)
  BY <1>3
<1>5. \A e \in Above : Len(e) <= Len(d)
  <2>1. SUFFICES ASSUME NEW e \in Above PROVE Len(e) <= Len(d)
    OBVIOUS
  <2>2. Len(f.dir) - Len(d) <= Len(f.dir) - Len(e)
    BY <1>3, <1>4
  <2> QED  BY <1>2, <2>2
<1>6. \A e \in Crates : IsPrefix(e, f.dir) => IsPrefix(e, d)
  BY <1>1, <1>5, PrefixesNest
<1>7. d \in Crates /\ IsPrefix(d, f.dir)
  OBVIOUS
<1> QED  BY <1>6, <1>7, Zenon DEF CrateRoot

LEMMA PrefixEq ==
  ASSUME NEW s \in Path, NEW t \in Path, IsPrefix(s, t), IsPrefix(t, s)
  PROVE  s = t
<1>1. Len(s) \in Nat /\ Len(t) \in Nat
  BY DEF Path
<1>2. Len(s) = Len(t) /\ \A k \in 1 .. Len(s) : s[k] = t[k]
  BY <1>1, PrefixIs
<1> QED  BY <1>2 DEF Path

(***************************************************************************)
(* A file below another with no manifest between is in the same crate.     *)
(***************************************************************************)
LEMMA SameCrate ==
  ASSUME NEW f \in File, NEW g \in File, IsPrefix(f.dir, g.dir),
         \A d \in Crates : IsPrefix(d, g.dir) => Len(d) <= Len(f.dir)
  PROVE  /\ HasCrate(g) <=> HasCrate(f)
         /\ HasCrate(g) => CrateRoot(g) = CrateRoot(f)
<1>1. f.dir \in Path /\ g.dir \in Path /\ Crates \subseteq Path
  BY FileAssumption DEF Path
<1>2. \A d \in Crates : IsPrefix(d, g.dir) <=> IsPrefix(d, f.dir)
  <2>1. SUFFICES ASSUME NEW d \in Crates PROVE IsPrefix(d, g.dir) <=> IsPrefix(d, f.dir)
    OBVIOUS
  <2>2. d \in Path
    BY <1>1
  <2>3. IsPrefix(d, f.dir) => IsPrefix(d, g.dir)
    BY <1>1, <2>2, PrefixTrans
  <2>4. IsPrefix(d, g.dir) => IsPrefix(d, f.dir)
    BY <1>1, <2>2, PrefixesNest
  <2> QED  BY <2>3, <2>4
<1>3. HasCrate(g) <=> HasCrate(f)
  BY <1>2 DEF HasCrate
<1>4. ASSUME HasCrate(g)
      PROVE  CrateRoot(g) = CrateRoot(f)
  <2>1. /\ CrateRoot(f) \in Crates /\ IsPrefix(CrateRoot(f), f.dir)
        /\ \A d \in Crates : IsPrefix(d, f.dir) => IsPrefix(d, CrateRoot(f))
    BY <1>3, <1>4, CrateRootIs
  <2>2. /\ CrateRoot(g) \in Crates /\ IsPrefix(CrateRoot(g), g.dir)
        /\ \A d \in Crates : IsPrefix(d, g.dir) => IsPrefix(d, CrateRoot(g))
    BY <1>4, CrateRootIs
  <2>3. IsPrefix(CrateRoot(f), CrateRoot(g)) /\ IsPrefix(CrateRoot(g), CrateRoot(f))
    BY <1>2, <2>1, <2>2
  <2> QED  BY <1>1, <2>1, <2>2, <2>3, PrefixEq
<1> QED  BY <1>3, <1>4

----------------------------------------------------------------------------
(***************************************************************************)
(* Modules and the files they stand in.                                    *)
(***************************************************************************)
LEMMA FileTyped ==
  ASSUME NEW f \in Files
  PROVE  /\ f \in File /\ f.dir \in Path /\ f.stem \in STRING
         /\ f = [dir |-> f.dir, stem |-> f.stem]
BY FileAssumption DEF Files, IsFile, Path

LEMMA ModTyped ==
  ASSUME tree \in Trees, NEW f \in Files, NEW m \in tree[f].mods
  PROVE  /\ m.name \in STRING /\ m.name # "mod" /\ m.cfg \in SUBSET Predicate
         /\ m.within \in Chain
<1>1. tree[f] \in Content
  BY TreeAssumption DEF Files, IsFile
<1>2. m \in Mod
  BY <1>1 DEF Content
<1> QED  BY <1>2 DEF Mod

LEMMA ModulePathIs ==
  ASSUME tree \in Trees, NEW f \in Files, NEW m \in tree[f].mods
  PROVE  /\ Own(f) \in Path /\ IsPrefix(f.dir, Own(f)) /\ Own(f) \in {f.dir, Append(f.dir, f.stem)}
         /\ Inside(f, m) \in Path /\ IsPrefix(Own(f), Inside(f, m))
         /\ ModulePath(f, m) \in Path /\ IsPrefix(Inside(f, m), ModulePath(f, m))
         /\ m.within = <<>> => Inside(f, m) = Own(f)
<1>1. f.dir \in Path /\ f.stem \in STRING
  BY FileTyped
<1>2. /\ Append(f.dir, f.stem) \in Path /\ IsPrefix(f.dir, Append(f.dir, f.stem))
      /\ IsPrefix(f.dir, f.dir)
  BY <1>1, PrefixOfAppend, PrefixOfItself
<1>3. Own(f) \in Path /\ IsPrefix(f.dir, Own(f)) /\ Own(f) \in {f.dir, Append(f.dir, f.stem)}
  BY <1>1, <1>2 DEF Own
<1>4. m.within \in Chain /\ m.name \in STRING
  BY ModTyped
<1>. DEFINE names == [j \in DOMAIN m.within |-> m.within[j].name]
<1>5. names \in Path
  <2>1. /\ m.within \in Seq([name : STRING, cfg : SUBSET Predicate]) /\ Len(m.within) \in Nat
        /\ DOMAIN m.within = 1 .. Len(m.within)
    BY <1>4 DEF Chain
  <2>2. \A j \in 1 .. Len(m.within) : m.within[j] \in [name : STRING, cfg : SUBSET Predicate]
    BY <2>1, ElementOfSeq
  <2>3. \A j \in 1 .. Len(m.within) : m.within[j].name \in STRING
    BY <2>2
  <2>4. names \in [1 .. Len(m.within) -> STRING]
    BY <2>1, <2>3
  <2> QED  BY <2>1, <2>4 DEF Path
<1>6. Inside(f, m) = Own(f) \o names
  BY DEF Inside
<1>7. Inside(f, m) \in Path /\ IsPrefix(Own(f), Inside(f, m))
  <2>. HIDE DEF names
  <2> QED  BY <1>3, <1>5, <1>6, PrefixOfConcat
<1>8. m.within = <<>> => Inside(f, m) = Own(f)
  <2>1. SUFFICES ASSUME m.within = <<>> PROVE Own(f) \o names = Own(f)
    BY <1>6
  <2>2. names = <<>>
    BY <2>1
  <2> QED  BY <1>3, <2>2, ConcatEmptySeq DEF Path
<1>9. ModulePath(f, m) \in Path /\ IsPrefix(Inside(f, m), ModulePath(f, m))
  BY <1>4, <1>7, PrefixOfAppend DEF ModulePath
<1> QED  BY <1>3, <1>7, <1>8, <1>9

LEMMA ResolvedIs ==
  ASSUME tree \in Trees, NEW f \in Files, NEW m \in tree[f].mods, m.path = None,
         NEW g \in Resolved(f, m)
  PROVE  /\ g \in Files /\ IsPrefix(Own(f), g.dir) /\ IsPrefix(g.dir, ModulePath(f, m))
         /\ IsPrefix(f.dir, g.dir)
         /\ g \in {Named(Inside(f, m), m.name), ModFile(Inside(f, m), m.name)}
         /\ \A d \in Path : IsPrefix(d, Append(g.dir, g.stem)) =>
              IsPrefix(d, ModulePath(f, m)) \/ d = Append(ModulePath(f, m), "mod")
<1>1. g \in Files /\ g \in {Named(Inside(f, m), m.name), ModFile(Inside(f, m), m.name)}
  BY DEF Resolved
<1>2. /\ Own(f) \in Path /\ IsPrefix(f.dir, Own(f))
      /\ Inside(f, m) \in Path /\ IsPrefix(Own(f), Inside(f, m))
      /\ ModulePath(f, m) \in Path /\ IsPrefix(Inside(f, m), ModulePath(f, m))
  BY ModulePathIs
<1>3. m.name \in STRING /\ ModulePath(f, m) = Append(Inside(f, m), m.name) /\ f.dir \in Path
  BY ModTyped, FileTyped DEF ModulePath
<1>4. IsPrefix(Own(f), ModulePath(f, m)) /\ IsPrefix(ModulePath(f, m), ModulePath(f, m))
  <2>1. IsPrefix(Own(f), ModulePath(f, m))
    BY <1>2, PrefixTrans
  <2> QED  BY <1>2, <2>1, PrefixOfItself
<1>5. CASE g = Named(Inside(f, m), m.name)
  <2>1. g.dir = Inside(f, m) /\ Append(g.dir, g.stem) = ModulePath(f, m)
    BY <1>3, <1>5 DEF Named
  <2>2. IsPrefix(f.dir, g.dir)
    BY <1>2, <1>3, <2>1, PrefixTrans
  <2> QED  BY <1>1, <1>2, <2>1, <2>2
<1>6. CASE g = ModFile(Inside(f, m), m.name)
  <2>1. g.dir = ModulePath(f, m) /\ Append(g.dir, g.stem) = Append(ModulePath(f, m), "mod")
    BY <1>3, <1>6 DEF ModFile
  <2>2. IsPrefix(f.dir, g.dir)
    BY <1>2, <1>3, <1>4, <2>1, PrefixTrans
  <2>3. \A d \in Path : IsPrefix(d, Append(ModulePath(f, m), "mod")) =>
              IsPrefix(d, ModulePath(f, m)) \/ d = Append(ModulePath(f, m), "mod")
    <3>1. g.stem \in STRING /\ g.stem = "mod"
      BY <1>1, <1>6, FileTyped DEF ModFile
    <3>2. \A d \in Path : IsPrefix(d, Append(ModulePath(f, m), g.stem)) =>
            IsPrefix(d, ModulePath(f, m)) \/ d = Append(ModulePath(f, m), g.stem)
      BY <1>2, <3>1, PrefixOfAppend
    <3> QED  BY <3>1, <3>2
  <2> QED  BY <1>1, <1>4, <2>1, <2>2, <2>3
<1> QED  BY <1>1, <1>5, <1>6

(***************************************************************************)
(* With no manifest between, a module's file is of the crate of the file   *)
(* that declares it, and below tests/ and benches/ with it.                *)
(***************************************************************************)
LEMMA CrateInherited ==
  ASSUME tree \in Trees, NoManifestBetween,
         NEW f \in Files, NEW m \in tree[f].mods, m.path = None, NEW g \in Resolved(f, m)
  PROVE  /\ IsM2(f) => IsM2(g)
         /\ IsM1(f) => IsM1(g)
         /\ IsM1(g) => \/ IsM1(f)
                       \/ f.dir \in Crates /\ ModulePath(f, m)[Len(f.dir) + 1] \in {"tests", "benches"}
<1>1. /\ g \in Files /\ IsPrefix(g.dir, ModulePath(f, m)) /\ IsPrefix(f.dir, g.dir)
      /\ ModulePath(f, m) \in Path
  BY ResolvedIs, ModulePathIs
<1>2. f \in File /\ g \in File /\ f.dir \in Path /\ g.dir \in Path /\ Crates \subseteq Path
  BY <1>1, FileTyped, FileAssumption DEF Path
<1>3. \A d \in Crates : IsPrefix(d, g.dir) => Len(d) <= Len(f.dir)
  <2>1. SUFFICES ASSUME NEW d \in Crates, IsPrefix(d, g.dir) PROVE Len(d) <= Len(f.dir)
    OBVIOUS
  <2>2. IsPrefix(d, ModulePath(f, m))
    BY <1>1, <1>2, <2>1, PrefixTrans
  <2> QED  BY <2>2 DEF NoManifestBetween
<1>4. /\ HasCrate(g) <=> HasCrate(f)
      /\ HasCrate(g) => CrateRoot(g) = CrateRoot(f)
  BY <1>1, <1>2, <1>3, SameCrate
<1>5. IsM2(f) => IsM2(g)
  BY <1>4 DEF IsM2
<1>6. /\ Len(f.dir) <= Len(g.dir) /\ \A k \in 1 .. Len(f.dir) : f.dir[k] = g.dir[k]
      /\ Len(g.dir) <= Len(ModulePath(f, m)) /\ \A k \in 1 .. Len(g.dir) : g.dir[k] = ModulePath(f, m)[k]
      /\ Len(f.dir) \in Nat /\ Len(g.dir) \in Nat
  BY <1>1, <1>2, PrefixIs DEF Path
<1>7. ASSUME HasCrate(f)
      PROVE  /\ IsM1(f) => IsM1(g)
             /\ IsM1(g) => \/ IsM1(f)
                           \/ f.dir \in Crates /\ ModulePath(f, m)[Len(f.dir) + 1] \in {"tests", "benches"}
  <2>. DEFINE c == CrateRoot(f)
  <2>1. c \in Crates /\ IsPrefix(c, f.dir) /\ CrateRoot(g) = c
    BY <1>2, <1>4, <1>7, CrateRootIs
  <2>. HIDE DEF c
  <2>2. /\ Len(c) <= Len(f.dir) /\ \A k \in 1 .. Len(c) : c[k] = f.dir[k]
        /\ Len(c) \in Nat
    BY <1>2, <2>1, PrefixIs DEF Path
  <2>3. CASE Len(f.dir) > Len(c)
    <3>1. Len(c) + 1 \in 1 .. Len(f.dir) /\ Len(g.dir) > Len(c)
      BY <1>6, <2>2, <2>3
    <3>2. f.dir[Len(c) + 1] = g.dir[Len(c) + 1]
      BY <1>6, <3>1
    <3>3. IsM1(f) <=> f.dir[Len(c) + 1] \in {"tests", "benches"}
      BY <1>7, <2>3 DEF IsM1, c
    <3>4. IsM1(g) <=> g.dir[Len(c) + 1] \in {"tests", "benches"}
      BY <1>4, <1>7, <2>1, <3>1 DEF IsM1
    <3> QED  BY <3>2, <3>3, <3>4
  <2>4. CASE ~(Len(f.dir) > Len(c))
    <3>1. Len(f.dir) = Len(c)
      BY <1>6, <2>2, <2>4
    <3>2. f.dir = c
      BY <1>2, <2>1, <2>2, <3>1 DEF Path
    <3>3. ~IsM1(f)
      BY <2>4 DEF IsM1, c
    <3>4. ASSUME IsM1(g)
          PROVE  ModulePath(f, m)[Len(f.dir) + 1] \in {"tests", "benches"}
      <4>1. Len(g.dir) > Len(f.dir) /\ g.dir[Len(f.dir) + 1] \in {"tests", "benches"}
        BY <2>1, <3>2, <3>4 DEF IsM1
      <4>2. Len(f.dir) + 1 \in 1 .. Len(g.dir)
        BY <1>6, <4>1
      <4> QED  BY <1>6, <4>1, <4>2
    <3> QED  BY <2>1, <3>2, <3>3, <3>4
  <2> QED  BY <2>3, <2>4
<1>8. CASE ~HasCrate(f)
  BY <1>4, <1>8 DEF IsM1, IsM2
<1> QED  BY <1>5, <1>7, <1>8

----------------------------------------------------------------------------
(***************************************************************************)
(* Where test modules are looked for.                                      *)
(***************************************************************************)
LEMMA SearchDirTyped ==
  ASSUME NEW f \in Files
  PROVE  ModSearchDir(f) \in Path
BY FileTyped, PrefixOfAppend DEF ModSearchDir

LEMMA TestPlacesTyped ==
  ASSUME tree \in Trees, NEW d \in TestPlaces
  PROVE  d \in Path /\ \A p \in Path : Append(p, "mod") # d
<1>1. PICK f \in Files : \E m \in tree[f].mods : d = Append(ModSearchDir(f), m.name)
  BY DEF TestPlaces
<1>2. PICK m \in tree[f].mods : d = Append(ModSearchDir(f), m.name)
  BY <1>1
<1>3. m.name \in STRING /\ m.name # "mod" /\ ModSearchDir(f) \in Path
  BY <1>2, ModTyped, SearchDirTyped
<1>4. d \in Path
  BY <1>2, <1>3, PrefixOfAppend
<1>5. ASSUME NEW p \in Path, Append(p, "mod") = d
      PROVE  FALSE
  <2>1. Len(p) \in Nat /\ Len(ModSearchDir(f)) \in Nat
    BY <1>3 DEF Path
  <2>2. d[Len(ModSearchDir(f)) + 1] = m.name /\ Len(d) = Len(ModSearchDir(f)) + 1
    BY <1>2, <1>3, <2>1 DEF Path
  <2>3. d[Len(p) + 1] = "mod" /\ Len(d) = Len(p) + 1
    BY <1>5, <2>1 DEF Path
  <2> QED  BY <1>3, <2>1, <2>2, <2>3
<1> QED  BY <1>4, <1>5

\* A module that the code takes for a test never ships.
LEMMA TestNeverShips ==
  ASSUME tree \in Trees, NEW f \in Files, NEW m \in tree[f].mods, IsCfgTest(m.cfg)
  PROVE  ~Ships(m)
<1>1. m.cfg \in SUBSET Predicate
  BY ModTyped
<1>2. ASSUME NEW on \in SUBSET (Flag \ {"test"})
      PROVE  ~AllHold(m.cfg, on)
  BY <1>1, CfgTestNeedsTest
<1> QED  BY <1>2 DEF Ships

\* What collect_cfg_test_mods finds is a module declared for tests, with what is below it.
LEMMA TargetsAre ==
  ASSUME NEW g \in Targets
  PROVE  \E f \in Files : \E m \in tree[f].mods :
           /\ m.within = <<>> /\ IsCfgTest(m.cfg)
           /\ g \in {Named(ModSearchDir(f), m.name), ModFile(ModSearchDir(f), m.name)}
                      \cup Below(Append(ModSearchDir(f), m.name))
           /\ g \in Files
<1>1. PICK f \in Files : g \in TestTargets(f)
  BY DEF Targets
<1>2. PICK m \in tree[f].mods :
        /\ m.within = <<>> /\ IsCfgTest(m.cfg)
        /\ g \in ({Named(ModSearchDir(f), m.name), ModFile(ModSearchDir(f), m.name)} \cap Files)
                   \cup Below(Append(ModSearchDir(f), m.name))
  BY <1>1 DEF TestTargets
<1> QED  BY <1>2 DEF Below

LEMMA TargetsAtTestPlaces ==
  ASSUME tree \in Trees, NEW g \in Targets
  PROVE  AtTestPlace(g)
<1>1. PICK f \in Files : \E m \in tree[f].mods :
        /\ m.within = <<>> /\ IsCfgTest(m.cfg)
        /\ g \in {Named(ModSearchDir(f), m.name), ModFile(ModSearchDir(f), m.name)}
                   \cup Below(Append(ModSearchDir(f), m.name))
        /\ g \in Files
  BY TargetsAre
<1>2. PICK m \in tree[f].mods :
        /\ m.within = <<>> /\ IsCfgTest(m.cfg)
        /\ g \in {Named(ModSearchDir(f), m.name), ModFile(ModSearchDir(f), m.name)}
                   \cup Below(Append(ModSearchDir(f), m.name))
        /\ g \in Files
  BY <1>1
<1>. DEFINE d == Append(ModSearchDir(f), m.name)
<1>3. d \in TestPlaces
  BY <1>2, TestNeverShips DEF TestPlaces
<1>4. d \in Path /\ g.dir \in Path /\ g.stem \in STRING
  BY <1>2, <1>3, TestPlacesTyped, FileTyped
<1>. HIDE DEF d
<1>5. Append(g.dir, g.stem) = d \/ IsPrefix(d, g.dir)
  <2>1. CASE g = Named(ModSearchDir(f), m.name)
    BY <2>1 DEF Named, d
  <2>2. CASE g = ModFile(ModSearchDir(f), m.name)
    <3>1. g.dir = d
      BY <2>2 DEF ModFile, d
    <3> QED  BY <1>4, <3>1, PrefixOfItself
  <2>3. CASE g \in Below(d)
    BY <2>3 DEF Below
  <2> QED  BY <1>2, <2>1, <2>2, <2>3 DEF d
<1>6. IsPrefix(d, Append(g.dir, g.stem))
  <2>1. CASE Append(g.dir, g.stem) = d
    BY <1>4, <2>1, PrefixOfItself
  <2>2. CASE IsPrefix(d, g.dir)
    <3>1. Append(g.dir, g.stem) \in Path /\ IsPrefix(g.dir, Append(g.dir, g.stem))
      BY <1>4, PrefixOfAppend
    <3> QED  BY <1>4, <2>2, <3>1, PrefixTrans
  <2> QED  BY <1>5, <2>1, <2>2
<1> QED  BY <1>3, <1>6 DEF AtTestPlace

(***************************************************************************)
(* Beside no test, a module of code stands beside no test.                 *)
(***************************************************************************)
LEMMA PlaceInherited ==
  ASSUME tree \in Trees, ModulesApart,
         NEW f \in Files, NEW m \in tree[f].mods, m.path = None, Ships(m),
         NEW g \in Resolved(f, m), AtTestPlace(g)
  PROVE  AtTestPlace(f)
<1>1. PICK d \in TestPlaces : IsPrefix(d, Append(g.dir, g.stem))
  BY DEF AtTestPlace
<1>2. d \in Path /\ \A p \in Path : Append(p, "mod") # d
  BY TestPlacesTyped
<1>3. /\ Own(f) \in Path /\ Own(f) \in {f.dir, Append(f.dir, f.stem)}
      /\ Inside(f, m) \in Path /\ IsPrefix(Own(f), Inside(f, m))
      /\ ModulePath(f, m) \in Path /\ IsPrefix(Inside(f, m), ModulePath(f, m))
  BY ModulePathIs
<1>4. IsPrefix(d, ModulePath(f, m))
  BY <1>1, <1>2, <1>3, ResolvedIs
<1>5. Len(d) <= Len(Own(f))
  BY <1>4 DEF ModulesApart
<1>6. IsPrefix(Own(f), ModulePath(f, m))
  BY <1>3, PrefixTrans
<1>7. IsPrefix(d, Own(f))
  BY <1>2, <1>3, <1>4, <1>5, <1>6, PrefixesNest
<1>8. IsPrefix(d, Append(f.dir, f.stem))
  <2>1. f.dir \in Path /\ f.stem \in STRING
    BY FileTyped
  <2>2. Append(f.dir, f.stem) \in Path /\ IsPrefix(f.dir, Append(f.dir, f.stem))
    BY <2>1, PrefixOfAppend
  <2>3. CASE Own(f) = f.dir
    BY <1>2, <1>7, <2>1, <2>2, <2>3, PrefixTrans
  <2> QED  BY <1>3, <1>7, <2>3
<1> QED  BY <1>8 DEF AtTestPlace

----------------------------------------------------------------------------
(***************************************************************************)
(* What a build without `test` compiles is no test to the code.            *)
(***************************************************************************)
LEMMA CompiledAreFiles ==
  ASSUME NEW on
  PROVE  Compiled(on) \subseteq Files
<1>. DEFINE compiled(f) == {m \in tree[f].mods : AllHold(m.cfg, on) /\ ChainHolds(m.within, on)}
            S == {f \in CrateRoots \cap Files : f \in TestRoots => "test" \in on}
            brings == [f \in Files |-> UNION {Resolved(f, m) : m \in compiled(f)}]
<1>1. Compiled(on) = Modules(S, brings)
  BY DEF Compiled
<1>2. S \subseteq Files
  OBVIOUS
<1>3. \A f \in Files : brings[f] \subseteq Files
  BY DEF Resolved
<1>. HIDE DEF S, brings
<1> QED  BY <1>1, <1>2, <1>3, ModulesWithin

LEMMA CompiledAreCode ==
  ASSUME tree \in Trees,
         NoManifestBetween, RootsApart, ModulesApart, NoneCalledTests, PathsToCode,
         NEW on \in SUBSET (Flag \ {"test"})
  PROVE  Compiled(on) \subseteq {f \in Files : ~IsM1(f) /\ ~AtTestPlace(f)}
<1>. DEFINE compiled(f) == {m \in tree[f].mods : AllHold(m.cfg, on) /\ ChainHolds(m.within, on)}
            S == {f \in CrateRoots \cap Files : f \in TestRoots => "test" \in on}
            brings == [f \in Files |-> UNION {Resolved(f, m) : m \in compiled(f)}]
            Good == {f \in Files : ~IsM1(f) /\ ~AtTestPlace(f)}
<1>1. Compiled(on) = Modules(S, brings)
  BY DEF Compiled
<1>2. S \subseteq Good
  BY DEF RootsApart
<1>3. ASSUME NEW f \in Good, NEW g \in brings[f]
      PROVE  g \in Good
  <2>1. f \in Files /\ ~IsM1(f) /\ ~AtTestPlace(f)
    BY <1>3
  <2>2. PICK m \in tree[f].mods : AllHold(m.cfg, on) /\ ChainHolds(m.within, on) /\ g \in Resolved(f, m)
    BY <1>3, <2>1
  <2>3. Ships(m)
    BY <2>2 DEF Ships
  <2>4. g \in Files
    BY <2>2 DEF Resolved
  <2>5. CASE m.path = None
    <3>1. ~AtTestPlace(g)
      BY <2>1, <2>2, <2>3, <2>5, PlaceInherited
    <3>2. ~IsM1(g)
      BY <2>1, <2>2, <2>3, <2>5, CrateInherited DEF NoneCalledTests
    <3> QED  BY <2>4, <3>1, <3>2
  <2>6. CASE m.path # None
    <3>1. m.path = g
      BY <2>2, <2>6 DEF Resolved
    <3> QED  BY <2>1, <2>2, <2>3, <2>4, <3>1 DEF PathsToCode
  <2> QED  BY <2>5, <2>6
<1>4. \A f \in Good : brings[f] \subseteq Good
  BY <1>3
<1>. HIDE DEF S, brings, Good
<1>5. Modules(S, brings) \subseteq Good
  BY <1>2, <1>4, ModulesWithin
<1> QED  BY <1>1, <1>5 DEF Good

(***************************************************************************)
(* What modules declared for tests bring in is all a test to the code.     *)
(***************************************************************************)
LEMMA TestModulesAreTests ==
  ASSUME tree \in Trees, NoManifestBetween, RootsApart, RootsCalledSo, PathsToTests
  PROVE  TestModules \subseteq {f \in Files : IsSilent(f)}
<1>. DEFINE tests(f) == {m \in tree[f].mods : m.within = <<>> /\ m.path = None /\ IsCfgTest(m.cfg)}
            S == UNION {UNION {Resolved(f, m) : m \in tests(f)} : f \in Compiled(Flag)}
            brings == [f \in Files |-> UNION {Resolved(f, m) : m \in tree[f].mods}]
            Good == {f \in Files : IsSilent(f)}
<1>1. TestModules = Modules(S, brings)
  BY DEF TestModules
<1>2. ASSUME NEW g \in S
      PROVE  g \in Good
  <2>1. PICK f \in Compiled(Flag) : g \in UNION {Resolved(f, m) : m \in tests(f)}
    BY <1>2
  <2>2. PICK m \in tree[f].mods :
          m.within = <<>> /\ m.path = None /\ IsCfgTest(m.cfg) /\ g \in Resolved(f, m)
    BY <2>1
  <2>3. f \in Files
    BY CompiledAreFiles
  <2>4. g \in Files /\ g \in {Named(Inside(f, m), m.name), ModFile(Inside(f, m), m.name)}
    BY <2>2, <2>3, ResolvedIs
  <2>5. CASE IsM1(f) \/ IsM2(f)
    BY <2>2, <2>3, <2>4, <2>5, CrateInherited DEF IsSilent
  <2>6. CASE ~(IsM1(f) \/ IsM2(f))
    <3>1. f \in CrateRoots <=> f.stem \in {"lib", "main"}
      BY <2>2, <2>3, <2>6 DEF RootsCalledSo
    <3>2. Own(f) = ModSearchDir(f)
      BY <3>1 DEF Own, ModSearchDir
    <3>3. Inside(f, m) = ModSearchDir(f)
      BY <2>2, <2>3, <3>2, ModulePathIs
    <3>4. g \in TestTargets(f)
      BY <2>2, <2>4, <3>3 DEF TestTargets
    <3> QED  BY <2>3, <2>4, <3>4 DEF Targets, IsSilent
  <2> QED  BY <2>5, <2>6
<1>3. ASSUME NEW f \in Good, NEW g \in brings[f]
      PROVE  g \in Good
  <2>1. f \in Files /\ IsSilent(f)
    BY <1>3
  <2>2. PICK m \in tree[f].mods : g \in Resolved(f, m)
    BY <1>3, <2>1
  <2>3. g \in Files
    BY <2>2 DEF Resolved
  <2>4. CASE m.path # None
    <3>1. m.path = g
      BY <2>2, <2>4 DEF Resolved
    <3> QED  BY <2>1, <2>2, <2>3, <3>1 DEF PathsToTests
  <2>5. CASE m.path = None /\ (IsM1(f) \/ IsM2(f))
    BY <2>1, <2>2, <2>3, <2>5, CrateInherited DEF IsSilent
  <2>6. CASE m.path = None /\ f \in Targets
    <3>1. PICK h \in Files : f \in TestTargets(h)
      BY <2>6 DEF Targets
    <3>2. PICK t \in tree[h].mods :
            /\ t.within = <<>> /\ IsCfgTest(t.cfg)
            /\ {Named(ModSearchDir(h), t.name), ModFile(ModSearchDir(h), t.name)} \cap Files # {}
            /\ f \in {Named(ModSearchDir(h), t.name), ModFile(ModSearchDir(h), t.name)}
                       \cup Below(Append(ModSearchDir(h), t.name))
      BY <3>1 DEF TestTargets
    <3>. DEFINE d == Append(ModSearchDir(h), t.name)
    <3>3. t.name \in STRING /\ t.name # "mod" /\ ModSearchDir(h) \in Path /\ d \in Path
      BY ModTyped, SearchDirTyped, PrefixOfAppend
    <3>4. f \notin CrateRoots
      BY <2>1, <2>6, TargetsAtTestPlaces DEF RootsApart
    <3>5. Own(f) \in Path /\ IsPrefix(f.dir, Own(f)) /\ f.dir \in Path
      BY <2>1, ModulePathIs, FileTyped
    <3>6. IsPrefix(d, Own(f))
      <4>1. CASE f = Named(ModSearchDir(h), t.name)
        <5>1. Own(f) = d
          BY <3>3, <3>4, <4>1 DEF Own, Named
        <5> QED  BY <3>3, <5>1, PrefixOfItself
      <4>2. CASE f = ModFile(ModSearchDir(h), t.name)
        <5>1. Own(f) = d
          BY <4>2 DEF Own, ModFile
        <5> QED  BY <3>3, <5>1, PrefixOfItself
      <4>3. CASE f \in Below(d)
        <5>1. IsPrefix(d, f.dir)
          BY <4>3 DEF Below
        <5>. HIDE DEF d
        <5> QED  BY <3>3, <3>5, <5>1, PrefixTrans
      <4> QED  BY <3>2, <4>1, <4>2, <4>3
    <3>7. IsPrefix(Own(f), g.dir) /\ g.dir \in Path
      BY <2>1, <2>2, <2>3, <2>6, ResolvedIs, FileTyped
    <3>8. IsPrefix(d, g.dir)
      <4>. HIDE DEF d
      <4> QED  BY <3>3, <3>5, <3>6, <3>7, PrefixTrans
    <3>9. g \in Below(d)
      BY <2>3, <3>8 DEF Below
    <3>10. g \in TestTargets(h)
      BY <3>2, <3>9 DEF TestTargets
    <3> QED  BY <2>3, <3>1, <3>10 DEF Targets, IsSilent
  <2> QED  BY <2>1, <2>4, <2>5, <2>6 DEF IsSilent
<1>4. S \subseteq Good /\ \A f \in Good : brings[f] \subseteq Good
  BY <1>2, <1>3
<1>. HIDE DEF S, brings, Good
<1>5. Modules(S, brings) \subseteq Good
  BY <1>4, ModulesWithin
<1> QED  BY <1>1, <1>5 DEF Good

----------------------------------------------------------------------------
(***************************************************************************)
(* The state.  m3 is what the files read so far declare, and complete      *)
(* before the first file is checked; what is kept is the code of the       *)
(* files checked so far that is not a test.                                *)
(***************************************************************************)
ReadSoFar == {f \in Files : \E j \in 1 .. at - 1 : f = Order[j]}
Kept(f) == {[file |-> f, chain |-> c] : c \in {d \in tree[f].code : ~InTestRange(d)}}
Loud == {f \in Files : ~IsSilent(f)}

ScopeInv ==
  /\ tree \in Trees
  /\ at \in 1 .. Len(Order) + 1
  /\ phase \in {"collect", "check", "done"}
  /\ phase = "collect" => m3 = UNION {TestTargets(f) : f \in ReadSoFar} /\ reported = {}
  /\ phase # "collect" => m3 = Targets
  /\ phase = "check" => reported = UNION {Kept(f) : f \in ReadSoFar \cap Loud}
  /\ phase = "done" => reported = UNION {Kept(f) : f \in Loud}

LEMMA ScopeStarts ==
  ASSUME ScopeInit
  PROVE  ScopeInv
<1>1. Len(Order) \in Nat
  BY FileAssumption
<1>2. ReadSoFar = {}
  BY DEF ReadSoFar, ScopeInit
<1> QED  BY <1>1, <1>2 DEF ScopeInit, ScopeInv

LEMMA StaysTheSame ==
  ASSUME tree' = tree
  PROVE  /\ Files' = Files /\ Targets' = Targets /\ Loud' = Loud
         /\ \A f : TestTargets(f)' = TestTargets(f) /\ Kept(f)' = Kept(f)
<1>1. Files' = Files
  BY DEF Files, IsFile
<1>2. \A f : TestTargets(f)' = TestTargets(f)
  BY <1>1 DEF TestTargets, Below
<1>3. Targets' = Targets
  BY <1>1, <1>2 DEF Targets
<1>4. \A f : IsSilent(f)' <=> IsSilent(f)
  BY <1>3 DEF IsSilent
<1>5. Loud' = Loud
  BY <1>1, <1>4 DEF Loud
<1>6. \A f : Kept(f)' = Kept(f)
  BY DEF Kept
<1> QED  BY <1>1, <1>2, <1>3, <1>5, <1>6

\* The files read after the next one, and after the last.
LEMMA ReadOn ==
  ASSUME tree' = tree, at \in 1 .. Len(Order), at' = at + 1
  PROVE  ReadSoFar' = ReadSoFar \cup ({Order[at]} \cap Files)
<1>1. Files' = Files
  BY StaysTheSame
<1>2. Len(Order) \in Nat
  BY FileAssumption
<1>3. \A j : j \in 1 .. at' - 1 <=> j \in 1 .. at - 1 \/ j = at
  BY <1>2
<1> QED  BY <1>1, <1>3 DEF ReadSoFar

LEMMA ReadAll ==
  ASSUME at \in 1 .. Len(Order) + 1, at > Len(Order)
  PROVE  ReadSoFar = Files
<1>1. Order \in Seq(File) /\ Len(Order) \in Nat /\ \A f \in File : \E j \in 1 .. Len(Order) : f = Order[j]
  BY FileAssumption
<1>2. at - 1 = Len(Order)
  BY <1>1
<1> QED  BY <1>1, <1>2 DEF ReadSoFar, Files

LEMMA ScopeGoesOn ==
  ASSUME ScopeInv, [ScopeNext]_scopeVars
  PROVE  ScopeInv'
<1>1. Order \in Seq(File) /\ Len(Order) \in Nat
  BY FileAssumption
<1>2. /\ at \in 1 .. Len(Order) + 1 /\ tree \in Trees
      /\ phase # "collect" => m3 = Targets
  BY DEF ScopeInv
<1>. DEFINE g == Order[at]
<1>3. CASE Collect
  <2>1. at \in 1 .. Len(Order) /\ at' = at + 1 /\ tree' = tree /\ at' \in 1 .. Len(Order) + 1
    BY <1>1, <1>2, <1>3 DEF Collect
  <2>2. g \in File
    BY <1>1, <2>1
  <2>3. m3' = m3 \cup UNION {TestTargets(f) : f \in {g} \cap Files}
    <3>1. CASE tree[g] = Gone
      BY <1>3, <2>2, <3>1 DEF Collect, Files, IsFile
    <3>2. CASE tree[g] # Gone
      <4>1. g \in Files
        BY <2>2, <3>2 DEF Files, IsFile
      <4>2. m3' = m3 \cup TestTargets(g)
        BY <1>3, <3>2 DEF Collect
      <4>. HIDE DEF g
      <4> QED  BY <4>1, <4>2
    <3> QED  BY <3>1, <3>2
  <2>4. ReadSoFar' = ReadSoFar \cup ({g} \cap Files)
    BY <2>1, ReadOn
  <2>5. m3 = UNION {TestTargets(f) : f \in ReadSoFar} /\ reported = {} /\ phase = "collect"
    BY <1>3 DEF ScopeInv, Collect
  <2>6. m3' = UNION {TestTargets(f)' : f \in ReadSoFar'}
    <3>1. \A f : TestTargets(f)' = TestTargets(f)
      BY <2>1, StaysTheSame
    <3>. HIDE DEF g
    <3> QED  BY <2>3, <2>4, <2>5, <3>1
  <2>7. reported' = {} /\ phase' = "collect" /\ tree' \in Trees
    BY <1>2, <1>3, <2>5 DEF Collect
  <2> QED  BY <2>1, <2>6, <2>7 DEF ScopeInv
<1>4. CASE NextPhase
  <2>1. at > Len(Order) /\ at' = 1 /\ tree' = tree /\ m3' = m3 /\ reported' = reported
    BY <1>4 DEF NextPhase
  <2>2. ReadSoFar = Files
    BY <1>2, <2>1, ReadAll
  <2>3. ReadSoFar' = {}
    BY <2>1 DEF ReadSoFar
  <2>4. Targets' = Targets /\ Loud' = Loud /\ \A f : Kept(f)' = Kept(f)
    BY <2>1, StaysTheSame
  <2>5. m3' = Targets'
    <3>1. CASE phase = "collect"
      BY <2>1, <2>2, <2>4, <3>1 DEF ScopeInv, Targets
    <3>2. CASE phase # "collect"
      BY <1>2, <2>1, <2>4, <3>2
    <3> QED  BY <3>1, <3>2
  <2>6. at' \in 1 .. Len(Order) + 1 /\ tree' \in Trees
    BY <1>1, <1>2, <2>1
  <2>7. CASE phase = "collect"
    <3>1. phase' = "check" /\ reported' = {}
      BY <1>4, <2>1, <2>7 DEF NextPhase, ScopeInv
    <3>2. UNION {Kept(f)' : f \in ReadSoFar' \cap Loud'} = {}
      BY <2>3
    <3> QED  BY <2>5, <2>6, <3>1, <3>2 DEF ScopeInv
  <2>8. CASE phase = "check"
    <3>1. phase' = "done" /\ reported' = UNION {Kept(f) : f \in ReadSoFar \cap Loud}
      BY <1>4, <2>1, <2>8 DEF NextPhase, ScopeInv
    <3>2. ReadSoFar \cap Loud = Loud
      BY <2>2 DEF Loud
    <3>3. reported' = UNION {Kept(f)' : f \in Loud'}
      BY <2>4, <3>1, <3>2
    <3> QED  BY <2>5, <2>6, <3>1, <3>3 DEF ScopeInv
  <2> QED  BY <1>4, <2>7, <2>8 DEF ScopeInv, NextPhase
<1>5. CASE SkipFile \/ CheckFile
  <2>1. /\ phase = "check" /\ phase' = phase /\ m3' = m3 /\ tree' = tree
        /\ at \in 1 .. Len(Order) /\ at' = at + 1 /\ at' \in 1 .. Len(Order) + 1
    BY <1>1, <1>2, <1>5 DEF SkipFile, CheckFile
  <2>2. g \in File /\ (g \in Files <=> tree[g] # Gone)
    BY <1>1, <2>1 DEF Files, IsFile
  <2>3. Targets' = Targets /\ Loud' = Loud /\ (\A f : Kept(f)' = Kept(f)) /\ m3 = Targets
    BY <1>2, <2>1, StaysTheSame
  <2>4. IsTestScope(g) <=> IsSilent(g)
    BY <2>3 DEF IsTestScope, IsSilent
  <2>5. ReadSoFar' = ReadSoFar \cup ({g} \cap Files)
    BY <2>1, ReadOn
  <2>6. reported = UNION {Kept(f) : f \in ReadSoFar \cap Loud}
    BY <2>1 DEF ScopeInv
  <2>7. reported' = UNION {Kept(f) : f \in ReadSoFar' \cap Loud}
    <3>1. CASE SkipFile
      <4>1. g \notin Loud
        BY <2>2, <2>4, <3>1 DEF SkipFile, Loud
      <4>2. reported' = reported
        BY <3>1 DEF SkipFile
      <4>. HIDE DEF g
      <4>3. ReadSoFar' \cap Loud = ReadSoFar \cap Loud
        BY <2>5, <4>1
      <4> QED  BY <2>6, <4>2, <4>3
    <3>2. CASE CheckFile
      <4>1. g \in Files /\ g \in Loud
        BY <2>2, <2>4, <3>2 DEF CheckFile, Loud
      <4>2. reported' = reported \cup Kept(g)
        BY <3>2 DEF CheckFile, Kept
      <4>. HIDE DEF g
      <4>3. ReadSoFar' \cap Loud = (ReadSoFar \cap Loud) \cup {g}
        BY <2>5, <4>1
      <4> QED  BY <2>6, <4>2, <4>3
    <3> QED  BY <1>5, <3>1, <3>2
  <2>8. reported' = UNION {Kept(f)' : f \in ReadSoFar' \cap Loud'}
    BY <2>3, <2>7
  <2> QED  BY <1>2, <2>1, <2>3, <2>8 DEF ScopeInv
<1>6. CASE UNCHANGED scopeVars
  <2>1. /\ tree' = tree /\ phase' = phase /\ at' = at /\ m3' = m3 /\ reported' = reported
    BY <1>6 DEF scopeVars
  <2>2. /\ Targets' = Targets /\ Loud' = Loud
        /\ \A f : TestTargets(f)' = TestTargets(f) /\ Kept(f)' = Kept(f)
    BY <2>1, StaysTheSame
  <2>3. ReadSoFar' = ReadSoFar
    <3>1. Files' = Files
      BY <2>1, StaysTheSame
    <3> QED  BY <2>1, <3>1 DEF ReadSoFar
  <2> QED  BY <2>1, <2>2, <2>3 DEF ScopeInv
<1> QED  BY <1>3, <1>4, <1>5, <1>6 DEF ScopeNext

(***************************************************************************)
(* Code that some build without `test` compiles keeps its findings,        *)
(* however many files, modules and predicates there are (scope.rs).        *)
(***************************************************************************)
THEOREM ShippedReported == ScopeSpec => []ShippedCodeIsReported
<1>1. ScopeInit => ScopeInv
  BY ScopeStarts
<1>2. ScopeInv /\ [ScopeNext]_scopeVars => ScopeInv'
  BY ScopeGoesOn
<1>3. ScopeInv => ShippedCodeIsReported
  <2>1. SUFFICES ASSUME ScopeInv, phase = "done",
                        NoManifestBetween, RootsApart, ModulesApart, NoneCalledTests, PathsToCode,
                        NEW on \in SUBSET (Flag \ {"test"}), NEW f \in Compiled(on),
                        NEW chain \in tree[f].code, ChainHolds(chain, on),
                        \A d \in Fuzz : ~IsPrefix(d, f.dir)
                 PROVE  [file |-> f, chain |-> chain] \in reported
    BY DEF ShippedCodeIsReported
  <2>2. tree \in Trees /\ reported = UNION {Kept(h) : h \in Loud}
    BY <2>1 DEF ScopeInv
  <2>3. f \in Files /\ ~IsM1(f) /\ ~AtTestPlace(f)
    BY <2>1, <2>2, CompiledAreCode
  <2>4. f \notin Targets
    BY <2>2, <2>3, TargetsAtTestPlaces
  <2>5. ~IsM2(f)
    <3>1. SUFFICES ASSUME IsM2(f) PROVE FALSE
      OBVIOUS
    <3>2. CrateRoot(f) \in Fuzz /\ IsPrefix(CrateRoot(f), f.dir)
      BY <2>3, <3>1, FileTyped, CrateRootIs DEF IsM2
    <3> QED  BY <2>1, <3>2
  <2>6. f \in Loud
    BY <2>3, <2>4, <2>5 DEF Loud, IsSilent
  <2>7. ~InTestRange(chain)
    <3>1. SUFFICES ASSUME NEW j \in DOMAIN chain, IsCfgTest(chain[j].cfg) PROVE FALSE
      BY DEF InTestRange
    <3>2. tree[f] \in Content
      BY <2>2, <2>3, TreeAssumption DEF Files, IsFile
    <3>3. chain \in Seq([name : STRING, cfg : SUBSET Predicate])
      BY <3>2 DEF Content, Chain
    <3>4. chain[j] \in [name : STRING, cfg : SUBSET Predicate]
      <4>1. j \in 1 .. Len(chain)
        BY <3>1, <3>3
      <4> QED  BY <3>3, <4>1, ElementOfSeq
    <3>5. chain[j].cfg \in SUBSET Predicate
      BY <3>4
    <3>6. AllHold(chain[j].cfg, on)
      BY <2>1 DEF ChainHolds
    <3> QED  BY <3>1, <3>5, <3>6, CfgTestNeedsTest
  <2>8. [file |-> f, chain |-> chain] \in Kept(f)
    BY <2>7 DEF Kept
  <2> QED  BY <2>2, <2>6, <2>8
<1> QED  BY <1>1, <1>2, <1>3, PTL DEF ScopeSpec

(***************************************************************************)
(* And a module declared `#[cfg(test)] mod NAME;` is silent with all that  *)
(* it brings in (collect_cfg_test_mods).                                   *)
(***************************************************************************)
THEOREM TestModulesSilent == ScopeSpec => []TestModulesAreSilent
<1>1. ScopeInit => ScopeInv
  BY ScopeStarts
<1>2. ScopeInv /\ [ScopeNext]_scopeVars => ScopeInv'
  BY ScopeGoesOn
<1>3. ScopeInv => TestModulesAreSilent
  <2>1. SUFFICES ASSUME ScopeInv, phase = "done",
                        NoManifestBetween, RootsApart, RootsCalledSo, PathsToTests,
                        NEW r \in reported
                 PROVE  r.file \notin TestModules
    BY DEF TestModulesAreSilent
  <2>2. tree \in Trees /\ reported = UNION {Kept(f) : f \in Loud}
    BY <2>1 DEF ScopeInv
  <2>3. PICK f \in Loud : r \in Kept(f)
    BY <2>2
  <2>4. r.file = f /\ ~IsSilent(f)
    BY <2>3 DEF Kept, Loud
  <2> QED  BY <2>1, <2>2, <2>4, TestModulesAreTests
<1> QED  BY <1>1, <1>2, <1>3, PTL DEF ScopeSpec
=============================================================================
