------------------------------ MODULE Suppress ------------------------------
(***************************************************************************)
(* is_suppressed of src/suppress.rs: the walk upward from a finding's line *)
(* through the comments, attributes and blank lines above it, looking for  *)
(* `vaultlint:allow` with the rule's id.                                   *)
(*                                                                         *)
(* A line is described by what the walk sees of its text and by what it is *)
(* part of, which the walk does not see: "continued" is a line of an       *)
(* attribute of several lines, of which `above` brackets are open where    *)
(* the line starts.  Findings point at fields and expressions, so their    *)
(* lines are lines of code.                                                *)
(***************************************************************************)
EXTENDS Integers, Sequences

CONSTANTS Line, Sources

\* How the trimmed line starts, whether it has a `}`, its ( [ and ) ] in order.
Text == [starts : {"nothing", "//", "#[", "other"}, brace : BOOLEAN,
         brackets : Seq({"open", "close"}), marks : BOOLEAN,
         part : {"comment", "attribute", "continued", "blank", "code"}, above : Nat]

ASSUME LineAssumption ==
  /\ Line \subseteq Text
  /\ \A line \in Line :
       \/ line.part = "continued"
       \/ /\ line.above = 0
          /\ <<line.part, line.starts>> \in {<<"blank", "nothing">>, <<"comment", "//">>,
                                            <<"attribute", "#[">>, <<"code", "other">>}

ASSUME SourceAssumption == Sources \subseteq Seq(Line) \ {<<>>}

VARIABLES
  lines,     \* the file
  index,     \* the finding's line
  i,         \* the line the walk looks at, 0 before it starts and past the top
  depth,     \* bracket_depth
  verdict    \* "walking", then whether the finding is suppressed

vars == <<lines, index, i, depth, verdict>>

Init ==
  /\ lines \in Sources
  /\ index \in {n \in DOMAIN lines : lines[n].part = "code"}
  /\ i = 0
  /\ depth = 0
  /\ verdict = "walking"

\* The finding's own line decides when it carries the marker, or is the first.
Start ==
  /\ verdict = "walking" /\ i = 0
  /\ verdict' = IF lines[index].marks THEN "suppressed"
                ELSE IF index = 1 THEN "reported" ELSE "walking"
  /\ i' = index - 1
  /\ UNCHANGED <<lines, index, depth>>

\* Mutant of Through: unmatched opening brackets are counted too.
ThroughBelow(line, before) ==
  LET n == Len(line.brackets)
      d[k \in 0 .. n] ==
        IF k = 0 THEN before
        ELSE IF line.brackets[n + 1 - k] = "close" THEN d[k - 1] + 1 ELSE d[k - 1] - 1
  IN  d[n]

\* bracket_depth after the brackets of a line, read from the right.
Through(line, before) ==
  LET n == Len(line.brackets)
      d[k \in 0 .. n] ==
        IF k = 0 THEN before
        ELSE IF line.brackets[n + 1 - k] = "close" THEN d[k - 1] + 1
        ELSE IF d[k - 1] = 0 THEN 0 ELSE d[k - 1] - 1
  IN  d[n]

\* Mutant of Stops: a `}` inside an attribute stops the walk.
StopsAnywhere(line, before) == line.brace

Stops(line, before) == line.brace /\ before = 0

\* Mutant of IsBlockLine: no bracket need be open.
IsAnyLine(line, before) == Through(line, before) >= 0 \/ line.starts # "other"

\* The line belongs to the block above the finding.
IsBlockLine(line, before) == Through(line, before) > 0 \/ line.starts # "other"

Turn ==
  /\ verdict = "walking" /\ i > 0
  /\ LET line == lines[i]
     IN  IF Stops(line, depth) \/ ~IsBlockLine(line, depth)
         THEN verdict' = "reported" /\ UNCHANGED <<i, depth>>
         ELSE /\ verdict' = IF line.marks THEN "suppressed"
                            ELSE IF i = 1 THEN "reported" ELSE "walking"
              /\ i' = i - 1
              /\ depth' = Through(line, depth)
  /\ UNCHANGED <<lines, index>>

Next == Start \/ Turn

Spec == Init /\ [][Next]_vars

----------------------------------------------------------------------------
\* The type of every variable.
TypeOK ==
  /\ lines \in Sources
  /\ index \in DOMAIN lines
  /\ i \in 0 .. Len(lines)
  /\ depth \in Nat
  /\ verdict \in {"walking", "suppressed", "reported"}

\* Code ends the block, and so does a `}` anywhere but in an attribute of several lines.
EndsBlock(line) == line.part = "code" \/ (line.brace /\ line.part # "continued")

\* The contiguous block of comment, attribute and blank lines above the finding.
Block == {j \in 1 .. index - 1 : \A k \in j .. index - 1 : ~EndsBlock(lines[k])}

\* The block and the line that ends it.
Reach == {j \in 1 .. index - 1 : \A k \in j + 1 .. index - 1 : ~EndsBlock(lines[k])}

\* The brackets open after the first k of a line's, those of its attribute counted.
Heights(line) ==
  LET h[k \in 0 .. Len(line.brackets)] ==
        IF k = 0 THEN line.above
        ELSE IF line.brackets[k] = "open" THEN h[k - 1] + 1 ELSE h[k - 1] - 1
  IN  h

EndHeight(line) == Heights(line)[Len(line.brackets)]

\* The line closes no bracket that another line or item opens ...
OwnBrackets(line) == \A k \in 0 .. Len(line.brackets) : Heights(line)[k] >= 0

\* ... and continues the attribute of the line above, with no `}` behind its last bracket.
Continues(j) ==
  /\ IF lines[j].above = 0 THEN lines[j].starts = "#[" ELSE j > 1 /\ lines[j - 1].part = "continued"
  /\ EndHeight(lines[j]) = IF lines[j + 1].part = "continued" THEN lines[j + 1].above ELSE 0
  /\ lines[j].brace => EndHeight(lines[j]) > 0

(***************************************************************************)
(* What the walk takes for granted of the lines it reads: only attributes  *)
(* leave brackets open from one line to the next.  A call of several lines *)
(* just above the block, `// b)` in it, or a bracket in a string would be  *)
(* taken for an attribute.                                                 *)
(***************************************************************************)
PlainAbove ==
  \A j \in Reach : OwnBrackets(lines[j]) /\ (lines[j].part = "continued" => Continues(j))

(***************************************************************************)
(* No finding is silenced but by a marker on its own line or in the        *)
(* contiguous block of comments, attributes (in all their lines) and blank *)
(* lines above it.                                                         *)
(***************************************************************************)
SilencedByItsBlock ==
  verdict = "suppressed" /\ PlainAbove => \E j \in Block \cup {index} : lines[j].marks

\* And a marker there is never missed.
MarkerIsHonoured ==
  verdict = "reported" /\ PlainAbove => \A j \in Block \cup {index} : ~lines[j].marks
============================================================================
