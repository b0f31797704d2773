----------------------------- MODULE MainProofs -----------------------------
(***************************************************************************)
(* Proofs about Main, for every command line, tree, cluster and choice of  *)
(* limits, wherever the process fails and however standard output buffers. *)
(***************************************************************************)
EXTENDS Main, SequenceTheorems, FiniteSetTheorems, WellFoundedInduction, TLAPS

(***************************************************************************)
(* A document is a sequence of items of its own; which items a part holds  *)
(* does not matter for its end.                                            *)
(***************************************************************************)
IsList(s) == s \in Seq(Range(s))

LEMMA ListsAreSequences ==
  ASSUME NEW S, NEW s \in Seq(S)
  PROVE  IsList(s)
<1>1. Len(s) \in Nat /\ s \in [1 .. Len(s) -> S] /\ DOMAIN s = 1 .. Len(s)
  BY LenProperties
<1>2. s \in [1 .. Len(s) -> Range(s)]
  BY <1>1 DEF Range
<1>. QED BY <1>1, <1>2, SeqDef DEF IsList

LEMMA ListsHaveLengths ==
  ASSUME NEW s, IsList(s)
  PROVE  Len(s) \in Nat /\ DOMAIN s = 1 .. Len(s)
BY LenProperties DEF IsList

LEMMA ConcatOfLists ==
  ASSUME NEW s, NEW t, IsList(s), IsList(t)
  PROVE  IsList(s \o t)
<1>. DEFINE S == Range(s) \cup Range(t)
<1>1. s \in Seq(S) /\ t \in Seq(S)
  BY SeqMonotonic DEF IsList
<1>2. s \o t \in Seq(S)
  BY <1>1, ConcatProperties
<1>. QED BY <1>2, ListsAreSequences

\* Each item of a list, translated or not, and a part that may be left out.
LEMMA PartsAreLists ==
  ASSUME NEW what, NEW all, IsList(all)
  PROVE  IsList(Each(what, all))
<1>1. Len(all) \in Nat /\ DOMAIN all = 1 .. Len(all)
  BY ListsHaveLengths
<1>. DEFINE s == Each(what, all)  S == {Item(what, all[i]) : i \in 1 .. Len(all)}
<1>2. s \in [1 .. Len(all) -> S]
  BY <1>1 DEF Each
<1>3. s \in Seq(S)
  BY <1>1, <1>2, SeqDef
<1>. QED BY <1>3, ListsAreSequences

LEMMA ChoicesAreLists ==
  ASSUME NEW chosen, NEW part, IsList(part)
  PROVE  IsList(When(chosen, part))
<1>1. IsList(<<>>)
  BY EmptySeq, ListsAreSequences
<1>. QED BY <1>1 DEF When

LEMMA SinglesAreLists ==
  ASSUME NEW x
  PROVE  IsList(<<x>>)
<1>1. <<x>> \in Seq({x})
  OBVIOUS
<1>. QED BY <1>1, ListsAreSequences

LEMMA FindingsAreLists ==
  ASSUME NEW r, NEW marks, NEW grades, IsList(r.findings)
  PROVE  IsList(Findings(r, marks, grades))
<1>1. Len(r.findings) \in Nat /\ DOMAIN r.findings = 1 .. Len(r.findings)
  BY ListsHaveLengths
<1>. DEFINE s == Findings(r, marks, grades)  S == {s[i] : i \in 1 .. Len(r.findings)}
<1>2. s \in [1 .. Len(r.findings) -> S]
  BY <1>1 DEF Findings
<1>3. s \in Seq(S)
  BY <1>1, <1>2, SeqDef
<1>. QED BY <1>3, ListsAreSequences

LEMMA BodiesAreLists ==
  ASSUME NEW STATE r, r \in ScanReport, input.format \in Format
  PROVE  IsList(Body(r))
<1>1. IsList(r.findings) /\ IsList(r.skipped) /\ IsList(r.deployments)
  BY ListsAreSequences DEF ScanReport
<1>2. IsList(Human(r))
  <2>. DEFINE header == <<Item("header", <<r.scanned, r.tests>>)>>
              skipped == Each("skipped", r.skipped)
              cluster == <<Item("cluster", Len(r.deployments))>>
              programs == Each("program", r.deployments)
              asked == When(r.deployments # <<>>, cluster \o programs)
              findings == Findings(r, LiveAt(r), Grades)
              counts == When(r.findings # <<>>, <<Item("counts", [s \in Severity |-> Count(r, s)])>>)
  <2>1. IsList(header) /\ IsList(cluster) /\ IsList(counts)
    BY SinglesAreLists, ChoicesAreLists
  <2>2. IsList(skipped) /\ IsList(programs) /\ IsList(findings)
    BY <1>1, PartsAreLists, FindingsAreLists
  <2>. HIDE DEF header, skipped, cluster, programs, findings, counts
  <2>3. IsList(asked)
    BY <2>1, <2>2, ConcatOfLists, ChoicesAreLists
  <2>. HIDE DEF asked
  <2>4. IsList(header \o skipped)
    BY <2>1, <2>2, ConcatOfLists
  <2>5. IsList(header \o skipped \o asked)
    BY <2>3, <2>4, ConcatOfLists
  <2>6. IsList(header \o skipped \o asked \o findings)
    BY <2>2, <2>5, ConcatOfLists
  <2>7. IsList(header \o skipped \o asked \o findings \o counts)
    BY <2>1, <2>6, ConcatOfLists
  <2>. QED BY <2>7 DEF Human, header, skipped, cluster, programs, asked, findings, counts
<1>3. IsList(Json(r))
  <2>. DEFINE open == <<Item("open", "findings")>>
              findings == Findings(r, r.live, Grades)
              cluster == <<Item("cluster", Len(r.deployments))>>
              programs == Each("program", r.deployments)
              asked == When(r.deployments # <<>>, cluster \o programs)
              skipped == Each("skipped", r.skipped)
              close == <<Item("close", None)>>
  <2>1. IsList(open) /\ IsList(cluster) /\ IsList(close)
    BY SinglesAreLists
  <2>2. IsList(skipped) /\ IsList(programs) /\ IsList(findings)
    BY <1>1, PartsAreLists, FindingsAreLists
  <2>. HIDE DEF open, skipped, cluster, programs, findings, close
  <2>3. IsList(asked)
    BY <2>1, <2>2, ConcatOfLists, ChoicesAreLists
  <2>. HIDE DEF asked
  <2>4. IsList(open \o findings)
    BY <2>1, <2>2, ConcatOfLists
  <2>5. IsList(open \o findings \o asked)
    BY <2>3, <2>4, ConcatOfLists
  <2>6. IsList(open \o findings \o asked \o skipped)
    BY <2>2, <2>5, ConcatOfLists
  <2>7. IsList(open \o findings \o asked \o skipped \o close)
    BY <2>1, <2>6, ConcatOfLists
  <2>. QED BY <2>7 DEF Json, open, skipped, cluster, programs, asked, findings, close
<1>4. IsList(Sarif(r))
  <2>. DEFINE open == <<Item("open", "invocations")>>
              skipped == Each("skipped", r.skipped)
              findings == Findings(r, r.live, Level)
              rules == Item("rules", {r.findings[i].rule : i \in DOMAIN r.findings})
              end == <<rules, Item("close", None)>>
  <2>1. IsList(open)
    BY SinglesAreLists
  <2>2. IsList(skipped) /\ IsList(findings)
    BY <1>1, PartsAreLists, FindingsAreLists
  <2>3. IsList(end)
    <3>1. end \in Seq({rules, Item("close", None)})
      OBVIOUS
    <3>. QED BY <3>1, ListsAreSequences
  <2>. HIDE DEF open, skipped, findings, end
  <2>4. IsList(open \o skipped)
    BY <2>1, <2>2, ConcatOfLists
  <2>5. IsList(open \o skipped \o findings)
    BY <2>2, <2>4, ConcatOfLists
  <2>6. IsList(open \o skipped \o findings \o end)
    BY <2>3, <2>5, ConcatOfLists
  <2>. QED BY <2>6 DEF Sarif, open, skipped, findings, rules, end
<1>. QED BY <1>2, <1>3, <1>4 DEF Body, Format

\* The last item of a document leaves the buffer with everything before it.
LEMMA DocumentsEndTheirLine ==
  ASSUME NEW STATE r, r \in ScanReport, input.format \in Format
  PROVE  /\ Len(Document(r)) \in Nat /\ Len(Document(r)) > 0
         /\ EndsLine(Document(r)[Len(Document(r))])
<1>. DEFINE last == Item(IF input.format = "human" /\ r.findings = <<>> THEN "no issues" ELSE "newline", None)
<1>1. IsList(Body(r))
  BY BodiesAreLists
<1>2. Len(Body(r)) \in Nat /\ Body(r) \in Seq(Range(Body(r)))
  BY <1>1, ListsHaveLengths DEF IsList
<1>3. Document(r) = Append(Body(r), last)
  BY DEF Document
<1>. HIDE DEF last
<1>4. Len(Document(r)) = Len(Body(r)) + 1 /\ Document(r)[Len(Body(r)) + 1] = last
  BY <1>2, <1>3
<1>5. EndsLine(last)
  BY DEF EndsLine, last, Item
<1>. QED BY <1>2, <1>4, <1>5

\* The same of the report at hand, as one formula that can be primed.
LEMMA ReportsEnd ==
  report \in ScanReport /\ input.format \in Format =>
    /\ Len(Document(report)) \in Nat /\ Len(Document(report)) > 0
    /\ EndsLine(Document(report)[Len(Document(report))])
BY DocumentsEndTheirLine

----------------------------------------------------------------------------
\* The findings of the files before the nth.
FoundBefore(n) ==
  UNION {Range(input.files[k].findings) : k \in {j \in Shipped : j < n /\ Parses(input.files[j])}}

(***************************************************************************)
(* The report holds what was found so far, and all of it from "sort" on.   *)
(***************************************************************************)
FoundInv ==
  /\ pc \in {"start", "m3"} => at = 1 /\ report.findings = <<>>
  /\ pc = "files" => Range(report.findings) = FoundBefore(at)
  /\ pc = "ids" => Range(report.findings) = FoundBefore(at + 1)
  /\ pc = "sort" \/ Reported => Range(report.findings) = Sources

(***************************************************************************)
(* While the process runs it has no reason to stop, and a document that is *)
(* written out has left the buffer, for its last item ends a line.         *)
(***************************************************************************)
OutputInv ==
  /\ pc # "exited" => reason = None
  /\ pc = "render" /\ written = Len(Document(report)) => flushed = written

IInv == TypeOK /\ FoundInv /\ OutputInv /\ StatusIsHonest

LEMMA InputIsTyped ==
  ASSUME TypeOK
  PROVE  /\ input.format \in Format /\ input.failOn \in Severity \cup {"never"}
         /\ input.files \in Seq(SourceFile) /\ Len(input.files) \in Nat
         /\ DOMAIN input.files = 1 .. Len(input.files)
         /\ \A n \in 1 .. Len(input.files) :
              /\ input.files[n] \in SourceFile
              /\ input.files[n].findings \in Seq(Finding) /\ input.files[n].name \in File
              /\ input.files[n].items \in Seq(Declaration) /\ Len(input.files[n].items) \in Nat
         /\ input.late \in Seq(Finding)
         /\ report \in ScanReport /\ report.findings \in Seq(Finding)
         /\ report.skipped \in Seq(File) /\ report.ids \in Seq(Seq(0 .. Radix))
<1>1. input \in Input /\ report \in ScanReport
  BY DEF TypeOK
<1>2. /\ input.format \in Format /\ input.failOn \in Severity \cup {"never"}
      /\ input.files \in Seq(SourceFile) /\ input.late \in Seq(Finding)
  BY <1>1 DEF Input
<1>3. \A n \in 1 .. Len(input.files) : input.files[n] \in SourceFile
  BY <1>2, ElementOfSeq
<1>4. \A n \in 1 .. Len(input.files) :
        /\ input.files[n].findings \in Seq(Finding) /\ input.files[n].name \in File
        /\ input.files[n].items \in Seq(Declaration) /\ Len(input.files[n].items) \in Nat
  BY <1>3, LenProperties DEF SourceFile
<1>. QED BY <1>1, <1>2, <1>3, <1>4, LenProperties DEF ScanReport

\* What a list holds with another behind it.
LEMMA RangeOfConcat ==
  ASSUME NEW S, NEW s \in Seq(S), NEW t \in Seq(S)
  PROVE  Range(s \o t) = Range(s) \cup Range(t)
<1>1. /\ Len(s) \in Nat /\ DOMAIN s = 1 .. Len(s) /\ Len(t) \in Nat /\ DOMAIN t = 1 .. Len(t)
      /\ Len(s \o t) = Len(s) + Len(t) /\ DOMAIN (s \o t) = 1 .. Len(s) + Len(t)
      /\ \A i \in 1 .. Len(s) + Len(t) : (s \o t)[i] = IF i <= Len(s) THEN s[i] ELSE t[i - Len(s)]
  BY ConcatProperties, LenProperties
<1>2. Range(s \o t) \subseteq Range(s) \cup Range(t)
  BY <1>1 DEF Range
<1>3. Range(s) \subseteq Range(s \o t)
  BY <1>1 DEF Range
<1>4. ASSUME NEW i \in 1 .. Len(t)
      PROVE  t[i] \in Range(s \o t)
  <2>1. Len(s) + i \in 1 .. Len(s) + Len(t) /\ ~(Len(s) + i <= Len(s)) /\ (Len(s) + i) - Len(s) = i
    BY <1>1
  <2>2. (s \o t)[Len(s) + i] = t[i]
    BY <1>1, <2>1
  <2>. QED BY <1>1, <2>1, <2>2 DEF Range
<1>. QED BY <1>1, <1>2, <1>3, <1>4 DEF Range

\* All that the files hold, and the late findings.
LEMMA SourcesAreFound ==
  ASSUME TypeOK
  PROVE  Sources = FoundBefore(Len(input.files) + 1) \cup Range(input.late)
<1>. DEFINE shipped == {k \in Shipped : Parses(input.files[k])}
<1>1. \A k \in Shipped : k \in 1 .. Len(input.files) /\ k < Len(input.files) + 1
  BY InputIsTyped DEF Shipped
<1>2. FoundBefore(Len(input.files) + 1) = UNION {Range(input.files[k].findings) : k \in shipped}
  BY <1>1 DEF FoundBefore
<1>3. Kept = UNION {{n} \X (DOMAIN input.files[n].findings) : n \in shipped}
  BY DEF Kept
<1>. HIDE DEF shipped
<1>4. \A y : y \in {input.files[x[1]].findings[x[2]] : x \in Kept}
               <=> \E n \in shipped : \E i \in DOMAIN input.files[n].findings : y = input.files[n].findings[i]
  <2>1. \A x : x \in Kept <=> \E n \in shipped : \E i \in DOMAIN input.files[n].findings : x = <<n, i>>
    BY <1>3
  <2>2. ASSUME NEW x \in Kept
        PROVE  \E n \in shipped : \E i \in DOMAIN input.files[n].findings :
                 input.files[x[1]].findings[x[2]] = input.files[n].findings[i]
    <3>1. PICK n \in shipped : \E i \in DOMAIN input.files[n].findings : x = <<n, i>>
      BY <2>1
    <3>2. PICK i \in DOMAIN input.files[n].findings : x = <<n, i>>
      BY <3>1
    <3>. QED BY <3>2
  <2>3. ASSUME NEW n \in shipped, NEW i \in DOMAIN input.files[n].findings
        PROVE  \E x \in Kept : input.files[x[1]].findings[x[2]] = input.files[n].findings[i]
    <3>1. <<n, i>> \in Kept
      BY <2>1
    <3>2. <<n, i>>[1] = n /\ <<n, i>>[2] = i
      OBVIOUS
    <3>. QED BY <3>1, <3>2
  <2>. QED BY <2>2, <2>3
<1>5. \A y : y \in UNION {Range(input.files[k].findings) : k \in shipped}
               <=> \E n \in shipped : \E i \in DOMAIN input.files[n].findings : y = input.files[n].findings[i]
  BY DEF Range
<1>6. {input.files[x[1]].findings[x[2]] : x \in Kept} = UNION {Range(input.files[k].findings) : k \in shipped}
  BY <1>4, <1>5
<1>. QED BY <1>2, <1>6 DEF Sources

\* One more file: it adds its findings if it ships and parses.
LEMMA OneFileMore ==
  ASSUME TypeOK, at \in DOMAIN input.files
  PROVE  /\ (input.files[at].test \/ ~Parses(input.files[at])) => FoundBefore(at + 1) = FoundBefore(at)
         /\ ~input.files[at].test /\ Parses(input.files[at])
              => FoundBefore(at + 1) = FoundBefore(at) \cup Range(input.files[at].findings)
<1>1. at \in Nat /\ \A k \in Shipped : k \in Nat
  BY InputIsTyped DEF Shipped
<1>2. \A k \in Shipped : k < at + 1 <=> k < at \/ k = at
  BY <1>1
<1>3. at \in Shipped <=> ~input.files[at].test
  BY DEF Shipped
<1>. QED BY <1>2, <1>3 DEF FoundBefore

----------------------------------------------------------------------------
\* A step that leaves the report and the input alone leaves these alone.
LEMMA DocumentStays ==
  ASSUME UNCHANGED <<input, report>>
  PROVE  Document(report)' = Document(report) /\ Sources' = Sources
<1>1. Document(report)' = Document(report)
  BY DEF Document, Body
<1>2. Shipped' = Shipped
  BY DEF Shipped
<1>3. Kept' = Kept
  BY <1>2 DEF Kept
<1>4. Sources' = Sources
  BY <1>3 DEF Sources
<1>. QED BY <1>1, <1>4

LEMMA FoundBeforeStays ==
  ASSUME UNCHANGED input
  PROVE  \A n : FoundBefore(n)' = FoundBefore(n)
BY DEF FoundBefore, Shipped

LEMMA InitCorrect == Init => IInv
<1>. SUFFICES ASSUME Init PROVE IInv
  OBVIOUS
<1>1. /\ pc = "start" /\ at = 1 /\ report = NoReport /\ written = 0 /\ flushed = 0
      /\ status = None /\ reason = None /\ input \in Input
  BY InputAssumption DEF Init
<1>2. ~Reported
  BY <1>1, NoneAssumption DEF Reported
<1>3. report \in ScanReport /\ report.findings = <<>>
  BY <1>1, EmptySeq DEF NoReport, ScanReport
<1>4. at \in 1 .. Len(input.files) + 1
  <2>1. input.files \in Seq(SourceFile)
    BY <1>1 DEF Input
  <2>. QED BY <1>1, <2>1, LenProperties
<1>5. TypeOK
  BY <1>1, <1>2, <1>3, <1>4 DEF TypeOK
<1>. QED BY <1>1, <1>2, <1>3, <1>5 DEF IInv, FoundInv, OutputInv, StatusIsHonest

(***************************************************************************)
(* The ends of the process before there is a report.                       *)
(***************************************************************************)
LEMMA EarlyExitsPreserve ==
  ASSUME IInv, pc \in {"start", "m3", "files", "ids", "sort"},
         NEW code \in {2, 134}, NEW why \in {"path", "spawn", "panic", "signal"},
         Exit(code, why), code = 134 <=> why = "signal", UNCHANGED <<input, scanning, output>>
  PROVE  IInv'
<1>1. /\ pc' = "exited" /\ status' = code /\ reason' = why
      /\ UNCHANGED <<input, at, item, report, written, flushed>>
  BY DEF Exit, scanning, output
<1>2. ~Reported /\ ~Reported'
  BY <1>1, NoneAssumption DEF IInv, OutputInv, Reported
<1>3. TypeOK'
  BY <1>1, <1>2, NoneAssumption DEF IInv, TypeOK
<1>4. FoundInv' /\ OutputInv'
  BY <1>1, <1>2 DEF FoundInv, OutputInv
<1>5. StatusIsHonest'
  BY <1>1 DEF StatusIsHonest
<1>. QED BY <1>3, <1>4, <1>5 DEF IInv

LEMMA StartPreserves ==
  ASSUME IInv, RejectPath \/ SpawnFails \/ Spawn \/ Panic \/ Collect
  PROVE  IInv'
<1>1. CASE RejectPath
  BY <1>1, EarlyExitsPreserve DEF RejectPath
<1>2. CASE SpawnFails
  BY <1>2, EarlyExitsPreserve DEF SpawnFails
<1>3. CASE Panic
  BY <1>3, EarlyExitsPreserve DEF Panic
<1>4. CASE Collect /\ Exit(134, "signal")
  BY <1>4, EarlyExitsPreserve DEF Collect
<1>5. CASE Spawn \/ (Collect /\ Go("files"))
  <2>1. /\ pc \in {"start", "m3"} /\ pc' \in {"m3", "files"} /\ (pc = "start" => pc' = "m3")
        /\ UNCHANGED <<input, at, item, report, written, flushed, status, reason>>
    BY <1>5 DEF Spawn, Collect, Go, scanning, output
  <2>2. ~Reported /\ ~Reported'
    BY <2>1, NoneAssumption DEF IInv, OutputInv, Reported
  <2>3. TypeOK'
    BY <2>1, <2>2 DEF IInv, TypeOK
  <2>4. FoundBefore(1) = {}
    BY InputIsTyped DEF FoundBefore, Shipped, IInv
  <2>5. FoundInv'
    <3>1. at = 1 /\ report.findings = <<>>
      BY <2>1 DEF IInv, FoundInv
    <3>2. Range(<<>>) = {}
      BY DEF Range
    <3>3. FoundBefore(at)' = {}
      BY <2>1, <2>4, <3>1, FoundBeforeStays
    <3>. QED BY <2>1, <2>2, <3>1, <3>2, <3>3 DEF FoundInv
  <2>6. OutputInv' /\ StatusIsHonest'
    BY <2>1 DEF IInv, OutputInv, StatusIsHonest
  <2>. QED BY <2>3, <2>5, <2>6 DEF IInv
<1>6. Collect => Exit(134, "signal") \/ Go("files")
  BY DEF Collect
<1>. QED BY <1>1, <1>2, <1>3, <1>4, <1>5, <1>6

----------------------------------------------------------------------------
(***************************************************************************)
(* The files.                                                              *)
(***************************************************************************)
\* Before there is a report nothing is written, and every step keeps to that.
LEMMA NotYetReported ==
  ASSUME IInv, pc \in {"files", "ids", "sort"}, pc' \in {"files", "ids", "sort"},
         UNCHANGED <<input, output, status, reason>>, report' \in ScanReport,
         at' \in 1 .. Len(input.files) + 1,
         pc' = "ids" => at' <= Len(input.files) /\ item' \in 1 .. Len(input.files[at'].items) + 1
  PROVE  TypeOK' /\ OutputInv' /\ StatusIsHonest' /\ ~Reported'
<1>1. /\ input' = input /\ written' = written /\ flushed' = flushed /\ status' = status /\ reason' = reason
      /\ reason = None
  BY DEF output, IInv, OutputInv
<1>2. ~Reported /\ ~Reported'
  BY <1>1, NoneAssumption DEF Reported
<1>3. TypeOK'
  BY <1>1, <1>2 DEF IInv, TypeOK
<1>. QED BY <1>1, <1>2, <1>3 DEF OutputInv, StatusIsHonest

LEMMA SkipPreserves ==
  ASSUME IInv, SkipTestFile \/ SkipFile
  PROVE  IInv'
<1>1. /\ pc = "files" /\ pc' = "files" /\ at <= Len(input.files) /\ at' = at + 1
      /\ UNCHANGED <<input, output, status, reason>>
      /\ input.files[at].test \/ ~Parses(input.files[at])
      /\ \/ report' = [report EXCEPT !.tests = @ + 1]
         \/ report' = [report EXCEPT !.skipped = Append(@, input.files[at].name)]
  BY DEF SkipTestFile, SkipFile, More
<1>2. at \in 1 .. Len(input.files) /\ at \in DOMAIN input.files /\ input.files[at].name \in File
  BY <1>1, InputIsTyped DEF IInv, TypeOK
<1>3. report' \in ScanReport /\ report'.findings = report.findings
  <2>1. report \in ScanReport
    BY InputIsTyped DEF IInv
  <2>2. CASE report' = [report EXCEPT !.tests = @ + 1]
    <3>1. report.tests + 1 \in Nat
      BY <2>1 DEF ScanReport
    <3>. QED BY <2>1, <2>2, <3>1 DEF ScanReport
  <2>3. CASE report' = [report EXCEPT !.skipped = Append(@, input.files[at].name)]
    <3>1. Append(report.skipped, input.files[at].name) \in Seq(File)
      BY <1>2, InputIsTyped DEF IInv
    <3>. QED BY <2>1, <2>3, <3>1 DEF ScanReport
  <2>. QED BY <1>1, <2>2, <2>3
<1>4. TypeOK' /\ OutputInv' /\ StatusIsHonest' /\ ~Reported'
  BY <1>1, <1>2, <1>3, NotYetReported, InputIsTyped DEF IInv
<1>5. FoundInv'
  <2>1. FoundBefore(at + 1) = FoundBefore(at)
    BY <1>1, <1>2, OneFileMore DEF IInv
  <2>2. FoundBefore(at)' = FoundBefore(at + 1)
    BY <1>1, FoundBeforeStays DEF FoundBefore, Shipped
  <2>. QED BY <1>1, <1>3, <1>4, <2>1, <2>2 DEF IInv, FoundInv
<1>. QED BY <1>4, <1>5 DEF IInv

LEMMA CheckFilePreserves ==
  ASSUME IInv, CheckFile
  PROVE  IInv'
<1>. DEFINE found == input.files[at].findings
<1>1. /\ pc = "files" /\ pc' = "ids" /\ at <= Len(input.files) /\ at' = at /\ item' = 1
      /\ UNCHANGED <<input, output, status, reason>>
      /\ ~input.files[at].test /\ Parses(input.files[at])
      /\ report' = [report EXCEPT !.scanned = @ + 1, !.findings = @ \o found]
  BY DEF CheckFile, More, Go
<1>2. at \in 1 .. Len(input.files) /\ at \in DOMAIN input.files
  BY <1>1, InputIsTyped DEF IInv, TypeOK
<1>3. /\ report \in ScanReport /\ report.findings \in Seq(Finding) /\ found \in Seq(Finding)
      /\ report.findings \o found \in Seq(Finding)
      /\ Range(report.findings \o found) = Range(report.findings) \cup Range(found)
  BY <1>2, InputIsTyped, ConcatProperties, RangeOfConcat DEF IInv
<1>. HIDE DEF found
<1>4. report' \in ScanReport /\ report'.findings = report.findings \o found
  <2>1. report.scanned + 1 \in Nat
    BY <1>3 DEF ScanReport
  <2>2. report' = [[report EXCEPT !.scanned = @ + 1] EXCEPT !.findings = report.findings \o found]
    BY <1>1, <1>3 DEF ScanReport
  <2>. QED BY <1>3, <2>1, <2>2 DEF ScanReport
<1>5. 1 \in 1 .. Len(input.files[at].items) + 1
  BY <1>2, InputIsTyped DEF IInv
<1>6. TypeOK' /\ OutputInv' /\ StatusIsHonest' /\ ~Reported'
  BY <1>1, <1>2, <1>4, <1>5, NotYetReported, InputIsTyped DEF IInv
<1>7. FoundInv'
  <2>1. FoundBefore(at + 1) = FoundBefore(at) \cup Range(found)
    BY <1>1, <1>2, OneFileMore DEF IInv, found
  <2>2. FoundBefore(at + 1)' = FoundBefore(at + 1)
    BY <1>1 DEF FoundBefore, Shipped
  <2>. QED BY <1>1, <1>3, <1>4, <1>6, <2>1, <2>2 DEF IInv, FoundInv
<1>. QED BY <1>6, <1>7 DEF IInv

LEMMA CollectIdPreserves ==
  ASSUME IInv, CollectId
  PROVE  IInv'
<1>. DEFINE d == input.files[at].items[item]
<1>1. /\ pc = "ids" /\ pc' = "ids" /\ item <= Len(input.files[at].items) /\ at' = at /\ item' = item + 1
      /\ UNCHANGED <<input, output, status, reason>>
      /\ report' = report \/ report' = [report EXCEPT !.ids = Append(@, d.text)]
  BY DEF CollectId
<1>2. at \in 1 .. Len(input.files) /\ item \in 1 .. Len(input.files[at].items)
  BY <1>1, InputIsTyped DEF IInv, TypeOK
<1>3. d \in Declaration
  BY <1>2, InputIsTyped, ElementOfSeq DEF IInv
<1>4. report' \in ScanReport /\ report'.findings = report.findings
  <2>1. report \in ScanReport /\ Append(report.ids, d.text) \in Seq(Seq(0 .. Radix))
    BY <1>3, InputIsTyped DEF IInv, Declaration
  <2>. HIDE DEF d
  <2>. QED BY <1>1, <2>1 DEF ScanReport
<1>5. item + 1 \in 1 .. Len(input.files[at].items) + 1
  BY <1>2, InputIsTyped DEF IInv
<1>6. TypeOK' /\ OutputInv' /\ StatusIsHonest' /\ ~Reported'
  BY <1>1, <1>2, <1>4, <1>5, NotYetReported, InputIsTyped DEF IInv
<1>7. FoundInv'
  <2>1. FoundBefore(at + 1)' = FoundBefore(at + 1)
    BY <1>1 DEF FoundBefore, Shipped
  <2>. QED BY <1>1, <1>4, <1>6, <2>1 DEF IInv, FoundInv
<1>. QED BY <1>6, <1>7 DEF IInv

LEMMA EndFilePreserves ==
  ASSUME IInv, EndFile
  PROVE  IInv'
<1>1. /\ pc = "ids" /\ pc' = "files" /\ at' = at + 1 /\ report' = report
      /\ UNCHANGED <<input, output, status, reason>>
  BY DEF EndFile, Go
<1>2. at' \in 1 .. Len(input.files) + 1 /\ report' \in ScanReport
  BY <1>1, InputIsTyped DEF IInv, TypeOK
<1>3. TypeOK' /\ OutputInv' /\ StatusIsHonest' /\ ~Reported'
  BY <1>1, <1>2, NotYetReported
<1>4. FoundInv'
  <2>1. FoundBefore(at)' = FoundBefore(at + 1)
    BY <1>1 DEF FoundBefore, Shipped
  <2>. QED BY <1>1, <1>3, <2>1 DEF IInv, FoundInv
<1>. QED BY <1>3, <1>4 DEF IInv

LEMMA EndFilesPreserves ==
  ASSUME IInv, EndFiles
  PROVE  IInv'
<1>1. /\ pc = "files" /\ pc' = "sort" /\ ~(at <= Len(input.files)) /\ at' = at
      /\ UNCHANGED <<input, output, status, reason>>
      /\ report' = [report EXCEPT !.findings = @ \o input.late]
  BY DEF EndFiles, More, Go
<1>2. at = Len(input.files) + 1
  BY <1>1, InputIsTyped DEF IInv, TypeOK
<1>3. /\ report.findings \o input.late \in Seq(Finding) /\ report \in ScanReport
      /\ Range(report.findings \o input.late) = Range(report.findings) \cup Range(input.late)
  BY InputIsTyped, ConcatProperties, RangeOfConcat DEF IInv
<1>4. report' \in ScanReport /\ report'.findings = report.findings \o input.late
  BY <1>1, <1>3 DEF ScanReport
<1>5. TypeOK' /\ OutputInv' /\ StatusIsHonest' /\ ~Reported'
  BY <1>1, <1>4, NotYetReported DEF IInv, TypeOK
<1>6. FoundInv'
  <2>1. Sources = FoundBefore(at) \cup Range(input.late)
    BY <1>2, SourcesAreFound DEF IInv
  <2>2. Sources' = Sources
    BY <1>1 DEF Sources, Kept, Shipped
  <2>. QED BY <1>1, <1>3, <1>4, <1>5, <2>1, <2>2 DEF IInv, FoundInv
<1>. QED BY <1>5, <1>6 DEF IInv

\* The sort, the lookup and the marks: the findings stay what they are.
LEMMA FinishPreserves ==
  ASSUME IInv, Finish
  PROVE  IInv'
<1>. DEFINE found == report.findings
            asked == IF Endpoint THEN report.ids ELSE <<>>
<1>1. PICK p \in Sortings(found), states \in [DOMAIN asked -> {"live", "absent", "unavailable"}] :
        \E live \in [DOMAIN found -> SUBSET {asked[i] : i \in {j \in DOMAIN asked : states[j] = "live"}}] :
          report' = [report EXCEPT
                       !.findings = [i \in DOMAIN found |-> found[p[i]]],
                       !.deployments = [i \in DOMAIN asked |-> [address |-> asked[i], state |-> states[i]]],
                       !.live = live]
  BY DEF Finish
<1>2. PICK live \in [DOMAIN found -> SUBSET {asked[i] : i \in {j \in DOMAIN asked : states[j] = "live"}}] :
        report' = [report EXCEPT
                     !.findings = [i \in DOMAIN found |-> found[p[i]]],
                     !.deployments = [i \in DOMAIN asked |-> [address |-> asked[i], state |-> states[i]]],
                     !.live = live]
  BY <1>1
<1>3. /\ pc = "sort" /\ pc' = "render"
      /\ UNCHANGED <<input, at, item, written, flushed, status, reason>>
  BY DEF Finish, Go, output
<1>. DEFINE ordered == [i \in DOMAIN found |-> found[p[i]]]
            deployments == [i \in DOMAIN asked |-> [address |-> asked[i], state |-> states[i]]]
<1>4. /\ report \in ScanReport /\ found \in Seq(Finding) /\ Len(found) \in Nat /\ DOMAIN found = 1 .. Len(found)
      /\ asked \in Seq(Seq(0 .. Radix)) /\ Len(asked) \in Nat /\ DOMAIN asked = 1 .. Len(asked)
  BY InputIsTyped, EmptySeq, LenProperties DEF IInv
<1>5. /\ p \in [DOMAIN found -> DOMAIN found]
      /\ \A k \in DOMAIN found : \E i \in DOMAIN found : p[i] = k
  BY DEF Sortings
<1>. HIDE DEF found, asked
<1>6. ordered \in Seq(Finding) /\ DOMAIN ordered = DOMAIN found /\ Range(ordered) = Range(found)
  <2>1. \A i \in 1 .. Len(found) : found[i] \in Finding
    BY <1>4, ElementOfSeq
  <2>2. ordered \in [1 .. Len(found) -> Finding]
    BY <1>4, <1>5, <2>1
  <2>3. ordered \in Seq(Finding)
    BY <1>4, <2>2, SeqDef
  <2>4. Range(ordered) = Range(found)
    BY <1>5 DEF Range
  <2>. QED BY <2>3, <2>4
<1>7. \A i \in DOMAIN asked : asked[i] \in Seq(0 .. Radix)
  BY <1>4, ElementOfSeq
<1>8. deployments \in Seq(Deployment)
  <2>1. deployments \in [1 .. Len(asked) -> Deployment]
    BY <1>4, <1>7 DEF Deployment
  <2>. QED BY <1>4, <2>1, SeqDef
<1>9. live \in Seq(SUBSET Seq(0 .. Radix)) /\ DOMAIN live = DOMAIN found
  <2>1. \A i \in DOMAIN found : live[i] \subseteq Seq(0 .. Radix)
    BY <1>7
  <2>2. live \in [1 .. Len(found) -> SUBSET Seq(0 .. Radix)]
    BY <1>4, <2>1
  <2>. QED BY <1>4, <2>2, SeqDef
<1>. HIDE DEF ordered, deployments
<1>10. report' = [[[report EXCEPT !.findings = ordered] EXCEPT !.deployments = deployments] EXCEPT !.live = live]
  BY <1>2, <1>4 DEF ordered, deployments, ScanReport
<1>11. report' \in ScanReport /\ report'.findings = ordered /\ report'.live = live
  BY <1>4, <1>6, <1>8, <1>9, <1>10 DEF ScanReport
<1>12. (Len(Document(report)) \in Nat /\ Len(Document(report)) > 0)'
  <2>1. (report \in ScanReport /\ input.format \in Format)'
    BY <1>3, <1>11, InputIsTyped DEF IInv
  <2>2. (report \in ScanReport /\ input.format \in Format => Len(Document(report)) \in Nat /\ Len(Document(report)) > 0)'
    <3>1. report \in ScanReport /\ input.format \in Format => Len(Document(report)) \in Nat /\ Len(Document(report)) > 0
      BY ReportsEnd
    <3>. QED BY ReportsEnd, PTL
  <2>. QED BY <2>1, <2>2
<1>13. ~Reported /\ written = 0 /\ flushed = 0 /\ status = None /\ reason = None
  BY <1>3, NoneAssumption DEF IInv, TypeOK, OutputInv, Reported
<1>14. TypeOK'
  BY <1>3, <1>6, <1>9, <1>11, <1>12, <1>13 DEF IInv, TypeOK
<1>15. FoundInv'
  <2>1. Sources' = Sources
    BY <1>3 DEF Sources, Kept, Shipped
  <2>2. Range(report'.findings) = Sources
    BY <1>3, <1>6, <1>11 DEF IInv, FoundInv, found
  <2>. QED BY <1>3, <2>1, <2>2 DEF FoundInv
<1>16. OutputInv' /\ StatusIsHonest'
  BY <1>3, <1>12, <1>13 DEF OutputInv, StatusIsHonest
<1>. QED BY <1>14, <1>15, <1>16 DEF IInv

LEMMA WritePreserves == IInv /\ Write => IInv'
<1>. SUFFICES ASSUME IInv, Write PROVE IInv'
  OBVIOUS
<1>1. /\ pc = "render" /\ written < Len(Document(report)) /\ written' = written + 1
      /\ flushed' \in IF EndsLine(Document(report)[written']) THEN {written'} ELSE flushed .. written'
      /\ UNCHANGED <<input, pc, at, item, report, status, reason>>
  BY DEF Write, scanning
<1>2. Document(report)' = Document(report) /\ Sources' = Sources
  BY <1>1, DocumentStays
<1>3. /\ Len(Document(report)) \in Nat
      /\ EndsLine(Document(report)[Len(Document(report))])
  BY InputIsTyped, ReportsEnd DEF IInv
<1>4. written \in 0 .. Len(Document(report)) /\ flushed \in 0 .. written
  BY <1>1 DEF IInv, TypeOK, Reported
<1>5. written' \in 0 .. Len(Document(report)) /\ flushed' \in 0 .. written'
  BY <1>1, <1>3, <1>4
<1>6. written' = Len(Document(report)) => flushed' = written'
  BY <1>1, <1>3
<1>7. TypeOK'
  BY <1>1, <1>2, <1>5 DEF IInv, TypeOK, Reported
<1>8. FoundInv'
  BY <1>1, <1>2 DEF IInv, FoundInv, Reported
<1>9. OutputInv' /\ StatusIsHonest'
  BY <1>1, <1>2, <1>6 DEF IInv, OutputInv, StatusIsHonest
<1>. QED BY <1>7, <1>8, <1>9 DEF IInv

LEMMA WriteFailsPreserves == IInv /\ WriteFails => IInv'
<1>. SUFFICES ASSUME IInv, WriteFails PROVE IInv'
  OBVIOUS
<1>1. /\ pc = "render" /\ pc' = "exited" /\ flushed' \in flushed .. written
      /\ (status' = 0 /\ reason' = "pipe") \/ (status' = 2 /\ reason' = "write")
      /\ UNCHANGED <<input, at, item, report, written>>
  BY DEF WriteFails, Exit, scanning
<1>2. Document(report)' = Document(report) /\ Sources' = Sources
  BY <1>1, DocumentStays
<1>3. written \in 0 .. Len(Document(report)) /\ flushed \in 0 .. written /\ Len(Document(report)) \in Nat
  BY <1>1, InputIsTyped, ReportsEnd DEF IInv, TypeOK, Reported
<1>4. flushed' \in 0 .. written /\ Reported /\ Reported'
  BY <1>1, <1>3 DEF Reported
<1>5. status' # None
  BY <1>1, NoneAssumption
<1>6. TypeOK'
  BY <1>1, <1>2, <1>3, <1>4, <1>5 DEF IInv, TypeOK
<1>7. FoundInv'
  BY <1>1, <1>2, <1>4 DEF IInv, FoundInv
<1>8. OutputInv' /\ StatusIsHonest'
  BY <1>1 DEF OutputInv, StatusIsHonest
<1>. QED BY <1>6, <1>7, <1>8 DEF IInv

LEMMA ReturnPreserves == IInv /\ Return => IInv'
<1>. SUFFICES ASSUME IInv, Return PROVE IInv'
  OBVIOUS
<1>1. /\ pc = "render" /\ pc' = "exited" /\ written = Len(Document(report))
      /\ flushed' \in flushed .. written /\ status' = ExitCode(report) /\ reason' = "done"
      /\ UNCHANGED <<input, at, item, report, written>>
  BY DEF Return, Exit, scanning
<1>2. Document(report)' = Document(report) /\ Sources' = Sources
  BY <1>1, DocumentStays
<1>3. written \in 0 .. Len(Document(report)) /\ flushed = written /\ Len(Document(report)) \in Nat
  BY <1>1, InputIsTyped, ReportsEnd DEF IInv, TypeOK, OutputInv, Reported
<1>4. flushed' = written' /\ flushed' = Len(Document(report)') /\ flushed' \in 0 .. written'
  BY <1>1, <1>2, <1>3
<1>5. status' = IF \E x \in Sources : Severe(x) THEN 1 ELSE 0
  <2>1. Range(report.findings) = Sources
    BY <1>1 DEF IInv, FoundInv, Reported
  <2>2. (\E x \in Sources : Severe(x))
          <=> input.failOn # "never"
                /\ \E i \in DOMAIN report.findings : Rank[report.findings[i].severity] >= Rank[input.failOn]
    BY <2>1 DEF Range, Severe
  <2>. QED BY <1>1, <2>2 DEF ExitCode
<1>6. Reported /\ Reported' /\ status' \in {0, 1} /\ status' # None
  BY <1>1, <1>5, NoneAssumption DEF Reported
<1>7. TypeOK'
  BY <1>1, <1>2, <1>3, <1>4, <1>6 DEF IInv, TypeOK
<1>8. FoundInv'
  BY <1>1, <1>2, <1>6 DEF IInv, FoundInv
<1>9. OutputInv'
  BY <1>1 DEF OutputInv
<1>10. (\E x \in Sources : Severe(x))' <=> \E x \in Sources : Severe(x)
  BY <1>1, <1>2 DEF Severe
<1>11. StatusIsHonest'
  BY <1>1, <1>4, <1>5, <1>10 DEF StatusIsHonest
<1>. QED BY <1>7, <1>8, <1>9, <1>11 DEF IInv

LEMMA StutterPreserves == IInv /\ UNCHANGED vars => IInv'
<1>. SUFFICES ASSUME IInv, UNCHANGED vars PROVE IInv'
  OBVIOUS
<1>1. UNCHANGED <<input, pc, at, item, report, written, flushed, status, reason>>
  BY DEF vars, scanning, output
<1>2. Document(report)' = Document(report) /\ Sources' = Sources
  BY <1>1, DocumentStays
<1>3. FoundBefore(at)' = FoundBefore(at) /\ FoundBefore(at + 1)' = FoundBefore(at + 1)
  BY <1>1 DEF FoundBefore, Shipped
<1>4. TypeOK'
  BY <1>1, <1>2 DEF IInv, TypeOK, Reported
<1>5. FoundInv'
  BY <1>1, <1>2, <1>3 DEF IInv, FoundInv, Reported
<1>6. OutputInv' /\ StatusIsHonest'
  BY <1>1, <1>2 DEF IInv, OutputInv, StatusIsHonest, Severe
<1>. QED BY <1>4, <1>5, <1>6 DEF IInv

LEMMA StepPreserves == IInv /\ [Next]_vars => IInv'
<1>. SUFFICES ASSUME IInv, [Next]_vars PROVE IInv'
  OBVIOUS
<1>1. CASE RejectPath \/ SpawnFails \/ Spawn \/ Panic \/ Collect
  BY <1>1, StartPreserves
<1>2. CASE SkipTestFile \/ SkipFile
  BY <1>2, SkipPreserves
<1>3. CASE CheckFile
  BY <1>3, CheckFilePreserves
<1>4. CASE CollectId
  BY <1>4, CollectIdPreserves
<1>5. CASE EndFile
  BY <1>5, EndFilePreserves
<1>6. CASE EndFiles
  BY <1>6, EndFilesPreserves
<1>7. CASE Finish
  BY <1>7, FinishPreserves
<1>8. CASE Write
  BY <1>8, WritePreserves
<1>9. CASE WriteFails
  BY <1>9, WriteFailsPreserves
<1>10. CASE Return
  BY <1>10, ReturnPreserves
<1>11. CASE UNCHANGED vars
  BY <1>11, StutterPreserves
<1>. QED
  BY <1>1, <1>2, <1>3, <1>4, <1>5, <1>6, <1>7, <1>8, <1>9, <1>10, <1>11 DEF Next

LEMMA Invariance == Spec => []IInv
<1>1. Init => IInv
  BY InitCorrect
<1>2. IInv /\ [Next]_vars => IInv'
  BY StepPreserves
<1>. QED BY <1>1, <1>2, PTL DEF Spec

----------------------------------------------------------------------------
(***************************************************************************)
(* The variables keep their types: the positions stay within the files,    *)
(* the items and the document, wherever the process stops.                 *)
(***************************************************************************)
THEOREM TypeCorrect == Spec => []TypeOK
<1>1. IInv => TypeOK
  BY DEF IInv
<1>. QED BY <1>1, Invariance, PTL

(***************************************************************************)
(* The exit status of src/main.rs: 1 if a finding of the tree reaches the  *)
(* threshold and 0 if none does, after the whole report has left standard  *)
(* output, whatever the cluster answered; 0 after a broken pipe; 2 for an  *)
(* error of the tool.                                                      *)
(***************************************************************************)
THEOREM StatusCorrect == Spec => []StatusIsHonest
<1>1. IInv => StatusIsHonest
  BY DEF IInv
<1>. QED BY <1>1, Invariance, PTL
----------------------------------------------------------------------------
(***************************************************************************)
(* What a report tells: the invariant that carries every finding from its  *)
(* file into the sorted list, exactly once.                                *)
(***************************************************************************)

\* The places of findings in the files before the nth, and among the late ones.
KeptBefore(n) ==
  UNION {{k} \X (DOMAIN input.files[k].findings) : k \in {j \in Shipped : j < n /\ Parses(input.files[j])}}
Late == {0} \X (DOMAIN input.late)

\* What stands at such a place.
FoundAt == [y \in Kept \cup Late |-> IF y[1] = 0 THEN input.late[y[2]] ELSE input.files[y[1]].findings[y[2]]]

\* s lists what stands at the places K, each place once.
Lists(s, K, standing) ==
  \E b \in [DOMAIN s -> K] : /\ \A i, j \in DOMAIN s : b[i] = b[j] => i = j
                             /\ \A y \in K : \E i \in DOMAIN s : b[i] = y
                             /\ \A i \in DOMAIN s : s[i] = standing[b[i]]

\* The names of the files that are passed over before the nth.
SkippedBefore(n) == {input.files[k].name : k \in {j \in Shipped : j < n /\ ~Parses(input.files[j])}}

CountInv ==
  /\ pc = "files" => Lists(report.findings, KeptBefore(at), FoundAt)
  /\ pc = "ids" => Lists(report.findings, KeptBefore(at + 1), FoundAt)
  /\ pc = "sort" \/ Reported => Lists(report.findings, Kept \cup Late, FoundAt)

SkipInv ==
  /\ pc \in {"start", "m3"} => report.skipped = <<>>
  /\ pc = "files" => Range(report.skipped) = SkippedBefore(at)
  /\ pc = "ids" => Range(report.skipped) = SkippedBefore(at + 1)
  /\ pc = "sort" \/ Reported => Range(report.skipped) = SkippedBefore(Len(input.files) + 1)

\* The sort, the answers of the cluster and the marks of a report.
FinishInv ==
  Reported =>
    /\ \A i, j \in DOMAIN report.findings :
         i < j => Rank[report.findings[i].severity] >= Rank[report.findings[j].severity]
    /\ Endpoint => /\ DOMAIN report.deployments = DOMAIN report.ids
                   /\ \A i \in DOMAIN report.ids : report.deployments[i].address = report.ids[i]
    /\ ~Endpoint => report.deployments = <<>>
    /\ \A i \in DOMAIN report.live : \A a \in report.live[i] :
         \E j \in DOMAIN report.deployments : report.deployments[j].address = a

TellInv == CountInv /\ SkipInv /\ FinishInv

----------------------------------------------------------------------------
(***************************************************************************)
(* A list with more behind it lists the places of both.                    *)
(***************************************************************************)
LEMMA ListsConcat ==
  ASSUME NEW S, NEW s \in Seq(S), NEW t \in Seq(S), NEW K, NEW standing, NEW n,
         Lists(s, K, standing), \A y \in K : y \notin {n} \X DOMAIN t,
         \A i \in DOMAIN t : standing[<<n, i>>] = t[i]
  PROVE  Lists(s \o t, K \cup ({n} \X DOMAIN t), standing)
<1>1. /\ Len(s) \in Nat /\ DOMAIN s = 1 .. Len(s) /\ Len(t) \in Nat /\ DOMAIN t = 1 .. Len(t)
      /\ DOMAIN (s \o t) = 1 .. Len(s) + Len(t)
      /\ \A i \in 1 .. Len(s) + Len(t) : (s \o t)[i] = IF i <= Len(s) THEN s[i] ELSE t[i - Len(s)]
  BY ConcatProperties, LenProperties
<1>2. PICK b \in [DOMAIN s -> K] : /\ \A i, j \in DOMAIN s : b[i] = b[j] => i = j
                                   /\ \A y \in K : \E i \in DOMAIN s : b[i] = y
                                   /\ \A i \in DOMAIN s : s[i] = standing[b[i]]
  BY DEF Lists
<1>. DEFINE m == Len(s)
            both == [i \in 1 .. m + Len(t) |-> IF i <= m THEN b[i] ELSE <<n, i - m>>]
            L == {n} \X DOMAIN t
<1>3. \A i \in 1 .. m + Len(t) : i <= m => i \in DOMAIN s /\ both[i] = b[i] /\ both[i] \in K
  BY <1>1
<1>4. \A i \in 1 .. m + Len(t) : ~(i <= m) => i - m \in DOMAIN t /\ both[i] = <<n, i - m>> /\ both[i] \in L
  BY <1>1
<1>5. both \in [1 .. m + Len(t) -> K \cup L]
  <2>1. \A i \in 1 .. m + Len(t) : both[i] \in K \cup L
    BY <1>3, <1>4
  <2> QED  BY <2>1
<1>. HIDE DEF both
<1>6. ASSUME NEW i \in 1 .. m + Len(t), NEW j \in 1 .. m + Len(t), both[i] = both[j]
      PROVE  i = j
  <2>1. CASE i <= m /\ j <= m
    BY <1>2, <1>3, <1>6, <2>1
  <2>2. CASE ~(i <= m) /\ ~(j <= m)
    <3>1. <<n, i - m>> = <<n, j - m>>
      BY <1>4, <1>6, <2>2
    <3>2. i - m = j - m
      BY <3>1
    <3> QED  BY <1>1, <3>2
  <2>3. CASE i <= m /\ ~(j <= m)
    BY <1>3, <1>4, <1>6, <2>3
  <2>4. CASE ~(i <= m) /\ j <= m
    BY <1>3, <1>4, <1>6, <2>4
  <2> QED  BY <2>1, <2>2, <2>3, <2>4
<1>7. ASSUME NEW y \in K \cup L
      PROVE  \E i \in 1 .. m + Len(t) : both[i] = y
  <2>1. CASE y \in K
    <3>1. PICK i \in 1 .. m : b[i] = y
      BY <1>1, <1>2, <2>1
    <3>2. i \in 1 .. m + Len(t) /\ i <= m
      BY <1>1
    <3> QED  BY <1>3, <3>1, <3>2
  <2>2. CASE y \in L
    <3>1. PICK i \in 1 .. Len(t) : y = <<n, i>>
      BY <1>1, <2>2
    <3>2. m + i \in 1 .. m + Len(t) /\ ~(m + i <= m) /\ (m + i) - m = i
      BY <1>1
    <3> QED  BY <1>4, <3>1, <3>2
  <2> QED  BY <2>1, <2>2
<1>8. ASSUME NEW i \in 1 .. m + Len(t)
      PROVE  (s \o t)[i] = standing[both[i]]
  <2>1. CASE i <= m
    BY <1>1, <1>2, <1>3, <2>1
  <2>2. CASE ~(i <= m)
    BY <1>1, <1>4, <2>2
  <2> QED  BY <2>1, <2>2
<1>. DEFINE u == s \o t
<1>9. DOMAIN u = 1 .. m + Len(t)
  BY <1>1
<1>10. \A i \in DOMAIN u : u[i] = standing[both[i]]
  BY <1>8, <1>9
<1>11. both \in [DOMAIN u -> K \cup L]
  BY <1>5, <1>9
<1>12. \A i, j \in DOMAIN u : both[i] = both[j] => i = j
  BY <1>6, <1>9
<1>13. \A y \in K \cup L : \E i \in DOMAIN u : both[i] = y
  BY <1>7, <1>9
<1>. HIDE DEF u, L, m
<1>14. Lists(u, K \cup L, standing)
  BY <1>10, <1>11, <1>12, <1>13 DEF Lists
<1> QED  BY <1>14 DEF u, L

(***************************************************************************)
(* And so does a list in another order.                                    *)
(***************************************************************************)
LEMMA ListsReordered ==
  ASSUME NEW s, NEW K, NEW standing, Lists(s, K, standing), NEW p \in [DOMAIN s -> DOMAIN s],
         \A k \in DOMAIN s : \E i \in DOMAIN s : p[i] = k,
         \A i, j \in DOMAIN s : p[i] = p[j] => i = j
  PROVE  Lists([i \in DOMAIN s |-> s[p[i]]], K, standing)
<1>1. PICK b \in [DOMAIN s -> K] : /\ \A i, j \in DOMAIN s : b[i] = b[j] => i = j
                                   /\ \A y \in K : \E i \in DOMAIN s : b[i] = y
                                   /\ \A i \in DOMAIN s : s[i] = standing[b[i]]
  BY DEF Lists
<1>. DEFINE c == [i \in DOMAIN s |-> b[p[i]]]
            r == [i \in DOMAIN s |-> s[p[i]]]
<1>2. c \in [DOMAIN s -> K]
  OBVIOUS
<1>3. \A i, j \in DOMAIN s : c[i] = c[j] => i = j
  BY <1>1
<1>4. \A y \in K : \E i \in DOMAIN s : c[i] = y
  BY <1>1
<1>5. \A i \in DOMAIN s : r[i] = standing[c[i]]
  BY <1>1
<1>6. DOMAIN r = DOMAIN s
  OBVIOUS
<1>. HIDE DEF c, r
<1>7. Lists(r, K, standing)
  <2>1. /\ c \in [DOMAIN r -> K]
        /\ \A i, j \in DOMAIN r : c[i] = c[j] => i = j
        /\ \A y \in K : \E i \in DOMAIN r : c[i] = y
        /\ \A i \in DOMAIN r : r[i] = standing[c[i]]
    BY <1>2, <1>3, <1>4, <1>5, <1>6
  <2> QED  BY <2>1 DEF Lists
<1> QED  BY <1>7 DEF r

\* A finding does not come before itself, and one before another is no less severe.
LEMMA CompareRanks ==
  ASSUME NEW x \in Finding, NEW y \in Finding
  PROVE  /\ ~Compare(x, x)
         /\ Compare(x, y) \/ ~Compare(y, x) => Rank[x.severity] >= Rank[y.severity]
<1>1. x.severity \in Severity /\ y.severity \in Severity
  BY DEF Finding
<1>2. Rank[x.severity] \in Nat /\ Rank[y.severity] \in Nat
  BY <1>1 DEF Severity, Rank
<1>3. x.file \in Nat /\ x.line \in Nat /\ x.rule \in Nat
  BY NumberAssumption DEF Finding
<1>4. ~Compare(x, x)
  BY <1>3 DEF Compare
<1>5. Compare(x, y) => Rank[x.severity] >= Rank[y.severity]
  BY <1>2 DEF Compare
<1>6. ~Compare(y, x) => Rank[x.severity] >= Rank[y.severity]
  BY <1>2 DEF Compare
<1> QED  BY <1>4, <1>5, <1>6

(***************************************************************************)
(* A sorted list has every finding once, the most severe first.            *)
(***************************************************************************)
LEMMA SortingsOrder ==
  ASSUME NEW found \in Seq(Finding), NEW p \in Sortings(found)
  PROVE  /\ p \in [DOMAIN found -> DOMAIN found]
         /\ \A k \in DOMAIN found : \E i \in DOMAIN found : p[i] = k
         /\ \A i, j \in DOMAIN found : p[i] = p[j] => i = j
         /\ \A i, j \in DOMAIN found :
              i < j => Rank[found[p[i]].severity] >= Rank[found[p[j]].severity]
<1>1. /\ p \in [DOMAIN found -> DOMAIN found]
      /\ \A k \in DOMAIN found : \E i \in DOMAIN found : p[i] = k
      /\ \A i, j \in DOMAIN found : i < j =>
           \/ Compare(found[p[i]], found[p[j]])
           \/ ~Compare(found[p[j]], found[p[i]]) /\ p[i] < p[j]
  BY DEF Sortings
<1>2. DOMAIN found = 1 .. Len(found) /\ Len(found) \in Nat /\ \A i \in DOMAIN found : found[i] \in Finding
  BY LenProperties, ElementOfSeq
<1>3. \A i, j \in DOMAIN found : i < j => p[i] # p[j]
  <2>1. ASSUME NEW i \in DOMAIN found, NEW j \in DOMAIN found, i < j, p[i] = p[j]
        PROVE  FALSE
    <3>1. p[i] \in DOMAIN found /\ p[i] \in Nat
      BY <1>1, <1>2, SMTT(30)
    <3>2. ~Compare(found[p[i]], found[p[i]])
      BY <1>2, <3>1, CompareRanks
    <3>3. ~(p[i] < p[i])
      BY <3>1
    <3> QED  BY <1>1, <2>1, <3>2, <3>3
  <2> QED  BY <2>1
<1>4. \A i, j \in DOMAIN found : p[i] = p[j] => i = j
  <2>1. \A i, j \in DOMAIN found : i = j \/ i < j \/ j < i
    BY <1>2
  <2> QED  BY <1>3, <2>1
<1>5. ASSUME NEW i \in DOMAIN found, NEW j \in DOMAIN found, i < j
      PROVE  Rank[found[p[i]].severity] >= Rank[found[p[j]].severity]
  <2>1. found[p[i]] \in Finding /\ found[p[j]] \in Finding
    BY <1>1, <1>2
  <2>2. Compare(found[p[i]], found[p[j]]) \/ ~Compare(found[p[j]], found[p[i]])
    BY <1>1, <1>5
  <2> QED  BY <2>1, <2>2, CompareRanks
<1> QED  BY <1>1, <1>4, <1>5

----------------------------------------------------------------------------
\* The places of one more file, of all files, and of none.
LEMMA KeptByFile ==
  ASSUME TypeOK
  PROVE  /\ KeptBefore(1) = {} /\ SkippedBefore(1) = {}
         /\ KeptBefore(Len(input.files) + 1) = Kept
         /\ \A n \in 1 .. Len(input.files) :
              /\ (input.files[n].test \/ ~Parses(input.files[n])) => KeptBefore(n + 1) = KeptBefore(n)
              /\ ~input.files[n].test /\ Parses(input.files[n])
                   => /\ KeptBefore(n + 1) = KeptBefore(n) \cup ({n} \X DOMAIN input.files[n].findings)
                      /\ {n} \X DOMAIN input.files[n].findings \subseteq Kept
              /\ input.files[n].test \/ Parses(input.files[n]) => SkippedBefore(n + 1) = SkippedBefore(n)
              /\ ~input.files[n].test /\ ~Parses(input.files[n])
                   => SkippedBefore(n + 1) = SkippedBefore(n) \cup {input.files[n].name}
              /\ \A y \in KeptBefore(n) : y \notin {n} \X DOMAIN input.files[n].findings
<1>1. /\ Len(input.files) \in Nat /\ DOMAIN input.files = 1 .. Len(input.files)
      /\ \A k \in Shipped : k \in 1 .. Len(input.files) /\ k \in Nat
  BY InputIsTyped DEF Shipped
<1>2. \A k \in Shipped : ~(k < 1) /\ k < Len(input.files) + 1
  BY <1>1
<1>3. KeptBefore(1) = {} /\ SkippedBefore(1) = {} /\ KeptBefore(Len(input.files) + 1) = Kept
  BY <1>2 DEF KeptBefore, SkippedBefore, Kept
<1>4. ASSUME NEW n \in 1 .. Len(input.files)
      PROVE  /\ (input.files[n].test \/ ~Parses(input.files[n])) => KeptBefore(n + 1) = KeptBefore(n)
             /\ ~input.files[n].test /\ Parses(input.files[n])
                  => /\ KeptBefore(n + 1) = KeptBefore(n) \cup ({n} \X DOMAIN input.files[n].findings)
                     /\ {n} \X DOMAIN input.files[n].findings \subseteq Kept
             /\ input.files[n].test \/ Parses(input.files[n]) => SkippedBefore(n + 1) = SkippedBefore(n)
             /\ ~input.files[n].test /\ ~Parses(input.files[n])
                  => SkippedBefore(n + 1) = SkippedBefore(n) \cup {input.files[n].name}
             /\ \A y \in KeptBefore(n) : y \notin {n} \X DOMAIN input.files[n].findings
  <2>1. \A k \in Shipped : k < n + 1 <=> k < n \/ k = n
    BY <1>1
  <2>2. n \in Shipped <=> ~input.files[n].test
    BY <1>1 DEF Shipped
  <2>. DEFINE earlier == {j \in Shipped : j < n /\ Parses(input.files[j])}
              sofar == {j \in Shipped : j < n + 1 /\ Parses(input.files[j])}
  <2>3. (input.files[n].test \/ ~Parses(input.files[n])) => sofar = earlier
    BY <2>1, <2>2
  <2>4. ~input.files[n].test /\ Parses(input.files[n]) => sofar = earlier \cup {n}
    BY <2>1, <2>2
  <2>5. KeptBefore(n) = UNION {{k} \X (DOMAIN input.files[k].findings) : k \in earlier}
        /\ KeptBefore(n + 1) = UNION {{k} \X (DOMAIN input.files[k].findings) : k \in sofar}
    BY DEF KeptBefore
  <2>6. n \notin earlier
    BY <1>1
  <2>7. ~input.files[n].test /\ Parses(input.files[n])
          => {n} \X DOMAIN input.files[n].findings \subseteq Kept
    BY <2>2 DEF Kept
  <2>8. /\ input.files[n].test \/ Parses(input.files[n]) => SkippedBefore(n + 1) = SkippedBefore(n)
        /\ ~input.files[n].test /\ ~Parses(input.files[n])
             => SkippedBefore(n + 1) = SkippedBefore(n) \cup {input.files[n].name}
    BY <2>1, <2>2 DEF SkippedBefore
  <2>. HIDE DEF earlier, sofar
  <2>9. \A y \in KeptBefore(n) : y \notin {n} \X DOMAIN input.files[n].findings
    BY <2>5, <2>6
  <2> QED  BY <2>3, <2>4, <2>5, <2>7, <2>8, <2>9
<1> QED  BY <1>3, <1>4

LEMMA FoundAtPlaces ==
  ASSUME TypeOK
  PROVE  /\ \A n : \A i : <<n, i>> \in Kept => n # 0 /\ FoundAt[<<n, i>>] = input.files[n].findings[i]
         /\ \A i \in DOMAIN input.late : FoundAt[<<0, i>>] = input.late[i]
         /\ \A y \in Kept : y \notin Late
<1>1. \A k \in Shipped : k # 0
  BY InputIsTyped DEF Shipped
<1>2. \A n : \A i : <<n, i>> \in Kept => n # 0
  BY <1>1 DEF Kept
<1>3. \A y \in Kept : y = <<y[1], y[2]>>
  BY DEF Kept
<1>4. \A i \in DOMAIN input.late : <<0, i>> \in Late
  BY DEF Late
<1>5. \A n : \A i : <<n, i>> \in Kept => FoundAt[<<n, i>>] = input.files[n].findings[i]
  BY <1>2 DEF FoundAt
<1>6. \A i \in DOMAIN input.late : FoundAt[<<0, i>>] = input.late[i]
  BY <1>4 DEF FoundAt
<1>7. \A y \in Kept : y \notin Late
  BY <1>2, <1>3 DEF Late
<1> QED  BY <1>2, <1>5, <1>6, <1>7

LEMMA PlacesStay ==
  ASSUME UNCHANGED input
  PROVE  /\ \A n : KeptBefore(n)' = KeptBefore(n) /\ SkippedBefore(n)' = SkippedBefore(n)
         /\ Kept' = Kept /\ Late' = Late /\ FoundAt' = FoundAt /\ Endpoint' = Endpoint
<1>1. Shipped' = Shipped
  BY DEF Shipped
<1>2. Kept' = Kept /\ Late' = Late
  BY <1>1 DEF Kept, Late
<1>3. FoundAt' = FoundAt
  BY <1>2 DEF FoundAt
<1>4. Endpoint' = Endpoint
  BY DEF Endpoint
<1>5. \A n : KeptBefore(n)' = KeptBefore(n) /\ SkippedBefore(n)' = SkippedBefore(n)
  BY <1>1 DEF KeptBefore, SkippedBefore
<1> QED  BY <1>2, <1>3, <1>4, <1>5

LEMMA NothingListed ==
  ASSUME NEW standing
  PROVE  Lists(<<>>, {}, standing)
<1>. DEFINE b == [i \in {} |-> i]
<1>1. DOMAIN <<>> = {}
  OBVIOUS
<1>2. b \in [{} -> {}]
  OBVIOUS
<1> QED  BY <1>1, <1>2 DEF Lists

----------------------------------------------------------------------------
LEMMA TellInit == Init => TellInv
<1>. SUFFICES ASSUME Init PROVE TellInv
  OBVIOUS
<1>1. pc = "start" /\ report = NoReport /\ reason = None
  BY DEF Init
<1>2. ~Reported
  BY <1>1, NoneAssumption DEF Reported
<1> QED  BY <1>1, <1>2 DEF TellInv, CountInv, SkipInv, FinishInv, NoReport

\* Steps before the files.
LEMMA TellStart ==
  ASSUME IInv, TellInv, RejectPath \/ SpawnFails \/ Spawn \/ Panic \/ Collect
  PROVE  TellInv'
<1>1. /\ UNCHANGED <<input, at, report>>
      /\ \/ pc' = "exited" /\ reason' \in {"path", "spawn", "panic", "signal"}
         \/ pc = "start" /\ pc' = "m3" /\ UNCHANGED reason
         \/ pc = "m3" /\ pc' = "files" /\ UNCHANGED reason
  BY DEF RejectPath, SpawnFails, Spawn, Panic, Collect, Exit, Go, scanning, output
<1>2. CASE pc' = "exited" /\ reason' \in {"path", "spawn", "panic", "signal"}
  BY <1>2 DEF TellInv, CountInv, SkipInv, FinishInv, Reported
<1>3. CASE pc = "start" /\ pc' = "m3" /\ UNCHANGED reason
  <2>1. reason = None
    BY <1>3 DEF IInv, OutputInv
  <2>2. ~Reported'
    BY <1>3, <2>1, NoneAssumption DEF Reported
  <2> QED  BY <1>1, <1>3, <2>2 DEF TellInv, CountInv, SkipInv, FinishInv
<1>4. CASE pc = "m3" /\ pc' = "files" /\ UNCHANGED reason
  <2>1. reason = None /\ at = 1 /\ report.findings = <<>> /\ report.skipped = <<>>
    BY <1>4 DEF IInv, OutputInv, FoundInv, TellInv, SkipInv
  <2>2. ~Reported'
    BY <1>4, <2>1, NoneAssumption DEF Reported
  <2>3. KeptBefore(at) = {} /\ SkippedBefore(at) = {}
    BY <2>1, KeptByFile DEF IInv
  <2>4. KeptBefore(at)' = {} /\ SkippedBefore(at)' = {} /\ FoundAt' = FoundAt
    BY <1>1, <2>3, PlacesStay DEF KeptBefore, SkippedBefore, Shipped
  <2>5. Lists(<<>>, {}, FoundAt)
    BY NothingListed
  <2>6. Range(<<>>) = {}
    BY DEF Range
  <2>7. report'.findings = <<>> /\ report'.skipped = <<>>
    BY <1>1, <2>1
  <2>8. CountInv' /\ SkipInv'
    BY <1>4, <2>2, <2>4, <2>5, <2>6, <2>7 DEF CountInv, SkipInv
  <2> QED  BY <2>2, <2>8 DEF TellInv, FinishInv
<1> QED  BY <1>1, <1>2, <1>3, <1>4

LEMMA TellSkip ==
  ASSUME IInv, TellInv, SkipTestFile \/ SkipFile
  PROVE  TellInv'
<1>1. /\ pc = "files" /\ pc' = "files" /\ at <= Len(input.files) /\ at' = at + 1
      /\ UNCHANGED <<input, reason>>
  BY DEF SkipTestFile, SkipFile, More
<1>2. at \in 1 .. Len(input.files) /\ report \in ScanReport /\ input.files[at].name \in File
  BY <1>1, InputIsTyped DEF IInv, TypeOK
<1>3. reason = None /\ ~Reported'
  BY <1>1, NoneAssumption DEF IInv, OutputInv, Reported
<1>4. input.files[at].test \/ ~Parses(input.files[at])
  BY DEF SkipTestFile, SkipFile
<1>5. report'.findings = report.findings
  BY <1>2 DEF SkipTestFile, SkipFile, ScanReport
<1>6. Range(report'.skipped) = SkippedBefore(at + 1)
  <2>1. CASE SkipTestFile
    <3>1. input.files[at].test /\ report'.skipped = report.skipped
      BY <1>2, <2>1 DEF SkipTestFile, ScanReport
    <3> QED  BY <1>1, <1>2, <3>1, KeptByFile DEF IInv, TellInv, SkipInv
  <2>2. CASE SkipFile
    <3>1. ~input.files[at].test /\ ~Parses(input.files[at])
      BY <2>2 DEF SkipFile
    <3>2. report'.skipped = Append(report.skipped, input.files[at].name)
      BY <1>2, <2>2 DEF SkipFile, ScanReport
    <3>3. report.skipped \in Seq(File)
      BY <1>2 DEF ScanReport
    <3>4. Range(Append(report.skipped, input.files[at].name)) = Range(report.skipped) \cup {input.files[at].name}
      <4>1. /\ Len(report.skipped) \in Nat /\ DOMAIN report.skipped = 1 .. Len(report.skipped)
            /\ DOMAIN Append(report.skipped, input.files[at].name) = 1 .. Len(report.skipped) + 1
            /\ \A i \in 1 .. Len(report.skipped) :
                 Append(report.skipped, input.files[at].name)[i] = report.skipped[i]
            /\ Append(report.skipped, input.files[at].name)[Len(report.skipped) + 1] = input.files[at].name
        BY <1>2, <3>3, AppendProperties, LenProperties
      <4>2. \A i : i \in 1 .. Len(report.skipped) + 1
                     <=> i \in 1 .. Len(report.skipped) \/ i = Len(report.skipped) + 1
        BY <4>1
      <4> QED  BY <4>1, <4>2 DEF Range
    <3> QED  BY <1>1, <1>2, <3>1, <3>2, <3>4, KeptByFile DEF IInv, TellInv, SkipInv
  <2> QED  BY <2>1, <2>2
<1>7. KeptBefore(at + 1) = KeptBefore(at)
  BY <1>2, <1>4, KeptByFile DEF IInv
<1>8. KeptBefore(at)' = KeptBefore(at + 1) /\ SkippedBefore(at)' = SkippedBefore(at + 1) /\ FoundAt' = FoundAt
  BY <1>1, PlacesStay DEF KeptBefore, SkippedBefore, Shipped
<1>9. CountInv' /\ SkipInv'
  BY <1>1, <1>3, <1>5, <1>6, <1>7, <1>8 DEF TellInv, CountInv, SkipInv
<1> QED  BY <1>3, <1>9 DEF TellInv, FinishInv

LEMMA TellCheck ==
  ASSUME IInv, TellInv, CheckFile
  PROVE  TellInv'
<1>. DEFINE found == input.files[at].findings
<1>1. /\ pc = "files" /\ pc' = "ids" /\ at <= Len(input.files) /\ at' = at /\ UNCHANGED <<input, reason>>
      /\ ~input.files[at].test /\ Parses(input.files[at])
      /\ report' = [report EXCEPT !.scanned = @ + 1, !.findings = @ \o found]
  BY DEF CheckFile, More, Go
<1>2. at \in 1 .. Len(input.files) /\ report \in ScanReport /\ found \in Seq(Finding)
      /\ report.findings \in Seq(Finding)
  BY <1>1, InputIsTyped DEF IInv, TypeOK
<1>3. reason = None /\ ~Reported'
  BY <1>1, NoneAssumption DEF IInv, OutputInv, Reported
<1>. DEFINE L == {at} \X DOMAIN found
<1>4. KeptBefore(at + 1) = KeptBefore(at) \cup L /\ L \subseteq Kept /\ SkippedBefore(at + 1) = SkippedBefore(at)
      /\ \A y \in KeptBefore(at) : y \notin L
  BY <1>1, <1>2, KeptByFile DEF IInv
<1>5. \A i \in DOMAIN found : FoundAt[<<at, i>>] = found[i]
  <2>1. \A i \in DOMAIN found : <<at, i>> \in Kept
    BY <1>4
  <2> QED  BY <2>1, FoundAtPlaces DEF IInv
<1>. HIDE DEF found
<1>6. Lists(report.findings, KeptBefore(at), FoundAt)
  BY <1>1 DEF TellInv, CountInv
<1>7. Lists(report.findings \o found, KeptBefore(at) \cup L, FoundAt)
  BY <1>2, <1>4, <1>5, <1>6, ListsConcat
<1>8. report'.findings = report.findings \o found /\ report'.skipped = report.skipped
  <2>1. report' = [[report EXCEPT !.scanned = @ + 1] EXCEPT !.findings = report.findings \o found]
    BY <1>1, <1>2 DEF ScanReport
  <2> QED  BY <1>2, <2>1 DEF ScanReport
<1>9. /\ KeptBefore(at + 1)' = KeptBefore(at + 1)
      /\ SkippedBefore(at + 1)' = SkippedBefore(at + 1) /\ FoundAt' = FoundAt
  BY <1>1, PlacesStay DEF KeptBefore, SkippedBefore, Shipped
<1>10. CountInv' /\ SkipInv'
  BY <1>1, <1>3, <1>4, <1>7, <1>8, <1>9 DEF TellInv, CountInv, SkipInv
<1> QED  BY <1>3, <1>10 DEF TellInv, FinishInv

LEMMA TellIds ==
  ASSUME IInv, TellInv, CollectId \/ EndFile
  PROVE  TellInv'
<1>1. /\ pc = "ids" /\ UNCHANGED <<input, reason>>
      /\ \/ pc' = "ids" /\ at' = at
         \/ pc' = "files" /\ at' = at + 1
  BY DEF CollectId, EndFile, Go
<1>2. reason = None /\ ~Reported'
  BY <1>1, NoneAssumption DEF IInv, OutputInv, Reported
<1>3. report'.findings = report.findings /\ report'.skipped = report.skipped
  <2>1. report \in ScanReport
    BY DEF IInv, TypeOK
  <2> QED  BY <2>1 DEF CollectId, EndFile, ScanReport
<1>4. /\ KeptBefore(at + 1)' = KeptBefore(at' + 1) /\ SkippedBefore(at + 1)' = SkippedBefore(at' + 1)
      /\ KeptBefore(at)' = KeptBefore(at') /\ SkippedBefore(at)' = SkippedBefore(at') /\ FoundAt' = FoundAt
  BY <1>1, PlacesStay DEF KeptBefore, SkippedBefore, Shipped
<1>5. CountInv' /\ SkipInv'
  BY <1>1, <1>2, <1>3, <1>4 DEF TellInv, CountInv, SkipInv
<1> QED  BY <1>2, <1>5 DEF TellInv, FinishInv

LEMMA TellEndFiles ==
  ASSUME IInv, TellInv, EndFiles
  PROVE  TellInv'
<1>1. /\ pc = "files" /\ pc' = "sort" /\ ~(at <= Len(input.files)) /\ UNCHANGED <<input, reason>>
      /\ report' = [report EXCEPT !.findings = @ \o input.late]
  BY DEF EndFiles, More, Go
<1>2. at = Len(input.files) + 1 /\ report \in ScanReport /\ report.findings \in Seq(Finding)
      /\ input.late \in Seq(Finding)
  BY <1>1, InputIsTyped DEF IInv, TypeOK
<1>3. reason = None /\ ~Reported'
  BY <1>1, NoneAssumption DEF IInv, OutputInv, Reported
<1>4. KeptBefore(at) = Kept
  BY <1>2, KeptByFile DEF IInv
<1>5. Lists(report.findings, Kept, FoundAt)
  BY <1>1, <1>4 DEF TellInv, CountInv
<1>6. Lists(report.findings \o input.late, Kept \cup Late, FoundAt)
  <2>1. \A y \in Kept : y \notin {0} \X DOMAIN input.late
    BY FoundAtPlaces DEF IInv, Late
  <2>2. \A i \in DOMAIN input.late : FoundAt[<<0, i>>] = input.late[i]
    BY FoundAtPlaces DEF IInv
  <2> QED  BY <1>2, <1>5, <2>1, <2>2, ListsConcat DEF Late
<1>7. report'.findings = report.findings \o input.late /\ report'.skipped = report.skipped
  BY <1>1, <1>2 DEF ScanReport
<1>8. /\ Kept' = Kept /\ Late' = Late /\ FoundAt' = FoundAt
      /\ SkippedBefore(Len(input.files) + 1)' = SkippedBefore(Len(input.files) + 1)
  BY <1>1, PlacesStay DEF SkippedBefore, Shipped
<1>9. Range(report.skipped) = SkippedBefore(Len(input.files) + 1)
  BY <1>1, <1>2 DEF TellInv, SkipInv
<1>10. CountInv' /\ SkipInv'
  BY <1>1, <1>3, <1>6, <1>7, <1>8, <1>9 DEF CountInv, SkipInv
<1> QED  BY <1>3, <1>10 DEF TellInv, FinishInv

LEMMA TellFinish ==
  ASSUME IInv, TellInv, Finish
  PROVE  TellInv'
<1>. DEFINE found == report.findings
            asked == IF Endpoint THEN report.ids ELSE <<>>
<1>1. PICK p \in Sortings(found), states \in [DOMAIN asked -> {"live", "absent", "unavailable"}] :
        \E live \in [DOMAIN found -> SUBSET {asked[i] : i \in {j \in DOMAIN asked : states[j] = "live"}}] :
          report' = [report EXCEPT
                       !.findings = [i \in DOMAIN found |-> found[p[i]]],
                       !.deployments = [i \in DOMAIN asked |-> [address |-> asked[i], state |-> states[i]]],
                       !.live = live]
  BY DEF Finish
<1>2. PICK live \in [DOMAIN found -> SUBSET {asked[i] : i \in {j \in DOMAIN asked : states[j] = "live"}}] :
        report' = [report EXCEPT
                     !.findings = [i \in DOMAIN found |-> found[p[i]]],
                     !.deployments = [i \in DOMAIN asked |-> [address |-> asked[i], state |-> states[i]]],
                     !.live = live]
  BY <1>1
<1>3. pc = "sort" /\ pc' = "render" /\ UNCHANGED <<input, reason>>
  BY DEF Finish, Go
<1>. DEFINE ordered == [i \in DOMAIN found |-> found[p[i]]]
            deployments == [i \in DOMAIN asked |-> [address |-> asked[i], state |-> states[i]]]
<1>4. report \in ScanReport /\ found \in Seq(Finding)
  BY InputIsTyped DEF IInv
<1>5. /\ p \in [DOMAIN found -> DOMAIN found]
      /\ \A k \in DOMAIN found : \E i \in DOMAIN found : p[i] = k
      /\ \A i, j \in DOMAIN found : p[i] = p[j] => i = j
      /\ \A i, j \in DOMAIN found :
           i < j => Rank[found[p[i]].severity] >= Rank[found[p[j]].severity]
  BY <1>4, SortingsOrder
<1>6. Lists(found, Kept \cup Late, FoundAt)
  BY <1>3 DEF TellInv, CountInv
<1>. HIDE DEF found, asked
<1>7. Lists(ordered, Kept \cup Late, FoundAt)
  BY <1>5, <1>6, ListsReordered
<1>8. /\ DOMAIN ordered = DOMAIN found
      /\ \A i \in DOMAIN ordered : ordered[i] = found[p[i]]
      /\ DOMAIN deployments = DOMAIN asked
      /\ \A i \in DOMAIN asked : deployments[i].address = asked[i]
  OBVIOUS
<1>9. \A i \in DOMAIN found : \A a \in live[i] : \E j \in DOMAIN deployments : deployments[j].address = a
  BY <1>8
<1>10. DOMAIN live = DOMAIN found
  OBVIOUS
<1>11. asked = <<>> => deployments = <<>>
  <2>1. SUFFICES ASSUME asked = <<>> PROVE deployments = <<>>
    OBVIOUS
  <2>2. DOMAIN asked = {} /\ DOMAIN <<>> = {}
    BY <2>1
  <2> QED  BY <2>2
<1>. HIDE DEF ordered, deployments
<1>12. report' = [[[report EXCEPT !.findings = ordered] EXCEPT !.deployments = deployments] EXCEPT !.live = live]
  BY <1>2, <1>4 DEF ordered, deployments, ScanReport
<1>13. /\ report'.findings = ordered /\ report'.live = live /\ report'.deployments = deployments
       /\ report'.skipped = report.skipped /\ report'.ids = report.ids
  BY <1>4, <1>12 DEF ScanReport
<1>14. /\ Kept' = Kept /\ Late' = Late /\ FoundAt' = FoundAt /\ Endpoint' = Endpoint
       /\ SkippedBefore(Len(input.files) + 1)' = SkippedBefore(Len(input.files) + 1)
  BY <1>3, PlacesStay DEF SkippedBefore, Shipped
<1>15. Range(report.skipped) = SkippedBefore(Len(input.files) + 1)
  BY <1>3 DEF TellInv, SkipInv
<1>16. CountInv' /\ SkipInv'
  BY <1>3, <1>7, <1>13, <1>14, <1>15 DEF CountInv, SkipInv
<1>17. \A i, j \in DOMAIN ordered : i < j => Rank[ordered[i].severity] >= Rank[ordered[j].severity]
  BY <1>5, <1>8
<1>18. Endpoint => DOMAIN deployments = DOMAIN report.ids
                   /\ \A i \in DOMAIN report.ids : deployments[i].address = report.ids[i]
  BY <1>8 DEF asked
<1>19. ~Endpoint => deployments = <<>>
  BY <1>11 DEF asked
<1>20. FinishInv'
  BY <1>9, <1>10, <1>13, <1>14, <1>17, <1>18, <1>19 DEF FinishInv
<1> QED  BY <1>16, <1>20 DEF TellInv

\* What is written does not change what is told.
LEMMA TellEnd ==
  ASSUME IInv, TellInv, Write \/ WriteFails \/ Return
  PROVE  TellInv'
<1>1. /\ pc = "render" /\ pc' \in {"render", "exited"} /\ UNCHANGED <<input, report>>
  BY DEF Write, WriteFails, Return, Exit, scanning
<1>2. Reported /\ pc' # "sort"
  BY <1>1 DEF Reported
<1>3. /\ Kept' = Kept /\ Late' = Late /\ FoundAt' = FoundAt /\ Endpoint' = Endpoint
      /\ SkippedBefore(Len(input.files) + 1)' = SkippedBefore(Len(input.files) + 1)
  BY <1>1, PlacesStay DEF SkippedBefore, Shipped
<1>4. CountInv' /\ SkipInv'
  BY <1>1, <1>2, <1>3 DEF TellInv, CountInv, SkipInv
<1>5. FinishInv'
  BY <1>1, <1>2, <1>3 DEF TellInv, FinishInv
<1> QED  BY <1>4, <1>5 DEF TellInv

LEMMA TellStutter == IInv /\ TellInv /\ UNCHANGED vars => TellInv'
<1>. SUFFICES ASSUME TellInv, UNCHANGED vars PROVE TellInv'
  OBVIOUS
<1>1. UNCHANGED <<input, pc, at, report, reason>>
  BY DEF vars, scanning, output
<1>2. /\ Kept' = Kept /\ Late' = Late /\ FoundAt' = FoundAt /\ Endpoint' = Endpoint /\ Reported' = Reported
      /\ SkippedBefore(Len(input.files) + 1)' = SkippedBefore(Len(input.files) + 1)
      /\ KeptBefore(at + 1)' = KeptBefore(at + 1) /\ SkippedBefore(at + 1)' = SkippedBefore(at + 1)
      /\ KeptBefore(at)' = KeptBefore(at) /\ SkippedBefore(at)' = SkippedBefore(at)
  BY <1>1, PlacesStay DEF KeptBefore, SkippedBefore, Shipped, Reported
<1>3. CountInv' /\ SkipInv'
  BY <1>1, <1>2 DEF TellInv, CountInv, SkipInv
<1>4. FinishInv'
  BY <1>1, <1>2 DEF TellInv, FinishInv
<1> QED  BY <1>3, <1>4 DEF TellInv

LEMMA TellStep == IInv /\ TellInv /\ [Next]_vars => TellInv'
<1>. SUFFICES ASSUME IInv, TellInv, [Next]_vars PROVE TellInv'
  OBVIOUS
<1>1. CASE RejectPath \/ SpawnFails \/ Spawn \/ Panic \/ Collect
  BY <1>1, TellStart
<1>2. CASE SkipTestFile \/ SkipFile
  BY <1>2, TellSkip
<1>3. CASE CheckFile
  BY <1>3, TellCheck
<1>4. CASE CollectId \/ EndFile
  BY <1>4, TellIds
<1>5. CASE EndFiles
  BY <1>5, TellEndFiles
<1>6. CASE Finish
  BY <1>6, TellFinish
<1>7. CASE Write \/ WriteFails \/ Return
  BY <1>7, TellEnd
<1>8. CASE UNCHANGED vars
  BY <1>8, TellStutter
<1> QED  BY <1>1, <1>2, <1>3, <1>4, <1>5, <1>6, <1>7, <1>8 DEF Next

LEMMA TellInvariance == Spec => []TellInv
<1>1. Init => TellInv
  BY TellInit
<1>2. IInv /\ TellInv /\ [Next]_vars => TellInv'
  BY TellStep
<1> QED  BY <1>1, <1>2, Invariance, PTL DEF Spec

----------------------------------------------------------------------------
(***************************************************************************)
(* The documents: where they tell the findings, and what else they say.    *)
(***************************************************************************)

\* The items of d that tell findings are fs, behind the first k.
TellsAt(d, k, fs) ==
  /\ {i \in DOMAIN d : d[i].what = "finding"} = {k + i : i \in 1 .. Len(fs)}
  /\ \A i \in 1 .. Len(fs) : d[k + i] = fs[i]

Silent(s) == \A i \in DOMAIN s : s[i].what # "finding"

LEMMA ListConcatProperties ==
  ASSUME NEW s, NEW t, IsList(s), IsList(t)
  PROVE  /\ Len(s) \in Nat /\ DOMAIN s = 1 .. Len(s) /\ Len(t) \in Nat /\ DOMAIN t = 1 .. Len(t)
         /\ DOMAIN (s \o t) = 1 .. Len(s) + Len(t)
         /\ \A i \in 1 .. Len(s) : (s \o t)[i] = s[i]
         /\ \A i \in 1 .. Len(t) : (s \o t)[Len(s) + i] = t[i]
         /\ Range(s \o t) = Range(s) \cup Range(t)
<1>. DEFINE S == Range(s) \cup Range(t)
<1>1. s \in Seq(S) /\ t \in Seq(S)
  BY SeqMonotonic DEF IsList
<1>. HIDE DEF S
<1>2. /\ Len(s) \in Nat /\ DOMAIN s = 1 .. Len(s) /\ Len(t) \in Nat /\ DOMAIN t = 1 .. Len(t)
      /\ DOMAIN (s \o t) = 1 .. Len(s) + Len(t)
      /\ \A i \in 1 .. Len(s) + Len(t) : (s \o t)[i] = IF i <= Len(s) THEN s[i] ELSE t[i - Len(s)]
  BY <1>1, ConcatProperties, LenProperties
<1>3. \A i \in 1 .. Len(s) : i \in 1 .. Len(s) + Len(t) /\ i <= Len(s)
  BY <1>2
<1>4. \A i \in 1 .. Len(t) : Len(s) + i \in 1 .. Len(s) + Len(t) /\ ~(Len(s) + i <= Len(s)) /\ (Len(s) + i) - Len(s) = i
  BY <1>2
<1>5. Range(s \o t) = Range(s) \cup Range(t)
  BY <1>1, RangeOfConcat
<1>6. \A i \in 1 .. Len(t) : (s \o t)[Len(s) + i] = t[i]
  BY <1>2, <1>4
<1> QED  BY <1>2, <1>3, <1>5, <1>6

LEMMA SilentConcat ==
  ASSUME NEW s, NEW t, IsList(s), IsList(t), Silent(s), Silent(t)
  PROVE  Silent(s \o t)
<1>1. Range(s \o t) = Range(s) \cup Range(t)
  BY ListConcatProperties
<1>2. \A x \in Range(s) \cup Range(t) : x.what # "finding"
  BY DEF Silent, Range
<1> QED  BY <1>1, <1>2 DEF Silent, Range

LEMMA TellsBehind ==
  ASSUME NEW s, NEW fs, IsList(s), IsList(fs), Silent(s), \A i \in DOMAIN fs : fs[i].what = "finding"
  PROVE  TellsAt(s \o fs, Len(s), fs)
<1>1. /\ Len(s) \in Nat /\ DOMAIN s = 1 .. Len(s) /\ Len(fs) \in Nat /\ DOMAIN fs = 1 .. Len(fs)
      /\ DOMAIN (s \o fs) = 1 .. Len(s) + Len(fs)
      /\ \A i \in 1 .. Len(s) : (s \o fs)[i] = s[i]
      /\ \A i \in 1 .. Len(fs) : (s \o fs)[Len(s) + i] = fs[i]
  BY ListConcatProperties
<1>. DEFINE d == s \o fs
            k == Len(s)
<1>2. ASSUME NEW j \in DOMAIN d, d[j].what = "finding"
      PROVE  \E i \in 1 .. Len(fs) : j = k + i
  <2>1. ~(j \in 1 .. k)
    BY <1>1, <1>2 DEF Silent
  <2>2. j - k \in 1 .. Len(fs) /\ j = k + (j - k)
    BY <1>1, <1>2, <2>1
  <2> QED  BY <2>2
<1>3. ASSUME NEW i \in 1 .. Len(fs)
      PROVE  k + i \in DOMAIN d /\ d[k + i].what = "finding"
  BY <1>1
<1>4. \A i \in 1 .. Len(fs) : d[k + i] = fs[i]
  BY <1>1
<1>. HIDE DEF d, k
<1>5. {i \in DOMAIN d : d[i].what = "finding"} = {k + i : i \in 1 .. Len(fs)}
  BY <1>2, <1>3
<1> QED  BY <1>4, <1>5 DEF TellsAt, d, k

LEMMA TellsBefore ==
  ASSUME NEW d, NEW k \in Nat, NEW fs, NEW t, TellsAt(d, k, fs), IsList(d), IsList(t), Silent(t)
  PROVE  TellsAt(d \o t, k, fs)
<1>1. /\ Len(d) \in Nat /\ DOMAIN d = 1 .. Len(d) /\ Len(t) \in Nat /\ DOMAIN t = 1 .. Len(t)
      /\ DOMAIN (d \o t) = 1 .. Len(d) + Len(t)
      /\ \A i \in 1 .. Len(d) : (d \o t)[i] = d[i]
      /\ \A i \in 1 .. Len(t) : (d \o t)[Len(d) + i] = t[i]
  BY ListConcatProperties
<1>. DEFINE u == d \o t
            n == Len(d)
<1>2. \A j \in DOMAIN u : u[j].what = "finding" => j \in DOMAIN d
  <2>1. SUFFICES ASSUME NEW j \in DOMAIN u, j \notin DOMAIN d PROVE u[j].what # "finding"
    OBVIOUS
  <2>2. j - n \in 1 .. Len(t) /\ j = n + (j - n)
    BY <1>1, <2>1
  <2>3. u[j] = t[j - n]
    BY <1>1, <2>2
  <2> QED  BY <1>1, <2>2, <2>3 DEF Silent
<1>3. \A j \in DOMAIN d : j \in DOMAIN u /\ u[j] = d[j]
  BY <1>1
<1>. HIDE DEF u, n
<1>4. {i \in DOMAIN u : u[i].what = "finding"} = {i \in DOMAIN d : d[i].what = "finding"}
  BY <1>2, <1>3
<1>5. \A i \in 1 .. Len(fs) : k + i \in DOMAIN d
  BY DEF TellsAt
<1>6. \A i \in 1 .. Len(fs) : u[k + i] = fs[i]
  BY <1>3, <1>5 DEF TellsAt
<1> QED  BY <1>4, <1>6 DEF TellsAt, u

\* What the formats make of a finding: its mark and the word for its severity.
MarksTold == IF input.format = "human" THEN LiveAt(report) ELSE report.live
GradesTold == IF input.format = "sarif" THEN Level ELSE Grades
FindingsTold == Findings(report, MarksTold, GradesTold)

\* An item says nothing that the report does not; only the human report counts.
Truthful(y) ==
  /\ y.what = "skipped" => \E i \in DOMAIN report.skipped : y.of = report.skipped[i]
  /\ y.what = "program" => \E i \in DOMAIN report.deployments : y.of = report.deployments[i]
  /\ y.what = "cluster" => report.deployments # <<>>
  /\ y.what = "rules" => y.of = {report.findings[i].rule : i \in DOMAIN report.findings}
  /\ y.what = "counts" => input.format = "human" /\ y.of = [s \in Severity |-> Count(report, s)]
  /\ y.what = "no issues" => report.findings = <<>>

\* A part of a document that tells no findings.
Part(s) == IsList(s) /\ Silent(s) /\ \A y \in Range(s) : Truthful(y)

LEMMA PartConcat ==
  ASSUME NEW s, NEW t, Part(s), Part(t)
  PROVE  Part(s \o t) /\ Range(s \o t) = Range(s) \cup Range(t)
<1>1. IsList(s \o t) /\ Silent(s \o t) /\ Range(s \o t) = Range(s) \cup Range(t)
  BY ConcatOfLists, SilentConcat, ListConcatProperties DEF Part
<1>2. \A y \in Range(s) \cup Range(t) : Truthful(y)
  BY DEF Part
<1> QED  BY <1>1, <1>2 DEF Part

LEMMA SinglePart ==
  ASSUME NEW y, Truthful(y), y.what # "finding"
  PROVE  Part(<<y>>) /\ Range(<<y>>) = {y}
<1>1. DOMAIN <<y>> = {1} /\ <<y>>[1] = y
  OBVIOUS
<1>2. Range(<<y>>) = {y}
  BY <1>1 DEF Range
<1>3. Silent(<<y>>)
  BY <1>1 DEF Silent
<1> QED  BY <1>2, <1>3, SinglesAreLists DEF Part

LEMMA EmptyPart == Part(<<>>) /\ Range(<<>>) = {}
<1>1. DOMAIN <<>> = {}
  OBVIOUS
<1>2. IsList(<<>>)
  BY EmptySeq, ListsAreSequences
<1> QED  BY <1>1, <1>2 DEF Part, Silent, Range

LEMMA EachPart ==
  ASSUME NEW what, what # "finding", NEW all, IsList(all),
         \A i \in DOMAIN all : Truthful(Item(what, all[i]))
  PROVE  Part(Each(what, all)) /\ Range(Each(what, all)) = {Item(what, all[i]) : i \in DOMAIN all}
<1>1. IsList(Each(what, all))
  BY PartsAreLists
<1>2. DOMAIN Each(what, all) = DOMAIN all /\ \A i \in DOMAIN all : Each(what, all)[i] = Item(what, all[i])
  BY DEF Each
<1>3. \A i \in DOMAIN all : Item(what, all[i]).what = what
  BY DEF Item
<1>4. Range(Each(what, all)) = {Item(what, all[i]) : i \in DOMAIN all}
  BY <1>2 DEF Range
<1> QED  BY <1>1, <1>2, <1>3, <1>4 DEF Part, Silent

LEMMA ChosenPart ==
  ASSUME NEW chosen \in BOOLEAN, NEW s, chosen => Part(s)
  PROVE  Part(When(chosen, s)) /\ Range(When(chosen, s)) = IF chosen THEN Range(s) ELSE {}
BY EmptyPart DEF When

(***************************************************************************)
(* The findings stand together, in the order of the report; every part     *)
(* says what the report does; and no file that was skipped, nor, in the    *)
(* formats that speak of the cluster, an answer is left out.               *)
(***************************************************************************)
DocumentTells ==
  /\ \E k \in Nat : TellsAt(Document(report), k, FindingsTold)
  /\ \A y \in Range(Document(report)) : y.what = "finding" \/ Truthful(y)
  /\ \A i \in DOMAIN report.skipped : Item("skipped", report.skipped[i]) \in Range(Document(report))
  /\ input.format # "sarif" =>
       \A i \in DOMAIN report.deployments : Item("program", report.deployments[i]) \in Range(Document(report))

\* d tells the findings fs, once, and all else it says is true.
Doc(d, fs) ==
  /\ IsList(d)
  /\ \E k \in Nat : TellsAt(d, k, fs)
  /\ \A y \in Range(d) : y.what = "finding" \/ Truthful(y)

LEMMA DocBegins ==
  ASSUME NEW s, NEW fs, Part(s), IsList(fs), \A i \in DOMAIN fs : fs[i].what = "finding"
  PROVE  Doc(s \o fs, fs) /\ Range(s \o fs) = Range(s) \cup Range(fs)
<1>1. IsList(s) /\ Silent(s) /\ \A y \in Range(s) : Truthful(y)
  BY DEF Part
<1>2. IsList(s \o fs) /\ Range(s \o fs) = Range(s) \cup Range(fs) /\ Len(s) \in Nat
  BY <1>1, ConcatOfLists, ListConcatProperties
<1>3. TellsAt(s \o fs, Len(s), fs)
  BY <1>1, TellsBehind
<1>4. \A y \in Range(fs) : y.what = "finding"
  BY DEF Range
<1> QED  BY <1>1, <1>2, <1>3, <1>4 DEF Doc

LEMMA DocGoesOn ==
  ASSUME NEW d, NEW fs, NEW t, Doc(d, fs), Part(t)
  PROVE  Doc(d \o t, fs) /\ Range(d \o t) = Range(d) \cup Range(t)
<1>1. IsList(t) /\ Silent(t) /\ \A y \in Range(t) : Truthful(y)
  BY DEF Part
<1>2. PICK k \in Nat : TellsAt(d, k, fs)
  BY DEF Doc
<1>3. TellsAt(d \o t, k, fs)
  BY <1>1, <1>2, TellsBefore DEF Doc
<1>4. IsList(d \o t) /\ Range(d \o t) = Range(d) \cup Range(t)
  BY <1>1, ConcatOfLists, ListConcatProperties DEF Doc
<1>5. \A y \in Range(d) : y.what = "finding" \/ Truthful(y)
  BY DEF Doc
<1> QED  BY <1>1, <1>3, <1>4, <1>5 DEF Doc

\* The parts that the formats share.
LEMMA SharedParts ==
  ASSUME report \in ScanReport
  PROVE  LET cluster == <<Item("cluster", Len(report.deployments))>>
             programs == Each("program", report.deployments)
             asked == When(report.deployments # <<>>, cluster \o programs)
             skipped == Each("skipped", report.skipped)
         IN  /\ Part(skipped) /\ Range(skipped) = {Item("skipped", report.skipped[i]) : i \in DOMAIN report.skipped}
             /\ Part(asked)
             /\ \A i \in DOMAIN report.deployments : Item("program", report.deployments[i]) \in Range(asked)
<1>. DEFINE cluster == <<Item("cluster", Len(report.deployments))>>
            programs == Each("program", report.deployments)
            asked == When(report.deployments # <<>>, cluster \o programs)
            skipped == Each("skipped", report.skipped)
<1>1. IsList(report.skipped) /\ IsList(report.deployments)
  BY ListsAreSequences DEF ScanReport
<1>2. Part(skipped) /\ Range(skipped) = {Item("skipped", report.skipped[i]) : i \in DOMAIN report.skipped}
  <2>. DEFINE all == report.skipped
  <2>1. \A i \in DOMAIN all : Truthful(Item("skipped", all[i]))
    BY DEF Truthful, Item
  <2>2. IsList(all) /\ "skipped" # "finding"
    BY <1>1
  <2>. HIDE DEF all
  <2>3. Part(Each("skipped", all)) /\ Range(Each("skipped", all)) = {Item("skipped", all[i]) : i \in DOMAIN all}
    BY <2>1, <2>2, EachPart
  <2> QED  BY <2>3 DEF all
<1>3. Part(programs) /\ Range(programs) = {Item("program", report.deployments[i]) : i \in DOMAIN report.deployments}
  <2>. DEFINE all == report.deployments
  <2>1. \A i \in DOMAIN all : Truthful(Item("program", all[i]))
    BY DEF Truthful, Item
  <2>2. IsList(all) /\ "program" # "finding"
    BY <1>1
  <2>. HIDE DEF all
  <2>3. Part(Each("program", all)) /\ Range(Each("program", all)) = {Item("program", all[i]) : i \in DOMAIN all}
    BY <2>1, <2>2, EachPart
  <2> QED  BY <2>3 DEF all
<1>4. report.deployments # <<>> => Part(cluster)
  <2>1. report.deployments # <<>> => Truthful(Item("cluster", Len(report.deployments)))
    BY DEF Truthful, Item
  <2>2. Item("cluster", Len(report.deployments)).what # "finding"
    BY DEF Item
  <2> QED  BY <2>1, <2>2, SinglePart
<1>. HIDE DEF cluster, programs, skipped
<1>5. report.deployments # <<>> => Part(cluster \o programs) /\ Range(programs) \subseteq Range(cluster \o programs)
  BY <1>3, <1>4, PartConcat
<1>6. Part(asked) /\ Range(asked) = IF report.deployments # <<>> THEN Range(cluster \o programs) ELSE {}
  BY <1>5, ChosenPart
<1>7. \A i \in DOMAIN report.deployments : Item("program", report.deployments[i]) \in Range(asked)
  <2>1. report.deployments = <<>> => DOMAIN report.deployments = {}
    OBVIOUS
  <2> QED  BY <1>3, <1>5, <1>6, <2>1
<1> QED  BY <1>2, <1>6, <1>7 DEF cluster, programs, skipped

LEMMA FindingsTellThemselves ==
  ASSUME report \in ScanReport
  PROVE  /\ IsList(FindingsTold) /\ DOMAIN FindingsTold = DOMAIN report.findings
         /\ \A i \in DOMAIN FindingsTold :
              FindingsTold[i] = Item("finding", [rule |-> report.findings[i].rule, file |-> report.findings[i].file,
                                                 line |-> report.findings[i].line,
                                                 grade |-> GradesTold[report.findings[i].severity],
                                                 live |-> MarksTold[i]])
         /\ \A i \in DOMAIN FindingsTold : FindingsTold[i].what = "finding"
<1>1. IsList(report.findings)
  BY ListsAreSequences DEF ScanReport
<1>2. IsList(FindingsTold)
  BY <1>1, FindingsAreLists DEF FindingsTold
<1>3. DOMAIN FindingsTold = DOMAIN report.findings
  BY DEF FindingsTold, Findings
<1>4. \A i \in DOMAIN report.findings :
        FindingsTold[i] = Item("finding", [rule |-> report.findings[i].rule, file |-> report.findings[i].file,
                                           line |-> report.findings[i].line,
                                           grade |-> GradesTold[report.findings[i].severity],
                                           live |-> MarksTold[i]])
  BY DEF FindingsTold, Findings
<1>5. \A i \in DOMAIN report.findings : FindingsTold[i].what = "finding"
  <2>1. \A of : Item("finding", of).what = "finding"
    BY DEF Item
  <2> QED  BY <1>4, <2>1
<1> QED  BY <1>2, <1>3, <1>4, <1>5

LEMMA HumanTells ==
  ASSUME report \in ScanReport, input.format = "human"
  PROVE  /\ Doc(Body(report), FindingsTold)
         /\ \A i \in DOMAIN report.skipped : Item("skipped", report.skipped[i]) \in Range(Body(report))
         /\ \A i \in DOMAIN report.deployments : Item("program", report.deployments[i]) \in Range(Body(report))
<1>. DEFINE header == <<Item("header", <<report.scanned, report.tests>>)>>
            skipped == Each("skipped", report.skipped)
            asked == When(report.deployments # <<>>,
                          <<Item("cluster", Len(report.deployments))>> \o Each("program", report.deployments))
            counts == When(report.findings # <<>>, <<Item("counts", [s \in Severity |-> Count(report, s)])>>)
            fs == FindingsTold
<1>1. Body(report) = header \o skipped \o asked \o fs \o counts
  BY DEF Body, Human, FindingsTold, MarksTold, GradesTold
<1>2. Part(header)
  <2>1. Truthful(Item("header", <<report.scanned, report.tests>>))
        /\ Item("header", <<report.scanned, report.tests>>).what # "finding"
    BY DEF Truthful, Item
  <2> QED  BY <2>1, SinglePart
<1>3. Part(counts)
  <2>1. Truthful(Item("counts", [s \in Severity |-> Count(report, s)]))
        /\ Item("counts", [s \in Severity |-> Count(report, s)]).what # "finding"
    BY DEF Truthful, Item
  <2>2. Part(<<Item("counts", [s \in Severity |-> Count(report, s)])>>)
    BY <2>1, SinglePart
  <2> QED  BY <2>2, ChosenPart
<1>4. /\ Part(skipped) /\ Range(skipped) = {Item("skipped", report.skipped[i]) : i \in DOMAIN report.skipped}
      /\ Part(asked)
      /\ \A i \in DOMAIN report.deployments : Item("program", report.deployments[i]) \in Range(asked)
  BY SharedParts
<1>5. IsList(fs) /\ \A i \in DOMAIN fs : fs[i].what = "finding"
  BY FindingsTellThemselves
<1>. HIDE DEF header, skipped, asked, counts, fs
<1>6. Part(header \o skipped) /\ Range(header \o skipped) = Range(header) \cup Range(skipped)
  BY <1>2, <1>4, PartConcat
<1>7. /\ Part(header \o skipped \o asked)
      /\ Range(header \o skipped \o asked) = Range(header \o skipped) \cup Range(asked)
  BY <1>4, <1>6, PartConcat
<1>8. /\ Doc(header \o skipped \o asked \o fs, fs)
      /\ Range(header \o skipped \o asked \o fs) = Range(header \o skipped \o asked) \cup Range(fs)
  BY <1>5, <1>7, DocBegins
<1>9. /\ Doc(header \o skipped \o asked \o fs \o counts, fs)
      /\ Range(header \o skipped \o asked \o fs \o counts)
           = Range(header \o skipped \o asked \o fs) \cup Range(counts)
  BY <1>3, <1>8, DocGoesOn
<1>10. Range(skipped) \subseteq Range(Body(report)) /\ Range(asked) \subseteq Range(Body(report))
  BY <1>1, <1>6, <1>7, <1>8, <1>9
<1> QED  BY <1>1, <1>4, <1>9, <1>10 DEF fs

LEMMA JsonTells ==
  ASSUME report \in ScanReport, input.format = "json"
  PROVE  /\ Doc(Body(report), FindingsTold)
         /\ \A i \in DOMAIN report.skipped : Item("skipped", report.skipped[i]) \in Range(Body(report))
         /\ \A i \in DOMAIN report.deployments : Item("program", report.deployments[i]) \in Range(Body(report))
<1>. DEFINE open == <<Item("open", "findings")>>
            skipped == Each("skipped", report.skipped)
            asked == When(report.deployments # <<>>,
                          <<Item("cluster", Len(report.deployments))>> \o Each("program", report.deployments))
            close == <<Item("close", None)>>
            fs == FindingsTold
<1>1. Body(report) = open \o fs \o asked \o skipped \o close
  BY DEF Body, Json, FindingsTold, MarksTold, GradesTold
<1>2. Part(open) /\ Part(close)
  <2>1. Truthful(Item("open", "findings")) /\ Item("open", "findings").what # "finding"
    BY DEF Truthful, Item
  <2>2. Truthful(Item("close", None)) /\ Item("close", None).what # "finding"
    BY DEF Truthful, Item
  <2> QED  BY <2>1, <2>2, SinglePart
<1>3. /\ Part(skipped) /\ Range(skipped) = {Item("skipped", report.skipped[i]) : i \in DOMAIN report.skipped}
      /\ Part(asked)
      /\ \A i \in DOMAIN report.deployments : Item("program", report.deployments[i]) \in Range(asked)
  BY SharedParts
<1>4. IsList(fs) /\ \A i \in DOMAIN fs : fs[i].what = "finding"
  BY FindingsTellThemselves
<1>. HIDE DEF open, skipped, asked, close, fs
<1>5. Doc(open \o fs, fs)
  BY <1>2, <1>4, DocBegins
<1>6. Doc(open \o fs \o asked, fs) /\ Range(open \o fs \o asked) = Range(open \o fs) \cup Range(asked)
  BY <1>3, <1>5, DocGoesOn
<1>7. /\ Doc(open \o fs \o asked \o skipped, fs)
      /\ Range(open \o fs \o asked \o skipped) = Range(open \o fs \o asked) \cup Range(skipped)
  BY <1>3, <1>6, DocGoesOn
<1>8. /\ Doc(open \o fs \o asked \o skipped \o close, fs)
      /\ Range(open \o fs \o asked \o skipped \o close)
           = Range(open \o fs \o asked \o skipped) \cup Range(close)
  BY <1>2, <1>7, DocGoesOn
<1>9. Range(skipped) \subseteq Range(Body(report)) /\ Range(asked) \subseteq Range(Body(report))
  BY <1>1, <1>6, <1>7, <1>8
<1> QED  BY <1>1, <1>3, <1>8, <1>9 DEF fs

LEMMA SarifTells ==
  ASSUME report \in ScanReport, input.format = "sarif"
  PROVE  /\ Doc(Body(report), FindingsTold)
         /\ \A i \in DOMAIN report.skipped : Item("skipped", report.skipped[i]) \in Range(Body(report))
<1>. DEFINE open == <<Item("open", "invocations")>>
            skipped == Each("skipped", report.skipped)
            rules == Item("rules", {report.findings[i].rule : i \in DOMAIN report.findings})
            close == Item("close", None)
            end == <<rules, close>>
            fs == FindingsTold
<1>1. Body(report) = open \o skipped \o fs \o end
  BY DEF Body, Sarif, FindingsTold, MarksTold, GradesTold
<1>2. Part(open)
  <2>1. Truthful(Item("open", "invocations")) /\ Item("open", "invocations").what # "finding"
    BY DEF Truthful, Item
  <2> QED  BY <2>1, SinglePart
<1>3. Part(end)
  <2>1. Truthful(rules) /\ rules.what # "finding" /\ Truthful(close) /\ close.what # "finding"
    BY DEF Truthful, Item
  <2>. HIDE DEF rules, close
  <2>2. DOMAIN end = {1, 2} /\ end[1] = rules /\ end[2] = close /\ end \in Seq({rules, close})
    OBVIOUS
  <2>. HIDE DEF end
  <2>3. IsList(end)
    BY <2>2, ListsAreSequences
  <2> QED  BY <2>1, <2>2, <2>3 DEF Part, Silent, Range
<1>4. Part(skipped) /\ Range(skipped) = {Item("skipped", report.skipped[i]) : i \in DOMAIN report.skipped}
  BY SharedParts
<1>5. IsList(fs) /\ \A i \in DOMAIN fs : fs[i].what = "finding"
  BY FindingsTellThemselves
<1>. HIDE DEF open, skipped, end, fs
<1>6. Part(open \o skipped) /\ Range(open \o skipped) = Range(open) \cup Range(skipped)
  BY <1>2, <1>4, PartConcat
<1>7. /\ Doc(open \o skipped \o fs, fs)
      /\ Range(open \o skipped \o fs) = Range(open \o skipped) \cup Range(fs)
  BY <1>5, <1>6, DocBegins
<1>8. /\ Doc(open \o skipped \o fs \o end, fs)
      /\ Range(open \o skipped \o fs \o end) = Range(open \o skipped \o fs) \cup Range(end)
  BY <1>3, <1>7, DocGoesOn
<1>9. Range(skipped) \subseteq Range(Body(report))
  BY <1>1, <1>6, <1>7, <1>8
<1> QED  BY <1>1, <1>4, <1>8, <1>9 DEF fs

LEMMA EveryFormatTells ==
  ASSUME report \in ScanReport, input.format \in Format
  PROVE  DocumentTells
<1>. DEFINE body == Body(report)
            last == Item(IF input.format = "human" /\ report.findings = <<>> THEN "no issues" ELSE "newline", None)
<1>1. /\ Doc(body, FindingsTold)
      /\ \A i \in DOMAIN report.skipped : Item("skipped", report.skipped[i]) \in Range(body)
      /\ input.format # "sarif" =>
           \A i \in DOMAIN report.deployments : Item("program", report.deployments[i]) \in Range(body)
  BY HumanTells, JsonTells, SarifTells DEF Format
<1>2. Part(<<last>>)
  <2>1. Truthful(last) /\ last.what # "finding"
    BY DEF Truthful, Item
  <2> QED  BY <2>1, SinglePart
<1>3. Document(report) = Append(body, last)
  BY DEF Document
<1>. HIDE DEF last, body
<1>4. Append(body, last) = body \o <<last>>
  BY <1>1 DEF Doc, IsList
<1>5. Doc(body \o <<last>>, FindingsTold) /\ Range(body \o <<last>>) = Range(body) \cup Range(<<last>>)
  BY <1>1, <1>2, DocGoesOn
<1> QED  BY <1>1, <1>3, <1>4, <1>5 DEF DocumentTells, Doc

----------------------------------------------------------------------------
LEMMA EqualCounts ==
  ASSUME NEW A, IsFiniteSet(A), NEW B, NEW f \in [A -> B],
         \A x, y \in A : f[x] = f[y] => x = y, \A y \in B : \E x \in A : f[x] = y
  PROVE  Cardinality(B) = Cardinality(A)
<1>1. f \in Injection(A, B)
  BY DEF Injection, IsInjective
<1>2. f \in Surjection(A, B)
  BY DEF Surjection
<1>3. ExistsBijection(A, B)
  BY <1>1, <1>2 DEF ExistsBijection, Bijection
<1> QED  BY <1>3, FS_Bijection

\* The places of the list that hold x.
Listed(x) == {i \in DOMAIN report.findings : report.findings[i] = x}

LEMMA ListedOften ==
  ASSUME TypeOK, Lists(report.findings, Kept \cup Late, FoundAt)
  PROVE  \A x : IsFiniteSet(Listed(x)) /\ Cardinality(Occurrences(x)) = Cardinality(Listed(x))
<1>. DEFINE F == report.findings
<1>1. Len(F) \in Nat /\ DOMAIN F = 1 .. Len(F)
  BY InputIsTyped, LenProperties
<1>2. PICK b \in [DOMAIN F -> Kept \cup Late] :
        /\ \A i, j \in DOMAIN F : b[i] = b[j] => i = j
        /\ \A y \in Kept \cup Late : \E i \in DOMAIN F : b[i] = y
        /\ \A i \in DOMAIN F : F[i] = FoundAt[b[i]]
  BY DEF Lists
<1>3. ASSUME NEW x
      PROVE  Occurrences(x) = {y \in Kept \cup Late : FoundAt[y] = x}
  <2>1. \A y \in Kept : y[1] # 0 /\ FoundAt[y] = input.files[y[1]].findings[y[2]]
    <3>1. \A y \in Kept : y = <<y[1], y[2]>>
      BY DEF Kept
    <3> QED  BY <3>1, FoundAtPlaces
  <2>2. \A y : y \in Late /\ FoundAt[y] = x <=> \E i \in DOMAIN input.late : input.late[i] = x /\ y = <<0, i>>
    BY FoundAtPlaces DEF Late
  <2>. DEFINE late == {<<0, i>> : i \in {j \in DOMAIN input.late : input.late[j] = x}}
  <2>3. \A y : y \in late <=> y \in Late /\ FoundAt[y] = x
    BY <2>2
  <2>4. Occurrences(x) = {y \in Kept : input.files[y[1]].findings[y[2]] = x} \cup late
    BY DEF Occurrences
  <2>. HIDE DEF late
  <2> QED  BY <2>1, <2>3, <2>4
<1>4. ASSUME NEW x
      PROVE  IsFiniteSet(Listed(x)) /\ Cardinality(Occurrences(x)) = Cardinality(Listed(x))
  <2>. DEFINE f == [i \in Listed(x) |-> b[i]]
              B == {y \in Kept \cup Late : FoundAt[y] = x}
  <2>1. IsFiniteSet(Listed(x))
    <3>1. IsFiniteSet(1 .. Len(F))
      BY <1>1, FS_Interval
    <3>2. Listed(x) \subseteq 1 .. Len(F)
      BY <1>1 DEF Listed
    <3> QED  BY <3>1, <3>2, FS_Subset
  <2>2. f \in [Listed(x) -> B]
    BY <1>2 DEF Listed
  <2>3. \A i, j \in Listed(x) : f[i] = f[j] => i = j
    BY <1>2 DEF Listed
  <2>4. \A y \in B : \E i \in Listed(x) : f[i] = y
    BY <1>2 DEF Listed
  <2>. HIDE DEF f, B
  <2>5. Cardinality(B) = Cardinality(Listed(x))
    BY <2>1, <2>2, <2>3, <2>4, EqualCounts
  <2> QED  BY <2>1, <2>5, <1>3 DEF B
<1> QED  BY <1>4

(***************************************************************************)
(* Each finding of the report is told at a place of its own, with all that *)
(* it is and as loud as it is severe.                                      *)
(***************************************************************************)
LEMMA FindingsAreTold ==
  ASSUME TypeOK, DocumentTells
  PROVE  \E k \in Nat :
           /\ Told("finding") = {k + i : i \in DOMAIN report.findings}
           /\ \A i \in DOMAIN report.findings :
                /\ Of(k + i).rule = report.findings[i].rule
                /\ Of(k + i).live = MarksTold[i]
                /\ Of(k + i).grade = GradesTold[report.findings[i].severity]
                /\ Loudness[Of(k + i).grade] = Rank[report.findings[i].severity]
           /\ \A x \in Finding : Tellings(x) = {k + i : i \in Listed(x)}
<1>. DEFINE F == report.findings
            fs == FindingsTold
<1>1. report \in ScanReport /\ F \in Seq(Finding) /\ Len(F) \in Nat /\ DOMAIN F = 1 .. Len(F)
      /\ \A i \in DOMAIN F : F[i] \in Finding
  BY InputIsTyped, LenProperties, ElementOfSeq
<1>2. /\ IsList(fs) /\ DOMAIN fs = DOMAIN F
      /\ \A i \in DOMAIN F :
           fs[i] = Item("finding", [rule |-> F[i].rule, file |-> F[i].file, line |-> F[i].line,
                                    grade |-> GradesTold[F[i].severity], live |-> MarksTold[i]])
  BY <1>1, FindingsTellThemselves
<1>3. DOMAIN fs = 1 .. Len(fs)
  BY <1>2, ListsHaveLengths
<1>4. PICK k \in Nat : TellsAt(Document(report), k, fs)
  BY DEF DocumentTells
<1>. HIDE DEF fs
<1>5. Told("finding") = {k + i : i \in DOMAIN F}
  BY <1>2, <1>3, <1>4 DEF Told, TellsAt
<1>6. \A i \in DOMAIN F : Document(report)[k + i] = fs[i]
  BY <1>2, <1>3, <1>4 DEF TellsAt
<1>7. \A i \in DOMAIN F : Of(k + i) = [rule |-> F[i].rule, file |-> F[i].file, line |-> F[i].line,
                                       grade |-> GradesTold[F[i].severity], live |-> MarksTold[i]]
  <2>1. \A of : Item("finding", of).of = of
    BY DEF Item
  <2> QED  BY <1>2, <1>6, <2>1 DEF Of
<1>8. \A s \in Severity : Loudness[GradesTold[s]] = Rank[s]
  BY DEF Severity, Loudness, GradesTold, Grades, Level, Rank
<1>9. \A s, t \in Severity : Rank[s] = Rank[t] => s = t
  BY DEF Severity, Rank
<1>10. \A i \in DOMAIN F : /\ Of(k + i).rule = F[i].rule
                           /\ Of(k + i).file = F[i].file
                           /\ Of(k + i).line = F[i].line
                           /\ Of(k + i).live = MarksTold[i]
                           /\ Of(k + i).grade = GradesTold[F[i].severity]
                           /\ Loudness[Of(k + i).grade] = Rank[F[i].severity]
  <2>1. SUFFICES ASSUME NEW i \in DOMAIN F
                 PROVE  /\ Of(k + i).rule = F[i].rule /\ Of(k + i).file = F[i].file /\ Of(k + i).line = F[i].line
                        /\ Of(k + i).live = MarksTold[i] /\ Of(k + i).grade = GradesTold[F[i].severity]
                        /\ Loudness[Of(k + i).grade] = Rank[F[i].severity]
    OBVIOUS
  <2>2. F[i].severity \in Severity
    BY <1>1 DEF Finding
  <2>3. Of(k + i) = [rule |-> F[i].rule, file |-> F[i].file, line |-> F[i].line,
                     grade |-> GradesTold[F[i].severity], live |-> MarksTold[i]]
    BY <1>7
  <2>. HIDE DEF F
  <2>4. Of(k + i).grade = GradesTold[F[i].severity]
    BY <2>3
  <2> QED  BY <1>8, <2>2, <2>3, <2>4
<1>11. ASSUME NEW x \in Finding
       PROVE  Tellings(x) = {k + i : i \in Listed(x)}
  <2>1. \A i \in DOMAIN F : F[i] = x <=> /\ F[i].rule = x.rule /\ F[i].file = x.file /\ F[i].line = x.line
                                         /\ Rank[F[i].severity] = Rank[x.severity]
    <3>1. ASSUME NEW i \in DOMAIN F, F[i].rule = x.rule, F[i].file = x.file, F[i].line = x.line,
                 Rank[F[i].severity] = Rank[x.severity]
          PROVE  F[i] = x
      <4>1. F[i] \in Finding
        BY <1>1
      <4>2. F[i].severity = x.severity
        BY <1>9, <3>1, <4>1 DEF Finding
      <4> QED  BY <3>1, <4>1, <4>2 DEF Finding
    <3> QED  BY <3>1
  <2>2. \A i \in DOMAIN F : (k + i) \in Tellings(x) <=> i \in Listed(x)
    BY <1>5, <1>10, <2>1 DEF Tellings, Listed
  <2>3. Tellings(x) \subseteq {k + i : i \in DOMAIN F}
    BY <1>5 DEF Tellings
  <2>4. Listed(x) \subseteq DOMAIN F
    BY DEF Listed
  <2> QED  BY <2>2, <2>3, <2>4
<1> QED  BY <1>5, <1>10, <1>11

\* What a document says beside the findings.
LEMMA RestIsTold ==
  ASSUME TypeOK, DocumentTells
  PROVE  /\ {Of(i) : i \in Told("skipped")} = Range(report.skipped)
         /\ \A i \in Told("rules") : Of(i) = {report.findings[j].rule : j \in DOMAIN report.findings}
         /\ \A i \in Told("counts") : input.format = "human" /\ Of(i) = [s \in Severity |-> Count(report, s)]
         /\ Told("no issues") # {} => report.findings = <<>>
         /\ \A i \in Told("program") : \E j \in DOMAIN report.deployments : Of(i) = report.deployments[j]
         /\ Told("cluster") # {} => report.deployments # <<>>
         /\ input.format # "sarif" =>
              \A j \in DOMAIN report.deployments : \E i \in Told("program") : Of(i) = report.deployments[j]
<1>. DEFINE d == Document(report)
<1>1. \A i \in DOMAIN d : d[i].what = "finding" \/ Truthful(d[i])
  BY DEF DocumentTells, Range
<1>2. \A what : \A i \in Told(what) : i \in DOMAIN d /\ d[i].what = what /\ Of(i) = d[i].of
  BY DEF Told, Of
<1>3. \A what : \A of : Item(what, of) \in Range(d) => \E i \in Told(what) : Of(i) = of
  <2>1. \A what : \A of : Item(what, of).what = what /\ Item(what, of).of = of
    BY DEF Item
  <2> QED  BY <2>1 DEF Range, Told, Of
<1>. HIDE DEF d
<1>4. ASSUME NEW what, what # "finding", NEW i \in Told(what)
      PROVE  LET y == d[i] IN Truthful(y) /\ y.what = what /\ Of(i) = y.of
  BY <1>1, <1>2, <1>4
<1>5. \A i \in Told("skipped") : \E j \in DOMAIN report.skipped : Of(i) = report.skipped[j]
  <2>1. SUFFICES ASSUME NEW i \in Told("skipped") PROVE \E j \in DOMAIN report.skipped : Of(i) = report.skipped[j]
    OBVIOUS
  <2>. DEFINE y == d[i]
  <2>2. Truthful(y) /\ y.what = "skipped" /\ Of(i) = y.of
    BY <1>4
  <2>. HIDE DEF y
  <2> QED  BY <2>2 DEF Truthful
<1>6. \A j \in DOMAIN report.skipped : \E i \in Told("skipped") : Of(i) = report.skipped[j]
  BY <1>3 DEF DocumentTells, d
<1>7. {Of(i) : i \in Told("skipped")} = Range(report.skipped)
  BY <1>5, <1>6 DEF Range
<1>8. \A i \in Told("rules") : Of(i) = {report.findings[j].rule : j \in DOMAIN report.findings}
  <2>1. SUFFICES ASSUME NEW i \in Told("rules") PROVE Of(i) = {report.findings[j].rule : j \in DOMAIN report.findings}
    OBVIOUS
  <2>. DEFINE y == d[i]
  <2>2. Truthful(y) /\ y.what = "rules" /\ Of(i) = y.of
    BY <1>4
  <2>. HIDE DEF y
  <2> QED  BY <2>2 DEF Truthful
<1>9. \A i \in Told("counts") : input.format = "human" /\ Of(i) = [s \in Severity |-> Count(report, s)]
  <2>1. SUFFICES ASSUME NEW i \in Told("counts") PROVE input.format = "human" /\ Of(i) = [s \in Severity |-> Count(report, s)]
    OBVIOUS
  <2>. DEFINE y == d[i]
  <2>2. Truthful(y) /\ y.what = "counts" /\ Of(i) = y.of
    BY <1>4
  <2>. HIDE DEF y
  <2> QED  BY <2>2 DEF Truthful
<1>10. Told("no issues") # {} => report.findings = <<>>
  BY <1>1, <1>2 DEF Truthful
<1>11. \A i \in Told("program") : \E j \in DOMAIN report.deployments : Of(i) = report.deployments[j]
  <2>1. SUFFICES ASSUME NEW i \in Told("program") PROVE \E j \in DOMAIN report.deployments : Of(i) = report.deployments[j]
    OBVIOUS
  <2>. DEFINE y == d[i]
  <2>2. Truthful(y) /\ y.what = "program" /\ Of(i) = y.of
    BY <1>4
  <2>. HIDE DEF y
  <2> QED  BY <2>2 DEF Truthful
<1>12. Told("cluster") # {} => report.deployments # <<>>
  BY <1>1, <1>2 DEF Truthful
<1>13. input.format # "sarif" =>
         \A j \in DOMAIN report.deployments : \E i \in Told("program") : Of(i) = report.deployments[j]
  BY <1>3 DEF DocumentTells, d
<1> QED  BY <1>7, <1>8, <1>9, <1>10, <1>11, <1>12, <1>13

\* A report that has been told in full is complete.
LEMMA ReportedIsComplete ==
  ASSUME IInv, TellInv, reason = "done"
  PROVE  ReportIsComplete
<1>. DEFINE F == report.findings
<1>1. /\ Reported /\ TypeOK /\ DocumentTells /\ report \in ScanReport
      /\ F \in Seq(Finding) /\ Len(F) \in Nat /\ DOMAIN F = 1 .. Len(F)
      /\ \A i \in DOMAIN F : F[i] \in Finding
  BY InputIsTyped, EveryFormatTells, LenProperties, ElementOfSeq DEF IInv, Reported
<1>2. /\ Lists(F, Kept \cup Late, FoundAt)
      /\ Range(report.skipped) = SkippedBefore(Len(input.files) + 1)
      /\ Range(F) = Sources
  BY <1>1 DEF IInv, FoundInv, TellInv, CountInv, SkipInv
<1>3. /\ \A i, j \in DOMAIN F : i < j => Rank[F[i].severity] >= Rank[F[j].severity]
      /\ Endpoint => /\ DOMAIN report.deployments = DOMAIN report.ids
                     /\ \A i \in DOMAIN report.ids : report.deployments[i].address = report.ids[i]
      /\ ~Endpoint => report.deployments = <<>>
      /\ \A i \in DOMAIN report.live : \A a \in report.live[i] :
           \E j \in DOMAIN report.deployments : report.deployments[j].address = a
      /\ DOMAIN report.live = DOMAIN F
  BY <1>1 DEF TellInv, FinishInv, TypeOK
<1>4. PICK k \in Nat :
           /\ Told("finding") = {k + i : i \in DOMAIN F}
           /\ \A i \in DOMAIN F :
                /\ Of(k + i).rule = F[i].rule
                /\ Of(k + i).live = MarksTold[i]
                /\ Of(k + i).grade = GradesTold[F[i].severity]
                /\ Loudness[Of(k + i).grade] = Rank[F[i].severity]
           /\ \A x \in Finding : Tellings(x) = {k + i : i \in Listed(x)}
  BY <1>1, FindingsAreTold
<1>5. /\ {Of(i) : i \in Told("skipped")} = Range(report.skipped)
      /\ \A i \in Told("rules") : Of(i) = {F[j].rule : j \in DOMAIN F}
      /\ \A i \in Told("counts") : input.format = "human" /\ Of(i) = [s \in Severity |-> Count(report, s)]
      /\ Told("no issues") # {} => F = <<>>
      /\ \A i \in Told("program") : \E j \in DOMAIN report.deployments : Of(i) = report.deployments[j]
      /\ Told("cluster") # {} => report.deployments # <<>>
      /\ input.format # "sarif" =>
           \A j \in DOMAIN report.deployments : \E i \in Told("program") : Of(i) = report.deployments[j]
  BY <1>1, RestIsTold
<1>6. \A x \in Sources : x \in Finding
  BY <1>1, <1>2 DEF Range
<1>. HIDE DEF F
<1>7. \A x \in Sources : Cardinality(Tellings(x)) = Cardinality(Occurrences(x))
  <2>1. SUFFICES ASSUME NEW x \in Sources PROVE Cardinality(Tellings(x)) = Cardinality(Occurrences(x))
    OBVIOUS
  <2>2. IsFiniteSet(Listed(x)) /\ Cardinality(Occurrences(x)) = Cardinality(Listed(x))
    BY <1>1, <1>2, ListedOften DEF F
  <2>3. Tellings(x) = {k + i : i \in Listed(x)}
    BY <1>4, <1>6
  <2>. DEFINE f == [i \in Listed(x) |-> k + i]
  <2>4. \A i \in Listed(x) : i \in Nat
    BY <1>1 DEF Listed, F
  <2>5. \A i, j \in Listed(x) : f[i] = f[j] => i = j
    BY <2>4
  <2>6. f \in [Listed(x) -> Tellings(x)] /\ \A y \in Tellings(x) : \E i \in Listed(x) : f[i] = y
    BY <2>3
  <2>. HIDE DEF f
  <2> QED  BY <2>2, <2>5, <2>6, EqualCounts
<1>8. \A i \in Told("finding") : \E x \in Sources : i \in Tellings(x)
  <2>1. SUFFICES ASSUME NEW j \in DOMAIN F PROVE \E x \in Sources : (k + j) \in Tellings(x)
    BY <1>4
  <2>2. F[j] \in Sources /\ F[j] \in Finding /\ j \in Listed(F[j])
    BY <1>1, <1>2 DEF Range, Listed, F
  <2> QED  BY <1>4, <2>2
<1>9. \A i, j \in Told("finding") : i < j => Loudness[Of(i).grade] >= Loudness[Of(j).grade]
  <2>1. SUFFICES ASSUME NEW m \in DOMAIN F, NEW n \in DOMAIN F, k + m < k + n
                 PROVE  Loudness[Of(k + m).grade] >= Loudness[Of(k + n).grade]
    BY <1>4
  <2>2. m \in Nat /\ n \in Nat /\ m < n
    BY <1>1, <2>1 DEF F
  <2> QED  BY <1>3, <1>4, <2>2
<1>10. {Of(i) : i \in Told("skipped")} = {input.files[n].name : n \in {m \in Shipped : ~Parses(input.files[m])}}
  <2>1. \A m \in Shipped : m < Len(input.files) + 1
    BY <1>1, InputIsTyped DEF Shipped
  <2>2. SkippedBefore(Len(input.files) + 1) = {input.files[n].name : n \in {m \in Shipped : ~Parses(input.files[m])}}
    BY <2>1 DEF SkippedBefore
  <2> QED  BY <1>2, <1>5, <2>2
<1>11. \A i \in Told("rules") : Of(i) = {Of(j).rule : j \in Told("finding")}
  <2>1. {Of(j).rule : j \in Told("finding")} = {F[j].rule : j \in DOMAIN F}
    BY <1>4
  <2> QED  BY <1>5, <2>1
<1>12. \A i \in Told("counts") : \A s \in Severity :
         Of(i)[s] = Cardinality({j \in Told("finding") : Of(j).grade = s})
  <2>1. SUFFICES ASSUME NEW i \in Told("counts"), NEW s \in Severity
                 PROVE  Of(i)[s] = Cardinality({j \in Told("finding") : Of(j).grade = s})
    OBVIOUS
  <2>2. Of(i)[s] = Cardinality({j \in DOMAIN F : F[j].severity = s})
    BY <1>5 DEF Count, F
  <2>3. input.format # "sarif"
    BY <1>5
  <2>. DEFINE A == {j \in DOMAIN F : F[j].severity = s}
              B == {j \in Told("finding") : Of(j).grade = s}
              f == [j \in A |-> k + j]
  <2>4. \A j \in DOMAIN F : Of(k + j).grade = F[j].severity
    <3>1. \A j \in DOMAIN F : F[j].severity \in Severity
      BY <1>1 DEF Finding, F
    <3> QED  BY <1>4, <2>3, <3>1 DEF GradesTold, Grades
  <2>5. IsFiniteSet(A)
    <3>1. IsFiniteSet(1 .. Len(F)) /\ A \subseteq 1 .. Len(F)
      BY <1>1, FS_Interval DEF F
    <3> QED  BY <3>1, FS_Subset
  <2>6. \A x, y \in A : f[x] = f[y] => x = y
    <3>1. \A x \in A : x \in Nat
      BY <1>1 DEF F
    <3> QED  BY <3>1
  <2>7. f \in [A -> B] /\ \A y \in B : \E x \in A : f[x] = y
    BY <1>4, <2>4
  <2>. HIDE DEF A, B, f
  <2>8. Cardinality(B) = Cardinality(A)
    BY <2>5, <2>6, <2>7, EqualCounts
  <2> QED  BY <2>2, <2>8 DEF A, B
<1>13. Told("no issues") # {} => Sources = {}
  <2>1. Range(<<>>) = {}
    BY DEF Range
  <2> QED  BY <1>2, <1>5, <2>1
<1>14. Endpoint /\ input.format # "sarif" => Range(report.ids) = {Of(i).address : i \in Told("program")}
  <2>1. SUFFICES ASSUME Endpoint, input.format # "sarif"
                 PROVE  Range(report.ids) = {Of(i).address : i \in Told("program")}
    OBVIOUS
  <2>2. \A j \in DOMAIN report.ids : \E i \in Told("program") : Of(i).address = report.ids[j]
    BY <1>3, <1>5, <2>1, ZenonT(30)
  <2>3. \A i \in Told("program") : \E j \in DOMAIN report.ids : Of(i).address = report.ids[j]
    <3>1. SUFFICES ASSUME NEW i \in Told("program")
                   PROVE  \E j \in DOMAIN report.ids : Of(i).address = report.ids[j]
      OBVIOUS
    <3>2. PICK j \in DOMAIN report.deployments : Of(i) = report.deployments[j]
      BY <1>5
    <3>3. j \in DOMAIN report.ids /\ report.deployments[j].address = report.ids[j]
      BY <1>3, <2>1, <3>2
    <3> QED  BY <3>2, <3>3
  <2> QED  BY <2>2, <2>3 DEF Range
<1>15. \A i \in DOMAIN report.live : \A a \in report.live[i] :
         a \in (UNION {Of(j).live : j \in Told("finding")}) \cup {Of(j).address : j \in Told("program")}
  <2>1. SUFFICES ASSUME NEW i \in DOMAIN report.live, NEW a \in report.live[i]
                 PROVE  a \in (UNION {Of(j).live : j \in Told("finding")}) \cup {Of(j).address : j \in Told("program")}
    OBVIOUS
  <2>2. CASE input.format = "human"
    <3>1. PICK j \in DOMAIN report.deployments : report.deployments[j].address = a
      BY <1>3, <2>1
    <3>2. PICK m \in Told("program") : Of(m) = report.deployments[j]
      BY <1>5, <2>2, <3>1
    <3>3. Of(m).address = a
      BY <3>1, <3>2
    <3> QED  BY <3>3
  <2>3. CASE input.format # "human"
    <3>1. (k + i) \in Told("finding") /\ Of(k + i).live = report.live[i]
      BY <1>3, <1>4, <2>3 DEF MarksTold
    <3> QED  BY <3>1
  <2> QED  BY <2>2, <2>3
<1>16. ~Endpoint => /\ Told("cluster") = {} /\ Told("program") = {}
                    /\ \A i \in Told("finding") : Of(i).live = {}
  <2>1. SUFFICES ASSUME ~Endpoint
                 PROVE  /\ Told("cluster") = {} /\ Told("program") = {}
                        /\ \A i \in Told("finding") : Of(i).live = {}
    OBVIOUS
  <2>2. report.deployments = <<>> /\ DOMAIN report.deployments = {}
    BY <1>3, <2>1
  <2>3. \A i \in DOMAIN F : report.live[i] = {}
    BY <1>3, <2>2
  <2>4. \A i \in DOMAIN F : MarksTold[i] = {}
    BY <1>3, <2>3 DEF MarksTold, LiveAt
  <2> QED  BY <1>4, <1>5, <2>2, <2>4
<1> QED  BY <1>7, <1>8, <1>9, <1>10, <1>11, <1>12, <1>13, <1>14, <1>15, <1>16 DEF ReportIsComplete

(***************************************************************************)
(* Whatever the format, the tree, the order of the walk and the answers of *)
(* the cluster: a report tells every finding as often as it was found, the *)
(* most severe first, every file that was skipped, and every id a finding  *)
(* is live at (the renderers of src/report and the sort of scan).          *)
(***************************************************************************)
THEOREM ReportComplete == Spec => []ReportIsComplete
<1>1. IInv /\ TellInv => ReportIsComplete
  <2>1. CASE reason = "done"
    BY <2>1, ReportedIsComplete
  <2>2. CASE reason # "done"
    BY <2>2 DEF ReportIsComplete
  <2> QED  BY <2>1, <2>2
<1> QED  BY <1>1, Invariance, TellInvariance, PTL

----------------------------------------------------------------------------
(***************************************************************************)
(* Numbers and their digits: the two conversions of Base58 keep what the   *)
(* digits write, for every base, width and length.                         *)
(***************************************************************************)
LEMMA LeastNumber ==
  ASSUME NEW T, T \subseteq Nat, T # {}
  PROVE  \E x \in T : \A y \in T : x <= y
<1>. DEFINE R == OpToRel(<, Nat)
<1>1. IsWellFoundedOn(R, Nat)
  BY NatLessThanWellFounded
<1>2. \A x, y \in Nat : <<x, y>> \in R <=> x < y
  BY DEF OpToRel
<1>. HIDE DEF R
<1>3. PICK x \in T : \A y \in T : ~(<<y, x>> \in R)
  BY <1>1, WFMin
<1>4. \A y \in T : ~(y < x)
  BY <1>2, <1>3
<1>5. \A y \in T : x <= y
  BY <1>4
<1> QED  BY <1>5

\* What holds of a number if it holds of all smaller ones holds up to n.
LEMMA UpTo ==
  ASSUME NEW n \in Nat, NEW T,
         \A k \in 0 .. n : (\A j \in 0 .. k - 1 : j \in T) => k \in T
  PROVE  \A k \in 0 .. n : k \in T
<1>. DEFINE Bad == {k \in 0 .. n : k \notin T}
<1>1. SUFFICES ASSUME Bad # {} PROVE FALSE
  OBVIOUS
<1>2. Bad \subseteq Nat
  OBVIOUS
<1>3. PICK k \in Bad : \A j \in Bad : k <= j
  <2>. HIDE DEF Bad
  <2> QED  BY <1>1, <1>2, LeastNumber
<1>4. \A j \in 0 .. k - 1 : j \in 0 .. n /\ ~(k <= j)
  BY <1>3
<1> QED  BY <1>3, <1>4

\* d goes on from e, each value made of an earlier one.
GoesOn(d, n, e, from, step) == d[0] = e /\ \A k \in 1 .. n : d[k] = step[k][d[from[k]]]

LEMMA GoesOnExists ==
  ASSUME NEW n \in Nat, NEW S, NEW e \in S, NEW from, \A k \in 1 .. n : from[k] \in 0 .. k - 1,
         NEW step \in [1 .. n -> [S -> S]]
  PROVE  \E d \in [0 .. n -> S] : GoesOn(d, n, e, from, step)
<1>. DEFINE T == {m \in 0 .. n : \E d \in [0 .. m -> S] : GoesOn(d, m, e, from, step)}
<1>1. ASSUME NEW m \in 0 .. n, \A j \in 0 .. m - 1 : j \in T
      PROVE  m \in T
  <2>1. CASE m = 0
    <3>. DEFINE d == [k \in 0 .. 0 |-> e]
    <3>1. d \in [0 .. 0 -> S] /\ GoesOn(d, 0, e, from, step)
      BY DEF GoesOn
    <3> QED  BY <2>1, <3>1
  <2>2. CASE m # 0
    <3>1. m - 1 \in 0 .. n /\ m - 1 \in 0 .. m - 1 /\ m \in 1 .. n /\ from[m] \in 0 .. m - 1
      BY <2>2
    <3>2. PICK d \in [0 .. m - 1 -> S] : GoesOn(d, m - 1, e, from, step)
      BY <1>1, <3>1
    <3>3. d[from[m]] \in S /\ step[m][d[from[m]]] \in S
      BY <3>1, <3>2
    <3>. DEFINE longer == [k \in 0 .. m |-> IF k = m THEN step[m][d[from[m]]] ELSE d[k]]
    <3>4. longer \in [0 .. m -> S]
      BY <3>1, <3>2, <3>3
    <3>5. longer[0] = e
      BY <2>2, <3>2 DEF GoesOn
    <3>6. ASSUME NEW k \in 1 .. m
          PROVE  longer[k] = step[k][longer[from[k]]]
      <4>1. from[k] \in 0 .. m /\ from[k] # m /\ from[k] \in 0 .. m - 1
        BY <3>1
      <4>2. longer[from[k]] = d[from[k]]
        BY <4>1
      <4>3. CASE k = m
        BY <3>1, <4>2, <4>3
      <4>4. CASE k # m
        <5>1. k \in 1 .. m - 1 /\ k \in 0 .. m
          BY <3>1, <4>4
        <5>2. longer[k] = d[k]
          BY <4>4, <5>1
        <5> QED  BY <3>2, <4>2, <5>1, <5>2 DEF GoesOn
      <4> QED  BY <4>3, <4>4
    <3>. HIDE DEF longer
    <3> QED  BY <3>4, <3>5, <3>6 DEF GoesOn
  <2> QED  BY <2>1, <2>2
<1>. HIDE DEF T
<1>2. \A m \in 0 .. n : m \in T
  BY <1>1, UpTo
<1>3. n \in T
  BY <1>2
<1> QED  BY <1>3 DEF T

----------------------------------------------------------------------------
\* Division with its rest, and comparison digit by digit.
LEMMA DivisionRest ==
  ASSUME NEW x \in Nat, NEW b \in Nat, b > 1
  PROVE  /\ x \div b \in Nat /\ x % b \in 0 .. b - 1
         /\ x = (x \div b) * b + (x % b)
         /\ x > 0 => x \div b < x
OBVIOUS

LEMMA Times ==
  ASSUME NEW a \in Nat, NEW c \in Nat, NEW b \in Nat, a >= c + 1
  PROVE  a * b >= c * b + b
OBVIOUS

LEMMA FrontDecides ==
  ASSUME NEW a \in Nat, NEW c \in Nat, NEW b \in Nat, NEW d \in 0 .. b - 1, NEW e \in 0 .. b - 1,
         a * b + d <= c * b + e
  PROVE  a <= c
<1>1. SUFFICES ASSUME a >= c + 1 PROVE FALSE
  OBVIOUS
<1>2. a * b >= c * b + b
  BY <1>1, Times
<1>3. a * b \in Nat /\ c * b \in Nat
  OBVIOUS
<1> QED  BY <1>2, <1>3

LEMMA CarryIn ==
  ASSUME NEW s \in Nat, NEW f \in Nat, NEW c \in Nat, NEW b \in Nat, NEW r \in Nat, NEW d \in Nat, NEW e \in Nat,
         d * f + e = c * b + r
  PROVE  (s * f + c) * b + r = (s * b + d) * f + e
OBVIOUS

----------------------------------------------------------------------------
\* The recursive functions are what their equations say.
LEMMA NumbersAre ==
  ASSUME NEW s \in Seq(Nat), NEW base \in Nat
  PROVE  /\ Numbers(s, base) \in [0 .. Len(s) -> Nat]
         /\ Numbers(s, base)[0] = 0
         /\ \A i \in 1 .. Len(s) : Numbers(s, base)[i] = Numbers(s, base)[i - 1] * base + s[i]
<1>. DEFINE n == Len(s)
            Step(k, x) == x * base + s[k]
            step == [k \in 1 .. n |-> [x \in Nat |-> Step(k, x)]]
            from == [k \in 1 .. n |-> k - 1]
            Equation(f) == f = [i \in 0 .. n |-> IF i = 0 THEN 0 ELSE Step(i, f[i - 1])]
<1>1. n \in Nat /\ \A k \in 1 .. n : s[k] \in Nat
  BY LenProperties, ElementOfSeq
<1>2. step \in [1 .. n -> [Nat -> Nat]] /\ \A k \in 1 .. n : from[k] \in 0 .. k - 1
  BY <1>1
<1>3. PICK c \in [0 .. n -> Nat] : GoesOn(c, n, 0, from, step)
  <2>. HIDE DEF n, step, from
  <2> QED  BY <1>1, <1>2, GoesOnExists
<1>4. Equation(c)
  <2>1. ASSUME NEW k \in 0 .. n, k # 0
        PROVE  c[k] = Step(k, c[k - 1])
    <3>0. k \in 1 .. n /\ k - 1 \in 0 .. n
      BY <1>1, <2>1
    <3>1. k \in 1 .. n /\ from[k] = k - 1 /\ c[k - 1] \in Nat
      BY <1>3, <3>0
    <3> QED  BY <1>3, <3>1 DEF GoesOn
  <2>2. c[0] = 0
    BY <1>3 DEF GoesOn
  <2>. HIDE DEF Step
  <2> QED  BY <1>3, <2>1, <2>2
<1>. DEFINE f == CHOOSE f : Equation(f)
<1>5. Equation(f)
  BY <1>4
<1>6. Numbers(s, base) = f
  BY DEF Numbers
<1>. HIDE DEF f
<1>7. \A k \in 0 .. n : f[k] \in Nat
  <2>. DEFINE T == {k \in 0 .. n : f[k] \in Nat}
  <2>1. ASSUME NEW k \in 0 .. n, \A j \in 0 .. k - 1 : j \in T
        PROVE  k \in T
    <3>1. CASE k = 0
      BY <1>5, <3>1
    <3>2. CASE k # 0
      <4>1. k - 1 \in 0 .. k - 1 /\ k \in 1 .. n
        BY <3>2
      <4>2. f[k - 1] \in Nat /\ f[k] = Step(k, f[k - 1])
        BY <1>5, <2>1, <3>2, <4>1
      <4>3. f[k - 1] * base \in Nat
        BY <4>2
      <4> QED  BY <1>1, <4>1, <4>2, <4>3, SMTT(30)
    <3> QED  BY <3>1, <3>2
  <2>. HIDE DEF T
  <2>2. \A k \in 0 .. n : k \in T
    BY <1>1, <2>1, UpTo
  <2> QED  BY <2>2 DEF T
<1>8. f \in [0 .. n -> Nat] /\ f[0] = 0 /\ \A i \in 1 .. n : f[i] = f[i - 1] * base + s[i]
  <2>1. f = [k \in 0 .. n |-> f[k]]
    BY <1>5
  <2>2. 0 \in 0 .. n /\ \A i \in 1 .. n : i \in 0 .. n /\ i # 0
    BY <1>1
  <2> QED  BY <1>5, <1>7, <2>1, <2>2
<1> QED  BY <1>6, <1>8

LEMMA DigitsAre ==
  ASSUME NEW n \in Nat, NEW base \in Nat, base > 1
  PROVE  \E w \in [0 .. n -> Seq(0 .. base - 1)] :
           /\ w[0] = <<>>
           /\ \A m \in 1 .. n : w[m] = Append(w[m \div base], m % base)
           /\ Digits(n, base) = w[n]
<1>. DEFINE S == Seq(0 .. base - 1)
            Step(k, x) == Append(x, k % base)
            step == [k \in 1 .. n |-> [x \in S |-> Step(k, x)]]
            from == [k \in 1 .. n |-> k \div base]
            Equation(f) == f = [m \in 0 .. n |-> IF m = 0 THEN <<>> ELSE Step(m, f[m \div base])]
<1>1. \A k \in 1 .. n : k \div base \in 0 .. k - 1 /\ k % base \in 0 .. base - 1
  <2>1. SUFFICES ASSUME NEW k \in 1 .. n
                 PROVE  k \div base \in 0 .. k - 1 /\ k % base \in 0 .. base - 1
    OBVIOUS
  <2>2. k \in Nat /\ k > 0
    OBVIOUS
  <2>3. k \div base \in Nat /\ k \div base < k /\ k % base \in 0 .. base - 1
    BY <2>2, DivisionRest
  <2>4. \A x \in Nat : x < k => x \in 0 .. k - 1
    BY <2>2
  <2> QED  BY <2>3, <2>4, Zenon
<1>2. <<>> \in S /\ \A k \in 1 .. n : \A x \in S : Step(k, x) \in S
  BY <1>1, EmptySeq, AppendProperties
<1>. HIDE DEF S, Step
<1>3. step \in [1 .. n -> [S -> S]] /\ \A k \in 1 .. n : from[k] \in 0 .. k - 1
  BY <1>1, <1>2
<1>4. PICK c \in [0 .. n -> S] : GoesOn(c, n, <<>>, from, step)
  <2>. HIDE DEF step, from
  <2> QED  BY <1>2, <1>3, GoesOnExists
<1>5. Equation(c)
  <2>1. ASSUME NEW k \in 0 .. n, k # 0
        PROVE  c[k] = Step(k, c[k \div base])
    <3>0. k \in 1 .. n /\ \A x \in 0 .. k - 1 : x \in 0 .. n
      BY <2>1
    <3>1. k \in 1 .. n /\ k \div base \in 0 .. n
      BY <1>1, <3>0, Zenon
    <3>2. from[k] = k \div base /\ c[k \div base] \in S
      BY <1>4, <3>1
    <3> QED  BY <1>4, <3>1, <3>2 DEF GoesOn
  <2>2. c[0] = <<>>
    BY <1>4 DEF GoesOn
  <2> QED  BY <1>4, <2>1, <2>2
<1>. DEFINE f == CHOOSE f : Equation(f)
<1>6. Equation(f)
  BY <1>5
<1>7. Digits(n, base) = f[n]
  BY DEF Digits, Step
<1>. HIDE DEF f
<1>8. \A k \in 0 .. n : f[k] \in S
  <2>. DEFINE T == {k \in 0 .. n : f[k] \in S}
  <2>1. ASSUME NEW k \in 0 .. n, \A j \in 0 .. k - 1 : j \in T
        PROVE  k \in T
    <3>1. CASE k = 0
      BY <1>2, <1>6, <3>1
    <3>2. CASE k # 0
      <4>0. k \in 1 .. n
        BY <3>2
      <4>1. k \div base \in 0 .. k - 1 /\ k \in 1 .. n
        BY <1>1, <4>0, Zenon
      <4>2. f[k \div base] \in S /\ f[k] = Step(k, f[k \div base])
        BY <1>6, <2>1, <3>2, <4>1
      <4> QED  BY <1>2, <4>1, <4>2
    <3> QED  BY <3>1, <3>2
  <2>. HIDE DEF T
  <2>2. \A k \in 0 .. n : k \in T
    BY <2>1, UpTo
  <2> QED  BY <2>2 DEF T
<1>9. f \in [0 .. n -> S] /\ f[0] = <<>> /\ \A m \in 1 .. n : f[m] = Step(m, f[m \div base])
  <2>1. f = [k \in 0 .. n |-> f[k]]
    BY <1>6
  <2>2. 0 \in 0 .. n /\ \A i \in 1 .. n : i \in 0 .. n /\ i # 0
    OBVIOUS
  <2> QED  BY <1>6, <1>8, <2>1, <2>2
<1> QED  BY <1>7, <1>9 DEF S, Step

\* c carries from the last of the digits s to the first.
CarriesOn(c, s, base, factor, addend) ==
  /\ c \in [0 .. Len(s) -> Nat]
  /\ c[0] = addend
  /\ \A i \in 1 .. Len(s) : c[i] = (s[Len(s) - i + 1] * factor + c[i - 1]) \div base

LEMMA CarriesAre ==
  ASSUME NEW s \in Seq(Nat), NEW base \in Nat, base > 1, NEW factor \in Nat, NEW addend \in Nat
  PROVE  CarriesOn(Carries(s, base, factor, addend), s, base, factor, addend)
<1>. DEFINE n == Len(s)
            Step(k, x) == (s[n - k + 1] * factor + x) \div base
            step == [k \in 1 .. n |-> [x \in Nat |-> Step(k, x)]]
            from == [k \in 1 .. n |-> k - 1]
            Equation(f) == f = [i \in 0 .. n |-> IF i = 0 THEN addend ELSE Step(i, f[i - 1])]
<1>1. n \in Nat /\ \A k \in 1 .. n : s[n - k + 1] \in Nat
  <2>1. n \in Nat /\ \A k \in 1 .. n : s[k] \in Nat
    BY LenProperties, ElementOfSeq
  <2>2. \A k \in 1 .. n : n - k + 1 \in 1 .. n
    BY <2>1
  <2> QED  BY <2>1, <2>2
<1>2. \A k \in 1 .. n : \A x \in Nat : Step(k, x) \in Nat
  <2>1. SUFFICES ASSUME NEW k \in 1 .. n, NEW x \in Nat PROVE Step(k, x) \in Nat
    OBVIOUS
  <2>. DEFINE y == s[n - k + 1] * factor + x
  <2>2. y \in Nat
    <3>1. s[n - k + 1] \in Nat
      BY <1>1
    <3>2. \A a, b \in Nat : a * b \in Nat
      OBVIOUS
    <3>3. s[n - k + 1] * factor \in Nat
      BY <3>1, <3>2
    <3> QED  BY <3>3
  <2>. HIDE DEF y
  <2>3. y \div base \in Nat
    BY <2>2, DivisionRest
  <2> QED  BY <2>3 DEF y
<1>. HIDE DEF Step
<1>3. step \in [1 .. n -> [Nat -> Nat]] /\ \A k \in 1 .. n : from[k] \in 0 .. k - 1
  <2>1. step \in [1 .. n -> [Nat -> Nat]]
    BY <1>2
  <2>2. \A k \in 1 .. n : from[k] \in 0 .. k - 1
    OBVIOUS
  <2>. HIDE DEF step, from
  <2> QED  BY <2>1, <2>2
<1>4. PICK c \in [0 .. n -> Nat] : GoesOn(c, n, addend, from, step)
  <2>. HIDE DEF n, step, from
  <2> QED  BY <1>1, <1>3, GoesOnExists
<1>5. Equation(c)
  <2>1. ASSUME NEW k \in 0 .. n, k # 0
        PROVE  c[k] = Step(k, c[k - 1])
    <3>1. k \in 1 .. n /\ k - 1 \in 0 .. n
      BY <1>1, <2>1
    <3>2. from[k] = k - 1 /\ c[k - 1] \in Nat
      BY <1>4, <3>1
    <3> QED  BY <1>4, <3>1, <3>2 DEF GoesOn
  <2>2. c[0] = addend
    BY <1>4 DEF GoesOn
  <2> QED  BY <1>4, <2>1, <2>2
<1>. DEFINE f == CHOOSE f : Equation(f)
<1>6. Equation(f)
  BY <1>5
<1>7. Carries(s, base, factor, addend) = f
  BY DEF Carries, Step
<1>. HIDE DEF f
<1>8. \A k \in 0 .. n : f[k] \in Nat
  <2>. DEFINE T == {k \in 0 .. n : f[k] \in Nat}
  <2>1. ASSUME NEW k \in 0 .. n, \A j \in 0 .. k - 1 : j \in T
        PROVE  k \in T
    <3>1. CASE k = 0
      BY <1>6, <3>1
    <3>2. CASE k # 0
      <4>1. k - 1 \in 0 .. k - 1 /\ k \in 1 .. n
        BY <3>2
      <4>2. f[k - 1] \in Nat /\ f[k] = Step(k, f[k - 1])
        BY <1>6, <2>1, <3>2, <4>1
      <4> QED  BY <1>2, <4>1, <4>2
    <3> QED  BY <3>1, <3>2
  <2>. HIDE DEF T
  <2>2. \A k \in 0 .. n : k \in T
    BY <1>1, <2>1, UpTo
  <2> QED  BY <2>2 DEF T
<1>9. f \in [0 .. n -> Nat] /\ f[0] = addend /\ \A m \in 1 .. n : f[m] = Step(m, f[m - 1])
  <2>1. f = [k \in 0 .. n |-> f[k]]
    BY <1>6
  <2>2. 0 \in 0 .. n /\ \A i \in 1 .. n : i \in 0 .. n /\ i # 0
    BY <1>1
  <2> QED  BY <1>6, <1>8, <2>1, <2>2
<1> QED  BY <1>7, <1>9 DEF Step, CarriesOn

----------------------------------------------------------------------------
\* Numbers of sequences that begin alike begin alike.
BeginAlike(s, t, m) == m \in Nat /\ m <= Len(s) /\ m <= Len(t) /\ \A i \in 1 .. m : s[i] = t[i]

LEMMA NumbersOfPrefix ==
  ASSUME NEW s \in Seq(Nat), NEW t \in Seq(Nat), NEW base \in Nat, NEW m, BeginAlike(s, t, m)
  PROVE  Numbers(s, base)[m] = Numbers(t, base)[m]
<1>. DEFINE x == Numbers(s, base)
            y == Numbers(t, base)
            T == {i \in 0 .. m : x[i] = y[i]}
<1>1. /\ x[0] = 0 /\ \A i \in 1 .. Len(s) : x[i] = x[i - 1] * base + s[i]
      /\ y[0] = 0 /\ \A i \in 1 .. Len(t) : y[i] = y[i - 1] * base + t[i]
  BY NumbersAre
<1>2. /\ Len(s) \in Nat /\ Len(t) \in Nat /\ m \in Nat /\ m <= Len(s) /\ m <= Len(t)
      /\ \A i \in 1 .. m : s[i] = t[i]
  BY LenProperties DEF BeginAlike
<1>. HIDE DEF x, y
<1>3. ASSUME NEW k \in 0 .. m, \A j \in 0 .. k - 1 : j \in T
      PROVE  k \in T
  <2>1. CASE k = 0
    BY <1>1, <2>1
  <2>2. CASE k # 0
    <3>1. k - 1 \in 0 .. k - 1 /\ k \in 1 .. m /\ k \in 1 .. Len(s) /\ k \in 1 .. Len(t)
      BY <1>2, <2>2
    <3>2. x[k - 1] = y[k - 1]
      BY <1>3, <3>1
    <3>3. x[k] = y[k]
      BY <1>1, <1>2, <3>1, <3>2
    <3> QED  BY <3>3
  <2> QED  BY <2>1, <2>2
<1>. HIDE DEF T
<1>4. \A k \in 0 .. m : k \in T
  BY <1>2, <1>3, UpTo
<1>5. m \in 0 .. m
  BY <1>2
<1> QED  BY <1>4, <1>5 DEF T, x, y

\* One more digit.
LEMMA ValueOfAppend ==
  ASSUME NEW s \in Seq(Nat), NEW d \in Nat, NEW base \in Nat
  PROVE  /\ Value(s, base) \in Nat
         /\ Value(<<>>, base) = 0
         /\ Value(Append(s, d), base) = Value(s, base) * base + d
<1>. DEFINE t == Append(s, d)
            m == Len(s)
<1>1. /\ t \in Seq(Nat) /\ Len(t) = m + 1 /\ t[m + 1] = d /\ \A i \in 1 .. m : t[i] = s[i]
      /\ m \in Nat
  BY AppendProperties, LenProperties
<1>2. <<>> \in Seq(Nat) /\ Len(<<>>) = 0
  BY EmptySeq
<1>3. Numbers(<<>>, base)[0] = 0
  BY <1>2, NumbersAre
<1>4. Numbers(s, base)[m] \in Nat
  BY <1>1, NumbersAre
<1>. HIDE DEF t, m
<1>5. Numbers(t, base)[m + 1] = Numbers(t, base)[(m + 1) - 1] * base + t[m + 1]
  <2>1. m + 1 \in 1 .. Len(t)
    BY <1>1
  <2> QED  BY <1>1, <2>1, NumbersAre
<1>6. Numbers(s, base)[m] = Numbers(t, base)[m]
  <2>1. BeginAlike(s, t, m)
    BY <1>1 DEF BeginAlike, m
  <2> QED  BY <1>1, <2>1, NumbersOfPrefix
<1>7. (m + 1) - 1 = m
  BY <1>1
<1>8. Numbers(t, base)[m + 1] = Numbers(s, base)[m] * base + d
  BY <1>1, <1>5, <1>6, <1>7
<1> QED  BY <1>1, <1>2, <1>3, <1>4, <1>8 DEF Value, t, m

\* Digits of a base, without a zero in front.
Canonical(s, base) == s \in Seq(0 .. base - 1) /\ (s # <<>> => s[1] # 0)

LEMMA DigitsAreNats ==
  ASSUME NEW base \in Nat, NEW s \in Seq(0 .. base - 1)
  PROVE  s \in Seq(Nat) /\ \A i \in 1 .. Len(s) : s[i] \in 0 .. base - 1
<1>1. 0 .. base - 1 \subseteq Nat
  OBVIOUS
<1> QED  BY <1>1, SeqMonotonic, ElementOfSeq

(***************************************************************************)
(* Every number is written by its digits.                                  *)
(***************************************************************************)
LEMMA DigitsWrite ==
  ASSUME NEW n \in Nat, NEW base \in Nat, base > 1
  PROVE  Canonical(Digits(n, base), base) /\ Value(Digits(n, base), base) = n
<1>1. PICK w \in [0 .. n -> Seq(0 .. base - 1)] :
        /\ w[0] = <<>>
        /\ \A m \in 1 .. n : w[m] = Append(w[m \div base], m % base)
        /\ Digits(n, base) = w[n]
  BY DigitsAre
<1>. DEFINE T == {m \in 0 .. n : Canonical(w[m], base) /\ Value(w[m], base) = m}
<1>2. ASSUME NEW k \in 0 .. n, \A j \in 0 .. k - 1 : j \in T
      PROVE  k \in T
  <2>1. CASE k = 0
    <3>1. Canonical(<<>>, base) /\ Value(<<>>, base) = 0
      BY ValueOfAppend, EmptySeq DEF Canonical
    <3> QED  BY <1>1, <2>1, <3>1
  <2>2. CASE k # 0
    <3>. DEFINE q == k \div base
                r == k % base
    <3>1. k \in 1 .. n /\ k \in Nat /\ k > 0
      BY <2>2
    <3>2. q \in Nat /\ r \in 0 .. base - 1 /\ k = q * base + r /\ q < k
      BY <3>1, DivisionRest
    <3>3. w[k] = Append(w[q], r)
      BY <1>1, <3>1
    <3>. HIDE DEF q, r
    <3>4. q \in 0 .. k - 1
      BY <3>1, <3>2
    <3>5. q \in 0 .. n /\ Canonical(w[q], base) /\ Value(w[q], base) = q
      BY <1>2, <3>4
    <3>6. w[q] \in Seq(0 .. base - 1) /\ w[q] \in Seq(Nat) /\ r \in Nat
      BY <3>2, <3>5, DigitsAreNats DEF Canonical
    <3>7. Value(w[k], base) = k
      BY <3>2, <3>3, <3>5, <3>6, ValueOfAppend
    <3>8. w[k] \in Seq(0 .. base - 1)
      BY <3>2, <3>3, <3>6, AppendProperties
    <3>9. w[k][1] # 0
      <4>1. CASE w[q] = <<>>
        <5>1. q = 0
          BY <3>5, <4>1, ValueOfAppend, EmptySeq
        <5>2. r = k
          BY <3>1, <3>2, <5>1
        <5>3. Append(w[q], r)[1] = r
          <6>1. Len(w[q]) = 0 /\ Append(w[q], r)[Len(w[q]) + 1] = r
            BY <3>6, <4>1, AppendProperties, EmptySeq
          <6> QED  BY <6>1
        <5> QED  BY <3>1, <3>3, <5>2, <5>3
      <4>2. CASE w[q] # <<>>
        <5>1. Len(w[q]) \in Nat /\ Len(w[q]) # 0
          BY <3>6, <4>2, EmptySeq, LenProperties
        <5>2. Append(w[q], r)[1] = w[q][1]
          BY <3>6, <5>1, AppendProperties
        <5> QED  BY <3>3, <3>5, <4>2, <5>2 DEF Canonical
      <4> QED  BY <4>1, <4>2
    <3> QED  BY <3>7, <3>8, <3>9 DEF Canonical
  <2> QED  BY <2>1, <2>2
<1>. HIDE DEF T
<1>3. \A k \in 0 .. n : k \in T
  BY <1>2, UpTo
<1>4. n \in T
  BY <1>3
<1> QED  BY <1>1, <1>4 DEF T

(***************************************************************************)
(* One turn of the outer loop: the digits of the number times the factor   *)
(* plus the addend, whatever is carried.                                   *)
(***************************************************************************)
LEMMA TimesPlusWrites ==
  ASSUME NEW base \in Nat, base > 1, NEW s, Canonical(s, base), NEW factor \in Nat, factor > 0, NEW addend \in Nat
  PROVE  LET out == TimesPlus(s, base, factor, addend)
         IN  Canonical(out, base) /\ Value(out, base) = Value(s, base) * factor + addend
<1>0. CarriesOn(Carries(s, base, factor, addend), s, base, factor, addend)
  BY DigitsAreNats, CarriesAre DEF Canonical
<1>. DEFINE n == Len(s)
            c == Carries(s, base, factor, addend)
            D == Digits(c[n], base)
            R == InPlace(s, base, factor, addend)
            k == Len(D)
            out == D \o R
            x == Numbers(s, base)
            y == Numbers(out, base)
            Digit == 0 .. base - 1
<1>1. /\ s \in Seq(Nat) /\ n \in Nat /\ DOMAIN s = 1 .. n
      /\ \A j \in 1 .. n : s[j] \in Digit /\ s[j] \in Nat
  BY DigitsAreNats, LenProperties DEF Canonical
<1>2. /\ c \in [0 .. n -> Nat] /\ c[0] = addend
      /\ \A i \in 1 .. n : c[i] = (s[n - i + 1] * factor + c[i - 1]) \div base
  <2>. HIDE DEF c, n
  <2>1. CarriesOn(c, s, base, factor, addend)
    BY <1>0 DEF c
  <2> QED  BY <2>1 DEF CarriesOn, n
<1>3. R = [j \in 1 .. n |-> (s[j] * factor + c[n - j]) % base]
  BY <1>1 DEF InPlace
<1>4. TimesPlus(s, base, factor, addend) = out
  BY DEF TimesPlus
<1>5. Canonical(D, base) /\ Value(D, base) = c[n]
  <2>1. c[n] \in Nat
    BY <1>1, <1>2
  <2> QED  BY <2>1, DigitsWrite
<1>. HIDE DEF n, c, D, R, x, y
<1>6. ASSUME NEW j \in 1 .. n
      PROVE  /\ n - j \in 0 .. n /\ c[n - j] \in Nat /\ c[n - (j - 1)] \in Nat /\ R[j] \in Digit
             /\ s[j] * factor + c[n - j] = c[n - (j - 1)] * base + R[j]
  <2>1. n - j \in 0 .. n /\ n - (j - 1) \in 1 .. n /\ (n - (j - 1)) - 1 = n - j /\ n - (n - (j - 1)) + 1 = j
    BY <1>1
  <2>2. c[n - j] \in Nat /\ c[n - (j - 1)] = (s[j] * factor + c[n - j]) \div base
    BY <1>2, <2>1
  <2>. DEFINE z == s[j] * factor + c[n - j]
  <2>3. z \in Nat
    <3>1. \A a, b \in Nat : a * b \in Nat
      OBVIOUS
    <3>2. s[j] * factor \in Nat
      BY <1>1, <3>1
    <3> QED  BY <2>2, <3>2
  <2>4. R[j] = z % base /\ c[n - (j - 1)] = z \div base
    BY <1>3, <2>2
  <2>. HIDE DEF z
  <2>5. z \div base \in Nat /\ z % base \in Digit /\ z = (z \div base) * base + (z % base)
    BY <2>3, DivisionRest
  <2> QED  BY <2>1, <2>2, <2>4, <2>5 DEF z
<1>7. /\ R \in Seq(Digit) /\ Len(R) = n /\ DOMAIN R = 1 .. n
  <2>1. R \in [1 .. n -> Digit]
    BY <1>3, <1>6
  <2>2. R \in Seq(Digit)
    BY <1>1, <2>1, SeqDef
  <2> QED  BY <1>1, <2>1, <2>2, LenProperties
<1>8. /\ D \in Seq(Digit) /\ k \in Nat /\ out \in Seq(Digit) /\ Len(out) = k + n
      /\ \A i \in 1 .. k : out[i] = D[i]
      /\ \A j \in 1 .. n : out[k + j] = R[j]
  <2>1. D \in Seq(Digit) /\ k \in Nat
    BY <1>5, LenProperties DEF Canonical
  <2>2. /\ out \in Seq(Digit) /\ Len(out) = k + n
        /\ \A i \in 1 .. k + n : out[i] = IF i <= k THEN D[i] ELSE R[i - k]
    BY <1>7, <2>1, ConcatProperties
  <2>3. \A i \in 1 .. k : i \in 1 .. k + n /\ i <= k
    BY <1>1, <2>1
  <2>4. \A j \in 1 .. n : k + j \in 1 .. k + n /\ ~(k + j <= k) /\ (k + j) - k = j
    BY <1>1, <2>1
  <2>5. \A i \in 1 .. k : out[i] = D[i]
    BY <2>2, <2>3
  <2>6. \A j \in 1 .. n : out[k + j] = R[j]
    BY <2>2, <2>4
  <2> QED  BY <2>1, <2>2, <2>5, <2>6
<1>. HIDE DEF k, out
<1>9. out \in Seq(Nat) /\ D \in Seq(Nat) /\ Len(D) = k
  BY <1>8, DigitsAreNats DEF k
<1>10. /\ x \in [0 .. n -> Nat] /\ x[0] = 0 /\ \A i \in 1 .. n : x[i] = x[i - 1] * base + s[i]
       /\ \A i \in 1 .. k + n : y[i] = y[i - 1] * base + out[i]
  <2>1. x \in [0 .. n -> Nat] /\ x[0] = 0 /\ \A i \in 1 .. n : x[i] = x[i - 1] * base + s[i]
    BY <1>1, NumbersAre DEF n, x
  <2>2. \A i \in 1 .. k + n : y[i] = y[i - 1] * base + out[i]
    BY <1>1, <1>8, <1>9, NumbersAre, ZenonT(30) DEF y
  <2> QED  BY <2>1, <2>2
<1>11. y[k] = c[n]
  <2>1. BeginAlike(out, D, k)
    <3>1. k <= Len(out) /\ k <= Len(D)
      BY <1>1, <1>8, <1>9
    <3> QED  BY <1>8, <3>1 DEF BeginAlike
  <2>2. Numbers(out, base)[k] = Numbers(D, base)[k]
    BY <1>9, <2>1, NumbersOfPrefix
  <2> QED  BY <1>5, <1>9, <2>2 DEF Value, y
<1>. DEFINE T == {j \in 0 .. n : y[k + j] = x[j] * factor + c[n - j]}
<1>12. ASSUME NEW j \in 0 .. n, \A i \in 0 .. j - 1 : i \in T
       PROVE  j \in T
  <2>1. CASE j = 0
    <3>1. k + 0 = k /\ n - 0 = n /\ 0 * factor = 0
      BY <1>1, <1>8
    <3>2. c[n] \in Nat
      BY <1>1, <1>2
    <3>3. y[k + 0] = x[0] * factor + c[n - 0]
      BY <1>10, <1>11, <3>1, <3>2
    <3> QED  BY <2>1, <3>3
  <2>2. CASE j # 0
    <3>1. j \in 1 .. n /\ j - 1 \in 0 .. j - 1 /\ k + j \in 1 .. k + n /\ (k + j) - 1 = k + (j - 1)
      BY <1>1, <1>8, <2>2
    <3>2. y[k + j] = y[k + (j - 1)] * base + R[j]
      BY <1>8, <1>10, <3>1
    <3>3. y[k + (j - 1)] = x[j - 1] * factor + c[n - (j - 1)]
      BY <1>12, <3>1
    <3>4. /\ c[n - j] \in Nat /\ c[n - (j - 1)] \in Nat /\ R[j] \in Nat /\ s[j] \in Nat
          /\ s[j] * factor + c[n - j] = c[n - (j - 1)] * base + R[j]
      BY <1>1, <1>6, <3>1
    <3>5. x[j - 1] \in Nat /\ x[j] = x[j - 1] * base + s[j]
      <4>1. j - 1 \in 0 .. n
        BY <1>1, <3>1
      <4> QED  BY <1>10, <3>1, <4>1
    <3>6. (x[j - 1] * factor + c[n - (j - 1)]) * base + R[j] = (x[j - 1] * base + s[j]) * factor + c[n - j]
      <4>. DEFINE x1 == x[j - 1]
                  c1 == c[n - (j - 1)]
                  c0 == c[n - j]
                  d == s[j]
                  r == R[j]
      <4>1. x1 \in Nat /\ c1 \in Nat /\ c0 \in Nat /\ d \in Nat /\ r \in Nat /\ d * factor + c0 = c1 * base + r
        BY <3>4, <3>5
      <4>. HIDE DEF x1, c1, c0, d, r
      <4>2. (x1 * factor + c1) * base + r = (x1 * base + d) * factor + c0
        BY <4>1, CarryIn
      <4> QED  BY <4>2 DEF x1, c1, c0, d, r
    <3>7. y[k + j] = x[j] * factor + c[n - j]
      BY <3>2, <3>3, <3>5, <3>6
    <3> QED  BY <3>7
  <2> QED  BY <2>1, <2>2
<1>. HIDE DEF T
<1>13. \A j \in 0 .. n : j \in T
  BY <1>1, <1>12, UpTo
<1>14. y[k + n] = x[n] * factor + addend
  <2>1. n \in 0 .. n /\ n - n = 0
    BY <1>1
  <2>2. n \in T
    BY <1>13, <2>1
  <2> QED  BY <1>2, <2>1, <2>2 DEF T
<1>15. Value(out, base) = Value(s, base) * factor + addend
  BY <1>8, <1>14 DEF Value, x, y, n
<1>16. ASSUME out # <<>>
       PROVE  out[1] # 0
  <2>1. CASE D # <<>>
    <3>1. 1 \in 1 .. k
      BY <1>8, <2>1, EmptySeq DEF k
    <3> QED  BY <1>5, <1>8, <2>1, <3>1 DEF Canonical
  <2>2. CASE D = <<>>
    <3>1. k = 0 /\ c[n] = 0
      BY <1>5, <1>9, <2>2, EmptySeq, ValueOfAppend
    <3>2. Len(out) # 0
      BY <1>8, <1>16, EmptySeq
    <3>3. n # 0
      BY <1>1, <1>8, <3>1, <3>2
    <3>4. 1 \in 1 .. n /\ n - (1 - 1) = n /\ k + 1 = 1
      BY <1>1, <3>1, <3>3
    <3>5. out[1] = R[1] /\ c[n - 1] \in Nat /\ R[1] \in Nat /\ s[1] * factor + c[n - 1] = c[n] * base + R[1]
      BY <1>6, <1>8, <3>4
    <3>6. s[1] # 0 /\ s[1] \in Nat
      <4>1. s # <<>>
        BY <3>3, EmptySeq DEF n
      <4> QED  BY <1>1, <3>4, <4>1 DEF Canonical
    <3>7. \A a, b \in Nat : a # 0 /\ b > 0 => a * b \in Nat /\ a * b # 0
      OBVIOUS
    <3>8. s[1] * factor \in Nat /\ s[1] * factor # 0
      BY <3>6, <3>7
    <3>9. s[1] * factor + c[n - 1] = R[1]
      <4>1. 0 * base = 0
        OBVIOUS
      <4> QED  BY <3>1, <3>5, <4>1
    <3> QED  BY <3>5, <3>8, <3>9
  <2> QED  BY <2>1, <2>2
<1> QED  BY <1>4, <1>8, <1>15, <1>16 DEF Canonical

(***************************************************************************)
(* The outer loop writes the number in the other base.                     *)
(***************************************************************************)
LEMMA ConversionWrites ==
  ASSUME NEW from \in Nat, from > 0, NEW to \in Nat, to > 1, NEW s \in Seq(0 .. from - 1)
  PROVE  LET out == Conversions(s, from, to)[Len(s)]
         IN  Canonical(out, to) /\ Value(out, to) = Value(s, from)
<1>. DEFINE S == {t \in Seq(0 .. to - 1) : Canonical(t, to)}
            n == Len(s)
            x == Numbers(s, from)
            Step(k, t) == TimesPlus(t, to, from, s[k])
            step == [k \in 1 .. n |-> [t \in S |-> Step(k, t)]]
            earlier == [k \in 1 .. n |-> k - 1]
            Equation(f) == f = [k \in 0 .. n |-> IF k = 0 THEN <<>> ELSE Step(k, f[k - 1])]
<1>1. s \in Seq(Nat) /\ n \in Nat /\ \A k \in 1 .. n : s[k] \in Nat
  BY DigitsAreNats, LenProperties
<1>2. /\ x \in [0 .. n -> Nat] /\ x[0] = 0
      /\ \A k \in 1 .. n : x[k] = x[k - 1] * from + s[k]
  BY <1>1, NumbersAre
<1>3. <<>> \in S
  BY EmptySeq DEF Canonical
<1>4. ASSUME NEW k \in 1 .. n, NEW t \in S
      PROVE  Step(k, t) \in S /\ Value(Step(k, t), to) = Value(t, to) * from + s[k]
  <2>1. Canonical(t, to) /\ s[k] \in Nat
    BY <1>1
  <2>2. Canonical(Step(k, t), to) /\ Value(Step(k, t), to) = Value(t, to) * from + s[k]
    BY <2>1, TimesPlusWrites, ZenonT(30)
  <2> QED  BY <2>2 DEF Canonical
<1>. HIDE DEF S, Step, x
<1>5. step \in [1 .. n -> [S -> S]]
  BY <1>4
<1>6. \A k \in 1 .. n : earlier[k] \in 0 .. k - 1
  OBVIOUS
<1>7. PICK c \in [0 .. n -> S] : GoesOn(c, n, <<>>, earlier, step)
  <2>. HIDE DEF n, step, earlier
  <2> QED  BY <1>1, <1>3, <1>5, <1>6, GoesOnExists
<1>8. Equation(c)
  <2>1. ASSUME NEW k \in 0 .. n, k # 0
        PROVE  c[k] = Step(k, c[k - 1])
    <3>1. k \in 1 .. n /\ k - 1 \in 0 .. n
      BY <1>1, <2>1
    <3>2. earlier[k] = k - 1 /\ c[k - 1] \in S
      BY <1>7, <3>1
    <3> QED  BY <1>7, <3>1, <3>2 DEF GoesOn
  <2>2. c[0] = <<>>
    BY <1>7 DEF GoesOn
  <2> QED  BY <1>7, <2>1, <2>2
<1>. DEFINE f == CHOOSE f : Equation(f)
<1>9. Equation(f)
  BY <1>8
<1>10. Conversions(s, from, to) = f
  BY DEF Conversions, Step
<1>. HIDE DEF f
<1>. DEFINE T == {k \in 0 .. n : f[k] \in S /\ Value(f[k], to) = x[k]}
<1>11. ASSUME NEW k \in 0 .. n, \A j \in 0 .. k - 1 : j \in T
       PROVE  k \in T
  <2>1. CASE k = 0
    <3>1. Value(<<>>, to) = 0
      BY EmptySeq, ValueOfAppend
    <3> QED  BY <1>2, <1>3, <1>9, <2>1, <3>1
  <2>2. CASE k # 0
    <3>1. k - 1 \in 0 .. k - 1 /\ k \in 1 .. n
      BY <2>2
    <3>2. f[k - 1] \in S /\ Value(f[k - 1], to) = x[k - 1] /\ f[k] = Step(k, f[k - 1])
      BY <1>9, <1>11, <2>2, <3>1
    <3>3. f[k] \in S /\ Value(f[k], to) = x[k - 1] * from + s[k]
      BY <1>4, <3>1, <3>2
    <3> QED  BY <1>2, <3>1, <3>3
  <2> QED  BY <2>1, <2>2
<1>. HIDE DEF T
<1>12. \A k \in 0 .. n : k \in T
  BY <1>1, <1>11, UpTo
<1>13. n \in T
  BY <1>1, <1>12
<1> QED  BY <1>10, <1>13 DEF T, S, Value, x

----------------------------------------------------------------------------
LEMMA NumbersGrow ==
  ASSUME NEW base \in Nat, base > 0, NEW s, Canonical(s, base)
  PROVE  \A i \in 1 .. Len(s) : Numbers(s, base)[i] > 0
<1>. DEFINE n == Len(s)
            x == Numbers(s, base)
            T == {i \in 0 .. n : i = 0 \/ x[i] > 0}
<1>1. /\ s \in Seq(Nat) /\ n \in Nat /\ \A i \in 1 .. n : s[i] \in Nat
  BY DigitsAreNats, LenProperties DEF Canonical
<1>2. x \in [0 .. n -> Nat] /\ x[0] = 0 /\ \A i \in 1 .. n : x[i] = x[i - 1] * base + s[i]
  BY <1>1, NumbersAre
<1>. HIDE DEF x
<1>3. ASSUME NEW i \in 0 .. n, \A j \in 0 .. i - 1 : j \in T
      PROVE  i \in T
  <2>1. CASE i = 0
    BY <2>1
  <2>2. CASE i = 1
    <3>1. s # <<>>
      BY <2>2, EmptySeq
    <3>2. x[1] = x[0] * base + s[1] /\ s[1] # 0 /\ s[1] \in Nat /\ 0 * base = 0
      BY <1>1, <1>2, <2>2, <3>1 DEF Canonical
    <3> QED  BY <1>2, <2>2, <3>2
  <2>3. CASE i # 0 /\ i # 1
    <3>1. i \in 1 .. n /\ i - 1 \in 0 .. i - 1 /\ i - 1 # 0 /\ i - 1 \in 0 .. n
      BY <1>1, <2>3
    <3>2. x[i - 1] > 0 /\ x[i - 1] \in Nat /\ s[i] \in Nat /\ x[i] = x[i - 1] * base + s[i]
      BY <1>1, <1>2, <1>3, <3>1
    <3>3. \A a, b \in Nat : a > 0 /\ b > 0 => a * b \in Nat /\ a * b > 0
      OBVIOUS
    <3>4. x[i - 1] * base \in Nat /\ x[i - 1] * base > 0
      BY <3>2, <3>3
    <3>5. x[i] > 0
      BY <3>2, <3>4
    <3> QED  BY <3>5
  <2> QED  BY <2>1, <2>2, <2>3
<1>. HIDE DEF T
<1>4. \A i \in 0 .. n : i \in T
  BY <1>1, <1>3, UpTo
<1>5. \A i \in 1 .. n : i \in 0 .. n /\ i # 0
  BY <1>1
<1> QED  BY <1>4, <1>5 DEF T, x

\* Of two numbers without zeros in front the smaller one is not longer.
LEMMA LongerIsMore ==
  ASSUME NEW base \in Nat, base > 0, NEW s, Canonical(s, base), NEW t, Canonical(t, base),
         Value(s, base) <= Value(t, base)
  PROVE  Len(s) <= Len(t)
<1>. DEFINE m == Len(s)
            n == Len(t)
            x == Numbers(s, base)
            y == Numbers(t, base)
            T == {k \in 0 .. n : x[m - k] <= y[n - k]}
<1>1. /\ s \in Seq(Nat) /\ t \in Seq(Nat) /\ m \in Nat /\ n \in Nat
      /\ \A i \in 1 .. m : s[i] \in 0 .. base - 1
      /\ \A i \in 1 .. n : t[i] \in 0 .. base - 1
  BY DigitsAreNats, LenProperties DEF Canonical
<1>2. /\ x \in [0 .. m -> Nat] /\ x[0] = 0 /\ \A i \in 1 .. m : x[i] = x[i - 1] * base + s[i]
      /\ y \in [0 .. n -> Nat] /\ y[0] = 0 /\ \A i \in 1 .. n : y[i] = y[i - 1] * base + t[i]
  BY <1>1, NumbersAre
<1>3. SUFFICES ASSUME m > n PROVE FALSE
  BY <1>1
<1>4. x[m] <= y[n]
  BY DEF Value
<1>5. \A i \in 1 .. m : x[i] > 0
  BY NumbersGrow
<1>. HIDE DEF x, y, m, n
<1>6. ASSUME NEW k \in 0 .. n, \A j \in 0 .. k - 1 : j \in T
      PROVE  k \in T
  <2>1. CASE k = 0
    BY <1>1, <1>4, <2>1
  <2>2. CASE k # 0
    <3>1. k - 1 \in 0 .. k - 1 /\ k - 1 \in 0 .. n
          /\ m - (k - 1) \in 1 .. m /\ (m - (k - 1)) - 1 = m - k /\ m - k \in 0 .. m
          /\ n - (k - 1) \in 1 .. n /\ (n - (k - 1)) - 1 = n - k /\ n - k \in 0 .. n
      BY <1>1, <1>3, <2>2
    <3>2. x[m - (k - 1)] <= y[n - (k - 1)]
      BY <1>6, <3>1
    <3>. DEFINE a == x[m - k]
                c == y[n - k]
                d == s[m - (k - 1)]
                e == t[n - (k - 1)]
    <3>3. a \in Nat /\ c \in Nat /\ d \in 0 .. base - 1 /\ e \in 0 .. base - 1 /\ a * base + d <= c * base + e
      BY <1>1, <1>2, <3>1, <3>2
    <3>. HIDE DEF a, c, d, e
    <3>4. a <= c
      BY <3>3, FrontDecides
    <3> QED  BY <3>4 DEF a, c
  <2> QED  BY <2>1, <2>2
<1>. HIDE DEF T
<1>7. \A k \in 0 .. n : k \in T
  BY <1>1, <1>6, UpTo
<1>8. x[m - n] <= y[n - n] /\ n - n = 0 /\ m - n \in 1 .. m /\ m - n \in 0 .. m
  BY <1>1, <1>3, <1>7 DEF T
<1>9. x[m - n] > 0 /\ x[m - n] \in Nat
  BY <1>2, <1>5, <1>8
<1> QED  BY <1>2, <1>8, <1>9

\* Digits of one length that write one number are the same.
LEMMA DigitsAreOne ==
  ASSUME NEW base \in Nat, base > 0, NEW s \in Seq(0 .. base - 1), NEW t \in Seq(0 .. base - 1),
         Len(s) = Len(t), Value(s, base) = Value(t, base)
  PROVE  s = t
<1>. DEFINE n == Len(s)
            x == Numbers(s, base)
            y == Numbers(t, base)
            T == {k \in 0 .. n : x[n - k] = y[n - k]}
<1>1. /\ s \in Seq(Nat) /\ t \in Seq(Nat) /\ n \in Nat /\ Len(t) = n
      /\ \A i \in 1 .. n : s[i] \in 0 .. base - 1 /\ t[i] \in 0 .. base - 1
  BY DigitsAreNats, LenProperties
<1>2. /\ x \in [0 .. n -> Nat] /\ \A i \in 1 .. n : x[i] = x[i - 1] * base + s[i]
      /\ y \in [0 .. n -> Nat] /\ \A i \in 1 .. n : y[i] = y[i - 1] * base + t[i]
  BY <1>1, NumbersAre
<1>3. x[n] = y[n]
  BY DEF Value
<1>. HIDE DEF x, y, n
<1>4. ASSUME NEW i \in 1 .. n, x[i] = y[i]
      PROVE  x[i - 1] = y[i - 1] /\ s[i] = t[i]
  <2>. DEFINE a == x[i - 1]
              c == y[i - 1]
              d == s[i]
              e == t[i]
  <2>1. i - 1 \in 0 .. n
    BY <1>1
  <2>2. a \in Nat /\ c \in Nat /\ d \in 0 .. base - 1 /\ e \in 0 .. base - 1 /\ a * base + d = c * base + e
    BY <1>1, <1>2, <1>4, <2>1
  <2>. HIDE DEF a, c, d, e
  <2>3. a * base \in Nat /\ c * base \in Nat
    BY <2>2
  <2>4. a <= c
    BY <2>2, <2>3, FrontDecides
  <2>5. c <= a
    BY <2>2, <2>3, FrontDecides
  <2>6. a = c
    BY <2>2, <2>4, <2>5
  <2>7. d = e
    BY <2>2, <2>3, <2>6
  <2> QED  BY <2>6, <2>7 DEF a, c, d, e
<1>5. ASSUME NEW k \in 0 .. n, \A j \in 0 .. k - 1 : j \in T
      PROVE  k \in T
  <2>1. CASE k = 0
    BY <1>1, <1>3, <2>1
  <2>2. CASE k # 0
    <3>1. k - 1 \in 0 .. k - 1 /\ k - 1 \in 0 .. n /\ n - (k - 1) \in 1 .. n /\ (n - (k - 1)) - 1 = n - k
      BY <1>1, <2>2
    <3>2. x[n - (k - 1)] = y[n - (k - 1)]
      BY <1>5, <3>1
    <3>3. x[n - k] = y[n - k]
      BY <1>4, <3>1, <3>2
    <3> QED  BY <3>3
  <2> QED  BY <2>1, <2>2
<1>. HIDE DEF T
<1>6. \A k \in 0 .. n : k \in T
  BY <1>1, <1>5, UpTo
<1>7. ASSUME NEW i \in 1 .. n
      PROVE  s[i] = t[i]
  <2>1. n - i \in 0 .. n /\ n - (n - i) = i
    BY <1>1
  <2>2. x[i] = y[i]
    BY <1>6, <2>1 DEF T
  <2> QED  BY <1>4, <2>2
<1> QED  BY <1>1, <1>7, SeqEqual DEF n

----------------------------------------------------------------------------
\* The zeros in front are what the name says, and nothing else is.
LEMMA LeadingZerosAre ==
  ASSUME NEW s, Len(s) \in Nat
  PROVE  /\ LeadingZeros(s) \in 0 .. Len(s)
         /\ \A i \in 1 .. LeadingZeros(s) : s[i] = 0
         /\ LeadingZeros(s) = Len(s) \/ s[LeadingZeros(s) + 1] # 0
         /\ \A z \in 0 .. Len(s) :
              (\A i \in 1 .. z : s[i] = 0) /\ (z = Len(s) \/ s[z + 1] # 0) => z = LeadingZeros(s)
<1>. DEFINE n == Len(s)
            J == {j \in 0 .. n : j = n \/ s[j + 1] # 0}
            z == LeadingZeros(s)
<1>1. n \in J /\ J \subseteq Nat
  OBVIOUS
<1>2. \E j \in J : \A k \in J : j <= k
  <2>. HIDE DEF J
  <2> QED  BY <1>1, LeastNumber
<1>3. z \in J /\ \A k \in J : z <= k
  BY <1>2 DEF LeadingZeros, Min
<1>. HIDE DEF z
<1>4. z \in 0 .. n /\ (z = n \/ s[z + 1] # 0)
  BY <1>3
<1>5. ASSUME NEW i \in 1 .. z
      PROVE  s[i] = 0
  <2>1. i - 1 \in 0 .. n /\ i - 1 # n /\ ~(z <= i - 1) /\ (i - 1) + 1 = i
    BY <1>4
  <2>2. i - 1 \notin J
    BY <1>3, <2>1
  <2> QED  BY <2>1, <2>2
<1>6. ASSUME NEW y \in 0 .. n, \A i \in 1 .. y : s[i] = 0, y = n \/ s[y + 1] # 0
      PROVE  y = z
  <2>1. z <= y
    BY <1>3, <1>6
  <2>2. ~(z < y)
    <3>1. SUFFICES ASSUME z < y PROVE FALSE
      OBVIOUS
    <3>2. z + 1 \in 1 .. y /\ z # n
      BY <1>4, <3>1
    <3> QED  BY <1>4, <1>6, <3>2
  <2> QED  BY <1>4, <2>1, <2>2
<1> QED  BY <1>4, <1>5, <1>6 DEF z

\* Zeros in front of digits are digits.
LEMMA ZerosThen ==
  ASSUME NEW Digit, 0 \in Digit, NEW z \in Nat, NEW c \in Seq(Digit)
  PROVE  /\ Zeros(z) \o c \in Seq(Digit) /\ Len(Zeros(z) \o c) = z + Len(c)
         /\ \A i \in 1 .. z : (Zeros(z) \o c)[i] = 0
         /\ \A i \in 1 .. z + Len(c) : i > z => (Zeros(z) \o c)[i] = c[i - z]
<1>1. Zeros(z) \in Seq(Digit) /\ Len(Zeros(z)) = z
  <2>1. Zeros(z) \in [1 .. z -> Digit]
    BY DEF Zeros
  <2>2. Zeros(z) \in Seq(Digit)
    BY <2>1, SeqDef
  <2> QED  BY <2>1, <2>2, LenProperties
<1>2. \A i \in 1 .. z : Zeros(z)[i] = 0
  BY DEF Zeros
<1>. DEFINE y == Zeros(z)
<1>. HIDE DEF y
<1>3. y \in Seq(Digit) /\ Len(y) = z
  BY <1>1 DEF y
<1>4. /\ y \o c \in Seq(Digit) /\ Len(y \o c) = Len(y) + Len(c)
      /\ \A i \in 1 .. Len(y) + Len(c) : (y \o c)[i] = IF i <= Len(y) THEN y[i] ELSE c[i - Len(y)]
  BY <1>3, ConcatProperties
<1>5. Len(c) \in Nat
  BY LenProperties
<1>6. \A i \in 1 .. z : (y \o c)[i] = y[i]
  BY <1>3, <1>4, <1>5
<1>7. \A i \in 1 .. z + Len(c) : i > z => (y \o c)[i] = c[i - z]
  BY <1>3, <1>4, <1>5
<1> QED  BY <1>2, <1>3, <1>4, <1>6, <1>7 DEF y

\* Zeros in front of digits write what the digits do.
LEMMA ZerosInFront ==
  ASSUME NEW base \in Nat, base > 0, NEW z \in Nat, NEW c, Canonical(c, base)
  PROVE  /\ Zeros(z) \o c \in Seq(0 .. base - 1) /\ Len(Zeros(z) \o c) = z + Len(c)
         /\ LeadingZeros(Zeros(z) \o c) = z /\ Value(Zeros(z) \o c, base) = Value(c, base)
<1>. DEFINE s == Zeros(z) \o c
            n == Len(c)
            x == Numbers(s, base)
            y == Numbers(c, base)
            Digit == 0 .. base - 1
<1>1. c \in Seq(Digit) /\ c \in Seq(Nat) /\ n \in Nat
  BY DigitsAreNats, LenProperties DEF Canonical
<1>2. 0 \in Digit
  OBVIOUS
<1>. HIDE DEF n, Digit
<1>3. /\ s \in Seq(Digit) /\ Len(s) = z + n /\ \A i \in 1 .. z : s[i] = 0
      /\ \A i \in 1 .. z + n : i > z => s[i] = c[i - z]
  BY <1>1, <1>2, ZerosThen DEF n
<1>. USE DEF n, Digit
<1>4. \A i \in 1 .. z : s[i] = 0
  BY <1>3
<1>5. \A j \in 1 .. n : z + j \in 1 .. z + n /\ s[z + j] = c[j]
  <2>1. \A j \in 1 .. n : z + j \in 1 .. z + n /\ z + j > z /\ (z + j) - z = j
    BY <1>1
  <2>. HIDE DEF s
  <2> QED  BY <1>3, <2>1
<1>6. s \in Seq(Nat)
  BY <1>3, DigitsAreNats
<1>7. /\ x \in [0 .. z + n -> Nat] /\ x[0] = 0 /\ \A i \in 1 .. z + n : x[i] = x[i - 1] * base + s[i]
      /\ y \in [0 .. n -> Nat] /\ y[0] = 0 /\ \A i \in 1 .. n : y[i] = y[i - 1] * base + c[i]
  BY <1>1, <1>3, <1>6, NumbersAre
<1>. HIDE DEF x, y, s, n
<1>. DEFINE T == {i \in 0 .. z : x[i] = 0}
            U == {j \in 0 .. n : x[z + j] = y[j]}
<1>8. ASSUME NEW i \in 0 .. z, \A j \in 0 .. i - 1 : j \in T
      PROVE  i \in T
  <2>1. CASE i = 0
    BY <1>7, <2>1
  <2>2. CASE i # 0
    <3>1. i \in 1 .. z /\ i \in 1 .. z + n /\ i - 1 \in 0 .. i - 1 /\ 0 * base = 0
      BY <1>1, <2>2
    <3>2. x[i] = x[i - 1] * base + s[i] /\ x[i - 1] = 0 /\ s[i] = 0
      BY <1>4, <1>7, <1>8, <3>1
    <3> QED  BY <3>1, <3>2
  <2> QED  BY <2>1, <2>2
<1>9. x[z] = 0
  <2>. HIDE DEF T
  <2>1. \A i \in 0 .. z : i \in T
    BY <1>8, UpTo
  <2>2. z \in T
    BY <2>1
  <2> QED  BY <2>2 DEF T
<1>10. ASSUME NEW j \in 0 .. n, \A i \in 0 .. j - 1 : i \in U
       PROVE  j \in U
  <2>1. CASE j = 0
    BY <1>7, <1>9, <2>1
  <2>2. CASE j # 0
    <3>1. j \in 1 .. n /\ j - 1 \in 0 .. j - 1 /\ (z + j) - 1 = z + (j - 1)
      BY <1>1, <2>2
    <3>2. x[z + j] = x[z + (j - 1)] * base + c[j] /\ x[z + (j - 1)] = y[j - 1]
      BY <1>5, <1>7, <1>10, <3>1
    <3>3. x[z + j] = y[j]
      BY <1>7, <3>1, <3>2
    <3> QED  BY <3>3
  <2> QED  BY <2>1, <2>2
<1>11. x[z + n] = y[n]
  <2>. HIDE DEF U
  <2>1. \A j \in 0 .. n : j \in U
    BY <1>1, <1>10, UpTo
  <2>2. n \in U
    BY <1>1, <2>1
  <2> QED  BY <2>2 DEF U
<1>12. Value(s, base) = Value(c, base)
  BY <1>3, <1>11 DEF Value, x, y, n
<1>13. z = LeadingZeros(s)
  <2>1. z \in 0 .. Len(s) /\ Len(s) \in Nat
    BY <1>1, <1>3
  <2>2. z = Len(s) \/ s[z + 1] # 0
    <3>1. CASE n = 0
      BY <1>3, <3>1
    <3>2. CASE n # 0
      <4>1. 1 \in 1 .. n /\ c # <<>>
        BY <1>1, <3>2, EmptySeq DEF n
      <4> QED  BY <1>5, <4>1 DEF Canonical
    <3> QED  BY <3>1, <3>2
  <2> QED  BY <1>4, <2>1, <2>2, LeadingZerosAre
<1> QED  BY <1>3, <1>12, <1>13 DEF s, n

\* All digits are zeros in front and a number behind them.
LEMMA BehindZeros ==
  ASSUME NEW base \in Nat, base > 0, NEW s \in Seq(0 .. base - 1)
  PROVE  \E c : /\ Canonical(c, base) /\ s = Zeros(LeadingZeros(s)) \o c
                /\ Len(s) = LeadingZeros(s) + Len(c) /\ Value(s, base) = Value(c, base)
<1>. DEFINE z == LeadingZeros(s)
            n == Len(s) - z
            c == [i \in 1 .. n |-> s[z + i]]
            Digit == 0 .. base - 1
<1>1. Len(s) \in Nat /\ \A i \in 1 .. Len(s) : s[i] \in Digit
  BY LenProperties, ElementOfSeq
<1>2. z \in 0 .. Len(s) /\ (\A i \in 1 .. z : s[i] = 0) /\ (z = Len(s) \/ s[z + 1] # 0)
  BY <1>1, LeadingZerosAre
<1>. HIDE DEF z
<1>3. n \in Nat /\ z \in Nat /\ \A i \in 1 .. n : z + i \in 1 .. Len(s)
  BY <1>1, <1>2
<1>. HIDE DEF n
<1>4. c \in [1 .. n -> Digit]
  BY <1>1, <1>3
<1>5. c \in Seq(Digit) /\ Len(c) = n
  <2>1. c \in Seq(Digit)
    BY <1>3, <1>4, SeqDef, SMTT(30)
  <2> QED  BY <1>3, <1>4, <2>1, LenProperties
<1>6. c # <<>> => c[1] # 0
  <2>1. SUFFICES ASSUME c # <<>> PROVE c[1] # 0
    OBVIOUS
  <2>2. n # 0
    <3>. HIDE DEF c
    <3> QED  BY <1>5, <2>1, EmptySeq
  <2>3. 1 \in 1 .. n /\ z # Len(s)
    BY <1>1, <1>2, <1>3, <2>2 DEF n
  <2> QED  BY <1>2, <2>3
<1>7. \A i \in 1 .. n : c[i] = s[z + i]
  OBVIOUS
<1>. HIDE DEF c
<1>8. Canonical(c, base)
  BY <1>5, <1>6 DEF Canonical
<1>. DEFINE t == Zeros(z) \o c
<1>9. t \in Seq(Digit) /\ Len(t) = z + n /\ Value(t, base) = Value(c, base)
  BY <1>3, <1>5, <1>8, ZerosInFront
<1>10. (\A i \in 1 .. z : t[i] = 0) /\ \A i \in 1 .. z + n : i > z => t[i] = c[i - z]
  <2>1. 0 \in Digit
    OBVIOUS
  <2>. HIDE DEF Digit, t
  <2>2. c \in Seq(Digit) /\ z \in Nat
    BY <1>3, <1>5
  <2>3. /\ \A i \in 1 .. z : (Zeros(z) \o c)[i] = 0
        /\ \A i \in 1 .. z + Len(c) : i > z => (Zeros(z) \o c)[i] = c[i - z]
    BY <2>1, <2>2, ZerosThen
  <2> QED  BY <1>5, <2>3 DEF t
<1>11. z + n = Len(s)
  BY <1>1, <1>2 DEF n
<1>12. ASSUME NEW i \in 1 .. Len(s)
       PROVE  s[i] = t[i]
  <2>. HIDE DEF t
  <2>1. CASE i <= z
    <3>1. i \in 1 .. z
      BY <1>3, <2>1
    <3> QED  BY <1>2, <1>10, <3>1
  <2>2. CASE ~(i <= z)
    <3>1. i - z \in 1 .. n /\ z + (i - z) = i /\ i > z /\ i \in 1 .. z + n
      BY <1>1, <1>3, <1>11, <2>2
    <3> QED  BY <1>7, <1>10, <3>1
  <2> QED  BY <2>1, <2>2
<1>13. s = t
  <2>. HIDE DEF t
  <2> QED  BY <1>9, <1>11, <1>12, SeqEqual
<1> QED  BY <1>5, <1>8, <1>9, <1>11, <1>13 DEF z

(***************************************************************************)
(* A conversion keeps the number and the zeros in front; and these two     *)
(* decide the digits.                                                      *)
(***************************************************************************)
LEMMA ConvertedKeeps ==
  ASSUME NEW from \in Nat, from > 0, NEW to \in Nat, to > 1, NEW s \in Seq(0 .. from - 1)
  PROVE  LET out == Converted(s, from, to)
         IN  /\ out \in Seq(0 .. to - 1) /\ Value(out, to) = Value(s, from)
             /\ LeadingZeros(out) = LeadingZeros(s)
<1>. DEFINE c == Conversions(s, from, to)[Len(s)]
            z == LeadingZeros(s)
<1>1. Canonical(c, to) /\ Value(c, to) = Value(s, from)
  BY ConversionWrites
<1>2. z \in Nat
  <2>1. Len(s) \in Nat
    BY LenProperties
  <2>2. z \in 0 .. Len(s)
    BY <2>1, LeadingZerosAre
  <2> QED  BY <2>1, <2>2
<1>. HIDE DEF c, z
<1>3. /\ Zeros(z) \o c \in Seq(0 .. to - 1) /\ LeadingZeros(Zeros(z) \o c) = z
      /\ Value(Zeros(z) \o c, to) = Value(c, to)
  <2>1. to > 0
    OBVIOUS
  <2> QED  BY <1>1, <1>2, <2>1, ZerosInFront
<1> QED  BY <1>1, <1>3 DEF Converted, c, z

LEMMA SameDigits ==
  ASSUME NEW base \in Nat, base > 0, NEW s \in Seq(0 .. base - 1), NEW t \in Seq(0 .. base - 1),
         Value(s, base) = Value(t, base), LeadingZeros(s) = LeadingZeros(t)
  PROVE  s = t
<1>1. PICK c : /\ Canonical(c, base) /\ s = Zeros(LeadingZeros(s)) \o c
               /\ Value(s, base) = Value(c, base)
  BY BehindZeros
<1>2. PICK d : /\ Canonical(d, base) /\ t = Zeros(LeadingZeros(t)) \o d
               /\ Value(t, base) = Value(d, base)
  BY BehindZeros
<1>3. Value(c, base) = Value(d, base) /\ Value(c, base) \in Nat
  <2>1. c \in Seq(Nat)
    BY <1>1, DigitsAreNats DEF Canonical
  <2> QED  BY <1>1, <1>2, <2>1, ValueOfAppend
<1>4. Value(c, base) <= Value(d, base) /\ Value(d, base) <= Value(c, base)
  BY <1>3
<1>5. Len(c) <= Len(d) /\ Len(d) <= Len(c)
  BY <1>1, <1>2, <1>4, LongerIsMore
<1>6. Len(c) = Len(d)
  <2>1. Len(c) \in Nat /\ Len(d) \in Nat
    BY <1>1, <1>2, LenProperties DEF Canonical
  <2> QED  BY <1>5, <2>1
<1>7. c = d
  BY <1>1, <1>2, <1>3, <1>6, DigitsAreOne DEF Canonical
<1> QED  BY <1>1, <1>2, <1>7

\* No digits of a length write more than the largest ones.
LEMMA LargestNumber ==
  ASSUME NEW base \in Nat, base > 0, NEW s \in Seq(0 .. base - 1)
  PROVE  LET t == [i \in 1 .. Len(s) |-> base - 1]
         IN  t \in Seq(0 .. base - 1) /\ Value(s, base) <= Value(t, base)
<1>. DEFINE n == Len(s)
            t == [i \in 1 .. n |-> base - 1]
            x == Numbers(s, base)
            y == Numbers(t, base)
            T == {k \in 0 .. n : x[k] <= y[k]}
<1>1. s \in Seq(Nat) /\ n \in Nat /\ \A i \in 1 .. n : s[i] \in 0 .. base - 1
  BY DigitsAreNats, LenProperties
<1>2. t \in Seq(0 .. base - 1) /\ t \in Seq(Nat) /\ Len(t) = n /\ \A i \in 1 .. n : t[i] = base - 1
  <2>1. t \in [1 .. n -> 0 .. base - 1]
    OBVIOUS
  <2>2. t \in Seq(0 .. base - 1)
    BY <1>1, <2>1, SeqDef
  <2>3. Len(t) = n
    BY <1>1, <2>1, <2>2, LenProperties
  <2>4. t \in Seq(Nat)
    BY <2>2, DigitsAreNats
  <2> QED  BY <2>2, <2>3, <2>4
<1>. HIDE DEF t
<1>3. /\ x \in [0 .. n -> Nat] /\ x[0] = 0 /\ \A i \in 1 .. n : x[i] = x[i - 1] * base + s[i]
      /\ y \in [0 .. n -> Nat] /\ y[0] = 0 /\ \A i \in 1 .. n : y[i] = y[i - 1] * base + t[i]
  BY <1>1, <1>2, NumbersAre
<1>. HIDE DEF x, y, n
<1>4. ASSUME NEW k \in 0 .. n, \A j \in 0 .. k - 1 : j \in T
      PROVE  k \in T
  <2>1. CASE k = 0
    BY <1>3, <2>1
  <2>2. CASE k # 0
    <3>1. k \in 1 .. n /\ k - 1 \in 0 .. k - 1 /\ k - 1 \in 0 .. n
      BY <1>1, <2>2
    <3>. DEFINE a == x[k - 1]
                c == y[k - 1]
    <3>2. a \in Nat /\ c \in Nat /\ a <= c /\ s[k] \in 0 .. base - 1
      BY <1>1, <1>3, <1>4, <3>1
    <3>3. x[k] = a * base + s[k] /\ y[k] = c * base + (base - 1)
      BY <1>2, <1>3, <3>1
    <3>. HIDE DEF a, c
    <3>4. a * base \in Nat /\ c * base \in Nat /\ a * base <= c * base
      <4>1. CASE a = c
        BY <3>2, <4>1
      <4>2. CASE a # c
        <5>1. c * base >= a * base + base /\ a * base \in Nat /\ c * base \in Nat
          BY <3>2, <4>2, Times
        <5> QED  BY <5>1
      <4> QED  BY <4>1, <4>2
    <3>5. \A p, q \in Nat, u \in 0 .. base - 1 : p <= q => p + u <= q + (base - 1)
      OBVIOUS
    <3> QED  BY <3>2, <3>3, <3>4, <3>5
  <2> QED  BY <2>1, <2>2
<1>. HIDE DEF T
<1>5. \A k \in 0 .. n : k \in T
  BY <1>1, <1>4, UpTo
<1>6. x[n] <= y[n]
  <2>1. n \in T
    BY <1>1, <1>5
  <2> QED  BY <2>1 DEF T
<1> QED  BY <1>2, <1>6 DEF Value, x, y, n, t

----------------------------------------------------------------------------
\* The characters of a text in the alphabet.
LEMMA InAlphabet ==
  ASSUME NEW text \in Seq(0 .. Radix), Radix \notin Range(text)
  PROVE  text \in Seq(0 .. Radix - 1)
<1>1. Len(text) \in Nat /\ text \in [1 .. Len(text) -> 0 .. Radix]
  BY LenProperties
<1>2. \A i \in 1 .. Len(text) : text[i] \in 0 .. Radix /\ text[i] # Radix
  BY <1>1 DEF Range
<1>3. Radix \in Nat
  BY RadixAssumption
<1>4. \A i \in 1 .. Len(text) : text[i] \in 0 .. Radix - 1
  BY <1>2, <1>3
<1>. DEFINE Digit == 0 .. Radix - 1
            n == Len(text)
<1>5. n \in Nat /\ text \in [1 .. n -> Digit]
  BY <1>1, <1>4
<1>. HIDE DEF Digit, n
<1>6. text \in Seq(Digit)
  BY <1>5, SeqDef
<1> QED  BY <1>6 DEF Digit

\* What the text of an address decodes to: an address that it spells, and that is written back as it.
LEMMA AddressDecodes ==
  ASSUME NEW text \in Seq(0 .. Radix), IsAddress(text)
  PROVE  /\ DecodeBase58(text) \in Addresses /\ Spells(text, DecodeBase58(text))
         /\ EncodeBase58(DecodeBase58(text)) = text
<1>. DEFINE d == DecodeBase58(text)
<1>1. Radix \in Nat /\ Radix > 1 /\ Byte \in Nat /\ Byte > 1 /\ Width \in Nat /\ Width # 0
  BY RadixAssumption
<1>2. Len(d) = Width
  BY DEF IsAddress
<1>3. d # <<>>
  <2>1. Len(<<>>) = 0
    OBVIOUS
  <2>. HIDE DEF d
  <2> QED  BY <1>1, <1>2, <2>1
<1>4. Radix \notin Range(text) /\ d = Converted(text, Radix, Byte)
  BY <1>3 DEF DecodeBase58
<1>5. text \in Seq(0 .. Radix - 1)
  BY <1>4, InAlphabet
<1>. HIDE DEF d
<1>6. Radix > 0 /\ Byte > 0
  BY <1>1
<1>7. /\ d \in Seq(0 .. Byte - 1) /\ Value(d, Byte) = Value(text, Radix)
      /\ LeadingZeros(d) = LeadingZeros(text)
  BY <1>1, <1>4, <1>5, <1>6, ConvertedKeeps
<1>8. d \in Addresses
  BY <1>2, <1>7, LenProperties DEF Addresses
<1>. DEFINE t == Converted(d, Byte, Radix)
<1>9. t \in Seq(0 .. Radix - 1) /\ Value(t, Radix) = Value(d, Byte) /\ LeadingZeros(t) = LeadingZeros(d)
  BY <1>1, <1>6, <1>7, ConvertedKeeps
<1>. HIDE DEF t
<1>10. t = text
  BY <1>1, <1>5, <1>6, <1>7, <1>9, SameDigits
<1> QED  BY <1>4, <1>7, <1>8, <1>10 DEF d, t, Spells, EncodeBase58

\* No digits write nothing.
LEMMA NothingWritten ==
  ASSUME NEW base \in Nat, base > 0
  PROVE  Canonical(<<>>, base) /\ Value(<<>>, base) = 0
<1>1. <<>> \in Seq(Nat) /\ Len(<<>>) = 0 /\ <<>> \in Seq(0 .. base - 1)
  OBVIOUS
<1>2. Numbers(<<>>, base)[0] = 0
  BY <1>1, NumbersAre
<1> QED  BY <1>1, <1>2 DEF Canonical, Value

\* No text of an address is too long to be looked at, or empty.
LEMMA SpelledLength ==
  ASSUME NEW text \in Seq(0 .. Radix - 1), NEW bytes \in Addresses, Spells(text, bytes)
  PROVE  text # <<>> /\ Len(text) <= MaxLength
<1>. DEFINE z == LeadingZeros(text)
<1>1. /\ Radix \in Nat /\ Radix > 1 /\ Radix > 0 /\ Byte \in Nat /\ Byte > 1 /\ Byte > 0
      /\ Width \in Nat /\ Width # 0 /\ MaxLength \in Nat
  BY RadixAssumption
<1>2. bytes \in Seq(0 .. Byte - 1) /\ Len(bytes) = Width
  <2>1. bytes \in [1 .. Width -> 0 .. Byte - 1]
    BY DEF Addresses
  <2>2. bytes \in Seq(0 .. Byte - 1)
    BY <1>1, <2>1, SeqDef
  <2> QED  BY <1>1, <2>1, <2>2, LenProperties
<1>3. LeadingZeros(bytes) = z /\ Value(text, Radix) = Value(bytes, Byte)
  BY DEF Spells
<1>4. z \in 0 .. Len(text) /\ Len(text) \in Nat
  <2>1. Len(text) \in Nat
    BY LenProperties
  <2> QED  BY <2>1, LeadingZerosAre
<1>. HIDE DEF z
<1>5. PICK c : Canonical(c, Radix) /\ Len(text) = z + Len(c) /\ Value(text, Radix) = Value(c, Radix)
  BY <1>1, BehindZeros DEF z
<1>6. PICK b : Canonical(b, Byte) /\ Len(bytes) = z + Len(b) /\ Value(bytes, Byte) = Value(b, Byte)
  BY <1>1, <1>2, <1>3, BehindZeros
<1>7. c \in Seq(0 .. Radix - 1) /\ Len(c) \in Nat /\ b \in Seq(0 .. Byte - 1) /\ Len(b) \in Nat
  BY <1>5, <1>6, LenProperties DEF Canonical
<1>8. text # <<>>
  <2>1. SUFFICES ASSUME text = <<>> PROVE FALSE
    OBVIOUS
  <2>2. Len(text) = 0 /\ Value(text, Radix) = 0
    BY <1>1, <2>1, NothingWritten
  <2>3. z = 0 /\ Len(b) = Width /\ Value(b, Byte) <= Value(<<>>, Byte)
    <3>1. z = 0
      BY <1>4, <2>2
    <3>2. Value(b, Byte) = 0 /\ Value(<<>>, Byte) = 0
      BY <1>1, <1>3, <1>6, <2>2, NothingWritten
    <3> QED  BY <1>1, <1>2, <1>6, <1>7, <3>1, <3>2
  <2>4. Canonical(<<>>, Byte) /\ Len(<<>>) = 0
    BY <1>1, NothingWritten
  <2>5. Len(b) <= Len(<<>>)
    BY <1>1, <1>6, <2>3, <2>4, LongerIsMore
  <2> QED  BY <1>1, <1>7, <2>3, <2>4, <2>5
<1>. DEFINE n == Len(b)
            top == Value([i \in 1 .. n |-> Byte - 1], Byte)
            d == Digits(top, Radix)
<1>9. n \in 0 .. Width /\ Width - n = z
  BY <1>1, <1>2, <1>4, <1>6, <1>7
<1>10. Value(b, Byte) <= top /\ top \in Nat
  <2>1. [i \in 1 .. n |-> Byte - 1] \in Seq(0 .. Byte - 1) /\ Value(b, Byte) <= top
    BY <1>1, <1>7, LargestNumber
  <2>2. [i \in 1 .. n |-> Byte - 1] \in Seq(Nat)
    BY <1>1, <2>1, DigitsAreNats
  <2>3. top \in Nat
    BY <1>1, <2>2, ValueOfAppend
  <2> QED  BY <2>1, <2>3
<1>11. Width - n + Len(d) <= MaxLength
  BY <1>9, LengthAssumption
<1>. HIDE DEF top, n
<1>12. Canonical(d, Radix) /\ Value(d, Radix) = top
  BY <1>1, <1>10, DigitsWrite
<1>. HIDE DEF d
<1>13. Value(c, Radix) <= Value(d, Radix)
  BY <1>3, <1>5, <1>6, <1>10, <1>12
<1>14. Len(c) <= Len(d)
  BY <1>1, <1>5, <1>12, <1>13, LongerIsMore
<1>15. Len(d) \in Nat
  BY <1>12, LenProperties DEF Canonical
<1>16. Len(text) <= MaxLength
  BY <1>1, <1>4, <1>5, <1>7, <1>9, <1>11, <1>14, <1>15
<1> QED  BY <1>8, <1>16

\* The texts taken for addresses are those that spell one.
LEMMA AddressSpelled ==
  ASSUME NEW text \in Seq(0 .. Radix)
  PROVE  IsAddress(text) <=> \E bytes \in Addresses : Spells(text, bytes)
<1>1. ASSUME IsAddress(text)
      PROVE  \E bytes \in Addresses : Spells(text, bytes)
  BY <1>1, AddressDecodes
<1>2. ASSUME NEW bytes \in Addresses, Spells(text, bytes)
      PROVE  IsAddress(text)
  <2>1. Radix \notin Range(text)
    BY <1>2 DEF Spells
  <2>2. text \in Seq(0 .. Radix - 1)
    BY <2>1, InAlphabet
  <2>3. text # <<>> /\ Len(text) <= MaxLength /\ Len(text) \in Nat /\ MaxLength \in Nat
    BY <1>2, <2>2, SpelledLength, LenProperties, RadixAssumption
  <2>. DEFINE d == Converted(text, Radix, Byte)
  <2>4. DecodeBase58(text) = d
    BY <2>1, <2>3 DEF DecodeBase58
  <2>5. Radix \in Nat /\ Radix > 0 /\ Byte \in Nat /\ Byte > 1 /\ Byte > 0 /\ Width \in Nat
    BY RadixAssumption
  <2>6. /\ d \in Seq(0 .. Byte - 1) /\ Value(d, Byte) = Value(text, Radix)
        /\ LeadingZeros(d) = LeadingZeros(text)
    BY <2>2, <2>5, ConvertedKeeps
  <2>. HIDE DEF d
  <2>7. bytes \in Seq(0 .. Byte - 1) /\ Len(bytes) = Width
    <3>1. bytes \in [1 .. Width -> 0 .. Byte - 1]
      BY DEF Addresses
    <3>2. bytes \in Seq(0 .. Byte - 1)
      BY <2>5, <3>1, SeqDef
    <3> QED  BY <2>5, <3>1, <3>2, LenProperties
  <2>8. d = bytes
    BY <1>2, <2>5, <2>6, <2>7, SameDigits DEF Spells
  <2> QED  BY <2>4, <2>7, <2>8 DEF IsAddress
<1> QED  BY <1>1, <1>2

----------------------------------------------------------------------------
(***************************************************************************)
(* The ids of a report: the invariant that carries each declared address   *)
(* from its file into the list, once.                                      *)
(***************************************************************************)

\* The texts taken for addresses in the files before the nth, and in the nth before its mth item.
Met(n, m) ==
  UNION { {input.files[k].items[i].text :
             i \in {j \in DOMAIN input.files[k].items :
                      /\ k < n \/ (k = n /\ j < m)
                      /\ Collected(input.files[k].items[j])}} :
          k \in {j \in Shipped : Parses(input.files[j])} }

IdsInv ==
  /\ \A i, j \in DOMAIN report.ids : report.ids[i] = report.ids[j] => i = j
  /\ pc \in {"start", "m3"} => report.ids = <<>>
  /\ pc = "files" => Range(report.ids) = Met(at, 1)
  /\ pc = "ids" => Range(report.ids) = Met(at, item) /\ at \in Shipped /\ Parses(input.files[at])
  /\ pc = "sort" \/ Reported => Range(report.ids) = Met(Len(input.files) + 1, 1)

\* What is met is at an item of a file that is scanned.
LEMMA MetAt ==
  ASSUME NEW n, NEW m, NEW t
  PROVE  t \in Met(n, m) <=>
           \E k \in Shipped : \E j \in DOMAIN input.files[k].items :
             /\ Parses(input.files[k]) /\ (k < n \/ (k = n /\ j < m))
             /\ Collected(input.files[k].items[j]) /\ t = input.files[k].items[j].text
BY DEF Met

\* The files and their items are numbered.
LEMMA ItemsAreNumbered ==
  ASSUME TypeOK
  PROVE  \A k \in Shipped : /\ k \in 1 .. Len(input.files) /\ k \in Nat
                            /\ Len(input.files[k].items) \in Nat
                            /\ DOMAIN input.files[k].items = 1 .. Len(input.files[k].items)
                            /\ \A j \in DOMAIN input.files[k].items : j \in Nat /\ j >= 1
<1>1. \A k \in Shipped : k \in 1 .. Len(input.files) /\ k \in Nat
  BY InputIsTyped DEF Shipped
<1>2. ASSUME NEW k \in Shipped
      PROVE  /\ Len(input.files[k].items) \in Nat
             /\ DOMAIN input.files[k].items = 1 .. Len(input.files[k].items)
             /\ \A j \in DOMAIN input.files[k].items : j \in Nat /\ j >= 1
  <2>1. input.files[k].items \in Seq(Declaration)
    BY <1>1, InputIsTyped
  <2>2. /\ Len(input.files[k].items) \in Nat
        /\ DOMAIN input.files[k].items = 1 .. Len(input.files[k].items)
    BY <2>1, LenProperties
  <2> QED  BY <2>2
<1> QED  BY <1>1, <1>2

LEMMA MetStays ==
  ASSUME UNCHANGED input
  PROVE  /\ Shipped' = Shipped /\ Len(input.files)' = Len(input.files)
         /\ \A n, m : Met(n, m)' = Met(n, m)
BY DEF Met, Shipped

\* A file that is passed over declares nothing, and the item behind the last is the next file's first.
LEMMA FileIsOver ==
  ASSUME TypeOK, at \in Nat, NEW m \in Nat,
         (at \in Shipped /\ Parses(input.files[at])) => m > Len(input.files[at].items)
  PROVE  Met(at + 1, 1) = Met(at, m)
<1>1. ASSUME NEW k \in Shipped, NEW j \in DOMAIN input.files[k].items, Parses(input.files[k])
      PROVE  (k < at + 1 \/ (k = at + 1 /\ j < 1)) <=> (k < at \/ (k = at /\ j < m))
  <2>1. k \in Nat /\ j \in Nat /\ j >= 1 /\ j <= Len(input.files[k].items) /\ Len(input.files[k].items) \in Nat
    BY ItemsAreNumbered
  <2>2. k = at => j < m
    BY <1>1, <2>1
  <2> QED  BY <2>1, <2>2
<1>2. \A t : t \in Met(at + 1, 1) <=> t \in Met(at, m)
  BY <1>1, MetAt
<1> QED  BY <1>2

\* One more item.
LEMMA OneItemMore ==
  ASSUME TypeOK, at \in Shipped, Parses(input.files[at]), item \in DOMAIN input.files[at].items
  PROVE  Met(at, item + 1) = IF Collected(input.files[at].items[item])
                             THEN Met(at, item) \cup {input.files[at].items[item].text} ELSE Met(at, item)
<1>1. at \in Nat /\ item \in Nat
  BY ItemsAreNumbered
<1>2. ASSUME NEW k \in Shipped, NEW j \in DOMAIN input.files[k].items
      PROVE  (k < at \/ (k = at /\ j < item + 1)) <=> (k < at \/ (k = at /\ j < item)) \/ (k = at /\ j = item)
  <2>1. k \in Nat /\ j \in Nat
    BY ItemsAreNumbered
  <2> QED  BY <1>1, <2>1
<1>3. ASSUME NEW t
      PROVE  t \in Met(at, item + 1)
               <=> t \in Met(at, item)
                   \/ (Collected(input.files[at].items[item]) /\ t = input.files[at].items[item].text)
  BY <1>2, MetAt
<1> QED  BY <1>3

----------------------------------------------------------------------------
LEMMA IdsInit == Init => IdsInv
<1>. SUFFICES ASSUME Init PROVE IdsInv
  OBVIOUS
<1>1. pc = "start" /\ report.ids = <<>> /\ reason = None
  BY DEF Init, NoReport
<1>2. ~Reported
  BY <1>1, NoneAssumption DEF Reported
<1>3. DOMAIN report.ids = {}
  BY <1>1
<1> QED  BY <1>1, <1>2, <1>3 DEF IdsInv

LEMMA IdsStart ==
  ASSUME IInv, IdsInv, RejectPath \/ SpawnFails \/ Spawn \/ Panic \/ Collect
  PROVE  IdsInv'
<1>1. /\ UNCHANGED <<input, at, report>>
      /\ \/ pc' = "exited" /\ reason' \in {"path", "spawn", "panic", "signal"}
         \/ pc = "start" /\ pc' = "m3" /\ UNCHANGED reason
         \/ pc = "m3" /\ pc' = "files" /\ UNCHANGED reason
  BY DEF RejectPath, SpawnFails, Spawn, Panic, Collect, Exit, Go, scanning, output
<1>2. CASE pc' = "exited" /\ reason' \in {"path", "spawn", "panic", "signal"}
  BY <1>1, <1>2 DEF IdsInv, Reported
<1>3. CASE pc = "start" /\ pc' = "m3" /\ UNCHANGED reason
  <2>1. reason = None
    BY <1>3 DEF IInv, OutputInv
  <2>2. ~Reported'
    BY <1>3, <2>1, NoneAssumption DEF Reported
  <2> QED  BY <1>1, <1>3, <2>2 DEF IdsInv
<1>4. CASE pc = "m3" /\ pc' = "files" /\ UNCHANGED reason
  <2>1. reason = None /\ at = 1 /\ report.ids = <<>>
    BY <1>4 DEF IInv, OutputInv, FoundInv, IdsInv
  <2>2. ~Reported'
    BY <1>4, <2>1, NoneAssumption DEF Reported
  <2>3. Met(1, 1) = {}
    <3>1. \A k \in Shipped : \A j \in DOMAIN input.files[k].items : ~(k < 1 \/ (k = 1 /\ j < 1))
      <4>1. \A k \in Shipped : k \in Nat /\ k >= 1 /\ \A j \in DOMAIN input.files[k].items : j \in Nat /\ j >= 1
        BY ItemsAreNumbered DEF IInv
      <4> QED  BY <4>1
    <3>2. \A t : t \notin Met(1, 1)
      BY <3>1, MetAt
    <3> QED  BY <3>2
  <2>4. Met(at, 1)' = {}
    <3>1. Met(at, 1)' = Met(at, 1)
      BY <1>1, MetStays DEF Met
    <3> QED  BY <2>1, <2>3, <3>1
  <2>5. Range(<<>>) = {}
    BY DEF Range
  <2>6. report' = report
    BY <1>1
  <2> QED  BY <1>4, <2>1, <2>2, <2>4, <2>5, <2>6 DEF IdsInv
<1> QED  BY <1>1, <1>2, <1>3, <1>4

\* Files that are passed over.
LEMMA IdsSkip ==
  ASSUME IInv, IdsInv, SkipTestFile \/ SkipFile
  PROVE  IdsInv'
<1>1. /\ pc = "files" /\ pc' = "files" /\ at <= Len(input.files) /\ at' = at + 1
      /\ UNCHANGED <<input, reason>> /\ (input.files[at].test \/ ~Parses(input.files[at]))
  BY DEF SkipTestFile, SkipFile, More
<1>2. at \in Nat /\ report \in ScanReport
  BY <1>1, InputIsTyped DEF IInv, TypeOK
<1>3. reason = None /\ ~Reported'
  BY <1>1, NoneAssumption DEF IInv, OutputInv, Reported
<1>4. report'.ids = report.ids
  BY <1>2 DEF SkipTestFile, SkipFile, ScanReport
<1>5. Met(at + 1, 1) = Met(at, 1)
  BY <1>1, <1>2, FileIsOver DEF IInv, Shipped
<1>6. Met(at, 1)' = Met(at + 1, 1)
  BY <1>1, MetStays DEF Met
<1> QED  BY <1>1, <1>3, <1>4, <1>5, <1>6 DEF IdsInv

LEMMA IdsCheck ==
  ASSUME IInv, IdsInv, CheckFile
  PROVE  IdsInv'
<1>1. /\ pc = "files" /\ pc' = "ids" /\ at <= Len(input.files) /\ at' = at /\ item' = 1
      /\ UNCHANGED <<input, reason>> /\ ~input.files[at].test /\ Parses(input.files[at])
  BY DEF CheckFile, More, Go
<1>2. at \in DOMAIN input.files /\ report \in ScanReport
  BY <1>1, InputIsTyped DEF IInv, TypeOK
<1>3. reason = None /\ ~Reported'
  BY <1>1, NoneAssumption DEF IInv, OutputInv, Reported
<1>4. report'.ids = report.ids
  BY <1>2 DEF CheckFile, ScanReport
<1>5. Met(at, item)' = Met(at, 1) /\ Shipped' = Shipped
  BY <1>1, MetStays DEF Met
<1>6. at \in Shipped /\ Parses(input.files[at])'
  BY <1>1, <1>2 DEF Shipped
<1> QED  BY <1>1, <1>3, <1>4, <1>5, <1>6 DEF IdsInv

\* An address is kept where it is met first.
LEMMA IdsCollect ==
  ASSUME IInv, IdsInv, CollectId
  PROVE  IdsInv'
<1>. DEFINE d == input.files[at].items[item]
            ids == report.ids
<1>1. /\ pc = "ids" /\ pc' = "ids" /\ item <= Len(input.files[at].items) /\ at' = at /\ item' = item + 1
      /\ UNCHANGED <<input, reason>>
      /\ report' = IF Collected(d) /\ \A i \in DOMAIN ids : ids[i] # d.text
                   THEN [report EXCEPT !.ids = Append(@, d.text)] ELSE report
  BY DEF CollectId
<1>2. /\ at \in Shipped /\ Parses(input.files[at]) /\ report \in ScanReport /\ ids \in Seq(Seq(0 .. Radix))
      /\ Range(ids) = Met(at, item) /\ \A i, j \in DOMAIN ids : ids[i] = ids[j] => i = j
  BY <1>1, InputIsTyped DEF IInv, IdsInv
<1>3. item \in DOMAIN input.files[at].items
  <2>1. item \in 1 .. Len(input.files[at].items) + 1
    BY <1>1 DEF IInv, TypeOK
  <2>2. Len(input.files[at].items) \in Nat /\ DOMAIN input.files[at].items = 1 .. Len(input.files[at].items)
    BY <1>2, ItemsAreNumbered DEF IInv
  <2> QED  BY <1>1, <2>1, <2>2
<1>4. d.text \in Seq(0 .. Radix)
  <2>1. input.files[at].items \in Seq(Declaration) /\ item \in 1 .. Len(input.files[at].items)
    BY <1>2, <1>3, InputIsTyped, ItemsAreNumbered DEF IInv, Shipped
  <2>2. d \in Declaration
    BY <2>1, ElementOfSeq
  <2> QED  BY <2>2 DEF Declaration
<1>5. Met(at, item + 1) = IF Collected(d) THEN Met(at, item) \cup {d.text} ELSE Met(at, item)
  BY <1>2, <1>3, OneItemMore DEF IInv
<1>6. reason = None /\ ~Reported'
  BY <1>1, NoneAssumption DEF IInv, OutputInv, Reported
<1>7. Met(at, item)' = Met(at, item + 1) /\ Shipped' = Shipped /\ Parses(input.files[at])'
  BY <1>1, <1>2, MetStays DEF Met
<1>. HIDE DEF d, ids
<1>8. Range(report'.ids) = Met(at, item + 1) /\ \A i, j \in DOMAIN report'.ids : report'.ids[i] = report'.ids[j] => i = j
  <2>1. CASE Collected(d) /\ \A i \in DOMAIN ids : ids[i] # d.text
    <3>. DEFINE n == Len(ids)
                longer == Append(ids, d.text)
    <3>1. report'.ids = longer
      BY <1>1, <1>2, <2>1 DEF ScanReport, ids
    <3>2. /\ n \in Nat /\ DOMAIN ids = 1 .. n /\ DOMAIN longer = 1 .. n + 1
          /\ (\A i \in 1 .. n : longer[i] = ids[i]) /\ longer[n + 1] = d.text
      BY <1>2, <1>4, AppendProperties, LenProperties
    <3>. HIDE DEF n, longer
    <3>3. \A i : i \in 1 .. n + 1 <=> i \in 1 .. n \/ i = n + 1
      BY <3>2
    <3>4. Range(longer) = Range(ids) \cup {d.text}
      BY <3>2, <3>3 DEF Range
    <3>5. \A i, j \in DOMAIN longer : longer[i] = longer[j] => i = j
      BY <1>2, <2>1, <3>2, <3>3
    <3> QED  BY <1>2, <1>5, <2>1, <3>1, <3>4, <3>5
  <2>2. CASE ~(Collected(d) /\ \A i \in DOMAIN ids : ids[i] # d.text)
    <3>1. report' = report
      BY <1>1, <2>2 DEF d, ids
    <3>2. Collected(d) => d.text \in Range(ids)
      BY <2>2 DEF Range
    <3>3. Met(at, item + 1) = Range(ids)
      BY <1>2, <1>5, <3>2
    <3> QED  BY <1>2, <3>1, <3>3 DEF ids
  <2> QED  BY <2>1, <2>2
<1> QED  BY <1>1, <1>2, <1>6, <1>7, <1>8 DEF IdsInv

LEMMA IdsEndFile ==
  ASSUME IInv, IdsInv, EndFile
  PROVE  IdsInv'
<1>1. /\ pc = "ids" /\ pc' = "files" /\ at' = at + 1 /\ item > Len(input.files[at].items)
      /\ UNCHANGED <<input, reason, report>>
  BY DEF EndFile, Go
<1>2. at \in Shipped /\ Range(report.ids) = Met(at, item) /\ \A i, j \in DOMAIN report.ids : report.ids[i] = report.ids[j] => i = j
  BY <1>1 DEF IdsInv
<1>3. reason = None /\ ~Reported'
  BY <1>1, NoneAssumption DEF IInv, OutputInv, Reported
<1>4. at \in Nat /\ item \in Nat
  <2>1. item \in 1 .. Len(input.files[at].items) + 1
    BY <1>1 DEF IInv, TypeOK
  <2> QED  BY <1>2, <2>1, ItemsAreNumbered DEF IInv
<1>5. Met(at + 1, 1) = Met(at, item)
  BY <1>1, <1>4, FileIsOver DEF IInv
<1>6. Met(at, 1)' = Met(at + 1, 1)
  BY <1>1, MetStays DEF Met
<1> QED  BY <1>1, <1>2, <1>3, <1>5, <1>6 DEF IdsInv

LEMMA IdsEndFiles ==
  ASSUME IInv, IdsInv, EndFiles
  PROVE  IdsInv'
<1>1. /\ pc = "files" /\ pc' = "sort" /\ ~(at <= Len(input.files)) /\ UNCHANGED <<input, reason>>
      /\ report' = [report EXCEPT !.findings = @ \o input.late]
  BY DEF EndFiles, More, Go
<1>2. at = Len(input.files) + 1 /\ report \in ScanReport
  BY <1>1, InputIsTyped DEF IInv, TypeOK
<1>3. reason = None /\ ~Reported'
  BY <1>1, NoneAssumption DEF IInv, OutputInv, Reported
<1>4. report'.ids = report.ids
  BY <1>1, <1>2 DEF ScanReport
<1>5. Met(Len(input.files) + 1, 1)' = Met(at, 1)
  BY <1>1, <1>2, MetStays DEF Met
<1> QED  BY <1>1, <1>3, <1>4, <1>5 DEF IdsInv

\* The sort, the lookup and the output leave the ids alone.
LEMMA IdsEnd ==
  ASSUME IInv, IdsInv, Finish \/ Write \/ WriteFails \/ Return
  PROVE  IdsInv'
<1>1. /\ pc \in {"sort", "render"} /\ pc' \in {"render", "exited"} /\ UNCHANGED input
  BY DEF Finish, Write, WriteFails, Return, Exit, Go
<1>2. report'.ids = report.ids
  <2>1. report \in ScanReport
    BY DEF IInv, TypeOK
  <2>2. CASE Finish
    <3>1. \E f, e, l : report' = [report EXCEPT !.findings = f, !.deployments = e, !.live = l]
      BY <2>2 DEF Finish
    <3>2. PICK f, e, l : report' = [report EXCEPT !.findings = f, !.deployments = e, !.live = l]
      BY <3>1
    <3>3. report' = [[[report EXCEPT !.findings = f] EXCEPT !.deployments = e] EXCEPT !.live = l]
      BY <2>1, <3>2 DEF ScanReport
    <3> QED  BY <2>1, <3>3 DEF ScanReport
  <2>3. CASE Write \/ WriteFails \/ Return
    BY <2>3 DEF Write, WriteFails, Return, scanning
  <2> QED  BY <2>2, <2>3
<1>3. Met(Len(input.files) + 1, 1)' = Met(Len(input.files) + 1, 1)
  BY <1>1, MetStays DEF Met
<1>4. Range(report.ids) = Met(Len(input.files) + 1, 1) /\ \A i, j \in DOMAIN report.ids : report.ids[i] = report.ids[j] => i = j
  BY <1>1 DEF IdsInv, Reported
<1> QED  BY <1>1, <1>2, <1>3, <1>4 DEF IdsInv

LEMMA IdsStutter == IdsInv /\ UNCHANGED vars => IdsInv'
<1>. SUFFICES ASSUME IdsInv, UNCHANGED vars PROVE IdsInv'
  OBVIOUS
<1>1. UNCHANGED <<input, pc, at, item, report, reason>>
  BY DEF vars, scanning, output
<1>2. /\ Met(Len(input.files) + 1, 1)' = Met(Len(input.files) + 1, 1)
      /\ Met(at, 1)' = Met(at, 1) /\ Met(at, item)' = Met(at, item) /\ Shipped' = Shipped /\ Reported' = Reported
      /\ Parses(input.files[at])' = Parses(input.files[at])
  BY <1>1, MetStays DEF Met, Reported
<1> QED  BY <1>1, <1>2 DEF IdsInv

LEMMA IdsStep == IInv /\ IdsInv /\ [Next]_vars => IdsInv'
<1>. SUFFICES ASSUME IInv, IdsInv, [Next]_vars PROVE IdsInv'
  OBVIOUS
<1>1. CASE RejectPath \/ SpawnFails \/ Spawn \/ Panic \/ Collect
  BY <1>1, IdsStart
<1>2. CASE SkipTestFile \/ SkipFile
  BY <1>2, IdsSkip
<1>3. CASE CheckFile
  BY <1>3, IdsCheck
<1>4. CASE CollectId
  BY <1>4, IdsCollect
<1>5. CASE EndFile
  BY <1>5, IdsEndFile
<1>6. CASE EndFiles
  BY <1>6, IdsEndFiles
<1>7. CASE Finish \/ Write \/ WriteFails \/ Return
  BY <1>7, IdsEnd
<1>8. CASE UNCHANGED vars
  BY <1>8, IdsStutter
<1> QED  BY <1>1, <1>2, <1>3, <1>4, <1>5, <1>6, <1>7, <1>8 DEF Next

LEMMA IdsInvariance == Spec => []IdsInv
<1>1. Init => IdsInv
  BY IdsInit
<1>2. IInv /\ IdsInv /\ [Next]_vars => IdsInv'
  BY IdsStep
<1> QED  BY <1>1, <1>2, Invariance, PTL DEF Spec

----------------------------------------------------------------------------
\* What programid::walk keeps of an item is what the item declares.
LEMMA CollectedDeclares ==
  ASSUME NEW d \in Declaration
  PROVE  Collected(d) <=> /\ "fn" \notin Range(d.within) /\ d.macro = "declare_id" /\ d.literal
                          /\ \E bytes \in Addresses : Spells(d.text, bytes)
<1>1. d.within \in Seq({"mod", "fn"}) /\ d.text \in Seq(0 .. Radix)
  BY DEF Declaration
<1>2. \A i \in DOMAIN d.within : d.within[i] \in {"mod", "fn"}
  BY <1>1, ElementOfSeq, LenProperties
<1>3. (\A i \in DOMAIN d.within : d.within[i] = "mod") <=> "fn" \notin Range(d.within)
  BY <1>2 DEF Range
<1>4. IsAddress(d.text) <=> \E bytes \in Addresses : Spells(d.text, bytes)
  BY <1>1, AddressSpelled
<1> QED  BY <1>3, <1>4 DEF Collected

\* All that is met is all that is declared.
LEMMA MetIsDeclared ==
  ASSUME TypeOK
  PROVE  Met(Len(input.files) + 1, 1) = UNION {Declares(input.files[n]) : n \in {k \in Shipped : Parses(input.files[k])}}
<1>. DEFINE scanned == {k \in Shipped : Parses(input.files[k])}
<1>1. \A k \in Shipped : \A j \in DOMAIN input.files[k].items : input.files[k].items[j] \in Declaration
  <2>1. \A k \in Shipped : /\ input.files[k].items \in Seq(Declaration)
                           /\ DOMAIN input.files[k].items = 1 .. Len(input.files[k].items)
    BY InputIsTyped, ItemsAreNumbered DEF Shipped
  <2> QED  BY <2>1, ElementOfSeq
<1>2. \A k \in Shipped : k < Len(input.files) + 1
  BY InputIsTyped DEF Shipped
<1>3. ASSUME NEW k \in Shipped, NEW t
      PROVE  t \in Declares(input.files[k]) <=>
               \E j \in DOMAIN input.files[k].items :
                 Collected(input.files[k].items[j]) /\ t = input.files[k].items[j].text
  <2>1. \A j \in DOMAIN input.files[k].items :
          Collected(input.files[k].items[j]) <=>
            /\ "fn" \notin Range(input.files[k].items[j].within)
            /\ input.files[k].items[j].macro = "declare_id" /\ input.files[k].items[j].literal
            /\ \E bytes \in Addresses : Spells(input.files[k].items[j].text, bytes)
    BY <1>1, CollectedDeclares
  <2> QED  BY <2>1 DEF Declares
<1>4. ASSUME NEW t
      PROVE  t \in Met(Len(input.files) + 1, 1) <=> \E k \in scanned : t \in Declares(input.files[k])
  <2>. DEFINE At(k, j) == Collected(input.files[k].items[j]) /\ t = input.files[k].items[j].text
  <2>1. t \in Met(Len(input.files) + 1, 1) <=>
          \E k \in Shipped : \E j \in DOMAIN input.files[k].items :
            Parses(input.files[k]) /\ (k < Len(input.files) + 1 \/ (k = Len(input.files) + 1 /\ j < 1)) /\ At(k, j)
    BY MetAt
  <2>2. \A k \in Shipped : t \in Declares(input.files[k]) <=> \E j \in DOMAIN input.files[k].items : At(k, j)
    BY <1>3
  <2>. HIDE DEF At
  <2> QED  BY <1>2, <2>1, <2>2
<1>. HIDE DEF scanned
<1>5. Met(Len(input.files) + 1, 1) = UNION {Declares(input.files[n]) : n \in scanned}
  BY <1>4
<1> QED  BY <1>5 DEF scanned

(***************************************************************************)
(* Whatever the alphabet, the width of an address and the tree: the ids of *)
(* a report are the declared literals that write an address, each once,    *)
(* and each is written back as the source spells it (src/programid.rs).    *)
(***************************************************************************)
THEOREM IdsDecoded == Spec => []IdsAreDecoded
<1>1. IInv /\ IdsInv => IdsAreDecoded
  <2>1. SUFFICES ASSUME IInv, IdsInv, Reported PROVE IdsAreDecoded
    BY DEF IdsAreDecoded
  <2>. DEFINE ids == report.ids
  <2>2. Range(ids) = Met(Len(input.files) + 1, 1) /\ \A i, j \in DOMAIN ids : ids[i] = ids[j] => i = j
    BY <2>1 DEF IdsInv
  <2>3. Range(ids) = UNION {Declares(input.files[n]) : n \in {k \in Shipped : Parses(input.files[k])}}
    BY <2>1, <2>2, MetIsDeclared DEF IInv
  <2>4. \A i \in DOMAIN ids : ids[i] \in Seq(0 .. Radix)
    BY <2>1, InputIsTyped, ElementOfSeq, LenProperties DEF IInv
  <2>5. \A i \in DOMAIN ids : IsAddress(ids[i])
    <3>1. \A i \in DOMAIN ids : ids[i] \in Met(Len(input.files) + 1, 1)
      BY <2>2 DEF Range
    <3> QED  BY <3>1, MetAt DEF Collected
  <2>6. \A i \in DOMAIN ids : EncodeBase58(DecodeBase58(ids[i])) = ids[i]
    BY <2>4, <2>5, AddressDecodes
  <2>7. \A i, j \in DOMAIN ids : DecodeBase58(ids[i]) = DecodeBase58(ids[j]) => i = j
    BY <2>2, <2>6
  <2>. HIDE DEF ids
  <2>8. /\ Range(ids) = UNION {Declares(input.files[n]) : n \in {k \in Shipped : Parses(input.files[k])}}
        /\ \A i, j \in DOMAIN ids : DecodeBase58(ids[i]) = DecodeBase58(ids[j]) => i = j
        /\ \A i \in DOMAIN ids : EncodeBase58(DecodeBase58(ids[i])) = ids[i]
    BY <2>3, <2>6, <2>7 DEF ids
  <2> QED  BY <2>8 DEF IdsAreDecoded, ids
<1> QED  BY <1>1, Invariance, IdsInvariance, PTL

----------------------------------------------------------------------------
(***************************************************************************)
(* The guard: its loops, turn by turn.                                     *)
(***************************************************************************)
\* f is what the first n turns of a loop make of s.
RunsFrom(f, V, turn, s, n) ==
  f \in [0 .. n -> V] /\ f[0] = s /\ (\A k \in 1 .. n : f[k] = turn[f[k - 1]]) /\ Turns(turn, s, n) = f[n]

\* The turns of a loop, one after the other, exist.
LEMMA TurnsRun ==
  ASSUME NEW V, NEW turn \in [V -> V], NEW s \in V, NEW n \in Nat
  PROVE  \E f : RunsFrom(f, V, turn, s, n)
<1>. DEFINE step == [k \in 1 .. n |-> turn]
            from == [k \in 1 .. n |-> k - 1]
            Equation(f) == f = [k \in 0 .. n |-> IF k = 0 THEN s ELSE turn[f[k - 1]]]
<1>1. step \in [1 .. n -> [V -> V]] /\ \A k \in 1 .. n : from[k] \in 0 .. k - 1
  OBVIOUS
<1>2. PICK d \in [0 .. n -> V] : GoesOn(d, n, s, from, step)
  <2>. HIDE DEF step, from
  <2> QED  BY <1>1, GoesOnExists
<1>3. d[0] = s /\ \A k \in 1 .. n : d[k] = turn[d[k - 1]]
  BY <1>2 DEF GoesOn
<1>4. Equation(d)
  <2>1. \A k \in 0 .. n : k # 0 => k \in 1 .. n
    OBVIOUS
  <2> QED  BY <1>2, <1>3, <2>1
<1>. DEFINE f == CHOOSE f : Equation(f)
<1>5. Equation(f)
  BY <1>4
<1>6. Turns(turn, s, n) = f[n]
  BY DEF Turns
<1>. HIDE DEF f
<1>7. f[0] = s /\ \A k \in 1 .. n : f[k] = turn[f[k - 1]]
  <2>1. 0 \in 0 .. n /\ \A k \in 1 .. n : k \in 0 .. n /\ k # 0
    OBVIOUS
  <2> QED  BY <1>5, <2>1
<1>8. \A k \in 0 .. n : f[k] \in V
  <2>. DEFINE T == {k \in 0 .. n : f[k] \in V}
  <2>1. ASSUME NEW k \in 0 .. n, \A j \in 0 .. k - 1 : j \in T
        PROVE  k \in T
    <3>1. CASE k = 0
      BY <1>7, <3>1
    <3>2. CASE k # 0
      <4>1. k - 1 \in 0 .. k - 1 /\ k \in 1 .. n
        BY <3>2
      <4> QED  BY <1>7, <2>1, <4>1
    <3> QED  BY <3>1, <3>2
  <2>. HIDE DEF T
  <2>2. \A k \in 0 .. n : k \in T
    BY <2>1, UpTo
  <2> QED  BY <2>2 DEF T
<1>9. f \in [0 .. n -> V]
  BY <1>5, <1>8
<1> QED  BY <1>6, <1>7, <1>9 DEF RunsFrom

\* No turn leaves the state alone, and one more is the turn after the others.
LEMMA TurnsAre ==
  ASSUME NEW V, NEW turn \in [V -> V], NEW s \in V, NEW n \in Nat
  PROVE  Turns(turn, s, n) \in V /\ Turns(turn, s, 0) = s /\ Turns(turn, s, n + 1) = turn[Turns(turn, s, n)]
<1>1. PICK f : RunsFrom(f, V, turn, s, n)
  BY TurnsRun
<1>2. PICK g : RunsFrom(g, V, turn, s, n + 1)
  <2>1. n + 1 \in Nat
    OBVIOUS
  <2> QED  BY <2>1, TurnsRun
<1>3. Turns(turn, s, 0) = s
  <2>1. PICK h : RunsFrom(h, V, turn, s, 0)
    BY TurnsRun
  <2> QED  BY <2>1 DEF RunsFrom
<1>. DEFINE T == {k \in 0 .. n : f[k] = g[k]}
<1>4. ASSUME NEW k \in 0 .. n, \A j \in 0 .. k - 1 : j \in T
      PROVE  k \in T
  <2>1. CASE k = 0
    BY <1>1, <1>2, <2>1 DEF RunsFrom
  <2>2. CASE k # 0
    <3>1. k - 1 \in 0 .. k - 1 /\ k \in 1 .. n /\ k \in 1 .. n + 1
      BY <2>2
    <3> QED  BY <1>1, <1>2, <1>4, <3>1 DEF RunsFrom
  <2> QED  BY <2>1, <2>2
<1>. HIDE DEF T
<1>5. n \in T
  <2>1. \A k \in 0 .. n : k \in T
    BY <1>4, UpTo
  <2> QED  BY <2>1
<1>6. f[n] = g[n] /\ n + 1 \in 1 .. n + 1 /\ (n + 1) - 1 = n
  BY <1>5 DEF T
<1> QED  BY <1>1, <1>2, <1>3, <1>6 DEF RunsFrom

\* A state that a turn leaves alone is the last.
LEMMA TurnsStay ==
  ASSUME NEW V, NEW turn \in [V -> V], NEW s \in V, NEW n \in Nat, NEW m \in Nat, n <= m,
         turn[Turns(turn, s, n)] = Turns(turn, s, n)
  PROVE  Turns(turn, s, m) = Turns(turn, s, n)
<1>. DEFINE T == {k \in 0 .. m - n : Turns(turn, s, n + k) = Turns(turn, s, n)}
<1>1. ASSUME NEW k \in 0 .. m - n, \A j \in 0 .. k - 1 : j \in T
      PROVE  k \in T
  <2>1. CASE k = 0
    BY <2>1
  <2>2. CASE k # 0
    <3>1. k - 1 \in 0 .. k - 1 /\ n + (k - 1) \in Nat /\ (n + (k - 1)) + 1 = n + k
      BY <2>2
    <3>2. Turns(turn, s, n + k) = turn[Turns(turn, s, n + (k - 1))]
      BY <3>1, TurnsAre
    <3> QED  BY <1>1, <3>1, <3>2
  <2> QED  BY <2>1, <2>2
<1>. HIDE DEF T
<1>2. m - n \in Nat /\ m - n \in 0 .. m - n /\ n + (m - n) = m
  OBVIOUS
<1>3. m - n \in T
  <2>1. \A k \in 0 .. m - n : k \in T
    BY <1>1, <1>2, UpTo
  <2> QED  BY <1>2, <2>1
<1> QED  BY <1>2, <1>3 DEF T

\* The loop comes to the state, before its position if each turn moves on.
ComesTo(turn, s, from, t) == \E n \in Nat : n <= t.at - from /\ Turns(turn, s, n) = t

\* A turn that moves on comes further.
LEMMA OneMoreTurn ==
  ASSUME NEW V, NEW turn \in [V -> V], NEW s \in V, NEW from \in Nat, NEW t,
         ComesTo(turn, s, from, t), t.at \in Nat, turn[t].at \in Nat, turn[t].at > t.at
  PROVE  ComesTo(turn, s, from, turn[t])
<1>1. PICK n \in Nat : n <= t.at - from /\ Turns(turn, s, n) = t
  BY DEF ComesTo
<1>2. Turns(turn, s, n + 1) = turn[t]
  BY <1>1, TurnsAre
<1>3. n + 1 \in Nat /\ n + 1 <= turn[t].at - from
  <2>. DEFINE a == t.at
              b == turn[t].at
  <2>1. a \in Nat /\ b \in Nat /\ b > a /\ n <= a - from
    BY <1>1
  <2>. HIDE DEF a, b
  <2> QED  BY <2>1 DEF b
<1> QED  BY <1>2, <1>3 DEF ComesTo

\* Where nothing changes any more, enough turns come to stay.
LEMMA LastTurn ==
  ASSUME NEW V, NEW turn \in [V -> V], NEW s \in V, NEW from \in Nat, NEW t,
         ComesTo(turn, s, from, t), t.at \in Nat, turn[t] = t, NEW m \in Nat, t.at <= m + from
  PROVE  Turns(turn, s, m) = t
<1>1. PICK n \in Nat : n <= t.at - from /\ Turns(turn, s, n) = t
  BY DEF ComesTo
<1>2. n <= m
  BY <1>1
<1> QED  BY <1>1, <1>2, TurnsStay

----------------------------------------------------------------------------
\* What the loops keep.
LoopState == [at : Nat, open : Nat]
ScanState == [at : Nat, depth : Nat, deepest : Nat]

\* What the turns and the skip functions yield, whatever the text.
LEMMA QuotedTurnIsTyped ==
  ASSUME NEW s \in Seq(Char), NEW hashes \in Nat
  PROVE  QuotedTurn(s, hashes) \in [LoopState -> LoopState]
<1>1. ASSUME NEW t \in LoopState
      PROVE  (IF t.at > Len(s) \/ t.open = 0 THEN t
              ELSE CASE hashes = 0 /\ CharAt(s, t.at) = "backslash" -> [at |-> t.at + 2, open |-> 1]
                     [] CharAt(s, t.at) = "quote" /\ \A h \in 1 .. hashes : CharAt(s, t.at + h) \in {"#", "end"} ->
                          [at |-> t.at + 1 + hashes, open |-> 0]
                     [] OTHER -> [at |-> t.at + 1, open |-> 1]) \in LoopState
  <2>. DEFINE escape == hashes = 0 /\ CharAt(s, t.at) = "backslash"
              quote == CharAt(s, t.at) = "quote" /\ \A h \in 1 .. hashes : CharAt(s, t.at + h) \in {"#", "end"}
  <2>1. t.at + 1 \in Nat /\ t.at + 2 \in Nat /\ t.at + 1 + hashes \in Nat
    BY DEF LoopState
  <2>2. /\ [at |-> t.at + 2, open |-> 1] \in LoopState
        /\ [at |-> t.at + 1 + hashes, open |-> 0] \in LoopState
        /\ [at |-> t.at + 1, open |-> 1] \in LoopState
    BY <2>1 DEF LoopState
  <2>. HIDE DEF escape, quote
  <2>3. (CASE escape -> [at |-> t.at + 2, open |-> 1]
           [] quote -> [at |-> t.at + 1 + hashes, open |-> 0]
           [] OTHER -> [at |-> t.at + 1, open |-> 1]) \in LoopState
    BY <2>2
  <2> QED  BY <2>3 DEF escape, quote
<1> QED  BY <1>1 DEF QuotedTurn, LoopState

LEMMA QuotedIsTyped ==
  ASSUME NEW s \in Seq(Char), NEW from \in Nat, NEW hashes \in Nat
  PROVE  SkipQuoted(s, from, hashes) \in Nat
<1>1. [at |-> from, open |-> 1] \in LoopState /\ Len(s) \in Nat
  BY DEF LoopState
<1>2. Turns(QuotedTurn(s, hashes), [at |-> from, open |-> 1], Len(s)) \in LoopState
  BY <1>1, QuotedTurnIsTyped, TurnsAre
<1> QED  BY <1>2 DEF SkipQuoted, LoopState

LEMMA BlockTurnIsTyped ==
  ASSUME NEW s \in Seq(Char)
  PROVE  BlockTurn(s) \in [LoopState -> LoopState]
<1>1. ASSUME NEW t \in LoopState
      PROVE  (IF t.at > Len(s) \/ t.open = 0 THEN t
              ELSE CASE CharAt(s, t.at) = "/" /\ CharAt(s, t.at + 1) = "*" -> [at |-> t.at + 2, open |-> t.open + 1]
                     [] CharAt(s, t.at) = "*" /\ CharAt(s, t.at + 1) = "/" -> [at |-> t.at + 2, open |-> t.open - 1]
                     [] OTHER -> [at |-> t.at + 1, open |-> t.open]) \in LoopState
  BY DEF LoopState
<1> QED  BY <1>1 DEF BlockTurn, LoopState

LEMMA BlockIsTyped ==
  ASSUME NEW s \in Seq(Char), NEW place \in Nat
  PROVE  SkipBlockComment(s, place) \in Nat
<1>1. [at |-> place + 2, open |-> 1] \in LoopState /\ Len(s) \in Nat
  BY DEF LoopState
<1>2. Turns(BlockTurn(s), [at |-> place + 2, open |-> 1], Len(s)) \in LoopState
  BY <1>1, BlockTurnIsTyped, TurnsAre
<1> QED  BY <1>2 DEF SkipBlockComment, LoopState

\* The least of some numbers.
LEMMA LeastIs ==
  ASSUME NEW T, T \subseteq Nat, T # {}
  PROVE  Min(T) \in T /\ \A x \in T : Min(T) <= x
BY LeastNumber DEF Min

\* Every text ends.
LEMMA SomeEnd ==
  ASSUME NEW s \in Seq(Char)
  PROVE  CharAt(s, Len(s) + 1) = "end" /\ CharAt(s, 0) = "end" /\ Len(s) \in Nat
         /\ \A i \in 1 .. Len(s) : CharAt(s, i) = s[i] /\ s[i] \in Char
BY DEF CharAt

LEMMA LineIsTyped ==
  ASSUME NEW s \in Seq(Char), NEW i \in 1 .. Len(s), CharAt(s, i + 1) = "/"
  PROVE  SkipLineComment(s, i) \in Nat
<1>. DEFINE T == {j \in i + 2 .. Len(s) + 1 : CharAt(s, j) \in {"nl", "end"}}
<1>1. Len(s) \in Nat /\ i + 1 <= Len(s)
  <2>1. i + 1 # Len(s) + 1
    BY SomeEnd
  <2> QED  BY <2>1
<1>2. T \subseteq Nat /\ Len(s) + 1 \in T
  BY <1>1, SomeEnd
<1>3. Min(T) \in Nat
  <2>. HIDE DEF T
  <2> QED  BY <1>2, LeastIs
<1> QED  BY <1>3 DEF SkipLineComment

LEMMA BodyIsTyped ==
  ASSUME NEW s \in Seq(Char), NEW i \in 1 .. Len(s), s[i] \in {"r", "b"}
  PROVE  StringBody(s, i).from \in Nat /\ StringBody(s, i).hashes \in Nat
<1>. DEFINE afterB == IF CharAt(s, i) = "b" THEN i + 1 ELSE i
            raw == CharAt(s, afterB) = "r"
            afterR == IF raw THEN afterB + 1 ELSE afterB
            T == {j \in afterR .. Len(s) + 1 : CharAt(s, j) # "#"}
            quote == IF raw THEN Min(T) ELSE afterR
<1>1. afterB \in 1 .. Len(s) + 1
  OBVIOUS
<1>2. raw => afterB # Len(s) + 1
  BY SomeEnd
<1>3. afterR \in 1 .. Len(s) + 1
  <2>. HIDE DEF afterB, raw
  <2> QED  BY <1>1, <1>2
<1>4. T \subseteq Nat /\ Len(s) + 1 \in T
  <2>. HIDE DEF afterR
  <2> QED  BY <1>3, SomeEnd
<1>5. Min(T) \in T
  <2>. HIDE DEF T
  <2> QED  BY <1>4, LeastIs
<1>6. quote \in Nat /\ quote >= afterR
  <2>. HIDE DEF afterR, raw
  <2> QED  BY <1>3, <1>5
<1>7. StringBody(s, i).from = quote + 1 /\ StringBody(s, i).hashes = quote - afterR
  BY DEF StringBody
<1>8. quote + 1 \in Nat /\ quote - afterR \in Nat
  <2>. HIDE DEF quote, afterR
  <2> QED  BY <1>3, <1>6
<1>. HIDE DEF quote, afterR
<1> QED  BY <1>7, <1>8

LEMMA AfterIsTyped ==
  ASSUME NEW s \in Seq(Char), NEW i \in 1 .. Len(s)
  PROVE  After(s, i) \in Nat
<1>1. CharAt(s, i + 1) = "/" => SkipLineComment(s, i) \in Nat
  BY LineIsTyped
<1>2. SkipBlockComment(s, i) \in Nat
  BY BlockIsTyped
<1>3. SkipQuoted(s, i + 1, 0) \in Nat
  <2>1. i + 1 \in Nat /\ 0 \in Nat
    OBVIOUS
  <2> QED  BY <2>1, QuotedIsTyped
<1>4. ASSUME StartsString(s, i)
      PROVE  SkipQuoted(s, StringBody(s, i).from, StringBody(s, i).hashes) \in Nat
  <2>1. s[i] \in {"r", "b"}
    BY <1>4, SomeEnd DEF StartsString
  <2> QED  BY <2>1, BodyIsTyped, QuotedIsTyped
<1>5. SkipCharLiteral(s, i) \in Nat
  BY DEF SkipCharLiteral
<1>. DEFINE line == SkipLineComment(s, i)
            block == SkipBlockComment(s, i)
            plain == SkipQuoted(s, i + 1, 0)
            string == SkipQuoted(s, StringBody(s, i).from, StringBody(s, i).hashes)
            char == SkipCharLiteral(s, i)
            starts == StartsString(s, i)
<1>6. After(s, i) = CASE s[i] = "/" /\ CharAt(s, i + 1) = "/" -> line
                      [] s[i] = "/" /\ CharAt(s, i + 1) = "*" -> block
                      [] s[i] = "quote" -> plain
                      [] starts -> string
                      [] s[i] = "'" -> char
                      [] OTHER -> i + 1
  BY DEF After
<1>7. i + 1 \in Nat
  OBVIOUS
<1>. HIDE DEF line, block, plain, string, char, starts
<1> QED  BY <1>1, <1>2, <1>3, <1>4, <1>5, <1>6, <1>7 DEF line, block, plain, string, char, starts

LEMMA ScanTurnIsTyped ==
  ASSUME NEW s \in Seq(Char)
  PROVE  ScanTurn(s) \in [ScanState -> ScanState]
<1>1. ASSUME NEW t \in ScanState
      PROVE  (IF t.at \notin DOMAIN s THEN t
              ELSE CASE s[t.at] = "(" ->
                          [at |-> t.at + 1, depth |-> t.depth + 1,
                           deepest |-> IF t.depth + 1 > t.deepest THEN t.depth + 1 ELSE t.deepest]
                     [] s[t.at] = ")" ->
                          [at |-> t.at + 1, depth |-> IF t.depth = 0 THEN 0 ELSE t.depth - 1, deepest |-> t.deepest]
                     [] OTHER -> [at |-> After(s, t.at), depth |-> t.depth, deepest |-> t.deepest]) \in ScanState
  <2>1. t.at \in DOMAIN s => After(s, t.at) \in Nat
    BY AfterIsTyped
  <2> QED  BY <2>1 DEF ScanState
<1> QED  BY <1>1 DEF ScanTurn, ScanState

----------------------------------------------------------------------------
(***************************************************************************)
(* A token that stands at an offset in the text.                           *)
(***************************************************************************)
Stands(s, p, u) == p \in Nat /\ p + Len(u) <= Len(s) /\ \A j \in 1 .. Len(u) : s[p + j] = u[j]

\* The loop inside a string, still going and at its end.
Going(i) == [at |-> i, open |-> 1]
Gone(i) == [at |-> i, open |-> 0]

\* Both are states of the loop.
LEMMA GoesAt ==
  ASSUME NEW i \in Nat
  PROVE  Going(i) \in LoopState /\ Gone(i) \in LoopState /\ Going(i).at = i /\ Gone(i).at = i
BY DEF Going, Gone, LoopState

\* A quotation mark that ends the string.
ClosedAt(s, i, hashes) == s[i] = "quote" /\ \A h \in 1 .. hashes : CharAt(s, i + h) \in {"#", "end"}

\* The three cases of a turn inside a string.
LEMMA QuotedTurnAt ==
  ASSUME NEW s \in Seq(Char), NEW hashes \in Nat, NEW i \in 1 .. Len(s)
  PROVE  /\ Going(i) \in LoopState
         /\ hashes = 0 /\ s[i] = "backslash" => QuotedTurn(s, hashes)[Going(i)] = Going(i + 2)
         /\ ~(hashes = 0 /\ s[i] = "backslash") /\ ClosedAt(s, i, hashes)
              => QuotedTurn(s, hashes)[Going(i)] = Gone(i + 1 + hashes)
         /\ ~(hashes = 0 /\ s[i] = "backslash") /\ ~ClosedAt(s, i, hashes)
              => QuotedTurn(s, hashes)[Going(i)] = Going(i + 1)
<1>. DEFINE t == [at |-> i, open |-> 1]
            escape == hashes = 0 /\ s[i] = "backslash"
            quote == s[i] = "quote" /\ \A h \in 1 .. hashes : CharAt(s, i + h) \in {"#", "end"}
            a == [at |-> i + 2, open |-> 1]
            b == [at |-> i + 1 + hashes, open |-> 0]
            c == [at |-> i + 1, open |-> 1]
<1>1. t \in LoopState /\ CharAt(s, i) = s[i] /\ ~(i > Len(s))
  BY SomeEnd DEF LoopState
<1>. DEFINE next == QuotedTurn(s, hashes)[t]
<1>2. ASSUME escape PROVE next = a
  BY <1>1, <1>2 DEF QuotedTurn, LoopState
<1>3. ASSUME ~escape, quote PROVE next = b
  BY <1>1, <1>3 DEF QuotedTurn, LoopState
<1>4. ASSUME ~escape, ~quote PROVE next = c
  BY <1>1, <1>4 DEF QuotedTurn, LoopState
<1> QED  BY <1>1, <1>2, <1>3, <1>4 DEF ClosedAt, Going, Gone

\* A loop that has ended stays where it is.
LEMMA QuotedEnds ==
  ASSUME NEW s \in Seq(Char), NEW hashes \in Nat, NEW from \in Nat, NEW i \in Nat, i <= Len(s) + from,
         ComesTo(QuotedTurn(s, hashes), Going(from), from, Gone(i))
  PROVE  SkipQuoted(s, from, hashes) = i
<1>. DEFINE turn == QuotedTurn(s, hashes)
<1>1. Going(from) \in LoopState /\ Gone(i) \in LoopState /\ Gone(i).at = i
  BY GoesAt
<1>2. turn[Gone(i)] = Gone(i)
  BY <1>1 DEF QuotedTurn, LoopState, Gone
<1>3. turn \in [LoopState -> LoopState] /\ Len(s) \in Nat
  BY QuotedTurnIsTyped
<1>. HIDE DEF turn
<1>4. Turns(turn, Going(from), Len(s)) = Gone(i)
  BY <1>1, <1>2, <1>3, LastTurn DEF turn
<1> QED  BY <1>1, <1>4 DEF SkipQuoted, turn, Going

\* A string with escapes is skipped: the scan stands where nothing is hidden, so a backslash it
\* meets hides the next character, and the only bare quotation mark is the last.
LEMMA EscapedIsSkipped ==
  ASSUME NEW s \in Seq(Char), NEW u \in Seq(Char), NEW p, Stands(s, p, u),
         NEW from \in Nat, NEW to \in Nat, 1 <= from, from <= to + 1, to + 1 <= Len(u),
         Escaped(u, from, to), u[to + 1] = "quote"
  PROVE  SkipQuoted(s, p + from, 0) = p + to + 2
<1>1. PICK hidden :
        /\ IsHidden(hidden, u, from, to + 1)
        /\ to + 1 \notin hidden
        /\ \A i \in from .. to : u[i] = "quote" => i \in hidden
  BY DEF Escaped
<1>2. \A i \in from .. to + 1 : i \in hidden <=> i > from /\ u[i - 1] = "backslash" /\ i - 1 \notin hidden
  BY <1>1 DEF IsHidden
<1>3. p \in Nat /\ \A i \in from .. to + 1 : p + i \in 1 .. Len(s) /\ s[p + i] = u[i]
  BY DEF Stands
<1>. DEFINE turn == QuotedTurn(s, 0)
            start == Going(p + from)
            At(i) == Going(p + i)
            T == {k \in 0 .. to + 1 - from : from + k \notin hidden => ComesTo(turn, start, p + from, At(from + k))}
<1>4. turn \in [LoopState -> LoopState] /\ start \in LoopState /\ p + from \in Nat
  <2>1. 0 \in Nat /\ p + from \in Nat
    BY <1>3
  <2> QED  BY <2>1, QuotedTurnIsTyped, GoesAt
<1>5. ASSUME NEW i \in from .. to + 1
      PROVE  /\ At(i) \in LoopState /\ At(i).at = p + i /\ p + i \in Nat
             /\ u[i] = "backslash" => turn[At(i)] = At(i + 2)
             /\ u[i] # "backslash" /\ u[i] = "quote" => turn[At(i)] = Gone(p + i + 1)
             /\ u[i] # "backslash" /\ u[i] # "quote" => turn[At(i)] = At(i + 1)
  <2>1. p + i \in 1 .. Len(s) /\ s[p + i] = u[i] /\ 0 \in Nat /\ p + i \in Nat
    BY <1>3
  <2>2. p + i + 2 = p + (i + 2) /\ p + i + 1 = p + (i + 1) /\ p + i + 1 + 0 = p + i + 1
    BY <1>3
  <2>3. ClosedAt(s, p + i, 0) <=> u[i] = "quote"
    BY <2>1 DEF ClosedAt
  <2>4. /\ u[i] = "backslash" => turn[At(i)] = Going(p + i + 2)
        /\ u[i] # "backslash" /\ u[i] = "quote" => turn[At(i)] = Gone(p + i + 1 + 0)
        /\ u[i] # "backslash" /\ u[i] # "quote" => turn[At(i)] = Going(p + i + 1)
    BY <2>1, <2>3, QuotedTurnAt
  <2>5. At(i) \in LoopState /\ At(i).at = p + i
    BY <2>1, GoesAt
  <2> QED  BY <2>1, <2>2, <2>4, <2>5
<1>. HIDE DEF turn, start
<1>6. ASSUME NEW i \in from .. to, ComesTo(turn, start, p + from, At(i)), u[i] # "backslash", u[i] # "quote"
      PROVE  ComesTo(turn, start, p + from, At(i + 1))
  <2>1. i \in from .. to + 1 /\ p + i \in Nat /\ p + (i + 1) \in Nat /\ p + (i + 1) > p + i
    BY <1>3
  <2>2. turn[At(i)] = At(i + 1) /\ At(i).at = p + i /\ At(i + 1).at = p + (i + 1)
    BY <1>5, <1>6, <2>1, GoesAt
  <2>. HIDE DEF At
  <2>3. ComesTo(turn, start, p + from, turn[At(i)])
    BY <1>4, <1>6, <2>1, <2>2, OneMoreTurn
  <2> QED  BY <2>2, <2>3
<1>7. ASSUME NEW i \in from .. to, ComesTo(turn, start, p + from, At(i)), u[i] = "backslash"
      PROVE  ComesTo(turn, start, p + from, At(i + 2))
  <2>1. i \in from .. to + 1 /\ p + i \in Nat /\ p + (i + 2) \in Nat /\ p + (i + 2) > p + i
    BY <1>3
  <2>2. turn[At(i)] = At(i + 2) /\ At(i).at = p + i /\ At(i + 2).at = p + (i + 2)
    BY <1>5, <1>7, <2>1, GoesAt
  <2>. HIDE DEF At
  <2>3. ComesTo(turn, start, p + from, turn[At(i)])
    BY <1>4, <1>7, <2>1, <2>2, OneMoreTurn
  <2> QED  BY <2>2, <2>3
<1>. HIDE DEF At
<1>8. ASSUME NEW k \in 0 .. to + 1 - from, \A j \in 0 .. k - 1 : j \in T, from + k \notin hidden
      PROVE  ComesTo(turn, start, p + from, At(from + k))
  <2>1. CASE k = 0
    <3>1. Turns(turn, start, 0) = start /\ At(from + k) = start /\ start.at = p + from
      <4>1. 0 \in Nat /\ from + k = from
        BY <2>1
      <4>2. Turns(turn, start, 0) = start
        BY <1>4, <4>1, TurnsAre
      <4>3. At(from + k) = start /\ start.at = p + from
        BY <1>4, <4>1, GoesAt DEF At, start
      <4> QED  BY <4>2, <4>3
    <3>2. 0 \in Nat /\ 0 <= (p + from) - (p + from)
      BY <1>4
    <3> QED  BY <3>1, <3>2 DEF ComesTo
  <2>2. CASE k # 0 /\ from + k - 1 \notin hidden
    <3>1. k - 1 \in 0 .. k - 1 /\ from + (k - 1) = from + k - 1 /\ from + k - 1 \in from .. to
          /\ (from + k - 1) + 1 = from + k /\ from + k \in from .. to + 1 /\ from + k > from
      BY <2>2
    <3>2. k - 1 \in T
      BY <1>8, <3>1
    <3>3. ComesTo(turn, start, p + from, At(from + k - 1))
      BY <2>2, <3>1, <3>2
    <3>4. u[from + k - 1] # "backslash"
      BY <1>2, <1>8, <2>2, <3>1
    <3>5. u[from + k - 1] # "quote"
      BY <1>1, <2>2, <3>1
    <3> QED  BY <1>6, <3>1, <3>3, <3>4, <3>5
  <2>3. CASE k # 0 /\ from + k - 1 \in hidden
    <3>1. from + k - 1 \in from .. to + 1
      BY <2>3
    <3>2. from + k - 1 > from /\ u[from + k - 1 - 1] = "backslash" /\ from + k - 1 - 1 \notin hidden
      BY <1>2, <2>3, <3>1
    <3>3. k - 2 \in 0 .. k - 1 /\ from + (k - 2) = from + k - 1 - 1 /\ from + (k - 2) \in from .. to
          /\ (from + (k - 2)) + 2 = from + k
      BY <3>2
    <3>4. k - 2 \in T
      BY <1>8, <3>3
    <3>5. ComesTo(turn, start, p + from, At(from + (k - 2)))
      BY <3>2, <3>3, <3>4
    <3>6. u[from + (k - 2)] = "backslash"
      BY <3>2, <3>3
    <3> QED  BY <1>7, <3>3, <3>5, <3>6
  <2> QED  BY <2>1, <2>2, <2>3
<1>9. ComesTo(turn, start, p + from, At(to + 1))
  <2>1. \A k \in 0 .. to + 1 - from : (\A j \in 0 .. k - 1 : j \in T) => k \in T
    BY <1>8
  <2>2. to + 1 - from \in Nat /\ to + 1 - from \in 0 .. to + 1 - from /\ from + (to + 1 - from) = to + 1
    OBVIOUS
  <2>. HIDE DEF T
  <2>3. \A k \in 0 .. to + 1 - from : k \in T
    BY <2>1, <2>2, UpTo
  <2>4. to + 1 - from \in T
    BY <2>2, <2>3
  <2> QED  BY <1>1, <2>2, <2>4 DEF T
<1>10. ComesTo(turn, start, p + from, Gone(p + to + 2))
  <2>1. to + 1 \in from .. to + 1 /\ p + (to + 1) \in Nat /\ p + (to + 1) + 1 = p + to + 2 /\ p + to + 2 \in Nat
        /\ p + to + 2 > p + (to + 1)
    BY <1>3
  <2>2. turn[At(to + 1)] = Gone(p + to + 2) /\ At(to + 1).at = p + (to + 1) /\ Gone(p + to + 2).at = p + to + 2
    BY <1>5, <2>1, GoesAt
  <2>3. ComesTo(turn, start, p + from, turn[At(to + 1)])
    BY <1>4, <1>9, <2>1, <2>2, OneMoreTurn
  <2> QED  BY <2>2, <2>3
<1>11. p + to + 2 \in Nat /\ p + to + 2 <= Len(s) + (p + from) /\ 0 \in Nat
  BY <1>3 DEF Stands
<1> QED  BY <1>4, <1>10, <1>11, QuotedEnds DEF turn, start

\* Hashes from one place to another, and the body of a raw string in its literal.
AreHashes(s, from, to) == \A i \in from .. to : CharAt(s, i) = "#"

RawBody(u, from, to, hashes) ==
  /\ from \in Nat /\ to \in Nat /\ hashes \in Nat
  /\ 1 <= from /\ from <= to + 1 /\ to + 1 + hashes = Len(u) /\ hashes # 0
  /\ Raw(u, from, to, hashes) /\ u[to + 1] = "quote" /\ AreHashes(u, to + 2, Len(u))

\* A raw string with hashes is skipped: no quotation mark in it has enough of them.
LEMMA RawIsSkipped ==
  ASSUME NEW s \in Seq(Char), NEW u \in Seq(Char), NEW p, Stands(s, p, u),
         NEW from, NEW to, NEW hashes, RawBody(u, from, to, hashes)
  PROVE  SkipQuoted(s, p + from, hashes) = p + Len(u) + 1
<1>0. /\ from \in Nat /\ to \in Nat /\ hashes \in Nat
      /\ 1 <= from /\ from <= to + 1 /\ to + 1 + hashes = Len(u) /\ hashes # 0
      /\ Raw(u, from, to, hashes) /\ u[to + 1] = "quote" /\ AreHashes(u, to + 2, Len(u))
  BY DEF RawBody
<1>. USE <1>0
<1>1. p \in Nat /\ \A i \in from .. Len(u) : p + i \in 1 .. Len(s) /\ s[p + i] = u[i] /\ CharAt(s, p + i) = u[i] /\ u[i] \in Char
  BY DEF Stands, CharAt
<1>. DEFINE turn == QuotedTurn(s, hashes)
            start == Going(p + from)
            At(i) == Going(p + i)
            T == {k \in 0 .. to + 1 - from : ComesTo(turn, start, p + from, At(from + k))}
<1>2. turn \in [LoopState -> LoopState] /\ start \in LoopState /\ p + from \in Nat /\ start.at = p + from
  <2>1. p + from \in Nat
    BY <1>1
  <2> QED  BY <2>1, QuotedTurnIsTyped, GoesAt
<1>3. ASSUME NEW i \in from .. to
      PROVE  ~ClosedAt(s, p + i, hashes)
  <2>1. CASE u[i] # "quote"
    <3>1. s[p + i] = u[i]
      BY <1>1
    <3> QED  BY <2>1, <3>1 DEF ClosedAt
  <2>2. CASE u[i] = "quote"
    <3>1. PICK h \in 1 .. hashes : u[i + h] # "#"
      BY <2>2 DEF Raw
    <3>2. i + h \in from .. Len(u) /\ p + i + h = p + (i + h)
      BY <1>1
    <3>3. CharAt(s, p + i + h) \notin {"#", "end"}
      <4>1. CharAt(s, p + i + h) = u[i + h] /\ u[i + h] \in Char
        BY <1>1, <3>2
      <4> QED  BY <3>1, <4>1 DEF Char
    <3> QED  BY <3>3 DEF ClosedAt
  <2> QED  BY <2>1, <2>2
<1>4. ASSUME NEW i \in from .. to
      PROVE  turn[At(i)] = At(i + 1)
  <2>1. p + i \in 1 .. Len(s) /\ p + i + 1 = p + (i + 1)
    BY <1>1
  <2> QED  BY <1>3, <2>1, QuotedTurnAt
<1>5. turn[At(to + 1)] = Gone(p + Len(u) + 1)
  <2>1. to + 1 \in from .. Len(u)
    OBVIOUS
  <2>2. p + (to + 1) \in 1 .. Len(s) /\ s[p + (to + 1)] = "quote"
    BY <1>1, <2>1
  <2>3. p + (to + 1) + 1 + hashes = p + Len(u) + 1
    <3>1. p \in Nat
      BY <1>1
    <3> QED  BY <3>1
  <2>4. ASSUME NEW h \in 1 .. hashes
        PROVE  CharAt(s, p + (to + 1) + h) \in {"#", "end"}
    <3>1. to + 1 + h \in to + 2 .. Len(u) /\ to + 1 + h \in from .. Len(u) /\ p + (to + 1) + h = p + (to + 1 + h)
      BY <1>1
    <3>2. CharAt(u, to + 1 + h) = "#" /\ CharAt(u, to + 1 + h) = u[to + 1 + h]
      BY <3>1, SomeEnd DEF AreHashes
    <3> QED  BY <1>1, <3>1, <3>2
  <2>5. ClosedAt(s, p + (to + 1), hashes)
    BY <2>2, <2>4 DEF ClosedAt
  <2>6. turn[At(to + 1)] = Gone(p + (to + 1) + 1 + hashes)
    BY <2>2, <2>5, QuotedTurnAt
  <2> QED  BY <2>3, <2>6
<1>6. ASSUME NEW i \in from .. to + 1
      PROVE  At(i).at = p + i /\ p + i \in Nat
  BY <1>1, GoesAt
<1>. HIDE DEF turn, start, At
<1>7. ASSUME NEW k \in 0 .. to + 1 - from, \A j \in 0 .. k - 1 : j \in T
      PROVE  k \in T
  <2>1. CASE k = 0
    <3>1. 0 \in Nat /\ from + k = from /\ 0 <= (p + from) - (p + from)
      BY <1>2, <2>1
    <3>2. Turns(turn, start, 0) = start /\ At(from + k) = start
      <4>1. Turns(turn, start, 0) = start
        BY <1>2, <3>1, TurnsAre, SMTT(30)
      <4> QED  BY <3>1, <4>1 DEF At, start
    <3> QED  BY <1>2, <3>1, <3>2 DEF ComesTo
  <2>2. CASE k # 0
    <3>1. k - 1 \in 0 .. k - 1 /\ from + (k - 1) \in from .. to /\ from + (k - 1) + 1 = from + k
          /\ from + (k - 1) \in from .. to + 1 /\ from + k \in from .. to + 1
      BY <2>2
    <3>2. ComesTo(turn, start, p + from, At(from + (k - 1)))
      BY <1>7, <3>1
    <3>3. turn[At(from + (k - 1))] = At(from + k)
      BY <1>4, <3>1
    <3>4. /\ At(from + (k - 1)).at = p + (from + (k - 1)) /\ At(from + k).at = p + (from + k)
          /\ p + (from + (k - 1)) \in Nat /\ p + (from + k) \in Nat
      BY <1>6, <3>1
    <3>5. p + (from + k) > p + (from + (k - 1))
      BY <1>1
    <3>6. ComesTo(turn, start, p + from, turn[At(from + (k - 1))])
      BY <1>2, <3>2, <3>3, <3>4, <3>5, OneMoreTurn
    <3> QED  BY <3>3, <3>6
  <2> QED  BY <2>1, <2>2
<1>8. ComesTo(turn, start, p + from, At(to + 1))
  <2>1. to + 1 - from \in Nat /\ to + 1 - from \in 0 .. to + 1 - from /\ from + (to + 1 - from) = to + 1
    OBVIOUS
  <2>. HIDE DEF T
  <2>2. \A k \in 0 .. to + 1 - from : k \in T
    BY <1>7, <2>1, UpTo
  <2>3. to + 1 - from \in T
    BY <2>1, <2>2
  <2> QED  BY <2>1, <2>3 DEF T
<1>9. ComesTo(turn, start, p + from, Gone(p + Len(u) + 1))
  <2>1. to + 1 \in from .. to + 1 /\ p + (to + 1) \in Nat /\ p + Len(u) + 1 \in Nat /\ p + Len(u) + 1 > p + (to + 1)
    BY <1>1
  <2>2. At(to + 1).at = p + (to + 1) /\ Gone(p + Len(u) + 1).at = p + Len(u) + 1
    BY <1>6, <2>1, GoesAt
  <2>3. ComesTo(turn, start, p + from, turn[At(to + 1)])
    BY <1>2, <1>5, <1>8, <2>1, <2>2, OneMoreTurn
  <2> QED  BY <1>5, <2>3
<1>10. p + Len(u) + 1 \in Nat /\ p + Len(u) + 1 <= Len(s) + (p + from)
  BY <1>1 DEF Stands
<1> QED  BY <1>2, <1>9, <1>10, QuotedEnds DEF turn, start

\* The branches of the scan, one by one.
LEMMA AfterIs ==
  ASSUME NEW s \in Seq(Char), NEW i \in 1 .. Len(s)
  PROVE  /\ s[i] = "/" /\ CharAt(s, i + 1) = "/" => After(s, i) = SkipLineComment(s, i)
         /\ s[i] = "/" /\ CharAt(s, i + 1) = "*" => After(s, i) = SkipBlockComment(s, i)
         /\ s[i] = "quote" => After(s, i) = SkipQuoted(s, i + 1, 0)
         /\ StartsString(s, i) => After(s, i) = SkipQuoted(s, StringBody(s, i).from, StringBody(s, i).hashes)
         /\ s[i] = "'" => After(s, i) = SkipCharLiteral(s, i)
         /\ s[i] \notin {"quote", "'"} /\ ~StartsString(s, i) /\ (s[i] = "/" => CharAt(s, i + 1) \notin {"/", "*"})
              => After(s, i) = i + 1
<1>. DEFINE line == SkipLineComment(s, i)
            block == SkipBlockComment(s, i)
            plain == SkipQuoted(s, i + 1, 0)
            string == SkipQuoted(s, StringBody(s, i).from, StringBody(s, i).hashes)
            char == SkipCharLiteral(s, i)
            next == CharAt(s, i + 1)
<1>1. After(s, i) = CASE s[i] = "/" /\ next = "/" -> line
                      [] s[i] = "/" /\ next = "*" -> block
                      [] s[i] = "quote" -> plain
                      [] StartsString(s, i) -> string
                      [] s[i] = "'" -> char
                      [] OTHER -> i + 1
  BY DEF After
<1>2. StartsString(s, i) => s[i] \in {"r", "b"}
  BY SomeEnd DEF StartsString
<1>. HIDE DEF line, block, plain, string, char, next
<1>3. /\ s[i] = "/" /\ next = "/" => After(s, i) = line
      /\ s[i] = "/" /\ next = "*" => After(s, i) = block
      /\ s[i] = "quote" => After(s, i) = plain
      /\ StartsString(s, i) => After(s, i) = string
      /\ s[i] = "'" => After(s, i) = char
      /\ s[i] \notin {"quote", "'"} /\ ~StartsString(s, i) /\ (s[i] = "/" => next \notin {"/", "*"})
           => After(s, i) = i + 1
  BY <1>1, <1>2
<1> QED  BY <1>3 DEF line, block, plain, string, char, next

\* A prefix `b`, `r`, `#` of this make.
PrefixAt(s, i, b, r, hashes) ==
  /\ b \in {0, 1} /\ r \in {0, 1} /\ hashes \in Nat /\ i + b + r + hashes <= Len(s) + 1
  /\ b = 1 <=> CharAt(s, i) = "b"
  /\ r = 1 <=> CharAt(s, i + b) = "r"
  /\ r = 0 => hashes = 0
  /\ AreHashes(s, i + b + r, i + b + r + hashes - 1)
  /\ r = 1 => CharAt(s, i + b + r + hashes) # "#"

\* What follows the prefix of a string.
LEMMA BodyIs ==
  ASSUME NEW s \in Seq(Char), NEW i \in 1 .. Len(s), NEW b, NEW r, NEW hashes, PrefixAt(s, i, b, r, hashes)
  PROVE  /\ StringBody(s, i).found <=> CharAt(s, i + b + r + hashes) = "quote"
         /\ StringBody(s, i).from = i + b + r + hashes + 1
         /\ StringBody(s, i).hashes = hashes
<1>0. /\ b \in {0, 1} /\ r \in {0, 1} /\ hashes \in Nat /\ i + b + r + hashes <= Len(s) + 1
      /\ b = 1 <=> CharAt(s, i) = "b"
      /\ r = 1 <=> CharAt(s, i + b) = "r"
      /\ r = 0 => hashes = 0
      /\ AreHashes(s, i + b + r, i + b + r + hashes - 1)
      /\ r = 1 => CharAt(s, i + b + r + hashes) # "#"
  BY DEF PrefixAt
<1>. USE <1>0
<1>. DEFINE afterB == IF CharAt(s, i) = "b" THEN i + 1 ELSE i
            raw == CharAt(s, afterB) = "r"
            afterR == IF raw THEN afterB + 1 ELSE afterB
            T == {j \in afterR .. Len(s) + 1 : CharAt(s, j) # "#"}
            quote == IF raw THEN Min(T) ELSE afterR
<1>1. afterB = i + b
  OBVIOUS
<1>2. raw <=> r = 1
  <2>. HIDE DEF afterB
  <2> QED  BY <1>1
<1>3. afterR = i + b + r
  <2>. HIDE DEF afterB, raw
  <2> QED  BY <1>1, <1>2
<1>4. quote = i + b + r + hashes
  <2>1. CASE r = 0
    <3>. HIDE DEF afterR, raw
    <3> QED  BY <1>2, <1>3, <2>1
  <2>2. CASE r = 1
    <3>. DEFINE m == i + b + r + hashes
    <3>1. T \subseteq Nat /\ m \in T /\ \A j \in T : m <= j
      <4>. HIDE DEF afterR
      <4>1. T \subseteq Nat /\ m \in T
        BY <1>3, <2>2
      <4>2. ASSUME NEW j \in T PROVE m <= j
        <5>1. j \in Nat /\ j >= i + b + r /\ CharAt(s, j) # "#"
          BY <1>3
        <5> QED  BY <5>1 DEF AreHashes
      <4> QED  BY <4>1, <4>2
    <3>. HIDE DEF T, m
    <3>2. Min(T) \in T /\ \A j \in T : Min(T) <= j
      BY <3>1, LeastIs
    <3>3. Min(T) <= m /\ m <= Min(T) /\ Min(T) \in Nat /\ m \in Nat
      BY <3>1, <3>2
    <3>4. Min(T) = m
      BY <3>3
    <3>. HIDE DEF raw
    <3> QED  BY <1>2, <2>2, <3>4 DEF m
  <2> QED  BY <2>1, <2>2
<1>5. /\ StringBody(s, i).from = quote + 1
      /\ StringBody(s, i).hashes = quote - afterR
  BY DEF StringBody
<1>6. StringBody(s, i).found <=> CharAt(s, quote) = "quote"
  BY DEF StringBody
<1>. HIDE DEF quote, afterR
<1> QED  BY <1>3, <1>4, <1>5, <1>6

\* The characters of a text that stands in another.
LEMMA StandsIn ==
  ASSUME NEW s \in Seq(Char), NEW u \in Seq(Char), NEW p, Stands(s, p, u)
  PROVE  /\ p \in Nat /\ Len(u) \in Nat /\ Len(s) \in Nat /\ p + Len(u) <= Len(s)
         /\ \A i \in 1 .. Len(u) : /\ p + i \in 1 .. Len(s) /\ s[p + i] = u[i]
                                   /\ CharAt(s, p + i) = u[i] /\ u[i] \in Char
BY DEF Stands, CharAt

\* The scan gets behind a string literal of any kind, unless a word ends right in front of it.
LEMMA StringIsSkipped ==
  ASSUME NEW s \in Seq(Char), NEW u \in Seq(Char), NEW p, Stands(s, p, u), IsString(u),
         CharAt(s, p) \notin WordChar
  PROVE  /\ Len(u) > 0 /\ u[1] \notin {"(", ")"}
         /\ After(s, p + 1) = p + Len(u) + 1
<1>1. PICK b \in {0, 1}, r \in {0, 1}, hashes \in 0 .. Len(u) :
        LET quote == b + r + hashes + 1
            last == Len(u) - hashes
        IN  /\ quote < last /\ u[quote] = "quote" /\ u[last] = "quote"
            /\ b = 1 => u[1] = "b"
            /\ r = 1 => u[b + 1] = "r" /\ Raw(u, quote + 1, last - 1, hashes)
            /\ hashes > 0 => r = 1
            /\ hashes = 0 => Escaped(u, quote + 1, last - 1)
            /\ \A i \in (b + r + 1 .. quote - 1) \cup (last + 1 .. Len(u)) : u[i] = "#"
  BY DEF IsString
<1>. DEFINE quote == b + r + hashes + 1
            last == Len(u) - hashes
<1>2. /\ quote < last /\ u[quote] = "quote" /\ u[last] = "quote"
      /\ b = 1 => u[1] = "b"
      /\ r = 1 => u[b + 1] = "r" /\ Raw(u, quote + 1, last - 1, hashes)
      /\ hashes > 0 => r = 1
      /\ hashes = 0 => Escaped(u, quote + 1, last - 1)
      /\ \A i \in b + r + 1 .. quote - 1 : u[i] = "#"
      /\ \A i \in last + 1 .. Len(u) : u[i] = "#"
  BY <1>1
<1>3. /\ p \in Nat /\ Len(u) \in Nat /\ Len(s) \in Nat /\ p + Len(u) <= Len(s) /\ hashes \in Nat
      /\ \A i \in 1 .. Len(u) : p + i \in 1 .. Len(s) /\ s[p + i] = u[i] /\ CharAt(s, p + i) = u[i] /\ u[i] \in Char
  <2>. HIDE DEF quote, last
  <2>1. p \in Nat /\ Len(u) \in Nat /\ Len(s) \in Nat /\ p + Len(u) <= Len(s)
    BY StandsIn
  <2>2. \A i \in 1 .. Len(u) : p + i \in 1 .. Len(s) /\ s[p + i] = u[i] /\ CharAt(s, p + i) = u[i] /\ u[i] \in Char
    BY StandsIn
  <2>3. hashes \in Nat
    BY <2>1
  <2> QED  BY <2>1, <2>2, <2>3
<1>4. quote \in 1 .. Len(u) /\ last \in 1 .. Len(u) /\ Len(u) > 0 /\ last - 1 \in Nat /\ last - 1 + 1 = last
      /\ quote + 1 \in Nat /\ quote + 1 <= (last - 1) + 1
  BY <1>2, <1>3, SMTT(30)
<1>5. SkipQuoted(s, p + (quote + 1), hashes) = p + Len(u) + 1
  <2>1. CASE hashes = 0
    <3>1. last = Len(u) /\ p + (last - 1) + 2 = p + Len(u) + 1 /\ 1 <= quote + 1 /\ last - 1 + 1 <= Len(u)
      BY <1>3, <1>4, <2>1
    <3>. HIDE DEF quote, last
    <3>2. SkipQuoted(s, p + (quote + 1), 0) = p + (last - 1) + 2
      BY <1>2, <1>4, <2>1, <3>1, EscapedIsSkipped
    <3> QED  BY <2>1, <3>1, <3>2
  <2>2. CASE hashes # 0
    <3>1. r = 1 /\ 1 <= quote + 1 /\ (last - 1) + 1 + hashes = Len(u) /\ (last - 1) + 2 = last + 1
      BY <1>2, <1>3, <1>4, <2>2
    <3>. HIDE DEF quote, last
    <3>2. Raw(u, quote + 1, last - 1, hashes) /\ u[(last - 1) + 1] = "quote" /\ AreHashes(u, (last - 1) + 2, Len(u))
      BY <1>2, <1>3, <1>4, <3>1 DEF AreHashes, CharAt
    <3>3. RawBody(u, quote + 1, last - 1, hashes)
      BY <1>3, <1>4, <2>2, <3>1, <3>2 DEF RawBody
    <3> QED  BY <3>3, RawIsSkipped
  <2> QED  BY <2>1, <2>2
<1>6. CASE b = 0 /\ r = 0
  <2>1. hashes = 0 /\ quote = 1 /\ u[1] = "quote" /\ 1 \in 1 .. Len(u) /\ p + (quote + 1) = p + 1 + 1
    BY <1>2, <1>3, <1>4, <1>6
  <2>2. s[p + 1] = "quote" /\ p + 1 \in 1 .. Len(s)
    BY <1>3, <2>1
  <2>3. After(s, p + 1) = SkipQuoted(s, p + 1 + 1, 0)
    BY <2>2, AfterIs
  <2> QED  BY <1>4, <1>5, <2>1, <2>3
<1>7. CASE b = 1 \/ r = 1
  <2>. DEFINE i == p + 1
  <2>1. 1 \in 1 .. Len(u) /\ b + 1 \in 1 .. Len(u) /\ b + r + 1 \in 1 .. Len(u)
    <3>1. b \in Nat /\ r \in Nat
      OBVIOUS
    <3>2. b + r + 1 <= quote /\ quote <= Len(u)
      BY <1>3, <1>4, <3>1
    <3>. HIDE DEF quote, last
    <3>3. b + r + 1 <= Len(u)
      BY <1>3, <1>4, <3>1, <3>2, SMTT(30)
    <3> QED  BY <1>3, <3>1, <3>3, SMTT(30)
  <2>2. i \in 1 .. Len(s) /\ s[i] = u[1] /\ CharAt(s, i) = u[1] /\ i + b = p + (b + 1) /\ i + b + r = p + (b + r + 1)
        /\ i + b + r + hashes = p + quote /\ i + b + r + hashes <= Len(s) + 1
    <3>1. i \in 1 .. Len(s) /\ s[i] = u[1] /\ CharAt(s, i) = u[1]
      BY <1>3, <2>1
    <3>2. b \in Nat /\ r \in Nat /\ i = p + 1
      OBVIOUS
    <3>3. i + b + r + hashes = p + quote
      BY <1>3, <3>2
    <3>4. i + b = p + (b + 1) /\ i + b + r = p + (b + r + 1)
      BY <1>3, <3>2
    <3>. HIDE DEF quote, last, i
    <3>5. i + b + r + hashes <= Len(s) + 1
      BY <1>3, <1>4, <3>3
    <3> QED  BY <3>1, <3>3, <3>4, <3>5
  <2>3. u[1] = (IF b = 1 THEN "b" ELSE "r")
    BY <1>2, <1>7
  <2>4. b = 1 <=> CharAt(s, i) = "b"
    BY <2>2, <2>3
  <2>5. r = 0 => hashes = 0 /\ quote = b + 1
    BY <1>2, <1>3
  <2>6. r = 1 <=> CharAt(s, i + b) = "r"
    <3>1. CharAt(s, i + b) = u[b + 1]
      BY <1>3, <2>1, <2>2
    <3> QED  BY <1>2, <2>5, <3>1
  <2>7. ASSUME NEW j \in i + b + r .. i + b + r + hashes - 1
        PROVE  CharAt(s, j) = "#"
    <3>0. p \in Nat /\ b \in Nat /\ r \in Nat /\ hashes \in Nat /\ Len(u) \in Nat
      BY <1>3
    <3>1. j - p \in b + r + 1 .. quote - 1 /\ j - p \in 1 .. Len(u) /\ p + (j - p) = j
      BY <1>4, <3>0
    <3> QED  BY <1>2, <1>3, <3>1
  <2>8. CharAt(s, i + b + r + hashes) = "quote"
    BY <1>2, <1>3, <1>4, <2>2
  <2>9. i + b + r + hashes + 1 = p + (quote + 1)
    <3>1. p \in Nat /\ b \in Nat /\ r \in Nat /\ hashes \in Nat
      BY <1>3
    <3> QED  BY <3>1
  <2>. HIDE DEF i
  <2>10. StringBody(s, i).found /\ StringBody(s, i).from = p + (quote + 1) /\ StringBody(s, i).hashes = hashes
    <3>. HIDE DEF quote
    <3>1. AreHashes(s, i + b + r, i + b + r + hashes - 1)
      BY <2>7 DEF AreHashes
    <3>2. PrefixAt(s, i, b, r, hashes)
      BY <1>3, <2>2, <2>4, <2>5, <2>6, <2>8, <3>1 DEF PrefixAt
    <3>3. /\ StringBody(s, i).found <=> CharAt(s, i + b + r + hashes) = "quote"
          /\ StringBody(s, i).from = i + b + r + hashes + 1
          /\ StringBody(s, i).hashes = hashes
      <4>1. i \in 1 .. Len(s)
        BY <2>2
      <4> QED  BY <3>2, <4>1, BodyIs
    <3> QED  BY <2>8, <2>9, <3>3
  <2>11. StartsString(s, i)
    <3>1. CharAt(s, i - 1) \notin WordChar
      <4>1. i - 1 = p
        BY <1>3 DEF i
      <4> QED  BY <4>1
    <3> QED  BY <2>2, <2>3, <2>10, <3>1 DEF StartsString
  <2>12. After(s, i) = SkipQuoted(s, StringBody(s, i).from, StringBody(s, i).hashes)
    BY <2>2, <2>11, AfterIs
  <2> QED  BY <1>4, <1>5, <2>3, <2>10, <2>12 DEF i
<1> QED  BY <1>6, <1>7

----------------------------------------------------------------------------
(***************************************************************************)
(* What the scan makes of a token that is no bracket.                      *)
(***************************************************************************)
Scanned(i, d, m) == [at |-> i, depth |-> d, deepest |-> m]

\* The scan comes to a position, with so many brackets open and so many at most.
\* The scan comes to a place with d brackets open, and m at most so far.
ScanTo(s, i, d, m) == ComesTo(ScanTurn(s), Scanned(1, 0, 0), 1, Scanned(i, d, m))

\* A state of the scan.
LEMMA ScannedAt ==
  ASSUME NEW i \in Nat, NEW d \in Nat, NEW m \in Nat
  PROVE  Scanned(i, d, m) \in ScanState /\ Scanned(i, d, m).at = i
BY DEF Scanned, ScanState

\* One turn of the scan.
LEMMA ScanStep ==
  ASSUME NEW s \in Seq(Char), NEW i \in 1 .. Len(s), NEW d \in Nat, NEW m \in Nat,
         ScanTo(s, i, d, m), NEW j \in Nat, NEW e \in Nat, NEW n \in Nat,
         ScanTurn(s)[Scanned(i, d, m)] = Scanned(j, e, n), j > i
  PROVE  ScanTo(s, j, e, n)
<1>1. Scanned(1, 0, 0) \in ScanState
  <2>1. 1 \in Nat /\ 0 \in Nat
    OBVIOUS
  <2> QED  BY <2>1, ScannedAt
<1>2. Scanned(i, d, m).at = i /\ Scanned(j, e, n).at = j /\ i \in Nat
  <2>1. i \in Nat
    OBVIOUS
  <2> QED  BY <2>1, ScannedAt
<1>3. ScanTurn(s) \in [ScanState -> ScanState] /\ 1 \in Nat
  BY ScanTurnIsTyped
<1>4. ComesTo(ScanTurn(s), Scanned(1, 0, 0), 1, ScanTurn(s)[Scanned(i, d, m)])
  BY <1>1, <1>2, <1>3, OneMoreTurn DEF ScanTo
<1> QED  BY <1>4 DEF ScanTo

\* One turn that counts no bracket.
LEMMA ScanPasses ==
  ASSUME NEW s \in Seq(Char), NEW i \in 1 .. Len(s), NEW d \in Nat, NEW m \in Nat,
         ScanTo(s, i, d, m), s[i] \notin {"(", ")"}, After(s, i) > i
  PROVE  ScanTo(s, After(s, i), d, m)
<1>1. i \in Nat /\ i \in DOMAIN s /\ After(s, i) \in Nat
  BY AfterIsTyped
<1>2. Scanned(i, d, m) \in ScanState
  BY <1>1, ScannedAt
<1>3. ScanTurn(s)[Scanned(i, d, m)] = Scanned(After(s, i), d, m)
  <2>. DEFINE after == After(s, i)
  <2>1. ScanTurn(s)[Scanned(i, d, m)] = [at |-> after, depth |-> d, deepest |-> m]
    BY <1>1, <1>2 DEF ScanTurn, ScanState, Scanned
  <2> QED  BY <2>1 DEF Scanned
<1> QED  BY <1>1, <1>3, ScanStep

\* The scan passes a string literal, a character literal, a single character and a line comment.
LEMMA StringPasses ==
  ASSUME NEW s \in Seq(Char), NEW u \in Seq(Char), NEW p, Stands(s, p, u), IsString(u),
         CharAt(s, p) \notin WordChar, NEW d \in Nat, NEW m \in Nat, ScanTo(s, p + 1, d, m)
  PROVE  ScanTo(s, p + Len(u) + 1, d, m)
<1>1. Len(u) > 0 /\ u[1] \notin {"(", ")"} /\ After(s, p + 1) = p + Len(u) + 1
  BY StringIsSkipped
<1>2. 1 \in 1 .. Len(u) /\ p + 1 \in 1 .. Len(s) /\ s[p + 1] = u[1] /\ p + Len(u) + 1 > p + 1
  BY <1>1, StandsIn
<1> QED  BY <1>1, <1>2, ScanPasses

LEMMA CharacterPasses ==
  ASSUME NEW s \in Seq(Char), NEW u \in Seq(Char), NEW p, Stands(s, p, u), IsCharacter(u),
         NEW d \in Nat, NEW m \in Nat, ScanTo(s, p + 1, d, m)
  PROVE  ScanTo(s, p + Len(u) + 1, d, m)
<1>1. PICK b \in {0, 1} :
        /\ b = 1 => u[1] = "b"
        /\ Len(u) > b + 2 /\ u[b + 1] = "'" /\ u[Len(u)] = "'"
        /\ \/ Len(u) = b + 3 /\ u[b + 2] \notin {"'", "backslash", "nl", "wide"}
           \/ Len(u) = b + 4 /\ u[b + 2] = "backslash" /\ u[b + 3] # "wide"
  BY DEF IsCharacter
<1>2. /\ p \in Nat /\ Len(u) \in Nat /\ Len(s) \in Nat /\ p + Len(u) <= Len(s) /\ b \in Nat
      /\ \A i \in 1 .. Len(u) : p + i \in 1 .. Len(s) /\ s[p + i] = u[i] /\ CharAt(s, p + i) = u[i] /\ u[i] \in Char
  BY StandsIn
<1>. DEFINE place == p + (b + 1)
<1>3. ScanTo(s, place, d, m)
  <2>1. CASE b = 0
    <3>1. p + (b + 1) = p + 1
      BY <1>2, <2>1
    <3> QED  BY <3>1
  <2>2. CASE b = 1
    <3>1. p + 1 \in 1 .. Len(s) /\ CharAt(s, p + 1) = "b" /\ s[p + 1] = "b" /\ CharAt(s, p + 1 + 1) = "'" /\ p + 1 + 1 = place
          /\ p + 1 + 1 <= Len(s) + 1
      <4>1. 1 \in 1 .. Len(u) /\ 2 \in 1 .. Len(u) /\ p + 1 + 1 = p + 2
        BY <1>1, <1>2, <2>2
      <4> QED  BY <1>1, <1>2, <2>2, <4>1, SMTT(30)
    <3>2. StringBody(s, p + 1).found <=> CharAt(s, p + 1 + 1 + 0 + 0) = "quote"
      <4>1. AreHashes(s, p + 1 + 1 + 0, p + 1 + 1 + 0 + 0 - 1)
        BY <1>2 DEF AreHashes
      <4>2. PrefixAt(s, p + 1, 1, 0, 0)
        BY <1>2, <3>1, <4>1 DEF PrefixAt
      <4> QED  BY <3>1, <4>2, BodyIs
    <3>3. p + 1 + 1 + 0 + 0 = p + 1 + 1
      BY <1>2
    <3>4. ~StartsString(s, p + 1)
      BY <3>1, <3>2, <3>3 DEF StartsString
    <3>5. After(s, p + 1) = p + 1 + 1
      BY <3>1, <3>4, AfterIs
    <3>6. p + 1 + 1 > p + 1
      BY <1>2
    <3> QED  BY <3>1, <3>5, <3>6, ScanPasses
  <2> QED  BY <2>1, <2>2
<1>4. place \in 1 .. Len(s) /\ s[place] = "'" /\ place + 1 = p + (b + 2) /\ place + 2 = p + (b + 3) /\ place + 3 = p + (b + 4)
  <2>1. b + 1 \in 1 .. Len(u)
    BY <1>1, <1>2
  <2> QED  BY <1>1, <1>2, <2>1
<1>5. SkipCharLiteral(s, place) = p + Len(u) + 1
  <2>1. b + 2 \in 1 .. Len(u) /\ Len(u) \in 1 .. Len(u)
    BY <1>1, <1>2
  <2>2. CharAt(s, place + 1) = u[b + 2] /\ CharAt(s, p + Len(u)) = "'"
    BY <1>1, <1>2, <1>4, <2>1
  <2>3. CASE Len(u) = b + 3 /\ u[b + 2] # "backslash"
    <3>1. CharAt(s, place + 2) = "'" /\ place + 2 + 1 = p + Len(u) + 1
      BY <1>2, <1>4, <2>2, <2>3
    <3>. HIDE DEF place
    <3> QED  BY <2>2, <2>3, <3>1 DEF SkipCharLiteral
  <2>4. CASE Len(u) = b + 4 /\ u[b + 2] = "backslash"
    <3>1. CharAt(s, place + 3) = "'" /\ place + 3 + 1 = p + Len(u) + 1
      BY <1>2, <1>4, <2>2, <2>4
    <3>. HIDE DEF place
    <3> QED  BY <2>2, <2>4, <3>1 DEF SkipCharLiteral
  <2> QED  BY <1>1, <2>3, <2>4
<1>6. After(s, place) = p + Len(u) + 1
  <2>. HIDE DEF place
  <2> QED  BY <1>4, <1>5, AfterIs
<1>7. p + Len(u) + 1 > place
  BY <1>1, <1>2
<1>. HIDE DEF place
<1> QED  BY <1>3, <1>4, <1>6, <1>7, ScanPasses

LEMMA PlainPasses ==
  ASSUME NEW s \in Seq(Char), NEW i \in 1 .. Len(s), NEW d \in Nat, NEW m \in Nat, ScanTo(s, i, d, m),
         s[i] \in {"other", "#", "/", "*", "nl"}, s[i] = "/" => CharAt(s, i + 1) \notin {"/", "*"}
  PROVE  ScanTo(s, i + 1, d, m)
<1>1. ~StartsString(s, i)
  BY SomeEnd DEF StartsString
<1>2. After(s, i) = i + 1
  BY <1>1, AfterIs
<1>3. i + 1 > i
  OBVIOUS
<1> QED  BY <1>2, <1>3, ScanPasses

LEMMA LinePasses ==
  ASSUME NEW s \in Seq(Char), NEW u \in Seq(Char), NEW p, Stands(s, p, u), IsLineComment(u),
         NEW d \in Nat, NEW m \in Nat, ScanTo(s, p + 1, d, m)
  PROVE  ScanTo(s, p + Len(u) + 1, d, m)
<1>1. /\ p \in Nat /\ Len(u) \in Nat /\ Len(s) \in Nat /\ p + Len(u) <= Len(s)
      /\ \A i \in 1 .. Len(u) : p + i \in 1 .. Len(s) /\ s[p + i] = u[i] /\ CharAt(s, p + i) = u[i] /\ u[i] \in Char
  BY StandsIn
<1>2. /\ Len(u) > 2 /\ u[1] = "/" /\ u[2] = "/" /\ u[Len(u)] = "nl"
      /\ \A i \in 3 .. Len(u) - 1 : u[i] # "nl"
  BY DEF IsLineComment
<1>. DEFINE T == {j \in p + 1 + 2 .. Len(s) + 1 : CharAt(s, j) \in {"nl", "end"}}
            e == p + Len(u)
<1>3. Len(u) \in 1 .. Len(u) /\ 1 \in 1 .. Len(u) /\ 2 \in 1 .. Len(u) /\ p + 1 + 1 = p + 2
  BY <1>1, <1>2
<1>4. e \in 1 .. Len(s) /\ s[e] = "nl" /\ CharAt(s, e) = "nl"
  BY <1>1, <1>2, <1>3
<1>5. s[p + 1] = "/" /\ CharAt(s, p + 1 + 1) = "/" /\ p + 1 \in 1 .. Len(s)
  BY <1>1, <1>2, <1>3
<1>6. T \subseteq Nat /\ e \in T
  BY <1>1, <1>2, <1>4
<1>7. ASSUME NEW j \in T PROVE e <= j
  <2>1. SUFFICES ASSUME j < e PROVE FALSE
    BY <1>1
  <2>2. j - p \in 3 .. Len(u) - 1 /\ j - p \in 1 .. Len(u) /\ p + (j - p) = j
    BY <1>1, <2>1
  <2>3. CharAt(s, j) = u[j - p] /\ u[j - p] \in Char /\ u[j - p] # "nl"
    BY <1>1, <1>2, <2>2
  <2> QED  BY <2>3 DEF Char
<1>8. Min(T) = e
  <2>. HIDE DEF T, e
  <2>1. Min(T) \in T /\ \A j \in T : Min(T) <= j
    BY <1>6, LeastIs
  <2>2. Min(T) <= e /\ e <= Min(T) /\ Min(T) \in Nat /\ e \in Nat
    BY <1>6, <1>7, <2>1
  <2> QED  BY <2>2
<1>9. After(s, p + 1) = e
  BY <1>5, <1>8, AfterIs DEF SkipLineComment
<1>10. e > p + 1 /\ e + 1 = p + Len(u) + 1
  BY <1>1, <1>2
<1>. HIDE DEF e, T
<1>11. ScanTo(s, e, d, m)
  BY <1>5, <1>9, <1>10, ScanPasses
<1>12. ScanTo(s, e + 1, d, m)
  BY <1>4, <1>11, PlainPasses
<1> QED  BY <1>10, <1>12

\* No string literal starts within a word that none follows.
LEMMA WordCharPasses ==
  ASSUME NEW s \in Seq(Char), NEW i \in 1 .. Len(s), NEW d \in Nat, NEW m \in Nat, ScanTo(s, i, d, m),
         s[i] \in WordChar, CharAt(s, i + 1) \notin {"quote", "#"},
         CharAt(s, i + 1) \in WordChar => CharAt(s, i + 2) \notin {"quote", "#"}
  PROVE  ScanTo(s, i + 1, d, m)
<1>1. CharAt(s, i) = s[i] /\ Len(s) \in Nat /\ CharAt(s, Len(s) + 1) = "end"
  BY SomeEnd
<1>. DEFINE b == IF CharAt(s, i) = "b" THEN 1 ELSE 0
            r == IF CharAt(s, i + b) = "r" THEN 1 ELSE 0
<1>2. ASSUME s[i] \in {"r", "b"}
      PROVE  ~StringBody(s, i).found
  <2>1. i + b + r + 0 <= Len(s) + 1
    <3>1. i + 1 = Len(s) + 1 => r = 0 \/ b = 0
      BY <1>1
    <3> QED  BY <3>1
  <2>2. CharAt(s, i + b + r + 0) \notin {"quote", "#"}
    <3>1. CASE b = 1 /\ r = 1
      <4>1. CharAt(s, i + 1) = "r" /\ i + b + r + 0 = i + 2
        BY <3>1
      <4> QED  BY <4>1 DEF WordChar
    <3>2. CASE b = 1 /\ r = 0
      <4>1. i + b + r + 0 = i + 1
        BY <3>2
      <4> QED  BY <4>1
    <3>3. CASE b = 0
      <4>1. r = 1 /\ i + b + r + 0 = i + 1
        BY <1>1, <1>2, <3>3
      <4> QED  BY <4>1
    <3>. HIDE DEF b
    <3>4. (b = 0 \/ b = 1) /\ (r = 0 \/ r = 1)
      BY DEF b
    <3> QED  BY <3>1, <3>2, <3>3, <3>4
  <2>3. AreHashes(s, i + b + r, i + b + r + 0 - 1)
    BY DEF AreHashes
  <2>4. b = 1 <=> CharAt(s, i) = "b"
    OBVIOUS
  <2>. HIDE DEF b
  <2>5. r = 1 <=> CharAt(s, i + b) = "r"
    OBVIOUS
  <2>6. b \in {0, 1} /\ r \in {0, 1} /\ 0 \in Nat
    BY DEF b
  <2>. HIDE DEF r
  <2>7. PrefixAt(s, i, b, r, 0)
    BY <2>1, <2>2, <2>3, <2>4, <2>5, <2>6 DEF PrefixAt
  <2>8. StringBody(s, i).found <=> CharAt(s, i + b + r + 0) = "quote"
    BY <2>7, BodyIs
  <2> QED  BY <2>2, <2>8
<1>3. ~StartsString(s, i)
  BY <1>1, <1>2 DEF StartsString
<1>4. After(s, i) = i + 1
  BY <1>3, AfterIs DEF WordChar
<1>5. i + 1 > i /\ s[i] \notin {"(", ")"}
  BY DEF WordChar
<1> QED  BY <1>4, <1>5, ScanPasses

\* Letters and digits that end where no quotation mark, hash or word follows.
AreWord(s, p, n) ==
  /\ p \in Nat /\ n \in Nat /\ p + n <= Len(s)
  /\ \A k \in 1 .. n : s[p + k] \in WordChar
  /\ CharAt(s, p + n + 1) \notin WordChar \cup {"quote", "#"}

\* The characters of a word, and that none is a mark.
LEMMA WordIs ==
  ASSUME NEW s \in Seq(Char), NEW p, NEW n, AreWord(s, p, n)
  PROVE  /\ p \in Nat /\ n \in Nat /\ p + n <= Len(s) /\ Len(s) \in Nat
         /\ \A k \in 1 .. n : s[p + k] \in WordChar /\ CharAt(s, p + k) = s[p + k]
         /\ CharAt(s, p + n + 1) \notin WordChar \cup {"quote", "#"}
<1>1. p \in Nat /\ n \in Nat /\ p + n <= Len(s) /\ Len(s) \in Nat
  BY DEF AreWord
<1>2. ASSUME NEW k \in 1 .. n
      PROVE  s[p + k] \in WordChar /\ CharAt(s, p + k) = s[p + k]
  <2>1. p + k \in 1 .. Len(s)
    BY <1>1
  <2> QED  BY <2>1, SomeEnd DEF AreWord
<1>3. CharAt(s, p + n + 1) \notin WordChar \cup {"quote", "#"}
  BY DEF AreWord
<1> QED  BY <1>1, <1>2, <1>3

\* The scan passes a word character by character: no string begins inside of it.
LEMMA WordPasses ==
  ASSUME NEW s \in Seq(Char), NEW p, NEW n, AreWord(s, p, n),
         NEW d \in Nat, NEW m \in Nat, ScanTo(s, p + 1, d, m)
  PROVE  ScanTo(s, p + n + 1, d, m)
<1>1. /\ p \in Nat /\ n \in Nat /\ p + n <= Len(s) /\ Len(s) \in Nat
      /\ \A k \in 1 .. n : s[p + k] \in WordChar /\ CharAt(s, p + k) = s[p + k]
      /\ CharAt(s, p + n + 1) \notin WordChar \cup {"quote", "#"}
  BY WordIs
<1>. DEFINE T == {k \in 0 .. n : ScanTo(s, p + k + 1, d, m)}
<1>2. ASSUME NEW k \in 0 .. n, \A j \in 0 .. k - 1 : j \in T
      PROVE  k \in T
  <2>1. CASE k = 0
    <3>1. p + k + 1 = p + 1
      BY <1>1, <2>1
    <3> QED  BY <3>1
  <2>2. CASE k # 0
    <3>1. k - 1 \in 0 .. k - 1 /\ k \in 1 .. n /\ p + k \in 1 .. Len(s) /\ p + (k - 1) + 1 = p + k
      BY <1>1, <2>2
    <3>2. ScanTo(s, p + k, d, m) /\ s[p + k] \in WordChar
      BY <1>1, <1>2, <3>1
    <3>3. CharAt(s, p + k + 1) \notin {"quote", "#"} /\ (k = n => CharAt(s, p + k + 1) \notin WordChar)
      <4>1. CASE k = n
        BY <1>1, <4>1
      <4>2. CASE k # n
        <5>1. k + 1 \in 1 .. n /\ p + k + 1 = p + (k + 1)
          BY <1>1, <4>2
        <5>2. CharAt(s, p + k + 1) \in WordChar
          BY <1>1, <5>1
        <5> QED  BY <4>2, <5>2 DEF WordChar
      <4> QED  BY <4>1, <4>2
    <3>4. CharAt(s, p + k + 1) \in WordChar => CharAt(s, p + k + 2) \notin {"quote", "#"}
      <4>1. CASE k = n
        BY <3>3, <4>1
      <4>2. CASE k + 1 = n
        <5>1. p + k + 2 = p + n + 1
          BY <1>1, <4>2
        <5> QED  BY <1>1, <5>1
      <4>3. CASE k + 1 < n
        <5>1. k + 2 \in 1 .. n /\ p + k + 2 = p + (k + 2)
          BY <1>1, <4>3
        <5>2. CharAt(s, p + k + 2) \in WordChar
          BY <1>1, <5>1
        <5> QED  BY <5>2 DEF WordChar
      <4> QED  BY <1>1, <3>1, <4>1, <4>2, <4>3
    <3> QED  BY <3>1, <3>2, <3>3, <3>4, WordCharPasses
  <2> QED  BY <2>1, <2>2
<1>. HIDE DEF T
<1>3. \A k \in 0 .. n : k \in T
  BY <1>1, <1>2, UpTo
<1>4. n \in T
  BY <1>1, <1>3
<1> QED  BY <1>4 DEF T

\* The scan passes a lifetime: no quotation mark follows its first character.
LEMMA LifetimePasses ==
  ASSUME NEW s \in Seq(Char), NEW p \in Nat, NEW n, p + 1 \in 1 .. Len(s), s[p + 1] = "'",
         AreWord(s, p + 1, n), n > 0, CharAt(s, p + 1 + n + 1) # "'",
         NEW d \in Nat, NEW m \in Nat, ScanTo(s, p + 1, d, m)
  PROVE  ScanTo(s, p + 1 + n + 1, d, m)
<1>1. /\ n \in Nat /\ p + 1 + n <= Len(s) /\ Len(s) \in Nat
      /\ \A k \in 1 .. n : s[p + 1 + k] \in WordChar /\ CharAt(s, p + 1 + k) = s[p + 1 + k]
  BY WordIs
<1>2. CharAt(s, p + 1 + 1) \in WordChar
  <2>1. 1 \in 1 .. n
    BY <1>1
  <2> QED  BY <1>1, <2>1
<1>3. CharAt(s, p + 1 + 2) # "'"
  <2>1. CASE n = 1
    <3>1. p + 1 + n + 1 = p + 1 + 2
      BY <2>1
    <3> QED  BY <3>1
  <2>2. CASE n > 1
    <3>1. 2 \in 1 .. n
      BY <1>1, <2>2
    <3>2. CharAt(s, p + 1 + 2) \in WordChar
      BY <1>1, <3>1
    <3> QED  BY <3>2 DEF WordChar
  <2> QED  BY <1>1, <2>1, <2>2
<1>4. SkipCharLiteral(s, p + 1) = p + 1 + 1
  BY <1>2, <1>3 DEF SkipCharLiteral, WordChar
<1>5. After(s, p + 1) = p + 1 + 1
  BY <1>4, AfterIs
<1>6. p + 1 + 1 > p + 1
  OBVIOUS
<1>7. ScanTo(s, p + 1 + 1, d, m)
  BY <1>5, <1>6, ScanPasses
<1> QED  BY <1>7, WordPasses

----------------------------------------------------------------------------
\* How many of the first n numbers are in S.
Counted(S, n) == Cardinality({i \in 1 .. n : i \in S})

\* One more number, one more or not.
LEMMA CountUp ==
  ASSUME NEW S, NEW n \in Nat
  PROVE  /\ Counted(S, 0) = 0 /\ Counted(S, n) \in Nat
         /\ Counted(S, n + 1) = IF n + 1 \in S THEN Counted(S, n) + 1 ELSE Counted(S, n)
<1>. DEFINE A(k) == {i \in 1 .. k : i \in S}
<1>1. A(0) = {} /\ Cardinality({}) = 0
  BY FS_EmptySet
<1>2. IsFiniteSet(A(n)) /\ Cardinality(A(n)) \in Nat
  <2>1. IsFiniteSet(1 .. n)
    BY FS_Interval
  <2>2. A(n) \subseteq 1 .. n
    OBVIOUS
  <2> QED  BY <2>1, <2>2, FS_Subset, FS_CardinalityType
<1>3. CASE n + 1 \in S
  <2>1. A(n + 1) = A(n) \cup {n + 1} /\ n + 1 \notin A(n)
    BY <1>3
  <2>. HIDE DEF A
  <2>2. Cardinality(A(n + 1)) = Cardinality(A(n)) + 1
    BY <1>2, <2>1, FS_AddElement
  <2> QED  BY <1>1, <1>2, <1>3, <2>2 DEF Counted, A
<1>4. CASE n + 1 \notin S
  <2>1. A(n + 1) = A(n)
    BY <1>4
  <2> QED  BY <1>1, <1>2, <1>4, <2>1 DEF Counted
<1> QED  BY <1>3, <1>4

\* Inside k block comments.
Commented(i, k) == [at |-> i, open |-> k]

\* The three cases of a turn inside a block comment.
LEMMA BlockTurnAt ==
  ASSUME NEW s \in Seq(Char), NEW i \in 1 .. Len(s), NEW k \in Nat, k > 0
  PROVE  /\ Commented(i, k) \in LoopState /\ Commented(i, k).at = i
         /\ s[i] = "/" /\ CharAt(s, i + 1) = "*" => BlockTurn(s)[Commented(i, k)] = Commented(i + 2, k + 1)
         /\ s[i] = "*" /\ CharAt(s, i + 1) = "/" => BlockTurn(s)[Commented(i, k)] = Commented(i + 2, k - 1)
         /\ ~(s[i] = "/" /\ CharAt(s, i + 1) = "*") /\ ~(s[i] = "*" /\ CharAt(s, i + 1) = "/")
              => BlockTurn(s)[Commented(i, k)] = Commented(i + 1, k)
<1>. DEFINE t == [at |-> i, open |-> k]
            next == CharAt(s, i + 1)
            a == [at |-> i + 2, open |-> k + 1]
            b == [at |-> i + 2, open |-> k - 1]
            c == [at |-> i + 1, open |-> k]
<1>1. t \in LoopState /\ t.at = i /\ CharAt(s, i) = s[i] /\ ~(i > Len(s)) /\ k # 0
  BY SomeEnd DEF LoopState
<1>2. ASSUME s[i] = "/", next = "*" PROVE BlockTurn(s)[t] = a
  BY <1>1, <1>2 DEF BlockTurn, LoopState
<1>3. ASSUME s[i] = "*", next = "/" PROVE BlockTurn(s)[t] = b
  BY <1>1, <1>3 DEF BlockTurn, LoopState
<1>4. ASSUME ~(s[i] = "/" /\ next = "*"), ~(s[i] = "*" /\ next = "/") PROVE BlockTurn(s)[t] = c
  BY <1>1, <1>4 DEF BlockTurn, LoopState
<1> QED  BY <1>1, <1>2, <1>3, <1>4 DEF Commented

\* The loop ends where no comment is open.
LEMMA BlockEnds ==
  ASSUME NEW s \in Seq(Char), NEW from \in Nat, NEW i \in Nat, i <= Len(s) + (from + 2),
         ComesTo(BlockTurn(s), Commented(from + 2, 1), from + 2, Commented(i, 0))
  PROVE  SkipBlockComment(s, from) = i
<1>. DEFINE turn == BlockTurn(s)
<1>1. Commented(from + 2, 1) \in LoopState /\ Commented(i, 0) \in LoopState /\ Commented(i, 0).at = i
  BY DEF Commented, LoopState
<1>2. turn[Commented(i, 0)] = Commented(i, 0)
  BY <1>1 DEF BlockTurn, LoopState, Commented
<1>3. turn \in [LoopState -> LoopState] /\ Len(s) \in Nat /\ from + 2 \in Nat
  BY BlockTurnIsTyped
<1>. HIDE DEF turn
<1>4. Turns(turn, Commented(from + 2, 1), Len(s)) = Commented(i, 0)
  BY <1>1, <1>2, <1>3, LastTurn DEF turn
<1> QED  BY <1>1, <1>4 DEF SkipBlockComment, turn, Commented

\* A block comment is skipped: as many comments are open in the scan as marks say, which is none
\* only behind the last mark.
LEMMA BlockIsSkipped ==
  ASSUME NEW s \in Seq(Char), NEW u \in Seq(Char), NEW p, Stands(s, p, u), IsBlockComment(u)
  PROVE  SkipBlockComment(s, p + 1) = p + Len(u) + 1 /\ Len(u) > 3 /\ u[1] = "/" /\ u[2] = "*"
<1>1. /\ p \in Nat /\ Len(u) \in Nat /\ Len(s) \in Nat /\ p + Len(u) <= Len(s)
      /\ \A i \in 1 .. Len(u) : p + i \in 1 .. Len(s) /\ s[p + i] = u[i] /\ CharAt(s, p + i) = u[i] /\ u[i] \in Char
  BY StandsIn
<1>2. PICK marks :
        LET Opened(n) == Cardinality({i \in 1 .. n : i \in marks /\ Opens(u, i)})
            Closed(n) == Cardinality({i \in 1 .. n : i \in marks /\ ~Opens(u, i)})
        IN  /\ marks \subseteq 1 .. Len(u) - 1
            /\ AreMarks(marks, u)
            /\ Len(u) > 3 /\ Opens(u, 1) /\ Len(u) - 1 \in marks
            /\ \A n \in 1 .. Len(u) - 2 : Closed(n) < Opened(n)
            /\ Closed(Len(u) - 1) = Opened(Len(u) - 1)
  BY DEF IsBlockComment
<1>. DEFINE O == {i \in marks : Opens(u, i)}
            C == {i \in marks : ~Opens(u, i)}
            open == [n \in 0 .. Len(u) |-> Counted(O, n) - Counted(C, n)]
<1>3. /\ marks \subseteq 1 .. Len(u) - 1
      /\ \A i \in 1 .. Len(u) - 1 : i \in marks <=> (Opens(u, i) \/ Closes(u, i)) /\ i - 1 \notin marks
      /\ Len(u) > 3 /\ Opens(u, 1) /\ Len(u) - 1 \in marks
  BY <1>2 DEF AreMarks
<1>4. \A n : Counted(O, n) = Cardinality({i \in 1 .. n : i \in marks /\ Opens(u, i)})
             /\ Counted(C, n) = Cardinality({i \in 1 .. n : i \in marks /\ ~Opens(u, i)})
  <2>1. \A n : {i \in 1 .. n : i \in O} = {i \in 1 .. n : i \in marks /\ Opens(u, i)}
               /\ {i \in 1 .. n : i \in C} = {i \in 1 .. n : i \in marks /\ ~Opens(u, i)}
    OBVIOUS
  <2> QED  BY <2>1 DEF Counted
<1>5. /\ \A n \in 1 .. Len(u) - 2 : Counted(C, n) < Counted(O, n)
      /\ Counted(C, Len(u) - 1) = Counted(O, Len(u) - 1)
  BY <1>2, <1>4
<1>6. ASSUME NEW n \in 1 .. Len(u)
      PROVE  /\ Counted(O, n - 1) \in Nat /\ Counted(C, n - 1) \in Nat /\ Counted(O, n) \in Nat /\ Counted(C, n) \in Nat
             /\ open[n] = open[n - 1] + (IF n \in marks THEN IF Opens(u, n) THEN 1 ELSE 0 - 1 ELSE 0)
  <2>1. n - 1 \in Nat /\ n \in Nat /\ (n - 1) + 1 = n /\ n - 1 \in 0 .. Len(u) /\ n \in 0 .. Len(u)
    BY <1>1
  <2>2. /\ Counted(O, n - 1) \in Nat /\ Counted(O, n) \in Nat
        /\ Counted(O, n) = IF n \in O THEN Counted(O, n - 1) + 1 ELSE Counted(O, n - 1)
    <3>1. /\ Counted(O, n - 1) \in Nat /\ Counted(O, n) \in Nat
          /\ Counted(O, (n - 1) + 1) = IF (n - 1) + 1 \in O THEN Counted(O, n - 1) + 1 ELSE Counted(O, n - 1)
      <4>. HIDE DEF O
      <4> QED  BY <2>1, CountUp
    <3> QED  BY <2>1, <3>1
  <2>3. /\ Counted(C, n - 1) \in Nat /\ Counted(C, n) \in Nat
        /\ Counted(C, n) = IF n \in C THEN Counted(C, n - 1) + 1 ELSE Counted(C, n - 1)
    <3>1. /\ Counted(C, n - 1) \in Nat /\ Counted(C, n) \in Nat
          /\ Counted(C, (n - 1) + 1) = IF (n - 1) + 1 \in C THEN Counted(C, n - 1) + 1 ELSE Counted(C, n - 1)
      <4>. HIDE DEF C
      <4> QED  BY <2>1, CountUp
    <3> QED  BY <2>1, <3>1
  <2>4. n \in O <=> n \in marks /\ Opens(u, n)
    OBVIOUS
  <2>5. n \in C <=> n \in marks /\ ~Opens(u, n)
    OBVIOUS
  <2>6. open[n] = Counted(O, n) - Counted(C, n) /\ open[n - 1] = Counted(O, n - 1) - Counted(C, n - 1)
    BY <2>1
  <2>. HIDE DEF O, C, open
  <2> QED  BY <2>2, <2>3, <2>4, <2>5, <2>6
<1>7. open[0] = 0 /\ 0 \in Nat
  <2>1. Counted(O, 0) = 0 /\ Counted(C, 0) = 0
    <3>1. 0 \in Nat
      OBVIOUS
    <3>. HIDE DEF O, C
    <3> QED  BY <3>1, CountUp
  <2> QED  BY <1>1, <2>1
<1>8. \A n \in 1 .. Len(u) - 2 : open[n] \in Nat /\ open[n] > 0
  <2>1. ASSUME NEW n \in 1 .. Len(u) - 2 PROVE open[n] \in Nat /\ open[n] > 0
    <3>1. n \in 1 .. Len(u) /\ n \in 0 .. Len(u)
      BY <1>1
    <3>2. Counted(O, n) \in Nat /\ Counted(C, n) \in Nat /\ Counted(C, n) < Counted(O, n)
      BY <1>5, <1>6, <3>1
    <3>3. open[n] = Counted(O, n) - Counted(C, n)
      BY <3>1
    <3>. HIDE DEF O, C, open
    <3> QED  BY <3>2, <3>3
  <2> QED  BY <2>1
<1>9. open[Len(u) - 1] = 0
  <2>1. Len(u) - 1 \in 0 .. Len(u) /\ Len(u) - 1 \in 1 .. Len(u)
    BY <1>1, <1>3
  <2>2. Counted(O, Len(u) - 1) \in Nat /\ Counted(C, Len(u) - 1) \in Nat
    BY <1>6, <2>1
  <2>3. open[Len(u) - 1] = Counted(O, Len(u) - 1) - Counted(C, Len(u) - 1)
    BY <2>1
  <2>. HIDE DEF O, C, open
  <2> QED  BY <1>5, <2>2, <2>3
<1>. HIDE DEF O, C, open
<1>. DEFINE turn == BlockTurn(s)
            start == Commented(p + 1 + 2, 1)
            At(n) == Commented(p + n + 1, open[n])
            T == {k \in 0 .. Len(u) - 2 : k + 2 \notin marks => ComesTo(turn, start, p + 1 + 2, At(k + 2))}
<1>10. turn \in [LoopState -> LoopState] /\ start \in LoopState /\ p + 1 + 2 \in Nat
  <2>1. p + 1 + 2 \in Nat /\ 1 \in Nat
    BY <1>1
  <2> QED  BY <2>1, BlockTurnIsTyped DEF Commented, LoopState
<1>11. 1 \in marks /\ 2 \notin marks /\ 0 \notin marks /\ open[2] = 1
  <2>1. 0 \notin marks
    BY <1>1, <1>3
  <2>2. 1 \in 1 .. Len(u) - 1 /\ 2 \in 1 .. Len(u) - 1 /\ 1 - 1 = 0 /\ 2 - 1 = 1 /\ 1 \in 1 .. Len(u) /\ 2 \in 1 .. Len(u)
    BY <1>1, <1>3
  <2>3. 1 \in marks
    BY <1>3, <2>1, <2>2
  <2>4. 2 \notin marks
    BY <1>3, <2>2, <2>3
  <2>5. open[1] = open[0] + 1 /\ open[2] = open[1] + 0
    BY <1>3, <1>6, <2>2, <2>3, <2>4
  <2> QED  BY <1>7, <2>1, <2>3, <2>4, <2>5
<1>. HIDE DEF turn, start
\* One turn, from one place within the comment to another.
<1>12. ASSUME NEW n \in 2 .. Len(u) - 2, NEW n2 \in Nat, n2 > n, ComesTo(turn, start, p + 1 + 2, At(n)), turn[At(n)] = At(n2)
       PROVE  ComesTo(turn, start, p + 1 + 2, At(n2))
  <2>1. At(n).at = p + n + 1 /\ At(n2).at = p + n2 + 1 /\ p + n + 1 \in Nat /\ p + n2 + 1 \in Nat /\ p + n2 + 1 > p + n + 1
    <3>1. At(n).at = p + n + 1 /\ At(n2).at = p + n2 + 1
      BY DEF Commented
    <3>2. p + n + 1 \in Nat /\ p + n2 + 1 \in Nat /\ p + n2 + 1 > p + n + 1
      <4>1. p \in Nat /\ n \in Nat
        BY <1>1
      <4> QED  BY <1>12, <4>1
    <3> QED  BY <3>1, <3>2
  <2>. HIDE DEF At
  <2>2. ComesTo(turn, start, p + 1 + 2, turn[At(n)])
    BY <1>10, <1>12, <2>1, OneMoreTurn
  <2> QED  BY <1>12, <2>2
<1>13. ASSUME NEW n \in 2 .. Len(u) - 2
       PROVE  /\ p + n + 1 \in 1 .. Len(s) /\ s[p + n + 1] = u[n + 1] /\ CharAt(s, p + n + 1 + 1) = u[n + 1 + 1]
              /\ open[n] \in Nat /\ open[n] > 0 /\ n + 1 \in 1 .. Len(u) - 1
              /\ n + 1 \in 1 .. Len(u) /\ n + 1 + 1 \in 1 .. Len(u) /\ n \in 1 .. Len(u) - 2
  <2>1. n + 1 \in 1 .. Len(u) /\ n + 1 + 1 \in 1 .. Len(u) /\ n \in 1 .. Len(u) - 2 /\ n + 1 \in 1 .. Len(u) - 1
        /\ p + (n + 1) = p + n + 1 /\ p + (n + 1 + 1) = p + n + 1 + 1
    <3>1. p \in Nat /\ n \in Nat /\ Len(u) \in Nat
      BY <1>1
    <3> QED  BY <3>1
  <2>2. /\ p + (n + 1) \in 1 .. Len(s) /\ s[p + (n + 1)] = u[n + 1]
        /\ CharAt(s, p + (n + 1 + 1)) = u[n + 1 + 1]
    BY <1>1, <2>1
  <2> QED  BY <1>8, <2>1, <2>2
<1>14. ASSUME NEW n \in 2 .. Len(u) - 2, ComesTo(turn, start, p + 1 + 2, At(n)), n + 1 \in marks
       PROVE  ComesTo(turn, start, p + 1 + 2, At(n + 1 + 1))
  <2>1. n + 1 + 1 \notin marks
    <3>1. CASE n + 1 + 1 \in 1 .. Len(u) - 1
      <4>1. (n + 1 + 1) - 1 = n + 1
        OBVIOUS
      <4> QED  BY <1>3, <1>14, <3>1, <4>1
    <3>2. CASE n + 1 + 1 \notin 1 .. Len(u) - 1
      BY <1>3, <3>2
    <3> QED  BY <3>1, <3>2
  <2>2. (n + 1) - 1 = n /\ (n + 1 + 1) - 1 = n + 1
    OBVIOUS
  <2>3. open[n + 1 + 1] = open[n + 1] + 0 /\ open[n + 1] = open[n] + (IF Opens(u, n + 1) THEN 1 ELSE 0 - 1)
    BY <1>6, <1>13, <1>14, <2>1, <2>2
  <2>4. p + (n + 1 + 1) + 1 = p + n + 1 + 2 /\ n + 1 + 1 \in Nat /\ n + 1 + 1 > n
    BY <1>1
  <2>5. CASE Opens(u, n + 1)
    <3>1. turn[At(n)] = Commented(p + n + 1 + 2, open[n] + 1)
      <4>1. s[p + n + 1] = "/" /\ CharAt(s, p + n + 1 + 1) = "*" /\ p + n + 1 \in 1 .. Len(s) /\ open[n] \in Nat /\ open[n] > 0
        BY <1>13, <2>5 DEF Opens
      <4> QED  BY <4>1, BlockTurnAt DEF turn
    <3>2. open[n + 1 + 1] = open[n] + 1
      <4>1. open[n + 1] = open[n] + 1 /\ open[n] \in Nat
        BY <1>13, <2>3, <2>5
      <4> QED  BY <2>3, <4>1
    <3>3. turn[At(n)] = At(n + 1 + 1)
      BY <2>4, <3>1, <3>2
    <3>. HIDE DEF At
    <3> QED  BY <1>12, <1>14, <2>4, <3>3
  <2>6. CASE ~Opens(u, n + 1)
    <3>1. Closes(u, n + 1)
      BY <1>3, <1>13, <1>14, <2>6
    <3>2. turn[At(n)] = Commented(p + n + 1 + 2, open[n] - 1)
      <4>1. s[p + n + 1] = "*" /\ CharAt(s, p + n + 1 + 1) = "/" /\ p + n + 1 \in 1 .. Len(s) /\ open[n] \in Nat /\ open[n] > 0
        BY <1>13, <3>1 DEF Closes
      <4> QED  BY <4>1, BlockTurnAt, ZenonT(30) DEF turn
    <3>3. open[n + 1 + 1] = open[n] - 1
      <4>1. open[n + 1] = open[n] + (0 - 1) /\ open[n] \in Nat
        BY <1>13, <2>3, <2>6
      <4> QED  BY <2>3, <4>1
    <3>4. turn[At(n)] = At(n + 1 + 1)
      BY <2>4, <3>2, <3>3
    <3>. HIDE DEF At
    <3> QED  BY <1>12, <1>14, <2>4, <3>4
  <2> QED  BY <2>5, <2>6
<1>15. ASSUME NEW n \in 2 .. Len(u) - 2, ComesTo(turn, start, p + 1 + 2, At(n)), n \notin marks, n + 1 \notin marks
       PROVE  ComesTo(turn, start, p + 1 + 2, At(n + 1))
  <2>1. (n + 1) - 1 = n /\ n + 1 \in Nat /\ n + 1 > n /\ p + (n + 1) + 1 = p + n + 1 + 1
    BY <1>1
  <2>2. ~Opens(u, n + 1) /\ ~Closes(u, n + 1)
    BY <1>3, <1>13, <1>15, <2>1
  <2>3. turn[At(n)] = Commented(p + n + 1 + 1, open[n])
    <3>1. /\ ~(s[p + n + 1] = "/" /\ CharAt(s, p + n + 1 + 1) = "*") /\ ~(s[p + n + 1] = "*" /\ CharAt(s, p + n + 1 + 1) = "/")
          /\ p + n + 1 \in 1 .. Len(s) /\ open[n] \in Nat /\ open[n] > 0
      BY <1>13, <2>2 DEF Opens, Closes
    <3> QED  BY <3>1, BlockTurnAt DEF turn
  <2>4. open[n + 1] = open[n]
    <3>1. open[n + 1] = open[n] + 0
      BY <1>6, <1>13, <1>15, <2>1
    <3>2. open[n] \in Nat
      BY <1>13
    <3> QED  BY <3>1, <3>2
  <2>5. turn[At(n)] = At(n + 1)
    BY <2>1, <2>3, <2>4
  <2>. HIDE DEF At
  <2> QED  BY <1>12, <1>15, <2>1, <2>5
<1>16. ASSUME NEW k \in 0 .. Len(u) - 2, \A j \in 0 .. k - 1 : j \in T, k + 2 \notin marks
       PROVE  ComesTo(turn, start, p + 1 + 2, At(k + 2))
  <2>1. CASE k = 0
    <3>1. 0 \in Nat /\ k + 2 = 2 /\ p + 2 + 1 = p + 1 + 2 /\ 0 <= (p + 1 + 2) - (p + 1 + 2)
      BY <1>1, <2>1
    <3>2. Turns(turn, start, 0) = start
      BY <1>10, <3>1, TurnsAre
    <3>3. At(k + 2) = start
      BY <1>11, <3>1 DEF start
    <3>4. start.at = p + 1 + 2
      BY DEF start, Commented
    <3> QED  BY <3>1, <3>2, <3>3, <3>4 DEF ComesTo
  <2>2. CASE k # 0 /\ k + 1 \in marks
    <3>1. k + 1 \in 1 .. Len(u) - 1 /\ (k + 1) - 1 = k /\ (k + 2) - 1 = k + 1
      BY <1>3
    <3>2. k \notin marks
      BY <1>3, <2>2, <3>1
    <3>3. k # 1
      BY <1>11, <2>2
    <3>4. k - 2 \in 0 .. k - 1 /\ (k - 2) + 2 = k /\ k \in 2 .. Len(u) - 2 /\ k + 1 + 1 = k + 2
      BY <1>1, <2>2, <3>3
    <3>5. k - 2 \in T
      BY <1>16, <3>4
    <3>6. ComesTo(turn, start, p + 1 + 2, At(k))
      BY <3>2, <3>4, <3>5
    <3>7. ComesTo(turn, start, p + 1 + 2, At(k + 1 + 1))
      BY <1>14, <2>2, <3>4, <3>6
    <3> QED  BY <3>4, <3>7
  <2>3. CASE k # 0 /\ k + 1 \notin marks
    <3>1. k - 1 \in 0 .. k - 1 /\ (k - 1) + 2 = k + 1 /\ k + 1 + 1 = k + 2
      BY <2>3
    <3>2. k + 1 \in 2 .. Len(u) - 2
      <4>1. k + 1 # Len(u) - 1
        BY <1>3, <2>3
      <4> QED  BY <1>1, <2>3, <4>1
    <3>3. k - 1 \in T
      BY <1>16, <3>1
    <3>4. ComesTo(turn, start, p + 1 + 2, At(k + 1))
      BY <2>3, <3>1, <3>3
    <3>5. ComesTo(turn, start, p + 1 + 2, At(k + 1 + 1))
      BY <1>15, <1>16, <2>3, <3>1, <3>2, <3>4
    <3> QED  BY <3>1, <3>5
  <2> QED  BY <2>1, <2>2, <2>3
<1>17. ComesTo(turn, start, p + 1 + 2, At(Len(u)))
  <2>1. Len(u) - 2 \in Nat /\ Len(u) - 2 \in 0 .. Len(u) - 2 /\ (Len(u) - 2) + 2 = Len(u) /\ Len(u) \notin marks
    BY <1>1, <1>3
  <2>2. \A k \in 0 .. Len(u) - 2 : (\A j \in 0 .. k - 1 : j \in T) => k \in T
    BY <1>16
  <2>. HIDE DEF T
  <2>3. \A k \in 0 .. Len(u) - 2 : k \in T
    BY <2>1, <2>2, UpTo
  <2>4. Len(u) - 2 \in T
    BY <2>1, <2>3
  <2> QED  BY <2>1, <2>4 DEF T
<1>18. open[Len(u)] = 0
  <2>1. Len(u) \in 1 .. Len(u) /\ Len(u) \notin marks
    BY <1>1, <1>3
  <2>2. open[Len(u)] = open[Len(u) - 1] + 0
    BY <1>6, <2>1
  <2> QED  BY <1>9, <2>2
<1>19. SkipBlockComment(s, p + 1) = p + Len(u) + 1
  <2>1. ComesTo(BlockTurn(s), Commented(p + 1 + 2, 1), p + 1 + 2, Commented(p + Len(u) + 1, 0))
    BY <1>17, <1>18 DEF turn, start
  <2>2. p + 1 \in Nat /\ p + Len(u) + 1 \in Nat /\ p + Len(u) + 1 <= Len(s) + (p + 1 + 2)
    BY <1>1
  <2> QED  BY <2>1, <2>2, BlockEnds
<1> QED  BY <1>3, <1>19 DEF Opens

----------------------------------------------------------------------------
(***************************************************************************)
(* A text, token by token.                                                 *)
(***************************************************************************)
\* d[k] is what the first k texts make.
Flattens(d, X, texts) ==
  /\ d \in [1 .. Len(texts) -> Seq(X)] /\ d[1] = texts[1]
  /\ \A k \in 2 .. Len(texts) : d[k] = d[k - 1] \o texts[k]

\* The texts one behind the other exist, and are what FlattenSeq makes.
LEMMA FlattenedUpTo ==
  ASSUME NEW X, NEW texts \in Seq(Seq(X)), Len(texts) > 0
  PROVE  \E d : Flattens(d, X, texts)
<1>. DEFINE n == Len(texts)
            S == Seq(X)
            step == [k \in 1 .. n - 1 |-> [x \in S |-> x \o texts[k + 1]]]
            from == [k \in 1 .. n - 1 |-> k - 1]
<1>1. n \in Nat /\ n - 1 \in Nat /\ 1 \in 1 .. n /\ \A k \in 1 .. n : texts[k] \in S
  OBVIOUS
<1>2. \A k \in 1 .. n - 1 : k + 1 \in 1 .. n /\ texts[k + 1] \in S /\ k \in 0 .. n - 1 /\ k - 1 \in 0 .. n - 1
  <2>1. \A k \in 1 .. n - 1 : k + 1 \in 1 .. n /\ k \in 0 .. n - 1 /\ k - 1 \in 0 .. n - 1
    BY <1>1
  <2> QED  BY <1>1, <2>1
<1>3. \A k \in 1 .. n - 1 : [x \in S |-> x \o texts[k + 1]] \in [S -> S]
  <2>1. ASSUME NEW k \in 1 .. n - 1, NEW x \in S PROVE x \o texts[k + 1] \in S
    BY <1>2, ConcatProperties
  <2> QED  BY <2>1
<1>4. step \in [1 .. n - 1 -> [S -> S]] /\ \A k \in 1 .. n - 1 : from[k] \in 0 .. k - 1
  BY <1>3
<1>5. PICK e \in [0 .. n - 1 -> S] : GoesOn(e, n - 1, texts[1], from, step)
  <2>. HIDE DEF step, from, n, S
  <2> QED  BY <1>1, <1>4, GoesOnExists
<1>6. e[0] = texts[1] /\ \A k \in 1 .. n - 1 : e[k] = step[k][e[from[k]]]
  BY <1>5 DEF GoesOn
<1>7. \A k \in 1 .. n - 1 : e[k] = e[k - 1] \o texts[k + 1]
  <2>1. ASSUME NEW k \in 1 .. n - 1 PROVE e[k] = e[k - 1] \o texts[k + 1]
    <3>1. from[k] = k - 1 /\ e[k - 1] \in S /\ step[k] = [x \in S |-> x \o texts[k + 1]]
      BY <1>2, <1>5
    <3>2. e[k] = step[k][e[from[k]]]
      BY <1>6
    <3>. HIDE DEF from, step, S
    <3> QED  BY <3>1, <3>2
  <2> QED  BY <2>1
<1>. DEFINE d == [k \in 1 .. n |-> e[k - 1]]
<1>8. d \in [1 .. n -> S]
  <2>1. \A k \in 1 .. n : k - 1 \in 0 .. n - 1
    BY <1>1
  <2> QED  BY <1>5, <2>1
<1>9. d[1] = texts[1]
  BY <1>1, <1>6
<1>10. ASSUME NEW k \in 2 .. n PROVE d[k] = d[k - 1] \o texts[k]
  <2>1. k - 1 \in 1 .. n - 1 /\ k \in 1 .. n /\ k - 1 \in 1 .. n /\ (k - 1) + 1 = k
    BY <1>1
  <2>2. d[k] = e[k - 1] /\ d[k - 1] = e[k - 1 - 1]
    BY <2>1
  <2> QED  BY <1>7, <2>1, <2>2
<1>. HIDE DEF d
<1> QED  BY <1>8, <1>9, <1>10 DEF Flattens

LEMMA FlattenIs ==
  ASSUME NEW X, NEW texts \in Seq(Seq(X)), Len(texts) > 0
  PROVE  \E d : Flattens(d, X, texts) /\ FlattenSeq(texts) = d[Len(texts)]
<1>. DEFINE n == Len(texts)
            Equation(f) == f = [i \in 1 .. n |-> IF i = 1 THEN texts[i] ELSE f[i - 1] \o texts[i]]
            f == CHOOSE f : Equation(f)
<1>1. n \in Nat /\ 1 \in 1 .. n /\ \A k \in 1 .. n : texts[k] \in Seq(X)
  OBVIOUS
<1>2. PICK d : Flattens(d, X, texts)
  BY FlattenedUpTo
<1>3. Equation(d)
  <2>1. \A i \in 1 .. n : i # 1 => i \in 2 .. n
    OBVIOUS
  <2> QED  BY <1>2, <2>1 DEF Flattens
<1>4. Equation(f)
  BY <1>3
<1>5. FlattenSeq(texts) = f[n]
  BY <1>1 DEF FlattenSeq
<1>. HIDE DEF f
<1>6. f[1] = texts[1] /\ \A k \in 2 .. n : f[k] = f[k - 1] \o texts[k]
  <2>1. 1 \in 1 .. n /\ \A k \in 2 .. n : k \in 1 .. n /\ k # 1
    BY <1>1
  <2> QED  BY <1>4, <2>1
<1>. DEFINE T == {k \in 0 .. n : k > 0 => f[k] \in Seq(X)}
<1>7. ASSUME NEW k \in 0 .. n, \A j \in 0 .. k - 1 : j \in T
      PROVE  k \in T
  <2>1. CASE k = 0
    BY <2>1
  <2>2. CASE k = 1
    BY <1>1, <1>6, <2>2
  <2>3. CASE k > 1
    <3>1. k - 1 \in 0 .. k - 1 /\ k - 1 > 0 /\ k \in 2 .. n /\ k \in 1 .. n
      BY <2>3
    <3>2. f[k - 1] \in Seq(X) /\ texts[k] \in Seq(X) /\ f[k] = f[k - 1] \o texts[k]
      BY <1>1, <1>6, <1>7, <3>1
    <3>3. f[k] \in Seq(X)
      BY <3>2, ConcatProperties
    <3> QED  BY <3>3
  <2> QED  BY <2>1, <2>2, <2>3
<1>. HIDE DEF T
<1>8. \A k \in 0 .. n : k \in T
  BY <1>1, <1>7, UpTo
<1>9. f \in [1 .. n -> Seq(X)]
  <2>1. \A k \in 1 .. n : k \in 0 .. n /\ k > 0
    OBVIOUS
  <2>2. \A k \in 1 .. n : f[k] \in Seq(X)
    BY <1>8, <2>1 DEF T
  <2> QED  BY <1>4, <2>2
<1>10. Flattens(f, X, texts)
  BY <1>6, <1>9 DEF Flattens
<1> QED  BY <1>5, <1>10

\* The tokens stand one behind the other; place[k] is where the first k end.
LaidOut(place, tokens, s) ==
  /\ place \in [0 .. Len(tokens) -> Nat] /\ place[0] = 0 /\ place[Len(tokens)] = Len(s)
  /\ \A k \in 1 .. Len(tokens) : place[k] = place[k - 1] + Len(tokens[k].text) /\ Stands(s, place[k - 1], tokens[k].text)

\* The tokens of a text lie one behind the other.
LEMMA SourceIs ==
  ASSUME NEW tokens \in Seq(Token)
  PROVE  Source(tokens) \in Seq(Char) /\ \E place : LaidOut(place, tokens, Source(tokens))
<1>. DEFINE n == Len(tokens)
            texts == [i \in DOMAIN tokens |-> tokens[i].text]
            s == Source(tokens)
<1>1. n \in Nat /\ DOMAIN tokens = 1 .. n /\ \A k \in 1 .. n : tokens[k].text \in Seq(Char)
  <2>1. n \in Nat /\ DOMAIN tokens = 1 .. n /\ \A k \in 1 .. n : tokens[k] \in Token
    OBVIOUS
  <2> QED  BY <2>1 DEF Token
<1>2. texts \in Seq(Seq(Char)) /\ Len(texts) = n /\ \A k \in 1 .. n : texts[k] = tokens[k].text
  <2>1. texts \in [1 .. n -> Seq(Char)]
    BY <1>1
  <2> QED  BY <1>1, <2>1, SeqDef
<1>3. s = FlattenSeq(texts)
  BY DEF Source
<1>4. CASE n = 0
  <2>1. texts = << >>
    BY <1>2, <1>4, EmptySeq
  <2>2. s = << >>
    BY <1>2, <1>3, <1>4, <2>1 DEF FlattenSeq
  <2>3. s \in Seq(Char) /\ Len(s) = 0
    BY <2>2
  <2>. DEFINE place == [k \in 0 .. n |-> 0]
  <2>4. LaidOut(place, tokens, s)
    BY <1>4, <2>3 DEF LaidOut
  <2> QED  BY <2>3, <2>4
<1>5. CASE n > 0
  <2>1. PICK d : Flattens(d, Char, texts) /\ FlattenSeq(texts) = d[n]
    <3>. HIDE DEF texts, n
    <3> QED  BY <1>2, <1>5, FlattenIs
  <2>. HIDE DEF texts, s
  <2>2. /\ d \in [1 .. n -> Seq(Char)] /\ d[1] = texts[1] /\ s = d[n]
        /\ \A k \in 2 .. n : d[k] = d[k - 1] \o texts[k]
    BY <1>2, <1>3, <2>1 DEF Flattens
  <2>3. s \in Seq(Char)
    BY <1>1, <1>5, <2>2
  <2>. DEFINE place == [k \in 0 .. n |-> IF k = 0 THEN 0 ELSE Len(d[k])]
  <2>4. place \in [0 .. n -> Nat] /\ place[0] = 0 /\ place[n] = Len(s) /\ \A k \in 1 .. n : place[k] = Len(d[k])
    <3>1. \A k \in 0 .. n : k # 0 => k \in 1 .. n
      BY <1>1
    <3>2. \A k \in 0 .. n : k # 0 => Len(d[k]) \in Nat
      BY <2>2, <3>1, LenProperties
    <3>3. \A k \in 1 .. n : k \in 0 .. n /\ k # 0
      OBVIOUS
    <3> QED  BY <1>1, <1>5, <2>2, <3>2, <3>3
  <2>. HIDE DEF place
  <2>5. ASSUME NEW k \in 1 .. n
        PROVE  /\ place[k] = place[k - 1] + Len(texts[k])
               /\ \A j \in 1 .. Len(texts[k]) : d[k][place[k - 1] + j] = texts[k][j]
               /\ k > 1 => \A j \in 1 .. place[k - 1] : d[k][j] = d[k - 1][j]
    <3>1. texts[k] \in Seq(Char) /\ Len(texts[k]) \in Nat
      BY <1>1, <1>2
    <3>2. CASE k = 1
      <4>1. place[k] = Len(d[1]) /\ d[1] = texts[1] /\ k - 1 = 0
        BY <2>2, <2>4, <3>2
      <4> QED  BY <2>4, <3>1, <3>2, <4>1
    <3>3. CASE k > 1
      <4>1. k \in 2 .. n /\ k - 1 \in 1 .. n
        BY <1>1, <3>3
      <4>. DEFINE a == d[k - 1]
                  b == texts[k]
      <4>2. d[k] = a \o b /\ a \in Seq(Char) /\ b \in Seq(Char) /\ place[k - 1] = Len(a) /\ place[k] = Len(a \o b)
        BY <2>2, <2>4, <3>1, <4>1
      <4>. HIDE DEF a, b
      <4>3. /\ Len(a \o b) = Len(a) + Len(b) /\ Len(a) \in Nat /\ Len(b) \in Nat
            /\ \A j \in 1 .. Len(a) : (a \o b)[j] = a[j]
            /\ \A j \in 1 .. Len(b) : (a \o b)[Len(a) + j] = b[j]
        BY <4>2
      <4>4. /\ place[k] = place[k - 1] + Len(b)
            /\ \A j \in 1 .. Len(b) : d[k][place[k - 1] + j] = b[j]
            /\ \A j \in 1 .. place[k - 1] : d[k][j] = a[j]
        BY <4>2, <4>3
      <4> QED  BY <4>4 DEF a, b
    <3> QED  BY <1>1, <3>2, <3>3
  \* What the first k make is at the front of all.
  <2>6. \A k \in 1 .. n : place[k] <= Len(s) /\ \A j \in 1 .. place[k] : s[j] = d[k][j]
    <3>. DEFINE AtFront(k) == place[k] <= Len(s) /\ \A j \in 1 .. place[k] : s[j] = d[k][j]
                T == {m \in 0 .. n - 1 : AtFront(n - m)}
    <3>1. ASSUME NEW m \in 0 .. n - 1, \A j \in 0 .. m - 1 : j \in T
          PROVE  m \in T
      <4>1. CASE m = 0
        <5>1. n - m = n
          BY <1>1, <4>1
        <5>2. place[n] = Len(s) /\ Len(s) \in Nat /\ s = d[n]
          BY <2>2, <2>3, <2>4
        <5>3. AtFront(n)
          BY <5>2
        <5> QED  BY <5>1, <5>3
      <4>2. CASE m # 0
        <5>. DEFINE k == n - m + 1
        <5>1. m - 1 \in 0 .. m - 1 /\ n - (m - 1) = k /\ k - 1 = n - m /\ k \in 1 .. n /\ k > 1 /\ k \in 0 .. n /\ k - 1 \in 0 .. n
          BY <1>1, <4>2
        <5>. HIDE DEF k
        <5>2. AtFront(k)
          <6>1. AtFront(n - (m - 1))
            BY <3>1, <5>1
          <6> QED  BY <5>1, <6>1
        <5>3. place[k] = place[k - 1] + Len(texts[k]) /\ place[k] \in Nat /\ place[k - 1] \in Nat /\ Len(texts[k]) \in Nat /\ Len(s) \in Nat
          <6>1. texts[k] \in Seq(Char)
            BY <1>1, <1>2, <5>1
          <6>2. place[k] = place[k - 1] + Len(texts[k])
            BY <2>5, <5>1
          <6>3. place[k] \in Nat /\ place[k - 1] \in Nat
            BY <2>4, <5>1
          <6> QED  BY <2>3, <6>1, <6>2, <6>3
        <5>4. \A j \in 1 .. place[k - 1] : d[k][j] = d[k - 1][j]
          BY <2>5, <5>1
        <5>5. AtFront(k - 1)
          BY <5>2, <5>3, <5>4
        <5> QED  BY <5>1, <5>5
      <4> QED  BY <4>1, <4>2
    <3>2. n - 1 \in Nat
      BY <1>1, <1>5
    <3>3. \A m \in 0 .. n - 1 : (\A j \in 0 .. m - 1 : j \in T) => m \in T
      BY <3>1
    <3>. HIDE DEF T
    <3>4. \A m \in 0 .. n - 1 : m \in T
      BY <3>2, <3>3, UpTo
    <3>5. ASSUME NEW k \in 1 .. n PROVE AtFront(k)
      <4>1. n - k \in 0 .. n - 1 /\ n - (n - k) = k
        BY <1>1
      <4>2. AtFront(n - (n - k))
        BY <3>4, <4>1 DEF T
      <4> QED  BY <4>1, <4>2
    <3> QED  BY <3>5
  <2>7. ASSUME NEW k \in 1 .. n
        PROVE  place[k] = place[k - 1] + Len(tokens[k].text) /\ Stands(s, place[k - 1], tokens[k].text)
    <3>1. place[k] = place[k - 1] + Len(texts[k]) /\ texts[k] = tokens[k].text /\ place[k] \in Nat /\ place[k - 1] \in Nat
          /\ Len(texts[k]) \in Nat
      <4>1. k \in 0 .. n /\ k - 1 \in 0 .. n
        OBVIOUS
      <4>2. texts[k] \in Seq(Char) /\ Len(texts[k]) \in Nat
        BY <1>1, <1>2
      <4>3. place[k] \in Nat /\ place[k - 1] \in Nat
        BY <2>4, <4>1
      <4> QED  BY <1>2, <2>5, <4>2, <4>3
    <3>2. ASSUME NEW j \in 1 .. Len(texts[k]) PROVE s[place[k - 1] + j] = texts[k][j]
      <4>1. place[k - 1] + j \in 1 .. place[k]
        BY <3>1
      <4> QED  BY <2>5, <2>6, <4>1, SMTT(30)
    <3> QED  BY <2>6, <3>1, <3>2 DEF Stands
  <2>8. LaidOut(place, tokens, s)
    BY <2>4, <2>7 DEF LaidOut
  <2> QED  BY <2>3, <2>8 DEF s
<1> QED  BY <1>1, <1>4, <1>5

\* How a token ends, and how a string literal begins.
LEMMA LexemeEnds ==
  ASSUME NEW t \in Token, IsLexeme(t)
  PROVE  /\ Len(t.text) \in Nat /\ Len(t.text) > 0 /\ t.text \in Seq(Char)
         /\ t.kind \notin {"word", "lifetime"} => t.text[Len(t.text)] \notin WordChar
         /\ IsString(t.text) => t.text[1] \in {"b", "r", "quote"}
<1>. DEFINE u == t.text
<1>1. u \in Seq(Char) /\ Len(u) \in Nat
  BY DEF Token
<1>2. ASSUME IsString(u)
      PROVE  Len(u) > 0 /\ u[Len(u)] \in {"quote", "#"} /\ u[1] \in {"b", "r", "quote"}
  <2>1. PICK b \in {0, 1}, r \in {0, 1}, hashes \in 0 .. Len(u) :
          LET quote == b + r + hashes + 1
              last == Len(u) - hashes
          IN  /\ quote < last /\ u[quote] = "quote" /\ u[last] = "quote"
              /\ b = 1 => u[1] = "b"
              /\ r = 1 => u[b + 1] = "r" /\ Raw(u, quote + 1, last - 1, hashes)
              /\ hashes > 0 => r = 1
              /\ hashes = 0 => Escaped(u, quote + 1, last - 1)
              /\ \A i \in (b + r + 1 .. quote - 1) \cup (last + 1 .. Len(u)) : u[i] = "#"
    BY <1>2 DEF IsString
  <2>. DEFINE quote == b + r + hashes + 1
              last == Len(u) - hashes
  <2>2. /\ quote < last /\ u[quote] = "quote" /\ u[last] = "quote"
        /\ b = 1 => u[1] = "b"
        /\ r = 1 => u[b + 1] = "r"
        /\ hashes > 0 => r = 1
        /\ \A i \in last + 1 .. Len(u) : u[i] = "#"
    BY <2>1
  <2>3. Len(u) > 0 /\ hashes \in Nat
    BY <1>1, <2>2
  <2>4. u[Len(u)] \in {"quote", "#"}
    <3>1. CASE hashes = 0
      <4>1. last = Len(u)
        BY <1>1, <3>1
      <4> QED  BY <2>2, <4>1
    <3>2. CASE hashes # 0
      <4>1. Len(u) \in last + 1 .. Len(u)
        BY <1>1, <2>3, <3>2
      <4> QED  BY <2>2, <4>1
    <3> QED  BY <3>1, <3>2
  <2>5. u[1] \in {"b", "r", "quote"}
    <3>1. CASE b = 0 /\ r = 1
      <4>1. b + 1 = 1
        BY <3>1
      <4> QED  BY <2>2, <3>1, <4>1
    <3>2. CASE b = 0 /\ r = 0
      <4>1. quote = 1
        BY <2>2, <2>3, <3>2
      <4> QED  BY <2>2, <4>1
    <3> QED  BY <2>2, <3>1, <3>2
  <2> QED  BY <2>3, <2>4, <2>5
<1>3. ASSUME IsCharacter(u)
      PROVE  Len(u) > 0 /\ u[Len(u)] = "'"
  BY <1>1, <1>3 DEF IsCharacter
<1>4. ASSUME IsLineComment(u)
      PROVE  Len(u) > 0 /\ u[Len(u)] = "nl"
  BY <1>1, <1>4 DEF IsLineComment
<1>5. ASSUME IsBlockComment(u)
      PROVE  Len(u) > 0 /\ u[Len(u)] \in {"*", "/"}
  <2>1. PICK marks : /\ marks \subseteq {i \in 1 .. Len(u) - 1 : Opens(u, i) \/ Closes(u, i)}
                     /\ Len(u) > 3 /\ Len(u) - 1 \in marks
    BY <1>5 DEF IsBlockComment
  <2>2. Opens(u, Len(u) - 1) \/ Closes(u, Len(u) - 1)
    BY <2>1
  <2>3. (Len(u) - 1) + 1 = Len(u) /\ Len(u) > 0
    BY <1>1, <2>1
  <2> QED  BY <2>2, <2>3 DEF Opens, Closes
<1>6. CASE t.kind = "open" /\ u = <<"(">>
  <2>1. Len(u) = 1 /\ u[1] = "("
    BY <1>6
  <2> QED  BY <1>1, <1>2, <2>1 DEF WordChar
<1>7. CASE t.kind = "close" /\ u = <<")">>
  <2>1. Len(u) = 1 /\ u[1] = ")"
    BY <1>7
  <2> QED  BY <1>1, <1>2, <2>1 DEF WordChar
<1>8. CASE t.kind = "word" /\ IsWord(u)
  <2>1. u # << >>
    BY <1>8 DEF IsWord
  <2>2. Len(u) > 0
    BY <1>1, <2>1, EmptySeq
  <2> QED  BY <1>1, <1>2, <1>8, <2>2
<1>9. CASE t.kind = "lifetime" /\ Len(u) > 1
  BY <1>1, <1>2, <1>9
<1>10. CASE t.kind = "literal" /\ (IsString(u) \/ IsCharacter(u))
  BY <1>1, <1>2, <1>3, <1>10 DEF WordChar
<1>11. CASE t.kind = "comment" /\ (IsLineComment(u) \/ IsBlockComment(u))
  BY <1>1, <1>2, <1>4, <1>5, <1>11 DEF WordChar
<1>12. CASE t.kind = "other" /\ Len(u) = 1 /\ u[1] \in {"other", "#", "/", "*", "nl"}
  BY <1>1, <1>2, <1>12 DEF WordChar
<1> QED  BY <1>6, <1>7, <1>8, <1>9, <1>10, <1>11, <1>12 DEF IsLexeme

\* A text of tokens that the guard keeps track of.
Written(place, tokens, s) ==
  /\ tokens \in Seq(Token) /\ Lexed(tokens) /\ s \in Seq(Char) /\ LaidOut(place, tokens, s)

\* A token stands at its place.
LEMMA TokenStands ==
  ASSUME NEW place, NEW tokens, NEW s, Written(place, tokens, s), NEW k \in 1 .. Len(tokens)
  PROVE  /\ s \in Seq(Char) /\ Len(s) \in Nat /\ Len(tokens) \in Nat
         /\ tokens[k] \in Token /\ IsLexeme(tokens[k]) /\ tokens[k].text \in Seq(Char)
         /\ place[k - 1] \in Nat /\ place[k] \in Nat /\ place[k] = place[k - 1] + Len(tokens[k].text) /\ place[k] <= Len(s)
         /\ Stands(s, place[k - 1], tokens[k].text)
         /\ Len(tokens[k].text) \in Nat /\ Len(tokens[k].text) > 0
<1>. DEFINE u == tokens[k].text
<1>1. /\ tokens \in Seq(Token) /\ Lexed(tokens) /\ s \in Seq(Char) /\ LaidOut(place, tokens, s)
  BY DEF Written
<1>2. Len(tokens) \in Nat /\ DOMAIN tokens = 1 .. Len(tokens) /\ tokens[k] \in Token /\ IsLexeme(tokens[k])
  BY <1>1 DEF Lexed
<1>3. k - 1 \in 0 .. Len(tokens) /\ k \in 0 .. Len(tokens)
  BY <1>2
<1>4. /\ place \in [0 .. Len(tokens) -> Nat] /\ place[k] = place[k - 1] + Len(u) /\ Stands(s, place[k - 1], u)
  BY <1>1 DEF LaidOut
<1>5. u \in Seq(Char) /\ Len(u) \in Nat /\ Len(u) > 0
  BY <1>2, LexemeEnds
<1>6. place[k - 1] \in Nat /\ place[k] \in Nat
  BY <1>3, <1>4
<1>. HIDE DEF u
<1>7. Len(s) \in Nat /\ place[k - 1] + Len(u) <= Len(s)
  BY <1>1, <1>4, <1>5, StandsIn
<1> QED  BY <1>1, <1>2, <1>4, <1>5, <1>6, <1>7 DEF u

\* What comes right behind a word, a lifetime and a slash, be it the end of the text.
LEMMA TokensTouch ==
  ASSUME NEW place, NEW tokens, NEW s, Written(place, tokens, s), NEW k \in 1 .. Len(tokens)
  PROVE  /\ tokens[k].kind \in {"word", "lifetime"} => CharAt(s, place[k] + 1) \notin WordChar \cup {"'", "quote", "#"}
         /\ tokens[k].kind = "other" /\ tokens[k].text[1] = "/" => CharAt(s, place[k] + 1) \notin {"/", "*"}
         /\ tokens[k].text[1] \in WordChar \cup {"quote"} => CharAt(s, place[k - 1]) \notin WordChar
<1>1. /\ tokens \in Seq(Token) /\ Lexed(tokens) /\ s \in Seq(Char) /\ LaidOut(place, tokens, s) /\ Len(tokens) \in Nat
  BY DEF Written
<1>2. \A i \in 2 .. Len(tokens) : Apart(tokens[i - 1], tokens[i])
  <2>1. \A i \in 2 .. Len(tokens) : i \in DOMAIN tokens /\ i > 1
    BY <1>1
  <2> QED  BY <1>1, <2>1 DEF Lexed, Writable
<1>3. CharAt(s, Len(s) + 1) = "end" /\ CharAt(s, 0) = "end"
  BY <1>1, SomeEnd
<1>4. /\ tokens[k].kind \in {"word", "lifetime"} => CharAt(s, place[k] + 1) \notin WordChar \cup {"'", "quote", "#"}
      /\ tokens[k].kind = "other" /\ tokens[k].text[1] = "/" => CharAt(s, place[k] + 1) \notin {"/", "*"}
  <2>1. CASE k = Len(tokens)
    <3>1. place[k] = Len(s)
      BY <1>1, <2>1 DEF LaidOut
    <3> QED  BY <1>3, <3>1 DEF WordChar
  <2>2. CASE k # Len(tokens)
    <3>1. k + 1 \in 1 .. Len(tokens) /\ k + 1 \in 2 .. Len(tokens) /\ (k + 1) - 1 = k
      BY <1>1, <2>2
    <3>2. 1 \in 1 .. Len(tokens[k + 1].text)
      <4>1. Len(tokens[k + 1].text) \in Nat /\ Len(tokens[k + 1].text) > 0
        BY <3>1, TokenStands
      <4> QED  BY <4>1
    <3>3. CharAt(s, place[(k + 1) - 1] + 1) = tokens[k + 1].text[1]
      <4>1. s \in Seq(Char) /\ tokens[k + 1].text \in Seq(Char) /\ Stands(s, place[(k + 1) - 1], tokens[k + 1].text)
        BY <3>1, TokenStands
      <4> QED  BY <3>2, <4>1, StandsIn
    <3>4. Apart(tokens[k], tokens[k + 1])
      BY <1>2, <3>1
    <3> QED  BY <3>1, <3>3, <3>4 DEF Apart
  <2> QED  BY <2>1, <2>2
<1>5. ASSUME tokens[k].text[1] \in WordChar \cup {"quote"}
      PROVE  CharAt(s, place[k - 1]) \notin WordChar
  <2>1. CASE k = 1
    <3>1. place[k - 1] = 0
      BY <1>1, <2>1 DEF LaidOut
    <3> QED  BY <1>3, <3>1 DEF WordChar
  <2>2. CASE k # 1
    <3>. DEFINE t == tokens[k - 1]
                n == Len(t.text)
    <3>1. k - 1 \in 1 .. Len(tokens) /\ k \in 2 .. Len(tokens)
      BY <1>1, <2>2
    <3>2. /\ t \in Token /\ IsLexeme(t) /\ n \in Nat /\ n > 0 /\ place[k - 1 - 1] \in Nat
          /\ place[k - 1] = place[k - 1 - 1] + n /\ t.text \in Seq(Char) /\ Stands(s, place[k - 1 - 1], t.text)
      BY <3>1, TokenStands
    <3>3. CharAt(s, place[k - 1]) = t.text[n]
      <4>1. n \in 1 .. Len(t.text)
        BY <3>2
      <4>. HIDE DEF t, n
      <4>2. CharAt(s, place[k - 1 - 1] + n) = t.text[n]
        BY <1>1, <3>2, <4>1, StandsIn
      <4> QED  BY <3>2, <4>2
    <3>4. Apart(t, tokens[k])
      BY <1>2, <3>1
    <3>5. t.kind \notin {"word", "lifetime"}
      BY <1>5, <3>4 DEF Apart
    <3> QED  BY <3>2, <3>3, <3>5, LexemeEnds
  <2> QED  BY <2>1, <2>2
<1> QED  BY <1>4, <1>5

\* The scan passes every token that is no bracket, and counts none.
LEMMA TokenPasses ==
  ASSUME NEW place, NEW tokens, NEW s, Written(place, tokens, s), NEW k \in 1 .. Len(tokens),
         tokens[k].kind \notin {"open", "close"}, NEW d \in Nat, NEW m \in Nat, ScanTo(s, place[k - 1] + 1, d, m)
  PROVE  ScanTo(s, place[k] + 1, d, m)
<1>. DEFINE t == tokens[k]
            u == t.text
            p == place[k - 1]
<1>1. /\ s \in Seq(Char) /\ Len(s) \in Nat /\ t \in Token /\ IsLexeme(t) /\ u \in Seq(Char) /\ p \in Nat /\ Stands(s, p, u)
      /\ place[k] = p + Len(u) /\ place[k] <= Len(s) /\ Len(u) \in Nat /\ Len(u) > 0
  BY TokenStands
<1>2. /\ t.kind \in {"word", "lifetime"} => CharAt(s, place[k] + 1) \notin WordChar \cup {"'", "quote", "#"}
      /\ t.kind = "other" /\ u[1] = "/" => CharAt(s, place[k] + 1) \notin {"/", "*"}
      /\ u[1] \in WordChar \cup {"quote"} => CharAt(s, p) \notin WordChar
  BY TokensTouch
<1>3. t.kind \notin {"open", "close"} /\ ScanTo(s, p + 1, d, m)
  OBVIOUS
<1>. HIDE DEF t, u, p
<1>4. /\ p + 1 \in 1 .. Len(s) /\ s[p + 1] = u[1] /\ DOMAIN u = 1 .. Len(u)
      /\ \A j \in 1 .. Len(u) : s[p + j] = u[j] /\ CharAt(s, p + j) = u[j]
  <2>1. 1 \in 1 .. Len(u) /\ p + 1 \in 1 .. Len(s)
    BY <1>1
  <2>2. \A j \in 1 .. Len(u) : s[p + j] = u[j] /\ CharAt(s, p + j) = u[j]
    BY <1>1, StandsIn, SMTT(30)
  <2>3. s[p + 1] = u[1]
    BY <2>1, <2>2
  <2>4. DOMAIN u = 1 .. Len(u)
    BY <1>1
  <2> QED  BY <2>1, <2>2, <2>3, <2>4
<1>5. CASE t.kind = "word" /\ IsWord(u)
  <2>1. AreWord(s, p, Len(u))
    <3>1. \A j \in 1 .. Len(u) : s[p + j] \in WordChar
      BY <1>1, <1>4, <1>5 DEF IsWord
    <3> QED  BY <1>1, <1>2, <1>5, <3>1 DEF AreWord
  <2> QED  BY <1>1, <1>3, <2>1, WordPasses
<1>6. CASE t.kind = "lifetime" /\ Len(u) > 1 /\ u[1] = "'" /\ IsWord(Tail(u))
  <2>. DEFINE n == Len(u) - 1
  <2>1. Len(Tail(u)) = n /\ n \in Nat /\ n > 0 /\ p + 1 + n = place[k] /\ DOMAIN Tail(u) = 1 .. n
        /\ \A j \in 1 .. n : Tail(u)[j] = u[j + 1]
    <3>1. u # << >>
      BY <1>1, EmptySeq
    <3>2. Tail(u) \in Seq(Char) /\ Len(Tail(u)) = Len(u) - 1 /\ \A j \in 1 .. Len(Tail(u)) : Tail(u)[j] = u[j + 1]
      BY <1>1, <3>1, HeadTailProperties
    <3>3. n \in Nat /\ n > 0 /\ p + 1 + n = place[k]
      BY <1>1, <1>6
    <3> QED  BY <3>2, <3>3
  <2>2. ASSUME NEW j \in 1 .. n PROVE s[p + 1 + j] \in WordChar
    <3>1. j + 1 \in 1 .. Len(u) /\ p + (j + 1) = p + 1 + j
      BY <1>1, <2>1
    <3>2. s[p + 1 + j] = Tail(u)[j]
      BY <1>4, <2>1, <3>1
    <3> QED  BY <1>6, <2>1, <3>2 DEF IsWord
  <2>3. AreWord(s, p + 1, n)
    <3>1. p + 1 \in Nat /\ p + 1 + n <= Len(s) /\ p + 1 + n + 1 = place[k] + 1
      BY <1>1, <2>1
    <3>2. CharAt(s, p + 1 + n + 1) \notin WordChar \cup {"quote", "#"}
      BY <1>2, <1>6, <3>1
    <3>. HIDE DEF n
    <3> QED  BY <2>1, <2>2, <3>1, <3>2 DEF AreWord
  <2>4. CharAt(s, p + 1 + n + 1) # "'" /\ s[p + 1] = "'"
    BY <1>2, <1>4, <1>6, <2>1
  <2>5. ScanTo(s, p + 1 + n + 1, d, m)
    <3>. HIDE DEF n
    <3> QED  BY <1>1, <1>3, <1>4, <2>1, <2>3, <2>4, LifetimePasses
  <2> QED  BY <2>1, <2>5
<1>7. CASE t.kind = "literal" /\ IsString(u)
  <2>1. CharAt(s, p) \notin WordChar
    <3>1. u[1] \in {"b", "r", "quote"}
      BY <1>1, <1>7, LexemeEnds DEF u
    <3> QED  BY <1>2, <3>1 DEF WordChar
  <2> QED  BY <1>1, <1>3, <1>7, <2>1, StringPasses
<1>8. CASE t.kind = "literal" /\ IsCharacter(u)
  BY <1>1, <1>3, <1>8, CharacterPasses
<1>9. CASE t.kind = "comment" /\ IsLineComment(u)
  BY <1>1, <1>3, <1>9, LinePasses
<1>10. CASE t.kind = "comment" /\ IsBlockComment(u)
  <2>1. SkipBlockComment(s, p + 1) = p + Len(u) + 1 /\ Len(u) > 3 /\ u[1] = "/" /\ u[2] = "*"
    BY <1>1, <1>10, BlockIsSkipped
  <2>2. s[p + 1] = "/" /\ CharAt(s, p + 1 + 1) = "*"
    <3>1. 2 \in 1 .. Len(u) /\ p + 1 + 1 = p + 2
      BY <1>1, <2>1
    <3> QED  BY <1>1, <1>4, <2>1, <3>1
  <2>3. After(s, p + 1) = p + Len(u) + 1
    BY <1>1, <1>4, <2>1, <2>2, AfterIs
  <2>4. p + Len(u) + 1 > p + 1
    BY <1>1
  <2>5. ScanTo(s, p + Len(u) + 1, d, m)
    BY <1>1, <1>3, <1>4, <2>2, <2>3, <2>4, ScanPasses
  <2> QED  BY <1>1, <2>5
<1>11. CASE t.kind = "other" /\ Len(u) = 1 /\ u[1] \in {"other", "#", "/", "*", "nl"}
  <2>1. place[k] = p + 1
    BY <1>1, <1>11
  <2> QED  BY <1>1, <1>2, <1>3, <1>4, <1>11, <2>1, PlainPasses
<1>12. \/ t.kind = "word" /\ IsWord(u)
       \/ t.kind = "lifetime" /\ Len(u) > 1 /\ u[1] = "'" /\ IsWord(Tail(u))
       \/ t.kind = "literal" /\ (IsString(u) \/ IsCharacter(u))
       \/ t.kind = "comment" /\ (IsLineComment(u) \/ IsBlockComment(u))
       \/ t.kind = "other" /\ Len(u) = 1 /\ u[1] \in {"other", "#", "/", "*", "nl"}
  BY <1>1, <1>3 DEF IsLexeme, u
<1> QED  BY <1>5, <1>6, <1>7, <1>8, <1>9, <1>10, <1>11, <1>12

\* A bracket changes the height by one, anything else leaves it.
LEMMA HeightStep ==
  ASSUME NEW tokens \in Seq(Token), Balanced(tokens)
  PROVE  /\ Height(tokens, 0) = 0
         /\ \A k \in 0 .. Len(tokens) : Height(tokens, k) \in Nat
         /\ \A k \in 1 .. Len(tokens) :
              Height(tokens, k) = Height(tokens, k - 1) + (IF tokens[k].kind = "open" THEN 1
                                                           ELSE IF tokens[k].kind = "close" THEN 0 - 1 ELSE 0)
<1>. DEFINE OfKind(kind) == {i \in DOMAIN tokens : tokens[i].kind = kind}
            n == Len(tokens)
<1>1. n \in Nat /\ DOMAIN tokens = 1 .. n
  OBVIOUS
<1>2. ASSUME NEW k \in 0 .. n, NEW kind
      PROVE  Cardinality({i \in 1 .. k : tokens[i].kind = kind}) = Counted(OfKind(kind), k)
  <2>1. {i \in 1 .. k : tokens[i].kind = kind} = {i \in 1 .. k : i \in OfKind(kind)}
    BY <1>1
  <2> QED  BY <2>1 DEF Counted
<1>. HIDE DEF n
<1>3. ASSUME NEW k \in 0 .. n
      PROVE  Height(tokens, k) = Counted(OfKind("open"), k) - Counted(OfKind("close"), k)
  BY <1>2 DEF Height
<1>4. ASSUME NEW k \in 0 .. n
      PROVE  Counted(OfKind("close"), k) <= Counted(OfKind("open"), k)
  <2>1. Cardinality({i \in 1 .. k : tokens[i].kind = "close"}) <= Cardinality({i \in 1 .. k : tokens[i].kind = "open"})
    BY DEF Balanced, n
  <2> QED  BY <1>2, <2>1
<1>5. ASSUME NEW k \in 1 .. n
      PROVE  k \in OfKind("open") <=> tokens[k].kind = "open"
  BY <1>1
<1>6. ASSUME NEW k \in 1 .. n
      PROVE  k \in OfKind("close") <=> tokens[k].kind = "close"
  BY <1>1
<1>. HIDE DEF OfKind
<1>7. \A k \in Nat : /\ Counted(OfKind("open"), k) \in Nat /\ Counted(OfKind("close"), k) \in Nat
                     /\ Counted(OfKind("open"), 0) = 0 /\ Counted(OfKind("close"), 0) = 0
                     /\ Counted(OfKind("open"), k + 1) = IF k + 1 \in OfKind("open") THEN Counted(OfKind("open"), k) + 1 ELSE Counted(OfKind("open"), k)
                     /\ Counted(OfKind("close"), k + 1) = IF k + 1 \in OfKind("close") THEN Counted(OfKind("close"), k) + 1 ELSE Counted(OfKind("close"), k)
  BY CountUp
<1>8. Height(tokens, 0) = 0
  <2>1. 0 \in 0 .. n /\ 0 \in Nat
    BY <1>1
  <2> QED  BY <1>3, <1>7, <2>1
<1>9. ASSUME NEW k \in 0 .. n PROVE Height(tokens, k) \in Nat
  <2>1. Counted(OfKind("open"), k) \in Nat /\ Counted(OfKind("close"), k) \in Nat
    BY <1>7
  <2> QED  BY <1>3, <1>4, <2>1
<1>10. ASSUME NEW k \in 1 .. n
       PROVE  Height(tokens, k) = Height(tokens, k - 1) + (IF tokens[k].kind = "open" THEN 1
                                                           ELSE IF tokens[k].kind = "close" THEN 0 - 1 ELSE 0)
  <2>1. k - 1 \in Nat /\ k - 1 \in 0 .. n /\ k \in 0 .. n /\ (k - 1) + 1 = k /\ k \in Nat
    BY <1>1
  <2>2. /\ Counted(OfKind("open"), k - 1) \in Nat /\ Counted(OfKind("close"), k - 1) \in Nat
        /\ Counted(OfKind("open"), k) = IF k \in OfKind("open") THEN Counted(OfKind("open"), k - 1) + 1 ELSE Counted(OfKind("open"), k - 1)
        /\ Counted(OfKind("close"), k) = IF k \in OfKind("close") THEN Counted(OfKind("close"), k - 1) + 1 ELSE Counted(OfKind("close"), k - 1)
    BY <1>7, <2>1
  <2>3. /\ Height(tokens, k) = Counted(OfKind("open"), k) - Counted(OfKind("close"), k)
        /\ Height(tokens, k - 1) = Counted(OfKind("open"), k - 1) - Counted(OfKind("close"), k - 1)
    BY <1>3, <2>1
  <2>4. (k \in OfKind("open") <=> tokens[k].kind = "open") /\ (k \in OfKind("close") <=> tokens[k].kind = "close")
    BY <1>5, <1>6
  <2> QED  BY <2>2, <2>3, <2>4
<1> QED  BY <1>8, <1>9, <1>10 DEF n

\* m is the greatest height behind the first k tokens.
Peak(tokens, k, m) ==
  /\ m \in Nat /\ \E j \in 0 .. k : Height(tokens, j) = m
  /\ \A j \in 0 .. k : Height(tokens, j) <= m

\* The scan, at a token with the brackets that are open there, is so at the next token.
LEMMA TokenScanned ==
  ASSUME NEW place, NEW tokens, NEW s, Written(place, tokens, s), Balanced(tokens), NEW k \in 1 .. Len(tokens),
         NEW m, Peak(tokens, k - 1, m), ScanTo(s, place[k - 1] + 1, Height(tokens, k - 1), m)
  PROVE  \E n : Peak(tokens, k, n) /\ ScanTo(s, place[k] + 1, Height(tokens, k), n)
<1>. DEFINE t == tokens[k]
            i == place[k - 1] + 1
            d == Height(tokens, k - 1)
            e == Height(tokens, k)
            n == IF e > m THEN e ELSE m
<1>1. /\ tokens \in Seq(Token) /\ Len(tokens) \in Nat /\ m \in Nat
  BY DEF Written, Peak
<1>2. k - 1 \in 0 .. Len(tokens) /\ k \in 0 .. Len(tokens)
  BY <1>1
<1>3. /\ d \in Nat /\ e \in Nat
      /\ e = d + (IF t.kind = "open" THEN 1 ELSE IF t.kind = "close" THEN 0 - 1 ELSE 0)
  BY <1>1, <1>2, HeightStep
<1>4. /\ s \in Seq(Char) /\ Len(s) \in Nat /\ t \in Token /\ IsLexeme(t) /\ t.text \in Seq(Char)
      /\ place[k - 1] \in Nat /\ place[k] \in Nat /\ place[k] = place[k - 1] + Len(t.text) /\ place[k] <= Len(s)
      /\ Stands(s, place[k - 1], t.text) /\ Len(t.text) \in Nat /\ Len(t.text) > 0
  BY TokenStands
<1>. HIDE DEF t, d, e
<1>5. Peak(tokens, k, n)
  <2>1. n \in Nat
    BY <1>1, <1>3
  <2>2. m <= n /\ e <= n
    BY <1>1, <1>3
  <2>3. \E j \in 0 .. k : Height(tokens, j) = n
    <3>1. CASE e > m
      BY <1>2, <3>1 DEF e
    <3>2. CASE ~(e > m)
      <4>1. PICK j \in 0 .. k - 1 : Height(tokens, j) = m
        BY DEF Peak
      <4> QED  BY <1>1, <3>2, <4>1
    <3> QED  BY <3>1, <3>2
  <2>4. ASSUME NEW j \in 0 .. k PROVE Height(tokens, j) <= n
    <3>1. CASE j = k
      BY <2>2, <3>1 DEF e
    <3>2. CASE j # k
      <4>1. j \in 0 .. k - 1 /\ j \in 0 .. Len(tokens)
        BY <1>1, <3>2
      <4>2. Height(tokens, j) <= m /\ Height(tokens, j) \in Nat
        BY <1>1, <4>1, HeightStep DEF Peak
      <4>. HIDE DEF n
      <4> QED  BY <1>1, <2>1, <2>2, <4>2
    <3> QED  BY <3>1, <3>2
  <2>. HIDE DEF n
  <2> QED  BY <2>1, <2>3, <2>4 DEF Peak
<1>6. i \in 1 .. Len(s) /\ s[i] = t.text[1] /\ ScanTo(s, i, d, m)
  <2>1. 1 \in 1 .. Len(t.text) /\ i \in 1 .. Len(s)
    BY <1>4
  <2> QED  BY <1>4, <2>1, StandsIn DEF d
<1>7. ASSUME t.kind \in {"open", "close"}
      PROVE  place[k] + 1 = i + 1 /\ i + 1 > i /\ i \in Nat
             /\ (t.kind = "open" => s[i] = "(") /\ (t.kind = "close" => s[i] = ")")
  <2>1. \/ t.kind = "open" /\ t.text = <<"(">>
        \/ t.kind = "close" /\ t.text = <<")">>
    <3>1. t.kind \notin {"word", "lifetime", "literal", "comment", "other"}
      BY <1>7
    <3> QED  BY <1>4, <3>1 DEF IsLexeme
  <2>2. Len(t.text) = 1 /\ (t.kind = "open" => t.text[1] = "(") /\ (t.kind = "close" => t.text[1] = ")")
    <3>1. CASE t.kind = "open" /\ t.text = <<"(">>
      BY <3>1
    <3>2. CASE t.kind = "close" /\ t.text = <<")">>
      BY <3>2
    <3> QED  BY <2>1, <3>1, <3>2
  <2> QED  BY <1>4, <1>6, <2>2
<1>8. ASSUME t.kind \notin {"open", "close"}
      PROVE  ScanTo(s, place[k] + 1, e, n)
  <2>1. e = d /\ n = m
    <3>1. e = d
      BY <1>3, <1>8
    <3>2. Height(tokens, k - 1) <= m
      <4>1. k - 1 \in 0 .. k - 1
        BY <1>1
      <4> QED  BY <4>1 DEF Peak
    <3> QED  BY <1>1, <1>3, <3>1, <3>2 DEF d
  <2>2. ScanTo(s, place[k] + 1, d, m)
    BY <1>1, <1>3, <1>6, <1>8, TokenPasses DEF t
  <2> QED  BY <2>1, <2>2
<1>. HIDE DEF i
<1>9. ASSUME t.kind = "open"
      PROVE  ScanTo(s, place[k] + 1, e, n)
  <2>1. e = d + 1 /\ n \in Nat /\ s[i] = "(" /\ i \in Nat /\ i + 1 > i /\ i \in DOMAIN s
    BY <1>1, <1>3, <1>4, <1>6, <1>7, <1>9
  <2>2. Scanned(i, d, m) \in ScanState
    BY <1>1, <1>3, <2>1, ScannedAt
  <2>3. ScanTurn(s)[Scanned(i, d, m)]
          = [at |-> i + 1, depth |-> d + 1, deepest |-> IF d + 1 > m THEN d + 1 ELSE m]
    BY <2>1, <2>2 DEF ScanTurn, ScanState, Scanned
  <2>4. ScanTurn(s)[Scanned(i, d, m)] = Scanned(i + 1, e, n)
    BY <2>1, <2>3 DEF Scanned
  <2>. HIDE DEF n
  <2>5. ScanTo(s, i + 1, e, n)
    BY <1>1, <1>3, <1>4, <1>6, <2>1, <2>4, ScanStep, SMTT(30)
  <2> QED  BY <1>7, <1>9, <2>5
<1>10. ASSUME t.kind = "close"
       PROVE  ScanTo(s, place[k] + 1, e, n)
  <2>1. e = d - 1 /\ d # 0 /\ s[i] = ")" /\ i \in Nat /\ i + 1 > i /\ i \in DOMAIN s
    BY <1>1, <1>3, <1>4, <1>6, <1>7, <1>10
  <2>2. Scanned(i, d, m) \in ScanState
    BY <1>1, <1>3, <2>1, ScannedAt
  <2>3. ScanTurn(s)[Scanned(i, d, m)] = [at |-> i + 1, depth |-> IF d = 0 THEN 0 ELSE d - 1, deepest |-> m]
    BY <2>1, <2>2 DEF ScanTurn, ScanState, Scanned
  <2>4. n = m
    <3>1. Height(tokens, k - 1) <= m
      <4>1. k - 1 \in 0 .. k - 1
        BY <1>1
      <4> QED  BY <4>1 DEF Peak
    <3> QED  BY <1>1, <1>3, <2>1, <3>1 DEF d
  <2>5. ScanTurn(s)[Scanned(i, d, m)] = Scanned(i + 1, e, m)
    BY <2>1, <2>3 DEF Scanned
  <2>6. ScanTo(s, i + 1, e, m)
    BY <1>1, <1>3, <1>4, <1>6, <2>1, <2>5, ScanStep, SMTT(30)
  <2> QED  BY <1>7, <1>10, <2>4, <2>6
<1>11. ScanTo(s, place[k] + 1, e, n)
  BY <1>8, <1>9, <1>10
<1>. HIDE DEF n
<1> QED  BY <1>5, <1>11 DEF e

\* The guard's depth is the depth of the text's brackets.
LEMMA DepthIsExact ==
  ASSUME NEW tokens \in Seq(Token), Lexed(tokens), Balanced(tokens)
  PROVE  MaxDelimiterDepth(Source(tokens)) = Nests(tokens) /\ Nests(tokens) \in Nat
<1>. DEFINE s == Source(tokens)
            n == Len(tokens)
            start == Scanned(1, 0, 0)
<1>1. s \in Seq(Char) /\ \E place : LaidOut(place, tokens, s)
  BY SourceIs
<1>2. PICK place : LaidOut(place, tokens, s)
  BY <1>1
<1>. HIDE DEF s
<1>3. Written(place, tokens, s) /\ n \in Nat /\ Len(s) \in Nat /\ place[0] = 0 /\ place[n] = Len(s)
  BY <1>1, <1>2 DEF Written, LaidOut
<1>4. start \in ScanState /\ ScanTurn(s) \in [ScanState -> ScanState] /\ start.at = 1
  <2>1. 1 \in Nat /\ 0 \in Nat
    OBVIOUS
  <2> QED  BY <1>1, <2>1, ScannedAt, ScanTurnIsTyped
<1>. DEFINE Done(k) == \E m : Peak(tokens, k, m) /\ ScanTo(s, place[k] + 1, Height(tokens, k), m)
            T == {k \in 0 .. n : Done(k)}
<1>5. Done(0)
  <2>1. Height(tokens, 0) = 0
    BY HeightStep
  <2>2. Peak(tokens, 0, 0)
    BY <2>1 DEF Peak
  <2>3. Turns(ScanTurn(s), start, 0) = start
    <3>1. 0 \in Nat
      OBVIOUS
    <3> QED  BY <1>4, <3>1, TurnsAre
  <2>4. 0 \in Nat /\ 0 <= 1 - 1 /\ place[0] + 1 = 1
    BY <1>3
  <2>5. ScanTo(s, 1, 0, 0)
    BY <1>4, <2>3, <2>4 DEF ScanTo, ComesTo
  <2> QED  BY <2>1, <2>2, <2>4, <2>5
<1>6. ASSUME NEW k \in 1 .. n, Done(k - 1) PROVE Done(k)
  <2>1. PICK m : Peak(tokens, k - 1, m) /\ ScanTo(s, place[k - 1] + 1, Height(tokens, k - 1), m)
    BY <1>6
  <2> QED  BY <1>3, <2>1, TokenScanned
<1>. HIDE DEF Done
<1>7. ASSUME NEW k \in 0 .. n, \A j \in 0 .. k - 1 : j \in T PROVE k \in T
  <2>1. CASE k = 0
    BY <1>5, <2>1
  <2>2. CASE k # 0
    <3>1. k - 1 \in 0 .. k - 1 /\ k \in 1 .. n
      BY <2>2
    <3> QED  BY <1>6, <1>7, <3>1
  <2> QED  BY <2>1, <2>2
<1>8. Done(n)
  <2>1. \A k \in 0 .. n : (\A j \in 0 .. k - 1 : j \in T) => k \in T
    BY <1>7
  <2>. HIDE DEF T, n
  <2>2. \A k \in 0 .. n : k \in T
    BY <1>3, <2>1, UpTo
  <2>3. n \in 0 .. n
    BY <1>3
  <2> QED  BY <2>2, <2>3 DEF T
<1>9. PICK m : Peak(tokens, n, m) /\ ScanTo(s, Len(s) + 1, Height(tokens, n), m)
  BY <1>3, <1>8 DEF Done
<1>10. Nests(tokens) = m /\ m \in Nat
  <2>. DEFINE S == {Height(tokens, j) : j \in 0 .. n}
  <2>1. m \in S /\ m \in Nat /\ \A h \in S : h <= m
    BY <1>9 DEF Peak
  <2>2. \A h \in S : h \in Nat
    BY HeightStep
  <2>3. Nests(tokens) = Max(S)
    BY DEF Nests
  <2>. HIDE DEF S
  <2>4. Max(S) \in S /\ \A h \in S : Max(S) >= h
    BY <2>1, <2>2 DEF Max
  <2>5. Max(S) <= m /\ Max(S) >= m /\ Max(S) \in Nat
    BY <2>1, <2>2, <2>4
  <2> QED  BY <2>1, <2>3, <2>5
<1>11. MaxDelimiterDepth(s) = m
  <2>. DEFINE h == Height(tokens, n)
              e == Scanned(Len(s) + 1, h, m)
  <2>1. h \in Nat
    <3>1. n \in 0 .. n
      BY <1>3
    <3> QED  BY <3>1, HeightStep
  <2>. HIDE DEF h
  <2>2. e \in ScanState /\ e.at = Len(s) + 1
    <3>1. Len(s) + 1 \in Nat
      BY <1>3
    <3> QED  BY <1>10, <2>1, <3>1, ScannedAt
  <2>3. ScanTurn(s)[e] = e
    <3>1. e.at \notin DOMAIN s
      BY <1>1, <1>3, <2>2
    <3>. HIDE DEF e
    <3> QED  BY <2>2, <3>1 DEF ScanTurn, ScanState
  <2>4. ComesTo(ScanTurn(s), start, 1, e)
    BY <1>9 DEF ScanTo, h
  <2>. HIDE DEF e
  <2>5. 1 \in Nat /\ e.at \in Nat /\ e.at <= Len(s) + 1
    BY <1>3, <2>2
  <2>6. Turns(ScanTurn(s), start, Len(s)) = e
    <3>. HIDE DEF start
    <3> QED  BY <1>3, <1>4, <2>3, <2>4, <2>5, LastTurn
  <2>7. e.deepest = m
    BY DEF e, Scanned
  <2> QED  BY <2>6, <2>7 DEF MaxDelimiterDepth, Scanned
<1> QED  BY <1>10, <1>11 DEF s

----------------------------------------------------------------------------
(***************************************************************************)
(* The guard in front of the parser, file by file.                         *)
(***************************************************************************)
AllLexed == \A n \in DOMAIN input.files : Lexed(input.files[n].tokens)

\* A file of lexed tokens gets past the guard and the parser exactly if it is well formed, and
\* then the stack takes it.
LEMMA ParsesWellFormed ==
  ASSUME NEW file \in SourceFile, Lexed(file.tokens)
  PROVE  (Parses(file) <=> WellFormed(file)) /\ ~Overflows(file)
<1>. DEFINE depth == Nests(file.tokens)
<1>1. file.tokens \in Seq(Token)
  BY DEF SourceFile
<1>2. CASE ~Balanced(file.tokens)
  BY <1>2 DEF Parses, WellFormed, Overflows
<1>3. CASE Balanced(file.tokens)
  <2>1. MaxDelimiterDepth(Source(file.tokens)) = depth /\ depth \in Nat
    BY <1>1, <1>3, DepthIsExact
  <2>2. Parses(file) <=> file.readable /\ ~(depth > MaxDepth)
    BY <1>3, <2>1 DEF Parses, Refused
  <2>3. WellFormed(file) <=> file.readable /\ depth <= MaxDepth
    BY <1>3 DEF WellFormed
  <2>4. Overflows(file) <=> Parses(file) /\ depth > StackDepth
    BY DEF Overflows
  <2>. HIDE DEF depth
  <2>5. ~(depth > MaxDepth) <=> depth <= MaxDepth
    BY <2>1, DepthAssumption
  <2>6. depth > StackDepth => depth > MaxDepth
    BY <2>1, DepthAssumption
  <2> QED  BY <2>2, <2>3, <2>4, <2>5, <2>6
<1> QED  BY <1>2, <1>3

\* The same of the files of the input.
LEMMA LexedFiles ==
  ASSUME TypeOK, AllLexed, NEW n \in DOMAIN input.files
  PROVE  (Parses(input.files[n]) <=> WellFormed(input.files[n])) /\ ~Overflows(input.files[n])
<1>1. input.files[n] \in SourceFile /\ Lexed(input.files[n].tokens)
  BY InputIsTyped DEF AllLexed
<1> QED  BY <1>1, ParsesWellFormed

\* No signal ends the process on a tree of lexed files.
SignalInv == AllLexed => status # 134

\* Only the first reading of the files could end the process by a signal.
LEMMA SignalStep == IInv /\ SignalInv /\ [Next]_vars => SignalInv'
<1>1. SUFFICES ASSUME IInv, SignalInv, [Next]_vars, AllLexed' PROVE status' # 134
  BY DEF SignalInv
<1>2. input' = input
  BY <1>1 DEF vars, Next, RejectPath, SpawnFails, Spawn, Panic, Collect, SkipTestFile, SkipFile,
              CheckFile, CollectId, EndFile, EndFiles, Finish, Write, WriteFails, Return
<1>3. AllLexed
  BY <1>1, <1>2 DEF AllLexed
<1>4. status # 134
  BY <1>1, <1>3 DEF SignalInv
<1>5. CASE RejectPath \/ SpawnFails \/ Panic
  BY <1>5 DEF RejectPath, SpawnFails, Panic, Exit
<1>6. CASE Collect
  <2>1. ~\E n \in DOMAIN input.files : Overflows(input.files[n])
    BY <1>1, <1>3, LexedFiles DEF IInv
  <2> QED  BY <1>4, <1>6, <2>1 DEF Collect, Go
<1>7. CASE Spawn \/ SkipTestFile \/ SkipFile \/ CheckFile \/ CollectId \/ EndFile \/ EndFiles \/ Finish
  BY <1>4, <1>7 DEF Spawn, SkipTestFile, SkipFile, CheckFile, CollectId, EndFile, EndFiles, Finish, Go
<1>8. CASE Write \/ UNCHANGED vars
  BY <1>4, <1>8 DEF Write, vars
<1>9. CASE WriteFails \/ Return
  BY <1>9 DEF WriteFails, Return, Exit, ExitCode
<1> QED  BY <1>1, <1>5, <1>6, <1>7, <1>8, <1>9 DEF Next

(***************************************************************************)
(* For every tree of lexed files, every limit and every stack that takes   *)
(* it: the guard of src/parse.rs refuses exactly the texts whose brackets  *)
(* nest past the limit, whatever their comments, strings, characters and   *)
(* lifetimes hold, so a report skips exactly the files that are unreadable,*)
(* not balanced or too deep, and no signal ends the process.               *)
(***************************************************************************)
THEOREM GuardExact == Spec => []GuardIsExact
<1>1. Init => SignalInv
  BY NoneAssumption DEF Init, SignalInv
<1>2. IInv /\ SignalInv /\ [Next]_vars => SignalInv'
  BY SignalStep
<1>3. IInv /\ TellInv /\ SignalInv => GuardIsExact
  <2>1. SUFFICES ASSUME IInv, TellInv, SignalInv, AllLexed
                 PROVE  /\ status # 134
                        /\ Reported => Range(report.skipped)
                             = {input.files[n].name : n \in {k \in Shipped : ~WellFormed(input.files[k])}}
    BY DEF GuardIsExact, AllLexed, Range
  <2>2. status # 134
    BY <2>1 DEF SignalInv
  <2>3. ASSUME Reported
        PROVE  Range(report.skipped) = {input.files[n].name : n \in {k \in Shipped : ~WellFormed(input.files[k])}}
    <3>1. Range(report.skipped) = SkippedBefore(Len(input.files) + 1)
      BY <2>1, <2>3 DEF TellInv, SkipInv
    <3>2. DOMAIN input.files = 1 .. Len(input.files) /\ Len(input.files) \in Nat
      BY <2>1, InputIsTyped DEF IInv
    <3>3. \A k \in Shipped : k \in DOMAIN input.files
      BY DEF Shipped
    <3>4. \A k \in Shipped : Parses(input.files[k]) <=> WellFormed(input.files[k])
      BY <2>1, <3>3, LexedFiles DEF IInv
    <3>5. \A k \in Shipped : k < Len(input.files) + 1
      BY <3>2, <3>3
    <3>6. {j \in Shipped : j < Len(input.files) + 1 /\ ~Parses(input.files[j])}
            = {k \in Shipped : ~WellFormed(input.files[k])}
      BY <3>4, <3>5
    <3> QED  BY <3>1, <3>6 DEF SkippedBefore
  <2> QED  BY <2>2, <2>3
<1> QED  BY <1>1, <1>2, <1>3, Invariance, TellInvariance, PTL DEF Spec
=============================================================================
