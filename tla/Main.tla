-------------------------------- MODULE Main --------------------------------
(***************************************************************************)
(* The process, src/main.rs: the scan on a thread of its own, from reading *)
(* the files (src/parse.rs, src/programid.rs) to the sorted report, the    *)
(* report's way to standard output (src/report) and the exit status.       *)
(*                                                                         *)
(* Rules, scopes and edits are the matter of other modules: here a file    *)
(* comes with the findings its rules keep, and phase 2 with the late ones. *)
(***************************************************************************)
EXTENDS Nesting, Base58

CONSTANTS
  None,
  MaxDepth,    \* MAX_DELIMITER_DEPTH
  StackDepth,  \* brackets that the parser can descend on the scan thread's stack
  File,        \* names of files, as numbers in their order
  Rule,        \* the numbers of the rules
  Line,
  Inputs       \* command lines, with the trees they are run on

Severity == {"low", "medium", "high"}
Rank == [low |-> 1, medium |-> 2, high |-> 3]
Format == {"human", "json", "sarif"}

Finding == [rule : Rule, severity : Severity, file : File, line : Line]

\* An item of a file: the modules and functions around it, and what it is if it is a macro.
Declaration == [within : Seq({"mod", "fn"}), macro : {"declare_id", "other"}, literal : BOOLEAN,
                text : Seq(0 .. Radix)]

SourceFile == [name : File, test : BOOLEAN, readable : BOOLEAN, tokens : Seq(Token),
               items : Seq(Declaration), findings : Seq(Finding)]

Input == [exists : BOOLEAN, failOn : Severity \cup {"never"}, format : Format, mainnet : BOOLEAN,
          rpcUrl : BOOLEAN, files : Seq(SourceFile), late : Seq(Finding)]

\* What a cluster says of an id: in short, and who may upgrade it.
Deployment == [address : Seq(0 .. Radix), state : {"live", "absent", "unavailable"}]

ScanReport == [scanned : Nat, tests : Nat, findings : Seq(Finding), skipped : Seq(File),
               ids : Seq(Seq(0 .. Radix)), deployments : Seq(Deployment),
               live : Seq(SUBSET Seq(0 .. Radix))]

ASSUME NoneAssumption == None \notin {0, 1, 2, 134} /\ None \notin {"done", "pipe", "write"}
ASSUME InputAssumption == Inputs \subseteq Input
ASSUME DepthAssumption == MaxDepth \in Nat /\ StackDepth \in Nat /\ MaxDepth <= StackDepth
ASSUME NumberAssumption == File \subseteq Nat /\ Rule \subseteq Nat /\ Line \subseteq Nat

VARIABLES
  input,       \* the command line and the tree
  pc,          \* "start", "m3", "files", "ids", "sort", "render", "exited"
  at,          \* the next file
  item,        \* the next item of a file in "ids"
  report,      \* the ScanReport
  written,     \* items of the document handed to stdout
  flushed,     \* those of them that have left its buffer
  status,      \* the exit status, None while the process runs
  reason       \* why it has it

scanning == <<at, item, report>>
output == <<written, flushed>>
vars == <<input, pc, scanning, output, status, reason>>

NoReport == [scanned |-> 0, tests |-> 0, findings |-> <<>>, skipped |-> <<>>, ids |-> <<>>,
             deployments |-> <<>>, live |-> <<>>]

Init ==
  /\ input \in Inputs
  /\ pc = "start"
  /\ at = 1
  /\ item = 1
  /\ report = NoReport
  /\ written = 0
  /\ flushed = 0
  /\ status = None
  /\ reason = None

Exit(code, why) == pc' = "exited" /\ status' = code /\ reason' = why

Go(step) == pc' = step /\ UNCHANGED <<status, reason>>

----------------------------------------------------------------------------
RejectPath ==
  /\ pc = "start"
  /\ ~input.exists
  /\ Exit(2, "path")
  /\ UNCHANGED <<input, scanning, output>>

\* The stack of 64 MiB may be more than there is.
SpawnFails ==
  /\ pc = "start"
  /\ input.exists
  /\ Exit(2, "spawn")
  /\ UNCHANGED <<input, scanning, output>>

Spawn ==
  /\ pc = "start"
  /\ input.exists
  /\ Go("m3")
  /\ UNCHANGED <<input, scanning, output>>

\* join returns the panic of the thread.
Panic ==
  /\ pc \in {"m3", "files", "ids", "sort"}
  /\ Exit(2, "panic")
  /\ UNCHANGED <<input, scanning, output>>

----------------------------------------------------------------------------
(***************************************************************************)
(* parse_source: the guard, then the parser, which takes balanced texts    *)
(* and overflows its stack on one that nests too deeply.                   *)
(***************************************************************************)
Refused(file) == MaxDelimiterDepth(Source(file.tokens)) > MaxDepth

Parses(file) == file.readable /\ ~Refused(file) /\ Balanced(file.tokens)

Overflows(file) == Parses(file) /\ Nests(file.tokens) > StackDepth

\* The search for #[cfg(test)] mod declarations parses every file, test code
\* too.  An overflow of the stack cannot be caught: SIGABRT.
Collect ==
  /\ pc = "m3"
  /\ IF \E n \in DOMAIN input.files : Overflows(input.files[n]) THEN Exit(134, "signal") ELSE Go("files")
  /\ UNCHANGED <<input, scanning, output>>

More == at <= Len(input.files)

SkipTestFile ==
  /\ pc = "files" /\ More
  /\ input.files[at].test
  /\ report' = [report EXCEPT !.tests = @ + 1]
  /\ at' = at + 1
  /\ UNCHANGED <<input, pc, item, output, status, reason>>

SkipFile ==
  /\ pc = "files" /\ More
  /\ ~input.files[at].test
  /\ ~Parses(input.files[at])
  /\ report' = [report EXCEPT !.skipped = Append(@, input.files[at].name)]
  /\ at' = at + 1
  /\ UNCHANGED <<input, pc, item, output, status, reason>>

CheckFile ==
  /\ pc = "files" /\ More
  /\ ~input.files[at].test
  /\ Parses(input.files[at])
  /\ report' = [report EXCEPT !.scanned = @ + 1, !.findings = @ \o input.files[at].findings]
  /\ item' = 1
  /\ Go("ids")
  /\ UNCHANGED <<input, at, output>>

\* programid::walk: inline modules are entered, the path's last segment counts.
Collected(d) == (\A i \in DOMAIN d.within : d.within[i] = "mod") /\ d.macro = "declare_id" /\ d.literal
                /\ IsAddress(d.text)

\* One item of the file; an address is kept where it is met first.
CollectId ==
  /\ pc = "ids"
  /\ item <= Len(input.files[at].items)
  /\ LET d == input.files[at].items[item]
     IN  report' = IF Collected(d) /\ \A i \in DOMAIN report.ids : report.ids[i] # d.text
                   THEN [report EXCEPT !.ids = Append(@, d.text)]
                   ELSE report
  /\ item' = item + 1
  /\ UNCHANGED <<input, pc, at, output, status, reason>>

\* Mutant of EndFile: the file after it is passed over.
EndTwoFiles ==
  /\ pc = "ids"
  /\ item > Len(input.files[at].items)
  /\ at' = at + 2
  /\ Go("files")
  /\ UNCHANGED <<input, item, report, output>>

EndFile ==
  /\ pc = "ids"
  /\ item > Len(input.files[at].items)
  /\ at' = at + 1
  /\ Go("files")
  /\ UNCHANGED <<input, item, report, output>>

EndFiles ==
  /\ pc = "files" /\ ~More
  /\ report' = [report EXCEPT !.findings = @ \o input.late]
  /\ Go("sort")
  /\ UNCHANGED <<input, at, item, output>>

----------------------------------------------------------------------------
\* sort_by: the most severe first, then by place and rule.
Compare(x, y) ==
  IF x.severity # y.severity THEN Rank[x.severity] > Rank[y.severity]
  ELSE IF x.file # y.file THEN x.file < y.file
  ELSE IF x.line # y.line THEN x.line < y.line
  ELSE x.rule < y.rule

\* The orders a stable sort may give: there is one.
Sortings(found) ==
  { p \in [DOMAIN found -> DOMAIN found] :
      /\ \A k \in DOMAIN found : \E i \in DOMAIN found : p[i] = k
      /\ \A i, j \in DOMAIN found : i < j =>
           \/ Compare(found[p[i]], found[p[j]])
           \/ ~Compare(found[p[j]], found[p[i]]) /\ p[i] < p[j] }

\* An explicit endpoint implies the lookup.
Endpoint == input.rpcUrl \/ input.mainnet

(***************************************************************************)
(* The end of scan: the order of the findings, the lookup, whose answers   *)
(* are anything (see OnChain), and the marks (see Join), which name live   *)
(* ids alone.                                                              *)
(***************************************************************************)
Finish ==
  /\ pc = "sort"
  /\ LET found == report.findings
         asked == IF Endpoint THEN report.ids ELSE <<>>
     IN  \E p \in Sortings(found), states \in [DOMAIN asked -> {"live", "absent", "unavailable"}] :
         \E live \in [DOMAIN found -> SUBSET {asked[i] : i \in {j \in DOMAIN asked : states[j] = "live"}}] :
           report' = [report EXCEPT
                        !.findings = [i \in DOMAIN found |-> found[p[i]]],
                        !.deployments = [i \in DOMAIN asked |-> [address |-> asked[i], state |-> states[i]]],
                        !.live = live]
  /\ Go("render")
  /\ UNCHANGED <<input, at, item, output>>

----------------------------------------------------------------------------
(***************************************************************************)
(* The documents.  What is one item here is one or more writes; the text   *)
(* of an item is abstracted to what it names.                              *)
(***************************************************************************)
Item(what, of) == [what |-> what, of |-> of]
Each(what, all) == [i \in DOMAIN all |-> Item(what, all[i])]
When(chosen, part) == IF chosen THEN part ELSE <<>>

\* live_at of the human report names one address and counts the others.
LiveAt(r) == [i \in DOMAIN r.live |-> IF r.live[i] = {} THEN {} ELSE {CHOOSE a \in r.live[i] : TRUE}]

\* SARIF's level
Level == [high |-> "error", medium |-> "warning", low |-> "note"]

Findings(r, marks, grades) ==
  [i \in DOMAIN r.findings |->
     Item("finding", [rule |-> r.findings[i].rule, file |-> r.findings[i].file, line |-> r.findings[i].line,
                      grade |-> grades[r.findings[i].severity], live |-> marks[i]])]

Grades == [s \in Severity |-> s]

Count(r, severity) == Cardinality({i \in DOMAIN r.findings : r.findings[i].severity = severity})

\* Mutant of Human: a clean tree is told at once.
HumanAtOnce(r) ==
  <<Item("header", <<r.scanned, r.tests>>)>> \o Each("skipped", r.skipped)
    \o When(r.findings # <<>> /\ r.deployments # <<>>, <<Item("cluster", Len(r.deployments))>> \o Each("program", r.deployments))
    \o Findings(r, LiveAt(r), Grades)
    \o When(r.findings # <<>>, <<Item("counts", [s \in Severity |-> Count(r, s)])>>)

\* human::render, but for the last line.
Human(r) ==
  <<Item("header", <<r.scanned, r.tests>>)>> \o Each("skipped", r.skipped)
    \o When(r.deployments # <<>>, <<Item("cluster", Len(r.deployments))>> \o Each("program", r.deployments))
    \o Findings(r, LiveAt(r), Grades)
    \o When(r.findings # <<>>, <<Item("counts", [s \in Severity |-> Count(r, s)])>>)

\* json::render, but for the last line; keys are sorted.
Json(r) ==
  <<Item("open", "findings")>> \o Findings(r, r.live, Grades)
    \o When(r.deployments # <<>>, <<Item("cluster", Len(r.deployments))>> \o Each("program", r.deployments))
    \o Each("skipped", r.skipped) \o <<Item("close", None)>>

\* One descriptor for each rule that fired, in the order of the findings.
Sarif(r) ==
  <<Item("open", "invocations")>> \o Each("skipped", r.skipped) \o Findings(r, r.live, Level)
    \o <<Item("rules", {r.findings[i].rule : i \in DOMAIN r.findings}), Item("close", None)>>

Body(r) == CASE input.format = "human" -> Human(r)
             [] input.format = "json"  -> Json(r)
             [] input.format = "sarif" -> Sarif(r)

\* Mutant of Document: the last line is left open.
DocumentLeftOpen(r) == Body(r)

\* Every document ends with a line of its own, "no issues found" or an empty one.
Document(r) ==
  Append(Body(r), Item(IF input.format = "human" /\ r.findings = <<>> THEN "no issues" ELSE "newline", None))

\* Whether the text of an item ends with a newline; JSON puts them before its items.
EndsLine(i) == i.what = "newline" \/ (input.format = "human" /\ i.what # "counts")

\* Mutant of Write: an interruption of the last write starts the document over.
WriteAgain ==
  /\ pc = "render"
  /\ written < Len(Document(report))
  /\ written' = IF written + 1 = Len(Document(report)) THEN 0 ELSE written + 1
  /\ flushed' \in 0 .. written'
  /\ UNCHANGED <<input, pc, scanning, status, reason>>

(***************************************************************************)
(* Standard output buffers by lines: what ends a line goes out at once,    *)
(* with all before it, and anything else may wait.                         *)
(***************************************************************************)
Write ==
  /\ pc = "render"
  /\ written < Len(Document(report))
  /\ written' = written + 1
  /\ flushed' \in IF EndsLine(Document(report)[written']) THEN {written'} ELSE flushed .. written'
  /\ UNCHANGED <<input, pc, scanning, status, reason>>

\* A broken pipe is no error of the tool; the flush that follows fails unheard.
WriteFails ==
  /\ pc = "render"
  /\ written < Len(Document(report))
  /\ flushed' \in flushed .. written
  /\ \/ Exit(0, "pipe")
     \/ Exit(2, "write")
  /\ UNCHANGED <<input, scanning, written>>

\* exit_code
ExitCode(r) ==
  IF input.failOn # "never" /\ \E i \in DOMAIN r.findings : Rank[r.findings[i].severity] >= Rank[input.failOn]
  THEN 1 ELSE 0

\* Nobody hears of an error when the runtime flushes the rest.
Return ==
  /\ pc = "render"
  /\ written = Len(Document(report))
  /\ flushed' \in flushed .. written
  /\ Exit(ExitCode(report), "done")
  /\ UNCHANGED <<input, scanning, written>>

Next ==
  \/ RejectPath \/ SpawnFails \/ Spawn \/ Panic
  \/ Collect \/ SkipTestFile \/ SkipFile \/ CheckFile
  \/ CollectId \/ EndFile \/ EndFiles \/ Finish
  \/ Write \/ WriteFails \/ Return

\* The operating system runs whichever of the two threads can go on.
Spec == Init /\ [][Next]_vars /\ WF_vars(Next)

----------------------------------------------------------------------------
\* The scan came to its end and handed over a report.
Reported == pc = "render" \/ reason \in {"done", "pipe", "write"}

\* The type of every variable.
TypeOK ==
  /\ input \in Input
  /\ pc \in {"start", "m3", "files", "ids", "sort", "render", "exited"}
  /\ at \in 1 .. Len(input.files) + 1
  /\ pc = "ids" => at <= Len(input.files) /\ item \in 1 .. Len(input.files[at].items) + 1
  /\ report \in ScanReport
  /\ Reported => DOMAIN report.live = DOMAIN report.findings /\ written \in 0 .. Len(Document(report))
  /\ ~Reported => written = 0
  /\ flushed \in 0 .. written
  /\ status \in {0, 1, 2, 134, None} /\ (status = None <=> pc # "exited")

\* What rustc would take, as far as brackets go, no deeper than the limit.
WellFormed(file) == file.readable /\ Balanced(file.tokens) /\ Nests(file.tokens) <= MaxDepth

Shipped == {n \in DOMAIN input.files : ~input.files[n].test}

(***************************************************************************)
(* The guard in front of the parser counts what the parser descends into,  *)
(* no more and no less: a file is skipped exactly if it is unreadable, not *)
(* balanced or nested past the limit, whatever its comments, strings,      *)
(* character literals and lifetimes hold, and nothing the stack cannot     *)
(* take gets past it.                                                      *)
(***************************************************************************)
GuardIsExact ==
  (\A n \in DOMAIN input.files : Lexed(input.files[n].tokens)) =>
    /\ status # 134
    /\ Reported => {report.skipped[i] : i \in DOMAIN report.skipped}
                     = {input.files[n].name : n \in {k \in Shipped : ~WellFormed(input.files[k])}}

(***************************************************************************)
(* "either skips the file or scans it, and exits with code 0 or 1, never   *)
(* with a signal", tests/robustness.rs.                                    *)
(***************************************************************************)
ProcessSurvives == status # 134

\* The reference of what a file declares: literals that spell an address.
Declares(file) ==
  {file.items[i].text : i \in {k \in DOMAIN file.items :
     /\ "fn" \notin Range(file.items[k].within)
     /\ file.items[k].macro = "declare_id" /\ file.items[k].literal
     /\ \E bytes \in Addresses : Spells(file.items[k].text, bytes)}}

(***************************************************************************)
(* The ids of a report are the declared literals that write an address of  *)
(* exactly the width of a key, leading zeros and carries included, each    *)
(* address once; and what is read off the chain is written back the way    *)
(* the source spells it.                                                   *)
(***************************************************************************)
IdsAreDecoded ==
  Reported =>
    /\ Range(report.ids) = UNION {Declares(input.files[n]) : n \in {k \in Shipped : Parses(input.files[k])}}
    /\ \A i, j \in DOMAIN report.ids :
         DecodeBase58(report.ids[i]) = DecodeBase58(report.ids[j]) => i = j
    /\ \A i \in DOMAIN report.ids : EncodeBase58(DecodeBase58(report.ids[i])) = report.ids[i]

----------------------------------------------------------------------------
\* The findings of the tree: a file and a position in its list, or a late one.
Kept == UNION { {n} \X (DOMAIN input.files[n].findings) : n \in {k \in Shipped : Parses(input.files[k])} }

Sources == {input.files[x[1]].findings[x[2]] : x \in Kept} \cup Range(input.late)

Severe(x) == input.failOn # "never" /\ Rank[x.severity] >= Rank[input.failOn]

(***************************************************************************)
(* The exit status says what happened: 1 if a finding of the tree reaches  *)
(* the threshold and 0 if none does, whatever the cluster answered, and    *)
(* only when standard output has taken the whole report; 0 also when the   *)
(* reader went away; and 2 for every error of the tool.                    *)
(***************************************************************************)
StatusIsHonest ==
  pc = "exited" =>
    \/ /\ reason = "done"
       /\ flushed = Len(Document(report))
       /\ status = IF \E x \in Sources : Severe(x) THEN 1 ELSE 0
    \/ reason = "pipe" /\ status = 0
    \/ reason \in {"path", "spawn", "panic", "write"} /\ status = 2
    \/ reason = "signal" /\ status = 134

Told(what) == {i \in DOMAIN Document(report) : Document(report)[i].what = what}
Of(i) == Document(report)[i].of
Loudness == [high |-> 3, error |-> 3, medium |-> 2, warning |-> 2, low |-> 1, note |-> 1]

\* How often a finding is told.
Tellings(x) == {i \in Told("finding") : /\ Of(i).rule = x.rule /\ Of(i).file = x.file /\ Of(i).line = x.line
                                        /\ Loudness[Of(i).grade] = Rank[x.severity]}

Occurrences(x) == {y \in Kept : input.files[y[1]].findings[y[2]] = x}
                    \cup {<<0, i>> : i \in {j \in DOMAIN input.late : input.late[j] = x}}

(***************************************************************************)
(* Whatever the format, a report tells every finding as often as it was    *)
(* found, the most severe first, and every file that was skipped; every id *)
(* a finding is live at is spelled out, with its state, if the cluster was *)
(* asked, and nothing is said of the cluster if it was not.                *)
(***************************************************************************)
ReportIsComplete ==
  reason = "done" =>
    /\ \A x \in Sources : Cardinality(Tellings(x)) = Cardinality(Occurrences(x))
    /\ \A i \in Told("finding") : \E x \in Sources : i \in Tellings(x)
    /\ \A i, j \in Told("finding") : i < j => Loudness[Of(i).grade] >= Loudness[Of(j).grade]
    /\ {Of(i) : i \in Told("skipped")} = {input.files[n].name : n \in {k \in Shipped : ~Parses(input.files[k])}}
    /\ \A i \in Told("rules") : Of(i) = {Of(j).rule : j \in Told("finding")}
    /\ \A i \in Told("counts") : \A s \in Severity :
         Of(i)[s] = Cardinality({j \in Told("finding") : Of(j).grade = s})
    /\ Told("no issues") # {} => Sources = {}
    /\ Endpoint /\ input.format # "sarif" =>
         Range(report.ids) = {Of(i).address : i \in Told("program")}
    /\ \A i \in DOMAIN report.live : \A a \in report.live[i] :
         a \in (UNION {Of(j).live : j \in Told("finding")}) \cup {Of(j).address : j \in Told("program")}
    /\ ~Endpoint => /\ Told("cluster") = {} /\ Told("program") = {}
                    /\ \A i \in Told("finding") : Of(i).live = {}

\* The process ends, whatever it is given and wherever it fails.
Ends == <>(pc = "exited")
============================================================================
