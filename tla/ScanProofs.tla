----------------------------- MODULE ScanProofs -----------------------------
(***************************************************************************)
(* Proofs about Scan, for every tree, every order of the walk and any      *)
(* number of edits between any two reads.                                  *)
(***************************************************************************)
EXTENDS Scan, SequenceTheorems, FiniteSetTheorems, TLAPS

IndexEntry == [path : File, facts : {c.facts : c \in Content}]

Indexed == {index[n].path : n \in DOMAIN index}

\* The files that phase 1 has dealt with.
Passed ==
  {files[k] : k \in {i \in DOMAIN files : (phase = "local" => i < at) /\ phase \notin {"walk", "m3"}}}

(***************************************************************************)
(* The books of phase 1: what the walk lists it lists once, every file     *)
(* that was dealt with is in one of the counts, and no file is both        *)
(* skipped and indexed.                                                    *)
(***************************************************************************)
WalkInv ==
  /\ at >= 1
  /\ \A i, j \in DOMAIN files : files[i] = files[j] => i = j
  /\ phase = "walk" => \A i \in DOMAIN files : \E k \in DOMAIN Order : k < at /\ files[i] = Order[k]

Counted == counts.scanned + counts.tests + Len(skipped)

CountInv ==
  /\ phase \in {"walk", "m3"} => Counted = 0
  /\ phase = "local" => at <= Len(files) + 1 /\ Counted = at - 1
  /\ phase \in {"manifests", "linked", "done"} => Counted = Len(files)
  /\ counts.scanned = Len(index)

PassedInv ==
  /\ Skipped \subseteq Passed /\ Indexed \subseteq Passed
  /\ Skipped \cap Indexed = {}
  /\ \A i \in DOMAIN linked : linked[i] \in Indexed
  /\ \A x \in findings : x.file \in File => x.file \in Indexed

(***************************************************************************)
(* What is carried from one read to another was on the disk once, and what *)
(* is being judged belongs to the file that phase 2 is at.                 *)
(***************************************************************************)
HistoryInv ==
  /\ \A f \in File : disk[f] \in seen[f]
  /\ \A f \in File : cache[f] # None => cache[f] \in seen[f]
  /\ \A n \in DOMAIN index : \E c \in seen[index[n].path] \cap Content : index[n].facts = c.facts

JudgingInv ==
  /\ current = None => structs = {}
  /\ current # None =>
       /\ phase = "linked" /\ at <= Len(linked)
       /\ current \in seen[linked[at]]
       /\ \A s \in structs : s \in current.accounts /\ s.candidate

HitsInv ==
  sites # None =>
    \A h \in sites.hits :
      /\ h \in Hits(linked[at], sites.struct.name)
      /\ cache[index[h.file].path] # None
      /\ h.ordinal \in DOMAIN cache[index[h.file].path].bodies

IInv == /\ TypeOK /\ WalkInv /\ CountInv /\ PassedInv
        /\ HistoryInv /\ JudgingInv /\ HitsInv /\ FindingsAreExplained

----------------------------------------------------------------------------
LEMMA ElementsOfLists ==
  ASSUME TypeOK
  PROVE  /\ Len(files) \in Nat /\ DOMAIN files = 1 .. Len(files) /\ \A i \in 1 .. Len(files) : files[i] \in File
         /\ Len(linked) \in Nat /\ DOMAIN linked = 1 .. Len(linked) /\ \A i \in 1 .. Len(linked) : linked[i] \in File
         /\ Len(skipped) \in Nat /\ DOMAIN skipped = 1 .. Len(skipped) /\ \A i \in 1 .. Len(skipped) : skipped[i] \in File
         /\ Len(index) \in Nat /\ DOMAIN index = 1 .. Len(index) /\ \A i \in 1 .. Len(index) : index[i] \in IndexEntry
         /\ Len(Order) \in Nat /\ DOMAIN Order = 1 .. Len(Order) /\ \A i \in 1 .. Len(Order) : Order[i] \in File
<1>1. /\ files \in Seq(File) /\ linked \in Seq(File) /\ skipped \in Seq(File)
      /\ index \in Seq(IndexEntry) /\ Order \in Seq(File)
  BY TreeAssumption DEF TypeOK, IndexEntry
<1>. QED BY <1>1, LenProperties, ElementOfSeq

LEMMA InitCorrect == Init => IInv
<1>. SUFFICES ASSUME Init PROVE IInv
  OBVIOUS
<1>1. TypeOK
  BY BoundAssumption, EmptySeq DEF Init, TypeOK
<1>2. Len(<<>>) = 0 /\ DOMAIN <<>> = {}
  BY EmptySeq
<1>3. WalkInv /\ CountInv /\ PassedInv
  BY <1>2 DEF Init, WalkInv, CountInv, Counted, PassedInv, Skipped, Indexed
<1>4. HistoryInv
  <2>1. \A f \in File : seen[f] = {disk[f]}
    BY DEF Init
  <2>. QED BY <1>2, <2>1 DEF Init, HistoryInv
<1>5. JudgingInv /\ HitsInv /\ FindingsAreExplained
  BY DEF Init, JudgingInv, HitsInv, FindingsAreExplained
<1>. QED BY <1>1, <1>3, <1>4, <1>5 DEF IInv

\* What explains a finding is never forgotten.
LEMMA ExplanationsStay ==
  ASSUME \A f \in File : seen[f] \subseteq seen'[f],
         FindingsAreExplained, UNCHANGED findings
  PROVE  FindingsAreExplained'
<1>. SUFFICES ASSUME NEW x \in findings, x.file \in File PROVE Explained(x)'
  BY DEF FindingsAreExplained
<1>1. Explained(x)
  BY DEF FindingsAreExplained
<1>2. PICK c \in seen[x.file] \cap Content :
        \/ x \in Kept(x.file, c)
        \/ \E s \in c.accounts :
             /\ s.candidate /\ s.line \notin c.hidden /\ x = Vl001(x.file, s)
             /\ \E g \in File : \E old, new \in seen[g] \cap Content : \E mode \in Mode :
                  /\ CrateOf[g] = CrateOf[x.file]
                  /\ \E i \in DOMAIN old.facts \cap DOMAIN new.bodies :
                       Addresses(old.facts[i], s.name, mode) /\ mode \in new.bodies[i].key
  BY <1>1 DEF Explained
<1>3. c \in seen'[x.file] \cap Content
  OBVIOUS
<1>4. \A g \in File : seen[g] \cap Content \subseteq seen'[g] \cap Content
  OBVIOUS
<1>. QED BY <1>2, <1>3, <1>4, Zenon DEF Explained

\* Someone else's change of a file leaves the scan's books alone and loses no history.
LEMMA EditPreserves ==
  ASSUME IInv, NEW f \in File, Edit(f)
  PROVE  IInv'
<1>. USE DEF IInv
<1>1. PICK c \in OnDisk : disk' = [disk EXCEPT ![f] = c] /\ seen' = [seen EXCEPT ![f] = @ \cup {c}]
  BY DEF Edit
<1>2. /\ edits' = edits + 1 /\ edits < MaxEdits
      /\ UNCHANGED <<phase, files, at, m3, counts, skipped, roots, index, linked,
                     cache, current, structs, sites, findings>>
  BY DEF Edit, found, judging
<1>3. \A g \in File : seen[g] \subseteq seen'[g]
  BY <1>1 DEF TypeOK
<1>4. TypeOK'
  BY <1>1, <1>2, BoundAssumption DEF TypeOK
<1>5. WalkInv' /\ CountInv' /\ PassedInv'
  <2>1. Passed' = Passed /\ Skipped' = Skipped /\ Indexed' = Indexed
    BY <1>2 DEF Passed, Skipped, Indexed
  <2>2. WalkInv'
    BY <1>2 DEF WalkInv
  <2>3. CountInv'
    BY <1>2 DEF CountInv, Counted
  <2>4. PassedInv'
    BY <1>2, <2>1 DEF PassedInv
  <2>. QED BY <2>2, <2>3, <2>4
<1>6. HistoryInv'
  <2>1. \A g \in File : disk'[g] \in seen'[g]
    BY <1>1 DEF TypeOK, HistoryInv
  <2>2. \A n \in DOMAIN index : index[n].path \in File
    BY ElementsOfLists DEF IndexEntry
  <2>. QED BY <1>2, <1>3, <2>1, <2>2 DEF HistoryInv
<1>7. JudgingInv' /\ HitsInv'
  <2>1. current # None => linked[at] \in File
    BY ElementsOfLists DEF JudgingInv, WalkInv, TypeOK
  <2>2. Hits(linked[at], sites.struct.name)' = Hits(linked[at], sites.struct.name)
    BY <1>2 DEF Hits, CrateFiles
  <2>3. JudgingInv'
    BY <1>2, <1>3, <2>1 DEF JudgingInv
  <2>4. HitsInv'
    BY <1>2, <2>2 DEF HitsInv
  <2>. QED BY <2>3, <2>4
<1>8. FindingsAreExplained'
  BY <1>2, <1>3, ExplanationsStay
<1>. QED BY <1>4, <1>5, <1>6, <1>7, <1>8

----------------------------------------------------------------------------
LEMMA WalkPreserves ==
  ASSUME IInv, Walk
  PROVE  IInv'
<1>. USE DEF IInv
<1>. DEFINE f == Order[at]
<1>1. /\ phase = "walk" /\ at \in 1 .. Len(Order) /\ at' = at + 1
      /\ files' = IF disk[f] # Gone THEN Append(files, f) ELSE files
      /\ UNCHANGED <<disk, edits, seen, phase, m3, counts, skipped, roots, index, linked,
                     cache, current, structs, sites, findings>>
  BY ElementsOfLists DEF Walk, found, judging, TypeOK, WalkInv
<1>2. f \in File
  BY <1>1, ElementsOfLists
<1>3. TypeOK'
  BY <1>1, <1>2 DEF TypeOK
<1>4. WalkInv'
  <2>1. CASE disk[f] = Gone
    BY <1>1, <2>1, ElementsOfLists DEF WalkInv
  <2>2. CASE disk[f] # Gone
    <3>1. /\ DOMAIN files' = 1 .. Len(files) + 1
          /\ \A i \in 1 .. Len(files) : files'[i] = files[i]
          /\ files'[Len(files) + 1] = f
      BY <1>1, <2>2, ElementsOfLists DEF TypeOK
    <3>2. ASSUME NEW i \in 1 .. Len(files)
          PROVE  files[i] # f
      <4>1. PICK k \in DOMAIN Order : k < at /\ files[i] = Order[k]
        BY <1>1, ElementsOfLists DEF WalkInv
      <4>2. at \in DOMAIN Order /\ k # at
        BY <1>1, <4>1, ElementsOfLists
      <4>. QED BY <4>1, <4>2, TreeAssumption
    <3>3. \A i \in DOMAIN files' : \E k \in DOMAIN Order : k < at + 1 /\ files'[i] = Order[k]
      BY <1>1, <3>1, ElementsOfLists DEF WalkInv
    <3>. QED BY <1>1, <3>1, <3>2, <3>3, ElementsOfLists DEF WalkInv
  <2>. QED BY <2>1, <2>2
<1>5. CountInv' /\ PassedInv'
  <2>1. Passed = {} /\ Passed' = {}
    BY <1>1 DEF Passed
  <2>. QED BY <1>1, <2>1 DEF CountInv, Counted, PassedInv, Skipped, Indexed
<1>6. HistoryInv' /\ JudgingInv' /\ HitsInv'
  <2>1. current = None /\ sites = None
    BY <1>1 DEF JudgingInv, TypeOK
  <2>. QED BY <1>1, <2>1 DEF HistoryInv, JudgingInv, HitsInv
<1>7. FindingsAreExplained'
  BY <1>1, ExplanationsStay
<1>. QED BY <1>3, <1>4, <1>5, <1>6, <1>7

LEMMA CollectTestModsPreserves ==
  ASSUME IInv, CollectTestMods
  PROVE  IInv'
<1>. USE DEF IInv
<1>1. /\ phase = "m3" /\ at <= Len(files) /\ at' = at + 1
      /\ m3' = m3 \cup TestTargets(disk, disk[files[at]])
      /\ UNCHANGED <<disk, edits, seen, phase, files, counts, skipped, roots, index, linked,
                     cache, current, structs, sites, findings>>
  BY DEF CollectTestMods, found, judging
<1>2. TestTargets(disk, disk[files[at]]) \subseteq File
  BY ContentAssumption DEF TestTargets
<1>3. TypeOK'
  BY <1>1, <1>2 DEF TypeOK
<1>4. WalkInv' /\ CountInv' /\ PassedInv'
  <2>1. Passed = {} /\ Passed' = {}
    BY <1>1 DEF Passed
  <2>2. WalkInv'
    BY <1>1 DEF TypeOK, WalkInv
  <2>3. CountInv'
    BY <1>1 DEF CountInv, Counted
  <2>4. PassedInv'
    BY <1>1, <2>1 DEF PassedInv, Skipped, Indexed
  <2>. QED BY <2>2, <2>3, <2>4
<1>5. HistoryInv' /\ JudgingInv' /\ HitsInv'
  <2>1. current = None /\ sites = None
    BY <1>1 DEF JudgingInv, TypeOK
  <2>. QED BY <1>1, <2>1 DEF HistoryInv, JudgingInv, HitsInv
<1>6. FindingsAreExplained'
  BY <1>1, ExplanationsStay
<1>. QED BY <1>3, <1>4, <1>5, <1>6

LEMMA NextPhasePreserves ==
  ASSUME IInv, NextPhase
  PROVE  IInv'
<1>. USE DEF IInv
<1>1. /\ \/ phase = "walk" /\ at > Len(Order) /\ phase' = "m3"
         \/ phase = "m3" /\ at > Len(files) /\ phase' = "local"
         \/ phase = "local" /\ at > Len(files) /\ phase' = "manifests"
         \/ phase = "linked" /\ at > Len(linked) /\ phase' = "done"
      /\ at' = 1
      /\ UNCHANGED <<disk, edits, seen, files, m3, counts, skipped, roots, index, linked,
                     cache, current, structs, sites, findings>>
  BY DEF NextPhase, found, judging
<1>2. current = None /\ sites = None
  BY <1>1, ElementsOfLists DEF JudgingInv, TypeOK
<1>3. TypeOK'
  BY <1>1 DEF TypeOK
<1>4. WalkInv'
  BY <1>1 DEF WalkInv
<1>5. CountInv'
  <2>1. Counted' = Counted /\ Len(files) \in Nat /\ at \in Nat
    BY <1>1, ElementsOfLists DEF TypeOK, Counted
  <2>2. CASE phase = "walk" \/ phase = "m3"
    BY <1>1, <2>1, <2>2 DEF CountInv
  <2>3. CASE phase = "local"
    BY <1>1, <2>1, <2>3 DEF CountInv
  <2>4. CASE phase = "linked"
    BY <1>1, <2>1, <2>4 DEF CountInv
  <2>. QED BY <1>1, <2>2, <2>3, <2>4
<1>6. PassedInv'
  <2>1. Passed \subseteq Passed'
    <3>1. CASE phase \in {"walk", "m3"}
      BY <3>1 DEF Passed
    <3>2. CASE phase \in {"local", "linked"}
      BY <1>1, <3>2 DEF Passed
    <3>. QED BY <1>1, <3>1, <3>2
  <2>. QED BY <1>1, <2>1 DEF PassedInv, Skipped, Indexed
<1>7. HistoryInv' /\ JudgingInv' /\ HitsInv'
  BY <1>1, <1>2 DEF HistoryInv, JudgingInv, HitsInv
<1>8. FindingsAreExplained'
  BY <1>1, ExplanationsStay
<1>. QED BY <1>3, <1>4, <1>5, <1>6, <1>7, <1>8

----------------------------------------------------------------------------
LEMMA OneMore ==
  \A a, b, c \in Nat : /\ a + b + c \in Nat
                      /\ (a + 1) + b + c = (a + b + c) + 1
                      /\ a + (b + 1) + c = (a + b + c) + 1
                      /\ a + b + (c + 1) = (a + b + c) + 1
  OBVIOUS

\* Phase 1 deals with one file more.
LEMMA PassedGrows ==
  ASSUME TypeOK, WalkInv, phase = "local", at <= Len(files),
         at' = at + 1, UNCHANGED <<phase, files>>
  PROVE  /\ files[at] \in File /\ files[at] \notin Passed
         /\ Passed' = Passed \cup {files[at]}
<1>1. at \in 1 .. Len(files) /\ DOMAIN files = 1 .. Len(files) /\ Len(files) \in Nat
  BY ElementsOfLists DEF TypeOK, WalkInv
<1>2. Passed = {files[k] : k \in 1 .. at - 1}
  BY <1>1 DEF Passed
<1>3. Passed' = {files[k] : k \in 1 .. at}
  BY <1>1 DEF Passed
<1>4. files[at] \notin Passed
  <2>. SUFFICES ASSUME NEW k \in 1 .. at - 1, files[k] = files[at] PROVE FALSE
    BY <1>2
  <2>1. k \in DOMAIN files /\ at \in DOMAIN files /\ k # at
    BY <1>1
  <2>. QED BY <2>1 DEF WalkInv
<1>5. 1 .. at = (1 .. at - 1) \cup {at}
  BY <1>1
<1>6. Passed' = Passed \cup {files[at]}
  BY <1>2, <1>3, <1>5
<1>. QED BY <1>1, <1>4, <1>6, ElementsOfLists

LEMMA SkipTestFilePreserves ==
  ASSUME IInv, SkipTestFile
  PROVE  IInv'
<1>. USE DEF IInv
<1>1. /\ phase = "local" /\ at <= Len(files) /\ at' = at + 1
      /\ counts' = [counts EXCEPT !.tests = @ + 1]
      /\ UNCHANGED <<disk, edits, seen, phase, files, m3, skipped, roots, index, linked,
                     cache, current, structs, sites, findings>>
  BY DEF SkipTestFile, judging
<1>2. TypeOK'
  <2>1. counts' \in [scanned : Nat, tests : Nat]
    BY <1>1 DEF TypeOK
  <2>. QED BY <1>1, <2>1 DEF TypeOK
<1>3. WalkInv'
  BY <1>1 DEF TypeOK, WalkInv
<1>4. CountInv'
  <2>1. counts.scanned \in Nat /\ counts.tests \in Nat /\ Len(skipped) \in Nat /\ Len(files) \in Nat /\ at \in Nat
    BY ElementsOfLists DEF TypeOK
  <2>2. counts'.scanned = counts.scanned /\ counts'.tests = counts.tests + 1
    BY <1>1 DEF TypeOK
  <2>3. Counted' = Counted + 1 /\ Counted \in Nat
    <3>1. Counted' = counts'.scanned + counts'.tests + Len(skipped)'
      BY DEF Counted
    <3>2. Len(skipped)' = Len(skipped)
      BY <1>1
    <3>. QED BY <2>1, <2>2, <3>1, <3>2, OneMore DEF Counted
  <2>. QED BY <1>1, <2>1, <2>2, <2>3 DEF CountInv
<1>5. PassedInv'
  BY <1>1, PassedGrows DEF PassedInv, Skipped, Indexed
<1>6. HistoryInv' /\ JudgingInv' /\ HitsInv'
  <2>1. current = None /\ sites = None
    BY <1>1 DEF JudgingInv, TypeOK
  <2>. QED BY <1>1, <2>1 DEF HistoryInv, JudgingInv, HitsInv
<1>7. FindingsAreExplained'
  BY <1>1, ExplanationsStay
<1>. QED BY <1>2, <1>3, <1>4, <1>5, <1>6, <1>7

LEMMA SkipBrokenFilePreserves ==
  ASSUME IInv, SkipBrokenFile
  PROVE  IInv'
<1>. USE DEF IInv
<1>1. /\ phase = "local" /\ at <= Len(files) /\ at' = at + 1
      /\ skipped' = Append(skipped, files[at])
      /\ UNCHANGED <<disk, edits, seen, phase, files, m3, counts, roots, index, linked,
                     cache, current, structs, sites, findings>>
  BY DEF SkipBrokenFile, judging
<1>2. files[at] \in File /\ files[at] \notin Passed /\ Passed' = Passed \cup {files[at]}
  BY <1>1, PassedGrows
<1>3. /\ Len(skipped) \in Nat /\ DOMAIN skipped = 1 .. Len(skipped)
      /\ Len(skipped') = Len(skipped) + 1 /\ DOMAIN skipped' = 1 .. Len(skipped) + 1
      /\ \A i \in 1 .. Len(skipped) : skipped'[i] = skipped[i]
      /\ skipped'[Len(skipped) + 1] = files[at]
  BY <1>1, <1>2, ElementsOfLists DEF TypeOK
<1>10. Skipped' = Skipped \cup {files[at]}
  BY <1>3 DEF Skipped
<1>4. TypeOK'
  BY <1>1, <1>2 DEF TypeOK
<1>5. WalkInv'
  BY <1>1 DEF TypeOK, WalkInv
<1>6. CountInv'
  <2>1. counts.scanned \in Nat /\ counts.tests \in Nat /\ Len(files) \in Nat /\ at \in Nat
    BY ElementsOfLists DEF TypeOK
  <2>2. Counted' = Counted + 1 /\ Counted \in Nat
    <3>1. Counted' = counts'.scanned + counts'.tests + Len(skipped')
      BY DEF Counted
    <3>2. counts' = counts
      BY <1>1
    <3>3. Counted' = counts.scanned + counts.tests + (Len(skipped) + 1)
      BY <1>3, <3>1, <3>2
    <3>4. Len(skipped) \in Nat
      BY <1>3
    <3>. QED BY <2>1, <3>3, <3>4, OneMore DEF Counted
  <2>. QED BY <1>1, <2>1, <2>2 DEF CountInv
<1>7. PassedInv'
  BY <1>1, <1>2, <1>10 DEF PassedInv, Indexed
<1>8. HistoryInv' /\ JudgingInv' /\ HitsInv'
  <2>1. current = None /\ sites = None
    BY <1>1 DEF JudgingInv, TypeOK
  <2>. QED BY <1>1, <2>1 DEF HistoryInv, JudgingInv, HitsInv
<1>9. FindingsAreExplained'
  BY <1>1, ExplanationsStay
<1>. QED BY <1>4, <1>5, <1>6, <1>7, <1>8, <1>9

LEMMA CheckFilePreserves ==
  ASSUME IInv, CheckFile
  PROVE  IInv'
<1>. USE DEF IInv
<1>. DEFINE f == files[at]  content == disk[f]
<1>1. /\ phase = "local" /\ at <= Len(files) /\ at' = at + 1 /\ content \in Content
      /\ counts' = [counts EXCEPT !.scanned = @ + 1]
      /\ findings' = findings \cup Kept(f, content)
      /\ linked' = IF content.accounts # {} THEN Append(linked, f) ELSE linked
      /\ index' = Append(index, [path |-> f, facts |-> content.facts])
      /\ UNCHANGED <<disk, edits, seen, phase, files, m3, skipped, cache, current, structs, sites>>
  BY DEF CheckFile, judging
<1>2. f \in File /\ f \notin Passed /\ Passed' = Passed \cup {f}
  BY <1>1, PassedGrows
<1>3. current = None /\ sites = None
  BY <1>1 DEF JudgingInv, TypeOK
<1>4. [path |-> f, facts |-> content.facts] \in IndexEntry
  BY <1>1, <1>2 DEF IndexEntry
<1>5. /\ Len(index) \in Nat /\ DOMAIN index = 1 .. Len(index)
      /\ Len(index') = Len(index) + 1 /\ DOMAIN index' = 1 .. Len(index) + 1
      /\ \A n \in 1 .. Len(index) : index'[n] = index[n]
      /\ index'[Len(index) + 1] = [path |-> f, facts |-> content.facts]
  BY <1>1, ElementsOfLists DEF TypeOK
<1>6. Indexed' = Indexed \cup {f}
  BY <1>5 DEF Indexed
<1>7. TypeOK'
  <2>1. index' \in Seq([path : File, facts : {c.facts : c \in Content}])
    BY <1>1, <1>4 DEF TypeOK, IndexEntry
  <2>2. counts' \in [scanned : Nat, tests : Nat]
    <3>1. counts \in [scanned : Nat, tests : Nat] /\ counts' = [counts EXCEPT !.scanned = @ + 1]
      BY <1>1 DEF TypeOK
    <3>. QED BY <3>1
  <2>3. linked' \in Seq(File)
    BY <1>1, <1>2 DEF TypeOK
  <2>. QED BY <1>1, <1>3, <2>1, <2>2, <2>3 DEF TypeOK
<1>8. WalkInv'
  BY <1>1 DEF TypeOK, WalkInv
<1>9. CountInv'
  <2>1. counts.scanned \in Nat /\ counts.tests \in Nat /\ Len(skipped) \in Nat /\ Len(files) \in Nat /\ at \in Nat
    BY ElementsOfLists DEF TypeOK
  <2>2. counts'.tests = counts.tests /\ counts'.scanned = counts.scanned + 1
    BY <1>1 DEF TypeOK
  <2>3. Counted' = Counted + 1 /\ Counted \in Nat
    <3>1. Counted' = counts'.scanned + counts'.tests + Len(skipped)'
      BY DEF Counted
    <3>2. Len(skipped)' = Len(skipped)
      BY <1>1
    <3>. QED BY <2>1, <2>2, <3>1, <3>2, OneMore DEF Counted
  <2>. QED BY <1>1, <1>5, <2>1, <2>2, <2>3 DEF CountInv
<1>10. PassedInv'
  <2>1. \A i \in DOMAIN linked' : linked'[i] \in Indexed'
    <3>1. CASE content.accounts = {}
      BY <1>1, <1>6, <3>1 DEF PassedInv
    <3>2. CASE content.accounts # {}
      <4>1. /\ Len(linked) \in Nat /\ DOMAIN linked = 1 .. Len(linked) /\ DOMAIN linked' = 1 .. Len(linked) + 1
            /\ \A i \in 1 .. Len(linked) : linked'[i] = linked[i]
            /\ linked'[Len(linked) + 1] = f
        BY <1>1, <1>2, <3>2, ElementsOfLists DEF TypeOK
      <4>. QED BY <1>6, <4>1 DEF PassedInv
    <3>. QED BY <3>1, <3>2
  <2>2. \A x \in findings' : x.file \in File => x.file \in Indexed'
    BY <1>1, <1>6 DEF PassedInv, Kept
  <2>3. Skipped' = Skipped
    BY <1>1 DEF Skipped
  <2>. QED BY <1>2, <1>6, <2>1, <2>2, <2>3 DEF PassedInv
<1>11. HistoryInv'
  <2>1. content \in seen[f]
    BY <1>2 DEF HistoryInv
  <2>2. \A n \in DOMAIN index' : \E c \in seen[index'[n].path] \cap Content : index'[n].facts = c.facts
    BY <1>1, <1>5, <2>1 DEF HistoryInv
  <2>. QED BY <1>1, <2>2 DEF HistoryInv
<1>12. JudgingInv' /\ HitsInv'
  BY <1>1, <1>3 DEF JudgingInv, HitsInv
<1>13. FindingsAreExplained'
  <2>. SUFFICES ASSUME NEW x \in findings', x.file \in File PROVE Explained(x)'
    BY DEF FindingsAreExplained
  <2>1. CASE x \in findings
    <3>1. Explained(x)
      BY <2>1 DEF FindingsAreExplained
    <3>. QED BY <1>1, <3>1 DEF Explained
  <2>2. CASE x \in Kept(f, content)
    <3>1. x.file = f
      BY <2>2 DEF Kept
    <3>2. content \in seen[f] \cap Content
      BY <1>1, <1>2 DEF HistoryInv
    <3>. QED BY <1>1, <2>2, <3>1, <3>2 DEF Explained
  <2>. QED BY <1>1, <2>1, <2>2
<1>. QED BY <1>7, <1>8, <1>9, <1>10, <1>11, <1>12, <1>13

LEMMA ReportManifestsPreserves ==
  ASSUME IInv, ReportManifests
  PROVE  IInv'
<1>. USE DEF IInv
<1>1. /\ phase = "manifests" /\ phase' = "linked"
      /\ findings' = findings \cup {Manifest(r) : r \in roots.unchecked \cap roots.onchain \cap InScan}
      /\ UNCHANGED <<disk, edits, seen, files, at, m3, counts, skipped, roots, index, linked,
                     cache, current, structs, sites>>
  BY DEF ReportManifests, found, judging
<1>2. current = None /\ sites = None
  BY <1>1 DEF JudgingInv, TypeOK
<1>3. \A x \in findings' : x.file \in File => x \in findings
  BY <1>1, TreeAssumption DEF Manifest
<1>4. TypeOK' /\ WalkInv' /\ CountInv'
  BY <1>1 DEF TypeOK, WalkInv, CountInv, Counted
<1>5. PassedInv'
  <2>1. Passed' = Passed
    BY <1>1 DEF Passed
  <2>. QED BY <1>1, <1>3, <2>1 DEF PassedInv, Skipped, Indexed
<1>6. HistoryInv' /\ JudgingInv' /\ HitsInv'
  BY <1>1, <1>2 DEF HistoryInv, JudgingInv, HitsInv
<1>7. FindingsAreExplained'
  BY <1>1, <1>3 DEF FindingsAreExplained, Explained
<1>. QED BY <1>4, <1>5, <1>6, <1>7

----------------------------------------------------------------------------
(***************************************************************************)
(* Phase 2.                                                                *)
(***************************************************************************)
\* No step of phase 2 touches the files or the books of phase 1.
Later == UNCHANGED <<disk, edits, seen, phase, files, m3, counts, skipped, roots, index, linked>>

LEMMA BooksStay ==
  ASSUME IInv, Later, phase = "linked",
         \A x \in findings' : x.file \in File => x \in findings \/ x.file \in Indexed
  PROVE  CountInv' /\ PassedInv'
<1>1. Passed' = Passed /\ Skipped' = Skipped /\ Indexed' = Indexed /\ Counted' = Counted
  BY DEF Later, Passed, Skipped, Indexed, Counted
<1>. QED BY <1>1 DEF Later, IInv, CountInv, PassedInv

LEMMA ReparsePreserves ==
  ASSUME IInv, Reparse
  PROVE  IInv'
<1>. USE DEF IInv
<1>1. /\ phase = "linked" /\ current = None /\ at <= Len(linked)
      /\ disk[linked[at]] \in Content /\ current' = disk[linked[at]]
      /\ structs' = {s \in current'.accounts : s.candidate}
      /\ Later /\ UNCHANGED <<at, cache, sites, findings>>
  BY DEF Reparse, found, Later
<1>2. linked[at] \in File /\ sites = None /\ current' # None
  BY <1>1, ElementsOfLists, MarkerAssumption DEF TypeOK, WalkInv, JudgingInv
<1>3. TypeOK'
  BY <1>1, <1>2, ContentAssumption DEF TypeOK, Later
<1>4. WalkInv'
  BY <1>1 DEF WalkInv, Later
<1>5. CountInv' /\ PassedInv'
  BY <1>1, BooksStay
<1>6. HistoryInv' /\ JudgingInv' /\ HitsInv'
  BY <1>1, <1>2 DEF HistoryInv, JudgingInv, HitsInv, Later
<1>7. FindingsAreExplained'
  BY <1>1, ExplanationsStay DEF Later
<1>. QED BY <1>3, <1>4, <1>5, <1>6, <1>7

LEMMA DropFilePreserves ==
  ASSUME IInv, DropFile
  PROVE  IInv'
<1>. USE DEF IInv
<1>1. /\ phase = "linked" /\ current = None /\ at' = at + 1
      /\ Later /\ UNCHANGED <<cache, current, structs, sites, findings>>
  BY DEF DropFile, found, judging, Later
<1>2. sites = None
  BY <1>1 DEF TypeOK, JudgingInv
<1>3. TypeOK'
  BY <1>1 DEF TypeOK, Later
<1>4. WalkInv'
  BY <1>1 DEF TypeOK, WalkInv, Later
<1>5. CountInv' /\ PassedInv'
  BY <1>1, BooksStay
<1>6. HistoryInv' /\ JudgingInv' /\ HitsInv'
  BY <1>1, <1>2 DEF HistoryInv, JudgingInv, HitsInv, Later
<1>7. FindingsAreExplained'
  BY <1>1, ExplanationsStay DEF Later
<1>. QED BY <1>3, <1>4, <1>5, <1>6, <1>7

LEMMA EndFilePreserves ==
  ASSUME IInv, EndFile
  PROVE  IInv'
<1>. USE DEF IInv
<1>1. /\ current # None /\ structs = {} /\ current' = None /\ at' = at + 1
      /\ Later /\ UNCHANGED <<cache, structs, sites, findings>>
  BY DEF EndFile, found, Later
<1>2. phase = "linked" /\ sites = None
  BY <1>1 DEF TypeOK, JudgingInv
<1>3. TypeOK'
  BY <1>1 DEF TypeOK, Later
<1>4. WalkInv'
  BY <1>1, <1>2 DEF TypeOK, WalkInv, Later
<1>5. CountInv' /\ PassedInv'
  BY <1>1, <1>2, BooksStay
<1>6. HistoryInv' /\ JudgingInv' /\ HitsInv'
  BY <1>1, <1>2 DEF HistoryInv, JudgingInv, HitsInv, Later
<1>7. FindingsAreExplained'
  BY <1>1, ExplanationsStay DEF Later
<1>. QED BY <1>3, <1>4, <1>5, <1>6, <1>7

----------------------------------------------------------------------------
\* Reading more files into the cache: what it held it holds, and what is new is on the disk.
LEMMA LoadsAreReadings ==
  ASSUME TypeOK, HistoryInv, NEW STATE hits
  PROVE  /\ Load(hits) \in [File -> Content \cup {None}]
         /\ \A f \in File : cache[f] # None => Load(hits)[f] = cache[f]
         /\ \A f \in File : Load(hits)[f] # None => Load(hits)[f] \in seen[f]
<1>1. Load(hits) = [f \in File |-> IF cache[f] = None /\ (\E h \in hits : index[h.file].path = f) /\ disk[f] \in Content
                                   THEN disk[f] ELSE cache[f]]
  BY DEF Load
<1>. DEFINE asked(f) == \E h \in hits : index[h.file].path = f
<1>2. ASSUME NEW f \in File
      PROVE  /\ Load(hits)[f] \in Content \cup {None}
             /\ cache[f] # None => Load(hits)[f] = cache[f]
             /\ Load(hits)[f] # None => Load(hits)[f] \in seen[f]
  <2>. HIDE DEF asked
  <2>1. Load(hits)[f] = IF cache[f] = None /\ asked(f) /\ disk[f] \in Content THEN disk[f] ELSE cache[f]
    BY <1>1 DEF asked
  <2>2. CASE cache[f] = None /\ asked(f) /\ disk[f] \in Content
    BY <2>1, <2>2 DEF HistoryInv
  <2>3. CASE ~(cache[f] = None /\ asked(f) /\ disk[f] \in Content)
    BY <2>1, <2>3 DEF HistoryInv, TypeOK
  <2>. QED BY <2>2, <2>3
<1>. QED BY <1>1, <1>2

LEMMA UseSitesPreserves ==
  ASSUME IInv, NEW s \in structs, UseSites(s)
  PROVE  IInv'
<1>. USE DEF IInv
<1>. DEFINE hits == Hits(linked[at], s.name)
<1>1. /\ sites = None /\ cache' = Load(hits)
      /\ sites' = [struct |-> s, hits |-> Present(cache', hits)]
      /\ Later /\ UNCHANGED <<at, current, structs, findings>>
  BY DEF UseSites, found, Later
<1>. HIDE DEF hits
<1>2. current # None /\ phase = "linked"
  BY DEF JudgingInv
<1>3. /\ cache' \in [File -> Content \cup {None}]
      /\ \A f \in File : cache'[f] # None => cache'[f] \in seen[f]
  BY <1>1, LoadsAreReadings
<1>4. TypeOK'
  BY <1>1, <1>3 DEF TypeOK, Later
<1>5. WalkInv'
  BY <1>1 DEF WalkInv, Later
<1>6. CountInv' /\ PassedInv'
  BY <1>1, <1>2, BooksStay
<1>7. HistoryInv'
  BY <1>1, <1>3 DEF HistoryInv, Later
<1>8. JudgingInv'
  BY <1>1 DEF JudgingInv, Later
<1>9. HitsInv'
  <2>1. sites'.struct = s /\ sites'.hits = Present(cache', hits)
    BY <1>1
  <2>2. Hits(linked[at], s.name)' = hits
    BY <1>1 DEF Hits, CrateFiles, Later, hits
  <2>3. \A h \in Present(cache', hits) :
          /\ h \in hits /\ cache'[index[h.file].path] # None
          /\ h.ordinal \in DOMAIN cache'[index[h.file].path].bodies
    BY DEF Present
  <2>4. index' = index
    BY <1>1 DEF Later
  <2>. QED BY <2>1, <2>2, <2>3, <2>4 DEF HitsInv
<1>10. FindingsAreExplained'
  BY <1>1, ExplanationsStay DEF Later
<1>. QED BY <1>4, <1>5, <1>6, <1>7, <1>8, <1>9, <1>10

\* A use site that writes a key explains a finding about the struct being judged.
LEMMA WritersExplain ==
  ASSUME IInv, sites # None, sites.struct.line \notin current.hidden,
         NEW h \in sites.hits, h.mode \in BodyOf(h).key
  PROVE  Explained(Vl001(linked[at], sites.struct)) /\ linked[at] \in Indexed
<1>. USE DEF IInv
<1>. DEFINE s == sites.struct  x == Vl001(linked[at], s)  g == index[h.file].path
<1>1. /\ s \in structs /\ current # None /\ at \in 1 .. Len(linked) /\ linked[at] \in File
      /\ current \in seen[linked[at]] \cap Content /\ s \in current.accounts /\ s.candidate
  BY ElementsOfLists DEF TypeOK, JudgingInv, WalkInv
<1>2. x.file = linked[at]
  BY DEF Vl001
<1>3. /\ h \in Hits(linked[at], s.name) /\ cache[g] # None /\ h.ordinal \in DOMAIN cache[g].bodies
  BY DEF HitsInv
<1>4. /\ h.file \in DOMAIN index /\ CrateOf[g] = CrateOf[linked[at]] /\ h.mode \in Mode
      /\ h.ordinal \in DOMAIN index[h.file].facts
      /\ Addresses(index[h.file].facts[h.ordinal], s.name, h.mode)
  BY <1>3 DEF Hits, CrateFiles
<1>5. g \in File
  BY <1>4, ElementsOfLists DEF IndexEntry
<1>6. PICK old \in seen[g] \cap Content : index[h.file].facts = old.facts
  BY <1>4 DEF HistoryInv
<1>7. cache[g] \in seen[g] \cap Content
  BY <1>3, <1>5 DEF HistoryInv, TypeOK
<1>8. h.mode \in cache[g].bodies[h.ordinal].key
  BY DEF BodyOf
<1>9. \E i \in DOMAIN old.facts \cap DOMAIN cache[g].bodies :
        Addresses(old.facts[i], s.name, h.mode) /\ h.mode \in cache[g].bodies[i].key
  BY <1>3, <1>4, <1>6, <1>8
<1>. HIDE DEF s, x, g
<1>10. Explained(x)
  <2>1. s.line \notin current.hidden /\ x = Vl001(x.file, s)
    BY <1>2 DEF s, x
  <2>. QED BY <1>1, <1>2, <1>4, <1>5, <1>6, <1>7, <1>9, <2>1 DEF Explained
<1>11. linked[at] \in Indexed
  BY <1>1, ElementsOfLists DEF PassedInv
<1>. QED BY <1>10, <1>11 DEF x, s

LEMMA JudgePreserves ==
  ASSUME IInv, NEW callees \in SUBSET Ident, Judge(callees)
  PROVE  IInv'
<1>. USE DEF IInv
<1>. DEFINE s == sites.struct
            writesKey == \E h \in sites.hits : h.mode \in BodyOf(h).key
            asked == HitsNamed(linked[at], IF writesKey THEN callees ELSE {})
<1>1. /\ sites # None /\ sites' = None /\ cache' = Load(asked)
      /\ structs' = structs \ {s}
      /\ Later /\ UNCHANGED <<at, current>>
  BY DEF Judge, found, Later
<1>2. /\ findings \subseteq findings'
      /\ \A x \in findings' :
           x \in findings \/ (writesKey /\ s.line \notin current.hidden /\ x = Vl001(linked[at], s))
  BY DEF Judge
<1>. HIDE DEF asked
<1>3. s \in structs /\ current # None /\ phase = "linked"
  BY <1>1 DEF TypeOK, JudgingInv
<1>4. /\ cache' \in [File -> Content \cup {None}]
      /\ \A f \in File : cache'[f] # None => cache'[f] \in seen[f]
  BY <1>1, LoadsAreReadings
<1>5. \A x \in findings' : x \in findings \/ (Explained(x) /\ x.file \in Indexed)
  <2>. SUFFICES ASSUME NEW x \in findings', x \notin findings
                PROVE  Explained(x) /\ x.file \in Indexed
    OBVIOUS
  <2>1. writesKey /\ s.line \notin current.hidden /\ x = Vl001(linked[at], s)
    BY <1>2
  <2>2. Explained(Vl001(linked[at], s)) /\ linked[at] \in Indexed
    BY <1>1, <2>1, WritersExplain
  <2>3. x.file = linked[at]
    BY <2>1 DEF Vl001
  <2>. QED BY <2>1, <2>2, <2>3
<1>6. TypeOK'
  BY <1>1, <1>4 DEF TypeOK, Later
<1>7. WalkInv'
  BY <1>1 DEF WalkInv, Later
<1>8. CountInv' /\ PassedInv'
  BY <1>1, <1>3, <1>5, BooksStay
<1>9. HistoryInv'
  BY <1>1, <1>4 DEF HistoryInv, Later
<1>10. JudgingInv' /\ HitsInv'
  BY <1>1, <1>3 DEF JudgingInv, HitsInv, Later
<1>11. FindingsAreExplained'
  <2>. SUFFICES ASSUME NEW x \in findings', x.file \in File PROVE Explained(x)'
    BY DEF FindingsAreExplained
  <2>1. Explained(x)
    BY <1>5 DEF FindingsAreExplained
  <2>. QED BY <1>1, <2>1 DEF Explained, Later
<1>. QED BY <1>6, <1>7, <1>8, <1>9, <1>10, <1>11

----------------------------------------------------------------------------
LEMMA StepPreserves == IInv /\ [Next]_vars => IInv'
<1>. SUFFICES ASSUME IInv, [Next]_vars PROVE IInv'
  OBVIOUS
<1>1. CASE Walk
  BY <1>1, WalkPreserves
<1>2. CASE CollectTestMods
  BY <1>2, CollectTestModsPreserves
<1>3. CASE NextPhase
  BY <1>3, NextPhasePreserves
<1>4. CASE SkipTestFile
  BY <1>4, SkipTestFilePreserves
<1>5. CASE SkipBrokenFile
  BY <1>5, SkipBrokenFilePreserves
<1>6. CASE CheckFile
  BY <1>6, CheckFilePreserves
<1>7. CASE ReportManifests
  BY <1>7, ReportManifestsPreserves
<1>8. CASE Reparse
  BY <1>8, ReparsePreserves
<1>9. CASE DropFile
  BY <1>9, DropFilePreserves
<1>10. ASSUME NEW s \in structs, UseSites(s) PROVE IInv'
  BY <1>10, UseSitesPreserves
<1>11. ASSUME NEW callees \in SUBSET Ident, Judge(callees) PROVE IInv'
  BY <1>11, JudgePreserves
<1>12. CASE EndFile
  BY <1>12, EndFilePreserves
<1>13. ASSUME NEW f \in File, Edit(f) PROVE IInv'
  BY <1>13, EditPreserves
<1>14. CASE UNCHANGED vars
  <2>1. UNCHANGED <<disk, edits, seen, phase, files, at, m3, counts, skipped, roots, index, linked,
                    cache, current, structs, sites, findings>>
    BY <1>14 DEF vars, found, judging
  <2>2. TypeOK' /\ WalkInv' /\ CountInv'
    BY <2>1 DEF IInv, TypeOK, WalkInv, CountInv, Counted
  <2>3. PassedInv'
    <3>1. Passed' = Passed /\ Skipped' = Skipped /\ Indexed' = Indexed
      BY <2>1 DEF Passed, Skipped, Indexed
    <3>. QED BY <2>1, <3>1 DEF IInv, PassedInv
  <2>4. HistoryInv' /\ JudgingInv'
    BY <2>1 DEF IInv, HistoryInv, JudgingInv
  <2>5. HitsInv'
    BY <2>1 DEF IInv, HitsInv, Hits, CrateFiles
  <2>6. FindingsAreExplained'
    BY <2>1, ExplanationsStay DEF IInv
  <2>. QED BY <2>2, <2>3, <2>4, <2>5, <2>6 DEF IInv
<1>. QED BY <1>1, <1>2, <1>3, <1>4, <1>5, <1>6, <1>7, <1>8, <1>9, <1>10, <1>11, <1>12, <1>13, <1>14
         DEF Next, Step

LEMMA Invariant == Spec => []IInv
BY InitCorrect, StepPreserves, PTL DEF Spec

(***************************************************************************)
(* Every variable of the scan keeps its type, in particular what phase 2   *)
(* judges is a struct it has in hand, whatever is edited meanwhile.        *)
(***************************************************************************)
THEOREM TypeCorrect == Spec => []TypeOK
<1>1. IInv => TypeOK
  BY DEF IInv
<1>. QED BY <1>1, Invariant, PTL

(***************************************************************************)
(* Every file the walk found is scanned, test code or listed as skipped,   *)
(* exactly one of them, and findings are about scanned files alone,        *)
(* however many files there are and however often they are edited.         *)
(***************************************************************************)
THEOREM NoFileVanishes == Spec => []NothingVanishes
<1>1. IInv => NothingVanishes
  <2>. SUFFICES ASSUME IInv, phase \notin {"walk", "m3", "local"}
                PROVE  /\ counts.scanned + counts.tests + Len(skipped) = Len(files)
                       /\ counts.scanned = Len(index)
                       /\ \A f \in Skipped : \A n \in DOMAIN index : index[n].path # f
                       /\ \A x \in findings : x.file \in File => \E n \in DOMAIN index : index[n].path = x.file
    BY DEF NothingVanishes
  <2>1. Counted = Len(files) /\ counts.scanned = Len(index)
    BY DEF IInv, TypeOK, CountInv
  <2>2. Skipped \cap Indexed = {} /\ \A x \in findings : x.file \in File => x.file \in Indexed
    BY DEF IInv, PassedInv
  <2>. QED BY <2>1, <2>2 DEF Counted, Indexed
<1>. QED BY <1>1, Invariant, PTL

(***************************************************************************)
(* The scan invents nothing: each finding is explained by contents that    *)
(* its file and the handler's file have had, for any tree and any edits.   *)
(***************************************************************************)
THEOREM NothingInvented == Spec => []FindingsAreExplained
<1>1. IInv => FindingsAreExplained
  BY DEF IInv
<1>. QED BY <1>1, Invariant, PTL

----------------------------------------------------------------------------
(***************************************************************************)
(* A tree that nobody touches.  Of each stage, what it hands on is what    *)
(* the definitions of Sources make of the files behind it.                 *)
(***************************************************************************)
Listed == {files[i] : i \in DOMAIN files}

\* The files a loop has behind it.
Before(list, position) == {list[k] : k \in {i \in DOMAIN list : i < position}}

Behind(list) == Before(list, at)

\* The walk lists the files that exist, and the test modules are those of the files listed.
QuietFiles ==
  /\ phase = "walk" => Listed = {f \in Behind(Order) : disk[f] # Gone}
  /\ phase # "walk" => Listed = {f \in File : disk[f] # Gone}
  /\ phase = "walk" => m3 = {}
  /\ phase = "m3" => m3 = UNION {TestTargets(disk, disk[f]) : f \in Behind(files)}
  /\ phase \notin {"walk", "m3"} => m3 = UNION {TestTargets(disk, disk[f]) : f \in File}
  /\ phase = "manifests" => at = 1

\* Phase 1 has indexed what is readable of the files it passed, each once, as it is.
QuietBooks ==
  /\ Indexed = Passed \cap Readable(disk)
  /\ Skipped = {f \in Passed \ TestScope(disk) : disk[f] \notin Content}
  /\ \A i, j \in DOMAIN index : index[i].path = index[j].path => i = j
  /\ \A n \in DOMAIN index : index[n].facts = disk[index[n].path].facts
  /\ {linked[k] : k \in DOMAIN linked} = {f \in Indexed : disk[f].accounts # {}}
  /\ roots = [onchain   |-> {RootOf[f] : f \in {g \in Indexed : disk[g].onchain}} \ {None},
              unchecked |-> {RootOf[f] : f \in Indexed} \cap (Unchecked \ {None})]

\* Phase 2 works on what is there, with every use site.
QuietJudging ==
  /\ \A f \in File : cache[f] # None => cache[f] = disk[f]
  /\ current # None => current = disk[linked[at]]
  /\ sites # None => sites.hits = Hits(linked[at], sites.struct.name)

\* VL001 for those of a file's structs that are in S.
Verdicts(tree, f, S) ==
  {Vl001(f, s) : s \in {t \in S : /\ t.candidate /\ t.line \notin tree[f].hidden
                                  /\ Unproven(Functions(tree, CrateOf[f]), tree, t.name)}}

LocalFindings == UNION {Kept(f, disk[f]) : f \in Indexed}

VerdictsOn(tree, fs) == UNION {Verdicts(tree, f, tree[f].accounts) : f \in fs}

\* The verdicts of phase 2 so far: on the files it is done with and on the one in hand.
DoneWith == IF phase = "done" THEN {linked[k] : k \in DOMAIN linked} ELSE Behind(linked)

InHand == IF current # None THEN Verdicts(disk, linked[at], disk[linked[at]].accounts \ structs) ELSE {}

LinkedSoFar == VerdictsOn(disk, DoneWith) \cup InHand

QuietFindings ==
  findings = LocalFindings
               \cup IF phase \in {"linked", "done"} THEN ManifestFindings(disk) \cup LinkedSoFar ELSE {}

QuietState == QuietFiles /\ QuietBooks /\ QuietJudging /\ QuietFindings

QuietInv == edits = 0 => QuietState

----------------------------------------------------------------------------
\* One file more is behind a loop; a loop that has ended has its whole list behind it.
LEMMA BehindGrows ==
  ASSUME NEW list \in Seq(File), NEW n \in 1 .. Len(list)
  PROVE  Before(list, n + 1) = Before(list, n) \cup {list[n]}
<1>1. Len(list) \in Nat /\ DOMAIN list = 1 .. Len(list)
  BY LenProperties
<1>2. {i \in DOMAIN list : i < n + 1} = {i \in DOMAIN list : i < n} \cup {n}
  BY <1>1
<1>. QED BY <1>2 DEF Before

LEMMA BehindAtTheEnds ==
  ASSUME NEW list \in Seq(File), NEW n \in Nat \ {0}
  PROVE  /\ n > Len(list) => Before(list, n) = {list[k] : k \in DOMAIN list}
         /\ n = 1 => Before(list, n) = {}
<1>1. Len(list) \in Nat /\ DOMAIN list = 1 .. Len(list)
  BY LenProperties
<1>. QED BY <1>1 DEF Before

\* In phase 1 the test scope is the one the tree has.
LEMMA ScopeOfPhaseOne ==
  ASSUME QuietFiles, phase = "local", NEW f \in File
  PROVE  InTestScope(f) <=> f \in TestScope(disk)
BY DEF QuietFiles, InTestScope, TestScope

\* What phase 1 has written down stays true of the files while they and it stay.
LEMMA QuietBooksStay ==
  ASSUME QuietBooks, UNCHANGED <<disk, skipped, roots, index, linked>>, Passed' = Passed
  PROVE  QuietBooks' /\ Indexed' = Indexed /\ LocalFindings' = LocalFindings
<1>1. Indexed' = Indexed /\ Skipped' = Skipped
  BY DEF Indexed, Skipped
<1>2. Indexed' = Passed' \cap Readable(disk') /\ Skipped' = {f \in Passed' \ TestScope(disk') : disk'[f] \notin Content}
  BY <1>1 DEF QuietBooks
<1>3. {linked'[k] : k \in DOMAIN linked'} = {f \in Indexed' : disk'[f].accounts # {}}
  BY <1>1 DEF QuietBooks
<1>4. roots' = [onchain   |-> {RootOf[f] : f \in {g \in Indexed' : disk'[g].onchain}} \ {None},
                unchecked |-> {RootOf[f] : f \in Indexed'} \cap (Unchecked \ {None})]
  BY <1>1 DEF QuietBooks
<1>5. LocalFindings' = LocalFindings
  BY <1>1 DEF LocalFindings
<1>. QED BY <1>1, <1>2, <1>3, <1>4, <1>5 DEF QuietBooks

LEMMA QuietInit == Init => QuietState
<1>. SUFFICES ASSUME Init PROVE QuietState
  OBVIOUS
<1>1. IInv
  BY InitCorrect
<1>2. Len(<<>>) = 0 /\ DOMAIN <<>> = {}
  BY EmptySeq
<1>3. Listed = {} /\ Indexed = {} /\ Skipped = {} /\ Passed = {}
  BY <1>2 DEF Init, Listed, Indexed, Skipped, Passed
<1>4. QuietFiles
  <2>1. Behind(Order) = {}
    BY TreeAssumption, BehindAtTheEnds DEF Init, Behind
  <2>. QED BY <1>3, <2>1 DEF Init, QuietFiles
<1>5. QuietBooks
  BY <1>2, <1>3 DEF Init, QuietBooks
<1>6. QuietJudging
  BY DEF Init, QuietJudging
<1>7. QuietFindings
  BY <1>3 DEF Init, QuietFindings, LocalFindings
<1>. QED BY <1>4, <1>5, <1>6, <1>7 DEF QuietState

LEMMA QuietWalk ==
  ASSUME IInv, QuietState, Walk
  PROVE  QuietState'
<1>. DEFINE f == Order[at]
<1>1. /\ phase = "walk" /\ at \in 1 .. Len(Order) /\ at' = at + 1
      /\ files' = IF disk[f] # Gone THEN Append(files, f) ELSE files
      /\ UNCHANGED <<disk, edits, seen, phase, m3, counts, skipped, roots, index, linked,
                     cache, current, structs, sites, findings>>
  BY ElementsOfLists DEF Walk, found, judging, IInv, TypeOK, WalkInv
<1>2. f \in File
  BY <1>1, ElementsOfLists DEF IInv
<1>3. QuietFiles'
  <2>1. Listed' = IF disk[f] # Gone THEN Listed \cup {f} ELSE Listed
    <3>1. CASE disk[f] = Gone
      BY <1>1, <3>1 DEF Listed
    <3>2. CASE disk[f] # Gone
      <4>1. /\ DOMAIN files = 1 .. Len(files) /\ Len(files) \in Nat /\ DOMAIN files' = 1 .. Len(files) + 1
            /\ \A i \in 1 .. Len(files) : files'[i] = files[i]
            /\ files'[Len(files) + 1] = f
        BY <1>1, <1>2, <3>2, ElementsOfLists DEF IInv, TypeOK
      <4>. QED BY <3>2, <4>1 DEF Listed
    <3>. QED BY <3>1, <3>2
  <2>2. Behind(Order)' = Behind(Order) \cup {f}
    BY <1>1, TreeAssumption, BehindGrows DEF Behind
  <2>. QED BY <1>1, <2>1, <2>2 DEF QuietState, QuietFiles
<1>4. QuietBooks' /\ LocalFindings' = LocalFindings
  <2>1. Passed' = Passed
    BY <1>1 DEF Passed
  <2>. QED BY <1>1, <2>1, QuietBooksStay DEF QuietState
<1>5. QuietJudging'
  <2>1. current = None /\ sites = None
    BY <1>1 DEF IInv, JudgingInv, TypeOK
  <2>. QED BY <1>1, <2>1 DEF QuietState, QuietJudging
<1>6. QuietFindings'
  BY <1>1, <1>4 DEF QuietState, QuietFindings
<1>. QED BY <1>3, <1>4, <1>5, <1>6 DEF QuietState

LEMMA QuietCollectTestMods ==
  ASSUME IInv, QuietState, CollectTestMods
  PROVE  QuietState'
<1>1. /\ phase = "m3" /\ at \in 1 .. Len(files) /\ at' = at + 1
      /\ m3' = m3 \cup TestTargets(disk, disk[files[at]])
      /\ UNCHANGED <<disk, edits, seen, phase, files, counts, skipped, roots, index, linked,
                     cache, current, structs, sites, findings>>
  BY ElementsOfLists DEF CollectTestMods, found, judging, IInv, TypeOK, WalkInv
<1>2. QuietFiles'
  <2>1. Behind(files)' = Behind(files) \cup {files[at]}
    BY <1>1, BehindGrows DEF IInv, TypeOK, Behind
  <2>2. Listed' = Listed
    BY <1>1 DEF Listed
  <2>3. m3' = UNION {TestTargets(disk, disk[f]) : f \in Behind(files)'}
    BY <1>1, <2>1 DEF QuietState, QuietFiles
  <2>. QED BY <1>1, <2>2, <2>3 DEF QuietState, QuietFiles
<1>3. QuietBooks' /\ LocalFindings' = LocalFindings
  <2>1. Passed' = Passed
    BY <1>1 DEF Passed
  <2>. QED BY <1>1, <2>1, QuietBooksStay DEF QuietState
<1>4. QuietJudging'
  <2>1. current = None /\ sites = None
    BY <1>1 DEF IInv, JudgingInv, TypeOK
  <2>. QED BY <1>1, <2>1 DEF QuietState, QuietJudging
<1>5. QuietFindings'
  BY <1>1, <1>3 DEF QuietState, QuietFindings
<1>. QED BY <1>2, <1>3, <1>4, <1>5 DEF QuietState

LEMMA QuietNextPhase ==
  ASSUME IInv, QuietState, NextPhase
  PROVE  QuietState'
<1>1. /\ \/ phase = "walk" /\ at > Len(Order) /\ phase' = "m3"
         \/ phase = "m3" /\ at > Len(files) /\ phase' = "local"
         \/ phase = "local" /\ at > Len(files) /\ phase' = "manifests"
         \/ phase = "linked" /\ at > Len(linked) /\ phase' = "done"
      /\ at' = 1
      /\ UNCHANGED <<disk, edits, seen, files, m3, counts, skipped, roots, index, linked,
                     cache, current, structs, sites, findings>>
  BY DEF NextPhase, found, judging
<1>2. current = None /\ sites = None
  BY <1>1, ElementsOfLists DEF IInv, JudgingInv, TypeOK
<1>3. /\ at \in Nat \ {0} /\ files \in Seq(File) /\ linked \in Seq(File) /\ Order \in Seq(File)
      /\ Listed' = Listed
  BY <1>1, TreeAssumption DEF IInv, TypeOK, WalkInv, Listed
<1>4. QuietFiles'
  <2>1. CASE phase = "walk"
    <3>1. Behind(Order) = File
      BY <1>1, <1>3, <2>1, BehindAtTheEnds, TreeAssumption DEF Behind
    <3>2. Behind(files)' = {}
      BY <1>1, <1>3, BehindAtTheEnds DEF Behind
    <3>. QED BY <1>1, <1>3, <2>1, <3>1, <3>2 DEF QuietState, QuietFiles
  <2>2. CASE phase = "m3"
    <3>1. Behind(files) = Listed
      BY <1>1, <1>3, <2>2, BehindAtTheEnds DEF Behind, Listed
    <3>2. Listed = {f \in File : disk[f] # Gone}
      BY <2>2 DEF QuietState, QuietFiles
    <3>3. \A f \in File : disk[f] = Gone => TestTargets(disk, disk[f]) = {}
      BY MarkerAssumption DEF TestTargets
    <3>4. m3 = UNION {TestTargets(disk, disk[f]) : f \in File}
      BY <2>2, <3>1, <3>2, <3>3 DEF QuietState, QuietFiles
    <3>. QED BY <1>1, <1>3, <2>2, <3>4 DEF QuietState, QuietFiles
  <2>3. CASE phase \in {"local", "linked"}
    BY <1>1, <1>3, <2>3 DEF QuietState, QuietFiles
  <2>. QED BY <1>1, <2>1, <2>2, <2>3
<1>5. QuietBooks' /\ LocalFindings' = LocalFindings
  <2>1. Passed' = Passed
    <3>1. CASE phase = "walk"
      BY <1>1, <3>1 DEF Passed
    <3>2. CASE phase = "m3"
      BY <1>1, <1>3, <3>2 DEF Passed
    <3>3. CASE phase = "local"
      <4>1. \A i \in DOMAIN files : i < at
        BY <1>1, <1>3, <3>3, ElementsOfLists DEF IInv
      <4>. QED BY <1>1, <3>3, <4>1 DEF Passed
    <3>4. CASE phase = "linked"
      BY <1>1, <3>4 DEF Passed
    <3>. QED BY <1>1, <3>1, <3>2, <3>3, <3>4
  <2>. QED BY <1>1, <2>1, QuietBooksStay DEF QuietState
<1>6. QuietJudging'
  BY <1>1, <1>2 DEF QuietState, QuietJudging
<1>7. QuietFindings'
  <2>1. CASE phase = "linked"
    <3>1. Behind(linked) = {linked[k] : k \in DOMAIN linked}
      BY <1>1, <1>3, <2>1, BehindAtTheEnds DEF Behind
    <3>2. LinkedSoFar' = LinkedSoFar
      BY <1>1, <1>2, <2>1, <3>1 DEF LinkedSoFar, DoneWith, InHand
    <3>. QED BY <1>1, <1>5, <2>1, <3>2 DEF QuietState, QuietFindings
  <2>2. CASE phase # "linked"
    BY <1>1, <1>5, <2>2 DEF QuietState, QuietFindings
  <2>. QED BY <2>1, <2>2
<1>. QED BY <1>4, <1>5, <1>6, <1>7 DEF QuietState

LEMMA QuietSkipTestFile ==
  ASSUME IInv, QuietState, SkipTestFile
  PROVE  QuietState'
<1>. DEFINE f == files[at]
<1>1. /\ phase = "local" /\ at <= Len(files) /\ at' = at + 1 /\ InTestScope(f)
      /\ UNCHANGED <<disk, edits, seen, phase, files, m3, skipped, roots, index, linked,
                     cache, current, structs, sites, findings>>
  BY DEF SkipTestFile, judging
<1>2. f \in File /\ f \notin Passed /\ Passed' = Passed \cup {f}
  BY <1>1, PassedGrows DEF IInv
<1>3. f \in TestScope(disk)
  BY <1>1, <1>2, ScopeOfPhaseOne DEF QuietState
<1>4. QuietFiles'
  <2>1. Listed' = Listed
    BY <1>1 DEF Listed
  <2>. QED BY <1>1, <2>1 DEF QuietState, QuietFiles
<1>5. QuietBooks'
  <2>1. Indexed' = Indexed /\ Skipped' = Skipped
    BY <1>1 DEF Indexed, Skipped
  <2>2. Indexed' = Passed' \cap Readable(disk)
    BY <1>2, <1>3, <2>1 DEF QuietState, QuietBooks, Readable
  <2>3. Skipped' = {g \in Passed' \ TestScope(disk) : disk[g] \notin Content}
    BY <1>2, <1>3, <2>1 DEF QuietState, QuietBooks
  <2>. QED BY <1>1, <2>1, <2>2, <2>3 DEF QuietState, QuietBooks
<1>6. QuietJudging' /\ QuietFindings'
  <2>1. current = None /\ sites = None /\ Indexed' = Indexed
    BY <1>1 DEF IInv, JudgingInv, TypeOK, Indexed
  <2>. QED BY <1>1, <2>1 DEF QuietState, QuietJudging, QuietFindings, LocalFindings
<1>. QED BY <1>4, <1>5, <1>6 DEF QuietState

LEMMA QuietSkipBrokenFile ==
  ASSUME IInv, QuietState, SkipBrokenFile
  PROVE  QuietState'
<1>. DEFINE f == files[at]
<1>1. /\ phase = "local" /\ at <= Len(files) /\ at' = at + 1 /\ ~InTestScope(f) /\ disk[f] \notin Content
      /\ skipped' = Append(skipped, f)
      /\ UNCHANGED <<disk, edits, seen, phase, files, m3, counts, roots, index, linked,
                     cache, current, structs, sites, findings>>
  BY DEF SkipBrokenFile, judging
<1>2. f \in File /\ f \notin Passed /\ Passed' = Passed \cup {f}
  BY <1>1, PassedGrows DEF IInv
<1>3. f \notin TestScope(disk)
  BY <1>1, <1>2, ScopeOfPhaseOne DEF QuietState
<1>4. QuietFiles'
  <2>1. Listed' = Listed
    BY <1>1 DEF Listed
  <2>. QED BY <1>1, <2>1 DEF QuietState, QuietFiles
<1>5. QuietBooks'
  <2>1. /\ Len(skipped) \in Nat /\ DOMAIN skipped = 1 .. Len(skipped)
        /\ DOMAIN skipped' = 1 .. Len(skipped) + 1
        /\ \A i \in 1 .. Len(skipped) : skipped'[i] = skipped[i]
        /\ skipped'[Len(skipped) + 1] = f
    BY <1>1, <1>2, ElementsOfLists DEF IInv, TypeOK
  <2>2. Skipped' = Skipped \cup {f} /\ Indexed' = Indexed
    BY <1>1, <2>1 DEF Skipped, Indexed
  <2>3. Indexed' = Passed' \cap Readable(disk)
    BY <1>1, <1>2, <2>2 DEF QuietState, QuietBooks, Readable
  <2>4. Skipped' = {g \in Passed' \ TestScope(disk) : disk[g] \notin Content}
    BY <1>1, <1>2, <1>3, <2>2 DEF QuietState, QuietBooks
  <2>. QED BY <1>1, <2>2, <2>3, <2>4 DEF QuietState, QuietBooks
<1>6. QuietJudging' /\ QuietFindings'
  <2>1. current = None /\ sites = None /\ Indexed' = Indexed
    BY <1>1 DEF IInv, JudgingInv, TypeOK, Indexed
  <2>. QED BY <1>1, <2>1 DEF QuietState, QuietJudging, QuietFindings, LocalFindings
<1>. QED BY <1>4, <1>5, <1>6 DEF QuietState

LEMMA QuietCheckFile ==
  ASSUME IInv, QuietState, CheckFile
  PROVE  QuietState'
<1>. DEFINE f == files[at]  content == disk[f]
<1>1. /\ phase = "local" /\ at <= Len(files) /\ at' = at + 1 /\ ~InTestScope(f) /\ content \in Content
      /\ findings' = findings \cup Kept(f, content)
      /\ roots' = [onchain   |-> roots.onchain \cup IF content.onchain THEN {RootOf[f]} \ {None} ELSE {},
                   unchecked |-> roots.unchecked \cup (({RootOf[f]} \ {None}) \cap Unchecked)]
      /\ linked' = IF content.accounts # {} THEN Append(linked, f) ELSE linked
      /\ index' = Append(index, [path |-> f, facts |-> content.facts])
      /\ UNCHANGED <<disk, edits, seen, phase, files, m3, skipped, cache, current, structs, sites>>
  BY DEF CheckFile, judging
<1>2. f \in File /\ f \notin Passed /\ Passed' = Passed \cup {f}
  BY <1>1, PassedGrows DEF IInv
<1>3. f \notin TestScope(disk) /\ f \in Readable(disk)
  BY <1>1, <1>2, ScopeOfPhaseOne DEF QuietState, Readable
<1>4. QuietFiles'
  <2>1. Listed' = Listed
    BY <1>1 DEF Listed
  <2>. QED BY <1>1, <2>1 DEF QuietState, QuietFiles
<1>5. /\ Len(index) \in Nat /\ DOMAIN index = 1 .. Len(index) /\ DOMAIN index' = 1 .. Len(index) + 1
      /\ \A n \in 1 .. Len(index) : index'[n] = index[n]
      /\ index'[Len(index) + 1] = [path |-> f, facts |-> content.facts]
  <2>1. [path |-> f, facts |-> content.facts] \in IndexEntry
    BY <1>1, <1>2 DEF IndexEntry
  <2>. QED BY <1>1, <2>1, ElementsOfLists DEF IInv, TypeOK, IndexEntry
<1>6. Indexed' = Indexed \cup {f} /\ Skipped' = Skipped /\ f \notin Indexed
  BY <1>1, <1>2, <1>5 DEF Indexed, Skipped, QuietState, QuietBooks
<1>7. QuietBooks'
  <2>1. Indexed' = Passed' \cap Readable(disk)
    BY <1>2, <1>3, <1>6 DEF QuietState, QuietBooks
  <2>2. Skipped' = {g \in Passed' \ TestScope(disk) : disk[g] \notin Content}
    BY <1>1, <1>2, <1>3, <1>6 DEF QuietState, QuietBooks
  <2>3. \A i, j \in DOMAIN index' : index'[i].path = index'[j].path => i = j
    BY <1>5, <1>6 DEF QuietState, QuietBooks, Indexed
  <2>4. \A n \in DOMAIN index' : index'[n].facts = disk[index'[n].path].facts
    BY <1>5 DEF QuietState, QuietBooks
  <2>5. {linked'[k] : k \in DOMAIN linked'} = {g \in Indexed' : disk[g].accounts # {}}
    <3>1. CASE content.accounts = {}
      BY <1>1, <1>6, <3>1 DEF QuietState, QuietBooks
    <3>2. CASE content.accounts # {}
      <4>1. /\ Len(linked) \in Nat /\ DOMAIN linked = 1 .. Len(linked) /\ DOMAIN linked' = 1 .. Len(linked) + 1
            /\ \A i \in 1 .. Len(linked) : linked'[i] = linked[i]
            /\ linked'[Len(linked) + 1] = f
        BY <1>1, <1>2, <3>2, ElementsOfLists DEF IInv, TypeOK
      <4>2. {linked'[k] : k \in DOMAIN linked'} = {linked[k] : k \in DOMAIN linked} \cup {f}
        BY <4>1
      <4>. QED BY <1>6, <3>2, <4>2 DEF QuietState, QuietBooks
    <3>. QED BY <3>1, <3>2
  <2>6. roots' = [onchain   |-> {RootOf[g] : g \in {h \in Indexed' : disk[h].onchain}} \ {None},
                  unchecked |-> {RootOf[g] : g \in Indexed'} \cap (Unchecked \ {None})]
    <3>1. /\ roots.onchain = {RootOf[g] : g \in {h \in Indexed : disk[h].onchain}} \ {None}
          /\ roots.unchecked = {RootOf[g] : g \in Indexed} \cap (Unchecked \ {None})
      BY DEF QuietState, QuietBooks
    <3>2. roots.onchain \cup (IF content.onchain THEN {RootOf[f]} \ {None} ELSE {})
            = {RootOf[g] : g \in {h \in Indexed' : disk[h].onchain}} \ {None}
      BY <1>6, <3>1
    <3>3. roots.unchecked \cup (({RootOf[f]} \ {None}) \cap Unchecked)
            = {RootOf[g] : g \in Indexed'} \cap (Unchecked \ {None})
      BY <1>6, <3>1
    <3>. QED BY <1>1, <3>2, <3>3
  <2>. QED BY <1>1, <2>1, <2>2, <2>3, <2>4, <2>5, <2>6 DEF QuietBooks
<1>8. QuietJudging' /\ QuietFindings'
  <2>1. current = None /\ sites = None
    BY <1>1 DEF IInv, JudgingInv, TypeOK
  <2>2. LocalFindings' = LocalFindings \cup Kept(f, content)
    BY <1>1, <1>6 DEF LocalFindings
  <2>. QED BY <1>1, <2>1, <2>2 DEF QuietState, QuietJudging, QuietFindings
<1>. QED BY <1>4, <1>7, <1>8 DEF QuietState

LEMMA QuietReportManifests ==
  ASSUME IInv, QuietState, ReportManifests
  PROVE  QuietState'
<1>1. /\ phase = "manifests" /\ phase' = "linked"
      /\ findings' = findings \cup {Manifest(r) : r \in roots.unchecked \cap roots.onchain \cap InScan}
      /\ UNCHANGED <<disk, edits, seen, files, at, m3, counts, skipped, roots, index, linked,
                     cache, current, structs, sites>>
  BY DEF ReportManifests, found, judging
<1>2. current = None /\ sites = None
  BY <1>1 DEF IInv, JudgingInv, TypeOK
<1>3. QuietFiles'
  <2>1. Listed' = Listed
    BY <1>1 DEF Listed
  <2>. QED BY <1>1, <2>1 DEF QuietState, QuietFiles
<1>4. QuietBooks' /\ LocalFindings' = LocalFindings
  <2>1. Passed' = Passed
    BY <1>1 DEF Passed
  <2>. QED BY <1>1, <2>1, QuietBooksStay DEF QuietState
<1>5. Indexed = Readable(disk)
  <2>1. Passed = {f \in File : disk[f] # Gone}
    BY <1>1 DEF QuietState, QuietFiles, Passed, Listed
  <2>. QED BY <2>1, MarkerAssumption DEF QuietState, QuietBooks, Readable
<1>6. {Manifest(r) : r \in roots.unchecked \cap roots.onchain \cap InScan} = ManifestFindings(disk)
  <2>1. /\ roots.onchain = {RootOf[g] : g \in {h \in Readable(disk) : disk[h].onchain}} \ {None}
        /\ roots.unchecked = {RootOf[g] : g \in Readable(disk)} \cap (Unchecked \ {None})
    BY <1>5 DEF QuietState, QuietBooks
  <2>2. roots.unchecked \cap roots.onchain \cap InScan
          = {r \in Unchecked \cap InScan : \E f \in Readable(disk) : RootOf[f] = r /\ disk[f].onchain}
    BY <2>1, TreeAssumption
  <2>. QED BY <2>2 DEF ManifestFindings
<1>7. LinkedSoFar' = {}
  <2>1. Behind(linked)' = {}
    <3>1. at = 1
      BY <1>1 DEF QuietState, QuietFiles
    <3>. QED BY <1>1, <3>1, BehindAtTheEnds DEF Behind, IInv, TypeOK
  <2>. QED BY <1>1, <1>2, <2>1 DEF LinkedSoFar, DoneWith, InHand, VerdictsOn
<1>8. QuietJudging' /\ QuietFindings'
  BY <1>1, <1>2, <1>4, <1>6, <1>7 DEF QuietState, QuietJudging, QuietFindings
<1>. QED BY <1>3, <1>4, <1>8 DEF QuietState

----------------------------------------------------------------------------
\* Phase 2 of a quiet scan: the index is that of the readable files.
LEMMA IndexedIsReadable ==
  ASSUME QuietState, phase \in {"linked", "done"}
  PROVE  Indexed = Readable(disk)
<1>1. Passed = {f \in File : disk[f] # Gone}
  BY DEF QuietState, QuietFiles, Passed, Listed
<1>. QED BY <1>1, MarkerAssumption DEF QuietState, QuietBooks, Readable

\* The positions of the index in a crate are the functions of the crate.
LEMMA PositionsAreFunctions ==
  ASSUME IInv, QuietState, phase = "linked", NEW from \in File
  PROVE  /\ \A n \in CrateFiles(from) : \A i \in DOMAIN index[n].facts :
              /\ n \in DOMAIN index /\ index[n].path \in File /\ disk[index[n].path] \in Content
              /\ index[n].facts = disk[index[n].path].facts
              /\ i \in DOMAIN disk[index[n].path].bodies
              /\ <<index[n].path, i>> \in Functions(disk, CrateOf[from])
         /\ \A x \in Functions(disk, CrateOf[from]) :
              \E n \in CrateFiles(from) : \E i \in DOMAIN index[n].facts : x = <<index[n].path, i>>
<1>1. Indexed = Readable(disk)
  BY IndexedIsReadable
<1>2. /\ \A n \in DOMAIN index : index[n].facts = disk[index[n].path].facts /\ index[n].path \in Readable(disk)
      /\ \A f \in Readable(disk) : \E n \in DOMAIN index : index[n].path = f
  BY <1>1 DEF QuietState, QuietBooks, Indexed
<1>3. \A f \in Readable(disk) : f \in File /\ disk[f] \in Content
  BY DEF Readable
<1>4. \A c \in Content : DOMAIN c.bodies = DOMAIN c.facts
  <2>. SUFFICES ASSUME NEW c \in Content PROVE DOMAIN c.bodies = DOMAIN c.facts
    OBVIOUS
  <2>1. c.facts \in Seq(Fact) /\ c.bodies \in Seq(Body) /\ Len(c.bodies) = Len(c.facts)
    BY ContentAssumption
  <2>2. DOMAIN c.bodies = 1 .. Len(c.bodies) /\ DOMAIN c.facts = 1 .. Len(c.facts)
    BY <2>1, LenProperties
  <2>. QED BY <2>1, <2>2
<1>5. ASSUME NEW n \in CrateFiles(from), NEW i \in DOMAIN index[n].facts
      PROVE  /\ n \in DOMAIN index /\ index[n].path \in File /\ disk[index[n].path] \in Content
             /\ index[n].facts = disk[index[n].path].facts
             /\ i \in DOMAIN disk[index[n].path].bodies
             /\ <<index[n].path, i>> \in Functions(disk, CrateOf[from])
  <2>1. n \in DOMAIN index /\ CrateOf[index[n].path] = CrateOf[from]
    BY DEF CrateFiles
  <2>2. index[n].facts = disk[index[n].path].facts /\ index[n].path \in Readable(disk)
    BY <1>2, <2>1
  <2>3. <<index[n].path, i>> \in Functions(disk, CrateOf[from])
    BY <2>1, <2>2 DEF Functions
  <2>. QED BY <1>3, <1>4, <2>1, <2>2, <2>3
<1>6. ASSUME NEW x \in Functions(disk, CrateOf[from])
      PROVE  \E n \in CrateFiles(from) : \E i \in DOMAIN index[n].facts : x = <<index[n].path, i>>
  <2>1. PICK f \in Readable(disk) : CrateOf[f] = CrateOf[from] /\ \E i \in DOMAIN disk[f].facts : x = <<f, i>>
    BY DEF Functions
  <2>4. PICK i \in DOMAIN disk[f].facts : x = <<f, i>>
    BY <2>1
  <2>2. PICK n \in DOMAIN index : index[n].path = f
    BY <1>2
  <2>3. n \in CrateFiles(from) /\ i \in DOMAIN index[n].facts
    BY <1>2, <2>1, <2>2 DEF CrateFiles
  <2>. QED BY <2>2, <2>3, <2>4
<1>. QED BY <1>5, <1>6

\* The use sites of a struct are the functions of the crate that address it, in each spelling.
LEMMA HitsAreUses ==
  ASSUME IInv, QuietState, phase = "linked", NEW from \in File, NEW struct
  PROVE  /\ \A h \in Hits(from, struct) :
              /\ h.file \in CrateFiles(from) /\ h.ordinal \in DOMAIN index[h.file].facts /\ h.mode \in Mode
              /\ Addresses(disk[index[h.file].path].facts[h.ordinal], struct, h.mode)
         /\ \A x \in Functions(disk, CrateOf[from]) : \A mode \in Mode :
              Addresses(disk[x[1]].facts[x[2]], struct, mode) =>
                \E h \in Hits(from, struct) : x = <<index[h.file].path, h.ordinal>> /\ h.mode = mode
<1>1. ASSUME NEW h \in Hits(from, struct)
      PROVE  /\ h.file \in CrateFiles(from) /\ h.ordinal \in DOMAIN index[h.file].facts /\ h.mode \in Mode
             /\ Addresses(disk[index[h.file].path].facts[h.ordinal], struct, h.mode)
  <2>1. /\ h.file \in CrateFiles(from) /\ h.ordinal \in DOMAIN index[h.file].facts /\ h.mode \in Mode
        /\ Addresses(index[h.file].facts[h.ordinal], struct, h.mode)
    BY DEF Hits
  <2>. QED BY <2>1, PositionsAreFunctions
<1>2. ASSUME NEW x \in Functions(disk, CrateOf[from]), NEW mode \in Mode,
             Addresses(disk[x[1]].facts[x[2]], struct, mode)
      PROVE  \E h \in Hits(from, struct) : x = <<index[h.file].path, h.ordinal>> /\ h.mode = mode
  <2>1. PICK n \in CrateFiles(from) : \E i \in DOMAIN index[n].facts : x = <<index[n].path, i>>
    BY PositionsAreFunctions
  <2>4. PICK i \in DOMAIN index[n].facts : x = <<index[n].path, i>>
    BY <2>1
  <2>2. Addresses(index[n].facts[i], struct, mode)
    BY <1>2, <2>4, PositionsAreFunctions
  <2>. DEFINE h == [file |-> n, ordinal |-> i, mode |-> mode]
  <2>3. h \in Hits(from, struct)
    BY <2>2 DEF Hits
  <2>. QED BY <2>3, <2>4
<1>. QED BY <1>1, <1>2

LEMMA NamedHitsAreFunctions ==
  ASSUME IInv, QuietState, phase = "linked", NEW from \in File, NEW callees
  PROVE  /\ \A h \in HitsNamed(from, callees) :
              h.file \in CrateFiles(from) /\ h.ordinal \in DOMAIN index[h.file].facts
         /\ \A x \in Functions(disk, CrateOf[from]) :
              disk[x[1]].facts[x[2]].name \in callees =>
                \E h \in HitsNamed(from, callees) : x = <<index[h.file].path, h.ordinal>>
<1>1. ASSUME NEW x \in Functions(disk, CrateOf[from]), disk[x[1]].facts[x[2]].name \in callees
      PROVE  \E h \in HitsNamed(from, callees) : x = <<index[h.file].path, h.ordinal>>
  <2>1. PICK n \in CrateFiles(from) : \E i \in DOMAIN index[n].facts : x = <<index[n].path, i>>
    BY PositionsAreFunctions
  <2>4. PICK i \in DOMAIN index[n].facts : x = <<index[n].path, i>>
    BY <2>1
  <2>2. index[n].facts[i].name \in callees
    BY <1>1, <2>4, PositionsAreFunctions
  <2>. DEFINE h == [file |-> n, ordinal |-> i]
  <2>3. h \in HitsNamed(from, callees)
    BY <2>2 DEF HitsNamed
  <2>. QED BY <2>3, <2>4
<1>. QED BY <1>1 DEF HitsNamed

\* The bodies asked for are all found, as the files have them.
LEMMA QuietLoads ==
  ASSUME IInv, QuietState, phase = "linked", NEW from \in File, NEW STATE hits,
         \A h \in hits : h.file \in CrateFiles(from) /\ h.ordinal \in DOMAIN index[h.file].facts
  PROVE  /\ \A f \in File : Load(hits)[f] # None => Load(hits)[f] = disk[f]
         /\ \A h \in hits : Load(hits)[index[h.file].path] = disk[index[h.file].path]
         /\ Present(Load(hits), hits) = hits
<1>. DEFINE asked(f) == \E h \in hits : index[h.file].path = f
<1>1. \A f \in File : Load(hits)[f] = IF cache[f] = None /\ asked(f) /\ disk[f] \in Content THEN disk[f] ELSE cache[f]
  BY DEF Load
<1>2. \A f \in File : cache[f] # None => cache[f] = disk[f]
  BY DEF QuietState, QuietJudging
<1>3. \A h \in hits : /\ index[h.file].path \in File /\ disk[index[h.file].path] \in Content
                      /\ h.ordinal \in DOMAIN disk[index[h.file].path].bodies
  BY PositionsAreFunctions
<1>4. \A h \in hits : asked(index[h.file].path)
  OBVIOUS
<1>. HIDE DEF asked
<1>5. \A f \in File : Load(hits)[f] # None => Load(hits)[f] = disk[f]
  BY <1>1, <1>2
<1>6. \A h \in hits : Load(hits)[index[h.file].path] = disk[index[h.file].path]
  BY <1>1, <1>2, <1>3, <1>4
<1>7. Present(Load(hits), hits) = hits
  BY <1>3, <1>6, MarkerAssumption DEF Present
<1>. QED BY <1>5, <1>6, <1>7

\* The steps of phase 2 leave the files and the books alone.
LEMMA QuietLater ==
  ASSUME IInv, QuietState, Later, phase = "linked"
  PROVE  /\ QuietFiles' /\ QuietBooks' /\ LocalFindings' = LocalFindings
         /\ ManifestFindings(disk)' = ManifestFindings(disk)
<1>1. Listed' = Listed /\ Passed' = Passed
  BY DEF Later, Listed, Passed
<1>2. QuietFiles'
  BY <1>1 DEF QuietState, QuietFiles, Later
<1>. QED BY <1>1, <1>2, QuietBooksStay DEF QuietState, Later

LEMMA QuietReparse ==
  ASSUME IInv, QuietState, Reparse
  PROVE  QuietState'
<1>1. /\ phase = "linked" /\ current = None /\ at <= Len(linked)
      /\ disk[linked[at]] \in Content /\ current' = disk[linked[at]]
      /\ structs' = {s \in current'.accounts : s.candidate}
      /\ Later /\ UNCHANGED <<at, cache, sites, findings>>
  BY DEF Reparse, found, Later
<1>2. sites = None
  BY <1>1 DEF IInv, JudgingInv, TypeOK
<1>3. QuietJudging'
  BY <1>1, <1>2 DEF QuietState, QuietJudging, Later
<1>4. LinkedSoFar' = LinkedSoFar
  <2>1. Verdicts(disk, linked[at], disk[linked[at]].accounts \ structs') = {}
    BY <1>1 DEF Verdicts
  <2>2. Behind(linked)' = Behind(linked)
    BY <1>1 DEF Behind, Before, Later
  <2>3. DoneWith' = DoneWith
    BY <1>1, <2>2 DEF DoneWith, Later
  <2>4. InHand = {} /\ InHand' = {}
    BY <1>1, <2>1, MarkerAssumption DEF InHand, Later
  <2>. QED BY <1>1, <2>3, <2>4 DEF LinkedSoFar, Later
<1>5. QuietFindings'
  BY <1>1, <1>4, QuietLater DEF QuietState, QuietFindings, Later
<1>. QED BY <1>1, <1>3, <1>5, QuietLater DEF QuietState

\* A file that phase 1 accepted is still readable.
LEMMA QuietDropFile ==
  ASSUME IInv, QuietState, DropFile
  PROVE  FALSE
<1>1. phase = "linked" /\ at <= Len(linked) /\ disk[linked[at]] \notin Content
  BY DEF DropFile
<1>2. linked[at] \in Indexed
  BY <1>1, ElementsOfLists DEF IInv, TypeOK, WalkInv, PassedInv
<1>. QED BY <1>1, <1>2, IndexedIsReadable DEF Readable

LEMMA QuietUseSites ==
  ASSUME IInv, QuietState, NEW s \in structs, UseSites(s)
  PROVE  QuietState'
<1>. DEFINE hits == Hits(linked[at], s.name)
<1>1. /\ sites = None /\ cache' = Load(hits)
      /\ sites' = [struct |-> s, hits |-> Present(cache', hits)]
      /\ Later /\ UNCHANGED <<at, current, structs, findings>>
  BY DEF UseSites, found, Later
<1>2. current # None /\ phase = "linked" /\ linked[at] \in File
  BY ElementsOfLists DEF IInv, JudgingInv, TypeOK, WalkInv
<1>3. \A h \in hits : h.file \in CrateFiles(linked[at]) /\ h.ordinal \in DOMAIN index[h.file].facts
  BY <1>2, HitsAreUses
<1>4. hits' = hits
  BY <1>1 DEF Hits, CrateFiles, Later
<1>. HIDE DEF hits
<1>5. /\ \A f \in File : Load(hits)[f] # None => Load(hits)[f] = disk[f]
      /\ Present(Load(hits), hits) = hits
  BY <1>2, <1>3, QuietLoads
<1>6. QuietJudging'
  <2>1. \A f \in File : cache'[f] # None => cache'[f] = disk'[f]
    BY <1>1, <1>5 DEF Later
  <2>2. current' # None => current' = disk'[linked'[at']]
    BY <1>1 DEF QuietState, QuietJudging, Later
  <2>3. sites'.hits = hits /\ sites'.struct = s
    BY <1>1, <1>5
  <2>4. sites'.hits = Hits(linked[at], sites.struct.name)'
    BY <1>1, <1>4, <2>3 DEF hits
  <2>. QED BY <2>1, <2>2, <2>4 DEF QuietJudging
<1>7. QuietFindings'
  <2>1. LinkedSoFar' = LinkedSoFar
    BY <1>1 DEF LinkedSoFar, DoneWith, InHand, Behind, Before, Later
  <2>. QED BY <1>1, <1>2, <2>1, QuietLater DEF QuietState, QuietFindings, Later
<1>. QED BY <1>1, <1>2, <1>6, <1>7, QuietLater DEF QuietState

(***************************************************************************)
(* The verdict of phase 2 is the reference definition's.  Every callee is  *)
(* looked up before a struct is reported, so a proof in any of them counts *)
(* and the order of the search does not.                                   *)
(***************************************************************************)
WritesKey == \E h \in sites.hits : h.mode \in BodyOf(h).key

Forwarded == UNION {BodyOf(h).forwards : h \in sites.hits}

ProvenBy(callees, loaded, asked) ==
  \/ \E h \in sites.hits : h.mode \in BodyOf(h).signer
  \/ \E c \in {x \in Forwarded : x.callee \in callees} : \E h \in Present(loaded, asked) :
       /\ index[h.file].facts[h.ordinal].name = c.callee
       /\ ChecksArgument(index[h.file].facts[h.ordinal],
                         loaded[index[h.file].path].bodies[h.ordinal], c.position)

LEMMA VerdictIsExact ==
  ASSUME IInv, QuietState, sites # None, phase = "linked", linked[at] \in File,
         NEW callees, NEW STATE asked,
         asked = HitsNamed(linked[at], IF WritesKey THEN callees ELSE {}),
         WritesKey /\ ~ProvenBy(callees, Load(asked), asked) => callees = {c.callee : c \in Forwarded}
  PROVE  WritesKey /\ ~ProvenBy(callees, Load(asked), asked)
           <=> Unproven(Functions(disk, CrateOf[linked[at]]), disk, sites.struct.name)
<1>. DEFINE from == linked[at]
            fns == Functions(disk, CrateOf[from])
            struct == sites.struct.name
            hits == sites.hits
            Body1(x) == disk[x[1]].bodies[x[2]]
            Fact1(x) == disk[x[1]].facts[x[2]]
            X(h) == <<index[h.file].path, h.ordinal>>
<1>1. hits = Hits(from, struct)
  BY DEF QuietState, QuietJudging
<1>2. \A h \in hits : /\ X(h) \in fns /\ h.mode \in Mode /\ Addresses(Fact1(X(h)), struct, h.mode)
                      /\ BodyOf(h) = Body1(X(h))
  <2>. SUFFICES ASSUME NEW h \in hits
                PROVE  /\ X(h) \in fns /\ h.mode \in Mode /\ Addresses(Fact1(X(h)), struct, h.mode)
                       /\ BodyOf(h) = Body1(X(h))
    OBVIOUS
  <2>1. /\ h.file \in CrateFiles(from) /\ h.ordinal \in DOMAIN index[h.file].facts /\ h.mode \in Mode
        /\ Addresses(Fact1(X(h)), struct, h.mode)
    BY <1>1, HitsAreUses
  <2>2. X(h) \in fns /\ index[h.file].path \in File
    BY <2>1, PositionsAreFunctions
  <2>3. cache[index[h.file].path] = disk[index[h.file].path]
    BY <2>2 DEF IInv, HitsInv, QuietState, QuietJudging
  <2>. QED BY <2>1, <2>2, <2>3 DEF BodyOf
<1>3. \A x \in fns : \A mode \in Mode :
        Addresses(Fact1(x), struct, mode) => \E h \in hits : x = X(h) /\ h.mode = mode
  BY <1>1, HitsAreUses
<1>4. \A h \in asked : h.file \in CrateFiles(from) /\ h.ordinal \in DOMAIN index[h.file].facts
  BY NamedHitsAreFunctions
<1>5. \A h \in asked : Load(asked)[index[h.file].path] = disk[index[h.file].path]
  BY <1>4, QuietLoads
<1>15. Present(Load(asked), asked) = asked
  BY <1>4, QuietLoads
<1>6. \A h \in asked : /\ X(h) \in fns /\ index[h.file].facts[h.ordinal] = Fact1(X(h))
                       /\ Load(asked)[index[h.file].path].bodies[h.ordinal] = Body1(X(h))
  BY <1>4, <1>5, PositionsAreFunctions
<1>7. WritesKey => \A x \in fns : Fact1(x).name \in callees => \E h \in asked : x = X(h)
  BY NamedHitsAreFunctions
<1>. DEFINE Writes == \E mode \in Mode : \E x \in fns : Addresses(Fact1(x), struct, mode) /\ mode \in Body1(x).key
            Signs == \E mode \in Mode : \E x \in fns : Addresses(Fact1(x), struct, mode) /\ mode \in Body1(x).signer
            Checks(c, y) == Fact1(y).name = c.callee /\ ChecksArgument(Fact1(y), Body1(y), c.position)
            Follows == \E mode \in Mode : \E x \in fns : /\ Addresses(Fact1(x), struct, mode)
                                                         /\ \E c \in Body1(x).forwards : \E y \in fns : Checks(c, y)
<1>8. WritesKey <=> Writes
  <2>. HIDE DEF fns, X, Body1, Fact1, hits
  <2>1. WritesKey <=> \E h \in hits : h.mode \in BodyOf(h).key
    BY DEF WritesKey, hits
  <2>. QED BY <1>2, <1>3, <2>1
<1>9. (\E h \in hits : h.mode \in BodyOf(h).signer) <=> Signs
  <2>. HIDE DEF fns, X, Body1, Fact1, hits
  <2>. QED BY <1>2, <1>3
<1>10. Forwarded = UNION {Body1(x).forwards : x \in {y \in fns : \E mode \in Mode : Addresses(Fact1(y), struct, mode)}}
  <2>1. Forwarded = UNION {BodyOf(h).forwards : h \in hits}
    BY DEF Forwarded
  <2>. HIDE DEF fns, X, Body1, Fact1, hits
  <2>2. \A c \in Forwarded : \E x \in fns : /\ \E mode \in Mode : Addresses(Fact1(x), struct, mode)
                                            /\ c \in Body1(x).forwards
    BY <1>2, <2>1
  <2>3. ASSUME NEW x \in fns, \E mode \in Mode : Addresses(Fact1(x), struct, mode), NEW c \in Body1(x).forwards
        PROVE  c \in Forwarded
    <3>1. PICK h \in hits : x = X(h)
      BY <1>3, <2>3
    <3>. QED BY <1>2, <2>1, <3>1
  <2>. QED BY <2>2, <2>3
<1>11. Follows <=> \E c \in Forwarded : \E y \in fns : Checks(c, y)
  <2>. HIDE DEF fns, X, Body1, Fact1, hits, Checks
  <2>. QED BY <1>10
<1>12. Unproven(fns, disk, struct) <=> Writes /\ ~Signs /\ ~Follows
  BY DEF Unproven
<1>13. ProvenBy(callees, Load(asked), asked) => Signs \/ Follows
  <2>. SUFFICES ASSUME NEW c \in Forwarded, NEW h \in asked, index[h.file].facts[h.ordinal].name = c.callee,
                       ChecksArgument(index[h.file].facts[h.ordinal],
                                      Load(asked)[index[h.file].path].bodies[h.ordinal], c.position)
                PROVE  Follows
    BY <1>9, <1>15 DEF ProvenBy
  <2>1. X(h) \in fns /\ Checks(c, X(h))
    BY <1>6
  <2>. QED BY <1>11, <2>1
<1>14. WritesKey /\ (Signs \/ Follows) => ProvenBy(callees, Load(asked), asked)
  <2>. SUFFICES ASSUME WritesKey, Follows, ~ProvenBy(callees, Load(asked), asked) PROVE FALSE
    BY <1>9 DEF ProvenBy
  <2>1. callees = {c.callee : c \in Forwarded}
    OBVIOUS
  <2>2. PICK c \in Forwarded : \E y \in fns : Checks(c, y)
    BY <1>11
  <2>3. PICK y \in fns : Checks(c, y)
    BY <2>2
  <2>4. c.callee \in callees
    BY <2>1
  <2>5. PICK h \in asked : y = X(h)
    BY <1>7, <2>3, <2>4
  <2>6. /\ index[h.file].facts[h.ordinal].name = c.callee
        /\ ChecksArgument(index[h.file].facts[h.ordinal],
                          Load(asked)[index[h.file].path].bodies[h.ordinal], c.position)
    BY <1>6, <2>3, <2>5
  <2>. QED BY <1>15, <2>4, <2>6 DEF ProvenBy
<1>. QED BY <1>8, <1>12, <1>13, <1>14

LEMMA QuietJudge ==
  ASSUME IInv, QuietState, NEW callees \in SUBSET Ident, Judge(callees)
  PROVE  QuietState'
<1>. DEFINE s == sites.struct
            f == linked[at]
            asked == HitsNamed(f, IF WritesKey THEN callees ELSE {})
            proven == ProvenBy(callees, Load(asked), asked)
            judged == {t \in {s} : /\ t.candidate /\ t.line \notin disk[f].hidden
                                   /\ Unproven(Functions(disk, CrateOf[f]), disk, t.name)}
<1>1. /\ sites # None /\ sites' = None /\ cache' = Load(asked)
      /\ structs' = structs \ {s}
      /\ Later /\ UNCHANGED <<at, current>>
  BY DEF Judge, found, Later, WritesKey
<1>2. /\ WritesKey /\ ~proven => callees = {c.callee : c \in Forwarded}
      /\ findings' = findings \cup IF WritesKey /\ ~proven /\ s.line \notin current.hidden THEN {Vl001(f, s)} ELSE {}
  BY Zenon DEF Judge, WritesKey, Forwarded, ProvenBy
<1>3. /\ s \in structs /\ current # None /\ phase = "linked" /\ f \in File /\ at \in 1 .. Len(linked)
      /\ current = disk[f] /\ s \in disk[f].accounts /\ s.candidate
  BY <1>1, ElementsOfLists DEF IInv, TypeOK, JudgingInv, WalkInv, QuietState, QuietJudging
<1>. HIDE DEF asked, proven
<1>4. WritesKey /\ ~proven <=> Unproven(Functions(disk, CrateOf[f]), disk, s.name)
  BY <1>1, <1>2, <1>3, VerdictIsExact DEF asked, proven
<1>5. \A g \in File : Load(asked)[g] # None => Load(asked)[g] = disk[g]
  <2>1. \A h \in asked : h.file \in CrateFiles(f) /\ h.ordinal \in DOMAIN index[h.file].facts
    BY <1>3, NamedHitsAreFunctions DEF asked
  <2>. QED BY <1>3, <2>1, QuietLoads
<1>6. QuietJudging'
  BY <1>1, <1>5 DEF QuietState, QuietJudging, Later
<1>7. findings' = findings \cup Verdicts(disk, f, {s})
  <2>1. CASE Unproven(Functions(disk, CrateOf[f]), disk, s.name) /\ s.line \notin disk[f].hidden
    <3>1. Verdicts(disk, f, {s}) = {Vl001(f, s)}
      BY <1>3, <2>1 DEF Verdicts
    <3>. QED BY <1>2, <1>3, <1>4, <2>1, <3>1
  <2>2. CASE ~(Unproven(Functions(disk, CrateOf[f]), disk, s.name) /\ s.line \notin disk[f].hidden)
    <3>1. Verdicts(disk, f, {s}) = {}
      BY <2>2 DEF Verdicts
    <3>. QED BY <1>2, <1>3, <1>4, <2>2, <3>1
  <2>. QED BY <2>1, <2>2
<1>8. LinkedSoFar' = LinkedSoFar \cup Verdicts(disk, f, {s})
  <2>1. disk[f].accounts \ structs' = (disk[f].accounts \ structs) \cup {s}
    BY <1>1, <1>3
  <2>2. Verdicts(disk, f, disk[f].accounts \ structs')
          = Verdicts(disk, f, disk[f].accounts \ structs) \cup Verdicts(disk, f, {s})
    BY <2>1 DEF Verdicts
  <2>3. Behind(linked)' = Behind(linked)
    BY <1>1 DEF Behind, Before, Later
  <2>4. DoneWith' = DoneWith
    BY <1>1, <2>3 DEF DoneWith, Later
  <2>5. InHand' = InHand \cup Verdicts(disk, f, {s})
    BY <1>1, <1>3, <2>2 DEF InHand, Later
  <2>. QED BY <1>1, <2>4, <2>5 DEF LinkedSoFar, Later
<1>9. QuietFindings'
  BY <1>1, <1>3, <1>7, <1>8, QuietLater DEF QuietState, QuietFindings, Later
<1>. QED BY <1>1, <1>3, <1>6, <1>9, QuietLater DEF QuietState

LEMMA QuietEndFile ==
  ASSUME IInv, QuietState, EndFile
  PROVE  QuietState'
<1>1. /\ current # None /\ structs = {} /\ current' = None /\ at' = at + 1
      /\ Later /\ UNCHANGED <<cache, structs, sites, findings>>
  BY DEF EndFile, found, Later
<1>2. phase = "linked" /\ sites = None /\ at \in 1 .. Len(linked) /\ linked \in Seq(File)
  BY <1>1, ElementsOfLists DEF IInv, TypeOK, JudgingInv, WalkInv
<1>3. QuietJudging'
  BY <1>1, <1>2 DEF QuietState, QuietJudging, Later
<1>4. LinkedSoFar' = LinkedSoFar
  <2>1. Behind(linked)' = Behind(linked) \cup {linked[at]}
    BY <1>1, <1>2, BehindGrows DEF Behind, Later
  <2>2. DoneWith = Behind(linked) /\ DoneWith' = DoneWith \cup {linked[at]}
    BY <1>1, <1>2, <2>1 DEF DoneWith, Later
  <2>3. InHand = Verdicts(disk, linked[at], disk[linked[at]].accounts) /\ InHand' = {}
    BY <1>1, <1>2 DEF InHand, Later
  <2>4. VerdictsOn(disk, DoneWith \cup {linked[at]})
          = VerdictsOn(disk, DoneWith) \cup Verdicts(disk, linked[at], disk[linked[at]].accounts)
    BY DEF VerdictsOn
  <2>. QED BY <1>1, <2>2, <2>3, <2>4 DEF LinkedSoFar, Later
<1>5. QuietFiles'
  BY <1>1, <1>2, QuietLater
<1>6. QuietFindings'
  BY <1>1, <1>2, <1>4, QuietLater DEF QuietState, QuietFindings, Later
<1>. QED BY <1>1, <1>2, <1>3, <1>5, <1>6, QuietLater DEF QuietState

LEMMA QuietStepPreserves == IInv /\ QuietInv /\ [Next]_vars => QuietInv'
<1>. SUFFICES ASSUME IInv, QuietInv, [Next]_vars, edits' = 0 PROVE QuietState'
  BY DEF QuietInv
<1>1. ASSUME NEW f \in File, Edit(f) PROVE FALSE
  BY <1>1 DEF Edit, IInv, TypeOK
<1>2. edits = 0
  <2>1. CASE Step
    BY <2>1 DEF Step, Walk, CollectTestMods, NextPhase, SkipTestFile, SkipBrokenFile, CheckFile, ReportManifests,
                Reparse, DropFile, UseSites, Judge, EndFile
  <2>2. CASE UNCHANGED vars
    BY <2>2 DEF vars
  <2>. QED BY <1>1, <2>1, <2>2 DEF Next
<1>3. QuietState
  BY <1>2 DEF QuietInv
<1>4. CASE Step
  <2>1. CASE Walk
    BY <1>3, <2>1, QuietWalk
  <2>2. CASE CollectTestMods
    BY <1>3, <2>2, QuietCollectTestMods
  <2>3. CASE NextPhase
    BY <1>3, <2>3, QuietNextPhase
  <2>4. CASE SkipTestFile
    BY <1>3, <2>4, QuietSkipTestFile
  <2>5. CASE SkipBrokenFile
    BY <1>3, <2>5, QuietSkipBrokenFile
  <2>6. CASE CheckFile
    BY <1>3, <2>6, QuietCheckFile
  <2>7. CASE ReportManifests
    BY <1>3, <2>7, QuietReportManifests
  <2>8. CASE Reparse
    BY <1>3, <2>8, QuietReparse
  <2>9. CASE DropFile
    BY <1>3, <2>9, QuietDropFile
  <2>10. ASSUME NEW s \in structs, UseSites(s) PROVE QuietState'
    BY <1>3, <2>10, QuietUseSites
  <2>11. ASSUME NEW callees \in SUBSET Ident, Judge(callees) PROVE QuietState'
    BY <1>3, <2>11, QuietJudge
  <2>12. CASE EndFile
    BY <1>3, <2>12, QuietEndFile
  <2>. QED BY <1>4, <2>1, <2>2, <2>3, <2>4, <2>5, <2>6, <2>7, <2>8, <2>9, <2>10, <2>11, <2>12 DEF Step
<1>5. CASE UNCHANGED vars
  <2>1. UNCHANGED <<disk, edits, seen, phase, files, at, m3, counts, skipped, roots, index, linked,
                    cache, current, structs, sites, findings>>
    BY <1>5 DEF vars, found, judging
  <2>2. QuietFiles' /\ QuietBooks' /\ LocalFindings' = LocalFindings
    <3>1. Listed' = Listed /\ Passed' = Passed
      BY <2>1 DEF Listed, Passed
    <3>. QED BY <1>3, <2>1, <3>1, QuietBooksStay DEF QuietState, QuietFiles, Behind, Before
  <2>3. QuietJudging'
    BY <1>3, <2>1 DEF QuietState, QuietJudging, Hits, CrateFiles
  <2>4. LinkedSoFar' = LinkedSoFar
    BY <2>1 DEF LinkedSoFar, DoneWith, InHand, Behind, Before
  <2>5. QuietFindings'
    BY <1>3, <2>1, <2>2, <2>4 DEF QuietState, QuietFindings
  <2>. QED BY <2>2, <2>3, <2>5 DEF QuietState
<1>. QED BY <1>1, <1>4, <1>5 DEF Next

\* Each scanned file is counted once.
LEMMA IndexCounts ==
  ASSUME IInv, QuietBooks
  PROVE  Cardinality(Indexed) = Len(index)
<1>. DEFINE PathAt == [n \in 1 .. Len(index) |-> index[n].path]
<1>1. Len(index) \in Nat /\ DOMAIN index = 1 .. Len(index)
  BY ElementsOfLists DEF IInv
<1>2. \A n \in 1 .. Len(index) : PathAt[n] = index[n].path
  OBVIOUS
<1>3. PathAt \in [1 .. Len(index) -> Indexed]
  BY <1>1 DEF Indexed
<1>. HIDE DEF PathAt
<1>4. PathAt \in Injection(1 .. Len(index), Indexed)
  BY <1>1, <1>2, <1>3 DEF Injection, IsInjective, QuietBooks
<1>5. PathAt \in Surjection(1 .. Len(index), Indexed)
  BY <1>1, <1>2, <1>3 DEF Surjection, Indexed
<1>6. ExistsBijection(1 .. Len(index), Indexed)
  BY <1>4, <1>5 DEF ExistsBijection, Bijection
<1>. QED BY <1>1, <1>6, FS_CountingElements

(***************************************************************************)
(* A scan of a tree that nobody touches reports what the rules define for  *)
(* that tree: for any files in any order of the walk, any crates, test     *)
(* declarations and functions, whatever calls are looked up first, no use  *)
(* site of a struct is lost, taken from another crate or judged by the     *)
(* body of another function.                                               *)
(***************************************************************************)
THEOREM QuietScanExact == Spec => []QuietScanIsExact
<1>1. IInv /\ QuietInv => QuietScanIsExact
  <2>. SUFFICES ASSUME IInv, QuietState, phase = "done"
                PROVE  /\ findings = Findings(disk)
                       /\ Skipped = {f \in File \ TestScope(disk) : disk[f] = Broken}
                       /\ counts.scanned = Cardinality(Readable(disk))
    BY DEF QuietInv, QuietScanIsExact
  <2>1. Indexed = Readable(disk)
    BY IndexedIsReadable
  <2>2. findings = Findings(disk)
    <3>1. current = None
      BY DEF IInv, JudgingInv
    <3>2. {linked[k] : k \in DOMAIN linked} = {f \in Readable(disk) : disk[f].accounts # {}}
      BY <2>1 DEF QuietState, QuietBooks
    <3>3. LinkedSoFar = VerdictsOn(disk, {f \in Readable(disk) : disk[f].accounts # {}})
      BY <3>1, <3>2 DEF LinkedSoFar, DoneWith, InHand
    <3>4. \A f \in Readable(disk) : disk[f].accounts = {} => Verdicts(disk, f, disk[f].accounts) = {}
      BY DEF Verdicts
    <3>5. LinkedSoFar = VerdictsOn(disk, Readable(disk))
      BY <3>3, <3>4 DEF VerdictsOn
    <3>. DEFINE W(f) == {Vl001(f, s) : s \in {t \in disk[f].accounts :
                           /\ t.candidate
                           /\ t.line \notin disk[f].hidden
                           /\ Unproven(Functions(disk, CrateOf[f]), disk, t.name)}}
                K == UNION {Kept(f, disk[f]) : f \in Readable(disk)}
    <3>6. \A f : Verdicts(disk, f, disk[f].accounts) = W(f)
      BY DEF Verdicts
    <3>7. LinkedFindings(disk) = UNION {W(f) : f \in Readable(disk)}
      BY DEF LinkedFindings
    <3>8. VerdictsOn(disk, Readable(disk)) = UNION {W(f) : f \in Readable(disk)}
      <4>. HIDE DEF W
      <4>. QED BY <3>6 DEF VerdictsOn
    <3>9. findings = K \cup (ManifestFindings(disk) \cup LinkedSoFar)
      BY <2>1 DEF QuietState, QuietFindings, LocalFindings
    <3>10. Findings(disk) = K \cup LinkedFindings(disk) \cup ManifestFindings(disk)
      BY DEF Findings
    <3>. HIDE DEF K
    <3>. QED BY <3>5, <3>7, <3>8, <3>9, <3>10
  <2>3. Skipped = {f \in File \ TestScope(disk) : disk[f] = Broken}
    <3>1. Passed = {f \in File : disk[f] # Gone} /\ \A f \in File : disk[f] \in Content \cup {Broken, Gone}
      BY DEF QuietState, QuietFiles, Passed, Listed, IInv, TypeOK, OnDisk
    <3>. QED BY <3>1, MarkerAssumption DEF QuietState, QuietBooks
  <2>4. counts.scanned = Cardinality(Readable(disk))
    BY <2>1, IndexCounts DEF QuietState, IInv, CountInv
  <2>. QED BY <2>2, <2>3, <2>4
<1>2. Init => QuietInv
  BY QuietInit DEF QuietInv
<1>3. Init /\ [][Next]_vars => []QuietInv
  <2>1. IInv /\ QuietInv /\ [Next]_vars => QuietInv'
    BY QuietStepPreserves
  <2>. QED BY <1>2, <2>1, InitCorrect, StepPreserves, PTL
<1>. QED BY <1>1, <1>3, Invariant, PTL DEF Spec
=============================================================================
