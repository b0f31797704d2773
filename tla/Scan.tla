-------------------------------- MODULE Scan --------------------------------
(***************************************************************************)
(* scan of src/lib.rs with the use-site index of src/usesite.rs, while the *)
(* files may be edited, broken or removed between two reads.               *)
(*                                                                         *)
(* A file is read up to four times: for the #[cfg(test)] declarations of   *)
(* the whole tree, by the file-local rules, by the linked rule, and to get *)
(* at the bodies of the functions the index found.  A step of the model    *)
(* reads any one file at most once.                                        *)
(***************************************************************************)
EXTENDS Sources

CONSTANTS
  Trees,       \* the trees a scan may start on
  MaxEdits     \* bound: changes of files during the scan

ASSUME BoundAssumption == Trees \subseteq [File -> OnDisk] /\ MaxEdits \in Nat

VARIABLES
  disk,        \* the files as they are now
  edits,       \* how often they were changed
  seen,        \* history: the contents every file has had
  phase,       \* "walk", "m3", "local", "manifests", "linked", "done"
  files,       \* all_files
  at,          \* the next position in the list of the phase
  m3,          \* m3_set
  counts,      \* files_scanned and test_files_skipped
  skipped,     \* the SkippedFile list
  roots,       \* onchain_roots and roots_without_overflow_checks
  index,       \* UseSiteIndex.files
  linked,      \* linked_files
  cache,       \* UseSiteIndex.parsed
  current,     \* the content phase 2 works on, None between files
  structs,     \* its Accounts structs that are still to be judged
  sites,       \* the use sites of the struct being judged, None before
  findings     \* the findings kept so far

found == <<counts, skipped, roots, index, linked>>
judging == <<cache, current, structs, sites>>
vars == <<disk, edits, seen, phase, files, at, m3, found, judging, findings>>

Init ==
  /\ disk \in Trees
  /\ edits = 0
  /\ seen = [f \in File |-> {disk[f]}]
  /\ phase = "walk"
  /\ files = <<>>
  /\ at = 1
  /\ m3 = {}
  /\ counts = [scanned |-> 0, tests |-> 0]
  /\ skipped = <<>>
  /\ roots = [onchain |-> {}, unchecked |-> {}]
  /\ index = <<>>
  /\ linked = <<>>
  /\ cache = [f \in File |-> None]
  /\ current = None
  /\ structs = {}
  /\ sites = None
  /\ findings = {}

\* Someone saves, breaks or removes a file.
Edit(f) ==
  /\ edits < MaxEdits
  /\ phase # "done"
  /\ \E c \in OnDisk : /\ disk' = [disk EXCEPT ![f] = c]
                       /\ seen' = [seen EXCEPT ![f] = @ \cup {c}]
  /\ edits' = edits + 1
  /\ UNCHANGED <<phase, files, at, m3, found, judging, findings>>

----------------------------------------------------------------------------
\* rust_files, one entry of the directory walk.
Walk ==
  /\ phase = "walk"
  /\ at <= Len(Order)
  /\ files' = IF disk[Order[at]] # Gone THEN Append(files, Order[at]) ELSE files
  /\ at' = at + 1
  /\ UNCHANGED <<disk, edits, seen, phase, m3, found, judging, findings>>

\* collect_m3_set, one file of the list.
CollectTestMods ==
  /\ phase = "m3"
  /\ at <= Len(files)
  /\ m3' = m3 \cup TestTargets(disk, disk[files[at]])
  /\ at' = at + 1
  /\ UNCHANGED <<disk, edits, seen, phase, files, found, judging, findings>>

\* The list of a phase is used up.
NextPhase ==
  /\ \/ phase = "walk" /\ at > Len(Order) /\ phase' = "m3"
     \/ phase = "m3" /\ at > Len(files) /\ phase' = "local"
     \/ phase = "local" /\ at > Len(files) /\ phase' = "manifests"
     \/ phase = "linked" /\ at > Len(linked) /\ phase' = "done"
  /\ at' = 1
  /\ UNCHANGED <<disk, edits, seen, files, m3, found, judging, findings>>

InTestScope(f) == f \in TestPath \/ f \in m3

SkipTestFile ==
  /\ phase = "local"
  /\ at <= Len(files)
  /\ InTestScope(files[at])
  /\ counts' = [counts EXCEPT !.tests = @ + 1]
  /\ at' = at + 1
  /\ UNCHANGED <<disk, edits, seen, phase, files, m3, skipped, roots, index, linked, judging, findings>>

\* Mutant of SkipBrokenFile: the file vanishes.
DropBrokenFile ==
  /\ phase = "local"
  /\ at <= Len(files)
  /\ ~InTestScope(files[at])
  /\ disk[files[at]] \notin Content
  /\ at' = at + 1
  /\ UNCHANGED <<disk, edits, seen, phase, files, m3, found, judging, findings>>

SkipBrokenFile ==
  /\ phase = "local"
  /\ at <= Len(files)
  /\ ~InTestScope(files[at])
  /\ disk[files[at]] \notin Content
  /\ skipped' = Append(skipped, files[at])
  /\ at' = at + 1
  /\ UNCHANGED <<disk, edits, seen, phase, files, m3, counts, roots, index, linked, judging, findings>>

CheckFile ==
  /\ phase = "local"
  /\ at <= Len(files)
  /\ ~InTestScope(files[at])
  /\ disk[files[at]] \in Content
  /\ LET f == files[at]
         content == disk[f]
         root == {RootOf[f]} \ {None}
     IN  /\ counts' = [counts EXCEPT !.scanned = @ + 1]
         /\ findings' = findings \cup Kept(f, content)
         /\ roots' = [onchain   |-> roots.onchain \cup IF content.onchain THEN root ELSE {},
                      unchecked |-> roots.unchecked \cup (root \cap Unchecked)]
         /\ linked' = IF content.accounts # {} THEN Append(linked, f) ELSE linked
         /\ index' = Append(index, [path |-> f, facts |-> content.facts])
  /\ at' = at + 1
  /\ UNCHANGED <<disk, edits, seen, phase, files, m3, skipped, judging>>

ReportManifests ==
  /\ phase = "manifests"
  /\ findings' = findings \cup {Manifest(r) : r \in roots.unchecked \cap roots.onchain \cap InScan}
  /\ phase' = "linked"
  /\ UNCHANGED <<disk, edits, seen, files, at, m3, found, judging>>

----------------------------------------------------------------------------
(***************************************************************************)
(* The use-site index: functions are found by the facts of phase 1 and     *)
(* their bodies by ordinal in a file that is read again.                   *)
(***************************************************************************)
\* Mutant of CrateFiles: every file of the scan.
AllFiles(from) == DOMAIN index

CrateFiles(from) == {n \in DOMAIN index : CrateOf[index[n].path] = CrateOf[from]}

\* Mutant of Hits: one hit per function, spelled the first way that fits.
FirstHits(from, struct) ==
  {h \in [file : CrateFiles(from), ordinal : UNION {DOMAIN index[n].facts : n \in CrateFiles(from)}, mode : Mode] :
     /\ h.ordinal \in DOMAIN index[h.file].facts
     /\ Addresses(index[h.file].facts[h.ordinal], struct, h.mode)
     /\ h.mode = "self" => ~Addresses(index[h.file].facts[h.ordinal], struct, "context")}

\* push_hit keeps one hit per function and spelling.
Hits(from, struct) ==
  {h \in [file : CrateFiles(from), ordinal : UNION {DOMAIN index[n].facts : n \in CrateFiles(from)}, mode : Mode] :
     /\ h.ordinal \in DOMAIN index[h.file].facts
     /\ Addresses(index[h.file].facts[h.ordinal], struct, h.mode)}

HitsNamed(from, callees) ==
  {h \in [file : CrateFiles(from), ordinal : UNION {DOMAIN index[n].facts : n \in CrateFiles(from)}] :
     /\ h.ordinal \in DOMAIN index[h.file].facts
     /\ index[h.file].facts[h.ordinal].name \in callees}

\* `bodies` reads the files of the hits it does not hold; failures are not remembered.
Load(hits) ==
  [f \in File |-> IF cache[f] = None /\ (\E h \in hits : index[h.file].path = f) /\ disk[f] \in Content
                  THEN disk[f]
                  ELSE cache[f]]

\* `materialise`: hits whose file or ordinal has vanished are dropped.
Present(loaded, hits) ==
  {h \in hits : LET c == loaded[index[h.file].path] IN c # None /\ h.ordinal \in DOMAIN c.bodies}

BodyOf(h) == cache[index[h.file].path].bodies[h.ordinal]

----------------------------------------------------------------------------
(***************************************************************************)
(* Phase 2.                                                                *)
(***************************************************************************)
Reparse ==
  /\ phase = "linked"
  /\ current = None
  /\ at <= Len(linked)
  /\ disk[linked[at]] \in Content
  /\ current' = disk[linked[at]]
  /\ structs' = {s \in current'.accounts : s.candidate}
  /\ UNCHANGED <<disk, edits, seen, phase, files, at, m3, found, cache, sites, findings>>

\* Mutant of DropFile: the file is tried again.
RetryFile ==
  /\ phase = "linked"
  /\ current = None
  /\ at <= Len(linked)
  /\ disk[linked[at]] \notin Content
  /\ UNCHANGED vars

\* `let Ok(file) = .. else { continue }`: accepted by phase 1, unreadable now.
DropFile ==
  /\ phase = "linked"
  /\ current = None
  /\ at <= Len(linked)
  /\ disk[linked[at]] \notin Content
  /\ at' = at + 1
  /\ UNCHANGED <<disk, edits, seen, phase, files, m3, found, judging, findings>>

\* Mutant of UseSites: the struct is taken off the list before it is judged.
TakeUseSites(s) ==
  /\ s \in structs
  /\ sites = None
  /\ LET hits == Hits(linked[at], s.name)
     IN  /\ cache' = Load(hits)
         /\ sites' = [struct |-> s, hits |-> Present(cache', hits)]
  /\ structs' = structs \ {s}
  /\ UNCHANGED <<disk, edits, seen, phase, files, at, m3, found, current, findings>>

UseSites(s) ==
  /\ s \in structs
  /\ sites = None
  /\ LET hits == Hits(linked[at], s.name)
     IN  /\ cache' = Load(hits)
         /\ sites' = [struct |-> s, hits |-> Present(cache', hits)]
  /\ UNCHANGED <<disk, edits, seen, phase, files, at, m3, found, current, structs, findings>>

(***************************************************************************)
(* T5 and S4 of VL001 over the use sites.  A body that forwards the field  *)
(* is followed one call on; the search stops at the first proof, so only   *)
(* some of the callees may have been looked up when there is one.          *)
(***************************************************************************)
Judge(callees) ==
  /\ sites # None
  /\ LET s == sites.struct
         forwarded == {c \in UNION {BodyOf(h).forwards : h \in sites.hits} : c.callee \in callees}
         writesKey == \E h \in sites.hits : h.mode \in BodyOf(h).key
         asked == HitsNamed(linked[at], IF writesKey THEN callees ELSE {})
         loaded == Load(asked)
         proven == \/ \E h \in sites.hits : h.mode \in BodyOf(h).signer
                   \/ \E c \in forwarded : \E h \in Present(loaded, asked) :
                        /\ index[h.file].facts[h.ordinal].name = c.callee
                        /\ ChecksArgument(index[h.file].facts[h.ordinal],
                                          loaded[index[h.file].path].bodies[h.ordinal], c.position)
     IN  /\ callees \subseteq {c.callee : c \in UNION {BodyOf(h).forwards : h \in sites.hits}}
         /\ writesKey /\ ~proven
              => callees = {c.callee : c \in UNION {BodyOf(h).forwards : h \in sites.hits}}
         /\ cache' = loaded
         /\ findings' = findings \cup
              IF writesKey /\ ~proven /\ s.line \notin current.hidden
              THEN {Vl001(linked[at], s)} ELSE {}
         /\ structs' = structs \ {s}
  /\ sites' = None
  /\ UNCHANGED <<disk, edits, seen, phase, files, at, m3, found, current>>

EndFile ==
  /\ current # None
  /\ structs = {}
  /\ current' = None
  /\ at' = at + 1
  /\ UNCHANGED <<disk, edits, seen, phase, files, m3, found, cache, structs, sites, findings>>

Step ==
  \/ Walk
  \/ CollectTestMods
  \/ NextPhase
  \/ SkipTestFile
  \/ SkipBrokenFile
  \/ CheckFile
  \/ ReportManifests
  \/ Reparse
  \/ DropFile
  \/ \E s \in structs : UseSites(s)
  \/ \E callees \in SUBSET Ident : Judge(callees)
  \/ EndFile

Next == Step \/ \E f \in File : Edit(f)

\* The scan is one thread that runs to its end.
Spec == Init /\ [][Next]_vars /\ WF_vars(Step)
----------------------------------------------------------------------------
\* The type of every variable.
TypeOK ==
  /\ disk \in [File -> OnDisk]
  /\ edits \in 0 .. MaxEdits
  /\ seen \in [File -> SUBSET OnDisk]
  /\ phase \in {"walk", "m3", "local", "manifests", "linked", "done"}
  /\ files \in Seq(File) /\ linked \in Seq(File) /\ skipped \in Seq(File)
  /\ at \in Nat
  /\ m3 \subseteq File
  /\ counts \in [scanned : Nat, tests : Nat]
  /\ index \in Seq([path : File, facts : {c.facts : c \in Content}])
  /\ cache \in [File -> Content \cup {None}]
  /\ current \in Content \cup {None}
  /\ structs \subseteq Accounts
  /\ sites # None => sites.struct \in structs

Skipped == {skipped[i] : i \in DOMAIN skipped}

(***************************************************************************)
(* "A file turned away must say so, not vanish": every file the walk found *)
(* is counted as scanned, counted as test code or listed as skipped, once, *)
(* whatever happens to the files; and the findings are about the scanned   *)
(* files alone.                                                            *)
(***************************************************************************)
NothingVanishes ==
  phase \notin {"walk", "m3", "local"} =>
    /\ counts.scanned + counts.tests + Len(skipped) = Len(files)
    /\ counts.scanned = Len(index)
    /\ \A f \in Skipped : \A n \in DOMAIN index : index[n].path # f
    /\ \A x \in findings : x.file \in File => \E n \in DOMAIN index : index[n].path = x.file

(***************************************************************************)
(* A scan of a tree nobody touches reports exactly what the rules define   *)
(* for that tree: independent of the order of the files, with the use      *)
(* sites of one crate never mixed with another's, none lost to another     *)
(* with the same name, and the bodies fetched by ordinal the right ones.   *)
(***************************************************************************)
QuietScanIsExact ==
  phase = "done" /\ edits = 0 =>
    /\ findings = Findings(disk)
    /\ Skipped = {f \in File \ TestScope(disk) : disk[f] = Broken}
    /\ counts.scanned = Cardinality(Readable(disk))

(***************************************************************************)
(* Even on a tree that changes under it, the scan invents nothing: a VL001 *)
(* finding stands for a struct and an unsuppressed line that its file once *)
(* held together, and for a function of the same crate that addressed a    *)
(* struct of that name and a body of that function's file that wrote a     *)
(* key; a finding of a file-local rule for a line that was once reported   *)
(* and not hidden.                                                         *)
(***************************************************************************)
Explained(x) ==
  \E c \in seen[x.file] \cap Content :
    \/ x \in Kept(x.file, c)
    \/ \E s \in c.accounts :
         /\ s.candidate /\ s.line \notin c.hidden /\ x = Vl001(x.file, s)
         /\ \E g \in File : \E old, new \in seen[g] \cap Content : \E mode \in Mode :
              /\ CrateOf[g] = CrateOf[x.file]
              /\ \E i \in DOMAIN old.facts \cap DOMAIN new.bodies :
                   Addresses(old.facts[i], s.name, mode) /\ mode \in new.bodies[i].key

FindingsAreExplained == \A x \in findings : x.file \in File => Explained(x)

\* The scan ends, whatever the tree and however it changes.
Terminates == <>(phase = "done")
============================================================================
