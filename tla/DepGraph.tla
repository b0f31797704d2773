------------------------------ MODULE DepGraph ------------------------------
(***************************************************************************)
(* DepGraph of src/depgraph.rs: the closures annotate asks for, one after  *)
(* the other, over one parse cache, while the manifests on disk may be     *)
(* edited between two reads.                                               *)
(*                                                                         *)
(* closure keeps a stack of manifests.  A step of the model is one turn of *)
(* its loop.  A turn reads at most the popped manifest and its workspace   *)
(* root, each at most once in a run; an edit between those two reads has   *)
(* the effect of an edit before the turn, so the turn is one step.         *)
(***************************************************************************)
EXTENDS Manifests, Naturals, Sequences, Functions

CONSTANTS
  MaxCalls,   \* bound: calls of closure, one per live deployment
  MaxEdits    \* bound: edits of files by others during the run

ASSUME BoundAssumption == MaxCalls \in Nat /\ MaxEdits \in Nat

VARIABLES
  disk,       \* the manifests as they are now
  edits,      \* how often they were changed
  parsed,     \* DepGraph.parsed
  active,     \* the manifest closure was called with, None between calls
  reached,    \* the set closure is building
  pending,    \* its stack
  answers     \* what the calls have returned

vars == <<disk, edits, parsed, active, reached, pending, answers>>

Init ==
  /\ disk \in [Manifest -> OnDisk]
  /\ edits = 0
  /\ parsed = [m \in Manifest |-> Unread]
  /\ active = None
  /\ reached = {}
  /\ pending = <<>>
  /\ answers = <<>>

\* Someone saves or removes a manifest.
Edit(m) ==
  /\ edits < MaxEdits
  /\ disk' \in {[disk EXCEPT ![m] = c] : c \in OnDisk}
  /\ edits' = edits + 1
  /\ UNCHANGED <<parsed, active, reached, pending, answers>>

\* Mutant of Parse: nothing is cached.
ParseAgain(n) == disk[n]

\* DepGraph::parse: the cache answers for what it holds, the disk for the rest.
Parse(n) == IF parsed[n] # Unread THEN parsed[n] ELSE disk[n]

ParseAll(ns) == [n \in Manifest |-> IF n \in ns THEN Parse(n) ELSE parsed[n]]

\* Mutant of Call: the set of the last call is not cleared.
CallGoesOn(r) ==
  /\ active = None
  /\ Len(answers) < MaxCalls
  /\ active' = r
  /\ pending' = <<r>>
  /\ UNCHANGED <<disk, edits, parsed, reached, answers>>

\* closure is called for the crate of a live program id.
Call(r) ==
  /\ active = None
  /\ Len(answers) < MaxCalls
  /\ active' = r
  /\ reached' = {}
  /\ pending' = <<r>>
  /\ UNCHANGED <<disk, edits, parsed, answers>>

Top == pending[Len(pending)]
Popped == SubSeq(pending, 1, Len(pending) - 1)

\* Mutants of Skip: `break` for `continue`; the top is looked at and not popped.
SkipAll ==
  /\ pending # <<>>
  /\ Top \in reached
  /\ pending' = <<>>
  /\ UNCHANGED <<disk, edits, parsed, active, reached, answers>>

SkipNothing ==
  /\ pending # <<>>
  /\ Top \in reached
  /\ UNCHANGED vars

\* `continue`: the popped manifest was reached before.
Skip ==
  /\ pending # <<>>
  /\ Top \in reached
  /\ pending' = Popped
  /\ UNCHANGED <<disk, edits, parsed, active, reached, answers>>

\* Mutant of Expand: a manifest in the set is expanded again.
ExpandAgain ==
  /\ pending # <<>>
  /\ reached' = reached \cup {Top}
  /\ parsed' = ParseAll(Consults(Parse(Top), Top))
  /\ \E order \in Bijection(1 .. Cardinality(Local(parsed', Top)), Local(parsed', Top)) :
       pending' = Popped \o [i \in DOMAIN order |-> Target(parsed', Top, order[i])]
  /\ UNCHANGED <<disk, edits, active, answers>>

(***************************************************************************)
(* A manifest popped for the first time.  Its local entries are pushed in  *)
(* the order of the tables, which is any order here: one push per entry,   *)
(* so a crate named twice is pushed twice.                                 *)
(***************************************************************************)
Expand ==
  /\ pending # <<>>
  /\ Top \notin reached
  /\ reached' = reached \cup {Top}
  /\ parsed' = ParseAll(Consults(Parse(Top), Top))
  /\ \E order \in Bijection(1 .. Cardinality(Local(parsed', Top)), Local(parsed', Top)) :
       pending' = Popped \o [i \in DOMAIN order |-> Target(parsed', Top, order[i])]
  /\ UNCHANGED <<disk, edits, active, answers>>

Return ==
  /\ active # None
  /\ pending = <<>>
  /\ answers' = Append(answers, [root |-> active, reached |-> reached])
  /\ active' = None
  /\ UNCHANGED <<disk, edits, parsed, reached, pending>>

Next ==
  \/ \E m \in Manifest : Edit(m)
  \/ \E r \in Manifest : Call(r)
  \/ Skip
  \/ Expand
  \/ Return

\* Once called, closure runs to its end; whether it is called is the caller's choice.
Fairness == WF_vars(Skip \/ Expand \/ Return)

Spec == Init /\ [][Next]_vars /\ Fairness

----------------------------------------------------------------------------
\* The type of every variable.
TypeOK ==
  /\ disk \in [Manifest -> OnDisk]
  /\ edits \in 0 .. MaxEdits
  /\ parsed \in Reads
  /\ active \in Manifest \cup {None}
  /\ reached \in SUBSET Manifest
  /\ pending \in Seq(Manifest)
  /\ answers \in Seq([root : Manifest, reached : SUBSET Manifest])

(***************************************************************************)
(* Every closure returned is the least set that holds its root and is      *)
(* closed under what ships, in the manifests as DepGraph read them: cycles *)
(* and shared crates included, nothing optional, dev-only or build-only.   *)
(***************************************************************************)
ClosureIsLeast ==
  \A i \in DOMAIN answers : answers[i].reached = Reach(parsed, answers[i].root)

(***************************************************************************)
(* The answers of one run tell one story, even when files are edited       *)
(* between the calls: a crate compiled into a program brings everything    *)
(* its own answer lists, and a crate asked for twice is answered alike.    *)
(* The parse cache is what makes it so.                                    *)
(***************************************************************************)
AnswersAgree ==
  \A i, j \in DOMAIN answers :
    answers[j].root \in answers[i].reached => answers[j].reached \subseteq answers[i].reached

(***************************************************************************)
(* "A manifest already in the set is never expanded twice": a turn of the  *)
(* loop that pushes has just reached a new manifest, and a turn that       *)
(* reaches nothing shrinks the stack.  Cycles terminate for this reason.   *)
(***************************************************************************)
ExpandedOnce ==
  [][active # None /\ active' = active
       => \/ reached' # reached
          \/ Len(pending') < Len(pending)
          \/ UNCHANGED <<reached, pending>>]_vars

\* Every call returns, whatever cycle the manifests spell.
CallReturns == active # None ~> active = None

(***************************************************************************)
(* Why ClosureIsLeast holds.  While a call is active, what is reached or   *)
(* pending holds the root, holds what every reached manifest compiles in,  *)
(* and lies in every closed set that holds the root.  An answer keeps      *)
(* these facts because all it depends on is in the cache.                  *)
(***************************************************************************)
Worklist == reached \cup Range(pending)

Justified(r, S) ==
  \A T \in SUBSET Manifest : r \in T /\ Closed(parsed, T) => S \subseteq T

WorklistInv ==
  active # None => /\ active \in Worklist
                   /\ Settled(parsed, reached)
                   /\ \A m \in reached : PathDependencies(parsed, m) \subseteq Worklist
                   /\ Justified(active, Worklist)

AnswersInv ==
  \A i \in DOMAIN answers : /\ answers[i].root \in answers[i].reached
                            /\ Settled(parsed, answers[i].reached)
                            /\ Closed(parsed, answers[i].reached)
                            /\ Justified(answers[i].root, answers[i].reached)

ClosureInv == /\ active = None => pending = <<>>
              /\ WorklistInv
              /\ AnswersInv

Abstract == INSTANCE ClosureSpec

\* The worklist implements the promise of ClosureSpec.
ImplementsClosure == Abstract!Spec
============================================================================
