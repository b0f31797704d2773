-------------------------------- MODULE Join --------------------------------
(***************************************************************************)
(* From declared program ids to marked findings: the collection of ids in  *)
(* scan of src/lib.rs, and annotate of src/onchain.rs, which marks every   *)
(* finding with the live programs its code is part of.                     *)
(*                                                                         *)
(* What a crate compiles in is Reach of Manifests, the answer DepGraph is  *)
(* proved to give; what the cluster answers for an id is the state of its  *)
(* account or "unavailable", as OnChain is checked to do.                  *)
(***************************************************************************)
EXTENDS Manifests, Naturals, Sequences

CONSTANTS
  File,       \* the files phase 1 parses
  Order,      \* their order in the walk
  CrateOf,    \* package_manifest of a file, or None
  Address,    \* program ids
  Trees,      \* the manifests a scan may find
  Sources     \* the ids that the files may declare, each in source order

ASSUME FileAssumption ==
  /\ Order \in Seq(File) /\ {Order[i] : i \in DOMAIN Order} = File
  /\ CrateOf \in [File -> Manifest \cup {None}]
  /\ File \cap Manifest = {}

ASSUME InputAssumption ==
  /\ Trees \subseteq [Manifest -> OnDisk]
  /\ Sources \subseteq [File -> Seq(Address)]

Live == {"immutable", "frozen", "upgradeable"}

VARIABLES
  disk,           \* the manifests
  declares,       \* the ids each file declares
  chain,          \* the state of every account
  online,         \* whether there is an rpc_url
  phase,          \* "collect", "live", "mark", "done"
  at,             \* the next file, deployment or live program
  next,           \* the next id of the file
  program_ids,    \* what was collected
  deployments,    \* what was answered
  live,           \* the live programs with their crates and their workspace
  findings        \* one per file and per root manifest, with its live_at

vars == <<disk, declares, chain, online, phase, at, next, program_ids, deployments, live, findings>>

\* A finding in every file, and one on every manifest that is a workspace root.
Places == File \cup ({RootOf[m] : m \in Manifest} \ {None})

Init ==
  /\ disk \in Trees
  /\ declares \in Sources
  /\ chain \in [Address -> {"absent", "frozen", "upgradeable"}]
  /\ online \in BOOLEAN
  /\ phase = "collect"
  /\ at = 1
  /\ next = 1
  /\ program_ids = <<>>
  /\ deployments = <<>>
  /\ live = <<>>
  /\ findings = [p \in Places |-> <<>>]

Collected == {program_ids[i].address : i \in DOMAIN program_ids}

(***************************************************************************)
(* The next id of programid::collect for one file.  An address that an     *)
(* earlier file declared is not collected again, whatever crate that file  *)
(* belongs to.                                                             *)
(***************************************************************************)
Collect ==
  /\ phase = "collect"
  /\ at <= Len(Order)
  /\ next <= Len(declares[Order[at]])
  /\ LET a == declares[Order[at]][next]
     IN  program_ids' = IF a \in Collected THEN program_ids
                        ELSE Append(program_ids, [address |-> a, file |-> Order[at]])
  /\ next' = next + 1
  /\ UNCHANGED <<disk, declares, chain, online, phase, at, deployments, live, findings>>

NextFile ==
  /\ phase = "collect"
  /\ at <= Len(Order)
  /\ next > Len(declares[Order[at]])
  /\ at' = at + 1
  /\ next' = 1
  /\ UNCHANGED <<disk, declares, chain, online, phase, program_ids, deployments, live, findings>>

\* Everything is collected; without an endpoint nobody is asked.
Resolve ==
  /\ phase = "collect"
  /\ at > Len(Order)
  /\ IF online
     THEN \E unheard \in SUBSET DOMAIN program_ids :
            deployments' = [i \in DOMAIN program_ids |->
              [declared |-> program_ids[i],
               state |-> IF i \in unheard THEN "unavailable" ELSE chain[program_ids[i].address]]]
     ELSE deployments' = <<>>
  /\ phase' = "live"
  /\ at' = 1
  /\ UNCHANGED <<disk, declares, chain, online, next, program_ids, live, findings>>

Traced(d) ==
  LET crate == CrateOf[d.declared.file]
  IN  [address     |-> d.declared.address,
       compiled_in |-> IF crate = None THEN {} ELSE Reach(disk, crate),
       workspace   |-> IF crate = None THEN None ELSE RootOf[crate]]

\* Mutants of Trace: whatever is deployed counts as live; the first that is not ends the list.
TraceAll ==
  /\ phase = "live"
  /\ at <= Len(deployments)
  /\ live' = Append(live, Traced(deployments[at]))
  /\ at' = at + 1
  /\ UNCHANGED <<disk, declares, chain, online, phase, next, program_ids, deployments, findings>>

TraceUntilDead ==
  /\ phase = "live"
  /\ at <= Len(deployments)
  /\ IF deployments[at].state \in Live
     THEN live' = Append(live, Traced(deployments[at])) /\ at' = at + 1
     ELSE live' = live /\ at' = Len(deployments) + 1
  /\ UNCHANGED <<disk, declares, chain, online, phase, next, program_ids, deployments, findings>>

\* The crates and the workspace of one live deployment.
Trace ==
  /\ phase = "live"
  /\ at <= Len(deployments)
  /\ live' = IF deployments[at].state \in Live THEN Append(live, Traced(deployments[at])) ELSE live
  /\ at' = at + 1
  /\ UNCHANGED <<disk, declares, chain, online, phase, next, program_ids, deployments, findings>>

IsPart(program, p) ==
  IF p \in File THEN CrateOf[p] \in program.compiled_in ELSE program.workspace = p

\* All are traced; when none is live nothing is marked.
StartMarks ==
  /\ phase = "live"
  /\ at > Len(deployments)
  /\ phase' = IF live = <<>> THEN "done" ELSE "mark"
  /\ at' = 1
  /\ UNCHANGED <<disk, declares, chain, online, next, program_ids, deployments, live, findings>>

(***************************************************************************)
(* The list of addresses of every finding grows by the next program if the *)
(* finding is part of it.  The code makes the lists one after the other;   *)
(* they do not depend on each other.                                       *)
(***************************************************************************)
Mark ==
  /\ phase = "mark"
  /\ at <= Len(live)
  /\ findings' = [p \in Places |->
       IF IsPart(live[at], p) THEN Append(findings[p], live[at].address) ELSE findings[p]]
  /\ at' = at + 1
  /\ UNCHANGED <<disk, declares, chain, online, phase, next, program_ids, deployments, live>>

EndMarks ==
  /\ phase = "mark"
  /\ at > Len(live)
  /\ phase' = "done"
  /\ UNCHANGED <<disk, declares, chain, online, at, next, program_ids, deployments, live, findings>>

Next == Collect \/ NextFile \/ Resolve \/ Trace \/ StartMarks \/ Mark \/ EndMarks

Spec == Init /\ [][Next]_vars

----------------------------------------------------------------------------
Marks(p) == {findings[p][i] : i \in DOMAIN findings[p]}

Declarers(a) == {f \in File : \E i \in DOMAIN declares[f] : declares[f][i] = a}

\* The crate of f compiles in the code at p, or belongs to the workspace whose root p is.
Runs(f, p) ==
  /\ CrateOf[f] # None
  /\ IF p \in File THEN CrateOf[p] \in Reach(disk, CrateOf[f]) ELSE RootOf[CrateOf[f]] = p

(***************************************************************************)
(* "This defect is in code that is executing at this address": a mark is   *)
(* only made for an address that a file declares whose crate compiles in   *)
(* the finding's crate (for a manifest: that belongs to its workspace),    *)
(* and that the cluster was heard to hold a program at.  Each mark once.   *)
(***************************************************************************)
MarksAreTrue ==
  phase = "done" =>
    \A p \in Places :
      /\ \A i, j \in DOMAIN findings[p] : findings[p][i] = findings[p][j] => i = j
      /\ \A a \in Marks(p) : /\ chain[a] \in Live
                             /\ online
                             /\ \E f \in Declarers(a) : Runs(f, p)

\* a was asked for and the answer arrived.
Heard(a) ==
  \E i \in DOMAIN deployments :
    deployments[i].declared.address = a /\ deployments[i].state # "unavailable"

(***************************************************************************)
(* No mark is missing where one crate alone declares the address, whatever *)
(* else is deployed or could not be asked.                                 *)
(***************************************************************************)
SoleDeclarerIsMarked ==
  phase = "done" =>
    \A p \in Places, a \in Address : \A f \in File :
      /\ \A g \in Declarers(a) : CrateOf[g] = CrateOf[f]
      /\ f \in Declarers(a)
      /\ Runs(f, p) /\ Heard(a) /\ chain[a] \in Live
      => a \in Marks(p)

(***************************************************************************)
(* "A finding is marked with an address when its crate is compiled into    *)
(* the program deployed there", and one on a manifest "takes the whole     *)
(* workspace's live ids": every crate that declares a live id counts.      *)
(***************************************************************************)
EveryDeclarerIsMarked ==
  phase = "done" =>
    \A a \in Address : \A f \in Declarers(a), p \in Places :
      Runs(f, p) /\ Heard(a) /\ chain[a] \in Live => a \in Marks(p)
============================================================================
