------------------------------ MODULE OnChain ------------------------------
(***************************************************************************)
(* resolve of src/onchain.rs: asks a cluster what is deployed at the       *)
(* declared program ids, in batches, in two passes, over a connection that *)
(* loses requests and garbles replies, while the cluster goes on changing. *)
(*                                                                         *)
(* The first pass reads the program accounts, the second the ProgramData   *)
(* accounts that those under the upgradeable loader point at.  One reply   *)
(* is one snapshot of the cluster; two replies are not.                    *)
(***************************************************************************)
EXTENDS Accounts, Sequences, FiniteSets, Functions

CONSTANTS
  IdLists,       \* the lists of declared ids resolve may be called with
  Clusters,      \* the clusters a run may start on
  DataOf,        \* the ProgramData address the loader derives from a program's
  Authorities,   \* the keys programs are deployed with
  Batch,         \* accounts per request; 100 in the code
  MaxAttempts,   \* requests per call; 4 in the code
  MaxEvents      \* bound: changes of the cluster during the run

ASSUME ListAssumption == IdLists \subseteq Seq(Address)
ASSUME ClusterAssumption == Clusters \subseteq Cluster
ASSUME LoaderAssumption ==
  /\ Authorities \subseteq Address
  /\ DOMAIN DataOf \subseteq Address
  /\ \A a \in DOMAIN DataOf : DataOf[a] \in Address
  /\ \A a \in DOMAIN DataOf : Junk \notin {a, DataOf[a]} /\ a # DataOf[a]
ASSUME LimitAssumption == Batch \in Nat \ {0} /\ MaxAttempts \in Nat \ {0} /\ MaxEvents \in Nat

VARIABLES
  cluster,    \* what every address holds now
  events,     \* how often that changed
  ids,        \* the declared addresses, without duplicates
  pass,       \* "programs", "data", then "done"
  out,        \* the deployments, one per id
  pending,    \* the second pass: where to write, and which account to ask for
  asked,      \* how many entries of this pass's list have been dealt with
  attempt,    \* failed requests of the current call
  held,       \* history: all that each address held since the start
  unheard     \* history: the ids for which a call failed or a reply was garbled

resolving == <<ids, pass, out, pending, asked, attempt>>
vars == <<cluster, events, resolving, held, unheard>>

Init ==
  /\ cluster \in Clusters
  /\ events = 0
  /\ ids \in IdLists
  /\ pass = IF ids = <<>> THEN "done" ELSE "programs"
  /\ out = <<>>
  /\ pending = <<>>
  /\ asked = 0
  /\ attempt = 0
  /\ held = [a \in Address |-> {cluster[a]}]
  /\ unheard = {}

----------------------------------------------------------------------------
(***************************************************************************)
(* The cluster.  Each change is one transaction of the upgradeable loader. *)
(***************************************************************************)
Change(c) ==
  /\ events < MaxEvents
  /\ pass # "done"
  /\ cluster' = c
  /\ events' = events + 1
  /\ held' = [a \in Address |-> held[a] \cup {c[a]}]
  /\ UNCHANGED <<resolving, unheard>>

Deploy(a, k) ==
  /\ cluster[a] = None /\ cluster[DataOf[a]] = None
  /\ Change([cluster EXCEPT
       ![a] = [kind |-> "program", pointer |-> DataOf[a], authority |-> None, slot |-> 0],
       ![DataOf[a]] = [kind |-> "data", pointer |-> None, authority |-> k, slot |-> 1]])

HoldsCode(d) == cluster[d] # None /\ cluster[d].kind = "data" /\ cluster[d].authority # None

Upgrade(d) ==
  /\ HoldsCode(d)
  /\ Change([cluster EXCEPT ![d].slot = @ + 1])

Revoke(d) ==
  /\ HoldsCode(d)
  /\ Change([cluster EXCEPT ![d].authority = None])

Close(d) ==
  /\ HoldsCode(d)
  /\ Change([cluster EXCEPT ![d] = None])

----------------------------------------------------------------------------
(***************************************************************************)
(* One call covers the next Batch entries of the pass's list.              *)
(***************************************************************************)
Total == IF pass = "programs" THEN Len(ids) ELSE Len(pending)

Asking == pass \in {"programs", "data"} /\ asked < Total

ChunkEnd == IF asked + Batch < Total THEN asked + Batch ELSE Total

\* The entries of this chunk, and the id, the account and the place in `out` of each.
Chunk == asked + 1 .. ChunkEnd
IndexOf(i) == IF pass = "programs" THEN i ELSE pending[i].index
AddressOf(i) == IF pass = "programs" THEN ids[i] ELSE pending[i].address

\* Mutant of Record: the ids are counted from the start of the chunk.
RecordFromOne(state) ==
  /\ out' = IF pass = "programs"
            THEN [n \in 1 .. ChunkEnd |->
                    IF n \in Chunk THEN [declared |-> ids[n - asked], state |-> state[n]] ELSE out[n]]
            ELSE [n \in 1 .. Len(out) |->
                    IF \E i \in Chunk : pending[i].index = n
                    THEN [declared |-> out[n].declared,
                          state |-> state[CHOOSE i \in Chunk : pending[i].index = n]]
                    ELSE out[n]]
  /\ asked' = ChunkEnd
  /\ attempt' = 0
  /\ UNCHANGED <<cluster, events, ids, pass, pending, held>>

\* Writes the chunk's states: appended in the first pass, in place in the second.
Record(state) ==
  /\ out' = IF pass = "programs"
            THEN [n \in 1 .. ChunkEnd |->
                    IF n \in Chunk THEN [declared |-> ids[n], state |-> state[n]] ELSE out[n]]
            ELSE [n \in 1 .. Len(out) |->
                    IF \E i \in Chunk : pending[i].index = n
                    THEN [declared |-> out[n].declared,
                          state |-> state[CHOOSE i \in Chunk : pending[i].index = n]]
                    ELSE out[n]]
  /\ asked' = ChunkEnd
  /\ attempt' = 0
  /\ UNCHANGED <<cluster, events, ids, pass, pending, held>>

\* Mutant of Lose: one attempt too many.
LoseOnceMore ==
  /\ Asking
  /\ attempt <= MaxAttempts
  /\ attempt' = attempt + 1
  /\ UNCHANGED <<cluster, events, ids, pass, out, pending, asked, held, unheard>>

(***************************************************************************)
(* A request that fails in a way worth another try: no connection, a       *)
(* timeout, a status other than 200, a body that is cut off or is not      *)
(* JSON, an RPC error.                                                     *)
(***************************************************************************)
Lose ==
  /\ Asking
  /\ attempt < MaxAttempts
  /\ attempt' = attempt + 1
  /\ UNCHANGED <<cluster, events, ids, pass, out, pending, asked, held, unheard>>

\* Mutant of Fail: nothing heard is taken for nothing there.
FailAsAbsent ==
  /\ Record([i \in Chunk |-> Absent])
  /\ unheard' = unheard \cup {IndexOf(i) : i \in Chunk}

Fail ==
  /\ Record([i \in Chunk |-> Unavailable])
  /\ unheard' = unheard \cup {IndexOf(i) : i \in Chunk}

\* Mutant of GiveUp: the call starts over.
StartOver ==
  /\ Asking
  /\ attempt = MaxAttempts
  /\ attempt' = 0
  /\ UNCHANGED <<cluster, events, ids, pass, out, pending, asked, held, unheard>>

\* The last attempt failed.
GiveUp == Asking /\ attempt = MaxAttempts /\ Fail

\* A reply without a result, without a value array or of the wrong length is not retried.
Malformed == Asking /\ attempt < MaxAttempts /\ Fail

\* Mutant of Reply: one account that cannot be decoded spoils the whole reply.
ReplySpoilt(garbled) ==
  /\ Asking
  /\ attempt < MaxAttempts
  /\ Record([i \in Chunk |->
               IF pass = "programs"
               THEN ClassifyProgram(cluster[AddressOf(i)], garbled = {})
               ELSE ClassifyData(cluster[AddressOf(i)], garbled = {})])
  /\ unheard' = unheard \cup {IndexOf(i) : i \in garbled}

\* A reply of one account per address; the data of those in `garbled` cannot be decoded.
Reply(garbled) ==
  /\ Asking
  /\ attempt < MaxAttempts
  /\ Record([i \in Chunk |->
               IF pass = "programs"
               THEN ClassifyProgram(cluster[AddressOf(i)], i \notin garbled)
               ELSE ClassifyData(cluster[AddressOf(i)], i \notin garbled)])
  /\ unheard' = unheard \cup {IndexOf(i) : i \in garbled}

----------------------------------------------------------------------------
\* The places in `out` that hold a ProgramData address for an authority, in order.
Parked == {n \in 1 .. Len(out) : out[n].state.kind = "upgradeable"}

\* resolve_program_data collects what the second pass has to ask.
StartData ==
  /\ pass = "programs"
  /\ asked = Len(ids)
  /\ pass' = "data"
  /\ \E order \in Bijection(1 .. Cardinality(Parked), Parked) :
       /\ \A i, j \in DOMAIN order : i < j => order[i] < order[j]
       /\ pending' = [i \in DOMAIN order |->
                        [index |-> order[i], address |-> out[order[i]].state.authority]]
  /\ asked' = 0
  /\ UNCHANGED <<cluster, events, ids, out, attempt, held, unheard>>

\* Mutant of Finish: the second pass makes one call.
FinishAtOnce ==
  /\ pass = "data"
  /\ asked > 0 \/ pending = <<>>
  /\ pass' = "done"
  /\ UNCHANGED <<cluster, events, ids, out, pending, asked, attempt, held, unheard>>

Finish ==
  /\ pass = "data"
  /\ asked = Len(pending)
  /\ pass' = "done"
  /\ UNCHANGED <<cluster, events, ids, out, pending, asked, attempt, held, unheard>>

Resolve ==
  \/ Lose
  \/ GiveUp
  \/ Malformed
  \/ \E garbled \in SUBSET Chunk : Reply(garbled)
  \/ StartData
  \/ Finish

Next ==
  \/ \E a \in DOMAIN DataOf, k \in Authorities : Deploy(a, k)
  \/ \E d \in Address : Upgrade(d) \/ Revoke(d) \/ Close(d)
  \/ Resolve

\* Every request ends: it carries a timeout, and the sleep between two of them is finite.
Spec == Init /\ [][Next]_vars /\ WF_vars(Resolve)
----------------------------------------------------------------------------
\* The type of every variable.
TypeOK ==
  /\ cluster \in Cluster
  /\ events \in 0 .. MaxEvents
  /\ ids \in Seq(Address)
  /\ pass \in {"programs", "data", "done"}
  /\ out \in Seq([declared : Address, state : State])
  /\ pending \in Seq([index : Nat, address : Address])
  /\ asked \in Nat
  /\ attempt \in 0 .. MaxAttempts
  /\ held \in [Address -> SUBSET (Account \cup {None})]
  /\ unheard \subseteq 1 .. Len(ids)

\* "Returns one Deployment per input, in input order", whatever failed on the way.
OnePerId ==
  pass = "done" => /\ Len(out) = Len(ids)
                   /\ \A n \in DOMAIN ids : out[n].declared = ids[n]

\* Some account id held, with some content of its ProgramData account, amounts to state.
Witnessed(id, state) ==
  \E account \in held[id] :
    \E data \in IF account # None /\ account.kind = "program" THEN held[account.pointer] ELSE {None} :
      state = Deployed(account, data)

(***************************************************************************)
(* "An unanswered question must never be reported as a fact": whatever     *)
(* resolve reports, other than Unavailable, the accounts of that very id   *)
(* did hold while it ran.  A ProgramData address left in the place of an   *)
(* authority, an answer written to a neighbour's place and an Absent for a *)
(* call that failed all contradict it.                                     *)
(***************************************************************************)
FactsOnly ==
  pass = "done" =>
    \A n \in DOMAIN out :
      out[n].state # Unavailable => Witnessed(out[n].declared, out[n].state)

(***************************************************************************)
(* A failure costs the ids it covered and no others: on a cluster that     *)
(* stands still, every id whose calls went through and whose account could *)
(* be decoded is answered with exactly what is deployed there.             *)
(***************************************************************************)
FailureIsContained ==
  pass = "done" /\ events = 0 =>
    \A n \in DOMAIN out : n \notin unheard => out[n].state = DeployedAt(cluster, ids[n])

\* resolve returns, whatever the network does.
Returns == <>(pass = "done")

\* The second pass has not yet replaced the ProgramData address in out[n].
IsParked(n) ==
  /\ out[n].state.kind = "upgradeable"
  /\ \/ pass = "programs"
     \/ \E i \in asked + 1 .. Len(pending) : pass = "data" /\ pending[i].index = n

(***************************************************************************)
(* Why FactsOnly holds.  Until the second pass replaces it, what stands in *)
(* the place of an authority is the address some account of the id points  *)
(* at, and the second pass will ask for exactly that; every other state is *)
(* Unavailable or witnessed.                                               *)
(***************************************************************************)
PointsAt(id, address) ==
  address # None /\ \E account \in held[id] : account # None /\ PointerOf(account) = address

PlacesInv ==
  /\ Len(out) = IF pass = "programs" THEN asked ELSE Len(ids)
  /\ asked <= Total
  /\ \A n \in DOMAIN out : out[n].declared = ids[n]

PendingInv ==
  pass = "data" =>
    /\ \A i \in DOMAIN pending : pending[i].index \in DOMAIN out
    /\ \A i, j \in DOMAIN pending : pending[i].index = pending[j].index => i = j
    /\ \A i \in DOMAIN pending : i > asked =>
         /\ PointsAt(ids[pending[i].index], pending[i].address)
         /\ out[pending[i].index].state.kind = "upgradeable"

FactsInv ==
  \A n \in DOMAIN out :
    IF IsParked(n) THEN PointsAt(ids[n], out[n].state.authority)
    ELSE out[n].state = Unavailable \/ Witnessed(ids[n], out[n].state)

HistoryInv ==
  /\ \A a \in Address : cluster[a] \in held[a]
  /\ held[Junk] = {None}

LookupInv == PlacesInv /\ PendingInv /\ FactsInv /\ HistoryInv

Answered(n) == n \in DOMAIN out /\ ~IsParked(n)

Abstract == INSTANCE LookupSpec WITH
  answers <- [n \in DOMAIN ids |-> IF Answered(n) THEN out[n].state ELSE None]

\* The two passes answer every id once, and an answer is never taken back.
ImplementsLookup == Abstract!Spec
============================================================================
