----------------------------- MODULE JoinProofs -----------------------------
(***************************************************************************)
(* Marks are true, and complete where one crate declares an address: for   *)
(* any files, ids, trees and answers of the cluster.                       *)
(***************************************************************************)
EXTENDS Join, SequenceTheorems, TLAPS

\* The files, and what they declare, stand still.
InputInv ==
  /\ declares \in [File -> Seq(Address)]
  /\ at \in Nat \ {0} /\ next \in Nat \ {0}
  /\ phase \in {"collect", "live", "mark", "done"}

Declared == [address : Address, file : File]

\* The ids so far: each address once, with a file that declares it.
IdsInv ==
  /\ program_ids \in Seq(Declared)
  /\ \A i, j \in DOMAIN program_ids : program_ids[i].address = program_ids[j].address => i = j
  /\ \A i \in DOMAIN program_ids : program_ids[i].file \in Declarers(program_ids[i].address)

\* What was answered is heard and true, or unavailable, one answer per id.
Answered ==
  /\ DOMAIN deployments = 1 .. Len(deployments) /\ Len(deployments) \in Nat
  /\ deployments # <<>> => online /\ DOMAIN deployments = DOMAIN program_ids
  /\ \A i \in DOMAIN deployments :
       /\ deployments[i].declared = program_ids[i]
       /\ deployments[i].state \in {"unavailable", chain[program_ids[i].address]}

\* The i-th deployment runs.
IsLive(i) == i \in DOMAIN deployments /\ deployments[i].state \in Live

\* live[k] is what the i-th deployment was traced to.
From(k, i) == IsLive(i) /\ live[k] = Traced(deployments[i])

\* The programs that are traced: each has a deployment, each address once, none is left out.
TracedInv ==
  /\ live \in Seq({live[k] : k \in DOMAIN live})
  /\ \A k \in DOMAIN live : \E i \in DOMAIN deployments : From(k, i) /\ (phase = "live" => i < at)
  /\ \A k, l \in DOMAIN live : live[k].address = live[l].address => k = l
  /\ \A i \in DOMAIN deployments :
       IsLive(i) /\ (phase = "live" => i < at) => \E k \in DOMAIN live : From(k, i)

\* Has the k-th program been marked?
Over(k) == phase = "done" \/ (phase = "mark" /\ k < at)

\* What is marked: every finding with the programs it is part of, each once.
MarkedInv ==
  /\ findings \in [Places -> Seq(Address)]
  /\ \A p \in Places :
       /\ Marks(p) = {live[k].address : k \in {l \in DOMAIN live : Over(l) /\ IsPart(live[l], p)}}
       /\ \A i, j \in DOMAIN findings[p] : findings[p][i] = findings[p][j] => i = j

IInv ==
  /\ InputInv
  /\ IdsInv
  /\ phase = "collect" => deployments = <<>> /\ live = <<>>
  /\ phase # "collect" => Answered
  /\ TracedInv
  /\ MarkedInv

----------------------------------------------------------------------------
(***************************************************************************)
(* What a list has after one more element.                                 *)
(***************************************************************************)
LEMMA OneMore ==
  ASSUME NEW S, NEW list \in Seq(S), NEW e \in S
  PROVE  /\ Append(list, e) \in Seq(S)
         /\ DOMAIN Append(list, e) = DOMAIN list \cup {Len(list) + 1}
         /\ \A i \in DOMAIN list : Append(list, e)[i] = list[i] /\ i # Len(list) + 1
         /\ Append(list, e)[Len(list) + 1] = e
         /\ {Append(list, e)[i] : i \in DOMAIN Append(list, e)} = {list[i] : i \in DOMAIN list} \cup {e}
<1>1. /\ Append(list, e) \in Seq(S) /\ Len(list) \in Nat
      /\ Len(Append(list, e)) = Len(list) + 1
      /\ DOMAIN list = 1 .. Len(list)
      /\ DOMAIN Append(list, e) = 1 .. Len(Append(list, e))
  BY AppendProperties, LenProperties
<1>2. DOMAIN Append(list, e) = DOMAIN list \cup {Len(list) + 1}
  BY <1>1
<1>3. \A i \in DOMAIN list : Append(list, e)[i] = list[i] /\ i # Len(list) + 1
  BY <1>1, AppendProperties
<1>4. Append(list, e)[Len(list) + 1] = e
  BY <1>1, AppendProperties
<1>. DEFINE more == Append(list, e)
<1>. HIDE DEF more
<1>5. {more[i] : i \in DOMAIN more} = {list[i] : i \in DOMAIN list} \cup {e}
  BY <1>2, <1>3, <1>4 DEF more
<1> QED  BY <1>1, <1>2, <1>3, <1>4, <1>5 DEF more

LEMMA InitInv == Init => IInv
<1>. SUFFICES ASSUME Init
              PROVE  IInv
  OBVIOUS
<1>1. InputInv /\ IdsInv
  BY InputAssumption, EmptySeq DEF Init, InputInv, IdsInv
<1>2. TracedInv
  BY EmptySeq DEF Init, TracedInv, IsLive
<1>3. MarkedInv
  BY EmptySeq DEF Init, MarkedInv, Marks
<1> QED  BY <1>1, <1>2, <1>3 DEF Init, IInv

(***************************************************************************)
(* While ids are collected nothing else moves.                             *)
(***************************************************************************)
LEMMA CollectingMovesIds ==
  ASSUME IInv, phase = "collect", phase' = phase,
         UNCHANGED <<disk, declares, chain, online, deployments, live, findings>>
  PROVE  TracedInv' /\ MarkedInv' /\ (phase' = "collect" => deployments' = <<>> /\ live' = <<>>)
<1>1. deployments' = <<>> /\ live' = <<>>
  BY DEF IInv
<1>2. TracedInv'
  BY <1>1, EmptySeq DEF TracedInv, IsLive
<1>3. \A p \in Places : Marks(p) = {} /\ Marks(p)' = Marks(p)
  BY DEF IInv, MarkedInv, Marks, Over
<1>4. MarkedInv'
  BY <1>1, <1>3 DEF IInv, MarkedInv
<1> QED  BY <1>1, <1>2, <1>4

LEMMA CollectKeeps == IInv /\ Collect => IInv'
<1>. SUFFICES ASSUME IInv, Collect
              PROVE  IInv'
  OBVIOUS
<1>. DEFINE f == Order[at]
            a == declares[f][next]
            new == [address |-> a, file |-> f]
<1>1. f \in File /\ a \in Address /\ f \in Declarers(a) /\ new \in Declared
  <2>1. f \in File
    BY FileAssumption DEF Collect, IInv, InputInv
  <2>2. declares[f] \in Seq(Address) /\ next \in DOMAIN declares[f]
    BY <2>1 DEF Collect, IInv, InputInv
  <2> QED  BY <2>1, <2>2 DEF Declarers, Declared
<1>2. InputInv'
  BY DEF IInv, InputInv, Collect
<1>3. \A b : Declarers(b)' = Declarers(b)
  BY DEF Collect, Declarers
<1>4. IdsInv'
  <2>1. CASE a \in Collected
    BY <1>3, <2>1 DEF IInv, IdsInv, Collect
  <2>2. CASE a \notin Collected
    <3>. DEFINE ids == Append(program_ids, new)
    <3>1. program_ids' = ids
      BY <2>2 DEF Collect
    <3>2. /\ ids \in Seq(Declared) /\ DOMAIN ids = DOMAIN program_ids \cup {Len(program_ids) + 1}
          /\ \A i \in DOMAIN program_ids : ids[i] = program_ids[i] /\ i # Len(program_ids) + 1
          /\ ids[Len(program_ids) + 1] = new
      BY <1>1, OneMore DEF IInv, IdsInv
    <3>3. \A i \in DOMAIN program_ids : program_ids[i].address # a
      BY <2>2 DEF Collected
    <3>4. new.address = a /\ new.file = f
      OBVIOUS
    <3>. HIDE DEF ids, new, a, f
    <3>5. \A i, j \in DOMAIN ids : ids[i].address = ids[j].address => i = j
      BY <3>2, <3>3, <3>4 DEF IInv, IdsInv
    <3>6. \A i \in DOMAIN ids : ids[i].file \in Declarers(ids[i].address)
      BY <1>1, <3>2, <3>4 DEF IInv, IdsInv
    <3> QED  BY <1>3, <3>1, <3>2, <3>5, <3>6 DEF IdsInv
  <2> QED  BY <2>1, <2>2
<1>5. TracedInv' /\ MarkedInv' /\ deployments' = <<>> /\ live' = <<>>
  BY CollectingMovesIds DEF Collect, IInv
<1> QED  BY <1>2, <1>4, <1>5 DEF IInv, Collect

LEMMA NextFileKeeps == IInv /\ NextFile => IInv'
<1>. SUFFICES ASSUME IInv, NextFile
              PROVE  IInv'
  OBVIOUS
<1>1. InputInv'
  BY DEF IInv, InputInv, NextFile
<1>2. IdsInv'
  BY DEF IInv, IdsInv, NextFile, Declarers
<1>3. TracedInv' /\ MarkedInv' /\ deployments' = <<>> /\ live' = <<>>
  BY CollectingMovesIds DEF NextFile, IInv
<1> QED  BY <1>1, <1>2, <1>3 DEF IInv, NextFile

LEMMA ResolveKeeps == IInv /\ Resolve => IInv'
<1>. SUFFICES ASSUME IInv, Resolve
              PROVE  IInv'
  OBVIOUS
<1>1. InputInv'
  BY DEF IInv, InputInv, Resolve
<1>2. IdsInv'
  BY DEF IInv, IdsInv, Resolve, Declarers
<1>3. phase' = "live" /\ live' = <<>> /\ at' = 1 /\ UNCHANGED <<findings, program_ids, chain, online>>
  BY DEF IInv, Resolve
<1>4. program_ids \in Seq(Declared) /\ DOMAIN program_ids = 1 .. Len(program_ids) /\ Len(program_ids) \in Nat
  BY DEF IInv, IdsInv
<1>5. Answered'
  <2>1. CASE online
    <3>1. PICK unheard \in SUBSET DOMAIN program_ids :
            deployments' = [i \in DOMAIN program_ids |->
              [declared |-> program_ids[i],
               state |-> IF i \in unheard THEN "unavailable" ELSE chain[program_ids[i].address]]]
      BY <2>1 DEF Resolve
    <3>2. DOMAIN deployments' = DOMAIN program_ids
      BY <3>1
    <3>3. Len(deployments') = Len(program_ids)
      BY <1>4, <3>1
    <3>4. \A i \in DOMAIN program_ids :
            /\ deployments'[i].declared = program_ids[i]
            /\ deployments'[i].state \in {"unavailable", chain[program_ids[i].address]}
      BY <3>1
    <3> QED  BY <1>3, <1>4, <2>1, <3>2, <3>3, <3>4 DEF Answered
  <2>2. CASE ~online
    <3>1. deployments' = <<>>
      BY <2>2 DEF Resolve
    <3> QED  BY <3>1 DEF Answered
  <2> QED  BY <2>1, <2>2
<1>6. TracedInv'
  <2>1. \A i \in DOMAIN deployments' : ~(i < at')
    BY <1>3, <1>5 DEF Answered
  <2> QED  BY <1>3, <2>1, EmptySeq DEF TracedInv
<1>7. MarkedInv'
  <2>1. \A p \in Places : Marks(p) = {} /\ Marks(p)' = Marks(p)
    BY DEF IInv, MarkedInv, Marks, Over, Resolve
  <2> QED  BY <1>3, <2>1 DEF IInv, MarkedInv
<1> QED  BY <1>1, <1>2, <1>3, <1>5, <1>6, <1>7 DEF IInv

(***************************************************************************)
(* Outside "mark" and "done" nothing is marked.                            *)
(***************************************************************************)
LEMMA NothingMoved ==
  ASSUME IInv, phase # "mark", phase # "done", phase' # "done", phase' = "mark" => at' = 1,
         UNCHANGED findings, \A k \in DOMAIN live' : k \in Nat \ {0}
  PROVE  MarkedInv'
<1>1. \A p \in Places : Marks(p) = {} /\ Marks(p)' = Marks(p)
  BY DEF IInv, MarkedInv, Marks, Over
<1>2. \A k \in DOMAIN live' : ~Over(k)'
  BY DEF Over
<1> QED  BY <1>1, <1>2 DEF IInv, MarkedInv

LEMMA TraceKeeps == IInv /\ Trace => IInv'
<1>. SUFFICES ASSUME IInv, Trace
              PROVE  IInv'
  OBVIOUS
<1>. DEFINE new == Traced(deployments[at])
            S == {live[k] : k \in DOMAIN live}
            more == Append(live, new)
<1>1. InputInv' /\ at \in Nat \ {0} /\ at' = at + 1
  BY DEF IInv, InputInv, Trace
<1>2. IdsInv'
  BY DEF IInv, IdsInv, Trace, Declarers
<1>3. Answered /\ Answered' /\ phase = "live" /\ phase' = "live"
  BY DEF IInv, Answered, Trace
<1>4. at \in DOMAIN deployments /\ DOMAIN deployments \subseteq Nat
  BY <1>1, <1>3 DEF Answered, Trace
<1>5. /\ UNCHANGED <<deployments, disk, findings>>
      /\ live' = IF IsLive(at) THEN more ELSE live
  BY <1>4 DEF Trace, IsLive
<1>6. /\ \A i : IsLive(i)' = IsLive(i)
      /\ \A d : Traced(d)' = Traced(d)
  BY <1>5 DEF IsLive, Traced
<1>7. /\ live \in Seq(S)
      /\ \A k \in DOMAIN live : \E i \in DOMAIN deployments : From(k, i) /\ i < at
      /\ \A k, l \in DOMAIN live : live[k].address = live[l].address => k = l
      /\ \A i \in DOMAIN deployments : IsLive(i) /\ i < at => \E k \in DOMAIN live : From(k, i)
  BY <1>3 DEF IInv, TracedInv
<1>8. \A i \in DOMAIN deployments : i < at' <=> i < at \/ i = at
  BY <1>1, <1>4
<1>9. TracedInv' /\ \A k \in DOMAIN live' : k \in Nat \ {0}
  <2>1. CASE ~IsLive(at)
    <3>1. live' = live
      BY <1>5, <2>1
    <3>2. \A k, i : From(k, i)' = From(k, i)
      BY <1>5, <1>6, <3>1 DEF From
    <3>3. \A k \in DOMAIN live : k \in Nat \ {0}
      BY <1>7
    <3> HIDE DEF new, S, more
    <3>4. \A k \in DOMAIN live' : \E i \in DOMAIN deployments' : From(k, i)' /\ i < at'
      BY <1>5, <1>7, <1>8, <3>1, <3>2
    <3>5. \A i \in DOMAIN deployments' : IsLive(i)' /\ i < at' => \E k \in DOMAIN live' : From(k, i)'
      BY <1>5, <1>6, <1>7, <1>8, <2>1, <3>1, <3>2
    <3>6. live' \in Seq({live'[k] : k \in DOMAIN live'})
      BY <1>7, <3>1 DEF S
    <3> QED  BY <1>3, <1>7, <3>1, <3>3, <3>4, <3>5, <3>6 DEF TracedInv
  <2>2. CASE IsLive(at)
    <3>1. /\ live' = more
          /\ DOMAIN more = DOMAIN live \cup {Len(live) + 1}
          /\ \A k \in DOMAIN live : more[k] = live[k] /\ k # Len(live) + 1
          /\ more[Len(live) + 1] = new
      <4>1. live \in Seq(S \cup {new}) /\ new \in S \cup {new}
        BY <1>7, SeqMonotonic
      <4> QED  BY <1>5, <2>2, <4>1, OneMore
    <3>2. /\ more \in Seq({more[k] : k \in DOMAIN more})
          /\ \A k \in DOMAIN more : k \in Nat \ {0}
      <4>1. live \in Seq(S \cup {new}) /\ new \in S \cup {new}
        BY <1>7, SeqMonotonic
      <4>2. /\ more \in Seq(S \cup {new})
            /\ {more[k] : k \in DOMAIN more} = S \cup {new}
        BY <4>1, OneMore
      <4> QED  BY <4>2
    <3>3. \A k \in DOMAIN live : \A i : From(k, i) => From(k, i)'
      BY <1>5, <1>6, <3>1 DEF From
    <3>4. \A k, i : k = Len(live) + 1 /\ i = at => From(k, i)'
      BY <1>5, <1>6, <2>2, <3>1 DEF From
    <3>5. new.address = program_ids[at].address
      BY <1>3, <1>4 DEF Answered, Traced
    <3>6. \A k \in DOMAIN live : live[k].address # new.address
      <4>. TAKE k \in DOMAIN live
      <4>1. PICK i \in DOMAIN deployments : From(k, i) /\ i < at
        BY <1>7
      <4>2. live[k].address = program_ids[i].address
        BY <1>3, <4>1 DEF From, Answered, Traced
      <4>3. i \in DOMAIN program_ids /\ at \in DOMAIN program_ids /\ i # at
        BY <1>1, <1>3, <1>4, <4>1 DEF Answered
      <4> QED  BY <3>5, <4>2, <4>3 DEF IInv, IdsInv
    <3> HIDE DEF new, S, more
    <3>7. \A k \in DOMAIN live' : \E i \in DOMAIN deployments' : From(k, i)' /\ i < at'
      <4>. TAKE k \in DOMAIN live'
      <4>1. CASE k \in DOMAIN live
        BY <1>5, <1>7, <1>8, <3>3, <4>1
      <4>2. CASE k = Len(live) + 1
        BY <1>4, <1>5, <1>8, <3>4, <4>2
      <4> QED  BY <3>1, <4>1, <4>2
    <3>8. \A k, l \in DOMAIN live' : live'[k].address = live'[l].address => k = l
      BY <1>7, <3>1, <3>6
    <3>9. \A i \in DOMAIN deployments' : IsLive(i)' /\ i < at' => \E k \in DOMAIN live' : From(k, i)'
      <4>. SUFFICES ASSUME NEW i \in DOMAIN deployments, IsLive(i), i < at'
                    PROVE  \E k \in DOMAIN live' : From(k, i)'
        BY <1>5, <1>6
      <4>1. CASE i < at
        BY <1>7, <3>1, <3>3, <4>1
      <4>2. CASE i = at
        BY <3>1, <3>4, <4>2
      <4> QED  BY <1>8, <4>1, <4>2
    <3> QED  BY <1>3, <3>1, <3>2, <3>7, <3>8, <3>9 DEF TracedInv
  <2> QED  BY <2>1, <2>2
<1>10. MarkedInv'
  BY <1>3, <1>5, <1>9, NothingMoved
<1> QED  BY <1>1, <1>2, <1>3, <1>9, <1>10 DEF IInv

LEMMA StartMarksKeeps == IInv /\ StartMarks => IInv'
<1>. SUFFICES ASSUME IInv, StartMarks
              PROVE  IInv'
  OBVIOUS
<1>1. InputInv'
  BY DEF IInv, InputInv, StartMarks
<1>2. IdsInv'
  BY DEF IInv, IdsInv, StartMarks, Declarers
<1>3. Answered' /\ Answered /\ phase = "live" /\ phase' \in {"mark", "done"} /\ at' = 1
  BY DEF IInv, Answered, StartMarks
<1>4. UNCHANGED <<live, deployments, findings, disk>> /\ (phase' = "done" => live = <<>>)
  BY DEF StartMarks
<1>5. \A i \in DOMAIN deployments : i < at
  BY DEF IInv, InputInv, Answered, StartMarks
<1>6. \A k, i : From(k, i)' = From(k, i) /\ IsLive(i)' = IsLive(i)
  BY <1>4 DEF From, IsLive, Traced
<1>7. TracedInv'
  BY <1>3, <1>4, <1>5, <1>6 DEF IInv, TracedInv
<1>8. \A k \in DOMAIN live' : k \in Nat \ {0} /\ ~Over(k)'
  BY <1>3, <1>4, <1>7, EmptySeq DEF Over, TracedInv
<1>9. MarkedInv'
  <2>1. \A p \in Places : Marks(p) = {} /\ Marks(p)' = Marks(p)
    BY <1>3, <1>4 DEF IInv, MarkedInv, Marks, Over
  <2> QED  BY <1>4, <1>8, <2>1 DEF IInv, MarkedInv
<1> QED  BY <1>1, <1>2, <1>3, <1>7, <1>9 DEF IInv

(***************************************************************************)
(* The addresses of live programs are addresses.                           *)
(***************************************************************************)
LEMMA LiveAddress ==
  ASSUME IInv, Answered, NEW k \in DOMAIN live
  PROVE  live[k].address \in Address
<1>1. PICK i \in DOMAIN deployments : From(k, i)
  BY DEF IInv, TracedInv
<1>2. i \in DOMAIN program_ids /\ live[k].address = program_ids[i].address
  BY <1>1 DEF Answered, From, Traced
<1>3. program_ids[i] \in Declared
  BY <1>2 DEF IInv, IdsInv
<1> QED  BY <1>2, <1>3 DEF Declared

LEMMA MarkKeeps == IInv /\ Mark => IInv'
<1>. SUFFICES ASSUME IInv, Mark
              PROVE  IInv'
  OBVIOUS
<1>1. InputInv' /\ at \in Nat \ {0} /\ at' = at + 1
  BY DEF IInv, InputInv, Mark
<1>2. IdsInv'
  BY DEF IInv, IdsInv, Mark, Declarers
<1>3. Answered' /\ Answered /\ phase = "mark" /\ phase' = "mark"
  BY DEF IInv, Answered, Mark
<1>4. UNCHANGED <<live, deployments, disk>>
  BY DEF Mark
<1>5. \A k, i : From(k, i)' = From(k, i) /\ IsLive(i)' = IsLive(i)
  BY <1>4 DEF From, IsLive, Traced
<1>6. TracedInv'
  BY <1>3, <1>4, <1>5 DEF IInv, TracedInv
<1>. DEFINE a == live[at].address
<1>7. at \in DOMAIN live /\ a \in Address /\ DOMAIN live \subseteq Nat
  <2>1. at \in DOMAIN live /\ DOMAIN live \subseteq Nat
    BY DEF IInv, InputInv, TracedInv, Mark
  <2> QED  BY <1>3, <2>1, LiveAddress
<1>8. \A k \in DOMAIN live : /\ Over(k)' <=> Over(k) \/ k = at
                             /\ k = at => ~Over(k)
                             /\ live[k].address = a => k = at
  BY <1>1, <1>3, <1>7 DEF Over, IInv, TracedInv
<1>9. \A k, p : IsPart(live[k], p)' = IsPart(live[k], p)
  BY <1>4 DEF IsPart
<1>10. ASSUME NEW p \in Places
       PROVE  /\ findings'[p] \in Seq(Address)
              /\ Marks(p)' = {live[k].address : k \in {l \in DOMAIN live : Over(l)' /\ IsPart(live[l], p)}}
              /\ \A i, j \in DOMAIN findings'[p] : findings'[p][i] = findings'[p][j] => i = j
  <2>1. /\ findings[p] \in Seq(Address)
        /\ Marks(p) = {live[k].address : k \in {l \in DOMAIN live : Over(l) /\ IsPart(live[l], p)}}
        /\ \A i, j \in DOMAIN findings[p] : findings[p][i] = findings[p][j] => i = j
    BY <1>10 DEF IInv, MarkedInv
  <2>2. CASE ~IsPart(live[at], p)
    <3>1. findings'[p] = findings[p]
      BY <1>10, <2>2 DEF Mark
    <3>2. Marks(p)' = Marks(p)
      BY <3>1 DEF Marks
    <3> QED  BY <1>8, <2>1, <2>2, <3>1, <3>2
  <2>3. CASE IsPart(live[at], p)
    <3>. DEFINE more == Append(findings[p], a)
    <3>1. findings'[p] = more
      BY <1>10, <2>3 DEF Mark
    <3>2. /\ more \in Seq(Address)
          /\ DOMAIN more = DOMAIN findings[p] \cup {Len(findings[p]) + 1}
          /\ \A i \in DOMAIN findings[p] : more[i] = findings[p][i] /\ i # Len(findings[p]) + 1
          /\ more[Len(findings[p]) + 1] = a
          /\ {more[i] : i \in DOMAIN more} = {findings[p][i] : i \in DOMAIN findings[p]} \cup {a}
      BY <1>7, <2>1, OneMore
    <3>. HIDE DEF more
    <3>3. Marks(p)' = Marks(p) \cup {a}
      BY <3>1, <3>2 DEF Marks
    <3>4. a \notin Marks(p)
      BY <1>8, <2>1
    <3>5. \A i \in DOMAIN findings[p] : findings[p][i] # a
      BY <3>4 DEF Marks
    <3>6. \A i, j \in DOMAIN more : more[i] = more[j] => i = j
      BY <2>1, <3>2, <3>5
    <3>7. {live[k].address : k \in {l \in DOMAIN live : Over(l)' /\ IsPart(live[l], p)}}
            = {live[k].address : k \in {l \in DOMAIN live : Over(l) /\ IsPart(live[l], p)}} \cup {a}
      BY <1>7, <1>8, <2>3
    <3> QED  BY <2>1, <3>1, <3>2, <3>3, <3>6, <3>7
  <2> QED  BY <2>2, <2>3
<1>11. MarkedInv'
  <2>1. findings' = [p \in Places |-> findings'[p]]
    BY DEF Mark
  <2>2. findings' \in [Places -> Seq(Address)]
    BY <1>10, <2>1
  <2> QED  BY <1>4, <1>9, <1>10, <2>2 DEF MarkedInv
<1> QED  BY <1>1, <1>2, <1>3, <1>6, <1>11 DEF IInv

LEMMA EndMarksKeeps == IInv /\ EndMarks => IInv'
<1>. SUFFICES ASSUME IInv, EndMarks
              PROVE  IInv'
  OBVIOUS
<1>1. InputInv'
  BY DEF IInv, InputInv, EndMarks
<1>2. IdsInv'
  BY DEF IInv, IdsInv, EndMarks, Declarers
<1>3. Answered' /\ phase = "mark" /\ phase' = "done"
  BY DEF IInv, Answered, EndMarks
<1>4. UNCHANGED <<live, deployments, disk, findings, at>>
  BY DEF EndMarks
<1>5. \A k, i : From(k, i)' = From(k, i) /\ IsLive(i)' = IsLive(i)
  BY <1>4 DEF From, IsLive, Traced
<1>6. TracedInv'
  BY <1>3, <1>4, <1>5 DEF IInv, TracedInv
<1>7. \A k \in DOMAIN live : Over(k) /\ Over(k)'
  BY <1>3 DEF IInv, InputInv, TracedInv, Over, EndMarks
<1>8. MarkedInv'
  <2>1. \A p : Marks(p)' = Marks(p) /\ \A k : IsPart(live[k], p)' = IsPart(live[k], p)
    BY <1>4 DEF Marks, IsPart
  <2> QED  BY <1>4, <1>7, <2>1 DEF IInv, MarkedInv
<1> QED  BY <1>1, <1>2, <1>3, <1>6, <1>8 DEF IInv

LEMMA StutterKeeps == IInv /\ UNCHANGED vars => IInv'
<1>. SUFFICES ASSUME IInv, UNCHANGED vars
              PROVE  IInv'
  OBVIOUS
<1>1. InputInv' /\ IdsInv' /\ (Answered' <=> Answered)
  BY DEF IInv, InputInv, IdsInv, Answered, Declarers, vars
<1>2. \A k, i : From(k, i)' = From(k, i) /\ IsLive(i)' = IsLive(i)
  BY DEF From, IsLive, Traced, vars
<1>3. TracedInv'
  BY <1>2 DEF IInv, TracedInv, vars
<1>4. MarkedInv'
  <2>1. \A p : Marks(p)' = Marks(p)
    BY DEF Marks, vars
  <2>2. \A k, p : IsPart(live[k], p)' = IsPart(live[k], p) /\ Over(k)' = Over(k)
    BY DEF IsPart, Over, vars
  <2> QED  BY <2>1, <2>2 DEF IInv, MarkedInv, vars
<1> QED  BY <1>1, <1>3, <1>4 DEF IInv, vars

LEMMA Invariant == Spec => []IInv
<1>1. IInv /\ [Next]_vars => IInv'
  BY CollectKeeps, NextFileKeeps, ResolveKeeps, TraceKeeps, StartMarksKeeps, MarkKeeps, EndMarksKeeps,
     StutterKeeps DEF Next
<1> QED  BY <1>1, InitInv, PTL DEF Spec

----------------------------------------------------------------------------
(***************************************************************************)
(* The programs that are live are those a file declares and the cluster    *)
(* was heard to hold.                                                      *)
(***************************************************************************)
LEMMA LiveIsDeclared ==
  ASSUME IInv, phase = "done", NEW k \in DOMAIN live
  PROVE  \E i \in DOMAIN program_ids :
           /\ live[k] = Traced([declared |-> program_ids[i], state |-> chain[program_ids[i].address]])
           /\ live[k].address = program_ids[i].address
           /\ online /\ chain[program_ids[i].address] \in Live
<1>1. Answered
  BY DEF IInv
<1>2. PICK i \in DOMAIN deployments : From(k, i)
  BY DEF IInv, TracedInv
<1>3. /\ deployments # <<>> /\ i \in DOMAIN program_ids
      /\ deployments[i].declared = program_ids[i]
      /\ deployments[i].state = chain[program_ids[i].address]
      /\ deployments[i].state \in Live
  BY <1>1, <1>2 DEF Answered, From, IsLive, Live
<1>4. live[k] = Traced([declared |-> program_ids[i], state |-> chain[program_ids[i].address]])
  BY <1>2, <1>3 DEF From, Traced
<1>5. live[k].address = program_ids[i].address
  BY <1>2, <1>3 DEF From, Traced
<1>6. online
  BY <1>1, <1>3 DEF Answered
<1> QED  BY <1>3, <1>4, <1>5, <1>6

(***************************************************************************)
(* What a program traced to a file of a crate is part of.                  *)
(***************************************************************************)
LEMMA PartMeansRuns ==
  ASSUME NEW i \in DOMAIN program_ids, NEW s, NEW p \in Places,
         program_ids[i].file \in File
  PROVE  IsPart(Traced([declared |-> program_ids[i], state |-> s]), p) <=> Runs(program_ids[i].file, p)
<1>. DEFINE f == program_ids[i].file
<1>1. CASE CrateOf[f] = None /\ p \in File
  BY <1>1 DEF IsPart, Traced, Runs
<1>2. CASE CrateOf[f] = None /\ p \notin File
  <2>1. p # None
    BY <1>2 DEF Places
  <2> QED  BY <1>2, <2>1 DEF IsPart, Traced, Runs
<1>3. CASE CrateOf[f] # None
  BY <1>3 DEF IsPart, Traced, Runs
<1> QED  BY <1>1, <1>2, <1>3

(***************************************************************************)
(* Every mark is of a program that runs the code it marks, once.           *)
(***************************************************************************)
THEOREM MarksCorrect == Spec => []MarksAreTrue
<1>1. IInv => MarksAreTrue
  <2>. SUFFICES ASSUME IInv, phase = "done", NEW p \in Places
                PROVE  /\ \A i, j \in DOMAIN findings[p] : findings[p][i] = findings[p][j] => i = j
                       /\ \A a \in Marks(p) : /\ chain[a] \in Live
                                              /\ online
                                              /\ \E f \in Declarers(a) : Runs(f, p)
    BY DEF MarksAreTrue
  <2>1. \A i, j \in DOMAIN findings[p] : findings[p][i] = findings[p][j] => i = j
    BY DEF IInv, MarkedInv
  <2>2. ASSUME NEW a \in Marks(p)
        PROVE  chain[a] \in Live /\ online /\ \E f \in Declarers(a) : Runs(f, p)
    <3>1. PICK k \in DOMAIN live : live[k].address = a /\ IsPart(live[k], p)
      BY <2>2 DEF IInv, MarkedInv
    <3>2. PICK i \in DOMAIN program_ids :
            /\ live[k] = Traced([declared |-> program_ids[i], state |-> chain[program_ids[i].address]])
            /\ program_ids[i].address = a
            /\ online /\ chain[program_ids[i].address] \in Live
      BY <3>1, LiveIsDeclared
    <3>3. program_ids[i].file \in Declarers(a) /\ program_ids[i].file \in File
      BY <3>2 DEF IInv, IdsInv, Declarers
    <3>4. Runs(program_ids[i].file, p)
      BY <3>1, <3>2, <3>3, PartMeansRuns
    <3> QED  BY <3>2, <3>3, <3>4
  <2> QED  BY <2>1, <2>2
<1> QED  BY <1>1, Invariant, PTL

(***************************************************************************)
(* No mark of a program that one crate declares is missing.                *)
(***************************************************************************)
THEOREM SoleDeclarersMarked == Spec => []SoleDeclarerIsMarked
<1>1. IInv => SoleDeclarerIsMarked
  <2>. SUFFICES ASSUME IInv, phase = "done", NEW p \in Places, NEW a \in Address, NEW f \in File,
                       \A g \in Declarers(a) : CrateOf[g] = CrateOf[f],
                       Runs(f, p), Heard(a), chain[a] \in Live
                PROVE  a \in Marks(p)
    BY DEF SoleDeclarerIsMarked
  <2>1. Answered
    BY DEF IInv
  <2>2. PICK i \in DOMAIN deployments :
          deployments[i].declared.address = a /\ deployments[i].state # "unavailable"
    BY DEF Heard
  <2>3. /\ i \in DOMAIN program_ids
        /\ deployments[i].declared = program_ids[i]
        /\ program_ids[i].address = a
        /\ deployments[i].state = chain[a]
    BY <2>1, <2>2 DEF Answered
  <2>4. PICK k \in DOMAIN live : From(k, i)
    BY <2>2, <2>3 DEF IInv, TracedInv, IsLive
  <2>5. /\ live[k] = Traced([declared |-> program_ids[i], state |-> chain[a]])
        /\ live[k].address = a
    BY <2>3, <2>4 DEF From, Traced
  <2>6. program_ids[i].file \in Declarers(a) /\ program_ids[i].file \in File
    BY <2>3 DEF IInv, IdsInv, Declarers
  <2>7. Runs(program_ids[i].file, p)
    BY <2>6 DEF Runs
  <2>8. IsPart(live[k], p)
    BY <2>3, <2>5, <2>6, <2>7, PartMeansRuns
  <2> QED  BY <2>5, <2>8 DEF IInv, MarkedInv, Over
<1> QED  BY <1>1, Invariant, PTL
============================================================================
