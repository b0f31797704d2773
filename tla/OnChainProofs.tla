---------------------------- MODULE OnChainProofs ----------------------------
(***************************************************************************)
(* Proofs about OnChain, for every list of ids, every cluster and every    *)
(* batch size, and however often requests fail and accounts change.        *)
(***************************************************************************)
EXTENDS OnChain, FiniteSetTheorems, FunctionTheorems, SequenceTheorems, TLAPS

Deployment == [declared : Address, state : State]

(***************************************************************************)
(* What the two classifications say about an account.                      *)
(***************************************************************************)

LEMMA ClassifyProgramIsHonest ==
  ASSUME NEW account \in Account \cup {None}, NEW decoded \in BOOLEAN
  PROVE  LET s == ClassifyProgram(account, decoded)
         IN  /\ s \in State
             /\ s.kind = "upgradeable" =>
                  account # None /\ s.authority # None /\ PointerOf(account) = s.authority
             /\ s.kind # "upgradeable" /\ s # Unavailable
                  => s = Deployed(account, None) /\ (account = None \/ account.kind # "program")
<1> DEFINE s == ClassifyProgram(account, decoded)
<1>1. CASE account = None
  <2>1. s = Absent
    BY <1>1 DEF ClassifyProgram
  <2>2. Deployed(account, None) = Absent
    BY <1>1 DEF Deployed
  <2>. QED BY <1>1, <2>1, <2>2 DEF Absent, Plain, State
<1>2. CASE account # None /\ account.kind = "foreign"
  <2>1. s = NotAProgram
    BY <1>2 DEF ClassifyProgram
  <2>2. Deployed(account, None) = NotAProgram
    BY <1>2 DEF Deployed
  <2>. QED BY <1>2, <2>1, <2>2 DEF NotAProgram, Plain, State
<1>3. CASE account # None /\ account.kind = "final"
  <2>1. s = Immutable
    BY <1>3 DEF ClassifyProgram
  <2>2. Deployed(account, None) = Immutable
    BY <1>3 DEF Deployed
  <2>. QED BY <1>3, <2>1, <2>2 DEF Immutable, Plain, State
<1>4. CASE account # None /\ account.kind \in {"program", "data", "short"}
  <2>1. s = IF decoded /\ PointerOf(account) # None
            THEN Upgradeable(PointerOf(account), 0) ELSE Unavailable
    BY <1>4 DEF ClassifyProgram
  <2>2. PointerOf(account) \in Address \cup {None}
    BY <1>4, JunkAssumption DEF PointerOf, Account
  <2>. QED BY <1>4, <2>1, <2>2 DEF Upgradeable, Unavailable, Plain, State
<1>. QED BY <1>1, <1>2, <1>3, <1>4 DEF Account

\* With the ProgramData account an account points at, a state is what is deployed there.
LEMMA ClassifyDataIsHonest ==
  ASSUME NEW account \in Account, account # None,
         NEW data \in Account \cup {None}, NEW decoded \in BOOLEAN
  PROVE  LET s == ClassifyData(data, decoded)
         IN  /\ s \in State
             /\ s # Unavailable /\ account.kind = "program" => s = Deployed(account, data)
             /\ s # Unavailable => data # None
<1> DEFINE s == ClassifyData(data, decoded)
<1>1. CASE data = None \/ ~decoded \/ data.kind # "data"
  BY <1>1 DEF ClassifyData, Unavailable, Plain, State
<1>2. CASE data # None /\ decoded /\ data.kind = "data"
  <2>1. s = IF data.authority = None THEN Frozen(data.slot) ELSE Upgradeable(data.authority, data.slot)
    BY <1>2 DEF ClassifyData
  <2>2. s \in State
    <3>1. data.authority \in Address \cup {None} /\ data.slot \in Nat
      BY <1>2 DEF Account
    <3>2. CASE data.authority = None
      BY <2>1, <3>1, <3>2 DEF Frozen, State
    <3>3. CASE data.authority # None
      BY <2>1, <3>1, <3>3 DEF Upgradeable, State
    <3>. QED BY <3>2, <3>3
  <2>3. account.kind = "program" =>
          Deployed(account, data) =
            [kind      |-> IF data.authority = None THEN "frozen" ELSE "upgradeable",
             authority |-> data.authority,
             slot      |-> data.slot]
    BY <1>2 DEF Deployed
  <2>. QED BY <1>2, <2>1, <2>2, <2>3 DEF Frozen, Upgradeable
<1>. QED BY <1>1, <1>2

----------------------------------------------------------------------------
(***************************************************************************)
(* One call: which entries it covers, and what recording their states does.*)
(***************************************************************************)

LEMMA ChunkIsInside ==
  ASSUME TypeOK, Asking
  PROVE  /\ Total \in Nat /\ ChunkEnd \in Nat
         /\ asked < ChunkEnd /\ ChunkEnd <= Total
<1>1. Total \in Nat
  BY LenProperties DEF TypeOK, Total
<1>2. asked \in Nat /\ asked < Total /\ Batch \in Nat /\ Batch > 0
  BY LimitAssumption DEF TypeOK, Asking
<1>. QED BY <1>1, <1>2 DEF ChunkEnd

\* A state that may be recorded for entry i of the list.
Honest(i, s) ==
  IF pass = "programs" /\ s.kind = "upgradeable" THEN PointsAt(ids[IndexOf(i)], s.authority)
  ELSE s = Unavailable \/ Witnessed(ids[IndexOf(i)], s)

\* The first pass appends.
LEMMA RecordAppends ==
  ASSUME TypeOK, LookupInv, Asking, pass = "programs",
         NEW state \in [Chunk -> State], \A i \in Chunk : Honest(i, state[i]),
         Record(state)
  PROVE  out' \in Seq(Deployment) /\ PlacesInv' /\ PendingInv' /\ FactsInv'
<1>1. /\ Total = Len(ids) /\ Len(ids) \in Nat /\ ChunkEnd \in Nat
      /\ asked < ChunkEnd /\ ChunkEnd <= Len(ids) /\ asked \in Nat
      /\ \A n \in 1 .. Len(ids) : ids[n] \in Address
  BY ChunkIsInside, LenProperties, ElementOfSeq DEF Total, TypeOK
<1>2. /\ out' = [n \in 1 .. ChunkEnd |->
                   IF n \in Chunk THEN [declared |-> ids[n], state |-> state[n]] ELSE out[n]]
      /\ asked' = ChunkEnd
      /\ UNCHANGED <<ids, pass, pending, held>>
  BY DEF Record
<1>3. Len(out) = asked /\ DOMAIN out = 1 .. asked /\ \A n \in 1 .. asked : out[n] \in Deployment
  BY LenProperties, ElementOfSeq DEF LookupInv, PlacesInv, TypeOK, Deployment
<1>4. \A n \in 1 .. ChunkEnd : n \in Chunk \/ n \in 1 .. asked
  BY <1>1 DEF Chunk
<1>5. \A n \in 1 .. ChunkEnd : out'[n] \in Deployment
  <2>. SUFFICES ASSUME NEW n \in 1 .. ChunkEnd PROVE out'[n] \in Deployment
    OBVIOUS
  <2>1. CASE n \in Chunk
    BY <2>1, <1>1, <1>2 DEF Deployment
  <2>2. CASE n \notin Chunk
    BY <2>2, <1>2, <1>3, <1>4
  <2>. QED BY <2>1, <2>2
<1>6. out' \in Seq(Deployment) /\ Len(out') = ChunkEnd /\ DOMAIN out' = 1 .. ChunkEnd
  <2>1. out' = [n \in 1 .. ChunkEnd |-> out'[n]]
    BY <1>2
  <2>2. out' \in Seq(Deployment)
    BY <2>1, <1>1, <1>5, IsASeq
  <2>. QED BY <1>1, <1>2, <2>2, LenProperties
<1>7. PlacesInv'
  <2>1. \A n \in DOMAIN out' : out'[n].declared = ids'[n]
    BY <1>2, <1>3, <1>4, <1>6 DEF LookupInv, PlacesInv
  <2>. QED BY <1>1, <1>2, <1>6, <2>1 DEF PlacesInv, Total
<1>8. PendingInv'
  BY <1>2 DEF PendingInv
<1>9. FactsInv'
  <2>. SUFFICES ASSUME NEW n \in 1 .. ChunkEnd
                PROVE  IF out'[n].state.kind = "upgradeable"
                       THEN PointsAt(ids[n], out'[n].state.authority)
                       ELSE out'[n].state = Unavailable \/ Witnessed(ids[n], out'[n].state)
    BY <1>2, <1>6 DEF FactsInv, IsParked, PointsAt, Witnessed
  <2>1. CASE n \in Chunk
    BY <2>1, <1>2 DEF Honest, IndexOf
  <2>2. CASE n \notin Chunk
    BY <2>2, <1>2, <1>3, <1>4 DEF LookupInv, FactsInv, IsParked
  <2>. QED BY <2>1, <2>2
<1>. QED BY <1>6, <1>7, <1>8, <1>9

\* The second pass writes in place.
LEMMA RecordReplaces ==
  ASSUME TypeOK, LookupInv, Asking, pass = "data",
         NEW state \in [Chunk -> State], \A i \in Chunk : Honest(i, state[i]),
         Record(state)
  PROVE  out' \in Seq(Deployment) /\ PlacesInv' /\ PendingInv' /\ FactsInv'
<1>1. /\ Total = Len(pending) /\ Len(pending) \in Nat /\ ChunkEnd \in Nat
      /\ asked < ChunkEnd /\ ChunkEnd <= Len(pending) /\ asked \in Nat
      /\ DOMAIN pending = 1 .. Len(pending)
  BY ChunkIsInside, LenProperties DEF Total, TypeOK
<1>2. /\ out' = [n \in 1 .. Len(out) |->
                   IF \E i \in Chunk : pending[i].index = n
                   THEN [declared |-> out[n].declared,
                         state |-> state[CHOOSE i \in Chunk : pending[i].index = n]]
                   ELSE out[n]]
      /\ asked' = ChunkEnd
      /\ UNCHANGED <<ids, pass, pending, held>>
  BY DEF Record
<1>3. /\ Len(out) \in Nat /\ Len(out) = Len(ids) /\ DOMAIN out = 1 .. Len(out)
      /\ \A n \in 1 .. Len(out) : out[n] \in Deployment
  BY LenProperties, ElementOfSeq DEF LookupInv, PlacesInv, TypeOK, Deployment
<1>4. Chunk \subseteq DOMAIN pending
  BY <1>1 DEF Chunk
<1>5. ASSUME NEW i \in Chunk, NEW n \in 1 .. Len(out), pending[i].index = n
      PROVE  out'[n] = [declared |-> out[n].declared, state |-> state[i]]
  <2>1. (CHOOSE j \in Chunk : pending[j].index = n) = i
    BY <1>4, <1>5 DEF LookupInv, PendingInv
  <2>. QED BY <2>1, <1>2, <1>5
<1>6. ASSUME NEW n \in 1 .. Len(out), \A i \in Chunk : pending[i].index # n
      PROVE  out'[n] = out[n]
  BY <1>6, <1>2
<1>7. \A n \in 1 .. Len(out) : out'[n] \in Deployment /\ out'[n].declared = out[n].declared
  <2>. SUFFICES ASSUME NEW n \in 1 .. Len(out)
                PROVE  out'[n] \in Deployment /\ out'[n].declared = out[n].declared
    OBVIOUS
  <2>1. CASE \E i \in Chunk : pending[i].index = n
    <3>1. PICK i \in Chunk : pending[i].index = n
      BY <2>1
    <3>2. out'[n] = [declared |-> out[n].declared, state |-> state[i]]
      BY <3>1, <1>5
    <3>3. state[i] \in State /\ out[n].declared \in Address
      BY <1>3 DEF Deployment
    <3>. QED BY <3>2, <3>3 DEF Deployment
  <2>2. CASE \A i \in Chunk : pending[i].index # n
    BY <2>2, <1>3, <1>6
  <2>. QED BY <2>1, <2>2
<1>8. out' \in Seq(Deployment) /\ Len(out') = Len(out) /\ DOMAIN out' = 1 .. Len(out)
  <2>1. out' = [n \in 1 .. Len(out) |-> out'[n]]
    BY <1>2
  <2>2. out' \in Seq(Deployment)
    BY <2>1, <1>3, <1>7, IsASeq
  <2>. QED BY <1>2, <1>3, <2>2, LenProperties
<1>9. PlacesInv'
  <2>1. \A n \in DOMAIN out' : out'[n].declared = ids'[n]
    BY <1>2, <1>3, <1>7, <1>8 DEF LookupInv, PlacesInv
  <2>. QED BY <1>1, <1>2, <1>3, <1>8, <2>1 DEF PlacesInv, Total
<1>10. PendingInv'
  <2>1. \A i \in DOMAIN pending : i > asked' => i > asked /\ i \notin Chunk
    BY <1>1, <1>2 DEF Chunk
  <2>2. ASSUME NEW i \in DOMAIN pending, i > asked'
        PROVE  out'[pending[i].index] = out[pending[i].index]
    <3>1. \A j \in Chunk : pending[j].index # pending[i].index
      BY <1>4, <2>1, <2>2 DEF LookupInv, PendingInv
    <3>2. pending[i].index \in 1 .. Len(out)
      BY <1>3 DEF LookupInv, PendingInv
    <3>. QED BY <3>1, <3>2, <1>6
  <2>3. \A i \in DOMAIN pending : i > asked' =>
          /\ PointsAt(ids[pending[i].index], pending[i].address)
          /\ out'[pending[i].index].state.kind = "upgradeable"
    BY <2>1, <2>2 DEF LookupInv, PendingInv
  <2>. QED BY <1>2, <1>3, <1>8, <2>3 DEF LookupInv, PendingInv, PointsAt
<1>11. FactsInv'
  <2>1. SUFFICES ASSUME NEW n \in 1 .. Len(out)
                 PROVE  IF IsParked(n)'
                        THEN PointsAt(ids[n], out'[n].state.authority)
                        ELSE out'[n].state = Unavailable \/ Witnessed(ids[n], out'[n].state)
    BY <1>2, <1>8 DEF FactsInv, PointsAt, Witnessed
  <2>2. CASE \E i \in Chunk : pending[i].index = n
    <3>1. PICK i \in Chunk : pending[i].index = n
      BY <2>2
    <3>2. ~IsParked(n)'
      <4>1. ASSUME NEW j \in ChunkEnd + 1 .. Len(pending), pending[j].index = n
            PROVE  FALSE
        <5>1. j \in DOMAIN pending /\ j # i
          BY <1>1 DEF Chunk
        <5>. QED BY <5>1, <3>1, <4>1, <1>4 DEF LookupInv, PendingInv
      <4>. QED BY <4>1, <1>2 DEF IsParked
    <3>3. out'[n].state = state[i]
      <4>1. out'[n] = [declared |-> out[n].declared, state |-> state[i]]
        BY <3>1, <1>5
      <4>. QED BY <4>1
    <3>. QED BY <3>1, <3>2, <3>3 DEF Honest, IndexOf
  <2>3. CASE \A i \in Chunk : pending[i].index # n
    <3>1. out'[n] = out[n]
      BY <2>3, <1>6
    <3>2. IsParked(n)' <=> IsParked(n)
      <4>1. \A i \in asked + 1 .. Len(pending) : i \in Chunk \/ i \in ChunkEnd + 1 .. Len(pending)
        BY <1>1 DEF Chunk
      <4>2. ChunkEnd + 1 .. Len(pending) \subseteq asked + 1 .. Len(pending)
        BY <1>1
      <4>. QED BY <4>1, <4>2, <3>1, <2>3, <1>2 DEF IsParked
    <3>. QED BY <3>1, <3>2, <1>3 DEF LookupInv, FactsInv
  <2>. QED BY <2>2, <2>3
<1>. QED BY <1>8, <1>9, <1>10, <1>11

\* What a reply is turned into may be recorded.
LEMMA ReplyIsHonest ==
  ASSUME TypeOK, LookupInv, Asking, NEW garbled \in SUBSET Chunk
  PROVE  LET state == [i \in Chunk |->
                         IF pass = "programs"
                         THEN ClassifyProgram(cluster[AddressOf(i)], i \notin garbled)
                         ELSE ClassifyData(cluster[AddressOf(i)], i \notin garbled)]
         IN  state \in [Chunk -> State] /\ \A i \in Chunk : Honest(i, state[i])
<1> DEFINE read(i) == IF pass = "programs"
                      THEN ClassifyProgram(cluster[AddressOf(i)], i \notin garbled)
                      ELSE ClassifyData(cluster[AddressOf(i)], i \notin garbled)
<1>. SUFFICES ASSUME NEW i \in Chunk
              PROVE  read(i) \in State /\ Honest(i, read(i))
  OBVIOUS
<1>1. i \in 1 .. Total
  BY ChunkIsInside DEF Chunk, TypeOK
<1>2. CASE pass = "programs"
  <2>1. AddressOf(i) = ids[i] /\ IndexOf(i) = i /\ ids[i] \in Address
    BY <1>1, <1>2, ElementOfSeq DEF AddressOf, IndexOf, Total, TypeOK
  <2>2. PICK account \in Account \cup {None} :
           account = cluster[ids[i]] /\ account \in held[ids[i]]
    BY <2>1 DEF TypeOK, Cluster, LookupInv, HistoryInv
  <2>3. read(i) = ClassifyProgram(account, i \notin garbled)
    BY <1>2, <2>1, <2>2
  <2>4. /\ read(i) \in State
        /\ read(i).kind = "upgradeable" =>
             account # None /\ read(i).authority # None /\ PointerOf(account) = read(i).authority
        /\ read(i).kind # "upgradeable" /\ read(i) # Unavailable
             => read(i) = Deployed(account, None) /\ (account = None \/ account.kind # "program")
    <3>1. (i \notin garbled) \in BOOLEAN
      OBVIOUS
    <3>. QED BY <2>3, <3>1, ClassifyProgramIsHonest
  <2>5. CASE read(i).kind = "upgradeable"
    BY <1>2, <2>1, <2>2, <2>4, <2>5 DEF Honest, PointsAt
  <2>6. CASE read(i).kind # "upgradeable"
    BY <1>2, <2>1, <2>2, <2>4, <2>6 DEF Honest, Witnessed
  <2>. QED BY <2>4, <2>5, <2>6
<1>3. CASE pass = "data"
  <2>1. i \in DOMAIN pending /\ i > asked
    BY <1>1, <1>3, LenProperties DEF Chunk, Total, TypeOK
  <2>2. pending[i] \in [index : Nat, address : Address]
    BY <1>1, <1>3, ElementOfSeq DEF TypeOK, Total
  <2>3. AddressOf(i) = pending[i].address /\ IndexOf(i) = pending[i].index
    BY <1>3 DEF AddressOf, IndexOf
  <2> DEFINE id == ids[IndexOf(i)]
  <2>4. id \in Address
    <3>1. pending[i].index \in 1 .. Len(ids)
      BY <1>3, <2>1, LenProperties DEF LookupInv, PendingInv, PlacesInv, TypeOK
    <3>. QED BY <2>3, <3>1, ElementOfSeq DEF TypeOK
  <2>5. PICK account \in held[id] : account # None /\ PointerOf(account) = pending[i].address
    BY <1>3, <2>1, <2>3 DEF LookupInv, PendingInv, PointsAt
  <2>6. account \in Account
    BY <2>4, <2>5 DEF TypeOK
  <2>7. PICK data \in Account \cup {None} :
           data = cluster[pending[i].address] /\ data \in held[pending[i].address]
    BY <2>2 DEF TypeOK, Cluster, LookupInv, HistoryInv
  <2>8. read(i) = ClassifyData(data, i \notin garbled)
    BY <1>3, <2>3, <2>7
  <2>9. /\ read(i) \in State
        /\ read(i) # Unavailable /\ account.kind = "program" => read(i) = Deployed(account, data)
        /\ read(i) # Unavailable => data # None
    <3>1. (i \notin garbled) \in BOOLEAN
      OBVIOUS
    <3>. QED BY <2>5, <2>6, <2>8, <3>1, ClassifyDataIsHonest
  <2>10. CASE account.kind = "program"
    <3>1. account.pointer = pending[i].address
      BY <2>5, <2>10 DEF PointerOf
    <3>2. read(i) = Unavailable \/ Witnessed(id, read(i))
      BY <2>5, <2>7, <2>9, <2>10, <3>1 DEF Witnessed
    <3>. QED BY <1>3, <2>9, <3>2 DEF Honest
  <2>11. CASE account.kind # "program"
    <3>1. pending[i].address = Junk
      BY <2>2, <2>5, <2>11, JunkAssumption DEF PointerOf
    <3>2. data = None
      BY <2>7, <3>1 DEF TypeOK, Cluster
    <3>. QED BY <1>3, <2>9, <3>2 DEF Honest
  <2>. QED BY <2>9, <2>10, <2>11
<1>. QED BY <1>2, <1>3 DEF Asking

----------------------------------------------------------------------------
(***************************************************************************)
(* The steps around the calls.                                             *)
(***************************************************************************)

\* A change of the cluster keeps the types and the invariant, and adds to the history.
LEMMA ChangeStep ==
  ASSUME TypeOK, LookupInv, NEW c \in Cluster, Change(c)
  PROVE  TypeOK' /\ LookupInv'
<1>1. /\ cluster' = c /\ events' = events + 1 /\ events < MaxEvents
      /\ held' = [a \in Address |-> held[a] \cup {c[a]}]
      /\ UNCHANGED <<ids, pass, out, pending, asked, attempt, unheard>>
  BY DEF Change, resolving
<1>2. \A a \in Address : held[a] \subseteq held'[a] /\ c[a] \in held'[a]
  BY <1>1
<1>3. TypeOK'
  <2>1. events' \in 0 .. MaxEvents
    BY <1>1, LimitAssumption DEF TypeOK
  <2>2. held' \in [Address -> SUBSET (Account \cup {None})]
    BY <1>1 DEF TypeOK, Cluster
  <2>. QED BY <1>1, <2>1, <2>2 DEF TypeOK
<1>4. HistoryInv'
  BY <1>1, <1>2, JunkAssumption DEF LookupInv, HistoryInv, Cluster
<1>5. /\ \A n \in DOMAIN ids : ids[n] \in Address
      /\ \A n \in DOMAIN out : n \in DOMAIN ids
  <2>1. Len(out) <= Len(ids) /\ DOMAIN out = 1 .. Len(out) /\ DOMAIN ids = 1 .. Len(ids)
        /\ Len(out) \in Nat /\ Len(ids) \in Nat
    BY LenProperties DEF TypeOK, LookupInv, PlacesInv, Total
  <2>. QED BY <2>1, ElementOfSeq DEF TypeOK
<1>6. ASSUME NEW id \in Address, NEW address, PointsAt(id, address)
      PROVE  PointsAt(id, address)'
  BY <1>2, <1>6 DEF PointsAt
<1>7. ASSUME NEW id \in Address, NEW state, Witnessed(id, state)
      PROVE  Witnessed(id, state)'
  <2>1. PICK account \in held[id] :
          \E data \in IF account # None /\ account.kind = "program" THEN held[account.pointer] ELSE {None} :
            state = Deployed(account, data)
    BY <1>7 DEF Witnessed
  <2>2. account \in held'[id]
    BY <1>2
  <2>3. CASE account # None /\ account.kind = "program"
    <3>1. PICK data \in held[account.pointer] : state = Deployed(account, data)
      BY <2>1, <2>3
    <3>2. account.pointer \in Address
      BY <2>3 DEF TypeOK, Account
    <3>3. data \in held'[account.pointer]
      BY <1>2, <3>1, <3>2
    <3>. QED BY <2>2, <2>3, <3>1, <3>3 DEF Witnessed
  <2>4. CASE ~(account # None /\ account.kind = "program")
    BY <2>1, <2>2, <2>4 DEF Witnessed
  <2>. QED BY <2>3, <2>4
<1>8. PlacesInv'
  BY <1>1 DEF LookupInv, PlacesInv, Total
<1>9. PendingInv'
  BY <1>1, <1>5, <1>6 DEF LookupInv, PendingInv
<1>10. FactsInv'
  <2>1. \A n \in DOMAIN out : IsParked(n)' <=> IsParked(n)
    BY <1>1 DEF IsParked
  <2>. QED BY <1>1, <1>5, <1>6, <1>7, <2>1 DEF LookupInv, FactsInv
<1>. QED BY <1>3, <1>4, <1>8, <1>9, <1>10 DEF LookupInv

\* The loader's transactions change the cluster into a cluster.
LEMMA LoaderIsChange ==
  ASSUME TypeOK,
         \/ \E a \in DOMAIN DataOf, k \in Authorities : Deploy(a, k)
         \/ \E d \in Address : Upgrade(d) \/ Revoke(d) \/ Close(d)
  PROVE  \E c \in Cluster : Change(c)
<1>1. cluster \in [Address -> Account \cup {None}] /\ cluster[Junk] = None
  BY DEF TypeOK, Cluster
<1>2. ASSUME NEW a \in DOMAIN DataOf, NEW k \in Authorities, Deploy(a, k)
      PROVE  \E c \in Cluster : Change(c)
  <2> DEFINE program == [kind |-> "program", pointer |-> DataOf[a], authority |-> None, slot |-> 0]
             data == [kind |-> "data", pointer |-> None, authority |-> k, slot |-> 1]
             c == [cluster EXCEPT ![a] = program, ![DataOf[a]] = data]
  <2>1. a \in Address /\ DataOf[a] \in Address /\ Junk \notin {a, DataOf[a]} /\ k \in Address
    BY LoaderAssumption
  <2>2. program \in Account
    BY <2>1, JunkAssumption DEF Account
  <2>3. data \in Account
    BY <2>1 DEF Account
  <2>4. c \in Cluster
    BY <1>1, <2>1, <2>2, <2>3, JunkAssumption DEF Cluster
  <2>. QED BY <1>2, <2>4 DEF Deploy
<1>3. ASSUME NEW d \in Address, HoldsCode(d)
      PROVE  /\ d # Junk /\ cluster[d] \in Account
             /\ cluster[d].kind = "data" /\ cluster[d].slot \in Nat
  BY <1>1, <1>3 DEF HoldsCode, Account
<1>4. ASSUME NEW d \in Address, HoldsCode(d), NEW x \in Account \cup {None}
      PROVE  [cluster EXCEPT ![d] = x] \in Cluster
  <2>1. [cluster EXCEPT ![d] = x] \in [Address -> Account \cup {None}]
    BY <1>1, <1>4
  <2>2. [cluster EXCEPT ![d] = x][Junk] = None
    BY <1>1, <1>3, <1>4, JunkAssumption
  <2>. QED BY <2>1, <2>2 DEF Cluster
<1>5. ASSUME NEW d \in Address, Upgrade(d)
      PROVE  \E c \in Cluster : Change(c)
  <2>1. [cluster[d] EXCEPT !.slot = @ + 1] \in Account
    BY <1>3, <1>5 DEF Account, Upgrade
  <2>2. [cluster EXCEPT ![d].slot = @ + 1] = [cluster EXCEPT ![d] = [cluster[d] EXCEPT !.slot = @ + 1]]
    BY <1>1
  <2>. QED BY <1>4, <1>5, <2>1, <2>2 DEF Upgrade
<1>6. ASSUME NEW d \in Address, Revoke(d)
      PROVE  \E c \in Cluster : Change(c)
  <2>1. [cluster[d] EXCEPT !.authority = None] \in Account
    BY <1>3, <1>6 DEF Account, Revoke
  <2>2. [cluster EXCEPT ![d].authority = None] = [cluster EXCEPT ![d] = [cluster[d] EXCEPT !.authority = None]]
    BY <1>1
  <2>. QED BY <1>4, <1>6, <2>1, <2>2 DEF Revoke
<1>7. ASSUME NEW d \in Address, Close(d)
      PROVE  \E c \in Cluster : Change(c)
  BY <1>4, <1>7 DEF Close
<1>. QED BY <1>2, <1>5, <1>6, <1>7

LEMMA LoaderStep ==
  ASSUME TypeOK, LookupInv,
         \/ \E a \in DOMAIN DataOf, k \in Authorities : Deploy(a, k)
         \/ \E d \in Address : Upgrade(d) \/ Revoke(d) \/ Close(d)
  PROVE  TypeOK' /\ LookupInv'
BY LoaderIsChange, ChangeStep

\* The second pass asks for everything the first one parked.
LEMMA StartDataStep ==
  ASSUME TypeOK, LookupInv, StartData
  PROVE  TypeOK' /\ LookupInv'
<1>1. /\ pass = "programs" /\ asked = Len(ids) /\ pass' = "data" /\ asked' = 0
      /\ UNCHANGED <<cluster, events, ids, out, attempt, held, unheard>>
  BY DEF StartData
<1>2. /\ Len(out) = Len(ids) /\ Len(out) \in Nat /\ DOMAIN out = 1 .. Len(out)
      /\ \A n \in 1 .. Len(out) : out[n] \in Deployment
      /\ \A n \in DOMAIN out : out[n].declared = ids[n]
  BY <1>1, LenProperties, ElementOfSeq DEF TypeOK, LookupInv, PlacesInv, Deployment
<1> DEFINE n == Cardinality(Parked)
<1>3. n \in Nat
  <2>1. IsFiniteSet(1 .. Len(out))
    BY <1>2, FS_Interval
  <2>2. Parked \in SUBSET (1 .. Len(out))
    BY DEF Parked
  <2>3. IsFiniteSet(Parked)
    BY <2>1, <2>2, FS_Subset
  <2>. QED BY <2>3, FS_CardinalityType
<1>4. PICK order \in Bijection(1 .. n, Parked) :
        pending' = [i \in DOMAIN order |->
                      [index |-> order[i], address |-> out[order[i]].state.authority]]
  BY DEF StartData
<1> HIDE DEF n
<1>5. /\ order \in [1 .. n -> Parked] /\ DOMAIN order = 1 .. n
      /\ \A i, j \in 1 .. n : order[i] = order[j] => i = j
      /\ \A m \in Parked : \E i \in 1 .. n : order[i] = m
  BY <1>4 DEF Bijection, Injection, IsInjective, Surjection
<1>6. ASSUME NEW m \in Parked
      PROVE  /\ m \in 1 .. Len(out)
             /\ out[m].state.kind = "upgradeable"
             /\ PointsAt(ids[m], out[m].state.authority)
             /\ out[m].state.authority \in Address
  <2>1. m \in 1 .. Len(out) /\ out[m].state.kind = "upgradeable" /\ IsParked(m)
    BY <1>1, <1>6 DEF Parked, IsParked
  <2>2. PointsAt(ids[m], out[m].state.authority)
    BY <1>2, <2>1 DEF LookupInv, FactsInv
  <2>3. PICK account \in held[ids[m]] :
          account # None /\ PointerOf(account) = out[m].state.authority /\ out[m].state.authority # None
    BY <2>2 DEF PointsAt
  <2>4. ids[m] \in Address
    BY <1>2, <2>1, ElementOfSeq DEF TypeOK
  <2>5. account \in Account
    BY <2>3, <2>4 DEF TypeOK
  <2>6. PointerOf(account) \in Address \cup {None}
    BY <2>5, JunkAssumption DEF PointerOf, Account
  <2>7. out[m].state.authority \in Address \cup {None}
    BY <2>3, <2>6
  <2>. QED BY <2>1, <2>2, <2>3, <2>7
<1>7. pending' \in Seq([index : Nat, address : Address]) /\ Len(pending') = n /\ DOMAIN pending' = 1 .. n
  BY <1>3, <1>4, <1>5, <1>6, IsASeq
<1>8. TypeOK'
  BY <1>1, <1>7 DEF TypeOK
<1>9. PlacesInv'
  BY <1>1, <1>2, <1>3, <1>7 DEF PlacesInv, Total
<1>10. PendingInv'
  BY <1>1, <1>2, <1>4, <1>5, <1>6, <1>7 DEF PendingInv, PointsAt
<1>11. FactsInv'
  <2>1. \A m \in DOMAIN out : IsParked(m) <=> m \in Parked
    BY <1>1, <1>2 DEF IsParked, Parked
  <2>2. ASSUME NEW m \in Parked PROVE IsParked(m)'
    <3>1. PICK i \in 1 .. n : order[i] = m
      BY <1>5
    <3>2. pending'[i].index = m /\ i \in asked' + 1 .. Len(pending')
      BY <1>1, <1>3, <1>4, <1>5, <1>7, <3>1
    <3>. QED BY <1>1, <1>6, <3>2 DEF IsParked
  <2>3. \A m \in DOMAIN out : IsParked(m)' => m \in Parked
    BY <1>1, <1>2 DEF IsParked, Parked
  <2>. QED BY <1>1, <2>1, <2>2, <2>3 DEF LookupInv, FactsInv, PointsAt, Witnessed
<1>12. HistoryInv'
  BY <1>1 DEF LookupInv, HistoryInv
<1>. QED BY <1>8, <1>9, <1>10, <1>11, <1>12 DEF LookupInv

\* Whatever becomes of a call.
LEMMA RecordStep ==
  ASSUME TypeOK, LookupInv, Asking,
         NEW state \in [Chunk -> State], \A i \in Chunk : Honest(i, state[i]),
         Record(state),
         NEW S \in SUBSET Chunk, unheard' = unheard \cup {IndexOf(i) : i \in S}
  PROVE  TypeOK' /\ LookupInv'
<1>1. out' \in Seq(Deployment) /\ PlacesInv' /\ PendingInv' /\ FactsInv'
  BY RecordAppends, RecordReplaces DEF Asking
<1>2. asked' = ChunkEnd /\ attempt' = 0 /\ UNCHANGED <<cluster, events, ids, pass, pending, held>>
  BY DEF Record
<1>3. asked' \in Nat /\ attempt' \in 0 .. MaxAttempts
  BY <1>2, ChunkIsInside, LimitAssumption
<1>4. ASSUME NEW i \in Chunk PROVE IndexOf(i) \in 1 .. Len(ids)
  <2>1. i \in 1 .. Total
    BY ChunkIsInside DEF Chunk, TypeOK
  <2>2. CASE pass = "programs"
    BY <2>1, <2>2 DEF IndexOf, Total
  <2>3. CASE pass = "data"
    <3>1. i \in DOMAIN pending /\ DOMAIN out = 1 .. Len(ids)
      BY <2>1, <2>3, LenProperties DEF TypeOK, LookupInv, PlacesInv, Total
    <3>. QED BY <3>1, <2>3 DEF IndexOf, LookupInv, PendingInv
  <2>. QED BY <2>2, <2>3 DEF Asking
<1>5. unheard' \subseteq 1 .. Len(ids)
  BY <1>4 DEF TypeOK
<1>6. TypeOK'
  BY <1>1, <1>2, <1>3, <1>5 DEF TypeOK, Deployment
<1>7. HistoryInv'
  BY <1>2 DEF LookupInv, HistoryInv
<1>. QED BY <1>1, <1>6, <1>7 DEF LookupInv

LEMMA ReplyStep ==
  ASSUME TypeOK, LookupInv, NEW garbled \in SUBSET Chunk, Reply(garbled)
  PROVE  TypeOK' /\ LookupInv'
BY ReplyIsHonest, RecordStep DEF Reply

LEMMA FailStep ==
  ASSUME TypeOK, LookupInv, Asking, Fail
  PROVE  TypeOK' /\ LookupInv'
<1> DEFINE state == [i \in Chunk |-> Unavailable]
<1>1. state \in [Chunk -> State]
  BY DEF Unavailable, Plain, State
<1>2. \A i \in Chunk : Honest(i, state[i])
  BY DEF Honest, Unavailable, Plain
<1>3. Record(state) /\ unheard' = unheard \cup {IndexOf(i) : i \in Chunk}
  BY DEF Fail
<1>. HIDE DEF state
<1>. QED BY <1>1, <1>2, <1>3, RecordStep

LEMMA LoseStep ==
  ASSUME TypeOK, LookupInv, Lose
  PROVE  TypeOK' /\ LookupInv'
<1>1. attempt' \in 0 .. MaxAttempts /\ UNCHANGED <<cluster, events, ids, pass, out, pending, asked, held, unheard>>
  BY LimitAssumption DEF Lose, TypeOK
<1>2. TypeOK'
  BY <1>1 DEF TypeOK
<1>3. LookupInv'
  BY <1>1 DEF LookupInv, PlacesInv, PendingInv, FactsInv, HistoryInv, Total, IsParked, PointsAt, Witnessed
<1>. QED BY <1>2, <1>3

\* With nothing left to ask, nothing is left parked.
LEMMA FinishStep ==
  ASSUME TypeOK, LookupInv, Finish
  PROVE  TypeOK' /\ LookupInv'
<1>1. /\ pass = "data" /\ asked = Len(pending) /\ pass' = "done"
      /\ UNCHANGED <<cluster, events, ids, out, pending, asked, attempt, held, unheard>>
  BY DEF Finish
<1>2. TypeOK'
  BY <1>1 DEF TypeOK
<1>3. PlacesInv' /\ PendingInv' /\ HistoryInv'
  BY <1>1 DEF LookupInv, PlacesInv, PendingInv, HistoryInv, Total
<1>4. \A n \in DOMAIN out : ~IsParked(n) /\ ~IsParked(n)'
  <2>1. asked + 1 .. Len(pending) = {}
    BY <1>1 DEF TypeOK
  <2>. QED BY <1>1, <2>1 DEF IsParked
<1>5. FactsInv'
  BY <1>1, <1>4 DEF LookupInv, FactsInv, Witnessed
<1>. QED BY <1>2, <1>3, <1>5 DEF LookupInv

----------------------------------------------------------------------------
LEMMA LookupInitially ==
  ASSUME Init
  PROVE  TypeOK /\ LookupInv
<1>1. /\ cluster \in Cluster /\ events = 0 /\ ids \in Seq(Address)
      /\ pass = (IF ids = <<>> THEN "done" ELSE "programs")
      /\ out = <<>> /\ pending = <<>> /\ asked = 0 /\ attempt = 0
      /\ held = [a \in Address |-> {cluster[a]}] /\ unheard = {}
  BY ClusterAssumption, ListAssumption DEF Init
<1>2. Len(ids) \in Nat /\ (ids = <<>> => Len(ids) = 0)
  BY <1>1, LenProperties
<1>3. TypeOK
  <2>1. held \in [Address -> SUBSET (Account \cup {None})]
    BY <1>1 DEF Cluster
  <2>2. out \in Seq([declared : Address, state : State]) /\ pending \in Seq([index : Nat, address : Address])
    BY <1>1, EmptySeq
  <2>3. events \in 0 .. MaxEvents /\ attempt \in 0 .. MaxAttempts
    BY <1>1, LimitAssumption
  <2>. QED BY <1>1, <2>1, <2>2, <2>3 DEF TypeOK
<1>4. PlacesInv
  BY <1>1, <1>2 DEF PlacesInv, Total
<1>5. PendingInv /\ FactsInv
  BY <1>1 DEF PendingInv, FactsInv
<1>6. HistoryInv
  BY <1>1, JunkAssumption DEF HistoryInv, Cluster
<1>. QED BY <1>3, <1>4, <1>5, <1>6 DEF LookupInv

LEMMA LookupStep ==
  ASSUME TypeOK, LookupInv, [Next]_vars
  PROVE  TypeOK' /\ LookupInv'
<1>1. CASE \E a \in DOMAIN DataOf, k \in Authorities : Deploy(a, k)
  BY <1>1, LoaderStep
<1>2. CASE \E d \in Address : Upgrade(d) \/ Revoke(d) \/ Close(d)
  BY <1>2, LoaderStep
<1>3. CASE Lose
  BY <1>3, LoseStep
<1>4. CASE GiveUp
  BY <1>4, FailStep DEF GiveUp
<1>5. CASE Malformed
  BY <1>5, FailStep DEF Malformed
<1>6. CASE \E garbled \in SUBSET Chunk : Reply(garbled)
  BY <1>6, ReplyStep
<1>7. CASE StartData
  BY <1>7, StartDataStep
<1>8. CASE Finish
  BY <1>8, FinishStep
<1>9. CASE UNCHANGED vars
  <2>1. UNCHANGED <<cluster, events, ids, pass, out, pending, asked, attempt, held, unheard>>
    BY <1>9 DEF vars, resolving
  <2>2. TypeOK'
    BY <2>1 DEF TypeOK
  <2>3. LookupInv'
    BY <2>1 DEF LookupInv, PlacesInv, PendingInv, FactsInv, HistoryInv, Total, IsParked, PointsAt, Witnessed
  <2>. QED BY <2>2, <2>3
<1>. QED BY <1>1, <1>2, <1>3, <1>4, <1>5, <1>6, <1>7, <1>8, <1>9 DEF Next, Resolve

\* The invariant the theorems below rest on.
LEMMA LookupInvariant == Spec => [](TypeOK /\ LookupInv)
<1>1. Init => TypeOK /\ LookupInv
  BY LookupInitially
<1>2. TypeOK /\ LookupInv /\ [Next]_vars => (TypeOK /\ LookupInv)'
  BY LookupStep
<1>. QED BY <1>1, <1>2, PTL DEF Spec

\* Every variable of the lookup keeps its type (onchain.rs, resolve).
THEOREM TypeCorrect == Spec => []TypeOK
BY LookupInvariant, PTL

(***************************************************************************)
(* One deployment per id, in the order of the ids, for every batch size    *)
(* and every pattern of failures.                                          *)
(***************************************************************************)
THEOREM LookupIsInOrder == Spec => []OnePerId
<1>1. TypeOK /\ LookupInv => OnePerId
  <2>. SUFFICES ASSUME TypeOK, LookupInv, pass = "done" PROVE OnePerId
    BY DEF OnePerId
  <2>1. Len(out) = Len(ids) /\ DOMAIN out = 1 .. Len(out) /\ DOMAIN ids = 1 .. Len(ids)
    BY LenProperties DEF TypeOK, LookupInv, PlacesInv
  <2>. QED BY <2>1 DEF OnePerId, LookupInv, PlacesInv
<1>. QED BY <1>1, LookupInvariant, PTL

(***************************************************************************)
(* An unanswered question is never reported as a fact: every state of a    *)
(* finished lookup other than Unavailable is one the accounts of that very *)
(* id amounted to while it ran.                                            *)
(***************************************************************************)
THEOREM LookupReportsFacts == Spec => []FactsOnly
<1>1. TypeOK /\ LookupInv => FactsOnly
  BY DEF FactsOnly, LookupInv, FactsInv, PlacesInv, IsParked
<1>. QED BY <1>1, LookupInvariant, PTL

----------------------------------------------------------------------------
(***************************************************************************)
(* Refinement: what the abstract specification sees of a state.            *)
(***************************************************************************)
Answers == [n \in DOMAIN ids |-> IF Answered(n) THEN out[n].state ELSE None]

\* What is recorded for an entry answers its id, and takes no answer back.
LEMMA RecordAnswers ==
  ASSUME TypeOK, LookupInv, Asking, TypeOK', LookupInv', NEW state, Record(state)
  PROVE  \A n \in DOMAIN ids : Answers'[n] = Answers[n] \/ Answers[n] = None
<1>1. UNCHANGED <<ids, pass, pending, held>> /\ asked' = ChunkEnd
  BY DEF Record
<1>2. asked < ChunkEnd /\ ChunkEnd \in Nat /\ asked \in Nat
  BY ChunkIsInside DEF TypeOK
<1>. SUFFICES ASSUME NEW n \in DOMAIN ids, Answered(n)
              PROVE  Answered(n)' /\ out'[n] = out[n]
  BY <1>1 DEF Answers
<1>3. CASE pass = "programs"
  <2>1. DOMAIN out = 1 .. asked
    BY <1>3, LenProperties DEF TypeOK, LookupInv, PlacesInv
  <2>2. n \in 1 .. asked /\ n \in 1 .. ChunkEnd /\ n \notin Chunk
    BY <1>2, <2>1 DEF Answered, Chunk
  <2>3. out' = [m \in 1 .. ChunkEnd |->
                  IF m \in Chunk THEN [declared |-> ids[m], state |-> state[m]] ELSE out[m]]
    BY <1>3 DEF Record
  <2>4. out'[n] = out[n] /\ n \in DOMAIN out'
    BY <2>2, <2>3
  <2>. QED BY <2>4, <1>1, <1>3 DEF Answered, IsParked
<1>4. CASE pass = "data"
  <2>1. DOMAIN out = 1 .. Len(out) /\ DOMAIN pending = 1 .. Len(pending) /\ Len(pending) \in Nat
        /\ Total = Len(pending)
    BY <1>4, LenProperties DEF TypeOK, Total
  <2>2. \A i \in Chunk : i \in DOMAIN pending /\ i \in asked + 1 .. Len(pending) /\ i > asked
    BY <2>1, <1>2, ChunkIsInside DEF Chunk
  <2>3. \A i \in Chunk : pending[i].index # n
    BY <2>2, <1>4 DEF Answered, IsParked, LookupInv, PendingInv
  <2>4. out' = [m \in 1 .. Len(out) |->
                  IF \E i \in Chunk : pending[i].index = m
                  THEN [declared |-> out[m].declared,
                        state |-> state[CHOOSE i \in Chunk : pending[i].index = m]]
                  ELSE out[m]]
    BY <1>4 DEF Record
  <2>5. out'[n] = out[n] /\ n \in DOMAIN out'
    BY <2>1, <2>3, <2>4 DEF Answered
  <2>6. ChunkEnd + 1 .. Len(pending) \subseteq asked + 1 .. Len(pending)
    BY <1>2, <2>1
  <2>. QED BY <2>5, <2>6, <1>1, <1>4 DEF Answered, IsParked
<1>. QED BY <1>3, <1>4 DEF Asking

\* The two modules mean the same by a deployment.
LEMMA SameDeployments ==
  ASSUME NEW id, NEW state
  PROVE  Abstract!Acceptable(id, state) <=> state = Unavailable \/ Witnessed(id, state)
<1>1. Abstract!Unavailable = Unavailable
  BY DEF Abstract!Unavailable, Abstract!Plain, Unavailable, Plain
<1>2. \A account, data : Abstract!Deployed(account, data) = Deployed(account, data)
  BY DEF Abstract!Deployed, Deployed, Abstract!Absent, Abstract!NotAProgram, Abstract!Immutable,
         Abstract!Unavailable, Abstract!Plain, Absent, NotAProgram, Immutable, Unavailable, Plain
<1>. QED BY <1>1, <1>2 DEF Abstract!Acceptable, Witnessed

LEMMA RecordRefines ==
  ASSUME TypeOK, LookupInv, Asking, TypeOK', LookupInv', NEW state, Record(state)
  PROVE  Abstract!Next \/ UNCHANGED <<ids, held, Answers>>
<1>1. UNCHANGED <<ids, held>>
  BY DEF Record
<1>2. ASSUME NEW n \in DOMAIN ids, Answers'[n] # Answers[n]
      PROVE  Answers[n] = None /\ Abstract!Acceptable(ids[n], Answers'[n])
  <2>1. Answers[n] = None
    <3>1. \A m \in DOMAIN ids : Answers'[m] = Answers[m] \/ Answers[m] = None
      BY RecordAnswers
    <3>. QED BY <1>2, <3>1
  <2>2. Answers'[n] = IF Answered(n)' THEN out'[n].state ELSE None
    BY <1>1 DEF Answers
  <2>3. Answered(n)'
    BY <1>2, <2>1, <2>2
  <2>4. out'[n].state = Unavailable \/ Witnessed(ids[n], out'[n].state)
    BY <1>1, <2>3 DEF Answered, LookupInv, FactsInv, Witnessed
  <2>. QED BY <2>1, <2>2, <2>3, <2>4, SameDeployments
<1>3. Abstract!Answer
  BY <1>1, <1>2 DEF Abstract!Answer, Answers
<1>. QED BY <1>3 DEF Abstract!Next

\* Nothing that leaves the places and what is parked alone changes the answers.
LEMMA SameAnswers ==
  ASSUME UNCHANGED <<ids, out>>, \A n \in DOMAIN out : IsParked(n)' <=> IsParked(n)
  PROVE  UNCHANGED Answers
BY DEF Answers, Answered

LEMMA ChangeRefines ==
  ASSUME TypeOK, NEW c \in Cluster, Change(c)
  PROVE  Abstract!Next
<1>1. UNCHANGED <<ids, pass, out, pending, asked, attempt>>
      /\ held' = [a \in Address |-> held[a] \cup {c[a]}]
  BY DEF Change, resolving
<1>2. UNCHANGED Answers
  BY <1>1, SameAnswers DEF IsParked
<1>3. \A a \in Address : held[a] \subseteq held'[a]
  BY <1>1
<1>. QED BY <1>1, <1>2, <1>3 DEF Abstract!Next, Abstract!Happen, Answers

\* What the second pass has to ask for is what is parked, and no more.
LEMMA StartDataParks ==
  ASSUME TypeOK, LookupInv, StartData, LookupInv', TypeOK'
  PROVE  UNCHANGED <<ids, held, out>> /\ \A n \in DOMAIN out : IsParked(n)' <=> IsParked(n)
<1>1. /\ pass = "programs" /\ asked = Len(ids) /\ pass' = "data" /\ asked' = 0
      /\ UNCHANGED <<ids, out, held>>
  BY DEF StartData
<1>2. DOMAIN out = 1 .. Len(out) /\ Len(out) \in Nat
  BY LenProperties DEF TypeOK
<1>3. \A n \in DOMAIN out : IsParked(n) <=> n \in Parked
  BY <1>1, <1>2 DEF IsParked, Parked
<1>4. ASSUME NEW n \in Parked PROVE IsParked(n)'
  <2>1. PICK order \in Bijection(1 .. Cardinality(Parked), Parked) :
          pending' = [i \in DOMAIN order |->
                        [index |-> order[i], address |-> out[order[i]].state.authority]]
    BY DEF StartData
  <2> DEFINE last == Cardinality(Parked)
  <2>2. last \in Nat
    <3>1. Parked \in SUBSET (1 .. Len(out)) /\ IsFiniteSet(1 .. Len(out))
      BY <1>2, FS_Interval DEF Parked
    <3>. QED BY <3>1, FS_Subset, FS_CardinalityType
  <2>3. order \in Bijection(1 .. last, Parked)
    BY <2>1
  <2> HIDE DEF last
  <2>4. PICK i \in 1 .. last : order[i] = n
    BY <2>3 DEF Bijection, Surjection
  <2>5. DOMAIN order = 1 .. last
    BY <2>3 DEF Bijection, Injection
  <2>6. DOMAIN pending' = 1 .. last /\ Len(pending') = last
    <3>1. DOMAIN pending' = 1 .. last
      BY <2>1, <2>5
    <3>2. pending' \in Seq([index : Nat, address : Address])
      BY DEF TypeOK
    <3>3. Len(pending') \in Nat /\ DOMAIN pending' = 1 .. Len(pending')
      BY <3>2, LenProperties
    <3>. QED BY <3>1, <3>3, <2>2
  <2>7. pending'[i].index = n /\ i \in asked' + 1 .. Len(pending')
    <3>1. i \in DOMAIN order
      BY <2>4, <2>5
    <3>2. pending'[i].index = n
      BY <3>1, <2>1, <2>4
    <3>3. i \in asked' + 1 .. Len(pending')
      BY <1>1, <2>2, <2>4, <2>6
    <3>. QED BY <3>2, <3>3
  <2>8. out[n].state.kind = "upgradeable"
    BY DEF Parked
  <2>. QED BY <1>1, <2>7, <2>8 DEF IsParked
<1>5. \A n \in DOMAIN out : IsParked(n)' => n \in Parked
  BY <1>1, <1>2 DEF IsParked, Parked
<1>. QED BY <1>1, <1>3, <1>4, <1>5

LEMMA StartDataRefines ==
  ASSUME TypeOK, LookupInv, StartData, LookupInv', TypeOK'
  PROVE  UNCHANGED <<ids, held, Answers>>
BY StartDataParks, SameAnswers

LEMMA FinishRefines ==
  ASSUME TypeOK, Finish
  PROVE  UNCHANGED <<ids, held, Answers>>
<1>1. pass = "data" /\ asked = Len(pending) /\ pass' = "done" /\ UNCHANGED <<ids, out, held>>
  BY DEF Finish
<1>2. asked + 1 .. Len(pending) = {}
  BY <1>1 DEF TypeOK
<1>. QED BY <1>1, <1>2, SameAnswers DEF IsParked

LEMMA StepRefines ==
  ASSUME TypeOK, LookupInv, TypeOK', LookupInv', [Next]_vars
  PROVE  Abstract!Next \/ UNCHANGED <<ids, held, Answers>>
<1>1. CASE \E a \in DOMAIN DataOf, k \in Authorities : Deploy(a, k)
  BY <1>1, LoaderIsChange, ChangeRefines
<1>2. CASE \E d \in Address : Upgrade(d) \/ Revoke(d) \/ Close(d)
  BY <1>2, LoaderIsChange, ChangeRefines
<1>3. CASE Lose \/ UNCHANGED vars
  <2>1. UNCHANGED <<ids, pass, out, pending, asked, held>>
    BY <1>3 DEF Lose, vars, resolving
  <2>. QED BY <2>1, SameAnswers DEF IsParked
<1>4. CASE GiveUp \/ Malformed
  BY <1>4, RecordRefines DEF GiveUp, Malformed, Fail
<1>5. CASE \E garbled \in SUBSET Chunk : Reply(garbled)
  BY <1>5, RecordRefines DEF Reply
<1>6. CASE StartData
  BY <1>6, StartDataRefines
<1>7. CASE Finish
  BY <1>7, FinishRefines
<1>. QED BY <1>1, <1>2, <1>3, <1>4, <1>5, <1>6, <1>7 DEF Next, Resolve

(***************************************************************************)
(* The two passes, with their batches and retries, implement the promise:  *)
(* every id is answered once, and an answer is never taken back.           *)
(***************************************************************************)
THEOREM LookupImplementsSpec == Spec => ImplementsLookup
<1>1. Init => Abstract!Init
  <2>. SUFFICES ASSUME Init PROVE Abstract!Init
    OBVIOUS
  <2>1. TypeOK
    BY LookupInitially
  <2>2. Answers = [n \in DOMAIN ids |-> None]
    BY DEF Init, Answers, Answered
  <2>. QED BY <2>1, <2>2 DEF Abstract!Init, Answers, TypeOK, Abstract!Account, Account
<1>2. (TypeOK /\ LookupInv) /\ (TypeOK /\ LookupInv)' /\ [Next]_vars
        => [Abstract!Next]_<<ids, held, Answers>>
  BY StepRefines
<1>3. (TypeOK /\ LookupInv) /\ (TypeOK /\ LookupInv)' /\ [Next]_vars
        => [Abstract!Next]_<<ids, held, [n \in DOMAIN ids |-> IF Answered(n) THEN out[n].state ELSE None]>>
  BY <1>2 DEF Answers
<1>. QED BY <1>1, <1>3, LookupInvariant, PTL DEF Spec, ImplementsLookup, Abstract!Spec

----------------------------------------------------------------------------
(***************************************************************************)
(* On a cluster that stands still: the account of an id leads to the       *)
(* address that is parked for it, and all that was heard is what is there. *)
(***************************************************************************)
Leads(n, address) == cluster[ids[n]] # None /\ PointerOf(cluster[ids[n]]) = address

HeardInv ==
  events = 0 =>
    /\ \A n \in DOMAIN out : n \notin unheard =>
         IF IsParked(n) THEN Leads(n, out[n].state.authority)
         ELSE out[n].state = DeployedAt(cluster, ids[n])
    /\ pass = "data" => \A i \in DOMAIN pending : i > asked =>
         pending[i].index \in unheard \/ Leads(pending[i].index, pending[i].address)

\* A state that a heard call may record for entry i of the list.
Right(i, s) ==
  IF pass = "programs" /\ s.kind = "upgradeable" THEN Leads(IndexOf(i), s.authority)
  ELSE s = DeployedAt(cluster, ids[IndexOf(i)])

LEMMA ClassifyProgramIsRight ==
  ASSUME NEW account \in Account \cup {None}
  PROVE  LET s == ClassifyProgram(account, TRUE)
         IN  IF s.kind = "upgradeable" THEN account # None /\ PointerOf(account) = s.authority
             ELSE /\ account = None \/ account.kind # "program"
                  /\ \A data : s = Deployed(account, data)
<1> DEFINE s == ClassifyProgram(account, TRUE)
<1>1. CASE account = None
  BY <1>1 DEF ClassifyProgram, Deployed, Absent, Plain
<1>2. CASE account # None /\ account.kind \in {"foreign", "final"}
  BY <1>2 DEF ClassifyProgram, Deployed, NotAProgram, Immutable, Plain
<1>3. CASE account # None /\ account.kind \in {"program", "data"}
  <2>1. PointerOf(account) # None
    BY <1>3, JunkAssumption DEF PointerOf, Account
  <2>2. s = Upgradeable(PointerOf(account), 0)
    BY <1>3, <2>1 DEF ClassifyProgram
  <2>3. \A x : Upgradeable(x, 0).kind = "upgradeable" /\ Upgradeable(x, 0).authority = x
    BY DEF Upgradeable
  <2>. HIDE DEF s
  <2>. QED BY <1>3, <2>2, <2>3 DEF s
<1>4. CASE account # None /\ account.kind = "short"
  BY <1>4 DEF ClassifyProgram, Deployed, PointerOf, Unavailable, Plain
<1>. QED BY <1>1, <1>2, <1>3, <1>4 DEF Account

LEMMA ClassifyDataIsRight ==
  ASSUME NEW c \in Cluster, NEW id \in Address, c[id] # None, PointerOf(c[id]) \in Address
  PROVE  ClassifyData(c[PointerOf(c[id])], TRUE) = DeployedAt(c, id)
<1>1. c[id] \in Account /\ None \notin Address /\ c[Junk] = None
  BY JunkAssumption DEF Cluster
<1>2. c[id].kind \in {"program", "data"}
  BY <1>1 DEF PointerOf, Account
<1>3. CASE c[id].kind = "program"
  <2>1. PointerOf(c[id]) = c[id].pointer /\ DeployedAt(c, id) = Deployed(c[id], c[c[id].pointer])
    BY <1>3 DEF PointerOf, DeployedAt
  <2>. QED BY <1>3, <2>1 DEF ClassifyData, Deployed, Unavailable, Plain, Frozen, Upgradeable
<1>4. CASE c[id].kind = "data"
  <2>1. PointerOf(c[id]) = Junk
    BY <1>4 DEF PointerOf
  <2>2. DeployedAt(c, id) = Unavailable
    BY <1>4 DEF DeployedAt, Deployed
  <2>. QED BY <1>1, <2>1, <2>2 DEF ClassifyData
<1>. QED BY <1>2, <1>3, <1>4

\* A reply is right about every entry that could be decoded.
LEMMA ReplyIsRight ==
  ASSUME TypeOK, LookupInv, HeardInv, events = 0, Asking, NEW garbled \in SUBSET Chunk,
         NEW i \in Chunk \ garbled
  PROVE  \/ IndexOf(i) \in unheard
         \/ Right(i, IF pass = "programs"
                     THEN ClassifyProgram(cluster[AddressOf(i)], i \notin garbled)
                     ELSE ClassifyData(cluster[AddressOf(i)], i \notin garbled))
<1>1. i \in 1 .. Total /\ (i \notin garbled) = TRUE
  BY ChunkIsInside DEF Chunk, TypeOK
<1>2. CASE pass = "programs"
  <2>1. AddressOf(i) = ids[i] /\ IndexOf(i) = i /\ cluster[ids[i]] \in Account \cup {None}
    <3>1. ids[i] \in Address
      BY <1>1, <1>2, ElementOfSeq DEF Total, TypeOK
    <3>. QED BY <1>2, <3>1 DEF AddressOf, IndexOf, TypeOK, Cluster
  <2> DEFINE account == cluster[ids[i]]  s == ClassifyProgram(account, TRUE)
  <2>2. IF s.kind = "upgradeable" THEN account # None /\ PointerOf(account) = s.authority
        ELSE (account = None \/ account.kind # "program") /\ \A data : s = Deployed(account, data)
    BY <2>1, ClassifyProgramIsRight
  <2>3. Right(i, s)
    BY <1>2, <2>1, <2>2 DEF Right, Leads, DeployedAt
  <2>. QED BY <1>1, <1>2, <2>1, <2>3
<1>3. CASE pass = "data" /\ IndexOf(i) \notin unheard
  <2>1. i \in DOMAIN pending /\ i > asked /\ pending[i] \in [index : Nat, address : Address]
    <3>1. i \in DOMAIN pending /\ i > asked
      BY <1>1, <1>3, LenProperties DEF Chunk, Total, TypeOK
    <3>2. pending[i] \in [index : Nat, address : Address]
      BY <1>1, <1>3, ElementOfSeq DEF TypeOK, Total
    <3>. QED BY <3>1, <3>2
  <2>2. AddressOf(i) = pending[i].address /\ IndexOf(i) = pending[i].index
    BY <1>3 DEF AddressOf, IndexOf
  <2> DEFINE id == ids[IndexOf(i)]
  <2>3. id \in Address
    <3>1. pending[i].index \in 1 .. Len(ids)
      BY <1>3, <2>1, LenProperties DEF LookupInv, PendingInv, PlacesInv, TypeOK
    <3>. QED BY <2>2, <3>1, ElementOfSeq DEF TypeOK
  <2>4. cluster[id] # None /\ PointerOf(cluster[id]) = pending[i].address
    BY <1>3, <2>1, <2>2 DEF HeardInv, Leads
  <2>5. ClassifyData(cluster[AddressOf(i)], TRUE) = DeployedAt(cluster, id)
    BY <2>1, <2>2, <2>3, <2>4, ClassifyDataIsRight DEF TypeOK
  <2>. QED BY <1>1, <1>3, <2>5 DEF Right
<1>. QED BY <1>2, <1>3 DEF Asking

\* Recording what was heard, for all entries but those of S.
LEMMA RecordIsHeard ==
  ASSUME TypeOK, LookupInv, HeardInv, events = 0, Asking, NEW state \in [Chunk -> State], Record(state),
         NEW S \in SUBSET Chunk, unheard' = unheard \cup {IndexOf(i) : i \in S},
         \A i \in Chunk \ S : IndexOf(i) \in unheard \/ Right(i, state[i])
  PROVE  HeardInv'
<1>1. /\ asked' = ChunkEnd /\ UNCHANGED <<cluster, events, ids, pass, pending>>
      /\ asked \in Nat /\ ChunkEnd \in Nat /\ Total \in Nat /\ asked < ChunkEnd /\ ChunkEnd <= Total
  BY ChunkIsInside DEF Record, TypeOK
<1>2. CASE pass = "programs"
  <2>1. /\ out' = [n \in 1 .. ChunkEnd |->
                     IF n \in Chunk THEN [declared |-> ids[n], state |-> state[n]] ELSE out[n]]
        /\ DOMAIN out = 1 .. asked
    BY <1>2, LenProperties DEF Record, LookupInv, PlacesInv, TypeOK
  <2>2. ASSUME NEW n \in 1 .. ChunkEnd, n \notin unheard'
        PROVE  IF out'[n].state.kind = "upgradeable" THEN Leads(n, out'[n].state.authority)
               ELSE out'[n].state = DeployedAt(cluster, ids[n])
    <3>1. CASE n \in Chunk
      <4>1. out'[n].state = state[n] /\ IndexOf(n) = n
        BY <1>2, <2>1, <3>1 DEF IndexOf
      <4>2. n \in Chunk \ S /\ IndexOf(n) \notin unheard
        BY <2>2, <3>1, <4>1
      <4>. QED BY <1>2, <4>1, <4>2 DEF Right
    <3>2. CASE n \notin Chunk
      <4>1. n \in DOMAIN out /\ out'[n] = out[n]
        BY <1>1, <2>1, <3>2 DEF Chunk
      <4>. QED BY <1>2, <2>2, <4>1 DEF HeardInv, IsParked
    <3>. QED BY <3>1, <3>2
  <2>3. DOMAIN out' = 1 .. ChunkEnd
    BY <2>1
  <2>4. \A n \in 1 .. ChunkEnd : IsParked(n)' <=> out'[n].state.kind = "upgradeable"
    BY <1>1, <1>2 DEF IsParked
  <2>. QED BY <1>1, <1>2, <2>2, <2>3, <2>4 DEF HeardInv, Leads
<1>3. CASE pass = "data"
  <2>1. /\ out' = [n \in 1 .. Len(out) |->
                     IF \E i \in Chunk : pending[i].index = n
                     THEN [declared |-> out[n].declared,
                           state |-> state[CHOOSE i \in Chunk : pending[i].index = n]]
                     ELSE out[n]]
        /\ DOMAIN out = 1 .. Len(out) /\ Total = Len(pending) /\ DOMAIN pending = 1 .. Len(pending)
    BY <1>3, LenProperties DEF Record, TypeOK, Total
  <2>2. \A i \in Chunk : i \in DOMAIN pending /\ IndexOf(i) = pending[i].index
    BY <1>1, <1>3, <2>1 DEF Chunk, IndexOf
  <2>3. ASSUME NEW n \in DOMAIN out, n \notin unheard'
        PROVE  IF IsParked(n)' THEN Leads(n, out'[n].state.authority)
               ELSE out'[n].state = DeployedAt(cluster, ids[n])
    <3>1. CASE \E i \in Chunk : pending[i].index = n
      <4>1. PICK i \in Chunk : pending[i].index = n
        BY <3>1
      <4>2. (CHOOSE j \in Chunk : pending[j].index = n) = i
        BY <1>3, <2>2, <4>1 DEF LookupInv, PendingInv
      <4>3. out'[n].state = state[i]
        BY <2>1, <4>1, <4>2
      <4>4. i \in Chunk \ S /\ IndexOf(i) \notin unheard
        BY <2>2, <2>3, <4>1
      <4>5. state[i] = DeployedAt(cluster, ids[n])
        BY <1>3, <2>2, <4>1, <4>4 DEF Right
      <4>6. ~IsParked(n)'
        <5>1. ASSUME NEW j \in ChunkEnd + 1 .. Len(pending), pending[j].index = n
              PROVE  FALSE
          <6>1. j \in DOMAIN pending /\ j # i
            BY <1>1, <2>1 DEF Chunk
          <6>. QED BY <1>3, <2>2, <4>1, <5>1, <6>1 DEF LookupInv, PendingInv
        <5>. QED BY <1>1, <1>3, <5>1 DEF IsParked
      <4>. QED BY <4>3, <4>5, <4>6
    <3>2. CASE \A i \in Chunk : pending[i].index # n
      <4>1. out'[n] = out[n] /\ n \notin unheard
        BY <2>1, <2>3, <3>2
      <4>2. IsParked(n)' <=> IsParked(n)
        <5>1. \A i \in asked + 1 .. Len(pending) : i \in Chunk \/ i \in ChunkEnd + 1 .. Len(pending)
          BY <1>1, <2>1 DEF Chunk
        <5>2. ChunkEnd + 1 .. Len(pending) \subseteq asked + 1 .. Len(pending)
          BY <1>1, <2>1
        <5>. QED BY <1>1, <1>3, <3>2, <4>1, <5>1, <5>2 DEF IsParked
      <4>. QED BY <4>1, <4>2 DEF HeardInv
    <3>. QED BY <3>1, <3>2
  <2>4. DOMAIN out' = DOMAIN out
    BY <2>1
  <2>5. \A i \in DOMAIN pending : i > asked' =>
          pending[i].index \in unheard' \/ Leads(pending[i].index, pending[i].address)
    <3>1. \A i \in DOMAIN pending : i > ChunkEnd => i > asked
      BY <1>1, <2>1
    <3>. QED BY <1>1, <1>3, <3>1 DEF HeardInv
  <2>. QED BY <1>1, <2>3, <2>4, <2>5 DEF HeardInv, Leads
<1>. QED BY <1>2, <1>3 DEF Asking

LEMMA HeardStep ==
  ASSUME TypeOK, LookupInv, HeardInv, TypeOK', LookupInv', [Next]_vars
  PROVE  HeardInv'
<1>1. CASE \/ \E a \in DOMAIN DataOf, k \in Authorities : Deploy(a, k)
           \/ \E d \in Address : Upgrade(d) \/ Revoke(d) \/ Close(d)
  <2>1. \E c \in Cluster : Change(c)
    BY <1>1, LoaderIsChange
  <2>2. events' = events + 1 /\ events \in Nat
    BY <2>1, LimitAssumption DEF Change, TypeOK
  <2>. QED BY <2>2 DEF HeardInv
<1>2. CASE Lose \/ UNCHANGED vars
  <2>1. UNCHANGED <<cluster, events, ids, pass, out, pending, asked, unheard>>
    BY <1>2 DEF Lose, vars, resolving
  <2>. QED BY <2>1 DEF HeardInv, IsParked, Leads
<1>3. CASE events = 0 /\ (GiveUp \/ Malformed)
  <2> DEFINE state == [i \in Chunk |-> Unavailable]
  <2>1. state \in [Chunk -> State]
    BY DEF Unavailable, Plain, State
  <2>2. Asking /\ Record(state) /\ unheard' = unheard \cup {IndexOf(i) : i \in Chunk}
    BY <1>3 DEF GiveUp, Malformed, Fail
  <2>3. \A i \in Chunk \ Chunk : IndexOf(i) \in unheard \/ Right(i, state[i])
    OBVIOUS
  <2>. HIDE DEF state
  <2>. QED BY <1>3, <2>1, <2>2, <2>3, RecordIsHeard
<1>4. ASSUME events = 0, NEW garbled \in SUBSET Chunk, Reply(garbled)
      PROVE  HeardInv'
  <2> DEFINE state == [i \in Chunk |->
                         IF pass = "programs"
                         THEN ClassifyProgram(cluster[AddressOf(i)], i \notin garbled)
                         ELSE ClassifyData(cluster[AddressOf(i)], i \notin garbled)]
  <2>1. Asking /\ Record(state) /\ unheard' = unheard \cup {IndexOf(i) : i \in garbled}
    BY <1>4 DEF Reply
  <2>2. state \in [Chunk -> State]
    BY <2>1, ReplyIsHonest
  <2>3. \A i \in Chunk \ garbled : IndexOf(i) \in unheard \/ Right(i, state[i])
    BY <1>4, <2>1, ReplyIsRight
  <2>. HIDE DEF state
  <2>. QED BY <1>4, <2>1, <2>2, <2>3, RecordIsHeard
<1>5. CASE events = 0 /\ StartData
  <2>1. /\ pass = "programs" /\ asked = Len(ids) /\ pass' = "data"
        /\ UNCHANGED <<cluster, events, ids, out, unheard>>
    BY <1>5 DEF StartData
  <2>2. \A n \in DOMAIN out : IsParked(n)' <=> IsParked(n)
    BY <1>5, StartDataParks
  <2>3. PICK order \in Bijection(1 .. Cardinality(Parked), Parked) :
          pending' = [i \in DOMAIN order |->
                        [index |-> order[i], address |-> out[order[i]].state.authority]]
    BY <1>5 DEF StartData
  <2>4. ASSUME NEW i \in DOMAIN pending'
        PROVE  pending'[i].index \in unheard \/ Leads(pending'[i].index, pending'[i].address)
    <3>1. i \in DOMAIN order /\ order[i] \in Parked
      BY <2>3, <2>4 DEF Bijection, Injection
    <3>2. pending'[i].index = order[i] /\ pending'[i].address = out[order[i]].state.authority
      BY <2>3, <3>1
    <3>3. order[i] \in DOMAIN out /\ IsParked(order[i])
      BY <2>1, <3>1, LenProperties DEF Parked, IsParked, TypeOK
    <3>. QED BY <1>5, <3>2, <3>3 DEF HeardInv
  <2>. QED BY <1>5, <2>1, <2>2, <2>4 DEF HeardInv, Leads
<1>6. CASE events = 0 /\ Finish
  <2>1. pass = "data" /\ asked = Len(pending) /\ pass' = "done"
        /\ UNCHANGED <<cluster, events, ids, out, pending, asked, unheard>>
    BY <1>6 DEF Finish
  <2>2. \A n \in DOMAIN out : ~IsParked(n) /\ ~IsParked(n)'
    <3>1. asked + 1 .. Len(pending) = {}
      BY <2>1 DEF TypeOK
    <3>. QED BY <2>1, <3>1 DEF IsParked
  <2>. QED BY <1>6, <2>1, <2>2 DEF HeardInv
<1>7. (GiveUp \/ Malformed \/ (\E garbled \in SUBSET Chunk : Reply(garbled)) \/ StartData \/ Finish) /\ events # 0
        => HeardInv'
  <2>1. GiveUp \/ Malformed \/ (\E garbled \in SUBSET Chunk : Reply(garbled)) \/ StartData \/ Finish
          => events' = events
    BY DEF GiveUp, Malformed, Fail, Reply, Record, StartData, Finish
  <2>. QED BY <2>1 DEF HeardInv
<1>. QED BY <1>1, <1>2, <1>3, <1>4, <1>5, <1>6, <1>7 DEF Next, Resolve

(***************************************************************************)
(* A failure costs the ids it covered and no others: on a cluster that     *)
(* stands still, a finished lookup answers every id whose calls went       *)
(* through and whose accounts could be decoded with exactly what is        *)
(* deployed there, for every batch size and every pattern of failures.     *)
(***************************************************************************)
THEOREM FailuresStayContained == Spec => []FailureIsContained
<1>1. Init => HeardInv
  BY DEF Init, HeardInv
<1>2. (TypeOK /\ LookupInv) /\ (TypeOK /\ LookupInv)' /\ HeardInv /\ [Next]_vars => HeardInv'
  BY HeardStep
<1>3. HeardInv => FailureIsContained
  BY DEF HeardInv, FailureIsContained, IsParked
<1>. QED BY <1>1, <1>2, <1>3, LookupInvariant, PTL DEF Spec
============================================================================
