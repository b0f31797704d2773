--------------------------- MODULE DepGraphProofs ---------------------------
(***************************************************************************)
(* Proofs about DepGraph, for every set of manifests, every content of     *)
(* them and every number of calls and edits.                               *)
(***************************************************************************)
EXTENDS DepGraph, FiniteSetTheorems, FunctionTheorems, SequenceTheorems, TLAPS

(***************************************************************************)
(* Facts about what manifests compile in.                                  *)
(***************************************************************************)

\* A local crate is always a manifest, never None.
LEMMA DependenciesAreManifests ==
  ASSUME NEW read \in Reads, NEW m \in Manifest
  PROVE  PathDependencies(read, m) \subseteq Manifest
<1>1. SUFFICES ASSUME NEW e \in Local(read, m)
               PROVE  Target(read, m, e) \in Manifest
  BY DEF PathDependencies
<1>2. read[m] \in Content /\ e \in Entry /\ Target(read, m, e) # None
  BY ContentAssumption DEF Local, Shipped
<1>3. CASE e.path # None
  <2>1. e.path \in Path
    BY <1>2, <1>3 DEF Entry
  <2>. QED BY <2>1, <1>3, LayoutAssumption DEF Target
<1>4. CASE e.path = None
  <2>1. Target(read, m, e) = Inherited(read, m, e.name) /\ e.name \in Name
    BY <1>2, <1>4 DEF Target, Entry
  <2>2. RootOf[m] \in Manifest /\ read[RootOf[m]] \in Content
        /\ read[RootOf[m]].inherit[e.name] # None
        /\ Inherited(read, m, e.name) = ManifestIn[RootOf[m]][read[RootOf[m]].inherit[e.name]]
    BY <1>2, <2>1, LayoutAssumption DEF Inherited
  <2>3. read[RootOf[m]].inherit[e.name] \in Path
    BY <2>1, <2>2, ContentAssumption
  <2>. QED BY <2>1, <2>2, <2>3, LayoutAssumption
<1>. QED BY <1>3, <1>4

\* The local entries of a manifest name what its builds take in, and nothing else.
LEMMA DependenciesAreTakenIn ==
  ASSUME NEW read \in Reads, NEW m \in Manifest, NEW n \in Manifest
  PROVE  TakesIn(read, m, n) <=> n \in PathDependencies(read, m)
<1>1. ASSUME read[m] \in Content, NEW e \in read[m].deps
      PROVE  /\ e \in Entry
             /\ e \in Shipped(read[m]) <=> e.table \notin {"dev", "build"} /\ e.optional = FALSE
  <2>1. e \in Entry
    BY <1>1, ContentAssumption
  <2>2. e.table \in {"dependencies", "target", "dev", "build"} /\ e.optional \in BOOLEAN
    BY <2>1 DEF Entry, Table
  <2>. QED BY <1>1, <2>1, <2>2 DEF Shipped
<1>2. ASSUME NEW e \in Entry
      PROVE  Target(read, m, e) = n <=>
               \E p \in Path :
                 \/ e.path = p /\ ManifestIn[m][p] = n
                 \/ /\ e.path = None /\ e.workspace
                    /\ \E root \in {RootOf[m]} \cap Manifest :
                         read[root] \in Content /\ read[root].inherit[e.name] = p /\ ManifestIn[root][p] = n
  <2>1. /\ e.path \in Path \cup {None} /\ e.name \in Name /\ e.workspace \in BOOLEAN
        /\ None \notin Path /\ None # n
    BY MarkerAssumption DEF Entry
  <2>2. CASE e.path # None
    BY <2>1, <2>2 DEF Target
  <2>3. CASE e.path = None /\ ~e.workspace
    BY <2>1, <2>3 DEF Target
  <2>4. CASE e.path = None /\ e.workspace
    <3>1. Target(read, m, e) = Inherited(read, m, e.name)
      BY <2>4 DEF Target
    <3>2. RootOf[m] \in Manifest \cup {None} /\ None \notin Manifest
      BY LayoutAssumption, MarkerAssumption
    <3>3. CASE RootOf[m] = None \/ read[RootOf[m]] \notin Content
      BY <2>1, <2>4, <3>1, <3>2, <3>3 DEF Inherited
    <3>4. CASE RootOf[m] \in Manifest /\ read[RootOf[m]] \in Content
      <4>1. read[RootOf[m]].inherit[e.name] \in Path \cup {None}
        BY <2>1, <3>4, ContentAssumption
      <4>. QED BY <2>1, <2>4, <3>1, <3>2, <3>4, <4>1 DEF Inherited
    <3>. QED BY <3>2, <3>3, <3>4
  <2>. QED BY <2>1, <2>2, <2>3, <2>4
<1>3. n # None
  BY MarkerAssumption
<1>4. ASSUME read[m] \in Content
      PROVE  n \in PathDependencies(read, m) <=>
               \E e \in read[m].deps : e \in Shipped(read[m]) /\ Target(read, m, e) = n
  BY <1>3, <1>4 DEF PathDependencies, Local, Shipped
<1>5. CASE read[m] \in Content
  BY <1>1, <1>2, <1>4, <1>5 DEF TakesIn
<1>6. CASE read[m] \notin Content
  BY <1>6 DEF TakesIn, PathDependencies, Local
<1>. QED BY <1>5, <1>6

\* A set is closed when it holds the local crates of all of its members.
LEMMA ClosedByDependencies ==
  ASSUME NEW read \in Reads, NEW S \in SUBSET Manifest
  PROVE  Closed(read, S) <=> \A m \in S : PathDependencies(read, m) \subseteq S
<1>1. \A m \in S, n \in Manifest : TakesIn(read, m, n) <=> n \in PathDependencies(read, m)
  BY DependenciesAreTakenIn
<1>2. \A m \in S : PathDependencies(read, m) \subseteq Manifest
  BY DependenciesAreManifests
<1>. QED BY <1>1, <1>2 DEF Closed

\* later knows everything read does.
Extends(later, read) == \A n \in Manifest : read[n] # Unread => later[n] = read[n]

\* Reading more manifests never takes a dependency away.
LEMMA DependenciesGrow ==
  ASSUME NEW read \in Reads, NEW later \in Reads, Extends(later, read), NEW m \in Manifest
  PROVE  PathDependencies(read, m) \subseteq PathDependencies(later, m)
<1>1. SUFFICES ASSUME NEW e \in Local(read, m)
               PROVE  e \in Local(later, m) /\ Target(later, m, e) = Target(read, m, e)
  BY DEF PathDependencies
<1>2. read[m] \in Content /\ e \in Shipped(read[m]) /\ Target(read, m, e) # None
  BY DEF Local
<1>3. later[m] = read[m]
  BY <1>2, MarkerAssumption DEF Extends
<1>4. Target(later, m, e) = Target(read, m, e)
  <2>1. CASE e.path # None
    BY <2>1 DEF Target
  <2>2. CASE e.path = None
    <3>1. Target(read, m, e) = Inherited(read, m, e.name) /\ e.workspace
      BY <1>2, <2>2 DEF Target
    <3>2. RootOf[m] \in Manifest /\ read[RootOf[m]] \in Content
      BY <1>2, <3>1, LayoutAssumption DEF Inherited
    <3>3. later[RootOf[m]] = read[RootOf[m]]
      BY <3>2, MarkerAssumption DEF Extends
    <3>. QED BY <3>1, <3>3, <2>2 DEF Target, Inherited
  <2>. QED BY <2>1, <2>2
<1>. QED BY <1>2, <1>3, <1>4 DEF Local

\* Once everything path_dependencies consults for m has been read, the answer is final.
LEMMA DependenciesSettle ==
  ASSUME NEW read \in Reads, NEW later \in Reads, Extends(later, read), NEW m \in Manifest,
         \A n \in Consults(read[m], m) : read[n] # Unread
  PROVE  /\ PathDependencies(later, m) = PathDependencies(read, m)
         /\ \A n \in Consults(later[m], m) : later[n] # Unread
<1>1. read[m] # Unread /\ later[m] = read[m]
  BY DEF Consults, Extends
<1>2. \A n \in Consults(read[m], m) : n \in Manifest /\ later[n] = read[n]
  BY LayoutAssumption DEF Consults, Extends
<1>3. ASSUME NEW e \in Shipped(read[m]), read[m] \in Content
      PROVE  Target(later, m, e) = Target(read, m, e)
  <2>1. CASE Inherits(e)
    <3>1. RootOf[m] # None => RootOf[m] \in Consults(read[m], m)
      BY <1>3, <2>1 DEF Consults
    <3>2. RootOf[m] # None => later[RootOf[m]] = read[RootOf[m]]
      BY <3>1, <1>2
    <3>. QED BY <3>2 DEF Target, Inherited
  <2>2. CASE ~Inherits(e)
    BY <2>2 DEF Inherits, Target
  <2>. QED BY <2>1, <2>2
<1>4. Local(later, m) = Local(read, m)
  BY <1>1, <1>3 DEF Local
<1>5. \A e \in Local(read, m) : e \in Shipped(read[m]) /\ read[m] \in Content
  BY DEF Local
<1>6. PathDependencies(later, m) = PathDependencies(read, m)
  BY <1>3, <1>4, <1>5 DEF PathDependencies
<1>. QED BY <1>1, <1>2, <1>6

\* Local entries are finitely many, so there is an order to push them in.
LEMMA LocalFinite ==
  ASSUME NEW read \in Reads, NEW m \in Manifest
  PROVE  /\ IsFiniteSet(Local(read, m))
         /\ Cardinality(Local(read, m)) \in Nat
<1>1. IsFiniteSet(Local(read, m))
  <2>1. CASE read[m] \in Content
    <3>1. IsFiniteSet(read[m].deps) /\ Local(read, m) \in SUBSET read[m].deps
      BY <2>1, ContentAssumption DEF Local, Shipped
    <3>. QED BY <3>1, FS_Subset
  <2>2. CASE read[m] \notin Content
    BY <2>2, FS_EmptySet DEF Local
  <2>. QED BY <2>1, <2>2
<1>. QED BY <1>1, FS_CardinalityType

----------------------------------------------------------------------------
(***************************************************************************)
(* The stack.                                                              *)
(***************************************************************************)

LEMMA PopIsLast ==
  ASSUME pending \in Seq(Manifest), pending # <<>>
  PROVE  /\ Top \in Manifest
         /\ Popped \in Seq(Manifest)
         /\ Len(Popped) = Len(pending) - 1
         /\ Range(pending) = Range(Popped) \cup {Top}
<1>1. Len(pending) \in Nat \ {0}
  OBVIOUS
<1>2. Top \in Manifest /\ Popped \in Seq(Manifest) /\ Len(Popped) = Len(pending) - 1
  <2>1. Len(pending) - 1 \in 0 .. Len(pending) /\ Len(pending) \in 1 .. Len(pending)
    BY <1>1
  <2>2. Top \in Manifest
    BY <2>1, ElementOfSeq DEF Top
  <2> DEFINE n == Len(pending) - 1
  <2>3. n \in Nat /\ \A i \in 1 .. n : pending[i] \in Manifest
    BY <1>1, ElementOfSeq
  <2>4. /\ SubSeq(pending, 1, n) \in Seq(Manifest)
        /\ Len(SubSeq(pending, 1, n)) = IF 1 <= n THEN n - 1 + 1 ELSE 0
    <3> HIDE DEF n
    <3>. QED BY <2>3, SubSeqProperties
  <2>5. \A k \in Nat : (IF 1 <= k THEN k - 1 + 1 ELSE 0) = k
    OBVIOUS
  <2>. QED BY <2>2, <2>3, <2>4, <2>5 DEF Popped
<1>3. \A i \in 1 .. Len(pending) - 1 : Popped[i] = pending[i]
  BY <1>1 DEF Popped
<1>4. DOMAIN pending = 1 .. Len(pending) /\ DOMAIN Popped = 1 .. Len(pending) - 1
  BY <1>2
<1>5. Range(pending) = Range(Popped) \cup {Top}
  <2>1. ASSUME NEW x \in Range(pending)
        PROVE  x \in Range(Popped) \cup {Top}
    <3>1. PICK i \in 1 .. Len(pending) : x = pending[i]
      BY <1>4 DEF Range
    <3>2. CASE i = Len(pending)
      BY <3>1, <3>2 DEF Top
    <3>3. CASE i # Len(pending)
      <4>1. i \in 1 .. Len(pending) - 1
        BY <1>1, <3>3
      <4>. QED BY <4>1, <3>1, <1>3, <1>4 DEF Range
    <3>. QED BY <3>2, <3>3
  <2>2. ASSUME NEW x \in Range(Popped) \cup {Top}
        PROVE  x \in Range(pending)
    <3>1. CASE x = Top
      BY <3>1, <1>1, <1>4 DEF Top, Range
    <3>2. CASE x \in Range(Popped)
      <4>1. PICK i \in 1 .. Len(pending) - 1 : x = Popped[i]
        BY <3>2, <1>4 DEF Range
      <4>. QED BY <4>1, <1>1, <1>3, <1>4 DEF Range
    <3>. QED BY <2>2, <3>1, <3>2
  <2>. QED BY <2>1, <2>2
<1>. QED BY <1>2, <1>5

LEMMA RangeOfConcatenation ==
  ASSUME NEW S, NEW s \in Seq(S), NEW t \in Seq(S)
  PROVE  Range(s \o t) = Range(s) \cup Range(t)
<1>1. /\ s \o t \in Seq(S)
      /\ Len(s \o t) = Len(s) + Len(t)
      /\ Len(s) \in Nat /\ Len(t) \in Nat
      /\ DOMAIN (s \o t) = 1 .. Len(s) + Len(t)
      /\ DOMAIN s = 1 .. Len(s) /\ DOMAIN t = 1 .. Len(t)
  OBVIOUS
<1>2. \A i \in 1 .. Len(s) : (s \o t)[i] = s[i]
  BY <1>1
<1>3. \A i \in 1 .. Len(t) : (s \o t)[Len(s) + i] = t[i]
  BY <1>1
<1>4. ASSUME NEW x \in Range(s \o t)
      PROVE  x \in Range(s) \cup Range(t)
  <2>1. PICK i \in 1 .. Len(s) + Len(t) : x = (s \o t)[i]
    BY <1>1 DEF Range
  <2>2. CASE i \in 1 .. Len(s)
    BY <2>1, <2>2, <1>1, <1>2 DEF Range
  <2>3. CASE i \notin 1 .. Len(s)
    <3>1. i - Len(s) \in 1 .. Len(t) /\ i = Len(s) + (i - Len(s))
      BY <2>1, <2>3, <1>1
    <3>2. x = t[i - Len(s)]
      BY <2>1, <3>1, <1>3
    <3>. QED BY <3>1, <3>2, <1>1 DEF Range
  <2>. QED BY <2>2, <2>3
<1>5. ASSUME NEW x \in Range(s) \cup Range(t)
      PROVE  x \in Range(s \o t)
  <2>1. CASE x \in Range(s)
    <3>1. PICK i \in 1 .. Len(s) : x = s[i]
      BY <2>1, <1>1 DEF Range
    <3>2. i \in 1 .. Len(s) + Len(t)
      BY <3>1, <1>1
    <3>. QED BY <3>1, <3>2, <1>1, <1>2 DEF Range
  <2>2. CASE x \in Range(t)
    <3>1. PICK i \in 1 .. Len(t) : x = t[i]
      BY <2>2, <1>1 DEF Range
    <3>2. Len(s) + i \in 1 .. Len(s) + Len(t)
      BY <3>1, <1>1
    <3>. QED BY <3>1, <3>2, <1>1, <1>3 DEF Range
  <2>. QED BY <1>5, <2>1, <2>2
<1>. QED BY <1>4, <1>5

(***************************************************************************)
(* A turn of the loop that expands: what it reads, what it pushes.         *)
(***************************************************************************)
LEMMA ExpandEffect ==
  ASSUME TypeOK, Expand
  PROVE  /\ Top \in Manifest
         /\ parsed' \in Reads
         /\ Extends(parsed', parsed)
         /\ \A n \in Consults(parsed'[Top], Top) : parsed'[n] # Unread
         /\ pending' \in Seq(Manifest)
         /\ Range(pending') = Range(Popped) \cup PathDependencies(parsed', Top)
<1>1. /\ Top \in Manifest /\ Popped \in Seq(Manifest)
      /\ parsed \in Reads /\ disk \in [Manifest -> OnDisk]
  BY PopIsLast DEF TypeOK, Expand
<1> DEFINE consulted == Consults(Parse(Top), Top)
<1>2. parsed' = [n \in Manifest |-> IF n \in consulted THEN Parse(n) ELSE parsed[n]]
  BY DEF Expand, ParseAll
<1>3. \A n \in Manifest : Parse(n) \in OnDisk /\ (parsed[n] # Unread => Parse(n) = parsed[n])
  BY <1>1 DEF Parse, Reads
<1>4. parsed' \in Reads /\ Extends(parsed', parsed)
  BY <1>1, <1>2, <1>3 DEF Reads, Extends
<1>5. \A n \in Consults(parsed'[Top], Top) : parsed'[n] # Unread
  <2>1. consulted \subseteq Manifest /\ Top \in consulted
    BY <1>1, LayoutAssumption DEF Consults
  <2>2. parsed'[Top] = Parse(Top)
    BY <1>1, <1>2, <2>1
  <2>3. \A n \in consulted : parsed'[n] \in OnDisk
    BY <1>2, <1>3, <2>1
  <2>. QED BY <2>2, <2>3, MarkerAssumption DEF OnDisk
<1> HIDE DEF consulted
<1> DEFINE local == Local(parsed', Top)
           n == Cardinality(local)
<1>6. n \in Nat
  BY <1>1, <1>4, LocalFinite
<1>7. PICK order \in Bijection(1 .. n, local) :
        pending' = Popped \o [i \in DOMAIN order |-> Target(parsed', Top, order[i])]
  BY DEF Expand
<1>8. /\ order \in [1 .. n -> local]
      /\ \A e \in local : \E i \in 1 .. n : order[i] = e
  BY <1>7 DEF Bijection, Injection, Surjection
<1> DEFINE pushed == [i \in 1 .. n |-> Target(parsed', Top, order[i])]
<1>9. \A e \in local : Target(parsed', Top, e) \in Manifest
  BY <1>1, <1>4, DependenciesAreManifests DEF PathDependencies
<1>10. pushed \in Seq(Manifest) /\ pending' = Popped \o pushed
  <2>1. pushed \in [1 .. n -> Manifest]
    BY <1>8, <1>9
  <2>2. DOMAIN order = 1 .. n
    BY <1>8
  <2>3. pushed \in Seq(Manifest)
    BY <2>1, <1>6, IsASeq
  <2>. QED BY <1>7, <2>2, <2>3
<1>11. Range(pushed) = PathDependencies(parsed', Top)
  BY <1>8 DEF Range, PathDependencies
<1> HIDE DEF pushed, local, n
<1>12. pending' \in Seq(Manifest)
  BY <1>1, <1>10
<1>13. Range(pending') = Range(Popped) \cup PathDependencies(parsed', Top)
  BY <1>1, <1>10, <1>11, RangeOfConcatenation
<1>. QED BY <1>1, <1>4, <1>5, <1>12, <1>13

----------------------------------------------------------------------------
(***************************************************************************)
(* The variables of DepGraph keep their types: in particular the stack     *)
(* only ever holds manifests, so a name that resolves to nothing is never  *)
(* looked up.                                                              *)
(***************************************************************************)
THEOREM TypeCorrect == Spec => []TypeOK
<1>1. Init => TypeOK
  <2>. SUFFICES ASSUME Init PROVE TypeOK
    OBVIOUS
  <2>1. edits \in 0 .. MaxEdits
    BY BoundAssumption DEF Init
  <2>2. disk \in [Manifest -> OnDisk] /\ parsed \in Reads
    BY DEF Init, Reads
  <2>3. /\ active \in Manifest \cup {None} /\ reached \in SUBSET Manifest
        /\ pending \in Seq(Manifest) /\ answers \in Seq([root : Manifest, reached : SUBSET Manifest])
    BY DEF Init
  <2>. QED BY <2>1, <2>2, <2>3 DEF TypeOK
<1>2. TypeOK /\ [Next]_vars => TypeOK'
  <2>. SUFFICES ASSUME TypeOK, [Next]_vars PROVE TypeOK'
    OBVIOUS
  <2>. USE DEF TypeOK
  <2>1. ASSUME NEW m \in Manifest, Edit(m) PROVE TypeOK'
    <3>1. disk' \in [Manifest -> OnDisk]
      BY <2>1 DEF Edit
    <3>2. edits' \in 0 .. MaxEdits
      BY <2>1, BoundAssumption DEF Edit
    <3>. QED BY <2>1, <3>1, <3>2 DEF Edit
  <2>2. ASSUME NEW r \in Manifest, Call(r) PROVE TypeOK'
    <3>1. pending' \in Seq(Manifest) /\ reached' \in SUBSET Manifest
      BY <2>2 DEF Call
    <3>. QED BY <2>2, <3>1 DEF Call
  <2>3. CASE Skip
    <3>1. pending' \in Seq(Manifest)
      BY <2>3, PopIsLast DEF Skip
    <3>. QED BY <2>3, <3>1 DEF Skip
  <2>4. CASE Expand
    <3>1. /\ Top \in Manifest /\ parsed' \in Reads /\ pending' \in Seq(Manifest)
      BY <2>4, ExpandEffect
    <3>2. reached' \in SUBSET Manifest
      BY <2>4, <3>1 DEF Expand
    <3>. QED BY <2>4, <3>1, <3>2 DEF Expand
  <2>5. CASE Return
    <3>1. answers' \in Seq([root : Manifest, reached : SUBSET Manifest])
      BY <2>5 DEF Return
    <3>2. active' \in Manifest \cup {None}
      BY <2>5 DEF Return
    <3>. QED BY <2>5, <3>1, <3>2 DEF Return
  <2>6. CASE UNCHANGED vars
    BY <2>6 DEF vars
  <2>. QED BY <2>1, <2>2, <2>3, <2>4, <2>5, <2>6 DEF Next
<1>. QED BY <1>1, <1>2, PTL DEF Spec

----------------------------------------------------------------------------
(***************************************************************************)
(* ClosureInv is inductive.                                                *)
(***************************************************************************)

\* Reading more leaves every answer given so far in place.
LEMMA AnswersStay ==
  ASSUME TypeOK, AnswersInv, parsed' \in Reads, Extends(parsed', parsed), UNCHANGED answers
  PROVE  AnswersInv'
<1>1. SUFFICES ASSUME NEW i \in DOMAIN answers
               PROVE  /\ answers[i].root \in answers[i].reached
                      /\ Settled(parsed', answers[i].reached)
                      /\ Closed(parsed', answers[i].reached)
                      /\ \A T \in SUBSET Manifest :
                           answers[i].root \in T /\ Closed(parsed', T)
                             => answers[i].reached \subseteq T
  BY DEF AnswersInv, Justified
<1>2. answers[i].reached \subseteq Manifest /\ parsed \in Reads
  <2>1. answers \in Seq([root : Manifest, reached : SUBSET Manifest])
    BY DEF TypeOK
  <2>2. answers[i] \in [root : Manifest, reached : SUBSET Manifest]
    BY <2>1, LenProperties, ElementOfSeq
  <2>. QED BY <2>2 DEF TypeOK
<1>3. /\ Settled(parsed, answers[i].reached)
      /\ Closed(parsed, answers[i].reached)
      /\ Justified(answers[i].root, answers[i].reached)
      /\ answers[i].root \in answers[i].reached
  BY DEF AnswersInv
<1>4. ASSUME NEW m \in answers[i].reached
      PROVE  /\ PathDependencies(parsed', m) = PathDependencies(parsed, m)
             /\ \A n \in Consults(parsed'[m], m) : parsed'[n] # Unread
  <2>1. m \in Manifest /\ \A n \in Consults(parsed[m], m) : parsed[n] # Unread
    BY <1>2, <1>3 DEF Settled
  <2>. QED BY <2>1, <1>2, DependenciesSettle
<1>5. Settled(parsed', answers[i].reached) /\ Closed(parsed', answers[i].reached)
  BY <1>2, <1>3, <1>4, ClosedByDependencies DEF Settled
<1>6. ASSUME NEW T \in SUBSET Manifest, Closed(parsed', T)
      PROVE  Closed(parsed, T)
  <2>1. \A m \in T : PathDependencies(parsed, m) \subseteq PathDependencies(parsed', m)
    BY <1>2, DependenciesGrow
  <2>. QED BY <2>1, <1>2, <1>6, ClosedByDependencies
<1>. QED BY <1>3, <1>5, <1>6 DEF Justified

\* When the stack is empty the reached set is an answer.
LEMMA EmptyStackAnswers ==
  ASSUME TypeOK, WorklistInv, active # None, pending = <<>>
  PROVE  /\ active \in reached
         /\ Settled(parsed, reached)
         /\ Closed(parsed, reached)
         /\ Justified(active, reached)
<1>1. Range(pending) = {}
  BY DEF Range
<1>2. Worklist = reached
  BY <1>1 DEF Worklist
<1>. QED BY <1>2, ClosedByDependencies DEF WorklistInv, TypeOK

LEMMA ClosureInvStep ==
  ASSUME TypeOK, ClosureInv, [Next]_vars
  PROVE  ClosureInv'
<1>. USE DEF ClosureInv
<1>1. ASSUME NEW m \in Manifest, Edit(m) PROVE ClosureInv'
  BY <1>1 DEF Edit, WorklistInv, AnswersInv, Worklist, Justified, Settled
<1>2. ASSUME NEW r \in Manifest, Call(r) PROVE ClosureInv'
  <2>1. AnswersInv'
    BY <1>2 DEF Call, AnswersInv, Justified, Settled
  <2>2. Range(pending') = {r}
    BY <1>2 DEF Call, Range
  <2>3. Worklist' = {r}
    BY <1>2, <2>2 DEF Call, Worklist
  <2>4. WorklistInv'
    <3>1. /\ active' = r /\ reached' = {} /\ r \in Worklist'
      BY <1>2, <2>3 DEF Call
    <3>2. Settled(parsed', reached') /\ \A m \in reached' : PathDependencies(parsed', m) \subseteq Worklist'
      BY <3>1 DEF Settled
    <3>3. \A T \in SUBSET Manifest : r \in T => Worklist' \subseteq T
      BY <2>3
    <3>. QED BY <3>1, <3>2, <3>3 DEF WorklistInv, Justified
  <2>5. active' # None
    BY <1>2, MarkerAssumption DEF Call
  <2>. QED BY <2>1, <2>4, <2>5
<1>3. CASE Skip
  <2>1. Range(pending) = Range(pending') \cup {Top} /\ Top \in reached
    BY <1>3, PopIsLast DEF Skip, TypeOK
  <2>2. Worklist' = Worklist
    BY <1>3, <2>1 DEF Skip, Worklist
  <2>3. WorklistInv'
    BY <1>3, <2>2 DEF Skip, WorklistInv, Justified, Settled
  <2>4. AnswersInv'
    BY <1>3 DEF Skip, AnswersInv, Justified, Settled
  <2>5. active' # None
    BY <1>3 DEF Skip
  <2>. QED BY <2>3, <2>4, <2>5
<1>4. CASE Expand
  <2>1. /\ Top \in Manifest
        /\ parsed' \in Reads
        /\ Extends(parsed', parsed)
        /\ \A n \in Consults(parsed'[Top], Top) : parsed'[n] # Unread
        /\ Range(pending') = Range(Popped) \cup PathDependencies(parsed', Top)
    BY <1>4, ExpandEffect
  <2>2. /\ active # None /\ active' = active /\ reached' = reached \cup {Top}
        /\ UNCHANGED answers /\ reached \subseteq Manifest /\ parsed \in Reads
    BY <1>4 DEF Expand, TypeOK
  <2>3. Range(pending) = Range(Popped) \cup {Top}
    BY <1>4, PopIsLast DEF Expand, TypeOK
  <2>4. Worklist' = Worklist \cup PathDependencies(parsed', Top) /\ Top \in Worklist
    BY <2>1, <2>2, <2>3 DEF Worklist
  <2>5. ASSUME NEW m \in reached
        PROVE  /\ PathDependencies(parsed', m) = PathDependencies(parsed, m)
               /\ \A n \in Consults(parsed'[m], m) : parsed'[n] # Unread
    <3>1. m \in Manifest /\ \A n \in Consults(parsed[m], m) : parsed[n] # Unread
      BY <2>2 DEF WorklistInv, Settled
    <3>. QED BY <2>1, <2>2, <3>1, DependenciesSettle
  <2>6. Settled(parsed', reached')
    BY <2>1, <2>2, <2>5 DEF Settled
  <2>7. \A m \in reached' : PathDependencies(parsed', m) \subseteq Worklist'
    BY <2>2, <2>4, <2>5 DEF WorklistInv
  <2>8. ASSUME NEW T \in SUBSET Manifest, active \in T, Closed(parsed', T)
        PROVE  Worklist' \subseteq T
    <3>1. \A m \in T : PathDependencies(parsed, m) \subseteq PathDependencies(parsed', m)
      BY <2>1, <2>2, DependenciesGrow
    <3>2. Closed(parsed, T)
      BY <2>1, <2>2, <2>8, <3>1, ClosedByDependencies
    <3>3. Worklist \subseteq T
      BY <2>2, <2>8, <3>2 DEF WorklistInv, Justified
    <3>. QED BY <2>1, <2>4, <2>8, <3>3, ClosedByDependencies
  <2>9. WorklistInv'
    BY <2>2, <2>4, <2>6, <2>7, <2>8 DEF WorklistInv, Justified
  <2>10. AnswersInv'
    BY <2>1, <2>2, AnswersStay
  <2>. QED BY <2>2, <2>9, <2>10
<1>5. CASE Return
  <2>1. /\ active # None /\ pending = <<>> /\ active' = None
        /\ answers' = Append(answers, [root |-> active, reached |-> reached])
        /\ UNCHANGED <<parsed, pending>>
        /\ answers \in Seq([root : Manifest, reached : SUBSET Manifest])
        /\ active \in Manifest /\ reached \in SUBSET Manifest
    BY <1>5 DEF Return, TypeOK
  <2>2. /\ active \in reached /\ Settled(parsed, reached)
        /\ Closed(parsed, reached) /\ Justified(active, reached)
    BY <2>1, EmptyStackAnswers
  <2> DEFINE new == [root |-> active, reached |-> reached]
  <2>3. \A i \in DOMAIN answers' : answers'[i] = new \/ (i \in DOMAIN answers /\ answers'[i] = answers[i])
    <3>1. /\ DOMAIN answers' = 1 .. Len(answers) + 1 /\ DOMAIN answers = 1 .. Len(answers)
          /\ Len(answers) \in Nat
      BY <2>1
    <3>. QED BY <2>1, <3>1
  <2>4. new.root = active /\ new.reached = reached
    OBVIOUS
  <2>5. AnswersInv'
    <3>1. SUFFICES ASSUME NEW i \in DOMAIN answers'
                   PROVE  /\ answers'[i].root \in answers'[i].reached
                          /\ Settled(parsed, answers'[i].reached)
                          /\ Closed(parsed, answers'[i].reached)
                          /\ Justified(answers'[i].root, answers'[i].reached)
      BY <2>1 DEF AnswersInv, Justified
    <3>2. CASE answers'[i] = new
      BY <2>2, <2>4, <3>2
    <3>3. CASE i \in DOMAIN answers /\ answers'[i] = answers[i]
      BY <3>3 DEF AnswersInv
    <3>. QED BY <2>3, <3>2, <3>3
  <2>6. WorklistInv'
    BY <2>1 DEF WorklistInv
  <2>. QED BY <2>1, <2>5, <2>6
<1>6. CASE UNCHANGED vars
  BY <1>6 DEF vars, WorklistInv, AnswersInv, Worklist, Justified, Settled
<1>. QED BY <1>1, <1>2, <1>3, <1>4, <1>5, <1>6 DEF Next

LEMMA ClosureInvariant == Spec => []ClosureInv
<1>1. Init => ClosureInv
  BY DEF Init, ClosureInv, WorklistInv, AnswersInv
<1>. QED BY <1>1, TypeCorrect, ClosureInvStep, PTL DEF Spec

----------------------------------------------------------------------------
(***************************************************************************)
(* The results.                                                            *)
(***************************************************************************)

LEMMA LeastIsReach ==
  ASSUME NEW r \in Manifest, NEW S \in SUBSET Manifest,
         r \in S, Closed(parsed, S), Justified(r, S)
  PROVE  S = Reach(parsed, r)
BY DEF Justified, Reach

LEMMA AnswersAreClosures ==
  ASSUME TypeOK, ClosureInv, NEW i \in DOMAIN answers
  PROVE  /\ answers[i].root \in Manifest
         /\ answers[i].reached \in SUBSET Manifest
         /\ answers[i].reached = Reach(parsed, answers[i].root)
<1>1. answers \in Seq([root : Manifest, reached : SUBSET Manifest])
  BY DEF TypeOK
<1>2. answers[i] \in [root : Manifest, reached : SUBSET Manifest]
  BY <1>1, LenProperties, ElementOfSeq
<1>3. answers[i].root \in Manifest /\ answers[i].reached \in SUBSET Manifest
  BY <1>2
<1>. QED BY <1>3, LeastIsReach DEF ClosureInv, AnswersInv

(***************************************************************************)
(* Every closure DepGraph returns is the least set that holds its root and *)
(* what ships with its members, for any manifests, cycles and edits.       *)
(***************************************************************************)
THEOREM ClosureCorrect == Spec => []ClosureIsLeast
<1>1. TypeOK /\ ClosureInv => ClosureIsLeast
  BY AnswersAreClosures DEF ClosureIsLeast
<1>. QED BY <1>1, TypeCorrect, ClosureInvariant, PTL

(***************************************************************************)
(* Two answers of a run never contradict each other, although the files    *)
(* may have been edited between them.                                      *)
(***************************************************************************)
THEOREM AnswersConsistent == Spec => []AnswersAgree
<1>1. ASSUME TypeOK, ClosureInv, NEW i \in DOMAIN answers, NEW j \in DOMAIN answers,
             answers[j].root \in answers[i].reached
      PROVE  answers[j].reached \subseteq answers[i].reached
  <2>1. answers[i].reached \in SUBSET Manifest /\ Closed(parsed, answers[i].reached)
    BY <1>1, AnswersAreClosures DEF ClosureInv, AnswersInv
  <2>2. Justified(answers[j].root, answers[j].reached)
    BY <1>1 DEF ClosureInv, AnswersInv
  <2>. QED BY <1>1, <2>1, <2>2 DEF Justified
<1>2. TypeOK /\ ClosureInv => AnswersAgree
  BY <1>1 DEF AnswersAgree
<1>. QED BY <1>2, TypeCorrect, ClosureInvariant, PTL

(***************************************************************************)
(* Every turn of the loop of closure reaches a new manifest or takes one   *)
(* off the stack, so that no manifest is expanded twice.                   *)
(***************************************************************************)
THEOREM TurnsMakeProgress == Spec => ExpandedOnce
<1> DEFINE Progress ==
      active # None /\ active' = active
        => \/ reached' # reached
           \/ Len(pending') < Len(pending)
           \/ UNCHANGED <<reached, pending>>
<1>1. TypeOK /\ [Next]_vars => [Progress]_vars
  <2>. SUFFICES ASSUME TypeOK, [Next]_vars PROVE Progress
    OBVIOUS
  <2>1. ASSUME NEW m \in Manifest, Edit(m) PROVE Progress
    BY <2>1 DEF Edit
  <2>2. ASSUME NEW r \in Manifest, Call(r) PROVE Progress
    BY <2>2 DEF Call
  <2>3. CASE Skip
    <3>1. pending \in Seq(Manifest) /\ pending # <<>> /\ pending' = Popped
      BY <2>3 DEF Skip, TypeOK
    <3>2. Len(pending') = Len(pending) - 1 /\ Len(pending) \in Nat
      BY <3>1, PopIsLast
    <3>. QED BY <3>2
  <2>4. CASE Expand
    BY <2>4 DEF Expand
  <2>5. CASE Return
    BY <2>5 DEF Return
  <2>6. CASE UNCHANGED vars
    BY <2>6 DEF vars
  <2>. QED BY <2>1, <2>2, <2>3, <2>4, <2>5, <2>6 DEF Next
<1>2. [][Next]_vars /\ []TypeOK => [][Progress]_vars
  BY <1>1, PTL
<1>. QED BY <1>2, TypeCorrect, PTL DEF Spec, ExpandedOnce

\* ClosureSpec speaks of the same manifests.
LEMMA SameReferences ==
  /\ Abstract!Reads = Reads
  /\ \A S : Abstract!Settled(parsed, S) <=> Settled(parsed, S)
  /\ \A r : Abstract!Reach(parsed, r) = Reach(parsed, r)
<1>1. Abstract!Reads = Reads
  BY DEF Abstract!Reads, Reads, Abstract!OnDisk, OnDisk
<1>2. \A S : Abstract!Settled(parsed, S) <=> Settled(parsed, S)
  BY DEF Abstract!Settled, Settled, Abstract!Consults, Consults, Abstract!Shipped, Shipped,
         Abstract!Inherits, Inherits
<1>3. \A m, n : Abstract!TakesIn(parsed, m, n) <=> TakesIn(parsed, m, n)
  BY DEF Abstract!TakesIn, TakesIn
<1>4. \A S : Abstract!Closed(parsed, S) <=> Closed(parsed, S)
  BY <1>3 DEF Abstract!Closed, Closed
<1>5. \A r : Abstract!Reach(parsed, r) = Reach(parsed, r)
  BY <1>4 DEF Abstract!Reach, Reach
<1>. QED BY <1>1, <1>2, <1>5

(***************************************************************************)
(* The worklist implements the one-step promise of ClosureSpec: a turn of  *)
(* the loop reads manifests or stutters, and a return is an answer.        *)
(***************************************************************************)
THEOREM WorklistImplementsClosure == Spec => ImplementsClosure
<1>1. Init => Abstract!Init
  BY DEF Init, Abstract!Init
<1>2. ASSUME TypeOK, ClosureInv, [Next]_vars
      PROVE  [Abstract!Next]_<<parsed, answers>>
  <2>1. ASSUME NEW m \in Manifest, Edit(m)
        PROVE  UNCHANGED <<parsed, answers>>
    BY <2>1 DEF Edit
  <2>2. ASSUME NEW r \in Manifest, Call(r)
        PROVE  UNCHANGED <<parsed, answers>>
    BY <2>2 DEF Call
  <2>3. CASE Skip
    BY <2>3 DEF Skip
  <2>4. CASE Expand
    <3>1. parsed' \in Reads /\ Extends(parsed', parsed) /\ UNCHANGED answers
      BY <1>2, <2>4, ExpandEffect DEF Expand
    <3>2. Abstract!Learn
      BY <3>1, SameReferences DEF Abstract!Learn, Extends
    <3>. QED BY <3>2 DEF Abstract!Next
  <2>5. CASE Return
    <3>1. /\ active \in Manifest /\ reached \in SUBSET Manifest /\ UNCHANGED parsed
          /\ answers' = Append(answers, [root |-> active, reached |-> reached])
      BY <1>2, <2>5 DEF Return, TypeOK
    <3>2. /\ active \in reached /\ Settled(parsed, reached)
          /\ Closed(parsed, reached) /\ Justified(active, reached)
      BY <1>2, <2>5, EmptyStackAnswers DEF Return, ClosureInv
    <3>3. reached = Reach(parsed, active)
      BY <3>1, <3>2, LeastIsReach
    <3>4. Abstract!Return(active)
      BY <3>1, <3>2, <3>3, SameReferences DEF Abstract!Return
    <3>. QED BY <3>1, <3>4 DEF Abstract!Next
  <2>6. CASE UNCHANGED vars
    BY <2>6 DEF vars
  <2>. QED BY <1>2, <2>1, <2>2, <2>3, <2>4, <2>5, <2>6 DEF Next
<1>. QED BY <1>1, <1>2, TypeCorrect, ClosureInvariant, PTL DEF Spec, ImplementsClosure, Abstract!Spec
============================================================================
