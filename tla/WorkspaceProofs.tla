--------------------------- MODULE WorkspaceProofs ---------------------------
(***************************************************************************)
(* Proofs about Workspace, for any tree of directories, any manifests and  *)
(* any order of the questions: what the two caches keep of earlier answers *)
(* is neither contradicted nor, while nobody edits, wrong.                 *)
(***************************************************************************)
EXTENDS Workspace, SequenceTheorems, TLAPS

(***************************************************************************)
(* Directories and the directories above them.                             *)
(***************************************************************************)
LEMMA ParentIsADir ==
  ASSUME NEW d \in Dir
  PROVE  /\ d \in Seq(STRING) /\ Len(d) \in Nat /\ d # None
         /\ d = <<>> <=> Len(d) = 0
         /\ Parent(d) = None <=> d = <<>>
         /\ Parent(d) # None => Parent(d) \in Dir /\ Len(Parent(d)) = Len(d) - 1
<1>1. d \in Seq(STRING) /\ d # None /\ Len(d) \in Nat /\ (d = <<>> <=> Len(d) = 0)
  BY DirAssumption, LenProperties, EmptySeq
<1>2. CASE d = <<>>
  BY <1>1, <1>2 DEF Parent
<1>3. CASE d # <<>>
  <2>1. Parent(d) = SubSeq(d, 1, Len(d) - 1) /\ Len(d) - 1 \in 0 .. Len(d)
    BY <1>1, <1>3 DEF Parent
  <2>2. Parent(d) \in Dir /\ Parent(d) # None
    BY <2>1, DirAssumption
  <2>3. Len(Parent(d)) = Len(d) - 1
    <3>1. \A i \in 1 .. Len(d) - 1 : d[i] \in STRING
      BY <1>1, ElementOfSeq
    <3>2. 1 \in Int /\ Len(d) - 1 \in Int /\ Len(d) >= 1
      BY <1>1, <1>3
    <3>3. Len(SubSeq(d, 1, Len(d) - 1)) = IF 1 <= Len(d) - 1 THEN Len(d) - 1 - 1 + 1 ELSE 0
      BY <3>1, <3>2, SubSeqProperties
    <3>4. \A n \in Nat : n >= 1 => n - 1 = IF 1 <= n - 1 THEN n - 1 - 1 + 1 ELSE 0
      OBVIOUS
    <3>5. Len(SubSeq(d, 1, Len(d) - 1)) = Len(d) - 1
      BY <1>1, <3>2, <3>3, <3>4, Zenon
    <3>. QED BY <2>1, <3>5, Zenon
  <2>. QED BY <1>1, <1>3, <2>2, <2>3
<1>. QED BY <1>2, <1>3

LEMMA UnderItself ==
  ASSUME NEW d \in Dir
  PROVE  Under(d, d)
BY ParentIsADir, SubSeqFull DEF Under

\* One directory of each length is above another.
LEMMA UnderIsUnique ==
  ASSUME NEW d, NEW e, NEW f, Under(d, e), Under(d, f), Len(e) = Len(f)
  PROVE  e = f
BY DEF Under

LEMMA UnderTheParent ==
  ASSUME NEW d \in Dir, NEW e \in Dir, Under(d, e), Parent(e) # None
  PROVE  Under(d, Parent(e)) /\ Parent(e) # d
<1>1. /\ d \in Seq(STRING) /\ Len(d) \in Nat /\ Len(e) \in Nat /\ Len(e) > 0 /\ Len(e) <= Len(d)
      /\ e = SubSeq(d, 1, Len(e)) /\ Len(Parent(e)) = Len(e) - 1
      /\ Parent(e) = SubSeq(e, 1, Len(e) - 1)
  <2>1. e # <<>>
    BY ParentIsADir
  <2>2. Parent(e) = SubSeq(e, 1, Len(e) - 1)
    BY <2>1 DEF Parent
  <2>. QED BY <2>1, <2>2, ParentIsADir DEF Under
<1>2. SubSeq(d, 1, Len(e) - 1) = Parent(e)
  <2>1. CASE Len(e) = 1
    BY <1>1, <2>1, SubSeqEmpty
  <2>2. CASE Len(e) > 1
    <3>1. 1 \in 1 .. Len(d) /\ Len(e) \in 1 .. Len(d) /\ Len(e) - 1 \in 1 .. Len(e) - 1 + 1 /\ 1 \in 1 .. Len(e) - 1 + 1
      BY <1>1, <2>2
    <3>2. SubSeq(SubSeq(d, 1, Len(e)), 1, Len(e) - 1) = SubSeq(d, 1 + 1 - 1, 1 + (Len(e) - 1) - 1)
      BY <1>1, <3>1, SubSeqOfSubSeq
    <3>. QED BY <1>1, <3>2
  <2>. QED BY <1>1, <2>1, <2>2
<1>. QED BY <1>1, <1>2 DEF Under

\* The one closest to d.
LEMMA NearestIs ==
  ASSUME NEW d \in Dir, NEW S, \A e \in S : e \in Dir /\ Under(d, e),
         NEW f \in S, \A e \in S : Len(e) <= Len(f)
  PROVE  Nearest(S) = f
<1>. DEFINE n == Nearest(S)
<1>1. n \in S /\ \A e \in S : Len(e) <= Len(n)
  BY DEF Nearest
<1>2. Len(n) = Len(f)
  <2>1. Len(n) \in Nat /\ Len(f) \in Nat
    BY <1>1, ParentIsADir
  <2>. QED BY <1>1, <2>1
<1>. QED BY <1>1, <1>2, UnderIsUnique

----------------------------------------------------------------------------
\* From the first manifest on the package is known.
CallInv == call # None /\ call.step # "package" => call.package # None

\* What the answers say of a root is what the cache holds of its manifest.
VerdictInv ==
  \A d \in Dir :
    known[d] # None =>
      IF known[d].manifest = None THEN ~known[d].checks
      ELSE LET value == toml[known[d].manifest]
           IN  value # Unread /\ (known[d].checks <=> value \in Content /\ value.checks)

IInv == TypeOK /\ CallInv /\ VerdictInv

LEMMA InitCorrect == Init => IInv
<1>. SUFFICES ASSUME Init PROVE IInv
  OBVIOUS
<1>1. TypeOK
  BY BoundAssumption DEF Init, TypeOK
<1>2. CallInv /\ VerdictInv
  BY DEF Init, CallInv, VerdictInv
<1>. QED BY <1>1, <1>2 DEF IInv

\* What a read leaves in the cache.
LEMMA ReadIsKept ==
  ASSUME TypeOK, VerdictInv, NEW d \in Dir, Cached(d)
  PROVE  /\ toml' \in [Dir -> Content \cup {Broken, Unread}]
         /\ Read(d) \in Content \cup {Broken} /\ toml'[d] = Read(d) /\ Read(d) # Unread
         /\ \A e \in Dir : toml[e] # Unread => toml'[e] = toml[e]
         /\ known' = known => VerdictInv'
<1>1. Read(d) \in Content \cup {Broken} /\ Read(d) # Unread
  BY ContentAssumption DEF TypeOK, Read
<1>2. /\ toml' \in [Dir -> Content \cup {Broken, Unread}] /\ toml'[d] = Read(d)
      /\ \A e \in Dir : toml[e] # Unread => toml'[e] = toml[e]
  BY <1>1 DEF TypeOK, Cached, Read
<1>3. ASSUME known' = known, NEW e \in Dir, known[e] # None
      PROVE  IF known[e].manifest = None THEN ~known[e].checks
             ELSE LET value == toml'[known[e].manifest]
                  IN  value # Unread /\ (known[e].checks <=> value \in Content /\ value.checks)
  <2>1. known[e].manifest \in Dir \cup {None}
    BY <1>3 DEF TypeOK, Answer
  <2>. QED BY <1>2, <1>3, <2>1 DEF VerdictInv
<1>4. known' = known => VerdictInv'
  BY <1>3 DEF VerdictInv
<1>. QED BY <1>1, <1>2, <1>4

\* The call goes on at a directory.
LEMMA CallStays ==
  ASSUME TypeOK, CallInv, call # None, call.package # None,
         NEW step \in {"pointer", "candidate", "climb", "inspect", "profile"}, NEW at \in Dir,
         GoOn(step, at)
  PROVE  /\ call' \in [dir : Dir, step : {"package", "pointer", "candidate", "climb", "inspect", "profile"},
                        at : Dir, package : Dir \cup {None}]
         /\ CallInv' /\ call'.package = call.package /\ call'.dir = call.dir
         /\ call'.step = step /\ call'.at = at
<1>1. call \in [dir : Dir, step : {"package", "pointer", "candidate", "climb", "inspect", "profile"},
                at : Dir, package : Dir \cup {None}]
  BY DEF TypeOK
<1>2. call' = [call EXCEPT !.step = step, !.at = at]
  BY DEF GoOn
<1>. QED BY <1>1, <1>2 DEF CallInv

\* Where Up goes: on with a directory above d, or to the package itself.
LEMMA UpStays ==
  ASSUME NEW d \in Dir, NEW package \in Dir, Up(d, package)
  PROVE  \E step \in {"climb", "profile"}, at \in Dir :
           /\ GoOn(step, at)
           /\ Parent(d) = None => step = "profile" /\ at = package
           /\ Parent(d) # None => step = "climb" /\ at = Parent(d)
<1>1. CASE Parent(d) = None
  BY <1>1 DEF Up, Root
<1>2. CASE Parent(d) # None
  BY <1>2, ParentIsADir DEF Up
<1>. QED BY <1>1, <1>2

\* A call that goes on keeps the invariant, whatever it has put into the cache.
LEMMA GoingOnPreserves ==
  ASSUME IInv, call # None, call.package \in Dir,
         NEW step \in {"pointer", "candidate", "climb", "inspect", "profile"}, NEW at \in Dir,
         GoOn(step, at), UNCHANGED <<disk, edits, known>>,
         toml' = toml \/ \E d \in Dir : Cached(d)
  PROVE  IInv'
<1>1. call.package # None
  BY DirAssumption
<1>2. toml' \in [Dir -> Content \cup {Broken, Unread}] /\ VerdictInv'
  <2>1. CASE toml' = toml
    BY <2>1 DEF IInv, TypeOK, VerdictInv
  <2>2. CASE \E d \in Dir : Cached(d)
    BY <2>2, ReadIsKept DEF IInv
  <2>. QED BY <2>1, <2>2
<1>3. call' \in [dir : Dir, step : {"package", "pointer", "candidate", "climb", "inspect", "profile"},
                  at : Dir, package : Dir \cup {None}]
      /\ CallInv'
  BY <1>1, CallStays DEF IInv
<1>4. TypeOK'
  BY <1>2, <1>3 DEF IInv, TypeOK
<1>. QED BY <1>2, <1>3, <1>4 DEF IInv

LEMMA StepPreserves == IInv /\ [Next]_vars => IInv'
<1>. SUFFICES ASSUME IInv, [Next]_vars PROVE IInv'
  OBVIOUS
<1>1. call # None => call.at \in Dir /\ call.dir \in Dir /\ (call.step # "package" => call.package \in Dir)
  BY DEF IInv, TypeOK, CallInv
<1>2. ASSUME NEW d \in Dir, Edit(d) PROVE IInv'
  <2>1. TypeOK'
    BY <1>2, BoundAssumption DEF IInv, TypeOK, Edit
  <2>2. CallInv' /\ VerdictInv'
    BY <1>2 DEF IInv, Edit, CallInv, VerdictInv
  <2>. QED BY <2>1, <2>2 DEF IInv
<1>3. ASSUME NEW d \in Dir, Resolve(d) PROVE IInv'
  <2>1. TypeOK'
    BY <1>3 DEF IInv, TypeOK, Resolve
  <2>2. CallInv' /\ VerdictInv'
    BY <1>3 DEF IInv, Resolve, CallInv, VerdictInv
  <2>. QED BY <2>1, <2>2 DEF IInv
<1>4. CASE FindPackage
  <2>0. call # None /\ call.step = "package" /\ call.at \in Dir /\ call.dir \in Dir
        /\ UNCHANGED <<disk, edits, toml>>
    BY <1>1, <1>4 DEF FindPackage, At
  <2>1. CASE call' = [call EXCEPT !.step = "pointer", !.package = call.at] /\ UNCHANGED known
    <3>1. TypeOK'
      BY <2>0, <2>1 DEF IInv, TypeOK
    <3>2. CallInv' /\ VerdictInv'
      BY <2>0, <2>1, DirAssumption DEF IInv, TypeOK, CallInv, VerdictInv
    <3>. QED BY <3>1, <3>2 DEF IInv
  <2>2. CASE Parent(call.at) # None /\ GoOn("package", Parent(call.at)) /\ UNCHANGED known
    <3>1. Parent(call.at) \in Dir
      BY <2>0, <2>2, ParentIsADir
    <3>2. TypeOK'
      BY <2>0, <2>2, <3>1 DEF IInv, TypeOK, GoOn
    <3>3. CallInv' /\ VerdictInv'
      BY <2>0, <2>2, <3>1 DEF IInv, TypeOK, CallInv, VerdictInv, GoOn
    <3>. QED BY <3>2, <3>3 DEF IInv
  <2>3. CASE known' = [known EXCEPT ![call.dir] = [manifest |-> None, checks |-> FALSE]] /\ call' = None
    <3>1. TypeOK'
      BY <2>0, <2>3 DEF IInv, TypeOK, Answer
    <3>2. CallInv' /\ VerdictInv'
      BY <2>0, <2>3 DEF IInv, TypeOK, CallInv, VerdictInv
    <3>. QED BY <3>1, <3>2 DEF IInv
  <2>. QED BY <1>4, <2>1, <2>2, <2>3 DEF FindPackage
<1>5. CASE ReadPointer \/ FollowPointer \/ Climb \/ Inspect
  <2>1. call # None /\ call.at \in Dir /\ call.package \in Dir /\ UNCHANGED <<disk, edits, known>>
    BY <1>1, <1>5 DEF ReadPointer, FollowPointer, Climb, Inspect, At
  <2>2. toml' = toml \/ \E d \in Dir : Cached(d)
    BY <1>5, <2>1 DEF ReadPointer, FollowPointer, Climb, Inspect
  <2>3. \/ \E d \in {call.at, call.package} : Up(d, call.package)
        \/ \E step \in {"pointer", "candidate", "climb", "inspect", "profile"}, at \in Dir : GoOn(step, at)
    <3>1. CASE ReadPointer
      <4>1. Read(call.package) \in Content => Read(call.package).pointer \in Dir \cup {None}
        BY ContentAssumption DEF Manifest
      <4>. QED BY <3>1, <4>1 DEF ReadPointer
    <3>2. CASE FollowPointer \/ Climb
      BY <2>1, <3>2 DEF FollowPointer, Climb, Root
    <3>3. CASE Inspect
      BY <2>1, <3>3 DEF Inspect, Root
    <3>. QED BY <1>5, <3>1, <3>2, <3>3
  <2>4. \E step \in {"pointer", "candidate", "climb", "inspect", "profile"}, at \in Dir : GoOn(step, at)
    BY <2>1, <2>3, UpStays
  <2>. QED BY <2>1, <2>2, <2>4, GoingOnPreserves
<1>6. CASE ReadProfile
  <2>. DEFINE value == Read(call.at)
              answer == [manifest |-> call.at, checks |-> value \in Content /\ value.checks]
  <2>1. /\ call # None /\ call.at \in Dir /\ call.dir \in Dir /\ call' = None
        /\ Cached(call.at) /\ known' = [known EXCEPT ![call.dir] = answer] /\ UNCHANGED <<disk, edits>>
    BY <1>1, <1>6 DEF ReadProfile, At
  <2>2. /\ toml' \in [Dir -> Content \cup {Broken, Unread}] /\ toml'[call.at] = value /\ value # Unread
        /\ \A e \in Dir : toml[e] # Unread => toml'[e] = toml[e]
    BY <2>1, ReadIsKept DEF IInv
  <2>3. answer \in Answer
    BY <2>1, ContentAssumption DEF Answer, Manifest
  <2>4. TypeOK' /\ CallInv'
    BY <2>1, <2>2, <2>3 DEF IInv, TypeOK, CallInv
  <2>5. ASSUME NEW d \in Dir, known'[d] # None
        PROVE  IF known'[d].manifest = None THEN ~known'[d].checks
               ELSE LET v == toml'[known'[d].manifest]
                    IN  v # Unread /\ (known'[d].checks <=> v \in Content /\ v.checks)
    <3>1. CASE d = call.dir
      <4>1. known'[d] = answer
        BY <2>1, <3>1 DEF IInv, TypeOK
      <4>2. call.at # None
        BY <2>1, DirAssumption
      <4>3. answer.manifest = call.at /\ (answer.checks <=> value \in Content /\ value.checks)
        OBVIOUS
      <4>. HIDE DEF answer, value
      <4>. QED BY <2>2, <4>1, <4>2, <4>3
    <3>2. CASE d # call.dir
      <4>1. known'[d] = known[d] /\ known[d].manifest \in Dir \cup {None}
        BY <2>1, <2>5, <3>2 DEF IInv, TypeOK, Answer
      <4>. QED BY <2>2, <2>5, <4>1 DEF IInv, VerdictInv
    <3>. QED BY <3>1, <3>2
  <2>6. VerdictInv'
    BY <2>5 DEF VerdictInv
  <2>. QED BY <2>4, <2>6 DEF IInv
<1>7. CASE UNCHANGED vars
  BY <1>7 DEF vars, IInv, TypeOK, CallInv, VerdictInv
<1>. QED BY <1>2, <1>3, <1>4, <1>5, <1>6, <1>7 DEF Next, Step

LEMMA Invariance == Spec => []IInv
<1>1. Init => IInv
  BY InitCorrect
<1>2. IInv /\ [Next]_vars => IInv'
  BY StepPreserves
<1>. QED BY <1>1, <1>2, PTL DEF Spec

(***************************************************************************)
(* The variables of the resolver keep their types: every climb and every   *)
(* pointer stays among the directories.                                    *)
(***************************************************************************)
THEOREM TypeCorrect == Spec => []TypeOK
<1>1. IInv => TypeOK
  BY DEF IInv
<1>. QED BY <1>1, Invariance, PTL

(***************************************************************************)
(* One root, one verdict: however manifests are edited, created and        *)
(* removed, two files below one root are never told different things about *)
(* its overflow-checks (WorkspaceResolver of src/project.rs).              *)
(***************************************************************************)
THEOREM VerdictsAgree == Spec => []OneVerdictPerRoot
<1>1. IInv => OneVerdictPerRoot
  <2>. SUFFICES ASSUME IInv, NEW d \in Dir, NEW e \in Dir, known[d] # None, known[e] # None,
                       known[d].manifest = known[e].manifest
                PROVE  known[d].checks = known[e].checks
    BY DEF OneVerdictPerRoot
  <2>1. known[d].checks \in BOOLEAN /\ known[e].checks \in BOOLEAN
    BY DEF IInv, TypeOK, Answer
  <2>2. known[d].checks <=> known[e].checks
    BY DEF IInv, VerdictInv
  <2>. QED BY <2>1, <2>2
<1>. QED BY <1>1, Invariance, PTL

----------------------------------------------------------------------------
(***************************************************************************)
(* While nobody edits, the cache holds what is on the disk, and a call is  *)
(* on its way to the answer that the definition gives.                     *)
(***************************************************************************)
Stands(d) == IF disk[d] \in Content THEN disk[d] ELSE Broken

CacheIsTrue == \A d \in Dir : toml[d] \in {Unread, Stands(d)}

\* Nothing is below the place of a climb but above p, or d, that it looks for.
NoPackageBelow == Under(call.dir, call.at) /\ \A e \in Dir : Under(call.dir, e) /\ disk[e] # Gone => Len(e) <= Len(call.at)

NoRootBelow(p) ==
  /\ ~Pointed(disk, p)
  /\ call.at # p /\ Under(p, call.at)
  /\ \A e \in RootsAbove(disk, p) : Len(e) <= Len(call.at)

OnItsWay ==
  call # None =>
    /\ call.step = "package" => NoPackageBelow
    /\ call.step # "package" => call.package = Package(disk, call.dir)
    /\ call.step = "candidate" => /\ disk[call.package] \in Content /\ disk[call.package].pointer # None
                                  /\ call.at = disk[call.package].pointer
    /\ call.step \in {"climb", "inspect"} => NoRootBelow(call.package)
    /\ call.step = "profile" => call.at = WorkspaceRoot(disk, call.package)

QuietInv == edits = 0 => CacheIsTrue /\ OnItsWay /\ QuietAnswersAreCorrect

\* Above d is the next place to look; above the last there is nothing to find.
LEMMA NothingIsPassed ==
  ASSUME NEW d \in Dir, NEW c, NEW S, \A e \in S : e \in Dir /\ Under(c, e) /\ Len(e) <= Len(d) /\ e # d,
         c \in Dir, Under(c, d)
  PROVE  /\ Parent(d) = None => S = {}
         /\ Parent(d) # None => \A e \in S : Len(e) <= Len(Parent(d))
<1>1. \A e \in S : Len(e) \in Nat /\ Len(e) < Len(d) /\ Len(d) \in Nat
  <2>. TAKE e \in S
  <2>1. Len(e) # Len(d)
    BY UnderIsUnique
  <2>2. Len(e) \in Nat /\ Len(d) \in Nat /\ Len(e) <= Len(d)
    BY ParentIsADir
  <2>. QED BY <2>1, <2>2
<1>2. CASE Parent(d) = None
  <2>1. Len(d) = 0
    BY <1>2, ParentIsADir
  <2>. QED BY <1>1, <1>2, <2>1
<1>3. CASE Parent(d) # None
  <2>1. Len(Parent(d)) = Len(d) - 1
    BY <1>3, ParentIsADir
  <2>. QED BY <1>1, <1>3, <2>1
<1>. QED BY <1>2, <1>3

\* A read of a true cache, or of the disk, is what stands on the disk.
LEMMA ReadIsTrue ==
  ASSUME CacheIsTrue, NEW d \in Dir
  PROVE  /\ Read(d) = Stands(d)
         /\ Cached(d) /\ disk' = disk /\ TypeOK => CacheIsTrue'
<1>1. Read(d) = Stands(d)
  BY DEF CacheIsTrue, Read, Stands
<1>2. Cached(d) /\ disk' = disk /\ TypeOK => CacheIsTrue'
  BY <1>1 DEF Cached, TypeOK, CacheIsTrue, Stands
<1>. QED BY <1>1, <1>2

\* Up from d finds the root, or stays on the way to it.
LEMMA UpIsOnTheWay ==
  ASSUME IInv, call # None, call.step # "package", NEW d \in Dir, call.package = Package(disk, call.dir),
         ~Pointed(disk, call.package), Under(call.package, d),
         \A e \in RootsAbove(disk, call.package) : Len(e) <= Len(d) /\ e # d,
         Up(d, call.package), disk' = disk
  PROVE  OnItsWay'
<1>. DEFINE p == call.package  S == RootsAbove(disk, p)
<1>1. p \in Dir /\ p # None
  BY DirAssumption DEF IInv, TypeOK, CallInv
<1>2. \A e \in S : e \in Dir /\ Under(p, e)
  BY DEF RootsAbove
<1>3. /\ Parent(d) = None => S = {}
      /\ Parent(d) # None => \A e \in S : Len(e) <= Len(Parent(d))
  BY <1>1, <1>2, NothingIsPassed
<1>4. PICK step \in {"climb", "profile"}, at \in Dir :
        /\ GoOn(step, at)
        /\ Parent(d) = None => step = "profile" /\ at = p
        /\ Parent(d) # None => step = "climb" /\ at = Parent(d)
  BY <1>1, UpStays
<1>5. call'.step = step /\ call'.at = at /\ call'.package = p /\ call'.dir = call.dir
  BY <1>1, <1>4, CallStays DEF IInv
<1>6. CASE Parent(d) = None
  <2>1. WorkspaceRoot(disk, p) = p
    BY <1>3, <1>6 DEF WorkspaceRoot
  <2>. QED BY <1>4, <1>5, <1>6, <2>1 DEF OnItsWay
<1>7. CASE Parent(d) # None
  <2>1. Under(p, Parent(d)) /\ \A e \in S : Len(e) <= Len(Parent(d))
    BY <1>1, <1>3, <1>7, UnderTheParent
  <2>2. Parent(d) # p
    BY <1>1, <1>7, UnderTheParent
  <2>3. NoRootBelow(p)'
    BY <1>4, <1>5, <1>7, <2>1, <2>2 DEF NoRootBelow, RootsAbove, Pointed
  <2>. QED BY <1>4, <1>5, <1>7, <2>3 DEF OnItsWay
<1>. QED BY <1>6, <1>7

LEMMA FindPackageIsQuiet ==
  ASSUME IInv, edits = 0, CacheIsTrue, OnItsWay, QuietAnswersAreCorrect, FindPackage
  PROVE  CacheIsTrue' /\ OnItsWay' /\ QuietAnswersAreCorrect'
<1>. DEFINE d == call.dir  at == call.at  S == {e \in Dir : Under(d, e) /\ disk[e] # Gone}
<1>1. /\ call # None /\ call.step = "package" /\ at \in Dir /\ d \in Dir
      /\ UNCHANGED <<disk, edits, toml>> /\ Under(d, at)
      /\ \A e \in S : e \in Dir /\ Under(d, e) /\ Len(e) <= Len(at)
  BY DEF FindPackage, At, IInv, TypeOK, OnItsWay, NoPackageBelow
<1>2. CacheIsTrue'
  BY <1>1 DEF CacheIsTrue, Stands
<1>3. Package(disk, d) = IF S = {} THEN None ELSE Nearest(S)
  BY DEF Package
<1>4. CASE IsFile(at) /\ call' = [call EXCEPT !.step = "pointer", !.package = at] /\ UNCHANGED known
  <2>1. at \in S
    BY <1>1, <1>4 DEF IsFile
  <2>2. Package(disk, d) = at
    BY <1>1, <1>3, <2>1, NearestIs
  <2>3. OnItsWay'
    BY <1>1, <1>4, <2>2 DEF IInv, TypeOK, OnItsWay
  <2>. QED BY <1>1, <1>2, <1>4, <2>3 DEF QuietAnswersAreCorrect
<1>5. ASSUME ~IsFile(at)
      PROVE  /\ Parent(at) = None => S = {}
             /\ Parent(at) # None => \A e \in S : Len(e) <= Len(Parent(at))
  <2>1. \A e \in S : e # at
    BY <1>5 DEF IsFile
  <2>. HIDE DEF S
  <2>. QED BY <1>1, <2>1, NothingIsPassed
<1>6. CASE ~IsFile(at) /\ Parent(at) # None /\ GoOn("package", Parent(at)) /\ UNCHANGED known
  <2>1. Under(d, Parent(at)) /\ \A e \in S : Len(e) <= Len(Parent(at))
    BY <1>1, <1>5, <1>6, UnderTheParent
  <2>2. call'.dir = d /\ call'.at = Parent(at) /\ call'.step = "package"
    BY <1>1, <1>6 DEF GoOn, IInv, TypeOK
  <2>3. OnItsWay'
    BY <1>1, <2>1, <2>2 DEF OnItsWay, NoPackageBelow
  <2>. QED BY <1>1, <1>2, <1>6, <2>3 DEF QuietAnswersAreCorrect
<1>7. CASE /\ ~IsFile(at) /\ Parent(at) = None /\ call' = None
           /\ known' = [known EXCEPT ![d] = [manifest |-> None, checks |-> FALSE]]
  <2>1. Package(disk, d) = None
    BY <1>3, <1>5, <1>7
  <2>2. Correct(disk, d) = [manifest |-> None, checks |-> FALSE]
    BY <2>1 DEF Correct
  <2>3. QuietAnswersAreCorrect'
    BY <1>1, <1>7, <2>2 DEF QuietAnswersAreCorrect, IInv, TypeOK
  <2>. QED BY <1>2, <1>7, <2>3 DEF OnItsWay
<1>. QED BY <1>4, <1>6, <1>7 DEF FindPackage

LEMMA RootIsQuiet ==
  ASSUME IInv, edits = 0, CacheIsTrue, OnItsWay, QuietAnswersAreCorrect,
         ReadPointer \/ FollowPointer \/ Climb \/ Inspect
  PROVE  CacheIsTrue' /\ OnItsWay' /\ QuietAnswersAreCorrect'
<1>. DEFINE p == call.package  at == call.at
<1>1. /\ call # None /\ call.step \in {"pointer", "candidate", "climb", "inspect"} /\ at \in Dir /\ p \in Dir
      /\ p # None /\ p = Package(disk, call.dir) /\ UNCHANGED <<disk, edits, known>>
  BY DirAssumption DEF ReadPointer, FollowPointer, Climb, Inspect, At, IInv, TypeOK, CallInv, OnItsWay
<1>2. CacheIsTrue'
  <2>1. toml' = toml \/ \E d \in Dir : Cached(d)
    BY <1>1 DEF ReadPointer, FollowPointer, Climb, Inspect
  <2>2. CASE toml' = toml
    BY <1>1, <2>2 DEF CacheIsTrue, Stands
  <2>3. CASE \E d \in Dir : Cached(d)
    BY <1>1, <2>3, ReadIsTrue DEF IInv
  <2>. QED BY <2>1, <2>2, <2>3
<1>3. QuietAnswersAreCorrect'
  BY <1>1 DEF QuietAnswersAreCorrect
\* The root is found, or the next place is, and nothing was passed.
<1>4. ASSUME NEW step \in {"pointer", "candidate", "climb", "inspect", "profile"}, NEW e \in Dir, GoOn(step, e)
      PROVE  call'.step = step /\ call'.at = e /\ call'.package = p /\ call'.dir = call.dir
  BY <1>1, <1>4, CallStays DEF IInv
<1>5. ASSUME ~Pointed(disk, p), Up(p, p)
      PROVE  OnItsWay'
  <2>1. \A e \in RootsAbove(disk, p) : Len(e) <= Len(p) /\ e # p
    BY DEF RootsAbove, Under
  <2>2. Under(p, p)
    BY <1>1, UnderItself
  <2>. QED BY <1>1, <1>5, <2>1, <2>2, UpIsOnTheWay
<1>6. ASSUME NEW e \in Dir, Root(e), e = WorkspaceRoot(disk, p)
      PROVE  OnItsWay'
  <2>1. GoOn("profile", e)
    BY <1>6 DEF Root
  <2>. QED BY <1>1, <1>4, <1>6, <2>1 DEF OnItsWay
<1>7. ASSUME call.step \in {"climb", "inspect"}, ~(disk[at] \in Content /\ disk[at].workspace), Up(at, p)
      PROVE  OnItsWay'
  <2>1. NoRootBelow(p)
    BY <1>1, <1>7 DEF OnItsWay
  <2>2. \A e \in RootsAbove(disk, p) : Len(e) <= Len(at) /\ e # at
    BY <1>7, <2>1 DEF NoRootBelow, RootsAbove
  <2>. QED BY <1>1, <1>7, <2>1, <2>2, UpIsOnTheWay DEF NoRootBelow
<1>8. CASE ReadPointer
  <2>1. call.step = "pointer" /\ Read(p) = Stands(p)
    BY <1>1, <1>8, ReadIsTrue DEF ReadPointer, At
  <2>2. CASE disk[p] \in Content /\ disk[p].pointer # None
    <3>1. disk[p].pointer \in Dir
      BY <2>2, ContentAssumption DEF Manifest
    <3>2. GoOn("candidate", disk[p].pointer)
      BY <1>8, <2>1, <2>2 DEF ReadPointer, Stands
    <3>. QED BY <1>1, <1>2, <1>3, <1>4, <2>2, <3>1, <3>2 DEF OnItsWay
  <2>3. CASE ~(disk[p] \in Content /\ disk[p].pointer # None)
    <3>1. ~(Read(p) \in Content /\ Read(p).pointer # None)
      <4>1. Broken \notin Content
        BY ContentAssumption
      <4>. QED BY <2>1, <2>3, <4>1 DEF Stands
    <3>2. Up(p, p) /\ ~Pointed(disk, p)
      BY <1>8, <2>3, <3>1 DEF ReadPointer, Pointed
    <3>. QED BY <1>2, <1>3, <1>5, <3>2
  <2>. QED BY <1>2, <1>3, <2>2, <2>3
<1>9. CASE FollowPointer
  <2>1. disk[p] \in Content /\ disk[p].pointer # None /\ at = disk[p].pointer
    BY <1>1, <1>9 DEF FollowPointer, At, OnItsWay
  <2>2. CASE IsFile(at)
    <3>1. at = WorkspaceRoot(disk, p) /\ Root(at)
      BY <1>9, <2>1, <2>2 DEF FollowPointer, WorkspaceRoot, Pointed, IsFile
    <3>. QED BY <1>1, <1>2, <1>3, <1>6, <3>1
  <2>3. CASE ~IsFile(at)
    BY <1>2, <1>3, <1>5, <1>9, <2>1, <2>3 DEF FollowPointer, Pointed, IsFile
  <2>. QED BY <2>2, <2>3
<1>10. CASE Climb
  <2>1. call.step = "climb"
    BY <1>10 DEF Climb, At
  <2>2. CASE IsFile(at)
    <3>1. GoOn("inspect", at)
      BY <1>10, <2>2 DEF Climb
    <3>2. call'.step = "inspect" /\ call'.at = at /\ call'.package = p /\ call'.dir = call.dir
      BY <1>1, <1>4, <3>1
    <3>3. NoRootBelow(p)'
      BY <1>1, <2>1, <3>2 DEF OnItsWay, NoRootBelow, Pointed, RootsAbove
    <3>. QED BY <1>1, <1>2, <1>3, <3>2, <3>3 DEF OnItsWay
  <2>3. CASE ~IsFile(at)
    <3>1. disk[at] \notin Content
      BY <2>3, ContentAssumption DEF IsFile
    <3>. QED BY <1>2, <1>3, <1>7, <1>10, <2>1, <2>3, <3>1 DEF Climb
  <2>. QED BY <2>2, <2>3
<1>11. CASE Inspect
  <2>1. call.step = "inspect" /\ Read(at) = Stands(at) /\ NoRootBelow(p)
    BY <1>1, <1>11, ReadIsTrue DEF Inspect, At, OnItsWay
  <2>2. CASE disk[at] \in Content /\ disk[at].workspace
    <3>1. Read(at) = disk[at]
      BY <2>1, <2>2 DEF Stands
    <3>2. at \in RootsAbove(disk, p)
      BY <1>1, <2>1, <2>2 DEF NoRootBelow, RootsAbove
    <3>3. Nearest(RootsAbove(disk, p)) = at
      <4>1. \A e \in RootsAbove(disk, p) : e \in Dir /\ Under(p, e) /\ Len(e) <= Len(at)
        BY <2>1 DEF NoRootBelow, RootsAbove
      <4>. QED BY <1>1, <3>2, <4>1, NearestIs
    <3>4. WorkspaceRoot(disk, p) = IF Excludes(disk[at], p) THEN p ELSE at
      BY <2>1, <3>2, <3>3 DEF WorkspaceRoot, NoRootBelow
    <3>5. Root(IF Excludes(disk[at], p) THEN p ELSE at)
      BY <1>11, <2>2, <3>1 DEF Inspect
    <3>. QED BY <1>1, <1>2, <1>3, <1>6, <3>4, <3>5
  <2>3. CASE ~(disk[at] \in Content /\ disk[at].workspace)
    <3>1. ~(Read(at) \in Content /\ Read(at).workspace)
      <4>1. Broken \notin Content
        BY ContentAssumption
      <4>. QED BY <2>1, <2>3, <4>1 DEF Stands
    <3>. QED BY <1>2, <1>3, <1>7, <1>11, <2>1, <2>3, <3>1 DEF Inspect
  <2>. QED BY <2>2, <2>3
<1>. QED BY <1>8, <1>9, <1>10, <1>11

LEMMA ReadProfileIsQuiet ==
  ASSUME IInv, edits = 0, CacheIsTrue, OnItsWay, QuietAnswersAreCorrect, ReadProfile
  PROVE  CacheIsTrue' /\ OnItsWay' /\ QuietAnswersAreCorrect'
<1>. DEFINE p == call.package  at == call.at  d == call.dir  value == Read(at)
            answer == [manifest |-> at, checks |-> value \in Content /\ value.checks]
<1>1. /\ call # None /\ call.step = "profile" /\ at \in Dir /\ d \in Dir /\ p # None
      /\ p = Package(disk, d) /\ at = WorkspaceRoot(disk, p)
      /\ Cached(at) /\ known' = [known EXCEPT ![d] = answer] /\ call' = None /\ UNCHANGED <<disk, edits>>
  BY DEF ReadProfile, At, IInv, TypeOK, CallInv, OnItsWay
<1>2. value = Stands(at) /\ CacheIsTrue'
  BY <1>1, ReadIsTrue DEF IInv
<1>3. value \in Content /\ value.checks <=> disk[at] \in Content /\ disk[at].checks
  BY <1>2, ContentAssumption DEF Stands
<1>4. answer = Correct(disk, d)
  <2>1. Correct(disk, d) = [manifest |-> at, checks |-> disk[at] \in Content /\ disk[at].checks]
    BY <1>1 DEF Correct
  <2>2. (value \in Content /\ value.checks) = (disk[at] \in Content /\ disk[at].checks)
    BY <1>3
  <2>. QED BY <2>1, <2>2
<1>. HIDE DEF answer
<1>5. QuietAnswersAreCorrect'
  BY <1>1, <1>4 DEF QuietAnswersAreCorrect, IInv, TypeOK
<1>. QED BY <1>1, <1>2, <1>5 DEF OnItsWay

LEMMA QuietStepPreserves == IInv /\ QuietInv /\ [Next]_vars => QuietInv'
<1>. SUFFICES ASSUME IInv, QuietInv, [Next]_vars, edits' = 0
              PROVE  CacheIsTrue' /\ OnItsWay' /\ QuietAnswersAreCorrect'
  BY DEF QuietInv
<1>1. CASE \E d \in Dir : Edit(d)
  <2>1. edits \in Nat /\ edits' = edits + 1
    BY <1>1, BoundAssumption DEF Edit, IInv, TypeOK
  <2>. QED BY <2>1
<1>2. ASSUME ~\E d \in Dir : Edit(d)
      PROVE  edits = 0
  BY <1>2 DEF Next, Step, Resolve, FindPackage, ReadPointer, FollowPointer, Climb, Inspect, ReadProfile, vars
<1>3. ASSUME NEW d \in Dir, Resolve(d), edits = 0
      PROVE  CacheIsTrue' /\ OnItsWay' /\ QuietAnswersAreCorrect'
  <2>1. call' = [dir |-> d, step |-> "package", at |-> d, package |-> None] /\ UNCHANGED <<disk, edits, toml, known>>
    BY <1>3 DEF Resolve
  <2>2. CacheIsTrue' /\ QuietAnswersAreCorrect'
    BY <1>3, <2>1 DEF QuietInv, CacheIsTrue, Stands, QuietAnswersAreCorrect
  <2>3. Under(d, d) /\ \A e \in Dir : Under(d, e) => Len(e) <= Len(d)
    BY UnderItself DEF Under
  <2>4. OnItsWay'
    BY <2>1, <2>3 DEF OnItsWay, NoPackageBelow
  <2>. QED BY <2>2, <2>4
<1>4. CASE UNCHANGED vars /\ edits = 0
  <2>1. UNCHANGED <<disk, edits, toml, known, call>>
    BY <1>4 DEF vars
  <2>2. CacheIsTrue' /\ QuietAnswersAreCorrect'
    BY <1>4, <2>1 DEF QuietInv, CacheIsTrue, Stands, QuietAnswersAreCorrect
  <2>3. OnItsWay'
    BY <1>4, <2>1 DEF QuietInv, OnItsWay, NoPackageBelow, NoRootBelow, RootsAbove, Pointed
  <2>. QED BY <2>2, <2>3
<1>5. CASE Step /\ edits = 0
  BY <1>5, FindPackageIsQuiet, RootIsQuiet, ReadProfileIsQuiet DEF QuietInv, Step
<1>. QED BY <1>1, <1>2, <1>3, <1>4, <1>5 DEF Next

(***************************************************************************)
(* Among manifests that nobody touches, resolve of src/project.rs answers  *)
(* every directory by the definition, whatever its caches hold of earlier  *)
(* questions: the nearest manifest, and from there what package.workspace  *)
(* points at or the nearest [workspace] above that does not exclude it.    *)
(***************************************************************************)
THEOREM QuietResolverIsCorrect == Spec => []QuietAnswersAreCorrect
<1>1. Init => QuietInv
  BY DEF Init, QuietInv, CacheIsTrue, OnItsWay, QuietAnswersAreCorrect
<1>2. IInv /\ QuietInv /\ [Next]_vars => QuietInv'
  BY QuietStepPreserves
<1>3. QuietInv => QuietAnswersAreCorrect
  BY DEF QuietInv, QuietAnswersAreCorrect
<1>. QED BY <1>1, <1>2, <1>3, Invariance, PTL DEF Spec
=============================================================================
