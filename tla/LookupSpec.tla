----------------------------- MODULE LookupSpec -----------------------------
(***************************************************************************)
(* What resolve of src/onchain.rs promises: every id is answered once, on  *)
(* its own, with Unavailable or with something its accounts held by then.  *)
(* Batches, passes and retries are left out.                               *)
(***************************************************************************)
EXTENDS Accounts, Sequences

VARIABLES
  ids,       \* the declared addresses
  held,      \* all that each address has held
  answers    \* the state of each id, None as long as there is no answer

Init ==
  /\ ids \in Seq(Address)
  /\ held \in [Address -> SUBSET (Account \cup {None})]
  /\ answers = [n \in DOMAIN ids |-> None]

\* The cluster moves on.
Happen ==
  /\ \A a \in Address : held[a] \subseteq held'[a]
  /\ UNCHANGED <<ids, answers>>

Acceptable(id, state) ==
  \/ state = Unavailable
  \/ \E account \in held[id] :
       \E data \in IF account # None /\ account.kind = "program" THEN held[account.pointer] ELSE {None} :
         state = Deployed(account, data)

Answer ==
  /\ \A n \in DOMAIN ids :
       \/ answers'[n] = answers[n]
       \/ answers[n] = None /\ Acceptable(ids[n], answers'[n])
  /\ UNCHANGED <<ids, held>>

Next == Happen \/ Answer

Spec == Init /\ [][Next]_<<ids, held, answers>>
============================================================================
