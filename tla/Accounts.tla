------------------------------ MODULE Accounts ------------------------------
(***************************************************************************)
(* Accounts of a Solana cluster as src/onchain.rs reads them, and the      *)
(* states it can report for a declared program id.                         *)
(*                                                                         *)
(* An account is described by the loader that owns it and by what its      *)
(* bytes hold: a "program" of the upgradeable loader points at a           *)
(* ProgramData account, "data" is a ProgramData account, "short" is any    *)
(* other account of that loader, "final" belongs to a loader that cannot   *)
(* upgrade, "foreign" to no loader.  The enum tag in the first four bytes  *)
(* is not looked at: a ProgramData account read as a program yields Junk,  *)
(* an address nobody uses.                                                 *)
(***************************************************************************)
EXTENDS Naturals

CONSTANTS
  Address,    \* public keys: programs, ProgramData accounts and authorities
  Junk,       \* the address that bytes of the wrong kind spell
  None        \* no account, no authority, no address

ASSUME JunkAssumption == Junk \in Address /\ None \notin Address

Account ==
  {account \in [kind      : {"foreign", "final", "program", "data", "short"},
                pointer   : Address \cup {None},
                authority : Address \cup {None},
                slot      : Nat] :
     account.kind = "program" => account.pointer # None}

Cluster == {c \in [Address -> Account \cup {None}] : c[Junk] = None}

State == [kind      : {"absent", "not_a_program", "immutable", "frozen", "upgradeable", "unavailable"},
          authority : Address \cup {None},
          slot      : Nat]

Plain(kind) == [kind |-> kind, authority |-> None, slot |-> 0]
Absent      == Plain("absent")
NotAProgram == Plain("not_a_program")
Immutable   == Plain("immutable")
Unavailable == Plain("unavailable")

Frozen(slot) == [kind |-> "frozen", authority |-> None, slot |-> slot]

Upgradeable(authority, slot) == [kind |-> "upgradeable", authority |-> authority, slot |-> slot]

\* Bytes 4..36 taken for an address; None when there are fewer.
PointerOf(account) == CASE account.kind = "program" -> account.pointer
                        [] account.kind = "data"    -> Junk
                        [] OTHER                    -> None

(***************************************************************************)
(* classify_program_account.  The state of a program under the upgradeable *)
(* loader carries its ProgramData address where the authority belongs.     *)
(***************************************************************************)
ClassifyProgram(account, decoded) ==
  CASE account = None                               -> Absent
    [] account # None /\ account.kind = "foreign"   -> NotAProgram
    [] account # None /\ account.kind = "final"     -> Immutable
    [] account # None /\ account.kind \in {"program", "data", "short"} ->
         IF decoded /\ PointerOf(account) # None
         THEN Upgradeable(PointerOf(account), 0)
         ELSE Unavailable

(***************************************************************************)
(* classify_program_data.  The code takes any 45 bytes for a ProgramData   *)
(* account.  A program points at its ProgramData account or, once that is  *)
(* closed, at nothing, so of the other kinds only those of the upgradeable *)
(* loader with fewer bytes could be here.                                  *)
(***************************************************************************)
ClassifyData(account, decoded) ==
  IF account = None \/ ~decoded \/ account.kind # "data" THEN Unavailable
  ELSE IF account.authority = None THEN Frozen(account.slot)
  ELSE Upgradeable(account.authority, account.slot)

----------------------------------------------------------------------------
(***************************************************************************)
(* The reference definition: what is deployed at an address, from the      *)
(* program's account and the ProgramData account it points at.             *)
(***************************************************************************)
Deployed(account, data) ==
  CASE account = None                             -> Absent
    [] account # None /\ account.kind = "foreign" -> NotAProgram
    [] account # None /\ account.kind = "final"   -> Immutable
    [] account # None /\ account.kind \in {"data", "short"} -> Unavailable
    [] account # None /\ account.kind = "program" ->
         IF data = None \/ data.kind # "data" THEN Unavailable
         ELSE [kind      |-> IF data.authority = None THEN "frozen" ELSE "upgradeable",
               authority |-> data.authority,
               slot      |-> data.slot]

\* What is deployed at id when the whole cluster is c.
DeployedAt(c, id) ==
  Deployed(c[id], IF c[id] # None /\ c[id].kind = "program" THEN c[c[id].pointer] ELSE None)
============================================================================
