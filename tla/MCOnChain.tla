----------------------------- MODULE MCOnChain -----------------------------
(***************************************************************************)
(* Three declared ids and requests of two accounts, so that the first pass *)
(* takes two calls and the second one or two.  Each id starts as one of    *)
(* the things an address can be; closed programs and ids that name a       *)
(* ProgramData account are among them.                                     *)
(***************************************************************************)
EXTENDS OnChain

CONSTANTS p, q, r,      \* declared ids
          dp, dq, dr,   \* their ProgramData accounts
          k, j          \* an authority, and the address of wrong bytes

MCAddress == {p, q, r, dp, dq, dr, k, j}

MCDataOf == [a \in {p, q, r} |-> CASE a = p -> dp [] a = q -> dq [] a = r -> dr]

MCAuthorities == {k}

MCIdLists == {<<>>, <<q>>, <<p, q, r>>}

Account0(kind) == [kind |-> kind, pointer |-> None, authority |-> None, slot |-> 0]

\* The account of an id and of its ProgramData, at the start.
Starts(d, kinds) ==
  {x \in { <<None, None>>,
           <<Account0("foreign"), None>>,
           <<Account0("final"), None>>,
           <<Account0("short"), None>>,
           <<[Account0("data") EXCEPT !.slot = 2, !.authority = k], None>>,
           <<[Account0("program") EXCEPT !.pointer = d], None>>,
           <<[Account0("program") EXCEPT !.pointer = d], [Account0("data") EXCEPT !.slot = 2]>>,
           <<[Account0("program") EXCEPT !.pointer = d],
             [Account0("data") EXCEPT !.slot = 3, !.authority = k]>> } :
     x[1] = None \/ x[1].kind \in kinds}

MCClusters ==
  { [a \in MCAddress |-> CASE a = p -> x[1] [] a = dp -> x[2]
                           [] a = q -> y[1] [] a = dq -> y[2]
                           [] a = r -> z[1] [] a = dr -> z[2]
                           [] OTHER -> None] :
      x \in Starts(dp, {"program"}) \ {<<None, None>>},
      y \in Starts(dq, {"program", "final", "foreign", "short", "data"}),
      z \in Starts(dr, {"final"}) \cup {<<[Account0("program") EXCEPT !.pointer = dr],
                                               [Account0("data") EXCEPT !.slot = 5]>>} }
============================================================================
