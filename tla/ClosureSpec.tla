---------------------------- MODULE ClosureSpec ----------------------------
(***************************************************************************)
(* What DepGraph promises its caller, with the worklist left out.  Reading *)
(* a manifest is final, and every answer is the least closed set of the    *)
(* manifests as they were read, however the files change in the meantime.  *)
(***************************************************************************)
EXTENDS Manifests, Sequences

VARIABLES
  parsed,     \* what is known of every manifest
  answers     \* the closures returned so far, oldest first

Answer == [root : Manifest, reached : SUBSET Manifest]

Init ==
  /\ parsed = [m \in Manifest |-> Unread]
  /\ answers = <<>>

\* Some manifests are read; what was read before stays as it is.
Learn ==
  /\ parsed' \in Reads
  /\ \A m \in Manifest : parsed[m] # Unread => parsed'[m] = parsed[m]
  /\ UNCHANGED answers

\* A call returns once nothing it depends on is left to be read.
Return(r) ==
  /\ Settled(parsed, Reach(parsed, r))
  /\ answers' = Append(answers, [root |-> r, reached |-> Reach(parsed, r)])
  /\ UNCHANGED parsed

Next == Learn \/ \E r \in Manifest : Return(r)

Spec == Init /\ [][Next]_<<parsed, answers>>
============================================================================
