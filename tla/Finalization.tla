---------------------------- MODULE Finalization ----------------------------
(***************************************************************************)
(* Finality as one node sees it: core/finalization.go, and the merge of a   *)
(* node's own vote into a block's verifications (AddBlock).  The number of  *)
(* active validators is a constant here; Votes has the registry itself.     *)
(***************************************************************************)
EXTENDS Quorums

CONSTANTS
  ActiveValidators, \* how many registered validators are active
  Local             \* the name of a node's own vote

ASSUME RegistryAssumption == ActiveValidators \in Nat

Threshold == ThresholdFor(ActiveValidators)

MarkFinalized(b) ==
  [b EXCEPT !.final = @ \/ (Threshold > 0 /\ Cardinality(b.votes) >= Threshold)]

\* The block after AddBlock's vote: the node's own accepting vote is merged
\* (once: a vote of that name may already be there) and finality re-evaluated.  A
\* rejecting vote of that name would stand in its place, but a node passes on
\* only blocks it has accepted itself; Votes keeps rejecting votes.
Voted(b, accepted) ==
  MarkFinalized([b EXCEPT !.votes = IF accepted THEN @ \cup {Local} ELSE @])
=============================================================================
