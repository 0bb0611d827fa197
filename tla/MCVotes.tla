------------------------------- MODULE MCVotes -------------------------------
(***************************************************************************)
(* Small instances of Votes: two candidates and five validators, of whom    *)
(* all or three are active, so that four or three votes finalize.  A block  *)
(* arrives without votes, with a vote repeated, final, or with another      *)
(* node's own vote, a map that contradicts the list and a verified sequence *)
(* that is none.  Four validators vote, one of them either way.             *)
(***************************************************************************)
EXTENDS Votes, TLC

CONSTANTS v1, v2, v3, v4, v5, a, b

For(peer)     == [peer |-> peer, accepted |-> TRUE]
Against(peer) == [peer |-> peer, accepted |-> FALSE]

MCBallots  == {For(v) : v \in Validator \ {v5}} \cup {Against(v4)}
Fresh(list, final) == [list |-> list, tally |-> << >>, final |-> final, sequence |-> << >>]
MCReceived ==
  {Fresh(<< >>, FALSE),
   Fresh(<<For(v1), For(v1), Against(v2)>>, FALSE),
   [Fresh(<<For(Local), For(v2)>>, FALSE) EXCEPT
      !.tally = [n \in {v1, v2} |-> FALSE],
      !.sequence = <<[verifier |-> v1, index |-> 5], [verifier |-> v1, index |-> -2]>>],
   Fresh(<<For(v1), For(v2), For(v3)>>, TRUE)}
MCRegistries ==
  {[v \in Validator |-> "active"],
   [v \in Validator |-> IF v \in {v4, v5} THEN "inactive" ELSE "active"]}

CandidateSymmetry == Permutations(Candidate)
=============================================================================
