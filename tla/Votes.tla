-------------------------------- MODULE Votes --------------------------------
(***************************************************************************)
(* The votes on competing blocks of one height, as one process collects     *)
(* them: the validator registry (core/validator.go), AppendVerification in  *)
(* its two steps, the merge of received votes and the node's own in         *)
(* AddBlock, and the verified sequence (core/verification.go).              *)
(*                                                                          *)
(* AppendVerification reads the registry for the voter, unlocks, and reads  *)
(* it again for the threshold: the registry may be replaced in between.     *)
(* Its callers do not run it twice at once on the same block, as its        *)
(* comment asks.  Signatures are checked outside: a bad one is refused.     *)
(***************************************************************************)
EXTENDS Quorums, Sequences

CONSTANTS
  Validator,   \* validator IDs
  Verifier,    \* IDs in verified sequences, which nothing looks up
  Local,       \* the name of every node's own vote
  Candidate,   \* blocks of one height
  Ballots,     \* votes that reach AppendVerification
  Received,    \* [list, tally, final, sequence]: what a block can arrive with
  Registries,  \* what ReplaceValidatorSet may install
  MaxReplaced, \* bound: registry replacements
  NoVote

Name   == Validator \cup {Local}
Vote   == [peer : Name, accepted : BOOLEAN]
Status == {"absent", "inactive", "active"}

\* A block's Verifications, BlockVerifications, Finalized and verified sequence;
\* held: AddBlock has run on it.
Tally == UNION {[D -> BOOLEAN] : D \in SUBSET Name}
Confirmation == [verifier : Verifier, index : Int]
Sequence == Seq(Confirmation)
Block == [held : BOOLEAN, list : Seq(Vote), tally : Tally, final : BOOLEAN, sequence : Sequence]

ASSUME VotesAssumption ==
  /\ IsFiniteSet(Validator) /\ Local \notin Validator /\ NoVote \notin Vote
  /\ Ballots \subseteq Vote
  /\ Received \subseteq [list : Seq(Vote), tally : Tally, final : BOOLEAN, sequence : Sequence]
  /\ Registries \subseteq [Validator -> Status]
  /\ MaxReplaced \in Nat

VARIABLES
  registry, \* ValidatorSet
  block,    \* each candidate's vote fields
  call,     \* the vote AppendVerification has checked and not yet appended
  decided,  \* history: active validators when the block was marked final here
  replaced  \* registry replacements (bounded by MaxReplaced)

vars == <<registry, block, call, decided, replaced>>

Active == {v \in Validator : registry[v] = "active"}

PeersOf(list) == {list[i].peer : i \in 1 .. Len(list)}
Accepting(list) == {list[i].peer : i \in {k \in 1 .. Len(list) : list[k].accepted}}

(***************************************************************************)
(* Counting                                                                 *)
(***************************************************************************)
\* countAcceptedVerifications: entries, not voters.
Accepted(list) == Cardinality({i \in 1 .. Len(list) : list[i].accepted})

\* markFinalizedIfThresholdReached, with the registry as it is now.
Marked(b) ==
  LET threshold == ThresholdFor(Cardinality(Active))
  IN  [b EXCEPT !.final = @ \/ (threshold > 0 /\ Accepted(b.list) >= threshold)]

\* Mutant: received duplicates are kept.
WithVoteUnchecked(list, v) == Append(list, v)

\* The merge in AddBlock: the first vote of a name stands.
WithVote(list, v) == IF v.peer \in PeersOf(list) THEN list ELSE Append(list, v)

\* The votes of a sequence, merged one after the other.
Merged(votes) ==
  LET merged[i \in 0 .. Len(votes)] ==
        IF i = 0 THEN << >> ELSE WithVote(merged[i - 1], votes[i])
  IN  merged[Len(votes)]

\* Mutant: what the map says already stands.
TallyOfFirst(list, tally) ==
  [n \in PeersOf(list) \cup DOMAIN tally |->
     IF n \in DOMAIN tally THEN tally[n] ELSE n \in Accepting(list)]

\* BlockVerifications after the merge: a received map keeps its other names.
TallyOf(list, tally) ==
  [n \in PeersOf(list) \cup DOMAIN tally |->
     IF n \in PeersOf(list) THEN n \in Accepting(list) ELSE tally[n]]

\* BlockVerifications with the entry of one more vote.
Entered(tally, v) ==
  [n \in DOMAIN tally \cup {v.peer} |-> IF n = v.peer THEN v.accepted ELSE tally[n]]

\* c is b from now on; who was active is noted when it has become final here.
Put(c, b) ==
  /\ block' = [block EXCEPT ![c] = b]
  /\ decided' = IF b.final /\ ~block[c].final THEN [decided EXCEPT ![c] = Active] ELSE decided

(***************************************************************************)
(* Operations                                                               *)
(***************************************************************************)
\* What AddBlock makes of a block that was mined here (no votes yet) or received:
\* its votes are merged with the node's own accepting vote.  The verified sequence
\* is not in the block's hash, and nothing looks at it: it stays as it came.
Merge(b, r, own) ==
  LET list == Merged(Append(r.list, own))
  IN  Marked([b EXCEPT !.held = TRUE, !.list = list, !.final = r.final,
                       !.tally = TallyOf(list, r.tally), !.sequence = r.sequence])

\* c is held from now on, as it came (r) and was merged (b).
Hold(c, r, b) ==
  /\ block' = [block EXCEPT ![c] = b]
  /\ decided' = IF b.final /\ ~r.final THEN [decided EXCEPT ![c] = Active] ELSE decided
  /\ UNCHANGED <<registry, call, replaced>>

\* Mutant: the node's own vote is entered without its name.
AddBlockUnnamed(c) ==
  /\ ~block[c].held
  /\ \E r \in Received :
       Hold(c, r, Merge(block[c], r, [peer |-> NoVote, accepted |-> TRUE]))

AddBlock(c) ==
  /\ ~block[c].held
  /\ \E r \in Received :
       Hold(c, r, Merge(block[c], r, [peer |-> Local, accepted |-> TRUE]))

\* AppendVerification, first half: the vote is new and its voter is active.
Check(c) ==
  /\ block[c].held /\ ~block[c].final /\ call[c] = NoVote
  /\ \E v \in Ballots :
       /\ v.peer \notin PeersOf(block[c].list)
       /\ v.peer \in Active
       /\ call' = [call EXCEPT ![c] = v]
  /\ UNCHANGED <<registry, block, decided, replaced>>

\* Mutant: finality is marked before the vote is entered, one vote late.
CountLate(c) ==
  /\ call[c] # NoVote
  /\ LET list == Append(block[c].list, call[c])
     IN  Put(c, [Marked(block[c]) EXCEPT !.list = list, !.tally = Entered(@, call[c])])
  /\ call' = [call EXCEPT ![c] = NoVote]
  /\ UNCHANGED <<registry, replaced>>

\* Second half: the vote is entered and finality evaluated.
Count(c) ==
  /\ call[c] # NoVote
  /\ LET list == Append(block[c].list, call[c])
     IN  Put(c, Marked([block[c] EXCEPT !.list = list, !.tally = Entered(@, call[c])]))
  /\ call' = [call EXCEPT ![c] = NoVote]
  /\ UNCHANGED <<registry, replaced>>

\* ReplaceValidatorSet.
ReplaceValidatorSet ==
  /\ replaced < MaxReplaced
  /\ registry' \in Registries
  /\ replaced' = replaced + 1
  /\ UNCHANGED <<block, call, decided>>

\* The index Block.AppendVerification asks for: one more than the last.
NextIndex(s) == IF s = << >> THEN 0 ELSE s[Len(s)].index + 1

\* Block.AppendVerification: a well-signed confirmation with the next index,
\* from a verifier that has none in the sequence, of a block not yet final.
AppendSequence(c) ==
  LET s == block[c].sequence
  IN  /\ ~block[c].final
      /\ \E v \in Verifier :
           /\ \A i \in 1 .. Len(s) : s[i].verifier # v
           /\ block' = [block EXCEPT ![c].sequence =
                          Append(s, [verifier |-> v, index |-> NextIndex(s)])]
      /\ UNCHANGED <<registry, call, decided, replaced>>

NewBlock == [held |-> FALSE, list |-> << >>, tally |-> << >>, final |-> FALSE,
             sequence |-> << >>]

Init ==
  /\ registry \in Registries
  /\ block = [c \in Candidate |-> NewBlock]
  /\ call = [c \in Candidate |-> NoVote]
  /\ decided = [c \in Candidate |-> {}]
  /\ replaced = 0

Next ==
  \/ ReplaceValidatorSet
  \/ \E c \in Candidate : AddBlock(c) \/ Check(c) \/ Count(c) \/ AppendSequence(c)

Spec == Init /\ [][Next]_vars

(***************************************************************************)
(* Properties                                                               *)
(***************************************************************************)
\* Every variable keeps its type.
TypeOK ==
  /\ registry \in [Validator -> Status]
  /\ block \in [Candidate -> Block]
  /\ call \in [Candidate -> Vote \cup {NoVote}]
  /\ decided \in [Candidate -> SUBSET Validator]
  /\ replaced \in 0 .. MaxReplaced

\* A block that became final here has the accepting votes of as many different
\* voters as the validators active at that moment required: no vote counts
\* twice, received with the block, entered later or cast by the node itself.
FinalByDistinctVoters ==
  \A c \in Candidate :
    decided[c] # {} =>
      Cardinality(Accepting(block[c].list)) >= ThresholdFor(Cardinality(decided[c]))

\* While the registry stays as it was, a block with enough accepting votes is
\* final: markFinalizedIfThresholdReached misses none.
QuorumIsFinal ==
  \A c \in Candidate :
    LET threshold == ThresholdFor(Cardinality(Active))
    IN  /\ replaced = 0 /\ block[c].held /\ threshold > 0
        /\ Cardinality(Accepting(block[c].list)) >= threshold
        => block[c].final

\* Two blocks of one height that became final with the same active validators
\* have a validator that accepted both, although the node's own vote, which is
\* on every block, counts towards the threshold.  With four or six validators
\* the rounding leaves no such overlap, and votes of names that are not active
\* validators, which AddBlock also counts, give none.
QuorumsShareValidator ==
  \A c, d \in Candidate :
    LET active == decided[c]
    IN  /\ active # {} /\ active = decided[d] /\ Cardinality(active) \notin {4, 6}
        /\ Accepting(block[c].list) \cup Accepting(block[d].list) \subseteq active \cup {Local}
        => Accepting(block[c].list) \cap Accepting(block[d].list) \cap active # {}

\* BlockVerifications says of every voter what Verifications says, whatever the
\* map a block arrived with said, and in whatever order the votes were received,
\* merged and entered.
TallyAgrees ==
  \A c \in Candidate :
    \A i \in 1 .. Len(block[c].list) :
      LET v == block[c].list[i]
      IN  v.peer \in DOMAIN block[c].tally /\ block[c].tally[v.peer] = v.accepted
=============================================================================
