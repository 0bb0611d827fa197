----------------------------- MODULE VotesProofs -----------------------------
(***************************************************************************)
(* Votes for any number of validators, candidates and registry changes:     *)
(* every name has one vote in a block's list, so the entries counted are    *)
(* voters, and two quorums of one validator set share a validator, except   *)
(* for sets of four and six.                                                *)
(***************************************************************************)
EXTENDS Votes, Induction, FiniteSetTheorems

(***************************************************************************)
(* Lists of votes                                                           *)
(***************************************************************************)
\* No name has two votes.
Distinct(list) ==
  \A i, k \in 1 .. Len(list) : list[i].peer = list[k].peer => i = k

VoteList == {list \in Seq(Vote) : Distinct(list)}

\* The fields of a vote.
LEMMA VoteField ==
  ASSUME NEW v \in Vote
  PROVE  v.peer \in Name /\ v.accepted \in BOOLEAN
  BY DEF Vote

\* What Append does to a list of votes.
LEMMA AppendVote ==
  ASSUME NEW list \in Seq(Vote), NEW v \in Vote
  PROVE  /\ Append(list, v) \in Seq(Vote) /\ Len(list) \in Nat
         /\ Len(Append(list, v)) = Len(list) + 1
         /\ \A i \in 1 .. Len(list) : Append(list, v)[i] = list[i]
         /\ Append(list, v)[Len(list) + 1] = v
         /\ \A i \in 1 .. Len(Append(list, v)) : i \in 1 .. Len(list) \/ i = Len(list) + 1
  OBVIOUS

\* A new name's vote keeps a list distinct and keeps what was accepted.
LEMMA AppendDistinct ==
  ASSUME NEW list \in VoteList, NEW v \in Vote, v.peer \notin PeersOf(list)
  PROVE  /\ Append(list, v) \in VoteList
         /\ PeersOf(Append(list, v)) = PeersOf(list) \cup {v.peer}
         /\ Accepting(list) \subseteq Accepting(Append(list, v))
<1> DEFINE new == Append(list, v)
<1>1. /\ new \in Seq(Vote) /\ Len(list) \in Nat /\ Len(new) = Len(list) + 1
      /\ \A i \in 1 .. Len(list) : new[i] = list[i]
      /\ new[Len(list) + 1] = v
      /\ \A i \in 1 .. Len(new) : i \in 1 .. Len(list) \/ i = Len(list) + 1
  BY AppendVote DEF VoteList
<1> HIDE DEF new
<1>2. \A i \in 1 .. Len(list) : list[i].peer # v.peer
  BY DEF PeersOf
<1>3. Distinct(new)
  BY <1>1, <1>2 DEF Distinct, VoteList
<1>4. PeersOf(new) = PeersOf(list) \cup {v.peer}
  BY <1>1 DEF PeersOf
<1>5. Accepting(list) \subseteq Accepting(new)
  BY <1>1 DEF Accepting
<1> QED
  BY <1>1, <1>3, <1>4, <1>5 DEF VoteList, new

\* The merge of one vote.
LEMMA WithVoteType ==
  ASSUME NEW list \in VoteList, NEW v \in Vote
  PROVE  WithVote(list, v) \in VoteList
  BY AppendDistinct DEF WithVote

\* The merge of a list leaves one vote to a name, whatever it arrives with.
LEMMA MergedType ==
  ASSUME NEW votes \in Seq(Vote)
  PROVE  Merged(votes) \in VoteList
<1> DEFINE N == Len(votes)
           Body(g) == [i \in 0 .. N |-> IF i = 0 THEN << >> ELSE WithVote(g[i-1], votes[i])]
           merged == CHOOSE g : g = Body(g)
           step == [p \in VoteList \X (1 .. N) |-> WithVote(p[1], votes[p[2]])]
<1>1. N \in Nat /\ \A i \in 1 .. N : votes[i] \in Vote
  OBVIOUS
<1>2. << >> \in VoteList
  BY DEF VoteList, Distinct
<1>3. \A s \in VoteList : \A i \in 1 .. N :
        step[<<s, i>>] = WithVote(s, votes[i]) /\ step[<<s, i>>] \in VoteList
  BY <1>1, WithVoteType
<1>4. Merged(votes) = merged[N]
  BY DEF Merged
<1> HIDE DEF step, N
<1>5. PICK f \in [0 .. N -> VoteList] :
        f[0] = << >> /\ \A i \in 1 .. N : f[i] = step[<<f[i-1], i>>]
  <2>1. Solutions(VoteList, << >>, N, step) # {}
    BY <1>1, <1>2, <1>3, RecursionExists DEF Steps
  <2>2. QED
    BY <2>1 DEF Solutions
<1>6. f = Body(f)
  <2>1. ASSUME NEW i \in 1 .. N PROVE f[i] = WithVote(f[i-1], votes[i])
    <3>1. f[i-1] \in VoteList
      BY <1>1, <1>5
    <3>2. QED
      BY <1>3, <1>5, <3>1
  <2>2. QED
    BY <1>1, <1>5, <2>1
<1>7. merged = Body(merged)
  BY <1>6
<1> HIDE DEF merged
<1>8. merged[0] = << >> /\ \A i \in 1 .. N : merged[i] = WithVote(merged[i-1], votes[i])
  BY <1>1, <1>7
<1> DEFINE OK == {i \in 0 .. N : merged[i] \in VoteList}
<1>9. 0 \in OK
  BY <1>1, <1>2, <1>8
<1>10. ASSUME NEW n \in 0 .. N-1, n \in OK PROVE n+1 \in OK
  <2>1. n+1 \in 1 .. N /\ (n+1)-1 = n
    BY <1>1
  <2>2. merged[n+1] = WithVote(merged[n], votes[n+1])
    BY <1>8, <2>1
  <2>3. QED
    BY <1>1, <1>10, <2>1, <2>2, WithVoteType
<1>11. 0 .. N \subseteq OK
  <2> HIDE DEF OK
  <2>1. QED BY <1>1, <1>9, <1>10, UpToInduct
<1> QED
  BY <1>1, <1>4, <1>11

\* In a list with one vote to a name, the entries counted are the voters.
LEMMA EntriesAreVoters ==
  ASSUME NEW list \in VoteList
  PROVE  /\ IsFiniteSet(Accepting(list)) /\ Cardinality(Accepting(list)) \in Nat
         /\ Cardinality(Accepting(list)) = Accepted(list)
<1> DEFINE I == {i \in 1 .. Len(list) : list[i].accepted}
           f == [i \in I |-> list[i].peer]
<1>1. Len(list) \in Nat /\ IsFiniteSet(1 .. Len(list))
  BY FS_Interval DEF VoteList
<1>2. IsFiniteSet(I)
  BY <1>1, FS_Subset
<1>3. f \in Bijection(I, Accepting(list))
  <2>1. f \in [I -> Accepting(list)]
    BY DEF Accepting
  <2>2. \A i, k \in I : f[i] = f[k] => i = k
    BY DEF VoteList, Distinct
  <2>3. \A p \in Accepting(list) : \E i \in I : f[i] = p
    BY DEF Accepting
  <2> HIDE DEF f, I
  <2>4. QED
    BY <2>1, <2>2, <2>3 DEF Bijection, Injection, Surjection, IsInjective
<1> HIDE DEF f
<1>4. ExistsBijection(I, Accepting(list))
  BY <1>3 DEF ExistsBijection
<1>5. IsFiniteSet(Accepting(list)) /\ Cardinality(Accepting(list)) = Cardinality(I)
  BY <1>2, <1>4, FS_Bijection
<1> QED
  BY <1>5, FS_CardinalityType DEF Accepted

(***************************************************************************)
(* Quorums                                                                  *)
(***************************************************************************)
\* A threshold is an integer: -1 when no validator is active.
LEMMA ThresholdType ==
  ASSUME NEW n \in Nat
  PROVE  ThresholdFor(n) \in Int
  BY FinalizationAssumption DEF ThresholdFor

\* Two sets of all but one vote of a quorum do not fit beside each other.
LEMMA QuorumSize ==
  ASSUME NEW n \in Nat, n \notin {0, 4, 6}, FinalizationThreshold >= 3
  PROVE  ThresholdFor(n) >= 1 /\ 2 * (ThresholdFor(n) - 1) > n
<1> DEFINE d == (2 * n + 2) \div 3
<1>1. d \in Nat /\ 3 * d <= 2 * n + 2 /\ 2 * n + 2 < 3 * d + 3
  OBVIOUS
<1>2. ThresholdFor(n) = IF FinalizationThreshold > d THEN FinalizationThreshold ELSE d
  BY DEF ThresholdFor
<1> HIDE DEF d
<1>3. FinalizationThreshold \in Nat
  BY FinalizationAssumption
<1>4. ThresholdFor(n) \in Nat /\ ThresholdFor(n) >= 3 /\ ThresholdFor(n) >= d
  BY <1>1, <1>2, <1>3
<1> DEFINE t == ThresholdFor(n)
<1> SUFFICES t >= 1 /\ 2 * (t - 1) > n
  OBVIOUS
<1>9. t \in Nat /\ t >= 3 /\ t >= d
  BY <1>4
<1> HIDE DEF t
<1>5. CASE n <= 3
  BY <1>9, <1>5
<1>6. CASE n = 5
  <2>1. d >= 4
    BY <1>1, <1>6
  <2>2. QED
    BY <1>1, <1>9, <1>6, <2>1
<1>7. CASE n >= 7
  <2>1. 2 * (d - 1) > n
    BY <1>1, <1>7
  <2>2. QED
    BY <1>1, <1>9, <2>1
<1> QED
  BY <1>5, <1>6, <1>7

\* The arithmetic of ceil(2n/3) behind finality: with one vote of each quorum
\* left to the node itself, two quorums of n validators still share a
\* validator, unless n is four or six.
THEOREM QuorumsIntersect ==
  ASSUME NEW A, IsFiniteSet(A), Local \notin A, FinalizationThreshold >= 3,
         Cardinality(A) \notin {0, 4, 6},
         NEW P, P \subseteq A \cup {Local}, NEW Q, Q \subseteq A \cup {Local},
         Cardinality(P) >= ThresholdFor(Cardinality(A)),
         Cardinality(Q) >= ThresholdFor(Cardinality(A))
  PROVE  P \cap Q \cap A # {}
<1> DEFINE n == Cardinality(A)
           t == ThresholdFor(n)
           P1 == P \cap A
           Q1 == Q \cap A
<1>1. n \in Nat /\ t \in Int /\ t >= 1 /\ 2 * (t - 1) > n
  BY FS_CardinalityType, QuorumSize, ThresholdType
<1>2. ASSUME NEW S, S \subseteq A \cup {Local}, Cardinality(S) >= t
      PROVE  /\ IsFiniteSet(S \cap A) /\ Cardinality(S \cap A) \in Nat
             /\ Cardinality(S \cap A) >= t - 1
  <2>1. IsFiniteSet(S \cap A) /\ Cardinality(S \cap A) \in Nat
    BY FS_Intersection, FS_CardinalityType
  <2>2. /\ IsFiniteSet((S \cap A) \cup {Local})
        /\ Cardinality((S \cap A) \cup {Local}) = Cardinality(S \cap A) + 1
    BY <2>1, FS_AddElement
  <2>3. S \in SUBSET ((S \cap A) \cup {Local})
    BY <1>2
  <2>4. IsFiniteSet(S) /\ Cardinality(S) <= Cardinality((S \cap A) \cup {Local})
    BY <2>2, <2>3, FS_Subset
  <2>5. Cardinality(S) \in Nat
    BY <2>4, FS_CardinalityType
  <2>6. QED
    BY <1>1, <1>2, <2>1, <2>2, <2>4, <2>5
<1>3. /\ IsFiniteSet(P1) /\ Cardinality(P1) \in Nat /\ Cardinality(P1) >= t - 1
      /\ IsFiniteSet(Q1) /\ Cardinality(Q1) \in Nat /\ Cardinality(Q1) >= t - 1
  BY <1>2
<1>4. /\ IsFiniteSet(P1 \cup Q1)
      /\ Cardinality(P1 \cup Q1) = Cardinality(P1) + Cardinality(Q1) - Cardinality(P1 \cap Q1)
  BY <1>3, FS_Union
<1>5. Cardinality(P1 \cup Q1) <= n
  <2>1. P1 \cup Q1 \in SUBSET A
    OBVIOUS
  <2>2. QED
    BY <2>1, FS_Subset
<1>6. P1 \cap Q1 = {} => Cardinality(P1 \cap Q1) = 0
  BY FS_EmptySet
<1>7. P1 \cap Q1 # {}
  <2>1. Cardinality(P1 \cup Q1) \in Nat
    BY <1>4, FS_CardinalityType
  <2> HIDE DEF n, t, P1, Q1
  <2>2. QED
    BY <1>1, <1>3, <1>4, <1>5, <1>6, <2>1
<1> QED
  BY <1>7

(***************************************************************************)
(* The invariant                                                            *)
(***************************************************************************)
\* The blocks' votes: one to a name; none before AddBlock; the one that
\* AppendVerification is about to enter is new.
ListsOK ==
  \A c \in Candidate :
    /\ block[c].list \in VoteList
    /\ ~block[c].held => block[c].list = << >> /\ call[c] = NoVote
    /\ call[c] # NoVote => call[c] \in Vote /\ call[c].peer \notin PeersOf(block[c].list)

VInv == TypeOK /\ ListsOK /\ FinalByDistinctVoters

\* The fields of a candidate.
LEMMA BlockField ==
  ASSUME TypeOK, NEW c \in Candidate
  PROVE  /\ block[c] \in Block /\ block[c].held \in BOOLEAN /\ block[c].final \in BOOLEAN
         /\ block[c].list \in Seq(Vote) /\ block[c].tally \in Tally
         /\ block[c].sequence \in Sequence
         /\ decided[c] \subseteq Validator /\ Active \subseteq Validator
         /\ IsFiniteSet(Active) /\ Cardinality(Active) \in Nat
         /\ IsFiniteSet(decided[c]) /\ Cardinality(decided[c]) \in Nat
<1>1. block[c] \in Block /\ decided[c] \subseteq Validator /\ Active \subseteq Validator
  BY DEF TypeOK, Active
<1>2. IsFiniteSet(Active) /\ IsFiniteSet(decided[c])
  BY <1>1, VotesAssumption, FS_Subset
<1> QED
  BY <1>1, <1>2, FS_CardinalityType DEF Block

\* The map after a merge is a map of names.
LEMMA TallyType ==
  ASSUME NEW list \in Seq(Vote), NEW tally \in Tally
  PROVE  TallyOf(list, tally) \in Tally
<1>1. PICK D \in SUBSET Name : tally \in [D -> BOOLEAN]
  BY DEF Tally
<1> DEFINE E == PeersOf(list) \cup D
<1>2. PeersOf(list) \subseteq Name
  <2>1. \A i \in 1 .. Len(list) : list[i] \in Vote
    OBVIOUS
  <2>2. QED
    BY <2>1, VoteField DEF PeersOf
<1>3. E \in SUBSET Name
  BY <1>2
<1> DEFINE value(n) == IF n \in PeersOf(list) THEN n \in Accepting(list) ELSE tally[n]
<1>4. ASSUME NEW n \in E PROVE value(n) \in BOOLEAN
  <2>1. CASE n \in PeersOf(list)
    <3>1. value(n) = (n \in Accepting(list))
      BY <2>1
    <3>2. (n \in Accepting(list)) \in BOOLEAN
      OBVIOUS
    <3> HIDE DEF value
    <3>3. QED
      BY <3>1, <3>2
  <2>2. CASE n \notin PeersOf(list)
    <3>1. tally[n] \in BOOLEAN
      BY <1>1, <2>2
    <3>2. value(n) = tally[n]
      BY <2>2
    <3>3. QED
      BY <3>1, <3>2
  <2>3. QED
    BY <2>1, <2>2
<1>5. TallyOf(list, tally) = [n \in E |-> value(n)]
  BY <1>1 DEF TallyOf
<1> HIDE DEF value, E
<1>6. TallyOf(list, tally) \in [E -> BOOLEAN]
  BY <1>4, <1>5
<1> QED
  BY <1>3, <1>6 DEF Tally

\* markFinalizedIfThresholdReached changes the mark alone, and sets it for a
\* reason.
LEMMA MarkedType ==
  ASSUME TypeOK, NEW b \in Block, b.list \in VoteList
  PROVE  /\ Marked(b) \in Block /\ Marked(b).held = b.held /\ Marked(b).list = b.list
         /\ Marked(b).tally = b.tally /\ Marked(b).sequence = b.sequence
         /\ Marked(b).final /\ ~b.final =>
              Cardinality(Accepting(b.list)) >= ThresholdFor(Cardinality(Active))
<1> DEFINE reached == /\ ThresholdFor(Cardinality(Active)) > 0
                      /\ Accepted(b.list) >= ThresholdFor(Cardinality(Active))
<1>1. Marked(b) = [b EXCEPT !.final = @ \/ reached]
  BY DEF Marked
<1>2. reached => Cardinality(Accepting(b.list)) >= ThresholdFor(Cardinality(Active))
  BY EntriesAreVoters
<1>3. (b.final \/ reached) \in BOOLEAN
  OBVIOUS
<1> HIDE DEF reached
<1>4. /\ Marked(b) \in Block /\ Marked(b).held = b.held /\ Marked(b).list = b.list
      /\ Marked(b).tally = b.tally /\ Marked(b).sequence = b.sequence
      /\ Marked(b).final = (b.final \/ reached)
  BY <1>1, <1>3 DEF Block
<1> QED
  BY <1>2, <1>4

\* One candidate gets a new list, a list that grows unless it had none.
LEMMA ListsStep ==
  ASSUME TypeOK, ListsOK, FinalByDistinctVoters, NEW c \in Candidate, NEW b \in Block,
         UNCHANGED registry,
         block' = [block EXCEPT ![c] = b], b.held, b.list \in VoteList,
         Accepting(block[c].list) \subseteq Accepting(b.list),
         decided' = decided \/ (/\ decided' = [decided EXCEPT ![c] = Active]
                                /\ Cardinality(Accepting(b.list)) >= ThresholdFor(Cardinality(Active))),
         call[c] = NoVote \/ call'[c] = NoVote,
         call' = [call EXCEPT ![c] = NoVote]
  PROVE  ListsOK' /\ FinalByDistinctVoters'
<1>1. /\ block'[c] = b /\ \A d \in Candidate \ {c} : block'[d] = block[d]
      /\ call'[c] = NoVote /\ \A d \in Candidate \ {c} : call'[d] = call[d]
  BY DEF TypeOK
<1>2. ListsOK'
  BY <1>1 DEF ListsOK
<1>3. ASSUME NEW d \in Candidate, decided'[d] # {}
      PROVE  Cardinality(Accepting(block'[d].list)) >= ThresholdFor(Cardinality(decided'[d]))
  <2>1. CASE d # c
    <3>1. decided'[d] = decided[d] /\ block'[d] = block[d]
      BY <1>1, <2>1 DEF TypeOK
    <3>2. QED
      BY <1>3, <3>1 DEF FinalByDistinctVoters
  <2>2. CASE d = c /\ decided'[c] = decided[c]
    <3>1. Cardinality(Accepting(block[c].list)) >= ThresholdFor(Cardinality(decided[c]))
      BY <1>3, <2>2 DEF FinalByDistinctVoters
    <3>2. /\ Cardinality(Accepting(block[c].list)) <= Cardinality(Accepting(b.list))
          /\ Cardinality(Accepting(block[c].list)) \in Nat
          /\ Cardinality(Accepting(b.list)) \in Nat
      BY EntriesAreVoters, FS_Subset DEF ListsOK
    <3>3. ThresholdFor(Cardinality(decided[c])) \in Int
      BY BlockField, ThresholdType
    <3>4. QED
      BY <1>1, <2>2, <3>1, <3>2, <3>3
  <2>3. CASE d = c /\ decided'[c] # decided[c]
    <3>1. /\ decided'[c] = Active
          /\ Cardinality(Accepting(b.list)) >= ThresholdFor(Cardinality(Active))
      BY <2>3 DEF TypeOK
    <3>2. QED
      BY <1>1, <2>3, <3>1
  <2>4. QED
    BY <2>1, <2>2, <2>3
<1> QED
  BY <1>2, <1>3 DEF FinalByDistinctVoters

\* So is the map with one more vote, which leaves the other names' entries.
LEMMA EnteredType ==
  ASSUME NEW tally \in Tally, NEW v \in Vote
  PROVE  /\ Entered(tally, v) \in Tally
         /\ v.peer \in DOMAIN Entered(tally, v) /\ Entered(tally, v)[v.peer] = v.accepted
         /\ \A n \in DOMAIN tally \ {v.peer} :
              n \in DOMAIN Entered(tally, v) /\ Entered(tally, v)[n] = tally[n]
<1>1. PICK D \in SUBSET Name : tally \in [D -> BOOLEAN]
  BY DEF Tally
<1>2. v.peer \in Name /\ v.accepted \in BOOLEAN
  BY VoteField
<1>3. Entered(tally, v) \in [D \cup {v.peer} -> BOOLEAN]
  BY <1>1, <1>2 DEF Entered
<1>4. D \cup {v.peer} \in SUBSET Name
  BY <1>2
<1>5. Entered(tally, v) \in Tally
  BY <1>3, <1>4 DEF Tally
<1>6. /\ v.peer \in DOMAIN Entered(tally, v) /\ Entered(tally, v)[v.peer] = v.accepted
      /\ \A n \in DOMAIN tally \ {v.peer} :
           n \in DOMAIN Entered(tally, v) /\ Entered(tally, v)[n] = tally[n]
  BY DEF Entered
<1> QED
  BY <1>5, <1>6

\* AddBlock installs a merged list with the mark it deserves.
LEMMA AddKeeps ==
  ASSUME VInv, NEW c \in Candidate, AddBlock(c)
  PROVE  VInv'
<1> DEFINE own == [peer |-> Local, accepted |-> TRUE]
<1>1. PICK r \in Received : Hold(c, r, Merge(block[c], r, own))
  BY DEF AddBlock
<1> DEFINE list   == Merged(Append(r.list, own))
           b      == [block[c] EXCEPT !.held = TRUE, !.list = list, !.final = r.final,
                                      !.tally = TallyOf(list, r.tally), !.sequence = r.sequence]
           merged == Marked(b)
<1>2. /\ block' = [block EXCEPT ![c] = merged]
      /\ decided' = IF merged.final /\ ~r.final
                    THEN [decided EXCEPT ![c] = Active] ELSE decided
      /\ UNCHANGED <<registry, call, replaced>>
  BY <1>1 DEF Hold, Merge
<1>3. /\ r.list \in Seq(Vote) /\ r.final \in BOOLEAN /\ r.tally \in Tally
      /\ r.sequence \in Sequence /\ own \in Vote
  BY VotesAssumption DEF Vote, Name
<1>4. list \in VoteList
  <2> HIDE DEF own
  <2>1. Append(r.list, own) \in Seq(Vote)
    BY <1>3
  <2>2. QED
    BY <2>1, MergedType
<1>5. TallyOf(list, r.tally) \in Tally
  BY <1>3, <1>4, TallyType DEF VoteList
<1> HIDE DEF list, own
<1>6. TypeOK /\ block[c] \in Block /\ list \in Seq(Vote)
  BY <1>4, BlockField DEF VInv, VoteList
<1>7. b \in Block /\ b.held /\ b.list = list /\ b.final = r.final
  BY <1>3, <1>5, <1>6 DEF Block
<1> HIDE DEF b
<1>8. /\ merged \in Block /\ merged.held /\ merged.list = list
      /\ merged.final /\ ~r.final =>
           Cardinality(Accepting(list)) >= ThresholdFor(Cardinality(Active))
  BY <1>4, <1>6, <1>7, MarkedType
<1> HIDE DEF merged
<1>9. ~block[c].held /\ call[c] = NoVote /\ UNCHANGED <<registry, call, replaced>>
  BY <1>2 DEF AddBlock, VInv, ListsOK
<1>10. TypeOK'
  <2>1. block' \in [Candidate -> Block]
    BY <1>2, <1>6, <1>8 DEF TypeOK
  <2>2. decided' \in [Candidate -> SUBSET Validator]
    BY <1>2, <1>6, BlockField DEF TypeOK
  <2>3. QED
    BY <1>6, <1>9, <2>1, <2>2 DEF TypeOK
<1>12. ListsOK' /\ FinalByDistinctVoters'
  <2>1. block[c].list = << >>
    BY <1>9 DEF VInv, ListsOK
  <2>2. Accepting(block[c].list) = {}
    BY <2>1 DEF Accepting
  <2>3. call' = [call EXCEPT ![c] = NoVote]
    BY <1>6, <1>9 DEF TypeOK
  <2>4. QED
    BY <1>2, <1>4, <1>6, <1>8, <1>9, <2>2, <2>3, ListsStep DEF VInv
<1> QED
  BY <1>10, <1>12 DEF VInv

\* The second half of AppendVerification enters a vote of a new name.
LEMMA CountKeeps ==
  ASSUME VInv, NEW c \in Candidate, Count(c)
  PROVE  VInv'
<1> DEFINE list == Append(block[c].list, call[c])
           b    == [block[c] EXCEPT !.list = list, !.tally = Entered(@, call[c])]
           new  == Marked(b)
<1>1. /\ call[c] # NoVote /\ Put(c, new) /\ call' = [call EXCEPT ![c] = NoVote]
      /\ UNCHANGED <<registry, replaced>>
  BY DEF Count
<1>2. /\ TypeOK /\ block[c] \in Block /\ block[c].list \in VoteList /\ block[c].held
      /\ call[c] \in Vote /\ call[c].peer \notin PeersOf(block[c].list)
  BY <1>1, BlockField DEF VInv, ListsOK
<1>3. list \in VoteList /\ Accepting(block[c].list) \subseteq Accepting(list)
  BY <1>2, AppendDistinct
<1>4. Entered(block[c].tally, call[c]) \in Tally
  BY <1>2, EnteredType, BlockField
<1> HIDE DEF list
<1>5. list \in Seq(Vote)
  BY <1>3 DEF VoteList
<1>6. /\ b \in Block /\ b.held /\ b.list = list /\ b.final = block[c].final
  BY <1>2, <1>4, <1>5 DEF Block
<1> HIDE DEF b
<1>7. /\ new \in Block /\ new.held /\ new.list = list
      /\ new.final /\ ~block[c].final =>
           Cardinality(Accepting(list)) >= ThresholdFor(Cardinality(Active))
  BY <1>2, <1>3, <1>6, MarkedType
<1> HIDE DEF new
<1>8. /\ block' = [block EXCEPT ![c] = new]
      /\ decided' = IF new.final /\ ~block[c].final THEN [decided EXCEPT ![c] = Active] ELSE decided
  BY <1>1 DEF Put
<1>9. TypeOK'
  <2>1. block' \in [Candidate -> Block] /\ call' \in [Candidate -> Vote \cup {NoVote}]
    BY <1>1, <1>2, <1>7, <1>8 DEF TypeOK
  <2>2. decided' \in [Candidate -> SUBSET Validator]
    BY <1>2, <1>8, BlockField DEF TypeOK
  <2>3. QED
    BY <1>1, <1>2, <2>1, <2>2 DEF TypeOK
<1>11. ListsOK' /\ FinalByDistinctVoters'
  <2>1. call'[c] = NoVote
    BY <1>1, <1>2 DEF TypeOK
  <2>2. QED
    BY <1>1, <1>2, <1>3, <1>7, <1>8, <2>1, ListsStep DEF VInv
<1> QED
  BY <1>9, <1>11 DEF VInv

\* The first half enters nothing, and remembers a vote of a new name.
LEMMA CheckKeeps ==
  ASSUME VInv, NEW c \in Candidate, Check(c)
  PROVE  VInv'
<1>1. PICK v \in Ballots : /\ v.peer \notin PeersOf(block[c].list)
                           /\ call' = [call EXCEPT ![c] = v]
  BY DEF Check
<1>2. v \in Vote /\ block[c].held /\ UNCHANGED <<registry, block, decided, replaced>>
  BY VotesAssumption DEF Check
<1>3. TypeOK'
  BY <1>1, <1>2 DEF VInv, TypeOK, Active
<1>4. ListsOK'
  <2>1. call'[c] = v /\ \A d \in Candidate \ {c} : call'[d] = call[d]
    BY <1>1 DEF VInv, TypeOK
  <2>2. QED
    BY <1>1, <1>2, <2>1 DEF VInv, ListsOK
<1> QED
  BY <1>2, <1>3, <1>4 DEF VInv, FinalByDistinctVoters

\* The next index is an index.
LEMMA NextIndexType ==
  ASSUME NEW s \in Sequence
  PROVE  NextIndex(s) \in Int
<1>1. CASE s = << >>
  BY <1>1 DEF NextIndex
<1>2. CASE s # << >>
  <2>1. s \in Seq(Confirmation)
    BY DEF Sequence
  <2>2. s[Len(s)] \in Confirmation
    BY <1>2, <2>1
  <2>3. \A e \in Confirmation : e.index \in Int
    BY DEF Confirmation
  <2>4. s[Len(s)].index \in Int
    BY <2>2, <2>3
  <2>5. QED
    BY <1>2, <2>4 DEF NextIndex
<1> QED
  BY <1>1, <1>2

\* Block.AppendVerification touches one sequence.
LEMMA SequenceKeeps ==
  ASSUME VInv, NEW c \in Candidate, AppendSequence(c)
  PROVE  VInv'
<1> DEFINE s == block[c].sequence
<1>1. PICK v \in Verifier :
        /\ \A i \in 1 .. Len(s) : s[i].verifier # v
        /\ block' = [block EXCEPT ![c].sequence =
                       Append(s, [verifier |-> v, index |-> NextIndex(s)])]
  BY DEF AppendSequence
<1> DEFINE new == Append(s, [verifier |-> v, index |-> NextIndex(s)])
           b   == [block[c] EXCEPT !.sequence = new]
<1>2. UNCHANGED <<registry, call, decided, replaced>>
  BY DEF AppendSequence
<1>3. TypeOK /\ block[c] \in Block /\ s \in Sequence
  BY BlockField DEF VInv
<1>4. NextIndex(s) \in Int
  BY <1>3, NextIndexType
<1>5. new \in Sequence
  BY <1>1, <1>3, <1>4 DEF Sequence, Confirmation
<1>6. block' = [block EXCEPT ![c] = b]
  BY <1>1
<1> HIDE DEF new, s
<1>7. /\ b \in Block /\ b.held = block[c].held /\ b.list = block[c].list
      /\ b.sequence = new
  BY <1>3, <1>5 DEF Block
<1> HIDE DEF b
<1>8. /\ block'[c] = b /\ \A d \in Candidate \ {c} : block'[d] = block[d]
      /\ block' \in [Candidate -> Block]
  BY <1>3, <1>6, <1>7 DEF TypeOK
<1>9. TypeOK'
  BY <1>2, <1>3, <1>8 DEF TypeOK
<1>10. \A d \in Candidate : block'[d].list = block[d].list /\ block'[d].held = block[d].held
  BY <1>7, <1>8
<1>11. ListsOK' /\ FinalByDistinctVoters'
  BY <1>2, <1>10 DEF VInv, ListsOK, FinalByDistinctVoters
<1> QED
  BY <1>9, <1>11 DEF VInv

\* Blocks start without votes.
LEMMA VotesInit == Init => VInv
<1> SUFFICES ASSUME Init PROVE VInv
  OBVIOUS
<1>1. << >> \in Tally
  <2>1. << >> \in [{} -> BOOLEAN]
    OBVIOUS
  <2>2. QED
    BY <2>1 DEF Tally
<1>2. NewBlock \in Block
  BY <1>1 DEF NewBlock, Block, Sequence
<1>3. TypeOK
  BY <1>2, VotesAssumption DEF Init, TypeOK
<1>4. << >> \in VoteList
  BY DEF VoteList, Distinct
<1> QED
  BY <1>3, <1>4 DEF Init, NewBlock, VInv, ListsOK, FinalByDistinctVoters

\* Every step keeps the invariant.
LEMMA VotesInvariant == Spec => []VInv
<1>1. VInv /\ [Next]_vars => VInv'
  <2> SUFFICES ASSUME VInv, [Next]_vars PROVE VInv'
    OBVIOUS
  <2>1. CASE ReplaceValidatorSet
    BY <2>1, VotesAssumption DEF ReplaceValidatorSet, VInv, TypeOK, ListsOK,
                                 FinalByDistinctVoters
  <2>2. CASE UNCHANGED vars
    BY <2>2 DEF vars, VInv, TypeOK, ListsOK, FinalByDistinctVoters
  <2>3. QED
    BY <2>1, <2>2, AddKeeps, CheckKeeps, CountKeeps, SequenceKeeps DEF Next
<1> QED
  BY <1>1, VotesInit, PTL DEF Spec

(***************************************************************************)
(* Nothing is missed: the mark and the map follow the list                  *)
(***************************************************************************)
\* The map says of the voters of the list what the list says.
Agreed(list, tally) ==
  \A i \in 1 .. Len(list) :
    list[i].peer \in DOMAIN tally /\ tally[list[i].peer] = list[i].accepted

\* What an operation leaves in a candidate it enters votes in.
Evaluated(b) ==
  \E u \in Block : u.list \in VoteList /\ Agreed(u.list, u.tally) /\ b = Marked(u)

\* The map agrees with the list, whatever it was before.
LEMMA TallyFollows ==
  ASSUME NEW list \in VoteList, NEW tally \in Tally, NEW i \in 1 .. Len(list)
  PROVE  /\ list[i].peer \in DOMAIN TallyOf(list, tally)
         /\ TallyOf(list, tally)[list[i].peer] = list[i].accepted
<1>1. list \in Seq(Vote) /\ list[i] \in Vote /\ list[i].accepted \in BOOLEAN
  <2>1. list \in Seq(Vote)
    BY DEF VoteList
  <2>2. QED
    BY <2>1, VoteField
<1>2. list[i].peer \in PeersOf(list)
  BY DEF PeersOf
<1>3. list[i].peer \in Accepting(list) <=> list[i].accepted
  <2>1. ASSUME list[i].accepted PROVE list[i].peer \in Accepting(list)
    BY <2>1 DEF Accepting
  <2>2. ASSUME list[i].peer \in Accepting(list) PROVE list[i].accepted
    <3>1. PICK k \in 1 .. Len(list) : list[k].accepted /\ list[k].peer = list[i].peer
      BY <2>2 DEF Accepting
    <3>2. k = i
      BY <3>1 DEF VoteList, Distinct
    <3>3. QED
      BY <3>1, <3>2
  <2>3. QED
    BY <2>1, <2>2
<1>4. /\ list[i].peer \in DOMAIN TallyOf(list, tally)
      /\ TallyOf(list, tally)[list[i].peer] = (list[i].peer \in Accepting(list))
  BY <1>2 DEF TallyOf
<1>5. (list[i].peer \in Accepting(list)) = list[i].accepted
  BY <1>1, <1>3
<1> QED
  BY <1>4, <1>5

\* AddBlock ends in the evaluation of a merged list.
LEMMA AddEvaluates ==
  ASSUME VInv, NEW c \in Candidate, AddBlock(c)
  PROVE  \E b : Evaluated(b) /\ block' = [block EXCEPT ![c] = b]
<1> DEFINE own == [peer |-> Local, accepted |-> TRUE]
<1>1. PICK r \in Received : block' = [block EXCEPT ![c] = Merge(block[c], r, own)]
  BY DEF AddBlock, Hold
<1> DEFINE list == Merged(Append(r.list, own))
           u    == [block[c] EXCEPT !.held = TRUE, !.list = list, !.final = r.final,
                                    !.tally = TallyOf(list, r.tally), !.sequence = r.sequence]
<1>2. /\ r.list \in Seq(Vote) /\ r.final \in BOOLEAN /\ r.tally \in Tally
      /\ r.sequence \in Sequence /\ own \in Vote
  BY VotesAssumption DEF Vote, Name
<1>3. list \in VoteList
  <2> HIDE DEF own
  <2>1. Append(r.list, own) \in Seq(Vote)
    BY <1>2
  <2>2. QED
    BY <2>1, MergedType
<1>4. block' = [block EXCEPT ![c] = Marked(u)]
  BY <1>1 DEF Merge
<1> HIDE DEF list, own
<1>5. list \in Seq(Vote) /\ TallyOf(list, r.tally) \in Tally
  BY <1>2, <1>3, TallyType DEF VoteList
<1>6. block[c] \in Block
  BY BlockField DEF VInv
<1>7. u \in Block /\ u.list = list /\ u.tally = TallyOf(list, r.tally)
  BY <1>2, <1>5, <1>6 DEF Block
<1> HIDE DEF u
<1>8. Agreed(u.list, u.tally)
  BY <1>2, <1>3, <1>7, TallyFollows DEF Agreed
<1> QED
  BY <1>3, <1>4, <1>7, <1>8 DEF Evaluated

\* So does the second half of AppendVerification, when the map agreed before.
LEMMA CountEvaluates ==
  ASSUME VInv, TallyAgrees, NEW c \in Candidate, Count(c)
  PROVE  \E b : Evaluated(b) /\ block' = [block EXCEPT ![c] = b]
<1> DEFINE old  == block[c].list
           v    == call[c]
           list == Append(old, v)
           u    == [block[c] EXCEPT !.list = list, !.tally = Entered(@, v)]
<1>1. v # NoVote /\ block' = [block EXCEPT ![c] = Marked(u)]
  BY DEF Count, Put
<1>2. /\ block[c] \in Block /\ old \in VoteList /\ block[c].tally \in Tally
      /\ v \in Vote /\ v.peer \notin PeersOf(old)
  BY <1>1, BlockField DEF VInv, ListsOK
<1>3. list \in VoteList
  BY <1>2, AppendDistinct
<1>4. Agreed(old, block[c].tally)
  BY DEF TallyAgrees, Agreed
<1>5. /\ Entered(block[c].tally, v) \in Tally
      /\ v.peer \in DOMAIN Entered(block[c].tally, v)
      /\ Entered(block[c].tally, v)[v.peer] = v.accepted
      /\ \A n \in DOMAIN block[c].tally \ {v.peer} :
           n \in DOMAIN Entered(block[c].tally, v)
             /\ Entered(block[c].tally, v)[n] = block[c].tally[n]
  BY <1>2, EnteredType
<1>6. /\ Len(old) \in Nat /\ list[Len(old) + 1] = v
      /\ \A i \in 1 .. Len(old) : list[i] = old[i]
      /\ \A i \in 1 .. Len(list) : i \in 1 .. Len(old) \/ i = Len(old) + 1
  BY <1>2, AppendVote DEF VoteList
<1>7. \A i \in 1 .. Len(old) : old[i].peer # v.peer
  BY <1>2 DEF PeersOf
<1>8. u \in Block /\ u.list = list /\ u.tally = Entered(block[c].tally, v)
  BY <1>2, <1>3, <1>5 DEF Block, VoteList
<1> HIDE DEF u, list, old, v
<1>9. Agreed(list, u.tally)
  BY <1>4, <1>5, <1>6, <1>7, <1>8 DEF Agreed
<1> QED
  BY <1>1, <1>3, <1>8, <1>9 DEF Evaluated

\* An evaluated block has its mark and its map right.
LEMMA EvaluatedRight ==
  ASSUME TypeOK, NEW b, Evaluated(b)
  PROVE  /\ b \in Block
         /\ LET threshold == ThresholdFor(Cardinality(Active))
            IN  threshold > 0 /\ Cardinality(Accepting(b.list)) >= threshold => b.final
         /\ \A i \in 1 .. Len(b.list) :
              /\ b.list[i].peer \in DOMAIN b.tally
              /\ b.tally[b.list[i].peer] = b.list[i].accepted
<1>1. PICK u \in Block : u.list \in VoteList /\ Agreed(u.list, u.tally) /\ b = Marked(u)
  BY DEF Evaluated
<1>2. b \in Block /\ b.list = u.list /\ b.tally = u.tally
  BY <1>1, MarkedType
<1>3. Cardinality(Accepting(u.list)) = Accepted(u.list)
  BY <1>1, EntriesAreVoters
<1>4. ASSUME ThresholdFor(Cardinality(Active)) > 0,
             Accepted(u.list) >= ThresholdFor(Cardinality(Active))
      PROVE  b.final
  BY <1>1, <1>4 DEF Marked, Block
<1>5. ASSUME NEW i \in 1 .. Len(u.list)
      PROVE  /\ u.list[i].peer \in DOMAIN u.tally
             /\ u.tally[u.list[i].peer] = u.list[i].accepted
  BY <1>1 DEF Agreed
<1> QED
  BY <1>2, <1>3, <1>4, <1>5

\* The mark and the map are right.
Followed == QuorumIsFinal /\ TallyAgrees

\* Entering votes in one candidate leaves the mark and the map of all right.
LEMMA EvaluationKeeps ==
  ASSUME VInv, Followed, NEW c \in Candidate, UNCHANGED <<registry, replaced>>,
         NEW b, Evaluated(b), block' = [block EXCEPT ![c] = b]
  PROVE  Followed'
<1>1. TypeOK /\ block'[c] = b /\ \A d \in Candidate \ {c} : block'[d] = block[d]
  BY DEF VInv, TypeOK
<1>2. Active' = Active
  BY DEF Active
<1>3. QuorumIsFinal'
  <2> SUFFICES ASSUME NEW d \in Candidate, replaced = 0, block'[d].held,
                      ThresholdFor(Cardinality(Active)) > 0,
                      Cardinality(Accepting(block'[d].list)) >= ThresholdFor(Cardinality(Active))
               PROVE  block'[d].final
    BY <1>2 DEF QuorumIsFinal
  <2>1. CASE d = c
    BY <1>1, <2>1, EvaluatedRight
  <2>2. CASE d # c
    BY <1>1, <2>2 DEF Followed, QuorumIsFinal
  <2>3. QED
    BY <2>1, <2>2
<1>4. TallyAgrees'
  <2> SUFFICES ASSUME NEW d \in Candidate, NEW i \in 1 .. Len(block'[d].list)
               PROVE  /\ block'[d].list[i].peer \in DOMAIN block'[d].tally
                      /\ block'[d].tally[block'[d].list[i].peer] = block'[d].list[i].accepted
    BY DEF TallyAgrees
  <2>1. CASE d = c
    BY <1>1, <2>1, EvaluatedRight
  <2>2. CASE d # c
    BY <1>1, <2>2 DEF Followed, TallyAgrees
  <2>3. QED
    BY <2>1, <2>2
<1> QED
  BY <1>3, <1>4 DEF Followed

\* The steps that enter no vote leave both right; a replacement of the registry
\* ends what QuorumIsFinal promises.
LEMMA FollowedNext == VInv /\ Followed /\ [Next]_vars => Followed'
<1> SUFFICES ASSUME VInv, Followed, [Next]_vars PROVE Followed'
  OBVIOUS
<1>1. ASSUME NEW c \in Candidate, AddBlock(c) PROVE Followed'
  <2>1. UNCHANGED <<registry, replaced>>
    BY <1>1 DEF AddBlock, Hold
  <2>2. QED
    BY <1>1, <2>1, AddEvaluates, EvaluationKeeps
<1>2. ASSUME NEW c \in Candidate, Count(c) PROVE Followed'
  <2>1. UNCHANGED <<registry, replaced>>
    BY <1>2 DEF Count
  <2>2. QED
    BY <1>2, <2>1, CountEvaluates, EvaluationKeeps DEF Followed
<1>3. ASSUME NEW c \in Candidate, AppendSequence(c) PROVE Followed'
  <2>1. PICK s : block' = [block EXCEPT ![c].sequence = s]
    BY <1>3 DEF AppendSequence
  <2>2. \A d \in Candidate :
          /\ block'[d].held = block[d].held /\ block'[d].list = block[d].list
          /\ block'[d].tally = block[d].tally /\ block'[d].final = block[d].final
    BY <2>1 DEF VInv, TypeOK, Block
  <2>3. UNCHANGED <<registry, replaced>>
    BY <1>3 DEF AppendSequence
  <2>4. QuorumIsFinal'
    BY <2>2, <2>3 DEF Followed, QuorumIsFinal, Active
  <2>5. TallyAgrees'
    <3> SUFFICES ASSUME NEW d \in Candidate, NEW i \in 1 .. Len(block'[d].list)
                 PROVE  /\ block'[d].list[i].peer \in DOMAIN block'[d].tally
                        /\ block'[d].tally[block'[d].list[i].peer] = block'[d].list[i].accepted
      BY DEF TallyAgrees
    <3>1. block'[d].list = block[d].list /\ block'[d].tally = block[d].tally
      BY <2>2
    <3>2. QED
      BY <3>1 DEF Followed, TallyAgrees
  <2>6. QED
    BY <2>4, <2>5 DEF Followed
<1>4. ASSUME NEW c \in Candidate, Check(c) PROVE Followed'
  BY <1>4 DEF Check, Followed, QuorumIsFinal, TallyAgrees, Active
<1>5. CASE ReplaceValidatorSet
  <2>1. replaced' # 0 /\ UNCHANGED block
    BY <1>5 DEF ReplaceValidatorSet, VInv, TypeOK
  <2>2. QED
    BY <2>1 DEF Followed, QuorumIsFinal, TallyAgrees
<1>6. CASE UNCHANGED vars
  BY <1>6 DEF vars, Followed, QuorumIsFinal, TallyAgrees, Active
<1> QED
  BY <1>1, <1>2, <1>3, <1>4, <1>5, <1>6 DEF Next

\* The mark and the map are right in every reachable state.
LEMMA FollowedInvariant == Spec => []Followed
<1>1. Init => Followed
  BY DEF Init, NewBlock, Followed, QuorumIsFinal, TallyAgrees
<1> QED
  BY <1>1, FollowedNext, VotesInvariant, PTL DEF Spec

(***************************************************************************)
(* The theorems                                                             *)
(***************************************************************************)
\* Votes, marks, maps and sequences keep their types, whatever is received.
THEOREM TypeCorrect == Spec => []TypeOK
<1>1. VInv => TypeOK
  BY DEF VInv
<1> QED
  BY <1>1, VotesInvariant, PTL

\* A block finalized here has the accepting votes of as many different voters as
\* the registry of that moment required, for any registry and any received list.
THEOREM FinalNeedsVoters == Spec => []FinalByDistinctVoters
<1>1. VInv => FinalByDistinctVoters
  BY DEF VInv
<1> QED
  BY <1>1, VotesInvariant, PTL

\* With the static minimum of three (models.go:22) or more, two blocks that
\* became final with the same active validators, not four nor six of them, and
\* no other votes than theirs and the node's, have a validator that accepted
\* both.
THEOREM FinalsShareValidator ==
  ASSUME FinalizationThreshold >= 3
  PROVE  Spec => []QuorumsShareValidator
<1>1. VInv => QuorumsShareValidator
  <2> SUFFICES ASSUME VInv, NEW c \in Candidate, NEW d \in Candidate,
                      decided[c] # {}, decided[c] = decided[d],
                      Cardinality(decided[c]) \notin {4, 6},
                      Accepting(block[c].list) \cup Accepting(block[d].list)
                        \subseteq decided[c] \cup {Local}
               PROVE  Accepting(block[c].list) \cap Accepting(block[d].list) \cap decided[c] # {}
    BY DEF QuorumsShareValidator
  <2>1. /\ IsFiniteSet(decided[c]) /\ decided[c] \subseteq Validator
        /\ Cardinality(decided[c]) # 0
    BY BlockField, FS_EmptySet DEF VInv
  <2>2. /\ Cardinality(Accepting(block[c].list)) >= ThresholdFor(Cardinality(decided[c]))
        /\ Cardinality(Accepting(block[d].list)) >= ThresholdFor(Cardinality(decided[c]))
    BY DEF VInv, FinalByDistinctVoters
  <2>3. Local \notin decided[c]
    BY <2>1, VotesAssumption
  <2>4. QED
    BY <2>1, <2>2, <2>3, QuorumsIntersect
<1> QED
  BY <1>1, VotesInvariant, PTL

\* While the registry stays, no block with a quorum of accepting votes is left
\* unmarked, in whatever order they were received, merged and entered.
THEOREM QuorumsAreFinal == Spec => []QuorumIsFinal
<1>1. Followed => QuorumIsFinal
  BY DEF Followed
<1> QED
  BY <1>1, FollowedInvariant, PTL

\* BlockVerifications says of every voter what Verifications says, whatever map
\* a block arrived with.
THEOREM TalliesAgree == Spec => []TallyAgrees
<1>1. Followed => TallyAgrees
  BY DEF Followed
<1> QED
  BY <1>1, FollowedInvariant, PTL
=============================================================================
