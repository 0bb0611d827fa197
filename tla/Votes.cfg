CONSTANTS
  v1 = v1  v2 = v2  v3 = v3  v4 = v4  v5 = v5  a = a  b = b
  Validator = {v1, v2, v3, v4, v5}
  Verifier = {v1}
  Local = Local
  Candidate = {a, b}
  FinalizationThreshold = 3
  Ballots <- MCBallots
  Received <- MCReceived
  Registries <- MCRegistries
  MaxReplaced = 1
  NoVote = NoVote
SYMMETRY CandidateSymmetry
SPECIFICATION Spec
CHECK_DEADLOCK FALSE
INVARIANTS TypeOK FinalByDistinctVoters QuorumIsFinal QuorumsShareValidator TallyAgrees
