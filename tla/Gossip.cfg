CONSTANTS
  g = g  x1 = x1  y1 = y1  y2 = y2  m1 = m1  none = none  tx = tx
  t1 = t1  t2 = t2
  Thread = {t1, t2}
  Hash <- MCHash
  TxId = {tx}
  Genesis <- MCGenesis
  PeerBlocks <- MCBlocks
  PeerChains <- MCChains
  LocalHash <- MCLocalHash
  MaxMined = 1
  MaxSyncs = 1
  MaxExpired = 1
SYMMETRY ThreadSymmetry
SPECIFICATION Spec
INVARIANTS TypeOK KnownCoversChain OfferedUnlessIndexed FinalRemembered PendingOffered
