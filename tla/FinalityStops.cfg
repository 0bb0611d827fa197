CONSTANTS
  g = g  x1 = x1  y1 = y1  y2 = y2  m1 = m1  none = none  tx = tx
  t1 = t1  t2 = t2
  Thread = {t1}
  Hash <- MCHash
  TxId = {}
  Genesis <- MCGenesis
  PeerBlocks <- FinalBlocks
  PeerChains = {}
  LocalHash <- MCLocalHash
  MaxMined = 1
  MaxSyncs = 0
  MaxExpired = 0
SPECIFICATION Spec
INVARIANT FinalityForwarded
