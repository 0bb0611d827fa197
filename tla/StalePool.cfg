CONSTANTS
  F = F  P = P  A = A  nobody = nobody
  g = g  h = h  x1 = x1  y1 = y1  y2 = y2  z1 = z1  h1 = h1  h2 = h2  m1 = m1  m2 = m2  none = none
  local = local  v1 = v1  v2 = v2
  t1 = t1  t2 = t2
  Address <- MCAddress
  Nobody <- nobody
  Fees <- FeesRegular
  Debtor = {}
  Hash <- MCHash
  Voter <- MCVoter
  Cap = 40
  FounderAllocation = 10
  Fee = 1
  BaseReward = 4
  HalvingInterval = 2
  ActiveValidators = 3
  FinalizationThreshold = 3
  Local <- local
  Thread = {t1}
  Miner = F
  Txs <- TxsOne
  MaxPool = 2
  Genesis <- MCGenesis
  PeerBlocks <- GossipOne
  PeerChains <- ChainsSmall
  PeerCount = 1
  LocalHash <- MCLocalHash
  MaxMined = 2
  MaxRestarts = 0
  NoThread = NoThread
SPECIFICATION Spec
INVARIANT MinedBlockAccepted
