CONSTANTS
  Window = 2
  Interval = 4
  InitialDifficulty = 1
  MaxPoWDifficulty = 9
  Times = {0, 6, 38}
  Declared = {1}
  Genesis <- MCGenesis
  Served = {}
  MaxLen = 5
SPECIFICATION Spec
INVARIANT RebuildFollowsSchedule
