CONSTANTS
  Window = 2
  Interval = 4
  InitialDifficulty = 1
  MaxPoWDifficulty = 9
  Times = {0, 6, 38}
  Declared = {0, 1, 3, 12}
  Genesis <- MCGenesis
  Served <- MCServed
  MaxLen = 7
SPECIFICATION Spec
INVARIANTS TypeOK ScheduleFollowed RetargetDamped RetargetNearest
