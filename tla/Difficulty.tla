------------------------------ MODULE Difficulty ------------------------------
(***************************************************************************)
(* The difficulty schedule (core/difficulty.go) and the ways a block gets   *)
(* into a node's chain past it: mining, gossip, a fork, and the two forms   *)
(* of chain sync.  Each checks the difficulty a block declares against      *)
(* another view of the chain: the whole chain, the chain below the tip, or, *)
(* in rebuildStateFromChain, no chain at all.                               *)
(*                                                                          *)
(* A block is its declared difficulty and its timestamp; equal prefixes     *)
(* stand for equal parent hashes.  Nothing checks timestamps, so any of     *)
(* Times may follow any.  Peers are the environment: they offer blocks and  *)
(* serve chains of any difficulty.  The rest of verification, the votes,    *)
(* finality and the PoW search are left out: a fork may be won by either    *)
(* sibling.                                                                 *)
(***************************************************************************)
EXTENDS Integers, Sequences

CONSTANTS
  Window,            \* DifficultyAdjustmentWindow
  Interval,          \* TargetBlockIntervalSeconds
  InitialDifficulty, \* InitialDifficulty
  MaxPoWDifficulty,  \* MaxPoWDifficulty
  Times,             \* timestamps blocks may carry
  Declared,          \* difficulties that blocks from elsewhere declare
  Genesis,           \* the first block; the nodes start from one data directory
  Served,            \* chains that peers serve
  MaxLen             \* bound: blocks in a chain

\* TargetAdjustmentTimespanSeconds.
Target == Window * Interval

\* 60,480 s in the code.  A multiple of four: the damping bounds are exact.  A
\* quotient of zero is clamped to the initial difficulty: more than one would be
\* outside of these bounds.
ASSUME DifficultyAssumption ==
  /\ Window \in Nat \ {0} /\ Interval \in Nat
  /\ Target > 0 /\ Target % 4 = 0
  /\ InitialDifficulty = 1 /\ MaxPoWDifficulty \in Nat \ {0}
  /\ Times \subseteq Int /\ Declared \subseteq Nat
  /\ MaxLen \in Nat \ {0}

Block == [difficulty : Nat, time : Times]

ASSUME GenesisAssumption ==
  Genesis \in Block /\ Genesis.difficulty = InitialDifficulty

ASSUME ServedAssumption ==
  \A c \in Served : c \in Seq(Block) /\ Len(c) \in 1 .. MaxLen /\ c[1] = Genesis

VARIABLES
  chain,    \* ChainState.Chain
  installed \* history: how many of its blocks a full sync brought

vars == <<chain, installed>>

(***************************************************************************)
(* The schedule                                                             *)
(***************************************************************************)
\* clampDifficulty: a missing difficulty counts as the initial one.
Clamp(d) ==
  IF d = 0 THEN InitialDifficulty ELSE IF d > MaxPoWDifficulty THEN MaxPoWDifficulty ELSE d

\* Mutant: only slow windows are damped.
ElapsedUndamped(actual) ==
  IF actual > 4 * Target THEN 4 * Target ELSE IF actual < 1 THEN 1 ELSE actual

\* The time a window took, between a quarter and four times the target, and
\* never zero.
Elapsed(actual) ==
  LET damped == IF actual < Target \div 4 THEN Target \div 4
                ELSE IF actual > 4 * Target THEN 4 * Target ELSE actual
  IN  IF damped <= 0 THEN 1 ELSE damped

\* Mutant: the quotient is truncated.
RescaledDown(d, elapsed) == (d * Target) \div elapsed

\* Half of the divisor is added so that the quotient is rounded.
Rescaled(d, elapsed) == (d * Target + elapsed \div 2) \div elapsed

\* CalculateNewDifficulty.
NewDifficulty(last, first) ==
  Clamp(Rescaled(Clamp(last.difficulty), Elapsed(last.time - first.time)))

\* ExpectedDifficulty of the block after c.  A block's index is its position,
\* so the index of the next block is Len(c).
Expected(c) ==
  IF c = << >> THEN InitialDifficulty
  ELSE LET last == c[Len(c)]
       IN  IF Len(c) % Window # 0 \/ Len(c) < Window THEN Clamp(last.difficulty)
           ELSE NewDifficulty(last, c[Len(c) - Window + 1])

(***************************************************************************)
(* Verification                                                             *)
(***************************************************************************)
\* Mutant: a block must repeat the difficulty of the block before it.
AcceptsUnchanged(c, b) == Clamp(b.difficulty) = Clamp(c[Len(c)].difficulty)

\* verifyBlockAgainstSnapshot, difficulty only, for a snapshot with chain c.
Accepts(c, b) == Clamp(b.difficulty) = Expected(c)

\* rebuildStateFromChain: the snapshots it verifies against hold no chain.
Rebuilds(c) == \A i \in 1 .. Len(c) : Clamp(c[i].difficulty) = Expected(<< >>)

Prefix(c, n) == SubSeq(c, 1, n)

(***************************************************************************)
(* Blocks entering the chain                                                *)
(***************************************************************************)
Room == Len(chain) < MaxLen

\* MineBlock: CreateBlockTemplate declares what the schedule asks for.
Mine ==
  /\ Room
  /\ \E time \in Times :
       chain' = Append(chain, [difficulty |-> Expected(chain), time |-> time])
  /\ UNCHANGED installed

\* A block from outside on our tip, which AddBlock appends or refuses.
Gossip ==
  /\ \E b \in [difficulty : Declared, time : Times] :
       IF Accepts(chain, b) THEN Room /\ chain' = Append(chain, b) ELSE UNCHANGED chain
  /\ UNCHANGED installed

\* ResolveFork with a sibling of the tip: the chain below the tip must rebuild,
\* and the candidate is verified on it.
Fork ==
  LET below == Prefix(chain, Len(chain) - 1)
  IN  /\ Len(chain) >= 2 /\ Rebuilds(below)
      /\ \E b \in [difficulty : Declared, time : Times] :
           b # chain[Len(chain)] /\ Accepts(below, b) /\ chain' = Append(below, b)
      /\ installed' = IF installed < Len(chain) THEN installed ELSE installed - 1

\* The peer's chain continues ours.
Continues(c) == Len(c) > Len(chain) /\ Prefix(c, Len(chain)) = chain

\* applySyncedBlocks, fast path: the next block of a chain that continues ours
\* is verified and appended.
FastSync ==
  /\ \E c \in Served :
       LET b == c[Len(chain) + 1]
       IN  Continues(c) /\ Accepts(chain, b) /\ chain' = Append(chain, b)
  /\ UNCHANGED installed

\* Mutant: the full chain is asked for from the second block on.
FullSyncFromOne ==
  \E c \in Served :
    /\ Len(c) > Len(chain) /\ ~Continues(c) /\ Rebuilds(c)
    /\ chain' = Tail(c) /\ installed' = Len(c) - 1

\* replaceChain: a longer chain that does not continue ours and rebuilds.
FullSync ==
  \E c \in Served :
    /\ Len(c) > Len(chain) /\ ~Continues(c) /\ Rebuilds(c)
    /\ chain' = c /\ installed' = Len(c)

Init == chain = <<Genesis>> /\ installed = 0

Next == Mine \/ Gossip \/ Fork \/ FastSync \/ FullSync

Spec == Init /\ [][Next]_vars

(***************************************************************************)
(* Properties                                                               *)
(***************************************************************************)
\* The chain is a sequence of blocks on the genesis block.
TypeOK ==
  /\ chain \in Seq(Block) /\ Len(chain) \in 1 .. MaxLen /\ chain[1] = Genesis
  /\ installed \in 0 .. Len(chain)

DifficultyAt(i) == Clamp(chain[i].difficulty)

\* A block that entered the chain by mining, gossip, a fork or a fast sync has the
\* difficulty that ExpectedDifficulty computes from the blocks below it.  Only the
\* blocks a full sync brought may have another: then they and all below them have
\* the initial difficulty, even where a retarget asks for more.
ScheduleFollowed ==
  \A i \in 2 .. Len(chain) :
    \/ DifficultyAt(i) = Expected(Prefix(chain, i - 1))
    \/ i <= installed /\ Rebuilds(Prefix(chain, i))

\* The difficulty changes only between two windows, and by no more than a factor
\* of four up, or down to a quarter, rounded: 5 may become 1 (CalculateNewDifficulty).
RetargetDamped ==
  \A i \in 1 .. Len(chain) - 1 :
    LET old == DifficultyAt(i)
        new == DifficultyAt(i + 1)
    IN  new # old => i % Window = 0 /\ new <= 4 * old /\ old <= 4 * new + 1

\* A retarget hits the nearest integer: unless the schedule's limits cut it, the
\* new difficulty times the window's (damped) duration differs from the old one
\* times the target by at most half that duration.
RetargetNearest ==
  \A i \in 1 .. Len(chain) - 1 :
    LET elapsed == Elapsed(chain[i].time - chain[i - Window + 1].time)
        error   == DifficultyAt(i + 1) * elapsed - DifficultyAt(i) * Target
    IN  i % Window = 0 /\ DifficultyAt(i + 1) \in 2 .. MaxPoWDifficulty - 1
          => 2 * error <= elapsed /\ -(2 * error) <= elapsed

\* A chain that was verified block by block also verifies when a node rebuilds
\* it, for a fork or a full sync.
RebuildFollowsSchedule == Rebuilds(chain)
=============================================================================
