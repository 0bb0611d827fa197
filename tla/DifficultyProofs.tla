-------------------------- MODULE DifficultyProofs --------------------------
(***************************************************************************)
(* The schedule's bounds, for every window, interval, limit and served      *)
(* chain.  First the arithmetic of one retarget; then the invariant that    *)
(* every block that no full sync brought has the difficulty computed from   *)
(* the blocks below it, from which the bounds on any two neighbouring       *)
(* blocks follow.                                                           *)
(***************************************************************************)
EXTENDS Difficulty, TLAPS

\* What integer division returns.
LEMMA Division ==
  ASSUME NEW x \in Nat, NEW a \in Nat \ {0}
  PROVE  /\ x \div a \in Nat
         /\ a * (x \div a) <= x
         /\ x < a * (x \div a) + a
  BY SMT

\* Products grow with a factor.
LEMMA Monotone ==
  ASSUME NEW a \in Nat, NEW x \in Int, NEW y \in Int, x <= y
  PROVE  a * x <= a * y
  BY SMT

\* BlockTimeTarget is positive, and a quarter of it is a whole number of seconds.
LEMMA TargetType == Target \in Nat \ {0} /\ Target % 4 = 0
  BY DifficultyAssumption DEF Target

\* A clamped difficulty is in the allowed range.
LEMMA ClampType ==
  ASSUME NEW d \in Nat
  PROVE  /\ Clamp(d) \in 1 .. MaxPoWDifficulty
         /\ Clamp(Clamp(d)) = Clamp(d)
  BY DifficultyAssumption DEF Clamp

\* The damped duration is within a factor of four of the target.
LEMMA ElapsedBounds ==
  ASSUME NEW actual \in Int
  PROVE  /\ Elapsed(actual) \in Nat \ {0}
         /\ Target <= 4 * Elapsed(actual) /\ Elapsed(actual) <= 4 * Target
  BY TargetType, SMT DEF Elapsed

\* A quotient of p + h is nearest to p when h is half the divisor.
LEMMA Rounding ==
  ASSUME NEW p \in Nat, NEW e \in Nat, NEW h \in Nat, NEW qe \in Int,
         2 * h <= e, e <= 2 * h + 1, qe <= p + h, p + h < qe + e
  PROVE  2 * (qe - p) <= e /\ 2 * (p - qe) < e
  OBVIOUS

\* CalculateNewDifficulty rounds to the nearest integer, halves up.
LEMMA RescaledNearest ==
  ASSUME NEW d \in Nat, NEW e \in Nat \ {0}
  PROVE  /\ Rescaled(d, e) \in Nat
         /\ 2 * (Rescaled(d, e) * e - d * Target) <= e
         /\ 2 * (d * Target - Rescaled(d, e) * e) < e
<1> DEFINE p == d * Target
           h == e \div 2
           q == Rescaled(d, e)
           qe == q * e
<1>1. p \in Nat
  BY TargetType, SMT
<1>2. h \in Nat /\ 2 * h <= e /\ e <= 2 * h + 1
  BY SMT
<1>3. q = (p + h) \div e
  BY DEF Rescaled
<1> HIDE DEF p, h, q
<1>4. q \in Nat /\ e * q <= p + h /\ p + h < e * q + e
  BY <1>1, <1>2, <1>3, Division
<1>5. qe = e * q /\ qe \in Int
  BY <1>4, SMT
<1> HIDE DEF qe
<1>6. 2 * (qe - p) <= e /\ 2 * (p - qe) < e
  BY <1>1, <1>2, <1>4, <1>5, Rounding
<1>7. QED
  BY <1>4, <1>6 DEF p, q, qe

\* A quotient q cannot pass four times d, nor d four times q and one more: the
\* products are named so that the rest is linear (dt = d * Target, de = d * e).
LEMMA FactorFour ==
  ASSUME NEW e \in Nat \ {0}, NEW qe \in Int, NEW dt \in Int, NEW de \in Int,
         2 * (qe - dt) <= e, 2 * (dt - qe) < e, dt <= 4 * de, de <= 4 * dt
  PROVE  qe < 4 * de + e /\ de < 4 * qe + 2 * e
  OBVIOUS

\* The quotient is at most four times the old difficulty, and at least a
\* quarter of it, rounded.
LEMMA RescaledDamped ==
  ASSUME NEW d \in Nat, NEW e \in Nat \ {0}, Target <= 4 * e, e <= 4 * Target
  PROVE  /\ Rescaled(d, e) <= 4 * d
         /\ d <= 4 * Rescaled(d, e) + 1
<1> DEFINE q == Rescaled(d, e)
           qe == q * e
           dt == d * Target
           de == d * e
<1>1. q \in Nat /\ 2 * (qe - dt) <= e /\ 2 * (dt - qe) < e
  BY RescaledNearest
<1> HIDE DEF q
<1>2. qe \in Int /\ dt \in Int /\ de \in Int
  BY <1>1, TargetType, SMT
<1>3. d * Target <= d * (4 * e) /\ d * e <= d * (4 * Target)
  BY TargetType, Monotone
<1>4. d * (4 * e) = 4 * de /\ d * (4 * Target) = 4 * dt
  BY TargetType, SMT
<1>5. dt <= 4 * de /\ de <= 4 * dt
  BY <1>3, <1>4
<1>6. /\ q > 4 * d => e * (4 * d + 1) <= e * q
      /\ d > 4 * q + 1 => e * (4 * q + 2) <= e * d
  BY <1>1, Monotone
<1>7. /\ e * q = qe /\ e * (4 * d + 1) = 4 * de + e
      /\ e * d = de /\ e * (4 * q + 2) = 4 * qe + 2 * e
  BY <1>1, SMT
<1> HIDE DEF qe, dt, de
<1>8. qe < 4 * de + e /\ de < 4 * qe + 2 * e
  BY <1>1, <1>2, <1>5, FactorFour
<1>9. q <= 4 * d /\ d <= 4 * q + 1
  BY <1>1, <1>2, <1>6, <1>7, <1>8
<1> QED
  BY <1>9 DEF q

(***************************************************************************)
(* The invariant                                                            *)
(***************************************************************************)
LEMMA NewDifficultyType ==
  ASSUME NEW last \in Block, NEW first \in Block
  PROVE  /\ NewDifficulty(last, first) \in 1 .. MaxPoWDifficulty
         /\ Clamp(NewDifficulty(last, first)) = NewDifficulty(last, first)
<1> DEFINE d == Clamp(last.difficulty)
           e == Elapsed(last.time - first.time)
<1>1. last.difficulty \in Nat /\ last.time \in Int /\ first.time \in Int
  BY DifficultyAssumption DEF Block
<1>2. d \in Nat
  BY <1>1, ClampType
<1>3. e \in Nat \ {0}
  BY <1>1, ElapsedBounds
<1> HIDE DEF d, e
<1>4. Rescaled(d, e) \in Nat
  BY <1>2, <1>3, RescaledNearest
<1>5. NewDifficulty(last, first) = Clamp(Rescaled(d, e))
  BY DEF NewDifficulty, d, e
<1> QED
  BY <1>4, <1>5, ClampType

\* So is the one a block is expected to have.
LEMMA ExpectedType ==
  ASSUME NEW c \in Seq(Block)
  PROVE  Expected(c) \in 1 .. MaxPoWDifficulty /\ Clamp(Expected(c)) = Expected(c)
<1>1. CASE c = << >>
  BY <1>1, DifficultyAssumption DEF Expected, Clamp
<1>2. CASE c # << >>
  <2> DEFINE last  == c[Len(c)]
             first == c[Len(c) - Window + 1]
  <2>1. last \in Block /\ Len(c) \in Nat \ {0}
    BY <1>2
  <2>2. Clamp(last.difficulty) \in 1 .. MaxPoWDifficulty
        /\ Clamp(Clamp(last.difficulty)) = Clamp(last.difficulty)
    BY <2>1, ClampType DEF Block
  <2>3. CASE Len(c) % Window # 0 \/ Len(c) < Window
    BY <1>2, <2>2, <2>3 DEF Expected
  <2>4. CASE ~(Len(c) % Window # 0 \/ Len(c) < Window)
    <3>1. first \in Block
      BY <2>1, <2>4, DifficultyAssumption
    <3>4. NewDifficulty(last, first) \in 1 .. MaxPoWDifficulty
          /\ Clamp(NewDifficulty(last, first)) = NewDifficulty(last, first)
      BY <2>1, <3>1, NewDifficultyType
    <3>5. QED
      BY <1>2, <2>4, <3>4 DEF Expected
  <2>5. QED
    BY <2>3, <2>4
<1>3. QED
  BY <1>1, <1>2

\* Block i of c has the difficulty computed from the blocks below it.
OnSchedule(c, i) == Clamp(c[i].difficulty) = Expected(Prefix(c, i - 1))

\* The chain c follows the schedule, leaving aside the first n blocks, which may all
\* declare the initial difficulty.
Follows(c, n) == \A i \in 2 .. Len(c) : OnSchedule(c, i) \/ (i <= n /\ Rebuilds(Prefix(c, i)))

\* c is what TypeOK allows the chain to be.
ChainOK(c) == c \in Seq(Block) /\ Len(c) \in 1 .. MaxLen /\ c[1] = Genesis

IInv == ChainOK(chain) /\ installed \in 0 .. Len(chain) /\ Follows(chain, installed)

\* The part of a chain below one of its blocks.
LEMMA PrefixFields ==
  ASSUME NEW c \in Seq(Block), NEW n \in 0 .. Len(c)
  PROVE  /\ Prefix(c, n) \in Seq(Block) /\ Len(Prefix(c, n)) = n
         /\ \A i \in 1 .. n : Prefix(c, n)[i] = c[i]
         /\ \A k \in 0 .. n : Prefix(Prefix(c, n), k) = Prefix(c, k)
  BY DEF Prefix

\* A block accepted on c keeps the chain on schedule.
LEMMA FollowsAppend ==
  ASSUME NEW c, ChainOK(c), NEW n \in 0 .. Len(c), Follows(c, n), Len(c) < MaxLen,
         NEW b \in Block, Accepts(c, b)
  PROVE  ChainOK(Append(c, b)) /\ Follows(Append(c, b), n) /\ n \in 0 .. Len(Append(c, b))
<1> DEFINE d == Append(c, b)
<1>1. /\ c \in Seq(Block) /\ Len(c) \in Nat \ {0} /\ d \in Seq(Block)
      /\ Len(d) = Len(c) + 1 /\ d[Len(d)] = b
      /\ \A i \in 1 .. Len(c) : d[i] = c[i]
  BY DEF ChainOK
<1>2. ChainOK(d)
  BY <1>1, DifficultyAssumption DEF ChainOK
<1>3. \A k \in 1 .. Len(c) : Prefix(d, k) = Prefix(c, k)
  BY <1>1 DEF Prefix
<1>4. Prefix(c, Len(c)) = c
  BY <1>1 DEF Prefix
<1>5. ASSUME NEW i \in 2 .. Len(d)
      PROVE  OnSchedule(d, i) \/ (i <= n /\ Rebuilds(Prefix(d, i)))
  <2>1. i - 1 \in 1 .. Len(c) /\ Prefix(d, i - 1) = Prefix(c, i - 1)
    BY <1>1, <1>3
  <2>2. CASE i = Len(d)
    BY <1>1, <1>4, <2>1, <2>2 DEF Accepts, OnSchedule
  <2>3. CASE i # Len(d)
    <3>1. i \in 2 .. Len(c) /\ i \in 1 .. Len(c) /\ d[i] = c[i]
      BY <1>1, <2>3
    <3>2. QED
      BY <1>3, <2>1, <3>1 DEF Follows, OnSchedule
  <2>4. QED
    BY <2>2, <2>3
<1>6. n \in 0 .. Len(d)
  BY <1>1
<1> HIDE DEF d
<1>7. QED
  BY <1>2, <1>5, <1>6 DEF Follows, d

\* So is a chain without its last block.
LEMMA FollowsBelow ==
  ASSUME NEW c, ChainOK(c), Len(c) >= 2, NEW n \in 0 .. Len(c), Follows(c, n)
  PROVE  LET below == Prefix(c, Len(c) - 1)
             left  == IF n < Len(c) THEN n ELSE n - 1
         IN  /\ ChainOK(below) /\ Len(below) = Len(c) - 1
             /\ left \in 0 .. Len(below) /\ Follows(below, left)
<1> DEFINE N == Len(c) - 1
           below == Prefix(c, N)
           left  == IF n < Len(c) THEN n ELSE n - 1
<1>1. c \in Seq(Block) /\ Len(c) \in Nat /\ N \in 0 .. Len(c) /\ N \in Nat \ {0}
  <2>1. c \in Seq(Block)
    BY DEF ChainOK
  <2>2. Len(c) \in Nat
    BY <2>1
  <2>3. Len(c) - 1 \in 0 .. Len(c) /\ Len(c) - 1 \in Nat \ {0}
    BY <2>2
  <2>4. QED
    BY <2>1, <2>2, <2>3
<1>2. left \in 0 .. N /\ \A i \in 1 .. N : i <= n => i <= left
  BY <1>1
<1>3. /\ below \in Seq(Block) /\ Len(below) = N
      /\ \A i \in 1 .. N : below[i] = c[i]
      /\ \A k \in 0 .. N : Prefix(below, k) = Prefix(c, k)
  <2> HIDE DEF N
  <2>1. QED
    BY <1>1, PrefixFields
<1>4. ChainOK(below)
  <2>1. below[1] = Genesis /\ N \in 1 .. MaxLen
    BY <1>1, <1>3, DifficultyAssumption DEF ChainOK
  <2>2. QED
    BY <1>3, <2>1 DEF ChainOK
<1>5. ASSUME NEW i \in 2 .. N
      PROVE  OnSchedule(below, i) \/ (i <= left /\ Rebuilds(Prefix(below, i)))
  <2>1. /\ i \in 2 .. Len(c) /\ i \in 1 .. N /\ i \in 0 .. N /\ i - 1 \in 0 .. N
    BY <1>1
  <2> HIDE DEF below, left, N
  <2>2. OnSchedule(c, i) \/ (i <= n /\ Rebuilds(Prefix(c, i)))
    BY <2>1 DEF Follows
  <2>3. QED
    BY <1>2, <1>3, <2>1, <2>2 DEF OnSchedule
<1> HIDE DEF below, left
<1>6. Follows(below, left)
  BY <1>3, <1>5 DEF Follows
<1>7. QED
  BY <1>2, <1>3, <1>4, <1>6 DEF below, left

\* A chain that rebuilds follows the schedule as far as full syncs are asked to.
LEMMA RebuiltFollows ==
  ASSUME NEW c \in Seq(Block), Rebuilds(c)
  PROVE  Follows(c, Len(c))
<1>1. ASSUME NEW i \in 2 .. Len(c)
      PROVE  i <= Len(c) /\ Rebuilds(Prefix(c, i))
  <2>1. i \in 0 .. Len(c) /\ 1 .. i \subseteq 1 .. Len(c)
    OBVIOUS
  <2>2. Len(Prefix(c, i)) = i /\ \A k \in 1 .. i : Prefix(c, i)[k] = c[k]
    BY <2>1, PrefixFields
  <2>3. QED
    BY <2>1, <2>2 DEF Rebuilds
<1> QED
  BY <1>1 DEF Follows

\* The genesis block follows the schedule.
LEMMA InitOK == Init => IInv
<1> SUFFICES ASSUME Init PROVE IInv
  OBVIOUS
<1>1. <<Genesis>> \in Seq(Block) /\ Len(<<Genesis>>) = 1 /\ <<Genesis>>[1] = Genesis
  BY GenesisAssumption
<1>2. chain = <<Genesis>> /\ installed = 0
  BY DEF Init
<1> QED
  BY <1>1, <1>2, DifficultyAssumption DEF IInv, ChainOK, Follows

\* A block from outside is typed.
LEMMA OfferedType == [difficulty : Declared, time : Times] \subseteq Block
  BY DifficultyAssumption DEF Block

\* Every way a block enters the chain keeps it on schedule.
LEMMA NextOK == IInv /\ [Next]_vars => IInv'
<1> SUFFICES ASSUME IInv, [Next]_vars PROVE IInv'
  OBVIOUS
<1>1. /\ ChainOK(chain) /\ Follows(chain, installed) /\ installed \in 0 .. Len(chain)
      /\ chain \in Seq(Block) /\ Len(chain) \in Nat \ {0}
  BY DEF IInv, ChainOK
<1>2. ASSUME NEW b \in Block, Accepts(chain, b), Len(chain) < MaxLen,
             chain' = Append(chain, b), UNCHANGED installed
      PROVE  IInv'
  BY <1>1, <1>2, FollowsAppend DEF IInv
<1>3. CASE Mine
  <2>1. PICK time \in Times :
          chain' = Append(chain, [difficulty |-> Expected(chain), time |-> time])
    BY <1>3 DEF Mine
  <2> DEFINE b == [difficulty |-> Expected(chain), time |-> time]
  <2>2. Expected(chain) \in Nat /\ Clamp(Expected(chain)) = Expected(chain)
    BY <1>1, ExpectedType, DifficultyAssumption
  <2>3. b \in Block /\ Accepts(chain, b)
    BY <2>2 DEF Block, Accepts
  <2> HIDE DEF b
  <2>4. QED
    BY <1>2, <1>3, <2>1, <2>3 DEF Mine, Room, b
<1>4. CASE Gossip
  <2>1. PICK b \in [difficulty : Declared, time : Times] :
          IF Accepts(chain, b) THEN Room /\ chain' = Append(chain, b) ELSE UNCHANGED chain
    BY <1>4 DEF Gossip
  <2>2. CASE Accepts(chain, b)
    BY <1>2, <1>4, <2>1, <2>2, OfferedType DEF Gossip, Room
  <2>3. CASE ~Accepts(chain, b)
    BY <1>1, <1>4, <2>1, <2>3 DEF Gossip, IInv
  <2>4. QED
    BY <2>2, <2>3
<1>5. CASE Fork
  <2> DEFINE below == Prefix(chain, Len(chain) - 1)
             left == IF installed < Len(chain) THEN installed ELSE installed - 1
  <2>1. PICK b \in [difficulty : Declared, time : Times] :
          Accepts(below, b) /\ chain' = Append(below, b)
    BY <1>5 DEF Fork
  <2>2. Len(chain) >= 2 /\ installed' = left
    BY <1>5 DEF Fork
  <2>3. /\ ChainOK(below) /\ Len(below) = Len(chain) - 1
        /\ left \in 0 .. Len(below) /\ Follows(below, left)
    BY <1>1, <2>2, FollowsBelow
  <2>4. b \in Block
    BY OfferedType
  <2>5. Len(chain) <= MaxLen
    BY <1>1 DEF ChainOK
  <2> HIDE DEF below, left
  <2>6. Len(below) < MaxLen
    BY <1>1, <2>3, <2>5, DifficultyAssumption
  <2>7. ChainOK(Append(below, b)) /\ Follows(Append(below, b), left)
          /\ left \in 0 .. Len(Append(below, b))
    BY <2>1, <2>3, <2>4, <2>6, FollowsAppend
  <2>8. QED
    BY <2>1, <2>2, <2>7 DEF IInv
<1>6. CASE FastSync
  <2>1. PICK c \in Served : /\ Continues(c) /\ Accepts(chain, c[Len(chain) + 1])
                            /\ chain' = Append(chain, c[Len(chain) + 1])
    BY <1>6 DEF FastSync
  <2>2. c[Len(chain) + 1] \in Block /\ Len(chain) < MaxLen
    BY <1>1, <2>1, ServedAssumption, DifficultyAssumption DEF Continues
  <2>3. QED
    BY <1>2, <1>6, <2>1, <2>2 DEF FastSync
<1>7. CASE FullSync
  <2>1. PICK c \in Served : Rebuilds(c) /\ chain' = c /\ installed' = Len(c)
    BY <1>7 DEF FullSync
  <2>2. c \in Seq(Block) /\ ChainOK(c) /\ Len(c) \in 0 .. Len(c)
    BY ServedAssumption, DifficultyAssumption DEF ChainOK
  <2>3. QED
    BY <2>1, <2>2, RebuiltFollows DEF IInv
<1>8. CASE UNCHANGED vars
  BY <1>8 DEF IInv, vars
<1> QED
  BY <1>3, <1>4, <1>5, <1>6, <1>7, <1>8 DEF Next

\* Every step keeps the inductive invariant.
LEMMA Inductive == Spec => []IInv
  BY InitOK, NextOK, PTL DEF Spec

\* The chain keeps its type and its genesis block (TypeOK).
THEOREM TypeCorrect == Spec => []TypeOK
<1>1. IInv => TypeOK
  BY DEF IInv, ChainOK, TypeOK
<1> QED
  BY <1>1, Inductive, PTL

\* However the chain grows, a block that no full sync brought follows the schedule,
\* and the others declare the initial difficulty (ScheduleFollowed).
THEOREM ScheduleAlwaysFollowed == Spec => []ScheduleFollowed
<1>1. IInv => ScheduleFollowed
  BY DEF IInv, Follows, OnSchedule, ScheduleFollowed, DifficultyAt
<1> QED
  BY <1>1, Inductive, PTL

(***************************************************************************)
(* Neighbouring blocks                                                      *)
(***************************************************************************)
\* The difficulty of a block is that of the block below it or, at the start of
\* a window, what the window's first and last block make of it.
LEMMA Neighbours ==
  ASSUME IInv, NEW i \in 1 .. Len(chain) - 1
  PROVE  LET last  == chain[i]
             first == chain[i - Window + 1]
         IN  /\ last \in Block /\ DifficultyAt(i) = Clamp(last.difficulty)
             /\ \/ /\ DifficultyAt(i + 1) = DifficultyAt(i)
                   /\ i % Window # 0 \/ DifficultyAt(i + 1) = 1
                \/ /\ i % Window = 0 /\ first \in Block
                   /\ DifficultyAt(i + 1) = NewDifficulty(last, first)
<1> DEFINE below == Prefix(chain, i)
<1>1. /\ chain \in Seq(Block) /\ Len(chain) \in Nat /\ i \in Nat \ {0}
      /\ i \in 0 .. Len(chain) /\ i + 1 \in 2 .. Len(chain) /\ (i + 1) - 1 = i
  BY DEF IInv, ChainOK
<1>2. Len(below) = i /\ below # << >> /\ \A k \in 1 .. i : below[k] = chain[k]
  <2>1. Len(below) = i /\ \A k \in 1 .. i : below[k] = chain[k]
    BY <1>1, PrefixFields
  <2>2. QED
    BY <1>1, <2>1
<1>3. chain[i] \in Block /\ below[i] = chain[i]
  BY <1>1, <1>2
<1>4. OnSchedule(chain, i + 1) \/ Rebuilds(Prefix(chain, i + 1))
  BY <1>1 DEF IInv, Follows
<1>5. CASE Rebuilds(Prefix(chain, i + 1))
  <2>1. /\ Len(Prefix(chain, i + 1)) = i + 1
        /\ \A k \in 1 .. i + 1 : Prefix(chain, i + 1)[k] = chain[k]
    BY <1>1, PrefixFields
  <2>2. Clamp(chain[i].difficulty) = 1 /\ Clamp(chain[i + 1].difficulty) = 1
    BY <1>1, <1>5, <2>1, DifficultyAssumption DEF Rebuilds, Expected
  <2>3. QED
    BY <1>3, <2>2 DEF DifficultyAt
<1>6. CASE OnSchedule(chain, i + 1)
  <2>1. DifficultyAt(i) = Clamp(chain[i].difficulty) /\ DifficultyAt(i + 1) = Expected(below)
    BY <1>1, <1>6 DEF DifficultyAt, OnSchedule
  <2>2. CASE i % Window # 0
    <3>1. Expected(below) = Clamp(chain[i].difficulty)
      BY <1>2, <1>3, <2>2 DEF Expected
    <3>2. QED
      BY <1>3, <2>1, <2>2, <3>1
  <2>3. CASE i % Window = 0
    <3>1. i >= Window /\ i - Window + 1 \in 1 .. i
      BY <1>1, <2>3, DifficultyAssumption
    <3>2. chain[i - Window + 1] \in Block /\ below[i - Window + 1] = chain[i - Window + 1]
      BY <1>1, <1>2, <3>1
    <3>3. Expected(below) = NewDifficulty(chain[i], chain[i - Window + 1])
      BY <1>2, <1>3, <2>3, <3>1, <3>2, DifficultyAssumption DEF Expected
    <3>4. QED
      BY <1>3, <2>1, <2>3, <3>2, <3>3
  <2>4. QED
    BY <2>2, <2>3
<1>7. QED
  BY <1>4, <1>5, <1>6

\* A clamped retarget of d keeps the damping bounds and, inside the limits, the
\* rounding.
LEMMA Retarget ==
  ASSUME NEW last \in Block, NEW first \in Block
  PROVE  LET old == Clamp(last.difficulty)
             new == NewDifficulty(last, first)
             elapsed == Elapsed(last.time - first.time)
             error == new * elapsed - old * Target
         IN  /\ new <= 4 * old /\ old <= 4 * new + 1
             /\ new \in 2 .. MaxPoWDifficulty - 1
                   => 2 * error <= elapsed /\ -(2 * error) <= elapsed
<1> DEFINE old == Clamp(last.difficulty)
           e == Elapsed(last.time - first.time)
           q == Rescaled(old, e)
           new == NewDifficulty(last, first)
<1>1. last.difficulty \in Nat /\ last.time \in Int /\ first.time \in Int
  BY DifficultyAssumption DEF Block
<1>2. old \in 1 .. MaxPoWDifficulty
  BY <1>1, ClampType
<1>3. e \in Nat \ {0} /\ Target <= 4 * e /\ e <= 4 * Target
  BY <1>1, ElapsedBounds
<1>4. new = Clamp(q)
  BY DEF NewDifficulty
<1> HIDE DEF old, e, new
<1>5. q \in Nat /\ q <= 4 * old /\ old <= 4 * q + 1
  BY <1>2, <1>3, RescaledNearest, RescaledDamped
<1>6. 2 * (q * e - old * Target) <= e /\ 2 * (old * Target - q * e) < e
  BY <1>2, <1>3, RescaledNearest
<1> HIDE DEF q
<1>7. new <= 4 * old /\ old <= 4 * new + 1
  BY <1>2, <1>4, <1>5, DifficultyAssumption DEF Clamp
<1>8. ASSUME new \in 2 .. MaxPoWDifficulty - 1
      PROVE  2 * (new * e - old * Target) <= e /\ -(2 * (new * e - old * Target)) <= e
  <2>1. new = q
    BY <1>4, <1>5, <1>8, DifficultyAssumption DEF Clamp
  <2>2. q * e \in Int /\ old * Target \in Int
    BY <1>2, <1>3, <1>5, TargetType, SMT
  <2>3. QED
    BY <1>3, <1>6, <2>1, <2>2
<1>9. QED
  BY <1>7, <1>8 DEF old, e, new

\* The difficulty changes between windows only, within a factor of four
\* (RetargetDamped).
THEOREM AlwaysDamped == Spec => []RetargetDamped
<1>1. ASSUME IInv, NEW i \in 1 .. Len(chain) - 1, DifficultyAt(i + 1) # DifficultyAt(i)
      PROVE  /\ i % Window = 0
             /\ DifficultyAt(i + 1) <= 4 * DifficultyAt(i)
             /\ DifficultyAt(i) <= 4 * DifficultyAt(i + 1) + 1
  <2> DEFINE last  == chain[i]
             first == chain[i - Window + 1]
  <2>1. /\ last \in Block /\ DifficultyAt(i) = Clamp(last.difficulty)
        /\ i % Window = 0
        /\ first \in Block /\ DifficultyAt(i + 1) = NewDifficulty(last, first)
    BY <1>1, Neighbours
  <2> HIDE DEF last, first
  <2>2. QED
    BY <2>1, Retarget
<1>2. IInv => RetargetDamped
  BY <1>1 DEF RetargetDamped
<1> QED
  BY <1>2, Inductive, PTL

\* A retarget is the nearest integer to the exact quotient (RetargetNearest).
THEOREM AlwaysNearest == Spec => []RetargetNearest
<1>1. ASSUME IInv, NEW i \in 1 .. Len(chain) - 1, i % Window = 0,
             DifficultyAt(i + 1) \in 2 .. MaxPoWDifficulty - 1
      PROVE  LET elapsed == Elapsed(chain[i].time - chain[i - Window + 1].time)
                 error == DifficultyAt(i + 1) * elapsed - DifficultyAt(i) * Target
             IN  2 * error <= elapsed /\ -(2 * error) <= elapsed
  <2> DEFINE last  == chain[i]
             first == chain[i - Window + 1]
  <2>1. /\ last \in Block /\ DifficultyAt(i) = Clamp(last.difficulty)
        /\ first \in Block /\ DifficultyAt(i + 1) = NewDifficulty(last, first)
    BY <1>1, Neighbours
  <2>2. LET e == Elapsed(last.time - first.time)
            error == DifficultyAt(i + 1) * e - DifficultyAt(i) * Target
        IN  2 * error <= e /\ -(2 * error) <= e
    <3> HIDE DEF last, first
    <3>1. QED
      BY <1>1, <2>1, Retarget
  <2>3. QED
    BY <2>2
<1>2. IInv => RetargetNearest
  BY <1>1 DEF RetargetNearest
<1> QED
  BY <1>2, Inductive, PTL

\* The documented limit of a quarter per retarget is not kept: after a window of
\* four times the target or more, rounding takes a difficulty of 5 to 1.
THEOREM QuarterUndercut ==
  ASSUME MaxPoWDifficulty >= 5, NEW last \in Block, NEW first \in Block,
         last.difficulty = 5, last.time - first.time >= 4 * Target
  PROVE  NewDifficulty(last, first) = 1
<1> DEFINE e == Elapsed(last.time - first.time)
<1>1. Clamp(5) = 5 /\ Clamp(1) = 1
  BY DifficultyAssumption DEF Clamp
<1>2. last.time - first.time \in Int
  <2>1. last.time \in Int /\ first.time \in Int
    BY DifficultyAssumption DEF Block
  <2>2. QED
    BY <2>1
<1>3. e = 4 * Target
  BY <1>2, TargetType DEF Elapsed
<1>4. Rescaled(5, 4 * Target) = 1
  <2>1. \A t \in Nat \ {0} : (5 * t + (4 * t) \div 2) \div (4 * t) = 1
    <3>1. \A t \in Nat \ {0} : (4 * t) \div 2 = 2 * t
      BY SMT
    <3>2. ASSUME NEW t \in Nat \ {0} PROVE (7 * t) \div (4 * t) = 1
      <4> DEFINE n == 7 * t
                 a == 4 * t
                 q == n \div a
      <4>1. n \in Nat /\ a \in Nat \ {0} /\ a <= n /\ n < 2 * a
        BY SMT
      <4> HIDE DEF n, a
      <4>2. q \in Nat /\ a * q <= n /\ n < a * q + a
        BY <4>1, Division
      <4> HIDE DEF q
      <4>3. q <= 0 => a * q <= a * 0
        BY <4>1, <4>2, Monotone
      <4>4. q >= 2 => a * 2 <= a * q
        BY <4>1, <4>2, Monotone
      <4>5. a * 0 = 0 /\ a * 2 = 2 * a /\ a * q \in Int
        BY <4>1, <4>2, SMT
      <4>6. q = 1
        <5> DEFINE aq == a * q
        <5> HIDE DEF aq
        <5>1. /\ aq \in Int /\ aq <= n /\ n < aq + a
              /\ (q <= 0 => aq <= 0) /\ (q >= 2 => 2 * a <= aq)
          BY <4>2, <4>3, <4>4, <4>5 DEF aq
        <5>2. QED
          BY <4>1, <4>2, <5>1
      <4>7. QED
        BY <4>6 DEF q, n, a
    <3>3. ASSUME NEW t \in Nat \ {0}
          PROVE  (5 * t + (4 * t) \div 2) \div (4 * t) = 1
      <4>1. 5 * t + (4 * t) \div 2 = 7 * t
        BY <3>1
      <4>2. QED
        BY <3>2, <4>1
    <3>4. QED
      BY <3>3
  <2>2. QED
    BY <2>1, TargetType DEF Rescaled
<1>5. QED
  BY <1>1, <1>3, <1>4 DEF NewDifficulty
=============================================================================
