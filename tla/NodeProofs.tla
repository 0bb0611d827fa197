----------------------------- MODULE NodeProofs -----------------------------
(***************************************************************************)
(* Theorems about Node for every value of its constants: any number of      *)
(* goroutines, blocks, peers, restarts and penalties.  The inductive        *)
(* invariant IInv says, beyond the types, that the chain and ledger in      *)
(* memory, on disk and in the hands of every goroutine that is about to     *)
(* install them are linked and sound.  The order of the pool and the        *)
(* refinement of ChainStore rest on it.                                     *)
(***************************************************************************)
EXTENDS Node, LedgerProofs, SequenceTheorems

(***************************************************************************)
(* Chains                                                                   *)
(***************************************************************************)
\* Appending a block that extends the tip keeps a chain linked.
LEMMA LinkedAppend ==
  ASSUME NEW c \in Seq(Block), Linked(c), NEW b \in Block, Extends(LastOf(c), b)
  PROVE  Append(c, b) \in Seq(Block) /\ Linked(Append(c, b))
<1> DEFINE d == Append(c, b)
           N == Len(c)
<1>1. /\ N \in Nat /\ N > 0 /\ d \in Seq(Block) /\ Len(d) = N+1
      /\ d[N+1] = b /\ \A i \in 1 .. N : d[i] = c[i]
  BY DEF Linked
<1>2. b.index = c[N].index + 1 /\ b.prev = c[N].hash
  BY DEF Extends, LastOf
<1>3. /\ \A i \in 1 .. N : c[i].index = i-1
      /\ \A i \in 2 .. N : c[i].prev = c[i-1].hash
  BY DEF Linked
<1> HIDE DEF d, N
<1>4. ASSUME NEW i \in 1 .. N+1  PROVE d[i].index = i-1
  <2>1. CASE i = N+1
    <3>1. c[N].index = N-1
      BY <1>1, <1>3
    <3>2. QED
      BY <1>1, <1>2, <2>1, <3>1
  <2>2. CASE i # N+1
    BY <1>1, <1>3, <2>2
  <2>3. QED
    BY <2>1, <2>2
<1>5. ASSUME NEW i \in 2 .. N+1  PROVE d[i].prev = d[i-1].hash
  <2>1. CASE i = N+1
    BY <1>1, <1>2, <2>1
  <2>2. CASE i # N+1
    <3>1. i \in 2 .. N /\ i \in 1 .. N /\ i-1 \in 1 .. N
      BY <1>1, <2>2
    <3>2. QED
      BY <1>1, <1>3, <3>1
  <2>3. QED
    BY <2>1, <2>2
<1> QED
  BY <1>1, <1>4, <1>5 DEF Linked, d

\* A nonempty prefix of a linked chain is linked.
LEMMA LinkedPrefix ==
  ASSUME NEW c \in Seq(Block), Linked(c), NEW n \in 1 .. Len(c)
  PROVE  LET p == SubSeq(c, 1, n)
         IN  p \in Seq(Block) /\ Len(p) = n /\ Linked(p)
<1> DEFINE p == SubSeq(c, 1, n)
<1>1. p \in Seq(Block) /\ Len(p) = n /\ \A i \in 1 .. n : p[i] = c[i]
  <2>1. n \in Int /\ \A i \in 1 .. n : c[i] \in Block
    OBVIOUS
  <2>2. /\ p \in Seq(Block)
        /\ Len(p) = IF 1 <= n THEN n-1+1 ELSE 0
        /\ \A i \in 1 .. n-1+1 : p[i] = c[1+i-1]
    BY <2>1, SubSeqProperties
  <2> HIDE DEF p
  <2>3. QED
    BY <2>2
<1> HIDE DEF p
<1>2. \A i \in 1 .. n : i \in 1 .. Len(c) /\ p[i].index = i-1
  BY <1>1 DEF Linked
<1>3. ASSUME NEW i \in 2 .. n  PROVE p[i].prev = p[i-1].hash
  <2>1. i \in 2 .. Len(c) /\ i \in 1 .. n /\ i-1 \in 1 .. n
    OBVIOUS
  <2>2. QED
    BY <1>1, <2>1 DEF Linked
<1> QED
  BY <1>1, <1>2, <1>3 DEF p, Linked

\* A chain that rebuilds from a block of index 0 is linked.
LEMMA RebuildLinked ==
  ASSUME NEW c \in Seq(Block), Len(c) > 0, c[1].index = 0, RebuildOK(c)
  PROVE  Linked(c)
<1> DEFINE N == Len(c)
           S == {i \in 0 .. N : i > 0 => c[i].index = i-1}
<1>1. N \in Nat /\ N > 0
  OBVIOUS
<1>2. \A i \in 2 .. N : c[i].index = c[i-1].index + 1 /\ c[i].prev = c[i-1].hash
  BY DEF RebuildOK, BlockOK, Extends
<1>3. 0 \in S
  BY <1>1
<1>4. ASSUME NEW n \in 0 .. N-1, n \in S  PROVE n+1 \in S
  <2>1. CASE n = 0
    BY <1>1, <2>1
  <2>2. CASE n > 0
    <3>1. n+1 \in 2 .. N /\ (n+1)-1 = n
      BY <1>1, <2>2
    <3>2. c[n+1].index = c[n].index + 1 /\ c[n].index = n-1
      BY <1>2, <1>4, <2>2, <3>1
    <3>3. QED
      BY <3>1, <3>2
  <2>3. QED
    BY <2>1, <2>2
<1>5. 0 .. N \subseteq S
  <2> HIDE DEF S, N
  <2>1. QED
    BY <1>1, <1>3, <1>4, UpToInduct
<1>6. ASSUME NEW i \in 1 .. N  PROVE c[i].index = i-1
  <2>1. i \in S
    BY <1>5
  <2>2. QED
    BY <2>1
<1> QED
  BY <1>1, <1>2, <1>6 DEF Linked

\* Voting changes neither what a block says nor what verification asks of it.
LEMMA VotedBlock ==
  ASSUME NEW b \in Block, NEW ok \in BOOLEAN
  PROVE  /\ Voted(b, ok) \in Block
         /\ Voted(b, ok).index = b.index
         /\ \A led, last : /\ BlockOK(led, last, Voted(b, ok)) <=> BlockOK(led, last, b)
                           /\ SendersExist(led, Voted(b, ok)) <=> SendersExist(led, b)
<1> DEFINE v == Voted(b, ok)
<1>1. Local \in Voter
  BY NodeAssumption
<1>2. /\ v \in Block /\ v.index = b.index /\ v.prev = b.prev
      /\ v.reward = b.reward /\ v.txs = b.txs
  BY <1>1 DEF Voted, MarkFinalized, Block
<1> HIDE DEF v
<1>3. ASSUME NEW led, NEW last
      PROVE  /\ BlockOK(led, last, v) <=> BlockOK(led, last, b)
             /\ SendersExist(led, v) <=> SendersExist(led, b)
  BY <1>2 DEF BlockOK, Extends, ContentOK, SendersExist
<1> QED
  BY <1>2, <1>3 DEF v

\* What a miner builds is a block.
LEMMA TemplateType ==
  ASSUME NEW last \in Block, NEW led \in LedgerType, NEW p \in Seq(Tx),
         NEW hash \in Hash
  PROVE  Template(last, led, p, Miner, hash) \in Block
<1> DEFINE due == BlockReward(last.index + 1)
           left == Cap - led.minted
           reward == IF due <= left THEN due ELSE IF left < 0 THEN 0 ELSE left
<1>1. last.index \in Nat /\ last.hash \in Hash /\ Miner \in Address
  BY NodeAssumption DEF Block
<1>2. due \in Nat
  <2>1. last.index + 1 \in Nat
    BY <1>1
  <2>2. QED
    BY <2>1, BlockRewardType
<1>3. left \in Int
  BY LedgerAssumption, LedgerFields
<1> HIDE DEF due, left
<1>4. reward \in Nat
  BY <1>2, <1>3
<1>5. Template(last, led, p, Miner, hash) =
        [hash |-> hash, prev |-> last.hash, index |-> last.index + 1,
         miner |-> Miner, founder |-> Miner, txs |-> p, votes |-> {}, final |-> FALSE,
         reward |-> reward]
  BY DEF Template, due, left
<1> HIDE DEF reward
<1> QED
  BY <1>1, <1>4, <1>5 DEF Block

\* Where a transaction is inserted, and what the pool is then.
LEMMA InsertedAt ==
  ASSUME NEW p \in Seq(Tx), NEW tx \in Tx
  PROVE  \E at \in 1 .. Len(p) + 1 :
           /\ at = Len(p) + 1 \/ Precedes(tx, p[at])
           /\ \A k \in 1 .. at - 1 : ~Precedes(tx, p[k])
           /\ Inserted(p, tx) \in Seq(Tx) /\ Len(Inserted(p, tx)) = Len(p) + 1
           /\ \A i \in 1 .. Len(p) + 1 :
                Inserted(p, tx)[i] = IF i < at THEN p[i] ELSE IF i = at THEN tx ELSE p[i-1]
<1> DEFINE fits == {i \in 1 .. Len(p) + 1 : i = Len(p) + 1 \/ Precedes(tx, p[i])}
           at == CHOOSE i \in 1 .. Len(p) + 1 :
                   /\ i = Len(p) + 1 \/ Precedes(tx, p[i])
                   /\ \A k \in 1 .. i - 1 : ~Precedes(tx, p[k])
           left  == SubSeq(p, 1, at - 1)
           right == SubSeq(p, at, Len(p))
<1>1. Len(p) \in Nat /\ \A i \in 1 .. Len(p) : p[i] \in Tx
  OBVIOUS
<1>2. PICK m \in fits : \A k \in fits : m <= k
  <2>1. fits \subseteq Nat /\ Len(p) + 1 \in fits
    BY <1>1
  <2> HIDE DEF fits
  <2>2. QED
    BY <2>1, LeastNat
<1>3. ASSUME NEW k \in 1 .. m - 1  PROVE ~Precedes(tx, p[k])
  <2>1. k \in 1 .. Len(p) + 1 /\ ~(m <= k)
    BY <1>1, <1>2
  <2>2. k \notin fits
    BY <1>2, <2>1
  <2>3. QED
    BY <2>1, <2>2
<1>4. /\ at \in 1 .. Len(p) + 1
      /\ at = Len(p) + 1 \/ Precedes(tx, p[at])
      /\ \A k \in 1 .. at - 1 : ~Precedes(tx, p[k])
  BY <1>2, <1>3
<1>5. Inserted(p, tx) = left \o <<tx>> \o right
  BY DEF Inserted
<1> HIDE DEF at
<1>6. /\ left \in Seq(Tx) /\ Len(left) = at - 1
      /\ \A i \in 1 .. at - 1 : left[i] = p[i]
  <2>1. 1 \in Int /\ at - 1 \in Int /\ \A i \in 1 .. at - 1 : p[i] \in Tx
    BY <1>1, <1>4
  <2>2. /\ left \in Seq(Tx)
        /\ Len(left) = IF 1 <= at - 1 THEN (at - 1) - 1 + 1 ELSE 0
        /\ \A i \in 1 .. (at - 1) - 1 + 1 : left[i] = p[1 + i - 1]
    BY <2>1, SubSeqProperties
  <2> HIDE DEF left
  <2>3. QED
    BY <1>4, <2>2
<1>7. /\ right \in Seq(Tx) /\ Len(right) = Len(p) - at + 1
      /\ \A i \in 1 .. Len(p) - at + 1 : right[i] = p[at + i - 1]
  <2>1. at \in Int /\ Len(p) \in Int /\ \A i \in at .. Len(p) : p[i] \in Tx
    BY <1>1, <1>4
  <2>2. /\ right \in Seq(Tx)
        /\ Len(right) = IF at <= Len(p) THEN Len(p) - at + 1 ELSE 0
        /\ \A i \in 1 .. Len(p) - at + 1 : right[i] = p[at + i - 1]
    BY <2>1, SubSeqProperties
  <2> HIDE DEF right
  <2>3. QED
    BY <1>1, <1>4, <2>2
<1> HIDE DEF left, right
<1> DEFINE one == <<tx>>
<1>8. one \in Seq(Tx) /\ Len(one) = 1 /\ one[1] = tx
  OBVIOUS
<1> HIDE DEF one
<1> DEFINE front == left \o one
<1>9. /\ front \in Seq(Tx) /\ Len(front) = at
      /\ \A i \in 1 .. at : front[i] = IF i < at THEN p[i] ELSE tx
  <2>0. /\ front \in Seq(Tx) /\ Len(front) = Len(left) + Len(one)
        /\ \A i \in 1 .. Len(left) + Len(one) :
             front[i] = IF i <= Len(left) THEN left[i] ELSE one[i - Len(left)]
    <3>1. left \in Seq(Tx) /\ one \in Seq(Tx)
      BY <1>6, <1>8
    <3>2. QED
      BY <3>1, ConcatProperties
  <2>1. /\ front \in Seq(Tx) /\ Len(front) = (at - 1) + 1
        /\ \A i \in 1 .. (at - 1) + 1 :
             front[i] = IF i <= at - 1 THEN left[i] ELSE one[i - (at - 1)]
    BY <1>6, <1>8, <2>0
  <2> HIDE DEF front
  <2>2. ASSUME NEW i \in 1 .. at  PROVE front[i] = IF i < at THEN p[i] ELSE tx
    <3>1. i \in 1 .. (at - 1) + 1 /\ (i < at => i \in 1 .. at - 1 /\ i <= at - 1)
          /\ (~(i < at) => i - (at - 1) = 1 /\ ~(i <= at - 1))
      BY <1>4
    <3>2. QED
      BY <1>6, <1>8, <2>1, <3>1
  <2>3. QED
    BY <1>4, <2>1, <2>2
<1> HIDE DEF front
<1> DEFINE whole == front \o right
<1>10. /\ whole \in Seq(Tx) /\ Len(whole) = at + (Len(p) - at + 1)
       /\ \A i \in 1 .. at + (Len(p) - at + 1) :
            whole[i] = IF i <= at THEN front[i] ELSE right[i - at]
  <2>1. /\ whole \in Seq(Tx) /\ Len(whole) = Len(front) + Len(right)
        /\ \A i \in 1 .. Len(front) + Len(right) :
             whole[i] = IF i <= Len(front) THEN front[i] ELSE right[i - Len(front)]
    <3>1. front \in Seq(Tx) /\ right \in Seq(Tx)
      BY <1>7, <1>9
    <3>2. QED
      BY <3>1, ConcatProperties
  <2> HIDE DEF whole
  <2>2. QED
    BY <1>7, <1>9, <2>1
<1>11. Inserted(p, tx) = whole
  BY <1>5 DEF front, one
<1> HIDE DEF whole
<1>12. ASSUME NEW i \in 1 .. Len(p) + 1
       PROVE  whole[i] = IF i < at THEN p[i] ELSE IF i = at THEN tx ELSE p[i-1]
  <2>1. /\ i \in 1 .. at + (Len(p) - at + 1)
        /\ i <= at => i \in 1 .. at
        /\ ~(i <= at) => /\ i - at \in 1 .. Len(p) - at + 1 /\ at + (i - at) - 1 = i - 1
                         /\ ~(i < at) /\ i # at
    BY <1>1, <1>4
  <2>2. CASE i <= at
    BY <1>4, <1>9, <1>10, <2>1, <2>2
  <2>3. CASE ~(i <= at)
    BY <1>7, <1>10, <2>1, <2>3
  <2>4. QED
    BY <2>2, <2>3
<1>13. at + (Len(p) - at + 1) = Len(p) + 1
  BY <1>1, <1>4
<1> QED
  BY <1>4, <1>10, <1>11, <1>12, <1>13

\* Inserting a transaction in a pool gives a pool, one longer.
LEMMA InsertedType ==
  ASSUME NEW p \in Seq(Tx), NEW tx \in Tx
  PROVE  Inserted(p, tx) \in Seq(Tx) /\ Len(Inserted(p, tx)) = Len(p) + 1
BY InsertedAt

(***************************************************************************)
(* The inductive invariant                                                  *)
(***************************************************************************)
\* What a goroutine may hold: base is a peer's chain while it is compared, and
\* rebuilt, linked and sound when it is about to be saved or installed.
JobOK(j) ==
  /\ j.pc = "rebuild" => j.block.index >= 1
  /\ j.pc = "sync" => j.queue # << >>
  /\ j.pc \in {"sync", "full"} => j.base \in PeerChains
  /\ j.pc \in {"forkblocks", "forkstate", "adopt", "replace"} =>
       RebuildOK(j.base) /\ Linked(j.base) /\ SoundLedger(Replay(j.base))

GoodJob == {j \in Job : JobOK(j)}

ChainInv  == chain \in Seq(Block) /\ Linked(chain)
LedgerInv == SoundLedger(ledger)
PoolInv   == pool \in Seq(Tx)
DiskInv   ==
  /\ disk \in [blocks : Seq(Block), ledger : LedgerType]
  /\ Linked(disk.blocks) /\ SoundLedger(disk.ledger)
IndexInv  == known \subseteq Hash /\ announced \subseteq Hash /\ indexed \in Nat
LockInv   == writer \in Thread \cup {NoThread} /\ readers \subseteq Thread
JobInv    == job \in [Thread -> GoodJob]
BoundInv  ==
  dials \in 0 .. PeerCount /\ mined \in 0 .. MaxMined /\ restarts \in 0 .. MaxRestarts

IInv ==
  /\ ChainInv /\ LedgerInv /\ PoolInv /\ DiskInv
  /\ IndexInv /\ LockInv /\ JobInv /\ BoundInv

\* A part of the invariant holds on when its variables are left alone.
LEMMA Frame ==
  /\ ChainInv /\ UNCHANGED chain => ChainInv'
  /\ LedgerInv /\ UNCHANGED ledger => LedgerInv'
  /\ PoolInv /\ UNCHANGED pool => PoolInv'
  /\ DiskInv /\ UNCHANGED disk => DiskInv'
  /\ IndexInv /\ UNCHANGED index => IndexInv'
  /\ LockInv /\ UNCHANGED lock => LockInv'
  /\ JobInv /\ UNCHANGED job => JobInv'
  /\ BoundInv /\ UNCHANGED bounds => BoundInv'
BY DEF ChainInv, LedgerInv, PoolInv, DiskInv, IndexInv, LockInv, JobInv, BoundInv,
       index, lock, bounds

\* A goroutine that moves on to a good job keeps the jobs good.
LEMMA GotoGood ==
  ASSUME JobInv, NEW t \in Thread, NEW j \in GoodJob, Goto(t, j)
  PROVE  JobInv'
BY DEF JobInv, Goto

\* An idle goroutine's local variables are good.
LEMMA IdleGood == Idle \in GoodJob
<1>1. Genesis \in Block
  BY NodeAssumption
<1>2. Idle \in Job
  BY <1>1 DEF Idle, Job, PC
<1>3. Idle.pc = "idle"
  BY DEF Idle
<1> QED
  BY <1>2, <1>3 DEF GoodJob, JobOK

\* The fields a goroutine's job is changed in.
LEMMA JobUpdate ==
  ASSUME NEW j \in Job, NEW pc \in PC, NEW b \in Block, NEW q \in Seq(Block),
         NEW c \in Seq(Block), NEW k \in Seq(Tx)
  PROVE  /\ [j EXCEPT !.pc = pc] \in Job
         /\ [j EXCEPT !.pc = pc, !.block = b] \in Job
         /\ [j EXCEPT !.pc = pc, !.kept = k] \in Job
         /\ [j EXCEPT !.pc = pc, !.block = b, !.queue = q] \in Job
         /\ [j EXCEPT !.pc = pc, !.block = b, !.base = c] \in Job
         /\ [j EXCEPT !.pc = pc, !.base = c, !.then = "append", !.queue = q] \in Job
BY DEF Job

\* Program counters at which a job's other fields do not matter to JobOK.
LEMMA PlainJob ==
  ASSUME NEW j \in Job,
         j.pc \notin {"rebuild", "sync", "full", "forkblocks", "forkstate", "adopt", "replace"}
  PROVE  j \in GoodJob
BY DEF GoodJob, JobOK

\* What a good job's fields are.
LEMMA JobFields ==
  ASSUME JobInv, NEW t \in Thread
  PROVE  /\ job[t] \in Job /\ JobOK(job[t])
         /\ job[t].pc \in PC /\ job[t].block \in Block
         /\ job[t].queue \in Seq(Block) /\ job[t].base \in Seq(Block)
         /\ job[t].kept \in Seq(Tx)
BY DEF JobInv, GoodJob, Job

\* A linked chain is not empty, and its tip is a block.
LEMMA ChainFields ==
  ASSUME ChainInv
  PROVE  Len(chain) \in Nat \ {0} /\ LastOf(chain) \in Block
BY DEF ChainInv, Linked, LastOf

Plain == PC \ {"rebuild", "sync", "full", "forkblocks", "forkstate", "adopt", "replace"}

\* A goroutine may move to a step that promises nothing about its rebuilt chain.
LEMMA MoveToPlain ==
  ASSUME JobInv, NEW t \in Thread, NEW pc \in Plain, MoveTo(t, pc)
  PROVE  JobInv'
<1> DEFINE j == [job[t] EXCEPT !.pc = pc]
<1>1. job[t] \in Job /\ pc \in PC
  BY JobFields DEF Plain
<1>2. j \in Job /\ j.pc = pc
  BY <1>1, JobUpdate DEF Job
<1>3. j \in GoodJob
  BY <1>2, PlainJob DEF Plain
<1>4. Goto(t, j)
  BY DEF MoveTo
<1> HIDE DEF j
<1> QED
  BY <1>3, <1>4, GotoGood

\* A goroutine that ends its operation leaves the other jobs good.
LEMMA StopGood ==
  ASSUME JobInv, NEW t \in Thread, Stop(t)
  PROVE  JobInv'
BY IdleGood, GotoGood DEF Stop

\* The same with another block in hand.
LEMMA MoveToPlainBlock ==
  ASSUME JobInv, NEW t \in Thread, NEW pc \in Plain, NEW b \in Block,
         NEW j \in Job, Goto(t, [j EXCEPT !.pc = pc, !.block = b])
  PROVE  JobInv'
<1> DEFINE k == [j EXCEPT !.pc = pc, !.block = b]
<1>1. pc \in PC
  BY DEF Plain
<1>2. k \in Job /\ k.pc = pc
  BY <1>1, JobUpdate DEF Job
<1>3. k \in GoodJob
  BY <1>2, PlainJob DEF Plain
<1> HIDE DEF k
<1> QED
  BY <1>3, GotoGood DEF k

\* Where AddBlock returns to is a good job.
LEMMA AfterAddGood ==
  ASSUME NEW j \in Job
  PROVE  AfterAdd(j) \in GoodJob
<1>1. CASE j.then = "announce"
  <2>1. AfterAdd(j) = [j EXCEPT !.pc = "announce"]
    BY <1>1 DEF AfterAdd
  <2>2. [j EXCEPT !.pc = "announce"] \in Job /\ [j EXCEPT !.pc = "announce"].pc = "announce"
    BY DEF Job, PC
  <2>3. QED
    BY <2>1, <2>2, PlainJob
<1>2. CASE j.then # "announce" /\ j.queue = << >>
  BY <1>2, IdleGood DEF AfterAdd
<1>3. CASE j.then # "announce" /\ j.queue # << >>
  <2> DEFINE k == [j EXCEPT !.pc = "vote", !.block = Head(j.queue), !.queue = Tail(j.queue)]
  <2>1. AfterAdd(j) = k
    BY <1>3 DEF AfterAdd
  <2>2. j.queue \in Seq(Block)
    BY DEF Job
  <2>3. Head(j.queue) \in Block /\ Tail(j.queue) \in Seq(Block)
    BY <1>3, <2>2, HeadTailProperties
  <2>4. k \in Job /\ k.pc = "vote"
    BY <2>3 DEF Job, PC
  <2>5. QED
    BY <2>1, <2>4, PlainJob
<1> QED
  BY <1>1, <1>2, <1>3

\* The files stay good when good parts are written.
LEMMA MakeDisk ==
  ASSUME NEW c \in Seq(Block), Linked(c), NEW led, SoundLedger(led),
         disk' = [blocks |-> c, ledger |-> led]
  PROVE  DiskInv'
<1>1. led \in LedgerType
  BY DEF SoundLedger
<1> QED
  BY <1>1 DEF DiskInv

\* Writing blocks.json, or state.json, with a linked chain or a sound ledger.
LEMMA DiskBlocks ==
  ASSUME DiskInv, NEW c \in Seq(Block), Linked(c), disk' = [disk EXCEPT !.blocks = c]
  PROVE  DiskInv'
<1>1. disk' = [blocks |-> c, ledger |-> disk.ledger] /\ SoundLedger(disk.ledger)
  BY DEF DiskInv
<1> QED
  BY <1>1, MakeDisk

\* The files stay good when state.json is replaced by a sound ledger.
LEMMA DiskLedger ==
  ASSUME DiskInv, NEW led, SoundLedger(led), disk' = [disk EXCEPT !.ledger = led]
  PROVE  DiskInv'
<1>1. disk' = [blocks |-> disk.blocks, ledger |-> led]
  BY DEF DiskInv
<1>2. disk.blocks \in Seq(Block) /\ Linked(disk.blocks)
  BY DEF DiskInv
<1> QED
  BY <1>1, <1>2, MakeDisk

\* Marking blocks final changes no index and no hash.
LEMMA MarkedLinked ==
  ASSUME NEW c \in Seq(Block), Linked(c), NEW U
  PROVE  LET m == [i \in 1 .. Len(c) |-> IF i \in U THEN [c[i] EXCEPT !.final = TRUE] ELSE c[i]]
         IN  m \in Seq(Block) /\ Linked(m)
<1> DEFINE m == [i \in 1 .. Len(c) |-> IF i \in U THEN [c[i] EXCEPT !.final = TRUE] ELSE c[i]]
<1>1. Len(c) \in Nat /\ \A i \in 1 .. Len(c) : c[i] \in Block
  OBVIOUS
<1>2. ASSUME NEW i \in 1 .. Len(c)
      PROVE  m[i] \in Block /\ m[i].index = c[i].index
                /\ m[i].hash = c[i].hash /\ m[i].prev = c[i].prev
  <2>1. /\ [c[i] EXCEPT !.final = TRUE] \in Block
        /\ [c[i] EXCEPT !.final = TRUE].index = c[i].index
        /\ [c[i] EXCEPT !.final = TRUE].hash = c[i].hash
        /\ [c[i] EXCEPT !.final = TRUE].prev = c[i].prev
    BY <1>1 DEF Block
  <2>2. m[i] = IF i \in U THEN [c[i] EXCEPT !.final = TRUE] ELSE c[i]
    OBVIOUS
  <2> HIDE DEF m
  <2>3. QED
    BY <1>1, <2>1, <2>2
<1>3. DOMAIN m = 1 .. Len(c) /\ m = [i \in 1 .. Len(c) |-> m[i]]
  OBVIOUS
<1> HIDE DEF m
<1>4. m \in [1 .. Len(c) -> Block]
  BY <1>2, <1>3
<1>5. m \in Seq(Block) /\ Len(m) = Len(c)
  BY <1>1, <1>4
<1>6. Linked(m)
  <2>1. \A i \in 2 .. Len(c) : i \in 1 .. Len(c) /\ i-1 \in 1 .. Len(c)
    BY <1>1
  <2>2. QED
    BY <1>2, <1>5, <2>1 DEF Linked
<1> QED
  BY <1>5, <1>6 DEF m

(***************************************************************************)
(* Each action keeps the invariant                                          *)
(***************************************************************************)
LEMMA InitInv == Init => IInv
<1> SUFFICES ASSUME Init PROVE IInv
  OBVIOUS
<1>1. Genesis \in Block /\ Genesis.index = 0 /\ Genesis.founder \in Address
  BY NodeAssumption, BlockFields
<1>2. chain = <<Genesis>> /\ ledger = GenesisLedger(Genesis.founder) /\ pool = << >>
      /\ disk = [blocks |-> chain, ledger |-> ledger]
  BY DEF Init
<1>3. ChainInv
  <2>1. /\ chain \in Seq(Block) /\ Len(chain) = 1 /\ chain[1] = Genesis
    BY <1>1, <1>2
  <2>2. QED
    BY <1>1, <2>1 DEF ChainInv, Linked
<1>4. LedgerInv
  BY <1>1, <1>2, GenesisSound DEF LedgerInv
<1>5. PoolInv
  BY <1>2 DEF PoolInv
<1>6. DiskInv
  BY <1>2, <1>3, <1>4 DEF ChainInv, LedgerInv, DiskInv, SoundLedger
<1>7. IndexInv
  <2>1. Genesis.hash \in Hash
    BY <1>1 DEF Block
  <2>2. known = {Genesis.hash} /\ announced = FinalHashes(chain) /\ indexed = 1
    BY DEF Init
  <2>3. FinalHashes(chain) \subseteq {Genesis.hash}
    BY <1>2 DEF FinalHashes
  <2>4. QED
    BY <2>1, <2>2, <2>3 DEF IndexInv
<1>8. LockInv
  BY DEF Init, LockInv
<1>9. JobInv
  BY IdleGood DEF Init, JobInv
<1>10. BoundInv
  BY NodeAssumption DEF Init, BoundInv
<1> QED
  BY <1>3, <1>4, <1>5, <1>6, <1>7, <1>8, <1>9, <1>10 DEF IInv

\* AddTxToMempool changes the pool only, and keeps it a sequence of
\* transactions.
LEMMA SubmitTxInv == ASSUME IInv, SubmitTx PROVE IInv'
<1>1. PICK tx \in Txs :
        LET p == Inserted(pool, tx)
        IN  pool' = IF Len(p) > MaxPool THEN SubSeq(p, 1, Len(p) - 1) ELSE p
  BY DEF SubmitTx
<1>2. tx \in Tx /\ pool \in Seq(Tx)
  BY NodeAssumption DEF IInv, PoolInv
<1> DEFINE p == Inserted(pool, tx)
<1>3. p \in Seq(Tx)
  BY <1>2, InsertedType
<1>4. pool' = IF Len(p) > MaxPool THEN SubSeq(p, 1, Len(p) - 1) ELSE p
  BY <1>1
<1> HIDE DEF p
<1>5. SubSeq(p, 1, Len(p) - 1) \in Seq(Tx)
  <2>1. 1 \in Int /\ Len(p) - 1 \in Int /\ \A i \in 1 .. Len(p) - 1 : p[i] \in Tx
    BY <1>3
  <2>2. QED
    BY <2>1, SubSeqProperties
<1>6. PoolInv'
  BY <1>3, <1>4, <1>5 DEF PoolInv
<1>7. ChainInv' /\ LedgerInv' /\ DiskInv' /\ IndexInv' /\ LockInv' /\ JobInv' /\ BoundInv'
  BY Frame DEF SubmitTx, IInv
<1> QED
  BY <1>6, <1>7 DEF IInv

\* The template is a block: its reward is natural because the supply is within
\* the cap.
LEMMA MineInv == ASSUME IInv, NEW t \in Thread, Mine(t) PROVE IInv'
<1>1. mined \in 0 .. MaxMined /\ mined' = mined + 1 /\ mined < MaxMined
  BY DEF Mine, IInv, BoundInv
<1>2. mined' \in 1 .. MaxMined
  BY <1>1, NodeAssumption
<1>3. BoundInv'
  BY <1>2 DEF Mine, IInv, BoundInv
<1> DEFINE b == Template(LastOf(chain), ledger, pool, Miner, LocalHash[mined'])
<1>4. LocalHash[mined'] \in Hash
  BY <1>2, NodeAssumption
<1>5. b \in Block
  BY <1>4, ChainFields, TemplateType DEF IInv, LedgerInv, SoundLedger, PoolInv
<1>6. Goto(t, [Idle EXCEPT !.pc = "vote", !.block = b])
  BY DEF Mine
<1> HIDE DEF b
<1>7. "vote" \in Plain /\ Idle \in Job
  BY IdleGood DEF Plain, PC, GoodJob
<1>8. JobInv'
  BY <1>5, <1>6, <1>7, MoveToPlainBlock DEF IInv
<1>9. ChainInv' /\ LedgerInv' /\ PoolInv' /\ DiskInv' /\ IndexInv' /\ LockInv'
  BY Frame DEF Mine, IInv, memory
<1> QED
  BY <1>3, <1>8, <1>9 DEF IInv

\* The vote changes the block's verifications only.
LEMMA VoteInv == ASSUME IInv, NEW t \in Thread, Vote(t) PROVE IInv'
<1> DEFINE ok == BlockOK(ledger, LastOf(chain), job[t].block)
           pc == IF ok THEN "commit" ELSE "slash"
           b  == Voted(job[t].block, ok)
<1>1. pc \in Plain
  BY DEF Plain, PC
<1>2. ok \in BOOLEAN
  BY DEF BlockOK, Extends, ContentOK
<1>3. Goto(t, [job[t] EXCEPT !.pc = pc, !.block = b])
  BY DEF Vote
<1> HIDE DEF ok, pc
<1>4. b \in Block /\ job[t] \in Job
  BY <1>2, VotedBlock, JobFields DEF IInv
<1> HIDE DEF b
<1>5. JobInv'
  BY <1>1, <1>3, <1>4, MoveToPlainBlock DEF IInv
<1>6. ChainInv' /\ LedgerInv' /\ PoolInv' /\ DiskInv' /\ IndexInv' /\ LockInv' /\ BoundInv'
  BY Frame DEF Vote, IInv, memory
<1> QED
  BY <1>5, <1>6 DEF IInv

\* The slash keeps balances and supply non-negative (PenaltySound).
LEMMA SlashInv == ASSUME IInv, NEW t \in Thread, Slash(t) PROVE IInv'
<1>1. job[t].block.miner \in Address /\ job[t].block.reward \in Int
  BY JobFields, BlockFields DEF IInv
<1>2. LedgerInv'
  BY <1>1, PenaltySound DEF Slash, IInv, LedgerInv, SoundLedger
<1>3. JobInv'
  BY StopGood DEF Slash, IInv
<1>4. ChainInv' /\ PoolInv' /\ DiskInv' /\ IndexInv' /\ LockInv' /\ BoundInv'
  BY Frame DEF Slash, IInv
<1> QED
  BY <1>2, <1>3, <1>4 DEF IInv

\* The block is verified again under the lock, so the new tip is linked and the
\* new ledger sound.
LEMMA CommitInv == ASSUME IInv, NEW t \in Thread, Commit(t) PROVE IInv'
<1> DEFINE b == job[t].block
<1>1. b \in Block
  BY JobFields DEF IInv
<1>2. CASE Recheck(b)
  <2>1. /\ ledger' = ApplyBlock(ledger, b) /\ chain' = Append(chain, b) /\ pool' = << >>
        /\ disk' = [disk EXCEPT !.blocks = chain'] /\ writer' = t /\ MoveTo(t, "save")
    BY <1>2 DEF Commit
  <2>2. Extends(LastOf(chain), b) /\ ContentOK(ledger, b)
    BY <1>2 DEF Recheck, Accepted, BlockOK
  <2> HIDE DEF b
  <2>3. LedgerInv'
    BY <1>1, <2>1, <2>2, ApplyBlockSound DEF IInv, LedgerInv
  <2>4. ChainInv'
    BY <1>1, <2>1, <2>2, LinkedAppend DEF IInv, ChainInv
  <2>5. DiskInv'
    <3>1. Append(chain, b) \in Seq(Block) /\ Linked(Append(chain, b))
      BY <1>1, <2>2, LinkedAppend DEF IInv, ChainInv
    <3>2. disk' = [disk EXCEPT !.blocks = Append(chain, b)]
      BY <2>1
    <3>3. QED
      BY <3>1, <3>2, DiskBlocks DEF IInv
  <2>6. PoolInv'
    BY <2>1 DEF PoolInv
  <2>7. LockInv'
    BY <2>1 DEF Commit, IInv, LockInv
  <2>8. JobInv'
    <3>1. "save" \in Plain
      BY DEF Plain, PC
    <3>2. QED
      BY <2>1, <3>1, MoveToPlain DEF IInv
  <2>9. IndexInv' /\ BoundInv'
    BY Frame DEF Commit, IInv
  <2>10. QED
    BY <2>3, <2>4, <2>5, <2>6, <2>7, <2>8, <2>9 DEF IInv
<1>3. CASE ~Recheck(b)
  <2>1. Stop(t) /\ UNCHANGED <<memory, disk, writer, readers, index, bounds>>
    BY <1>3 DEF Commit
  <2>2. JobInv'
    BY <2>1, StopGood DEF IInv
  <2>3. ChainInv' /\ LedgerInv' /\ PoolInv' /\ DiskInv' /\ IndexInv' /\ LockInv' /\ BoundInv'
    BY <2>1, Frame DEF IInv, memory, lock
  <2>4. QED
    BY <2>2, <2>3 DEF IInv
<1> QED
  BY <1>2, <1>3

\* state.json receives the ledger in memory, which is sound.
LEMMA SaveInv == ASSUME IInv, NEW t \in Thread, Save(t) PROVE IInv'
<1>1. DiskInv'
  BY DiskLedger DEF Save, IInv, LedgerInv
<1>2. JobInv'
  BY JobFields, AfterAddGood, GotoGood DEF Save, IInv
<1>3. LockInv'
  BY DEF Save, IInv, LockInv
<1>4. ChainInv' /\ LedgerInv' /\ PoolInv' /\ IndexInv' /\ BoundInv'
  BY Frame DEF Save, IInv, memory
<1> QED
  BY <1>1, <1>2, <1>3, <1>4 DEF IInv

\* Marking a block final keeps its hash and index, so the chain stays linked.
LEMMA ReceiveInv == ASSUME IInv, NEW t \in Thread, Receive(t) PROVE IInv'
<1>1. PICK b \in PeerBlocks :
        LET unmarked == {i \in 1 .. Len(chain) : chain[i].hash = b.hash /\ ~chain[i].final}
        IN  IF b.final /\ unmarked # {}
            THEN /\ chain' = [i \in 1 .. Len(chain) |->
                                IF i \in unmarked THEN [chain[i] EXCEPT !.final = TRUE]
                                ELSE chain[i]]
                 /\ disk' = [disk EXCEPT !.blocks = chain']
                 /\ writer' = t
                 /\ Goto(t, [Idle EXCEPT !.pc = "finalize", !.block = b])
            ELSE /\ Goto(t, [Idle EXCEPT !.pc = "gate", !.block = b])
                 /\ UNCHANGED <<chain, disk, writer>>
  BY DEF Receive
<1> DEFINE unmarked == {i \in 1 .. Len(chain) : chain[i].hash = b.hash /\ ~chain[i].final}
           marked == [i \in 1 .. Len(chain) |->
                        IF i \in unmarked THEN [chain[i] EXCEPT !.final = TRUE] ELSE chain[i]]
<1>2. b \in Block /\ Idle \in Job /\ "finalize" \in Plain /\ "gate" \in Plain
  BY NodeAssumption, IdleGood DEF GoodJob, Plain, PC
<1>3. /\ UNCHANGED <<ledger, pool>> /\ UNCHANGED index /\ UNCHANGED bounds
      /\ UNCHANGED readers
  BY DEF Receive
<1>4. LedgerInv' /\ PoolInv' /\ IndexInv' /\ BoundInv'
  BY <1>3, Frame DEF IInv
<1>5. marked \in Seq(Block) /\ Linked(marked)
  <2> HIDE DEF unmarked
  <2>1. QED
    BY MarkedLinked DEF IInv, ChainInv
<1>6. CASE b.final /\ unmarked # {}
  <2>1. /\ chain' = marked /\ disk' = [disk EXCEPT !.blocks = marked] /\ writer' = t
        /\ Goto(t, [Idle EXCEPT !.pc = "finalize", !.block = b])
    BY <1>1, <1>6
  <2> HIDE DEF marked
  <2>2. ChainInv'
    BY <1>5, <2>1 DEF ChainInv
  <2>3. DiskInv'
    BY <1>5, <2>1, DiskBlocks DEF IInv
  <2>4. LockInv'
    BY <1>3, <2>1 DEF IInv, LockInv
  <2>5. JobInv'
    BY <1>2, <2>1, MoveToPlainBlock DEF IInv
  <2>6. QED
    BY <1>4, <2>2, <2>3, <2>4, <2>5 DEF IInv
<1>7. CASE ~(b.final /\ unmarked # {})
  <2>1. /\ Goto(t, [Idle EXCEPT !.pc = "gate", !.block = b])
        /\ UNCHANGED <<chain, disk, writer>>
    BY <1>1, <1>7
  <2>2. ChainInv' /\ DiskInv' /\ LockInv'
    BY <1>3, <2>1, Frame DEF IInv, lock
  <2>3. JobInv'
    BY <1>2, <2>1, MoveToPlainBlock DEF IInv
  <2>4. QED
    BY <1>4, <2>2, <2>3 DEF IInv
<1> QED
  BY <1>6, <1>7

\* The rest of the finalization writes the sound ledger in memory.
LEMMA FinalizeInv == ASSUME IInv, NEW t \in Thread, Finalize(t) PROVE IInv'
<1>1. DiskInv'
  BY DiskLedger DEF Finalize, IInv, LedgerInv
<1>2. IndexInv'
  BY JobFields DEF Finalize, IInv, IndexInv, Block
<1>3. LockInv'
  BY DEF Finalize, IInv, LockInv
<1>4. JobInv'
  <2>1. "announce" \in Plain
    BY DEF Plain, PC
  <2>2. QED
    BY <2>1, MoveToPlain DEF Finalize, IInv
<1>5. ChainInv' /\ LedgerInv' /\ PoolInv' /\ BoundInv'
  BY Frame DEF Finalize, IInv, memory
<1> QED
  BY <1>1, <1>2, <1>3, <1>4, <1>5 DEF IInv

\* The hashes of a typed chain are hashes.
LEMMA HashesTyped ==
  ASSUME ChainInv
  PROVE  /\ \A i \in 1 .. Len(chain) : chain[i].hash \in Hash
         /\ HashesOf(chain) \subseteq Hash /\ FinalHashes(chain) \subseteq Hash
<1>1. ASSUME NEW i \in 1 .. Len(chain)  PROVE chain[i].hash \in Hash
  <2>1. chain[i] \in Block
    BY DEF ChainInv
  <2>2. QED
    BY <2>1 DEF Block
<1> QED
  BY <1>1 DEF HashesOf, FinalHashes

\* The gate changes the index only.
LEMMA GateInv == ASSUME IInv, NEW t \in Thread, Gate(t) PROVE IInv'
<1> DEFINE fresh == {i \in 1 .. Len(chain) : i > indexed}
           hash  == job[t].block.hash
<1>1. \/ UNCHANGED <<known, indexed>>
      \/ /\ known' = known \cup {chain[i].hash : i \in fresh}
         /\ indexed' = IF fresh = {} THEN indexed ELSE Len(chain)
  BY DEF Gate
<1>2. Stop(t) \/ MoveTo(t, "fork")
  BY DEF Gate
<1>3. IndexInv'
  <2>1. {chain[i].hash : i \in fresh} \subseteq Hash /\ Len(chain) \in Nat
    BY HashesTyped, ChainFields DEF IInv
  <2>2. announced' = announced
    BY DEF Gate
  <2> HIDE DEF fresh
  <2>3. QED
    BY <1>1, <2>1, <2>2 DEF IInv, IndexInv
<1>4. JobInv'
  <2>1. "fork" \in Plain
    BY DEF Plain, PC
  <2>2. QED
    BY <1>2, <2>1, StopGood, MoveToPlain DEF IInv
<1>5. ChainInv' /\ LedgerInv' /\ PoolInv' /\ DiskInv' /\ LockInv' /\ BoundInv'
  BY Frame DEF Gate, IInv, memory
<1> QED
  BY <1>3, <1>4, <1>5 DEF IInv

\* Broadcasting changes the index only.
LEMMA AnnounceInv == ASSUME IInv, NEW t \in Thread, Announce(t) PROVE IInv'
<1> DEFINE b == job[t].block
<1>1. b.hash \in Hash /\ Len(chain) \in Nat
  BY JobFields, ChainFields DEF IInv, Block
<1>2. /\ announced' = IF b.final THEN announced \cup {b.hash} ELSE announced
      /\ \/ UNCHANGED <<known, indexed>>
         \/ /\ known' = known \cup {b.hash}
            /\ indexed' = IF Len(chain) > indexed THEN Len(chain) ELSE indexed
  BY DEF Announce
<1> HIDE DEF b
<1>3. IndexInv'
  BY <1>1, <1>2 DEF IInv, IndexInv
<1>4. JobInv'
  BY StopGood DEF Announce, IInv
<1>5. ChainInv' /\ LedgerInv' /\ PoolInv' /\ DiskInv' /\ LockInv' /\ BoundInv'
  BY Frame DEF Announce, IInv, memory
<1> QED
  BY <1>3, <1>4, <1>5 DEF IInv

\* The comparison changes the goroutine's locals only.
LEMMA ForkInv == ASSUME IInv, NEW t \in Thread, Fork(t) PROVE IInv'
<1> DEFINE b == job[t].block
           j == [job[t] EXCEPT !.pc = "rebuild", !.kept = pool]
<1>1. JobInv'
  <2>1. CASE Goto(t, j) /\ Sibling(b)
    <3>1. Goto(t, j)
      BY <2>1
    <3>2. b.index >= 1
      <4>1. b.index = LastOf(chain).index /\ Len(chain) >= 2
        BY <2>1 DEF Sibling
      <4>2. LastOf(chain).index = Len(chain) - 1 /\ Len(chain) \in Nat
        BY DEF IInv, ChainInv, Linked, LastOf
      <4>3. QED
        BY <4>1, <4>2
    <3>3. job[t] \in Job /\ pool \in Seq(Tx) /\ "rebuild" \in PC
      BY JobFields DEF IInv, PoolInv, PC
    <3>4. j \in Job /\ j.pc = "rebuild" /\ j.block = b
      BY <3>3 DEF Job
    <3>5. j \in GoodJob
      BY <3>2, <3>4 DEF GoodJob, JobOK
    <3>6. QED
      BY <3>1, <3>5, GotoGood DEF IInv
  <2>2. CASE MoveTo(t, "vote")
    <3>1. "vote" \in Plain
      BY DEF Plain, PC
    <3>2. QED
      BY <2>2, <3>1, MoveToPlain DEF IInv
  <2>3. CASE Stop(t)
    BY <2>3, StopGood DEF IInv
  <2>4. QED
    BY <2>1, <2>2, <2>3 DEF Fork
<1>2. ChainInv' /\ LedgerInv' /\ PoolInv' /\ DiskInv' /\ IndexInv' /\ LockInv' /\ BoundInv'
  BY Frame DEF Fork, IInv, memory
<1> QED
  BY <1>1, <1>2 DEF IInv

\* The chain the fork rebuilt is linked and rebuilds, so the ledger it will
\* install is sound.
LEMMA RebuildInv == ASSUME IInv, NEW t \in Thread, Rebuild(t) PROVE IInv'
<1> DEFINE b    == job[t].block
           base == SubSeq(chain, 1, b.index)
           ok   == /\ Len(chain) >= b.index
                   /\ RebuildOK(base)
                   /\ Accepted(Replay(base), LastOf(base), b)
           v    == Voted(b, TRUE)
           next == Append(base, v)
           j    == [job[t] EXCEPT !.pc = "forkblocks", !.block = v, !.base = next]
<1>1. b \in Block /\ b.index \in Nat /\ b.index >= 1
  BY JobFields DEF IInv, Rebuild, At, JobOK, Block
<1>2. ASSUME ok  PROVE JobInv'
  <2>1. Goto(t, j)
    BY <1>2 DEF Rebuild
  <2>2. b.index \in 1 .. Len(chain)
    BY <1>1, <1>2, ChainFields DEF IInv
  <2>3. base \in Seq(Block) /\ Len(base) = b.index /\ Linked(base)
    <3>1. chain \in Seq(Block) /\ Linked(chain)
      BY DEF IInv, ChainInv
    <3>2. QED
      BY <2>2, <3>1, LinkedPrefix
  <2>4. Len(base) > 0
    BY <1>1, <2>3
  <2>5. /\ RebuildOK(base) /\ BlockOK(Replay(base), LastOf(base), v)
        /\ SendersExist(Replay(base), v)
    BY <1>1, <1>2, VotedBlock DEF Accepted
  <2>6. v \in Block
    BY <1>1, VotedBlock
  <2> HIDE DEF base, v, b
  <2>7. next \in Seq(Block) /\ Linked(next) /\ Len(next) > 0
    <3>1. Extends(LastOf(base), v)
      BY <2>5 DEF BlockOK
    <3>2. next \in Seq(Block) /\ Linked(next)
      BY <2>3, <2>6, <3>1, LinkedAppend
    <3>3. QED
      BY <3>2 DEF Linked
  <2>8. RebuildOK(next)
    <3>1. Applies(Replay(base), v)
      BY <2>3, <2>4, <2>5, <2>6, ReplayType, SendersApply
    <3>2. QED
      BY <2>3, <2>4, <2>5, <2>6, <3>1, RebuildAppend
  <2>9. SoundLedger(Replay(next))
    BY <2>7, <2>8, RebuildSound
  <2> HIDE DEF next
  <2>10. j \in Job /\ j.pc = "forkblocks" /\ j.base = next
    <3>1. job[t] \in Job
      BY JobFields DEF IInv
    <3>2. QED
      BY <2>6, <2>7, <3>1 DEF Job, PC
  <2>11. j \in GoodJob
    BY <2>7, <2>8, <2>9, <2>10 DEF GoodJob, JobOK
  <2> HIDE DEF j
  <2>12. JobInv'
    BY <2>1, <2>11, GotoGood DEF IInv
  <2>13. QED
    BY <2>12
<1>3. ASSUME ~ok  PROVE JobInv'
  <2>1. Stop(t)
    BY <1>3 DEF Rebuild
  <2>2. JobInv'
    BY <2>1, StopGood DEF IInv
  <2>3. QED
    BY <2>2
<1>4. ChainInv' /\ LedgerInv' /\ PoolInv' /\ DiskInv' /\ IndexInv' /\ LockInv' /\ BoundInv'
  BY Frame DEF Rebuild, IInv, memory
<1>5. JobInv'
  <2> HIDE DEF ok
  <2>1. ok => JobInv'
    BY <1>2
  <2>2. ~ok => JobInv'
    BY <1>3
  <2>3. QED
    BY <2>1, <2>2
<1> QED
  BY <1>4, <1>5 DEF IInv

\* blocks.json receives the fork's private chain, which is linked.
LEMMA ForkSaveBlocksInv == ASSUME IInv, NEW t \in Thread, ForkSaveBlocks(t) PROVE IInv'
<1> DEFINE base == job[t].base
<1>1. /\ base \in Seq(Block) /\ job[t] \in Job
      /\ RebuildOK(base) /\ Linked(base) /\ SoundLedger(Replay(base))
  BY JobFields DEF IInv, ForkSaveBlocks, At, JobOK
<1>2. DiskInv'
  BY <1>1, DiskBlocks DEF ForkSaveBlocks, IInv
<1>3. JobInv'
  <2> DEFINE j == [job[t] EXCEPT !.pc = "forkstate"]
  <2>1. j \in Job /\ j.pc = "forkstate" /\ j.base = base
    BY <1>1 DEF Job, PC
  <2>2. j \in GoodJob
    BY <1>1, <2>1 DEF GoodJob, JobOK
  <2>3. Goto(t, j)
    BY DEF ForkSaveBlocks, MoveTo
  <2> HIDE DEF j
  <2>4. QED
    BY <2>2, <2>3, GotoGood DEF IInv
<1>4. ChainInv' /\ LedgerInv' /\ PoolInv' /\ IndexInv' /\ LockInv' /\ BoundInv'
  BY Frame DEF ForkSaveBlocks, IInv, memory
<1> QED
  BY <1>2, <1>3, <1>4 DEF IInv

\* state.json receives the private chain's ledger, which is sound.
LEMMA ForkSaveStateInv == ASSUME IInv, NEW t \in Thread, ForkSaveState(t) PROVE IInv'
<1> DEFINE base == job[t].base
<1>1. /\ base \in Seq(Block) /\ job[t] \in Job
      /\ RebuildOK(base) /\ Linked(base) /\ SoundLedger(Replay(base))
  BY JobFields DEF IInv, ForkSaveState, At, JobOK
<1>2. DiskInv'
  BY <1>1, DiskLedger DEF ForkSaveState, IInv
<1>3. JobInv'
  <2> DEFINE j == [job[t] EXCEPT !.pc = "adopt"]
  <2>1. j \in Job /\ j.pc = "adopt" /\ j.base = base
    BY <1>1 DEF Job, PC
  <2>2. j \in GoodJob
    BY <1>1, <2>1 DEF GoodJob, JobOK
  <2>3. Goto(t, j)
    BY DEF ForkSaveState, MoveTo
  <2> HIDE DEF j
  <2>4. QED
    BY <2>2, <2>3, GotoGood DEF IInv
<1>4. ChainInv' /\ LedgerInv' /\ PoolInv' /\ IndexInv' /\ LockInv' /\ BoundInv'
  BY Frame DEF ForkSaveState, IInv, memory
<1> QED
  BY <1>2, <1>3, <1>4 DEF IInv

\* Whatever the chain is at the swap, what replaces it is linked and sound.
LEMMA AdoptInv == ASSUME IInv, NEW t \in Thread, Adopt(t) PROVE IInv'
<1> DEFINE base == job[t].base
<1>1. /\ base \in Seq(Block) /\ job[t].kept \in Seq(Tx)
      /\ Linked(base) /\ SoundLedger(Replay(base))
  BY JobFields DEF IInv, Adopt, At, JobOK
<1>2. ChainInv' /\ LedgerInv' /\ PoolInv'
  BY <1>1 DEF Adopt, ChainInv, LedgerInv, PoolInv
<1>3. JobInv'
  <2>1. "announce" \in Plain
    BY DEF Plain, PC
  <2>2. QED
    BY <2>1, MoveToPlain DEF Adopt, IInv
<1>4. DiskInv' /\ IndexInv' /\ LockInv' /\ BoundInv'
  BY Frame DEF Adopt, IInv
<1> QED
  BY <1>2, <1>3, <1>4 DEF IInv

\* A dialled peer's chain and the blocks above our height are typed.
LEMMA DialInv == ASSUME IInv, NEW t \in Thread, Dial(t) PROVE IInv'
<1>1. PICK c \in PeerChains :
        IF Len(c) > Len(chain)
        THEN Goto(t, [Idle EXCEPT !.pc = "sync", !.base = c, !.then = "append",
                        !.queue = SubSeq(c, Len(chain) + 1, Len(c))])
        ELSE UNCHANGED job
  BY DEF Dial
<1>2. BoundInv'
  BY NodeAssumption DEF Dial, IInv, BoundInv
<1>3. ASSUME Len(c) > Len(chain)  PROVE JobInv'
  <2> DEFINE q == SubSeq(c, Len(chain) + 1, Len(c))
             j == [Idle EXCEPT !.pc = "sync", !.base = c, !.then = "append", !.queue = q]
  <2>1. Goto(t, j)
    BY <1>1, <1>3
  <2>2. c \in Seq(Block) /\ Len(c) \in Nat /\ Len(chain) \in Nat
    BY NodeAssumption, ChainFields DEF IInv
  <2>3. q \in Seq(Block) /\ q # << >>
    <3>1. Len(chain) + 1 \in Int /\ Len(c) \in Int
          /\ \A i \in Len(chain) + 1 .. Len(c) : c[i] \in Block
      BY <2>2
    <3>2. q \in Seq(Block)
          /\ Len(q) = IF Len(chain) + 1 <= Len(c) THEN Len(c) - (Len(chain) + 1) + 1 ELSE 0
      BY <3>1, SubSeqProperties
    <3> HIDE DEF q
    <3>3. Len(q) > 0
      BY <1>3, <2>2, <3>2
    <3>4. QED
      BY <3>2, <3>3
  <2> HIDE DEF q
  <2>4. j \in Job /\ j.pc = "sync" /\ j.queue = q /\ j.base = c
    <3>1. Idle \in Job
      BY IdleGood DEF GoodJob
    <3>2. QED
      BY <2>2, <2>3, <3>1 DEF Job, PC
  <2>5. j \in GoodJob
    BY <2>3, <2>4 DEF GoodJob, JobOK
  <2> HIDE DEF j
  <2>6. QED
    BY <2>1, <2>5, GotoGood DEF IInv
<1>4. ASSUME ~(Len(c) > Len(chain))  PROVE JobInv'
  <2>1. UNCHANGED job
    BY <1>1, <1>4
  <2>2. QED
    BY <2>1, Frame DEF IInv
<1>5. ChainInv' /\ LedgerInv' /\ PoolInv' /\ DiskInv' /\ IndexInv' /\ LockInv'
  BY Frame DEF Dial, IInv, memory
<1> QED
  BY <1>2, <1>3, <1>4, <1>5 DEF IInv

\* The fast path takes the next block of the response, the slow one keeps the
\* chain.
LEMMA SyncInv == ASSUME IInv, NEW t \in Thread, Sync(t) PROVE IInv'
<1> DEFINE q == job[t].queue
           fits == Head(q).index = Len(chain) /\ Head(q).prev = LastOf(chain).hash
<1>1. job[t] \in Job /\ q \in Seq(Block) /\ q # << >> /\ job[t].base \in PeerChains
  BY JobFields DEF IInv, Sync, At, JobOK
<1>2. Head(q) \in Block /\ Tail(q) \in Seq(Block)
  BY <1>1, HeadTailProperties
<1>3. ASSUME fits  PROVE JobInv'
  <2> DEFINE j == [job[t] EXCEPT !.pc = "vote", !.block = Head(q), !.queue = Tail(q)]
  <2>1. Goto(t, j)
    BY <1>3 DEF Sync
  <2>2. j \in Job /\ j.pc = "vote"
    BY <1>1, <1>2 DEF Job, PC
  <2> HIDE DEF j
  <2>3. QED
    BY <2>1, <2>2, PlainJob, GotoGood DEF IInv
<1>4. ASSUME ~fits  PROVE JobInv'
  <2> DEFINE j == [job[t] EXCEPT !.pc = "full"]
  <2>1. Goto(t, j)
    BY <1>4 DEF Sync, MoveTo
  <2>2. j \in Job /\ j.pc = "full" /\ j.base = job[t].base
    BY <1>1 DEF Job, PC
  <2>3. j \in GoodJob
    BY <1>1, <2>2 DEF GoodJob, JobOK
  <2> HIDE DEF j
  <2>4. QED
    BY <2>1, <2>3, GotoGood DEF IInv
<1>5. ChainInv' /\ LedgerInv' /\ PoolInv' /\ DiskInv' /\ IndexInv' /\ LockInv' /\ BoundInv'
  BY Frame DEF Sync, IInv, memory
<1> QED
  BY <1>3, <1>4, <1>5 DEF IInv

\* Only a chain that rebuilds, and is therefore linked, goes on to the swap.
LEMMA FullInv == ASSUME IInv, NEW t \in Thread, Full(t) PROVE IInv'
<1> DEFINE base == job[t].base
           ok   == KeepsFinalized(base, chain) /\ RebuildOK(base)
<1>1. job[t] \in Job /\ base \in PeerChains
  BY JobFields DEF IInv, Full, At, JobOK
<1>2. base \in Seq(Block) /\ Len(base) > 0 /\ base[1].index = 0
  BY <1>1, NodeAssumption
<1>3. ASSUME ok  PROVE JobInv'
  <2> DEFINE j == [job[t] EXCEPT !.pc = "replace"]
  <2>1. Goto(t, j)
    BY <1>3 DEF Full, MoveTo
  <2>2. RebuildOK(base) /\ Linked(base) /\ SoundLedger(Replay(base))
    BY <1>2, <1>3, RebuildLinked, RebuildSound
  <2>3. j \in Job /\ j.pc = "replace" /\ j.base = base
    BY <1>1 DEF Job, PC
  <2>4. j \in GoodJob
    BY <2>2, <2>3 DEF GoodJob, JobOK
  <2> HIDE DEF j
  <2>5. QED
    BY <2>1, <2>4, GotoGood DEF IInv
<1>4. ASSUME ~ok  PROVE JobInv'
  <2>1. Stop(t)
    BY <1>4 DEF Full
  <2>2. QED
    BY <2>1, StopGood DEF IInv
<1>5. ChainInv' /\ LedgerInv' /\ PoolInv' /\ DiskInv' /\ IndexInv' /\ LockInv' /\ BoundInv'
  BY Frame DEF Full, IInv, memory
<1> QED
  BY <1>3, <1>4, <1>5 DEF IInv

\* The swap of a full sync installs a linked chain and its sound ledger.
LEMMA ReplaceInv == ASSUME IInv, NEW t \in Thread, Replace(t) PROVE IInv'
<1> DEFINE base == job[t].base
<1>1. base \in Seq(Block) /\ Linked(base) /\ SoundLedger(Replay(base))
  BY JobFields DEF IInv, Replace, At, JobOK
<1>2. ChainInv' /\ LedgerInv'
  BY <1>1 DEF Replace, ChainInv, LedgerInv
<1>3. JobInv'
  <2>1. "index" \in Plain
    BY DEF Plain, PC
  <2>2. QED
    BY <2>1, MoveToPlain DEF Replace, IInv
<1>4. PoolInv' /\ DiskInv' /\ IndexInv' /\ LockInv' /\ BoundInv'
  BY Frame DEF Replace, IInv
<1> QED
  BY <1>2, <1>3, <1>4 DEF IInv

\* Indexing changes the index only.
LEMMA ReindexInv == ASSUME IInv, NEW t \in Thread, Reindex(t) PROVE IInv'
<1>1. IndexInv'
  BY HashesTyped, ChainFields DEF Reindex, IInv, IndexInv
<1>2. JobInv'
  <2>1. "syncblocks" \in Plain
    BY DEF Plain, PC
  <2>2. QED
    BY <2>1, MoveToPlain DEF Reindex, IInv
<1>3. ChainInv' /\ LedgerInv' /\ PoolInv' /\ DiskInv' /\ LockInv' /\ BoundInv'
  BY Frame DEF Reindex, IInv, memory
<1> QED
  BY <1>1, <1>2, <1>3 DEF IInv

\* blocks.json receives the chain in memory.
LEMMA SyncSaveBlocksInv == ASSUME IInv, NEW t \in Thread, SyncSaveBlocks(t) PROVE IInv'
<1>1. DiskInv'
  BY DiskBlocks DEF SyncSaveBlocks, IInv, ChainInv
<1>2. JobInv'
  <2>1. "syncstate" \in Plain
    BY DEF Plain, PC
  <2>2. QED
    BY <2>1, MoveToPlain DEF SyncSaveBlocks, IInv
<1>3. LockInv'
  BY DEF SyncSaveBlocks, IInv, LockInv
<1>4. ChainInv' /\ LedgerInv' /\ PoolInv' /\ IndexInv' /\ BoundInv'
  BY Frame DEF SyncSaveBlocks, IInv, memory
<1> QED
  BY <1>1, <1>2, <1>3, <1>4 DEF IInv

\* state.json receives the ledger in memory.
LEMMA SyncSaveStateInv == ASSUME IInv, NEW t \in Thread, SyncSaveState(t) PROVE IInv'
<1>1. DiskInv'
  BY DiskLedger DEF SyncSaveState, IInv, LedgerInv
<1>2. JobInv'
  BY StopGood DEF SyncSaveState, IInv
<1>3. LockInv'
  BY DEF SyncSaveState, IInv, LockInv
<1>4. ChainInv' /\ LedgerInv' /\ PoolInv' /\ IndexInv' /\ BoundInv'
  BY Frame DEF SyncSaveState, IInv, memory
<1> QED
  BY <1>1, <1>2, <1>3, <1>4 DEF IInv

\* A stop at any step restarts from files that are linked and sound by
\* themselves, even when they do not belong together.
LEMMA RestartInv == ASSUME IInv, Restart PROVE IInv'
<1>1. /\ chain' = disk.blocks /\ ledger' = disk.ledger /\ pool' = << >> /\ UNCHANGED disk
      /\ known' = HashesOf(disk.blocks) /\ announced' = FinalHashes(disk.blocks)
      /\ indexed' = Len(disk.blocks) /\ writer' = NoThread /\ readers' = {}
      /\ job' = [t \in Thread |-> Idle]
  BY DEF Restart
<1>2. ChainInv' /\ LedgerInv' /\ PoolInv'
  BY <1>1 DEF IInv, DiskInv, ChainInv, LedgerInv, PoolInv
<1>3. IndexInv'
  <2>1. disk.blocks \in Seq(Block)
    BY DEF IInv, DiskInv
  <2>2. \A i \in 1 .. Len(disk.blocks) : disk.blocks[i].hash \in Hash
    <3>1. ASSUME NEW i \in 1 .. Len(disk.blocks)  PROVE disk.blocks[i].hash \in Hash
      <4>1. disk.blocks[i] \in Block
        BY <2>1
      <4>2. QED
        BY <4>1 DEF Block
    <3>2. QED
      BY <3>1
  <2>3. QED
    BY <1>1, <2>1, <2>2 DEF IndexInv, HashesOf, FinalHashes
<1>4. LockInv' /\ JobInv'
  BY <1>1, IdleGood DEF LockInv, JobInv
<1>5. BoundInv'
  BY NodeAssumption DEF Restart, IInv, BoundInv
<1>6. DiskInv'
  BY <1>1, Frame DEF IInv
<1> QED
  BY <1>2, <1>3, <1>4, <1>5, <1>6 DEF IInv

\* A step that changes no variable keeps the invariant.
LEMMA StutterInv == ASSUME IInv, UNCHANGED vars PROVE IInv'
BY Frame DEF IInv, vars, index, lock, bounds

\* The invariant is inductive.
LEMMA NextInv == IInv /\ [Next]_vars => IInv'
<1> SUFFICES ASSUME IInv, [Next]_vars PROVE IInv'
  OBVIOUS
<1>1. CASE SubmitTx
  BY <1>1, SubmitTxInv
<1>2. CASE Restart
  BY <1>2, RestartInv
<1>3. ASSUME NEW t \in Thread, Begin(t)  PROVE IInv'
  BY <1>3, MineInv, ReceiveInv, DialInv DEF Begin
<1>4. ASSUME NEW t \in Thread, Continue(t)  PROVE IInv'
  <2>1. CASE Vote(t) \/ Slash(t) \/ Commit(t) \/ Save(t)
    BY <2>1, VoteInv, SlashInv, CommitInv, SaveInv
  <2>2. CASE Finalize(t) \/ Gate(t) \/ Announce(t)
    BY <2>2, FinalizeInv, GateInv, AnnounceInv
  <2>3. CASE Fork(t) \/ Rebuild(t) \/ ForkSaveBlocks(t) \/ ForkSaveState(t) \/ Adopt(t)
    BY <2>3, ForkInv, RebuildInv, ForkSaveBlocksInv, ForkSaveStateInv, AdoptInv
  <2>4. CASE Sync(t) \/ Full(t) \/ Replace(t) \/ Reindex(t) \/ SyncSaveBlocks(t) \/ SyncSaveState(t)
    BY <2>4, SyncInv, FullInv, ReplaceInv, ReindexInv, SyncSaveBlocksInv, SyncSaveStateInv
  <2>5. QED
    BY <1>4, <2>1, <2>2, <2>3, <2>4 DEF Continue
<1>5. CASE UNCHANGED vars
  BY <1>5, StutterInv
<1> QED
  BY <1>1, <1>2, <1>3, <1>4, <1>5 DEF Next

(***************************************************************************)
(* The pool                                                                 *)
(***************************************************************************)
\* Sorted, with one transaction per sender and nonce.
Sorted(p) ==
  \A i, k \in 1 .. Len(p) : i < k =>
    ~Precedes(p[k], p[i]) /\ ~(p[i].from = p[k].from /\ p[i].nonce = p[k].nonce)

\* PoolOrdered of any pool.
Ordered(p) == Len(p) <= MaxPool /\ Sorted(p)

\* Pool order is a strict order.
LEMMA PrecedesOrder ==
  ASSUME NEW x \in Tx, NEW y \in Tx, NEW z \in Tx
  PROVE  /\ Precedes(x, y) => ~Precedes(y, x)
         /\ Precedes(x, y) /\ Precedes(y, z) => Precedes(x, z)
<1>1. /\ x.ts \in Nat /\ y.ts \in Nat /\ z.ts \in Nat
      /\ x.nonce \in Nat /\ y.nonce \in Nat /\ z.nonce \in Nat
      /\ x.id \in Nat /\ y.id \in Nat /\ z.id \in Nat
  BY DEF Tx
<1> QED
  BY <1>1 DEF Precedes

\* Inserting a transaction of a sender and nonce not in the pool keeps it sorted.
LEMMA InsertedSorted ==
  ASSUME NEW p \in Seq(Tx), Sorted(p), NEW tx \in Tx,
         \A i \in 1 .. Len(p) : ~(p[i].from = tx.from /\ p[i].nonce = tx.nonce)
  PROVE  Sorted(Inserted(p, tx))
<1> DEFINE q == Inserted(p, tx)
           N == Len(p)
<1>1. PICK at \in 1 .. N + 1 :
        /\ at = N + 1 \/ Precedes(tx, p[at])
        /\ \A k \in 1 .. at - 1 : ~Precedes(tx, p[k])
        /\ q \in Seq(Tx) /\ Len(q) = N + 1
        /\ \A i \in 1 .. N + 1 :
             q[i] = IF i < at THEN p[i] ELSE IF i = at THEN tx ELSE p[i-1]
  BY InsertedAt
<1>2. N \in Nat /\ \A i \in 1 .. N : p[i] \in Tx
  OBVIOUS
<1>3. \A i \in 1 .. N : ~(p[i].from = tx.from /\ p[i].nonce = tx.nonce)
  OBVIOUS
<1>4. \A i, k \in 1 .. N : i < k =>
        ~Precedes(p[k], p[i]) /\ ~(p[i].from = p[k].from /\ p[i].nonce = p[k].nonce)
  BY DEF Sorted
<1> HIDE DEF q, N
<1>5. ASSUME NEW i \in 1 .. N + 1, NEW k \in 1 .. N + 1, i < k
      PROVE  ~Precedes(q[k], q[i]) /\ ~(q[i].from = q[k].from /\ q[i].nonce = q[k].nonce)
  <2>1. CASE k < at
    <3>1. i < at /\ i \in 1 .. N /\ k \in 1 .. N
      BY <1>1, <1>2, <1>5, <2>1
    <3>2. QED
      BY <1>1, <1>4, <1>5, <2>1, <3>1
  <2>2. CASE k = at
    <3>1. i < at /\ i \in 1 .. N /\ i \in 1 .. at - 1
      BY <1>1, <1>2, <1>5, <2>2
    <3>2. q[i] = p[i] /\ q[k] = tx
      BY <1>1, <2>2, <3>1
    <3>3. QED
      BY <1>1, <1>3, <3>1, <3>2
  <2>3. CASE k > at /\ i < at
    <3>1. i \in 1 .. N /\ k-1 \in 1 .. N /\ i < k-1 /\ ~(k < at) /\ k # at
      BY <1>1, <1>2, <1>5, <2>3
    <3>2. q[i] = p[i] /\ q[k] = p[k-1]
      BY <1>1, <2>3, <3>1
    <3>3. QED
      BY <1>4, <3>1, <3>2
  <2>4. CASE k > at /\ i = at
    <3>1. k-1 \in 1 .. N /\ at \in 1 .. N /\ ~(k < at) /\ k # at /\ at <= k-1 /\ at # N + 1
      BY <1>1, <1>2, <2>4
    <3>2. q[i] = tx /\ q[k] = p[k-1] /\ Precedes(tx, p[at])
      BY <1>1, <2>4, <3>1
    <3>3. p[at] \in Tx /\ p[k-1] \in Tx
      BY <1>2, <3>1
    <3>4. ~Precedes(p[k-1], tx)
      <4>1. CASE at = k-1
        BY <3>2, <3>3, <4>1, PrecedesOrder
      <4>2. CASE at # k-1
        <5>1. at < k-1
          BY <1>1, <1>5, <3>1, <4>2
        <5>2. ~Precedes(p[k-1], p[at])
          BY <1>4, <3>1, <5>1
        <5>3. QED
          BY <3>2, <3>3, <5>2, PrecedesOrder
      <4>3. QED
        BY <4>1, <4>2
    <3>5. QED
      BY <1>3, <3>1, <3>2, <3>4
  <2>5. CASE k > at /\ i > at
    <3>1. /\ i-1 \in 1 .. N /\ k-1 \in 1 .. N /\ i-1 < k-1
          /\ ~(k < at) /\ k # at /\ ~(i < at) /\ i # at
      BY <1>1, <1>2, <1>5, <2>5
    <3>2. q[i] = p[i-1] /\ q[k] = p[k-1]
      BY <1>1, <3>1
    <3>3. QED
      BY <1>4, <3>1, <3>2
  <2>6. QED
    BY <1>1, <2>1, <2>2, <2>3, <2>4, <2>5
<1> QED
  BY <1>1, <1>5 DEF Sorted, q

\* A new transaction leaves the pool ordered: the last one goes when the pool
\* has become too long.
LEMMA SubmitOrdered ==
  ASSUME PoolInv, Ordered(pool), SubmitTx
  PROVE  Ordered(pool')
<1>1. PICK tx \in Txs :
        /\ \A i \in 1 .. Len(pool) : ~(pool[i].from = tx.from /\ pool[i].nonce = tx.nonce)
        /\ LET p == Inserted(pool, tx)
           IN  pool' = IF Len(p) > MaxPool THEN SubSeq(p, 1, Len(p) - 1) ELSE p
  BY DEF SubmitTx
<1> DEFINE q == Inserted(pool, tx)
<1>2. tx \in Tx /\ MaxPool \in Nat /\ pool \in Seq(Tx) /\ Len(pool) \in Nat
  BY NodeAssumption DEF PoolInv
<1>3. Sorted(q)
  BY <1>1, <1>2, InsertedSorted DEF Ordered
<1>4. q \in Seq(Tx) /\ Len(q) = Len(pool) + 1
  BY <1>2, InsertedAt
<1>5. pool' = IF Len(q) > MaxPool THEN SubSeq(q, 1, Len(q) - 1) ELSE q
  BY <1>1
<1>6. Len(pool) <= MaxPool
  BY DEF Ordered
<1> HIDE DEF q
<1>7. CASE Len(q) > MaxPool
  <2> DEFINE n == Len(q) - 1
             p == SubSeq(q, 1, n)
  <2>1. n \in Nat /\ n <= MaxPool /\ n <= Len(q)
    BY <1>2, <1>4, <1>6
  <2>2. Len(p) = n /\ \A i \in 1 .. n : p[i] = q[i]
    <3>1. \A i \in 1 .. n : q[i] \in Tx
      BY <1>4, <2>1
    <3>2. 1 \in Int /\ n \in Int
      BY <2>1
    <3>3. /\ Len(p) = IF 1 <= n THEN n - 1 + 1 ELSE 0
          /\ \A i \in 1 .. n - 1 + 1 : p[i] = q[1 + i - 1]
      <4> HIDE DEF n
      <4>1. QED
        BY <3>1, <3>2, SubSeqProperties
    <3> HIDE DEF p, n
    <3>4. QED
      BY <2>1, <3>3
  <2>3. pool' = p
    BY <1>5, <1>7
  <2>4. \A i \in 1 .. n : i \in 1 .. Len(q)
    BY <1>4, <2>1
  <2> HIDE DEF p, n
  <2>5. Sorted(p)
    BY <1>3, <2>2, <2>4 DEF Sorted
  <2>6. QED
    BY <2>1, <2>2, <2>3, <2>5 DEF Ordered
<1>8. CASE ~(Len(q) > MaxPool)
  BY <1>2, <1>3, <1>4, <1>5, <1>8 DEF Ordered
<1> QED
  BY <1>7, <1>8

\* What a goroutine may keep of the pool: what it kept, nothing, or a copy.
Kept(t) == job'[t].kept \in {job[t].kept, << >>, pool}

\* Only the goroutine that takes a step changes what it keeps.
LEMMA GotoKept ==
  ASSUME JobInv, NEW t \in Thread, NEW u \in Thread, NEW j, Goto(u, j),
         j.kept \in {job[u].kept, << >>, pool}
  PROVE  Kept(t)
<1>1. job' = [job EXCEPT ![u] = j] /\ job \in [Thread -> GoodJob]
  BY DEF Goto, JobInv
<1>2. job'[t] = IF t = u THEN j ELSE job[t]
  BY <1>1
<1> QED
  BY <1>2 DEF Kept

\* A change of program counter, or the end of the operation, is harmless.
LEMMA MoveToKept ==
  ASSUME JobInv, NEW t \in Thread, NEW u \in Thread, NEW pc, MoveTo(u, pc)
  PROVE  Kept(t)
<1> DEFINE j == [job[u] EXCEPT !.pc = pc]
<1>1. Goto(u, j)
  BY DEF MoveTo
<1>2. j.kept = job[u].kept
  BY JobFields DEF Job
<1> HIDE DEF j
<1> QED
  BY <1>1, <1>2, GotoKept

\* The end of an operation keeps nothing.
LEMMA StopKept ==
  ASSUME JobInv, NEW t \in Thread, NEW u \in Thread, Stop(u)
  PROVE  Kept(t)
<1>1. Goto(u, Idle)
  BY DEF Stop
<1>2. Idle.kept = << >>
  BY DEF Idle
<1> QED
  BY <1>1, <1>2, GotoKept

\* Nor is another block in hand.
LEMMA BlockKept ==
  ASSUME JobInv, NEW t \in Thread, NEW u \in Thread, NEW pc, NEW b,
         Goto(u, [job[u] EXCEPT !.pc = pc, !.block = b])
  PROVE  Kept(t)
<1> DEFINE j == [job[u] EXCEPT !.pc = pc, !.block = b]
<1>1. j.kept = job[u].kept
  BY JobFields DEF Job
<1> HIDE DEF j
<1> QED
  BY <1>1, GotoKept DEF j

\* Every goroutine keeps what it kept, nothing, or a copy of the pool.
LEMMA KeptStep ==
  ASSUME IInv, [Next]_vars, NEW t \in Thread
  PROVE  Kept(t)
<1> USE DEF IInv
<1>1. CASE SubmitTx \/ UNCHANGED vars
  BY <1>1 DEF SubmitTx, vars, Kept
<1>2. CASE Restart
  BY <1>2 DEF Restart, Idle, Kept
<1>3. ASSUME NEW u \in Thread, Begin(u)  PROVE Kept(t)
  <2>1. \A pc, b : [Idle EXCEPT !.pc = pc, !.block = b].kept = << >>
    BY DEF Idle
  <2>2. CASE Mine(u)
    <3> DEFINE b == Template(LastOf(chain), ledger, pool, Miner, LocalHash[mined'])
    <3>1. Goto(u, [Idle EXCEPT !.pc = "vote", !.block = b])
      BY <2>2 DEF Mine
    <3> HIDE DEF b
    <3>2. QED
      BY <2>1, <3>1, GotoKept
  <2>3. CASE Receive(u)
    <3>1. PICK b \in PeerBlocks : \/ Goto(u, [Idle EXCEPT !.pc = "finalize", !.block = b])
                                  \/ Goto(u, [Idle EXCEPT !.pc = "gate", !.block = b])
      BY <2>3 DEF Receive
    <3>2. QED
      BY <2>1, <3>1, GotoKept
  <2>4. CASE Dial(u)
    <3>1. PICK c \in PeerChains :
            IF Len(c) > Len(chain)
            THEN Goto(u, [Idle EXCEPT !.pc = "sync", !.base = c, !.then = "append",
                            !.queue = SubSeq(c, Len(chain) + 1, Len(c))])
            ELSE UNCHANGED job
      BY <2>4 DEF Dial
    <3> DEFINE j == [Idle EXCEPT !.pc = "sync", !.base = c, !.then = "append",
                       !.queue = SubSeq(c, Len(chain) + 1, Len(c))]
    <3>2. j.kept = << >>
      BY DEF Idle
    <3>3. Goto(u, j) \/ UNCHANGED job
      BY <3>1
    <3> HIDE DEF j
    <3>4. QED
      BY <3>2, <3>3, GotoKept DEF Kept
  <2>5. QED
    BY <1>3, <2>2, <2>3, <2>4 DEF Begin
<1>4. ASSUME NEW u \in Thread, Continue(u)  PROVE Kept(t)
  <2>1. CASE Vote(u)
    <3> DEFINE ok == BlockOK(ledger, LastOf(chain), job[u].block)
               pc == IF ok THEN "commit" ELSE "slash"
               b  == Voted(job[u].block, ok)
    <3>1. Goto(u, [job[u] EXCEPT !.pc = pc, !.block = b])
      BY <2>1 DEF Vote
    <3> HIDE DEF pc, b
    <3>2. QED
      BY <3>1, BlockKept
  <2>2. CASE Slash(u) \/ SyncSaveState(u)
    BY <2>2, StopKept DEF Slash, SyncSaveState
  <2>3. CASE Commit(u) \/ Finalize(u) \/ Gate(u) \/ Announce(u) \/ Full(u)
    BY <2>3, MoveToKept, StopKept DEF Commit, Finalize, Gate, Announce, Full
  <2>4. CASE Save(u)
    <3>1. Goto(u, AfterAdd(job[u]))
      BY <2>4 DEF Save
    <3>2. AfterAdd(job[u]).kept \in {job[u].kept, << >>}
      BY JobFields DEF AfterAdd, Job, Idle
    <3>3. QED
      BY <3>1, <3>2, GotoKept
  <2>5. CASE Fork(u)
    <3> DEFINE j == [job[u] EXCEPT !.pc = "rebuild", !.kept = pool]
    <3>1. Goto(u, j) \/ MoveTo(u, "vote") \/ Stop(u)
      BY <2>5 DEF Fork
    <3>2. j.kept = pool
      BY JobFields DEF Job
    <3> HIDE DEF j
    <3>3. QED
      BY <3>1, <3>2, GotoKept, MoveToKept, StopKept
  <2>6. CASE Rebuild(u)
    <3> DEFINE b == Voted(job[u].block, TRUE)
               base == Append(SubSeq(chain, 1, job[u].block.index), b)
               j == [job[u] EXCEPT !.pc = "forkblocks", !.block = b, !.base = base]
    <3>1. Goto(u, j) \/ Stop(u)
      BY <2>6 DEF Rebuild
    <3> HIDE DEF b, base
    <3>2. j.kept = job[u].kept
      BY JobFields DEF Job
    <3> HIDE DEF j
    <3>3. QED
      BY <3>1, <3>2, GotoKept, StopKept
  <2>7. CASE ForkSaveBlocks(u) \/ ForkSaveState(u) \/ Adopt(u)
    BY <2>7, MoveToKept DEF ForkSaveBlocks, ForkSaveState, Adopt
  <2>8. CASE Sync(u)
    <3> DEFINE j == [job[u] EXCEPT !.pc = "vote", !.block = Head(job[u].queue),
                                   !.queue = Tail(job[u].queue)]
    <3>1. Goto(u, j) \/ MoveTo(u, "full")
      BY <2>8 DEF Sync
    <3>2. j.kept = job[u].kept
      BY JobFields DEF Job
    <3> HIDE DEF j
    <3>3. QED
      BY <3>1, <3>2, GotoKept, MoveToKept
  <2>9. CASE Replace(u) \/ Reindex(u) \/ SyncSaveBlocks(u)
    BY <2>9, MoveToKept DEF Replace, Reindex, SyncSaveBlocks
  <2>10. QED
    BY <1>4, <2>1, <2>2, <2>3, <2>4, <2>5, <2>6, <2>7, <2>8, <2>9 DEF Continue
<1> QED
  BY <1>1, <1>2, <1>3, <1>4 DEF Next

\* What becomes of the pool when nothing is submitted: it stays, it is emptied,
\* or a fork puts a copy back.
LEMMA PoolStep ==
  ASSUME [Next]_vars, ~SubmitTx
  PROVE  pool' \in {pool, << >>} \/ \E t \in Thread : pool' = job[t].kept
<1>1. CASE Restart \/ UNCHANGED vars
  BY <1>1 DEF Restart, vars
<1>2. ASSUME NEW t \in Thread, Begin(t)  PROVE pool' = pool
  BY <1>2 DEF Begin, Mine, Receive, Dial, memory
<1>3. ASSUME NEW t \in Thread, Continue(t)
      PROVE  pool' \in {pool, << >>, job[t].kept}
  BY <1>3 DEF Continue, Vote, Slash, Commit, Save, Finalize, Gate, Announce, Fork, Rebuild,
              ForkSaveBlocks, ForkSaveState, Adopt, Sync, Full, Replace, Reindex,
              SyncSaveBlocks, SyncSaveState, memory
<1> QED
  BY <1>1, <1>2, <1>3 DEF Next

(***************************************************************************)
(* Theorems                                                                 *)
(***************************************************************************)
\* In every reachable state the chain and ledger in memory, in the two files
\* and in every goroutine about to install them are linked and sound.
THEOREM InductiveInvariant == Spec => []IInv
BY InitInv, NextInv, PTL DEF Spec

\* Every handler, save and restart keeps the variables' types.
THEOREM TypeCorrect == Spec => []TypeOK
<1>1. IInv => TypeOK
  BY DEF IInv, ChainInv, LedgerInv, PoolInv, DiskInv, IndexInv, LockInv, JobInv,
         BoundInv, GoodJob, SoundLedger, TypeOK
<1> QED
  BY <1>1, InductiveInvariant, PTL

\* However gossip, mining, forks, syncs and restarts interleave, memory and
\* blocks.json hold a chain linked from genesis by index and previous hash.
THEOREM ChainAlwaysLinked == Spec => []ChainLinked
<1>1. IInv => ChainLinked
  BY DEF IInv, ChainInv, DiskInv, ChainLinked
<1> QED
  BY <1>1, InductiveInvariant, PTL

\* Whatever fees and rewards peers' blocks carry, an account that no transaction pays
\* a negative amount to is never overdrawn, though a block is verified on a snapshot
\* and penalties, forks and syncs change balances before it is applied.
THEOREM NeverOverdrawnAlways == Spec => []NeverOverdrawn
<1>1. IInv => NeverOverdrawn
  BY DEF IInv, LedgerInv, SoundLedger, Covered, NeverOverdrawn
<1> QED
  BY <1>1, InductiveInvariant, PTL

\* The minted supply in memory and in state.json is never negative, and within the
\* cap unless a fine can clear a debt, whatever is burned and minted again and
\* whatever rewards and fees peers' blocks carry.
THEOREM MintedAlwaysCapped == Spec => []MintedCapped
<1>1. IInv => MintedCapped
  BY DEF IInv, LedgerInv, DiskInv, SoundLedger, MintedCapped, AmountsRegular
<1> QED
  BY <1>1, InductiveInvariant, PTL

\* The pool stays sorted, within its limit and without two transactions of one
\* sender and nonce, though commits empty it, forks put copies back that other
\* goroutines' commits have overtaken, and a full pool drops its last.
THEOREM PoolAlwaysOrdered == Spec => []PoolOrdered
<1> DEFINE PoolsOrdered == Ordered(pool) /\ \A t \in Thread : Ordered(job[t].kept)
<1>1. Ordered(<< >>)
  BY NodeAssumption DEF Ordered, Sorted
<1>2. Init => PoolsOrdered
  BY <1>1 DEF Init, Idle
<1>3. IInv /\ [Next]_vars /\ PoolsOrdered => PoolsOrdered'
  <2> SUFFICES ASSUME IInv, [Next]_vars, PoolsOrdered PROVE PoolsOrdered'
    OBVIOUS
  <2>1. \A t \in Thread : Ordered(job'[t].kept)
    BY <1>1, KeptStep DEF Kept
  <2>2. CASE SubmitTx
    BY <2>1, <2>2, SubmitOrdered DEF IInv
  <2>3. CASE ~SubmitTx
    BY <1>1, <2>1, <2>3, PoolStep
  <2>4. QED
    BY <2>2, <2>3
<1>4. PoolsOrdered => PoolOrdered
  BY DEF Ordered, Sorted, PoolOrdered
<1> HIDE DEF PoolsOrdered
<1> QED
  BY <1>2, <1>3, <1>4, InductiveInvariant, PTL DEF Spec

(***************************************************************************)
(* The refinement.  Node implements ChainStore: the initial state is one of *)
(* the store's, and every step of every goroutine is a step of the store or *)
(* leaves chain, ledger and restarts alone.  The steps that install         *)
(* something computed earlier are the store's Install because the inductive *)
(* invariant says that a rebuilt chain still rebuilds when it is installed. *)
(***************************************************************************)
store == <<chain, ledger, restarts>>

\* The first run starts from a genesis block and its founder's allocation.
LEMMA StoreInit == Init => Store!Init
<1> SUFFICES ASSUME Init PROVE Store!Init
  OBVIOUS
<1>1. chain = <<Genesis>> /\ ledger = GenesisLedger(Genesis.founder) /\ restarts = 0
  BY DEF Init
<1>2. Genesis.index = 0
  BY NodeAssumption
<1> QED
  BY <1>1, <1>2 DEF Store!Init

\* A commit appends a block that verifies on the tip and ledger of that moment.
LEMMA StoreCommit ==
  ASSUME IInv, NEW t \in Thread, Commit(t)
  PROVE  Store!Extend \/ UNCHANGED store
<1> DEFINE b == job[t].block
<1>1. chain \in Seq(Block) /\ b \in Block
  BY JobFields DEF IInv, ChainInv
<1>2. CASE Recheck(b)
  <2>1. /\ ledger' = ApplyBlock(ledger, b) /\ chain' = Append(chain, b)
        /\ UNCHANGED restarts
    BY <1>2 DEF Commit, bounds
  <2>2. Accepted(ledger, chain[Len(chain)], b)
    BY <1>2 DEF Recheck, LastOf
  <2>3. /\ Len(chain') = Len(chain) + 1 /\ chain'[Len(chain')] = b
        /\ \A i \in 1 .. Len(chain) : chain'[i] = chain[i]
    BY <1>1, <2>1
  <2> HIDE DEF b
  <2>4. QED
    BY <2>1, <2>2, <2>3 DEF Store!Extend
<1>3. CASE ~Recheck(b)
  BY <1>3 DEF Commit, memory, bounds, store
<1> QED
  BY <1>2, <1>3

\* A slash is a fine: it takes at most what the miner has, or clears its debt.
LEMMA StoreSlash ==
  ASSUME IInv, NEW t \in Thread, Slash(t)
  PROVE  Store!Fine \/ UNCHANGED store
<1> DEFINE a   == job[t].block.miner
           n   == job[t].block.reward
           acc == ledger.accounts[a]
           taken == IF n > acc.balance THEN acc.balance ELSE n
<1>1. a \in Address /\ n \in Int
  BY JobFields, BlockFields DEF IInv
<1>2. acc.balance \in Int
  BY <1>1 DEF IInv, LedgerInv, SoundLedger, LedgerType, Account
<1>3. n > 0 => taken \in (0 .. acc.balance) \cup {acc.balance}
  BY <1>1, <1>2
<1>4. ledger' = ApplyPenalty(ledger, a, n) /\ UNCHANGED <<chain, restarts>>
  BY DEF Slash, bounds
<1>5. CASE ~acc.exists \/ n <= 0
  BY <1>4, <1>5 DEF ApplyPenalty, store
<1>6. CASE ~(~acc.exists \/ n <= 0)
  <2>1. ledger' = [accounts |-> [ledger.accounts EXCEPT ![a].balance = @ - taken],
                   minted |-> IF ledger.minted >= taken THEN ledger.minted - taken
                              ELSE ledger.minted]
    BY <1>4, <1>6 DEF ApplyPenalty
  <2>2. taken \in (0 .. acc.balance) \cup {acc.balance}
    BY <1>1, <1>3, <1>6
  <2> HIDE DEF taken
  <2>3. QED
    BY <1>1, <1>4, <2>1, <2>2 DEF Store!Fine
<1> QED
  BY <1>5, <1>6

\* A finalized copy only turns marks on.
LEMMA StoreReceive ==
  ASSUME IInv, NEW t \in Thread, Receive(t)
  PROVE  Store!Finalise \/ UNCHANGED store
<1>1. chain \in Seq(Block) /\ UNCHANGED <<ledger, restarts>>
  BY DEF IInv, ChainInv, Receive, bounds
<1>2. PICK b \in PeerBlocks :
        LET unmarked == {i \in 1 .. Len(chain) : chain[i].hash = b.hash /\ ~chain[i].final}
        IN  \/ chain' = [i \in 1 .. Len(chain) |->
                           IF i \in unmarked THEN [chain[i] EXCEPT !.final = TRUE]
                           ELSE chain[i]]
            \/ UNCHANGED chain
  BY DEF Receive
<1> DEFINE unmarked == {i \in 1 .. Len(chain) : chain[i].hash = b.hash /\ ~chain[i].final}
           marked == [i \in 1 .. Len(chain) |->
                        IF i \in unmarked THEN [chain[i] EXCEPT !.final = TRUE] ELSE chain[i]]
<1>3. CASE chain' = marked
  <2>1. marked \in Seq(Block)
    <3> HIDE DEF unmarked
    <3>1. QED
      BY MarkedLinked DEF IInv, ChainInv
  <2>2. DOMAIN marked = 1 .. Len(chain) /\ Len(chain) \in Nat
    BY <1>1
  <2>3. \A i \in 1 .. Len(chain) : marked[i] \in {chain[i], [chain[i] EXCEPT !.final = TRUE]}
    OBVIOUS
  <2> HIDE DEF marked
  <2>4. Len(chain') = Len(chain)
    BY <1>3, <2>1, <2>2
  <2>5. QED
    BY <1>1, <1>3, <2>3, <2>4 DEF Store!Finalise
<1>4. CASE UNCHANGED chain
  BY <1>1, <1>4 DEF store
<1> QED
  BY <1>2, <1>3, <1>4

\* What a fork or a full sync installs still rebuilds when it is installed.
LEMMA StoreInstall ==
  ASSUME IInv, NEW t \in Thread, Adopt(t) \/ Replace(t)
  PROVE  Store!Install
<1>1. RebuildOK(job[t].base)
  BY JobFields DEF IInv, Adopt, Replace, At, JobOK
<1>2. /\ chain' = job[t].base /\ ledger' = Replay(job[t].base)
      /\ UNCHANGED restarts
  BY DEF Adopt, Replace, bounds
<1> QED
  BY <1>1, <1>2 DEF Store!Install

\* A new process finds a linked chain in blocks.json.
LEMMA StoreReload == ASSUME IInv, Restart PROVE Store!Reload
BY DEF IInv, DiskInv, Restart, Store!Reload

\* Every step of the node is a step of the store, or none.
LEMMA StoreStep == IInv /\ [Next]_vars => [Store!Next]_store
<1> SUFFICES ASSUME IInv, [Next]_vars PROVE [Store!Next]_store
  OBVIOUS
<1>1. CASE SubmitTx
  BY <1>1 DEF SubmitTx, bounds, store
<1>2. CASE Restart
  BY <1>2, StoreReload DEF Store!Next
<1>3. ASSUME NEW t \in Thread, Begin(t)  PROVE [Store!Next]_store
  <2>1. CASE Mine(t) \/ Dial(t)
    BY <2>1 DEF Mine, Dial, memory, store
  <2>2. CASE Receive(t)
    BY <2>2, StoreReceive DEF Store!Next
  <2>3. QED
    BY <1>3, <2>1, <2>2 DEF Begin
<1>4. ASSUME NEW t \in Thread, Continue(t)  PROVE [Store!Next]_store
  <2>1. CASE Commit(t)
    BY <2>1, StoreCommit DEF Store!Next
  <2>2. CASE Slash(t)
    BY <2>2, StoreSlash DEF Store!Next
  <2>3. CASE Adopt(t) \/ Replace(t)
    BY <2>3, StoreInstall DEF Store!Next
  <2>4. CASE Vote(t) \/ Save(t) \/ Finalize(t) \/ Gate(t) \/ Announce(t) \/ Fork(t)
    BY <2>4 DEF Vote, Save, Finalize, Gate, Announce, Fork, memory, bounds, store
  <2>5. CASE Rebuild(t) \/ ForkSaveBlocks(t) \/ ForkSaveState(t)
    BY <2>5 DEF Rebuild, ForkSaveBlocks, ForkSaveState, memory, bounds, store
  <2>6. CASE Sync(t) \/ Full(t) \/ Reindex(t) \/ SyncSaveBlocks(t) \/ SyncSaveState(t)
    BY <2>6 DEF Sync, Full, Reindex, SyncSaveBlocks, SyncSaveState, memory, bounds, store
  <2>7. QED
    BY <1>4, <2>1, <2>2, <2>3, <2>4, <2>5, <2>6 DEF Continue
<1>5. CASE UNCHANGED vars
  BY <1>5 DEF vars, store
<1> QED
  BY <1>1, <1>2, <1>3, <1>4, <1>5 DEF Next

\* Any number of goroutines that vote, commit, fork, sync and restart look, to
\* a reader of chain and ledger, like one store that changes them together.
THEOREM NodeImplementsStore == Spec => ImplementsStore
<1>1. Init => Store!Init
  BY StoreInit
<1>2. IInv /\ [Next]_vars => [Store!Next]_<<chain, ledger, restarts>>
  BY StoreStep DEF store
<1>3. Spec => []IInv
  BY InductiveInvariant
<1> QED
  BY <1>1, <1>2, <1>3, PTL DEF Spec, ImplementsStore, Store!Spec
=============================================================================
