---------------------------- MODULE SerialProofs ----------------------------
(***************************************************************************)
(* Theorems about Node with one goroutine: operations that do not overlap,  *)
(* with stops and restarts at any of their steps.  What races can break     *)
(* holds then: the files agree with memory, a fork exchanges the tip only,  *)
(* and final blocks keep their places.                                      *)
(***************************************************************************)
EXTENDS AccountProofs

(***************************************************************************)
(* One goroutine                                                            *)
(***************************************************************************)
\* Operations do not overlap.
OneGoroutine == \E t \in Thread : Thread = {t}

\* The files hold the memory's chain, and its ledger but for penalties.
FilesAgree == /\ disk.blocks = chain
              /\ SameAccounts(ledger, disk.ledger) /\ NoMore(ledger, disk.ledger)

\* DiskUpToDate holds between operations, and what holds at each step instead.
Saved(t) ==
  /\ job[t].pc \notin {"save", "finalize", "forkstate", "adopt",
                       "index", "syncblocks", "syncstate"} => FilesAgree
  /\ job[t].pc \in {"save", "finalize", "syncstate"} => disk.blocks = chain
  /\ job[t].pc \in {"forkstate", "adopt"} => disk.blocks = job[t].base
  /\ job[t].pc = "adopt" => disk.ledger = Replay(job[t].base)

\* A fork under way differs from the chain in its last block only.
DiffersInTip(c, d) ==
  Len(d) = Len(c) /\ \A i \in 1 .. Len(c) - 1 : d[i] = c[i]

OtherTip(t) ==
  /\ job[t].pc = "rebuild" => job[t].block.index = Len(chain) - 1
  /\ job[t].pc \in {"forkblocks", "forkstate", "adopt"} => DiffersInTip(chain, job[t].base)

Serial(t) == Saved(t) /\ OtherTip(t)

\* The steps of an operation outside a save and a fork.
Resting == PC \ {"save", "finalize", "forkstate", "adopt", "index", "syncblocks",
                 "syncstate", "rebuild", "forkblocks"}

\* Between operations nothing is expected but that the files agree.
LEMMA RestingSerial ==
  ASSUME NEW t \in Thread, job[t].pc \in Resting, FilesAgree
  PROVE  Serial(t)
BY DEF Resting, Serial, Saved, OtherTip

\* The same of the state after a step.
LEMMA RestingSerialNext ==
  ASSUME NEW t \in Thread, job'[t].pc \in Resting, FilesAgree'
  PROVE  Serial(t)'
BY DEF Resting, Serial, Saved, OtherTip

\* Before a step that starts between operations the files agree.
LEMMA SerialResting ==
  ASSUME NEW t \in Thread, Serial(t), job[t].pc \in Resting \cup {"rebuild", "forkblocks"}
  PROVE  FilesAgree
BY DEF Resting, Serial, Saved

\* A sound ledger agrees with itself.
LEMMA AgreesWithItself ==
  ASSUME NEW led, SoundLedger(led)
  PROVE  SameAccounts(led, led) /\ NoMore(led, led)
<1>1. /\ led.minted \in Int
      /\ \A a \in Address : led.accounts[a].balance \in Int
  BY LedgerFields DEF SoundLedger, Accounts, Account
<1> QED
  BY <1>1 DEF SameAccounts, NoMore

\* Where the goroutine goes.
LEMMA Goes ==
  ASSUME JobInv, NEW t \in Thread, NEW j
  PROVE  Goto(t, j) => job'[t] = j
BY DEF JobInv, Goto

\* A change of program counter leaves the block and the chain in hand as they are.
LEMMA Moves ==
  ASSUME JobInv, NEW t \in Thread, NEW pc, MoveTo(t, pc)
  PROVE  job'[t].pc = pc /\ job'[t].block = job[t].block /\ job'[t].base = job[t].base
<1> DEFINE j == [job[t] EXCEPT !.pc = pc]
<1>1. Goto(t, j)
  BY DEF MoveTo
<1>2. j.pc = pc /\ j.block = job[t].block /\ j.base = job[t].base
  BY JobFields DEF Job
<1> HIDE DEF j
<1> QED
  BY <1>1, <1>2, Goes

\* The end of an operation.
LEMMA Stops ==
  ASSUME JobInv, NEW t \in Thread, Stop(t)
  PROVE  job'[t].pc = "idle"
<1>1. job'[t] = Idle
  BY Goes DEF Stop
<1> QED
  BY <1>1 DEF Idle

\* An operation begins, or takes a step that changes no file, chain or ledger
\* and neither enters a save nor a fork.
LEMMA QuietSerial ==
  ASSUME NEW t \in Thread, Serial(t), job[t].pc \in Resting,
         UNCHANGED <<chain, ledger, disk>>, job'[t].pc \in Resting
  PROVE  Serial(t)'
<1>1. FilesAgree
  BY SerialResting
<1>2. FilesAgree'
  BY <1>1 DEF FilesAgree, SameAccounts, NoMore
<1> QED
  BY <1>2, RestingSerialNext

\* After a save of memory's chain and ledger the files agree.
LEMMA SavedAgree ==
  ASSUME IInv, NEW t \in Thread, disk.blocks = chain,
         disk' = [disk EXCEPT !.ledger = ledger], UNCHANGED <<chain, ledger>>,
         job'[t].pc \in Resting
  PROVE  Serial(t)'
<1>1. disk'.blocks = chain' /\ disk'.ledger = ledger'
  BY DEF IInv, DiskInv
<1>2. SameAccounts(ledger, ledger) /\ NoMore(ledger, ledger)
  BY AgreesWithItself DEF IInv, LedgerInv
<1>3. FilesAgree'
  BY <1>1, <1>2 DEF FilesAgree, SameAccounts, NoMore
<1> QED
  BY <1>3, RestingSerialNext

\* A beginning changes nothing in memory, or marks a block and writes blocks.json.
LEMMA BeginGoes ==
  ASSUME IInv, NEW t \in Thread, Begin(t)
  PROVE  /\ job[t].pc = "idle" /\ UNCHANGED ledger
         /\ \/ job'[t].pc \in {"vote", "gate", "sync", "idle"} /\ UNCHANGED <<chain, disk>>
            \/ job'[t].pc = "finalize" /\ disk'.blocks = chain'
<1>1. JobInv /\ job[t].pc = "idle" /\ UNCHANGED ledger
  BY DEF IInv, Begin, Mine, Receive, Dial, At, memory
<1>2. \A pc, b : [Idle EXCEPT !.pc = pc, !.block = b].pc = pc
  BY DEF Idle
<1>3. CASE Mine(t)
  <2> DEFINE b == Template(LastOf(chain), ledger, pool, Miner, LocalHash[mined'])
  <2>1. Goto(t, [Idle EXCEPT !.pc = "vote", !.block = b])
    BY <1>3 DEF Mine
  <2> HIDE DEF b
  <2>2. job'[t].pc = "vote"
    BY <1>1, <1>2, <2>1, Goes
  <2>3. QED
    BY <1>1, <1>3, <2>2 DEF Mine, memory
<1>4. CASE Receive(t)
  <2>1. PICK b \in PeerBlocks :
          \/ /\ Goto(t, [Idle EXCEPT !.pc = "finalize", !.block = b])
             /\ disk' = [disk EXCEPT !.blocks = chain']
          \/ /\ Goto(t, [Idle EXCEPT !.pc = "gate", !.block = b])
             /\ UNCHANGED <<chain, disk>>
    BY <1>4 DEF Receive
  <2>2. CASE /\ Goto(t, [Idle EXCEPT !.pc = "finalize", !.block = b])
             /\ disk' = [disk EXCEPT !.blocks = chain']
    <3>1. job'[t].pc = "finalize"
      BY <1>1, <1>2, <2>2, Goes
    <3>2. disk'.blocks = chain'
      BY <2>2 DEF IInv, DiskInv
    <3>3. QED
      BY <1>1, <3>1, <3>2
  <2>3. CASE /\ Goto(t, [Idle EXCEPT !.pc = "gate", !.block = b])
             /\ UNCHANGED <<chain, disk>>
    <3>1. job'[t].pc = "gate"
      BY <1>1, <1>2, <2>3, Goes
    <3>2. QED
      BY <1>1, <2>3, <3>1
  <2>4. QED
    BY <2>1, <2>2, <2>3
<1>5. CASE Dial(t)
  <2>1. PICK c \in PeerChains :
          IF Len(c) > Len(chain)
          THEN Goto(t, [Idle EXCEPT !.pc = "sync", !.base = c, !.then = "append",
                          !.queue = SubSeq(c, Len(chain) + 1, Len(c))])
          ELSE UNCHANGED job
    BY <1>5 DEF Dial
  <2> DEFINE j == [Idle EXCEPT !.pc = "sync", !.base = c, !.then = "append",
                     !.queue = SubSeq(c, Len(chain) + 1, Len(c))]
  <2>2. j.pc = "sync"
    BY DEF Idle
  <2>3. Goto(t, j) \/ UNCHANGED job
    BY <2>1
  <2> HIDE DEF j
  <2>4. job'[t].pc \in {"sync", "idle"}
    BY <1>1, <2>2, <2>3, Goes
  <2>5. QED
    BY <1>1, <1>5, <2>4 DEF Dial, memory
<1> QED
  BY <1>3, <1>4, <1>5 DEF Begin

\* A beginning.
LEMMA BeginSerial ==
  ASSUME IInv, NEW t \in Thread, Serial(t), Begin(t)
  PROVE  Serial(t)'
<1>1. {"idle", "vote", "gate", "sync"} \subseteq Resting
  BY DEF Resting, PC
<1>2. CASE job'[t].pc \in {"vote", "gate", "sync", "idle"} /\ UNCHANGED <<chain, disk>>
  <2>1. job[t].pc \in Resting /\ job'[t].pc \in Resting /\ UNCHANGED ledger
    BY <1>1, <1>2, BeginGoes
  <2>2. QED
    BY <1>2, <2>1, QuietSerial
<1>3. CASE job'[t].pc = "finalize" /\ disk'.blocks = chain'
  BY <1>3 DEF Serial, Saved, OtherTip
<1> QED
  BY <1>2, <1>3, BeginGoes

\* Where the steps go that change no file, chain or ledger.
LEMMA QuietGoes ==
  ASSUME IInv, NEW t \in Thread, Vote(t) \/ Gate(t) \/ Announce(t) \/ Sync(t) \/ Full(t)
  PROVE  /\ job[t].pc \in {"vote", "gate", "announce", "sync", "full"}
         /\ job'[t].pc \in {"idle", "commit", "slash", "fork", "vote", "full", "replace"}
         /\ job'[t].pc = "replace" => Full(t)
         /\ UNCHANGED <<chain, ledger, disk>>
<1>1. JobInv /\ UNCHANGED <<chain, ledger, disk>>
  BY DEF IInv, Vote, Gate, Announce, Sync, Full, memory
<1>2. job[t].pc \in {"vote", "gate", "announce", "sync", "full"}
  BY DEF Vote, Gate, Announce, Sync, Full, At
<1>3. /\ job'[t].pc \in {"idle", "commit", "slash", "fork", "vote", "full", "replace"}
      /\ job'[t].pc = "replace" => Full(t)
  <2>1. CASE Vote(t)
    <3> DEFINE ok == BlockOK(ledger, LastOf(chain), job[t].block)
               pc == IF ok THEN "commit" ELSE "slash"
               b  == Voted(job[t].block, ok)
               j  == [job[t] EXCEPT !.pc = pc, !.block = b]
    <3>1. Goto(t, j)
      BY <2>1 DEF Vote
    <3>2. pc \in {"commit", "slash"}
      OBVIOUS
    <3> HIDE DEF pc, b
    <3>3. j.pc = pc
      BY <1>1, JobFields DEF Job
    <3> HIDE DEF j
    <3>4. QED
      BY <1>1, <3>1, <3>2, <3>3, Goes
  <2>2. CASE Gate(t) \/ Announce(t)
    BY <1>1, <2>2, Moves, Stops DEF Gate, Announce
  <2>3. CASE Full(t)
    BY <1>1, <2>3, Moves, Stops DEF Full
  <2>4. CASE Sync(t)
    <3> DEFINE j == [job[t] EXCEPT !.pc = "vote", !.block = Head(job[t].queue),
                                   !.queue = Tail(job[t].queue)]
    <3>1. Goto(t, j) \/ MoveTo(t, "full")
      BY <2>4 DEF Sync
    <3>2. j.pc = "vote"
      BY <1>1, JobFields DEF Job
    <3> HIDE DEF j
    <3>3. QED
      BY <1>1, <3>1, <3>2, Goes, Moves
  <2>5. QED
    BY <2>1, <2>2, <2>3, <2>4
<1> QED
  BY <1>1, <1>2, <1>3

\* A step of an operation that changes no file, chain or ledger.
LEMMA QuietStepSerial ==
  ASSUME IInv, NEW t \in Thread, Serial(t),
         Vote(t) \/ Gate(t) \/ Announce(t) \/ Sync(t) \/ Full(t)
  PROVE  Serial(t)'
<1>1. job[t].pc \in Resting /\ job'[t].pc \in Resting
  BY QuietGoes DEF Resting, PC
<1> QED
  BY <1>1, QuietGoes, QuietSerial

\* A penalty takes from memory what the files still have.
LEMMA SlashSerial ==
  ASSUME IInv, NEW t \in Thread, Serial(t), Slash(t)
  PROVE  Serial(t)'
<1>1. JobInv /\ LedgerInv /\ UNCHANGED disk /\ job[t].pc = "slash" /\ Stop(t)
  BY DEF IInv, Slash, At
<1>2. job[t].pc \in Resting /\ job'[t].pc \in Resting
  <2>1. job'[t].pc = "idle"
    BY <1>1, Stops
  <2>2. QED
    BY <1>1, <2>1 DEF Resting, PC
<1>3. FilesAgree
  BY <1>2, SerialResting
<1>4. CASE Store!Fine
  <2>1. /\ SameNonces(ledger.accounts, ledger'.accounts)
        /\ SameExists(ledger.accounts, ledger'.accounts)
        /\ NoRicher(ledger'.accounts, ledger.accounts)
        /\ AmountsRegular => ledger'.minted <= ledger.minted
        /\ UNCHANGED chain
    BY <1>1, <1>4, FineKeeps
  <2>2. SameAccounts(ledger', disk.ledger)
    BY <1>3, <2>1 DEF FilesAgree, SameAccounts, SameNonces, SameExists
  <2>3. /\ ledger.minted \in Int /\ ledger'.minted \in Int /\ disk.ledger.minted \in Int
        /\ \A a \in Address : /\ ledger.accounts[a].balance \in Int
                              /\ ledger'.accounts[a].balance \in Int
                              /\ disk.ledger.accounts[a].balance \in Int
    <3>1. ledger \in LedgerType /\ ledger' \in LedgerType /\ disk.ledger \in LedgerType
      BY SlashInv DEF IInv, LedgerInv, DiskInv, SoundLedger
    <3>2. QED
      BY <3>1, LedgerFields DEF Accounts, Account
  <2>4. NoMore(ledger', disk.ledger)
    BY <1>3, <2>1, <2>3 DEF FilesAgree, NoMore, NoRicher
  <2>5. FilesAgree'
    BY <1>1, <1>3, <2>1, <2>2, <2>4 DEF FilesAgree, SameAccounts, NoMore
  <2>6. QED
    BY <1>2, <2>5, RestingSerialNext
<1>5. CASE UNCHANGED store
  BY <1>1, <1>2, <1>5, QuietSerial DEF store
<1> QED
  BY <1>4, <1>5, StoreSlash

\* The commit writes blocks.json, then state.json.
LEMMA CommitSerial ==
  ASSUME IInv, NEW t \in Thread, Serial(t), Commit(t)
  PROVE  Serial(t)'
<1>1. JobInv /\ job[t].pc = "commit" /\ job[t].pc \in Resting
  BY DEF IInv, Commit, At, Resting, PC
<1>2. CASE disk' = [disk EXCEPT !.blocks = chain'] /\ MoveTo(t, "save")
  <2>1. disk'.blocks = chain'
    BY <1>2 DEF IInv, DiskInv
  <2>2. job'[t].pc = "save"
    BY <1>1, <1>2, Moves
  <2>3. QED
    BY <2>1, <2>2 DEF Serial, Saved, OtherTip
<1>3. CASE Stop(t) /\ UNCHANGED <<memory, disk>>
  <2>1. job'[t].pc = "idle" /\ "idle" \in Resting
    BY <1>1, <1>3, Stops DEF Resting, PC
  <2>2. QED
    BY <1>1, <1>3, <2>1, QuietSerial DEF memory
<1> QED
  BY <1>2, <1>3 DEF Commit

\* The second write of a save.
LEMMA SaveGoes ==
  ASSUME IInv, NEW t \in Thread, Save(t) \/ Finalize(t) \/ SyncSaveState(t)
  PROVE  /\ job[t].pc \in {"save", "finalize", "syncstate"}
         /\ job'[t].pc \in {"announce", "idle", "vote"}
         /\ disk' = [disk EXCEPT !.ledger = ledger] /\ UNCHANGED <<chain, ledger>>
<1>1. JobInv /\ job[t].pc \in {"save", "finalize", "syncstate"}
      /\ disk' = [disk EXCEPT !.ledger = ledger] /\ UNCHANGED <<chain, ledger>>
  BY DEF IInv, Save, Finalize, SyncSaveState, At, memory
<1>2. job'[t].pc \in {"announce", "idle", "vote"}
  <2>1. CASE Save(t)
    <3>1. job'[t] = AfterAdd(job[t])
      BY <1>1, <2>1, Goes DEF Save
    <3>2. AfterAdd(job[t]).pc \in {"announce", "idle", "vote"}
      BY <1>1, JobFields DEF AfterAdd, Job, Idle
    <3>3. QED
      BY <3>1, <3>2
  <2>2. CASE Finalize(t) \/ SyncSaveState(t)
    BY <1>1, <2>2, Moves, Stops DEF Finalize, SyncSaveState
  <2>3. QED
    BY <2>1, <2>2
<1> QED
  BY <1>1, <1>2

\* state.json follows blocks.json: both are then memory's.
LEMMA SaveSerial ==
  ASSUME IInv, NEW t \in Thread, Serial(t), Save(t) \/ Finalize(t) \/ SyncSaveState(t)
  PROVE  Serial(t)'
<1>1. disk.blocks = chain
  BY SaveGoes DEF Serial, Saved
<1>2. job'[t].pc \in Resting
  BY SaveGoes DEF Resting, PC
<1> QED
  BY <1>1, <1>2, SaveGoes, SavedAgree

\* Saving the chain a sync has installed.
LEMMA SyncSerial ==
  ASSUME IInv, NEW t \in Thread, Replace(t) \/ Reindex(t) \/ SyncSaveBlocks(t)
  PROVE  Serial(t)'
<1>1. JobInv
  BY DEF IInv
<1>2. CASE Replace(t) \/ Reindex(t)
  <2>1. job'[t].pc \in {"index", "syncblocks"}
    BY <1>1, <1>2, Moves DEF Replace, Reindex
  <2>2. QED
    BY <2>1 DEF Serial, Saved, OtherTip
<1>3. CASE SyncSaveBlocks(t)
  <2>1. job'[t].pc = "syncstate"
    BY <1>1, <1>3, Moves DEF SyncSaveBlocks
  <2>2. disk'.blocks = chain'
    BY <1>3 DEF SyncSaveBlocks, IInv, DiskInv, memory
  <2>3. QED
    BY <2>1, <2>2 DEF Serial, Saved, OtherTip
<1> QED
  BY <1>2, <1>3

\* The comparison: the candidate has the tip's index.
LEMMA ForkSerial ==
  ASSUME IInv, NEW t \in Thread, Serial(t), Fork(t)
  PROVE  Serial(t)'
<1>1. JobInv /\ UNCHANGED <<chain, ledger, disk>> /\ job[t].pc = "fork"
  BY DEF IInv, Fork, At, memory
<1>2. "fork" \in Resting /\ "vote" \in Resting /\ "idle" \in Resting
  BY DEF Resting, PC
<1>3. CASE MoveTo(t, "vote")
  <2>1. job'[t].pc = "vote"
    BY <1>1, <1>3, Moves
  <2>2. QED
    BY <1>1, <1>2, <2>1, QuietSerial
<1> DEFINE j == [job[t] EXCEPT !.pc = "rebuild", !.kept = pool]
<1>4. CASE Goto(t, j) /\ Sibling(job[t].block)
  <2>1. j.pc = "rebuild" /\ j.block = job[t].block
    BY <1>1, JobFields DEF Job
  <2> HIDE DEF j
  <2>2. job'[t].pc = "rebuild" /\ job'[t].block = job[t].block
    BY <1>1, <1>4, <2>1, Goes
  <2>3. job[t].block.index = Len(chain) - 1
    <3>1. Len(chain) \in Nat \ {0} /\ chain[Len(chain)].index = Len(chain) - 1
      BY DEF IInv, ChainInv, Linked
    <3>2. QED
      BY <1>4, <3>1 DEF Sibling, LastOf
  <2>4. FilesAgree'
    <3>1. FilesAgree
      BY <1>1, <1>2, SerialResting
    <3>2. QED
      BY <1>1, <3>1 DEF FilesAgree, SameAccounts, NoMore
  <2>5. QED
    BY <1>1, <2>2, <2>3, <2>4 DEF Serial, Saved, OtherTip
<1>5. CASE Stop(t)
  <2>1. job'[t].pc = "idle"
    BY <1>1, <1>5, Stops
  <2>2. QED
    BY <1>1, <1>2, <2>1, QuietSerial
<1> QED
  BY <1>3, <1>4, <1>5 DEF Fork

\* A prefix one shorter than the chain and another last block.
LEMMA OtherTipAppended ==
  ASSUME NEW c \in Seq(Block), Len(c) > 1, NEW b \in Block
  PROVE  DiffersInTip(c, Append(SubSeq(c, 1, Len(c) - 1), b))
<1> DEFINE N == Len(c) - 1
           base == SubSeq(c, 1, N)
<1>1. N \in Nat /\ N >= 1 /\ Len(c) = N + 1 /\ \A i \in 1 .. N : c[i] \in Block
  OBVIOUS
<1>2. base \in Seq(Block) /\ Len(base) = N /\ \A i \in 1 .. N : base[i] = c[i]
  <2> HIDE DEF N
  <2>1. 1 \in Int /\ N \in Int
    BY <1>1
  <2>2. /\ base \in Seq(Block)
        /\ Len(base) = IF 1 <= N THEN N - 1 + 1 ELSE 0
        /\ \A i \in 1 .. N - 1 + 1 : base[i] = c[1 + i - 1]
    BY <1>1, <2>1, SubSeqProperties
  <2> HIDE DEF base
  <2>3. QED
    BY <1>1, <2>2
<1> HIDE DEF base
<1>3. /\ Len(Append(base, b)) = N + 1
      /\ \A i \in 1 .. N : Append(base, b)[i] = base[i]
  BY <1>2, AppendFacts
<1> QED
  BY <1>1, <1>2, <1>3 DEF DiffersInTip, base

\* The rebuilt chain is the chain's with another tip.
LEMMA RebuildSerial ==
  ASSUME IInv, NEW t \in Thread, Serial(t), Rebuild(t)
  PROVE  Serial(t)'
<1>1. JobInv /\ UNCHANGED <<chain, ledger, disk>> /\ job[t].pc = "rebuild"
  BY DEF IInv, Rebuild, At, memory
<1>2. FilesAgree
  BY <1>1, SerialResting
<1>3. FilesAgree'
  BY <1>1, <1>2 DEF FilesAgree, SameAccounts, NoMore
<1> DEFINE v    == Voted(job[t].block, TRUE)
           next == Append(SubSeq(chain, 1, job[t].block.index), v)
           j    == [job[t] EXCEPT !.pc = "forkblocks", !.block = v, !.base = next]
<1>4. CASE Stop(t)
  <2>1. job'[t].pc \in Resting
    BY <1>1, <1>4, Stops DEF Resting, PC
  <2>2. QED
    BY <1>3, <2>1, RestingSerialNext
<1>5. CASE Goto(t, j)
  <2>1. /\ job[t].block \in Block /\ job[t].block.index \in Nat
        /\ job[t].block.index >= 1 /\ job[t].block.index = Len(chain) - 1
        /\ chain \in Seq(Block)
    BY <1>1, JobFields DEF IInv, ChainInv, JobOK, Block, Serial, OtherTip
  <2>2. v \in Block
    BY <2>1, VotedBlock
  <2>3. DiffersInTip(chain, next)
    <3>1. next = Append(SubSeq(chain, 1, Len(chain) - 1), v) /\ Len(chain) > 1
      BY <2>1
    <3> HIDE DEF next, v
    <3>2. QED
      BY <2>1, <2>2, <3>1, OtherTipAppended
  <2> HIDE DEF next, v
  <2>4. j.pc = "forkblocks" /\ j.base = next
    BY <1>1, JobFields DEF Job
  <2> HIDE DEF j
  <2>5. job'[t].pc = "forkblocks" /\ job'[t].base = next
    BY <1>1, <1>5, <2>4, Goes
  <2>6. QED
    BY <1>1, <1>3, <2>3, <2>5 DEF Serial, Saved, OtherTip
<1> QED
  BY <1>4, <1>5 DEF Rebuild

\* The files get the fork's chain and its ledger before memory does.
LEMMA ForkSaveSerial ==
  ASSUME IInv, NEW t \in Thread, Serial(t), ForkSaveBlocks(t) \/ ForkSaveState(t)
  PROVE  Serial(t)'
<1>1. JobInv /\ UNCHANGED chain /\ job[t].pc \in {"forkblocks", "forkstate"}
  BY DEF IInv, ForkSaveBlocks, ForkSaveState, At, memory
<1>2. DiffersInTip(chain, job[t].base)
  BY <1>1 DEF Serial, OtherTip
<1>3. CASE ForkSaveBlocks(t)
  <2>1. job'[t].pc = "forkstate" /\ job'[t].base = job[t].base
    BY <1>1, <1>3, Moves DEF ForkSaveBlocks
  <2>2. disk'.blocks = job[t].base
    BY <1>3 DEF ForkSaveBlocks, IInv, DiskInv
  <2>3. QED
    BY <1>1, <1>2, <2>1, <2>2 DEF Serial, Saved, OtherTip
<1>4. CASE ForkSaveState(t)
  <2>1. job'[t].pc = "adopt" /\ job'[t].base = job[t].base
    BY <1>1, <1>4, Moves DEF ForkSaveState
  <2>2. disk'.ledger = Replay(job[t].base) /\ disk'.blocks = disk.blocks
    BY <1>4 DEF ForkSaveState, IInv, DiskInv
  <2>3. disk.blocks = job[t].base
    BY <1>4 DEF ForkSaveState, At, Serial, Saved
  <2>4. QED
    BY <1>1, <1>2, <2>1, <2>2, <2>3 DEF Serial, Saved, OtherTip
<1> QED
  BY <1>3, <1>4

\* The swap brings memory in step with the files.
LEMMA AdoptSerial ==
  ASSUME IInv, NEW t \in Thread, Serial(t), Adopt(t)
  PROVE  Serial(t)' /\ DiffersInTip(chain, chain')
<1>1. JobInv /\ UNCHANGED disk /\ job[t].pc = "adopt" /\ MoveTo(t, "announce")
      /\ chain' = job[t].base /\ ledger' = Replay(job[t].base)
  BY DEF IInv, Adopt, At
<1>2. /\ disk.blocks = job[t].base /\ disk.ledger = Replay(job[t].base)
      /\ DiffersInTip(chain, job[t].base)
  BY <1>1 DEF Serial, Saved, OtherTip
<1>3. SoundLedger(ledger')
  BY <1>1, JobFields DEF JobOK
<1>4. FilesAgree'
  BY <1>1, <1>2, <1>3, AgreesWithItself DEF FilesAgree, SameAccounts, NoMore
<1>5. job'[t].pc \in Resting
  BY <1>1, Moves DEF Resting, PC
<1> QED
  BY <1>1, <1>2, <1>4, <1>5, RestingSerialNext

\* One goroutine alone keeps what is expected at each of its steps.
LEMMA SerialStep ==
  ASSUME OneGoroutine, IInv, [Next]_vars, NEW t \in Thread, Serial(t)
  PROVE  Serial(t)'
<1>1. CASE SubmitTx \/ UNCHANGED vars
  <2>1. UNCHANGED <<chain, ledger, disk, job>>
    BY <1>1 DEF SubmitTx, vars
  <2>2. QED
    BY <2>1 DEF Serial, Saved, OtherTip, FilesAgree, SameAccounts, NoMore
<1>2. CASE Restart
  <2>1. /\ job'[t].pc = "idle" /\ disk' = disk
        /\ chain' = disk.blocks /\ ledger' = disk.ledger
    BY <1>2 DEF Restart, Idle
  <2>2. SoundLedger(disk.ledger)
    BY DEF IInv, DiskInv
  <2>3. FilesAgree'
    BY <2>1, <2>2, AgreesWithItself DEF FilesAgree, SameAccounts, NoMore
  <2>4. QED
    BY <2>1, <2>3, RestingSerialNext DEF Resting, PC
<1>3. ASSUME NEW u \in Thread, Begin(u) \/ Continue(u)  PROVE Serial(t)'
  <2>1. u = t
    BY DEF OneGoroutine
  <2>2. CASE Begin(t)
    BY <2>2, BeginSerial
  <2>3. CASE Continue(t)
    BY <2>3, QuietStepSerial, SlashSerial, CommitSerial, SaveSerial, SyncSerial, ForkSerial,
       RebuildSerial, ForkSaveSerial, AdoptSerial DEF Continue
  <2>4. QED
    BY <1>3, <2>1, <2>2, <2>3
<1> QED
  BY <1>1, <1>2, <1>3 DEF Next

\* As long as operations do not overlap each finds and leaves everything saved.
LEMMA AlwaysSerial ==
  ASSUME OneGoroutine
  PROVE  Spec => [](\A t \in Thread : Serial(t))
<1> DEFINE AllSerial == \A t \in Thread : Serial(t)
<1>1. Init => AllSerial
  <2> SUFFICES ASSUME Init, NEW t \in Thread PROVE Serial(t)
    OBVIOUS
  <2>1. job[t].pc \in Resting
    BY DEF Init, Idle, Resting, PC
  <2>2. FilesAgree
    <3>1. SoundLedger(ledger) /\ disk.blocks = chain /\ disk.ledger = ledger
      BY InitInv DEF IInv, LedgerInv, Init
    <3>2. QED
      BY <3>1, AgreesWithItself DEF FilesAgree
  <2>3. QED
    BY <2>1, <2>2, RestingSerial
<1>2. IInv /\ [Next]_vars /\ AllSerial => AllSerial'
  BY SerialStep
<1> HIDE DEF AllSerial
<1>3. Spec => []AllSerial
  BY <1>1, <1>2, InductiveInvariant, PTL DEF Spec
<1> QED
  BY <1>3 DEF AllSerial

\* One operation after the other, and whatever a stop in a save has left, the two
\* files hold memory's chain and ledger whenever no save is under way, penalties
\* excepted (SaveState, the private AddBlock of a fork, replaceChain).
THEOREM DiskAlwaysUpToDate ==
  ASSUME OneGoroutine
  PROVE  Spec => []DiskUpToDate
<1>1. (\A t \in Thread : Serial(t)) => DiskUpToDate
  BY DEF OneGoroutine, Serial, Saved, FilesAgree, DiskUpToDate
<1> QED
  BY <1>1, AlwaysSerial, PTL

\* Chains that differ in the tip have the same blocks below it.
LEMMA SameBelowTip ==
  ASSUME NEW c \in Seq(Block), NEW d \in Seq(Block), Len(c) > 0, DiffersInTip(c, d)
  PROVE  SubSeq(d, 1, Len(c) - 1) = SubSeq(c, 1, Len(c) - 1)
<1> DEFINE N == Len(c) - 1
           p == SubSeq(c, 1, N)
           q == SubSeq(d, 1, N)
<1>1. /\ N \in Nat /\ \A i \in 1 .. N : c[i] \in Block /\ d[i] \in Block /\ d[i] = c[i]
      /\ 1 \in Int /\ N \in Int
  BY DEF DiffersInTip
<1> HIDE DEF N
<1>2. /\ p \in Seq(Block) /\ Len(p) = IF 1 <= N THEN N - 1 + 1 ELSE 0
      /\ \A i \in 1 .. N - 1 + 1 : p[i] = c[1 + i - 1]
  BY <1>1, SubSeqProperties
<1>3. /\ q \in Seq(Block) /\ Len(q) = IF 1 <= N THEN N - 1 + 1 ELSE 0
      /\ \A i \in 1 .. N - 1 + 1 : q[i] = d[1 + i - 1]
  BY <1>1, SubSeqProperties
<1> HIDE DEF p, q
<1>4. Len(p) = N /\ Len(q) = N /\ \A i \in 1 .. N : p[i] = q[i]
  BY <1>1, <1>2, <1>3
<1>5. p = q
  BY <1>2, <1>3, <1>4, SeqEqual
<1> QED
  BY <1>5 DEF p, q, N

\* One operation after the other, ResolveFork exchanges the tip and nothing else,
\* though it reads the prefix and swaps the chain in separate critical sections.
THEOREM ForksReplaceTip ==
  ASSUME OneGoroutine
  PROVE  Spec => ForkReplacesTip
<1> DEFINE Tip(t) ==
      At(t, "adopt") /\ ~At(t, "adopt")' /\ chain' # chain /\ restarts' = restarts =>
        /\ Len(chain') = Len(chain)
        /\ SubSeq(chain', 1, Len(chain) - 1) = SubSeq(chain, 1, Len(chain) - 1)
<1>1. IInv /\ (\A t \in Thread : Serial(t)) /\ [Next]_vars => [\A t \in Thread : Tip(t)]_vars
  <2> SUFFICES ASSUME IInv, NEW t \in Thread, Serial(t), [Next]_vars,
                      At(t, "adopt"), chain' # chain, restarts' = restarts
               PROVE  /\ Len(chain') = Len(chain)
                      /\ SubSeq(chain', 1, Len(chain) - 1) = SubSeq(chain, 1, Len(chain) - 1)
    OBVIOUS
  <2>1. ~(SubmitTx \/ UNCHANGED vars)
    BY DEF SubmitTx, vars
  <2>2. ~Restart
    BY DEF Restart, IInv, BoundInv
  <2>3. PICK u \in Thread : Begin(u) \/ Continue(u)
    BY <2>1, <2>2 DEF Next
  <2>4. u = t
    BY DEF OneGoroutine
  <2>5. Adopt(t)
    BY <2>3, <2>4 DEF At, Begin, Mine, Receive, Dial, Continue, Vote, Slash, Commit, Save, Finalize,
       Gate, Announce, Fork, Rebuild, ForkSaveBlocks, ForkSaveState, Sync, Full, Replace,
       Reindex, SyncSaveBlocks, SyncSaveState
  <2>6. DiffersInTip(chain, chain')
    BY <2>5, AdoptSerial
  <2>7. chain \in Seq(Block) /\ chain' \in Seq(Block) /\ Len(chain) > 0
    BY <2>5, AdoptInv, ChainFields DEF IInv, ChainInv
  <2>8. QED
    BY <2>6, <2>7, SameBelowTip DEF DiffersInTip
<1> QED
  BY <1>1, AlwaysSerial, InductiveInvariant, PTL DEF Spec, ForkReplacesTip

(***************************************************************************)
(* Final blocks                                                             *)
(***************************************************************************)
\* BlockHash covers the index and the previous hash: blocks of the chain and of
\* one compared with it that have the same hash have the same parent.
HashesIdentify ==
  \A t \in Thread : \A i \in 1 .. Len(chain), k \in 1 .. Len(job[t].base) :
    chain[i].hash = job[t].base[k].hash => chain[i].prev = job[t].base[k].prev

\* No final block comes in whose sibling is final in the chain: under one set of
\* validators that accept one block each, VotesProofs!FinalsShareValidator.
NoFinalSiblings ==
  \A t \in Thread : \A i \in 1 .. Len(chain) :
    LET b == job[t].block
    IN  b.final /\ chain[i].final /\ b.prev = chain[i].prev => b.hash = chain[i].hash

\* While a fork is under way the tip it exchanges is not final; a peer's chain
\* about to be installed keeps the last final block.
Guarded(t) ==
  /\ job[t].pc \in {"rebuild", "forkblocks", "forkstate", "adopt"} => ~LastOf(chain).final
  /\ job[t].pc = "replace" => KeepsFinalized(job[t].base, chain)

\* A set of numbers up to n has a greatest.
LEMMA GreatestNat ==
  ASSUME NEW n \in Nat, NEW S, S \subseteq 1 .. n, S # {}
  PROVE  \E m \in S : \A k \in S : k <= m
<1> DEFINE T == {n - k : k \in S}
<1>1. T \subseteq Nat /\ T # {}
  <2>1. \A k \in S : n - k \in Nat
    OBVIOUS
  <2>2. QED
    BY <2>1
<1>2. PICK l \in T : \A k \in T : l <= k
  <2> HIDE DEF T
  <2>1. QED
    BY <1>1, LeastNat
<1>3. PICK m \in S : l = n - m
  OBVIOUS
<1>4. ASSUME NEW k \in S  PROVE k <= m
  <2>1. n - k \in T /\ k \in Int /\ m \in Int
    OBVIOUS
  <2>2. n - m <= n - k
    BY <1>2, <1>3, <2>1
  <2> HIDE DEF T
  <2>3. QED
    BY <2>1, <2>2
<1> QED
  BY <1>4

\* Two chains that share a block share everything below it, so a chain that keeps
\* the last final block keeps them all.
LEMMA LastFinalKeepsAll ==
  ASSUME NEW old \in Seq(Block), NEW new \in Seq(Block), Linked(old), Linked(new),
         KeepsFinalized(new, old),
         \A i \in 1 .. Len(old), k \in 1 .. Len(new) :
           old[i].hash = new[k].hash => old[i].prev = new[k].prev,
         NEW i \in 1 .. Len(old), old[i].final
  PROVE  i <= Len(new) /\ new[i].hash = old[i].hash
<1> DEFINE Finals == {k \in 1 .. Len(old) : old[k].final}
<1>1. Len(old) \in Nat /\ Len(new) \in Nat
  OBVIOUS
<1>2. PICK m \in Finals : \A k \in Finals : k <= m
  <2>1. Finals \subseteq 1 .. Len(old) /\ i \in Finals
    OBVIOUS
  <2> HIDE DEF Finals
  <2>2. QED
    BY <1>1, <2>1, GreatestNat
<1>3. m \in 1 .. Len(old) /\ old[m].final /\ i <= m
  BY <1>2
<1>4. \A k \in m + 1 .. Len(old) : ~old[k].final
  <2>1. SUFFICES ASSUME NEW k \in m + 1 .. Len(old), old[k].final PROVE FALSE
    OBVIOUS
  <2>2. k \in Finals /\ ~(k <= m)
    BY <1>3, <2>1
  <2>3. QED
    BY <1>2, <2>2
<1> HIDE DEF Finals
<1>5. m <= Len(new) /\ new[m].hash = old[m].hash
  BY <1>3, <1>4 DEF KeepsFinalized
<1> DEFINE Differ == {k \in 1 .. m : new[k].hash # old[k].hash}
<1>6. ASSUME Differ # {}  PROVE FALSE
  <2>1. Differ \subseteq 1 .. m /\ m \in Nat
    BY <1>3
  <2>2. PICK d \in Differ : \A k \in Differ : k <= d
    <3> HIDE DEF Differ
    <3>1. QED
      BY <1>6, <2>1, GreatestNat
  <2>3. d \in 1 .. m /\ new[d].hash # old[d].hash /\ d # m
    BY <1>5, <2>2
  <2>4. d + 1 \in 1 .. m /\ d + 1 \notin Differ
    <3>1. d + 1 \in 1 .. m /\ ~(d + 1 <= d)
      BY <1>3, <2>3
    <3>2. QED
      BY <2>2, <3>1
  <2>5. new[d+1].hash = old[d+1].hash
    BY <2>4
  <2> HIDE DEF Differ
  <2>6. /\ d + 1 \in 2 .. Len(old) /\ d + 1 \in 2 .. Len(new)
        /\ d + 1 \in 1 .. Len(old) /\ d + 1 \in 1 .. Len(new) /\ (d + 1) - 1 = d
    BY <1>1, <1>3, <1>5, <2>3, <2>4
  <2>7. old[d+1].prev = new[d+1].prev
    BY <2>5, <2>6
  <2>8. old[d+1].prev = old[d].hash /\ new[d+1].prev = new[d].hash
    BY <2>6 DEF Linked
  <2>9. QED
    BY <2>3, <2>7, <2>8
<1>7. i \in 1 .. m
  BY <1>3
<1>8. new[i].hash = old[i].hash
  BY <1>6, <1>7
<1> QED
  BY <1>1, <1>3, <1>5, <1>8

\* The comparison lets no final tip go: its sibling is not final then.
LEMMA ForkGuarded ==
  ASSUME IInv, NEW t \in Thread, NoFinalSiblings, Fork(t)
  PROVE  Guarded(t)'
<1>1. JobInv /\ UNCHANGED chain
  BY DEF IInv, Fork, memory
<1> DEFINE b == job[t].block
           j == [job[t] EXCEPT !.pc = "rebuild", !.kept = pool]
<1>2. CASE MoveTo(t, "vote")
  <2>1. job'[t].pc = "vote"
    BY <1>1, <1>2, Moves
  <2>2. QED
    BY <2>1 DEF Guarded
<1>3. CASE Goto(t, j) /\ Sibling(b) /\ Preferred(b, LastOf(chain))
  <2>1. j.pc = "rebuild"
    BY <1>1, JobFields DEF Job
  <2> HIDE DEF j
  <2>2. job'[t].pc = "rebuild"
    BY <1>1, <1>3, <2>1, Goes
  <2> DEFINE N == Len(chain)
  <2>3. /\ N \in 2 .. N /\ N \in 1 .. N /\ LastOf(chain) = chain[N]
        /\ b.hash # chain[N].hash /\ b.prev = chain[N-1].hash
    <3>1. Len(chain) \in Nat
      BY DEF IInv, ChainInv
    <3>2. QED
      BY <1>3, <3>1 DEF Sibling, LastOf
  <2>4. b.prev = chain[N].prev
    BY <2>3 DEF IInv, ChainInv, Linked
  <2>5. chain[N].final => b.final
    BY <1>3, <2>3 DEF Preferred
  <2>6. ~chain[N].final
    BY <2>3, <2>4, <2>5 DEF NoFinalSiblings
  <2>7. ~LastOf(chain').final
    BY <1>1, <2>3, <2>6 DEF LastOf
  <2>8. QED
    BY <2>2, <2>7 DEF Guarded
<1>4. CASE Stop(t)
  <2>1. job'[t].pc = "idle"
    BY <1>1, <1>4, Stops
  <2>2. QED
    BY <2>1 DEF Guarded
<1> QED
  BY <1>2, <1>3, <1>4 DEF Fork

\* The finalized check of a full sync.
LEMMA FullGuarded ==
  ASSUME IInv, NEW t \in Thread, Full(t)
  PROVE  Guarded(t)'
<1>1. JobInv /\ UNCHANGED chain
  BY DEF IInv, Full, memory
<1>2. CASE MoveTo(t, "replace") /\ KeepsFinalized(job[t].base, chain)
  <2>1. job'[t].pc = "replace" /\ job'[t].base = job[t].base
    BY <1>1, <1>2, Moves
  <2>2. QED
    BY <1>1, <1>2, <2>1 DEF Guarded
<1>3. CASE Stop(t)
  <2>1. job'[t].pc = "idle"
    BY <1>1, <1>3, Stops
  <2>2. QED
    BY <2>1 DEF Guarded
<1> QED
  BY <1>2, <1>3 DEF Full

\* From the comparison to the swap a lone goroutine sees one chain.
LEMMA ForkKeepsGuard ==
  ASSUME IInv, NEW t \in Thread, Guarded(t),
         Rebuild(t) \/ ForkSaveBlocks(t) \/ ForkSaveState(t)
  PROVE  Guarded(t)'
<1>1. JobInv /\ UNCHANGED chain /\ job[t].pc \in {"rebuild", "forkblocks", "forkstate"}
  BY DEF IInv, Rebuild, ForkSaveBlocks, ForkSaveState, At, memory
<1>2. ~LastOf(chain').final
  BY <1>1 DEF Guarded, LastOf
<1>3. job'[t].pc # "replace"
  <2>1. CASE Rebuild(t)
    <3> DEFINE v    == Voted(job[t].block, TRUE)
               next == Append(SubSeq(chain, 1, job[t].block.index), v)
               j    == [job[t] EXCEPT !.pc = "forkblocks", !.block = v, !.base = next]
    <3>1. Goto(t, j) \/ Stop(t)
      BY <2>1 DEF Rebuild
    <3> HIDE DEF next, v
    <3>2. j.pc = "forkblocks"
      BY <1>1, JobFields DEF Job
    <3> HIDE DEF j
    <3>3. job'[t].pc \in {"forkblocks", "idle"}
      BY <1>1, <3>1, <3>2, Goes, Stops
    <3>4. QED
      BY <3>3
  <2>2. CASE ForkSaveBlocks(t) \/ ForkSaveState(t)
    BY <1>1, <2>2, Moves DEF ForkSaveBlocks, ForkSaveState
  <2>3. QED
    BY <2>1, <2>2
<1> QED
  BY <1>2, <1>3 DEF Guarded

\* The other steps end outside a fork and a swap.
LEMMA UnguardedGoes ==
  ASSUME IInv, NEW t \in Thread,
         \/ Begin(t) \/ Vote(t) \/ Gate(t) \/ Announce(t) \/ Sync(t)
         \/ Slash(t) \/ Commit(t) \/ Save(t) \/ Finalize(t) \/ SyncSaveState(t)
         \/ Adopt(t) \/ Replace(t) \/ Reindex(t) \/ SyncSaveBlocks(t)
  PROVE  Guarded(t)'
<1>1. JobInv
  BY DEF IInv
<1>2. job'[t].pc \notin {"rebuild", "forkblocks", "forkstate", "adopt", "replace"}
  <2>1. CASE Begin(t)
    BY <2>1, BeginGoes
  <2>2. CASE Vote(t) \/ Gate(t) \/ Announce(t) \/ Sync(t)
    <3>1. ~Full(t)
      BY <2>2 DEF Vote, Gate, Announce, Sync, Full, At
    <3>2. QED
      BY <2>2, <3>1, QuietGoes
  <2>3. CASE Save(t) \/ Finalize(t) \/ SyncSaveState(t)
    BY <2>3, SaveGoes
  <2>4. CASE Slash(t) \/ Commit(t)
    BY <1>1, <2>4, Moves, Stops DEF Slash, Commit
  <2>5. CASE Adopt(t) \/ Replace(t) \/ Reindex(t) \/ SyncSaveBlocks(t)
    BY <1>1, <2>5, Moves DEF Adopt, Replace, Reindex, SyncSaveBlocks
  <2>6. QED
    BY <2>1, <2>2, <2>3, <2>4, <2>5
<1> QED
  BY <1>2 DEF Guarded

\* One goroutine alone keeps its guards.
LEMMA GuardedStep ==
  ASSUME OneGoroutine, IInv, NoFinalSiblings, [Next]_vars, NEW t \in Thread, Guarded(t)
  PROVE  Guarded(t)'
<1>1. CASE SubmitTx \/ UNCHANGED vars
  BY <1>1 DEF SubmitTx, vars, Guarded, LastOf, KeepsFinalized
<1>2. CASE Restart
  BY <1>2 DEF Restart, Idle, Guarded
<1>3. ASSUME NEW u \in Thread, Begin(u) \/ Continue(u)  PROVE Guarded(t)'
  <2>1. u = t
    BY DEF OneGoroutine
  <2>2. CASE Begin(t)
    BY <2>2, UnguardedGoes
  <2>3. CASE Continue(t)
    BY <2>3, ForkGuarded, FullGuarded, ForkKeepsGuard, UnguardedGoes DEF Continue
  <2>4. QED
    BY <1>3, <2>1, <2>2, <2>3
<1> QED
  BY <1>1, <1>2, <1>3 DEF Next

\* What the step keeps.
FinalsStay ==
  \A i \in 1 .. Len(chain) : chain[i].final =>
    i <= Len(chain') /\ chain'[i].hash = chain[i].hash

\* Appending, marking, exchanging a tip that is not final and installing a chain
\* with the last final block keep every final block.
LEMMA FinalsStayStep ==
  ASSUME OneGoroutine, IInv, HashesIdentify, [Next]_vars, restarts' = restarts,
         \A t \in Thread : Guarded(t) /\ Serial(t)
  PROVE  FinalsStay
<1>1. chain \in Seq(Block) /\ Linked(chain) /\ Len(chain) \in Nat \ {0}
  BY ChainFields DEF IInv, ChainInv
<1>2. CASE UNCHANGED chain
  BY <1>1, <1>2 DEF FinalsStay
<1>3. ASSUME NEW t \in Thread, Receive(t), chain' # chain  PROVE FinalsStay
  <2>1. PICK unmarked \in SUBSET (1 .. Len(chain)) :
          chain' = [i \in 1 .. Len(chain) |->
                      IF i \in unmarked THEN [chain[i] EXCEPT !.final = TRUE] ELSE chain[i]]
    <3>1. PICK b \in PeerBlocks :
            LET unmarked == {i \in 1 .. Len(chain) : chain[i].hash = b.hash /\ ~chain[i].final}
            IN  chain' = [i \in 1 .. Len(chain) |->
                            IF i \in unmarked THEN [chain[i] EXCEPT !.final = TRUE]
                            ELSE chain[i]]
      BY <1>3 DEF Receive
    <3>2. QED
      BY <3>1
  <2>2. Len(chain') = Len(chain)
    BY <1>1, <2>1
  <2>3. ASSUME NEW i \in 1 .. Len(chain)  PROVE chain'[i].hash = chain[i].hash
    <3>1. chain[i] \in Block
      BY <1>1
    <3>2. QED
      BY <2>1, <3>1 DEF Block
  <2>4. QED
    BY <1>1, <2>2, <2>3 DEF FinalsStay
<1>4. ASSUME NEW t \in Thread, Commit(t), chain' # chain  PROVE FinalsStay
  <2>1. chain' = Append(chain, job[t].block) /\ job[t].block \in Block
    BY <1>4, JobFields DEF Commit, IInv, memory
  <2>2. Len(chain') = Len(chain) + 1 /\ \A i \in 1 .. Len(chain) : chain'[i] = chain[i]
    BY <1>1, <2>1, AppendFacts
  <2>3. QED
    BY <1>1, <2>2 DEF FinalsStay
<1>5. ASSUME NEW t \in Thread, Adopt(t)  PROVE FinalsStay
  <2>1. DiffersInTip(chain, chain')
    BY <1>5, AdoptSerial
  <2>2. ~chain[Len(chain)].final
    BY <1>5 DEF Adopt, At, Guarded, LastOf
  <2>3. ASSUME NEW i \in 1 .. Len(chain), chain[i].final
        PROVE  i <= Len(chain') /\ chain'[i].hash = chain[i].hash
    <3>1. i \in 1 .. Len(chain) - 1
      BY <1>1, <2>2, <2>3
    <3>2. QED
      BY <2>1, <3>1 DEF DiffersInTip
  <2>4. QED
    BY <2>3 DEF FinalsStay
<1>6. ASSUME NEW t \in Thread, Replace(t)  PROVE FinalsStay
  <2> DEFINE base == job[t].base
  <2>1. /\ chain' = base /\ base \in Seq(Block) /\ Linked(base) /\ KeepsFinalized(base, chain)
    BY <1>6, JobFields DEF Replace, At, IInv, JobOK, Guarded
  <2>2. \A i \in 1 .. Len(chain), k \in 1 .. Len(base) :
          chain[i].hash = base[k].hash => chain[i].prev = base[k].prev
    BY DEF HashesIdentify
  <2> HIDE DEF base
  <2>3. QED
    BY <1>1, <2>1, <2>2, LastFinalKeepsAll DEF FinalsStay
<1>7. CASE SubmitTx
  BY <1>2, <1>7 DEF SubmitTx
<1>8. ~Restart
  BY DEF Restart, IInv, BoundInv
<1>9. ASSUME NEW t \in Thread, Begin(t), chain' # chain  PROVE FinalsStay
  BY <1>3, <1>9 DEF Begin, Mine, Dial, memory
<1>10. ASSUME NEW t \in Thread, Continue(t), chain' # chain  PROVE FinalsStay
  <2>1. Commit(t) \/ Adopt(t) \/ Replace(t)
    BY <1>10 DEF Continue, Vote, Slash, Save, Finalize, Gate, Announce, Fork, Rebuild,
                 ForkSaveBlocks, ForkSaveState, Sync, Full, Reindex, SyncSaveBlocks,
                 SyncSaveState, memory
  <2>2. QED
    BY <1>4, <1>5, <1>6, <1>10, <2>1
<1> QED
  BY <1>2, <1>7, <1>8, <1>9, <1>10 DEF Next, vars

\* One operation after the other, and as long as hashes identify blocks and no two
\* siblings are final, a final block keeps its place while the process runs: through
\* forks, which compare votes, and full syncs, which look at the last final block only.
THEOREM FinalBlocksKept ==
  ASSUME OneGoroutine
  PROVE  Spec /\ []HashesIdentify /\ []NoFinalSiblings => FinalBlockKept
<1> DEFINE AllGuarded == \A t \in Thread : Guarded(t)
           AllSerial  == \A t \in Thread : Serial(t)
<1>1. Init => AllGuarded
  BY DEF Init, Idle, Guarded
<1>2. IInv /\ NoFinalSiblings /\ [Next]_vars /\ AllGuarded => AllGuarded'
  BY GuardedStep
<1>3. IInv /\ HashesIdentify /\ AllGuarded /\ AllSerial /\ [Next]_vars =>
        [restarts' = restarts => \A i \in 1 .. Len(chain) : chain[i].final =>
           i <= Len(chain') /\ chain'[i].hash = chain[i].hash]_<<chain, restarts>>
  BY FinalsStayStep DEF FinalsStay
<1>4. Spec => []AllSerial
  BY AlwaysSerial
<1> HIDE DEF AllGuarded, AllSerial
<1> QED
  BY <1>1, <1>2, <1>3, <1>4, InductiveInvariant, PTL DEF Spec, FinalBlockKept
=============================================================================
