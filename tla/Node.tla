-------------------------------- MODULE Node --------------------------------
(***************************************************************************)
(* One CoCaX node: its ChainState, the two files it persists, the block     *)
(* index of its P2PNode, and the goroutines that work on them: HTTP         *)
(* handlers (submit, mine), one handler per inbound connection (gossiped    *)
(* blocks) and one connectPeer per configured peer (chain sync).            *)
(*                                                                          *)
(* A thread is a goroutine running one operation; each action is what the   *)
(* goroutine does between two points where another can run.  Work done      *)
(* under the lock in one piece is one action that waits for the lock;       *)
(* only SaveState keeps the lock across actions, because the process can    *)
(* stop between its two file writes.                                        *)
(*                                                                          *)
(* Peers are the environment: the blocks they gossip (at any time, in any   *)
(* order, any number of times) and the chains they serve are constants.     *)
(*                                                                          *)
(* Left out: PoW and difficulty (see README.md), the 30-minute expiry of    *)
(* seenBlockHashes (seen is taken equal to known), outbound sending.        *)
(***************************************************************************)
EXTENDS Ledger, Finalization, FiniteSetsExt

CONSTANTS
  Thread,       \* goroutines that can be active at once
  Miner,        \* the address this node mines to
  Txs,          \* transactions clients and peers submit
  MaxPool,      \* MempoolMaxSize
  Genesis,      \* the genesis block this node builds on its first run
  PeerBlocks,   \* blocks that can arrive as "block" messages
  PeerChains,   \* chains a dialled peer can serve
  PeerCount,    \* configured peers: one connectPeer each per process run
  LocalHash,    \* LocalHash[k]: hash of the k-th block mined here
  MaxMined,     \* bound: templates built
  MaxRestarts,  \* bound: process stops
  NoThread

ASSUME NodeAssumption ==
  /\ Miner \in Address /\ Txs \subseteq Tx /\ MaxPool \in Nat \ {0}
  /\ Genesis \in Block /\ Genesis.index = 0 /\ Genesis.reward = 0
  /\ Genesis.txs = << >>
  /\ PeerBlocks \subseteq Block /\ PeerChains \subseteq Seq(Block)
  /\ \A c \in PeerChains : Len(c) > 0 /\ c[1].index = 0
  /\ PeerCount \in Nat /\ MaxMined \in Nat /\ MaxRestarts \in Nat
  /\ LocalHash \in [1 .. MaxMined -> Hash]
  /\ Local \in Voter /\ NoThread \notin Thread

VARIABLES
  chain,     \* ChainState.Chain
  ledger,    \* ChainState.Accounts and MintedSupply
  pool,      \* ChainState.Mempool
  disk,      \* [blocks, ledger]: blocks.json and state.json
  known,     \* P2PNode.knownBlockHashes
  indexed,   \* P2PNode.indexedHeight
  announced, \* P2PNode.finalizedBroadcasts
  writer,    \* the thread that keeps the write lock while it saves
  readers,   \* the threads that keep a read lock while they save
  job,       \* what each thread is doing and its local variables
  dials,     \* connectPeer goroutines not run yet
  mined,     \* templates built (bounded by MaxMined)
  restarts   \* process stops (bounded by MaxRestarts)

memory == <<chain, ledger, pool>>
index  == <<known, indexed, announced>>
lock   == <<writer, readers>>
bounds == <<dials, mined, restarts>>
vars   == <<chain, ledger, pool, disk, known, indexed, announced,
            writer, readers, job, dials, mined, restarts>>

(***************************************************************************)
(* Threads and the lock                                                     *)
(***************************************************************************)
\* block: the block in hand.  then: where AddBlock returns to.  queue: synced
\* blocks still to append.  base: a chain being rebuilt.  kept: mempoolCopy.
Idle == [pc |-> "idle", block |-> Genesis, then |-> "announce",
         queue |-> << >>, base |-> << >>, kept |-> << >>]

PC == {"idle", "gate", "vote", "slash", "commit", "save", "finalize", "announce",
       "fork", "rebuild", "forkblocks", "forkstate", "adopt",
       "sync", "full", "replace", "index", "syncblocks", "syncstate"}

Job == [pc : PC, block : Block, then : {"announce", "append"},
        queue : Seq(Block), base : Seq(Block), kept : Seq(Tx)]

At(t, pc)  == job[t].pc = pc
Goto(t, j) == job' = [job EXCEPT ![t] = j]
Stop(t)    == Goto(t, Idle)
MoveTo(t, pc) == Goto(t, [job[t] EXCEPT !.pc = pc])

CanRead  == writer = NoThread
CanWrite == writer = NoThread /\ readers = {}

HashesOf(c) == {c[i].hash : i \in 1 .. Len(c)}
FinalHashes(c) == {c[i].hash : i \in {k \in 1 .. Len(c) : c[k].final}}

\* Where AddBlock's caller goes once the block is committed: the mine and block
\* handlers broadcast it, a sync takes the next block of the response.
AfterAdd(j) ==
  IF j.then = "announce" THEN [j EXCEPT !.pc = "announce"]
  ELSE IF j.queue = << >> THEN Idle
  ELSE [j EXCEPT !.pc = "vote", !.block = Head(j.queue), !.queue = Tail(j.queue)]

(***************************************************************************)
(* Mempool                                                                  *)
(***************************************************************************)
\* Pool order (all of the same fee): timestamp, then nonce, then ID.
Precedes(t, u) ==
  \/ t.ts < u.ts
  \/ t.ts = u.ts /\ t.nonce < u.nonce
  \/ t.ts = u.ts /\ t.nonce = u.nonce /\ t.id < u.id

\* Mutant: arrival order.
InsertedLast(p, tx) == Append(p, tx)

\* The pool with tx put before the first element it precedes (sort.Search).
Inserted(p, tx) ==
  LET at == CHOOSE i \in 1 .. Len(p) + 1 :
              /\ i = Len(p) + 1 \/ Precedes(tx, p[i])
              /\ \A k \in 1 .. i - 1 : ~Precedes(tx, p[k])
  IN  SubSeq(p, 1, at - 1) \o <<tx>> \o SubSeq(p, at, Len(p))

\* AddTxToMempool: the fixed fee, one pending transaction per sender and nonce,
\* valid on the current accounts; the last one is dropped from a pool over its limit.
SubmitTx ==
  /\ CanWrite
  /\ \E tx \in Txs :
       /\ tx.fee = Fee
       /\ \A i \in 1 .. Len(pool) : ~(pool[i].from = tx.from /\ pool[i].nonce = tx.nonce)
       /\ TxOK(ledger.accounts, tx)
       /\ LET p == Inserted(pool, tx)
          IN  pool' = IF Len(p) > MaxPool THEN SubSeq(p, 1, Len(p) - 1) ELSE p
  /\ UNCHANGED <<chain, ledger, disk, index, lock, job, bounds>>

(***************************************************************************)
(* AddBlock: vote on a snapshot, then slash or commit and save              *)
(***************************************************************************)
\* POST /mine: CreateBlockTemplate reads the state once; PoW follows.
Mine(t) ==
  /\ At(t, "idle") /\ CanRead /\ mined < MaxMined
  /\ mined' = mined + 1
  /\ Goto(t, [Idle EXCEPT !.pc = "vote",
                !.block = Template(LastOf(chain), ledger, pool, Miner, LocalHash[mined'])])
  /\ UNCHANGED <<memory, disk, index, lock, dials, restarts>>

\* Mutant: a rejected block is voted on again and again.
VoteUntilAccepted(t) ==
  /\ At(t, "vote") /\ CanRead
  /\ BlockOK(ledger, LastOf(chain), job[t].block)
  /\ Goto(t, [job[t] EXCEPT !.pc = "commit", !.block = Voted(@, TRUE)])
  /\ UNCHANGED <<memory, disk, index, lock, bounds>>

\* Local verification against a snapshot; no other verifier is passed in.
Vote(t) ==
  /\ At(t, "vote") /\ CanRead
  /\ LET ok == BlockOK(ledger, LastOf(chain), job[t].block)
     IN  Goto(t, [job[t] EXCEPT !.pc = IF ok THEN "commit" ELSE "slash",
                                !.block = Voted(@, ok)])
  /\ UNCHANGED <<memory, disk, index, lock, bounds>>

\* Rejected: the miner named in the block loses the block's reward.
Slash(t) ==
  /\ At(t, "slash") /\ CanWrite
  /\ ledger' = ApplyPenalty(ledger, job[t].block.miner, job[t].block.reward)
  /\ Stop(t)
  /\ UNCHANGED <<chain, pool, disk, index, lock, bounds>>

\* Mutant: the vote's snapshot is trusted.
RecheckSenders(b) == SendersExist(ledger, b)

\* What AddBlock asks of b before it applies it to led on top of last.
Accepted(led, last, b) == BlockOK(led, last, b) /\ SendersExist(led, b)

\* The check AddBlock repeats under the lock; a failure here has no penalty.
Recheck(b) == Accepted(ledger, LastOf(chain), b)

\* Accepted: verify again under the lock, apply, empty the pool, append and
\* write blocks.json.
Commit(t) ==
  /\ At(t, "commit") /\ CanWrite
  /\ LET b == job[t].block
     IN  IF Recheck(b)
         THEN /\ ledger' = ApplyBlock(ledger, b)
              /\ chain' = Append(chain, b)
              /\ pool' = << >>
              /\ disk' = [disk EXCEPT !.blocks = chain']
              /\ writer' = t
              /\ MoveTo(t, "save")
         ELSE Stop(t) /\ UNCHANGED <<memory, disk, writer>>
  /\ UNCHANGED <<readers, index, bounds>>

\* Mutant: state.json is not written.
SaveBlocksOnly(t) ==
  /\ At(t, "save")
  /\ writer' = NoThread
  /\ Goto(t, AfterAdd(job[t]))
  /\ UNCHANGED <<memory, disk, readers, index, bounds>>

\* SaveState's second write, state.json, still under the lock.
Save(t) ==
  /\ At(t, "save")
  /\ disk' = [disk EXCEPT !.ledger = ledger]
  /\ writer' = NoThread
  /\ Goto(t, AfterAdd(job[t]))
  /\ UNCHANGED <<memory, readers, index, bounds>>

(***************************************************************************)
(* "block" messages                                                         *)
(***************************************************************************)
\* tryFinalizeExistingBlock, the handler's first step: a finalized copy of a
\* block in the chain finalizes it there and saves.  (The code stops at the
\* first match: a hash names one block, which a chain holds once.)
Receive(t) ==
  /\ At(t, "idle") /\ CanWrite
  /\ \E b \in PeerBlocks :
       LET unmarked == {i \in 1 .. Len(chain) : chain[i].hash = b.hash /\ ~chain[i].final}
       IN  IF b.final /\ unmarked # {}
           THEN /\ chain' = [i \in 1 .. Len(chain) |->
                               IF i \in unmarked THEN [chain[i] EXCEPT !.final = TRUE]
                               ELSE chain[i]]
                /\ disk' = [disk EXCEPT !.blocks = chain']
                /\ writer' = t
                /\ Goto(t, [Idle EXCEPT !.pc = "finalize", !.block = b])
           ELSE /\ Goto(t, [Idle EXCEPT !.pc = "gate", !.block = b])
                /\ UNCHANGED <<chain, disk, writer>>
  /\ UNCHANGED <<ledger, pool, readers, index, bounds>>

\* The rest of tryFinalizeExistingBlock: state.json, the mark, the unlock.
Finalize(t) ==
  /\ At(t, "finalize")
  /\ disk' = [disk EXCEPT !.ledger = ledger]
  /\ announced' = announced \cup {job[t].block.hash}
  /\ writer' = NoThread
  /\ MoveTo(t, "announce")
  /\ UNCHANGED <<memory, known, indexed, readers, bounds>>

\* hasSeenBlock || chainHasBlock: a block not seen is looked up after the index
\* took in the chain above indexedHeight.
Gate(t) ==
  /\ At(t, "gate") /\ CanRead
  /\ LET fresh == {i \in 1 .. Len(chain) : i > indexed}
         hash  == job[t].block.hash
     IN  IF hash \in known
         THEN Stop(t) /\ UNCHANGED <<known, indexed>>
         ELSE /\ known' = known \cup {chain[i].hash : i \in fresh}
              /\ indexed' = IF fresh = {} THEN indexed ELSE Len(chain)
              /\ IF hash \in known' THEN Stop(t) ELSE MoveTo(t, "fork")
  /\ UNCHANGED <<memory, disk, announced, lock, bounds>>

\* BroadcastBlock: once per block, and once more when it becomes final.
Announce(t) ==
  /\ At(t, "announce") /\ CanRead
  /\ LET b     == job[t].block
         force == b.final /\ b.hash \notin announced
     IN  /\ announced' = IF b.final THEN announced \cup {b.hash} ELSE announced
         /\ IF ~force /\ b.hash \in known
            THEN UNCHANGED <<known, indexed>>
            ELSE /\ known' = known \cup {b.hash}
                 /\ indexed' = IF Len(chain) > indexed THEN Len(chain) ELSE indexed
  /\ Stop(t)
  /\ UNCHANGED <<memory, disk, lock, bounds>>

(***************************************************************************)
(* ResolveFork                                                              *)
(***************************************************************************)
\* Better confirmed than the tip: a final candidate unless the tip is final
\* with more votes; otherwise strictly more votes than a tip that is not final.
Preferred(cand, tip) ==
  LET votes == Cardinality(cand.votes)
  IN  IF cand.final THEN tip.final => votes >= Cardinality(tip.votes)
      ELSE ~tip.final /\ votes > Cardinality(tip.votes)

\* Mutant: any other block may replace the tip.
OtherBlock(b) == Len(chain) >= 2 /\ b.hash # LastOf(chain).hash

\* At the tip's height, on the tip's parent, and not the tip itself.
Sibling(b) ==
  /\ Len(chain) >= 2
  /\ b.index = LastOf(chain).index
  /\ b.hash # LastOf(chain).hash
  /\ b.prev = chain[Len(chain)-1].hash

\* The comparison with tip and parent, and the copy of the pool, under a read
\* lock.  A block that is no better sibling of the tip goes on to AddBlock.  A
\* sibling is refused if its list of votes, of which the model has the accepting
\* names, has an unnamed or repeated one.
Fork(t) ==
  /\ At(t, "fork") /\ CanRead
  /\ LET b      == job[t].block
         better == Sibling(b) /\ Preferred(b, LastOf(chain))
     IN  \/ better /\ Goto(t, [job[t] EXCEPT !.pc = "rebuild", !.kept = pool])
         \/ ~better /\ MoveTo(t, "vote")
         \/ Sibling(b) /\ Stop(t)
  /\ UNCHANGED <<memory, disk, index, lock, bounds>>

\* The prefix below the candidate is read without the lock (it is as long as
\* the candidate's index), rebuilt, and the candidate added to the private
\* copy.  When the chain has become shorter than the prefix the read fails.
Rebuild(t) ==
  /\ At(t, "rebuild")
  /\ LET b    == job[t].block
         base == SubSeq(chain, 1, b.index)
     IN  IF /\ Len(chain) >= b.index
            /\ RebuildOK(base)
            /\ Accepted(Replay(base), LastOf(base), b)
         THEN Goto(t, [job[t] EXCEPT !.pc = "forkblocks", !.block = Voted(b, TRUE),
                                     !.base = Append(base, Voted(b, TRUE))])
         ELSE Stop(t)
  /\ UNCHANGED <<memory, disk, index, lock, bounds>>

\* AddBlock on the private copy saves it to the node's files: the lock it
\* holds is the private copy's, so the node's own lock does not matter here.
ForkSaveBlocks(t) ==
  /\ At(t, "forkblocks")
  /\ disk' = [disk EXCEPT !.blocks = job[t].base]
  /\ MoveTo(t, "forkstate")
  /\ UNCHANGED <<memory, index, lock, bounds>>

ForkSaveState(t) ==
  /\ At(t, "forkstate")
  /\ disk' = [disk EXCEPT !.ledger = Replay(job[t].base)]
  /\ MoveTo(t, "adopt")
  /\ UNCHANGED <<memory, index, lock, bounds>>

\* Mutant: the accounts are left as they are.
AdoptChainOnly(t) ==
  /\ At(t, "adopt") /\ CanWrite
  /\ chain' = job[t].base
  /\ pool' = job[t].kept
  /\ MoveTo(t, "announce")
  /\ UNCHANGED <<ledger, disk, index, lock, bounds>>

\* The swap: whatever the chain is by now, it becomes the rebuilt one.
Adopt(t) ==
  /\ At(t, "adopt") /\ CanWrite
  /\ chain' = job[t].base
  /\ ledger' = Replay(job[t].base)
  /\ pool' = job[t].kept
  /\ MoveTo(t, "announce")
  /\ UNCHANGED <<disk, index, lock, bounds>>

(***************************************************************************)
(* Chain sync (connectPeer, run once per configured peer)                   *)
(***************************************************************************)
\* Mutant: connectPeer dials again without end.
DialAgain(t) ==
  /\ At(t, "idle") /\ CanRead
  /\ dials' = dials - 1
  /\ UNCHANGED <<memory, disk, index, lock, job, mined, restarts>>

\* Handshake: a peer with a longer chain sends the blocks above our height.
Dial(t) ==
  /\ At(t, "idle") /\ CanRead /\ dials > 0
  /\ dials' = dials - 1
  /\ \E c \in PeerChains :
       IF Len(c) > Len(chain)
       THEN Goto(t, [Idle EXCEPT !.pc = "sync", !.base = c, !.then = "append",
                       !.queue = SubSeq(c, Len(chain) + 1, Len(c))])
       ELSE UNCHANGED job
  /\ UNCHANGED <<memory, disk, index, lock, mined, restarts>>

\* applySyncedBlocks: append the blocks that continue the tip, or fetch the
\* peer's chain from its genesis.
Sync(t) ==
  /\ At(t, "sync") /\ CanRead
  /\ LET q == job[t].queue
     IN  IF Head(q).index = Len(chain) /\ Head(q).prev = LastOf(chain).hash
         THEN Goto(t, [job[t] EXCEPT !.pc = "vote", !.block = Head(q), !.queue = Tail(q)])
         ELSE MoveTo(t, "full")
  /\ UNCHANGED <<memory, disk, index, lock, bounds>>

\* Mutant: only the peer chain's length is compared with our finalized height.
LongEnough(new, old) == \A i \in 1 .. Len(old) : old[i].final => i <= Len(new)

\* The peer's chain keeps our last finalized block where it is.
KeepsFinalized(new, old) ==
  \A i \in 1 .. Len(old) :
    (old[i].final /\ \A k \in i + 1 .. Len(old) : ~old[k].final)
      => i <= Len(new) /\ new[i].hash = old[i].hash

\* replaceChain up to the rebuild: the finalized check is made on the copy of
\* the chain taken here, before the rebuild and the swap.
Full(t) ==
  /\ At(t, "full") /\ CanRead
  /\ IF KeepsFinalized(job[t].base, chain) /\ RebuildOK(job[t].base)
     THEN MoveTo(t, "replace") ELSE Stop(t)
  /\ UNCHANGED <<memory, disk, index, lock, bounds>>

\* Mutant: the accounts are left as they are.
ReplaceChainOnly(t) ==
  /\ At(t, "replace") /\ CanWrite
  /\ chain' = job[t].base
  /\ MoveTo(t, "index")
  /\ UNCHANGED <<ledger, pool, disk, index, lock, bounds>>

\* The pool is kept as it is.
Replace(t) ==
  /\ At(t, "replace") /\ CanWrite
  /\ chain' = job[t].base
  /\ ledger' = Replay(job[t].base)
  /\ MoveTo(t, "index")
  /\ UNCHANGED <<pool, disk, index, lock, bounds>>

\* indexExistingBlocks.
Reindex(t) ==
  /\ At(t, "index") /\ CanRead
  /\ known' = known \cup HashesOf(chain)
  /\ announced' = announced \cup FinalHashes(chain)
  /\ indexed' = Len(chain)
  /\ MoveTo(t, "syncblocks")
  /\ UNCHANGED <<memory, disk, lock, bounds>>

\* SaveState under a read lock.
SyncSaveBlocks(t) ==
  /\ At(t, "syncblocks") /\ CanRead
  /\ disk' = [disk EXCEPT !.blocks = chain]
  /\ readers' = readers \cup {t}
  /\ MoveTo(t, "syncstate")
  /\ UNCHANGED <<memory, index, writer, bounds>>

SyncSaveState(t) ==
  /\ At(t, "syncstate")
  /\ disk' = [disk EXCEPT !.ledger = ledger]
  /\ readers' = readers \ {t}
  /\ Stop(t)
  /\ UNCHANGED <<memory, index, writer, bounds>>

(***************************************************************************)
(* Process stop and restart, and the specification                          *)
(***************************************************************************)
\* The process stops at any point (also when Rebuild's read of a shorter chain
\* panics) and LoadState and NewP2PNode start it again from the two files.
Restart ==
  /\ restarts < MaxRestarts
  /\ restarts' = restarts + 1
  /\ chain' = disk.blocks /\ ledger' = disk.ledger /\ pool' = << >>
  /\ known' = HashesOf(disk.blocks)
  /\ announced' = FinalHashes(disk.blocks)
  /\ indexed' = Len(disk.blocks)
  /\ writer' = NoThread /\ readers' = {}
  /\ job' = [t \in Thread |-> Idle]
  /\ dials' = PeerCount
  /\ UNCHANGED <<disk, mined>>

\* First run: LoadState builds the genesis block, credits the founder, saves.
Init ==
  /\ chain = <<Genesis>>
  /\ ledger = GenesisLedger(Genesis.founder)
  /\ pool = << >>
  /\ disk = [blocks |-> chain, ledger |-> ledger]
  /\ known = {Genesis.hash}
  /\ announced = FinalHashes(chain)
  /\ indexed = 1
  /\ writer = NoThread /\ readers = {}
  /\ job = [t \in Thread |-> Idle]
  /\ dials = PeerCount /\ mined = 0 /\ restarts = 0

\* An operation begins, or the one under way takes its next step.
Begin(t) == Mine(t) \/ Receive(t) \/ Dial(t)

Continue(t) ==
  \/ Vote(t) \/ Slash(t) \/ Commit(t) \/ Save(t)
  \/ Finalize(t) \/ Gate(t) \/ Announce(t)
  \/ Fork(t) \/ Rebuild(t) \/ ForkSaveBlocks(t) \/ ForkSaveState(t) \/ Adopt(t)
  \/ Sync(t) \/ Full(t) \/ Replace(t) \/ Reindex(t)
  \/ SyncSaveBlocks(t) \/ SyncSaveState(t)

Next ==
  \/ SubmitTx
  \/ Restart
  \/ \E t \in Thread : Begin(t) \/ Continue(t)

Spec == Init /\ [][Next]_vars

\* Goroutines are scheduled and sync.RWMutex starves nobody, so an operation
\* that can take its next step again and again takes it.
FairSpec == Spec /\ \A t \in Thread : SF_vars(Continue(t))

(***************************************************************************)
(* Properties                                                               *)
(***************************************************************************)
\* Every variable keeps its type through every handler, save and restart.
TypeOK ==
  /\ chain \in Seq(Block) /\ ledger \in LedgerType /\ pool \in Seq(Tx)
  /\ disk \in [blocks : Seq(Block), ledger : LedgerType]
  /\ known \subseteq Hash /\ announced \subseteq Hash /\ indexed \in Nat
  /\ writer \in Thread \cup {NoThread} /\ readers \subseteq Thread
  /\ job \in [Thread -> Job]
  /\ dials \in 0 .. PeerCount /\ mined \in 0 .. MaxMined
  /\ restarts \in 0 .. MaxRestarts

\* A chain starts at a genesis block (index 0), and each block has the next index
\* and the hash of the one before.
Linked(c) ==
  /\ Len(c) > 0
  /\ \A i \in 1 .. Len(c) : c[i].index = i - 1
  /\ \A i \in 2 .. Len(c) : c[i].prev = c[i-1].hash

\* Whatever races, swaps and restarts happen, the chain in memory and the one
\* in blocks.json are hash-linked from genesis (verifyBlockAgainstSnapshot).
ChainLinked == Linked(chain) /\ Linked(disk.blocks)

\* What the code checks of no transaction: that amounts and fees are not negative.
AmountsRegular == Debtor = {}
DataRegular    == AmountsRegular /\ Fees \subseteq Nat

\* The minted supply, in memory and in state.json, is never negative, and stays
\* within TotalSupplyCap unless a fine can clear a debt.
MintedCapped ==
  \A led \in {ledger, disk.ledger} :
    led.minted >= 0 /\ (AmountsRegular => led.minted <= Cap)

\* What the accounts of led hold together, and the fees paid in the blocks of c.
Balances(led) == [a \in Address |-> led.accounts[a].balance]
Held(led)     == SumFunction(Balances(led))
FeesOf(txs)   == SumFunction([k \in 1 .. Len(txs) |-> txs[k].fee])
FeesPaid(c)   == SumFunction([i \in 1 .. Len(c) |-> FeesOf(c[i].txs)])

\* With regular data what accounts hold together never exceeds TotalSupplyCap, through
\* rewards cut at the cap, burns that make room for new rewards, forks and syncs.
SupplyCapped == MintedCapped /\ (DataRegular => Held(ledger) <= Cap)

\* No account is overdrawn that no transaction bills, whatever fees and rewards blocks
\* carry: a transaction verified on a snapshot is applied on accounts that other
\* blocks, forks and penalties changed in between.
NeverOverdrawn == \A a \in Address \ Debtor : ledger.accounts[a].balance >= 0

\* Where the transactions of sender a are in c: pairs of a block and a place in it.
SentBy(a, c) ==
  UNION {{<<i, k>> : k \in {n \in 1 .. Len(c[i].txs) : c[i].txs[n].from = a}}
           : i \in 1 .. Len(c)}

NonceAt(c, p) == c[p[1]].txs[p[2]].nonce
Earlier(p, q) == p[1] < q[1] \/ (p[1] = q[1] /\ p[2] < q[2])

\* c holds each sender's transactions with nonces 1, 2, 3, ..., in this order,
\* and the sender's account has the last of them.
InSequence(accts, c) ==
  \A a \in Address :
    /\ {NonceAt(c, p) : p \in SentBy(a, c)} = 1 .. accts[a].nonce
    /\ \A p, q \in SentBy(a, c) : Earlier(p, q) => NonceAt(c, p) < NonceAt(c, q)

\* Replay protection: nonces follow each other along the chain and the accounts
\* are in step with it, so no transaction is ever included twice, through forks,
\* syncs and a pool that outlives them.
NoncesInSequence == InSequence(ledger.accounts, chain)

\* No two transactions of a sender in the chain have the same nonce.
NeverIncludedTwice ==
  \A a \in Address : \A p, q \in SentBy(a, chain) :
    NonceAt(chain, p) = NonceAt(chain, q) => p = q

\* What accounts hold and blocks paid in fees (which go to nobody) was minted; with
\* regular data nothing else was.
Accounted(led, c) ==
  /\ Held(led) + FeesPaid(c) <= led.minted
  /\ DataRegular => Held(led) + FeesPaid(c) = led.minted

\* Holds across rewards, burns by slashing, and rebuilt ledgers.
SupplyAccounted == Accounted(ledger, chain)

\* What a block mints where its reward fits, and what the blocks of c below place i,
\* and all of them, mint in a ledger without penalties.
PaidIn(b)          == IF b.reward <= 0 \/ b.miner = Nobody THEN 0 ELSE b.reward
IssuedBefore(c, i) == FounderAllocation + SumFunction([k \in 1 .. i - 1 |-> PaidIn(c[k])])
Issued(c)          == IssuedBefore(c, Len(c) + 1)

\* Each declared reward fits under the cap in a ledger without penalties (verification
\* asks it of a reward that goes to nobody, too).
WithinCap(c) == \A i \in 1 .. Len(c) : IssuedBefore(c, i) + c[i].reward <= Cap

\* The same accounts at the same nonces; no larger balance or supply, leaving aside
\* accounts in debt, which a fine raises, and the supply that raises with them.
SameAccounts(led, other) ==
  \A a \in Address : /\ led.accounts[a].nonce = other.accounts[a].nonce
                     /\ led.accounts[a].exists = other.accounts[a].exists
NoMore(led, other) ==
  /\ AmountsRegular => led.minted <= other.minted
  /\ \A a \in Address \ Debtor : led.accounts[a].balance <= other.accounts[a].balance

\* The ledger is what the chain replays to, less the penalties, which no block
\* records, unless a reward was paid into room that a burn had made.
LedgerWithinReplay ==
  /\ SameAccounts(ledger, Replay(chain))
  /\ Issued(chain) <= Cap => NoMore(ledger, Replay(chain))

\* With regular amounts a peer that downloads this chain accepts it, although blocks
\* were verified here on a slashed ledger and the peer rebuilds without the penalties;
\* it refuses it exactly when some declared reward does not fit under the cap there.
PeersCanRebuild == AmountsRegular => (RebuildOK(chain) <=> WithinCap(chain))

\* The pool stays sorted (sort.Search relies on it), within its limit, and with
\* one transaction per sender and nonce, also when a fork puts a copy back.
PoolOrdered ==
  /\ Len(pool) <= MaxPool
  /\ \A i, k \in 1 .. Len(pool) : i < k =>
       /\ ~Precedes(pool[k], pool[i])
       /\ ~(pool[i].from = pool[k].from /\ pool[i].nonce = pool[k].nonce)

\* With no save or swap under way the two files agree with each other and with
\* memory; only penalties, which are not saved, may be missing on disk.
DiskUpToDate ==
  (\A t \in Thread : job[t].pc \notin {"save", "finalize", "forkstate", "adopt",
                                      "index", "syncblocks", "syncstate"}) =>
    /\ disk.blocks = chain
    /\ SameAccounts(ledger, disk.ledger) /\ NoMore(ledger, disk.ledger)

\* A final block keeps its place in the chain, whatever forks and syncs bring,
\* for as long as the process runs (a stop may lose a sync not yet saved).
FinalBlockKept ==
  [][restarts' = restarts => \A i \in 1 .. Len(chain) : chain[i].final =>
       i <= Len(chain') /\ chain'[i].hash = chain[i].hash]_<<chain, restarts>>

\* Fork resolution exchanges the tip and nothing else.
ForkReplacesTip ==
  [][\A t \in Thread : At(t, "adopt") /\ ~At(t, "adopt")' /\ chain' # chain /\ restarts' = restarts =>
       /\ Len(chain') = Len(chain)
       /\ SubSeq(chain', 1, Len(chain) - 1) = SubSeq(chain, 1, Len(chain) - 1)]_vars

\* A penalty is for a rejected block: never for one that is in the chain.
PenaltyOnlyIfRejected ==
  [][\A t \in Thread : At(t, "slash") /\ ledger' # ledger /\ ~At(t, "slash")' =>
       job[t].block.hash \notin HashesOf(chain)]_vars

\* MineBlock commits a block from the current mempool: a block mined on the tip
\* the chain still has is not rejected.
MinedBlockAccepted ==
  \A t \in Thread : At(t, "slash") =>
    ~(job[t].block.hash \in {LocalHash[k] : k \in 1 .. mined}
        /\ job[t].block.prev = LastOf(chain).hash)

\* The abstract specification: what the node's chain and ledger look like when
\* goroutines, locks and files are hidden.
Store == INSTANCE ChainStore WITH
  epoch <- restarts, Verifies <- Accepted, Applied <- ApplyBlock,
  Rebuilds <- RebuildOK, Rebuilt <- Replay, Founded <- GenesisLedger

\* Every interleaving of votes, commits, fines, forks and syncs looks like a
\* single store that changes the chain and the ledger together (AddBlock,
\* ResolveFork, replaceChain, tryFinalizeExistingBlock, LoadState).
ImplementsStore == Store!Spec

\* Every operation ends: no goroutine waits for a lock forever.
OperationsEnd == \A t \in Thread : job[t].pc # "idle" ~> job[t].pc = "idle"
=============================================================================
