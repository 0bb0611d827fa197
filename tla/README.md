# CoCaX core: TLA+ models and proofs

CoCaX is a small proof-of-work chain with validator votes on top. One process keeps the whole
state in memory behind one read-write lock, saves it as two JSON files, and lets HTTP handlers,
one goroutine per inbound peer connection and one goroutine per dialled peer work on it at once.
This directory holds the models of that program, the TLC configurations that check them, and
TLAPS proofs about them. Paths below are relative to the repository (`core/...`).

## 1. Inventory

| component | state | operations | what makes it correct |
| --- | --- | --- | --- |
| Account ledger (`core/consensus.go`, `core/fork.go:93`) | `Accounts`, `MintedSupply` | `VerifyBlock`, the apply loop of `AddBlock`, `DistributeRewards`, `applyPenaltyLocked`, `CreateBlockTemplate`, `rebuildStateFromChain` | no account overdrawn that no negative amount bills, nonces in sequence, supply within the cap and accounted for, a rebuild agrees with what was applied |
| Block pipeline (`core/consensus.go:296`) | `Chain` | `AddBlock`, `MineBlock` | the chain is linked at every interleaving; a penalty hits only a rejected block |
| Mempool (`core/mempool.go`) | `Mempool` | `AddTxToMempool`, emptied by `AddBlock` | sorted, no two transactions of one sender and nonce, within its limit, no pending transaction lost |
| Fork resolution (`core/fork.go:15`) | (a private copy) | `ResolveFork` | exchanges the tip only, chain and ledger together |
| Chain sync (`core/network.go:302-497`) | (the peer's chain) | `connectPeer`, `applySyncedBlocks`, `replaceChain` | never rolls back a final block; chain and ledger together |
| Gossip and block index (`core/network.go`) | `knownBlockHashes`, `indexedHeight`, `finalizedBroadcasts`, `seenBlockHashes`, `seenTxIDs` | the `block`, `tx`, `get_blocks`, `verify_block` handlers, `BroadcastBlock`, `BroadcastTx`, `refreshKnownBlocks`, `indexExistingBlocks` | a block of the chain is known; what is accepted is offered to the peers; finality reaches the peers |
| Persistence (`core/storage.go`) | `blocks.json`, `state.json` | `SaveState`, `LoadState` | a restart finds a chain and its ledger |
| Finalization (`core/finalization.go`) | the `Finalized` mark | threshold, mark | two thirds of the active validators, never unmarked |
| Validator registry (`core/validator.go`), sequence votes (`core/verification.go`) | `ValidatorSet`, a block's `Verifications`, `BlockVerifications`, `VerifiedSequence` | `ReplaceValidatorSet`, both `AppendVerification`, the merge of votes in `AddBlock` | a final block has a quorum of different voters; two final siblings share a validator. The registry is filled by tests only: the node starts with an empty one |
| Difficulty and PoW (`core/difficulty.go`) | none | `ExpectedDifficulty`, `CalculateNewDifficulty`, `MineBlockPoW` | every way into the chain but a full sync keeps the schedule, steps are damped and rounded |
| Cryptography (`core/crypto.go`) | none | hashes, signatures, addresses, `BlockReward` | |
| HTTP API (`rpc/server.go`) | a transaction-count cache | `POST /tx`, `POST /mine`, read handlers, JSON-RPC | the cache agrees with the chain |
| Node command (`cmd/node/main.go`) | flags, keys | start, mine at startup | |
| Wallet (`wallet/app.js`) | browser storage | sign and post | |

How they interact. Every component above the files reads and writes one `ChainState` under its
lock. HTTP handlers call `AddTxToMempool` and `MineBlock`; the connection handlers call
`tryFinalizeExistingBlock`, `ResolveFork` and `AddBlock`; the dialling goroutines call `AddBlock`
block after block, or `replaceChain`. `AddBlock` and `replaceChain` call `SaveState`, and so does
`ResolveFork`, through an `AddBlock` on its private copy. `MineBlock` and the `block` handler end
in `BroadcastBlock`, which updates the block index.

What is hard.

* *Work spread over several critical sections.* `AddBlock` takes its vote on a snapshot and
  commits later; `ResolveFork` compares, rebuilds from a slice of the chain read without the
  lock, saves, and swaps; `replaceChain` checks finality on a copy and swaps later. Any other
  goroutine may run in between.
* *Two files, no journal.* A stop between the two writes leaves a chain and a ledger that do not
  belong together, and `ResolveFork` writes both without the node's lock.
* *A ledger that is not a function of the chain.* Penalties burn coins in memory and no block
  records them, so a ledger with penalties and the ledger the chain rebuilds to differ.
* *Data nobody checks.* No amount, fee or reward has its sign checked, a block's transaction may carry
  any fee, a block may name no miner, and a served chain may declare any difficulty. What holds
  whatever the data are, and what holds for regular data only, are different statements.
* *Caches under another lock than what they describe.* The seen caches, the block index and its
  height belong to the P2P node; the chain belongs to `ChainState`. Each refresh or record reads
  one, unlocks, and writes the other.
* *One rule, several views of the chain.* A block's difficulty is checked against the whole chain,
  the chain below the tip, or no chain, depending on the way it comes in.
* *Duplicated, reordered, stale messages.* Peers gossip any block at any time; a block's finalized
  copy may come before, after or between the steps of anything else.

`PROJECT.json` lists each hazard at its line with the properties aimed at it.

## 2. Modules

| module | models | notes |
| --- | --- | --- |
| `Ledger` | transactions, rewards, penalties, block verification and application, rebuild | pure operators, no variables |
| `Quorums` | the finalization threshold | pure operator, shared by `Finalization` and `Votes` |
| `Finalization` | the mark and the node's own vote, for a fixed number of active validators | pure operators, EXTENDS `Quorums` |
| `ChainStore` | what a node promises of its chain and ledger | abstract specification |
| `Node` | one node: `ChainState`, its files, its goroutines | EXTENDS `Ledger`, `Finalization`; implements `ChainStore` |
| `Gossip` | the caches of one P2P node, step by step | the chain is its entries, verification an outcome |
| `Difficulty` | the schedule, and the ways into a node's chain past it | peers serve chains of any difficulty |
| `Votes` | the registry and the votes on competing blocks | EXTENDS `Quorums` |
| `MCNode`, `MCGossip`, `MCDifficulty`, `MCVotes` | the small instances for TLC | constants and symmetry only |
| `Induction` | recursive functions satisfy their equations; sums over finite sets and sequences | lemmas only |
| `LedgerProofs` | what `Ledger`'s operators preserve | lemmas and theorems |
| `NodeProofs` | the inductive invariant of `Node`, the order of its pool, its refinement of `ChainStore` | theorems |
| `AccountProofs` | supply, nonces and replay: what the ledger means at every interleaving | theorems |
| `SerialProofs` | files, forks and final blocks when operations do not overlap | theorems |
| `GossipProofs`, `DifficultyProofs`, `VotesProofs` | the properties of these modules | theorems |

Why four state machines and not one. `Node` has what touches the ledger and the files, `Gossip` what
touches the caches, `Votes` what touches the votes of a block, `Difficulty` what looks back along a
chain. Each takes the others by their outcome: in `Gossip` a block may be refused for any reason, in
`Node` the use of a cache is one step, in `Difficulty` votes and ledgers always agree. The steps of a
fork and of a full sync are in both `Node` and `Gossip`, because what they swap in may be older than the
ledger as well as older than the index. Their
product is out of TLC's reach, and each hazard in `PROJECT.json` needs one of them only.

### State of `Node`

| variable | code |
| --- | --- |
| `chain`, `pool` | `ChainState.Chain`, `.Mempool` |
| `ledger` | `ChainState.Accounts` and `.MintedSupply` |
| `disk.blocks`, `disk.ledger` | `blocks.json`, `state.json` |
| `known`, `indexed`, `announced` | `knownBlockHashes`, `indexedHeight`, `finalizedBroadcasts` |
| `writer`, `readers` | who keeps `ChainState.mu` while it saves |
| `job[t]` | the operation goroutine `t` runs, the step it is at, its local variables |
| `dials`, `mined`, `restarts` | how many operations of a kind are left or were used (bounds) |

### Steps of `Node`

A goroutine is a thread `t` whose `job[t].pc` names the step that comes next. A step is what the
code does between two points where another goroutine can run or the process can stop with an
observable difference. Code that takes the lock, works and releases it is one action that waits
for the lock (`CanRead`, `CanWrite`); only a save keeps the lock over two actions, because the
process can stop between its two writes.

```
POST /tx, "tx"    SubmitTx
POST /mine        Mine -> vote ----------------------------+
"block"           Receive -> finalize -> announce          |
                        \-> gate -> fork -> vote ----------+--> commit -> save -> announce
                                      \                    \--> slash
                                       \-> rebuild -> forkblocks -> forkstate -> adopt -> announce
connectPeer       Dial -> sync -> vote (one block after the other)
                            \-> full -> replace -> index -> syncblocks -> syncstate
process           Restart
```

| action | code |
| --- | --- |
| `SubmitTx` | `AddTxToMempool`, whole |
| `Mine` | `handleMine` to `CreateBlockTemplate` and PoW; the template is built from one read of the state |
| `Vote`, `Slash`, `Commit`, `Save` | `AddBlock`: the vote on a snapshot; the penalty; the second check and the apply loop with `blocks.json`; `state.json` |
| `Receive`, `Finalize` | `tryFinalizeExistingBlock`: the mark with `blocks.json`; `state.json` and `finalizedBroadcasts` |
| `Gate` | `hasSeenBlock`, `chainHasBlock` with `refreshKnownBlocks` |
| `Announce` | `BroadcastBlock` up to its sends |
| `Fork`, `Rebuild`, `ForkSaveBlocks`, `ForkSaveState`, `Adopt` | `ResolveFork`: comparison; unlocked slice, rebuild and the private `AddBlock`; its save; the swap |
| `Dial`, `Sync` | `connectPeer`'s handshake; `applySyncedBlocks` |
| `Full`, `Replace`, `Reindex`, `SyncSaveBlocks`, `SyncSaveState` | `replaceChain`: finalized check and rebuild; the swap; `indexExistingBlocks`; the save under a read lock |
| `Restart` | a stop at any point, then `LoadState` and `NewP2PNode` |

### `ChainStore`, and how `Node` implements it

The store has `chain`, `ledger` and `epoch`. `Store` in `Node` instantiates it with `Ledger`'s rules
and `epoch <- restarts`. `Commit` maps to `Extend`, `Slash` to `Fine`, `Vote` and `Receive` to
`Finalise` or a stutter, `Adopt` and `Replace` to `Install`, `Restart` to `Reload`; every other step
stutters. The store never shows a chain with another chain's ledger while a process runs; after a stop it may show
an older ledger, which is what the two files allow.

### State and steps of `Gossip`

`seenTx`, `seenBlk`, `known`, `indexed`, `announced` are the fields of `P2PNode`; `chain` and `pool`
are the node's, reduced to hash, parent and final mark, and to transaction IDs. `job[t]` is a handler
with its local copies: the blocks `refreshKnownBlocks` copied, the height `recordBlockHash` read, the
chain a fork or a full sync is about to swap in, the pool a fork puts back. `outBlk` and `outTx`
remember what was offered to the peers, `accepted`, `indexedBy`, `synced` and `restored` how a hash got in.

```
"block"     Receive -> seen -> refresh (-> record) -> lookup -> fork -> add -> cast -> check -> height -> known -> send
                 |                                               \-> base -> adopt --^   \------ forced ----^
                 \-------------------- finalized ------------------------------------^
POST /mine  Mine ------------------------------------------------------------------> cast
"tx"        ReceiveTx -> txadd -> txcast -> txsend         POST /tx  PostTx -> txadd -> ...
connectPeer SyncAppend;   FullSync -> replace -> copy -> index
clock       Expire
```

Each arrow is a point where the lock is free. `Fork` compares the candidate with the tip under the read
lock, `Base` slices the chain again without one and rebuilds, `Adopt` swaps; `FullSync` is the finalized
check and the rebuild, `Replace` the swap. `Expire` is the TTL of an entry or the trimming of a full cache;
`knownBlockHashes` has neither.

### State and steps of `Difficulty`

`chain` is the chain of one node, its blocks pairs (declared difficulty, timestamp), and `installed` how
many of them a full sync brought. `Mine` declares what `ExpectedDifficulty` says; `Gossip` appends or
refuses a block from elsewhere; `Fork` exchanges the tip for a sibling; `FastSync` and `FullSync` take
blocks of a chain in `Served`, which may be any chains on the genesis block. Each makes the check of its
path: `verifyBlockAgainstSnapshot` on a snapshot with the chain, with the chain below the tip, or, in
`rebuildStateFromChain`, with none, so that it expects the initial difficulty of every block.

### State and steps of `Votes`

`registry` is `ValidatorSet`; `block[c]` has the vote fields of candidate `c`; `call[c]` is the vote an
`AppendVerification` has checked but not yet entered. `AddBlock` merges the votes a block arrived with
and the node's own, `Check` and `Count` are the two critical sections of `AppendVerification`,
`ReplaceValidatorSet` may run between them, `AppendSequence` is `Block.AppendVerification`, on a sequence
that may have come with the block in any form: it is not in the block's hash and nothing looks at it.
`decided[c]` remembers who was active when `c` became final here.

### Abstractions

* Amounts, fees and rewards are integers of either sign: the rounding of `float64` is left out. The
  code asks `FixedFee` of a transaction that enters the mempool and of no other, so a transaction
  carries its fee, and `Fees` and `Debtor` say which fees occur and which addresses are paid negative
  amounts. `DataRegular` (no debtor, no negative fee) and `AmountsRegular` (no debtor) are hypotheses
  of the properties that need them, never assumptions of the model. `Nobody` is the empty address: a
  block that names no miner pays nobody.
* The account map is total. An address the code's map does not hold has `exists = FALSE` and zero
  fields, as Go's lookup gives.
* Hashes identify blocks. In `Node` signatures, difficulty and PoW always pass. A block's
  coinbase is the pair (miner, reward); `founder` is whom a block's first transaction pays, which the
  rebuild reads off the first block of a chain.
* A block's verifications are the set of names whose vote is accepting. `AddBlock`'s external
  verifiers are left out: no caller outside the tests passes any. Votes that name a peer twice or no
  peer, which `ResolveFork` refuses without changing any state, are in `Gossip` (the candidate is
  dropped) and in `Votes`. In `Finalization` the node's accepting vote is added also where the block
  came with a rejecting vote `local`, which would stand in the code: nodes pass on accepted blocks.
* Peers are the environment. The blocks they gossip and the chains they serve are constants; they
  may send any of them at any time and any number of times. `MCNode` assumes that the chains served
  verify at the peer (`PeersAreHonest`); the proofs do not.
* A sync that fails on the network changes no state of this node and is a `Dial` that goes idle.
* One file write is atomic and does not fail. A first run that finds only one of the files is not
  modelled.
* In `Node`, `hasSeenBlock`'s cache is taken equal to the index (`known`), and each use of the index is
  one step. `Gossip` has the cache with its expiry and every step apart.
* In `Gossip`, `AddBlock` is one step, the one in which it appends under the lock after verifying again;
  a fork's save is left out. `Node` has both. `indexedHeight` is read without the node's lock in `refreshKnownBlocks`: a data race on one word,
  modelled as a read of its present value.
* In `Difficulty` equal prefixes stand for equal parent hashes, and nothing checks timestamps. A fork
  may be won by either sibling. Peers are an environment there too, so one node is enough.
* In `Votes` signatures are checked outside; two `AppendVerification` do not run at once on one block,
  as its comment asks of callers.
* Mining at startup (`cmd/node/main.go`) does not broadcast; `Mine` always does.
* `Rebuild` reads a slice of the chain without the lock. If the chain has become shorter than the
  slice the code panics; `Rebuild` ends the operation there, and `Restart` covers the stop.
* The registry of validators is the constant `ActiveValidators`. The node never registers any, so
  its own threshold is -1 and finality arrives with gossiped and synced blocks; the instances use 3
  active validators (threshold 3) so that the mark can also be set here, which the constant allows
  either way.

## 3. Runs

The runs of `MCNode`: addresses F (founder, and this node's miner), P (peers' miner), A (known only by
being paid) and `nobody`; the shared genesis `g`; block `x1` and its sibling `y1` (confirmed by one more
validator, paying A), the finalized copy `y1f`, block `y2` on `y1` in which A spends and which names no
miner, a third sibling `z1` with a negative reward and, in one form, a transaction that bills P, and a
chain on another genesis `h`. The mempool's fee is 1; A's transaction in `y2` carries 2 or, in
`NodeSequential`, -1. The base reward is 4, halved every 2 blocks.

| run | expect | properties | states | bounds |
| --- | --- | --- | --- | --- |
| `NodeSequential` | pass | `PoolOrdered`, `DiskUpToDate`, `ChainLinked`, `NeverOverdrawn`, `FinalBlockKept`, `ForkReplacesTip`, `ImplementsStore` | 397,947 | 1 goroutine, 2 templates, 1 stop, cap 16, all chains and kinds of blocks, data of either sign |
| `NodeConcurrent` | pass | `TypeOK`, `ChainLinked`, `NoncesInSequence`, `SupplyCapped`, `SupplyAccounted`, `LedgerWithinReplay`, `PeersCanRebuild`, `ImplementsStore` | 675,479 | 2 goroutines, symmetric, 1 template, cap 15, one peer chain, regular amounts and fees |
| `NodeLive` | pass | `OperationsEnd` | 95,246 | 2 goroutines, 1 template, fair |
| `Gossip` | pass | `TypeOK`, `KnownCoversChain`, `OfferedUnlessIndexed`, `FinalRemembered`, `PendingOffered` | 1.49 million | 2 handlers, symmetric, 1 block mined, 1 sync, 1 expiry, 1 transaction |
| `Difficulty` | pass | `TypeOK`, `ScheduleFollowed`, `RetargetDamped`, `RetargetNearest` | 36,289 | window 2, chains of up to 7 blocks, 91 served chains |
| `Votes` | pass | `TypeOK`, `FinalByDistinctVoters`, `QuorumIsFinal`, `QuorumsShareValidator`, `TallyAgrees` | 338,351 | 5 validators, 2 candidates, 1 registry replacement |
| `StalePool` | violation | `MinedBlockAccepted` | | 1 goroutine |
| `PenaltyInChain` | violation | `PenaltyOnlyIfRejected` | | 2 goroutines, gossip only |
| `FinalRollback` | violation | `FinalBlockKept` | | 2 goroutines |
| `TornSave` | violation | `NeverIncludedTwice` | | 1 goroutine, 1 stop |
| `FinalityStops` | violation | `FinalityForwarded` | | 1 handler, one block and its final copy |
| `RetargetRebuild` | violation | `RebuildFollowsSchedule` | | window 2, no served chain |

What the passing runs show.

* `NodeSequential`: with operations that do not overlap, the pool stays ordered and free of
  duplicates through forks that put an old copy back; the two files agree with memory whenever no
  save is under way, penalties excepted; a final block keeps its place while the process runs; a fork
  exchanges the tip only. After a stop at any step, with whatever mixture of the two files, the chain is
  linked and no account is overdrawn but those a negative amount bills, although blocks carry
  negative fees, amounts and rewards here. Nonces and accounting are not kept across a stop: `TornSave`.
* `NodeConcurrent`: with two operations interleaved at every step, the chain stays linked, every
  sender's nonces in the chain are 1, 2, 3, ... with the account in step, each coin minted is in an
  account or was paid as a fee, at the amount its transaction carries, and all accounts stay under the
  cap, the ledger has the accounts and nonces of the chain's replay and no larger balance while what the
  chain pays out fits under the cap, and the chain rebuilds at a peer exactly as long as each declared
  reward fits. Some blocks declare a negative reward or name no miner. A reader of chain and ledger sees
  one store that changes them together. `FinalBlockKept` is *not* kept here (`FinalRollback`), nor is
  `ForkReplacesTip`: a block committed during a fork's rebuild is dropped with its transactions (a
  hazard at `core/fork.go:84`).
* `NodeLive`: every operation ends, whatever it waits for.
* `Gossip`: however two handlers, a sync and an expiring cache interleave, a block of the chain is in the
  index or in the hands of a handler about to put it there, so that the duplicate gate holds; what is
  mined or accepted is offered to the peers, and so is every pending transaction. Three exceptions
  are named in the properties because the code has them: a block that a *sync appended* may be
  missed for good once `recordBlockHash` has raised the height past it (`KnownCoversChain`,
  `FinalRemembered`, the set `synced`); a block, or a final mark, that a *fork brings back* after full
  syncs replaced the chain it had copied may never have been recorded (the same two, the set
  `restored`); and a block that *another handler's refresh recorded* between its commit and its
  broadcast is taken for one already sent (`OfferedUnlessIndexed`). The second takes a fork and two
  full syncs at once: with the two handlers of this run `restored` stays empty, so the properties hold
  here without it, and with three handlers and two syncs TLC finds states in which it is not.
* `Difficulty`: a block that came in by mining, gossip, a fork or a fast sync has the difficulty the
  schedule asks for at its place, damped and rounded. A full sync is both stricter and laxer:
  `rebuildStateFromChain` expects the initial difficulty of every block, so it refuses what follows the
  schedule past a retarget (`RetargetRebuild`) and accepts a chain of initial difficulty where a
  retarget asks for more; `ScheduleFollowed` names the latter as its exception, and the run has such
  chains. The damping is the documented factor of four, up to rounding: the run goes from 5 to 1, a
  fifth, which `RetargetDamped` admits and `src/README.md` does not (a finding, and `QuarterUndercut`).
* `Votes`: a block that becomes final has enough *different* accepting voters, although duplicate
  and foreign votes, and verified sequences that are none, arrive with blocks and
  the registry changes between the two sections of `AppendVerification`; two siblings final under the same validators share one that accepted both.
  The property excludes four and six active validators: there `ceil(2n/3)` with the node's own vote
  counted leaves no overlap (three of four are two validators and `local`). It also excludes votes
  of names outside the registry, which `AddBlock` counts. Neither is stated otherwise anywhere in the repository.

What the violations show (each is a finding with the line it contradicts): a pool that outlives a
sync holds what the new chain already includes, and makes mining on the current tip fail and slash
the miner (`StalePool`); a block delivered twice at once slashes the miner of an accepted block
(`PenaltyInChain`); a block finalized during a full sync is rolled back (`FinalRollback`); a stop
between the two files lets a transaction be included again (`TornSave`); a node that marks a block
final on a peer's word does not forward the final copy, because it has already noted it as forwarded
and the block as seen (`FinalityStops`); after one retarget a chain that follows the schedule cannot
be rebuilt, so that no fork on it and no full sync to it succeeds (`RetargetRebuild`).

Two findings belong to passing runs, where the code keeps a property that the documentation denies or
bounds more tightly: transactions *are* broadcast to peers (`PendingOffered`, against
`README.md:397` of the repository), and a retarget may fall below a quarter (`RetargetDamped`, against
`README.md:113`).

Why the bounds are enough. Two goroutines are what every race in the inventory needs: one between
two of its steps, the other committing, swapping or finalizing. A fork needs height 1 and two
siblings; a commit on the new tip needs height 2; a chain on another genesis makes the full sync
replace everything, and one longer than the chain up to `y1` shows that it may not when `y1` is final.
Two templates let a node mine, lose the race and mine again, and reach the first
halving. `MaxPool = 2` with three admissible transactions reaches the limit. `Cap = 16`, and 15 in
`NodeConcurrent`, bring the cap within reach after two blocks, and burns then make room for further
rewards. In `NodeConcurrent` one peer chain is enough for both the
fast path (after the genesis) and the slow one (after a sibling); `SupplyCapped` needs burns and
rewards near the cap to interleave, so it is checked there. In `Gossip` a block `x1` and its final
sibling `y1` reach the exchange of the tip, the forced broadcast and the late final mark, and the served chain,
on which `y1` is not final and `y2` is, both sync paths; one expiry makes any one cached entry new
again; the proofs of section 4 lift all these bounds. In `Difficulty` a window of two with seven blocks
has three retargets, what it takes to climb from 1 to 5 and fall to 1; the times make windows that
are too fast, too slow, a little fast, and negative, the declared difficulties include a missing one
and one above the limit, and the served chains stay at the initial difficulty where their first
window was fast, or follow the schedule upwards.
In `Votes` five validators need four votes and three need three, with blocks that arrive without
votes, with a repeated one, already final, or with a map that contradicts the list. `Votes` stops when both
blocks are final and the replacement is used up (no more votes are taken), hence `CHECK_DEADLOCK FALSE` there;
every other run checks deadlock: an idle node can always receive a block.

At the cap a chain can become one that no peer accepts: a penalty burns supply here, a reward then
fits here, and it does not fit in a ledger rebuilt without the penalty. `PeersCanRebuild` says when:
if and only if a reward the chain declares does not fit under the cap on top of what the blocks below it
pay out (`WithinCap`); a reward to nobody must fit too, though it is not paid, and a negative one pays
nothing. `LedgerWithinReplay` holds while everything paid out fits (`Issued`). It is a hazard in
`PROJECT.json`. Both are stated without negative amounts: a fine on a debt would mint here what no
peer mints.

Fairness. `FairSpec` asks for strong fairness of `Continue(t)`, goroutine by goroutine: the Go
scheduler runs every runnable goroutine, and `sync.RWMutex` lets no waiter starve (a waiting writer
holds off new readers), so a goroutine that can take its next step again and again takes it. It is
strong because other goroutines may close the lock in between. Starting an operation (`Begin`,
`SubmitTx`) and `Restart` are not fair: clients and peers need not act.

## 4. Proofs

`tlapm` checks the eight proof modules to the last leaf. The theorems hold for every value of the
constants that satisfies the named assumptions of the modules (`LedgerAssumption`,
`AddressAssumption`, `FinalizationAssumption`, `RegistryAssumption`, `NodeAssumption`, `GossipAssumption`,
`DataAssumption`, `DifficultyAssumption`, `GenesisAssumption`, `ServedAssumption`, `VotesAssumption`):
any number of goroutines, addresses, blocks, peers, templates, restarts and validators, any cap and
window, and blocks with any amounts, fees and rewards, of either sign. A theorem that needs regular
data says so in its statement. The assumptions are typing, plus:

* `NodeAssumption`, `GossipAssumption`: a served chain is not empty and starts at a genesis block
  (index 0 in `Node`; the shared one in `Gossip`). Nothing says that peers are honest.
* `GenesisAssumption`, `ServedAssumption`: in `Difficulty` every chain starts at the one genesis block, of
  the initial difficulty, and served chains fit the bound. They may have any difficulties.
* `DifficultyAssumption`: the target timespan is positive and a multiple of four, and the initial
  difficulty is one, as in the code (60,480 s and 1).
* `AddressAssumption`: there are finitely many addresses, so that what all accounts hold is a number.
* `VotesAssumption`: validators are finitely many, and `local` is not one of them.

| theorem | states |
| --- | --- |
| `NodeProofs`: `InductiveInvariant` | `Spec => []IInv` |
| `TypeCorrect`, `ChainAlwaysLinked`, `NeverOverdrawnAlways`, `MintedAlwaysCapped` | `TypeOK`, `ChainLinked`, `NeverOverdrawn`, `MintedCapped` are invariants of `Node` |
| `PoolAlwaysOrdered` | `PoolOrdered` |
| `NodeImplementsStore` | `Spec => ImplementsStore` |
| `AccountProofs`: `SupplyAlwaysCapped` | `SupplyCapped`, through restarts on a torn save |
| `SupplyAlwaysAccounted`, `NoncesAlwaysInSequence`, `LedgerAlwaysWithinReplay`, `PeersCanAlwaysRebuild` | `SupplyAccounted`, `NoncesInSequence`, `LedgerWithinReplay`, `PeersCanRebuild`, until the first restart |
| `IncludedOnce` | `NeverIncludedTwice` (of the `TornSave` run) until the first restart |
| `SerialProofs`: `DiskAlwaysUpToDate`, `ForksReplaceTip` | `DiskUpToDate`, `ForkReplacesTip`, with one goroutine and any restarts |
| `FinalBlocksKept` | `FinalBlockKept`, with one goroutine, as long as hashes identify blocks and no two siblings are final |
| `LedgerProofs`: `RebuildSound` | a chain that `RebuildOK` accepts replays to a sound ledger |
| `RebuildAppend` | `RebuildOK` survives appending a block that its replay verifies |
| `DifficultyProofs`: `TypeCorrect`, `ScheduleAlwaysFollowed`, `AlwaysDamped`, `AlwaysNearest` | `TypeOK`, `ScheduleFollowed`, `RetargetDamped`, `RetargetNearest` |
| `QuarterUndercut` | after a window of `4 * Target` or more the schedule takes 5 to 1 |
| `GossipProofs`: `TypeCorrect`, `IndexComplete`, `BlocksOffered`, `TransactionsOffered`, `FinalsRemembered` | `TypeOK`, `KnownCoversChain`, `OfferedUnlessIndexed`, `PendingOffered`, `FinalRemembered` |
| `VotesProofs`: `TypeCorrect`, `FinalNeedsVoters`, `QuorumsAreFinal`, `TalliesAgree` | `TypeOK`, `FinalByDistinctVoters`, `QuorumIsFinal`, `TallyAgrees` |
| `QuorumsIntersect` | two quorums of `ThresholdFor(n)` among `n` validators and `local` share a validator, for a minimum of 3 and `n` not 4 or 6 |
| `FinalsShareValidator` | `QuorumsShareValidator`, for `FinalizationThreshold >= 3` (the code's 3) |

**Node.** None of its invariants is inductive. A swap (`Adopt`, `Replace`) installs a chain
computed several steps earlier, and a restart installs whatever is in the files, so `IInv` also says
of every goroutine about to save or install a chain that this chain is linked and replays to a sound
ledger (`JobOK`), and of each file, by itself, that it is linked or sound (`DiskInv`): the two files
need not belong together, and after a torn save they do not. A ledger is *sound* (`SoundLedger`) when it
is typed, its supply is not negative and, without debtors, within the cap, and no balance is negative but
a debtor's, whatever fees and rewards occur. The heart is
`ApplyBlockSound`: verification runs the transactions on the accounts *without* the reward, while
the commit pays the reward first; `RunCovered` follows the two runs in step and shows that the
second has the same nonces and never a smaller balance, so what verifies cannot overdraw.
`RebuildSound` repeats it along a chain by induction on its length.

**The pool.** `PoolOrdered` alone is not inductive, because a fork puts back the copy it took of the
pool: the invariant says of every goroutine's copy too that it is sorted, within the limit and free
of duplicates, and `KeptStep` that a step leaves a copy alone, drops it, or takes it from the pool.
`InsertedAt` says what `sort.Search` finds in a sorted pool, `InsertedSorted` that the pool stays sorted.

**ChainStore.** The refinement rests on the same `IInv`, which says of a goroutine about to install a
chain that it rebuilds. `StoreCommit`, `StoreSlash`, `StoreReceive`, `StoreInstall` and `StoreReload`
show of each action that matters that it is the store's action of section 2 or leaves chain and
ledger alone. `Slash` needs sound balances for the bound on the fine, `Restart` needs `DiskInv`.

**The meaning of the ledger.** The refinement pays off here: a step of the node that is not a restart
extends the chain, fines, finalises or installs a rebuilt chain (`RunStep`, `FirstRunStep`), so each
theorem of `AccountProofs` has four cases instead of twenty. What they have in common is an argument
in two halves, along a chain that replays from genesis (`ChainInduct`) and along the steps.

* *Supply.* `TxTotal`, `RunTotal` and `BlockTotal` follow the sum of all balances through
  transactions and blocks: fees leave the accounts, rewards enter accounts and supply alike.
  `FineTotal` says what a fine takes and what it burns, the same unless less was minted than the
  accounts hold. With regular data that never happens, because ledgers stay `Backed`: a statement
  about a ledger without its chain, which survives a ledger paired with the wrong chain and so gives
  `SupplyCapped` through restarts. With data of either sign `Accounted` keeps one direction: accounts
  and fees together are never more than what was minted.
* *Nonces.* `RunNonces` says that the transactions of a verified block continue each sender's
  nonces without a gap; `InSequenceAppend` carries it to the chain. A fine changes no nonce and a
  mark no transaction.
* *Replay.* `Follows` joins `LedgerWithinReplay` and `PeersCanRebuild`, because neither is inductive
  alone: a block is verified on the *fined* ledger, and whether it verifies on the replay depends
  on how the two compare. They have the same nonces and accounts and the replay has no less, so its
  transactions pass (`TxsOKRicher`), and its reward passes exactly if it fits under the cap on top of
  what the chain pays out (`RebuildMints`). Above the cap the chain no longer rebuilds and stays so when blocks
  are added, until a fork or sync installs one that does.

These say `restarts = 0` because a restart after a torn save pairs a chain with the ledger of an
earlier one; `TornSave` shows what comes of it. `SupplyAlwaysCapped` and everything about `IInv`
need no such hypothesis.

**One operation at a time.** `DiskUpToDate`, `ForkReplacesTip` and `FinalBlockKept` are false when
operations overlap (`FinalRollback`, and the hazards at `core/fork.go:80` and `:84`), so their theorems
assume `OneGoroutine`; stops and restarts at any step are allowed. `Serial` says for each step of an
operation what the files and the rebuilt chain are then: during a save the first file is written and
the second is not, during a fork the files are ahead of memory. `FinalBlocksKept` also assumes of
every state that blocks with one hash have one parent (`HashesIdentify`; `BlockHash` covers the
previous hash) and that a final candidate's sibling in the chain is not final (`NoFinalSiblings`;
what `FinalsShareValidator` gives if no validator accepts two siblings); every state of
`NodeSequential` satisfies both. `ResolveFork` would otherwise exchange final tips by counting votes.
The full sync looks at the last final block only, and `LastFinalKeepsAll` shows that this is enough,
because two chains that share a block share everything below it.

**Gossip.** The properties speak of what a handler *is about to do*, so the argument follows a hash
from hand to hand. `CacheInv` has, besides the types, one conjunct per property (`IndexInv`, `OfferInv`, `PoolInv`,
`FinalInv`): it adds what the caches owe each other (a hash marked as seen is known, and was offered or indexed; a
transaction marked as seen was offered). The `...Handover` lemmas say once that a step of one handler
keeps the conjunct if whatever it lets go of has been recorded; the actions are then cases of them. A fork
also holds a copy of the chain and of the pool: of the pool `PoolInv` says that whatever is in a copy was
offered or is about to be (`KeptStays`), of the chain nothing is promised, and what is then in the chain
and in no cache is `restored`. Neither exception can be dropped: `Known` sets `indexed` to a length read
before, past blocks a sync has appended, and `Adopt` swaps in a copy that two full syncs may have made old.

**Difficulty.** The invariant says of each block that it is on the schedule or below `installed` with
an initial prefix: an appended block leaves the prefixes below it alone (`FollowsAppend`), a full sync
installs a chain that rebuilds as a whole, and a fork rebuilds what is below the tip. `AlwaysDamped` and `AlwaysNearest` are arithmetic: the clamped
duration is between `Target \div 4` and `4 * Target` (`ElapsedBounds`), and `RescaledDamped` and
`RescaledNearest` bound the rounded quotient, from two facts on quotients and products (`Division`,
`Monotone`) that the solver has to be given. They hold for chains off the schedule too: a chain that
rebuilds never changes its difficulty.

**Votes.** The invariant says that the list of a block has each name once (`WithVote` keeps it so,
along `Merged`), and that a vote between `Check` and `Count` is of a name not yet in it. Entries
that accept are then as many as names that accept (`FinalByDistinctVoters`); `FinalsShareValidator`
follows by counting: two sets of at least `ThresholdFor(n)` among `n + 1` names that meet in `local`
alone would have more members than there are. `QuorumIsFinal` and `TallyAgrees` hold because each
operation that enters votes ends in their evaluation (`Evaluated`), and no other touches a list.

`Induction` exists because the library's induction theorem takes a predicate as a parameter, which
the provers cannot instantiate. `RecursionExists` shows, with a predicate made into a set, that a
step function has a solution over `0 .. N`; the recursive functions of the models (`Run`, `Ledgers`,
`BlockReward`, `Merged`, and sums) then satisfy their equations. Facts about sums over the set of
addresses are by induction on finite subsets, in the same form.

Checked by TLC only: the liveness property `OperationsEnd` (temporal reasoning under fairness is out
of the prover's reach). Every other property of a passing run is the subject of a theorem, some with
the hypothesis named in the table. What a recursive function computes is used through its
equations; no theorem evaluates one.

## 5. Not modelled, and why

* The PoW search: how many attempts it takes is a probability. `Difficulty` has the target it is
  given.
* Cryptography: a hash is an identity, signatures pass or the message is dropped.
* Read-only handlers, JSON-RPC and the transaction-count cache: they change no shared state. Two of
  them read stale or torn values (hazards at `rpc/server.go:343` and `:162`).
* The wallet: a browser client.
* Sending to peers: nothing of this node's state depends on whether a send succeeds.
* A write that is itself cut short: it would leave a file that `LoadState` cannot parse, and the node
  does not start (a hazard at `core/storage.go:93`).
* Several nodes that gossip to each other in full: every module takes peers as an environment that may
  send anything at any time, which covers them for safety.

## 6. Plan

Done: `Ledger`, `Finalization`, `Node` with the inductive invariant; `ChainStore` and the
refinement; `Gossip`, `Difficulty`, `Votes`; theorems about every safety property the runs check.

Left, in order of importance:

1. What survives a torn save: after a restart the ledger is one the chain had at some earlier height,
   less penalties; which of nonces, supply and replay can be bounded by the distance.
2. `PenaltyOnlyIfRejected` with one goroutine: it then fails only for a block that a sync appended
   and the index has missed (the exception of `KnownCoversChain`); state it so and prove it.
3. An instance of `Gossip` with several nodes: does finality reach every peer that stays connected
   (`FinalityStops` shows that one hop is enough to lose it)?
4. The transaction-count cache of `rpc/server.go` against chains that change without growing.
