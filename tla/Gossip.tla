------------------------------- MODULE Gossip -------------------------------
(***************************************************************************)
(* The caches of one P2PNode, step by step: seenTxIDs and seenBlockHashes,  *)
(* knownBlockHashes with indexedHeight, and finalizedBroadcasts, which the  *)
(* handlers read and write under the node's own lock while the chain they   *)
(* describe changes under another one.  Node takes each use of the caches   *)
(* as one step; here every unlock is a point where another handler runs.    *)
(*                                                                          *)
(* The chain is abstracted to its entries (hash, parent, final mark), and a *)
(* block's verification to its outcome: AddBlock may refuse any block, and  *)
(* accepts only one that extends the tip.  AddBlock is one step, which Node *)
(* splits: it checks again under the lock in which it appends.  ResolveFork *)
(* and replaceChain compare, rebuild and swap in steps of their own: what   *)
(* they swap in may be older than the chain.                                *)
(*                                                                          *)
(* indexedHeight is read in refreshKnownBlocks without the node's lock: a   *)
(* data race on one machine word, modelled as a read of its present value.  *)
(***************************************************************************)
EXTENDS Integers, Sequences, FiniteSets

CONSTANTS
  Thread,      \* handlers that can be active at once
  Hash,        \* block hashes
  TxId,        \* transaction IDs
  Genesis,     \* the entry every chain starts with
  PeerBlocks,  \* entries that arrive as "block" messages
  PeerChains,  \* chains that peers serve
  LocalHash,   \* LocalHash[k]: hash of the k-th block mined here
  MaxMined,    \* bound: blocks mined
  MaxSyncs,    \* bound: connectPeer runs
  MaxExpired   \* bound: cache entries that expire

Entry == [hash : Hash, prev : Hash, final : BOOLEAN]

ASSUME GossipAssumption ==
  /\ Genesis \in Entry /\ PeerBlocks \subseteq Entry /\ PeerChains \subseteq Seq(Entry)
  /\ \A c \in PeerChains : Len(c) > 0 /\ c[1] = Genesis
  /\ MaxMined \in Nat /\ MaxSyncs \in Nat /\ MaxExpired \in Nat
  /\ LocalHash \in [1 .. MaxMined -> Hash]

VARIABLES
  chain,     \* ChainState.Chain
  pool,      \* ChainState.Mempool, as a set of IDs
  seenTx,    \* P2PNode.seenTxIDs, entries younger than the TTL
  seenBlk,   \* P2PNode.seenBlockHashes, entries younger than the TTL
  known,     \* P2PNode.knownBlockHashes
  indexed,   \* P2PNode.indexedHeight
  announced, \* P2PNode.finalizedBroadcasts
  job,       \* what each handler is doing and its local variables
  outBlk,    \* history: blocks offered to the peers, [hash, final]
  outTx,     \* history: transactions offered to the peers
  accepted,  \* history: hashes this node mined or took from a gossiped block
  indexedBy, \* history: hashes recorded by a refresh or a full sync's index
  synced,    \* history: hashes appended by a sync
  restored,  \* history: hashes a fork brought back before anyone recorded them
  mined, syncs, expired \* what the bounds count

caches  == <<seenTx, seenBlk, known, indexed, announced>>
history == <<outBlk, outTx, accepted, indexedBy, synced, restored>>
bounds  == <<mined, syncs, expired>>
vars    == <<chain, pool, seenTx, seenBlk, known, indexed, announced, job,
             outBlk, outTx, accepted, indexedBy, synced, restored, mined, syncs, expired>>

(***************************************************************************)
(* Handlers                                                                 *)
(***************************************************************************)
\* block, tx: the message in hand.  fresh: entries copied from the chain.
\* height: the chain length read by recordBlockHash, the tip's index in ResolveFork.
\* base: a chain to swap in.  kept: mempoolCopy.
NoTx == "none"
Idle == [pc |-> "idle", block |-> Genesis, tx |-> NoTx, fresh |-> << >>, height |-> 0,
         base |-> << >>, kept |-> {}]

PC == {"idle", "seen", "refresh", "record", "lookup", "fork", "base", "adopt", "add",
       "cast", "check", "height", "known", "send", "replace", "copy", "index",
       "txseen", "txadd", "txcast", "txsend"}

Job == [pc : PC, block : Entry, tx : TxId \cup {NoTx}, fresh : Seq(Entry), height : Nat,
        base : Seq(Entry), kept : SUBSET TxId]

At(t, pc)  == job[t].pc = pc
Goto(t, j) == job' = [job EXCEPT ![t] = j]
Stop(t)    == Goto(t, Idle)
MoveTo(t, pc) == Goto(t, [job[t] EXCEPT !.pc = pc])

Tip == chain[Len(chain)]
HashesOf(c) == {c[i].hash : i \in 1 .. Len(c)}
FinalHashes(c) == {c[i].hash : i \in {k \in 1 .. Len(c) : c[k].final}}
Offer(b) == [hash |-> b.hash, final |-> b.final]

(***************************************************************************)
(* "block" messages                                                         *)
(***************************************************************************)
\* tryFinalizeExistingBlock: the state's lock is held from the look-up to the
\* mark in finalizedBroadcasts, and no one reads that mark and the chain
\* together, so it is one step.  A hash is in a chain once.
Receive(t) ==
  /\ At(t, "idle")
  /\ \E b \in PeerBlocks :
       LET unmarked == {i \in 1 .. Len(chain) : chain[i].hash = b.hash /\ ~chain[i].final}
       IN  IF b.final /\ unmarked # {}
           THEN /\ chain' = [i \in 1 .. Len(chain) |->
                               IF i \in unmarked THEN [chain[i] EXCEPT !.final = TRUE]
                               ELSE chain[i]]
                /\ announced' = announced \cup {b.hash}
                /\ Goto(t, [Idle EXCEPT !.pc = "cast", !.block = b])
           ELSE /\ Goto(t, [Idle EXCEPT !.pc = "seen", !.block = b])
                /\ UNCHANGED <<chain, announced>>
  /\ UNCHANGED <<pool, seenTx, seenBlk, known, indexed, history, bounds>>

\* hasSeenBlock.
Seen(t) ==
  /\ At(t, "seen")
  /\ IF job[t].block.hash \in seenBlk THEN Stop(t) ELSE MoveTo(t, "refresh")
  /\ UNCHANGED <<chain, pool, caches, history, bounds>>

\* refreshKnownBlocks, first half: under the state's read lock, the blocks
\* above indexedHeight are copied.
Refresh(t) ==
  /\ At(t, "refresh")
  /\ LET start == IF indexed > Len(chain) THEN Len(chain) ELSE indexed
     IN  IF start = Len(chain) THEN MoveTo(t, "lookup")
         ELSE Goto(t, [job[t] EXCEPT !.pc = "record",
                         !.fresh = SubSeq(chain, start + 1, Len(chain))])
  /\ UNCHANGED <<chain, pool, caches, history, bounds>>

\* Second half: the copied hashes are recorded, and the height grows by their
\* number, whatever it has become since the first half.
Record(t) ==
  /\ At(t, "record")
  /\ LET fresh == HashesOf(job[t].fresh)
     IN  /\ known' = known \cup fresh
         /\ seenBlk' = seenBlk \cup fresh
         /\ indexedBy' = indexedBy \cup fresh
  /\ indexed' = indexed + Len(job[t].fresh)
  /\ Goto(t, [job[t] EXCEPT !.pc = "lookup", !.fresh = << >>])
  /\ UNCHANGED <<chain, pool, seenTx, announced, outBlk, outTx, accepted, synced,
                 restored, bounds>>

\* chainHasBlock's look-up.
Lookup(t) ==
  /\ At(t, "lookup")
  /\ IF job[t].block.hash \in known THEN Stop(t) ELSE MoveTo(t, "fork")
  /\ UNCHANGED <<chain, pool, caches, history, bounds>>

\* ResolveFork, the comparison: a better sibling of the tip goes on to be swapped
\* in, never one that is not final for a final tip (votes decide the rest); any
\* other block goes on to AddBlock.  A sibling whose votes are malformed is dropped.
Fork(t) ==
  /\ At(t, "fork")
  /\ LET b       == job[t].block
         sibling == Len(chain) >= 2 /\ b.hash # Tip.hash /\ b.prev = Tip.prev
     IN  \/ /\ sibling /\ (Tip.final => b.final)
            /\ Goto(t, [job[t] EXCEPT !.pc = "base", !.height = Len(chain) - 1, !.kept = pool])
         \/ MoveTo(t, "add")
         \/ sibling /\ Stop(t)
  /\ UNCHANGED <<chain, pool, caches, history, bounds>>

\* The chain below the tip is copied without a lock; the candidate must extend the
\* copy, and the copy and the candidate must verify.
Base(t) ==
  /\ At(t, "base")
  /\ LET n     == job[t].height
         below == SubSeq(chain, 1, n)
     IN  \/ /\ Len(chain) >= n /\ below[n].hash = job[t].block.prev
            /\ Goto(t, [job[t] EXCEPT !.pc = "adopt", !.base = below])
         \/ Stop(t)
  /\ UNCHANGED <<chain, pool, caches, history, bounds>>

\* What a copy of the chain still has that is neither in the chain nor recorded.
Forgotten(c) ==
  ((HashesOf(c) \ HashesOf(chain)) \ known)
    \cup ((FinalHashes(c) \ FinalHashes(chain)) \ announced)

\* The swap: whatever the chain is by now, it becomes the copy and the candidate.
Adopt(t) ==
  /\ At(t, "adopt")
  /\ chain' = Append(job[t].base, job[t].block)
  /\ pool' = job[t].kept
  /\ accepted' = accepted \cup {job[t].block.hash}
  /\ restored' = restored \cup Forgotten(job[t].base)
  /\ Goto(t, [job[t] EXCEPT !.pc = "cast", !.base = << >>, !.kept = {}])
  /\ UNCHANGED <<caches, outBlk, outTx, indexedBy, synced, bounds>>

\* AddBlock appends a block on the tip and empties the pool; anything else, or any
\* block it finds invalid, is refused.
Add(t) ==
  /\ At(t, "add")
  /\ LET b == job[t].block
     IN  \/ /\ b.prev = Tip.hash
            /\ chain' = Append(chain, b)
            /\ pool' = {}
            /\ accepted' = accepted \cup {b.hash}
            /\ MoveTo(t, "cast")
         \/ Stop(t) /\ UNCHANGED <<chain, pool, accepted>>
  /\ UNCHANGED <<caches, outBlk, outTx, indexedBy, synced, restored, bounds>>

(***************************************************************************)
(* BroadcastBlock                                                           *)
(***************************************************************************)
\* Mutant: finalizedBroadcasts is tested and not set.
CastUnmarked(t) ==
  /\ At(t, "cast")
  /\ MoveTo(t, IF job[t].block.final /\ job[t].block.hash \notin announced
               THEN "height" ELSE "check")
  /\ UNCHANGED <<chain, pool, caches, history, bounds>>

\* finalizedBroadcasts is tested and set under one lock: the first handler to
\* come with the final block sends it whatever the seen cache says.
Cast(t) ==
  /\ At(t, "cast")
  /\ LET b == job[t].block
         force == b.final /\ b.hash \notin announced
     IN  /\ announced' = IF force THEN announced \cup {b.hash} ELSE announced
         /\ MoveTo(t, IF force THEN "height" ELSE "check")
  /\ UNCHANGED <<chain, pool, seenTx, seenBlk, known, indexed, history, bounds>>

\* Mutant: a block is taken for seen once it is in the chain.
CheckInChain(t) ==
  /\ At(t, "check")
  /\ IF job[t].block.hash \in seenBlk \cup HashesOf(chain)
     THEN Stop(t) ELSE MoveTo(t, "height")
  /\ UNCHANGED <<chain, pool, caches, history, bounds>>

\* hasSeenBlock, for a block that is not forced.
Check(t) ==
  /\ At(t, "check")
  /\ IF job[t].block.hash \in seenBlk THEN Stop(t) ELSE MoveTo(t, "height")
  /\ UNCHANGED <<chain, pool, caches, history, bounds>>

\* recordBlockHash, first half: the chain's length, under the read lock.
Height(t) ==
  /\ At(t, "height")
  /\ Goto(t, [job[t] EXCEPT !.pc = "known", !.height = Len(chain)])
  /\ UNCHANGED <<chain, pool, caches, history, bounds>>

\* Mutant: only the height is recorded.
KnownHeightOnly(t) ==
  /\ At(t, "known")
  /\ indexed' = IF job[t].height > indexed THEN job[t].height ELSE indexed
  /\ MoveTo(t, "send")
  /\ UNCHANGED <<chain, pool, seenTx, seenBlk, known, announced, history, bounds>>

\* Second half: one hash is recorded, and the height becomes the length read.
Known(t) ==
  /\ At(t, "known")
  /\ known' = known \cup {job[t].block.hash}
  /\ indexed' = IF job[t].height > indexed THEN job[t].height ELSE indexed
  /\ MoveTo(t, "send")
  /\ UNCHANGED <<chain, pool, seenTx, seenBlk, announced, history, bounds>>

\* markBlockSeen, then a goroutine per peer sends the block.
Send(t) ==
  /\ At(t, "send")
  /\ seenBlk' = seenBlk \cup {job[t].block.hash}
  /\ outBlk' = outBlk \cup {Offer(job[t].block)}
  /\ Stop(t)
  /\ UNCHANGED <<chain, pool, seenTx, known, indexed, announced,
                 outTx, accepted, indexedBy, synced, restored, bounds>>

(***************************************************************************)
(* Mining and chain sync                                                    *)
(***************************************************************************)
\* POST /mine: MineBlock committed a block of the pool; BroadcastBlock follows.
Mine(t) ==
  /\ At(t, "idle") /\ mined < MaxMined
  /\ mined' = mined + 1
  /\ LET b == [hash |-> LocalHash[mined'], prev |-> Tip.hash, final |-> FALSE]
     IN  /\ chain' = Append(chain, b)
         /\ accepted' = accepted \cup {b.hash}
         /\ Goto(t, [Idle EXCEPT !.pc = "cast", !.block = b])
  /\ pool' = {}
  /\ UNCHANGED <<caches, outBlk, outTx, indexedBy, synced, restored, syncs, expired>>

\* applySyncedBlocks, fast path: a block is appended and no cache is told.
SyncAppend ==
  /\ syncs < MaxSyncs
  /\ \E c \in PeerChains :
       /\ Len(c) > Len(chain) /\ c[Len(chain) + 1].prev = Tip.hash
       /\ chain' = Append(chain, c[Len(chain) + 1])
       /\ synced' = synced \cup {c[Len(chain) + 1].hash}
  /\ pool' = {}
  /\ syncs' = syncs + 1
  /\ UNCHANGED <<caches, job, outBlk, outTx, accepted, indexedBy, restored, mined, expired>>

\* replaceChain up to the rebuild: a longer chain that keeps our last final block.
FullSync(t) ==
  /\ At(t, "idle") /\ syncs < MaxSyncs
  /\ \E c \in PeerChains :
       /\ Len(c) > Len(chain) /\ c[Len(chain) + 1].prev # Tip.hash
       /\ \A i \in 1 .. Len(chain) :
            (chain[i].final /\ \A k \in i + 1 .. Len(chain) : ~chain[k].final)
              => c[i].hash = chain[i].hash
       /\ Goto(t, [Idle EXCEPT !.pc = "replace", !.base = c])
  /\ syncs' = syncs + 1
  /\ UNCHANGED <<chain, pool, caches, history, mined, expired>>

\* The swap.
Replace(t) ==
  /\ At(t, "replace")
  /\ chain' = job[t].base
  /\ Goto(t, [Idle EXCEPT !.pc = "copy"])
  /\ UNCHANGED <<pool, caches, history, bounds>>

\* indexExistingBlocks, first half: the chain is copied under the read lock.
Copy(t) ==
  /\ At(t, "copy")
  /\ Goto(t, [job[t] EXCEPT !.pc = "index", !.fresh = chain])
  /\ UNCHANGED <<chain, pool, caches, history, bounds>>

\* Second half: every copied hash is recorded, the height set to their number.
Index(t) ==
  /\ At(t, "index")
  /\ LET fresh == HashesOf(job[t].fresh)
     IN  /\ known' = known \cup fresh
         /\ seenBlk' = seenBlk \cup fresh
         /\ indexedBy' = indexedBy \cup fresh
  /\ announced' = announced \cup FinalHashes(job[t].fresh)
  /\ indexed' = Len(job[t].fresh)
  /\ Stop(t)
  /\ UNCHANGED <<chain, pool, seenTx, outBlk, outTx, accepted, synced, restored, bounds>>

(***************************************************************************)
(* Transactions                                                             *)
(***************************************************************************)
\* A "tx" message that hasSeenTx does not know; a known one is dropped.
ReceiveTx(t) ==
  /\ At(t, "idle")
  /\ \E x \in TxId \ seenTx : Goto(t, [Idle EXCEPT !.pc = "txadd", !.tx = x])
  /\ UNCHANGED <<chain, pool, caches, history, bounds>>

\* POST /tx: submitted here, whatever the cache says.
PostTx(t) ==
  /\ At(t, "idle")
  /\ \E x \in TxId : Goto(t, [Idle EXCEPT !.pc = "txadd", !.tx = x])
  /\ UNCHANGED <<chain, pool, caches, history, bounds>>

\* Mutant: the handler marks the transaction before BroadcastTx asks.
AddTxSeen(t) ==
  /\ At(t, "txadd")
  /\ \/ /\ job[t].tx \notin pool
        /\ pool' = pool \cup {job[t].tx}
        /\ MoveTo(t, "txcast")
     \/ Stop(t) /\ UNCHANGED pool
  /\ seenTx' = seenTx \cup {job[t].tx}
  /\ UNCHANGED <<chain, seenBlk, known, indexed, announced, history, bounds>>

\* AddTxToMempool: a pending transaction is refused, any other may be.
AddTx(t) ==
  /\ At(t, "txadd")
  /\ \/ /\ job[t].tx \notin pool
        /\ pool' = pool \cup {job[t].tx}
        /\ MoveTo(t, "txcast")
     \/ Stop(t) /\ UNCHANGED pool
  /\ UNCHANGED <<chain, caches, history, bounds>>

\* BroadcastTx: hasSeenTx, then markTxSeen and the sends.
CastTx(t) ==
  /\ At(t, "txcast")
  /\ IF job[t].tx \in seenTx THEN Stop(t) ELSE MoveTo(t, "txsend")
  /\ UNCHANGED <<chain, pool, caches, history, bounds>>

\* Mutant: the mark is made under another key than the one looked up.
SendTxOtherKey(t) ==
  /\ At(t, "txsend")
  /\ seenTx' = seenTx \cup {job[t].block.hash}
  /\ outTx' = outTx \cup {job[t].tx}
  /\ Stop(t)
  /\ UNCHANGED <<chain, pool, seenBlk, known, indexed, announced,
                 outBlk, accepted, indexedBy, synced, restored, bounds>>

SendTx(t) ==
  /\ At(t, "txsend")
  /\ seenTx' = seenTx \cup {job[t].tx}
  /\ outTx' = outTx \cup {job[t].tx}
  /\ Stop(t)
  /\ UNCHANGED <<chain, pool, seenBlk, known, indexed, announced,
                 outBlk, accepted, indexedBy, synced, restored, bounds>>

(***************************************************************************)
(* Expiry, and the specification                                            *)
(***************************************************************************)
\* An entry of a seen cache passes its TTL or is trimmed at the cache's limit
\* (hasSeenLocked, pruneSeenLocked); knownBlockHashes keeps its entries.
Expire ==
  /\ expired < MaxExpired
  /\ expired' = expired + 1
  /\ \/ \E x \in seenTx : seenTx' = seenTx \ {x} /\ UNCHANGED seenBlk
     \/ \E h \in seenBlk : seenBlk' = seenBlk \ {h} /\ UNCHANGED seenTx
  /\ UNCHANGED <<chain, pool, known, indexed, announced, job, history, mined, syncs>>

\* NewP2PNode on a first run: the genesis block is indexed.
Init ==
  /\ chain = <<Genesis>> /\ pool = {}
  /\ seenTx = {} /\ seenBlk = {Genesis.hash} /\ known = {Genesis.hash}
  /\ indexed = 1 /\ announced = FinalHashes(chain)
  /\ job = [t \in Thread |-> Idle]
  /\ outBlk = {} /\ outTx = {} /\ accepted = {} /\ indexedBy = {Genesis.hash}
  /\ synced = {} /\ restored = {}
  /\ mined = 0 /\ syncs = 0 /\ expired = 0

BlockStep(t) ==
  \/ Receive(t) \/ Seen(t) \/ Refresh(t) \/ Record(t) \/ Lookup(t)
  \/ Fork(t) \/ Base(t) \/ Adopt(t) \/ Add(t)
  \/ Cast(t) \/ Check(t) \/ Height(t) \/ Known(t) \/ Send(t)

ChainStep(t) == Mine(t) \/ FullSync(t) \/ Replace(t) \/ Copy(t) \/ Index(t)

TxStep(t) == ReceiveTx(t) \/ PostTx(t) \/ AddTx(t) \/ CastTx(t) \/ SendTx(t)

Next ==
  \/ SyncAppend
  \/ Expire
  \/ \E t \in Thread : BlockStep(t) \/ ChainStep(t) \/ TxStep(t)

Spec == Init /\ [][Next]_vars

(***************************************************************************)
(* Properties                                                               *)
(***************************************************************************)
\* Every variable keeps its type.
TypeOK ==
  /\ chain \in Seq(Entry) /\ pool \subseteq TxId
  /\ seenTx \subseteq TxId /\ seenBlk \subseteq Hash /\ known \subseteq Hash
  /\ indexed \in Nat /\ announced \subseteq Hash
  /\ job \in [Thread -> Job]
  /\ outBlk \subseteq [hash : Hash, final : BOOLEAN] /\ outTx \subseteq TxId
  /\ accepted \subseteq Hash /\ indexedBy \subseteq Hash
  /\ synced \subseteq Hash /\ restored \subseteq Hash
  /\ mined \in 0 .. MaxMined /\ syncs \in 0 .. MaxSyncs /\ expired \in 0 .. MaxExpired

\* Some handler is in BroadcastBlock with hash h, or has copied it to record it.
Casting(h) ==
  \E t \in Thread : job[t].pc \in {"cast", "check", "height", "known", "send"}
                      /\ job[t].block.hash = h

Copying(h) ==
  \E t \in Thread : At(t, "copy") \/ h \in HashesOf(job[t].fresh)

\* The duplicate gate works: however refreshes, broadcasts, forks and full syncs
\* interleave, a block of the chain is in the index or about to be (chainHasBlock).
\* Two exceptions: a block a sync appended, because recordBlockHash may carry
\* indexedHeight past it and no refresh looks there again; and a block that a fork
\* brings back after full syncs dropped it before anyone had recorded it.
KnownCoversChain ==
  (HashesOf(chain) \ synced) \ restored
    \subseteq known \cup {h \in Hash : Casting(h) \/ Copying(h)}

\* A block mined here or taken from a peer is offered to the peers, now or
\* before, unless another handler's refresh or a full sync recorded it first:
\* BroadcastBlock then takes it for one it has sent.
OfferedUnlessIndexed ==
  \A h \in accepted \ indexedBy : Casting(h) \/ \E b \in outBlk : b.hash = h

\* A final block of the chain is remembered as such, or about to be, so that a
\* second final copy is not forced out again; only a synced one, or one that a fork
\* brings back, may be missing.
FinalRemembered ==
  (FinalHashes(chain) \ synced) \ restored
    \subseteq announced \cup {h \in Hash : Casting(h) \/ Copying(h)}

\* Every pending transaction was offered to the peers or is about to be, though
\* two handlers may check, add and mark the same one (BroadcastTx).
PendingOffered ==
  \A x \in pool :
    x \in outTx \/ \E t \in Thread : job[t].pc \in {"txcast", "txsend"} /\ job[t].tx = x

\* BroadcastBlock passes finality on: a block that became final here is offered
\* with its mark.
FinalityForwarded ==
  \A h \in FinalHashes(chain) \ (synced \cup restored \cup {Genesis.hash}) :
    Casting(h) \/ Copying(h) \/ [hash |-> h, final |-> TRUE] \in outBlk
=============================================================================
