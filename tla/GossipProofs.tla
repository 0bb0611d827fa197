---------------------------- MODULE GossipProofs ----------------------------
(***************************************************************************)
(* The caches' properties for any number of handlers, blocks, peers, syncs  *)
(* and expiries.  Each says that something in the chain or the pool is      *)
(* remembered, or in the hands of a handler that will remember it; each     *)
(* step either remembers it or hands it on.                                 *)
(***************************************************************************)
EXTENDS Gossip, TLAPS

CastPC == {"cast", "check", "height", "known", "send"}

(***************************************************************************)
(* Types                                                                    *)
(***************************************************************************)
\* A handler with a transaction in hand has one of TxId, and one that replaces the
\* chain has a chain with a first block.
InHand(j) ==
  /\ j.pc \in {"txadd", "txcast", "txsend"} => j.tx \in TxId
  /\ j.pc = "replace" => j.base # << >>
JobsOK(f) == f \in [Thread -> Job] /\ \A t \in Thread : InHand(f[t])

\* The types, with what they rest on: a chain is never empty.
Typed == TypeOK /\ chain # << >> /\ JobsOK(job)

\* An idle handler's variables have their types.
LEMMA IdleType == Idle \in Job /\ InHand(Idle)
  BY GossipAssumption DEF Idle, Job, PC, InHand

\* What a handler's step does to the handlers' variables.
LEMMA Moved ==
  ASSUME Typed, NEW t \in Thread, NEW j \in Job, InHand(j), Goto(t, j)
  PROVE  /\ JobsOK(job') /\ job'[t] = j
         /\ \A u \in Thread \ {t} : job'[u] = job[u]
  BY DEF Typed, JobsOK, Goto

\* The hashes of a chain are hashes, the final ones among them.
LEMMA HashesType ==
  ASSUME NEW c \in Seq(Entry)
  PROVE  HashesOf(c) \subseteq Hash /\ FinalHashes(c) \subseteq HashesOf(c)
<1>1. \A i \in 1 .. Len(c) : c[i] \in Entry
  OBVIOUS
<1>2. \A e \in Entry : e.hash \in Hash
  BY DEF Entry
<1> QED
  BY <1>1, <1>2 DEF HashesOf, FinalHashes

\* The final mark of a block is not part of its hash.
LEMMA MarkedEntry ==
  ASSUME NEW e \in Entry
  PROVE  [e EXCEPT !.final = TRUE] \in Entry /\ [e EXCEPT !.final = TRUE].hash = e.hash
  BY DEF Entry

\* Appending a block adds its hash, to the final ones only when it is final.
LEMMA HashesAppend ==
  ASSUME NEW c \in Seq(Entry), NEW b \in Entry
  PROVE  /\ Append(c, b) \in Seq(Entry) /\ Append(c, b) # << >>
         /\ HashesOf(Append(c, b)) \subseteq HashesOf(c) \cup {b.hash}
         /\ \A h \in FinalHashes(Append(c, b)) :
              h \in FinalHashes(c) \/ (b.final /\ h = b.hash)
<1>1. /\ Append(c, b) \in Seq(Entry) /\ Append(c, b) # << >> /\ Len(Append(c, b)) = Len(c) + 1 /\ Len(c) \in Nat
      /\ Append(c, b)[Len(c) + 1] = b
      /\ \A i \in 1 .. Len(c) : Append(c, b)[i] = c[i]
  OBVIOUS
<1>2. \A i \in 1 .. Len(Append(c, b)) : i \in 1 .. Len(c) \/ i = Len(c) + 1
  BY <1>1
<1> QED
  BY <1>1, <1>2 DEF HashesOf, FinalHashes

\* A chain that differs in entries of one hash, and not in hashes.
LEMMA HashesMarked ==
  ASSUME NEW c \in Seq(Entry), NEW b \in Entry, NEW d \in Seq(Entry), Len(d) = Len(c),
         \A i \in 1 .. Len(c) :
           d[i].hash = c[i].hash /\ (d[i] # c[i] => c[i].hash = b.hash)
  PROVE  /\ HashesOf(d) = HashesOf(c) /\ (c # << >> => d # << >>)
         /\ FinalHashes(d) \subseteq FinalHashes(c) \cup {b.hash}
<1>1. HashesOf(d) = HashesOf(c)
  BY DEF HashesOf
<1>2. FinalHashes(d) \subseteq FinalHashes(c) \cup {b.hash}
  BY DEF FinalHashes
<1> QED
  BY <1>1, <1>2

\* NewP2PNode's state has the types.
LEMMA TypeInit == Init => Typed
<1> SUFFICES ASSUME Init PROVE Typed
  OBVIOUS
<1>1. chain \in Seq(Entry) /\ Genesis.hash \in Hash
  BY GossipAssumption DEF Init, Entry
<1>2. announced \subseteq Hash
  BY <1>1, HashesType DEF Init
<1>3. JobsOK(job)
  BY IdleType DEF Init, JobsOK
<1> QED
  BY <1>1, <1>2, <1>3, GossipAssumption DEF Init, Typed, TypeOK, JobsOK

\* The types of a handler's variables, one by one.
LEMMA JobField ==
  ASSUME Typed, NEW t \in Thread
  PROVE  /\ job[t] \in Job /\ job[t].pc \in PC /\ job[t].block \in Entry
         /\ job[t].block.hash \in Hash /\ job[t].tx \in TxId \cup {NoTx}
         /\ job[t].fresh \in Seq(Entry) /\ job[t].height \in Nat
         /\ job[t].base \in Seq(Entry) /\ job[t].kept \subseteq TxId
         /\ HashesOf(job[t].fresh) \subseteq Hash /\ FinalHashes(job[t].fresh) \subseteq Hash
         /\ InHand(job[t])
  BY HashesType DEF Typed, JobsOK, Job, Entry

\* MoveTo changes pc alone.
LEMMA MoveType ==
  ASSUME Typed, NEW t \in Thread, NEW pc \in PC
  PROVE  LET j == [job[t] EXCEPT !.pc = pc]
         IN  /\ j \in Job /\ j.pc = pc /\ j.block = job[t].block /\ j.tx = job[t].tx
             /\ j.fresh = job[t].fresh /\ j.height = job[t].height
             /\ j.base = job[t].base /\ j.kept = job[t].kept
  BY JobField DEF Job

\* A handler that returns leaves the others alone.
LEMMA StopType ==
  ASSUME Typed, NEW t \in Thread, Stop(t)
  PROVE  /\ JobsOK(job') /\ job'[t] = Idle
         /\ \A u \in Thread \ {t} : job'[u] = job[u]
  BY IdleType, Moved DEF Stop

\* A handler that moves on keeps its block, its transaction and its copy.
LEMMA MoveToType ==
  ASSUME Typed, NEW t \in Thread, NEW pc \in PC \ {"replace"},
         pc \in {"txadd", "txcast", "txsend"} => job[t].tx \in TxId, MoveTo(t, pc)
  PROVE  /\ JobsOK(job') /\ job'[t] \in Job /\ job'[t].pc = pc
         /\ job'[t].block = job[t].block /\ job'[t].tx = job[t].tx
         /\ job'[t].fresh = job[t].fresh /\ job'[t].height = job[t].height
         /\ job'[t].kept = job[t].kept
         /\ \A u \in Thread \ {t} : job'[u] = job[u]
<1> DEFINE j == [job[t] EXCEPT !.pc = pc]
<1>1. /\ j \in Job /\ InHand(j) /\ j.pc = pc /\ j.block = job[t].block /\ j.tx = job[t].tx
      /\ j.fresh = job[t].fresh /\ j.height = job[t].height /\ j.kept = job[t].kept
  BY MoveType DEF InHand
<1>2. Goto(t, j)
  BY DEF MoveTo
<1> HIDE DEF j
<1> QED
  BY <1>1, <1>2, Moved

\* The jobs a "block" or "tx" message, or a mined block, starts.
LEMMA EmptyType == << >> \in Seq(Entry)
  OBVIOUS

\* The variables of a handler that starts with a block.
LEMMA FreshBlock ==
  ASSUME NEW pc \in PC, NEW b \in Entry,
         pc \notin {"txadd", "txcast", "txsend", "replace"}
  PROVE  LET j == [Idle EXCEPT !.pc = pc, !.block = b]
         IN  j \in Job /\ InHand(j) /\ j.pc = pc /\ j.block = b /\ j.fresh = << >>
  BY IdleType DEF Job, InHand, Idle

\* The variables of a handler that starts with a transaction.
LEMMA FreshTx ==
  ASSUME NEW pc \in PC \ {"replace"}, NEW x \in TxId
  PROVE  LET j == [Idle EXCEPT !.pc = pc, !.tx = x]
         IN  j \in Job /\ InHand(j) /\ j.pc = pc /\ j.tx = x /\ j.fresh = << >>
  BY IdleType DEF Job, InHand, Idle

\* The handler starts with a block, or with a transaction.
LEMMA StartBlock ==
  ASSUME Typed, NEW t \in Thread, NEW pc \in PC \ {"txadd", "txcast", "txsend", "replace"},
         NEW b \in Entry, Goto(t, [Idle EXCEPT !.pc = pc, !.block = b])
  PROVE  /\ JobsOK(job') /\ job'[t].pc = pc /\ job'[t].block = b /\ job'[t].fresh = << >>
         /\ \A u \in Thread \ {t} : job'[u] = job[u]
<1> DEFINE j == [Idle EXCEPT !.pc = pc, !.block = b]
<1>1. j \in Job /\ InHand(j) /\ j.pc = pc /\ j.block = b /\ j.fresh = << >>
  BY FreshBlock
<1>2. Goto(t, j)
  OBVIOUS
<1> HIDE DEF j
<1> QED
  BY <1>1, <1>2, Moved

\* A handler that starts with a transaction leaves the others alone.
LEMMA StartTx ==
  ASSUME Typed, NEW t \in Thread, NEW pc \in PC \ {"replace"}, NEW x \in TxId,
         Goto(t, [Idle EXCEPT !.pc = pc, !.tx = x])
  PROVE  /\ JobsOK(job') /\ job'[t].pc = pc /\ job'[t].tx = x /\ job'[t].fresh = << >>
         /\ \A u \in Thread \ {t} : job'[u] = job[u]
<1> DEFINE j == [Idle EXCEPT !.pc = pc, !.tx = x]
<1>1. j \in Job /\ InHand(j) /\ j.pc = pc /\ j.tx = x /\ j.fresh = << >>
  BY FreshTx
<1>2. Goto(t, j)
  OBVIOUS
<1> HIDE DEF j
<1> QED
  BY <1>1, <1>2, Moved

\* tryFinalizeExistingBlock marks copies of the received block, or nothing.
LEMMA ReceiveEffect ==
  ASSUME Typed, NEW t \in Thread, Receive(t)
  PROVE  \E b \in PeerBlocks :
           /\ b \in Entry /\ b.hash \in Hash
           /\ chain' \in Seq(Entry) /\ chain' # << >> /\ HashesOf(chain') = HashesOf(chain)
           /\ \/ /\ UNCHANGED <<chain, announced>>
                 /\ Goto(t, [Idle EXCEPT !.pc = "seen", !.block = b])
              \/ /\ FinalHashes(chain') \subseteq FinalHashes(chain) \cup {b.hash}
                 /\ announced' = announced \cup {b.hash}
                 /\ Goto(t, [Idle EXCEPT !.pc = "cast", !.block = b])
<1>1. PICK b \in PeerBlocks :
        LET unmarked == {i \in 1 .. Len(chain) : chain[i].hash = b.hash /\ ~chain[i].final}
        IN  IF b.final /\ unmarked # {}
            THEN /\ chain' = [i \in 1 .. Len(chain) |->
                                IF i \in unmarked THEN [chain[i] EXCEPT !.final = TRUE]
                                ELSE chain[i]]
                 /\ announced' = announced \cup {b.hash}
                 /\ Goto(t, [Idle EXCEPT !.pc = "cast", !.block = b])
            ELSE /\ Goto(t, [Idle EXCEPT !.pc = "seen", !.block = b])
                 /\ UNCHANGED <<chain, announced>>
  BY DEF Receive
<1>2. b \in Entry /\ b.hash \in Hash
  BY GossipAssumption DEF Entry
<1>3. chain \in Seq(Entry) /\ chain # << >>
  BY DEF Typed, TypeOK
<1> DEFINE S == {i \in 1 .. Len(chain) : chain[i].hash = b.hash /\ ~chain[i].final}
<1>4. CASE b.final /\ S # {}
  <2>1. /\ chain' = [i \in 1 .. Len(chain) |->
                       IF i \in S THEN [chain[i] EXCEPT !.final = TRUE] ELSE chain[i]]
        /\ announced' = announced \cup {b.hash}
        /\ Goto(t, [Idle EXCEPT !.pc = "cast", !.block = b])
    BY <1>1, <1>4
  <2>2. S \in SUBSET (1 .. Len(chain)) /\ \A i \in S : chain[i].hash = b.hash
    OBVIOUS
  <2> HIDE DEF S
  <2>3. \A i \in 1 .. Len(chain) :
          /\ chain'[i] \in Entry /\ chain'[i].hash = chain[i].hash
          /\ chain'[i] # chain[i] => chain[i].hash = b.hash
    BY <1>3, <2>1, <2>2, MarkedEntry
  <2>4. chain' \in [1 .. Len(chain) -> Entry] /\ Len(chain) \in Nat
    BY <1>3, <2>1, <2>3
  <2>5. chain' \in Seq(Entry) /\ Len(chain') = Len(chain)
    BY <2>4
  <2>6. /\ HashesOf(chain') = HashesOf(chain) /\ chain' # << >>
        /\ FinalHashes(chain') \subseteq FinalHashes(chain) \cup {b.hash}
    BY <1>2, <1>3, <2>3, <2>5, HashesMarked
  <2>7. QED
    BY <1>2, <2>1, <2>5, <2>6
<1>5. CASE ~(b.final /\ S # {})
  BY <1>1, <1>2, <1>3, <1>5
<1> QED
  BY <1>4, <1>5

\* A step of a "block" message keeps the types.
LEMMA TypeBlock ==
  ASSUME Typed, NEW t \in Thread, BlockStep(t)
  PROVE  Typed'
<1> USE JobField
<1>1. CASE Receive(t)
  <2>1. PICK b \in Entry :
          /\ b.hash \in Hash /\ chain' \in Seq(Entry) /\ chain' # << >>
          /\ announced' \in {announced, announced \cup {b.hash}}
          /\ \/ Goto(t, [Idle EXCEPT !.pc = "seen", !.block = b])
             \/ Goto(t, [Idle EXCEPT !.pc = "cast", !.block = b])
    BY <1>1, ReceiveEffect
  <2>2. JobsOK(job')
    BY <2>1, StartBlock DEF PC
  <2>3. QED
    BY <1>1, <2>1, <2>2 DEF Receive, Typed, TypeOK, JobsOK, history, bounds
<1>2. CASE Seen(t)
  <2>1. JobsOK(job')
    BY <1>2, StopType, MoveToType DEF Seen, PC
  <2>2. QED
    BY <1>2, <2>1 DEF Seen, Typed, TypeOK, JobsOK, caches, history, bounds
<1>3. CASE Refresh(t)
  <2> DEFINE start == IF indexed > Len(chain) THEN Len(chain) ELSE indexed
             copied == SubSeq(chain, start + 1, Len(chain))
             j == [job[t] EXCEPT !.pc = "record", !.fresh = copied]
  <2>1. MoveTo(t, "lookup") \/ Goto(t, j)
    BY <1>3 DEF Refresh
  <2>2. copied \in Seq(Entry)
    BY DEF Typed, TypeOK
  <2> HIDE DEF copied
  <2>a. j \in Job
    BY <2>2 DEF PC, Job
  <2>b. InHand(j)
    BY DEF InHand
  <2> HIDE DEF j
  <2>3. JobsOK(job')
    BY <2>1, <2>a, <2>b, Moved, MoveToType DEF PC
  <2>4. QED
    BY <1>3, <2>3 DEF Refresh, Typed, TypeOK, JobsOK, caches, history, bounds
<1>4. CASE Record(t)
  <2>1. Goto(t, [job[t] EXCEPT !.pc = "lookup", !.fresh = << >>])
    BY <1>4 DEF Record
  <2>a. [job[t] EXCEPT !.pc = "lookup", !.fresh = << >>] \in Job
    BY EmptyType DEF PC, Job
  <2>b. InHand([job[t] EXCEPT !.pc = "lookup", !.fresh = << >>])
    BY DEF InHand, Job
  <2>2. JobsOK(job')
    BY <2>1, <2>a, <2>b, Moved
  <2>3. QED
    BY <1>4, <2>2 DEF Record, Typed, TypeOK, JobsOK, bounds
<1>5. CASE Lookup(t)
  <2>1. JobsOK(job')
    BY <1>5, StopType, MoveToType DEF Lookup, PC
  <2>2. QED
    BY <1>5, <2>1 DEF Lookup, Typed, TypeOK, JobsOK, caches, history, bounds
<1>6. CASE Add(t)
  <2>1. JobsOK(job')
    BY <1>6, StopType, MoveToType DEF Add, PC
  <2>2. chain' \in Seq(Entry) /\ chain' # << >>
    BY <1>6, HashesAppend DEF Add, Typed, TypeOK
  <2>3. pool' \subseteq TxId /\ accepted' \subseteq Hash
    BY <1>6 DEF Add, Typed, TypeOK
  <2>4. QED
    BY <1>6, <2>1, <2>2, <2>3 DEF Add, Typed, TypeOK, JobsOK, caches, bounds
<1>12. CASE Fork(t)
  <2> DEFINE j == [job[t] EXCEPT !.pc = "base", !.height = Len(chain) - 1, !.kept = pool]
  <2>1. (Len(chain) >= 2 /\ Goto(t, j)) \/ MoveTo(t, "add") \/ Stop(t)
    BY <1>12 DEF Fork
  <2>2. Len(chain) \in Nat /\ pool \subseteq TxId
    BY DEF Typed, TypeOK
  <2>3. Len(chain) >= 2 => Len(chain) - 1 \in Nat
    BY <2>2
  <2>4. Len(chain) >= 2 => j \in Job /\ InHand(j)
    BY <2>2, <2>3 DEF Job, PC, InHand
  <2> HIDE DEF j
  <2>5. JobsOK(job')
    BY <2>1, <2>4, Moved, MoveToType, StopType DEF PC
  <2>6. QED
    BY <1>12, <2>5 DEF Fork, Typed, TypeOK, JobsOK, caches, history, bounds
<1>13. CASE Base(t)
  <2> DEFINE below == SubSeq(chain, 1, job[t].height)
             j     == [job[t] EXCEPT !.pc = "adopt", !.base = below]
  <2>1. (Len(chain) >= job[t].height /\ Goto(t, j)) \/ Stop(t)
    BY <1>13 DEF Base
  <2>2. chain \in Seq(Entry) /\ job[t].height \in Nat
    BY DEF Typed, TypeOK
  <2>3. Len(chain) >= job[t].height => below \in Seq(Entry)
    BY <2>2
  <2> HIDE DEF below
  <2>4. Len(chain) >= job[t].height => j \in Job /\ InHand(j)
    BY <2>3 DEF Job, PC, InHand
  <2> HIDE DEF j
  <2>5. JobsOK(job')
    BY <2>1, <2>4, Moved, StopType
  <2>6. QED
    BY <1>13, <2>5 DEF Base, Typed, TypeOK, JobsOK, caches, history, bounds
<1>14. CASE Adopt(t)
  <2> DEFINE j == [job[t] EXCEPT !.pc = "cast", !.base = << >>, !.kept = {}]
  <2>1. j \in Job /\ InHand(j) /\ Goto(t, j)
    BY <1>14, EmptyType DEF Adopt, Job, PC, InHand
  <2> HIDE DEF j
  <2>2. JobsOK(job')
    BY <2>1, Moved
  <2>3. chain' \in Seq(Entry) /\ chain' # << >>
    BY <1>14, HashesAppend DEF Adopt
  <2>4. pool' \subseteq TxId /\ accepted' \subseteq Hash
    BY <1>14 DEF Adopt, Typed, TypeOK
  <2>5. restored' \subseteq Hash
    BY <1>14, HashesType DEF Adopt, Forgotten, Typed, TypeOK
  <2>6. QED
    BY <1>14, <2>2, <2>3, <2>4, <2>5 DEF Adopt, Typed, TypeOK, JobsOK, caches, bounds
<1>7. CASE Cast(t)
  <2>1. JobsOK(job')
    BY <1>7, MoveToType DEF Cast, PC
  <2>2. QED
    BY <1>7, <2>1 DEF Cast, Typed, TypeOK, JobsOK, history, bounds
<1>8. CASE Check(t)
  <2>1. JobsOK(job')
    BY <1>8, StopType, MoveToType DEF Check, PC
  <2>2. QED
    BY <1>8, <2>1 DEF Check, Typed, TypeOK, JobsOK, caches, history, bounds
<1>9. CASE Height(t)
  <2>1. Goto(t, [job[t] EXCEPT !.pc = "known", !.height = Len(chain)])
    BY <1>9 DEF Height
  <2>a. Len(chain) \in Nat
    BY DEF Typed, TypeOK
  <2>b. [job[t] EXCEPT !.pc = "known", !.height = Len(chain)] \in Job
    BY <2>a DEF PC, Job
  <2>c. InHand([job[t] EXCEPT !.pc = "known", !.height = Len(chain)])
    BY DEF InHand, Job
  <2>2. JobsOK(job')
    BY <2>1, <2>b, <2>c, Moved
  <2>3. QED
    BY <1>9, <2>2 DEF Height, Typed, TypeOK, JobsOK, caches, history, bounds
<1>10. CASE Known(t)
  <2>1. JobsOK(job')
    BY <1>10, MoveToType DEF Known, PC
  <2>2. QED
    BY <1>10, <2>1 DEF Known, Typed, TypeOK, JobsOK, history, bounds
<1>11. CASE Send(t)
  <2>1. JobsOK(job')
    BY <1>11, StopType DEF Send
  <2>2. Offer(job[t].block) \in [hash : Hash, final : BOOLEAN]
    BY DEF Offer, Entry
  <2>3. QED
    BY <1>11, <2>1, <2>2 DEF Send, Typed, TypeOK, JobsOK, bounds
<1> QED
  BY <1>1, <1>2, <1>3, <1>4, <1>5, <1>6, <1>7, <1>8, <1>9, <1>10, <1>11, <1>12, <1>13, <1>14
     DEF BlockStep

\* The tip is an entry.
LEMMA TipType == Typed => Tip \in Entry /\ Tip.hash \in Hash
<1> SUFFICES ASSUME Typed PROVE Tip \in Entry
  BY DEF Entry
<1>1. chain \in Seq(Entry) /\ Len(chain) \in 1 .. Len(chain)
  BY DEF Typed, TypeOK
<1> QED
  BY <1>1 DEF Tip

\* So is the block that MineBlock commits.
LEMMA MinedEntry ==
  ASSUME Typed, NEW t \in Thread, Mine(t)
  PROVE  /\ mined' \in 1 .. MaxMined
         /\ [hash |-> LocalHash[mined'], prev |-> Tip.hash, final |-> FALSE] \in Entry
  BY TipType, GossipAssumption DEF Mine, Typed, TypeOK, Entry

\* A mined block and a full sync keep the types.
LEMMA TypeChain ==
  ASSUME Typed, NEW t \in Thread, ChainStep(t)
  PROVE  Typed'
<1> USE JobField
<1>1. CASE Mine(t)
  <2> DEFINE b == [hash |-> LocalHash[mined'], prev |-> Tip.hash, final |-> FALSE]
  <2>1. /\ mined' \in 1 .. MaxMined /\ chain' = Append(chain, b)
        /\ accepted' = accepted \cup {b.hash} /\ pool' = {}
        /\ Goto(t, [Idle EXCEPT !.pc = "cast", !.block = b])
    BY <1>1, GossipAssumption DEF Mine, Typed, TypeOK
  <2>3. b \in Entry /\ b.hash \in Hash
    BY <1>1, MinedEntry DEF Entry
  <2> HIDE DEF b
  <2>4. JobsOK(job')
    BY <2>1, <2>3, StartBlock DEF PC
  <2>5. chain' \in Seq(Entry) /\ chain' # << >>
    BY <2>1, <2>3, HashesAppend DEF Typed, TypeOK
  <2>6. QED
    BY <1>1, <2>1, <2>3, <2>4, <2>5 DEF Mine, Typed, TypeOK, JobsOK, caches
<1>2. CASE FullSync(t)
  <2>1. PICK c \in PeerChains : Goto(t, [Idle EXCEPT !.pc = "replace", !.base = c])
    BY <1>2 DEF FullSync
  <2>2. c \in Seq(Entry) /\ c # << >>
    BY GossipAssumption
  <2>3. /\ [Idle EXCEPT !.pc = "replace", !.base = c] \in Job
        /\ InHand([Idle EXCEPT !.pc = "replace", !.base = c])
    BY <2>2, IdleType DEF Job, PC, InHand, Idle
  <2>4. JobsOK(job')
    BY <2>1, <2>3, Moved
  <2>5. syncs' \in 0 .. MaxSyncs
    BY <1>2, GossipAssumption DEF FullSync, Typed, TypeOK
  <2>6. QED
    BY <1>2, <2>4, <2>5 DEF FullSync, Typed, TypeOK, JobsOK, caches, history
<1>5. CASE Replace(t)
  <2>1. [Idle EXCEPT !.pc = "copy"] \in Job /\ InHand([Idle EXCEPT !.pc = "copy"])
    BY IdleType DEF Job, PC, InHand, Idle
  <2>2. JobsOK(job')
    BY <1>5, <2>1, Moved DEF Replace
  <2>3. chain' \in Seq(Entry) /\ chain' # << >>
    BY <1>5 DEF Replace, At, InHand
  <2>4. QED
    BY <1>5, <2>2, <2>3 DEF Replace, Typed, TypeOK, JobsOK, caches, history, bounds
<1>3. CASE Copy(t)
  <2>1. Goto(t, [job[t] EXCEPT !.pc = "index", !.fresh = chain])
    BY <1>3 DEF Copy
  <2>2. [job[t] EXCEPT !.pc = "index", !.fresh = chain] \in Job
    BY DEF Typed, TypeOK, PC, Job
  <2>a. InHand([job[t] EXCEPT !.pc = "index", !.fresh = chain])
    BY DEF InHand, Job
  <2>3. JobsOK(job')
    BY <2>1, <2>2, <2>a, Moved
  <2>4. QED
    BY <1>3, <2>3 DEF Copy, Typed, TypeOK, JobsOK, caches, history, bounds
<1>4. CASE Index(t)
  <2>1. JobsOK(job')
    BY <1>4, StopType DEF Index
  <2>2. Len(job[t].fresh) \in Nat
    OBVIOUS
  <2>3. QED
    BY <1>4, <2>1, <2>2 DEF Index, Typed, TypeOK, JobsOK, bounds
<1> QED
  BY <1>1, <1>2, <1>3, <1>4, <1>5 DEF ChainStep

\* A transaction's steps keep the types.
LEMMA TypeTx ==
  ASSUME Typed, NEW t \in Thread, TxStep(t)
  PROVE  Typed'
<1> USE JobField
<1>1. CASE ReceiveTx(t) \/ PostTx(t)
  <2>1. PICK x \in TxId : Goto(t, [Idle EXCEPT !.pc = "txadd", !.tx = x])
    BY <1>1 DEF ReceiveTx, PostTx
  <2>2. JobsOK(job')
    BY <2>1, StartTx DEF PC
  <2>3. QED
    BY <1>1, <2>2 DEF ReceiveTx, PostTx, Typed, TypeOK, JobsOK, caches, history, bounds
<1>2. CASE AddTx(t)
  <2>1. JobsOK(job')
    BY <1>2, StopType, MoveToType DEF AddTx, PC, InHand, At
  <2>2. QED
    BY <1>2, <2>1 DEF AddTx, At, InHand, Typed, TypeOK, JobsOK, caches, history, bounds
<1>3. CASE CastTx(t)
  <2>1. JobsOK(job')
    BY <1>3, StopType, MoveToType DEF CastTx, PC, InHand, At
  <2>2. QED
    BY <1>3, <2>1 DEF CastTx, Typed, TypeOK, JobsOK, caches, history, bounds
<1>4. CASE SendTx(t)
  <2>1. JobsOK(job')
    BY <1>4, StopType DEF SendTx
  <2>2. QED
    BY <1>4, <2>1 DEF SendTx, At, InHand, Typed, TypeOK, JobsOK, bounds
<1> QED
  BY <1>1, <1>2, <1>3, <1>4 DEF TxStep

\* Every step keeps the types.
LEMMA TypeNext == Typed /\ [Next]_vars => Typed'
<1> SUFFICES ASSUME Typed, [Next]_vars PROVE Typed'
  OBVIOUS
<1>1. CASE SyncAppend
  <2>1. PICK b \in Entry : /\ chain' = Append(chain, b) /\ synced' = synced \cup {b.hash}
    BY <1>1, GossipAssumption DEF SyncAppend, Typed, TypeOK
  <2>2. chain' \in Seq(Entry) /\ chain' # << >> /\ synced' \subseteq Hash
    BY <2>1, HashesAppend DEF Typed, TypeOK, Entry
  <2>3. QED
    BY <1>1, <2>2, GossipAssumption DEF SyncAppend, Typed, TypeOK, JobsOK, caches
<1>2. CASE Expire
  BY <1>2, GossipAssumption DEF Expire, Typed, TypeOK, history
<1>3. CASE UNCHANGED vars
  BY <1>3 DEF vars, Typed, TypeOK
<1> QED
  BY <1>1, <1>2, <1>3, TypeBlock, TypeChain, TypeTx DEF Next

(***************************************************************************)
(* The index                                                                *)
(***************************************************************************)
\* The handler's job j holds hash h: it will broadcast its block or record its
\* copy of the chain.
Holds(j, h) ==
  \/ j.pc \in CastPC /\ j.block.hash = h
  \/ j.pc = "copy" \/ h \in HashesOf(j.fresh)

Kept(h) == h \in known \/ \E t \in Thread : Holds(job[t], h)

\* A block in a seen cache is indexed; so is the one a handler is sending; and
\* only the handlers that record hold copies.
IndexInv ==
  /\ seenBlk \subseteq known
  /\ \A t \in Thread : job[t].pc = "send" => job[t].block.hash \in known
  /\ \A t \in Thread : job[t].pc \notin {"record", "index"} => job[t].fresh = << >>
  /\ \A h \in HashesOf(chain) \ (synced \cup restored) : Kept(h)

\* An empty copy has no hashes.
LEMMA NoHashes == HashesOf(<< >>) = {} /\ FinalHashes(<< >>) = {}
  BY DEF HashesOf, FinalHashes

\* A step of one handler that records what it stops holding keeps the index.
LEMMA IndexHandover ==
  ASSUME Typed, IndexInv, NEW t \in Thread, \A u \in Thread \ {t} : job'[u] = job[u],
         known \subseteq known', seenBlk' \subseteq known', UNCHANGED synced,
         restored \subseteq restored',
         \A h \in Hash : h \in HashesOf(chain') /\ Holds(job[t], h)
                           => h \in known' \/ Holds(job'[t], h),
         \A h \in HashesOf(chain') :
           h \in HashesOf(chain) \cup restored' \cup known' \/ Holds(job'[t], h),
         job'[t].pc = "send" => job'[t].block.hash \in known',
         job'[t].pc \notin {"record", "index"} => job'[t].fresh = << >>
  PROVE  IndexInv'
<1>1. ASSUME NEW h \in HashesOf(chain) \ (synced' \cup restored'), h \in HashesOf(chain')
      PROVE  Kept(h)'
  <2>1. Kept(h) /\ h \in Hash
    BY HashesType DEF IndexInv, Typed, TypeOK
  <2>2. CASE h \in known
    BY <2>2 DEF Kept
  <2>3. ASSUME NEW u \in Thread, Holds(job[u], h) PROVE Kept(h)'
    <3>1. CASE u = t
      BY <1>1, <2>1, <2>3, <3>1 DEF Kept
    <3>2. CASE u # t
      <4>1. Holds(job'[u], h)
        BY <2>3, <3>2
      <4>2. QED
        BY <4>1 DEF Kept
    <3>3. QED
      BY <3>1, <3>2
  <2>4. QED
    BY <2>1, <2>2, <2>3 DEF Kept
<1>2. ASSUME NEW h \in HashesOf(chain') \ (synced' \cup restored') PROVE Kept(h)'
  <2>1. CASE h \in HashesOf(chain)
    BY <1>1, <2>1
  <2>2. CASE Holds(job'[t], h) \/ h \in known'
    BY <2>2 DEF Kept
  <2>3. QED
    BY <1>2, <2>1, <2>2
<1>3. /\ \A u \in Thread : job'[u].pc = "send" => job'[u].block.hash \in known'
      /\ \A u \in Thread : job'[u].pc \notin {"record", "index"} => job'[u].fresh = << >>
  BY DEF IndexInv
<1> QED
  BY <1>2, <1>3 DEF IndexInv

\* What the jobs between steps hold.
LEMMA HoldsPC ==
  ASSUME Typed, IndexInv, NEW t \in Thread, NEW h \in Hash
  PROVE  /\ Holds(Idle, h) = FALSE
         /\ job[t].pc \in PC \ (CastPC \cup {"copy", "record", "index"}) => ~Holds(job[t], h)
         /\ job[t].pc \in CastPC => (Holds(job[t], h) <=> h = job[t].block.hash)
         /\ job[t].pc \in {"record", "index"} => (Holds(job[t], h) <=> h \in HashesOf(job[t].fresh))
<1>1. Idle.pc = "idle" /\ Idle.fresh = << >>
  BY DEF Idle
<1>2. job[t].pc \notin {"record", "index"} => job[t].fresh = << >>
  BY DEF IndexInv
<1> QED
  BY <1>1, <1>2, NoHashes, JobField DEF Holds, CastPC

\* A step of a "block" message keeps the index.
LEMMA IndexBlock ==
  ASSUME Typed, IndexInv, NEW t \in Thread, BlockStep(t)
  PROVE  IndexInv'
<1> USE JobField, HoldsPC, NoHashes DEF CastPC
<1>0. /\ chain \in Seq(Entry) /\ HashesOf(chain) \subseteq Hash /\ seenBlk \subseteq known
      /\ job[t].pc = "send" => job[t].block.hash \in known
      /\ job[t].pc \notin {"record", "index"} => job[t].fresh = << >>
  BY HashesType DEF Typed, TypeOK, IndexInv
<1>1. CASE Receive(t)
  <2>1. PICK b \in Entry :
          /\ HashesOf(chain') = HashesOf(chain)
          /\ \/ Goto(t, [Idle EXCEPT !.pc = "seen", !.block = b])
             \/ Goto(t, [Idle EXCEPT !.pc = "cast", !.block = b])
    BY <1>1, ReceiveEffect
  <2>2. /\ job'[t].fresh = << >> /\ job'[t].pc \in {"seen", "cast"}
        /\ \A u \in Thread \ {t} : job'[u] = job[u]
    BY <2>1, StartBlock DEF PC
  <2>3. UNCHANGED <<known, seenBlk, synced, restored>> /\ job[t].pc = "idle"
    BY <1>1 DEF Receive, At, history
  <2>4. QED
    BY <1>0, <2>1, <2>2, <2>3, IndexHandover
<1>2. CASE Seen(t) \/ Lookup(t)
  <2>1. /\ job[t].pc \in {"seen", "lookup"} /\ UNCHANGED <<chain, known, seenBlk, synced, restored>>
        /\ Stop(t) \/ MoveTo(t, "refresh") \/ MoveTo(t, "fork")
    BY <1>2 DEF Seen, Lookup, At, caches, history
  <2>2. /\ job'[t].fresh = << >> /\ job'[t].pc # "send"
        /\ \A u \in Thread \ {t} : job'[u] = job[u]
    BY <1>0, <2>1, StopType, MoveToType DEF PC, Idle
  <2>3. QED
    BY <1>0, <2>1, <2>2, IndexHandover
<1>3. CASE Refresh(t)
  <2>1. /\ job[t].pc = "refresh" /\ UNCHANGED <<chain, known, seenBlk, synced, restored>>
    BY <1>3 DEF Refresh, At, caches, history
  <2>2. /\ job'[t].pc \in {"lookup", "record"}
        /\ job'[t].pc = "lookup" => job'[t].fresh = << >>
        /\ \A u \in Thread \ {t} : job'[u] = job[u]
    <3>1. CASE MoveTo(t, "lookup")
      BY <1>0, <2>1, <3>1, MoveToType DEF PC
    <3>2. ASSUME NEW c, Goto(t, [job[t] EXCEPT !.pc = "record", !.fresh = c])
          PROVE  job'[t].pc = "record" /\ \A u \in Thread \ {t} : job'[u] = job[u]
      BY <3>2 DEF Goto, Typed, TypeOK, Job
    <3>3. QED
      BY <1>3, <3>1, <3>2 DEF Refresh
  <2>3. QED
    BY <1>0, <2>1, <2>2, IndexHandover
<1>4. CASE Record(t)
  <2>1. /\ job[t].pc = "record" /\ UNCHANGED <<chain, synced, restored>>
        /\ known' = known \cup HashesOf(job[t].fresh)
        /\ seenBlk' = seenBlk \cup HashesOf(job[t].fresh)
    BY <1>4 DEF Record, At
  <2>2. /\ job'[t].pc = "lookup" /\ job'[t].fresh = << >>
        /\ \A u \in Thread \ {t} : job'[u] = job[u]
    BY <1>4 DEF Record, Goto, Typed, TypeOK, Job
  <2>3. QED
    BY <1>0, <2>1, <2>2, IndexHandover
<1>5. CASE Add(t)
  <2>1. job[t].pc = "add" /\ UNCHANGED <<known, seenBlk, synced, restored>>
    BY <1>5 DEF Add, At, caches
  <2>2. CASE Stop(t) /\ UNCHANGED chain
    <3>1. job'[t].fresh = << >> /\ job'[t].pc = "idle" /\ \A u \in Thread \ {t} : job'[u] = job[u]
      BY <2>2, StopType DEF Idle
    <3>2. QED
      BY <1>0, <2>1, <2>2, <3>1, IndexHandover
  <2>3. CASE ~(Stop(t) /\ UNCHANGED chain)
    <3>1. MoveTo(t, "cast") /\ chain' = Append(chain, job[t].block)
      BY <1>5, <2>3 DEF Add
    <3>2. /\ job'[t].fresh = << >> /\ job'[t].pc = "cast" /\ job'[t].block = job[t].block
          /\ \A u \in Thread \ {t} : job'[u] = job[u]
      BY <1>0, <2>1, <3>1, MoveToType DEF PC
    <3>3. HashesOf(chain') \subseteq HashesOf(chain) \cup {job[t].block.hash}
      BY <1>0, <3>1, HashesAppend
    <3>4. Holds(job'[t], job[t].block.hash)
      BY <3>2 DEF Holds
    <3>5. QED
      BY <1>0, <2>1, <3>2, <3>3, <3>4, IndexHandover
  <2>4. QED
    BY <2>2, <2>3
<1>10. CASE Fork(t) \/ Base(t)
  <2>1. /\ job[t].pc \in {"fork", "base"}
        /\ UNCHANGED <<chain, known, seenBlk, synced, restored>>
    BY <1>10 DEF Fork, Base, At, caches, history
  <2>2. /\ job'[t].fresh = << >> /\ job'[t].pc # "send"
        /\ \A u \in Thread \ {t} : job'[u] = job[u]
    <3>1. CASE Stop(t) \/ MoveTo(t, "add")
      BY <1>0, <2>1, <3>1, StopType, MoveToType DEF PC, Idle
    <3>2. ASSUME NEW n, NEW m,
                 Goto(t, [job[t] EXCEPT !.pc = "base", !.height = n, !.kept = m])
          PROVE  /\ job'[t].fresh = << >> /\ job'[t].pc # "send"
                 /\ \A u \in Thread \ {t} : job'[u] = job[u]
      BY <1>0, <2>1, <3>2 DEF Goto, Typed, TypeOK, Job
    <3>3. ASSUME NEW c, Goto(t, [job[t] EXCEPT !.pc = "adopt", !.base = c])
          PROVE  /\ job'[t].fresh = << >> /\ job'[t].pc # "send"
                 /\ \A u \in Thread \ {t} : job'[u] = job[u]
      BY <1>0, <2>1, <3>3 DEF Goto, Typed, TypeOK, Job
    <3>4. QED
      BY <1>10, <3>1, <3>2, <3>3 DEF Fork, Base
  <2>3. QED
    BY <1>0, <2>1, <2>2, IndexHandover
<1>11. CASE Adopt(t)
  <2> DEFINE b == job[t].block
  <2>1. /\ job[t].pc = "adopt" /\ UNCHANGED <<known, seenBlk, synced>>
        /\ chain' = Append(job[t].base, b)
        /\ restored' = restored \cup Forgotten(job[t].base)
    BY <1>11 DEF Adopt, At, caches
  <2>2. /\ job'[t].fresh = << >> /\ job'[t].pc = "cast" /\ job'[t].block = b
        /\ \A u \in Thread \ {t} : job'[u] = job[u]
    BY <1>0, <1>11, <2>1 DEF Adopt, Goto, Typed, TypeOK, Job
  <2>3. HashesOf(chain') \subseteq HashesOf(job[t].base) \cup {b.hash}
    BY <2>1, HashesAppend
  <2>4. HashesOf(job[t].base) \subseteq HashesOf(chain) \cup known \cup restored'
    BY <2>1 DEF Forgotten
  <2>5. Holds(job'[t], b.hash)
    BY <2>2 DEF Holds
  <2>6. QED
    BY <1>0, <2>1, <2>2, <2>3, <2>4, <2>5, IndexHandover
<1>6. CASE Cast(t) \/ Height(t)
  <2>1. /\ job[t].pc \in {"cast", "height"} /\ UNCHANGED <<chain, known, seenBlk, synced, restored>>
    BY <1>6 DEF Cast, Height, At, caches, history
  <2>2. /\ job'[t].pc \in {"check", "height", "known"} /\ job'[t].fresh = << >>
        /\ job'[t].block = job[t].block
        /\ \A u \in Thread \ {t} : job'[u] = job[u]
    <3>1. CASE Cast(t)
      BY <1>0, <2>1, <3>1, MoveToType DEF Cast, PC
    <3>2. CASE Height(t)
      BY <1>0, <2>1, <3>2 DEF Height, Goto, Typed, TypeOK, Job
    <3>3. QED
      BY <1>6, <3>1, <3>2
  <2>3. Holds(job'[t], job[t].block.hash)
    BY <2>2 DEF Holds
  <2>4. QED
    BY <1>0, <2>1, <2>2, <2>3, IndexHandover
<1>7. CASE Check(t)
  <2>1. /\ job[t].pc = "check" /\ UNCHANGED <<chain, known, seenBlk, synced, restored>>
        /\ IF job[t].block.hash \in seenBlk THEN Stop(t) ELSE MoveTo(t, "height")
    BY <1>7 DEF Check, At, caches, history
  <2>2. CASE job[t].block.hash \in seenBlk
    <3>1. /\ job'[t].fresh = << >> /\ job'[t].pc = "idle"
          /\ \A u \in Thread \ {t} : job'[u] = job[u]
      BY <2>1, <2>2, StopType DEF Idle
    <3>2. QED
      BY <1>0, <2>1, <2>2, <3>1, IndexHandover
  <2>3. CASE job[t].block.hash \notin seenBlk
    <3>1. /\ job'[t].fresh = << >> /\ job'[t].pc = "height" /\ job'[t].block = job[t].block
          /\ \A u \in Thread \ {t} : job'[u] = job[u]
      BY <1>0, <2>1, <2>3, MoveToType DEF PC
    <3>2. Holds(job'[t], job[t].block.hash)
      BY <3>1 DEF Holds
    <3>3. QED
      BY <1>0, <2>1, <3>1, <3>2, IndexHandover
  <2>4. QED
    BY <2>2, <2>3
<1>8. CASE Known(t)
  <2>1. /\ job[t].pc = "known" /\ UNCHANGED <<chain, seenBlk, synced, restored>>
        /\ known' = known \cup {job[t].block.hash} /\ MoveTo(t, "send")
    BY <1>8 DEF Known, At, history
  <2>2. /\ job'[t].fresh = << >> /\ job'[t].block = job[t].block
        /\ \A u \in Thread \ {t} : job'[u] = job[u]
    BY <1>0, <2>1, MoveToType DEF PC
  <2>3. QED
    BY <1>0, <2>1, <2>2, IndexHandover
<1>9. CASE Send(t)
  <2>1. /\ job[t].pc = "send" /\ UNCHANGED <<chain, known, synced, restored>> /\ Stop(t)
        /\ seenBlk' = seenBlk \cup {job[t].block.hash}
    BY <1>9 DEF Send, At
  <2>2. /\ job'[t].fresh = << >> /\ job'[t].pc = "idle"
        /\ \A u \in Thread \ {t} : job'[u] = job[u]
    BY <2>1, StopType DEF Idle
  <2>3. QED
    BY <1>0, <2>1, <2>2, IndexHandover
<1> QED
  BY <1>1, <1>2, <1>3, <1>4, <1>5, <1>6, <1>7, <1>8, <1>9, <1>10, <1>11 DEF BlockStep

\* A mined block and a full sync keep the index.
LEMMA IndexChain ==
  ASSUME Typed, IndexInv, NEW t \in Thread, ChainStep(t)
  PROVE  IndexInv'
<1> USE JobField, HoldsPC, NoHashes DEF CastPC
<1>0. /\ chain \in Seq(Entry) /\ HashesOf(chain) \subseteq Hash /\ seenBlk \subseteq known
      /\ job[t].pc \notin {"record", "index"} => job[t].fresh = << >>
  BY HashesType DEF Typed, TypeOK, IndexInv
<1>1. CASE Mine(t)
  <2> DEFINE b == [hash |-> LocalHash[mined'], prev |-> Tip.hash, final |-> FALSE]
  <2>1. /\ job[t].pc = "idle" /\ UNCHANGED <<known, seenBlk, synced, restored>>
        /\ chain' = Append(chain, b) /\ Goto(t, [Idle EXCEPT !.pc = "cast", !.block = b])
    BY <1>1 DEF Mine, At, caches
  <2>2. b \in Entry
    BY <1>1, MinedEntry
  <2> HIDE DEF b
  <2>3. /\ job'[t].fresh = << >> /\ job'[t].pc = "cast" /\ job'[t].block = b
        /\ \A u \in Thread \ {t} : job'[u] = job[u]
    BY <2>1, <2>2, StartBlock DEF PC
  <2>4. HashesOf(chain') \subseteq HashesOf(chain) \cup {b.hash} /\ Holds(job'[t], b.hash)
    BY <1>0, <2>1, <2>2, <2>3, HashesAppend DEF Holds
  <2>5. /\ \A h \in HashesOf(chain') :
             h \in HashesOf(chain) \cup restored' \cup known' \/ Holds(job'[t], h)
        /\ \A h \in Hash : ~Holds(job[t], h)
    BY <2>1, <2>4 DEF PC
  <2>6. QED
    BY <1>0, <2>1, <2>3, <2>5, IndexHandover
<1>2. CASE FullSync(t)
  <2>1. /\ job[t].pc = "idle" /\ UNCHANGED <<chain, known, seenBlk, synced, restored>>
    BY <1>2 DEF FullSync, At, caches, history
  <2>2. /\ job'[t].fresh = << >> /\ job'[t].pc = "replace"
        /\ \A u \in Thread \ {t} : job'[u] = job[u]
    BY <1>2 DEF FullSync, Goto, Typed, TypeOK, Idle
  <2>3. QED
    BY <1>0, <2>1, <2>2, IndexHandover
<1>5. CASE Replace(t)
  <2>1. job[t].pc = "replace" /\ UNCHANGED <<known, seenBlk, synced, restored>>
    BY <1>5 DEF Replace, At, caches, history
  <2>2. /\ job'[t].fresh = << >> /\ job'[t].pc = "copy"
        /\ \A u \in Thread \ {t} : job'[u] = job[u]
    BY <1>5 DEF Replace, Goto, Typed, TypeOK, Idle
  <2>3. \A h : Holds(job'[t], h)
    BY <2>2 DEF Holds
  <2>4. QED
    BY <1>0, <2>1, <2>2, <2>3, IndexHandover
<1>3. CASE Copy(t)
  <2>1. job[t].pc = "copy" /\ UNCHANGED <<chain, known, seenBlk, synced, restored>>
    BY <1>3 DEF Copy, At, caches, history
  <2>2. /\ job'[t].fresh = chain /\ job'[t].pc = "index"
        /\ \A u \in Thread \ {t} : job'[u] = job[u]
    BY <1>3 DEF Copy, Goto, Typed, TypeOK, Job
  <2>3. \A h \in HashesOf(chain') : Holds(job'[t], h)
    BY <2>1, <2>2 DEF Holds
  <2>4. QED
    BY <1>0, <2>1, <2>2, <2>3, IndexHandover
<1>4. CASE Index(t)
  <2>1. /\ job[t].pc = "index" /\ UNCHANGED <<chain, synced, restored>> /\ Stop(t)
        /\ known' = known \cup HashesOf(job[t].fresh)
        /\ seenBlk' = seenBlk \cup HashesOf(job[t].fresh)
    BY <1>4 DEF Index, At
  <2>2. /\ job'[t].fresh = << >> /\ job'[t].pc = "idle"
        /\ \A u \in Thread \ {t} : job'[u] = job[u]
    BY <2>1, StopType DEF Idle
  <2>3. QED
    BY <1>0, <2>1, <2>2, IndexHandover
<1> QED
  BY <1>1, <1>2, <1>3, <1>4, <1>5 DEF ChainStep

\* A transaction's steps do not touch it.
LEMMA IndexTx ==
  ASSUME Typed, IndexInv, NEW t \in Thread, TxStep(t)
  PROVE  IndexInv'
<1> USE JobField, HoldsPC, NoHashes DEF CastPC
<1>0. /\ chain \in Seq(Entry) /\ HashesOf(chain) \subseteq Hash /\ seenBlk \subseteq known
      /\ job[t].pc \notin {"record", "index"} => job[t].fresh = << >>
  BY HashesType DEF Typed, TypeOK, IndexInv
<1>1. UNCHANGED <<chain, known, seenBlk, synced, restored>> /\ job[t].pc \in {"idle", "txadd", "txcast", "txsend"}
  BY DEF TxStep, ReceiveTx, PostTx, AddTx, CastTx, SendTx, At, caches, history
<1>2. /\ job'[t].fresh = << >> /\ job'[t].pc # "send"
      /\ \A u \in Thread \ {t} : job'[u] = job[u]
  <2>1. CASE ReceiveTx(t) \/ PostTx(t)
    <3>1. PICK x \in TxId : Goto(t, [Idle EXCEPT !.pc = "txadd", !.tx = x])
      BY <2>1 DEF ReceiveTx, PostTx
    <3>2. "txadd" \in PC \ {"replace"}
      BY DEF PC
    <3>3. QED
      BY <3>1, <3>2, StartTx
  <2>2. CASE Stop(t)
    BY <2>2, StopType DEF Idle
  <2>3. CASE MoveTo(t, "txcast") /\ AddTx(t)
    BY <1>0, <1>1, <2>3, MoveToType DEF PC, AddTx, At, InHand
  <2>4. CASE MoveTo(t, "txsend") /\ CastTx(t)
    BY <1>0, <1>1, <2>4, MoveToType DEF PC, CastTx, At, InHand
  <2>5. QED
    BY <2>1, <2>2, <2>3, <2>4 DEF TxStep, AddTx, CastTx, SendTx
<1>3. QED
  BY <1>0, <1>1, <1>2, IndexHandover

\* Every step keeps the index; synced and restored blocks are the exceptions.
LEMMA IndexNext == Typed /\ IndexInv /\ [Next]_vars => IndexInv'
<1> SUFFICES ASSUME Typed, IndexInv, [Next]_vars PROVE IndexInv'
  OBVIOUS
<1>1. CASE SyncAppend
  <2>1. PICK b \in Entry : /\ chain' = Append(chain, b) /\ synced' = synced \cup {b.hash}
    BY <1>1, GossipAssumption DEF SyncAppend, Typed, TypeOK
  <2>2. UNCHANGED <<known, seenBlk, restored, job>>
    BY <1>1 DEF SyncAppend, caches
  <2>3. HashesOf(chain') \ (synced' \cup restored') \subseteq HashesOf(chain) \ (synced \cup restored)
    BY <2>1, <2>2, HashesAppend DEF Typed, TypeOK
  <2>4. QED
    BY <2>2, <2>3 DEF IndexInv, Kept
<1>2. CASE Expire
  BY <1>2 DEF Expire, history, IndexInv, Kept
<1>3. CASE UNCHANGED vars
  BY <1>3 DEF vars, IndexInv, Kept
<1> QED
  BY <1>1, <1>2, <1>3, IndexBlock, IndexChain, IndexTx DEF Next

\* NewP2PNode indexes the genesis block.
LEMMA IndexInit == Init => IndexInv
<1> SUFFICES ASSUME Init PROVE IndexInv
  OBVIOUS
<1>1. HashesOf(chain) = {Genesis.hash}
  BY DEF Init, HashesOf
<1> QED
  BY <1>1 DEF Init, IndexInv, Kept, Idle

\* What a handler holds is what the property allows.
LEMMA IndexGoal == Typed /\ IndexInv => KnownCoversChain
<1> SUFFICES ASSUME Typed, IndexInv, NEW h \in (HashesOf(chain) \ synced) \ restored
             PROVE  h \in known \cup {g \in Hash : Casting(g) \/ Copying(g)}
  BY DEF KnownCoversChain
<1>1. h \in Hash /\ Kept(h)
  BY HashesType DEF IndexInv, Typed, TypeOK
<1> QED
  BY <1>1 DEF Kept, Holds, Casting, Copying, At, CastPC

(***************************************************************************)
(* What is offered to the peers                                             *)
(***************************************************************************)
\* A handler's step is its own: the other handlers' variables stay.
LEMMA OthersStay ==
  ASSUME Typed, NEW t \in Thread, BlockStep(t) \/ ChainStep(t) \/ TxStep(t)
  PROVE  \A u \in Thread \ {t} : job'[u] = job[u]
<1>1. \E j : Goto(t, j)
  BY DEF BlockStep, Receive, Seen, Refresh, Record, Lookup, Fork, Base, Adopt, Add, Cast, Check,
         Height, Known, Send, ChainStep, Mine, FullSync, Replace, Copy, Index,
         TxStep, ReceiveTx, PostTx, AddTx, CastTx, SendTx, Stop, MoveTo
<1> QED
  BY <1>1 DEF Goto, Typed, TypeOK

Offered(h) == \E b \in outBlk : b.hash = h
Casts(j, h) == j.pc \in CastPC /\ j.block.hash = h

\* A block is in the seen cache because it was offered or indexed.
OfferInv ==
  /\ \A h \in seenBlk : Offered(h) \/ h \in indexedBy
  /\ OfferedUnlessIndexed

\* A step of one handler that offers what it stops broadcasting keeps OfferInv.
LEMMA OfferHandover ==
  ASSUME Typed, OfferInv, NEW t \in Thread, \A u \in Thread \ {t} : job'[u] = job[u],
         outBlk \subseteq outBlk', indexedBy \subseteq indexedBy',
         \A h \in seenBlk' : Offered(h)' \/ h \in indexedBy',
         \A h : Casts(job[t], h) => Casts(job'[t], h) \/ Offered(h)' \/ h \in indexedBy',
         \A h \in accepted' : h \in accepted \/ Casts(job'[t], h)
  PROVE  OfferInv'
<1>1. ASSUME NEW h \in accepted' \ indexedBy' PROVE Casting(h)' \/ Offered(h)'
  <2>1. CASE Casts(job'[t], h)
    BY <2>1 DEF Casts, Casting, CastPC
  <2>2. CASE h \in accepted
    <3>1. Casting(h) \/ Offered(h)
      BY <1>1, <2>2 DEF OfferInv, OfferedUnlessIndexed, Offered
    <3>2. ASSUME NEW u \in Thread, Casts(job[u], h) PROVE Casting(h)' \/ Offered(h)'
      <4>1. CASE u = t
        BY <1>1, <3>2, <4>1, <2>1
      <4>2. CASE u # t
        BY <3>2, <4>2 DEF Casts, Casting, CastPC
      <4>3. QED
        BY <4>1, <4>2
    <3>3. QED
      BY <3>1, <3>2 DEF Casting, Casts, CastPC, Offered
  <2>3. QED
    BY <1>1, <2>1, <2>2
<1> QED
  BY <1>1 DEF OfferInv, OfferedUnlessIndexed, Offered

\* The handler's steps that neither offer, accept nor record a block.
LEMMA OfferQuiet ==
  ASSUME Typed, OfferInv, NEW t \in Thread, \A u \in Thread \ {t} : job'[u] = job[u],
         UNCHANGED <<outBlk, indexedBy, seenBlk, accepted>>,
         job[t].pc \notin CastPC
  PROVE  OfferInv'
<1>1. \A h : ~Casts(job[t], h)
  BY DEF Casts
<1>2. \A h \in seenBlk' : Offered(h)' \/ h \in indexedBy'
  BY DEF OfferInv, Offered
<1> QED
  BY <1>1, <1>2, OfferHandover

\* A step of a "block" message keeps OfferInv.
LEMMA OfferBlock ==
  ASSUME Typed, OfferInv, NEW t \in Thread, BlockStep(t)
  PROVE  OfferInv'
<1> USE JobField DEF CastPC
<1>0. /\ \A u \in Thread \ {t} : job'[u] = job[u]
      /\ \A h \in seenBlk : Offered(h) \/ h \in indexedBy
  BY OthersStay DEF OfferInv
<1>1. CASE Receive(t) \/ Seen(t) \/ Refresh(t) \/ Lookup(t) \/ Fork(t) \/ Base(t)
  <2>1. UNCHANGED <<outBlk, indexedBy, seenBlk, accepted>> /\ job[t].pc \notin CastPC
    BY <1>1 DEF Receive, Seen, Refresh, Lookup, Fork, Base, At, caches, history
  <2>2. QED
    BY <1>0, <2>1, OfferQuiet
<1>2. CASE Record(t)
  <2>1. /\ UNCHANGED <<outBlk, accepted>> /\ ~(job[t].pc \in CastPC)
        /\ seenBlk' = seenBlk \cup HashesOf(job[t].fresh)
        /\ indexedBy' = indexedBy \cup HashesOf(job[t].fresh)
    BY <1>2 DEF Record, At
  <2>2. \A h \in seenBlk' : Offered(h)' \/ h \in indexedBy'
    BY <1>0, <2>1 DEF Offered
  <2>3. \A h : ~Casts(job[t], h)
    BY <2>1 DEF Casts
  <2>4. QED
    BY <1>0, <2>1, <2>2, <2>3, OfferHandover
<1>3. CASE Add(t) \/ Adopt(t)
  <2>1. UNCHANGED <<outBlk, indexedBy, seenBlk>> /\ job[t].pc \in {"add", "adopt"}
    BY <1>3 DEF Add, Adopt, At, caches
  <2>2. CASE UNCHANGED accepted
    BY <1>0, <2>1, <2>2, OfferQuiet
  <2>3. CASE accepted' # accepted
    <3>1. accepted' = accepted \cup {job[t].block.hash}
      BY <1>3, <2>3 DEF Add, Adopt
    <3>2. Casts(job'[t], job[t].block.hash)
      <4>1. CASE Add(t)
        <5>1. MoveTo(t, "cast")
          BY <2>3, <4>1 DEF Add
        <5>2. QED
          BY <5>1, MoveToType DEF Casts, PC
      <4>2. CASE Adopt(t)
        BY <4>2 DEF Adopt, Goto, Casts, Typed, TypeOK, Job
      <4>3. QED
        BY <1>3, <4>1, <4>2
    <3>3. \A h : ~Casts(job[t], h)
      BY <2>1 DEF Casts
    <3>4. \A h \in seenBlk' : Offered(h)' \/ h \in indexedBy'
      BY <1>0, <2>1 DEF Offered
    <3>5. QED
      BY <1>0, <2>1, <3>1, <3>2, <3>3, <3>4, OfferHandover
  <2>4. QED
    BY <2>2, <2>3
<1>4. CASE Cast(t) \/ Height(t) \/ Known(t)
  <2>1. /\ UNCHANGED <<outBlk, indexedBy, seenBlk, accepted>>
        /\ job[t].pc \in {"cast", "height", "known"}
    BY <1>4 DEF Cast, Height, Known, At, caches, history
  <2>2. job'[t].pc \in CastPC /\ job'[t].block = job[t].block
    <3>1. CASE Cast(t)
      BY <2>1, <3>1, MoveToType DEF Cast, PC
    <3>2. CASE Height(t)
      BY <2>1, <3>2 DEF Height, Goto, Typed, TypeOK, Job
    <3>3. CASE Known(t)
      BY <2>1, <3>3, MoveToType DEF Known, PC
    <3>4. QED
      BY <1>4, <3>1, <3>2, <3>3
  <2>3. \A h : Casts(job[t], h) => Casts(job'[t], h)
    BY <2>2 DEF Casts
  <2>4. \A h \in seenBlk' : Offered(h)' \/ h \in indexedBy'
    BY <1>0, <2>1 DEF Offered
  <2>5. QED
    BY <1>0, <2>1, <2>3, <2>4, OfferHandover
<1>5. CASE Check(t)
  <2>1. /\ UNCHANGED <<outBlk, indexedBy, seenBlk, accepted>> /\ job[t].pc = "check"
        /\ IF job[t].block.hash \in seenBlk THEN Stop(t) ELSE MoveTo(t, "height")
    BY <1>5 DEF Check, At, caches, history
  <2>2. \A h \in seenBlk' : Offered(h)' \/ h \in indexedBy'
    BY <1>0, <2>1 DEF Offered
  <2>3. \A h : Casts(job[t], h) => Casts(job'[t], h) \/ h \in seenBlk'
    <3>1. CASE job[t].block.hash \in seenBlk
      BY <2>1, <3>1 DEF Casts
    <3>2. CASE job[t].block.hash \notin seenBlk
      <4>1. job'[t].pc = "height" /\ job'[t].block = job[t].block
        BY <2>1, <3>2, MoveToType DEF PC
      <4>2. QED
        BY <4>1 DEF Casts
    <3>3. QED
      BY <3>1, <3>2
  <2>4. QED
    BY <1>0, <2>1, <2>2, <2>3, OfferHandover
<1>6. CASE Send(t)
  <2>1. /\ UNCHANGED <<indexedBy, accepted>>
        /\ seenBlk' = seenBlk \cup {job[t].block.hash}
        /\ outBlk' = outBlk \cup {Offer(job[t].block)}
    BY <1>6 DEF Send
  <2>2. Offer(job[t].block).hash = job[t].block.hash
    BY DEF Offer
  <2>3. \A h : Offered(h) \/ h = job[t].block.hash => Offered(h)'
    BY <2>1, <2>2 DEF Offered
  <2>4. \A h : Casts(job[t], h) => Offered(h)'
    BY <2>3 DEF Casts
  <2>5. QED
    BY <1>0, <2>1, <2>3, <2>4, OfferHandover
<1> QED
  BY <1>1, <1>2, <1>3, <1>4, <1>5, <1>6 DEF BlockStep

\* A mined block and a full sync keep it.
LEMMA OfferChain ==
  ASSUME Typed, OfferInv, NEW t \in Thread, ChainStep(t)
  PROVE  OfferInv'
<1> USE JobField DEF CastPC
<1>0. /\ \A u \in Thread \ {t} : job'[u] = job[u]
      /\ \A h \in seenBlk : Offered(h) \/ h \in indexedBy
      /\ job[t].pc \in {"idle", "replace", "copy", "index"}
  BY OthersStay DEF OfferInv, ChainStep, Mine, FullSync, Replace, Copy, Index, At
<1>1. \A h : ~Casts(job[t], h)
  BY <1>0 DEF Casts
<1>2. CASE Mine(t)
  <2> DEFINE b == [hash |-> LocalHash[mined'], prev |-> Tip.hash, final |-> FALSE]
  <2>1. /\ UNCHANGED <<outBlk, indexedBy, seenBlk>>
        /\ accepted' = accepted \cup {b.hash} /\ Goto(t, [Idle EXCEPT !.pc = "cast", !.block = b])
    BY <1>2 DEF Mine, caches
  <2>2. b \in Entry
    BY <1>2, MinedEntry
  <2> HIDE DEF b
  <2>3. job'[t].pc = "cast" /\ job'[t].block = b
    BY <2>1, <2>2, StartBlock DEF PC
  <2>4. \A h \in seenBlk' : Offered(h)' \/ h \in indexedBy'
    BY <1>0, <2>1 DEF Offered
  <2>5. QED
    BY <1>0, <1>1, <2>1, <2>3, <2>4, OfferHandover DEF Casts
<1>3. CASE FullSync(t) \/ Replace(t) \/ Copy(t)
  <2>1. UNCHANGED <<outBlk, indexedBy, seenBlk, accepted>>
    BY <1>3 DEF FullSync, Replace, Copy, caches, history
  <2>2. QED
    BY <1>0, <2>1, OfferQuiet
<1>4. CASE Index(t)
  <2>1. /\ UNCHANGED <<outBlk, accepted>>
        /\ seenBlk' = seenBlk \cup HashesOf(job[t].fresh)
        /\ indexedBy' = indexedBy \cup HashesOf(job[t].fresh)
    BY <1>4 DEF Index
  <2>2. \A h \in seenBlk' : Offered(h)' \/ h \in indexedBy'
    BY <1>0, <2>1 DEF Offered
  <2>3. QED
    BY <1>0, <1>1, <2>1, <2>2, OfferHandover
<1> QED
  BY <1>2, <1>3, <1>4 DEF ChainStep

\* Every step keeps it.
LEMMA OfferNext == Typed /\ OfferInv /\ [Next]_vars => OfferInv'
<1> SUFFICES ASSUME Typed, OfferInv, [Next]_vars PROVE OfferInv'
  OBVIOUS
<1>1. CASE SyncAppend
  BY <1>1 DEF SyncAppend, caches, OfferInv, OfferedUnlessIndexed, Offered, Casting
<1>2. CASE Expire
  BY <1>2 DEF Expire, history, OfferInv, OfferedUnlessIndexed, Offered, Casting
<1>3. CASE UNCHANGED vars
  BY <1>3 DEF vars, OfferInv, OfferedUnlessIndexed, Offered, Casting
<1>4. ASSUME NEW t \in Thread, TxStep(t) PROVE OfferInv'
  <2>1. /\ UNCHANGED <<outBlk, indexedBy, seenBlk, accepted>> /\ job[t].pc \notin CastPC
    BY <1>4 DEF TxStep, ReceiveTx, PostTx, AddTx, CastTx, SendTx, At, CastPC, caches, history
  <2>2. QED
    BY <1>4, <2>1, OthersStay, OfferQuiet
<1> QED
  BY <1>1, <1>2, <1>3, <1>4, OfferBlock, OfferChain DEF Next

\* At first only the genesis block is in the cache, indexed.
LEMMA OfferInit == Init => OfferInv
  BY DEF Init, OfferInv, OfferedUnlessIndexed, Offered

(***************************************************************************)
(* Pending transactions                                                     *)
(***************************************************************************)
CastsTx(j, x) == j.pc \in {"txcast", "txsend"} /\ j.tx = x

\* Pending, or in the pool that a fork will put back.
Waits(x) == x \in pool \/ \E t \in Thread : x \in job[t].kept

\* A transaction is in the seen cache because it was offered; one that waits was
\* offered or is about to be.
PoolInv ==
  /\ seenTx \subseteq outTx
  /\ \A x : Waits(x) => x \in outTx \/ \E t \in Thread : CastsTx(job[t], x)

\* A handler's copy of the pool is the pool's, or gone.
LEMMA KeptStays ==
  ASSUME Typed, NEW t \in Thread, BlockStep(t) \/ ChainStep(t) \/ TxStep(t)
  PROVE  job'[t].kept \subseteq job[t].kept \cup pool
<1> USE JobField
<1>1. CASE Stop(t)
  BY <1>1, StopType DEF Idle
<1>2. ASSUME NEW pc, MoveTo(t, pc) PROVE job'[t].kept = job[t].kept
  BY <1>2 DEF MoveTo, Goto, Typed, TypeOK, Job
<1>3. CASE Refresh(t) \/ Record(t) \/ Base(t) \/ Height(t)
  BY <1>1, <1>2, <1>3 DEF Refresh, Record, Base, Height, Goto, Typed, TypeOK, Job
<1>8. CASE Receive(t)
  <2>1. \E b : Goto(t, [Idle EXCEPT !.pc = "cast", !.block = b])
                \/ Goto(t, [Idle EXCEPT !.pc = "seen", !.block = b])
    BY <1>8 DEF Receive
  <2>2. QED
    BY <2>1 DEF Goto, Typed, TypeOK, Idle
<1>4. CASE Fork(t) \/ Adopt(t)
  BY <1>1, <1>2, <1>4 DEF Fork, Adopt, Goto, Typed, TypeOK, Job
<1>5. CASE Seen(t) \/ Lookup(t) \/ Add(t) \/ Cast(t) \/ Check(t) \/ Known(t) \/ Send(t)
  BY <1>1, <1>2, <1>5 DEF Seen, Lookup, Add, Cast, Check, Known, Send
<1>6. CASE ChainStep(t)
  <2>1. CASE Mine(t)
    <3>1. \E b : Goto(t, [Idle EXCEPT !.pc = "cast", !.block = b])
      BY <2>1 DEF Mine
    <3>2. QED
      BY <3>1 DEF Goto, Typed, TypeOK, Idle
  <2>2. CASE FullSync(t)
    <3>1. \E c : Goto(t, [Idle EXCEPT !.pc = "replace", !.base = c])
      BY <2>2 DEF FullSync
    <3>2. QED
      BY <3>1 DEF Goto, Typed, TypeOK, Idle
  <2>3. CASE Replace(t)
    BY <2>3 DEF Replace, Goto, Typed, TypeOK, Idle
  <2>4. CASE Copy(t)
    BY <2>4 DEF Copy, Goto, Typed, TypeOK, Job
  <2>5. QED
    BY <1>1, <1>6, <2>1, <2>2, <2>3, <2>4 DEF ChainStep, Index
<1>7. CASE TxStep(t)
  BY <1>1, <1>2, <1>7 DEF TxStep, ReceiveTx, PostTx, AddTx, CastTx, SendTx, Goto, Typed, TypeOK,
                          Job, Idle
<1> QED
  BY <1>3, <1>4, <1>5, <1>6, <1>7, <1>8 DEF BlockStep

\* A step of one handler that offers what it stops announcing keeps PoolInv.
LEMMA PoolHandover ==
  ASSUME Typed, PoolInv, NEW t \in Thread, \A u \in Thread \ {t} : job'[u] = job[u],
         outTx \subseteq outTx', seenTx' \subseteq outTx',
         \A x : CastsTx(job[t], x) => CastsTx(job'[t], x) \/ x \in outTx',
         \A x \in pool' \cup job'[t].kept :
           x \in pool \cup job[t].kept \/ CastsTx(job'[t], x)
  PROVE  PoolInv'
<1>1. ASSUME NEW x, Waits(x)' PROVE x \in outTx' \/ \E u \in Thread : CastsTx(job'[u], x)
  <2>1. Waits(x) \/ CastsTx(job'[t], x)
    <3>1. CASE x \in pool' \cup job'[t].kept
      BY <3>1 DEF Waits
    <3>2. ASSUME NEW u \in Thread \ {t}, x \in job'[u].kept PROVE Waits(x)
      BY <3>2 DEF Waits
    <3>3. QED
      BY <1>1, <3>1, <3>2 DEF Waits
  <2>2. CASE Waits(x)
    <3>1. x \in outTx \/ \E u \in Thread : CastsTx(job[u], x)
      BY <2>2 DEF PoolInv
    <3>2. ASSUME NEW u \in Thread, CastsTx(job[u], x)
          PROVE  x \in outTx' \/ \E w \in Thread : CastsTx(job'[w], x)
      <4>1. CASE u = t
        BY <3>2, <4>1
      <4>2. CASE u # t
        <5>1. CastsTx(job'[u], x)
          BY <3>2, <4>2
        <5>2. QED
          BY <5>1
      <4>3. QED
        BY <4>1, <4>2
    <3>3. QED
      BY <3>1, <3>2
  <2>3. QED
    BY <2>1, <2>2
<1> QED
  BY <1>1 DEF PoolInv

\* A transaction's steps keep PoolInv.
LEMMA PoolTx ==
  ASSUME Typed, PoolInv, NEW t \in Thread, TxStep(t)
  PROVE  PoolInv'
<1> USE JobField
<1>0. /\ \A u \in Thread \ {t} : job'[u] = job[u]
      /\ seenTx \subseteq outTx /\ job'[t].kept \subseteq job[t].kept \cup pool
  BY OthersStay, KeptStays DEF PoolInv
<1>1. CASE ReceiveTx(t) \/ PostTx(t)
  <2>1. UNCHANGED <<pool, seenTx, outTx>> /\ job[t].pc = "idle"
    BY <1>1 DEF ReceiveTx, PostTx, At, caches, history
  <2>2. QED
    BY <1>0, <2>1, PoolHandover DEF CastsTx
<1>2. CASE AddTx(t)
  <2>1. UNCHANGED <<seenTx, outTx>> /\ job[t].pc = "txadd"
    BY <1>2 DEF AddTx, At, caches, history
  <2>2. CASE UNCHANGED pool
    BY <1>0, <2>1, <2>2, PoolHandover DEF CastsTx
  <2>3. CASE pool' # pool
    <3>1. pool' = pool \cup {job[t].tx} /\ MoveTo(t, "txcast")
      BY <1>2, <2>3 DEF AddTx
    <3>2. CastsTx(job'[t], job[t].tx)
      BY <2>1, <3>1, MoveToType DEF PC, InHand, CastsTx
    <3>3. \A x : ~CastsTx(job[t], x)
      BY <2>1 DEF CastsTx
    <3>4. QED
      BY <1>0, <2>1, <3>1, <3>2, <3>3, PoolHandover
  <2>4. QED
    BY <2>2, <2>3
<1>3. CASE CastTx(t)
  <2>1. /\ UNCHANGED <<pool, seenTx, outTx>> /\ job[t].pc = "txcast"
        /\ IF job[t].tx \in seenTx THEN Stop(t) ELSE MoveTo(t, "txsend")
    BY <1>3 DEF CastTx, At, caches, history
  <2>2. \A x : CastsTx(job[t], x) => CastsTx(job'[t], x) \/ x \in outTx'
    <3>1. CASE job[t].tx \in seenTx
      BY <1>0, <2>1, <3>1 DEF CastsTx
    <3>2. CASE job[t].tx \notin seenTx
      <4>1. job'[t].pc = "txsend" /\ job'[t].tx = job[t].tx
        BY <2>1, <3>2, MoveToType DEF PC, InHand
      <4>2. QED
        BY <4>1 DEF CastsTx
    <3>3. QED
      BY <3>1, <3>2
  <2>3. QED
    BY <1>0, <2>1, <2>2, PoolHandover
<1>4. CASE SendTx(t)
  <2>1. /\ UNCHANGED pool /\ seenTx' = seenTx \cup {job[t].tx} /\ outTx' = outTx \cup {job[t].tx}
    BY <1>4 DEF SendTx
  <2>2. \A x : CastsTx(job[t], x) => x \in outTx'
    BY <2>1 DEF CastsTx
  <2>3. QED
    BY <1>0, <2>1, <2>2, PoolHandover
<1> QED
  BY <1>1, <1>2, <1>3, <1>4 DEF TxStep

\* Every step keeps it: a block empties the pool, or a fork puts a copy of it back.
LEMMA PoolNext == Typed /\ PoolInv /\ [Next]_vars => PoolInv'
<1> SUFFICES ASSUME Typed, PoolInv, [Next]_vars PROVE PoolInv'
  OBVIOUS
<1>1. CASE SyncAppend \/ Expire
  BY <1>1 DEF SyncAppend, Expire, caches, history, PoolInv, Waits
<1>2. CASE UNCHANGED vars
  BY <1>2 DEF vars, PoolInv, Waits
<1>3. ASSUME NEW t \in Thread, BlockStep(t) \/ ChainStep(t) PROVE PoolInv'
  <2>1. /\ UNCHANGED <<seenTx, outTx>> /\ pool' \in {pool, {}, job[t].kept}
        /\ job[t].pc \notin {"txcast", "txsend"}
    BY <1>3 DEF BlockStep, Receive, Seen, Refresh, Record, Lookup, Fork, Base, Adopt, Add, Cast,
                Check, Height, Known, Send, ChainStep, Mine, FullSync, Replace, Copy, Index, At,
                caches, history
  <2>2. \A x : ~CastsTx(job[t], x)
    BY <2>1 DEF CastsTx
  <2>3. /\ \A u \in Thread \ {t} : job'[u] = job[u]
        /\ seenTx \subseteq outTx /\ job'[t].kept \subseteq job[t].kept \cup pool
    BY <1>3, OthersStay, KeptStays DEF PoolInv
  <2>4. QED
    BY <2>1, <2>2, <2>3, PoolHandover
<1> QED
  BY <1>1, <1>2, <1>3, PoolTx DEF Next

\* At first nothing is pending.
LEMMA PoolInit == Init => PoolInv
  BY DEF Init, PoolInv, Waits, Idle

\* What waits covers what is pending.
LEMMA PoolGoal == PoolInv => PendingOffered
  BY DEF PoolInv, Waits, CastsTx, PendingOffered

(***************************************************************************)
(* Final blocks                                                             *)
(***************************************************************************)
\* The job j will mark hash h as final: it has the final block before
\* BroadcastBlock's test, or a copy of a chain that holds it.
Announces(j, h) ==
  \/ j.pc = "cast" /\ j.block.final /\ j.block.hash = h
  \/ j.pc = "copy"
  \/ j.pc = "index" /\ h \in FinalHashes(j.fresh)

FinalInv ==
  \A h \in FinalHashes(chain) \ (synced \cup restored) :
    h \in announced \/ \E t \in Thread : Announces(job[t], h)

\* A step of one handler that marks what it stops carrying keeps FinalInv.
LEMMA FinalHandover ==
  ASSUME Typed, FinalInv, NEW t \in Thread, \A u \in Thread \ {t} : job'[u] = job[u],
         announced \subseteq announced', UNCHANGED synced, restored \subseteq restored',
         \A h \in FinalHashes(chain') :
           Announces(job[t], h) => Announces(job'[t], h) \/ h \in announced',
         \A h \in FinalHashes(chain') :
           h \in FinalHashes(chain) \cup restored' \cup announced' \/ Announces(job'[t], h)
  PROVE  FinalInv'
<1>1. ASSUME NEW h \in FinalHashes(chain') \ (synced' \cup restored')
      PROVE  h \in announced' \/ \E u \in Thread : Announces(job'[u], h)
  <2>1. CASE h \in FinalHashes(chain)
    <3>1. h \in announced \/ \E u \in Thread : Announces(job[u], h)
      BY <1>1, <2>1 DEF FinalInv
    <3>2. ASSUME NEW u \in Thread, Announces(job[u], h)
          PROVE  h \in announced' \/ \E w \in Thread : Announces(job'[w], h)
      <4>1. CASE u = t
        BY <1>1, <3>2, <4>1
      <4>2. CASE u # t
        <5>1. Announces(job'[u], h)
          BY <3>2, <4>2
        <5>2. QED
          BY <5>1
      <4>3. QED
        BY <4>1, <4>2
    <3>3. QED
      BY <3>1, <3>2
  <2>2. QED
    BY <1>1, <2>1
<1> QED
  BY <1>1 DEF FinalInv

\* A step that neither marks nor swaps a block, in a handler that marks none.
LEMMA FinalQuiet ==
  ASSUME Typed, FinalInv, NEW t \in Thread, \A u \in Thread \ {t} : job'[u] = job[u],
         UNCHANGED <<chain, announced, synced, restored>>,
         job[t].pc \notin {"cast", "copy", "index"}
  PROVE  FinalInv'
<1>1. \A h : ~Announces(job[t], h)
  BY DEF Announces
<1> QED
  BY <1>1, FinalHandover

\* A step of a "block" message keeps FinalInv.
LEMMA FinalBlock ==
  ASSUME Typed, FinalInv, NEW t \in Thread, BlockStep(t)
  PROVE  FinalInv'
<1> USE JobField
<1>0. /\ \A u \in Thread \ {t} : job'[u] = job[u]
      /\ chain \in Seq(Entry)
  BY OthersStay DEF Typed, TypeOK
<1>1. CASE Receive(t)
  <2>1. /\ FinalHashes(chain') \subseteq FinalHashes(chain) \cup announced'
        /\ announced \subseteq announced'
    BY <1>1, ReceiveEffect
  <2>2. job[t].pc = "idle" /\ UNCHANGED <<synced, restored>>
    BY <1>1 DEF Receive, At, history
  <2>3. \A h : ~Announces(job[t], h)
    BY <2>2 DEF Announces
  <2>4. QED
    BY <1>0, <2>1, <2>2, <2>3, FinalHandover
<1>2. CASE Add(t)
  <2>1. job[t].pc = "add" /\ UNCHANGED <<announced, synced, restored>>
    BY <1>2 DEF Add, At, caches
  <2>2. CASE UNCHANGED chain
    BY <1>0, <2>1, <2>2, FinalQuiet
  <2>3. CASE chain' # chain
    <3>1. MoveTo(t, "cast") /\ chain' = Append(chain, job[t].block)
      BY <1>2, <2>3 DEF Add
    <3>2. job'[t].pc = "cast" /\ job'[t].block = job[t].block
      BY <2>1, <3>1, MoveToType DEF PC
    <3>3. \A h \in FinalHashes(chain') :
            h \in FinalHashes(chain) \/ (job[t].block.final /\ h = job[t].block.hash)
      BY <1>0, <3>1, HashesAppend
    <3>4. \A h \in FinalHashes(chain') : h \in FinalHashes(chain) \/ Announces(job'[t], h)
      BY <3>2, <3>3 DEF Announces
    <3>5. \A h : ~Announces(job[t], h)
      BY <2>1 DEF Announces
    <3>6. QED
      BY <1>0, <2>1, <3>4, <3>5, FinalHandover
  <2>4. QED
    BY <2>2, <2>3
<1>3. CASE Cast(t)
  <2>1. /\ job[t].pc = "cast" /\ UNCHANGED <<chain, synced, restored>> /\ announced \subseteq announced'
        /\ job[t].block.final => job[t].block.hash \in announced'
    BY <1>3 DEF Cast, At, history
  <2>2. \A h : Announces(job[t], h) => h \in announced'
    BY <2>1 DEF Announces
  <2>3. QED
    BY <1>0, <2>1, <2>2, FinalHandover
<1>5. CASE Adopt(t)
  <2> DEFINE b == job[t].block
  <2>1. /\ job[t].pc = "adopt" /\ UNCHANGED <<announced, synced>>
        /\ chain' = Append(job[t].base, b)
        /\ restored' = restored \cup Forgotten(job[t].base)
    BY <1>5 DEF Adopt, At, caches
  <2>2. job'[t].pc = "cast" /\ job'[t].block = b
    BY <1>5 DEF Adopt, Goto, Typed, TypeOK, Job
  <2>3. \A h \in FinalHashes(chain') : h \in FinalHashes(job[t].base) \/ (b.final /\ h = b.hash)
    BY <2>1, HashesAppend
  <2>4. FinalHashes(job[t].base) \subseteq FinalHashes(chain) \cup announced \cup restored'
    BY <2>1 DEF Forgotten
  <2>5. \A h \in FinalHashes(chain') :
          h \in FinalHashes(chain) \cup restored' \cup announced' \/ Announces(job'[t], h)
    BY <2>1, <2>2, <2>3, <2>4 DEF Announces
  <2>6. \A h : ~Announces(job[t], h)
    BY <2>1 DEF Announces
  <2>7. QED
    BY <1>0, <2>1, <2>5, <2>6, FinalHandover
<1>4. CASE ~(Receive(t) \/ Adopt(t) \/ Add(t) \/ Cast(t))
  <2>1. /\ UNCHANGED <<chain, announced, synced, restored>>
        /\ job[t].pc \notin {"cast", "copy", "index"}
    BY <1>4 DEF BlockStep, Seen, Refresh, Record, Lookup, Fork, Base, Check, Height, Known, Send, At,
                caches, history
  <2>2. QED
    BY <1>0, <2>1, FinalQuiet
<1> QED
  BY <1>1, <1>2, <1>3, <1>4, <1>5

\* A mined block and a full sync keep it.
LEMMA FinalChain ==
  ASSUME Typed, FinalInv, NEW t \in Thread, ChainStep(t)
  PROVE  FinalInv'
<1> USE JobField
<1>0. /\ \A u \in Thread \ {t} : job'[u] = job[u]
      /\ chain \in Seq(Entry)
  BY OthersStay DEF Typed, TypeOK
<1>1. CASE Mine(t)
  <2> DEFINE b == [hash |-> LocalHash[mined'], prev |-> Tip.hash, final |-> FALSE]
  <2>1. job[t].pc = "idle" /\ UNCHANGED <<announced, synced, restored>> /\ chain' = Append(chain, b)
    BY <1>1 DEF Mine, At, caches
  <2>2. b \in Entry /\ ~b.final
    BY <1>1, MinedEntry
  <2> HIDE DEF b
  <2>3. FinalHashes(chain') \subseteq FinalHashes(chain)
    BY <1>0, <2>1, <2>2, HashesAppend
  <2>4. \A h : ~Announces(job[t], h)
    BY <2>1 DEF Announces
  <2>5. QED
    BY <1>0, <2>1, <2>3, <2>4, FinalHandover
<1>2. CASE FullSync(t)
  <2>1. job[t].pc = "idle" /\ UNCHANGED <<chain, announced, synced, restored>>
    BY <1>2 DEF FullSync, At, caches, history
  <2>2. QED
    BY <1>0, <2>1, FinalQuiet
<1>5. CASE Replace(t)
  <2>1. job[t].pc = "replace" /\ UNCHANGED <<announced, synced, restored>>
    BY <1>5 DEF Replace, At, caches, history
  <2>2. job'[t].pc = "copy"
    BY <1>5 DEF Replace, Goto, Typed, TypeOK, Idle
  <2>3. \A h : Announces(job'[t], h) /\ ~Announces(job[t], h)
    BY <2>1, <2>2 DEF Announces
  <2>4. QED
    BY <1>0, <2>1, <2>3, FinalHandover
<1>3. CASE Copy(t)
  <2>1. UNCHANGED <<chain, announced, synced, restored>>
    BY <1>3 DEF Copy, caches, history
  <2>2. job'[t].fresh = chain /\ job'[t].pc = "index"
    BY <1>3 DEF Copy, Goto, Typed, TypeOK, Job
  <2>3. \A h \in FinalHashes(chain') : Announces(job'[t], h)
    BY <2>1, <2>2 DEF Announces
  <2>4. QED
    BY <1>0, <2>1, <2>3, FinalHandover
<1>4. CASE Index(t)
  <2>1. /\ job[t].pc = "index" /\ UNCHANGED <<chain, synced, restored>>
        /\ announced' = announced \cup FinalHashes(job[t].fresh)
    BY <1>4 DEF Index, At
  <2>2. \A h : Announces(job[t], h) => h \in announced'
    BY <2>1 DEF Announces
  <2>3. QED
    BY <1>0, <2>1, <2>2, FinalHandover
<1> QED
  BY <1>1, <1>2, <1>3, <1>4, <1>5 DEF ChainStep

\* Every step keeps it; synced and restored blocks are the exceptions.
LEMMA FinalNext == Typed /\ FinalInv /\ [Next]_vars => FinalInv'
<1> SUFFICES ASSUME Typed, FinalInv, [Next]_vars PROVE FinalInv'
  OBVIOUS
<1>1. CASE SyncAppend
  <2>1. PICK b \in Entry : /\ chain' = Append(chain, b) /\ synced' = synced \cup {b.hash}
    BY <1>1, GossipAssumption DEF SyncAppend, Typed, TypeOK
  <2>2. UNCHANGED <<announced, restored, job>>
    BY <1>1 DEF SyncAppend, caches
  <2>3. FinalHashes(chain') \ (synced' \cup restored')
          \subseteq FinalHashes(chain) \ (synced \cup restored)
    BY <2>1, <2>2, HashesAppend DEF Typed, TypeOK
  <2>4. QED
    BY <2>2, <2>3 DEF FinalInv
<1>2. CASE Expire \/ UNCHANGED vars
  BY <1>2 DEF Expire, history, vars, FinalInv
<1>3. ASSUME NEW t \in Thread, TxStep(t) PROVE FinalInv'
  <2>1. /\ UNCHANGED <<chain, announced, synced, restored>>
        /\ job[t].pc \notin {"cast", "copy", "index"}
    BY <1>3 DEF TxStep, ReceiveTx, PostTx, AddTx, CastTx, SendTx, At, caches, history
  <2>2. QED
    BY <1>3, <2>1, OthersStay, FinalQuiet
<1> QED
  BY <1>1, <1>2, <1>3, FinalBlock, FinalChain DEF Next

\* NewP2PNode marks the final blocks of the chain it starts with.
LEMMA FinalInit == Init => FinalInv
  BY DEF Init, FinalInv

\* What a handler announces it holds.
LEMMA FinalGoal == Typed /\ FinalInv => FinalRemembered
<1> SUFFICES ASSUME Typed, FinalInv, NEW h \in (FinalHashes(chain) \ synced) \ restored
             PROVE  h \in announced \cup {g \in Hash : Casting(g) \/ Copying(g)}
  BY DEF FinalRemembered
<1>1. h \in Hash
  BY HashesType DEF Typed, TypeOK
<1>2. ASSUME NEW t \in Thread, Announces(job[t], h) PROVE Casting(h) \/ Copying(h)
  <2>1. FinalHashes(job[t].fresh) \subseteq HashesOf(job[t].fresh)
    BY JobField, HashesType
  <2>2. QED
    BY <1>2, <2>1 DEF Announces, Casting, Copying, At
<1> QED
  BY <1>1, <1>2 DEF FinalInv

(***************************************************************************)
(* The theorems                                                             *)
(***************************************************************************)
CacheInv == Typed /\ IndexInv /\ OfferInv /\ PoolInv /\ FinalInv

\* Every step keeps the five invariants together.
LEMMA CacheInvariant == Spec => []CacheInv
<1>1. Init => CacheInv
  BY TypeInit, IndexInit, OfferInit, PoolInit, FinalInit DEF CacheInv
<1>2. CacheInv /\ [Next]_vars => CacheInv'
  BY TypeNext, IndexNext, OfferNext, PoolNext, FinalNext DEF CacheInv
<1> QED
  BY <1>1, <1>2, PTL DEF Spec

\* Whatever the messages, mined blocks, syncs and expiries, the caches, the
\* chain and the handlers' variables keep their types: no chain is ever empty,
\* so every handler that looks at the tip finds one.
THEOREM TypeCorrect == Spec => []TypeOK
<1>1. CacheInv => TypeOK
  BY DEF CacheInv, Typed
<1> QED
  BY <1>1, CacheInvariant, PTL

\* For any number of handlers whose refreshes, broadcasts, forks and full syncs
\* interleave, a block of the chain is in knownBlockHashes or in the hands of a
\* handler that will put it there, unless a sync appended it, or a fork brought it
\* back after full syncs had dropped it before it was recorded.
THEOREM IndexComplete == Spec => []KnownCoversChain
<1>1. CacheInv => KnownCoversChain
  BY IndexGoal DEF CacheInv
<1> QED
  BY <1>1, CacheInvariant, PTL

\* A block this node mined or accepted reaches the peers, unless a refresh or a
\* full sync recorded it before BroadcastBlock did.
THEOREM BlocksOffered == Spec => []OfferedUnlessIndexed
<1>1. CacheInv => OfferedUnlessIndexed
  BY DEF CacheInv, OfferInv
<1> QED
  BY <1>1, CacheInvariant, PTL

\* A pending transaction was offered to the peers or is about to be, however
\* many handlers add and announce transactions at once and however the seen
\* cache expires.
THEOREM TransactionsOffered == Spec => []PendingOffered
<1>1. CacheInv => PendingOffered
  BY PoolGoal DEF CacheInv
<1> QED
  BY <1>1, CacheInvariant, PTL

\* A final block of the chain is in finalizedBroadcasts or about to be, so its final
\* copy is forced out at most once, with the exceptions of IndexComplete.
THEOREM FinalsRemembered == Spec => []FinalRemembered
<1>1. CacheInv => FinalRemembered
  BY FinalGoal DEF CacheInv
<1> QED
  BY <1>1, CacheInvariant, PTL
=============================================================================
