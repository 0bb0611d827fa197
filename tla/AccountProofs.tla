---------------------------- MODULE AccountProofs ----------------------------
(***************************************************************************)
(* What the node's ledger means, proved of every interleaving: each coin    *)
(* minted is in an account or was paid as a fee, nonces follow each other   *)
(* along the chain, the ledger is the chain's replay less the penalties,    *)
(* and the accounts never hold more than the cap.  A step of the node is a  *)
(* step of ChainStore (StoreStep), so the cases are the store's few actions *)
(* and not the node's many.                                                 *)
(***************************************************************************)
EXTENDS NodeProofs

(***************************************************************************)
(* What accounts hold together                                              *)
(***************************************************************************)
Total(accts) == Sum([a \in Address |-> accts[a].balance], Address)

\* Held is the total of a ledger's accounts.
LEMMA HeldIsTotal == \A led : Held(led) = Total(led.accounts)
BY DEF Held, Balances, Total, Sum, SumFunction

\* The total of typed accounts is an integer.
LEMMA TotalType ==
  ASSUME NEW accts \in Accounts
  PROVE  Total(accts) \in Int
<1> DEFINE f == [a \in Address |-> accts[a].balance]
<1>1. \A a \in Address : f[a] \in Int
  BY DEF Accounts, Account
<1> HIDE DEF f
<1>2. Sum(f, Address) \in Int
  BY <1>1, SumTake, AddressAssumption
<1> QED
  BY <1>2 DEF Total, f

\* Changing one balance changes the total by the difference.
LEMMA TotalChange ==
  ASSUME NEW accts \in Accounts, NEW next \in Accounts, NEW y \in Address, NEW d \in Int,
         \A a \in Address :
           next[a].balance = IF a = y THEN accts[a].balance + d ELSE accts[a].balance
  PROVE  Total(next) = Total(accts) + d
<1> DEFINE f == [a \in Address |-> accts[a].balance]
           e == [a \in Address |-> next[a].balance]
<1>1. \A a \in Address : f[a] \in Int
  BY DEF Accounts, Account
<1>2. \A a \in Address : e[a] = IF a = y THEN f[a] + d ELSE f[a]
  OBVIOUS
<1> HIDE DEF f, e
<1>3. Sum(e, Address) = Sum(f, Address) + d
  BY <1>1, <1>2, SumChange, AddressAssumption
<1> QED
  BY <1>3 DEF Total, f, e

\* Accounts that hold the same have the same total.
LEMMA TotalSame ==
  ASSUME NEW accts \in Accounts, NEW next \in Accounts,
         \A a \in Address : next[a].balance = accts[a].balance
  PROVE  Total(next) = Total(accts)
<1> DEFINE f == [a \in Address |-> accts[a].balance]
           e == [a \in Address |-> next[a].balance]
<1>1. f = e
  OBVIOUS
<1> QED
  BY <1>1 DEF Total

\* Without overdrafts no account holds more than all of them.
LEMMA TotalCovers ==
  ASSUME NEW accts \in Accounts, Covered(accts), Debtor = {}
  PROVE  Total(accts) \in Nat /\ \A a \in Address : accts[a].balance <= Total(accts)
<1> DEFINE f == [a \in Address |-> accts[a].balance]
<1>1. \A a \in Address : f[a] \in Nat
  BY DEF Accounts, Account, Covered
<1>2. \A a \in Address : f[a] = accts[a].balance
  OBVIOUS
<1> HIDE DEF f
<1>3. Sum(f, Address) \in Nat /\ \A a \in Address : f[a] <= Sum(f, Address)
  BY <1>1, SumNat, AddressAssumption
<1> QED
  BY <1>2, <1>3 DEF Total, f

\* A transaction costs the accounts its fee, whoever sends to whom.
LEMMA TxTotal ==
  ASSUME NEW accts \in Accounts, NEW tx \in Tx
  PROVE  Total(ApplyTx(accts, tx)) = Total(accts) - tx.fee
<1> DEFINE debited == Debited(accts, tx)
           after == ApplyTx(accts, tx)
<1>1. /\ tx.from \in Address /\ tx.to \in Address /\ tx.amount \in Int
      /\ Cost(tx) \in Int /\ Cost(tx) = tx.amount + tx.fee /\ tx.fee \in Int
  BY TxFields
<1>2. debited \in Accounts /\ after \in Accounts
  BY ApplyTxType
<1>3. ASSUME NEW a \in Address
      PROVE  debited[a].balance
               = IF a = tx.from THEN accts[a].balance + (-Cost(tx)) ELSE accts[a].balance
  <2>1. accts[a].balance \in Int
    BY DEF Accounts, Account
  <2>2. debited[a].balance = accts[a].balance - (IF a = tx.from THEN Cost(tx) ELSE 0)
    BY <1>1 DEF Debited, Accounts, Account
  <2>3. QED
    BY <1>1, <2>1, <2>2
<1>4. ASSUME NEW a \in Address
      PROVE  after[a].balance
               = IF a = tx.to THEN debited[a].balance + tx.amount ELSE debited[a].balance
  <2>1. accts[a].balance \in Int
    BY DEF Accounts, Account
  <2>2. after[a].balance = accts[a].balance - (IF a = tx.from THEN Cost(tx) ELSE 0)
                                            + (IF a = tx.to THEN tx.amount ELSE 0)
    BY ApplyTxFields
  <2>3. debited[a].balance
          = IF a = tx.from THEN accts[a].balance + (-Cost(tx)) ELSE accts[a].balance
    BY <1>3
  <2> HIDE DEF debited, after
  <2>4. QED
    BY <1>1, <2>1, <2>2, <2>3
<1> HIDE DEF debited, after
<1>5. Total(debited) = Total(accts) + (-Cost(tx))
  <2>1. -Cost(tx) \in Int
    BY <1>1
  <2>2. QED
    BY <1>1, <1>2, <1>3, <2>1, TotalChange
<1>6. Total(after) = Total(debited) + tx.amount
  <2>1. tx.amount \in Int
    BY <1>1
  <2>2. QED
    BY <1>1, <1>2, <1>4, <2>1, TotalChange
<1>7. Total(accts) \in Int
  BY TotalType
<1> QED
  BY <1>1, <1>5, <1>6, <1>7 DEF after

\* The fees of a list of transactions.
LEMMA FeesOfType ==
  ASSUME NEW txs \in Seq(Tx)
  PROVE  FeesOf(txs) \in Int /\ (Fees \subseteq Nat => FeesOf(txs) \in Nat)
<1> DEFINE N == Len(txs)
           f == [k \in 1 .. N |-> txs[k].fee]
<1>1. \A k \in 1 .. N : f[k] \in Int /\ f[k] \in Fees
  <2>1. \A k \in 1 .. N : txs[k] \in Tx
    OBVIOUS
  <2>2. QED
    BY <2>1, TxFields
<1>2. IsFiniteSet(1 .. N)
  <2>1. N \in Int /\ 1 \in Int
    OBVIOUS
  <2>2. QED
    BY <2>1, FS_Interval
<1>3. FeesOf(txs) = Sum(f, 1 .. N)
  BY DEF FeesOf, Sum, SumFunction
<1> HIDE DEF f, N
<1>4. Sum(f, 1 .. N) \in Int
  BY <1>1, <1>2, SumTake
<1>5. Fees \subseteq Nat => Sum(f, 1 .. N) \in Nat
  BY <1>1, <1>2, SumNat
<1> QED
  BY <1>3, <1>4, <1>5

\* Applying transactions costs the accounts what they carry in fees.
LEMMA RunTotal ==
  ASSUME NEW accts \in Accounts, NEW txs \in Seq(Tx)
  PROVE  Total(Run(accts, txs)[Len(txs)]) = Total(accts) - FeesOf(txs)
<1> DEFINE N == Len(txs)
           run == Run(accts, txs)
           f == [k \in 1 .. N |-> txs[k].fee]
           S == {i \in 0 .. N : Total(run[i]) = Total(accts) - Sum(f, 1 .. i)}
<1>1. /\ N \in Nat /\ (\A i \in 1 .. N : txs[i] \in Tx) /\ Total(accts) \in Int
      /\ \A i \in 1 .. N : f[i] = txs[i].fee
  BY TotalType
<1>2. /\ \A i \in 0 .. N : run[i] \in Accounts
      /\ run[0] = accts
      /\ \A i \in 1 .. N : run[i] = ApplyTx(run[i-1], txs[i])
  BY RunRecursion
<1>3. FeesOf(txs) = Sum(f, 1 .. N)
  BY DEF FeesOf, Sum, SumFunction
<1> HIDE DEF run, N, f
<1>4. \A i \in 1 .. N : f[i] \in Int
  BY <1>1, TxFields
<1>5. 0 \in S
  <2>1. 1 .. 0 = {} /\ IsFiniteSet({})
    BY FS_EmptySet
  <2>2. Sum(f, {}) = 0
    BY <2>1, SumTake
  <2>3. QED
    BY <1>1, <1>2, <2>1, <2>2
<1>6. ASSUME NEW n \in 0 .. N-1, n \in S  PROVE n+1 \in S
  <2>1. n \in Nat /\ n+1 \in 1 .. N /\ (n+1)-1 = n /\ n \in 0 .. N /\ n+1 \in 0 .. N
        /\ \A i \in 1 .. n : i \in 1 .. N
    BY <1>1
  <2>2. run[n+1] = ApplyTx(run[n], txs[n+1]) /\ txs[n+1] \in Tx /\ run[n] \in Accounts
    BY <1>1, <1>2, <2>1
  <2>3. Total(run[n+1]) = Total(run[n]) - f[n+1]
    BY <1>1, <2>1, <2>2, TxTotal
  <2>4. Total(run[n]) = Total(accts) - Sum(f, 1 .. n)
    BY <1>6
  <2>5. /\ f[n+1] \in Int /\ (\A i \in 1 .. n : f[i] \in Int /\ f[i] = f[i])
    BY <1>4, <2>1
  <2>6. Sum(f, 1 .. n+1) = Sum(f, 1 .. n) + f[n+1] /\ Sum(f, 1 .. n) \in Int
    BY <2>1, <2>5, SumNext
  <2>7. Total(run[n+1]) = Total(accts) - Sum(f, 1 .. n+1)
    BY <1>1, <2>3, <2>4, <2>5, <2>6
  <2>8. QED
    BY <2>1, <2>7
<1>7. 0 .. N \subseteq S
  <2> HIDE DEF S
  <2>1. QED
    BY <1>1, <1>5, <1>6, UpToInduct
<1>8. N \in 0 .. N
  BY <1>1
<1> QED
  BY <1>3, <1>7, <1>8 DEF run, N

\* What RewardFields says of the ledger after the reward of b.
Rewarded(led, after, b) ==
  LET paid == Paid(led, b.miner, b.reward)
  IN  /\ after \in LedgerType /\ paid \in Int /\ after.minted = led.minted + paid
      /\ led.minted + b.reward <= Cap => paid = PaidIn(b)
      /\ \A a \in Address :
           /\ after.accounts[a].balance = led.accounts[a].balance
                                        + (IF a = b.miner THEN paid ELSE 0)
           /\ after.accounts[a].nonce = led.accounts[a].nonce
           /\ after.accounts[a].exists
                <=> led.accounts[a].exists
                    \/ (a = b.miner /\ b.reward > 0 /\ b.miner # Nobody)

\* A block's reward is distributed that way.
LEMMA BlockRewarded ==
  ASSUME NEW led \in LedgerType, NEW b \in Block
  PROVE  Rewarded(led, DistributeRewards(led, b.miner, b.reward), b)
<1> DEFINE m == b.miner
           r == b.reward
           after == DistributeRewards(led, m, r)
           paid  == Paid(led, m, r)
<1>1. m \in Address /\ r \in Int
  BY BlockFields
<1>2. PaidIn(b) = IF r <= 0 \/ m = Nobody THEN 0 ELSE r
  BY DEF PaidIn
<1> HIDE DEF m, r
<1>3. /\ after \in LedgerType /\ paid \in Int
      /\ after.minted = led.minted + paid
      /\ \A a \in Address :
           /\ after.accounts[a].balance
                = led.accounts[a].balance + (IF a = m THEN paid ELSE 0)
           /\ after.accounts[a].nonce = led.accounts[a].nonce
           /\ after.accounts[a].exists
                <=> led.accounts[a].exists \/ (a = m /\ r > 0 /\ m # Nobody)
      /\ led.minted + r <= Cap => paid = IF r <= 0 \/ m = Nobody THEN 0 ELSE r
  BY <1>1, RewardFields
<1> HIDE DEF after, paid
<1>4. led.minted + r <= Cap => paid = PaidIn(b)
  BY <1>2, <1>3
<1>5. ASSUME NEW a \in Address
      PROVE  /\ after.accounts[a].balance
                  = led.accounts[a].balance + (IF a = m THEN paid ELSE 0)
             /\ after.accounts[a].nonce = led.accounts[a].nonce
             /\ after.accounts[a].exists
                  <=> led.accounts[a].exists \/ (a = m /\ r > 0 /\ m # Nobody)
  BY <1>3
<1> QED
  BY <1>3, <1>4, <1>5 DEF Rewarded, after, paid, m, r

\* What a block adds to the supply reaches the accounts, less its fees.
LEMMA BlockTotal ==
  ASSUME NEW led \in LedgerType, NEW b \in Block
  PROVE  LET paid == Paid(led, b.miner, b.reward)
         IN  /\ paid \in Int
             /\ ApplyBlock(led, b).minted = led.minted + paid
             /\ Total(ApplyBlock(led, b).accounts)
                  = (Total(led.accounts) + paid) - FeesOf(b.txs)
<1> DEFINE rewarded == DistributeRewards(led, b.miner, b.reward)
           paid == Paid(led, b.miner, b.reward)
<1>1. b.miner \in Address /\ b.reward \in Int /\ b.txs \in Seq(Tx) /\ Len(b.txs) \in Nat
  BY BlockFields
<1>2. rewarded \in LedgerType
  BY BlockRewarded DEF Rewarded
<1>3. /\ paid \in Int /\ rewarded.minted = led.minted + paid
      /\ \A a \in Address : rewarded.accounts[a].balance
           = led.accounts[a].balance + (IF a = b.miner THEN paid ELSE 0)
  BY BlockRewarded DEF Rewarded
<1>4. /\ ApplyBlock(led, b).accounts = Run(rewarded.accounts, b.txs)[Len(b.txs)]
      /\ ApplyBlock(led, b).minted = rewarded.minted
  BY DEF ApplyBlock
<1> HIDE DEF rewarded, paid
<1>5. led.accounts \in Accounts /\ rewarded.accounts \in Accounts
  BY <1>2, LedgerFields
<1>6. Total(rewarded.accounts) = Total(led.accounts) + paid
  <2>1. ASSUME NEW a \in Address
        PROVE  rewarded.accounts[a].balance
                 = IF a = b.miner THEN led.accounts[a].balance + paid
                   ELSE led.accounts[a].balance
    BY <1>3, <1>5 DEF Accounts, Account
  <2>2. QED
    BY <1>1, <1>3, <1>5, <2>1, TotalChange
<1>7. Total(Run(rewarded.accounts, b.txs)[Len(b.txs)])
        = Total(rewarded.accounts) - FeesOf(b.txs)
  BY <1>1, <1>5, RunTotal
<1>8. Total(ApplyBlock(led, b).accounts) = (Total(led.accounts) + paid) - FeesOf(b.txs)
  BY <1>4, <1>6, <1>7
<1> QED
  BY <1>3, <1>4, <1>8 DEF paid

(***************************************************************************)
(* Induction along a chain                                                  *)
(***************************************************************************)
\* What holds of << >> and is kept by appending a block holds of every chain.
LEMMA ChainInduct ==
  ASSUME NEW T, << >> \in T,
         \A c \in Seq(Block), b \in Block : c \in T => Append(c, b) \in T
  PROVE  Seq(Block) \subseteq T
<1> DEFINE S == {n \in Nat : \A c \in Seq(Block) : Len(c) = n => c \in T}
<1>1. 0 \in S
  OBVIOUS
<1>2. ASSUME NEW n \in Nat, n \in S  PROVE n+1 \in S
  <2> SUFFICES ASSUME NEW c \in Seq(Block), Len(c) = n+1  PROVE c \in T
    OBVIOUS
  <2> DEFINE p == SubSeq(c, 1, n)
  <2>1. p \in Seq(Block) /\ Len(p) = n /\ c[n+1] \in Block /\ c = Append(p, c[n+1])
    OBVIOUS
  <2> HIDE DEF p
  <2>2. p \in T
    BY <1>2, <2>1
  <2>3. QED
    BY <2>1, <2>2
<1>3. Nat \subseteq S
  <2> HIDE DEF S
  <2>1. QED BY <1>1, <1>2, NatInduct
<1> QED
  BY <1>3

\* Every value of a chain with b appended.
LEMMA AppendFacts ==
  ASSUME NEW c \in Seq(Block), NEW b \in Block
  PROVE  /\ Len(c) \in Nat /\ Append(c, b) \in Seq(Block)
         /\ Len(Append(c, b)) = Len(c) + 1
         /\ Append(c, b)[Len(c) + 1] = b
         /\ \A i \in 1 .. Len(c) : Append(c, b)[i] = c[i]
OBVIOUS

\* A chain with a block appended is not empty.
LEMMA AppendNotEmpty ==
  ASSUME NEW c \in Seq(Block), NEW b \in Block
  PROVE  Append(c, b) # << >>
<1> DEFINE d == Append(c, b)
<1>1. Len(d) = Len(c) + 1 /\ Len(c) \in Nat
  OBVIOUS
<1> HIDE DEF d
<1>2. Len(d) # 0
  BY <1>1
<1>3. d # << >>
  BY <1>2
<1> QED
  BY <1>3 DEF d

\* The ledger c replays to; before any block, the allocation of founder f.
Replayed(c, f) == IF c = << >> THEN GenesisLedger(f) ELSE Replay(c)

\* The founder a chain names, if it has a block.
Founder(c, f) == IF c = << >> THEN f ELSE c[1].founder

\* Replaying one more block, also when it is the first.
LEMMA ReplayedAppend ==
  ASSUME NEW c \in Seq(Block), NEW b \in Block, NEW f \in Address, Founder(Append(c, b), f) = f
  PROVE  /\ Founder(c, f) = f
         /\ Replayed(c, f) \in LedgerType
         /\ Replayed(Append(c, b), f) = ApplyBlock(Replayed(c, f), b)
<1> DEFINE d == Append(c, b)
<1>1. d # << >> /\ d \in Seq(Block) /\ Len(d) = Len(c) + 1 /\ Len(c) \in Nat
  BY AppendFacts
<1>2. d[1].founder = f
  BY <1>1 DEF Founder
<1>3. CASE c = << >>
  <2>1. d = <<b>> /\ Len(d) = 1 /\ d[1] = b
    BY <1>3
  <2>2. Ledgers(d)[0] = GenesisLedger(f) /\ Ledgers(d)[1] = ApplyBlock(Ledgers(d)[0], d[1])
    <3>1. /\ Ledgers(d)[0] = GenesisLedger(d[1].founder)
          /\ \A i \in 1 .. Len(d) : Ledgers(d)[i] = ApplyBlock(Ledgers(d)[i-1], d[i])
      <4>1. d \in Seq(Block) /\ Len(d) > 0
        BY <1>1
      <4> HIDE DEF d
      <4>2. QED
        BY <4>1, LedgersRecursion
    <3>2. 1 \in 1 .. Len(d) /\ 1-1 = 0
      BY <2>1
    <3>3. QED
      BY <1>2, <3>1, <3>2
  <2>3. Replay(d) = ApplyBlock(GenesisLedger(f), b)
    BY <2>1, <2>2 DEF Replay
  <2>4. GenesisLedger(f) \in LedgerType
    BY GenesisSound DEF SoundLedger
  <2>5. QED
    BY <1>1, <1>3, <2>3, <2>4 DEF Replayed, Founder
<1>4. CASE c # << >>
  <2>1. Len(c) > 0 /\ d[1] = c[1]
    BY <1>4, AppendFacts
  <2>2. Replay(d) = ApplyBlock(Replay(c), b) /\ Replay(c) \in LedgerType
    BY <2>1, ReplayAppend, ReplayType
  <2>3. QED
    BY <1>1, <1>2, <1>4, <2>1, <2>2 DEF Replayed, Founder
<1> QED
  BY <1>3, <1>4

\* A block that rebuilds after c verified on what c replays to, and so did c.
LEMMA RebuildBefore ==
  ASSUME NEW c \in Seq(Block), NEW b \in Block, NEW f \in Address, Founder(Append(c, b), f) = f,
         RebuildOK(Append(c, b))
  PROVE  /\ ContentOK(Replayed(c, f), b) /\ Applies(Replayed(c, f), b)
         /\ c # << >> => RebuildOK(c)
<1> DEFINE d == Append(c, b)
           N == Len(c)
<1>1. /\ N \in Nat /\ d \in Seq(Block) /\ Len(d) = N + 1 /\ d[N+1] = b
      /\ \A i \in 1 .. N : d[i] = c[i]
  BY AppendFacts
<1>2. /\ ContentOK(Ledgers(d)[0], d[1])
      /\ \A i \in 2 .. N+1 : BlockOK(Ledgers(d)[i-1], d[i-1], d[i])
      /\ \A i \in 1 .. N+1 : Applies(Ledgers(d)[i-1], d[i])
  BY <1>1 DEF RebuildOK
<1> HIDE DEF d
<1>3. CASE c = << >>
  <2>1. N = 0 /\ d[1] = b /\ Len(d) > 0 /\ d # << >>
    BY <1>1, <1>3
  <2>2. d[1].founder = f
    BY <2>1 DEF Founder, d
  <2>3. Ledgers(d)[0] = GenesisLedger(f)
    BY <1>1, <2>1, <2>2, LedgersRecursion
  <2>4. 1 \in 1 .. N+1 /\ 1-1 = 0
    BY <2>1
  <2>5. Applies(Ledgers(d)[0], d[1])
    BY <1>2, <2>4
  <2>6. QED
    BY <1>2, <1>3, <2>1, <2>3, <2>5 DEF Replayed
<1>4. CASE c # << >>
  <2>1. N > 0
    BY <1>4
  <2>2. \A i \in 0 .. N : Ledgers(d)[i] = Ledgers(c)[i]
    BY <2>1, LedgersAppend DEF d
  <2>3. ContentOK(Ledgers(c)[N], b) /\ Applies(Ledgers(c)[N], b)
    <3>1. N+1 \in 2 .. N+1 /\ N+1 \in 1 .. N+1 /\ (N+1)-1 = N /\ N \in 0 .. N
      BY <1>1, <2>1
    <3>2. BlockOK(Ledgers(d)[N], d[N], d[N+1]) /\ Applies(Ledgers(d)[N], d[N+1])
      BY <1>2, <3>1
    <3>3. QED
      BY <1>1, <2>2, <3>1, <3>2 DEF BlockOK
  <2>4. ContentOK(Ledgers(c)[0], c[1])
    <3>1. 0 \in 0 .. N /\ 1 \in 1 .. N
      BY <1>1, <2>1
    <3>2. QED
      BY <1>1, <1>2, <2>2, <3>1
  <2>5. ASSUME NEW i \in 2 .. N  PROVE BlockOK(Ledgers(c)[i-1], c[i-1], c[i])
    <3>1. i-1 \in 0 .. N /\ i-1 \in 1 .. N /\ i \in 1 .. N /\ i \in 2 .. N+1
      BY <1>1
    <3>2. QED
      BY <1>1, <1>2, <2>2, <3>1
  <2>6. ASSUME NEW i \in 1 .. N  PROVE Applies(Ledgers(c)[i-1], c[i])
    <3>1. i-1 \in 0 .. N /\ i \in 1 .. N+1
      BY <1>1
    <3>2. QED
      BY <1>1, <1>2, <2>2, <3>1
  <2> HIDE DEF N
  <2>7. RebuildOK(c)
    BY <2>4, <2>5, <2>6 DEF RebuildOK, N
  <2>8. QED
    BY <1>4, <2>3, <2>7 DEF Replayed, Replay, N
<1> QED
  BY <1>3, <1>4

(***************************************************************************)
(* Accounting                                                               *)
(***************************************************************************)
\* The fees of a chain are an integer; a block adds its own.
LEMMA FeesAppend ==
  ASSUME NEW c \in Seq(Block), NEW b \in Block
  PROVE  /\ FeesPaid(c) \in Int
         /\ FeesPaid(Append(c, b)) = FeesPaid(c) + FeesOf(b.txs)
<1> DEFINE N == Len(c)
           d == Append(c, b)
           f == [i \in 1 .. N |-> FeesOf(c[i].txs)]
           e == [i \in 1 .. Len(d) |-> FeesOf(d[i].txs)]
<1>1. N \in Nat /\ Len(d) = N+1 /\ d[N+1] = b /\ (\A i \in 1 .. N : d[i] = c[i] /\ c[i] \in Block)
  BY AppendFacts
<1>2. \A x \in Block : FeesOf(x.txs) \in Int
  BY BlockFields, FeesOfType
<1>3. \A i \in 1 .. N : f[i] \in Int /\ f[i] = e[i]
  BY <1>1, <1>2
<1>4. e[N+1] = FeesOf(b.txs) /\ e[N+1] \in Int
  BY <1>1, <1>2
<1>5. FeesPaid(c) = Sum(f, 1 .. N) /\ FeesPaid(d) = Sum(e, 1 .. Len(d))
  BY DEF FeesPaid, Sum, SumFunction
<1> HIDE DEF f, e, d
<1>6. Sum(e, 1 .. N+1) = Sum(f, 1 .. N) + e[N+1] /\ Sum(f, 1 .. N) \in Int
  <2> HIDE DEF N
  <2>1. QED
    BY <1>1, <1>3, <1>4, SumNext
<1> QED
  BY <1>1, <1>4, <1>5, <1>6 DEF d

\* The fees of a chain are an integer.
LEMMA FeesType == ASSUME NEW c \in Seq(Block) PROVE FeesPaid(c) \in Int
BY FeesAppend, NodeAssumption

\* A block keeps the accounting, verified or not.
LEMMA AccountedAppend ==
  ASSUME NEW c \in Seq(Block), NEW b \in Block, NEW led \in LedgerType, Accounted(led, c)
  PROVE  Accounted(ApplyBlock(led, b), Append(c, b))
<1> DEFINE paid == Paid(led, b.miner, b.reward)
           fees == FeesOf(b.txs)
           after == ApplyBlock(led, b)
           d == Append(c, b)
<1>1. /\ paid \in Int /\ after.minted = led.minted + paid
      /\ Total(after.accounts) = (Total(led.accounts) + paid) - fees
  BY BlockTotal
<1>2. FeesPaid(c) \in Int /\ FeesPaid(d) = FeesPaid(c) + fees
  BY FeesAppend
<1>3. Total(led.accounts) \in Int /\ led.minted \in Int
  BY LedgerFields, TotalType
<1>4. fees \in Int
  BY BlockFields, FeesOfType
<1>5. /\ Total(led.accounts) + FeesPaid(c) <= led.minted
      /\ DataRegular => Total(led.accounts) + FeesPaid(c) = led.minted
  BY HeldIsTotal DEF Accounted
<1> HIDE DEF paid, fees, after, d
<1>6. Total(after.accounts) + FeesPaid(d) <= after.minted
  BY <1>1, <1>2, <1>3, <1>4, <1>5
<1>7. DataRegular => Total(after.accounts) + FeesPaid(d) = after.minted
  BY <1>1, <1>2, <1>3, <1>4, <1>5
<1> QED
  BY <1>6, <1>7, HeldIsTotal DEF Accounted, after, d

\* Before any block the founder has what was minted.
LEMMA GenesisAccounted ==
  ASSUME NEW f \in Address
  PROVE  Accounted(GenesisLedger(f), << >>)
<1> DEFINE g == [a \in Address |-> GenesisLedger(f).accounts[a].balance]
<1>1. /\ g[f] = FounderAllocation /\ \A a \in Address : a # f => g[a] = 0
      /\ GenesisLedger(f).minted = FounderAllocation /\ FounderAllocation \in Int
  BY LedgerAssumption DEF GenesisLedger, NoAccount
<1>2. Held(GenesisLedger(f)) = Sum(g, Address)
  BY HeldIsTotal DEF Total
<1> HIDE DEF g
<1>3. Sum(g, Address) = FounderAllocation
  BY <1>1, SumSingle, AddressAssumption
<1>4. FeesPaid(<< >>) = 0
  <2>1. FeesPaid(<< >>) = Sum([i \in 1 .. Len(<< >>) |-> FeesOf(<< >>[i].txs)], 1 .. Len(<< >>))
    BY DEF FeesPaid, Sum, SumFunction
  <2>2. 1 .. Len(<< >>) = {}
    OBVIOUS
  <2> DEFINE h == [i \in 1 .. Len(<< >>) |-> FeesOf(<< >>[i].txs)]
  <2> HIDE DEF h
  <2>3. Sum(h, {}) = 0
    BY SumTake, FS_EmptySet
  <2>4. QED
    BY <2>1, <2>2, <2>3 DEF h
<1> QED
  BY <1>1, <1>2, <1>3, <1>4 DEF Accounted

\* A rebuilt ledger accounts for every unit it minted.
LEMMA ReplayAccounted ==
  ASSUME NEW c \in Seq(Block), Len(c) > 0
  PROVE  Accounted(Replay(c), c)
<1> DEFINE T == {d \in Seq(Block) :
                   \A f \in Address : Founder(d, f) = f => Accounted(Replayed(d, f), d)}
<1>1. << >> \in T
  BY GenesisAccounted DEF Replayed
<1>2. ASSUME NEW d \in Seq(Block), NEW b \in Block, d \in T  PROVE Append(d, b) \in T
  <2> SUFFICES ASSUME NEW f \in Address, Founder(Append(d, b), f) = f
               PROVE  Accounted(Replayed(Append(d, b), f), Append(d, b))
    BY AppendFacts
  <2>1. /\ Founder(d, f) = f /\ Replayed(d, f) \in LedgerType
        /\ Replayed(Append(d, b), f) = ApplyBlock(Replayed(d, f), b)
    BY ReplayedAppend
  <2>2. Accounted(Replayed(d, f), d)
    BY <1>2, <2>1
  <2>3. QED
    BY <2>1, <2>2, AccountedAppend
<1>3. c \in T
  <2> HIDE DEF T
  <2>1. QED BY <1>1, <1>2, ChainInduct
<1>4. c[1].founder \in Address /\ c # << >>
  <2>1. c[1] \in Block
    OBVIOUS
  <2>2. QED
    BY <2>1, BlockFields
<1> QED
  BY <1>3, <1>4 DEF Replayed, Founder

\* Where no fee is negative, those of a chain are not.
LEMMA FeesNat ==
  ASSUME NEW c \in Seq(Block), Fees \subseteq Nat
  PROVE  FeesPaid(c) \in Nat
<1> DEFINE N == Len(c)
           f == [i \in 1 .. N |-> FeesOf(c[i].txs)]
<1>1. \A i \in 1 .. N : f[i] \in Nat
  <2>1. \A x \in Block : FeesOf(x.txs) \in Nat
    BY BlockFields, FeesOfType
  <2>2. QED
    BY <2>1
<1>2. IsFiniteSet(1 .. N)
  <2>1. N \in Int /\ 1 \in Int
    OBVIOUS
  <2>2. QED
    BY <2>1, FS_Interval
<1>3. FeesPaid(c) = Sum(f, 1 .. N)
  BY DEF FeesPaid, Sum, SumFunction
<1> HIDE DEF f, N
<1> QED
  BY <1>1, <1>2, <1>3, SumNat

(***************************************************************************)
(* The steps of the store, for a typed chain                                *)
(***************************************************************************)
\* Blocks that differ in the final mark at most.
Marked(c, d) ==
  /\ Len(d) = Len(c)
  /\ \A i \in 1 .. Len(c) :
       /\ d[i].txs = c[i].txs /\ d[i].miner = c[i].miner /\ d[i].reward = c[i].reward
       /\ d[i].index = c[i].index /\ d[i].hash = c[i].hash /\ d[i].prev = c[i].prev
       /\ d[i].founder = c[i].founder

\* Finalising changes nothing but the marks.
LEMMA FinaliseMarks ==
  ASSUME ChainInv, Store!Finalise
  PROVE  Marked(chain, chain') /\ UNCHANGED ledger
<1>1. /\ Len(chain') = Len(chain)
      /\ \A i \in 1 .. Len(chain) : chain'[i] \in {chain[i], [chain[i] EXCEPT !.final = TRUE]}
      /\ UNCHANGED ledger
  BY DEF Store!Finalise
<1>2. ASSUME NEW i \in 1 .. Len(chain)
      PROVE  /\ chain'[i].txs = chain[i].txs /\ chain'[i].miner = chain[i].miner
             /\ chain'[i].reward = chain[i].reward /\ chain'[i].index = chain[i].index
             /\ chain'[i].hash = chain[i].hash /\ chain'[i].prev = chain[i].prev
             /\ chain'[i].founder = chain[i].founder
  <2>1. chain[i] \in Block
    BY DEF ChainInv
  <2>2. QED
    BY <1>1, <2>1 DEF Block
<1> QED
  BY <1>1, <1>2 DEF Marked

\* An extended chain is the chain with a block that verified on its ledger.
LEMMA ExtendAppends ==
  ASSUME ChainInv, ChainInv', Store!Extend
  PROVE  \E b \in Block : /\ chain' = Append(chain, b) /\ ContentOK(ledger, b)
                          /\ Recheck(b)
                          /\ ledger' = ApplyBlock(ledger, b)
<1> DEFINE N == Len(chain)
           b == chain'[N + 1]
<1>1. /\ Len(chain') = N + 1
      /\ \A i \in 1 .. N : chain'[i] = chain[i]
      /\ Accepted(ledger, chain[N], b)
      /\ ledger' = ApplyBlock(ledger, b)
  BY DEF Store!Extend
<1>2. chain \in Seq(Block) /\ chain' \in Seq(Block) /\ N \in Nat
  BY DEF ChainInv
<1>3. b \in Block
  BY <1>1, <1>2
<1>4. chain' = Append(chain, b)
  <2>1. Append(chain, b) \in Seq(Block) /\ Len(Append(chain, b)) = N + 1
    BY <1>2, <1>3
  <2>2. ASSUME NEW i \in 1 .. N + 1  PROVE chain'[i] = Append(chain, b)[i]
    BY <1>1, <1>2
  <2>3. QED
    BY <1>1, <1>2, <2>1, <2>2, SeqEqual
<1> HIDE DEF b
<1>5. ContentOK(ledger, b) /\ Recheck(b)
  BY <1>1 DEF Recheck, Accepted, BlockOK, LastOf
<1> QED
  BY <1>1, <1>3, <1>4, <1>5 DEF b

\* Only a restart begins another run; it takes what the files hold.
LEMMA RestartsStep ==
  ASSUME [Next]_vars
  PROVE  Restart \/ UNCHANGED restarts
<1>1. CASE SubmitTx
  BY <1>1 DEF SubmitTx, bounds
<1>2. ASSUME NEW t \in Thread, Begin(t)  PROVE UNCHANGED restarts
  BY <1>2 DEF Begin, Mine, Receive, Dial, bounds
<1>3. ASSUME NEW t \in Thread, Continue(t)  PROVE UNCHANGED restarts
  BY <1>3 DEF Continue, Vote, Slash, Commit, Save, Finalize, Gate, Announce, Fork, Rebuild,
              ForkSaveBlocks, ForkSaveState, Adopt, Sync, Full, Replace, Reindex,
              SyncSaveBlocks, SyncSaveState, bounds
<1> QED
  BY <1>1, <1>2, <1>3 DEF Next, vars

\* What a step within a run does to chain and ledger.
Within ==
  Store!Extend \/ Store!Fine \/ Store!Finalise \/ Store!Install \/ UNCHANGED <<chain, ledger>>

\* A step is one within the run, or a restart.
LEMMA RunStep ==
  ASSUME IInv, [Next]_vars
  PROVE  (UNCHANGED restarts /\ Within) \/ Restart
<1>1. CASE UNCHANGED restarts
  <2>1. restarts \in Nat
    BY NodeAssumption DEF IInv, BoundInv
  <2>2. ~Store!Reload
    BY <1>1, <2>1 DEF Store!Reload
  <2>3. [Store!Next]_store
    BY StoreStep
  <2>4. QED
    BY <1>1, <2>2, <2>3 DEF Store!Next, store, Within
<1> QED
  BY <1>1, RestartsStep

\* In a process that never stopped every step is one within the run.
LEMMA FirstRunStep ==
  ASSUME IInv, [Next]_vars, restarts' = 0
  PROVE  restarts = 0 /\ Within
<1>1. restarts \in Nat
  BY NodeAssumption DEF IInv, BoundInv
<1>2. ~Restart
  BY <1>1 DEF Restart
<1> QED
  BY <1>2, RunStep

\* The genesis block replays to the allocation of its founder, and verifies.
LEMMA GenesisReplay ==
  Replay(<<Genesis>>) = GenesisLedger(Genesis.founder) /\ RebuildOK(<<Genesis>>)
<1> DEFINE c == <<Genesis>>
           led == GenesisLedger(Genesis.founder)
<1>1. /\ Genesis \in Block /\ Genesis.reward = 0 /\ Genesis.txs = << >>
      /\ Genesis.founder \in Address
  BY NodeAssumption, BlockFields
<1>2. c \in Seq(Block) /\ Len(c) = 1 /\ c[1] = Genesis
  BY <1>1
<1>3. Ledgers(c)[0] = led /\ Ledgers(c)[1] = ApplyBlock(led, Genesis)
  <2>1. /\ Ledgers(c)[0] = GenesisLedger(c[1].founder)
        /\ \A i \in 1 .. Len(c) : Ledgers(c)[i] = ApplyBlock(Ledgers(c)[i-1], c[i])
    <3>1. c \in Seq(Block) /\ Len(c) > 0
      BY <1>2
    <3> HIDE DEF c
    <3>2. QED
      BY <3>1, LedgersRecursion
  <2>2. 1 \in 1 .. Len(c) /\ 1-1 = 0
    BY <1>2
  <2> HIDE DEF c
  <2>3. QED
    BY <1>2, <2>1, <2>2
<1>4. led \in LedgerType /\ led.minted = FounderAllocation
  BY <1>1, GenesisSound DEF SoundLedger, GenesisLedger
<1>5. ApplyBlock(led, Genesis) = [accounts |-> Run(led.accounts, << >>)[0], minted |-> led.minted]
  <2>1. DistributeRewards(led, Genesis.miner, 0) = led
    BY DEF DistributeRewards
  <2> HIDE DEF led
  <2>2. QED
    BY <1>1, <2>1 DEF ApplyBlock
<1>6. Run(led.accounts, << >>)[0] = led.accounts
  <2>1. led.accounts \in Accounts /\ << >> \in Seq(Tx)
    BY <1>4, LedgerFields
  <2> HIDE DEF led
  <2>2. QED
    BY <2>1, RunRecursion
<1>7. ApplyBlock(led, Genesis) = led
  <2>1. led = [accounts |-> led.accounts, minted |-> led.minted]
    BY DEF GenesisLedger
  <2> HIDE DEF led
  <2>2. QED
    BY <1>5, <1>6, <2>1
<1>8. ContentOK(led, Genesis)
  <2>1. led.minted + Genesis.reward <= Cap
    BY <1>1, <1>4, LedgerAssumption
  <2>2. TxsOK(led.accounts, Genesis.txs)
    BY <1>1 DEF TxsOK
  <2>3. QED
    BY <2>1, <2>2 DEF ContentOK
<1> HIDE DEF led, c
<1>9. Replay(c) = led
  BY <1>2, <1>3, <1>7 DEF Replay
<1>10. RebuildOK(c)
  <2>1. 2 .. Len(c) = {}
    BY <1>2
  <2>2. ContentOK(Ledgers(c)[0], c[1])
    BY <1>2, <1>3, <1>8
  <2>3. \A i \in 1 .. Len(c) : Applies(Ledgers(c)[i-1], c[i])
    <3>1. \A i \in 1 .. Len(c) : c[i].txs = << >>
      BY <1>1, <1>2
    <3>2. QED
      BY <3>1 DEF Applies
  <2>4. QED
    BY <2>1, <2>2, <2>3 DEF RebuildOK
<1> QED
  BY <1>9, <1>10 DEF led, c

\* A fine takes from the accounts what it burns, or burns nothing when less than
\* that was minted.  Where nobody is overdrawn it takes no more than there is.
LEMMA FineTotal ==
  ASSUME LedgerInv, LedgerInv', Store!Fine
  PROVE  \E taken \in Int :
           /\ Total(ledger'.accounts) = Total(ledger.accounts) - taken
           /\ ledger'.minted = IF ledger.minted >= taken THEN ledger.minted - taken
                               ELSE ledger.minted
           /\ AmountsRegular => taken <= Total(ledger.accounts)
<1>1. PICK a \in Address :
        \E taken \in (0 .. ledger.accounts[a].balance) \cup {ledger.accounts[a].balance} :
          ledger' = [accounts |-> [ledger.accounts EXCEPT ![a].balance = @ - taken],
                     minted   |-> IF ledger.minted >= taken THEN ledger.minted - taken
                                  ELSE ledger.minted]
  BY DEF Store!Fine
<1>2. PICK taken \in (0 .. ledger.accounts[a].balance) \cup {ledger.accounts[a].balance} :
      ledger' = [accounts |-> [ledger.accounts EXCEPT ![a].balance = @ - taken],
                 minted   |-> IF ledger.minted >= taken THEN ledger.minted - taken
                              ELSE ledger.minted]
  BY <1>1
<1>3. /\ ledger \in LedgerType /\ ledger' \in LedgerType /\ Covered(ledger.accounts)
      /\ ledger.accounts \in Accounts /\ ledger'.accounts \in Accounts
  BY LedgerFields DEF LedgerInv, SoundLedger
<1>4. /\ ledger.accounts[a].balance \in Int /\ taken \in Int
      /\ taken <= ledger.accounts[a].balance
  BY <1>3 DEF Accounts, Account
<1>5. ASSUME NEW x \in Address
      PROVE  ledger'.accounts[x].balance
               = IF x = a THEN ledger.accounts[x].balance + (-taken)
                 ELSE ledger.accounts[x].balance
  BY <1>2, <1>3, <1>4 DEF Accounts, Account
<1>6. Total(ledger'.accounts) = Total(ledger.accounts) + (-taken)
  <2>1. -taken \in Int
    BY <1>4
  <2>2. QED
    BY <1>3, <1>5, <2>1, TotalChange
<1>7. Total(ledger.accounts) \in Int
  BY <1>3, TotalType
<1>8. ASSUME AmountsRegular  PROVE taken <= Total(ledger.accounts)
  <2>1. Debtor = {}
    BY <1>8 DEF AmountsRegular
  <2>2. ledger.accounts[a].balance <= Total(ledger.accounts)
    BY <1>3, <2>1, TotalCovers
  <2>3. QED
    BY <1>4, <1>7, <2>2
<1>9. Total(ledger'.accounts) = Total(ledger.accounts) - taken
  BY <1>4, <1>6, <1>7
<1>10. ledger'.minted = IF ledger.minted >= taken THEN ledger.minted - taken ELSE ledger.minted
  BY <1>2
<1> QED
  BY <1>4, <1>8, <1>9, <1>10

\* Fees do not depend on final marks.
LEMMA MarkedFees == ASSUME NEW c, NEW d, Marked(c, d) PROVE FeesPaid(d) = FeesPaid(c)
<1>1. [i \in 1 .. Len(d) |-> FeesOf(d[i].txs)] = [i \in 1 .. Len(c) |-> FeesOf(c[i].txs)]
  BY DEF Marked
<1> QED
  BY <1>1 DEF FeesPaid

\* Within a run the accounting is kept: what a fine takes is burned, unless more was
\* taken than minted, and with regular data nobody holds more than that.
LEMMA AccountedStep ==
  ASSUME IInv, IInv', Within, SupplyAccounted
  PROVE  SupplyAccounted'
<1>1. /\ ledger \in LedgerType /\ ledger' \in LedgerType
      /\ chain \in Seq(Block) /\ chain' \in Seq(Block) /\ Len(chain') > 0
  BY DEF IInv, LedgerInv, SoundLedger, ChainInv, Linked
<1>2. CASE Store!Extend
  <2>1. PICK b \in Block : chain' = Append(chain, b) /\ ledger' = ApplyBlock(ledger, b)
    BY <1>2, ExtendAppends DEF IInv
  <2>2. QED
    BY <1>1, <2>1, AccountedAppend DEF SupplyAccounted
<1>3. CASE Store!Fine
  <2>1. PICK taken \in Int :
          /\ Total(ledger'.accounts) = Total(ledger.accounts) - taken
          /\ ledger'.minted = IF ledger.minted >= taken THEN ledger.minted - taken
                              ELSE ledger.minted
          /\ AmountsRegular => taken <= Total(ledger.accounts)
    BY <1>3, FineTotal DEF IInv
  <2>2. /\ chain' = chain /\ FeesPaid(chain) \in Int
        /\ DataRegular => AmountsRegular /\ FeesPaid(chain) \in Nat
    BY <1>1, <1>3, FeesType, FeesNat DEF Store!Fine, DataRegular
  <2>3. /\ Total(ledger.accounts) + FeesPaid(chain) <= ledger.minted
        /\ DataRegular => Total(ledger.accounts) + FeesPaid(chain) = ledger.minted
    BY HeldIsTotal DEF SupplyAccounted, Accounted
  <2>4. Total(ledger.accounts) \in Int /\ ledger.minted \in Int /\ ledger.minted >= 0
    BY <1>1, LedgerFields, TotalType DEF IInv, LedgerInv, SoundLedger
  <2>5. Total(ledger'.accounts) + FeesPaid(chain) <= ledger'.minted
    BY <2>1, <2>2, <2>3, <2>4
  <2>6. DataRegular => Total(ledger'.accounts) + FeesPaid(chain) = ledger'.minted
    BY <2>1, <2>2, <2>3, <2>4
  <2>7. QED
    BY <2>2, <2>5, <2>6, HeldIsTotal DEF SupplyAccounted, Accounted
<1>4. CASE Store!Finalise
  <2>1. ledger' = ledger /\ FeesPaid(chain') = FeesPaid(chain)
    BY <1>4, FinaliseMarks, MarkedFees DEF IInv
  <2>2. QED
    BY <2>1 DEF SupplyAccounted, Accounted
<1>5. CASE Store!Install
  <2>1. ledger' = Replay(chain')
    BY <1>5 DEF Store!Install
  <2>2. QED
    BY <1>1, <2>1, ReplayAccounted DEF SupplyAccounted
<1>6. CASE UNCHANGED <<chain, ledger>>
  BY <1>6 DEF SupplyAccounted
<1> QED
  BY <1>2, <1>3, <1>4, <1>5, <1>6 DEF Within

\* While the process runs, every unit minted is in an account or was paid as a
\* fee of a block in the chain, whatever is slashed, forked or synced.
THEOREM SupplyAlwaysAccounted == Spec => [](restarts = 0 => SupplyAccounted)
<1>1. Init => (restarts = 0 => SupplyAccounted)
  <2> SUFFICES ASSUME Init PROVE SupplyAccounted
    OBVIOUS
  <2>1. chain = <<Genesis>> /\ ledger = Replay(<<Genesis>>)
    BY GenesisReplay DEF Init
  <2>2. <<Genesis>> \in Seq(Block) /\ Len(<<Genesis>>) > 0
    BY NodeAssumption
  <2>3. QED
    BY <2>1, <2>2, ReplayAccounted DEF SupplyAccounted
<1>2. IInv /\ IInv' /\ [Next]_vars /\ (restarts = 0 => SupplyAccounted)
        => (restarts = 0 => SupplyAccounted)'
  BY FirstRunStep, AccountedStep
<1> QED
  BY <1>1, <1>2, InductiveInvariant, PTL DEF Spec

(***************************************************************************)
(* The cap                                                                  *)
(***************************************************************************)
\* The accounts of a ledger hold no more than it minted.
Backed(led) == Held(led) <= led.minted

\* Where no fee is negative a block keeps a ledger backed.
LEMMA BackedApply ==
  ASSUME NEW led \in LedgerType, NEW b \in Block, Backed(led), Fees \subseteq Nat
  PROVE  Backed(ApplyBlock(led, b))
<1> DEFINE paid == Paid(led, b.miner, b.reward)
           fees == FeesOf(b.txs)
<1>1. /\ paid \in Int /\ ApplyBlock(led, b).minted = led.minted + paid
      /\ Total(ApplyBlock(led, b).accounts) = (Total(led.accounts) + paid) - fees
  BY BlockTotal
<1>2. Total(led.accounts) \in Int /\ led.minted \in Int
  BY LedgerFields, TotalType
<1>3. fees \in Nat
  BY BlockFields, FeesOfType
<1>4. Total(led.accounts) <= led.minted
  BY HeldIsTotal DEF Backed
<1> HIDE DEF paid, fees
<1>5. Total(ApplyBlock(led, b).accounts) <= ApplyBlock(led, b).minted
  BY <1>1, <1>2, <1>3, <1>4
<1> QED
  BY <1>5, HeldIsTotal DEF Backed

\* A rebuilt ledger is backed.
LEMMA BackedReplay ==
  ASSUME NEW c \in Seq(Block), Len(c) > 0, Fees \subseteq Nat
  PROVE  Backed(Replay(c))
<1>1. Held(Replay(c)) + FeesPaid(c) <= Replay(c).minted
  BY ReplayAccounted DEF Accounted
<1>2. FeesPaid(c) \in Nat
  BY FeesNat
<1>3. Held(Replay(c)) \in Int /\ Replay(c).minted \in Int
  BY ReplayType, LedgerFields, TotalType, HeldIsTotal
<1> QED
  BY <1>1, <1>2, <1>3 DEF Backed

\* state.json gets the ledger in memory or one that was just rebuilt.
LEMMA DiskLedgerStep ==
  ASSUME IInv, [Next]_vars
  PROVE  \/ disk'.ledger \in {disk.ledger, ledger}
         \/ \E c \in Seq(Block) : Len(c) > 0 /\ disk'.ledger = Replay(c)
<1> USE DEF IInv, DiskInv
<1>1. CASE SubmitTx \/ Restart \/ UNCHANGED vars
  BY <1>1 DEF SubmitTx, Restart, vars
<1>2. ASSUME NEW t \in Thread, Begin(t)  PROVE disk'.ledger = disk.ledger
  BY <1>2 DEF Begin, Mine, Receive, Dial
<1>3. ASSUME NEW t \in Thread, ForkSaveState(t)
      PROVE  \E c \in Seq(Block) : Len(c) > 0 /\ disk'.ledger = Replay(c)
  <2>1. job[t].base \in Seq(Block) /\ Len(job[t].base) > 0
    BY <1>3, JobFields DEF ForkSaveState, At, JobOK, Linked
  <2>2. disk'.ledger = Replay(job[t].base)
    BY <1>3 DEF ForkSaveState
  <2>3. QED
    BY <2>1, <2>2
<1>4. ASSUME NEW t \in Thread, Continue(t), ~ForkSaveState(t)
      PROVE  disk'.ledger \in {disk.ledger, ledger}
  <2>1. CASE Save(t) \/ Finalize(t) \/ SyncSaveState(t)
    BY <2>1 DEF Save, Finalize, SyncSaveState
  <2>2. CASE Commit(t) \/ ForkSaveBlocks(t) \/ SyncSaveBlocks(t)
    BY <2>2 DEF Commit, ForkSaveBlocks, SyncSaveBlocks
  <2>3. CASE Vote(t) \/ Slash(t) \/ Gate(t) \/ Announce(t) \/ Fork(t) \/ Rebuild(t)
    BY <2>3 DEF Vote, Slash, Gate, Announce, Fork, Rebuild
  <2>4. CASE Adopt(t) \/ Sync(t) \/ Full(t) \/ Replace(t) \/ Reindex(t)
    BY <2>4 DEF Adopt, Sync, Full, Replace, Reindex
  <2>5. QED
    BY <1>4, <2>1, <2>2, <2>3, <2>4 DEF Continue
<1> QED
  BY <1>1, <1>2, <1>3, <1>4 DEF Next

\* With regular data every step, a restart too, keeps both ledgers backed.
LEMMA BackedStep ==
  ASSUME DataRegular, IInv, IInv', [Next]_vars, Backed(ledger), Backed(disk.ledger)
  PROVE  Backed(ledger)' /\ Backed(disk.ledger)'
<1>0. AmountsRegular /\ Fees \subseteq Nat
  BY DEF DataRegular
<1>1. /\ ledger \in LedgerType /\ ledger' \in LedgerType
      /\ chain' \in Seq(Block) /\ Len(chain') > 0
  BY DEF IInv, LedgerInv, SoundLedger, ChainInv, Linked
<1>2. Backed(disk'.ledger)
  BY <1>0, DiskLedgerStep, BackedReplay
<1>3. CASE Store!Extend
  <2>1. PICK b \in Block : ledger' = ApplyBlock(ledger, b)
    BY <1>3, ExtendAppends DEF IInv
  <2>2. QED
    BY <1>0, <1>1, <1>2, <2>1, BackedApply
<1>4. CASE Store!Fine
  <2>1. PICK taken \in Int :
          /\ Total(ledger'.accounts) = Total(ledger.accounts) - taken
          /\ ledger'.minted = IF ledger.minted >= taken THEN ledger.minted - taken
                              ELSE ledger.minted
          /\ AmountsRegular => taken <= Total(ledger.accounts)
    BY <1>4, FineTotal DEF IInv
  <2>2. Total(ledger.accounts) \in Int /\ ledger.minted \in Int
    BY <1>1, LedgerFields, TotalType
  <2>3. Total(ledger.accounts) <= ledger.minted
    BY HeldIsTotal DEF Backed
  <2>4. Total(ledger'.accounts) <= ledger'.minted
    BY <1>0, <2>1, <2>2, <2>3
  <2>5. Backed(ledger')
    BY <2>4, HeldIsTotal DEF Backed
  <2>6. QED
    BY <1>2, <2>5
<1>5. CASE Store!Finalise \/ UNCHANGED <<chain, ledger>>
  BY <1>2, <1>5 DEF Store!Finalise
<1>6. CASE Store!Install
  BY <1>0, <1>1, <1>2, <1>6, BackedReplay DEF Store!Install
<1>7. CASE Restart
  BY <1>2, <1>7 DEF Restart
<1> QED
  BY <1>3, <1>4, <1>5, <1>6, <1>7, RunStep DEF Within

\* With regular data the accounts together never hold more than the cap, through
\* restarts on a torn save too, though burns make room for new rewards.
THEOREM SupplyAlwaysCapped == Spec => []SupplyCapped
<1> DEFINE BackedInv == DataRegular => Backed(ledger) /\ Backed(disk.ledger)
<1>1. Init => BackedInv
  <2> SUFFICES ASSUME Init, DataRegular PROVE Backed(ledger) /\ Backed(disk.ledger)
    OBVIOUS
  <2>1. ledger = Replay(<<Genesis>>) /\ disk.ledger = ledger
    BY GenesisReplay DEF Init
  <2>2. <<Genesis>> \in Seq(Block) /\ Len(<<Genesis>>) > 0
    BY NodeAssumption
  <2>3. QED
    BY <2>1, <2>2, BackedReplay DEF DataRegular
<1>2. IInv /\ IInv' /\ [Next]_vars /\ BackedInv => BackedInv'
  BY BackedStep DEF DataRegular, AmountsRegular
<1>3. IInv /\ BackedInv => SupplyCapped
  <2> SUFFICES ASSUME IInv, BackedInv PROVE SupplyCapped
    OBVIOUS
  <2>1. /\ ledger \in LedgerType /\ ledger.minted \in Int
        /\ DataRegular => ledger.minted <= Cap
    BY LedgerFields DEF IInv, LedgerInv, SoundLedger, DataRegular, AmountsRegular
  <2>2. Held(ledger) \in Int
    BY <2>1, LedgerFields, TotalType, HeldIsTotal
  <2>3. DataRegular => Held(ledger) <= Cap
    BY <2>1, <2>2, LedgerAssumption DEF Backed
  <2>4. MintedCapped
    BY DEF IInv, LedgerInv, DiskInv, SoundLedger, MintedCapped, AmountsRegular
  <2>5. QED
    BY <2>3, <2>4 DEF SupplyCapped
<1> HIDE DEF BackedInv
<1> QED
  BY <1>1, <1>2, <1>3, InductiveInvariant, PTL DEF Spec

(***************************************************************************)
(* Nonces                                                                   *)
(***************************************************************************)
SameNonces(x, y) == \A a \in Address : x[a].nonce = y[a].nonce
SameExists(x, y) == \A a \in Address : x[a].exists = y[a].exists
NoRicher(x, y)   == \A a \in Address \ Debtor : x[a].balance <= y[a].balance

\* A transaction treats two account maps alike.
LEMMA ApplyTxKeeps ==
  ASSUME NEW x \in Accounts, NEW y \in Accounts, NEW tx \in Tx
  PROVE  /\ SameNonces(x, y) => SameNonces(ApplyTx(x, tx), ApplyTx(y, tx))
         /\ SameExists(x, y) => SameExists(ApplyTx(x, tx), ApplyTx(y, tx))
         /\ NoRicher(x, y) => NoRicher(ApplyTx(x, tx), ApplyTx(y, tx))
<1>1. SameNonces(x, y) => SameNonces(ApplyTx(x, tx), ApplyTx(y, tx))
  BY ApplyTxFields DEF SameNonces
<1>2. SameExists(x, y) => SameExists(ApplyTx(x, tx), ApplyTx(y, tx))
  <2>1. ASSUME SameExists(x, y), NEW a \in Address
        PROVE  ApplyTx(x, tx)[a].exists = ApplyTx(y, tx)[a].exists
    <3>1. /\ ApplyTx(x, tx)[a].exists <=> x[a].exists \/ a = tx.to
          /\ ApplyTx(y, tx)[a].exists <=> y[a].exists \/ a = tx.to
      BY ApplyTxExists
    <3>2. /\ ApplyTx(x, tx)[a].exists \in BOOLEAN /\ ApplyTx(y, tx)[a].exists \in BOOLEAN
          /\ x[a].exists = y[a].exists
      BY <2>1, ApplyTxType DEF Accounts, Account, SameExists
    <3>3. QED
      BY <3>1, <3>2
  <2>2. QED
    BY <2>1 DEF SameExists
<1>3. ASSUME NoRicher(x, y), NEW a \in Address \ Debtor
      PROVE  ApplyTx(x, tx)[a].balance <= ApplyTx(y, tx)[a].balance
  <2> DEFINE debit  == IF a = tx.from THEN Cost(tx) ELSE 0
             credit == IF a = tx.to THEN tx.amount ELSE 0
  <2>1. /\ ApplyTx(x, tx)[a].balance = x[a].balance - debit + credit
        /\ ApplyTx(y, tx)[a].balance = y[a].balance - debit + credit
    BY ApplyTxFields
  <2>2. debit \in Int /\ credit \in Int
    BY TxFields
  <2>3. x[a].balance \in Int /\ y[a].balance \in Int /\ x[a].balance <= y[a].balance
    BY <1>3 DEF Accounts, Account, NoRicher
  <2> HIDE DEF debit, credit
  <2>4. QED
    BY <2>1, <2>2, <2>3
<1> QED
  BY <1>1, <1>2, <1>3 DEF NoRicher

\* So do the transactions of a block.
LEMMA RunKeeps ==
  ASSUME NEW x \in Accounts, NEW y \in Accounts, NEW txs \in Seq(Tx)
  PROVE  \A i \in 0 .. Len(txs) :
           /\ SameNonces(x, y) => SameNonces(Run(x, txs)[i], Run(y, txs)[i])
           /\ SameExists(x, y) => SameExists(Run(x, txs)[i], Run(y, txs)[i])
           /\ NoRicher(x, y) => NoRicher(Run(x, txs)[i], Run(y, txs)[i])
<1> DEFINE N == Len(txs)
           X == Run(x, txs)
           Y == Run(y, txs)
           S == {i \in 0 .. N : /\ SameNonces(x, y) => SameNonces(X[i], Y[i])
                                /\ SameExists(x, y) => SameExists(X[i], Y[i])
                                /\ NoRicher(x, y) => NoRicher(X[i], Y[i])}
<1>1. N \in Nat /\ \A i \in 1 .. N : txs[i] \in Tx
  OBVIOUS
<1>2. /\ \A i \in 0 .. N : X[i] \in Accounts /\ Y[i] \in Accounts
      /\ X[0] = x /\ Y[0] = y
      /\ \A i \in 1 .. N : X[i] = ApplyTx(X[i-1], txs[i]) /\ Y[i] = ApplyTx(Y[i-1], txs[i])
  BY RunRecursion
<1> HIDE DEF N, X, Y
<1>3. 0 \in S
  BY <1>1, <1>2
<1>4. ASSUME NEW n \in 0 .. N-1, n \in S  PROVE n+1 \in S
  <2>1. n+1 \in 1 .. N /\ (n+1)-1 = n /\ n \in 0 .. N /\ n+1 \in 0 .. N
    BY <1>1
  <2>2. /\ X[n+1] = ApplyTx(X[n], txs[n+1]) /\ Y[n+1] = ApplyTx(Y[n], txs[n+1])
        /\ X[n] \in Accounts /\ Y[n] \in Accounts /\ txs[n+1] \in Tx
    BY <1>1, <1>2, <2>1
  <2>3. QED
    BY <1>4, <2>1, <2>2, ApplyTxKeeps
<1>5. 0 .. N \subseteq S
  <2> HIDE DEF S
  <2>1. QED
    BY <1>1, <1>3, <1>4, UpToInduct
<1> QED
  BY <1>5 DEF N, X, Y

\* The nonces of a's transactions in a verified list continue those of its
\* account, one by one, up to the nonce the account has after the list.
LEMMA RunNonces ==
  ASSUME NEW accts \in Accounts, NEW txs \in Seq(Tx), NEW a \in Address,
         \A i \in 1 .. Len(txs) :
           txs[i].nonce = Run(accts, txs)[i-1][txs[i].from].nonce + 1
  PROVE  LET first == accts[a].nonce
             last  == Run(accts, txs)[Len(txs)][a].nonce
             mine  == {k \in 1 .. Len(txs) : txs[k].from = a}
         IN  /\ first \in Nat /\ last \in Nat /\ first <= last
             /\ \A k \in mine : txs[k].nonce \in first + 1 .. last
             /\ \A n \in first + 1 .. last : \E k \in mine : txs[k].nonce = n
             /\ \A j, k \in mine : j < k => txs[j].nonce < txs[k].nonce
<1> DEFINE N == Len(txs)
           run == Run(accts, txs)
           first == accts[a].nonce
           last(i) == run[i][a].nonce
           mine(i) == {k \in 1 .. i : txs[k].from = a}
           S == {i \in 0 .. N :
                   /\ last(i) \in Nat /\ first <= last(i)
                   /\ \A k \in mine(i) : txs[k].nonce \in first + 1 .. last(i)
                   /\ \A n \in first + 1 .. last(i) : \E k \in mine(i) : txs[k].nonce = n
                   /\ \A j, k \in mine(i) : j < k => txs[j].nonce < txs[k].nonce}
<1>1. /\ N \in Nat /\ (\A i \in 1 .. N : txs[i] \in Tx) /\ first \in Nat
      /\ \A i \in 1 .. N : txs[i].from \in Address /\ txs[i].nonce \in Nat
  <2>1. \A x \in Tx : x.from \in Address /\ x.nonce \in Nat
    BY DEF Tx
  <2>2. QED
    BY <2>1 DEF Accounts, Account
<1>2. /\ \A i \in 0 .. N : run[i] \in Accounts
      /\ run[0] = accts
      /\ \A i \in 1 .. N : run[i] = ApplyTx(run[i-1], txs[i])
  BY RunRecursion
<1>3. \A i \in 1 .. N : txs[i].nonce = run[i-1][txs[i].from].nonce + 1
  OBVIOUS
<1>4. \A i \in 0 .. N : last(i) \in Nat
  BY <1>2 DEF Accounts, Account
<1> HIDE DEF N, run
<1>5. 0 \in S
  <2>1. last(0) = first /\ mine(0) = {} /\ first + 1 .. last(0) = {}
    BY <1>1, <1>2
  <2>2. QED
    BY <1>1, <2>1
<1>6. ASSUME NEW n \in 0 .. N-1, n \in S  PROVE n+1 \in S
  <2>1. n+1 \in 1 .. N /\ (n+1)-1 = n /\ n \in 0 .. N /\ n+1 \in 0 .. N /\ n \in Nat
    BY <1>1
  <2> DEFINE tx == txs[n+1]
  <2>2. last(n+1) = IF a = tx.from THEN tx.nonce ELSE last(n)
    <3>1. run[n+1] = ApplyTx(run[n], tx) /\ tx \in Tx /\ run[n] \in Accounts
      BY <1>1, <1>2, <2>1
    <3>2. QED
      BY <3>1, ApplyTxFields
  <2>3. tx.from = a => tx.nonce = last(n) + 1
    BY <1>3, <2>1
  <2>4. last(n) \in Nat /\ first \in Nat
    BY <1>1, <1>4, <2>1
  <2>5. mine(n+1) = IF tx.from = a THEN mine(n) \cup {n+1} ELSE mine(n)
    BY <2>1
  <2>6. \A k \in mine(n) : k < n+1 /\ txs[k].nonce \in Nat /\ k \in Nat
    BY <1>1, <2>1
  <2>7. /\ first <= last(n)
        /\ \A k \in mine(n) : txs[k].nonce \in first + 1 .. last(n)
        /\ \A m \in first + 1 .. last(n) : \E k \in mine(n) : txs[k].nonce = m
        /\ \A j, k \in mine(n) : j < k => txs[j].nonce < txs[k].nonce
    BY <1>6
  <2> HIDE DEF tx, last, mine, first
  <2>8. CASE tx.from = a
    <3>1. last(n+1) = last(n) + 1 /\ mine(n+1) = mine(n) \cup {n+1} /\ txs[n+1].nonce = last(n) + 1
      BY <2>2, <2>3, <2>5, <2>8 DEF tx
    <3>2. last(n+1) \in Nat /\ first <= last(n+1)
      BY <2>4, <2>7, <3>1
    <3>3. \A k \in mine(n+1) : txs[k].nonce \in first + 1 .. last(n+1)
      BY <2>4, <2>7, <3>1
    <3>4. ASSUME NEW m \in first + 1 .. last(n+1)
          PROVE  \E k \in mine(n+1) : txs[k].nonce = m
      <4>1. CASE m = last(n) + 1
        BY <3>1, <4>1
      <4>2. CASE m # last(n) + 1
        <5>1. m \in first + 1 .. last(n)
          BY <2>4, <3>1, <4>2
        <5>2. QED
          BY <2>7, <3>1, <5>1
      <4>3. QED
        BY <4>1, <4>2
    <3>5. ASSUME NEW j \in mine(n+1), NEW k \in mine(n+1), j < k
          PROVE  txs[j].nonce < txs[k].nonce
      <4>1. j \in mine(n)
        BY <2>1, <2>6, <3>1, <3>5
      <4>2. CASE k = n+1
        <5>1. txs[j].nonce \in first + 1 .. last(n) /\ txs[k].nonce = last(n) + 1
          BY <2>7, <3>1, <4>1, <4>2
        <5>2. QED
          BY <2>4, <5>1
      <4>3. CASE k # n+1
        BY <2>7, <3>1, <3>5, <4>1, <4>3
      <4>4. QED
        BY <4>2, <4>3
    <3>6. QED
      BY <2>1, <3>2, <3>3, <3>4, <3>5
  <2>9. CASE tx.from # a
    <3>1. last(n+1) = last(n) /\ mine(n+1) = mine(n)
      BY <2>2, <2>5, <2>9
    <3>2. QED
      BY <2>1, <2>4, <2>7, <3>1
  <2>10. QED
    BY <2>8, <2>9
<1>7. 0 .. N \subseteq S
  <2> HIDE DEF S
  <2>1. QED
    BY <1>1, <1>5, <1>6, UpToInduct
<1>8. N \in S
  BY <1>1, <1>7
<1> QED
  BY <1>1, <1>8 DEF N, run

\* The places of a's transactions in a chain with one more block: the old ones,
\* and those in the block.
LEMMA SentByAppend ==
  ASSUME NEW c \in Seq(Block), NEW b \in Block, NEW a \in Address
  PROVE  LET mine == {k \in 1 .. Len(b.txs) : b.txs[k].from = a}
             at   == Len(c) + 1
         IN  /\ \A p \in SentBy(a, c) :
                  /\ p \in SentBy(a, Append(c, b)) /\ p[1] \in 1 .. Len(c)
                  /\ NonceAt(Append(c, b), p) = NonceAt(c, p)
             /\ \A k \in mine : /\ <<at, k>> \in SentBy(a, Append(c, b))
                                /\ NonceAt(Append(c, b), <<at, k>>) = b.txs[k].nonce
             /\ \A p \in SentBy(a, Append(c, b)) :
                  p \in SentBy(a, c) \/ \E k \in mine : p = <<at, k>>
<1> DEFINE N == Len(c)
           d == Append(c, b)
           Places(x) == {k \in 1 .. Len(x.txs) : x.txs[k].from = a}
<1>1. /\ N \in Nat /\ Len(d) = N + 1 /\ d[N+1] = b
      /\ \A i \in 1 .. N : d[i] = c[i]
  BY AppendFacts
<1>2. \A e : SentBy(a, e) = UNION {{<<i, k>> : k \in Places(e[i])} : i \in 1 .. Len(e)}
  BY DEF SentBy
<1>3. ASSUME NEW e, NEW p
      PROVE  p \in SentBy(a, e) <=> \E i \in 1 .. Len(e) : \E k \in Places(e[i]) : p = <<i, k>>
  BY <1>2
<1> HIDE DEF Places, d, N
<1>4. ASSUME NEW p \in SentBy(a, c)
      PROVE  p \in SentBy(a, d) /\ p[1] \in 1 .. N /\ NonceAt(d, p) = NonceAt(c, p)
  <2>1. PICK i \in 1 .. N : \E k \in Places(c[i]) : p = <<i, k>>
    BY <1>3 DEF N
  <2>2. i \in 1 .. Len(d) /\ d[i] = c[i] /\ p[1] = i
    BY <1>1, <2>1
  <2>3. QED
    BY <1>3, <2>1, <2>2 DEF NonceAt
<1>5. ASSUME NEW k \in Places(b)
      PROVE  <<N+1, k>> \in SentBy(a, d) /\ NonceAt(d, <<N+1, k>>) = b.txs[k].nonce
  <2>1. N+1 \in 1 .. Len(d)
    BY <1>1
  <2>2. QED
    BY <1>1, <1>3, <2>1 DEF NonceAt
<1>6. ASSUME NEW p \in SentBy(a, d)
      PROVE  p \in SentBy(a, c) \/ \E k \in Places(b) : p = <<N+1, k>>
  <2>1. PICK i \in 1 .. Len(d) : \E k \in Places(d[i]) : p = <<i, k>>
    BY <1>3
  <2>2. CASE i = N+1
    BY <1>1, <2>1, <2>2
  <2>3. CASE i # N+1
    <3>1. i \in 1 .. Len(c) /\ d[i] = c[i]
      BY <1>1, <2>3 DEF N
    <3>2. QED
      BY <1>3, <2>1, <3>1
  <2>4. QED
    BY <2>2, <2>3
<1> QED
  BY <1>4, <1>5, <1>6 DEF Places, d, N

\* A verified block keeps the nonces in sequence.
LEMMA InSequenceAppend ==
  ASSUME NEW c \in Seq(Block), NEW b \in Block, NEW led \in LedgerType,
         ContentOK(led, b), InSequence(led.accounts, c)
  PROVE  InSequence(ApplyBlock(led, b).accounts, Append(c, b))
<1> DEFINE rewarded == DistributeRewards(led, b.miner, b.reward).accounts
           txs == b.txs
           d == Append(c, b)
<1>1. /\ b.miner \in Address /\ b.reward \in Int /\ txs \in Seq(Tx)
      /\ \A i \in 1 .. Len(txs) : txs[i] \in Tx
  BY BlockFields
<1>2. led.accounts \in Accounts /\ rewarded \in Accounts
  BY LedgerFields, BlockRewarded DEF Rewarded
<1>3. ApplyBlock(led, b).accounts = Run(rewarded, txs)[Len(txs)]
  BY DEF ApplyBlock
<1>4. SameNonces(rewarded, led.accounts)
  BY BlockRewarded DEF SameNonces, Rewarded
<1>5. \A i \in 1 .. Len(txs) :
        txs[i].nonce = Run(led.accounts, txs)[i-1][txs[i].from].nonce + 1
  BY DEF ContentOK, TxsOK, TxOK
<1> HIDE DEF rewarded, txs, d
<1>6. ASSUME NEW i \in 1 .. Len(txs)
      PROVE  txs[i].nonce = Run(rewarded, txs)[i-1][txs[i].from].nonce + 1
  <2>1. i-1 \in 0 .. Len(txs) /\ txs[i].from \in Address
    <3>1. Len(txs) \in Nat /\ txs[i].from \in Address
      BY <1>1, TxFields
    <3>2. QED
      BY <3>1
  <2>2. Run(rewarded, txs)[i-1][txs[i].from].nonce
          = Run(led.accounts, txs)[i-1][txs[i].from].nonce
    BY <1>1, <1>2, <1>4, <2>1, RunKeeps DEF SameNonces
  <2>3. QED
    BY <1>5, <2>2
<1>7. ASSUME NEW a \in Address
      PROVE  /\ {NonceAt(d, p) : p \in SentBy(a, d)} = 1 .. ApplyBlock(led, b).accounts[a].nonce
             /\ \A p, q \in SentBy(a, d) : Earlier(p, q) => NonceAt(d, p) < NonceAt(d, q)
  <2> DEFINE first == led.accounts[a].nonce
             last == ApplyBlock(led, b).accounts[a].nonce
             mine == {k \in 1 .. Len(txs) : txs[k].from = a}
             at == Len(c) + 1
  <2>1. /\ first \in Nat /\ last \in Nat /\ first <= last
        /\ \A k \in mine : txs[k].nonce \in first + 1 .. last
        /\ \A n \in first + 1 .. last : \E k \in mine : txs[k].nonce = n
        /\ \A j, k \in mine : j < k => txs[j].nonce < txs[k].nonce
    <3>1. rewarded[a].nonce = first
      BY <1>4 DEF SameNonces
    <3>2. Run(rewarded, txs)[Len(txs)][a].nonce = last
      BY <1>3
    <3> HIDE DEF first, last, mine
    <3>3. LET f == rewarded[a].nonce
              l == Run(rewarded, txs)[Len(txs)][a].nonce
              m == {k \in 1 .. Len(txs) : txs[k].from = a}
          IN  /\ f \in Nat /\ l \in Nat /\ f <= l
              /\ \A k \in m : txs[k].nonce \in f + 1 .. l
              /\ \A n \in f + 1 .. l : \E k \in m : txs[k].nonce = n
              /\ \A j, k \in m : j < k => txs[j].nonce < txs[k].nonce
      BY <1>1, <1>2, <1>6, RunNonces
    <3>4. QED
      BY <3>1, <3>2, <3>3 DEF mine
  <2>2. /\ \A p \in SentBy(a, c) : /\ p \in SentBy(a, d) /\ p[1] \in 1 .. Len(c)
                                   /\ NonceAt(d, p) = NonceAt(c, p)
        /\ \A k \in mine : <<at, k>> \in SentBy(a, d) /\ NonceAt(d, <<at, k>>) = txs[k].nonce
        /\ \A p \in SentBy(a, d) : p \in SentBy(a, c) \/ \E k \in mine : p = <<at, k>>
    BY SentByAppend DEF d, txs
  <2>3. /\ {NonceAt(c, p) : p \in SentBy(a, c)} = 1 .. first
        /\ \A p, q \in SentBy(a, c) : Earlier(p, q) => NonceAt(c, p) < NonceAt(c, q)
    BY DEF InSequence
  <2>4. Len(c) \in Nat /\ mine \subseteq Nat
    OBVIOUS
  <2> HIDE DEF first, last, mine
  <2>5. \A p \in SentBy(a, c) : NonceAt(c, p) \in 1 .. first
    BY <2>3
  <2>6. ASSUME NEW p \in SentBy(a, d)  PROVE NonceAt(d, p) \in 1 .. last
    BY <2>1, <2>2, <2>5
  <2>7. ASSUME NEW n \in 1 .. last  PROVE \E p \in SentBy(a, d) : NonceAt(d, p) = n
    <3>1. CASE n <= first
      <4>1. n \in 1 .. first
        BY <2>1, <3>1
      <4>2. PICK p \in SentBy(a, c) : NonceAt(c, p) = n
        BY <2>3, <4>1
      <4>3. QED
        BY <2>2, <4>2
    <3>2. CASE ~(n <= first)
      <4>1. n \in first + 1 .. last
        BY <2>1, <3>2
      <4>2. PICK k \in mine : txs[k].nonce = n
        BY <2>1, <4>1
      <4>3. QED
        BY <2>2, <4>2
    <3>3. QED
      BY <3>1, <3>2
  <2>8. ASSUME NEW p \in SentBy(a, d), NEW q \in SentBy(a, d), Earlier(p, q)
        PROVE  NonceAt(d, p) < NonceAt(d, q)
    <3>1. CASE p \in SentBy(a, c) /\ q \in SentBy(a, c)
      BY <2>2, <2>3, <2>8, <3>1
    <3>2. CASE p \in SentBy(a, c) /\ q \notin SentBy(a, c)
      <4>1. NonceAt(d, p) \in 1 .. first
        BY <2>2, <2>5, <3>2
      <4>2. NonceAt(d, q) \in first + 1 .. last
        BY <2>1, <2>2, <3>2
      <4>3. QED
        BY <2>1, <4>1, <4>2
    <3>3. CASE p \notin SentBy(a, c) /\ q \in SentBy(a, c)
      <4>1. p[1] = at /\ q[1] \in 1 .. Len(c)
        BY <2>2, <3>3
      <4>2. FALSE
        BY <2>4, <2>8, <4>1 DEF Earlier
      <4>3. QED
        BY <4>2
    <3>4. CASE p \notin SentBy(a, c) /\ q \notin SentBy(a, c)
      <4>1. PICK j \in mine : p = <<at, j>>
        BY <2>2, <3>4
      <4>2. PICK k \in mine : q = <<at, k>>
        BY <2>2, <3>4
      <4>3. j < k
        BY <2>4, <2>8, <4>1, <4>2 DEF Earlier
      <4>4. QED
        BY <2>1, <2>2, <4>1, <4>2, <4>3
    <3>5. QED
      BY <3>1, <3>2, <3>3, <3>4
  <2>9. {NonceAt(d, p) : p \in SentBy(a, d)} = 1 .. last
    BY <2>6, <2>7
  <2>10. QED
    BY <2>8, <2>9 DEF last
<1> QED
  BY <1>7 DEF InSequence, d

\* A chain that rebuilds has its nonces in sequence with the rebuilt ledger.
LEMMA InSequenceReplay ==
  ASSUME NEW c \in Seq(Block), Len(c) > 0, RebuildOK(c)
  PROVE  InSequence(Replay(c).accounts, c)
<1> DEFINE T == {d \in Seq(Block) :
                   \A f \in Address :
                     Founder(d, f) = f /\ (d # << >> => RebuildOK(d))
                       => InSequence(Replayed(d, f).accounts, d)}
<1>1. << >> \in T
  <2> SUFFICES ASSUME NEW f \in Address, NEW a \in Address
               PROVE  /\ {NonceAt(<< >>, p) : p \in SentBy(a, << >>)}
                           = 1 .. GenesisLedger(f).accounts[a].nonce
                      /\ SentBy(a, << >>) = {}
    BY DEF Replayed, InSequence
  <2>1. SentBy(a, << >>) = {}
    <3>1. 1 .. Len(<< >>) = {}
      OBVIOUS
    <3>2. QED
      BY <3>1 DEF SentBy
  <2>2. GenesisLedger(f).accounts[a].nonce = 0
    BY DEF GenesisLedger, NoAccount
  <2>3. QED
    BY <2>1, <2>2
<1>2. ASSUME NEW d \in Seq(Block), NEW b \in Block, d \in T  PROVE Append(d, b) \in T
  <2> SUFFICES ASSUME NEW f \in Address, Founder(Append(d, b), f) = f, RebuildOK(Append(d, b))
               PROVE  InSequence(Replayed(Append(d, b), f).accounts, Append(d, b))
    <3>1. Append(d, b) \in Seq(Block) /\ Append(d, b) # << >>
      BY AppendNotEmpty, AppendFacts
    <3>2. QED
      BY <3>1
  <2>1. /\ Founder(d, f) = f /\ Replayed(d, f) \in LedgerType
        /\ Replayed(Append(d, b), f) = ApplyBlock(Replayed(d, f), b)
    BY ReplayedAppend
  <2>2. ContentOK(Replayed(d, f), b) /\ (d # << >> => RebuildOK(d))
    BY RebuildBefore
  <2>3. InSequence(Replayed(d, f).accounts, d)
    BY <1>2, <2>1, <2>2
  <2>4. QED
    BY <2>1, <2>2, <2>3, InSequenceAppend
<1>3. c \in T
  <2> HIDE DEF T
  <2>1. QED BY <1>1, <1>2, ChainInduct
<1>4. c[1].founder \in Address /\ c # << >>
  <2>1. c[1] \in Block
    OBVIOUS
  <2>2. QED
    BY <2>1, BlockFields
<1> QED
  BY <1>3, <1>4 DEF Replayed, Founder

\* Final marks and balances do not matter to the sequence of nonces.
LEMMA InSequenceSame ==
  ASSUME NEW c, NEW d, NEW x, NEW y, Marked(c, d), SameNonces(x, y), InSequence(x, c)
  PROVE  InSequence(y, d)
<1>1. Len(d) = Len(c) /\ \A i \in 1 .. Len(c) : d[i].txs = c[i].txs
  BY DEF Marked
<1>2. ASSUME NEW a \in Address
      PROVE  /\ {NonceAt(d, p) : p \in SentBy(a, d)} = 1 .. y[a].nonce
             /\ \A p, q \in SentBy(a, d) : Earlier(p, q) => NonceAt(d, p) < NonceAt(d, q)
  <2>1. SentBy(a, d) = SentBy(a, c)
    BY <1>1 DEF SentBy
  <2>2. \A p \in SentBy(a, c) : NonceAt(d, p) = NonceAt(c, p)
    <3>1. \A p \in SentBy(a, c) : p[1] \in 1 .. Len(c)
      BY DEF SentBy
    <3>2. QED
      BY <1>1, <3>1 DEF NonceAt
  <2>3. /\ {NonceAt(c, p) : p \in SentBy(a, c)} = 1 .. x[a].nonce
        /\ \A p, q \in SentBy(a, c) : Earlier(p, q) => NonceAt(c, p) < NonceAt(c, q)
    BY DEF InSequence
  <2>4. x[a].nonce = y[a].nonce
    BY DEF SameNonces
  <2>5. {NonceAt(d, p) : p \in SentBy(a, d)} = {NonceAt(c, p) : p \in SentBy(a, c)}
    BY <2>1, <2>2
  <2>6. QED
    BY <2>1, <2>2, <2>3, <2>4, <2>5
<1> QED
  BY <1>2 DEF InSequence

\* A chain differs from itself in no mark.
LEMMA MarkedSelf == \A c : Marked(c, c)
BY DEF Marked

\* A fine changes balances only, and raises none but that of an account in debt.
LEMMA FineKeeps ==
  ASSUME LedgerInv, Store!Fine
  PROVE  /\ SameNonces(ledger.accounts, ledger'.accounts)
         /\ SameExists(ledger.accounts, ledger'.accounts)
         /\ NoRicher(ledger'.accounts, ledger.accounts)
         /\ AmountsRegular => ledger'.minted <= ledger.minted
         /\ UNCHANGED chain
<1>1. PICK a \in Address :
        \E taken \in (0 .. ledger.accounts[a].balance) \cup {ledger.accounts[a].balance} :
          ledger' = [accounts |-> [ledger.accounts EXCEPT ![a].balance = @ - taken],
                     minted   |-> IF ledger.minted >= taken THEN ledger.minted - taken
                                  ELSE ledger.minted]
  BY DEF Store!Fine
<1>2. PICK taken \in (0 .. ledger.accounts[a].balance) \cup {ledger.accounts[a].balance} :
      ledger' = [accounts |-> [ledger.accounts EXCEPT ![a].balance = @ - taken],
                 minted   |-> IF ledger.minted >= taken THEN ledger.minted - taken
                              ELSE ledger.minted]
  BY <1>1
<1>3. /\ ledger.accounts \in Accounts /\ ledger.minted \in Int
      /\ Covered(ledger.accounts)
  BY LedgerFields DEF LedgerInv, SoundLedger
<1>4. taken \in Int /\ (a \notin Debtor => taken >= 0)
  BY <1>3 DEF Accounts, Account, Covered
<1>5. ASSUME NEW x \in Address
      PROVE  /\ ledger'.accounts[x].nonce = ledger.accounts[x].nonce
             /\ ledger'.accounts[x].exists = ledger.accounts[x].exists
             /\ x \notin Debtor => ledger'.accounts[x].balance <= ledger.accounts[x].balance
  <2>1. CASE x = a
    <3>1. ledger'.accounts[a] = [ledger.accounts[a] EXCEPT !.balance = @ - taken]
      BY <1>2, <1>3 DEF Accounts
    <3>2. ledger.accounts[a] \in Account
      BY <1>3 DEF Accounts
    <3>3. QED
      BY <1>4, <2>1, <3>1, <3>2 DEF Account
  <2>2. CASE x # a
    <3>1. ledger'.accounts[x] = ledger.accounts[x] /\ ledger.accounts[x] \in Account
      BY <1>2, <1>3, <2>2 DEF Accounts
    <3>2. QED
      BY <3>1 DEF Account
  <2>3. QED
    BY <2>1, <2>2
<1>6. AmountsRegular => ledger'.minted <= ledger.minted
  BY <1>2, <1>3, <1>4 DEF AmountsRegular
<1>7. UNCHANGED chain
  BY DEF Store!Fine
<1> QED
  BY <1>5, <1>6, <1>7 DEF SameNonces, SameExists, NoRicher

\* Within a run the nonces stay in sequence.
LEMMA InSequenceStep ==
  ASSUME IInv, IInv', Within, NoncesInSequence
  PROVE  NoncesInSequence'
<1>1. /\ ledger \in LedgerType /\ chain \in Seq(Block)
      /\ chain' \in Seq(Block) /\ Len(chain') > 0
  BY DEF IInv, LedgerInv, SoundLedger, ChainInv, Linked
<1>2. CASE Store!Extend
  <2>1. PICK b \in Block : /\ chain' = Append(chain, b) /\ ContentOK(ledger, b)
                           /\ ledger' = ApplyBlock(ledger, b)
    BY <1>2, ExtendAppends DEF IInv
  <2>2. QED
    BY <1>1, <2>1, InSequenceAppend DEF NoncesInSequence
<1>3. CASE Store!Fine
  <2>1. SameNonces(ledger.accounts, ledger'.accounts) /\ Marked(chain, chain') /\ chain' = chain
    BY <1>3, FineKeeps, MarkedSelf DEF IInv
  <2>2. QED
    BY <2>1, InSequenceSame DEF NoncesInSequence
<1>4. CASE Store!Finalise
  <2>1. Marked(chain, chain') /\ ledger' = ledger
    BY <1>4, FinaliseMarks DEF IInv
  <2>2. SameNonces(ledger.accounts, ledger.accounts)
    BY DEF SameNonces
  <2>3. QED
    BY <2>1, <2>2, InSequenceSame DEF NoncesInSequence
<1>5. CASE Store!Install
  BY <1>1, <1>5, InSequenceReplay DEF Store!Install, NoncesInSequence
<1>6. CASE UNCHANGED <<chain, ledger>>
  BY <1>6 DEF NoncesInSequence
<1> QED
  BY <1>2, <1>3, <1>4, <1>5, <1>6 DEF Within

\* While the process runs, the chain holds each sender's transactions with nonces
\* 1, 2, 3, ..., and the account is at the last: blocks verified on snapshots,
\* forks and syncs leave no gap, and a pool that outlives them cannot replay.
THEOREM NoncesAlwaysInSequence == Spec => [](restarts = 0 => NoncesInSequence)
<1>1. Init => (restarts = 0 => NoncesInSequence)
  <2> SUFFICES ASSUME Init PROVE NoncesInSequence
    OBVIOUS
  <2>1. chain = <<Genesis>> /\ ledger = Replay(<<Genesis>>) /\ RebuildOK(<<Genesis>>)
    BY GenesisReplay DEF Init
  <2>2. <<Genesis>> \in Seq(Block) /\ Len(<<Genesis>>) > 0
    BY NodeAssumption
  <2>3. QED
    BY <2>1, <2>2, InSequenceReplay DEF NoncesInSequence
<1>2. IInv /\ IInv' /\ [Next]_vars /\ (restarts = 0 => NoncesInSequence)
        => (restarts = 0 => NoncesInSequence)'
  BY FirstRunStep, InSequenceStep
<1> QED
  BY <1>1, <1>2, InductiveInvariant, PTL DEF Spec

\* Nonces in sequence leave no room for a transaction included twice.
LEMMA SequenceIncludesOnce ==
  ASSUME ChainInv, NoncesInSequence
  PROVE  NeverIncludedTwice
<1> SUFFICES ASSUME NEW a \in Address, NEW p \in SentBy(a, chain), NEW q \in SentBy(a, chain),
                    NonceAt(chain, p) = NonceAt(chain, q)
             PROVE  p = q
  BY DEF NeverIncludedTwice
<1>1. \A x \in SentBy(a, chain) : \E i \in Nat, k \in Nat : x = <<i, k>>
  <2>1. ASSUME NEW x \in SentBy(a, chain)
        PROVE  \E i \in 1 .. Len(chain) : \E k \in 1 .. Len(chain[i].txs) : x = <<i, k>>
    BY DEF SentBy
  <2>2. QED
    BY <2>1
<1>2. p = q \/ Earlier(p, q) \/ Earlier(q, p)
  BY <1>1 DEF Earlier
<1>3. NonceAt(chain, p) \in 1 .. ledger.accounts[a].nonce
  BY DEF NoncesInSequence, InSequence
<1>4. ~Earlier(p, q) /\ ~Earlier(q, p)
  <2>1. ~(NonceAt(chain, p) < NonceAt(chain, q)) /\ ~(NonceAt(chain, q) < NonceAt(chain, p))
    BY <1>3
  <2>2. QED
    BY <2>1 DEF NoncesInSequence, InSequence
<1> QED
  BY <1>2, <1>4

\* While the process runs no transaction is in the chain twice; after a stop in
\* the middle of a save one can be (the TornSave run).
THEOREM IncludedOnce == Spec => [](restarts = 0 => NeverIncludedTwice)
<1>1. IInv /\ (restarts = 0 => NoncesInSequence) => (restarts = 0 => NeverIncludedTwice)
  BY SequenceIncludesOnce DEF IInv
<1> QED
  BY <1>1, InductiveInvariant, NoncesAlwaysInSequence, PTL

(***************************************************************************)
(* The ledger and the chain's replay                                        *)
(***************************************************************************)
\* What blocks mint where their rewards fit is an integer, and a block adds its own.
LEMMA IssuedAppend ==
  ASSUME NEW c \in Seq(Block), NEW b \in Block
  PROVE  /\ Issued(c) \in Int /\ PaidIn(b) \in Nat
         /\ Issued(Append(c, b)) = Issued(c) + PaidIn(b)
         /\ c = << >> => Issued(c) = FounderAllocation
         /\ WithinCap(Append(c, b)) <=> WithinCap(c) /\ Issued(c) + b.reward <= Cap
<1> DEFINE N == Len(c)
           d == Append(c, b)
           C(n) == [k \in 1 .. n |-> PaidIn(c[k])]
           D(n) == [k \in 1 .. n |-> PaidIn(d[k])]
<1>1. N \in Nat /\ Len(d) = N+1 /\ d[N+1] = b /\ (\A i \in 1 .. N : d[i] = c[i] /\ c[i] \in Block)
  BY AppendFacts
<1>2. \A x \in Block : PaidIn(x) \in Nat
  BY BlockFields DEF PaidIn
<1>3. /\ \A i : IssuedBefore(c, i) = FounderAllocation + Sum(C(i-1), 1 .. i-1)
      /\ \A i : IssuedBefore(d, i) = FounderAllocation + Sum(D(i-1), 1 .. i-1)
  BY DEF IssuedBefore, Sum, SumFunction
<1>4. \A i \in 1 .. N+1 : C(i-1) = D(i-1)
  BY <1>1
<1>5. \A i \in 1 .. N : C(N)[i] \in Int /\ D(N+1)[i] = C(N)[i]
  BY <1>1, <1>2
<1>6. D(N+1)[N+1] = PaidIn(b) /\ D(N+1)[N+1] \in Int
  BY <1>1, <1>2
<1>7. (N+1)-1 = N /\ (N+2)-1 = N+1 /\ Issued(c) = IssuedBefore(c, N+1)
      /\ Issued(d) = IssuedBefore(d, N+2)
  BY <1>1 DEF Issued
<1> HIDE DEF C, D, d
<1>8. Sum(D(N+1), 1 .. N+1) = Sum(C(N), 1 .. N) + D(N+1)[N+1] /\ Sum(C(N), 1 .. N) \in Int
  <2> DEFINE f == C(N)
             e == D(N+1)
  <2> HIDE DEF f, e, N
  <2>1. Sum(e, 1 .. N+1) = Sum(f, 1 .. N) + e[N+1] /\ Sum(f, 1 .. N) \in Int
    BY <1>1, <1>5, <1>6, SumNext DEF f, e
  <2>2. QED
    BY <2>1 DEF f, e
<1>9. c = << >> => Sum(C(N), 1 .. N) = 0
  <2>1. c = << >> => 1 .. N = {}
    OBVIOUS
  <2> HIDE DEF N
  <2>2. Sum(C(N), {}) = 0
    BY SumTake, FS_EmptySet
  <2>3. QED
    BY <2>1, <2>2
<1>10. FounderAllocation \in Int /\ PaidIn(b) \in Nat
  BY <1>2, LedgerAssumption
<1> HIDE DEF N
<1>11. Issued(c) = FounderAllocation + Sum(C(N), 1 .. N)
  BY <1>3, <1>7
<1>12. Issued(d) = FounderAllocation + Sum(D(N+1), 1 .. N+1)
  BY <1>3, <1>7
<1>13. /\ Issued(c) \in Int /\ Issued(d) = Issued(c) + PaidIn(b)
       /\ c = << >> => Issued(c) = FounderAllocation
  BY <1>6, <1>8, <1>9, <1>10, <1>11, <1>12
<1>14. \A i \in 1 .. N+1 : IssuedBefore(d, i) = IssuedBefore(c, i)
  BY <1>3, <1>4
<1>15. WithinCap(d) <=> WithinCap(c) /\ Issued(c) + b.reward <= Cap
  <2>1. ASSUME WithinCap(d)  PROVE WithinCap(c) /\ Issued(c) + b.reward <= Cap
    <3>1. \A i \in 1 .. N+1 : IssuedBefore(c, i) + d[i].reward <= Cap
      BY <1>1, <1>14, <2>1 DEF WithinCap
    <3>2. N+1 \in 1 .. N+1 /\ \A i \in 1 .. N : i \in 1 .. N+1
      BY <1>1
    <3>3. \A i \in 1 .. N : IssuedBefore(c, i) + c[i].reward <= Cap
      BY <1>1, <3>1, <3>2
    <3>4. IssuedBefore(c, N+1) + b.reward <= Cap
      BY <1>1, <3>1, <3>2
    <3>5. QED
      BY <1>7, <3>3, <3>4 DEF WithinCap, N
  <2>2. ASSUME WithinCap(c), Issued(c) + b.reward <= Cap  PROVE WithinCap(d)
    <3>1. \A i \in 1 .. N : IssuedBefore(c, i) + c[i].reward <= Cap
      BY <2>2 DEF WithinCap, N
    <3>2. ASSUME NEW i \in 1 .. N+1  PROVE IssuedBefore(d, i) + d[i].reward <= Cap
      <4>1. CASE i = N+1
        BY <1>1, <1>7, <1>14, <2>2, <4>1
      <4>2. CASE i # N+1
        <5>1. i \in 1 .. N
          BY <1>1, <4>2
        <5>2. QED
          BY <1>1, <1>14, <3>1, <5>1
      <4>3. QED
        BY <4>1, <4>2
    <3>3. QED
      BY <1>1, <3>2 DEF WithinCap
  <2>3. QED
    BY <2>1, <2>2
<1> QED
  BY <1>10, <1>13, <1>15 DEF d

\* Where the rewards of a chain fit, what it mints does.
LEMMA WithinCapIssues ==
  ASSUME NEW c \in Seq(Block), WithinCap(c)
  PROVE  Issued(c) <= Cap
<1> DEFINE T == {d \in Seq(Block) : WithinCap(d) => Issued(d) <= Cap}
<1>1. << >> \in T
  <2>1. Genesis \in Block /\ << >> \in Seq(Block)
    BY NodeAssumption
  <2>2. Issued(<< >>) = FounderAllocation
    BY <2>1, IssuedAppend
  <2>3. QED
    BY <2>1, <2>2, LedgerAssumption
<1>2. ASSUME NEW d \in Seq(Block), NEW b \in Block, d \in T  PROVE Append(d, b) \in T
  <2>1. /\ Issued(d) \in Int /\ Issued(Append(d, b)) = Issued(d) + PaidIn(b)
        /\ WithinCap(Append(d, b)) <=> WithinCap(d) /\ Issued(d) + b.reward <= Cap
    BY IssuedAppend
  <2>2. b.reward \in Int /\ PaidIn(b) \in {0, b.reward}
    BY BlockFields DEF PaidIn
  <2>3. ASSUME WithinCap(Append(d, b))  PROVE Issued(Append(d, b)) <= Cap
    <3>1. Issued(d) <= Cap /\ Issued(d) + b.reward <= Cap
      BY <1>2, <2>1, <2>3
    <3>2. QED
      BY <2>1, <2>2, <3>1, LedgerAssumption
  <2>4. Append(d, b) \in Seq(Block)
    BY AppendFacts
  <2>5. QED
    BY <2>3, <2>4
<1> HIDE DEF T
<1>3. c \in T
  BY <1>1, <1>2, ChainInduct
<1> QED
  BY <1>3 DEF T

\* A reward that fits is paid in full.
LEMMA PaidInFull ==
  ASSUME NEW led \in LedgerType, NEW b \in Block, led.minted + PaidIn(b) <= Cap
  PROVE  Paid(led, b.miner, b.reward) = PaidIn(b)
<1>1. led.minted \in Int /\ b.reward \in Int
  BY LedgerFields, BlockFields
<1>2. CASE b.reward <= 0 \/ b.miner = Nobody
  BY <1>2 DEF Paid, PaidIn
<1>3. CASE ~(b.reward <= 0 \/ b.miner = Nobody)
  <2>1. PaidIn(b) = b.reward
    BY <1>3 DEF PaidIn
  <2>2. ~(b.reward > Cap - led.minted)
    BY <1>1, <2>1, LedgerAssumption
  <2>3. QED
    BY <1>3, <2>1, <2>2 DEF Paid
<1> QED
  BY <1>2, <1>3

\* A chain whose blocks mint no more than the cap replays to what they mint.
LEMMA ReplayedMints ==
  ASSUME NEW c \in Seq(Block), NEW f \in Address, Founder(c, f) = f, Issued(c) <= Cap
  PROVE  Replayed(c, f).minted = Issued(c)
<1> DEFINE T == {d \in Seq(Block) : Founder(d, f) = f /\ Issued(d) <= Cap
                                       => Replayed(d, f).minted = Issued(d)}
<1>1. << >> \in T
  <2>1. Genesis \in Block /\ << >> \in Seq(Block)
    BY NodeAssumption
  <2>2. Issued(<< >>) = FounderAllocation
    BY <2>1, IssuedAppend
  <2>3. Replayed(<< >>, f).minted = FounderAllocation
    BY DEF Replayed, GenesisLedger
  <2>4. QED
    BY <2>1, <2>2, <2>3
<1>2. ASSUME NEW d \in Seq(Block), NEW b \in Block, d \in T  PROVE Append(d, b) \in T
  <2> SUFFICES ASSUME Founder(Append(d, b), f) = f, Issued(Append(d, b)) <= Cap
               PROVE  Replayed(Append(d, b), f).minted = Issued(Append(d, b))
    BY AppendFacts
  <2> DEFINE led == Replayed(d, f)
  <2>1. Founder(d, f) = f /\ led \in LedgerType /\ Replayed(Append(d, b), f) = ApplyBlock(led, b)
    BY ReplayedAppend
  <2>2. /\ Issued(d) \in Int /\ PaidIn(b) \in Nat
        /\ Issued(Append(d, b)) = Issued(d) + PaidIn(b)
    BY IssuedAppend
  <2>3. led.minted = Issued(d)
    BY <1>2, <2>1, <2>2, LedgerAssumption
  <2> HIDE DEF led
  <2>4. Paid(led, b.miner, b.reward) = PaidIn(b)
    BY <2>1, <2>2, <2>3, PaidInFull
  <2>5. QED
    BY <2>1, <2>2, <2>3, <2>4, BlockTotal
<1> HIDE DEF T
<1>3. c \in T
  BY <1>1, <1>2, ChainInduct
<1> QED
  BY <1>3 DEF T

\* The same of a chain that has a block.
LEMMA ReplayMints ==
  ASSUME NEW c \in Seq(Block), Len(c) > 0, Issued(c) <= Cap
  PROVE  Replay(c).minted = Issued(c)
<1>1. c[1].founder \in Address /\ c # << >>
  <2>1. c[1] \in Block
    OBVIOUS
  <2>2. QED
    BY <2>1, BlockFields
<1> QED
  BY <1>1, ReplayedMints DEF Replayed, Founder

\* In a chain that rebuilds every declared reward fits.
LEMMA RebuildMints ==
  ASSUME NEW c \in Seq(Block), Len(c) > 0, RebuildOK(c)
  PROVE  WithinCap(c)
<1> DEFINE T == {d \in Seq(Block) :
                   \A f \in Address :
                     Founder(d, f) = f /\ (d # << >> => RebuildOK(d)) => WithinCap(d)}
<1>1. << >> \in T
  BY DEF WithinCap
<1>2. ASSUME NEW d \in Seq(Block), NEW b \in Block, d \in T  PROVE Append(d, b) \in T
  <2> SUFFICES ASSUME NEW f \in Address, Founder(Append(d, b), f) = f, RebuildOK(Append(d, b))
               PROVE  WithinCap(Append(d, b))
    <3>1. Append(d, b) \in Seq(Block) /\ Append(d, b) # << >>
      BY AppendNotEmpty, AppendFacts
    <3>2. QED
      BY <3>1
  <2>1. Founder(d, f) = f
    BY ReplayedAppend
  <2>2. ContentOK(Replayed(d, f), b) /\ (d # << >> => RebuildOK(d))
    BY RebuildBefore
  <2>3. WithinCap(d)
    BY <1>2, <2>1, <2>2
  <2>4. Replayed(d, f).minted = Issued(d)
    BY <2>1, <2>3, WithinCapIssues, ReplayedMints
  <2>5. QED
    BY <2>2, <2>3, <2>4, IssuedAppend DEF ContentOK
<1>3. c \in T
  <2> HIDE DEF T
  <2>1. QED BY <1>1, <1>2, ChainInduct
<1>4. c[1].founder \in Address /\ c # << >>
  <2>1. c[1] \in Block
    OBVIOUS
  <2>2. QED
    BY <2>1, BlockFields
<1> QED
  BY <1>3, <1>4 DEF Founder

\* With regular amounts, accounts with the same nonces and no less money verify the
\* same list.
LEMMA TxsOKRicher ==
  ASSUME NEW x \in Accounts, NEW y \in Accounts, NEW txs \in Seq(Tx),
         SameNonces(x, y), NoRicher(x, y), TxsOK(x, txs), AmountsRegular
  PROVE  TxsOK(y, txs)
<1> SUFFICES ASSUME NEW i \in 1 .. Len(txs)
             PROVE  TxOK(Run(y, txs)[i-1], txs[i])
  BY DEF TxsOK
<1> DEFINE X == Run(x, txs)[i-1]
           Y == Run(y, txs)[i-1]
           tx == txs[i]
<1>1. i-1 \in 0 .. Len(txs) /\ tx \in Tx
  <2>1. Len(txs) \in Nat
    OBVIOUS
  <2>2. QED
    BY <2>1
<1>2. X \in Accounts /\ Y \in Accounts
  BY <1>1, RunRecursion
<1>3. SameNonces(X, Y) /\ NoRicher(X, Y)
  BY <1>1, RunKeeps
<1>4. TxOK(X, tx)
  BY DEF TxsOK
<1> HIDE DEF X, Y, tx
<1>5. /\ tx.from \in Address /\ Cost(tx) \in Int
      /\ X[tx.from].balance \in Int /\ Y[tx.from].balance \in Int
      /\ X[tx.from].nonce = Y[tx.from].nonce
      /\ X[tx.from].balance <= Y[tx.from].balance
  <2>1. tx.from \in Address /\ tx.from \in Address \ Debtor /\ Cost(tx) \in Int
    BY <1>1, TxFields DEF AmountsRegular
  <2>2. QED
    BY <1>2, <1>3, <2>1 DEF Accounts, Account, SameNonces, NoRicher
<1>6. tx.nonce = Y[tx.from].nonce + 1 /\ Y[tx.from].balance >= Cost(tx)
  BY <1>4, <1>5 DEF TxOK
<1>7. TxOK(Y, tx)
  BY <1>6 DEF TxOK
<1> QED
  BY <1>7 DEF Y, tx

\* A block treats two ledgers alike; a poorer ledger stays the poorer one when
\* both pay the same of the reward.
LEMMA ApplyBlockKeeps ==
  ASSUME NEW x \in LedgerType, NEW y \in LedgerType, NEW b \in Block, SameAccounts(x, y)
  PROVE  /\ SameAccounts(ApplyBlock(x, b), ApplyBlock(y, b))
         /\ NoMore(x, y) /\ Paid(x, b.miner, b.reward) = Paid(y, b.miner, b.reward)
              => NoMore(ApplyBlock(x, b), ApplyBlock(y, b))
<1> DEFINE X == DistributeRewards(x, b.miner, b.reward)
           Y == DistributeRewards(y, b.miner, b.reward)
           N == Len(b.txs)
<1>1. b.miner \in Address /\ b.reward \in Int /\ b.txs \in Seq(Tx) /\ N \in 0 .. N
  <2>1. b.miner \in Address /\ b.reward \in Int /\ b.txs \in Seq(Tx)
    BY BlockFields
  <2>2. N \in Nat
    BY <2>1
  <2>3. QED
    BY <2>1, <2>2
<1>2. Rewarded(x, X, b) /\ Rewarded(y, Y, b)
  BY BlockRewarded
<1>3. /\ ApplyBlock(x, b).accounts = Run(X.accounts, b.txs)[N]
      /\ ApplyBlock(y, b).accounts = Run(Y.accounts, b.txs)[N]
      /\ ApplyBlock(x, b).minted = X.minted /\ ApplyBlock(y, b).minted = Y.minted
  BY DEF ApplyBlock
<1>4. /\ x.accounts \in Accounts /\ y.accounts \in Accounts
      /\ x.minted \in Int /\ y.minted \in Int
      /\ X.accounts \in Accounts /\ Y.accounts \in Accounts
  BY <1>2, LedgerFields DEF Rewarded
<1> HIDE DEF X, Y, N
<1> USE DEF Rewarded
<1>5. SameNonces(X.accounts, Y.accounts) /\ SameExists(X.accounts, Y.accounts)
  <2>1. \A a \in Address : X.accounts[a].exists \in BOOLEAN /\ Y.accounts[a].exists \in BOOLEAN
    BY <1>4 DEF Accounts, Account
  <2>2. QED
    BY <1>2, <2>1 DEF SameNonces, SameExists, SameAccounts
<1>6. /\ SameNonces(ApplyBlock(x, b).accounts, ApplyBlock(y, b).accounts)
      /\ SameExists(ApplyBlock(x, b).accounts, ApplyBlock(y, b).accounts)
  BY <1>1, <1>3, <1>4, <1>5, RunKeeps DEF N
<1>7. SameAccounts(ApplyBlock(x, b), ApplyBlock(y, b))
  BY <1>6 DEF SameNonces, SameExists, SameAccounts
<1>8. ASSUME NoMore(x, y), Paid(x, b.miner, b.reward) = Paid(y, b.miner, b.reward)
      PROVE  NoMore(ApplyBlock(x, b), ApplyBlock(y, b))
  <2> DEFINE paid == Paid(x, b.miner, b.reward)
  <2>1. paid \in Int /\ paid = Paid(y, b.miner, b.reward)
    BY <1>2, <1>8
  <2>2. ASSUME NEW a \in Address \ Debtor
        PROVE  X.accounts[a].balance <= Y.accounts[a].balance
    <3> DEFINE got == IF a = b.miner THEN paid ELSE 0
    <3>1. /\ x.accounts[a].balance \in Int /\ y.accounts[a].balance \in Int
          /\ x.accounts[a].balance <= y.accounts[a].balance
      BY <1>4, <1>8 DEF Accounts, Account, NoMore
    <3>2. /\ X.accounts[a].balance = x.accounts[a].balance + got
          /\ Y.accounts[a].balance = y.accounts[a].balance + got
      BY <1>2, <2>1
    <3>3. got \in Int
      BY <2>1
    <3> HIDE DEF got, paid
    <3>4. QED
      BY <3>1, <3>2, <3>3
  <2>3. NoRicher(ApplyBlock(x, b).accounts, ApplyBlock(y, b).accounts)
    <3>1. NoRicher(X.accounts, Y.accounts)
      BY <2>2 DEF NoRicher
    <3>2. QED
      BY <1>1, <1>3, <1>4, <3>1, RunKeeps DEF N
  <2>4. AmountsRegular => ApplyBlock(x, b).minted <= ApplyBlock(y, b).minted
    <3>1. AmountsRegular => x.minted <= y.minted
      BY <1>8 DEF NoMore
    <3>2. X.minted = x.minted + paid /\ Y.minted = y.minted + paid
      BY <1>2, <2>1
    <3> HIDE DEF paid
    <3>3. QED
      BY <1>3, <1>4, <2>1, <3>1, <3>2
  <2>5. QED
    BY <2>3, <2>4 DEF NoMore, NoRicher
<1> QED
  BY <1>7, <1>8

\* The ledger is within the chain's replay, which with regular amounts fails only
\* where a reward does not fit.
Follows(led, c) ==
  /\ SameAccounts(led, Replay(c))
  /\ Issued(c) <= Cap => NoMore(led, Replay(c))
  /\ AmountsRegular => (RebuildOK(c) <=> WithinCap(c))

\* A block verified on the ledger, poorer than the replay by the penalties,
\* verifies on the replay too, unless its reward does not fit there.
LEMMA FollowsAppend ==
  ASSUME NEW c \in Seq(Block), Len(c) > 0, NEW b \in Block, NEW led \in LedgerType,
         Accepted(led, LastOf(c), b), Follows(led, c)
  PROVE  Follows(ApplyBlock(led, b), Append(c, b))
<1> DEFINE d == Append(c, b)
           old == Replay(c)
<1>1. old \in LedgerType /\ Replay(d) = ApplyBlock(old, b)
  BY ReplayType, ReplayAppend
<1>2. /\ Issued(c) \in Int /\ PaidIn(b) \in Nat /\ Issued(d) = Issued(c) + PaidIn(b)
      /\ WithinCap(d) <=> WithinCap(c) /\ Issued(c) + b.reward <= Cap
      /\ b.reward \in Int /\ b.txs \in Seq(Tx)
  BY IssuedAppend, BlockFields
<1>3. d \in Seq(Block) /\ Len(d) > 0
  BY AppendFacts
<1>4. SameAccounts(led, old)
  BY DEF Follows
<1>5. /\ led.minted + b.reward <= Cap /\ TxsOK(led.accounts, b.txs)
      /\ Extends(LastOf(c), b) /\ SendersExist(led, b)
  BY DEF Accepted, BlockOK, ContentOK
<1> HIDE DEF d
<1>6. SameAccounts(ApplyBlock(led, b), Replay(d))
  BY <1>1, <1>4, ApplyBlockKeeps
<1>7. ASSUME Issued(d) <= Cap  PROVE NoMore(ApplyBlock(led, b), Replay(d))
  <2>1. Issued(c) <= Cap
    BY <1>2, <1>7, LedgerAssumption
  <2>2. NoMore(led, old) /\ old.minted = Issued(c)
    BY <2>1, ReplayMints DEF Follows
  <2>3. Paid(old, b.miner, b.reward) = PaidIn(b)
    BY <1>1, <1>2, <1>7, <2>2, PaidInFull
  <2>4. Paid(led, b.miner, b.reward) = PaidIn(b)
    BY <1>5, BlockRewarded DEF Rewarded
  <2>5. QED
    BY <1>1, <1>4, <2>2, <2>3, <2>4, ApplyBlockKeeps
<1>8. ASSUME AmountsRegular, WithinCap(d)  PROVE RebuildOK(d)
  <2>1. WithinCap(c) /\ Issued(c) + b.reward <= Cap
    BY <1>2, <1>8
  <2>2. Issued(c) <= Cap
    BY <2>1, WithinCapIssues
  <2>3. NoMore(led, old) /\ RebuildOK(c) /\ old.minted = Issued(c)
    BY <1>8, <2>1, <2>2, ReplayMints DEF Follows
  <2>4. old.minted + b.reward <= Cap
    BY <2>1, <2>3
  <2>5. TxsOK(old.accounts, b.txs)
    <3>1. led.accounts \in Accounts /\ old.accounts \in Accounts
      BY <1>1, LedgerFields
    <3>2. SameNonces(led.accounts, old.accounts) /\ NoRicher(led.accounts, old.accounts)
      BY <1>4, <2>3 DEF SameAccounts, NoMore, SameNonces, NoRicher
    <3>3. QED
      BY <1>2, <1>5, <1>8, <3>1, <3>2, TxsOKRicher
  <2>6. Applies(old, b)
    <3>1. SendersExist(old, b)
      <4>1. \A i \in 1 .. Len(b.txs) : b.txs[i].from \in Address
        BY BlockFields, TxFields
      <4>2. QED
        BY <1>4, <1>5, <4>1 DEF SameAccounts, SendersExist
    <3>2. QED
      BY <1>1, <3>1, SendersApply
  <2>7. BlockOK(old, LastOf(c), b)
    BY <1>5, <2>4, <2>5 DEF BlockOK, ContentOK
  <2>8. QED
    BY <2>3, <2>6, <2>7, RebuildAppend DEF d
<1>9. RebuildOK(d) => WithinCap(d)
  BY <1>3, RebuildMints
<1> QED
  BY <1>6, <1>7, <1>8, <1>9 DEF Follows, d

\* A rebuilt ledger follows its chain.
LEMMA FollowsReplay ==
  ASSUME NEW c \in Seq(Block), Len(c) > 0, RebuildOK(c)
  PROVE  Follows(Replay(c), c)
<1>1. SameAccounts(Replay(c), Replay(c))
  BY DEF SameAccounts
<1>2. NoMore(Replay(c), Replay(c))
  BY ReplayType DEF NoMore, LedgerType, Account
<1> QED
  BY <1>1, <1>2, RebuildMints DEF Follows

\* Marking blocks final changes no replayed ledger.
LEMMA MarkedLedgers ==
  ASSUME NEW c \in Seq(Block), NEW d \in Seq(Block), Len(c) > 0, Marked(c, d)
  PROVE  \A i \in 0 .. Len(c) : Ledgers(d)[i] = Ledgers(c)[i]
<1> DEFINE N == Len(c)
           S == {i \in 0 .. N : Ledgers(d)[i] = Ledgers(c)[i]}
<1>1. /\ N \in Nat /\ N > 0 /\ Len(d) = N /\ Len(d) > 0
      /\ \A i \in 1 .. N : /\ d[i].txs = c[i].txs /\ d[i].miner = c[i].miner
                           /\ d[i].reward = c[i].reward /\ d[i].founder = c[i].founder
  BY DEF Marked
<1>2. /\ Ledgers(c)[0] = GenesisLedger(c[1].founder)
      /\ \A i \in 1 .. N : Ledgers(c)[i] = ApplyBlock(Ledgers(c)[i-1], c[i])
  BY LedgersRecursion
<1>3. /\ Ledgers(d)[0] = GenesisLedger(d[1].founder)
      /\ \A i \in 1 .. N : Ledgers(d)[i] = ApplyBlock(Ledgers(d)[i-1], d[i])
  BY <1>1, LedgersRecursion
<1>4. \A led : \A i \in 1 .. N : ApplyBlock(led, d[i]) = ApplyBlock(led, c[i])
  BY <1>1 DEF ApplyBlock
<1> HIDE DEF N
<1>5. 0 \in S
  <2>1. 1 \in 1 .. N /\ 0 \in 0 .. N
    BY <1>1
  <2>2. QED
    BY <1>1, <1>2, <1>3, <2>1
<1>6. ASSUME NEW n \in 0 .. N-1, n \in S  PROVE n+1 \in S
  <2>1. n+1 \in 1 .. N /\ (n+1)-1 = n /\ n+1 \in 0 .. N
    BY <1>1
  <2>2. Ledgers(d)[n+1] = ApplyBlock(Ledgers(d)[n], d[n+1])
    BY <1>3, <2>1
  <2>3. Ledgers(c)[n+1] = ApplyBlock(Ledgers(c)[n], c[n+1])
    BY <1>2, <2>1
  <2>4. QED
    BY <1>4, <1>6, <2>1, <2>2, <2>3
<1>7. 0 .. N \subseteq S
  <2> HIDE DEF S
  <2>1. QED
    BY <1>1, <1>5, <1>6, UpToInduct
<1> QED
  BY <1>7 DEF N

\* Nor whether the ledger follows the chain.
LEMMA FollowsMarked ==
  ASSUME NEW c \in Seq(Block), NEW d \in Seq(Block), Len(c) > 0, Marked(c, d),
         NEW led, Follows(led, c)
  PROVE  Follows(led, d)
<1>1. /\ Len(c) \in Nat /\ Len(d) = Len(c)
      /\ \A i \in 1 .. Len(c) :
           /\ d[i].txs = c[i].txs /\ d[i].reward = c[i].reward /\ d[i].miner = c[i].miner
           /\ d[i].index = c[i].index /\ d[i].hash = c[i].hash /\ d[i].prev = c[i].prev
  BY DEF Marked
<1>2. \A i \in 0 .. Len(c) : Ledgers(d)[i] = Ledgers(c)[i]
  BY MarkedLedgers
<1>3. Replay(d) = Replay(c)
  BY <1>1, <1>2 DEF Replay
<1>4. Issued(d) = Issued(c) /\ (WithinCap(d) <=> WithinCap(c))
  <2>1. \A i \in 1 .. Len(c) : PaidIn(d[i]) = PaidIn(c[i])
    BY <1>1 DEF PaidIn
  <2>2. ASSUME NEW n \in 1 .. Len(c) + 1  PROVE IssuedBefore(d, n) = IssuedBefore(c, n)
    <3>1. \A k \in 1 .. n - 1 : k \in 1 .. Len(c)
      BY <1>1
    <3>2. [k \in 1 .. n - 1 |-> PaidIn(d[k])] = [k \in 1 .. n - 1 |-> PaidIn(c[k])]
      BY <2>1, <3>1
    <3>3. QED
      BY <3>2 DEF IssuedBefore
  <2>3. Len(c) + 1 \in 1 .. Len(c) + 1 /\ \A i \in 1 .. Len(c) : i \in 1 .. Len(c) + 1
    BY <1>1
  <2>4. Issued(d) = Issued(c)
    BY <1>1, <2>2, <2>3 DEF Issued
  <2>5. \A i \in 1 .. Len(c) :
          IssuedBefore(d, i) = IssuedBefore(c, i) /\ d[i].reward = c[i].reward
    BY <1>1, <2>2, <2>3
  <2>6. WithinCap(d) <=> WithinCap(c)
    BY <1>1, <2>5 DEF WithinCap
  <2>7. QED
    BY <2>4, <2>6
<1>5. RebuildOK(d) <=> RebuildOK(c)
  <2>1. ContentOK(Ledgers(d)[0], d[1]) <=> ContentOK(Ledgers(c)[0], c[1])
    <3>1. 1 \in 1 .. Len(c) /\ 0 \in 0 .. Len(c)
      BY <1>1
    <3>2. QED
      BY <1>1, <1>2, <3>1 DEF ContentOK
  <2>2. ASSUME NEW i \in 2 .. Len(c)
        PROVE  BlockOK(Ledgers(d)[i-1], d[i-1], d[i]) <=> BlockOK(Ledgers(c)[i-1], c[i-1], c[i])
    <3>1. i \in 1 .. Len(c) /\ i-1 \in 1 .. Len(c) /\ i-1 \in 0 .. Len(c)
      BY <1>1
    <3>2. QED
      BY <1>1, <1>2, <3>1 DEF BlockOK, ContentOK, Extends
  <2>3. ASSUME NEW i \in 1 .. Len(c)
        PROVE  Applies(Ledgers(d)[i-1], d[i]) <=> Applies(Ledgers(c)[i-1], c[i])
    <3>1. i-1 \in 0 .. Len(c)
      BY <1>1
    <3>2. QED
      BY <1>1, <1>2, <3>1 DEF Applies
  <2>4. QED
    BY <1>1, <2>1, <2>2, <2>3 DEF RebuildOK
<1> QED
  BY <1>3, <1>4, <1>5 DEF Follows

\* Within a run the ledger keeps following the chain: a fine takes it further
\* below the replay.
LEMMA FollowsStep ==
  ASSUME IInv, IInv', Within, Follows(ledger, chain)
  PROVE  Follows(ledger', chain')
<1>1. /\ ledger \in LedgerType /\ chain \in Seq(Block) /\ Len(chain) > 0
      /\ ledger' \in LedgerType /\ chain' \in Seq(Block) /\ Len(chain') > 0
  BY DEF IInv, LedgerInv, SoundLedger, ChainInv, Linked
<1>2. CASE Store!Extend
  <2>1. PICK b \in Block : /\ chain' = Append(chain, b) /\ Accepted(ledger, LastOf(chain), b)
                           /\ ledger' = ApplyBlock(ledger, b)
    BY <1>2, ExtendAppends DEF IInv, Recheck
  <2>2. QED
    BY <1>1, <2>1, FollowsAppend
<1>3. CASE Store!Fine
  <2> DEFINE old == Replay(chain)
  <2>1. /\ SameNonces(ledger.accounts, ledger'.accounts)
        /\ SameExists(ledger.accounts, ledger'.accounts)
        /\ NoRicher(ledger'.accounts, ledger.accounts)
        /\ AmountsRegular => ledger'.minted <= ledger.minted
        /\ chain' = chain
    BY <1>3, FineKeeps DEF IInv
  <2>2. /\ ledger.accounts \in Accounts /\ ledger'.accounts \in Accounts
        /\ old.accounts \in Accounts
        /\ ledger.minted \in Int /\ ledger'.minted \in Int /\ old.minted \in Int
    BY <1>1, ReplayType, LedgerFields
  <2> HIDE DEF old
  <2>3. SameAccounts(ledger', old)
    BY <2>1 DEF Follows, SameAccounts, SameNonces, SameExists, old
  <2>4. ASSUME NoMore(ledger, old)  PROVE NoMore(ledger', old)
    <3>1. AmountsRegular => ledger'.minted <= old.minted
      BY <2>1, <2>2, <2>4 DEF NoMore
    <3>2. ASSUME NEW a \in Address \ Debtor
          PROVE  ledger'.accounts[a].balance <= old.accounts[a].balance
      <4>1. /\ ledger.accounts[a].balance \in Int /\ ledger'.accounts[a].balance \in Int
            /\ old.accounts[a].balance \in Int
        BY <2>2 DEF Accounts, Account
      <4>2. QED
        BY <2>1, <2>4, <4>1 DEF NoMore, NoRicher
    <3>3. QED
      BY <3>1, <3>2 DEF NoMore
  <2>5. QED
    BY <2>1, <2>3, <2>4 DEF Follows, old
<1>4. CASE Store!Finalise
  <2>1. Marked(chain, chain') /\ ledger' = ledger
    BY <1>4, FinaliseMarks DEF IInv
  <2>2. QED
    BY <1>1, <2>1, FollowsMarked
<1>5. CASE Store!Install
  BY <1>1, <1>5, FollowsReplay DEF Store!Install
<1>6. CASE UNCHANGED <<chain, ledger>>
  BY <1>6
<1> QED
  BY <1>2, <1>3, <1>4, <1>5, <1>6 DEF Within

\* While the process runs, the ledger follows the chain.
LEMMA AlwaysFollows == Spec => [](restarts = 0 => Follows(ledger, chain))
<1>1. Init => (restarts = 0 => Follows(ledger, chain))
  <2> SUFFICES ASSUME Init PROVE Follows(ledger, chain)
    OBVIOUS
  <2>1. chain = <<Genesis>> /\ ledger = Replay(<<Genesis>>) /\ RebuildOK(<<Genesis>>)
    BY GenesisReplay DEF Init
  <2>2. <<Genesis>> \in Seq(Block) /\ Len(<<Genesis>>) > 0
    BY NodeAssumption
  <2>3. QED
    BY <2>1, <2>2, FollowsReplay
<1>2. IInv /\ IInv' /\ [Next]_vars /\ (restarts = 0 => Follows(ledger, chain))
        => (restarts = 0 => Follows(ledger, chain))'
  BY FirstRunStep, FollowsStep
<1> QED
  BY <1>1, <1>2, InductiveInvariant, PTL DEF Spec

\* While the process runs, the ledger is what the chain replays to, less the
\* penalties, which no block records, unless rewards were paid into room that
\* burns had made.
THEOREM LedgerAlwaysWithinReplay == Spec => [](restarts = 0 => LedgerWithinReplay)
<1>1. (restarts = 0 => Follows(ledger, chain)) => (restarts = 0 => LedgerWithinReplay)
  BY DEF Follows, LedgerWithinReplay
<1> QED
  BY <1>1, AlwaysFollows, PTL

\* With regular amounts, blocks verified on a slashed ledger are accepted by a peer
\* that replays the chain without the penalties, exactly as long as each reward
\* the chain declares fits under the cap there.
THEOREM PeersCanAlwaysRebuild == Spec => [](restarts = 0 => PeersCanRebuild)
<1>1. (restarts = 0 => Follows(ledger, chain)) => (restarts = 0 => PeersCanRebuild)
  BY DEF Follows, PeersCanRebuild
<1> QED
  BY <1>1, AlwaysFollows, PTL
=============================================================================
