------------------------------- MODULE Ledger -------------------------------
(***************************************************************************)
(* The account ledger of package core as pure operators: how a transaction  *)
(* and a block are validated and applied, how rewards and penalties change  *)
(* balances and the minted supply, and how a ledger is rebuilt from blocks. *)
(*                                                                          *)
(* Abstractions.  Amounts are integers in one unit (the code's float64      *)
(* rounding is left out).  An account map is a total function: an address   *)
(* missing from the code's map has exists = FALSE and zero fields, which is *)
(* what Go's map lookup returns.  A block carries no signatures, timestamp, *)
(* difficulty or PoW nonce; its hash is an identity, and its coinbase is    *)
(* the pair (miner, reward).  Transactions are well signed.                 *)
(*                                                                          *)
(* The code checks the sign of no amount, fee or reward, and the fee of a   *)
(* block's transaction against nothing (only the mempool asks for           *)
(* FixedFee), so these are integers here.  Debtor and Fees say which of     *)
(* them occur: a property that needs them to be regular names them.         *)
(***************************************************************************)
EXTENDS Integers, Sequences, FiniteSets

CONSTANTS
  Address,            \* account addresses, with the empty one
  Nobody,             \* the empty address
  Hash,               \* block hashes
  Voter,              \* names that appear in a block's verifications
  Fees,               \* fees that transactions carry
  Debtor,             \* addresses that transactions pay negative amounts to
  Cap,                \* TotalSupplyCap
  FounderAllocation,  \* FounderAllocation
  Fee,                \* FixedFee
  BaseReward,         \* BaseBlockReward
  HalvingInterval     \* HalvingInterval

ASSUME LedgerAssumption ==
  /\ Cap \in Nat /\ FounderAllocation \in Nat /\ FounderAllocation <= Cap
  /\ Fee \in Nat /\ BaseReward \in Nat
  /\ HalvingInterval \in Nat \ {0}

ASSUME DataAssumption ==
  Nobody \in Address /\ Fees \subseteq Int /\ Debtor \subseteq Address

\* An address is a string that fits in memory: there are finitely many, so what
\* all accounts hold together is a number.
ASSUME AddressAssumption == IsFiniteSet(Address)

\* One transaction; id ranks transactions the way their ID strings compare.
Tx == {tx \in [id : Nat, from : Address, to : Address, amount : Int, fee : Fees,
               nonce : Nat, ts : Nat] : tx.amount < 0 => tx.to \in Debtor}

\* votes: the peers whose accepting verification the block carries.
\* founder: whom its first transaction pays; a chain's first block names the founder so.
Block == [hash : Hash, prev : Hash, index : Nat, miner : Address, reward : Int,
          founder : Address, txs : Seq(Tx), votes : SUBSET Voter, final : BOOLEAN]

Account == [exists : BOOLEAN, balance : Int, nonce : Nat]

LedgerType == [accounts : [Address -> Account], minted : Int]

NoAccount == [exists |-> FALSE, balance |-> 0, nonce |-> 0]

LastOf(c) == c[Len(c)]

(***************************************************************************)
(* Transactions                                                             *)
(***************************************************************************)
\* Amount and fee as the transaction carries them.
Cost(tx) == tx.amount + tx.fee

\* Mutant: the fee is forgotten in the balance check.
TxOKWithoutFee(accts, tx) ==
  tx.nonce = accts[tx.from].nonce + 1 /\ accts[tx.from].balance >= tx.amount

\* The nonce and balance rule shared by the mempool and block verification.
TxOK(accts, tx) ==
  /\ tx.nonce = accts[tx.from].nonce + 1
  /\ accts[tx.from].balance >= Cost(tx)

\* Mutant: the sender's nonce is not advanced.
ApplyTxKeepingNonce(accts, tx) ==
  LET debited == [accts EXCEPT ![tx.from].balance = @ - Cost(tx)]
  IN  [debited EXCEPT ![tx.to].exists = TRUE, ![tx.to].balance = @ + tx.amount]

\* Debit the sender, then credit the receiver (created when missing).
ApplyTx(accts, tx) ==
  LET sender   == accts[tx.from]
      debited  == [accts EXCEPT ![tx.from] = [sender EXCEPT
                     !.balance = sender.balance - Cost(tx), !.nonce = tx.nonce]]
      receiver == debited[tx.to]
  IN  [debited EXCEPT ![tx.to] = [receiver EXCEPT
         !.exists = TRUE, !.balance = receiver.balance + tx.amount]]

\* Run(accts, txs)[i]: the accounts once the first i transactions are applied.
Run(accts, txs) ==
  LET run[i \in 0 .. Len(txs)] ==
        IF i = 0 THEN accts ELSE ApplyTx(run[i-1], txs[i])
  IN  run

\* Each transaction is valid where the block's order puts it.
TxsOK(accts, txs) ==
  \A i \in 1 .. Len(txs) : TxOK(Run(accts, txs)[i-1], txs[i])

(***************************************************************************)
(* Rewards and penalties                                                    *)
(***************************************************************************)
\* The reward schedule: the base reward halved once per HalvingInterval.
BlockReward(index) ==
  LET halvings == index \div HalvingInterval
      halved[h \in 0 .. halvings] ==
        IF h = 0 THEN BaseReward ELSE halved[h-1] \div 2
  IN  halved[halvings]

\* Credit the miner, capped at the supply that is left; nobody is paid when the
\* block names no miner.
DistributeRewards(ledger, miner, reward) ==
  LET available == Cap - ledger.minted
      paid      == IF reward > available THEN available ELSE reward
      acc       == ledger.accounts[miner]
  IN  IF reward <= 0 \/ miner = Nobody THEN ledger
      ELSE [accounts |-> [ledger.accounts EXCEPT ![miner] =
                            [acc EXCEPT !.exists = TRUE, !.balance = acc.balance + paid]],
            minted   |-> ledger.minted + paid]

\* Mutants: the penalty is not burned; more is burned than was taken.
ApplyPenaltyUnburned(ledger, offender, amount) ==
  LET acc == ledger.accounts[offender]
  IN  IF ~acc.exists \/ amount <= 0 THEN ledger
      ELSE [ledger EXCEPT !.accounts[offender].balance =
              IF amount > @ THEN 0 ELSE @ - amount]

ApplyPenaltyOverburned(ledger, offender, amount) ==
  [ApplyPenaltyUnburned(ledger, offender, amount) EXCEPT
     !.minted = IF @ >= amount THEN @ - amount ELSE @]

\* Slash the offender, capped at its balance, and burn what was taken: from an
\* offender in debt that is a negative amount, which clears the debt.
ApplyPenalty(ledger, offender, amount) ==
  LET acc   == ledger.accounts[offender]
      taken == IF amount > acc.balance THEN acc.balance ELSE amount
  IN  IF ~acc.exists \/ amount <= 0 THEN ledger
      ELSE [accounts |-> [ledger.accounts EXCEPT ![offender] =
                            [acc EXCEPT !.balance = acc.balance - taken]],
            minted   |-> IF ledger.minted >= taken
                         THEN ledger.minted - taken ELSE ledger.minted]

(***************************************************************************)
(* Blocks                                                                   *)
(***************************************************************************)
\* Mutant: only the height is compared.
ExtendsByIndex(last, b) == b.index = last.index + 1

Extends(last, b) == b.index = last.index + 1 /\ b.prev = last.hash

\* What verification asks of a block's contents, whatever the tip is.
ContentOK(ledger, b) ==
  /\ ledger.minted + b.reward <= Cap
  /\ TxsOK(ledger.accounts, b.txs)

BlockOK(ledger, last, b) == Extends(last, b) /\ ContentOK(ledger, b)

\* The check AddBlock makes before it mutates: every sender has an account
\* before the block, even one the block itself would create.
SendersExist(ledger, b) ==
  \A i \in 1 .. Len(b.txs) : ledger.accounts[b.txs[i].from].exists

\* The miner is paid first, then the transactions are applied in order.
ApplyBlock(ledger, b) ==
  LET rewarded == DistributeRewards(ledger, b.miner, b.reward)
  IN  [accounts |-> Run(rewarded.accounts, b.txs)[Len(b.txs)],
       minted   |-> rewarded.minted]

\* The rebuild's check: each sender has an account when its transaction is applied.
Applies(ledger, b) ==
  LET run == Run(DistributeRewards(ledger, b.miner, b.reward).accounts, b.txs)
  IN  \A i \in 1 .. Len(b.txs) : run[i-1][b.txs[i].from].exists

\* The ledger before any block: the founder's allocation.
GenesisLedger(founder) ==
  [accounts |-> [a \in Address |->
                   IF a = founder
                   THEN [exists |-> TRUE, balance |-> FounderAllocation, nonce |-> 0]
                   ELSE NoAccount],
   minted   |-> FounderAllocation]

\* Ledgers(c)[i]: the ledger the blocks c[1..i] rebuild to.
Ledgers(c) ==
  LET led[i \in 0 .. Len(c)] ==
        IF i = 0 THEN GenesisLedger(c[1].founder) ELSE ApplyBlock(led[i-1], c[i])
  IN  led

Replay(c) == Ledgers(c)[Len(c)]

\* Whether the rebuild accepts c; the first block has no predecessor to extend.
RebuildOK(c) ==
  LET led == Ledgers(c)
  IN  /\ ContentOK(led[0], c[1])
      /\ \A i \in 2 .. Len(c) : BlockOK(led[i-1], c[i-1], c[i])
      /\ \A i \in 1 .. Len(c) : Applies(led[i-1], c[i])

\* The block a miner builds on tip last from the pending pool: all of it.
Template(last, ledger, pool, miner, hash) ==
  LET due  == BlockReward(last.index + 1)
      left == Cap - ledger.minted
  IN  [hash |-> hash, prev |-> last.hash, index |-> last.index + 1,
       miner |-> miner, founder |-> miner, txs |-> pool, votes |-> {}, final |-> FALSE,
       reward |-> IF due <= left THEN due ELSE IF left < 0 THEN 0 ELSE left]
=============================================================================
