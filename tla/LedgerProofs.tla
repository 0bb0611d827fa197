---------------------------- MODULE LedgerProofs ----------------------------
(***************************************************************************)
(* Facts about the operators of Ledger, for every value of the constants:   *)
(* the recursive definitions satisfy their equations, applying blocks keeps *)
(* the ledger's type, and in a ledger rebuilt from verified blocks no       *)
(* account is overdrawn but those that transactions bill.                   *)
(***************************************************************************)
EXTENDS Ledger, Induction

Accounts == [Address -> Account]

\* Replacing one account's fields by typed values gives a typed account map.
LEMMA AccountUpdate ==
  ASSUME NEW acc \in Account, NEW x \in Int, NEW n \in Nat
  PROVE  /\ [acc EXCEPT !.balance = x] \in Account
         /\ [acc EXCEPT !.balance = x, !.nonce = n] \in Account
         /\ [acc EXCEPT !.exists = TRUE, !.balance = x] \in Account
         /\ [acc EXCEPT !.exists = TRUE, !.balance = x].balance = x
BY DEF Account

\* The account map after the sender's debit alone, and what it holds.
Debited(accts, tx) ==
  [accts EXCEPT ![tx.from] = [accts[tx.from] EXCEPT
     !.balance = accts[tx.from].balance - Cost(tx), !.nonce = tx.nonce]]

\* The fields of a transaction, and what it costs its sender.
LEMMA TxFields ==
  ASSUME NEW tx \in Tx
  PROVE  /\ tx.from \in Address /\ tx.to \in Address /\ tx.nonce \in Nat
         /\ tx.amount \in Int /\ tx.fee \in Fees /\ tx.fee \in Int
         /\ tx.amount < 0 => tx.to \in Debtor
         /\ Cost(tx) \in Int /\ Cost(tx) = tx.amount + tx.fee
<1>1. /\ tx \in [id : Nat, from : Address, to : Address, amount : Int, fee : Fees,
                nonce : Nat, ts : Nat]
      /\ tx.amount < 0 => tx.to \in Debtor
  BY DEF Tx
<1>2. /\ tx.from \in Address /\ tx.to \in Address /\ tx.nonce \in Nat
      /\ tx.amount \in Int /\ tx.fee \in Fees
  BY <1>1
<1>3. tx.fee \in Int
  BY <1>2, DataAssumption
<1>4. Cost(tx) = tx.amount + tx.fee /\ Cost(tx) \in Int
  BY <1>2, <1>3 DEF Cost
<1> QED
  BY <1>1, <1>2, <1>3, <1>4

\* The fields of a block.
LEMMA BlockFields ==
  ASSUME NEW b \in Block
  PROVE  /\ b.miner \in Address /\ b.reward \in Int /\ b.founder \in Address
         /\ b.txs \in Seq(Tx) /\ Len(b.txs) \in Nat
         /\ \A k \in 1 .. Len(b.txs) : b.txs[k] \in Tx
<1>1. b.txs \in Seq(Tx)
  BY DEF Block
<1>2. Len(b.txs) \in Nat /\ \A k \in 1 .. Len(b.txs) : b.txs[k] \in Tx
  BY <1>1
<1> QED
  BY <1>1, <1>2 DEF Block

\* ApplyTx maps account maps to account maps.
LEMMA ApplyTxType ==
  ASSUME NEW accts \in Accounts, NEW tx \in Tx
  PROVE  Debited(accts, tx) \in Accounts /\ ApplyTx(accts, tx) \in Accounts
<1> DEFINE sender   == accts[tx.from]
           sent     == [sender EXCEPT !.balance = sender.balance - Cost(tx), !.nonce = tx.nonce]
           debited  == Debited(accts, tx)
           receiver == debited[tx.to]
           got      == [receiver EXCEPT !.exists = TRUE, !.balance = receiver.balance + tx.amount]
<1>1. tx.from \in Address /\ tx.to \in Address /\ tx.amount \in Int /\ tx.nonce \in Nat
  BY TxFields
<1>2. sent \in Account
  <2>1. sender \in Account
    BY <1>1 DEF Accounts
  <2>2. sender.balance - Cost(tx) \in Int
    BY <2>1, TxFields DEF Account
  <2>3. QED
    BY <1>1, <2>1, <2>2, AccountUpdate
<1>3. debited = [accts EXCEPT ![tx.from] = sent]
  BY DEF Debited
<1> HIDE DEF sent
<1>4. debited \in Accounts
  BY <1>1, <1>2, <1>3 DEF Accounts
<1>5. got \in Account
  <2>1. receiver \in Account
    BY <1>1, <1>4 DEF Accounts
  <2>2. receiver.balance + tx.amount \in Int
    BY <1>1, <2>1 DEF Account
  <2>3. QED
    BY <2>1, <2>2, AccountUpdate
<1>6. ApplyTx(accts, tx) = [debited EXCEPT ![tx.to] = got]
  BY DEF ApplyTx, Debited
<1> HIDE DEF got, debited
<1>7. ApplyTx(accts, tx) \in Accounts
  BY <1>1, <1>4, <1>5, <1>6 DEF Accounts
<1> QED
  BY <1>4, <1>7 DEF debited

\* What ApplyTx does to each account's fields.
LEMMA ApplyTxFields ==
  ASSUME NEW accts \in Accounts, NEW tx \in Tx, NEW a \in Address
  PROVE  /\ ApplyTx(accts, tx)[a].balance
              = accts[a].balance - (IF a = tx.from THEN Cost(tx) ELSE 0)
                                 + (IF a = tx.to THEN tx.amount ELSE 0)
         /\ ApplyTx(accts, tx)[a].nonce = IF a = tx.from THEN tx.nonce ELSE accts[a].nonce
<1> DEFINE debited == Debited(accts, tx)
<1>1. tx.from \in Address /\ tx.to \in Address /\ tx.amount \in Int /\ tx.nonce \in Nat
  BY TxFields
<1>2. /\ debited[a].balance = accts[a].balance - (IF a = tx.from THEN Cost(tx) ELSE 0)
      /\ debited[a].nonce = IF a = tx.from THEN tx.nonce ELSE accts[a].nonce
  BY <1>1, TxFields DEF Debited, Accounts, Account
<1>3. ApplyTx(accts, tx) = [debited EXCEPT ![tx.to] = [debited[tx.to] EXCEPT
                              !.exists = TRUE, !.balance = debited[tx.to].balance + tx.amount]]
  BY DEF ApplyTx, Debited
<1>4. debited \in Accounts
  BY ApplyTxType
<1> HIDE DEF debited
<1>5. /\ ApplyTx(accts, tx)[a].balance = debited[a].balance + (IF a = tx.to THEN tx.amount ELSE 0)
      /\ ApplyTx(accts, tx)[a].nonce = debited[a].nonce
  BY <1>1, <1>3, <1>4 DEF Accounts, Account
<1> QED
  BY <1>2, <1>5

\* Run satisfies its recursive definition and is a sequence of account maps.
LEMMA RunRecursion ==
  ASSUME NEW accts \in Accounts, NEW txs \in Seq(Tx)
  PROVE  /\ Run(accts, txs) \in [0 .. Len(txs) -> Accounts]
         /\ Run(accts, txs)[0] = accts
         /\ \A i \in 1 .. Len(txs) :
              Run(accts, txs)[i] = ApplyTx(Run(accts, txs)[i-1], txs[i])
<1> DEFINE N == Len(txs)
           step == [p \in Accounts \X (1 .. N) |-> ApplyTx(p[1], txs[p[2]])]
           Body(f) == [i \in 0 .. N |-> IF i = 0 THEN accts ELSE ApplyTx(f[i-1], txs[i])]
           run == Run(accts, txs)
<1>1. N \in Nat /\ \A i \in 1 .. N : txs[i] \in Tx
  OBVIOUS
<1>2. \A s \in Accounts : \A i \in 1 .. N :
        step[<<s, i>>] = ApplyTx(s, txs[i]) /\ step[<<s, i>>] \in Accounts
  BY <1>1, ApplyTxType
<1> HIDE DEF step
<1>3. PICK f \in [0 .. N -> Accounts] :
        f[0] = accts /\ \A i \in 1 .. N : f[i] = step[<<f[i-1], i>>]
  <2>1. N \in Nat /\ Steps(Accounts, N, step)
    BY <1>1, <1>2 DEF Steps
  <2> HIDE DEF N
  <2>2. Solutions(Accounts, accts, N, step) # {}
    BY <2>1, RecursionExists
  <2>3. QED
    BY <2>2 DEF Solutions
<1>4. ASSUME NEW i \in 1 .. N  PROVE f[i] = ApplyTx(f[i-1], txs[i])
  <2>1. f[i-1] \in Accounts
    BY <1>1, <1>3
  <2>2. QED
    BY <1>2, <1>3, <2>1
<1>5. f = Body(f)
  BY <1>1, <1>3, <1>4
<1>6. run = Body(run)
  <2>1. run = CHOOSE g : g = Body(g)
    BY DEF Run
  <2>2. QED
    BY <1>5, <2>1
<1> HIDE DEF run
<1>7. run[0] = accts /\ \A i \in 1 .. N : run[i] = ApplyTx(run[i-1], txs[i])
  BY <1>1, <1>6
<1>8. 0 .. N \subseteq {i \in 0 .. N : run[i] \in Accounts}
  <2> DEFINE S == {i \in 0 .. N : run[i] \in Accounts}
  <2>1. 0 \in S
    BY <1>1, <1>7
  <2>2. ASSUME NEW n \in 0 .. N-1, n \in S  PROVE n+1 \in S
    <3>1. run[n+1] = ApplyTx(run[n], txs[n+1]) /\ txs[n+1] \in Tx
      BY <1>1, <1>7
    <3>2. QED
      BY <2>2, <3>1, ApplyTxType
  <2> HIDE DEF S
  <2>3. QED
    BY <1>1, <2>1, <2>2, UpToInduct DEF S
<1>9. run \in [0 .. N -> Accounts]
  BY <1>6, <1>8
<1> QED
  BY <1>7, <1>9 DEF run

\* Rewards never go negative, whatever the height.
LEMMA BlockRewardType ==
  ASSUME NEW index \in Nat
  PROVE  BlockReward(index) \in Nat
<1> DEFINE N == index \div HalvingInterval
           step == [p \in Nat \X (1 .. N) |-> p[1] \div 2]
           Body(f) == [h \in 0 .. N |-> IF h = 0 THEN BaseReward ELSE f[h-1] \div 2]
           halved == CHOOSE g : g = Body(g)
<1>1. N \in Nat /\ BaseReward \in Nat
  BY LedgerAssumption
<1>2. \A s \in Nat : \A h \in 1 .. N : step[<<s, h>>] = s \div 2 /\ step[<<s, h>>] \in Nat
  OBVIOUS
<1>3. BlockReward(index) = halved[N]
  BY DEF BlockReward
<1> HIDE DEF step, N
<1>4. PICK f \in [0 .. N -> Nat] :
        f[0] = BaseReward /\ \A h \in 1 .. N : f[h] = step[<<f[h-1], h>>]
  <2>1. Solutions(Nat, BaseReward, N, step) # {}
    BY <1>1, <1>2, RecursionExists DEF Steps
  <2>2. QED
    BY <2>1 DEF Solutions
<1>5. f = Body(f)
  <2>1. ASSUME NEW h \in 1 .. N  PROVE f[h] = f[h-1] \div 2
    <3>1. f[h-1] \in Nat
      BY <1>1, <1>4
    <3>2. QED
      BY <1>2, <1>4, <3>1
  <2>2. QED
    BY <1>1, <1>4, <2>1
<1>6. halved = Body(halved)
  BY <1>5
<1> HIDE DEF halved
<1>7. halved[0] = BaseReward /\ \A h \in 1 .. N : halved[h] = halved[h-1] \div 2
  BY <1>1, <1>6
<1>8. 0 .. N \subseteq {h \in 0 .. N : halved[h] \in Nat}
  <2> DEFINE S == {h \in 0 .. N : halved[h] \in Nat}
  <2>1. 0 \in S
    BY <1>1, <1>7
  <2>2. ASSUME NEW n \in 0 .. N-1, n \in S  PROVE n+1 \in S
    <3>1. halved[n+1] = halved[n] \div 2 /\ n+1 \in 0 .. N
      BY <1>1, <1>7
    <3>2. QED
      BY <2>2, <3>1
  <2> HIDE DEF S
  <2>3. QED
    BY <1>1, <2>1, <2>2, UpToInduct DEF S
<1> QED
  BY <1>1, <1>3, <1>8

\* No account is overdrawn that no transaction bills.
Covered(accts) == \A a \in Address \ Debtor : accts[a].balance >= 0

\* A ledger no verified block can break: typed, covered, its supply not negative
\* and, unless there are debts to clear, within the cap.
SoundLedger(led) ==
  /\ led \in LedgerType
  /\ led.minted >= 0
  /\ Debtor = {} => led.minted <= Cap
  /\ Covered(led.accounts)

\* The parts of a typed ledger.
LEMMA LedgerFields ==
  ASSUME NEW led \in LedgerType
  PROVE  led.accounts \in Accounts /\ led.minted \in Int
BY DEF LedgerType, Accounts

\* A ledger made of a typed account map and an integer supply is typed.
LEMMA LedgerMake ==
  ASSUME NEW accts \in Accounts, NEW m \in Int
  PROVE  [accounts |-> accts, minted |-> m] \in LedgerType
BY DEF LedgerType, Accounts

\* What DistributeRewards pays.
Paid(led, miner, reward) ==
  IF reward <= 0 \/ miner = Nobody THEN 0
  ELSE IF reward > Cap - led.minted THEN Cap - led.minted ELSE reward

\* Crediting a reward changes the miner's account and the supply by what is paid:
\* the whole reward, when it is paid at all and the cap leaves room for it.
LEMMA RewardFields ==
  ASSUME NEW led \in LedgerType, NEW miner \in Address, NEW reward \in Int
  PROVE  LET after == DistributeRewards(led, miner, reward)
             paid  == Paid(led, miner, reward)
         IN  /\ after \in LedgerType /\ paid \in Int
             /\ after.minted = led.minted + paid
             /\ \A a \in Address :
                  /\ after.accounts[a].balance
                       = led.accounts[a].balance + (IF a = miner THEN paid ELSE 0)
                  /\ after.accounts[a].nonce = led.accounts[a].nonce
                  /\ after.accounts[a].exists
                       <=> led.accounts[a].exists
                           \/ (a = miner /\ reward > 0 /\ miner # Nobody)
             /\ led.minted + reward <= Cap =>
                  paid = IF reward <= 0 \/ miner = Nobody THEN 0 ELSE reward
<1> DEFINE acc == led.accounts[miner]
           paid == Paid(led, miner, reward)
           credited == [acc EXCEPT !.exists = TRUE, !.balance = acc.balance + paid]
           after == DistributeRewards(led, miner, reward)
           none == reward <= 0 \/ miner = Nobody
<1>1. led.accounts \in Accounts /\ led.minted \in Int /\ acc \in Account
  BY LedgerFields DEF Accounts
<1>2. paid \in Int /\ acc.balance \in Int
  BY <1>1, LedgerAssumption DEF Account, Paid
<1>3. /\ ~none => after = [accounts |-> [led.accounts EXCEPT ![miner] = credited],
                           minted |-> led.minted + paid]
      /\ none => after = led /\ paid = 0
      /\ led.minted + reward <= Cap => paid = IF none THEN 0 ELSE reward
  <2>1. ~none => paid = IF reward > Cap - led.minted THEN Cap - led.minted ELSE reward
    BY DEF Paid
  <2>2. led.minted + reward <= Cap => ~(reward > Cap - led.minted)
    BY <1>1, LedgerAssumption
  <2>3. none => after = led /\ paid = 0
    BY DEF DistributeRewards, Paid
  <2>4. ~none => after = [accounts |-> [led.accounts EXCEPT ![miner] = credited],
                          minted |-> led.minted + paid]
    BY DEF DistributeRewards, Paid
  <2>5. QED
    BY <2>1, <2>2, <2>3, <2>4
<1>4. credited \in Account /\ credited.balance = acc.balance + paid
  <2>1. acc.balance + paid \in Int
    BY <1>2
  <2> HIDE DEF acc, paid
  <2>2. QED
    BY <1>1, <2>1, AccountUpdate
<1>5. credited.nonce = acc.nonce /\ credited.exists = TRUE
  BY <1>1 DEF Account
<1>6. ASSUME NEW a \in Address
      PROVE  led.accounts[a] \in Account /\ led.accounts[a].balance \in Int
  BY <1>1 DEF Accounts, Account
<1>7. none <=> ~(reward > 0 /\ miner # Nobody)
  OBVIOUS
<1> HIDE DEF paid, credited, after, none
<1>8. CASE none
  <2>1. after = led /\ paid = 0
    BY <1>3, <1>8
  <2>2. after \in LedgerType /\ after.minted = led.minted + paid
    BY <1>1, <2>1
  <2>3. ASSUME NEW a \in Address
        PROVE  after.accounts[a].balance
                 = led.accounts[a].balance + (IF a = miner THEN paid ELSE 0)
    BY <1>6, <2>1
  <2>4. \A a \in Address : /\ after.accounts[a].nonce = led.accounts[a].nonce
                           /\ after.accounts[a].exists <=> led.accounts[a].exists
    BY <2>1
  <2>5. QED
    BY <1>2, <1>3, <1>7, <1>8, <2>2, <2>3, <2>4 DEF paid, after, none
<1>9. CASE ~none
  <2>1. [led.accounts EXCEPT ![miner] = credited] \in Accounts
    BY <1>1, <1>4 DEF Accounts
  <2>2. after \in LedgerType
    BY <1>1, <1>2, <1>3, <1>9, <2>1, LedgerMake
  <2>3. after.minted = led.minted + paid
    BY <1>3, <1>9
  <2>4. after.accounts = [led.accounts EXCEPT ![miner] = credited]
    BY <1>3, <1>9
  <2>5. ASSUME NEW a \in Address
        PROVE  /\ after.accounts[a].balance
                    = led.accounts[a].balance + (IF a = miner THEN paid ELSE 0)
               /\ after.accounts[a].nonce = led.accounts[a].nonce
               /\ after.accounts[a].exists <=> led.accounts[a].exists \/ a = miner
    <3>1. CASE a = miner
      BY <1>1, <1>4, <1>5, <2>4, <3>1 DEF Accounts
    <3>2. CASE a # miner
      <4>1. after.accounts[a] = led.accounts[a]
        BY <1>1, <2>4, <3>2 DEF Accounts
      <4>2. QED
        BY <1>6, <3>2, <4>1
    <3>3. QED
      BY <3>1, <3>2
  <2>6. QED
    BY <1>2, <1>3, <1>7, <1>9, <2>2, <2>3, <2>5 DEF paid, after, none
<1> QED
  BY <1>8, <1>9

\* A reward that fits under the cap lowers no balance and no supply, and keeps the
\* supply under the cap.
LEMMA RewardKeeps ==
  ASSUME NEW led \in LedgerType, NEW miner \in Address, NEW reward \in Int,
         led.minted + reward <= Cap
  PROVE  LET after == DistributeRewards(led, miner, reward)
         IN  /\ after \in LedgerType
             /\ after.minted >= led.minted
             /\ led.minted <= Cap => after.minted <= Cap
             /\ \A a \in Address :
                  after.accounts[a].balance >= led.accounts[a].balance
<1> DEFINE after == DistributeRewards(led, miner, reward)
           paid == Paid(led, miner, reward)
<1>1. led.minted \in Int /\ \A a \in Address : led.accounts[a].balance \in Int
  BY LedgerFields DEF Accounts, Account
<1>2. /\ after \in LedgerType /\ paid \in Int
      /\ after.minted = led.minted + paid
      /\ \A a \in Address :
           /\ after.accounts[a].balance
                = led.accounts[a].balance + (IF a = miner THEN paid ELSE 0)
           /\ after.accounts[a].nonce = led.accounts[a].nonce
           /\ after.accounts[a].exists
                <=> led.accounts[a].exists \/ (a = miner /\ reward > 0 /\ miner # Nobody)
      /\ led.minted + reward <= Cap =>
           paid = IF reward <= 0 \/ miner = Nobody THEN 0 ELSE reward
  BY RewardFields
<1>3. paid = IF reward <= 0 \/ miner = Nobody THEN 0 ELSE reward
  BY <1>2
<1> HIDE DEF after, paid
<1>4. paid >= 0
  BY <1>3
<1> QED
  BY <1>1, <1>2, <1>3, <1>4, LedgerAssumption DEF after

\* Transactions verified one after another on accts overdraw no account they do not
\* bill, nor one of an account map that holds at least as much.
LEMMA RunCovered ==
  ASSUME NEW accts \in Accounts, NEW start \in Accounts, NEW txs \in Seq(Tx),
         Covered(accts), TxsOK(accts, txs),
         \A a \in Address \ Debtor : start[a].balance >= accts[a].balance
  PROVE  \A i \in 0 .. Len(txs) : Covered(Run(start, txs)[i])
<1> DEFINE N == Len(txs)
           verified == Run(accts, txs)
           applied  == Run(start, txs)
           S == {i \in 0 .. N : \A a \in Address \ Debtor :
                   verified[i][a].balance >= 0 /\ applied[i][a].balance >= verified[i][a].balance}
<1>1. N \in Nat /\ \A i \in 1 .. N : txs[i] \in Tx
  OBVIOUS
<1>2. /\ \A i \in 0 .. N : verified[i] \in Accounts /\ applied[i] \in Accounts
      /\ verified[0] = accts /\ applied[0] = start
      /\ \A i \in 1 .. N : /\ verified[i] = ApplyTx(verified[i-1], txs[i])
                           /\ applied[i] = ApplyTx(applied[i-1], txs[i])
  BY RunRecursion
<1>3. \A i \in 1 .. N : TxOK(verified[i-1], txs[i])
  BY DEF TxsOK
<1> HIDE DEF verified, applied, N
<1>4. 0 \in S
  BY <1>1, <1>2 DEF Covered
<1>5. ASSUME NEW n \in 0 .. N-1, n \in S  PROVE n+1 \in S
  <2> DEFINE tx == txs[n+1]
  <2>1. n \in 0 .. N /\ n+1 \in 1 .. N /\ (n+1)-1 = n /\ tx \in Tx
    BY <1>1
  <2>2. verified[n] \in Accounts /\ applied[n] \in Accounts
    BY <1>2, <2>1
  <2>3. verified[n+1] = ApplyTx(verified[n], tx) /\ applied[n+1] = ApplyTx(applied[n], tx)
    BY <1>2, <2>1
  <2>4. verified[n][tx.from].balance >= Cost(tx)
    BY <1>3, <2>1 DEF TxOK
  <2>5. tx.amount \in Int /\ Cost(tx) \in Int /\ (tx.amount < 0 => tx.to \in Debtor)
    BY <2>1, TxFields
  <2> HIDE DEF tx
  <2>6. ASSUME NEW a \in Address \ Debtor
        PROVE  /\ verified[n+1][a].balance >= 0
               /\ applied[n+1][a].balance >= verified[n+1][a].balance
    <3> DEFINE debit  == IF a = tx.from THEN Cost(tx) ELSE 0
               credit == IF a = tx.to THEN tx.amount ELSE 0
    <3>1. verified[n][a].balance \in Int /\ applied[n][a].balance \in Int
      BY <2>2 DEF Accounts, Account
    <3>2. /\ verified[n][a].balance >= 0
          /\ applied[n][a].balance >= verified[n][a].balance
      BY <1>5
    <3>3. /\ verified[n+1][a].balance = verified[n][a].balance - debit + credit
          /\ applied[n+1][a].balance = applied[n][a].balance - debit + credit
      BY <2>1, <2>2, <2>3, ApplyTxFields
    <3>4. debit \in Int /\ verified[n][a].balance >= debit
      BY <2>4, <2>5, <3>1, <3>2
    <3>5. credit \in Int /\ credit >= 0
      BY <2>5
    <3> DEFINE v == verified[n][a].balance
               w == applied[n][a].balance
    <3> HIDE DEF debit, credit, v, w
    <3>6. v \in Int /\ w \in Int /\ v >= 0 /\ w >= v /\ v >= debit
      BY <3>1, <3>2, <3>4 DEF v, w
    <3>7. (v - debit) + credit >= 0 /\ (w - debit) + credit >= (v - debit) + credit
      BY <3>4, <3>5, <3>6
    <3>8. QED
      BY <3>3, <3>7 DEF v, w
  <2>7. QED
    BY <2>1, <2>6
<1>6. 0 .. N \subseteq S
  <2> HIDE DEF S
  <2>1. QED
    BY <1>1, <1>4, <1>5, UpToInduct
<1>7. ASSUME NEW i \in 0 .. N, NEW a \in Address \ Debtor  PROVE applied[i][a].balance >= 0
  <2>1. verified[i][a].balance \in Int /\ applied[i][a].balance \in Int
    BY <1>2 DEF Accounts, Account
  <2>2. QED
    BY <1>6, <2>1
<1> QED
  BY <1>7 DEF Covered, applied, N

\* ApplyBlock maps ledgers to ledgers.
LEMMA ApplyBlockType ==
  ASSUME NEW led \in LedgerType, NEW b \in Block
  PROVE  ApplyBlock(led, b) \in LedgerType
<1> DEFINE rewarded == DistributeRewards(led, b.miner, b.reward)
<1>1. b.miner \in Address /\ b.reward \in Int /\ b.txs \in Seq(Tx)
  BY BlockFields
<1>2. rewarded \in LedgerType
  BY <1>1, RewardFields
<1>3. ApplyBlock(led, b) = [accounts |-> Run(rewarded.accounts, b.txs)[Len(b.txs)],
                            minted   |-> rewarded.minted]
  BY DEF ApplyBlock
<1> HIDE DEF rewarded
<1>4. rewarded.accounts \in Accounts /\ rewarded.minted \in Int
  BY <1>2, LedgerFields
<1>5. Run(rewarded.accounts, b.txs)[Len(b.txs)] \in Accounts
  <2>1. Run(rewarded.accounts, b.txs) \in [0 .. Len(b.txs) -> Accounts]
    BY <1>1, <1>4, RunRecursion
  <2>2. Len(b.txs) \in 0 .. Len(b.txs)
    BY <1>1
  <2>3. QED
    BY <2>1, <2>2
<1> QED
  BY <1>3, <1>4, <1>5, LedgerMake

\* The receiver of a transaction exists after it, and nobody else begins to.
LEMMA ApplyTxExists ==
  ASSUME NEW accts \in Accounts, NEW tx \in Tx, NEW a \in Address
  PROVE  ApplyTx(accts, tx)[a].exists <=> accts[a].exists \/ a = tx.to
<1> DEFINE debited == Debited(accts, tx)
<1>1. tx.from \in Address /\ tx.to \in Address /\ tx.amount \in Int /\ tx.nonce \in Nat
  BY TxFields
<1>2. debited[a].exists = accts[a].exists
  BY <1>1 DEF Debited, Accounts, Account
<1>3. ApplyTx(accts, tx) = [debited EXCEPT ![tx.to] = [debited[tx.to] EXCEPT
                              !.exists = TRUE, !.balance = debited[tx.to].balance + tx.amount]]
  BY DEF ApplyTx, Debited
<1>4. debited \in Accounts /\ accts[a].exists \in BOOLEAN
  BY ApplyTxType DEF Accounts, Account
<1> HIDE DEF debited
<1>5. CASE a = tx.to
  <2>1. ApplyTx(accts, tx)[a].exists = TRUE
    BY <1>1, <1>3, <1>4, <1>5 DEF Accounts, Account
  <2>2. QED
    BY <1>5, <2>1
<1>6. CASE a # tx.to
  <2>1. ApplyTx(accts, tx)[a] = debited[a]
    BY <1>1, <1>3, <1>4, <1>6 DEF Accounts
  <2>2. QED
    BY <1>2, <1>4, <1>6, <2>1
<1> QED
  BY <1>5, <1>6

\* A sender that has an account before the block has it when its transaction is
\* applied: what AddBlock asks of senders is more than the rebuild does.
LEMMA SendersApply ==
  ASSUME NEW led \in LedgerType, NEW b \in Block, SendersExist(led, b)
  PROVE  Applies(led, b)
<1> DEFINE N == Len(b.txs)
           start == DistributeRewards(led, b.miner, b.reward).accounts
           run == Run(start, b.txs)
           S == {i \in 0 .. N : \A a \in Address :
                   led.accounts[a].exists => run[i][a].exists}
<1>1. /\ b.miner \in Address /\ b.reward \in Int /\ b.txs \in Seq(Tx) /\ N \in Nat
      /\ \A i \in 1 .. N : b.txs[i] \in Tx
  BY BlockFields
<1>2. /\ start \in Accounts
      /\ \A a \in Address : led.accounts[a].exists => start[a].exists
  BY <1>1, RewardFields, LedgerFields
<1> HIDE DEF start
<1>3. /\ \A i \in 0 .. N : run[i] \in Accounts
      /\ run[0] = start
      /\ \A i \in 1 .. N : run[i] = ApplyTx(run[i-1], b.txs[i])
  BY <1>1, <1>2, RunRecursion
<1> HIDE DEF run, N
<1>4. 0 \in S
  BY <1>1, <1>2, <1>3
<1>5. ASSUME NEW n \in 0 .. N-1, n \in S  PROVE n+1 \in S
  <2>1. n+1 \in 1 .. N /\ (n+1)-1 = n /\ n \in 0 .. N /\ n+1 \in 0 .. N
    BY <1>1
  <2>2. /\ run[n+1] = ApplyTx(run[n], b.txs[n+1])
        /\ run[n] \in Accounts /\ b.txs[n+1] \in Tx
    BY <1>1, <1>3, <2>1
  <2>3. \A a \in Address : run[n][a].exists => run[n+1][a].exists
    BY <2>2, ApplyTxExists
  <2>4. QED
    BY <1>5, <2>1, <2>3
<1>6. 0 .. N \subseteq S
  <2> HIDE DEF S
  <2>1. QED
    BY <1>1, <1>4, <1>5, UpToInduct
<1>7. ASSUME NEW i \in 1 .. N  PROVE run[i-1][b.txs[i].from].exists
  <2>1. i-1 \in 0 .. N /\ b.txs[i].from \in Address
    BY <1>1, TxFields
  <2>2. led.accounts[b.txs[i].from].exists
    BY DEF SendersExist, N
  <2>3. QED
    BY <1>6, <2>1, <2>2
<1> QED
  BY <1>7 DEF Applies, run, start, N

\* A block whose contents verify on a sound ledger leaves it sound.
LEMMA ApplyBlockSound ==
  ASSUME NEW led, SoundLedger(led), NEW b \in Block, ContentOK(led, b)
  PROVE  SoundLedger(ApplyBlock(led, b))
<1> DEFINE rewarded == DistributeRewards(led, b.miner, b.reward)
<1>1. b.miner \in Address /\ b.reward \in Int /\ b.txs \in Seq(Tx) /\ Len(b.txs) \in Nat
  BY BlockFields
<1>2. /\ led \in LedgerType /\ led.minted \in Int /\ led.minted >= 0
      /\ Debtor = {} => led.minted <= Cap
      /\ Covered(led.accounts)
  BY LedgerFields DEF SoundLedger
<1>3. led.minted + b.reward <= Cap /\ TxsOK(led.accounts, b.txs)
  BY DEF ContentOK
<1>4. /\ rewarded \in LedgerType
      /\ rewarded.minted >= led.minted
      /\ led.minted <= Cap => rewarded.minted <= Cap
      /\ \A a \in Address : rewarded.accounts[a].balance >= led.accounts[a].balance
  BY <1>1, <1>2, <1>3, RewardKeeps
<1>5. ApplyBlock(led, b) = [accounts |-> Run(rewarded.accounts, b.txs)[Len(b.txs)],
                            minted   |-> rewarded.minted]
  BY DEF ApplyBlock
<1> HIDE DEF rewarded
<1>6. led.accounts \in Accounts /\ rewarded.accounts \in Accounts
  BY <1>2, <1>4, LedgerFields
<1>7. Covered(Run(rewarded.accounts, b.txs)[Len(b.txs)])
  <2>1. \A i \in 0 .. Len(b.txs) : Covered(Run(rewarded.accounts, b.txs)[i])
    BY <1>1, <1>2, <1>3, <1>4, <1>6, RunCovered
  <2>2. QED
    BY <1>1, <2>1
<1>8. rewarded.minted >= 0 /\ (Debtor = {} => rewarded.minted <= Cap)
  <2>1. rewarded.minted \in Int
    BY <1>4, LedgerFields
  <2>2. QED
    BY <1>2, <1>4, <2>1
<1>9. ApplyBlock(led, b) \in LedgerType
  BY <1>2, ApplyBlockType
<1> QED
  BY <1>5, <1>7, <1>8, <1>9 DEF SoundLedger

\* A penalty is capped at the offender's balance: it overdraws nobody.
LEMMA PenaltySound ==
  ASSUME NEW led \in LedgerType, NEW offender \in Address, NEW amount \in Int
  PROVE  /\ ApplyPenalty(led, offender, amount) \in LedgerType
         /\ SoundLedger(led) => SoundLedger(ApplyPenalty(led, offender, amount))
<1> DEFINE acc == led.accounts[offender]
           taken == IF amount > acc.balance THEN acc.balance ELSE amount
           slashed == [acc EXCEPT !.balance = acc.balance - taken]
           burned == IF led.minted >= taken THEN led.minted - taken ELSE led.minted
           after == ApplyPenalty(led, offender, amount)
<1>1. led.accounts \in Accounts /\ led.minted \in Int /\ acc \in Account
  BY LedgerFields DEF Accounts
<1>2. acc.balance \in Int
  BY <1>1 DEF Account
<1>3. \/ after = led
      \/ amount > 0 /\ after = [accounts |-> [led.accounts EXCEPT ![offender] = slashed], minted |-> burned]
  BY DEF ApplyPenalty
<1>4. taken \in Int /\ burned \in Int /\ acc.balance - taken \in Int
  BY <1>1, <1>2
<1>5. acc.balance - taken >= 0
  BY <1>2, <1>4
<1>6. SoundLedger(led) /\ amount > 0 => burned >= 0 /\ (Debtor = {} => burned <= Cap)
  <2>1. SoundLedger(led) => led.minted >= 0 /\ (Debtor = {} => led.minted <= Cap)
    BY DEF SoundLedger
  <2>2. SoundLedger(led) /\ amount > 0 /\ Debtor = {} => taken >= 0
    BY <1>2 DEF SoundLedger, Covered
  <2> HIDE DEF taken
  <2>3. QED
    BY <1>1, <1>4, <2>1, <2>2, LedgerAssumption
<1> HIDE DEF acc, taken, burned
<1>7. slashed \in Account /\ slashed.balance = acc.balance - taken
  BY <1>1, <1>4, AccountUpdate DEF Account
<1> HIDE DEF slashed, after
<1>8. CASE after = led
  BY <1>8 DEF after
<1>9. CASE /\ amount > 0
           /\ after = [accounts |-> [led.accounts EXCEPT ![offender] = slashed], minted |-> burned]
  <2>1. [led.accounts EXCEPT ![offender] = slashed] \in Accounts
    BY <1>1, <1>7 DEF Accounts
  <2>2. after \in LedgerType
    BY <1>4, <1>9, <2>1, LedgerMake
  <2>3. SoundLedger(led) => Covered(after.accounts)
    <3>1. after.accounts = [led.accounts EXCEPT ![offender] = slashed]
      BY <1>9
    <3>2. ASSUME SoundLedger(led), NEW a \in Address \ Debtor
          PROVE  after.accounts[a].balance >= 0
      <4>1. a = offender => after.accounts[a].balance >= 0
        BY <1>1, <1>5, <1>7, <3>1 DEF Accounts
      <4>2. a # offender => after.accounts[a] = led.accounts[a]
        BY <1>1, <3>1 DEF Accounts
      <4>3. QED
        BY <3>2, <4>1, <4>2 DEF SoundLedger, Covered
    <3>3. QED
      BY <3>2 DEF Covered
  <2>4. after.minted = burned
    BY <1>9
  <2>5. QED
    BY <1>6, <1>9, <2>2, <2>3, <2>4 DEF SoundLedger, after
<1> QED
  BY <1>3, <1>8, <1>9 DEF after

\* The genesis allocation is within the cap.
LEMMA GenesisSound ==
  ASSUME NEW founder \in Address
  PROVE  SoundLedger(GenesisLedger(founder))
<1> DEFINE accts == GenesisLedger(founder).accounts
<1>1. accts \in Accounts /\ Covered(accts)
  BY LedgerAssumption DEF GenesisLedger, NoAccount, Accounts, Account, Covered
<1>2. GenesisLedger(founder).minted >= 0 /\ GenesisLedger(founder).minted <= Cap
  BY LedgerAssumption DEF GenesisLedger
<1>3. GenesisLedger(founder) \in LedgerType
  <2>1. GenesisLedger(founder) = [accounts |-> accts, minted |-> FounderAllocation]
    BY DEF GenesisLedger
  <2> HIDE DEF accts
  <2>2. QED
    BY <1>1, <2>1, LedgerMake, LedgerAssumption
<1> QED
  BY <1>1, <1>2, <1>3 DEF SoundLedger

\* Ledgers satisfies its recursive definition and is a sequence of ledgers.
LEMMA LedgersRecursion ==
  ASSUME NEW c \in Seq(Block), Len(c) > 0
  PROVE  /\ Ledgers(c) \in [0 .. Len(c) -> LedgerType]
         /\ Ledgers(c)[0] = GenesisLedger(c[1].founder)
         /\ \A i \in 1 .. Len(c) : Ledgers(c)[i] = ApplyBlock(Ledgers(c)[i-1], c[i])
<1> DEFINE N == Len(c)
           first == GenesisLedger(c[1].founder)
           step == [p \in LedgerType \X (1 .. N) |-> ApplyBlock(p[1], c[p[2]])]
           Body(f) == [i \in 0 .. N |-> IF i = 0 THEN first ELSE ApplyBlock(f[i-1], c[i])]
           led == Ledgers(c)
<1>1. N \in Nat /\ \A i \in 1 .. N : c[i] \in Block
  OBVIOUS
<1>2. \A s \in LedgerType : \A i \in 1 .. N :
        step[<<s, i>>] = ApplyBlock(s, c[i]) /\ step[<<s, i>>] \in LedgerType
  BY <1>1, ApplyBlockType
<1>3. first \in LedgerType
  <2>1. c[1] \in Block
    BY <1>1
  <2>2. c[1].founder \in Address
    BY <2>1, BlockFields
  <2>3. QED
    BY <2>2, GenesisSound DEF SoundLedger
<1>4. led = CHOOSE g : g = Body(g)
  BY DEF Ledgers
<1> HIDE DEF step, N, led, first
<1>5. PICK f \in [0 .. N -> LedgerType] :
        f[0] = first /\ \A i \in 1 .. N : f[i] = step[<<f[i-1], i>>]
  <2>1. Solutions(LedgerType, first, N, step) # {}
    BY <1>1, <1>2, <1>3, RecursionExists DEF Steps
  <2>2. QED
    BY <2>1 DEF Solutions
<1>6. f = Body(f)
  <2>1. ASSUME NEW i \in 1 .. N  PROVE f[i] = ApplyBlock(f[i-1], c[i])
    <3>1. f[i-1] \in LedgerType
      BY <1>1, <1>5
    <3>2. QED
      BY <1>2, <1>5, <3>1
  <2>2. QED
    BY <1>1, <1>5, <2>1
<1>7. led = Body(led)
  BY <1>4, <1>6
<1>8. led[0] = first /\ \A i \in 1 .. N : led[i] = ApplyBlock(led[i-1], c[i])
  BY <1>1, <1>7
<1>9. 0 .. N \subseteq {i \in 0 .. N : led[i] \in LedgerType}
  <2> DEFINE S == {i \in 0 .. N : led[i] \in LedgerType}
  <2>1. 0 \in S
    BY <1>1, <1>3, <1>8
  <2>2. ASSUME NEW n \in 0 .. N-1, n \in S  PROVE n+1 \in S
    <3>1. n+1 \in 1 .. N /\ (n+1)-1 = n
      BY <1>1
    <3>2. led[n+1] = ApplyBlock(led[n], c[n+1]) /\ c[n+1] \in Block
      BY <1>1, <1>8, <3>1
    <3>3. QED
      BY <2>2, <3>1, <3>2, ApplyBlockType
  <2> HIDE DEF S
  <2>3. QED
    BY <1>1, <2>1, <2>2, UpToInduct DEF S
<1>10. led \in [0 .. N -> LedgerType]
  BY <1>7, <1>9
<1> QED
  BY <1>8, <1>10 DEF led, N, first

\* The rebuild of a non-empty chain returns a typed ledger.
LEMMA ReplayType ==
  ASSUME NEW c \in Seq(Block), Len(c) > 0
  PROVE  Replay(c) \in LedgerType
<1>1. Ledgers(c) \in [0 .. Len(c) -> LedgerType] /\ Len(c) \in 0 .. Len(c)
  BY LedgersRecursion
<1> QED
  BY <1>1 DEF Replay

\* What rebuilding a chain accepts is sound after every block of it.
LEMMA RebuildSound ==
  ASSUME NEW c \in Seq(Block), Len(c) > 0, RebuildOK(c)
  PROVE  SoundLedger(Replay(c))
<1> DEFINE N == Len(c)
           led == Ledgers(c)
           S == {i \in 0 .. N : SoundLedger(led[i])}
<1>1. N \in Nat /\ N > 0 /\ \A i \in 1 .. N : c[i] \in Block
  OBVIOUS
<1>2. /\ led[0] = GenesisLedger(c[1].founder)
      /\ \A i \in 1 .. N : led[i] = ApplyBlock(led[i-1], c[i])
  BY LedgersRecursion
<1>3. \A i \in 1 .. N : ContentOK(led[i-1], c[i])
  <2>1. ContentOK(led[0], c[1]) /\ \A i \in 2 .. N : ContentOK(led[i-1], c[i])
    BY DEF RebuildOK, BlockOK
  <2> HIDE DEF led, N
  <2>2. QED
    BY <1>1, <2>1
<1> HIDE DEF led, N
<1>4. 0 \in S
  <2>1. c[1] \in Block
    BY <1>1
  <2>2. c[1].founder \in Address
    BY <2>1, BlockFields
  <2>3. QED
    BY <1>1, <1>2, <2>2, GenesisSound
<1>5. ASSUME NEW n \in 0 .. N-1, n \in S  PROVE n+1 \in S
  <2>1. n+1 \in 1 .. N /\ (n+1)-1 = n
    BY <1>1
  <2>2. c[n+1] \in Block /\ ContentOK(led[n], c[n+1]) /\ led[n+1] = ApplyBlock(led[n], c[n+1])
    BY <1>1, <1>2, <1>3, <2>1
  <2>3. SoundLedger(led[n+1])
    BY <1>5, <2>2, ApplyBlockSound
  <2>4. QED
    BY <2>1, <2>3
<1>6. 0 .. N \subseteq S
  <2> HIDE DEF S
  <2>1. QED
    BY <1>1, <1>4, <1>5, UpToInduct
<1> QED
  BY <1>1, <1>6 DEF Replay, led, N

\* Appending a block leaves the ledgers of the prefix as they are.
LEMMA LedgersAppend ==
  ASSUME NEW c \in Seq(Block), Len(c) > 0, NEW b \in Block
  PROVE  \A i \in 0 .. Len(c) : Ledgers(Append(c, b))[i] = Ledgers(c)[i]
<1> DEFINE N == Len(c)
           d == Append(c, b)
           S == {i \in 0 .. N : Ledgers(d)[i] = Ledgers(c)[i]}
<1>1. /\ N \in Nat /\ N > 0
      /\ d \in Seq(Block) /\ Len(d) = N+1 /\ Len(d) > 0
      /\ \A i \in 1 .. N : d[i] = c[i]
  OBVIOUS
<1>2. Ledgers(c)[0] = GenesisLedger(c[1].founder) /\ Ledgers(d)[0] = GenesisLedger(d[1].founder)
  BY <1>1, LedgersRecursion
<1>3. \A i \in 1 .. N : Ledgers(c)[i] = ApplyBlock(Ledgers(c)[i-1], c[i])
  BY <1>1, LedgersRecursion
<1>4. \A i \in 1 .. N+1 : Ledgers(d)[i] = ApplyBlock(Ledgers(d)[i-1], d[i])
  <2>1. \A i \in 1 .. Len(d) : Ledgers(d)[i] = ApplyBlock(Ledgers(d)[i-1], d[i])
    BY <1>1, LedgersRecursion
  <2>2. QED
    BY <1>1, <2>1
<1> HIDE DEF N, d
<1>5. 0 \in S
  BY <1>1, <1>2
<1>6. ASSUME NEW n \in 0 .. N-1, n \in S  PROVE n+1 \in S
  <2>1. n+1 \in 1 .. N /\ n+1 \in 1 .. N+1 /\ n+1 \in 0 .. N /\ (n+1)-1 = n
    BY <1>1
  <2>2. Ledgers(d)[n+1] = ApplyBlock(Ledgers(d)[n], d[n+1])
    BY <1>4, <2>1
  <2>3. Ledgers(c)[n+1] = ApplyBlock(Ledgers(c)[n], c[n+1])
    BY <1>3, <2>1
  <2>4. d[n+1] = c[n+1] /\ Ledgers(d)[n] = Ledgers(c)[n]
    BY <1>1, <1>6, <2>1
  <2>5. QED
    BY <2>1, <2>2, <2>3, <2>4
<1>7. 0 .. N \subseteq S
  <2> HIDE DEF S
  <2>1. QED
    BY <1>1, <1>5, <1>6, UpToInduct
<1> QED
  BY <1>7 DEF N, d

\* Rebuilding a chain and one more block is rebuilding the chain, then the block.
LEMMA ReplayAppend ==
  ASSUME NEW c \in Seq(Block), Len(c) > 0, NEW b \in Block
  PROVE  Replay(Append(c, b)) = ApplyBlock(Replay(c), b)
<1> DEFINE d == Append(c, b)
<1>1. /\ Len(c) \in Nat /\ d \in Seq(Block) /\ Len(d) = Len(c) + 1 /\ Len(d) > 0
      /\ d[Len(c)+1] = b
  OBVIOUS
<1>2. Ledgers(d)[Len(c)+1] = ApplyBlock(Ledgers(d)[Len(c)], b)
  <2>1. \A i \in 1 .. Len(d) : Ledgers(d)[i] = ApplyBlock(Ledgers(d)[i-1], d[i])
    BY <1>1, LedgersRecursion
  <2>2. Len(c)+1 \in 1 .. Len(d) /\ (Len(c)+1)-1 = Len(c)
    BY <1>1
  <2>3. QED
    BY <1>1, <2>1, <2>2
<1>3. Ledgers(d)[Len(c)] = Ledgers(c)[Len(c)]
  BY <1>1, LedgersAppend
<1> QED
  BY <1>1, <1>2, <1>3 DEF Replay

\* A chain that rebuilds, extended by a block that verifies and applies on its
\* rebuilt ledger, rebuilds.
LEMMA RebuildAppend ==
  ASSUME NEW c \in Seq(Block), Len(c) > 0, RebuildOK(c), NEW b \in Block,
         BlockOK(Replay(c), LastOf(c), b), Applies(Replay(c), b)
  PROVE  RebuildOK(Append(c, b))
<1> DEFINE d == Append(c, b)
           N == Len(c)
<1>1. /\ N \in Nat /\ N > 0 /\ Len(d) = N+1
      /\ d[N+1] = b /\ \A i \in 1 .. N : d[i] = c[i]
  OBVIOUS
<1>2. \A i \in 0 .. N : Ledgers(d)[i] = Ledgers(c)[i]
  BY LedgersAppend
<1>3. /\ ContentOK(Ledgers(c)[0], c[1])
      /\ \A i \in 2 .. N : BlockOK(Ledgers(c)[i-1], c[i-1], c[i])
      /\ \A i \in 1 .. N : Applies(Ledgers(c)[i-1], c[i])
  BY DEF RebuildOK
<1>4. BlockOK(Ledgers(c)[N], c[N], b) /\ Applies(Ledgers(c)[N], b)
  BY DEF Replay, LastOf
<1> HIDE DEF d, N
<1>5. ContentOK(Ledgers(d)[0], d[1])
  BY <1>1, <1>2, <1>3
<1>6. ASSUME NEW i \in 1 .. N+1
      PROVE  /\ i > 1 => BlockOK(Ledgers(d)[i-1], d[i-1], d[i])
             /\ Applies(Ledgers(d)[i-1], d[i])
  <2>1. CASE i = N+1
    <3>1. i-1 = N /\ d[i] = b /\ d[i-1] = c[N] /\ Ledgers(d)[i-1] = Ledgers(c)[N]
      BY <1>1, <1>2, <2>1
    <3>2. QED
      BY <1>4, <3>1
  <2>2. CASE i # N+1
    <3>1. i \in 1 .. N /\ i-1 \in 0 .. N /\ (i > 1 => i \in 2 .. N /\ i-1 \in 1 .. N)
      BY <1>1, <2>2
    <3>2. /\ d[i] = c[i] /\ Ledgers(d)[i-1] = Ledgers(c)[i-1]
          /\ i > 1 => d[i-1] = c[i-1]
      BY <1>1, <1>2, <3>1
    <3>3. QED
      BY <1>3, <3>1, <3>2
  <2>3. QED
    BY <2>1, <2>2
<1>7. \A i \in 2 .. N+1 : BlockOK(Ledgers(d)[i-1], d[i-1], d[i])
  BY <1>1, <1>6
<1>8. \A i \in 1 .. N+1 : Applies(Ledgers(d)[i-1], d[i])
  BY <1>6
<1> QED
  BY <1>1, <1>5, <1>7, <1>8 DEF RebuildOK, d
=============================================================================
