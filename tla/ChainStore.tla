----------------------------- MODULE ChainStore -----------------------------
(***************************************************************************)
(* What a node promises to whoever reads its chain: the abstract            *)
(* specification of ChainState.Chain with its Accounts and MintedSupply.    *)
(* Locks, goroutines, votes, files and messages are gone.  Seen from        *)
(* outside, the chain and the ledger change together, in five ways only:    *)
(* a verified block is appended, an offender is fined, blocks become final, *)
(* another chain is installed with the ledger it replays to, or the process *)
(* starts again.                                                            *)
(*                                                                          *)
(* The rules of verification are parameters; Node instantiates the module   *)
(* with those of Ledger and is shown to implement it.                       *)
(***************************************************************************)
EXTENDS Integers, Sequences

CONSTANTS
  Address,         \* account addresses
  Verifies(_,_,_), \* Verifies(ledger, last, b): b may follow last
  Applied(_,_),    \* Applied(ledger, b): the ledger after b
  Rebuilds(_),     \* Rebuilds(c): every block of c verifies from genesis
  Rebuilt(_),      \* Rebuilt(c): the ledger c replays to
  Founded(_),      \* Founded(founder): the ledger before any block
  Linked(_)        \* Linked(c): c is hash-linked from a genesis block

VARIABLES
  chain,  \* ChainState.Chain
  ledger, \* ChainState.Accounts and MintedSupply
  epoch   \* process runs so far

Init ==
  /\ Len(chain) = 1 /\ chain[1].index = 0
  /\ ledger = Founded(chain[1].founder)
  /\ epoch = 0

\* A block that verifies on the present tip and the present ledger is appended
\* and applied, in one step.
Extend ==
  /\ Len(chain') = Len(chain) + 1
  /\ \A i \in 1 .. Len(chain) : chain'[i] = chain[i]
  /\ Verifies(ledger, chain[Len(chain)], chain'[Len(chain')])
  /\ ledger' = Applied(ledger, chain'[Len(chain')])
  /\ UNCHANGED epoch

\* A fine takes no more than the offender has, and what it takes is burned; the
\* balance of an offender in debt becomes zero.
Fine ==
  /\ \E a \in Address :
     \E taken \in (0 .. ledger.accounts[a].balance) \cup {ledger.accounts[a].balance} :
       ledger' = [accounts |-> [ledger.accounts EXCEPT ![a].balance = @ - taken],
                  minted   |-> IF ledger.minted >= taken THEN ledger.minted - taken
                               ELSE ledger.minted]
  /\ UNCHANGED <<chain, epoch>>

\* Blocks become final, none stops being final, nothing else changes.
Finalise ==
  /\ Len(chain') = Len(chain)
  /\ \A i \in 1 .. Len(chain) :
       chain'[i] \in {chain[i], [chain[i] EXCEPT !.final = TRUE]}
  /\ UNCHANGED <<ledger, epoch>>

\* A fork or a sync installs a chain that verifies from its genesis, together
\* with the ledger it replays to.
Install ==
  /\ Rebuilds(chain')
  /\ ledger' = Rebuilt(chain')
  /\ UNCHANGED epoch

\* A new process finds a linked chain.  It may find an older ledger with it:
\* the two files are not written together.
Reload == epoch' = epoch + 1 /\ Linked(chain')

Next == Extend \/ Fine \/ Finalise \/ Install \/ Reload

Spec == Init /\ [][Next]_<<chain, ledger, epoch>>
=============================================================================
