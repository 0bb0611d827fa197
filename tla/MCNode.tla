------------------------------- MODULE MCNode -------------------------------
(***************************************************************************)
(* Small instances of Node.  F is the founder and this node's miner, P a    *)
(* peer's miner, A an address that appears only by being paid, nobody the   *)
(* empty address.                                                           *)
(*                                                                          *)
(* Peer universe.  On the shared genesis g: block x1; its sibling y1, which *)
(* one validator confirmed and which pays A; y1f, the copy of y1 after a    *)
(* second validator finalized it; y2 on top of y1, where A spends with      *)
(* another fee and which names no miner; z1, another sibling, with a        *)
(* negative reward and, in z1b, a transaction that bills P.  On another     *)
(* node's genesis h: blocks h1 and h2.                                      *)
(***************************************************************************)
EXTENDS Node, TLC

CONSTANTS F, P, A, nobody, g, h, x1, y1, y2, z1, h1, h2, m1, m2, none, local, v1, v2, t1, t2

MCAddress == {F, P, A, nobody}
MCHash    == {g, h, x1, y1, y2, z1, h1, h2, m1, m2, none}
MCVoter   == {local, v1, v2}
MCLocalHash == SubSeq(<<m1, m2>>, 1, MaxMined)

MCTx(id, from, to, amount, fee, nonce, ts) ==
  [id |-> id, from |-> from, to |-> to, amount |-> amount, fee |-> fee,
   nonce |-> nonce, ts |-> ts]

\* F pays A (twice, so the second depends on the first), two alternative first
\* transactions of F, the second with a negative amount, and A spending what it
\* was paid, with the mempool's fee and with others that only a block may carry.
FPaysA  == MCTx(1, F, A, 3, 1, 1, 1)
FPaysA2 == MCTx(2, F, A, 1, 1, 2, 2)
FPaysP  == MCTx(3, F, P, 2, 1, 1, 0)
FBillsP == MCTx(5, F, P, -2, 1, 1, 3)
APaysP  == MCTx(4, A, P, 1, 1, 1, 2)
APaysPMore == [APaysP EXCEPT !.fee = 2]
APaysPLess == [APaysP EXCEPT !.fee = -1]

FeesRegular == {0, 1, 2}
FeesAll     == {-1, 0, 1, 2}

MCBlock(hash, prev, idx, miner, reward, txs, votes, final) ==
  [hash |-> hash, prev |-> prev, index |-> idx, miner |-> miner, reward |-> reward,
   founder |-> miner, txs |-> txs, votes |-> votes, final |-> final]

MCGenesis    == MCBlock(g, none, 0, F, 0, << >>, {}, FALSE)
OtherGenesis == MCBlock(h, none, 0, P, 0, << >>, {}, FALSE)
X1  == MCBlock(x1, g, 1, P, 4, << >>, {local}, FALSE)
Y1  == MCBlock(y1, g, 1, P, 4, <<FPaysA>>, {local, v1}, FALSE)
Y1f == MCBlock(y1, g, 1, P, 4, <<FPaysA>>, {local, v1, v2}, TRUE)
Y2  == MCBlock(y2, y1, 2, nobody, 1, <<APaysPMore>>, {local}, FALSE)
Y2l == MCBlock(y2, y1, 2, nobody, 1, <<APaysPLess>>, {local}, FALSE)
Z1  == MCBlock(z1, g, 1, P, -1, << >>, {local, v1, v2}, FALSE)
Z1b == MCBlock(z1, g, 1, P, -1, <<FBillsP>>, {local}, FALSE)
H1  == MCBlock(h1, h, 1, P, 4, << >>, {local}, FALSE)
H2  == MCBlock(h2, h1, 2, P, 2, << >>, {local}, FALSE)

TxsOne   == {FPaysA}
TxsSmall == {FPaysA, APaysP}
TxsAll   == {FPaysA, FPaysA2, FPaysP, APaysP}
TxsMixed == {FPaysA, FPaysA2, FBillsP, APaysP}

GossipOne   == {X1}
GossipSmall == {X1, Y1f}
GossipAll   == {X1, Y1, Y1f, Y2}
GossipSigned == {Y1, Y1f, Y2, Z1}
GossipMixed == {X1, Y1, Y1f, Y2l, Z1b}

ChainsSmall == {<<MCGenesis, Y1, Y2>>}
ChainsAll   == {<<MCGenesis, X1>>, <<MCGenesis, Y1, Y2>>, <<MCGenesis, Y1f, Y2>>,
                <<OtherGenesis, H1, H2>>}
ChainsMixed == {<<MCGenesis, X1>>, <<MCGenesis, Y1, Y2l>>, <<MCGenesis, Y1f, Y2l>>,
                <<OtherGenesis, H1, H2>>}

\* Peers only hold blocks their own verification accepted.
ASSUME PeersAreHonest == \A c \in PeerChains : RebuildOK(c)

ThreadSymmetry == Permutations(Thread)
=============================================================================
