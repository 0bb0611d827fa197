------------------------------ MODULE MCGossip ------------------------------
(***************************************************************************)
(* Small instances of Gossip.  On the genesis g: block x1 and its sibling   *)
(* y1, which also arrives as a final copy; y2 on top of y1, in a chain that *)
(* peers serve with y1 final.  One block m1 is mined here, and one          *)
(* transaction submitted.                                                   *)
(***************************************************************************)
EXTENDS Gossip, TLC

CONSTANTS g, x1, y1, y2, m1, none, tx, t1, t2

MCHash == {g, x1, y1, y2, m1, none}

E(hash, prev, final) == [hash |-> hash, prev |-> prev, final |-> final]

MCGenesis   == E(g, none, FALSE)
MCBlocks    == {E(x1, g, FALSE), E(y1, g, TRUE)}
FinalBlocks == {E(y1, g, FALSE), E(y1, g, TRUE)}
MCChains    == {<<MCGenesis, E(y1, g, FALSE), E(y2, y1, TRUE)>>}
MCLocalHash == SubSeq(<<m1>>, 1, MaxMined)

ThreadSymmetry == Permutations(Thread)
=============================================================================
