---------------------------- MODULE MCDifficulty ----------------------------
(***************************************************************************)
(* Small instances of Difficulty: a window of two blocks and a target of    *)
(* eight seconds, so that a chain of seven blocks is retargeted three       *)
(* times, which is what it takes to go from 1 to 5 and back to 1.  The      *)
(* times make a window too fast, too slow, a little fast, and negative.     *)
(* Peers serve chains of the initial difficulty, off the schedule where     *)
(* their first window was fast, and one that follows it upwards.            *)
(***************************************************************************)
EXTENDS Difficulty, TLC

MCGenesis == [difficulty |-> InitialDifficulty, time |-> 0]

Block1(time) == [difficulty |-> 1, time |-> time]

Initial(n) == {<<MCGenesis>> \o [i \in 1 .. n |-> Block1(f[i])] : f \in [1 .. n -> Times]}
Raised     == <<MCGenesis, Block1(0), [difficulty |-> 4, time |-> 0]>>
MCServed   == Initial(2) \cup Initial(4) \cup {Raised}
=============================================================================
