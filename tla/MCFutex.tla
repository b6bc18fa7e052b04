------------------------------ MODULE MCFutex ------------------------------
(***************************************************************************)
(* Instances of Futex for TLC.  With two chains, addresses 4 and 12 share  *)
(* chain 1 and address 8 is alone in chain 0.                              *)
(***************************************************************************)
EXTENDS Futex, TLC

SameChainPairs == {<<4, 12>>, <<12, 12>>}
Symmetry == Permutations(Threads) \cup Permutations(Slots)
=============================================================================
