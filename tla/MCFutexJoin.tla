---------------------------- MODULE MCFutexJoin ----------------------------
(***************************************************************************)
(* Instances of FutexJoin for TLC: one joiner, three exiting threads whose *)
(* words lie in two hash chains.                                           *)
(***************************************************************************)
EXTENDS FutexJoin, TLC

CONSTANTS e1, e2, e3

TidAddrs == (e1 :> 4) @@ (e2 :> 8) @@ (e3 :> 12)
=============================================================================
