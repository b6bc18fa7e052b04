---------------------------- MODULE MCProcLife ----------------------------
(***************************************************************************)
(* Instances of ProcLife for TLC.                                          *)
(***************************************************************************)
EXTENDS ProcLife

KillTwo == {<<2, 15>>}
AnyChild == {<<0, 0>>}
SomeWaits == {<<0, 0>>, <<0, WNOHANG>>, <<2, 0>>}
=============================================================================
