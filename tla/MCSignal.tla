------------------------------ MODULE MCSignal ------------------------------
(***************************************************************************)
(* Instances of Signal for TLC.                                            *)
(***************************************************************************)
EXTENDS Signal, TLC

CONSTANTS t1, t2, t3

Act(how, mask, reset, nodefer) ==
    [how |-> how, mask |-> mask, reset |-> reset, nodefer |-> nodefer]

\* One task with many signals: nested handlers.
NestActs ==
    {<<10, Act("IGN", {}, FALSE, FALSE)>>, <<10, Act("catch", {9, 12}, FALSE, FALSE)>>,
     <<10, Act("catch", {}, TRUE, TRUE)>>, <<12, Act("catch", {}, FALSE, FALSE)>>,
     <<12, Act("catch", {10}, FALSE, TRUE)>>, <<9, Act("catch", {}, FALSE, FALSE)>>}
NestKills == {<<t1, s>> : s \in Signals}
NestMasks == {<<"UNBLOCK", {12}>>, <<"SETMASK", {9, 12}>>}
NestRoom == (t1 :> 2)

\* Three tasks with few signals: shared, copied and replaced tables.
ShareActs == {<<10, Act("catch", {}, FALSE, FALSE)>>, <<10, Act("catch", {}, TRUE, FALSE)>>}
ShareKills == {<<t2, 10>>}
ShareRoom == (t1 :> 0) @@ (t2 :> 1) @@ (t3 :> 0)
Symmetry == Permutations(Tables)
=============================================================================
