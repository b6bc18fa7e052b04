----------------------------- MODULE MCFdTable ------------------------------
(***************************************************************************)
(* Instances of FdTable for TLC.                                           *)
(***************************************************************************)
EXTENDS FdTable, TLC

\* Nothing is claimed after a race, and raced stays TRUE.
Unraced == ~raced

Symmetry == Permutations(Tables) \cup Permutations(Tasks)
=============================================================================
