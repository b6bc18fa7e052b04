------------------------------ MODULE MCEvents ------------------------------
(***************************************************************************)
(* An instance of Events for TLC: two threads, three descriptors and two   *)
(* objects.  Seven calls are the epoll descriptor, two registered ones, a  *)
(* removal and a wait.                                                     *)
(***************************************************************************)
EXTENDS Events

MCEventSets == {{"IN"}}
MCPollSets == {{0, 1}}
=============================================================================
