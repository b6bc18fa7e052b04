----------------------------- MODULE FutexJoin -----------------------------
(***************************************************************************)
(* Joining a thread: the futex table of sys_misc.c composed with the end   *)
(* of a thread in proc_exit (process.c), which clears the word that        *)
(* set_tid_address or CLONE_CHILD_CLEARTID named and then wakes one waiter *)
(* of it.  The joining guest thread repeats FUTEX_WAIT on that word while  *)
(* the word holds the thread id, as a C library's pthread_join does.       *)
(***************************************************************************)
EXTENDS Futex

CONSTANTS
    Joiner,             \* the guest thread that joins the others
    Exiters,            \* the guest threads that exit
    TidAddr,            \* clear_child_tid of each of them, all different
    Tid,                \* a thread id, not 0, the first value of those words
    Timed               \* whether Joiner passes a timeout to FUTEX_WAIT

VARIABLES exiting,      \* an exiter "runs", has "cleared" its word, is "gone"
          joined        \* the exiters whose word Joiner has seen cleared

jvars == <<vars, exiting, joined>>

JoinInit ==
    /\ Init
    /\ word = [a \in Addrs |-> IF \E e \in Exiters : TidAddr[e] = a THEN Tid ELSE 0]
    /\ exiting = [e \in Exiters |-> "runs"]
    /\ joined = {}

\* proc_exit stores zero through clear_child_tid.
ClearTid(e) ==
    /\ exiting[e] = "runs"
    /\ Store(TidAddr[e], 0)
    /\ exiting' = [exiting EXCEPT ![e] = "cleared"]
    /\ UNCHANGED joined

\* proc_exit wakes one waiter of the word.
WakeTid(e) ==
    /\ exiting[e] = "cleared"
    /\ futex_wake(e, TidAddr[e], 1, MatchAny)
    /\ exiting' = [exiting EXCEPT ![e] = "gone"]
    /\ UNCHANGED joined

\* The joining guest finds a word cleared.
SeeCleared(e) ==
    /\ pc[Joiner] = "guest" /\ e \notin joined
    /\ word[TidAddr[e]] = 0
    /\ joined' = joined \cup {e}
    /\ UNCHANGED <<vars, exiting>>

\* The joining guest finds a thread id and calls FUTEX_WAIT with it.
CallWait(e) ==
    /\ e \notin joined
    /\ WaitCheck(Joiner, TidAddr[e], Tid, MatchAny, Timed)
    /\ UNCHANGED <<exiting, joined>>

\* The steps of futex_wait.
InWait ==
    /\ \/ WaitEnqueue(Joiner)
       \/ WaitReturn(Joiner)
       \/ WaitTimeout(Joiner)
    /\ UNCHANGED <<exiting, joined>>

JoinNext ==
    \/ \E e \in Exiters : ClearTid(e) \/ WakeTid(e)
    \/ \E e \in Exiters : SeeCleared(e)
    \/ \E e \in Exiters : CallWait(e)
    \/ InWait

\* Every host thread keeps being scheduled.
JoinSpec ==
    /\ JoinInit /\ [][JoinNext]_jvars
    /\ \A e \in Exiters : WF_jvars(ClearTid(e) \/ WakeTid(e))
    /\ WF_jvars((\E e \in Exiters : SeeCleared(e) \/ CallWait(e)) \/ InWait)

-----------------------------------------------------------------------------
\* A thread that joins others learns of their exit: no wake falls between
\* the compare of the word in do_futex and the enqueue in futex_wait.
JoinReturns == <>(joined = Exiters)
=============================================================================
