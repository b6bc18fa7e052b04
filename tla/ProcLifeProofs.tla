--------------------------- MODULE ProcLifeProofs ---------------------------
(***************************************************************************)
(* Proofs about ProcLife, for any number of processes and any use of fork, *)
(* clone, kill, exit_group and wait.                                       *)
(***************************************************************************)
EXTENDS ProcLife, TLAPS

\* A pid that pid_counter can still hand out is a pid.
LEMMA NextPid ==
    ASSUME TypeOK, pid_counter < MaxPid
    PROVE  pid_counter + 1 \in Pids
  BY ConstAssumption DEF TypeOK, Pids

\* Statuses are natural numbers.
LEMMA StatusNat ==
    /\ \A code \in Codes : ExitStatus(code) \in Nat
    /\ \A sig \in KillSigs : SigStatus(sig) \in Nat
  <1>1. Codes \subseteq Nat /\ KillSigs \subseteq Nat
    BY ConstAssumption DEF KillSigs, NSIG, SIGCHLD
  <1>2. \A n \in Nat : n % 256 \in Nat /\ n % 128 \in Nat
    OBVIOUS
  <1>. QED
    BY <1>1, <1>2 DEF ExitStatus, SigStatus

\* An ending is one of the fates.
LEMMA EndingFate ==
    ASSUME TypeOK, NEW p \in Pids
    PROVE  /\ \A code \in Codes : Ending(p, "exit", code) \in Fates
           /\ \A sig \in KillSigs : Ending(p, "signal", sig) \in Fates
  BY DEF TypeOK, Ending, Fates

\* Where a task has a child or its parent in its hands: tgt is a pid there.
HoldsPid == {"forkspin", "forkfind", "cloneadd", "clonerun", "x4"}

TgtOK ==
    \A p \in Pids : pc[p] \in HoldsPid => tgt[p] \in Pids

TypeInv == TypeOK /\ TgtOK

\* What the exit of a task assigns last has the right types.
LEMMA ExitReturnsType ==
    ASSUME TypeOK, NEW p \in Pids, ExitReturns(p)
    PROVE  /\ pc' \in [Pids -> Labels] /\ tgt' \in [Pids -> Pids \cup {0}]
           /\ val' \in [Pids -> Nat] /\ again' \in [Pids -> BOOLEAN]
           /\ pc'[p] \in {"x1", "reap"}
           /\ \A q \in Pids \ {p} : pc'[q] = pc[q] /\ tgt'[q] = tgt[q]
  <1>1. pc' \in [Pids -> Labels] /\ pc'[p] \in {"x1", "reap"}
    BY DEF TypeOK, ExitReturns, Goto, Labels
  <1>2. tgt' \in [Pids -> Pids \cup {0}]
    BY DEF TypeOK, ExitReturns
  <1>3. val' \in [Pids -> Nat]
    BY DEF TypeOK, ExitReturns
  <1>4. again' \in [Pids -> BOOLEAN]
    BY DEF TypeOK, ExitReturns
  <1>5. \A q \in Pids \ {p} : pc'[q] = pc[q] /\ tgt'[q] = tgt[q]
    BY DEF TypeOK, ExitReturns, Goto
  <1>. QED
    BY <1>1, <1>2, <1>3, <1>4, <1>5

\* The locked section of proc_exit keeps the types.
LEMMA ExitMarkType ==
    ASSUME TypeInv, NEW p \in Pids, ExitMark(p),
           state' \in [Pids -> {"RUNNING", "ZOMBIE", "DEAD"}], exit_status' \in [Pids -> Nat]
    PROVE  TypeInv'
  <1>. USE DEF TypeInv, TypeOK, TgtOK, HoldsPid, idVars, localVars, history
  <1>1. CASE is_thread(p)
    <2>1. ExitReturns(p)
      BY <1>1 DEF ExitMark
    <2>. QED
      BY <2>1, ExitReturnsType, Zenon DEF ExitMark
  <1>2. CASE ~is_thread(p)
    BY <1>2, ZenonT(60) DEF ExitMark, Goto, Labels
  <1>. QED
    BY <1>1, <1>2, Zenon

\* The type invariant, with what makes it inductive.
THEOREM TypeInvariant == Spec => []TypeInv
  <1>1. Init => TypeInv
    BY ConstAssumption DEF Init, TypeInv, TypeOK, TgtOK, HoldsPid, Pids, Labels, Fates
  <1>2. TypeInv /\ [Next]_vars => TypeInv'
    <2>. SUFFICES ASSUME TypeInv, [Next]_vars PROVE TypeInv'
      OBVIOUS
    <2>. USE DEF TypeInv, TgtOK, HoldsPid, TypeOK, idVars, cpuVars, exitVars, localVars,
             history, Goto, Labels
    <2>1. ASSUME NEW p \in Pids, Syscall(p) PROVE TypeInv'
      BY <2>1 DEF Syscall
    <2>2. ASSUME NEW p \in Pids, NEW code \in Codes, Exit(p, code) PROVE TypeInv'
      BY <2>2, StatusNat, EndingFate, Zenon DEF Exit, do_exit
    <2>3. ASSUME NEW p \in Pids, NEW code \in Codes, ExitGroup(p, code) PROVE TypeInv'
      BY <2>3, StatusNat, EndingFate, Zenon DEF ExitGroup, do_exit
    <2>4. ASSUME NEW p \in Pids, proc_execve(p) PROVE TypeInv'
      BY <2>4 DEF proc_execve
    <2>5. ASSUME NEW p \in Pids, proc_fork(p) PROVE TypeInv'
      BY <2>5, NextPid, Zenon DEF proc_fork, proc_create
    <2>6. ASSUME NEW p \in Pids, ForkNoMem(p) PROVE TypeInv'
      BY <2>6, NextPid, Zenon DEF ForkNoMem
    <2>7. ASSUME NEW p \in Pids, ForkSteps(p) PROVE TypeInv'
      <3>1. CASE ForkDone(p)
        BY <3>1, Zenon DEF ForkDone
      <3>2. CASE ForkFind(p)
        BY <3>2, Zenon DEF ForkFind
      <3>. QED
        BY <2>7, <3>1, <3>2, Zenon DEF ForkSteps
    <2>8. ASSUME NEW p \in Pids, NEW kind \in CloneKinds, CloneAlloc(p, kind) PROVE TypeInv'
      BY <2>8, NextPid, Zenon DEF CloneAlloc
    <2>9. ASSUME NEW p \in Pids, CloneSteps(p) PROVE TypeInv'
      <3>1. CASE CloneAdd(p)
        BY <3>1, ZenonT(60) DEF CloneAdd
      <3>2. CASE CloneNoMem(p)
        BY <3>2, Zenon DEF CloneNoMem
      <3>3. CASE CloneRun(p)
        BY <3>3, Zenon DEF CloneRun
      <3>. QED
        BY <2>9, <3>1, <3>2, <3>3, Zenon DEF CloneSteps
    <2>10. ASSUME NEW p \in Pids, NEW a \in KillArgs, Kill(p, a[1], a[2]) PROVE TypeInv'
      <3>1. a[2] \in KillSigs
        BY DEF KillSigs
      <3>2. sig_pending' \in [Pids -> SUBSET (KillSigs \cup {SIGCHLD})]
        BY <2>10, <3>1 DEF Kill
      <3>. QED
        BY <2>10, <3>2, Zenon DEF Kill
    <2>11. ASSUME NEW p \in Pids, sig_deliver(p) PROVE TypeInv'
      <3>1. PICK sig \in sig_pending[p] \cup {0} :
               /\ sig_pending' = [sig_pending EXCEPT ![p] = @ \ {sig}]
               /\ Goto(p, IF ~(sig \notin {0, SIGCHLD}) /\ running[p] THEN "user" ELSE "x1")
               /\ val' = [val EXCEPT ![p] = IF sig \notin {0, SIGCHLD} THEN SigStatus(sig)
                                            ELSE IF running[p] THEN 0 ELSE exit_code[p]]
               /\ again' = [again EXCEPT ![p] = sig \notin {0, SIGCHLD}]
               /\ fate' = [fate EXCEPT ![p] = IF sig \notin {0, SIGCHLD}
                                              THEN Ending(p, "signal", sig) ELSE @]
        BY <2>11, Zenon DEF sig_deliver
      <3>2. sig \notin {0, SIGCHLD} => sig \in KillSigs
        OBVIOUS
      <3>3. val' \in [Pids -> Nat]
        BY <3>1, <3>2, StatusNat
      <3>4. fate' \in [Pids -> Fates]
        BY <3>1, <3>2, EndingFate, SMTT(60)
      <3>5. again' \in [Pids -> BOOLEAN]
        BY <3>1
      <3>6. sig_pending' \in [Pids -> SUBSET (KillSigs \cup {SIGCHLD})]
        BY <3>1
      <3>7. pc' \in [Pids -> Labels]
        BY <3>1
      <3>. QED
        BY <2>11, <3>3, <3>4, <3>5, <3>6, <3>7, SMTT(60) DEF sig_deliver
    <2>12. ASSUME NEW p \in Pids, ExitSteps(p) PROVE TypeInv'
      <3>1. CASE X1(p)
        BY <3>1, ExitMarkType, Zenon DEF X1
      <3>2. CASE X1Early(p)
        BY <3>2, SMTT(60) DEF X1Early
      <3>3. CASE X1Late(p)
        BY <3>3, ExitMarkType, Zenon DEF X1Late
      <3>4. CASE X2(p)
        <4>1. 1 \in Pids
          BY ConstAssumption DEF Pids
        <4>2. ppid' \in [Pids -> Pids \cup {0}]
          BY <3>4, <4>1 DEF X2
        <4>3. state' \in [Pids -> {"RUNNING", "ZOMBIE", "DEAD"}]
          BY <3>4 DEF X2
        <4>4. collected' \in [Pids -> BOOLEAN]
          BY <3>4, Zenon DEF X2
        <4>. QED
          BY <3>4, <4>2, <4>3, <4>4, Zenon DEF X2
      <3>5. CASE X3(p)
        <4>1. CASE ppid[p] \in proc_list
          <5>1. ppid[p] \in Pids
            BY <4>1
          <5>2. /\ tgt' = [tgt EXCEPT ![p] = ppid[p]]
                /\ pc' = [pc EXCEPT ![p] = "x4"]
                /\ UNCHANGED <<val, again>>
            BY <3>5, <4>1, Zenon DEF X3
          <5>3. UNCHANGED <<idVars, proc_list, exitVars, vfork_done, sig_pending, cpuVars,
                            vfork_parent, history>>
            BY <3>5 DEF X3
          <5>. QED
            BY <5>1, <5>2, <5>3, Zenon
        <4>2. CASE ppid[p] \notin proc_list
          <5>1. ExitReturns(p)
            BY <3>5, <4>2 DEF X3
          <5>2. UNCHANGED <<idVars, proc_list, exitVars, vfork_done, sig_pending, cpuVars,
                            vfork_parent, history>>
            BY <3>5 DEF X3
          <5>. QED
            BY <5>1, <5>2, ExitReturnsType, Zenon
        <4>. QED
          BY <4>1, <4>2, Zenon
      <3>6. CASE X4(p)
        <4>1. sig_pending' \in [Pids -> SUBSET (KillSigs \cup {SIGCHLD})]
          BY <3>6, SMTT(60) DEF X4
        <4>2. pc' \in [Pids -> Labels]
          BY <3>6, Zenon DEF X4
        <4>3. \A q \in Pids : pc'[q] \in HoldsPid =>
                 q # p /\ pc[q] = pc'[q]
          BY <3>6, SMTT(60) DEF X4
        <4>4. val' \in [Pids -> Nat] /\ tgt' \in [Pids -> Pids \cup {0}]
          BY <3>6 DEF X4
        <4>5. again' \in [Pids -> BOOLEAN] /\ \A q \in Pids \ {p} : tgt'[q] = tgt[q]
          BY <3>6 DEF X4
        <4>. QED
          BY <3>6, <4>1, <4>2, <4>3, <4>4, <4>5, Zenon DEF X4
      <3>. QED
        BY <2>12, <3>1, <3>2, <3>3, <3>4, <3>5, <3>6, Zenon DEF ExitSteps
    <2>13. ASSUME NEW p \in Pids, ReapSteps(p) PROVE TypeInv'
      <3>1. proc_destroy(p)
        BY <2>13 DEF ReapSteps, ReapCollected, ReapTimeout
      <3>. QED
        BY <3>1 DEF proc_destroy
    <2>14. ASSUME NEW p \in Pids, NEW a \in WaitArgs, WaitCall(p, a[1], a[2]) PROVE TypeInv'
      <3>1. a[1] \in Pids \cup {0} /\ a[2] \in Nat
        <4>1. a \in (Pids \cup {0}) \X {0, WNOHANG}
          BY ConstAssumption
        <4>2. a[2] \in {0, 1}
          BY <4>1 DEF WNOHANG
        <4>. QED
          BY <4>1, <4>2
      <3>2. tgt' \in [Pids -> Pids \cup {0}] /\ val' \in [Pids -> Nat]
        BY <2>14, <3>1 DEF WaitCall
      <3>3. pc' = [pc EXCEPT ![p] = "wait1"] /\ \A q \in Pids \ {p} : tgt'[q] = tgt[q]
        BY <2>14 DEF WaitCall
      <3>. QED
        BY <2>14, <3>2, <3>3, SMTT(60) DEF WaitCall
    <2>15. ASSUME NEW p \in Pids, WaitSteps(p) PROVE TypeInv'
      <3>1. ASSUME NEW c \in Pids, Collect(p, c) PROVE TypeInv'
        <4>1. reports' \in [Pids -> Seq(Nat)]
          BY <3>1 DEF Collect
        <4>. QED
          BY <3>1, <4>1, SMTT(60) DEF Collect, WaitReturns
      <3>2. CASE WaitNothing(p)
        BY <3>2 DEF WaitNothing, WaitReturns
      <3>3. CASE WaitAgain(p)
        BY <3>3 DEF WaitAgain
      <3>4. CASE WaitSleep(p)
        BY <3>4 DEF WaitSleep
      <3>. QED
        BY <2>15, <3>1, <3>2, <3>3, <3>4, Zenon DEF WaitSteps
    <2>16. ASSUME NEW p \in Pids, WaitSpurious(p) PROVE TypeInv'
      BY <2>16 DEF WaitSpurious
    <2>17. CASE UNCHANGED vars
      BY <2>17, SMTT(30) DEF vars
    <2>. QED
      BY <2>1, <2>2, <2>3, <2>4, <2>5, <2>6, <2>7, <2>8, <2>9, <2>10, <2>11, <2>12, <2>13, Zenon,
         <2>14, <2>15, <2>16, <2>17 DEF Next, Calls, Internal
  <1>. QED
    BY <1>1, <1>2, PTL DEF Spec

\* Type correctness of the process table.
THEOREM TypeCorrect == Spec => []TypeOK
  <1>1. TypeInv => TypeOK
    BY SMTT(30) DEF TypeInv
  <1>. QED
    BY <1>1, TypeInvariant, PTL

-----------------------------------------------------------------------------
\* Pids above pid_counter have no struct; one whose host thread has not
\* started is as do_clone's calloc left it.
Fresh ==
    \A c \in Pids :
        /\ pc[c] = "unborn" <=> c > pid_counter
        /\ pc[c] \in {"unborn", "alloc", "added"} =>
              vfork_parent[c] = 0 /\ ~vfork_done[c] /\ state[c] = "RUNNING"

\* The struct a task is cloning is its own and has no host thread yet.
CloneTarget ==
    \A p \in Pids : pc[p] \in {"cloneadd", "clonerun"} =>
        /\ pc[tgt[p]] = IF pc[p] = "cloneadd" THEN "alloc" ELSE "added"
        /\ \A q \in Pids : pc[q] \in {"cloneadd", "clonerun"} /\ tgt[q] = tgt[p] => q = p

\* VforkExclusion, and the flag the parent spins on is still down.
ForkWindow ==
    \A c \in Pids :
        vfork_parent[c] # 0 /\ pc[c] \in Alive =>
            /\ pc[vfork_parent[c]] = "forkspin" /\ tgt[vfork_parent[c]] = c
            /\ ~vfork_done[c]

\* A task past the first section of proc_exit is no longer RUNNING.
Ended ==
    \A c \in Pids : pc[c] \in {"x1late", "x2", "x3", "x4", "reap"} => state[c] # "RUNNING"

TableInv == ListExact /\ Fresh /\ CloneTarget /\ ForkWindow /\ Ended /\ NoLostChildWake

\* The pids the variables of a task hold.
LEMMA Pointers ==
    ASSUME TypeInv
    PROVE  /\ \A q \in Pids : vfork_parent[q] \in Pids \cup {0} /\ tgt[q] \in Pids \cup {0}
           /\ \A q \in Pids : pc[q] \in {"cloneadd", "clonerun", "x4"} => tgt[q] \in Pids
  BY SMTT(30) DEF TypeInv, TypeOK, TgtOK, HoldsPid

\* A step that only moves one task from one place in a system call to another,
\* or on to proc_exit, keeps the invariant.
LEMMA LocalStep ==
    ASSUME TypeInv, TypeInv', TableInv, NEW p \in Pids,
           pc[p] \in {"user", "ret", "forkfind", "wait1", "wait2", "asleep"},
           NEW l \in {"user", "ret", "wait1", "wait2", "x1"},
           pc' = [pc EXCEPT ![p] = l],
           \A q \in Pids \ {p} : tgt'[q] = tgt[q],
           UNCHANGED <<pid_counter, ppid, tgid, proc_list, state, vfork_done, vfork_parent>>
    PROVE  TableInv'
  <1>1. \A q \in Pids : pc'[q] = IF q = p THEN l ELSE pc[q]
    BY DEF TypeInv, TypeOK
  <1>2. \A q \in Pids : vfork_parent[q] \in Pids \cup {0} /\ tgt[q] \in Pids \cup {0}
    BY Pointers
  <1>3. \A q \in Pids : pc[q] \in {"cloneadd", "clonerun"} => tgt[q] \in Pids
    BY Pointers
  <1>4. ListExact'
    BY <1>1 DEF TableInv, ListExact
  <1>5. Fresh'
    BY <1>1 DEF TableInv, Fresh
  <1>6. CloneTarget'
    BY <1>1, <1>3 DEF TableInv, CloneTarget
  <1>7. ForkWindow'
    <2>. SUFFICES ASSUME NEW c \in Pids, vfork_parent[c] # 0, pc'[c] \in Alive
                  PROVE  /\ pc'[vfork_parent[c]] = "forkspin" /\ tgt'[vfork_parent[c]] = c
                         /\ ~vfork_done[c]
      BY DEF ForkWindow
    <2>1. pc[c] \in Alive
      BY <1>1 DEF Alive
    <2>2. /\ pc[vfork_parent[c]] = "forkspin" /\ tgt[vfork_parent[c]] = c
          /\ ~vfork_done[c]
      BY <2>1 DEF TableInv, ForkWindow
    <2>. QED
      BY <1>1, <1>2, <2>2
  <1>8. Ended'
    BY <1>1 DEF TableInv, Ended
  <1>9. NoLostChildWake'
    <2>. SUFFICES ASSUME NEW q \in Pids, NEW c \in Pids,
                         pc'[q] = "asleep", c \in Zombies(q)', ~is_thread(c)'
                  PROVE  \/ pc'[c] \in {"x1", "x1late", "x2", "x3"}
                         \/ pc'[c] = "x4" /\ tgt'[c] = q
      BY DEF NoLostChildWake
    <2>1. q # p /\ pc[q] = "asleep"
      BY <1>1
    <2>2. c \in Zombies(q) /\ ~is_thread(c)
      BY <2>1 DEF Zombies, Candidates, is_thread
    <2>3. pc[c] \in {"x1", "x1late", "x2", "x3"} \/ (pc[c] = "x4" /\ tgt[c] = q)
      BY <2>1, <2>2 DEF TableInv, NoLostChildWake
    <2>. QED
      BY <1>1, <2>3
  <1>. QED
    BY <1>4, <1>5, <1>6, <1>7, <1>8, <1>9 DEF TableInv

\* execve ends the window of a forked child and changes nobody else.
LEMMA ExecStep ==
    ASSUME TypeInv, TypeInv', TableInv, NEW p \in Pids, proc_execve(p)
    PROVE  TableInv'
  <1>1. pc[p] = "user"
    BY DEF proc_execve
  <1>2. \A q \in Pids : pc'[q] = IF q = p THEN "ret" ELSE pc[q]
    BY DEF proc_execve, Goto, TypeInv, TypeOK
  <1>3. UNCHANGED <<pid_counter, ppid, tgid, proc_list, state, tgt>>
    BY DEF proc_execve, idVars, exitVars, localVars, cpuVars
  <1>4. \A q \in Pids : /\ vfork_parent'[q] = IF q = p THEN 0 ELSE vfork_parent[q]
                        /\ vfork_done'[q] = IF q = p THEN TRUE ELSE vfork_done[q]
    BY DEF proc_execve, TypeInv, TypeOK
  <1>5. ListExact'
    BY <1>1, <1>2, <1>3 DEF TableInv, ListExact
  <1>6. Fresh'
    BY <1>1, <1>2, <1>3, <1>4, Zenon DEF TableInv, Fresh
  <1>7. CloneTarget'
    BY <1>1, <1>2, <1>3, Pointers DEF TableInv, CloneTarget
  <1>8. ForkWindow'
    <2>. SUFFICES ASSUME NEW c \in Pids, vfork_parent'[c] # 0, pc'[c] \in Alive
                  PROVE  /\ pc'[vfork_parent'[c]] = "forkspin" /\ tgt'[vfork_parent'[c]] = c
                         /\ ~vfork_done'[c]
      BY DEF ForkWindow
    <2>1. vfork_parent[c] # 0 /\ pc[c] \in Alive
      BY <1>2, <1>4, Zenon DEF Alive
    <2>2. /\ pc[vfork_parent[c]] = "forkspin" /\ tgt[vfork_parent[c]] = c
          /\ ~vfork_done[c]
      BY <2>1 DEF TableInv, ForkWindow
    <2>. QED
      BY <2>1, <2>2, <1>1, <1>2, <1>3, <1>4, Pointers, ZenonT(60)
  <1>9. Ended'
    BY <1>1, <1>2, <1>3 DEF TableInv, Ended
  <1>10. NoLostChildWake'
    BY <1>1, <1>2, <1>3 DEF TableInv, NoLostChildWake, Zombies, Candidates, is_thread
  <1>. QED
    BY <1>5, <1>6, <1>7, <1>8, <1>9, <1>10 DEF TableInv

\* fork opens the window of a child that had no struct before.
LEMMA ForkStep ==
    ASSUME TypeInv, TypeInv', TableInv, NEW p \in Pids, proc_fork(p)
    PROVE  TableInv'
  <1>1. pc[p] = "user"
    BY DEF proc_fork
  <1>2. pid_counter + 1 \in Pids
    BY NextPid DEF proc_fork, proc_create, TypeInv
  <1>3. pc[pid_counter + 1] = "unborn"
    BY <1>2 DEF TableInv, Fresh, TypeInv, TypeOK, Pids
  <1>4. \A q \in Pids : pc'[q] = IF q = p THEN "forkspin"
                                  ELSE IF q = pid_counter + 1 THEN "user" ELSE pc[q]
    BY <1>1, <1>2, <1>3, Zenon DEF proc_fork, proc_create, TypeInv, TypeOK
  <1>5. \A q \in Pids : ppid'[q] = IF q = pid_counter + 1 THEN p ELSE ppid[q]
    BY <1>2 DEF proc_fork, proc_create, TypeInv, TypeOK
  <1>6. \A q \in Pids : vfork_parent'[q] = IF q = pid_counter + 1 THEN p ELSE vfork_parent[q]
    BY <1>2 DEF proc_fork, proc_create, TypeInv, TypeOK
  <1>7. \A q \in Pids : tgt'[q] = IF q = p THEN pid_counter + 1 ELSE tgt[q]
    BY <1>2 DEF proc_fork, proc_create, TypeInv, TypeOK
  <1>8. pid_counter' = pid_counter + 1 /\ proc_list' = proc_list \cup {pid_counter + 1}
    BY DEF proc_fork, proc_create
  <1>9. UNCHANGED <<tgid, state, vfork_done>>
    BY DEF proc_fork, proc_create, idVars, exitVars, localVars, cpuVars
  <1>10. pid_counter \in Nat /\ Pids \subseteq Nat
    BY DEF TypeInv, TypeOK, Pids
  <1>11. vfork_parent[pid_counter + 1] = 0 /\ ~vfork_done[pid_counter + 1] /\ state[pid_counter + 1] = "RUNNING"
    BY <1>2, <1>3 DEF TableInv, Fresh
  <1>12. ListExact'
    BY <1>1, <1>2, <1>3, <1>4, <1>8 DEF TableInv, ListExact
  <1>13. Fresh'
    BY <1>1, <1>2, <1>3, <1>4, <1>6, <1>8, <1>9, <1>10 DEF TableInv, Fresh
  <1>14. CloneTarget'
    BY <1>1, <1>2, <1>3, <1>4, <1>7, Pointers DEF TableInv, CloneTarget
  <1>15. ForkWindow'
    <2>. SUFFICES ASSUME NEW c \in Pids, vfork_parent'[c] # 0, pc'[c] \in Alive
                  PROVE  /\ pc'[vfork_parent'[c]] = "forkspin" /\ tgt'[vfork_parent'[c]] = c
                         /\ ~vfork_done'[c]
      BY DEF ForkWindow
    <2>1. CASE c = pid_counter + 1
      BY <2>1, <1>1, <1>2, <1>3, <1>4, <1>6, <1>7, <1>9, <1>11
    <2>2. CASE ~(c = pid_counter + 1)
      <3>1. vfork_parent[c] # 0 /\ pc[c] \in Alive
        BY <2>2, <1>1, <1>2, <1>3, <1>4, <1>6, <1>7, <1>9, Pointers DEF Alive
      <3>2. /\ pc[vfork_parent[c]] = "forkspin" /\ tgt[vfork_parent[c]] = c
            /\ ~vfork_done[c]
        BY <3>1 DEF TableInv, ForkWindow
      <3>. QED
        BY <2>2, <3>1, <3>2, <1>1, <1>2, <1>3, <1>4, <1>6, <1>7, <1>9, Pointers
    <2>. QED
      BY <2>1, <2>2
  <1>16. Ended'
    BY <1>1, <1>2, <1>3, <1>4, <1>9, <1>11 DEF TableInv, Ended
  <1>17. NoLostChildWake'
    <2>. SUFFICES ASSUME NEW q \in Pids, NEW c \in Pids,
                         pc'[q] = "asleep", c \in Zombies(q)', ~is_thread(c)'
                  PROVE  \/ pc'[c] \in {"x1", "x1late", "x2", "x3"}
                         \/ pc'[c] = "x4" /\ tgt'[c] = q
      BY DEF NoLostChildWake
    <2>1. q # p /\ pc[q] = "asleep"
      BY <1>1, <1>2, <1>3, <1>4, <1>7
    <2>2. c \in Zombies(q) /\ ~is_thread(c)
      BY <2>1, <1>1, <1>2, <1>3, <1>4, <1>5, <1>7, <1>8, <1>9, <1>11 DEF Zombies,
         Candidates, is_thread
    <2>3. pc[c] \in {"x1", "x1late", "x2", "x3"} \/ (pc[c] = "x4" /\ tgt[c] = q)
      BY <2>1, <2>2 DEF TableInv, NoLostChildWake
    <2>. QED
      BY <2>1, <2>2, <2>3, <1>1, <1>2, <1>3, <1>4, <1>7
  <1>. QED
    BY <1>12, <1>13, <1>14, <1>15, <1>16, <1>17 DEF TableInv

\* A failed fork uses up a pid.
LEMMA ForkNoMemStep ==
    ASSUME TypeInv, TypeInv', TableInv, NEW p \in Pids, ForkNoMem(p)
    PROVE  TableInv'
  <1>1. pc[p] = "user"
    BY DEF ForkNoMem
  <1>2. pid_counter + 1 \in Pids
    BY NextPid DEF ForkNoMem, TypeInv
  <1>3. pc[pid_counter + 1] = "unborn"
    BY <1>2 DEF TableInv, Fresh, TypeInv, TypeOK, Pids
  <1>4. \A q \in Pids : pc'[q] = IF q = p THEN "ret"
                                  ELSE IF q = pid_counter + 1 THEN "gone" ELSE pc[q]
    BY <1>1, <1>2, <1>3, Zenon DEF ForkNoMem, TypeInv, TypeOK
  <1>5. pid_counter' = pid_counter + 1
    BY DEF ForkNoMem
  <1>6. UNCHANGED <<ppid, tgid, proc_list, state, vfork_done, vfork_parent, tgt>>
    BY DEF ForkNoMem, idVars, exitVars, localVars, cpuVars
  <1>7. pid_counter \in Nat /\ Pids \subseteq Nat
    BY DEF TypeInv, TypeOK, Pids
  <1>8. ListExact'
    BY <1>1, <1>2, <1>3, <1>4, <1>6 DEF TableInv, ListExact
  <1>9. Fresh'
    BY <1>1, <1>2, <1>3, <1>4, <1>5, <1>6, <1>7 DEF TableInv, Fresh
  <1>10. CloneTarget'
    BY <1>1, <1>2, <1>3, <1>4, <1>6, Pointers DEF TableInv, CloneTarget
  <1>11. ForkWindow'
    <2>. SUFFICES ASSUME NEW c \in Pids, vfork_parent'[c] # 0, pc'[c] \in Alive
                  PROVE  /\ pc'[vfork_parent'[c]] = "forkspin" /\ tgt'[vfork_parent'[c]] = c
                         /\ ~vfork_done'[c]
      BY DEF ForkWindow
    <2>1. vfork_parent[c] # 0 /\ pc[c] \in Alive
      BY <1>1, <1>2, <1>3, <1>4, <1>6 DEF Alive
    <2>2. /\ pc[vfork_parent[c]] = "forkspin" /\ tgt[vfork_parent[c]] = c
          /\ ~vfork_done[c]
      BY <2>1 DEF TableInv, ForkWindow
    <2>. QED
      BY <2>1, <2>2, <1>1, <1>2, <1>3, <1>4, <1>6, Pointers
  <1>12. Ended'
    BY <1>1, <1>2, <1>3, <1>4, <1>6 DEF TableInv, Ended
  <1>13. NoLostChildWake'
    BY <1>1, <1>2, <1>3, <1>4, <1>6 DEF TableInv, NoLostChildWake, Zombies, Candidates,
       is_thread
  <1>. QED
    BY <1>8, <1>9, <1>10, <1>11, <1>12, <1>13 DEF TableInv

\* A parent leaves its spin only when its child has left the window.
LEMMA ForkDoneStep ==
    ASSUME TypeInv, TypeInv', TableInv, NEW p \in Pids, ForkDone(p)
    PROVE  TableInv'
  <1>1. pc[p] = "forkspin" /\ vfork_done[tgt[p]]
    BY SMTT(60) DEF ForkDone
  <1>2. \A q \in Pids : pc'[q] = IF q = p THEN "forkfind" ELSE pc[q]
    BY SMTT(60) DEF ForkDone, Goto, TypeInv, TypeOK
  <1>3. UNCHANGED <<pid_counter, ppid, tgid, proc_list, state, vfork_done, vfork_parent, tgt>>
    BY SMTT(60) DEF ForkDone, idVars, exitVars, localVars, cpuVars
  <1>4. ListExact'
    BY <1>1, <1>2, <1>3 DEF TableInv, ListExact
  <1>5. Fresh'
    BY <1>1, <1>2, <1>3 DEF TableInv, Fresh
  <1>6. CloneTarget'
    BY <1>1, <1>2, <1>3, Pointers DEF TableInv, CloneTarget
  <1>7. ForkWindow'
    BY <1>1, <1>2, <1>3, Pointers DEF TableInv, ForkWindow, Alive
  <1>8. Ended'
    BY <1>1, <1>2, <1>3 DEF TableInv, Ended
  <1>9. NoLostChildWake'
    BY <1>1, <1>2, <1>3 DEF TableInv, NoLostChildWake, Zombies, Candidates, is_thread
  <1>. QED
    BY <1>4, <1>5, <1>6, <1>7, <1>8, <1>9 DEF TableInv

\* clone takes a struct that is not in the list.
LEMMA CloneAllocStep ==
    ASSUME TypeInv, TypeInv', TableInv, NEW p \in Pids, NEW kind \in CloneKinds,
           CloneAlloc(p, kind)
    PROVE  TableInv'
  <1>1. pc[p] = "user"
    BY DEF CloneAlloc
  <1>2. pid_counter + 1 \in Pids
    BY NextPid DEF CloneAlloc, TypeInv
  <1>3. pc[pid_counter + 1] = "unborn"
    BY <1>2 DEF TableInv, Fresh, TypeInv, TypeOK, Pids
  <1>4. \A q \in Pids : pc'[q] = IF q = p THEN "cloneadd"
                                  ELSE IF q = pid_counter + 1 THEN "alloc" ELSE pc[q]
    BY <1>1, <1>2, <1>3, Zenon DEF CloneAlloc, TypeInv, TypeOK
  <1>5. \A q \in Pids : /\ q # pid_counter + 1 => ppid'[q] = ppid[q] /\ tgid'[q] = tgid[q]
                        /\ tgt'[q] = IF q = p THEN pid_counter + 1 ELSE tgt[q]
    BY <1>2 DEF CloneAlloc, TypeInv, TypeOK
  <1>6. pid_counter' = pid_counter + 1
    BY DEF CloneAlloc
  <1>7. UNCHANGED <<proc_list, state, vfork_done, vfork_parent>>
    BY DEF CloneAlloc, idVars, exitVars, localVars, cpuVars
  <1>8. pid_counter \in Nat /\ Pids \subseteq Nat
    BY DEF TypeInv, TypeOK, Pids
  <1>9. pid_counter + 1 \notin proc_list
    BY <1>2, <1>3 DEF TableInv, ListExact
  <1>10. ListExact'
    BY <1>1, <1>2, <1>3, <1>4, <1>7, <1>9 DEF TableInv, ListExact
  <1>11. Fresh'
    <2>. SUFFICES ASSUME NEW c \in Pids
                  PROVE  /\ pc'[c] = "unborn" <=> c > pid_counter + 1
                         /\ pc'[c] \in {"unborn", "alloc", "added"}
                              => vfork_parent[c] = 0 /\ ~vfork_done[c] /\ state[c] = "RUNNING"
      BY <1>6, <1>7 DEF Fresh
    <2>1. /\ pc[c] = "unborn" <=> c > pid_counter
          /\ pc[c] \in {"unborn", "alloc", "added"}
               => vfork_parent[c] = 0 /\ ~vfork_done[c] /\ state[c] = "RUNNING"
      BY DEF TableInv, Fresh
    <2>2. c > pid_counter + 1 <=> c > pid_counter /\ c # pid_counter + 1
      BY <1>8
    <2>. QED  BY <1>1, <1>3, <1>4, <2>1, <2>2
  <1>12. CloneTarget'
    BY <1>1, <1>2, <1>3, <1>4, <1>5, Pointers, SMTT(60) DEF TableInv, CloneTarget
  <1>13. ForkWindow'
    <2>. SUFFICES ASSUME NEW c \in Pids, vfork_parent'[c] # 0, pc'[c] \in Alive
                  PROVE  /\ pc'[vfork_parent'[c]] = "forkspin" /\ tgt'[vfork_parent'[c]] = c
                         /\ ~vfork_done'[c]
      BY DEF ForkWindow
    <2>1. vfork_parent[c] # 0 /\ pc[c] \in Alive
      BY <1>1, <1>2, <1>3, <1>4, <1>7 DEF Alive
    <2>2. /\ pc[vfork_parent[c]] = "forkspin" /\ tgt[vfork_parent[c]] = c
          /\ ~vfork_done[c]
      BY <2>1 DEF TableInv, ForkWindow
    <2>. QED
      BY <2>1, <2>2, <1>1, <1>2, <1>3, <1>4, <1>5, <1>7, Pointers
  <1>14. Ended'
    BY <1>1, <1>2, <1>3, <1>4, <1>7 DEF TableInv, Ended
  <1>15. NoLostChildWake'
    <2>. SUFFICES ASSUME NEW q \in Pids, NEW c \in Pids,
                         pc'[q] = "asleep", c \in Zombies(q)', ~is_thread(c)'
                  PROVE  \/ pc'[c] \in {"x1", "x1late", "x2", "x3"}
                         \/ pc'[c] = "x4" /\ tgt'[c] = q
      BY DEF NoLostChildWake
    <2>1. q # p /\ pc[q] = "asleep"
      BY <1>1, <1>2, <1>3, <1>4, <1>5
    <2>2. c \in Zombies(q) /\ ~is_thread(c)
      BY <2>1, <1>1, <1>2, <1>3, <1>4, <1>5, <1>7, <1>9, SMTT(60) DEF Zombies, Candidates, is_thread
    <2>3. pc[c] \in {"x1", "x1late", "x2", "x3"} \/ (pc[c] = "x4" /\ tgt[c] = q)
      BY <2>1, <2>2 DEF TableInv, NoLostChildWake
    <2>. QED
      BY <2>1, <2>2, <2>3, <1>1, <1>2, <1>3, <1>4, <1>5
  <1>. QED
    BY <1>10, <1>11, <1>12, <1>13, <1>14, <1>15 DEF TableInv

\* The cloned task joins the list.
LEMMA CloneAddStep ==
    ASSUME TypeInv, TypeInv', TableInv, NEW p \in Pids, CloneAdd(p)
    PROVE  TableInv'
  <1>1. pc[p] = "cloneadd"
    BY SMTT(30) DEF CloneAdd
  <1>2. tgt[p] \in Pids /\ pc[tgt[p]] = "alloc"
    BY <1>1, Pointers, SMTT(30) DEF TableInv, CloneTarget
  <1>3. \A q \in Pids : pc'[q] = IF q = p THEN "clonerun" ELSE IF q = tgt[p] THEN "added" ELSE pc[q]
    BY <1>1, <1>2, ZenonT(60) DEF CloneAdd, TypeInv, TypeOK
  <1>4. \A q \in Pids : tgt'[q] = tgt[q]
    BY SMTT(30) DEF CloneAdd, localVars, TypeInv, TypeOK
  <1>5. proc_list' = proc_list \cup {tgt[p]}
    BY SMTT(30) DEF CloneAdd
  <1>6. UNCHANGED <<pid_counter, ppid, tgid, state, vfork_done, vfork_parent>>
    BY Zenon DEF CloneAdd, idVars, exitVars, localVars, cpuVars
  <1>7. vfork_parent[tgt[p]] = 0 /\ ~vfork_done[tgt[p]] /\ state[tgt[p]] = "RUNNING"
    BY <1>2 DEF TableInv, Fresh
  <1>8. ListExact'
    BY <1>1, <1>2, <1>3, <1>5, SMTT(30) DEF TableInv, ListExact
  <1>9. Fresh'
    BY <1>1, <1>2, <1>3, <1>6, <1>7 DEF TableInv, Fresh
  <1>10. CloneTarget'
    BY <1>1, <1>2, <1>3, <1>4, <1>5, Pointers, <1>7 DEF TableInv, CloneTarget
  <1>11. ForkWindow'
    <2>. SUFFICES ASSUME NEW c \in Pids, vfork_parent'[c] # 0, pc'[c] \in Alive
                  PROVE  /\ pc'[vfork_parent'[c]] = "forkspin" /\ tgt'[vfork_parent'[c]] = c
                         /\ ~vfork_done'[c]
      BY DEF ForkWindow
    <2>1. vfork_parent[c] # 0 /\ pc[c] \in Alive
      BY <1>1, <1>2, <1>3, <1>6, <1>7 DEF Alive
    <2>2. /\ pc[vfork_parent[c]] = "forkspin" /\ tgt[vfork_parent[c]] = c
          /\ ~vfork_done[c]
      BY <2>1 DEF TableInv, ForkWindow
    <2>. QED
      BY <2>1, <2>2, <1>1, <1>2, <1>3, <1>4, <1>6, Pointers
  <1>12. Ended'
    BY <1>1, <1>2, <1>3, <1>6, <1>7, SMTT(60) DEF TableInv, Ended
  <1>13. NoLostChildWake'
    <2>. SUFFICES ASSUME NEW q \in Pids, NEW c \in Pids,
                         pc'[q] = "asleep", c \in Zombies(q)', ~is_thread(c)'
                  PROVE  \/ pc'[c] \in {"x1", "x1late", "x2", "x3"}
                         \/ pc'[c] = "x4" /\ tgt'[c] = q
      BY SMTT(60) DEF NoLostChildWake
    <2>1. q # p /\ pc[q] = "asleep"
      BY <1>1, <1>2, <1>3, <1>4
    <2>2. c \in Zombies(q) /\ ~is_thread(c)
      BY <2>1, <1>1, <1>2, <1>3, <1>4, <1>5, <1>6, <1>7, SMTT(60) DEF Zombies, Candidates, is_thread
    <2>3. pc[c] \in {"x1", "x1late", "x2", "x3"} \/ (pc[c] = "x4" /\ tgt[c] = q)
      BY <2>1, <2>2 DEF TableInv, NoLostChildWake
    <2>. QED
      BY <2>1, <2>2, <2>3, <1>1, <1>2, <1>3, <1>4
  <1>. QED
    BY <1>8, <1>9, <1>10, <1>11, <1>12, <1>13 DEF TableInv

\* The cloned task runs.
LEMMA CloneRunStep ==
    ASSUME TypeInv, TypeInv', TableInv, NEW p \in Pids, CloneRun(p)
    PROVE  TableInv'
  <1>1. pc[p] = "clonerun"
    BY DEF CloneRun
  <1>2. tgt[p] \in Pids /\ pc[tgt[p]] = "added"
    BY <1>1, Pointers, SMTT(30) DEF TableInv, CloneTarget
  <1>3. \A q \in Pids : pc'[q] = IF q = p THEN "ret" ELSE IF q = tgt[p] THEN "user" ELSE pc[q]
    BY <1>1, <1>2, ZenonT(60) DEF CloneRun, TypeInv, TypeOK
  <1>4. \A q \in Pids : tgt'[q] = IF q = p THEN 0 ELSE tgt[q]
    BY DEF CloneRun, localVars, TypeInv, TypeOK
  <1>5. proc_list' = proc_list
    BY DEF CloneRun
  <1>6. UNCHANGED <<pid_counter, ppid, tgid, state, vfork_done, vfork_parent>>
    BY DEF CloneRun, idVars, exitVars, localVars, cpuVars
  <1>7. vfork_parent[tgt[p]] = 0 /\ ~vfork_done[tgt[p]] /\ state[tgt[p]] = "RUNNING"
    BY <1>2 DEF TableInv, Fresh
  <1>8. ListExact'
    BY <1>1, <1>2, <1>3, <1>5, SMTT(30) DEF TableInv, ListExact
  <1>9. Fresh'
    BY <1>1, <1>2, <1>3, <1>6, <1>7 DEF TableInv, Fresh
  <1>10. CloneTarget'
    BY <1>1, <1>2, <1>3, <1>4, Pointers, <1>7 DEF TableInv, CloneTarget
  <1>11. ForkWindow'
    <2>. SUFFICES ASSUME NEW c \in Pids, vfork_parent'[c] # 0, pc'[c] \in Alive
                  PROVE  /\ pc'[vfork_parent'[c]] = "forkspin" /\ tgt'[vfork_parent'[c]] = c
                         /\ ~vfork_done'[c]
      BY DEF ForkWindow
    <2>1. vfork_parent[c] # 0 /\ pc[c] \in Alive
      BY <1>1, <1>2, <1>3, <1>6, <1>7 DEF Alive
    <2>2. /\ pc[vfork_parent[c]] = "forkspin" /\ tgt[vfork_parent[c]] = c
          /\ ~vfork_done[c]
      BY <2>1, SMTT(60) DEF TableInv, ForkWindow
    <2>. QED
      BY <2>1, <2>2, <1>1, <1>2, <1>3, <1>4, <1>6, Pointers
  <1>12. Ended'
    BY <1>1, <1>2, <1>3, <1>6, <1>7 DEF TableInv, Ended
  <1>13. NoLostChildWake'
    <2>. SUFFICES ASSUME NEW q \in Pids, NEW c \in Pids,
                         pc'[q] = "asleep", c \in Zombies(q)', ~is_thread(c)'
                  PROVE  \/ pc'[c] \in {"x1", "x1late", "x2", "x3"}
                         \/ pc'[c] = "x4" /\ tgt'[c] = q
      BY DEF NoLostChildWake
    <2>1. q # p /\ pc[q] = "asleep"
      BY <1>1, <1>2, <1>3, <1>4, SMTT(30)
    <2>2. c \in Zombies(q) /\ ~is_thread(c)
      BY <2>1, <1>1, <1>2, <1>3, <1>4, <1>5, <1>6, <1>7, SMTT(60) DEF Zombies, Candidates, is_thread
    <2>3. pc[c] \in {"x1", "x1late", "x2", "x3"} \/ (pc[c] = "x4" /\ tgt[c] = q)
      BY <2>1, <2>2 DEF TableInv, NoLostChildWake
    <2>. QED
      BY <2>1, <2>2, <2>3, <1>1, <1>2, <1>3, <1>4, SMTT(60)
  <1>. QED
    BY <1>8, <1>9, <1>10, <1>11, <1>12, <1>13 DEF TableInv

\* A failed clone frees the struct it made.
LEMMA CloneNoMemStep ==
    ASSUME TypeInv, TypeInv', TableInv, NEW p \in Pids, CloneNoMem(p)
    PROVE  TableInv'
  <1>1. pc[p] \in {"cloneadd", "clonerun"}
    BY DEF CloneNoMem
  <1>2. tgt[p] \in Pids /\ pc[tgt[p]] \in {"alloc", "added"}
    BY <1>1, Pointers, SMTT(30) DEF TableInv, CloneTarget
  <1>3. \A q \in Pids : pc'[q] = IF q = p THEN "ret" ELSE IF q = tgt[p] THEN "gone" ELSE pc[q]
    BY <1>1, <1>2, ZenonT(60) DEF CloneNoMem, TypeInv, TypeOK
  <1>4. \A q \in Pids : tgt'[q] = IF q = p THEN 0 ELSE tgt[q]
    BY DEF CloneNoMem, localVars, TypeInv, TypeOK
  <1>5. proc_list' = proc_list \ {tgt[p]}
    BY DEF CloneNoMem
  <1>6. UNCHANGED <<pid_counter, ppid, tgid, state, vfork_done, vfork_parent>>
    BY DEF CloneNoMem, idVars, exitVars, localVars, cpuVars
  <1>7. vfork_parent[tgt[p]] = 0 /\ ~vfork_done[tgt[p]] /\ state[tgt[p]] = "RUNNING"
    BY <1>2 DEF TableInv, Fresh
  <1>8. ListExact'
    BY <1>1, <1>2, <1>3, <1>5 DEF TableInv, ListExact
  <1>9. Fresh'
    BY <1>1, <1>2, <1>3, <1>6, <1>7, SMTT(60) DEF TableInv, Fresh
  <1>10. CloneTarget'
    BY <1>1, <1>2, <1>3, <1>4, <1>5, Pointers, <1>7, SMTT(60) DEF TableInv, CloneTarget
  <1>11. ForkWindow'
    <2>. SUFFICES ASSUME NEW c \in Pids, vfork_parent'[c] # 0, pc'[c] \in Alive
                  PROVE  /\ pc'[vfork_parent'[c]] = "forkspin" /\ tgt'[vfork_parent'[c]] = c
                         /\ ~vfork_done'[c]
      BY DEF ForkWindow
    <2>1. vfork_parent[c] # 0 /\ pc[c] \in Alive
      BY <1>1, <1>2, <1>3, <1>6, <1>7 DEF Alive
    <2>2. /\ pc[vfork_parent[c]] = "forkspin" /\ tgt[vfork_parent[c]] = c
          /\ ~vfork_done[c]
      BY <2>1, SMTT(60) DEF TableInv, ForkWindow
    <2>. QED
      BY <2>1, <2>2, <1>1, <1>2, <1>3, <1>4, <1>6, Pointers
  <1>12. Ended'
    BY <1>1, <1>2, <1>3, <1>6, <1>7 DEF TableInv, Ended
  <1>13. NoLostChildWake'
    <2>. SUFFICES ASSUME NEW q \in Pids, NEW c \in Pids,
                         pc'[q] = "asleep", c \in Zombies(q)', ~is_thread(c)'
                  PROVE  \/ pc'[c] \in {"x1", "x1late", "x2", "x3"}
                         \/ pc'[c] = "x4" /\ tgt'[c] = q
      BY SMTT(30) DEF NoLostChildWake
    <2>1. q # p /\ pc[q] = "asleep"
      BY <1>1, <1>2, <1>3, <1>4, SMTT(60)
    <2>2. c \in Zombies(q) /\ ~is_thread(c)
      BY <2>1, <1>1, <1>2, <1>3, <1>4, <1>5, <1>6, <1>7, SMTT(60) DEF Zombies, Candidates, is_thread
    <2>3. pc[c] \in {"x1", "x1late", "x2", "x3"} \/ (pc[c] = "x4" /\ tgt[c] = q)
      BY <2>1, <2>2, SMTT(30) DEF TableInv, NoLostChildWake
    <2>. QED
      BY <2>1, <2>2, <2>3, <1>1, <1>2, <1>3, <1>4, SMTT(60)
  <1>. QED
    BY <1>8, <1>9, <1>10, <1>11, <1>12, <1>13 DEF TableInv

\* The first section of proc_exit, in one step or in two: the task ends.
LEMMA MarkStep ==
    ASSUME TypeInv, TypeInv', TableInv, NEW p \in Pids, X1(p) \/ X1Early(p) \/ X1Late(p)
    PROVE  TableInv'
  <1>1. pc[p] \in {"x1", "x1late"}
    BY DEF X1, X1Early, X1Late
  <1>2. \A q \in Pids \ {p} : pc'[q] = pc[q] /\ tgt'[q] = tgt[q]
    <2>1. \E l : pc' = [pc EXCEPT ![p] = l]
      BY DEF X1, X1Early, X1Late, ExitMark, ExitReturns, Goto
    <2>2. tgt' = tgt \/ tgt' = [tgt EXCEPT ![p] = 0]
      BY SMTT(60) DEF X1, X1Early, X1Late, ExitMark, ExitReturns, localVars
    <2>. QED
      BY <2>1, <2>2, ZenonT(60) DEF TypeInv, TypeOK
  <1>3. pc'[p] \in {"x1", "x1late", "x2", "reap"} /\ (~is_thread(p) => pc'[p] # "reap")
    <2>1. \E l \in {"x1", "x1late", "x2", "reap"} :
             pc' = [pc EXCEPT ![p] = l] /\ (~is_thread(p) => l # "reap")
      BY SMTT(30) DEF X1, X1Early, X1Late, ExitMark, ExitReturns, Goto
    <2>. QED
      BY <2>1, SMTT(60) DEF TypeInv, TypeOK
  <1>4. \A q \in Pids \ {p} : state'[q] = state[q] /\ vfork_done'[q] = vfork_done[q]
    BY ZenonT(60) DEF X1, X1Early, X1Late, ExitMark, TypeInv, TypeOK
  <1>5. state'[p] # "RUNNING"
    BY Zenon DEF X1, X1Early, X1Late, TableInv, Ended, TypeInv, TypeOK
  <1>6. UNCHANGED <<pid_counter, ppid, tgid, proc_list, vfork_parent>>
    BY Zenon DEF X1, X1Early, X1Late, ExitMark, idVars
  <1>7. ListExact'
    BY <1>1, <1>2, <1>3, <1>6, Zenon DEF TableInv, ListExact
  <1>8. Fresh'
    BY <1>1, <1>2, <1>3, <1>4, <1>5, <1>6, Zenon DEF TableInv, Fresh
  <1>9. CloneTarget'
    BY <1>1, <1>2, <1>3, Pointers DEF TableInv, CloneTarget
  <1>10. ForkWindow'
    <2>. SUFFICES ASSUME NEW c \in Pids, vfork_parent'[c] # 0, pc'[c] \in Alive
                  PROVE  /\ pc'[vfork_parent'[c]] = "forkspin" /\ tgt'[vfork_parent'[c]] = c
                         /\ ~vfork_done'[c]
      BY SMTT(60) DEF ForkWindow
    <2>1. vfork_parent[c] # 0 /\ pc[c] \in Alive
      BY <1>1, <1>2, <1>3, <1>6 DEF Alive
    <2>2. /\ pc[vfork_parent[c]] = "forkspin" /\ tgt[vfork_parent[c]] = c
          /\ ~vfork_done[c]
      BY <2>1, SMTT(60) DEF TableInv, ForkWindow
    <2>. QED
      BY <2>1, <2>2, <1>1, <1>2, <1>3, <1>4, <1>6, Pointers, Zenon DEF Alive
  <1>11. Ended'
    BY <1>1, <1>2, <1>3, <1>4, <1>5, SMTT(60) DEF TableInv, Ended
  <1>12. NoLostChildWake'
    <2>. SUFFICES ASSUME NEW q \in Pids, NEW c \in Pids,
                         pc'[q] = "asleep", c \in Zombies(q)', ~is_thread(c)'
                  PROVE  \/ pc'[c] \in {"x1", "x1late", "x2", "x3"}
                         \/ pc'[c] = "x4" /\ tgt'[c] = q
      BY SMTT(60) DEF NoLostChildWake
    <2>1. q # p /\ pc[q] = "asleep"
      BY <1>2, <1>3, SMTT(60)
    <2>2. CASE c = p
      BY <2>2, <1>3, <1>6, SMTT(60) DEF is_thread
    <2>3. CASE c # p
      <3>1. c \in Zombies(q) /\ ~is_thread(c)
        BY <2>1, <2>3, <1>2, <1>4, <1>6, ZenonT(60) DEF Zombies, Candidates, is_thread
      <3>2. pc[c] \in {"x1", "x1late", "x2", "x3"} \/ (pc[c] = "x4" /\ tgt[c] = q)
        BY <2>1, <3>1, SMTT(30) DEF TableInv, NoLostChildWake
      <3>. QED
        BY <2>3, <3>2, <1>2, SMTT(30)
    <2>. QED
      BY <2>2, <2>3, SMTT(60)
  <1>. QED
    BY <1>7, <1>8, <1>9, <1>10, <1>11, <1>12, SMTT(60) DEF TableInv

\* The second section: zombies turn DEAD as they change parent, so pid 1 is owed no wake.
LEMMA ReparentStep ==
    ASSUME TypeInv, TypeInv', TableInv, NEW p \in Pids, X2(p)
    PROVE  TableInv'
  <1>1. pc[p] = "x2"
    BY SMTT(60) DEF X2
  <1>2. \A q \in Pids : pc'[q] = IF q = p THEN "x3" ELSE pc[q]
    BY SMTT(60) DEF X2, Goto, TypeInv, TypeOK
  <1>3. \A c \in Pids : c \notin proc_list => ppid'[c] = ppid[c] /\ state'[c] = state[c]
    BY DEF X2, TypeInv, TypeOK
  <1>4. \A c \in Pids : /\ state'[c] = "RUNNING" <=> state[c] = "RUNNING"
                        /\ state'[c] = "ZOMBIE" => state[c] = "ZOMBIE" /\ ppid'[c] = ppid[c]
    BY Zenon DEF X2, TypeInv, TypeOK
  <1>5. UNCHANGED <<pid_counter, tgid, proc_list, vfork_done, vfork_parent, tgt>>
    BY DEF X2, idVars, exitVars, localVars, cpuVars
  <1>6. ListExact'
    BY <1>1, <1>2, <1>3, <1>5 DEF TableInv, ListExact
  <1>7. Fresh'
    BY <1>1, <1>2, <1>4, <1>5 DEF TableInv, Fresh
  <1>8. CloneTarget'
    BY <1>1, <1>2, <1>5, Pointers DEF TableInv, CloneTarget
  <1>9. ForkWindow'
    <2>. SUFFICES ASSUME NEW c \in Pids, vfork_parent'[c] # 0, pc'[c] \in Alive
                  PROVE  /\ pc'[vfork_parent'[c]] = "forkspin" /\ tgt'[vfork_parent'[c]] = c
                         /\ ~vfork_done'[c]
      BY DEF ForkWindow
    <2>1. vfork_parent[c] # 0 /\ pc[c] \in Alive
      BY <1>1, <1>2, <1>5 DEF Alive
    <2>2. /\ pc[vfork_parent[c]] = "forkspin" /\ tgt[vfork_parent[c]] = c
          /\ ~vfork_done[c]
      BY <2>1 DEF TableInv, ForkWindow
    <2>. QED
      BY <2>1, <2>2, <1>1, <1>2, <1>5, Pointers
  <1>10. Ended'
    BY <1>1, <1>2, <1>3, <1>4 DEF TableInv, Ended
  <1>11. NoLostChildWake'
    <2>. SUFFICES ASSUME NEW q \in Pids, NEW c \in Pids,
                         pc'[q] = "asleep", c \in Zombies(q)', ~is_thread(c)'
                  PROVE  \/ pc'[c] \in {"x1", "x1late", "x2", "x3"}
                         \/ pc'[c] = "x4" /\ tgt'[c] = q
      BY SMTT(30) DEF NoLostChildWake
    <2>1. q # p /\ pc[q] = "asleep"
      BY <1>1, <1>2, <1>5
    <2>2. c \in Zombies(q) /\ ~is_thread(c)
      BY <2>1, <1>1, <1>2, <1>4, <1>5, SMTT(60) DEF Zombies, Candidates, is_thread
    <2>3. pc[c] \in {"x1", "x1late", "x2", "x3"} \/ (pc[c] = "x4" /\ tgt[c] = q)
      BY <2>1, <2>2 DEF TableInv, NoLostChildWake
    <2>. QED
      BY <2>1, <2>2, <2>3, <1>1, <1>2, <1>5
  <1>. QED
    BY <1>6, <1>7, <1>8, <1>9, <1>10, <1>11 DEF TableInv

\* The parent looked up is the one asleep for this child, if there is one.
LEMMA FindParentStep ==
    ASSUME TypeInv, TypeInv', TableInv, NEW p \in Pids, X3(p)
    PROVE  TableInv'
  <1>1. pc[p] = "x3"
    BY DEF X3
  <1>2. \A q \in Pids \ {p} : pc'[q] = pc[q] /\ tgt'[q] = tgt[q]
    <2>1. \E l : pc' = [pc EXCEPT ![p] = l]
      BY DEF X3, ExitReturns, Goto
    <2>2. \E t : tgt' = [tgt EXCEPT ![p] = t]
      BY SMTT(60) DEF X3, ExitReturns
    <2>. QED
      BY <2>1, <2>2, SMTT(60) DEF TypeInv, TypeOK
  <1>3. pc'[p] \in {"x1", "x4", "reap"}
    BY DEF X3, ExitReturns, Goto, TypeInv, TypeOK
  <1>4. ppid[p] \in proc_list => pc'[p] = "x4" /\ tgt'[p] = ppid[p]
    BY SMTT(30) DEF X3, Goto, TypeInv, TypeOK
  <1>5. state[p] # "RUNNING"
    BY <1>1, SMTT(30) DEF TableInv, Ended
  <1>6. UNCHANGED <<pid_counter, ppid, tgid, proc_list, state, vfork_done, vfork_parent>>
    BY Zenon DEF X3, idVars, exitVars
  <1>7. ListExact'
    BY <1>1, <1>2, <1>3, <1>4, <1>6, ZenonT(60) DEF TableInv, ListExact
  <1>8. Fresh'
    BY <1>1, <1>2, <1>3, <1>4, <1>5, <1>6 DEF TableInv, Fresh
  <1>9. CloneTarget'
    BY <1>1, <1>2, <1>3, <1>4, Pointers DEF TableInv, CloneTarget
  <1>10. ForkWindow'
    <2>. SUFFICES ASSUME NEW c \in Pids, vfork_parent'[c] # 0, pc'[c] \in Alive
                  PROVE  /\ pc'[vfork_parent'[c]] = "forkspin" /\ tgt'[vfork_parent'[c]] = c
                         /\ ~vfork_done'[c]
      BY DEF ForkWindow
    <2>1. vfork_parent[c] # 0 /\ pc[c] \in Alive
      BY <1>1, <1>2, <1>3, <1>6 DEF Alive
    <2>2. /\ pc[vfork_parent[c]] = "forkspin" /\ tgt[vfork_parent[c]] = c
          /\ ~vfork_done[c]
      BY <2>1, SMTT(60) DEF TableInv, ForkWindow
    <2>. QED
      BY <2>1, <2>2, <1>1, <1>2, <1>3, <1>6, Pointers
  <1>11. Ended'
    BY <1>1, <1>2, <1>3, <1>4, <1>5, <1>6, SMTT(60) DEF TableInv, Ended
  <1>12. NoLostChildWake'
    <2>. SUFFICES ASSUME NEW q \in Pids, NEW c \in Pids,
                         pc'[q] = "asleep", c \in Zombies(q)', ~is_thread(c)'
                  PROVE  \/ pc'[c] \in {"x1", "x1late", "x2", "x3"}
                         \/ pc'[c] = "x4" /\ tgt'[c] = q
      BY DEF NoLostChildWake
    <2>1. q # p /\ pc[q] = "asleep" /\ q \in proc_list
      BY <1>2, <1>3 DEF TableInv, ListExact
    <2>2. c \in Zombies(q) /\ ~is_thread(c)
      BY <2>1, <1>2, <1>6 DEF Zombies, Candidates, is_thread
    <2>3. CASE c = p
      BY <2>1, <2>2, <2>3, <1>4, SMTT(60) DEF Zombies, Candidates
    <2>4. CASE c # p
      BY <2>1, <2>2, <2>4, <1>2 DEF TableInv, NoLostChildWake
    <2>. QED
      BY <2>3, <2>4
  <1>. QED
    BY <1>7, <1>8, <1>9, <1>10, <1>11, <1>12 DEF TableInv

\* The broadcast wakes the parent this child was to wake.
LEMMA BroadcastStep ==
    ASSUME TypeInv, TypeInv', TableInv, NEW p \in Pids, X4(p)
    PROVE  TableInv'
  <1>1. pc[p] = "x4"
    BY DEF X4
  <1>2. tgt[p] \in Pids
    BY <1>1, Pointers
  <1>3. \A q \in Pids \ {p} :
           pc'[q] = IF q = tgt[p] /\ q \in proc_list /\ pc[q] = "asleep" THEN "wait1" ELSE pc[q]
    <2>1. \E l : pc' = [pc EXCEPT ![p] = l,
                               ![tgt[p]] = IF tgt[p] \in proc_list /\ @ = "asleep" THEN "wait1" ELSE @]
      BY ZenonT(60) DEF X4
    <2>2. pc \in [Pids -> Labels]
      BY SMTT(60) DEF TypeInv, TypeOK
    <2>. QED
      BY <1>2, <2>1, <2>2, SMTT(30)
  <1>4. pc'[p] \in {"x1", "reap"}
    <2>1. \E l \in {"x1", "reap"} :
             pc' = [pc EXCEPT ![p] = l,
                              ![tgt[p]] = IF tgt[p] \in proc_list /\ @ = "asleep" THEN "wait1" ELSE @]
      BY Zenon DEF X4
    <2>2. pc \in [Pids -> Labels]
      BY SMTT(60) DEF TypeInv, TypeOK
    <2>. QED
      BY <1>2, <2>1, <2>2
  <1>5. \A q \in Pids \ {p} : tgt'[q] = tgt[q]
    BY DEF X4, TypeInv, TypeOK
  <1>6. state[p] # "RUNNING"
    BY <1>1 DEF TableInv, Ended
  <1>7. UNCHANGED <<pid_counter, ppid, tgid, proc_list, state, vfork_done, vfork_parent>>
    BY DEF X4, idVars, exitVars
  <1>8. ListExact'
    BY <1>1, <1>3, <1>4, <1>7 DEF TableInv, ListExact
  <1>9. Fresh'
    BY <1>1, <1>3, <1>4, <1>6, <1>7 DEF TableInv, Fresh
  <1>10. CloneTarget'
    BY <1>1, <1>2, <1>3, <1>4, <1>5, Pointers, SMTT(60) DEF TableInv, CloneTarget
  <1>11. ForkWindow'
    <2>. SUFFICES ASSUME NEW c \in Pids, vfork_parent'[c] # 0, pc'[c] \in Alive
                  PROVE  /\ pc'[vfork_parent'[c]] = "forkspin" /\ tgt'[vfork_parent'[c]] = c
                         /\ ~vfork_done'[c]
      BY DEF ForkWindow
    <2>1. vfork_parent[c] # 0 /\ pc[c] \in Alive
      BY <1>1, <1>2, <1>3, <1>4, <1>7 DEF Alive
    <2>2. /\ pc[vfork_parent[c]] = "forkspin" /\ tgt[vfork_parent[c]] = c
          /\ ~vfork_done[c]
      BY <2>1, SMTT(60) DEF TableInv, ForkWindow
    <2>. QED
      BY <2>1, <2>2, <1>1, <1>2, <1>3, <1>4, <1>5, <1>7, Pointers
  <1>12. Ended'
    BY <1>1, <1>3, <1>4, <1>6, <1>7, SMTT(60) DEF TableInv, Ended
  <1>13. NoLostChildWake'
    <2>. SUFFICES ASSUME NEW q \in Pids, NEW c \in Pids,
                         pc'[q] = "asleep", c \in Zombies(q)', ~is_thread(c)'
                  PROVE  \/ pc'[c] \in {"x1", "x1late", "x2", "x3"}
                         \/ pc'[c] = "x4" /\ tgt'[c] = q
      BY DEF NoLostChildWake
    <2>1. q # p /\ pc[q] = "asleep"
      BY <1>3, <1>4, SMTT(60)
    <2>2. q # tgt[p]
      BY <2>1, <1>3, SMTT(30) DEF TableInv, ListExact
    <2>3. c \in Zombies(q) /\ ~is_thread(c)
      BY <2>1, <1>5, <1>7, SMTT(60) DEF Zombies, Candidates, is_thread
    <2>4. pc[c] \in {"x1", "x1late", "x2", "x3"} \/ (pc[c] = "x4" /\ tgt[c] = q)
      BY <2>1, <2>3, SMTT(30) DEF TableInv, NoLostChildWake
    <2>. QED
      BY <2>2, <2>4, <1>1, <1>3, <1>5, SMTT(60)
  <1>. QED
    BY <1>8, <1>9, <1>10, <1>11, <1>12, <1>13 DEF TableInv

\* proc_destroy takes the struct out of the list as it frees it.
LEMMA DestroyStep ==
    ASSUME TypeInv, TypeInv', TableInv, NEW p \in Pids, ReapSteps(p)
    PROVE  TableInv'
  <1>1. pc[p] = "reap" /\ proc_destroy(p)
    BY SMTT(60) DEF ReapSteps, ReapCollected, ReapTimeout
  <1>2. \A q \in Pids : pc'[q] = IF q = p THEN "gone" ELSE pc[q]
    BY <1>1 DEF proc_destroy, Goto, TypeInv, TypeOK
  <1>3. proc_list' = proc_list \ {p}
    BY <1>1 DEF proc_destroy
  <1>4. UNCHANGED <<pid_counter, ppid, tgid, state, vfork_done, vfork_parent, tgt>>
    BY <1>1 DEF proc_destroy, idVars, exitVars, localVars
  <1>5. ListExact'
    BY <1>1, <1>2, <1>3 DEF TableInv, ListExact
  <1>6. Fresh'
    BY <1>1, <1>2, <1>4 DEF TableInv, Fresh
  <1>7. CloneTarget'
    BY <1>1, <1>2, <1>4, Pointers, SMTT(60) DEF TableInv, CloneTarget
  <1>8. ForkWindow'
    <2>. SUFFICES ASSUME NEW c \in Pids, vfork_parent'[c] # 0, pc'[c] \in Alive
                  PROVE  /\ pc'[vfork_parent'[c]] = "forkspin" /\ tgt'[vfork_parent'[c]] = c
                         /\ ~vfork_done'[c]
      BY SMTT(60) DEF ForkWindow
    <2>1. vfork_parent[c] # 0 /\ pc[c] \in Alive
      BY <1>1, <1>2, <1>4 DEF Alive
    <2>2. /\ pc[vfork_parent[c]] = "forkspin" /\ tgt[vfork_parent[c]] = c
          /\ ~vfork_done[c]
      BY <2>1, SMTT(60) DEF TableInv, ForkWindow
    <2>. QED
      BY <2>1, <2>2, <1>1, <1>2, <1>4, Pointers
  <1>9. Ended'
    BY <1>1, <1>2, <1>4, SMTT(60) DEF TableInv, Ended
  <1>10. NoLostChildWake'
    <2>. SUFFICES ASSUME NEW q \in Pids, NEW c \in Pids,
                         pc'[q] = "asleep", c \in Zombies(q)', ~is_thread(c)'
                  PROVE  \/ pc'[c] \in {"x1", "x1late", "x2", "x3"}
                         \/ pc'[c] = "x4" /\ tgt'[c] = q
      BY DEF NoLostChildWake
    <2>1. q # p /\ pc[q] = "asleep"
      BY <1>1, <1>2, <1>4
    <2>2. c \in Zombies(q) /\ ~is_thread(c)
      BY <2>1, <1>1, <1>2, <1>3, <1>4, SMTT(60) DEF Zombies, Candidates, is_thread
    <2>3. pc[c] \in {"x1", "x1late", "x2", "x3"} \/ (pc[c] = "x4" /\ tgt[c] = q)
      BY <2>1, <2>2, SMTT(30) DEF TableInv, NoLostChildWake
    <2>. QED
      BY <2>1, <2>2, <2>3, <1>1, <1>2, <1>4, SMTT(60)
  <1>. QED
    BY <1>5, <1>6, <1>7, <1>8, <1>9, <1>10, SMTT(60) DEF TableInv

\* The status taken makes the child DEAD.
LEMMA CollectStep ==
    ASSUME TypeInv, TypeInv', TableInv, NEW p \in Pids, NEW k \in Pids, Collect(p, k)
    PROVE  TableInv'
  <1>1. pc[p] \in {"wait1", "wait2"} /\ k \in proc_list /\ state[k] = "ZOMBIE"
    BY SMTT(30) DEF Collect, Zombies, Candidates
  <1>2. \A q \in Pids : pc'[q] = IF q = p THEN "ret" ELSE pc[q]
    BY ZenonT(60) DEF Collect, WaitReturns, Goto, TypeInv, TypeOK
  <1>3. \A q \in Pids : tgt'[q] = IF q = p THEN 0 ELSE tgt[q]
    BY SMTT(60) DEF Collect, WaitReturns, TypeInv, TypeOK
  <1>4. \A q \in Pids : state'[q] = IF q = k THEN "DEAD" ELSE state[q]
    BY DEF Collect, TypeInv, TypeOK
  <1>5. UNCHANGED <<pid_counter, ppid, tgid, proc_list, vfork_done, vfork_parent>>
    BY SMTT(60) DEF Collect, idVars
  <1>6. ListExact'
    BY <1>1, <1>2, <1>5, SMTT(60) DEF TableInv, ListExact
  <1>7. Fresh'
    BY <1>1, <1>2, <1>4, <1>5, SMTT(60) DEF TableInv, Fresh, ListExact
  <1>8. CloneTarget'
    BY <1>1, <1>2, <1>3, Pointers, SMTT(60) DEF TableInv, CloneTarget
  <1>9. ForkWindow'
    <2>. SUFFICES ASSUME NEW c \in Pids, vfork_parent'[c] # 0, pc'[c] \in Alive
                  PROVE  /\ pc'[vfork_parent'[c]] = "forkspin" /\ tgt'[vfork_parent'[c]] = c
                         /\ ~vfork_done'[c]
      BY DEF ForkWindow
    <2>1. vfork_parent[c] # 0 /\ pc[c] \in Alive
      BY <1>1, <1>2, <1>5 DEF Alive
    <2>2. /\ pc[vfork_parent[c]] = "forkspin" /\ tgt[vfork_parent[c]] = c
          /\ ~vfork_done[c]
      BY <2>1 DEF TableInv, ForkWindow
    <2>. QED
      BY <2>1, <2>2, <1>1, <1>2, <1>3, <1>5, Pointers, SMTT(60)
  <1>10. Ended'
    BY <1>1, <1>2, <1>4, SMTT(60) DEF TableInv, Ended
  <1>11. NoLostChildWake'
    <2>. SUFFICES ASSUME NEW q \in Pids, NEW c \in Pids,
                         pc'[q] = "asleep", c \in Zombies(q)', ~is_thread(c)'
                  PROVE  \/ pc'[c] \in {"x1", "x1late", "x2", "x3"}
                         \/ pc'[c] = "x4" /\ tgt'[c] = q
      BY ZenonT(60) DEF NoLostChildWake
    <2>1. q # p /\ pc[q] = "asleep"
      BY <1>1, <1>2, <1>3
    <2>2. c \in Zombies(q) /\ ~is_thread(c)
      BY <2>1, <1>2, <1>3, <1>4, <1>5, SMTT(60) DEF Zombies, Candidates, is_thread
    <2>3. pc[c] \in {"x1", "x1late", "x2", "x3"} \/ (pc[c] = "x4" /\ tgt[c] = q)
      BY <2>1, <2>2, SMTT(30) DEF TableInv, NoLostChildWake
    <2>. QED
      BY <2>1, <2>2, <2>3, <1>1, <1>2, <1>3, SMTT(30)
  <1>. QED
    BY <1>6, <1>7, <1>8, <1>9, <1>10, <1>11, SMTT(30) DEF TableInv

\* A parent goes to sleep only when it has no zombie to collect.
LEMMA SleepStep ==
    ASSUME TypeInv, TypeInv', TableInv, NEW p \in Pids, WaitSleep(p)
    PROVE  TableInv'
  <1>1. pc[p] = "wait2" /\ Zombies(p) = {}
    BY SMTT(30) DEF WaitSleep
  <1>2. \A q \in Pids : pc'[q] = IF q = p THEN "asleep" ELSE pc[q]
    BY Zenon DEF WaitSleep, Goto, TypeInv, TypeOK
  <1>3. UNCHANGED <<pid_counter, ppid, tgid, proc_list, state, vfork_done, vfork_parent, tgt>>
    BY SMTT(30) DEF WaitSleep, idVars, exitVars, localVars, cpuVars
  <1>4. ListExact'
    BY <1>1, <1>2, <1>3, ZenonT(60) DEF TableInv, ListExact
  <1>5. Fresh'
    BY <1>1, <1>2, <1>3, SMTT(60) DEF TableInv, Fresh
  <1>6. CloneTarget'
    BY <1>1, <1>2, <1>3, Pointers, SMTT(60) DEF TableInv, CloneTarget
  <1>7. ForkWindow'
    <2>. SUFFICES ASSUME NEW c \in Pids, vfork_parent'[c] # 0, pc'[c] \in Alive
                  PROVE  /\ pc'[vfork_parent'[c]] = "forkspin" /\ tgt'[vfork_parent'[c]] = c
                         /\ ~vfork_done'[c]
      BY SMTT(60) DEF ForkWindow
    <2>1. vfork_parent[c] # 0 /\ pc[c] \in Alive
      BY <1>1, <1>2, <1>3 DEF Alive
    <2>2. /\ pc[vfork_parent[c]] = "forkspin" /\ tgt[vfork_parent[c]] = c
          /\ ~vfork_done[c]
      BY <2>1 DEF TableInv, ForkWindow
    <2>. QED
      BY <2>1, <2>2, <1>1, <1>2, <1>3, Pointers
  <1>8. Ended'
    BY <1>1, <1>2, <1>3, SMTT(60) DEF TableInv, Ended
  <1>9. NoLostChildWake'
    <2>. SUFFICES ASSUME NEW q \in Pids, NEW c \in Pids,
                         pc'[q] = "asleep", c \in Zombies(q)', ~is_thread(c)'
                  PROVE  \/ pc'[c] \in {"x1", "x1late", "x2", "x3"}
                         \/ pc'[c] = "x4" /\ tgt'[c] = q
      BY DEF NoLostChildWake
    <2>1. q # p
      BY <1>1, <1>3, SMTT(30) DEF Zombies, Candidates
    <2>2. c \in Zombies(q) /\ ~is_thread(c)
      BY <2>1, <1>3, SMTT(60) DEF Zombies, Candidates, is_thread
    <2>3. pc[c] \in {"x1", "x1late", "x2", "x3"} \/ (pc[c] = "x4" /\ tgt[c] = q)
      BY <1>2, <2>1, <2>2 DEF TableInv, NoLostChildWake
    <2>. QED
      BY <1>1, <1>2, <1>3, <2>3, SMTT(60)
  <1>. QED
    BY <1>4, <1>5, <1>6, <1>7, <1>8, <1>9, SMTT(30) DEF TableInv

-----------------------------------------------------------------------------
\* The invariant the safety theorems below rest on.
THEOREM TableInvariant == Spec => []TableInv
  <1>1. Init => TableInv
    BY ConstAssumption, SMTT(30) DEF Init, TableInv, ListExact, Fresh, CloneTarget, ForkWindow, Ended,
       NoLostChildWake, Alive, Pids
  <1>2. TypeInv /\ TypeInv' /\ TableInv /\ [Next]_vars => TableInv'
    <2>. SUFFICES ASSUME TypeInv, TypeInv', TableInv, [Next]_vars PROVE TableInv'
      OBVIOUS
    <2>. DEFINE Moves(p, l) ==
           /\ pc[p] \in {"user", "ret", "forkfind", "wait1", "wait2", "asleep"}
           /\ l \in {"user", "ret", "wait1", "wait2", "x1"}
           /\ pc' = [pc EXCEPT ![p] = l]
           /\ \A q \in Pids \ {p} : tgt'[q] = tgt[q]
           /\ UNCHANGED <<pid_counter, ppid, tgid, proc_list, state, vfork_done, vfork_parent>>
    <2>1. ASSUME NEW p \in Pids, NEW l, Moves(p, l) PROVE TableInv'
      BY <2>1, LocalStep, Zenon
    <2>2. ASSUME NEW p \in Pids,
                 \/ Syscall(p)
                 \/ \E code \in Codes : Exit(p, code)
                 \/ \E code \in Codes : ExitGroup(p, code)
                 \/ \E a \in KillArgs : Kill(p, a[1], a[2])
                 \/ ForkFind(p)
          PROVE  TableInv'
      <3>1. Moves(p, "ret")
        BY <2>2, ZenonT(60) DEF Syscall, Exit, ExitGroup, do_exit, Kill, ForkFind, Goto, idVars, exitVars,
           localVars, TypeInv, TypeOK
      <3>. QED
        BY <2>1, <3>1, Zenon
    <2>3. ASSUME NEW p \in Pids, sig_deliver(p) PROVE TableInv'
      <3>1. Moves(p, "user") \/ Moves(p, "x1")
        BY <2>3, Zenon DEF sig_deliver, Goto, idVars, exitVars
      <3>. QED
        BY <2>1, <3>1, Zenon
    <2>4. ASSUME NEW p \in Pids, NEW a \in WaitArgs, WaitCall(p, a[1], a[2]) PROVE TableInv'
      <3>1. Moves(p, "wait1")
        BY <2>4, SMTT(60) DEF WaitCall, Goto, idVars, exitVars, TypeInv, TypeOK
      <3>. QED
        BY <2>1, <3>1, Zenon
    <2>5. ASSUME NEW p \in Pids, WaitNothing(p) \/ WaitAgain(p) \/ WaitSpurious(p)
          PROVE  TableInv'
      <3>1. Moves(p, "ret") \/ Moves(p, "wait1") \/ Moves(p, "wait2")
        BY <2>5, ZenonT(60) DEF WaitNothing, WaitAgain, WaitSpurious, WaitReturns, Goto, idVars, exitVars,
           localVars, TypeInv, TypeOK
      <3>. QED
        BY <2>1, <3>1
    <2>6. CASE UNCHANGED vars
      BY <2>6 DEF vars, idVars, exitVars, localVars, TableInv, ListExact, Fresh, CloneTarget,
         ForkWindow, Ended, NoLostChildWake, Zombies, Candidates, is_thread
    <2>7. ASSUME NEW p \in Pids, Calls(p) PROVE TableInv'
      BY <2>7, <2>2, <2>4, ExecStep, ForkStep, ForkNoMemStep, CloneAllocStep DEF Calls
    <2>8. ASSUME NEW p \in Pids, Internal(p) PROVE TableInv'
      <3>1. CASE ForkSteps(p) \/ CloneSteps(p)
        BY <3>1, <2>2, ForkDoneStep, CloneAddStep, CloneRunStep,
           CloneNoMemStep, SMTT(60) DEF ForkSteps, CloneSteps
      <3>2. CASE ExitSteps(p)
        BY <3>2, MarkStep, ReparentStep, FindParentStep, BroadcastStep, SMTT(60) DEF ExitSteps
      <3>3. CASE WaitSteps(p)
        BY <3>3, <2>5, CollectStep, SleepStep DEF WaitSteps
      <3>. QED
        BY <2>3, <2>8, <3>1, <3>2, <3>3, DestroyStep, SMTT(60) DEF Internal
    <2>. QED
      BY <2>5, <2>6, <2>7, <2>8, SMTT(30) DEF Next
  <1>. QED
    BY <1>1, <1>2, TypeInvariant, PTL DEF Spec

\* proc_list holds exactly the structs made and not yet destroyed.
THEOREM ListIsExact == Spec => []ListExact
  <1>1. TableInv => ListExact
    BY DEF TableInv
  <1>. QED
    BY <1>1, TableInvariant, PTL

\* The vfork window of proc_fork: the parent's host thread touches no page
\* while the child runs on its pages, for any number of tasks.
THEOREM ForkParentWaits == Spec => []VforkExclusion
  <1>1. TableInv => VforkExclusion
    BY DEF TableInv, ForkWindow, VforkExclusion
  <1>. QED
    BY <1>1, TableInvariant, PTL

\* proc_wait's re-check with its own lock held misses no exit of a child,
\* for any number of tasks and any order of proc_exit's stores.
THEOREM NoWakeIsLost == Spec => []NoLostChildWake
  <1>1. TableInv => NoLostChildWake
    BY DEF TableInv
  <1>. QED
    BY <1>1, TableInvariant, PTL
=============================================================================
