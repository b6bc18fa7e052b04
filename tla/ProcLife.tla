------------------------------ MODULE ProcLife ------------------------------
(***************************************************************************)
(* The life of guest processes and threads: emu/src/process.c (create,     *)
(* fork, exit, exit_group, wait, reap, destroy) as emu/src/sys_process.c,  *)
(* sys_signal.c (kill), signal_emu.c (default actions) and the system call *)
(* trap of native.c drive it.                                              *)
(*                                                                         *)
(* A guest process or thread is an emu_process_t with a host thread of its *)
(* own, named here by its pid.  pc says where that host thread is:         *)
(*    unborn, alloc   no struct yet; a struct not in proc_list yet         *)
(*    added           in proc_list, host thread not started yet            *)
(*    user            guest code, or the trap before the system call acts  *)
(*    ret             end of the trap: sig_deliver, test of cpu.running    *)
(*    forkspin, forkfind   proc_fork waiting for vfork_done; then          *)
(*                         do_clone looking its child up                   *)
(*    cloneadd, clonerun   do_clone before proc_add; before pthread_create *)
(*    wait1, wait2, asleep   proc_wait: scan, second scan, wait_cond       *)
(*    x1, x1late, x2, x3, x4   proc_exit, one label per critical section   *)
(*    reap            proc_run_exit waiting on reap_cond                   *)
(*    gone            proc_destroy has freed the struct                    *)
(* A step is a critical section of proc_lock or of a process's lock, or    *)
(* code that touches nothing another host thread reads.                    *)
(***************************************************************************)
EXTENDS Integers, Sequences, FiniteSets

CONSTANTS
    MaxPid,         \* bound on pid_counter
    Codes,          \* exit codes the guest passes
    KillArgs,       \* the <<pid, signal>> guests pass to kill, the signals
                    \* being ones whose default is to terminate
    CloneKinds,     \* kinds of CLONE_VM clone: "thread", "vm"
    MayFork,        \* whether guests call fork
    MayGroupExit,   \* the kinds of task that call exit_group: "main", "thread"
    WaitArgs,       \* the <<child or 0, options>> guests pass to wait4
    StoresInOrder   \* whether other host threads see the stores of
                    \* proc_exit to exit_status and state in program order

Pids == 1..MaxPid
WNOHANG == 1
SIGCHLD == 17
NSIG == 65
KillSigs == {a[2] : a \in KillArgs}

ASSUME ConstAssumption ==
    /\ MaxPid \in Nat \ {0}
    /\ Codes \subseteq Nat
    /\ KillArgs \subseteq Pids \X ((1..(NSIG - 1)) \ {SIGCHLD})
    /\ CloneKinds \subseteq {"thread", "vm"}
    /\ MayFork \in BOOLEAN
    /\ MayGroupExit \subseteq {"main", "thread"}
    /\ WaitArgs \subseteq (Pids \cup {0}) \X {0, WNOHANG}
    /\ StoresInOrder \in BOOLEAN

VARIABLES
    pid_counter,
    proc_list,      \* the pids of the structs in the list
    state, ppid, tgid, exit_status, collected, vfork_done, sig_pending,
    running,        \* cpu.running
    exit_code,      \* cpu.exit_code
    vfork_parent,   \* the task whose pages a forked child still runs on, or 0
    pc,
    tgt,            \* the pid a local variable of the current call holds, or 0
    val,            \* a local int: status of proc_exit, options of proc_wait
    again,          \* proc_exit was called by sig_deliver, not by proc_run_exit
    reports,        \* history: the statuses proc_wait has returned of a pid
    fate            \* history: what ended a process first

idVars == <<ppid, tgid, pid_counter>>
cpuVars == <<running, exit_code>>
exitVars == <<state, exit_status, collected>>
localVars == <<tgt, val, again>>
history == <<reports, fate>>
vars == <<idVars, proc_list, exitVars, vfork_done, sig_pending, cpuVars, vfork_parent,
          pc, localVars, history>>

Labels == {"unborn", "alloc", "added", "user", "ret", "forkspin", "forkfind", "cloneadd",
           "clonerun", "wait1", "wait2", "asleep", "x1", "x1late", "x2", "x3", "x4", "reap", "gone"}

is_thread(p) == tgid[p] # p

\* Variant: the code is passed on without the encoding of wait4.
ExitStatusRaw(code) == code % 256

\* The status proc_wait reports for exit(code), and for death by sig.
ExitStatus(code) == (code % 256) * 256
SigStatus(sig) == sig % 128

NoFate == [how |-> "none", n |-> 0]
Fates == {NoFate} \cup [how : {"exit"}, n : Codes] \cup [how : {"signal"}, n : KillSigs]

\* The first of two endings counts.
Ending(p, how, n) == IF fate[p] = NoFate THEN [how |-> how, n |-> n] ELSE fate[p]

-----------------------------------------------------------------------------
\* Process 1 as emu_spawn starts it; no other struct exists.
Init ==
    /\ pid_counter = 1
    /\ proc_list = {1}
    /\ state = [p \in Pids |-> "RUNNING"]
    /\ ppid = [p \in Pids |-> 0]
    /\ tgid = [p \in Pids |-> p]
    /\ exit_status = [p \in Pids |-> 0]
    /\ collected = [p \in Pids |-> FALSE]
    /\ vfork_done = [p \in Pids |-> FALSE]
    /\ sig_pending = [p \in Pids |-> {}]
    /\ running = [p \in Pids |-> TRUE]
    /\ exit_code = [p \in Pids |-> 0]
    /\ vfork_parent = [p \in Pids |-> 0]
    /\ pc = [p \in Pids |-> IF p = 1 THEN "user" ELSE "unborn"]
    /\ tgt = [p \in Pids |-> 0]
    /\ val = [p \in Pids |-> 0]
    /\ again = [p \in Pids |-> FALSE]
    /\ reports = [p \in Pids |-> <<>>]
    /\ fate = [p \in Pids |-> NoFate]

Goto(p, l) == pc' = [pc EXCEPT ![p] = l]

\* A system call that touches none of this, an execve that fails, or a
\* clone that fails before it has taken a pid.
Syscall(p) ==
    /\ pc[p] = "user"
    /\ Goto(p, "ret")
    /\ UNCHANGED <<idVars, proc_list, exitVars, vfork_done, sig_pending, cpuVars,
                   vfork_parent, localVars, history>>

\* do_exit.
do_exit(p, code) ==
    /\ exit_code' = [exit_code EXCEPT ![p] = ExitStatus(code)]
    /\ Goto(p, "ret")
    /\ UNCHANGED <<idVars, proc_list, exitVars, vfork_done, sig_pending, vfork_parent,
                   localVars, reports>>

\* exit: the calling task alone.
Exit(p, code) ==
    /\ pc[p] = "user"
    /\ running' = [running EXCEPT ![p] = FALSE]
    /\ fate' = [fate EXCEPT ![p] = Ending(p, "exit", code)]
    /\ do_exit(p, code)

\* exit_group: proc_exit_group clears cpu.running of the tasks of the group
\* that are in the list, then do_exit.
ExitGroup(p, code) ==
    /\ pc[p] = "user"
    /\ (IF is_thread(p) THEN "thread" ELSE "main") \in MayGroupExit
    /\ running' = [q \in Pids |-> IF q = p \/ (q \in proc_list /\ tgid[q] = tgid[p])
                                  THEN FALSE ELSE running[q]]
    /\ fate' = [q \in Pids |-> IF tgid[q] = tgid[p] THEN Ending(q, "exit", code) ELSE fate[q]]
    /\ do_exit(p, code)

\* The success path of proc_execve: a memory space of its own, a fresh CPU
\* that runs, and the fork parent let go.
proc_execve(p) ==
    /\ pc[p] = "user"
    /\ vfork_parent' = [vfork_parent EXCEPT ![p] = 0]
    /\ running' = [running EXCEPT ![p] = TRUE]
    /\ exit_code' = [exit_code EXCEPT ![p] = 0]
    /\ vfork_done' = [vfork_done EXCEPT ![p] = TRUE]
    /\ Goto(p, "ret")
    /\ UNCHANGED <<idVars, proc_list, exitVars, sig_pending, localVars, history>>

\* proc_create: a struct with the next pid, in the list.
proc_create(p, c) ==
    /\ c = pid_counter + 1
    /\ pid_counter' = c
    /\ proc_list' = proc_list \cup {c}
    /\ ppid' = [ppid EXCEPT ![c] = p]
    /\ UNCHANGED tgid

\* proc_fork up to its spin: the child is in the list and runs on the pages
\* of its parent.
proc_fork(p) ==
    /\ MayFork
    /\ pc[p] = "user"
    /\ pid_counter < MaxPid
    /\ LET c == pid_counter + 1
       IN  /\ proc_create(p, c)
           /\ exit_code' = [exit_code EXCEPT ![c] = exit_code[p]]
           /\ vfork_parent' = [vfork_parent EXCEPT ![c] = p]
           /\ pc' = [pc EXCEPT ![p] = "forkspin", ![c] = "user"]
           /\ tgt' = [tgt EXCEPT ![p] = c]
    /\ UNCHANGED <<exitVars, vfork_done, sig_pending, running, val, again, history>>

\* A fork that fails: proc_create has taken a pid, proc_destroy takes the
\* child away again.
ForkNoMem(p) ==
    /\ MayFork
    /\ pc[p] = "user"
    /\ pid_counter < MaxPid
    /\ pid_counter' = pid_counter + 1
    /\ pc' = [pc EXCEPT ![p] = "ret", ![pid_counter + 1] = "gone"]
    /\ UNCHANGED <<ppid, tgid, proc_list, exitVars, vfork_done, sig_pending, cpuVars,
                   vfork_parent, localVars, history>>

\* Variant: the parent does not wait for the child.
ForkDoneAtOnce(p) ==
    /\ pc[p] = "forkspin"
    /\ Goto(p, "forkfind")
    /\ UNCHANGED <<idVars, proc_list, exitVars, vfork_done, sig_pending, cpuVars,
                   vfork_parent, localVars, history>>

\* The end of proc_fork: the spin sees vfork_done, the pages are restored.
ForkDone(p) ==
    /\ pc[p] = "forkspin"
    /\ vfork_done[tgt[p]]
    /\ Goto(p, "forkfind")
    /\ UNCHANGED <<idVars, proc_list, exitVars, vfork_done, sig_pending, cpuVars,
                   vfork_parent, localVars, history>>

\* do_clone looks the forked child up by its pid; both results return.
ForkFind(p) ==
    /\ pc[p] = "forkfind"
    /\ tgt' = [tgt EXCEPT ![p] = 0]
    /\ Goto(p, "ret")
    /\ UNCHANGED <<idVars, proc_list, exitVars, vfork_done, sig_pending, cpuVars,
                   vfork_parent, val, again, history>>

\* do_clone with CLONE_VM, up to proc_add: the child has its parent's
\* parent, and its group when it is a thread.
CloneAlloc(p, kind) ==
    /\ pc[p] = "user"
    /\ pid_counter < MaxPid
    /\ LET c == pid_counter + 1
       IN  /\ pid_counter' = c
           /\ ppid' = [ppid EXCEPT ![c] = ppid[p]]
           /\ tgid' = [tgid EXCEPT ![c] = IF kind = "thread" THEN tgid[p] ELSE c]
           /\ exit_code' = [exit_code EXCEPT ![c] = exit_code[p]]
           /\ pc' = [pc EXCEPT ![p] = "cloneadd", ![c] = "alloc"]
           /\ tgt' = [tgt EXCEPT ![p] = c]
    /\ UNCHANGED <<proc_list, exitVars, vfork_done, sig_pending, running, vfork_parent, val,
                   again, history>>

\* Variant: the child is not added to the list.
CloneAddForgotten(p) ==
    /\ pc[p] = "cloneadd"
    /\ pc' = [pc EXCEPT ![p] = "clonerun", ![tgt[p]] = "added"]
    /\ UNCHANGED <<idVars, proc_list, exitVars, vfork_done, sig_pending, cpuVars, vfork_parent,
                   localVars, history>>

\* do_clone: proc_add.
CloneAdd(p) ==
    /\ pc[p] = "cloneadd"
    /\ proc_list' = proc_list \cup {tgt[p]}
    /\ pc' = [pc EXCEPT ![p] = "clonerun", ![tgt[p]] = "added"]
    /\ UNCHANGED <<idVars, exitVars, vfork_done, sig_pending, cpuVars, vfork_parent, localVars,
                   history>>

\* do_clone: the host thread of the child starts.
CloneRun(p) ==
    /\ pc[p] = "clonerun"
    /\ pc' = [pc EXCEPT ![p] = "ret", ![tgt[p]] = "user"]
    /\ tgt' = [tgt EXCEPT ![p] = 0]
    /\ UNCHANGED <<idVars, proc_list, exitVars, vfork_done, sig_pending, cpuVars, vfork_parent,
                   val, again, history>>

\* do_clone: no memory before proc_add, or no host thread after it; the child
\* is freed again.
CloneNoMem(p) ==
    /\ pc[p] \in {"cloneadd", "clonerun"}
    /\ proc_list' = proc_list \ {tgt[p]}
    /\ pc' = [pc EXCEPT ![p] = "ret", ![tgt[p]] = "gone"]
    /\ tgt' = [tgt EXCEPT ![p] = 0]
    /\ UNCHANGED <<idVars, exitVars, vfork_done, sig_pending, cpuVars, vfork_parent, val,
                   again, history>>

\* do_kill, do_tkill: proc_find, then sig_send to the struct it found.
Kill(p, q, sig) ==
    /\ pc[p] = "user"
    /\ q \in proc_list
    /\ sig_pending' = [sig_pending EXCEPT ![q] = @ \cup {sig}]
    /\ Goto(p, "ret")
    /\ UNCHANGED <<idVars, proc_list, exitVars, vfork_done, cpuVars, vfork_parent, localVars,
                   history>>

-----------------------------------------------------------------------------
\* sig is the lowest pending signal, or 0 and there is none.
IsLowestPending(p, sig) ==
    IF sig = 0 THEN sig_pending[p] = {} ELSE \A r \in sig_pending[p] : sig <= r

\* The end of the trap: sig_deliver takes the lowest pending signal; SIGCHLD
\* is ignored by default, the others kill, which calls proc_exit; then
\* cpu.running sends the thread to proc_run_exit or back to the guest.
sig_deliver(p) ==
    /\ pc[p] = "ret"
    /\ \E sig \in sig_pending[p] \cup {0} :
          LET kills == sig \notin {0, SIGCHLD}
          IN  /\ IsLowestPending(p, sig)
              /\ sig_pending' = [sig_pending EXCEPT ![p] = @ \ {sig}]
              /\ Goto(p, IF ~kills /\ running[p] THEN "user" ELSE "x1")
              /\ val' = [val EXCEPT ![p] = IF kills THEN SigStatus(sig)
                                           ELSE IF running[p] THEN 0 ELSE exit_code[p]]
              /\ again' = [again EXCEPT ![p] = kills]
              /\ fate' = [fate EXCEPT ![p] = IF kills THEN Ending(p, "signal", sig) ELSE @]
    /\ UNCHANGED <<idVars, proc_list, exitVars, vfork_done, cpuVars, vfork_parent, tgt,
                   reports>>

\* proc_exit returns: to sig_deliver, after which cpu.running ends the
\* native run and proc_run_exit calls proc_exit with cpu.exit_code; or to
\* proc_run_exit, which waits to be collected.
ExitReturns(p) ==
    /\ Goto(p, IF again[p] THEN "x1" ELSE "reap")
    /\ val' = [val EXCEPT ![p] = IF again[p] THEN exit_code[p] ELSE 0]
    /\ again' = [again EXCEPT ![p] = FALSE]
    /\ tgt' = [tgt EXCEPT ![p] = 0]

\* proc_exit under proc->lock, the stores other than exit_status.
ExitMark(p) ==
    /\ running' = [running EXCEPT ![p] = FALSE]
    /\ vfork_done' = [vfork_done EXCEPT ![p] = TRUE]
    /\ IF is_thread(p) THEN ExitReturns(p) ELSE Goto(p, "x2") /\ UNCHANGED localVars
    /\ UNCHANGED <<idVars, proc_list, collected, sig_pending, exit_code, vfork_parent, history>>

\* proc_exit under proc->lock.
X1(p) ==
    /\ pc[p] = "x1"
    /\ exit_status' = [exit_status EXCEPT ![p] = val[p]]
    /\ state' = [state EXCEPT ![p] = "ZOMBIE"]
    /\ ExitMark(p)

\* The same, seen by a host thread that does not take proc->lock and to
\* which the store to state appears first.
X1Early(p) ==
    /\ ~StoresInOrder
    /\ pc[p] = "x1"
    /\ state' = [state EXCEPT ![p] = "ZOMBIE"]
    /\ Goto(p, "x1late")
    /\ UNCHANGED <<idVars, proc_list, exit_status, collected, vfork_done, sig_pending,
                   cpuVars, vfork_parent, localVars, history>>

X1Late(p) ==
    /\ pc[p] = "x1late"
    /\ exit_status' = [exit_status EXCEPT ![p] = val[p]]
    /\ UNCHANGED state
    /\ ExitMark(p)

\* Variant: the walk collects zombies but leaves the others their parent.
X2KeepParent(p) ==
    /\ pc[p] = "x2"
    /\ LET dead == {c \in proc_list : ppid[c] = p /\ state[c] = "ZOMBIE"}
       IN  /\ state' = [c \in Pids |-> IF c \in dead THEN "DEAD" ELSE state[c]]
           /\ collected' = [c \in Pids |-> IF c \in dead THEN TRUE ELSE collected[c]]
    /\ Goto(p, "x3")
    /\ UNCHANGED <<idVars, proc_list, exit_status, vfork_done, sig_pending, cpuVars,
                   vfork_parent, localVars, history>>

\* proc_exit under proc_lock: children go to pid 1, zombies are collected.
X2(p) ==
    /\ pc[p] = "x2"
    /\ LET mine == {c \in proc_list : ppid[c] = p}
           dead == {c \in mine : state[c] = "ZOMBIE"}
       IN  /\ ppid' = [c \in Pids |-> IF c \in mine THEN 1 ELSE ppid[c]]
           /\ state' = [c \in Pids |-> IF c \in dead THEN "DEAD" ELSE state[c]]
           /\ collected' = [c \in Pids |-> IF c \in dead THEN TRUE ELSE collected[c]]
    /\ Goto(p, "x3")
    /\ UNCHANGED <<tgid, pid_counter, proc_list, exit_status, vfork_done, sig_pending,
                   cpuVars, vfork_parent, localVars, history>>

\* proc_exit: proc_find of the parent.
X3(p) ==
    /\ pc[p] = "x3"
    /\ IF ppid[p] \in proc_list
       THEN /\ tgt' = [tgt EXCEPT ![p] = ppid[p]]
            /\ Goto(p, "x4")
            /\ UNCHANGED <<val, again>>
       ELSE ExitReturns(p)
    /\ UNCHANGED <<idVars, proc_list, exitVars, vfork_done, sig_pending, cpuVars, vfork_parent,
                   history>>

\* Variants: another signal number; the broadcast left out.
X4OtherSignal(p) ==
    /\ pc[p] = "x4"
    /\ LET q == tgt[p]
           there == q \in proc_list
       IN  /\ sig_pending' = [sig_pending EXCEPT ![q] = IF there THEN @ \cup {SIGCHLD + 1} ELSE @]
           /\ pc' = [pc EXCEPT ![p] = IF again[p] THEN "x1" ELSE "reap",
                               ![q] = IF there /\ @ = "asleep" THEN "wait1" ELSE @]
    /\ val' = [val EXCEPT ![p] = IF again[p] THEN exit_code[p] ELSE 0]
    /\ again' = [again EXCEPT ![p] = FALSE]
    /\ tgt' = [tgt EXCEPT ![p] = 0]
    /\ UNCHANGED <<idVars, proc_list, exitVars, vfork_done, cpuVars, vfork_parent, history>>

X4NoBroadcast(p) ==
    /\ pc[p] = "x4"
    /\ LET q == tgt[p]
       IN  sig_pending' = [sig_pending EXCEPT ![q] = IF q \in proc_list THEN @ \cup {SIGCHLD}
                                                     ELSE @]
    /\ ExitReturns(p)
    /\ UNCHANGED <<idVars, proc_list, exitVars, vfork_done, cpuVars, vfork_parent, history>>

\* proc_exit: SIGCHLD to the parent found and a broadcast on its wait_cond.
\* (A parent freed since X3 is memory this model does not follow.)
X4(p) ==
    /\ pc[p] = "x4"
    /\ LET q == tgt[p]
           there == q \in proc_list
       IN  /\ sig_pending' = [sig_pending EXCEPT ![q] = IF there THEN @ \cup {SIGCHLD} ELSE @]
           /\ pc' = [pc EXCEPT ![p] = IF again[p] THEN "x1" ELSE "reap",
                               ![q] = IF there /\ @ = "asleep" THEN "wait1" ELSE @]
    /\ val' = [val EXCEPT ![p] = IF again[p] THEN exit_code[p] ELSE 0]
    /\ again' = [again EXCEPT ![p] = FALSE]
    /\ tgt' = [tgt EXCEPT ![p] = 0]
    /\ UNCHANGED <<idVars, proc_list, exitVars, vfork_done, cpuVars, vfork_parent, history>>

-----------------------------------------------------------------------------
\* Variant: freed while still in the list.
DestroyLinked(p) ==
    /\ Goto(p, "gone")
    /\ UNCHANGED <<idVars, proc_list, exitVars, vfork_done, sig_pending, cpuVars, vfork_parent,
                   localVars, history>>

\* proc_destroy: out of the list and freed.
proc_destroy(p) ==
    /\ proc_list' = proc_list \ {p}
    /\ Goto(p, "gone")
    /\ UNCHANGED <<idVars, exitVars, vfork_done, sig_pending, cpuVars, vfork_parent, localVars,
                   history>>

\* proc_run_exit once the parent has collected the status.
ReapCollected(p) ==
    /\ pc[p] = "reap"
    /\ collected[p]
    /\ proc_destroy(p)

\* Variant: no timeout.
ReapForever(p) ==
    /\ pc[p] = "reap"
    /\ collected[p]
    /\ proc_destroy(p)

\* proc_run_exit after two seconds without that.
ReapTimeout(p) ==
    /\ pc[p] = "reap"
    /\ ~collected[p]
    /\ proc_destroy(p)

-----------------------------------------------------------------------------
\* do_wait4 for a child who, or for any child (0 here, -1 in the call).
WaitCall(p, who, options) ==
    /\ pc[p] = "user"
    /\ tgt' = [tgt EXCEPT ![p] = who]
    /\ val' = [val EXCEPT ![p] = options]
    /\ Goto(p, "wait1")
    /\ UNCHANGED <<idVars, proc_list, exitVars, vfork_done, sig_pending, cpuVars, vfork_parent,
                   again, history>>

\* The children the scans of proc_wait consider.
Candidates(p) == {c \in proc_list : ppid[c] = p /\ tgt[p] \in {0, c}}

Zombies(p) == {c \in Candidates(p) : state[c] = "ZOMBIE"}

WaitReturns(p) ==
    /\ tgt' = [tgt EXCEPT ![p] = 0]
    /\ val' = [val EXCEPT ![p] = 0]
    /\ Goto(p, "ret")
    /\ UNCHANGED again

\* Variant: the state of the collected child is left alone.
CollectKeepState(p, c) ==
    /\ pc[p] \in {"wait1", "wait2"}
    /\ c \in Zombies(p)
    /\ collected' = [collected EXCEPT ![c] = TRUE]
    /\ reports' = [reports EXCEPT ![c] = Append(@, exit_status[c])]
    /\ WaitReturns(p)
    /\ UNCHANGED <<idVars, proc_list, state, exit_status, vfork_done, sig_pending, cpuVars,
                   vfork_parent, fate>>

\* Either scan finds a zombie and takes its status.
Collect(p, c) ==
    /\ pc[p] \in {"wait1", "wait2"}
    /\ c \in Zombies(p)
    /\ state' = [state EXCEPT ![c] = "DEAD"]
    /\ collected' = [collected EXCEPT ![c] = TRUE]
    /\ reports' = [reports EXCEPT ![c] = Append(@, exit_status[c])]
    /\ WaitReturns(p)
    /\ UNCHANGED <<idVars, proc_list, exit_status, vfork_done, sig_pending, cpuVars,
                   vfork_parent, fate>>

\* A scan finds nobody to wait for (ECHILD), or the first one nobody to
\* collect under WNOHANG.
WaitNothing(p) ==
    /\ \/ pc[p] \in {"wait1", "wait2"} /\ Candidates(p) = {}
       \/ pc[p] = "wait1" /\ Zombies(p) = {} /\ val[p] = WNOHANG
    /\ WaitReturns(p)
    /\ UNCHANGED <<idVars, proc_list, exitVars, vfork_done, sig_pending, cpuVars, vfork_parent,
                   history>>

\* The first scan finds only live children: take the own lock, scan again.
WaitAgain(p) ==
    /\ pc[p] = "wait1"
    /\ Candidates(p) # {} /\ Zombies(p) = {} /\ val[p] # WNOHANG
    /\ Goto(p, "wait2")
    /\ UNCHANGED <<idVars, proc_list, exitVars, vfork_done, sig_pending, cpuVars, vfork_parent,
                   localVars, history>>

\* Variant: the second scan is left out.
SleepUnchecked(p) ==
    /\ pc[p] = "wait2"
    /\ Goto(p, "asleep")
    /\ UNCHANGED <<idVars, proc_list, exitVars, vfork_done, sig_pending, cpuVars, vfork_parent,
                   localVars, history>>

\* So does the second, made with the own lock held: wait on wait_cond.
WaitSleep(p) ==
    /\ pc[p] = "wait2"
    /\ Candidates(p) # {} /\ Zombies(p) = {}
    /\ Goto(p, "asleep")
    /\ UNCHANGED <<idVars, proc_list, exitVars, vfork_done, sig_pending, cpuVars, vfork_parent,
                   localVars, history>>

\* A spurious return of pthread_cond_wait.
WaitSpurious(p) ==
    /\ pc[p] = "asleep"
    /\ Goto(p, "wait1")
    /\ UNCHANGED <<idVars, proc_list, exitVars, vfork_done, sig_pending, cpuVars, vfork_parent,
                   localVars, history>>

-----------------------------------------------------------------------------
\* What the host thread of p does on its own once it is in the emulator.
ForkSteps(p) == ForkDone(p) \/ ForkFind(p)
CloneSteps(p) == CloneAdd(p) \/ CloneRun(p) \/ CloneNoMem(p)
ExitSteps(p) == X1(p) \/ X1Early(p) \/ X1Late(p) \/ X2(p) \/ X3(p) \/ X4(p)
ReapSteps(p) == ReapCollected(p) \/ ReapTimeout(p)
WaitSteps(p) ==
    \/ \E c \in Pids : Collect(p, c)
    \/ WaitNothing(p)
    \/ WaitAgain(p)
    \/ WaitSleep(p)

Internal(p) ==
    \/ ForkSteps(p)
    \/ CloneSteps(p)
    \/ sig_deliver(p)
    \/ ExitSteps(p)
    \/ ReapSteps(p)
    \/ WaitSteps(p)

\* The system calls of the guest.
Calls(p) ==
    \/ Syscall(p)
    \/ \E code \in Codes : Exit(p, code)
    \/ \E code \in Codes : ExitGroup(p, code)
    \/ proc_execve(p)
    \/ proc_fork(p)
    \/ ForkNoMem(p)
    \/ \E kind \in CloneKinds : CloneAlloc(p, kind)
    \/ \E a \in KillArgs : Kill(p, a[1], a[2])
    \/ \E a \in WaitArgs : WaitCall(p, a[1], a[2])

Next ==
    \E p \in Pids : Calls(p) \/ Internal(p) \/ WaitSpurious(p)

Spec == Init /\ [][Next]_vars

\* The host schedules every thread that is inside the emulator.
Fairness == \A p \in Pids : WF_vars(Internal(p))

FairSpec == Spec /\ Fairness

-----------------------------------------------------------------------------
\* Places before proc_exit, where the task has not ended yet.
Alive == {"user", "ret", "forkspin", "forkfind", "cloneadd", "clonerun", "wait1", "wait2",
          "asleep"}

\* Type of every variable.
TypeOK ==
    /\ pid_counter \in Pids
    /\ proc_list \subseteq Pids
    /\ state \in [Pids -> {"RUNNING", "ZOMBIE", "DEAD"}]
    /\ ppid \in [Pids -> Pids \cup {0}]
    /\ tgid \in [Pids -> Pids]
    /\ exit_status \in [Pids -> Nat]
    /\ collected \in [Pids -> BOOLEAN]
    /\ vfork_done \in [Pids -> BOOLEAN]
    /\ sig_pending \in [Pids -> SUBSET (KillSigs \cup {SIGCHLD})]
    /\ running \in [Pids -> BOOLEAN]
    /\ exit_code \in [Pids -> Nat]
    /\ vfork_parent \in [Pids -> Pids \cup {0}]
    /\ pc \in [Pids -> Labels]
    /\ tgt \in [Pids -> Pids \cup {0}]
    /\ val \in [Pids -> Nat]
    /\ again \in [Pids -> BOOLEAN]
    /\ reports \in [Pids -> Seq(Nat)]
    /\ fate \in [Pids -> Fates]

\* The structs in proc_list are the ones made and not yet destroyed.
ListExact ==
    \A p \in Pids : p \in proc_list <=> pc[p] \notin {"unborn", "alloc", "gone"}

\* A parent asleep in proc_wait while a child process it may collect is a
\* zombie will be woken: that child has yet to pass its broadcast, and the
\* broadcast will go to this parent ("Re-check under parent->lock before
\* sleeping" misses no exit between the scan and the sleep).
NoLostChildWake ==
    \A p, c \in Pids :
        pc[p] = "asleep" /\ c \in Zombies(p) /\ ~is_thread(c) =>
            \/ pc[c] \in {"x1", "x1late", "x2", "x3"}
            \/ pc[c] = "x4" /\ tgt[c] = p

\* While a forked child runs guest code on the pages of the task that forked
\* it, that task spins in proc_fork for this child: it neither runs guest
\* code on the pages nor restores them ("the shared-memory window").
VforkExclusion ==
    \A c \in Pids :
        vfork_parent[c] # 0 /\ pc[c] \in Alive =>
            pc[vfork_parent[c]] = "forkspin" /\ tgt[vfork_parent[c]] = c

\* The status wait4 reports of a process says what ended it: its exit code
\* ("which is what the parent's wait4 will read") or the signal that killed
\* it ("Encode as signal death for wait4").
StatusTruth ==
    \A c \in Pids : \A i \in 1..Len(reports[c]) :
        LET st == reports[c][i]
        IN  IF fate[c].how = "signal" THEN st % 128 = fate[c].n
            ELSE fate[c].how = "exit" /\ st % 128 = 0 /\ (st \div 256) % 256 = fate[c].n % 256

\* The same of the processes a signal has killed.
SignalStatusTruth ==
    \A c \in Pids : fate[c].how = "signal" =>
        \A i \in 1..Len(reports[c]) : reports[c][i] % 128 = fate[c].n

\* A process is collected once: no second wait4 reports it again.
CollectedOnce == \A c \in Pids : Len(reports[c]) <= 1

\* The parent of a forked process is a task that has not finished handing
\* its children over to pid 1: nobody is left with a parent that is gone.
\* (A task's children stay with it when it is a thread.)
NoOrphan ==
    \A c \in proc_list :
        ppid[c] \notin {0, 1} =>
            /\ ppid[c] \in proc_list
            /\ pc[ppid[c]] \in Alive \cup {"x1", "x1late", "x2"} \/ again[ppid[c]]

\* A parent asleep in proc_wait with a zombie to collect wakes up.
SleeperWoken ==
    \A p, c \in Pids :
        (pc[p] = "asleep" /\ c \in Zombies(p) /\ ~is_thread(c)) ~> (pc[p] # "asleep")

\* A parent does not sleep in proc_wait with no child left to wait for (the
\* second scan returns ECHILD when nothing is found).
NoSleepWithoutChild ==
    \A p \in Pids : (pc[p] = "asleep" /\ Candidates(p) = {}) ~> (pc[p] # "asleep")

\* A task that enters proc_exit is freed in the end, also when its parent
\* never waits for it.
ExitingFreed == \A p \in Pids : (pc[p] = "x1") ~> (pc[p] = "gone")
=============================================================================
