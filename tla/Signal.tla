------------------------------- MODULE Signal -------------------------------
(***************************************************************************)
(* Signals of guest tasks: emu/src/signal_emu.c and sys_signal.c, the      *)
(* reference-counted sighand tables that process.c and sys_process.c hand  *)
(* out at fork, clone, execve and exit, and the system call trap of        *)
(* native.c, at whose end signals are delivered.                           *)
(*                                                                         *)
(* A task is in guest code ("user"); at the end of its system call, before *)
(* sig_deliver ("trap"); in sig_deliver with a signal taken from pending   *)
(* but its action not read yet ("taken"), or with the handler set up and   *)
(* SA_RESETHAND still to be applied ("reset"); past the native run         *)
(* ("exiting"); not made yet ("unborn") or freed ("gone").  The tables are *)
(* read and written under their lock, one critical section a step; masks   *)
(* and registers belong to the task alone.                                 *)
(*                                                                         *)
(* Guest registers are abstracted to the code a task executes, its main    *)
(* program or a handler.  An image is one program loaded by execve; a      *)
(* handler address belongs to the image that installed it.                 *)
(***************************************************************************)
EXTENDS Integers, Sequences, FiniteSets

CONSTANTS
    Tasks,          \* guest tasks
    First,          \* the one emu_spawn starts
    Tables,         \* heap cells for sighand_t
    Signals,        \* the signals in use
    ActArgs,        \* the <<signal, action>> guests pass to rt_sigaction
    KillArgs,       \* the <<task, signal>> guests pass to kill
    MaskArgs,       \* the <<how, set>> guests pass to rt_sigprocmask
    CloneKinds,     \* "fork", "thread" (CLONE_SIGHAND), "vm" (CLONE_VM alone)
    MaxImage,       \* bound on the images loaded
    MaxFrames,      \* signal frames that fit on the stack of each task
    NoTable         \* the null table pointer

EMU_SIGKILL == 9
EMU_SIGCONT == 18
EMU_SIGSTOP == 19
UNCATCHABLE == {EMU_SIGKILL, EMU_SIGSTOP}

ActionArgs == [how : {"DFL", "IGN", "catch"}, mask : SUBSET Signals, reset : BOOLEAN,
               nodefer : BOOLEAN]

ASSUME ConstAssumption ==
    /\ First \in Tasks /\ IsFiniteSet(Tasks)
    /\ Tables # {} /\ NoTable \notin Tables
    /\ Signals \subseteq 1..64
    /\ ActArgs \subseteq Signals \X ActionArgs
    /\ KillArgs \subseteq Tasks \X Signals
    /\ MaskArgs \subseteq {"BLOCK", "UNBLOCK", "SETMASK"} \X SUBSET Signals
    /\ CloneKinds \subseteq {"fork", "thread", "vm"}
    /\ MaxImage \in Nat \ {0} /\ MaxFrames \in [Tasks -> Nat]

VARIABLES
    sighand,        \* the table of each task
    refcount, actions,      \* fields of the tables
    sig_pending, sig_blocked,
    pc, cur,        \* place of the host thread, the signal it delivers or 0
    running, state,
    image, images,  \* image of each task; how many have been loaded
    code,           \* the code the guest executes
    frames          \* the signal frames on its stack, the oldest first

tableVars == <<sighand, refcount, actions>>
maskVars == <<sig_pending, sig_blocked>>
runVars == <<running, state>>
guestVars == <<image, images, code, frames>>
vars == <<tableVars, maskVars, pc, cur, runVars, guestVars>>

Images == 1..MaxImage
Actions == [how : {"DFL", "IGN", "catch"}, img : Images, mask : SUBSET Signals,
            reset : BOOLEAN, nodefer : BOOLEAN]

\* sig is 0 in the main program; nodefer and loose are history: the handler
\* was entered with SA_NODEFER; it has cleared bits of the mask itself.
Codes == [sig : Signals \cup {0}, img : Images, nodefer : BOOLEAN, loose : BOOLEAN]
Frames == [code : Codes, mask : SUBSET Signals]

Main(i) == [sig |-> 0, img |-> i, nodefer |-> FALSE, loose |-> FALSE]
Default(i) == [how |-> "DFL", img |-> i, mask |-> {}, reset |-> FALSE, nodefer |-> FALSE]

\* The tasks proc_find can find.
Listed == {t \in Tasks : pc[t] \notin {"unborn", "gone"}}

Init ==
    /\ \E h \in Tables :
          /\ sighand = [t \in Tasks |-> IF t = First THEN h ELSE NoTable]
          /\ refcount = [k \in Tables |-> IF k = h THEN 1 ELSE 0]
    /\ actions = [k \in Tables |-> [s \in Signals |-> Default(1)]]
    /\ sig_pending = [t \in Tasks |-> {}]
    /\ sig_blocked = [t \in Tasks |-> {}]
    /\ pc = [t \in Tasks |-> IF t = First THEN "user" ELSE "unborn"]
    /\ cur = [t \in Tasks |-> 0]
    /\ running = [t \in Tasks |-> TRUE]
    /\ state = [t \in Tasks |-> "RUNNING"]
    /\ image = [t \in Tasks |-> 1]
    /\ images = 1
    /\ code = [t \in Tasks |-> Main(1)]
    /\ frames = [t \in Tasks |-> <<>>]

-----------------------------------------------------------------------------
\* The system call trap, up to the end of sys_handle.
Trap(t) ==
    /\ pc[t] = "user"
    /\ pc' = [pc EXCEPT ![t] = "trap"]
    /\ UNCHANGED cur

\* A system call that touches no signal state, or fails before it does.
OtherCall(t) ==
    /\ Trap(t)
    /\ UNCHANGED <<tableVars, maskVars, runVars, guestVars>>

\* exit: the task stops once the trap ends.
Exit(t) ==
    /\ Trap(t)
    /\ running' = [running EXCEPT ![t] = FALSE]
    /\ UNCHANGED <<tableVars, maskVars, state, guestVars>>

\* Variant: any signal may be given an action.
sig_actionAny(t, s, act) ==
    /\ Trap(t)
    /\ actions' = [actions EXCEPT ![sighand[t]][s] =
                      [how |-> act.how, img |-> image[t], mask |-> act.mask,
                       reset |-> act.reset, nodefer |-> act.nodefer]]
    /\ UNCHANGED <<sighand, refcount, maskVars, runVars, guestVars>>

\* rt_sigaction: installs an action in the table, unless the signal is one
\* of the two that cannot be changed.
sig_action(t, s, act) ==
    /\ s \notin UNCATCHABLE
    /\ Trap(t)
    /\ actions' = [actions EXCEPT ![sighand[t]][s] =
                      [how |-> act.how, img |-> image[t], mask |-> act.mask,
                       reset |-> act.reset, nodefer |-> act.nodefer]]
    /\ UNCHANGED <<sighand, refcount, maskVars, runVars, guestVars>>

\* The mask sig_procmask computes before it removes what cannot be blocked.
NewMask(old, how, set) ==
    CASE how = "BLOCK" -> old \cup set
      [] how = "UNBLOCK" -> old \ set
      [] how = "SETMASK" -> set

\* rt_sigprocmask with a set.
sig_procmask(t, how, set) ==
    /\ Trap(t)
    /\ sig_blocked' = [sig_blocked EXCEPT ![t] = NewMask(@, how, set) \ UNCATCHABLE]
    /\ code' = [code EXCEPT ![t].loose = @ \/ ~(sig_blocked[t] \subseteq sig_blocked'[t])]
    /\ UNCHANGED <<tableVars, sig_pending, runVars, image, images, frames>>

\* kill, tkill, tgkill: proc_find, then sig_send.
Kill(t, u, s) ==
    /\ Trap(t)
    /\ u \in Listed
    /\ sig_pending' = [sig_pending EXCEPT ![u] = @ \cup {s}]
    /\ UNCHANGED <<tableVars, sig_blocked, runVars, guestVars>>

\* A handler returns: rt_sigreturn takes the registers and the mask from the
\* frame at sp.
do_rt_sigreturn(t) ==
    /\ frames[t] # <<>>
    /\ Trap(t)
    /\ LET f == frames[t][Len(frames[t])]
       IN  /\ code' = [code EXCEPT ![t] = f.code]
           /\ sig_blocked' = [sig_blocked EXCEPT ![t] = f.mask]
    /\ frames' = [frames EXCEPT ![t] = SubSeq(@, 1, Len(@) - 1)]
    /\ UNCHANGED <<tableVars, sig_pending, runVars, image, images>>

\* A cell calloc hands out.
Free(h) == refcount[h] = 0

\* Variant: the shared table is not counted.
ShareUncounted(t, c) ==
    /\ sighand' = [sighand EXCEPT ![c] = sighand[t]]
    /\ UNCHANGED <<refcount, actions>>

\* sighand_ref: the child uses the table of its creator.
sighand_ref(t, c) ==
    /\ sighand' = [sighand EXCEPT ![c] = sighand[t]]
    /\ refcount' = [refcount EXCEPT ![sighand[t]] = @ + 1]
    /\ UNCHANGED actions

\* sighand_clone: the child gets a copy of it.
sighand_clone(t, c) ==
    \E h \in Tables :
        /\ Free(h)
        /\ sighand' = [sighand EXCEPT ![c] = h]
        /\ refcount' = [refcount EXCEPT ![h] = 1]
        /\ actions' = [actions EXCEPT ![h] = actions[sighand[t]]]

\* fork and clone.  The mask is inherited, pending signals are not; a forked
\* child continues in the code of its parent, with its stack, the others
\* start on a stack of their own.
Clone(t, c, kind) ==
    /\ pc[t] = "user" /\ pc[c] = "unborn"
    /\ pc' = [pc EXCEPT ![t] = "trap", ![c] = "user"]
    /\ IF kind = "thread" THEN sighand_ref(t, c) ELSE sighand_clone(t, c)
    /\ sig_blocked' = [sig_blocked EXCEPT ![c] = sig_blocked[t]]
    /\ image' = [image EXCEPT ![c] = image[t]]
    /\ code' = [code EXCEPT ![c] = IF kind = "fork" THEN code[t] ELSE Main(image[t])]
    /\ frames' = [frames EXCEPT ![c] = IF kind = "fork" THEN frames[t] ELSE <<>>]
    /\ UNCHANGED <<sig_pending, cur, runVars, images>>

\* Variant: the reference is given up twice.
ReleasedTwice(h) == [refcount EXCEPT ![h] = @ - 2]

\* sighand_release by a task of table h: the counts, and the tables, a freed
\* one being as calloc will hand it out again.
Released(h) == [refcount EXCEPT ![h] = @ - 1]
Cleared(h) ==
    [actions EXCEPT ![h] = IF refcount[h] = 1 THEN [s \in Signals |-> Default(1)] ELSE @]

\* Variant: execve keeps the handlers.
KeptAll(t) == actions[sighand[t]]

\* The actions execve gives the new image: ignored signals stay ignored.
KeptActions(t) ==
    [s \in Signals |->
        [Default(images + 1) EXCEPT !.how = IF actions[sighand[t]][s].how = "IGN" THEN "IGN"
                                            ELSE "DFL"]]

\* execve that succeeds: a new image and a table of its own; mask and pending
\* signals stay.
proc_execve(t) ==
    /\ Trap(t)
    /\ images < MaxImage
    /\ \E h \in Tables :
          /\ Free(h)
          /\ sighand' = [sighand EXCEPT ![t] = h]
          /\ actions' = [Cleared(sighand[t]) EXCEPT ![h] = KeptActions(t)]
          /\ refcount' = [Released(sighand[t]) EXCEPT ![h] = 1]
    /\ images' = images + 1
    /\ image' = [image EXCEPT ![t] = images + 1]
    /\ code' = [code EXCEPT ![t] = Main(images + 1)]
    /\ frames' = [frames EXCEPT ![t] = <<>>]
    /\ running' = [running EXCEPT ![t] = TRUE]
    /\ UNCHANGED <<maskVars, state>>

-----------------------------------------------------------------------------
\* Default actions other than termination.
sig_default_ignore(s) == s \in {17, 23, 28}
sig_default_stop(s) == s \in {EMU_SIGSTOP, 20, 21, 22}

\* The end of the trap: back to the guest, or out of the native run.
TrapEnd(t, run) ==
    /\ pc' = [pc EXCEPT ![t] = IF run THEN "user" ELSE "exiting"]
    /\ cur' = [cur EXCEPT ![t] = 0]

Deliverable(t) == sig_pending[t] \ sig_blocked[t]

\* sig_deliver finds nothing to deliver.
DeliverNone(t) ==
    /\ pc[t] = "trap"
    /\ Deliverable(t) = {}
    /\ TrapEnd(t, running[t])
    /\ UNCHANGED <<tableVars, maskVars, runVars, guestVars>>

\* sig_deliver takes the lowest deliverable signal out of pending.
DeliverTake(t) ==
    /\ pc[t] = "trap"
    /\ \E s \in Deliverable(t) :
          /\ \A r \in Deliverable(t) : s <= r
          /\ sig_pending' = [sig_pending EXCEPT ![t] = @ \ {s}]
          /\ cur' = [cur EXCEPT ![t] = s]
    /\ pc' = [pc EXCEPT ![t] = "taken"]
    /\ UNCHANGED <<tableVars, sig_blocked, runVars, guestVars>>

\* The action sig_deliver reads under the lock of the table.
Action(t) == actions[sighand[t]][cur[t]]

\* The signal is ignored, by its action or by default.
DeliverIgnored(t) ==
    /\ pc[t] = "taken"
    /\ \/ Action(t).how = "IGN"
       \/ Action(t).how = "DFL" /\ sig_default_ignore(cur[t])
    /\ TrapEnd(t, running[t])
    /\ UNCHANGED <<tableVars, maskVars, runVars, guestVars>>

\* The default of SIGCONT and of the stop signals changes state only.
DeliverJobControl(t) ==
    /\ pc[t] = "taken"
    /\ Action(t).how = "DFL"
    /\ cur[t] = EMU_SIGCONT \/ sig_default_stop(cur[t])
    /\ state' = [state EXCEPT ![t] = IF cur[t] = EMU_SIGCONT THEN "RUNNING" ELSE "STOPPED"]
    /\ TrapEnd(t, running[t])
    /\ UNCHANGED <<tableVars, maskVars, running, guestVars>>

\* The default of the others: proc_exit.
DeliverFatal(t) ==
    /\ pc[t] = "taken"
    /\ Action(t).how = "DFL"
    /\ cur[t] # EMU_SIGCONT
    /\ ~sig_default_ignore(cur[t]) /\ ~sig_default_stop(cur[t])
    /\ running' = [running EXCEPT ![t] = FALSE]
    /\ state' = [state EXCEPT ![t] = "ZOMBIE"]
    /\ TrapEnd(t, FALSE)
    /\ UNCHANGED <<tableVars, maskVars, guestVars>>

\* A handler, but no room for the frame: the signal is dropped.
DeliverNoRoom(t) ==
    /\ pc[t] = "taken"
    /\ Action(t).how = "catch"
    /\ Len(frames[t]) >= MaxFrames[t]
    /\ TrapEnd(t, running[t])
    /\ UNCHANGED <<tableVars, maskVars, runVars, guestVars>>

\* Variants: the signal itself is not blocked; SIGKILL may be.
HandlerMaskOpen(old, act, s) == (old \cup act.mask) \ UNCATCHABLE
HandlerMaskAll(old, act, s) == old \cup act.mask \cup (IF act.nodefer THEN {} ELSE {s})

\* The mask in force while a handler runs.
HandlerMask(old, act, s) ==
    (old \cup act.mask \cup (IF act.nodefer THEN {} ELSE {s})) \ UNCATCHABLE

\* A handler: the frame is pushed, the registers and the mask set up.
DeliverCaught(t) ==
    /\ pc[t] = "taken"
    /\ Action(t).how = "catch"
    /\ Len(frames[t]) < MaxFrames[t]
    /\ frames' = [frames EXCEPT ![t] = Append(@, [code |-> code[t], mask |-> sig_blocked[t]])]
    /\ code' = [code EXCEPT ![t] = [sig |-> cur[t], img |-> Action(t).img,
                                    nodefer |-> Action(t).nodefer, loose |-> FALSE]]
    /\ sig_blocked' = [sig_blocked EXCEPT ![t] = HandlerMask(@, Action(t), cur[t])]
    /\ IF Action(t).reset
       THEN pc' = [pc EXCEPT ![t] = "reset"] /\ UNCHANGED cur
       ELSE TrapEnd(t, running[t])
    /\ UNCHANGED <<tableVars, sig_pending, runVars, image, images>>

\* SA_RESETHAND: the table is written in a critical section of its own.
DeliverReset(t) ==
    /\ pc[t] = "reset"
    /\ actions' = [actions EXCEPT ![sighand[t]][cur[t]].how = "DFL"]
    /\ TrapEnd(t, running[t])
    /\ UNCHANGED <<sighand, refcount, maskVars, runVars, guestVars>>

sig_deliver(t) ==
    \/ DeliverNone(t) \/ DeliverTake(t) \/ DeliverIgnored(t) \/ DeliverJobControl(t)
    \/ DeliverFatal(t) \/ DeliverNoRoom(t) \/ DeliverCaught(t) \/ DeliverReset(t)

\* proc_run_exit and proc_destroy: the task leaves and gives up its table.
\* (What was in its struct and on its stack means nothing from here on.)
proc_destroy(t) ==
    /\ pc[t] = "exiting"
    /\ pc' = [pc EXCEPT ![t] = "gone"]
    /\ sighand' = [sighand EXCEPT ![t] = NoTable]
    /\ refcount' = Released(sighand[t])
    /\ actions' = Cleared(sighand[t])
    /\ sig_pending' = [sig_pending EXCEPT ![t] = {}]
    /\ sig_blocked' = [sig_blocked EXCEPT ![t] = {}]
    /\ frames' = [frames EXCEPT ![t] = <<>>]
    /\ code' = [code EXCEPT ![t] = Main(image[t])]
    /\ state' = [state EXCEPT ![t] = "ZOMBIE"]
    /\ UNCHANGED <<cur, running, image, images>>

Calls(t) ==
    \/ OtherCall(t)
    \/ Exit(t)
    \/ \E a \in ActArgs : sig_action(t, a[1], a[2])
    \/ \E m \in MaskArgs : sig_procmask(t, m[1], m[2])
    \/ \E a \in KillArgs : Kill(t, a[1], a[2])
    \/ do_rt_sigreturn(t)
    \/ \E c \in Tasks, kind \in CloneKinds : Clone(t, c, kind)
    \/ proc_execve(t)

Internal(t) == sig_deliver(t) \/ proc_destroy(t)

Next == \E t \in Tasks : Calls(t) \/ Internal(t)

Spec == Init /\ [][Next]_vars

\* The host schedules every thread that is inside the emulator.
FairSpec == Spec /\ \A t \in Tasks : WF_vars(Internal(t))

-----------------------------------------------------------------------------
Labels == {"unborn", "user", "trap", "taken", "reset", "exiting", "gone"}

\* Type of every variable.
TypeOK ==
    /\ sighand \in [Tasks -> Tables \cup {NoTable}]
    /\ refcount \in [Tables -> Nat]
    /\ actions \in [Tables -> [Signals -> Actions]]
    /\ sig_pending \in [Tasks -> SUBSET Signals]
    /\ sig_blocked \in [Tasks -> SUBSET Signals]
    /\ pc \in [Tasks -> Labels]
    /\ cur \in [Tasks -> Signals \cup {0}]
    /\ running \in [Tasks -> BOOLEAN]
    /\ state \in [Tasks -> {"RUNNING", "STOPPED", "ZOMBIE"}]
    /\ image \in [Tasks -> Images]
    /\ images \in Images
    /\ code \in [Tasks -> Codes]
    /\ frames \in [Tasks -> Seq(Frames)]

\* SIGKILL and SIGSTOP are never blocked, also not by the mask of a frame
\* that rt_sigreturn will restore, and keep their default action in every
\* table ("SIGKILL and SIGSTOP can never be blocked", "Cannot change handler
\* for SIGKILL or SIGSTOP").
Uncatchable ==
    /\ \A t \in Tasks :
          /\ sig_blocked[t] \cap UNCATCHABLE = {}
          /\ \A i \in 1..Len(frames[t]) : frames[t][i].mask \cap UNCATCHABLE = {}
    /\ \A h \in Tables, s \in Signals \cap UNCATCHABLE : actions[h][s].how = "DFL"

\* The reference count of a table is the number of tasks that use it: it is
\* freed exactly when the last of them lets go.
RefsExact ==
    \A h \in Tables : refcount[h] = Cardinality({t \in Tasks : sighand[t] = h})

\* A handler runs, and every interrupted one on the stack will resume, in
\* the image that installed it: no execve leaves a task, or a thread that
\* shared its table, a handler of a program that is gone ("the new image
\* does not continue to share sigactions with other threads").
HandlerOfImage ==
    \A t \in Listed :
        /\ code[t].img = image[t]
        /\ \A i \in 1..Len(frames[t]) : frames[t][i].code.img = image[t]

\* The code at level i of the stack, the interrupted ones first.
Level(t, i) == IF i <= Len(frames[t]) THEN frames[t][i].code ELSE code[t]

\* A handler is not entered again while it is active, unless it was entered
\* with SA_NODEFER or guest code has unblocked signals in the meantime.
NoReentry ==
    \A t \in Listed : \A i, j \in 1..(Len(frames[t]) + 1) :
        i < j /\ Level(t, i).sig # 0 /\ Level(t, i).sig = Level(t, j).sig =>
            Level(t, i).nodefer \/ \E k \in i..(j - 1) : Level(t, k).loose

\* A task that comes to sig_deliver with SIGKILL its lowest deliverable
\* signal ends, whatever it has installed or blocked before.
KillEnds ==
    \A t \in Tasks :
        (/\ pc[t] = "trap"
         /\ EMU_SIGKILL \in Deliverable(t)
         /\ \A r \in Deliverable(t) : EMU_SIGKILL <= r) ~> (pc[t] = "gone")
=============================================================================
