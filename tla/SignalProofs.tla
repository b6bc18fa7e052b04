---------------------------- MODULE SignalProofs ----------------------------
(***************************************************************************)
(* Proofs about Signal: types, the two signals that cannot be caught or    *)
(* blocked, the reference counts of the sighand tables, and the image each *)
(* handler belongs to.                                                     *)
(***************************************************************************)
EXTENDS Signal, FiniteSetTheorems, SequenceTheorems, TLAPS

\* A task has a table exactly while it is listed; sig_deliver past its first
\* step has a signal.
Places ==
    \A t \in Tasks :
        /\ pc[t] \in {"unborn", "gone"} <=> sighand[t] = NoTable
        /\ pc[t] \in {"taken", "reset"} => cur[t] \in Signals

\* TypeOK with counts that may still be negative.
BaseType ==
    /\ sighand \in [Tasks -> Tables \cup {NoTable}]
    /\ refcount \in [Tables -> Int]
    /\ actions \in [Tables -> [Signals -> Actions]]
    /\ sig_pending \in [Tasks -> SUBSET Signals]
    /\ sig_blocked \in [Tasks -> SUBSET Signals]
    /\ pc \in [Tasks -> Labels]
    /\ cur \in [Tasks -> Signals \cup {0}]
    /\ running \in [Tasks -> BOOLEAN]
    /\ state \in [Tasks -> {"RUNNING", "STOPPED", "ZOMBIE"}]
    /\ image \in [Tasks -> Images]
    /\ images \in Images
    /\ code \in [Tasks -> Codes]
    /\ frames \in [Tasks -> Seq(Frames)]

TypeInv == BaseType /\ Places

\* Main programs and default actions have their types.
LEMMA DefaultTypes ==
    /\ 1 \in Images
    /\ \A i \in Images : Main(i) \in Codes /\ Default(i) \in Actions
  BY ConstAssumption DEF Images, Main, Codes, Default, Actions

\* The masks sig_procmask and sig_deliver compute are sets of signals.
LEMMA MaskTypes ==
    ASSUME NEW old \in SUBSET Signals, NEW act \in Actions, NEW s \in Signals,
           NEW m \in MaskArgs
    PROVE  /\ NewMask(old, m[1], m[2]) \ UNCATCHABLE \in SUBSET Signals
           /\ HandlerMask(old, act, s) \in SUBSET Signals
  <1>1. m[1] \in {"BLOCK", "UNBLOCK", "SETMASK"} /\ m[2] \in SUBSET Signals
    BY ConstAssumption
  <1>2. NewMask(old, m[1], m[2]) \in SUBSET Signals
    BY <1>1 DEF NewMask
  <1>3. HandlerMask(old, act, s) \in SUBSET Signals
    BY DEF HandlerMask, Actions
  <1>. QED  BY <1>2, <1>3

\* Writing one field of an action or of a code keeps its type.
LEMMA FieldTypes ==
    /\ \A a \in Actions, w \in {"DFL", "IGN", "catch"} : [a EXCEPT !.how = w] \in Actions
    /\ \A c \in Codes, b \in BOOLEAN : [c EXCEPT !.loose = b] \in Codes
  BY DEF Actions, Codes

\* The last frame, and the stack without it.
LEMMA PopTypes ==
    ASSUME NEW q \in Seq(Frames), q # <<>>
    PROVE  /\ q[Len(q)] \in Frames
           /\ SubSeq(q, 1, Len(q) - 1) \in Seq(Frames)
           /\ Len(SubSeq(q, 1, Len(q) - 1)) = Len(q) - 1
           /\ \A i \in 1..(Len(q) - 1) : SubSeq(q, 1, Len(q) - 1)[i] = q[i]
  <1>1. Len(q) \in Nat /\ Len(q) > 0
    BY EmptySeq, LenProperties
  <1>2. \A i \in 1..Len(q) : q[i] \in Frames
    BY ElementOfSeq
  <1>3. \A i \in 1..(Len(q) - 1) : q[i] \in Frames
    BY <1>1, <1>2
  <1>. DEFINE r == SubSeq(q, 1, Len(q) - 1)
  <1>4. /\ r \in Seq(Frames)
        /\ Len(r) = IF 1 <= Len(q) - 1 THEN (Len(q) - 1) - 1 + 1 ELSE 0
        /\ \A i \in 1..((Len(q) - 1) - 1 + 1) : r[i] = q[1 + i - 1]
    <2>. HIDE DEF r
    <2>1. Len(q) - 1 \in Int /\ 1 \in Int
      BY <1>1
    <2>. QED  BY <1>3, <2>1, SubSeqProperties DEF r
  <1>5. Len(r) = Len(q) - 1
    <2>. HIDE DEF r
    <2>1. CASE Len(q) = 1
      BY <2>1, <1>4
    <2>2. CASE Len(q) > 1
      BY <2>2, <1>1, <1>4
    <2>3. Len(q) = 1 \/ Len(q) > 1
      BY <1>1
    <2>. QED  BY <2>1, <2>2, <2>3
  <1>6. \A i \in 1..(Len(q) - 1) : r[i] = q[i]
    <2>. SUFFICES ASSUME NEW i \in 1..(Len(q) - 1) PROVE r[i] = q[i]
      OBVIOUS
    <2>. HIDE DEF r
    <2>1. i \in 1..((Len(q) - 1) - 1 + 1) /\ 1 + i - 1 = i
      BY <1>1
    <2>. QED  BY <1>4, <2>1
  <1>7. q[Len(q)] \in Frames
    BY <1>1, <1>2
  <1>. QED  BY <1>4, <1>5, <1>6, <1>7

\* Every variable keeps its type.
THEOREM TypeInvariant == Spec => []TypeInv
  <1>1. Init => TypeInv
    BY ConstAssumption, DefaultTypes, EmptySeq, SMTT(60) DEF Init, TypeInv, BaseType, Places, Labels
  <1>2. TypeInv /\ [Next]_vars => TypeInv'
    <2>. SUFFICES ASSUME TypeInv, [Next]_vars PROVE TypeInv'
      OBVIOUS
    <2>. USE DEF TypeInv, BaseType, Places, Labels, tableVars, maskVars, runVars, guestVars
    <2>1. ASSUME NEW t \in Tasks, OtherCall(t) PROVE TypeInv'
      BY <2>1 DEF OtherCall, Trap
    <2>2. ASSUME NEW t \in Tasks, Exit(t) PROVE TypeInv'
      BY <2>2 DEF Exit, Trap
    <2>3. ASSUME NEW t \in Tasks, NEW a \in ActArgs, sig_action(t, a[1], a[2]) PROVE TypeInv'
      <3>1. a[1] \in Signals /\ a[2] \in ActionArgs
        BY ConstAssumption
      <3>2. [how |-> a[2].how, img |-> image[t], mask |-> a[2].mask, reset |-> a[2].reset,
             nodefer |-> a[2].nodefer] \in Actions
        BY <3>1 DEF ActionArgs, Actions
      <3>3. actions' \in [Tables -> [Signals -> Actions]]
        BY <2>3, <3>1, <3>2, Zenon DEF sig_action
      <3>. QED  BY <2>3, <3>3 DEF sig_action, Trap
    <2>4. ASSUME NEW t \in Tasks, NEW m \in MaskArgs, sig_procmask(t, m[1], m[2])
          PROVE TypeInv'
      <3>1. NewMask(sig_blocked[t], m[1], m[2]) \ UNCATCHABLE \in SUBSET Signals
        BY ConstAssumption DEF NewMask
      <3>2. sig_blocked' \in [Tasks -> SUBSET Signals]
        BY <2>4, <3>1 DEF sig_procmask
      <3>3. code' \in [Tasks -> Codes]
        <4>1. PICK b \in BOOLEAN : code' = [code EXCEPT ![t].loose = b]
          BY <2>4, Zenon DEF sig_procmask
        <4>. QED  BY <4>1, FieldTypes, SMTT(60)
      <3>. QED  BY <2>4, <3>2, <3>3, Zenon DEF sig_procmask, Trap
    <2>5. ASSUME NEW t \in Tasks, NEW a \in KillArgs, Kill(t, a[1], a[2]) PROVE TypeInv'
      <3>1. a[1] \in Tasks /\ a[2] \in Signals
        BY ConstAssumption
      <3>. QED  BY <2>5, <3>1 DEF Kill, Trap
    <2>6. ASSUME NEW t \in Tasks, do_rt_sigreturn(t) PROVE TypeInv'
      <3>1. frames[t][Len(frames[t])] \in Frames
            /\ SubSeq(frames[t], 1, Len(frames[t]) - 1) \in Seq(Frames)
        BY <2>6, PopTypes DEF do_rt_sigreturn
      <3>. QED  BY <2>6, <3>1, ZenonT(60) DEF do_rt_sigreturn, Trap, Frames
    <2>7. ASSUME NEW t \in Tasks, NEW c \in Tasks, NEW kind \in CloneKinds, Clone(t, c, kind)
          PROVE TypeInv'
      <3>1. Main(image[t]) \in Codes /\ <<>> \in Seq(Frames)
        BY DefaultTypes, EmptySeq
      <3>2. sighand[t] \in Tables /\ t # c
        BY <2>7, Zenon DEF Clone
      <3>3. PICK h \in Tables : sighand' = [sighand EXCEPT ![c] = h]
        BY <2>7, <3>2 DEF Clone, sighand_ref, sighand_clone
      <3>4. refcount' \in [Tables -> Int] /\ actions' \in [Tables -> [Signals -> Actions]]
        <4>1. CASE sighand_ref(t, c)
          BY <4>1, <3>2 DEF sighand_ref
        <4>2. CASE sighand_clone(t, c)
          <5>1. PICK k \in Tables :
                     /\ refcount' = [refcount EXCEPT ![k] = 1]
                     /\ actions' = [actions EXCEPT ![k] = actions[sighand[t]]]
            BY <4>2, Zenon DEF sighand_clone
          <5>. QED  BY <5>1, <3>2
        <4>. QED  BY <2>7, <4>1, <4>2 DEF Clone
      <3>5. pc' \in [Tasks -> Labels] /\ sighand' \in [Tasks -> Tables \cup {NoTable}]
        BY <2>7, <3>3, ZenonT(60) DEF Clone
      <3>6. Places'
        BY <2>7, <3>2, <3>3, ConstAssumption DEF Clone
      <3>7. /\ sig_blocked' \in [Tasks -> SUBSET Signals]
            /\ image' \in [Tasks -> Images]
            /\ UNCHANGED <<sig_pending, cur, runVars, images>>
        BY <2>7 DEF Clone
      <3>8. code' \in [Tasks -> Codes] /\ frames' \in [Tasks -> Seq(Frames)]
        BY <2>7, <3>1, SMTT(60) DEF Clone
      <3>. QED  BY <3>4, <3>5, <3>6, <3>7, <3>8
    <2>8. ASSUME NEW t \in Tasks, proc_execve(t) PROVE TypeInv'
      <3>1. images + 1 \in Images
        BY <2>8, ConstAssumption DEF proc_execve, Images
      <3>2. sighand[t] \in Tables
        BY <2>8, Zenon DEF proc_execve, Trap
      <3>3. Main(images + 1) \in Codes /\ <<>> \in Seq(Frames)
        BY <3>1, DefaultTypes, EmptySeq
      <3>4. KeptActions(t) \in [Signals -> Actions]
        BY <3>1, DefaultTypes, FieldTypes, Zenon DEF KeptActions
      <3>5. Cleared(sighand[t]) \in [Tables -> [Signals -> Actions]]
        BY <3>2, DefaultTypes DEF Cleared
      <3>6. Released(sighand[t]) \in [Tables -> Int]
        BY <3>2, SMTT(60) DEF Released
      <3>. QED  BY <2>8, <3>1, <3>3, <3>4, <3>5, <3>6, ConstAssumption, SMTT(60) DEF proc_execve, Trap
    <2>9. ASSUME NEW t \in Tasks, sig_deliver(t) PROVE TypeInv'
      <3>1. CASE DeliverNone(t)
        BY <3>1 DEF DeliverNone, TrapEnd
      <3>2. CASE DeliverTake(t)
        BY <3>2 DEF DeliverTake, Deliverable
      <3>3. CASE DeliverIgnored(t)
        BY <3>3 DEF DeliverIgnored, TrapEnd
      <3>4. CASE DeliverJobControl(t)
        BY <3>4 DEF DeliverJobControl, TrapEnd
      <3>5. CASE DeliverFatal(t)
        BY <3>5 DEF DeliverFatal, TrapEnd
      <3>6. CASE DeliverNoRoom(t)
        BY <3>6 DEF DeliverNoRoom, TrapEnd
      <3>7. CASE DeliverCaught(t)
        <4>1. cur[t] \in Signals /\ sighand[t] \in Tables /\ Action(t) \in Actions
          BY <3>7, Zenon DEF DeliverCaught, Action
        <4>2. HandlerMask(sig_blocked[t], Action(t), cur[t]) \in SUBSET Signals
          BY <4>1 DEF HandlerMask, Actions
        <4>3. [code |-> code[t], mask |-> sig_blocked[t]] \in Frames
          BY DEF Frames
        <4>4. Append(frames[t], [code |-> code[t], mask |-> sig_blocked[t]]) \in Seq(Frames)
          BY <4>3, AppendProperties
        <4>5. [sig |-> cur[t], img |-> Action(t).img, nodefer |-> Action(t).nodefer,
               loose |-> FALSE] \in Codes
          BY <4>1 DEF Actions, Codes
        <4>6. pc' \in [Tasks -> Labels] /\ cur' \in [Tasks -> Signals \cup {0}] /\ Places'
          BY <3>7, <4>1, ZenonT(60) DEF DeliverCaught, TrapEnd
        <4>. QED  BY <3>7, <4>2, <4>4, <4>5, <4>6, Zenon DEF DeliverCaught
      <3>8. CASE DeliverReset(t)
        <4>1. cur[t] \in Signals /\ sighand[t] \in Tables
          BY <3>8, Zenon DEF DeliverReset
        <4>2. actions' \in [Tables -> [Signals -> Actions]]
          BY <3>8, <4>1, FieldTypes, ZenonT(60) DEF DeliverReset
        <4>. QED  BY <3>8, <4>2 DEF DeliverReset, TrapEnd
      <3>. QED  BY <2>9, <3>1, <3>2, <3>3, <3>4, <3>5, <3>6, <3>7, <3>8, SMTT(60) DEF sig_deliver
    <2>10. ASSUME NEW t \in Tasks, proc_destroy(t) PROVE TypeInv'
      <3>1. sighand[t] \in Tables /\ Main(image[t]) \in Codes /\ <<>> \in Seq(Frames)
        BY <2>10, DefaultTypes, EmptySeq, Zenon DEF proc_destroy
      <3>2. Cleared(sighand[t]) \in [Tables -> [Signals -> Actions]]
        BY <3>1, DefaultTypes DEF Cleared
      <3>. QED  BY <2>10, <3>1, <3>2 DEF proc_destroy, Released
    <2>11. CASE UNCHANGED vars
      BY <2>11 DEF vars
    <2>. QED
      BY <2>1, <2>2, <2>3, <2>4, <2>5, <2>6, <2>7, <2>8, <2>9, <2>10, <2>11, SMTT(60)
         DEF Next, Calls, Internal
  <1>. QED  BY <1>1, <1>2, PTL DEF Spec

-----------------------------------------------------------------------------
\* SIGKILL and SIGSTOP: with the types, Uncatchable is inductive.
LEMMA UncatchableInit == Init => Uncatchable
  <1>. SUFFICES ASSUME Init PROVE Uncatchable
    OBVIOUS
  <1>1. \A t \in Tasks : sig_blocked[t] = {} /\ frames[t] = <<>> /\ Len(frames[t]) = 0
    BY EmptySeq DEF Init
  <1>2. \A h \in Tables, s \in Signals : actions[h][s].how = "DFL"
    BY DEF Init, Default
  <1>. QED  BY <1>1, <1>2 DEF Uncatchable

\* The three parts of Uncatchable, for one mask, one stack and one table.
MaskSafe(m) == m \cap UNCATCHABLE = {}
StackSafe(q) == \A i \in 1..Len(q) : MaskSafe(q[i].mask)
TableSafe(a) == \A s \in Signals \cap UNCATCHABLE : a[s].how = "DFL"

Parts ==
    /\ \A t \in Tasks : MaskSafe(sig_blocked[t]) /\ StackSafe(frames[t])
    /\ \A h \in Tables : TableSafe(actions[h])

LEMMA PartsOf == (Uncatchable <=> Parts) /\ (Uncatchable' <=> Parts')
  BY DEF Uncatchable, Parts, MaskSafe, StackSafe, TableSafe

\* Stacks and masks that are safe to start with, pushed and popped.
LEMMA SafeStacks ==
    /\ MaskSafe({}) /\ StackSafe(<<>>)
    /\ \A q \in Seq(Frames) : StackSafe(q) /\ q # <<>> =>
           MaskSafe(q[Len(q)].mask) /\ StackSafe(SubSeq(q, 1, Len(q) - 1))
    /\ \A q \in Seq(Frames), f \in Frames : StackSafe(q) /\ MaskSafe(f.mask) =>
           StackSafe(Append(q, f))
  <1>1. MaskSafe({}) /\ StackSafe(<<>>)
    <2>1. Len(<<>>) = 0
      BY EmptySeq
    <2>. QED  BY <2>1 DEF MaskSafe, StackSafe
  <1>2. ASSUME NEW q \in Seq(Frames), StackSafe(q), q # <<>>
        PROVE MaskSafe(q[Len(q)].mask) /\ StackSafe(SubSeq(q, 1, Len(q) - 1))
    <2>. DEFINE r == SubSeq(q, 1, Len(q) - 1)
    <2>1. Len(q) \in Nat /\ Len(q) > 0
      BY <1>2, EmptySeq, LenProperties
    <2>2. Len(r) = Len(q) - 1 /\ \A i \in 1..(Len(q) - 1) : r[i] = q[i]
      BY <1>2, PopTypes
    <2>3. Len(q) \in 1..Len(q) /\ \A i \in 1..(Len(q) - 1) : i \in 1..Len(q)
      BY <2>1
    <2>. HIDE DEF r
    <2>4. MaskSafe(q[Len(q)].mask) /\ StackSafe(r)
      BY <1>2, <2>2, <2>3 DEF StackSafe
    <2>. QED  BY <2>4 DEF r
  <1>3. ASSUME NEW q \in Seq(Frames), NEW f \in Frames, StackSafe(q), MaskSafe(f.mask)
        PROVE StackSafe(Append(q, f))
    <2>. DEFINE r == Append(q, f)
    <2>1. /\ Len(q) \in Nat
          /\ Len(r) = Len(q) + 1
          /\ \A i \in 1..Len(q) : r[i] = q[i]
          /\ r[Len(q) + 1] = f
      BY AppendProperties, LenProperties
    <2>2. \A i \in 1..(Len(q) + 1) : i \in 1..Len(q) \/ i = Len(q) + 1
      BY <2>1
    <2>. HIDE DEF r
    <2>3. StackSafe(r)
      BY <1>3, <2>1, <2>2, SMTT(30) DEF StackSafe
    <2>. QED  BY <2>3 DEF r
  <1>. QED  BY <1>1, <1>2, <1>3

LEMMA UncatchableStep == TypeInv /\ Uncatchable /\ [Next]_vars => Uncatchable'
  <1>. SUFFICES ASSUME TypeInv, Parts, [Next]_vars PROVE Parts'
    BY PartsOf
  <1>. USE DEF TypeInv, BaseType, Places, Parts, tableVars, maskVars, runVars, guestVars
  <1>1. ASSUME NEW t \in Tasks, OtherCall(t) \/ Exit(t) \/ DeliverNone(t) \/ DeliverTake(t)
                  \/ DeliverIgnored(t) \/ DeliverJobControl(t) \/ DeliverFatal(t)
                  \/ DeliverNoRoom(t)
        PROVE Parts'
    <2>1. UNCHANGED <<sig_blocked, frames, actions>>
      BY <1>1, ZenonT(60) DEF OtherCall, Exit, DeliverNone, DeliverTake, DeliverIgnored,
                  DeliverJobControl, DeliverFatal, DeliverNoRoom
    <2>. QED  BY <2>1
  <1>2. ASSUME NEW t \in Tasks, NEW a \in ActArgs, sig_action(t, a[1], a[2]) PROVE Parts'
    <2>1. a[1] \in Signals \ UNCATCHABLE /\ UNCHANGED <<sig_blocked, frames>>
      BY <1>2, ConstAssumption, ZenonT(60) DEF sig_action
    <2>2. \A h \in Tables : \A s \in Signals : s # a[1] => actions'[h][s] = actions[h][s]
      BY <1>2 DEF sig_action
    <2>3. \A h \in Tables : TableSafe(actions'[h])
      <3>. SUFFICES ASSUME NEW h \in Tables, NEW s \in Signals \cap UNCATCHABLE
                    PROVE actions'[h][s].how = "DFL"
        BY DEF TableSafe
      <3>1. s \in Signals /\ actions[h][s].how = "DFL"
        BY DEF TableSafe
      <3>2. s # a[1]
        BY <2>1
      <3>. QED  BY <2>2, <3>1, <3>2, ZenonT(60)
    <2>. QED  BY <2>1, <2>3
  <1>3. ASSUME NEW t \in Tasks, NEW m \in MaskArgs, sig_procmask(t, m[1], m[2]) PROVE Parts'
    <2>1. /\ sig_blocked' = [sig_blocked EXCEPT ![t] =
                                NewMask(sig_blocked[t], m[1], m[2]) \ UNCATCHABLE]
          /\ UNCHANGED <<actions, frames>>
      BY <1>3 DEF sig_procmask
    <2>2. MaskSafe(NewMask(sig_blocked[t], m[1], m[2]) \ UNCATCHABLE)
      BY DEF MaskSafe
    <2>. QED  BY <2>1, <2>2
  <1>4. ASSUME NEW t \in Tasks, NEW a \in KillArgs, Kill(t, a[1], a[2]) PROVE Parts'
    BY <1>4, SMTT(60) DEF Kill
  <1>5. ASSUME NEW t \in Tasks, do_rt_sigreturn(t) PROVE Parts'
    <2>1. frames[t] \in Seq(Frames) /\ frames[t] # <<>> /\ StackSafe(frames[t])
      BY <1>5 DEF do_rt_sigreturn
    <2>2. /\ MaskSafe(frames[t][Len(frames[t])].mask)
          /\ StackSafe(SubSeq(frames[t], 1, Len(frames[t]) - 1))
      BY <2>1, SafeStacks, SMTT(60)
    <2>. QED  BY <1>5, <2>2, SMTT(60) DEF do_rt_sigreturn
  <1>6. ASSUME NEW t \in Tasks, NEW c \in Tasks, NEW kind \in CloneKinds, Clone(t, c, kind)
        PROVE Parts'
    <2>1. sighand[t] \in Tables
      BY <1>6, Zenon DEF Clone, Labels
    <2>2. \A h \in Tables : TableSafe(actions'[h])
      BY <1>6, <2>1, ZenonT(60) DEF Clone, sighand_ref, sighand_clone
    <2>3. \A u \in Tasks : MaskSafe(sig_blocked'[u]) /\ StackSafe(frames'[u])
      BY <1>6, SafeStacks, SMTT(60) DEF Clone
    <2>. QED  BY <2>2, <2>3
  <1>7. ASSUME NEW t \in Tasks, proc_execve(t) \/ proc_destroy(t) PROVE Parts'
    <2>1. \A u \in Tasks : MaskSafe(sig_blocked'[u]) /\ StackSafe(frames'[u])
      BY <1>7, SafeStacks, ZenonT(60) DEF proc_execve, proc_destroy
    <2>2. sighand[t] \in Tables
      BY <1>7, Zenon DEF proc_execve, proc_destroy, Trap, Labels
    <2>3. TableSafe([s \in Signals |-> Default(1)])
      BY DEF TableSafe, Default
    <2>4. TableSafe(KeptActions(t))
      <3>. SUFFICES ASSUME NEW s \in Signals \cap UNCATCHABLE
                    PROVE KeptActions(t)[s].how = "DFL"
        BY DEF TableSafe
      <3>1. actions[sighand[t]][s].how = "DFL"
        BY <2>2 DEF TableSafe
      <3>. QED  BY <3>1, SMTT(60) DEF KeptActions, Default
    <2>5. \A h \in Tables : TableSafe(Cleared(sighand[t])[h])
      BY <2>2, <2>3 DEF Cleared
    <2>6. Cleared(sighand[t]) \in [Tables -> [Signals -> Actions]]
      BY <2>2, DefaultTypes, SMTT(60) DEF Cleared
    <2>7. \A h \in Tables : \/ actions'[h] = Cleared(sighand[t])[h]
                            \/ actions'[h] = KeptActions(t)
      BY <1>7, <2>6, SMTT(30) DEF proc_execve, proc_destroy
    <2>8. \A h \in Tables : TableSafe(actions'[h])
      BY <2>4, <2>5, <2>7, ZenonT(60)
    <2>. QED  BY <2>1, <2>8
  <1>8. ASSUME NEW t \in Tasks, DeliverCaught(t) PROVE Parts'
    <2>1. MaskSafe(HandlerMask(sig_blocked[t], Action(t), cur[t]))
      BY SMTT(60) DEF HandlerMask, MaskSafe
    <2>2. StackSafe(Append(frames[t], [code |-> code[t], mask |-> sig_blocked[t]]))
      <3>1. frames[t] \in Seq(Frames) /\ [code |-> code[t], mask |-> sig_blocked[t]] \in Frames
        BY Zenon DEF Frames
      <3>2. MaskSafe([code |-> code[t], mask |-> sig_blocked[t]].mask)
        OBVIOUS
      <3>. QED  BY <3>1, <3>2, SafeStacks
    <2>. QED  BY <1>8, <2>1, <2>2, SMTT(60) DEF DeliverCaught
  <1>9. ASSUME NEW t \in Tasks, DeliverReset(t) PROVE Parts'
    <2>1. UNCHANGED <<sig_blocked, frames>>
      BY <1>9 DEF DeliverReset
    <2>2. sighand[t] \in Tables /\ cur[t] \in Signals
      BY <1>9, Zenon DEF DeliverReset, Labels
    <2>3. \A h \in Tables : \A s \in Signals :
             actions'[h][s].how = "DFL" \/ actions'[h][s] = actions[h][s]
      BY <1>9, <2>2, SMTT(60) DEF DeliverReset, Actions
    <2>4. \A h \in Tables : TableSafe(actions'[h])
      <3>. SUFFICES ASSUME NEW h \in Tables, NEW s \in Signals \cap UNCATCHABLE
                    PROVE actions'[h][s].how = "DFL"
        BY DEF TableSafe
      <3>1. s \in Signals /\ actions[h][s].how = "DFL"
        BY DEF TableSafe
      <3>. QED  BY <2>3, <3>1, SMTT(60)
    <2>. QED  BY <2>1, <2>4
  <1>10. CASE UNCHANGED vars
    BY <1>10 DEF vars
  <1>. QED
    BY <1>1, <1>2, <1>3, <1>4, <1>5, <1>6, <1>7, <1>8, <1>9, <1>10, ZenonT(60)
       DEF Next, Calls, Internal, sig_deliver

\* SIGKILL and SIGSTOP are never blocked, never will be by a frame on the
\* stack, and keep their default action: sig_action refuses them, and
\* sig_procmask and sig_deliver remove them from every mask they compute.
THEOREM KillNeverBlocked == Spec => []Uncatchable
  BY UncatchableInit, UncatchableStep, TypeInvariant, PTL DEF Spec

-----------------------------------------------------------------------------
\* Reference counts: RefsExact, with the types, is inductive.
Users(f, h) == {t \in Tasks : f[t] = h}

LEMMA RefsUsers ==
    /\ RefsExact <=> \A h \in Tables : refcount[h] = Cardinality(Users(sighand, h))
    /\ RefsExact' <=> \A h \in Tables : refcount'[h] = Cardinality(Users(sighand', h))
  BY Zenon DEF RefsExact, Users

LEMMA UsersFinite ==
    ASSUME NEW f, NEW h
    PROVE  /\ IsFiniteSet(Users(f, h)) /\ Cardinality(Users(f, h)) \in Nat
           /\ Cardinality(Users(f, h)) = 0 <=> \A t \in Tasks : f[t] # h
  <1>1. IsFiniteSet(Users(f, h))
    BY FS_Subset, ConstAssumption DEF Users
  <1>. QED  BY <1>1, FS_CardinalityType, FS_EmptySet DEF Users

\* A task that turns from one table to another.
Moves(f, g, c, k) ==
    /\ f \in [Tasks -> Tables \cup {NoTable}]
    /\ c \in Tasks
    /\ f[c] # k
    /\ g = [f EXCEPT ![c] = k]

LEMMA MoveUser ==
    ASSUME NEW f, NEW g, NEW c, NEW k, Moves(f, g, c, k)
    PROVE  /\ Cardinality(Users(g, k)) = Cardinality(Users(f, k)) + 1
           /\ Cardinality(Users(g, f[c])) = Cardinality(Users(f, f[c])) - 1
           /\ \A h : h # k /\ h # f[c] => Cardinality(Users(g, h)) = Cardinality(Users(f, h))
  <1>1. /\ Users(g, k) = Users(f, k) \cup {c} /\ c \notin Users(f, k)
        /\ Users(g, f[c]) = Users(f, f[c]) \ {c} /\ c \in Users(f, f[c])
        /\ \A h : h # k /\ h # f[c] => Users(g, h) = Users(f, h)
    BY DEF Users, Moves
  <1>2. IsFiniteSet(Users(f, k)) /\ IsFiniteSet(Users(f, f[c]))
    BY UsersFinite
  <1>3. Cardinality(Users(g, k)) = Cardinality(Users(f, k)) + 1
    BY <1>1, <1>2, FS_AddElement, Zenon
  <1>4. Cardinality(Users(g, f[c])) = Cardinality(Users(f, f[c])) - 1
    BY <1>1, <1>2, FS_RemoveElement, Zenon
  <1>5. \A h : h # k /\ h # f[c] => Cardinality(Users(g, h)) = Cardinality(Users(f, h))
    BY <1>1
  <1>. QED  BY <1>3, <1>4, <1>5

\* The count of a free table is zero, so nobody uses it.
LEMMA FreeUnused ==
    ASSUME TypeInv, RefsExact, NEW h \in Tables, Free(h)
    PROVE  \A t \in Tasks : sighand[t] # h
  BY UsersFinite, RefsUsers DEF Free

LEMMA RefsInit == Init => RefsExact
  <1>. SUFFICES ASSUME Init PROVE RefsExact
    OBVIOUS
  <1>1. PICK h \in Tables :
             /\ sighand = [t \in Tasks |-> IF t = First THEN h ELSE NoTable]
             /\ refcount = [k \in Tables |-> IF k = h THEN 1 ELSE 0]
    BY DEF Init
  <1>2. Users(sighand, h) = {First}
    BY <1>1, ConstAssumption DEF Users
  <1>3. \A k \in Tables : k # h => Users(sighand, k) = {}
    BY <1>1, ConstAssumption DEF Users
  <1>4. Cardinality({First}) = 1 /\ Cardinality({}) = 0
    BY FS_Singleton, FS_EmptySet, Zenon
  <1>. QED  BY <1>1, <1>2, <1>3, <1>4, RefsUsers

LEMMA RefsStep == TypeInv /\ RefsExact /\ [Next]_vars => RefsExact'
  <1>. SUFFICES ASSUME TypeInv, RefsExact, [Next]_vars,
                       NEW h \in Tables
                PROVE  refcount'[h] = Cardinality(Users(sighand', h))
    BY RefsUsers, SMTT(60)
  <1>0. \A k \in Tables : refcount[k] = Cardinality(Users(sighand, k))
                           /\ Cardinality(Users(sighand, k)) \in Nat
    BY UsersFinite, RefsUsers
  <1>T. /\ sighand \in [Tasks -> Tables \cup {NoTable}] /\ refcount \in [Tables -> Int]
        /\ NoTable \notin Tables
    BY ConstAssumption DEF TypeInv, BaseType
  <1>P. \A t \in Tasks : pc[t] \in {"unborn", "gone"} <=> sighand[t] = NoTable
    BY DEF TypeInv, Places
  <1>1. CASE UNCHANGED <<sighand, refcount>>
    BY <1>0, <1>1
  <1>2. ASSUME NEW t \in Tasks, NEW c \in Tasks, NEW kind \in CloneKinds, Clone(t, c, kind)
        PROVE refcount'[h] = Cardinality(Users(sighand', h))
    <2>1. sighand[t] \in Tables /\ sighand[c] = NoTable
      BY <1>2, <1>T, <1>P DEF Clone
    <2>2. PICK k \in Tables :
               /\ sighand' = [sighand EXCEPT ![c] = k]
               /\ refcount' = [refcount EXCEPT ![k] = refcount[k] + 1]
      <3>1. CASE sighand_ref(t, c)
        BY <3>1, <2>1, Zenon DEF sighand_ref
      <3>2. CASE sighand_clone(t, c)
        <4>1. PICK k \in Tables :
                   /\ refcount[k] = 0
                   /\ sighand' = [sighand EXCEPT ![c] = k]
                   /\ refcount' = [refcount EXCEPT ![k] = 1]
          BY <3>2, Zenon DEF sighand_clone, Free
        <4>2. refcount[k] + 1 = 1
          BY <4>1
        <4>. QED  BY <4>1, <4>2, Zenon
      <3>. QED  BY <1>2, <3>1, <3>2 DEF Clone
    <2>3. /\ Cardinality(Users(sighand', k)) = Cardinality(Users(sighand, k)) + 1
          /\ h # k => Cardinality(Users(sighand', h)) = Cardinality(Users(sighand, h))
      <3>1. Moves(sighand, sighand', c, k) /\ h # NoTable
        BY <1>T, <2>1, <2>2, SMTT(60) DEF Moves
      <3>. QED  BY <2>1, <3>1, MoveUser
    <2>. QED  BY <1>0, <1>T, <2>2, <2>3
  <1>3. ASSUME NEW t \in Tasks, proc_execve(t)
        PROVE refcount'[h] = Cardinality(Users(sighand', h))
    <2>1. sighand[t] \in Tables
      BY <1>3, <1>T, <1>P DEF proc_execve, Trap
    <2>2. PICK k \in Tables :
               /\ Free(k)
               /\ sighand' = [sighand EXCEPT ![t] = k]
               /\ refcount' = [Released(sighand[t]) EXCEPT ![k] = 1]
      BY <1>3, Zenon DEF proc_execve
    <2>3. sighand[t] # k /\ refcount[k] = 0
      BY <2>2, FreeUnused, Zenon DEF Free
    <2>4. /\ refcount'[k] = 1 /\ refcount'[sighand[t]] = refcount[sighand[t]] - 1
          /\ h # k /\ h # sighand[t] => refcount'[h] = refcount[h]
      BY <1>T, <2>1, <2>2, <2>3 DEF Released
    <2>5. /\ Cardinality(Users(sighand', k)) = Cardinality(Users(sighand, k)) + 1
          /\ Cardinality(Users(sighand', sighand[t]))
                = Cardinality(Users(sighand, sighand[t])) - 1
          /\ h # k /\ h # sighand[t] =>
                Cardinality(Users(sighand', h)) = Cardinality(Users(sighand, h))
      <3>1. Moves(sighand, sighand', t, k)
        BY <1>T, <2>2, <2>3 DEF Moves
      <3>. QED  BY <3>1, MoveUser
    <2>. QED  BY <1>0, <2>1, <2>3, <2>4, <2>5, SMTT(60)
  <1>4. ASSUME NEW t \in Tasks, proc_destroy(t)
        PROVE refcount'[h] = Cardinality(Users(sighand', h))
    <2>1. sighand[t] \in Tables
      BY <1>4, <1>T, <1>P, SMTT(60) DEF proc_destroy
    <2>2. /\ sighand' = [sighand EXCEPT ![t] = NoTable]
          /\ refcount' = Released(sighand[t])
      BY <1>4 DEF proc_destroy
    <2>3. /\ Cardinality(Users(sighand', sighand[t]))
                = Cardinality(Users(sighand, sighand[t])) - 1
          /\ h # sighand[t] =>
                Cardinality(Users(sighand', h)) = Cardinality(Users(sighand, h))
      <3>1. Moves(sighand, sighand', t, NoTable) /\ h # NoTable
        BY <1>T, <2>1, <2>2 DEF Moves
      <3>. QED  BY <3>1, MoveUser
    <2>. QED  BY <1>0, <1>T, <2>1, <2>2, <2>3, SMTT(60) DEF Released
  <1>5. ASSUME NEW t \in Tasks, sig_deliver(t) PROVE UNCHANGED <<sighand, refcount>>
    BY <1>5, Zenon DEF tableVars, sig_deliver, DeliverNone, DeliverTake, DeliverIgnored, DeliverJobControl,
                DeliverFatal, DeliverNoRoom, DeliverCaught, DeliverReset
  <1>6. ASSUME NEW t \in Tasks,
               \/ OtherCall(t) \/ Exit(t) \/ do_rt_sigreturn(t)
               \/ \E a \in ActArgs : sig_action(t, a[1], a[2])
               \/ \E m \in MaskArgs : sig_procmask(t, m[1], m[2])
               \/ \E a \in KillArgs : Kill(t, a[1], a[2])
        PROVE  UNCHANGED <<sighand, refcount>>
    BY <1>6, Zenon DEF tableVars, OtherCall, Exit, do_rt_sigreturn, sig_action, sig_procmask, Kill
  <1>7. CASE UNCHANGED vars
    BY <1>1, <1>7 DEF vars, tableVars
  <1>. QED
    BY <1>1, <1>2, <1>3, <1>4, <1>5, <1>6, <1>7, SMTT(60) DEF Next, Calls, Internal

\* A sighand table is counted exactly: every fork, clone, execve and exit
\* leaves the count of each table equal to the number of tasks that use it.
THEOREM CountsExact == Spec => []RefsExact
  BY RefsInit, RefsStep, TypeInvariant, PTL DEF Spec

\* Type correctness; that no count goes below zero is a consequence of
\* RefsExact.
THEOREM TypeCorrect == Spec => []TypeOK
  <1>1. TypeInv /\ RefsExact => TypeOK
    <2>. SUFFICES ASSUME TypeInv, RefsExact PROVE refcount \in [Tables -> Nat]
      BY DEF TypeInv, BaseType, TypeOK
    <2>1. \A h \in Tables : refcount[h] \in Nat
      BY UsersFinite, RefsUsers
    <2>. QED  BY <2>1 DEF TypeInv, BaseType
  <1>. QED  BY <1>1, TypeInvariant, CountsExact, PTL

-----------------------------------------------------------------------------
\* Handlers and images.  HandlerOfImage is not inductive: sig_deliver takes
\* the handler from the table, so the table must hold handlers of the image
\* too, and since rt_sigaction writes it for all who share it, they must be
\* in one image.
StackOf(q, i) == \A k \in 1..Len(q) : q[k].code.img = i
TableOf(a, i) == \A s \in Signals : a[s].how = "catch" => a[s].img = i

Own(t) ==
    /\ code[t].img = image[t]
    /\ StackOf(frames[t], image[t])
    /\ TableOf(actions[sighand[t]], image[t])

ImageInv ==
    /\ \A t \in Listed : Own(t)
    /\ \A t, u \in Listed : sighand[t] = sighand[u] => image[t] = image[u]

\* Stacks of one image, pushed and popped.
LEMMA StacksOf ==
    ASSUME NEW i
    PROVE
    /\ StackOf(<<>>, i)
    /\ \A q \in Seq(Frames) : StackOf(q, i) /\ q # <<>> =>
           q[Len(q)].code.img = i /\ StackOf(SubSeq(q, 1, Len(q) - 1), i)
    /\ \A q \in Seq(Frames), f \in Frames : StackOf(q, i) /\ f.code.img = i =>
           StackOf(Append(q, f), i)
  <1>1. StackOf(<<>>, i)
    <2>1. Len(<<>>) = 0
      BY EmptySeq
    <2>. QED  BY <2>1 DEF StackOf
  <1>2. ASSUME NEW q \in Seq(Frames), StackOf(q, i), q # <<>>
        PROVE q[Len(q)].code.img = i /\ StackOf(SubSeq(q, 1, Len(q) - 1), i)
    <2>. DEFINE r == SubSeq(q, 1, Len(q) - 1)
    <2>1. Len(q) \in Nat /\ Len(q) > 0
      BY <1>2, EmptySeq, LenProperties
    <2>2. Len(r) = Len(q) - 1 /\ \A k \in 1..(Len(q) - 1) : r[k] = q[k]
      BY <1>2, PopTypes
    <2>3. Len(q) \in 1..Len(q) /\ \A k \in 1..(Len(q) - 1) : k \in 1..Len(q)
      BY <2>1
    <2>. HIDE DEF r
    <2>4. q[Len(q)].code.img = i /\ StackOf(r, i)
      BY <1>2, <2>2, <2>3 DEF StackOf
    <2>. QED  BY <2>4 DEF r
  <1>3. ASSUME NEW q \in Seq(Frames), NEW f \in Frames, StackOf(q, i), f.code.img = i
        PROVE StackOf(Append(q, f), i)
    <2>. DEFINE r == Append(q, f)
    <2>1. /\ Len(q) \in Nat
          /\ Len(r) = Len(q) + 1
          /\ \A k \in 1..Len(q) : r[k] = q[k]
          /\ r[Len(q) + 1] = f
      BY AppendProperties, LenProperties
    <2>2. \A k \in 1..(Len(q) + 1) : k \in 1..Len(q) \/ k = Len(q) + 1
      BY <2>1
    <2>. HIDE DEF r
    <2>3. StackOf(r, i)
      BY <1>3, <2>1, <2>2, SMTT(60) DEF StackOf
    <2>. QED  BY <2>3 DEF r
  <1>. QED  BY <1>1, <1>2, <1>3

LEMMA ImageInit == Init => ImageInv
  <1>. SUFFICES ASSUME Init PROVE ImageInv
    OBVIOUS
  <1>1. \A t \in Tasks : code[t] = Main(1) /\ image[t] = 1 /\ frames[t] = <<>>
    BY DEF Init
  <1>2. \A t \in Listed : sighand[t] \in Tables /\ t \in Tasks
    BY DEF Init, Listed
  <1>3. \A h \in Tables : TableOf(actions[h], 1)
    BY DEF Init, TableOf, Default
  <1>. QED  BY <1>1, <1>2, <1>3, StacksOf DEF ImageInv, Own, Main

\* What the steps below share: a step that leaves sharing, images and
\* listing alone and the parts of every listed task right.
LEMMA ImageKept ==
    ASSUME ImageInv, UNCHANGED <<sighand, image>>, Listed' \subseteq Listed,
           \A t \in Listed' : Own(t)'
    PROVE  ImageInv'
  BY DEF ImageInv

LEMMA ImageStep == TypeInv /\ RefsExact /\ ImageInv /\ [Next]_vars => ImageInv'
  <1>. SUFFICES ASSUME TypeInv, RefsExact, ImageInv, [Next]_vars PROVE ImageInv'
    OBVIOUS
  <1>T. /\ sighand \in [Tasks -> Tables \cup {NoTable}]
        /\ actions \in [Tables -> [Signals -> Actions]]
        /\ pc \in [Tasks -> Labels] /\ image \in [Tasks -> Images]
        /\ code \in [Tasks -> Codes] /\ frames \in [Tasks -> Seq(Frames)]
    BY DEF TypeInv, BaseType
  <1>L. \A t \in Tasks :
           /\ t \in Listed => sighand[t] \in Tables
           /\ t \in Listed <=> pc[t] \notin {"unborn", "gone"}
    BY <1>T, SMTT(60) DEF TypeInv, Places, Listed
  <1>O. \A t \in Listed : Own(t)
    BY DEF ImageInv
  <1>1. CASE UNCHANGED <<sighand, image, actions, code, frames>> /\ Listed' = Listed
    <2>1. \A t \in Listed' : Own(t)'
      BY <1>1, <1>O DEF Own
    <2>. QED  BY <1>1, <2>1, ImageKept
  <1>2. ASSUME NEW t \in Tasks,
               \/ OtherCall(t) \/ Exit(t) \/ (\E a \in KillArgs : Kill(t, a[1], a[2]))
               \/ DeliverNone(t) \/ DeliverTake(t) \/ DeliverIgnored(t)
               \/ DeliverJobControl(t) \/ DeliverFatal(t) \/ DeliverNoRoom(t)
        PROVE  ImageInv'
    <2>1. UNCHANGED <<sighand, image, actions, code, frames>>
      BY <1>2, ZenonT(60) DEF OtherCall, Exit, Kill, DeliverNone, DeliverTake, DeliverIgnored,
                  DeliverJobControl, DeliverFatal, DeliverNoRoom, tableVars, guestVars
    <2>2. PICK l \in {"user", "trap", "taken", "exiting"} :
               pc' = [pc EXCEPT ![t] = l] /\ pc[t] \in {"user", "trap", "taken"}
      BY <1>2 DEF OtherCall, Exit, Kill, DeliverNone, DeliverTake, DeliverIgnored, Trap,
                  DeliverJobControl, DeliverFatal, DeliverNoRoom, TrapEnd
    <2>3. Listed' = Listed
      BY <1>T, <2>2 DEF Listed
    <2>. QED  BY <1>1, <2>1, <2>3
  <1>3. ASSUME NEW t \in Tasks, NEW a \in ActArgs, sig_action(t, a[1], a[2]) PROVE ImageInv'
    <2>1. /\ UNCHANGED <<sighand, image, code, frames>>
          /\ pc[t] = "user" /\ pc' = [pc EXCEPT ![t] = "trap"]
      BY <1>3 DEF sig_action, Trap, guestVars
    <2>2. Listed' = Listed /\ t \in Listed
      BY <1>T, <2>1, SMTT(60) DEF Listed
    <2>3. /\ \A h \in Tables \ {sighand[t]} : actions'[h] = actions[h]
          /\ \A s \in Signals : \/ actions'[sighand[t]][s] = actions[sighand[t]][s]
                                \/ actions'[sighand[t]][s].img = image[t]
      <3>0. a[1] \in Signals
        BY ConstAssumption
      <3>1. sighand[t] \in Tables
        BY <1>L, <2>2, ZenonT(60)
      <3>. DEFINE r == [how |-> a[2].how, img |-> image[t], mask |-> a[2].mask,
                        reset |-> a[2].reset, nodefer |-> a[2].nodefer]
      <3>2. /\ r.img = image[t]
            /\ actions' = [actions EXCEPT ![sighand[t]][a[1]] = r]
        BY <1>3 DEF sig_action
      <3>. HIDE DEF r
      <3>. QED  BY <1>T, <3>0, <3>1, <3>2, SMTT(60)
    <2>4. ASSUME NEW u \in Listed PROVE Own(u)'
      <3>1. CASE sighand[u] = sighand[t]
        <4>1. image[u] = image[t]
          BY <2>2, <3>1, SMTT(60) DEF ImageInv
        <4>2. TableOf(actions'[sighand[t]], image[t])
          BY <1>O, <2>2, <2>3, SMTT(30) DEF Own, TableOf
        <4>. QED  BY <1>O, <2>1, <3>1, <4>1, <4>2, SMTT(60) DEF Own
      <3>2. CASE sighand[u] # sighand[t]
        <4>1. sighand[u] \in Tables
          BY <1>L DEF Listed
        <4>. QED  BY <1>O, <2>1, <2>3, <3>2, <4>1, ZenonT(60) DEF Own
      <3>. QED  BY <3>1, <3>2, SMTT(60)
    <2>. QED  BY <2>1, <2>2, <2>4, ImageKept, SMTT(60)
  <1>4. ASSUME NEW t \in Tasks, NEW m \in MaskArgs, sig_procmask(t, m[1], m[2])
        PROVE ImageInv'
    <2>1. /\ UNCHANGED <<sighand, image, actions, frames>>
          /\ pc[t] = "user" /\ pc' = [pc EXCEPT ![t] = "trap"]
      BY <1>4 DEF sig_procmask, Trap, tableVars
    <2>2. Listed' = Listed
      BY <1>T, <2>1 DEF Listed
    <2>3. \A u \in Tasks : code'[u].img = code[u].img
      <3>1. PICK b : code' = [code EXCEPT ![t].loose = b]
        BY <1>4, Zenon DEF sig_procmask
      <3>. QED  BY <1>T, <3>1 DEF Codes
    <2>4. \A u \in Listed : Own(u)'
      BY <1>O, <2>1, <2>3, ZenonT(60) DEF Own, Listed
    <2>. QED  BY <2>1, <2>2, <2>4, ImageKept
  <1>5. ASSUME NEW t \in Tasks, do_rt_sigreturn(t) PROVE ImageInv'
    <2>. DEFINE q == frames[t]
    <2>1. /\ UNCHANGED <<sighand, image, actions>> /\ q # <<>>
          /\ pc[t] = "user" /\ pc' = [pc EXCEPT ![t] = "trap"]
          /\ code' = [code EXCEPT ![t] = q[Len(q)].code]
          /\ frames' = [frames EXCEPT ![t] = SubSeq(q, 1, Len(q) - 1)]
      BY <1>5, SMTT(60) DEF do_rt_sigreturn, Trap, tableVars
    <2>2. Listed' = Listed /\ t \in Listed
      BY <1>T, <2>1 DEF Listed
    <2>3. q[Len(q)].code.img = image[t] /\ StackOf(SubSeq(q, 1, Len(q) - 1), image[t])
      <3>1. q \in Seq(Frames) /\ StackOf(q, image[t])
        BY <1>T, <1>O, <2>2 DEF Own
      <3>. HIDE DEF q
      <3>. QED  BY <2>1, <3>1, StacksOf, ZenonT(60)
    <2>4. ASSUME NEW u \in Listed PROVE Own(u)'
      <3>. HIDE DEF q
      <3>1. u \in Tasks
        BY SMTT(60) DEF Listed
      <3>2. CASE u = t
        BY <1>T, <1>O, <2>1, <2>3, <3>2, SMTT(60) DEF Own
      <3>3. CASE u # t
        BY <1>T, <1>O, <2>1, <3>1, <3>3, SMTT(60) DEF Own
      <3>. QED  BY <3>2, <3>3
    <2>. QED  BY <2>1, <2>2, <2>4, ImageKept, SMTT(60)
  <1>6. ASSUME NEW t \in Tasks, DeliverCaught(t) PROVE ImageInv'
    <2>. DEFINE f == [code |-> code[t], mask |-> sig_blocked[t]]
                d == [sig |-> cur[t], img |-> Action(t).img,
                      nodefer |-> Action(t).nodefer, loose |-> FALSE]
    <2>1. /\ UNCHANGED <<sighand, image, actions>>
          /\ pc[t] = "taken" /\ Action(t).how = "catch"
          /\ code' = [code EXCEPT ![t] = d]
          /\ frames' = [frames EXCEPT ![t] = Append(frames[t], f)]
      BY <1>6, SMTT(60) DEF DeliverCaught, tableVars
    <2>2. PICK l \in {"reset", "user", "exiting"} : pc' = [pc EXCEPT ![t] = l]
      BY <1>6, SMTT(60) DEF DeliverCaught, TrapEnd
    <2>3. Listed' = Listed /\ t \in Listed
      BY <1>T, <2>1, <2>2, SMTT(60) DEF Listed
    <2>4. cur[t] \in Signals
      BY <2>1, SMTT(60) DEF TypeInv, Places
    <2>5. d.img = image[t]
      BY <1>O, <2>1, <2>3, <2>4 DEF Own, TableOf, Action
    <2>6. StackOf(Append(frames[t], f), image[t])
      <3>1. frames[t] \in Seq(Frames) /\ f \in Frames
        BY ZenonT(60) DEF TypeInv, BaseType, Frames
      <3>2. StackOf(frames[t], image[t]) /\ f.code.img = image[t]
        BY <1>O, <2>3 DEF Own
      <3>. HIDE DEF f
      <3>. QED  BY <3>1, <3>2, StacksOf, ZenonT(60)
    <2>7. ASSUME NEW u \in Listed PROVE Own(u)'
      <3>. HIDE DEF f, d
      <3>1. u \in Tasks
        BY DEF Listed
      <3>2. CASE u = t
        BY <1>T, <1>O, <2>1, <2>5, <2>6, <3>2, SMTT(60) DEF Own
      <3>3. CASE u # t
        BY <1>T, <1>O, <2>1, <3>1, <3>3, SMTT(60) DEF Own
      <3>. QED  BY <3>2, <3>3
    <2>. QED  BY <2>1, <2>3, <2>7, ImageKept, SMTT(60)
  <1>7. ASSUME NEW t \in Tasks, DeliverReset(t) PROVE ImageInv'
    <2>1. UNCHANGED <<sighand, image, code, frames>> /\ pc[t] = "reset"
      BY <1>7 DEF DeliverReset, guestVars
    <2>2. PICK l \in {"user", "exiting"} : pc' = [pc EXCEPT ![t] = l]
      BY <1>7, ZenonT(60) DEF DeliverReset, TrapEnd
    <2>3. Listed' = Listed
      BY <1>T, <2>1, <2>2, SMTT(60) DEF Listed
    <2>4. \A h \in Tables : \A s \in Signals :
             actions'[h][s].how = "DFL" \/ actions'[h][s] = actions[h][s]
      BY <1>T, <1>7, SMTT(60) DEF DeliverReset, Actions
    <2>5. ASSUME NEW u \in Listed PROVE Own(u)'
      <3>1. sighand[u] \in Tables
        BY <1>L, SMTT(60) DEF Listed
      <3>2. TableOf(actions'[sighand[u]], image[u])
        BY <1>O, <2>4, <3>1, SMTT(60) DEF Own, TableOf
      <3>. QED  BY <1>O, <2>1, <3>2 DEF Own
    <2>. QED  BY <2>1, <2>3, <2>5, ImageKept, SMTT(60)
  <1>8. ASSUME NEW t \in Tasks, NEW c \in Tasks, NEW kind \in CloneKinds, Clone(t, c, kind)
        PROVE ImageInv'
    <2>1. /\ pc[t] = "user" /\ pc[c] = "unborn" /\ t # c
          /\ pc' = [pc EXCEPT ![t] = "trap", ![c] = "user"]
          /\ image' = [image EXCEPT ![c] = image[t]]
          /\ code' = [code EXCEPT ![c] = IF kind = "fork" THEN code[t] ELSE Main(image[t])]
          /\ frames' = [frames EXCEPT ![c] = IF kind = "fork" THEN frames[t] ELSE <<>>]
      BY <1>8 DEF Clone
    <2>2. Listed' = Listed \cup {c} /\ t \in Listed /\ c \notin Listed
      BY <1>T, <2>1 DEF Listed
    <2>3. sighand[t] \in Tables /\ Own(t)
      BY <1>L, <1>O, <2>2, ZenonT(60)
    <2>4. PICK h \in Tables :
               /\ sighand' = [sighand EXCEPT ![c] = h]
               /\ actions'[h] = actions[sighand[t]]
               /\ \A u \in Tasks : sighand[u] \in Tables =>
                      actions'[sighand[u]] = actions[sighand[u]]
               /\ h = sighand[t] \/ \A u \in Tasks : sighand[u] # h
      <3>1. CASE sighand_ref(t, c)
        BY <2>3, <3>1, Zenon DEF sighand_ref
      <3>2. CASE sighand_clone(t, c)
        <4>1. PICK h \in Tables :
                   /\ Free(h)
                   /\ sighand' = [sighand EXCEPT ![c] = h]
                   /\ actions' = [actions EXCEPT ![h] = actions[sighand[t]]]
          BY <3>2, Zenon DEF sighand_clone
        <4>2. \A u \in Tasks : sighand[u] # h
          BY <4>1, FreeUnused, SMTT(60)
        <4>. QED  BY <1>T, <4>1, <4>2, Zenon
      <3>. QED  BY <1>8, <3>1, <3>2 DEF Clone
    <2>5. ASSUME NEW u \in Listed PROVE Own(u)'
      <3>1. u \in Tasks /\ u # c /\ sighand[u] \in Tables
        BY <1>L, <2>2, SMTT(60) DEF Listed
      <3>2. /\ image'[u] = image[u] /\ code'[u] = code[u] /\ frames'[u] = frames[u]
            /\ sighand'[u] = sighand[u]
        BY <1>T, <2>1, <2>4, <3>1, SMTT(60)
      <3>. QED  BY <1>O, <2>4, <3>1, <3>2, ZenonT(60) DEF Own
    <2>6. Own(c)'
      <3>1. /\ image'[c] = image[t] /\ sighand'[c] = h
            /\ code'[c] \in {code[t], Main(image[t])}
            /\ frames'[c] \in {frames[t], <<>>}
        <4>1. image'[c] = image[t]
          BY <1>T, <2>1, SMTT(60)
        <4>2. sighand'[c] = h
          BY <1>T, <2>4, SMTT(60)
        <4>3. code'[c] = IF kind = "fork" THEN code[t] ELSE Main(image[t])
          BY <1>T, <2>1, SMTT(60)
        <4>4. frames'[c] = IF kind = "fork" THEN frames[t] ELSE <<>>
          BY <1>T, <2>1, SMTT(60)
        <4>. QED  BY <4>1, <4>2, <4>3, <4>4, SMTT(60)
      <3>2. Main(image[t]).img = image[t]
        BY DEF Main
      <3>. QED  BY <2>3, <2>4, <3>1, <3>2, StacksOf, ZenonT(60) DEF Own
    <2>7. ASSUME NEW u \in Listed', NEW v \in Listed', sighand'[u] = sighand'[v]
          PROVE image'[u] = image'[v]
      <3>1. u \in Tasks /\ v \in Tasks
        BY SMTT(60) DEF Listed
      <3>2. /\ \A w \in Tasks \ {c} : image'[w] = image[w] /\ sighand'[w] = sighand[w]
            /\ image'[c] = image[t] /\ sighand'[c] = h
        <4>1. (\A w \in Tasks \ {c} : image'[w] = image[w]) /\ image'[c] = image[t]
          BY <1>T, <2>1, SMTT(60)
        <4>2. (\A w \in Tasks \ {c} : sighand'[w] = sighand[w]) /\ sighand'[c] = h
          BY <1>T, <2>4, SMTT(60)
        <4>. QED  BY <4>1, <4>2, SMTT(60)
      <3>3. \A w \in Listed : sighand[w] = h => image[w] = image[t]
        BY <2>2, <2>4, SMTT(60) DEF ImageInv, Listed
      <3>4. CASE u # c /\ v # c
        BY <2>2, <2>7, <3>1, <3>2, <3>4, SMTT(60) DEF ImageInv
      <3>5. CASE u = c \/ v = c
        BY <2>2, <2>7, <3>1, <3>2, <3>3, <3>5, SMTT(60)
      <3>. QED  BY <3>4, <3>5
    <2>. QED  BY <2>2, <2>5, <2>6, <2>7, SMTT(60) DEF ImageInv
  <1>9. ASSUME NEW t \in Tasks, proc_execve(t) PROVE ImageInv'
    <2>. DEFINE i == images + 1
    <2>1. /\ pc[t] = "user" /\ pc' = [pc EXCEPT ![t] = "trap"]
          /\ image' = [image EXCEPT ![t] = i]
          /\ code' = [code EXCEPT ![t] = Main(i)]
          /\ frames' = [frames EXCEPT ![t] = <<>>]
      BY <1>9 DEF proc_execve, Trap
    <2>2. Listed' = Listed /\ t \in Listed
      BY <1>T, <2>1 DEF Listed
    <2>3. PICK h \in Tables :
               /\ Free(h)
               /\ sighand' = [sighand EXCEPT ![t] = h]
               /\ actions' = [Cleared(sighand[t]) EXCEPT ![h] = KeptActions(t)]
      BY <1>9, Zenon DEF proc_execve
    <2>4. \A u \in Tasks : sighand[u] # h
      BY <2>3, FreeUnused
    <2>5. TableOf(actions'[h], i)
      <3>1. actions'[h] = KeptActions(t)
        BY <1>T, <2>3 DEF Cleared
      <3>2. \A s \in Signals : KeptActions(t)[s].how # "catch"
        BY DEF KeptActions, Default
      <3>. QED  BY <3>1, <3>2, SMTT(60) DEF TableOf
    <2>6. \A u \in Tasks : \A j : sighand[u] \in Tables /\ TableOf(actions[sighand[u]], j) =>
             TableOf(actions'[sighand[u]], j)
      <3>. SUFFICES ASSUME NEW u \in Tasks, NEW j, sighand[u] \in Tables,
                           TableOf(actions[sighand[u]], j)
                    PROVE  TableOf(actions'[sighand[u]], j)
        OBVIOUS
      <3>1. \/ actions'[sighand[u]] = actions[sighand[u]]
            \/ actions'[sighand[u]] = [s \in Signals |-> Default(1)]
        BY <1>T, <2>3, <2>4, SMTT(60) DEF Cleared
      <3>2. TableOf([s \in Signals |-> Default(1)], j)
        BY DEF TableOf, Default
      <3>. QED  BY <3>1, <3>2, ZenonT(60)
    <2>. HIDE DEF i
    <2>7. /\ \A u \in Tasks \ {t} : /\ image'[u] = image[u] /\ sighand'[u] = sighand[u]
                                    /\ code'[u] = code[u] /\ frames'[u] = frames[u]
          /\ image'[t] = i /\ sighand'[t] = h /\ code'[t] = Main(i) /\ frames'[t] = <<>>
      BY <1>T, <2>1, <2>3
    <2>8. ASSUME NEW u \in Listed PROVE Own(u)'
      <3>1. u \in Tasks /\ sighand[u] \in Tables /\ Own(u)
        BY <1>L, <1>O, SMTT(60) DEF Listed
      <3>2. CASE u = t
        BY <2>5, <2>7, <3>2, StacksOf, SMTT(30) DEF Own, Main
      <3>3. CASE u # t
        BY <2>6, <2>7, <3>1, <3>3, ZenonT(60) DEF Own
      <3>. QED  BY <3>2, <3>3, SMTT(60)
    <2>9. ASSUME NEW u \in Listed, NEW v \in Listed, sighand'[u] = sighand'[v]
          PROVE image'[u] = image'[v]
      <3>1. u \in Tasks /\ v \in Tasks
        BY SMTT(60) DEF Listed
      <3>2. CASE u = t \/ v = t
        BY <2>4, <2>7, <2>9, <3>1, <3>2, SMTT(60)
      <3>3. CASE u # t /\ v # t
        BY <2>7, <2>9, <3>1, <3>3, SMTT(60) DEF ImageInv
      <3>. QED  BY <3>2, <3>3
    <2>. QED  BY <2>2, <2>8, <2>9, SMTT(60) DEF ImageInv
  <1>10. ASSUME NEW t \in Tasks, proc_destroy(t) PROVE ImageInv'
    <2>1. /\ pc[t] = "exiting" /\ pc' = [pc EXCEPT ![t] = "gone"]
          /\ sighand' = [sighand EXCEPT ![t] = NoTable]
          /\ actions' = Cleared(sighand[t])
          /\ frames' = [frames EXCEPT ![t] = <<>>]
          /\ code' = [code EXCEPT ![t] = Main(image[t])]
          /\ UNCHANGED image
      BY <1>10, ZenonT(60) DEF proc_destroy
    <2>2. Listed' = Listed \ {t}
      BY <1>T, <2>1, SMTT(60) DEF Listed
    <2>3. \A u \in Listed' : u \in Tasks /\ u \in Listed /\ u # t /\ sighand[u] \in Tables
      BY <1>L, <2>2, SMTT(60) DEF Listed
    <2>4. \A u \in Listed' : sighand'[u] = sighand[u] /\ code'[u] = code[u]
                             /\ frames'[u] = frames[u]
      BY <1>T, <2>1, <2>3, SMTT(60)
    <2>5. ASSUME NEW u \in Listed' PROVE TableOf(actions'[sighand[u]], image[u])
      <3>1. \/ actions'[sighand[u]] = actions[sighand[u]]
            \/ actions'[sighand[u]] = [s \in Signals |-> Default(1)]
        BY <1>T, <2>1, <2>3, SMTT(60) DEF Cleared
      <3>2. TableOf([s \in Signals |-> Default(1)], image[u])
        BY SMTT(60) DEF TableOf, Default
      <3>. QED  BY <1>O, <2>3, <3>1, <3>2, SMTT(60) DEF Own
    <2>6. ASSUME NEW u \in Listed' PROVE Own(u)'
      <3>1. Own(u)
        BY <1>O, <2>3, Zenon
      <3>2. TableOf(actions'[sighand[u]], image[u])
        BY <2>5, Zenon
      <3>3. image'[u] = image[u]
        BY <2>1, Zenon
      <3>4. sighand'[u] = sighand[u] /\ code'[u] = code[u] /\ frames'[u] = frames[u]
        BY <2>4, Zenon
      <3>. QED  BY <3>1, <3>2, <3>3, <3>4, ZenonT(60) DEF Own
    <2>. QED  BY <2>1, <2>3, <2>4, <2>6, SMTT(60) DEF ImageInv
  <1>11. CASE UNCHANGED vars
    BY <1>1, <1>11 DEF vars, tableVars, guestVars, Listed
  <1>. QED
    BY <1>2, <1>3, <1>4, <1>5, <1>6, <1>7, <1>8, <1>9, <1>10, <1>11, SMTT(60)
       DEF Next, Calls, Internal, sig_deliver

\* No task ever runs, or will return to, a handler that another image
\* installed, whatever threads share its table and execve or fork meanwhile.
THEOREM HandlersOfImage == Spec => []HandlerOfImage
  <1>1. ImageInv => HandlerOfImage
    BY DEF ImageInv, Own, StackOf, HandlerOfImage
  <1>2. Spec => []ImageInv
    BY ImageInit, ImageStep, TypeInvariant, CountsExact, PTL DEF Spec
  <1>. QED  BY <1>1, <1>2, PTL
=============================================================================
