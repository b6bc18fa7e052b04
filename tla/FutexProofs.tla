---------------------------- MODULE FutexProofs ----------------------------
(***************************************************************************)
(* Proofs about Futex for any number of threads, addresses and chains.     *)
(***************************************************************************)
EXTENDS Futex, TLAPS

\* The arguments a thread carries fit the place it is at.
ArgsOK ==
    \A t \in Threads :
        /\ pc[t] \in {"checked", "asleep"} => arg[t] \in WaitCalls
        /\ pc[t] = "requeue" => /\ arg[t] \in RequeueCalls
                                /\ <<arg[t].from, arg[t].to>> \in RequeuePairs

\* A sleeping thread's call was made with an address of the chain its
\* waiter is in now: the chain futex_wait removes the waiter from.
LeavesRightChain ==
    \A t \in Threads : Asleep(t) =>
        futex_hash_fn(arg[t].addr) = futex_hash_fn(waiter[slot[t]].addr)

TypeInv == TypeOK /\ ArgsOK

-----------------------------------------------------------------------------
\* The hash of an address is the index of a chain.
LEMMA HashInRange ==
    ASSUME NEW a \in Addrs
    PROVE  futex_hash_fn(a) \in Buckets
  <1>1. a \div 4 \in Nat
    BY ConstAssumption
  <1>2. \A n \in Nat : n % FUTEX_HASH_SIZE \in 0..(FUTEX_HASH_SIZE - 1)
    BY ConstAssumption
  <1>. QED
    BY <1>1, <1>2 DEF futex_hash_fn, Buckets

\* A choice of at most n members is a subset.
LEMMA UpToSubset ==
    ASSUME NEW n, NEW S, NEW T \in UpTo(n, S)
    PROVE  T \subseteq S
  BY DEF UpTo

\* The types, with the arguments of every thread inside do_futex.
THEOREM TypeInvariant == Spec => []TypeInv
  <1>1. Init => TypeInv
    <2>. SUFFICES ASSUME Init PROVE TypeInv
      OBVIOUS
    <2>1. (CHOOSE a \in Addrs : TRUE) \in Addrs
      BY ConstAssumption
    <2>2. waiter \in [Slots -> Waiters]
      BY <2>1 DEF Init, Waiters, Bitsets
    <2>. QED
      BY <2>2 DEF Init, TypeInv, TypeOK, ArgsOK
  <1>2. TypeInv /\ [Next]_vars => TypeInv'
    <2>. SUFFICES ASSUME TypeInv, [Next]_vars PROVE TypeInv'
      OBVIOUS
    <2>. USE DEF TypeInv, TypeOK, ArgsOK
    <2>1. ASSUME NEW a \in Addrs, NEW v \in Vals, Store(a, v) PROVE TypeInv'
      BY <2>1 DEF Store
    <2>2. ASSUME NEW t \in Threads, NEW a \in Addrs, NEW v \in Vals, NEW bs \in Bitsets,
                 NEW timed \in BOOLEAN, WaitCheck(t, a, v, bs, timed)
          PROVE  TypeInv'
      <3>1. [op |-> "wait", addr |-> a, bitset |-> bs, timed |-> timed] \in WaitCalls
        BY DEF WaitCalls
      <3>. QED
        BY <2>2, <3>1 DEF WaitCheck
    <2>3. ASSUME NEW t \in Threads, WaitNoMem(t) PROVE TypeInv'
      BY <2>3 DEF WaitNoMem, Return
    <2>4. ASSUME NEW t \in Threads, WaitEnqueue(t) PROVE TypeInv'
      <3>1. arg[t].addr \in Addrs /\ arg[t].bitset \in Bitsets
        BY <2>4, Zenon DEF WaitEnqueue, WaitCalls
      <3>2. [addr |-> arg[t].addr, bitset |-> arg[t].bitset, woken |-> FALSE] \in Waiters
        BY <3>1 DEF Waiters
      <3>3. futex_hash_fn(arg[t].addr) \in Buckets
        BY <3>1, HashInRange
      <3>. QED
        BY <2>4, <3>2, <3>3 DEF WaitEnqueue
    <2>5. ASSUME NEW t \in Threads, WaitReturn(t) \/ WaitTimeout(t) PROVE TypeInv'
      BY <2>5 DEF WaitReturn, WaitTimeout, WaitLeave, Return
    <2>6. ASSUME NEW t \in Threads, NEW a \in Addrs, NEW n \in Counts, NEW bs \in Bitsets,
                 futex_wake(t, a, n, bs)
          PROVE  TypeInv'
      BY <2>6, ZenonT(60) DEF futex_wake, Waiters
    <2>7. ASSUME NEW t \in Threads, NEW p \in RequeuePairs, NEW w \in Counts, NEW l \in Counts,
                 NEW cmp \in BOOLEAN, NEW v \in Vals,
                 RequeueCheck(t, p[1], p[2], w, l, cmp, v)
          PROVE  TypeInv'
      <3>1. p[1] \in Addrs /\ p[2] \in Addrs /\ p = <<p[1], p[2]>>
        BY ConstAssumption
      <3>2. [op |-> "requeue", from |-> p[1], to |-> p[2], wake |-> w, limit |-> l]
              \in RequeueCalls
        BY <3>1 DEF RequeueCalls
      <3>. QED
        BY <2>7, <3>1, <3>2 DEF RequeueCheck
    <2>8. ASSUME NEW t \in Threads, futex_requeue(t) PROVE TypeInv'
      <3>1. arg[t].from \in Addrs /\ arg[t].to \in Addrs
        BY <2>8, Zenon DEF futex_requeue, RequeueCalls
      <3>2. futex_hash_fn(arg[t].from) \in Buckets
        BY <3>1, HashInRange
      <3>3. Waiting(arg[t].from) \subseteq Slots
        BY <3>2 DEF Waiting
      <3>4. PICK W \in UpTo(arg[t].wake, Waiting(arg[t].from)) :
              \E R \in UpTo(arg[t].limit, Waiting(arg[t].from) \ W) :
                RequeueWalk(arg[t].from, arg[t].to, W, R)
        BY <2>8, Zenon DEF futex_requeue
      <3>5. PICK R \in UpTo(arg[t].limit, Waiting(arg[t].from) \ W) :
              RequeueWalk(arg[t].from, arg[t].to, W, R)
        BY <3>4
      <3>6. R \subseteq Slots
        BY <3>3, UpToSubset
      <3>7. waiter' \in [Slots -> Waiters]
        BY <3>1, <3>5, ZenonT(60) DEF Waiters, RequeueWalk
      <3>8. chain' \in [Buckets -> SUBSET Slots]
        BY <3>5, <3>6 DEF RequeueWalk
      <3>. QED
        BY <2>8, <3>7, <3>8 DEF futex_requeue, Return
    <2>9. CASE UNCHANGED vars
      BY <2>9 DEF vars
    <2>. QED
      BY <2>1, <2>2, <2>3, <2>4, <2>5, <2>6, <2>7, <2>8, <2>9 DEF Next
  <1>. QED
    BY <1>1, <1>2, PTL DEF Spec

\* Type correctness of the futex table and of the threads in do_futex.
THEOREM TypeCorrect == Spec => []TypeOK
  <1>1. TypeInv => TypeOK
    BY DEF TypeInv
  <1>. QED
    BY <1>1, TypeInvariant, PTL

-----------------------------------------------------------------------------
LinkInv == SleeperLinked /\ NoStaleLink /\ LeavesRightChain

\* While requeues stay within one chain, the table links exactly the waiters
\* of the threads asleep in futex_wait, each in the chain a wake looks in.
THEOREM TableExact ==
    ASSUME RequeueSameChain
    PROVE  Spec => [](SleeperLinked /\ NoStaleLink)
  <1>1. Init => LinkInv
    BY DEF Init, LinkInv, SleeperLinked, NoStaleLink, LeavesRightChain, Asleep
  <1>2. TypeInv /\ TypeInv' /\ LinkInv /\ [Next]_vars => LinkInv'
    <2>. SUFFICES ASSUME TypeInv, TypeInv', LinkInv, [Next]_vars PROVE LinkInv'
      OBVIOUS
    <2>. USE DEF TypeInv, TypeOK, ArgsOK, LinkInv, SleeperLinked, NoStaleLink,
                 LeavesRightChain, Asleep
    <2>1. ASSUME NEW a \in Addrs, NEW v \in Vals, Store(a, v) PROVE LinkInv'
      BY <2>1 DEF Store
    <2>2. ASSUME NEW t \in Threads, NEW a \in Addrs, NEW v \in Vals, NEW bs \in Bitsets,
                 NEW timed \in BOOLEAN, WaitCheck(t, a, v, bs, timed)
          PROVE  LinkInv'
      BY <2>2 DEF WaitCheck
    <2>3. ASSUME NEW t \in Threads, WaitNoMem(t) PROVE LinkInv'
      BY <2>3 DEF WaitNoMem, Return
    <2>4. ASSUME NEW t \in Threads, WaitEnqueue(t) PROVE LinkInv'
      <3>1. arg[t].addr \in Addrs
        BY <2>4, Zenon DEF WaitEnqueue, WaitCalls
      <3>2. futex_hash_fn(arg[t].addr) \in Buckets
        BY <3>1, HashInRange
      <3>3. PICK s \in Slots \ (heap \cup UNION {chain[b] : b \in Buckets}) :
              /\ heap' = heap \cup {s}
              /\ waiter' = [waiter EXCEPT ![s] = [addr |-> arg[t].addr,
                                                  bitset |-> arg[t].bitset,
                                                  woken |-> FALSE]]
              /\ chain' = [chain EXCEPT ![futex_hash_fn(arg[t].addr)] = @ \cup {s}]
              /\ slot' = [slot EXCEPT ![t] = s]
        BY <2>4, Zenon DEF WaitEnqueue
      <3>4. pc' = [pc EXCEPT ![t] = "asleep"] /\ arg' = arg /\ pc[t] = "checked"
        BY <2>4 DEF WaitEnqueue
      <3>5. s \notin heap /\ \A b \in Buckets : s \notin chain[b]
        BY <3>3
      <3>6. waiter'[s].addr = arg[t].addr /\ \A r \in Slots \ {s} : waiter'[r] = waiter[r]
        BY <3>3
      <3>7. \A u \in Threads : pc'[u] = "asleep" =>
               IF u = t THEN slot'[u] = s
               ELSE pc[u] = "asleep" /\ slot'[u] = slot[u] /\ slot[u] \in heap /\ slot[u] # s
        BY <3>3, <3>4, <3>5
      <3>8. SleeperLinked'
        BY <3>2, <3>3, <3>5, <3>6, <3>7
      <3>9. NoStaleLink'
        BY <3>2, <3>3, <3>4, <3>5
      <3>10. LeavesRightChain'
        BY <3>3, <3>4, <3>6, <3>7
      <3>. QED
        BY <3>8, <3>9, <3>10
    <2>5. ASSUME NEW t \in Threads, WaitReturn(t) \/ WaitTimeout(t) PROVE LinkInv'
      <3>1. pc[t] = "asleep" /\ WaitLeave(t)
        BY <2>5 DEF WaitReturn, WaitTimeout
      <3>2. arg[t].addr \in Addrs
        BY <3>1, ZenonT(60) DEF WaitCalls
      <3>3. futex_hash_fn(arg[t].addr) \in Buckets
        BY <3>2, HashInRange
      <3>4. \A b \in Buckets : chain'[b] = chain[b] \ {slot[t]}
        BY <3>1, <3>3 DEF WaitLeave
      <3>5. \A u \in Threads : pc'[u] = "asleep" <=> u # t /\ pc[u] = "asleep"
        BY <3>1 DEF WaitLeave, Return
      <3>6. \A u \in Threads \ {t} : slot'[u] = slot[u] /\ arg'[u] = arg[u]
        BY <3>1 DEF WaitLeave, Return
      <3>7. heap' = heap \ {slot[t]} /\ waiter' = waiter
        BY <3>1 DEF WaitLeave
      <3>8. \A u \in Threads : pc'[u] = "asleep" => slot[u] \in Slots /\ slot[u] # slot[t]
        BY <3>1, <3>5
      <3>9. SleeperLinked'
        BY <3>4, <3>5, <3>6, <3>7, <3>8
      <3>10. NoStaleLink'
        BY <3>1, <3>4, <3>5, <3>6, <3>7
      <3>11. LeavesRightChain'
        BY <3>5, <3>6, <3>7
      <3>. QED
        BY <3>9, <3>10, <3>11
    <2>6. ASSUME NEW t \in Threads, NEW a \in Addrs, NEW n \in Counts, NEW bs \in Bitsets,
                 futex_wake(t, a, n, bs)
          PROVE  LinkInv'
      <3>1. \A s \in Slots : waiter'[s].addr = waiter[s].addr
        BY <2>6 DEF futex_wake, Waiters
      <3>. QED
        BY <2>6, <3>1 DEF futex_wake
    <2>7. ASSUME NEW t \in Threads, NEW p \in RequeuePairs, NEW w \in Counts, NEW l \in Counts,
                 NEW cmp \in BOOLEAN, NEW v \in Vals,
                 RequeueCheck(t, p[1], p[2], w, l, cmp, v)
          PROVE  LinkInv'
      BY <2>7, SMTT(60) DEF RequeueCheck
    <2>8. ASSUME NEW t \in Threads, futex_requeue(t) PROVE LinkInv'
      <3>1. <<arg[t].from, arg[t].to>> \in RequeuePairs
        BY <2>8 DEF futex_requeue
      <3>2. futex_hash_fn(arg[t].from) = futex_hash_fn(arg[t].to)
        BY <3>1 DEF RequeueSameChain
      <3>3. futex_hash_fn(arg[t].from) \in Buckets
        <4>1. arg[t].from \in Addrs
          BY <2>8, Zenon DEF futex_requeue, RequeueCalls
        <4>. QED
          BY <4>1, HashInRange
      <3>4. PICK W \in UpTo(arg[t].wake, Waiting(arg[t].from)) :
              \E R \in UpTo(arg[t].limit, Waiting(arg[t].from) \ W) :
                RequeueWalk(arg[t].from, arg[t].to, W, R)
        BY <2>8, Zenon DEF futex_requeue
      <3>5. PICK R \in UpTo(arg[t].limit, Waiting(arg[t].from) \ W) :
              RequeueWalk(arg[t].from, arg[t].to, W, R)
        BY <3>4
      <3>6. R \subseteq Waiting(arg[t].from)
        BY UpToSubset
      <3>7. chain' = chain
        BY <3>2, <3>3, <3>5, <3>6 DEF RequeueWalk, Waiting
      <3>8. \A s \in Slots :
               \/ waiter'[s].addr = waiter[s].addr
               \/ waiter[s].addr = arg[t].from /\ waiter'[s].addr = arg[t].to
        BY <3>5, <3>6 DEF RequeueWalk, Waiting, Waiters
      <3>9. \A s \in Slots : futex_hash_fn(waiter'[s].addr) = futex_hash_fn(waiter[s].addr)
        BY <3>2, <3>8, SMTT(60)
      <3>10. /\ heap' = heap /\ slot' = slot
             /\ \A u \in Threads : pc'[u] = "asleep" <=> pc[u] = "asleep"
             /\ \A u \in Threads : pc[u] = "asleep" => arg'[u] = arg[u]
        BY <2>8, SMTT(60) DEF futex_requeue, Return
      <3>. QED
        BY <3>7, <3>9, <3>10, SMTT(60)
    <2>9. CASE UNCHANGED vars
      BY <2>9 DEF vars
    <2>. HIDE DEF TypeInv, TypeOK, ArgsOK, LinkInv, SleeperLinked, NoStaleLink,
                  LeavesRightChain, Asleep
    <2>. QED
      BY <2>1, <2>2, <2>3, <2>4, <2>5, <2>6, <2>7, <2>8, <2>9 DEF Next
  <1>3. LinkInv => SleeperLinked /\ NoStaleLink
    BY DEF LinkInv
  <1>. QED
    BY <1>1, <1>2, <1>3, TypeInvariant, PTL DEF Spec
=============================================================================
