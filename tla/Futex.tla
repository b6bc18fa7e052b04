------------------------------- MODULE Futex -------------------------------
(***************************************************************************)
(* The futex emulation of emu/src/sys_misc.c: do_futex, futex_wait,        *)
(* futex_wake and futex_requeue over one hash table of waiters that a      *)
(* single mutex (futex_lock) protects.                                     *)
(*                                                                         *)
(* A guest thread is a host thread.  It runs guest code ("guest"), has     *)
(* compared the futex word but not taken futex_lock yet ("checked"), is    *)
(* blocked in pthread_cond_(timed)wait ("asleep"), or is about to walk the *)
(* table for a requeue ("requeue").  Everything done under futex_lock is   *)
(* one step; the compare of the word is made outside the lock and is a     *)
(* step of its own.                                                        *)
(*                                                                         *)
(* A hash chain is the set of the waiters it links.  The code walks a      *)
(* chain from the newest waiter; which of several matching waiters a wake  *)
(* of a few picks is left open here.                                       *)
(***************************************************************************)
EXTENDS Integers, FiniteSets

CONSTANTS
    Threads,            \* guest threads
    Addrs,              \* addresses of futex words
    FUTEX_HASH_SIZE,    \* number of hash chains
    Vals,               \* values of a futex word
    Bits,               \* bits of a bitset; FUTEX_BITSET_MATCH_ANY is all
    Slots,              \* heap cells for futex_waiter_t
    Counts,             \* wake and requeue counts the guest passes
    RequeuePairs,       \* the <<from, to>> pairs the guest requeues between
    NULL                \* no waiter

ASSUME ConstAssumption ==
    /\ Addrs \subseteq Nat /\ Addrs # {}
    /\ FUTEX_HASH_SIZE \in Nat \ {0}
    /\ Counts \subseteq Int
    /\ RequeuePairs \subseteq Addrs \X Addrs
    /\ NULL \notin Slots

VARIABLES
    word,       \* the guest's futex words
    chain,      \* futex_hash: the waiters each bucket links
    heap,       \* allocated waiters
    waiter,     \* fields of a waiter, as last written
    pc,         \* where each thread is
    arg,        \* arguments of the thread's futex call
    slot        \* w, the waiter of the thread's futex_wait

vars == <<word, chain, heap, waiter, pc, arg, slot>>

Buckets == 0..(FUTEX_HASH_SIZE - 1)
Bitsets == SUBSET Bits
MatchAny == Bits

NoCall == [op |-> "none"]

WaitCalls == [op : {"wait"}, addr : Addrs, bitset : Bitsets, timed : BOOLEAN]
RequeueCalls == [op : {"requeue"}, from : Addrs, to : Addrs,
                 wake : Counts, limit : Counts]

Waiters == [addr : Addrs, bitset : Bitsets, woken : BOOLEAN]

\* The chain an address belongs to.
futex_hash_fn(a) == (a \div 4) % FUTEX_HASH_SIZE

\* The unwoken waiters that a walk of the chain of a finds waiting on a.
Waiting(a) ==
    {s \in chain[futex_hash_fn(a)] : waiter[s].addr = a /\ ~waiter[s].woken}

\* The choices of at most n members of S that leave none out needlessly.
UpTo(n, S) ==
    {T \in SUBSET S : IF n <= 0 THEN T = {} 
                      ELSE \/ T = S /\ Cardinality(S) <= n
                           \/ Cardinality(T) = n}

-----------------------------------------------------------------------------
Init ==
    /\ word \in [Addrs -> Vals]
    /\ chain = [b \in Buckets |-> {}]
    /\ heap = {}
    /\ waiter = [s \in Slots |-> [addr |-> CHOOSE a \in Addrs : TRUE, bitset |-> {}, woken |-> FALSE]]
    /\ pc = [t \in Threads |-> "guest"]
    /\ arg = [t \in Threads |-> NoCall]
    /\ slot = [t \in Threads |-> NULL]

\* Guest code stores to a futex word without any system call.
Store(a, v) ==
    /\ word' = [word EXCEPT ![a] = v]
    /\ UNCHANGED <<chain, heap, waiter, pc, arg, slot>>

\* A futex call of t returns to the guest.
Return(t) ==
    /\ pc' = [pc EXCEPT ![t] = "guest"]
    /\ arg' = [arg EXCEPT ![t] = NoCall]

\* do_futex, FUTEX_WAIT and FUTEX_WAIT_BITSET up to the call of futex_wait:
\* the word is read and compared with no lock held.  (An empty bitset is
\* EINVAL and another value EAGAIN: nothing changes.)
WaitCheck(t, a, val, bitset, timed) ==
    /\ pc[t] = "guest"
    /\ bitset # {}
    /\ word[a] = val
    /\ pc' = [pc EXCEPT ![t] = "checked"]
    /\ arg' = [arg EXCEPT ![t] = [op |-> "wait", addr |-> a,
                                  bitset |-> bitset, timed |-> timed]]
    /\ UNCHANGED <<word, chain, heap, waiter, slot>>

\* Variant: the result of calloc is not tested.
WaitNoMemUnchecked(t) ==
    /\ pc[t] = "checked"
    /\ pc' = [pc EXCEPT ![t] = "asleep"]
    /\ chain' = [chain EXCEPT ![futex_hash_fn(arg[t].addr)] = @ \cup {NULL}]
    /\ UNCHANGED <<word, heap, waiter, arg, slot>>

\* futex_wait, calloc fails.
WaitNoMem(t) ==
    /\ pc[t] = "checked"
    /\ Return(t)
    /\ UNCHANGED <<word, chain, heap, waiter, slot>>

\* futex_wait up to the wait on the waiter's condition variable, which
\* releases futex_lock.  The word is not read again.  (A cell that is still
\* linked somewhere is not handed out again: what a walk over a freed cell
\* does is undefined, and NoStaleLink says there is none.)
WaitEnqueue(t) ==
    /\ pc[t] = "checked"
    /\ \E s \in Slots \ (heap \cup UNION {chain[b] : b \in Buckets}) :
          LET h == futex_hash_fn(arg[t].addr)
          IN  /\ heap' = heap \cup {s}
              /\ waiter' = [waiter EXCEPT ![s] = [addr |-> arg[t].addr,
                                                  bitset |-> arg[t].bitset,
                                                  woken |-> FALSE]]
              /\ chain' = [chain EXCEPT ![h] = @ \cup {s}]
              /\ slot' = [slot EXCEPT ![t] = s]
    /\ pc' = [pc EXCEPT ![t] = "asleep"]
    /\ UNCHANGED <<word, arg>>

\* The end of futex_wait: remove the waiter from the chain of the address
\* the call was made with, unlock, free the waiter.
WaitLeave(t) ==
    LET h == futex_hash_fn(arg[t].addr)
    IN  /\ chain' = [chain EXCEPT ![h] = @ \ {slot[t]}]
        /\ heap' = heap \ {slot[t]}
        /\ slot' = [slot EXCEPT ![t] = NULL]
        /\ Return(t)
        /\ UNCHANGED <<word, waiter>>

\* futex_wait finds its waiter woken.
WaitReturn(t) ==
    /\ pc[t] = "asleep"
    /\ waiter[slot[t]].woken
    /\ WaitLeave(t)

\* Variant: the timeout path returns without unlinking the waiter.
WaitTimeoutLinked(t) ==
    /\ pc[t] = "asleep"
    /\ arg[t].timed
    /\ heap' = heap \ {slot[t]}
    /\ slot' = [slot EXCEPT ![t] = NULL]
    /\ Return(t)
    /\ UNCHANGED <<word, chain, waiter>>

\* pthread_cond_timedwait reports a timeout; woken is not looked at again.
WaitTimeout(t) ==
    /\ pc[t] = "asleep"
    /\ arg[t].timed
    /\ WaitLeave(t)

\* Variant: the walk stops one waiter early (woken + 1 < count).
futex_wakeShort(t, a, count, bitset) ==
    /\ pc[t] = "guest"
    /\ bitset # {}
    /\ \E S \in UpTo(count - 1, {s \in Waiting(a) : waiter[s].bitset \cap bitset # {}}) :
          waiter' = [s \in Slots |-> IF s \in S THEN [waiter[s] EXCEPT !.woken = TRUE]
                                     ELSE waiter[s]]
    /\ UNCHANGED <<word, chain, heap, pc, arg, slot>>

\* futex_wake, for FUTEX_WAKE, FUTEX_WAKE_BITSET and an exiting thread.
futex_wake(t, a, count, bitset) ==
    /\ pc[t] = "guest"
    /\ bitset # {}
    /\ \E S \in UpTo(count, {s \in Waiting(a) : waiter[s].bitset \cap bitset # {}}) :
          waiter' = [s \in Slots |-> IF s \in S THEN [waiter[s] EXCEPT !.woken = TRUE]
                                     ELSE waiter[s]]
    /\ UNCHANGED <<word, chain, heap, pc, arg, slot>>

\* do_futex, FUTEX_REQUEUE and FUTEX_CMP_REQUEUE up to the call of
\* futex_requeue; the latter compares the word with no lock held.
RequeueCheck(t, from, to, wake, limit, cmp, val) ==
    /\ pc[t] = "guest"
    /\ cmp => word[from] = val
    /\ pc' = [pc EXCEPT ![t] = "requeue"]
    /\ arg' = [arg EXCEPT ![t] = [op |-> "requeue", from |-> from, to |-> to,
                                  wake |-> wake, limit |-> limit]]
    /\ UNCHANGED <<word, chain, heap, waiter, slot>>

\* Variant: the waiter is put in the new chain before it leaves the old one.
RequeueWalkInsertFirst(from, to, W, R) ==
    /\ waiter' = [s \in Slots |->
                     IF s \in W THEN [waiter[s] EXCEPT !.woken = TRUE]
                     ELSE IF s \in R THEN [waiter[s] EXCEPT !.addr = to]
                     ELSE waiter[s]]
    /\ chain' = [b \in Buckets |->
                    IF b = futex_hash_fn(from) THEN chain[b] \ R
                    ELSE IF b = futex_hash_fn(to) THEN chain[b] \cup R
                    ELSE chain[b]]

\* The walk of futex_requeue wakes the waiters W and moves the waiters R.
RequeueWalk(from, to, W, R) ==
    /\ waiter' = [s \in Slots |->
                     IF s \in W THEN [waiter[s] EXCEPT !.woken = TRUE]
                     ELSE IF s \in R THEN [waiter[s] EXCEPT !.addr = to]
                     ELSE waiter[s]]
    /\ chain' = [b \in Buckets |->
                    IF b = futex_hash_fn(to) THEN chain[b] \cup R
                    ELSE IF b = futex_hash_fn(from) THEN chain[b] \ R
                    ELSE chain[b]]

\* futex_requeue: wake some waiters of from, move others to to.
futex_requeue(t) ==
    /\ pc[t] = "requeue"
    /\ \E W \in UpTo(arg[t].wake, Waiting(arg[t].from)) :
       \E R \in UpTo(arg[t].limit, Waiting(arg[t].from) \ W) :
          RequeueWalk(arg[t].from, arg[t].to, W, R)
    /\ Return(t)
    /\ UNCHANGED <<word, heap, slot>>

Next ==
    \/ \E a \in Addrs, v \in Vals : Store(a, v)
    \/ \E t \in Threads, a \in Addrs, v \in Vals, bs \in Bitsets, timed \in BOOLEAN :
          WaitCheck(t, a, v, bs, timed)
    \/ \E t \in Threads : WaitNoMem(t)
    \/ \E t \in Threads : WaitEnqueue(t)
    \/ \E t \in Threads : WaitReturn(t)
    \/ \E t \in Threads : WaitTimeout(t)
    \/ \E t \in Threads, a \in Addrs, n \in Counts, bs \in Bitsets : futex_wake(t, a, n, bs)
    \/ \E t \in Threads, p \in RequeuePairs, w \in Counts, l \in Counts,
          cmp \in BOOLEAN, v \in Vals : RequeueCheck(t, p[1], p[2], w, l, cmp, v)
    \/ \E t \in Threads : futex_requeue(t)

Spec == Init /\ [][Next]_vars

-----------------------------------------------------------------------------
Asleep(t) == pc[t] = "asleep"

\* Type of every variable.
TypeOK ==
    /\ word \in [Addrs -> Vals]
    /\ chain \in [Buckets -> SUBSET Slots]
    /\ heap \in SUBSET Slots
    /\ waiter \in [Slots -> Waiters]
    /\ pc \in [Threads -> {"guest", "checked", "asleep", "requeue"}]
    /\ arg \in [Threads -> {NoCall} \cup WaitCalls \cup RequeueCalls]
    /\ slot \in [Threads -> Slots \cup {NULL}]

\* A thread asleep in futex_wait owns an allocated waiter of its own, which
\* is linked in the chain of the address it waits on now (after requeues),
\* and in no other: a wake or a requeue of that address can find it.
SleeperLinked ==
    /\ \A t \in Threads : Asleep(t) =>
          /\ slot[t] \in heap
          /\ \A b \in Buckets :
                slot[t] \in chain[b] <=> b = futex_hash_fn(waiter[slot[t]].addr)
    /\ \A t, u \in Threads : Asleep(t) /\ Asleep(u) /\ slot[t] = slot[u] => t = u

\* Every waiter a chain links is allocated and belongs to a thread still
\* inside futex_wait ("Remove from hash chain", before free): no walk of
\* futex_wake or futex_requeue meets a waiter that was freed.
NoStaleLink ==
    \A b \in Buckets : \A s \in chain[b] :
        s \in heap /\ \E t \in Threads : Asleep(t) /\ slot[t] = s

\* futex_wake of an address with a count no smaller than the number of other
\* threads and FUTEX_BITSET_MATCH_ANY leaves no thread asleep there unwoken.
WakeAllReachesAll ==
    [][\A t \in Threads, a \in Addrs, n \in Counts :
          n >= Cardinality(Threads) - 1 /\ futex_wake(t, a, n, MatchAny) =>
              \A u \in Threads :
                 Asleep(u) /\ waiter[slot[u]].addr = a /\ waiter[slot[u]].bitset # {}
                     => waiter'[slot[u]].woken]_vars

\* Requeues stay within one hash chain.
RequeueSameChain ==
    \A p \in RequeuePairs : futex_hash_fn(p[1]) = futex_hash_fn(p[2])
=============================================================================
