------------------------------ MODULE FdTable -------------------------------
(***************************************************************************)
(* File descriptor tables: fd_table_t of emu/src/process.c and the system  *)
(* calls of sys_file.c, sys_net.c and sys_memory.c that make, copy and     *)
(* close descriptors.                                                      *)
(*                                                                         *)
(* A table is shared by the threads of a process and copied by fork.  Its  *)
(* lock covers the search for a slot, closing, copying and releasing; the  *)
(* callers of fd_alloc get a placeholder and fill it in without the lock,  *)
(* the type first.  Each critical section, each host call and each of the  *)
(* two parts of filling is a step.  A cleared entry has real_fd 0, not -1. *)
(*                                                                         *)
(* The host hands out its lowest free descriptor.  Descriptor 0 belongs to *)
(* the application the emulator is part of.  Host calls that fail and      *)
(* change nothing are not steps.  A private object (epoll, eventfd,        *)
(* timerfd) holds the write end of its pipe, if it has one.                *)
(***************************************************************************)
EXTENDS Integers, Sequences, FiniteSets, FiniteSetsExt, Functions

CONSTANTS
    Tasks,          \* guest tasks
    Tables,         \* heap cells for fd_table_t
    MAX_FDS,        \* slots of a table
    Std,            \* descriptors emu_spawn opens on the terminal
    MaxHost,        \* the largest host descriptor
    Objects,        \* heap cells for private objects
    OpenTypes,      \* the types open and socket make
    PairTypes,      \* "PIPE" (pipe2), "SOCKET" (socketpair)
    EventTypes,     \* "EVENT" (eventfd2), "PIPE" (timerfd_create)
    MinArgs,        \* the lowest slots guests pass to F_DUPFD
    CloexecArgs,    \* the close-on-exec flags guests pass to the calls
    NoTable, NoObject       \* null pointers

ASSUME ConstAssumption ==
    /\ Tasks # {} /\ IsFiniteSet(Tasks)
    /\ Tables # {} /\ NoTable \notin Tables /\ NoObject \notin Objects
    /\ MAX_FDS \in Nat /\ Std \in 0..MAX_FDS /\ MaxHost \in Nat /\ Std <= MaxHost
    /\ OpenTypes \subseteq {"FILE", "SOCKET", "FB", "INPUT"}
    /\ PairTypes \subseteq {"PIPE", "SOCKET"} /\ EventTypes \subseteq {"PIPE", "EVENT"}
    /\ MinArgs \subseteq 0..(MAX_FDS - 1) /\ CloexecArgs \subseteq BOOLEAN

VARIABLES
    table,          \* the table of each task
    refcount, fds,  \* fields of the tables
    host,           \* what each host descriptor is open on
    objs,           \* the write end in each object, -1 if none, FREE if not allocated
    loc,            \* place and locals of the call each task is in
    raced           \* history: a slot of a shared table was used without the lock

vars == <<table, refcount, fds, host, objs, loc, raced>>

Fds == 0..(MAX_FDS - 1)
HostFds == 0..MaxHost
Types == {"NONE", "FILE", "PIPE", "SOCKET", "TTY", "EPOLL", "EVENT", "FB", "INPUT"}
FREE == -2

Entries == [type : Types, real_fd : -1..MaxHost, cloexec : BOOLEAN,
            private : Objects \cup {NoObject}]
Zero == [type |-> "NONE", real_fd |-> 0, cloexec |-> FALSE, private |-> NoObject]
Placeholder == [Zero EXCEPT !.type = "FILE", !.real_fd = -1]

\* src: descriptor being duplicated; min: lowest slot wanted; dst: slots the
\* call fills; hold: host descriptors in its hands; obj: its new object.
User == [pc |-> "user", call |-> "none", src |-> 0, min |-> 0, dst |-> <<>>, hold |-> <<>>,
         obj |-> NoObject, type |-> "NONE", cloexec |-> FALSE]

Init ==
    /\ \E first \in Tasks, h \in Tables :
          /\ table = [t \in Tasks |-> IF t = first THEN h ELSE NoTable]
          /\ refcount = [k \in Tables |-> IF k = h THEN 1 ELSE 0]
          /\ fds = [k \in Tables |-> [i \in Fds |->
                       IF k = h /\ i < Std
                       THEN [Zero EXCEPT !.type = "TTY", !.real_fd = i + 1] ELSE Zero]]
    /\ host = [f \in HostFds |-> IF f = 0 THEN "APP" ELSE IF f <= Std THEN "TTY" ELSE "none"]
    /\ objs = [o \in Objects |-> FREE]
    /\ loc = [t \in Tasks |-> User]
    /\ raced = FALSE

-----------------------------------------------------------------------------
\* The host.
Unused(hst) == {f \in HostFds : hst[f] = "none"}
Lowest(hst) == Min(Unused(hst))
CloseHost(hst, S) == [f \in HostFds |-> IF f \in S THEN "none" ELSE hst[f]]
CanDup(hst, f) == f \in HostFds /\ hst[f] # "none" /\ Unused(hst) # {}

\* Host descriptors that closing an entry closes: real_fd and, through
\* close_fn, the write end of the object.
Ends(e) == {e.real_fd} \cup (IF e.private = NoObject THEN {} ELSE {objs[e.private]})

\* The part of fd_close, fd_close_cloexec and fd_table_release that closes
\* the slots S of table h, under its lock.
CloseSlots(h, S) ==
    LET open == {i \in S : fds[h][i].type # "NONE"}
    IN  /\ host' = CloseHost(host, UNION {Ends(fds[h][i]) : i \in open})
        /\ objs' = [o \in Objects |->
                       IF \E i \in open : fds[h][i].private = o THEN FREE ELSE objs[o]]
        /\ fds' = [fds EXCEPT ![h] = [i \in Fds |-> IF i \in open THEN Zero ELSE @[i]]]

Slot(t, i) == fds[table[t]][i]
Set(t, i, e) == fds' = [fds EXCEPT ![table[t]][i] = e]
Idle(t) == table[t] # NoTable /\ loc[t].pc = "user"
Enter(t, r) == loc' = [loc EXCEPT ![t] = r]
Goto(t, p) == loc' = [loc EXCEPT ![t].pc = p]

\* History: a call keeps a pointer to a slot without the lock while another
\* task uses the table.  Only its own users can share a table.
Alone(t) == \A u \in Tasks \ {t} : table[u] # table[t]
Unlocked(t) == raced' = (raced \/ ~Alone(t))

-----------------------------------------------------------------------------
\* Calls that make descriptors: the host call.
OpenCall(t, call, pc, ty, c) ==
    /\ Idle(t)
    /\ Unused(host) # {}
    /\ host' = [host EXCEPT ![Lowest(host)] = ty]
    /\ Enter(t, [User EXCEPT !.pc = pc, !.call = call, !.hold = <<Lowest(host)>>,
                             !.type = ty, !.cloexec = c])
    /\ UNCHANGED <<table, refcount, fds, objs, raced>>

do_openat(t, ty, c) == OpenCall(t, "open", "install", ty, c)
do_memfd_create(t) == OpenCall(t, "memfd", "alloc", "FILE", FALSE)
do_accept(t, i, c) ==
    /\ Idle(t) /\ Slot(t, i).type = "SOCKET"
    /\ OpenCall(t, "accept", "alloc", "SOCKET", c)

\* pipe() of the host: the descriptors it returns and the host after it.
PipeEnds == LET r == Lowest(host)
            IN  <<r, Lowest([host EXCEPT ![r] = "PIPE"])>>
Piped(ty) == [host EXCEPT ![PipeEnds[1]] = ty, ![PipeEnds[2]] = ty]

\* pipe2 and socketpair.
do_pipe2(t, ty, c) ==
    /\ Idle(t)
    /\ Cardinality(Unused(host)) >= 2
    /\ host' = Piped(ty)
    /\ Enter(t, [User EXCEPT !.pc = "alloc", !.call = "pipe", !.hold = PipeEnds,
                             !.type = ty, !.cloexec = c])
    /\ UNCHANGED <<table, refcount, fds, objs, raced>>

do_epoll_create1(t, c) ==
    \E o \in Objects :
       /\ Idle(t)
       /\ objs[o] = FREE
       /\ objs' = [objs EXCEPT ![o] = -1]
       /\ Enter(t, [User EXCEPT !.pc = "alloc", !.call = "epoll", !.obj = o,
                                !.type = "EPOLL", !.cloexec = c])
       /\ UNCHANGED <<table, refcount, fds, host, raced>>

\* eventfd2, and timerfd_create, whose entry has type FD_PIPE.
do_eventfd2(t, ty, c) ==
    \E o \in Objects :
       /\ Idle(t)
       /\ objs[o] = FREE
       /\ Cardinality(Unused(host)) >= 2
       /\ host' = Piped("PIPE")
       /\ objs' = [objs EXCEPT ![o] = PipeEnds[2]]
       /\ Enter(t, [User EXCEPT !.pc = "alloc", !.call = "event", !.hold = <<PipeEnds[1]>>,
                                !.obj = o, !.type = ty, !.cloexec = c])
       /\ UNCHANGED <<table, refcount, fds, raced>>

\* dup and F_DUPFD (dup has min 0 and c FALSE): fd_get, without the lock.
do_dup(t, i, min, c) ==
    /\ Idle(t)
    /\ Slot(t, i).type # "NONE"
    /\ Enter(t, [User EXCEPT !.pc = "alloc", !.call = "dup", !.src = i, !.min = min,
                             !.cloexec = c])
    /\ Unlocked(t)
    /\ UNCHANGED <<table, refcount, fds, host, objs>>

do_dup3(t, i, j, c) ==
    /\ Idle(t)
    /\ i # j
    /\ Slot(t, i).type # "NONE"
    /\ Enter(t, [User EXCEPT !.pc = "dup", !.call = "dup3", !.src = i, !.dst = <<j>>,
                             !.cloexec = c])
    /\ Unlocked(t)
    /\ UNCHANGED <<table, refcount, fds, host, objs>>

-----------------------------------------------------------------------------
\* fd_alloc_init and fd_alloc, under the lock of the table.
FreeSlots(t, min) == {i \in Fds : i >= min /\ Slot(t, i).type = "NONE"}

\* Variant: the host descriptor is forgotten when the table is full.
InstallForgets(t) ==
    /\ loc[t].pc = "install"
    /\ Enter(t, User)
    /\ IF FreeSlots(t, 0) # {}
       THEN Set(t, Min(FreeSlots(t, 0)),
                [Zero EXCEPT !.type = loc[t].type, !.real_fd = loc[t].hold[1],
                             !.cloexec = loc[t].cloexec])
       ELSE UNCHANGED fds
    /\ UNCHANGED <<table, refcount, host, objs, raced>>

\* open and socket: fd_alloc_init installs the whole entry; the host
\* descriptor is closed when the table is full.
Install(t) ==
    /\ loc[t].pc = "install"
    /\ Enter(t, User)
    /\ IF FreeSlots(t, 0) # {}
       THEN /\ Set(t, Min(FreeSlots(t, 0)),
                   [Zero EXCEPT !.type = loc[t].type, !.real_fd = loc[t].hold[1],
                                !.cloexec = loc[t].cloexec])
            /\ UNCHANGED host
       ELSE /\ host' = CloseHost(host, Range(loc[t].hold))
            /\ UNCHANGED fds
    /\ UNCHANGED <<table, refcount, objs, raced>>

\* The other calls: fd_alloc reserves a slot with a placeholder.
fd_alloc(t) ==
    /\ loc[t].pc = "alloc"
    /\ LET free == FreeSlots(t, loc[t].min)
       IN  IF free = {}
           THEN Goto(t, "undo") /\ UNCHANGED fds
           ELSE /\ Set(t, Min(free), Placeholder)
                /\ Enter(t, [loc[t] EXCEPT !.dst = Append(@, Min(free)),
                                !.pc = IF loc[t].call = "dup" THEN "dup" ELSE "type"])
    /\ Unlocked(t)
    /\ UNCHANGED <<table, refcount, host, objs>>

\* Variant: dup returns the error and keeps the placeholder.
DupFails(t) == Enter(t, User)

\* A dup that fails gives its placeholder back; dup3 has none.
DupFailed(t) == IF loc[t].call = "dup" THEN Goto(t, "undo") ELSE Enter(t, User)

\* dup() of the host on the real_fd the entry has by now.
DupHost(t) ==
    /\ loc[t].pc = "dup"
    /\ LET f == Slot(t, loc[t].src).real_fd
       IN  IF CanDup(host, f)
           THEN /\ host' = [host EXCEPT ![Lowest(host)] = host[f]]
                /\ Enter(t, [loc[t] EXCEPT !.hold = <<Lowest(host)>>,
                                !.pc = IF loc[t].call = "dup" THEN "type" ELSE "close"])
           ELSE DupFailed(t) /\ UNCHANGED host
    /\ UNCHANGED <<table, refcount, fds, objs, raced>>

\* dup3: fd_close of the new number.
Dup3Close(t) ==
    /\ loc[t].pc = "close"
    /\ CloseSlots(table[t], {loc[t].dst[1]})
    /\ Goto(t, "type")
    /\ UNCHANGED <<table, refcount, raced>>

Target(t) == loc[t].dst[Len(loc[t].dst)]

\* Variant: a duplicate is a file, whatever the original is.
NewTypeFile(t) == IF loc[t].call \in {"dup", "dup3"} THEN "FILE" ELSE loc[t].type

\* The type written: a duplicate takes the one the original has by now.
NewType(t) ==
    IF loc[t].call \in {"dup", "dup3"} THEN Slot(t, loc[t].src).type ELSE loc[t].type

\* Filling a slot without the lock: the type ...
WriteType(t) ==
    /\ loc[t].pc = "type"
    /\ fds' = [fds EXCEPT ![table[t]][Target(t)].type = NewType(t)]
    /\ Goto(t, "real")
    /\ UNCHANGED <<table, refcount, host, objs, raced>>

\* ... and the other fields.  private is written only by the calls that
\* make an object.  pipe2 goes on with its second end; pipe2 and accept
\* then copy their results to the guest.
WriteRest(t) ==
    /\ loc[t].pc = "real"
    /\ LET l == loc[t]
           e == fds[table[t]][Target(t)]
       IN  /\ Set(t, Target(t),
                  [e EXCEPT !.real_fd = IF l.hold = <<>> THEN -1 ELSE l.hold[1],
                            !.cloexec = l.cloexec,
                            !.private = IF l.obj = NoObject THEN @ ELSE l.obj])
           /\ Enter(t, IF l.call \notin {"pipe", "accept"} THEN User
                       ELSE [l EXCEPT !.hold = Tail(@),
                                      !.pc = IF Len(l.hold) = 2 THEN "alloc" ELSE "out"])
    /\ UNCHANGED <<table, refcount, host, objs, raced>>

\* The copy to guest memory succeeds or fails with EFAULT.
CopyOut(t) ==
    /\ loc[t].pc = "out"
    /\ \/ Enter(t, User)
       \/ Goto(t, "undo")
    /\ UNCHANGED <<table, refcount, fds, host, objs, raced>>

\* A call that failed closes the slots it had filled, one fd_close each ...
UndoSlot(t) ==
    /\ loc[t].pc = "undo"
    /\ loc[t].dst # <<>>
    /\ CloseSlots(table[t], {loc[t].dst[1]})
    /\ Enter(t, [loc[t] EXCEPT !.dst = Tail(@)])
    /\ UNCHANGED <<table, refcount, raced>>

\* ... and what it still holds.
UndoRest(t) ==
    /\ loc[t].pc = "undo"
    /\ loc[t].dst = <<>>
    /\ LET o == loc[t].obj
       IN  /\ host' = CloseHost(host, Range(loc[t].hold) \cup
                                      (IF o = NoObject THEN {} ELSE {objs[o]}))
           /\ objs' = [x \in Objects |-> IF x = o THEN FREE ELSE objs[x]]
    /\ Enter(t, User)
    /\ UNCHANGED <<table, refcount, fds, raced>>

-----------------------------------------------------------------------------
\* close.
do_close(t, i) ==
    /\ Idle(t)
    /\ Slot(t, i).type # "NONE"
    /\ CloseSlots(table[t], {i})
    /\ UNCHANGED <<table, refcount, loc, raced>>

\* fcntl F_SETFD, without the lock.
SetCloexec(t, i, c) ==
    /\ Idle(t)
    /\ Slot(t, i).type # "NONE"
    /\ fds' = [fds EXCEPT ![table[t]][i].cloexec = c]
    /\ UNCHANGED <<table, refcount, host, objs, loc, raced>>

\* execve: fd_close_cloexec.
fd_close_cloexec(t) ==
    /\ Idle(t)
    /\ CloseSlots(table[t], {i \in Fds : Slot(t, i).cloexec})
    /\ UNCHANGED <<table, refcount, loc, raced>>

\* Variant: the copy keeps the host descriptor of the original.
CopyEntryAlias(e, hst) ==
    [host |-> hst, entry |-> [e EXCEPT !.private = NoObject]]

\* Variant: the copy keeps the private object.
CopyEntryObject(e, hst) ==
    IF e.real_fd < 0 THEN [host |-> hst, entry |-> e]
    ELSE IF CanDup(hst, e.real_fd)
    THEN [host |-> [hst EXCEPT ![Lowest(hst)] = hst[e.real_fd]],
          entry |-> [e EXCEPT !.real_fd = Lowest(hst)]]
    ELSE [host |-> hst, entry |-> [e EXCEPT !.type = "NONE"]]

\* One turn of the loop of fd_table_clone, on an entry in use.
CopyEntry(e, hst) ==
    LET bare == [e EXCEPT !.private = NoObject]
    IN  IF e.real_fd < 0 THEN [host |-> hst, entry |-> bare]
        ELSE IF CanDup(hst, e.real_fd)
        THEN [host |-> [hst EXCEPT ![Lowest(hst)] = hst[e.real_fd]],
              entry |-> [bare EXCEPT !.real_fd = Lowest(hst)]]
        ELSE [host |-> hst, entry |-> [bare EXCEPT !.type = "NONE"]]

\* The host and the new table after the copy of a whole table.
TableCopy(src) ==
    LET after[n \in 0..MAX_FDS] ==
            IF n = 0 THEN [host |-> host, fds |-> [i \in Fds |-> Zero]]
            ELSE LET prev == after[n - 1]
                     c == CopyEntry(src[n - 1], prev.host)
                 IN  IF src[n - 1].type = "NONE" THEN prev
                     ELSE [host |-> c.host, fds |-> [prev.fds EXCEPT ![n - 1] = c.entry]]
    IN  after[MAX_FDS]

\* fork, and clone without CLONE_FILES.
fd_table_clone(t, u) ==
    \E h \in Tables :
       /\ Idle(t)
       /\ table[u] = NoTable
       /\ refcount[h] = 0
       /\ table' = [table EXCEPT ![u] = h]
       /\ refcount' = [refcount EXCEPT ![h] = 1]
       /\ LET c == TableCopy(fds[table[t]])
          IN  host' = c.host /\ fds' = [fds EXCEPT ![h] = c.fds]
       /\ UNCHANGED <<objs, loc, raced>>

\* Variant: clone forgets the count.
ShareFilesUncounted(t, u) ==
    /\ Idle(t)
    /\ table[u] = NoTable
    /\ table' = [table EXCEPT ![u] = table[t]]
    /\ UNCHANGED <<refcount, fds, host, objs, loc, raced>>

\* clone with CLONE_FILES.
ShareFiles(t, u) ==
    /\ Idle(t)
    /\ table[u] = NoTable
    /\ table' = [table EXCEPT ![u] = table[t]]
    /\ refcount' = [refcount EXCEPT ![table[t]] = @ + 1]
    /\ UNCHANGED <<fds, host, objs, loc, raced>>

\* Variant: every exit counts as two.
ReleasedTwice(n) == n - 2

Released(n) == n - 1

\* exit: proc_destroy releases the table; the last user closes everything.
fd_table_release(t) ==
    /\ Idle(t)
    /\ table' = [table EXCEPT ![t] = NoTable]
    /\ refcount' = [refcount EXCEPT ![table[t]] = Released(@)]
    /\ IF Released(refcount[table[t]]) > 0
       THEN UNCHANGED <<fds, host, objs>>
       ELSE CloseSlots(table[t], Fds)
    /\ UNCHANGED <<loc, raced>>

-----------------------------------------------------------------------------
Call(t) ==
    \/ \E c \in CloexecArgs :
          \/ \E ty \in OpenTypes : do_openat(t, ty, c)
          \/ \E ty \in PairTypes : do_pipe2(t, ty, c)
          \/ do_epoll_create1(t, c)
          \/ \E ty \in EventTypes : do_eventfd2(t, ty, c)
    \/ \E i \in Fds, c \in CloexecArgs :
          \/ do_accept(t, i, c)
          \/ \E min \in MinArgs : do_dup(t, i, min, c)
          \/ \E j \in Fds : do_dup3(t, i, j, c)
          \/ SetCloexec(t, i, c)
    \/ \E i \in Fds : do_close(t, i)
    \/ do_memfd_create(t)

Proceed(t) ==
    \/ Install(t) \/ fd_alloc(t) \/ DupHost(t) \/ Dup3Close(t)
    \/ WriteType(t) \/ WriteRest(t) \/ CopyOut(t) \/ UndoSlot(t) \/ UndoRest(t)

Life(t) ==
    \/ \E u \in Tasks : fd_table_clone(t, u) \/ ShareFiles(t, u)
    \/ fd_close_cloexec(t)
    \/ fd_table_release(t)

Next == \E t \in Tasks : Call(t) \/ Proceed(t) \/ Life(t)

Spec == Init /\ [][Next]_vars

-----------------------------------------------------------------------------
Locals == [pc : {"user", "install", "alloc", "dup", "close", "type", "real", "out", "undo"},
           call : {"none", "open", "memfd", "accept", "pipe", "epoll", "event", "dup", "dup3"},
           src : Fds \cup {0}, min : Fds \cup {0}, dst : Seq(Fds), hold : Seq(HostFds),
           obj : Objects \cup {NoObject}, type : Types, cloexec : BOOLEAN]

\* Type correctness: fields of fd_table_t and fd_entry_t, and the locals of
\* the calls; a count is never negative.
TypeOK ==
    /\ table \in [Tasks -> Tables \cup {NoTable}]
    /\ refcount \in [Tables -> Nat]
    /\ fds \in [Tables -> [Fds -> Entries]]
    /\ host \in [HostFds -> Types \cup {"none", "APP"}]
    /\ objs \in [Objects -> {FREE} \cup (-1..MaxHost)]
    /\ \A t \in Tasks : loc[t] \in Locals /\ Len(loc[t].dst) <= 2 /\ Len(loc[t].hold) <= 2
    /\ DOMAIN loc = Tasks
    /\ raced \in BOOLEAN

\* A slot that a call has given a type but no real_fd.  After dup3 it is
\* still the 0 of fd_close, or what fd_table_clone left when its dup failed.
Torn(h, i) ==
    \E t \in Tasks : table[t] = h /\ loc[t].pc = "real" /\ Target(t) = i

InUse(h, i) == refcount[h] > 0 /\ fds[h][i].type # "NONE"

\* Who will close which host descriptor, and who will free which object.
Slots == {x \in Tables \X Fds : InUse(x[1], x[2])}
Claims ==
    {<<"slot", x, fds[x[1]][x[2]].real_fd>> : x \in {y \in Slots :
        fds[y[1]][y[2]].real_fd >= 0 /\ ~Torn(y[1], y[2])}}
    \cup {<<"object", o, objs[o]>> : o \in {y \in Objects : objs[y] >= 0}}
    \cup UNION {{<<"call", <<t, k>>, loc[t].hold[k]>> : k \in DOMAIN loc[t].hold} : t \in Tasks}
    \cup {<<"app", 0, 0>>}
ObjectClaims ==
    {<<"slot", x, fds[x[1]][x[2]].private>> : x \in {y \in Slots :
        fds[y[1]][y[2]].private # NoObject}}
    \cup {<<"call", t, loc[t].obj>> : t \in {u \in Tasks : loc[u].obj # NoObject}}

Claimed(claims) == {c[3] : c \in claims}
Once(claims) == Cardinality(claims) = Cardinality(Claimed(claims))

\* Every host descriptor has at most one owner among the slots of all
\* tables, the private objects, the calls in progress and the application,
\* and is open as long as it has one: no path through dup, dup3, fork,
\* execve, exit and their failures closes a descriptor twice or closes
\* someone else's, unless calls of threads race on an unlocked slot.
OneOwner ==
    ~raced => /\ Once(Claims)
              /\ \A f \in Claimed(Claims) : host[f] # "none"

\* A private object has at most one holder and is allocated while it has
\* one, so that close_fn runs once ("Clear to avoid double-free" in
\* fd_table_clone).
ObjectOnce ==
    ~raced => /\ Once(ObjectClaims)
              /\ \A o \in Claimed(ObjectClaims) : objs[o] # FREE

\* Without such a race, every open host descriptor and every
\* object is owned: error paths and full tables leak nothing.
NoLeak ==
    ~raced => /\ \A f \in HostFds : host[f] # "none" => f \in Claimed(Claims)
              /\ \A o \in Objects : objs[o] # FREE => o \in Claimed(ObjectClaims)

\* Without such a race, the type of a slot is that of the file
\* behind its real_fd, through any chain of dup, dup3 and fork.
KindAgrees ==
    ~raced =>
       \A h \in Tables, i \in Fds :
          InUse(h, i) /\ fds[h][i].real_fd >= 0 /\ ~Torn(h, i) =>
             host[fds[h][i].real_fd] =
                IF fds[h][i].type = "EVENT" THEN "PIPE" ELSE fds[h][i].type

\* Without such a race, a slot without host descriptor is an
\* epoll instance or the placeholder of a call in progress: no error path
\* of dup, F_DUPFD or pipe2 leaves one behind.
Settled ==
    ~raced =>
       \A h \in Tables, i \in Fds :
          InUse(h, i) /\ fds[h][i].real_fd = -1 /\ fds[h][i].type # "EPOLL" =>
             \E t \in Tasks : table[t] = h /\ i \in Range(loc[t].dst)

\* The count of a table is the number of tasks that use it, so the last exit
\* and no earlier one closes its descriptors (fd_table_release).
CountExact ==
    \A h \in Tables : refcount[h] = Cardinality({t \in Tasks : table[t] = h})
=============================================================================
