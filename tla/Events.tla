------------------------------- MODULE Events -------------------------------
(***************************************************************************)
(* Waiting for events: epoll, eventfd, timerfd, ppoll and pselect6 of      *)
(* emu/src/sys_file.c, with the parts of process.c that close a            *)
(* descriptor.                                                             *)
(*                                                                         *)
(* The threads of one guest process share a descriptor table.  A timerfd   *)
(* and an eventfd are pipes; every armed timer has a thread of the host    *)
(* that sleeps and writes to the pipe.  The epoll list keeps host          *)
(* descriptors, which the host reuses, lowest first.  Making a descriptor  *)
(* is one step here: FdTable has its interleavings and its failures.  The  *)
(* reads and writes of the epoll list take no lock.                        *)
(*                                                                         *)
(* No signal handler is installed for SIGPIPE: a write to a pipe without   *)
(* readers ends the application ("killed").  Two calls at once on a timer, *)
(* the close of an object another call uses, and settime on an object that *)
(* is no timer have no defined outcome; nothing is said of what follows    *)
(* ("undefined").                                                          *)
(***************************************************************************)
EXTENDS Integers, Sequences, SequencesExt, FiniteSets, FiniteSetsExt

CONSTANTS
    Tasks,              \* threads of the guest process
    MAX_FDS,            \* slots of the descriptor table
    MaxHost,            \* the largest host descriptor
    Objects,            \* heap cells for private objects, numbered
    MAX_EPOLL_ENTRIES,
    CAP,                \* expirations that fit into a pipe
    InitVals,           \* the initial values of eventfds
    EventSets,          \* the event masks guests register
    MaxEvents,          \* the sizes of the arrays guests pass to epoll_pwait
    Timeouts,           \* "zero", "finite", "infinite"
    PollSets,           \* the sets of descriptors guests pass to ppoll
    MaxCalls,           \* bound: the calls the guest makes
    NoTask              \* nobody

ASSUME ConstAssumption ==
    /\ IsFiniteSet(Tasks) /\ NoTask \notin Tasks
    /\ IsFiniteSet(Objects) /\ Objects \subseteq Nat \ {0}
    /\ MAX_FDS \in Nat /\ MaxHost \in Nat /\ CAP \in Nat \ {0}
    /\ MAX_EPOLL_ENTRIES \in Nat
    /\ EventSets \subseteq SUBSET {"IN", "OUT", "RDHUP"}
    /\ InitVals \subseteq Nat /\ MaxEvents \subseteq Nat \ {0}
    /\ Timeouts \subseteq {"zero", "finite", "infinite"}
    /\ PollSets \subseteq SUBSET (0..(MAX_FDS - 1))

VARIABLES
    fds,        \* the table: type, real_fd, private
    tlock,      \* who holds the lock of the table between steps
    host,       \* what each host descriptor is open on
    level,      \* expirations in each pipe
    objs,       \* the private objects, with the timer threads
    task,       \* place and locals of the call each task is in
    app,        \* "up", "killed" or "undefined"
    calls       \* calls made so far

vars == <<fds, tlock, host, level, objs, task, app, calls>>

Fds == 0..(MAX_FDS - 1)
HostFds == 0..MaxHost
Pipes == 0..(MaxHost \div 2)
NoObject == 0

Free == [type |-> "NONE", real_fd |-> 0, private |-> NoObject]
Shut == [pipe |-> -1, end |-> "none"]

\* asked: history, what the guest registered and did not remove.
Nothing == [kind |-> "free", wfd |-> -1, running |-> FALSE, interval |-> 0,
            thread |-> "none", entries |-> << >>, asked |-> {}]

\* fd, obj: what the call is about; pfds: its copy of the interest list; max,
\* timeout: its arguments; out: what the wait reported.  mixed: history,
\* the interest list changed during the wait.
User == [pc |-> "user", fd |-> 0, obj |-> NoObject, pfds |-> << >>, max |-> 0,
         timeout |-> "zero", arm |-> 0, out |-> {}, mixed |-> FALSE]

Init ==
    /\ fds = [i \in Fds |-> Free]
    /\ tlock = NoTask
    /\ host = [h \in HostFds |-> Shut]
    /\ level = [p \in Pipes |-> 0]
    /\ objs = [o \in Objects |-> Nothing]
    /\ task = [t \in Tasks |-> User]
    /\ app = "up"
    /\ calls = 0

-----------------------------------------------------------------------------
(* The host. *)

Unused == {h \in HostFds : host[h] = Shut}
Ends(hst, p, end) == {h \in HostFds : hst[h].pipe = p /\ hst[h].end = end}
Unpiped == {p \in Pipes : Ends(host, p, "R") = {} /\ Ends(host, p, "W") = {}}

\* pipe(): the lowest two numbers.
pipe(p, r, w) ==
    host' = [host EXCEPT ![r] = [pipe |-> p, end |-> "R"], ![w] = [pipe |-> p, end |-> "W"]]

Closed(hst, S) == [h \in HostFds |-> IF h \in S THEN Shut ELSE hst[h]]

\* What poll() reports for one descriptor; a negative number is skipped.
poll(hst, lvl, h, events) ==
    IF h < 0 THEN {}
    ELSE IF hst[h] = Shut THEN {"NVAL"}
    ELSE LET f == hst[h]
             readers == Ends(hst, f.pipe, "R")
             writers == Ends(hst, f.pipe, "W")
         IN  IF f.end = "R"
             THEN (IF lvl[f.pipe] > 0 /\ "IN" \in events THEN {"IN"} ELSE {})
                  \cup (IF writers = {} THEN {"HUP"} ELSE {})
             ELSE (IF lvl[f.pipe] < CAP /\ "OUT" \in events THEN {"OUT"} ELSE {})
                  \cup (IF readers = {} THEN {"ERR"} ELSE {})

-----------------------------------------------------------------------------
(* Making descriptors. *)

Up == app = "up"
Idle(t) == Up /\ task[t].pc = "user"
Enter(t, r) == task' = [task EXCEPT ![t] = r]
Return(t) == Enter(t, User)
Slots == {i \in Fds : fds[i].type = "NONE"}
NewSlot(t) == Idle(t) /\ tlock = NoTask /\ Slots # {}
Cells == {o \in Objects : objs[o] = Nothing}
Install(type, h, o) ==
    fds' = [fds EXCEPT ![Min(Slots)] = [type |-> type, real_fd |-> h, private |-> o]]

\* A pipe, its object and its slot, for timerfd_create and eventfd2.
MakePiped(t, kind, type, n) ==
    \E o \in Cells, r, w \in Unused, p \in Unpiped :
        /\ NewSlot(t)
        /\ o = Min(Cells)
        /\ r # w /\ r = Min(Unused) /\ w = Min(Unused \ {r}) /\ p = Min(Unpiped)
        /\ pipe(p, r, w)
        /\ level' = [level EXCEPT ![p] = n]
        /\ objs' = [objs EXCEPT ![o] = [Nothing EXCEPT !.kind = kind, !.wfd = w]]
        /\ Install(type, r, o)
        /\ Return(t)
        /\ UNCHANGED <<tlock, app>>

do_timerfd_create(t) == MakePiped(t, "timer", "PIPE", 0)

\* A nonzero initial value is one write of eight bytes.
do_eventfd2(t, initval) == MakePiped(t, "event", "EVENT", IF initval > 0 THEN 1 ELSE 0)

do_epoll_create1(t) ==
    \E o \in Cells :
        /\ NewSlot(t)
        /\ o = Min(Cells)
        /\ objs' = [objs EXCEPT ![o].kind = "epoll"]
        /\ Install("EPOLL", -1, o)
        /\ Return(t)
        /\ UNCHANGED <<tlock, host, level, app>>

\* The copy has the type and the file, not the private object.
do_dup(t, i) ==
    \E h \in Unused :
        /\ NewSlot(t)
        /\ fds[i].type # "NONE" /\ fds[i].real_fd >= 0
        /\ host[fds[i].real_fd] # Shut /\ h = Min(Unused)
        /\ host' = [host EXCEPT ![h] = host[fds[i].real_fd]]
        /\ Install(fds[i].type, h, NoObject)
        /\ Return(t)
        /\ UNCHANGED <<tlock, level, objs, app>>

-----------------------------------------------------------------------------
(* Objects in use by calls of other tasks. *)

Users(o, t) == {u \in Tasks \ {t} : task[u].obj = o}
Gone(why) ==
    /\ app' = why
    /\ fds' = [i \in Fds |-> Free] /\ tlock' = NoTask
    /\ host' = [h \in HostFds |-> Shut] /\ level' = [p \in Pipes |-> 0]
    /\ objs' = [o \in Objects |-> Nothing] /\ task' = [t \in Tasks |-> User]

-----------------------------------------------------------------------------
(* epoll. *)

Epoll(i) == fds[i].type = "EPOLL" /\ fds[i].private # NoObject
Interest(o) == objs[o].entries
SetInterest(o, s, asked) == objs' = [objs EXCEPT ![o].entries = s, ![o].asked = asked]
Registered(o, i) == {k \in 1..Len(Interest(o)) : Interest(o)[k].fd = i}

Asked(i, events) == {[fd |-> i, events |-> events]}
Others(o, i) == {a \in objs[o].asked : a.fd # i}

\* The waits on o see their list change under them.
Mixed(o) ==
    task' = [u \in Tasks |-> IF task[u].pc = "epoll" /\ task[u].obj = o
                             THEN [task[u] EXCEPT !.mixed = TRUE] ELSE task[u]]

\* orphan: history, the descriptor was closed while it was registered.
EpollAdd(o, i, events) ==
    /\ Registered(o, i) = {} /\ Len(Interest(o)) < MAX_EPOLL_ENTRIES
    /\ SetInterest(o, Append(Interest(o), [fd |-> i, real_fd |-> fds[i].real_fd,
                                           events |-> events, data |-> i, orphan |-> FALSE]),
                   objs[o].asked \cup Asked(i, events))

EpollMod(o, i, events) ==
    \E k \in Registered(o, i) :
        SetInterest(o, [Interest(o) EXCEPT ![k].events = events],
                       Others(o, i) \cup Asked(i, events))

\* Variant: the last entry is dropped instead of the one asked for.
EpollDelLast(o, i) ==
    \E k \in Registered(o, i) : SetInterest(o, Front(Interest(o)), Others(o, i))

\* The last entry takes the place of the one removed.
EpollDel(o, i) ==
    \E k \in Registered(o, i) :
        SetInterest(o, Front([Interest(o) EXCEPT ![k] = Last(Interest(o))]), Others(o, i))

do_epoll_ctl(t, e, i, op, events) ==
    /\ Idle(t) /\ Epoll(e) /\ fds[i].type # "NONE"
    /\ CASE op = "ADD" -> EpollAdd(fds[e].private, i, events)
         [] op = "MOD" -> EpollMod(fds[e].private, i, events)
         [] OTHER -> EpollDel(fds[e].private, i)
    /\ Mixed(fds[e].private)
    /\ UNCHANGED <<fds, tlock, host, level, app>>

\* epoll_pwait copies the list for poll(); an empty list is never waited for,
\* only slept on, which changes nothing.
Wanted(events) == (events \cap {"IN", "OUT"})
EpollWait(t, e, max, timeout) ==
    /\ Idle(t) /\ Epoll(e)
    /\ Interest(fds[e].private) # << >>
    /\ Enter(t, [User EXCEPT !.pc = "epoll", !.obj = fds[e].private, !.max = max,
                             !.timeout = timeout,
                             !.pfds = [k \in 1..Len(Interest(fds[e].private)) |->
                                         [fd |-> Interest(fds[e].private)[k].real_fd,
                                          events |-> Wanted(Interest(fds[e].private)[k].events)]]])
    /\ UNCHANGED <<fds, tlock, host, level, objs, app>>

Revents(pfds) == [k \in 1..Len(pfds) |-> poll(host, level, pfds[k].fd, pfds[k].events)]
Woken(revents) == \E k \in 1..Len(revents) : revents[k] # {}

\* The first max positions with events, among those of the list as it is now:
\* one that poll() never saw is read behind the copy and may be anything.
Chosen(revents, n, max, extra) ==
    LET hits == {k \in 1..n : k \in extra \/ (k <= Len(revents) /\ revents[k] # {})}
    IN  {k \in hits : Cardinality({j \in hits : j < k}) < max}

EpollReport(t, revents) ==
    /\ Woken(revents) \/ task[t].timeout # "infinite"
    /\ \E extra \in SUBSET ((Len(revents) + 1)..Len(Interest(task[t].obj))) :
           Enter(t, [User EXCEPT !.pc = "return", !.out =
               {Interest(task[t].obj)[k].data :
                   k \in Chosen(revents, Len(Interest(task[t].obj)), task[t].max, extra)}])
    /\ UNCHANGED <<fds, tlock, host, level, objs, app>>

EpollDone(t) == Up /\ task[t].pc = "epoll" /\ EpollReport(t, Revents(task[t].pfds))

-----------------------------------------------------------------------------
(* ppoll and pselect6 on the descriptors S, for reading. *)

Real(i) == IF fds[i].type = "NONE" THEN -1 ELSE fds[i].real_fd

\* Numbers that are not open are left out (fd -1) and so is an epoll descriptor.
PollWait(t, pc, S, timeout) ==
    /\ Idle(t)
    /\ S # {}
    /\ Enter(t, [User EXCEPT !.pc = pc, !.timeout = timeout,
                             !.pfds = [k \in 1..Cardinality(S) |->
                                         [fd |-> Real(SetToSortSeq(S, <)[k]),
                                          events |-> {"IN"}, guest |-> SetToSortSeq(S, <)[k]]]])
    /\ UNCHANGED <<fds, tlock, host, level, objs, app>>

do_ppoll(t, S, timeout) == PollWait(t, "ppoll", S, timeout)
do_pselect6(t, S, timeout) == PollWait(t, "pselect6", S, timeout)

\* ppoll reports by position.
PollHits(revents) == {k \in 1..Len(revents) : revents[k] # {}}
Polled(t, revents) == {task[t].pfds[k].guest : k \in PollHits(revents)}

\* pselect6 looks the host number of every guest number up again; a closed host
\* number makes select() fail.
Selected(t, revents) ==
    IF \E k \in PollHits(revents) : "NVAL" \in revents[k] THEN {}
    ELSE {task[t].pfds[k].guest : k \in {j \in 1..Len(revents) :
             \E h \in PollHits(revents) : Real(task[t].pfds[j].guest) = task[t].pfds[h].fd}}

PollDone(t) ==
    /\ Up /\ task[t].pc \in {"ppoll", "pselect6"}
    /\ \E revents \in {Revents(task[t].pfds)} :
           /\ Woken(revents) \/ task[t].timeout # "infinite"
           /\ Enter(t, [User EXCEPT !.pc = "return",
                                    !.out = IF task[t].pc = "ppoll" THEN Polled(t, revents)
                                            ELSE Selected(t, revents)])
    /\ UNCHANGED <<fds, tlock, host, level, objs, app>>

\* The result is the guest's.
Reported(t) ==
    /\ Up /\ task[t].pc = "return"
    /\ Return(t)
    /\ UNCHANGED <<fds, tlock, host, level, objs, app>>

-----------------------------------------------------------------------------
(* Timers. *)

Timer(i) == fds[i].private # NoObject /\ objs[fds[i].private].kind = "timer"

\* The interval, or the first expiration when there is none.
IntervalOf(it_interval, it_value) == IF it_interval > 0 THEN it_interval ELSE it_value

\* Variant: the thread starts before running is set, and may find it unset.
ArmedLate(o, ns) ==
    \E pc \in {"check", "done"} :
        objs' = [objs EXCEPT ![o].interval = ns, ![o].running = ns > 0,
                             ![o].thread = IF ns > 0 THEN pc ELSE "none"]

\* The new setting; a thread is created when it is not zero.
Armed(o, ns) ==
    objs' = [objs EXCEPT ![o].interval = ns, ![o].running = ns > 0,
                         ![o].thread = IF ns > 0 THEN "check" ELSE "none"]

SettimeBegin(t, o, ns) ==
    IF objs[o].running
    THEN /\ objs' = [objs EXCEPT ![o].running = FALSE]
         /\ Enter(t, [User EXCEPT !.pc = "settime", !.obj = o, !.arm = ns])
    ELSE Armed(o, ns) /\ Return(t)

\* Any private object is taken for a timer.
do_timerfd_settime(t, i, it_interval, it_value) ==
    /\ Idle(t) /\ fds[i].private # NoObject
    /\ IF ~Timer(i) \/ Users(fds[i].private, t) # {} THEN Gone("undefined")
       ELSE /\ SettimeBegin(t, fds[i].private, IntervalOf(it_interval, it_value))
            /\ UNCHANGED <<fds, tlock, host, level, app>>

\* pthread_join of settime, and the rest of it.
SettimeJoin(t) ==
    /\ Up /\ task[t].pc = "settime" /\ objs[task[t].obj].thread = "done"
    /\ Armed(task[t].obj, task[t].arm)
    /\ Return(t)
    /\ UNCHANGED <<fds, tlock, host, level, app>>

ThreadTo(o, pc) == objs' = [objs EXCEPT ![o].thread = pc]

\* timerfd_thread: it looks at its setting, sleeps, looks again and writes; the
\* write waits while the pipe is full.
ThreadCheck(o) ==
    /\ Up /\ objs[o].thread \in {"check", "recheck"}
    /\ ThreadTo(o, CASE ~objs[o].running -> "done"
                     [] objs[o].running /\ objs[o].thread = "recheck" -> "write"
                     [] OTHER -> IF objs[o].interval > 0 THEN "sleep" ELSE "done")
    /\ UNCHANGED <<fds, tlock, host, level, task, app>>

ThreadSleep(o) ==
    /\ Up /\ objs[o].thread = "sleep"
    /\ ThreadTo(o, "recheck")
    /\ UNCHANGED <<fds, tlock, host, level, task, app>>

PipeOf(o) == host[objs[o].wfd].pipe
Readerless(o) == Ends(host, PipeOf(o), "R") = {}
Full(o) == level[PipeOf(o)] = CAP

ThreadWrite(o) ==
    /\ Up /\ objs[o].thread = "write"
    /\ IF Readerless(o) THEN Gone("killed")
       ELSE /\ ~Full(o)
            /\ level' = [level EXCEPT ![PipeOf(o)] = @ + 1]
            /\ ThreadTo(o, "check")
            /\ UNCHANGED <<fds, tlock, host, task, app>>

timerfd_thread(o) == ThreadCheck(o) \/ ThreadSleep(o) \/ ThreadWrite(o)

-----------------------------------------------------------------------------
(* close: fd_close with the lock of the table, and the object's own close. *)

\* Lists that still have the number remember it.
Orphaned(list, i) ==
    [k \in 1..Len(list) |-> IF list[k].fd = i THEN [list[k] EXCEPT !.orphan = TRUE]
                                             ELSE list[k]]

\* The object o is freed, its descriptor and those of S closed, the slot cleared
\* and the lock released.  What a pipe without ends holds is gone.
Cleared(i, o, S) ==
    /\ objs' = [q \in Objects |->
                   IF q = o THEN Nothing
                   ELSE [objs[q] EXCEPT !.entries = Orphaned(objs[q].entries, i)]]
    /\ host' = Closed(host, S \cup (IF o = NoObject THEN {} ELSE {objs[o].wfd}))
    /\ fds' = [fds EXCEPT ![i] = Free]
    /\ tlock' = NoTask
    /\ level' = [p \in Pipes |-> IF Ends(host', p, "R") = {} /\ Ends(host', p, "W") = {}
                                 THEN 0 ELSE level[p]]

\* The host descriptor goes first; a timer is stopped after that.
do_close(t, i) ==
    /\ Idle(t) /\ fds[i].type # "NONE" /\ tlock = NoTask
    /\ IF fds[i].private # NoObject /\ Users(fds[i].private, t) # {} THEN Gone("undefined")
       ELSE /\ IF Timer(i)
               THEN /\ host' = Closed(host, {fds[i].real_fd})
                    /\ tlock' = t
                    /\ Enter(t, [User EXCEPT !.pc = "close", !.fd = i, !.obj = fds[i].private])
                    /\ UNCHANGED <<fds, level, objs>>
               ELSE /\ Cleared(i, fds[i].private, {fds[i].real_fd})
                    /\ Return(t)
            /\ app' = app

timerfd_close(t, o) ==
    IF objs[o].running
    THEN /\ objs' = [objs EXCEPT ![o].running = FALSE]
         /\ Enter(t, [task[t] EXCEPT !.pc = "join"])
         /\ UNCHANGED <<fds, tlock, host, level>>
    ELSE Cleared(task[t].fd, o, {}) /\ Return(t)

CloseStop(t) ==
    /\ Up /\ task[t].pc = "close"
    /\ timerfd_close(t, task[t].obj)
    /\ app' = app

\* Variant: the object is freed without waiting for its thread.
CloseJoinEarly(t) ==
    /\ Up /\ task[t].pc = "join"
    /\ Cleared(task[t].fd, NoObject, {objs[task[t].obj].wfd})
    /\ Return(t)
    /\ app' = app

CloseJoin(t) ==
    /\ Up /\ task[t].pc = "join" /\ objs[task[t].obj].thread = "done"
    /\ Cleared(task[t].fd, task[t].obj, {})
    /\ Return(t)
    /\ app' = app

-----------------------------------------------------------------------------
(* read of eight bytes: one expiration, or the initial value. *)

ReadFrom(t, h) ==
    /\ host[h].end = "R" /\ level[host[h].pipe] > 0
    /\ level' = [level EXCEPT ![host[h].pipe] = @ - 1]
    /\ Return(t)
    /\ UNCHANGED <<fds, tlock, host, objs, app>>

do_read(t, i) ==
    /\ Idle(t) /\ fds[i].type # "NONE" /\ fds[i].real_fd >= 0
    /\ ReadFrom(t, fds[i].real_fd)

-----------------------------------------------------------------------------
TaskStep(t) ==
    /\ calls < MaxCalls /\ calls' = calls + 1
    /\ \/ do_timerfd_create(t)
       \/ \E v \in InitVals : do_eventfd2(t, v)
       \/ do_epoll_create1(t)
       \/ \E i \in Fds : do_dup(t, i) \/ do_close(t, i) \/ do_read(t, i)
       \/ \E i \in Fds, n, v \in {0, 1} : do_timerfd_settime(t, i, n, v)
       \/ \E e, i \in Fds, op \in {"ADD", "MOD", "DEL"}, ev \in EventSets :
              do_epoll_ctl(t, e, i, op, ev)
       \/ \E e \in Fds, n \in MaxEvents, w \in Timeouts : EpollWait(t, e, n, w)
       \/ \E S \in PollSets, w \in Timeouts : do_ppoll(t, S, w) \/ do_pselect6(t, S, w)

Continue(t) ==
    /\ EpollDone(t) \/ PollDone(t) \/ Reported(t) \/ SettimeJoin(t) \/ CloseStop(t)
       \/ CloseJoin(t)
    /\ calls' = calls

TimerStep(o) == timerfd_thread(o) /\ calls' = calls

Next ==
    \/ \E t \in Tasks : TaskStep(t) \/ Continue(t)
    \/ \E o \in Objects : TimerStep(o)

\* A call that can go on goes on, and so does a timer thread: the host runs
\* its threads.  No guest has to make a call.
Spec ==
    /\ Init /\ [][Next]_vars
    /\ \A t \in Tasks : WF_vars(Continue(t))
    /\ \A o \in Objects : WF_vars(TimerStep(o))

-----------------------------------------------------------------------------
(* Properties. *)

\* A timer thread exists only as long as its object: it writes to the pipe made
\* for it, never to a descriptor that was closed or reused, and once a call
\* stopped the timer it is on its way out until that call has joined it.  The
\* thread runs against settime, close and the reuse of host descriptors.
ThreadOwned ==
    \A o \in Objects :
        (Up /\ objs[o].thread # "none") =>
            /\ objs[o].kind = "timer"
            /\ host[objs[o].wfd].end = "W"
            /\ Cardinality(Ends(host, PipeOf(o), "W")) = 1
            /\ \A q \in Objects \ {o} : objs[q].wfd # objs[o].wfd
            /\ objs[o].running \/ \E t \in Tasks :
                    task[t].obj = o /\ task[t].pc \in {"settime", "join"}

\* The descriptors the guest asked about that are ready now.
Ready(o) ==
    {a.fd : a \in {b \in objs[o].asked : poll(host, level, Real(b.fd), Wanted(b.events)) # {}}}

\* As long as no registered descriptor is closed and the list does not change
\* during the wait, epoll_pwait reports descriptors that are ready, and as many
\* as there are or as fit: additions, changes and removals, in any order and
\* from any thread, leave a list that says what the guest asked for.
ReportsReady ==
    [][\A t \in Tasks :
          (/\ task[t].pc = "epoll" /\ task'[t].pc = "return" /\ ~task[t].mixed
           /\ \A k \in 1..Len(Interest(task[t].obj)) : ~Interest(task[t].obj)[k].orphan)
          => /\ task'[t].out \subseteq Ready(task[t].obj)
             /\ Cardinality(task'[t].out) =
                    Min({task[t].max, Cardinality(Ready(task[t].obj))})]_vars

Stopping(t) == Up /\ task[t].pc \in {"settime", "close", "join"}
Blocked(t) == objs[task[t].obj].thread = "write" /\ Full(task[t].obj)

Expired(o) == objs[o].kind = "timer" /\ level[PipeOf(o)] > 0

\* t waits without a timeout for descriptors with that of the armed timer o.
AwaitsTimer(t, o) ==
    /\ Up /\ task[t].pc \in {"epoll", "ppoll", "pselect6"}
    /\ task[t].timeout = "infinite" /\ objs[o].running
    /\ \E i \in Fds, k \in 1..Len(task[t].pfds) :
          /\ fds[i].private = o /\ task[t].pfds[k].fd = fds[i].real_fd
          /\ "IN" \in task[t].pfds[k].events

\* timerfd_settime and close return, or wait for ever for a thread that is
\* blocked on a full pipe; an epoll_pwait, ppoll or pselect6 on an armed
\* timer returns, unless other threads keep draining the timer.
CallsReturn ==
    /\ \A t \in Tasks : [](Stopping(t) => <>(~Stopping(t) \/ []Blocked(t)))
    /\ \A t \in Tasks, o \in Objects :
          []((AwaitsTimer(t, o) /\ []AwaitsTimer(t, o)) =>
              ([]<>Expired(o) /\ []<>~Expired(o)))
=============================================================================
