------------------------------- MODULE Memory -------------------------------
(***************************************************************************)
(* Guest address spaces: emu/src/memory.c and the calls of sys_memory.c.   *)
(*                                                                         *)
(* A space is a sorted list of regions, each naming a run of host pages.   *)
(* In native mode (aot) the guest runs on the host's page tables, so a     *)
(* region sits at its own address and is given and taken back with the     *)
(* host's mmap and munmap; otherwise every region owns a calloc'd buffer.  *)
(* All spaces live in one host process and share `host`.                   *)
(*                                                                         *)
(* Requests are in bytes.  Region bounds are in pages, since every bound   *)
(* the code stores is a multiple of PAGE_SIZE (brk_base is one: execve     *)
(* sets it to the address of a host mapping).  Each call holds the space's *)
(* write lock from end to end, so each is one action; do_mremap, three     *)
(* calls in a row, is modelled for a space with one thread.                *)
(***************************************************************************)
EXTENDS Integers, Sequences, FiniteSets, SequencesExt

CONSTANTS
    PAGE_SIZE,  \* bytes in a page
    NGuest,     \* guest pages; no request reaches past them
    NFb,        \* pages of the framebuffer's pixel buffer
    NPool,      \* host pages the allocator can hand out
    BrkBase,    \* page of brk_base
    MmapStart,  \* page of MMAP_START
    HeapPages,  \* pages execve maps for the heap in native mode
    Addrs,      \* byte addresses the guest passes
    Sizes,      \* byte lengths the guest passes
    Brks,       \* breaks the guest asks for
    Modes,      \* the values of aot to start from
    MaxRegions, \* bound on the regions of a space
    MaxRefs,    \* bound on the tasks sharing a space
    MaxCalls,   \* bound on the calls of a behaviour
    ChildCalls, \* a forked child makes memory calls before it execs
    Absent      \* no page, no space

ASSUME MemoryAssumption ==
    /\ {PAGE_SIZE, NGuest, NFb, NPool, BrkBase, MmapStart, HeapPages, MaxRegions, MaxRefs, MaxCalls} \subseteq Nat
    /\ PAGE_SIZE > 0 /\ BrkBase > 0 /\ BrkBase + HeapPages <= NGuest
    /\ Addrs \subseteq Nat /\ Sizes \subseteq Nat /\ Brks \subseteq Nat
    /\ Modes \subseteq BOOLEAN /\ ChildCalls \in BOOLEAN

VARIABLES
    aot,        \* ms->aot_mode, the same for every space of a run
    space,      \* name -> Absent or [refs, regions, brk, next]
    host,       \* [mem, blocks, oom, misfree, clash], the host's memory
    calls,      \* calls made so far
    req         \* the last call, in pages: read by no action

mvars == <<aot, space, host, calls, req>>

(* The state without the record of the last call. *)
State == <<aot, space, host, calls>>

Guest == 0 .. NGuest - 1
Fb    == NGuest .. NGuest + NFb - 1
Pool  == NGuest + NFb .. NGuest + NFb + NPool - 1

RO == {"r"}
RW == {"r", "w"}
NULL == -1

page_align_down(a) == a \div PAGE_SIZE
page_align_up(a)   == (a + PAGE_SIZE - 1) \div PAGE_SIZE

Run(p, n) == p .. p + n - 1

------------------------------------------------------------------------------
(* The host.  mem[p] is Absent or the content and protection of host page   *)
(* p; blocks holds <<first page, pages>> of every live malloc block; oom    *)
(* records that an allocation failed, misfree that free() was given a       *)
(* pointer that is no live block, clash that the host placed a native       *)
(* mapping where a region that is not at its own address already was.       *)

host_mmap(H, p, n) ==
    [H EXCEPT !.mem = [q \in DOMAIN @ |->
        IF q \in Run(p, n) THEN [val |-> 0, prot |-> RW] ELSE @[q]]]

host_munmap(H, p, n) ==
    [H EXCEPT !.mem = [q \in DOMAIN @ |-> IF q \in Run(p, n) THEN Absent ELSE @[q]]]

host_mprotect(H, p, n, prot) ==
    [H EXCEPT !.mem = [q \in DOMAIN @ |->
        IF q \in Run(p, n) /\ @[q] # Absent THEN [@[q] EXCEPT !.prot = prot] ELSE @[q]]]

(* The runs of n free host pages in the area A. *)
Fits(H, A, n) == {p \in A : \A q \in Run(p, n) : q \in A /\ H.mem[q] = Absent}

(* calloc(1, n pages): [ptr, H].  A request for nothing gets a pointer too. *)
Granted(H, n, F) ==
    IF F = {}
    THEN [ptr |-> NULL, H |-> [H EXCEPT !.oom = TRUE]]
    ELSE [ptr |-> Min(F),
          H   |-> [host_mmap(H, Min(F), n) EXCEPT !.blocks = @ \cup {<<Min(F), n>>}]]

calloc(H, n) == Granted(H, Max({1, n}), Fits(H, Pool, Max({1, n})))

Release(H, B) ==
    [H EXCEPT !.blocks  = @ \ B,
              !.misfree = @ \/ B = {},
              !.mem     = [q \in DOMAIN @ |->
                             IF \E b \in B : q \in Run(b[1], b[2]) THEN Absent ELSE @[q]]]

free(H, ptr) == Release(H, {b \in H.blocks : b[1] = ptr})

memcpy(H, dst, src, n) ==
    [H EXCEPT !.mem = [q \in DOMAIN @ |->
        IF q \in Run(dst, n) THEN [@[q] EXCEPT !.val = H.mem[src + (q - dst)].val] ELSE @[q]]]

(* realloc(ptr, n pages) with its new pages cleared: the block may grow in  *)
(* place or move; c is the allocation made once the old block is free.      *)
Regrown(H, ptr, old, c) ==
    IF c.ptr = NULL
    THEN [ptr |-> NULL, H |-> [H EXCEPT !.oom = TRUE]]
    ELSE [c EXCEPT !.H.mem = [q \in DOMAIN @ |->
             IF q \in Run(c.ptr, old)
             THEN [@[q] EXCEPT !.val = H.mem[ptr + (q - c.ptr)].val] ELSE @[q]]]

realloc(H, ptr, old, n) == Regrown(H, ptr, old, calloc(free(H, ptr), n))

------------------------------------------------------------------------------
(* Regions.  ext is MEM_MAP_EXTERNAL, skip is MEM_MAP_SKIP_MPROTECT.        *)

Region(base, size, prot, ptr, ext, skip) ==
    [base |-> base, size |-> size, prot |-> prot, host |-> ptr, ext |-> ext, skip |-> skip]

End(r) == r.base + r.size
HostAt(r, p) == r.host + (p - r.base)
Overlap(r, t) == Max({r.base, t.base}) < Min({End(r), End(t)})

\* Variant: the new region goes last.
region_insertLast(L, r) == Append(L, r)

region_insert(L, r) ==
    InsertAt(L, Cardinality({i \in DOMAIN L :
                    \A j \in 1 .. i : L[j].base <= r.base}) + 1, r)

region_free_host(H, r) ==
    CASE r.ext -> H
      [] ~r.ext /\ aot -> host_munmap(H, r.host, r.size)
      [] OTHER -> free(H, r.host)

host_mprotect_region(H, r) ==
    IF ~aot \/ r.ext \/ r.skip THEN H ELSE host_mprotect(H, r.host, r.size, r.prot)

(* A buffer holding pages a .. b - 1 of region r: the pages themselves in   *)
(* native mode, a calloc'd copy otherwise.                                  *)
Copied(c, r, a, n) ==
    IF c.ptr = NULL THEN c ELSE [c EXCEPT !.H = memcpy(c.H, c.ptr, HostAt(r, a), n)]

Carve(H, r, a, b) ==
    IF aot THEN [ptr |-> HostAt(r, a), H |-> H] ELSE Copied(calloc(H, b - a), r, a, b - a)

------------------------------------------------------------------------------
(* unmap_range: one region of the walk, over [lo, hi).  The accumulator has *)
(* the regions passed (L), the tails split off and the host.                *)

(* The buffer of a tail.  In native mode mmap(MAP_FIXED) replaces the very  *)
(* pages the memcpy then reads.                                             *)
TailBuffer(H, r, hi) ==
    IF aot THEN Copied([ptr |-> hi, H |-> host_mmap(H, hi, End(r) - hi)], r, hi, End(r) - hi)
    ELSE Carve(H, r, hi, End(r))

SplitTail(acc, r, lo, hi, c) ==
    IF c.ptr = NULL
    THEN [acc EXCEPT !.L = Append(@, r), !.H = c.H]
    ELSE [acc EXCEPT !.L     = Append(@, [r EXCEPT !.size = lo - r.base]),
                     !.tails = Append(@, Region(hi, End(r) - hi, r.prot, c.ptr, FALSE, r.skip)),
                     !.H     = c.H]

Trimmed(r, hi, ptr) == [r EXCEPT !.base = hi, !.size = End(r) - hi, !.host = ptr]

\* Variant: the old buffer is not freed.
TrimStartLeaks(acc, r, hi, c) ==
    IF c.ptr = NULL THEN [acc EXCEPT !.L = Append(@, r), !.H = c.H]
    ELSE [acc EXCEPT !.L = Append(@, Trimmed(r, hi, c.ptr)), !.H = c.H]

TrimStart(acc, r, hi, c) ==
    IF c.ptr = NULL
    THEN [acc EXCEPT !.L = Append(@, r), !.H = c.H]
    ELSE [acc EXCEPT !.L = Append(@, Trimmed(r, hi, c.ptr)),
                     !.H = IF aot \/ r.ext THEN c.H ELSE free(c.H, r.host)]

UnmapRegion(acc, r, lo, hi) ==
    CASE End(r) <= lo \/ r.base >= hi -> [acc EXCEPT !.L = Append(@, r)]
      [] r.base >= lo /\ r.base < hi /\ End(r) > lo /\ End(r) <= hi ->
            [acc EXCEPT !.H = region_free_host(@, r)]
      [] r.base < lo /\ End(r) > hi -> SplitTail(acc, r, lo, hi, TailBuffer(acc.H, r, hi))
      [] r.base < lo /\ End(r) > lo /\ End(r) <= hi ->
            [acc EXCEPT !.L = Append(@, [r EXCEPT !.size = lo - r.base])]
      [] OTHER -> TrimStart(acc, r, hi, Carve(acc.H, r, hi, End(r)))

Unmapped(S, acc) ==
    [S |-> [S EXCEPT !.regions = FoldLeft(region_insert, acc.L, acc.tails)], H |-> acc.H]

unmap_range(S, H, lo, hi) ==
    LET step(acc, r) == UnmapRegion(acc, r, lo, hi)
    IN  Unmapped(S, FoldLeft(step, [L |-> <<>>, tails |-> <<>>, H |-> H], S.regions))

mem_munmap(S, H, addr, size) ==
    unmap_range(S, H, page_align_down(addr), page_align_down(addr) + page_align_up(size))

------------------------------------------------------------------------------
\* Variant: the last page of the gap is not tested.
FindGapShort(S, hint, n) ==
    Min({a \in hint .. Max({hint} \cup {End(r) : r \in Range(S.regions)}) :
            \A r \in Range(S.regions) : End(r) <= a \/ a + n <= r.base + 1})

(* The gap search: the least page, from the hint up, where n pages touch no *)
(* region.                                                                  *)
FindGap(S, hint, n) ==
    Min({a \in hint .. Max({hint} \cup {End(r) : r \in Range(S.regions)}) :
            \A r \in Range(S.regions) : End(r) <= a \/ a + n <= r.base})

Hint(S, addr) == IF addr = 0 THEN S.next ELSE page_align_up(addr)

Placed(S, H, r) == [S |-> [S EXCEPT !.regions = region_insert(@, r)], H |-> H, ret |-> r.base]
Failed(S, H)    == [S |-> S, H |-> H, ret |-> NULL]

(* pread() of the file into the new pages. *)
Fill(H, p, n, val) ==
    [H EXCEPT !.mem = [q \in DOMAIN @ |->
        IF q \in Run(p, n) THEN [@[q] EXCEPT !.val = val] ELSE @[q]]]

(* A region at page b over the buffer c. *)
PlaceBuffer(S, c, b, n, prot, val) ==
    IF c.ptr = NULL THEN Failed(S, c.H)
    ELSE Placed(S, Fill(c.H, c.ptr, n, val), Region(b, n, prot, c.ptr, FALSE, FALSE))

(* A native mapping at page p; clash when it lands on a region of S.        *)
HostBuffer(S, H, p, n) ==
    [ptr |-> p,
     H   |-> [host_mmap(H, p, n) EXCEPT
                !.clash = @ \/ \E t \in Range(S.regions) : t.base < p + n /\ p < End(t)]]

MapFixed(U, at, n, prot, val) ==
    PlaceBuffer(U.S, IF aot THEN HostBuffer(U.S, U.H, at, n) ELSE calloc(U.H, n), at, n, prot, val)

MapAnywhere(S, H, a, n, prot, val, pick) ==
    IF aot /\ pick # NULL
    THEN PlaceBuffer([S EXCEPT !.next = pick + n], HostBuffer(S, H, pick, n), pick, n, prot, val)
    ELSE PlaceBuffer([S EXCEPT !.next = a + n],
                     IF aot THEN [ptr |-> NULL, H |-> [H EXCEPT !.oom = TRUE]] ELSE calloc(H, n),
                     a, n, prot, val)

(* mem_mmap: [S, H, ret].  val is the content the file gives; pick is where *)
(* the host puts a native mapping it may place, NULL when it has no room.   *)
mem_mmap(S, H, addr, size, prot, fixed, val, pick) ==
    IF size = 0 THEN Failed(S, H)
    ELSE IF fixed
    THEN MapFixed(mem_munmap(S, H, addr, size), page_align_down(addr), page_align_up(size), prot, val)
    ELSE MapAnywhere(S, H, FindGap(S, Hint(S, addr), page_align_up(size)), page_align_up(size),
                     prot, val, pick)

(* Where the host may place n pages. *)
Picks(H, n) ==
    IF aot /\ Fits(H, Guest, n) # {} THEN Fits(H, Guest, n) ELSE {NULL}

mem_mmap_host(S, H, addr, n, prot, ptr, ext, skip) ==
    IF n = 0 THEN Failed(S, H)
    ELSE LET a == FindGap(S, Hint(S, addr), n)
         IN  Placed([S EXCEPT !.next = a + n], H, Region(a, n, prot, ptr, ext, skip))

------------------------------------------------------------------------------
(* mem_mprotect: one region of the walk.  Its first piece stays in r, the   *)
(* others are carved from it; a failed calloc stops the walk.               *)

Keep(acc, r, H) == [acc EXCEPT !.L = Append(@, r), !.H = H, !.stop = TRUE]

(* r is cut down to [base, to) and gets the buffer c of that size, if there *)
(* was memory for one.                                                      *)
Shrunk(r, to, c) ==
    [r |-> [r EXCEPT !.size = to - r.base, !.host = IF c.ptr = NULL THEN @ ELSE c.ptr],
     H |-> IF aot \/ c.ptr = NULL THEN c.H ELSE free(c.H, r.host)]

Piece(r, a, b, prot, ptr) == Region(a, b - a, prot, ptr, r.ext, r.skip)

Protected(acc, first, rest, changed) ==
    [acc EXCEPT !.L = @ \o <<first.r>> \o rest, !.H = host_mprotect_region(first.H, changed)]

MiddleRest(acc, r, os, oe, prot, mid, tail) ==
    IF oe < End(r) /\ tail.ptr = NULL THEN Keep(acc, r, free(tail.H, mid.ptr))
    ELSE Protected(acc, Shrunk(r, os, Carve(tail.H, r, r.base, os)),
             <<Piece(r, os, oe, prot, mid.ptr)>> \o
                 (IF oe < End(r) THEN <<Piece(r, oe, End(r), r.prot, tail.ptr)>> ELSE <<>>),
             Piece(r, os, oe, prot, mid.ptr))

ProtectMiddle(acc, r, os, oe, prot, mid) ==
    IF mid.ptr = NULL THEN Keep(acc, r, mid.H)
    ELSE MiddleRest(acc, r, os, oe, prot, mid,
             IF oe < End(r) THEN Carve(mid.H, r, oe, End(r)) ELSE mid)

\* Variant: the pages above the range get the new protection too.
ProtectStartAll(acc, r, oe, prot, tail) ==
    IF tail.ptr = NULL THEN Keep(acc, r, tail.H)
    ELSE Protected(acc, Shrunk([r EXCEPT !.prot = prot], oe, Carve(tail.H, r, r.base, oe)),
             <<Piece(r, oe, End(r), prot, tail.ptr)>>, Piece(r, r.base, oe, prot, r.host))

ProtectStart(acc, r, oe, prot, tail) ==
    IF tail.ptr = NULL THEN Keep(acc, r, tail.H)
    ELSE Protected(acc, Shrunk([r EXCEPT !.prot = prot], oe, Carve(tail.H, r, r.base, oe)),
             <<Piece(r, oe, End(r), r.prot, tail.ptr)>>, Piece(r, r.base, oe, prot, r.host))

ProtectPart(acc, r, os, oe, prot) ==
    CASE os = r.base /\ oe = End(r) ->
            [acc EXCEPT !.L = Append(@, [r EXCEPT !.prot = prot]),
                        !.H = host_mprotect_region(@, [r EXCEPT !.prot = prot])]
      [] os > r.base -> ProtectMiddle(acc, r, os, oe, prot, Carve(acc.H, r, os, oe))
      [] OTHER       -> ProtectStart(acc, r, oe, prot, Carve(acc.H, r, oe, End(r)))

mem_mprotect(S, H, addr, size, prot) ==
    LET lo == page_align_down(addr)
        hi == lo + page_align_up(size)
        step(acc, r) ==
            IF acc.stop \/ End(r) <= lo \/ r.base >= hi
            THEN [acc EXCEPT !.L = Append(@, r)]
            ELSE ProtectPart(acc, r, Max({lo, r.base}), Min({hi, End(r)}), prot)
        done(acc) == [S |-> [S EXCEPT !.regions = acc.L], H |-> acc.H]
    IN  done(FoldLeft(step, [L |-> <<>>, H |-> H, stop |-> FALSE], S.regions))

------------------------------------------------------------------------------
(* mem_brk.  addr is in bytes; S.brk is the unrounded break.                *)

(* Region i of the heap, which ends at the old break, grows by g pages.     *)
HeapGrown(S, H, addr, i, g, c) ==
    IF c.ptr = NULL THEN [S |-> S, H |-> c.H]
    ELSE [S |-> [S EXCEPT !.brk = addr, !.regions[i].size = @ + g, !.regions[i].host = c.ptr],
          H |-> c.H]

HeapCreated(S, addr, new, c) ==
    IF c.ptr = NULL THEN [S |-> S, H |-> c.H]
    ELSE [S |-> [S EXCEPT !.brk = addr,
                          !.regions = region_insert(@,
                              Region(BrkBase, new - BrkBase, RW, c.ptr, FALSE, FALSE))],
          H |-> c.H]

BrkGrow(S, H, addr, new, top, I) ==
    CASE new = top -> [S |-> [S EXCEPT !.brk = addr], H |-> H]
      [] new # top /\ aot -> [S |-> S, H |-> H]
      [] new # top /\ ~aot /\ I # {} ->
            LET r == S.regions[Min(I)]
            IN  HeapGrown(S, H, addr, Min(I), new - top,
                          realloc(H, r.host, r.size, r.size + (new - top)))
      [] OTHER -> HeapCreated(S, addr, new, calloc(H, new - BrkBase))

BrkTo(S, H, addr, new, top) ==
    CASE addr < BrkBase * PAGE_SIZE -> [S |-> S, H |-> H]
      [] addr >= BrkBase * PAGE_SIZE /\ new * PAGE_SIZE > S.brk ->
            BrkGrow(S, H, addr, new, top,
                {i \in DOMAIN S.regions : End(S.regions[i]) = top /\ S.regions[i].base >= BrkBase})
      [] addr >= BrkBase * PAGE_SIZE /\ new < top ->
            unmap_range([S EXCEPT !.brk = addr], H, new, top)
      [] OTHER -> [S |-> [S EXCEPT !.brk = addr], H |-> H]

mem_brk(S, H, addr) == BrkTo(S, H, addr, page_align_up(addr), page_align_up(S.brk))

(* mem_translate: the host page of guest page p when n pages from p lie in  *)
(* the first region that holds them all and its protection allows it.       *)
InFirst(S, I, p, prot) ==
    IF I = {} THEN NULL
    ELSE IF prot \subseteq S.regions[Min(I)].prot THEN HostAt(S.regions[Min(I)], p) ELSE NULL

mem_translate(S, p, n, prot) ==
    InFirst(S, {i \in DOMAIN S.regions : S.regions[i].base <= p /\ p + n <= End(S.regions[i])},
            p, prot)

------------------------------------------------------------------------------
(* do_mremap.  m is the new mapping: what can be read of the old one is     *)
(* copied to it, and the old one unmapped.                                  *)
MoveData(H, src, dst, n) == IF src # NULL /\ dst # NULL THEN memcpy(H, dst, src, n) ELSE H

Moved(m, addr, old) ==
    IF m.ret = NULL THEN m
    ELSE mem_munmap(m.S,
             MoveData(m.H, mem_translate(m.S, page_align_down(addr), page_align_up(old), {"r"}),
                      mem_translate(m.S, m.ret, page_align_up(old), {"w"}), page_align_up(old)),
             addr, old)

do_mremap(S, H, addr, old, new, maymove, pick) ==
    CASE new = 0 \/ new = old  -> Failed(S, H)
      [] new > 0 /\ new < old  -> mem_munmap(S, H, addr + new, old - new)
      [] OTHER                 ->
            IF maymove
            THEN Moved(mem_mmap(S, H, 0, new, RW, FALSE, 0, pick), addr, old)
            ELSE mem_mmap(S, H, addr + old, new - old, RW, TRUE, 0, NULL)

------------------------------------------------------------------------------
(* A request in pages, and one of size bytes at addr. *)
Req(op, lo, hi, prot, val, flag) ==
    [op |-> op, lo |-> lo, hi |-> hi, prot |-> prot, val |-> val, flag |-> flag]

Bytes(op, addr, size, prot, val, flag) ==
    Req(op, page_align_down(addr), page_align_down(addr) + page_align_up(size), prot, val, flag)

Names == {"parent", "child"}

(* A fresh host, and a space as mem_space_create leaves it; in native mode  *)
(* execve then maps the heap and registers it with SKIP_MPROTECT.           *)
EmptyHost ==
    [mem     |-> [p \in 0 .. NGuest + NFb + NPool - 1 |->
                    IF p \in Fb THEN [val |-> 0, prot |-> RW] ELSE Absent],
     blocks  |-> {}, oom |-> FALSE, misfree |-> FALSE, clash |-> FALSE]

mem_space_create == [refs |-> 1, regions |-> <<>>, brk |-> BrkBase * PAGE_SIZE, next |-> MmapStart]

Init ==
    /\ aot \in Modes
    /\ calls = 0
    /\ req = Req("fork", 0, 0, RW, 0, FALSE)
    /\ LET heap == mem_mmap_host([mem_space_create EXCEPT !.next = BrkBase],
                       host_mmap(EmptyHost, BrkBase, HeapPages),
                       0, HeapPages, RW, BrkBase, FALSE, TRUE)
       IN  /\ space = [s \in Names |-> CASE s = "child" -> Absent
                                         [] s # "child" /\ aot -> heap.S
                                         [] OTHER -> mem_space_create]
           /\ host = IF aot THEN heap.H ELSE EmptyHost

(* The tasks of s can make a call: the parent waits while a forked child    *)
(* has not exec'd or ended.                                                 *)
Runs(s) ==
    /\ calls < MaxCalls
    /\ space[s] # Absent
    /\ s = "parent" => space["child"] = Absent
    /\ s = "child" => ChildCalls

(* The call c of space s ends in R. *)
Becomes(s, R, c) ==
    /\ Len(R.S.regions) <= MaxRegions
    /\ R.S.next <= NGuest
    /\ space' = [space EXCEPT ![s] = R.S]
    /\ host' = R.H
    /\ req' = c
    /\ calls' = calls + 1
    /\ UNCHANGED aot

InRange(addr, size) == page_align_down(addr) + page_align_up(size) <= NGuest

(* do_mmap of anonymous memory, read-write, or of a regular file,          *)
(* read-only.  In native mode the host ignores a hint.                      *)
Mappings == {[prot |-> RW, val |-> 0], [prot |-> RO, val |-> 1]}

Mmap(s) ==
    /\ Runs(s)
    /\ \E addr \in Addrs, size \in Sizes, m \in Mappings, fixed \in BOOLEAN :
        /\ InRange(addr, size)
        /\ ~fixed /\ aot => addr = 0
        /\ ~fixed /\ ~aot /\ size > 0 =>
              FindGap(space[s], Hint(space[s], addr), page_align_up(size)) + page_align_up(size)
                  <= NGuest
        /\ \E pick \in Picks(host, page_align_up(size)) :
              Becomes(s, mem_mmap(space[s], host, addr, size, m.prot, fixed, m.val, pick),
                      Bytes("mmap", addr, size, m.prot, m.val, fixed))

(* do_mmap of /dev/fb0, whose buffer is mapped at most once at a time. *)
MmapFb(s) ==
    /\ Runs(s)
    /\ aot
    /\ \A r \in Range(space[s].regions) : r.host \notin Fb
    /\ \E addr \in Addrs, size \in Sizes :
        LET len == Min({size, NFb * PAGE_SIZE})
            n   == page_align_up(len)
        IN  /\ FindGap(space[s], Hint(space[s], addr), n) + n <= NGuest
            /\ Becomes(s, mem_mmap_host(space[s], host, addr, n, RW, NGuest, TRUE, FALSE),
                       Bytes("fb", 0, len, RW, 0, FALSE))

Munmap(s) ==
    /\ Runs(s)
    /\ \E addr \in Addrs, size \in Sizes :
        InRange(addr, size) /\ Becomes(s, mem_munmap(space[s], host, addr, size),
                                       Bytes("munmap", addr, size, RW, 0, FALSE))

Mprotect(s) ==
    /\ Runs(s)
    /\ \E addr \in Addrs, size \in Sizes, prot \in {RO, RW} :
        InRange(addr, size) /\ Becomes(s, mem_mprotect(space[s], host, addr, size, prot),
                                       Bytes("mprotect", addr, size, prot, 0, FALSE))

Brk(s) ==
    /\ Runs(s)
    /\ \E addr \in Brks :
        Becomes(s, mem_brk(space[s], host, addr),
                Req("brk", page_align_up(space[s].brk),
                    page_align_up(IF addr < BrkBase * PAGE_SIZE THEN space[s].brk ELSE addr),
                    RW, 0, FALSE))

(* do_mremap of a mapped range of whole pages. *)
WholePages == {p * PAGE_SIZE : p \in 0 .. 3}

Mremap(s) ==
    /\ Runs(s)
    /\ \E addr, old, new \in WholePages, maymove \in BOOLEAN :
        /\ old > 0 /\ (maymove => new > old)
        /\ \A p \in Run(page_align_down(addr), page_align_up(old)) :
              mem_translate(space[s], p, 1, {}) # NULL
        /\ InRange(addr, old) /\ InRange(addr, new)
        /\ ~aot /\ maymove /\ new > old =>
              FindGap(space[s], space[s].next, page_align_up(new)) + page_align_up(new) <= NGuest
        /\ \E pick \in Picks(host, page_align_up(new)) :
              Becomes(s, do_mremap(space[s], host, addr, old, new, maymove, pick),
                      Bytes("mremap", addr, old, RW, page_align_up(new), maymove))

(* mem_copy_to: the emulator or the interpreted guest writes n pages. *)
Store(s) ==
    /\ Runs(s)
    /\ \E p \in Guest, n \in 1 .. 2 :
        LET q == mem_translate(space[s], p, n, {"w"})
        IN  /\ q # NULL
            /\ host' = Fill(host, q, n, 1)
            /\ req' = Req("store", p, p + n, RW, 1, FALSE)
    /\ calls' = calls + 1
    /\ UNCHANGED <<aot, space>>

(* fork: the child gets the parent's regions, all EXTERNAL. *)
mem_space_clone ==
    /\ aot
    /\ Runs("parent")
    /\ space' = [space EXCEPT !["child"] =
                   [space["parent"] EXCEPT
                       !.refs = 1,
                       !.regions = [i \in DOMAIN @ |-> [@[i] EXCEPT !.ext = TRUE]]]]
    /\ calls' = calls + 1
    /\ req' = Req("fork", 0, 0, RW, 0, FALSE)
    /\ UNCHANGED <<aot, host>>

(* clone(CLONE_VM): one more task uses the space. *)
mem_space_ref(s) ==
    /\ Runs(s)
    /\ space[s].refs < MaxRefs
    /\ space' = [space EXCEPT ![s].refs = @ + 1]
    /\ calls' = calls + 1
    /\ req' = Req("fork", 0, 0, RW, 0, FALSE)
    /\ UNCHANGED <<aot, host>>

(* A task leaves the space, by exit or by exec; the last one frees it. *)
mem_space_destroy(s) ==
    /\ space[s] # Absent
    /\ s = "parent" => space["child"] = Absent
    /\ IF space[s].refs > 1
       THEN /\ space' = [space EXCEPT ![s].refs = @ - 1]
            /\ UNCHANGED host
       ELSE /\ space' = [space EXCEPT ![s] = Absent]
            /\ host' = FoldLeft(region_free_host, host, space[s].regions)
    /\ req' = Req("exit", 0, 0, RW, 0, FALSE)
    /\ UNCHANGED <<aot, calls>>

Next ==
    \/ \E s \in Names :
          \/ Mmap(s) \/ MmapFb(s) \/ Munmap(s) \/ Mprotect(s) \/ Brk(s) \/ Mremap(s)
          \/ Store(s) \/ mem_space_ref(s) \/ mem_space_destroy(s)
    \/ mem_space_clone

Spec == Init /\ [][Next]_mvars

------------------------------------------------------------------------------
Live == {s \in Names : space[s] # Absent}
Regions(s) == Range(space[s].regions)

(* The type of the state, and the shape of every region list: sorted by     *)
(* base, as region_insert and the walks of unmap_range and mem_mprotect     *)
(* expect it, whatever was split, trimmed or inserted.                      *)
TypeOK ==
    /\ aot \in BOOLEAN
    /\ calls \in 0 .. MaxCalls
    /\ \A s \in Live :
          /\ space[s].refs \in 1 .. MaxRefs
          /\ \A r \in Regions(s) :
                /\ r.base \in 0 .. NGuest /\ r.size \in 0 .. NGuest - r.base
                /\ r.prot \in {RO, RW} /\ r.ext \in BOOLEAN /\ r.skip \in BOOLEAN
          /\ \A i, j \in DOMAIN space[s].regions :
                i < j => space[s].regions[i].base <= space[s].regions[j].base
    /\ \A p \in DOMAIN host.mem :
          host.mem[p] = Absent \/ host.mem[p] \in [val : {0, 1}, prot : {RO, RW}]

Disjoint ==
    \A s \in Live : \A i, j \in DOMAIN space[s].regions :
        i < j => ~Overlap(space[s].regions[i], space[s].regions[j])

(* No two regions overlap, and none did for a moment inside a call. *)
Clear == Disjoint /\ ~host.clash

(* No call makes two regions of a space overlap, so that mem_translate and  *)
(* the hardware agree on what an address names, save three: the             *)
(* interpreter's mem_brk, which extends the heap without looking at what    *)
(* follows it; a native mmap that the host places where the framebuffer,    *)
(* which is not at its own address, already is; and a MAP_FIXED mmap whose  *)
(* unmap_range had no memory to split or trim what was there.               *)
OverlapOnly == [][\/ Disjoint' \/ host'.clash \/ host'.oom
                  \/ ~aot /\ \E s \in Live : Brk(s)]_mvars

(* Every page of r is a live host page that grants at least what the region *)
(* promises, and in native mode lies at its own address.                    *)
Backed(r) ==
    /\ \A p \in Run(r.base, r.size) :
          host.mem[HostAt(r, p)] # Absent /\ r.prot \subseteq host.mem[HostAt(r, p)].prot
    /\ aot /\ r.host \notin Fb => r.host = r.base

(* The regions and the host's memory agree after any sequence of splits,    *)
(* trims and failed allocations: every region is backed; free() is only     *)
(* given live blocks; and an interpreter's block belongs to exactly one     *)
(* region that fits in it, so that nothing leaks and nothing is freed twice.*)
HostSound ==
    /\ ~host.misfree
    /\ Clear => \A s \in Live : \A r \in Regions(s) : Backed(r)
    /\ ~aot =>
          /\ \A b \in host.blocks :
                Cardinality({x \in Live \X (1 .. MaxRegions) :
                    /\ x[2] \in DOMAIN space[x[1]].regions
                    /\ space[x[1]].regions[x[2]].host = b[1]}) = 1
          /\ \A s \in Live : \A r \in Regions(s) :
                \E b \in host.blocks : r.host = b[1] /\ r.size <= b[2]

------------------------------------------------------------------------------
(* The pages of the parent, as mem_translate finds them one at a time. *)
PageOf(I, p) ==
    IF I = {} THEN Absent
    ELSE LET r == space["parent"].regions[Min(I)]
         IN  IF host.mem[HostAt(r, p)] = Absent THEN Absent
             ELSE [prot |-> r.prot, val |-> host.mem[HostAt(r, p)].val]

View ==
    [p \in Guest |->
        IF space["parent"] = Absent THEN Absent
        ELSE PageOf({i \in DOMAIN space["parent"].regions :
                        p \in Run(space["parent"].regions[i].base, space["parent"].regions[i].size)}, p)]

Abstract == INSTANCE PageMap WITH
    Pages <- Guest, HeapBase <- BrkBase, Prots <- {RO, RW}, page <- View, native <- aot,
    excused <- host.oom \/ ~Clear

(* The region lists implement the page map: whatever the guest calls, each  *)
(* of its pages keeps its protection and content unless the call names it,  *)
(* through every split, copy and move of buffers; a fork and the end of its *)
(* child change nothing.  Nothing is promised once an allocation failed or  *)
(* regions overlap.                                                         *)
Implements == Abstract!Spec

(* What the comment on mem_mmap_host says of fork: "a child never frees     *)
(* memory owned by its parent".                                             *)
ChildNeverFrees ==
    "parent" \in Live =>
        \A r \in Regions("parent") : \A p \in Run(r.base, r.size) : host.mem[HostAt(r, p)] # Absent

==============================================================================
