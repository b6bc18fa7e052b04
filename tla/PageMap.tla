------------------------------- MODULE PageMap -------------------------------
(***************************************************************************)
(* What an address space promises the guest, page by page and with no      *)
(* region list, host buffer or reference count: a page is absent, or has a *)
(* protection and a content, and `req` is the call that is being answered. *)
(* Memory.tla is shown to implement it.                                    *)
(*                                                                         *)
(* Two departures from Linux are part of the promise, because the code     *)
(* makes them: in native mode a hole punched in the middle of a mapping    *)
(* zeroes the pages above it (Punched), and a grown break may bring back   *)
(* pages of the heap that the guest had unmapped (Grow).                   *)
(*                                                                         *)
(* Content is 0 (zero filled) or 1 (file bytes, or bytes somebody wrote).  *)
(***************************************************************************)
EXTENDS Integers, FiniteSets

CONSTANTS
    Pages,      \* the guest pages, an interval 0 .. n
    HeapBase,   \* the first page of the heap
    Prots,      \* the protections a mapping can have, sets of "r" and "w"
    Absent      \* the value of a page that is not mapped

VARIABLES
    page,       \* page -> Absent or [prot, val]
    native,     \* guest address = host address
    excused,    \* an allocation failed, or two mappings overlap: no promise
    req         \* the last call: [op, lo, hi, prot, val, flag]

pvars == <<page, native, excused, req>>

RW == {"r", "w"}

(* The operators below relate the pages before a call, o, to those after,  *)
(* n; each has the shape "these pages become this, all others stay".       *)

(* The pages of [lo, hi) vanish.  In native mode the pages from hi up to    *)
(* some k are zeroed when one mapping held a page below lo, the hole and    *)
(* those pages.                                                             *)
Punched(o, lo, hi) ==
    {[p \in Pages |-> CASE p \in lo .. hi - 1 -> Absent
                        [] p \in hi .. k - 1  -> [o[p] EXCEPT !.val = 0]
                        [] OTHER              -> o[p]]
        : k \in {j \in hi .. Cardinality(Pages) :
                    j > hi => /\ native
                              /\ lo - 1 \in Pages
                              /\ \A p \in lo - 1 .. j - 1 : o[p] # Absent}}

Unmap(o, n, lo, hi) == n \in Punched(o, lo, hi)

(* A mapping at lo, over whatever was there. *)
MapAt(o, n, lo, hi, prot, val) ==
    \E q \in Punched(o, lo, hi) :
        n = [p \in Pages |-> IF p \in lo .. hi - 1 THEN [prot |-> prot, val |-> val] ELSE q[p]]

(* A mapping of k pages where nothing was. *)
MapFree(o, n, k, prot, vals) ==
    \E lo \in Pages :
        /\ lo + k - 1 \in Pages
        /\ \A p \in Pages :
              IF p \in lo .. lo + k - 1
              THEN o[p] = Absent /\ n[p] \in [prot : {prot}, val : vals]
              ELSE n[p] = o[p]

Protect(o, n, lo, hi, prot) ==
    n = [p \in Pages |-> IF p \in lo .. hi - 1 /\ o[p] # Absent
                         THEN [o[p] EXCEPT !.prot = prot] ELSE o[p]]

Write(o, n, lo, hi) ==
    /\ \A p \in lo .. hi - 1 : o[p] # Absent /\ "w" \in o[p].prot
    /\ n = [p \in Pages |-> IF p \in lo .. hi - 1 THEN [o[p] EXCEPT !.val = 1] ELSE o[p]]

(* The break grows from lo to hi: the heap pages that were absent become    *)
(* zero, from the old break or from the bottom of the heap; a page added to *)
(* a mapping takes that mapping's protection.                               *)
Grow(o, n, lo, hi) ==
    \E prot \in Prots, from \in {lo, HeapBase} :
        n = [p \in Pages |-> IF p \in from .. hi - 1 /\ o[p] = Absent
                             THEN [prot |-> prot, val |-> 0] ELSE o[p]]

Break(o, n, lo, hi) ==
    IF native THEN n = o ELSE IF lo < hi THEN Grow(o, n, lo, hi) ELSE Unmap(o, n, hi, lo)

(* The k pages at lo move to the start of m pages where nothing was, or     *)
(* arrive there empty.                                                      *)
Move(o, n, lo, k, m) ==
    \E to \in Pages, q \in Punched(o, lo, lo + k), kept \in BOOLEAN :
        /\ to + m - 1 \in Pages
        /\ \A p \in to .. to + m - 1 : o[p] = Absent
        /\ kept => \A p \in lo .. lo + k - 1 : o[p] # Absent /\ "r" \in o[p].prot
        /\ n = [p \in Pages |->
                  IF p \in to .. to + m - 1
                  THEN [prot |-> RW, val |-> IF kept /\ p < to + k THEN o[lo + (p - to)].val ELSE 0]
                  ELSE q[p]]

(* [lo, hi) is to have m pages. *)
Remap(o, n, lo, hi, m, maymove) ==
    IF m = 0 \/ m = hi - lo THEN n = o
    ELSE IF m < hi - lo THEN Unmap(o, n, lo + m, hi)
    ELSE IF maymove THEN Move(o, n, lo, hi - lo, m)
    ELSE MapAt(o, n, hi, lo + m, RW, 0)

Answer(o, n, c) ==
    CASE c.op = "munmap"   -> Unmap(o, n, c.lo, c.hi)
      [] c.op = "mmap"     -> IF c.hi = c.lo THEN n = o
                              ELSE IF c.flag THEN MapAt(o, n, c.lo, c.hi, c.prot, c.val)
                              ELSE MapFree(o, n, c.hi - c.lo, c.prot, {c.val})
      [] c.op = "fb"       -> IF c.hi = c.lo THEN n = o ELSE MapFree(o, n, c.hi - c.lo, RW, {0, 1})
      [] c.op = "mprotect" -> Protect(o, n, c.lo, c.hi, c.prot)
      [] c.op = "brk"      -> Break(o, n, c.lo, c.hi)
      [] c.op = "mremap"   -> Remap(o, n, c.lo, c.hi, c.val, c.flag)
      [] c.op = "store"    -> Write(o, n, c.lo, c.hi)
      [] c.op = "fork"     -> n = o
      [] c.op = "exit"     -> n = o \/ n = [p \in Pages |-> Absent]

Init ==
    /\ page \in [Pages -> [prot : {RW}, val : {0}] \cup {Absent}]
    /\ native \in BOOLEAN
    /\ excused = FALSE

Next ==
    /\ native' = native
    /\ \/ excused'
       \/ ~excused /\ \E o \in {page}, n \in {page'} : Answer(o, n, req')

Spec == Init /\ [][Next]_pvars
=============================================================================
