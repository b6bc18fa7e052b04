----------------------------- MODULE LoadStore -----------------------------
(***************************************************************************)
(* The memory side of the instruction interpreter: the software TLB of     *)
(* cpu.h and the loads and stores of exec_ldst.c.                          *)
(*                                                                         *)
(* cpu.mem is the address space as the interpreter sees it: a set of       *)
(* regions [base, size, prot, host] and the bytes of the host, a function  *)
(* from host addresses to words of BLEN bits.  A byte count is written as  *)
(* in the code: 1, 2, 4 or 8 bytes, of which 8 make an X register.         *)
(***************************************************************************)
EXTENDS Cpu, Sequences, TLC

CONSTANTS
    PSHIFT,     \* log2 of the bytes of a TLB page (TLB_PAGE_SHIFT, 12)
    TLB_BITS    \* log2 of the number of TLB entries (4)

TLB_SIZE == 2^TLB_BITS
Page(addr) == addr - (addr % 2^PSHIFT)
TlbIndex(addr) == (addr \div 2^PSHIFT) % TLB_SIZE

-----------------------------------------------------------------------------
(* Translation.  A lookup yields the set of the host addresses it finds,   *)
(* at most one.                                                            *)

NoTag == -1
cpu_tlb_flush(cpu) ==
    [cpu EXCEPT !.tlb = [k \in 0..(TLB_SIZE - 1) |->
                            [tag |-> NoTag, host |-> 0, prot |-> "R"]]]

\* Variant: the check that the access stays on its page is missing.
cpu_tlb_lookupCrosses(cpu, addr, n, prot) ==
    {e.host + (addr - Page(addr)) :
        e \in {f \in {cpu.tlb[TlbIndex(addr)]} :
                  f.tag = Page(addr) /\ f.prot = prot}}

cpu_tlb_lookup(cpu, addr, n, prot) ==
    {e.host + (addr - Page(addr)) :
        e \in {f \in {cpu.tlb[TlbIndex(addr)]} :
                  /\ Page(addr + n - 1) = Page(addr)
                  /\ f.tag = Page(addr) /\ f.prot = prot}}

cpu_tlb_insert(cpu, addr, host, prot) ==
    [cpu EXCEPT !.tlb[TlbIndex(addr)] =
        [tag |-> Page(addr), host |-> host - (addr - Page(addr)), prot |-> prot]]

mem_translate(mem, addr, n, prot) ==
    {r.host + (addr - r.base) :
        r \in {q \in mem.regions : /\ q.base <= addr
                                   /\ addr + n <= q.base + q.size
                                   /\ prot \in q.prot}}

\* [p, cpu]: where the access goes, and the TLB after it.
Inserted(cpu, addr, prot, found) ==
    [p |-> found, cpu |-> IF found = {} THEN cpu
                          ELSE cpu_tlb_insert(cpu, addr, CHOOSE h \in found : TRUE, prot)]

OnMiss(cpu, addr, n, prot, hit) ==
    IF hit /= {} THEN [p |-> hit, cpu |-> cpu]
    ELSE Inserted(cpu, addr, prot, mem_translate(cpu.mem, addr, n, prot))

cpu_mem_ptr(cpu, addr, n, prot) ==
    OnMiss(cpu, addr, n, prot, cpu_tlb_lookup(cpu, addr, n, prot))

\* [ok, val, cpu]: little-endian reads and writes of n bytes.
RECURSIVE BytesAt(_, _, _)
BytesAt(bytes, h, n) ==
    IF n = 0 THEN 0 ELSE bytes[h] + 2^BLEN * BytesAt(bytes, h + 1, n - 1)

ReadVia(t, n) ==
    [ok |-> t.p /= {}, cpu |-> t.cpu,
     val |-> IF t.p = {} THEN 0
             ELSE BytesAt(t.cpu.mem.bytes, CHOOSE h \in t.p : TRUE, n)]
cpu_mem_read(cpu, addr, n) == ReadVia(cpu_mem_ptr(cpu, addr, n, "R"), n)

Poke(cpu, h, n, val) ==
    [cpu EXCEPT !.mem.bytes =
        [a \in h..(h + n - 1) |-> Low(shr(val, BLEN * (a - h)), BLEN)] @@ @]

WriteVia(t, n, val) ==
    [ok |-> t.p /= {}, val |-> 0,
     cpu |-> IF t.p = {} THEN t.cpu
             ELSE Poke(t.cpu, CHOOSE h \in t.p : TRUE, n, val)]
cpu_mem_write(cpu, addr, n, val) ==
    WriteVia(cpu_mem_ptr(cpu, addr, n, "W"), n, val)

-----------------------------------------------------------------------------
(* One access (do_load, do_store). *)

\* Addresses are numbers below 2^XLEN.
Addr(n) == Low(n, XLEN)
Fault(cpu) == Stop("SEGFAULT", cpu)

\* Steps of an instruction that makes several accesses: each runs only when
\* the ones before it succeeded.
VGot(a, rt, d) ==
    IF a.ok THEN Done([a.cpu EXCEPT !.v[rt][d] = a.val]) ELSE Fault(a.cpu)
VRead(r, addr, n, rt, d) ==
    IF r.rc = "OK" THEN VGot(cpu_mem_read(r.cpu, addr, n), rt, d) ELSE r

Stored(a) == IF a.ok THEN Done(a.cpu) ELSE Fault(a.cpu)
VWrite(r, addr, n, rt, d) ==
    IF r.rc = "OK" THEN Stored(cpu_mem_write(r.cpu, addr, n, r.cpu.v[rt][d])) ELSE r

Clear(cpu, rt) == [cpu EXCEPT !.v[rt] = <<0, 0>>]

\* A vector register of 2^scale bytes: 16 bytes are two accesses.
VLoad(r, addr, scale, rt) ==
    IF scale < 4 THEN VRead(r, addr, 2^scale, rt, 1)
    ELSE VRead(VRead(r, addr, 8, rt, 1), Addr(addr + 8), 8, rt, 2)
VStore(r, addr, scale, rt) ==
    IF scale < 4 THEN VWrite(r, addr, 2^scale, rt, 1)
    ELSE VWrite(VWrite(r, addr, 8, rt, 1), Addr(addr + 8), 8, rt, 2)

\* The value a load of n bytes puts into the register.
Loaded(val, size, opc) ==
    CASE opc = 1 -> val
      [] opc = 2 -> sign_extend(val, BLEN * 2^size)
      [] OTHER -> Low(sign_extend(val, BLEN * 2^size), WLEN)

LoadInto(a, rt, size, opc) ==
    IF a.ok THEN Done(cpu_set_xreg(a.cpu, rt, Loaded(a.val, size, opc)))
            ELSE Fault(a.cpu)

do_load(cpu, addr, size, opc, rt, V) ==
    IF V THEN CASE opc = 1 -> VLoad(Done(Clear(cpu, rt)), addr, size, rt)
                [] size = 0 /\ opc = 3 -> VLoad(Done(Clear(cpu, rt)), addr, 4, rt)
                [] OTHER -> Fault(Clear(cpu, rt))
    ELSE IF opc = 1 \/ (opc = 2 /\ size < 3) \/ (opc = 3 /\ size < 2)
    THEN LoadInto(cpu_mem_read(cpu, addr, 2^size), rt, size, opc)
    ELSE Fault(cpu)

do_store(cpu, addr, size, opc, rt, V) ==
    IF V THEN CASE opc = 0 -> VStore(Done(cpu), addr, size, rt)
                [] size = 0 /\ opc = 2 -> VStore(Done(cpu), addr, 4, rt)
                [] OTHER -> Fault(cpu)
    ELSE Stored(cpu_mem_write(cpu, addr, 2^size, cpu_xreg(cpu, rt)))

IsLoad(i) == IF i.V THEN i.opc \in {1, 3} ELSE i.opc /= 0

Access(cpu, i, addr) ==
    IF IsLoad(i) THEN do_load(cpu, addr, i.size, i.opc, i.rt, i.V)
                 ELSE do_store(cpu, addr, i.size, i.opc, i.rt, i.V)

-----------------------------------------------------------------------------
(* Addressing modes (exec_ldst.c). *)

SetBase(cpu, r, n) == cpu_set_xreg_sp(cpu, r, Low(n, XLEN))

\* The log2 of the bytes of an access: 16 bytes are size 0 with opc 2 or 3.
ScaleOf(i) == IF i.V /\ i.size = 0 /\ i.opc >= 2 THEN 4 ELSE i.size

exec_ldst_unsigned_offset(cpu, i) ==
    Access(cpu, i, Addr(cpu_xreg_sp(cpu, i.rn) + i.imm12 * 2^ScaleOf(i)))

\* Post-index adds to the base register as the access left it.
WriteBack(r, idx, rn, addr, imm) ==
    IF r.rc /= "OK" THEN r
    ELSE CASE idx = "post" -> Done(SetBase(r.cpu, rn, cpu_xreg_sp(r.cpu, rn) + imm))
           [] idx = "pre" -> Done(SetBase(r.cpu, rn, addr))
           [] OTHER -> r

exec_ldst_imm9(cpu, i) ==
    LET imm9 == S(i.imm9, OFF)
        addr == Addr(cpu_xreg_sp(cpu, i.rn) + IF i.idx = "post" THEN 0 ELSE imm9)
    IN  IF i.idx = "none" THEN Stop("ERR", cpu)
        ELSE WriteBack(Access(cpu, i, addr), i.idx, i.rn, addr, imm9)

exec_ldst_reg_offset(cpu, i) ==
    Access(cpu, i, Addr(cpu_xreg_sp(cpu, i.rn)
        + extend_reg(cpu, i.rm, i.option, IF i.S THEN ScaleOf(i) ELSE 0)))

\* LDP and STP; the bytes of an element are 2^scale.
PairScale(i) == IF i.V THEN 2 + i.opc ELSE IF i.opc = 2 THEN 3 ELSE 2

LoadPair(first, second, i) ==
    IF ~(first.ok /\ second.ok) THEN Fault(second.cpu)
    ELSE LET ext == IF i.opc = 1 THEN 2 ELSE 1
         IN  Done(cpu_set_xreg(
                 cpu_set_xreg(second.cpu, i.rt, Loaded(first.val, 2, ext)),
                 i.rt2, Loaded(second.val, 2, ext)))

\* The second read is only made when the first succeeded.
ThenRead(first, addr, n) ==
    IF first.ok THEN cpu_mem_read(first.cpu, addr, n) ELSE first
ThenWrite(first, addr, n, val) ==
    IF first.ok THEN cpu_mem_write(first.cpu, addr, n, val) ELSE first

ReadPair(first, i, addr, n) == LoadPair(first, ThenRead(first, Addr(addr + n), n), i)

PairAccess(cpu, i, addr, n, scale) ==
    CASE i.V /\ i.opc = 3 ->
            Stop("UNIMPL", IF i.L THEN Clear(Clear(cpu, i.rt), i.rt2) ELSE cpu)
      [] i.V /\ i.opc < 3 /\ i.L ->
            VLoad(VLoad(Done(Clear(Clear(cpu, i.rt), i.rt2)), addr, scale, i.rt),
                  Addr(addr + n), scale, i.rt2)
      [] i.V /\ i.opc < 3 /\ ~i.L ->
            VStore(VStore(Done(cpu), addr, scale, i.rt), Addr(addr + n), scale, i.rt2)
      [] ~i.V /\ i.L /\ i.opc < 3 -> ReadPair(cpu_mem_read(cpu, addr, n), i, addr, n)
      [] ~i.V /\ ~i.L /\ i.opc \in {0, 2} ->
            Stored(ThenWrite(cpu_mem_write(cpu, addr, n, cpu_xreg(cpu, i.rt)),
                             Addr(addr + n), n, cpu_xreg(cpu, i.rt2)))
      [] OTHER -> Stop("UNIMPL", cpu)

exec_ldst_pair(cpu, i) ==
    LET scale == PairScale(i)
        offset == S(i.imm7, OFF) * 2^scale
        addr == Addr(cpu_xreg_sp(cpu, i.rn) + IF i.idx = "post" THEN 0 ELSE offset)
    IN  IF i.idx = "none" THEN Stop("UNIMPL", cpu)
        ELSE WriteBack(PairAccess(cpu, i, addr, 2^scale, scale),
                       i.idx, i.rn, addr, offset)

exec_ldst_literal(cpu, i) ==
    LET addr == Addr(cpu.pc + 4 * S(i.imm, OFF))
    IN  IF i.V
        THEN IF i.opc = 3 THEN Stop("UNIMPL", Clear(cpu, i.rt))
             ELSE VLoad(Done(Clear(cpu, i.rt)), addr, 2 + i.opc, i.rt)
        ELSE CASE i.opc = 0 -> LoadInto(cpu_mem_read(cpu, addr, 4), i.rt, 2, 1)
               [] i.opc = 1 -> LoadInto(cpu_mem_read(cpu, addr, 8), i.rt, 3, 1)
               [] i.opc = 2 -> LoadInto(cpu_mem_read(cpu, addr, 4), i.rt, 2, 2)
               [] OTHER -> Stop("UNIMPL", cpu)

\* LDXR, STXR, LDAXR, STLXR, LDAR and STLR.  The monitor belongs to this CPU
\* and remembers an address; the value it also remembers is never compared.
StoreExclusive(a, rs) ==
    IF a.ok THEN Done([cpu_set_xreg(a.cpu, rs, 0) EXCEPT !.excl.active = FALSE])
            ELSE Fault(a.cpu)

LoadExclusive(a, i) ==
    IF a.ok THEN Done([cpu_set_xreg(a.cpu, i.rt, a.val) EXCEPT !.excl.val = a.val])
            ELSE Fault(a.cpu)

exec_ldst_exclusive(cpu, i) ==
    LET addr == cpu_xreg_sp(cpu, i.rn)
        n == 2^i.size
        armed == cpu.excl.active /\ cpu.excl.addr = addr
    IN  CASE i.o2 = 0 /\ ~i.L /\ ~armed ->
                Done([cpu_set_xreg(cpu, i.rs, 1) EXCEPT !.excl.active = FALSE])
          [] i.o2 = 0 /\ ~i.L /\ armed ->
                StoreExclusive(cpu_mem_write(cpu, addr, n, cpu_xreg(cpu, i.rt)), i.rs)
          [] i.o2 = 0 /\ i.L ->
                LoadExclusive(cpu_mem_read([cpu EXCEPT !.excl.addr = addr,
                                                       !.excl.active = TRUE],
                                           addr, n), i)
          [] i.o2 = 1 /\ ~i.L ->
                Stored(cpu_mem_write(cpu, addr, n, cpu_xreg(cpu, i.rt)))
          [] OTHER -> LoadInto(cpu_mem_read(cpu, addr, n), i.rt, i.size, 1)
=============================================================================
