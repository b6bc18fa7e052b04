-------------------------------- MODULE Simd --------------------------------
(***************************************************************************)
(* The integer vector instructions of the interpreter (exec_simd.c).       *)
(*                                                                         *)
(* A vector register is the pair of its doublewords; an element of size s  *)
(* has 2^s bytes.  An instruction is the record of the fields all vector   *)
(* encodings share: op0 is bits 28 to 24, Q and U bits 30 and 29, size     *)
(* bits 23 and 22, b21 bit 21, rm bits 20 to 16, op bits 15 to 10, rn and  *)
(* rd the rest.  exec_simd selects the handler from these fields as the    *)
(* code does, which is not always as the architecture does.                *)
(*                                                                         *)
(* Where the code shifts a 64-bit word by 64, the builds shift by nothing. *)
(* Reserved encodings that index past a register are left out of the       *)
(* inputs.  Floating-point handlers are outside the model: they end in     *)
(* FLOAT.                                                                  *)
(***************************************************************************)
EXTENDS LoadStore

-----------------------------------------------------------------------------
(* Elements. *)

Zero == <<0, 0>>
PerDword(size) == 2^(3 - size)
esize_bits(size) == BLEN * 2^size
velem_count(size, Q) == (8 * (1 + Q)) \div 2^size

velem_u(v, size, k) ==
    IF size > 3 THEN 0
    ELSE Low(shr(v[1 + k \div PerDword(size)], esize_bits(size) * (k % PerDword(size))),
             esize_bits(size))
velem_s(v, size, k) ==
    IF size > 3 THEN 0 ELSE S(velem_u(v, size, k), esize_bits(size))
velem(v, size, k, U) == IF U = 1 THEN velem_u(v, size, k) ELSE velem_s(v, size, k)

RECURSIVE Packed(_, _, _)
Packed(lanes, bits, j) ==
    IF lanes = << >> THEN 0
    ELSE Head(lanes) * 2^(bits * j) + Packed(Tail(lanes), bits, j + 1)

\* velem_set of f[k] at every k in the domain of f: the other elements stay.
velem_sets(v, size, f) ==
    IF size > 3 THEN v
    ELSE [d \in 1..2 |->
             Packed([j \in 1..PerDword(size) |->
                        LET k == (d - 1) * PerDword(size) + j - 1
                        IN  IF k \in DOMAIN f THEN Low(f[k], esize_bits(size))
                                              ELSE velem_u(v, size, k)],
                    esize_bits(size), 0)]

\* A result starts as zero and gets the elements of f, the first ones.
First(n) == 0..(n - 1)
Vector(size, f) == velem_sets(Zero, size, f)
SetV(cpu, rd, v) == Done([cpu EXCEPT !.v[rd] = v])

\* A 64-bit result in C, and shifts of one.
C64(n, U) == IF U = 1 THEN Low(n, XLEN) ELSE S(Low(n, XLEN), XLEN)
sl(a, n) == a * 2^(n % XLEN)
sr(a, n) == a \div 2^(n % XLEN)
Rounded(a, n) == sr(a, n) + (sr(a, n - 1) % 2)

sat_signed(val, bits) ==
    IF val > 2^(bits - 1) - 1 THEN 2^(bits - 1) - 1
    ELSE IF val < -(2^(bits - 1)) THEN -(2^(bits - 1)) ELSE val
sat_unsigned(val, bits) ==
    IF val < 0 THEN 0 ELSE IF val > 2^(bits % XLEN) - 1 THEN 2^(bits % XLEN) - 1 ELSE val
usat_unsigned(val, bits) == IF val > 2^bits - 1 THEN 2^bits - 1 ELSE val
Sat(val, bits, U) == IF U = 1 THEN usat_unsigned(val, bits) ELSE sat_signed(val, bits)

Mask(cond, bits) == IF cond THEN 2^bits - 1 ELSE 0
AbsDiff(a, b, U) == IF U = 1 THEN Abs(a - b) ELSE Abs(C64(a - b, 0))

\* Product of polynomials over {0, 1}.
RECURSIVE PMul(_, _, _)
PMul(a, b, j) ==
    IF j = BLEN THEN 0 ELSE (a * 2^j * bit(b, j)) ^^ PMul(a, b, j + 1)

-----------------------------------------------------------------------------
(* Copies between elements and general registers.  imm5 holds the size of  *)
(* the element, as its lowest one, and the index above it.                 *)

ElemSize(imm5) ==
    CASE imm5 % 2 = 1 -> 0 [] imm5 % 4 = 2 -> 1 [] imm5 % 8 = 4 -> 2
      [] imm5 % 16 = 8 -> 3 [] OTHER -> 4
ElemIndex(imm5) == imm5 \div 2^(ElemSize(imm5) + 1)

Replicate(cpu, rd, size, Q, val) ==
    IF size = 4 THEN Stop("UNIMPL", cpu)
    ELSE SetV(cpu, rd, Vector(size, [k \in First(velem_count(size, Q)) |-> val]))

exec_dup_general(cpu, i) ==
    Replicate(Clear(cpu, i.rd), i.rd, ElemSize(i.rm), i.Q, cpu_xreg(cpu, i.rn))

\* The destination is cleared before the element is read.
DupFrom(cpu, i, size) ==
    Replicate(cpu, i.rd, size, i.Q,
              IF size = 4 THEN 0 ELSE velem_u(cpu.v[i.rn], size, ElemIndex(i.rm)))
exec_dup_element(cpu, i) == DupFrom(Clear(cpu, i.rd), i, ElemSize(i.rm))

Insert(cpu, rd, size, idx, val) ==
    SetV(cpu, rd, velem_sets(cpu.v[rd], size, idx :> val))

\* bits 14 to 11 hold the index of the source.
exec_ins_element(cpu, i) ==
    LET size == ElemSize(i.rm)
    IN  IF size = 4 THEN Stop("UNIMPL", cpu)
        ELSE Insert(cpu, i.rd, size, ElemIndex(i.rm),
                 velem_u(cpu.v[i.rn], size, ((i.op \div 2) % 16) \div 2^size))

InsGeneral(cpu, i) ==
    IF ElemSize(i.rm) = 4 THEN Done(cpu)
    ELSE Insert(cpu, i.rd, ElemSize(i.rm), ElemIndex(i.rm), cpu_xreg(cpu, i.rn))

\* UMOV and SMOV; SMOV of a doubleword gives 0.
MovOut(cpu, i, size, U) ==
    Done(cpu_set_xreg(cpu, i.rd,
        IF size = 4 \/ (size = 3 /\ U = 0) THEN 0
        ELSE Low(velem(cpu.v[i.rn], size, ElemIndex(i.rm), U), XLEN)))

-----------------------------------------------------------------------------
(* MOVI, MVNI, ORR and BIC of an immediate. *)

\* The element size and the value cmode makes of imm8: shifted by bytes, or
\* shifted with ones coming in.  A byte has BLEN bits.
ModSize(cmode) == IF cmode \in 8..11 THEN 1 ELSE 2
ModValue(cmode, imm8) ==
    CASE cmode < 8 -> imm8 * 2^(BLEN * (cmode \div 2))
      [] cmode \in 8..11 -> imm8 * 2^(BLEN * (cmode \div 2 - 4))
      [] OTHER -> imm8 * 2^(BLEN * (1 + (cmode % 2))) + 2^(BLEN * (1 + (cmode % 2))) - 1

\* ORR and BIC change the destination, MOVI and MVNI replace it.
Modified(old, U, insert, size, val) ==
    CASE insert /\ U = 0 -> old | val
      [] insert /\ U = 1 -> old & not(val, esize_bits(size))
      [] ~insert /\ U = 1 -> not(val, esize_bits(size))
      [] OTHER -> val

ModElements(cpu, i, base, insert, size, val) ==
    SetV(cpu, i.rd, velem_sets(base, size, [k \in First(velem_count(size, i.Q)) |->
        Modified(velem_u(base, size, k), i.U, insert, size, val)]))

exec_simd_mod_imm(cpu, i) ==
    LET cmode == i.op \div 4
        imm8 == 32 * (i.rm % 8) + i.rn
        insert == cmode % 2 = 1 /\ cmode < 12
    IN  CASE cmode < 14 ->
                ModElements(cpu, i, IF insert THEN cpu.v[i.rd] ELSE Zero, insert,
                            ModSize(cmode), Low(ModValue(cmode, imm8),
                                                esize_bits(ModSize(cmode))))
          [] cmode = 14 /\ i.U = 0 -> Replicate(cpu, i.rd, 0, i.Q, imm8)
          [] cmode = 14 /\ i.U = 1 ->
                SetV(cpu, i.rd, Vector(0, [k \in First(8 * (1 + i.Q)) |->
                    Mask(bit(imm8, k % 8) = 1, BLEN)]))
          [] OTHER -> Stop("FLOAT", cpu)

-----------------------------------------------------------------------------
(* Loads and stores of structures.  A transfer [reg, size, k, addr] moves  *)
(* one element byte by byte.                                               *)

RECURSIVE ReadBytes(_, _, _)
ThenBytes(first, addr, n) ==
    IF ~first.ok THEN first
    ELSE LET rest == ReadBytes(first.cpu, Addr(addr + 1), n - 1)
         IN  [rest EXCEPT !.val = first.val + 2^BLEN * @]
ReadBytes(cpu, addr, n) ==
    IF n = 0 THEN [ok |-> TRUE, val |-> 0, cpu |-> cpu]
    ELSE ThenBytes(cpu_mem_read(cpu, addr, 1), addr, n)

RECURSIVE WriteBytes(_, _, _, _)
WriteBytes(a, addr, n, val) ==
    IF n = 0 \/ ~a.ok THEN a
    ELSE WriteBytes(cpu_mem_write(a.cpu, addr, 1, val), Addr(addr + 1), n - 1,
                    shr(val, BLEN))

LaneGot(a, t) ==
    IF a.ok THEN Insert(a.cpu, t.reg, t.size, t.k, a.val) ELSE Fault(a.cpu)
Transfer(cpu, t, L) ==
    IF L = 1 THEN LaneGot(ReadBytes(cpu, t.addr, 2^t.size), t)
    ELSE Stored(WriteBytes([ok |-> TRUE, cpu |-> cpu], t.addr, 2^t.size,
                           velem_u(cpu.v[t.reg], t.size, t.k)))

RECURSIVE Transfers(_, _, _)
Transfers(r, ts, L) ==
    IF r.rc /= "OK" \/ ts = << >> THEN r
    ELSE Transfers(Transfer(r.cpu, Head(ts), L), Tail(ts), L)

\* The registers rt, rt + 1, ... one after the other: through a host pointer
\* when the bytes of one lie in one region, otherwise byte by byte.
ByBytes(addr, n, vr) ==
    [j \in 1..n |-> [reg |-> vr, size |-> 0, k |-> j - 1, addr |-> Addr(addr + j - 1)]]
VectorAt(bytes, h, n) ==
    <<BytesAt(bytes, h, 8), IF n = 16 THEN BytesAt(bytes, h + 8, 8) ELSE 0>>
PokeVector(cpu, h, n, v) ==
    IF n = 16 THEN Poke(Poke(cpu, h, 8, v[1]), h + 8, 8, v[2]) ELSE Poke(cpu, h, 8, v[1])

BlockVia(t, addr, n, vr, L) ==
    IF t.p = {} THEN Transfers(Done(t.cpu), ByBytes(addr, n, vr), L)
    ELSE LET h == CHOOSE h \in t.p : TRUE
         IN  IF L = 1 THEN SetV(t.cpu, vr, VectorAt(t.cpu.mem.bytes, h, n))
             ELSE Done(PokeVector(t.cpu, h, n, t.cpu.v[vr]))

Block(cpu, addr, n, vr, L) ==
    IF L = 1
    THEN BlockVia(cpu_mem_ptr(Clear(cpu, vr), addr, n, "R"), addr, n, vr, L)
    ELSE BlockVia(cpu_mem_ptr(cpu, addr, n, "W"), addr, n, vr, L)

RECURSIVE Blocks(_, _, _, _, _, _)
Blocks(r, addr, n, vr, regs, L) ==
    IF r.rc /= "OK" \/ regs = 0 THEN r
    ELSE Blocks(Block(r.cpu, addr, n, vr, L), Addr(addr + n), n, (vr + 1) % 32,
                regs - 1, L)

RECURSIVE ClearAll(_, _, _)
ClearAll(cpu, vr, regs) ==
    IF regs = 0 THEN cpu ELSE ClearAll(Clear(cpu, vr), (vr + 1) % 32, regs - 1)

\* Element e of every register before element e + 1 of any.
Interleaved(cpu, addr, n, rt, regs, size, L) ==
    Transfers(Done(IF L = 1 THEN ClearAll(cpu, rt, regs) ELSE cpu),
        [j \in 1..((n \div 2^size) * regs) |->
            [reg |-> (rt + ((j - 1) % regs)) % 32, size |-> size, k |-> (j - 1) \div regs,
             addr |-> Addr(addr + (j - 1) * 2^size)]], L)

PostIndex(r, i, addr, total) ==
    IF r.rc /= "OK" \/ i.size < 2 THEN r
    ELSE Done(SetBase(r.cpu, i.rn,
                  addr + IF i.rm = 31 THEN total ELSE cpu_xreg(r.cpu, i.rm)))

\* The registers of an opcode; LD1 and ST1 are in Consecutive.
Structures == 7 :> 1 @@ 10 :> 2 @@ 6 :> 3 @@ 2 :> 4 @@ 8 :> 2 @@ 4 :> 3 @@ 0 :> 4
Consecutive == {7, 10, 6, 2}

exec_simd_ldst_multi(cpu, i) ==
    LET opcode == i.op \div 4
        n == 8 * (1 + i.Q)
        L == i.size % 2
        addr == cpu_xreg_sp(cpu, i.rn)
    IN  IF opcode \notin DOMAIN Structures THEN Stop("UNIMPL", cpu)
        ELSE PostIndex(
                 IF opcode \in Consecutive
                 THEN Blocks(Done(cpu), addr, n, i.rd, Structures[opcode], L)
                 ELSE Interleaved(cpu, addr, n, i.rd, Structures[opcode], i.op % 4, L),
                 i, addr, n * Structures[opcode])

LoadReplicate(a, i, size) ==
    IF a.ok THEN Replicate(a.cpu, i.rd, size, i.Q, a.val) ELSE Fault(a.cpu)
exec_simd_ld1r(cpu, i) ==
    LET addr == cpu_xreg_sp(cpu, i.rn)
    IN  PostIndex(LoadReplicate(ReadBytes(cpu, addr, 2^(i.op % 4)), i, i.op % 4),
                  i, addr, 2^(i.op % 4))

\* One element: its index is in Q, bit 12 and the bits 11 and 10 it does not
\* need for its size.
LaneSize(i) ==
    CASE i.op \div 8 = 0 -> 0 [] i.op \div 8 = 2 -> 1
      [] i.op \div 8 = 4 -> 2 + (i.op % 2) [] OTHER -> 4
LaneIndex(i) == (8 * i.Q + (i.op % 8)) \div 2^LaneSize(i)

LaneAccess(cpu, i, addr, size) ==
    IF i.size % 2 = 1
    THEN LaneGot(cpu_mem_read(cpu, addr, 2^size),
                 [reg |-> i.rd, size |-> size, k |-> LaneIndex(i)])
    ELSE Stored(cpu_mem_write(cpu, addr, 2^size,
                              velem_u(cpu.v[i.rd], size, LaneIndex(i))))

SingleStructure(cpu, i) ==
    IF LaneSize(i) = 4 THEN Stop("UNIMPL", cpu)
    ELSE PostIndex(LaneAccess(cpu, i, cpu_xreg_sp(cpu, i.rn), LaneSize(i)),
                   i, cpu_xreg_sp(cpu, i.rn), 2^LaneSize(i))

-----------------------------------------------------------------------------
(* Three registers of the same shape. *)

Clamped(sh, bits) == IF sh < -bits THEN -bits ELSE IF sh > bits THEN bits ELSE sh

\* SSHL, SQSHL, SRSHL, SQRSHL: odd opcodes saturate, the last two round.
ShiftByRegister(opcode, U, a, sh, bits) ==
    CASE sh < 0 /\ opcode >= 10 -> Rounded(a, -sh)
      [] sh < 0 /\ opcode < 10 -> sr(a, -sh)
      [] sh >= 0 /\ opcode % 2 = 1 -> Sat(C64(sl(a, sh), U), bits, U)
      [] OTHER -> sl(a, sh)

\* AND, BIC, ORR, ORN, EOR, BSL, BIT, BIF, by the number the code makes of size
\* and U.
LogicOp(opc2, n, m, d) ==
    CASE opc2 = 0 -> n & m
      [] opc2 = 1 -> n & not(m, XLEN)
      [] opc2 = 2 -> n | m
      [] opc2 = 3 -> n | not(m, XLEN)
      [] opc2 = 4 -> n ^^ m
      [] opc2 = 5 -> (d & n) | (not(d, XLEN) & m)
      [] opc2 = 6 -> (m & n) | (not(m, XLEN) & d)
      [] OTHER -> (not(m, XLEN) & n) | (m & d)

Logic(i, n, m, d) ==
    [j \in 1..2 |-> IF j = 2 /\ i.Q = 0 THEN 0
                    ELSE LogicOp(2 * i.size + i.U, n[j], m[j], d[j])]

\* Element by element; a and b are signed or not as U says, d is the old element
\* of the destination.
HalvingOrSaturating(opcode, U, a, b, bits) ==
    CASE opcode = 0 -> sr(C64(a + b, U), 1)
      [] opcode = 1 -> Sat(C64(a + b, U), bits, U)
      [] opcode = 2 -> sr(C64(a + b + 1, U), 1)
      [] opcode = 4 -> sr(C64(a - b, 0), 1)
      [] opcode = 5 /\ U = 1 -> IF a > b THEN a - b ELSE 0
      [] OTHER -> sat_signed(C64(a - b, 0), bits)

CompareOrSelect(opcode, U, a, b, d, bits) ==
    CASE opcode = 6 -> Mask(a > b, bits)
      [] opcode = 7 -> Mask(a >= b, bits)
      [] opcode = 12 -> IF a > b THEN a ELSE b
      [] opcode = 13 -> IF a < b THEN a ELSE b
      [] opcode = 14 -> AbsDiff(a, b, U)
      [] OTHER -> d + AbsDiff(a, b, U)

Doubling(U, a, b, bits) ==
    sat_signed(C64(C64(a * b, 0) + (IF U = 1 THEN 2^(bits - 2) ELSE 0), 0)
                   \div 2^(bits - 1), bits)

SumOrProduct(opcode, U, a, b, d, bits) ==
    CASE opcode = 16 -> IF U = 1 THEN a - b ELSE a + b
      [] opcode = 17 -> Mask(IF U = 1 THEN a = b ELSE Low(a, bits) & Low(b, bits) /= 0, bits)
      [] opcode = 18 -> IF U = 1 THEN d - a * b ELSE d + a * b
      [] opcode = 19 -> a * b
      [] OTHER -> Doubling(U, S(Low(a, bits), bits), S(Low(b, bits), bits), bits)

SameLane(opcode, U, a, b, d, bits) ==
    CASE opcode \in {0, 1, 2, 4, 5} -> HalvingOrSaturating(opcode, U, a, b, bits)
      [] opcode \in {6, 7, 12, 13, 14, 15} -> CompareOrSelect(opcode, U, a, b, d, bits)
      [] opcode \in 8..11 ->
            ShiftByRegister(opcode, U, a, Clamped(S(Low(b, bits), bits), bits), bits)
      [] OTHER -> SumOrProduct(opcode, U, a, b, d, bits)

\* The pairs of the first operand, then those of the second.
PairOp(opcode, a, b) ==
    CASE opcode = 20 -> IF a > b THEN a ELSE b
      [] opcode = 21 -> IF a < b THEN a ELSE b
      [] OTHER -> a + b
Pairwise(opcode, U, size, n, m, elems) ==
    Vector(size, [k \in First(2 * (elems \div 2)) |->
        LET v == IF k < elems \div 2 THEN n ELSE m
            j == 2 * (k % (elems \div 2))
        IN  PairOp(opcode, velem(v, size, j, U), velem(v, size, j + 1, U))])

\* PMUL works on bytes whatever the size.
SameResult(i, opcode, n, m, d, elems) ==
    CASE opcode = 3 -> Logic(i, n, m, d)
      [] opcode \in {20, 21, 23} -> Pairwise(opcode, i.U, i.size, n, m, elems)
      [] opcode = 19 /\ i.U = 1 ->
            Vector(0, [k \in First(elems) |-> PMul(velem_u(n, 0, k), velem_u(m, 0, k), 0)])
      [] OTHER ->
            Vector(i.size, [k \in First(elems) |->
                SameLane(opcode, i.U, velem(n, i.size, k, i.U), velem(m, i.size, k, i.U),
                         velem_u(d, i.size, k), esize_bits(i.size))])

exec_three_same(cpu, i) ==
    IF i.op \div 2 > 23 THEN Stop("UNIMPL", cpu)
    ELSE SetV(cpu, i.rd, SameResult(i, i.op \div 2, cpu.v[i.rn], cpu.v[i.rm], cpu.v[i.rd],
                                    velem_count(i.size, i.Q)))

-----------------------------------------------------------------------------
(* Widening and narrowing.  Wide elements fill a register; Q selects the   *)
(* half of the narrow ones.                                                *)

WideCount(size) == CASE size = 0 -> 8 [] size = 1 -> 4 [] OTHER -> 2

\* The narrow element that belongs to the wide element k.
NarrowIndex(Q, size, k) == Q * WideCount(size) + k

\* The upper half is written beside the lower half, the lower clears the upper.
Narrowed(Q, size, old, f) ==
    LET n == WideCount(size)
    IN  velem_sets(IF Q = 1 THEN old ELSE Zero, size,
                   [k \in (Q * n)..(Q * n + n - 1) |-> f[k - Q * n]])

DiffLane(opcode, U, a, b, wide, acc) ==
    CASE opcode = 0 -> a + b
      [] opcode = 2 -> a - b
      [] opcode = 1 -> wide + b
      [] opcode = 3 -> wide - b
      [] opcode = 5 -> acc + AbsDiff(a, b, U)
      [] opcode = 7 -> AbsDiff(a, b, U)
      [] opcode = 8 -> acc + a * b
      [] opcode = 10 -> acc - a * b
      [] opcode = 12 -> a * b
      [] OTHER -> PMul(Low(a, BLEN), Low(b, BLEN), 0)

\* ADDHN, RADDHN, SUBHN, RSUBHN: the high half of a wide element.
HighHalf(opcode, U, a, b, half) ==
    sr(C64((IF opcode = 4 THEN a + b ELSE a - b) + (IF U = 1 THEN 2^(half - 1) ELSE 0), 1),
       half)

DiffResult(i, opcode, n, m, d) ==
    IF opcode \in {4, 6}
    THEN Narrowed(i.Q, i.size, d, [k \in First(WideCount(i.size)) |->
            HighHalf(opcode, i.U, velem_u(n, i.size + 1, k), velem_u(m, i.size + 1, k),
                     esize_bits(i.size))])
    ELSE Vector(i.size + 1, [k \in First(WideCount(i.size)) |->
            LET j == NarrowIndex(i.Q, i.size, k)
            IN  DiffLane(opcode, i.U, velem(n, i.size, j, i.U), velem(m, i.size, j, i.U),
                         velem(n, i.size + 1, k, i.U), velem_u(d, i.size + 1, k))])

exec_three_diff(cpu, i) ==
    LET opcode == i.op \div 4
    IN  IF opcode \in {9, 11, 13, 15} \/ (opcode = 14 /\ i.size /= 0)
        THEN Stop("UNIMPL", cpu)
        ELSE SetV(cpu, i.rd,
                  DiffResult(i, opcode, cpu.v[i.rn], cpu.v[i.rm], cpu.v[i.rd]))

-----------------------------------------------------------------------------
(* One register: two-register miscellaneous, and sums across lanes. *)

\* Elements reversed in groups; no element fits a group smaller than itself.
Reversed(n, size, Q, group) ==
    LET per == group \div 2^size
    IN  Vector(size, [k \in First(IF per = 0 THEN 0 ELSE velem_count(size, Q)) |->
               velem_u(n, size, per * (k \div per) + per - 1 - (k % per))])

\* SADDLP, UADDLP and, with the destination, SADALP and UADALP.
PairSums(n, acc, size, Q, U) ==
    Vector(size + 1, [k \in First(velem_count(size, Q) \div 2) |->
        velem_u(acc, size + 1, k) + velem(n, size, 2 * k, U) + velem(n, size, 2 * k + 1, U)])

rbit8(w) == MapThenSumSet(LAMBDA b : 2^(BLEN - 1 - b), Ones(w, BLEN))

\* CNT, NOT and RBIT.
ByteOp(U, size, w) ==
    CASE U = 0 -> Cardinality(Ones(w, BLEN))
      [] U = 1 /\ size = 0 -> not(w, BLEN)
      [] OTHER -> rbit8(w)

\* u and s are the element, du and ds the element of the destination.
MiscLane(opcode, U, u, s, du, ds, bits) ==
    CASE opcode = 3 -> IF U = 1 THEN sat_unsigned(C64(du + s, 0), bits)
                                ELSE sat_signed(C64(ds + u, 0), bits)
      [] opcode = 4 -> IF U = 1 THEN Leading(u, 0, bits - 1)
                                ELSE Leading(u, bit(u, bits - 1), bits - 2)
      [] opcode = 7 -> sat_signed(C64(IF U = 1 THEN -s ELSE Abs(s), 0), bits)
      [] opcode = 8 -> Mask(IF U = 1 THEN s >= 0 ELSE s > 0, bits)
      [] opcode = 9 -> Mask(IF U = 1 THEN s <= 0 ELSE s = 0, bits)
      [] opcode = 10 -> IF U = 1 THEN Abs(s) ELSE Mask(s < 0, bits)
      [] OTHER -> -u

\* XTN, SQXTUN, SQXTN and UQXTN.
NarrowTo(opcode, U, u, s, bits) ==
    CASE opcode = 18 /\ U = 0 -> u
      [] opcode = 18 /\ U = 1 -> sat_unsigned(s, bits)
      [] opcode = 20 /\ U = 0 -> sat_signed(s, bits)
      [] OTHER -> usat_unsigned(u, bits)

MiscImplemented(opcode, U, size) ==
    CASE opcode = 1 -> U = 0 /\ size = 0
      [] opcode = 5 -> size = 0 \/ (size = 1 /\ U = 1)
      [] opcode = 11 -> U = 1
      [] OTHER -> opcode \in (0..10) \cup {18, 20}

MiscResult(opcode, U, Q, size, n, d) ==
    CASE opcode = 0 -> Reversed(n, size, Q, IF U = 1 THEN 4 ELSE 8)
      [] opcode = 1 -> Reversed(n, 0, Q, 2)
      [] opcode = 2 -> PairSums(n, Zero, size, Q, U)
      [] opcode = 5 -> Vector(0, [k \in First(8 * (1 + Q)) |-> ByteOp(U, size, velem_u(n, 0, k))])
      [] opcode = 6 -> PairSums(n, d, size, Q, U)
      [] opcode \in {18, 20} ->
            Narrowed(Q, size, d, [k \in First(WideCount(size)) |->
                NarrowTo(opcode, U, velem_u(n, size + 1, k), velem_s(n, size + 1, k),
                         esize_bits(size))])
      [] OTHER ->
            Vector(size, [k \in First(velem_count(size, Q)) |->
                MiscLane(opcode, U, velem_u(n, size, k), velem_s(n, size, k),
                         velem_u(d, size, k), velem_s(d, size, k), esize_bits(size))])

\* bits 16 to 12.
Opcode5(i) == 16 * (i.rm % 2) + i.op \div 4

exec_two_reg_misc(cpu, i) ==
    IF ~MiscImplemented(Opcode5(i), i.U, i.size) THEN Stop("UNIMPL", cpu)
    ELSE SetV(cpu, i.rd,
              MiscResult(Opcode5(i), i.U, i.Q, i.size, cpu.v[i.rn], cpu.v[i.rd]))

\* The destination is cleared before the lanes are read.
AcrossOf(opcode, vals, sum) ==
    CASE opcode \in {3, 27} -> sum [] opcode = 10 -> Max(vals) [] OTHER -> Min(vals)
Across(cpu, i, lanes) ==
    IF Opcode5(i) \notin {3, 10, 26, 27} THEN Stop("UNIMPL", cpu)
    ELSE SetV(cpu, i.rd, Vector(IF Opcode5(i) = 3 THEN i.size + 1 ELSE i.size, [k \in First(1) |->
             AcrossOf(Opcode5(i), {lanes[j] : j \in DOMAIN lanes},
                      MapThenSumSet(LAMBDA j : lanes[j], DOMAIN lanes))]))
exec_across_lanes(cpu, i) ==
    LET c == Clear(cpu, i.rd)
    IN  Across(c, i, [k \in 0..(velem_count(i.size, i.Q) - 1) |->
                         velem(c.v[i.rn], i.size, k, i.U)])

-----------------------------------------------------------------------------
(* Shifts by an immediate: immh is bits 22 to 19, immb bits 18 to 16.  The *)
(* highest one of immh is the element size.                                *)

Immh(i) == 8 * (i.size % 2) + 4 * i.b21 + i.rm \div 8
ShiftSize(i) ==
    CASE Immh(i) >= 8 -> 3 [] Immh(i) \in 4..7 -> 2 [] Immh(i) \in 2..3 -> 1 [] OTHER -> 0
ShiftField(i) == Immh(i) * BLEN + (i.rm % 8)

\* Left and right are the two amounts the field can stand for.
ShiftLane(opcode, U, u, v, s, d, bits, left, right) ==
    CASE opcode = 0 -> sr(v, right)
      [] opcode = 1 -> d + sr(v, right)
      [] opcode = 2 -> Rounded(v, right)
      [] opcode = 3 -> d + Rounded(v, right)
      [] opcode = 5 /\ U = 0 -> sl(u, left)
      [] opcode = 5 /\ U = 1 -> Low(sl(u, left), bits) + Low(d, left)
      [] opcode = 7 /\ U = 1 -> sat_unsigned(C64(sl(s, left), 0), bits)
      [] OTHER -> (d - Low(d, bits - right)) | sr(u, right)

NarrowShift(opcode, U, u, v, bits, right) ==
    CASE opcode = 8 /\ U = 0 -> sr(u, right)
      [] opcode = 8 /\ U = 1 -> Rounded(u, right)
      [] OTHER -> Sat(sr(v, right), bits, U)

ShiftResult(opcode, U, Q, size, n, d, bits, left, right) ==
    CASE opcode \in {10, 20} ->
            Vector(size + 1, [k \in First(WideCount(size)) |->
                sl(velem(n, size, NarrowIndex(Q, size, k), U), left)])
      [] opcode \in {8, 9} ->
            Narrowed(Q, size, d, [k \in First(WideCount(size)) |->
                NarrowShift(opcode, U, velem_u(n, size + 1, k), velem(n, size + 1, k, U),
                            bits, right)])
      [] OTHER ->
            Vector(size, [k \in First(velem_count(size, Q)) |->
                ShiftLane(opcode, U, velem_u(n, size, k), velem(n, size, k, U),
                          velem_s(n, size, k), velem_u(d, size, k), bits, left, right)])

exec_shift_imm(cpu, i) ==
    LET bits == esize_bits(ShiftSize(i))
    IN  IF i.op \div 2 \notin {0, 1, 2, 3, 5, 7, 8, 9, 10, 20} THEN Stop("UNIMPL", cpu)
        ELSE SetV(cpu, i.rd, ShiftResult(i.op \div 2, i.U, i.Q, ShiftSize(i), cpu.v[i.rn],
                      cpu.v[i.rd], bits, ShiftField(i) - bits, 2 * bits - ShiftField(i)))

-----------------------------------------------------------------------------
(* Permutations. *)

\* UZP takes every second element, TRN pairs elements of one position, ZIP
\* pairs the elements of one half; opcodes above 4 start one further.
Permuted(opcode, size, n, m, elems) ==
    LET half == elems \div 2
        odd == opcode \div 4
        From(k) ==
            CASE opcode % 4 = 1 -> <<k \div half, 2 * (k % half) + odd>>
              [] opcode % 4 = 2 -> <<k % 2, k - (k % 2) + odd>>
              [] OTHER -> <<k % 2, half * odd + k \div 2>>
    IN  Vector(size, [k \in First(2 * half) |->
            velem_u(IF From(k)[1] = 0 THEN n ELSE m, size, From(k)[2])])

exec_permute(cpu, i) ==
    SetV(cpu, i.rd, Permuted((i.op \div 4) % 8, i.size, cpu.v[i.rn], cpu.v[i.rm],
                             velem_count(i.size, i.Q)))

\* bits 14 and 13 are the number of table registers less one; TBX keeps what the
\* table does not reach.
exec_tbl_tbx(cpu, i) ==
    LET nregs == ((i.op \div 8) % 4) + 1
        idx(k) == velem_u(cpu.v[i.rm], 0, k)
    IN  SetV(cpu, i.rd, velem_sets(IF (i.op \div 4) % 2 = 1 THEN cpu.v[i.rd] ELSE Zero, 0,
            [k \in {j \in First(8 * (1 + i.Q)) : idx(j) < 16 * nregs} |->
                velem_u(cpu.v[(i.rn + idx(k) \div 16) % 32], 0, idx(k) % 16)]))

\* Bytes past both operands are whatever the stack held; the index of an
\* eight-byte vector is below eight.
exec_ext(cpu, i) ==
    LET n == 8 * (1 + i.Q)
        at(k) == ((i.op \div 2) % 16) + k
    IN  SetV(cpu, i.rd, Vector(0, [k \in First(n) |->
            velem_u(IF at(k) < n THEN cpu.v[i.rn] ELSE cpu.v[i.rm], 0, at(k) % n)]))

-----------------------------------------------------------------------------
(* The selection of the handler. *)

\* op0 = 0x0C, 0x0D.
LoadsAndStores(cpu, i) ==
    CASE i.op0 = 12 /\ i.U = 0 /\ i.b21 = 0 -> exec_simd_ldst_multi(cpu, i)
      [] i.op0 = 13 /\ i.U = 0 /\ i.size % 2 = 1 /\ i.op \div 4 = 12 -> exec_simd_ld1r(cpu, i)
      [] i.op0 = 13 /\ i.U = 0 /\ i.b21 = 0 /\ i.op \div 4 /= 12 -> SingleStructure(cpu, i)
      [] OTHER -> Stop("UNIMPL", cpu)

\* op0 = 0x0F.
Immediates(cpu, i) ==
    CASE i.size = 0 /\ i.b21 = 0 /\ i.rm < 8 /\ i.op % 4 = 1 -> exec_simd_mod_imm(cpu, i)
      [] Immh(i) /= 0 /\ i.op % 4 = 1 /\ i.op \div 2 <= 20 -> exec_shift_imm(cpu, i)
      [] OTHER -> Stop("UNIMPL", cpu)

\* op0 = 0x0E without bit 21.
Copies(cpu, i) ==
    CASE i.U = 1 -> exec_ins_element(cpu, i)
      [] i.U = 0 /\ i.op = 1 -> exec_dup_element(cpu, i)
      [] i.U = 0 /\ i.op = 3 -> exec_dup_general(cpu, i)
      [] i.U = 0 /\ i.op = 5 -> MovOut(cpu, i, ElemSize(i.rm), 0)
      [] i.U = 0 /\ i.op = 7 /\ i.Q = 1 -> InsGeneral(cpu, i)
      [] i.U = 0 /\ i.op = 15 -> MovOut(cpu, i, ElemSize(i.rm), 1)
      [] OTHER -> Stop("UNIMPL", cpu)

\* U is not looked at before EXT, so that most of its indices are taken for a
\* permutation or a table.
Rearrangements(cpu, i) ==
    CASE i.op % 4 = 2 /\ (i.op \div 4) % 4 /= 0 -> exec_permute(cpu, i)
      [] i.op % 4 = 0 /\ i.size = 0 -> exec_tbl_tbx(cpu, i)
      [] i.op % 4 = 2 /\ (i.op \div 4) % 4 = 0 /\ i.U = 1 /\ i.size = 0 -> exec_ext(cpu, i)
      [] OTHER -> Stop("UNIMPL", cpu)

\* op0 = 0x0E with bit 21; the opcodes that are guessed to be floating point.
SameIsFp(i) == \/ i.op \div 2 \in 24..31
               \/ i.op \div 2 \in (3..7) \cup (12..15) /\ i.size < 2
MiscIsFp(i) == Opcode5(i) \in (12..15) \cup (22..31) /\ i.size < 2

Operations(cpu, i) ==
    CASE i.op % 2 = 1 -> IF SameIsFp(i) THEN Stop("FLOAT", cpu) ELSE exec_three_same(cpu, i)
      [] i.op % 4 = 0 -> exec_three_diff(cpu, i)
      [] i.op % 4 = 2 /\ i.rm \div 2 = 0 ->
            IF MiscIsFp(i) THEN Stop("FLOAT", cpu) ELSE exec_two_reg_misc(cpu, i)
      [] i.op % 4 = 2 /\ i.rm \div 2 = 8 -> exec_across_lanes(cpu, i)
      [] OTHER -> Stop("UNIMPL", cpu)

exec_simd(cpu, i) ==
    CASE i.op0 \in {12, 13} -> LoadsAndStores(cpu, i)
      [] i.op0 = 14 /\ i.b21 = 1 -> Operations(cpu, i)
      [] i.op0 = 14 /\ i.b21 = 0 /\ i.op < 32 /\ i.op % 2 = 0 -> Rearrangements(cpu, i)
      [] i.op0 = 14 /\ i.b21 = 0 /\ i.op < 32 /\ i.op % 2 = 1 /\ i.size = 0 -> Copies(cpu, i)
      [] i.op0 = 15 -> Immediates(cpu, i)
      [] i.op0 \in {30, 31} -> Stop("FLOAT", cpu)
      [] OTHER -> Stop("UNIMPL", cpu)
=============================================================================
