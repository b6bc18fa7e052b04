-------------------------------- MODULE Cpu --------------------------------
(***************************************************************************)
(* The instruction interpreter: registers, flags, branches and data        *)
(* processing (cpu.c, decoder.c, exec_branch.c, exec_dp_imm.c,             *)
(* exec_dp_reg.c, exec_system.c).  Every handler is an operator from a     *)
(* CPU state and a decoded instruction to a result code and a CPU state.   *)
(*                                                                         *)
(* The X registers have 2^LG bits (64 in the code, LG = 6); the W          *)
(* registers, half-words and bytes have a half, a quarter and an eighth of *)
(* them, as in the code.  An instruction is a record of the fields its     *)
(* handler extracts with bits() and bit(); "handler" stands for the bits   *)
(* that select the handler.                                                *)
(***************************************************************************)
EXTENDS Integers, FiniteSetsExt, Bitwise

CONSTANTS
    LG,     \* log2 of the number of bits of an X register
    IMM,    \* bits of the add/sub immediate and of an ADRP page (12)
    OFF     \* bits of a branch offset, counted in instructions (14 to 26)

XLEN == 2^LG
WLEN == XLEN \div 2
HLEN == XLEN \div 4
BLEN == XLEN \div 8

-----------------------------------------------------------------------------
(* Words. *)

\* The low n bits of an integer, as unsigned arithmetic keeps them, and the
\* signed value of a word of len bits.
Low(w, n) == w % 2^n
S(w, len) == IF w >= 2^(len - 1) THEN w - 2^len ELSE w

bit(w, i) == (w \div 2^i) % 2
Ones(w, len) == {i \in 0..(len - 1) : bit(w, i) = 1}
not(w, len) == 2^len - 1 - w
shl(w, n, len) == Low(w * 2^n, len)
shr(w, n) == w \div 2^n
asr(w, n, len) == Low(S(w, len) \div 2^n, len)

sign_extend(w, n) == Low(S(Low(w, n), n), XLEN)

\* (1ULL << n) - 1; a shift by the full width is undefined, and the builds
\* make it a shift by zero or the mask of all ones.
LowOnes(n) == IF n < XLEN THEN {2^n - 1} ELSE {0, 2^XLEN - 1}

Width(sf) == IF sf THEN XLEN ELSE WLEN

-----------------------------------------------------------------------------
(* Registers: 31 is the zero register or the stack pointer. *)

cpu_xreg(cpu, r) == IF r = 31 THEN 0 ELSE cpu.x[r]
cpu_wreg(cpu, r) == Low(cpu_xreg(cpu, r), WLEN)
cpu_xreg_sp(cpu, r) == IF r = 31 THEN cpu.sp ELSE cpu.x[r]

cpu_set_xreg(cpu, r, val) == IF r = 31 THEN cpu ELSE [cpu EXCEPT !.x[r] = val]
cpu_set_xreg_sp(cpu, r, val) ==
    IF r = 31 THEN [cpu EXCEPT !.sp = val] ELSE [cpu EXCEPT !.x[r] = val]

\* A register read or written at the width of the instruction.
reg(cpu, sf, r) == IF sf THEN cpu_xreg(cpu, r) ELSE cpu_wreg(cpu, r)
set_reg(cpu, sf, r, val) == cpu_set_xreg(cpu, r, Low(val, Width(sf)))

Done(cpu) == [rc |-> "OK", cpu |-> cpu]
Stop(rc, cpu) == [rc |-> rc, cpu |-> cpu]

-----------------------------------------------------------------------------
(* Flags and conditions. *)

FlagsNZ(res, len) ==
    {f \in {"N", "Z"} : IF f = "N" THEN bit(res, len - 1) = 1 ELSE res = 0}

cpu_update_flags_add(a, b, res, len) ==
    FlagsNZ(res, len)
    \cup (IF res < a THEN {"C"} ELSE {})
    \cup (IF bit(a, len - 1) /= bit(res, len - 1) /\ bit(b, len - 1) /= bit(res, len - 1)
          THEN {"V"} ELSE {})

\* Variant: no borrow is only seen when the operands differ.
cpu_update_flags_subStrict(a, b, res, len) ==
    FlagsNZ(res, len)
    \cup (IF a > b THEN {"C"} ELSE {})
    \cup (IF bit(a, len - 1) /= bit(b, len - 1) /\ bit(a, len - 1) /= bit(res, len - 1)
          THEN {"V"} ELSE {})

cpu_update_flags_sub(a, b, res, len) ==
    FlagsNZ(res, len)
    \cup (IF a >= b THEN {"C"} ELSE {})
    \cup (IF bit(a, len - 1) /= bit(b, len - 1) /\ bit(a, len - 1) /= bit(res, len - 1)
          THEN {"V"} ELSE {})

cpu_check_cond(nzcv, cond) ==
    LET holds ==
            CASE cond \div 2 = 0 -> "Z" \in nzcv
              [] cond \div 2 = 1 -> "C" \in nzcv
              [] cond \div 2 = 2 -> "N" \in nzcv
              [] cond \div 2 = 3 -> "V" \in nzcv
              [] cond \div 2 = 4 -> "C" \in nzcv /\ "Z" \notin nzcv
              [] cond \div 2 = 5 -> "N" \in nzcv <=> "V" \in nzcv
              [] cond \div 2 = 6 -> /\ "Z" \notin nzcv
                                    /\ "N" \in nzcv <=> "V" \in nzcv
              [] OTHER -> TRUE
    IN  holds /= (cond % 2 = 1 /\ cond \notin {14, 15})

-----------------------------------------------------------------------------
(* Shifts and extensions of a register operand (decoder.c). *)

apply_shift(val, shift_type, amount, len) ==
    CASE amount = 0 -> val
      [] amount /= 0 /\ shift_type = "LSL" -> shl(val, amount, len)
      [] amount /= 0 /\ shift_type = "LSR" -> shr(val, amount)
      [] amount /= 0 /\ shift_type = "ASR" -> asr(val, amount, len)
      [] OTHER -> shr(val, amount) + shl(val, len - amount, len)

\* ext is [signed, len]: UXTB..UXTX and SXTB..SXTX.
extend_reg(cpu, r, ext, shift) ==
    shl(IF ext.signed THEN sign_extend(cpu_xreg(cpu, r), ext.len)
                      ELSE Low(cpu_xreg(cpu, r), ext.len),
        shift, XLEN)

-----------------------------------------------------------------------------
(* Data processing, immediate (exec_dp_imm.c). *)

\* ADR, and ADRP where the low bits of the pc are cleared.
exec_pc_rel(cpu, i) ==
    LET imm == S(i.imm, OFF)
        val == IF i.op = 0 THEN cpu.pc + imm
                           ELSE cpu.pc - Low(cpu.pc, IMM) + imm * 2^IMM
    IN  Done(cpu_set_xreg(cpu, i.rd, Low(val, XLEN)))

\* The sum or difference of two operands, its flags and its destination: the
\* stack pointer unless the flags are set or toSP is FALSE.
AddSub(cpu, i, a, b, toSP) ==
    LET len == Width(i.sf)
        res == IF i.op = 0 THEN Low(a + b, len) ELSE Low(a - b, len)
        flags == IF i.op = 0 THEN cpu_update_flags_add(a, b, res, len)
                             ELSE cpu_update_flags_sub(a, b, res, len)
    IN  Done(IF i.S THEN [cpu_set_xreg(cpu, i.rd, res) EXCEPT !.nzcv = flags]
             ELSE IF toSP THEN cpu_set_xreg_sp(cpu, i.rd, res)
             ELSE cpu_set_xreg(cpu, i.rd, res))

exec_add_sub_imm(cpu, i) ==
    AddSub(cpu, i, Low(cpu_xreg_sp(cpu, i.rn), Width(i.sf)),
           shl(i.imm12, IF i.sh THEN IMM ELSE 0, Width(i.sf)), TRUE)

\* The element of a logical immediate: S + 1 ones rotated right by R in an
\* element of esize bits, repeated over the word.
Element(S1, R, esize) ==
    IF R = 0 THEN 2^S1 - 1
    ELSE shr(2^S1 - 1, R) + shl(2^S1 - 1, esize - R, esize)

Replicated(welem, esize) ==
    SumSet({welem * 2^(esize * k) : k \in 0..(XLEN \div esize - 1)})

\* Variant: the check for an element of all ones is missing.
decode_bitmask_immFull(sf, N, immr, imms) ==
    LET combined == Ones(N * 2^LG + not(imms, LG), LG + 1)
        len == Max(combined)
        esize == 2^len
        reserved == combined = {} \/ len < 1 \/ (~sf /\ N = 1)
    IN  IF reserved THEN {}
        ELSE {Low(Replicated(Element(Low(imms, len) + 1, Low(immr, len), esize), esize),
                  Width(sf))}

\* The set of the values the encoding stands for: empty when it is reserved.
decode_bitmask_imm(sf, N, immr, imms) ==
    LET combined == Ones(N * 2^LG + not(imms, LG), LG + 1)
        len == Max(combined)
        esize == 2^len
        reserved == \/ combined = {}
                    \/ len < 1
                    \/ Low(imms, len) = 2^len - 1
                    \/ ~sf /\ N = 1
    IN  IF reserved THEN {}
        ELSE {Low(Replicated(Element(Low(imms, len) + 1, Low(immr, len), esize), esize),
                  Width(sf))}

Logical(opc, a, b) ==
    CASE opc \in {"AND", "ANDS"} -> a & b
      [] opc = "ORR" -> a | b
      [] OTHER -> a ^^ b

exec_logical_imm(cpu, i) ==
    LET vals == decode_bitmask_imm(i.sf, i.N, i.immr, i.imms)
        res == Logical(i.opc, reg(cpu, i.sf, i.rn), CHOOSE v \in vals : TRUE)
    IN  IF vals = {} THEN Stop("ERR", cpu)
        ELSE IF i.opc = "ANDS"
        THEN Done([cpu_set_xreg(cpu, i.rd, res)
                   EXCEPT !.nzcv = FlagsNZ(res, Width(i.sf))])
        ELSE Done(cpu_set_xreg_sp(cpu, i.rd, res))

\* val with the field of the ones of mask at position pos cleared.
Without(val, pos, mask) == val & not(shl(mask, pos, XLEN), XLEN)

exec_move_wide(cpu, i) ==
    LET field == shl(i.imm16, i.hw * HLEN, XLEN)
        val == CASE i.opc = "MOVN" -> not(field, XLEN)
                 [] i.opc = "MOVZ" -> field
                 [] OTHER -> Without(cpu_xreg(cpu, i.rd), i.hw * HLEN, 2^HLEN - 1) + field
    IN  IF ~i.sf /\ i.hw >= 2 THEN Stop("ERR", cpu)
        ELSE IF i.opc = "RES" THEN Stop("UNIMPL", cpu)
        ELSE Done(set_reg(cpu, i.sf, i.rd, val))

\* SBFM, BFM and UBFM: immr and imms are numbers.  With imms >= immr the field
\* comes down to bit 0, otherwise the low bits go up to pos.
BitfieldOf(opc, src, dst, ones, immr, pos, down, n) ==
    LET field == IF down THEN shr(src, immr) & ones
                         ELSE shl(src & ones, pos, XLEN)
    IN  CASE opc = "SBFM" -> sign_extend(field, IF down THEN n ELSE n + pos)
          [] opc = "BFM" -> Without(dst, IF down THEN 0 ELSE pos, ones) + field
          [] OTHER -> field

\* The set of the results: more than one where the mask is undefined.
exec_bitfield(cpu, i) ==
    LET down == i.imms >= i.immr
        n == IF down THEN i.imms - i.immr + 1 ELSE i.imms + 1
    IN  IF i.opc = "RES" THEN {Stop("UNIMPL", cpu)}
        ELSE {Done(set_reg(cpu, i.sf, i.rd,
                  BitfieldOf(i.opc, reg(cpu, i.sf, i.rn), reg(cpu, i.sf, i.rd),
                             ones, i.immr, Width(i.sf) - i.immr, down, n))) :
                  ones \in LowOnes(n)}

exec_extract(cpu, i) ==
    LET hi == reg(cpu, i.sf, i.rn)
        lo == reg(cpu, i.sf, i.rm)
        res == IF i.imms = 0 THEN hi
               ELSE shr(lo, i.imms) | shl(hi, Width(i.sf) - i.imms, XLEN)
    IN  Done(set_reg(cpu, i.sf, i.rd, res))

-----------------------------------------------------------------------------
(* Data processing, register (exec_dp_reg.c). *)

exec_logical_shifted(cpu, i) ==
    LET len == Width(i.sf)
        op2 == apply_shift(reg(cpu, i.sf, i.rm), i.shift, i.imm6, len)
        res == Logical(i.opc, reg(cpu, i.sf, i.rn),
                       IF i.N = 1 THEN not(op2, len) ELSE op2)
        set == cpu_set_xreg(cpu, i.rd, res)
    IN  IF i.imm6 >= len THEN Stop("ERR", cpu)
        ELSE Done(IF i.opc = "ANDS" THEN [set EXCEPT !.nzcv = FlagsNZ(res, len)]
                                    ELSE set)

exec_add_sub_shifted(cpu, i) ==
    IF i.shift = "ROR" \/ i.imm6 >= Width(i.sf) THEN Stop("ERR", cpu)
    ELSE AddSub(cpu, i, reg(cpu, i.sf, i.rn),
                apply_shift(reg(cpu, i.sf, i.rm), i.shift, i.imm6, Width(i.sf)),
                FALSE)

exec_add_sub_extended(cpu, i) ==
    IF i.imm3 > 4 THEN Stop("ERR", cpu)
    ELSE AddSub(cpu, i, Low(cpu_xreg_sp(cpu, i.rn), Width(i.sf)),
                Low(extend_reg(cpu, i.rm, i.option, i.imm3), Width(i.sf)),
                TRUE)

\* CCMP and CCMN; the operand is a register or a small immediate.
exec_cond_compare(cpu, i) ==
    LET len == Width(i.sf)
        a == reg(cpu, i.sf, i.rn)
        b == IF i.is_imm THEN i.imm5 ELSE reg(cpu, i.sf, i.rm)
    IN  IF ~i.valid THEN Stop("ERR", cpu)
        ELSE Done([cpu EXCEPT !.nzcv =
                 IF ~cpu_check_cond(cpu.nzcv, i.cond) THEN i.nzcv_imm
                 ELSE IF i.op = 0
                 THEN cpu_update_flags_add(a, b, Low(a + b, len), len)
                 ELSE cpu_update_flags_sub(a, b, Low(a - b, len), len)])

exec_cond_select(cpu, i) ==
    LET m == cpu_xreg(cpu, i.rm)
        res == IF cpu_check_cond(cpu.nzcv, i.cond) THEN cpu_xreg(cpu, i.rn)
               ELSE CASE i.op = "CSEL" -> m
                      [] i.op = "CSINC" -> Low(m + 1, XLEN)
                      [] i.op = "CSINV" -> not(m, XLEN)
                      [] OTHER -> Low(not(m, XLEN) + 1, XLEN)
    IN  Done(set_reg(cpu, i.sf, i.rd, res))

\* C division truncates towards zero; the least negative number by -1 is
\* kept apart because it overflows.
Quotient(n, m) ==
    IF (n < 0) = (m < 0) THEN (IF n < 0 THEN -n ELSE n) \div (IF m < 0 THEN -m ELSE m)
    ELSE -((IF n < 0 THEN -n ELSE n) \div (IF m < 0 THEN -m ELSE m))

Divided(n, m, len) ==
    IF S(n, len) = -(2^(len - 1)) /\ S(m, len) = -1 THEN 2^(len - 1)
    ELSE Low(Quotient(S(n, len), S(m, len)), len)

exec_dp_2src(cpu, i) ==
    LET len == Width(i.sf)
        n == reg(cpu, i.sf, i.rn)
        m == reg(cpu, i.sf, i.rm)
        amt == m % len
        res == CASE i.opcode \in {"UDIV", "SDIV"} /\ m = 0 -> 0
                 [] i.opcode = "UDIV" /\ m /= 0 -> n \div m
                 [] i.opcode = "SDIV" /\ m /= 0 -> Divided(n, m, len)
                 [] i.opcode = "LSLV" -> shl(n, amt, len)
                 [] i.opcode = "LSRV" -> shr(n, amt)
                 [] i.opcode = "ASRV" -> asr(n, amt, len)
                 [] i.opcode = "RORV" /\ amt = 0 -> n
                 [] OTHER -> shr(n, amt) + shl(n, len - amt, len)
    IN  IF i.opcode = "RES" THEN Stop("UNIMPL", cpu)
        ELSE Done(cpu_set_xreg(cpu, i.rd, res))

\* The bytes of each group of n bytes in the opposite order.
SwapBytes(val, n) ==
    SumSet({LET byte == p \div BLEN
            IN  2^(((byte \div n) * n + (n - 1 - (byte % n))) * BLEN + (p % BLEN)) :
                p \in Ones(val, XLEN)})

\* The number of bits equal to b from position p downwards.
RECURSIVE Leading(_, _, _)
Leading(val, b, p) ==
    IF p < 0 \/ bit(val, p) /= b THEN 0 ELSE 1 + Leading(val, b, p - 1)

exec_dp_1src(cpu, i) ==
    LET len == Width(i.sf)
        val == reg(cpu, i.sf, i.rn)
        res == CASE i.opcode = "RBIT" -> SumSet({2^(len - 1 - p) : p \in Ones(val, len)})
                 [] i.opcode = "REV16" -> SwapBytes(val, 2)
                 [] i.opcode = "REV32" -> SwapBytes(val, 4)
                 [] i.opcode = "REV" -> SwapBytes(val, 8)
                 [] i.opcode = "CLZ" -> Leading(val, 0, len - 1)
                 [] OTHER -> Leading(val, bit(val, len - 1), len - 2)
    IN  IF i.opcode = "RES" THEN Stop("UNIMPL", cpu)
        ELSE IF i.opcode = "REV" /\ ~i.sf THEN Stop("ERR", cpu)
        ELSE Done(cpu_set_xreg(cpu, i.rd, res))

\* Variant: the second cross product forgets the low half of the first.
MulHighDropped(a, b) ==
    LET h == 2^WLEN
        lo == (a % h) * (b % h)
        t1 == (a % h) * (b \div h) + lo \div h
        t2 == (a \div h) * (b % h)
    IN  [hi |-> Low((a \div h) * (b \div h) + t1 \div h + t2 \div h, XLEN),
         loZero |-> lo = 0 /\ t2 % h = 0]

\* The high word of a product of two words, built from the four products of
\* their halves: [hi, lo], where lo is only good for a test against zero.
MulHigh(a, b) ==
    LET h == 2^WLEN
        lo == (a % h) * (b % h)
        t1 == (a % h) * (b \div h) + lo \div h
        t2 == (a \div h) * (b % h) + (t1 % h)
    IN  [hi |-> Low((a \div h) * (b \div h) + t1 \div h + t2 \div h, XLEN),
         loZero |-> lo = 0 /\ t2 % h = 0]

Abs(n) == IF n < 0 THEN -n ELSE n

SMulHigh(sn, sm) ==
    LET p == MulHigh(Abs(sn), Abs(sm))
    IN  IF (sn < 0) = (sm < 0) THEN p.hi
        ELSE IF p.loZero THEN Low(not(p.hi, XLEN) + 1, XLEN)
        ELSE not(p.hi, XLEN)

exec_dp_3src(cpu, i) ==
    LET n == reg(cpu, i.sf, i.rn)
        m == reg(cpu, i.sf, i.rm)
        a == reg(cpu, i.sf, i.ra)
        nw == cpu_wreg(cpu, i.rn)
        mw == cpu_wreg(cpu, i.rm)
        res == CASE i.op = "MADD" -> Low(a + n * m, Width(i.sf))
                 [] i.op = "MSUB" -> Low(a - n * m, Width(i.sf))
                 [] i.op = "SMADDL" -> Low(a + S(nw, WLEN) * S(mw, WLEN), XLEN)
                 [] i.op = "SMSUBL" -> Low(a - S(nw, WLEN) * S(mw, WLEN), XLEN)
                 [] i.op = "UMADDL" -> Low(a + nw * mw, XLEN)
                 [] i.op = "UMSUBL" -> Low(a - nw * mw, XLEN)
                 [] i.op = "SMULH" -> SMulHigh(S(n, XLEN), S(m, XLEN))
                 [] OTHER -> MulHigh(n, m).hi
    IN  IF i.op = "RES" THEN Stop("UNIMPL", cpu)
        ELSE IF ~i.sf /\ i.op \notin {"MADD", "MSUB"} THEN Stop("ERR", cpu)
        ELSE Done(cpu_set_xreg(cpu, i.rd, res))

-----------------------------------------------------------------------------
(* System registers (exec_system.c).  Hints, barriers, cache maintenance   *)
(* and CLREX do nothing; "RO" stands for the identification and counter    *)
(* registers, which read as whatever the host says.                        *)

exec_mrs(cpu, i) ==
    Done(cpu_set_xreg(cpu, i.rt,
         CASE i.key \in DOMAIN cpu.sys -> cpu.sys[i.key]
           [] i.key = "RO" -> i.val
           [] OTHER -> 0))

exec_msr(cpu, i) ==
    Done(CASE i.key = "TPIDR" -> [cpu EXCEPT !.sys[i.key] = cpu_xreg(cpu, i.rt)]
           [] i.key \in {"FPCR", "FPSR"} ->
                 [cpu EXCEPT !.sys[i.key] = cpu_wreg(cpu, i.rt)]
           [] OTHER -> cpu)

exec_system(cpu, i) ==
    CASE i.kind \in {"HINT", "BARRIER", "CLREX", "SYS"} -> Done(cpu)
      [] i.kind = "MRS" -> exec_mrs(cpu, i)
      [] i.kind = "MSR" -> exec_msr(cpu, i)
      [] OTHER -> Stop("UNIMPL", cpu)

-----------------------------------------------------------------------------
(* Branches (exec_branch.c) and one instruction (cpu.c). *)

PcPlus(cpu, n) == Low(cpu.pc + n, XLEN)

\* A branch that is taken goes to the pc plus the offset, otherwise to the
\* next instruction.
Branch(cpu, i, taken) ==
    Done([cpu EXCEPT !.pc = PcPlus(cpu, IF taken THEN 4 * S(i.imm, OFF) ELSE 4)])

Linked(cpu, i) ==
    IF i.link THEN [cpu EXCEPT !.x[30] = PcPlus(cpu, 4)] ELSE cpu

exec_branch(cpu, i) ==
    CASE i.kind = "B" -> Branch(Linked(cpu, i), i, TRUE)
      [] i.kind = "B.cond" -> Branch(cpu, i, cpu_check_cond(cpu.nzcv, i.cond))
      [] i.kind = "CB" ->
            Branch(cpu, i, (reg(cpu, i.sf, i.rt) = 0) = (i.op = 0))
      [] i.kind = "TB" ->
            Branch(cpu, i, (bit(cpu_xreg(cpu, i.rt), i.bitpos) = 0) = (i.op = 0))
      [] i.kind = "SVC" -> Stop("SYSCALL", [cpu EXCEPT !.pc = PcPlus(cpu, 4)])
      [] i.kind = "BRK" -> Stop("BREAK", cpu)
      [] i.kind = "BR" ->
            Done([Linked(cpu, i) EXCEPT !.pc = cpu_xreg(cpu, i.rn)])
      [] i.kind \in {"HINT", "BARRIER", "CLREX", "SYS", "MRS", "MSR"} ->
            exec_system(cpu, i)
      [] OTHER -> Stop("UNIMPL", cpu)

\* The pc of a handler that left it alone is moved on, and so is the pc of a
\* branch to itself.
Advance(cpu, r) ==
    IF r.rc = "OK" /\ r.cpu.pc = cpu.pc
    THEN [r EXCEPT !.cpu.pc = PcPlus(cpu, 4)] ELSE r
=============================================================================
