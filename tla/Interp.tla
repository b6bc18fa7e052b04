------------------------------- MODULE Interp -------------------------------
(***************************************************************************)
(* What the instruction interpreter of CpuRun must compute.                *)
(* Short programs are run on all, or on the extreme, operands and compared *)
(* with integer arithmetic, with plain memory, or with the program that    *)
(* undoes them.                                                            *)
(***************************************************************************)
EXTENDS CpuRun

\* Code in the first region; the second is read-only and follows it in the
\* guest but not in the host; the third shares TLB entries with both.
PAGE == 2^PSHIFT
Regions ==
    {[base |-> PAGE, size |-> 2 * PAGE, prot |-> {"R", "W"}, host |-> 2 * PAGE],
     [base |-> 3 * PAGE, size |-> PAGE, prot |-> {"R"}, host |-> 0],
     [base |-> 5 * PAGE, size |-> PAGE, prot |-> {"R", "W"}, host |-> PAGE]}

Machine(a, b, c) ==
    cpu_tlb_flush(
        [x |-> 0 :> a @@ 1 :> b @@ 2 :> c @@ 3 :> 2 @@ 30 :> 2,
         sp |-> 2 * PAGE, pc |-> PAGE, nzcv |-> {},
         v |-> 0 :> <<a, b>> @@ 1 :> <<c, a>> @@ [k \in 2..7 |-> <<b, c>>],
         sys |-> [TPIDR |-> 0, TPIDRRO |-> 0, FPCR |-> 0, FPSR |-> 0],
         excl |-> [active |-> FALSE, addr |-> 0, val |-> 0],
         mem |-> [regions |-> Regions,
                  bytes |-> [h \in 0..(4 * PAGE - 1) |->
                                Low(h + h \div 3 + h \div PAGE, BLEN)]],
         tlb |-> << >>])

\* All words, and the ones around the ends of the signed and the unsigned range
\* of both widths, with other bits above a 32-bit operand.
Words == 0..(2^XLEN - 1)
Corners ==
    {0, 1, 2, 2^XLEN - 1, 2^XLEN - 2}
    \cup {2^(len - 1) + d : len \in {WLEN, XLEN}, d \in {-2, -1, 0, 1}}
    \cup {2^XLEN - 2^WLEN + d : d \in {-1, 0, 1, 2^(WLEN - 1) - 1, 2^(WLEN - 1)}}

-----------------------------------------------------------------------------
(* Comparisons and conditions. *)

Cmp(sf, op, rn, rm) ==
    [group |-> "dp_reg", handler |-> "add_sub_shifted", sf |-> sf, op |-> op,
     S |-> TRUE, shift |-> "LSL", imm6 |-> 0, rn |-> rn, rm |-> rm, rd |-> 31]

CCmp(sf, op, rn, rm, cond, nzcv) ==
    [group |-> "dp_reg", handler |-> "cond_compare", sf |-> sf, op |-> op,
     valid |-> TRUE, is_imm |-> FALSE, rn |-> rn, rm |-> rm, cond |-> cond,
     nzcv_imm |-> nzcv]

BCond(cond) ==
    [group |-> "branch", kind |-> "B.cond", cond |-> cond, imm |-> 3]

CSel(op, sf, cond) ==
    [group |-> "dp_reg", handler |-> "cond_select", op |-> op, sf |-> sf,
     cond |-> cond, rn |-> 0, rm |-> 1, rd |-> 3]

\* What a condition says of the sum or difference of two numbers, computed
\* without wrapping; odd conditions negate, AL and NV always hold.
Says(k, x, carry, over, len) ==
    CASE k = 0 -> x % 2^len = 0
      [] k = 1 -> carry
      [] k = 2 -> x % 2^len >= 2^(len - 1)
      [] k = 3 -> x < -(2^(len - 1)) \/ x >= 2^(len - 1)
      [] k = 4 -> over
      [] k = 5 -> x >= 0
      [] k = 6 -> x > 0
      [] OTHER -> TRUE

Meant(cond, op, a, b, len) ==
    LET k == cond \div 2
        holds == IF op = 0
                 THEN Says(k, S(a, len) + S(b, len), a + b >= 2^len,
                           a + b > 2^len, len)
                 ELSE Says(k, S(a, len) - S(b, len), a >= b, a > b, len)
    IN  IF cond % 2 = 1 /\ cond /= 15 THEN ~holds ELSE holds

\* A compare (CMP, CMN) followed by a conditional branch jumps exactly when the
\* relation of the two numbers named by the condition holds: signed, unsigned,
\* equality, sign and overflow, in both widths.
CompareAndBranch(D) ==
    \A sf \in BOOLEAN, op \in {0, 1} : \A a, b \in D :
        \A r \in cpu_run(Machine(a, b, 0), <<Cmp(sf, op, 0, 1)>>) :
            \A cond \in 0..15 :
                \A q \in cpu_exec_one(r.cpu, BCond(cond)) :
                    /\ q.rc = "OK"
                    /\ q.cpu.pc = PAGE + 4
                        + (IF Meant(cond, op, Low(a, Width(sf)), Low(b, Width(sf)), Width(sf))
                           THEN 12 ELSE 4)

\* A conditional compare continues a comparison: it decides when its own
\* condition holds, and otherwise the flags it carries do (here Z and C).  A
\* conditional select takes the outcome, and negates what it did not choose.
CompareChain(D) ==
    \A sf \in BOOLEAN : \A a, b, c \in {Low(d, Width(sf)) : d \in D} :
        \A r \in cpu_run(Machine(a, b, c), <<Cmp(sf, 1, 0, 1)>>) :
            \A c1 \in {0, 3, 8, 11}, c2 \in {1, 2, 9, 12} :
                \A q \in cpu_run(r.cpu, <<CCmp(sf, 1, 1, 2, c1, {"Z", "C"}),
                                          CSel("CSNEG", sf, c2)>>) :
                    q.cpu.x[3] = IF IF Meant(c1, 1, a, b, Width(sf))
                                    THEN Meant(c2, 1, b, c, Width(sf))
                                    ELSE c2 \in {2, 9}
                                 THEN a ELSE Low(-b, Width(sf))

-----------------------------------------------------------------------------
(* Products and quotients. *)

Dp3(op, sf, ra) ==
    [group |-> "dp_reg", handler |-> "dp_3src", op |-> op, sf |-> sf,
     rn |-> 0, rm |-> 1, ra |-> ra, rd |-> 3]

Dp2(opcode, sf) ==
    [group |-> "dp_reg", handler |-> "dp_2src", opcode |-> opcode, sf |-> sf,
     rn |-> 0, rm |-> 1, rd |-> 3]

X3(r) == r.cpu.x[3]

\* SMULH and UMULH with the low word of MUL are the exact double-width product
\* of any two words: the carries between the four partial products are kept,
\* and the test of the low word that decides how a negative product is
\* complemented is right although that low word is not the product's.
WideProduct(D) ==
    \A a, b \in D :
        LET m == Machine(a, b, 0)
            lo == X3(exec_dp_3src(m, Dp3("MADD", TRUE, 31)))
        IN  /\ X3(exec_dp_3src(m, Dp3("UMULH", TRUE, 31))) * 2^XLEN + lo = a * b
            /\ S(X3(exec_dp_3src(m, Dp3("SMULH", TRUE, 31))), XLEN) * 2^XLEN + lo
                 = S(a, XLEN) * S(b, XLEN)

\* r is a remainder of n by m that has the sign of n.
RemainderOf(r, n, m) ==
    /\ Abs(r) < Abs(m)
    /\ r = 0 \/ (r < 0) = (n < 0)
    /\ (n - r) % Abs(m) = 0

\* A division followed by a multiply-subtract leaves the remainder of C, of the
\* sign of the dividend; a division by zero leaves the dividend, and the one
\* signed overflow the remainder zero.
Remainder(D) ==
    \A sf \in BOOLEAN, op \in {"SDIV", "UDIV"} : \A a, b \in D :
        \A q \in cpu_run(Machine(a, b, 0), <<Dp2(op, sf)>>) :
            LET len == Width(sf)
                rem == X3(exec_dp_3src([q.cpu EXCEPT !.x[2] = X3(q)],
                              [Dp3("MSUB", sf, 0) EXCEPT !.rn = 2]))
                val(w) == IF op = "SDIV" THEN S(Low(w, len), len) ELSE Low(w, len)
            IN  IF Low(b, len) = 0 THEN rem = Low(a, len)
                ELSE RemainderOf(val(rem), val(a), val(b))

-----------------------------------------------------------------------------
(* Masks, fields and shifts. *)

\* w repeats an element of e bits whose ones are one run on a circle.
IsMask(w, len) ==
    \E e \in {2^k : k \in 1..LG} :
        /\ e <= len
        /\ \A i \in 0..(len - 1) : bit(w, i) = bit(w, i % e)
        /\ Cardinality({i \in 0..(e - 1) :
                          bit(w, i) = 1 /\ bit(w, (i + 1) % e) = 0}) = 1

\* The logical immediates are exactly the repeated, rotated runs of ones that
\* are neither empty nor full; every other encoding is refused.
LogicalImmediates(sfs) ==
    \A sf \in sfs :
        UNION {decode_bitmask_imm(sf, N, immr, imms) :
                  N \in {0, 1}, immr \in 0..(XLEN - 1), imms \in 0..(XLEN - 1)}
        = {w \in 0..(2^Width(sf) - 1) : IsMask(w, Width(sf))}

Bfm(opc, sf, immr, imms, rn, rd) ==
    [group |-> "dp_imm", handler |-> "bitfield", opc |-> opc, sf |-> sf,
     immr |-> immr, imms |-> imms, rn |-> rn, rd |-> rd]

Field(w, lsb, n) == Low(shr(w, lsb), n)

\* A field of n bits inserted at lsb (BFI) is found there again by the unsigned
\* and the signed extraction, and no other bit of the destination changes.
\* The field that fills an X register is left out: its mask is undefined.
FieldMoves(D) ==
    \A sf \in BOOLEAN : \A lsb \in 0..(Width(sf) - 1) :
        \A n \in 1..(Width(sf) - lsb) : \A a, b \in D :
            n < XLEN =>
            \A r \in cpu_run(Machine(a, b, 0),
                       <<Bfm("BFM", sf, (Width(sf) - lsb) % Width(sf), n - 1, 0, 1),
                         Bfm("UBFM", sf, lsb, lsb + n - 1, 1, 2),
                         Bfm("SBFM", sf, lsb, lsb + n - 1, 1, 3)>>) :
                /\ r.cpu.x[2] = Low(a, n)
                /\ X3(r) = Low(S(Low(a, n), n), Width(sf))
                /\ \A k \in 0..(XLEN - 1) :
                       bit(r.cpu.x[1], k) =
                           IF k \in lsb..(lsb + n - 1) THEN bit(a, k - lsb)
                           ELSE IF k < Width(sf) THEN bit(b, k) ELSE 0

ShiftedOrr(shift, sf, n) ==
    [group |-> "dp_reg", handler |-> "logical_shifted", opc |-> "ORR", N |-> 0,
     sf |-> sf, shift |-> shift, imm6 |-> n, rn |-> 31, rm |-> 0, rd |-> 3]

Extr(sf, n) ==
    [group |-> "dp_imm", handler |-> "extract", sf |-> sf, imms |-> n,
     rn |-> 0, rm |-> 0, rd |-> 3]

\* The three ways to shift by n agree: by a register, by a shifted operand, and
\* by the bit field or extract instruction the immediate shift is encoded as.
ShiftsAgree(D) ==
    \A sf \in BOOLEAN : \A n \in 1..(Width(sf) - 1), a \in D :
        LET len == Width(sf)
            m == Machine(a, n, 0)
            Imm(k) == CASE k = 1 -> exec_bitfield(m, Bfm("UBFM", sf, len - n, len - 1 - n, 0, 3))
                        [] k = 2 -> exec_bitfield(m, Bfm("UBFM", sf, n, len - 1, 0, 3))
                        [] k = 3 -> exec_bitfield(m, Bfm("SBFM", sf, n, len - 1, 0, 3))
                        [] OTHER -> {exec_extract(m, Extr(sf, n))}
        IN  \A k \in 1..4 : \A r \in Imm(k) :
                /\ X3(r) = X3(exec_dp_2src(m, Dp2(<<"LSLV", "LSRV", "ASRV", "RORV">>[k], sf)))
                /\ X3(r) = X3(exec_logical_shifted(m,
                               ShiftedOrr(<<"LSL", "LSR", "ASR", "ROR">>[k], sf, n)))

Dp1(opcode, sf) ==
    [group |-> "dp_reg", handler |-> "dp_1src", opcode |-> opcode, sf |-> sf,
     rn |-> 0, rd |-> 3]

\* CLZ and CLS count what their result is defined by: the place of the first 1
\* and the width of the smallest signed range the value fits; RBIT and REV
\* place every bit and every byte, RBIT twice or REV16 twice nothing.
CountsAndReversals(D) ==
    \A sf \in BOOLEAN : \A a \in D :
        LET len == Width(sf)
            w == Low(a, len)
            Of(op) == X3(exec_dp_1src(Machine(a, 0, 0), Dp1(op, sf)))
            Twice(op) == X3(exec_dp_1src(Machine(Of(op), 0, 0), Dp1(op, sf)))
            fits(k) == S(w, len) \in -(2^(k - 1))..(2^(k - 1) - 1)
        IN  /\ w \div 2^(len - Of("CLZ")) = 0
            /\ w /= 0 => w \div 2^(len - 1 - Of("CLZ")) = 1
            /\ fits(len - Of("CLS"))
            /\ len - Of("CLS") > 1 => ~fits(len - Of("CLS") - 1)
            /\ \A k \in 0..(len - 1) : bit(Of("RBIT"), k) = bit(w, len - 1 - k)
            /\ \A k \in 0..(len \div BLEN - 1) :
                   Field(Of("REV32"), BLEN * k, BLEN) =
                       Field(w, BLEN * (4 * (k \div 4) + 3 - (k % 4)), BLEN)
            /\ \A op \in {"RBIT", "REV16", "REV32"} : Twice(op) = w

Mov(opc, sf, hw, imm16) ==
    [group |-> "dp_imm", handler |-> "move_wide", opc |-> opc, sf |-> sf,
     hw |-> hw, imm16 |-> imm16, rd |-> 3]

\* A MOVZ or MOVN of one quarter and MOVKs of the others, in any order of two,
\* build any constant whatever the register held.
Constants(D) ==
    \A sf \in BOOLEAN : \A a \in {Low(d, Width(sf)) : d \in D} :
        LET quarter(h) == Field(a, h * HLEN, HLEN)
            order == IF sf THEN <<2, 0, 3, 1>> ELSE <<1, 0>>
            rest == [k \in 1..(Len(order) - 1) |->
                        Mov("MOVK", sf, order[k + 1], quarter(order[k + 1]))]
        IN  \A first \in {Mov("MOVZ", sf, order[1], quarter(order[1])),
                          Mov("MOVN", sf, order[1], 2^HLEN - 1 - quarter(order[1]))} :
                \A r \in cpu_run(Machine(0, 0, 0), <<first>> \o rest) :
                    r.rc = "OK" /\ X3(r) = a

\* A call comes back behind itself, through the link register or any other, and
\* a branch to a branch register goes there.
CallReturn(Offsets) ==
    \A off \in Offsets :
        \A r \in cpu_run([Machine(0, 0, 0) EXCEPT !.pc = 2 * PAGE],
                   <<[group |-> "branch", kind |-> "B", link |-> TRUE, imm |-> off],
                     [group |-> "branch", kind |-> "BR", link |-> TRUE, rn |-> 30],
                     [group |-> "branch", kind |-> "BR", link |-> FALSE, rn |-> 30]>>) :
            /\ r.rc = "OK"
            /\ r.cpu.pc = 2 * PAGE + 4 * S(off, OFF) + 4

-----------------------------------------------------------------------------
(* Loads and stores. *)

\* The bytes of the guest, found without the TLB.
Mapped == UNION {r.base..(r.base + r.size - 1) : r \in Regions}
GuestBytes(cpu) ==
    [g \in Mapped |->
        cpu.mem.bytes[CHOOSE h \in mem_translate(cpu.mem, g, 1, "R") : TRUE]]

Ldst(size, opc, idx, imm9, rn, rt) ==
    [group |-> "ldst", handler |-> "imm9", size |-> size, opc |-> opc, V |-> FALSE,
     idx |-> idx, imm9 |-> imm9, rn |-> rn, rt |-> rt]

\* The accesses the code implements: a prefetch (size 3, opc 2) is not one.
Implemented(size, opc) ==
    opc <= 1 \/ (opc = 2 /\ size < 3) \/ (opc = 3 /\ size < 2)

\* The effect of one access at addr on the guest: the result of cpu must be r.
Accessed(cpu, r, i, addr, base) ==
    LET n == 2^i.size
        bits == n * BLEN
        before == GuestBytes(cpu)
        sum[k \in 0..n] == IF k = n THEN 0 ELSE before[addr + k] + 2^BLEN * sum[k + 1]
        ok == /\ Implemented(i.size, i.opc)
              /\ mem_translate(cpu.mem, addr, n, IF i.opc = 0 THEN "W" ELSE "R") /= {}
        loaded == CASE i.opc = 1 -> sum[0]
                    [] i.opc = 2 -> Low(S(sum[0], bits), XLEN)
                    [] OTHER -> Low(S(sum[0], bits), WLEN)
        stored == [g \in Mapped |-> IF g \in addr..(addr + n - 1)
                       THEN Field(cpu.x[i.rt], BLEN * (g - addr), BLEN) ELSE before[g]]
    IN  /\ r.rc = IF ok THEN "OK" ELSE "SEGFAULT"
        /\ r.cpu.x = IF ~ok THEN cpu.x
                     ELSE [cpu.x EXCEPT ![i.rn] = base,
                               ![i.rt] = IF i.opc = 0 THEN cpu.x[i.rt] ELSE loaded]
        /\ GuestBytes(r.cpu) = IF ok /\ i.opc = 0 THEN stored ELSE before

\* Whatever access filled the TLB before, a load brings the extended bytes of
\* the guest, a store changes those bytes and no others, both across pages and
\* at the ends of regions; the base moves only with an access that succeeds,
\* and one that faults changes no register and no byte.
TlbTransparent(Starts) ==
    \A w, s \in Starts, warm \in {0, 1} :
        \A m \in {exec_ldst(Machine(w, s, 2^XLEN - 5),
                            Ldst(2, warm, "unscaled", 0, 0, 3)).cpu} :
            \A size \in 0..3, opc \in 0..3, idx \in {"unscaled", "pre", "post"},
               imm9 \in {1, 2^OFF - 2} :
                \A i \in {Ldst(size, opc, idx, imm9, 1, 2)}, moved \in {s + S(imm9, OFF)} :
                    Accessed(m, exec_ldst(m, i), i, IF idx = "post" THEN s ELSE moved,
                             IF idx = "unscaled" THEN s ELSE moved)

Pair(V, opc, L, idx, imm7, rt, rt2) ==
    [group |-> "ldst", handler |-> "pair", V |-> V, opc |-> opc, L |-> L, idx |-> idx,
     imm7 |-> imm7, rn |-> 1, rt |-> rt, rt2 |-> rt2]

\* A pair pushed below the base is popped again into other registers and the
\* base is back; a push that faults leaves the base where it was.
PushPop(Starts) ==
    \A s \in Starts, opc \in {0, 2} :
        \A m \in {Machine(2^XLEN - 3, s, 2^XLEN - 4)} :
        \A one \in {exec_ldst(m, Pair(FALSE, opc, FALSE, "pre", 2^OFF - 2, 0, 2))} :
        \A two \in {exec_ldst(one.cpu, Pair(FALSE, opc, TRUE, "post", 2, 3, 30))} :
            LET len == IF opc = 0 THEN WLEN ELSE XLEN IN
            IF one.rc = "OK"
            THEN /\ two.rc = "OK" /\ two.cpu.x[1] = s
                 /\ two.cpu.x[3] = Low(m.x[0], len)
                 /\ two.cpu.x[30] = Low(m.x[2], len)
            ELSE one.cpu.x = m.x

\* The same for vector registers of 4, 8 and 16 bytes: the rest is cleared.
PushPopVector(Starts) ==
    \A s \in Starts, opc \in 0..2 :
        \A m \in {Machine(2^XLEN - 3, s, 2^XLEN - 4)} :
        \A one \in {exec_ldst(m, Pair(TRUE, opc, FALSE, "pre", 2^OFF - 2, 0, 1))} :
        \A two \in {exec_ldst(one.cpu, Pair(TRUE, opc, TRUE, "post", 2, 1, 0))} :
        LET kept(v) == CASE opc = 0 -> <<Low(v[1], WLEN), 0>>
                         [] opc = 1 -> <<v[1], 0>>
                         [] OTHER -> v
        IN  IF one.rc = "OK"
            THEN /\ two.rc = "OK"
                 /\ two.cpu.x[1] = s
                 /\ two.cpu.v[1] = kept(m.v[0]) /\ two.cpu.v[0] = kept(m.v[1])
            ELSE one.cpu.x = m.x /\ one.cpu.v = m.v

Exclusive(L, rn) ==
    [group |-> "ldst", handler |-> "exclusive", size |-> 2, o2 |-> 0, L |-> L,
     rs |-> 3, rn |-> rn, rt |-> IF L THEN 30 ELSE 2]

\* A store-exclusive stores only behind a load-exclusive of its own address,
\* once, and reports what it did.
ExclusiveOnce(Starts) ==
    \A s, t \in Starts :
        \A m \in {exec_ldst(Machine(t, s, 2^XLEN - 5), Exclusive(TRUE, 1))} :
        \A one \in {exec_ldst(m.cpu, Exclusive(FALSE, 0))} :
        \A two \in {exec_ldst(one.cpu, Exclusive(FALSE, 0))} :
            one.rc = "OK" =>
            /\ X3(one) = IF s = t THEN 0 ELSE 1
            /\ s /= t => GuestBytes(one.cpu) = GuestBytes(m.cpu)
            /\ two.rc = "OK" /\ X3(two) = 1
            /\ GuestBytes(two.cpu) = GuestBytes(one.cpu)
=============================================================================
