----------------------------- MODULE InterpSimd -----------------------------
(***************************************************************************)
(* What the vector instructions of Simd must compute: programs that lead   *)
(* to one result along two ways, or back to where they began.  Every       *)
(* instruction is given by its encoding and goes through the selection of  *)
(* exec_simd.                                                              *)
(*                                                                         *)
(* A machine has <<a, b>> in V0, <<c, a>> in V1 and <<b, c>> in V2 to V7.  *)
(***************************************************************************)
EXTENDS Interp

Vec(op0, Q, U, size, b21, rm, op, rn, rd) ==
    [group |-> IF op0 \in {12, 13} THEN "ldst" ELSE "simd", handler |-> "simd",
     op0 |-> op0, Q |-> Q, U |-> U, size |-> size, b21 |-> b21, rm |-> rm, op |-> op,
     rn |-> rn, rd |-> rd]

Same(opcode, U, Q, size, rn, rm, rd) == Vec(14, Q, U, size, 1, rm, 2 * opcode + 1, rn, rd)
Diff(opcode, U, Q, size, rn, rm, rd) == Vec(14, Q, U, size, 1, rm, 4 * opcode, rn, rd)
Misc(opcode, U, Q, size, rn, rd) ==
    Vec(14, Q, U, size, 1, opcode \div 16, 4 * (opcode % 16) + 2, rn, rd)
AcrossV(opcode, U, Q, size, rn, rd) ==
    Vec(14, Q, U, size, 1, 16 + opcode \div 16, 4 * (opcode % 16) + 2, rn, rd)
Perm(opcode, Q, size, rn, rm, rd) == Vec(14, Q, 0, size, 0, rm, 4 * opcode + 2, rn, rd)
Copy(op, Q, size, idx, rn, rd) == Vec(14, Q, 0, 0, 0, (2 * idx + 1) * 2^size, op, rn, rd)
ModImm(Q, U, cmode, imm8, rd) ==
    Vec(15, Q, U, 0, 0, imm8 \div 32, 4 * cmode + 1, imm8 % 32, rd)
ShiftImm(opcode, U, Q, field, rn, rd) ==
    LET immh == field \div BLEN
    IN  Vec(15, Q, U, immh \div 8, (immh \div 4) % 2, 8 * (immh % 4) + (field % BLEN),
            2 * opcode + 1, rn, rd)

\* Every instruction of the program succeeds and P holds of the machine after it.
After(m, prog, P(_)) == \A r \in cpu_run(m, prog) : r.rc = "OK" /\ P(r.cpu)

\* A shift to the right by n of elements of a size.
ShiftRight(U, Q, size, n, rn, rd) ==
    ShiftImm(0, U, Q, 2 * esize_bits(size) - n, rn, rd)

-----------------------------------------------------------------------------
(* Arithmetic. *)

\* The sum of widened elements, narrowed again, is the sum (ADD), narrowed with
\* saturation the saturating sum (SQADD, UQADD), the number of the range of an
\* element that is nearest to the exact sum, and halved before narrowing the
\* halving sum (SHADD, UHADD); the same of the product.  Both halves of the
\* registers take part, and no carry leaves its element.
WidenNarrow(D) ==
    \A a, b, c \in D : \A m \in {Machine(a, b, c)} : \A size \in 0..2, U \in {0, 1} :
        LET wide(opcode) == <<Diff(opcode, U, 0, size, 0, 1, 2), Diff(opcode, U, 1, size, 0, 1, 3)>>
            narrow(opcode, u) == <<Misc(opcode, u, 0, size, 2, 4), Misc(opcode, u, 1, size, 3, 4)>>
            halve == <<ShiftRight(U, 1, size + 1, 1, 2, 2), ShiftRight(U, 1, size + 1, 1, 3, 3)>>
            direct(opcode, u) == <<Same(opcode, u, 1, size, 0, 1, 5)>>
            agree(cpu) == cpu.v[4] = cpu.v[5]
            exact(k) == velem(m.v[0], size, k, U) + velem(m.v[1], size, k, U)
            top == 2^(esize_bits(size) - (1 - U)) - 1
            clipped(x) == Max({U * (top + 1) - top - 1, Min({top, x})})
        IN  /\ After(m, wide(0) \o narrow(18, 0) \o direct(16, 0), agree)
            /\ After(m, wide(2) \o narrow(18, 0) \o direct(16, 1), agree)
            /\ After(m, wide(0) \o narrow(20, U) \o direct(1, U), LAMBDA cpu :
                     /\ agree(cpu)
                     /\ \A k \in 0..(16 \div 2^size - 1) :
                            velem(cpu.v[5], size, k, U) = clipped(exact(k)))
            /\ After(m, wide(0) \o halve \o narrow(18, 0) \o direct(0, U), agree)
            /\ After(m, wide(12) \o narrow(18, 0) \o direct(19, 0), agree)

\* The reduction of a register (ADDV, SMAXV, UMAXV, SMINV, UMINV) is what the
\* pairwise instruction leaves in the first element when it is repeated, and the
\* long sum (UADDLV) that of the widened pairs.
Reductions(D) ==
    \A a, b, c \in D : \A m \in {Machine(a, b, c)} :
        \A size \in 0..2, U \in {0, 1}, op \in {<<27, 23>>, <<10, 20>>, <<26, 21>>} :
            /\ After(m, <<Same(op[2], U, 1, size, 0, 0, 2)>>
                        \o [k \in 1..(3 - size) |-> Same(op[2], U, 1, size, 2, 2, 2)]
                        \o <<AcrossV(op[1], IF op[1] = 27 THEN 0 ELSE U, 1, size, 0, 3)>>,
                     LAMBDA cpu : /\ velem_u(cpu.v[2], size, 0) = velem_u(cpu.v[3], size, 0)
                                  /\ \A k \in 1..(16 \div 2^size - 1) :
                                         velem_u(cpu.v[3], size, k) = 0)
            /\ After(m, <<Misc(2, U, 1, size, 0, 2), AcrossV(27, 0, 1, size + 1, 2, 3),
                          AcrossV(3, U, 1, size, 0, 4)>>,
                     LAMBDA cpu : cpu.v[3] = cpu.v[4])

\* A shift by a register that holds n in every element (DUP) is to the left the
\* product with a power of two, and to the right the shift by an immediate, both
\* signed and unsigned; from the width of the element on nothing is left.
RegisterShifts(D) ==
    \A a, b \in D, size \in 0..2, U \in {0, 1} : \A n \in 1..esize_bits(size) :
        /\ After([Machine(a, b, 0) EXCEPT !.x[2] = Low(-n, XLEN)],
                 <<Copy(3, 1, size, 0, 2, 2), Same(8, U, 1, size, 0, 2, 4),
                   ShiftRight(U, 1, size, n, 0, 5)>>,
                 LAMBDA cpu : cpu.v[4] = cpu.v[5])
        /\ n < 2^(esize_bits(size) - 1) =>
             After([Machine(a, b, 0) EXCEPT !.x[2] = n, !.x[3] = 2^n],
                   <<Copy(3, 1, size, 0, 2, 2), Copy(3, 1, size, 0, 3, 3),
                     Same(8, U, 1, size, 0, 2, 4), Same(19, 0, 1, size, 0, 3, 5)>>,
                   LAMBDA cpu : cpu.v[4] = cpu.v[5])

-----------------------------------------------------------------------------
(* Elements and permutations. *)

\* What an instruction on Q * 8 + 8 bytes keeps of a register.
Kept(v, Q) == IF Q = 1 THEN v ELSE <<v[1], 0>>
Shapes == {s \in (0..3) \X {0, 1} : s /= <<3, 0>>}

\* Unzipping what was zipped, and transposing twice, gives both operands back,
\* also when the destination is an operand.
Rearranged(D) ==
    \A a, b, c \in D : \A m \in {Machine(a, b, c)} : \A s \in Shapes :
        \A ways \in {<<3, 1>>, <<1, 3>>, <<2, 2>>} :
            After(m, <<Perm(ways[1], s[2], s[1], 0, 1, 2),
                       Perm(ways[1] + 4, s[2], s[1], 0, 1, 3),
                       Perm(ways[2], s[2], s[1], 2, 3, 4),
                       Perm(ways[2] + 4, s[2], s[1], 2, 3, 3)>>,
                  LAMBDA cpu : cpu.v[4] = Kept(m.v[0], s[2]) /\ cpu.v[3] = Kept(m.v[1], s[2]))

\* An element put in (INS) is read back without (UMOV) and with its sign (SMOV),
\* is the one that INS from an element and DUP into another register copy, and
\* every other element stays.
ElementMoves(D) ==
    \A a, b, c \in D : \A m \in {Machine(a, b, c)} :
        \A size \in 0..3 : \A k \in 0..(16 \div 2^size - 1) :
            After(m, <<Copy(7, 1, size, k, 2, 0),
                       Copy(15, 1, size, k, 0, 3),
                       Copy(5, 1, size, k, 0, 30),
                       Copy(1, 1, size, k, 0, 4),
                       Copy(3, 1, size, 0, 2, 5),
                       [Copy(2 * k * 2^size + 1, 1, size, 0, 0, 1) EXCEPT !.U = 1]>>,
                  LAMBDA cpu :
                      /\ cpu.x[3] = Low(c, esize_bits(size))
                      /\ size < 3 => cpu.x[30] = sign_extend(c, esize_bits(size))
                      /\ cpu.v[4] = cpu.v[5]
                      /\ velem_u(cpu.v[1], size, 0) = cpu.x[3]
                      /\ \A j \in 0..(16 \div 2^size - 1) :
                             /\ j /= k => velem_u(cpu.v[0], size, j) = velem_u(m.v[0], size, j)
                             /\ j /= 0 => velem_u(cpu.v[1], size, j) = velem_u(m.v[1], size, j))

\* A word built byte by byte with MOVI and ORR is in every element, and MVNI
\* followed by BIC of the same bytes leaves its complement; both replace the
\* whole register.  Reversing twice changes nothing, and a byte and its
\* complement have BLEN ones between them.
VectorConstants(D) ==
    \A w \in {Low(d, WLEN) : d \in D}, U \in {0, 1}, n \in 0..2 :
        LET byte(k) == Low(shr(w, BLEN * k), BLEN)
            m == Machine(w, w, w)
            want == IF U = 0 THEN w ELSE not(w, WLEN)
        IN  /\ After(m, <<ModImm(1, U, 0, byte(0), 2), ModImm(1, U, 7, byte(3), 2),
                          ModImm(1, U, 3, byte(1), 2), ModImm(1, U, 5, byte(2), 2)>>,
                     LAMBDA cpu : cpu.v[2] = Vector(2, [k \in First(4) |-> want]))
            /\ After(m, <<Misc(0, 0, 1, n, 0, 2), Misc(0, 0, 1, n, 2, 3),
                          Misc(0, 1, 1, n, 0, 4), Misc(0, 1, 1, n, 4, 5)>>,
                     LAMBDA cpu : cpu.v[3] = m.v[0] /\ cpu.v[5] = m.v[0])
            /\ After(m, <<Misc(5, 0, 1, 0, 0, 2), Misc(5, 1, 1, 0, 0, 3), Misc(5, 0, 1, 0, 3, 4),
                          Same(16, 0, 1, 0, 2, 4, 5)>>,
                     LAMBDA cpu : cpu.v[5] = Vector(0, [k \in First(16) |-> BLEN]))

-----------------------------------------------------------------------------
(* Structures in memory. *)

Struct(opcode, L, Q, size, rt) == Vec(12, Q, 0, 2 + L, 0, 31, 4 * opcode + size, 1, rt)

\* A load of structures at s takes exactly the bytes of the guest, element e of
\* register r from place e * regs + r, across pages and from one region into the
\* next, and moves the base behind them; where a byte is not mapped it faults
\* and the base stays.
StructureLoads(Starts) ==
    \A s \in Starts, opcode \in DOMAIN Structures, sh \in (0..3) \X {0, 1} :
        \A m \in {Machine(2^XLEN - 3, s, 2^XLEN - 5)} :
        \A r \in {exec_simd(m, Struct(opcode, 1, sh[2], sh[1], 0))} :
            LET regs == Structures[opcode]
                n == 8 * (1 + sh[2])
                e == 2^sh[1]
                \* the place of byte k of register v
                place(v, k) == IF opcode \in Consecutive THEN v * n + k
                               ELSE ((k \div e) * regs + v) * e + (k % e)
            IN  IF s..(s + regs * n - 1) \subseteq Mapped
                THEN /\ r.rc = "OK" /\ r.cpu.x[1] = s + regs * n
                     /\ \A v \in 0..(regs - 1), k \in 0..15 :
                            velem_u(r.cpu.v[v], 0, k) =
                                IF k < n THEN GuestBytes(m)[s + place(v, k)] ELSE 0
                ELSE r.rc = "SEGFAULT" /\ r.cpu.x = m.x

\* A store of two interleaved registers (ST2) leaves the memory that storing
\* their zipped elements one after the other leaves (ZIP1, ZIP2, ST1), and LD2
\* brings them back; a store that faults leaves the base.
StructureStores(Starts) ==
    \A s \in Starts, sh \in Shapes :
        \A m \in {Machine(2^XLEN - 3, s, 2^XLEN - 5)} :
        \A one \in {exec_simd(m, Struct(8, 0, sh[2], sh[1], 0))} :
        \A zip \in {exec_simd(exec_simd(m, Perm(3, sh[2], sh[1], 0, 1, 2)).cpu,
                              Perm(7, sh[2], sh[1], 0, 1, 3))} :
        \A two \in {exec_simd(zip.cpu, Struct(10, 0, sh[2], sh[1], 2))} :
        \A back \in {exec_simd([one.cpu EXCEPT !.x[1] = s], Struct(8, 1, sh[2], sh[1], 4))} :
            /\ one.rc = two.rc /\ one.cpu.x = two.cpu.x
            /\ GuestBytes(one.cpu) = GuestBytes(two.cpu)
            /\ one.rc = "OK" => /\ back.rc = "OK" /\ one.cpu.x[1] = s + 16 * (1 + sh[2])
                                /\ \A v \in 0..1 : back.cpu.v[4 + v] = Kept(m.v[v], sh[2])
            /\ one.rc /= "OK" => one.cpu.x = m.x

\* One element stored from a register (ST1) is loaded back into any place of
\* another (LD1), and into all places at once (LD1R).
ElementAccesses(Starts) ==
    \A s \in Starts, size \in 0..3 : \A k \in 0..(16 \div 2^size - 1) :
        \A m \in {Machine(20333, s, 45666)} :
            LET sizebits == <<0, 16, 32, 33>>[size + 1]
                lane(L, rt) == Vec(13, (k * 2^size) \div 8, 0, L, 0, 0,
                                   sizebits + ((k * 2^size) % 8), 1, rt)
            IN  After([m EXCEPT !.pc = PAGE],
                      <<lane(0, 0), lane(1, 1), Vec(13, 1, 0, 1, 0, 0, 48 + size, 1, 3),
                        Copy(1, 1, size, k, 0, 4)>>,
                      LAMBDA cpu :
                          /\ cpu.v[3] = cpu.v[4]
                          /\ \A j \in 0..(16 \div 2^size - 1) :
                                 velem_u(cpu.v[1], size, j) =
                                     velem_u(m.v[IF j = k THEN 0 ELSE 1], size, j))
=============================================================================
