------------------------------ MODULE MCMemory ------------------------------
(***************************************************************************)
(* Instances of Memory for TLC: one or two pages per request among four    *)
(* guest pages, and all behaviours of a few calls.  Clear cuts a behaviour *)
(* short once regions overlap, since the code says nothing about what      *)
(* follows.                                                                *)
(*                                                                         *)
(* The interpreter that runs a guest in such an address space is a         *)
(* function of the CPU state, so its properties are evaluated once, in one *)
(* initial state.  X registers have 8 bits (I), or 16 where an instruction *)
(* works on bytes or vectors (J: a byte has 2 bits); TLB pages have 16     *)
(* bytes and the TLB two entries.                                          *)
(***************************************************************************)
EXTENDS Memory

I == INSTANCE Interp WITH LG <- 3, IMM <- 2, OFF <- 3, PSHIFT <- 4, TLB_BITS <- 1
J == INSTANCE InterpSimd WITH LG <- 4, IMM <- 2, OFF <- 3, PSHIFT <- 4, TLB_BITS <- 1

Once == calls = 0 /\ ~aot

\* A few words with every mixture of signs in both widths, and addresses at and
\* across the ends of the pages and of the regions.
Few == {0, 1, 7, 8, 127, 128, 255}
Patterns == {0, 77, 128, 178, 255}
Edges ==
    {2 * J!PAGE - 2, 2 * J!PAGE, 3 * J!PAGE - 8, 3 * J!PAGE - 3, 3 * J!PAGE,
     4 * J!PAGE - 4, 5 * J!PAGE, 5 * J!PAGE + 3, 6 * J!PAGE - 4}
Doubles == {20333, 32769, 45666}
Stacks == Edges \cup {a \in 18..104 : a % 2 = 0 /\ a % 7 < 3}

\* A compare and the conditional branch, conditional compare or conditional
\* select after it decide by the relation of the two numbers, for all sixteen
\* conditions and both widths (cpu_update_flags_*, cpu_check_cond), and a call
\* returns behind itself (exec_branch).
Decisions ==
    Once => /\ I!CompareAndBranch(I!Corners)
            /\ I!CompareChain(Few)
            /\ I!CallReturn(2..7)

\* MUL with UMULH or SMULH is the exact double-width product of any two words,
\* and a division followed by MSUB leaves the remainder of C, also where the
\* divisor is zero or the quotient overflows (exec_dp_3src, exec_dp_2src).  The
\* vector sums, saturating sums, halving sums and products are what the widening
\* and narrowing instructions lead to, a reduction is the repeated pairwise
\* instruction, and shifts by a register agree with those by an immediate
\* (exec_three_same, exec_three_diff, exec_two_reg_misc, exec_across_lanes).
Arithmetic ==
    Once => /\ I!WideProduct(I!Words)
            /\ I!Remainder(I!Corners)
            /\ J!WidenNarrow(Doubles)
            /\ J!Reductions(Doubles)
            /\ J!RegisterShifts(Doubles)

\* The logical immediates are exactly the repeated rotated runs of ones; an
\* inserted field is extracted again and disturbs nothing else; the three
\* encodings of a shift agree; counts, reversals and constants built quarter by
\* quarter are what they stand for (decode_bitmask_imm, exec_bitfield,
\* apply_shift, exec_dp_1src, exec_move_wide).  Vector elements are moved without
\* touching their neighbours, permutations undo each other, and immediates build
\* every word (exec_ins_element, exec_permute, exec_simd_mod_imm).
BitFields ==
    Once => /\ I!LogicalImmediates(BOOLEAN)
            /\ I!FieldMoves(Patterns)
            /\ I!ShiftsAgree(I!Words)
            /\ J!CountsAndReversals(J!Corners)
            /\ I!Constants(I!Words)
            /\ J!Rearranged(Doubles)
            /\ J!ElementMoves(Doubles)
            /\ J!VectorConstants(Doubles)

\* The TLB cannot be seen: whatever access filled it, every load, store and
\* pair at the ends of pages and regions moves the guest's bytes, and an access
\* that faults moves neither bytes nor the base register; a store-exclusive
\* stores once per load-exclusive (cpu_tlb_lookup, exec_ldst).  Structures of
\* vector elements are loaded and stored in their order, also where they cross
\* into another region and the host pointer is missing (exec_simd_ldst_multi).
Accesses ==
    Once => /\ J!TlbTransparent(Edges)
            /\ J!PushPop(Stacks)
            /\ J!PushPopVector(Stacks)
            /\ J!ExclusiveOnce(Edges)
            /\ J!StructureLoads(Edges \cup {J!PAGE, J!PAGE + 1})
            /\ J!StructureStores(Edges \cup {J!PAGE, J!PAGE + 1})
            /\ J!ElementAccesses({2 * J!PAGE, 5 * J!PAGE})
=============================================================================
