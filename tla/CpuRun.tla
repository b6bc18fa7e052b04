------------------------------- MODULE CpuRun -------------------------------
(***************************************************************************)
(* cpu_exec_one and cpu_run of cpu.c, which fetch an instruction and hand  *)
(* it to its handler.                                                      *)
(***************************************************************************)
EXTENDS Simd

(* One instruction: the fetch, the handler the instruction word selects,   *)
(* and the step of the pc.  The result is the set of the possible ones.    *)

exec_dp_imm(cpu, i) ==
    CASE i.handler = "pc_rel" -> {exec_pc_rel(cpu, i)}
      [] i.handler = "add_sub_imm" -> {exec_add_sub_imm(cpu, i)}
      [] i.handler = "logical_imm" -> {exec_logical_imm(cpu, i)}
      [] i.handler = "move_wide" -> {exec_move_wide(cpu, i)}
      [] i.handler = "bitfield" -> exec_bitfield(cpu, i)
      [] OTHER -> {exec_extract(cpu, i)}

exec_dp_reg(cpu, i) ==
    CASE i.handler = "logical_shifted" -> exec_logical_shifted(cpu, i)
      [] i.handler = "add_sub_extended" -> exec_add_sub_extended(cpu, i)
      [] i.handler = "add_sub_shifted" -> exec_add_sub_shifted(cpu, i)
      [] i.handler = "cond_compare" -> exec_cond_compare(cpu, i)
      [] i.handler = "cond_select" -> exec_cond_select(cpu, i)
      [] i.handler = "dp_1src" -> exec_dp_1src(cpu, i)
      [] i.handler = "dp_2src" -> exec_dp_2src(cpu, i)
      [] i.handler = "dp_3src" -> exec_dp_3src(cpu, i)
      [] OTHER -> Stop("UNIMPL", cpu)

exec_ldst(cpu, i) ==
    CASE i.handler = "pair" -> exec_ldst_pair(cpu, i)
      [] i.handler = "literal" -> exec_ldst_literal(cpu, i)
      [] i.handler = "exclusive" -> exec_ldst_exclusive(cpu, i)
      [] i.handler = "unsigned_offset" -> exec_ldst_unsigned_offset(cpu, i)
      [] i.handler = "imm9" -> exec_ldst_imm9(cpu, i)
      [] i.handler = "reg_offset" -> exec_ldst_reg_offset(cpu, i)
      [] i.handler = "simd" -> exec_simd(cpu, i)
      [] OTHER -> Stop("UNIMPL", cpu)

Handled(cpu, i) ==
    CASE i.group = "dp_imm" -> exec_dp_imm(cpu, i)
      [] i.group = "branch" -> {exec_branch(cpu, i)}
      [] i.group = "ldst" -> {exec_ldst(cpu, i)}
      [] i.group = "dp_reg" -> {exec_dp_reg(cpu, i)}
      [] i.group = "simd" -> {exec_simd(cpu, i)}
      [] OTHER -> {Stop("UNIMPL", cpu)}

Fetched(f, i) ==
    IF f.ok THEN {Advance(f.cpu, r) : r \in Handled(f.cpu, i)} ELSE {Fault(f.cpu)}
cpu_exec_one(cpu, i) == Fetched(cpu_mem_read(cpu, cpu.pc, 4), i)

\* The program is the sequence of the instructions met on the way.
RECURSIVE cpu_run(_, _)
cpu_run(cpu, prog) ==
    IF prog = << >> THEN {Done(cpu)}
    ELSE UNION {IF r.rc = "OK" THEN cpu_run(r.cpu, Tail(prog)) ELSE {r} :
                    r \in cpu_exec_one(cpu, Head(prog))}
=============================================================================
