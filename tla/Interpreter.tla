---------------------------- MODULE Interpreter ----------------------------
(***************************************************************************)
(* crates/interp, the integer instructions: what step does with one        *)
(* decoded instruction. The processor is the record                        *)
(*   [x: registers, sp, flags: subset of {N, Z, C, V}, pc];                *)
(* an exec operator returns the processor after the instruction.           *)
(***************************************************************************)
EXTENDS DecoderVector

N == 3   Z == 2   C == 1   V == 0          \* as in the nzcv immediate of CCMP

(* cpu/state.rs and regs.rs: number 31 is the stack pointer or the zero    *)
(* register, as the instruction says.                                      *)

read_gpr(c, idx, sp) == IF idx # 31 THEN c.x[idx] ELSE IF sp THEN c.sp ELSE {}
write_gpr(c, idx, sp, val) == IF idx # 31 THEN [c EXCEPT !.x[idx] = val]
                              ELSE IF sp THEN [c EXCEPT !.sp = val] ELSE c

datasize(sf64) == IF sf64 THEN 64 ELSE 32
width_mask(sf64) == Low(datasize(sf64))
read(c, idx, sf64, sp) == read_gpr(c, idx, sp) \cap width_mask(sf64)
write(c, idx, sf64, val, sp) == write_gpr(c, idx, sp, val \cap width_mask(sf64))

-----------------------------------------------------------------------------
(* alu.rs and cond.rs *)

apply_shift(val, shift, amount, sf64) ==
    LET w == datasize(sf64)  v == val \cap Low(w)  n == amount % w
    IN  CASE shift = "Lsl" -> Shl(v, n, w)
          [] shift = "Lsr" -> Shr(v, n)
          [] shift = "Asr" -> Sar(v, n, w)
          [] shift = "Ror" -> Ror(v, n, w)

\* <<result, flags>>: C is the carry out of the top bit, V says that the
\* operands agree in sign and the result does not.
add_with_carry_in(a0, b0, carry_in, sf64) ==
    LET w   == datasize(sf64)
        a   == a0 \cap Low(w)  b == b0 \cap Low(w)
        all == Plus(Plus(a, b), IF carry_in THEN {0} ELSE {})
        s   == all \cap Low(w)
    IN  <<s, {f \in {N, Z, C, V} :
                 CASE f = N -> w - 1 \in s
                   [] f = Z -> s = {}
                   [] f = C -> w \in all
                   [] f = V -> w - 1 \in Xor(a, s) \cap Xor(b, s)}>>

add_with_carry(a, b, sub, sf64) ==
    add_with_carry_in(a, IF sub THEN Not(b, 64) ELSE b, sub, sf64)

eval_cond(cond, f) ==
    LET base == CASE cond \div 2 = 0 -> Z \in f
                  [] cond \div 2 = 1 -> C \in f
                  [] cond \div 2 = 2 -> N \in f
                  [] cond \div 2 = 3 -> V \in f
                  [] cond \div 2 = 4 -> C \in f /\ Z \notin f
                  [] cond \div 2 = 5 -> N \in f <=> V \in f
                  [] cond \div 2 = 6 -> Z \notin f /\ (N \in f <=> V \in f)
                  [] OTHER -> TRUE
    IN  IF cond % 2 = 1 /\ cond # 15 THEN ~base ELSE base

-----------------------------------------------------------------------------
(* Add and subtract: add_sub_imm.rs, add_sub_shifted_reg.rs,               *)
(* add_sub_ext_reg.rs and add_sub_carry.rs. Register 31 is the stack       *)
(* pointer in the immediate and extended forms, except as the destination  *)
(* of one that sets the flags.                                             *)

Finish(c, i, sum, sp) ==
    write(IF i.set_flags THEN [c EXCEPT !.flags = sum[2]] ELSE c, i.rd, i.sf, sum[1], sp)

AddSubImm(c, i) ==
    LET imm == Shl(Bits(i.imm12), IF i.shift12 THEN 12 ELSE 0, 64)
    IN  Finish(c, i, add_with_carry(read(c, i.rn, i.sf, TRUE), imm, i.sub, i.sf), ~i.set_flags)

AddSubShiftedReg(c, i) ==
    LET b == apply_shift(read(c, i.rm, i.sf, FALSE), i.shift, i.amount, i.sf)
    IN  Finish(c, i, add_with_carry(read(c, i.rn, i.sf, FALSE), b, i.sub, i.sf), FALSE)

\* UXTB, UXTH, UXTW, UXTX, then the four signed ones.
extend_reg(c, rm, option, shift) ==
    LET v    == read_gpr(c, rm, FALSE)
        bits == 8 * 2 ^ (option % 4)
    IN  Shl(IF option < 4 THEN v \cap Low(bits) ELSE Sext(v, bits, 64), shift, 64)

AddSubExtReg(c, i) ==
    Finish(c, i, add_with_carry(read(c, i.rn, i.sf, TRUE),
                                extend_reg(c, i.rm, i.option, i.imm3), i.sub, i.sf), ~i.set_flags)

AddSubCarry(c, i) ==
    LET m == read(c, i.rm, i.sf, FALSE)
    IN  Finish(c, i, add_with_carry_in(read(c, i.rn, i.sf, FALSE),
                                       IF i.sub THEN Not(m, 64) ELSE m, C \in c.flags, i.sf), FALSE)

(* Logical operations, move wide, EXTR: logical_imm.rs, logical_reg.rs,    *)
(* move_wide.rs, extract.rs.                                               *)

Combine(opc, a, b) == CASE opc \in {0, 3} -> a \cap b [] opc = 1 -> a \cup b [] opc = 2 -> Xor(a, b)
LogicFlags(r, w) == {f \in {N, Z} : IF f = N THEN w - 1 \in r ELSE r = {}}
SetLogic(c, i, r) ==
    IF i.opc = 3
    THEN [c EXCEPT !.flags = LogicFlags(r \cap width_mask(i.sf), datasize(i.sf))] ELSE c

LogicalImm(c, i) ==
    LET r == Combine(i.opc, read(c, i.rn, i.sf, FALSE), i.imm)
    IN  write(SetLogic(c, i, r), i.rd, i.sf, r, i.opc # 3)

LogicalShiftedReg(c, i) ==
    LET m == apply_shift(read(c, i.rm, i.sf, FALSE), i.shift, i.amount, i.sf)
        r == Combine(i.opc, read(c, i.rn, i.sf, FALSE),
                     IF i.negate THEN Not(m, datasize(i.sf)) ELSE m)
    IN  write(SetLogic(c, i, r), i.rd, i.sf, r, FALSE)

MoveWide(c, i) ==
    LET imm == Shl(i.imm16, 16 * i.hw, 64)
        cur == read_gpr(c, i.rd, FALSE)
    IN  write(c, i.rd, i.sf,
              CASE i.opc = 2 -> imm
                [] i.opc = 0 -> Not(imm, 64)
                [] i.opc = 3 -> (cur \ (16 * i.hw .. 16 * i.hw + 15)) \cup imm, FALSE)

Extract(c, i) ==
    LET w == datasize(i.sf)  m == read(c, i.rm, i.sf, FALSE)  n == read(c, i.rn, i.sf, FALSE)
    IN  write(c, i.rd, i.sf,
              IF i.lsb = 0 THEN m ELSE Shr(m, i.lsb) \cup Shl(n, w - i.lsb, w), FALSE)

(* bitfield.rs *)

Bitfield(c, i) ==
    LET dmask   == width_mask(i.sf)
        wmask   == i.wmask \cap dmask  tmask == i.tmask \cap dmask
        src     == read(c, i.rn, i.sf, FALSE)
        dst     == read(c, i.rd, i.sf, FALSE)
        rotated == Ror(src, i.immr, datasize(i.sf)) \cap wmask
        bot     == IF i.opc = 1 THEN (dst \ wmask) \cup rotated ELSE rotated
        top     == CASE i.opc = 0 -> IF i.imms \in src THEN dmask ELSE {}
                     [] i.opc = 1 -> dst
                     [] i.opc = 2 -> {}
    IN  write(c, i.rd, i.sf, (top \ tmask) \cup (bot \cap tmask), FALSE)

(* cond_select.rs and cond_compare.rs *)

CondSelect(c, i) ==
    LET m == read(c, i.rm, i.sf, FALSE)  w == datasize(i.sf)
    IN  write(c, i.rd, i.sf,
              CASE eval_cond(i.cond, c.flags) -> read(c, i.rn, i.sf, FALSE)
                [] ~eval_cond(i.cond, c.flags) /\ ~i.op1 -> IF i.o2 THEN Add(m, {0}, w) ELSE m
                [] ~eval_cond(i.cond, c.flags) /\ i.op1 -> IF i.o2 THEN Neg(m, w) ELSE Not(m, w),
              FALSE)

CondCompare(c, i) ==
    LET y == IF i.is_imm THEN Bits(i.imm_y) ELSE read(c, i.rm, i.sf, FALSE)
    IN  [c EXCEPT !.flags =
            IF eval_cond(i.cond, c.flags)
            THEN add_with_carry(read(c, i.rn, i.sf, FALSE), y, i.sub, i.sf)[2]
            ELSE i.nzcv]

(* data_proc_1src.rs, data_proc_2src.rs and data_proc_3src.rs *)

\* The bytes of each group of g bytes in the opposite order.
rev_groups(val, g) ==
    LET byte(b) == (b \div g) * g + (g - 1) - (b % g)
    IN  {8 * byte(p \div 8) + (p % 8) : p \in val}

\* The bits below the top that equal it, down to the first that does not.
cls(val, w) ==
    LET differ == {p \in 0 .. w - 2 : (p \in val) # (w - 1 \in val)}
    IN  IF differ = {} THEN w - 1 ELSE w - 2 - Max(differ)

DataProc1Src(c, i) ==
    LET w == datasize(i.sf)  v == read(c, i.rn, i.sf, FALSE)
    IN  write(c, i.rd, i.sf,
              CASE i.opcode = 0 -> {w - 1 - p : p \in v}
                [] i.opcode \in 1 .. 3 -> rev_groups(v, 2 ^ i.opcode)
                [] i.opcode = 4 -> Bits(LeadingZeros(v, w))
                [] i.opcode = 5 -> Bits(cls(v, w)), FALSE)

udiv(n, m) == IF m = {} THEN {} ELSE UDiv(n, m)

\* Truncated towards zero; the one quotient that does not fit wraps.
sdiv(n, m, w) ==
    LET mag(a) == IF w - 1 \in a THEN Neg(a, w) ELSE a
        quot   == udiv(mag(n), mag(m))
    IN  IF m = {} THEN {}
        ELSE IF n = {w - 1} /\ m = Low(w) THEN {w - 1}
        ELSE IF w - 1 \in n <=> w - 1 \in m THEN quot ELSE Neg(quot, w)

shift_var(n, m, kind_, w) == apply_shift(n, kind_, Num(m \cap Low(6)) % w, w = 64)

\* Byte after byte and bit after bit: the next byte enters as the last leaves.
Crc(acc, val, size, poly) ==
    LET crc[s \in SUBSET W64, k \in 0 .. 64] ==
            IF k = 0 THEN s
            ELSE crc[IF 0 \in s THEN Xor(Shr(s, 1), poly) ELSE Shr(s, 1), k - 1]
    IN  crc[Xor(acc, val \cap Low(8 * size)), 8 * size]

Poly(crc32c) == IF crc32c THEN Shl(Bits(\h82F6), 16, 32) \cup Bits(\h3B78)
                ELSE Shl(Bits(\hEDB8), 16, 32) \cup Bits(\h8320)

DataProc2Src(c, i) ==
    LET w == datasize(i.sf)
        n == read(c, i.rn, i.sf, FALSE)  m == read(c, i.rm, i.sf, FALSE)
    IN  IF i.opcode \in 16 .. 23
        THEN write(c, i.rd, FALSE,
                   Crc(n \cap W32, m, 2 ^ (i.opcode % 4), Poly(i.opcode >= 20)), FALSE)
        ELSE write(c, i.rd, i.sf,
                   CASE i.opcode = 2 -> udiv(n, m)
                     [] i.opcode = 3 -> sdiv(n, m, w)
                     [] i.opcode = 8 -> shift_var(n, m, "Lsl", w)
                     [] i.opcode = 9 -> shift_var(n, m, "Lsr", w)
                     [] i.opcode = 10 -> shift_var(n, m, "Asr", w)
                     [] i.opcode = 11 -> shift_var(n, m, "Ror", w), FALSE)

DataProc3Src(c, i) ==
    LET r(idx, w)      == read_gpr(c, idx, FALSE) \cap Low(w)
        acc(a, n, m)   == IF i.o0 THEN Minus(a, Times(n, m) \cap W64, 64)
                          ELSE Add(a, Times(n, m) \cap W64, 64)
        w              == datasize(i.sf)
        High(n, m)     == Slice(Times(n, m), 64, 64)
    IN  write(c, i.rd, i.sf,
              CASE i.op31 = 0 -> acc(r(i.ra, w), r(i.rn, w), r(i.rm, w))
                [] i.op31 = 1 -> acc(r(i.ra, 64), Sext(r(i.rn, 32), 32, 64),
                                     Sext(r(i.rm, 32), 32, 64))
                [] i.op31 = 5 -> acc(r(i.ra, 64), r(i.rn, 32), r(i.rm, 32))
                [] i.op31 = 2 -> High(Sext(r(i.rn, 64), 64, 128), Sext(r(i.rm, 64), 64, 128))
                [] i.op31 = 6 -> High(r(i.rn, 64), r(i.rm, 64)), FALSE)

-----------------------------------------------------------------------------
(* pc_rel.rs and the branches: branch_imm.rs, branch_reg.rs,               *)
(* compare_branch.rs, cond_branch.rs, test_branch.rs.                      *)

PcRel(c, i) ==
    write(c, i.rd, TRUE, Add(IF i.page THEN c.pc \ Low(12) ELSE c.pc, i.imm, 64), FALSE)

Taken(c, i) ==
    CASE i.op = "BranchImm" -> TRUE
      [] i.op = "CondBranch" -> eval_cond(i.cond, c.flags)
      [] i.op = "CompareBranch" -> i.negate <=> read(c, i.rt, i.sf, FALSE) # {}
      [] i.op = "TestBranch" -> i.negate <=> i.bit \in read_gpr(c, i.rt, FALSE)

Next4(c) == Add(c.pc, {2}, 64)
Link(c, linked) == IF linked THEN write_gpr(c, 30, FALSE, Next4(c)) ELSE c

-----------------------------------------------------------------------------
(* execute.rs: the arm of each instruction, for the instructions whose     *)
(* effect is all in the registers, and the new pc as step sets it.         *)

Straight(c, i) ==
    CASE i.op = "MoveWide" -> MoveWide(c, i)
      [] i.op = "AddSubImm" -> AddSubImm(c, i)
      [] i.op = "AddSubShiftedReg" -> AddSubShiftedReg(c, i)
      [] i.op = "AddSubExtReg" -> AddSubExtReg(c, i)
      [] i.op = "AddSubCarry" -> AddSubCarry(c, i)
      [] i.op = "LogicalImm" -> LogicalImm(c, i)
      [] i.op = "LogicalShiftedReg" -> LogicalShiftedReg(c, i)
      [] i.op = "Bitfield" -> Bitfield(c, i)
      [] i.op = "Extract" -> Extract(c, i)
      [] i.op = "CondSelect" -> CondSelect(c, i)
      [] i.op = "CondCompare" -> CondCompare(c, i)
      [] i.op = "DataProc1Src" -> DataProc1Src(c, i)
      [] i.op = "DataProc2Src" -> DataProc2Src(c, i)
      [] i.op = "DataProc3Src" -> DataProc3Src(c, i)
      [] i.op = "PcRel" -> PcRel(c, i)
      [] i.op \in {"Nop", "Prfm"} -> c

IntegerOps == {"MoveWide", "AddSubImm", "AddSubShiftedReg", "AddSubExtReg", "AddSubCarry",
               "LogicalImm", "LogicalShiftedReg", "Bitfield", "Extract", "CondSelect",
               "CondCompare", "DataProc1Src", "DataProc2Src", "DataProc3Src", "PcRel",
               "Nop", "Prfm"}
BranchOps == {"BranchImm", "CondBranch", "CompareBranch", "TestBranch", "BranchReg"}

IntegerStep(c, i) ==
    IF i.op \in BranchOps
    THEN CASE i.op = "BranchReg" ->                 \* the target is read before X30 is written
                [Link(c, i.opc = 1) EXCEPT !.pc = read_gpr(c, i.rn, FALSE)]
           [] i.op = "BranchImm" -> [Link(c, i.link) EXCEPT !.pc = Add(@, i.offset, 64)]
           [] OTHER -> [c EXCEPT !.pc = IF Taken(c, i) THEN Add(@, i.offset, 64) ELSE Next4(c)]
    ELSE [Straight(c, i) EXCEPT !.pc = Next4(c)]
=============================================================================
