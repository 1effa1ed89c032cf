----------------------------- MODULE Lowering ------------------------------
(***************************************************************************)
(* crates/jit, what the emitted WebAssembly of one integer instruction     *)
(* does to the register image, and which instructions get one. The image   *)
(* is [x, sp, nzcv, pc]: the flags are bits 31..28 of one word, and pc     *)
(* stays the entry pc of the block (the local PC0) until the block ends.   *)
(* WebAssembly has no flags, no 128-bit product, no rotate through and no  *)
(* bit reversal, so most results are computed another way than in the      *)
(* interpreter: the definitions below keep that way.                       *)
(***************************************************************************)
EXTENDS DecoderVector

Nb == 31  Zb == 30  Cb == 29  Vb == 28

\* i64 instructions. A shift count is taken modulo 64.
I64Shl(a, n)  == Shl(a, n % 64, 64)
I64ShrU(a, n) == Shr(a, n % 64)
I64ShrS(a, n) == Sar(a, n % 64, 64)
I64Add(a, b)  == Add(a, b, 64)
I64Sub(a, b)  == Minus(a, b, 64)
I64Mul(a, b)  == Times(a, b) \cap W64
Bool(b)       == IF b THEN {0} ELSE {}
AllOnes       == W64
I64DivS(n, m) == LET mag(a) == IF 63 \in a THEN Neg(a, 64) ELSE a
                     quot   == UDiv(mag(n), mag(m))
                 IN  IF 63 \in Xor(n, m) THEN Neg(quot, 64) ELSE quot

(* common.rs *)

mask_w(v, sf64) == IF sf64 THEN v ELSE v \cap W32
\* The load at offsets::x(31) is the word of sp, which follows x(30).
load_x(m, idx) == IF idx = 31 THEN m.sp ELSE m.x[idx]
push_operand(m, idx, sf64, sp) ==
    IF idx = 31 /\ ~sp THEN {} ELSE mask_w(load_x(m, idx), sf64)
store_local(m, rd, sf64, sp, v) ==
    IF rd = 31 /\ ~sp THEN m
    ELSE IF rd = 31 THEN [m EXCEPT !.sp = mask_w(v, sf64)] ELSE [m EXCEPT !.x[rd] = mask_w(v, sf64)]
\* Defect: the pc of compile time.
gen_rel_pc_absolute(m, abs, entry_pc) == abs
gen_rel_pc(m, abs, entry_pc) == I64Add(m.pc, Minus(abs, entry_pc, 64))

-----------------------------------------------------------------------------
(* arith.rs *)

lower_move_wide(m, i) ==
    LET imm  == I64Shl(i.imm16, 16 * i.hw)
        keep == W64 \ I64Shl(Low(16), 16 * i.hw)
    IN  IF i.rd = 31 THEN m
        ELSE store_local(m, i.rd, i.sf, FALSE,
                         CASE i.opc = 2 -> imm
                           [] i.opc = 0 -> W64 \ imm
                           [] i.opc = 3 -> (m.x[i.rd] \cap keep) \cup imm)

emit_shift(v, shift, amount, sf64) ==
    LET n == amount % IF sf64 THEN 64 ELSE 32
    IN  CASE shift = "Lsl" -> mask_w(I64Shl(v, n), sf64)
          [] shift = "Lsr" -> I64ShrU(v, n)
          [] shift = "Asr" /\ sf64 -> I64ShrS(v, n)
          [] shift = "Asr" /\ ~sf64 -> I64ShrS(I64Shl(v, 32), 32 + n) \cap W32
          [] shift = "Ror" /\ sf64 -> Ror(v, n, 64)
          [] shift = "Ror" /\ ~sf64 -> IF n = 0 THEN v
                                       ELSE I64ShrU(v, n) \cup (I64Shl(v, 32 - n) \cap W32)

push_shifted(m, i, negate) ==
    LET v == emit_shift(push_operand(m, i.rm, i.sf, FALSE), i.shift, i.amount, i.sf)
    IN  IF negate THEN mask_w(Xor(v, AllOnes), i.sf) ELSE v

push_ext(m, rm, option, shift) ==
    LET bits == 8 * 2 ^ (option % 4)
        v    == push_operand(m, rm, TRUE, FALSE) \cap Low(bits)
    IN  I64Shl(IF option >= 4 /\ bits < 64 THEN I64ShrS(I64Shl(v, 64 - bits), 64 - bits) ELSE v,
               shift)

\* Defect: the sign bit is left where it is.
SignAndZeroInPlace(t0, sign) == (t0 \cap {sign}) \cup I64Shl(Bool(t0 = {}), Zb)
\* N is the sign bit moved to bit 31, Z a test for zero.
SignAndZero(v, sign) == I64Shl(I64ShrU(v, sign), Nb) \cup I64Shl(Bool(v = {}), Zb)

lower_logical(m, i, b, dst_sp) ==
    LET a  == push_operand(m, i.rn, i.sf, FALSE)
        t0 == mask_w(CASE i.opc \in {0, 3} -> a \cap b [] i.opc = 1 -> a \cup b
                       [] i.opc = 2 -> Xor(a, b), i.sf)
        m1 == store_local(m, i.rd, i.sf, dst_sp, t0)
    IN  IF i.opc = 3 THEN [m1 EXCEPT !.nzcv = SignAndZero(t0, IF i.sf THEN 63 ELSE 31)] ELSE m1

setup_b(b, sub, sf64) == mask_w(IF sub THEN Xor(b, AllOnes) ELSE b, sf64)

\* Defect: the carry of the first addition alone.
emit_add_core_first(t0, t1, carry, sf64) ==
    LET t2 == I64Add(t0, t1)  t3 == I64Add(t2, carry)
    IN  <<mask_w(t3, sf64), SignAndZero(mask_w(t3, sf64), IF sf64 THEN 63 ELSE 31)
               \cup I64Shl(IF sf64 THEN Bool(ULess(t2, t0)) ELSE I64ShrU(t3, 32), Cb)
               \cup I64Shl(I64ShrU(Xor(t0, t3) \cap Xor(t1, t3), IF sf64 THEN 63 ELSE 31) \cap {0}, Vb)>>
\* <<result, flags>> of t0 + t1 + carry. In 64 bits a carry shows as a sum
\* below an operand; in 32 bits the sum is exact and the carry is its bit 32.
emit_add_core(t0, t1, carry, sf64) ==
    IF sf64
    THEN LET t2 == I64Add(t0, t1)  t3 == I64Add(t2, carry)
         IN  <<t3, SignAndZero(t3, 63)
                   \cup I64Shl(Bool(ULess(t2, t0) \/ ULess(t3, t2)), Cb)
                   \cup I64Shl(I64ShrU(Xor(t0, t3) \cap Xor(t1, t3), 63), Vb)>>
    ELSE LET t3 == I64Add(I64Add(t0, t1), carry)  t2 == t3 \cap W32
         IN  <<t2, SignAndZero(t2, 31) \cup I64Shl(I64ShrU(t3, 32), Cb)
                   \cup I64Shl(I64ShrU(Xor(t0, t2) \cap Xor(t1, t2), 31), Vb)>>

lower_add(m, i, b, rn_sp, rd_sp, carry) ==
    LET core == emit_add_core(push_operand(m, i.rn, i.sf, rn_sp), setup_b(b, i.sub, i.sf),
                              carry, i.sf)
        m1   == store_local(m, i.rd, i.sf, rd_sp, core[1])
    IN  IF i.set_flags THEN [m1 EXCEPT !.nzcv = core[2]] ELSE m1

CarryFlag(m) == I64ShrU(m.nzcv, Cb) \cap {0}

lower_extract(m, i) ==
    LET rm == push_operand(m, i.rm, i.sf, FALSE)  rn == push_operand(m, i.rn, i.sf, FALSE)
        w  == IF i.sf THEN 64 ELSE 32
    IN  store_local(m, i.rd, i.sf, FALSE,
                    IF i.lsb = 0 THEN rm
                    ELSE I64ShrU(rm, i.lsb) \cup mask_w(I64Shl(rn, w - i.lsb), i.sf))

lower_pc_rel(m, i, pc, entry_pc) ==
    store_local(m, i.rd, TRUE, FALSE,
                IF i.page THEN I64Add(I64Add(m.pc, Minus(pc, entry_pc, 64)) \ Low(12), i.imm)
                ELSE gen_rel_pc(m, Add(pc, i.imm, 64), entry_pc))

-----------------------------------------------------------------------------
(* cond.rs *)

push_flag(m, bit) == 0 \in I64ShrU(m.nzcv, bit)

emit_cond_test(m, cond) ==
    LET base == CASE cond \div 2 = 0 -> push_flag(m, Zb)
                  [] cond \div 2 = 1 -> push_flag(m, Cb)
                  [] cond \div 2 = 2 -> push_flag(m, Nb)
                  [] cond \div 2 = 3 -> push_flag(m, Vb)
                  [] cond \div 2 = 4 -> push_flag(m, Cb) /\ ~push_flag(m, Zb)
                  [] cond \div 2 = 5 -> push_flag(m, Nb) = push_flag(m, Vb)
                  [] cond \div 2 = 6 -> ~push_flag(m, Zb) /\ push_flag(m, Nb) = push_flag(m, Vb)
                  [] OTHER -> TRUE
    IN  base # (cond % 2 = 1 /\ cond # 15)

\* The result of the else arm alone is masked; the store masks both.
lower_cond_select(m, i) ==
    LET rm == push_operand(m, i.rm, i.sf, FALSE)
        t0 == IF emit_cond_test(m, i.cond) THEN push_operand(m, i.rn, i.sf, FALSE)
              ELSE mask_w(CASE ~i.op1 /\ ~i.o2 -> rm
                            [] ~i.op1 /\ i.o2 -> I64Add(rm, {0})
                            [] i.op1 /\ ~i.o2 -> Xor(rm, AllOnes)
                            [] i.op1 /\ i.o2 -> I64Mul(rm, AllOnes), i.sf)
    IN  store_local(m, i.rd, i.sf, FALSE, t0)

lower_cond_compare(m, i) ==
    LET y == IF i.is_imm THEN Bits(i.imm_y) ELSE push_operand(m, i.rm, i.sf, FALSE)
    IN  [m EXCEPT !.nzcv =
            IF emit_cond_test(m, i.cond)
            THEN emit_add_core(push_operand(m, i.rn, i.sf, FALSE), setup_b(y, i.sub, i.sf),
                               Bool(i.sub), i.sf)[2]
            ELSE Shl(i.nzcv, 28, 64)]

-----------------------------------------------------------------------------
(* dataproc.rs *)

lower_bitfield(m, i) ==
    LET dmask == mask_w(W64, i.sf)
        wmask == i.wmask \cap dmask  tmask == i.tmask \cap dmask
        r     == i.immr % IF i.sf THEN 64 ELSE 32
        t0    == push_operand(m, i.rn, i.sf, FALSE)
        t1    == wmask \cap (IF i.sf THEN Ror(t0, r, 64)
                             ELSE IF r = 0 THEN t0
                             ELSE I64ShrU(t0, r) \cup (I64Shl(t0, 32 - r) \cap W32))
        t2    == load_x(m, i.rd)
        t3    == CASE i.opc = 2 -> t1 \cap tmask
                   [] i.opc = 0 -> I64Mul(dmask \ tmask, I64ShrU(t0, i.imms) \cap {0})
                                   \cup (t1 \cap tmask)
                   [] i.opc = 1 -> (t2 \ tmask) \cup (((t2 \ wmask) \cup t1) \cap tmask)
    IN  store_local(m, i.rd, i.sf, FALSE, t3)

\* Three mask-and-swap steps reverse the bits of each byte.
SwapStep(t, sh) ==
    LET mask == {p \in W64 : (p \div sh) % 2 = 0}
    IN  I64Shl(t \cap mask, sh) \cup (I64ShrU(t, sh) \cap mask)
swap_bits_in_byte(t, sf64) ==
    LET w(v) == mask_w(v, sf64)             \* the narrow masks keep the low 32 bits
    IN  w(SwapStep(w(SwapStep(w(SwapStep(t, 1)), 2)), 4))

\* Destination byte d is gathered from its mirror image in the group.
emit_byte_reverse(t, sf64, group) ==
    LET src(d) == (d \div group) * group + (group - 1) - (d % group)
    IN  UNION {I64Shl(I64ShrU(t, 8 * src(d)) \cap Low(8), 8 * d)
               : d \in 0 .. (IF sf64 THEN 7 ELSE 3)}

lower_dp1(m, i) ==
    LET w  == IF i.sf THEN 64 ELSE 32
        t0 == push_operand(m, i.rn, i.sf, FALSE)
        \* zeroes the sign bits, so that leading zeros count them
        x  == Xor(t0, Sar(t0, w - 1, w))
    IN  store_local(m, i.rd, i.sf, FALSE,
            CASE i.opcode = 0 -> emit_byte_reverse(swap_bits_in_byte(t0, i.sf), i.sf, w \div 8)
              [] i.opcode = 4 -> Bits(LeadingZeros(t0, w))
              [] i.opcode = 5 -> Bits(LeadingZeros(x, w) - 1)
              [] i.opcode \in 1 .. 3 -> emit_byte_reverse(t0, i.sf, 2 ^ i.opcode))

lower_div(m, i, signed) ==
    LET arg(idx) == LET v == push_operand(m, idx, i.sf, FALSE)
                    IN  IF signed /\ ~i.sf THEN Sext(v, 32, 64) ELSE v
        t0  == arg(i.rn)  t1 == arg(i.rm)
        min == IF i.sf THEN {63} ELSE 31 .. 63
    IN  store_local(m, i.rd, i.sf, FALSE,
                    IF t1 = {} THEN {}
                    ELSE IF ~signed THEN UDiv(t0, t1)
                    ELSE IF t0 = min /\ t1 = AllOnes THEN min ELSE I64DivS(t0, t1))

\* WebAssembly takes the shift count modulo the width of the instruction.
lower_var_shift(m, i, kind_) ==
    LET w == IF i.sf THEN 64 ELSE 32
        n == Num(push_operand(m, i.rm, i.sf, FALSE) \cap Low(IF i.sf THEN 6 ELSE 5))
        v == push_operand(m, i.rn, i.sf, FALSE)
    IN  store_local(m, i.rd, i.sf, FALSE,
                    CASE kind_ = "Lsl" -> Shl(v, n, w) [] kind_ = "Lsr" -> Shr(v, n)
                      [] kind_ = "Asr" -> Sar(v, n, w) [] kind_ = "Ror" -> Ror(v, n, w))

lower_dp2(m, i) ==
    CASE i.opcode = 2 -> lower_div(m, i, FALSE)
      [] i.opcode = 3 -> lower_div(m, i, TRUE)
      [] i.opcode = 8 -> lower_var_shift(m, i, "Lsl")
      [] i.opcode = 9 -> lower_var_shift(m, i, "Lsr")
      [] i.opcode = 10 -> lower_var_shift(m, i, "Asr")
      [] i.opcode = 11 -> lower_var_shift(m, i, "Ror")

\* The high half of a product, from the four products of 32-bit halves.
umulh(a, b) ==
    LET lo(v) == v \cap W32  hi(v) == I64ShrU(v, 32)
        lh  == I64Mul(lo(a), hi(b))  hl == I64Mul(hi(a), lo(b))  hh == I64Mul(hi(a), hi(b))
        mid == I64Add(I64Add(hi(I64Mul(lo(a), lo(b))), lo(lh)), lo(hl))
    IN  I64Add(I64Add(I64Add(hh, hi(lh)), hi(hl)), hi(mid))

lower_dp3(m, i) ==
    LET full == i.op31 # 0 \/ i.sf
        a == push_operand(m, i.ra, full, FALSE)
        acc(n, k) == IF i.o0 THEN I64Sub(a, I64Mul(n, k)) ELSE I64Add(a, I64Mul(n, k))
        push32(idx) == LET v == push_operand(m, idx, FALSE, FALSE)
                       IN  IF i.op31 = 1 THEN Sext(v, 32, 64) ELSE v
        t0 == push_operand(m, i.rn, full, FALSE)  t1 == push_operand(m, i.rm, full, FALSE)
        t2 == umulh(t0, t1)
    IN  store_local(m, i.rd, full, FALSE,
            CASE i.op31 = 0 -> acc(t0, t1)
              [] i.op31 \in {1, 5} -> acc(push32(i.rn), push32(i.rm))
              [] i.op31 = 6 -> t2
              [] i.op31 = 2 -> I64Sub(t2, I64Add(I64ShrS(t0, 63) \cap t1, I64ShrS(t1, 63) \cap t0)))

-----------------------------------------------------------------------------
(* lower/mod.rs: the lowering of an instruction that is not a terminator.  *)

lower_sequential(m, i, pc, entry_pc) ==
    CASE i.op \in {"Nop", "Prfm"} -> m
      [] i.op = "MoveWide" -> lower_move_wide(m, i)
      [] i.op = "LogicalImm" -> lower_logical(m, i, i.imm, i.opc # 3)
      [] i.op = "LogicalShiftedReg" -> lower_logical(m, i, push_shifted(m, i, i.negate), FALSE)
      [] i.op = "AddSubImm" ->
            lower_add(m, i, I64Shl(Bits(i.imm12), IF i.shift12 THEN 12 ELSE 0), TRUE,
                      ~i.set_flags, Bool(i.sub))
      [] i.op = "AddSubShiftedReg" ->
            lower_add(m, i, push_shifted(m, i, FALSE), FALSE, FALSE, Bool(i.sub))
      [] i.op = "AddSubExtReg" ->
            lower_add(m, i, push_ext(m, i.rm, i.option, i.imm3), TRUE, ~i.set_flags, Bool(i.sub))
      [] i.op = "AddSubCarry" ->
            lower_add(m, i, push_operand(m, i.rm, i.sf, FALSE), FALSE, FALSE, CarryFlag(m))
      [] i.op = "Extract" -> lower_extract(m, i)
      [] i.op = "PcRel" -> lower_pc_rel(m, i, pc, entry_pc)
      [] i.op = "CondSelect" -> lower_cond_select(m, i)
      [] i.op = "CondCompare" -> lower_cond_compare(m, i)
      [] i.op = "Bitfield" -> lower_bitfield(m, i)
      [] i.op = "DataProc1Src" -> lower_dp1(m, i)
      [] i.op = "DataProc2Src" -> lower_dp2(m, i)
      [] i.op = "DataProc3Src" -> lower_dp3(m, i)

-----------------------------------------------------------------------------
(* terminator.rs: the image and the pc a branch returns.                   *)

emit_taken_cond(m, i) ==
    CASE i.op = "CondBranch" -> emit_cond_test(m, i.cond)
      [] i.op = "CompareBranch" -> (push_operand(m, i.rt, i.sf, FALSE) = {}) # i.negate
      [] i.op = "TestBranch" ->
            (0 \in I64ShrU(push_operand(m, i.rt, TRUE, FALSE), i.bit)) = i.negate

store_link(m, linked, pc, entry_pc) ==
    IF linked THEN [m EXCEPT !.x[30] = gen_rel_pc(m, Add(pc, {2}, 64), entry_pc)] ELSE m

lower_terminator(m, i, pc, entry_pc) ==
    CASE i.op = "BranchImm" ->
            [image |-> store_link(m, i.link, pc, entry_pc),
             ret   |-> gen_rel_pc(m, Add(pc, i.offset, 64), entry_pc)]
      [] i.op = "BranchReg" ->                      \* the link is stored first
            LET m1 == store_link(m, i.opc = 1, pc, entry_pc)
            IN  [image |-> m1, ret |-> push_operand(m1, i.rn, TRUE, FALSE)]
      [] OTHER ->
            [image |-> m,
             ret   |-> gen_rel_pc(m, Add(pc, IF emit_taken_cond(m, i) THEN i.offset ELSE {2}, 64),
                                  entry_pc)]
=============================================================================
