--------------------------- MODULE LoweringVector ---------------------------
(***************************************************************************)
(* crates/jit/src/lower/simd, the vector instructions that have an exact   *)
(* WebAssembly v128 form, and crates/jit/src/eligible.rs and region.rs:    *)
(* which instructions a block may hold. A v128 operation works on all 128  *)
(* bits; finish_v drops the upper half when q is clear.                    *)
(***************************************************************************)
EXTENDS Lowering, Sequences

W128 == Low(128)
Part(v, e, k) == Slice(v, k * e, e)
Joined(e, lanes) == UNION {Shl(lanes[k] \cap Low(e), k * e, 128) : k \in DOMAIN lanes}
Each(e, f(_)) == Joined(e, [k \in 0 .. (128 \div e) - 1 |-> f(k)])

\* The v128 lane instructions used.
AddSat(x, y, e, u) ==
    LET s == Add(x, y, e)
    IN  IF u THEN IF e \in Plus(x, y) THEN Low(e) ELSE s
        ELSE IF e - 1 \in Xor(x, s) \cap Xor(y, s)
             THEN IF e - 1 \in x THEN {e - 1} ELSE Low(e - 1)
             ELSE s
SubSat(x, y, e, u) ==
    LET s == Minus(x, y, e)
    IN  IF u THEN IF ULess(x, y) THEN {} ELSE s
        ELSE IF e - 1 \in Xor(x, y) \cap Xor(x, s)
             THEN IF e - 1 \in x THEN {e - 1} ELSE Low(e - 1)
             ELSE s
Less(x, y, e, u) == IF u THEN ULess(x, y) ELSE SLess(x, y, e)
Mask(b, e) == IF b THEN Low(e) ELSE {}
Bitselect(v1, v2, c) == (v1 \cap c) \cup (v2 \ c)
Splat(x, e) == Each(e, LAMBDA k : x)

\* Defect: the upper half is kept.
finish_v_whole(m, q, rd, val) == [m EXCEPT !.v[rd] = val]
finish_v(m, q, rd, val) == [m EXCEPT !.v[rd] = IF q THEN val ELSE val \cap W64]

-----------------------------------------------------------------------------
(* three_same.rs *)

logical(m, i) ==
    LET n == m.v[i.rn]  k == m.v[i.rm]  d == m.v[i.rd]
    IN  CASE ~i.u /\ i.size = 0 -> n \cap k
          [] ~i.u /\ i.size = 1 -> n \cap Not(k, 128)
          [] ~i.u /\ i.size = 2 -> n \cup k
          [] ~i.u /\ i.size = 3 -> n \cup Not(k, 128)
          [] i.u /\ i.size = 0 -> Xor(n, k)
          [] i.u /\ i.size = 1 -> Bitselect(n, k, d)
          [] i.u /\ i.size = 2 -> Bitselect(n, d, k)
          [] i.u /\ i.size = 3 -> Bitselect(d, n, k)

\* The opcodes with a lane instruction at this size.
simple_op(u, size, opcode) ==
    \/ opcode \in {1, 5} /\ size < 2
    \/ opcode = 16
    \/ opcode = 19 /\ ~u /\ size \in {1, 2}
    \/ opcode \in {6, 7} /\ (u => size < 3)
    \/ opcode \in {12, 13} /\ size < 3
can_lower_three_same(u, size, opcode) == opcode \in {3, 17} \/ simple_op(u, size, opcode)

Lane2(opcode, u, e, x, y) ==
    CASE opcode = 1 -> AddSat(x, y, e, u)
      [] opcode = 5 -> SubSat(x, y, e, u)
      [] opcode = 16 -> IF u THEN Minus(x, y, e) ELSE Add(x, y, e)
      [] opcode = 19 -> Times(x, y)
      [] opcode = 6 -> Mask(Less(y, x, e, u), e)
      [] opcode = 7 -> Mask(~Less(x, y, e, u), e)
      [] opcode = 17 /\ u -> Mask(x = y, e)
      [] opcode = 17 /\ ~u -> Not(Mask(x \cap y = {}, e), e)
      [] opcode = 12 -> IF Less(x, y, e, u) THEN y ELSE x
      [] opcode = 13 -> IF Less(x, y, e, u) THEN x ELSE y

simd_three_same(m, i) ==
    LET e == 8 * 2 ^ i.size
    IN  finish_v(m, i.q, i.rd,
                 IF i.opcode = 3 THEN logical(m, i)
                 ELSE Each(e, LAMBDA k : Lane2(i.opcode, i.u, e, Part(m.v[i.rn], e, k),
                                               Part(m.v[i.rm], e, k))))

(* three_diff.rs: i16x8.extmul_low_i8x16_s and the like; no mask for q. *)

can_lower_three_diff(size, opcode) == opcode = 12 /\ size <= 2

simd_three_diff(m, i) ==
    LET e == 8 * 2 ^ i.size
        src(v, k) == LET x == Part(v, e, k + IF i.q THEN 64 \div e ELSE 0)
                     IN  IF i.u THEN x ELSE Sext(x, e, 2 * e)
    IN  [m EXCEPT !.v[i.rd] = Each(2 * e, LAMBDA k : Times(src(m.v[i.rn], k), src(m.v[i.rm], k)))]

-----------------------------------------------------------------------------
(* two_reg_misc.rs and permute.rs. A shuffle has sixteen byte numbers in   *)
(* the two operands together; those past the result are 0.                 *)

shuffle2(m, q, rn, rm, rd, lanes) ==
    finish_v(m, q, rd, Each(8, LAMBDA j : IF lanes[j] < 16 THEN Part(m.v[rn], 8, lanes[j])
                                           ELSE Part(m.v[rm], 8, lanes[j] - 16)))
ByteCount(q) == IF q THEN 16 ELSE 8

can_lower_two_reg_misc(u, size, opcode) ==
    \/ opcode = 5 /\ u /\ size = 0
    \/ opcode = 5 /\ ~u
    \/ opcode \in {0, 8, 9, 11}
    \/ opcode \in {1, 10} /\ ~u

rev(size, q, container) ==
    LET esize == 2 ^ size
        per   == container \div esize
        src(ei) == (ei \div per) * per + (per - 1 - (ei - (ei \div per) * per))
    IN  [j \in 0 .. 15 |-> IF j < ByteCount(q) THEN src(j \div esize) * esize + (j % esize) ELSE 0]

Lane1(opcode, u, e, x) ==
    CASE opcode = 5 /\ u -> Not(x, e)
      [] opcode = 11 /\ u -> Neg(x, e)
      [] opcode = 11 /\ ~u -> IF e - 1 \in x THEN Neg(x, e) ELSE x
      [] opcode = 8 /\ ~u -> Mask(SLess({}, x, e), e)
      [] opcode = 8 /\ u -> Mask(~SLess(x, {}, e), e)
      [] opcode = 9 /\ ~u -> Mask(x = {}, e)
      [] opcode = 9 /\ u -> Mask(~SLess({}, x, e), e)
      [] opcode = 10 -> Mask(SLess(x, {}, e), e)

simd_two_reg_misc(m, i) ==
    LET e == 8 * 2 ^ i.size
    IN  CASE i.opcode \in {0, 1} ->
                shuffle2(m, i.q, i.rn, i.rn, i.rd,
                         rev(i.size, i.q, IF i.opcode = 1 THEN 2 ELSE IF i.u THEN 4 ELSE 8))
          [] i.opcode = 5 /\ ~i.u ->                                      \* i8x16.popcnt
                finish_v(m, i.q, i.rd, Each(8, LAMBDA k : Bits(Cardinality(Part(m.v[i.rn], 8, k)))))
          [] OTHER -> finish_v(m, i.q, i.rd,
                               Each(e, LAMBDA k : Lane1(i.opcode, i.u, e, Part(m.v[i.rn], e, k))))

simd_zip_trn(m, i) ==
    LET esize == 2 ^ i.size
        n     == ByteCount(i.q) \div esize
        half  == n \div 2
        from_b(oi) == IF i.opcode \in {1, 5} THEN oi >= half ELSE oi % 2 = 1
        si(oi) == CASE i.opcode = 3 -> oi \div 2
                    [] i.opcode = 7 -> half + (oi \div 2)
                    [] i.opcode = 1 -> 2 * (oi % half)
                    [] i.opcode = 5 -> 2 * (oi % half) + 1
                    [] i.opcode = 2 -> oi - (oi % 2)
                    [] i.opcode = 6 -> (oi - (oi % 2)) + 1
    IN  shuffle2(m, i.q, i.rn, i.rm, i.rd,
                 [j \in 0 .. 15 |->
                    IF j >= ByteCount(i.q) THEN 0
                    ELSE (IF from_b(j \div esize) THEN 16 ELSE 0)
                         + si(j \div esize) * esize + (j % esize)])

simd_ext(m, i) ==
    shuffle2(m, i.q, i.rn, i.rm, i.rd,
             [j \in 0 .. 15 |->
                IF j >= ByteCount(i.q) THEN 0
                ELSE IF i.q \/ i.imm4 + j < 8 THEN i.imm4 + j ELSE 16 + (i.imm4 + j - 8)])

can_lower_tbl(is_tbx, len) == ~is_tbx /\ len = 0

simd_tbl(m, i) ==                                                         \* i8x16.swizzle
    finish_v(m, i.q, i.rd, Each(8, LAMBDA k :
        LET sel == Num(Part(m.v[i.rm], 8, k))
        IN  IF sel < 16 THEN Part(m.v[i.rn], 8, sel) ELSE {}))

-----------------------------------------------------------------------------
(* shift.rs *)

can_lower_shift(u, opcode) == opcode = 0 \/ (opcode = 10 /\ ~u)

simd_shift_imm(m, i) ==
    LET esize == 8 * 2 ^ Max(Bits(i.immh))
        immhb == 8 * i.immh + i.immb
        right == 2 * esize - immhb
        \* a lane shift takes its amount modulo the lane width
        amount == (IF i.opcode = 10 THEN immhb - esize
                   ELSE IF ~i.u /\ right = esize THEN esize - 1 ELSE right) % esize
        Shifted(x) == CASE i.opcode = 10 -> Shl(x, amount, esize)
                        [] i.opcode = 0 /\ i.u -> Shr(x, amount)
                        [] i.opcode = 0 /\ ~i.u -> Sar(x, amount, esize)
    IN  IF i.opcode = 0 /\ i.u /\ right = esize THEN [m EXCEPT !.v[i.rd] = {}]
        ELSE finish_v(m, i.q, i.rd, Each(esize, LAMBDA k : Shifted(Part(m.v[i.rn], esize, k))))

(* copy.rs: single lanes are loads and stores at their place in the image. *)

rep32(v) == v \cup Shl(v, 32, 64)
rep16(v) == rep32(v \cup Shl(v, 16, 32))
expand_imm(op1, cmode, imm8) ==
    LET hi == cmode \div 2
    IN  CASE hi <= 3 -> rep32(Shl(imm8, 8 * hi, 32))
          [] hi \in {4, 5} -> rep16(Shl(imm8, 8 * (hi - 4), 16))
          [] hi = 6 -> rep32(IF cmode % 2 = 0 THEN Shl(imm8, 8, 32) \cup Low(8)
                             ELSE Shl(imm8, 16, 32) \cup Low(16))
          [] cmode = 14 -> IF op1 THEN UNION {8 * k .. 8 * k + 7 : k \in imm8}
                           ELSE UNION {Shl(imm8, 8 * k, 64) : k \in 0 .. 7}
can_lower_mod_imm(cmode) == cmode # 15

simd_mod_imm(m, i) ==
    LET elem  == expand_imm(i.op1, i.cmode, i.imm8)
        val   == IF i.q THEN elem \cup Shl(elem, 64, 128) ELSE elem
        qmask == IF i.q THEN W128 ELSE W64
    IN  IF i.cmode \div 2 <= 5 /\ i.cmode % 2 = 1
        THEN finish_v(m, i.q, i.rd, IF i.op1 THEN m.v[i.rd] \ val ELSE m.v[i.rd] \cup val)
        ELSE [m EXCEPT !.v[i.rd] = IF i.op1 /\ i.cmode \div 2 <= 6 THEN qmask \ val
                                   ELSE val \cap qmask]

iload(m, reg, size, lane) == Slice(m.v[reg], lane * 8 * 2 ^ size, 8 * 2 ^ size)
istore(m, reg, size, lane, val) ==
    LET e == 8 * 2 ^ size
    IN  [m EXCEPT !.v[reg] = {p \in @ : p \div e # lane} \cup Shl(val \cap Low(e), lane * e, 128)]

simd_mov_to_gpr(m, i) ==
    LET elem == iload(m, i.vn, i.size, i.index)
        val  == IF i.signed THEN Sext(elem, 8 * 2 ^ i.size, 64) ELSE elem
    IN  IF i.rd = 31 THEN m
        ELSE [m EXCEPT !.x[i.rd] = IF i.signed /\ ~i.dst64 THEN val \cap W32 ELSE val]

-----------------------------------------------------------------------------
(* simd/mod.rs: is_inline_simd and, with the arms of lower/mod.rs, the     *)
(* lowering it admits.                                                     *)

is_inline_simd(i) ==
    \/ i.op \in {"SimdDupGeneral", "SimdDupElement", "SimdInsGeneral", "SimdInsElement",
                 "SimdMovToGpr", "SimdZipTrn", "SimdExt"}
    \/ i.op = "SimdThreeSame" /\ can_lower_three_same(i.u, i.size, i.opcode)
    \/ i.op = "SimdTwoRegMisc" /\ can_lower_two_reg_misc(i.u, i.size, i.opcode)
    \/ i.op = "SimdThreeDiff" /\ can_lower_three_diff(i.size, i.opcode)
    \/ i.op = "SimdModImm" /\ can_lower_mod_imm(i.cmode)
    \/ i.op = "SimdShiftImm" /\ can_lower_shift(i.u, i.opcode)
    \/ i.op = "SimdTableLookup" /\ can_lower_tbl(i.is_tbx, i.len)

lower_vector(m, i) ==
    CASE i.op = "SimdThreeSame" -> simd_three_same(m, i)
      [] i.op = "SimdThreeDiff" -> simd_three_diff(m, i)
      [] i.op = "SimdTwoRegMisc" -> simd_two_reg_misc(m, i)
      [] i.op = "SimdModImm" -> simd_mod_imm(m, i)
      [] i.op = "SimdShiftImm" -> simd_shift_imm(m, i)
      [] i.op = "SimdZipTrn" -> simd_zip_trn(m, i)
      [] i.op = "SimdExt" -> simd_ext(m, i)
      [] i.op = "SimdTableLookup" -> simd_tbl(m, i)
      [] i.op = "SimdDupGeneral" ->
            finish_v(m, i.q, i.rd, Splat(push_operand(m, i.rn, TRUE, FALSE), 8 * 2 ^ i.size))
      [] i.op = "SimdDupElement" ->
            finish_v(m, i.q, i.rd, Splat(iload(m, i.rn, i.size, i.index), 8 * 2 ^ i.size))
      [] i.op = "SimdInsGeneral" ->
            istore(m, i.rd, i.size, i.index, push_operand(m, i.rn, TRUE, FALSE))
      [] i.op = "SimdInsElement" -> istore(m, i.rd, i.size, i.dst, iload(m, i.rn, i.size, i.src))
      [] i.op = "SimdMovToGpr" -> simd_mov_to_gpr(m, i)

-----------------------------------------------------------------------------
(* eligible.rs and lower/fp.rs is_inline_fp: what a block may hold.        *)

is_inline_dp1(sf64, opcode) ==
    opcode \in {0, 4, 5} \/ (opcode \in 1 .. 3 /\ 2 ^ opcode <= IF sf64 THEN 8 ELSE 4)
is_inline_dp2(opcode) == opcode \in {2, 3, 8, 9, 10, 11}
is_inline_dp3(op31)   == op31 \in {0, 1, 2, 5, 6}

is_inline_load_store(i) ==
    /\ i.op = "LoadStore" /\ ~i.unpriv /\ i.size <= IF i.vec THEN 4 ELSE 3
    /\ \/ i.addr.mode \in {"UnsignedImm", "Unscaled", "PreIndex", "PostIndex"}
       \/ i.addr.mode = "RegOffset" /\ i.addr.option \in {2, 3, 6, 7}
is_inline_atomic(i) ==
    \/ i.op = "AtomicRmw" /\ i.size <= 3 /\ i.aop <= 8
    \/ i.op \in {"CompareSwap", "LoadExclusive", "StoreExclusive"} /\ i.size <= 3
is_inline_mem(i) == is_inline_load_store(i) \/ i.op = "LoadStorePair" \/ is_inline_atomic(i)

is_inline_fp(i) ==
    \/ i.op = "FpDataProc1" /\ i.ftype <= 1
       /\ \/ i.opcode \in {0, 1, 2, 3, 8, 9, 10, 11, 14, 15}
          \/ <<i.ftype, i.opcode>> \in {<<0, 5>>, <<1, 4>>}
    \/ i.op = "FpDataProc2" /\ i.ftype <= 1 /\ i.opcode \in (0 .. 5) \cup {8}
    \/ i.op \in {"FpImm", "FpCompare", "FpCondCompare", "FpCondSelect", "FpDataProc3"}
       /\ i.ftype <= 1
    \/ i.op = "FpCvtInt" /\ i.ftype <= 1 /\ i.opcode \in {0, 1, 2, 3, 6, 7}

can_inline(i) ==
    \/ is_inline_mem(i) \/ is_inline_simd(i) \/ is_inline_fp(i)
    \/ i.op \in {"MoveWide", "AddSubImm", "AddSubShiftedReg", "AddSubExtReg", "AddSubCarry",
                 "LogicalImm", "LogicalShiftedReg", "Bitfield", "Extract", "PcRel", "CondSelect",
                 "CondCompare", "Nop", "Prfm"}
    \/ i.op = "DataProc1Src" /\ is_inline_dp1(i.sf, i.opcode)
    \/ i.op = "DataProc2Src" /\ is_inline_dp2(i.opcode)
    \/ i.op = "DataProc3Src" /\ is_inline_dp3(i.op31)

is_branch(i) ==
    i.op \in {"BranchImm", "CondBranch", "CompareBranch", "TestBranch", "BranchReg"}

\* region.rs: of the words from here, decoded, the longest run of at most max_len
\* that can be inlined, and a branch that ends it.
form_jit_block(insns, max_len) ==
    LET cap  == IF Len(insns) < max_len THEN Len(insns) ELSE max_len
        run  == Max({n \in 0 .. cap : \A k \in 1 .. n : can_inline(insns[k])})
        ends == run < cap /\ is_branch(insns[run + 1])
    IN  SubSeq(insns, 1, IF ends THEN run + 1 ELSE run)
=============================================================================
