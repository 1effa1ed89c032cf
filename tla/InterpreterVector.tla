------------------------- MODULE InterpreterVector -------------------------
(***************************************************************************)
(* crates/interp/src/simd, the integer vector instructions. A vector       *)
(* register is a subset of 0..127; c.v maps the named ones. The source     *)
(* computes lanes in u64 and widens to i128 where a lane could overflow:   *)
(* Wide is that widening, and every sum, difference and shift of a wide    *)
(* value is taken in 128 bits.                                             *)
(***************************************************************************)
EXTENDS Interpreter

Half(q)      == IF q THEN 128 ELSE 64                  \* bits of the register an op uses
Lane(v, e, k) == Slice(v, k * e, e)
\* simd.rs join, and f of each e-bit lane of `bits` bits joined.
join(e, lanes) == UNION {Shl(lanes[k] \cap Low(e), k * e, 128) : k \in DOMAIN lanes}
Lanes(e, bits, f(_)) == join(e, [k \in 0 .. (bits \div e) - 1 |-> f(k)])

Wide(x, e, u) == IF u THEN x ELSE Sext(x, e, 128)
WAdd(a, b)    == Add(a, b, 128)
WSub(a, b)    == Minus(a, b, 128)
WLess(a, b)   == SLess(a, b, 128)
WAbs(a)       == IF 127 \in a THEN Neg(a, 128) ELSE a
\* The exact product of two lanes, widened.
Product(x, y, e, u) ==
    LET p == Times(WAbs(Wide(x, e, u)), WAbs(Wide(y, e, u)))
    IN  IF ~u /\ (e - 1 \in x) # (e - 1 \in y) THEN Neg(p, 128) ELSE p

MinOf(e, u) == IF u THEN {} ELSE e - 1 .. 127
MaxOf(e, u) == IF u THEN Low(e) ELSE Low(e - 1)
\* Into the range of an e-bit lane.
Clamp(a, e, u) == IF WLess(a, MinOf(e, u)) THEN MinOf(e, u)
                  ELSE IF WLess(MaxOf(e, u), a) THEN MaxOf(e, u) ELSE a

bool_lane(b, e) == IF b THEN Low(e) ELSE {}
max(u, e, x, y) == IF WLess(Wide(x, e, u), Wide(y, e, u)) THEN y ELSE x
min(u, e, x, y) == IF WLess(Wide(y, e, u), Wide(x, e, u)) THEN y ELSE x
pmul(x, y, e)   == {p \in Low(2 * e) :
                        Cardinality({j \in y : j < 8 /\ p - j \in x}) % 2 = 1}

-----------------------------------------------------------------------------
(* three_same.rs *)

\* (v + half) >> s, and a plain shift that stops at the sign.
right_shift(v, s, rounding, e) ==
    IF ~rounding THEN Sar(v, IF s < 127 THEN s ELSE 127, 128)
    ELSE IF s > e THEN {} ELSE Sar(WAdd(v, {s - 1}), s, 128)

\* The shift amount is the signed low byte of the second operand.
reg_shift(x, y, e, u, rounding, saturating) ==
    LET amount == Num(y \cap Low(8))
        v      == Wide(x, e, u)
        r      == IF amount >= 128 THEN right_shift(v, 256 - amount, rounding, e)
                  ELSE IF amount >= 64
                  THEN IF v = {} \/ ~saturating THEN {}
                       ELSE IF 127 \in v THEN MinOf(e, u) ELSE MaxOf(e, u)
                  ELSE Shl(v, amount, 128)
    IN  IF saturating THEN Clamp(r, e, u) ELSE r

sqdmulh(x, y, e, rounding) ==
    LET p == Shl(Product(x, y, e, FALSE), 1, 128)
    IN  Clamp(Sar(IF rounding THEN WAdd(p, {e - 1}) ELSE p, e, 128), e, FALSE)

LaneThreeSame(opcode, u, e, x, y, d) ==
    LET a == Wide(x, e, u)  b == Wide(y, e, u)
        abd == WAbs(WSub(a, b))
    IN  CASE opcode = 0 -> Sar(WAdd(a, b), 1, 128)
          [] opcode = 2 -> Sar(WAdd(WAdd(a, b), {0}), 1, 128)
          [] opcode = 4 -> Sar(WSub(a, b), 1, 128)
          [] opcode = 1 -> Clamp(WAdd(a, b), e, u)
          [] opcode = 5 -> Clamp(WSub(a, b), e, u)
          [] opcode = 6 -> bool_lane(WLess(b, a), e)
          [] opcode = 7 -> bool_lane(~WLess(a, b), e)
          [] opcode \in {8, 10} -> reg_shift(x, y, e, u, opcode = 10, FALSE)
          [] opcode \in {9, 11} -> reg_shift(x, y, e, u, opcode = 11, TRUE)
          [] opcode = 12 -> max(u, e, x, y)
          [] opcode = 13 -> min(u, e, x, y)
          [] opcode = 14 -> abd
          [] opcode = 15 -> Add(d, abd, e)
          [] opcode = 16 -> IF u THEN Minus(x, y, e) ELSE Add(x, y, e)
          [] opcode = 17 -> bool_lane(IF u THEN x = y ELSE x \cap y # {}, e)
          [] opcode = 18 -> IF u THEN Minus(d, Times(x, y) \cap Low(e), e)
                            ELSE Add(d, Times(x, y), e)
          [] opcode = 19 -> IF u THEN pmul(x, y, e) ELSE Times(x, y)
          [] opcode = 22 -> sqdmulh(x, y, e, u)
          [] OTHER -> {}

logical(u, size, a, b, d) ==
    CASE ~u /\ size = 0 -> a \cap b
      [] ~u /\ size = 1 -> a \ b
      [] ~u /\ size = 2 -> a \cup b
      [] ~u /\ size = 3 -> a \cup Not(b, 128)
      [] u /\ size = 0 -> Xor(a, b)
      [] u /\ size = 1 -> (a \cap d) \cup (b \ d)
      [] u /\ size = 2 -> (a \cap b) \cup (d \ b)
      [] u /\ size = 3 -> (a \ b) \cup (d \cap b)

\* Adjacent lanes of the concatenation of the two registers.
pairwise(opcode, u, e, bits, a, b) ==
    LET n == bits \div e
        src(k) == IF k < n THEN Lane(a, e, k) ELSE Lane(b, e, k - n)
    IN  Lanes(e, bits, LAMBDA k :
            CASE opcode = 23 -> Add(src(2 * k), src(2 * k + 1), e)
              [] opcode = 20 -> max(u, e, src(2 * k), src(2 * k + 1))
              [] opcode = 21 -> min(u, e, src(2 * k), src(2 * k + 1)))

ThreeSame(i, q, a, b, d) ==
    LET e == 8 * 2 ^ i.size
    IN  CASE i.opcode = 3 -> logical(i.u, i.size, a, b, d) \cap Low(Half(q))
          [] i.opcode \in {20, 21, 23} -> pairwise(i.opcode, i.u, e, Half(q), a, b)
          [] OTHER -> Lanes(e, Half(q), LAMBDA k : LaneThreeSame(
                        i.opcode, i.u, e, Lane(a, e, k), Lane(b, e, k), Lane(d, e, k)))

(* three_same_extra.rs and indexed.rs: the second operand is one element.  *)

sqrdmlah(sub, x, y, d, e) ==
    LET p   == Product(x, y, e, FALSE)
        acc == Shl(Wide(d, e, FALSE), e - 1, 128)
    IN  Clamp(Sar(WAdd(IF sub THEN WSub(acc, p) ELSE WAdd(acc, p), {e - 2}), e - 1, 128), e, FALSE)

dot(u, bits, a, b, d) ==
    Lanes(32, bits, LAMBDA k :
        FoldSet(LAMBDA j, acc : Add(acc, Product(Lane(Lane(a, 32, k), 8, j), Lane(Lane(b, 32, k), 8, j), 8, u)
                                         \cap W32, 32), Lane(d, 32, k), 0 .. 3))

ThreeSameExtra(i, a, b, d) ==
    LET e == 8 * 2 ^ i.size
    IN  IF i.opcode = 2 THEN dot(i.u, Half(i.q), a, b, d)
        ELSE Lanes(e, Half(i.q), LAMBDA k : sqrdmlah(i.opcode = 1, Lane(a, e, k), Lane(b, e, k),
                                                     Lane(d, e, k), e))

(* three_diff.rs: n lanes of e bits and of 2e bits. *)

WideOp(opcode, u, e, x, y, xw, dw) ==
    LET w == 2 * e
        a == Wide(x, e, u)  b == Wide(y, e, u)
        p == Product(x, y, e, u)
        dbl == Clamp(Shl(p, 1, 128), w, FALSE)
        acc == Wide(dw, w, FALSE)
    IN  CASE opcode = 0 -> WAdd(a, b)
          [] opcode = 2 -> WSub(a, b)
          [] opcode = 1 -> WAdd(Wide(xw, w, FALSE), b)
          [] opcode = 3 -> WSub(Wide(xw, w, FALSE), b)
          [] opcode = 7 -> WAbs(WSub(a, b))
          [] opcode = 5 -> WAdd(acc, WAbs(WSub(a, b)))
          [] opcode = 12 -> p
          [] opcode = 8 -> WAdd(acc, p)
          [] opcode = 10 -> WSub(acc, p)
          [] opcode = 13 -> dbl
          [] opcode = 9 -> Clamp(WAdd(acc, dbl), w, FALSE)
          [] opcode = 11 -> Clamp(WSub(acc, dbl), w, FALSE)
          [] opcode = 14 -> pmul(x, y, 8)
          [] OTHER -> {}

\* The half of the register that the narrow side of an instruction is in.
source_half(v, q) == IF q THEN Shr(v, 64) ELSE v \cap W64
into_half(packed, q, d) == IF q THEN Shl(packed, 64, 128) \cup (d \cap W64) ELSE packed

ThreeDiff(i, q, u, a, b, d) ==
    LET e == 8 * 2 ^ i.size
        an == source_half(a, q)  bn == source_half(b, q)
        Narrow(k) ==                       \* u asks for rounding here
            LET t == IF i.opcode = 4 THEN Add(Lane(a, 2 * e, k), Lane(b, 2 * e, k), 2 * e)
                     ELSE Minus(Lane(a, 2 * e, k), Lane(b, 2 * e, k), 2 * e)
            IN  Shr(Add(t, IF u THEN {e - 1} ELSE {}, 2 * e), e)
    IN  IF i.opcode \in {4, 6} THEN into_half(Lanes(e, 64, Narrow), q, d)
        ELSE Lanes(2 * e, 128, LAMBDA k : WideOp(i.opcode, u, e, Lane(an, e, k), Lane(bn, e, k),
                                                 Lane(a, 2 * e, k), Lane(d, 2 * e, k)))

\* indexed.rs, by 16 * U + opcode; the floating-point keys are left out.
Indexed(i, q, a, b, d) ==
    LET e   == 8 * 2 ^ i.size
        key == 16 * (IF i.u THEN 1 ELSE 0) + i.opcode
        y   == Lane(b, e, i.index)
        Plain(k) == LET x == Lane(a, e, k)  dk == Lane(d, e, k)
                    IN  CASE key = 8 -> Times(x, y)
                          [] key = 16 -> Add(dk, Times(x, y), e)
                          [] key = 20 -> Minus(dk, Times(x, y) \cap Low(e), e)
                          [] key \in {12, 13} -> sqdmulh(x, y, e, key = 13)
                          [] key \in {29, 31} -> sqrdmlah(key = 31, x, y, dk, e)
        \* the long forms are those of three_diff with the same numbers
        Long(k)  == WideOp(CASE key \in {10, 26} -> 12 [] key \in {2, 18} -> 8
                             [] key \in {6, 22} -> 10 [] key = 11 -> 13 [] key = 3 -> 9
                             [] key = 7 -> 11,
                           i.u, e, Lane(source_half(a, q), e, k), y, {}, Lane(d, 2 * e, k))
    IN  CASE key \in {14, 30} -> dot(key = 30, Half(q), a, Lanes(32, 128, LAMBDA k : y), d)
          [] key \in {8, 16, 20, 12, 13, 29, 31} -> Lanes(e, Half(q), Plain)
          [] OTHER -> Lanes(2 * e, 128, Long)

-----------------------------------------------------------------------------
(* two_reg_misc.rs, two_reg_narrow.rs and two_reg_long.rs *)

rev(a, e, bits, container) ==
    LET per == container \div e
    IN  Lanes(e, bits, LAMBDA k : Lane(a, e, (k \div per) * per + (per - 1 - (k % per))))

LaneTwoReg(opcode, u, e, x) ==
    LET v == Wide(x, e, FALSE)
    IN  CASE opcode = 4 -> Bits(IF u THEN LeadingZeros(x, e) ELSE cls(x, e))
          [] opcode = 5 /\ ~u -> Bits(Cardinality(x))
          [] opcode = 8 -> bool_lane(IF u THEN 127 \notin v ELSE 127 \notin v /\ v # {}, e)
          [] opcode = 9 -> bool_lane(IF u THEN 127 \in v \/ v = {} ELSE v = {}, e)
          [] opcode = 10 /\ ~u -> bool_lane(127 \in v, e)
          [] opcode = 7 -> Clamp(IF u THEN Neg(v, 128) ELSE WAbs(v), e, FALSE)
          [] opcode = 11 -> IF u THEN Neg(x, e) ELSE WAbs(v)
          [] OTHER -> {}

\* XTN, SQXTUN, SQXTN and UQXTN: from 2e bits to e.
xtn(opcode, u, e, s) ==
    CASE opcode = 18 /\ ~u -> s
      [] opcode = 18 /\ u -> Clamp(Wide(s, 2 * e, FALSE), e, TRUE)
      [] opcode = 20 -> Clamp(Wide(s, 2 * e, u), e, u)

TwoRegMisc(i, q, a, d) ==
    LET e == 8 * 2 ^ i.size  u == i.u  bits == Half(q)
        Pair(k) == WAdd(Wide(Lane(a, e, 2 * k), e, u), Wide(Lane(a, e, 2 * k + 1), e, u))
    IN  CASE i.opcode \in {18, 20} ->
                into_half(Lanes(e, 64, LAMBDA k : xtn(i.opcode, u, e, Lane(a, 2 * e, k))), q, d)
          [] i.opcode = 19 -> Lanes(2 * e, 128, LAMBDA k : Shl(Lane(source_half(a, q), e, k), e, 128))
          [] i.opcode = 2 -> Lanes(2 * e, bits, Pair)
          [] i.opcode = 6 -> Lanes(2 * e, bits, LAMBDA k : WAdd(Pair(k), Lane(d, 2 * e, k)))
          [] i.opcode = 3 -> Lanes(e, bits, LAMBDA k :       \* signed into unsigned, or back
                Clamp(WAdd(Wide(Lane(d, e, k), e, u), Wide(Lane(a, e, k), e, ~u)), e, u))
          [] i.opcode = 0 -> rev(a, e, bits, IF u THEN 32 ELSE 64)
          [] i.opcode = 1 -> rev(a, e, bits, 16)
          [] i.opcode = 5 /\ u /\ i.size = 0 -> Not(a, 128) \cap Low(bits)
          [] i.opcode = 5 /\ u /\ i.size # 0 ->
                Lanes(8, bits, LAMBDA k : {7 - p : p \in Lane(a, 8, k)})
          [] OTHER -> Lanes(e, bits, LAMBDA k : LaneTwoReg(i.opcode, u, e, Lane(a, e, k)))

-----------------------------------------------------------------------------
(* shift_imm.rs, shift_narrow.rs and shift_long.rs: the lane size is the   *)
(* highest bit of immh, the amount what immh:immb says beyond it.          *)

ShiftSize(i)  == 8 * 2 ^ Max(Bits(i.immh))
immhb(i)      == 8 * i.immh + i.immb
shr(x, e, u, rounding, sh) ==
    Sar(IF rounding THEN WAdd(Wide(x, e, u), {sh - 1}) ELSE Wide(x, e, u), sh, 128)

LaneShift(i, e, x, d) ==
    LET right == 2 * e - immhb(i)  left == immhb(i) - e  u == i.u
    IN  CASE i.opcode \in {0, 4} -> shr(x, e, u, i.opcode = 4, right)
          [] i.opcode \in {2, 6} -> Add(d, shr(x, e, u, i.opcode = 6, right) \cap Low(e), e)
          [] i.opcode = 8 -> Shr(x, right) \cup (d \cap (e - right) .. (e - 1))     \* SRI
          [] i.opcode = 10 -> Shl(x, left, e) \cup IF u THEN d \cap Low(left) ELSE {}   \* SHL, SLI
          [] i.opcode = 12 -> Clamp(Shl(Wide(x, e, FALSE), left, 128), e, TRUE)
          [] i.opcode = 14 -> Clamp(Shl(Wide(x, e, u), left, 128), e, u)
          [] OTHER -> {}

\* Source lanes of 2e bits; an odd opcode rounds.
NarrowShift(i, e, s) ==
    LET sh     == 2 * e - immhb(i)
        signed == ~(IF i.opcode < 18 THEN ~i.u ELSE i.u)
        r      == shr(s, 2 * e, ~signed, i.opcode % 2 = 1, sh)
    IN  CASE i.opcode \in {16, 17} /\ ~i.u -> r
          [] i.opcode \in {16, 17} /\ i.u -> Clamp(r, e, TRUE)
          [] i.opcode \in {18, 19} -> Clamp(r, e, i.u)

ShiftImm(i, q, a, d) ==
    LET e == ShiftSize(i)
    IN  CASE i.opcode \in 16 .. 19 ->
                into_half(Lanes(e, 64, LAMBDA k : NarrowShift(i, e, Lane(a, 2 * e, k))), q, d)
          [] i.opcode = 20 ->
                Lanes(2 * e, 128, LAMBDA k :
                      Shl(Wide(Lane(source_half(a, q), e, k), e, i.u), immhb(i) - e, 128))
          [] OTHER -> Lanes(e, Half(q), LAMBDA k : LaneShift(i, e, Lane(a, e, k), Lane(d, e, k)))

-----------------------------------------------------------------------------
(* across.rs, mod_imm.rs, permute.rs, ext.rs, tbl.rs, dup.rs and copy.rs   *)

Across(i, a) ==
    LET e == 8 * 2 ^ i.size
        n == Half(i.q) \div e
        Fold(f(_, _)) == FoldSet(LAMBDA k, acc : f(Lane(a, e, k), acc), Lane(a, e, 0), 1 .. n - 1)
        Sum == FoldSet(LAMBDA k, acc : WAdd(acc, Wide(Lane(a, e, k), e, i.u)), {}, 0 .. n - 1)
    IN  IF i.opcode = 3 THEN Sum \cap Low(2 * e)
        ELSE Low(e) \cap CASE i.opcode = 27 -> Fold(LAMBDA x, acc : Add(x, acc, e))
                           [] i.opcode = 10 -> Fold(LAMBDA x, acc : max(i.u, e, acc, x))
                           [] OTHER -> Fold(LAMBDA x, acc : min(i.u, e, acc, x))

\* A 64-bit pattern from eight bits; the floating-point one is left out.
Repeat(v, e)      == UNION {Shl(v, k * e, 64) : k \in 0 .. (64 \div e) - 1}
expand(op1, cmode, imm8) ==
    CASE cmode < 8 -> Repeat(Shl(imm8, 8 * (cmode \div 2), 32), 32)
      [] cmode \in 8 .. 11 -> Repeat(Shl(imm8, 8 * (cmode \div 2 - 4), 16), 16)
      [] cmode = 12 -> Repeat(Shl(imm8, 8, 32) \cup Low(8), 32)
      [] cmode = 13 -> Repeat(Shl(imm8, 16, 32) \cup Low(16), 32)
      [] cmode = 14 /\ ~op1 -> Repeat(imm8, 8)
      [] cmode = 14 /\ op1 -> {p \in W64 : p \div 8 \in imm8}

ModImm(i, d) ==
    LET val == Repeat(expand(i.op1, i.cmode, i.imm8), 64)
        all == val \cup Shl(val, 64, 128)
    IN  (CASE i.cmode < 12 /\ i.cmode % 2 = 1 -> IF i.op1 THEN d \ all ELSE d \cup all
           [] i.op1 /\ i.cmode < 14 -> Not(all, 128)
           [] OTHER -> all) \cap Low(Half(i.q))

ZipTrn(i, a, b) ==
    LET e == 8 * 2 ^ i.size
        n == Half(i.q) \div e
        half == n \div 2
        upper == i.opcode >= 4               \* ZIP2, UZP2, TRN2
        off   == IF upper THEN 1 ELSE 0
        Src(k) == IF i.opcode % 4 = 1
                  THEN Lane(IF k < half THEN a ELSE b, e, 2 * (k % half) + off)
                  ELSE Lane(IF k % 2 = 0 THEN a ELSE b, e,
                            IF i.opcode % 4 = 3 THEN off * half + k \div 2
                            ELSE 2 * (k \div 2) + off)
    IN  Lanes(e, Half(i.q), Src)

Ext(i, a, b) ==
    LET bits == Half(i.q)
    IN  Shr((a \cap Low(bits)) \cup {p + bits : p \in b \cap Low(bits)}, 8 * i.imm4) \cap Low(bits)

\* Table registers follow rn and wrap; an index past them keeps d for TBX.
TableLookup(c, i, index, d) ==
    Lanes(8, Half(i.q), LAMBDA k :
        LET sel == Num(Lane(index, 8, k))
        IN  CASE sel < 16 * (i.len + 1) -> Lane(c.v[(i.rn + sel \div 16) % 32], 8, sel % 16)
              [] sel >= 16 * (i.len + 1) -> IF i.is_tbx THEN Lane(d, 8, k) ELSE {})

dup(elem, e, q) == Lanes(e, Half(q), LAMBDA k : elem)
set_lane(v, e, k, elem) == (v \ (k * e .. k * e + e - 1)) \cup Shl(elem \cap Low(e), k * e, 128)

mov_to_gpr(c, i) ==
    LET e    == 8 * 2 ^ i.size
        elem == Lane(c.v[i.vn], e, i.index)
    IN  write(c, i.rd, i.dst64, IF i.signed THEN Sext(elem, e, 64) ELSE elem, FALSE)

-----------------------------------------------------------------------------
(* scalar.rs: the vector operation with q clear, then all but the element  *)
(* cleared. The floating-point halves of these groups are left out.        *)

ScalarOps == {"SimdScalarThreeSame", "SimdScalarTwoRegMisc", "SimdScalarPairwise",
              "SimdScalarThreeDiff", "SimdScalarCopy", "SimdScalarIndexed", "SimdScalarShiftImm"}

CopySize(imm5) == Min(Bits(imm5))

Scalar(i, a, b, d) ==
    CASE i.op = "SimdScalarThreeSame" -> ThreeSame(i, FALSE, a, b, d) \cap Low(8 * 2 ^ i.size)
      [] i.op = "SimdScalarTwoRegMisc" -> TwoRegMisc(i, FALSE, a, d) \cap Low(8 * 2 ^ i.size)
      [] i.op = "SimdScalarPairwise" -> Add(Lane(a, 64, 0), Lane(a, 64, 1), 64)
      [] i.op = "SimdScalarThreeDiff" ->
            ThreeDiff(i, FALSE, FALSE, a, b, d) \cap Low(16 * 2 ^ i.size)
      [] i.op = "SimdScalarCopy" ->
            Lane(a, 8 * 2 ^ CopySize(i.imm5), i.imm5 \div 2 ^ (CopySize(i.imm5) + 1))
      [] i.op = "SimdScalarIndexed" ->
            Indexed(i, FALSE, a, b, d)
                \cap Low((IF i.opcode \in {12, 13} THEN 8 ELSE 16) * 2 ^ i.size)
      [] i.op = "SimdScalarShiftImm" -> ShiftImm(i, FALSE, a, d) \cap Low(ShiftSize(i))

-----------------------------------------------------------------------------
(* execute.rs, the vector arms.                                            *)

VectorOps == ScalarOps \cup
    {"SimdThreeSame", "SimdThreeSameExtra", "SimdThreeDiff", "SimdIndexed", "SimdTwoRegMisc",
     "SimdShiftImm", "SimdAcrossLanes", "SimdModImm", "SimdZipTrn", "SimdExt", "SimdTableLookup",
     "SimdDupGeneral", "SimdDupElement", "SimdInsGeneral", "SimdInsElement", "SimdMovToGpr"}

\* The instructions of these groups whose lanes are floating-point.
IsFloat(i) ==
    CASE i.op = "SimdScalarThreeSame" -> i.opcode >= 24
      [] i.op = "SimdScalarTwoRegMisc" -> i.opcode \in (12 .. 15) \cup (22 .. 31)
      [] i.op = "SimdScalarPairwise" -> i.u
      [] i.op \in {"SimdIndexed", "SimdScalarIndexed"} ->
            i.opcode \in {1, 5, 9} /\ (i.u => i.opcode = 9)
      [] i.op \in {"SimdShiftImm", "SimdScalarShiftImm"} -> i.opcode \in {28, 31}
      [] i.op = "SimdModImm" -> i.cmode = 15
      [] OTHER -> FALSE

VectorResult(c, i) ==
    LET a == c.v[i.rn]
        b == c.v[i.rm]
        d == c.v[i.rd]
        e == 8 * 2 ^ i.size
    IN  CASE i.op \in ScalarOps -> Scalar(i, a, b, d)
          [] i.op = "SimdThreeSame" -> ThreeSame(i, i.q, a, b, d)
          [] i.op = "SimdThreeSameExtra" -> ThreeSameExtra(i, a, b, d)
          [] i.op = "SimdThreeDiff" -> ThreeDiff(i, i.q, i.u, a, b, d)
          [] i.op = "SimdIndexed" -> Indexed(i, i.q, a, b, d)
          [] i.op = "SimdTwoRegMisc" -> TwoRegMisc(i, i.q, a, d)
          [] i.op = "SimdShiftImm" -> ShiftImm(i, i.q, a, d)
          [] i.op = "SimdAcrossLanes" -> Across(i, a)
          [] i.op = "SimdModImm" -> ModImm(i, d)
          [] i.op = "SimdZipTrn" -> ZipTrn(i, a, b)
          [] i.op = "SimdExt" -> Ext(i, a, b)
          [] i.op = "SimdTableLookup" -> TableLookup(c, i, b, d)
          [] i.op = "SimdDupGeneral" -> dup(read_gpr(c, i.rn, FALSE), e, i.q)
          [] i.op = "SimdDupElement" -> dup(Lane(a, e, i.index), e, i.q)
          [] i.op = "SimdInsGeneral" -> set_lane(d, e, i.index, read_gpr(c, i.rn, FALSE))
          [] i.op = "SimdInsElement" -> set_lane(d, e, i.dst, Lane(a, e, i.src))

Vector(c, i) ==
    IF i.op = "SimdMovToGpr" THEN mov_to_gpr(c, i) ELSE [c EXCEPT !.v[i.rd] = VectorResult(c, i)]

Modelled(i) == i.op \in IntegerOps \cup BranchOps \cup VectorOps /\ ~IsFloat(i)

step(c, i) ==
    IF i.op \in VectorOps THEN [Vector(c, i) EXCEPT !.pc = Next4(c)] ELSE IntegerStep(c, i)
=============================================================================
