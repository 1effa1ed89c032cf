--------------------------- MODULE DecoderVector ---------------------------
(***************************************************************************)
(* crates/decoder, the other half: the floating-point, vector and scalar   *)
(* SIMD groups, and decode itself, which chooses the group of a word.      *)
(***************************************************************************)
EXTENDS Decoder

Q(w) == 30 \in w
U(w) == 29 \in w
Esize(w) == field(w, 22, 2)
Op5(w) == field(w, 12, 5)
\* A doubleword element needs the full 128-bit register.
Fits(w) == Esize(w) # 3 \/ Q(w)

\* The bits of mask 0b...: those of `ones` set, the others of `all` clear.
Matches(w, all, ones) == w \cap all = ones

\* Three- and two-register instructions with the usual q, u and size.
Three(name, w, opcode) ==
    [op |-> name, q |-> Q(w), u |-> U(w), size |-> Esize(w), opcode |-> opcode,
     rm |-> Rm(w), rn |-> Rn(w), rd |-> Rd(w)]
Two(name, w, opcode) ==
    [op |-> name, q |-> Q(w), u |-> U(w), size |-> Esize(w), opcode |-> opcode,
     rn |-> Rn(w), rd |-> Rd(w)]

-----------------------------------------------------------------------------
(* fp.rs *)

ftype_ok(w) == Esize(w) < 2

FpCvtIntOf(w) ==
    LET rmode == field(w, 19, 2)  opcode == field(w, 16, 3)
        topHalf == sf(w) /\ Esize(w) = 2 /\ rmode = 1 /\ opcode \in {6, 7}   \* FMOV Vd.D[1]
    IN  When(\/ topHalf
             \/ ftype_ok(w) /\ \/ rmode = 0 /\ opcode \in {2, 3, 4, 5}
                               \/ opcode \in {0, 1}
                               \/ rmode = 0 /\ opcode \in {6, 7} /\ (sf(w) <=> Esize(w) = 1),
             [op |-> "FpCvtInt", sf |-> sf(w), ftype |-> Esize(w), rmode |-> rmode,
              opcode |-> opcode, rn |-> Rn(w), rd |-> Rd(w)])

FpCvtFixedOf(w) ==
    LET opcode == field(w, 16, 3)
    IN  When(/\ ftype_ok(w)
             /\ <<field(w, 19, 2), opcode>> \in {<<0, 2>>, <<0, 3>>, <<3, 0>>, <<3, 1>>}
             /\ sf(w) \/ 15 \in w,
             [op |-> "FpCvtFixed", sf |-> sf(w), ftype |-> Esize(w), opcode |-> opcode,
              scale |-> field(w, 10, 6), rn |-> Rn(w), rd |-> Rd(w)])

FpDataProc1Of(w) ==
    LET opcode == field(w, 15, 6)
    IN  When(\/ opcode \in (0 .. 3) \cup (8 .. 12) \cup {14, 15} /\ ftype_ok(w)
             \/ opcode = 4 /\ Esize(w) = 1
             \/ opcode = 5 /\ Esize(w) = 0,
             [op |-> "FpDataProc1", ftype |-> Esize(w), opcode |-> opcode,
              rn |-> Rn(w), rd |-> Rd(w)])

FpDataProc2Of(w) ==
    When(ftype_ok(w) /\ field(w, 12, 4) <= 8,
         [op |-> "FpDataProc2", ftype |-> Esize(w), opcode |-> field(w, 12, 4),
          rm |-> Rm(w), rn |-> Rn(w), rd |-> Rd(w)])

FpDataProc3Of(w) ==
    When(ftype_ok(w),
         [op |-> "FpDataProc3", ftype |-> Esize(w), o1 |-> 21 \in w, o0 |-> 15 \in w,
          rm |-> Rm(w), ra |-> field(w, 10, 5), rn |-> Rn(w), rd |-> Rd(w)])

FpCompareOf(w) ==
    When(ftype_ok(w) /\ w \cap {14, 15, 0, 1, 2} = {},
         [op |-> "FpCompare", ftype |-> Esize(w), rm |-> Rm(w), rn |-> Rn(w),
          cmp_zero |-> 3 \in w, signaling |-> 4 \in w])

FpImmOf(w) ==
    When(ftype_ok(w) /\ Rn(w) = 0,
         [op |-> "FpImm", ftype |-> Esize(w), imm8 |-> field(w, 13, 8), rd |-> Rd(w)])

FpCondSelectOf(w) ==
    When(ftype_ok(w),
         [op |-> "FpCondSelect", ftype |-> Esize(w), cond |-> field(w, 12, 4),
          rm |-> Rm(w), rn |-> Rn(w), rd |-> Rd(w)])

FpCondCompareOf(w) ==
    When(21 \in w /\ ftype_ok(w),
         [op |-> "FpCondCompare", ftype |-> Esize(w), rm |-> Rm(w), rn |-> Rn(w),
          cond |-> field(w, 12, 4), nzcv |-> Slice(w, 0, 4), signaling |-> 4 \in w])

Fp(w) ==
    CASE field(w, 24, 5) = 31 -> FpDataProc3Of(w)
      [] field(w, 24, 5) = 30 /\ 21 \notin w -> FpCvtFixedOf(w)
      [] field(w, 24, 5) = 30 /\ 21 \in w ->
           (CASE field(w, 10, 2) = 2 -> FpDataProc2Of(w)
              [] field(w, 10, 2) = 3 -> FpCondSelectOf(w)
              [] field(w, 10, 2) = 1 -> FpCondCompareOf(w)
              [] field(w, 10, 6) = 0 -> FpCvtIntOf(w)
              [] field(w, 10, 5) = 16 -> FpDataProc1Of(w)
              [] field(w, 10, 4) = 8 -> FpCompareOf(w)
              [] field(w, 10, 3) = 4 -> FpImmOf(w)
              [] OTHER -> Unsupported)
      [] OTHER -> Unsupported

-----------------------------------------------------------------------------
(* neon.rs and its classes *)

AcrossOf(w) ==
    When(/\ Esize(w) <= 2 /\ (Esize(w) = 2 => Q(w))
         /\ Op5(w) \in {3, 10, 26} \/ (Op5(w) = 27 /\ ~U(w)),
         Two("SimdAcrossLanes", w, Op5(w)))

AesOf(w) == When(Esize(w) = 0 /\ Op5(w) \in 4 .. 7,
                 [op |-> "CryptoAes", opcode |-> Op5(w), rn |-> Rn(w), rd |-> Rd(w)])

\* (size, index) by the lowest set bit of imm5; {} for None.
size_index(imm5) ==
    LET low == {i \in 0 .. 3 : (imm5 \div 2^i) % 2 = 1}
    IN  {<<i, imm5 \div 2^(i + 1)>> : i \in {j \in low : \A k \in low : j <= k}}

CopyOf(w) ==
    LET si   == size_index(Rm(w))
        size == (CHOOSE x \in si : TRUE)[1]
        idx  == (CHOOSE x \in si : TRUE)[2]
        imm4 == field(w, 11, 4)
        gpr(signed) == [op |-> "SimdMovToGpr", signed |-> signed, dst64 |-> Q(w), size |-> size,
                        index |-> idx, vn |-> Rn(w), rd |-> Rd(w)]
    IN  When(si # {},
             IF U(w) THEN When(Q(w), [op |-> "SimdInsElement", size |-> size, dst |-> idx,
                                      src |-> imm4 \div 2^size, rn |-> Rn(w), rd |-> Rd(w)])
             ELSE CASE imm4 = 0 -> When(size = 3 => Q(w),
                            [op |-> "SimdDupElement", q |-> Q(w), size |-> size, index |-> idx,
                             rn |-> Rn(w), rd |-> Rd(w)])
                    [] imm4 = 1 -> When(size = 3 => Q(w),
                            [op |-> "SimdDupGeneral", q |-> Q(w), size |-> size,
                             rn |-> Rn(w), rd |-> Rd(w)])
                    [] imm4 = 3 -> When(Q(w), [op |-> "SimdInsGeneral", size |-> size,
                                               index |-> idx, rn |-> Rn(w), rd |-> Rd(w)])
                    [] imm4 = 5 -> When(size <= IF Q(w) THEN 2 ELSE 1, gpr(TRUE))
                    [] imm4 = 7 -> When(IF Q(w) THEN size = 3 ELSE size <= 2, gpr(FALSE))
                    [] OTHER -> Unsupported)

ExtOf(w) == When(Q(w) \/ 14 \notin w,
                 [op |-> "SimdExt", q |-> Q(w), imm4 |-> field(w, 11, 4),
                  rm |-> Rm(w), rn |-> Rn(w), rd |-> Rd(w)])

\* By-element operands: the index takes the bits the element size leaves it,
\* and the key of an instruction is 16 * U + opcode.
ElementIndex(w) == CASE Esize(w) = 1 -> 4 * field(w, 11, 1) + field(w, 20, 2)
                     [] Esize(w) = 2 -> 2 * field(w, 11, 1) + field(w, 21, 1)
                     [] Esize(w) = 3 -> field(w, 11, 1)
ElementReg(w)   == IF Esize(w) = 1 THEN field(w, 16, 4) ELSE Rm(w)
IndexedKey(w)   == 16 * field(w, 29, 1) + field(w, 12, 4)
IndexedFp       == {1, 5, 9, 25}

IndexedOf(w) ==
    LET key == IndexedKey(w)
    IN  When(/\ key \in IndexedFp \cup {14, 30} \cup {8, 16, 20, 2, 18, 6, 22, 10, 26}
                        \cup {3, 7, 11, 12, 13, 29, 31}
             /\ Esize(w) \in CASE key \in IndexedFp -> {2, 3} [] key \in {14, 30} -> {2}
                               [] OTHER -> {1, 2}
             /\ Esize(w) = 3 => 21 \notin w /\ Q(w),
             [op |-> "SimdIndexed", q |-> Q(w), u |-> U(w), size |-> Esize(w),
              opcode |-> field(w, 12, 4), index |-> ElementIndex(w), rm |-> ElementReg(w),
              rn |-> Rn(w), rd |-> Rd(w)])

ModImmOf(w) ==
    When(~(field(w, 12, 4) = 15 /\ U(w) /\ ~Q(w)) /\ 11 \notin w,
         [op |-> "SimdModImm", q |-> Q(w), op1 |-> U(w), cmode |-> field(w, 12, 4),
          imm8 |-> Slice(w, 5, 5) \cup Shl(Slice(w, 16, 3), 5, 8), rd |-> Rd(w)])

ShiftImmOf(w) ==
    LET immh   == field(w, 19, 4)
        opcode == field(w, 11, 5)
        size   == IF immh < 2 THEN 0 ELSE IF immh < 4 THEN 1 ELSE IF immh < 8 THEN 2 ELSE 3
        fits   == size # 3 \/ Q(w)
    IN  When(\/ opcode \in {0, 2, 4, 6, 10, 14} /\ fits
             \/ opcode \in {8, 12} /\ U(w) /\ fits
             \/ opcode \in {16, 17, 18, 19, 20} /\ size <= 2
             \/ opcode \in {28, 31} /\ size >= 2 /\ fits,
             [op |-> "SimdShiftImm", q |-> Q(w), u |-> U(w), immh |-> immh,
              immb |-> field(w, 16, 3), opcode |-> opcode, rn |-> Rn(w), rd |-> Rd(w)])

TblOf(w) == [op |-> "SimdTableLookup", q |-> Q(w), is_tbx |-> 12 \in w, len |-> field(w, 13, 2),
             rm |-> Rm(w), rn |-> Rn(w), rd |-> Rd(w)]

ThreeDiffOf(w) ==
    LET opcode == field(w, 12, 4)
    IN  When(/\ Esize(w) <= 2
             /\ \/ opcode \in {0, 1, 2, 3, 4, 5, 6, 7, 8, 10, 12}
                \/ opcode \in {9, 11, 13} /\ ~U(w) /\ Esize(w) \in {1, 2}
                \/ opcode = 14 /\ ~U(w) /\ Esize(w) = 0,
             Three("SimdThreeDiff", w, opcode))

ThreeSameOf(w) ==
    LET opcode == field(w, 11, 5)
    IN  When(\/ opcode = 3
             \/ opcode \in {1, 5, 6, 7, 8, 9, 10, 11, 16, 17} /\ Fits(w)
             \/ opcode \in {0, 2, 4, 12, 13, 14, 15, 18, 20, 21} /\ Esize(w) <= 2
             \/ opcode = 23 /\ ~U(w) /\ Fits(w)
             \/ opcode = 22 /\ Esize(w) \in {1, 2}
             \/ opcode = 19 /\ IF U(w) THEN Esize(w) = 0 ELSE Esize(w) <= 2,
             Three("SimdThreeSame", w, opcode))

ThreeSameExtraOf(w) ==
    LET opcode == field(w, 11, 4)
    IN  When(\/ U(w) /\ opcode \in {0, 1} /\ Esize(w) \in {1, 2}
             \/ opcode = 2 /\ Esize(w) = 2,
             Three("SimdThreeSameExtra", w, opcode))

\* opcode, size<1> and U together name a floating-point operation.
FpKey(w, opcode) == opcode + 32 * field(w, 23, 1) + 64 * field(w, 29, 1)

ThreeSameFpOf(w) ==
    LET key == FpKey(w, field(w, 11, 5))
    IN  When(/\ key \in {26, 58, 91, 95, 30, 62, 24, 56, 122, 28, 92, 124}
                        \cup {25, 57, 27, 31, 63, 93, 125} \cup {90, 94, 126, 88, 120}
             /\ 22 \in w => Q(w),
             [op |-> "SimdThreeSameFp", q |-> Q(w), sz |-> 22 \in w, fpopcode |-> key,
              rm |-> Rm(w), rn |-> Rn(w), rd |-> Rd(w)])

fp_valid(key, double, q) ==
    \/ key \in {22, 23} /\ double
    \/ /\ key \in {47, 111, 127, 29, 93, 44, 45, 46, 108, 109, 28, 92}
                  \cup {26, 27, 58, 59, 90, 91, 122, 123} \cup {24, 25, 56, 57, 88, 89, 121}
       /\ double => q

TwoRegMiscOf(w) ==
    LET opcode == Op5(w)
    IN  IF opcode \in (12 .. 15) \cup (22 .. 31)
        THEN When(fp_valid(FpKey(w, opcode), 22 \in w, Q(w)),
                  [op |-> "SimdTwoRegMiscFp", q |-> Q(w), sz |-> 22 \in w,
                   fpop |-> FpKey(w, opcode), rn |-> Rn(w), rd |-> Rd(w)])
        ELSE When(\/ opcode = 0 /\ Esize(w) <= IF U(w) THEN 1 ELSE 2
                  \/ opcode = 1 /\ ~U(w) /\ Esize(w) = 0
                  \/ opcode \in {2, 4, 6, 18, 20} /\ Esize(w) <= 2
                  \/ opcode \in {3, 7, 8, 9, 11} /\ Fits(w)
                  \/ opcode = 5 /\ IF U(w) THEN Esize(w) <= 1 ELSE Esize(w) = 0
                  \/ opcode = 10 /\ ~U(w) /\ Fits(w)
                  \/ opcode = 19 /\ U(w) /\ Esize(w) <= 2,
                  Two("SimdTwoRegMisc", w, opcode))

ZipTrnOf(w) ==
    LET opcode == field(w, 12, 3)
    IN  When(opcode \notin {0, 4} /\ Fits(w),
             [op |-> "SimdZipTrn", q |-> Q(w), size |-> Esize(w), opcode |-> opcode,
              rm |-> Rm(w), rn |-> Rn(w), rd |-> Rd(w)])

\* The order of the tests matters: several patterns overlap.
Neon(w) ==
    IF field(w, 24, 5) = 15
    THEN IF 10 \notin w THEN IndexedOf(w)
         ELSE IF field(w, 19, 4) = 0 THEN ModImmOf(w) ELSE ShiftImmOf(w)
    ELSE LET top == {25, 26, 27}                          \* 0 _ _ 0 1 1 1 0 ...
             outer == {31, 28, 24} \cup top
         IN  IF Matches(w, outer \cup {29, 21, 15, 11, 10}, top \cup {11}) THEN ZipTrnOf(w)
             ELSE IF Matches(w, outer \cup {29, 21, 15, 11, 10}, top) THEN TblOf(w)
             ELSE IF Matches(w, (24 .. 31) \cup (17 .. 21) \cup {10, 11},
                             top \cup {30, 21, 19, 11}) THEN AesOf(w)
             ELSE IF Matches(w, outer \cup {21, 15, 14, 10}, top \cup {15, 10})
                  THEN ThreeSameExtraOf(w)
             ELSE IF Matches(w, outer \cup {29, 21, 15, 10}, top \cup {29}) THEN ExtOf(w)
             ELSE IF Matches(w, outer \cup (17 .. 21) \cup {10, 11}, top \cup {21, 20, 11})
                  THEN AcrossOf(w)
             ELSE IF Matches(w, outer \cup (17 .. 21) \cup {10, 11}, top \cup {21, 11})
                  THEN TwoRegMiscOf(w)
             ELSE IF Matches(w, outer \cup (21 .. 23) \cup {15, 10}, top \cup {10}) THEN CopyOf(w)
             ELSE IF field(w, 24, 5) # 14 \/ 21 \notin w THEN Unsupported
             ELSE IF field(w, 10, 2) = 0 THEN ThreeDiffOf(w)
             ELSE IF 10 \notin w THEN Unsupported
             ELSE IF field(w, 11, 5) >= 24 THEN ThreeSameFpOf(w) ELSE ThreeSameOf(w)

-----------------------------------------------------------------------------
(* neon/scalar.rs and neon/sha.rs *)

Sha3Of(w) == When(Esize(w) = 0 /\ field(w, 12, 3) <= 6,
                  [op |-> "CryptoSha3", opcode |-> field(w, 12, 3),
                   rm |-> Rm(w), rn |-> Rn(w), rd |-> Rd(w)])

Sha2Of(w) == When(Esize(w) = 0 /\ Op5(w) <= 2,
                  [op |-> "CryptoSha2", opcode |-> Op5(w), rn |-> Rn(w), rd |-> Rd(w)])

ScalarThreeSameOf(w) ==
    LET opcode == field(w, 11, 5)
    IN  When(\/ opcode >= 24 /\ FpKey(w, opcode) \in {27, 31, 63, 93, 125, 28, 92, 124, 122}
             \/ opcode \in {1, 5, 9, 11}
             \/ opcode \in {8, 10, 6, 7, 17, 16} /\ Esize(w) = 3
             \/ opcode = 22 /\ Esize(w) \in {1, 2},
             [op |-> "SimdScalarThreeSame", u |-> U(w), size |-> Esize(w), opcode |-> opcode,
              rm |-> Rm(w), rn |-> Rn(w), rd |-> Rd(w)])

ScalarTwoRegMiscOf(w) ==
    LET opcode == Op5(w)
    IN  When(IF opcode \in (12 .. 15) \cup (22 .. 31)
             THEN FpKey(w, opcode) \in {44, 45, 46, 108, 109, 29, 93, 28, 92}
                                       \cup {26, 27, 58, 59, 90, 91, 122, 123}
             ELSE \/ opcode \in {3, 7}
                  \/ opcode \in {8, 9, 11} /\ Esize(w) = 3
                  \/ opcode = 10 /\ ~U(w) /\ Esize(w) = 3
                  \/ opcode = 18 /\ U(w) /\ Esize(w) <= 2
                  \/ opcode = 20 /\ Esize(w) <= 2,
             [op |-> "SimdScalarTwoRegMisc", u |-> U(w), size |-> Esize(w), opcode |-> opcode,
              rn |-> Rn(w), rd |-> Rd(w)])

ScalarPairwiseOf(w) ==
    LET full == Op5(w) + 32 * field(w, 23, 1)
    IN  When(IF U(w) THEN full \in {12, 13, 15, 44, 47} ELSE Op5(w) = 27 /\ Esize(w) = 3,
             [op |-> "SimdScalarPairwise", u |-> U(w), size |-> Esize(w), opcode |-> Op5(w),
              rn |-> Rn(w), rd |-> Rd(w)])

ScalarThreeDiffOf(w) ==
    When(~U(w) /\ field(w, 12, 4) \in {9, 11, 13} /\ Esize(w) \in {1, 2},
         [op |-> "SimdScalarThreeDiff", size |-> Esize(w), opcode |-> field(w, 12, 4),
          rm |-> Rm(w), rn |-> Rn(w), rd |-> Rd(w)])

ScalarCopyOf(w) ==
    When(~U(w) /\ field(w, 11, 4) = 0 /\ field(w, 16, 4) # 0,
         [op |-> "SimdScalarCopy", imm5 |-> Rm(w), rn |-> Rn(w), rd |-> Rd(w)])

ScalarIndexedOf(w) ==
    LET key == IndexedKey(w)
    IN  When(/\ key \in IndexedFp \cup {3, 7, 11, 12, 13}
             /\ Esize(w) \in IF key \in IndexedFp THEN {2, 3} ELSE {1, 2}
             /\ Esize(w) = 3 => 21 \notin w,
             [op |-> "SimdScalarIndexed", u |-> U(w), size |-> Esize(w),
              opcode |-> field(w, 12, 4), index |-> ElementIndex(w), rm |-> ElementReg(w),
              rn |-> Rn(w), rd |-> Rd(w)])

ScalarShiftImmOf(w) ==
    LET immh == field(w, 19, 4)  opcode == field(w, 11, 5)
    IN  When(/\ immh # 0
             /\ \/ opcode \in {0, 2, 4, 6, 10} /\ immh >= 8
                \/ opcode = 8 /\ U(w) /\ immh >= 8
                \/ opcode = 12 /\ U(w)
                \/ opcode = 14
                \/ opcode \in {16, 17} /\ U(w) /\ immh < 8
                \/ opcode \in {18, 19} /\ immh < 8
                \/ opcode \in {28, 31} /\ immh >= 4,
             [op |-> "SimdScalarShiftImm", u |-> U(w), immh |-> immh, immb |-> field(w, 16, 3),
              opcode |-> opcode, rn |-> Rn(w), rd |-> Rd(w)])

ScalarSimd(w) ==
    LET dp    == {25, 26, 27, 28, 30}                     \* 0 1 _ 1 1 1 1 ...
        outer == {31, 24} \cup dp
    IN  IF Matches(w, outer \cup {29, 21, 15, 11, 10}, dp) THEN Sha3Of(w)
        ELSE IF Matches(w, outer \cup {29, 10, 11} \cup (17 .. 21), dp \cup {21, 19, 11})
             THEN Sha2Of(w)
        ELSE IF Matches(w, outer \cup {21, 10, 11}, dp \cup {21}) THEN ScalarThreeDiffOf(w)
        ELSE IF Matches(w, outer \cup {21, 10}, dp \cup {21, 10}) THEN ScalarThreeSameOf(w)
        ELSE IF Matches(w, outer \cup (17 .. 21) \cup {10, 11}, dp \cup {21, 11})
             THEN ScalarTwoRegMiscOf(w)
        ELSE IF Matches(w, outer \cup (17 .. 21) \cup {10, 11}, dp \cup {21, 20, 11})
             THEN ScalarPairwiseOf(w)
        ELSE IF Matches(w, outer \cup {21, 22, 23, 15, 10}, dp \cup {10}) THEN ScalarCopyOf(w)
        ELSE IF Matches(w, outer \cup {10}, dp \cup {24}) THEN ScalarIndexedOf(w)
        ELSE IF Matches(w, outer \cup {23, 10}, dp \cup {24, 10}) THEN ScalarShiftImmOf(w)
        ELSE Unsupported

-----------------------------------------------------------------------------
(* lib.rs: the encoding group, from bits 28:25. *)

decode(w) ==
    LET op0 == field(w, 25, 4)
    IN  CASE op0 \in {4, 6, 12, 14} -> Ldst(w)
          [] op0 \in {8, 9} -> DpImm(w)
          [] op0 \in {10, 11} -> Branch(w)
          [] op0 \in {5, 13} -> DpReg(w)
          [] op0 = 15 -> IF 30 \in w THEN ScalarSimd(w) ELSE Fp(w)
          [] op0 = 7 -> Neon(w)
          [] OTHER -> Unsupported

\* block.rs: the instructions that end a block.
is_terminator(i) ==
    i.op \in {"BranchImm", "CondBranch", "CompareBranch", "TestBranch", "BranchReg", "Svc",
              "Eret", "Unsupported"}
=============================================================================
