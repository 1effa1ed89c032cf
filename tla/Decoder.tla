------------------------------ MODULE Decoder ------------------------------
(***************************************************************************)
(* crates/decoder without the vector and floating-point groups: from a     *)
(* 32-bit word to a typed instruction. An instruction is a record whose op *)
(* is the name of the variant of Insn; a number of up to 30 bits is an     *)
(* integer, a 64-bit immediate the set of its one bits.                    *)
(***************************************************************************)
EXTENDS Words

Unsupported == [op |-> "Unsupported"]
When(valid, insn) == IF valid THEN insn ELSE Unsupported

Rd(w) == field(w, 0, 5)
Rn(w) == field(w, 5, 5)
Rm(w) == field(w, 16, 5)
Size(w) == field(w, 30, 2)
WidthOf(w) == IF sf(w) THEN 64 ELSE 32

-----------------------------------------------------------------------------
(* bitmask.rs *)

Replicate(elem, esize) == {i \in W64 : i % esize \in elem}

\* Defect: the tail mask counts from the other end.
decode_bit_masks_tail(n, imms, immr, immediate) ==
    LET x == Bits(64 * n) \cup (Low(6) \ Bits(imms))  esize == 2 ^ Max(x)
    IN  IF x \in {{}, {0}} THEN {}
        ELSE {[wmask |-> Replicate(Ror(Low((imms % esize) + 1), immr % esize, esize), esize),
               tmask |-> Replicate(Low(((immr - imms) % esize) + 1), esize)]}

\* (N, imms, immr) to the two masks; {} for None.
decode_bit_masks(n, imms, immr, immediate) ==
    LET x      == Bits(64 * n) \cup (Low(6) \ Bits(imms))
        esize  == 2 ^ Max(x)
        s      == imms % esize
        r      == immr % esize
        diff   == (s - r) % esize
    IN  IF x \in {{}, {0}} \/ (immediate /\ s = esize - 1) THEN {}
        ELSE {[wmask |-> Replicate(Ror(Low(s + 1), r, esize), esize),
               tmask |-> Replicate(Low(diff + 1), esize)]}

-----------------------------------------------------------------------------
(* dp_imm.rs: data processing, immediate. *)

PcRelOf(w) ==
    LET raw == Sext(Shl(Slice(w, 5, 19), 2, 64) \cup Slice(w, 29, 2), 21, 64)
    IN  [op |-> "PcRel", page |-> 31 \in w,
         imm |-> IF 31 \in w THEN Shl(raw, 12, 64) ELSE raw, rd |-> Rd(w)]

AddSubImmOf(w) ==
    When(field(w, 22, 2) < 2,
         [op |-> "AddSubImm", sf |-> sf(w), sub |-> 30 \in w, set_flags |-> 29 \in w,
          shift12 |-> 22 \in w, imm12 |-> field(w, 10, 12), rn |-> Rn(w), rd |-> Rd(w)])

LogicalImmOf(w) ==
    LET masks == decode_bit_masks(field(w, 22, 1), field(w, 10, 6), field(w, 16, 6), TRUE)
    IN  When((sf(w) \/ 22 \notin w) /\ masks # {},
             [op |-> "LogicalImm", sf |-> sf(w), opc |-> field(w, 29, 2),
              imm |-> (CHOOSE m \in masks : TRUE).wmask \cap Low(WidthOf(w)),
              rn |-> Rn(w), rd |-> Rd(w)])

MoveWideOf(w) ==
    When(field(w, 29, 2) # 1 /\ (sf(w) \/ 22 \notin w),
         [op |-> "MoveWide", sf |-> sf(w), opc |-> field(w, 29, 2), hw |-> field(w, 21, 2),
          imm16 |-> Slice(w, 5, 16), rd |-> Rd(w)])

BitfieldOf(w) ==
    LET immr  == field(w, 16, 6)
        imms  == field(w, 10, 6)
        masks == decode_bit_masks(field(w, 22, 1), imms, immr, FALSE)
        m     == CHOOSE x \in masks : TRUE
    IN  When(/\ sf(w) <=> 22 \in w
             /\ immr < WidthOf(w) /\ imms < WidthOf(w) /\ field(w, 29, 2) <= 2
             /\ masks # {},
             [op |-> "Bitfield", sf |-> sf(w), opc |-> field(w, 29, 2), wmask |-> m.wmask,
              tmask |-> m.tmask, immr |-> immr, imms |-> imms, rn |-> Rn(w), rd |-> Rd(w)])

ExtractOf(w) ==
    When((sf(w) <=> 22 \in w) /\ field(w, 29, 2) = 0 /\ 21 \notin w
             /\ field(w, 10, 6) < WidthOf(w),
         [op |-> "Extract", sf |-> sf(w), rm |-> Rm(w), rn |-> Rn(w),
          lsb |-> field(w, 10, 6), rd |-> Rd(w)])

DpImm(w) ==
    LET group == field(w, 23, 3)
    IN  CASE group \in {0, 1} -> PcRelOf(w)
          [] group = 2 -> AddSubImmOf(w)
          [] group = 4 -> LogicalImmOf(w)
          [] group = 5 -> MoveWideOf(w)
          [] group = 6 -> BitfieldOf(w)
          [] group = 7 -> ExtractOf(w)
          [] OTHER -> Unsupported

-----------------------------------------------------------------------------
(* dp_reg.rs: data processing, register. *)

ShiftType == {"Lsl", "Lsr", "Asr", "Ror"}
ShiftOf(w) == CASE field(w, 22, 2) = 0 -> "Lsl" [] field(w, 22, 2) = 1 -> "Lsr"
                [] field(w, 22, 2) = 2 -> "Asr" [] OTHER -> "Ror"

LogicalRegOf(w) ==
    When(sf(w) \/ 15 \notin w,
         [op |-> "LogicalShiftedReg", sf |-> sf(w), opc |-> field(w, 29, 2), negate |-> 21 \in w,
          shift |-> ShiftOf(w), amount |-> field(w, 10, 6),
          rm |-> Rm(w), rn |-> Rn(w), rd |-> Rd(w)])

AddSubShiftedRegOf(w) ==
    When(ShiftOf(w) # "Ror" /\ (sf(w) \/ 15 \notin w),
         [op |-> "AddSubShiftedReg", sf |-> sf(w), sub |-> 30 \in w, set_flags |-> 29 \in w,
          shift |-> ShiftOf(w), amount |-> field(w, 10, 6),
          rm |-> Rm(w), rn |-> Rn(w), rd |-> Rd(w)])

AddSubExtRegOf(w) ==
    When(field(w, 10, 3) <= 4,
         [op |-> "AddSubExtReg", sf |-> sf(w), sub |-> 30 \in w, set_flags |-> 29 \in w,
          option |-> field(w, 13, 3), imm3 |-> field(w, 10, 3),
          rm |-> Rm(w), rn |-> Rn(w), rd |-> Rd(w)])

AddSubCarryOf(w) ==
    When(field(w, 10, 6) = 0,
         [op |-> "AddSubCarry", sf |-> sf(w), sub |-> 30 \in w, set_flags |-> 29 \in w,
          rm |-> Rm(w), rn |-> Rn(w), rd |-> Rd(w)])

CondCompareOf(w) ==
    When(29 \in w /\ {4, 10} \cap w = {},
         [op |-> "CondCompare", sf |-> sf(w), sub |-> 30 \in w, is_imm |-> 11 \in w,
          imm_y |-> Rm(w), rm |-> Rm(w), cond |-> field(w, 12, 4),
          nzcv |-> Slice(w, 0, 4), rn |-> Rn(w)])

CondSelectOf(w) ==
    When(11 \notin w,
         [op |-> "CondSelect", sf |-> sf(w), op1 |-> 30 \in w, o2 |-> 10 \in w,
          cond |-> field(w, 12, 4), rm |-> Rm(w), rn |-> Rn(w), rd |-> Rd(w)])

DataProc1SrcOf(w) ==
    LET opcode == field(w, 10, 6)
    IN  When(Rm(w) = 0 /\ opcode <= 5 /\ (opcode = 3 => sf(w)),
             [op |-> "DataProc1Src", sf |-> sf(w), opcode |-> opcode, rn |-> Rn(w), rd |-> Rd(w)])

DataProc2SrcOf(w) ==
    LET opcode == field(w, 10, 6)
    IN  When(\/ opcode \in {2, 3, 8, 9, 10, 11}
             \/ opcode \in 16 .. 23 /\ (sf(w) <=> opcode % 4 = 3),
             [op |-> "DataProc2Src", sf |-> sf(w), opcode |-> opcode,
              rm |-> Rm(w), rn |-> Rn(w), rd |-> Rd(w)])

DataProc3SrcOf(w) ==
    LET op31 == field(w, 21, 3)
    IN  When(/\ field(w, 29, 2) = 0
             /\ \/ op31 = 0
                \/ op31 \in {1, 5} /\ sf(w)
                \/ op31 \in {2, 6} /\ sf(w) /\ 15 \notin w,
             [op |-> "DataProc3Src", sf |-> sf(w), op31 |-> op31, o0 |-> 15 \in w, rm |-> Rm(w),
              ra |-> field(w, 10, 5), rn |-> Rn(w), rd |-> Rd(w)])

DpReg(w) ==
    LET group == field(w, 24, 5)  kind == field(w, 21, 3)
    IN  CASE group = 10 -> LogicalRegOf(w)
          [] group = 11 /\ 21 \notin w -> AddSubShiftedRegOf(w)
          [] group = 11 /\ 21 \in w -> AddSubExtRegOf(w)
          [] group = 27 -> DataProc3SrcOf(w)
          [] group = 26 /\ kind = 0 -> AddSubCarryOf(w)
          [] group = 26 /\ kind = 2 -> CondCompareOf(w)
          [] group = 26 /\ kind = 4 -> CondSelectOf(w)
          [] group = 26 /\ kind = 6 /\ 30 \in w -> DataProc1SrcOf(w)
          [] group = 26 /\ kind = 6 /\ 30 \notin w -> DataProc2SrcOf(w)
          [] OTHER -> Unsupported

-----------------------------------------------------------------------------
(* branch.rs and system.rs *)

Offset(w, lsb, len) == Shl(sfield(w, lsb, len), 2, 64)

BranchImmOf(w) == [op |-> "BranchImm", link |-> 31 \in w, offset |-> Offset(w, 0, 26)]

CompareBranchOf(w) == [op |-> "CompareBranch", sf |-> sf(w), negate |-> 24 \in w,
                       rt |-> Rd(w), offset |-> Offset(w, 5, 19)]

TestBranchOf(w) == [op |-> "TestBranch", bit |-> 32 * field(w, 31, 1) + field(w, 19, 5),
                    negate |-> 24 \in w, rt |-> Rd(w), offset |-> Offset(w, 5, 14)]

CondBranchOf(w) ==
    When({4, 24} \cap w = {},
         [op |-> "CondBranch", cond |-> field(w, 0, 4), offset |-> Offset(w, 5, 19)])

BranchRegOf(w) ==
    LET opc == field(w, 21, 4)
    IN  When(Rm(w) = 31 /\ field(w, 10, 6) = 0 /\ Rd(w) = 0,
             IF opc = 4 /\ Rn(w) = 31 THEN [op |-> "Eret"]
             ELSE When(opc <= 2, [op |-> "BranchReg", opc |-> opc, rn |-> Rn(w)]))

TrapOf(w) ==
    LET opc == field(w, 21, 3)  ll == field(w, 0, 2)  imm16 == Slice(w, 5, 16)
    IN  CASE opc = 0 /\ ll = 1 -> [op |-> "Svc", imm16 |-> imm16]
          [] opc = 0 /\ ll = 2 -> [op |-> "Hvc", imm16 |-> imm16]
          [] opc = 0 /\ ll = 3 -> [op |-> "Smc", imm16 |-> imm16]
          [] opc = 1 /\ ll = 0 -> [op |-> "Brk", imm16 |-> imm16]
          [] OTHER -> Unsupported

\* The hint, barrier and PSTATE space of op0 = 0.
HintOf(w) ==
    LET crm == field(w, 8, 4)  op2 == field(w, 5, 3)  crn == field(w, 12, 4)
    IN  When(21 \notin w /\ Rd(w) = 31 /\ crn \in {2, 3, 4},
             CASE crn = 2 -> [op |-> IF crm # 0 THEN "Nop" ELSE IF op2 = 2 THEN "Wfe"
                                     ELSE IF op2 = 3 THEN "Wfi" ELSE "Nop"]
               [] crn = 3 -> [op |-> "Nop"]
               [] crn = 4 -> [op |-> "MsrImm", op1 |-> field(w, 16, 3), op2 |-> op2,
                              crm |-> crm])

\* The SYS space of op0 = 1: cache and TLB maintenance.
SysOf(w) ==
    LET crm == field(w, 8, 4)  crn == field(w, 12, 4)
    IN  CASE 21 \notin w /\ field(w, 16, 3) = 3 /\ crn = 7 /\ crm = 4 /\ field(w, 5, 3) = 1
                -> [op |-> "DcZva", rt |-> Rd(w)]
          [] 21 \notin w /\ crn = 8 -> [op |-> "Tlbi"]
          [] 21 \notin w /\ crn = 7 /\ crm \in {1, 5} -> [op |-> "Ic"]
          [] OTHER -> [op |-> "Nop"]

sysreg_key(op0, op1, crn, crm, op2) == 65536 * op0 + 4096 * op1 + 256 * crn + 16 * crm + op2

SystemOf(w) ==
    LET op0 == field(w, 19, 2)
    IN  CASE op0 = 0 -> HintOf(w)
          [] op0 = 1 -> SysOf(w)
          [] OTHER -> [op |-> "SysRegMove", read |-> 21 \in w, rt |-> Rd(w),
                       key |-> sysreg_key(op0, field(w, 16, 3), field(w, 12, 4),
                                          field(w, 8, 4), field(w, 5, 3))]

Branch(w) ==
    CASE field(w, 26, 5) = 5 -> BranchImmOf(w)
      [] field(w, 25, 6) = 26 -> CompareBranchOf(w)
      [] field(w, 25, 6) = 27 -> TestBranchOf(w)
      [] field(w, 24, 8) = 84 -> CondBranchOf(w)
      [] field(w, 25, 7) = 107 -> BranchRegOf(w)
      [] field(w, 22, 10) = 852 -> SystemOf(w)
      [] field(w, 24, 8) = 212 -> TrapOf(w)
      [] OTHER -> Unsupported

-----------------------------------------------------------------------------
(* ldst.rs: loads and stores. *)

LoadStore(size, is_load, signed, dst64, vec, unpriv, rt, addr) ==
    [op |-> "LoadStore", size |-> size, is_load |-> is_load, signed |-> signed,
     dst64 |-> dst64, vec |-> vec, unpriv |-> unpriv, rt |-> rt, addr |-> addr]
UnsignedImm(w, imm) == [mode |-> "UnsignedImm", rn |-> Rn(w), imm |-> imm]

\* (is_load, signed, dst64) of an integer access; {} for None.
kind(size, opc) ==
    IF opc < 2 THEN {<<opc = 1, FALSE, size = 3>>}
    ELSE IF size = 3 \/ (size = 2 /\ opc = 3) THEN {} ELSE {<<TRUE, TRUE, opc = 2>>}

\* (is_load, log2 of the width) of a vector access.
vec_kind(size, opc) ==
    IF opc < 2 THEN {<<opc % 2 = 1, size>>}
    ELSE IF size = 0 THEN {<<opc % 2 = 1, 4>>} ELSE {}

is_prefetch(size, opc) == size = 3 /\ opc = 2

\* log2 of the width; the Q registers are size 0 with the high bit of opc.
AccessSize(w) == IF {23, 26} \subseteq w /\ Size(w) = 0 THEN 4 ELSE Size(w)

\* What the six register-form classes share: the width and direction from bit
\* 26, the size and opc; addr is the class's addressing mode.
RegisterAccess(w, unpriv, prfm, addr) ==
    LET opc == field(w, 22, 2)
    IN  IF 26 \in w
        THEN IF vec_kind(Size(w), opc) = {} THEN Unsupported
             ELSE LET k == CHOOSE x \in vec_kind(Size(w), opc) : TRUE
                  IN  LoadStore(k[2], k[1], FALSE, FALSE, TRUE, unpriv, Rd(w), addr)
        ELSE IF prfm /\ is_prefetch(Size(w), opc) THEN [op |-> "Prfm"]
        ELSE IF kind(Size(w), opc) = {} THEN Unsupported
        ELSE LET k == CHOOSE x \in kind(Size(w), opc) : TRUE
             IN  LoadStore(Size(w), k[1], k[2], k[3], FALSE, unpriv, Rd(w), addr)

UimmOf(w) ==
    RegisterAccess(w, FALSE, TRUE,
                   UnsignedImm(w, Shl(Slice(w, 10, 12), AccessSize(w), 64)))

UnscaledOf(w, unpriv) ==
    RegisterAccess(w, unpriv, TRUE,
                   [mode |-> "Unscaled", rn |-> Rn(w), imm |-> sfield(w, 12, 9)])

PostOf(w) ==
    RegisterAccess(w, FALSE, FALSE,
                   [mode |-> "PostIndex", rn |-> Rn(w), imm |-> sfield(w, 12, 9)])

PreOf(w) ==
    RegisterAccess(w, FALSE, FALSE,
                   [mode |-> "PreIndex", rn |-> Rn(w), imm |-> sfield(w, 12, 9)])

\* A prefetch is accepted before the extend option is looked at.
RegOffsetOf(w) ==
    LET acc == RegisterAccess(w, FALSE, TRUE,
                   [mode |-> "RegOffset", rn |-> Rn(w), rm |-> Rm(w),
                                  option |-> field(w, 13, 3),
                                  shift |-> IF 12 \in w THEN AccessSize(w) ELSE 0])
    IN  When(acc.op = "Prfm" \/ 14 \in w, acc)

AtomicOf(w) ==
    LET opc == field(w, 12, 3)
    IN  CASE 15 \in w /\ opc = 4 /\ 23 \in w /\ 22 \notin w /\ Rm(w) = 31      \* LDAPR
                -> LoadStore(Size(w), TRUE, FALSE, Size(w) = 3, FALSE, FALSE, Rd(w),
                             UnsignedImm(w, {}))
          [] 15 \notin w \/ opc = 0
                -> [op |-> "AtomicRmw", size |-> Size(w), rs |-> Rm(w), rn |-> Rn(w),
                    rt |-> Rd(w), aop |-> IF 15 \in w THEN 8 ELSE opc]
          [] OTHER -> Unsupported

ExclOf(w) ==
    LET o2 == 23 \in w  l == 22 \in w  o1 == 21 \in w
        rs == Rm(w)  rt2 == field(w, 10, 5)  rn == Rn(w)  rt == Rd(w)  size == Size(w)
    IN  CASE o1 /\ o2 /\ rt2 = 31
                -> [op |-> "CompareSwap", size |-> size, rs |-> rs, rn |-> rn, rt |-> rt]
          [] o1 /\ ~o2 /\ rt2 = 31
                -> [op |-> "CompareSwapPair", sz |-> field(w, 30, 1), rs |-> rs, rn |-> rn,
                    rt |-> rt]
          [] o1 /\ ~o2 /\ rt2 # 31 /\ l
                -> [op |-> "LoadExclusivePair", size |-> size, rt |-> rt, rt2 |-> rt2, rn |-> rn]
          [] o1 /\ ~o2 /\ rt2 # 31 /\ ~l
                -> [op |-> "StoreExclusivePair", size |-> size, rs |-> rs, rt |-> rt,
                    rt2 |-> rt2, rn |-> rn]
          [] ~o1 /\ o2 /\ 15 \in w /\ rs = 31 /\ rt2 = 31                     \* LDAR, STLR
                -> LoadStore(size, l, FALSE, size = 3, FALSE, FALSE, rt, UnsignedImm(w, {}))
          [] ~o1 /\ ~o2 /\ rt2 = 31 /\ l
                -> [op |-> "LoadExclusive", size |-> size, rt |-> rt, rn |-> rn]
          [] ~o1 /\ ~o2 /\ rt2 = 31 /\ ~l
                -> [op |-> "StoreExclusive", size |-> size, rs |-> rs, rt |-> rt, rn |-> rn]
          [] OTHER -> Unsupported

LiteralOf(w) ==
    LET size == Size(w)  vec == 26 \in w
        addr == [mode |-> "Literal", offset |-> Offset(w, 5, 19)]
    IN  CASE vec -> When(size < 3, LoadStore(size + 2, TRUE, FALSE, FALSE, TRUE, FALSE, Rd(w), addr))
          [] ~vec /\ size = 3 -> [op |-> "Prfm"]
          [] ~vec /\ size < 3 -> LoadStore(IF size = 1 THEN 3 ELSE 2, TRUE, size = 2, size # 0,
                                          FALSE, FALSE, Rd(w), addr)

PairOf(w) ==
    LET idx    == field(w, 23, 3)
        vec    == 26 \in w
        signed == ~vec /\ Size(w) = 1
        vesize == IF vec THEN Size(w) + 2 ELSE IF Size(w) = 2 THEN 3 ELSE 2
    IN  When(idx < 4 /\ Size(w) < 3 /\ (signed => 22 \in w /\ idx # 0),
             [op |-> "LoadStorePair", is_load |-> 22 \in w, signed |-> signed,
              width8 |-> ~vec /\ Size(w) = 2, vec |-> vec, vesize |-> vesize, rt |-> Rd(w),
              rt2 |-> field(w, 10, 5), rn |-> Rn(w),
              offset |-> Shl(sfield(w, 15, 7), vesize, 64),
              index |-> CASE idx \in {0, 2} -> "Offset" [] idx = 1 -> "Post" [] idx = 3 -> "Pre"])

\* (rpt, selem) of a multiple-structure access, by bits 15:12.
StructLayout(opcode) ==
    CASE opcode = 0 -> {<<1, 4>>} [] opcode = 2 -> {<<4, 1>>} [] opcode = 4 -> {<<1, 3>>}
      [] opcode = 6 -> {<<3, 1>>} [] opcode = 7 -> {<<1, 1>>} [] opcode = 8 -> {<<1, 2>>}
      [] opcode = 10 -> {<<2, 1>>} [] OTHER -> {}

MultipleOf(w) ==
    LET layout == StructLayout(field(w, 12, 4))
        l      == CHOOSE x \in layout : TRUE
        size   == field(w, 10, 2)
    IN  When(/\ {31, 21} \cap w = {} /\ (23 \in w \/ Rm(w) = 0) /\ layout # {}
             /\ size = 3 => 30 \in w \/ l[2] = 1,
             [op |-> "SimdLdStMulti", is_load |-> 22 \in w, q |-> 30 \in w, postidx |-> 23 \in w,
              rm |-> Rm(w), rn |-> Rn(w), rt |-> Rd(w), size |-> size,
              rpt |-> l[1], selem |-> l[2]])

SingleOf(w) ==
    LET size   == field(w, 10, 2)  s == 12 \in w  scale == field(w, 14, 2)
        index  == 8 * field(w, 30, 1) + 4 * field(w, 12, 1) + size
        double == scale = 2 /\ size % 2 = 1
    IN  When(/\ 31 \notin w /\ (23 \in w \/ Rm(w) = 0)
             /\ scale = 1 => size % 2 = 0
             /\ scale = 2 => size < 2 /\ (size = 1 => ~s)
             /\ scale = 3 => 22 \in w /\ ~s,
             [op |-> "SimdLdStSingle", is_load |-> 22 \in w, replicate |-> scale = 3,
              postidx |-> 23 \in w, rm |-> Rm(w), rn |-> Rn(w), rt |-> Rd(w), q |-> 30 \in w,
              selem |-> 2 * field(w, 13, 1) + field(w, 21, 1) + 1,
              size |-> IF scale = 3 THEN size ELSE IF double THEN 3 ELSE scale,
              index |-> CASE double -> index \div 8 [] scale = 2 /\ ~double -> index \div 4
                          [] scale = 1 -> index \div 2 [] scale \in {0, 3} -> index])

RegisterForm(w) ==
    LET how == field(w, 10, 2)
    IN  CASE field(w, 24, 2) = 1 -> UimmOf(w)
          [] field(w, 24, 2) = 0 /\ 21 \in w ->
                (CASE how = 2 -> RegOffsetOf(w) [] how = 0 -> AtomicOf(w)
                   [] OTHER -> Unsupported)
          [] field(w, 24, 2) = 0 /\ 21 \notin w ->
                (CASE how = 0 -> UnscaledOf(w, FALSE) [] how = 1 -> PostOf(w)
                   [] how = 2 -> UnscaledOf(w, TRUE) [] how = 3 -> PreOf(w))
          [] OTHER -> Unsupported

Ldst(w) ==
    CASE field(w, 24, 6) = 8 -> ExclOf(w)
      [] field(w, 26, 4) = 3 /\ 25 \notin w -> IF 24 \in w THEN SingleOf(w) ELSE MultipleOf(w)
      [] field(w, 27, 3) = 7 -> RegisterForm(w)
      [] field(w, 27, 3) = 3 /\ field(w, 24, 2) = 0 -> LiteralOf(w)
      [] field(w, 27, 3) = 5 -> PairOf(w)
      [] OTHER -> Unsupported
=============================================================================
