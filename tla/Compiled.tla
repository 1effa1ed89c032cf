------------------------------ MODULE Compiled ------------------------------
(***************************************************************************)
(* The JIT on straight code: the organizer forms a block where the guest   *)
(* is (region.rs), the emitted function carries it out instruction by      *)
(* instruction on the register image (emit.rs) and returns the next pc; an *)
(* instruction that starts no block is interpreted (interpret_one). The    *)
(* block was compiled at one virtual address and runs at another with the  *)
(* same page offset, so everything it says about pc is relative to its     *)
(* entry. Memory, the cache of regions and loops inside a region are in    *)
(* Jit and Mmu; floating-point instructions are not modelled.              *)
(***************************************************************************)
EXTENDS LoweringVector

CONSTANTS Families,     \* of programs: [programs, registers], each a set; the
                        \* registers are records [x, sp, nzcv, v]
          CompileVA,    \* where the code was compiled, and
          RunVA,        \* where it is mapped when it runs
          MaxBlock      \* MAX_BLOCK of the organizer

ASSUME SameOffset == CompileVA \subseteq W64 /\ RunVA \subseteq W64
                     /\ CompileVA \cap Low(12) = RunVA \cap Low(12)

Nzcv == 28 .. 31
MaxWords == 16          \* bound: a program is no longer, as InCode has it

ASSUME CompiledAssumption ==
    /\ MaxBlock \in Nat
    /\ \A f \in Families :
          /\ \A p \in f.programs : p \in Seq(SUBSET W32) /\ Len(p) \in 1 .. MaxWords
          /\ f.registers \subseteq [x: [0 .. 30 -> SUBSET W64], sp: SUBSET W64,
                                    nzcv: SUBSET Nzcv, v: [0 .. 31 -> SUBSET W128]]

VARIABLES code,     \* the program, a sequence of words
          block,    \* instructions of the block that runs
          first,    \* the place of the block in the program
          at,       \* how many of its instructions were carried out
          image,    \* the register image; image.pc is the entry pc
          ret       \* {the pc the block function returned}, or Running

vars == <<code, block, first, at, image, ret>>
Running == {}
The(s)   == CHOOSE e \in s : TRUE

Plus4(pc, n)  == Add(pc, Bits(4 * n), 64)
Decoded(k)    == [n \in 1 .. Len(code) - k + 1 |-> decode(code[n + k - 1])]
FormAt(k)     == {form_jit_block(insns, MaxBlock) : insns \in {Decoded(k)}}    \* the one
StaticPC      == Plus4(CompileVA, first - 1 + at)       \* of the instruction being emitted
StaticEntry   == Plus4(CompileVA, first - 1)

Interp == INSTANCE StepMachine WITH
    base <- RunVA,
    cpu  <- [x |-> image.x, sp |-> image.sp, v |-> image.v,
             flags |-> {b - 28 : b \in image.nzcv},
             pc |-> IF ret = Running THEN Plus4(image.pc, at) ELSE The(ret)]

Init == \E f \in Families : \E p \in f.programs, r \in f.registers :
            /\ code  = p
            /\ block \in FormAt(1) /\ first = 1 /\ at = 0
            /\ image = [x |-> r.x, sp |-> r.sp, nzcv |-> r.nzcv, v |-> r.v, pc |-> RunVA]
            /\ ret   = Running

\* emit_body: a branch at the end leaves the next pc; a block that ends
\* before an instruction it cannot hold returns the address of that one.
Lower(m, i) == IF is_inline_simd(i) THEN lower_vector(m, i)
               ELSE lower_sequential(m, i, StaticPC, StaticEntry)

Leave(t) == [t EXCEPT !.ret = {@}]

Emitted ==
    /\ ret = Running /\ at < Len(block) /\ Interp!Modelled(block[at + 1])
    /\ LET i    == block[at + 1]
           last == at + 1 = Len(block)
           done == IF last /\ is_terminator(i)
                   THEN Leave(lower_terminator(image, i, StaticPC, StaticEntry))
                   ELSE [image |-> Lower(image, i),
                         ret |-> IF last
                                 THEN {gen_rel_pc(image, Plus4(StaticPC, 1), StaticEntry)}
                                 ELSE Running]
       IN  image' = done.image /\ ret' = done.ret
    /\ at' = at + 1
    /\ UNCHANGED <<code, block, first>>

\* No block starts here: one step of the interpreter on the same state.
Interpret ==
    /\ ret = Running /\ block = <<>> /\ first <= Len(code)
    /\ \E i \in {decode(code[first])} :
         /\ Interp!Modelled(i)
         /\ \E c \in {Interp!step([x |-> image.x, sp |-> image.sp, v |-> image.v, pc |-> image.pc,
                                   flags |-> {b - 28 : b \in image.nzcv}], i)} :
               /\ image' = [x |-> c.x, sp |-> c.sp, v |-> c.v, pc |-> image.pc,
                            nzcv |-> {f + 28 : f \in c.flags}]
               /\ ret' = {c.pc}
    /\ UNCHANGED <<code, block, first, at>>

\* The organizer takes the returned pc for the entry of the next block.
Dispatch ==
    /\ ret # Running /\ Interp!InCode(The(ret))
    /\ first' = Num(Interp!Place(The(ret))) + 1
    /\ block' \in FormAt(first')
    /\ at' = 0 /\ image' = [image EXCEPT !.pc = The(ret)] /\ ret' = Running
    /\ UNCHANGED code

Next == Emitted \/ Interpret \/ Dispatch
Spec == Init /\ [][Next]_vars

-----------------------------------------------------------------------------
(* Properties *)

\* The guest cannot tell a compiled block from the interpreter: every
\* instruction a block carries out, at whatever address it is mapped, leaves
\* the registers, the flags and the pc as interp::step leaves them
\* (jit/src/lower against interp/src).
ImplementsInterpreter == Interp!Spec

\* Types: registers keep their widths and the flags their four bits, a block
\* its cap, whatever the helpers shift in (common.rs mask_w, arith.rs).
TypeOK ==
    /\ image \in [x: [0 .. 30 -> SUBSET W64], sp: SUBSET W64, nzcv: SUBSET Nzcv,
                  v: [0 .. 31 -> SUBSET W128], pc: SUBSET W64]
    /\ at \in 0 .. Len(block) /\ Len(block) <= MaxBlock /\ first \in 1 .. Len(code)
    /\ Cardinality(ret) <= 1 /\ \A pc \in ret : pc \subseteq W64

\* The instruction a step carries out, in a block or by the interpreter.
Executes == ret = Running /\ (at' > at \/ ret' # Running)
Insn     == IF block = <<>> THEN decode(code[first]) ELSE block[at + 1]

\* After a comparison the condition codes order its operands, unsigned by C
\* and Z and signed by N, V and Z: 64 bits take the carry from a wrapped sum
\* (arith.rs emit_add_core), the test reads single flags (cond.rs, both).
Comparison(i) == /\ i.op \in {"AddSubShiftedReg", "AddSubImm"} /\ i.sub /\ i.set_flags
                 /\ i.op = "AddSubShiftedReg" => i.amount = 0
Ordered(i) ==
    LET w == IF i.sf THEN 64 ELSE 32
        Reg(r) == IF r = 31 THEN {} ELSE image.x[r] \cap Low(w)
        a == IF i.op = "AddSubImm" /\ i.rn = 31 THEN image.sp \cap Low(w) ELSE Reg(i.rn)
        b == IF i.op = "AddSubImm" THEN Shl(Bits(i.imm12), IF i.shift12 THEN 12 ELSE 0, w)
             ELSE Reg(i.rm)
        Test(cond) == Interp!eval_cond(cond, {f - 28 : f \in image'.nzcv})
        Order == {<<0, a = b>>, <<3, ULess(a, b)>>, <<8, ULess(b, a)>>,     \* EQ LO HI
                  <<11, SLess(a, b, w)>>, <<12, SLess(b, a, w)>>}           \* LT GT
    IN  \A o \in Order : /\ Test(o[1]) = o[2]
                         /\ Test(o[1] + 1 - 2 * (o[1] % 2)) = ~o[2]         \* the inverses
ComparesOrder == [][Executes /\ Comparison(Insn) => Ordered(Insn)]_vars

\* UBFM, SBFM and BFM move one field of bits and fill what is around it with
\* zeros, with the sign or with the destination; a logical immediate is a run
\* of ones, rotated and repeated. Both come from the masks decode works out
\* (bitmask.rs) and a rotation (bitfield.rs, dataproc.rs).
Moved(i) ==
    LET w    == IF i.sf THEN 64 ELSE 32
        down == i.imms >= i.immr
        from == IF down THEN i.immr ELSE 0
        len  == IF down THEN i.imms - i.immr + 1 ELSE i.imms + 1
        to   == IF down THEN 0 ELSE w - i.immr
        src  == IF i.rn = 31 THEN {} ELSE image.x[i.rn]
        fld  == Shl(Slice(src, from, len), to, w)
    IN  CASE i.opc = 2 -> fld
          [] i.opc = 0 -> Sext(fld, to + len, w)
          [] i.opc = 1 -> ((image.x[i.rd] \cap Low(w)) \ to .. to + len - 1) \cup fld
RotatedRun(imm, w) ==
    \E e \in {2, 4, 8, 16, 32, 64} : \E ones \in 1 .. e - 1, rot \in 0 .. e - 1 :
        imm \cap Low(w) = {p \in Low(w) : (p + rot) % e < ones}
FieldsMove ==
    [][Executes => /\ Insn.op = "Bitfield" /\ Insn.rd # 31
                          => image'.x[Insn.rd] = Moved(Insn)
                   /\ Insn.op = "LogicalImm"
                          => RotatedRun(Insn.imm, IF Insn.sf THEN 64 ELSE 32)]_vars

\* A vector operation on 64 bits and a scalar one clear the rest of the
\* register, unless its lanes are twice as wide as its operands': the emitter
\* computes 128 bits and masks them itself (simd/mod.rs finish_v, copy.rs), the
\* interpreter joins lanes (simd.rs).
KeepsRest == {"SimdInsGeneral", "SimdInsElement", "SimdMovToGpr"}
Widens(i) ==
    \/ i.op = "SimdThreeDiff" /\ i.opcode \notin {4, 6}
    \/ i.op = "SimdIndexed" /\ i.opcode \in {2, 3, 6, 7, 10, 11}
    \/ i.op = "SimdTwoRegMisc" /\ i.opcode = 19
    \/ i.op = "SimdShiftImm" /\ i.opcode = 20
Short(i)  == /\ i.op \in Interp!VectorOps \ KeepsRest /\ ~Widens(i)
             /\ i.op \in Interp!ScalarOps \cup {"SimdAcrossLanes"} \/ ~i.q
HighHalfClear == [][Executes /\ Short(Insn) => image'.v[Insn.rd] \subseteq Low(64)]_vars
=============================================================================
