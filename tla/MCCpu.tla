-------------------------------- MODULE MCCpu --------------------------------
(***************************************************************************)
(* Programs for Compiled: families of instruction words, each a fixed part *)
(* and the bits that run over every value, with register values at the     *)
(* edges of the 32- and 64-bit ranges, and a few programs of several words *)
(* with calls, loops and instructions that no block may hold.              *)
(***************************************************************************)
EXTENDS Compiled, TLC

Word(hi, lo)      == Shl(Bits(hi), 16, 32) \cup Bits(lo)
Family(fixed, free) == {fixed \cup s : s \in SUBSET free}
Field(lsb, values)  == {Shl(Bits(n), lsb, 32) : n \in values}
Cross(F, G)         == {f \cup g : f \in F, g \in G}
Rd0Rn1    == Bits(32)                  \* rd = 0, rn = 1
Rm2       == {17}

Edges   == {{}, {0}, {31}, {63}, Low(31), Low(32), Low(63), W64}
Mixed   == Shl(Bits(\h0123), 48, 64) \cup Shl(Bits(\hC5E7), 32, 64)
           \cup Shl(Bits(\h89AB), 16, 64) \cup Bits(\h4D6F)
Zeros(n) == [r \in 0 .. n |-> {}]
\* Lanes with both signs, extremes and equal neighbours at every size.
VecA == Shl(Mixed, 64, 128) \cup Shl(Bits(\h80FF), 48, 128) \cup Shl(Bits(\h7F00), 32, 128)
        \cup Shl(Bits(\h8000), 16, 128) \cup Bits(\h017F)
VecB == Shl(Bits(\h7FFF), 112, 128) \cup Shl(Bits(\hFFFE), 96, 128) \cup Shl(Bits(\h8080), 64, 128)
        \cup Shl(Bits(\h8001), 48, 128) \cup Shl(Bits(\h0810), 32, 128)
        \cup Shl(Bits(\h8000), 16, 128) \cup Bits(\h03FD)

Registers(a, b, nzcv, va, vb) ==
    [x |-> [Zeros(30) EXCEPT ![0] = Mixed, ![1] = a, ![2] = b, ![30] = {12}],
     sp |-> {4, 31, 40}, nzcv |-> nzcv,
     v |-> [Zeros(31) EXCEPT ![0] = Xor(VecA, VecB), ![1] = va, ![2] = vb]]
Scalars(words, As, Bs, Flags) ==
    {[programs |-> {<<w>> : w \in words},
      registers |-> {Registers(a, b, f, VecA, VecB) : a \in As, b \in Bs, f \in Flags}]}
Vectors(words, Vs) ==
    {[programs |-> {<<w>> : w \in words},
      registers |-> {Registers(Mixed, {63}, {}, v[1], v[2]) : v \in Vs}]}

AnyFlags == SUBSET Nzcv
OneFlags == {{29}}
Few      == {{}, {31}, {63}, W64, Mixed}

-----------------------------------------------------------------------------
Sp31     == {Rd0Rn1, Word(0, \h03E0), Word(0, \h03FF), Word(0, \h003F)}
AddSub   ==
    Scalars(Cross(Cross(Family(Word(\h1100, 0), {31, 30, 29, 22}), Sp31),
                  Field(10, {0, 1, 4095})), {{}, {31}, {63}, W64}, {{}}, OneFlags)
    \cup Scalars(Cross(Cross(Family(Word(\h0B00, 0) \cup Rd0Rn1 \cup Rm2, {31, 30, 29}),
                             Field(22, {0, 1, 2})), Field(10, {0, 31})), Edges, {{0}, {31}, W64}, OneFlags)
    \cup Scalars(Cross(Cross(Family(Word(\h0B20, 0) \cup Rm2, {31, 30, 29, 13, 14, 15}), Field(10, {0, 4})),
                       {Rd0Rn1, Word(0, \h03FF)}), {Mixed}, {Mixed, VecA \cap W64}, OneFlags)
    \cup Scalars(Family(Word(\h1A00, 0) \cup Rd0Rn1 \cup Rm2, {31, 30, 29}), Edges, Edges,
                 {{}, {29}})
Logic    ==
    Scalars(Cross(Cross(Family(Word(\h0A00, 0) \cup Rd0Rn1 \cup Rm2, {31, 30, 29, 23, 22, 21}),
                        Field(10, {0, 1, 31, 32})), {{}}), {Mixed, W64}, {{63}, VecB \cap W64}, OneFlags)
    \cup Scalars(Cross(Cross(Family(Word(\h1200, 0), {31, 30, 29, 22}), {Rd0Rn1, Word(0, \h003F)}),
                       Cross(Field(16, {0, 1, 5, 33, 63}), Field(10, 0 .. 63))),
                 {Mixed}, {{}}, OneFlags)
    \cup Scalars(Cross(Cross(Family(Word(\h1280, 0), {31, 30, 29, 22, 21}), {{}, Bits(31)}),
                       Field(5, {0, 1, 32768, 65535})), {{}}, {{}}, OneFlags)
    \cup Scalars(Cross(Family(Word(\h1300, 0) \cup Rd0Rn1, {30, 29}),
                       Cross({{}, {31, 22}}, Cross(Field(16, {0, 1, 7, 15, 31, 32, 40, 63}),
                                                   Field(10, {0, 1, 7, 15, 31, 32, 63})))),
                 {Mixed, {63}}, {{}}, OneFlags)
    \cup Scalars(Cross(Cross({{}, {31, 22}}, Field(10, {0, 1, 31, 63})),
                       {Word(\h1380, 0) \cup Rd0Rn1 \cup Rm2}), {Mixed}, {W64, VecA \cap W64}, OneFlags)
Selects  ==
    Scalars(Cross(Family(Word(\h1A80, 0) \cup Rd0Rn1 \cup Rm2, {31, 30, 10}),
                  Field(12, {0, 10})), Few, Few, {{}, {30}})
    \cup Scalars(Cross({Word(\h9A80, 0) \cup Rd0Rn1 \cup Rm2}, Field(12, 0 .. 15)),
                 {Mixed}, {{}}, AnyFlags)
    \cup Scalars(Cross(Cross(Family(Word(\h3A40, 5) \cup Rd0Rn1 \cup Rm2, {31, 30, 11}),
                             Field(12, {1, 8, 14, 15})), {{}}), Few, {{}, W64}, {{29}, {30}})
Products ==
    Scalars(Cross(Family(Word(\h5AC0, 0) \cup Rd0Rn1, {31}), Field(10, 0 .. 6)),
            Edges \cup {Mixed}, {{}}, OneFlags)
    \cup Scalars(Cross(Family(Word(\h1AC0, 0) \cup Rd0Rn1 \cup Rm2, {31}),
                       Field(10, {2, 3, 8, 9, 10, 11})), Few \cup {Low(63), {31, 63}}, Few \cup {Low(32), {0}, {1}, {5}}, OneFlags)
    \cup Scalars(Cross(Family(Word(\h1AC0, 0) \cup Rd0Rn1 \cup Rm2, {31}), Field(10, 16 .. 23)),
                 {Mixed}, {Mixed}, OneFlags)
    \cup Scalars(Cross(Family(Word(\h1B00, 0) \cup Rd0Rn1 \cup Rm2, {31, 15, 23, 22, 21}),
                       Field(10, {0, 31})), {W64, {63}, Low(32), Mixed}, {W64, {63}, VecA \cap W64}, OneFlags)
Branches ==
    Scalars(Cross(Cross({Word(\h1400, 0), Word(\h9400, 0)}, {Bits(2), Low(26), {25}}), {{}}),
            {{}}, {{}}, OneFlags)
    \cup Scalars(Cross({Word(\h5400, 64)}, Field(0, 0 .. 15)), {{}}, {{}}, AnyFlags)
    \cup Scalars(Cross(Family(Word(\h3400, 65), {31, 24}), {{}, {23}}), Edges, {{}}, OneFlags)
    \cup Scalars(Cross(Family(Word(\h3600, 65), {31, 24}), Field(19, {0, 31})), Edges, {{}}, OneFlags)
    \cup Scalars(Cross({Word(\hD61F, 32), Word(\hD61F, \h03E0)}, Field(21, {0, 1, 2})), Few, {{}}, OneFlags)
    \cup Scalars(Cross(Family(Word(\h1000, 0), {31, 30, 23, 5}), {{}, Bits(31)}), {{}}, {{}}, OneFlags)
    \cup Scalars({Word(\hD503, \h201F), Word(\hF980, 0), Word(\hD503, \h207F), Word(\hD400, 1)}, {{}}, {{}}, OneFlags)

-----------------------------------------------------------------------------
TwoVs == {<<VecA, VecB>>, <<VecB, VecA>>}
AllVs == TwoVs \cup {<<Low(128), {7, 15, 31, 63, 127}>>, <<VecA, VecA>>}
Elementwise ==
    Vectors(Family(Word(\h0E20, \h0400) \cup Rd0Rn1 \cup Rm2, {30, 29} \cup (22 .. 23) \cup (11 .. 15)), AllVs)
    \cup Vectors(Family(Word(\h0E20, 0) \cup Rd0Rn1 \cup Rm2, {30, 29} \cup (22 .. 23) \cup (12 .. 15)), TwoVs)
    \cup Vectors(Family(Word(\h0E00, \h8400) \cup Rd0Rn1 \cup Rm2, {30, 29} \cup (22 .. 23) \cup (11 .. 12)), TwoVs)
    \cup Vectors(Family(Word(\h0E20, \h0800) \cup Rd0Rn1, {30, 29} \cup (22 .. 23) \cup (12 .. 16)), AllVs)
    \cup Vectors(Family(Word(\h0E30, \h0800) \cup Rd0Rn1, {30, 29} \cup (22 .. 23) \cup (12 .. 16)), TwoVs)
    \cup Vectors(Family(Word(\h0F00, 0) \cup Rd0Rn1 \cup Rm2, {30, 29, 21, 11} \cup (22 .. 23) \cup (12 .. 15)), {<<VecA, VecB>>})
Moves ==
    Vectors(Cross(Family(Word(\h0F00, \h0400), {30, 29} \cup (12 .. 15)), {Word(0, \h02A0), Word(4, \h0020)}), {<<VecA, VecB>>})
    \cup Vectors(Cross(Family(Word(\h0F00, \h0400) \cup Rd0Rn1, {30, 29} \cup (11 .. 15)),
                       Field(16, {8, 11, 15, 16, 25, 31, 32, 49, 63, 64, 65, 100, 127})), {<<VecA, VecB>>})
    \cup Vectors(Family(Word(\h0E00, \h0800) \cup Rd0Rn1 \cup Rm2, {30} \cup (22 .. 23) \cup (12 .. 14)), TwoVs)
    \cup Vectors(Family(Word(\h2E00, 0) \cup Rd0Rn1 \cup Rm2, {30} \cup (11 .. 14)), {<<VecA, VecB>>})
    \cup Vectors(Family(Word(\h0E00, 0) \cup Rd0Rn1 \cup Rm2, {30, 12, 13}), AllVs)
    \cup Vectors(Cross(Family(Word(\h0E00, \h0400) \cup Rd0Rn1, {30, 29} \cup (11 .. 14)),
                       Field(16, {1, 31, 2, 14, 4, 28, 8, 24})), {<<VecA, VecB>>})
ScalarVectors ==
    Vectors(Family(Word(\h5E20, \h0400) \cup Rd0Rn1 \cup Rm2, {29} \cup (22 .. 23) \cup (11 .. 15)), AllVs)
    \cup Vectors(Family(Word(\h5E20, \h0800) \cup Rd0Rn1, {29} \cup (22 .. 23) \cup (12 .. 16)), AllVs)
    \cup Vectors(Family(Word(\h5E30, \h0800) \cup Rd0Rn1, {29} \cup (22 .. 23) \cup (12 .. 16)), {<<VecA, VecB>>})
    \cup Vectors(Family(Word(\h5E20, 0) \cup Rd0Rn1 \cup Rm2, {29} \cup (22 .. 23) \cup (12 .. 15)), TwoVs)
    \cup Vectors(Cross({Word(\h5E00, \h0400) \cup Rd0Rn1}, Field(16, {1, 31, 2, 14, 4, 28, 8, 24})), {<<VecA, VecB>>})
    \cup Vectors(Family(Word(\h5F00, 0) \cup Rd0Rn1 \cup Rm2, {29, 21, 11} \cup (22 .. 23) \cup (12 .. 15)), {<<VecA, VecB>>})
    \cup Vectors(Cross(Family(Word(\h5F00, \h0400) \cup Rd0Rn1, {29} \cup (11 .. 15)),
                       Field(16, {8, 13, 16, 25, 32, 49, 64, 100, 127})), {<<VecA, VecB>>})

-----------------------------------------------------------------------------
Programs ==
    {[registers |-> {Registers(a, b, {}, VecA, VecB) : a \in {{0, 1}, {63}}, b \in {{0}, W64}},
      programs  |-> {
        \* CMP X1, X2; B.LT over a CLZ
        <<Word(\hEB02, \h003F), Word(\h5400, \h004B), Word(\hDAC0, \h1020), Word(\h9100, \h0400)>>,
        \* BL over a CRC32 that no block holds; ADR; RET to the CRC32
        <<Word(\h9400, 2), Word(\h1AC2, \h4820), Word(\h1000, \h0022), Word(\hD65F, \h03C0)>>,
        \* ADRP, ADCS with its result, CSINC, RET
        <<Word(\hB000, 0), Word(\hBA02, 0), Word(\h9A82, \h0420), Word(\hD65F, \h03C0)>>}],
     \* SUBS X1, X1, 1; ADD; CBNZ X1 to the SUBS; NOP
     [registers |-> {Registers({0, 1}, {0}, {}, VecA, VecB)},
      programs  |-> {<<Word(\hF100, \h0421), Word(\h8B00, \h0040), Word(\hB5FF, \hFFC1),
                       Word(\hD503, \h201F)>>}]}

AllFamilies == AddSub \cup Logic \cup Selects \cup Products \cup Branches
            \cup Elementwise \cup Moves \cup ScalarVectors \cup Programs
Compiled_at == {30, 19} \cup (3 .. 11)                   \* 0x40080FF8
Run_at      == 3 .. 63                                   \* the pc wraps to 0 after two words
=============================================================================
