------------------------------- MODULE Words -------------------------------
(***************************************************************************)
(* Machine words. TLC's integers stop at 2^31, so a word is the set of its *)
(* one bits: a u32 is a subset of 0..31, a register value a subset of      *)
(* 0..63, a vector register a subset of 0..127. And, or and exclusive or   *)
(* are then \cap, \cup and symmetric difference, and arithmetic is defined *)
(* by the position of the bits.                                            *)
(***************************************************************************)
EXTENDS Integers, FiniteSets, FiniteSetsExt

Low(n) == 0 .. n - 1                 \* n ones; also the positions of an n-bit word
W32 == Low(32)
W64 == Low(64)

Bits(n) == {i \in 0 .. 30 : (n \div 2^i) % 2 = 1}     \* n < 2^31
Num(a)  == MapThenSumSet(LAMBDA i : 2^i, a)           \* a \subseteq 0..30

\* Shifts, keeping what lands in a w-bit word.
Shl(a, n, w) == {i + n : i \in a} \cap Low(w)
Shr(a, n)    == {i - n : i \in {j \in a : j >= n}}
Sar(a, n, w) == Shr(a, n) \cup IF w - 1 \in a THEN (w - n) .. (w - 1) ELSE {}
Ror(a, n, w) == {(i - n) % w : i \in a}
Slice(a, lsb, len) == Shr(a \cap lsb .. lsb + len - 1, lsb)

\* The low `from` bits of a sign-extended to `to` bits.
Sext(a, from, to) ==
    (a \cap Low(from)) \cup IF from - 1 \in a THEN from .. to - 1 ELSE {}

Xor(a, b) == SymDiff(a, b)
Not(a, w) == Low(w) \ a

\* Addition: the bits, then the carries one place up, until none is left. The
\* sum is exact: the caller keeps the bits its width holds.
Plus(a, b) ==
    LET plus[p \in (SUBSET Nat) \X (SUBSET Nat)] ==
            IF p[2] = {} THEN p[1]
            ELSE plus[<<Xor(p[1], p[2]), {i + 1 : i \in p[1] \cap p[2]}>>]
    IN  plus[<<a, b>>]
Add(a, b, w) == Plus(a, b) \cap Low(w)
Neg(a, w)    == Add(Not(a, w), {0}, w)
Minus(a, b, w) == Add(a, Neg(b, w), w)
Times(a, b)  ==                              \* exact up to 128 bits each
    LET sum[p \in (SUBSET Low(128)) \X (SUBSET Low(256))] ==
            IF p[1] = {} THEN p[2]
            ELSE LET i == CHOOSE k \in p[1] : TRUE
                 IN  sum[<<p[1] \ {i}, Add(p[2], {j + i : j \in a}, 256)>>]
    IN  sum[<<b, {}>>]

\* Orders: the highest bit in which two words differ decides.
ULess(a, b) == a # b /\ Max(Xor(a, b)) \in b
SLess(a, b, w) == ULess(Xor(a, {w - 1}), Xor(b, {w - 1}))

\* Long division, from the top bit down, quotient and remainder; d # {}.
UDiv(a, d) ==
    LET div[p \in (-1 .. 63) \X (SUBSET W64) \X (SUBSET Nat)] ==
            IF p[1] < 0 THEN p[2]
            ELSE LET s == {j + 1 : j \in p[3]} \cup (IF p[1] \in a THEN {0} ELSE {})
                 IN  IF ULess(s, d) THEN div[<<p[1] - 1, p[2], s>>]
                     ELSE div[<<p[1] - 1, p[2] \cup {p[1]}, Minus(s, d, 66)>>]
    IN  div[<<63, {}, {}>>]

LeadingZeros(a, w) == IF a = {} THEN w ELSE w - 1 - Max(a)

\* bits.rs: sf, field and sfield of an instruction word.
sf(word) == 31 \in word
field(word, lsb, len) == Num(Slice(word, lsb, len))
sfield(word, lsb, len) == Sext(Slice(word, lsb, len), len, 64)
=============================================================================
