--------------------------- MODULE CompiledProofs ---------------------------
(***************************************************************************)
(* Machine-checked proofs about Compiled, from the words up. Addition,     *)
(* negation, products and orders are defined by the positions of bits: a   *)
(* word is given the number it stands for, Val, and they are shown to be   *)
(* the operations of the numbers modulo a power of two. Then what every    *)
(* field decode yields is bounded by, what each lowering leaves in the     *)
(* register image and each step of the interpreter in the processor, and   *)
(* the block the organizer forms. From these the types of Compiled follow, *)
(* and what each kind of instruction leaves: the order of two operands in  *)
(* the flags, a field moved bit by bit under decoded masks, and clear high *)
(* halves.                                                                 *)
(***************************************************************************)
EXTENDS Compiled, TLAPS, WellFoundedInduction, FiniteSetTheorems, SequenceTheorems

-----------------------------------------------------------------------------
(* Numbers *)

(* A non-empty set of naturals has a smallest element. *)
LEMMA LeastOf ==
    ASSUME NEW S, S \subseteq Nat, S # {}
    PROVE  \E n \in S : \A m \in S : n <= m
<1> DEFINE Below == {ss \in Nat \X Nat : ss[1] < ss[2]}
<1>1. IsWellFoundedOn(Below, Nat)
  BY NatLessThanWellFounded, Zenon DEF OpToRel
<1>2. \E n \in S : \A m \in S : ~ (<<m, n>> \in Below)
  <2> HIDE DEF Below
  <2> QED BY <1>1, WFMin
<1>3. \A m, n \in Nat : ~ (<<m, n>> \in Below) => n <= m
  OBVIOUS
<1>4. QED
  BY <1>2, <1>3

(* Induction, over the numbers of a set: it holds them all when it holds 0  *)
(* and, with each number, the next.                                         *)
LEMMA AllNat ==
    ASSUME NEW S, 0 \in S, \A k \in Nat : k \in S => k + 1 \in S
    PROVE  Nat \subseteq S
<1> DEFINE Missing == {k \in Nat : k \notin S}
<1> SUFFICES ASSUME Missing # {} PROVE FALSE
  OBVIOUS
<1>1. PICK k \in Missing : \A m \in Missing : k <= m
  <2>1. Missing \subseteq Nat
    OBVIOUS
  <2> HIDE DEF Missing
  <2> QED BY <2>1, LeastOf
<1>2. k \in Nat /\ k # 0 /\ k - 1 \in Nat /\ k - 1 \notin Missing
  BY <1>1
<1>3. k - 1 \in S /\ (k - 1) + 1 = k
  BY <1>2
<1> QED BY <1>1, <1>2, <1>3

\* f starts at b and follows the steps g.
Follows(f, b, g) == f[0] = b /\ \A k \in Nat : f[k + 1] = g[k][f[k]]

(* What is defined from its predecessor is a function.                      *)
LEMMA Recursion ==
    ASSUME NEW S, NEW b \in S, NEW g \in [Nat -> [S -> S]]
    PROVE  \E f \in [Nat -> S] : Follows(f, b, g)
<1> DEFINE Upto(f, n) == /\ f \in [0 .. n -> S] /\ f[0] = b
                         /\ \A k \in 0 .. n - 1 : f[k + 1] = g[k][f[k]]
<1>1. ASSUME NEW n \in Nat, NEW m \in Nat, NEW f, NEW h, Upto(f, n), Upto(h, m)
      PROVE  \A k \in Nat : k <= n /\ k <= m => f[k] = h[k]
  <2> DEFINE A == {k \in Nat : k <= n /\ k <= m => f[k] = h[k]}
  <2>1. 0 \in A
    BY <1>1
  <2>2. ASSUME NEW k \in Nat, k \in A PROVE k + 1 \in A
    <3> SUFFICES ASSUME k + 1 <= n, k + 1 <= m PROVE f[k + 1] = h[k + 1]
      OBVIOUS
    <3>1. f[k] = h[k] /\ k \in 0 .. n - 1 /\ k \in 0 .. m - 1
      BY <2>2
    <3> QED BY <3>1, <1>1
  <2>3. Nat \subseteq A
    <3> HIDE DEF A
    <3> QED BY <2>1, <2>2, AllNat
  <2> QED BY <2>3
<1>2. \A n \in Nat : \E f : Upto(f, n)
  <2> DEFINE A == {n \in Nat : \E f : Upto(f, n)}
  <2>1. 0 \in A
    <3>1. Upto([k \in 0 .. 0 |-> b], 0)
      OBVIOUS
    <3> QED BY <3>1
  <2>2. ASSUME NEW n \in Nat, n \in A PROVE n + 1 \in A
    <3>1. PICK f : Upto(f, n)
      BY <2>2
    <3> DEFINE h == [k \in 0 .. n + 1 |-> IF k <= n THEN f[k] ELSE g[n][f[n]]]
    <3>2. f[n] \in S /\ g[n][f[n]] \in S
      BY <3>1
    <3>3. h \in [0 .. n + 1 -> S]
      BY <3>1, <3>2
    <3>4. h[0] = b
      BY <3>1
    <3>5. \A k \in 0 .. n : h[k + 1] = g[k][h[k]]
      <4> TAKE k \in 0 .. n
      <4>1. CASE k = n
        BY <4>1
      <4>2. CASE k # n
        <5>1. k + 1 \in 0 .. n /\ k \in 0 .. n - 1
          BY <4>2
        <5> QED BY <5>1, <3>1
      <4> QED BY <4>1, <4>2
    <3>6. (n + 1) - 1 = n
      OBVIOUS
    <3> HIDE DEF h
    <3>7. Upto(h, n + 1)
      BY <3>3, <3>4, <3>5, <3>6
    <3> QED BY <3>7
  <2>3. Nat \subseteq A
    <3> HIDE DEF A
    <3> QED BY <2>1, <2>2, AllNat
  <2> QED BY <2>3
<1> HIDE DEF Upto
<1> DEFINE F(n) == CHOOSE f : Upto(f, n)
<1>3. \A n \in Nat : Upto(F(n), n)
  BY <1>2
<1> HIDE DEF F
<1> DEFINE f == [k \in Nat |-> F(k)[k]]
<1>4. f \in [Nat -> S]
  <2>1. \A k \in Nat : F(k)[k] \in S
    BY <1>3 DEF Upto
  <2> QED BY <2>1
<1>5. f[0] = b
  BY <1>3 DEF Upto
<1>6. \A k \in Nat : f[k + 1] = g[k][f[k]]
  <2> TAKE k \in Nat
  <2>1. F(k + 1)[k + 1] = g[k][F(k + 1)[k]]
    BY <1>3 DEF Upto
  <2>2. F(k + 1)[k] = F(k)[k]
    <3>1. Upto(F(k + 1), k + 1) /\ Upto(F(k), k) /\ k + 1 \in Nat /\ k <= k + 1 /\ k <= k
      BY <1>3
    <3>2. \A j \in Nat : j <= k + 1 /\ j <= k => F(k + 1)[j] = F(k)[j]
      BY <1>1, <3>1
    <3> QED BY <3>1, <3>2
  <2> QED BY <2>1, <2>2
<1> HIDE DEF f
<1> QED BY <1>4, <1>5, <1>6 DEF Follows

-----------------------------------------------------------------------------
(* Addition *)

\* Bit i of the sum of x and y is reached by a carry.
Carry(x, y, i) ==
    \E j \in Nat : /\ j < i /\ j \in x /\ j \in y
                   /\ \A k \in Nat : j < k /\ k < i => k \in x \/ k \in y
Sum(x, y) == {i \in Nat : (i \in x <=> i \in y) <=> Carry(x, y, i)}   \* an odd number of ones

\* What Plus recurses to: the bits without the carries, and the carries.
Halves(x, y)  == Xor(x, y)
Carries(x, y) == {i + 1 : i \in x \cap y}

(* A carry is started where both words have a one and goes on where one has. *)
LEMMA CarryNext ==
    ASSUME NEW x, NEW y
    PROVE  /\ ~ Carry(x, y, 0)
           /\ \A i \in Nat : Carry(x, y, i + 1) <=>
                 (i \in x /\ i \in y) \/ ((i \in x \/ i \in y) /\ Carry(x, y, i))
<1>1. ~ Carry(x, y, 0)
  BY DEF Carry
<1>2. ASSUME NEW i \in Nat, Carry(x, y, i + 1)
      PROVE  (i \in x /\ i \in y) \/ ((i \in x \/ i \in y) /\ Carry(x, y, i))
  <2>1. PICK j \in Nat : /\ j < i + 1 /\ j \in x /\ j \in y
                         /\ \A k \in Nat : j < k /\ k < i + 1 => k \in x \/ k \in y
    BY <1>2 DEF Carry
  <2>2. CASE j = i
    BY <2>1, <2>2
  <2>3. CASE j # i
    <3>1. j < i /\ i < i + 1
      BY <2>1, <2>3
    <3>2. \A k \in Nat : k < i => k < i + 1
      OBVIOUS
    <3> QED BY <2>1, <3>1, <3>2 DEF Carry
  <2> QED BY <2>2, <2>3
<1>3. ASSUME NEW i \in Nat, i \in x /\ i \in y PROVE Carry(x, y, i + 1)
  <2>1. i < i + 1 /\ \A k \in Nat : ~ (i < k /\ k < i + 1)
    OBVIOUS
  <2> QED BY <1>3, <2>1 DEF Carry
<1>4. ASSUME NEW i \in Nat, i \in x \/ i \in y, Carry(x, y, i) PROVE Carry(x, y, i + 1)
  <2>1. PICK j \in Nat : /\ j < i /\ j \in x /\ j \in y
                         /\ \A k \in Nat : j < k /\ k < i => k \in x \/ k \in y
    BY <1>4 DEF Carry
  <2>2. j < i + 1 /\ \A k \in Nat : k < i + 1 => k < i \/ k = i
    BY <2>1
  <2> QED BY <1>4, <2>1, <2>2 DEF Carry
<1> QED BY <1>1, <1>2, <1>3, <1>4

(* Taking the carries out of a sum leaves the carries that they cause.      *)
LEMMA CarryRest ==
    ASSUME NEW x \in SUBSET Nat, NEW y \in SUBSET Nat, NEW i \in Nat
    PROVE  LET h == Halves(x, y)  c == Carries(x, y)
           IN  /\ Carry(x, y, i) <=> i \in c \/ Carry(h, c, i)
               /\ ~ (i \in c /\ Carry(h, c, i))
<1> DEFINE h == Halves(x, y)
           c == Carries(x, y)
<1>1. \A k \in Nat : k \in h <=> ~ (k \in x <=> k \in y)
  BY DEF Halves, Xor, SymDiff
<1>2. /\ 0 \notin c
      /\ \A k \in Nat : k + 1 \in c <=> k \in x /\ k \in y
  BY DEF Carries
<1> HIDE DEF h, c
<1> DEFINE S == {k \in Nat : /\ Carry(x, y, k) <=> k \in c \/ Carry(h, c, k)
                             /\ ~ (k \in c /\ Carry(h, c, k))}
<1>3. 0 \in S
  BY CarryNext, <1>2
<1>4. ASSUME NEW k \in Nat, k \in S PROVE k + 1 \in S
  <2>1. Carry(x, y, k + 1) <=> (k \in x /\ k \in y) \/ ((k \in x \/ k \in y) /\ Carry(x, y, k))
    BY CarryNext
  <2>2. Carry(h, c, k + 1) <=> (k \in h /\ k \in c) \/ ((k \in h \/ k \in c) /\ Carry(h, c, k))
    BY CarryNext
  <2>3. k \in h <=> ~ (k \in x <=> k \in y)
    BY <1>1
  <2>4. k + 1 \in c <=> k \in x /\ k \in y
    BY <1>2
  <2>5. /\ Carry(x, y, k) <=> k \in c \/ Carry(h, c, k)
        /\ ~ (k \in c /\ Carry(h, c, k))
    BY <1>4
  <2>6. k + 1 \in Nat
    OBVIOUS
  <2>7. /\ Carry(x, y, k + 1) <=> k + 1 \in c \/ Carry(h, c, k + 1)
        /\ ~ (k + 1 \in c /\ Carry(h, c, k + 1))
    <3> HIDE <1>1, <1>2, <1>3, <1>4
    <3> QED BY <2>1, <2>2, <2>3, <2>4, <2>5
  <2> QED BY <2>6, <2>7
<1>5. Nat \subseteq S
  <2> HIDE DEF S
  <2> QED BY <1>3, <1>4, AllNat
<1> QED BY <1>5 DEF h, c

(* One round of Plus leaves the sum as it is.                               *)
LEMMA SumRound ==
    ASSUME NEW x \in SUBSET Nat, NEW y \in SUBSET Nat
    PROVE  /\ Sum(x, y) = Sum(Halves(x, y), Carries(x, y))
           /\ Sum(x, {}) = x
<1>1. \A i \in Nat : i \in Halves(x, y) <=> ~ (i \in x <=> i \in y)
  BY DEF Halves, Xor, SymDiff
<1>2. \A i \in Nat :
        ((i \in x <=> i \in y) <=> Carry(x, y, i)) <=>
        ((i \in Halves(x, y) <=> i \in Carries(x, y))
              <=> Carry(Halves(x, y), Carries(x, y), i))
  <2> TAKE i \in Nat
  <2>1. i \in Halves(x, y) <=> ~ (i \in x <=> i \in y)
    BY <1>1
  <2>2. /\ Carry(x, y, i) <=> i \in Carries(x, y) \/ Carry(Halves(x, y), Carries(x, y), i)
        /\ ~ (i \in Carries(x, y) /\ Carry(Halves(x, y), Carries(x, y), i))
    BY CarryRest
  <2> QED BY <2>1, <2>2
<1>3. \A i \in Nat : ~ Carry(x, {}, i)
  BY DEF Carry
<1> QED BY <1>2, <1>3 DEF Sum

(* Above both words there are no carries but the first.                     *)
LEMMA CarryTop ==
    ASSUME NEW n \in Nat, NEW x \in SUBSET Low(n), NEW y \in SUBSET Low(n)
    PROVE  \A i \in Nat : i > n => ~ Carry(x, y, i)
<1>1. ASSUME NEW i \in Nat, i > n PROVE ~ Carry(x, y, i)
  <2>1. i - 1 \in Nat /\ (i - 1) + 1 = i /\ i - 1 \notin x /\ i - 1 \notin y
    BY <1>1 DEF Low
  <2>2. Carry(x, y, (i - 1) + 1) <=>
          (i - 1 \in x /\ i - 1 \in y) \/ ((i - 1 \in x \/ i - 1 \in y) /\ Carry(x, y, i - 1))
    BY <2>1, CarryNext
  <2> QED BY <2>1, <2>2
<1> QED BY <1>1

(* The function that Plus defines: Sum is one that fits the definition.     *)
LEMMA PlusRound ==
    ASSUME NEW x \in SUBSET Nat, NEW y \in SUBSET Nat
    PROVE  Plus(x, y) = IF y = {} THEN x ELSE Plus(Halves(x, y), Carries(x, y))
<1> DEFINE Pairs == (SUBSET Nat) \X (SUBSET Nat)
           After(p) == <<Xor(p[1], p[2]), {i + 1 : i \in p[1] \cap p[2]}>>
           Meets(f) == f = [p \in Pairs |-> IF p[2] = {} THEN p[1] ELSE f[After(p)]]
           s == [p \in Pairs |-> Sum(p[1], p[2])]
           plus == CHOOSE f : Meets(f)
<1>1. Meets(s)
  <2>1. ASSUME NEW p \in Pairs
        PROVE  Sum(p[1], p[2]) = IF p[2] = {} THEN p[1] ELSE s[After(p)]
    <3>1. p[1] \in SUBSET Nat /\ p[2] \in SUBSET Nat
      OBVIOUS
    <3>2. After(p) = <<Halves(p[1], p[2]), Carries(p[1], p[2])>>
      BY DEF Halves, Carries
    <3>3. Halves(p[1], p[2]) \in SUBSET Nat /\ Carries(p[1], p[2]) \in SUBSET Nat
      BY <3>1 DEF Halves, Carries, Xor, SymDiff
    <3>4. s[After(p)] = Sum(Halves(p[1], p[2]), Carries(p[1], p[2]))
      <4> HIDE DEF After
      <4> QED BY <3>2, <3>3
    <3>5. Sum(p[1], p[2]) = Sum(Halves(p[1], p[2]), Carries(p[1], p[2]))
          /\ (p[2] = {} => Sum(p[1], p[2]) = p[1])
      BY <3>1, SumRound
    <3> HIDE DEF s, After
    <3> QED BY <3>4, <3>5
  <2> HIDE DEF After, Pairs
  <2>2. s = [p \in Pairs |-> IF p[2] = {} THEN p[1] ELSE s[After(p)]]
    <3> DEFINE t == s
    <3>1. \A p \in Pairs : Sum(p[1], p[2]) = IF p[2] = {} THEN p[1] ELSE t[After(p)]
      BY <2>1
    <3> HIDE DEF t
    <3>2. s = [p \in Pairs |-> IF p[2] = {} THEN p[1] ELSE t[After(p)]]
      BY <3>1
    <3> QED BY <3>2 DEF t
  <2> QED BY <2>2
<1>2. Meets(plus)
  <2> HIDE DEF Meets
  <2> QED BY Zenon, <1>1
<1>3. \A a, b : Plus(a, b) = plus[<<a, b>>]
  BY Zenon DEF Plus
<1>4. Halves(x, y) \in SUBSET Nat /\ Carries(x, y) \in SUBSET Nat
  BY DEF Halves, Carries, Xor, SymDiff
<1> HIDE DEF plus
<1>5. plus[<<x, y>>] = IF y = {} THEN x ELSE plus[<<Halves(x, y), Carries(x, y)>>]
  <2>1. <<x, y>> \in Pairs /\ After(<<x, y>>) = <<Halves(x, y), Carries(x, y)>>
        /\ <<x, y>>[1] = x /\ <<x, y>>[2] = y
    BY DEF Halves, Carries
  <2> HIDE DEF After, Pairs
  <2>2. \A p \in Pairs : plus[p] = IF p[2] = {} THEN p[1] ELSE plus[After(p)]
    BY <1>2
  <2> QED BY <2>1, <2>2
<1> QED BY <1>3, <1>4, <1>5

(* Plus computes the sum: the carries it still has to add move up with each *)
(* round, and cannot leave the words that hold the sum.                     *)
LEMMA PlusIsSum ==
    ASSUME NEW n \in Nat, NEW x \in SUBSET Low(n), NEW y \in SUBSET Low(n)
    PROVE  Plus(x, y) = Sum(x, y)
<1> DEFINE m == n + 1
           Settled(k) == \A a, b \in SUBSET Low(m) :
                            ~ Carry(a, b, m) /\ b \cap Low(m - k) = {} => Plus(a, b) = Sum(a, b)
           S == {k \in Nat : k <= m => Settled(k)}
<1>1. m \in Nat /\ Low(m) \subseteq Nat
  BY DEF Low
<1>2. 0 \in S
  <2> SUFFICES ASSUME NEW a \in SUBSET Low(m), NEW b \in SUBSET Low(m), b \cap Low(m - 0) = {}
               PROVE  Plus(a, b) = Sum(a, b)
    OBVIOUS
  <2>1. b = {} /\ a \in SUBSET Nat /\ b \in SUBSET Nat
    BY <1>1
  <2> QED BY <2>1, PlusRound, SumRound
<1>3. ASSUME NEW k \in Nat, k \in S PROVE k + 1 \in S
  <2> SUFFICES ASSUME k + 1 <= m, NEW a \in SUBSET Low(m), NEW b \in SUBSET Low(m),
                      ~ Carry(a, b, m), b \cap Low(m - (k + 1)) = {}
               PROVE  Plus(a, b) = Sum(a, b)
    OBVIOUS
  <2> DEFINE h == Halves(a, b)
             c == Carries(a, b)
  <2>1. a \in SUBSET Nat /\ b \in SUBSET Nat
    BY <1>1
  <2>2. CASE b = {}
    BY <2>1, <2>2, PlusRound, SumRound
  <2>3. CASE b # {}
    <3>1. Carry(a, b, m) <=> m \in c \/ Carry(h, c, m)
      BY <1>1, <2>1, CarryRest
    <3>2. m \notin c /\ ~ Carry(h, c, m)
      BY <3>1
    <3>3. h \in SUBSET Low(m)
      BY DEF Halves, Xor, SymDiff
    <3>4. c \in SUBSET Low(m)
      BY <3>2, <1>1 DEF Carries, Low
    <3>5. c \cap Low(m - k) = {}
      <4> SUFFICES ASSUME NEW i \in a \cap b, i + 1 \in Low(m - k) PROVE FALSE
        BY DEF Carries
      <4> QED BY <1>1 DEF Low
    <3>6. Plus(h, c) = Sum(h, c)
      <4> HIDE DEF h, c
      <4> QED BY <1>3, <3>2, <3>3, <3>4, <3>5
    <3>7. Plus(a, b) = Plus(h, c) /\ Sum(a, b) = Sum(h, c)
      BY <2>1, <2>3, PlusRound, SumRound
    <3> QED BY <3>6, <3>7
  <2> QED BY <2>2, <2>3
<1>4. Nat \subseteq S
  <2> HIDE DEF S
  <2> QED BY <1>2, <1>3, AllNat
<1>5. Settled(m)
  BY <1>1, <1>4
<1>6. x \in SUBSET Low(m) /\ y \in SUBSET Low(m)
  BY DEF Low
<1>7. ~ Carry(x, y, m) /\ y \cap Low(m - m) = {}
  BY CarryTop, <1>1 DEF Low
<1> HIDE DEF m
<1> QED BY <1>5, <1>6, <1>7

-----------------------------------------------------------------------------
(* The number of a word *)

Pow == CHOOSE p \in [Nat -> Nat] : p[0] = 1 /\ \A k \in Nat : p[k + 1] = 2 * p[k]
\* The partial sums of the powers at the ones of x.
Partial(x) ==
    CHOOSE v \in [Nat -> Nat] :
        v[0] = 0 /\ \A k \in Nat : v[k + 1] = v[k] + IF k \in x THEN Pow[k] ELSE 0
Val(x, n) == Partial(x)[n]             \* of the n low bits

\* The powers of two.
LEMMA PowFacts ==
    /\ Pow \in [Nat -> Nat] /\ Pow[0] = 1 /\ \A k \in Nat : Pow[k + 1] = 2 * Pow[k]
    /\ \A k \in Nat : Pow[k] >= 1
<1> DEFINE Meets(p) == p[0] = 1 /\ \A k \in Nat : p[k + 1] = 2 * p[k]
           g == [k \in Nat |-> [v \in Nat |-> 2 * v]]
<1>1. \E p \in [Nat -> Nat] : Meets(p)
  <2>1. g \in [Nat -> [Nat -> Nat]]
    OBVIOUS
  <2> DEFINE b == 1
  <2>2. b \in Nat
    OBVIOUS
  <2>3. \A k, v \in Nat : g[k][v] = 2 * v
    OBVIOUS
  <2> HIDE DEF g, b
  <2>4. PICK f \in [Nat -> Nat] : Follows(f, b, g)
    BY Zenon, <2>1, <2>2, Recursion
  <2>5. Meets(f)
    BY <2>3, <2>4 DEF b, Follows
  <2> QED BY <2>5
<1>2. Pow \in [Nat -> Nat] /\ Meets(Pow)
  <2>1. Pow = CHOOSE p \in [Nat -> Nat] : Meets(p)
    BY DEF Pow
  <2> HIDE DEF Meets
  <2> QED BY <1>1, <2>1
<1>3. \A k \in Nat : Pow[k] >= 1
  <2> DEFINE S == {k \in Nat : Pow[k] >= 1}
  <2>1. 0 \in S /\ \A k \in Nat : k \in S => k + 1 \in S
    BY <1>2
  <2>2. Nat \subseteq S
    <3> HIDE DEF S
    <3> QED BY <2>1, AllNat
  <2> QED BY <2>2
<1> QED BY <1>2, <1>3

\* The number of a word, bit by bit.
LEMMA ValNext ==
    ASSUME NEW x
    PROVE  /\ \A n \in Nat : Val(x, n) \in Nat
           /\ Val(x, 0) = 0
           /\ \A n \in Nat : Val(x, n + 1) = Val(x, n) + IF n \in x THEN Pow[n] ELSE 0
<1> DEFINE d == [k \in Nat |-> IF k \in x THEN Pow[k] ELSE 0]
           Meets(v) == v[0] = 0 /\ \A k \in Nat : v[k + 1] = v[k] + IF k \in x THEN Pow[k] ELSE 0
           g == [k \in Nat |-> [v \in Nat |-> v + d[k]]]
<1>1. \E v \in [Nat -> Nat] : Meets(v)
  <2>1. d \in [Nat -> Nat]
    BY PowFacts
  <2>2. \A k \in Nat : d[k] = IF k \in x THEN Pow[k] ELSE 0
    OBVIOUS
  <2> HIDE DEF d
  <2> DEFINE b == 0
  <2>3. g \in [Nat -> [Nat -> Nat]] /\ b \in Nat
    BY <2>1
  <2>4. \A k, v \in Nat : g[k][v] = v + d[k]
    OBVIOUS
  <2> HIDE DEF g, b
  <2>5. PICK f \in [Nat -> Nat] : Follows(f, b, g)
    BY Zenon, <2>3, Recursion
  <2>6. \A k \in Nat : f[k + 1] = f[k] + d[k]
    BY <2>4, <2>5 DEF Follows
  <2>7. Meets(f)
    BY <2>2, <2>5, <2>6 DEF b, Follows
  <2> QED BY <2>5, <2>7
<1>2. Partial(x) \in [Nat -> Nat] /\ Meets(Partial(x))
  <2>1. Partial(x) = CHOOSE v \in [Nat -> Nat] : Meets(v)
    BY DEF Partial
  <2> HIDE DEF Meets
  <2> QED BY <1>1, <2>1
<1> QED BY <1>2 DEF Val

\* A word of n bits is below the n-th power.
LEMMA ValBelow ==
    ASSUME NEW x, NEW n \in Nat
    PROVE  Val(x, n) \in Nat /\ Val(x, n) < Pow[n] /\ Pow[n] \in Nat
<1> DEFINE S == {k \in Nat : Val(x, k) < Pow[k]}
<1>1. 0 \in S
  BY PowFacts, ValNext
<1>2. ASSUME NEW k \in Nat, k \in S PROVE k + 1 \in S
  <2>1. /\ Val(x, k) \in Nat /\ Pow[k] \in Nat /\ Pow[k + 1] = 2 * Pow[k]
        /\ Val(x, k + 1) = Val(x, k) + IF k \in x THEN Pow[k] ELSE 0
    BY PowFacts, ValNext
  <2> QED BY <1>2, <2>1
<1>3. Nat \subseteq S
  <2> HIDE DEF S
  <2> QED BY <1>1, <1>2, AllNat
<1> QED BY <1>3, ValNext, PowFacts

(* The number is that of the low bits: others do not count.                 *)
LEMMA ValSame ==
    ASSUME NEW x, NEW y, NEW n \in Nat, \A i \in Low(n) : i \in x <=> i \in y
    PROVE  Val(x, n) = Val(y, n)
<1> DEFINE S == {k \in Nat : k <= n => Val(x, k) = Val(y, k)}
<1>1. 0 \in S
  BY ValNext
<1>2. ASSUME NEW k \in Nat, k \in S PROVE k + 1 \in S
  <2> SUFFICES ASSUME k + 1 <= n PROVE Val(x, k + 1) = Val(y, k + 1)
    OBVIOUS
  <2>1. k \in Low(n) /\ Val(x, k) = Val(y, k)
    BY <1>2 DEF Low
  <2>2. /\ Val(x, k + 1) = Val(x, k) + IF k \in x THEN Pow[k] ELSE 0
        /\ Val(y, k + 1) = Val(y, k) + IF k \in y THEN Pow[k] ELSE 0
    BY ValNext
  <2> QED BY <2>1, <2>2
<1>3. Nat \subseteq S
  <2> HIDE DEF S
  <2> QED BY <1>1, <1>2, AllNat
<1> QED BY <1>3

(* Words of the same number have the same bits.                             *)
LEMMA ValInjective ==
    ASSUME NEW x, NEW y, NEW n \in Nat, Val(x, n) = Val(y, n)
    PROVE  \A i \in Low(n) : i \in x <=> i \in y
<1> DEFINE S == {k \in Nat : Val(x, k) = Val(y, k) => \A i \in Low(k) : i \in x <=> i \in y}
<1>1. 0 \in S
  BY DEF Low
<1>2. ASSUME NEW k \in Nat, k \in S PROVE k + 1 \in S
  <2> SUFFICES ASSUME Val(x, k + 1) = Val(y, k + 1), NEW i \in Low(k + 1)
               PROVE  i \in x <=> i \in y
    OBVIOUS
  <2>1. /\ Val(x, k + 1) = Val(x, k) + IF k \in x THEN Pow[k] ELSE 0
        /\ Val(y, k + 1) = Val(y, k) + IF k \in y THEN Pow[k] ELSE 0
    BY ValNext
  <2>2. /\ Val(x, k) \in Nat /\ Val(x, k) < Pow[k]
        /\ Val(y, k) \in Nat /\ Val(y, k) < Pow[k] /\ Pow[k] \in Nat
    BY ValBelow
  <2>3. (k \in x <=> k \in y) /\ Val(x, k) = Val(y, k)
    BY <2>1, <2>2
  <2>4. i \in Low(k) \/ i = k
    BY DEF Low
  <2> QED BY <1>2, <2>3, <2>4
<1>3. Nat \subseteq S
  <2> HIDE DEF S
  <2> QED BY <1>1, <1>2, AllNat
<1> QED BY <1>3

(* The sum is the sum of the numbers, less the carry out of the width.      *)
LEMMA ValSum ==
    ASSUME NEW x, NEW y, NEW n \in Nat
    PROVE  Val(Sum(x, y), n) + (IF Carry(x, y, n) THEN Pow[n] ELSE 0) = Val(x, n) + Val(y, n)
<1> DEFINE s == Sum(x, y)
           S == {k \in Nat : Val(s, k) + (IF Carry(x, y, k) THEN Pow[k] ELSE 0)
                             = Val(x, k) + Val(y, k)}
<1>1. 0 \in S
  BY ValNext, CarryNext
<1>2. ASSUME NEW k \in Nat, k \in S PROVE k + 1 \in S
  <2>1. k \in s <=> ((k \in x <=> k \in y) <=> Carry(x, y, k))
    BY DEF Sum
  <2>2. Carry(x, y, k + 1) <=>
           (k \in x /\ k \in y) \/ ((k \in x \/ k \in y) /\ Carry(x, y, k))
    BY CarryNext
  <2> HIDE DEF s
  <2>3. /\ Val(x, k + 1) = Val(x, k) + IF k \in x THEN Pow[k] ELSE 0
        /\ Val(y, k + 1) = Val(y, k) + IF k \in y THEN Pow[k] ELSE 0
        /\ Val(s, k + 1) = Val(s, k) + IF k \in s THEN Pow[k] ELSE 0
    BY ValNext
  <2>4. /\ Val(x, k) \in Nat /\ Val(y, k) \in Nat /\ Val(s, k) \in Nat
        /\ Pow[k] \in Nat /\ Pow[k + 1] = 2 * Pow[k]
    BY ValNext, PowFacts
  <2>5. Val(s, k) + (IF Carry(x, y, k) THEN Pow[k] ELSE 0) = Val(x, k) + Val(y, k)
    BY <1>2
  <2>6. Val(s, k + 1) + (IF Carry(x, y, k + 1) THEN Pow[k + 1] ELSE 0)
            = Val(x, k + 1) + Val(y, k + 1)
    BY <2>1, <2>2, <2>3, <2>4, <2>5
  <2> QED BY <2>6
<1>3. Nat \subseteq S
  <2> HIDE DEF S
  <2> QED BY <1>1, <1>2, AllNat
<1> QED BY <1>3

-----------------------------------------------------------------------------
(* Add, Neg, Minus and the orders, in numbers *)

Word(n) == SUBSET Low(n)

\* Words with one number are equal.
LEMMA WordEqual ==
    ASSUME NEW n \in Nat, NEW x \in Word(n), NEW y \in Word(n), Val(x, n) = Val(y, n)
    PROVE  x = y
<1>1. \A i \in Low(n) : i \in x <=> i \in y
  BY ValInjective
<1> QED BY <1>1 DEF Word

\* A word is a word of any larger width.
LEMMA WordsGrow ==
    ASSUME NEW n \in Nat, NEW m \in Nat, n <= m, NEW x \in Word(n)
    PROVE  x \in Word(m)
BY DEF Word, Low

\* The empty word is 0,
LEMMA ValEmpty ==
    ASSUME NEW n \in Nat
    PROVE  Val({}, n) = 0
<1> DEFINE S == {k \in Nat : Val({}, k) = 0}
<1>1. 0 \in S
  BY ValNext
<1>2. ASSUME NEW k \in Nat, k \in S PROVE k + 1 \in S
  <2>1. Val({}, k + 1) = Val({}, k) + IF k \in {} THEN Pow[k] ELSE 0
    BY ValNext
  <2> QED BY <1>2, <2>1
<1>3. Nat \subseteq S
  <2> HIDE DEF S
  <2> QED BY <1>1, <1>2, AllNat
<1> QED BY <1>3

\* and the only one that is.
LEMMA ValZero ==
    ASSUME NEW n \in Nat, NEW x \in Word(n)
    PROVE  Val(x, n) = 0 <=> x = {}
<1>1. {} \in Word(n) /\ Val({}, n) = 0
  BY ValEmpty DEF Word
<1> QED BY <1>1, WordEqual

(* Bits above a word add nothing to its number.                             *)
LEMMA ValWide ==
    ASSUME NEW n \in Nat, NEW x \in Word(n), NEW m \in Nat, n <= m
    PROVE  Val(x, m) = Val(x, n)
<1> DEFINE S == {k \in Nat : n <= k => Val(x, k) = Val(x, n)}
<1>1. 0 \in S
  OBVIOUS
<1>2. ASSUME NEW k \in Nat, k \in S PROVE k + 1 \in S
  <2> SUFFICES ASSUME n <= k + 1 PROVE Val(x, k + 1) = Val(x, n)
    OBVIOUS
  <2>1. CASE n = k + 1
    BY <2>1
  <2>2. CASE n # k + 1
    <3>1. n <= k /\ k \notin x
      BY <2>2 DEF Word, Low
    <3>2. Val(x, k + 1) = Val(x, k) + IF k \in x THEN Pow[k] ELSE 0
      BY ValNext
    <3>3. Val(x, k) = Val(x, n) /\ Val(x, k) \in Nat
      BY <1>2, <3>1, ValNext
    <3> QED BY <3>1, <3>2, <3>3
  <2> QED BY <2>1, <2>2
<1>3. Nat \subseteq S
  <2> HIDE DEF S
  <2> QED BY <1>1, <1>2, AllNat
<1> QED BY <1>3

\* Bits above the width do not count.
LEMMA ValCut ==
    ASSUME NEW x, NEW n \in Nat, NEW m \in Nat, n <= m
    PROVE  Val(x \cap Low(m), n) = Val(x, n)
<1>1. \A i \in Low(n) : i \in x \cap Low(m) <=> i \in x
  BY DEF Low
<1> QED BY <1>1, ValSame

\* The word of bit 0 is 1.
LEMMA ValOne ==
    ASSUME NEW n \in Nat \ {0}
    PROVE  {0} \in Word(n) /\ Val({0}, n) = 1
<1>1. {0} \in Word(1) /\ {0} \in Word(n) /\ 1 \in Nat /\ 1 <= n /\ n \in Nat
  BY DEF Word, Low
<1>2. Val({0}, 0 + 1) = Val({0}, 0) + IF 0 \in {0} THEN Pow[0] ELSE 0
  BY ValNext
<1>3. Val({0}, 1) = 1
  BY <1>2, ValNext, PowFacts
<1> QED BY <1>1, <1>3, ValWide

(* Addition, with the carry out of the width.                               *)
LEMMA AddVal ==
    ASSUME NEW n \in Nat, NEW x \in Word(n), NEW y \in Word(n), NEW w \in Nat
    PROVE  /\ Add(x, y, w) \in Word(w)
           /\ Val(Add(x, y, w), w) + (IF Carry(x, y, w) THEN Pow[w] ELSE 0)
                = Val(x, w) + Val(y, w)
<1>1. Plus(x, y) = Sum(x, y)
  BY PlusIsSum DEF Word
<1>2. Val(Add(x, y, w), w) = Val(Sum(x, y), w)
  BY <1>1, ValCut DEF Add
<1> QED BY <1>2, ValSum DEF Add, Word

(* The exact sum: one bit longer than the words.                            *)
LEMMA PlusVal ==
    ASSUME NEW n \in Nat, NEW x \in Word(n), NEW y \in Word(n)
    PROVE  /\ Plus(x, y) \in Word(n + 1)
           /\ Val(Plus(x, y), n + 1) = Val(x, n) + Val(y, n)
           /\ n \in Plus(x, y) <=> Carry(x, y, n)
           /\ Plus(x, y) \cap Low(n) = Add(x, y, n)
<1>1. Plus(x, y) = Sum(x, y)
  BY PlusIsSum DEF Word
<1>2. n \notin x /\ n \notin y /\ \A i \in Nat : i > n => i \notin x /\ i \notin y /\ ~ Carry(x, y, i)
  BY CarryTop DEF Word, Low
<1>3. Sum(x, y) \in Word(n + 1)
  <2> SUFFICES ASSUME NEW i \in Sum(x, y) PROVE i \in Low(n + 1)
    BY DEF Word
  <2>1. i \in Nat /\ ((i \in x <=> i \in y) <=> Carry(x, y, i))
    BY DEF Sum
  <2>2. ~ (i > n)
    BY <1>2, <2>1
  <2> QED BY <2>1, <2>2 DEF Low
<1>4. n \in Sum(x, y) <=> Carry(x, y, n)
  BY <1>2 DEF Sum
<1>5. Val(Sum(x, y), n + 1) + (IF Carry(x, y, n + 1) THEN Pow[n + 1] ELSE 0)
          = Val(x, n + 1) + Val(y, n + 1)
  BY ValSum
<1>6. ~ Carry(x, y, n + 1)
  BY <1>2
<1>7. Val(x, n + 1) = Val(x, n) /\ Val(y, n + 1) = Val(y, n) /\ Val(Sum(x, y), n + 1) \in Nat
  <2>1. n + 1 \in Nat /\ n <= n + 1
    OBVIOUS
  <2> QED BY <2>1, ValWide, ValNext
<1> QED BY <1>1, <1>3, <1>4, <1>5, <1>6, <1>7 DEF Add

\* The complement.
LEMMA NotVal ==
    ASSUME NEW x, NEW n \in Nat
    PROVE  Not(x, n) \in Word(n) /\ Val(Not(x, n), n) = Pow[n] - 1 - Val(x, n)
<1> DEFINE y == Not(x, n)
           S == {k \in Nat : k <= n => Val(y, k) + Val(x, k) = Pow[k] - 1}
<1>1. 0 \in S
  BY ValNext, PowFacts
<1>2. ASSUME NEW k \in Nat, k \in S PROVE k + 1 \in S
  <2> SUFFICES ASSUME k + 1 <= n PROVE Val(y, k + 1) + Val(x, k + 1) = Pow[k + 1] - 1
    OBVIOUS
  <2>1. Val(y, k) + Val(x, k) = Pow[k] - 1 /\ (k \in y <=> k \notin x)
    BY <1>2 DEF Not, Low
  <2> HIDE DEF y
  <2>2. /\ Val(x, k + 1) = Val(x, k) + IF k \in x THEN Pow[k] ELSE 0
        /\ Val(y, k + 1) = Val(y, k) + IF k \in y THEN Pow[k] ELSE 0
        /\ Val(x, k) \in Nat /\ Val(y, k) \in Nat /\ Pow[k] \in Nat /\ Pow[k + 1] = 2 * Pow[k]
    BY ValNext, PowFacts
  <2> QED BY <2>1, <2>2
<1>3. Nat \subseteq S
  <2> HIDE DEF S
  <2> QED BY <1>1, <1>2, AllNat
<1>4. Val(y, n) + Val(x, n) = Pow[n] - 1
  BY <1>3
<1>5. Val(y, n) \in Nat /\ Val(x, n) \in Nat /\ Pow[n] \in Nat
  BY ValBelow
<1>6. Val(y, n) = Pow[n] - 1 - Val(x, n)
  <2> HIDE DEF y, S
  <2> QED BY <1>4, <1>5
<1>7. y \in Word(n)
  BY DEF Not, Word
<1> QED BY <1>6, <1>7

\* Negation, modulo the power.
LEMMA NegVal ==
    ASSUME NEW x, NEW n \in Nat \ {0}
    PROVE  /\ Neg(x, n) \in Word(n)
           /\ Val(Neg(x, n), n) = IF Val(x, n) = 0 THEN 0 ELSE Pow[n] - Val(x, n)
<1>1. Not(x, n) \in Word(n) /\ Val(Not(x, n), n) = Pow[n] - 1 - Val(x, n)
  BY NotVal
<1>2. {0} \in Word(n) /\ Val({0}, n) = 1
  BY ValOne
<1> DEFINE z == Add(Not(x, n), {0}, n)
           c == IF Carry(Not(x, n), {0}, n) THEN Pow[n] ELSE 0
<1>3. z \in Word(n) /\ Val(z, n) + c = Val(Not(x, n), n) + Val({0}, n)
  BY <1>1, <1>2, AddVal
<1>4. Val(z, n) \in Nat /\ Val(z, n) < Pow[n] /\ Val(x, n) \in Nat /\ Val(x, n) < Pow[n]
      /\ Pow[n] \in Nat /\ c \in {0, Pow[n]}
  BY ValBelow
<1>5. Neg(x, n) = z
  BY DEF Neg
<1> HIDE DEF z, c
<1> QED BY <1>1, <1>2, <1>3, <1>4, <1>5

\* Subtraction, modulo the power.
LEMMA MinusVal ==
    ASSUME NEW n \in Nat \ {0}, NEW m \in Nat, NEW x \in Word(m), NEW y
    PROVE  /\ Minus(x, y, n) \in Word(n)
           /\ Val(Minus(x, y, n), n) = IF Val(x, n) < Val(y, n)
                                       THEN Val(x, n) - Val(y, n) + Pow[n]
                                       ELSE Val(x, n) - Val(y, n)
<1>1. /\ Neg(y, n) \in Word(n)
      /\ Val(Neg(y, n), n) = IF Val(y, n) = 0 THEN 0 ELSE Pow[n] - Val(y, n)
  BY NegVal
<1> DEFINE u == IF n < m THEN m ELSE n
           z == Add(x, Neg(y, n), n)
           c == IF Carry(x, Neg(y, n), n) THEN Pow[n] ELSE 0
<1>2. u \in Nat /\ x \in Word(u) /\ Neg(y, n) \in Word(u)
  BY <1>1, WordsGrow
<1>3. z \in Word(n) /\ Val(z, n) + c = Val(x, n) + Val(Neg(y, n), n)
  <2> HIDE DEF u
  <2> QED BY <1>2, AddVal
<1>4. /\ Val(z, n) \in Nat /\ Val(z, n) < Pow[n] /\ Val(x, n) \in Nat /\ Val(x, n) < Pow[n]
      /\ Val(y, n) \in Nat /\ Val(y, n) < Pow[n] /\ Pow[n] \in Nat /\ c \in {0, Pow[n]}
  BY ValBelow
<1>5. Minus(x, y, n) = z
  BY DEF Minus
<1> HIDE DEF z, c
<1> QED BY <1>1, <1>3, <1>4, <1>5

(* A bounded set of naturals has a largest element.                         *)
LEMMA MaxIsLargest ==
    ASSUME NEW n \in Nat, NEW S \in Word(n), S # {}
    PROVE  Max(S) \in S /\ \A k \in S : Max(S) >= k
<1> DEFINE T == {n - k : k \in S}
<1>1. \A k \in S : k \in Nat /\ k <= n /\ n - k \in Nat
  BY DEF Word, Low
<1>2. T \subseteq Nat /\ T # {}
  BY <1>1
<1>3. PICK t \in T : \A u \in T : t <= u
  <2> HIDE DEF T
  <2> QED BY <1>2, LeastOf
<1>4. PICK m \in S : t = n - m
  BY <1>3
<1>5. \A k \in S : m >= k
  <2> SUFFICES ASSUME NEW k \in S PROVE m >= k
    OBVIOUS
  <2>1. n - m <= n - k
    BY <1>3, <1>4
  <2>2. m \in Nat /\ k \in Nat
    BY <1>1
  <2> QED BY <2>1, <2>2
<1> QED BY <1>4, <1>5 DEF Max

(* The order of words is that of their numbers.                             *)
LEMMA ULessVal ==
    ASSUME NEW n \in Nat, NEW x \in Word(n), NEW y \in Word(n)
    PROVE  ULess(x, y) <=> Val(x, n) < Val(y, n)
<1>1. CASE x = y
  BY <1>1, ValBelow DEF ULess
<1>2. CASE x # y
  <2> DEFINE d == Xor(x, y)
             m == Max(d)
  <2>1. d \in Word(n) /\ d # {} /\ \A k : k \in d <=> ~ (k \in x <=> k \in y)
    BY <1>2 DEF Xor, SymDiff, Word
  <2>2. m \in d /\ \A k \in d : m >= k
    <3> HIDE DEF d
    <3> QED BY <2>1, MaxIsLargest
  <2>3. m \in Nat /\ m < n /\ m + 1 \in Nat
    BY <2>1, <2>2 DEF Word, Low
  <2> HIDE DEF m, d
  <2>4. \A k \in Nat : k > m => (k \in x <=> k \in y)
    BY <2>1, <2>2, <2>3
  <2> DEFINE S == {k \in Nat : m < k => Val(x, k) - Val(y, k) = Val(x, m + 1) - Val(y, m + 1)}
  <2>5. 0 \in S
    BY <2>3
  <2>6. ASSUME NEW k \in Nat, k \in S PROVE k + 1 \in S
    <3> SUFFICES ASSUME m < k + 1
                 PROVE  Val(x, k + 1) - Val(y, k + 1) = Val(x, m + 1) - Val(y, m + 1)
      OBVIOUS
    <3>1. CASE k = m
      BY <3>1
    <3>2. CASE k # m
      <4>1. m < k
        BY <2>3, <3>2
      <4>2. k \in x <=> k \in y
        BY <4>1, <2>4
      <4>3. /\ Val(x, k + 1) = Val(x, k) + IF k \in x THEN Pow[k] ELSE 0
            /\ Val(y, k + 1) = Val(y, k) + IF k \in y THEN Pow[k] ELSE 0
            /\ Val(x, k) \in Nat /\ Val(y, k) \in Nat /\ Pow[k] \in Nat
        BY ValNext, PowFacts
      <4>4. Val(x, k) - Val(y, k) = Val(x, m + 1) - Val(y, m + 1)
        BY <2>6, <4>1
      <4> QED BY <4>2, <4>3, <4>4
    <3> QED BY <3>1, <3>2
  <2>7. Nat \subseteq S
    <3> HIDE DEF S
    <3> QED BY <2>5, <2>6, AllNat
  <2>8. Val(x, n) - Val(y, n) = Val(x, m + 1) - Val(y, m + 1)
    BY <2>3, <2>7
  <2>9. /\ Val(x, m + 1) = Val(x, m) + IF m \in x THEN Pow[m] ELSE 0
        /\ Val(y, m + 1) = Val(y, m) + IF m \in y THEN Pow[m] ELSE 0
    BY <2>3, ValNext
  <2>10. /\ Val(x, m) \in Nat /\ Val(y, m) \in Nat /\ Val(x, n) \in Nat /\ Val(y, n) \in Nat
         /\ Val(x, m) < Pow[m] /\ Val(y, m) < Pow[m] /\ Pow[m] \in Nat
    BY <2>3, ValBelow
  <2>11. m \in y <=> ~ (m \in x)
    BY <2>1, <2>2
  <2>12. ULess(x, y) <=> m \in y
    BY <1>2 DEF ULess, m, d
  <2>13. CASE m \in y
    <3>1. Val(x, n) - Val(y, n) = Val(x, m) - (Val(y, m) + Pow[m])
      BY <2>13, <2>8, <2>9, <2>10, <2>11
    <3> QED BY <2>12, <2>13, <3>1, <2>10
  <2>14. CASE m \notin y
    <3>1. Val(x, n) - Val(y, n) = (Val(x, m) + Pow[m]) - Val(y, m)
      BY <2>14, <2>8, <2>9, <2>10, <2>11
    <3> QED BY <2>12, <2>14, <3>1, <2>10
  <2> QED BY <2>13, <2>14
<1> QED BY <1>1, <1>2

(* The signed order: with the top bit turned over.                          *)
LEMMA FlipVal ==
    ASSUME NEW n \in Nat \ {0}, NEW x \in Word(n)
    PROVE  /\ Xor(x, {n - 1}) \in Word(n)
           /\ Val(x, n) = Val(x, n - 1) + IF n - 1 \in x THEN Pow[n - 1] ELSE 0
           /\ Val(Xor(x, {n - 1}), n) = Val(x, n - 1) + IF n - 1 \in x THEN 0 ELSE Pow[n - 1]
<1> DEFINE f == Xor(x, {n - 1})
           m == n - 1
<1>1. m \in Nat /\ m + 1 = n
  OBVIOUS
<1>2. f \in Word(n)
  BY DEF Xor, SymDiff, Word, Low
<1>3. /\ m \in f <=> m \notin x
      /\ \A i \in Low(m) : i \in x <=> i \in f
  BY DEF Xor, SymDiff, Low
<1> HIDE DEF f, m
<1>4. Val(x, m) = Val(f, m)
  BY <1>1, <1>3, ValSame
<1>5. /\ Val(x, m + 1) = Val(x, m) + IF m \in x THEN Pow[m] ELSE 0
      /\ Val(f, m + 1) = Val(f, m) + IF m \in f THEN Pow[m] ELSE 0
  BY <1>1, ValNext
<1>6. /\ Val(x, n) = Val(x, m) + IF m \in x THEN Pow[m] ELSE 0
      /\ Val(f, n) = Val(x, m) + IF m \in x THEN 0 ELSE Pow[m]
  BY <1>1, <1>3, <1>4, <1>5
<1> QED BY <1>2, <1>6 DEF f, m

\* The signed order: the signs decide, or the numbers do.
LEMMA SLessVal ==
    ASSUME NEW n \in Nat \ {0}, NEW x \in Word(n), NEW y \in Word(n)
    PROVE  SLess(x, y, n) <=>
              IF n - 1 \in x <=> n - 1 \in y THEN Val(x, n) < Val(y, n) ELSE n - 1 \in x
<1> DEFINE m == n - 1
           f == Xor(x, {m})
           g == Xor(y, {m})
<1>1. m \in Nat
  OBVIOUS
<1>2. /\ f \in Word(n) /\ g \in Word(n)
      /\ Val(x, n) = Val(x, m) + IF m \in x THEN Pow[m] ELSE 0
      /\ Val(f, n) = Val(x, m) + IF m \in x THEN 0 ELSE Pow[m]
      /\ Val(y, n) = Val(y, m) + IF m \in y THEN Pow[m] ELSE 0
      /\ Val(g, n) = Val(y, m) + IF m \in y THEN 0 ELSE Pow[m]
  BY FlipVal
<1>3. SLess(x, y, n) <=> ULess(f, g)
  BY DEF SLess
<1> HIDE DEF f, g, m
<1>4. ULess(f, g) <=> Val(f, n) < Val(g, n)
  BY <1>2, ULessVal
<1>5. /\ Val(x, m) \in Nat /\ Val(x, m) < Pow[m] /\ Val(y, m) \in Nat /\ Val(y, m) < Pow[m]
      /\ Pow[m] \in Nat
  BY <1>1, ValBelow
<1>6. SLess(x, y, n) <=> IF m \in x <=> m \in y THEN Val(x, n) < Val(y, n) ELSE m \in x
  BY <1>2, <1>3, <1>4, <1>5
<1> QED BY <1>6 DEF m

-----------------------------------------------------------------------------
(* The laws of addition *)

\* The number of a carry in.
Unit(c) == IF c = {} THEN 0 ELSE 1

(* Two words and a carry, added exactly and added in the width: the carry   *)
(* out shows where a sum is below what it was added to.                     *)
LEMMA PlusThree ==
    ASSUME NEW n \in Nat \ {0}, NEW x \in Word(n), NEW y \in Word(n), NEW c \in {{}, {0}}
    PROVE  LET t2 == Add(x, y, n)  t3 == Add(t2, c, n)  all == Plus(Plus(x, y), c)
           IN  /\ t3 \in Word(n) /\ all \in Word(n + 1) /\ all \cap Low(n) = t3
               /\ Val(t3, n) + (IF n \in all THEN Pow[n] ELSE 0) = Val(x, n) + Val(y, n) + Unit(c)
               /\ n \in all <=> ULess(t2, x) \/ ULess(t3, t2)
<1> DEFINE t2 == Add(x, y, n)
           t3 == Add(t2, c, n)
           p == Plus(x, y)
           all == Plus(p, c)
<1>1. c \in Word(n) /\ Val(c, n) = Unit(c) /\ Unit(c) \in {0, 1}
  BY ValOne, ValEmpty DEF Word, Unit
<1>2. /\ t2 \in Word(n)
      /\ Val(t2, n) + (IF Carry(x, y, n) THEN Pow[n] ELSE 0) = Val(x, n) + Val(y, n)
  BY AddVal
<1>3. /\ p \in Word(n + 1) /\ Val(p, n + 1) = Val(x, n) + Val(y, n)
      /\ p \cap Low(n) = t2
  BY PlusVal
<1> HIDE DEF t2, p
<1>4. /\ t3 \in Word(n)
      /\ Val(t3, n) + (IF Carry(t2, c, n) THEN Pow[n] ELSE 0) = Val(t2, n) + Val(c, n)
  BY <1>1, <1>2, AddVal
<1>5. n + 1 \in Nat /\ n <= n + 1 /\ n \in Nat
  OBVIOUS
<1>6. c \in Word(n + 1) /\ Val(c, n + 1) = Val(c, n)
  BY <1>1, <1>5, WordsGrow, ValWide
<1>7. /\ all \in Word((n + 1) + 1)
      /\ Val(all, (n + 1) + 1) = Val(p, n + 1) + Val(c, n + 1)
  BY <1>3, <1>5, <1>6, PlusVal
<1> HIDE DEF t3, all
<1> DEFINE A == Val(all, n)
           P == Pow[n]
           m == n + 1
<1>8. /\ Val(all, n + 1) = A + IF n \in all THEN P ELSE 0
      /\ Val(all, m + 1) = Val(all, m) + IF m \in all THEN Pow[m] ELSE 0
      /\ Pow[m] = 2 * P
  BY <1>5, ValNext, PowFacts
<1>9. /\ A \in Nat /\ A < P /\ P \in Nat /\ Val(x, n) \in Nat /\ Val(x, n) < P
      /\ Val(y, n) \in Nat /\ Val(y, n) < P /\ Val(t2, n) \in Nat /\ Val(t2, n) < P
      /\ Val(t3, n) \in Nat /\ Val(t3, n) < P /\ Val(all, m) \in Nat
  BY <1>5, ValBelow
<1>10. A + (IF n \in all THEN P ELSE 0) + (IF m \in all THEN 2 * P ELSE 0)
           = Val(x, n) + Val(y, n) + Unit(c)
  BY <1>1, <1>3, <1>6, <1>7, <1>8, <1>9
<1> HIDE DEF A, P, m
<1>11. m \notin all
  BY <1>1, <1>9, <1>10
<1>12. A = Val(t3, n)
  BY <1>1, <1>2, <1>4, <1>9, <1>10, <1>11 DEF P
<1>13. all \in Word(n + 1)
  BY <1>7, <1>11 DEF Word, Low, m
<1>14. all \cap Low(n) = t3
  <2>1. all \cap Low(n) \in Word(n) /\ Val(all \cap Low(n), n) = A
    BY <1>5, ValCut DEF Word, A
  <2> QED BY <2>1, <1>4, <1>5, <1>12, WordEqual
<1>15. Val(t3, n) + (IF n \in all THEN Pow[n] ELSE 0) = Val(x, n) + Val(y, n) + Unit(c)
  BY <1>9, <1>10, <1>11, <1>12 DEF P
<1>16. (ULess(t2, x) <=> Val(t2, n) < Val(x, n)) /\ (ULess(t3, t2) <=> Val(t3, n) < Val(t2, n))
  BY <1>2, <1>4, <1>5, ULessVal
<1>17. n \in all <=> Val(t2, n) < Val(x, n) \/ Val(t3, n) < Val(t2, n)
  <2>1. Val(t2, n) + (IF Carry(x, y, n) THEN P ELSE 0) = Val(x, n) + Val(y, n)
    BY <1>2 DEF P
  <2>2. Val(t3, n) + (IF Carry(t2, c, n) THEN P ELSE 0) = Val(t2, n) + Unit(c)
    BY <1>1, <1>4 DEF P
  <2>3. Val(t3, n) + (IF n \in all THEN P ELSE 0) = Val(x, n) + Val(y, n) + Unit(c)
    BY <1>15 DEF P
  <2>4. Unit(c) \in {0, 1}
    BY <1>1
  <2>5. Val(t2, n) < Val(x, n) <=> Carry(x, y, n)
    BY <2>1, <1>9
  <2>6. Val(t3, n) < Val(t2, n) <=> Carry(t2, c, n)
    <3>1. n - 1 \in Nat /\ (n - 1) + 1 = n
      OBVIOUS
    <3>2. P >= 2
      <4>1. Pow[(n - 1) + 1] = 2 * Pow[n - 1] /\ Pow[n - 1] >= 1 /\ Pow[n - 1] \in Nat
        BY <3>1, PowFacts
      <4> QED BY <3>1, <4>1 DEF P
    <3> QED BY <2>2, <2>4, <1>9, <3>2
  <2> HIDE DEF Carry
  <2>7. CASE Carry(x, y, n)
    BY <2>1, <2>2, <2>3, <2>4, <2>5, <2>7, <1>9
  <2>8. CASE ~ Carry(x, y, n)
    BY <2>1, <2>2, <2>3, <2>4, <2>5, <2>6, <2>8, <1>9
  <2> QED BY <2>7, <2>8
<1> QED BY <1>4, <1>13, <1>14, <1>15, <1>16, <1>17 DEF t2, t3, p, all

(* Sums within a width, in numbers: at most one turn is lost.               *)
LEMMA AddTurn ==
    ASSUME NEW n \in Nat \ {0}, NEW x \in Word(n), NEW y \in Word(n)
    PROVE  /\ Add(x, y, n) \in Word(n)
           /\ Val(Add(x, y, n), n) \in {Val(x, n) + Val(y, n), Val(x, n) + Val(y, n) - Pow[n]}
           /\ Val(Add(x, y, n), n) \in Nat /\ Val(Add(x, y, n), n) < Pow[n]
<1>1. n \in Nat
  OBVIOUS
<1>2. /\ Add(x, y, n) \in Word(n)
      /\ Val(Add(x, y, n), n) + (IF Carry(x, y, n) THEN Pow[n] ELSE 0) = Val(x, n) + Val(y, n)
  BY <1>1, AddVal
<1>3. /\ Val(Add(x, y, n), n) \in Nat /\ Val(Add(x, y, n), n) < Pow[n]
      /\ Val(x, n) \in Nat /\ Val(y, n) \in Nat /\ Pow[n] \in Nat
  BY <1>1, ValBelow
<1> QED BY <1>2, <1>3

\* Adding nothing changes nothing.
LEMMA AddZero ==
    ASSUME NEW n \in Nat \ {0}, NEW x \in Word(n)
    PROVE  Add(x, {}, n) = x
<1>1. {} \in Word(n) /\ Val({}, n) = 0
  BY ValEmpty DEF Word
<1>2. /\ Val(x, n) \in Nat /\ Val(x, n) < Pow[n] /\ Pow[n] \in Nat
  BY ValBelow
<1>3. /\ Add(x, {}, n) \in Word(n)
      /\ Val(Add(x, {}, n), n) \in {Val(x, n) + Val({}, n), Val(x, n) + Val({}, n) - Pow[n]}
      /\ Val(Add(x, {}, n), n) \in Nat
  BY <1>1, AddTurn
<1>4. Val(Add(x, {}, n), n) = Val(x, n)
  BY <1>1, <1>2, <1>3
<1> QED BY <1>3, <1>4, WordEqual

\* Addition is associative
LEMMA AddAssoc ==
    ASSUME NEW n \in Nat \ {0}, NEW x \in Word(n), NEW y \in Word(n), NEW z \in Word(n)
    PROVE  Add(Add(x, y, n), z, n) = Add(x, Add(y, z, n), n)
<1> DEFINE s == Add(x, y, n)
           t == Add(y, z, n)
           u == Add(s, z, n)
           v == Add(x, t, n)
<1>1. /\ s \in Word(n) /\ t \in Word(n)
      /\ Val(s, n) \in {Val(x, n) + Val(y, n), Val(x, n) + Val(y, n) - Pow[n]}
      /\ Val(t, n) \in {Val(y, n) + Val(z, n), Val(y, n) + Val(z, n) - Pow[n]}
  BY AddTurn
<1> HIDE DEF s, t
<1>2. /\ u \in Word(n) /\ v \in Word(n)
      /\ Val(u, n) \in {Val(s, n) + Val(z, n), Val(s, n) + Val(z, n) - Pow[n]}
      /\ Val(v, n) \in {Val(x, n) + Val(t, n), Val(x, n) + Val(t, n) - Pow[n]}
      /\ Val(u, n) \in Nat /\ Val(u, n) < Pow[n] /\ Val(v, n) \in Nat /\ Val(v, n) < Pow[n]
  BY <1>1, AddTurn
<1>3. Val(x, n) \in Nat /\ Val(y, n) \in Nat /\ Val(z, n) \in Nat /\ Pow[n] \in Nat
  BY ValBelow
<1> HIDE DEF u, v
<1>4. Val(u, n) = Val(v, n)
  BY <1>1, <1>2, <1>3
<1>5. u = v
  BY <1>2, <1>4, WordEqual
<1> QED BY <1>5 DEF u, v, s, t

\* and commutative.
LEMMA AddCommutes ==
    ASSUME NEW n \in Nat \ {0}, NEW x \in Word(n), NEW y \in Word(n)
    PROVE  Add(x, y, n) = Add(y, x, n)
<1>1. /\ Add(x, y, n) \in Word(n) /\ Add(y, x, n) \in Word(n)
      /\ Val(Add(x, y, n), n) \in {Val(x, n) + Val(y, n), Val(x, n) + Val(y, n) - Pow[n]}
      /\ Val(Add(y, x, n), n) \in {Val(y, n) + Val(x, n), Val(y, n) + Val(x, n) - Pow[n]}
      /\ Val(Add(x, y, n), n) \in Nat /\ Val(Add(x, y, n), n) < Pow[n]
      /\ Val(Add(y, x, n), n) \in Nat /\ Val(Add(y, x, n), n) < Pow[n]
  BY AddTurn
<1>2. Val(x, n) \in Nat /\ Val(y, n) \in Nat /\ Pow[n] \in Nat
  BY ValBelow
<1>3. Val(Add(x, y, n), n) = Val(Add(y, x, n), n)
  BY <1>1, <1>2
<1> QED BY <1>1, <1>3, WordEqual

\* Subtraction undoes addition.
LEMMA MinusUndoes ==
    ASSUME NEW n \in Nat \ {0}, NEW x \in Word(n), NEW e \in Word(n)
    PROVE  Minus(Add(e, x, n), e, n) = x
<1> DEFINE s == Add(e, x, n)
           d == Minus(s, e, n)
<1>1. /\ s \in Word(n)
      /\ Val(s, n) \in {Val(e, n) + Val(x, n), Val(e, n) + Val(x, n) - Pow[n]}
      /\ Val(s, n) \in Nat /\ Val(s, n) < Pow[n]
  BY AddTurn
<1> HIDE DEF s
<1>2. /\ d \in Word(n)
      /\ Val(d, n) = IF Val(s, n) < Val(e, n) THEN Val(s, n) - Val(e, n) + Pow[n]
                                              ELSE Val(s, n) - Val(e, n)
  BY <1>1, MinusVal
<1>3. Val(x, n) \in Nat /\ Val(x, n) < Pow[n] /\ Val(e, n) \in Nat /\ Val(e, n) < Pow[n]
      /\ Pow[n] \in Nat
  BY ValBelow
<1> HIDE DEF d
<1>4. Val(d, n) = Val(x, n)
  BY <1>1, <1>2, <1>3
<1>5. d = x
  BY <1>2, <1>4, WordEqual
<1> QED BY <1>5 DEF d, s

(* What the emitted code adds to its entry to name an address: the address  *)
(* a displacement away from the place k after the entry e of compile time.  *)
LEMMA RelativeAddress ==
    ASSUME NEW n \in Nat \ {0}, NEW e \in Word(n), NEW p \in Word(n), NEW k \in Word(n),
           NEW o \in Word(n)
    PROVE  Add(p, Minus(Add(Add(e, k, n), o, n), e, n), n) = Add(Add(p, k, n), o, n)
<1>1. Add(e, k, n) \in Word(n) /\ Add(k, o, n) \in Word(n)
  BY AddTurn
<1>2. Add(Add(e, k, n), o, n) = Add(e, Add(k, o, n), n)
  BY AddAssoc
<1>3. Minus(Add(e, Add(k, o, n), n), e, n) = Add(k, o, n)
  BY <1>1, MinusUndoes
<1>4. Add(Add(p, k, n), o, n) = Add(p, Add(k, o, n), n)
  BY AddAssoc
<1> QED BY <1>2, <1>3, <1>4

(* Only the low bits of the operands matter to the low bits of a sum.       *)
LEMMA AddCut ==
    ASSUME NEW n \in Nat, NEW x \in Word(n), NEW y \in Word(n), NEW w \in Nat
    PROVE  Add(x, y, w) = Add(x \cap Low(w), y \cap Low(w), w)
<1> DEFINE a == x \cap Low(w)
           b == y \cap Low(w)
<1>1. a \in Word(w) /\ b \in Word(w)
  BY DEF Word
<1>2. Val(a, w) = Val(x, w) /\ Val(b, w) = Val(y, w)
  BY ValCut
<1> HIDE DEF a, b
<1> DEFINE s == Add(x, y, w)
           t == Add(a, b, w)
           p == IF Carry(x, y, w) THEN Pow[w] ELSE 0
           q == IF Carry(a, b, w) THEN Pow[w] ELSE 0
<1>3. s \in Word(w) /\ Val(s, w) + p = Val(x, w) + Val(y, w)
  BY AddVal
<1>4. t \in Word(w) /\ Val(t, w) + q = Val(a, w) + Val(b, w)
  BY <1>1, AddVal
<1>5. /\ Val(s, w) \in Nat /\ Val(s, w) < Pow[w] /\ Val(t, w) \in Nat /\ Val(t, w) < Pow[w]
      /\ Pow[w] \in Nat /\ p \in {0, Pow[w]} /\ q \in {0, Pow[w]}
      /\ Val(x, w) \in Nat /\ Val(y, w) \in Nat
  BY ValBelow
<1> HIDE DEF s, t, p, q
<1>6. Val(s, w) = Val(t, w)
  BY <1>2, <1>3, <1>4, <1>5
<1>7. s = t
  BY <1>3, <1>4, <1>6, WordEqual
<1> QED BY <1>7 DEF s, t, a, b

-----------------------------------------------------------------------------
(* Shifts, by the place of a bit *)

\* Which bits a left shift leaves.
LEMMA InShl ==
    ASSUME NEW a, a \subseteq Int, NEW n \in Int, NEW w \in Nat
    PROVE  /\ Shl(a, n, w) \in Word(w)
           /\ \A i \in Int : i \in Shl(a, n, w) <=> i \in Low(w) /\ i - n \in a
<1>1. \A i \in Int : i \in {j + n : j \in a} <=> i - n \in a
  <2> TAKE i \in Int
  <2>1. i - n \in a => i \in {j + n : j \in a}
    <3> SUFFICES ASSUME i - n \in a PROVE \E j \in a : i = j + n
      OBVIOUS
    <3>1. i = (i - n) + n
      OBVIOUS
    <3> QED BY <3>1
  <2>2. ASSUME NEW j \in a, i = j + n PROVE i - n \in a
    <3>1. j \in Int
      OBVIOUS
    <3>2. i - n = j
      BY <2>2, <3>1
    <3> QED BY <3>2
  <2> QED BY <2>1, <2>2
<1> QED BY <1>1 DEF Shl, Word

\* Which bits a right shift leaves.
LEMMA InShr ==
    ASSUME NEW a, a \subseteq Int, NEW n \in Int
    PROVE  /\ Shr(a, n) \subseteq Nat
           /\ \A i \in Int : i \in Shr(a, n) <=> i >= 0 /\ i + n \in a
<1>1. ASSUME NEW i \in Int, i >= 0, i + n \in a PROVE i \in Shr(a, n)
  <2>1. i = (i + n) - n /\ i + n >= n
    BY <1>1
  <2> QED BY <1>1, <2>1 DEF Shr
<1>2. ASSUME NEW i \in Shr(a, n) PROVE i \in Nat /\ i + n \in a
  <2>1. PICK j \in a : j >= n /\ i = j - n
    BY DEF Shr
  <2>2. j \in Int
    OBVIOUS
  <2>3. i + n = j /\ i \in Nat
    BY <2>1, <2>2
  <2> QED BY <2>1, <2>3
<1> QED BY <1>1, <1>2

\* The place a bit of a rotated word comes from.
RorFrom(i, n, w) == IF i + n < w THEN i + n ELSE i + n - w

(* Division by a positive number: quotient, remainder and what they make.   *)
LEMMA DivModOf ==
    ASSUME NEW n \in Int, NEW m \in Nat \ {0}
    PROVE  n \div m \in Int /\ n % m \in 0 .. m - 1 /\ n = (n \div m) * m + (n % m)
OBVIOUS

\* Which bits a rotation leaves.
LEMMA InRor ==
    ASSUME NEW w \in Nat \ {0}, NEW a \in Word(w), NEW n \in 0 .. w - 1
    PROVE  /\ Ror(a, n, w) \in Word(w)
           /\ \A i \in Low(w) : i \in Ror(a, n, w) <=> RorFrom(i, n, w) \in a
<1>1. \A j \in Low(w) : (j - n) % w = IF j >= n THEN j - n ELSE j - n + w
  <2> TAKE j \in Low(w)
  <2> DEFINE q == IF j >= n THEN 0 ELSE -1
             r == IF j >= n THEN j - n ELSE j - n + w
             t == (j - n) % w
             d == (j - n) \div w
  <2>1. j \in 0 .. w - 1
    BY DEF Low
  <2>2. r \in 0 .. w - 1 /\ j - n = q * w + r /\ q \in Int
    BY <2>1
  <2>3. t \in 0 .. w - 1 /\ j - n = d * w + t /\ d \in Int
    <3>1. j - n \in Int
      BY <2>1
    <3> DEFINE e == j - n
    <3>2. e \in Int
      BY <3>1
    <3> HIDE DEF e
    <3>3. e \div w \in Int /\ e % w \in 0 .. w - 1 /\ e = (e \div w) * w + (e % w)
      BY <3>2, DivModOf
    <3> QED BY <3>3 DEF e, t, d
  <2> HIDE DEF q, r, t, d
  <2>4. (q - d) * w = t - r /\ q - d \in Int
    BY <2>2, <2>3
  <2>5. q - d >= 1 => (q - d) * w >= w
    BY <2>4
  <2>6. q - d <= -1 => (q - d) * w <= -w
    BY <2>4
  <2>7. q - d = 0
    BY <2>2, <2>3, <2>4, <2>5, <2>6
  <2>8. t = r
    BY <2>2, <2>3, <2>4, <2>7
  <2> QED BY <2>8 DEF t, r
<1>2. Ror(a, n, w) \in Word(w)
  <2> SUFFICES ASSUME NEW j \in a PROVE (j - n) % w \in Low(w)
    BY DEF Ror, Word
  <2>1. j \in Low(w)
    BY DEF Word
  <2> QED BY <1>1, <2>1 DEF Low
<1>3. ASSUME NEW i \in Low(w), i \in Ror(a, n, w) PROVE RorFrom(i, n, w) \in a
  <2>1. PICK j \in a : i = (j - n) % w
    BY <1>3 DEF Ror
  <2>2. j \in Low(w)
    BY DEF Word
  <2>3. i = IF j >= n THEN j - n ELSE j - n + w
    BY <1>1, <2>1, <2>2
  <2>4. RorFrom(i, n, w) = j
    BY <2>2, <2>3 DEF RorFrom, Low
  <2> QED BY <2>4
<1>4. ASSUME NEW i \in Low(w), RorFrom(i, n, w) \in a PROVE i \in Ror(a, n, w)
  <2> DEFINE j == RorFrom(i, n, w)
  <2>1. j \in Low(w) /\ (IF j >= n THEN j - n ELSE j - n + w) = i
    BY DEF RorFrom, Low
  <2>2. (j - n) % w = i
    BY <1>1, <2>1
  <2> QED BY <1>4, <2>2 DEF Ror
<1> QED BY <1>2, <1>3, <1>4

(* The sign of a word, copied into the places a shift leaves.               *)
LEMMA InSar ==
    ASSUME NEW w \in Nat \ {0}, NEW a \in Word(w), NEW n \in Nat
    PROVE  \A i \in Int : i \in Sar(a, n, w) <=>
              \/ i >= 0 /\ i + n \in a
              \/ w - 1 \in a /\ w - n <= i /\ i <= w - 1
<1>1. a \subseteq Int /\ n \in Int
  BY DEF Word, Low
<1>2. \A i \in Int : i \in Shr(a, n) <=> i >= 0 /\ i + n \in a
  BY <1>1, InShr
<1>3. \A i \in Int : i \in (w - n) .. (w - 1) <=> w - n <= i /\ i <= w - 1
  OBVIOUS
<1> QED BY <1>2, <1>3 DEF Sar

-----------------------------------------------------------------------------
(* The powers that fit an integer of TLC.                                   *)
LEMMA Powers == \A i \in 0 .. 30 : 2 ^ i = Pow[i]
<1>1. /\ Pow[0] = 1 /\ Pow[1] = 2 /\ Pow[2] = 4 /\ Pow[3] = 8 /\ Pow[4] = 16 /\ Pow[5] = 32
      /\ Pow[6] = 64 /\ Pow[7] = 128 /\ Pow[8] = 256 /\ Pow[9] = 512 /\ Pow[10] = 1024
  <2>1. \A k \in Nat : Pow[k + 1] = 2 * Pow[k]
    BY PowFacts
  <2>2. Pow[0] = 1
    BY PowFacts
  <2> QED BY <2>1, <2>2, SMT
<1>2. /\ Pow[11] = 2048 /\ Pow[12] = 4096 /\ Pow[13] = 8192 /\ Pow[14] = 16384
      /\ Pow[15] = 32768 /\ Pow[16] = 65536 /\ Pow[17] = 131072 /\ Pow[18] = 262144
      /\ Pow[19] = 524288 /\ Pow[20] = 1048576
  <2>1. \A k \in Nat : Pow[k + 1] = 2 * Pow[k]
    BY PowFacts
  <2> QED BY <1>1, <2>1, SMT
<1>3. /\ Pow[21] = 2097152 /\ Pow[22] = 4194304 /\ Pow[23] = 8388608 /\ Pow[24] = 16777216
      /\ Pow[25] = 33554432 /\ Pow[26] = 67108864 /\ Pow[27] = 134217728
      /\ Pow[28] = 268435456 /\ Pow[29] = 536870912 /\ Pow[30] = 1073741824
      /\ Pow[31] = 2147483648
  <2>1. \A k \in Nat : Pow[k + 1] = 2 * Pow[k]
    BY PowFacts
  <2> QED BY <1>2, <2>1, SMT
<1> DEFINE e(k) == 2 ^ k
<1>4. /\ e(0) = 1 /\ e(1) = 2 /\ e(2) = 4 /\ e(3) = 8 /\ e(4) = 16 /\ e(5) = 32
      /\ e(6) = 64 /\ e(7) = 128 /\ e(8) = 256 /\ e(9) = 512 /\ e(10) = 1024
      /\ e(11) = 2048 /\ e(12) = 4096 /\ e(13) = 8192 /\ e(14) = 16384
      /\ e(15) = 32768 /\ e(16) = 65536 /\ e(17) = 131072 /\ e(18) = 262144
      /\ e(19) = 524288 /\ e(20) = 1048576
      /\ e(21) = 2097152 /\ e(22) = 4194304 /\ e(23) = 8388608 /\ e(24) = 16777216
      /\ e(25) = 33554432 /\ e(26) = 67108864 /\ e(27) = 134217728
      /\ e(28) = 268435456 /\ e(29) = 536870912 /\ e(30) = 1073741824
  BY SMT
<1> SUFFICES ASSUME NEW i \in 0 .. 30 PROVE e(i) = Pow[i]
  OBVIOUS
<1> HIDE DEF e
<1>5. CASE i \in 0 .. 10
  <2>1. \/ i = 0 \/ i = 1 \/ i = 2 \/ i = 3 \/ i = 4 \/ i = 5 \/ i = 6 \/ i = 7 \/ i = 8
        \/ i = 9 \/ i = 10
    BY <1>5
  <2> QED BY <1>1, <1>4, <2>1, SMT
<1>6. CASE i \in 11 .. 20
  <2>1. \/ i = 11 \/ i = 12 \/ i = 13 \/ i = 14 \/ i = 15 \/ i = 16 \/ i = 17 \/ i = 18
        \/ i = 19 \/ i = 20
    BY <1>6
  <2> QED BY <1>2, <1>4, <2>1, SMT
<1>7. CASE i \in 21 .. 30
  <2>1. \/ i = 21 \/ i = 22 \/ i = 23 \/ i = 24 \/ i = 25 \/ i = 26 \/ i = 27
        \/ i = 28 \/ i = 29 \/ i = 30
    BY <1>7
  <2> QED BY <1>3, <1>4, <2>1, SMT
<1> QED BY <1>5, <1>6, <1>7

(* The quotient and the remainder are the only ones.                        *)
LEMMA DivModIs ==
    ASSUME NEW m \in Nat \ {0}, NEW q \in Int, NEW r \in 0 .. m - 1
    PROVE  /\ (q * m + r) \div m = q
           /\ (q * m + r) % m = r
<1> DEFINE n == q * m + r
           d == n \div m
           t == n % m
<1>1. n \in Int
  OBVIOUS
<1>2. d \in Int /\ t \in 0 .. m - 1 /\ n = d * m + t
  <2> HIDE DEF n
  <2> QED BY <1>1, DivModOf DEF d, t
<1>3. q * m + r = d * m + t
  BY <1>2
<1> SUFFICES d = q /\ t = r
  OBVIOUS
<1> HIDE DEF n, d, t
<1>4. (q - d) * m = t - r /\ q - d \in Int
  BY <1>2, <1>3
<1>5. q - d >= 1 => (q - d) * m >= m
  BY <1>4
<1>6. q - d <= -1 => (q - d) * m <= -m
  BY <1>4
<1>7. q - d = 0
  BY <1>2, <1>4, <1>5, <1>6
<1> QED BY <1>2, <1>4, <1>7

(* Bits writes a number in binary.                                          *)
LEMMA BitsVal ==
    ASSUME NEW n \in Nat, n < Pow[31]
    PROVE  Bits(n) \in Word(31) /\ Val(Bits(n), 31) = n
<1> DEFINE B == Bits(n)
           Holds(k) == n = (n \div Pow[k]) * Pow[k] + Val(B, k)
           S == {k \in Nat : k <= 31 => Holds(k)}
<1>1. B \in Word(31)
  BY DEF Bits, Word, Low
<1>2. \A i \in 0 .. 30 : i \in B <=> (n \div Pow[i]) % 2 = 1
  <2> TAKE i \in 0 .. 30
  <2>1. 2 ^ i = Pow[i]
    BY Powers
  <2> QED BY <2>1, Zenon DEF Bits
<1> HIDE DEF B
<1>3. 0 \in S
  <2>1. Pow[0] = 1 /\ Val(B, 0) = 0
    BY PowFacts, ValNext
  <2>2. n \div 1 = n
    OBVIOUS
  <2> QED BY <2>1, <2>2
<1>4. ASSUME NEW k \in Nat, k \in S PROVE k + 1 \in S
  <2> SUFFICES ASSUME k + 1 <= 31 PROVE Holds(k + 1)
    OBVIOUS
  <2> DEFINE P == Pow[k]
             v == Val(B, k)
             q == n \div P
             b == q % 2
             h == q \div 2
  <2>1. P \in Nat \ {0} /\ Pow[k + 1] = 2 * P
    BY PowFacts
  <2>2. v \in Nat /\ v < P
    BY ValBelow
  <2>3. Val(B, k + 1) = v + IF k \in B THEN P ELSE 0
    BY ValNext
  <2>4. k \in B <=> b = 1
    BY <1>2
  <2>5. n = q * P + v
    BY <1>4
  <2>6. q \in Int
    <3> HIDE DEF P
    <3> QED BY <2>1, DivModOf
  <2>7. b \in 0 .. 1 /\ h \in Int /\ q = h * 2 + b
    <3> HIDE DEF q
    <3>1. q % 2 \in 0 .. 2 - 1 /\ q \div 2 \in Int /\ q = (q \div 2) * 2 + (q % 2)
      <4>1. q \in Int /\ 2 \in Nat \ {0}
        BY <2>6
      <4> QED BY <4>1, DivModOf, Zenon
    <3> QED BY <3>1
  <2> DEFINE r == v + IF b = 1 THEN P ELSE 0
             M == 2 * P
  <2> HIDE DEF P, v, q, b, h
  <2>8. r \in 0 .. M - 1 /\ M \in Nat \ {0}
    BY <2>1, <2>2, <2>7
  <2>9. n = h * M + r
    <3>1. q * P = h * (2 * P) + b * P
      BY <2>1, <2>7
    <3>2. b * P = IF b = 1 THEN P ELSE 0
      BY <2>1, <2>7
    <3>3. n = q * P + v
      BY <2>5
    <3> DEFINE hm == h * (2 * P)
               qp == q * P
               bp == b * P
    <3>4. hm \in Int /\ qp \in Int /\ bp \in Int
      BY <2>1, <2>6, <2>7
    <3> SUFFICES n = hm + r
      OBVIOUS
    <3> HIDE DEF hm, qp, bp
    <3> QED BY <2>1, <2>2, <3>1, <3>2, <3>3, <3>4 DEF hm, qp, bp
  <2> HIDE DEF r, M
  <2>10. (h * M + r) \div M = h
    BY <2>7, <2>8, DivModIs
  <2>11. n \div M = h
    BY <2>9, <2>10
  <2>12. Val(B, k + 1) = r /\ Pow[k + 1] = M
    BY <2>1, <2>3, <2>4 DEF r, M, P, v, b, q
  <2> QED BY <2>9, <2>11, <2>12
<1>5. Nat \subseteq S
  <2> HIDE DEF S
  <2> QED BY <1>3, <1>4, AllNat
<1>6. n = (n \div Pow[31]) * Pow[31] + Val(B, 31)
  BY <1>5
<1>7. Val(B, 31) = n
  <2> DEFINE P == Pow[31]
             v == Val(B, 31)
  <2>1. P \in Nat \ {0} /\ v \in Nat /\ v < P
    <3>1. 31 \in Nat
      OBVIOUS
    <3>2. P \in Nat /\ P >= 1 /\ v \in Nat /\ v < P
      BY <3>1, PowFacts, ValBelow, Zenon
    <3> HIDE DEF P, v
    <3> QED BY <3>2
  <2> SUFFICES v = n
    OBVIOUS
  <2> HIDE DEF P, v
  <2>2. n = 0 * P + n /\ n \in 0 .. P - 1
    BY <2>1 DEF P
  <2>3. n \div P = 0
    BY <2>1, <2>2, DivModIs
  <2> QED BY <1>6, <2>1, <2>3 DEF P, v
<1> QED BY <1>1, <1>7 DEF B

(* A one taken away takes its power with it.                                *)
LEMMA ValRemove ==
    ASSUME NEW x, NEW i \in Nat, i \in x, NEW n \in Nat, i < n
    PROVE  Val(x, n) = Pow[i] + Val(x \ {i}, n)
<1> DEFINE y == x \ {i}
           S == {k \in Nat : Val(x, k) = (IF i < k THEN Pow[i] ELSE 0) + Val(y, k)}
<1>1. 0 \in S
  <2>1. Val(x, 0) = 0 /\ Val(y, 0) = 0
    BY ValNext, Zenon
  <2> HIDE DEF y
  <2> QED BY <2>1
<1>2. ASSUME NEW k \in Nat, k \in S PROVE k + 1 \in S
  <2>1. Val(x, k + 1) = Val(x, k) + IF k \in x THEN Pow[k] ELSE 0
    BY ValNext, Zenon
  <2>2. Val(y, k + 1) = Val(y, k) + IF k \in y THEN Pow[k] ELSE 0
    <3> HIDE DEF y
    <3> QED BY ValNext, Zenon
  <2>3. Val(y, k) \in Nat /\ Pow[k] \in Nat /\ Pow[i] \in Nat
    BY ValNext, PowFacts
  <2>4. k \in y <=> k \in x /\ k # i
    OBVIOUS
  <2> HIDE DEF y
  <2> QED BY <1>2, <2>1, <2>2, <2>3, <2>4
<1>3. Nat \subseteq S
  <2> HIDE DEF S
  <2> QED BY <1>1, <1>2, AllNat
<1> QED BY <1>3

(* Num reads a word as a number.                                            *)
LEMMA NumVal ==
    ASSUME NEW a \in Word(31)
    PROVE  Num(a) = Val(a, 31)
<1> DEFINE pick(s) == CHOOSE x \in s : TRUE
           Meets(f) == f = [s \in SUBSET a |-> IF s = {} THEN 0
                                              ELSE 2 ^ pick(s) + f[s \ {pick(s)}]]
           v == [s \in SUBSET a |-> Val(s, 31)]
           iter == CHOOSE f : Meets(f)
<1>1. \A s \in SUBSET a : s # {} => pick(s) \in s
  OBVIOUS
<1>2. \A i \in a : i \in Nat /\ i < 31 /\ 2 ^ i = Pow[i]
  <2> TAKE i \in a
  <2>1. i \in 0 .. 30
    BY DEF Word, Low
  <2>2. 2 ^ i = Pow[i]
    BY <2>1, Powers
  <2> QED BY <2>1, <2>2
<1> HIDE DEF pick
<1>3. \A s \in SUBSET a : Val(s, 31) = IF s = {} THEN 0
                                       ELSE 2 ^ pick(s) + Val(s \ {pick(s)}, 31)
  <2> TAKE s \in SUBSET a
  <2>1. CASE s = {}
    BY <2>1, ValEmpty
  <2>2. CASE s # {}
    <3>1. pick(s) \in s /\ pick(s) \in Nat /\ pick(s) < 31 /\ 2 ^ pick(s) = Pow[pick(s)]
      BY <1>1, <1>2, <2>2
    <3>2. Val(s, 31) = Pow[pick(s)] + Val(s \ {pick(s)}, 31)
      <4>1. 31 \in Nat
        OBVIOUS
      <4> QED BY <3>1, <4>1, ValRemove, Zenon
    <3> QED BY <2>2, <3>1, <3>2, Zenon
  <2> QED BY <2>1, <2>2
<1>4. Meets(v)
  <2>1. \A s \in SUBSET a : s \ {pick(s)} \in SUBSET a
    OBVIOUS
  <2> DEFINE u == v
  <2>2. \A s \in SUBSET a : Val(s, 31) = IF s = {} THEN 0
                                         ELSE 2 ^ pick(s) + u[s \ {pick(s)}]
    BY <1>3, <2>1, Zenon
  <2> HIDE DEF u
  <2>3. v = [s \in SUBSET a |-> IF s = {} THEN 0 ELSE 2 ^ pick(s) + u[s \ {pick(s)}]]
    BY <2>2, Zenon
  <2> QED BY <2>3, Zenon DEF u
<1>5. Meets(iter)
  <2> HIDE DEF Meets
  <2> QED BY Zenon, <1>4
<1>6. Num(a) = iter[a]
  BY Zenon DEF Num, MapThenSumSet, MapThenFoldSet, pick
<1> HIDE DEF iter
<1>7. \A s \in SUBSET a : iter[s] = IF s = {} THEN 0 ELSE 2 ^ pick(s) + iter[s \ {pick(s)}]
  BY <1>5, Zenon
<1> DEFINE Bad == {n \in Nat : \E s \in SUBSET a : n = Val(s, 31) /\ iter[s] # Val(s, 31)}
<1>8. Bad = {}
  <2> SUFFICES ASSUME Bad # {} PROVE FALSE
    OBVIOUS
  <2>1. PICK n \in Bad : \A m \in Bad : n <= m
    <3>1. Bad \subseteq Nat
      OBVIOUS
    <3> HIDE DEF Bad
    <3> QED BY <3>1, LeastOf
  <2>2. PICK s \in SUBSET a : n = Val(s, 31) /\ iter[s] # Val(s, 31)
    OBVIOUS
  <2> DEFINE i == pick(s)
             t == s \ {i}
  <2>3. s # {}
    BY <1>3, <1>7, <2>2, Zenon
  <2>4. i \in s /\ i \in Nat
    BY <1>1, <1>2, <2>3
  <2>5. Val(s, 31) = 2 ^ i + Val(t, 31) /\ iter[s] = 2 ^ i + iter[t]
    BY <1>3, <1>7, <2>3, Zenon
  <2>6. t \in SUBSET a
    OBVIOUS
  <2>7. 2 ^ i = Pow[i] /\ Pow[i] \in Nat /\ Pow[i] >= 1
    BY <1>2, <2>4, PowFacts, Zenon
  <2>8. n \in Nat
    OBVIOUS
  <2> HIDE DEF i, t, Bad
  <2>13. Val(t, 31) \in Nat
    <3>1. 31 \in Nat
      OBVIOUS
    <3> QED BY <3>1, ValBelow, Zenon
  <2>9. iter[t] # Val(t, 31)
    BY <2>2, <2>5, Zenon
  <2>10. Val(t, 31) \in Bad
    BY <2>6, <2>9, <2>13 DEF Bad
  <2>11. Val(t, 31) < Val(s, 31)
    <3> DEFINE e == 2 ^ i
    <3>1. e \in Nat /\ e >= 1
      BY <2>7
    <3>2. Val(s, 31) = e + Val(t, 31)
      BY <2>5
    <3> HIDE DEF e
    <3> QED BY <2>13, <3>1, <3>2
  <2>12. n <= Val(t, 31)
    BY <2>1, <2>10
  <2> QED BY <2>2, <2>8, <2>11, <2>12, <2>13
<1>9. Val(a, 31) \in Nat
  <2>1. 31 \in Nat
    OBVIOUS
  <2> QED BY <2>1, ValNext, Zenon
<1> QED BY <1>6, <1>8, <1>9

\* The power of a sum.
LEMMA PowAdd ==
    ASSUME NEW n \in Nat, NEW k \in Nat
    PROVE  Pow[n + k] = Pow[n] * Pow[k]
<1> DEFINE S == {m \in Nat : Pow[m + k] = Pow[m] * Pow[k]}
<1>1. 0 \in S
  BY PowFacts
<1>2. ASSUME NEW m \in Nat, m \in S PROVE m + 1 \in S
  <2>1. Pow[m + 1] = 2 * Pow[m] /\ Pow[(m + k) + 1] = 2 * Pow[m + k]
    BY PowFacts
  <2>2. Pow[m] \in Nat /\ Pow[k] \in Nat /\ (m + 1) + k = (m + k) + 1
    BY PowFacts
  <2> QED BY <1>2, <2>1, <2>2
<1>3. Nat \subseteq S
  <2> HIDE DEF S
  <2> QED BY <1>1, <1>2, AllNat
<1> QED BY <1>3

(* A word is what its low bits and the bits above them stand for.           *)
LEMMA ValShr ==
    ASSUME NEW a, a \subseteq Int, NEW n \in Nat, NEW k \in Nat
    PROVE  Val(a, n + k) = Pow[k] * Val(Shr(a, k), n) + Val(a, k)
<1> DEFINE h == Shr(a, k)
           S == {m \in Nat : Val(a, m + k) = Pow[k] * Val(h, m) + Val(a, k)}
<1>1. \A i \in Nat : i \in h <=> i + k \in a
  <2>1. k \in Int
    OBVIOUS
  <2>2. \A i \in Int : i \in h <=> i >= 0 /\ i + k \in a
    BY <2>1, InShr, Zenon
  <2> QED BY <2>2
<1>2. Pow[k] \in Nat /\ Val(a, k) \in Nat /\ \A m \in Nat : Val(h, m) \in Nat
  BY PowFacts, ValNext
<1> HIDE DEF h
<1>3. 0 \in S
  <2>1. Val(h, 0) = 0 /\ 0 + k = k
    BY ValNext
  <2> QED BY <1>2, <2>1
<1>4. ASSUME NEW m \in Nat, m \in S PROVE m + 1 \in S
  <2>1. Val(h, m + 1) = Val(h, m) + IF m \in h THEN Pow[m] ELSE 0
    BY ValNext
  <2>2. Val(a, (m + k) + 1) = Val(a, m + k) + IF m + k \in a THEN Pow[m + k] ELSE 0
    <3>1. m + k \in Nat
      OBVIOUS
    <3> QED BY <3>1, ValNext
  <2>3. m \in h <=> m + k \in a
    BY <1>1
  <2>4. Pow[m + k] = Pow[k] * Pow[m]
    <3>1. Pow[m + k] = Pow[m] * Pow[k] /\ Pow[m] \in Nat
      BY PowAdd, PowFacts
    <3> QED BY <1>2, <3>1
  <2>5. Pow[m] \in Nat /\ Val(h, m) \in Nat /\ (m + 1) + k = (m + k) + 1
    BY <1>2, PowFacts
  <2>6. Val(a, m + k) = Pow[k] * Val(h, m) + Val(a, k)
    BY <1>4
  <2>7. Val(a, (m + 1) + k) = Pow[k] * Val(h, m + 1) + Val(a, k)
    <3>1. CASE m \in h
      <4>1. Val(h, m + 1) = Val(h, m) + Pow[m]
        BY <2>1, <3>1
      <4>2. Pow[k] * Val(h, m + 1) = Pow[k] * Val(h, m) + Pow[k] * Pow[m]
        BY <1>2, <2>5, <4>1
      <4>3. Pow[k] * Val(h, m) \in Nat /\ Pow[k] * Pow[m] \in Nat
        BY <1>2, <2>5
      <4>4. Val(a, (m + 1) + k) = Val(a, m + k) + Pow[k] * Pow[m]
        BY <2>2, <2>3, <2>4, <2>5, <3>1
      <4> QED BY <1>2, <2>6, <4>2, <4>3, <4>4
    <3>2. CASE m \notin h
      BY <2>1, <2>2, <2>3, <2>5, <2>6, <3>2, <1>2
    <3> QED BY <3>1, <3>2
  <2> QED BY <2>7
<1>5. Nat \subseteq S
  <2> HIDE DEF S
  <2> QED BY <1>3, <1>4, AllNat
<1> QED BY <1>5 DEF h

(* A slice of a word is a word, and a field one of the numbers of its size. *)
LEMMA SliceWord ==
    ASSUME NEW a, a \subseteq Int, NEW lsb \in Nat, NEW len \in Nat
    PROVE  /\ Slice(a, lsb, len) \in Word(len)
           /\ \A i \in Int : i \in Slice(a, lsb, len) <=> i \in Low(len) /\ i + lsb \in a
<1> DEFINE b == a \cap lsb .. lsb + len - 1
<1>1. b \subseteq Int /\ Slice(a, lsb, len) = Shr(b, lsb)
  BY DEF Slice
<1>2. \A i \in Int : i + lsb \in b <=> i + lsb \in a /\ i >= 0 /\ i <= len - 1
  OBVIOUS
<1> HIDE DEF b
<1>3. Shr(b, lsb) \subseteq Nat /\ \A i \in Int : i \in Shr(b, lsb) <=> i >= 0 /\ i + lsb \in b
  <2>1. lsb \in Int
    OBVIOUS
  <2> QED BY <1>1, <2>1, InShr, Zenon
<1>4. \A i \in Int : i \in Low(len) <=> i >= 0 /\ i <= len - 1
  BY DEF Low
<1>5. \A i \in Int : i \in Slice(a, lsb, len) <=> i \in Low(len) /\ i + lsb \in a
  BY <1>1, <1>2, <1>3, <1>4
<1>6. Slice(a, lsb, len) \subseteq Int
  BY <1>1, <1>3
<1>7. Slice(a, lsb, len) \subseteq Low(len)
  BY <1>5, <1>6
<1> QED BY <1>5, <1>7 DEF Word

\* A field of an instruction word is below the power of its length.
LEMMA FieldRange ==
    ASSUME NEW a, a \subseteq Int, NEW lsb \in Nat, NEW len \in 0 .. 31
    PROVE  /\ field(a, lsb, len) \in Nat /\ field(a, lsb, len) < Pow[len]
           /\ field(a, lsb, len) = Val(Slice(a, lsb, len), len)
<1> DEFINE s == Slice(a, lsb, len)
<1>1. s \in Word(len) /\ len \in Nat /\ 31 \in Nat /\ len <= 31
  <2>1. len \in Nat
    OBVIOUS
  <2>2. s \in Word(len)
    BY <2>1, SliceWord, Zenon
  <2> QED BY <2>1, <2>2
<1> HIDE DEF s
<1>2. s \in Word(31) /\ Val(s, 31) = Val(s, len)
  BY <1>1, WordsGrow, ValWide, Zenon
<1>3. Num(s) = Val(s, len)
  BY <1>2, NumVal
<1>4. Val(s, len) \in Nat /\ Val(s, len) < Pow[len]
  BY <1>1, ValBelow
<1> QED BY <1>3, <1>4 DEF field, s

-----------------------------------------------------------------------------
(* Loops *)

RunsFrom(f, P, done, out, next) == f = [p \in P |-> IF p \in done THEN out[p] ELSE f[next[p]]]

(* A loop that may stop anywhere has a function that computes what comes    *)
(* out of it: P are its states, done those in which it stops, with what out *)
(* gives, and next leads from one to another.                               *)
LEMMA Loop ==
    ASSUME NEW P, NEW done, NEW out, NEW next \in [P -> P]
    PROVE  \E f : RunsFrom(f, P, done, out, next)
<1> DEFINE g == [k \in Nat |-> next]
           From(o, p) == o \in [Nat -> P] /\ Follows(o, p, g)
           orbit(p) == CHOOSE o : From(o, p)
           stops(p) == {k \in Nat : orbit(p)[k] \in done}
           First(p, n) == n \in stops(p) /\ \A m \in stops(p) : n <= m
           soonest(p) == CHOOSE n : First(p, n)
           value(p) == IF stops(p) = {} THEN {} ELSE out[orbit(p)[soonest(p)]]
           f == [p \in P |-> value(p)]
<1>1. g \in [Nat -> [P -> P]] /\ \A k \in Nat : g[k] = next
  OBVIOUS
<1> HIDE DEF g
<1>2. ASSUME NEW p \in P
      PROVE  /\ orbit(p) \in [Nat -> P] /\ orbit(p)[0] = p
             /\ \A k \in Nat : orbit(p)[k + 1] = next[orbit(p)[k]]
  <2>1. \E o : From(o, p)
    <3>1. \E o \in [Nat -> P] : Follows(o, p, g)
      BY <1>1, Recursion
    <3> QED BY <3>1
  <2>2. From(orbit(p), p)
    <3> HIDE DEF From
    <3> QED BY <2>1, Zenon
  <2> HIDE DEF orbit
  <2> QED BY <1>1, <2>2 DEF Follows
<1> HIDE DEF orbit
<1>3. ASSUME NEW p \in P
      PROVE  next[p] \in P /\ \A k \in Nat : orbit(next[p])[k] = orbit(p)[k + 1]
  <2> DEFINE q == next[p]
             S == {k \in Nat : orbit(q)[k] = orbit(p)[k + 1]}
  <2>1. q \in P
    OBVIOUS
  <2>2. orbit(q)[0] = q /\ orbit(p)[0] = p
    BY <1>2, <2>1, Zenon
  <2>3. \A k \in Nat : orbit(q)[k + 1] = next[orbit(q)[k]]
    BY <1>2, <2>1, Zenon
  <2>4. \A k \in Nat : orbit(p)[k + 1] = next[orbit(p)[k]]
    BY <1>2, Zenon
  <2>5. 0 \in S
    BY <2>2, <2>4
  <2>6. ASSUME NEW k \in Nat, k \in S PROVE k + 1 \in S
    <3>1. orbit(q)[k + 1] = next[orbit(q)[k]] /\ orbit(p)[(k + 1) + 1] = next[orbit(p)[k + 1]]
      BY <2>3, <2>4
    <3> QED BY <2>6, <3>1
  <2>7. Nat \subseteq S
    <3> HIDE DEF S
    <3> QED BY <2>5, <2>6, AllNat
  <2> QED BY <2>1, <2>7
<1>4. ASSUME NEW p \in P, stops(p) # {} PROVE First(p, soonest(p))
  <2>1. \E n : First(p, n)
    <3>1. stops(p) \subseteq Nat
      OBVIOUS
    <3> HIDE DEF stops
    <3> QED BY <1>4, <3>1, LeastOf
  <2> HIDE DEF First
  <2> QED BY <2>1, Zenon
<1>5. ASSUME NEW p \in P, NEW n, First(p, n), stops(p) # {} PROVE n = soonest(p)
  <2>1. First(p, soonest(p))
    BY <1>4, <1>5
  <2> HIDE DEF soonest
  <2> QED BY <1>5, <2>1
<1>6. ASSUME NEW p \in P, p \in done PROVE value(p) = out[p]
  <2>1. orbit(p)[0] = p
    BY <1>2
  <2>2. First(p, 0) /\ stops(p) # {}
    BY <1>6, <2>1
  <2>3. soonest(p) = 0
    <3> HIDE DEF soonest, First, stops
    <3> QED BY <1>5, <2>2, Zenon
  <2> HIDE DEF soonest, First, stops
  <2> QED BY <2>1, <2>2, <2>3
<1>7. ASSUME NEW p \in P, p \notin done PROVE value(p) = value(next[p])
  <2> DEFINE q == next[p]
  <2>1. q \in P /\ \A k \in Nat : orbit(q)[k] = orbit(p)[k + 1]
    BY <1>3
  <2>2. orbit(p)[0] = p
    BY <1>2
  <2> HIDE DEF q
  <2>3. \A k \in Nat : k \in stops(q) <=> k + 1 \in stops(p)
    BY <2>1
  <2>4. 0 \notin stops(p)
    BY <1>7, <2>2
  <2>5. CASE stops(q) = {}
    <3>1. stops(p) = {}
      <4> SUFFICES ASSUME NEW k \in stops(p) PROVE FALSE
        OBVIOUS
      <4>1. k \in Nat /\ k # 0
        BY <2>4
      <4>2. k - 1 \in Nat /\ (k - 1) + 1 = k
        BY <4>1
      <4> HIDE DEF stops
      <4> QED BY <2>3, <2>5, <4>2
    <3> QED BY <2>5, <3>1 DEF q
  <2>6. CASE stops(q) # {}
    <3>1. soonest(q) \in stops(q) /\ \A m \in stops(q) : soonest(q) <= m
      <4>1. First(q, soonest(q))
        <5> HIDE DEF First, soonest, stops
        <5> QED BY <1>4, <2>1, <2>6, Zenon
      <4> HIDE DEF soonest
      <4> QED BY <4>1
    <3> DEFINE n == soonest(q)
    <3>2. n \in Nat
      BY <3>1
    <3> HIDE DEF n
    <3>3. n + 1 \in stops(p)
      <4> HIDE DEF stops
      <4> QED BY <2>3, <3>1, <3>2 DEF n
    <3>4. \A m \in stops(p) : n + 1 <= m
      <4> TAKE m \in stops(p)
      <4>1. m \in Nat /\ m # 0
        BY <2>4
      <4>2. m - 1 \in Nat /\ (m - 1) + 1 = m
        BY <4>1
      <4>3. m - 1 \in stops(q)
        <5> HIDE DEF stops
        <5> QED BY <2>3, <4>2
      <4>4. n <= m - 1
        <5> HIDE DEF stops
        <5> QED BY <3>1, <4>3 DEF n
      <4> QED BY <3>2, <4>1, <4>4
    <3>5. First(p, n + 1) /\ stops(p) # {}
      BY <3>3, <3>4
    <3>6. n + 1 = soonest(p)
      <4> HIDE DEF soonest, First, stops
      <4> QED BY <1>5, <3>5, Zenon
    <3>7. orbit(q)[n] = orbit(p)[n + 1]
      BY <2>1, <3>2
    <3>8. value(p) = out[orbit(p)[n + 1]]
      <4> HIDE DEF soonest, First, stops
      <4> QED BY <3>5, <3>6
    <3>9. value(q) = out[orbit(q)[n]]
      <4> HIDE DEF First, stops
      <4> QED BY <2>6 DEF n
    <3> QED BY <3>7, <3>8, <3>9 DEF q
  <2> QED BY <2>5, <2>6
<1> HIDE DEF value
<1>8. \A p \in P : next[p] \in P
  OBVIOUS
<1> DEFINE h == f
<1>9. \A p \in P : value(p) = IF p \in done THEN out[p] ELSE h[next[p]]
  <2> TAKE p \in P
  <2>1. h[next[p]] = value(next[p])
    BY <1>8
  <2> HIDE DEF h
  <2> QED BY <1>6, <1>7, <2>1
<1> HIDE DEF h
<1>10. f = [p \in P |-> IF p \in done THEN out[p] ELSE h[next[p]]]
  BY <1>9
<1> QED BY <1>10, Zenon DEF h, RunsFrom

-----------------------------------------------------------------------------
(* Division *)

\* A quotient has 64 bits.
LEMMA UDivWord ==
    ASSUME NEW a, NEW d
    PROVE  UDiv(a, d) \in SUBSET W64
<1> DEFINE P == (-1 .. 63) \X (SUBSET W64) \X (SUBSET Nat)
           Rest(p) == {j + 1 : j \in p[3]} \cup (IF p[1] \in a THEN {0} ELSE {})
           After(p) == IF ULess(Rest(p), d) THEN <<p[1] - 1, p[2], Rest(p)>>
                       ELSE <<p[1] - 1, p[2] \cup {p[1]}, Minus(Rest(p), d, 66)>>
           Meets(f) == f = [p \in P |-> IF p[1] < 0 THEN p[2] ELSE f[After(p)]]
           Code(f) == f = [p \in P |-> IF p[1] < 0 THEN p[2]
                                      ELSE IF ULess(Rest(p), d) THEN f[<<p[1] - 1, p[2], Rest(p)>>]
                                      ELSE f[<<p[1] - 1, p[2] \cup {p[1]}, Minus(Rest(p), d, 66)>>]]
           div == CHOOSE f : Code(f)
<1>1. \A p \in P : ~ (p[1] < 0) => After(p) \in P /\ After(p)[1] = p[1] - 1
  <2> TAKE p \in P
  <2> HAVE ~ (p[1] < 0)
  <2>1. p[1] \in 0 .. 63 /\ p[2] \subseteq W64 /\ p[3] \subseteq Nat
    OBVIOUS
  <2>2. Rest(p) \subseteq Nat
    BY <2>1
  <2>3. Minus(Rest(p), d, 66) \subseteq Nat
    BY SMT DEF Minus, Add, Low
  <2>4. p[1] - 1 \in -1 .. 63 /\ p[2] \cup {p[1]} \subseteq W64
    BY <2>1, SMT DEF W64, Low
  <2> HIDE DEF Rest
  <2>5. CASE ULess(Rest(p), d)
    BY <2>1, <2>2, <2>4, <2>5
  <2>6. CASE ~ ULess(Rest(p), d)
    BY <2>1, <2>3, <2>4, <2>6
  <2> QED BY <2>5, <2>6
<1>15. ASSUME NEW f PROVE Meets(f) <=> Code(f)
  <2>1. ASSUME NEW p
        PROVE  (IF p[1] < 0 THEN p[2] ELSE f[After(p)])
                 = IF p[1] < 0 THEN p[2]
                   ELSE IF ULess(Rest(p), d) THEN f[<<p[1] - 1, p[2], Rest(p)>>]
                   ELSE f[<<p[1] - 1, p[2] \cup {p[1]}, Minus(Rest(p), d, 66)>>]
    <3> HIDE DEF Rest
    <3> QED OBVIOUS
  <2> HIDE DEF P, Rest, After
  <2> QED BY <2>1
<1> DEFINE done == {p \in P : p[1] < 0}
           out == [p \in P |-> p[2]]
           next == [p \in P |-> IF p[1] < 0 THEN p ELSE After(p)]
<1> HIDE DEF After
<1>2. next \in [P -> P]
  <2> HIDE DEF P
  <2> QED BY <1>1
<1>3. \E f : RunsFrom(f, P, done, out, next)
  <2> HIDE DEF next, P, done, out
  <2> QED BY <1>2, Loop, Zenon
<1>4. PICK f : RunsFrom(f, P, done, out, next)
  BY <1>3
<1>5. \E h : Meets(h)
  <2> DEFINE g == f
  <2> HIDE DEF P
  <2>1. \A p \in P : (IF p \in done THEN out[p] ELSE g[next[p]])
                       = IF p[1] < 0 THEN p[2] ELSE g[After(p)]
    <3> HIDE DEF g
    <3> QED OBVIOUS
  <2>2. f = [p \in P |-> IF p \in done THEN out[p] ELSE g[next[p]]]
    BY <1>4, Zenon DEF RunsFrom
  <2> HIDE DEF g, done, out, next
  <2>3. f = [p \in P |-> IF p[1] < 0 THEN p[2] ELSE g[After(p)]]
    BY <2>1, <2>2
  <2>4. Meets(f)
    BY <2>3 DEF g
  <2> QED BY <2>4
<1>6. Meets(div)
  <2> HIDE DEF Meets, Code
  <2> QED BY <1>5, <1>15, Zenon
<1>7. UDiv(a, d) = div[<<63, {}, {}>>]
  BY Zenon DEF UDiv, After
<1> HIDE DEF div
<1>8. \A p \in P : div[p] = IF p[1] < 0 THEN p[2] ELSE div[After(p)]
  <2> HIDE DEF P
  <2> QED BY <1>6
<1> DEFINE A == {k \in Nat : \A p \in P : p[1] < k => div[p] \in SUBSET W64}
<1>9. 0 \in A
  BY <1>8
<1>10. ASSUME NEW k \in Nat, k \in A PROVE k + 1 \in A
  <2> SUFFICES ASSUME NEW p \in P, p[1] < k + 1 PROVE div[p] \in SUBSET W64
    OBVIOUS
  <2>1. CASE p[1] < 0
    BY <1>8, <2>1
  <2>2. CASE ~ (p[1] < 0)
    <3>1. After(p) \in P /\ After(p)[1] = p[1] - 1 /\ p[1] \in Int
      BY <1>1, <2>2
    <3>2. div[p] = div[After(p)]
      BY <1>8, <2>2
    <3>3. p[1] - 1 < k
      BY <3>1
    <3> HIDE DEF P
    <3> QED BY <1>10, <3>1, <3>2, <3>3
  <2> QED BY <2>1, <2>2
<1>11. 64 \in A
  <2> HIDE DEF A
  <2> QED BY <1>9, <1>10, AllNat
<1>12. <<63, {}, {}>> \in P
  OBVIOUS
<1>13. <<63, {}, {}>>[1] < 64
  OBVIOUS
<1> HIDE DEF P
<1>14. div[<<63, {}, {}>>] \in SUBSET W64
  BY <1>11, <1>12, <1>13
<1> QED BY <1>7, <1>14

-----------------------------------------------------------------------------
(* What decode yields: the fields of every instruction are in range.        *)

Reg == 0 .. 31
Imm12 == 0 .. 4095

(* A field of up to six bits, or of twelve, is a number of as many bits.     *)
LEMMA Fields ==
    ASSUME NEW w \in SUBSET W32, NEW lsb \in Nat
    PROVE  /\ field(w, lsb, 1) \in 0 .. 1 /\ field(w, lsb, 2) \in 0 .. 3
           /\ field(w, lsb, 3) \in 0 .. 7 /\ field(w, lsb, 4) \in 0 .. 15
           /\ field(w, lsb, 5) \in Reg /\ field(w, lsb, 6) \in 0 .. 63
           /\ field(w, lsb, 12) \in Imm12
<1>1. w \subseteq Int
  BY DEF W32, Low
<1>2. ASSUME NEW len \in 0 .. 31 PROVE field(w, lsb, len) \in Nat /\ field(w, lsb, len) < Pow[len]
  BY <1>1, FieldRange, Zenon
<1>3. /\ Pow[1] = 2 /\ Pow[2] = 4 /\ Pow[3] = 8 /\ Pow[4] = 16 /\ Pow[5] = 32 /\ Pow[6] = 64
      /\ Pow[12] = 4096
  <2>1. \A k \in Nat : Pow[k + 1] = 2 * Pow[k]
    BY PowFacts
  <2>2. Pow[0] = 1 /\ Pow[0 + 1] = 2 * Pow[0] /\ Pow[1 + 1] = 2 * Pow[1] /\ Pow[2 + 1] = 2 * Pow[2]
        /\ Pow[3 + 1] = 2 * Pow[3] /\ Pow[4 + 1] = 2 * Pow[4] /\ Pow[5 + 1] = 2 * Pow[5]
    BY <2>1, PowFacts
  <2>3. Pow[6 + 1] = 2 * Pow[6] /\ Pow[7 + 1] = 2 * Pow[7] /\ Pow[8 + 1] = 2 * Pow[8]
        /\ Pow[9 + 1] = 2 * Pow[9] /\ Pow[10 + 1] = 2 * Pow[10] /\ Pow[11 + 1] = 2 * Pow[11]
    BY <2>1
  <2> QED BY <2>2, <2>3
<1>4. field(w, lsb, 1) \in 0 .. 1
  <2>1. field(w, lsb, 1) \in Nat /\ field(w, lsb, 1) < Pow[1]
    BY <1>2
  <2> QED BY <1>3, <2>1
<1>5. field(w, lsb, 2) \in 0 .. 3
  <2>1. field(w, lsb, 2) \in Nat /\ field(w, lsb, 2) < Pow[2]
    BY <1>2
  <2> QED BY <1>3, <2>1
<1>6. field(w, lsb, 3) \in 0 .. 7
  <2>1. field(w, lsb, 3) \in Nat /\ field(w, lsb, 3) < Pow[3]
    BY <1>2
  <2> QED BY <1>3, <2>1
<1>7. field(w, lsb, 4) \in 0 .. 15
  <2>1. field(w, lsb, 4) \in Nat /\ field(w, lsb, 4) < Pow[4]
    BY <1>2
  <2> QED BY <1>3, <2>1
<1>8. field(w, lsb, 5) \in Reg
  <2>1. field(w, lsb, 5) \in Nat /\ field(w, lsb, 5) < Pow[5]
    BY <1>2
  <2> QED BY <1>3, <2>1 DEF Reg
<1>9. field(w, lsb, 6) \in 0 .. 63
  <2>1. field(w, lsb, 6) \in Nat /\ field(w, lsb, 6) < Pow[6]
    BY <1>2
  <2> QED BY <1>3, <2>1
<1>10. field(w, lsb, 12) \in Imm12
  <2> DEFINE v == field(w, lsb, 12)
  <2>1. v \in Nat /\ v < Pow[12]
    BY <1>2
  <2>2. Pow[12] = 4096
    BY <1>3
  <2> HIDE DEF v
  <2>3. v \in Imm12
    BY <2>1, <2>2 DEF Imm12
  <2> QED BY <2>3 DEF v
<1> QED BY Zenon, <1>4, <1>5, <1>6, <1>7, <1>8, <1>9, <1>10

\* The register fields of an instruction word are register numbers.
LEMMA Registers ==
    ASSUME NEW w \in SUBSET W32
    PROVE  Rd(w) \in Reg /\ Rn(w) \in Reg /\ Rm(w) \in Reg
BY Fields DEF Rd, Rn, Rm

(* Slices are words, and shifted or extended into 64 bits they stay there.   *)
LEMMA Slices ==
    ASSUME NEW w \in SUBSET W32, NEW lsb \in Nat, NEW len \in Nat
    PROVE  Slice(w, lsb, len) \in Word(len)
<1>1. w \subseteq Int
  BY DEF W32, Low
<1> QED BY <1>1, SliceWord, Zenon

\* A word shifted left and cut is a word.
LEMMA ShlWord ==
    ASSUME NEW a, NEW n, NEW w
    PROVE  Shl(a, n, w) \in Word(w)
BY DEF Shl, Word

\* A sign-extended word is a word of the new width.
LEMMA SextWord ==
    ASSUME NEW a, NEW n \in Nat, NEW w \in Nat, n <= w
    PROVE  Sext(a, n, w) \in Word(w)
BY DEF Sext, Word, Low

-----------------------------------------------------------------------------
(* The masks of decode_bit_masks                                             *)

(* Adding to a remainder wraps at most once.                                *)
LEMMA ModTurn ==
    ASSUME NEW e \in Nat \ {0}, NEW p \in Nat, NEW r \in 0 .. e - 1
    PROVE  p % e \in 0 .. e - 1 /\ (p + r) % e = RorFrom(p % e, r, e)
<1> DEFINE q == p \div e
           t == p % e
           u == RorFrom(t, r, e)
           c == IF t + r < e THEN q ELSE q + 1
<1>1. q \in Int /\ t \in 0 .. e - 1 /\ p = q * e + t
  BY DivModOf
<1> HIDE DEF q, t
<1>2. u \in 0 .. e - 1 /\ c \in Int
  BY <1>1 DEF RorFrom
<1>3. p + r = c * e + u
  <2>1. CASE t + r < e
    BY <1>1, <2>1 DEF RorFrom
  <2>2. CASE ~ (t + r < e)
    <3>1. c = q + 1 /\ u = t + r - e
      BY <2>2 DEF RorFrom
    <3>2. (q + 1) * e = q * e + e
      BY <1>1
    <3> QED BY <1>1, <3>1, <3>2
  <2> QED BY <2>1, <2>2
<1> HIDE DEF u, c
<1>4. (c * e + u) % e = u
  BY <1>2, DivModIs
<1>5. p % e \in 0 .. e - 1
  BY <1>1 DEF t
<1> QED BY <1>3, <1>4, <1>5 DEF u, t

\* A field of one bit.
LEMMA OneBit ==
    ASSUME NEW w \in SUBSET W32, NEW lsb \in Nat
    PROVE  field(w, lsb, 1) = IF lsb \in w THEN 1 ELSE 0
<1> DEFINE s == Slice(w, lsb, 1)
<1>1. w \subseteq Int
  BY DEF W32, Low
<1>2. field(w, lsb, 1) = Val(s, 1)
  <2>1. 1 \in 0 .. 31
    OBVIOUS
  <2> QED BY <1>1, <2>1, FieldRange, Zenon
<1>3. 0 \in s <=> lsb \in w
  <2>1. \A i \in Int : i \in s <=> i \in Low(1) /\ i + lsb \in w
    BY <1>1, SliceWord
  <2>2. 0 \in Low(1) /\ 0 + lsb = lsb /\ 0 \in Int
    BY DEF Low
  <2> HIDE DEF s
  <2> QED BY <2>1, <2>2
<1> HIDE DEF s
<1>4. Val(s, 0 + 1) = Val(s, 0) + (IF 0 \in s THEN Pow[0] ELSE 0) /\ Val(s, 0) = 0 /\ Pow[0] = 1
  BY ValNext, PowFacts
<1> QED BY <1>2, <1>3, <1>4

(* 64 * N in binary, and the sixth bit of imms.                             *)
LEMMA BitsOfN ==
    /\ Bits(64 * 0) = {} /\ Bits(64 * 1) = {6}
    /\ \A v \in 0 .. 31 : 5 \notin Bits(v)
<1>1. \A i \in 0 .. 30 : 2 ^ i = Pow[i]
  BY Powers
<1>2. /\ Pow[0] = 1 /\ Pow[1] = 2 /\ Pow[2] = 4 /\ Pow[3] = 8 /\ Pow[4] = 16 /\ Pow[5] = 32
      /\ Pow[6] = 64 /\ 128 \in Nat
  <2>1. \A k \in Nat : Pow[k + 1] = 2 * Pow[k]
    BY PowFacts
  <2>2. Pow[0] = 1
    BY PowFacts
  <2> QED BY <2>1, <2>2, SMT
<1>3. \A i \in 7 .. 30 : Pow[i] \in Nat /\ Pow[i] > 64
  <2> DEFINE S == {k \in Nat : Pow[k + 7] \in Nat /\ Pow[k + 7] > 64}
  <2>1. 0 \in S
    <3>1. Pow[6 + 1] = 2 * Pow[6]
      BY PowFacts
    <3> QED BY <1>2, <3>1
  <2>2. ASSUME NEW k \in Nat, k \in S PROVE k + 1 \in S
    <3>1. Pow[(k + 7) + 1] = 2 * Pow[k + 7] /\ (k + 7) + 1 = (k + 1) + 7
      BY PowFacts
    <3> QED BY <2>2, <3>1
  <2>3. Nat \subseteq S
    <3> HIDE DEF S
    <3> QED BY <2>1, <2>2, AllNat
  <2> SUFFICES ASSUME NEW i \in 7 .. 30 PROVE Pow[i] \in Nat /\ Pow[i] > 64
    OBVIOUS
  <2>4. i - 7 \in Nat /\ (i - 7) + 7 = i
    OBVIOUS
  <2> QED BY <2>3, <2>4
<1>4. Bits(0) = {}
  <2> SUFFICES ASSUME NEW i \in 0 .. 30 PROVE (0 \div 2 ^ i) % 2 # 1
    BY DEF Bits
  <2>1. 2 ^ i = Pow[i]
    BY <1>1, Zenon
  <2>5. Pow[i] \in Nat \ {0}
    BY PowFacts
  <2> DEFINE d == Pow[i]
  <2>2. d \in Nat \ {0} /\ 2 ^ i = d
    BY <2>1, <2>5, Zenon
  <2> HIDE DEF d
  <2>3. (0 * d + 0) \div d = 0
    BY <2>2, DivModIs
  <2>4. 0 \div d = 0
    BY <2>2, <2>3
  <2>6. (0 \div d) % 2 # 1
    BY <2>4
  <2> QED BY <2>2, <2>6, Zenon
<1>5. Bits(64) = {6}
  <2>1. ASSUME NEW i \in 7 .. 30 PROVE (64 \div 2 ^ i) % 2 # 1
    <3> DEFINE d == Pow[i]
    <3>1. d \in Nat \ {0} /\ 64 \in 0 .. d - 1
      BY <1>3
    <3>5. i \in 0 .. 30
      OBVIOUS
    <3>2. 2 ^ i = d
      BY <1>1, <3>5, Zenon
    <3> HIDE DEF d
    <3>3. (0 * d + 64) \div d = 0
      BY <3>1, DivModIs
    <3>4. 64 \div d = 0
      BY <3>1, <3>3
    <3>6. (64 \div d) % 2 # 1
      BY <3>4
    <3> QED BY <3>2, <3>6, Zenon
  <2>2. /\ (64 \div 1) % 2 = 0 /\ (64 \div 2) % 2 = 0 /\ (64 \div 4) % 2 = 0 /\ (64 \div 8) % 2 = 0
        /\ (64 \div 16) % 2 = 0 /\ (64 \div 32) % 2 = 0 /\ (64 \div 64) % 2 = 1
    OBVIOUS
  <2>3. /\ 2 ^ 0 = 1 /\ 2 ^ 1 = 2 /\ 2 ^ 2 = 4 /\ 2 ^ 3 = 8 /\ 2 ^ 4 = 16 /\ 2 ^ 5 = 32 /\ 2 ^ 6 = 64
    BY <1>1, <1>2
  <2>4. \A i \in 0 .. 30 : i \in {0, 1, 2, 3, 4, 5, 6} \cup 7 .. 30
    OBVIOUS
  <2> DEFINE odd(i) == (64 \div 2 ^ i) % 2 = 1
  <2>5. ~ odd(0) /\ ~ odd(1) /\ ~ odd(2) /\ ~ odd(3) /\ ~ odd(4) /\ ~ odd(5) /\ odd(6)
        /\ \A i \in 7 .. 30 : ~ odd(i)
    BY <2>1, <2>2, <2>3
  <2>6. Bits(64) = {i \in 0 .. 30 : odd(i)}
    BY DEF Bits
  <2> HIDE DEF odd
  <2> QED BY <2>4, <2>5, <2>6
<1>6. \A v \in 0 .. 31 : 5 \notin Bits(v)
  <2> TAKE v \in 0 .. 31
  <2>1. 2 ^ 5 = 32
    BY <1>1, <1>2
  <2>2. v \div 32 = 0
    OBVIOUS
  <2>3. (v \div 2 ^ 5) % 2 # 1
    BY <2>1, <2>2
  <2> QED BY <2>3 DEF Bits
<1> QED BY <1>4, <1>5, <1>6

\* The word decode_bit_masks takes the element size from: N, then imms inverted.
SizeWord(n, imms) == Bits(64 * n) \cup (Low(6) \ Bits(imms))
ElementSizes == {2, 4, 8, 16, 32, 64}
SizeFor(n, imms, e) ==
    e \in ElementSizes /\ (n = 1 => e = 64) /\ (n = 0 /\ imms < 32 => e = 32)

(* An element has 2 to 64 bits; all of them with N, half when imms is small. *)
LEMMA ElementSize ==
    ASSUME NEW n \in 0 .. 1, NEW imms \in 0 .. 63, SizeWord(n, imms) \notin {{}, {0}}
    PROVE  SizeFor(n, imms, 2 ^ Max(SizeWord(n, imms)))
<1> DEFINE x == SizeWord(n, imms)
           m == Max(x)
<1>1. x \in Word(7) /\ (n = 0 => x \in Word(6)) /\ (n = 1 => 6 \in x)
  <2>1. Bits(64 * n) = IF n = 0 THEN {} ELSE {6}
    <3>1. CASE n = 0
      BY <3>1, BitsOfN
    <3>2. CASE n = 1
      BY <3>2, BitsOfN
    <3> QED BY <3>1, <3>2
  <2> QED BY <2>1 DEF SizeWord, Word, Low
<1>2. n = 0 /\ imms < 32 => 5 \in x
  <2> SUFFICES ASSUME imms < 32 PROVE 5 \in x
    OBVIOUS
  <2>1. 5 \notin Bits(imms)
    BY BitsOfN
  <2> QED BY <2>1 DEF SizeWord, Low
<1>3. x # {} /\ x # {0}
  OBVIOUS
<1> HIDE DEF x
<1>4. m \in x /\ \A k \in x : m >= k
  BY <1>1, <1>3, MaxIsLargest
<1>5. m \in 1 .. 6 /\ (n = 1 => m = 6) /\ (n = 0 /\ imms < 32 => m = 5)
  <2> HIDE DEF m
  <2>1. x \subseteq 0 .. 6 /\ (n = 0 => x \subseteq 0 .. 5)
    BY <1>1 DEF Word, Low
  <2>2. m # 0
    <3> SUFFICES ASSUME m = 0 PROVE FALSE
      OBVIOUS
    <3>1. \A k \in x : k = 0
      BY <1>4, <2>1
    <3>2. x = {0}
      BY <1>4, <3>1
    <3> QED BY <1>3, <3>2
  <2>3. m \in 1 .. 6 /\ (n = 0 => m \in 1 .. 5)
    BY <1>4, <2>1, <2>2
  <2>4. n = 1 => m = 6
    BY <1>1, <1>4, <2>3
  <2>5. n = 0 /\ imms < 32 => m = 5
    BY <1>2, <1>4, <2>3
  <2> QED BY <2>3, <2>4, <2>5
<1>6. /\ 2 ^ 1 = 2 /\ 2 ^ 2 = 4 /\ 2 ^ 3 = 8 /\ 2 ^ 4 = 16 /\ 2 ^ 5 = 32 /\ 2 ^ 6 = 64
  OBVIOUS
<1> HIDE DEF m
<1>7. m = 1 \/ m = 2 \/ m = 3 \/ m = 4 \/ m = 5 \/ m = 6
  BY <1>5
<1> DEFINE p(k) == 2 ^ k
<1>8. /\ p(1) = 2 /\ p(2) = 4 /\ p(3) = 8 /\ p(4) = 16 /\ p(5) = 32 /\ p(6) = 64
  BY <1>6
<1> HIDE DEF p
<1>9. p(m) \in ElementSizes /\ (n = 1 => p(m) = 64) /\ (n = 0 /\ imms < 32 => p(m) = 32)
  BY <1>5, <1>7, <1>8 DEF ElementSizes
<1>10. SizeFor(n, imms, p(m))
  BY <1>9, Zenon DEF SizeFor
<1> QED BY <1>10, Zenon DEF p, m, x

\* The bits of both masks: wmask holds imms + 1 ones in each element, turned
\* right by immr, tmask the ones up to the place of the last of them.
MaskBits(n, imms, immr, immediate, mk) ==
    \E e \in ElementSizes :
        /\ n = 1 => e = 64
        /\ n = 0 /\ imms < 32 => e = 32
        /\ immediate => imms % e # e - 1
        /\ \A p \in W64 :
              /\ p \in mk.wmask <=> RorFrom(p % e, immr % e, e) <= imms % e
              /\ p \in mk.tmask <=> p % e <= ((imms % e) - (immr % e)) % e

(* The masks that decode_bit_masks makes.                                   *)
LEMMA MasksAre ==
    ASSUME NEW n \in 0 .. 1, NEW imms \in 0 .. 63, NEW immr \in 0 .. 63, NEW immediate \in BOOLEAN,
           NEW mk \in decode_bit_masks(n, imms, immr, immediate)
    PROVE  MaskBits(n, imms, immr, immediate, mk)
<1> DEFINE x == SizeWord(n, imms)
           e == 2 ^ Max(x)
           s == imms % e
           r == immr % e
           diff == (s - r) % e
           rot == Ror(Low(s + 1), r, e)
<1>1. /\ x \notin {{}, {0}} /\ ~ (immediate /\ s = e - 1)
      /\ mk = [wmask |-> Replicate(rot, e), tmask |-> Replicate(Low(diff + 1), e)]
  <2>1. decode_bit_masks(n, imms, immr, immediate)
          = IF x \in {{}, {0}} \/ (immediate /\ s = e - 1) THEN {}
            ELSE {[wmask |-> Replicate(rot, e), tmask |-> Replicate(Low(diff + 1), e)]}
    BY Zenon DEF decode_bit_masks, SizeWord
  <2> HIDE DEF x, e, s, r, diff, rot
  <2> QED BY <2>1
<1>2. e \in ElementSizes /\ (n = 1 => e = 64) /\ (n = 0 /\ imms < 32 => e = 32)
  <2>1. SizeWord(n, imms) \notin {{}, {0}}
    BY <1>1
  <2> HIDE DEF x
  <2>2. SizeFor(n, imms, 2 ^ Max(SizeWord(n, imms)))
    BY <2>1, ElementSize, Zenon
  <2>3. SizeFor(n, imms, e)
    BY <2>2, Zenon DEF x
  <2> HIDE DEF e
  <2> QED BY <2>3, Zenon DEF SizeFor
<1> HIDE DEF x, e
<1>3. e \in Nat \ {0}
  BY <1>2 DEF ElementSizes
<1>4. s \in 0 .. e - 1 /\ r \in 0 .. e - 1
  BY <1>3, DivModOf
<1>5. diff \in 0 .. e - 1
  <2> DEFINE k == s - r
  <2>1. k \in Int
    BY <1>3, <1>4
  <2> HIDE DEF k
  <2>2. k % e \in 0 .. e - 1
    BY <1>3, <2>1, DivModOf
  <2> QED BY <2>2 DEF k
<1> HIDE DEF s, r, diff, rot
<1>6. ASSUME NEW p \in W64
      PROVE  /\ p \in mk.wmask <=> RorFrom(p % e, r, e) <= s
             /\ p \in mk.tmask <=> p % e <= diff
  <2> DEFINE j == p % e
  <2>1. p \in Nat
    BY DEF W64, Low
  <2>2. j \in 0 .. e - 1
    BY <1>3, <2>1, DivModOf
  <2>3. (p \in mk.wmask <=> j \in rot) /\ (p \in mk.tmask <=> j \in Low(diff + 1))
    BY <1>1 DEF Replicate
  <2> HIDE DEF j
  <2>4. j \in Low(e) /\ Low(s + 1) \in Word(e)
    BY <1>3, <1>4, <2>2 DEF Low, Word
  <2>5. j \in rot <=> RorFrom(j, r, e) \in Low(s + 1)
    BY <1>3, <1>4, <2>4, InRor DEF rot
  <2>6. RorFrom(j, r, e) \in 0 .. e - 1
    BY <1>3, <1>4, <2>2 DEF RorFrom
  <2>7. RorFrom(j, r, e) \in Low(s + 1) <=> RorFrom(j, r, e) <= s
    BY <1>4, <2>6 DEF Low
  <2>8. j \in Low(diff + 1) <=> j <= diff
    BY <1>5, <2>2 DEF Low
  <2> QED BY <2>3, <2>5, <2>7, <2>8 DEF j
<1> QED BY <1>1, <1>2, <1>6, Zenon DEF s, r, diff, MaskBits

\* The fields decode_bit_masks reads.
MaskFields(n, imms, immr) == n \in 0 .. 1 /\ imms \in 0 .. 63 /\ immr \in 0 .. 63

\* The mask is a rotated run of ones at either width.
RunMask(mk) == \A w \in {32, 64} : RotatedRun(mk.wmask \cap Low(w), w)

(* A logical immediate is a run of ones, turned and repeated.               *)
LEMMA ImmediateRuns ==
    ASSUME NEW n, NEW imms, NEW immr, MaskFields(n, imms, immr),
           NEW mk \in decode_bit_masks(n, imms, immr, TRUE)
    PROVE  RunMask(mk)
<1> SUFFICES ASSUME NEW w \in {32, 64} PROVE RotatedRun(mk.wmask \cap Low(w), w)
  BY DEF RunMask
<1>0. n \in 0 .. 1 /\ imms \in 0 .. 63 /\ immr \in 0 .. 63
  BY DEF MaskFields
<1>1. PICK e \in ElementSizes :
        /\ imms % e # e - 1
        /\ \A p \in W64 : p \in mk.wmask <=> RorFrom(p % e, immr % e, e) <= imms % e
  <2>1. MaskBits(n, imms, immr, TRUE, mk)
    BY <1>0, MasksAre, Zenon
  <2> QED BY <2>1, Zenon DEF MaskBits
<1>2. e \in Nat \ {0}
  BY DEF ElementSizes
<1> DEFINE ones == (imms % e) + 1
           rot  == immr % e
           imm  == mk.wmask \cap Low(w)
<1>3. ones \in 1 .. e - 1 /\ rot \in 0 .. e - 1 /\ ones = (imms % e) + 1
  <2>1. imms % e \in 0 .. e - 1 /\ immr % e \in 0 .. e - 1
    BY <1>0, <1>2, DivModOf
  <2> QED BY <1>1, <1>2, <2>1
<1>4. ASSUME NEW p \in Low(w) PROVE p \in mk.wmask <=> (p + rot) % e < ones
  <2>1. p \in W64 /\ p \in Nat
    BY DEF W64, Low
  <2>2. p \in mk.wmask <=> RorFrom(p % e, rot, e) <= imms % e
    BY <1>1, <2>1
  <2>3. p % e \in 0 .. e - 1 /\ (p + rot) % e = RorFrom(p % e, rot, e)
    <3> HIDE DEF rot
    <3> QED BY <1>2, <1>3, <2>1, ModTurn
  <2> DEFINE u == RorFrom(p % e, rot, e)
             s == imms % e
  <2>4. u \in Int /\ s \in Int
    BY <1>0, <1>2, <1>3, <2>3 DEF RorFrom
  <2> HIDE DEF u, s
  <2>5. u <= s <=> u < s + 1
    BY <2>4
  <2> QED BY <2>2, <2>3, <2>5 DEF u, s
<1> HIDE DEF ones, rot
<1>5. imm \cap Low(w) = {p \in Low(w) : (p + rot) % e < ones}
  BY <1>4
<1> HIDE DEF imm
<1>6. e \in {2, 4, 8, 16, 32, 64}
  BY DEF ElementSizes
<1>7. RotatedRun(imm, w)
  <2> DEFINE Run(k, o, t) == imm \cap Low(w) = {p \in Low(w) : (p + t) % k < o}
  <2>1. Run(e, ones, rot)
    BY <1>5
  <2> HIDE DEF Run
  <2>2. \E k \in {2, 4, 8, 16, 32, 64} : \E o \in 1 .. k - 1, t \in 0 .. k - 1 : Run(k, o, t)
    BY <1>3, <1>6, <2>1, Zenon
  <2> QED BY <2>2, Zenon DEF RotatedRun, Run
<1> QED BY <1>7 DEF imm

\* The bits of an operand, and the place of the last bit of a field once it is moved.
Width(sf64) == IF sf64 THEN 64 ELSE 32
LastBit(i) == i.imms - i.immr + IF i.imms >= i.immr THEN 0 ELSE Width(i.sf)

\* A bit field move is within its width, and its masks cut out its field.
Masked(i) ==
    LET w == Width(i.sf)
    IN  /\ i.immr < w /\ i.imms < w
        /\ \A p \in Low(w) : /\ p \in i.wmask <=> RorFrom(p, i.immr, w) <= i.imms
                             /\ p \in i.tmask <=> p <= LastBit(i)

(* The masks of a bit field of the whole width.                             *)
LEMMA FieldMasks ==
    ASSUME NEW n, NEW i, MaskFields(n, i.imms, i.immr),
           NEW mk \in decode_bit_masks(n, i.imms, i.immr, FALSE),
           i.sf \in BOOLEAN, i.sf <=> n = 1, i.immr < Width(i.sf), i.imms < Width(i.sf),
           i.wmask = mk.wmask, i.tmask = mk.tmask
    PROVE  Masked(i)
<1> DEFINE imms == i.imms
           immr == i.immr
<1>0. /\ n \in 0 .. 1 /\ imms \in 0 .. 63 /\ immr \in 0 .. 63
      /\ mk \in decode_bit_masks(n, imms, immr, FALSE) /\ imms = i.imms /\ immr = i.immr
      /\ immr < Width(i.sf) /\ imms < Width(i.sf)
  BY DEF MaskFields
<1> HIDE DEF imms, immr
<1> DEFINE w == Width(i.sf)
<1>1. \A p \in W64 : /\ p \in mk.wmask <=> RorFrom(p % w, immr % w, w) <= imms % w
                     /\ p \in mk.tmask <=> p % w <= ((imms % w) - (immr % w)) % w
  <2>1. PICK e \in ElementSizes :
          /\ n = 1 => e = 64
          /\ n = 0 /\ imms < 32 => e = 32
          /\ \A p \in W64 : /\ p \in mk.wmask <=> RorFrom(p % e, immr % e, e) <= imms % e
                            /\ p \in mk.tmask <=> p % e <= ((imms % e) - (immr % e)) % e
    <3>1. MaskBits(n, imms, immr, FALSE, mk)
      BY <1>0, MasksAre, Zenon
    <3> QED BY <3>1, Zenon DEF MaskBits
  <2>2. e = w
    BY <1>0, <2>1 DEF Width
  <2> QED BY <2>1, <2>2
<1>2. w \in {32, 64}
  BY DEF Width
<1>3. immr \in 0 .. w - 1 /\ imms \in 0 .. w - 1
  BY <1>0, <1>2
<1>4. imms % w = imms /\ immr % w = immr
  BY <1>2, <1>3
<1>5. (imms - immr) % w = LastBit(i)
  <2>1. LastBit(i) = imms - immr + IF imms >= immr THEN 0 ELSE w
    BY <1>0, Zenon DEF LastBit
  <2> HIDE DEF w
  <2> QED BY <1>2, <1>3, <2>1
<1>6. ASSUME NEW p \in Low(w) PROVE p % w = p /\ p \in W64
  BY <1>2 DEF Low, W64
<1> HIDE DEF w
<1> QED BY <1>0, <1>1, <1>3, <1>4, <1>5, <1>6 DEF Masked, w

-----------------------------------------------------------------------------
(* The instructions, variant by variant.                                    *)

PcRels       == [op: {"PcRel"}, page: BOOLEAN, imm: Word(64), rd: Reg]
AddSubImms   == [op: {"AddSubImm"}, sf: BOOLEAN, sub: BOOLEAN, set_flags: BOOLEAN,
                 shift12: BOOLEAN, imm12: Imm12, rn: Reg, rd: Reg]
LogicalImms  == {i \in [op: {"LogicalImm"}, sf: BOOLEAN, opc: 0 .. 3, imm: Word(64), rn: Reg, rd: Reg] :
                     RotatedRun(i.imm, Width(i.sf))}
MoveWides    == [op: {"MoveWide"}, sf: BOOLEAN, opc: {0, 2, 3}, hw: 0 .. 3, imm16: Word(16), rd: Reg]
Bitfields    == {i \in [op: {"Bitfield"}, sf: BOOLEAN, opc: 0 .. 2, wmask: Word(64), tmask: Word(64),
                        immr: 0 .. 63, imms: 0 .. 63, rn: Reg, rd: Reg] : Masked(i)}
Extracts     == {i \in [op: {"Extract"}, sf: BOOLEAN, rm: Reg, rn: Reg, lsb: 0 .. 63, rd: Reg] :
                     i.sf \/ i.lsb < 32}
LogicalRegs  == [op: {"LogicalShiftedReg"}, sf: BOOLEAN, opc: 0 .. 3, negate: BOOLEAN,
                 shift: ShiftType, amount: 0 .. 63, rm: Reg, rn: Reg, rd: Reg]
AddSubShifts == [op: {"AddSubShiftedReg"}, sf: BOOLEAN, sub: BOOLEAN, set_flags: BOOLEAN,
                 shift: ShiftType, amount: 0 .. 63, rm: Reg, rn: Reg, rd: Reg]
AddSubExts   == [op: {"AddSubExtReg"}, sf: BOOLEAN, sub: BOOLEAN, set_flags: BOOLEAN,
                 option: 0 .. 7, imm3: 0 .. 4, rm: Reg, rn: Reg, rd: Reg]
AddSubCarrys == [op: {"AddSubCarry"}, sf: BOOLEAN, sub: BOOLEAN, set_flags: BOOLEAN,
                 rm: Reg, rn: Reg, rd: Reg]
CondCompares == [op: {"CondCompare"}, sf: BOOLEAN, sub: BOOLEAN, is_imm: BOOLEAN, imm_y: Reg,
                 rm: Reg, cond: 0 .. 15, nzcv: Word(4), rn: Reg]
CondSelects  == [op: {"CondSelect"}, sf: BOOLEAN, op1: BOOLEAN, o2: BOOLEAN, cond: 0 .. 15,
                 rm: Reg, rn: Reg, rd: Reg]
DataProc1s   == [op: {"DataProc1Src"}, sf: BOOLEAN, opcode: 0 .. 5, rn: Reg, rd: Reg]
DataProc2s   == [op: {"DataProc2Src"}, sf: BOOLEAN, opcode: {2, 3, 8, 9, 10, 11} \cup 16 .. 23,
                 rm: Reg, rn: Reg, rd: Reg]
DataProc3s   == {i \in [op: {"DataProc3Src"}, sf: BOOLEAN, op31: {0, 1, 2, 5, 6}, o0: BOOLEAN,
                        rm: Reg, ra: Reg, rn: Reg, rd: Reg] : i.sf \/ i.op31 = 0}

BranchImms     == [op: {"BranchImm"}, link: BOOLEAN, offset: Word(64)]
CompareBranchs == [op: {"CompareBranch"}, sf: BOOLEAN, negate: BOOLEAN, rt: Reg, offset: Word(64)]
TestBranchs    == [op: {"TestBranch"}, bit: 0 .. 63, negate: BOOLEAN, rt: Reg, offset: Word(64)]
CondBranchs    == [op: {"CondBranch"}, cond: 0 .. 15, offset: Word(64)]
BranchRegs     == [op: {"BranchReg"}, opc: 0 .. 2, rn: Reg]

\* What decode makes of a PC-relative address: the fields it reads are in range.
LEMMA PcRelKind == \A w \in SUBSET W32 : PcRelOf(w) \in PcRels
<1> SUFFICES ASSUME NEW w \in SUBSET W32 PROVE PcRelOf(w) \in PcRels
  OBVIOUS
<1> DEFINE raw == Sext(Shl(Slice(w, 5, 19), 2, 64) \cup Slice(w, 29, 2), 21, 64)
           imm == IF 31 \in w THEN Shl(raw, 12, 64) ELSE raw
<1>1. imm \in Word(64)
  <2>1. raw \in Word(64)
    BY SextWord
  <2>2. Shl(raw, 12, 64) \in Word(64)
    BY ShlWord
  <2> QED BY <2>1, <2>2
<1>2. Rd(w) \in Reg
  BY Registers
<1>3. PcRelOf(w) = [op |-> "PcRel", page |-> 31 \in w, imm |-> imm, rd |-> Rd(w)]
  BY DEF PcRelOf
<1> HIDE DEF imm
<1> QED BY <1>1, <1>2, <1>3 DEF PcRels

\* What decode makes of an addition with an immediate: the fields it reads are in range.
LEMMA AddSubImmKind == \A w \in SUBSET W32 : AddSubImmOf(w) \in AddSubImms \cup {Unsupported}
BY Registers, Fields DEF AddSubImmOf, AddSubImms, When, sf

\* The masks of a logical immediate and of a bit field are 64-bit words.
LEMMA MaskWords ==
    ASSUME NEW n, NEW imms, NEW immr, NEW immediate, NEW m \in decode_bit_masks(n, imms, immr, immediate)
    PROVE  m.wmask \in Word(64) /\ m.tmask \in Word(64)
BY DEF decode_bit_masks, Replicate, Word, W64

\* What decode makes of a logical immediate: the fields it reads are in range.
LEMMA LogicalImmKind == \A w \in SUBSET W32 : LogicalImmOf(w) \in LogicalImms \cup {Unsupported}
<1> SUFFICES ASSUME NEW w \in SUBSET W32 PROVE LogicalImmOf(w) \in LogicalImms \cup {Unsupported}
  OBVIOUS
<1> DEFINE masks == decode_bit_masks(field(w, 22, 1), field(w, 10, 6), field(w, 16, 6), TRUE)
           imm == (CHOOSE m \in masks : TRUE).wmask \cap Low(WidthOf(w))
<1>1. masks # {} => imm \in Word(64)
  <2> SUFFICES ASSUME masks # {} PROVE (CHOOSE m \in masks : TRUE).wmask \in Word(64)
    BY DEF Word
  <2>1. (CHOOSE m \in masks : TRUE) \in masks
    <3> HIDE DEF masks
    <3> QED OBVIOUS
  <2> QED BY <2>1, MaskWords
<1>4. masks # {} => RotatedRun(imm, Width(sf(w)))
  <2> SUFFICES ASSUME masks # {} PROVE RotatedRun(imm, Width(sf(w)))
    OBVIOUS
  <2> DEFINE m == CHOOSE m \in masks : TRUE
  <2>1. m \in masks
    <3> HIDE DEF masks
    <3> QED OBVIOUS
  <2>2. field(w, 22, 1) \in 0 .. 1 /\ field(w, 10, 6) \in 0 .. 63 /\ field(w, 16, 6) \in 0 .. 63
    BY Fields
  <2>3. WidthOf(w) = Width(sf(w)) /\ (WidthOf(w) = 32 \/ WidthOf(w) = 64)
    BY DEF WidthOf, Width
  <2>4. imm = m.wmask \cap Low(WidthOf(w))
    OBVIOUS
  <2> DEFINE n == field(w, 22, 1)
             imms == field(w, 10, 6)
             immr == field(w, 16, 6)
             wd == WidthOf(w)
  <2>5. /\ MaskFields(n, imms, immr) /\ (wd = 32 \/ wd = 64)
        /\ m \in decode_bit_masks(n, imms, immr, TRUE) /\ wd = Width(sf(w))
        /\ imm = m.wmask \cap Low(wd)
    BY <2>1, <2>2, <2>3, <2>4, Zenon DEF MaskFields
  <2> HIDE DEF m, imm, masks, n, imms, immr, wd
  <2>6. RotatedRun(m.wmask \cap Low(wd), wd)
    <3>1. MaskFields(n, imms, immr)
      BY <2>5, Zenon
    <3>2. m \in decode_bit_masks(n, imms, immr, TRUE)
      BY <2>5, Zenon
    <3>a. RunMask(m)
      BY <3>1, <3>2, ImmediateRuns, Zenon
    <3>3. \A v \in {32, 64} : RotatedRun(m.wmask \cap Low(v), v)
      BY <3>a, Zenon DEF RunMask
    <3>4. wd \in {32, 64}
      BY <2>5
    <3> QED BY <3>3, <3>4, Zenon
  <2> QED BY <2>5, <2>6
<1>2. LogicalImmOf(w) =
        When((sf(w) \/ 22 \notin w) /\ masks # {},
             [op |-> "LogicalImm", sf |-> sf(w), opc |-> field(w, 29, 2), imm |-> imm,
              rn |-> Rn(w), rd |-> Rd(w)])
  BY Zenon DEF LogicalImmOf
<1> HIDE DEF masks, imm
<1>3. Rd(w) \in Reg /\ Rn(w) \in Reg /\ field(w, 29, 2) \in 0 .. 3 /\ sf(w) \in BOOLEAN
  BY Registers, Fields DEF sf
<1> DEFINE r == [op |-> "LogicalImm", sf |-> sf(w), opc |-> field(w, 29, 2), imm |-> imm,
                 rn |-> Rn(w), rd |-> Rd(w)]
<1>5. masks # {} => r \in LogicalImms
  <2> SUFFICES ASSUME masks # {} PROVE r \in LogicalImms
    OBVIOUS
  <2>1. r.imm = imm /\ r.sf = sf(w)
    OBVIOUS
  <2>2. RotatedRun(r.imm, Width(r.sf))
    BY <1>4, <2>1
  <2> QED BY <1>1, <1>3, <2>2 DEF LogicalImms
<1> HIDE DEF r
<1> QED BY <1>2, <1>5 DEF r, When

\* What decode makes of a wide move: the fields it reads are in range.
LEMMA MoveWideKind == \A w \in SUBSET W32 : MoveWideOf(w) \in MoveWides \cup {Unsupported}
BY Registers, Fields, Slices DEF MoveWideOf, MoveWides, When, sf

\* What decode makes of a bit field move: the fields it reads are in range.
LEMMA BitfieldKind == \A w \in SUBSET W32 : BitfieldOf(w) \in Bitfields \cup {Unsupported}
<1> SUFFICES ASSUME NEW w \in SUBSET W32 PROVE BitfieldOf(w) \in Bitfields \cup {Unsupported}
  OBVIOUS
<1> DEFINE immr == field(w, 16, 6)
           imms == field(w, 10, 6)
           masks == decode_bit_masks(field(w, 22, 1), imms, immr, FALSE)
           m == CHOOSE x \in masks : TRUE
<1>1. masks # {} => m.wmask \in Word(64) /\ m.tmask \in Word(64)
  <2> SUFFICES ASSUME masks # {} PROVE m \in masks
    BY MaskWords
  <2> HIDE DEF masks
  <2> QED OBVIOUS
<1>2. BitfieldOf(w) =
        When(/\ sf(w) <=> 22 \in w
             /\ immr < WidthOf(w) /\ imms < WidthOf(w) /\ field(w, 29, 2) <= 2
             /\ masks # {},
             [op |-> "Bitfield", sf |-> sf(w), opc |-> field(w, 29, 2), wmask |-> m.wmask,
              tmask |-> m.tmask, immr |-> immr, imms |-> imms, rn |-> Rn(w), rd |-> Rd(w)])
  BY Zenon DEF BitfieldOf
<1>3. Rd(w) \in Reg /\ Rn(w) \in Reg /\ field(w, 29, 2) \in 0 .. 3 /\ sf(w) \in BOOLEAN
      /\ immr \in 0 .. 63 /\ imms \in 0 .. 63
  BY Registers, Fields DEF sf
<1> DEFINE r == [op |-> "Bitfield", sf |-> sf(w), opc |-> field(w, 29, 2), wmask |-> m.wmask,
                 tmask |-> m.tmask, immr |-> immr, imms |-> imms, rn |-> Rn(w), rd |-> Rd(w)]
           n == field(w, 22, 1)
           fits == /\ sf(w) <=> 22 \in w
                   /\ immr < WidthOf(w) /\ imms < WidthOf(w) /\ field(w, 29, 2) <= 2
                   /\ masks # {}
<1>4. n \in 0 .. 1 /\ (22 \in w <=> n = 1)
  <2>1. n = IF 22 \in w THEN 1 ELSE 0
    BY OneBit
  <2> QED BY <2>1
<1>5. fits => r \in Bitfields
  <2> SUFFICES ASSUME fits PROVE r \in Bitfields
    OBVIOUS
  <2>1. m \in decode_bit_masks(n, imms, immr, FALSE)
    <3>1. m \in masks
      <4> HIDE DEF masks
      <4> QED OBVIOUS
    <3> QED BY <3>1
  <2> HIDE DEF masks, m, immr, imms, n
  <2>2. /\ r.sf = sf(w) /\ r.imms = imms /\ r.immr = immr /\ r.wmask = m.wmask /\ r.tmask = m.tmask
        /\ r.sf \in BOOLEAN
    BY <1>3
  <2>3. /\ r.sf <=> n = 1
        /\ immr < Width(r.sf) /\ imms < Width(r.sf)
    BY <1>4, <2>2 DEF WidthOf, Width
  <2>4. Masked(r)
    <3> HIDE DEF r
    <3>1. MaskFields(n, r.imms, r.immr) /\ m \in decode_bit_masks(n, r.imms, r.immr, FALSE)
      BY <1>3, <1>4, <2>1, <2>2 DEF MaskFields
    <3>2. r.immr < Width(r.sf) /\ r.imms < Width(r.sf)
      BY <2>2, <2>3
    <3> QED BY <2>2, <2>3, <3>1, <3>2, FieldMasks, Zenon
  <2> QED BY <1>1, <1>3, <2>4 DEF Bitfields
<1>6. BitfieldOf(w) = When(fits, r)
  BY <1>2
<1> HIDE DEF r, fits
<1> QED BY <1>5, <1>6 DEF When

\* What decode makes of an extraction: the fields it reads are in range.
LEMMA ExtractKind == \A w \in SUBSET W32 : ExtractOf(w) \in Extracts \cup {Unsupported}
<1> SUFFICES ASSUME NEW w \in SUBSET W32 PROVE ExtractOf(w) \in Extracts \cup {Unsupported}
  OBVIOUS
<1> DEFINE lsb == field(w, 10, 6)
<1>1. lsb \in 0 .. 63 /\ Rm(w) \in Reg /\ Rn(w) \in Reg /\ Rd(w) \in Reg /\ (31 \in w) \in BOOLEAN
  BY Registers, Fields
<1>2. ExtractOf(w) = Unsupported \/
      /\ lsb < IF 31 \in w THEN 64 ELSE 32
      /\ ExtractOf(w) = [op |-> "Extract", sf |-> 31 \in w, rm |-> Rm(w), rn |-> Rn(w),
                         lsb |-> lsb, rd |-> Rd(w)]
  BY DEF ExtractOf, When, sf, WidthOf
<1> HIDE DEF lsb
<1> DEFINE r == [op |-> "Extract", sf |-> 31 \in w, rm |-> Rm(w), rn |-> Rn(w), lsb |-> lsb,
                 rd |-> Rd(w)]
<1>3. r \in [op: {"Extract"}, sf: BOOLEAN, rm: Reg, rn: Reg, lsb: 0 .. 63, rd: Reg]
      /\ r.sf = (31 \in w) /\ r.lsb = lsb
  BY <1>1
<1>4. CASE lsb < IF 31 \in w THEN 64 ELSE 32
  <2>1. r.sf \/ r.lsb < 32
    BY <1>3, <1>4
  <2> HIDE DEF r
  <2>2. r \in Extracts
    BY <1>3, <2>1 DEF Extracts
  <2> QED BY <1>2, <2>2 DEF r
<1> QED BY <1>2, <1>4

\* What decode makes of data processing with an immediate: the fields it reads are in range.
LEMMA DpImmKind ==
    ASSUME NEW w \in SUBSET W32
    PROVE  DpImm(w) \in PcRels \cup AddSubImms \cup LogicalImms \cup MoveWides \cup Bitfields
                            \cup Extracts \cup {Unsupported}
BY PcRelKind, AddSubImmKind, LogicalImmKind, MoveWideKind, BitfieldKind, ExtractKind DEF DpImm

\* What decode makes of a shift: the fields it reads are in range.
LEMMA ShiftKind == \A w : ShiftOf(w) \in ShiftType
BY DEF ShiftOf, ShiftType

\* What decode makes of a logical operation on registers: the fields it reads are in range.
LEMMA LogicalRegKind == \A w \in SUBSET W32 : LogicalRegOf(w) \in LogicalRegs \cup {Unsupported}
BY Registers, Fields, ShiftKind DEF LogicalRegOf, LogicalRegs, When, sf

\* What decode makes of an addition with a shifted register: the fields it reads are in range.
LEMMA AddSubShiftKind ==
    \A w \in SUBSET W32 : AddSubShiftedRegOf(w) \in AddSubShifts \cup {Unsupported}
BY Registers, Fields, ShiftKind DEF AddSubShiftedRegOf, AddSubShifts, When, sf

\* What decode makes of an addition with an extended register: the fields it reads are in range.
LEMMA AddSubExtKind == \A w \in SUBSET W32 : AddSubExtRegOf(w) \in AddSubExts \cup {Unsupported}
BY Registers, Fields DEF AddSubExtRegOf, AddSubExts, When, sf

\* What decode makes of an addition with carry: the fields it reads are in range.
LEMMA AddSubCarryKind == \A w \in SUBSET W32 : AddSubCarryOf(w) \in AddSubCarrys \cup {Unsupported}
BY Registers, Fields DEF AddSubCarryOf, AddSubCarrys, When, sf

\* What decode makes of a conditional comparison: the fields it reads are in range.
LEMMA CondCompareKind == \A w \in SUBSET W32 : CondCompareOf(w) \in CondCompares \cup {Unsupported}
BY Registers, Fields, Slices DEF CondCompareOf, CondCompares, When, sf

\* What decode makes of a conditional selection: the fields it reads are in range.
LEMMA CondSelectKind == \A w \in SUBSET W32 : CondSelectOf(w) \in CondSelects \cup {Unsupported}
BY Registers, Fields DEF CondSelectOf, CondSelects, When, sf

\* What decode makes of an operation with one source: the fields it reads are in range.
LEMMA DataProc1Kind == \A w \in SUBSET W32 : DataProc1SrcOf(w) \in DataProc1s \cup {Unsupported}
BY Registers, Fields DEF DataProc1SrcOf, DataProc1s, When, sf

\* What decode makes of an operation with two sources: the fields it reads are in range.
LEMMA DataProc2Kind == \A w \in SUBSET W32 : DataProc2SrcOf(w) \in DataProc2s \cup {Unsupported}
BY Registers, Fields DEF DataProc2SrcOf, DataProc2s, When, sf

\* What decode makes of an operation with three sources: the fields it reads are in range.
LEMMA DataProc3Kind == \A w \in SUBSET W32 : DataProc3SrcOf(w) \in DataProc3s \cup {Unsupported}
<1> SUFFICES ASSUME NEW w \in SUBSET W32 PROVE DataProc3SrcOf(w) \in DataProc3s \cup {Unsupported}
  OBVIOUS
<1> DEFINE op31 == field(w, 21, 3)
           r    == [op |-> "DataProc3Src", sf |-> sf(w), op31 |-> op31, o0 |-> 15 \in w,
                    rm |-> Rm(w), ra |-> field(w, 10, 5), rn |-> Rn(w), rd |-> Rd(w)]
<1>1. /\ Rm(w) \in Reg /\ Rn(w) \in Reg /\ Rd(w) \in Reg /\ field(w, 10, 5) \in Reg
      /\ sf(w) \in BOOLEAN /\ (15 \in w) \in BOOLEAN
  BY Registers, Fields DEF sf
<1>2. DataProc3SrcOf(w) = Unsupported
      \/ (DataProc3SrcOf(w) = r /\ op31 \in {0, 1, 2, 5, 6} /\ (sf(w) \/ op31 = 0))
  BY Zenon DEF DataProc3SrcOf, When
<1> HIDE DEF op31
<1>3. CASE op31 \in {0, 1, 2, 5, 6} /\ (sf(w) \/ op31 = 0)
  <2>1. r \in [op: {"DataProc3Src"}, sf: BOOLEAN, op31: {0, 1, 2, 5, 6}, o0: BOOLEAN,
               rm: Reg, ra: Reg, rn: Reg, rd: Reg] /\ r.sf = sf(w) /\ r.op31 = op31
    BY <1>1, <1>3
  <2> HIDE DEF r
  <2>2. r \in DataProc3s
    BY <1>3, <2>1 DEF DataProc3s
  <2> QED BY <1>2, <2>2
<1> QED BY <1>2, <1>3

\* What decode makes of data processing on registers: the fields it reads are in range.
LEMMA DpRegKind ==
    ASSUME NEW w \in SUBSET W32
    PROVE  DpReg(w) \in LogicalRegs \cup AddSubShifts \cup AddSubExts \cup AddSubCarrys
                            \cup CondCompares \cup CondSelects \cup DataProc1s \cup DataProc2s
                            \cup DataProc3s \cup {Unsupported}
BY LogicalRegKind, AddSubShiftKind, AddSubExtKind, AddSubCarryKind, CondCompareKind,
   CondSelectKind, DataProc1Kind, DataProc2Kind, DataProc3Kind DEF DpReg

\* The offset of a branch is a 64-bit word.
LEMMA OffsetWord ==
    ASSUME NEW w, NEW lsb, NEW len
    PROVE  Offset(w, lsb, len) \in Word(64)
BY ShlWord DEF Offset

\* What decode makes of an immediate branch: the fields it reads are in range.
LEMMA BranchImmKind == \A w \in SUBSET W32 : BranchImmOf(w) \in BranchImms
BY OffsetWord DEF BranchImmOf, BranchImms

\* What decode makes of a compare and branch: the fields it reads are in range.
LEMMA CompareBranchKind == \A w \in SUBSET W32 : CompareBranchOf(w) \in CompareBranchs
BY OffsetWord, Registers DEF CompareBranchOf, CompareBranchs, sf

\* What decode makes of a test and branch: the fields it reads are in range.
LEMMA TestBranchKind == \A w \in SUBSET W32 : TestBranchOf(w) \in TestBranchs
<1> SUFFICES ASSUME NEW w \in SUBSET W32 PROVE TestBranchOf(w) \in TestBranchs
  OBVIOUS
<1>1. field(w, 31, 1) \in 0 .. 1 /\ field(w, 19, 5) \in 0 .. 31
  BY Fields DEF Reg
<1>2. 32 * field(w, 31, 1) + field(w, 19, 5) \in 0 .. 63
  BY <1>1
<1> QED BY <1>2, OffsetWord, Registers DEF TestBranchOf, TestBranchs

\* What decode makes of a conditional branch: the fields it reads are in range.
LEMMA CondBranchKind == \A w \in SUBSET W32 : CondBranchOf(w) \in CondBranchs \cup {Unsupported}
BY OffsetWord, Fields DEF CondBranchOf, CondBranchs, When

\* What decode makes of a branch to a register: the fields it reads are in range.
LEMMA BranchRegKind ==
    \A w \in SUBSET W32 : BranchRegOf(w) \in BranchRegs \cup {[op |-> "Eret"], Unsupported}
BY Fields, Registers DEF BranchRegOf, BranchRegs, When

\* The instructions of these groups the model has no semantics for.
SystemNames == {"Unsupported", "Eret", "Svc", "Hvc", "Smc", "Brk", "Wfe", "Wfi", "MsrImm", "DcZva",
                "Tlbi", "Ic", "SysRegMove"}
Hints == [op: {"Nop", "Prfm"}]

\* What decode makes of a system instruction: the fields it reads are in range.
LEMMA SystemKind ==
    ASSUME NEW w \in SUBSET W32
    PROVE  SystemOf(w) \in Hints \/ SystemOf(w).op \in SystemNames
<1>1. HintOf(w) \in Hints \/ HintOf(w).op \in SystemNames
  BY DEF HintOf, Hints, SystemNames, When, Unsupported
<1>2. SysOf(w) \in Hints \/ SysOf(w).op \in SystemNames
  BY DEF SysOf, Hints, SystemNames
<1> QED BY <1>1, <1>2 DEF SystemOf, SystemNames

\* What decode makes of the branch group: the fields it reads are in range.
LEMMA BranchKind ==
    ASSUME NEW w \in SUBSET W32
    PROVE  \/ Branch(w) \in BranchImms \cup CompareBranchs \cup TestBranchs \cup CondBranchs
                                \cup BranchRegs \cup Hints
           \/ Branch(w).op \in SystemNames
<1>1. TrapOf(w).op \in SystemNames
  BY DEF TrapOf, SystemNames, Unsupported
<1>2. Unsupported.op \in SystemNames /\ [op |-> "Eret"].op \in SystemNames
  BY DEF SystemNames, Unsupported
<1> QED BY <1>1, <1>2, BranchImmKind, CompareBranchKind, TestBranchKind, CondBranchKind,
           BranchRegKind, SystemKind DEF Branch
-----------------------------------------------------------------------------
(* The vector variants.                                                     *)

ThreeRegs(name)  == [op: {name}, q: BOOLEAN, u: BOOLEAN, size: 0 .. 3, opcode: 0 .. 31,
                     rm: Reg, rn: Reg, rd: Reg]
TwoRegs(name)    == [op: {name}, q: BOOLEAN, u: BOOLEAN, size: 0 .. 3, opcode: 0 .. 31,
                     rn: Reg, rd: Reg]
AcrossLanes      == {i \in TwoRegs("SimdAcrossLanes") : i.opcode \in {3, 10, 26, 27} /\ i.size <= 2}
InsElements      == [op: {"SimdInsElement"}, size: 0 .. 3, dst: Reg, src: Reg, rn: Reg, rd: Reg]
DupElements      == [op: {"SimdDupElement"}, q: BOOLEAN, size: 0 .. 3, index: Reg, rn: Reg, rd: Reg]
DupGenerals      == [op: {"SimdDupGeneral"}, q: BOOLEAN, size: 0 .. 3, rn: Reg, rd: Reg]
InsGenerals      == [op: {"SimdInsGeneral"}, size: 0 .. 3, index: Reg, rn: Reg, rd: Reg]
MovToGprs        == [op: {"SimdMovToGpr"}, signed: BOOLEAN, dst64: BOOLEAN, size: 0 .. 3,
                     index: Reg, vn: Reg, rd: Reg]
Copies           == InsElements \cup DupElements \cup DupGenerals \cup InsGenerals \cup MovToGprs
Exts             == [op: {"SimdExt"}, q: BOOLEAN, imm4: 0 .. 15, rm: Reg, rn: Reg, rd: Reg]
\* The keys of the integer operations by element, and those of scalars.
Key(i)           == (IF i.u THEN 16 ELSE 0) + i.opcode
IndexedKeys      == {14, 30, 8, 16, 20, 2, 18, 6, 22, 10, 26, 3, 7, 11, 12, 13, 29, 31}
Indexeds         == {i \in [op: {"SimdIndexed"}, q: BOOLEAN, u: BOOLEAN, size: 0 .. 3,
                            opcode: 0 .. 15, index: 0 .. 7, rm: Reg, rn: Reg, rd: Reg] :
                        Key(i) \in IndexedFp \cup IndexedKeys}
ModImms          == [op: {"SimdModImm"}, q: BOOLEAN, op1: BOOLEAN, cmode: 0 .. 15, imm8: Word(8),
                     rd: Reg]
ShiftImms        == [op: {"SimdShiftImm"}, q: BOOLEAN, u: BOOLEAN, immh: 1 .. 15, immb: 0 .. 7,
                     opcode: 0 .. 31, rn: Reg, rd: Reg]
TableLookups     == [op: {"SimdTableLookup"}, q: BOOLEAN, is_tbx: BOOLEAN, len: 0 .. 3,
                     rm: Reg, rn: Reg, rd: Reg]
ZipTrns          == [op: {"SimdZipTrn"}, q: BOOLEAN, size: 0 .. 3, opcode: 0 .. 7,
                     rm: Reg, rn: Reg, rd: Reg]

ScalarThreeSames    == [op: {"SimdScalarThreeSame"}, u: BOOLEAN, size: 0 .. 3, opcode: 0 .. 31,
                        rm: Reg, rn: Reg, rd: Reg]
ScalarTwoRegMiscs   == [op: {"SimdScalarTwoRegMisc"}, u: BOOLEAN, size: 0 .. 3, opcode: 0 .. 31,
                        rn: Reg, rd: Reg]
ScalarPairwises     == [op: {"SimdScalarPairwise"}, u: BOOLEAN, size: 0 .. 3, opcode: 0 .. 31,
                        rn: Reg, rd: Reg]
ScalarThreeDiffs    == [op: {"SimdScalarThreeDiff"}, size: 1 .. 2, opcode: 0 .. 15,
                        rm: Reg, rn: Reg, rd: Reg]
ScalarCopies        == [op: {"SimdScalarCopy"}, imm5: 1 .. 31 \ {16}, rn: Reg, rd: Reg]
ScalarIndexeds      == {i \in [op: {"SimdScalarIndexed"}, u: BOOLEAN, size: 0 .. 3,
                               opcode: 0 .. 15, index: 0 .. 7, rm: Reg, rn: Reg, rd: Reg] :
                           Key(i) \in IndexedFp \/ i.size <= 2}
ScalarShiftImms     == [op: {"SimdScalarShiftImm"}, u: BOOLEAN, immh: 1 .. 15, immb: 0 .. 7,
                        opcode: 0 .. 31, rn: Reg, rd: Reg]

\* The variants without a semantics in the model.
OtherNames == SystemNames \cup
    {"CryptoAes", "CryptoSha2", "CryptoSha3", "SimdThreeSameFp", "SimdTwoRegMiscFp"} \cup
    {"FpCvtInt", "FpCvtFixed", "FpDataProc1", "FpDataProc2", "FpDataProc3", "FpCompare", "FpImm",
     "FpCondSelect", "FpCondCompare"} \cup
    {"LoadStore", "LoadStorePair", "AtomicRmw", "CompareSwap", "CompareSwapPair", "LoadExclusive",
     "StoreExclusive", "LoadExclusivePair", "StoreExclusivePair", "SimdLdStMulti", "SimdLdStSingle"}

\* What decode makes of a vector instruction with three registers: the fields it reads are in range.
LEMMA ThreeKind ==
    ASSUME NEW w \in SUBSET W32, NEW name, NEW opcode \in 0 .. 31
    PROVE  Three(name, w, opcode) \in ThreeRegs(name)
BY Registers, Fields DEF Three, ThreeRegs, Q, U, Esize

\* What decode makes of a vector instruction with two registers: the fields it reads are in range.
LEMMA TwoKind ==
    ASSUME NEW w \in SUBSET W32, NEW name, NEW opcode \in 0 .. 31
    PROVE  Two(name, w, opcode) \in TwoRegs(name)
BY Registers, Fields DEF Two, TwoRegs, Q, U, Esize

\* What decode makes of an operation across lanes: the fields it reads are in range.
LEMMA AcrossKind == \A w \in SUBSET W32 : AcrossOf(w) \in AcrossLanes \cup {Unsupported}
<1> SUFFICES ASSUME NEW w \in SUBSET W32 PROVE AcrossOf(w) \in AcrossLanes \cup {Unsupported}
  OBVIOUS
<1>1. Op5(w) \in 0 .. 31
  BY Fields DEF Op5, Reg
<1>2. Two("SimdAcrossLanes", w, Op5(w)) \in TwoRegs("SimdAcrossLanes")
  BY <1>1, TwoKind
<1>3. Two("SimdAcrossLanes", w, Op5(w)).opcode = Op5(w)
      /\ Two("SimdAcrossLanes", w, Op5(w)).size = Esize(w)
  BY DEF Two
<1>4. Op5(w) \in {3, 10, 26, 27} /\ Esize(w) <= 2
      => Two("SimdAcrossLanes", w, Op5(w)) \in AcrossLanes
  BY <1>2, <1>3 DEF AcrossLanes
<1> QED BY <1>4 DEF AcrossOf, When

\* What decode makes of EXT: the fields it reads are in range.
LEMMA ExtKind == \A w \in SUBSET W32 : ExtOf(w) \in Exts \cup {Unsupported}
BY Registers, Fields DEF ExtOf, Exts, When, Q

\* The key of an operation by element is its opcode, with U above it.
LEMMA KeyRead ==
    ASSUME NEW w \in SUBSET W32
    PROVE  IndexedKey(w) = (IF U(w) THEN 16 ELSE 0) + field(w, 12, 4)
<1> DEFINE s == Slice(w, 29, 1)
<1>1. w \subseteq Int
  BY DEF W32, Low
<1>2. /\ s \in Word(1) /\ \A k \in Int : k \in s <=> k \in Low(1) /\ k + 29 \in w
  <2>1. 29 \in Nat /\ 1 \in Nat
    OBVIOUS
  <2> QED BY <1>1, <2>1, SliceWord, Zenon
<1>3. 29 \in w <=> s # {}
  <2> HIDE DEF s
  <2>1. \A k \in s : k = 0
    BY <1>2 DEF Word, Low
  <2>2. 0 \in s <=> 29 \in w
    <3>1. 0 \in Int /\ 0 \in Low(1) /\ 0 + 29 = 29
      BY DEF Low
    <3> QED BY <1>2, <3>1
  <2> QED BY <2>1, <2>2
<1>4. field(w, 29, 1) = Val(s, 1) /\ field(w, 29, 1) \in 0 .. 1
  <2>1. 29 \in Nat /\ 1 \in 0 .. 31
    OBVIOUS
  <2> QED BY <1>1, <2>1, FieldRange, Fields, Zenon
<1>5. Val(s, 1) = 0 <=> s = {}
  <2>1. 1 \in Nat
    OBVIOUS
  <2> QED BY <1>2, <2>1, ValZero, Zenon
<1> HIDE DEF s
<1>6. field(w, 29, 1) = IF U(w) THEN 1 ELSE 0
  BY <1>3, <1>4, <1>5 DEF U
<1>7. field(w, 12, 4) \in 0 .. 15
  BY Fields
<1> QED BY <1>6, <1>7 DEF IndexedKey


\* What decode makes of an operation by element: the fields it reads are in range.
LEMMA IndexedKind == \A w \in SUBSET W32 : IndexedOf(w) \in Indexeds \cup {Unsupported}
<1> SUFFICES ASSUME NEW w \in SUBSET W32 PROVE IndexedOf(w) \in Indexeds \cup {Unsupported}
  OBVIOUS
<1> DEFINE i == [op |-> "SimdIndexed", q |-> Q(w), u |-> U(w), size |-> Esize(w),
                 opcode |-> field(w, 12, 4), index |-> ElementIndex(w), rm |-> ElementReg(w),
                 rn |-> Rn(w), rd |-> Rd(w)]
<1>1. ElementReg(w) \in Reg /\ Esize(w) \in 0 .. 3
  BY Registers, Fields DEF ElementReg, Esize, Reg
<1>2. Esize(w) \in {1, 2, 3} => ElementIndex(w) \in 0 .. 7
  BY Fields DEF ElementIndex
<1>3. Rn(w) \in Reg /\ Rd(w) \in Reg /\ field(w, 12, 4) \in 0 .. 15
  BY Registers, Fields
<1>4. IndexedOf(w) = Unsupported
      \/ (IndexedOf(w) = i /\ Esize(w) \in {1, 2, 3} /\ IndexedKey(w) \in IndexedFp \cup IndexedKeys)
  BY DEF IndexedOf, IndexedKeys, When
<1>5. Q(w) \in BOOLEAN /\ U(w) \in BOOLEAN
  BY DEF Q, U
<1>6. Key(i) = IndexedKey(w)
  BY KeyRead, Zenon DEF Key
<1>7. ASSUME Esize(w) \in {1, 2, 3}, IndexedKey(w) \in IndexedFp \cup IndexedKeys
      PROVE  i \in Indexeds
  BY <1>1, <1>2, <1>3, <1>5, <1>6, <1>7 DEF Indexeds
<1> HIDE DEF i
<1> QED BY <1>4, <1>7

\* What decode makes of a modified immediate: the fields it reads are in range.
LEMMA ModImmKind == \A w \in SUBSET W32 : ModImmOf(w) \in ModImms \cup {Unsupported}
<1> SUFFICES ASSUME NEW w \in SUBSET W32 PROVE ModImmOf(w) \in ModImms \cup {Unsupported}
  OBVIOUS
<1> DEFINE imm8 == Slice(w, 5, 5) \cup Shl(Slice(w, 16, 3), 5, 8)
<1>1. imm8 \in Word(8)
  <2>1. Slice(w, 5, 5) \in Word(5) /\ Shl(Slice(w, 16, 3), 5, 8) \in Word(8)
    BY Slices, ShlWord
  <2> QED BY <2>1 DEF Word, Low
<1>2. ModImmOf(w) = When(~(field(w, 12, 4) = 15 /\ U(w) /\ ~Q(w)) /\ 11 \notin w,
         [op |-> "SimdModImm", q |-> Q(w), op1 |-> U(w), cmode |-> field(w, 12, 4),
          imm8 |-> imm8, rd |-> Rd(w)])
  BY DEF ModImmOf
<1> HIDE DEF imm8
<1> QED BY <1>1, <1>2, Registers, Fields DEF ModImms, When, Q, U

\* What decode makes of a vector shift by an immediate: the fields it reads are in range.
LEMMA ShiftImmKind ==
    \A w \in SUBSET W32 : field(w, 19, 4) # 0 => ShiftImmOf(w) \in ShiftImms \cup {Unsupported}
BY Registers, Fields DEF ShiftImmOf, ShiftImms, When, Q, U, Reg

\* What decode makes of a table lookup: the fields it reads are in range.
LEMMA TblKind == \A w \in SUBSET W32 : TblOf(w) \in TableLookups
BY Registers, Fields DEF TblOf, TableLookups, Q

\* What decode makes of a widening or narrowing operation: the fields it reads are in range.
LEMMA ThreeDiffKind ==
    \A w \in SUBSET W32 : ThreeDiffOf(w) \in ThreeRegs("SimdThreeDiff") \cup {Unsupported}
BY ThreeKind, Fields DEF ThreeDiffOf, When

\* What decode makes of an operation on like lanes: the fields it reads are in range.
LEMMA ThreeSameKind ==
    \A w \in SUBSET W32 : ThreeSameOf(w) \in ThreeRegs("SimdThreeSame") \cup {Unsupported}
BY ThreeKind, Fields DEF ThreeSameOf, When, Reg

\* What decode makes of a dot product: the fields it reads are in range.
LEMMA ThreeSameExtraKind ==
    \A w \in SUBSET W32 :
        ThreeSameExtraOf(w) \in ThreeRegs("SimdThreeSameExtra") \cup {Unsupported}
BY ThreeKind, Fields DEF ThreeSameExtraOf, When

\* What decode makes of an operation with one vector source: the fields it reads are in range.
LEMMA TwoRegMiscKind ==
    \A w \in SUBSET W32 : \/ TwoRegMiscOf(w) \in TwoRegs("SimdTwoRegMisc") \cup {Unsupported}
                          \/ TwoRegMiscOf(w).op = "SimdTwoRegMiscFp"
BY TwoKind, Fields DEF TwoRegMiscOf, When, Op5, Reg

\* What decode makes of a permutation: the fields it reads are in range.
LEMMA ZipTrnKind == \A w \in SUBSET W32 : ZipTrnOf(w) \in ZipTrns \cup {Unsupported}
BY Registers, Fields DEF ZipTrnOf, ZipTrns, When, Q, Esize

\* The element size and index of a copy are in range.
LEMMA SizeIndex ==
    ASSUME NEW imm5 \in Reg, NEW x \in size_index(imm5)
    PROVE  x[1] \in 0 .. 3 /\ x[2] \in Reg
<1> DEFINE q(i) == imm5 \div 2 ^ (i + 1)
<1>1. PICK i \in 0 .. 3 : x = <<i, q(i)>>
  <2>1. size_index(imm5) = {<<i, q(i)>> : i \in {j \in {i \in 0 .. 3 : (imm5 \div 2^i) % 2 = 1} :
            \A k \in {i \in 0 .. 3 : (imm5 \div 2^i) % 2 = 1} : j <= k}}
    BY DEF size_index
  <2> HIDE DEF q
  <2> QED BY <2>1
<1>2. q(0) \in Reg /\ q(1) \in Reg /\ q(2) \in Reg /\ q(3) \in Reg
  <2>1. 2 ^ (0 + 1) = 2 /\ 2 ^ (1 + 1) = 4 /\ 2 ^ (2 + 1) = 8 /\ 2 ^ (3 + 1) = 16
    BY SMT
  <2>2. imm5 \div 2 \in Reg /\ imm5 \div 4 \in Reg /\ imm5 \div 8 \in Reg /\ imm5 \div 16 \in Reg
    BY DEF Reg
  <2> QED BY <2>1, <2>2
<1> HIDE DEF q
<1> QED BY <1>1, <1>2

\* What decode makes of a copy of an element: the fields it reads are in range.
LEMMA CopyKind == \A w \in SUBSET W32 : CopyOf(w) \in Copies \cup {Unsupported}
<1> SUFFICES ASSUME NEW w \in SUBSET W32 PROVE CopyOf(w) \in Copies \cup {Unsupported}
  OBVIOUS
<1> DEFINE si == size_index(Rm(w))
           x == CHOOSE x \in si : TRUE
           size == x[1]
           idx == x[2]
           imm4 == field(w, 11, 4)
           src == imm4 \div 2 ^ size
<1>1. Rm(w) \in Reg /\ Rn(w) \in Reg /\ Rd(w) \in Reg /\ imm4 \in 0 .. 15 /\ Q(w) \in BOOLEAN
  BY Registers, Fields DEF Q
<1>2. ASSUME si # {} PROVE size \in 0 .. 3 /\ idx \in Reg
  <2>1. x \in si
    <3> HIDE DEF si
    <3> QED BY <1>2
  <2> QED BY <1>1, <2>1, SizeIndex
<1>3. ASSUME size \in 0 .. 3 PROVE src \in Reg
  <2> DEFINE e(k) == 2 ^ k
  <2>1. e(0) = 1 /\ e(1) = 2 /\ e(2) = 4 /\ e(3) = 8 /\ src = imm4 \div e(size)
    BY SMT
  <2>2. imm4 \div 1 \in Reg /\ imm4 \div 2 \in Reg /\ imm4 \div 4 \in Reg /\ imm4 \div 8 \in Reg
    BY <1>1 DEF Reg
  <2> HIDE DEF e, size, imm4, src
  <2>3. size = 0 \/ size = 1 \/ size = 2 \/ size = 3
    BY <1>3
  <2> QED BY <2>1, <2>2, <2>3
<1> DEFINE gpr(signed) == [op |-> "SimdMovToGpr", signed |-> signed, dst64 |-> Q(w), size |-> size,
                           index |-> idx, vn |-> Rn(w), rd |-> Rd(w)]
<1>4. CopyOf(w) =
       When(si # {},
             IF U(w) THEN When(Q(w), [op |-> "SimdInsElement", size |-> size, dst |-> idx,
                                      src |-> src, rn |-> Rn(w), rd |-> Rd(w)])
             ELSE CASE imm4 = 0 -> When(size = 3 => Q(w),
                            [op |-> "SimdDupElement", q |-> Q(w), size |-> size, index |-> idx,
                             rn |-> Rn(w), rd |-> Rd(w)])
                    [] imm4 = 1 -> When(size = 3 => Q(w),
                            [op |-> "SimdDupGeneral", q |-> Q(w), size |-> size,
                             rn |-> Rn(w), rd |-> Rd(w)])
                    [] imm4 = 3 -> When(Q(w), [op |-> "SimdInsGeneral", size |-> size,
                                               index |-> idx, rn |-> Rn(w), rd |-> Rd(w)])
                    [] imm4 = 5 -> When(size <= IF Q(w) THEN 2 ELSE 1, gpr(TRUE))
                    [] imm4 = 7 -> When(IF Q(w) THEN size = 3 ELSE size <= 2, gpr(FALSE))
                    [] OTHER -> Unsupported)
  BY Zenon DEF CopyOf
<1> HIDE DEF si, x, size, idx, src
<1>5. si # {} =>
        /\ [op |-> "SimdInsElement", size |-> size, dst |-> idx, src |-> src, rn |-> Rn(w),
            rd |-> Rd(w)] \in InsElements
        /\ [op |-> "SimdDupElement", q |-> Q(w), size |-> size, index |-> idx,
            rn |-> Rn(w), rd |-> Rd(w)] \in DupElements
        /\ [op |-> "SimdDupGeneral", q |-> Q(w), size |-> size,
            rn |-> Rn(w), rd |-> Rd(w)] \in DupGenerals
        /\ [op |-> "SimdInsGeneral", size |-> size, index |-> idx, rn |-> Rn(w), rd |-> Rd(w)]
              \in InsGenerals
        /\ gpr(TRUE) \in MovToGprs /\ gpr(FALSE) \in MovToGprs
  BY <1>1, <1>2, <1>3 DEF InsElements, DupElements, DupGenerals, InsGenerals, MovToGprs
<1> HIDE DEF gpr
<1> QED BY <1>4, <1>5 DEF Copies, When

\* What decode makes of the vector group: the fields it reads are in range.
LEMMA NeonKind ==
    ASSUME NEW w \in SUBSET W32
    PROVE  \/ Neon(w) \in AcrossLanes \cup Copies \cup Exts \cup Indexeds \cup ModImms \cup ShiftImms
                  \cup TableLookups \cup ThreeRegs("SimdThreeDiff") \cup ThreeRegs("SimdThreeSame")
                  \cup ThreeRegs("SimdThreeSameExtra") \cup TwoRegs("SimdTwoRegMisc") \cup ZipTrns
           \/ Neon(w).op \in OtherNames
<1>1. Unsupported.op \in OtherNames /\ "SimdTwoRegMiscFp" \in OtherNames
  BY DEF Unsupported, OtherNames, SystemNames
<1>2. AesOf(w).op \in OtherNames /\ ThreeSameFpOf(w).op \in OtherNames
  BY <1>1 DEF AesOf, ThreeSameFpOf, OtherNames, When
<1> HIDE DEF OtherNames
<1> DEFINE Known(i) == \/ i \in AcrossLanes \cup Copies \cup Exts \cup Indexeds \cup ModImms
                               \cup ShiftImms \cup TableLookups \cup ThreeRegs("SimdThreeDiff")
                               \cup ThreeRegs("SimdThreeSame") \cup ThreeRegs("SimdThreeSameExtra")
                               \cup TwoRegs("SimdTwoRegMisc") \cup ZipTrns
                       \/ i.op \in OtherNames
<1>3. Known(AesOf(w)) /\ Known(ThreeSameFpOf(w)) /\ Known(Unsupported)
  BY <1>1, <1>2
<1>4. Known(AcrossOf(w)) /\ Known(CopyOf(w)) /\ Known(ExtOf(w)) /\ Known(IndexedOf(w))
  BY <1>1, AcrossKind, CopyKind, ExtKind, IndexedKind
<1>5. Known(ModImmOf(w)) /\ Known(TblOf(w)) /\ Known(ThreeDiffOf(w)) /\ Known(ThreeSameOf(w))
  BY <1>1, ModImmKind, TblKind, ThreeDiffKind, ThreeSameKind
<1>6. Known(ThreeSameExtraOf(w)) /\ Known(TwoRegMiscOf(w)) /\ Known(ZipTrnOf(w))
      /\ (field(w, 19, 4) # 0 => Known(ShiftImmOf(w)))
  BY <1>1, ThreeSameExtraKind, TwoRegMiscKind, ZipTrnKind, ShiftImmKind
<1> HIDE DEF Known
<1>7. Known(Neon(w))
  BY <1>3, <1>4, <1>5, <1>6 DEF Neon
<1> QED BY <1>7 DEF Known

\* What decode makes of a scalar operation on like lanes: the fields it reads are in range.
LEMMA ScalarThreeSameKind ==
    \A w \in SUBSET W32 : ScalarThreeSameOf(w) \in ScalarThreeSames \cup {Unsupported}
BY Registers, Fields DEF ScalarThreeSameOf, ScalarThreeSames, When, U, Esize, Reg

\* What decode makes of a scalar operation with one source: the fields it reads are in range.
LEMMA ScalarTwoRegMiscKind ==
    \A w \in SUBSET W32 : ScalarTwoRegMiscOf(w) \in ScalarTwoRegMiscs \cup {Unsupported}
BY Registers, Fields DEF ScalarTwoRegMiscOf, ScalarTwoRegMiscs, When, U, Esize, Op5, Reg

\* What decode makes of a pairwise reduction: the fields it reads are in range.
LEMMA ScalarPairwiseKind ==
    \A w \in SUBSET W32 : ScalarPairwiseOf(w) \in ScalarPairwises \cup {Unsupported}
BY Registers, Fields DEF ScalarPairwiseOf, ScalarPairwises, When, U, Esize, Op5, Reg

\* What decode makes of a scalar widening product: the fields it reads are in range.
LEMMA ScalarThreeDiffKind ==
    \A w \in SUBSET W32 : ScalarThreeDiffOf(w) \in ScalarThreeDiffs \cup {Unsupported}
BY Registers, Fields DEF ScalarThreeDiffOf, ScalarThreeDiffs, When, U, Esize

\* What decode makes of a scalar copy: the fields it reads are in range.
LEMMA ScalarCopyKind == \A w \in SUBSET W32 : ScalarCopyOf(w) \in ScalarCopies \cup {Unsupported}
<1> SUFFICES ASSUME NEW w \in SUBSET W32 PROVE ScalarCopyOf(w) \in ScalarCopies \cup {Unsupported}
  OBVIOUS
<1>1. w \subseteq Int
  BY DEF W32, Low
<1>2. ASSUME Rm(w) \in {0, 16} PROVE field(w, 16, 4) = 0
  <2>1. 16 \in Nat /\ 4 \in Nat /\ 5 \in Nat /\ 4 \in 0 .. 31 /\ 5 \in 0 .. 31
    OBVIOUS
  <2>2. Rm(w) = Val(Slice(w, 16, 5), 5) /\ field(w, 16, 4) = Val(Slice(w, 16, 4), 4)
    BY <1>1, <2>1, FieldRange, Zenon DEF Rm
  <2>3. Slice(w, 16, 5) \in Word(5) /\ Slice(w, 16, 4) \in Word(4)
    BY Slices
  <2>4. \A i \in Low(4) : i \in Slice(w, 16, 5) <=> i \in Slice(w, 16, 4)
    <3>1. \A i \in Int : i \in Slice(w, 16, 4) <=> i \in Low(4) /\ i + 16 \in w
      BY <1>1, <2>1, SliceWord, Zenon
    <3>2. \A i \in Int : i \in Slice(w, 16, 5) <=> i \in Low(5) /\ i + 16 \in w
      BY <1>1, <2>1, SliceWord, Zenon
    <3> QED BY <3>1, <3>2 DEF Low
  <2>5. Val(Slice(w, 16, 5), 4) = Val(Slice(w, 16, 4), 4)
    BY <2>1, <2>4, ValSame, Zenon
  <2> DEFINE s == Slice(w, 16, 5)
  <2>6. Val(s, 4 + 1) = Val(s, 4) + IF 4 \in s THEN Pow[4] ELSE 0
    <3> HIDE DEF s
    <3> QED BY <2>1, ValNext
  <2>7. Pow[4] = 16
    <3>1. 4 \in 0 .. 30 /\ 2 ^ 4 = 16
      BY SMT
    <3> QED BY <3>1, Powers
  <2>8. field(w, 16, 4) \in 0 .. 15
    BY Fields
  <2> HIDE DEF s
  <2>9. Rm(w) = Val(s, 4 + 1) /\ field(w, 16, 4) = Val(s, 4)
    BY <2>2, <2>5 DEF s
  <2> QED BY <1>2, <2>6, <2>7, <2>8, <2>9
<1>3. Rm(w) \in 0 .. 31 /\ Rn(w) \in Reg /\ Rd(w) \in Reg
  BY Registers DEF Reg
<1> QED BY <1>2, <1>3 DEF ScalarCopyOf, ScalarCopies, When

\* What decode makes of a scalar operation by element: the fields it reads are in range.
LEMMA ScalarIndexedKind ==
    \A w \in SUBSET W32 : ScalarIndexedOf(w) \in ScalarIndexeds \cup {Unsupported}
<1> SUFFICES ASSUME NEW w \in SUBSET W32
             PROVE  ScalarIndexedOf(w) \in ScalarIndexeds \cup {Unsupported}
  OBVIOUS
<1> DEFINE i == [op |-> "SimdScalarIndexed", u |-> U(w), size |-> Esize(w),
                 opcode |-> field(w, 12, 4), index |-> ElementIndex(w), rm |-> ElementReg(w),
                 rn |-> Rn(w), rd |-> Rd(w)]
<1>1. ElementReg(w) \in Reg /\ Esize(w) \in 0 .. 3
  BY Registers, Fields DEF ElementReg, Esize, Reg
<1>2. Esize(w) \in {1, 2, 3} => ElementIndex(w) \in 0 .. 7
  BY Fields DEF ElementIndex
<1>3. Rn(w) \in Reg /\ Rd(w) \in Reg /\ field(w, 12, 4) \in 0 .. 15 /\ U(w) \in BOOLEAN
  BY Registers, Fields DEF U
<1>4. ScalarIndexedOf(w) = Unsupported
      \/ (/\ ScalarIndexedOf(w) = i /\ Esize(w) \in {1, 2, 3}
          /\ IndexedKey(w) \in IndexedFp \/ Esize(w) <= 2)
  BY <1>1 DEF ScalarIndexedOf, When
<1>5. Key(i) = IndexedKey(w)
  BY KeyRead, Zenon DEF Key
<1>6. ASSUME Esize(w) \in {1, 2, 3}, IndexedKey(w) \in IndexedFp \/ Esize(w) <= 2
      PROVE  i \in ScalarIndexeds
  BY <1>1, <1>2, <1>3, <1>5, <1>6 DEF ScalarIndexeds
<1> HIDE DEF i
<1> QED BY <1>4, <1>6

\* What decode makes of a scalar shift by an immediate: the fields it reads are in range.
LEMMA ScalarShiftImmKind ==
    \A w \in SUBSET W32 : ScalarShiftImmOf(w) \in ScalarShiftImms \cup {Unsupported}
BY Registers, Fields DEF ScalarShiftImmOf, ScalarShiftImms, When, U, Reg

\* What decode makes of the scalar group: the fields it reads are in range.
LEMMA ScalarKind ==
    ASSUME NEW w \in SUBSET W32
    PROVE  \/ ScalarSimd(w) \in ScalarThreeSames \cup ScalarTwoRegMiscs \cup ScalarPairwises
                  \cup ScalarThreeDiffs \cup ScalarCopies \cup ScalarIndexeds \cup ScalarShiftImms
           \/ ScalarSimd(w).op \in OtherNames
<1>1. Unsupported.op \in OtherNames /\ Sha3Of(w).op \in OtherNames /\ Sha2Of(w).op \in OtherNames
  BY DEF Unsupported, OtherNames, SystemNames, Sha3Of, Sha2Of, When
<1> HIDE DEF OtherNames
<1> QED BY <1>1, ScalarThreeSameKind, ScalarTwoRegMiscKind, ScalarPairwiseKind,
           ScalarThreeDiffKind, ScalarCopyKind, ScalarIndexedKind, ScalarShiftImmKind
        DEF ScalarSimd

\* What decode makes of a floating-point word: the fields it reads are in range.
LEMMA FpKind ==
    ASSUME NEW w
    PROVE  Fp(w).op \in OtherNames
<1>1. /\ Unsupported.op \in OtherNames /\ FpDataProc3Of(w).op \in OtherNames
      /\ FpCvtFixedOf(w).op \in OtherNames /\ FpDataProc2Of(w).op \in OtherNames
      /\ FpCondSelectOf(w).op \in OtherNames /\ FpCondCompareOf(w).op \in OtherNames
      /\ FpCvtIntOf(w).op \in OtherNames /\ FpDataProc1Of(w).op \in OtherNames
      /\ FpCompareOf(w).op \in OtherNames /\ FpImmOf(w).op \in OtherNames
  BY DEF Unsupported, OtherNames, SystemNames, FpDataProc3Of, FpCvtFixedOf, FpDataProc2Of,
         FpCondSelectOf, FpCondCompareOf, FpCvtIntOf, FpDataProc1Of, FpCompareOf, FpImmOf, When
<1> HIDE DEF OtherNames
<1> QED BY <1>1 DEF Fp

\* What decode makes of a load or a store: the fields it reads are in range.
LEMMA LdstKind ==
    ASSUME NEW w \in SUBSET W32
    PROVE  Ldst(w) \in Hints \/ Ldst(w).op \in OtherNames
<1> DEFINE Fine(i) == i \in Hints \/ i.op \in OtherNames
<1>1. Fine(Unsupported) /\ Fine([op |-> "Prfm"])
  BY DEF Unsupported, OtherNames, SystemNames, Hints
<1>2. \A size, is_load, signed, dst64, vec, unpriv, rt, addr :
          Fine(LoadStore(size, is_load, signed, dst64, vec, unpriv, rt, addr))
  BY DEF OtherNames, LoadStore
<1>3. ExclOf(w).op \in OtherNames
  BY <1>1 DEF ExclOf, OtherNames, SystemNames, LoadStore, Unsupported
<1>4. AtomicOf(w).op \in OtherNames
  BY DEF AtomicOf, OtherNames, SystemNames, LoadStore, Unsupported
<1>5. Fine(LiteralOf(w))
  <2>1. Size(w) \in 0 .. 3
    BY Fields DEF Size
  <2>2. CASE 26 \in w
    <3> DEFINE addr == [mode |-> "Literal", offset |-> Offset(w, 5, 19)]
    <3>1. LiteralOf(w) = IF Size(w) < 3 THEN LoadStore(Size(w) + 2, TRUE, FALSE, FALSE, TRUE, FALSE,
                                                       Rd(w), addr) ELSE Unsupported
      BY <2>2 DEF LiteralOf, When
    <3> HIDE DEF Fine, addr
    <3> QED BY <1>1, <1>2, <3>1
  <2>3. CASE 26 \notin w /\ Size(w) = 3
    <3>1. LiteralOf(w) = [op |-> "Prfm"]
      BY <2>3 DEF LiteralOf
    <3> QED BY <1>1, <3>1
  <2>4. CASE 26 \notin w /\ Size(w) < 3
    <3> DEFINE addr == [mode |-> "Literal", offset |-> Offset(w, 5, 19)]
    <3>1. LiteralOf(w) = LoadStore(IF Size(w) = 1 THEN 3 ELSE 2, TRUE, Size(w) = 2, Size(w) # 0,
                                   FALSE, FALSE, Rd(w), addr)
      <4>1. Size(w) # 3
        BY <2>1, <2>4
      <4> QED BY <2>4, <4>1, Zenon DEF LiteralOf
    <3>2. LoadStore(IF Size(w) = 1 THEN 3 ELSE 2, TRUE, Size(w) = 2, Size(w) # 0, FALSE, FALSE,
                    Rd(w), addr).op = "LoadStore"
      BY DEF LoadStore
    <3>3. "LoadStore" \in OtherNames
      BY DEF OtherNames
    <3> HIDE DEF addr
    <3> QED BY <3>1, <3>2, <3>3, Zenon
  <2> QED BY <2>1, <2>2, <2>3, <2>4
<1>6. PairOf(w).op \in OtherNames /\ SingleOf(w).op \in OtherNames /\ MultipleOf(w).op \in OtherNames
  BY DEF PairOf, SingleOf, MultipleOf, OtherNames, SystemNames, When, Unsupported
<1>7. \A unpriv, prfm, addr : Fine(RegisterAccess(w, unpriv, prfm, addr))
  <2> HIDE DEF Fine
  <2> QED BY <1>1, <1>2 DEF RegisterAccess
<1>8. Fine(UimmOf(w)) /\ Fine(UnscaledOf(w, TRUE)) /\ Fine(UnscaledOf(w, FALSE)) /\ Fine(PostOf(w))
      /\ Fine(PreOf(w)) /\ Fine(RegOffsetOf(w))
  <2> HIDE DEF Fine
  <2> QED BY <1>1, <1>7 DEF UimmOf, UnscaledOf, PostOf, PreOf, RegOffsetOf, When
<1>9. Fine(RegisterForm(w))
  <2>1. field(w, 10, 2) \in 0 .. 3
    BY Fields
  <2>2. Fine(AtomicOf(w))
    BY <1>4
  <2> HIDE DEF Fine
  <2>3. CASE field(w, 24, 2) = 1
    <3>1. field(w, 24, 2) # 0
      BY <2>3
    <3>2. RegisterForm(w) = UimmOf(w)
      BY <2>3, <3>1, Zenon DEF RegisterForm
    <3> QED BY <1>8, <3>2
  <2>4. CASE field(w, 24, 2) = 0 /\ 21 \in w
    BY <1>1, <1>8, <2>2, <2>4 DEF RegisterForm
  <2>5. CASE field(w, 24, 2) = 0 /\ 21 \notin w
    <3>1. CASE field(w, 10, 2) = 0
      BY <1>8, <2>5, <3>1 DEF RegisterForm
    <3>2. CASE field(w, 10, 2) = 1
      BY <1>8, <2>5, <3>2 DEF RegisterForm
    <3>3. CASE field(w, 10, 2) = 2
      BY <1>8, <2>5, <3>3 DEF RegisterForm
    <3>4. CASE field(w, 10, 2) = 3
      BY <1>8, <2>5, <3>4 DEF RegisterForm
    <3> QED BY <2>1, <3>1, <3>2, <3>3, <3>4
  <2>6. CASE field(w, 24, 2) \notin {0, 1}
    BY <1>1, <2>6 DEF RegisterForm
  <2> QED BY <2>3, <2>4, <2>5, <2>6
<1>10. Fine(ExclOf(w)) /\ Fine(PairOf(w)) /\ Fine(SingleOf(w)) /\ Fine(MultipleOf(w))
  BY <1>3, <1>6
<1>11. Fine(Ldst(w))
  <2> HIDE DEF Fine
  <2> QED BY <1>1, <1>5, <1>9, <1>10 DEF Ldst
<1> QED BY <1>11

IntegerInsns == MoveWides \cup AddSubImms \cup AddSubShifts \cup AddSubExts \cup AddSubCarrys
                \cup LogicalImms \cup LogicalRegs \cup Bitfields \cup Extracts \cup CondSelects
                \cup CondCompares \cup DataProc1s \cup DataProc2s \cup DataProc3s \cup PcRels \cup Hints
BranchInsns  == BranchImms \cup CompareBranchs \cup TestBranchs \cup CondBranchs \cup BranchRegs
VectorInsns  == AcrossLanes \cup Copies \cup Exts \cup Indexeds \cup ModImms \cup ShiftImms
                \cup TableLookups \cup ThreeRegs("SimdThreeDiff") \cup ThreeRegs("SimdThreeSame")
                \cup ThreeRegs("SimdThreeSameExtra") \cup TwoRegs("SimdTwoRegMisc") \cup ZipTrns
                \cup ScalarThreeSames \cup ScalarTwoRegMiscs \cup ScalarPairwises
                \cup ScalarThreeDiffs \cup ScalarCopies \cup ScalarIndexeds \cup ScalarShiftImms

(* What decode yields is an instruction of one of the three kinds, with      *)
(* every field in its range, or one the model stops at.                      *)
LEMMA DecodeKind ==
    ASSUME NEW w \in SUBSET W32
    PROVE  decode(w) \in IntegerInsns \cup BranchInsns \cup VectorInsns \/ decode(w).op \in OtherNames
<1> DEFINE Fine(i) == i \in IntegerInsns \cup BranchInsns \cup VectorInsns \/ i.op \in OtherNames
<1>1. Fine(Ldst(w))
  BY LdstKind DEF IntegerInsns
<1>2. Unsupported.op \in OtherNames /\ SystemNames \subseteq OtherNames
  BY DEF Unsupported, OtherNames, SystemNames
<1>3. Fine(DpImm(w))
  BY DpImmKind, <1>2 DEF IntegerInsns
<1>4. Fine(DpReg(w))
  BY DpRegKind, <1>2 DEF IntegerInsns
<1>5. Fine(Branch(w))
  BY BranchKind, <1>2 DEF IntegerInsns, BranchInsns
<1>6. Fine(Neon(w))
  BY NeonKind DEF VectorInsns
<1>7. Fine(ScalarSimd(w)) /\ Fine(Fp(w))
  BY ScalarKind, FpKind DEF VectorInsns
<1>8. Fine(Unsupported)
  BY <1>2
<1>9. Fine(decode(w))
  <2> HIDE DEF Fine
  <2> QED BY <1>1, <1>3, <1>4, <1>5, <1>6, <1>7, <1>8 DEF decode
<1> QED BY <1>9

(* The kind of an instruction is its name.                                   *)
LEMMA IntegerNames == \A i \in IntegerInsns : i.op \in Interp!IntegerOps
BY DEF IntegerInsns, MoveWides, AddSubImms, AddSubShifts, AddSubExts, AddSubCarrys, LogicalImms,
       LogicalRegs, Bitfields, Extracts, CondSelects, CondCompares, DataProc1s, DataProc2s,
       DataProc3s, PcRels, Hints, Interp!IntegerOps

\* The branches are named as the interpreter names them.
LEMMA BranchNames == \A i \in BranchInsns : i.op \in Interp!BranchOps
BY DEF BranchInsns, BranchImms, CompareBranchs, TestBranchs, CondBranchs, BranchRegs,
       Interp!BranchOps

\* So are the vector instructions.
LEMMA VectorNames == \A i \in VectorInsns : i.op \in Interp!VectorOps
BY DEF VectorInsns, AcrossLanes, Copies, InsElements, DupElements, DupGenerals, InsGenerals,
       MovToGprs, Exts, Indexeds, ModImms, ShiftImms, TableLookups, ThreeRegs, TwoRegs, ZipTrns,
       ScalarThreeSames, ScalarTwoRegMiscs, ScalarPairwises, ScalarThreeDiffs, ScalarCopies,
       ScalarIndexeds, ScalarShiftImms, Interp!VectorOps, Interp!ScalarOps

\* No name belongs to two groups.
LEMMA NamesApart ==
    /\ Interp!IntegerOps \cap OtherNames = {} /\ Interp!BranchOps \cap OtherNames = {}
    /\ Interp!VectorOps \cap OtherNames = {} /\ Interp!IntegerOps \cap Interp!BranchOps = {}
    /\ Interp!IntegerOps \cap Interp!VectorOps = {} /\ Interp!BranchOps \cap Interp!VectorOps = {}
BY DEF Interp!IntegerOps, Interp!BranchOps, Interp!VectorOps, Interp!ScalarOps, OtherNames,
       SystemNames
-----------------------------------------------------------------------------
(* The interpreter keeps the widths of the registers, the flags and the pc. *)

Cpus == [x: [0 .. 30 -> Word(64)], sp: Word(64), v: [0 .. 31 -> Word(128)], pc: Word(64),
         flags: SUBSET (0 .. 3)]

\* The interpreter's module has the same words.
LEMMA InterpLow == \A n : Interp!Low(n) = Low(n)
BY DEF Interp!Low, Low

\* What a general register reads as is a word.
LEMMA GprTyped ==
    ASSUME NEW c \in Cpus, NEW idx, NEW sp, NEW val \in Word(64)
    PROVE  Interp!write_gpr(c, idx, sp, val) \in Cpus
BY DEF Interp!write_gpr, Cpus

\* A write of a general register keeps the processor typed.
LEMMA WriteTyped ==
    ASSUME NEW c \in Cpus, NEW idx, NEW sf64 \in BOOLEAN, NEW val, NEW sp \in BOOLEAN
    PROVE  Interp!write(c, idx, sf64, val, sp) \in Cpus
<1> DEFINE v == val \cap Interp!width_mask(sf64)
<1>1. v \in Word(64)
  <2>1. Interp!width_mask(sf64) = Low(64) \/ Interp!width_mask(sf64) = Low(32)
    BY InterpLow DEF Interp!width_mask, Interp!datasize
  <2>2. Low(64) \subseteq Low(64) /\ Low(32) \subseteq Low(64)
    BY DEF Low
  <2> QED BY <2>1, <2>2, Zenon DEF Word
<1>2. Interp!write(c, idx, sf64, val, sp) = Interp!write_gpr(c, idx, sp, v)
  BY DEF Interp!write
<1> HIDE DEF v
<1> QED BY <1>1, <1>2, GprTyped

\* So does a write of the flags.
LEMMA FlagsTyped ==
    ASSUME NEW c \in Cpus, NEW f \in SUBSET (0 .. 3)
    PROVE  [c EXCEPT !.flags = f] \in Cpus
BY DEF Cpus

\* A sum is a word and its flags are flags.
LEMMA SumFlags ==
    ASSUME NEW a, NEW b, NEW carry, NEW sf64
    PROVE  Interp!add_with_carry_in(a, b, carry, sf64)[2] \in SUBSET (0 .. 3)
<1> DEFINE w   == Interp!datasize(sf64)
           x   == a \cap Interp!Low(w)
           y   == b \cap Interp!Low(w)
           all == Interp!Plus(Interp!Plus(x, y), IF carry THEN {0} ELSE {})
           s   == all \cap Interp!Low(w)
           F   == {f \in {Interp!N, Interp!Z, Interp!C, Interp!V} :
                     CASE f = Interp!N -> w - 1 \in s
                       [] f = Interp!Z -> s = {}
                       [] f = Interp!C -> w \in all
                       [] f = Interp!V -> w - 1 \in Interp!Xor(x, s) \cap Interp!Xor(y, s)}
<1>1. Interp!add_with_carry_in(a, b, carry, sf64) = <<s, F>>
  BY Zenon DEF Interp!add_with_carry_in
<1>2. F \in SUBSET (0 .. 3)
  <2>1. {Interp!N, Interp!Z, Interp!C, Interp!V} \subseteq 0 .. 3
    BY DEF Interp!N, Interp!Z, Interp!C, Interp!V
  <2> QED BY <2>1, Zenon
<1> HIDE DEF s, F
<1> QED BY <1>1, <1>2

\* Writing a sum and its flags keeps the processor typed.
LEMMA FinishTyped ==
    ASSUME NEW c \in Cpus, NEW i, i.sf \in BOOLEAN, i.set_flags \in BOOLEAN, NEW sum,
           sum[2] \in SUBSET (0 .. 3), NEW sp \in BOOLEAN
    PROVE  Interp!Finish(c, i, sum, sp) \in Cpus
<1> DEFINE d == IF i.set_flags THEN [c EXCEPT !.flags = sum[2]] ELSE c
<1>1. d \in Cpus
  BY FlagsTyped
<1>2. Interp!Finish(c, i, sum, sp) = Interp!write(d, i.rd, i.sf, sum[1], sp)
  BY DEF Interp!Finish
<1> HIDE DEF d
<1> QED BY <1>1, <1>2, WriteTyped

\* The four additions do.
LEMMA AddsTyped ==
    ASSUME NEW c \in Cpus, NEW i, i.sf \in BOOLEAN, i.set_flags \in BOOLEAN
    PROVE  /\ Interp!AddSubImm(c, i) \in Cpus /\ Interp!AddSubShiftedReg(c, i) \in Cpus
           /\ Interp!AddSubExtReg(c, i) \in Cpus /\ Interp!AddSubCarry(c, i) \in Cpus
<1>1. \A a, b, sub, sf64 : Interp!add_with_carry(a, b, sub, sf64)[2] \in SUBSET (0 .. 3)
  BY SumFlags, Zenon DEF Interp!add_with_carry
<1>2. \A sum, sp : sum[2] \in SUBSET (0 .. 3) /\ sp \in BOOLEAN => Interp!Finish(c, i, sum, sp) \in Cpus
  BY FinishTyped
<1>3. (~ i.set_flags) \in BOOLEAN /\ FALSE \in BOOLEAN
  OBVIOUS
<1>4. Interp!AddSubImm(c, i) \in Cpus
  <2>1. \A a, b : Interp!Finish(c, i, Interp!add_with_carry(a, b, i.sub, i.sf), ~ i.set_flags) \in Cpus
    BY <1>1, <1>2, <1>3, Zenon
  <2> QED BY <2>1, Zenon DEF Interp!AddSubImm
<1>5. Interp!AddSubShiftedReg(c, i) \in Cpus
  BY <1>1, <1>2, <1>3, Zenon DEF Interp!AddSubShiftedReg
<1>6. Interp!AddSubExtReg(c, i) \in Cpus
  BY <1>1, <1>2, <1>3, Zenon DEF Interp!AddSubExtReg
<1>7. Interp!AddSubCarry(c, i) \in Cpus
  BY SumFlags, <1>2, <1>3, Zenon DEF Interp!AddSubCarry
<1> QED BY <1>4, <1>5, <1>6, <1>7

\* The logical operations do.
LEMMA LogicTyped ==
    ASSUME NEW c \in Cpus, NEW i, i.sf \in BOOLEAN
    PROVE  Interp!LogicalImm(c, i) \in Cpus /\ Interp!LogicalShiftedReg(c, i) \in Cpus
<1>1. \A r : Interp!SetLogic(c, i, r) \in Cpus
  <2>1. \A r, w : Interp!LogicFlags(r, w) \in SUBSET (0 .. 3)
    BY DEF Interp!LogicFlags, Interp!N, Interp!Z
  <2> QED BY <2>1, FlagsTyped, Zenon DEF Interp!SetLogic
<1>2. \A r, val, sp : sp \in BOOLEAN
          => Interp!write(Interp!SetLogic(c, i, r), i.rd, i.sf, val, sp) \in Cpus
  BY <1>1, WriteTyped, Zenon
<1>3. (i.opc # 3) \in BOOLEAN /\ FALSE \in BOOLEAN
  OBVIOUS
<1> QED BY <1>2, <1>3, Zenon DEF Interp!LogicalImm, Interp!LogicalShiftedReg

\* Wide moves, extractions and bit fields do.
LEMMA MovesTyped ==
    ASSUME NEW c \in Cpus, NEW i, i.sf \in BOOLEAN
    PROVE  /\ Interp!MoveWide(c, i) \in Cpus /\ Interp!Extract(c, i) \in Cpus
           /\ Interp!Bitfield(c, i) \in Cpus /\ Interp!CondSelect(c, i) \in Cpus
           /\ Interp!DataProc1Src(c, i) \in Cpus /\ Interp!DataProc2Src(c, i) \in Cpus
           /\ Interp!DataProc3Src(c, i) \in Cpus
<1>1. \A val : Interp!write(c, i.rd, i.sf, val, FALSE) \in Cpus
  BY WriteTyped, Zenon
<1>2. \A val : Interp!write(c, i.rd, FALSE, val, FALSE) \in Cpus
  BY WriteTyped, Zenon
<1>3. Interp!MoveWide(c, i) \in Cpus /\ Interp!Extract(c, i) \in Cpus
  BY <1>1, Zenon DEF Interp!MoveWide, Interp!Extract
<1>4. Interp!Bitfield(c, i) \in Cpus /\ Interp!CondSelect(c, i) \in Cpus
  BY <1>1, Zenon DEF Interp!Bitfield, Interp!CondSelect
<1>5. Interp!DataProc1Src(c, i) \in Cpus
  BY <1>1, Zenon DEF Interp!DataProc1Src
<1>6. Interp!DataProc2Src(c, i) \in Cpus
  BY <1>1, <1>2, Zenon DEF Interp!DataProc2Src
<1>7. Interp!DataProc3Src(c, i) \in Cpus
  BY <1>1, Zenon DEF Interp!DataProc3Src
<1> QED BY <1>3, <1>4, <1>5, <1>6, <1>7

\* A conditional comparison does.
LEMMA CondCompareTyped ==
    ASSUME NEW c \in Cpus, NEW i, i.nzcv \in Word(4)
    PROVE  Interp!CondCompare(c, i) \in Cpus
<1>1. \A a, b, sub, sf64 : Interp!add_with_carry(a, b, sub, sf64)[2] \in SUBSET (0 .. 3)
  BY SumFlags, Zenon DEF Interp!add_with_carry
<1>2. i.nzcv \in SUBSET (0 .. 3)
  BY DEF Word, Low
<1> QED BY <1>1, <1>2, FlagsTyped, Zenon DEF Interp!CondCompare

\* Every integer instruction that does not branch does.
LEMMA StraightTyped ==
    ASSUME NEW c \in Cpus, NEW i \in IntegerInsns
    PROVE  Interp!Straight(c, i) \in Cpus
<1>1. CASE i \in PcRels
  <2>1. i.op = "PcRel"
    BY <1>1 DEF PcRels
  <2>2. Interp!PcRel(c, i) \in Cpus
    BY WriteTyped, Zenon DEF Interp!PcRel
  <2> QED BY <2>1, <2>2 DEF Interp!Straight
<1>2. CASE i \in Hints
  BY <1>2 DEF Hints, Interp!Straight
<1>3. CASE i \in CondCompares
  <2>1. i.op = "CondCompare" /\ i.nzcv \in Word(4)
    BY <1>3 DEF CondCompares
  <2> QED BY <2>1, CondCompareTyped DEF Interp!Straight
<1>4. CASE i \in AddSubImms \cup AddSubShifts \cup AddSubExts \cup AddSubCarrys
  <2>1. i.sf \in BOOLEAN /\ i.set_flags \in BOOLEAN
        /\ i.op \in {"AddSubImm", "AddSubShiftedReg", "AddSubExtReg", "AddSubCarry"}
    BY <1>4 DEF AddSubImms, AddSubShifts, AddSubExts, AddSubCarrys
  <2> QED BY <2>1, AddsTyped DEF Interp!Straight
<1>5. CASE i \in LogicalImms \cup LogicalRegs
  <2>1. i.sf \in BOOLEAN /\ i.op \in {"LogicalImm", "LogicalShiftedReg"}
    BY <1>5 DEF LogicalImms, LogicalRegs
  <2> QED BY <2>1, LogicTyped DEF Interp!Straight
<1>6. CASE i \in MoveWides \cup Bitfields \cup Extracts \cup CondSelects
                 \cup DataProc1s \cup DataProc2s \cup DataProc3s
  <2>1. i.sf \in BOOLEAN /\ i.op \in {"MoveWide", "Bitfield", "Extract", "CondSelect", "DataProc1Src",
                                      "DataProc2Src", "DataProc3Src"}
    BY <1>6 DEF MoveWides, Bitfields, Extracts, CondSelects, DataProc1s, DataProc2s, DataProc3s
  <2>2. CASE i.op = "MoveWide"
    BY <2>1, <2>2, MovesTyped DEF Interp!Straight
  <2>8. CASE i.op = "Bitfield"
    <3>1. Interp!Straight(c, i) = Interp!Bitfield(c, i)
      BY <2>8 DEF Interp!Straight
    <3> QED BY <2>1, <3>1, MovesTyped
  <2>6. CASE i.op = "Extract"
    BY <2>1, <2>6, MovesTyped DEF Interp!Straight
  <2>7. CASE i.op = "CondSelect"
    BY <2>1, <2>7, MovesTyped DEF Interp!Straight
  <2>3. CASE i.op = "DataProc1Src"
    BY <2>1, <2>3, MovesTyped DEF Interp!Straight
  <2>4. CASE i.op = "DataProc2Src"
    BY <2>1, <2>4, MovesTyped DEF Interp!Straight
  <2>5. CASE i.op = "DataProc3Src"
    BY <2>1, <2>5, MovesTyped DEF Interp!Straight
  <2> QED BY <2>1, <2>2, <2>3, <2>4, <2>5, <2>6, <2>7, <2>8
<1> QED BY <1>1, <1>2, <1>3, <1>4, <1>5, <1>6 DEF IntegerInsns

\* The address after an addition is a word.
LEMMA AddTyped ==
    ASSUME NEW a, NEW b
    PROVE  Interp!Add(a, b, 64) \in Word(64)
BY InterpLow DEF Interp!Add, Word

\* Every integer or branch instruction keeps the processor typed, the pc too.
LEMMA BranchTyped ==
    ASSUME NEW c \in Cpus, NEW i \in IntegerInsns \cup BranchInsns
    PROVE  Interp!IntegerStep(c, i) \in Cpus
<1>1. Interp!Next4(c) \in Word(64)
  BY AddTyped DEF Interp!Next4
<1>2. \A d \in Cpus, p \in Word(64) : [d EXCEPT !.pc = p] \in Cpus
  BY DEF Cpus
<1>3. \A linked : Interp!Link(c, linked) \in Cpus
  <2>1. Interp!write_gpr(c, 30, FALSE, Interp!Next4(c)) \in Cpus
    BY <1>1, GprTyped, Zenon
  <2> QED BY <2>1, Zenon DEF Interp!Link
<1>4. CASE i \in IntegerInsns
  <2>1. i.op \notin Interp!BranchOps
    BY <1>4, IntegerNames, NamesApart
  <2>2. Interp!Straight(c, i) \in Cpus
    BY <1>4, StraightTyped
  <2>3. Interp!IntegerStep(c, i) = [Interp!Straight(c, i) EXCEPT !.pc = Interp!Next4(c)]
    BY <2>1, Zenon DEF Interp!IntegerStep
  <2> QED BY <1>1, <1>2, <2>2, <2>3
<1>5. CASE i \in BranchRegs
  <2>1. i.op = "BranchReg" /\ i.rn \in Reg
    BY <1>5 DEF BranchRegs
  <2>2. Interp!IntegerStep(c, i) =
            [Interp!Link(c, i.opc = 1) EXCEPT !.pc = Interp!read_gpr(c, i.rn, FALSE)]
    BY <2>1 DEF Interp!IntegerStep, Interp!BranchOps
  <2>3. Interp!read_gpr(c, i.rn, FALSE) \in Word(64)
    BY <2>1 DEF Interp!read_gpr, Cpus, Reg, Word
  <2> DEFINE d == Interp!Link(c, i.opc = 1)
             p == Interp!read_gpr(c, i.rn, FALSE)
  <2>4. d \in Cpus
    BY <1>3, Zenon
  <2> HIDE DEF d, p
  <2> QED BY <1>2, <2>2, <2>3, <2>4 DEF d, p
<1>6. CASE i \in BranchImms
  <2>1. i.op = "BranchImm"
    BY <1>6 DEF BranchImms
  <2>2. Interp!IntegerStep(c, i) = [Interp!Link(c, i.link) EXCEPT !.pc = Interp!Add(@, i.offset, 64)]
    BY <2>1 DEF Interp!IntegerStep, Interp!BranchOps
  <2> QED BY <1>2, <1>3, <2>2, AddTyped
<1>7. CASE i \in CompareBranchs \cup TestBranchs \cup CondBranchs
  <2>1. i.op \in {"CompareBranch", "TestBranch", "CondBranch"}
    BY <1>7 DEF CompareBranchs, TestBranchs, CondBranchs
  <2> DEFINE p == IF Interp!Taken(c, i) THEN Interp!Add(c.pc, i.offset, 64) ELSE Interp!Next4(c)
  <2>2. Interp!IntegerStep(c, i) = [c EXCEPT !.pc = p]
    BY <2>1 DEF Interp!IntegerStep, Interp!BranchOps
  <2>3. p \in Word(64)
    BY <1>1, AddTyped
  <2> HIDE DEF p
  <2> QED BY <1>2, <2>2, <2>3
<1> QED BY <1>4, <1>5, <1>6, <1>7 DEF BranchInsns


(* A register put together from lanes, or cut to a half, is 128 bits wide.  *)
LEMMA ShlTyped == \A a, n : Interp!Shl(a, n, 128) \in Word(128)
BY InterpLow DEF Interp!Shl, Word

\* Lanes joined are a vector register.
LEMMA JoinTyped == \A e, lanes : Interp!join(e, lanes) \in Word(128)
<1> TAKE e, lanes
<1> DEFINE S == {Interp!Shl(lanes[k] \cap Interp!Low(e), k * e, 128) : k \in DOMAIN lanes}
<1>1. \A x \in S : x \in Word(128)
  BY ShlTyped, Zenon
<1>2. UNION S \in Word(128)
  <2> HIDE DEF S
  <2> QED BY <1>1 DEF Word
<1> QED BY <1>2, Zenon DEF Interp!join

\* A half of a vector register is one.
LEMMA HalfTyped ==
    \A q : Low(64) \in Word(128) /\ Low(128) \in Word(128) /\ Interp!Low(Interp!Half(q)) \in Word(128)
<1>1. Low(64) \in Word(128) /\ Low(128) \in Word(128)
  BY DEF Word, Low
<1> QED BY <1>1, InterpLow DEF Interp!Half

\* A vector cut to its low half is one.
LEMMA CutTyped == \A a, S : S \in Word(128) => a \cap S \in Word(128)
BY DEF Word

\* An operation on like lanes yields a vector register.
LEMMA ThreeSameTyped ==
    ASSUME NEW i, NEW q, NEW a, NEW b, NEW d
    PROVE  Interp!ThreeSame(i, q, a, b, d) \in Word(128)
<1>1. Interp!logical(i.u, i.size, a, b, d) \cap Interp!Low(Interp!Half(q)) \in Word(128)
  BY HalfTyped, CutTyped, Zenon
<1>2. \A opcode, u, e, bits : Interp!pairwise(opcode, u, e, bits, a, b) \in Word(128)
  <2> TAKE opcode, u, e, bits
  <2> QED BY JoinTyped, Zenon DEF Interp!pairwise, Interp!Lanes
<1> QED BY <1>1, <1>2, JoinTyped, Zenon DEF Interp!ThreeSame, Interp!Lanes


\* So does a dot product.
LEMMA ThreeSameExtraTyped ==
    ASSUME NEW i, NEW a, NEW b, NEW d
    PROVE  Interp!ThreeSameExtra(i, a, b, d) \in Word(128)
BY JoinTyped, Zenon DEF Interp!ThreeSameExtra, Interp!dot, Interp!Lanes

\* Narrowed lanes put into a half of a register leave a register.
LEMMA IntoHalfTyped ==
    \A packed, q, d : packed \in Word(128) => Interp!into_half(packed, q, d) \in Word(128)
<1> TAKE packed, q, d
<1>1. Interp!Shl(packed, 64, 128) \in Word(128)
  BY ShlTyped
<1>2. d \cap Interp!W64 \in Word(128)
  BY InterpLow, HalfTyped, CutTyped DEF Interp!W64
<1> QED BY <1>1, <1>2 DEF Interp!into_half, Word

\* A widening or narrowing operation yields a vector register.
LEMMA ThreeDiffTyped ==
    ASSUME NEW i, NEW q, NEW u, NEW a, NEW b, NEW d
    PROVE  Interp!ThreeDiff(i, q, u, a, b, d) \in Word(128)
BY JoinTyped, IntoHalfTyped, Zenon DEF Interp!ThreeDiff, Interp!Lanes

\* An operation by element does.
LEMMA IndexedTyped ==
    ASSUME NEW i, NEW q, NEW a, NEW b, NEW d
    PROVE  Interp!Indexed(i, q, a, b, d) \in Word(128)
BY JoinTyped, Zenon DEF Interp!Indexed, Interp!dot, Interp!Lanes

\* What joined lanes of e bits, filling the given number of them, are.
Joins(v, e, bits) == \E lanes : DOMAIN lanes = 0 .. (bits \div e) - 1 /\ v = Interp!join(e, lanes)

\* Lanes of the size of i, of twice the size or of bytes, narrowed lanes in a half, or all
\* bits inverted.
Shaped(v, i, q, a, d) ==
    LET e == 8 * 2 ^ i.size  bits == Interp!Half(q)
    IN  \/ i.opcode \in {18, 20} /\ \E y : Joins(y, e, 64) /\ v = Interp!into_half(y, q, d)
        \/ i.opcode = 19 /\ Joins(v, 2 * e, 128)
        \/ Joins(v, 2 * e, bits) \/ Joins(v, e, bits) \/ Joins(v, 8, bits)
        \/ v = Interp!Not(a, 128) \cap Interp!Low(bits)

\* An operation with one source yields one of these.
LEMMA TwoRegMiscShape ==
    ASSUME NEW i, NEW q, NEW a, NEW d
    PROVE  Shaped(Interp!TwoRegMisc(i, q, a, d), i, q, a, d)
<1> DEFINE e == 8 * 2 ^ i.size
           u == i.u
           bits == Interp!Half(q)
           v == Interp!TwoRegMisc(i, q, a, d)
           Pair(k) == Interp!WAdd(Interp!Wide(Interp!Lane(a, e, 2 * k), e, u),
                                  Interp!Wide(Interp!Lane(a, e, 2 * k + 1), e, u))
           To(b, n) == 0 .. (b \div n) - 1
           narrow == [k \in To(64, e) |-> Interp!xtn(i.opcode, u, e, Interp!Lane(a, 2 * e, k))]
           long == [k \in To(128, 2 * e) |->
                       Interp!Shl(Interp!Lane(Interp!source_half(a, q), e, k), e, 128)]
           pairs == [k \in To(bits, 2 * e) |-> Pair(k)]
           sums == [k \in To(bits, 2 * e) |-> Interp!WAdd(Pair(k), Interp!Lane(d, 2 * e, k))]
           mixed == [k \in To(bits, e) |->
                       Interp!Clamp(Interp!WAdd(Interp!Wide(Interp!Lane(d, e, k), e, u),
                                                Interp!Wide(Interp!Lane(a, e, k), e, ~u)), e, u)]
           turned(c) == [k \in To(bits, e) |->
                       Interp!Lane(a, e, (k \div (c \div e)) * (c \div e)
                                          + ((c \div e) - 1 - (k % (c \div e))))]
           bytes == [k \in To(bits, 8) |-> {7 - p : p \in Interp!Lane(a, 8, k)}]
           each == [k \in To(bits, e) |-> Interp!LaneTwoReg(i.opcode, u, e, Interp!Lane(a, e, k))]
           full == IF u THEN 32 ELSE 64
<1>1. v = CASE i.opcode \in {18, 20} -> Interp!into_half(Interp!join(e, narrow), q, d)
            [] i.opcode = 19 -> Interp!join(2 * e, long)
            [] i.opcode = 2 -> Interp!join(2 * e, pairs)
            [] i.opcode = 6 -> Interp!join(2 * e, sums)
            [] i.opcode = 3 -> Interp!join(e, mixed)
            [] i.opcode = 0 -> Interp!join(e, turned(full))
            [] i.opcode = 1 -> Interp!join(e, turned(16))
            [] i.opcode = 5 /\ u /\ i.size = 0 -> Interp!Not(a, 128) \cap Interp!Low(bits)
            [] i.opcode = 5 /\ u /\ i.size # 0 -> Interp!join(8, bytes)
            [] OTHER -> Interp!join(e, each)
  BY Zenon DEF Interp!TwoRegMisc, Interp!Lanes, Interp!rev
<1>2. /\ DOMAIN narrow = To(64, e) /\ DOMAIN long = To(128, 2 * e) /\ DOMAIN pairs = To(bits, 2 * e)
      /\ DOMAIN sums = To(bits, 2 * e) /\ DOMAIN mixed = To(bits, e)
      /\ (\A c : DOMAIN turned(c) = To(bits, e)) /\ DOMAIN bytes = To(bits, 8)
      /\ DOMAIN each = To(bits, e)
  BY Zenon
<1> DEFINE twice == 2 * e
<1> HIDE DEF narrow, long, pairs, sums, mixed, turned, bytes, each, full
<1>3. /\ Joins(Interp!join(e, narrow), e, 64) /\ Joins(Interp!join(twice, long), twice, 128)
      /\ Joins(Interp!join(twice, pairs), twice, bits) /\ Joins(Interp!join(twice, sums), twice, bits)
      /\ Joins(Interp!join(e, mixed), e, bits) /\ \A c : Joins(Interp!join(e, turned(c)), e, bits)
      /\ Joins(Interp!join(8, bytes), 8, bits) /\ Joins(Interp!join(e, each), e, bits)
  BY <1>2, Zenon DEF Joins
<1> HIDE DEF v, e, twice, u, bits
<1>4. \/ i.opcode \in {18, 20} /\ \E y : Joins(y, e, 64) /\ v = Interp!into_half(y, q, d)
      \/ i.opcode = 19 /\ Joins(v, twice, 128)
      \/ Joins(v, twice, bits) \/ Joins(v, e, bits) \/ Joins(v, 8, bits)
      \/ v = Interp!Not(a, 128) \cap Interp!Low(bits)
  BY <1>1, <1>3 DEF twice
<1> QED BY <1>4, Zenon DEF v, e, twice, bits, Shaped

\* An operation with one source does.
LEMMA TwoRegMiscTyped ==
    ASSUME NEW i, NEW q, NEW a, NEW d
    PROVE  Interp!TwoRegMisc(i, q, a, d) \in Word(128)
<1>1. \A v, e, bits : Joins(v, e, bits) => v \in Word(128)
  BY JoinTyped, Zenon DEF Joins
<1>2. Interp!Not(a, 128) \cap Interp!Low(Interp!Half(q)) \in Word(128)
  BY HalfTyped, CutTyped, Zenon
<1>3. \A y, e : Joins(y, e, 64) => Interp!into_half(y, q, d) \in Word(128)
  BY <1>1, IntoHalfTyped, Zenon
<1> DEFINE v == Interp!TwoRegMisc(i, q, a, d)
<1>4. Shaped(v, i, q, a, d)
  BY TwoRegMiscShape, Zenon
<1> HIDE DEF v
<1>5. v \in Word(128)
  BY <1>1, <1>2, <1>3, <1>4 DEF Shaped
<1> QED BY <1>5 DEF v

\* A shift by an immediate does.
LEMMA ShiftImmTyped ==
    ASSUME NEW i, NEW q, NEW a, NEW d
    PROVE  Interp!ShiftImm(i, q, a, d) \in Word(128)
BY JoinTyped, IntoHalfTyped, Zenon DEF Interp!ShiftImm, Interp!Lanes

\* A permutation, EXT or a table lookup does.
LEMMA PermuteTyped ==
    ASSUME NEW c, NEW i, NEW a, NEW b, NEW d, NEW x, NEW e, NEW q
    PROVE  /\ Interp!ModImm(i, d) \in Word(128) /\ Interp!ZipTrn(i, a, b) \in Word(128)
           /\ Interp!Ext(i, a, b) \in Word(128) /\ Interp!TableLookup(c, i, x, d) \in Word(128)
           /\ Interp!dup(x, e, q) \in Word(128)
<1>1. Interp!ModImm(i, d) \in Word(128) /\ Interp!Ext(i, a, b) \in Word(128)
  <2>1. \A y : y \cap Interp!Low(Interp!Half(i.q)) \in Word(128)
    BY HalfTyped, CutTyped, Zenon
  <2>2. Interp!ModImm(i, d) \in Word(128)
    BY <2>1, Zenon DEF Interp!ModImm
  <2>3. Interp!Ext(i, a, b) \in Word(128)
    BY <2>1, Zenon DEF Interp!Ext
  <2> QED BY <2>2, <2>3
<1>2. Interp!ZipTrn(i, a, b) \in Word(128) /\ Interp!dup(x, e, q) \in Word(128)
  BY JoinTyped, Zenon DEF Interp!ZipTrn, Interp!dup, Interp!Lanes
<1>3. Interp!TableLookup(c, i, x, d) \in Word(128)
  BY JoinTyped, Zenon DEF Interp!TableLookup, Interp!Lanes
<1> QED BY <1>1, <1>2, <1>3

\* One lane replaced leaves a vector register.
LEMMA SetLaneTyped ==
    ASSUME NEW v \in Word(128), NEW e, NEW k, NEW elem
    PROVE  Interp!set_lane(v, e, k, elem) \in Word(128)
<1> DEFINE s == Interp!Shl(elem \cap Interp!Low(e), k * e, 128)
<1>1. s \in Word(128)
  BY ShlTyped
<1>2. Interp!set_lane(v, e, k, elem) = (v \ (k * e .. k * e + e - 1)) \cup s
  BY DEF Interp!set_lane
<1> HIDE DEF s
<1> QED BY <1>1, <1>2 DEF Word

\* A word shifted right is one.
LEMMA ShrTyped ==
    ASSUME NEW a, NEW n \in Nat, a \in Word(n), NEW s \in Nat
    PROVE  Interp!Shr(a, s) \in Word(n)
BY DEF Interp!Shr, Word, Low

\* A lane is a word of its size.
LEMMA LaneTyped ==
    ASSUME NEW a \in Word(128), NEW e \in Nat, NEW k \in Nat
    PROVE  Interp!Lane(a, e, k) \in Word(128)
<1> DEFINE s == k * e
           b == a \cap s .. s + e - 1
<1>1. s \in Nat /\ 128 \in Nat
  BY SMT
<1>2. b \in Word(128)
  BY CutTyped, Zenon DEF Word
<1>3. Interp!Lane(a, e, k) = Interp!Shr(b, s)
  BY DEF Interp!Lane, Interp!Slice
<1> HIDE DEF s, b
<1> QED BY <1>1, <1>2, <1>3, ShrTyped, Zenon

\* The size of a lane is at most 64 bits.
LEMMA SizeTyped ==
    ASSUME NEW size \in 0 .. 3
    PROVE  /\ 8 * 2 ^ size \in {8, 16, 32, 64} /\ 8 * 2 ^ size \in Nat
           /\ size <= 2 => 2 * (8 * 2 ^ size) \in {16, 32, 64}
<1> DEFINE p(k) == 2 ^ k
<1>1. p(0) = 1 /\ p(1) = 2 /\ p(2) = 4 /\ p(3) = 8
  BY SMT
<1>2. size = 0 \/ size = 1 \/ size = 2 \/ size = 3
  OBVIOUS
<1>3. p(size) = 2 ^ size
  OBVIOUS
<1> HIDE DEF p
<1>4. p(size) \in {1, 2, 4, 8} /\ (size <= 2 => p(size) \in {1, 2, 4})
  BY <1>1, <1>2
<1>5. \A q : q \in {1, 2, 4, 8} => 8 * q \in {8, 16, 32, 64} /\ 8 * q \in Nat
  OBVIOUS
<1>6. \A q : q \in {1, 2, 4} => 2 * (8 * q) \in {16, 32, 64}
  OBVIOUS
<1> DEFINE r == 2 ^ size
<1>7. r \in {1, 2, 4, 8} /\ (size <= 2 => r \in {1, 2, 4})
  BY <1>3, <1>4
<1> HIDE DEF r
<1>8. 8 * r \in {8, 16, 32, 64} /\ 8 * r \in Nat /\ (size <= 2 => 2 * (8 * r) \in {16, 32, 64})
  BY <1>5, <1>6, <1>7
<1> QED BY <1>8 DEF r

\* A reduction across lanes yields a vector register.
LEMMA AcrossTyped ==
    ASSUME NEW i \in AcrossLanes, NEW a
    PROVE  Interp!Across(i, a) \in Word(128)
<1> DEFINE e == 8 * 2 ^ i.size
<1>1. i.size \in 0 .. 3 /\ i.size <= 2
  BY DEF AcrossLanes, TwoRegs
<1>2. e \in {8, 16, 32, 64} /\ 2 * e \in {16, 32, 64}
  BY <1>1, SizeTyped
<1>3. \A n \in {8, 16, 32, 64} : Interp!Low(n) \in Word(128)
  <2> TAKE n \in {8, 16, 32, 64}
  <2>1. Low(n) \in Word(128)
    BY DEF Low, Word
  <2>2. Interp!Low(n) = Low(n)
    BY InterpLow
  <2> QED BY <2>1, <2>2
<1> DEFINE Cut(m) == Interp!Low(m)
<1>4. Cut(e) \in Word(128) /\ Cut(2 * e) \in Word(128)
  BY <1>2, <1>3
<1>5. \A x : x \cap Cut(2 * e) \in Word(128) /\ Cut(e) \cap x \in Word(128)
  BY <1>4 DEF Word
<1> QED BY <1>5, Zenon DEF Interp!Across

\* The lanes of a copy have at most 64 bits.
LEMMA CopySizeTyped ==
    ASSUME NEW n \in 1 .. 31
    PROVE  /\ Interp!CopySize(n) \in Nat
           /\ 8 * 2 ^ Interp!CopySize(n) \in Nat /\ n \div 2 ^ (Interp!CopySize(n) + 1) \in Nat
<1> DEFINE B == Interp!Bits(n)
           s == Interp!CopySize(n)
<1>1. B = Bits(n)
  BY DEF Interp!Bits, Bits
<1>2. Pow[31] > 31
  <2>1. \A k \in Nat : Pow[k + 1] = 2 * Pow[k] /\ Pow[k] \in Nat
    BY PowFacts
  <2>2. 2 ^ 30 = Pow[30] /\ Pow[30 + 1] = 2 * Pow[30]
    BY <2>1, Powers
  <2>3. 2 ^ 30 > 31
    BY SMT
  <2> QED BY <2>1, <2>2, <2>3
<1>3. B \in Word(31) /\ B # {}
  <2>1. n \in Nat /\ n < Pow[31] /\ 31 \in Nat
    BY <1>2, PowFacts
  <2>2. Bits(n) \in Word(31) /\ Val(Bits(n), 31) = n
    BY <2>1, BitsVal
  <2>3. Val({}, 31) = 0
    BY ValEmpty
  <2> QED BY <1>1, <2>2, <2>3
<1>4. s \in B
  <2>1. s = Interp!Min(B)
    BY DEF Interp!CopySize
  <2>2. B \subseteq Nat
    BY <1>3 DEF Word, Low
  <2>3. \E m \in B : \A k \in B : m <= k
    <3> HIDE DEF B
    <3> QED BY <1>3, <2>2, LeastOf
  <2> HIDE DEF s, B
  <2> QED BY <2>1, <2>3 DEF Interp!Min
<1>5. s \in 0 .. 30
  BY <1>3, <1>4 DEF Word, Low
<1>6. s # 30
  <2> SUFFICES ASSUME s = 30 PROVE FALSE
    OBVIOUS
  <2>1. (n \div 2 ^ 30) % 2 = 1
    BY <1>4 DEF Interp!Bits
  <2>2. 2 ^ 30 = 1073741824
    BY SMT
  <2> DEFINE p == 2 ^ 30
  <2>3. p \in Nat /\ p > 31
    BY <2>2
  <2> HIDE DEF p
  <2>4. n \div p = 0
    BY <2>3
  <2> QED BY <2>1, <2>4 DEF p
<1> HIDE DEF s
<1>7. s \in 0 .. 30 /\ s + 1 \in 0 .. 30
  BY <1>5, <1>6
<1>8. 2 ^ s = Pow[s] /\ 2 ^ (s + 1) = Pow[s + 1]
  BY <1>7, Powers
<1>9. Pow[s] \in Nat /\ Pow[s + 1] \in Nat /\ Pow[s + 1] >= 1
  BY <1>7, PowFacts
<1>10. \A p \in Nat : p >= 1 => n \div p \in Nat
  OBVIOUS
<1> DEFINE p == 2 ^ s
           q == 2 ^ (s + 1)
<1>11. p \in Nat /\ n \div q \in Nat
  <2>1. q \in Nat /\ q >= 1 /\ p \in Nat
    BY <1>8, <1>9
  <2> HIDE DEF p, q
  <2> QED BY <1>10, <2>1
<1>12. 8 * p \in Nat
  <2> HIDE DEF p
  <2> QED BY <1>11
<1> QED BY <1>7, <1>11, <1>12 DEF s

\* A scalar instruction yields a vector register.
LEMMA ScalarTyped ==
    ASSUME NEW i \in VectorInsns, i.op \in Interp!ScalarOps, NEW a \in Word(128), NEW b, NEW d
    PROVE  Interp!Scalar(i, a, b, d) \in Word(128)
<1>1. \A x, y : x \in Word(128) => x \cap y \in Word(128)
  BY DEF Word
<1>2. CASE i.op = "SimdScalarThreeSame"
  <2>1. Interp!Scalar(i, a, b, d) = Interp!ThreeSame(i, FALSE, a, b, d) \cap Interp!Low(8 * 2 ^ i.size)
    BY <1>2 DEF Interp!Scalar
  <2> DEFINE t == Interp!ThreeSame(i, FALSE, a, b, d)
  <2>2. t \in Word(128)
    BY ThreeSameTyped, Zenon
  <2> HIDE DEF t
  <2>3. Interp!Scalar(i, a, b, d) = t \cap Interp!Low(8 * 2 ^ i.size)
    BY <2>1 DEF t
  <2>4. \A y : t \cap y \in Word(128)
    BY <1>1, <2>2, Zenon
  <2> QED BY <2>3, <2>4, Zenon
<1>3. CASE i.op = "SimdScalarTwoRegMisc"
  <2>1. Interp!Scalar(i, a, b, d) = Interp!TwoRegMisc(i, FALSE, a, d) \cap Interp!Low(8 * 2 ^ i.size)
    BY <1>3 DEF Interp!Scalar
  <2> DEFINE t == Interp!TwoRegMisc(i, FALSE, a, d)
  <2>2. t \in Word(128)
    BY TwoRegMiscTyped, Zenon
  <2> HIDE DEF t
  <2>3. Interp!Scalar(i, a, b, d) = t \cap Interp!Low(8 * 2 ^ i.size)
    BY <2>1 DEF t
  <2>4. \A y : t \cap y \in Word(128)
    BY <1>1, <2>2, Zenon
  <2> QED BY <2>3, <2>4, Zenon
<1>4. CASE i.op = "SimdScalarPairwise"
  <2>1. Interp!Scalar(i, a, b, d) = Interp!Add(Interp!Lane(a, 64, 0), Interp!Lane(a, 64, 1), 64)
    BY <1>4 DEF Interp!Scalar
  <2>2. Word(64) \subseteq Word(128)
    BY DEF Word, Low
  <2> QED BY <2>1, <2>2, AddTyped, Zenon
<1>5. CASE i.op = "SimdScalarThreeDiff"
  <2>1. Interp!Scalar(i, a, b, d) =
            Interp!ThreeDiff(i, FALSE, FALSE, a, b, d) \cap Interp!Low(16 * 2 ^ i.size)
    BY <1>5 DEF Interp!Scalar
  <2> DEFINE t == Interp!ThreeDiff(i, FALSE, FALSE, a, b, d)
  <2>2. t \in Word(128)
    BY ThreeDiffTyped, Zenon
  <2> HIDE DEF t
  <2>3. Interp!Scalar(i, a, b, d) = t \cap Interp!Low(16 * 2 ^ i.size)
    BY <2>1 DEF t
  <2>4. \A y : t \cap y \in Word(128)
    BY <1>1, <2>2, Zenon
  <2> QED BY <2>3, <2>4, Zenon
<1>6. CASE i.op = "SimdScalarCopy"
  <2> DEFINE e == 8 * 2 ^ Interp!CopySize(i.imm5)
             k == i.imm5 \div 2 ^ (Interp!CopySize(i.imm5) + 1)
  <2>1. Interp!Scalar(i, a, b, d) = Interp!Lane(a, e, k)
    BY <1>6 DEF Interp!Scalar
  <2>2. i \in ScalarCopies
    BY <1>6 DEF VectorInsns, AcrossLanes, Copies, InsElements, DupElements, DupGenerals, InsGenerals,
       MovToGprs, Exts, Indexeds, ModImms, ShiftImms, TableLookups, ThreeRegs, TwoRegs, ZipTrns,
       ScalarThreeSames, ScalarTwoRegMiscs, ScalarPairwises, ScalarThreeDiffs, ScalarCopies,
       ScalarIndexeds, ScalarShiftImms
  <2>3. i.imm5 \in 1 .. 31
    BY <2>2, SMT DEF ScalarCopies
  <2>4. e \in Nat /\ k \in Nat
    BY <2>3, CopySizeTyped, Zenon
  <2> HIDE DEF e, k
  <2> QED BY <2>1, <2>4, LaneTyped, Zenon
<1>7. CASE i.op = "SimdScalarIndexed"
  <2>1. Interp!Scalar(i, a, b, d) = Interp!Indexed(i, FALSE, a, b, d)
            \cap Interp!Low((IF i.opcode \in {12, 13} THEN 8 ELSE 16) * 2 ^ i.size)
    BY <1>7 DEF Interp!Scalar
  <2> DEFINE t == Interp!Indexed(i, FALSE, a, b, d)
             e == (IF i.opcode \in {12, 13} THEN 8 ELSE 16) * 2 ^ i.size
  <2>2. t \in Word(128)
    BY IndexedTyped, Zenon
  <2> HIDE DEF t, e
  <2>3. Interp!Scalar(i, a, b, d) = t \cap Interp!Low(e)
    BY <2>1 DEF t, e
  <2>4. \A y : t \cap y \in Word(128)
    BY <1>1, <2>2, Zenon
  <2> QED BY <2>3, <2>4, Zenon
<1>8. CASE i.op = "SimdScalarShiftImm"
  <2>1. Interp!Scalar(i, a, b, d) = Interp!ShiftImm(i, FALSE, a, d) \cap Interp!Low(Interp!ShiftSize(i))
    BY <1>8 DEF Interp!Scalar
  <2> DEFINE t == Interp!ShiftImm(i, FALSE, a, d)
  <2>2. t \in Word(128)
    BY ShiftImmTyped, Zenon
  <2> HIDE DEF t
  <2>3. Interp!Scalar(i, a, b, d) = t \cap Interp!Low(Interp!ShiftSize(i))
    BY <2>1 DEF t
  <2>4. \A y : t \cap y \in Word(128)
    BY <1>1, <2>2, Zenon
  <2> QED BY <2>3, <2>4, Zenon
<1> QED BY <1>2, <1>3, <1>4, <1>5, <1>6, <1>7, <1>8 DEF Interp!ScalarOps

\* The names of the variants, one by one.
LEMMA VectorNamed ==
    ASSUME NEW i \in VectorInsns
    PROVE  /\ i.op = "SimdAcrossLanes" => i \in AcrossLanes
           /\ i.op = "SimdInsElement" => i \in InsElements
           /\ i.op = "SimdInsGeneral" => i \in InsGenerals
           /\ i.op = "SimdDupElement" => i \in DupElements
           /\ i.op = "SimdDupGeneral" => i \in DupGenerals
           /\ i.op = "SimdMovToGpr" => i \in MovToGprs
           /\ i.op = "SimdModImm" => i \in ModImms
           /\ i.op # "SimdMovToGpr" => i.rd \in Reg
           /\ i.op \in Interp!ScalarOps => i.rn \in Reg
BY DEF VectorInsns, AcrossLanes, Copies, InsElements, DupElements, DupGenerals, InsGenerals,
       MovToGprs, Exts, Indexeds, ModImms, ShiftImms, TableLookups, ThreeRegs, TwoRegs, ZipTrns,
       ScalarThreeSames, ScalarTwoRegMiscs, ScalarPairwises, ScalarThreeDiffs, ScalarCopies,
       ScalarIndexeds, ScalarShiftImms, Interp!ScalarOps

\* The result of every vector instruction is a vector register.
LEMMA VectorResultTyped ==
    ASSUME NEW c \in Cpus, NEW i \in VectorInsns, i.op # "SimdMovToGpr"
    PROVE  Interp!VectorResult(c, i) \in Word(128)
<1> DEFINE a == c.v[i.rn]
           b == c.v[i.rm]
           d == c.v[i.rd]
           e == 8 * 2 ^ i.size
           result == Interp!VectorResult(c, i)
<1> SUFFICES result \in Word(128)
  OBVIOUS
<1>1. d \in Word(128) /\ (i.op \in Interp!ScalarOps => a \in Word(128))
  BY VectorNamed DEF Cpus, Reg
<1>2. CASE i.op \in Interp!ScalarOps
  <2>1. result = Interp!Scalar(i, a, b, d)
    BY <1>2 DEF Interp!VectorResult, Interp!ScalarOps
  <2> HIDE DEF result, a, b, d
  <2> QED BY <1>1, <1>2, <2>1, ScalarTyped
<1>3. CASE i.op = "SimdThreeSame"
  <2>1. result = Interp!ThreeSame(i, i.q, a, b, d)
    BY <1>3 DEF Interp!VectorResult, Interp!ScalarOps
  <2> HIDE DEF result, a, b, d, e
  <2> QED BY <2>1, ThreeSameTyped, Zenon
<1>4. CASE i.op = "SimdThreeSameExtra"
  <2>1. result = Interp!ThreeSameExtra(i, a, b, d)
    BY <1>4 DEF Interp!VectorResult, Interp!ScalarOps
  <2> HIDE DEF result, a, b, d, e
  <2> QED BY <2>1, ThreeSameExtraTyped, Zenon
<1>5. CASE i.op = "SimdThreeDiff"
  <2>1. result = Interp!ThreeDiff(i, i.q, i.u, a, b, d)
    BY <1>5 DEF Interp!VectorResult, Interp!ScalarOps
  <2> HIDE DEF result, a, b, d, e
  <2> QED BY <2>1, ThreeDiffTyped, Zenon
<1>6. CASE i.op = "SimdIndexed"
  <2>1. result = Interp!Indexed(i, i.q, a, b, d)
    BY <1>6 DEF Interp!VectorResult, Interp!ScalarOps
  <2> HIDE DEF result, a, b, d, e
  <2> QED BY <2>1, IndexedTyped, Zenon
<1>7. CASE i.op = "SimdTwoRegMisc"
  <2>1. result = Interp!TwoRegMisc(i, i.q, a, d)
    BY <1>7 DEF Interp!VectorResult, Interp!ScalarOps
  <2> HIDE DEF result, a, b, d, e
  <2> QED BY <2>1, TwoRegMiscTyped, Zenon
<1>8. CASE i.op = "SimdShiftImm"
  <2>1. result = Interp!ShiftImm(i, i.q, a, d)
    BY <1>8 DEF Interp!VectorResult, Interp!ScalarOps
  <2> HIDE DEF result, a, b, d, e
  <2> QED BY <2>1, ShiftImmTyped, Zenon
<1>9. CASE i.op = "SimdModImm"
  <2>1. result = Interp!ModImm(i, d)
    BY <1>9 DEF Interp!VectorResult, Interp!ScalarOps
  <2> HIDE DEF result, a, b, d, e
  <2> QED BY <2>1, PermuteTyped, Zenon
<1>10. CASE i.op = "SimdZipTrn"
  <2>1. result = Interp!ZipTrn(i, a, b)
    BY <1>10 DEF Interp!VectorResult, Interp!ScalarOps
  <2> HIDE DEF result, a, b, d, e
  <2> QED BY <2>1, PermuteTyped, Zenon
<1>11. CASE i.op = "SimdExt"
  <2>1. result = Interp!Ext(i, a, b)
    BY <1>11 DEF Interp!VectorResult, Interp!ScalarOps
  <2> HIDE DEF result, a, b, d, e
  <2> QED BY <2>1, PermuteTyped, Zenon
<1>12. CASE i.op = "SimdTableLookup"
  <2>1. result = Interp!TableLookup(c, i, b, d)
    BY <1>12 DEF Interp!VectorResult, Interp!ScalarOps
  <2> HIDE DEF result, a, b, d, e
  <2> QED BY <2>1, PermuteTyped, Zenon
<1>13. CASE i.op = "SimdDupGeneral"
  <2>1. result = Interp!dup(Interp!read_gpr(c, i.rn, FALSE), e, i.q)
    BY <1>13 DEF Interp!VectorResult, Interp!ScalarOps
  <2> HIDE DEF result, a, b, d, e
  <2> QED BY <2>1, PermuteTyped, Zenon
<1>14. CASE i.op = "SimdDupElement"
  <2>1. result = Interp!dup(Interp!Lane(a, e, i.index), e, i.q)
    BY <1>14 DEF Interp!VectorResult, Interp!ScalarOps
  <2> HIDE DEF result, a, b, d, e
  <2> QED BY <2>1, PermuteTyped, Zenon
<1>15. CASE i.op = "SimdAcrossLanes"
  <2>1. result = Interp!Across(i, a)
    BY <1>15 DEF Interp!VectorResult, Interp!ScalarOps
  <2> HIDE DEF result, a, b, d, e
  <2> QED BY <1>15, <2>1, VectorNamed, AcrossTyped
<1>16. CASE i.op = "SimdInsGeneral"
  <2>1. result = Interp!set_lane(d, e, i.index, Interp!read_gpr(c, i.rn, FALSE))
    BY <1>16 DEF Interp!VectorResult, Interp!ScalarOps
  <2> HIDE DEF result, a, b, d, e
  <2> QED BY <1>1, <2>1, SetLaneTyped, Zenon
<1>17. CASE i.op = "SimdInsElement"
  <2>1. result = Interp!set_lane(d, e, i.dst, Interp!Lane(a, e, i.src))
    BY <1>17 DEF Interp!VectorResult, Interp!ScalarOps
  <2> HIDE DEF result, a, b, d, e
  <2> QED BY <1>1, <2>1, SetLaneTyped, Zenon
<1>18. i.op \in Interp!VectorOps \ {"SimdMovToGpr"}
  BY VectorNames
<1> HIDE DEF result
<1> QED BY <1>2, <1>3, <1>4, <1>5, <1>6, <1>7, <1>8, <1>9, <1>10, <1>11, <1>12, <1>13, <1>14, <1>15,
           <1>16, <1>17, <1>18, Zenon DEF Interp!VectorOps, result

(* What step does to one decoded instruction keeps the processor typed.      *)
LEMMA StepTyped ==
    ASSUME NEW c \in Cpus, NEW i \in IntegerInsns \cup BranchInsns \cup VectorInsns
    PROVE  Interp!step(c, i) \in Cpus
<1>1. CASE i \in IntegerInsns \cup BranchInsns
  <2>1. i.op \notin Interp!VectorOps
    BY <1>1, IntegerNames, BranchNames, NamesApart
  <2> QED BY <1>1, <2>1, BranchTyped DEF Interp!step
<1>2. CASE i \in VectorInsns
  <2>1. Interp!Next4(c) \in Word(64)
    BY AddTyped DEF Interp!Next4
  <2>2. Interp!Vector(c, i) \in Cpus
    <3>1. CASE i.op = "SimdMovToGpr"
      <4>1. i.dst64 \in BOOLEAN
        BY <1>2, <3>1, VectorNamed DEF MovToGprs
      <4>2. \A val : Interp!write(c, i.rd, i.dst64, val, FALSE) \in Cpus
        BY <4>1, WriteTyped, Zenon
      <4>3. Interp!Vector(c, i) = Interp!mov_to_gpr(c, i)
        BY <3>1 DEF Interp!Vector
      <4> QED BY <4>2, <4>3, Zenon DEF Interp!mov_to_gpr
    <3>2. CASE i.op # "SimdMovToGpr"
      <4> DEFINE r == Interp!VectorResult(c, i)
      <4>1. r \in Word(128) /\ i.rd \in 0 .. 31
        BY <1>2, <3>2, VectorResultTyped, VectorNamed DEF Reg
      <4>2. Interp!Vector(c, i) = [c EXCEPT !.v[i.rd] = r]
        BY <3>2 DEF Interp!Vector
      <4> HIDE DEF r
      <4> QED BY <4>1, <4>2 DEF Cpus
    <3> QED BY <3>1, <3>2
  <2> DEFINE d == Interp!Vector(c, i)
             p == Interp!Next4(c)
  <2>3. Interp!step(c, i) = [d EXCEPT !.pc = p]
    BY <1>2, VectorNames, Zenon DEF Interp!step
  <2>4. d \in Cpus /\ p \in Word(64)
    BY <2>1, <2>2
  <2> HIDE DEF d, p
  <2> QED BY <2>3, <2>4 DEF Cpus
<1> QED BY <1>1, <1>2

-----------------------------------------------------------------------------
(* The emitted code keeps the widths of the register image.                 *)

Img == [x: [0 .. 30 -> Word(64)], sp: Word(64), nzcv: SUBSET Nzcv, v: [0 .. 31 -> Word(128)],
        pc: Word(64)]

(* The i64 instructions yield 64 bits.                                      *)
LEMMA I64Typed ==
    ASSUME NEW a, NEW b, NEW n
    PROVE  /\ I64Shl(a, n) \in Word(64) /\ I64Add(a, b) \in Word(64) /\ I64Sub(a, b) \in Word(64)
           /\ I64Mul(a, b) \in Word(64)
BY DEF I64Shl, Shl, I64Add, Add, I64Sub, Minus, I64Mul, W64, Word

\* A right shift keeps the width.
LEMMA I64ShrTyped ==
    ASSUME NEW w \in Nat, NEW a \in Word(w), NEW n \in Int
    PROVE  I64ShrU(a, n) \in Word(w)
<1>1. n % 64 \in Nat
  BY SMT
<1> DEFINE k == n % 64
<1>2. Shr(a, k) \in Word(w)
  <2> HIDE DEF k
  <2> QED BY <1>1 DEF Shr, Word, Low, k
<1> QED BY <1>2 DEF I64ShrU

\* An arithmetic shift keeps the width,
LEMMA SarTyped ==
    ASSUME NEW w \in Nat, NEW a \in Word(w), NEW n \in 0 .. w
    PROVE  Sar(a, n, w) \in Word(w)
<1>1. Shr(a, n) \in Word(w)
  BY DEF Shr, Word, Low
<1>2. (w - n) .. (w - 1) \in Word(w)
  BY DEF Word, Low
<1> QED BY <1>1, <1>2 DEF Sar, Word

\* also as the i64 instruction.
LEMMA I64ShrSTyped ==
    ASSUME NEW a \in Word(64), NEW n \in Int
    PROVE  I64ShrS(a, n) \in Word(64)
<1> DEFINE k == n % 64
<1>1. k \in 0 .. 64 /\ 64 \in Nat
  BY SMT
<1>2. I64ShrS(a, n) = Sar(a, k, 64)
  BY DEF I64ShrS
<1> HIDE DEF k
<1> QED BY <1>1, <1>2, SarTyped, Zenon

\* A rotation keeps the width.
LEMMA RorTyped ==
    ASSUME NEW w \in Nat \ {0}, NEW a \in Word(w), NEW n \in Int
    PROVE  Ror(a, n, w) \in Word(w)
BY DEF Ror, Word, Low

\* And, or, exclusive or and difference keep the width.
LEMMA SetsTyped ==
    ASSUME NEW n, NEW a, NEW b
    PROVE  /\ a \in Word(n) => a \cap b \in Word(n) /\ a \ b \in Word(n)
           /\ b \in Word(n) => a \cap b \in Word(n)
           /\ a \in Word(n) /\ b \in Word(n) => a \cup b \in Word(n) /\ Xor(a, b) \in Word(n)
           /\ {} \in Word(n)
BY DEF Word, Xor, SymDiff

\* The constants are words.
LEMMA ConstantsTyped ==
    /\ W64 \in Word(64) /\ AllOnes \in Word(64) /\ {} \in Word(64) /\ {0} \in Word(64)
    /\ \A b : Bool(b) \in SUBSET {0} /\ Bool(b) \in Word(64)
    /\ \A n : Bits(n) \in Word(64)
    /\ W32 \in Word(32) /\ Word(32) \subseteq Word(64)
BY DEF W64, W32, AllOnes, Word, Low, Bool, Bits

(* mask_w, and what the operands and the results of an instruction are.     *)
LEMMA MaskTyped ==
    ASSUME NEW v, NEW sf64
    PROVE  /\ (sf64 => v \in Word(64)) => mask_w(v, sf64) \in Word(64)
           /\ ~ sf64 => mask_w(v, sf64) \in Word(32)
<1>1. v \cap W32 \in Word(32)
  BY DEF W32, Word
<1> QED BY <1>1, ConstantsTyped DEF mask_w

\* What an operand reads as is a word of its width.
LEMMA PushTyped ==
    ASSUME NEW m \in Img, NEW idx \in Reg, NEW sf64, NEW sp
    PROVE  /\ push_operand(m, idx, sf64, sp) \in Word(64)
           /\ ~ sf64 => push_operand(m, idx, sf64, sp) \in Word(32)
           /\ load_x(m, idx) \in Word(64)
<1>1. load_x(m, idx) \in Word(64)
  BY DEF load_x, Img, Reg
<1>2. {} \in Word(32) /\ {} \in Word(64)
  BY DEF Word
<1> QED BY <1>1, <1>2, MaskTyped DEF push_operand

\* A store into a local keeps the image typed.
LEMMA StoreTyped ==
    ASSUME NEW m \in Img, NEW rd \in Reg, NEW sf64, NEW sp, NEW v, sf64 => v \in Word(64)
    PROVE  store_local(m, rd, sf64, sp, v) \in Img
<1> DEFINE u == mask_w(v, sf64)
<1>1. u \in Word(64)
  BY MaskTyped
<1>2. \/ store_local(m, rd, sf64, sp, v) = m
      \/ store_local(m, rd, sf64, sp, v) = [m EXCEPT !.sp = u]
      \/ rd # 31 /\ store_local(m, rd, sf64, sp, v) = [m EXCEPT !.x[rd] = u]
  BY Zenon DEF store_local
<1> HIDE DEF u
<1> QED BY <1>1, <1>2 DEF Img, Reg

\* So does a store of the flags.
LEMMA NzcvTyped ==
    ASSUME NEW m \in Img, NEW f \in SUBSET Nzcv
    PROVE  [m EXCEPT !.nzcv = f] \in Img
BY DEF Img

-----------------------------------------------------------------------------
(* Flags: what is shifted into the flag word is one bit, at its place.      *)

\* The bit above all others, moved to the bottom, is alone there.
LEMMA TopBit ==
    ASSUME NEW n \in {31, 32, 63}, NEW v \in Word(n + 1)
    PROVE  I64ShrU(v, n) \in SUBSET {0}
<1>1. n % 64 = n
  BY SMT
<1>2. Shr(v, n) \in SUBSET {0}
  BY SMT DEF Shr, Word, Low
<1> QED BY <1>1, <1>2 DEF I64ShrU

\* One bit shifted to a flag's place is that flag.
LEMMA FlagPlace ==
    ASSUME NEW s \in SUBSET {0}, NEW b \in Nzcv
    PROVE  I64Shl(s, b) \in SUBSET Nzcv
<1>1. b % 64 = b /\ b \in 28 .. 31
  BY SMT DEF Nzcv
<1>2. Shl(s, b, 64) \in SUBSET {b}
  BY <1>1, SMT DEF Shl
<1>3. {b} \subseteq Nzcv
  OBVIOUS
<1> QED BY <1>1, <1>2, <1>3 DEF I64Shl

\* The four places.
LEMMA FlagNames == Nb \in Nzcv /\ Zb \in Nzcv /\ Cb \in Nzcv /\ Vb \in Nzcv
BY SMT DEF Nb, Zb, Cb, Vb, Nzcv

\* The sign and zero flags are flags.
LEMMA SignAndZeroTyped ==
    ASSUME NEW sign \in {31, 63}, NEW v \in Word(sign + 1)
    PROVE  SignAndZero(v, sign) \in SUBSET Nzcv
<1>1. I64ShrU(v, sign) \in SUBSET {0}
  BY TopBit
<1>2. I64Shl(I64ShrU(v, sign), Nb) \in SUBSET Nzcv
  BY <1>1, FlagPlace, FlagNames, Zenon
<1>3. I64Shl(Bool(v = {}), Zb) \in SUBSET Nzcv
  BY ConstantsTyped, FlagPlace, FlagNames, Zenon
<1> QED BY <1>2, <1>3 DEF SignAndZero

\* The sum of two 32-bit words and a carry has 33 bits.
LEMMA ExactSum ==
    ASSUME NEW x \in Word(32), NEW y \in Word(32), NEW c \in SUBSET {0}
    PROVE  I64Add(I64Add(x, y), c) \in Word(33)
           /\ I64Add(I64Add(x, y), c) = Plus(Plus(x, y), c)
<1>1. 32 \in Nat \ {0} /\ 32 + 1 = 33 /\ 32 \in Nat
  BY SMT
<1>2. c \in {{}, {0}}
  OBVIOUS
<1>3. Plus(Plus(x, y), c) \in Word(33)
  <2>1. Plus(Plus(x, y), c) \in Word(32 + 1)
    BY <1>1, <1>2, PlusThree, Zenon
  <2> QED BY <1>1, <2>1
<1>4. Plus(x, y) \in Word(33)
  <2>1. Plus(x, y) \in Word(32 + 1)
    BY <1>1, PlusVal, Zenon
  <2> QED BY <1>1, <2>1
<1>5. \A s \in Word(33) : s \cap Low(64) = s
  <2>1. Low(33) \subseteq Low(64)
    BY SMT DEF Low
  <2> QED BY <2>1 DEF Word
<1>6. I64Add(x, y) = Plus(x, y)
  BY <1>4, <1>5 DEF I64Add, Add
<1>7. I64Add(Plus(x, y), c) = Plus(Plus(x, y), c)
  BY <1>3, <1>5 DEF I64Add, Add
<1> QED BY <1>3, <1>6, <1>7

\* A sum is a word and its flags are flags.
LEMMA AddCoreTyped ==
    ASSUME NEW t0 \in Word(64), NEW t1 \in Word(64), NEW carry \in SUBSET {0}, NEW sf64,
           ~ sf64 => t0 \in Word(32) /\ t1 \in Word(32)
    PROVE  /\ emit_add_core(t0, t1, carry, sf64)[1] \in Word(64)
           /\ emit_add_core(t0, t1, carry, sf64)[2] \in SUBSET Nzcv
<1>1. 63 + 1 = 64 /\ 31 + 1 = 32 /\ 32 + 1 = 33
  BY SMT
<1>2. CASE sf64
  <2> DEFINE t2 == I64Add(t0, t1)
             t3 == I64Add(t2, carry)
             nz == SignAndZero(t3, 63)
             c  == I64Shl(Bool(ULess(t2, t0) \/ ULess(t3, t2)), Cb)
             x  == Xor(t0, t3) \cap Xor(t1, t3)
             v  == I64Shl(I64ShrU(x, 63), Vb)
  <2>1. emit_add_core(t0, t1, carry, sf64) = <<t3, nz \cup c \cup v>>
    BY <1>2, Zenon DEF emit_add_core
  <2>2. t3 \in Word(64)
    BY I64Typed
  <2>3. nz \in SUBSET Nzcv
    <3> HIDE DEF t3
    <3> QED BY <1>1, <2>2, SignAndZeroTyped
  <2>4. c \in SUBSET Nzcv
    BY ConstantsTyped, FlagPlace, FlagNames, Zenon
  <2>5. x \in Word(64)
    <3> HIDE DEF t3
    <3> QED BY <2>2, SetsTyped
  <2>6. v \in SUBSET Nzcv
    <3> HIDE DEF x
    <3>1. I64ShrU(x, 63) \in SUBSET {0}
      BY <1>1, <2>5, TopBit
    <3> QED BY <3>1, FlagPlace, FlagNames, Zenon
  <2> HIDE DEF t3, nz, c, v
  <2> QED BY <2>1, <2>2, <2>3, <2>4, <2>6
<1>3. CASE ~ sf64
  <2> DEFINE t3 == I64Add(I64Add(t0, t1), carry)
             t2 == t3 \cap W32
             nz == SignAndZero(t2, 31)
             c  == I64Shl(I64ShrU(t3, 32), Cb)
             x  == Xor(t0, t2) \cap Xor(t1, t2)
             v  == I64Shl(I64ShrU(x, 31), Vb)
  <2>1. emit_add_core(t0, t1, carry, sf64) = <<t2, nz \cup c \cup v>>
    BY <1>3, Zenon DEF emit_add_core
  <2>2. t3 \in Word(33)
    BY <1>3, ExactSum
  <2>3. t2 \in Word(32) /\ t2 \in Word(64)
    BY ConstantsTyped, SetsTyped
  <2>4. nz \in SUBSET Nzcv
    <3> HIDE DEF t2
    <3> QED BY <1>1, <2>3, SignAndZeroTyped
  <2>5. c \in SUBSET Nzcv
    <3> HIDE DEF t3
    <3>1. I64ShrU(t3, 32) \in SUBSET {0}
      BY <1>1, <2>2, TopBit
    <3> QED BY <3>1, FlagPlace, FlagNames, Zenon
  <2>6. x \in Word(32)
    <3> HIDE DEF t2
    <3> QED BY <1>3, <2>3, SetsTyped
  <2>7. v \in SUBSET Nzcv
    <3> HIDE DEF x
    <3>1. I64ShrU(x, 31) \in SUBSET {0}
      BY <1>1, <2>6, TopBit
    <3> QED BY <3>1, FlagPlace, FlagNames, Zenon
  <2> HIDE DEF t2, nz, c, v
  <2> QED BY <2>1, <2>3, <2>4, <2>5, <2>7
<1> QED BY <1>2, <1>3

-----------------------------------------------------------------------------
(* Each lowering.                                                           *)

\* The second operand of an addition is a word.
LEMMA SetupTyped ==
    ASSUME NEW b \in Word(64), NEW sub, NEW sf64
    PROVE  /\ setup_b(b, sub, sf64) \in Word(64)
           /\ ~ sf64 => setup_b(b, sub, sf64) \in Word(32)
<1>1. (IF sub THEN Xor(b, AllOnes) ELSE b) \in Word(64)
  BY ConstantsTyped, SetsTyped
<1> QED BY <1>1, MaskTyped DEF setup_b

\* An addition keeps the image typed.
LEMMA AddLowered ==
    ASSUME NEW m \in Img, NEW i, i.rn \in Reg, i.rd \in Reg, NEW b \in Word(64), NEW rn_sp,
           NEW rd_sp, NEW carry \in SUBSET {0}
    PROVE  lower_add(m, i, b, rn_sp, rd_sp, carry) \in Img
<1> DEFINE x == push_operand(m, i.rn, i.sf, rn_sp)
           y == setup_b(b, i.sub, i.sf)
           core == emit_add_core(x, y, carry, i.sf)
           m1 == store_local(m, i.rd, i.sf, rd_sp, core[1])
<1>1. x \in Word(64) /\ (~ i.sf => x \in Word(32))
  BY PushTyped
<1>2. y \in Word(64) /\ (~ i.sf => y \in Word(32))
  BY SetupTyped
<1>3. core[1] \in Word(64) /\ core[2] \in SUBSET Nzcv
  <2> HIDE DEF x, y
  <2> QED BY <1>1, <1>2, AddCoreTyped
<1>4. m1 \in Img
  <2> HIDE DEF core
  <2> QED BY <1>3, StoreTyped
<1>5. lower_add(m, i, b, rn_sp, rd_sp, carry)
          = IF i.set_flags THEN [m1 EXCEPT !.nzcv = core[2]] ELSE m1
  BY Zenon DEF lower_add
<1> HIDE DEF m1, core
<1> QED BY <1>3, <1>4, <1>5, NzcvTyped

\* A shifted operand is a word,
LEMMA ShiftTyped ==
    ASSUME NEW v \in Word(64), NEW shift \in ShiftType, NEW amount \in Nat, NEW sf64 \in BOOLEAN
    PROVE  emit_shift(v, shift, amount, sf64) \in Word(64)
<1> DEFINE n == amount % (IF sf64 THEN 64 ELSE 32)
<1>1. n \in Int
  BY SMT
<1>2. 64 \in Nat \ {0} /\ 64 \in Nat /\ 32 + n \in Int /\ 32 - n \in Int
  BY <1>1, SMT
<1> HIDE DEF n
<1>3. \A a, k : I64Shl(a, k) \in Word(64)
  BY I64Typed
<1>4. \A a \in Word(64), k \in Int : I64ShrU(a, k) \in Word(64) /\ I64ShrS(a, k) \in Word(64)
  BY <1>2, I64ShrTyped, I64ShrSTyped, Zenon
<1>5. mask_w(I64Shl(v, n), sf64) \in Word(64)
  BY <1>3, MaskTyped
<1>6. I64ShrU(v, n) \in Word(64) /\ I64ShrS(v, n) \in Word(64)
  BY <1>1, <1>4
<1>7. I64ShrS(I64Shl(v, 32), 32 + n) \cap W32 \in Word(64)
  BY <1>2, <1>3, <1>4, SetsTyped
<1>8. Ror(v, n, 64) \in Word(64)
  BY <1>1, <1>2, RorTyped, Zenon
<1>9. I64ShrU(v, n) \cup (I64Shl(v, 32 - n) \cap W32) \in Word(64)
  <2>1. I64Shl(v, 32 - n) \cap W32 \in Word(64)
    BY <1>3, SetsTyped
  <2> QED BY <1>6, <2>1, SetsTyped
<1>10. emit_shift(v, shift, amount, sf64) =
          CASE shift = "Lsl" -> mask_w(I64Shl(v, n), sf64)
            [] shift = "Lsr" -> I64ShrU(v, n)
            [] shift = "Asr" /\ sf64 -> I64ShrS(v, n)
            [] shift = "Asr" /\ ~sf64 -> I64ShrS(I64Shl(v, 32), 32 + n) \cap W32
            [] shift = "Ror" /\ sf64 -> Ror(v, n, 64)
            [] shift = "Ror" /\ ~sf64 -> IF n = 0 THEN v
                                         ELSE I64ShrU(v, n) \cup (I64Shl(v, 32 - n) \cap W32)
  BY Zenon DEF emit_shift, n
<1> DEFINE r == emit_shift(v, shift, amount, sf64)
           v1 == mask_w(I64Shl(v, n), sf64)
           v2 == I64ShrU(v, n)
           v3 == I64ShrS(v, n)
           v4 == I64ShrS(I64Shl(v, 32), 32 + n) \cap W32
           v5 == Ror(v, n, 64)
           v6 == I64ShrU(v, n) \cup (I64Shl(v, 32 - n) \cap W32)
<1>11. \/ shift = "Lsl" \/ shift = "Lsr" \/ shift = "Asr" \/ shift = "Ror"
  BY DEF ShiftType
<1>12. r = v1 \/ r = v2 \/ r = v3 \/ r = v4 \/ r = v5 \/ r = v6 \/ r = v
  BY <1>10, <1>11
<1> HIDE DEF r, v1, v2, v3, v4, v5, v6
<1>13. r \in Word(64)
  BY <1>5, <1>6, <1>7, <1>8, <1>9, <1>12 DEF v1, v2, v3, v4, v5, v6
<1> QED BY <1>13 DEF r

\* complemented or not.
LEMMA ShiftedTyped ==
    ASSUME NEW m \in Img, NEW i, i.rm \in Reg, i.shift \in ShiftType, i.amount \in 0 .. 63,
           i.sf \in BOOLEAN, NEW negate
    PROVE  push_shifted(m, i, negate) \in Word(64)
<1> DEFINE p == push_operand(m, i.rm, i.sf, FALSE)
           v == emit_shift(p, i.shift, i.amount, i.sf)
<1>1. p \in Word(64)
  BY PushTyped
<1>2. v \in Word(64)
  <2>1. i.amount \in Nat
    OBVIOUS
  <2> HIDE DEF p
  <2> QED BY <1>1, <2>1, ShiftTyped
<1>3. Xor(v, AllOnes) \in Word(64)
  BY <1>2, ConstantsTyped, SetsTyped
<1>4. push_shifted(m, i, negate) = IF negate THEN mask_w(Xor(v, AllOnes), i.sf) ELSE v
  BY Zenon DEF push_shifted
<1> HIDE DEF v
<1> QED BY <1>2, <1>3, <1>4, MaskTyped

\* A logical operation keeps the image typed.
LEMMA LogicalLowered ==
    ASSUME NEW m \in Img, NEW i, i.rn \in Reg, i.rd \in Reg, i.opc \in 0 .. 3, NEW b \in Word(64),
           NEW dst_sp
    PROVE  lower_logical(m, i, b, dst_sp) \in Img
<1> DEFINE a == push_operand(m, i.rn, i.sf, FALSE)
           r == CASE i.opc \in {0, 3} -> a \cap b [] i.opc = 1 -> a \cup b [] i.opc = 2 -> Xor(a, b)
           t0 == mask_w(r, i.sf)
           m1 == store_local(m, i.rd, i.sf, dst_sp, t0)
           s  == IF i.sf THEN 63 ELSE 31
           f  == SignAndZero(t0, s)
<1>1. a \in Word(64)
  BY PushTyped
<1>2. r \in Word(64)
  <2>1. a \cap b \in Word(64) /\ a \cup b \in Word(64) /\ Xor(a, b) \in Word(64)
    BY <1>1, SetsTyped
  <2> HIDE DEF a
  <2> QED BY <2>1
<1>3. t0 \in Word(64) /\ (~ i.sf => t0 \in Word(32))
  <2> HIDE DEF r
  <2> QED BY <1>2, MaskTyped
<1> HIDE DEF r, t0
<1>4. m1 \in Img
  BY <1>3, StoreTyped
<1>5. f \in SUBSET Nzcv
  <2>1. s \in {31, 63} /\ t0 \in Word(s + 1)
    <3>1. 63 + 1 = 64 /\ 31 + 1 = 32
      BY SMT
    <3> QED BY <1>3, <3>1
  <2> HIDE DEF s
  <2> QED BY <2>1, SignAndZeroTyped
<1>6. lower_logical(m, i, b, dst_sp) = IF i.opc = 3 THEN [m1 EXCEPT !.nzcv = f] ELSE m1
  BY Zenon DEF lower_logical, t0, r
<1> HIDE DEF m1, f
<1> QED BY <1>4, <1>5, <1>6, NzcvTyped

\* A wide move does.
LEMMA MoveLowered ==
    ASSUME NEW m \in Img, NEW i \in MoveWides
    PROVE  lower_move_wide(m, i) \in Img
<1> DEFINE imm  == I64Shl(i.imm16, 16 * i.hw)
           keep == W64 \ I64Shl(Low(16), 16 * i.hw)
           v    == CASE i.opc = 2 -> imm
                     [] i.opc = 0 -> W64 \ imm
                     [] i.opc = 3 -> (m.x[i.rd] \cap keep) \cup imm
<1>1. imm \in Word(64)
  BY I64Typed
<1>2. W64 \ imm \in Word(64) /\ keep \in Word(64)
  BY ConstantsTyped, SetsTyped
<1>3. (m.x[i.rd] \cap keep) \cup imm \in Word(64)
  BY <1>1, <1>2, SetsTyped
<1>4. i.opc \in {0, 2, 3} /\ i.rd \in Reg
  BY DEF MoveWides
<1>5. v \in Word(64)
  <2> HIDE DEF imm, keep
  <2> QED BY <1>1, <1>2, <1>3, <1>4
<1>6. lower_move_wide(m, i) = IF i.rd = 31 THEN m ELSE store_local(m, i.rd, i.sf, FALSE, v)
  BY Zenon DEF lower_move_wide
<1> HIDE DEF v
<1> QED BY <1>4, <1>5, <1>6, StoreTyped

\* An extraction does.
LEMMA ExtractLowered ==
    ASSUME NEW m \in Img, NEW i \in Extracts
    PROVE  lower_extract(m, i) \in Img
<1> DEFINE rm == push_operand(m, i.rm, i.sf, FALSE)
           rn == push_operand(m, i.rn, i.sf, FALSE)
           w  == IF i.sf THEN 64 ELSE 32
           v  == IF i.lsb = 0 THEN rm
                 ELSE I64ShrU(rm, i.lsb) \cup mask_w(I64Shl(rn, w - i.lsb), i.sf)
<1>1. i.rm \in Reg /\ i.rn \in Reg /\ i.rd \in Reg /\ i.lsb \in Int
  BY DEF Extracts
<1>2. rm \in Word(64) /\ rn \in Word(64)
  BY <1>1, PushTyped
<1>3. v \in Word(64)
  <2> HIDE DEF rm, rn, w
  <2>1. I64ShrU(rm, i.lsb) \in Word(64)
    <3>1. 64 \in Nat
      BY SMT
    <3> QED BY <1>1, <1>2, <3>1, I64ShrTyped, Zenon
  <2>2. mask_w(I64Shl(rn, w - i.lsb), i.sf) \in Word(64)
    BY I64Typed, MaskTyped
  <2> QED BY <1>2, <2>1, <2>2, SetsTyped
<1>4. lower_extract(m, i) = store_local(m, i.rd, i.sf, FALSE, v)
  BY Zenon DEF lower_extract
<1> HIDE DEF v
<1> QED BY <1>1, <1>3, <1>4, StoreTyped

\* A pc worked out from the entry is a word.
LEMMA PcTyped ==
    ASSUME NEW m, NEW abs, NEW entry_pc
    PROVE  gen_rel_pc(m, abs, entry_pc) \in Word(64)
BY I64Typed DEF gen_rel_pc

\* A PC-relative address keeps the image typed.
LEMMA PcRelLowered ==
    ASSUME NEW m \in Img, NEW i \in PcRels, NEW pc, NEW entry_pc
    PROVE  lower_pc_rel(m, i, pc, entry_pc) \in Img
<1>1. i.rd \in Reg
  BY DEF PcRels
<1>2. \A v \in Word(64) : store_local(m, i.rd, TRUE, FALSE, v) \in Img
  BY <1>1, StoreTyped
<1> QED BY <1>2, I64Typed, PcTyped, Zenon DEF lower_pc_rel

\* A conditional selection does.
LEMMA SelectLowered ==
    ASSUME NEW m \in Img, NEW i \in CondSelects
    PROVE  lower_cond_select(m, i) \in Img
<1> DEFINE rm == push_operand(m, i.rm, i.sf, FALSE)
           r  == CASE ~i.op1 /\ ~i.o2 -> rm
                   [] ~i.op1 /\ i.o2 -> I64Add(rm, {0})
                   [] i.op1 /\ ~i.o2 -> Xor(rm, AllOnes)
                   [] i.op1 /\ i.o2 -> I64Mul(rm, AllOnes)
           t0 == IF emit_cond_test(m, i.cond) THEN push_operand(m, i.rn, i.sf, FALSE)
                 ELSE mask_w(r, i.sf)
<1>1. i.rm \in Reg /\ i.rn \in Reg /\ i.rd \in Reg /\ i.op1 \in BOOLEAN /\ i.o2 \in BOOLEAN
  BY DEF CondSelects
<1>2. rm \in Word(64) /\ push_operand(m, i.rn, i.sf, FALSE) \in Word(64)
  BY <1>1, PushTyped
<1>3. r \in Word(64)
  <2> HIDE DEF rm
  <2> QED BY <1>1, <1>2, I64Typed, SetsTyped, ConstantsTyped
<1>4. t0 \in Word(64)
  <2> HIDE DEF r
  <2> QED BY <1>2, <1>3, MaskTyped
<1>5. lower_cond_select(m, i) = store_local(m, i.rd, i.sf, FALSE, t0)
  BY Zenon DEF lower_cond_select
<1> HIDE DEF t0
<1> QED BY <1>1, <1>4, <1>5, StoreTyped

\* A conditional comparison does.
LEMMA CompareLowered ==
    ASSUME NEW m \in Img, NEW i \in CondCompares
    PROVE  lower_cond_compare(m, i) \in Img
<1> DEFINE y == IF i.is_imm THEN Bits(i.imm_y) ELSE push_operand(m, i.rm, i.sf, FALSE)
           x == push_operand(m, i.rn, i.sf, FALSE)
           b == setup_b(y, i.sub, i.sf)
           f == IF emit_cond_test(m, i.cond) THEN emit_add_core(x, b, Bool(i.sub), i.sf)[2]
                ELSE Shl(i.nzcv, 28, 64)
<1>1. i.rm \in Reg /\ i.rn \in Reg /\ i.nzcv \in Word(4)
  BY DEF CondCompares
<1>2. y \in Word(64) /\ x \in Word(64) /\ (~ i.sf => x \in Word(32))
  BY <1>1, PushTyped, ConstantsTyped
<1>3. b \in Word(64) /\ (~ i.sf => b \in Word(32))
  <2> HIDE DEF y
  <2> QED BY <1>2, SetupTyped
<1>4. emit_add_core(x, b, Bool(i.sub), i.sf)[2] \in SUBSET Nzcv
  <2>1. Bool(i.sub) \in SUBSET {0}
    BY ConstantsTyped, Zenon
  <2> HIDE DEF x, b
  <2> QED BY <1>2, <1>3, <2>1, AddCoreTyped
<1>5. Shl(i.nzcv, 28, 64) \in SUBSET Nzcv
  BY <1>1, SMT DEF Shl, Word, Low, Nzcv
<1>6. lower_cond_compare(m, i) = [m EXCEPT !.nzcv = f]
  BY Zenon DEF lower_cond_compare
<1>7. f \in SUBSET Nzcv
  BY <1>4, <1>5
<1> HIDE DEF f
<1> QED BY <1>6, <1>7, NzcvTyped

\* A bit field move does.
LEMMA BitfieldLowered ==
    ASSUME NEW m \in Img, NEW i \in Bitfields
    PROVE  lower_bitfield(m, i) \in Img
<1> DEFINE dmask == mask_w(W64, i.sf)
           wmask == i.wmask \cap dmask
           tmask == i.tmask \cap dmask
           r     == i.immr % (IF i.sf THEN 64 ELSE 32)
           t0    == push_operand(m, i.rn, i.sf, FALSE)
           s     == IF i.sf THEN Ror(t0, r, 64)
                    ELSE IF r = 0 THEN t0
                    ELSE I64ShrU(t0, r) \cup (I64Shl(t0, 32 - r) \cap W32)
           t1    == wmask \cap s
           t2    == load_x(m, i.rd)
           sign  == I64Mul(dmask \ tmask, I64ShrU(t0, i.imms) \cap {0})
           t3    == CASE i.opc = 2 -> t1 \cap tmask
                      [] i.opc = 0 -> sign \cup (t1 \cap tmask)
                      [] i.opc = 1 -> (t2 \ tmask) \cup (((t2 \ wmask) \cup t1) \cap tmask)
<1>1. i.rn \in Reg /\ i.rd \in Reg /\ i.wmask \in Word(64) /\ i.tmask \in Word(64) /\ i.opc \in 0 .. 2
  BY DEF Bitfields
<1>2. wmask \in Word(64) /\ tmask \in Word(64)
  BY <1>1, SetsTyped
<1>3. t1 \in Word(64)
  <2> HIDE DEF wmask, s
  <2> QED BY <1>2, SetsTyped
<1>4. t2 \in Word(64)
  BY <1>1, PushTyped
<1>5. sign \in Word(64)
  BY I64Typed
<1>6. t3 \in Word(64)
  <2> HIDE DEF wmask, tmask, t1, t2, sign
  <2>1. t1 \cap tmask \in Word(64) /\ t2 \ tmask \in Word(64)
        /\ ((t2 \ wmask) \cup t1) \cap tmask \in Word(64)
    BY <1>2, <1>3, <1>4, SetsTyped
  <2>2. sign \cup (t1 \cap tmask) \in Word(64)
        /\ (t2 \ tmask) \cup (((t2 \ wmask) \cup t1) \cap tmask) \in Word(64)
    BY <1>5, <2>1, SetsTyped
  <2> QED BY <1>1, <2>1, <2>2
<1>7. lower_bitfield(m, i) = store_local(m, i.rd, i.sf, FALSE, t3)
  BY Zenon DEF lower_bitfield
<1> HIDE DEF t3
<1> QED BY <1>1, <1>6, <1>7, StoreTyped

\* An operation with one source does.
LEMMA Dp1Lowered ==
    ASSUME NEW m \in Img, NEW i \in DataProc1s
    PROVE  lower_dp1(m, i) \in Img
<1>1. i.rd \in Reg /\ i.rn \in Reg /\ i.opcode \in 0 .. 5
  BY DEF DataProc1s
<1>2. \A v \in Word(64) : store_local(m, i.rd, i.sf, FALSE, v) \in Img
  BY <1>1, StoreTyped
<1>3. \A t, sf64, group : emit_byte_reverse(t, sf64, group) \in Word(64)
  <2> TAKE t, sf64, group
  <2> DEFINE src(d) == (d \div group) * group + (group - 1) - (d % group)
             part(d) == I64Shl(I64ShrU(t, 8 * src(d)) \cap Low(8), 8 * d)
             D == 0 .. (IF sf64 THEN 7 ELSE 3)
  <2>1. emit_byte_reverse(t, sf64, group) = UNION {part(d) : d \in D}
    BY Zenon DEF emit_byte_reverse
  <2>2. \A d \in D : part(d) \in Word(64)
    BY I64Typed, Zenon
  <2> HIDE DEF part, D
  <2> QED BY <2>1, <2>2 DEF Word
<1>4. \A n : Bits(n) \in Word(64)
  BY ConstantsTyped
<1> DEFINE w  == IF i.sf THEN 64 ELSE 32
           t0 == push_operand(m, i.rn, i.sf, FALSE)
           x  == Xor(t0, Sar(t0, w - 1, w))
           v  == CASE i.opcode = 0 -> emit_byte_reverse(swap_bits_in_byte(t0, i.sf), i.sf, w \div 8)
                   [] i.opcode = 4 -> Bits(LeadingZeros(t0, w))
                   [] i.opcode = 5 -> Bits(LeadingZeros(x, w) - 1)
                   [] i.opcode \in 1 .. 3 -> emit_byte_reverse(t0, i.sf, 2 ^ i.opcode)
<1>5. v \in Word(64)
  <2> HIDE DEF w, t0, x
  <2>1. i.opcode = 0 \/ i.opcode = 4 \/ i.opcode = 5 \/ i.opcode \in 1 .. 3
    BY <1>1
  <2> QED BY <1>3, <1>4, <2>1
<1>6. lower_dp1(m, i) = store_local(m, i.rd, i.sf, FALSE, v)
  BY Zenon DEF lower_dp1
<1> HIDE DEF v
<1> QED BY <1>2, <1>5, <1>6

\* A division does.
LEMMA DivLowered ==
    ASSUME NEW m \in Img, NEW i \in DataProc2s, NEW signed
    PROVE  lower_div(m, i, signed) \in Img
<1>1. i.rd \in Reg
  BY DEF DataProc2s
<1>2. \A v \in Word(64) : store_local(m, i.rd, i.sf, FALSE, v) \in Img
  BY <1>1, StoreTyped
<1>3. \A n, k : UDiv(n, k) \in Word(64)
  BY UDivWord DEF Word, W64
<1>4. \A n, k : I64DivS(n, k) \in Word(64)
  <2>1. \A a : Neg(a, 64) \in Word(64)
    BY DEF Neg, Add, Word
  <2> QED BY <1>3, <2>1, Zenon DEF I64DivS
<1>5. {} \in Word(64) /\ {63} \in Word(64) /\ 31 .. 63 \in Word(64)
  BY SMT DEF Word, Low
<1> DEFINE arg(idx) == LET v == push_operand(m, idx, i.sf, FALSE)
                       IN  IF signed /\ ~i.sf THEN Sext(v, 32, 64) ELSE v
           t0  == arg(i.rn)
           t1  == arg(i.rm)
           min == IF i.sf THEN {63} ELSE 31 .. 63
           r   == IF t1 = {} THEN {}
                  ELSE IF ~signed THEN UDiv(t0, t1)
                  ELSE IF t0 = min /\ t1 = AllOnes THEN min ELSE I64DivS(t0, t1)
<1>6. min \in Word(64)
  BY <1>5
<1>7. r \in Word(64)
  <2> HIDE DEF min, t0, t1
  <2> QED BY <1>3, <1>4, <1>5, <1>6
<1>8. lower_div(m, i, signed) = store_local(m, i.rd, i.sf, FALSE, r)
  BY Zenon DEF lower_div
<1> HIDE DEF r
<1> QED BY <1>2, <1>7, <1>8

\* A shift count of k bits is below 2^k.
LEMMA CountBelow ==
    ASSUME NEW a, NEW k \in {5, 6}
    PROVE  Num(a \cap Low(k)) \in 0 .. (IF k = 5 THEN 31 ELSE 63)
<1> DEFINE b == a \cap Low(k)
<1>1. k \in Nat /\ 31 \in Nat /\ k <= 31
  OBVIOUS
<1>2. b \in Word(k)
  BY DEF Word
<1>3. b \in Word(31)
  <2> HIDE DEF b
  <2> QED BY <1>1, <1>2, WordsGrow, Zenon
<1> HIDE DEF b
<1>4. Num(b) = Val(b, k)
  <2>1. Num(b) = Val(b, 31)
    BY <1>3, NumVal
  <2>2. Val(b, 31) = Val(b, k)
    BY <1>1, <1>2, ValWide, Zenon
  <2> QED BY <2>1, <2>2
<1>5. Val(b, k) \in Nat /\ Val(b, k) < Pow[k]
  BY <1>1, ValBelow
<1>6. Pow[5] = 32 /\ Pow[6] = 64
  <2>1. 2 ^ 5 = Pow[5] /\ 2 ^ 6 = Pow[6]
    BY Powers
  <2>2. 2 ^ 5 = 32 /\ 2 ^ 6 = 64
    BY SMT
  <2> QED BY <2>1, <2>2
<1>7. Num(b) \in 0 .. (IF k = 5 THEN 31 ELSE 63)
  <2>1. CASE k = 5
    <3>1. Val(b, 5) \in Nat /\ Val(b, 5) < 32
      BY <1>5, <1>6, <2>1
    <3> QED BY <1>4, <2>1, <3>1
  <2>2. CASE k = 6
    <3>1. Val(b, 6) \in Nat /\ Val(b, 6) < 64
      BY <1>5, <1>6, <2>2
    <3> QED BY <1>4, <2>2, <3>1
  <2> QED BY <2>1, <2>2
<1> QED BY <1>7 DEF b

\* A shift by a register does.
LEMMA VarShiftLowered ==
    ASSUME NEW m \in Img, NEW i \in DataProc2s, NEW by \in ShiftType
    PROVE  lower_var_shift(m, i, by) \in Img
<1> DEFINE w == IF i.sf THEN 64 ELSE 32
           n == Num(push_operand(m, i.rm, i.sf, FALSE) \cap Low(IF i.sf THEN 6 ELSE 5))
           v == push_operand(m, i.rn, i.sf, FALSE)
           r == CASE by = "Lsl" -> Shl(v, n, w) [] by = "Lsr" -> Shr(v, n)
                  [] by = "Asr" -> Sar(v, n, w) [] by = "Ror" -> Ror(v, n, w)
<1>1. i.rn \in Reg /\ i.rd \in Reg
  BY DEF DataProc2s
<1>2. v \in Word(w) /\ w \in Nat \ {0} /\ w \in Nat /\ w <= 64
  <2>1. v \in Word(w)
    <3>1. v \in Word(64) /\ (~ i.sf => v \in Word(32))
      BY <1>1, PushTyped
    <3> HIDE DEF v
    <3> QED BY <3>1
  <2>2. w \in Nat \ {0} /\ w \in Nat /\ w <= 64
    OBVIOUS
  <2> QED BY <2>1, <2>2
<1>3. n \in 0 .. w /\ n \in Nat /\ n \in Int
  <2> DEFINE a == push_operand(m, i.rm, i.sf, FALSE)
             k == IF i.sf THEN 6 ELSE 5
  <2>1. Num(a \cap Low(k)) \in 0 .. (IF k = 5 THEN 31 ELSE 63)
    <3>1. k \in {5, 6}
      OBVIOUS
    <3> HIDE DEF a, k
    <3> QED BY <3>1, CountBelow
  <2> DEFINE c == Num(a \cap Low(k))
  <2>2. c \in 0 .. (IF k = 5 THEN 31 ELSE 63) /\ n = c
    BY <2>1
  <2> HIDE DEF c, n
  <2> QED BY <2>2
<1> HIDE DEF v, n, w
<1>4. Shl(v, n, w) \in Word(w) /\ Sar(v, n, w) \in Word(w) /\ Ror(v, n, w) \in Word(w)
  BY <1>2, <1>3, ShlWord, SarTyped, RorTyped
<1>5. Shr(v, n) \in Word(w)
  BY <1>2, <1>3 DEF Shr, Word, Low
<1>6. by = "Lsl" \/ by = "Lsr" \/ by = "Asr" \/ by = "Ror"
  BY DEF ShiftType
<1>7. r \in Word(w)
  BY <1>4, <1>5, <1>6
<1>8. lower_var_shift(m, i, by) = store_local(m, i.rd, i.sf, FALSE, r)
  BY Zenon DEF lower_var_shift, v, n, w
<1> HIDE DEF r
<1>9. r \in Word(64)
  BY <1>2, <1>7 DEF Word, Low
<1> QED BY <1>1, <1>8, <1>9, StoreTyped

\* An operation with two sources does.
LEMMA Dp2Lowered ==
    ASSUME NEW m \in Img, NEW i \in DataProc2s, is_inline_dp2(i.opcode)
    PROVE  lower_dp2(m, i) \in Img
<1>1. {"Lsl", "Lsr", "Asr", "Ror"} = ShiftType
  BY DEF ShiftType
<1>2. \A k \in ShiftType : lower_var_shift(m, i, k) \in Img
  BY VarShiftLowered
<1>3. lower_div(m, i, FALSE) \in Img /\ lower_div(m, i, TRUE) \in Img
  BY DivLowered
<1>4. lower_var_shift(m, i, "Lsl") \in Img /\ lower_var_shift(m, i, "Lsr") \in Img
      /\ lower_var_shift(m, i, "Asr") \in Img /\ lower_var_shift(m, i, "Ror") \in Img
  BY <1>1, <1>2
<1> QED BY <1>3, <1>4 DEF lower_dp2, is_inline_dp2

\* An operation with three sources does.
LEMMA Dp3Lowered ==
    ASSUME NEW m \in Img, NEW i \in DataProc3s
    PROVE  lower_dp3(m, i) \in Img
<1> DEFINE full == i.op31 # 0 \/ i.sf
           a == push_operand(m, i.ra, full, FALSE)
           acc(n, k) == IF i.o0 THEN I64Sub(a, I64Mul(n, k)) ELSE I64Add(a, I64Mul(n, k))
           push32(idx) == LET v == push_operand(m, idx, FALSE, FALSE)
                          IN  IF i.op31 = 1 THEN Sext(v, 32, 64) ELSE v
           t0 == push_operand(m, i.rn, full, FALSE)
           t1 == push_operand(m, i.rm, full, FALSE)
           t2 == umulh(t0, t1)
           fix == I64Add(I64ShrS(t0, 63) \cap t1, I64ShrS(t1, 63) \cap t0)
           r == CASE i.op31 = 0 -> acc(t0, t1)
                  [] i.op31 \in {1, 5} -> acc(push32(i.rn), push32(i.rm))
                  [] i.op31 = 6 -> t2
                  [] i.op31 = 2 -> I64Sub(t2, fix)
<1>1. i.rd \in Reg /\ i.op31 \in {0, 1, 2, 5, 6}
  BY DEF DataProc3s
<1>2. \A n, k : acc(n, k) \in Word(64)
  BY I64Typed, Zenon
<1>3. t2 \in Word(64)
  <2>1. \A x, y : I64Add(x, y) \in Word(64)
    BY I64Typed, Zenon
  <2>2. \A x, y : umulh(x, y) \in Word(64)
    BY <2>1, Zenon DEF umulh
  <2> QED BY <2>2, Zenon
<1>4. I64Sub(t2, fix) \in Word(64)
  BY I64Typed, Zenon
<1>5. r \in Word(64)
  <2> HIDE DEF acc, t0, t1, t2, fix, push32
  <2> QED BY <1>1, <1>2, <1>3, <1>4
<1>6. lower_dp3(m, i) = store_local(m, i.rd, full, FALSE, r)
  BY Zenon DEF lower_dp3
<1> HIDE DEF r, full
<1> QED BY <1>1, <1>5, <1>6, StoreTyped

\* An extended operand is a word.
LEMMA ExtTyped ==
    ASSUME NEW m, NEW rm, NEW option, NEW shift
    PROVE  push_ext(m, rm, option, shift) \in Word(64)
BY I64Typed, Zenon DEF push_ext

(* An instruction of the integer kind that a block may hold.                *)
LEMMA IntegerLowered ==
    ASSUME NEW m \in Img, NEW i \in IntegerInsns, i.op = "DataProc2Src" => is_inline_dp2(i.opcode),
           NEW pc, NEW entry_pc
    PROVE  lower_sequential(m, i, pc, entry_pc) \in Img
<1> DEFINE r == lower_sequential(m, i, pc, entry_pc)
<1> SUFFICES r \in Img
  OBVIOUS
<1>1. CASE i \in Hints
  BY <1>1 DEF Hints, lower_sequential
<1>2. CASE i \in MoveWides
  <2>1. r = lower_move_wide(m, i)
    BY <1>2 DEF MoveWides, lower_sequential
  <2> QED BY <1>2, <2>1, MoveLowered
<1>3. CASE i \in LogicalImms
  <2>1. r = lower_logical(m, i, i.imm, i.opc # 3)
    BY <1>3 DEF LogicalImms, lower_sequential
  <2>2. i.rn \in Reg /\ i.rd \in Reg /\ i.opc \in 0 .. 3 /\ i.imm \in Word(64)
    BY <1>3 DEF LogicalImms
  <2> HIDE DEF r
  <2> QED BY <2>1, <2>2, LogicalLowered, Zenon
<1>4. CASE i \in LogicalRegs
  <2>1. r = lower_logical(m, i, push_shifted(m, i, i.negate), FALSE)
    BY <1>4 DEF LogicalRegs, lower_sequential
  <2>2. i.rn \in Reg /\ i.rd \in Reg /\ i.opc \in 0 .. 3 /\ i.rm \in Reg /\ i.shift \in ShiftType
        /\ i.amount \in 0 .. 63 /\ i.sf \in BOOLEAN
    BY <1>4 DEF LogicalRegs
  <2>3. push_shifted(m, i, i.negate) \in Word(64)
    BY <2>2, ShiftedTyped, Zenon
  <2> HIDE DEF r
  <2> QED BY <2>1, <2>2, <2>3, LogicalLowered, Zenon
<1>5. CASE i \in AddSubImms
  <2> DEFINE b == I64Shl(Bits(i.imm12), IF i.shift12 THEN 12 ELSE 0)
  <2>1. r = lower_add(m, i, b, TRUE, ~i.set_flags, Bool(i.sub))
    BY <1>5 DEF AddSubImms, lower_sequential
  <2>2. i.rn \in Reg /\ i.rd \in Reg
    BY <1>5 DEF AddSubImms
  <2>3. b \in Word(64)
    BY I64Typed
  <2>4. Bool(i.sub) \in SUBSET {0}
    BY ConstantsTyped, Zenon
  <2> HIDE DEF r, b
  <2> QED BY <2>1, <2>2, <2>3, <2>4, AddLowered, Zenon
<1>6. CASE i \in AddSubShifts
  <2>1. r = lower_add(m, i, push_shifted(m, i, FALSE), FALSE, FALSE, Bool(i.sub))
    BY <1>6 DEF AddSubShifts, lower_sequential
  <2>2. i.rn \in Reg /\ i.rd \in Reg /\ i.rm \in Reg /\ i.shift \in ShiftType
        /\ i.amount \in 0 .. 63 /\ i.sf \in BOOLEAN
    BY <1>6 DEF AddSubShifts
  <2>3. push_shifted(m, i, FALSE) \in Word(64)
    BY <2>2, ShiftedTyped, Zenon
  <2>4. Bool(i.sub) \in SUBSET {0}
    BY ConstantsTyped, Zenon
  <2> HIDE DEF r
  <2> QED BY <2>1, <2>2, <2>3, <2>4, AddLowered, Zenon
<1>7. CASE i \in AddSubExts
  <2>1. r = lower_add(m, i, push_ext(m, i.rm, i.option, i.imm3), TRUE, ~i.set_flags, Bool(i.sub))
    BY <1>7 DEF AddSubExts, lower_sequential
  <2>2. i.rn \in Reg /\ i.rd \in Reg
    BY <1>7 DEF AddSubExts
  <2>4. Bool(i.sub) \in SUBSET {0}
    BY ConstantsTyped, Zenon
  <2> HIDE DEF r
  <2> QED BY <2>1, <2>2, <2>4, ExtTyped, AddLowered, Zenon
<1>8. CASE i \in AddSubCarrys
  <2>1. r = lower_add(m, i, push_operand(m, i.rm, i.sf, FALSE), FALSE, FALSE, CarryFlag(m))
    BY <1>8 DEF AddSubCarrys, lower_sequential
  <2>2. i.rn \in Reg /\ i.rd \in Reg /\ i.rm \in Reg
    BY <1>8 DEF AddSubCarrys
  <2>3. push_operand(m, i.rm, i.sf, FALSE) \in Word(64)
    BY <2>2, PushTyped
  <2>4. CarryFlag(m) \in SUBSET {0}
    BY DEF CarryFlag
  <2> HIDE DEF r
  <2> QED BY <2>1, <2>2, <2>3, <2>4, AddLowered, Zenon
<1>9. CASE i \in Extracts
  <2>1. r = lower_extract(m, i)
    BY <1>9 DEF Extracts, lower_sequential
  <2> QED BY <1>9, <2>1, ExtractLowered
<1>10. CASE i \in PcRels
  <2>1. r = lower_pc_rel(m, i, pc, entry_pc)
    BY <1>10 DEF PcRels, lower_sequential
  <2> QED BY <1>10, <2>1, PcRelLowered
<1>11. CASE i \in CondSelects
  <2>1. r = lower_cond_select(m, i)
    BY <1>11 DEF CondSelects, lower_sequential
  <2> QED BY <1>11, <2>1, SelectLowered
<1>12. CASE i \in CondCompares
  <2>1. r = lower_cond_compare(m, i)
    BY <1>12 DEF CondCompares, lower_sequential
  <2> QED BY <1>12, <2>1, CompareLowered
<1>13. CASE i \in Bitfields
  <2>1. r = lower_bitfield(m, i)
    BY <1>13 DEF Bitfields, lower_sequential
  <2> QED BY <1>13, <2>1, BitfieldLowered
<1>14. CASE i \in DataProc1s
  <2>1. r = lower_dp1(m, i)
    BY <1>14 DEF DataProc1s, lower_sequential
  <2> QED BY <1>14, <2>1, Dp1Lowered
<1>15. CASE i \in DataProc2s
  <2>1. r = lower_dp2(m, i) /\ is_inline_dp2(i.opcode)
    BY <1>15 DEF DataProc2s, lower_sequential
  <2> QED BY <1>15, <2>1, Dp2Lowered
<1>16. CASE i \in DataProc3s
  <2>1. r = lower_dp3(m, i)
    BY <1>16 DEF DataProc3s, lower_sequential
  <2> QED BY <1>16, <2>1, Dp3Lowered
<1> HIDE DEF r
<1> QED BY <1>1, <1>2, <1>3, <1>4, <1>5, <1>6, <1>7, <1>8, <1>9, <1>10, <1>11, <1>12, <1>13,
           <1>14, <1>15, <1>16 DEF IntegerInsns

(* A branch that ends a block.                                              *)
LEMMA TerminatorTyped ==
    ASSUME NEW m \in Img, NEW i \in BranchInsns, NEW pc, NEW entry_pc
    PROVE  lower_terminator(m, i, pc, entry_pc) \in [image: Img, ret: Word(64)]
<1>1. \A linked : store_link(m, linked, pc, entry_pc) \in Img
  <2> TAKE linked
  <2> DEFINE p == gen_rel_pc(m, Add(pc, {2}, 64), entry_pc)
  <2>1. p \in Word(64)
    BY PcTyped
  <2>2. store_link(m, linked, pc, entry_pc) = IF linked THEN [m EXCEPT !.x[30] = p] ELSE m
    BY Zenon DEF store_link
  <2> HIDE DEF p
  <2> QED BY <2>1, <2>2 DEF Img
<1>2. CASE i \in BranchImms
  <2>1. i.op = "BranchImm"
    BY <1>2 DEF BranchImms
  <2>2. lower_terminator(m, i, pc, entry_pc) =
            [image |-> store_link(m, i.link, pc, entry_pc),
             ret   |-> gen_rel_pc(m, Add(pc, i.offset, 64), entry_pc)]
    BY <2>1 DEF lower_terminator
  <2> QED BY <1>1, <2>2, PcTyped
<1>3. CASE i \in BranchRegs
  <2>1. i.op = "BranchReg" /\ i.rn \in Reg
    BY <1>3 DEF BranchRegs
  <2> DEFINE m1 == store_link(m, i.opc = 1, pc, entry_pc)
             p  == push_operand(m1, i.rn, TRUE, FALSE)
  <2>2. lower_terminator(m, i, pc, entry_pc) = [image |-> m1, ret |-> p]
    BY <2>1, Zenon DEF lower_terminator
  <2>3. m1 \in Img
    BY <1>1, Zenon
  <2> HIDE DEF m1
  <2>4. p \in Word(64)
    BY <2>1, <2>3, PushTyped, Zenon
  <2> HIDE DEF p
  <2> QED BY <2>2, <2>3, <2>4
<1>4. CASE i \in CompareBranchs \cup TestBranchs \cup CondBranchs
  <2>1. i.op \notin {"BranchImm", "BranchReg"}
    BY <1>4 DEF CompareBranchs, TestBranchs, CondBranchs
  <2> DEFINE p == gen_rel_pc(m, Add(pc, IF emit_taken_cond(m, i) THEN i.offset ELSE {2}, 64), entry_pc)
  <2>2. lower_terminator(m, i, pc, entry_pc) = [image |-> m, ret |-> p]
    BY <2>1 DEF lower_terminator
  <2>3. p \in Word(64)
    BY PcTyped
  <2> HIDE DEF p
  <2> QED BY <2>2, <2>3
<1> QED BY <1>2, <1>3, <1>4 DEF BranchInsns

-----------------------------------------------------------------------------
(* The vector lowerings.                                                    *)

\* Lanes joined are a vector register.
LEMMA JoinedTyped == \A e, lanes : Joined(e, lanes) \in Word(128)
<1> TAKE e, lanes
<1> DEFINE S == {Shl(lanes[k] \cap Low(e), k * e, 128) : k \in DOMAIN lanes}
<1>1. \A x \in S : x \in Word(128)
  <2>1. \A a, n : Shl(a, n, 128) \in Word(128)
    BY ShlWord, Zenon
  <2> QED BY <2>1, Zenon
<1>2. UNION S \in Word(128)
  <2> HIDE DEF S
  <2> QED BY <1>1 DEF Word
<1> QED BY <1>2, Zenon DEF Joined

\* A store into a vector register keeps the image typed.
LEMMA VSetTyped ==
    ASSUME NEW m \in Img, NEW rd \in Reg, NEW val \in Word(128)
    PROVE  [m EXCEPT !.v[rd] = val] \in Img
BY DEF Img, Reg

\* So does one that clears the high half.
LEMMA FinishVTyped ==
    ASSUME NEW m \in Img, NEW q, NEW rd \in Reg, NEW val \in Word(128)
    PROVE  finish_v(m, q, rd, val) \in Img
<1>1. val \cap W64 \in Word(128)
  BY SetsTyped
<1> QED BY <1>1, VSetTyped DEF finish_v

\* A bitwise vector operation yields a vector register.
LEMMA LogicalV ==
    ASSUME NEW m \in Img, NEW i \in ThreeRegs("SimdThreeSame")
    PROVE  logical(m, i) \in Word(128)
<1> DEFINE n == m.v[i.rn]
           k == m.v[i.rm]
           d == m.v[i.rd]
<1>1. i.size \in 0 .. 3 /\ i.u \in BOOLEAN /\ i.rn \in Reg /\ i.rm \in Reg /\ i.rd \in Reg
  BY DEF ThreeRegs
<1>2. n \in Word(128) /\ k \in Word(128) /\ d \in Word(128)
  BY <1>1 DEF Img, Reg
<1>3. logical(m, i) = CASE ~i.u /\ i.size = 0 -> n \cap k
          [] ~i.u /\ i.size = 1 -> n \cap Not(k, 128)
          [] ~i.u /\ i.size = 2 -> n \cup k
          [] ~i.u /\ i.size = 3 -> n \cup Not(k, 128)
          [] i.u /\ i.size = 0 -> Xor(n, k)
          [] i.u /\ i.size = 1 -> Bitselect(n, k, d)
          [] i.u /\ i.size = 2 -> Bitselect(n, d, k)
          [] i.u /\ i.size = 3 -> Bitselect(d, n, k)
  BY Zenon DEF logical
<1> HIDE DEF n, k, d
<1>4. \A x, y, c : x \in Word(128) /\ y \in Word(128) => Bitselect(x, y, c) \in Word(128)
  BY SetsTyped DEF Bitselect
<1>5. Not(k, 128) \in Word(128)
  BY DEF Not, Word
<1>6. n \cap k \in Word(128) /\ n \cap Not(k, 128) \in Word(128) /\ n \cup k \in Word(128)
      /\ n \cup Not(k, 128) \in Word(128) /\ Xor(n, k) \in Word(128)
  BY <1>2, <1>5 DEF Word, Xor, SymDiff
<1>7. Bitselect(n, k, d) \in Word(128) /\ Bitselect(n, d, k) \in Word(128)
      /\ Bitselect(d, n, k) \in Word(128)
  BY <1>2, <1>4
<1>8. i.size = 0 \/ i.size = 1 \/ i.size = 2 \/ i.size = 3
  BY <1>1
<1> QED BY <1>1, <1>3, <1>6, <1>7, <1>8

\* A modified immediate keeps the image typed.
LEMMA ModImmLowered ==
    ASSUME NEW m \in Img, NEW i \in ModImms
    PROVE  simd_mod_imm(m, i) \in Img
<1> DEFINE elem  == expand_imm(i.op1, i.cmode, i.imm8)
           val   == IF i.q THEN elem \cup Shl(elem, 64, 128) ELSE elem
           qmask == IF i.q THEN W128 ELSE W64
           d     == m.v[i.rd]
           r1    == IF i.op1 THEN d \ val ELSE d \cup val
           r2    == IF i.op1 /\ i.cmode \div 2 <= 6 THEN qmask \ val ELSE val \cap qmask
<1>1. i.rd \in Reg /\ i.cmode \in 0 .. 15
  BY DEF ModImms
<1>2. d \in Word(128)
  BY <1>1 DEF Img, Reg
<1>3. qmask \in Word(128)
  BY SMT DEF W128, W64, Word, Low
<1>4. simd_mod_imm(m, i) = IF i.cmode \div 2 <= 5 /\ i.cmode % 2 = 1 THEN finish_v(m, i.q, i.rd, r1)
                           ELSE [m EXCEPT !.v[i.rd] = r2]
  BY Zenon DEF simd_mod_imm
<1>5. r2 \in Word(128)
  <2> HIDE DEF qmask, val
  <2> QED BY <1>3, SetsTyped
<1>6. ASSUME i.cmode \div 2 <= 5 PROVE r1 \in Word(128)
  <2>1. \A v \in Word(32) : rep32(v) \in Word(64)
    BY ConstantsTyped, ShlWord, SetsTyped DEF rep32
  <2>2. \A v \in Word(32) : rep16(v) \in Word(64)
    <3> TAKE v \in Word(32)
    <3>1. v \cup Shl(v, 16, 32) \in Word(32)
      BY ShlWord, SetsTyped
    <3> QED BY <2>1, <3>1 DEF rep16
  <2> DEFINE hi == i.cmode \div 2
  <2>3. hi \in 0 .. 5 /\ i.cmode # 14
    BY <1>1, <1>6
  <2> DEFINE a == Shl(i.imm8, 8 * hi, 32)
             b == Shl(i.imm8, 8 * (hi - 4), 16)
  <2>4. a \in Word(32) /\ b \in Word(32)
    <3>1. a \in Word(32) /\ b \in Word(16)
      BY ShlWord
    <3>2. Word(16) \subseteq Word(32)
      BY SMT DEF Word, Low
    <3> QED BY <3>1, <3>2
  <2>5. elem = CASE hi <= 3 -> rep32(a)
          [] hi \in {4, 5} -> rep16(b)
          [] hi = 6 -> rep32(IF i.cmode % 2 = 0 THEN Shl(i.imm8, 8, 32) \cup Low(8)
                             ELSE Shl(i.imm8, 16, 32) \cup Low(16))
          [] i.cmode = 14 -> IF i.op1 THEN UNION {8 * k .. 8 * k + 7 : k \in i.imm8}
                           ELSE UNION {Shl(i.imm8, 8 * k, 64) : k \in 0 .. 7}
    BY Zenon DEF expand_imm
  <2>6. rep32(a) \in Word(64) /\ rep16(b) \in Word(64)
    BY <2>1, <2>2, <2>4
  <2> HIDE DEF hi, a, b
  <2>7. elem = rep32(a) \/ elem = rep16(b)
    <3>1. CASE hi <= 3
      BY <2>3, <2>5, <3>1
    <3>2. CASE hi = 4 \/ hi = 5
      BY <2>3, <2>5, <3>2
    <3> QED BY <2>3, <3>1, <3>2
  <2> HIDE DEF elem
  <2>8. elem \in Word(128)
    <3>1. Word(64) \subseteq Word(128)
      BY SMT DEF Word, Low
    <3> QED BY <2>6, <2>7, <3>1
  <2>9. val \in Word(128)
    BY <2>8, ShlWord, SetsTyped
  <2> HIDE DEF val, d
  <2> QED BY <1>2, <2>9, SetsTyped
<1> HIDE DEF r1, r2
<1> QED BY <1>1, <1>4, <1>5, <1>6, FinishVTyped, VSetTyped

\* The instructions with an exact vector form.
LEMMA InlineVectors ==
    ASSUME NEW i \in VectorInsns, is_inline_simd(i)
    PROVE  i \in ThreeRegs("SimdThreeSame") \cup ThreeRegs("SimdThreeDiff")
                 \cup TwoRegs("SimdTwoRegMisc") \cup ModImms \cup ShiftImms \cup ZipTrns \cup Exts
                 \cup TableLookups \cup Copies
BY DEF is_inline_simd, VectorInsns, AcrossLanes, Copies, InsElements, DupElements, DupGenerals,
       InsGenerals, MovToGprs, Exts, Indexeds, ModImms, ShiftImms, TableLookups, ThreeRegs, TwoRegs,
       ZipTrns, ScalarThreeSames, ScalarTwoRegMiscs, ScalarPairwises, ScalarThreeDiffs,
       ScalarCopies, ScalarIndexeds, ScalarShiftImms

\* A shuffle of two vectors is a vector.
LEMMA ShuffleTyped ==
    ASSUME NEW m \in Img, NEW q, NEW rn, NEW rm, NEW rd \in Reg, NEW lanes
    PROVE  shuffle2(m, q, rn, rm, rd, lanes) \in Img
BY JoinedTyped, FinishVTyped, Zenon DEF shuffle2, Each

\* An operation on like lanes keeps the image typed.
LEMMA ThreeSameLowered ==
    ASSUME NEW m \in Img, NEW i \in ThreeRegs("SimdThreeSame")
    PROVE  simd_three_same(m, i) \in Img
<1>1. i.rd \in Reg
  BY DEF ThreeRegs
<1>2. \A val \in Word(128) : finish_v(m, i.q, i.rd, val) \in Img
  BY <1>1, FinishVTyped
<1>3. logical(m, i) \in Word(128)
  BY LogicalV
<1> QED BY <1>2, <1>3, JoinedTyped, Zenon DEF simd_three_same, Each

\* A widening or narrowing one does.
LEMMA ThreeDiffLowered ==
    ASSUME NEW m \in Img, NEW i \in ThreeRegs("SimdThreeDiff")
    PROVE  simd_three_diff(m, i) \in Img
<1>1. i.rd \in Reg
  BY DEF ThreeRegs
<1>2. \A val \in Word(128) : [m EXCEPT !.v[i.rd] = val] \in Img
  BY <1>1, VSetTyped
<1> QED BY <1>2, JoinedTyped, Zenon DEF simd_three_diff, Each

\* An operation with one source does.
LEMMA TwoRegMiscLowered ==
    ASSUME NEW m \in Img, NEW i \in TwoRegs("SimdTwoRegMisc")
    PROVE  simd_two_reg_misc(m, i) \in Img
<1>1. i.rd \in Reg
  BY DEF TwoRegs
<1>2. \A e, lanes : finish_v(m, i.q, i.rd, Joined(e, lanes)) \in Img
  BY <1>1, FinishVTyped, JoinedTyped
<1>3. \A lanes : shuffle2(m, i.q, i.rn, i.rn, i.rd, lanes) \in Img
  BY <1>1, ShuffleTyped
<1> QED BY <1>2, <1>3, Zenon DEF simd_two_reg_misc, Each

\* A shift by an immediate does.
LEMMA ShiftImmLowered ==
    ASSUME NEW m \in Img, NEW i \in ShiftImms
    PROVE  simd_shift_imm(m, i) \in Img
<1>1. i.rd \in Reg
  BY DEF ShiftImms
<1>2. \A e, lanes : finish_v(m, i.q, i.rd, Joined(e, lanes)) \in Img
  BY <1>1, FinishVTyped, JoinedTyped
<1>3. [m EXCEPT !.v[i.rd] = {}] \in Img
  BY <1>1, SetsTyped, VSetTyped
<1> QED BY <1>2, <1>3, Zenon DEF simd_shift_imm, Each

\* A permutation does.
LEMMA PermuteLowered ==
    ASSUME NEW m \in Img, NEW i \in ZipTrns \cup Exts \cup TableLookups
    PROVE  /\ simd_zip_trn(m, i) \in Img /\ simd_ext(m, i) \in Img /\ simd_tbl(m, i) \in Img
<1>1. i.rd \in Reg
  BY DEF ZipTrns, Exts, TableLookups
<1>2. \A e, lanes : finish_v(m, i.q, i.rd, Joined(e, lanes)) \in Img
  BY <1>1, FinishVTyped, JoinedTyped
<1>3. \A lanes : shuffle2(m, i.q, i.rn, i.rm, i.rd, lanes) \in Img
  BY <1>1, ShuffleTyped
<1> QED BY <1>2, <1>3, Zenon DEF simd_zip_trn, simd_ext, simd_tbl, Each

\* A store of one lane does.
LEMMA StoreLaneTyped ==
    ASSUME NEW m \in Img, NEW reg \in Reg, NEW size, NEW lane, NEW val
    PROVE  istore(m, reg, size, lane, val) \in Img
<1> DEFINE e == 8 * 2 ^ size
           keep == {p \in m.v[reg] : p \div e # lane}
           s == Shl(val \cap Low(e), lane * e, 128)
           u == keep \cup s
<1>1. s \in Word(128)
  BY ShlWord
<1>2. keep \in Word(128)
  <2>1. m.v[reg] \in Word(128)
    BY DEF Img, Reg
  <2> HIDE DEF e
  <2> QED BY <2>1 DEF Word
<1>3. istore(m, reg, size, lane, val) = [m EXCEPT !.v[reg] = u]
  <2> HIDE DEF s
  <2> QED BY DEF istore, s, Img, Reg
<1> HIDE DEF keep, s
<1>4. u \in Word(128)
  BY <1>1, <1>2, SetsTyped
<1> HIDE DEF u
<1> QED BY <1>3, <1>4, VSetTyped

\* A move of a lane to a general register does.
LEMMA MovToGprLowered ==
    ASSUME NEW m \in Img, NEW i \in MovToGprs
    PROVE  simd_mov_to_gpr(m, i) \in Img
<1> DEFINE e == 8 * 2 ^ i.size
           elem == iload(m, i.vn, i.size, i.index)
           val  == IF i.signed THEN Sext(elem, e, 64) ELSE elem
           r    == IF i.signed /\ ~i.dst64 THEN val \cap W32 ELSE val
<1>1. i.rd \in Reg /\ i.vn \in Reg /\ i.size \in 0 .. 3 /\ i.index \in Reg
  BY DEF MovToGprs
<1>2. e \in {8, 16, 32, 64} /\ e \in Nat
  BY <1>1, SizeTyped
<1>3. elem \in Word(e)
  <2> DEFINE a == m.v[i.vn]
             p == 2 ^ i.size
             s == i.index * 8 * p
  <2>1. a \subseteq Int
    BY <1>1 DEF Img, Reg, Word, Low
  <2>2. elem = Slice(a, s, e)
    BY DEF iload
  <2>3. s \in Nat
    <3>1. p \in Nat
      <4> DEFINE f(k) == 2 ^ k
      <4>1. f(0) = 1 /\ f(1) = 2 /\ f(2) = 4 /\ f(3) = 8
        BY SMT
      <4>2. i.size = 0 \/ i.size = 1 \/ i.size = 2 \/ i.size = 3
        BY <1>1
      <4>3. p = f(i.size)
        OBVIOUS
      <4> HIDE DEF f, p
      <4> QED BY <4>1, <4>2, <4>3
    <3> DEFINE j == i.index
    <3>2. j \in Nat
      BY <1>1 DEF Reg
    <3> HIDE DEF p, j
    <3>3. j * 8 \in Nat
      BY <3>2
    <3> DEFINE t == j * 8
    <3> HIDE DEF t
    <3>4. t * p \in Nat
      BY <3>1, <3>3 DEF t
    <3> QED BY <3>4 DEF t, j
  <2> HIDE DEF a, s, e
  <2> QED BY <1>2, <2>1, <2>2, <2>3, SliceWord, Zenon
<1>4. val \in Word(64)
  <2>1. Word(e) \subseteq Word(64) /\ 64 \in Nat /\ e <= 64
    <3> HIDE DEF e
    <3> QED BY <1>2 DEF Word, Low
  <2>2. Sext(elem, e, 64) \in Word(64)
    <3> HIDE DEF e, elem
    <3> QED BY <1>2, <2>1, SextWord
  <2> HIDE DEF e, elem
  <2> QED BY <1>3, <2>1, <2>2
<1>5. r \in Word(64)
  <2> HIDE DEF val
  <2> QED BY <1>4, SetsTyped
<1>6. simd_mov_to_gpr(m, i) = IF i.rd = 31 THEN m ELSE [m EXCEPT !.x[i.rd] = r]
  BY Zenon DEF simd_mov_to_gpr
<1> HIDE DEF r
<1> QED BY <1>1, <1>5, <1>6 DEF Img, Reg

(* A vector instruction that a block may hold.                              *)
LEMMA VectorLowered ==
    ASSUME NEW m \in Img, NEW i \in VectorInsns, is_inline_simd(i)
    PROVE  lower_vector(m, i) \in Img
<1> DEFINE r == lower_vector(m, i)
<1> SUFFICES r \in Img
  OBVIOUS
<1>1. CASE i \in ThreeRegs("SimdThreeSame")
  <2>1. r = simd_three_same(m, i)
    BY <1>1 DEF ThreeRegs, lower_vector
  <2> QED BY <1>1, <2>1, ThreeSameLowered
<1>2. CASE i \in ThreeRegs("SimdThreeDiff")
  <2>1. r = simd_three_diff(m, i)
    BY <1>2 DEF ThreeRegs, lower_vector
  <2> QED BY <1>2, <2>1, ThreeDiffLowered
<1>3. CASE i \in TwoRegs("SimdTwoRegMisc")
  <2>1. r = simd_two_reg_misc(m, i)
    BY <1>3 DEF TwoRegs, lower_vector
  <2> QED BY <1>3, <2>1, TwoRegMiscLowered
<1>4. CASE i \in ModImms
  <2>1. r = simd_mod_imm(m, i)
    BY <1>4 DEF ModImms, lower_vector
  <2> QED BY <1>4, <2>1, ModImmLowered
<1>5. CASE i \in ShiftImms
  <2>1. r = simd_shift_imm(m, i)
    BY <1>5 DEF ShiftImms, lower_vector
  <2> QED BY <1>5, <2>1, ShiftImmLowered
<1>6. CASE i \in ZipTrns
  <2>1. r = simd_zip_trn(m, i)
    BY <1>6 DEF ZipTrns, lower_vector
  <2> QED BY <1>6, <2>1, PermuteLowered
<1>7. CASE i \in Exts
  <2>1. r = simd_ext(m, i)
    BY <1>7 DEF Exts, lower_vector
  <2> QED BY <1>7, <2>1, PermuteLowered
<1>8. CASE i \in TableLookups
  <2>1. r = simd_tbl(m, i)
    BY <1>8 DEF TableLookups, lower_vector
  <2> QED BY <1>8, <2>1, PermuteLowered
<1>9. CASE i \in MovToGprs
  <2>1. r = simd_mov_to_gpr(m, i)
    BY <1>9 DEF MovToGprs, lower_vector
  <2> QED BY <1>9, <2>1, MovToGprLowered
<1>10. CASE i \in DupGenerals
  <2>1. i.op = "SimdDupGeneral" /\ i.rd \in Reg
    BY <1>10 DEF DupGenerals
  <2> DEFINE val == Splat(push_operand(m, i.rn, TRUE, FALSE), 8 * 2 ^ i.size)
  <2>2. r = finish_v(m, i.q, i.rd, val)
    BY <2>1, Zenon DEF lower_vector
  <2>3. val \in Word(128)
    BY JoinedTyped, Zenon DEF Splat, Each
  <2> HIDE DEF val, r
  <2> QED BY <2>1, <2>2, <2>3, FinishVTyped, Zenon
<1>11. CASE i \in DupElements
  <2>1. i.op = "SimdDupElement" /\ i.rd \in Reg
    BY <1>11 DEF DupElements
  <2> DEFINE val == Splat(iload(m, i.rn, i.size, i.index), 8 * 2 ^ i.size)
  <2>2. r = finish_v(m, i.q, i.rd, val)
    BY <2>1, Zenon DEF lower_vector
  <2>3. val \in Word(128)
    BY JoinedTyped, Zenon DEF Splat, Each
  <2> HIDE DEF val, r
  <2> QED BY <2>1, <2>2, <2>3, FinishVTyped, Zenon
<1>12. CASE i \in InsGenerals
  <2>1. i.op = "SimdInsGeneral" /\ i.rd \in Reg
    BY <1>12 DEF InsGenerals
  <2> DEFINE val == push_operand(m, i.rn, TRUE, FALSE)
  <2>2. r = istore(m, i.rd, i.size, i.index, val)
    BY <2>1, Zenon DEF lower_vector
  <2> HIDE DEF val, r
  <2> QED BY <2>1, <2>2, StoreLaneTyped, Zenon
<1>13. CASE i \in InsElements
  <2>1. i.op = "SimdInsElement" /\ i.rd \in Reg
    BY <1>13 DEF InsElements
  <2> DEFINE val == iload(m, i.rn, i.size, i.src)
  <2>2. r = istore(m, i.rd, i.size, i.dst, val)
    BY <2>1, Zenon DEF lower_vector
  <2> HIDE DEF val, r
  <2> QED BY <2>1, <2>2, StoreLaneTyped, Zenon
<1> HIDE DEF r
<1> QED BY <1>1, <1>2, <1>3, <1>4, <1>5, <1>6, <1>7, <1>8, <1>9, <1>10, <1>11, <1>12, <1>13,
           InlineVectors DEF Copies

-----------------------------------------------------------------------------
(* The instructions the model runs have their fields in range.              *)

Insns == IntegerInsns \cup BranchInsns \cup VectorInsns

\* An instruction the model runs has its fields in range.
LEMMA ModelledKind ==
    ASSUME NEW w \in SUBSET W32, Interp!Modelled(decode(w))
    PROVE  decode(w) \in Insns
<1>1. decode(w).op \in Interp!IntegerOps \cup Interp!BranchOps \cup Interp!VectorOps
  BY DEF Interp!Modelled
<1>2. decode(w).op \notin OtherNames
  BY <1>1, NamesApart
<1> QED BY <1>2, DecodeKind DEF Insns

\* What one instruction of a block leaves, whether or not it is the last.
LEMMA BodyTyped ==
    ASSUME NEW m \in Img, NEW i \in IntegerInsns \cup VectorInsns, can_inline(i)
    PROVE  Lower(m, i) \in Img
<1>1. CASE i \in IntegerInsns
  <2>1. i.op \in Interp!IntegerOps
    BY <1>1, IntegerNames
  <2>2. ~ is_inline_simd(i)
    BY <2>1 DEF is_inline_simd, Interp!IntegerOps
  <2>3. i.op = "DataProc2Src" => is_inline_dp2(i.opcode)
    BY <2>2 DEF can_inline, is_inline_mem, is_inline_load_store, is_inline_atomic, is_inline_fp
  <2> QED BY <1>1, <2>2, <2>3, IntegerLowered, Zenon DEF Lower
<1>2. CASE i \in VectorInsns
  <2>1. i.op \in Interp!VectorOps
    BY <1>2, VectorNames
  <2>2. is_inline_simd(i)
    BY <2>1 DEF can_inline, is_inline_mem, is_inline_load_store, is_inline_atomic, is_inline_fp,
                Interp!VectorOps, Interp!ScalarOps
  <2> QED BY <1>2, <2>2, VectorLowered DEF Lower
<1> QED BY <1>1, <1>2

-----------------------------------------------------------------------------
(* The block the organizer forms.                                           *)

Decodes == {decode(w) : w \in SUBSET W32}

\* Every instruction of a block can be inlined, but for a branch at its end.
Inlined == \A k \in 1 .. Len(block) :
               can_inline(block[k]) \/ (k = Len(block) /\ is_branch(block[k]))
Formed == block \in Seq(Decodes) /\ Len(block) <= MaxBlock /\ Inlined

\* The block is no longer than the cap, holds decoded instructions, and only its last one cannot be inlined.
LEMMA BlockFormed ==
    ASSUME NEW max \in Nat, NEW insns, Len(insns) \in Nat,
           \A k \in 1 .. Len(insns) : insns[k] \in Decodes
    PROVE  LET b == form_jit_block(insns, max)
           IN  /\ b \in Seq(Decodes) /\ Len(b) <= max
               /\ \A k \in 1 .. Len(b) : can_inline(b[k]) \/ (k = Len(b) /\ is_branch(b[k]))
<1> DEFINE cap  == IF Len(insns) < max THEN Len(insns) ELSE max
           S    == {n \in 0 .. cap : \A k \in 1 .. n : can_inline(insns[k])}
           run  == Max(S)
           ends == run < cap /\ is_branch(insns[run + 1])
           len  == IF ends THEN run + 1 ELSE run
           b    == SubSeq(insns, 1, len)
<1>1. form_jit_block(insns, max) = b
  BY Zenon DEF form_jit_block
<1>2. cap \in Nat /\ cap <= max /\ cap <= Len(insns)
  OBVIOUS
<1>3. run \in S
  <2> HIDE DEF cap
  <2>1. cap + 1 \in Nat /\ S \in Word(cap + 1)
    BY <1>2 DEF Word, Low
  <2>2. 0 \in S
    BY <1>2
  <2> HIDE DEF S
  <2> QED BY <2>1, <2>2, MaxIsLargest
<1> HIDE DEF run, cap
<1>4. run \in 0 .. cap /\ \A k \in 1 .. run : can_inline(insns[k])
  BY <1>3
<1>5. len \in Nat /\ len <= cap
  BY <1>2, <1>4
<1>6. \A k \in 1 .. len : can_inline(insns[k]) \/ (k = len /\ is_branch(insns[k]))
  <2> TAKE k \in 1 .. len
  <2>1. CASE k \in 1 .. run
    BY <1>4, <2>1
  <2>2. CASE k \notin 1 .. run
    <3>1. ends /\ k = run + 1 /\ k = len
      BY <1>4, <2>2
    <3> QED BY <3>1
  <2> QED BY <2>1, <2>2
<1> HIDE DEF len
<1>7. \A k \in 1 .. len : insns[k] \in Decodes
  BY <1>2, <1>5
<1>8. b \in Seq(Decodes) /\ Len(b) = len /\ \A k \in 1 .. len : b[k] = insns[k]
  <2>1. 1 \in Int /\ len \in Int
    BY <1>5
  <2>2. /\ b \in Seq(Decodes) /\ Len(b) = IF 1 <= len THEN len - 1 + 1 ELSE 0
        /\ \A k \in 1 .. len - 1 + 1 : b[k] = insns[1 + k - 1]
    BY <1>7, <2>1, SubSeqProperties
  <2> HIDE DEF b
  <2> QED BY <1>5, <2>2
<1> HIDE DEF b
<1>9. Len(b) <= max /\ \A k \in 1 .. Len(b) : can_inline(b[k]) \/ (k = Len(b) /\ is_branch(b[k]))
  BY <1>2, <1>5, <1>6, <1>8
<1> QED BY <1>1, <1>8, <1>9

\* So is the block formed at a place of the program.
LEMMA FormAtFormed ==
    ASSUME code \in Seq(SUBSET W32), MaxBlock \in Nat, NEW k \in 1 .. Len(code),
           NEW b \in FormAt(k)
    PROVE  /\ b \in Seq(Decodes) /\ Len(b) <= MaxBlock
           /\ \A n \in 1 .. Len(b) : can_inline(b[n]) \/ (n = Len(b) /\ is_branch(b[n]))
<1>1. Len(code) \in Nat
  BY LenProperties, Zenon
<1> DEFINE insns == Decoded(k)
<1>2. b = form_jit_block(insns, MaxBlock)
  BY DEF FormAt
<1>3. Len(insns) = Len(code) - k + 1
  BY <1>1 DEF Decoded
<1>4. \A n \in 1 .. Len(insns) : insns[n] \in Decodes
  <2> TAKE n \in 1 .. Len(insns)
  <2>1. insns[n] = decode(code[n + k - 1])
    BY <1>1, <1>3 DEF Decoded
  <2>2. n + k - 1 \in 1 .. Len(code)
    BY <1>1, <1>3
  <2>3. code[n + k - 1] \in SUBSET W32
    BY <2>2, ElementOfSeq, Zenon
  <2> QED BY <2>1, <2>3, Zenon DEF Decodes
<1>5. Len(insns) \in Nat
  BY <1>1, <1>3
<1> HIDE DEF insns
<1> QED BY <1>2, <1>4, <1>5, BlockFormed, Zenon

-----------------------------------------------------------------------------
(* The inductive invariant and the theorem.                                 *)

Placed == code \in Seq(SUBSET W32) /\ Len(code) \in 1 .. MaxWords /\ first \in 1 .. Len(code)
IInv == Placed /\ Formed /\ at \in 0 .. Len(block) /\ image \in Img
        /\ ret \in {Running} \cup {{p} : p \in Word(64)}

\* An instruction of the block that the model runs has its fields in range.
LEMMA InsnTyped ==
    ASSUME IInv, NEW k \in 1 .. Len(block), Interp!Modelled(block[k])
    PROVE  block[k] \in Insns
<1>1. block[k] \in Decodes
  BY ElementOfSeq, Zenon DEF IInv, Formed
<1>2. PICK w \in SUBSET W32 : block[k] = decode(w)
  BY <1>1 DEF Decodes
<1> QED BY <1>2, ModelledKind, Zenon

\* The invariant holds at the start,
LEMMA InitInv == Init => IInv
<1> SUFFICES ASSUME Init PROVE IInv
  OBVIOUS
<1>1. PICK f \in Families : \E p \in f.programs, r \in f.registers :
            /\ code  = p
            /\ block \in FormAt(1) /\ first = 1 /\ at = 0
            /\ image = [x |-> r.x, sp |-> r.sp, nzcv |-> r.nzcv, v |-> r.v, pc |-> RunVA]
            /\ ret   = Running
  BY Zenon DEF Init
<1>2. PICK p \in f.programs, r \in f.registers :
            /\ code  = p
            /\ block \in FormAt(1) /\ first = 1 /\ at = 0
            /\ image = [x |-> r.x, sp |-> r.sp, nzcv |-> r.nzcv, v |-> r.v, pc |-> RunVA]
            /\ ret   = Running
  BY <1>1, Zenon
<1>3. /\ p \in Seq(SUBSET W32) /\ Len(p) \in 1 .. MaxWords
      /\ r \in [x: [0 .. 30 -> SUBSET W64], sp: SUBSET W64, nzcv: SUBSET Nzcv,
                v: [0 .. 31 -> SUBSET W128]]
  BY CompiledAssumption, Zenon
<1>4. Placed
  <2>1. Len(p) \in 1 .. 16
    BY <1>3, Zenon DEF MaxWords
  <2> DEFINE n == Len(p)
  <2>2. 1 \in 1 .. n
    <3>1. n \in 1 .. 16
      BY <2>1
    <3> HIDE DEF n
    <3> QED BY <3>1
  <2> QED BY <1>2, <1>3, <2>2 DEF Placed
<1>5. image \in Img
  <2>1. SUBSET W64 = Word(64) /\ SUBSET W128 = Word(128) /\ RunVA \in Word(64)
    BY SameOffset DEF Word, W64, W128
  <2> QED BY <1>2, <1>3, <2>1 DEF Img
<1>6. Formed
  <2>1. 1 \in 1 .. Len(code) /\ code \in Seq(SUBSET W32) /\ MaxBlock \in Nat
    BY <1>2, <1>4, CompiledAssumption DEF Placed
  <2> QED BY <1>2, <2>1, FormAtFormed, Zenon DEF Formed, Inlined
<1>7. at \in 0 .. Len(block)
  <2>1. Len(block) \in Nat
    BY <1>6, LenProperties, Zenon DEF Formed
  <2> QED BY <1>2, <2>1
<1> QED BY <1>2, <1>4, <1>5, <1>6, <1>7 DEF IInv

\* after an emitted instruction,
LEMMA EmittedInv == IInv /\ Emitted => IInv'
<1> SUFFICES ASSUME IInv, Emitted PROVE IInv'
  OBVIOUS
<1> DEFINE i    == block[at + 1]
           last == at + 1 = Len(block)
           t    == lower_terminator(image, i, StaticPC, StaticEntry)
           rel  == gen_rel_pc(image, Plus4(StaticPC, 1), StaticEntry)
           done == IF last /\ is_terminator(i) THEN Leave(t)
                   ELSE [image |-> Lower(image, i), ret |-> IF last THEN {rel} ELSE Running]
<1>1. /\ ret = Running /\ at < Len(block) /\ Interp!Modelled(i)
      /\ image' = done.image /\ ret' = done.ret /\ at' = at + 1
      /\ UNCHANGED <<code, block, first>>
  BY Zenon DEF Emitted
<1>2. Len(block) \in Nat /\ at \in Nat /\ at + 1 \in 1 .. Len(block)
  <2>1. Len(block) \in Nat
    BY LenProperties, Zenon DEF IInv, Formed
  <2> QED BY <1>1, <2>1 DEF IInv
<1>3. i \in Insns
  BY <1>1, <1>2, InsnTyped, Zenon
<1>4. image \in Img /\ (can_inline(i) \/ (last /\ is_branch(i)))
  BY <1>2, Zenon DEF IInv, Formed, Inlined
<1>5. done.image \in Img /\ done.ret \in {Running} \cup {{p} : p \in Word(64)}
  <2>1. CASE last /\ is_terminator(i)
    <3>1. i \in BranchInsns
      BY <1>3, <2>1, IntegerNames, VectorNames
      DEF Insns, is_terminator, Interp!IntegerOps, Interp!VectorOps, Interp!ScalarOps
    <3>2. t \in [image: Img, ret: Word(64)]
      BY <1>4, <3>1, TerminatorTyped
    <3>3. done = Leave(t)
      BY <2>1, Zenon
    <3> HIDE DEF t, done
    <3> QED BY <3>2, <3>3 DEF Leave
  <2>2. CASE ~ (last /\ is_terminator(i))
    <3>1. done = [image |-> Lower(image, i), ret |-> IF last THEN {rel} ELSE Running]
      BY <2>2, Zenon
    <3>2. can_inline(i)
      BY <1>4, <2>2 DEF is_branch, is_terminator
    <3>3. i \notin BranchInsns
      <4>1. i.op \notin Interp!BranchOps
        BY <3>2 DEF can_inline, is_inline_mem, is_inline_load_store, is_inline_atomic, is_inline_fp,
                    is_inline_simd, Interp!BranchOps
      <4> QED BY <4>1, BranchNames
    <3>4. Lower(image, i) \in Img
      BY <1>3, <1>4, <3>2, <3>3, BodyTyped DEF Insns
    <3>5. rel \in Word(64)
      BY PcTyped, Zenon
    <3> HIDE DEF done, rel, last
    <3> QED BY <3>1, <3>4, <3>5
  <2> QED BY <2>1, <2>2
<1> HIDE DEF done
<1>6. Placed' /\ Formed'
  BY <1>1 DEF IInv, Placed, Formed, Inlined
<1> QED BY <1>1, <1>2, <1>5, <1>6 DEF IInv

\* after an interpreted one
LEMMA InterpretInv == IInv /\ Interpret => IInv'
<1> SUFFICES ASSUME IInv, Interpret PROVE IInv'
  OBVIOUS
<1> DEFINE i == decode(code[first])
           c0 == [x |-> image.x, sp |-> image.sp, v |-> image.v, pc |-> image.pc,
                  flags |-> {b - 28 : b \in image.nzcv}]
           c == Interp!step(c0, i)
<1>1. /\ Interp!Modelled(i)
      /\ image' = [x |-> c.x, sp |-> c.sp, v |-> c.v, pc |-> image.pc,
                   nzcv |-> {f + 28 : f \in c.flags}]
      /\ ret' = {c.pc} /\ UNCHANGED <<code, block, first, at>>
  BY Zenon DEF Interpret
<1>2. i \in Insns
  <2>1. code[first] \in SUBSET W32
    BY ElementOfSeq, Zenon DEF IInv, Placed
  <2> QED BY <1>1, <2>1, ModelledKind, Zenon
<1>3. image \in Img
  BY DEF IInv
<1>4. c0 \in Cpus
  <2>1. {b - 28 : b \in image.nzcv} \in SUBSET (0 .. 3)
    BY <1>3 DEF Img, Nzcv
  <2> DEFINE fl == {b - 28 : b \in image.nzcv}
  <2> HIDE DEF fl
  <2>2. c0 = [x |-> image.x, sp |-> image.sp, v |-> image.v, pc |-> image.pc, flags |-> fl]
    BY DEF fl
  <2>3. fl \in SUBSET (0 .. 3)
    BY <2>1 DEF fl
  <2> HIDE DEF c0
  <2> QED BY <1>3, <2>2, <2>3 DEF Img, Cpus
<1>5. c \in Cpus
  <2> HIDE DEF c0, i
  <2> QED BY <1>2, <1>4, StepTyped, Zenon DEF Insns
<1> HIDE DEF c
<1>6. image' \in Img
  <2>1. {f + 28 : f \in c.flags} \in SUBSET Nzcv
    BY <1>5 DEF Cpus, Nzcv
  <2> DEFINE nz == {f + 28 : f \in c.flags}
  <2>2. image' = [x |-> c.x, sp |-> c.sp, v |-> c.v, pc |-> image.pc, nzcv |-> nz]
    BY <1>1
  <2>3. nz \in SUBSET Nzcv
    BY <2>1
  <2> HIDE DEF nz
  <2> QED BY <1>3, <1>5, <2>2, <2>3 DEF Img, Cpus
<1>7. ret' \in {Running} \cup {{p} : p \in Word(64)}
  BY <1>1, <1>5 DEF Cpus
<1>8. Placed' /\ Formed' /\ at' \in 0 .. Len(block')
  BY <1>1 DEF IInv, Placed, Formed, Inlined
<1> QED BY <1>6, <1>7, <1>8 DEF IInv

\* and after a dispatch,
LEMMA DispatchInv == IInv /\ MaxBlock \in Nat /\ Dispatch => IInv'
<1> SUFFICES ASSUME IInv, MaxBlock \in Nat, Dispatch PROVE IInv'
  OBVIOUS
<1>1. /\ ret # Running /\ Interp!InCode(The(ret)) /\ first' = Num(Interp!Place(The(ret))) + 1
      /\ block' \in FormAt(first') /\ at' = 0 /\ image' = [image EXCEPT !.pc = The(ret)]
      /\ ret' = Running /\ code' = code
  BY Zenon DEF Dispatch
<1>2. The(ret) \in Word(64)
  <2>1. PICK p \in Word(64) : ret = {p}
    BY <1>1 DEF IInv
  <2> QED BY <2>1 DEF The
<1>3. first' \in 1 .. Len(code)
  <2> DEFINE a == Interp!Place(The(ret))
  <2>1. a \subseteq Low(4) /\ Num(a) < Len(code)
    <3>1. Interp!Num(a) = Num(a)
      BY Zenon DEF Interp!Num, Num, Interp!MapThenSumSet, MapThenSumSet, Interp!MapThenFoldSet,
                   MapThenFoldSet
    <3> HIDE DEF a
    <3>2. a \subseteq Interp!Low(4) /\ Interp!Num(a) < Len(code)
      BY <1>1, Zenon DEF Interp!InCode, a
    <3> QED BY <3>1, <3>2, InterpLow
  <2>2. first' = Num(a) + 1
    BY <1>1
  <2> HIDE DEF a
  <2>3. a \in Word(31) /\ 31 \in Nat
    BY <2>1 DEF Word, Low
  <2>4. Num(a) = Val(a, 31) /\ Val(a, 31) \in Nat
    BY <2>3, NumVal, ValBelow, Zenon
  <2>5. Len(code) \in Nat
    BY LenProperties, Zenon DEF IInv, Placed
  <2> QED BY <2>1, <2>2, <2>4, <2>5
<1>4. Formed'
  <2>1. /\ block' \in Seq(Decodes) /\ Len(block') <= MaxBlock
        /\ \A n \in 1 .. Len(block') :
              can_inline(block'[n]) \/ (n = Len(block') /\ is_branch(block'[n]))
    BY <1>1, <1>3, FormAtFormed, Zenon DEF IInv, Placed
  <2> QED BY <2>1 DEF Formed, Inlined
<1>5. Placed'
  BY <1>1, <1>3 DEF IInv, Placed
<1>6. image' \in Img
  BY <1>1, <1>2 DEF IInv, Img
<1>7. at' \in 0 .. Len(block')
  <2>1. Len(block') \in Nat
    BY <1>4, LenProperties, Zenon DEF Formed
  <2> QED BY <1>1, <2>1
<1> QED BY <1>1, <1>4, <1>5, <1>6, <1>7 DEF IInv

\* so every step preserves it,
LEMMA StepInv == IInv /\ [Next]_vars => IInv'
<1>1. MaxBlock \in Nat
  BY CompiledAssumption
<1>2. IInv /\ UNCHANGED vars => IInv'
  BY DEF IInv, Placed, Formed, Inlined, vars
<1> QED BY <1>1, <1>2, EmittedInv, InterpretInv, DispatchInv DEF Next

\* and it gives the types.
LEMMA InvTypes == IInv => TypeOK
<1> SUFFICES ASSUME IInv PROVE TypeOK
  OBVIOUS
<1>1. image \in [x: [0 .. 30 -> SUBSET W64], sp: SUBSET W64, nzcv: SUBSET Nzcv,
                 v: [0 .. 31 -> SUBSET W128], pc: SUBSET W64]
  <2>1. SUBSET W64 = Word(64) /\ SUBSET W128 = Word(128)
    BY DEF Word, W64, W128
  <2> QED BY <2>1 DEF IInv, Img
<1>2. Cardinality(ret) <= 1 /\ \A pc \in ret : pc \subseteq W64
  <2>1. CASE ret = {}
    BY <2>1, FS_EmptySet
  <2>2. CASE \E p \in Word(64) : ret = {p}
    <3>1. PICK p \in Word(64) : ret = {p}
      BY <2>2
    <3>2. Cardinality({p}) = 1
      BY FS_Singleton, Zenon
    <3> QED BY <3>1, <3>2 DEF Word, W64
  <2> QED BY <2>1, <2>2 DEF IInv, Running
<1> QED BY <1>1, <1>2 DEF IInv, Placed, Formed, TypeOK

\* The invariant holds in every reachable state: fields decode yields are in range (decoder),
\* the image keeps its widths (lower/common.rs), only a block's last instruction is not inlined.
THEOREM ExecutionInvariant == Spec => []IInv
<1> QED BY InitInv, StepInv, PTL DEF Spec

\* In every reachable state the registers have their widths, the flags are the four bits of
\* NZCV, the block is no longer than the cap and the place is one of the program (emit.rs,
\* region.rs): Compiled's TypeOK, for every program, register content, pair of addresses and cap.
THEOREM TypeCorrect == Spec => []TypeOK
<1> QED BY InitInv, StepInv, InvTypes, PTL DEF Spec

-----------------------------------------------------------------------------
(* The emitted code against the interpreter. Both work on the same words.   *)

\* The shifts, fields and extensions of the interpreter are those of the emitted code,
LEMMA InterpWords ==
    /\ \A a, n, w : Interp!Shl(a, n, w) = Shl(a, n, w) /\ Interp!Sar(a, n, w) = Sar(a, n, w)
                    /\ Interp!Ror(a, n, w) = Ror(a, n, w) /\ Interp!Slice(a, n, w) = Slice(a, n, w)
                    /\ Interp!Sext(a, n, w) = Sext(a, n, w)
    /\ \A a, n : Interp!Shr(a, n) = Shr(a, n) /\ Interp!Not(a, n) = Not(a, n)
                 /\ Interp!Xor(a, n) = Xor(a, n)
    /\ Interp!W64 = W64 /\ Interp!W32 = W32
    /\ \A n : Interp!Low(n) = Low(n)
<1>1. \A n : Interp!Low(n) = Low(n)
  BY InterpLow
<1>2. \A a, n : Interp!Shr(a, n) = Shr(a, n)
  BY DEF Interp!Shr, Shr
<1>3. \A a, n, w : Interp!Shl(a, n, w) = Shl(a, n, w) /\ Interp!Ror(a, n, w) = Ror(a, n, w)
  BY <1>1, Zenon DEF Interp!Shl, Shl, Interp!Ror, Ror
<1>4. \A a, n, w : Interp!Sar(a, n, w) = Sar(a, n, w) /\ Interp!Slice(a, n, w) = Slice(a, n, w)
                   /\ Interp!Sext(a, n, w) = Sext(a, n, w)
  BY <1>1, <1>2, Zenon DEF Interp!Sar, Sar, Interp!Slice, Slice, Interp!Sext, Sext
<1>5. \A a, n : Interp!Not(a, n) = Not(a, n) /\ Interp!Xor(a, n) = Xor(a, n)
  BY <1>1, Zenon DEF Interp!Not, Not, Interp!Xor, Xor, Interp!SymDiff, SymDiff
<1>6. Interp!W64 = W64 /\ Interp!W32 = W32
  BY <1>1 DEF Interp!W64, W64, Interp!W32, W32
<1> QED BY <1>1, <1>2, <1>3, <1>4, <1>5, <1>6

\* so are its sums and differences,
LEMMA InterpSums ==
    /\ \A a, b : Interp!Plus(a, b) = Plus(a, b)
    /\ \A a, b, w : Interp!Add(a, b, w) = Add(a, b, w) /\ Interp!Minus(a, b, w) = Minus(a, b, w)
    /\ \A a, w : Interp!Neg(a, w) = Neg(a, w)
<1>1. \A a, b : Interp!Plus(a, b) = Plus(a, b)
  BY Zenon DEF Interp!Plus, Plus, Interp!Xor, Xor, Interp!SymDiff, SymDiff
<1>2. \A a, b, w : Interp!Add(a, b, w) = Add(a, b, w)
  BY <1>1, InterpLow, Zenon DEF Interp!Add, Add
<1>3. \A a, w : Interp!Neg(a, w) = Neg(a, w)
  BY <1>2, InterpWords, Zenon DEF Interp!Neg, Neg
<1>4. \A a, b, w : Interp!Minus(a, b, w) = Minus(a, b, w)
  BY <1>2, <1>3, Zenon DEF Interp!Minus, Minus
<1> QED BY <1>1, <1>2, <1>3, <1>4

\* its orders,
LEMMA InterpOrders ==
    /\ \A a, b : Interp!ULess(a, b) = ULess(a, b)
    /\ \A a, b, w : Interp!SLess(a, b, w) = SLess(a, b, w)
    /\ \A a, w : Interp!LeadingZeros(a, w) = LeadingZeros(a, w)
    /\ \A s : Interp!Max(s) = Max(s)
<1>1. \A s : Interp!Max(s) = Max(s)
  BY Zenon DEF Interp!Max, Max
<1>2. \A a, b : Interp!ULess(a, b) = ULess(a, b)
  BY <1>1, InterpWords, Zenon DEF Interp!ULess, ULess
<1>3. \A a, b, w : Interp!SLess(a, b, w) = SLess(a, b, w)
  BY <1>2, InterpWords, Zenon DEF Interp!SLess, SLess
<1>4. \A a, w : Interp!LeadingZeros(a, w) = LeadingZeros(a, w)
  BY <1>1, Zenon DEF Interp!LeadingZeros, LeadingZeros
<1> QED BY <1>1, <1>2, <1>3, <1>4

\* its numbers
LEMMA InterpNumbers ==
    /\ \A n : Interp!Bits(n) = Bits(n)
    /\ \A a : Interp!Num(a) = Num(a)
<1>1. \A n : Interp!Bits(n) = Bits(n)
  BY DEF Interp!Bits, Bits
<1>2. \A a : Interp!Num(a) = Num(a)
  BY Zenon DEF Interp!Num, Num, Interp!MapThenSumSet, MapThenSumSet, Interp!MapThenFoldSet,
               MapThenFoldSet
<1> QED BY <1>1, <1>2

\* and its products and quotients.
LEMMA InterpProducts ==
    /\ \A a, b : Interp!Times(a, b) = Times(a, b)
    /\ \A a, b : Interp!UDiv(a, b) = UDiv(a, b)
<1>1. \A a, b : Interp!Times(a, b) = Times(a, b)
  BY Zenon DEF Interp!Times, Times, Interp!Add, Add, Interp!Plus, Plus, Interp!Low, Low,
               Interp!Xor, Xor, Interp!SymDiff, SymDiff
<1>2. \A a, b : Interp!UDiv(a, b) = UDiv(a, b)
  BY Zenon DEF Interp!UDiv, UDiv, Interp!ULess, ULess, Interp!Max, Max, Interp!Minus, Minus,
               Interp!Neg, Neg, Interp!Not, Not, Interp!Add, Add, Interp!Plus, Plus, Interp!Low, Low,
               Interp!Xor, Xor, Interp!SymDiff, SymDiff, Interp!W64, W64
<1> QED BY <1>1, <1>2

-----------------------------------------------------------------------------
(* Registers, operands and flags of the image and of the processor.         *)

Flags(f)     == {b - 28 : b \in f}
CpuOf(m, p)  == [x |-> m.x, sp |-> m.sp, v |-> m.v, flags |-> Flags(m.nzcv), pc |-> p]

\* The flags of the processor are the bits of the flag word, four places down.
LEMMA FlagsOf ==
    ASSUME NEW f \in SUBSET Nzcv
    PROVE  /\ Flags(f) \in SUBSET (0 .. 3)
           /\ \A k \in 0 .. 3 : k \in Flags(f) <=> k + 28 \in f
<1>1. \A b \in f : b \in Int /\ b - 28 \in 0 .. 3
  BY SMT DEF Nzcv
<1>2. Flags(f) \in SUBSET (0 .. 3)
  BY <1>1 DEF Flags
<1>3. ASSUME NEW k \in 0 .. 3 PROVE k \in Flags(f) <=> k + 28 \in f
  <2>1. ASSUME k + 28 \in f PROVE k \in Flags(f)
    <3>1. k = (k + 28) - 28
      BY SMT
    <3> QED BY <2>1, <3>1 DEF Flags
  <2>2. ASSUME k \in Flags(f) PROVE k + 28 \in f
    <3>1. PICK b \in f : k = b - 28
      BY <2>2 DEF Flags
    <3>2. b = k + 28
      BY <1>1, <3>1, SMT
    <3> QED BY <3>2
  <2> QED BY <2>1, <2>2
<1> QED BY <1>2, <1>3

\* A typed image is a typed processor.
LEMMA CpuTyped ==
    ASSUME NEW m \in Img, NEW p \in Word(64)
    PROVE  CpuOf(m, p) \in Cpus
<1> DEFINE f == Flags(m.nzcv)
<1>1. f \in SUBSET (0 .. 3)
  BY FlagsOf DEF Img
<1> HIDE DEF f
<1>2. CpuOf(m, p) = [x |-> m.x, sp |-> m.sp, v |-> m.v, flags |-> f, pc |-> p]
  BY DEF CpuOf, f
<1> QED BY <1>1, <1>2 DEF Img, Cpus

\* mask_w and width_mask keep the same bits.
LEMMA MaskAgrees ==
    ASSUME NEW v \in Word(64), NEW sf64 \in BOOLEAN
    PROVE  /\ mask_w(v, sf64) = v \cap Interp!width_mask(sf64)
           /\ mask_w(v, sf64) = v \cap Low(Width(sf64))
<1>1. v \cap Low(64) = v
  BY DEF Word
<1>2. Interp!width_mask(sf64) = Low(Width(sf64))
  BY InterpWords, Zenon DEF Interp!width_mask, Interp!datasize, Width
<1> QED BY <1>1, <1>2 DEF mask_w, W32, Width

\* Reading an operand: what it yields, and that the interpreter reads the same.
SameOperand(m, p, idx, sf64, sp) ==
    LET o == push_operand(m, idx, sf64, sp)
    IN  /\ Interp!read(CpuOf(m, p), idx, sf64, sp) = o
        /\ Interp!read_gpr(CpuOf(m, p), idx, sp) = push_operand(m, idx, TRUE, sp)
        /\ o = push_operand(m, idx, TRUE, sp) \cap Low(Width(sf64))
        /\ o \in Word(Width(sf64)) /\ o \in Word(64) /\ (~ sf64 => o \in Word(32))
        /\ o \cap Low(Width(sf64)) = o

\* What an operand reads as is what the interpreter reads.
LEMMA ReadAgrees ==
    ASSUME NEW m \in Img, NEW p \in Word(64), NEW idx \in Reg, NEW sf64 \in BOOLEAN, NEW sp \in BOOLEAN
    PROVE  SameOperand(m, p, idx, sf64, sp)
<1> DEFINE v == IF idx # 31 THEN m.x[idx] ELSE IF sp THEN m.sp ELSE {}
<1>1. v \in Word(64)
  BY DEF Img, Reg, Word
<1>2. Interp!read_gpr(CpuOf(m, p), idx, sp) = v
  BY DEF Interp!read_gpr, CpuOf
<1>3. \A s \in BOOLEAN : push_operand(m, idx, s, sp) = mask_w(v, s)
  BY DEF push_operand, load_x, mask_w, Reg
<1>4. mask_w(v, TRUE) = v
  BY DEF mask_w
<1> HIDE DEF v
<1>5. /\ mask_w(v, sf64) = v \cap Interp!width_mask(sf64)
      /\ mask_w(v, sf64) = v \cap Low(Width(sf64))
  BY <1>1, MaskAgrees, Zenon
<1>6. Interp!read(CpuOf(m, p), idx, sf64, sp) = v \cap Interp!width_mask(sf64)
  BY <1>2, Zenon DEF Interp!read
<1>7. push_operand(m, idx, sf64, sp) = mask_w(v, sf64) /\ push_operand(m, idx, TRUE, sp) = v
  BY <1>3, <1>4, Zenon
<1> DEFINE o == push_operand(m, idx, sf64, sp)
<1> HIDE DEF o
<1>8. o \in Word(Width(sf64)) /\ o \in Word(64) /\ (~ sf64 => o \in Word(32)) /\ o \cap Low(Width(sf64)) = o
  <2>1. o = v \cap Low(Width(sf64)) /\ (~ sf64 => Width(sf64) = 32)
    BY <1>5, <1>7, Zenon DEF o, Width
  <2> QED BY <1>1, <2>1 DEF Word
<1> QED BY <1>2, <1>5, <1>6, <1>7, <1>8, Zenon DEF o, SameOperand

\* A flag test of the emitted code is the interpreter's.
LEMMA FlagAgrees ==
    ASSUME NEW m \in Img
    PROVE  /\ push_flag(m, Nb) <=> Interp!N \in Flags(m.nzcv)
           /\ push_flag(m, Zb) <=> Interp!Z \in Flags(m.nzcv)
           /\ push_flag(m, Cb) <=> Interp!C \in Flags(m.nzcv)
           /\ push_flag(m, Vb) <=> Interp!V \in Flags(m.nzcv)
<1>1. m.nzcv \in SUBSET Nzcv
  BY DEF Img
<1>2. ASSUME NEW k \in 0 .. 3 PROVE push_flag(m, k + 28) <=> k \in Flags(m.nzcv)
  <2>1. (k + 28) % 64 = k + 28
    BY SMT
  <2> DEFINE b == k + 28
  <2>2. b \in Int /\ m.nzcv \subseteq Int
    BY <1>1, SMT DEF Nzcv
  <2>3. 0 \in Shr(m.nzcv, b) <=> b \in m.nzcv
    <3> HIDE DEF b
    <3>1. 0 \in Int /\ 0 + b = b
      BY <2>2
    <3>2. 0 \in Shr(m.nzcv, b) <=> 0 >= 0 /\ 0 + b \in m.nzcv
      BY <2>2, <3>1, InShr, Zenon
    <3> QED BY <3>1, <3>2
  <2>4. push_flag(m, k + 28) <=> 0 \in Shr(m.nzcv, b)
    BY <2>1, Zenon DEF push_flag, I64ShrU
  <2>5. k \in Flags(m.nzcv) <=> k + 28 \in m.nzcv
    BY <1>1, FlagsOf, Zenon
  <2> QED BY <2>3, <2>4, <2>5, Zenon
<1>3. /\ Nb = 3 + 28 /\ Zb = 2 + 28 /\ Cb = 1 + 28 /\ Vb = 0 + 28
      /\ 0 \in 0 .. 3 /\ 1 \in 0 .. 3 /\ 2 \in 0 .. 3 /\ 3 \in 0 .. 3
  BY SMT DEF Nb, Zb, Cb, Vb
<1> QED BY <1>2, <1>3, Zenon DEF Interp!N, Interp!Z, Interp!C, Interp!V

\* A condition the emitted code tests holds when the interpreter's does.
LEMMA CondAgrees ==
    ASSUME NEW m \in Img, NEW cond \in 0 .. 15
    PROVE  emit_cond_test(m, cond) <=> Interp!eval_cond(cond, Flags(m.nzcv))
<1> DEFINE n == Interp!N \in Flags(m.nzcv)
           z == Interp!Z \in Flags(m.nzcv)
           c == Interp!C \in Flags(m.nzcv)
           v == Interp!V \in Flags(m.nzcv)
           h == cond \div 2
           odd == cond % 2 = 1 /\ cond # 15
           A == CASE h = 0 -> push_flag(m, Zb)
                  [] h = 1 -> push_flag(m, Cb)
                  [] h = 2 -> push_flag(m, Nb)
                  [] h = 3 -> push_flag(m, Vb)
                  [] h = 4 -> push_flag(m, Cb) /\ ~push_flag(m, Zb)
                  [] h = 5 -> push_flag(m, Nb) = push_flag(m, Vb)
                  [] h = 6 -> ~push_flag(m, Zb) /\ push_flag(m, Nb) = push_flag(m, Vb)
                  [] OTHER -> TRUE
           B == CASE h = 0 -> z
                  [] h = 1 -> c
                  [] h = 2 -> n
                  [] h = 3 -> v
                  [] h = 4 -> c /\ ~ z
                  [] h = 5 -> n <=> v
                  [] h = 6 -> ~ z /\ (n <=> v)
                  [] OTHER -> TRUE
<1>1. emit_cond_test(m, cond) <=> (A # odd)
  BY Zenon DEF emit_cond_test
<1>2. Interp!eval_cond(cond, Flags(m.nzcv)) <=> IF odd THEN ~ B ELSE B
  BY Zenon DEF Interp!eval_cond, Interp!C, Interp!N, Interp!V, Interp!Z
<1>3. /\ push_flag(m, Nb) = n /\ push_flag(m, Zb) = z /\ push_flag(m, Cb) = c /\ push_flag(m, Vb) = v
      /\ n \in BOOLEAN /\ z \in BOOLEAN /\ c \in BOOLEAN /\ v \in BOOLEAN
  <2>1. \A b : push_flag(m, b) \in BOOLEAN
    BY SMT DEF push_flag
  <2>2. n \in BOOLEAN /\ z \in BOOLEAN /\ c \in BOOLEAN /\ v \in BOOLEAN
    OBVIOUS
  <2>3. (push_flag(m, Nb) <=> n) /\ (push_flag(m, Zb) <=> z) /\ (push_flag(m, Cb) <=> c)
        /\ (push_flag(m, Vb) <=> v)
    BY FlagAgrees, Zenon
  <2> HIDE DEF n, z, c, v
  <2> QED BY <2>1, <2>2, <2>3
<1> HIDE DEF n, z, c, v
<1>4. h \in 0 .. 7
  BY SMT
<1> HIDE DEF h
<1>5. A = B /\ B \in BOOLEAN
  BY <1>3, <1>4
<1>6. odd \in BOOLEAN
  OBVIOUS
<1> HIDE DEF A, B, odd
<1> QED BY <1>1, <1>2, <1>5, <1>6

-----------------------------------------------------------------------------
(* Sums and their flags.                                                    *)

\* k is one of the flags that are set.
IsSet(k, n, z, c, v) == \/ k = Interp!N /\ n
                        \/ k = Interp!Z /\ z
                        \/ k = Interp!C /\ c
                        \/ k = Interp!V /\ v

Widths == {32, 64}
Signs  == {31, 63}
Units  == {{}, {0}}

\* A bit shifted to a flag's place is that flag, if it is set.
LEMMA FlagSet ==
    ASSUME NEW s \in SUBSET {0}, NEW b \in Nzcv
    PROVE  \A q : (q \in I64Shl(s, b) <=> (q = b /\ 0 \in s))
<1>1. b % 64 = b /\ b \in 28 .. 31 /\ b \in Low(64) /\ 0 + b = b
  BY SMT DEF Nzcv, Low
<1>2. I64Shl(s, b) = {i + b : i \in s} \cap Low(64)
  BY <1>1 DEF I64Shl, Shl
<1>3. CASE s = {}
  BY <1>2, <1>3
<1>4. CASE s = {0}
  <2>1. {i + b : i \in s} = {b}
    BY <1>1, <1>4
  <2> QED BY <1>1, <1>2, <1>4, <2>1
<1> QED BY <1>3, <1>4

\* The bit above all others, moved to the bottom.
LEMMA TopMoved ==
    ASSUME NEW n \in {31, 32, 63}, NEW v \in Word(n + 1)
    PROVE  I64ShrU(v, n) \in SUBSET {0} /\ (0 \in I64ShrU(v, n) <=> n \in v)
<1>1. n % 64 = n /\ n \in Int /\ v \subseteq Int /\ 0 \in Int /\ 0 + n = n
  BY SMT DEF Word, Low
<1>2. 0 \in Shr(v, n) <=> (0 >= 0 /\ 0 + n \in v)
  BY <1>1, InShr, Zenon
<1> QED BY <1>1, <1>2, TopBit DEF I64ShrU

\* What the four parts of the flag word come to.
LEMMA FlagWord ==
    ASSUME NEW sign \in Signs, NEW v \in Word(sign + 1), NEW c \in SUBSET {0},
           NEW o \in SUBSET {0}
    PROVE  LET F == SignAndZero(v, sign) \cup I64Shl(c, Cb) \cup I64Shl(o, Vb)
           IN  /\ F \in SUBSET Nzcv
               /\ \A k : (k \in Flags(F) <=> IsSet(k, sign \in v, v = {}, 0 \in c, 0 \in o))
<1> DEFINE s == I64ShrU(v, sign)
           z == Bool(v = {})
           F == SignAndZero(v, sign) \cup I64Shl(c, Cb) \cup I64Shl(o, Vb)
<1>1. s \in SUBSET {0} /\ (0 \in s <=> sign \in v)
  BY TopMoved DEF Signs
<1>2. z \in SUBSET {0} /\ (0 \in z <=> v = {})
  BY DEF Bool
<1>3. /\ \A q : (q \in I64Shl(s, Nb) <=> (q = Nb /\ 0 \in s))
      /\ \A q : (q \in I64Shl(z, Zb) <=> (q = Zb /\ 0 \in z))
      /\ \A q : (q \in I64Shl(c, Cb) <=> (q = Cb /\ 0 \in c))
      /\ \A q : (q \in I64Shl(o, Vb) <=> (q = Vb /\ 0 \in o))
  <2> HIDE DEF s, z
  <2> QED BY <1>1, <1>2, FlagSet, FlagNames, Zenon
<1>4. \A q : (q \in F <=> ((q = Nb /\ sign \in v) \/ (q = Zb /\ v = {})
                           \/ (q = Cb /\ 0 \in c) \/ (q = Vb /\ 0 \in o)))
  <2>1. F = I64Shl(s, Nb) \cup I64Shl(z, Zb) \cup I64Shl(c, Cb) \cup I64Shl(o, Vb)
    BY Zenon DEF SignAndZero
  <2> HIDE DEF F, s, z
  <2> QED BY <1>1, <1>2, <1>3, <2>1
<1> HIDE DEF F
<1>5. F \in SUBSET Nzcv
  BY <1>4, FlagNames
<1>6. \A k : (k \in Flags(F) <=> \E q \in F : k = q - 28)
  BY DEF Flags
<1>7. Nb - 28 = Interp!N /\ Zb - 28 = Interp!Z /\ Cb - 28 = Interp!C /\ Vb - 28 = Interp!V
  BY SMT DEF Nb, Zb, Cb, Vb, Interp!N, Interp!Z, Interp!C, Interp!V
<1>8. ASSUME NEW k PROVE k \in Flags(F) <=> IsSet(k, sign \in v, v = {}, 0 \in c, 0 \in o)
  <2>1. ASSUME k \in Flags(F) PROVE IsSet(k, sign \in v, v = {}, 0 \in c, 0 \in o)
    <3>1. PICK q \in F : k = q - 28
      BY <1>6, <2>1, Zenon
    <3>2. \/ q = Nb /\ sign \in v
          \/ q = Zb /\ v = {}
          \/ q = Cb /\ 0 \in c
          \/ q = Vb /\ 0 \in o
      BY <1>4, Zenon
    <3> QED BY <1>7, <3>1, <3>2, Zenon DEF IsSet
  <2>2. ASSUME IsSet(k, sign \in v, v = {}, 0 \in c, 0 \in o) PROVE k \in Flags(F)
    <3>1. CASE k = Interp!N /\ sign \in v
      <4>1. Nb \in F /\ k = Nb - 28
        BY <1>4, <1>7, <3>1, Zenon
      <4> QED BY <1>6, <4>1, Zenon
    <3>2. CASE k = Interp!Z /\ v = {}
      <4>1. Zb \in F /\ k = Zb - 28
        BY <1>4, <1>7, <3>2, Zenon
      <4> QED BY <1>6, <4>1, Zenon
    <3>3. CASE k = Interp!C /\ 0 \in c
      <4>1. Cb \in F /\ k = Cb - 28
        BY <1>4, <1>7, <3>3, Zenon
      <4> QED BY <1>6, <4>1, Zenon
    <3>4. CASE k = Interp!V /\ 0 \in o
      <4>1. Vb \in F /\ k = Vb - 28
        BY <1>4, <1>7, <3>4, Zenon
      <4> QED BY <1>6, <4>1, Zenon
    <3> QED BY <2>2, <3>1, <3>2, <3>3, <3>4, Zenon DEF IsSet
  <2> QED BY <2>1, <2>2
<1> QED BY <1>5, <1>8, Zenon DEF F

FlagsOfSum(w, s, all, x, y) ==
    {f \in {Interp!N, Interp!Z, Interp!C, Interp!V} :
        CASE f = Interp!N -> w - 1 \in s
          [] f = Interp!Z -> s = {}
          [] f = Interp!C -> w \in all
          [] f = Interp!V -> w - 1 \in Xor(x, s) \cap Xor(y, s)}

\* The flags of a sum, as the interpreter names them.
LEMMA InterpFlags ==
    ASSUME NEW w, NEW s, NEW all, NEW x, NEW y
    PROVE  \A k : (k \in FlagsOfSum(w, s, all, x, y)
                   <=> IsSet(k, w - 1 \in s, s = {}, w \in all, w - 1 \in Xor(x, s) \cap Xor(y, s)))
<1> DEFINE A == w - 1 \in s
           B == s = {}
           H == w \in all
           D == w - 1 \in Xor(x, s) \cap Xor(y, s)
           P(f) == CASE f = Interp!N -> A [] f = Interp!Z -> B [] f = Interp!C -> H [] f = Interp!V -> D
<1>1. (P(3) <=> A) /\ (P(2) <=> B) /\ (P(1) <=> H) /\ (P(0) <=> D)
  <2>1. /\ Interp!N = 3 /\ Interp!Z = 2 /\ Interp!C = 1 /\ Interp!V = 0
        /\ 0 # 1 /\ 0 # 2 /\ 0 # 3 /\ 1 # 2 /\ 1 # 3 /\ 2 # 3
    BY SMT DEF Interp!N, Interp!Z, Interp!C, Interp!V
  <2> HIDE DEF A, B, D, H
  <2> QED BY <2>1
<1>2. Interp!N = 3 /\ Interp!Z = 2 /\ Interp!C = 1 /\ Interp!V = 0
  BY DEF Interp!N, Interp!Z, Interp!C, Interp!V
<1>3. \A k : (k \in {f \in {Interp!N, Interp!Z, Interp!C, Interp!V} : P(f)} <=> IsSet(k, A, B, H, D))
  <2> HIDE DEF P, A, B, H, D
  <2> QED BY <1>1, <1>2, Zenon DEF IsSet
<1> QED BY <1>3, Zenon DEF P, A, B, H, D, FlagsOfSum

FullSum(x, y, c)   == Plus(Plus(x, y), c)
CutSum(w, x, y, c) == FullSum(x, y, c) \cap Low(w)

\* A sum cut at each step is the sum cut once.
LEMMA CutTwice ==
    ASSUME NEW n \in Nat \ {0}, NEW x \in Word(n), NEW y \in Word(n), NEW c \in {{}, {0}}
    PROVE  CutSum(n, x, y, c) = Add(Add(x, y, n), c, n)
<1> DEFINE t2 == Add(x, y, n)
           t3 == Add(t2, c, n)
           all == Plus(Plus(x, y), c)
<1>1. all \cap Low(n) = t3
  BY PlusThree
<1> QED BY <1>1, Zenon DEF CutSum, FullSum

\* The emitted sum is the exact one cut to the width; its flags say what the
\* exact one says.
LEMMA CoreFlags ==
    ASSUME NEW w \in Widths, NEW x \in Word(w), NEW y \in Word(w), NEW c \in Units
    PROVE  LET core == emit_add_core(x, y, c, w = 64)
               all  == FullSum(x, y, c)
               s    == CutSum(w, x, y, c)
           IN  /\ core[1] = s /\ s \in Word(w) /\ core[2] \in SUBSET Nzcv
               /\ \A k : (k \in Flags(core[2]) <=> IsSet(k, w - 1 \in s, s = {}, w \in all,
                                                         w - 1 \in Xor(x, s) \cap Xor(y, s)))
<1> DEFINE all  == FullSum(x, y, c)
           s    == CutSum(w, x, y, c)
           core == emit_add_core(x, y, c, w = 64)
           n    == w - 1
           o    == Xor(x, s) \cap Xor(y, s)
           os   == I64ShrU(o, n)
<1>1. w \in Nat \ {0} /\ n \in Signs /\ n \in {31, 32, 63} /\ n + 1 = w /\ c \in SUBSET {0} /\ c \in {{}, {0}}
  BY DEF Widths, Signs, Units
<1>2. s \in Word(w) /\ s = all \cap Low(w)
  BY DEF Word, CutSum
<1>3. o \in Word(w)
  <2> HIDE DEF s
  <2>1. Xor(x, s) \in Word(w) /\ Xor(y, s) \in Word(w)
    BY <1>2, SetsTyped, Zenon
  <2> QED BY <2>1, SetsTyped, Zenon
<1>4. os \in SUBSET {0} /\ (0 \in os <=> n \in o)
  <2> HIDE DEF o, n
  <2>1. o \in Word(n + 1)
    BY <1>1, <1>3, Zenon
  <2> QED BY <1>1, <2>1, TopMoved, Zenon
<1>5. \E cs \in SUBSET {0} :
         /\ core = <<s, SignAndZero(s, n) \cup I64Shl(cs, Cb) \cup I64Shl(os, Vb)>>
         /\ (0 \in cs <=> w \in all)
  <2>1. CASE w = 64
    <3> DEFINE t2 == I64Add(x, y)
               t3 == I64Add(t2, c)
               cs == Bool(ULess(t2, x) \/ ULess(t3, t2))
    <3>1. n = 63 /\ (w = 64 <=> TRUE)
      BY <2>1
    <3>2. t3 = s /\ (w \in all <=> (ULess(t2, x) \/ ULess(t3, t2)))
      <4>1. t2 = Add(x, y, w) /\ t3 = Add(t2, c, w)
        BY <2>1, Zenon DEF I64Add
      <4> HIDE DEF t2, t3
      <4>2. /\ s = Add(Add(x, y, w), c, w)
            /\ (w \in Plus(Plus(x, y), c)
                <=> (ULess(Add(x, y, w), x) \/ ULess(Add(Add(x, y, w), c, w), Add(x, y, w))))
        <5> DEFINE u2 == Add(x, y, w)
                   u3 == Add(u2, c, w)
        <5>1. s = u3
          BY <1>1, CutTwice, Zenon
        <5>2. (w \in Plus(Plus(x, y), c) <=> (ULess(u2, x) \/ ULess(u3, u2)))
          BY <1>1, PlusThree, Zenon
        <5> QED BY <5>1, <5>2, Zenon
      <4> QED BY <4>1, <4>2, Zenon DEF FullSum
    <3>3. core = <<t3, SignAndZero(t3, 63) \cup I64Shl(cs, Cb)
                       \cup I64Shl(I64ShrU(Xor(x, t3) \cap Xor(y, t3), 63), Vb)>>
      BY <2>1, SMT DEF emit_add_core
    <3>4. core = <<s, SignAndZero(s, n) \cup I64Shl(cs, Cb) \cup I64Shl(os, Vb)>>
      <4> HIDE DEF t3, s, cs, core, n
      <4> QED BY <3>1, <3>2, <3>3
    <3>5. cs \in SUBSET {0} /\ (0 \in cs <=> w \in all)
      <4>1. \A g : Bool(g) \in SUBSET {0} /\ (0 \in Bool(g) <=> g)
        BY DEF Bool
      <4> HIDE DEF all, t2, t3
      <4> QED BY <3>2, <4>1, Zenon
    <3> HIDE DEF cs, os, core, s, all, o, n
    <3> QED BY <3>4, <3>5, Zenon
  <2>2. CASE w = 32
    <3> DEFINE t3 == I64Add(I64Add(x, y), c)
               t2 == t3 \cap W32
               cs == I64ShrU(t3, 32)
    <3>1. n = 31 /\ W32 = Low(w) /\ (w = 64 <=> FALSE)
      BY <2>2 DEF W32
    <3>2. t3 = all /\ t3 \in Word(33)
      <4>1. x \in Word(32) /\ y \in Word(32)
        BY <2>2
      <4> QED BY <1>1, <4>1, ExactSum DEF FullSum
    <3>3. core = <<t2, SignAndZero(t2, 31) \cup I64Shl(cs, Cb)
                       \cup I64Shl(I64ShrU(Xor(x, t2) \cap Xor(y, t2), 31), Vb)>>
      BY <2>2, SMT DEF emit_add_core
    <3>4. t2 = s
      BY <1>2, <3>1, <3>2, Zenon
    <3>5. core = <<s, SignAndZero(s, n) \cup I64Shl(cs, Cb) \cup I64Shl(os, Vb)>>
      <4> HIDE DEF t2, s, cs, core, n
      <4> QED BY <3>1, <3>3, <3>4
    <3>6. cs \in SUBSET {0} /\ (0 \in cs <=> w \in all)
      <4>1. 32 \in {31, 32, 63} /\ t3 \in Word(32 + 1)
        BY <3>2
      <4> HIDE DEF t3, all
      <4>2. cs \in SUBSET {0} /\ (0 \in cs <=> 32 \in t3)
        BY <4>1, TopMoved
      <4> QED BY <2>2, <3>2, <4>2
    <3> HIDE DEF cs, os, core, s, all, o, n
    <3> QED BY <3>5, <3>6, Zenon
  <2> QED BY <2>1, <2>2 DEF Widths
<1>6. PICK cs \in SUBSET {0} :
         /\ core = <<s, SignAndZero(s, n) \cup I64Shl(cs, Cb) \cup I64Shl(os, Vb)>>
         /\ (0 \in cs <=> w \in all)
  BY <1>5
<1> DEFINE F == SignAndZero(s, n) \cup I64Shl(cs, Cb) \cup I64Shl(os, Vb)
<1> HIDE DEF s, all, core, n, o, os
<1>7. /\ F \in SUBSET Nzcv
      /\ \A k : (k \in Flags(F) <=> IsSet(k, n \in s, s = {}, 0 \in cs, 0 \in os))
  <2>1. s \in Word(n + 1)
    BY <1>1, <1>2, Zenon
  <2> QED BY <1>1, <1>4, <2>1, FlagWord, Zenon
<1>8. \A k : (k \in Flags(F) <=> IsSet(k, n \in s, s = {}, w \in all, n \in o))
  <2> HIDE DEF F
  <2> QED BY <1>4, <1>6, <1>7, Zenon DEF IsSet
<1>9. core = <<s, F>>
  BY <1>6, Zenon
<1> HIDE DEF F
<1>10. core[1] = s /\ core[2] = F
  BY <1>9
<1>11. /\ core[1] = s /\ s \in Word(w) /\ core[2] \in SUBSET Nzcv
       /\ \A k : (k \in Flags(core[2]) <=> IsSet(k, n \in s, s = {}, w \in all, n \in o))
  BY <1>2, <1>7, <1>8, <1>10, Zenon
<1> QED BY <1>11, Zenon DEF core, s, all, n, o

SumOf(sf64, a, b, carry) ==
    LET w == Width(sf64)  x == a \cap Low(w)  y == b \cap Low(w)  c == Bool(carry)
        s == CutSum(w, x, y, c)
    IN  <<s, FlagsOfSum(w, s, FullSum(x, y, c), x, y)>>

\* A sum of the interpreter is the exact one cut to the width, with its flags.
LEMMA InterpSum ==
    ASSUME NEW sf64 \in BOOLEAN, NEW a, NEW b, NEW carry \in BOOLEAN
    PROVE  Interp!add_with_carry_in(a, b, carry, sf64) = SumOf(sf64, a, b, carry)
<1> DEFINE w    == Width(sf64)
           x    == a \cap Low(w)
           y    == b \cap Low(w)
           c    == Bool(carry)
           all  == FullSum(x, y, c)
           s    == CutSum(w, x, y, c)
           fl   == FlagsOfSum(w, s, all, x, y)
           sum  == Interp!add_with_carry_in(a, b, carry, sf64)
<1>1. sum = <<s, fl>>
  <2>1. Interp!datasize(sf64) = w /\ c = IF carry THEN {0} ELSE {}
    BY Zenon DEF Interp!datasize, Bool, Width
  <2>2. a \cap Interp!Low(w) = x /\ b \cap Interp!Low(w) = y /\ Low(w) = Interp!Low(w)
    BY InterpWords, Zenon
  <2>3. \A p, q : Interp!Plus(p, q) = Plus(p, q) /\ Interp!Xor(p, q) = Xor(p, q)
    BY InterpSums, InterpWords, Zenon
  <2> DEFINE all1 == Interp!Plus(Interp!Plus(a \cap Interp!Low(w), b \cap Interp!Low(w)), c)
             s1   == all1 \cap Interp!Low(w)
  <2>4. all1 = all /\ s1 = s
    BY <2>2, <2>3, Zenon DEF FullSum, CutSum
  <2> HIDE DEF c, w
  <2>5. sum = <<s1, {f \in {Interp!N, Interp!Z, Interp!C, Interp!V} :
                     CASE f = Interp!N -> w - 1 \in s1
                       [] f = Interp!Z -> s1 = {}
                       [] f = Interp!C -> w \in all1
                       [] f = Interp!V -> w - 1 \in Interp!Xor(a \cap Interp!Low(w), s1)
                                                     \cap Interp!Xor(b \cap Interp!Low(w), s1)}>>
    BY <2>1, Zenon DEF Interp!add_with_carry_in
  <2> HIDE DEF all1, s1, all, s, sum
  <2> QED BY <2>2, <2>3, <2>4, <2>5, Zenon DEF FlagsOfSum
<1> QED BY <1>1, Zenon DEF SumOf

\* The emitted sum, and its flags in their places, are the interpreter's.
LEMMA SumAgrees ==
    ASSUME NEW sf64 \in BOOLEAN, NEW a, NEW b, NEW carry \in BOOLEAN
    PROVE  LET w    == Width(sf64)
               core == emit_add_core(a \cap Low(w), b \cap Low(w), Bool(carry), sf64)
               sum  == Interp!add_with_carry_in(a, b, carry, sf64)
           IN  /\ core[1] = sum[1] /\ core[1] \in Word(64) /\ core[2] \in SUBSET Nzcv
               /\ Flags(core[2]) = sum[2]
<1> DEFINE w    == Width(sf64)
           x    == a \cap Low(w)
           y    == b \cap Low(w)
           c    == Bool(carry)
           all  == FullSum(x, y, c)
           s    == CutSum(w, x, y, c)
           fl   == FlagsOfSum(w, s, all, x, y)
           core == emit_add_core(x, y, c, sf64)
           sum  == Interp!add_with_carry_in(a, b, carry, sf64)
<1>0. w \in {32, 64} /\ w \in Widths /\ (w = 64) = sf64
  BY DEF Widths, Width
<1>w. w \in Widths
  BY <1>0, Zenon
<1>1. sum = <<s, fl>>
  <2>1. sum = SumOf(sf64, a, b, carry)
    BY InterpSum, Zenon
  <2>2. SumOf(sf64, a, b, carry) = <<s, fl>>
    BY Zenon DEF SumOf
  <2> HIDE DEF sum, s, fl
  <2> QED BY <2>1, <2>2, Zenon
<1>2. c \in Units
  BY DEF Bool, Units
<1>3. x \in Word(w) /\ y \in Word(w)
  BY DEF Word
<1>4. \A k : (k \in fl <=> IsSet(k, w - 1 \in s, s = {}, w \in all,
                                w - 1 \in Xor(x, s) \cap Xor(y, s)))
  <2> HIDE DEF all, s, x, y
  <2> QED BY InterpFlags, Zenon
<1>5. core = emit_add_core(x, y, c, w = 64)
  BY <1>0, Zenon
<1> HIDE DEF c, x, y, w
<1>6. /\ core[1] = s /\ s \in Word(w) /\ core[2] \in SUBSET Nzcv
      /\ \A k : (k \in Flags(core[2]) <=> IsSet(k, w - 1 \in s, s = {}, w \in all,
                                                w - 1 \in Xor(x, s) \cap Xor(y, s)))
  <2> DEFINE e == emit_add_core(x, y, c, w = 64)
  <2>1. /\ e[1] = s /\ s \in Word(w) /\ e[2] \in SUBSET Nzcv
        /\ \A k : (k \in Flags(e[2]) <=> IsSet(k, w - 1 \in s, s = {}, w \in all,
                                               w - 1 \in Xor(x, s) \cap Xor(y, s)))
    <3>1. e[1] = s /\ s \in Word(w)
      BY <1>w, <1>2, <1>3, CoreFlags, Zenon
    <3>2. e[2] \in SUBSET Nzcv
      BY <1>w, <1>2, <1>3, CoreFlags, Zenon
    <3>3. \A k : (k \in Flags(e[2]) <=> IsSet(k, w - 1 \in s, s = {}, w \in all,
                                            w - 1 \in Xor(x, s) \cap Xor(y, s)))
      BY <1>w, <1>2, <1>3, CoreFlags, Zenon
    <3> HIDE DEF e, s, all
    <3> QED BY <3>1, <3>2, <3>3, Zenon
  <2> HIDE DEF s, all
  <2> QED BY <1>5, <2>1, Zenon
<1> HIDE DEF s, fl, all, core, sum
<1>7. Flags(core[2]) = fl
  <2>1. \A k : (k \in Flags(core[2]) <=> k \in fl)
    BY <1>4, <1>6, Zenon
  <2> DEFINE g == Flags(core[2])
  <2> HIDE DEF g
  <2>2. \A k : (k \in g <=> k \in fl)
    BY <2>1, Zenon DEF g
  <2>3. g = fl
    BY <2>2, Zenon
  <2> QED BY <2>3, Zenon DEF g
<1>8. s \in Word(64)
  BY <1>0, <1>6 DEF Word, Low
<1>9. sum[1] = s /\ sum[2] = fl
  BY <1>1
<1>10. core[1] = sum[1] /\ core[1] \in Word(64) /\ core[2] \in SUBSET Nzcv /\ Flags(core[2]) = sum[2]
  BY <1>6, <1>7, <1>8, <1>9, Zenon
<1> QED BY <1>10, Zenon DEF core, sum, x, y, c, w

-----------------------------------------------------------------------------
(* A comparison orders its operands.                                        *)

\* The top bit of a word is set from half the power on.
LEMMA TopVal ==
    ASSUME NEW n \in Nat \ {0}, NEW v
    PROVE  n - 1 \in v <=> Val(v, n) >= Pow[n - 1]
<1> DEFINE m == n - 1
<1>1. m \in Nat /\ n = m + 1
  OBVIOUS
<1> HIDE DEF m
<1>2. Val(v, m + 1) = Val(v, m) + IF m \in v THEN Pow[m] ELSE 0
  BY <1>1, ValNext
<1>3. Val(v, m) \in Nat /\ Val(v, m) < Pow[m] /\ Pow[m] \in Nat
  BY <1>1, ValBelow
<1>4. m \in v <=> Val(v, n) >= Pow[m]
  BY <1>1, <1>2, <1>3
<1> QED BY <1>4 DEF m

\* The flags of x + not y + 1: Z is equality, C is "not below" and N with V
\* is the signed order.
LEMMA CompareFlags ==
    ASSUME NEW n \in Widths, NEW x \in Word(n), NEW y \in Word(n)
    PROVE  LET z == Not(y, n)
               s == CutSum(n, x, z, {0})
           IN  /\ (s = {} <=> x = y)
               /\ (n \in FullSum(x, z, {0}) <=> ~ ULess(x, y))
               /\ ((n - 1 \in s <=> n - 1 \in Xor(x, s) \cap Xor(z, s)) <=> ~ SLess(x, y, n))
<1> DEFINE z == Not(y, n)
           all == FullSum(x, z, {0})
           s == CutSum(n, x, z, {0})
           m == n - 1
<1>1. n \in Nat \ {0} /\ n \in Nat /\ m \in Nat /\ n = m + 1
  BY DEF Widths
<1>2. z \in Word(n) /\ Val(z, n) = Pow[n] - 1 - Val(y, n)
  BY <1>1, NotVal
<1>3. s \in Word(n) /\ Val(s, n) + (IF n \in all THEN Pow[n] ELSE 0) = Val(x, n) + Val(z, n) + 1
  <2> HIDE DEF z
  <2>1. {0} \in {{}, {0}} /\ Unit({0}) = 1
    BY DEF Unit
  <2> DEFINE t2 == Add(x, z, n)
             t3 == Add(t2, {0}, n)
             a3 == Plus(Plus(x, z), {0})
  <2>2. /\ t3 \in Word(n)
        /\ Val(t3, n) + (IF n \in a3 THEN Pow[n] ELSE 0) = Val(x, n) + Val(z, n) + Unit({0})
    BY <1>1, <1>2, <2>1, PlusThree
  <2>3. s = t3 /\ all = a3
    BY <1>1, <1>2, <2>1, CutTwice, Zenon DEF FullSum
  <2> HIDE DEF t3, a3, s, all
  <2> QED BY <2>1, <2>2, <2>3
<1> HIDE DEF s, all, z, m
<1>4. /\ (x = y <=> Val(x, n) = Val(y, n)) /\ (s = {} <=> Val(s, n) = 0)
  BY <1>1, <1>3, WordEqual, ValZero
<1>5. ULess(x, y) <=> Val(x, n) < Val(y, n)
  BY <1>1, ULessVal
<1>6. SLess(x, y, n) <=> IF m \in x <=> m \in y THEN Val(x, n) < Val(y, n) ELSE m \in x
  BY <1>1, SLessVal DEF m
<1>7. /\ (m \in x <=> Val(x, n) >= Pow[m]) /\ (m \in y <=> Val(y, n) >= Pow[m])
      /\ (m \in z <=> Val(z, n) >= Pow[m]) /\ (m \in s <=> Val(s, n) >= Pow[m])
  <2>1. \A v : (n - 1 \in v <=> Val(v, n) >= Pow[n - 1])
    BY <1>1, TopVal
  <2> QED BY <2>1 DEF m
<1>8. /\ Val(x, n) \in Nat /\ Val(y, n) \in Nat /\ Val(s, n) \in Nat
      /\ Val(x, n) < Pow[n] /\ Val(y, n) < Pow[n] /\ Val(s, n) < Pow[n]
      /\ Pow[m] \in Nat /\ Pow[n] = 2 * Pow[m]
  BY <1>1, ValBelow, PowFacts
<1>9. m \in Xor(x, s) \cap Xor(z, s) <=> (~ (m \in x <=> m \in s) /\ ~ (m \in z <=> m \in s))
  BY SMT DEF Xor, SymDiff
<1> DEFINE vx == Val(x, n)
           vy == Val(y, n)
           vz == Val(z, n)
           vs == Val(s, n)
           H  == Pow[m]
           P  == Pow[n]
           over == m \in Xor(x, s) \cap Xor(z, s)
<1> HIDE DEF vx, vy, vz, vs, H, P, over
<1>10. /\ vx \in Nat /\ vy \in Nat /\ vs \in Nat /\ H \in Nat /\ P = 2 * H
       /\ vx < P /\ vy < P /\ vs < P /\ vz = P - 1 - vy
       /\ vs + (IF n \in all THEN P ELSE 0) = vx + vz + 1
  BY <1>2, <1>3, <1>8 DEF vx, vy, vz, vs, H, P
<1>11. /\ (m \in x <=> vx >= H) /\ (m \in y <=> vy >= H)
       /\ (m \in z <=> vz >= H) /\ (m \in s <=> vs >= H)
  BY <1>7, Zenon DEF vx, vy, vz, vs, H
<1>12. s = {} <=> x = y
  <2>1. (s = {} <=> vs = 0) /\ (x = y <=> vx = vy)
    BY <1>4, Zenon DEF vx, vy, vs
  <2> QED BY <1>10, <2>1
<1>13. n \in all <=> ~ ULess(x, y)
  <2>1. ULess(x, y) <=> vx < vy
    BY <1>5, Zenon DEF vx, vy
  <2> QED BY <1>10, <2>1
<1>14. (m \in s <=> over) <=> ~ SLess(x, y, n)
  <2>1. SLess(x, y, n) <=> IF m \in x <=> m \in y THEN vx < vy ELSE m \in x
    BY <1>6, Zenon DEF vx, vy
  <2>2. over <=> (~ (m \in x <=> m \in s) /\ ~ (m \in z <=> m \in s))
    BY <1>9, Zenon DEF over
  <2> DEFINE X == m \in x
             Y == m \in y
             Z == m \in z
             S == m \in s
             L == SLess(x, y, n)
  <2> HIDE DEF X, Y, Z, S, L
  <2>3. /\ (X <=> vx >= H) /\ (Y <=> vy >= H) /\ (Z <=> vz >= H) /\ (S <=> vs >= H)
        /\ (L <=> IF X <=> Y THEN vx < vy ELSE X)
        /\ (over <=> (~ (X <=> S) /\ ~ (Z <=> S)))
    BY <1>11, <2>1, <2>2, Zenon DEF X, Y, Z, S, L
  <2>4. (S <=> over) <=> ~ L
    BY <1>10, <2>3, SMT
  <2> QED BY <2>4, Zenon DEF S, L
<1> QED BY <1>12, <1>13, <1>14, Zenon DEF s, all, z, m, over

\* Of two words the one is below the other or it is not, in either order.
LEMMA OrdersTurn ==
    ASSUME NEW n \in Widths, NEW x \in Word(n), NEW y \in Word(n)
    PROVE  /\ (ULess(y, x) <=> (~ (x = y) /\ ~ ULess(x, y)))
           /\ (SLess(y, x, n) <=> (~ (x = y) /\ ~ SLess(x, y, n)))
           /\ (x = y => (~ ULess(x, y) /\ ~ SLess(x, y, n)))
<1> DEFINE m == n - 1
<1>1. n \in Nat \ {0} /\ n \in Nat /\ m \in Nat
  BY DEF Widths
<1>2. (x = y <=> Val(x, n) = Val(y, n))
  BY <1>1, WordEqual
<1>3. /\ (ULess(x, y) <=> Val(x, n) < Val(y, n))
      /\ (ULess(y, x) <=> Val(y, n) < Val(x, n))
  BY <1>1, ULessVal
<1>4. /\ (SLess(x, y, n) <=> IF m \in x <=> m \in y THEN Val(x, n) < Val(y, n) ELSE m \in x)
      /\ (SLess(y, x, n) <=> IF m \in y <=> m \in x THEN Val(y, n) < Val(x, n) ELSE m \in y)
  BY <1>1, SLessVal DEF m
<1>5. Val(x, n) \in Nat /\ Val(y, n) \in Nat
  BY <1>1, ValBelow
<1> HIDE DEF m
<1>6. x = y => (m \in x <=> m \in y)
  OBVIOUS
<1> QED BY <1>2, <1>3, <1>4, <1>5, <1>6

-----------------------------------------------------------------------------
\* The ten conditions of an order and its inverse, by the flags they test.
LEMMA Conditions ==
    ASSUME NEW f
    PROVE  LET z == Interp!Z \in f  c == Interp!C \in f
               ge == Interp!N \in f <=> Interp!V \in f
           IN  /\ Interp!eval_cond(0, f) = z /\ Interp!eval_cond(1, f) = ~ z
               /\ Interp!eval_cond(3, f) = ~ c /\ Interp!eval_cond(2, f) = c
               /\ Interp!eval_cond(8, f) = (c /\ ~ z) /\ Interp!eval_cond(9, f) = ~ (c /\ ~ z)
               /\ Interp!eval_cond(11, f) = ~ ge /\ Interp!eval_cond(10, f) = ge
               /\ Interp!eval_cond(12, f) = (~ z /\ ge) /\ Interp!eval_cond(13, f) = ~ (~ z /\ ge)
<1> DEFINE n == Interp!N \in f
           z == Interp!Z \in f
           c == Interp!C \in f
           v == Interp!V \in f
           B(h) == CASE h = 0 -> z
                     [] h = 1 -> c
                     [] h = 2 -> n
                     [] h = 3 -> v
                     [] h = 4 -> c /\ ~ z
                     [] h = 5 -> n <=> v
                     [] h = 6 -> ~ z /\ (n <=> v)
                     [] OTHER -> TRUE
<1>1. \A cond : Interp!eval_cond(cond, f)
                = IF cond % 2 = 1 /\ cond # 15 THEN ~ B(cond \div 2) ELSE B(cond \div 2)
  BY Zenon DEF Interp!eval_cond
<1>2. B(0) = z /\ B(1) = c /\ B(4) = (c /\ ~ z) /\ B(5) = (n <=> v) /\ B(6) = (~ z /\ (n <=> v))
  <2>1. z \in BOOLEAN /\ c \in BOOLEAN /\ n \in BOOLEAN /\ v \in BOOLEAN
    OBVIOUS
  <2> HIDE DEF z, c, n, v
  <2> QED BY <2>1
<1> HIDE DEF B, n, z, c, v
<1>3. /\ Interp!eval_cond(0, f) = B(0) /\ Interp!eval_cond(1, f) = ~ B(0)
      /\ Interp!eval_cond(2, f) = B(1) /\ Interp!eval_cond(3, f) = ~ B(1)
      /\ Interp!eval_cond(8, f) = B(4) /\ Interp!eval_cond(9, f) = ~ B(4)
      /\ Interp!eval_cond(10, f) = B(5) /\ Interp!eval_cond(11, f) = ~ B(5)
      /\ Interp!eval_cond(12, f) = B(6) /\ Interp!eval_cond(13, f) = ~ B(6)
  <2>1. /\ 0 % 2 = 0 /\ 0 \div 2 = 0 /\ 1 % 2 = 1 /\ 1 \div 2 = 0 /\ 2 % 2 = 0 /\ 2 \div 2 = 1
        /\ 3 % 2 = 1 /\ 3 \div 2 = 1 /\ 8 % 2 = 0 /\ 8 \div 2 = 4 /\ 9 % 2 = 1 /\ 9 \div 2 = 4
        /\ 10 % 2 = 0 /\ 10 \div 2 = 5 /\ 11 % 2 = 1 /\ 11 \div 2 = 5
        /\ 12 % 2 = 0 /\ 12 \div 2 = 6 /\ 13 % 2 = 1 /\ 13 \div 2 = 6
    BY SMT
  <2>2. 0 # 1 /\ 1 # 15 /\ 3 # 15 /\ 9 # 15 /\ 11 # 15 /\ 13 # 15
    OBVIOUS
  <2>3. \A k : k % 2 = 0 => Interp!eval_cond(k, f) = B(k \div 2)
    BY <1>1, <2>2, Zenon
  <2>4. \A k : k % 2 = 1 /\ k # 15 => Interp!eval_cond(k, f) = ~ B(k \div 2)
    BY <1>1, Zenon
  <2>5. Interp!eval_cond(0, f) = B(0) /\ Interp!eval_cond(1, f) = ~ B(0)
    BY <2>1, <2>2, <2>3, <2>4, Zenon
  <2>6. Interp!eval_cond(2, f) = B(1) /\ Interp!eval_cond(3, f) = ~ B(1)
    BY <2>1, <2>2, <2>3, <2>4, Zenon
  <2>7. Interp!eval_cond(8, f) = B(4) /\ Interp!eval_cond(9, f) = ~ B(4)
    BY <2>1, <2>2, <2>3, <2>4, Zenon
  <2>8. Interp!eval_cond(10, f) = B(5) /\ Interp!eval_cond(11, f) = ~ B(5)
    BY <2>1, <2>2, <2>3, <2>4, Zenon
  <2>9. Interp!eval_cond(12, f) = B(6) /\ Interp!eval_cond(13, f) = ~ B(6)
    BY <2>1, <2>2, <2>3, <2>4, Zenon
  <2> QED BY <2>5, <2>6, <2>7, <2>8, <2>9, Zenon
<1>4. /\ Interp!eval_cond(0, f) = z /\ Interp!eval_cond(1, f) = ~ z
      /\ Interp!eval_cond(3, f) = ~ c /\ Interp!eval_cond(2, f) = c
      /\ Interp!eval_cond(8, f) = (c /\ ~ z) /\ Interp!eval_cond(9, f) = ~ (c /\ ~ z)
      /\ Interp!eval_cond(11, f) = ~ (n <=> v) /\ Interp!eval_cond(10, f) = (n <=> v)
      /\ Interp!eval_cond(12, f) = (~ z /\ (n <=> v)) /\ Interp!eval_cond(13, f) = ~ (~ z /\ (n <=> v))
  BY <1>2, <1>3, Zenon
<1> QED BY <1>4, Zenon DEF n, z, c, v

\* The flags a comparison of x and y leaves.
SaysOrder(f, n, x, y) ==
    LET z == Not(y, n)  s == CutSum(n, x, z, {0})
    IN  \A k : (k \in f <=> IsSet(k, n - 1 \in s, s = {}, n \in FullSum(x, z, {0}),
                                  n - 1 \in Xor(x, s) \cap Xor(z, s)))

\* The conditions order x and y.
Orders(f, n, x, y) ==
    \A o \in {<<0, x = y>>, <<3, ULess(x, y)>>, <<8, ULess(y, x)>>,
              <<11, SLess(x, y, n)>>, <<12, SLess(y, x, n)>>} :
        /\ Interp!eval_cond(o[1], f) = o[2]
        /\ Interp!eval_cond(o[1] + 1 - 2 * (o[1] % 2), f) = ~ o[2]

\* Flags that say an order order the operands, by each condition and its inverse.
LEMMA FlagsOrder ==
    ASSUME NEW n \in Widths, NEW x \in Word(n), NEW y \in Word(n), NEW f, SaysOrder(f, n, x, y)
    PROVE  Orders(f, n, x, y)
<1> DEFINE z == Not(y, n)
           s == CutSum(n, x, z, {0})
           neg == n - 1 \in s
           out == n \in FullSum(x, z, {0})
           over == n - 1 \in Xor(x, s) \cap Xor(z, s)
           E  == x = y
           UL == ULess(x, y)
           UG == ULess(y, x)
           SL == SLess(x, y, n)
           SG == SLess(y, x, n)
<1>1. \A k : (k \in f <=> IsSet(k, neg, s = {}, out, over))
  BY Zenon DEF SaysOrder
<1>2. (s = {} <=> E) /\ (out <=> ~ UL) /\ ((neg <=> over) <=> ~ SL)
  BY CompareFlags, Zenon
<1>3. (UG <=> (~ E /\ ~ UL)) /\ (SG <=> (~ E /\ ~ SL)) /\ (E => (~ UL /\ ~ SL))
  BY OrdersTurn, Zenon
<1>4. E \in BOOLEAN /\ UL \in BOOLEAN /\ UG \in BOOLEAN /\ SL \in BOOLEAN /\ SG \in BOOLEAN
  BY SMT DEF ULess, SLess
<1> HIDE DEF s, neg, out, over, E, UL, UG, SL, SG
<1> DEFINE fn == Interp!N \in f
           fz == Interp!Z \in f
           fc == Interp!C \in f
           fv == Interp!V \in f
<1>5. (fn <=> neg) /\ (fz <=> s = {}) /\ (fc <=> out) /\ (fv <=> over)
  <2>1. /\ Interp!N # Interp!Z /\ Interp!N # Interp!C /\ Interp!N # Interp!V
        /\ Interp!Z # Interp!C /\ Interp!Z # Interp!V /\ Interp!C # Interp!V
    BY SMT DEF Interp!N, Interp!Z, Interp!C, Interp!V
  <2> QED BY <1>1, <2>1, Zenon DEF IsSet
<1>6. fn \in BOOLEAN /\ fz \in BOOLEAN /\ fc \in BOOLEAN /\ fv \in BOOLEAN
  OBVIOUS
<1>7. /\ Interp!eval_cond(0, f) = fz /\ Interp!eval_cond(1, f) = ~ fz
      /\ Interp!eval_cond(3, f) = ~ fc /\ Interp!eval_cond(2, f) = fc
      /\ Interp!eval_cond(8, f) = (fc /\ ~ fz) /\ Interp!eval_cond(9, f) = ~ (fc /\ ~ fz)
      /\ Interp!eval_cond(11, f) = ~ (fn <=> fv) /\ Interp!eval_cond(10, f) = (fn <=> fv)
      /\ Interp!eval_cond(12, f) = (~ fz /\ (fn <=> fv))
      /\ Interp!eval_cond(13, f) = ~ (~ fz /\ (fn <=> fv))
  BY Conditions, Zenon
<1> HIDE DEF fn, fz, fc, fv
<1>8. /\ fz = E /\ (~ fz) = (~ E) /\ (~ fc) = UL /\ fc = (~ UL)
      /\ (fc /\ ~ fz) = UG /\ (~ (fc /\ ~ fz)) = (~ UG)
      /\ (~ (fn <=> fv)) = SL /\ (fn <=> fv) = (~ SL)
      /\ (~ fz /\ (fn <=> fv)) = SG /\ (~ (~ fz /\ (fn <=> fv))) = (~ SG)
  BY <1>2, <1>3, <1>4, <1>5, <1>6
<1>9. /\ Interp!eval_cond(0, f) = E /\ Interp!eval_cond(1, f) = ~ E
      /\ Interp!eval_cond(3, f) = UL /\ Interp!eval_cond(2, f) = ~ UL
      /\ Interp!eval_cond(8, f) = UG /\ Interp!eval_cond(9, f) = ~ UG
      /\ Interp!eval_cond(11, f) = SL /\ Interp!eval_cond(10, f) = ~ SL
      /\ Interp!eval_cond(12, f) = SG /\ Interp!eval_cond(13, f) = ~ SG
  BY <1>7, <1>8, Zenon
<1>10. /\ 0 + 1 - 2 * (0 % 2) = 1 /\ 3 + 1 - 2 * (3 % 2) = 2 /\ 8 + 1 - 2 * (8 % 2) = 9
       /\ 11 + 1 - 2 * (11 % 2) = 10 /\ 12 + 1 - 2 * (12 % 2) = 13
  BY SMT
<1>11. \A o \in {<<0, E>>, <<3, UL>>, <<8, UG>>, <<11, SL>>, <<12, SG>>} :
         /\ Interp!eval_cond(o[1], f) = o[2]
         /\ Interp!eval_cond(o[1] + 1 - 2 * (o[1] % 2), f) = ~ o[2]
  <2> TAKE o \in {<<0, E>>, <<3, UL>>, <<8, UG>>, <<11, SL>>, <<12, SG>>}
  <2>1. CASE o = <<0, E>>
    <3>1. o[1] = 0 /\ o[2] = E
      BY <2>1
    <3> QED BY <1>9, <1>10, <3>1, Zenon
  <2>2. CASE o = <<3, UL>>
    <3>1. o[1] = 3 /\ o[2] = UL
      BY <2>2
    <3> QED BY <1>9, <1>10, <3>1, Zenon
  <2>3. CASE o = <<8, UG>>
    <3>1. o[1] = 8 /\ o[2] = UG
      BY <2>3
    <3> QED BY <1>9, <1>10, <3>1, Zenon
  <2>4. CASE o = <<11, SL>>
    <3>1. o[1] = 11 /\ o[2] = SL
      BY <2>4
    <3> QED BY <1>9, <1>10, <3>1, Zenon
  <2>5. CASE o = <<12, SG>>
    <3>1. o[1] = 12 /\ o[2] = SG
      BY <2>5
    <3> QED BY <1>9, <1>10, <3>1, Zenon
  <2> QED BY <2>1, <2>2, <2>3, <2>4, <2>5
<1> QED BY <1>11, Zenon DEF Orders, E, UL, UG, SL, SG

-----------------------------------------------------------------------------
\* The two widths.
LEMMA WidthIs ==
    ASSUME NEW sf64 \in BOOLEAN
    PROVE  /\ Width(sf64) \in Widths /\ (Width(sf64) = 64) = sf64
           /\ Width(sf64) = IF sf64 THEN 64 ELSE 32
           /\ Low(Width(sf64)) \subseteq Low(64)
BY DEF Width, Widths, Low

\* A complement cut to the width is the complement of the cut word.
LEMMA NotCut ==
    ASSUME NEW sf64 \in BOOLEAN, NEW b
    PROVE  Not(b, 64) \cap Low(Width(sf64)) = Not(b \cap Low(Width(sf64)), Width(sf64))
<1> DEFINE l == Low(Width(sf64))
           g == Low(64)
<1>1. l \subseteq g
  BY WidthIs
<1> HIDE DEF l, g
<1>2. (g \ b) \cap l = l \ (b \cap l)
  BY <1>1
<1> QED BY <1>2, Zenon DEF Not, l, g

\* The second operand of a subtraction is a complement.
LEMMA SetupNot ==
    ASSUME NEW sf64 \in BOOLEAN, NEW b \in Word(64)
    PROVE  setup_b(b, TRUE, sf64) = Not(b \cap Low(Width(sf64)), Width(sf64))
<1>1. Xor(b, AllOnes) = Not(b, 64) /\ Not(b, 64) \in Word(64)
  BY DEF Xor, SymDiff, AllOnes, W64, Not, Word
<1>2. setup_b(b, TRUE, sf64) = mask_w(Not(b, 64), sf64)
  BY <1>1, Zenon DEF setup_b
<1>3. mask_w(Not(b, 64), sf64) = Not(b, 64) \cap Low(Width(sf64))
  BY <1>1, MaskAgrees, Zenon
<1> QED BY <1>2, <1>3, NotCut, Zenon

\* The flags of an emitted subtraction order its operands,
LEMMA EmittedOrder ==
    ASSUME NEW sf64 \in BOOLEAN, NEW x \in Word(Width(sf64)), NEW b \in Word(64)
    PROVE  SaysOrder(Flags(emit_add_core(x, setup_b(b, TRUE, sf64), Bool(TRUE), sf64)[2]),
                     Width(sf64), x, b \cap Low(Width(sf64)))
<1> DEFINE w == Width(sf64)
           y == b \cap Low(w)
           z == Not(y, w)
           c == Bool(TRUE)
           e == emit_add_core(x, z, c, w = 64)
<1>1. setup_b(b, TRUE, sf64) = z
  BY SetupNot, Zenon
<1>2. w \in Widths /\ (w = 64) = sf64
  BY WidthIs, Zenon
<1>3. z \in Word(w) /\ x \in Word(w)
  BY DEF Not, Word
<1>4. c = {0} /\ c \in Units
  BY DEF Bool, Units
<1>5. emit_add_core(x, setup_b(b, TRUE, sf64), Bool(TRUE), sf64) = e
  BY <1>1, <1>2, Zenon
<1> HIDE DEF w, z, c
<1>6. \A k : (k \in Flags(e[2]) <=> IsSet(k, w - 1 \in CutSum(w, x, z, c), CutSum(w, x, z, c) = {},
                                          w \in FullSum(x, z, c),
                                          w - 1 \in Xor(x, CutSum(w, x, z, c))
                                                     \cap Xor(z, CutSum(w, x, z, c))))
  BY <1>2, <1>3, <1>4, CoreFlags, Zenon
<1> HIDE DEF e
<1>7. SaysOrder(Flags(e[2]), w, x, y)
  BY <1>4, <1>6, Zenon DEF SaysOrder, z
<1> QED BY <1>5, <1>7, Zenon DEF w

\* and those of an interpreted one.
LEMMA InterpretedOrder ==
    ASSUME NEW sf64 \in BOOLEAN, NEW a, NEW b
    PROVE  SaysOrder(Interp!add_with_carry(a, b, TRUE, sf64)[2], Width(sf64),
                     a \cap Low(Width(sf64)), b \cap Low(Width(sf64)))
<1> DEFINE w == Width(sf64)
           x == a \cap Low(w)
           y == b \cap Low(w)
           z == Not(y, w)
           c == Bool(TRUE)
           s == CutSum(w, x, z, c)
           all == FullSum(x, z, c)
           fl == FlagsOfSum(w, s, all, x, z)
           sum == Interp!add_with_carry(a, b, TRUE, sf64)
<1>1. Interp!Not(b, 64) \cap Low(w) = z
  BY InterpWords, NotCut, Zenon
<1>2. c = {0}
  BY DEF Bool
<1>3. sum = Interp!add_with_carry_in(a, Interp!Not(b, 64), TRUE, sf64)
  BY Zenon DEF Interp!add_with_carry
<1>4. sum = <<s, fl>>
  <2>1. sum = SumOf(sf64, a, Interp!Not(b, 64), TRUE)
    BY <1>3, InterpSum, Zenon
  <2> DEFINE n1 == Interp!Not(b, 64)
  <2>2. SumOf(sf64, a, n1, TRUE)
        = <<CutSum(w, x, n1 \cap Low(w), c),
            FlagsOfSum(w, CutSum(w, x, n1 \cap Low(w), c), FullSum(x, n1 \cap Low(w), c), x,
                       n1 \cap Low(w))>>
    BY Zenon DEF SumOf
  <2> HIDE DEF sum, w, c, x, z, n1
  <2>3. n1 \cap Low(w) = z
    BY <1>1, Zenon DEF n1
  <2>4. sum = SumOf(sf64, a, n1, TRUE)
    BY <2>1, Zenon DEF n1
  <2> QED BY <2>2, <2>3, <2>4, Zenon
<1> HIDE DEF fl, sum
<1>5. sum[2] = fl
  BY <1>4
<1> HIDE DEF s, all, x, z, c
<1>6. \A k : (k \in fl <=> IsSet(k, w - 1 \in s, s = {}, w \in all, w - 1 \in Xor(x, s) \cap Xor(z, s)))
  BY InterpFlags, Zenon DEF fl
<1>7. SaysOrder(fl, w, x, y)
  BY <1>2, <1>6, Zenon DEF SaysOrder, z, s, all
<1> QED BY <1>5, <1>7, Zenon DEF sum, x

-----------------------------------------------------------------------------
\* A shift by nothing changes nothing,
LEMMA ShiftsByZero ==
    ASSUME NEW w \in Nat \ {0}, NEW v \in Word(w)
    PROVE  Shl(v, 0, w) = v /\ Shr(v, 0) = v /\ Sar(v, 0, w) = v /\ Ror(v, 0, w) = v
<1>1. \A i \in v : i \in Int /\ i >= 0 /\ i < w /\ i + 0 = i /\ i - 0 = i /\ i % w = i /\ i \in Low(w)
  BY DEF Word, Low
<1>2. {i + 0 : i \in v} = v
  BY <1>1
<1>3. Shl(v, 0, w) = v
  <2>1. v \subseteq Low(w)
    BY DEF Word
  <2> QED BY <1>2, <2>1 DEF Shl
<1>4. Shr(v, 0) = v
  <2>1. {j \in v : j >= 0} = v
    BY <1>1
  <2>2. {i - 0 : i \in v} = v
    BY <1>1
  <2> QED BY <2>1, <2>2, Zenon DEF Shr
<1>5. Sar(v, 0, w) = v
  <2>1. (w - 0) .. (w - 1) = {}
    BY SMT
  <2> QED BY <1>4, <2>1 DEF Sar
<1>6. Ror(v, 0, w) = v
  <2>1. \A i \in v : (i - 0) % w = i
    BY <1>1
  <2>2. {(i - 0) % w : i \in v} = v
    BY <2>1
  <2> QED BY <2>2, Zenon DEF Ror
<1> QED BY <1>3, <1>4, <1>5, <1>6

\* nor does one there and back.
LEMMA UpAndDown ==
    ASSUME NEW v \in Word(32)
    PROVE  I64ShrS(I64Shl(v, 32), 32) \cap W32 = v
<1> DEFINE u == I64Shl(v, 32)
<1>1. 32 % 64 = 32
  BY SMT
<1>2. v \subseteq Int /\ 32 \in Int /\ 64 \in Nat
  BY DEF Word, Low
<1>3. u \in Word(64) /\ \A i \in Int : (i \in u <=> (i \in Low(64) /\ i - 32 \in v))
  <2>1. u = Shl(v, 32, 64)
    BY <1>1 DEF I64Shl
  <2> HIDE DEF u
  <2> QED BY <1>2, <2>1, InShl
<1> HIDE DEF u
<1>4. u \subseteq Int
  BY <1>3 DEF Word, Low
<1>5. \A i \in Int : (i \in Shr(u, 32) <=> (i >= 0 /\ i + 32 \in u))
  BY <1>2, <1>4, InShr
<1>6. I64ShrS(u, 32) = Shr(u, 32) \cup IF 64 - 1 \in u THEN 64 - 32 .. 64 - 1 ELSE {}
  BY <1>1, Zenon DEF I64ShrS, Sar
<1>7. ASSUME NEW i \in 0 .. 31 PROVE i \in I64ShrS(u, 32) <=> i \in v
  <2>1. i \notin 64 - 32 .. 64 - 1
    OBVIOUS
  <2>2. i + 32 \in Low(64) /\ (i + 32) - 32 = i /\ i + 32 \in Int /\ i >= 0 /\ i \in Int
    BY DEF Low
  <2>3. i \in Shr(u, 32) <=> i \in v
    BY <1>3, <1>5, <2>2
  <2> QED BY <1>6, <2>1, <2>3
<1>8. v \subseteq 0 .. 31 /\ W32 = 0 .. 31
  BY DEF Word, Low, W32
<1>9. \A i : (i \in I64ShrS(u, 32) \cap W32 <=> i \in v)
  BY <1>7, <1>8
<1>10. I64ShrS(u, 32) \cap W32 = v
  BY <1>9
<1> QED BY <1>10 DEF u

\* So a register shifted by no bits is the register, emitted or interpreted.
LEMMA NotShifted ==
    ASSUME NEW sf64 \in BOOLEAN, NEW v \in Word(Width(sf64)), NEW shift \in ShiftType
    PROVE  emit_shift(v, shift, 0, sf64) = v /\ Interp!apply_shift(v, shift, 0, sf64) = v
<1> DEFINE w == Width(sf64)
<1>1. w \in Nat \ {0} /\ w \in {32, 64} /\ v \in Word(w) /\ 0 % 64 = 0 /\ 0 % 32 = 0 /\ 0 % w = 0
      /\ w = (IF sf64 THEN 64 ELSE 32)
  BY DEF Width
<1>2. Shl(v, 0, w) = v /\ Shr(v, 0) = v /\ Sar(v, 0, w) = v /\ Ror(v, 0, w) = v
  BY <1>1, ShiftsByZero, Zenon
<1>3. shift \in {"Lsl", "Lsr", "Asr", "Ror"}
  BY DEF ShiftType
<1>4. Interp!apply_shift(v, shift, 0, sf64) = v
  <2>1. Interp!datasize(sf64) = w /\ v \cap Interp!Low(w) = v
    <3>1. v \cap Low(w) = v
      BY <1>1 DEF Word
    <3> QED BY <1>1, <3>1, InterpWords, Zenon DEF Interp!datasize
  <2> HIDE DEF w
  <2>2. Interp!apply_shift(v, shift, 0, sf64) =
          CASE shift = "Lsl" -> Interp!Shl(v, 0, w)
            [] shift = "Lsr" -> Interp!Shr(v, 0)
            [] shift = "Asr" -> Interp!Sar(v, 0, w)
            [] shift = "Ror" -> Interp!Ror(v, 0, w)
    BY <1>1, <2>1, Zenon DEF Interp!apply_shift
  <2>3. /\ Interp!Shl(v, 0, w) = v /\ Interp!Shr(v, 0) = v /\ Interp!Sar(v, 0, w) = v
        /\ Interp!Ror(v, 0, w) = v
    BY <1>2, InterpWords, Zenon
  <2> QED BY <1>3, <2>2, <2>3
<1>5. emit_shift(v, shift, 0, sf64) = v
  <2>1. /\ I64ShrU(v, 0) = v /\ (sf64 => (I64ShrS(v, 0) = v /\ Ror(v, 0, 64) = v))
    BY <1>1, <1>2 DEF I64ShrU, I64ShrS
  <2>2. mask_w(I64Shl(v, 0), sf64) = v
    <3>1. v \in Word(64)
      BY <1>1 DEF Word, Low
    <3>2. Shl(v, 0, 64) = v
      BY <3>1, ShiftsByZero
    <3>3. I64Shl(v, 0) = v
      BY <1>1, <3>2 DEF I64Shl
    <3>4. mask_w(v, sf64) = v \cap Low(w)
      BY <1>1, <3>1, MaskAgrees, Zenon
    <3>5. v \cap Low(w) = v
      BY <1>1 DEF Word
    <3> QED BY <3>3, <3>4, <3>5, Zenon
  <2>3. ASSUME ~ sf64 PROVE I64ShrS(I64Shl(v, 32), 32 + 0) \cap W32 = v
    <3>1. v \in Word(32) /\ 32 + 0 = 32
      BY <1>1, <2>3
    <3> QED BY <3>1, UpAndDown, Zenon
  <2> DEFINE n == 0 % IF sf64 THEN 64 ELSE 32
  <2>4. n = 0
    BY <1>1
  <2>5. emit_shift(v, shift, 0, sf64) =
          CASE shift = "Lsl" -> mask_w(I64Shl(v, n), sf64)
            [] shift = "Lsr" -> I64ShrU(v, n)
            [] shift = "Asr" /\ sf64 -> I64ShrS(v, n)
            [] shift = "Asr" /\ ~sf64 -> I64ShrS(I64Shl(v, 32), 32 + n) \cap W32
            [] shift = "Ror" /\ sf64 -> Ror(v, n, 64)
            [] shift = "Ror" /\ ~sf64 -> IF n = 0 THEN v
                                         ELSE I64ShrU(v, n) \cup (I64Shl(v, 32 - n) \cap W32)
    BY Zenon DEF emit_shift
  <2> HIDE DEF n
  <2> QED BY <1>3, <2>1, <2>2, <2>3, <2>4, <2>5
<1> QED BY <1>4, <1>5, Zenon

-----------------------------------------------------------------------------
(* The operands of a comparison, and the flags it leaves.                   *)

Left(m, i)  == push_operand(m, i.rn, i.sf, i.op = "AddSubImm")
Right(m, i) == IF i.op = "AddSubImm"
               THEN Shl(Bits(i.imm12), IF i.shift12 THEN 12 ELSE 0, Width(i.sf))
               ELSE push_operand(m, i.rm, i.sf, FALSE)
Comparisons == {i \in AddSubImms \cup AddSubShifts : Comparison(i)}

\* An immediate is the same cut to the width at once or in two steps.
LEMMA CutImmediate ==
    ASSUME NEW sf64 \in BOOLEAN, NEW a, NEW n \in {0, 12}
    PROVE  /\ I64Shl(a, n) \in Word(64) /\ I64Shl(a, n) \cap Low(Width(sf64)) = Shl(a, n, Width(sf64))
           /\ Interp!Shl(a, n, 64) \cap Low(Width(sf64)) = Shl(a, n, Width(sf64))
<1>1. n % 64 = n
  BY SMT
<1>2. Low(Width(sf64)) \subseteq Low(64)
  BY WidthIs
<1>3. Shl(a, n, 64) \cap Low(Width(sf64)) = Shl(a, n, Width(sf64))
  <2> DEFINE s == {i + n : i \in a}
  <2> HIDE DEF s
  <2>1. (s \cap Low(64)) \cap Low(Width(sf64)) = s \cap Low(Width(sf64))
    BY <1>2
  <2> QED BY <2>1, Zenon DEF Shl, s
<1>4. I64Shl(a, n) = Shl(a, n, 64)
  BY <1>1, Zenon DEF I64Shl
<1>5. Interp!Shl(a, n, 64) = Shl(a, n, 64)
  BY InterpWords, Zenon
<1> QED BY <1>3, <1>4, <1>5, I64Typed, Zenon

\* The flags of an emitted comparison say the order of its operands,
LEMMA EmittedCompares ==
    ASSUME NEW m \in Img, NEW i \in Comparisons, NEW pc, NEW entry
    PROVE  SaysOrder(Flags(lower_sequential(m, i, pc, entry).nzcv), Width(i.sf), Left(m, i), Right(m, i))
<1> DEFINE w == Width(i.sf)
           a == Left(m, i)
           imm == i.op = "AddSubImm"
<1>1. /\ i.sf \in BOOLEAN /\ i.rn \in Reg /\ i.rd \in Reg /\ i.sub = TRUE /\ i.set_flags = TRUE
      /\ imm \in BOOLEAN
  BY DEF Comparisons, Comparison, AddSubImms, AddSubShifts
<1>2. a = push_operand(m, i.rn, i.sf, imm)
  BY Zenon DEF Left
<1>3. a \in Word(w) /\ a \in Word(64) /\ (~ i.sf => a \in Word(32))
  <2> HIDE DEF a, imm
  <2>1. /\ push_operand(m, i.rn, i.sf, imm) \in Word(w) /\ push_operand(m, i.rn, i.sf, imm) \in Word(64)
        /\ (~ i.sf => push_operand(m, i.rn, i.sf, imm) \in Word(32))
    <3>1. imm \in BOOLEAN /\ m.pc \in Word(64)
      BY <1>1 DEF Img
    <3>2. SameOperand(m, m.pc, i.rn, i.sf, imm)
      BY <1>1, <3>1, ReadAgrees, Zenon
    <3> QED BY <3>2, Zenon DEF SameOperand
  <2> QED BY <1>2, <2>1, Zenon
<1>4. ASSUME NEW b \in Word(64), b \cap Low(w) = Right(m, i),
             lower_sequential(m, i, pc, entry) = lower_add(m, i, b, imm, FALSE, Bool(TRUE))
      PROVE  SaysOrder(Flags(lower_sequential(m, i, pc, entry).nzcv), w, a, Right(m, i))
  <2> DEFINE t1 == setup_b(b, TRUE, i.sf)
             core == emit_add_core(a, t1, Bool(TRUE), i.sf)
             m1 == store_local(m, i.rd, i.sf, FALSE, core[1])
  <2>1. lower_sequential(m, i, pc, entry) = [m1 EXCEPT !.nzcv = core[2]]
    BY <1>1, <1>2, <1>4, Zenon DEF lower_add
  <2>2. m1 \in Img
    <3>1. t1 \in Word(64) /\ (~ i.sf => t1 \in Word(32)) /\ Bool(TRUE) \in SUBSET {0}
      BY SetupTyped DEF Bool
    <3> HIDE DEF t1
    <3>2. core[1] \in Word(64)
      BY <1>3, <3>1, AddCoreTyped
    <3> HIDE DEF core
    <3> QED BY <1>1, <3>2, StoreTyped
  <2>3. SaysOrder(Flags(core[2]), w, a, b \cap Low(w))
    BY <1>1, <1>3, EmittedOrder, Zenon
  <2> HIDE DEF m1, core
  <2>4. lower_sequential(m, i, pc, entry).nzcv = core[2]
    BY <2>1, <2>2 DEF Img
  <2> QED BY <1>4, <2>3, <2>4, Zenon
<1>5. CASE imm
  <2> DEFINE n == IF i.shift12 THEN 12 ELSE 0
             b == I64Shl(Bits(i.imm12), n)
  <2>1. n \in {0, 12}
    OBVIOUS
  <2>2. b \in Word(64) /\ b \cap Low(w) = Shl(Bits(i.imm12), n, w)
    <3>1. i.sf \in BOOLEAN
      BY <1>1
    <3> HIDE DEF n
    <3> QED BY <2>1, <3>1, CutImmediate
  <2>3. Right(m, i) = Shl(Bits(i.imm12), n, w)
    BY <1>5, Zenon DEF Right
  <2>4. lower_sequential(m, i, pc, entry) = lower_add(m, i, b, TRUE, ~ i.set_flags, Bool(i.sub))
    BY <1>5 DEF lower_sequential
  <2>5. (~ i.set_flags) = FALSE /\ i.sub = TRUE /\ imm = TRUE
    BY <1>1, <1>5
  <2> HIDE DEF b, n, imm
  <2>6. lower_sequential(m, i, pc, entry) = lower_add(m, i, b, imm, FALSE, Bool(TRUE))
    BY <2>4, <2>5
  <2>7. b \cap Low(w) = Right(m, i)
    BY <2>2, <2>3, Zenon
  <2> QED BY <1>4, <2>2, <2>6, <2>7, Zenon
<1>6. CASE ~ imm
  <2> DEFINE b == push_operand(m, i.rm, i.sf, FALSE)
  <2>1. i.op = "AddSubShiftedReg" /\ i.amount = 0 /\ i.shift \in ShiftType /\ i.rm \in Reg
    BY <1>6 DEF Comparisons, Comparison, AddSubImms, AddSubShifts
  <2>2. Right(m, i) = b
    BY <1>6, Zenon DEF Right
  <2>3. b \in Word(w) /\ b \in Word(64) /\ b \cap Low(w) = b
    <3>1. m.pc \in Word(64) /\ FALSE \in BOOLEAN
      BY DEF Img
    <3>2. SameOperand(m, m.pc, i.rm, i.sf, FALSE)
      BY <1>1, <2>1, <3>1, ReadAgrees, Zenon
    <3> QED BY <3>2, Zenon DEF SameOperand
  <2>4. push_shifted(m, i, FALSE) = b
    <3>1. push_shifted(m, i, FALSE) = emit_shift(b, i.shift, 0, i.sf)
      BY <2>1, Zenon DEF push_shifted
    <3> HIDE DEF b
    <3> QED BY <1>1, <2>1, <2>3, <3>1, NotShifted, Zenon
  <2>5. lower_sequential(m, i, pc, entry)
         = lower_add(m, i, push_shifted(m, i, FALSE), FALSE, FALSE, Bool(i.sub))
    BY <2>1 DEF lower_sequential
  <2>6. imm = FALSE
    BY <1>6
  <2> HIDE DEF b, imm
  <2>7. lower_sequential(m, i, pc, entry) = lower_add(m, i, b, imm, FALSE, Bool(TRUE))
    BY <1>1, <2>4, <2>5, <2>6
  <2> QED BY <1>4, <2>2, <2>3, <2>7, Zenon
<1> QED BY <1>5, <1>6

\* and so do those of an interpreted one.
LEMMA InterpretedCompares ==
    ASSUME NEW m \in Img, NEW i \in Comparisons, NEW p \in Word(64)
    PROVE  SaysOrder(Interp!step(CpuOf(m, p), i).flags, Width(i.sf), Left(m, i), Right(m, i))
<1> DEFINE w == Width(i.sf)
           a == Left(m, i)
           imm == i.op = "AddSubImm"
           c == CpuOf(m, p)
           fin(b) == Interp!Finish(c, i, Interp!add_with_carry(a, b, TRUE, i.sf), FALSE)
           F(b) == [fin(b) EXCEPT !.pc = Interp!Next4(c)].flags
<1>1. /\ i.sf \in BOOLEAN /\ i.rn \in Reg /\ i.rd \in Reg /\ i.sub = TRUE /\ i.set_flags = TRUE
      /\ imm \in BOOLEAN /\ i.op \in {"AddSubImm", "AddSubShiftedReg"}
  BY DEF Comparisons, Comparison, AddSubImms, AddSubShifts
<1>2. a = Interp!read(c, i.rn, i.sf, imm) /\ a \cap Low(w) = a
  <2> DEFINE o == push_operand(m, i.rn, i.sf, imm)
  <2>1. a = o
    BY Zenon DEF Left
  <2> HIDE DEF imm
  <2>2. o \cap Low(w) = o /\ Interp!read(c, i.rn, i.sf, imm) = o
    <3>1. SameOperand(m, p, i.rn, i.sf, imm)
      BY <1>1, ReadAgrees, Zenon
    <3> QED BY <3>1, Zenon DEF SameOperand
  <2> HIDE DEF o, a, c, w
  <2> QED BY <2>1, <2>2
<1>3. Interp!step(c, i) = [Interp!Straight(c, i) EXCEPT !.pc = Interp!Next4(c)]
  <2>1. i.op \notin Interp!BranchOps /\ i.op \notin Interp!VectorOps
    BY <1>1 DEF Interp!BranchOps, Interp!VectorOps, Interp!ScalarOps
  <2> QED BY <2>1, Zenon DEF Interp!step, Interp!IntegerStep
<1>4. ASSUME NEW b \in Word(64), b \cap Low(w) = Right(m, i)
      PROVE  SaysOrder(F(b), w, a, Right(m, i))
  <2> DEFINE sum == Interp!add_with_carry(a, b, TRUE, i.sf)
             d == [c EXCEPT !.flags = sum[2]]
             v == sum[1] \cap Interp!width_mask(i.sf)
  <2>1. SaysOrder(sum[2], w, a \cap Low(w), b \cap Low(w))
    BY <1>1, InterpretedOrder, Zenon
  <2>2. fin(b) = Interp!write_gpr(d, i.rd, FALSE, v)
    BY <1>1, Zenon DEF Interp!Finish, Interp!write
  <2>3. /\ d = [x |-> m.x, sp |-> m.sp, v |-> m.v, flags |-> sum[2], pc |-> p]
    <3> HIDE DEF sum
    <3> QED BY DEF CpuOf
  <2> HIDE DEF d, v, sum
  <2>4. \/ fin(b) = d
        \/ fin(b) = [d EXCEPT !.x[i.rd] = v]
    BY <2>2 DEF Interp!write_gpr
  <2>5. F(b) = sum[2]
    <3> DEFINE g == fin(b)
               q == Interp!Next4(c)
    <3>1. F(b) = [g EXCEPT !.pc = q].flags /\ (g = d \/ g = [d EXCEPT !.x[i.rd] = v])
      BY <2>4
    <3> HIDE DEF g, q, c, F
    <3> QED BY <2>3, <3>1
  <2> HIDE DEF c, F
  <2>6. SaysOrder(sum[2], w, a, Right(m, i))
    BY <1>2, <1>4, <2>1
  <2> QED BY <2>5, <2>6, Zenon
<1> HIDE DEF F
<1>7. ASSUME NEW b \in Word(64), Interp!Straight(c, i) = fin(b)
      PROVE  Interp!step(c, i).flags = F(b)
  BY <1>3, <1>7, Zenon DEF F
<1>5. CASE imm
  <2> DEFINE n == IF i.shift12 THEN 12 ELSE 0
             b == Interp!Shl(Interp!Bits(i.imm12), n, 64)
  <2>1. n \in {0, 12} /\ Interp!Bits(i.imm12) = Bits(i.imm12)
    BY InterpNumbers
  <2>2. b \cap Low(w) = Shl(Bits(i.imm12), n, w)
    <3> HIDE DEF n
    <3> DEFINE b1 == Interp!Shl(Bits(i.imm12), n, 64)
    <3>1. b = b1
      BY <2>1
    <3>2. b1 \cap Low(w) = Shl(Bits(i.imm12), n, w)
      BY <1>1, <2>1, CutImmediate
    <3> HIDE DEF b1, b
    <3> QED BY <3>1, <3>2
  <2>9. b \in Word(64)
    BY InterpWords, ShlWord
  <2>3. Right(m, i) = Shl(Bits(i.imm12), n, w)
    BY <1>5, Zenon DEF Right
  <2>4. Interp!Straight(c, i) = Interp!AddSubImm(c, i)
    <3> HIDE DEF c
    <3> QED BY <1>5 DEF Interp!Straight
  <2>5. Interp!AddSubImm(c, i)
         = Interp!Finish(c, i, Interp!add_with_carry(Interp!read(c, i.rn, i.sf, TRUE), b, i.sub, i.sf),
                         ~ i.set_flags)
    BY Zenon DEF Interp!AddSubImm
  <2>6. (~ i.set_flags) = FALSE /\ i.sub = TRUE /\ imm = TRUE
    BY <1>1, <1>5
  <2> HIDE DEF b, n, imm, c
  <2>7. Interp!Straight(c, i) = fin(b)
    BY <1>2, <2>4, <2>5, <2>6
  <2>8. b \cap Low(w) = Right(m, i)
    BY <2>2, <2>3, Zenon
  <2>10. SaysOrder(F(b), w, a, Right(m, i))
    BY <1>4, <2>8, <2>9, Zenon
  <2> HIDE DEF fin
  <2>11. Interp!step(c, i).flags = F(b)
    BY <1>7, <2>7, <2>9
  <2> DEFINE fb == F(b)
             st == Interp!step(c, i).flags
             rt == Right(m, i)
  <2>12. st = fb /\ SaysOrder(fb, w, a, rt)
    BY <2>10, <2>11, Zenon
  <2> HIDE DEF fb, st, a, w, rt
  <2>13. SaysOrder(st, w, a, rt)
    BY <2>12
  <2> QED BY <2>13, Zenon DEF st, w, a, rt, c
<1>6. CASE ~ imm
  <2> DEFINE b == push_operand(m, i.rm, i.sf, FALSE)
  <2>1. i.op = "AddSubShiftedReg" /\ i.amount = 0 /\ i.shift \in ShiftType /\ i.rm \in Reg
    BY <1>6 DEF Comparisons, Comparison, AddSubImms, AddSubShifts
  <2>2. Right(m, i) = b
    BY <1>6, Zenon DEF Right
  <2>3. b \in Word(w) /\ b \in Word(64) /\ b \cap Low(w) = b /\ Interp!read(c, i.rm, i.sf, FALSE) = b
    <3>1. FALSE \in BOOLEAN
      OBVIOUS
    <3>2. SameOperand(m, p, i.rm, i.sf, FALSE)
      BY <1>1, <2>1, <3>1, ReadAgrees, Zenon
    <3> QED BY <3>2, Zenon DEF SameOperand
  <2>4. Interp!apply_shift(b, i.shift, 0, i.sf) = b
    <3>1. i.sf \in BOOLEAN /\ b \in Word(Width(i.sf)) /\ i.shift \in ShiftType
      BY <1>1, <2>1, <2>3
    <3> HIDE DEF b
    <3> QED BY <3>1, NotShifted
  <2>5. Interp!Straight(c, i) = Interp!AddSubShiftedReg(c, i)
    <3> HIDE DEF c
    <3> QED BY <2>1 DEF Interp!Straight
  <2>6. Interp!AddSubShiftedReg(c, i)
         = Interp!Finish(c, i,
               Interp!add_with_carry(Interp!read(c, i.rn, i.sf, FALSE),
                                     Interp!apply_shift(Interp!read(c, i.rm, i.sf, FALSE), i.shift,
                                                        i.amount, i.sf), i.sub, i.sf), FALSE)
    BY Zenon DEF Interp!AddSubShiftedReg
  <2>7. imm = FALSE
    BY <1>6
  <2> HIDE DEF b, imm, c
  <2>8. Interp!Straight(c, i) = fin(b)
    BY <1>1, <1>2, <2>1, <2>3, <2>4, <2>5, <2>6, <2>7
  <2>9. b \in Word(64) /\ b \cap Low(w) = Right(m, i)
    BY <2>2, <2>3, Zenon
  <2>10. SaysOrder(F(b), w, a, Right(m, i))
    BY <1>4, <2>9, Zenon
  <2> HIDE DEF fin
  <2>11. Interp!step(c, i).flags = F(b)
    BY <1>7, <2>8, <2>9
  <2> DEFINE fb == F(b)
             st == Interp!step(c, i).flags
             rt == Right(m, i)
  <2>12. st = fb /\ SaysOrder(fb, w, a, rt)
    BY <2>10, <2>11, Zenon
  <2> HIDE DEF fb, st, a, w, rt
  <2>13. SaysOrder(st, w, a, rt)
    BY <2>12
  <2> QED BY <2>13, Zenon DEF st, w, a, rt, c
<1> QED BY <1>5, <1>6

-----------------------------------------------------------------------------
\* The operands are those Ordered names.
LEMMA OperandsNamed ==
    ASSUME NEW m \in Img, NEW i \in Comparisons
    PROVE  LET w == Width(i.sf)
               reg(r) == IF r = 31 THEN {} ELSE m.x[r] \cap Low(w)
           IN  /\ Left(m, i) = IF i.op = "AddSubImm" /\ i.rn = 31 THEN m.sp \cap Low(w) ELSE reg(i.rn)
               /\ Right(m, i) = IF i.op = "AddSubImm"
                                THEN Shl(Bits(i.imm12), IF i.shift12 THEN 12 ELSE 0, w) ELSE reg(i.rm)
               /\ Left(m, i) \in Word(w) /\ Right(m, i) \in Word(w)
<1> DEFINE w == Width(i.sf)
           imm == i.op = "AddSubImm"
           reg(r) == IF r = 31 THEN {} ELSE m.x[r] \cap Low(w)
           a == IF imm /\ i.rn = 31 THEN m.sp \cap Low(w) ELSE reg(i.rn)
           n == IF i.shift12 THEN 12 ELSE 0
           b == IF imm THEN Shl(Bits(i.imm12), n, w) ELSE reg(i.rm)
<1>1. /\ i.sf \in BOOLEAN /\ i.rn \in Reg /\ imm \in BOOLEAN
      /\ ~ imm => i.rm \in Reg
  BY DEF Comparisons, Comparison, AddSubImms, AddSubShifts
<1>2. ASSUME NEW r \in Reg, NEW sp \in BOOLEAN
      PROVE  push_operand(m, r, i.sf, sp) = IF sp /\ r = 31 THEN m.sp \cap Low(w) ELSE reg(r)
  <2>1. \A v \in Word(64) : mask_w(v, i.sf) = v \cap Low(w)
    BY <1>1, MaskAgrees, Zenon
  <2>2. CASE r = 31 /\ ~ sp
    BY <2>2 DEF push_operand
  <2>3. CASE r = 31 /\ sp
    <3>1. m.sp \in Word(64)
      BY DEF Img
    <3>2. push_operand(m, r, i.sf, sp) = mask_w(m.sp, i.sf)
      BY <2>3 DEF push_operand, load_x
    <3>3. mask_w(m.sp, i.sf) = m.sp \cap Low(w)
      BY <2>1, <3>1, Zenon
    <3> HIDE DEF w
    <3> QED BY <2>3, <3>2, <3>3
  <2>4. CASE r # 31
    <3>1. m.x[r] \in Word(64)
      BY <2>4 DEF Img, Reg
    <3>2. push_operand(m, r, i.sf, sp) = mask_w(m.x[r], i.sf)
      BY <2>4 DEF push_operand, load_x
    <3>3. mask_w(m.x[r], i.sf) = m.x[r] \cap Low(w)
      BY <2>1, <3>1, Zenon
    <3> HIDE DEF w
    <3> QED BY <2>4, <3>2, <3>3
  <2> QED BY <2>2, <2>3, <2>4
<1>3. Left(m, i) = a
  <2>1. Left(m, i) = push_operand(m, i.rn, i.sf, imm)
    BY Zenon DEF Left
  <2> HIDE DEF imm, w, reg
  <2>2. push_operand(m, i.rn, i.sf, imm) = IF imm /\ i.rn = 31 THEN m.sp \cap Low(w) ELSE reg(i.rn)
    BY <1>1, <1>2
  <2> QED BY <2>1, <2>2
<1>4. Right(m, i) = b
  <2>1. CASE imm
    BY <2>1, Zenon DEF Right
  <2>2. CASE ~ imm
    <3>1. Right(m, i) = push_operand(m, i.rm, i.sf, FALSE)
      BY <2>2, Zenon DEF Right
    <3> HIDE DEF imm, w, reg
    <3>2. push_operand(m, i.rm, i.sf, FALSE) = reg(i.rm)
      BY <1>1, <1>2, <2>2
    <3> QED BY <2>2, <3>1, <3>2
  <2> QED BY <2>1, <2>2
<1>5. a \in Word(w) /\ b \in Word(w)
  <2>1. Shl(Bits(i.imm12), n, w) \in Word(w)
    BY ShlWord
  <2>2. \A r : reg(r) \in Word(w)
    BY DEF Word
  <2>3. m.sp \cap Low(w) \in Word(w)
    BY DEF Word
  <2> HIDE DEF reg, w, n
  <2> QED BY <2>1, <2>2, <2>3
<1> HIDE DEF w, imm
<1>6. Left(m, i) \in Word(w) /\ Right(m, i) \in Word(w)
  BY <1>3, <1>4, <1>5, Zenon
<1> QED BY <1>3, <1>4, <1>6, Zenon DEF w, imm

\* When the flags of the next image order the operands, the conditions do.
LEMMA OrderedBy ==
    ASSUME image \in Img, NEW i \in Comparisons,
           SaysOrder(Flags(image'.nzcv), Width(i.sf), Left(image, i), Right(image, i))
    PROVE  Ordered(i)
<1> DEFINE w == IF i.sf THEN 64 ELSE 32
           R(r) == IF r = 31 THEN {} ELSE image.x[r] \cap Low(w)
           a == IF i.op = "AddSubImm" /\ i.rn = 31 THEN image.sp \cap Low(w) ELSE R(i.rn)
           b == IF i.op = "AddSubImm" THEN Shl(Bits(i.imm12), IF i.shift12 THEN 12 ELSE 0, w)
                ELSE R(i.rm)
           f == {g - 28 : g \in image'.nzcv}
           O == {<<0, a = b>>, <<3, ULess(a, b)>>, <<8, ULess(b, a)>>,
                 <<11, SLess(a, b, w)>>, <<12, SLess(b, a, w)>>}
<1>1. Width(i.sf) = w /\ w \in Widths
  BY DEF Width, Widths
<1>2. Flags(image'.nzcv) = f
  BY Zenon DEF Flags
<1>3. Left(image, i) = a /\ Right(image, i) = b /\ a \in Word(w) /\ b \in Word(w)
  <2> DEFINE u == Width(i.sf)
             S(r) == IF r = 31 THEN {} ELSE image.x[r] \cap Low(u)
             c == IF i.op = "AddSubImm" /\ i.rn = 31 THEN image.sp \cap Low(u) ELSE S(i.rn)
             d == IF i.op = "AddSubImm" THEN Shl(Bits(i.imm12), IF i.shift12 THEN 12 ELSE 0, u)
                  ELSE S(i.rm)
  <2>1. Left(image, i) = c /\ Right(image, i) = d /\ Left(image, i) \in Word(u) /\ Right(image, i) \in Word(u)
    BY OperandsNamed
  <2>2. u = w
    BY <1>1
  <2> HIDE DEF u, w
  <2>3. c = a /\ d = b
    BY <2>2
  <2> HIDE DEF a, b, c, d
  <2> QED BY <2>1, <2>2, <2>3
<1> HIDE DEF w, a, b, f
<1>4. SaysOrder(f, w, a, b)
  BY <1>1, <1>2, <1>3
<1>5. Orders(f, w, a, b)
  BY <1>1, <1>3, <1>4, FlagsOrder, Zenon
<1>6. \A o \in O : /\ Interp!eval_cond(o[1], f) = o[2]
                   /\ Interp!eval_cond(o[1] + 1 - 2 * (o[1] % 2), f) = ~ o[2]
  BY <1>5, Zenon DEF Orders
<1> HIDE DEF O
<1> QED BY <1>6, Zenon DEF Ordered, O, a, b, w, f

\* A comparison is an integer instruction in the middle of a block.
LEMMA ComparisonOf ==
    ASSUME NEW i \in Insns, Comparison(i)
    PROVE  /\ i \in Comparisons /\ ~ is_terminator(i) /\ ~ is_inline_simd(i)
<1>1. i.op \in {"AddSubShiftedReg", "AddSubImm"}
  BY DEF Comparison
<1>2. i \in IntegerInsns
  <2>1. i.op \notin Interp!BranchOps /\ i.op \notin Interp!VectorOps
    BY <1>1 DEF Interp!BranchOps, Interp!VectorOps, Interp!ScalarOps
  <2> QED BY <2>1, BranchNames, VectorNames DEF Insns
<1>3. i \in AddSubImms \cup AddSubShifts
  BY <1>1, <1>2 DEF IntegerInsns, MoveWides, AddSubImms, AddSubShifts, AddSubExts, AddSubCarrys,
     LogicalImms, LogicalRegs, Bitfields, Extracts, CondSelects, CondCompares, DataProc1s, DataProc2s,
     DataProc3s, PcRels, Hints
<1>4. ~ is_terminator(i) /\ ~ is_inline_simd(i)
  BY <1>1 DEF is_terminator, is_inline_simd
<1> QED BY <1>3, <1>4 DEF Comparisons

Compared == Executes /\ Comparison(Insn) => Ordered(Insn)

\* After an emitted comparison the conditions order its operands,
LEMMA EmittedOrders == IInv /\ Emitted => Compared
<1> SUFFICES ASSUME IInv, Emitted, Comparison(Insn) PROVE Ordered(Insn)
  BY DEF Compared
<1> DEFINE i    == block[at + 1]
           last == at + 1 = Len(block)
           t    == lower_terminator(image, i, StaticPC, StaticEntry)
           rel  == gen_rel_pc(image, Plus4(StaticPC, 1), StaticEntry)
           done == IF last /\ is_terminator(i) THEN Leave(t)
                   ELSE [image |-> Lower(image, i), ret |-> IF last THEN {rel} ELSE Running]
<1>1. /\ ret = Running /\ at < Len(block) /\ Interp!Modelled(i)
      /\ image' = done.image /\ ret' = done.ret /\ at' = at + 1
      /\ UNCHANGED <<code, block, first>>
  BY Zenon DEF Emitted
<1>2. Len(block) \in Nat /\ at \in Nat /\ at + 1 \in 1 .. Len(block)
  <2>1. Len(block) \in Nat
    BY LenProperties, Zenon DEF IInv, Formed
  <2> QED BY <1>1, <2>1 DEF IInv
<1>3. i \in Insns
  BY <1>1, <1>2, InsnTyped, Zenon
<1>4. Insn = i
  <2>1. block # <<>>
    <3>1. Len(<<>>) = 0
      OBVIOUS
    <3> QED BY <1>2, <3>1
  <2> QED BY <2>1, Zenon DEF Insn
<1>5. i \in Comparisons /\ ~ is_terminator(i) /\ ~ is_inline_simd(i)
  <2>1. Comparison(i)
    BY <1>4
  <2> HIDE DEF i
  <2> QED BY <1>3, <2>1, ComparisonOf, Zenon
<1>6. image \in Img
  BY DEF IInv
<1>7. image' = lower_sequential(image, i, StaticPC, StaticEntry)
  <2>1. done = [image |-> Lower(image, i), ret |-> IF last THEN {rel} ELSE Running]
    BY <1>5, Zenon
  <2>2. done.image = Lower(image, i)
    <3> HIDE DEF done, rel, last, i
    <3> QED BY <2>1
  <2> QED BY <1>1, <1>5, <2>2, Zenon DEF Lower
<1> HIDE DEF i
<1>8. SaysOrder(Flags(image'.nzcv), Width(i.sf), Left(image, i), Right(image, i))
  <2> DEFINE q == lower_sequential(image, i, StaticPC, StaticEntry)
  <2>1. SaysOrder(Flags(q.nzcv), Width(i.sf), Left(image, i), Right(image, i))
    BY <1>5, <1>6, EmittedCompares, Zenon
  <2> HIDE DEF q
  <2>2. image' = q
    BY <1>7 DEF q
  <2> QED BY <2>1, <2>2
<1>9. Ordered(i)
  BY <1>5, <1>6, <1>8, OrderedBy, Zenon
<1> QED BY <1>4, <1>9, Zenon

\* after an interpreted one too.
LEMMA InterpretOrders == IInv /\ Interpret => Compared
<1> SUFFICES ASSUME IInv, Interpret, Comparison(Insn) PROVE Ordered(Insn)
  BY DEF Compared
<1> DEFINE i == decode(code[first])
           c0 == [x |-> image.x, sp |-> image.sp, v |-> image.v, pc |-> image.pc,
                  flags |-> {b - 28 : b \in image.nzcv}]
           c == Interp!step(c0, i)
<1>1. /\ block = <<>> /\ Interp!Modelled(i)
      /\ image' = [x |-> c.x, sp |-> c.sp, v |-> c.v, pc |-> image.pc,
                   nzcv |-> {f + 28 : f \in c.flags}]
  BY Zenon DEF Interpret
<1>2. i \in Insns
  <2>1. code[first] \in SUBSET W32
    BY ElementOfSeq, Zenon DEF IInv, Placed
  <2> QED BY <1>1, <2>1, ModelledKind, Zenon
<1>3. image \in Img /\ image.pc \in Word(64)
  BY DEF IInv, Img
<1>4. Insn = i
  BY <1>1, Zenon DEF Insn
<1>5. i \in Comparisons
  <2>1. Comparison(i)
    BY <1>4
  <2> HIDE DEF i
  <2> QED BY <1>2, <2>1, ComparisonOf, Zenon
<1> HIDE DEF i
<1>6. c0 = CpuOf(image, image.pc)
  BY DEF CpuOf, Flags
<1>7. c0 \in Cpus
  BY <1>3, <1>6, CpuTyped
<1> HIDE DEF c0
<1>8. c \in Cpus
  BY <1>2, <1>7, StepTyped, Zenon DEF Insns
<1>9. SaysOrder(c.flags, Width(i.sf), Left(image, i), Right(image, i))
  <2> DEFINE d == Interp!step(CpuOf(image, image.pc), i)
  <2>1. SaysOrder(d.flags, Width(i.sf), Left(image, i), Right(image, i))
    BY <1>3, <1>5, InterpretedCompares, Zenon
  <2>2. c = d
    BY <1>6
  <2> HIDE DEF c, d
  <2> QED BY <2>1, <2>2
<1> HIDE DEF c
<1>10. Flags(image'.nzcv) = c.flags
  <2> DEFINE fl == c.flags
             nz == {f + 28 : f \in fl}
  <2>1. fl \in SUBSET (0 .. 3)
    BY <1>8 DEF Cpus
  <2>2. image'.nzcv = nz
    BY <1>1
  <2> HIDE DEF fl
  <2>3. {b - 28 : b \in nz} = fl
    <3>1. \A f \in fl : f \in Int /\ (f + 28) - 28 = f
      BY <2>1
    <3> QED BY <3>1
  <2> HIDE DEF nz
  <2> QED BY <2>2, <2>3 DEF Flags, fl
<1>11. SaysOrder(Flags(image'.nzcv), Width(i.sf), Left(image, i), Right(image, i))
  <2> DEFINE p == Flags(image'.nzcv)
             q == c.flags
  <2>1. p = q /\ SaysOrder(q, Width(i.sf), Left(image, i), Right(image, i))
    BY <1>9, <1>10, Zenon
  <2> HIDE DEF p, q
  <2>2. SaysOrder(p, Width(i.sf), Left(image, i), Right(image, i))
    BY <2>1
  <2> QED BY <2>2, Zenon DEF p
<1>12. Ordered(i)
  BY <1>3, <1>5, <1>11, OrderedBy, Zenon
<1> QED BY <1>4, <1>12, Zenon

\* No other step executes an instruction.
LEMMA OthersIdle ==
    ASSUME IInv, Dispatch \/ UNCHANGED vars
    PROVE  ~ Executes
<1>1. CASE Dispatch
  BY <1>1, Zenon DEF Dispatch, Executes
<1>2. CASE UNCHANGED vars
  <2>1. at' = at /\ ret' = ret
    BY <1>2 DEF vars
  <2>2. at \in Int
    <3>1. Len(block) \in Nat
      BY LenProperties, Zenon DEF IInv, Formed
    <3> QED BY <3>1 DEF IInv
  <2>3. ~ (at' > at)
    BY <2>1, <2>2
  <2> QED BY <2>1, <2>3, Zenon DEF Executes
<1> QED BY <1>1, <1>2

\* After a comparison, emitted or interpreted, each condition code holds exactly when the
\* operands are in the order it names, unsigned and signed, at 32 and 64 bits (arith.rs
\* emit_add_core, cond.rs, alu.rs add_with_carry): Compiled's ComparesOrder, for every
\* program and register content.
THEOREM ComparesInOrder == Spec => ComparesOrder
<1>1. IInv /\ [Next]_vars => Compared
  <2> SUFFICES ASSUME IInv, [Next]_vars PROVE Compared
    OBVIOUS
  <2>1. CASE Emitted
    BY <2>1, EmittedOrders, Zenon
  <2>2. CASE Interpret
    BY <2>2, InterpretOrders, Zenon
  <2>3. CASE Dispatch \/ UNCHANGED vars
    BY <2>3, OthersIdle, Zenon DEF Compared
  <2> QED BY <2>1, <2>2, <2>3, Zenon DEF Next
<1>2. Compared => [Executes /\ Comparison(Insn) => Ordered(Insn)]_vars
  BY Zenon DEF Compared
<1> QED BY <1>1, <1>2, InitInv, StepInv, PTL DEF Spec, ComparesOrder

-----------------------------------------------------------------------------
(* The high half: what an operation on 64 bits leaves of its register.       *)

\* A lane below the 64th bit stays below it.
LEMMA LaneBelow ==
    ASSUME NEW n \in Nat, NEW e \in Nat, n + e <= 64, NEW x, x \subseteq Low(e)
    PROVE  \A i \in x : i + n \in Low(64)
BY DEF Low

\* The lanes of 64 bits fill no more than them.
LEMMA JoinLow ==
    ASSUME NEW e \in {8, 16, 32, 64, 128}, NEW lanes, DOMAIN lanes = 0 .. (64 \div e) - 1
    PROVE  Interp!join(e, lanes) \subseteq Low(64)
<1> DEFINE lane(k) == Interp!Shl(lanes[k] \cap Interp!Low(e), k * e, 128)
           D == DOMAIN lanes
           S == {lane(k) : k \in D}
<1>1. Interp!join(e, lanes) = UNION S
  BY Zenon DEF Interp!join
<1>2. ASSUME NEW k \in D PROVE lane(k) \subseteq Low(64)
  <2> DEFINE n == k * e
             x == lanes[k] \cap Interp!Low(e)
  <2>1. n \in Nat /\ n + e <= 64
    <3>1. 64 \div 8 = 8 /\ 64 \div 16 = 4 /\ 64 \div 32 = 2 /\ 64 \div 64 = 1 /\ 64 \div 128 = 0
      OBVIOUS
    <3>2. k \in 0 .. (64 \div e) - 1
      BY <1>2
    <3>3. CASE e = 8
      BY <3>1, <3>2, <3>3
    <3>4. CASE e = 16
      BY <3>1, <3>2, <3>4
    <3>5. CASE e = 32
      BY <3>1, <3>2, <3>5
    <3>6. CASE e = 64
      BY <3>1, <3>2, <3>6
    <3>7. CASE e = 128
      BY <3>1, <3>2, <3>7
    <3> QED BY <3>3, <3>4, <3>5, <3>6, <3>7
  <2>2. lane(k) = {i + n : i \in x} \cap Interp!Low(128)
    BY DEF Interp!Shl
  <2>3. x \subseteq Low(e)
    BY InterpLow, Zenon
  <2> HIDE DEF n, x, lane
  <2>5. e \in Nat
    OBVIOUS
  <2>6. \A i \in x : i + n \in Low(64)
    BY <2>1, <2>3, <2>5, LaneBelow
  <2>7. \A j : j \in lane(k) => \E i \in x : j = i + n
    BY <2>2, Zenon
  <2> QED BY <2>6, <2>7
<1> HIDE DEF S
<1>3. \A a \in S : a \subseteq Low(64)
  BY <1>2 DEF S
<1> QED BY <1>1, <1>3

Sizes == {8, 16, 32, 64, 128}

\* The same of the lanes of a half register.
LEMMA LanesLow ==
    ASSUME NEW e \in Sizes
    PROVE  \A lanes : DOMAIN lanes = 0 .. (Interp!Half(FALSE) \div e) - 1
                      => Interp!join(e, lanes) \subseteq Low(64)
<1>1. Interp!Half(FALSE) = 64
  BY DEF Interp!Half
<1>2. \A lanes : DOMAIN lanes = 0 .. (64 \div e) - 1 => Interp!join(e, lanes) \subseteq Low(64)
  <2> TAKE lanes
  <2> HAVE DOMAIN lanes = 0 .. (64 \div e) - 1
  <2>1. e \in {8, 16, 32, 64, 128}
    BY DEF Sizes
  <2> QED BY <2>1, JoinLow
<1> QED BY <1>1, <1>2

\* What the high half holds is dropped.
LEMMA HalfLow ==
    /\ Interp!Low(Interp!Half(FALSE)) = Low(64) /\ Interp!Half(FALSE) = 64
    /\ \A x : x \cap Low(64) \subseteq Low(64)
BY InterpLow DEF Interp!Half

\* The operations on two registers, by lane or by bit,
LEMMA ThreeSameLow ==
    ASSUME NEW i, NEW a, NEW b, NEW d, i.size \in 0 .. 3
    PROVE  Interp!ThreeSame(i, FALSE, a, b, d) \subseteq Low(64)
<1> DEFINE e == 8 * 2 ^ i.size
<1>1. e \in Sizes
  BY SizeTyped DEF Sizes
<1>2. Interp!logical(i.u, i.size, a, b, d) \cap Interp!Low(Interp!Half(FALSE)) \subseteq Low(64)
  BY HalfLow, Zenon
<1>3. \A opcode, u : Interp!pairwise(opcode, u, e, Interp!Half(FALSE), a, b) \subseteq Low(64)
  <2> HIDE DEF e
  <2> QED BY <1>1, LanesLow, Zenon DEF Interp!pairwise, Interp!Lanes
<1> QED BY <1>1, <1>2, <1>3, LanesLow, Zenon DEF Interp!ThreeSame, Interp!Lanes

\* the rounding products and the dot product,
LEMMA ThreeSameExtraLow ==
    ASSUME NEW i, NEW a, NEW b, NEW d, i.size \in 0 .. 3, ~ i.q
    PROVE  Interp!ThreeSameExtra(i, a, b, d) \subseteq Low(64)
<1> DEFINE e == 8 * 2 ^ i.size
<1>1. e \in Sizes /\ 32 \in Sizes
  BY SizeTyped DEF Sizes
<1>2. Interp!Half(i.q) = Interp!Half(FALSE)
  BY DEF Interp!Half
<1> QED BY <1>1, <1>2, LanesLow, Zenon DEF Interp!ThreeSameExtra, Interp!dot, Interp!Lanes

\* Narrowed lanes go to the low half when Q is clear.
LEMMA NarrowLow ==
    ASSUME NEW e \in Sizes, NEW d
    PROVE  \A lanes : DOMAIN lanes = 0 .. (64 \div e) - 1
                      => Interp!into_half(Interp!join(e, lanes), FALSE, d) \subseteq Low(64)
<1>1. Interp!Half(FALSE) = 64
  BY DEF Interp!Half
<1> QED BY <1>1, LanesLow DEF Interp!into_half

\* the narrowing sum and difference,
LEMMA ThreeDiffLow ==
    ASSUME NEW i, NEW u, NEW a, NEW b, NEW d, i.size \in 0 .. 3, i.opcode \in {4, 6}
    PROVE  Interp!ThreeDiff(i, FALSE, u, a, b, d) \subseteq Low(64)
<1> DEFINE e == 8 * 2 ^ i.size
<1>1. e \in Sizes
  BY SizeTyped DEF Sizes
<1> QED BY <1>1, NarrowLow, Zenon DEF Interp!ThreeDiff, Interp!Lanes

\* the operations with one element that keep the lane size,
LEMMA IndexedLow ==
    ASSUME NEW i, NEW a, NEW b, NEW d, i.size \in 0 .. 3,
           Key(i) \in {14, 30} \cup {8, 16, 20, 12, 13, 29, 31}
    PROVE  Interp!Indexed(i, FALSE, a, b, d) \subseteq Low(64)
<1> DEFINE e == 8 * 2 ^ i.size
           key == 16 * (IF i.u THEN 1 ELSE 0) + i.opcode
<1>1. e \in Sizes /\ 32 \in Sizes
  BY SizeTyped DEF Sizes
<1>2. key \in {14, 30} \cup {8, 16, 20, 12, 13, 29, 31}
  BY DEF Key
<1> QED BY <1>1, <1>2, LanesLow, HalfLow, Zenon DEF Interp!Indexed, Interp!dot, Interp!Lanes

\* those on one register,
LEMMA TwoRegMiscLow ==
    ASSUME NEW i, NEW a, NEW d, i.size \in 0 .. 3, i.opcode # 19
    PROVE  Interp!TwoRegMisc(i, FALSE, a, d) \subseteq Low(64)
<1> DEFINE e == 8 * 2 ^ i.size
<1>1. e \in Sizes /\ 2 * e \in Sizes /\ 8 \in Sizes
  <2>1. e \in {8, 16, 32, 64}
    BY SizeTyped, Zenon
  <2> HIDE DEF e
  <2> QED BY <2>1 DEF Sizes
<1> HIDE DEF e
<1>2. \A v, n : n \in Sizes /\ Joins(v, n, Interp!Half(FALSE)) => v \subseteq Low(64)
  BY LanesLow, Zenon DEF Joins
<1>3. Interp!Not(a, 128) \cap Interp!Low(Interp!Half(FALSE)) \subseteq Low(64)
  <2> DEFINE l == Interp!Low(Interp!Half(FALSE))
  <2>1. l = Low(64)
    BY HalfLow, Zenon
  <2> HIDE DEF l
  <2>2. Interp!Not(a, 128) \cap l \subseteq Low(64)
    BY <2>1
  <2> QED BY <2>2 DEF l
<1>4. \A y : Joins(y, e, 64) => Interp!into_half(y, FALSE, d) \subseteq Low(64)
  BY <1>1, NarrowLow, Zenon DEF Joins
<1> DEFINE v == Interp!TwoRegMisc(i, FALSE, a, d)
<1>5. Shaped(v, i, FALSE, a, d)
  BY TwoRegMiscShape, Zenon
<1> HIDE DEF v
<1>6. v \subseteq Low(64)
  BY <1>1, <1>2, <1>3, <1>4, <1>5, Zenon DEF Shaped, e
<1> QED BY <1>6 DEF v

\* The highest bit of immh names a lane size.
LEMMA SizeNamed ==
    ASSUME NEW n \in 1 .. 15
    PROVE  8 * 2 ^ Interp!Max(Interp!Bits(n)) \in {8, 16, 32, 64}
<1> DEFINE B == Interp!Bits(n)
           s == Interp!Max(B)
<1>1. B \in Word(4) /\ B # {}
  <2>1. B = Bits(n) /\ B = {i \in 0 .. 30 : (n \div 2 ^ i) % 2 = 1}
    BY DEF Interp!Bits, Bits
  <2>2. \A i \in 4 .. 30 : 2 ^ i \in Nat /\ 2 ^ i >= 16
    <3> TAKE i \in 4 .. 30
    <3>1. 4 \in 0 .. 30 /\ 2 ^ 4 = 16 /\ i - 4 \in Nat /\ i \in 0 .. 30
      BY SMT
    <3>2. 2 ^ i = Pow[i] /\ Pow[4] = 16
      BY <3>1, Powers
    <3>3. Pow[4 + (i - 4)] = Pow[4] * Pow[i - 4] /\ 4 + (i - 4) = i
      BY <3>1, PowAdd
    <3>4. Pow[i - 4] \in Nat /\ Pow[i - 4] >= 1
      BY <3>1, PowFacts
    <3> QED BY <3>2, <3>3, <3>4
  <2>3. ASSUME NEW i \in 4 .. 30 PROVE i \notin B
    <3> DEFINE p == 2 ^ i
    <3>1. p \in Nat /\ p >= 16
      BY <2>2
    <3> HIDE DEF p
    <3>2. (n \div p) % 2 # 1
      <4>1. n \div p = 0
        BY <3>1
      <4> QED BY <4>1
    <3> QED BY <2>1, <3>2, Zenon DEF p
  <2>4. Bits(n) \in Word(31) /\ Val(Bits(n), 31) = n
    <3>1. Pow[30 + 1] = 2 * Pow[30] /\ Pow[30] = 2 ^ 30
      <4>1. 30 \in Nat /\ 30 \in 0 .. 30
        OBVIOUS
      <4> QED BY <4>1, PowFacts, Powers
    <3>2. 2 ^ 30 > 31 /\ 30 + 1 = 31
      BY SMT
    <3> QED BY <3>1, <3>2, BitsVal
  <2>5. Val({}, 31) = 0
    BY ValEmpty
  <2>6. B # {}
    BY <2>1, <2>4, <2>5
  <2> HIDE DEF B
  <2>7. B \subseteq 0 .. 30
    BY <2>1, Zenon
  <2> HIDE DEF B
  <2> QED BY <2>3, <2>6, <2>7 DEF Word, Low
<1>2. s \in B
  <2>1. Interp!Max(B) = Max(B)
    BY Zenon DEF Interp!Max, Max
  <2>2. Max(B) \in B
    <3>1. 4 \in Nat
      OBVIOUS
    <3> HIDE DEF B
    <3> QED BY <1>1, <3>1, MaxIsLargest, Zenon
  <2> QED BY <2>1, <2>2
<1>3. s \in 0 .. 3
  BY <1>1, <1>2 DEF Word, Low
<1> HIDE DEF s
<1>4. 8 * 2 ^ s \in {8, 16, 32, 64}
  BY <1>3, SizeTyped, Zenon
<1> QED BY <1>4 DEF s

\* the shifts that do not widen, of the lane size immh names,
LEMMA ShiftImmLow ==
    ASSUME NEW i, NEW a, NEW d, i.immh \in 1 .. 15, i.opcode # 20
    PROVE  Interp!ShiftImm(i, FALSE, a, d) \subseteq Low(64) /\ Interp!ShiftSize(i) \in Sizes
<1> DEFINE e == Interp!ShiftSize(i)
<1>1. e \in Sizes
  BY SizeNamed DEF Interp!ShiftSize, Sizes
<1> HIDE DEF e
<1>2. Interp!ShiftImm(i, FALSE, a, d) \subseteq Low(64)
  BY <1>1, LanesLow, NarrowLow, Zenon DEF Interp!ShiftImm, Interp!Lanes, e
<1> QED BY <1>1, <1>2 DEF e

\* the constants, permutations and copies,
LEMMA PermuteLow ==
    ASSUME NEW c, NEW i, NEW a, NEW b, NEW d, NEW x, NEW e \in Sizes, ~ i.q
    PROVE  /\ Interp!ModImm(i, d) \subseteq Low(64) /\ Interp!Ext(i, a, b) \subseteq Low(64)
           /\ Interp!TableLookup(c, i, x, d) \subseteq Low(64)
           /\ Interp!dup(x, e, FALSE) \subseteq Low(64)
           /\ i.size \in 0 .. 3 => Interp!ZipTrn(i, a, b) \subseteq Low(64)
<1>1. Interp!Half(i.q) = Interp!Half(FALSE) /\ 8 \in Sizes
  BY DEF Interp!Half, Sizes
<1>2. Interp!ModImm(i, d) \subseteq Low(64) /\ Interp!Ext(i, a, b) \subseteq Low(64)
  <2>1. \A y : y \cap Interp!Low(Interp!Half(i.q)) \subseteq Low(64)
    BY <1>1, HalfLow
  <2> QED BY <2>1, Zenon DEF Interp!ModImm, Interp!Ext
<1>3. Interp!TableLookup(c, i, x, d) \subseteq Low(64)
  BY <1>1, LanesLow, Zenon DEF Interp!TableLookup, Interp!Lanes
<1>4. Interp!dup(x, e, FALSE) \subseteq Low(64)
  BY LanesLow, Zenon DEF Interp!dup, Interp!Lanes
<1>5. ASSUME i.size \in 0 .. 3 PROVE Interp!ZipTrn(i, a, b) \subseteq Low(64)
  <2>1. 8 * 2 ^ i.size \in Sizes
    BY <1>5, SizeTyped DEF Sizes
  <2> QED BY <1>1, <2>1, LanesLow, Zenon DEF Interp!ZipTrn, Interp!Lanes
<1> QED BY <1>2, <1>3, <1>4, <1>5

\* A word of at most 64 bits lies in the low half.
LEMMA CutLow ==
    ASSUME NEW e \in {8, 16, 32, 64}, NEW x
    PROVE  x \cap Interp!Low(e) \subseteq Low(64) /\ Interp!Low(e) \cap x \subseteq Low(64)
<1>1. Low(e) \subseteq Low(64)
  BY DEF Low
<1> QED BY <1>1, InterpLow

\* and the reductions, which mask their one lane, leave the high half clear.
LEMMA AcrossLow ==
    ASSUME NEW i \in AcrossLanes, NEW a
    PROVE  Interp!Across(i, a) \subseteq Low(64)
<1> DEFINE e == 8 * 2 ^ i.size
<1>1. i.size \in 0 .. 3 /\ i.size <= 2
  BY DEF AcrossLanes, TwoRegs
<1>2. e \in {8, 16, 32, 64} /\ 2 * e \in {8, 16, 32, 64}
  BY <1>1, SizeTyped
<1>3. \A x : x \cap Interp!Low(2 * e) \subseteq Low(64) /\ Interp!Low(e) \cap x \subseteq Low(64)
  <2> HIDE DEF e
  <2> QED BY <1>2, CutLow
<1> QED BY <1>3, Zenon DEF Interp!Across

\* A lane, or one of twice its size, has at most 64 bits.
LEMMA TwiceSize ==
    ASSUME NEW size \in 0 .. 2
    PROVE  16 * 2 ^ size \in {8, 16, 32, 64} /\ 8 * 2 ^ size \in {8, 16, 32, 64}
<1> DEFINE p(k) == 2 ^ k
<1>1. p(0) = 1 /\ p(1) = 2 /\ p(2) = 4
  BY SMT
<1>2. size = 0 \/ size = 1 \/ size = 2
  OBVIOUS
<1> HIDE DEF p
<1>3. p(size) \in {1, 2, 4}
  BY <1>1, <1>2
<1>4. \A q \in {1, 2, 4} : 16 * q \in {8, 16, 32, 64} /\ 8 * q \in {8, 16, 32, 64}
  OBVIOUS
<1>5. 16 * p(size) \in {8, 16, 32, 64} /\ 8 * p(size) \in {8, 16, 32, 64}
  BY <1>3, <1>4
<1> QED BY <1>5 DEF p

\* The lane sizes of the scalar forms.
LEMMA ScalarNamed ==
    ASSUME NEW i \in VectorInsns
    PROVE  /\ i.op \in {"SimdScalarThreeSame", "SimdScalarTwoRegMisc"} => i.size \in 0 .. 3
           /\ i.op = "SimdScalarThreeDiff" => i.size \in 1 .. 2
           /\ i.op = "SimdScalarIndexed" /\ ~ Interp!IsFloat(i) => i.size \in 0 .. 2
           /\ i.op = "SimdScalarShiftImm" => i.immh \in 1 .. 15
           /\ i.op = "SimdScalarCopy" => i.imm5 \in 1 .. 31 /\ i.imm5 # 16
<1>1. CASE i \in ScalarThreeSames \cup ScalarTwoRegMiscs \cup ScalarPairwises
                 \cup ScalarThreeDiffs \cup ScalarCopies \cup ScalarShiftImms
  BY <1>1 DEF ScalarThreeSames, ScalarTwoRegMiscs, ScalarPairwises, ScalarThreeDiffs, ScalarCopies,
              ScalarShiftImms
<1>2. CASE i \in ScalarIndexeds
  <2>1. i.op = "SimdScalarIndexed" /\ i.size \in 0 .. 3 /\ i.opcode \in 0 .. 15 /\ i.u \in BOOLEAN
        /\ (Key(i) \in IndexedFp \/ i.size <= 2)
    BY <1>2 DEF ScalarIndexeds
  <2>2. ASSUME ~ Interp!IsFloat(i) PROVE Key(i) \notin IndexedFp
    <3>1. ~ (i.opcode \in {1, 5, 9} /\ (i.u => i.opcode = 9))
      BY <2>1, <2>2 DEF Interp!IsFloat
    <3> QED BY <2>1, <3>1 DEF Key, IndexedFp
  <2> QED BY <2>1, <2>2
<1>3. CASE i \notin ScalarThreeSames \cup ScalarTwoRegMiscs \cup ScalarPairwises
                 \cup ScalarThreeDiffs \cup ScalarCopies \cup ScalarShiftImms \cup ScalarIndexeds
  <2>1. i.op \notin Interp!ScalarOps
    BY <1>3 DEF VectorInsns, AcrossLanes, Copies, InsElements, DupElements, DupGenerals, InsGenerals,
       MovToGprs, Exts, Indexeds, ModImms, ShiftImms, TableLookups, ThreeRegs, TwoRegs, ZipTrns,
       Interp!ScalarOps
  <2> QED BY <2>1 DEF Interp!ScalarOps
<1> QED BY <1>1, <1>2, <1>3

\* A scalar copy takes an element of at most 64 bits.
LEMMA CopyAtMost ==
    ASSUME NEW n \in 1 .. 31, n # 16
    PROVE  8 * 2 ^ Interp!CopySize(n) \in {8, 16, 32, 64}
<1> DEFINE B == Interp!Bits(n)
           s == Interp!CopySize(n)
<1>1. \A i \in 0 .. 30 : i \in B <=> (n \div 2 ^ i) % 2 = 1
  BY Zenon DEF Interp!Bits
<1>2. \E i \in 0 .. 3 : i \in B
  <2>1. 2 ^ 0 = 1 /\ 2 ^ 1 = 2 /\ 2 ^ 2 = 4 /\ 2 ^ 3 = 8
    BY SMT
  <2>2. n % 2 = 1 \/ (n \div 2) % 2 = 1 \/ (n \div 4) % 2 = 1 \/ (n \div 8) % 2 = 1
    BY SMT
  <2> HIDE DEF B
  <2>3. (n \div 1) % 2 = n % 2
    BY SMT
  <2>4. (0 \in B <=> (n \div 1) % 2 = 1) /\ (1 \in B <=> (n \div 2) % 2 = 1)
        /\ (2 \in B <=> (n \div 4) % 2 = 1) /\ (3 \in B <=> (n \div 8) % 2 = 1)
    BY <1>1, <2>1
  <2> QED BY <2>2, <2>3, <2>4
<1>3. s \in Nat /\ \A k \in B : s <= k
  <2>1. s = Interp!Min(B)
    BY DEF Interp!CopySize
  <2>0. B \subseteq 0 .. 30
    BY Zenon DEF Interp!Bits
  <2>2. B \subseteq Nat /\ B # {}
    <3> HIDE DEF B
    <3> QED BY <1>2, <2>0
  <2>3. \E m \in B : \A k \in B : m <= k
    <3> HIDE DEF B
    <3> QED BY <2>2, LeastOf
  <2> HIDE DEF s, B
  <2> QED BY <2>1, <2>2, <2>3 DEF Interp!Min
<1>4. s \in 0 .. 3
  <2> HIDE DEF s, B
  <2> QED BY <1>2, <1>3
<1> HIDE DEF s
<1> QED BY <1>4, SizeTyped DEF s

\* A scalar operation leaves one element of at most 64 bits.
LEMMA ScalarLow ==
    ASSUME NEW i \in VectorInsns, i.op \in Interp!ScalarOps, ~ Interp!IsFloat(i),
           NEW a \in Word(128), NEW b, NEW d
    PROVE  Interp!Scalar(i, a, b, d) \subseteq Low(64)
<1>1. CASE i.op \in {"SimdScalarThreeSame", "SimdScalarTwoRegMisc"}
  <2>1. i.size \in 0 .. 3
    BY <1>1, ScalarNamed
  <2> DEFINE e == 8 * 2 ^ i.size
  <2>2. e \in {8, 16, 32, 64}
    BY <2>1, SizeTyped
  <2>3. \A x : x \cap Interp!Low(e) \subseteq Low(64)
    <3> HIDE DEF e
    <3> QED BY <2>2, CutLow
  <2>4. Interp!Scalar(i, a, b, d) = Interp!ThreeSame(i, FALSE, a, b, d) \cap Interp!Low(e)
        \/ Interp!Scalar(i, a, b, d) = Interp!TwoRegMisc(i, FALSE, a, d) \cap Interp!Low(e)
    BY <1>1 DEF Interp!Scalar
  <2> HIDE DEF e
  <2> QED BY <2>3, <2>4, Zenon
<1>2. CASE i.op = "SimdScalarPairwise"
  <2>1. Interp!Scalar(i, a, b, d) = Interp!Add(Interp!Lane(a, 64, 0), Interp!Lane(a, 64, 1), 64)
    BY <1>2 DEF Interp!Scalar
  <2>2. Interp!Scalar(i, a, b, d) \in Word(64)
    BY <2>1, AddTyped, Zenon
  <2> QED BY <2>2 DEF Word
<1>3. CASE i.op = "SimdScalarThreeDiff"
  <2>1. i.size \in 1 .. 2
    BY <1>3, ScalarNamed
  <2>a. i.size \in 0 .. 2
    BY <2>1
  <2>2. 16 * 2 ^ i.size \in {8, 16, 32, 64}
    BY <2>a, TwiceSize
  <2> DEFINE e == 16 * 2 ^ i.size
  <2>3. Interp!Scalar(i, a, b, d) = Interp!ThreeDiff(i, FALSE, FALSE, a, b, d) \cap Interp!Low(e)
    BY <1>3 DEF Interp!Scalar
  <2>4. e \in {8, 16, 32, 64}
    BY <2>2
  <2> HIDE DEF e
  <2>5. \A x : x \cap Interp!Low(e) \subseteq Low(64)
    BY <2>4, CutLow
  <2> QED BY <2>3, <2>5, Zenon
<1>4. CASE i.op = "SimdScalarIndexed"
  <2>1. i.size \in 0 .. 2
    BY <1>4, ScalarNamed
  <2> DEFINE e == (IF i.opcode \in {12, 13} THEN 8 ELSE 16) * 2 ^ i.size
  <2>2. e \in {8, 16, 32, 64}
    BY <2>1, TwiceSize
  <2>3. Interp!Scalar(i, a, b, d) = Interp!Indexed(i, FALSE, a, b, d) \cap Interp!Low(e)
    BY <1>4 DEF Interp!Scalar
  <2> HIDE DEF e
  <2>4. \A x : x \cap Interp!Low(e) \subseteq Low(64)
    BY <2>2, CutLow
  <2> QED BY <2>3, <2>4, Zenon
<1>5. CASE i.op = "SimdScalarShiftImm"
  <2>1. i.immh \in 1 .. 15
    BY <1>5, ScalarNamed
  <2>2. Interp!Scalar(i, a, b, d) = Interp!ShiftImm(i, FALSE, a, d) \cap Interp!Low(Interp!ShiftSize(i))
    BY <1>5 DEF Interp!Scalar
  <2>3. Interp!ShiftSize(i) \in {8, 16, 32, 64}
    BY <2>1, SizeNamed, Zenon DEF Interp!ShiftSize
  <2>4. \A x : x \cap Interp!Low(Interp!ShiftSize(i)) \subseteq Low(64)
    <3> DEFINE e == Interp!ShiftSize(i)
    <3>1. e \in {8, 16, 32, 64}
      BY <2>3
    <3> HIDE DEF e
    <3>2. \A x : x \cap Interp!Low(e) \subseteq Low(64)
      BY <3>1, CutLow
    <3> QED BY <3>2 DEF e
  <2> QED BY <2>2, <2>4, Zenon
<1>6. CASE i.op = "SimdScalarCopy"
  <2> DEFINE e == 8 * 2 ^ Interp!CopySize(i.imm5)
             k == i.imm5 \div 2 ^ (Interp!CopySize(i.imm5) + 1)
  <2>1. Interp!Scalar(i, a, b, d) = Interp!Lane(a, e, k)
    BY <1>6 DEF Interp!Scalar
  <2>2. i.imm5 \in 1 .. 31 /\ i.imm5 # 16
    BY <1>6, ScalarNamed
  <2>3. e \in {8, 16, 32, 64} /\ k \in Nat
    BY <2>2, CopySizeTyped, CopyAtMost, Zenon
  <2> HIDE DEF e, k
  <2>4. k * e \in Nat /\ e \in Nat
    BY <2>3
  <2>5. Interp!Lane(a, e, k) \subseteq Low(e)
    <3>1. Interp!Slice(a, k * e, e) = Slice(a, k * e, e)
      BY InterpWords, Zenon
    <3>2. a \subseteq Int
      BY DEF Word, Low
    <3> QED BY <2>4, <3>1, <3>2, SliceWord DEF Interp!Lane, Word
  <2>6. Low(e) \subseteq Low(64)
    BY <2>3 DEF Low
  <2> QED BY <2>1, <2>5, <2>6
<1> QED BY <1>1, <1>2, <1>3, <1>4, <1>5, <1>6 DEF Interp!ScalarOps

\* What the operations of 64 bits that clear the rest have in common.
LEMMA ShortNamed ==
    ASSUME NEW i \in VectorInsns, Short(i), ~ Interp!IsFloat(i),
           i.op \notin Interp!ScalarOps, i.op # "SimdAcrossLanes"
    PROVE  /\ i.q = FALSE
           /\ i.op \notin {"SimdModImm", "SimdExt", "SimdTableLookup", "SimdShiftImm"} => i.size \in 0 .. 3
           /\ i.op = "SimdThreeDiff" => i.opcode \in {4, 6}
           /\ i.op = "SimdIndexed" => Key(i) \in {14, 30} \cup {8, 16, 20, 12, 13, 29, 31}
           /\ i.op = "SimdTwoRegMisc" => i.opcode # 19
           /\ i.op = "SimdShiftImm" => i.immh \in 1 .. 15 /\ i.opcode # 20
<1>1. /\ i.op \notin KeepsRest /\ ~ i.q
      /\ i.op = "SimdThreeDiff" => i.opcode \in {4, 6}
      /\ i.op = "SimdIndexed" => i.opcode \notin {2, 3, 6, 7, 10, 11}
      /\ i.op = "SimdTwoRegMisc" => i.opcode # 19
      /\ i.op = "SimdShiftImm" => i.opcode # 20
  BY DEF Short, Widens
<1>2. i \in DupElements \cup DupGenerals \cup Exts \cup Indexeds \cup ModImms \cup ShiftImms
           \cup TableLookups \cup ThreeRegs("SimdThreeDiff") \cup ThreeRegs("SimdThreeSame")
           \cup ThreeRegs("SimdThreeSameExtra") \cup TwoRegs("SimdTwoRegMisc") \cup ZipTrns
  BY <1>1 DEF KeepsRest, VectorInsns, AcrossLanes, Copies, InsElements, InsGenerals, MovToGprs,
     ScalarThreeSames, ScalarTwoRegMiscs, ScalarPairwises, ScalarThreeDiffs, ScalarCopies,
     ScalarIndexeds, ScalarShiftImms, TwoRegs, Interp!ScalarOps
<1>3. i.q \in BOOLEAN
  BY <1>2 DEF DupElements, DupGenerals, Exts, Indexeds, ModImms, ShiftImms, TableLookups, ThreeRegs,
     TwoRegs, ZipTrns
<1>4. i.op \notin {"SimdModImm", "SimdExt", "SimdTableLookup", "SimdShiftImm"} => i.size \in 0 .. 3
  BY <1>2 DEF DupElements, DupGenerals, Exts, Indexeds, ModImms, ShiftImms, TableLookups, ThreeRegs,
     TwoRegs, ZipTrns
<1>5. i.op = "SimdShiftImm" => i.immh \in 1 .. 15
  BY <1>2 DEF DupElements, DupGenerals, Exts, Indexeds, ModImms, ShiftImms, TableLookups, ThreeRegs,
     TwoRegs, ZipTrns
<1>6. ASSUME i.op = "SimdIndexed"
      PROVE  Key(i) \in {14, 30} \cup {8, 16, 20, 12, 13, 29, 31}
  <2>1. i.opcode \in 0 .. 15 /\ i.u \in BOOLEAN /\ Key(i) \in IndexedFp \cup IndexedKeys
    BY <1>2, <1>6 DEF DupElements, DupGenerals, Exts, Indexeds, ModImms, ShiftImms, TableLookups,
       ThreeRegs, TwoRegs, ZipTrns
  <2>2. i.opcode \notin {2, 3, 6, 7, 10, 11}
    BY <1>1, <1>6
  <2>3. ~ (i.opcode \in {1, 5, 9} /\ (i.u => i.opcode = 9))
    BY <1>6 DEF Interp!IsFloat
  <2> QED BY <2>1, <2>2, <2>3 DEF Key, IndexedFp, IndexedKeys
<1> QED BY <1>1, <1>3, <1>4, <1>5, <1>6

\* The interpreter's result of such an operation lies in the low half.
LEMMA VectorResultLow ==
    ASSUME NEW c \in Cpus, NEW i \in VectorInsns, Short(i), ~ Interp!IsFloat(i)
    PROVE  Interp!VectorResult(c, i) \subseteq Low(64)
<1> DEFINE a == c.v[i.rn]
           b == c.v[i.rm]
           d == c.v[i.rd]
           e == 8 * 2 ^ i.size
           result == Interp!VectorResult(c, i)
<1> SUFFICES result \subseteq Low(64)
  OBVIOUS
<1>1. i.op \notin KeepsRest /\ i.op \in Interp!VectorOps
  BY VectorNames DEF Short
<1>2. CASE i.op \in Interp!ScalarOps
  <2>1. result = Interp!Scalar(i, a, b, d)
    BY <1>2 DEF Interp!VectorResult, Interp!ScalarOps
  <2>2. a \in Word(128)
    BY <1>2, VectorNamed DEF Cpus, Reg
  <2> HIDE DEF result, a, b, d
  <2> QED BY <1>2, <2>1, <2>2, ScalarLow
<1>3. CASE i.op = "SimdAcrossLanes"
  <2>1. result = Interp!Across(i, a)
    BY <1>3 DEF Interp!VectorResult, Interp!ScalarOps
  <2> HIDE DEF result, a, b, d, e
  <2> QED BY <1>3, <2>1, VectorNamed, AcrossLow
<1>4. CASE i.op \notin Interp!ScalarOps /\ i.op # "SimdAcrossLanes"
  <2>1. i.q = FALSE
    BY <1>4, ShortNamed
  <2>2. CASE i.op = "SimdThreeSame"
    <3>1. result = Interp!ThreeSame(i, i.q, a, b, d)
      BY <2>2 DEF Interp!VectorResult, Interp!ScalarOps
    <3>2. i.size \in 0 .. 3
      BY <1>4, <2>2, ShortNamed
    <3> HIDE DEF result, a, b, d, e
    <3> QED BY <2>1, <3>1, <3>2, ThreeSameLow
  <2>3. CASE i.op = "SimdThreeSameExtra"
    <3>1. result = Interp!ThreeSameExtra(i, a, b, d)
      BY <2>3 DEF Interp!VectorResult, Interp!ScalarOps
    <3>2. i.size \in 0 .. 3
      BY <1>4, <2>3, ShortNamed
    <3> HIDE DEF result, a, b, d, e
    <3> QED BY <2>1, <3>1, <3>2, ThreeSameExtraLow
  <2>4. CASE i.op = "SimdThreeDiff"
    <3>1. result = Interp!ThreeDiff(i, i.q, i.u, a, b, d)
      BY <2>4 DEF Interp!VectorResult, Interp!ScalarOps
    <3>2. i.size \in 0 .. 3 /\ i.opcode \in {4, 6}
      BY <1>4, <2>4, ShortNamed
    <3> HIDE DEF result, a, b, d, e
    <3> QED BY <2>1, <3>1, <3>2, ThreeDiffLow
  <2>5. CASE i.op = "SimdIndexed"
    <3>1. result = Interp!Indexed(i, i.q, a, b, d)
      BY <2>5 DEF Interp!VectorResult, Interp!ScalarOps
    <3>2. i.size \in 0 .. 3 /\ Key(i) \in {14, 30} \cup {8, 16, 20, 12, 13, 29, 31}
      BY <1>4, <2>5, ShortNamed
    <3> HIDE DEF result, a, b, d, e
    <3> QED BY <2>1, <3>1, <3>2, IndexedLow
  <2>6. CASE i.op = "SimdTwoRegMisc"
    <3>1. result = Interp!TwoRegMisc(i, i.q, a, d)
      BY <2>6 DEF Interp!VectorResult, Interp!ScalarOps
    <3>2. i.size \in 0 .. 3 /\ i.opcode # 19
      BY <1>4, <2>6, ShortNamed
    <3> HIDE DEF result, a, b, d, e
    <3> QED BY <2>1, <3>1, <3>2, TwoRegMiscLow
  <2>7. CASE i.op = "SimdShiftImm"
    <3>1. result = Interp!ShiftImm(i, i.q, a, d)
      BY <2>7 DEF Interp!VectorResult, Interp!ScalarOps
    <3>2. i.immh \in 1 .. 15 /\ i.opcode # 20
      BY <1>4, <2>7, ShortNamed
    <3> HIDE DEF result, a, b, d, e
    <3> QED BY <2>1, <3>1, <3>2, ShiftImmLow
  <2>8. CASE i.op = "SimdModImm"
    <3>1. result = Interp!ModImm(i, d)
      BY <2>8 DEF Interp!VectorResult, Interp!ScalarOps
    <3>2. 8 \in Sizes
      BY <1>4, <2>8, ShortNamed, SizeTyped DEF Sizes
    <3> HIDE DEF result, a, b, d, e
    <3> QED BY <2>1, <3>1, <3>2, PermuteLow
  <2>9. CASE i.op = "SimdZipTrn"
    <3>1. result = Interp!ZipTrn(i, a, b)
      BY <2>9 DEF Interp!VectorResult, Interp!ScalarOps
    <3>2. 8 \in Sizes /\ i.size \in 0 .. 3
      BY <1>4, <2>9, ShortNamed, SizeTyped DEF Sizes
    <3> HIDE DEF result, a, b, d, e
    <3> QED BY <2>1, <3>1, <3>2, PermuteLow
  <2>10. CASE i.op = "SimdExt"
    <3>1. result = Interp!Ext(i, a, b)
      BY <2>10 DEF Interp!VectorResult, Interp!ScalarOps
    <3>2. 8 \in Sizes
      BY <1>4, <2>10, ShortNamed, SizeTyped DEF Sizes
    <3> HIDE DEF result, a, b, d, e
    <3> QED BY <2>1, <3>1, <3>2, PermuteLow
  <2>11. CASE i.op = "SimdTableLookup"
    <3>1. result = Interp!TableLookup(c, i, b, d)
      BY <2>11 DEF Interp!VectorResult, Interp!ScalarOps
    <3>2. 8 \in Sizes
      BY <1>4, <2>11, ShortNamed, SizeTyped DEF Sizes
    <3> HIDE DEF result, a, b, d, e
    <3> QED BY <2>1, <3>1, <3>2, PermuteLow
  <2>12. CASE i.op = "SimdDupGeneral"
    <3>1. result = Interp!dup(Interp!read_gpr(c, i.rn, FALSE), e, i.q)
      BY <2>12 DEF Interp!VectorResult, Interp!ScalarOps
    <3>2. e \in Sizes
      BY <1>4, <2>12, ShortNamed, SizeTyped DEF Sizes
    <3> HIDE DEF result, a, b, d, e
    <3> QED BY <2>1, <3>1, <3>2, PermuteLow
  <2>13. CASE i.op = "SimdDupElement"
    <3>1. result = Interp!dup(Interp!Lane(a, e, i.index), e, i.q)
      BY <2>13 DEF Interp!VectorResult, Interp!ScalarOps
    <3>2. e \in Sizes
      BY <1>4, <2>13, ShortNamed, SizeTyped DEF Sizes
    <3> HIDE DEF result, a, b, d, e
    <3> QED BY <2>1, <3>1, <3>2, PermuteLow
  <2> HIDE DEF result
  <2> QED BY <1>1, <1>4, <2>2, <2>3, <2>4, <2>5, <2>6, <2>7, <2>8, <2>9, <2>10, <2>11, <2>12, <2>13, Zenon
            DEF Interp!VectorOps, KeepsRest
<1> QED BY <1>2, <1>3, <1>4, Zenon

\* finish_v drops the high half when Q is clear.
LEMMA FinishLow ==
    ASSUME NEW m \in Img, NEW rd \in Reg, NEW val
    PROVE  finish_v(m, FALSE, rd, val).v[rd] \subseteq Low(64)
<1>1. rd \in 0 .. 31
  BY DEF Reg
<1>2. finish_v(m, FALSE, rd, val) = [m EXCEPT !.v[rd] = val \cap W64]
  BY DEF finish_v
<1>3. finish_v(m, FALSE, rd, val).v[rd] = val \cap W64
  BY <1>1, <1>2 DEF Img
<1> QED BY <1>3 DEF W64

\* So every lowered operation on 64 bits leaves the high half clear.
LEMMA LoweredLow ==
    ASSUME NEW m \in Img, NEW i \in VectorInsns, Short(i), ~ Interp!IsFloat(i), is_inline_simd(i)
    PROVE  lower_vector(m, i).v[i.rd] \subseteq Low(64)
<1> DEFINE r == lower_vector(m, i)
<1> SUFFICES r.v[i.rd] \subseteq Low(64)
  OBVIOUS
<1>1. i.op \notin KeepsRest /\ (i.op = "SimdThreeDiff" => i.opcode \in {4, 6})
  BY DEF Short, Widens
<1>2. i.op \in {"SimdThreeSame", "SimdTwoRegMisc", "SimdModImm", "SimdShiftImm", "SimdZipTrn",
                "SimdExt", "SimdTableLookup", "SimdDupGeneral", "SimdDupElement"}
  <2>1. ~ can_lower_three_diff(i.size, 4) /\ ~ can_lower_three_diff(i.size, 6)
    BY DEF can_lower_three_diff
  <2>2. i.op = "SimdThreeDiff" => ~ can_lower_three_diff(i.size, i.opcode)
    BY <1>1, <2>1
  <2> QED BY <1>1, <2>2 DEF is_inline_simd, KeepsRest
<1>3. i.op \notin Interp!ScalarOps /\ i.op # "SimdAcrossLanes" /\ i.op # "SimdMovToGpr"
  BY <1>2 DEF Interp!ScalarOps
<1>4. i.q = FALSE /\ i.rd \in Reg
  BY <1>3, ShortNamed, VectorNamed
<1>5. \A val : finish_v(m, i.q, i.rd, val).v[i.rd] \subseteq Low(64)
  BY <1>4, FinishLow
<1>6. CASE i.op = "SimdModImm"
  <2> DEFINE elem  == expand_imm(i.op1, i.cmode, i.imm8)
             val   == IF i.q THEN elem \cup Shl(elem, 64, 128) ELSE elem
             qmask == IF i.q THEN W128 ELSE W64
             d     == m.v[i.rd]
             r1    == IF i.op1 THEN d \ val ELSE d \cup val
             r2    == IF i.op1 /\ i.cmode \div 2 <= 6 THEN qmask \ val ELSE val \cap qmask
             f     == finish_v(m, i.q, i.rd, r1)
             g     == [m EXCEPT !.v[i.rd] = r2]
  <2>1. r = simd_mod_imm(m, i)
    BY <1>6 DEF lower_vector
  <2>2. simd_mod_imm(m, i) = IF i.cmode \div 2 <= 5 /\ i.cmode % 2 = 1 THEN f ELSE g
    BY Zenon DEF simd_mod_imm
  <2>3. f.v[i.rd] \subseteq Low(64)
    BY <1>5, Zenon
  <2>4. g.v[i.rd] \subseteq Low(64)
    <3>1. r2 \subseteq Low(64)
      BY <1>4 DEF W64
    <3>2. i.rd \in 0 .. 31
      BY <1>4 DEF Reg
    <3> HIDE DEF r2
    <3>3. g.v[i.rd] = r2
      BY <3>2 DEF Img
    <3> HIDE DEF g
    <3> QED BY <3>1, <3>3
  <2> HIDE DEF f, g, r
  <2> QED BY <2>1, <2>2, <2>3, <2>4
<1>7. CASE i.op = "SimdShiftImm"
  <2> DEFINE esize == 8 * 2 ^ Max(Bits(i.immh))
             g     == [m EXCEPT !.v[i.rd] = {}]
  <2>1. r = simd_shift_imm(m, i)
    BY <1>7 DEF lower_vector
  <2>2. r = g \/ \E val : r = finish_v(m, i.q, i.rd, val)
    BY <2>1, Zenon DEF simd_shift_imm
  <2>3. g.v[i.rd] \subseteq Low(64)
    <3>1. i.rd \in 0 .. 31
      BY <1>4 DEF Reg
    <3>2. g.v[i.rd] = {}
      BY <3>1 DEF Img
    <3> QED BY <3>2
  <2> HIDE DEF g, r
  <2> QED BY <1>5, <2>2, <2>3
<1>8. CASE i.op \in {"SimdTwoRegMisc", "SimdZipTrn", "SimdExt"}
  <2>1. \/ i.op = "SimdTwoRegMisc" /\ r = simd_two_reg_misc(m, i)
        \/ i.op = "SimdZipTrn" /\ r = simd_zip_trn(m, i)
        \/ i.op = "SimdExt" /\ r = simd_ext(m, i)
    BY <1>8 DEF lower_vector
  <2>2. \A rn, rm, lanes : shuffle2(m, i.q, rn, rm, i.rd, lanes).v[i.rd] \subseteq Low(64)
    BY <1>5, Zenon DEF shuffle2
  <2>3. simd_zip_trn(m, i).v[i.rd] \subseteq Low(64)
    BY <2>2, Zenon DEF simd_zip_trn
  <2>4. simd_ext(m, i).v[i.rd] \subseteq Low(64)
    BY <2>2, Zenon DEF simd_ext
  <2>5. simd_two_reg_misc(m, i).v[i.rd] \subseteq Low(64)
    BY <1>5, <2>2, Zenon DEF simd_two_reg_misc
  <2> HIDE DEF r
  <2> QED BY <2>1, <2>3, <2>4, <2>5
<1>9. CASE i.op \in {"SimdThreeSame", "SimdTableLookup", "SimdDupGeneral", "SimdDupElement"}
  <2>1. \/ r = simd_three_same(m, i)
        \/ r = simd_tbl(m, i)
        \/ r = finish_v(m, i.q, i.rd, Splat(push_operand(m, i.rn, TRUE, FALSE), 8 * 2 ^ i.size))
        \/ r = finish_v(m, i.q, i.rd, Splat(iload(m, i.rn, i.size, i.index), 8 * 2 ^ i.size))
    BY <1>9 DEF lower_vector
  <2>2. simd_three_same(m, i).v[i.rd] \subseteq Low(64)
    BY <1>5, Zenon DEF simd_three_same
  <2>3. simd_tbl(m, i).v[i.rd] \subseteq Low(64)
    BY <1>5, Zenon DEF simd_tbl
  <2> HIDE DEF r
  <2> QED BY <1>5, <2>1, <2>2, <2>3
<1> HIDE DEF r
<1> QED BY <1>2, <1>6, <1>7, <1>8, <1>9, Zenon

\* A short operation is a vector instruction in the middle of a block.
LEMMA ShortOf ==
    ASSUME NEW i \in Insns, Short(i)
    PROVE  /\ i \in VectorInsns /\ ~ is_terminator(i) /\ i.op # "SimdMovToGpr" /\ i.rd \in 0 .. 31
           /\ can_inline(i) => is_inline_simd(i)
<1>1. i.op \in Interp!VectorOps /\ i.op # "SimdMovToGpr"
  BY DEF Short, KeepsRest
<1>2. i \in VectorInsns
  BY <1>1, IntegerNames, BranchNames, NamesApart DEF Insns
<1>3. i.rd \in 0 .. 31
  BY <1>1, <1>2, VectorNamed DEF Reg
<1>4. ~ is_terminator(i)
  BY <1>1 DEF is_terminator, Interp!VectorOps, Interp!ScalarOps
<1>5. can_inline(i) => is_inline_simd(i)
  BY <1>1 DEF can_inline, is_inline_mem, is_inline_load_store, is_inline_atomic, is_inline_fp,
              Interp!VectorOps, Interp!ScalarOps
<1> QED BY <1>1, <1>2, <1>3, <1>4, <1>5

Halved == Executes /\ Short(Insn) => image'.v[Insn.rd] \subseteq Low(64)

\* An emitted operation on 64 bits clears the rest of its register,
LEMMA EmittedHalves == IInv /\ Emitted => Halved
<1> SUFFICES ASSUME IInv, Emitted, Short(Insn) PROVE image'.v[Insn.rd] \subseteq Low(64)
  BY DEF Halved
<1> DEFINE i    == block[at + 1]
           last == at + 1 = Len(block)
           t    == lower_terminator(image, i, StaticPC, StaticEntry)
           rel  == gen_rel_pc(image, Plus4(StaticPC, 1), StaticEntry)
           done == IF last /\ is_terminator(i) THEN Leave(t)
                   ELSE [image |-> Lower(image, i), ret |-> IF last THEN {rel} ELSE Running]
<1>1. /\ ret = Running /\ at < Len(block) /\ Interp!Modelled(i)
      /\ image' = done.image /\ ret' = done.ret /\ at' = at + 1
      /\ UNCHANGED <<code, block, first>>
  BY Zenon DEF Emitted
<1>2. Len(block) \in Nat /\ at \in Nat /\ at + 1 \in 1 .. Len(block)
  <2>1. Len(block) \in Nat
    BY LenProperties, Zenon DEF IInv, Formed
  <2> QED BY <1>1, <2>1 DEF IInv
<1>3. i \in Insns
  BY <1>1, <1>2, InsnTyped, Zenon
<1>4. Insn = i
  <2>1. block # <<>>
    <3>1. Len(<<>>) = 0
      OBVIOUS
    <3> QED BY <1>2, <3>1
  <2> QED BY <2>1, Zenon DEF Insn
<1>5. Short(i) /\ ~ Interp!IsFloat(i)
  BY <1>1, <1>4, Zenon DEF Interp!Modelled
<1>6. image \in Img /\ (can_inline(i) \/ (last /\ is_branch(i)))
  BY <1>2, Zenon DEF IInv, Formed, Inlined
<1>7. i \in VectorInsns /\ ~ is_terminator(i) /\ (can_inline(i) => is_inline_simd(i))
  <2> HIDE DEF i
  <2> QED BY <1>3, <1>5, ShortOf, Zenon
<1>8. is_inline_simd(i)
  BY <1>6, <1>7 DEF is_branch, is_terminator
<1>9. image' = lower_vector(image, i)
  <2>1. done = [image |-> Lower(image, i), ret |-> IF last THEN {rel} ELSE Running]
    BY <1>7, Zenon
  <2>2. done.image = Lower(image, i)
    <3> HIDE DEF done, rel, last, i
    <3> QED BY <2>1
  <2> QED BY <1>1, <1>8, <2>2, Zenon DEF Lower
<1> HIDE DEF i
<1>10. lower_vector(image, i).v[i.rd] \subseteq Low(64)
  BY <1>5, <1>6, <1>7, <1>8, LoweredLow, Zenon
<1> QED BY <1>4, <1>9, <1>10

\* an interpreted one too.
LEMMA InterpretHalves == IInv /\ Interpret => Halved
<1> SUFFICES ASSUME IInv, Interpret, Short(Insn) PROVE image'.v[Insn.rd] \subseteq Low(64)
  BY DEF Halved
<1> DEFINE i == decode(code[first])
           c0 == [x |-> image.x, sp |-> image.sp, v |-> image.v, pc |-> image.pc,
                  flags |-> {b - 28 : b \in image.nzcv}]
           c == Interp!step(c0, i)
<1>1. /\ block = <<>> /\ Interp!Modelled(i)
      /\ image' = [x |-> c.x, sp |-> c.sp, v |-> c.v, pc |-> image.pc,
                   nzcv |-> {f + 28 : f \in c.flags}]
  BY Zenon DEF Interpret
<1>2. i \in Insns
  <2>1. code[first] \in SUBSET W32
    BY ElementOfSeq, Zenon DEF IInv, Placed
  <2> QED BY <1>1, <2>1, ModelledKind, Zenon
<1>3. image \in Img /\ image.pc \in Word(64)
  BY DEF IInv, Img
<1>4. Insn = i
  BY <1>1, Zenon DEF Insn
<1>5. Short(i) /\ ~ Interp!IsFloat(i)
  BY <1>1, <1>4, Zenon DEF Interp!Modelled
<1> HIDE DEF i
<1>6. i \in VectorInsns /\ i.op # "SimdMovToGpr" /\ i.rd \in 0 .. 31
  BY <1>2, <1>5, ShortOf, Zenon
<1>7. c0 = CpuOf(image, image.pc)
  BY DEF CpuOf, Flags
<1>8. c0 \in Cpus
  BY <1>3, <1>7, CpuTyped
<1> HIDE DEF c0
<1> DEFINE r == Interp!VectorResult(c0, i)
           p == Interp!Next4(c0)
           d == [c0 EXCEPT !.v[i.rd] = r]
<1>9. r \subseteq Low(64)
  BY <1>5, <1>6, <1>8, VectorResultLow, Zenon
<1>10. c = [d EXCEPT !.pc = p]
  <2>1. c = [Interp!Vector(c0, i) EXCEPT !.pc = Interp!Next4(c0)]
    BY <1>6, VectorNames, Zenon DEF Interp!step
  <2>2. Interp!Vector(c0, i) = d
    BY <1>6 DEF Interp!Vector
  <2> HIDE DEF d, r, p, c
  <2>3. c = [Interp!Vector(c0, i) EXCEPT !.pc = p]
    BY <2>1 DEF p
  <2> QED BY <2>2, <2>3
<1> HIDE DEF c, r, p
<1>11. c.v[i.rd] = r
  BY <1>6, <1>8, <1>10 DEF Cpus
<1>12. image'.v = c.v
  BY <1>1
<1> QED BY <1>4, <1>9, <1>11, <1>12

\* A vector operation on 64 bits, and a scalar one, clears the rest of its register, emitted
\* (simd/mod.rs finish_v, copy.rs, mod_imm.rs) or interpreted (simd.rs join): Compiled's
\* HighHalfClear, for every program and register content.
THEOREM HighHalvesClear == Spec => HighHalfClear
<1>1. IInv /\ [Next]_vars => Halved
  <2> SUFFICES ASSUME IInv, [Next]_vars PROVE Halved
    OBVIOUS
  <2>1. CASE Emitted
    BY <2>1, EmittedHalves, Zenon
  <2>2. CASE Interpret
    BY <2>2, InterpretHalves, Zenon
  <2>3. CASE Dispatch \/ UNCHANGED vars
    BY <2>3, OthersIdle, Zenon DEF Halved
  <2> QED BY <2>1, <2>2, <2>3, Zenon DEF Next
<1>2. Halved => [Executes /\ Short(Insn) => image'.v[Insn.rd] \subseteq Low(64)]_vars
  BY Zenon DEF Halved
<1> QED BY <1>1, <1>2, InitInv, StepInv, PTL DEF Spec, HighHalfClear

-----------------------------------------------------------------------------
(* Bit fields: where they lie and what lies around them.                     *)

\* Bit p of the destination is a bit of the moved field.
InField(i, p) == p <= LastBit(i) /\ RorFrom(p, i.immr, Width(i.sf)) <= i.imms

\* The register a field is taken from, and each bit of the result.
FieldOf(m, i) == IF i.rn = 31 THEN {} ELSE m.x[i.rn]
FieldBit(m, i, p) ==
    IF InField(i, p) THEN RorFrom(p, i.immr, Width(i.sf)) \in FieldOf(m, i)
    ELSE \/ i.opc = 0 /\ p > LastBit(i) /\ i.imms \in FieldOf(m, i)
         \/ i.opc = 1 /\ p \in m.x[i.rd]
FieldResult(m, i) == {p \in Low(Width(i.sf)) : FieldBit(m, i, p)}

\* Where a field starts, how long it is and where it goes.
FieldFrom(i) == IF i.imms >= i.immr THEN i.immr ELSE 0
FieldLen(i)  == IF i.imms >= i.immr THEN i.imms - i.immr + 1 ELSE i.imms + 1
FieldTo(i)   == IF i.imms >= i.immr THEN 0 ELSE Width(i.sf) - i.immr

(* The places a field is moved to, and the place each of them comes from.   *)
LEMMA FieldPlaces ==
    ASSUME NEW i \in Bitfields
    PROVE  LET w == Width(i.sf)
           IN  /\ FieldFrom(i) \in Nat /\ FieldLen(i) \in Nat \ {0} /\ FieldTo(i) \in Nat
               /\ LastBit(i) = FieldTo(i) + FieldLen(i) - 1 /\ LastBit(i) \in 0 .. w - 1
               /\ RorFrom(LastBit(i), i.immr, w) = i.imms
               /\ i.imms = FieldFrom(i) + FieldLen(i) - 1
               /\ \A p \in Low(w) :
                     /\ InField(i, p) <=> FieldTo(i) <= p /\ p <= FieldTo(i) + FieldLen(i) - 1
                     /\ InField(i, p) => RorFrom(p, i.immr, w) = p - FieldTo(i) + FieldFrom(i)
<1> DEFINE w == Width(i.sf)
           s == i.imms
           r == i.immr
<1>1. w \in {32, 64} /\ s \in 0 .. 63 /\ r \in 0 .. 63 /\ s < w /\ r < w
  BY DEF Bitfields, Masked, Width
<1>2. LastBit(i) = s - r + IF s >= r THEN 0 ELSE w
  BY Zenon DEF LastBit
<1>3. /\ FieldFrom(i) = IF s >= r THEN r ELSE 0
      /\ FieldLen(i) = IF s >= r THEN s - r + 1 ELSE s + 1
      /\ FieldTo(i) = IF s >= r THEN 0 ELSE w - r
  BY Zenon DEF FieldFrom, FieldLen, FieldTo
<1>4. ASSUME NEW p \in Low(w)
      PROVE  /\ p \in 0 .. w - 1
             /\ InField(i, p) <=> p <= LastBit(i) /\ RorFrom(p, r, w) <= s
             /\ RorFrom(p, r, w) = IF p + r < w THEN p + r ELSE p + r - w
  BY DEF Low, InField, RorFrom
<1>5. RorFrom(LastBit(i), r, w) = IF LastBit(i) + r < w THEN LastBit(i) + r ELSE LastBit(i) + r - w
  BY Zenon DEF RorFrom
<1> DEFINE Places ==
             /\ FieldFrom(i) \in Nat /\ FieldLen(i) \in Nat \ {0} /\ FieldTo(i) \in Nat
             /\ LastBit(i) = FieldTo(i) + FieldLen(i) - 1 /\ LastBit(i) \in 0 .. w - 1
             /\ RorFrom(LastBit(i), r, w) = s
             /\ s = FieldFrom(i) + FieldLen(i) - 1
             /\ \A p \in Low(w) :
                   /\ InField(i, p) <=> FieldTo(i) <= p /\ p <= FieldTo(i) + FieldLen(i) - 1
                   /\ InField(i, p) => RorFrom(p, r, w) = p - FieldTo(i) + FieldFrom(i)
<1> SUFFICES Places
  BY Zenon
<1> HIDE DEF w, s, r
<1>6. CASE s >= r
  <2>1. FieldFrom(i) = r /\ FieldLen(i) = s - r + 1 /\ FieldTo(i) = 0 /\ LastBit(i) = s - r
    BY <1>1, <1>2, <1>3, <1>6
  <2>2. ASSUME NEW p \in Low(w)
        PROVE  /\ InField(i, p) <=> 0 <= p /\ p <= s - r
               /\ InField(i, p) => RorFrom(p, r, w) = p + r
    BY <1>1, <1>4, <1>6, <2>1
  <2>3. RorFrom(LastBit(i), r, w) = s
    BY <1>1, <1>5, <1>6, <2>1
  <2>4. \A p \in Low(w) : p \in 0 .. w - 1
    BY <1>4
  <2> QED BY <1>1, <1>6, <2>1, <2>2, <2>3, <2>4
<1>7. CASE ~ (s >= r)
  <2>1. FieldFrom(i) = 0 /\ FieldLen(i) = s + 1 /\ FieldTo(i) = w - r /\ LastBit(i) = s - r + w
    BY <1>1, <1>2, <1>3, <1>7
  <2>2. ASSUME NEW p \in Low(w)
        PROVE  /\ InField(i, p) <=> w - r <= p /\ p <= w - r + s
               /\ InField(i, p) => RorFrom(p, r, w) = p - (w - r)
    BY <1>1, <1>4, <1>7, <2>1
  <2>3. RorFrom(LastBit(i), r, w) = s
    BY <1>1, <1>5, <1>7, <2>1
  <2>4. \A p \in Low(w) : p \in 0 .. w - 1
    BY <1>4
  <2> QED BY <1>1, <1>7, <2>1, <2>2, <2>3, <2>4
<1> QED BY <1>6, <1>7

(* What Compiled says a bit field move leaves, bit by bit.                   *)
LEMMA MovedBits ==
    ASSUME NEW i \in Bitfields, image \in Img, i.rd # 31
    PROVE  Moved(i) = FieldResult(image, i)
<1> DEFINE w   == Width(i.sf)
           src == FieldOf(image, i)
           dst == image.x[i.rd]
           cut == Slice(src, FieldFrom(i), FieldLen(i))
           fld == Shl(cut, FieldTo(i), w)
           last == LastBit(i)
<1>1. /\ src \subseteq Int /\ dst \subseteq Int /\ w \in {32, 64} /\ i.opc \in 0 .. 2
  BY DEF Bitfields, Img, Word, Low, Reg, FieldOf, Width
<1>2. /\ FieldFrom(i) \in Nat /\ FieldLen(i) \in Nat \ {0} /\ FieldTo(i) \in Nat
      /\ last = FieldTo(i) + FieldLen(i) - 1 /\ last \in 0 .. w - 1
      /\ InField(i, last) /\ RorFrom(last, i.immr, w) = i.imms
      /\ i.imms = FieldFrom(i) + FieldLen(i) - 1
      /\ \A p \in Low(w) :
            /\ InField(i, p) <=> FieldTo(i) <= p /\ p <= last
            /\ InField(i, p) => RorFrom(p, i.immr, w) = p - FieldTo(i) + FieldFrom(i)
  <2>1. /\ FieldFrom(i) \in Nat /\ FieldLen(i) \in Nat \ {0} /\ FieldTo(i) \in Nat
        /\ last = FieldTo(i) + FieldLen(i) - 1 /\ last \in 0 .. w - 1
        /\ RorFrom(last, i.immr, w) = i.imms
        /\ i.imms = FieldFrom(i) + FieldLen(i) - 1
        /\ \A p \in Low(w) :
              /\ InField(i, p) <=> FieldTo(i) <= p /\ p <= FieldTo(i) + FieldLen(i) - 1
              /\ InField(i, p) => RorFrom(p, i.immr, w) = p - FieldTo(i) + FieldFrom(i)
    BY FieldPlaces, Zenon
  <2> HIDE DEF w, last
  <2>2. last \in Low(w)
    BY <1>1, <2>1 DEF Low
  <2> QED BY <2>1, <2>2
<1>3. Moved(i) = CASE i.opc = 2 -> fld
                   [] i.opc = 0 -> Sext(fld, FieldTo(i) + FieldLen(i), w)
                   [] i.opc = 1 -> ((dst \cap Low(w)) \ FieldTo(i) .. FieldTo(i) + FieldLen(i) - 1) \cup fld
  BY Zenon DEF Moved, FieldOf, FieldFrom, FieldLen, FieldTo, Width
<1> HIDE DEF w, src, dst, last
<1>4. cut \in Word(FieldLen(i)) /\ \A j \in Int : j \in cut <=> j \in Low(FieldLen(i)) /\ j + FieldFrom(i) \in src
  BY <1>1, <1>2, SliceWord
<1>5. fld \in Word(w) /\ \A p \in Int : p \in fld <=> p \in Low(w) /\ p - FieldTo(i) \in cut
  <2>1. cut \subseteq Int /\ FieldTo(i) \in Int /\ w \in Nat
    BY <1>1, <1>2, <1>4 DEF Word, Low
  <2> HIDE DEF cut
  <2> QED BY <2>1, InShl
<1> HIDE DEF cut, fld
<1>6. ASSUME NEW p \in Low(w)
      PROVE  p \in fld <=> InField(i, p) /\ RorFrom(p, i.immr, w) \in src
  <2>1. p \in 0 .. w - 1 /\ p \in Int /\ p - FieldTo(i) \in Int
    BY <1>1, <1>2 DEF Low
  <2>2. p \in fld <=> p - FieldTo(i) \in Low(FieldLen(i)) /\ p - FieldTo(i) + FieldFrom(i) \in src
    BY <1>4, <1>5, <2>1
  <2>3. p - FieldTo(i) \in Low(FieldLen(i)) <=> InField(i, p)
    BY <1>2, <2>1 DEF Low
  <2> QED BY <1>2, <2>2, <2>3
<1>7. FieldResult(image, i) = {p \in Low(w) : FieldBit(image, i, p)}
  BY Zenon DEF FieldResult, w
<1>8. ASSUME NEW p
      PROVE  FieldBit(image, i, p) <=>
                IF InField(i, p) THEN RorFrom(p, i.immr, w) \in src
                ELSE \/ i.opc = 0 /\ p > last /\ i.imms \in src
                     \/ i.opc = 1 /\ p \in dst
  BY Zenon DEF FieldBit, w, src, dst, last
<1>9. fld \subseteq Low(w)
  BY <1>5 DEF Word
<1>10. CASE i.opc = 2
  <2>1. Moved(i) = fld
    BY <1>3, <1>10
  <2> QED BY <1>6, <1>7, <1>8, <1>9, <1>10, <2>1
<1>11. CASE i.opc = 0
  <2>1. Moved(i) = Sext(fld, FieldTo(i) + FieldLen(i), w)
    BY <1>3, <1>11
  <2>2. last + 1 = FieldTo(i) + FieldLen(i) /\ last + 1 - 1 = last /\ last \in Low(w)
    BY <1>1, <1>2 DEF Low
  <2> DEFINE e == FieldTo(i) + FieldLen(i)
  <2>9. e = last + 1 /\ e - 1 = last /\ Moved(i) = Sext(fld, e, w)
    BY <1>2, <2>1
  <2> HIDE DEF e
  <2>3. Moved(i) = (fld \cap Low(last + 1)) \cup IF last \in fld THEN (last + 1) .. w - 1 ELSE {}
    BY <2>9 DEF Sext
  <2>4. last \in fld <=> i.imms \in src
    BY <1>2, <1>6, <2>2
  <2>5. fld \cap Low(last + 1) = fld
    <3>1. \A p \in fld : p \in Low(last + 1)
      <4> TAKE p \in fld
      <4>1. p \in Low(w) /\ InField(i, p)
        BY <1>6, <1>9
      <4>2. p <= last /\ p \in 0 .. w - 1
        BY <1>2, <4>1 DEF Low
      <4> QED BY <1>1, <1>2, <4>2 DEF Low
    <3> QED BY <3>1
  <2>6. \A p \in Low(w) : p \in (last + 1) .. w - 1 <=> p > last
    BY <1>1, <1>2 DEF Low
  <2>7. (last + 1) .. w - 1 \subseteq Low(w)
    BY <1>1, <1>2 DEF Low
  <2>8. \A p \in Low(w) : InField(i, p) => ~ (p > last)
    BY <1>1, <1>2 DEF Low
  <2> QED BY <1>6, <1>7, <1>8, <1>9, <1>11, <2>3, <2>4, <2>5, <2>6, <2>7, <2>8
<1>12. CASE i.opc = 1
  <2>1. Moved(i) = ((dst \cap Low(w)) \ FieldTo(i) .. last) \cup fld
    BY <1>2, <1>3, <1>12
  <2>2. \A p \in Low(w) : p \in FieldTo(i) .. last <=> InField(i, p)
    BY <1>1, <1>2 DEF Low
  <2> QED BY <1>6, <1>7, <1>8, <1>9, <1>12, <2>1, <2>2
<1> QED BY <1>1, <1>10, <1>11, <1>12

-----------------------------------------------------------------------------
(* A product by one and by zero                                              *)

(* The function that Times defines exists: taking the ones of a factor away  *)
(* one by one ends, and once they are gone a further round changes nothing.  *)
LEMMA TimesRound ==
    ASSUME NEW a
    PROVE  /\ Times(a, {}) = {}
           /\ Times(a, {0}) = Add({}, {j + 0 : j \in a}, 256)
<1> DEFINE Pairs == (SUBSET Low(128)) \X (SUBSET Low(256))
           one(p) == CHOOSE k \in p[1] : TRUE
           After(p) == <<p[1] \ {one(p)}, Add(p[2], {j + one(p) : j \in a}, 256)>>
           Meets(f) == f = [p \in Pairs |-> IF p[1] = {} THEN p[2] ELSE f[After(p)]]
           Tables == [Pairs -> SUBSET Low(256)]
           Round(f) == [p \in Pairs |-> IF p[1] = {} THEN p[2] ELSE f[After(p)]]
           g == [k \in Nat |-> [f \in Tables |-> Round(f)]]
           b == [p \in Pairs |-> p[2]]
           sum == CHOOSE f : Meets(f)
<1>1. \A p \in Pairs : p[1] # {} => one(p) \in p[1]
  OBVIOUS
<1>2. ASSUME NEW p \in Pairs, p[1] # {}
      PROVE  /\ After(p) \in Pairs /\ IsFiniteSet(p[1])
             /\ Cardinality(After(p)[1]) = Cardinality(p[1]) - 1 /\ Cardinality(p[1]) \in Nat
  <2>1. p[1] \subseteq Low(128) /\ p[2] \subseteq Low(256)
    OBVIOUS
  <2>2. IsFiniteSet(Low(128))
    <3>1. 0 \in Int /\ 128 - 1 \in Int
      OBVIOUS
    <3>2. IsFiniteSet(0 .. 128 - 1)
      BY <3>1, FS_Interval, Zenon
    <3> QED BY <3>2, Zenon DEF Low
  <2>3. IsFiniteSet(p[1])
    BY <2>1, <2>2, FS_Subset
  <2>4. Cardinality(p[1] \ {one(p)}) = Cardinality(p[1]) - 1 /\ Cardinality(p[1]) \in Nat
    <3>1. one(p) \in p[1]
      BY <1>1, <1>2
    <3> HIDE DEF one
    <3> QED BY <2>3, <3>1, FS_RemoveElement, FS_CardinalityType
  <2>5. Add(p[2], {j + one(p) : j \in a}, 256) \subseteq Low(256)
    BY DEF Add
  <2> HIDE DEF one
  <2> QED BY <2>1, <2>3, <2>4, <2>5
<1> HIDE DEF After
<1>3. ASSUME NEW f \in Tables PROVE Round(f) \in Tables
  <2>1. ASSUME NEW p \in Pairs PROVE (IF p[1] = {} THEN p[2] ELSE f[After(p)]) \in SUBSET Low(256)
    BY <1>2
  <2> QED BY <2>1
<1>4. g \in [Nat -> [Tables -> Tables]] /\ b \in Tables
  <2>1. b \in Tables
    OBVIOUS
  <2> HIDE DEF Tables, Round
  <2>2. g \in [Nat -> [Tables -> Tables]]
    BY <1>3
  <2> QED BY <2>1, <2>2
<1>5. \A k \in Nat : \A f \in Tables : g[k][f] = Round(f)
  OBVIOUS
<1> HIDE DEF Tables, g, b
<1>6. PICK F \in [Nat -> Tables] : F[0] = b /\ \A k \in Nat : F[k + 1] = Round(F[k])
  <2>1. \E F \in [Nat -> Tables] : Follows(F, b, g)
    BY <1>4, Recursion
  <2>2. ASSUME NEW F \in [Nat -> Tables], Follows(F, b, g)
        PROVE  F[0] = b /\ \A k \in Nat : F[k + 1] = Round(F[k])
    <3>1. \A k \in Nat : F[k] \in Tables
      OBVIOUS
    <3> HIDE DEF Round
    <3> QED BY <1>5, <2>2, <3>1 DEF Follows
  <2> HIDE DEF Round
  <2> QED BY <2>1, <2>2
<1> DEFINE S == {k \in Nat : \A p \in Pairs : Cardinality(p[1]) <= k => F[k + 1][p] = F[k][p]}
<1>7. ASSUME NEW k \in Nat, NEW p \in Pairs
      PROVE  F[k + 1][p] = IF p[1] = {} THEN p[2] ELSE F[k][After(p)]
  <2>1. F[k + 1] = Round(F[k])
    BY <1>6
  <2> HIDE DEF Pairs
  <2>2. Round(F[k])[p] = IF p[1] = {} THEN p[2] ELSE F[k][After(p)]
    OBVIOUS
  <2> QED BY <2>1, <2>2
<1>8. 0 \in S
  <2> SUFFICES ASSUME NEW p \in Pairs, Cardinality(p[1]) <= 0 PROVE F[0 + 1][p] = F[0][p]
    OBVIOUS
  <2>1. p[1] = {}
    <3> SUFFICES ASSUME p[1] # {} PROVE FALSE
      OBVIOUS
    <3>1. IsFiniteSet(p[1]) /\ Cardinality(p[1]) = 0
      BY <1>2
    <3> QED BY <3>1, FS_EmptySet
  <2>2. F[0][p] = p[2]
    BY <1>6 DEF b
  <2> QED BY <1>7, <2>1, <2>2
<1>9. ASSUME NEW k \in Nat, k \in S PROVE k + 1 \in S
  <2> SUFFICES ASSUME NEW p \in Pairs, Cardinality(p[1]) <= k + 1
               PROVE  F[(k + 1) + 1][p] = F[k + 1][p]
    OBVIOUS
  <2>1. CASE p[1] = {}
    <3>1. (k + 1) \in Nat
      OBVIOUS
    <3> HIDE DEF Pairs
    <3>2. F[(k + 1) + 1][p] = p[2]
      BY <1>7, <2>1, <3>1, Zenon
    <3>3. F[k + 1][p] = p[2]
      BY <1>7, <2>1, Zenon
    <3> QED BY <3>2, <3>3
  <2>2. CASE p[1] # {}
    <3>1. After(p) \in Pairs /\ Cardinality(After(p)[1]) <= k
      BY <1>2, <2>2
    <3>2. F[k + 1][After(p)] = F[k][After(p)]
      BY <1>9, <3>1
    <3>3. F[(k + 1) + 1][p] = F[k + 1][After(p)] /\ F[k + 1][p] = F[k][After(p)]
      BY <1>7, <2>2
    <3> QED BY <3>2, <3>3
  <2> QED BY <2>1, <2>2
<1>10. Nat \subseteq S
  <2> HIDE DEF S
  <2> QED BY <1>8, <1>9, AllNat
<1>11. \A p \in Pairs : F[128 + 1][p] = F[128][p]
  <2> TAKE p \in Pairs
  <2>1. Cardinality(p[1]) <= 128
    <3>1. p[1] \subseteq 0 .. 127
      BY DEF Low
    <3>2. IsFiniteSet(0 .. 127) /\ Cardinality(0 .. 127) = 128
      <4>1. 0 \in Int /\ 127 \in Int /\ 0 <= 127 /\ (127 - 0) + 1 = 128
        OBVIOUS
      <4>2. IsFiniteSet(0 .. 127) /\ Cardinality(0 .. 127) = IF 0 > 127 THEN 0 ELSE 127 - 0 + 1
        BY <4>1, FS_Interval, Zenon
      <4> QED BY <4>2
    <3> QED BY <3>1, <3>2, FS_Subset
  <2> QED BY <1>10, <2>1
<1>12. Meets(F[128])
  <2>1. F[128] \in [Pairs -> SUBSET Low(256)]
    <3>1. F[128] \in Tables
      OBVIOUS
    <3> QED BY <3>1, Zenon DEF Tables
  <2>2. \A p \in Pairs : F[128][p] = IF p[1] = {} THEN p[2] ELSE F[128][After(p)]
    BY <1>7, <1>11
  <2> DEFINE t == F[128]
  <2>3. t \in [Pairs -> SUBSET Low(256)]
        /\ \A p \in Pairs : t[p] = IF p[1] = {} THEN p[2] ELSE t[After(p)]
    BY <2>1, <2>2
  <2> HIDE DEF t, Pairs
  <2>4. t = [p \in Pairs |-> IF p[1] = {} THEN p[2] ELSE t[After(p)]]
    BY <2>3
  <2> QED BY <2>4 DEF t
<1>13. Meets(sum)
  <2> HIDE DEF Meets
  <2> QED BY <1>12, Zenon
<1>14. \A c : Times(a, c) = sum[<<c, {}>>]
  BY Zenon DEF Times, After
<1> HIDE DEF sum
<1>15. ASSUME NEW p \in Pairs PROVE sum[p] = IF p[1] = {} THEN p[2] ELSE sum[After(p)]
  <2> HIDE DEF Pairs
  <2> QED BY <1>13
<1>16. <<{}, {}>> \in Pairs /\ <<{0}, {}>> \in Pairs
  BY DEF Low
<1>17. sum[<<{}, {}>>] = {}
  <2>1. <<{}, {}>>[1] = {} /\ <<{}, {}>>[2] = {}
    OBVIOUS
  <2> HIDE DEF Pairs
  <2> QED BY <1>15, <1>16, <2>1
<1> DEFINE s == Add({}, {j + 0 : j \in a}, 256)
<1>18. After(<<{0}, {}>>) = <<{}, s>> /\ <<{}, s>> \in Pairs
  <2>1. one(<<{0}, {}>>) = 0
    OBVIOUS
  <2> HIDE DEF one
  <2>2. <<{0}, {}>>[1] \ {0} = {} /\ <<{0}, {}>>[2] = {}
    OBVIOUS
  <2>3. After(<<{0}, {}>>) = <<{}, s>>
    BY <2>1, <2>2 DEF After
  <2>4. s \subseteq Low(256)
    BY DEF Add
  <2> HIDE DEF s
  <2> QED BY <2>3, <2>4
<1> HIDE DEF s
<1>19. sum[<<{0}, {}>>] = s
  <2>1. <<{0}, {}>>[1] # {} /\ <<{}, s>>[1] = {} /\ <<{}, s>>[2] = s
    OBVIOUS
  <2> HIDE DEF Pairs
  <2> QED BY <1>15, <1>16, <1>18, <2>1
<1> QED BY <1>14, <1>17, <1>19 DEF s

\* A word times one is the word, times zero it is zero.
LEMMA TimesBit ==
    ASSUME NEW a \in Word(64)
    PROVE  I64Mul(a, {}) = {} /\ I64Mul(a, {0}) = a
<1>1. {j + 0 : j \in a} = a
  <2>1. \A j \in a : j \in Int /\ j + 0 = j
    BY DEF Word, Low
  <2> QED BY <2>1
<1>2. a \in Word(256) /\ {} \in Word(256) /\ 256 \in Nat \ {0}
  BY DEF Word, Low
<1>3. Add({}, a, 256) = a
  <2>1. Add({}, a, 256) = Add(a, {}, 256)
    BY <1>2, AddCommutes
  <2>2. Add(a, {}, 256) = a
    BY <1>2, AddZero
  <2> QED BY <2>1, <2>2
<1>4. Times(a, {}) = {} /\ Times(a, {0}) = a
  <2>1. Times(a, {}) = {} /\ Times(a, {0}) = Add({}, {j + 0 : j \in a}, 256)
    BY TimesRound, Zenon
  <2> DEFINE b == {j + 0 : j \in a}
  <2>2. b = a
    BY <1>1
  <2> HIDE DEF b
  <2>3. Times(a, {0}) = Add({}, b, 256)
    BY <2>1 DEF b
  <2> QED BY <1>3, <2>1, <2>2, <2>3, Zenon
<1>5. a \cap W64 = a
  BY DEF Word, W64
<1> QED BY <1>4, <1>5 DEF I64Mul

-----------------------------------------------------------------------------
(* What both sides compute                                                   *)

\* What the proofs below use of a bit field move.
FieldFacts(i) ==
    LET w == Width(i.sf)
    IN  /\ i.sf \in BOOLEAN /\ w \in {32, 64} /\ i.opc \in {0, 1, 2} /\ i.rn \in Reg /\ i.rd \in Reg
        /\ i.immr \in 0 .. w - 1 /\ i.imms \in 0 .. w - 1
        /\ \A p \in Low(w) : /\ p \in i.wmask <=> RorFrom(p, i.immr, w) <= i.imms
                             /\ p \in i.tmask <=> p <= LastBit(i)
                             /\ ~ (p <= LastBit(i)) <=> p > LastBit(i)
                             /\ RorFrom(p, i.immr, w) \in Low(w)

\* It holds of every one decoded.
LEMMA FieldFactsHold ==
    ASSUME NEW i \in Bitfields
    PROVE  FieldFacts(i)
<1> DEFINE w == Width(i.sf)
<1>1. /\ i.sf \in BOOLEAN /\ w \in {32, 64} /\ i.opc \in {0, 1, 2} /\ i.rn \in Reg /\ i.rd \in Reg
      /\ i.imms \in 0 .. 63 /\ i.immr \in 0 .. 63
  BY DEF Bitfields, Width
<1>2. i.immr < w /\ i.imms < w
      /\ \A p \in Low(w) : /\ p \in i.wmask <=> RorFrom(p, i.immr, w) <= i.imms
                           /\ p \in i.tmask <=> p <= LastBit(i)
  BY Zenon DEF Bitfields, Masked
<1>3. LastBit(i) \in 0 .. w - 1
  BY FieldPlaces, Zenon
<1> HIDE DEF w
<1>4. i.immr \in 0 .. w - 1 /\ i.imms \in 0 .. w - 1
  BY <1>1, <1>2
<1>5. \A p \in Low(w) : (~ (p <= LastBit(i)) <=> p > LastBit(i)) /\ RorFrom(p, i.immr, w) \in Low(w)
  BY <1>1, <1>3, <1>4 DEF Low, RorFrom
<1> QED BY <1>1, <1>2, <1>4, <1>5, Zenon DEF FieldFacts, w

\* A register read as an operand of a bit field move.
LEMMA FieldOperand ==
    ASSUME NEW i \in Bitfields, NEW m \in Img, NEW r \in Reg
    PROVE  push_operand(m, r, i.sf, FALSE) = (IF r = 31 THEN {} ELSE m.x[r]) \cap Low(Width(i.sf))
<1>1. i.sf \in BOOLEAN
  BY DEF Bitfields
<1>2. SameOperand(m, m.pc, r, i.sf, FALSE)
  BY <1>1, ReadAgrees DEF Img
<1>3. push_operand(m, r, TRUE, FALSE) = IF r = 31 THEN {} ELSE m.x[r]
  BY Zenon DEF push_operand, mask_w, load_x
<1> QED BY <1>2, <1>3, Zenon DEF SameOperand

(* The bits the interpreter writes.                                         *)
LEMMA InterpField ==
    ASSUME NEW i \in Bitfields, NEW m \in Img, NEW q \in Word(64), i.rd # 31
    PROVE  Interp!step(CpuOf(m, q), i).x[i.rd] = FieldResult(m, i)
<1> DEFINE w == Width(i.sf)
           c == CpuOf(m, q)
           dmask == Interp!width_mask(i.sf)
           wmask == i.wmask \cap dmask
           tmask == i.tmask \cap dmask
           src == Interp!read(c, i.rn, i.sf, FALSE)
           dst == Interp!read(c, i.rd, i.sf, FALSE)
           rot == Interp!Ror(src, i.immr, Interp!datasize(i.sf)) \cap wmask
           bot == IF i.opc = 1 THEN (dst \ wmask) \cup rot ELSE rot
           top == CASE i.opc = 0 -> IF i.imms \in src THEN dmask ELSE {}
                    [] i.opc = 1 -> dst
                    [] i.opc = 2 -> {}
           val == (top \ tmask) \cup (bot \cap tmask)
           v == FieldResult(m, i)
           F == FieldOf(m, i)
           D == m.x[i.rd]
<1>1. FieldFacts(i)
  BY FieldFactsHold
<1>2. /\ i.sf \in BOOLEAN /\ w \in {32, 64} /\ i.opc \in {0, 1, 2} /\ i.rn \in Reg /\ i.rd \in Reg
      /\ i.immr \in 0 .. w - 1 /\ i.imms \in 0 .. w - 1
      /\ \A p \in Low(w) : /\ p \in i.wmask <=> RorFrom(p, i.immr, w) <= i.imms
                           /\ p \in i.tmask <=> p <= LastBit(i)
                           /\ ~ (p <= LastBit(i)) <=> p > LastBit(i)
                           /\ RorFrom(p, i.immr, w) \in Low(w)
  BY <1>1, Zenon DEF FieldFacts
<1>3. src = F \cap Low(w) /\ dst = D \cap Low(w)
  <2>1. SameOperand(m, q, i.rn, i.sf, FALSE) /\ SameOperand(m, q, i.rd, i.sf, FALSE)
    <3>1. FALSE \in BOOLEAN
      OBVIOUS
    <3>2. i.rn \in Reg /\ i.rd \in Reg /\ i.sf \in BOOLEAN
      BY <1>2
    <3>3. SameOperand(m, q, i.rn, i.sf, FALSE)
      BY <3>1, <3>2, ReadAgrees, Zenon
    <3>4. SameOperand(m, q, i.rd, i.sf, FALSE)
      BY <3>1, <3>2, ReadAgrees, Zenon
    <3> QED BY <3>3, <3>4
  <2>2. push_operand(m, i.rn, i.sf, FALSE) = F \cap Low(w)
    <3>a. i.rn \in Reg
      BY <1>2
    <3>1. push_operand(m, i.rn, i.sf, FALSE) = (IF i.rn = 31 THEN {} ELSE m.x[i.rn]) \cap Low(w)
      BY <3>a, FieldOperand, Zenon
    <3>2. F = IF i.rn = 31 THEN {} ELSE m.x[i.rn]
      BY Zenon DEF FieldOf
    <3> QED BY <3>1, <3>2, Zenon
  <2>3. push_operand(m, i.rd, i.sf, FALSE) = D \cap Low(w)
    <3>1. i.rd \in Reg
      BY <1>2
    <3>2. push_operand(m, i.rd, i.sf, FALSE) = (IF i.rd = 31 THEN {} ELSE m.x[i.rd]) \cap Low(w)
      BY <3>1, FieldOperand, Zenon
    <3> QED BY <3>2, Zenon
  <2> QED BY <2>1, <2>2, <2>3, Zenon DEF SameOperand
<1>4. dmask = Low(w) /\ Interp!datasize(i.sf) = w
  BY InterpWords, Zenon DEF Interp!width_mask, Interp!datasize, Width
<1>5. rot = Ror(src, i.immr, w) \cap wmask
  BY <1>4, InterpWords, Zenon
<1>6. Interp!step(c, i) = [Interp!Bitfield(c, i) EXCEPT !.pc = Interp!Next4(c)]
  <2>1. i.op = "Bitfield"
    BY DEF Bitfields
  <2>2. i.op \notin Interp!BranchOps /\ i.op \notin Interp!VectorOps
    BY <2>1 DEF Interp!BranchOps, Interp!VectorOps, Interp!ScalarOps
  <2>3. Interp!Straight(c, i) = Interp!Bitfield(c, i)
    <3> HIDE DEF c
    <3> QED BY <2>1 DEF Interp!Straight
  <2> QED BY <2>2, <2>3, Zenon DEF Interp!step, Interp!IntegerStep
<1>7. Interp!Bitfield(c, i) = Interp!write(c, i.rd, i.sf, val, FALSE)
  BY Zenon DEF Interp!Bitfield
<1>8. src \in Word(w)
  BY <1>3 DEF Word
<1>9. \A p : FieldBit(m, i, p) <=>
                IF p <= LastBit(i) /\ RorFrom(p, i.immr, w) <= i.imms THEN RorFrom(p, i.immr, w) \in F
                ELSE \/ i.opc = 0 /\ p > LastBit(i) /\ i.imms \in F
                     \/ i.opc = 1 /\ p \in D
  BY Zenon DEF FieldBit, InField
<1>10. v = {p \in Low(w) : FieldBit(m, i, p)}
  BY Zenon DEF FieldResult
<1> HIDE DEF w, c, dmask, src, dst, F, D, v
<1>11. ASSUME NEW p \in Low(w) PROVE p \in val <=> FieldBit(m, i, p)
  <2> DEFINE from == RorFrom(p, i.immr, w)
  <2>1. /\ p \in i.wmask <=> from <= i.imms
        /\ p \in i.tmask <=> p <= LastBit(i)
        /\ ~ (p <= LastBit(i)) <=> p > LastBit(i)
        /\ from \in Low(w)
    BY <1>2
  <2>2. p \in Ror(src, i.immr, w) <=> from \in src
    <3>1. w \in Nat \ {0}
      BY <1>2
    <3> QED BY <1>2, <1>8, <3>1, InRor
  <2>3. i.imms \in Low(w)
    BY <1>2 DEF Low
  <2>4. FieldBit(m, i, p) <=>
           IF p <= LastBit(i) /\ from <= i.imms THEN from \in F
           ELSE \/ i.opc = 0 /\ p > LastBit(i) /\ i.imms \in F
                \/ i.opc = 1 /\ p \in D
    BY <1>9
  <2> HIDE DEF from
  <2>5. /\ p \in wmask <=> from <= i.imms
        /\ p \in tmask <=> p <= LastBit(i)
        /\ p \in rot <=> from \in F /\ from <= i.imms
        /\ p \in dst <=> p \in D
        /\ i.imms \in src <=> i.imms \in F
    BY <1>3, <1>4, <1>5, <2>1, <2>2, <2>3
  <2> HIDE DEF wmask, tmask, rot
  <2>6. CASE i.opc = 0
    <3>1. p \in top <=> i.imms \in F
      BY <1>4, <2>5, <2>6
    <3>2. p \in bot <=> p \in rot
      BY <2>6
    <3> HIDE DEF top, bot
    <3>3. p \in val <=> (p \in top /\ p \notin tmask) \/ (p \in bot /\ p \in tmask)
      OBVIOUS
    <3> QED BY <2>1, <2>4, <2>5, <2>6, <3>1, <3>2, <3>3
  <2>7. CASE i.opc = 1
    <3>1. p \in top <=> p \in D
      BY <2>5, <2>7
    <3>2. p \in bot <=> (p \in D /\ p \notin wmask) \/ p \in rot
      BY <2>5, <2>7
    <3> HIDE DEF top, bot
    <3>3. p \in val <=> (p \in top /\ p \notin tmask) \/ (p \in bot /\ p \in tmask)
      OBVIOUS
    <3> QED BY <2>1, <2>4, <2>5, <2>7, <3>1, <3>2, <3>3
  <2>8. CASE i.opc = 2
    <3>1. p \notin top
      BY <2>8
    <3>2. p \in bot <=> p \in rot
      BY <2>8
    <3> HIDE DEF top, bot
    <3>3. p \in val <=> (p \in top /\ p \notin tmask) \/ (p \in bot /\ p \in tmask)
      OBVIOUS
    <3> QED BY <2>1, <2>4, <2>5, <2>8, <3>1, <3>2, <3>3
  <2> QED BY <1>2, <2>6, <2>7, <2>8
<1> HIDE DEF val
<1>12. v \in Word(64) /\ v \in Word(w) /\ val \cap Low(w) = v \cap Low(w) /\ v \cap Low(w) = v
  <2>1. v \subseteq Low(w) /\ Low(w) \subseteq Low(64)
    BY <1>2, <1>10 DEF Low
  <2> QED BY <1>10, <1>11, <2>1 DEF Word
<1>13. Interp!write(c, i.rd, i.sf, val, FALSE) = [c EXCEPT !.x[i.rd] = v]
  <2>1. val \cap dmask = v
    BY <1>4, <1>12
  <2>2. Interp!write(c, i.rd, i.sf, val, FALSE) = Interp!write_gpr(c, i.rd, FALSE, v)
    BY <2>1, Zenon DEF Interp!write, dmask
  <2> QED BY <2>2 DEF Interp!write_gpr
<1> DEFINE d == [c EXCEPT !.x[i.rd] = v]
           pc4 == Interp!Next4(c)
<1>14. c \in Cpus
  BY CpuTyped DEF c
<1>15. Interp!step(c, i) = [d EXCEPT !.pc = pc4]
  BY <1>6, <1>7, <1>13, Zenon
<1> HIDE DEF pc4
<1>16. [d EXCEPT !.pc = pc4].x[i.rd] = v
  BY <1>2, <1>14 DEF Cpus, Reg
<1> HIDE DEF d
<1> QED BY <1>15, <1>16 DEF c, v

(* A rotation of 32 bits, by two shifts of 64.                              *)
LEMMA TwoShifts ==
    ASSUME NEW t \in Word(32), NEW r \in 0 .. 31
    PROVE  \A p \in Low(32) :
              p \in (IF r = 0 THEN t ELSE I64ShrU(t, r) \cup (I64Shl(t, 32 - r) \cap W32))
                 <=> RorFrom(p, r, 32) \in t
<1>1. t \subseteq Int /\ \A j \in t : j \in 0 .. 31
  BY DEF Word, Low
<1> TAKE p \in Low(32)
<1>2. p \in 0 .. 31
  BY DEF Low
<1>3. CASE r = 0
  BY <1>2, <1>3 DEF RorFrom
<1>4. CASE r # 0
  <2>1. r % 64 = r /\ (32 - r) % 64 = 32 - r
    BY <1>4
  <2>2. p \in I64ShrU(t, r) <=> p + r \in t
    <3>1. I64ShrU(t, r) = Shr(t, r)
      BY <2>1 DEF I64ShrU
    <3>2. \A i \in Int : i \in Shr(t, r) <=> i >= 0 /\ i + r \in t
      <4>1. r \in Int
        OBVIOUS
      <4> QED BY <1>1, <4>1, InShr
    <3> QED BY <1>2, <3>1, <3>2
  <2>3. p \in I64Shl(t, 32 - r) <=> p - (32 - r) \in t
    <3> DEFINE n == 32 - r
    <3>1. I64Shl(t, n) = Shl(t, n, 64) /\ n \in Int /\ 64 \in Nat
      BY <2>1 DEF I64Shl
    <3> HIDE DEF n
    <3>2. \A i \in Int : i \in Shl(t, n, 64) <=> i \in Low(64) /\ i - n \in t
      BY <1>1, <3>1, InShl
    <3>3. p \in Int /\ p \in Low(64)
      BY <1>2 DEF Low
    <3>4. p \in I64Shl(t, n) <=> p - n \in t
      BY <3>1, <3>2, <3>3
    <3> QED BY <3>4 DEF n
  <2>4. p \in W32
    BY <1>2 DEF W32, Low
  <2>5. CASE p + r < 32
    <3>1. RorFrom(p, r, 32) = p + r
      BY <2>5 DEF RorFrom
    <3>2. p - (32 - r) \notin t
      BY <1>1, <1>2, <2>5
    <3> QED BY <1>4, <2>2, <2>3, <2>4, <3>1, <3>2
  <2>6. CASE ~ (p + r < 32)
    <3>1. RorFrom(p, r, 32) = p - (32 - r)
      BY <1>2, <2>6 DEF RorFrom
    <3>2. p + r \notin t
      BY <1>1, <1>2, <2>6
    <3> QED BY <1>4, <2>2, <2>3, <2>4, <3>1, <3>2
  <2> QED BY <2>5, <2>6
<1> QED BY <1>3, <1>4

(* The bits the emitted code stores.                                        *)
LEMMA LoweredField ==
    ASSUME NEW i \in Bitfields, NEW m \in Img, i.rd # 31
    PROVE  lower_bitfield(m, i).x[i.rd] = FieldResult(m, i)
<1> DEFINE w     == Width(i.sf)
           dmask == mask_w(W64, i.sf)
           wmask == i.wmask \cap dmask
           tmask == i.tmask \cap dmask
           r     == i.immr % (IF i.sf THEN 64 ELSE 32)
           t0    == push_operand(m, i.rn, i.sf, FALSE)
           rot   == IF i.sf THEN Ror(t0, r, 64)
                    ELSE IF r = 0 THEN t0
                    ELSE I64ShrU(t0, r) \cup (I64Shl(t0, 32 - r) \cap W32)
           t1    == wmask \cap rot
           t2    == load_x(m, i.rd)
           sign  == I64Mul(dmask \ tmask, I64ShrU(t0, i.imms) \cap {0})
           t3    == CASE i.opc = 2 -> t1 \cap tmask
                      [] i.opc = 0 -> sign \cup (t1 \cap tmask)
                      [] i.opc = 1 -> (t2 \ tmask) \cup (((t2 \ wmask) \cup t1) \cap tmask)
           F == FieldOf(m, i)
           D == m.x[i.rd]
<1>1. FieldFacts(i)
  BY FieldFactsHold
<1>2. /\ i.sf \in BOOLEAN /\ w \in {32, 64} /\ i.opc \in {0, 1, 2} /\ i.rn \in Reg /\ i.rd \in Reg
      /\ i.immr \in 0 .. w - 1 /\ i.imms \in 0 .. w - 1
      /\ \A p \in Low(w) : /\ p \in i.wmask <=> RorFrom(p, i.immr, w) <= i.imms
                           /\ p \in i.tmask <=> p <= LastBit(i)
                           /\ ~ (p <= LastBit(i)) <=> p > LastBit(i)
                           /\ RorFrom(p, i.immr, w) \in Low(w)
  BY <1>1, Zenon DEF FieldFacts
<1>3. t0 = F \cap Low(w)
  <2>a. i.rn \in Reg
    BY <1>2
  <2>1. t0 = (IF i.rn = 31 THEN {} ELSE m.x[i.rn]) \cap Low(w)
    BY <2>a, FieldOperand, Zenon
  <2>2. F = IF i.rn = 31 THEN {} ELSE m.x[i.rn]
    BY Zenon DEF FieldOf
  <2> QED BY <2>1, <2>2, Zenon
<1>4. dmask = Low(w)
  <2>1. Low(64) \cap Low(32) = Low(32)
    BY DEF Low
  <2> QED BY <1>2, <2>1 DEF mask_w, W64, W32, Width
<1>5. t2 = D
  BY DEF load_x
<1>6. i.sf => w = 64
  BY DEF Width
<1>7. ~ i.sf => w = 32
  BY DEF Width
<1>8. r = i.immr
  BY <1>2, <1>6, <1>7
<1>9. \A p : FieldBit(m, i, p) <=>
                IF p <= LastBit(i) /\ RorFrom(p, i.immr, w) <= i.imms THEN RorFrom(p, i.immr, w) \in F
                ELSE \/ i.opc = 0 /\ p > LastBit(i) /\ i.imms \in F
                     \/ i.opc = 1 /\ p \in D
  BY Zenon DEF FieldBit, InField
<1>10. FieldResult(m, i) = {p \in Low(w) : FieldBit(m, i, p)}
  BY Zenon DEF FieldResult
<1>11. lower_bitfield(m, i) = store_local(m, i.rd, i.sf, FALSE, t3)
  BY Zenon DEF lower_bitfield
<1>21. Low(w) \subseteq Low(64)
  <2>1. w = 32 \/ w = 64
    BY DEF Width
  <2> HIDE DEF w
  <2> QED BY <2>1 DEF Low
<1>12. t0 \in Word(w)
  BY <1>3 DEF Word
<1> HIDE DEF w, dmask, t0, t2, F, D, r
<1>13. ASSUME NEW p \in Low(w) PROVE p \in rot <=> RorFrom(p, i.immr, w) \in t0
  <2>1. CASE i.sf
    <3>1. rot = Ror(t0, i.immr, w)
      BY <1>6, <1>8, <2>1
    <3>2. w \in Nat \ {0}
      BY <1>2
    <3> HIDE DEF rot
    <3> QED BY <1>2, <1>12, <3>1, <3>2, InRor
  <2>2. CASE ~ i.sf
    <3>1. t0 \in Word(32) /\ r \in 0 .. 31 /\ p \in Low(32) /\ w = 32
      BY <1>2, <1>7, <1>8, <1>12, <2>2
    <3>2. p \in (IF r = 0 THEN t0 ELSE I64ShrU(t0, r) \cup (I64Shl(t0, 32 - r) \cap W32))
             <=> RorFrom(p, r, 32) \in t0
      BY <3>1, TwoShifts
    <3>3. rot = IF r = 0 THEN t0 ELSE I64ShrU(t0, r) \cup (I64Shl(t0, 32 - r) \cap W32)
      BY <2>2
    <3> HIDE DEF rot
    <3> QED BY <1>8, <3>1, <3>2, <3>3
  <2> QED BY <2>1, <2>2
<1> HIDE DEF rot
<1>14. sign = IF i.imms \in F THEN dmask \ tmask ELSE {}
  <2> DEFINE bit == I64ShrU(t0, i.imms) \cap {0}
             top == dmask \ tmask
  <2>1. i.imms \in Low(w) /\ i.imms \in Int /\ i.imms % 64 = i.imms
    BY <1>2 DEF Low
  <2>2. 0 \in I64ShrU(t0, i.imms) <=> i.imms \in F
    <3>1. t0 \subseteq Int
      BY <1>12 DEF Word, Low
    <3> DEFINE n == i.imms
    <3>4. n \in Int /\ 0 \in Int /\ 0 >= 0 /\ 0 + n = n
      BY <2>1
    <3> HIDE DEF n
    <3>5. 0 \in Shr(t0, n) <=> 0 >= 0 /\ 0 + n \in t0
      BY <3>1, <3>4, InShr
    <3>2. 0 \in Shr(t0, i.imms) <=> i.imms \in t0
      BY <3>4, <3>5 DEF n
    <3>3. I64ShrU(t0, i.imms) = Shr(t0, i.imms)
      BY <2>1 DEF I64ShrU
    <3> QED BY <1>3, <2>1, <3>2, <3>3
  <2>3. bit = IF i.imms \in F THEN {0} ELSE {}
    BY <2>2
  <2>4. top \in Word(64)
    <3> HIDE DEF tmask
    <3> QED BY <1>4, <1>21 DEF Word
  <2> HIDE DEF bit, top
  <2>5. I64Mul(top, {}) = {} /\ I64Mul(top, {0}) = top
    BY <2>4, TimesBit
  <2>6. I64Mul(top, bit) = IF i.imms \in F THEN top ELSE {}
    BY <2>3, <2>5
  <2> QED BY <2>6, Zenon DEF bit, top
<1> HIDE DEF sign
<1>15. ASSUME NEW p \in Low(w) PROVE p \in t3 <=> FieldBit(m, i, p)
  <2> DEFINE from == RorFrom(p, i.immr, w)
  <2>1. /\ p \in i.wmask <=> from <= i.imms
        /\ p \in i.tmask <=> p <= LastBit(i)
        /\ ~ (p <= LastBit(i)) <=> p > LastBit(i)
        /\ from \in Low(w)
    BY <1>2
  <2>2. p \in rot <=> from \in t0
    BY <1>13
  <2>4. FieldBit(m, i, p) <=>
           IF p <= LastBit(i) /\ from <= i.imms THEN from \in F
           ELSE \/ i.opc = 0 /\ p > LastBit(i) /\ i.imms \in F
                \/ i.opc = 1 /\ p \in D
    BY <1>9
  <2> HIDE DEF from
  <2>5. /\ p \in wmask <=> from <= i.imms
        /\ p \in tmask <=> p <= LastBit(i)
        /\ p \in t1 <=> from \in F /\ from <= i.imms
        /\ p \in t2 <=> p \in D
        /\ p \in sign <=> i.imms \in F /\ p \notin tmask
    BY <1>3, <1>4, <1>5, <1>14, <2>1, <2>2
  <2> HIDE DEF wmask, tmask, t1
  <2>6. CASE i.opc = 0
    <3>1. p \in t3 <=> p \in sign \/ (p \in t1 /\ p \in tmask)
      BY <2>6
    <3> HIDE DEF t3
    <3> QED BY <2>1, <2>4, <2>5, <2>6, <3>1
  <2>7. CASE i.opc = 1
    <3>1. p \in t3 <=> \/ p \in t2 /\ p \notin tmask
                       \/ ((p \in t2 /\ p \notin wmask) \/ p \in t1) /\ p \in tmask
      BY <2>7
    <3> HIDE DEF t3
    <3> QED BY <2>1, <2>4, <2>5, <2>7, <3>1
  <2>8. CASE i.opc = 2
    <3>1. p \in t3 <=> p \in t1 /\ p \in tmask
      BY <2>8
    <3> HIDE DEF t3
    <3> QED BY <2>1, <2>4, <2>5, <2>8, <3>1
  <2> QED BY <1>2, <2>6, <2>7, <2>8
<1>16. t3 \in Word(64)
  <2>1. i.wmask \in Word(64) /\ i.tmask \in Word(64) /\ D \in Word(64)
    BY <1>2 DEF Bitfields, Img, Word, Reg, D
  <2>2. wmask \subseteq Low(64) /\ tmask \subseteq Low(64) /\ D \subseteq Low(64) /\ dmask \subseteq Low(64)
    <3> QED BY <1>4, <1>21, <2>1 DEF Word
  <2>3. sign \subseteq Low(64)
    BY <1>14, <2>2
  <2>4. t1 \subseteq Low(64)
    BY <2>2
  <2> HIDE DEF wmask, tmask, t1
  <2> QED BY <1>2, <1>5, <2>2, <2>3, <2>4 DEF Word
<1> HIDE DEF t3
<1>17. mask_w(t3, i.sf) = FieldResult(m, i)
  <2>1. mask_w(t3, i.sf) = t3 \cap Low(w)
    <3>1. i.sf \in BOOLEAN
      BY <1>2
    <3> QED BY <1>16, <3>1, MaskAgrees, Zenon DEF w
  <2> QED BY <1>10, <1>15, <2>1
<1>18. store_local(m, i.rd, i.sf, FALSE, t3) = [m EXCEPT !.x[i.rd] = mask_w(t3, i.sf)]
  BY DEF store_local
<1> DEFINE v == FieldResult(m, i)
<1>19. lower_bitfield(m, i) = [m EXCEPT !.x[i.rd] = v]
  BY <1>11, <1>17, <1>18
<1> HIDE DEF v
<1>20. [m EXCEPT !.x[i.rd] = v].x[i.rd] = v
  BY <1>2 DEF Img, Reg
<1> QED BY <1>19, <1>20 DEF v

-----------------------------------------------------------------------------
(* Steps of the program                                                      *)

\* A bit field move and a logical immediate that decode yields are well formed.
LEMMA FieldKinds ==
    ASSUME NEW i \in Insns, i.op \in {"Bitfield", "LogicalImm"}
    PROVE  /\ i.op = "Bitfield" => i \in Bitfields
           /\ i.op = "LogicalImm" => i \in LogicalImms
           /\ ~ is_terminator(i) /\ ~ is_inline_simd(i)
<1>1. i \in IntegerInsns
  <2>1. i.op \notin Interp!BranchOps /\ i.op \notin Interp!VectorOps
    BY DEF Interp!BranchOps, Interp!VectorOps, Interp!ScalarOps
  <2> QED BY <2>1, BranchNames, VectorNames DEF Insns
<1>2. (i.op = "Bitfield" => i \in Bitfields) /\ (i.op = "LogicalImm" => i \in LogicalImms)
  BY <1>1 DEF IntegerInsns, MoveWides, AddSubImms, AddSubShifts, AddSubExts, AddSubCarrys,
     LogicalImms, LogicalRegs, Bitfields, Extracts, CondSelects, CondCompares, DataProc1s, DataProc2s,
     DataProc3s, PcRels, Hints
<1>3. ~ is_terminator(i) /\ ~ is_inline_simd(i)
  BY DEF is_terminator, is_inline_simd
<1> QED BY <1>2, <1>3

\* A decoded logical immediate is a rotated run of ones.
LEMMA ImmediateIsRun ==
    ASSUME NEW i \in LogicalImms
    PROVE  RotatedRun(i.imm, IF i.sf THEN 64 ELSE 32)
BY Zenon DEF LogicalImms, Width

MovesField == Insn.op = "Bitfield" /\ Insn.rd # 31 => image'.x[Insn.rd] = Moved(Insn)
Fielded ==
    Executes => /\ MovesField
                /\ Insn.op = "LogicalImm" => RotatedRun(Insn.imm, IF Insn.sf THEN 64 ELSE 32)

\* An emitted bit field move leaves the field where it belongs,
LEMMA EmittedFields == IInv /\ Emitted => Fielded
<1> SUFFICES ASSUME IInv, Emitted, Insn.op \in {"Bitfield", "LogicalImm"}
             PROVE  /\ MovesField
                    /\ Insn.op = "LogicalImm" => RotatedRun(Insn.imm, IF Insn.sf THEN 64 ELSE 32)
  BY DEF Fielded, MovesField
<1> DEFINE i    == block[at + 1]
           last == at + 1 = Len(block)
           t    == lower_terminator(image, i, StaticPC, StaticEntry)
           rel  == gen_rel_pc(image, Plus4(StaticPC, 1), StaticEntry)
           done == IF last /\ is_terminator(i) THEN Leave(t)
                   ELSE [image |-> Lower(image, i), ret |-> IF last THEN {rel} ELSE Running]
<1>1. /\ ret = Running /\ at < Len(block) /\ Interp!Modelled(i)
      /\ image' = done.image /\ ret' = done.ret /\ at' = at + 1
      /\ UNCHANGED <<code, block, first>>
  BY Zenon DEF Emitted
<1>2. Len(block) \in Nat /\ at \in Nat /\ at + 1 \in 1 .. Len(block)
  <2>1. Len(block) \in Nat
    BY LenProperties, Zenon DEF IInv, Formed
  <2> QED BY <1>1, <2>1 DEF IInv
<1>3. i \in Insns
  BY <1>1, <1>2, InsnTyped, Zenon
<1>4. Insn = i
  <2>1. block # <<>>
    <3>1. Len(<<>>) = 0
      OBVIOUS
    <3> QED BY <1>2, <3>1
  <2> QED BY <2>1, Zenon DEF Insn
<1>5. /\ i.op = "Bitfield" => i \in Bitfields
      /\ i.op = "LogicalImm" => i \in LogicalImms
      /\ ~ is_terminator(i) /\ ~ is_inline_simd(i)
  <2>1. i.op \in {"Bitfield", "LogicalImm"}
    BY <1>4
  <2> HIDE DEF i
  <2> QED BY <1>3, <2>1, FieldKinds, Zenon
<1>6. image \in Img
  BY DEF IInv
<1>7. image' = lower_sequential(image, i, StaticPC, StaticEntry)
  <2>1. done = [image |-> Lower(image, i), ret |-> IF last THEN {rel} ELSE Running]
    BY <1>5, Zenon
  <2>2. done.image = Lower(image, i)
    <3> HIDE DEF done, rel, last, i
    <3> QED BY <2>1
  <2> QED BY <1>1, <1>5, <2>2, Zenon DEF Lower
<1> HIDE DEF i
<1>8. ASSUME i.op = "Bitfield", i.rd # 31 PROVE image'.x[i.rd] = Moved(i)
  <2>1. i \in Bitfields
    BY <1>5, <1>8, Zenon
  <2>2. image' = lower_bitfield(image, i)
    BY <1>7, <1>8 DEF lower_sequential
  <2>3. lower_bitfield(image, i).x[i.rd] = FieldResult(image, i)
    BY <1>6, <1>8, <2>1, LoweredField, Zenon
  <2>4. Moved(i) = FieldResult(image, i)
    BY <1>6, <1>8, <2>1, MovedBits, Zenon
  <2> QED BY <2>2, <2>3, <2>4
<1>9. MovesField
  BY <1>4, <1>8 DEF MovesField
<1>10. i.op = "LogicalImm" => RotatedRun(i.imm, IF i.sf THEN 64 ELSE 32)
  BY <1>5, ImmediateIsRun, Zenon
<1> QED BY <1>4, <1>9, <1>10, Zenon

\* an interpreted one too.
LEMMA InterpretFields == IInv /\ Interpret => Fielded
<1> SUFFICES ASSUME IInv, Interpret, Insn.op \in {"Bitfield", "LogicalImm"}
             PROVE  /\ MovesField
                    /\ Insn.op = "LogicalImm" => RotatedRun(Insn.imm, IF Insn.sf THEN 64 ELSE 32)
  BY DEF Fielded, MovesField
<1> DEFINE i == decode(code[first])
           c0 == [x |-> image.x, sp |-> image.sp, v |-> image.v, pc |-> image.pc,
                  flags |-> {b - 28 : b \in image.nzcv}]
           c == Interp!step(c0, i)
<1>1. /\ block = <<>> /\ Interp!Modelled(i)
      /\ image' = [x |-> c.x, sp |-> c.sp, v |-> c.v, pc |-> image.pc,
                   nzcv |-> {f + 28 : f \in c.flags}]
  BY Zenon DEF Interpret
<1>2. i \in Insns
  <2>1. code[first] \in SUBSET W32
    BY ElementOfSeq, Zenon DEF IInv, Placed
  <2> QED BY <1>1, <2>1, ModelledKind, Zenon
<1>3. image \in Img /\ image.pc \in Word(64)
  BY DEF IInv, Img
<1>4. Insn = i
  BY <1>1, Zenon DEF Insn
<1>5. /\ i.op = "Bitfield" => i \in Bitfields
      /\ i.op = "LogicalImm" => i \in LogicalImms
  <2>1. i.op \in {"Bitfield", "LogicalImm"}
    BY <1>4
  <2> HIDE DEF i
  <2> QED BY <1>2, <2>1, FieldKinds, Zenon
<1> HIDE DEF i
<1>6. c0 = CpuOf(image, image.pc)
  BY DEF CpuOf, Flags
<1>7. image'.x = c.x
  BY <1>1
<1>8. ASSUME i.op = "Bitfield", i.rd # 31 PROVE image'.x[i.rd] = Moved(i)
  <2>1. i \in Bitfields
    BY <1>5, <1>8, Zenon
  <2>2. Interp!step(CpuOf(image, image.pc), i).x[i.rd] = FieldResult(image, i)
    BY <1>3, <1>8, <2>1, InterpField, Zenon
  <2>3. c = Interp!step(CpuOf(image, image.pc), i)
    BY <1>6
  <2>4. Moved(i) = FieldResult(image, i)
    BY <1>3, <1>8, <2>1, MovedBits, Zenon
  <2> HIDE DEF c, c0
  <2> QED BY <1>7, <2>2, <2>3, <2>4
<1>9. MovesField
  BY <1>4, <1>8 DEF MovesField
<1>10. i.op = "LogicalImm" => RotatedRun(i.imm, IF i.sf THEN 64 ELSE 32)
  BY <1>5, ImmediateIsRun, Zenon
<1> QED BY <1>4, <1>9, <1>10, Zenon

\* A bit field move leaves exactly its field where it belongs, with zeros, the sign or the
\* destination around it, and a logical immediate is a rotated run of ones: the masks of
\* decode_bit_masks and the rotation, emitted by two shifts at 32 bits and the sign by a product
\* (bitmask.rs, bitfield.rs, dataproc.rs): Compiled's FieldsMove, for every program and register
\* content.
THEOREM FieldsMoveRight == Spec => FieldsMove
<1>1. IInv /\ [Next]_vars => Fielded
  <2> SUFFICES ASSUME IInv, [Next]_vars PROVE Fielded
    OBVIOUS
  <2>1. CASE Emitted
    BY <2>1, EmittedFields, Zenon
  <2>2. CASE Interpret
    BY <2>2, InterpretFields, Zenon
  <2>3. CASE Dispatch \/ UNCHANGED vars
    BY <2>3, OthersIdle, Zenon DEF Fielded
  <2> QED BY <2>1, <2>2, <2>3, Zenon DEF Next
<1>2. Fielded =>
        [Executes => /\ Insn.op = "Bitfield" /\ Insn.rd # 31
                           => image'.x[Insn.rd] = Moved(Insn)
                     /\ Insn.op = "LogicalImm"
                           => RotatedRun(Insn.imm, IF Insn.sf THEN 64 ELSE 32)]_vars
  BY Zenon DEF Fielded, MovesField
<1> QED BY <1>1, <1>2, InitInv, StepInv, PTL DEF Spec, FieldsMove
=============================================================================
