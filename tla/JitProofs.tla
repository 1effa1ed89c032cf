------------------------------ MODULE JitProofs ------------------------------
(***************************************************************************)
(* Machine-checked proofs about the JIT organizer, region formation and    *)
(* compiled code, for every program, mapping and patch of the guest, every *)
(* hotness and every cap on blocks, regions and iterations.                *)
(***************************************************************************)
EXTENDS Jit, TLAPS, WellFoundedInduction

-----------------------------------------------------------------------------
(* Loops *)

LEMMA LeastNatural ==
    ASSUME NEW S, S \subseteq Nat, S # {}
    PROVE  \E n \in S : \A m \in S : n <= m
<1> DEFINE Less == {ss \in Nat \X Nat : ss[1] < ss[2]}
<1>1. IsWellFoundedOn(Less, Nat)
  BY NatLessThanWellFounded, Zenon DEF OpToRel
<1>2. \E n \in S : \A m \in S : ~ (<<m, n>> \in Less)
  <2> HIDE DEF Less
  <2> QED BY <1>1, WFMin
<1>3. \A m, n \in Nat : ~ (<<m, n>> \in Less) => n <= m
  OBVIOUS
<1> QED BY <1>2, <1>3

(* A set that holds a and, with each number below b, the next one, holds    *)
(* all of a .. b.                                                           *)
LEMMA Through ==
    ASSUME NEW a \in Nat, NEW b \in Nat, NEW S,
           a \in S, \A k \in a .. b - 1 : k \in S => k + 1 \in S
    PROVE  a .. b \subseteq S
<1> DEFINE Missing == {k \in a .. b : k \notin S}
<1> SUFFICES ASSUME Missing # {} PROVE FALSE
  OBVIOUS
<1>1. PICK k \in Missing : \A m \in Missing : k <= m
  <2>1. Missing \subseteq Nat
    OBVIOUS
  <2> HIDE DEF Missing
  <2> QED BY <2>1, LeastNatural
<1>2. k \in a + 1 .. b /\ k - 1 \notin Missing /\ k - 1 \in a .. b - 1
  BY <1>1
<1>3. k - 1 \in S /\ (k - 1) + 1 = k
  BY <1>2
<1> QED BY <1>1, <1>2, <1>3

\* The runs of a loop that steps from a to b through values of X.
LoopRuns(a, b, X, start, step) ==
    {f \in [a .. b -> X] : f[a] = start /\ \A k \in a + 1 .. b : f[k] = step[<<f[k - 1], k>>]}

LEMMA LoopHasRun ==
    ASSUME NEW a \in Nat, NEW b \in Nat, a <= b, NEW X, NEW start \in X,
           NEW step \in [X \X (a + 1 .. b) -> X]
    PROVE  LoopRuns(a, b, X, start, step) # {}
<1> DEFINE Turn(f, k) == IF k = a THEN start ELSE step[<<f[k - 1], k>>]
           Runs(m) == {f \in [a .. m -> X] : \A k \in a .. m : f[k] = Turn(f, k)}
           S == {m \in a .. b : Runs(m) # {}}
<1>1. a \in S
  <2> DEFINE f == [k \in a .. a |-> start]
  <2>1. f \in [a .. a -> X] /\ \A k \in a .. a : f[k] = Turn(f, k)
    OBVIOUS
  <2>2. f \in Runs(a) /\ a \in a .. b
    BY <2>1
  <2> QED BY Zenon, <2>2
<1>2. ASSUME NEW m \in a .. b - 1, m \in S PROVE m + 1 \in S
  <2>1. PICK f \in [a .. m -> X] : \A k \in a .. m : f[k] = Turn(f, k)
    BY <1>2
  <2> DEFINE g == [k \in a .. m + 1 |-> IF k = m + 1 THEN step[<<f[m], m + 1>>] ELSE f[k]]
  <2>2. m \in Nat /\ m + 1 \in a .. b /\ m + 1 \in a + 1 .. b /\ m \in a .. m
    OBVIOUS
  <2>3. step[<<f[m], m + 1>>] \in X
    BY <2>2
  <2>4. g \in [a .. m + 1 -> X]
    BY <2>2, <2>3
  <2>5. ASSUME NEW k \in a .. m + 1 PROVE g[k] = Turn(g, k)
    <3>1. CASE k = m + 1
      <4>1. k # a /\ k - 1 = m /\ m \in a .. m + 1 /\ m # m + 1
        BY <2>2, <3>1
      <4>2. g[k - 1] = f[m]
        BY <4>1
      <4>3. g[k] = step[<<f[m], m + 1>>]
        BY <3>1
      <4> QED BY <3>1, <4>1, <4>2, <4>3
    <3>2. CASE k # m + 1
      <4>1. k \in a .. m /\ (k # a => k - 1 \in a .. m + 1 /\ k - 1 # m + 1)
        BY <2>2, <3>2
      <4>2. g[k] = f[k] /\ (k # a => g[k - 1] = f[k - 1])
        BY <2>2, <3>2, <4>1
      <4> HIDE DEF g
      <4> QED BY <2>1, <4>1, <4>2
    <3> QED BY <3>1, <3>2
  <2> HIDE DEF g
  <2>6. g \in Runs(m + 1)
    BY <2>4, <2>5
  <2> QED BY <2>2, <2>6
<1>3. b \in S
  <2>1. a .. b \subseteq S
    <3> HIDE DEF S
    <3> QED BY <1>1, <1>2, Through
  <2>2. b \in a .. b
    OBVIOUS
  <2> HIDE DEF S
  <2> QED BY <2>1, <2>2
<1>4. PICK f \in [a .. b -> X] : \A k \in a .. b : f[k] = Turn(f, k)
  BY <1>3
<1>5. a \in a .. b /\ \A k \in a + 1 .. b : k \in a .. b /\ k # a
  OBVIOUS
<1> QED BY <1>4, <1>5 DEF LoopRuns
-----------------------------------------------------------------------------
(* Pages and wrapping addresses *)

LEMMA DivModUnique ==
    ASSUME NEW n \in Int, NEW m \in Nat \ {0}, NEW q \in Int, NEW r \in 0 .. m - 1,
           n = q * m + r
    PROVE  n \div m = q /\ n % m = r
<1> DEFINE d == n \div m
           e == n % m
<1>1. d \in Int /\ e \in 0 .. m - 1 /\ n = d * m + e
  <2>1. \A a \in Int, b \in Nat \ {0} : a \div b \in Int /\ a % b \in 0 .. b - 1
                                       /\ a = ((a \div b) * b) + (a % b)
    OBVIOUS
  <2> QED BY <2>1
<1> HIDE DEF d, e
<1>2. (q - d) * m = e - r
  BY <1>1
<1>3. \A a \in Int, b \in Nat \ {0} : (a >= 1 => a * b >= b) /\ (a <= -1 => a * b <= -b)
  <2>1. \A a \in Int, b \in Nat \ {0} : a >= 1 => a * b >= b
    OBVIOUS
  <2>2. \A a \in Int, b \in Nat \ {0} : a <= -1 => a * b <= -b
    OBVIOUS
  <2> QED BY <2>1, <2>2
<1>4. ~ (q - d >= 1) /\ ~ (q - d <= -1)
  <2>1. q - d \in Int
    BY <1>1
  <2>2. q - d >= 1 => (q - d) * m >= m
    BY <2>1, <1>3
  <2>3. q - d <= -1 => (q - d) * m <= -m
    BY <2>1, <1>3
  <2> QED BY <1>1, <1>2, <2>2, <2>3
<1>5. q = d
  BY <1>1, <1>4
<1>6. r = e
  BY <1>1, <1>5
<1> QED BY <1>5, <1>6 DEF d, e

LEMMA DivModOf ==
    ASSUME NEW n \in Int, NEW m \in Nat \ {0}
    PROVE  /\ n \div m \in Int /\ n % m \in 0 .. m - 1
           /\ n = (n \div m) * m + (n % m)
           /\ n \in Nat => n \div m \in Nat
OBVIOUS

LEMMA Sizes ==
    /\ PageWords \in Nat \ {0} /\ NumVPages \in Nat \ {0} /\ NumPPages \in Nat \ {0}
    /\ NumVPages * PageWords \in Nat \ {0} /\ NumPPages * PageWords \in Nat \ {0}
    /\ \A a \in VA : a \in Nat /\ a \in Int
    /\ \A a \in PA : a \in Nat /\ a \in Int
<1>1. \A a, b \in Nat \ {0} : a * b \in Nat \ {0}
  OBVIOUS
<1>2. PageWords \in Nat \ {0} /\ NumVPages \in Nat \ {0} /\ NumPPages \in Nat \ {0}
  BY GuestAssumption
<1>3. NumVPages * PageWords \in Nat \ {0} /\ NumPPages * PageWords \in Nat \ {0}
  BY <1>1, <1>2
<1> QED BY <1>2, <1>3 DEF VA, PA

(* A page and an offset in it make an address of a space of n pages.        *)
LEMMA InSpace ==
    ASSUME NEW n \in Nat, NEW q \in 0 .. n - 1, NEW r \in 0 .. PageWords - 1
    PROVE  /\ q * PageWords + r \in 0 .. n * PageWords - 1
           /\ (q * PageWords + r) \div PageWords = q /\ (q * PageWords + r) % PageWords = r
<1>1. PageWords \in Nat \ {0}
  BY Sizes
<1>2. q * PageWords \in Nat /\ n * PageWords \in Nat
  BY <1>1
<1>3. q * PageWords + PageWords <= n * PageWords
  <2>1. \A a, b, c \in Nat : a + 1 <= b => a * c + c <= b * c
    OBVIOUS
  <2> QED BY <1>1, <2>1
<1>4. q * PageWords + r \in 0 .. n * PageWords - 1
  BY <1>1, <1>2, <1>3
<1> QED BY <1>1, <1>4, DivModUnique

(* An address of a space of n pages is a page of it and an offset.          *)
LEMMA OfSpace ==
    ASSUME NEW n \in Nat, NEW a \in 0 .. n * PageWords - 1
    PROVE  /\ a \div PageWords \in 0 .. n - 1 /\ a % PageWords \in 0 .. PageWords - 1
           /\ a = (a \div PageWords) * PageWords + (a % PageWords)
<1>1. PageWords \in Nat \ {0} /\ a \in Nat /\ a \in Int
  BY Sizes
<1>2. /\ a \div PageWords \in Nat /\ a % PageWords \in 0 .. PageWords - 1
      /\ a = (a \div PageWords) * PageWords + (a % PageWords)
  BY Zenon, <1>1, DivModOf
<1>3. a \div PageWords <= n - 1
  <2> DEFINE q == a \div PageWords
  <2>1. \A x, y, z \in Nat : x >= y => x * z >= y * z
    OBVIOUS
  <2>2. q >= n => q * PageWords >= n * PageWords
    BY <1>1, <1>2, <2>1
  <2>3. n * PageWords \in Nat /\ q * PageWords \in Nat
    BY <1>1, <1>2
  <2>4. q * PageWords <= a
    BY <1>1, <1>2, <2>3
  <2> HIDE DEF q
  <2> QED BY <1>2, <2>2, <2>3, <2>4 DEF q
<1> QED BY <1>2, <1>3

(* Words further on in the same page.                                       *)
LEMMA SamePage ==
    ASSUME NEW a \in VA, NEW k \in Nat, (a % PageWords) + k < PageWords
    PROVE  /\ a + k \in VA /\ PageOf(a + k) = PageOf(a)
           /\ (a + k) % PageWords = (a % PageWords) + k
<1>1. /\ a \div PageWords \in 0 .. NumVPages - 1 /\ a % PageWords \in 0 .. PageWords - 1
      /\ a = (a \div PageWords) * PageWords + (a % PageWords)
  BY Sizes, OfSpace DEF VA
<1>2. PageWords \in Nat \ {0} /\ NumVPages \in Nat
  BY Sizes
<1> DEFINE q == a \div PageWords
           r == a % PageWords
<1> HIDE DEF q, r
<1>3. q \in 0 .. NumVPages - 1 /\ r \in 0 .. PageWords - 1 /\ a = q * PageWords + r /\ r + k < PageWords
  BY <1>1 DEF q, r
<1>4. r + k \in 0 .. PageWords - 1
  BY <1>2, <1>3
<1>5. q * PageWords + (r + k) = a + k
  <2>1. q * PageWords \in Int
    BY <1>2, <1>3
  <2> QED BY <1>2, <1>3, <2>1
<1>6. /\ a + k \in 0 .. NumVPages * PageWords - 1
      /\ (a + k) \div PageWords = q /\ (a + k) % PageWords = r + k
  BY <1>2, <1>3, <1>4, <1>5, InSpace
<1> QED BY <1>6 DEF VA, PageOf, q, r

\* Where the page of a begins.
PageBase(a) == a - (a % PageWords)

LEMMA InPage ==
    ASSUME NEW a \in PA, NEW r \in 0 .. PageWords - 1
    PROVE  /\ PageBase(a) + r \in PA /\ (PageBase(a) + r) % PageWords = r
           /\ PageBase(PageBase(a) + r) = PageBase(a)
<1>1. PageWords \in Nat \ {0} /\ NumPPages \in Nat
  BY Sizes
<1> DEFINE q == a \div PageWords
           s == a % PageWords
<1>2. q \in 0 .. NumPPages - 1 /\ s \in 0 .. PageWords - 1 /\ a = q * PageWords + s
  BY <1>1, OfSpace DEF PA
<1>3. PageBase(a) = a - s
  BY DEF PageBase
<1> HIDE DEF q, s
<1>4. q * PageWords \in Int
  BY <1>1, <1>2
<1>5. PageBase(a) = q * PageWords
  BY <1>1, <1>2, <1>3, <1>4
<1>6. q * PageWords + r \in 0 .. NumPPages * PageWords - 1 /\ (q * PageWords + r) % PageWords = r
  BY <1>1, <1>2, InSpace
<1>7. PageBase(q * PageWords + r) = q * PageWords
  BY <1>1, <1>4, <1>6 DEF PageBase
<1> QED BY <1>5, <1>6, <1>7 DEF PA

LEMMA PaOfType ==
    ASSUME map \in Maps, NEW va \in VA, Mapped(va)
    PROVE  PaOf(va) \in PA /\ PaOf(va) % PageWords = va % PageWords
<1>1. va \div PageWords \in 0 .. NumVPages - 1 /\ va % PageWords \in 0 .. PageWords - 1
  BY Sizes, OfSpace DEF VA
<1> DEFINE q == map[va \div PageWords]
           r == va % PageWords
<1>2. map \in [0 .. NumVPages - 1 -> (0 .. NumPPages - 1) \cup {None}]
  BY GuestAssumption DEF Mapping
<1>3. q \in 0 .. NumPPages - 1
  BY <1>1, <1>2 DEF Mapped
<1>4. PaOf(va) = q * PageWords + r
  BY DEF PaOf
<1> HIDE DEF q
<1>5. q * PageWords + r \in 0 .. NumPPages * PageWords - 1 /\ (q * PageWords + r) % PageWords = r
  BY <1>1, <1>3, Sizes, InSpace
<1> QED BY <1>4, <1>5 DEF PA

LEMMA PlusType ==
    ASSUME NEW a \in Int, NEW d \in Int
    PROVE  Plus(a, d) \in VA
<1>1. NumVPages * PageWords \in Nat \ {0}
  BY Sizes
<1> DEFINE T == NumVPages * PageWords
<1>2. T \in Nat \ {0}
  BY <1>1
<1> HIDE DEF T
<1>3. (a + d) % T \in 0 .. T - 1
  BY <1>2
<1> QED BY <1>3 DEF Plus, VA, T

LEMMA PlusNothing == ASSUME NEW a \in VA PROVE Plus(a, 0) = a
<1> DEFINE T == NumVPages * PageWords
<1>1. T \in Nat \ {0} /\ a \in 0 .. T - 1
  BY Sizes DEF VA
<1> HIDE DEF T
<1>2. a + 0 = 0 * T + a /\ 0 * T = 0 /\ a + 0 \in Int
  BY <1>1
<1>3. (a + 0) % T = a
  BY <1>1, <1>2, DivModUnique
<1> QED BY <1>3 DEF Plus, T

(* Whole turns round the address space change nothing.                      *)
LEMMA PlusWraps ==
    ASSUME NEW a \in Int, NEW b \in Int, NEW n \in Int
    PROVE  Plus(a, b + n * (NumVPages * PageWords)) = Plus(a, b)
<1> DEFINE T == NumVPages * PageWords
           q == (a + b) \div T
           r == (a + b) % T
<1>1. T \in Nat \ {0}
  BY Sizes
<1> HIDE DEF T
<1>2. q \in Int /\ r \in 0 .. T - 1 /\ a + b = q * T + r
  BY <1>1, DivModOf
<1> HIDE DEF q, r
<1>3. n * T \in Int /\ q * T \in Int /\ r \in Int /\ (q + n) * T = q * T + n * T
  BY <1>1, <1>2
<1>4. a + (b + n * T) = (q + n) * T + r /\ q + n \in Int /\ a + (b + n * T) \in Int
  BY <1>2, <1>3
<1>5. (a + (b + n * T)) % T = r
  BY <1>1, <1>2, <1>4, DivModUnique
<1> QED BY <1>5 DEF Plus, r, T

LEMMA PlusPlus ==
    ASSUME NEW a \in Int, NEW b \in Int, NEW c \in Int
    PROVE  Plus(Plus(a, b), c) = Plus(a, b + c)
<1> DEFINE T == NumVPages * PageWords
           q == (a + b) \div T
           r == (a + b) % T
<1>1. T \in Nat \ {0}
  BY Sizes
<1>2. Plus(a, b) = r
  BY DEF Plus
<1> HIDE DEF T
<1>3. q \in Int /\ r \in 0 .. T - 1 /\ a + b = q * T + r
  BY <1>1, DivModOf
<1> HIDE DEF q, r
<1>4. r \in Int /\ q * T \in Int /\ (r + c) + q * T = a + (b + c)
  BY <1>1, <1>3
<1>5. Plus(r, c + q * T) = Plus(r, c)
  BY <1>3, <1>4, PlusWraps DEF T
<1>6. Plus(r, c + q * T) = Plus(a, b + c)
  <2>1. r + (c + q * T) = a + (b + c)
    BY <1>4
  <2> QED BY <2>1 DEF Plus
<1> QED BY <1>2, <1>5, <1>6

(* Compiled code is position independent: an address relative to the entry  *)
(* the block was called at moves with it.                                   *)
LEMMA PlusRelative ==
    ASSUME NEW pc0 \in Int, NEW entry \in Int, NEW a \in Int, NEW d \in Int
    PROVE  Plus(pc0, Plus(a, d) - entry) = Plus(Plus(pc0, a - entry), d)
<1> DEFINE T == NumVPages * PageWords
           q == (a + d) \div T
           r == (a + d) % T
<1>1. T \in Nat \ {0}
  BY Sizes
<1>2. Plus(a, d) = r
  BY DEF Plus
<1> HIDE DEF T
<1>3. q \in Int /\ r \in 0 .. T - 1 /\ a + d = q * T + r
  BY <1>1, DivModOf
<1> HIDE DEF q, r
<1>4. r \in Int /\ q * T \in Int /\ (r - entry) + q * T = (a - entry) + d
  BY <1>1, <1>3
<1>5. Plus(pc0, (r - entry) + q * T) = Plus(pc0, r - entry)
  BY <1>3, <1>4, PlusWraps DEF T
<1>6. Plus(pc0, (a - entry) + d) = Plus(Plus(pc0, a - entry), d)
  BY <1>4, PlusPlus
<1> QED BY <1>2, <1>4, <1>5, <1>6

(* In the entry's page it stays in the page it was called in.               *)
LEMMA RelativeInPage ==
    ASSUME NEW pc0 \in VA, NEW entry \in VA, NEW a \in VA,
           pc0 % PageWords = entry % PageWords, PageOf(a) = PageOf(entry)
    PROVE  /\ Plus(pc0, a - entry) \in VA /\ PageOf(Plus(pc0, a - entry)) = PageOf(pc0)
           /\ Plus(pc0, a - entry) % PageWords = a % PageWords
<1>1. PageWords \in Nat \ {0} /\ NumVPages \in Nat
  BY Sizes
<1> DEFINE q0 == pc0 \div PageWords
           q == entry \div PageWords
           r == entry % PageWords
           ra == a % PageWords
           x == q0 * PageWords + ra
<1>2. q0 \in 0 .. NumVPages - 1 /\ pc0 = q0 * PageWords + r
  BY <1>1, OfSpace DEF VA
<1>3. q \in 0 .. NumVPages - 1 /\ r \in 0 .. PageWords - 1 /\ entry = q * PageWords + r
  BY <1>1, OfSpace DEF VA
<1>4. ra \in 0 .. PageWords - 1 /\ a = q * PageWords + ra
  BY <1>1, OfSpace DEF VA, PageOf
<1> HIDE DEF q0, q, r, ra
<1>5. x \in 0 .. NumVPages * PageWords - 1 /\ x \div PageWords = q0 /\ x % PageWords = ra
  BY <1>1, <1>2, <1>4, InSpace
<1>6. q0 * PageWords \in Int /\ q * PageWords \in Int
  BY <1>1, <1>2, <1>3
<1>7. pc0 + (a - entry) = x /\ x + 0 = x
  BY <1>1, <1>2, <1>3, <1>4, <1>6
<1> HIDE DEF x
<1>8. x \in VA
  BY <1>5 DEF VA
<1>9. Plus(pc0, a - entry) = Plus(x, 0)
  BY <1>7 DEF Plus
<1>10. Plus(pc0, a - entry) = x
  BY <1>8, <1>9, PlusNothing
<1> QED BY <1>5, <1>8, <1>10 DEF PageOf, q0, ra
-----------------------------------------------------------------------------
(* Region formation *)

Code == [VA -> Insn]

\* The block holds the words of the code from its start on, within a page, and
\* only its last instruction may branch.
Translates(b, code) ==
    \A k \in 1 .. Len(b.insns) :
        /\ b.start + k - 1 \in VA /\ b.insns[k] = code[b.start + k - 1]
        /\ PageOf(b.start + k - 1) = PageOf(b.start)
        /\ can_inline(b.insns[k]) \/ (is_branch(b.insns[k]) /\ k = Len(b.insns))

(* form_jit_block: there is a longest run of inlined instructions, the      *)
(* block is that run with the branch behind it, and it stays in its page.   *)
LEMMA BlockForms ==
    ASSUME NEW start \in VA, NEW most \in Nat, (start % PageWords) + most <= PageWords,
           NEW code \in Code
    PROVE  LET b == form_jit_block(start, most, code)
           IN  /\ b \in Block /\ b.start = start /\ Len(b.insns) <= most
               /\ Translates(b, code)
<1> DEFINE Inlined(n) == \A k \in 0 .. n - 1 : can_inline(code[start + k])
           Longest(n) == Inlined(n) /\ (n < most => ~ can_inline(code[start + n]))
           n == CHOOSE n \in 0 .. most : Longest(n)
           len == IF n < most /\ is_branch(code[start + n]) THEN n + 1 ELSE n
           insns == [k \in 1 .. len |-> code[start + k - 1]]
<1>1. PageWords \in Nat \ {0} /\ start % PageWords \in 0 .. PageWords - 1 /\ start \in Nat
  BY Sizes, OfSpace DEF VA
<1>2. \A k \in 0 .. most - 1 : start + k \in VA /\ PageOf(start + k) = PageOf(start)
  <2> SUFFICES ASSUME NEW k \in 0 .. most - 1
               PROVE  start + k \in VA /\ PageOf(start + k) = PageOf(start)
    OBVIOUS
  <2>1. k \in Nat /\ (start % PageWords) + k < PageWords
    BY <1>1
  <2> QED BY <2>1, SamePage
<1>3. \E m \in 0 .. most : Longest(m)
  <2> DEFINE S == {m \in 0 .. most : m < most => ~ can_inline(code[start + m])}
  <2>1. S \subseteq Nat /\ most \in S
    OBVIOUS
  <2>2. PICK m \in S : \A k \in S : m <= k
    <3> HIDE DEF S
    <3> QED BY <2>1, LeastNatural
  <2>3. ASSUME NEW k \in 0 .. m - 1 PROVE can_inline(code[start + k])
    <3>1. k \in 0 .. most /\ k < most /\ ~ (m <= k)
      BY <2>2
    <3>2. k \notin S
      BY <2>2, <3>1
    <3> QED BY <3>1, <3>2
  <2> QED BY <2>2, <2>3
<1>4. n \in 0 .. most /\ Longest(n)
  <2> HIDE DEF Longest
  <2> QED BY <1>3
<1>5. form_jit_block(start, most, code) = [start |-> start, insns |-> insns]
  BY DEF form_jit_block
<1> HIDE DEF n
<1>6. len \in 0 .. most
  BY <1>4
<1>7. ASSUME NEW k \in 1 .. len
      PROVE  /\ start + k - 1 \in VA /\ PageOf(start + k - 1) = PageOf(start)
             /\ can_inline(code[start + k - 1]) \/ (is_branch(code[start + k - 1]) /\ k = len)
  <2>1. k - 1 \in 0 .. most - 1 /\ start + (k - 1) = start + k - 1
    BY <1>1, <1>6
  <2>2. k - 1 \in 0 .. n - 1 \/ (k - 1 = n /\ k = len /\ is_branch(code[start + n]))
    BY <1>4
  <2>3. start + k - 1 \in VA /\ PageOf(start + k - 1) = PageOf(start)
    BY <1>2, <2>1
  <2>4. can_inline(code[start + (k - 1)]) \/ (is_branch(code[start + (k - 1)]) /\ k = len)
    BY <1>4, <2>2
  <2> QED BY <2>1, <2>3, <2>4
<1> HIDE DEF len
<1>8. insns \in Seq(Insn) /\ Len(insns) = len /\ \A k \in 1 .. len : insns[k] = code[start + k - 1]
  <2>1. \A k \in 1 .. len : code[start + k - 1] \in Insn
    BY <1>7 DEF Code
  <2> QED BY <1>6, <2>1
<1> HIDE DEF insns
<1> DEFINE b == [start |-> start, insns |-> insns]
<1>9. b \in Block /\ b.start = start /\ b.insns = insns
  BY <1>8 DEF Block
<1> HIDE DEF b
<1>10. Translates(b, code)
  BY <1>7, <1>8, <1>9 DEF Translates
<1>11. Len(b.insns) <= most
  BY <1>6, <1>8, <1>9
<1>12. form_jit_block(start, most, code) = b
  BY <1>5 DEF b
<1> QED BY <1>9, <1>10, <1>11, <1>12

(* What is kept of a sequence is in it, and in the set.                     *)
LEMMA WithinKeeps ==
    ASSUME NEW E, NEW seq \in Seq(E), NEW S
    PROVE  Within(seq, S) \in Seq(E \cap S)
<1> DEFINE n == Len(seq)
           X == Seq(E \cap S)
           Next1(s, k) == IF seq[k] \in S THEN Append(s, seq[k]) ELSE s
           Turn(f, k) == IF k = 0 THEN <<>> ELSE Next1(f[k - 1], k)
           step == [x \in X \X (0 + 1 .. n) |-> Next1(x[1], x[2])]
           run == CHOOSE h : h = [k \in 0 .. n |-> Turn(h, k)]
<1>1. <<>> \in X /\ 0 \in Nat /\ n \in Nat /\ 0 <= n
  OBVIOUS
<1>2. \A k \in 0 + 1 .. n : k - 1 \in 0 .. n /\ k # 0 /\ k \in 0 .. n /\ seq[k] \in E
  BY <1>1
<1>3. ASSUME NEW s \in X, NEW k \in 0 + 1 .. n PROVE Next1(s, k) \in X
  <2>1. CASE seq[k] \in S
    <3>1. seq[k] \in E \cap S
      BY <1>2, <2>1
    <3>2. Append(s, seq[k]) \in Seq(E \cap S)
      BY <3>1
    <3> QED BY <2>1, <3>2
  <2>2. CASE seq[k] \notin S
    BY <2>2
  <2> QED BY <2>1, <2>2
<1> HIDE DEF n, X, Next1
<1>4. step \in [X \X (0 + 1 .. n) -> X]
  <2> SUFFICES ASSUME NEW x \in X \X (0 + 1 .. n) PROVE Next1(x[1], x[2]) \in X
    OBVIOUS
  <2>1. x[1] \in X /\ x[2] \in 0 + 1 .. n
    OBVIOUS
  <2> QED BY <2>1, <1>3
<1>5. \A k \in 0 .. n : k # 0 => k \in 0 + 1 .. n
  BY <1>1
<1>6. \A x \in X, k \in 0 + 1 .. n : step[<<x, k>>] = Next1(x, k)
  OBVIOUS
<1> HIDE DEF step
<1>7. PICK f \in [0 .. n -> X] :
         f[0] = <<>> /\ \A k \in 0 + 1 .. n : f[k] = step[<<f[k - 1], k>>]
  <2>1. LoopRuns(0, n, X, <<>>, step) # {}
    BY <1>1, <1>4, LoopHasRun
  <2> QED BY <2>1 DEF LoopRuns
<1>8. Within(seq, S) = run[n]
  BY Zenon DEF Within, n, Next1
<1>9. \A k \in 0 .. n : f[k] = Turn(f, k)
  BY <1>2, <1>5, <1>6, <1>7
<1>10. f = [k \in 0 .. n |-> Turn(f, k)]
  <2> HIDE DEF Turn
  <2> QED BY Zenon, <1>9
<1>11. run = [k \in 0 .. n |-> Turn(run, k)]
  <2> HIDE DEF Turn
  <2> QED BY Zenon, <1>10
<1> HIDE DEF run
<1>12. \A k \in 0 .. n : run[k] = Turn(run, k)
  <2> HIDE DEF Turn
  <2> QED BY Zenon, <1>11
<1> DEFINE Good == {k \in 0 .. n : run[k] \in X}
<1>13. 0 \in Good
  BY <1>1, <1>12
<1>14. ASSUME NEW k \in 0 .. n - 1, k \in Good PROVE k + 1 \in Good
  <2>1. k + 1 \in 0 .. n /\ k + 1 \in 0 + 1 .. n /\ k + 1 # 0 /\ (k + 1) - 1 = k
    BY <1>1
  <2>2. run[k + 1] = Next1(run[k], k + 1)
    BY <1>12, <2>1
  <2> QED BY <1>3, <1>14, <2>1, <2>2
<1>15. 0 .. n \subseteq Good
  <2> HIDE DEF Good
  <2> QED BY <1>1, <1>13, <1>14, Through
<1>16. run[n] \in X
  BY <1>1, <1>15
<1> QED BY <1>8, <1>16 DEF X

LEMMA TargetsType ==
    ASSUME NEW b \in Block, Len(b.insns) # 0
    PROVE  Targets(b) \in Seq(VA)
<1> DEFINE pc == b.start + Len(b.insns) - 1
           i == Last(b.insns)
<1>1. b.start \in VA /\ b.insns \in Seq(Insn) /\ Len(b.insns) \in Nat \ {0}
  BY DEF Block
<1>2. i \in Insn /\ pc \in Int /\ 1 \in Int
  BY <1>1, Sizes DEF Last
<1>3. i.off \in Int
  BY <1>2, GuestAssumption DEF Insn
<1>4. Targets(b) = CASE i.op = "b" -> <<Plus(pc, i.off)>>
                     [] i.op = "cb" -> <<Plus(pc, i.off), Plus(pc, 1)>>
                     [] OTHER -> <<>>
  BY DEF Targets
<1> HIDE DEF pc, i
<1>5. Plus(pc, i.off) \in VA /\ Plus(pc, 1) \in VA
  BY <1>2, <1>3, PlusType
<1>6. <<>> \in Seq(VA) /\ <<Plus(pc, i.off)>> \in Seq(VA) /\ <<Plus(pc, i.off), Plus(pc, 1)>> \in Seq(VA)
  BY <1>5
<1> QED BY <1>4, <1>6

-----------------------------------------------------------------------------
\* A block of the region formed at start.
Parts(start, code) ==
    {b \in Block : /\ Len(b.insns) \in 1 .. MAX_JIT_BLOCK /\ PageOf(b.start) = PageOf(start)
                   /\ Translates(b, code)}

\* What the work loop keeps true of its state.
Forming(start, code) ==
    {s \in [blocks: Seq(Parts(start, code)), work: Seq({a \in VA : PageOf(a) = PageOf(start)})] :
        /\ Len(s.blocks) <= MAX_REGION_BLOCKS
        /\ IsInjective([k \in DOMAIN s.blocks |-> s.blocks[k].start])
        /\ IF s.blocks = <<>> THEN s.work \in {<<>>, <<start>>} ELSE s.blocks[1].start = start}

LEMMA VisitForms ==
    ASSUME NEW start \in VA, NEW code \in Code, NEW s \in Forming(start, code)
    PROVE  Visit(s, code) \in Forming(start, code)
<1> DEFINE P == Parts(start, code)
           W == {a \in VA : PageOf(a) = PageOf(start)}
           pc == Last(s.work)
           rest == Front(s.work)
           b == form_jit_block(pc, BoundOf(pc), code)
           blocks == Append(s.blocks, b)
           more == Within(direct_successors(b), VA \ Starts(blocks))
           t == [s EXCEPT !.work = rest]
           u == [blocks |-> blocks, work |-> rest \o more]
<1>1. /\ s = [blocks |-> s.blocks, work |-> s.work] /\ s.blocks \in Seq(P) /\ s.work \in Seq(W)
      /\ Len(s.blocks) <= MAX_REGION_BLOCKS
      /\ IsInjective([k \in DOMAIN s.blocks |-> s.blocks[k].start])
      /\ IF s.blocks = <<>> THEN s.work \in {<<>>, <<start>>} ELSE s.blocks[1].start = start
  BY DEF Forming
<1>2. Visit(s, code) =
        CASE s.work = <<>> -> s
          [] s.work # <<>> /\ (pc \in Starts(s.blocks) \/ Len(s.blocks) >= MAX_REGION_BLOCKS) -> t
          [] OTHER -> IF b.insns = <<>> THEN t ELSE u
  BY DEF Visit
<1>3. CASE s.work = <<>>
  BY <1>2, <1>3
<1>4. CASE s.work # <<>>
  <2>1. Len(s.work) \in Nat \ {0} /\ pc \in W /\ rest \in Seq(W)
        /\ (s.work = <<start>> => rest = <<>> /\ pc = start)
    <3>1. Len(s.work) \in Nat \ {0}
      BY <1>1, <1>4
    <3>2. pc = s.work[Len(s.work)] /\ rest = SubSeq(s.work, 1, Len(s.work) - 1)
      BY DEF Last, Front
    <3>3. pc \in W
      BY <1>1, <3>1, <3>2
    <3>4. rest \in Seq(W)
      BY <1>1, <3>1, <3>2
    <3>5. s.work = <<start>> => rest = <<>> /\ pc = start
      BY <3>2
    <3> QED BY <3>1, <3>3, <3>4, <3>5
  <2>2. t \in Forming(start, code)
    <3>1. t = [blocks |-> s.blocks, work |-> rest]
      BY <1>1
    <3>2. s.blocks = <<>> => rest = <<>>
      BY <1>1, <1>4, <2>1
    <3> HIDE DEF t, rest, P, W, pc
    <3>3. t.blocks = s.blocks /\ t.work = rest /\ t \in [blocks: Seq(P), work: Seq(W)]
      BY <1>1, <2>1, <3>1
    <3> QED BY <1>1, <3>2, <3>3 DEF Forming, P, W
  <2>3. CASE b.insns # <<>> /\ pc \notin Starts(s.blocks) /\ ~ (Len(s.blocks) >= MAX_REGION_BLOCKS)
    <3>1. pc \in VA /\ PageOf(pc) = PageOf(start)
      BY <2>1
    <3>2. /\ BoundOf(pc) \in Nat /\ BoundOf(pc) <= MAX_JIT_BLOCK
          /\ (pc % PageWords) + BoundOf(pc) <= PageWords
      <4>1. PageWords \in Nat \ {0} /\ pc % PageWords \in 0 .. PageWords - 1 /\ MAX_JIT_BLOCK \in Nat
        BY <3>1, Sizes, OfSpace, JitAssumption DEF VA
      <4> HIDE DEF pc
      <4> QED BY <4>1 DEF BoundOf
    <3> HIDE DEF pc
    <3>3. /\ b \in Block /\ b.start = pc /\ Len(b.insns) <= BoundOf(pc)
          /\ Translates(b, code)
      BY <3>1, <3>2, BlockForms
    <3> HIDE DEF b
    <3>4. Len(b.insns) \in Nat \ {0}
      BY <2>3, <3>3 DEF Block
    <3>5. b \in P
      <4>1. Len(b.insns) \in 1 .. MAX_JIT_BLOCK
        BY <3>2, <3>3, <3>4, JitAssumption
      <4> QED BY <3>1, <3>3, <4>1 DEF Parts
    <3>6. more \in Seq(W)
      <4> DEFINE here == {a \in VA : PageOf(a) = PageOf(b.start)}
                 out == VA \ Starts(blocks)
      <4>1. direct_successors(b) \in Seq(VA \cap here)
        BY <3>3, <3>4, TargetsType, WithinKeeps DEF direct_successors
      <4>2. here = W
        BY <3>1, <3>3
      <4>3. VA \cap W = W
        OBVIOUS
      <4> HIDE DEF here, W, out
      <4>4. direct_successors(b) \in Seq(W)
        BY <4>1, <4>2, <4>3
      <4>5. Within(direct_successors(b), out) \in Seq(W \cap out)
        BY <4>4, WithinKeeps
      <4>6. \A q \in Seq(W \cap out) : q \in Seq(W)
        OBVIOUS
      <4> QED BY <4>5, <4>6 DEF out
    <3> HIDE DEF P, W, more
    <3>7. rest \o more \in Seq(W)
      BY <2>1, <3>6
    <3>8. blocks \in Seq(P) /\ blocks # <<>> /\ Len(blocks) = Len(s.blocks) + 1
      <4>1. s.blocks \in Seq(P) /\ b \in P
        BY <1>1, <3>5
      <4>2. Len(blocks) = Len(s.blocks) + 1 /\ blocks \in Seq(P)
        BY <4>1
      <4>3. Len(blocks) # 0
        BY <4>1, <4>2
      <4> HIDE DEF blocks
      <4> QED BY <4>2, <4>3
    <3>9. Len(s.blocks) \in Nat /\ DOMAIN s.blocks = 1 .. Len(s.blocks)
          /\ DOMAIN blocks = 1 .. Len(s.blocks) + 1
      BY <1>1, <3>8
    <3>10. /\ \A k \in DOMAIN s.blocks : blocks[k] = s.blocks[k]
           /\ blocks[Len(s.blocks) + 1] = b
      BY <1>1, <3>5
    <3>11. Len(blocks) <= MAX_REGION_BLOCKS
      BY <2>3, <3>8, <3>9, JitAssumption
    <3>12. \A k \in DOMAIN s.blocks : s.blocks[k].start # b.start
      <4>1. \A k \in DOMAIN s.blocks : s.blocks[k].start \in Starts(s.blocks)
        BY DEF Starts, ToSet
      <4> QED BY <2>3, <3>3, <4>1
    <3>13. blocks[1].start = start
      <4>1. CASE s.blocks = <<>>
        <5>1. s.work = <<start>> /\ pc = start /\ Len(s.blocks) = 0
          BY <1>1, <1>4, <2>1, <4>1
        <5> QED BY <3>3, <3>10, <5>1
      <4>2. CASE s.blocks # <<>>
        <5>1. 1 \in DOMAIN s.blocks
          BY <1>1, <4>2
        <5> QED BY <1>1, <3>10, <4>2, <5>1
      <4> QED BY <4>1, <4>2
    <3> HIDE DEF blocks
    <3>14. IsInjective([k \in DOMAIN blocks |-> blocks[k].start])
      <4>1. ASSUME NEW j \in DOMAIN blocks, NEW k \in DOMAIN blocks, blocks[j].start = blocks[k].start
            PROVE  j = k
        <5>1. CASE j \in DOMAIN s.blocks /\ k \in DOMAIN s.blocks
          BY <1>1, <3>10, <4>1, <5>1 DEF IsInjective
        <5>2. CASE j \in DOMAIN s.blocks /\ k \notin DOMAIN s.blocks
          <6>1. k = Len(s.blocks) + 1
            BY <3>9, <5>2
          <6> QED BY <3>10, <3>12, <4>1, <5>2, <6>1
        <5>3. CASE j \notin DOMAIN s.blocks /\ k \in DOMAIN s.blocks
          <6>1. j = Len(s.blocks) + 1
            BY <3>9, <5>3
          <6> QED BY <3>10, <3>12, <4>1, <5>3, <6>1
        <5>4. CASE j \notin DOMAIN s.blocks /\ k \notin DOMAIN s.blocks
          BY <3>9, <5>4
        <5> QED BY <5>1, <5>2, <5>3, <5>4
      <4> QED BY <4>1 DEF IsInjective
    <3> HIDE DEF rest
    <3>15. u.blocks = blocks /\ u.work = rest \o more /\ u \in [blocks: Seq(P), work: Seq(W)]
      BY <3>7, <3>8
    <3> HIDE DEF u
    <3>16. u \in Forming(start, code)
      BY <3>8, <3>11, <3>13, <3>14, <3>15 DEF Forming, P, W
    <3>17. Visit(s, code) = u
      BY <1>2, <1>4, <2>3
    <3> QED BY <3>16, <3>17
  <2>4. CASE ~ (b.insns # <<>> /\ pc \notin Starts(s.blocks) /\ ~ (Len(s.blocks) >= MAX_REGION_BLOCKS))
    <3> HIDE DEF t, u, b, pc
    <3>1. Visit(s, code) = t
      BY <1>2, <1>4, <2>4
    <3> QED BY <2>2, <3>1
  <2> QED BY <2>3, <2>4
<1> QED BY <1>3, <1>4

(* form_region: the blocks are sound whatever the code and its loops.       *)
LEMMA RegionForms ==
    ASSUME NEW start \in VA, NEW code \in Code
    PROVE  LET blocks == form_region(start, code)
           IN  /\ blocks \in Seq(Parts(start, code)) /\ Len(blocks) <= MAX_REGION_BLOCKS
               /\ IsInjective([k \in DOMAIN blocks |-> blocks[k].start])
               /\ blocks # <<>> => blocks[1].start = start
<1> DEFINE n == Turns
           X == Forming(start, code)
           first == [blocks |-> <<>>, work |-> <<start>>]
           Turn(f, k) == IF k = 0 THEN first ELSE Visit(f[k - 1], code)
           step == [x \in X \X (0 + 1 .. n) |-> Visit(x[1], code)]
           run == CHOOSE h : h = [k \in 0 .. n |-> Turn(h, k)]
<1>1. 0 \in Nat /\ n \in Nat /\ 0 <= n
  BY JitAssumption DEF Turns
<1>2. first \in X
  <2> DEFINE P == Parts(start, code)
             W == {a \in VA : PageOf(a) = PageOf(start)}
  <2>1. <<>> \in Seq(P) /\ <<start>> \in Seq(W) /\ Len(<<>>) = 0 /\ DOMAIN <<>> = {}
    OBVIOUS
  <2> HIDE DEF P, W
  <2>2. first \in [blocks: Seq(P), work: Seq(W)] /\ first.blocks = <<>> /\ first.work = <<start>>
    BY <2>1
  <2>3. Len(first.blocks) <= MAX_REGION_BLOCKS
    BY <2>1, <2>2, JitAssumption
  <2> HIDE DEF first
  <2>4. IsInjective([k \in DOMAIN first.blocks |-> first.blocks[k].start])
    BY <2>1, <2>2 DEF IsInjective
  <2> QED BY <2>2, <2>3, <2>4 DEF Forming, P, W
<1> HIDE DEF first
<1>3. \A k \in 0 + 1 .. n : k - 1 \in 0 .. n /\ k # 0 /\ k \in 0 .. n
  BY <1>1
<1> HIDE DEF n
<1>4. step \in [X \X (0 + 1 .. n) -> X]
  <2> SUFFICES ASSUME NEW x \in X \X (0 + 1 .. n) PROVE Visit(x[1], code) \in X
    OBVIOUS
  <2>1. x[1] \in X
    OBVIOUS
  <2> QED BY <2>1, VisitForms
<1>5. \A k \in 0 .. n : k # 0 => k \in 0 + 1 .. n
  BY <1>1
<1>6. \A x \in X, k \in 0 + 1 .. n : step[<<x, k>>] = Visit(x, code)
  OBVIOUS
<1> HIDE DEF step
<1>7. PICK f \in [0 .. n -> X] :
         f[0] = first /\ \A k \in 0 + 1 .. n : f[k] = step[<<f[k - 1], k>>]
  <2>1. LoopRuns(0, n, X, first, step) # {}
    <3> HIDE DEF X
    <3> QED BY <1>1, <1>2, <1>4, LoopHasRun
  <2> QED BY <2>1 DEF LoopRuns
<1>8. form_region(start, code) = run[n].blocks
  BY Zenon DEF form_region, n, first
<1>9. \A k \in 0 .. n : f[k] = Turn(f, k)
  <2> HIDE DEF X
  <2> QED BY <1>3, <1>5, <1>6, <1>7
<1>10. f = [k \in 0 .. n |-> Turn(f, k)]
  <2> HIDE DEF Turn, X
  <2> QED BY Zenon, <1>9
<1>11. run = [k \in 0 .. n |-> Turn(run, k)]
  <2> HIDE DEF Turn
  <2> QED BY Zenon, <1>10
<1> HIDE DEF run, X
<1>12. \A k \in 0 .. n : run[k] = Turn(run, k)
  <2> HIDE DEF Turn
  <2> QED BY Zenon, <1>11
<1> DEFINE Good == {k \in 0 .. n : run[k] \in X}
<1>13. 0 \in Good
  BY <1>1, <1>2, <1>12
<1>14. ASSUME NEW k \in 0 .. n - 1, k \in Good PROVE k + 1 \in Good
  <2>1. k + 1 \in 0 .. n /\ k + 1 # 0 /\ (k + 1) - 1 = k
    BY <1>1
  <2>2. run[k + 1] = Visit(run[k], code)
    BY <1>12, <2>1
  <2>3. run[k + 1] \in X
    BY <1>14, <2>2, VisitForms DEF X
  <2> QED BY <2>1, <2>3
<1>15. 0 .. n \subseteq Good
  <2> HIDE DEF Good
  <2> QED BY <1>1, <1>13, <1>14, Through
<1>16. run[n] \in Forming(start, code)
  BY <1>1, <1>15 DEF X
<1> DEFINE blocks == run[n].blocks
<1>17. /\ blocks \in Seq(Parts(start, code)) /\ Len(blocks) <= MAX_REGION_BLOCKS
       /\ IsInjective([k \in DOMAIN blocks |-> blocks[k].start])
       /\ blocks # <<>> => blocks[1].start = start
  BY <1>16 DEF Forming
<1> QED BY <1>8, <1>17

\* Each instruction of the region satisfies what its place in the page promises.
HoldsWords(blocks, base, words) ==
    \A n \in DOMAIN blocks : \A k \in 1 .. Len(blocks[n].insns) :
        /\ blocks[n].start + k - 1 \in VA
        /\ PageOf(blocks[n].start + k - 1) = PageOf(blocks[n].start)
        /\ blocks[n].insns[k] \in words[base + ((blocks[n].start + k - 1) % PageWords)]

(* What is compiled at pc from pa fits, and is what memory holds there.     *)
LEMMA CompiledFits ==
    ASSUME mem \in [PA -> Insn], NEW pc \in VA, NEW pa \in PA,
           form_jit_region(pc, pa) # <<>>
    PROVE  LET e == Hot(pc, form_jit_region(pc, pa))
           IN  /\ e \in [kind: {"hot"}, entry: VA, blocks: Seq(Block)] /\ RegionOK(e)
               /\ HoldsWords(e.blocks, PageBase(pa), [a \in PA |-> {mem[a]}])
<1> DEFINE code == [va \in VA |-> mem[PageBase(pa) + (va % PageWords)]]
           blocks == form_region(pc, code)
           e == Hot(pc, blocks)
<1>1. \A va \in VA : PageBase(pa) + (va % PageWords) \in PA
  <2> SUFFICES ASSUME NEW va \in VA PROVE PageBase(pa) + (va % PageWords) \in PA
    OBVIOUS
  <2>1. va % PageWords \in 0 .. PageWords - 1
    BY Sizes, OfSpace DEF VA
  <2> QED BY <2>1, InPage
<1>2. code \in Code
  BY <1>1 DEF Code
<1>3. form_jit_region(pc, pa) = blocks
  BY DEF form_jit_region, PageBase
<1>4. /\ blocks \in Seq(Parts(pc, code)) /\ Len(blocks) <= MAX_REGION_BLOCKS
      /\ IsInjective([k \in DOMAIN blocks |-> blocks[k].start])
      /\ blocks[1].start = pc
  <2> HIDE DEF code
  <2> QED BY <1>2, <1>3, RegionForms
<1>5. \A va \in VA : /\ code[va] = mem[PageBase(pa) + (va % PageWords)]
                     /\ code[va] \in [a \in PA |-> {mem[a]}][PageBase(pa) + (va % PageWords)]
  BY <1>1
<1> HIDE DEF code
<1> HIDE DEF blocks
<1>6. e.kind = "hot" /\ e.entry = pc /\ e.blocks = blocks
      /\ e = [kind |-> "hot", entry |-> pc, blocks |-> blocks]
  BY DEF Hot
<1>7. blocks \in Seq(Block) /\ DOMAIN blocks = 1 .. Len(blocks) /\ Len(blocks) \in Nat \ {0}
  <2>1. Parts(pc, code) \subseteq Block
    BY DEF Parts
  <2> HIDE DEF e
  <2>2. blocks \in Seq(Block) /\ Len(blocks) \in Nat
    BY <1>4, <2>1
  <2> QED BY <1>3, <1>4, <2>2
<1> HIDE DEF e
<1>8. e \in [kind: {"hot"}, entry: VA, blocks: Seq(Block)]
  BY <1>6, <1>7
<1>9. ASSUME NEW b \in Parts(pc, code)
      PROVE  /\ Len(b.insns) \in 1 .. MAX_JIT_BLOCK
             /\ PageOf(b.start) = PageOf(pc)
             /\ PageOf(b.start + Len(b.insns) - 1) = PageOf(pc)
             /\ can_inline(Last(b.insns)) \/ is_branch(Last(b.insns))
             /\ \A k \in 1 .. Len(b.insns) - 1 : can_inline(b.insns[k])
  <2>1. Len(b.insns) \in 1 .. MAX_JIT_BLOCK /\ PageOf(b.start) = PageOf(pc) /\ Translates(b, code)
    BY DEF Parts
  <2> DEFINE m == Len(b.insns)
  <2>2. m \in 1 .. m /\ \A k \in 1 .. m - 1 : k \in 1 .. m /\ k # m
    BY <2>1, JitAssumption
  <2> HIDE DEF m
  <2>3. \A k \in 1 .. m : /\ PageOf(b.start + k - 1) = PageOf(pc)
                          /\ can_inline(b.insns[k]) \/ (is_branch(b.insns[k]) /\ k = m)
    BY <2>1 DEF Translates, m
  <2>4. can_inline(b.insns[m]) \/ is_branch(b.insns[m])
    BY <2>2, <2>3
  <2>5. PageOf(b.start + m - 1) = PageOf(pc)
    BY <2>2, <2>3
  <2>6. \A k \in 1 .. m - 1 : can_inline(b.insns[k])
    BY <2>2, <2>3
  <2> QED BY <2>1, <2>4, <2>5, <2>6 DEF m, Last
<1>10. \A n \in DOMAIN blocks : blocks[n] \in Parts(pc, code)
  BY <1>4
<1>11. RegionOK(e)
  <2>1. Len(e.blocks) \in 1 .. MAX_REGION_BLOCKS
    BY <1>4, <1>6, <1>7, JitAssumption
  <2>2. \A b \in ToSet(e.blocks) : b \in Parts(pc, code)
    BY <1>6, <1>10 DEF ToSet
  <2> QED BY <1>4, <1>6, <1>9, <2>1, <2>2 DEF RegionOK
<1>12. HoldsWords(blocks, PageBase(pa), [a \in PA |-> {mem[a]}])
  <2> SUFFICES ASSUME NEW n \in DOMAIN blocks, NEW k \in 1 .. Len(blocks[n].insns)
               PROVE  /\ blocks[n].start + k - 1 \in VA
                      /\ PageOf(blocks[n].start + k - 1) = PageOf(blocks[n].start)
                      /\ blocks[n].insns[k]
                           \in [a \in PA |-> {mem[a]}]
                                 [PageBase(pa) + ((blocks[n].start + k - 1) % PageWords)]
    BY DEF HoldsWords
  <2>1. Translates(blocks[n], code)
    BY <1>10 DEF Parts
  <2>2. /\ blocks[n].start + k - 1 \in VA
        /\ PageOf(blocks[n].start + k - 1) = PageOf(blocks[n].start)
        /\ blocks[n].insns[k] = code[blocks[n].start + k - 1]
    BY <2>1 DEF Translates
  <2> QED BY <1>5, <2>2
<1> QED BY <1>3, <1>6, <1>8, <1>11, <1>12 DEF e

-----------------------------------------------------------------------------
(* What an instruction leaves of the guest *)

GuestTyped == cpu \in Cpu /\ mem \in [PA -> Insn] /\ old \in [PA -> SUBSET Insn] /\ map \in Maps

LEMMA Addresses == /\ \A a \in VA, d \in Int : Plus(a, d) \in VA
                   /\ \A o \in Offsets : o \in Int
                   /\ 0 \in VA /\ Vector \in VA
<1>1. NumVPages * PageWords \in Nat \ {0}
  BY Sizes
<1> DEFINE T == NumVPages * PageWords
<1>2. 0 \in 0 .. T - 1
  <2> HIDE DEF T
  <2> QED BY <1>1 DEF T
<1>3. 0 \in VA
  BY <1>2 DEF VA
<1> QED BY <1>3, Sizes, PlusType, GuestAssumption

LEMMA TrapType == ASSUME NEW c \in Cpu PROVE Trap(c) \in Cpu
BY Addresses DEF Trap, Cpu

LEMMA AfterType == ASSUME NEW c \in Cpu, NEW i \in Insn PROVE After(c, i) \in Cpu
<1>1. c.pc \in VA /\ c.flag \in BOOLEAN /\ c.lr \in VA /\ c.elr \in VA /\ c.spsr \in BOOLEAN
      /\ i.off \in Int /\ i.op \in Ops /\ 1 \in Int
  BY Addresses DEF Cpu, Insn
<1>2. Plus(c.pc, 1) \in VA /\ Plus(c.pc, i.off) \in VA
      /\ Plus(c.pc, IF c.flag THEN i.off ELSE 1) \in VA
  BY <1>1, Addresses
<1>3. CASE i.op = "op"
  <2>1. After(c, i) = [c EXCEPT !.pc = Plus(c.pc, 1), !.flag = ~ @]
    BY <1>3 DEF After
  <2>2. (~ c.flag) \in BOOLEAN
    OBVIOUS
  <2> QED BY <1>2, <2>1, <2>2 DEF Cpu
<1>4. CASE i.op = "und"
  <2>1. After(c, i) = Trap(c)
    BY <1>4 DEF After
  <2> QED BY <2>1, TrapType
<1>5. CASE i.op \notin {"op", "und"}
  <2>1. \/ After(c, i) = [c EXCEPT !.pc = Plus(c.pc, i.off)]
        \/ After(c, i) = [c EXCEPT !.pc = Plus(c.pc, IF c.flag THEN i.off ELSE 1)]
        \/ After(c, i) = [c EXCEPT !.pc = Plus(c.pc, i.off), !.lr = Plus(c.pc, 1)]
        \/ After(c, i) = [c EXCEPT !.pc = c.lr, !.lr = Plus(c.pc, 1)]
        \/ After(c, i) = [c EXCEPT !.pc = c.lr]
        \/ After(c, i) = [c EXCEPT !.pc = c.elr, !.flag = c.spsr, !.masked = FALSE]
        \/ After(c, i) = [c EXCEPT !.pc = Plus(c.pc, 1)]
    BY <1>1, <1>5 DEF After, Ops
  <2> QED BY <1>1, <1>2, <2>1 DEF Cpu
<1> QED BY <1>3, <1>4, <1>5

LEMMA StoreTyped ==
    ASSUME mem \in [PA -> Insn], old \in [PA -> SUBSET Insn], StoreEffect
    PROVE  /\ mem' \in [PA -> Insn] /\ old' \in [PA -> SUBSET Insn]
           /\ \A a \in PA : /\ old[a] \subseteq old'[a] /\ mem'[a] \in old'[a]
                            /\ old'[a] \subseteq old[a] \cup {mem[a]} \cup Patches[a]
<1>1. PICK m \in {mem} \cup UNION {{[mem EXCEPT ![a] = i] : i \in Patches[a]} : a \in PA} :
         mem' = m /\ old' = [a \in PA |-> old[a] \cup {m[a]}]
  BY DEF StoreEffect
<1>2. m \in [PA -> Insn] /\ \A a \in PA : m[a] \in {mem[a]} \cup Patches[a]
  <2>1. CASE m = mem
    BY <2>1
  <2>2. CASE m # mem
    <3>1. PICK a \in PA : m \in {[mem EXCEPT ![a] = i] : i \in Patches[a]}
      BY <2>2
    <3>2. PICK i \in Patches[a] : m = [mem EXCEPT ![a] = i]
      BY <3>1
    <3>3. i \in Insn
      BY GuestAssumption
    <3> QED BY <3>2, <3>3
  <2> QED BY <2>1, <2>2
<1> QED BY <1>1, <1>2

LEMMA PerformTyped ==
    ASSUME GuestTyped, NEW i \in Insn, Perform(i)
    PROVE  GuestTyped'
<1>1. After(cpu, i) \in Cpu /\ Trap(cpu) \in Cpu
  BY AfterType, TrapType DEF GuestTyped
<1>2. CASE Sequential(i)
  BY <1>1, <1>2 DEF Sequential, GuestTyped
<1>3. CASE Store(i)
  <2>1. mem' \in [PA -> Insn] /\ old' \in [PA -> SUBSET Insn]
    BY <1>3, StoreTyped DEF Store, GuestTyped
  <2> QED BY <1>1, <1>3, <2>1 DEF Store, GuestTyped
<1>4. CASE StoreAborts(i)
  BY <1>1, <1>4 DEF StoreAborts, GuestTyped
<1>5. CASE Ic(i)
  <2>1. old' \in [PA -> SUBSET Insn]
    BY <1>5 DEF Ic, GuestTyped
  <2> QED BY <1>1, <1>5, <2>1 DEF Ic, GuestTyped
<1>6. CASE Remap(i)
  BY <1>1, <1>6 DEF Remap, GuestTyped
<1> QED BY <1>2, <1>3, <1>4, <1>5, <1>6 DEF Perform

LEMMA TrapTyped ==
    ASSUME GuestTyped, FetchAborts \/ Irq
    PROVE  GuestTyped'
BY TrapType DEF GuestTyped, FetchAborts, Irq

-----------------------------------------------------------------------------
(* The organizer's invariant *)

\* What one call of compiled code retires at most.
AtMost == MAX_REGION_ITERS * MAX_JIT_BLOCK

\* Inside a block: what has been retired is what the counters of the region and
\* the place in the block say, and each turn of the dispatch loop retires one
\* block at most.
BlockOK ==
    place = "block" =>
        /\ RegionOK(block)
        /\ owed = block.rcount + (IF block.i = 0 THEN 0 ELSE block.i - 1) /\ unit = owed
        /\ executed < Count
        /\ IF Loops(block.blocks)
           THEN /\ block.riters <= MAX_REGION_ITERS
                /\ IF block.i = 0 THEN block.rcount <= block.riters * MAX_JIT_BLOCK
                   ELSE block.riters >= 1 /\ block.rcount <= (block.riters - 1) * MAX_JIT_BLOCK
           ELSE block.rcount = 0 /\ block.i # 0

\* Outside one: nothing is owed, and one instruction may still be interpreted.
OutOK ==
    /\ place # "block" => owed = 0
    /\ place = "step" => unit = 0 /\ executed < Count
    /\ place = "interp" => unit <= AtMost /\ executed < Count + AtMost

IInv == TypeOK /\ RegionsFit /\ BlockOK /\ OutOK /\ UnitBounded

LEMMA Bounds == /\ AtMost \in Nat \ {0} /\ MAX_JIT_BLOCK <= AtMost
                /\ Count \in Nat \ {0} /\ MAX_JIT_BLOCK \in Nat \ {0} /\ MAX_REGION_ITERS \in Nat \ {0}
                /\ \A n \in Nat : n <= MAX_REGION_ITERS => n * MAX_JIT_BLOCK <= AtMost
<1>1. \A a, b, c \in Nat : a <= b => a * c <= b * c
  OBVIOUS
<1>2. \A a, b \in Nat \ {0} : a * b \in Nat \ {0} /\ b <= a * b
  OBVIOUS
<1> QED BY <1>1, <1>2, JitAssumption DEF AtMost

(* Where a running region is.                                               *)
LEMMA Running ==
    ASSUME IInv, place = "block"
    PROVE  /\ block \in Region /\ block # None /\ Cur \in Block /\ block.ridx \in 1 .. Len(block.blocks)
           /\ Len(block.blocks) \in Nat \ {0}
           /\ Len(Cur.insns) \in 1 .. MAX_JIT_BLOCK /\ block.i \in 0 .. Len(Cur.insns) + 1
           /\ PageOf(Cur.start) = PageOf(block.entry)
           /\ \A k \in 1 .. Len(Cur.insns) - 1 : can_inline(Cur.insns[k])
           /\ block.rcount \in Nat /\ AtVa \in Int /\ \A a \in Int : Rel(a) \in VA
           /\ block.i = 0 => owed = block.rcount
           /\ block.i # 0 => /\ owed = block.rcount + block.i - 1
                             /\ block.rcount + Len(Cur.insns) <= AtMost
           /\ owed <= AtMost /\ unit = owed
<1>1. block \in Region /\ block # None /\ block.ridx \in DOMAIN block.blocks
      /\ block.i \in 0 .. Len(Cur.insns) + 1
  BY DEF IInv, TypeOK
<1>2. /\ block.blocks \in Seq(Block) /\ block.pc0 \in VA /\ block.entry \in VA /\ block.i \in Nat
      /\ block.rcount \in Nat /\ block.riters \in Nat
  BY <1>1 DEF Region
<1>3. Cur \in Block /\ Cur \in ToSet(block.blocks) /\ block.ridx \in 1 .. Len(block.blocks)
      /\ Len(block.blocks) \in Nat \ {0}
  BY <1>1, <1>2 DEF Cur, ToSet
<1>4. Cur.start \in VA
  BY <1>3 DEF Block
<1>5. RegionOK(block)
  BY DEF IInv, BlockOK
<1>6. /\ Len(Cur.insns) \in 1 .. MAX_JIT_BLOCK /\ PageOf(Cur.start) = PageOf(block.entry)
      /\ \A k \in 1 .. Len(Cur.insns) - 1 : can_inline(Cur.insns[k])
  BY <1>3, <1>5 DEF RegionOK
<1>7. AtVa \in Int
  BY <1>2, <1>4, Sizes DEF AtVa
<1>8. \A a \in Int : Rel(a) \in VA
  <2> SUFFICES ASSUME NEW a \in Int PROVE Rel(a) \in VA
    OBVIOUS
  <2>1. block.pc0 \in VA /\ a - block.entry \in Int
    BY <1>2, Sizes
  <2> QED BY <2>1, Addresses DEF Rel
<1> DEFINE c == block.rcount
           m == Len(Cur.insns)
           t == block.riters
<1>9. /\ owed = c + (IF block.i = 0 THEN 0 ELSE block.i - 1) /\ unit = owed
      /\ IF Loops(block.blocks)
         THEN /\ t <= MAX_REGION_ITERS
              /\ IF block.i = 0 THEN c <= t * MAX_JIT_BLOCK
                 ELSE t >= 1 /\ c <= (t - 1) * MAX_JIT_BLOCK
         ELSE c = 0 /\ block.i # 0
  BY DEF IInv, BlockOK
<1>10. c \in Nat /\ t \in Nat /\ m \in 1 .. MAX_JIT_BLOCK /\ block.i \in 0 .. m + 1
  BY <1>1, <1>2, <1>6
<1> HIDE DEF c, m, t
<1>11. t * MAX_JIT_BLOCK \in Nat /\ (t <= MAX_REGION_ITERS => t * MAX_JIT_BLOCK <= AtMost)
       /\ (t - 1) * MAX_JIT_BLOCK + MAX_JIT_BLOCK = t * MAX_JIT_BLOCK
       /\ (t - 1) * MAX_JIT_BLOCK \in Int
  BY <1>10, Bounds
<1>12. block.i # 0 => c + m <= AtMost
  BY <1>9, <1>10, <1>11, Bounds
<1>13. block.i = 0 => c <= AtMost
  BY <1>9, <1>10, <1>11, Bounds
<1>14. /\ block.i = 0 => owed = c
       /\ block.i # 0 => owed = c + block.i - 1
  BY <1>9, <1>10
<1>15. owed <= AtMost
  BY <1>10, <1>12, <1>13, <1>14, Bounds
<1> QED BY <1>1, <1>3, <1>6, <1>7, <1>8, <1>9, <1>10, <1>12, <1>14, <1>15 DEF c, m

(* RegionOK of two calls of the same region.                                *)
LEMMA SameRegion ==
    ASSUME NEW d, NEW e, RegionOK(d), e.blocks = d.blocks, e.entry = d.entry
    PROVE  RegionOK(e)
BY DEF RegionOK

LEMMA InitInv == ASSUME Init PROVE IInv
<1>1. GuestTyped
  BY Addresses, GuestAssumption DEF Init, GuestInit, GuestTyped, Cpu
<1>2. TypeOK
  BY <1>1 DEF Init, TypeOK, GuestTyped, Places
<1>3. RegionsFit
  BY DEF Init, RegionsFit
<1> QED BY <1>2, <1>3, Bounds DEF IInv, Init, BlockOK, OutOK, UnitBounded, AtMost

(* The steps of the loop that leave the cache and the blocks alone.         *)
LEMMA LoopInv ==
    ASSUME IInv, EnterRun \/ StopCount \/ Service \/ JitStepUnmapped
    PROVE  IInv'
<1>1. GuestTyped' /\ place # "block" /\ place' # "block" /\ place' \in Places
      /\ mode' \in {"jit", "interp"}
      /\ UNCHANGED <<cache, ic_inval, nzcv, block, owed>>
  <2>1. GuestTyped
    BY DEF IInv, TypeOK, GuestTyped
  <2>2. CASE EnterRun
    BY <2>1, <2>2 DEF EnterRun, GuestTyped, guest, Places, IInv, TypeOK
  <2>3. CASE StopCount
    BY <2>1, <2>3 DEF StopCount, GuestTyped, guest, Places, IInv, TypeOK
  <2>4. CASE Service
    <3>1. GuestTyped'
      <4>1. CASE Irq
        BY <2>1, <4>1, TrapTyped
      <4>2. CASE UNCHANGED guest
        BY <2>1, <4>2 DEF guest, GuestTyped
      <4> QED BY <2>4, <4>1, <4>2 DEF Service
    <3> QED BY <2>4, <3>1 DEF Service, Places, IInv, TypeOK
  <2>5. CASE JitStepUnmapped
    BY <2>1, <2>5 DEF JitStepUnmapped, GuestTyped, guest, Places, IInv, TypeOK
  <2> QED BY <2>2, <2>3, <2>4, <2>5
<1>2. block = None /\ owed = 0 /\ executed \in Nat /\ unit \in Nat
  BY <1>1 DEF IInv, TypeOK, OutOK
<1>3. executed' \in Nat /\ unit' \in Nat /\ UnitBounded' /\ (place' = "step" => unit' = 0 /\ executed' < Count)
      /\ (place' = "interp" => unit' <= AtMost /\ executed' < Count + AtMost)
  <2>1. UnitBounded /\ OutOK
    BY DEF IInv
  <2>2. CASE EnterRun
    BY <1>2, <2>1, <2>2, Bounds DEF EnterRun, UnitBounded, AtMost
  <2>3. CASE StopCount
    BY <1>2, <2>1, <2>3, Bounds DEF StopCount, UnitBounded, AtMost
  <2>4. CASE Service
    BY <1>2, <2>1, <2>4, Bounds DEF Service, UnitBounded, AtMost
  <2>5. CASE JitStepUnmapped
    BY <1>2, <2>1, <2>5, Bounds DEF JitStepUnmapped, UnitBounded, OutOK, AtMost
  <2> QED BY <2>2, <2>3, <2>4, <2>5
<1>4. TypeOK'
  BY <1>1, <1>2, <1>3 DEF IInv, TypeOK, GuestTyped
<1>5. RegionsFit'
  BY <1>1 DEF IInv, RegionsFit
<1> QED BY <1>1, <1>2, <1>3, <1>4, <1>5 DEF IInv, BlockOK, OutOK

LEMMA InterpretInv == ASSUME IInv, Interpret PROVE IInv'
<1>1. GuestTyped
  BY DEF IInv, TypeOK, GuestTyped
<1>2. GuestTyped' /\ ic_inval' \in BOOLEAN
  <2>1. CASE Mapped(cpu.pc) /\ Perform(mem[PaOf(cpu.pc)])
             /\ ic_inval' = (ic_inval \/ mem[PaOf(cpu.pc)].op = "ic")
    <3>1. PaOf(cpu.pc) \in PA
      BY <1>1, <2>1, PaOfType DEF GuestTyped, Cpu
    <3>2. mem[PaOf(cpu.pc)] \in Insn
      BY <1>1, <3>1 DEF GuestTyped
    <3> QED BY <1>1, <2>1, <3>2, PerformTyped
  <2>2. CASE FetchAborts /\ UNCHANGED ic_inval
    <3>1. ic_inval' \in BOOLEAN
      BY <2>2 DEF IInv, TypeOK
    <3> QED BY <1>1, <2>2, <3>1, TrapTyped
  <2> QED BY <2>1, <2>2 DEF Interpret
<1>3. /\ place = "interp" /\ place' = "tail" /\ executed' = executed + 1 /\ unit' = unit + 1
      /\ UNCHANGED <<mode, cache, nzcv, block, owed>>
  BY DEF Interpret
<1>4. unit <= AtMost /\ executed < Count + AtMost /\ executed \in Nat /\ unit \in Nat /\ block = None
      /\ owed = 0
  BY <1>3 DEF IInv, TypeOK, OutOK
<1>5. UnitBounded' /\ executed' \in Nat /\ unit' \in Nat
  BY <1>3, <1>4, Bounds DEF UnitBounded, AtMost
<1>6. TypeOK'
  BY <1>2, <1>3, <1>4, <1>5 DEF IInv, TypeOK, GuestTyped, Places
<1>7. RegionsFit'
  BY <1>3 DEF IInv, RegionsFit
<1> QED BY <1>3, <1>4, <1>5, <1>6, <1>7 DEF IInv, BlockOK, OutOK

LEMMA EndUnitInv == ASSUME IInv, EndUnit PROVE IInv'
<1>1. /\ place = "tail" /\ place' = "top"
      /\ UNCHANGED <<cpu, mem, old, map, mode, executed, nzcv, block, owed, unit>>
      /\ ic_inval' \in BOOLEAN
      /\ cache' = cache \/ cache' = [a \in PA |-> None]
  BY DEF EndUnit, guest, IInv, TypeOK
<1>2. TypeOK'
  BY <1>1 DEF IInv, TypeOK, Places
<1>3. RegionsFit'
  BY <1>1 DEF IInv, RegionsFit
<1>4. UnitBounded'
  BY <1>1 DEF IInv, UnitBounded
<1> QED BY <1>1, <1>2, <1>3, <1>4 DEF IInv, BlockOK, OutOK

(* jit_step: what the entry becomes is an entry, and a region that fits.    *)
LEMMA WarmedFits ==
    ASSUME IInv, NEW pc \in VA, NEW pa \in PA
    PROVE  LET e == Warmed(cache[pa], pc, pa)
           IN  /\ e \in JitBlock
               /\ e.kind = "hot" => /\ RegionOK(e) /\ e.entry \in VA /\ e.blocks \in Seq(Block)
                                    /\ \/ e = cache[pa]
                                       \/ e.entry = pc /\ HoldsWords(e.blocks, PageBase(pa),
                                                                     [a \in PA |-> {mem[a]}])
<1> DEFINE c == cache[pa]
           e == Warmed(c, pc, pa)
           blocks == form_jit_region(pc, pa)
           h == Hot(pc, blocks)
<1>1. c \in JitBlock \cup {None} /\ None \notin JitBlock /\ mem \in [PA -> Insn]
  BY NoneAssumption DEF IInv, TypeOK
<1>2. e = CASE c = None -> Cold(1)
            [] c # None /\ c.kind = "cold" ->
                 IF c.count + 1 < JIT_HOTNESS THEN Cold(c.count + 1)
                 ELSE IF blocks = <<>> THEN Plain ELSE h
            [] OTHER -> c
  BY DEF Warmed
<1>3. c # None /\ c.kind = "hot" => RegionOK(c) /\ c.entry \in VA /\ c.blocks \in Seq(Block)
  <2> SUFFICES ASSUME c # None, c.kind = "hot"
               PROVE  RegionOK(c) /\ c.entry \in VA /\ c.blocks \in Seq(Block)
    OBVIOUS
  <2>1. RegionOK(c)
    BY DEF IInv, RegionsFit
  <2>2. c \in [kind: {"hot"}, entry: VA, blocks: Seq(Block)]
    BY <1>1 DEF JitBlock, Plain
  <2> HIDE DEF c
  <2>3. c.entry \in VA /\ c.blocks \in Seq(Block)
    BY <2>2
  <2> QED BY <2>1, <2>3
<1>4. blocks # <<>> => /\ h \in [kind: {"hot"}, entry: VA, blocks: Seq(Block)] /\ RegionOK(h)
                       /\ HoldsWords(h.blocks, PageBase(pa), [a \in PA |-> {mem[a]}])
                       /\ h.entry = pc /\ h.entry \in VA /\ h.blocks \in Seq(Block)
  <2> SUFFICES ASSUME blocks # <<>>
               PROVE  /\ h \in [kind: {"hot"}, entry: VA, blocks: Seq(Block)] /\ RegionOK(h)
                      /\ HoldsWords(h.blocks, PageBase(pa), [a \in PA |-> {mem[a]}])
                      /\ h.entry = pc /\ h.entry \in VA /\ h.blocks \in Seq(Block)
    OBVIOUS
  <2>1. /\ h \in [kind: {"hot"}, entry: VA, blocks: Seq(Block)] /\ RegionOK(h)
        /\ HoldsWords(h.blocks, PageBase(pa), [a \in PA |-> {mem[a]}])
    BY <1>1, CompiledFits
  <2>2. h.entry = pc
    BY DEF Hot
  <2> HIDE DEF h
  <2>3. h.entry \in VA /\ h.blocks \in Seq(Block)
    BY <2>1
  <2> QED BY <2>1, <2>2, <2>3
<1>5. \A n \in Nat : /\ (n \in 1 .. JIT_HOTNESS - 1 => Cold(n) \in JitBlock)
                     /\ Cold(n).kind = "cold"
  BY DEF Cold, JitBlock
<1>6. Plain \in JitBlock /\ Plain.kind = "plain"
  BY DEF JitBlock, Plain
<1>7. h \in [kind: {"hot"}, entry: VA, blocks: Seq(Block)] => h \in JitBlock
  BY DEF JitBlock
<1> HIDE DEF e, h, blocks
<1>8. CASE c = None
  <2>1. 1 \in Nat /\ 1 \in 1 .. JIT_HOTNESS - 1 /\ e = Cold(1)
    BY <1>2, <1>8, JitAssumption
  <2>2. e \in JitBlock /\ e.kind = "cold"
    BY <1>5, <2>1
  <2> QED BY <2>2 DEF e
<1>9. CASE c # None /\ c.kind = "cold"
  <2>1. c.count \in Nat /\ c.count + 1 \in Nat /\ 1 <= c.count + 1
    <3>1. c \in [kind: {"cold"}, count: 1 .. JIT_HOTNESS - 1]
      BY <1>1, <1>9 DEF JitBlock, Plain
    <3> HIDE DEF c
    <3>2. c.count \in 1 .. JIT_HOTNESS - 1
      BY <3>1
    <3> QED BY <3>2, JitAssumption
  <2>2. CASE c.count + 1 < JIT_HOTNESS
    <3>1. c.count + 1 \in 1 .. JIT_HOTNESS - 1
      BY <2>1, <2>2, JitAssumption
    <3>2. e = Cold(c.count + 1)
      BY <1>2, <1>9, <2>2
    <3>3. e \in JitBlock /\ e.kind = "cold"
      BY <1>5, <2>1, <3>1, <3>2
    <3> QED BY <3>3 DEF e
  <2>3. CASE ~ (c.count + 1 < JIT_HOTNESS) /\ blocks = <<>>
    <3>1. e = Plain
      BY <1>2, <1>9, <2>3
    <3> QED BY <1>6, <3>1 DEF e
  <2>4. CASE ~ (c.count + 1 < JIT_HOTNESS) /\ blocks # <<>>
    <3>1. e = h
      BY <1>2, <1>9, <2>4
    <3> QED BY <1>4, <1>7, <2>4, <3>1 DEF e
  <2> QED BY <2>2, <2>3, <2>4
<1>10. CASE c # None /\ c.kind # "cold"
  <2>1. e = c
    BY <1>2, <1>10
  <2> QED BY <1>1, <1>3, <1>10, <2>1 DEF e
<1> QED BY <1>8, <1>9, <1>10

LEMMA JitStepInv == ASSUME IInv, JitStep PROVE IInv'
<1> DEFINE pa == PaOf(cpu.pc)
           e == Warmed(cache[pa], cpu.pc, pa)
<1>1. GuestTyped /\ cpu.pc \in VA /\ Mapped(cpu.pc)
  BY DEF JitStep, IInv, TypeOK, GuestTyped, Cpu
<1>2. pa \in PA
  BY <1>1, PaOfType DEF GuestTyped
<1> HIDE DEF pa
<1>3. /\ e \in JitBlock
      /\ e.kind = "hot" => RegionOK(e) /\ e.entry \in VA /\ e.blocks \in Seq(Block)
  BY <1>1, <1>2, WarmedFits
<1>4. /\ cache' = [cache EXCEPT ![pa] = e]
      /\ \/ e.kind = "hot" /\ place' = "block" /\ block' = Call(e) /\ nzcv' = cpu.flag
         \/ e.kind # "hot" /\ place' = "interp" /\ UNCHANGED <<block, nzcv>>
      /\ UNCHANGED <<cpu, mem, old, map, mode, executed, ic_inval, owed, unit>>
      /\ place = "step"
  BY DEF JitStep, pa, guest
<1> HIDE DEF e
<1>5. /\ cache' \in [PA -> JitBlock \cup {None}]
      /\ cache' = [a \in PA |-> IF a = pa THEN e ELSE cache[a]]
  BY <1>2, <1>3, <1>4 DEF IInv, TypeOK
<1>6. RegionsFit'
  <2>1. ASSUME NEW a \in PA, cache'[a] # None, cache'[a].kind = "hot" PROVE RegionOK(cache'[a])
    <3>1. CASE a = pa
      BY <1>3, <1>5, <2>1, <3>1
    <3>2. CASE a # pa
      BY <1>5, <2>1, <3>2 DEF IInv, RegionsFit
    <3> QED BY <3>1, <3>2
  <2> QED BY <2>1 DEF RegionsFit
<1>7. /\ block = None /\ owed = 0 /\ unit = 0 /\ executed < Count /\ executed \in Nat
      /\ owed' = 0 /\ unit' = 0 /\ executed' < Count /\ executed' \in Nat
  BY <1>4 DEF IInv, TypeOK, OutOK
<1>8. UnitBounded'
  BY <1>7, Bounds DEF UnitBounded, AtMost
<1>9. /\ cpu' \in Cpu /\ mem' \in [PA -> Insn] /\ old' \in [PA -> SUBSET Insn] /\ map' \in Maps
      /\ mode' \in {"jit", "interp"} /\ ic_inval' \in BOOLEAN
  BY <1>4 DEF IInv, TypeOK
<1>10. CASE e.kind # "hot"
  <2>1. place' = "interp" /\ block' = None /\ nzcv' \in BOOLEAN
    BY <1>4, <1>7, <1>10 DEF IInv, TypeOK
  <2>2. TypeOK'
    BY <1>5, <1>7, <1>9, <2>1 DEF TypeOK, Places
  <2>3. OutOK'
    BY <1>7, <2>1, Bounds DEF OutOK
  <2> QED BY <1>6, <1>8, <2>1, <2>2, <2>3 DEF IInv, BlockOK
<1>11. CASE e.kind = "hot"
  <2>1. place' = "block" /\ block' = Call(e) /\ nzcv' \in BOOLEAN
    BY <1>1, <1>4, <1>11 DEF GuestTyped, Cpu
  <2>2. /\ block'.entry = e.entry /\ block'.blocks = e.blocks /\ block'.ridx = 1 /\ block'.rcount = 0
        /\ block'.riters = 0 /\ block'.i = IF Loops(e.blocks) THEN 0 ELSE 1
        /\ block' \in Region
    <3>1. cpu.pc \in VA /\ e.entry \in VA /\ e.blocks \in Seq(Block)
      BY <1>1, <1>3, <1>11
    <3>2. Call(e) \in Region
      BY <3>1 DEF Call, Region
    <3> QED BY <2>1, <3>2 DEF Call
  <2>3. RegionOK(block')
    BY <1>3, <1>11, <2>2, SameRegion
  <2>4. 1 \in DOMAIN block'.blocks /\ Len(block'.blocks[1].insns) \in Nat \ {0}
    <3>1. block'.blocks \in Seq(Block) /\ Len(block'.blocks) \in 1 .. MAX_REGION_BLOCKS
      BY <1>3, <1>11, <2>2, <2>3 DEF RegionOK
    <3>2. 1 \in DOMAIN block'.blocks
      BY <3>1, JitAssumption
    <3>3. block'.blocks[1] \in ToSet(block'.blocks)
      BY <3>2 DEF ToSet
    <3>4. Len(block'.blocks[1].insns) \in 1 .. MAX_JIT_BLOCK
      BY <2>3, <3>3 DEF RegionOK
    <3> QED BY <3>2, <3>4, Bounds
  <2>5. block'.i \in 0 .. Len(block'.blocks[1].insns) + 1
    BY <2>2, <2>4
  <2>6. Cur' = block'.blocks[1]
    BY <2>2 DEF Cur
  <2>7. TypeOK'
    <3>1. block' # None
      BY <2>2, NoneAssumption
    <3> QED BY <1>5, <1>7, <1>9, <2>1, <2>2, <2>4, <2>5, <2>6, <3>1 DEF TypeOK, Places
  <2>8. BlockOK'
    <3>1. 0 <= MAX_REGION_ITERS /\ 0 <= 0 * MAX_JIT_BLOCK
      BY Bounds
    <3>2. Loops(block.blocks)' = Loops(e.blocks)
      BY <2>2 DEF Loops
    <3> QED BY <1>7, <2>2, <2>3, <3>1, <3>2 DEF BlockOK
  <2>9. OutOK'
    BY <1>7, <2>1 DEF OutOK
  <2> QED BY <1>6, <1>8, <2>7, <2>8, <2>9 DEF IInv
<1> QED BY <1>10, <1>11

(* A way out of compiled code that bills what was retired.                  *)
LEMMA LeaveInv ==
    ASSUME IInv, place = "block", NEW next \in VA, NEW lr \in VA, NEW retired \in Nat,
           NEW count \in Nat, NEW to \in {"tail", "interp"}, Leave(next, lr, retired, count, to),
           UNCHANGED <<mem, old>>, count = owed + retired, count <= AtMost
    PROVE  IInv'
<1>1. /\ cpu' = [cpu EXCEPT !.pc = next, !.lr = lr, !.flag = nzcv]
      /\ executed' = executed + count /\ place' = to /\ block' = None
      /\ owed' = owed + retired - count /\ unit' = unit + retired
      /\ UNCHANGED <<map, mode, cache, ic_inval, nzcv, mem, old>>
  BY DEF Leave
<1>2. owed \in Nat /\ unit = owed /\ executed \in Nat /\ executed < Count
  BY Running DEF IInv, TypeOK, BlockOK
<1>3. /\ owed' = 0 /\ unit' = count /\ unit' \in Nat /\ executed' \in Nat
      /\ unit' <= AtMost /\ executed' < Count + AtMost
  BY <1>1, <1>2, Bounds
<1>4. cpu' \in Cpu
  <2>1. cpu \in Cpu /\ nzcv \in BOOLEAN
    BY DEF IInv, TypeOK
  <2> QED BY <1>1, <2>1 DEF Cpu
<1>5. TypeOK'
  <2>1. /\ mem' \in [PA -> Insn] /\ old' \in [PA -> SUBSET Insn] /\ map' \in Maps
        /\ mode' \in {"jit", "interp"} /\ cache' \in [PA -> JitBlock \cup {None}]
        /\ ic_inval' \in BOOLEAN /\ nzcv' \in BOOLEAN
    BY <1>1 DEF IInv, TypeOK
  <2>2. place' \in Places /\ block' \in Region \cup {None} /\ (block' = None) = (place' # "block")
        /\ (block' # None => /\ block'.ridx \in DOMAIN block'.blocks
                             /\ block'.i \in 0 .. Len(Cur'.insns) + 1)
    BY <1>1 DEF Places
  <2>3. executed' \in Nat /\ owed' \in Nat /\ unit' \in Nat
    BY <1>3
  <2> QED BY <1>4, <2>1, <2>2, <2>3 DEF TypeOK
<1>6. RegionsFit'
  BY <1>1 DEF IInv, RegionsFit
<1>7. UnitBounded'
  BY <1>3, Bounds DEF UnitBounded, AtMost
<1> QED BY <1>1, <1>3, <1>5, <1>6, <1>7 DEF IInv, BlockOK, OutOK

(* A step inside compiled code, of a block to be.                           *)
LEMMA StayInv ==
    ASSUME IInv, place = "block", UNCHANGED <<cpu, map, place, mode, executed, cache, ic_inval>>,
           mem' \in [PA -> Insn], old' \in [PA -> SUBSET Insn], nzcv' \in BOOLEAN,
           owed' \in Nat, owed' <= AtMost, unit' = owed',
           block'.blocks = block.blocks, block'.entry = block.entry,
           block' \in Region, block'.ridx \in 1 .. Len(block.blocks),
           block'.i \in 0 .. Len(block.blocks[block'.ridx].insns) + 1,
           owed' = block'.rcount + (IF block'.i = 0 THEN 0 ELSE block'.i - 1),
           IF Loops(block.blocks)
           THEN /\ block'.riters <= MAX_REGION_ITERS
                /\ IF block'.i = 0 THEN block'.rcount <= block'.riters * MAX_JIT_BLOCK
                   ELSE block'.riters >= 1 /\ block'.rcount <= (block'.riters - 1) * MAX_JIT_BLOCK
           ELSE block'.rcount = 0 /\ block'.i # 0
    PROVE  IInv'
<1>1. Cur' = block.blocks[block'.ridx] /\ block' # None /\ DOMAIN block'.blocks = 1 .. Len(block.blocks)
  <2>1. block \in Region
    BY Running
  <2>2. block.blocks \in Seq(Block)
    BY <2>1 DEF Region
  <2> QED BY <2>2, NoneAssumption DEF Cur
<1>2. TypeOK'
  <2>1. TypeOK
    BY DEF IInv
  <2>2. unit' \in Nat
    OBVIOUS
  <2> QED BY <1>1, <2>1, <2>2 DEF TypeOK
<1>3. RegionOK(block')
  <2>1. RegionOK(block)
    BY DEF IInv, BlockOK
  <2> QED BY <2>1, SameRegion
<1>4. Loops(block.blocks)' <=> Loops(block.blocks)
  BY DEF Loops
<1>5. BlockOK'
  <2>1. executed' < Count
    BY DEF IInv, BlockOK
  <2> QED BY <1>3, <1>4, <2>1 DEF BlockOK
<1>6. RegionsFit'
  BY DEF IInv, RegionsFit
<1>7. UnitBounded'
  <2>1. executed' \in Nat /\ executed' < Count
    BY DEF IInv, BlockOK, TypeOK
  <2> QED BY <2>1, Bounds DEF UnitBounded, AtMost
<1>8. OutOK'
  BY DEF OutOK
<1> QED BY <1>2, <1>5, <1>6, <1>7, <1>8 DEF IInv

LEMMA DispatchInv == ASSUME IInv, Dispatch PROVE IInv'
<1>1. /\ place = "block" /\ block.i = 0 /\ block.riters < MAX_REGION_ITERS
      /\ block' = [block EXCEPT !.i = 1, !.riters = @ + 1]
      /\ UNCHANGED <<cpu, mem, old, map, place, mode, executed, cache, ic_inval, nzcv, owed, unit>>
  BY DEF Dispatch, guest
<1>2. /\ block \in Region /\ Cur \in Block /\ block.ridx \in 1 .. Len(block.blocks)
      /\ Len(Cur.insns) \in 1 .. MAX_JIT_BLOCK
      /\ block.rcount \in Nat /\ owed = block.rcount /\ owed <= AtMost /\ unit = owed
  BY <1>1, Running
<1>3. /\ Loops(block.blocks) /\ block.rcount <= block.riters * MAX_JIT_BLOCK
      /\ block.riters \in Nat
  BY <1>1, <1>2 DEF IInv, BlockOK, Region
<1>4. /\ block'.blocks = block.blocks /\ block'.entry = block.entry /\ block'.ridx = block.ridx
      /\ block'.i = 1 /\ block'.rcount = block.rcount /\ block'.riters = block.riters + 1
      /\ block' \in Region
  <2>1. block' = [block EXCEPT !.i = 1, !.riters = block.riters + 1]
    BY <1>1
  <2>2. block.riters + 1 \in Nat /\ 1 \in Nat
    BY <1>3
  <2> QED BY <1>2, <2>1, <2>2 DEF Region
<1>5. /\ block'.riters <= MAX_REGION_ITERS /\ block'.riters >= 1 /\ block'.riters - 1 = block.riters
  BY <1>1, <1>3, <1>4, Bounds
<1>6. block'.i \in 0 .. Len(block.blocks[block'.ridx].insns) + 1
  BY <1>2, <1>4, Bounds DEF Cur
<1>7. owed' = block'.rcount + (IF block'.i = 0 THEN 0 ELSE block'.i - 1)
  BY <1>1, <1>2, <1>4
<1>8. /\ mem' \in [PA -> Insn] /\ old' \in [PA -> SUBSET Insn] /\ nzcv' \in BOOLEAN
      /\ owed' \in Nat /\ owed' <= AtMost /\ unit' = owed'
  BY <1>1, <1>2 DEF IInv, TypeOK
<1> QED BY <1>1, <1>2, <1>3, <1>4, <1>5, <1>6, <1>7, <1>8, StayInv

(* A retired instruction that is not the last of its block.                 *)
LEMMA RetireInv ==
    ASSUME IInv, InBlock, can_inline(AtInsn), Retire, mem' \in [PA -> Insn],
           old' \in [PA -> SUBSET Insn], nzcv' \in BOOLEAN
    PROVE  IInv'
<1>1. place = "block" /\ block.i \in 1 .. Len(Cur.insns)
  BY DEF InBlock
<1>2. /\ block \in Region /\ block.ridx \in 1 .. Len(block.blocks)
      /\ Len(Cur.insns) \in 1 .. MAX_JIT_BLOCK
      /\ block.rcount \in Nat /\ owed = block.rcount + block.i - 1 /\ unit = owed
      /\ block.rcount + Len(Cur.insns) <= AtMost
  BY <1>1, Running
<1>3. IF Loops(block.blocks)
      THEN /\ block.riters <= MAX_REGION_ITERS
           /\ block.riters >= 1 /\ block.rcount <= (block.riters - 1) * MAX_JIT_BLOCK
      ELSE block.rcount = 0
  BY <1>1 DEF IInv, BlockOK
<1>4. /\ block'.blocks = block.blocks /\ block'.entry = block.entry /\ block'.ridx = block.ridx
      /\ block'.i = block.i + 1 /\ block'.rcount = block.rcount /\ block'.riters = block.riters
      /\ block' \in Region
  BY <1>1, <1>2 DEF Region, Retire
<1>5. /\ UNCHANGED <<cpu, map, place, mode, executed, cache, ic_inval>>
      /\ owed' = owed + 1 /\ unit' = unit + 1
  BY DEF Retire
<1>6. /\ block'.i # 0 /\ block'.i \in 0 .. Len(block.blocks[block'.ridx].insns) + 1
  <2> DEFINE m == Len(Cur.insns)
  <2>1. m = Len(block.blocks[block'.ridx].insns)
    BY <1>4 DEF Cur
  <2>2. m \in 1 .. MAX_JIT_BLOCK /\ block.i \in 1 .. m
    BY <1>1, <1>2
  <2> HIDE DEF m
  <2>3. block.i + 1 # 0 /\ block.i + 1 \in 0 .. m + 1
    BY <2>2, Bounds
  <2> QED BY <1>4, <2>1, <2>3
<1>7. /\ owed' = block'.rcount + (IF block'.i = 0 THEN 0 ELSE block'.i - 1)
      /\ owed' \in Nat /\ owed' <= AtMost /\ unit' = owed'
  <2> DEFINE m == Len(Cur.insns)
             i == block.i
             c == block.rcount
  <2>1. m \in 1 .. MAX_JIT_BLOCK /\ i \in 1 .. m /\ c \in Nat /\ c + m <= AtMost /\ owed = c + i - 1
    BY <1>1, <1>2
  <2>2. MAX_JIT_BLOCK \in Nat /\ AtMost \in Nat
    BY Bounds
  <2> HIDE DEF m, i, c
  <2>3. owed + 1 = c + i /\ owed + 1 \in Nat /\ owed + 1 <= AtMost /\ i + 1 # 0 /\ (i + 1) - 1 = i
    BY <2>1, <2>2
  <2>4. owed + 1 = block.rcount + block.i /\ owed + 1 \in Nat /\ owed + 1 <= AtMost
        /\ block.i + 1 # 0 /\ (block.i + 1) - 1 = block.i
    BY <2>3 DEF i, c
  <2> QED BY <1>2, <1>4, <1>5, <2>4
<1> QED BY <1>1, <1>2, <1>3, <1>4, <1>5, <1>6, <1>7, StayInv

LEMMA RunOpInv == ASSUME IInv, RunOp PROVE IInv'
<1>1. InBlock /\ can_inline(AtInsn) /\ Retire /\ UNCHANGED <<mem, old>> /\ nzcv' = ~ nzcv
  BY DEF RunOp, can_inline
<1>2. mem' \in [PA -> Insn] /\ old' \in [PA -> SUBSET Insn]
  BY <1>1 DEF IInv, TypeOK
<1>3. nzcv' \in BOOLEAN
  BY Zenon, <1>1
<1> QED BY <1>1, <1>2, <1>3, RetireInv

LEMMA RunStoreInv == ASSUME IInv, RunStore PROVE IInv'
<1>1. InBlock /\ can_inline(AtInsn) /\ Retire /\ StoreEffect /\ UNCHANGED nzcv
  BY DEF RunStore, can_inline
<1>2. mem' \in [PA -> Insn] /\ old' \in [PA -> SUBSET Insn] /\ nzcv' \in BOOLEAN
  BY <1>1, StoreTyped DEF IInv, TypeOK
<1> QED BY <1>1, <1>2, RetireInv

(* The ways out before a branch: the yield, the bail and the fall-out.      *)
LEMMA LeftInv == ASSUME IInv, Yield \/ Bail \/ FallOut PROVE IInv'
<1>1. place = "block"
  BY DEF Yield, Bail, FallOut, InBlock
<1>2. Rel(AtVa) \in VA /\ cpu.lr \in VA /\ 0 \in Nat
  BY <1>1, Running DEF IInv, TypeOK, Cpu
<1>3. /\ Len(Cur.insns) \in 1 .. MAX_JIT_BLOCK /\ block.i \in Nat /\ block.rcount \in Nat
      /\ owed \in Nat /\ owed <= AtMost
      /\ block.i = 0 => owed = block.rcount
      /\ block.i # 0 => owed = block.rcount + block.i - 1
  BY <1>1, Running DEF IInv, TypeOK
<1>4. CASE Yield
  <2>1. Leave(Rel(AtVa), cpu.lr, 0, block.rcount, "tail") /\ UNCHANGED <<mem, old>> /\ block.i = 0
    BY <1>4 DEF Yield
  <2>2. block.rcount = owed + 0 /\ block.rcount <= AtMost
    BY <1>3, <2>1
  <2> QED BY <1>1, <1>2, <1>3, <2>1, <2>2, LeaveInv
<1>5. CASE Bail
  <2>1. Leave(Rel(AtVa), cpu.lr, 0, BailCount, "interp") /\ UNCHANGED <<mem, old>>
        /\ block.i \in 1 .. Len(Cur.insns)
    BY <1>5 DEF Bail, BailTo, InBlock
  <2>2. BailCount = owed + 0 /\ BailCount <= AtMost /\ BailCount \in Nat
    BY <1>3, <2>1 DEF BailCount
  <2> QED BY <1>1, <1>2, <2>1, <2>2, LeaveInv
<1>6. CASE FallOut
  <2>1. /\ Leave(Rel(AtVa), cpu.lr, 0, block.rcount + Len(Cur.insns), "tail")
        /\ UNCHANGED <<mem, old>> /\ block.i = Len(Cur.insns) + 1
    BY <1>6 DEF FallOut
  <2> DEFINE count == block.rcount + Len(Cur.insns)
  <2>2. count = owed + 0 /\ count <= AtMost /\ count \in Nat
    <3> DEFINE m == Len(Cur.insns)
    <3>1. m \in Nat \ {0} /\ block.i = m + 1
      BY <1>3, <2>1, Bounds
    <3> HIDE DEF m
    <3>2. block.i # 0
      BY <3>1
    <3> QED BY <1>3, <3>1, <3>2 DEF m
  <2> HIDE DEF count
  <2> QED BY <1>1, <1>2, <2>1, <2>2, LeaveInv DEF count
<1> QED BY <1>4, <1>5, <1>6

(* A branch ends its block.                                                 *)
LEMMA BranchIsLast ==
    ASSUME IInv, InBlock, is_branch(AtInsn)
    PROVE  /\ place = "block" /\ block.i = Len(Cur.insns) /\ block.i # 0 /\ AtVa \in Int
           /\ AtInsn \in Insn /\ AtInsn.off \in Int
           /\ block.rcount + Len(Cur.insns) = owed + 1
           /\ block.rcount + Len(Cur.insns) <= AtMost
           /\ block.rcount + Len(Cur.insns) \in Nat
<1> DEFINE m == Len(Cur.insns)
<1>1. /\ place = "block" /\ block.i \in 1 .. m /\ m \in 1 .. MAX_JIT_BLOCK /\ block.rcount \in Nat
      /\ Cur \in Block /\ AtVa \in Int
      /\ \A k \in 1 .. m - 1 : can_inline(Cur.insns[k])
  BY Running DEF InBlock
<1>2. AtInsn \in Insn /\ AtInsn.off \in Int
  <2>1. Cur.insns \in Seq(Insn)
    BY <1>1 DEF Block
  <2>2. AtInsn \in Insn
    BY <1>1, <2>1 DEF AtInsn
  <2> QED BY <2>2, Addresses DEF Insn
<1>3. block.i # 0 /\ (block.i # m => block.i \in 1 .. m - 1)
  BY <1>1, Bounds
<1>4. block.i = m
  BY <1>1, <1>3 DEF AtInsn, can_inline, is_branch
<1>5. owed = block.rcount + block.i - 1 /\ block.rcount + m <= AtMost
  BY <1>1, <1>3, Running
<1> HIDE DEF m
<1>6. block.rcount + m = owed + 1 /\ block.rcount + m \in Nat
  BY <1>1, <1>4, <1>5, Bounds
<1> QED BY <1>1, <1>2, <1>3, <1>4, <1>5, <1>6 DEF m

LEMMA RouteInv ==
    ASSUME IInv, InBlock, is_branch(AtInsn), NEW target \in VA, Route(target),
           UNCHANGED <<mem, old>>
    PROVE  IInv'
<1> DEFINE count == block.rcount + Len(Cur.insns)
           k == CHOOSE k \in 1 .. Len(block.blocks) : block.blocks[k].start = target
<1>1. /\ place = "block" /\ block.i = Len(Cur.insns) /\ block.i # 0
      /\ count = owed + 1 /\ count <= AtMost /\ count \in Nat
  BY BranchIsLast
<1>2. Rel(target) \in VA /\ cpu.lr \in VA
  BY <1>1, Running, Sizes DEF IInv, TypeOK, Cpu
<1>3. CASE Loops(block.blocks) /\ target \in Starts(block.blocks)
  <2>1. /\ block' = [block EXCEPT !.i = 0, !.rcount = @ + Len(Cur.insns), !.ridx = k]
        /\ owed' = owed + 1 /\ unit' = unit + 1
        /\ UNCHANGED <<cpu, map, place, mode, executed, cache, ic_inval, nzcv>>
    BY <1>3 DEF Route
  <2>2. /\ block \in Region /\ unit = owed /\ block.blocks \in Seq(Block)
        /\ Len(Cur.insns) \in 1 .. MAX_JIT_BLOCK /\ block.rcount \in Nat
    BY <1>1, Running DEF Region
  <2>3. k \in 1 .. Len(block.blocks) /\ block.blocks[k].start = target
    <3>1. \E j \in 1 .. Len(block.blocks) : block.blocks[j].start = target
      BY <1>3, <2>2 DEF Starts, ToSet
    <3> QED BY <3>1
  <2> HIDE DEF k
  <2>4. /\ block'.blocks = block.blocks /\ block'.entry = block.entry /\ block'.ridx = k
        /\ block'.i = 0 /\ block'.rcount = count /\ block'.riters = block.riters
        /\ block' \in Region
    <3>1. block' = [block EXCEPT !.i = 0, !.rcount = count, !.ridx = k]
      BY <2>1
    <3>2. count \in Nat /\ 0 \in Nat /\ k \in Nat
      BY <1>1, <2>2, <2>3
    <3> HIDE DEF count
    <3> QED BY <2>2, <3>1, <3>2 DEF Region
  <2>5. /\ block.riters <= MAX_REGION_ITERS /\ block.riters \in Nat /\ block.riters >= 1
        /\ block.rcount <= (block.riters - 1) * MAX_JIT_BLOCK
    BY <1>1, <1>3, <2>2 DEF IInv, BlockOK, Region
  <2>6. block'.rcount <= block'.riters * MAX_JIT_BLOCK
    <3> DEFINE m == Len(Cur.insns)
               t == block.riters
    <3>1. m \in 1 .. MAX_JIT_BLOCK /\ count = block.rcount + m
      BY <2>2
    <3> HIDE DEF m, t, count
    <3>2. t \in Nat /\ (t - 1) * MAX_JIT_BLOCK + MAX_JIT_BLOCK = t * MAX_JIT_BLOCK
          /\ (t - 1) * MAX_JIT_BLOCK \in Int /\ block.rcount <= (t - 1) * MAX_JIT_BLOCK
      BY <2>5, Bounds DEF t
    <3>3. count <= t * MAX_JIT_BLOCK
      BY <2>2, <3>1, <3>2, Bounds
    <3> QED BY <2>4, <3>3 DEF t
  <2>7. Len(block.blocks[block'.ridx].insns) \in Nat
    BY <2>2, <2>3, <2>4 DEF Block
  <2>8. block'.i \in 0 .. Len(block.blocks[block'.ridx].insns) + 1
    BY <2>4, <2>7
  <2>9. /\ owed' = block'.rcount + (IF block'.i = 0 THEN 0 ELSE block'.i - 1)
        /\ owed' \in Nat /\ owed' <= AtMost /\ unit' = owed'
    <3> HIDE DEF count
    <3> QED BY <1>1, <2>1, <2>2, <2>4, Bounds
  <2>10. mem' \in [PA -> Insn] /\ old' \in [PA -> SUBSET Insn] /\ nzcv' \in BOOLEAN
    BY <2>1 DEF IInv, TypeOK
  <2> QED BY <1>1, <1>3, <2>1, <2>3, <2>4, <2>5, <2>6, <2>8, <2>9, <2>10, StayInv
<1>4. CASE ~ (Loops(block.blocks) /\ target \in Starts(block.blocks))
  <2>1. Leave(Rel(target), cpu.lr, 1, count, "tail")
    BY <1>4 DEF Route
  <2> HIDE DEF count
  <2> QED BY <1>1, <1>2, <2>1, LeaveInv
<1> QED BY <1>3, <1>4

LEMMA RunBranchInv == ASSUME IInv, RunBranch PROVE IInv'
<1> DEFINE target == IF AtInsn.op = "b" \/ nzcv THEN Plus(AtVa, AtInsn.off) ELSE Plus(AtVa, 1)
<1>1. InBlock /\ is_branch(AtInsn) /\ Route(target) /\ UNCHANGED <<mem, old>>
  BY DEF RunBranch, is_branch
<1>2. AtVa \in Int /\ AtInsn.off \in Int /\ 1 \in Int
  BY <1>1, BranchIsLast
<1>3. target \in VA
  BY <1>2, PlusType
<1> HIDE DEF target
<1> QED BY <1>1, <1>3, RouteInv

LEMMA RunCallInv == ASSUME IInv, RunCall PROVE IInv'
<1> DEFINE lr == IF AtInsn.op = "ret" THEN cpu.lr ELSE Rel(Plus(AtVa, 1))
           next == IF AtInsn.op = "bl" THEN Rel(Plus(AtVa, AtInsn.off)) ELSE lr
           count == block.rcount + Len(Cur.insns)
<1>1. InBlock /\ is_branch(AtInsn) /\ Leave(next, lr, 1, count, "tail") /\ UNCHANGED <<mem, old>>
  BY DEF RunCall, is_branch
<1>2. /\ place = "block" /\ AtVa \in Int /\ AtInsn.off \in Int /\ 1 \in Int /\ 1 \in Nat
      /\ count = owed + 1 /\ count <= AtMost /\ count \in Nat
  BY <1>1, BranchIsLast
<1>3. cpu.lr \in VA
  BY DEF IInv, TypeOK, Cpu
<1>4. Plus(AtVa, 1) \in Int /\ Plus(AtVa, AtInsn.off) \in Int
  BY <1>2, PlusType, Sizes
<1>5. lr \in VA /\ next \in VA
  BY <1>2, <1>3, <1>4, Running
<1> HIDE DEF lr, next, count
<1> QED BY <1>1, <1>2, <1>5, LeaveInv

LEMMA StepInv == ASSUME IInv, [Next]_vars PROVE IInv'
<1>1. CASE Next
  BY <1>1, LoopInv, JitStepInv, InterpretInv, EndUnitInv, DispatchInv, LeftInv, RunOpInv,
     RunStoreInv, RunBranchInv, RunCallInv DEF Next, Run, Compiled
<1>2. CASE UNCHANGED vars
  BY <1>2 DEF vars, guest, jit, IInv, TypeOK, RegionsFit, BlockOK, OutOK, UnitBounded, Cur
<1> QED BY <1>1, <1>2

(* The organizer, its cache and the compiled code keep their invariant.     *)
THEOREM OrganizerInvariant == Spec => []IInv
<1>1. Init => IInv
  BY InitInv
<1>2. IInv /\ [Next]_vars => IInv'
  BY StepInv
<1> QED BY <1>1, <1>2, PTL DEF Spec

(* Every variable keeps its type.                                           *)
THEOREM TypeCorrect == Spec => []TypeOK
<1>1. IInv => TypeOK
  BY DEF IInv
<1> QED BY <1>1, OrganizerInvariant, PTL

(* What the organizer bills is what was retired, on every way out of a      *)
(* region: emit_bail, the yield, the fall-out and every branch.             *)
THEOREM CountIsExact == Spec => []CountExact
<1>1. IInv => CountExact
  BY DEF IInv, OutOK, CountExact
<1> QED BY <1>1, OrganizerInvariant, PTL

(* MAX_REGION_ITERS bounds what a unit retires between two service_async    *)
(* and what a call of the organizer runs beyond its budget.                 *)
THEOREM UnitIsBounded == Spec => []UnitBounded
<1>1. IInv => UnitBounded
  BY DEF IInv
<1> QED BY <1>1, OrganizerInvariant, PTL

(* form_region: whatever the guest's code, a cached region starts at its    *)
(* entry, keeps to its page and to its caps, holds each block once and only *)
(* what the emitter lowers.                                                 *)
THEOREM RegionsAlwaysFit == Spec => []RegionsFit
<1>1. IInv => RegionsFit
  BY DEF IInv
<1> QED BY <1>1, OrganizerInvariant, PTL

-----------------------------------------------------------------------------
(* Compiled code implements the interpreter *)

\* The hypotheses of the refinement, both about what the code does not support:
\* the JIT is not switched off and on between an IC and the end of its unit, and
\* no BLR, whose compiled form branches to the link it has just written.
Quiet ==
    /\ ~ Toggle
    /\ \A m \in Programs, a \in PA : m[a].op # "blr"
    /\ \A a \in PA : \A i \in Patches[a] : i.op # "blr"

\* Memory is among what a fetch may return, and none of it is BLR.
FetchOK == \A a \in PA : mem[a] \in old[a] /\ \A i \in old[a] : i.op # "blr"

\* An IC drops the cache before anything else looks at it.
Dropped == mode = "jit" /\ (ic_inval => place = "tail")

\* Whatever is cached is what a fetch may still return.
CacheFresh ==
    ~ ic_inval =>
        \A a \in PA : cache[a] # None /\ cache[a].kind = "hot" =>
            /\ cache[a].entry % PageWords = a % PageWords
            /\ HoldsWords(cache[a].blocks, PageBase(a), old)

\* So is the region that runs, from the page it was called in.
BlockFresh ==
    place = "block" =>
        /\ block.pc0 = cpu.pc /\ Mapped(cpu.pc) /\ cpu.pc % PageWords = block.entry % PageWords
        /\ HoldsWords(block.blocks, PageBase(PaOf(cpu.pc)), old)

RInv == IInv /\ Quiet /\ FetchOK /\ Dropped /\ CacheFresh /\ BlockFresh

LEMMA PageHoldsMore ==
    ASSUME NEW blocks, NEW pa \in PA, NEW v, NEW w, HoldsWords(blocks, PageBase(pa), v),
           \A a \in PA : v[a] \subseteq w[a]
    PROVE  HoldsWords(blocks, PageBase(pa), w)
<1>1. \A va \in VA : PageBase(pa) + (va % PageWords) \in PA
  <2> SUFFICES ASSUME NEW va \in VA PROVE PageBase(pa) + (va % PageWords) \in PA
    OBVIOUS
  <2>1. va % PageWords \in 0 .. PageWords - 1
    BY Sizes, OfSpace DEF VA
  <2> QED BY <2>1, InPage
<1> QED BY <1>1 DEF HoldsWords

(* What an instruction does to what fetches may return.                     *)
LEMMA StoreFresh ==
    ASSUME mem \in [PA -> Insn], old \in [PA -> SUBSET Insn], Quiet, FetchOK, StoreEffect
    PROVE  FetchOK' /\ \A a \in PA : old[a] \subseteq old'[a]
<1>1. \A a \in PA : /\ old[a] \subseteq old'[a] /\ mem'[a] \in old'[a]
                    /\ old'[a] \subseteq old[a] \cup {mem[a]} \cup Patches[a]
  BY StoreTyped
<1>2. \A a \in PA : \A i \in old'[a] : i.op # "blr"
  BY <1>1 DEF FetchOK, Quiet
<1> QED BY <1>1, <1>2 DEF FetchOK

LEMMA PerformFresh ==
    ASSUME GuestTyped, Quiet, FetchOK, NEW i \in Insn, Perform(i)
    PROVE  FetchOK' /\ (i.op # "ic" => \A a \in PA : old[a] \subseteq old'[a])
<1>1. CASE Sequential(i) \/ StoreAborts(i) \/ Remap(i)
  BY <1>1 DEF Sequential, StoreAborts, Remap, FetchOK
<1>2. CASE Store(i)
  BY <1>2, StoreFresh DEF Store, GuestTyped
<1>3. CASE Ic(i)
  BY <1>3 DEF Ic, FetchOK
<1> QED BY <1>1, <1>2, <1>3 DEF Perform

(* A step that leaves the caches alone and only adds to what fetches return. *)
LEMMA CacheStaysFresh ==
    ASSUME CacheFresh, UNCHANGED cache, ~ ic_inval' => ~ ic_inval,
           \A a \in PA : old[a] \subseteq old'[a]
    PROVE  CacheFresh'
<1> SUFFICES ASSUME ~ ic_inval', NEW a \in PA, cache[a] # None, cache[a].kind = "hot"
             PROVE  /\ cache[a].entry % PageWords = a % PageWords
                    /\ HoldsWords(cache[a].blocks, PageBase(a), old')
  BY DEF CacheFresh
<1>1. /\ cache[a].entry % PageWords = a % PageWords
      /\ HoldsWords(cache[a].blocks, PageBase(a), old)
  BY DEF CacheFresh
<1> QED BY <1>1, PageHoldsMore

LEMMA InitFresh == ASSUME Quiet, Init PROVE RInv
<1>1. FetchOK
  BY DEF Init, GuestInit, FetchOK, Quiet
<1> QED BY <1>1, InitInv DEF Init, RInv, Dropped, CacheFresh, BlockFresh

LEMMA OutsideFresh ==
    ASSUME RInv, EnterRun \/ StopCount \/ Service \/ JitStepUnmapped \/ EndUnit
    PROVE  RInv'
<1>1. IInv' /\ Quiet'
  BY LoopInv, EndUnitInv DEF RInv, Quiet
<1>2. /\ UNCHANGED <<mem, old>> /\ place # "block" /\ place' # "block"
      /\ \/ UNCHANGED <<cache, ic_inval>> /\ (place = "tail" => ~ ic_inval)
         \/ ic_inval' = FALSE /\ cache' = [a \in PA |-> None]
      /\ mode' = "jit"
  <2>1. mode = "jit" /\ ~ Toggle /\ (place # "tail" => ~ ic_inval)
    BY DEF RInv, Quiet, Dropped
  <2>2. CASE EnterRun
    BY <2>1, <2>2 DEF EnterRun, guest
  <2>3. CASE StopCount
    BY <2>1, <2>3 DEF StopCount, guest
  <2>4. CASE Service
    BY <2>1, <2>4 DEF Service, guest, Irq
  <2>5. CASE JitStepUnmapped
    BY <2>1, <2>5 DEF JitStepUnmapped, guest
  <2>6. CASE EndUnit
    BY <2>1, <2>6 DEF EndUnit, guest
  <2> QED BY <2>2, <2>3, <2>4, <2>5, <2>6
<1>3. FetchOK' /\ Dropped' /\ BlockFresh'
  BY <1>2 DEF RInv, FetchOK, Dropped, BlockFresh
<1>4. CacheFresh'
  <2>1. CASE UNCHANGED <<cache, ic_inval>>
    BY <1>2, <2>1, CacheStaysFresh DEF RInv
  <2>2. CASE cache' = [a \in PA |-> None]
    BY <2>2 DEF CacheFresh
  <2> QED BY <1>2, <2>1, <2>2
<1> QED BY <1>1, <1>3, <1>4 DEF RInv

LEMMA InterpretFresh == ASSUME RInv, Interpret PROVE RInv'
<1>1. IInv' /\ Quiet'
  BY InterpretInv DEF RInv, Quiet
<1>2. /\ GuestTyped /\ Quiet /\ FetchOK /\ CacheFresh /\ mode = "jit" /\ ~ ic_inval
      /\ place' = "tail" /\ UNCHANGED <<mode, cache>>
  BY DEF RInv, IInv, TypeOK, GuestTyped, Dropped, Interpret
<1>3. CASE Mapped(cpu.pc) /\ Perform(mem[PaOf(cpu.pc)])
           /\ ic_inval' = (ic_inval \/ mem[PaOf(cpu.pc)].op = "ic")
  <2> DEFINE i == mem[PaOf(cpu.pc)]
  <2>1. i \in Insn
    BY <1>2, <1>3, PaOfType DEF GuestTyped, Cpu
  <2> HIDE DEF i
  <2>2. FetchOK' /\ (i.op # "ic" => \A a \in PA : old[a] \subseteq old'[a])
    BY <1>2, <1>3, <2>1, PerformFresh DEF i
  <2>3. CacheFresh'
    <3>1. CASE i.op = "ic"
      <4>1. ic_inval'
        BY <1>3, <3>1 DEF i
      <4> QED BY <4>1 DEF CacheFresh
    <3>2. CASE i.op # "ic"
      BY <1>2, <2>2, <3>2, CacheStaysFresh
    <3> QED BY <3>1, <3>2
  <2> QED BY <1>1, <1>2, <2>2, <2>3 DEF RInv, Dropped, BlockFresh
<1>4. CASE FetchAborts /\ UNCHANGED ic_inval
  <2>1. UNCHANGED <<mem, old>>
    BY <1>4 DEF FetchAborts
  <2>2. FetchOK' /\ CacheFresh'
    BY <1>2, <2>1, CacheStaysFresh DEF FetchOK
  <2> QED BY <1>1, <1>2, <2>2 DEF RInv, Dropped, BlockFresh
<1> QED BY <1>3, <1>4 DEF Interpret

LEMMA JitStepFresh == ASSUME RInv, JitStep PROVE RInv'
<1> DEFINE pa == PaOf(cpu.pc)
           e == Warmed(cache[pa], cpu.pc, pa)
<1>1. IInv /\ IInv' /\ Quiet' /\ FetchOK
  BY JitStepInv DEF RInv, Quiet
<1>2. cpu.pc \in VA /\ Mapped(cpu.pc) /\ map \in Maps
  BY <1>1 DEF JitStep, IInv, TypeOK, Cpu
<1>3. pa \in PA /\ pa % PageWords = cpu.pc % PageWords
  BY <1>2, PaOfType
<1>4. /\ place = "step" /\ cache' = [cache EXCEPT ![pa] = e]
      /\ \/ e.kind = "hot" /\ place' = "block" /\ block' = Call(e)
         \/ place' = "interp"
      /\ UNCHANGED <<cpu, mem, old, map, mode, ic_inval>>
  BY DEF JitStep, guest
<1> HIDE DEF pa
<1>5. /\ e \in JitBlock
      /\ e.kind = "hot" =>
           \/ e = cache[pa]
           \/ e.entry = cpu.pc /\ HoldsWords(e.blocks, PageBase(pa), [a \in PA |-> {mem[a]}])
  BY <1>1, <1>2, <1>3, WarmedFits
<1> HIDE DEF e
<1>6. ~ ic_inval /\ mode = "jit" /\ CacheFresh
  BY <1>4 DEF RInv, Dropped
<1>7. e.kind = "hot" => /\ e.entry % PageWords = pa % PageWords
                        /\ HoldsWords(e.blocks, PageBase(pa), old)
  <2>1. CASE e = cache[pa]
    BY <1>3, <1>5, <1>6, <2>1, NoneAssumption DEF CacheFresh
  <2>2. CASE e.entry = cpu.pc /\ HoldsWords(e.blocks, PageBase(pa), [a \in PA |-> {mem[a]}])
    <3>1. \A a \in PA : [b \in PA |-> {mem[b]}][a] \subseteq old[a]
      BY <1>1 DEF FetchOK
    <3> QED BY <1>3, <2>2, <3>1, PageHoldsMore
  <2> QED BY <1>5, <2>1, <2>2
<1>8. cache' = [a \in PA |-> IF a = pa THEN e ELSE cache[a]]
  BY <1>1, <1>4 DEF IInv, TypeOK
<1>9. CacheFresh'
  <2> SUFFICES ASSUME NEW a \in PA, cache'[a] # None, cache'[a].kind = "hot"
               PROVE  /\ cache'[a].entry % PageWords = a % PageWords
                      /\ HoldsWords(cache'[a].blocks, PageBase(a), old)
    BY <1>4 DEF CacheFresh
  <2>1. CASE a = pa
    BY <1>7, <1>8, <2>1
  <2>2. CASE a # pa
    BY <1>6, <1>8, <2>2 DEF CacheFresh
  <2> QED BY <2>1, <2>2
<1>10. BlockFresh'
  <2> SUFFICES ASSUME place' = "block"
               PROVE  /\ block'.pc0 = cpu.pc /\ Mapped(cpu.pc)
                      /\ cpu.pc % PageWords = block'.entry % PageWords
                      /\ HoldsWords(block'.blocks, PageBase(pa), old)
    BY <1>4 DEF BlockFresh, Mapped, PaOf, pa
  <2>1. e.kind = "hot" /\ block'.pc0 = cpu.pc /\ block'.entry = e.entry /\ block'.blocks = e.blocks
    BY <1>4 DEF Call
  <2> QED BY <1>2, <1>3, <1>7, <2>1
<1>11. FetchOK' /\ Dropped'
  BY <1>1, <1>4, <1>6 DEF FetchOK, Dropped
<1> QED BY <1>1, <1>9, <1>10, <1>11 DEF RInv

LEMMA CompiledFresh == ASSUME RInv, Compiled PROVE RInv'
<1>1. IInv' /\ Quiet' /\ IInv /\ Quiet /\ FetchOK /\ CacheFresh /\ BlockFresh
  BY DispatchInv, LeftInv, RunOpInv, RunStoreInv, RunBranchInv, RunCallInv DEF RInv, Quiet, Compiled
<1>2. place = "block" /\ mode = "jit" /\ ~ ic_inval
  BY DEF RInv, Dropped, Compiled, Dispatch, Yield, RunOp, RunStore, Bail, FallOut, RunBranch,
         RunCall, InBlock
<1>3. /\ UNCHANGED <<map, mode, cache, ic_inval>> /\ (UNCHANGED <<mem, old>> \/ StoreEffect)
      /\ \/ /\ UNCHANGED <<cpu, place>> /\ block'.entry = block.entry
            /\ block'.blocks = block.blocks /\ block'.pc0 = block.pc0
         \/ place' # "block"
  <2>1. block \in Region
    BY <1>1, <1>2, Running
  <2>2. CASE Dispatch
    BY <2>1, <2>2 DEF Dispatch, guest, Region
  <2>3. CASE Yield
    BY <2>3 DEF Yield, Leave
  <2>4. CASE RunOp
    BY <2>1, <2>4 DEF RunOp, Retire, Region
  <2>5. CASE RunStore
    BY <2>1, <2>5 DEF RunStore, Retire, Region
  <2>6. CASE Bail
    BY <2>6 DEF Bail, BailTo, Leave
  <2>7. CASE FallOut
    BY <2>7 DEF FallOut, Leave
  <2>8. CASE RunBranch
    <3>1. PICK target : Route(target) /\ UNCHANGED <<mem, old>>
      BY <2>8 DEF RunBranch
    <3> QED BY <2>1, <3>1 DEF Route, Leave, Region
  <2>9. CASE RunCall
    BY <2>9 DEF RunCall, Leave
  <2> QED BY <2>2, <2>3, <2>4, <2>5, <2>6, <2>7, <2>8, <2>9 DEF Compiled
<1>4. FetchOK' /\ \A a \in PA : old[a] \subseteq old'[a]
  <2>1. CASE UNCHANGED <<mem, old>>
    BY <1>1, <2>1 DEF FetchOK
  <2>2. CASE StoreEffect
    BY <1>1, <2>2, StoreFresh DEF IInv, TypeOK
  <2> QED BY <1>3, <2>1, <2>2
<1>5. CacheFresh'
  BY <1>1, <1>3, <1>4, CacheStaysFresh
<1>6. BlockFresh'
  <2> SUFFICES ASSUME place' = "block"
               PROVE  /\ block'.pc0 = cpu'.pc /\ Mapped(cpu.pc)' /\ cpu'.pc % PageWords = block'.entry % PageWords
                      /\ HoldsWords(block'.blocks, PageBase(PaOf(cpu.pc)'), old')
    BY DEF BlockFresh
  <2>1. /\ block'.pc0 = cpu.pc /\ Mapped(cpu.pc) /\ cpu.pc % PageWords = block'.entry % PageWords
        /\ HoldsWords(block'.blocks, PageBase(PaOf(cpu.pc)), old) /\ UNCHANGED <<cpu, map>>
    BY <1>1, <1>2, <1>3 DEF BlockFresh
  <2>2. PaOf(cpu.pc) \in PA
    BY <1>1, <2>1, PaOfType DEF IInv, TypeOK, Cpu
  <2>3. HoldsWords(block'.blocks, PageBase(PaOf(cpu.pc)), old')
    BY <1>4, <2>1, <2>2, PageHoldsMore
  <2> QED BY <2>1, <2>3 DEF Mapped, PaOf
<1>7. Dropped'
  BY <1>2, <1>3 DEF Dropped
<1> QED BY <1>1, <1>4, <1>5, <1>6, <1>7 DEF RInv

LEMMA StepFresh == ASSUME RInv, [Next]_vars PROVE RInv'
<1>1. CASE Next
  BY <1>1, OutsideFresh, JitStepFresh, InterpretFresh, CompiledFresh DEF Next, Run
<1>2. CASE UNCHANGED vars
  <2>1. IInv' /\ Quiet'
    BY <1>2, StepInv DEF RInv, Quiet
  <2> QED BY <1>2, <2>1 DEF RInv, vars, guest, jit, FetchOK, Dropped, CacheFresh, BlockFresh, Mapped, PaOf
<1> QED BY <1>1, <1>2

-----------------------------------------------------------------------------
(* Each step is one of the guest's, or none.                                *)
GuestStep == [Guest!GuestNext]_(Guest!guest)

LEMMA GuestStutters ==
    ASSUME UNCHANGED <<mem, old, map>>, ArchCpu' = ArchCpu
    PROVE  GuestStep
BY DEF GuestStep, Guest!guest

LEMMA GuestTraps ==
    ASSUME place # "block", place' # "block", Irq \/ FetchAborts
    PROVE  GuestStep
<1>1. ArchCpu = cpu /\ ArchCpu' = cpu'
  BY DEF ArchCpu
<1>2. CASE Irq
  <2>1. Guest!Irq
    BY <1>1, <1>2 DEF Irq, Guest!Irq, Trap, Guest!Trap
  <2> QED BY <2>1 DEF GuestStep, Guest!GuestNext
<1>3. CASE FetchAborts
  <2>1. Guest!FetchAborts
    BY <1>1, <1>3 DEF FetchAborts, Guest!FetchAborts, Trap, Guest!Trap, Mapped, Guest!Mapped
  <2> QED BY <2>1 DEF GuestStep, Guest!GuestNext
<1> QED BY <1>2, <1>3

LEMMA SameAfter == ASSUME NEW c, NEW i PROVE Guest!After(c, i) = After(c, i)
BY DEF Guest!After, After, Guest!Plus, Plus, Guest!Trap, Trap

(* What a fetch may return at the guest's PC is performed on the guest.     *)
LEMMA GuestPerforms ==
    ASSUME Mapped(ArchCpu.pc), NEW i \in old[PaOf(ArchCpu.pc)],
           \/ Sequential(i) /\ ArchCpu = cpu /\ ArchCpu' = cpu'
           \/ Store(i) /\ ArchCpu = cpu /\ ArchCpu' = cpu'
           \/ StoreAborts(i) /\ ArchCpu = cpu /\ ArchCpu' = cpu'
           \/ Ic(i) /\ ArchCpu = cpu /\ ArchCpu' = cpu'
           \/ Remap(i) /\ ArchCpu = cpu /\ ArchCpu' = cpu'
           \/ /\ i.op \notin {"st", "ic", "remap"} /\ ArchCpu' = After(ArchCpu, i)
              /\ UNCHANGED <<mem, old, map>>
           \/ /\ i.op = "st" /\ ArchCpu' = After(ArchCpu, i) /\ StoreEffect /\ UNCHANGED map
    PROVE  GuestStep
<1> DEFINE c == ArchCpu
           d == ArchCpu'
<1>1. Guest!After(c, i) = After(c, i) /\ Guest!After(cpu, i) = After(cpu, i)
  BY SameAfter
<1>2. Guest!Trap(c) = Trap(c)
  BY DEF Guest!Trap, Trap
<1>3. StoreEffect => Guest!StoreEffect
  BY DEF StoreEffect, Guest!StoreEffect, PA, Guest!PA
<1>4. Guest!Perform(i)
  <2>1. CASE i.op \notin {"st", "ic", "remap"} /\ d = After(c, i) /\ UNCHANGED <<mem, old, map>>
    <3>1. Guest!Sequential(i)
      BY <1>1, <2>1 DEF Guest!Sequential
    <3> QED BY <3>1 DEF Guest!Perform
  <2>2. CASE i.op = "st" /\ d = After(c, i) /\ StoreEffect /\ UNCHANGED map
    <3>1. Guest!Store(i)
      BY <1>1, <1>3, <2>2 DEF Guest!Store
    <3> QED BY <3>1 DEF Guest!Perform
  <2>3. CASE StoreAborts(i) /\ c = cpu /\ d = cpu'
    <3>1. Guest!StoreAborts(i)
      BY <1>2, <2>3 DEF StoreAborts, Guest!StoreAborts
    <3> QED BY <3>1 DEF Guest!Perform
  <2>4. CASE Ic(i) /\ c = cpu /\ d = cpu'
    <3>1. Guest!Ic(i)
      BY <1>1, <2>4 DEF Ic, Guest!Ic, PA, Guest!PA
    <3> QED BY <3>1 DEF Guest!Perform
  <2>5. CASE Remap(i) /\ c = cpu /\ d = cpu'
    <3>1. Guest!Remap(i)
      BY <1>1, <2>5 DEF Remap, Guest!Remap
    <3> QED BY <3>1 DEF Guest!Perform
  <2>6. CASE Sequential(i) /\ c = cpu /\ d = cpu'
    <3>1. i.op \notin {"st", "ic", "remap"} /\ d = After(c, i) /\ UNCHANGED <<mem, old, map>>
      BY <2>6 DEF Sequential
    <3> QED BY <2>1, <3>1
  <2>7. CASE Store(i) /\ c = cpu /\ d = cpu'
    <3>1. i.op = "st" /\ d = After(c, i) /\ StoreEffect /\ UNCHANGED map
      BY <2>7 DEF Store
    <3> QED BY <2>2, <3>1
  <2> QED BY <2>1, <2>2, <2>3, <2>4, <2>5, <2>6, <2>7
<1>5. Guest!Mapped(c.pc) /\ Guest!PaOf(c.pc) = PaOf(c.pc)
  BY DEF Guest!Mapped, Mapped, Guest!PaOf, PaOf
<1>6. Guest!Fetched
  BY <1>4, <1>5 DEF Guest!Fetched
<1> QED BY <1>6 DEF GuestStep, Guest!GuestNext

LEMMA OutsideGuest ==
    ASSUME RInv, EnterRun \/ StopCount \/ Service \/ JitStepUnmapped \/ EndUnit
    PROVE  GuestStep
<1>1. /\ place # "block" /\ place' # "block" /\ (UNCHANGED <<cpu, mem, old, map>> \/ Irq)
  BY DEF EnterRun, StopCount, Service, JitStepUnmapped, EndUnit, guest
<1>2. CASE UNCHANGED <<cpu, mem, old, map>>
  BY <1>1, <1>2, GuestStutters DEF ArchCpu
<1>3. CASE Irq
  BY <1>1, <1>3, GuestTraps
<1> QED BY <1>1, <1>2, <1>3

LEMMA InterpretGuest == ASSUME RInv, Interpret PROVE GuestStep
<1>1. place # "block" /\ place' # "block" /\ ArchCpu = cpu /\ ArchCpu' = cpu'
  BY DEF Interpret, ArchCpu
<1>2. CASE Mapped(cpu.pc) /\ Perform(mem[PaOf(cpu.pc)])
  <2> DEFINE i == mem[PaOf(cpu.pc)]
  <2>1. PaOf(cpu.pc) \in PA
    BY <1>2, PaOfType DEF RInv, IInv, TypeOK, Cpu
  <2>2. i \in old[PaOf(cpu.pc)]
    BY <2>1 DEF RInv, FetchOK
  <2>3. Sequential(i) \/ Store(i) \/ StoreAborts(i) \/ Ic(i) \/ Remap(i)
    BY <1>2 DEF Perform
  <2> HIDE DEF i
  <2> QED BY <1>1, <1>2, <2>2, <2>3, GuestPerforms
<1>3. CASE FetchAborts
  BY <1>1, <1>3, GuestTraps
<1> QED BY <1>2, <1>3 DEF Interpret

(* The guest's registers in a block and behind it.                          *)
LEMMA ArchInBlock ==
    ASSUME cpu \in Cpu, place = "block"
    PROVE  ArchCpu = [pc |-> Rel(AtVa), flag |-> nzcv, lr |-> cpu.lr, elr |-> cpu.elr,
                      spsr |-> cpu.spsr, masked |-> cpu.masked]
BY DEF ArchCpu, Cpu

LEMMA ArchLeft ==
    ASSUME cpu \in Cpu, NEW next, NEW lr, NEW retired, NEW count, NEW to \in {"tail", "interp"},
           Leave(next, lr, retired, count, to)
    PROVE  ArchCpu' = [pc |-> next, flag |-> nzcv, lr |-> lr, elr |-> cpu.elr,
                       spsr |-> cpu.spsr, masked |-> cpu.masked]
<1>1. place' # "block" /\ cpu' = [cpu EXCEPT !.pc = next, !.lr = lr, !.flag = nzcv]
  BY DEF Leave
<1>2. ArchCpu' = cpu'
  BY <1>1 DEF ArchCpu
<1> QED BY <1>1, <1>2 DEF Cpu

LEMMA JitStepGuest == ASSUME RInv, JitStep PROVE GuestStep
<1>1. IInv' /\ place = "step" /\ UNCHANGED <<cpu, mem, old, map>>
      /\ (place' = "interp" \/ (place' = "block" /\ nzcv' = cpu.flag))
  BY JitStepInv DEF RInv, JitStep, guest
<1>2. cpu \in Cpu /\ cpu.pc \in VA
  BY DEF RInv, IInv, TypeOK, Cpu
<1>3. CASE place' = "interp"
  <2>1. ArchCpu' = cpu' /\ ArchCpu = cpu
    BY <1>1, <1>3 DEF ArchCpu
  <2> QED BY <1>1, <2>1, GuestStutters
<1>4. CASE place' = "block"
  <2>1. PICK e : block' = Call(e)
    BY <1>1, <1>4 DEF JitStep
  <2>2. block'.pc0 = cpu.pc /\ block'.ridx = 1 /\ block'.i \in {0, 1}
    BY <2>1 DEF Call
  <2>3. block'.blocks[1].start = block'.entry /\ block'.entry \in VA
    BY <1>1, <1>4, <2>2 DEF IInv, TypeOK, BlockOK, RegionOK, Region
  <2>4. AtVa' = block'.entry
    <3>1. AtVa' = block'.entry + 0
      BY <2>2, <2>3 DEF AtVa, Cur
    <3> QED BY <2>3, <3>1, Sizes
  <2>5. Rel(AtVa)' = cpu.pc
    <3>1. Rel(AtVa)' = Plus(cpu.pc, block'.entry - block'.entry)
      BY <2>2, <2>4 DEF Rel
    <3>2. block'.entry - block'.entry = 0
      BY <2>3, Sizes
    <3> QED BY <1>2, <3>1, <3>2, PlusNothing
  <2>6. ArchCpu' = [cpu EXCEPT !.pc = cpu.pc, !.flag = cpu.flag]
    BY <1>1, <1>4, <2>5 DEF ArchCpu
  <2>7. ArchCpu' = cpu /\ ArchCpu = cpu
    BY <1>1, <1>2, <2>6 DEF ArchCpu, Cpu
  <2> QED BY <1>1, <2>7, GuestStutters
<1> QED BY <1>1, <1>3, <1>4

(* Yielding, bailing out, falling out and dispatching: no instruction runs. *)
LEMMA LeftGuest == ASSUME RInv, Yield \/ Bail \/ FallOut \/ Dispatch PROVE GuestStep
<1>1. place = "block" /\ cpu \in Cpu /\ IInv
  BY DEF RInv, IInv, TypeOK, Yield, Bail, FallOut, Dispatch, InBlock
<1>2. ArchCpu = [pc |-> Rel(AtVa), flag |-> nzcv, lr |-> cpu.lr, elr |-> cpu.elr,
                 spsr |-> cpu.spsr, masked |-> cpu.masked]
  BY <1>1, ArchInBlock
<1>3. CASE Yield \/ Bail \/ FallOut
  <2>1. PICK count : \E to \in {"tail", "interp"} : Leave(Rel(AtVa), cpu.lr, 0, count, to)
    BY <1>3 DEF Yield, Bail, BailTo, FallOut
  <2>2. UNCHANGED <<mem, old, map>>
    BY <1>3, <2>1 DEF Yield, Bail, FallOut, Leave
  <2>3. ArchCpu' = ArchCpu
    <3>1. PICK to \in {"tail", "interp"} : Leave(Rel(AtVa), cpu.lr, 0, count, to)
      BY <2>1
    <3> QED BY <1>1, <1>2, <3>1, ArchLeft
  <2> QED BY <2>2, <2>3, GuestStutters
<1>4. CASE Dispatch
  <2>1. /\ UNCHANGED <<cpu, mem, old, map, place, nzcv>> /\ block.i = 0
        /\ block' = [block EXCEPT !.i = 1, !.riters = @ + 1]
    BY <1>4 DEF Dispatch, guest
  <2>2. block \in Region
    BY <1>1, Running
  <2>3. /\ block'.i = 1 /\ block'.ridx = block.ridx /\ block'.blocks = block.blocks
        /\ block'.pc0 = block.pc0 /\ block'.entry = block.entry
    BY <2>1, <2>2 DEF Region
  <2>4. AtVa' = AtVa
    BY <2>1, <2>3 DEF AtVa, Cur
  <2>5. Rel(AtVa)' = Rel(AtVa)
    BY <2>3, <2>4 DEF Rel
  <2>6. ArchCpu' = ArchCpu
    BY <1>1, <2>1, <2>5 DEF ArchCpu
  <2> QED BY <2>1, <2>6, GuestStutters
<1> QED BY <1>3, <1>4

(* Position independence: what is next to an instruction of the region is   *)
(* next to it where the region was called.                                  *)
LEMMA RelMoves ==
    ASSUME IInv, place = "block", NEW d \in Int
    PROVE  Rel(Plus(AtVa, d)) = Plus(Rel(AtVa), d)
<1> DEFINE pc0 == block.pc0
           entry == block.entry
           a == AtVa
<1>1. a \in Int /\ block \in Region
  BY Running
<1>2. pc0 \in Int /\ entry \in Int
  BY <1>1, Sizes DEF Region
<1>3. Plus(pc0, Plus(a, d) - entry) = Plus(Plus(pc0, a - entry), d)
  <2> HIDE DEF pc0, entry, a
  <2> QED BY <1>1, <1>2, PlusRelative
<1> QED BY Zenon, <1>3 DEF Rel

(* The instruction a block is at is one the guest may fetch at its PC: the  *)
(* region is of the page the PC is in, through whatever mapping.            *)
LEMMA Fetches ==
    ASSUME RInv, InBlock
    PROVE  /\ Mapped(Rel(AtVa)) /\ AtInsn \in old[PaOf(Rel(AtVa))] /\ AtInsn.op # "blr"
           /\ AtInsn \in Insn
<1>1. /\ IInv /\ place = "block" /\ block.i \in 1 .. Len(Cur.insns) /\ BlockFresh /\ FetchOK
      /\ cpu.pc \in VA /\ map \in Maps /\ old \in [PA -> SUBSET Insn]
  BY DEF RInv, InBlock, IInv, TypeOK, Cpu
<1>2. /\ block \in Region /\ Cur \in Block /\ block.ridx \in 1 .. Len(block.blocks)
      /\ Len(Cur.insns) \in 1 .. MAX_JIT_BLOCK /\ PageOf(Cur.start) = PageOf(block.entry)
  BY <1>1, Running
<1>3. block.blocks \in Seq(Block) /\ block.entry \in VA /\ Cur.start \in VA
  BY <1>2 DEF Region, Block
<1> DEFINE base == PageBase(PaOf(cpu.pc))
           at == Cur.start + block.i - 1
<1>4. /\ block.pc0 = cpu.pc /\ Mapped(cpu.pc) /\ cpu.pc % PageWords = block.entry % PageWords
      /\ HoldsWords(block.blocks, base, old)
  BY <1>1 DEF BlockFresh
<1>5. at \in VA /\ PageOf(at) = PageOf(Cur.start) /\ AtInsn \in old[base + (at % PageWords)]
  <2>1. block.ridx \in DOMAIN block.blocks
    BY <1>2, <1>3
  <2> HIDE DEF base
  <2> QED BY <1>1, <1>4, <2>1 DEF HoldsWords, AtInsn, Cur
<1>6. AtVa = at
  <2>1. block.i \in Nat /\ block.i # 0 /\ Cur.start \in Int
    BY <1>1, <1>2, <1>3, Bounds, Sizes
  <2>2. AtVa = Cur.start + (block.i - 1)
    BY <2>1 DEF AtVa
  <2> QED BY <2>1, <2>2
<1> HIDE DEF at
<1> DEFINE pc == Rel(AtVa)
<1>7. pc \in VA /\ PageOf(pc) = PageOf(cpu.pc) /\ pc % PageWords = at % PageWords
  <2>1. Rel(AtVa) = Plus(cpu.pc, at - block.entry)
    BY <1>4, <1>6 DEF Rel
  <2>2. PageOf(at) = PageOf(block.entry)
    BY <1>2, <1>5
  <2> QED BY <1>1, <1>3, <1>4, <1>5, <2>1, <2>2, RelativeInPage
<1> HIDE DEF pc
<1>8. Mapped(pc)
  BY <1>4, <1>7 DEF Mapped, PageOf
<1>9. PaOf(pc) = base + (at % PageWords) /\ PaOf(pc) \in PA
  <2> DEFINE q == map[cpu.pc \div PageWords] * PageWords
             r == cpu.pc % PageWords
  <2>1. PaOf(cpu.pc) = q + r /\ PaOf(pc) = q + (at % PageWords)
    BY <1>7 DEF PaOf, PageOf
  <2>2. PaOf(cpu.pc) % PageWords = r /\ PaOf(cpu.pc) \in PA
    BY <1>1, <1>4, PaOfType
  <2>3. r \in Int
    BY <1>1, Sizes
  <2>4. q \in Int
    <3>1. map[cpu.pc \div PageWords] \in Int
      <4>1. cpu.pc \div PageWords \in 0 .. NumVPages - 1
        BY <1>1, Sizes, OfSpace DEF VA
      <4>2. map \in [0 .. NumVPages - 1 -> (0 .. NumPPages - 1) \cup {None}]
        BY <1>1, GuestAssumption DEF Mapping
      <4>3. map[cpu.pc \div PageWords] \in 0 .. NumPPages - 1
        BY <1>4, <4>1, <4>2 DEF Mapped
      <4> QED BY <4>3
    <3> QED BY <3>1, Sizes
  <2> HIDE DEF q, r
  <2>5. base = q
    BY <2>1, <2>2, <2>3, <2>4 DEF PageBase
  <2>6. PaOf(pc) \in PA
    BY <1>1, <1>7, <1>8, PaOfType
  <2> QED BY <2>1, <2>5, <2>6
<1>10. AtInsn \in old[PaOf(pc)]
  BY <1>5, <1>9
<1>11. AtInsn.op # "blr" /\ AtInsn \in Insn
  BY <1>1, <1>9, <1>10 DEF FetchOK
<1> QED BY <1>8, <1>10, <1>11 DEF pc

(* An inlined instruction.                                                  *)
LEMMA RetireGuest == ASSUME RInv, RunOp \/ RunStore PROVE GuestStep
<1>1. /\ InBlock /\ Retire /\ place = "block" /\ cpu \in Cpu /\ IInv
      /\ \/ AtInsn.op = "op" /\ nzcv' = ~ nzcv /\ UNCHANGED <<mem, old>>
         \/ AtInsn.op = "st" /\ StoreEffect /\ UNCHANGED nzcv
  BY DEF RInv, IInv, TypeOK, RunOp, RunStore, InBlock
<1>2. /\ block' = [block EXCEPT !.i = @ + 1] /\ block \in Region
      /\ UNCHANGED <<cpu, map, place>>
  BY <1>1, Running DEF Retire
<1>3. /\ block'.i = block.i + 1 /\ block'.ridx = block.ridx /\ block'.blocks = block.blocks
      /\ block'.pc0 = block.pc0 /\ block'.entry = block.entry
  BY <1>2 DEF Region
<1>4. Rel(AtVa)' = Plus(Rel(AtVa), 1)
  <2>1. block.i \in Nat /\ block.i # 0 /\ Cur.start \in Int /\ AtVa \in Int
        /\ block.pc0 \in Int /\ block.entry \in Int
    BY <1>1, <1>2, Running, Sizes, Bounds DEF InBlock, Block, Region
  <2>2. AtVa = Cur.start + (block.i - 1)
    BY <2>1 DEF AtVa
  <2>3. AtVa' = Cur.start + ((block.i + 1) - 1)
    <3>1. block.i + 1 # 0
      BY <2>1
    <3> QED BY <1>3, <3>1 DEF AtVa, Cur
  <2>4. AtVa' - block.entry = (AtVa - block.entry) + 1
    <3> DEFINE a == AtVa
               b == AtVa'
               s == Cur.start
    <3>1. a = s + (block.i - 1) /\ b = s + ((block.i + 1) - 1) /\ s \in Int
      BY <2>1, <2>2, <2>3
    <3> HIDE DEF a, b, s
    <3>2. b - block.entry = (a - block.entry) + 1
      BY <2>1, <3>1
    <3> QED BY <3>2 DEF a, b
  <2>5. Rel(AtVa)' = Plus(block.pc0, (AtVa - block.entry) + 1)
    BY <1>3, <2>4 DEF Rel
  <2>6. AtVa - block.entry \in Int
    BY <2>1
  <2>7. Plus(Plus(block.pc0, AtVa - block.entry), 1) = Plus(block.pc0, (AtVa - block.entry) + 1)
    <3> DEFINE pc0 == block.pc0
               x == AtVa - block.entry
    <3>1. 1 \in Int /\ pc0 \in Int /\ x \in Int
      BY <2>1, <2>6
    <3> HIDE DEF pc0, x
    <3>2. Plus(Plus(pc0, x), 1) = Plus(pc0, x + 1)
      BY Zenon, <3>1, PlusPlus
    <3> QED BY Zenon, <3>2 DEF pc0, x
  <2>8. Rel(AtVa) = Plus(block.pc0, AtVa - block.entry)
    BY Zenon DEF Rel
  <2> QED BY Zenon, <2>5, <2>7, <2>8
<1>5. ArchCpu = [pc |-> Rel(AtVa), flag |-> nzcv, lr |-> cpu.lr, elr |-> cpu.elr,
                 spsr |-> cpu.spsr, masked |-> cpu.masked]
  BY <1>1, ArchInBlock
<1>6. ArchCpu' = [pc |-> Plus(Rel(AtVa), 1), flag |-> nzcv', lr |-> cpu.lr, elr |-> cpu.elr,
                  spsr |-> cpu.spsr, masked |-> cpu.masked]
  BY <1>1, <1>2, <1>4 DEF ArchCpu, Cpu
<1>7. ArchCpu' = After(ArchCpu, AtInsn)
  <2> DEFINE c == ArchCpu
             d == ArchCpu'
  <2>1. CASE AtInsn.op = "op" /\ nzcv' = ~ nzcv
    <3>1. After(c, AtInsn) = [c EXCEPT !.pc = Plus(c.pc, 1), !.flag = ~ c.flag]
      BY <2>1 DEF After
    <3>2. c.flag = nzcv /\ c.pc = Rel(AtVa)
      BY <1>5
    <3> QED BY <1>5, <1>6, <2>1, <3>1, <3>2
  <2>2. CASE AtInsn.op = "st" /\ UNCHANGED nzcv
    <3>1. After(c, AtInsn) = [c EXCEPT !.pc = Plus(c.pc, 1)]
      BY <2>2 DEF After
    <3> QED BY <1>5, <1>6, <2>2, <3>1
  <2> QED BY <1>1, <2>1, <2>2
<1>8. Mapped(ArchCpu.pc) /\ AtInsn \in old[PaOf(ArchCpu.pc)]
  <2>1. ArchCpu.pc = Rel(AtVa)
    BY <1>5
  <2> QED BY <1>1, <2>1, Fetches
<1> QED BY <1>1, <1>2, <1>7, <1>8, GuestPerforms

(* A branch, to the block it is routed to or out of the region.             *)
LEMMA BranchGuest == ASSUME RInv, RunBranch PROVE GuestStep
<1> DEFINE d == IF AtInsn.op = "b" \/ nzcv THEN AtInsn.off ELSE 1
           target == Plus(AtVa, d)
<1>1. /\ InBlock /\ AtInsn.op \in {"b", "cb"} /\ is_branch(AtInsn) /\ UNCHANGED <<mem, old>>
      /\ place = "block" /\ cpu \in Cpu /\ IInv /\ nzcv \in BOOLEAN
  BY DEF RunBranch, InBlock, RInv, IInv, TypeOK, is_branch
<1>2. d \in Int /\ AtVa \in Int
  BY <1>1, BranchIsLast
<1>3. Route(target)
  <2>1. target = IF AtInsn.op = "b" \/ nzcv THEN Plus(AtVa, AtInsn.off) ELSE Plus(AtVa, 1)
    OBVIOUS
  <2> HIDE DEF target
  <2> QED BY <2>1 DEF RunBranch
<1> HIDE DEF d
<1>4. Rel(target) = Plus(Rel(AtVa), d)
  BY <1>1, <1>2, RelMoves
<1> HIDE DEF target
<1>5. ArchCpu = [pc |-> Rel(AtVa), flag |-> nzcv, lr |-> cpu.lr, elr |-> cpu.elr,
                 spsr |-> cpu.spsr, masked |-> cpu.masked]
  BY <1>1, ArchInBlock
<1>6. UNCHANGED map /\ ArchCpu' = [pc |-> Rel(target), flag |-> nzcv, lr |-> cpu.lr,
                                   elr |-> cpu.elr, spsr |-> cpu.spsr, masked |-> cpu.masked]
  <2>1. CASE Loops(block.blocks) /\ target \in Starts(block.blocks)
    <3> DEFINE k == CHOOSE k \in 1 .. Len(block.blocks) : block.blocks[k].start = target
    <3>1. /\ block' = [block EXCEPT !.i = 0, !.rcount = @ + Len(Cur.insns), !.ridx = k]
          /\ UNCHANGED <<cpu, map, place, nzcv>>
      BY <1>3, <2>1 DEF Route
    <3>2. block \in Region /\ block.blocks \in Seq(Block)
      BY <1>1, Running DEF Region
    <3>3. block.blocks[k].start = target /\ target \in Int
      <4>1. \E j \in 1 .. Len(block.blocks) : block.blocks[j].start = target
        BY <2>1, <3>2 DEF Starts, ToSet
      <4> QED BY <1>2, <4>1, PlusType, Sizes DEF target
    <3> HIDE DEF k
    <3>4. /\ block'.i = 0 /\ block'.ridx = k /\ block'.blocks = block.blocks
          /\ block'.pc0 = block.pc0 /\ block'.entry = block.entry
      BY <3>1, <3>2 DEF Region
    <3>5. AtVa' = target
      <4>1. AtVa' = target + 0
        BY <3>3, <3>4 DEF AtVa, Cur
      <4> QED BY <3>3, <4>1
    <3>6. Rel(AtVa)' = Rel(target)
      BY <3>4, <3>5 DEF Rel
    <3> QED BY <1>1, <3>1, <3>6 DEF ArchCpu, Cpu
  <2>2. CASE ~ (Loops(block.blocks) /\ target \in Starts(block.blocks))
    <3>1. Leave(Rel(target), cpu.lr, 1, block.rcount + Len(Cur.insns), "tail")
      BY <1>3, <2>2 DEF Route
    <3>2. UNCHANGED map
      BY <3>1 DEF Leave
    <3> QED BY <1>1, <3>1, <3>2, ArchLeft
  <2> QED BY <2>1, <2>2
<1>7. ArchCpu' = After(ArchCpu, AtInsn)
  <2> DEFINE c == ArchCpu
             e == ArchCpu'
  <2>1. c.flag = nzcv /\ c.pc = Rel(AtVa)
    BY <1>5
  <2>2. After(c, AtInsn) = [c EXCEPT !.pc = Plus(c.pc, d)]
    <3>1. CASE AtInsn.op = "b"
      <4>1. After(c, AtInsn) = [c EXCEPT !.pc = Plus(c.pc, AtInsn.off)]
        BY <3>1 DEF After
      <4> QED BY <3>1, <4>1 DEF d
    <3>2. CASE AtInsn.op = "cb"
      <4>1. After(c, AtInsn) = [c EXCEPT !.pc = Plus(c.pc, IF c.flag THEN AtInsn.off ELSE 1)]
        BY <3>2 DEF After
      <4> QED BY <2>1, <3>2, <4>1 DEF d
    <3> QED BY <1>1, <3>1, <3>2
  <2> QED BY <1>4, <1>5, <1>6, <2>1, <2>2
<1>8. Mapped(ArchCpu.pc) /\ AtInsn \in old[PaOf(ArchCpu.pc)]
  <2>1. ArchCpu.pc = Rel(AtVa)
    BY <1>5
  <2> QED BY <1>1, <2>1, Fetches
<1>9. AtInsn.op \notin {"st", "ic", "remap"}
  BY <1>1
<1> QED BY <1>1, <1>6, <1>7, <1>8, <1>9, GuestPerforms

(* A call or a return.                                                      *)
LEMMA CallGuest == ASSUME RInv, RunCall PROVE GuestStep
<1> DEFINE lr == IF AtInsn.op = "ret" THEN cpu.lr ELSE Rel(Plus(AtVa, 1))
           next == IF AtInsn.op = "bl" THEN Rel(Plus(AtVa, AtInsn.off)) ELSE lr
           c == ArchCpu
<1>1. /\ InBlock /\ AtInsn.op \in {"bl", "blr", "ret"} /\ is_branch(AtInsn)
      /\ UNCHANGED <<mem, old>> /\ place = "block" /\ cpu \in Cpu /\ IInv
      /\ Leave(next, lr, 1, block.rcount + Len(Cur.insns), "tail")
  BY DEF RunCall, InBlock, RInv, IInv, TypeOK, is_branch
<1>2. AtInsn.off \in Int /\ 1 \in Int
  BY <1>1, BranchIsLast
<1>3. /\ Rel(Plus(AtVa, 1)) = Plus(Rel(AtVa), 1)
      /\ Rel(Plus(AtVa, AtInsn.off)) = Plus(Rel(AtVa), AtInsn.off)
  BY <1>1, <1>2, RelMoves
<1>4. AtInsn.op \in {"bl", "ret"}
  BY <1>1, Fetches
<1>5. c = [pc |-> Rel(AtVa), flag |-> nzcv, lr |-> cpu.lr, elr |-> cpu.elr,
           spsr |-> cpu.spsr, masked |-> cpu.masked]
  BY <1>1, ArchInBlock
<1>6. UNCHANGED map /\ ArchCpu' = [pc |-> next, flag |-> nzcv, lr |-> lr,
                                   elr |-> cpu.elr, spsr |-> cpu.spsr, masked |-> cpu.masked]
  <2> HIDE DEF next, lr
  <2>1. UNCHANGED map
    BY <1>1 DEF Leave
  <2> QED BY <1>1, <2>1, ArchLeft
<1>7. ArchCpu' = After(c, AtInsn)
  <2>1. CASE AtInsn.op = "bl"
    <3>1. After(c, AtInsn) = [c EXCEPT !.pc = Plus(c.pc, AtInsn.off), !.lr = Plus(c.pc, 1)]
      BY <2>1 DEF After
    <3>2. next = Plus(Rel(AtVa), AtInsn.off) /\ lr = Plus(Rel(AtVa), 1)
      BY <1>3, <2>1
    <3> HIDE DEF next, lr
    <3> QED BY <1>5, <1>6, <3>1, <3>2
  <2>2. CASE AtInsn.op = "ret"
    <3>1. After(c, AtInsn) = [c EXCEPT !.pc = c.lr]
      BY <2>2 DEF After
    <3>2. next = cpu.lr /\ lr = cpu.lr
      BY <2>2
    <3> HIDE DEF next, lr
    <3> QED BY <1>5, <1>6, <3>1, <3>2
  <2> QED BY <1>4, <2>1, <2>2
<1>8. Mapped(ArchCpu.pc) /\ AtInsn \in old[PaOf(ArchCpu.pc)]
  <2>1. ArchCpu.pc = Rel(AtVa)
    BY <1>5
  <2> QED BY <1>1, <2>1, Fetches
<1>9. AtInsn.op \notin {"st", "ic", "remap"}
  BY <1>4
<1> HIDE DEF next, lr, c
<1> QED BY <1>1, <1>6, <1>7, <1>8, <1>9, GuestPerforms DEF c

LEMMA StepGuest == ASSUME RInv, [Next]_vars PROVE GuestStep
<1>1. CASE Next
  BY <1>1, OutsideGuest, JitStepGuest, InterpretGuest, LeftGuest, RetireGuest, BranchGuest, CallGuest
     DEF Next, Run, Compiled
<1>2. CASE UNCHANGED vars
  BY <1>2, GuestStutters DEF vars, guest, jit, ArchCpu, Rel, AtVa, Cur
<1> QED BY <1>1, <1>2

(* The JIT is the interpreter with an instruction cache: whatever is        *)
(* compiled, cached, called through another mapping, patched, left at a     *)
(* failed access or dropped by IC, each of its steps is one the guest's     *)
(* code promises, or none.  Quiet leaves out the two things that break it,  *)
(* which runs show: switching the JIT off and on, and BLR X30.              *)
THEOREM JitImplementsGuest == Quiet /\ Spec => ImplementsGuest
<1>1. Quiet /\ Init => RInv
  BY InitFresh
<1>2. RInv /\ [Next]_vars => RInv'
  BY StepFresh
<1>3. RInv /\ [Next]_vars => [Guest!GuestNext]_(Guest!guest)
  BY StepGuest DEF GuestStep
<1>4. Init => Guest!GuestInit
  <2> SUFFICES ASSUME Init PROVE Guest!GuestInit
    OBVIOUS
  <2>1. ArchCpu = cpu /\ GuestInit
    BY DEF Init, ArchCpu
  <2> QED BY <2>1 DEF GuestInit, Guest!GuestInit, PA, Guest!PA
<1> QED BY <1>1, <1>2, <1>3, <1>4, PTL DEF Spec, ImplementsGuest, Guest!GuestSpec
=============================================================================
