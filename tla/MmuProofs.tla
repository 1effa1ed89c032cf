------------------------------ MODULE MmuProofs ------------------------------
(***************************************************************************)
(* Machine-checked proofs about translation and the TLB, for every width   *)
(* of addresses and tables, every size of the TLB, and every set of edits  *)
(* the kernel may make and of instructions that the guest may run.         *)
(***************************************************************************)
EXTENDS Mmu, TLAPS, WellFoundedInduction

-----------------------------------------------------------------------------
(* Loops *)

LEMMA LeastNatural ==
    ASSUME NEW S, S \subseteq Nat, S # {}
    PROVE  \E n \in S : \A m \in S : n <= m
<1> DEFINE Less == {ss \in Nat \X Nat : ss[1] < ss[2]}
<1>1. IsWellFoundedOn(Less, Nat)
  BY NatLessThanWellFounded, Zenon DEF OpToRel
<1>2. \E n \in S : \A m \in S : ~ (<<m, n>> \in Less)
  <2> HIDE DEF Less
  <2> QED BY <1>1, WFMin
<1>3. \A m, n \in Nat : ~ (<<m, n>> \in Less) => n <= m
  OBVIOUS
<1> QED BY <1>2, <1>3

(* A set that holds a and, with each number below b, the next one, holds    *)
(* all of a .. b.                                                           *)
LEMMA Through ==
    ASSUME NEW a \in Nat, NEW b \in Nat, NEW S,
           a \in S, \A k \in a .. b - 1 : k \in S => k + 1 \in S
    PROVE  a .. b \subseteq S
<1> DEFINE Missing == {k \in a .. b : k \notin S}
<1> SUFFICES ASSUME Missing # {} PROVE FALSE
  OBVIOUS
<1>1. PICK k \in Missing : \A m \in Missing : k <= m
  <2>1. Missing \subseteq Nat
    OBVIOUS
  <2> HIDE DEF Missing
  <2> QED BY <2>1, LeastNatural
<1>2. k \in a + 1 .. b /\ k - 1 \notin Missing /\ k - 1 \in a .. b - 1
  BY <1>1
<1>3. k - 1 \in S /\ (k - 1) + 1 = k
  BY <1>2
<1> QED BY <1>1, <1>2, <1>3

\* The runs of a loop that steps from a to b through values of X.
LoopRuns(a, b, X, start, step) ==
    {f \in [a .. b -> X] : f[a] = start /\ \A k \in a + 1 .. b : f[k] = step[<<f[k - 1], k>>]}

LEMMA LoopHasRun ==
    ASSUME NEW a \in Nat, NEW b \in Nat, a <= b, NEW X, NEW start \in X,
           NEW step \in [X \X (a + 1 .. b) -> X]
    PROVE  LoopRuns(a, b, X, start, step) # {}
<1> DEFINE Turn(f, k) == IF k = a THEN start ELSE step[<<f[k - 1], k>>]
           Runs(m) == {f \in [a .. m -> X] : \A k \in a .. m : f[k] = Turn(f, k)}
           S == {m \in a .. b : Runs(m) # {}}
<1>1. a \in S
  <2> DEFINE f == [k \in a .. a |-> start]
  <2>1. f \in [a .. a -> X] /\ \A k \in a .. a : f[k] = Turn(f, k)
    OBVIOUS
  <2>2. f \in Runs(a) /\ a \in a .. b
    BY <2>1
  <2> QED BY Zenon, <2>2
<1>2. ASSUME NEW m \in a .. b - 1, m \in S PROVE m + 1 \in S
  <2>1. PICK f \in [a .. m -> X] : \A k \in a .. m : f[k] = Turn(f, k)
    BY <1>2
  <2> DEFINE g == [k \in a .. m + 1 |-> IF k = m + 1 THEN step[<<f[m], m + 1>>] ELSE f[k]]
  <2>2. m \in Nat /\ m + 1 \in a .. b /\ m + 1 \in a + 1 .. b /\ m \in a .. m
    OBVIOUS
  <2>3. step[<<f[m], m + 1>>] \in X
    BY <2>2
  <2>4. g \in [a .. m + 1 -> X]
    BY <2>2, <2>3
  <2>5. ASSUME NEW k \in a .. m + 1 PROVE g[k] = Turn(g, k)
    <3>1. CASE k = m + 1
      <4>1. k # a /\ k - 1 = m /\ m \in a .. m + 1 /\ m # m + 1
        BY <2>2, <3>1
      <4>2. g[k - 1] = f[m]
        BY <4>1
      <4>3. g[k] = step[<<f[m], m + 1>>]
        BY <3>1
      <4> QED BY <3>1, <4>1, <4>2, <4>3
    <3>2. CASE k # m + 1
      <4>1. k \in a .. m /\ (k # a => k - 1 \in a .. m + 1 /\ k - 1 # m + 1)
        BY <2>2, <3>2
      <4>2. g[k] = f[k] /\ (k # a => g[k - 1] = f[k - 1])
        BY <2>2, <3>2, <4>1
      <4> HIDE DEF g
      <4> QED BY <2>1, <4>1, <4>2
    <3> QED BY <3>1, <3>2
  <2> HIDE DEF g
  <2>6. g \in Runs(m + 1)
    BY <2>4, <2>5
  <2> QED BY <2>2, <2>6
<1>3. b \in S
  <2>1. a .. b \subseteq S
    <3> HIDE DEF S
    <3> QED BY <1>1, <1>2, Through
  <2>2. b \in a .. b
    OBVIOUS
  <2> HIDE DEF S
  <2> QED BY <2>1, <2>2
<1>4. PICK f \in [a .. b -> X] : \A k \in a .. b : f[k] = Turn(f, k)
  BY <1>3
<1>5. a \in a .. b /\ \A k \in a + 1 .. b : k \in a .. b /\ k # a
  OBVIOUS
<1> QED BY <1>4, <1>5 DEF LoopRuns
-----------------------------------------------------------------------------
(* The walk *)

LevelRange == StartingLevel .. LastLevel + 1

LEMMA Levels0to3 ==
    /\ StartingLevel \in Nat /\ LastLevel \in Nat /\ LastLevel + 1 \in Nat
    /\ StartingLevel <= LastLevel + 1 /\ LastLevel + 1 \in LevelRange
    /\ \A l \in StartingLevel .. LastLevel : l \in Levels /\ l \in LevelRange /\ l + 1 \in LevelRange
BY MmuArithmetic DEF LevelRange, Levels, LastLevel

LEMMA Disjoint ==
    /\ \A x \in Leaf : x \notin Faults /\ x # None
    /\ \A x \in Faults : x \notin Leaf /\ x # None
    /\ \A x \in Tables : x # None
    /\ \A x \in Abort : x # None
    /\ \A x \in Entry : x # None
    /\ \A i \in Insns : i # None
<1>1. \A x \in Leaf : x \notin Faults
  <2> SUFFICES ASSUME NEW x \in Leaf, x \in Faults PROVE FALSE
    OBVIOUS
  <2>1. "frame" \in DOMAIN x
    BY DEF Leaf
  <2>2. DOMAIN x = {"fsc", "level"}
    BY DEF Faults
  <2> QED BY <2>1, <2>2
<1> QED BY Zenon, <1>1, MmuAssumption

LEMMA FrameOfBlock ==
    ASSUME NEW level \in StartingLevel .. LastLevel, NEW d \in LeafDesc, NEW p \in Pages
    PROVE  BlockFrame(d, level, p) \in Frames
<1> DEFINE S == Span(level)
           q == d.out \div S
           r == p.n % S
<1>1. S \in Nat \ {0} /\ NumFrames % S = 0 /\ NumFrames \in Nat
  BY MmuArithmetic, MmuAssumption
<1>2. d.out \in Nat /\ d.out < NumFrames
  BY <1>1 DEF LeafDesc, Frames
<1>3. p.n \in Nat
  BY MmuArithmetic DEF Pages
<1> HIDE DEF S
<1>4. q \in Nat /\ r \in 0 .. S - 1
  BY <1>1, <1>2, <1>3
<1>5. PICK n \in Nat : NumFrames = n * S
  <2>1. \A m \in Nat, z \in Nat \ {0} : m % z = 0 => m \div z \in Nat /\ m = (m \div z) * z
    OBVIOUS
  <2>2. NumFrames \div S \in Nat /\ NumFrames = (NumFrames \div S) * S
    BY <1>1, <2>1
  <2> QED BY Zenon, <2>2
<1>6. q * S <= d.out
  BY <1>1, <1>2
<1>7. q + 1 <= n
  <2>1. \A a, b, c \in Nat : a >= b => a * c >= b * c
    OBVIOUS
  <2>2. q * S < n * S
    BY <1>2, <1>4, <1>5, <1>6, <1>1
  <2>3. ~ q >= n
    BY <2>1, <2>2, <1>4, <1>1
  <2> QED BY <2>3, <1>4
<1>8. q * S + S <= n * S
  <2>1. \A a, b, c \in Nat : a + 1 <= b => a * c + c <= b * c
    OBVIOUS
  <2> QED BY <2>1, <1>7, <1>4, <1>1
<1>9. q * S \in Nat
  BY <1>1, <1>4
<1> HIDE DEF q, r
<1>10. q * S + r \in 0 .. NumFrames - 1
  BY <1>1, <1>4, <1>5, <1>8, <1>9
<1> QED BY <1>10 DEF BlockFrame, Frames, q, r, S

LEMMA IndexInTable ==
    ASSUME NEW level \in StartingLevel .. LastLevel, NEW p \in Pages
    PROVE  IndexAt(level, p) \in 0 .. Fan - 1
<1>1. Span(level) \in Nat \ {0} /\ Fan \in Nat \ {0}
  BY MmuArithmetic
<1>2. p.n \in Nat
  BY MmuArithmetic DEF Pages
<1> HIDE DEF Fan
<1>3. \A S, F \in Nat \ {0}, n \in Nat : (n \div S) % F \in 0 .. F - 1
  OBVIOUS
<1> QED BY <1>1, <1>2, <1>3 DEF IndexAt

(* What a level shows is a descriptor, and at the last level no table.      *)
LEMMA SeenType ==
    ASSUME NEW d \in Desc, NEW level \in StartingLevel .. LastLevel
    PROVE  /\ Seen(d, level) \in Desc
           /\ Seen(d, level).kind \in {"invalid", "leaf", "table"}
           /\ Seen(d, level).kind = "leaf" => Seen(d, level) \in LeafDesc
           /\ Seen(d, level).kind = "table" => Seen(d, level) \in TableDesc /\ Seen(d, level) = d
           /\ level = LastLevel => Seen(d, level).kind # "table"
           /\ level # LastLevel => Seen(d, level) = d
           /\ d.kind # "table" => Seen(d, level) = d
<1>1. \A e \in Desc : /\ e.kind \in {"invalid", "leaf", "table"}
                      /\ e.kind = "leaf" => e \in LeafDesc
                      /\ e.kind = "table" => e \in TableDesc
  BY DEF Desc, LeafDesc, TableDesc
<1>2. CASE level = LastLevel /\ d.kind = "table"
  <2>1. Seen(d, level) = AsPage[d] /\ d \in TableDesc
    BY <1>1, <1>2 DEF Seen
  <2>2. AsPage[d] \in LeafDesc
    BY <2>1, MmuAssumption
  <2>3. AsPage[d] \in Desc /\ AsPage[d].kind = "leaf"
    BY <2>2 DEF Desc, LeafDesc
  <2> QED BY Zenon, <1>1, <1>2, <2>1, <2>2, <2>3
<1>3. CASE ~ (level = LastLevel /\ d.kind = "table")
  <2>1. Seen(d, level) = d
    BY <1>3 DEF Seen
  <2> QED BY Zenon, <1>1, <1>3, <2>1
<1> QED BY Zenon, <1>2, <1>3

PageTables == [Places -> Desc]

LEMMA LeafOfType ==
    ASSUME NEW d \in LeafDesc, NEW tp \in TablePerms, NEW p \in Pages,
           NEW level \in StartingLevel .. LastLevel
    PROVE  LeafOf(d, level, tp, p) \in Leaf
<1>1. BlockFrame(d, level, p) \in Frames /\ level \in Levels
  BY FrameOfBlock, Levels0to3
<1>2. d.el0 \in BOOLEAN /\ d.ro \in BOOLEAN /\ d.uxn \in BOOLEAN /\ d.pxn \in BOOLEAN
  BY DEF LeafDesc
<1>3. tp.no_el0 \in BOOLEAN /\ tp.no_write \in BOOLEAN /\ tp.uxn \in BOOLEAN /\ tp.pxn \in BOOLEAN
  BY DEF TablePerms
<1> QED BY <1>1, <1>2, <1>3 DEF LeafOf, Leaf

LEMMA DescendType ==
    ASSUME NEW t \in PageTables, NEW p \in Pages, NEW c \in Cursor,
           NEW level \in StartingLevel .. LastLevel
    PROVE  /\ Descend(c, t, level, p) \in Cursor
           /\ c.found # None => Descend(c, t, level, p) = c
           /\ level = LastLevel => Descend(c, t, level, p).found # None
<1> DEFINE d == Seen(t[<<c.table, IndexAt(level, p)>>], level)
<1>1. c.table \in Tables /\ c.tp \in TablePerms /\ c.found \in Leaf \cup Faults \cup {None}
  BY DEF Cursor
<1>2. t[<<c.table, IndexAt(level, p)>>] \in Desc
  BY Zenon, <1>1, IndexInTable DEF PageTables, Places
<1>3. /\ d.kind \in {"invalid", "leaf", "table"}
      /\ d.kind = "leaf" => d \in LeafDesc
      /\ d.kind = "table" => d \in TableDesc
      /\ level = LastLevel => d.kind # "table"
  BY Zenon, <1>2, SeenType
<1>4. level \in Levels
  BY Levels0to3
<1> HIDE DEF d
<1>5. CASE c.found # None
  <2>1. Descend(c, t, level, p) = c
    BY <1>5 DEF Descend
  <2> QED BY <1>5, <2>1
<1>6. CASE c.found = None /\ d.kind = "invalid"
  <2>1. Descend(c, t, level, p) = [c EXCEPT !.found = Fault("translation", level)]
    BY <1>6 DEF Descend, d
  <2>2. Fault("translation", level) \in Faults
    BY <1>4 DEF Fault, Faults
  <2> QED BY <1>6, <2>1, <2>2, Disjoint DEF Cursor
<1>7. CASE c.found = None /\ d.kind = "leaf"
  <2> DEFINE found == IF d.af THEN LeafOf(d, level, c.tp, p) ELSE Fault("access_flag", level)
  <2>1. Descend(c, t, level, p) = [c EXCEPT !.found = found]
    BY <1>7 DEF Descend, d
  <2>2. Fault("access_flag", level) \in Faults
    BY <1>4 DEF Fault, Faults
  <2>3. LeafOf(d, level, c.tp, p) \in Leaf
    BY Zenon, <1>1, <1>3, <1>7, LeafOfType
  <2>4. found \in Leaf \cup Faults /\ found # None
    BY <2>2, <2>3, Disjoint
  <2> HIDE DEF found
  <2> QED BY <1>7, <2>1, <2>4 DEF Cursor
<1>8. CASE c.found = None /\ d.kind = "table"
  <2>1. Descend(c, t, level, p) = [c EXCEPT !.table = d.next, !.tp = Tighten(c.tp, d)]
    BY <1>8 DEF Descend, d
  <2>2. d.next \in Tables /\ d.perms \in TablePerms
    BY <1>3, <1>8 DEF TableDesc
  <2>3. Tighten(c.tp, d) \in TablePerms
    BY <1>1, <2>2 DEF Tighten, TablePerms
  <2> QED BY <1>1, <1>3, <1>8, <2>1, <2>2, <2>3 DEF Cursor
<1> QED BY Zenon, <1>3, <1>5, <1>6, <1>7, <1>8

(* The walk is the loop it says it is.                                      *)
LEMMA WalkSteps ==
    ASSUME NEW t \in PageTables, NEW p \in Pages, NEW root \in Tables
    PROVE  /\ CursorIn(t, root, p) \in [LevelRange -> Cursor]
           /\ CursorIn(t, root, p)[StartingLevel] = AtRoot(root)
           /\ \A l \in StartingLevel .. LastLevel :
                 CursorIn(t, root, p)[l + 1] = Descend(CursorIn(t, root, p)[l], t, l, p)
<1> DEFINE a == StartingLevel
           b == LastLevel + 1
           start == AtRoot(root)
           Turn(f, k) == IF k = a THEN start ELSE Descend(f[k - 1], t, k - 1, p)
           step == [x \in Cursor \X (a + 1 .. b) |-> Descend(x[1], t, x[2] - 1, p)]
           run == CHOOSE h : h = [k \in a .. b |-> Turn(h, k)]
<1>1. start \in Cursor
  BY DEF AtRoot, Unrestricted, Cursor, TablePerms
<1>2. a \in Nat /\ b \in Nat /\ a <= b
  BY Levels0to3
<1>3. \A k \in a + 1 .. b : k - 1 \in StartingLevel .. LastLevel /\ k - 1 \in a .. b /\ k # a /\ k \in a .. b
  BY Levels0to3 DEF LastLevel
<1>4. step \in [Cursor \X (a + 1 .. b) -> Cursor]
  <2> SUFFICES ASSUME NEW x \in Cursor \X (a + 1 .. b) PROVE Descend(x[1], t, x[2] - 1, p) \in Cursor
    OBVIOUS
  <2>1. x[1] \in Cursor /\ x[2] \in a + 1 .. b
    OBVIOUS
  <2>2. x[2] - 1 \in StartingLevel .. LastLevel
    BY <2>1, <1>3
  <2> QED BY Zenon, <2>1, <2>2, DescendType
<1>5. \A k \in a .. b : k # a => k \in a + 1 .. b
  BY <1>2
<1>6. \A x \in Cursor, k \in a + 1 .. b : step[<<x, k>>] = Descend(x, t, k - 1, p)
  OBVIOUS
<1> HIDE DEF a, b, start, step
<1>7. PICK f \in [a .. b -> Cursor] :
         f[a] = start /\ \A k \in a + 1 .. b : f[k] = step[<<f[k - 1], k>>]
  <2>1. LoopRuns(a, b, Cursor, start, step) # {}
    BY <1>1, <1>2, <1>4, LoopHasRun
  <2> QED BY <2>1 DEF LoopRuns
<1>8. \A k \in a .. b : f[k] = Turn(f, k)
  BY <1>3, <1>5, <1>6, <1>7
<1>9. f = [k \in a .. b |-> Turn(f, k)]
  <2> HIDE DEF Turn
  <2> QED BY Zenon, <1>8
<1>10. run = [k \in a .. b |-> Turn(run, k)]
  <2> HIDE DEF Turn
  <2> QED BY Zenon, <1>9
<1>11. CursorIn(t, root, p) = run
  BY Zenon DEF CursorIn, a, b, start
<1> HIDE DEF run
<1>12. \A k \in a .. b : run[k] = Turn(run, k)
  <2> HIDE DEF Turn
  <2> QED BY Zenon, <1>10
<1> DEFINE Same == {k \in a .. b : run[k] \in Cursor}
<1>13. a \in Same
  BY <1>1, <1>2, <1>12
<1>14. \A l \in StartingLevel .. LastLevel : run[l + 1] = Descend(run[l], t, l, p)
  <2> SUFFICES ASSUME NEW l \in StartingLevel .. LastLevel PROVE run[l + 1] = Descend(run[l], t, l, p)
    OBVIOUS
  <2>1. l + 1 \in a .. b /\ l + 1 # a /\ (l + 1) - 1 = l
    BY Levels0to3 DEF a, b, LastLevel
  <2> QED BY <1>12, <2>1
<1>15. ASSUME NEW k \in a .. b - 1, k \in Same PROVE k + 1 \in Same
  <2>1. k \in StartingLevel .. LastLevel /\ k + 1 \in a .. b
    BY Levels0to3 DEF a, b, LastLevel
  <2>2. run[k + 1] \in Cursor
    BY <1>14, <1>15, <2>1, DescendType
  <2> QED BY <2>1, <2>2
<1>16. a .. b \subseteq Same
  <2> HIDE DEF Same
  <2> QED BY <1>2, <1>13, <1>15, Through
<1>17. run \in [a .. b -> Cursor]
  <2> HIDE DEF Turn
  <2> QED BY <1>10, <1>16
<1>18. run[a] = start
  BY <1>2, <1>12
<1> QED BY Zenon, <1>11, <1>14, <1>17, <1>18 DEF a, b, start, LevelRange

(* The walk ends in a leaf or in a fault.                                   *)
LEMMA WalkEnds ==
    ASSUME NEW t \in PageTables, NEW p \in Pages, NEW root \in Tables
    PROVE  CursorIn(t, root, p)[LastLevel + 1].found \in Leaf \cup Faults
<1> DEFINE c == CursorIn(t, root, p)
<1>1. LastLevel \in StartingLevel .. LastLevel /\ LastLevel \in LevelRange /\ LastLevel + 1 \in LevelRange
  BY MmuArithmetic DEF Levels, LastLevel, LevelRange
<1>2. c \in [LevelRange -> Cursor] /\ c[LastLevel + 1] = Descend(c[LastLevel], t, LastLevel, p)
  BY <1>1, WalkSteps
<1> HIDE DEF c
<1>3. c[LastLevel] \in Cursor /\ c[LastLevel + 1] \in Cursor
  BY Zenon, <1>1, <1>2
<1>4. c[LastLevel + 1].found # None
  BY Zenon, <1>1, <1>2, <1>3, DescendType
<1>5. c[LastLevel + 1].found \in Leaf \cup Faults
  BY <1>3, <1>4 DEF Cursor
<1> QED BY <1>5 DEF c

(* What the walk has found, it keeps.                                       *)
LEMMA FoundIsKept ==
    ASSUME NEW t \in PageTables, NEW p \in Pages, NEW root \in Tables, NEW l \in LevelRange,
           CursorIn(t, root, p)[l].found # None
    PROVE  CursorIn(t, root, p)[LastLevel + 1].found = CursorIn(t, root, p)[l].found
<1> DEFINE c == CursorIn(t, root, p)
           top == LastLevel + 1
           Kept == {m \in l .. top : c[m].found = c[l].found}
<1>1. l \in Nat /\ top \in Nat /\ l \in l .. top /\ top \in l .. top
  BY Levels0to3 DEF LevelRange
<1>2. /\ c \in [LevelRange -> Cursor]
      /\ \A m \in StartingLevel .. LastLevel : c[m + 1] = Descend(c[m], t, m, p)
  BY WalkSteps
<1>3. c[l].found # None
  OBVIOUS
<1>0. \A m \in l .. top - 1 :
         m \in StartingLevel .. LastLevel /\ m \in LevelRange /\ m + 1 \in l .. top
  BY <1>1, Levels0to3 DEF LevelRange, LastLevel
<1> HIDE DEF c, top
<1>4. l \in Kept
  BY <1>1
<1>5. ASSUME NEW m \in l .. top - 1, m \in Kept PROVE m + 1 \in Kept
  <2>1. m \in StartingLevel .. LastLevel /\ m \in LevelRange /\ m + 1 \in l .. top
    BY <1>0
  <2>2. c[m] \in Cursor /\ c[m].found # None
    BY <1>2, <1>3, <1>5, <2>1
  <2>3. c[m + 1] = c[m]
    BY Zenon, <1>2, <2>1, <2>2, DescendType
  <2> QED BY <1>5, <2>1, <2>3
<1>6. l .. top \subseteq Kept
  <2> HIDE DEF Kept
  <2> QED BY <1>1, <1>4, <1>5, Through
<1>7. c[top].found = c[l].found
  BY <1>1, <1>6
<1> QED BY <1>7 DEF c, top

(* Replacing a descriptor that no TLB may hold changes no walk that ends in *)
(* a leaf: such a walk did not read it.                                     *)
LEMMA WalkUnchanged ==
    ASSUME NEW t \in PageTables, NEW p \in Pages, NEW root \in Tables,
           NEW place \in Places, NEW d \in Desc, ~ Cacheable(t[place]),
           CursorIn(t, root, p)[LastLevel + 1].found \notin Faults
    PROVE  CursorIn([t EXCEPT ![place] = d], root, p)[LastLevel + 1].found
             = CursorIn(t, root, p)[LastLevel + 1].found
<1> DEFINE new == [t EXCEPT ![place] = d]
           b == CursorIn(t, root, p)
           c == CursorIn(new, root, p)
           top == LastLevel + 1
           Same == {l \in StartingLevel .. top : b[l] = c[l]}
<1>1. new \in PageTables
  BY DEF PageTables
<1> HIDE DEF new
<1>2. /\ b \in [LevelRange -> Cursor] /\ b[StartingLevel] = AtRoot(root)
      /\ \A l \in StartingLevel .. LastLevel : b[l + 1] = Descend(b[l], t, l, p)
  BY WalkSteps
<1>3. /\ c \in [LevelRange -> Cursor] /\ c[StartingLevel] = AtRoot(root)
      /\ \A l \in StartingLevel .. LastLevel : c[l + 1] = Descend(c[l], new, l, p)
  BY <1>1, WalkSteps
<1>4. \A l \in LevelRange : b[l].found # None => b[top].found = b[l].found
  BY FoundIsKept
<1>5. b[top].found \notin Faults
  OBVIOUS
<1>6. /\ StartingLevel \in Nat /\ top \in Nat /\ top \in StartingLevel .. top
      /\ StartingLevel \in StartingLevel .. top
      /\ \A l \in StartingLevel .. top - 1 :
            /\ l \in StartingLevel .. LastLevel /\ l + 1 \in StartingLevel .. top /\ l \in Levels
            /\ l \in LevelRange /\ l + 1 \in LevelRange
  BY Levels0to3 DEF LevelRange, LastLevel
<1> HIDE DEF b, c, top
<1>7. StartingLevel \in Same
  BY <1>2, <1>3, <1>6
<1>8. ASSUME NEW l \in StartingLevel .. top - 1, l \in Same PROVE l + 1 \in Same
  <2>1. l \in StartingLevel .. LastLevel /\ l + 1 \in StartingLevel .. top /\ l \in Levels
        /\ l \in LevelRange /\ l + 1 \in LevelRange
    BY <1>6
  <2>2. b[l] \in Cursor /\ c[l] = b[l] /\ b[l].table \in Tables
    BY <1>2, <1>8, <2>1 DEF Cursor
  <2> DEFINE read == <<b[l].table, IndexAt(l, p)>>
             e == Seen(t[read], l)
  <2>3. read \in Places
    BY <2>1, <2>2, IndexInTable DEF Places
  <2>4. CASE b[l].found # None
    <3>1. b[l] \in Cursor /\ l \in StartingLevel .. LastLevel
      BY <2>1, <2>2
    <3>2. Descend(b[l], t, l, p) = b[l] /\ Descend(b[l], new, l, p) = b[l]
      BY <1>1, <2>4, <3>1, DescendType
    <3> QED BY <1>2, <1>3, <2>1, <2>2, <3>2
  <2>5. CASE b[l].found = None /\ read # place
    <3>1. new[read] = t[read]
      BY <2>3, <2>5 DEF new, PageTables
    <3>2. Descend(b[l], t, l, p) = Descend(b[l], new, l, p)
      BY Zenon, <3>1 DEF Descend
    <3> QED BY <1>2, <1>3, <2>1, <2>2, <3>2
  <2>6. CASE b[l].found = None /\ read = place
    <3>1. t[read] \in Desc /\ t[read].kind # "table" /\ ~ (t[read].kind = "leaf" /\ t[read].af)
      BY <2>3, <2>6 DEF Cacheable, PageTables
    <3>2. e = t[read] /\ e.kind \in {"invalid", "leaf"} /\ ~ (e.kind = "leaf" /\ e.af)
      BY <2>1, <3>1, SeenType
    <3> HIDE DEF e
    <3>3. PICK fsc \in {"translation", "access_flag"} :
             Descend(b[l], t, l, p) = [b[l] EXCEPT !.found = Fault(fsc, l)]
      BY <2>6, <3>2 DEF Descend, e
    <3>4. Fault(fsc, l) \in Faults
      BY <2>1 DEF Fault, Faults
    <3>5. b[l + 1].found = Fault(fsc, l)
      BY <1>2, <2>1, <2>2, <3>3 DEF Cursor
    <3>6. b[top].found \in Faults
      BY <1>4, <2>1, <3>4, <3>5, Disjoint
    <3> QED BY <1>5, <3>6
  <2> QED BY <2>4, <2>5, <2>6
<1>9. StartingLevel .. top \subseteq Same
  <2> HIDE DEF Same
  <2> QED BY <1>6, <1>7, <1>8, Through
<1>10. b[top] = c[top]
  BY <1>6, <1>9
<1> QED BY <1>10 DEF b, c, new, top

-----------------------------------------------------------------------------
(* The walk follows the architecture's rule *)

\* The restrictions of the tables passed so far let the access through.
Lets(tp, access, el) ==
    /\ el = 0 /\ access # "exec" => ~ tp.no_el0
    /\ access = "write" => ~ tp.no_write
    /\ access = "exec" => ~ (IF el = 0 THEN tp.uxn ELSE tp.pxn)

LEMMA AllowsOfTable ==
    ASSUME NEW tp \in TablePerms, NEW d \in TableDesc, NEW access \in AccessKinds, NEW el \in {0, 1}
    PROVE  Lets(Tighten(tp, d), access, el) <=> Lets(tp, access, el) /\ Allows(d, access, el)
<1>1. d.kind = "table" /\ d.perms \in TablePerms
  BY DEF TableDesc
<1>2. access \in {"read", "write", "exec"}
  BY DEF AccessKinds
<1>3. d.kind # "leaf"
  BY <1>1
<1>4. CASE access = "exec" /\ el = 0
  BY <1>1, <1>3, <1>4 DEF Lets, Tighten, Allows
<1>5. CASE access = "exec" /\ el = 1
  BY <1>1, <1>3, <1>5 DEF Lets, Tighten, Allows
<1>6. CASE access # "exec"
  BY <1>1, <1>2, <1>3, <1>6 DEF Lets, Tighten, Allows
<1> QED BY <1>4, <1>5, <1>6

LEMMA AllowsOfLeaf ==
    ASSUME NEW tp \in TablePerms, NEW d \in LeafDesc, NEW access \in AccessKinds, NEW el \in {0, 1},
           NEW level, NEW p
    PROVE  /\ d.af => (Permits(LeafOf(d, level, tp, p), access, el)
                         <=> Lets(tp, access, el) /\ Allows(d, access, el))
           /\ ~ d.af => ~ Allows(d, access, el)
<1>1. d.kind = "leaf" /\ d.kind # "table"
  BY DEF LeafDesc
<1>2. access \in {"read", "write", "exec"}
  BY DEF AccessKinds
<1> DEFINE leaf == LeafOf(d, level, tp, p)
<1>3. /\ leaf.el0_access = (d.el0 /\ ~ tp.no_el0) /\ leaf.read_only = (d.ro \/ tp.no_write)
      /\ leaf.uxn = (d.uxn \/ tp.uxn) /\ leaf.pxn = (d.pxn \/ tp.pxn)
  BY DEF LeafOf
<1> HIDE DEF leaf
<1>4. CASE access = "exec" /\ el = 0
  BY <1>1, <1>3, <1>4 DEF Lets, Permits, Allows, leaf
<1>5. CASE access = "exec" /\ el = 1
  BY <1>1, <1>3, <1>5 DEF Lets, Permits, Allows, leaf
<1>6. CASE access = "read"
  BY <1>1, <1>3, <1>6 DEF Lets, Permits, Allows, leaf
<1>7. CASE access = "write"
  BY <1>1, <1>3, <1>7 DEF Lets, Permits, Allows, leaf
<1> QED BY <1>2, <1>4, <1>5, <1>6, <1>7

NextTable(x, l, p) ==
    IF x = None THEN None
    ELSE LET d == tables[<<x, IndexAt(l, p)>>] IN IF d.kind = "table" THEN d.next ELSE None

LEMMA NextTableType ==
    ASSUME tables \in PageTables, NEW p \in Pages, NEW l \in StartingLevel .. LastLevel,
           NEW x \in Tables \cup {None}
    PROVE  NextTable(x, l, p) \in Tables \cup {None}
<1>1. CASE x = None
  BY <1>1 DEF NextTable
<1>2. CASE x # None
  <2> DEFINE d == tables[<<x, IndexAt(l, p)>>]
  <2>1. d \in Desc
    BY <1>2, IndexInTable DEF PageTables, Places
  <2>2. d.kind = "table" => d.next \in Tables
    BY <2>1 DEF Desc, TableDesc, LeafDesc
  <2> HIDE DEF d
  <2> QED BY <1>2, <2>2 DEF NextTable, d
<1> QED BY <1>1, <1>2

(* The path of the architecture's rule is the loop it says it is.           *)
LEMMA PathSteps ==
    ASSUME tables \in PageTables, NEW p \in Pages, Root(p) \in Tables
    PROVE  /\ TableAt(p)[StartingLevel] = Root(p)
           /\ \A l \in StartingLevel + 1 .. LastLevel :
                 TableAt(p)[l] = NextTable(TableAt(p)[l - 1], l - 1, p)
<1> DEFINE a == StartingLevel
           b == LastLevel
           X == Tables \cup {None}
           start == Root(p)
           Turn(f, k) ==
             IF k = a THEN start
             ELSE IF f[k - 1] = None THEN None
             ELSE LET d == tables[<<f[k - 1], IndexAt(k - 1, p)>>]
                  IN  IF d.kind = "table" THEN d.next ELSE None
           step == [x \in X \X (a + 1 .. b) |-> NextTable(x[1], x[2] - 1, p)]
           run == CHOOSE h : h = [k \in a .. b |-> Turn(h, k)]
<1>1. start \in X
  OBVIOUS
<1>2. a \in Nat /\ b \in Nat /\ a <= b
  BY MmuArithmetic DEF Levels, LastLevel
<1>3. \A k \in a + 1 .. b : k - 1 \in a .. b /\ k # a /\ k \in a .. b
  BY <1>2
<1>4. step \in [X \X (a + 1 .. b) -> X]
  <2> SUFFICES ASSUME NEW x \in X \X (a + 1 .. b) PROVE NextTable(x[1], x[2] - 1, p) \in X
    OBVIOUS
  <2>1. x[1] \in X /\ x[2] \in a + 1 .. b
    OBVIOUS
  <2>2. x[2] - 1 \in StartingLevel .. LastLevel
    BY <2>1, <1>3
  <2> QED BY Zenon, <2>1, <2>2, NextTableType
<1>5. \A k \in a .. b : k # a => k \in a + 1 .. b
  BY <1>2
<1>6. \A x \in X, k \in a + 1 .. b : step[<<x, k>>] = NextTable(x, k - 1, p)
  OBVIOUS
<1>7. \A f, k : Turn(f, k) = IF k = a THEN start ELSE NextTable(f[k - 1], k - 1, p)
  BY Zenon DEF NextTable
<1> HIDE DEF a, b, X, start, step
<1>8. PICK f \in [a .. b -> X] :
         f[a] = start /\ \A k \in a + 1 .. b : f[k] = step[<<f[k - 1], k>>]
  <2>1. LoopRuns(a, b, X, start, step) # {}
    BY <1>1, <1>2, <1>4, LoopHasRun
  <2> QED BY <2>1 DEF LoopRuns
<1>9. TableAt(p) = run
  BY Zenon DEF TableAt, a, b, start
<1> HIDE DEF Turn
<1>10. \A k \in a .. b : f[k] = Turn(f, k)
  BY <1>3, <1>5, <1>6, <1>7, <1>8
<1>11. f = [k \in a .. b |-> Turn(f, k)]
  BY Zenon, <1>10
<1>12. run = [k \in a .. b |-> Turn(run, k)]
  BY Zenon, <1>11
<1> HIDE DEF run
<1>13. \A k \in a .. b : run[k] = Turn(run, k)
  BY Zenon, <1>12
<1>14. run[a] = start /\ \A k \in a + 1 .. b : run[k] = NextTable(run[k - 1], k - 1, p)
  BY <1>2, <1>3, <1>7, <1>13
<1> QED BY Zenon, <1>9, <1>14 DEF a, b, start

(* A walk ends in a leaf that permits an access exactly if every descriptor *)
(* on the path allows it; one that ends in a fault has met one that doesn't.*)
LEMMA WalkGrants ==
    ASSUME tables \in PageTables, NEW p \in Pages, Root(p) \in Tables,
           NEW access \in AccessKinds, NEW el \in {0, 1}
    PROVE  /\ Walk(p) \in Leaf => (Permits(Walk(p), access, el) <=> Granted(p, access, el))
           /\ Walk(p) \in Faults => ~ Granted(p, access, el)
<1> DEFINE c == CursorIn(tables, Root(p), p)
           at == TableAt(p)
           top == LastLevel + 1
           Here(l) == Seen(tables[<<at[l], IndexAt(l, p)>>], l)
           Ok(l) == at[l] # None => Allows(Here(l), access, el)
           Path(l) == \A m \in StartingLevel .. l - 1 : Ok(m)
           AtFound(l) == l \in StartingLevel .. LastLevel => at[l] = None
           Meets(l) ==
             /\ c[l].found = None => /\ l \in StartingLevel .. LastLevel => at[l] = c[l].table
                                     /\ Path(l) <=> Lets(c[l].tp, access, el)
             /\ c[l].found \in Leaf => AtFound(l) /\ (Path(l) <=> Permits(c[l].found, access, el))
             /\ c[l].found \in Faults => AtFound(l) /\ ~ Path(l)
           Good == {l \in StartingLevel .. top : Meets(l)}
<1>1. /\ c \in [LevelRange -> Cursor] /\ c[StartingLevel] = AtRoot(Root(p))
      /\ \A l \in StartingLevel .. LastLevel : c[l + 1] = Descend(c[l], tables, l, p)
  BY WalkSteps
<1>2. /\ at[StartingLevel] = Root(p)
      /\ \A l \in StartingLevel + 1 .. LastLevel : at[l] = NextTable(at[l - 1], l - 1, p)
  BY PathSteps
<1>3. /\ StartingLevel \in Nat /\ top \in Nat /\ top \in StartingLevel .. top
      /\ StartingLevel \in StartingLevel .. top /\ StartingLevel \in StartingLevel .. LastLevel
      /\ \A l \in StartingLevel .. top - 1 :
            /\ l \in StartingLevel .. LastLevel /\ l + 1 \in StartingLevel .. top /\ l \in Levels
            /\ l \in LevelRange /\ l \in Nat
            /\ l + 1 \in StartingLevel .. LastLevel =>
                  l + 1 \in StartingLevel + 1 .. LastLevel /\ l # LastLevel
            /\ (l + 1) - 1 = l
            /\ StartingLevel .. (l + 1) - 1 = (StartingLevel .. l - 1) \cup {l}
      /\ top \notin StartingLevel .. LastLevel /\ top - 1 = LastLevel
      /\ \A m \in StartingLevel .. StartingLevel - 1 : FALSE
  BY MmuArithmetic DEF LevelRange, LastLevel, Levels
<1>4. Walk(p) = c[top].found
  BY Zenon DEF Walk, WalkIn
<1>5. Granted(p, access, el) <=> Path(top)
  <2>1. top - 1 = LastLevel
    BY <1>3
  <2> QED BY Zenon, <2>1 DEF Granted
<1> HIDE DEF c, at, top, Ok, Here
<1>6. StartingLevel \in Good
  <2>1. c[StartingLevel].found = None /\ c[StartingLevel].table = Root(p)
        /\ c[StartingLevel].tp = Unrestricted
    BY <1>1 DEF AtRoot
  <2>2. Lets(Unrestricted, access, el)
    BY DEF Lets, Unrestricted
  <2>3. Path(StartingLevel)
    BY <1>3
  <2>4. c[StartingLevel].found \notin Leaf /\ c[StartingLevel].found \notin Faults
    BY <2>1, Disjoint
  <2> HIDE DEF Path
  <2> QED BY <1>2, <1>3, <2>1, <2>2, <2>3, <2>4
<1>7. ASSUME NEW l \in StartingLevel .. top - 1, l \in Good PROVE l + 1 \in Good
  <2>1. /\ l \in StartingLevel .. LastLevel /\ l + 1 \in StartingLevel .. top /\ l \in Levels
        /\ l \in LevelRange
        /\ l + 1 \in StartingLevel .. LastLevel =>
              at[l + 1] = NextTable(at[l], l, p) /\ l # LastLevel
    <3>1. /\ l \in StartingLevel .. LastLevel /\ l + 1 \in StartingLevel .. top /\ l \in Levels
          /\ l \in LevelRange /\ (l + 1) - 1 = l
      BY <1>3
    <3>2. ASSUME l + 1 \in StartingLevel .. LastLevel
          PROVE  at[l + 1] = NextTable(at[l], l, p) /\ l # LastLevel
      <4>1. l + 1 \in StartingLevel + 1 .. LastLevel /\ l # LastLevel
        BY <1>3, <3>2
      <4>2. at[l + 1] = NextTable(at[(l + 1) - 1], (l + 1) - 1, p)
        BY <1>2, <4>1
      <4> QED BY <3>1, <4>1, <4>2
    <3> QED BY <3>1, <3>2
  <2>2. Path(l + 1) <=> Path(l) /\ Ok(l)
    <3>1. StartingLevel .. (l + 1) - 1 = (StartingLevel .. l - 1) \cup {l}
      BY <1>3
    <3> QED BY Zenon, <3>1
  <2>3. Meets(l) /\ c[l] \in Cursor /\ c[l].table \in Tables /\ c[l].tp \in TablePerms
        /\ c[l].found \in Leaf \cup Faults \cup {None}
    BY <1>1, <1>7, <2>1 DEF Cursor
  <2>4. c[l + 1] = Descend(c[l], tables, l, p)
    BY <1>1, <2>1
  <2>7. c[l] \in Cursor /\ c[l].tp \in TablePerms
    BY <2>3
  <2> HIDE DEF Path
  <2>5. CASE c[l].found # None
    <3>1. c[l + 1] = c[l]
      BY <2>1, <2>3, <2>4, <2>5, DescendType
    <3>2. at[l] = None
      BY <2>1, <2>3, <2>5
    <3>3. Ok(l)
      BY <3>2 DEF Ok
    <3>4. AtFound(l + 1)
      BY <2>1, <3>2 DEF NextTable
    <3> HIDE DEF AtFound
    <3>5. Meets(l + 1)
      BY <2>2, <2>3, <2>5, <3>1, <3>3, <3>4
    <3> QED BY <2>1, <3>5
  <2>6. CASE c[l].found = None
    <3> DEFINE raw == tables[<<c[l].table, IndexAt(l, p)>>]
               d == Seen(raw, l)
    <3>1. raw \in Desc
      BY Zenon, <2>1, <2>3, IndexInTable DEF PageTables, Places
    <3>2. at[l] = c[l].table /\ at[l] # None /\ (Path(l) <=> Lets(c[l].tp, access, el))
      BY <2>1, <2>3, <2>6, Disjoint
    <3>3. Ok(l) <=> Allows(d, access, el)
      BY Zenon, <3>2 DEF Ok, Here
    <3>4. /\ d.kind \in {"invalid", "leaf", "table"}
          /\ d.kind = "leaf" => d \in LeafDesc
          /\ d.kind = "table" => d \in TableDesc /\ d = raw
          /\ l = LastLevel => d.kind # "table"
          /\ l # LastLevel => d = raw
      <4> HIDE DEF raw
      <4> QED BY <2>1, <3>1, SeenType
    <3>5. l + 1 \in StartingLevel .. LastLevel =>
             at[l + 1] = (IF d.kind = "table" THEN d.next ELSE None)
      <4>1. ASSUME l + 1 \in StartingLevel .. LastLevel
            PROVE  at[l + 1] = (IF d.kind = "table" THEN d.next ELSE None)
        <5>1. at[l + 1] = NextTable(at[l], l, p) /\ d = raw
          BY <2>1, <3>4, <4>1
        <5>2. NextTable(at[l], l, p) = (IF raw.kind = "table" THEN raw.next ELSE None)
          BY <3>2 DEF NextTable
        <5> QED BY Zenon, <5>1, <5>2
      <4> QED BY <4>1
    <3>6. /\ d.kind = "invalid" =>
               Descend(c[l], tables, l, p) = [c[l] EXCEPT !.found = Fault("translation", l)]
          /\ d.kind = "leaf" =>
               Descend(c[l], tables, l, p)
                 = [c[l] EXCEPT !.found = IF d.af THEN LeafOf(d, l, c[l].tp, p)
                                          ELSE Fault("access_flag", l)]
          /\ d.kind = "table" =>
               Descend(c[l], tables, l, p)
                 = [c[l] EXCEPT !.table = d.next, !.tp = Tighten(c[l].tp, d)]
      BY <2>6 DEF Descend
    <3> HIDE DEF d
    <3>7. CASE d.kind = "invalid"
      <4>1. c[l + 1].found = Fault("translation", l)
        BY <2>3, <2>4, <3>6, <3>7 DEF Cursor
      <4>2. c[l + 1].found \in Faults /\ c[l + 1].found \notin Leaf /\ c[l + 1].found # None
        <5>1. Fault("translation", l) \in Faults
          BY <2>1 DEF Fault, Faults
        <5> QED BY Zenon, <4>1, <5>1, Disjoint
      <4>3. ~ Ok(l) /\ AtFound(l + 1)
        BY <3>3, <3>5, <3>7 DEF Allows
      <4> HIDE DEF AtFound
      <4>4. Meets(l + 1)
        BY <2>2, <4>2, <4>3
      <4> QED BY <2>1, <4>4
    <3>8. CASE d.kind = "leaf" /\ ~ d.af
      <4>1. c[l + 1].found = Fault("access_flag", l)
        BY <2>3, <2>4, <3>6, <3>8 DEF Cursor
      <4>2. c[l + 1].found \in Faults /\ c[l + 1].found \notin Leaf /\ c[l + 1].found # None
        <5>1. Fault("access_flag", l) \in Faults
          BY <2>1 DEF Fault, Faults
        <5> QED BY Zenon, <4>1, <5>1, Disjoint
      <4>3. ~ Ok(l) /\ AtFound(l + 1)
        BY <3>3, <3>5, <3>8 DEF Allows
      <4> HIDE DEF AtFound
      <4>4. Meets(l + 1)
        BY <2>2, <4>2, <4>3
      <4> QED BY <2>1, <4>4
    <3>9. CASE d.kind = "leaf" /\ d.af
      <4>1. c[l + 1].found = LeafOf(d, l, c[l].tp, p)
        BY <2>3, <2>4, <3>6, <3>9 DEF Cursor
      <4>2. Permits(c[l + 1].found, access, el) <=> Lets(c[l].tp, access, el) /\ Allows(d, access, el)
        BY <2>7, <3>4, <3>9, <4>1, AllowsOfLeaf
      <4>3. c[l + 1].found \in Leaf
        <5>1. LeafOf(d, l, c[l].tp, p) \in Leaf
          BY <2>1, <2>7, <3>4, <3>9, LeafOfType
        <5> QED BY <4>1, <5>1
      <4>4. c[l + 1].found \notin Faults /\ c[l + 1].found # None
        BY <4>3, Disjoint
      <4>5. AtFound(l + 1)
        BY <3>5, <3>9
      <4> HIDE DEF AtFound
      <4>6. Path(l + 1) <=> Permits(c[l + 1].found, access, el)
        BY Zenon, <2>2, <3>2, <3>3, <4>2
      <4>7. Meets(l + 1)
        BY Zenon, <4>3, <4>4, <4>5, <4>6
      <4> QED BY <2>1, <4>7
    <3>10. CASE d.kind = "table"
      <4>1. c[l + 1].found = None /\ c[l + 1].table = d.next /\ c[l + 1].tp = Tighten(c[l].tp, d)
        <5> DEFINE u == c[l]
                   v == Tighten(c[l].tp, d)
        <5>1. c[l + 1] = [u EXCEPT !.table = d.next, !.tp = v]
          BY Zenon, <2>4, <3>6, <3>10
        <5>2. u \in Cursor /\ u.found = None
          BY <2>6, <2>7
        <5> HIDE DEF u, v
        <5>3. c[l + 1].found = None /\ c[l + 1].table = d.next /\ c[l + 1].tp = v
          BY <5>1, <5>2 DEF Cursor
        <5> QED BY <5>3 DEF v
      <4>2. Lets(c[l + 1].tp, access, el) <=> Lets(c[l].tp, access, el) /\ Allows(d, access, el)
        BY <2>7, <3>4, <3>10, <4>1, AllowsOfTable
      <4>3. c[l + 1].found \notin Leaf /\ c[l + 1].found \notin Faults
        BY <4>1, Disjoint
      <4>4. Path(l + 1) <=> Lets(c[l + 1].tp, access, el)
        BY Zenon, <2>2, <3>2, <3>3, <4>2
      <4>5. l + 1 \in StartingLevel .. LastLevel => at[l + 1] = c[l + 1].table
        BY <3>5, <3>10, <4>1
      <4>6. Meets(l + 1)
        BY Zenon, <4>1, <4>3, <4>4, <4>5
      <4> QED BY <2>1, <4>6
    <3> QED BY <3>4, <3>7, <3>8, <3>9, <3>10
  <2> QED BY <2>5, <2>6
<1>8. Meets(top)
  <2>1. StartingLevel .. top \subseteq Good
    <3> HIDE DEF Good
    <3> QED BY <1>3, <1>6, <1>7, Through
  <2> HIDE DEF Meets
  <2> QED BY <1>3, <2>1
<1> HIDE DEF Path, AtFound
<1> QED BY Zenon, <1>4, <1>5, <1>8

-----------------------------------------------------------------------------
(* A translation *)

Tlbs == [Slots -> Entry \cup {None}]

\* The registers and the tables are what they should be.
Typed == tables \in PageTables /\ mmu_on \in BOOLEAN /\ dirty \in BOOLEAN /\ ttbr0 \in Roots

\* A TLB that answers as the walk would.
Coherent(t) == \A p \in Pages : Lookup(t, p) # None => Lookup(t, p) = Walk(p)

\* A TLB as the guest may meet it here: empty with the MMU off, and coherent
\* while the kernel owes no TLBI.
Usable(t) == /\ t \in Tlbs
             /\ ~ mmu_on => t = Empty
             /\ mmu_on /\ ~ dirty => Coherent(t)

LEMMA RootType == ASSUME Typed, NEW p \in Pages PROVE Root(p) \in Tables
BY MmuAssumption DEF Typed, Root

LEMMA WalkType == ASSUME Typed, NEW p \in Pages PROVE Walk(p) \in Leaf \cup Faults
<1>1. tables \in PageTables /\ Root(p) \in Tables
  BY RootType DEF Typed
<1> QED BY <1>1, WalkEnds DEF Walk, WalkIn

LEMMA IndexType == ASSUME NEW p \in Pages PROVE Index(p) \in Slots
<1>1. p.n \in Nat /\ TlbSize \in Nat \ {0}
  BY MmuArithmetic, MmuAssumption DEF Pages
<1>2. \A n \in Nat, m \in Nat \ {0} : n % m \in 0 .. m - 1
  OBVIOUS
<1> QED BY <1>1, <1>2 DEF Index, Slots

LEMMA LookupType ==
    ASSUME NEW t \in Tlbs, NEW p \in Pages
    PROVE  Lookup(t, p) \in Leaf \cup {None}
<1>1. t[Index(p)] \in Entry \cup {None}
  BY IndexType DEF Tlbs
<1>2. \A e \in Entry : e.leaf \in Leaf
  BY DEF Entry
<1> QED BY <1>1, <1>2 DEF Lookup

LEMMA EmptyHasNothing == ASSUME NEW p \in Pages PROVE Lookup(Empty, p) = None
<1>1. Empty[Index(p)] = None
  BY IndexType DEF Empty
<1> QED BY <1>1 DEF Lookup

LEMMA EmptyUsable == Empty \in Tlbs /\ Coherent(Empty)
<1>1. Empty \in Tlbs
  BY DEF Empty, Tlbs
<1> QED BY <1>1, EmptyHasNothing DEF Coherent

(* A leaf that a walk found may be entered in the TLB, whatever it evicts.  *)
LEMMA InsertUsable ==
    ASSUME Typed, NEW t, Usable(t), NEW p \in Pages, Walk(p) \in Leaf, mmu_on
    PROVE  Usable(Insert(t, p, Walk(p)))
<1> DEFINE e == [tag |-> p, leaf |-> Walk(p)]
           new == Insert(t, p, Walk(p))
<1>1. t \in Tlbs /\ e \in Entry /\ e # None
  BY Disjoint DEF Usable, Entry
<1>2. new = [t EXCEPT ![Index(p)] = e]
  BY DEF Insert
<1>3. e.tag = p /\ e.leaf = Walk(p)
  OBVIOUS
<1> HIDE DEF e, new
<1>4. new \in Tlbs
  BY <1>1, <1>2 DEF Tlbs
<1>5. ASSUME Coherent(t) PROVE Coherent(new)
  <2> SUFFICES ASSUME NEW q \in Pages, Lookup(new, q) # None PROVE Lookup(new, q) = Walk(q)
    BY DEF Coherent
  <2>1. Index(q) \in Slots /\ Index(p) \in Slots
    BY IndexType
  <2>2. CASE Index(q) = Index(p)
    <3>1. new[Index(q)] = e
      BY <1>1, <1>2, <2>1, <2>2 DEF Tlbs
    <3>2. q = p /\ Lookup(new, q) = e.leaf
      BY <1>1, <1>3, <3>1 DEF Lookup
    <3> QED BY <1>3, <3>2
  <2>3. CASE Index(q) # Index(p)
    <3>1. new[Index(q)] = t[Index(q)]
      BY <1>1, <1>2, <2>1, <2>3 DEF Tlbs
    <3>2. Lookup(new, q) = Lookup(t, q)
      BY <3>1 DEF Lookup
    <3> QED BY <1>5, <3>2 DEF Coherent
  <2> QED BY <2>2, <2>3
<1> QED BY <1>4, <1>5 DEF Usable, new

LEMMA CheckedType ==
    ASSUME NEW t, NEW leaf \in Leaf, NEW access \in AccessKinds, NEW el \in {0, 1}
    PROVE  /\ Checked(t, leaf, access, el).tlb = t
           /\ Checked(t, leaf, access, el).ok = Permits(leaf, access, el)
           /\ Checked(t, leaf, access, el).ok \in BOOLEAN
           /\ Checked(t, leaf, access, el).ok => Checked(t, leaf, access, el).frame \in Frames
           /\ ~ Checked(t, leaf, access, el).ok => Checked(t, leaf, access, el).fault \in Faults
<1>1. leaf.frame \in Frames /\ leaf.level \in Levels
      /\ leaf.el0_access \in BOOLEAN /\ leaf.read_only \in BOOLEAN
      /\ leaf.uxn \in BOOLEAN /\ leaf.pxn \in BOOLEAN
  BY DEF Leaf
<1>2. Permits(leaf, access, el) \in BOOLEAN
  BY <1>1 DEF Permits, AccessKinds
<1>3. Fault("permission", leaf.level) \in Faults
  BY <1>1 DEF Fault, Faults
<1>4. CASE Permits(leaf, access, el)
  BY <1>1, <1>2, <1>4 DEF Checked
<1>5. CASE ~ Permits(leaf, access, el)
  BY <1>2, <1>3, <1>5 DEF Checked
<1> QED BY <1>4, <1>5

(* A translation leaves a usable TLB, and a frame or a fault; while the     *)
(* kernel owes no TLBI it succeeds exactly where the tables grant it.       *)
LEMMA TranslateSound ==
    ASSUME Typed, NEW t, Usable(t), NEW p \in Pages, NEW access \in AccessKinds, NEW el \in {0, 1}
    PROVE  /\ Usable(Translate(t, p, access, el).tlb)
           /\ Translate(t, p, access, el).ok \in BOOLEAN
           /\ Translate(t, p, access, el).ok => Translate(t, p, access, el).frame \in Frames
           /\ ~ Translate(t, p, access, el).ok => Translate(t, p, access, el).fault \in Faults
           /\ mmu_on /\ ~ dirty =>
                 (Translate(t, p, access, el).ok <=> Granted(p, access, el))
<1> DEFINE r == Translate(t, p, access, el)
<1>1. t \in Tlbs /\ Walk(p) \in Leaf \cup Faults /\ Lookup(t, p) \in Leaf \cup {None}
  BY WalkType, LookupType DEF Usable
<1>2. /\ Walk(p) \in Leaf => (Permits(Walk(p), access, el) <=> Granted(p, access, el))
      /\ Walk(p) \in Faults => ~ Granted(p, access, el)
  BY RootType, WalkGrants DEF Typed
<1>3. CASE ~ mmu_on
  <2>1. r = [tlb |-> t, ok |-> TRUE, frame |-> p.n]
    BY <1>3 DEF Translate
  <2>2. p.n \in Frames
    BY MmuArithmetic, MmuAssumption DEF Pages, Frames
  <2> QED BY <1>3, <2>1, <2>2
<1>4. CASE mmu_on /\ Lookup(t, p) # None
  <2>1. r = Checked(t, Lookup(t, p), access, el) /\ Lookup(t, p) \in Leaf
    BY <1>1, <1>4 DEF Translate
  <2>2. /\ r.tlb = t /\ r.ok = Permits(Lookup(t, p), access, el) /\ r.ok \in BOOLEAN
        /\ r.ok => r.frame \in Frames
        /\ ~ r.ok => r.fault \in Faults
    BY <2>1, CheckedType
  <2>3. mmu_on /\ ~ dirty => Lookup(t, p) = Walk(p)
    BY <1>4 DEF Usable, Coherent
  <2> HIDE DEF r
  <2>4. mmu_on /\ ~ dirty => (r.ok <=> Granted(p, access, el))
    BY <1>2, <2>1, <2>2, <2>3
  <2> QED BY <2>2, <2>4 DEF r
<1>5. CASE mmu_on /\ Lookup(t, p) = None /\ Walk(p) \in Faults
  <2>1. r = [tlb |-> t, ok |-> FALSE, fault |-> Walk(p)]
    BY <1>5 DEF Translate, TranslateMiss
  <2> QED BY <1>2, <1>5, <2>1
<1>6. CASE mmu_on /\ Lookup(t, p) = None /\ Walk(p) \notin Faults
  <2>1. r = Checked(Insert(t, p, Walk(p)), Walk(p), access, el) /\ Walk(p) \in Leaf
    BY <1>1, <1>6 DEF Translate, TranslateMiss
  <2>2. /\ r.tlb = Insert(t, p, Walk(p)) /\ r.ok = Permits(Walk(p), access, el) /\ r.ok \in BOOLEAN
        /\ r.ok => r.frame \in Frames
        /\ ~ r.ok => r.fault \in Faults
    BY <2>1, CheckedType
  <2>3. Usable(Insert(t, p, Walk(p)))
    BY <1>6, <2>1, InsertUsable
  <2> HIDE DEF r
  <2>4. mmu_on /\ ~ dirty => (r.ok <=> Granted(p, access, el))
    BY <1>2, <2>1, <2>2
  <2> QED BY <2>2, <2>3, <2>4 DEF r
<1> QED BY <1>3, <1>4, <1>5, <1>6 DEF Typed

-----------------------------------------------------------------------------
(* An instruction *)

Touch == [page: Pages, access: AccessKinds, el: {0, 1}, frame: Frames]
Accesses == [tlb: Tlbs, abort: Abort \cup {None}, stop: BOOLEAN, touched: SUBSET Touch]

\* What an instruction has done so far is what the tables allow.
Allowed(s) ==
    /\ \A a \in s.touched : Granted(a.page, a.access, a.el)
    /\ s.abort # None => ~ Granted(s.abort.page, s.abort.access, s.abort.el)
Honest == {s \in Accesses : Usable(s.tlb) /\ (mmu_on /\ ~ dirty => Allowed(s))}

LEMMA StartHonest == ASSUME Typed, Usable(tlb) PROVE Start \in Honest
<1>1. Start \in Accesses
  BY DEF Start, Accesses, Usable
<1>2. Usable(Start.tlb) /\ Allowed(Start)
  BY DEF Start, Allowed
<1> QED BY <1>1, <1>2 DEF Honest

LEMMA ChunkHonest ==
    ASSUME Typed, NEW s \in Honest, NEW p \in Pages, NEW access \in AccessKinds, NEW el \in {0, 1}
    PROVE  Chunk(s, p, access, el) \in Honest
<1> DEFINE r == Translate(s.tlb, p, access, el)
           a == [page |-> p, access |-> access, el |-> el, frame |-> r.frame]
           b == [page |-> p, access |-> access, el |-> el, fault |-> r.fault]
<1>1. s \in Accesses /\ Usable(s.tlb) /\ (mmu_on /\ ~ dirty => Allowed(s))
  BY DEF Honest
<1>2. /\ Usable(r.tlb) /\ r.ok \in BOOLEAN
      /\ r.ok => r.frame \in Frames
      /\ ~ r.ok => r.fault \in Faults
      /\ mmu_on /\ ~ dirty => (r.ok <=> Granted(p, access, el))
  BY <1>1, TranslateSound
<1>3. /\ s.stop => Chunk(s, p, access, el) = s
      /\ ~ s.stop /\ r.ok =>
            Chunk(s, p, access, el) = [s EXCEPT !.tlb = r.tlb, !.touched = s.touched \cup {a}]
      /\ ~ s.stop /\ ~ r.ok =>
            Chunk(s, p, access, el) = [s EXCEPT !.tlb = r.tlb, !.stop = TRUE, !.abort = b]
  BY DEF Chunk
<1>4. r.ok => a \in Touch
  BY <1>2 DEF Touch
<1>5. ~ r.ok => b \in Abort
  BY <1>2 DEF Abort
<1>6. a.page = p /\ a.access = access /\ a.el = el /\ b.page = p /\ b.access = access /\ b.el = el
  OBVIOUS
<1>7. r.tlb \in Tlbs
  BY <1>2 DEF Usable
<1> HIDE DEF r, a, b
<1>8. CASE s.stop
  BY <1>3, <1>8
<1>9. CASE ~ s.stop /\ r.ok
  <2> DEFINE new == [s EXCEPT !.tlb = r.tlb, !.touched = s.touched \cup {a}]
  <2>1. /\ new \in Accesses /\ new.tlb = r.tlb /\ new.touched = s.touched \cup {a}
        /\ new.abort = s.abort
    BY <1>1, <1>4, <1>7, <1>9 DEF Accesses
  <2> HIDE DEF new
  <2>2. mmu_on /\ ~ dirty => Allowed(new)
    BY <1>1, <1>2, <1>6, <1>9, <2>1 DEF Allowed
  <2>3. new \in Honest
    BY <1>2, <2>1, <2>2 DEF Honest
  <2> QED BY <1>3, <1>9, <2>3 DEF new
<1>10. CASE ~ s.stop /\ ~ r.ok
  <2> DEFINE new == [s EXCEPT !.tlb = r.tlb, !.stop = TRUE, !.abort = b]
  <2>1. /\ new \in Accesses /\ new.tlb = r.tlb /\ new.touched = s.touched
        /\ new.abort = b
    BY <1>1, <1>5, <1>7, <1>10 DEF Accesses
  <2> HIDE DEF new
  <2>2. mmu_on /\ ~ dirty => Allowed(new)
    BY <1>1, <1>2, <1>6, <1>10, <2>1 DEF Allowed
  <2>3. new \in Honest
    BY <1>2, <2>1, <2>2 DEF Honest
  <2> QED BY <1>3, <1>10, <2>3 DEF new
<1> QED BY <1>2, <1>8, <1>9, <1>10

LEMMA ElementHonest ==
    ASSUME Typed, NEW s \in Honest, NEW pages \in Seq(Pages),
           NEW access \in AccessKinds, NEW el \in {0, 1}
    PROVE  Element(s, pages, access, el) \in Honest
<1> DEFINE n == Len(pages)
           X == Honest
           start == [s EXCEPT !.stop = FALSE]
           Turn(f, k) == IF k = 0 THEN start ELSE Chunk(f[k - 1], pages[k], access, el)
           step == [x \in X \X (0 + 1 .. n) |-> Chunk(x[1], pages[x[2]], access, el)]
           run == CHOOSE h : h = [k \in 0 .. n |-> Turn(h, k)]
<1>1. start \in X
  <2>1. s \in Accesses /\ start \in Accesses /\ start.tlb = s.tlb /\ start.abort = s.abort
        /\ start.touched = s.touched
    BY DEF Honest, Accesses
  <2> HIDE DEF start
  <2> QED BY <2>1 DEF Honest, Allowed
<1>2. 0 \in Nat /\ n \in Nat /\ 0 <= n
  OBVIOUS
<1>3. \A k \in 0 + 1 .. n : k - 1 \in 0 .. n /\ k # 0 /\ k \in 0 .. n /\ pages[k] \in Pages
  BY <1>2
<1>4. step \in [X \X (0 + 1 .. n) -> X]
  <2> SUFFICES ASSUME NEW x \in X \X (0 + 1 .. n) PROVE Chunk(x[1], pages[x[2]], access, el) \in X
    OBVIOUS
  <2>1. x[1] \in X /\ x[2] \in 0 + 1 .. n
    OBVIOUS
  <2>2. pages[x[2]] \in Pages
    BY <2>1, <1>3
  <2> QED BY <2>1, <2>2, ChunkHonest
<1>5. \A k \in 0 .. n : k # 0 => k \in 0 + 1 .. n
  BY <1>2
<1>6. \A x \in X, k \in 0 + 1 .. n : step[<<x, k>>] = Chunk(x, pages[k], access, el)
  OBVIOUS
<1> HIDE DEF n, start, step
<1>7. PICK f \in [0 .. n -> X] :
         f[0] = start /\ \A k \in 0 + 1 .. n : f[k] = step[<<f[k - 1], k>>]
  <2>1. LoopRuns(0, n, X, start, step) # {}
    <3> HIDE DEF X
    <3> QED BY <1>1, <1>2, <1>4, LoopHasRun
  <2> QED BY <2>1 DEF LoopRuns
<1>8. Element(s, pages, access, el) = run[n]
  BY Zenon DEF Element, Chunks, n, start
<1>9. \A k \in 0 .. n : f[k] = Turn(f, k)
  <2> HIDE DEF X
  <2> QED BY <1>3, <1>5, <1>6, <1>7
<1>10. f = [k \in 0 .. n |-> Turn(f, k)]
  <2> HIDE DEF Turn, X
  <2> QED BY Zenon, <1>9
<1>11. run = [k \in 0 .. n |-> Turn(run, k)]
  <2> HIDE DEF Turn
  <2> QED BY Zenon, <1>10
<1> HIDE DEF run, X
<1>12. \A k \in 0 .. n : run[k] = Turn(run, k)
  <2> HIDE DEF Turn
  <2> QED BY Zenon, <1>11
<1> DEFINE Good == {k \in 0 .. n : run[k] \in X}
<1>13. 0 \in Good
  BY <1>1, <1>2, <1>12
<1>14. ASSUME NEW k \in 0 .. n - 1, k \in Good PROVE k + 1 \in Good
  <2>1. k + 1 \in 0 .. n /\ k + 1 \in 0 + 1 .. n /\ k + 1 # 0 /\ (k + 1) - 1 = k
    BY <1>2
  <2>2. run[k + 1] = Chunk(run[k], pages[k + 1], access, el)
    BY <1>12, <2>1
  <2>3. run[k] \in X /\ pages[k + 1] \in Pages
    BY <1>3, <1>14, <2>1
  <2>4. run[k + 1] \in X
    BY <2>2, <2>3, ChunkHonest DEF X
  <2> QED BY <2>1, <2>4
<1>15. 0 .. n \subseteq Good
  <2> HIDE DEF Good
  <2> QED BY <1>2, <1>13, <1>14, Through
<1>16. run[n] \in X
  BY <1>2, <1>15
<1> QED BY <1>8, <1>16 DEF X

LEMMA ElementsHonest ==
    ASSUME Typed, NEW s \in Honest, NEW elems \in Seq(Seq(Pages)),
           NEW access \in AccessKinds, NEW el \in {0, 1}
    PROVE  Elements(s, elems, access, el) \in Honest
<1> DEFINE n == Len(elems)
           X == Honest
           Turn(f, k) == IF k = 0 THEN s ELSE Element(f[k - 1], elems[k], access, el)
           step == [x \in X \X (0 + 1 .. n) |-> Element(x[1], elems[x[2]], access, el)]
           run == CHOOSE h : h = [k \in 0 .. n |-> Turn(h, k)]
<1>1. s \in X
  OBVIOUS
<1>2. 0 \in Nat /\ n \in Nat /\ 0 <= n
  OBVIOUS
<1>3. \A k \in 0 + 1 .. n : k - 1 \in 0 .. n /\ k # 0 /\ k \in 0 .. n /\ elems[k] \in Seq(Pages)
  BY <1>2
<1>4. step \in [X \X (0 + 1 .. n) -> X]
  <2> SUFFICES ASSUME NEW x \in X \X (0 + 1 .. n) PROVE Element(x[1], elems[x[2]], access, el) \in X
    OBVIOUS
  <2>1. x[1] \in X /\ x[2] \in 0 + 1 .. n
    OBVIOUS
  <2>2. elems[x[2]] \in Seq(Pages)
    BY <2>1, <1>3
  <2> QED BY <2>1, <2>2, ElementHonest
<1>5. \A k \in 0 .. n : k # 0 => k \in 0 + 1 .. n
  BY <1>2
<1>6. \A x \in X, k \in 0 + 1 .. n : step[<<x, k>>] = Element(x, elems[k], access, el)
  OBVIOUS
<1> HIDE DEF n, step
<1>7. PICK f \in [0 .. n -> X] :
         f[0] = s /\ \A k \in 0 + 1 .. n : f[k] = step[<<f[k - 1], k>>]
  <2>1. LoopRuns(0, n, X, s, step) # {}
    <3> HIDE DEF X
    <3> QED BY <1>1, <1>2, <1>4, LoopHasRun
  <2> QED BY <2>1 DEF LoopRuns
<1>8. Elements(s, elems, access, el) = run[n]
  BY Zenon DEF Elements, n
<1>9. \A k \in 0 .. n : f[k] = Turn(f, k)
  <2> HIDE DEF X
  <2> QED BY <1>3, <1>5, <1>6, <1>7
<1>10. f = [k \in 0 .. n |-> Turn(f, k)]
  <2> HIDE DEF Turn, X
  <2> QED BY Zenon, <1>9
<1>11. run = [k \in 0 .. n |-> Turn(run, k)]
  <2> HIDE DEF Turn
  <2> QED BY Zenon, <1>10
<1> HIDE DEF run, X
<1>12. \A k \in 0 .. n : run[k] = Turn(run, k)
  <2> HIDE DEF Turn
  <2> QED BY Zenon, <1>11
<1> DEFINE Good == {k \in 0 .. n : run[k] \in X}
<1>13. 0 \in Good
  BY <1>1, <1>2, <1>12
<1>14. ASSUME NEW k \in 0 .. n - 1, k \in Good PROVE k + 1 \in Good
  <2>1. k + 1 \in 0 .. n /\ k + 1 \in 0 + 1 .. n /\ k + 1 # 0 /\ (k + 1) - 1 = k
    BY <1>2
  <2>2. run[k + 1] = Element(run[k], elems[k + 1], access, el)
    BY <1>12, <2>1
  <2>3. run[k] \in X /\ elems[k + 1] \in Seq(Pages)
    BY <1>3, <1>14, <2>1
  <2>4. run[k + 1] \in X
    BY <2>2, <2>3, ElementHonest DEF X
  <2> QED BY <2>1, <2>4
<1>15. 0 .. n \subseteq Good
  <2> HIDE DEF Good
  <2> QED BY <1>2, <1>13, <1>14, Through
<1>16. run[n] \in X
  BY <1>2, <1>15
<1> QED BY <1>8, <1>16 DEF X

LEMMA PerformedHonest ==
    ASSUME Typed, Usable(tlb), NEW i \in Insn
    PROVE  Performed(i) \in Honest
<1>1. i.elems \in Seq(Seq(Pages)) /\ i.el \in {0, 1} /\ i.kind \in {"load", "store", "rmw", "fetch"}
  BY DEF Insn
<1>2. \A access \in AccessKinds, s \in Honest : Elements(s, i.elems, access, i.el) \in Honest
  BY <1>1, ElementsHonest
<1>3. "read" \in AccessKinds /\ "write" \in AccessKinds /\ "exec" \in AccessKinds
  BY DEF AccessKinds
<1>4. Start \in Honest
  BY StartHonest
<1> DEFINE r == Elements(Start, i.elems, "read", i.el)
           w == Elements(Start, i.elems, "write", i.el)
           x == Elements(Start, i.elems, "exec", i.el)
           rw == Elements(r, i.elems, "write", i.el)
<1>5. r \in Honest /\ w \in Honest /\ x \in Honest
  BY Zenon, <1>2, <1>3, <1>4
<1>6. rw \in Honest
  BY Zenon, <1>2, <1>3, <1>5
<1> HIDE DEF Honest, r, w, x, rw
<1>7. CASE i.kind = "load"
  <2>1. Performed(i) = r
    BY <1>7 DEF Performed, r
  <2> QED BY <1>5, <2>1
<1>8. CASE i.kind = "store"
  <2>1. Performed(i) = w
    BY <1>8 DEF Performed, w
  <2> QED BY <1>5, <2>1
<1>9. CASE i.kind = "fetch"
  <2>1. Performed(i) = x
    BY <1>9 DEF Performed, x
  <2> QED BY <1>5, <2>1
<1>10. CASE i.kind = "rmw"
  <2>1. Performed(i) = r \/ Performed(i) = rw
    BY <1>10 DEF Performed, r, rw
  <2> QED BY <1>5, <1>6, <2>1
<1> QED BY <1>1, <1>7, <1>8, <1>9, <1>10

-----------------------------------------------------------------------------
(* The inductive invariant *)

(* TlbCoherent is not inductive on its own: with the MMU off nothing keeps  *)
(* the TLB coherent, so it has to be empty there, and a write to SCTLR that *)
(* turns the MMU on has to find or leave it so.                             *)
IInv == TypeOK /\ Usable(tlb)

LEMMA InvTyped == ASSUME IInv PROVE Typed /\ (\A p \in Pages : Root(p) \in Tables)
<1>1. Typed
  BY DEF IInv, TypeOK, Typed, PageTables
<1> QED BY <1>1, RootType

LEMMA DescsType == ASSUME NEW place \in Places, NEW d \in Descs[place] PROVE d \in Desc
BY MmuAssumption

LEMMA InitInv == ASSUME Init PROVE IInv
<1>1. Empty \in Tlbs
  BY EmptyUsable
<1>2. Tables0 \in [Places -> Desc]
  BY MmuAssumption
<1>3. TypeOK
  BY <1>1, <1>2 DEF Init, TypeOK, Tlbs
<1>4. Usable(tlb)
  BY <1>1 DEF Init, Usable
<1> QED BY <1>3, <1>4 DEF IInv

LEMMA WalkSame ==
    ASSUME UNCHANGED <<tables, ttbr0>>, NEW p \in Pages
    PROVE  Walk(p)' = Walk(p)
<1>1. Root(p)' = Root(p)
  BY DEF Root
<1> QED BY <1>1 DEF Walk, WalkIn

LEMMA UsableStays ==
    ASSUME NEW t, Usable(t), tlb' = t, UNCHANGED <<tables, ttbr0, mmu_on>>, dirty => dirty'
    PROVE  Usable(tlb)'
<1>1. \A p \in Pages : Walk(p)' = Walk(p)
  BY WalkSame
<1>2. ASSUME mmu_on', ~ dirty' PROVE Coherent(tlb)'
  <2>1. Coherent(t)
    BY <1>2 DEF Usable
  <2>2. ASSUME NEW p \in Pages, Lookup(t, p) # None PROVE Lookup(t, p) = Walk(p)'
    BY <1>1, <2>1, <2>2 DEF Coherent
  <2>3. \A p \in Pages : Lookup(tlb, p)' = Lookup(t, p)
    BY DEF Lookup
  <2> QED BY <2>2, <2>3 DEF Coherent
<1>3. tlb' \in Tlbs /\ (~ mmu_on' => tlb' = Empty)
  BY DEF Usable
<1> QED BY <1>2, <1>3 DEF Usable

LEMMA FlushUsable == ASSUME tlb' = Empty PROVE Usable(tlb)'
<1>1. \A p \in Pages : Lookup(tlb, p)' = None
  <2>1. \A p \in Pages : Lookup(tlb, p)' = Lookup(Empty, p)
    BY DEF Lookup
  <2> QED BY <2>1, EmptyHasNothing
<1>2. tlb' \in Tlbs
  BY EmptyUsable
<1> QED BY <1>1, <1>2 DEF Usable, Coherent

(* An edit of a descriptor that the TLB may hold leaves a TLBI owed, and    *)
(* one of any other changes no entry's walk.                                *)
LEMMA WriteUsable ==
    ASSUME IInv, NEW place \in Places, NEW d \in Desc, WriteDesc(place, d),
           UNCHANGED <<mmu_on, ttbr0, tlb>>
    PROVE  /\ Usable(tlb)'
           /\ tables' \in [Places -> Desc] /\ dirty' \in BOOLEAN
<1>1. /\ tables' = [tables EXCEPT ![place] = d]
      /\ dirty' = (dirty \/ (mmu_on /\ tables[place] # d /\ Cacheable(tables[place])))
  BY DEF WriteDesc
<1>2. tables \in PageTables /\ tlb \in Tlbs /\ (~ mmu_on => tlb = Empty)
  BY DEF IInv, TypeOK, Usable, PageTables
<1>3. tables' \in [Places -> Desc] /\ dirty' \in BOOLEAN
  <2>1. dirty' \in BOOLEAN
    BY Zenon, <1>1
  <2> QED BY <1>1, <1>2, <2>1 DEF PageTables
<1>4. ASSUME mmu_on', ~ dirty' PROVE Coherent(tlb)'
  <2>1. ~ dirty /\ (tables[place] = d \/ ~ Cacheable(tables[place])) /\ mmu_on
    BY <1>1, <1>4
  <2>2. Coherent(tlb)
    BY <2>1 DEF IInv, Usable
  <2>3. ASSUME NEW p \in Pages, Lookup(tlb, p) # None PROVE Lookup(tlb, p) = Walk(p)'
    <3>1. Lookup(tlb, p) = Walk(p) /\ Walk(p) \in Leaf
      BY <1>2, <2>2, <2>3, LookupType DEF Coherent
    <3>2. Root(p)' = Root(p) /\ Root(p) \in Tables
      BY InvTyped DEF Root
    <3>3. CASE tables[place] = d
      <4>1. tables' = tables
        BY <1>1, <1>2, <3>3 DEF PageTables
      <4> QED BY <3>1, <4>1, WalkSame
    <3>4. CASE ~ Cacheable(tables[place])
      <4>1. Walk(p) = CursorIn(tables, Root(p), p)[LastLevel + 1].found
        BY Zenon DEF Walk, WalkIn
      <4>2. Walk(p) \notin Faults
        BY <3>1, Disjoint
      <4>3. CursorIn([tables EXCEPT ![place] = d], Root(p), p)[LastLevel + 1].found = Walk(p)
        BY <1>2, <3>2, <3>4, <4>1, <4>2, WalkUnchanged
      <4>4. Walk(p)' = CursorIn(tables', Root(p), p)[LastLevel + 1].found
        BY <3>2 DEF Walk, WalkIn
      <4> QED BY <1>1, <3>1, <4>3, <4>4
    <3> QED BY <2>1, <3>3, <3>4
  <2>4. \A p \in Pages : Lookup(tlb, p)' = Lookup(tlb, p)
    BY DEF Lookup
  <2> QED BY <2>3, <2>4 DEF Coherent
<1>5. Usable(tlb)'
  BY <1>2, <1>4 DEF Usable
<1> QED BY <1>3, <1>5

(* What an instruction does, while the kernel owes no TLBI.                 *)
LEMMA ExecuteSound ==
    ASSUME IInv, Execute
    PROVE  /\ IInv'
           /\ mmu_on /\ ~ dirty =>
                 /\ \A a \in touched' : Granted(a.page, a.access, a.el)
                 /\ abort' # None => ~ Granted(abort'.page, abort'.access, abort'.el)
<1> DEFINE s == Performed(insn)
<1>1. /\ insn # None /\ tlb' = s.tlb /\ touched' = s.touched /\ abort' = s.abort
      /\ insn' \in {insn, None} /\ UNCHANGED <<tables, mmu_on, ttbr0, dirty>>
  BY DEF Execute
<1>2. insn \in Insn
  BY <1>1, MmuAssumption DEF IInv, TypeOK
<1>3. s \in Honest
  BY <1>2, InvTyped, PerformedHonest DEF IInv
<1> HIDE DEF s
<1>4. s \in Accesses /\ Usable(s.tlb) /\ (mmu_on /\ ~ dirty => Allowed(s))
  BY <1>3 DEF Honest
<1>5. Usable(tlb)'
  BY <1>1, <1>4, UsableStays
<1>6. touched' \subseteq Touch /\ abort' \in Abort \cup {None} /\ tlb' \in Tlbs
  BY <1>1, <1>4 DEF Accesses
<1>7. TypeOK'
  BY <1>1, <1>6 DEF IInv, TypeOK, Touch, Tlbs
<1> QED BY <1>1, <1>4, <1>5, <1>7 DEF IInv, Allowed

LEMMA NextInv == ASSUME IInv, [Next]_vars PROVE IInv'
<1>1. CASE EditTables
  <2>0. PICK place \in Places : \E d \in Descs[place] : WriteDesc(place, d)
    BY <1>1 DEF EditTables
  <2>1. PICK d \in Descs[place] : WriteDesc(place, d)
    BY <2>0
  <2>2. UNCHANGED <<mmu_on, ttbr0, tlb, insn, abort, touched>>
    BY <1>1 DEF EditTables
  <2>3. Usable(tlb)' /\ tables' \in [Places -> Desc] /\ dirty' \in BOOLEAN
    BY <2>1, <2>2, DescsType, WriteUsable
  <2> QED BY <2>2, <2>3 DEF IInv, TypeOK
<1>2. CASE PageIn
  <2>0. PICK place \in Places : \E d \in Descs[place] : WriteDesc(place, d)
    BY <1>2 DEF PageIn
  <2>1. PICK d \in Descs[place] : WriteDesc(place, d)
    BY <2>0
  <2>2. UNCHANGED <<mmu_on, ttbr0, tlb, insn, abort, touched>>
    BY <1>2 DEF PageIn
  <2>3. Usable(tlb)' /\ tables' \in [Places -> Desc] /\ dirty' \in BOOLEAN
    BY <2>1, <2>2, DescsType, WriteUsable
  <2> QED BY <2>2, <2>3 DEF IInv, TypeOK
<1>3. CASE Tlbi \/ MsrTtbr0 \/ MsrSctlr
  <2>1. /\ tlb' = Empty /\ dirty' = FALSE /\ UNCHANGED <<tables, insn, abort, touched>>
        /\ mmu_on' \in BOOLEAN /\ ttbr0' \in Roots
    BY <1>3 DEF Tlbi, MsrTtbr0, MsrSctlr, Flush, IInv, TypeOK
  <2>2. Usable(tlb)' /\ tlb' \in Tlbs
    BY <2>1, FlushUsable, EmptyUsable
  <2> QED BY <2>1, <2>2 DEF IInv, TypeOK, Tlbs
<1>4. CASE Issue
  <2>1. UNCHANGED <<tables, mmu_on, ttbr0, tlb, dirty, abort, touched>> /\ insn' \in Insns
    BY <1>4 DEF Issue
  <2>2. Usable(tlb)'
    BY <2>1, UsableStays DEF IInv
  <2> QED BY <2>1, <2>2 DEF IInv, TypeOK
<1>5. CASE Execute
  BY <1>5, ExecuteSound
<1>6. CASE Resume
  <2>1. /\ tlb' = (IF dirty THEN Empty ELSE tlb)
        /\ dirty' = FALSE /\ abort' = None /\ UNCHANGED <<tables, mmu_on, ttbr0, insn, touched>>
    BY <1>6 DEF Resume
  <2>2. CASE dirty
    <3>1. Usable(tlb)' /\ tlb' \in Tlbs
      BY <2>1, <2>2, FlushUsable, EmptyUsable
    <3> QED BY <2>1, <3>1 DEF IInv, TypeOK, Tlbs
  <2>3. CASE ~ dirty
    <3>1. Usable(tlb)'
      BY <2>1, <2>3, UsableStays DEF IInv
    <3> QED BY <2>1, <2>3, <3>1 DEF IInv, TypeOK
  <2> QED BY <2>2, <2>3
<1>7. CASE Kill
  <2>1. UNCHANGED <<tables, mmu_on, ttbr0, tlb, dirty, touched>> /\ insn' = None /\ abort' = None
    BY <1>7 DEF Kill
  <2>2. Usable(tlb)'
    BY <2>1, UsableStays DEF IInv
  <2> QED BY <2>1, <2>2 DEF IInv, TypeOK
<1>8. CASE UNCHANGED vars
  <2>1. Usable(tlb)'
    BY <1>8, UsableStays DEF IInv, vars
  <2> QED BY <1>8, <2>1 DEF IInv, TypeOK, vars
<1> QED BY <1>1, <1>2, <1>3, <1>4, <1>5, <1>6, <1>7, <1>8 DEF Next, Kernel, Handler

-----------------------------------------------------------------------------
(* Theorems *)

(* The TLB, the tables and the registers of a guest that edits its tables,  *)
(* pages on demand and switches tables keep their types, and the TLB stays  *)
(* usable: empty with the MMU off (write_xlate_reg), coherent with it on.   *)
THEOREM TranslationInvariant == Spec => []IInv
<1>1. Init => IInv
  BY InitInv
<1>2. IInv /\ [Next]_vars => IInv'
  BY NextInv
<1> QED BY <1>1, <1>2, PTL DEF Spec

(* What walk and translate compute, they compute in range: a leaf names a   *)
(* frame that exists, an abort a page and a level.                          *)
THEOREM TypeCorrect == Spec => []TypeOK
<1>1. IInv => TypeOK
  BY DEF IInv
<1> QED BY <1>1, TranslationInvariant, PTL

(* The TLB never answers anything but what the walk would, as long as the   *)
(* kernel invalidates what the architecture makes it invalidate             *)
(* (Tlb::lookup, Tlb::insert, CpuState::flush_tlb).                         *)
THEOREM TlbIsCoherent == Spec => []TlbCoherent
<1>1. IInv => TlbCoherent
  BY DEF IInv, Usable, Coherent, TlbCoherent
<1> QED BY <1>1, TranslationInvariant, PTL

(* Where the JIT's inline path goes ahead (open_fast_path), translate would *)
(* have hit, permitted the access, and reached the same frame.              *)
THEOREM FastPathIsSound == Spec => []FastPathAgrees
<1>1. ASSUME IInv PROVE FastPathAgrees
  <2> SUFFICES ASSUME NEW p \in Pages, NEW el \in {0, 1}, NEW store \in BOOLEAN, FastPath(p, store, el)
               PROVE  Translate(tlb, p, IF store THEN "write" ELSE "read", el)
                        = [tlb |-> tlb, ok |-> TRUE, frame |-> Lookup(tlb, p).frame]
    BY DEF FastPathAgrees
  <2> DEFINE leaf == Lookup(tlb, p)
             access == IF store THEN "write" ELSE "read"
  <2>1. leaf # None /\ (el # 0 \/ leaf.el0_access) /\ (store => ~ leaf.read_only)
    BY DEF FastPath
  <2>2. mmu_on
    <3>1. ~ mmu_on => tlb = Empty
      BY <1>1 DEF IInv, Usable
    <3> QED BY <2>1, <3>1, EmptyHasNothing
  <2>3. Permits(leaf, access, el)
    BY <2>1 DEF Permits
  <2>4. Translate(tlb, p, access, el) = Checked(tlb, leaf, access, el)
    BY <2>1, <2>2 DEF Translate
  <2> HIDE DEF leaf, access
  <2>5. Checked(tlb, leaf, access, el) = [tlb |-> tlb, ok |-> TRUE, frame |-> leaf.frame]
    BY <2>3 DEF Checked
  <2> QED BY <2>4, <2>5 DEF leaf, access
<1> QED BY <1>1, TranslationInvariant, PTL

(* While the kernel owes no TLBI, an instruction makes exactly the accesses *)
(* that every descriptor on their path allows, and aborts only on one that  *)
(* some descriptor refuses, whatever pages its elements span (gather,       *)
(* scatter, translate).                                                     *)
THEOREM AccessesAreGranted == Spec => AccessesFollowTables
<1> DEFINE Step == insn # None /\ abort = None /\ mmu_on /\ ~ dirty =>
                     /\ \A a \in touched' : Granted(a.page, a.access, a.el)
                     /\ abort' # None => ~ Granted(abort'.page, abort'.access, abort'.el)
<1>1. ASSUME IInv, [Next]_vars PROVE [Step]_vars
  <2>1. CASE UNCHANGED vars
    BY <2>1
  <2>2. CASE Execute
    BY <1>1, <2>2, ExecuteSound
  <2>3. CASE Kernel \/ Issue
    BY <2>3 DEF Kernel, EditTables, Tlbi, MsrTtbr0, MsrSctlr, Issue, AtKernel
  <2>4. CASE Handler
    BY <2>4 DEF Handler, PageIn, Resume, Kill
  <2> QED BY <1>1, <2>1, <2>2, <2>3, <2>4 DEF Next
<1>2. Spec => [][Step]_vars
  <2> HIDE DEF Step
  <2>1. IInv /\ [Next]_vars => [Step]_vars
    BY <1>1
  <2> QED BY <2>1, TranslationInvariant, PTL DEF Spec
<1> QED BY <1>2 DEF AccessesFollowTables
=============================================================================
