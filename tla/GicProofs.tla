----------------------------- MODULE GicProofs -----------------------------
(***************************************************************************)
(* Machine-checked proofs about the interrupt controller, for every set of *)
(* interrupts, every number of priorities and every register access.  The  *)
(* first part, what each method preserves, and the facts about numbers are *)
(* what the proofs about the machine, the board and the devices rest on.   *)
(***************************************************************************)
EXTENDS Gic, TLAPS, SequenceTheorems, WellFoundedInduction

-----------------------------------------------------------------------------
(* Numbers *)

(* A non-empty set of naturals has a smallest element. *)
LEMMA LeastNatural ==
    ASSUME NEW S, S \subseteq Nat, S # {}
    PROVE  \E n \in S : \A m \in S : n <= m
<1> DEFINE Less == {ss \in Nat \X Nat : ss[1] < ss[2]}
<1>1. IsWellFoundedOn(Less, Nat)
  BY NatLessThanWellFounded, Zenon DEF OpToRel
<1>2. \E n \in S : \A m \in S : ~ (<<m, n>> \in Less)
  <2> HIDE DEF Less
  <2> QED BY <1>1, WFMin
<1>3. \A m, n \in Nat : ~ (<<m, n>> \in Less) => n <= m
  OBVIOUS
<1>4. QED
  BY <1>2, <1>3

(* A set that holds 0 and, with each number below n, the next one, holds    *)
(* all of 0 .. n.                                                           *)
LEMMA UpTo ==
    ASSUME NEW n \in Nat, NEW S, 0 \in S, \A k \in 0 .. n - 1 : k \in S => k + 1 \in S
    PROVE  0 .. n \subseteq S
<1> DEFINE Missing == {k \in 0 .. n : k \notin S}
<1> SUFFICES ASSUME Missing # {} PROVE FALSE
  OBVIOUS
<1>1. PICK k \in Missing : \A m \in Missing : k <= m
  <2>1. Missing \subseteq Nat
    OBVIOUS
  <2> HIDE DEF Missing
  <2> QED BY <2>1, LeastNatural
<1>2. k \in 1 .. n /\ k - 1 \notin Missing /\ k - 1 \in 0 .. n - 1
  BY <1>1
<1>3. k - 1 \in S /\ (k - 1) + 1 = k
  BY <1>2
<1> QED BY <1>1, <1>2, <1>3

LEMMA DivModOf ==
    ASSUME NEW n \in Int, NEW m \in Nat \ {0}
    PROVE  n \div m \in Int /\ n % m \in 0 .. m - 1 /\ n = (n \div m) * m + (n % m)
OBVIOUS

(* What is a multiple of m and below m on either side of 0 is 0.            *)
LEMMA SmallMultiple ==
    ASSUME NEW c \in Int, NEW m \in Nat \ {0}, c * m < m, c * m > -m
    PROVE  c = 0
<1>1. c >= 1 => c * m >= m
  OBVIOUS
<1>2. c <= -1 => c * m <= -m
  OBVIOUS
<1> QED BY <1>1, <1>2

LEMMA ModUnique ==
    ASSUME NEW n \in Int, NEW m \in Nat \ {0}, NEW q \in Int, NEW r \in 0 .. m - 1,
           n = q * m + r
    PROVE  n % m = r
<1> DEFINE d == n \div m
           e == n % m
<1>1. d \in Int /\ e \in 0 .. m - 1 /\ n = d * m + e
  BY DivModOf
<1> HIDE DEF d, e
<1>2. (q - d) * m = e - r /\ q - d \in Int
  BY <1>1
<1> DEFINE c == q - d
<1>3. c \in Int /\ c * m = e - r
  BY <1>2
<1>4. c = 0
  <2> HIDE DEF c
  <2> QED BY <1>1, <1>3, SmallMultiple
<1>5. q = d
  BY <1>1, <1>4
<1>6. r = e
  BY <1>1, <1>5
<1> QED BY <1>6 DEF e

(* An index one lap out of range, wrapped.                                  *)
LEMMA WrapsAt ==
    ASSUME NEW m \in Nat \ {0}, NEW i \in Int, i >= -m, i < 2 * m
    PROVE  i % m = IF i < 0 THEN i + m ELSE IF i < m THEN i ELSE i - m
<1> DEFINE q == IF i < 0 THEN -1 ELSE IF i < m THEN 0 ELSE 1
           r == IF i < 0 THEN i + m ELSE IF i < m THEN i ELSE i - m
<1>1. m \in Nat \ {0}
  OBVIOUS
<1>2. q \in {-1, 0, 1} /\ r \in 0 .. m - 1 /\ i = q * m + r
  BY <1>1
<1>3. i % m = r
  <2> HIDE DEF q, r
  <2>1. q \in Int
    BY <1>2
  <2> QED BY Zenon, <1>1, <1>2, <2>1, ModUnique
<1> QED BY <1>3

(* The distance from one wrapping index to another: what it is.             *)
DistanceIs(m, a, b) ==
    /\ (a - b) % m \in 0 .. m - 1
    /\ (a - b) % m = IF a >= b THEN a - b ELSE a - b + m
    /\ (a - b) % m = 0 <=> a = b
    /\ (b + ((a - b) % m)) % m = a

(* The distance of two indices of one range, whatever lap they are on.      *)
LEMMA DistanceAt ==
    ASSUME NEW m \in Nat \ {0}, NEW a \in 0 .. m - 1, NEW b \in 0 .. m - 1
    PROVE  DistanceIs(m, a, b)
<1>1. m \in Nat \ {0} /\ a \in 0 .. m - 1 /\ b \in 0 .. m - 1
  OBVIOUS
<1> DEFINE d == (a - b) % m
<1>2. d = IF a >= b THEN a - b ELSE a - b + m
  <2>1. a - b \in Int /\ a - b >= -m /\ a - b < 2 * m
    BY <1>1
  <2>2. d = IF a - b < 0 THEN (a - b) + m ELSE IF a - b < m THEN a - b ELSE (a - b) - m
    BY Zenon, <1>1, <2>1, WrapsAt
  <2> HIDE DEF d
  <2> QED BY <1>1, <2>2
<1> HIDE DEF d
<1>3. (b + d) % m = a
  <2> DEFINE c == b + d
  <2>1. c \in Int /\ c >= -m /\ c < 2 * m
    BY <1>1, <1>2
  <2>2. c % m = IF c < 0 THEN c + m ELSE IF c < m THEN c ELSE c - m
    <3> HIDE DEF c
    <3> QED BY Zenon, <1>1, <2>1, WrapsAt
  <2>3. (IF c < 0 THEN c + m ELSE IF c < m THEN c ELSE c - m) = a
    BY <1>1, <1>2
  <2> HIDE DEF c
  <2> QED BY Zenon, <2>2, <2>3 DEF c
<1>4. d \in 0 .. m - 1 /\ (d = 0 <=> a = b)
  BY <1>1, <1>2
<1> QED BY <1>2, <1>3, <1>4 DEF DistanceIs, d

(* The slots of a ring do not see the wrap of an index: their number        *)
(* divides the range of the indices.                                        *)
SameSlot(m, n, i, k) == ((i % m) + k) % n = (i + k) % n

(* So an index and its wrap name the same slot.                             *)
LEMMA SlotOfWrappedAt ==
    ASSUME NEW m \in Nat \ {0}, NEW n \in Nat \ {0}, m % n = 0,
           NEW i \in Int, NEW k \in Int
    PROVE  SameSlot(m, n, i, k)
<1> DEFINE q == i \div m
           r == i % m
           c == m \div n
           p == (r + k) \div n
           s == (r + k) % n
<1>1. m \in Nat \ {0} /\ n \in Nat \ {0} /\ m % n = 0
  OBVIOUS
<1>2. q \in Int /\ r \in Int /\ i = q * m + r
  BY <1>1, DivModOf
<1>3. c \in Int /\ m = c * n
  <2>1. c \in Int /\ m = c * n + (m % n)
    BY <1>1, DivModOf
  <2> HIDE DEF c
  <2> QED BY <1>1, <2>1
<1> HIDE DEF q, r, c
<1>4. p \in Int /\ s \in 0 .. n - 1 /\ r + k = p * n + s
  <2>1. r + k \in Int
    BY <1>2
  <2> QED BY <1>1, <2>1, DivModOf
<1> HIDE DEF p, s
<1>5. q * m = (q * c) * n /\ q * c \in Int
  BY <1>1, <1>2, <1>3
<1> DEFINE e == q * c
<1>6. e \in Int /\ i + k = (e + p) * n + s
  <2>1. e \in Int /\ q * m = e * n
    BY <1>5
  <2> HIDE DEF e
  <2> QED BY <1>1, <1>2, <1>4, <2>1
<1> HIDE DEF e
<1>7. (i + k) % n = s
  <2>1. i + k \in Int /\ e + p \in Int
    BY <1>4, <1>6
  <2> QED BY Zenon, <1>1, <1>4, <1>6, <2>1, ModUnique
<1> QED BY <1>7 DEF SameSlot, r, s

(* Positions less than a lap apart have slots of their own.                 *)
LEMMA SlotsDifferIn ==
    ASSUME NEW n \in Nat \ {0}, NEW i \in Int, NEW j \in Int, i < j, j < i + n
    PROVE  i % n # j % n
<1> DEFINE p == i \div n
           q == j \div n
           r == i % n
<1> SUFFICES ASSUME r = j % n PROVE FALSE
  OBVIOUS
<1>1. n \in Nat \ {0}
  OBVIOUS
<1>2. p \in Int /\ q \in Int /\ r \in Int /\ i = p * n + r /\ j = q * n + r
  BY <1>1, DivModOf
<1> HIDE DEF p, q, r
<1> DEFINE c == q - p
<1>3. c \in Int /\ c * n = j - i
  BY <1>1, <1>2
<1>4. c = 0
  <2> HIDE DEF c
  <2> QED BY <1>1, <1>3, SmallMultiple
<1> QED BY <1>1, <1>3, <1>4

-----------------------------------------------------------------------------
(* The scan *)

(* scan_pending returns an interrupt of its candidates, with its priority, *)
(* and no candidate comes before it.                                       *)
LEMMA ScanFindsBest ==
    ASSUME NEW ids, ids \subseteq Irqs, ids # {}, NEW priority \in [Irqs -> Prios]
    PROVE  /\ ScanOf(ids, priority) \in Best
           /\ ScanOf(ids, priority).id \in ids
           /\ ScanOf(ids, priority).prio = priority[ScanOf(ids, priority).id]
           /\ \A j \in ids : Beats(priority, ScanOf(ids, priority).id, j)
<1> USE GicAssumption
<1> DEFINE Ps == {priority[i] : i \in ids}
<1>1. PICK p \in Ps : \A q \in Ps : p <= q
  <2>1. Ps \subseteq Nat /\ Ps # {}
    <3>1. \A i \in ids : priority[i] \in Nat
      BY DEF Prios
    <3> QED BY <3>1
  <2> QED BY <2>1, LeastNatural
<1> DEFINE Ties == {i \in ids : priority[i] = p}
<1>2. PICK i \in Ties : \A j \in Ties : i <= j
  <2>1. Ties \subseteq Nat /\ Ties # {}
    OBVIOUS
  <2> QED BY <2>1, LeastNatural
<1>3. \A j \in ids : Beats(priority, i, j)
  <2> TAKE j \in ids
  <2>1. priority[i] = p /\ priority[j] \in Ps /\ priority[i] \in Int /\ priority[j] \in Int
    BY DEF Prios
  <2>2. priority[j] = p => i <= j
    BY <1>2
  <2>3. p <= priority[j]
    BY <1>1, <2>1
  <2> HIDE DEF Ps, Ties
  <2> QED BY <2>1, <2>2, <2>3 DEF Beats
<1> DEFINE best == CHOOSE k \in ids : \A j \in ids : Beats(priority, k, j)
<1>4. best \in ids /\ \A j \in ids : Beats(priority, best, j)
  BY <1>3
<1>5. ScanOf(ids, priority) = [id |-> best, prio |-> priority[best]]
  BY DEF ScanOf
<1> HIDE DEF best
<1>6. QED
  BY <1>4, <1>5 DEF Best

LEMMA ScanType ==
    ASSUME NEW g \in GicType
    PROVE  ScanPending(g) \in Best \cup {None}
<1>1. CASE Candidates(g) = {}
  BY <1>1 DEF ScanPending, ScanOf
<1>2. CASE Candidates(g) # {}
  BY <1>2, ScanFindsBest DEF ScanPending, Candidates, GicType
<1> QED BY <1>1, <1>2

(* The scan reads the enable, pending and priority arrays and nothing else. *)
LEMMA ScanDependsOn ==
    ASSUME NEW g, NEW h, h.enabled = g.enabled, h.pending = g.pending,
           h.priority = g.priority
    PROVE  ScanPending(h) = ScanPending(g)
BY DEF ScanPending, Candidates

LEMMA RecomputeFacts ==
    ASSUME NEW g \in GicType
    PROVE  /\ Recompute(g) \in GicType
           /\ Coherent(Recompute(g))
           /\ Recompute(g).running = g.running
           /\ Recompute(g).pending = g.pending
           /\ Recompute(g).active = g.active
           /\ Recompute(g).enabled = g.enabled
           /\ Recompute(g).priority = g.priority
           /\ Recompute(g).cached_pending = ScanPending(g)
<1>1. Recompute(g) \in GicType
  BY ScanType DEF Recompute, GicType
<1>2. /\ Recompute(g).running = g.running
      /\ Recompute(g).pending = g.pending
      /\ Recompute(g).active = g.active
      /\ Recompute(g).enabled = g.enabled
      /\ Recompute(g).priority = g.priority
      /\ Recompute(g).cached_pending = ScanPending(g)
  BY DEF Recompute, GicType
<1> QED BY <1>1, <1>2, ScanDependsOn DEF Coherent

(* A method that ends in a recompute and leaves the active-priority stack   *)
(* alone preserves the invariant.                                           *)
LEMMA InvByRecompute ==
    ASSUME NEW g \in GicType, StrictlyNested(g)
    PROVE  GicInv(Recompute(g))
BY RecomputeFacts DEF GicInv, StrictlyNested

-----------------------------------------------------------------------------
(* The active-priority stack *)

LEMMA AcknowledgeInv ==
    ASSUME NEW g, GicInv(g)
    PROVE  GicInv(Acknowledge(g))
<1>1. CASE ~ Passes(g)
  BY <1>1 DEF Acknowledge
<1>2. CASE Passes(g)
  <2> DEFINE p == g.cached_pending.prio
             s == Append(g.running, p)
             h == [g EXCEPT !.pending = @ \ {g.cached_pending.id},
                            !.active = @ \cup {g.cached_pending.id},
                            !.running = s]
  <2>1. g \in GicType /\ g.running \in Seq(Prios) /\ p \in Prios /\ g.cached_pending.id \in Irqs
    BY <1>2 DEF GicInv, GicType, Passes, Best
  <2>2. h \in GicType
    <3>1. s \in Seq(Prios)
      BY <2>1
    <3>2. g.pending \in SUBSET Irqs /\ g.active \in SUBSET Irqs
      BY <2>1 DEF GicType
    <3> HIDE DEF p, s
    <3> QED BY <2>1, <3>1, <3>2 DEF GicType
  <2>3. h.running = s
    <3> HIDE DEF s
    <3> QED BY <2>1 DEF GicType
  <2>4. p < IdlePrio /\ (Len(g.running) > 0 => p < g.running[Len(g.running)])
    BY <1>2, <2>1, GicAssumption DEF Passes, RunningPrio, Last, Prios, GicType
  <2>5. StrictlyNested(h)
    <3> SUFFICES ASSUME NEW k \in 1 .. Len(s)
                 PROVE  s[k] <= IdlePrio - k /\ (k > 1 => s[k] < s[k - 1])
      BY <2>3 DEF StrictlyNested
    <3> HIDE DEF p
    <3>1. Len(s) = Len(g.running) + 1 /\ \A j \in 1 .. Len(g.running) : s[j] = g.running[j]
      BY <2>1
    <3>2. s[Len(g.running) + 1] = p
      BY <2>1
    <3>3. CASE k <= Len(g.running)
      BY <2>1, <3>1, <3>3 DEF GicInv, StrictlyNested
    <3>4. CASE k = Len(g.running) + 1
      <4>1. Len(g.running) > 0 => g.running[Len(g.running)] <= IdlePrio - Len(g.running)
        BY <2>1 DEF GicInv, StrictlyNested
      <4>2. Len(g.running) > 0 => g.running[Len(g.running)] \in Int
        <5>1. Len(g.running) > 0 => g.running[Len(g.running)] \in Prios
          BY <2>1
        <5> QED BY <5>1 DEF Prios
      <4>3. p \in Int /\ IdlePrio \in Int
        BY <2>1, GicAssumption DEF Prios
      <4> QED BY <2>1, <2>4, <3>1, <3>2, <3>4, <4>1, <4>2, <4>3
    <3> QED BY <2>1, <3>1, <3>3, <3>4
  <2>6. Acknowledge(g) = Recompute(h)
    BY <1>2 DEF Acknowledge
  <2> QED BY <2>2, <2>5, <2>6, InvByRecompute
<1> QED BY <1>1, <1>2

LEMMA EndOfInterruptInv ==
    ASSUME NEW g, GicInv(g), NEW id
    PROVE  GicInv(EndOfInterrupt(g, id))
<1> DEFINE s == IF g.running = << >> THEN g.running ELSE Front(g.running)
           h == [g EXCEPT !.active = @ \ {id}, !.running = s]
<1>1. g \in GicType /\ g.running \in Seq(Prios)
  BY DEF GicInv, GicType
<1>2. /\ s \in Seq(Prios) /\ Len(s) <= Len(g.running)
      /\ \A k \in 1 .. Len(s) : s[k] = g.running[k]
  <2>1. CASE g.running = << >>
    BY <1>1, <2>1
  <2>2. CASE g.running # << >>
    <3>1. Len(g.running) \in Nat \ {0}
      BY <1>1, <2>2
    <3>2. \A i \in 1 .. Len(g.running) - 1 : g.running[i] \in Prios
      BY <1>1
    <3>3. /\ Front(g.running) \in Seq(Prios)
          /\ Len(Front(g.running)) = Len(g.running) - 1
          /\ \A k \in 1 .. Len(g.running) - 1 : Front(g.running)[k] = g.running[k]
      BY <1>1, <3>1, <3>2, SubSeqProperties DEF Front
    <3> QED BY <1>1, <2>2, <3>1, <3>3
  <2> QED BY <2>1, <2>2
<1> HIDE DEF s
<1>3. EndOfInterrupt(g, id) = h
  BY DEF EndOfInterrupt, s
<1>4. h \in GicType /\ h.running = s
  BY <1>1, <1>2 DEF GicType
<1>5. Coherent(h)
  <2>1. /\ h.enabled = g.enabled /\ h.pending = g.pending /\ h.priority = g.priority
        /\ h.cached_pending = g.cached_pending
    BY <1>1 DEF GicType
  <2> HIDE DEF h
  <2> QED BY <2>1, ScanDependsOn DEF GicInv, Coherent
<1>6. StrictlyNested(h)
  <2> SUFFICES ASSUME NEW k \in 1 .. Len(s)
               PROVE  s[k] <= IdlePrio - k /\ (k > 1 => s[k] < s[k - 1])
    BY <1>4 DEF StrictlyNested
  <2>1. s[k] = g.running[k] /\ (k > 1 => s[k - 1] = g.running[k - 1])
    BY <1>2
  <2>2. k \in 1 .. Len(g.running)
    BY <1>1, <1>2
  <2> QED BY <2>1, <2>2 DEF GicInv, StrictlyNested
<1> HIDE DEF h
<1> QED BY <1>3, <1>4, <1>5, <1>6 DEF GicInv

(* What pop leaves is no longer than what it found. *)
LEMMA EndOfInterruptShrinks ==
    ASSUME NEW g \in GicType, NEW id
    PROVE  ~ (Len(EndOfInterrupt(g, id).running) > Len(g.running))
<1> DEFINE s == IF g.running = << >> THEN g.running ELSE Front(g.running)
<1>1. g.running \in Seq(Prios)
  BY DEF GicType
<1>2. EndOfInterrupt(g, id).running = s
  BY DEF EndOfInterrupt, GicType
<1>3. CASE g.running = << >>
  BY <1>1, <1>2, <1>3
<1>4. CASE g.running # << >>
  <2>1. Len(g.running) \in Nat \ {0}
    BY <1>1, <1>4
  <2>2. \A i \in 1 .. Len(g.running) - 1 : g.running[i] \in Prios
    BY <1>1
  <2>3. Len(Front(g.running)) = Len(g.running) - 1
    BY <1>1, <2>1, <2>2, SubSeqProperties DEF Front
  <2> QED BY <1>1, <1>2, <1>4, <2>1, <2>3
<1> QED BY <1>3, <1>4

-----------------------------------------------------------------------------
(* The other methods, none of which touches the stack *)

LEMMA LineInv ==
    ASSUME NEW g, GicInv(g), NEW id \in Irqs
    PROVE  /\ GicInv(SetPending(g, id)) /\ SetPending(g, id).running = g.running
           /\ GicInv(ClearPending(g, id)) /\ ClearPending(g, id).running = g.running
<1> DEFINE up == [g EXCEPT !.pending = @ \cup {id}]
           down == [g EXCEPT !.pending = @ \ {id}]
<1>1. g \in GicType /\ StrictlyNested(g)
  BY DEF GicInv
<1>2. up \in GicType /\ up.running = g.running /\ down \in GicType /\ down.running = g.running
  BY <1>1 DEF GicType
<1>3. /\ SetPending(g, id) \in {g, Recompute(up)}
      /\ ClearPending(g, id) \in {g, Recompute(down)}
  BY DEF SetPending, ClearPending
<1> HIDE DEF up, down
<1>4. StrictlyNested(up) /\ StrictlyNested(down)
  BY <1>1, <1>2 DEF StrictlyNested
<1> QED BY <1>2, <1>3, <1>4, RecomputeFacts, InvByRecompute

LEMMA EnableInv ==
    ASSUME NEW g, GicInv(g), NEW on \in BOOLEAN, NEW p \in Prios
    PROVE  /\ GicInv(WriteDistCtlr(g, on)) /\ WriteDistCtlr(g, on).running = g.running
           /\ GicInv(WriteCpuCtlr(g, on)) /\ WriteCpuCtlr(g, on).running = g.running
           /\ GicInv(WritePmr(g, p)) /\ WritePmr(g, p).running = g.running
<1> DEFINE d == [g EXCEPT !.dist_enabled = on]
           c == [g EXCEPT !.cpu_enabled = on]
           m == [g EXCEPT !.pmr = p]
<1>1. g \in GicType /\ StrictlyNested(g) /\ Coherent(g)
  BY DEF GicInv
<1>2. /\ d \in GicType /\ d.running = g.running
      /\ c \in GicType /\ c.running = g.running
      /\ m \in GicType /\ m.running = g.running
  BY <1>1 DEF GicType
<1>3. /\ c.enabled = g.enabled /\ c.pending = g.pending /\ c.priority = g.priority
      /\ c.cached_pending = g.cached_pending
      /\ m.enabled = g.enabled /\ m.pending = g.pending /\ m.priority = g.priority
      /\ m.cached_pending = g.cached_pending
  BY <1>1 DEF GicType
<1>4. WriteDistCtlr(g, on) = Recompute(d) /\ WriteCpuCtlr(g, on) = c /\ WritePmr(g, p) = m
  BY DEF WriteDistCtlr, WriteCpuCtlr, WritePmr
<1> HIDE DEF d, c, m
<1>5. StrictlyNested(d) /\ StrictlyNested(c) /\ StrictlyNested(m)
  BY <1>1, <1>2 DEF StrictlyNested
<1>6. Coherent(c) /\ Coherent(m)
  BY <1>1, <1>3, ScanDependsOn DEF Coherent
<1> QED BY <1>2, <1>4, <1>5, <1>6, RecomputeFacts, InvByRecompute DEF GicInv

LEMMA BitmapInv ==
    ASSUME NEW g, GicInv(g), NEW ids \in SUBSET Irqs
    PROVE  \A h \in {WriteIsenabler(g, ids), WriteIcenabler(g, ids),
                     WriteIspendr(g, ids), WriteIcpendr(g, ids),
                     WriteIsactiver(g, ids), WriteIcactiver(g, ids)} :
              GicInv(h) /\ h.running = g.running
<1> DEFINE R(h) == h \in GicType /\ h.running = g.running
<1>1. g \in GicType /\ StrictlyNested(g)
  BY DEF GicInv
<1>2. \A h : R(h) => GicInv(Recompute(h)) /\ Recompute(h).running = g.running
  BY <1>1, RecomputeFacts, InvByRecompute DEF StrictlyNested
<1>3. R([g EXCEPT !.enabled = @ \cup ids]) /\ R([g EXCEPT !.enabled = @ \ ids])
  BY <1>1 DEF GicType
<1>4. R([g EXCEPT !.pending = @ \cup ids]) /\ R([g EXCEPT !.pending = @ \ ids])
  BY <1>1 DEF GicType
<1>5. R([g EXCEPT !.active = @ \cup ids]) /\ R([g EXCEPT !.active = @ \ ids])
  BY <1>1 DEF GicType
<1> HIDE DEF R
<1> QED BY <1>2, <1>3, <1>4, <1>5
        DEF WriteIsenabler, WriteIcenabler, WriteIspendr, WriteIcpendr,
            WriteIsactiver, WriteIcactiver

LEMMA PriorityInv ==
    ASSUME NEW g, GicInv(g), NEW bank \in SUBSET Irqs, NEW prios \in [bank -> Prios]
    PROVE  GicInv(WriteIpriorityr(g, prios)) /\ WriteIpriorityr(g, prios).running = g.running
<1> DEFINE f == [i \in Irqs |-> IF i \in DOMAIN prios THEN prios[i] ELSE g.priority[i]]
           h == [g EXCEPT !.priority = f]
<1>1. g \in GicType /\ StrictlyNested(g)
  BY DEF GicInv
<1>2. f \in [Irqs -> Prios]
  BY <1>1 DEF GicType
<1>3. WriteIpriorityr(g, prios) = Recompute(h)
  BY DEF WriteIpriorityr
<1> HIDE DEF f
<1>4. h \in GicType /\ h.running = g.running
  BY <1>1, <1>2 DEF GicType
<1> HIDE DEF h
<1>5. StrictlyNested(h)
  BY <1>1, <1>4 DEF StrictlyNested
<1> QED BY <1>3, <1>4, <1>5, RecomputeFacts, InvByRecompute

LEMMA SgirInv ==
    ASSUME NEW g, GicInv(g), NEW sgi \in Sgis, NEW filter, NEW cpu0
    PROVE  GicInv(WriteSgir(g, sgi, filter, cpu0)) /\ WriteSgir(g, sgi, filter, cpu0).running = g.running
<1> DEFINE h == [g EXCEPT !.enabled = @ \cup {sgi}, !.pending = @ \cup {sgi}]
<1>1. g \in GicType /\ StrictlyNested(g) /\ sgi \in Irqs
  BY GicAssumption DEF GicInv
<1>2. h \in GicType /\ h.running = g.running
  BY <1>1 DEF GicType
<1>3. WriteSgir(g, sgi, filter, cpu0) \in {Recompute(g), Recompute(h)}
  BY DEF WriteSgir
<1> HIDE DEF h
<1>4. StrictlyNested(h)
  BY <1>1, <1>2 DEF StrictlyNested
<1> QED BY <1>1, <1>2, <1>3, <1>4, RecomputeFacts, InvByRecompute

-----------------------------------------------------------------------------
(* Reset *)

LEMMA ResetInv == GicInv(GicReset)
<1>1. GicReset \in GicType
  <2>1. 0 \in Prios /\ [i \in Irqs |-> 0] \in [Irqs -> Prios] /\ << >> \in Seq(Prios)
    BY GicAssumption DEF Prios
  <2> QED BY <2>1 DEF GicReset, GicType
<1>2. Coherent(GicReset) /\ StrictlyNested(GicReset)
  BY DEF Coherent, StrictlyNested, GicReset, ScanPending, ScanOf, Candidates
<1> QED BY <1>1, <1>2 DEF GicInv

-----------------------------------------------------------------------------
(* What an acknowledge takes and leaves *)

(* The facts of one acknowledging IAR read.                                 *)
LEMMA AcknowledgeFacts ==
    ASSUME NEW g, GicInv(g), Passes(g)
    PROVE  LET id == g.cached_pending.id
               h == Acknowledge(g)
           IN  /\ id \in Candidates(g)
               /\ \A j \in Candidates(g) : Beats(g.priority, id, j)
               /\ g.cached_pending.prio = g.priority[id]
               /\ h.pending = g.pending \ {id}
               /\ h.active = g.active \cup {id}
               /\ h.enabled = g.enabled
               /\ h.priority = g.priority
               /\ h.running = Append(g.running, g.priority[id])
<1> DEFINE id == g.cached_pending.id
           x == [g EXCEPT !.pending = @ \ {id}, !.active = @ \cup {id},
                          !.running = Append(@, g.cached_pending.prio)]
<1>1. g \in GicType /\ g.cached_pending = ScanPending(g) /\ g.cached_pending # None
  BY DEF GicInv, Coherent, Passes
<1>2. Candidates(g) # {}
  BY <1>1 DEF ScanPending, ScanOf
<1>3. Candidates(g) \subseteq Irqs /\ g.priority \in [Irqs -> Prios]
  BY <1>1 DEF Candidates, GicType
<1>4. /\ id \in Candidates(g)
      /\ g.cached_pending.prio = g.priority[id]
      /\ \A j \in Candidates(g) : Beats(g.priority, id, j)
  BY <1>1, <1>2, <1>3, ScanFindsBest DEF ScanPending
<1>5. Acknowledge(g) = Recompute(x)
  BY DEF Acknowledge
<1>6. /\ x.pending = g.pending \ {id} /\ x.active = g.active \cup {id}
      /\ x.enabled = g.enabled /\ x.priority = g.priority
      /\ x.running = Append(g.running, g.cached_pending.prio)
  BY <1>1 DEF GicType
<1>7. x \in GicType
  <2>1. /\ Append(g.running, g.cached_pending.prio) \in Seq(Prios)
        /\ g.pending \ {id} \in SUBSET Irqs /\ g.active \cup {id} \in SUBSET Irqs
    BY <1>1, <1>3, <1>4 DEF GicType, Best
  <2> HIDE DEF id
  <2> QED BY <1>1, <2>1 DEF GicType
<1> HIDE DEF x
<1>8. /\ Acknowledge(g).pending = x.pending /\ Acknowledge(g).active = x.active
      /\ Acknowledge(g).enabled = x.enabled /\ Acknowledge(g).priority = x.priority
      /\ Acknowledge(g).running = x.running
  BY <1>5, <1>7, RecomputeFacts
<1> QED BY <1>4, <1>6, <1>8

-----------------------------------------------------------------------------
(* The controller under any sequence of register accesses *)

(* Every step of the controller keeps the invariant, and only an IAR read   *)
(* can lengthen the active-priority stack.                                  *)
LEMMA ControllerStep ==
    ASSUME GicInv(gic), [GicNext]_gic
    PROVE  GicInv(gic') /\ (AcknowledgeStep => ReadGiccIar /\ Passes(gic))
<1> DEFINE Same == gic'.running = gic.running
<1>1. Same => ~ AcknowledgeStep
  <2>1. Len(gic.running) \in Int
    BY DEF GicInv, GicType
  <2> QED BY <2>1 DEF AcknowledgeStep
<1>2. CASE RaiseLine
  BY <1>1, <1>2, LineInv DEF RaiseLine
<1>3. CASE DropLine
  BY <1>1, <1>3, LineInv DEF DropLine
<1>4. CASE DistWrite
  <2>1. CASE \E on \in BOOLEAN : gic' = WriteDistCtlr(gic, on)
    <3>1. 0 \in Prios
      BY GicAssumption DEF Prios
    <3> QED BY <1>1, <2>1, <3>1, EnableInv
  <2>2. CASE \E bank \in Banks(8) : \E ids \in SUBSET bank :
                gic' \in {WriteIsenabler(gic, ids), WriteIcenabler(gic, ids),
                         WriteIspendr(gic, ids), WriteIcpendr(gic, ids),
                         WriteIsactiver(gic, ids), WriteIcactiver(gic, ids)}
    BY <1>1, <2>2, BitmapInv DEF Banks
  <2>3. CASE \E bank \in Banks(1) : \E prios \in [bank -> Prios] :
                gic' = WriteIpriorityr(gic, prios)
    BY <1>1, <2>3, PriorityInv DEF Banks
  <2>4. CASE \E sgi \in Sgis, filter \in 0 .. 3, cpu0 \in BOOLEAN :
                gic' = WriteSgir(gic, sgi, filter, cpu0)
    BY <1>1, <2>4, SgirInv
  <2> QED BY <1>4, <2>1, <2>2, <2>3, <2>4 DEF DistWrite
<1>5. CASE ReadGiccIar
  <2>1. GicInv(gic')
    BY <1>5, AcknowledgeInv DEF ReadGiccIar
  <2>2. ~ Passes(gic) => Same
    BY <1>5 DEF ReadGiccIar, Acknowledge
  <2> QED BY <1>1, <1>5, <2>1, <2>2
<1>6. CASE WriteEoir
  BY <1>6, EndOfInterruptInv, EndOfInterruptShrinks DEF WriteEoir, AcknowledgeStep, GicInv
<1>7. CASE CpuWrite
  <2>1. 0 \in Prios /\ TRUE \in BOOLEAN
    BY GicAssumption DEF Prios
  <2>2. \A on \in BOOLEAN, p \in Prios :
           /\ GicInv(WriteCpuCtlr(gic, on)) /\ WriteCpuCtlr(gic, on).running = gic.running
           /\ GicInv(WritePmr(gic, p)) /\ WritePmr(gic, p).running = gic.running
    BY EnableInv
  <2>3. ASSUME NEW on \in BOOLEAN, gic' = WriteCpuCtlr(gic, on)
        PROVE  GicInv(gic') /\ Same
    BY <2>1, <2>2, <2>3
  <2>4. ASSUME NEW p \in Prios, gic' = WritePmr(gic, p)
        PROVE  GicInv(gic') /\ Same
    BY <2>1, <2>2, <2>4
  <2> HIDE DEF Same
  <2> QED BY <1>1, <1>7, <2>3, <2>4, Zenon DEF CpuWrite
<1>8. CASE UNCHANGED gic
  BY <1>1, <1>8
<1> QED BY <1>2, <1>3, <1>4, <1>5, <1>6, <1>7, <1>8 DEF GicNext

(* The inductive invariant: the type, the cache's coherence and the strict  *)
(* nesting, together, hold in every reachable state.                        *)
THEOREM ControllerInvariant == GicSpec => []GicInv(gic)
<1>1. GicInit => GicInv(gic)
  BY ResetInv DEF GicInit
<1>2. GicInv(gic) /\ [GicNext]_gic => GicInv(gic)'
  BY ControllerStep
<1> QED BY <1>1, <1>2, PTL DEF GicSpec

(* GicInner's fields keep their types under every access.                   *)
THEOREM ControllerTypeCorrect == GicSpec => []GicTypeOK
<1>1. GicInv(gic) => GicTypeOK
  BY DEF GicInv, GicTypeOK
<1> QED BY <1>1, ControllerInvariant, PTL

(* cached_pending is never stale: signals_irq and acknowledge decide on     *)
(* what a full scan of the arrays would find.                               *)
THEOREM CacheIsCoherent == GicSpec => []CacheCoherent
<1>1. GicInv(gic) => CacheCoherent
  BY DEF GicInv, CacheCoherent
<1> QED BY <1>1, ControllerInvariant, PTL

(* The active-priority stack is strictly decreasing, hence no deeper than   *)
(* the number of priority levels, for every sequence of register accesses.  *)
THEOREM NestingIsStrict == GicSpec => []StrictNesting
<1>1. GicInv(gic) => StrictNesting
  BY DEF GicInv, StrictNesting
<1> QED BY <1>1, ControllerInvariant, PTL

-----------------------------------------------------------------------------
(* What an acknowledge takes and leaves, as properties of the behaviour *)

(* An IAR read acknowledges an enabled pending interrupt that no other      *)
(* enabled pending one outranks, for every set of interrupts and priorities.*)
THEOREM AcksTakeHighest == GicSpec => AckTakesHighest
<1> DEFINE A == AcknowledgeStep =>
                  \E id \in Candidates(gic) :
                     /\ id \notin gic'.pending /\ id \in gic'.active
                     /\ Last(gic'.running) = gic.priority[id]
                     /\ \A j \in Candidates(gic) : Beats(gic.priority, id, j)
<1>1. GicInv(gic) /\ [GicNext]_gic => [A]_gic
  <2> SUFFICES ASSUME GicInv(gic), [GicNext]_gic, AcknowledgeStep PROVE A
    OBVIOUS
  <2>1. gic' = Acknowledge(gic) /\ Passes(gic)
    BY ControllerStep DEF ReadGiccIar
  <2> DEFINE id == gic.cached_pending.id
  <2>2. /\ id \in Candidates(gic)
        /\ \A j \in Candidates(gic) : Beats(gic.priority, id, j)
        /\ gic'.pending = gic.pending \ {id}
        /\ gic'.active = gic.active \cup {id}
        /\ gic'.running = Append(gic.running, gic.priority[id])
    BY <2>1, AcknowledgeFacts
  <2>3. Last(gic'.running) = gic.priority[id]
    <3>1. gic.running \in Seq(Prios) /\ gic.priority[id] \in Prios
      BY <2>2 DEF GicInv, GicType, Candidates
    <3> QED BY <2>2, <3>1, AppendProperties DEF Last
  <2> HIDE DEF id
  <2> QED BY <2>2, <2>3
<1> QED BY <1>1, ControllerInvariant, PTL DEF GicSpec, AckTakesHighest

(* After an acknowledge the IRQ line is down: what is still pending has the *)
(* acknowledged priority or a lower one.                                    *)
THEOREM AcksDropLine == GicSpec => AckDropsLine
<1> DEFINE A == AcknowledgeStep => ~ SignalsIrq(gic')
<1>1. GicInv(gic) /\ [GicNext]_gic => [A]_gic
  <2> SUFFICES ASSUME GicInv(gic), [GicNext]_gic, AcknowledgeStep, Passes(gic')
               PROVE FALSE
    BY DEF SignalsIrq
  <2> DEFINE id == gic.cached_pending.id
             next == gic'.cached_pending.id
  <2>1. gic' = Acknowledge(gic) /\ Passes(gic) /\ GicInv(gic')
    BY ControllerStep DEF ReadGiccIar
  <2>2. /\ id \in Candidates(gic)
        /\ \A j \in Candidates(gic) : Beats(gic.priority, id, j)
        /\ gic'.enabled = gic.enabled
        /\ gic'.pending = gic.pending \ {id}
        /\ gic'.priority = gic.priority
        /\ gic'.running = Append(gic.running, gic.priority[id])
    BY <2>1, AcknowledgeFacts
  <2>3. next \in Candidates(gic') /\ gic'.cached_pending.prio = gic'.priority[next]
    BY <2>1, AcknowledgeFacts
  <2>4. next \in Candidates(gic) /\ Beats(gic.priority, id, next)
    BY <2>2, <2>3 DEF Candidates
  <2>5. RunningPrio(gic') = gic.priority[id]
    <3>1. gic.running \in Seq(Prios) /\ gic.priority[id] \in Prios
      BY <2>2 DEF GicInv, GicType, Candidates
    <3> QED BY <2>2, <3>1, AppendProperties DEF Last, RunningPrio
  <2>6. gic.priority[id] \in Int /\ gic.priority[next] \in Int
    <3>1. gic.priority[id] \in Prios /\ gic.priority[next] \in Prios
      BY <2>2, <2>4 DEF GicInv, GicType, Candidates
    <3> HIDE DEF id, next
    <3> QED BY <3>1 DEF Prios
  <2>7. gic.priority[next] < gic.priority[id]
    BY <2>2, <2>3, <2>5 DEF Passes
  <2> HIDE DEF id, next
  <2> QED BY <2>4, <2>6, <2>7 DEF Beats
<1> QED BY <1>1, ControllerInvariant, PTL DEF GicSpec, AckDropsLine
=============================================================================
