--------------------------- MODULE VirtioIoProofs ---------------------------
(***************************************************************************)
(* Machine-checked proofs about the entropy, input and display devices and *)
(* their drivers, for every size of the queues, every width of their       *)
(* indices, every set of events, resources and pages: what they keep, what *)
(* the window shows, and that an input device implements EventFifo.        *)
(***************************************************************************)
EXTENDS VirtioIo, GicProofs, FiniteSetTheorems

-----------------------------------------------------------------------------
(* What lies in a ring between two indices *)

View(a, first, last) ==
    [k \in 1 .. (last - first) % IdxMod |-> a[(first + k - 1) % QueueNum]]

LEMMA Sizes ==
    /\ QueueNum \in Nat \ {0} /\ IdxMod \in Nat \ {0} /\ QueueNum < IdxMod
    /\ IdxMod % QueueNum = 0
    /\ \A i \in Int : i % QueueNum \in Heads /\ i % IdxMod \in Idx
    /\ 0 \in Idx /\ 0 \in Heads
BY IoAssumption DEF Heads, Idx

LEMMA Numbers ==
    ASSUME NEW i \in Idx
    PROVE  i \in Nat /\ i \in Int /\ i \in 0 .. IdxMod - 1 /\ i < IdxMod /\ IdxMod \in Nat \ {0}
BY IoAssumption DEF Idx

LEMMA Distance ==
    ASSUME NEW a \in Idx, NEW b \in Idx
    PROVE  /\ (a - b) % IdxMod \in 0 .. IdxMod - 1
           /\ (a - b) % IdxMod = IF a >= b THEN a - b ELSE a - b + IdxMod
           /\ (a - b) % IdxMod = 0 <=> a = b
           /\ (b + ((a - b) % IdxMod)) % IdxMod = a
<1>1. IdxMod \in Nat \ {0} /\ a \in 0 .. IdxMod - 1 /\ b \in 0 .. IdxMod - 1
  BY Zenon, Numbers
<1>2. DistanceIs(IdxMod, a, b)
  BY Zenon, <1>1, DistanceAt
<1> QED BY Zenon, <1>2 DEF DistanceIs

LEMMA ViewType ==
    ASSUME NEW a \in [Heads -> Heads], NEW first \in Idx, NEW last \in Idx
    PROVE  /\ View(a, first, last) \in Seq(Heads)
           /\ (last - first) % IdxMod \in Nat
           /\ Len(View(a, first, last)) = (last - first) % IdxMod
           /\ DOMAIN View(a, first, last) = 1 .. (last - first) % IdxMod
           /\ \A k \in 1 .. (last - first) % IdxMod :
                 View(a, first, last)[k] = a[(first + k - 1) % QueueNum]
<1> DEFINE d == (last - first) % IdxMod
<1>1. d \in Nat
  BY Distance, Sizes
<1> HIDE DEF d
<1>2. \A k \in 1 .. d : a[(first + k - 1) % QueueNum] \in Heads
  <2> SUFFICES ASSUME NEW k \in 1 .. d PROVE a[(first + k - 1) % QueueNum] \in Heads
    OBVIOUS
  <2>1. first + k - 1 \in Int
    <3>1. first \in Int
      BY Zenon, Numbers
    <3> QED BY <1>1, <3>1
  <2> QED BY <2>1, Sizes
<1>3. [k \in 1 .. d |-> a[(first + k - 1) % QueueNum]] \in Seq(Heads)
  <2> DEFINE e(k) == a[(first + k - 1) % QueueNum]
  <2>1. \A k \in 1 .. d : e(k) \in Heads
    BY <1>2
  <2> HIDE DEF e
  <2>2. [k \in 1 .. d |-> e(k)] \in Seq(Heads)
    BY <1>1, <2>1, IsASeq
  <2> QED BY <2>2 DEF e
<1>4. View(a, first, last) = [k \in 1 .. d |-> a[(first + k - 1) % QueueNum]]
  BY DEF View, d
<1>5. Len(View(a, first, last)) = d
  BY <1>1, <1>3, <1>4, LenProperties
<1> QED BY <1>1, <1>3, <1>4, <1>5 DEF d

(* What is added at the end hides nothing, as long as there is room.        *)
LEMMA ViewAppend ==
    ASSUME NEW a \in [Heads -> Heads], NEW first \in Idx, NEW last \in Idx,
           NEW head \in Heads, Len(View(a, first, last)) < QueueNum
    PROVE  View([a EXCEPT ![last % QueueNum] = head], first, (last + 1) % IdxMod)
             = Append(View(a, first, last), head)
<1> DEFINE d == (last - first) % IdxMod
           next == (last + 1) % IdxMod
           b == [a EXCEPT ![last % QueueNum] = head]
<1>1. d \in Nat /\ d < QueueNum /\ QueueNum < IdxMod /\ QueueNum \in Nat /\ IdxMod \in Nat \ {0}
  BY ViewType, Sizes
<1>2. /\ next \in Idx /\ last % QueueNum \in Heads /\ first \in Int /\ last \in Int
      /\ last \in 0 .. IdxMod - 1 /\ first \in 0 .. IdxMod - 1
  <2>1. first \in Int /\ last \in Int /\ last \in 0 .. IdxMod - 1 /\ first \in 0 .. IdxMod - 1
    BY Zenon, Numbers
  <2>2. last + 1 \in Int
    BY <2>1
  <2> QED BY Zenon, <2>1, <2>2, Sizes
<1>3. b \in [Heads -> Heads]
  BY <1>2
<1>4. (next - first) % IdxMod = d + 1
  <2>1. d = IF last >= first THEN last - first ELSE last - first + IdxMod
    BY Distance
  <2>2. next = IF last + 1 < IdxMod THEN last + 1 ELSE last + 1 - IdxMod
    <3>1. last + 1 \in Int /\ last + 1 >= -IdxMod /\ last + 1 < 2 * IdxMod /\ last + 1 >= 0
      BY <1>1, <1>2
    <3>2. next = IF last + 1 < 0 THEN (last + 1) + IdxMod
                 ELSE IF last + 1 < IdxMod THEN last + 1 ELSE (last + 1) - IdxMod
      BY Zenon, <1>1, <3>1, WrapsAt
    <3> HIDE DEF next
    <3> QED BY <1>1, <1>2, <3>1, <3>2
  <2>3. (next - first) % IdxMod = IF next >= first THEN next - first ELSE next - first + IdxMod
    BY <1>2, Distance
  <2> HIDE DEF d, next
  <2> QED BY <1>1, <1>2, <2>1, <2>2, <2>3
<1>5. last % QueueNum = (first + d) % QueueNum
  <2>1. (first + d) % IdxMod = last
    BY Distance
  <2> DEFINE x == first + d
  <2>2. /\ IdxMod \in Nat \ {0} /\ QueueNum \in Nat \ {0} /\ IdxMod % QueueNum = 0
        /\ x \in Int /\ 0 \in Int
    BY <1>1, <1>2, Sizes
  <2>3. ((x % IdxMod) + 0) % QueueNum = (x + 0) % QueueNum
    <3> HIDE DEF x
    <3>1. SameSlot(IdxMod, QueueNum, x, 0)
      BY Zenon, <2>2, SlotOfWrappedAt
    <3> QED BY Zenon, <3>1 DEF SameSlot
  <2>4. x % IdxMod = last
    BY Zenon, <2>1
  <2> HIDE DEF x
  <2>5. last % QueueNum = x % QueueNum
    <3>1. last + 0 = last /\ x + 0 = x
      BY <1>2, <2>2
    <3> QED BY Zenon, <2>3, <2>4, <3>1
  <2> QED BY Zenon, <2>5 DEF x
<1> HIDE DEF d, next
<1>6. /\ View(a, first, last) \in Seq(Heads) /\ Len(View(a, first, last)) = d
      /\ \A k \in 1 .. d : View(a, first, last)[k] = a[(first + k - 1) % QueueNum]
  BY ViewType DEF d
<1>7. /\ View(b, first, next) \in Seq(Heads) /\ Len(View(b, first, next)) = d + 1
      /\ \A k \in 1 .. d + 1 : View(b, first, next)[k] = b[(first + k - 1) % QueueNum]
  <2>1. b \in [Heads -> Heads] /\ first \in Idx /\ next \in Idx
    BY <1>2, <1>3
  <2> HIDE DEF b
  <2>2. /\ View(b, first, next) \in Seq(Heads)
        /\ Len(View(b, first, next)) = (next - first) % IdxMod
        /\ \A k \in 1 .. (next - first) % IdxMod :
              View(b, first, next)[k] = b[(first + k - 1) % QueueNum]
    BY Zenon, <2>1, ViewType
  <2> QED BY Zenon, <1>4, <2>2
<1>8. \A k \in 1 .. d : b[(first + k - 1) % QueueNum] = a[(first + k - 1) % QueueNum]
  <2> SUFFICES ASSUME NEW k \in 1 .. d
               PROVE  b[(first + k - 1) % QueueNum] = a[(first + k - 1) % QueueNum]
    OBVIOUS
  <2> DEFINE i == first + k - 1
             j == first + d
  <2>1. i \in Int /\ j \in Int /\ i < j /\ j < i + QueueNum
    BY <1>1, <1>2
  <2>2. i % QueueNum # j % QueueNum /\ i % QueueNum \in Heads
    <3> HIDE DEF i, j
    <3> QED BY <2>1, Sizes, SlotsDifferIn
  <2> QED BY <1>5, <2>2
<1>9. b[(first + (d + 1) - 1) % QueueNum] = head
  <2>1. first + (d + 1) - 1 = first + d
    BY <1>1, <1>2
  <2> QED BY <1>2, <1>5, <2>1
<1>10. /\ Append(View(a, first, last), head) \in Seq(Heads)
       /\ Len(Append(View(a, first, last), head)) = d + 1
       /\ \A k \in 1 .. d : Append(View(a, first, last), head)[k] = View(a, first, last)[k]
       /\ Append(View(a, first, last), head)[d + 1] = head
  BY <1>6, AppendProperties
<1> HIDE DEF b
<1>11. \A k \in 1 .. d + 1 : View(b, first, next)[k] = Append(View(a, first, last), head)[k]
  <2> SUFFICES ASSUME NEW k \in 1 .. d + 1
               PROVE  View(b, first, next)[k] = Append(View(a, first, last), head)[k]
    OBVIOUS
  <2>1. CASE k \in 1 .. d
    BY <1>6, <1>7, <1>8, <1>10, <2>1
  <2>2. CASE k = d + 1
    <3>1. View(b, first, next)[d + 1] = b[(first + (d + 1) - 1) % QueueNum]
      BY <1>1, <1>7
    <3> QED BY <1>9, <1>10, <2>2, <3>1
  <2>3. k \in 1 .. d \/ k = d + 1
    BY <1>1
  <2> QED BY Zenon, <2>1, <2>2, <2>3
<1>12. View(b, first, next) = Append(View(a, first, last), head)
  BY <1>7, <1>10, <1>11, SeqEqual
<1> QED BY <1>12 DEF b, next

(* Passing one leaves the rest.                                             *)
LEMMA ViewTail ==
    ASSUME NEW a \in [Heads -> Heads], NEW first \in Idx, NEW last \in Idx,
           (last - first) % IdxMod # 0
    PROVE  /\ View(a, first, last) # << >>
           /\ Head(View(a, first, last)) = a[first % QueueNum]
           /\ View(a, (first + 1) % IdxMod, last) = Tail(View(a, first, last))
<1> DEFINE d == (last - first) % IdxMod
           next == (first + 1) % IdxMod
           v == View(a, first, last)
           w == View(a, next, last)
<1>1. d \in Nat /\ d # 0 /\ QueueNum \in Nat \ {0} /\ IdxMod \in Nat \ {0}
  BY ViewType, Sizes
<1>2. /\ next \in Idx /\ first \in Int /\ last \in Int /\ next \in Int
      /\ first \in 0 .. IdxMod - 1 /\ last \in 0 .. IdxMod - 1
  <2>1. first \in Int /\ last \in Int /\ first \in 0 .. IdxMod - 1 /\ last \in 0 .. IdxMod - 1
    BY Zenon, Numbers
  <2>2. first + 1 \in Int
    BY <2>1
  <2>3. next \in Idx
    BY Zenon, <2>2, Sizes
  <2> QED BY Zenon, <2>1, <2>3, Numbers
<1>3. (last - next) % IdxMod = d - 1
  <2>1. d = IF last >= first THEN last - first ELSE last - first + IdxMod
    BY Distance
  <2>2. next = IF first + 1 < IdxMod THEN first + 1 ELSE first + 1 - IdxMod
    <3>1. first + 1 \in Int /\ first + 1 >= -IdxMod /\ first + 1 < 2 * IdxMod /\ first + 1 >= 0
      BY <1>1, <1>2
    <3>2. next = IF first + 1 < 0 THEN (first + 1) + IdxMod
                 ELSE IF first + 1 < IdxMod THEN first + 1 ELSE (first + 1) - IdxMod
      BY Zenon, <1>1, <3>1, WrapsAt
    <3> HIDE DEF next
    <3> QED BY <1>1, <1>2, <3>1, <3>2
  <2>3. (last - next) % IdxMod = IF last >= next THEN last - next ELSE last - next + IdxMod
    BY <1>2, Distance
  <2> HIDE DEF d, next
  <2> QED BY <1>1, <1>2, <2>1, <2>2, <2>3
<1>4. /\ v \in Seq(Heads) /\ Len(v) = d
      /\ \A k \in 1 .. d : v[k] = a[(first + k - 1) % QueueNum]
  BY ViewType
<1>5. /\ w \in Seq(Heads) /\ Len(w) = d - 1
      /\ \A k \in 1 .. d - 1 : w[k] = a[(next + k - 1) % QueueNum]
  <2> DEFINE e == (last - next) % IdxMod
  <2>1. /\ w \in Seq(Heads) /\ Len(w) = e
        /\ \A k \in 1 .. e : w[k] = a[(next + k - 1) % QueueNum]
    <3> HIDE DEF next
    <3> QED BY <1>2, ViewType
  <2>2. e = d - 1
    BY <1>3
  <2> HIDE DEF e, d, w, next
  <2> QED BY Zenon, <2>1, <2>2
<1>6. \A k \in Int : (next + k - 1) % QueueNum = (first + (k + 1) - 1) % QueueNum
  <2> SUFFICES ASSUME NEW k \in Int
               PROVE  (next + k - 1) % QueueNum = (first + (k + 1) - 1) % QueueNum
    OBVIOUS
  <2>1. first + 1 \in Int /\ k - 1 \in Int
    BY <1>2
  <2>2. (next + (k - 1)) % QueueNum = ((first + 1) + (k - 1)) % QueueNum
    <3> DEFINE x == first + 1
               y == k - 1
    <3>1. x \in Int /\ y \in Int
      BY <2>1
    <3>2. IdxMod \in Nat \ {0} /\ QueueNum \in Nat \ {0} /\ IdxMod % QueueNum = 0
      BY <1>1, Sizes
    <3>3. ((x % IdxMod) + y) % QueueNum = (x + y) % QueueNum
      <4> HIDE DEF x, y
      <4>1. SameSlot(IdxMod, QueueNum, x, y)
        BY Zenon, <3>1, <3>2, SlotOfWrappedAt
      <4> QED BY Zenon, <4>1 DEF SameSlot
    <3> QED BY Zenon, <3>3
  <2>3. next + (k - 1) = next + k - 1 /\ (first + 1) + (k - 1) = first + (k + 1) - 1
    <3> HIDE DEF next
    <3> QED BY <1>2
  <2> QED BY <2>2, <2>3
<1> HIDE DEF d, next, v, w
<1>7. v # << >>
  BY <1>1, <1>4
<1>8. Head(v) = a[first % QueueNum]
  <2>1. 1 \in 1 .. d /\ first + 1 - 1 = first /\ v[1] = a[(first + 1 - 1) % QueueNum]
    BY <1>1, <1>2, <1>4
  <2> QED BY <1>4, <1>7, <2>1
<1>9. /\ Tail(v) \in Seq(Heads) /\ Len(Tail(v)) = d - 1
      /\ \A k \in 1 .. d - 1 : Tail(v)[k] = v[k + 1]
  BY <1>4, <1>7, HeadTailProperties
<1>10. \A k \in 1 .. d - 1 : w[k] = Tail(v)[k]
  <2> SUFFICES ASSUME NEW k \in 1 .. d - 1 PROVE w[k] = Tail(v)[k]
    OBVIOUS
  <2>1. k + 1 \in 1 .. d /\ k \in Int
    BY <1>1
  <2>2. v[k + 1] = a[(first + (k + 1) - 1) % QueueNum]
    BY <1>4, <2>1
  <2> QED BY <1>5, <1>6, <1>9, <2>1, <2>2
<1>11. w = Tail(v)
  BY <1>5, <1>9, <1>10, SeqEqual
<1> QED BY <1>7, <1>8, <1>11 DEF v, w, next

-----------------------------------------------------------------------------
(* Who owns a chain *)

\* The heads the driver has posted and the device has not taken; those the
\* device has given back and the driver has not taken; all in their order.
Posted(s, q) == View(s.ring[q].avail, s.dev.queues[q].last_avail, s.ring[q].avail_idx)
Returned(s, q) == View(s.ring[q].used, drv.last_used[q], s.ring[q].used_idx)
Flight(s, q) == Returned(s, q) \o Posted(s, q)

\* Every chain is free or in flight, and in flight once.
Apart(free, flight) ==
    /\ flight \in Seq(Heads) /\ free \subseteq Heads
    /\ Len(flight) + Cardinality(free) = QueueNum
    /\ \A j \in 1 .. Len(flight) : flight[j] \notin free
    /\ \A j, k \in 1 .. Len(flight) : flight[j] = flight[k] => j = k

OneOwner(s) == \A q \in Queues : Apart(drv.free[q], Flight(s, q))

\* A queue is as the driver set it up, or as a reset left it.
Probed(s) ==
    \A q \in Queues :
       IF q < drv.setup THEN s.dev.queues[q].ready /\ s.dev.queues[q].num = QueueNum
       ELSE /\ s.dev.queues[q] = VirtqDefault /\ s.ring[q] = EmptyRing
            /\ drv.last_used[q] = 0 /\ drv.free[q] = Heads

\* What a device works on, and the driver and the frame buffer around it.
Typed(s) ==
    /\ kind \in Kinds /\ drv \in Driver /\ mem \in Frame
    /\ s = [dev |-> s.dev, ring |-> s.ring, chain |-> s.chain, flushed |-> s.flushed]
    /\ s.dev \in Device /\ s.ring \in [Queues -> Ring] /\ s.flushed \in Ids \cup {None}
    /\ s.chain = [q \in Queues |-> s.chain[q]]
    /\ \A q \in Queues : s.chain[q] \in [Heads -> Chain(q)]

Asked(s) == \A q \in Queues, h \in Heads :
               h \notin drv.free[q] => s.chain[q][h].req \in Requests(q)

Kept(s) == Typed(s) /\ Asked(s) /\ Probed(s) /\ OneOwner(s)

LEMMA Fields ==
    ASSUME NEW s, Typed(s), NEW q \in Queues
    PROVE  /\ s.ring[q] \in Ring /\ s.ring[q].avail \in [Heads -> Heads]
           /\ s.ring[q].used \in [Heads -> Heads]
           /\ s.ring[q].avail_idx \in Idx /\ s.ring[q].used_idx \in Idx
           /\ s.dev.queues \in [Queues -> Virtq] /\ s.dev.queues[q] \in Virtq
           /\ s.dev.queues[q].last_avail \in Idx
           /\ drv.last_used[q] \in Idx /\ drv.free[q] \in SUBSET Heads
           /\ drv.setup \in 0 .. LastQueue + 1
           /\ s.chain[q] \in [Heads -> Chain(q)]
           /\ s.dev.pending \in Seq(Events)
<1>1. s.dev.queues \in [Queues -> Virtq] /\ s.dev.pending \in Seq(Events)
  BY DEF Typed, Device
<1>2. s.ring[q] \in Ring /\ s.dev.queues[q] \in Virtq /\ s.chain[q] \in [Heads -> Chain(q)]
  BY <1>1 DEF Typed
<1>3. drv.last_used[q] \in Idx /\ drv.free[q] \in SUBSET Heads /\ drv.setup \in 0 .. LastQueue + 1
  BY DEF Typed, Driver
<1> QED BY <1>1, <1>2, <1>3 DEF Ring, Virtq

LEMMA Sequences ==
    ASSUME NEW s, Typed(s), NEW q \in Queues
    PROVE  /\ Posted(s, q) \in Seq(Heads) /\ Returned(s, q) \in Seq(Heads)
           /\ Flight(s, q) \in Seq(Heads)
           /\ Len(Flight(s, q)) = Len(Returned(s, q)) + Len(Posted(s, q))
           /\ Len(Posted(s, q)) \in Nat /\ Len(Returned(s, q)) \in Nat
           /\ Len(Posted(s, q)) = (s.ring[q].avail_idx - s.dev.queues[q].last_avail) % IdxMod
           /\ Len(Returned(s, q)) = (s.ring[q].used_idx - drv.last_used[q]) % IdxMod
           /\ \A k \in 1 .. Len(Returned(s, q)) :
                 Returned(s, q)[k] = s.ring[q].used[(drv.last_used[q] + k - 1) % QueueNum]
<1>1. /\ Posted(s, q) \in Seq(Heads)
      /\ Len(Posted(s, q)) = (s.ring[q].avail_idx - s.dev.queues[q].last_avail) % IdxMod
  <2> DEFINE a == s.ring[q].avail
             i == s.dev.queues[q].last_avail
             j == s.ring[q].avail_idx
  <2>1. a \in [Heads -> Heads] /\ i \in Idx /\ j \in Idx
    BY Zenon, Fields
  <2>2. View(a, i, j) \in Seq(Heads) /\ Len(View(a, i, j)) = (j - i) % IdxMod
    <3> HIDE DEF a, i, j
    <3> QED BY Zenon, <2>1, ViewType
  <2> QED BY Zenon, <2>2 DEF Posted
<1>2. /\ Returned(s, q) \in Seq(Heads)
      /\ Len(Returned(s, q)) = (s.ring[q].used_idx - drv.last_used[q]) % IdxMod
      /\ \A k \in 1 .. Len(Returned(s, q)) :
            Returned(s, q)[k] = s.ring[q].used[(drv.last_used[q] + k - 1) % QueueNum]
  <2> DEFINE a == s.ring[q].used
             i == drv.last_used[q]
             j == s.ring[q].used_idx
  <2>1. a \in [Heads -> Heads] /\ i \in Idx /\ j \in Idx
    BY Zenon, Fields
  <2>2. /\ View(a, i, j) \in Seq(Heads) /\ Len(View(a, i, j)) = (j - i) % IdxMod
        /\ \A k \in 1 .. Len(View(a, i, j)) : View(a, i, j)[k] = a[(i + k - 1) % QueueNum]
    <3> DEFINE v == View(a, i, j)
               d == (j - i) % IdxMod
    <3>1. v \in Seq(Heads) /\ Len(v) = d /\ \A k \in 1 .. d : v[k] = a[(i + k - 1) % QueueNum]
      <4> HIDE DEF a, i, j
      <4> QED BY Zenon, <2>1, ViewType
    <3>2. \A k \in 1 .. Len(v) : v[k] = a[(i + k - 1) % QueueNum]
      <4> HIDE DEF v, d, a, i, j
      <4> QED BY Zenon, <3>1
    <3> QED BY Zenon, <3>1, <3>2
  <2> QED BY Zenon, <2>2 DEF Returned
<1>3. Flight(s, q) \in Seq(Heads) /\ Len(Flight(s, q)) = Len(Returned(s, q)) + Len(Posted(s, q))
  BY <1>1, <1>2, ConcatProperties DEF Flight
<1>4. Len(Posted(s, q)) \in Nat /\ Len(Returned(s, q)) \in Nat
  BY <1>1, <1>2, LenProperties
<1> QED BY Zenon, <1>1, <1>2, <1>3, <1>4

(* What pop would find is what is posted: nothing is, before a queue is     *)
(* set up.                                                                  *)
LEMMA BacklogIs ==
    ASSUME NEW s, Kept(s), NEW q \in Queues
    PROVE  /\ Backlog(s, q) = Len(Posted(s, q)) /\ Backlog(s, q) \in Nat
           /\ Backlog(s, q) # 0 => q < drv.setup
<1>1. Typed(s) /\ Probed(s) /\ Len(Posted(s, q)) \in Nat
  BY Sequences DEF Kept
<1>2. Len(Posted(s, q)) = (s.ring[q].avail_idx - s.dev.queues[q].last_avail) % IdxMod
  BY Zenon, <1>1, Sequences
<1>3. CASE q < drv.setup
  <2>1. s.dev.queues[q].ready /\ s.dev.queues[q].num # 0
    BY <1>1, <1>3, Sizes DEF Probed
  <2> QED BY <1>1, <1>2, <1>3, <2>1 DEF Backlog
<1>4. CASE ~ (q < drv.setup)
  <2>1. s.dev.queues[q] = VirtqDefault /\ s.ring[q] = EmptyRing
    BY <1>1, <1>4 DEF Probed
  <2>2. ~ s.dev.queues[q].ready /\ s.dev.queues[q].last_avail = 0 /\ s.ring[q].avail_idx = 0
    BY <2>1 DEF VirtqDefault, EmptyRing
  <2>3. (0 - 0) % IdxMod = 0
    BY Sizes, Distance
  <2> QED BY <1>2, <2>2, <2>3 DEF Backlog
<1> QED BY <1>3, <1>4

-----------------------------------------------------------------------------
(* One chain served *)

LEMMA AppendTail ==
    ASSUME NEW S, NEW r \in Seq(S), NEW p \in Seq(S), p # << >>
    PROVE  Append(r, Head(p)) \o Tail(p) = r \o p
<1>1. /\ Len(r) \in Nat /\ Len(p) \in Nat /\ Len(p) > 0 /\ Head(p) \in S
      /\ Tail(p) \in Seq(S) /\ Len(Tail(p)) = Len(p) - 1 /\ Head(p) = p[1]
      /\ \A k \in 1 .. Len(p) - 1 : Tail(p)[k] = p[k + 1]
  BY HeadTailProperties, LenProperties
<1> DEFINE a == Append(r, Head(p))
<1>2. /\ a \in Seq(S) /\ Len(a) = Len(r) + 1 /\ a[Len(r) + 1] = p[1]
      /\ \A k \in 1 .. Len(r) : a[k] = r[k]
  BY <1>1, AppendProperties
<1> HIDE DEF a
<1>3. /\ a \o Tail(p) \in Seq(S) /\ Len(a \o Tail(p)) = Len(r) + Len(p)
      /\ \A k \in 1 .. Len(a) + Len(Tail(p)) :
            (a \o Tail(p))[k] = IF k <= Len(a) THEN a[k] ELSE Tail(p)[k - Len(a)]
  <2>1. a \o Tail(p) \in Seq(S) /\ Len(a \o Tail(p)) = Len(a) + Len(Tail(p))
    BY <1>1, <1>2, ConcatProperties
  <2>2. \A k \in 1 .. Len(a) + Len(Tail(p)) :
            (a \o Tail(p))[k] = IF k <= Len(a) THEN a[k] ELSE Tail(p)[k - Len(a)]
    BY Zenon, <1>1, <1>2, ConcatProperties
  <2>3. Len(a) + Len(Tail(p)) = Len(r) + Len(p)
    BY <1>1, <1>2
  <2> QED BY Zenon, <2>1, <2>2, <2>3
<1>4. /\ r \o p \in Seq(S) /\ Len(r \o p) = Len(r) + Len(p)
      /\ \A k \in 1 .. Len(r) + Len(p) :
            (r \o p)[k] = IF k <= Len(r) THEN r[k] ELSE p[k - Len(r)]
  BY ConcatProperties
<1>5. \A k \in 1 .. Len(r) + Len(p) : (a \o Tail(p))[k] = (r \o p)[k]
  <2> SUFFICES ASSUME NEW k \in 1 .. Len(r) + Len(p) PROVE (a \o Tail(p))[k] = (r \o p)[k]
    OBVIOUS
  <2> DEFINE m == Len(r)
             n == Len(p)
  <2>0. Len(a) = m + 1 /\ Len(Tail(p)) = n - 1 /\ m \in Nat /\ n \in Nat /\ n > 0 /\ k \in 1 .. m + n
    BY <1>1, <1>2
  <2>1. (a \o Tail(p))[k] = IF k <= m + 1 THEN a[k] ELSE Tail(p)[k - (m + 1)]
    <3>1. k \in 1 .. Len(a) + Len(Tail(p))
      <4> HIDE DEF m, n
      <4> QED BY <2>0
    <3> HIDE DEF m, n
    <3> QED BY <1>3, <3>1, <2>0
  <2>2. (r \o p)[k] = IF k <= m THEN r[k] ELSE p[k - m]
    BY <1>4
  <2>3. (\A i \in 1 .. m : a[i] = r[i]) /\ a[m + 1] = p[1] /\ \A i \in 1 .. n - 1 : Tail(p)[i] = p[i + 1]
    BY <1>1, <1>2
  <2> HIDE DEF m, n
  <2>4. CASE k <= m
    BY <2>0, <2>1, <2>2, <2>3, <2>4
  <2>5. CASE k = m + 1
    <3>1. k - m = 1
      BY <2>0, <2>5
    <3> QED BY <2>0, <2>1, <2>2, <2>3, <2>5, <3>1
  <2>6. CASE k > m + 1
    <3>1. k - (m + 1) \in 1 .. n - 1 /\ (k - (m + 1)) + 1 = k - m
      BY <2>0, <2>6
    <3>2. Tail(p)[k - (m + 1)] = p[k - m]
      BY <2>3, <3>1
    <3> QED BY <2>0, <2>1, <2>2, <2>6, <3>2
  <2> QED BY <2>0, <2>4, <2>5, <2>6
<1> QED BY <1>3, <1>4, <1>5, SeqEqual, Zenon DEF a

LEMMA FreeIsFinite ==
    ASSUME NEW free \in SUBSET Heads
    PROVE  IsFiniteSet(free) /\ Cardinality(free) \in Nat
<1>1. IsFiniteSet(Heads)
  BY Sizes, FS_Interval DEF Heads
<1>2. IsFiniteSet(free)
  BY <1>1, FS_Subset
<1> QED BY <1>2, FS_CardinalityType

Takes(s, q, head, data, t) ==
    /\ Kept(s) /\ Backlog(s, q) # 0 /\ data \in Answers(q)
    /\ head = NextPosted(s, q) /\ t = Done(s, q, head, data)

\* What serving one chain does to what a device works on.
Moves(s, q, head, data, t) ==
    /\ Typed(t) /\ head \in Heads
    /\ Posted(s, q) # << >> /\ Head(Posted(s, q)) = head
    /\ Posted(t, q) = Tail(Posted(s, q))
    /\ Returned(t, q) = Append(Returned(s, q), head)
    /\ \A p \in Queues \ {q} : /\ t.ring[p] = s.ring[p] /\ t.chain[p] = s.chain[p]
                               /\ t.dev.queues[p] = s.dev.queues[p]
    /\ t.dev.queues[q] = [s.dev.queues[q] EXCEPT !.last_avail = (@ + 1) % IdxMod]
    /\ t.chain[q] = [s.chain[q] EXCEPT ![head].data = data]
    /\ t.dev.pending = s.dev.pending /\ t.dev.gpu = s.dev.gpu /\ t.flushed = s.flushed

(* A chain that is taken moves from the end of one ring to the end of the  *)
(* other, and gets its answer; nothing else moves.                          *)
LEMMA DoneMoves ==
    ASSUME NEW s, NEW q \in Queues, NEW head, NEW data, NEW t, Takes(s, q, head, data, t)
    PROVE  Moves(s, q, head, data, t)
<1> DEFINE r == s.ring[q]
           vq == s.dev.queues[q]
           last == vq.last_avail
           nextAvail == (last + 1) % IdxMod
           nextUsed == (r.used_idx + 1) % IdxMod
           slot == r.used_idx % QueueNum
<1>0. /\ Kept(s) /\ Typed(s) /\ Probed(s) /\ OneOwner(s) /\ Backlog(s, q) # 0
      /\ data \in Answers(q) /\ head = NextPosted(s, q) /\ t = Done(s, q, head, data)
  BY DEF Kept, Takes
<1>1. /\ r \in Ring /\ r.avail \in [Heads -> Heads] /\ r.used \in [Heads -> Heads]
      /\ r.avail_idx \in Idx /\ r.used_idx \in Idx /\ s.dev.queues \in [Queues -> Virtq]
      /\ vq \in Virtq /\ last \in Idx /\ drv.last_used[q] \in Idx
      /\ drv.free[q] \in SUBSET Heads /\ s.chain[q] \in [Heads -> Chain(q)]
  BY Zenon, <1>0, Fields
<1>2. nextAvail \in Idx /\ nextUsed \in Idx /\ slot \in Heads
  <2>1. last \in Int /\ r.used_idx \in Int
    BY Zenon, <1>1, Numbers
  <2> HIDE DEF last, r
  <2>2. last + 1 \in Int /\ r.used_idx + 1 \in Int
    BY <2>1
  <2> QED BY Zenon, <2>1, <2>2, Sizes
<1>3. (r.avail_idx - last) % IdxMod # 0 /\ head = r.avail[last % QueueNum] /\ last % QueueNum \in Heads
  <2>1. last \in Int
    BY Zenon, <1>1, Numbers
  <2>2. last % QueueNum \in Heads
    BY Zenon, <2>1, Sizes
  <2>3. (r.avail_idx - last) % IdxMod # 0
    BY Zenon, <1>0, BacklogIs, Sequences
  <2> QED BY Zenon, <1>0, <2>2, <2>3 DEF NextPosted
<1>4. head \in Heads
  BY <1>1, <1>3
<1>5. /\ Posted(s, q) = View(r.avail, last, r.avail_idx)
      /\ Returned(s, q) = View(r.used, drv.last_used[q], r.used_idx)
  BY DEF Posted, Returned
<1>6. /\ Posted(s, q) # << >> /\ Head(Posted(s, q)) = head
      /\ View(r.avail, nextAvail, r.avail_idx) = Tail(Posted(s, q))
  <2> DEFINE v == View(r.avail, last, r.avail_idx)
  <2>1. /\ v # << >> /\ Head(v) = r.avail[last % QueueNum]
        /\ View(r.avail, (last + 1) % IdxMod, r.avail_idx) = Tail(v)
    <3> HIDE DEF r, last
    <3> QED BY Zenon, <1>1, <1>3, ViewTail
  <2> HIDE DEF r, last, v
  <2>2. Posted(s, q) = v
    BY <1>5 DEF v
  <2> QED BY Zenon, <1>3, <2>1, <2>2 DEF nextAvail
<1>7. s.dev \in Device /\ s.ring \in [Queues -> Ring] /\ s.chain = [p \in Queues |-> s.chain[p]]
  BY <1>0 DEF Typed
<1>8. /\ t = [dev |-> t.dev, ring |-> t.ring, chain |-> t.chain, flushed |-> t.flushed]
      /\ t.dev = [s.dev EXCEPT !.queues[q].last_avail = nextAvail]
      /\ t.ring = [s.ring EXCEPT ![q] = push_used(@, head)]
      /\ t.chain = [s.chain EXCEPT ![q][head].data = data]
      /\ t.flushed = s.flushed
  BY <1>0 DEF Done, Typed
<1>9. /\ t.ring[q] = push_used(r, head) /\ t.ring = [s.ring EXCEPT ![q] = t.ring[q]]
      /\ \A p \in Queues \ {q} : t.ring[p] = s.ring[p]
  BY <1>7, <1>8
<1>10. /\ t.ring[q].avail = r.avail /\ t.ring[q].avail_idx = r.avail_idx
       /\ t.ring[q].used = [r.used EXCEPT ![slot] = head] /\ t.ring[q].used_idx = nextUsed
       /\ t.ring[q] \in Ring
  <2>1. t.ring[q] = [avail_idx |-> r.avail_idx, avail |-> r.avail, used_idx |-> nextUsed,
                     used |-> [r.used EXCEPT ![slot] = head]]
    BY <1>1, <1>9 DEF push_used, Ring
  <2>2. [r.used EXCEPT ![slot] = head] \in [Heads -> Heads]
    BY <1>1, <1>2, <1>4
  <2> QED BY <1>1, <1>2, <2>1, <2>2 DEF Ring
<1>11. /\ t.dev.queues = [s.dev.queues EXCEPT ![q].last_avail = nextAvail]
       /\ t.dev = [s.dev EXCEPT !.queues = t.dev.queues]
       /\ t.dev.pending = s.dev.pending /\ t.dev.gpu = s.dev.gpu
  BY <1>7, <1>8 DEF Device
<1>12. /\ t.dev.queues[q] = [vq EXCEPT !.last_avail = nextAvail] /\ t.dev.queues[q] \in Virtq
       /\ t.dev.queues[q].last_avail = nextAvail
       /\ \A p \in Queues \ {q} : t.dev.queues[p] = s.dev.queues[p]
       /\ t.dev.queues \in [Queues -> Virtq]
  <2>1. /\ t.dev.queues[q] = [vq EXCEPT !.last_avail = nextAvail]
        /\ \A p \in Queues \ {q} : t.dev.queues[p] = s.dev.queues[p]
    BY <1>1, <1>11
  <2>2. t.dev.queues[q] \in Virtq /\ t.dev.queues[q].last_avail = nextAvail
    BY <1>1, <1>2, <2>1 DEF Virtq
  <2>3. t.dev.queues \in [Queues -> Virtq]
    BY <1>1, <1>11, <2>1, <2>2
  <2> QED BY <2>1, <2>2, <2>3
<1>13. t.dev \in Device
  BY <1>7, <1>11, <1>12 DEF Device
<1>14. /\ t.chain[q] = [s.chain[q] EXCEPT ![head].data = data] /\ t.chain[q] \in [Heads -> Chain(q)]
       /\ \A p \in Queues \ {q} : t.chain[p] = s.chain[p]
       /\ t.chain = [p \in Queues |-> t.chain[p]]
  <2>1. /\ t.chain[q] = [s.chain[q] EXCEPT ![head].data = data]
        /\ \A p \in Queues \ {q} : t.chain[p] = s.chain[p]
        /\ t.chain = [p \in Queues |-> t.chain[p]]
    BY <1>7, <1>8
  <2>2. [s.chain[q][head] EXCEPT !.data = data] \in Chain(q)
    <3>1. s.chain[q][head] \in Chain(q)
      BY <1>1, <1>4
    <3> QED BY <1>0, <3>1 DEF Chain
  <2>3. t.chain[q] = [s.chain[q] EXCEPT ![head] = [s.chain[q][head] EXCEPT !.data = data]]
    BY <1>1, <2>1
  <2> QED BY <1>1, <1>4, <2>1, <2>2, <2>3
<1>15. Typed(t)
  <2>1. t.ring \in [Queues -> Ring]
    BY <1>7, <1>9, <1>10
  <2>2. \A p \in Queues : t.chain[p] \in [Heads -> Chain(p)]
    BY <1>0, <1>14 DEF Typed
  <2> QED BY <1>0, <1>8, <1>13, <1>14, <2>1, <2>2 DEF Typed
<1>16. Posted(t, q) = Tail(Posted(s, q))
  <2> HIDE DEF r, nextAvail
  <2> QED BY Zenon, <1>6, <1>10, <1>12 DEF Posted
<1>17. Len(Returned(s, q)) < QueueNum
  <2>1. /\ Len(Flight(s, q)) = Len(Returned(s, q)) + Len(Posted(s, q))
        /\ Len(Posted(s, q)) \in Nat /\ Len(Returned(s, q)) \in Nat /\ Posted(s, q) \in Seq(Heads)
    BY Zenon, <1>0, Sequences
  <2>2. Len(Posted(s, q)) # 0
    BY <1>6, <2>1, EmptySeq
  <2>3. Cardinality(drv.free[q]) \in Nat
    BY <1>1, FreeIsFinite
  <2>4. Len(Flight(s, q)) + Cardinality(drv.free[q]) = QueueNum
    BY <1>0 DEF OneOwner, Apart
  <2>5. QueueNum \in Nat
    BY Sizes
  <2> QED BY <2>1, <2>2, <2>3, <2>4, <2>5
<1>18. Returned(t, q) = Append(Returned(s, q), head)
  <2>1. Returned(t, q) = View([r.used EXCEPT ![slot] = head], drv.last_used[q], nextUsed)
    BY Zenon, <1>10 DEF Returned
  <2>2. Len(View(r.used, drv.last_used[q], r.used_idx)) < QueueNum
    BY <1>5, <1>17
  <2>3. View([r.used EXCEPT ![slot] = head], drv.last_used[q], nextUsed)
          = Append(View(r.used, drv.last_used[q], r.used_idx), head)
    <3> HIDE DEF r
    <3> QED BY Zenon, <1>1, <1>4, <2>2, ViewAppend
  <2> QED BY Zenon, <1>5, <2>1, <2>3
<1> QED BY Zenon, <1>4, <1>6, <1>9, <1>11, <1>12, <1>14, <1>15, <1>16, <1>18, <1>8 DEF Moves

(* A head in flight is there once: neither free nor returned already.       *)
LEMMA PostedIsAsked ==
    ASSUME NEW s, Kept(s), NEW q \in Queues, Posted(s, q) # << >>
    PROVE  /\ Head(Posted(s, q)) \in Heads
           /\ Head(Posted(s, q)) \notin drv.free[q]
           /\ \A k \in 1 .. Len(Returned(s, q)) : Returned(s, q)[k] # Head(Posted(s, q))
           /\ s.chain[q][Head(Posted(s, q))].req \in Requests(q)
<1> DEFINE r == Returned(s, q)
           p == Posted(s, q)
           m == Len(r)
           n == Len(p)
<1>1. Typed(s) /\ Asked(s) /\ OneOwner(s)
  BY DEF Kept
<1>2. r \in Seq(Heads) /\ p \in Seq(Heads) /\ m \in Nat /\ n \in Nat
  BY Zenon, <1>1, Sequences
<1>3. Flight(s, q) = r \o p
  BY DEF Flight
<1> HIDE DEF r, p
<1>4. n > 0 /\ Head(p) = p[1] /\ Head(p) \in Heads
  <2>1. p # << >>
    BY DEF p
  <2> QED BY <1>2, <2>1, EmptySeq, HeadTailProperties
<1>5. Len(r \o p) = m + n
  BY <1>2, ConcatProperties
<1>6. \A k \in 1 .. m + n : (r \o p)[k] = IF k <= m THEN r[k] ELSE p[k - m]
  BY Zenon, <1>2, ConcatProperties
<1>7. Apart(drv.free[q], r \o p)
  BY <1>1, <1>3 DEF OneOwner
<1> HIDE DEF m, n
<1>8. m + 1 \in 1 .. m + n /\ (r \o p)[m + 1] = Head(p)
  <2>1. m + 1 \in 1 .. m + n /\ ~ (m + 1 <= m) /\ (m + 1) - m = 1
    BY <1>2, <1>4
  <2> QED BY <1>4, <1>6, <2>1
<1>9. Head(p) \notin drv.free[q]
  BY <1>5, <1>7, <1>8 DEF Apart
<1>10. \A k \in 1 .. m : r[k] # Head(p)
  <2> SUFFICES ASSUME NEW k \in 1 .. m, r[k] = Head(p) PROVE FALSE
    OBVIOUS
  <2>1. k \in 1 .. m + n /\ (r \o p)[k] = r[k] /\ k # m + 1
    <3>1. k \in 1 .. m + n /\ k <= m /\ k # m + 1
      BY <1>2
    <3> QED BY <1>6, <3>1
  <2>2. \A i, j \in 1 .. Len(r \o p) : (r \o p)[i] = (r \o p)[j] => i = j
    BY Zenon, <1>7 DEF Apart
  <2> QED BY <1>5, <1>8, <2>1, <2>2
<1>11. s.chain[q][Head(p)].req \in Requests(q)
  BY Zenon, <1>1, <1>4, <1>9 DEF Asked
<1> QED BY <1>4, <1>9, <1>10, <1>11 DEF p, r, m

LEMMA DoneKept ==
    ASSUME NEW s, NEW q \in Queues, NEW head, NEW data, NEW t, Takes(s, q, head, data, t)
    PROVE  /\ Kept(t)
           /\ \A p \in Queues : Flight(t, p) = Flight(s, p)
           /\ Len(Posted(t, q)) = Len(Posted(s, q)) - 1
<1>1. /\ Typed(t) /\ head \in Heads
      /\ Posted(s, q) # << >> /\ Head(Posted(s, q)) = head
      /\ Posted(t, q) = Tail(Posted(s, q))
      /\ Returned(t, q) = Append(Returned(s, q), head)
      /\ \A p \in Queues \ {q} : /\ t.ring[p] = s.ring[p] /\ t.chain[p] = s.chain[p]
                                 /\ t.dev.queues[p] = s.dev.queues[p]
      /\ t.dev.queues[q] = [s.dev.queues[q] EXCEPT !.last_avail = (@ + 1) % IdxMod]
      /\ t.chain[q] = [s.chain[q] EXCEPT ![head].data = data]
  <2>1. Moves(s, q, head, data, t)
    BY Zenon, DoneMoves
  <2> QED BY <2>1 DEF Moves
<1>2. Typed(s) /\ Asked(s) /\ Probed(s) /\ OneOwner(s) /\ Kept(s) /\ Backlog(s, q) # 0
  BY DEF Kept, Takes
<1>3. Posted(s, q) \in Seq(Heads) /\ Returned(s, q) \in Seq(Heads)
  BY Zenon, <1>2, Sequences
<1>4. ASSUME NEW p \in Queues PROVE Flight(t, p) = Flight(s, p)
  <2>1. CASE p = q
    <3>1. Append(Returned(s, q), head) \o Tail(Posted(s, q)) = Returned(s, q) \o Posted(s, q)
      BY <1>1, <1>3, AppendTail
    <3> QED BY <1>1, <2>1, <3>1 DEF Flight
  <2>2. CASE p # q
    BY <1>1, <2>2 DEF Flight, Returned, Posted
  <2> QED BY <2>1, <2>2
<1>5. OneOwner(t)
  BY Zenon, <1>2, <1>4 DEF OneOwner
<1>6. Asked(t)
  <2> SUFFICES ASSUME NEW p \in Queues, NEW h \in Heads, h \notin drv.free[p]
               PROVE  t.chain[p][h].req \in Requests(p)
    BY DEF Asked
  <2>1. s.chain[p][h].req \in Requests(p)
    BY <1>2 DEF Asked
  <2>2. CASE p = q
    <3>1. s.chain[q] \in [Heads -> Chain(q)]
      BY Zenon, <1>2, Fields
    <3>2. s.chain[q][head] \in Chain(q)
      BY <1>1, <3>1
    <3>3. t.chain[q][h].req = s.chain[q][h].req
      BY <1>1, <3>1, <3>2 DEF Chain
    <3> QED BY <2>1, <2>2, <3>3
  <2>3. CASE p # q
    BY <1>1, <2>1, <2>3
  <2> QED BY <2>2, <2>3
<1>7. Probed(t)
  <2> SUFFICES ASSUME NEW p \in Queues
               PROVE  IF p < drv.setup THEN t.dev.queues[p].ready /\ t.dev.queues[p].num = QueueNum
                      ELSE /\ t.dev.queues[p] = VirtqDefault /\ t.ring[p] = EmptyRing
                           /\ drv.last_used[p] = 0 /\ drv.free[p] = Heads
    BY DEF Probed
  <2>1. CASE p = q
    <3>1. q < drv.setup
      BY <1>2, BacklogIs
    <3>2. s.dev.queues[q].ready /\ s.dev.queues[q].num = QueueNum
      BY <1>2, <3>1 DEF Probed
    <3>3. s.dev.queues[q] \in Virtq
      BY Zenon, <1>2, Fields
    <3> QED BY <1>1, <2>1, <3>1, <3>2, <3>3 DEF Virtq
  <2>2. CASE p # q
    BY <1>1, <1>2, <2>2 DEF Probed
  <2> QED BY <2>1, <2>2
<1>8. Len(Posted(t, q)) = Len(Posted(s, q)) - 1
  BY <1>1, <1>3, HeadTailProperties
<1> QED BY Zenon, <1>1, <1>4, <1>5, <1>6, <1>7, <1>8 DEF Kept

(* What the queues keep does not depend on the rest of the device.          *)
LEMMA SameQueues ==
    ASSUME NEW s, NEW t, Kept(s), Typed(t),
           t.ring = s.ring, t.dev.queues = s.dev.queues, t.chain = s.chain
    PROVE  /\ Kept(t)
           /\ \A q \in Queues : /\ Posted(t, q) = Posted(s, q) /\ Returned(t, q) = Returned(s, q)
                                /\ Flight(t, q) = Flight(s, q) /\ Backlog(t, q) = Backlog(s, q)
                                /\ NextPosted(t, q) = NextPosted(s, q)
<1>1. \A q \in Queues : /\ Posted(t, q) = Posted(s, q) /\ Returned(t, q) = Returned(s, q)
                        /\ Flight(t, q) = Flight(s, q) /\ Backlog(t, q) = Backlog(s, q)
                        /\ NextPosted(t, q) = NextPosted(s, q)
  BY DEF Posted, Returned, Flight, Backlog, NextPosted
<1>2. Asked(t) /\ Probed(t)
  BY Zenon DEF Kept, Asked, Probed
<1>3. OneOwner(t)
  BY Zenon, <1>1 DEF Kept, OneOwner
<1> QED BY <1>1, <1>2, <1>3 DEF Kept

-----------------------------------------------------------------------------
(* The events on their way *)

Data(c, heads) == [k \in 1 .. Len(heads) |-> c[heads[k]].data]

FifoOf(s) == (IF IsInput THEN Data(s.chain[0], Returned(s, 0)) ELSE << >>) \o s.dev.pending

LEMMA DataType ==
    ASSUME NEW c \in [Heads -> Chain(0)], NEW heads \in Seq(Heads)
    PROVE  /\ Data(c, heads) \in Seq(Answers(0) \cup {None})
           /\ Len(Data(c, heads)) = Len(heads)
           /\ \A k \in 1 .. Len(heads) : Data(c, heads)[k] = c[heads[k]].data
<1> DEFINE n == Len(heads)
           e(k) == c[heads[k]].data
           S == Answers(0) \cup {None}
<1>1. n \in Nat /\ \A k \in 1 .. n : heads[k] \in Heads
  BY ElementOfSeq, LenProperties
<1>2. \A h \in Heads : c[h].data \in S
  BY DEF Chain
<1>3. \A k \in 1 .. n : e(k) \in S
  BY Zenon, <1>1, <1>2
<1>4. Data(c, heads) = [k \in 1 .. n |-> e(k)]
  BY DEF Data
<1> HIDE DEF n, e, S
<1>5. [k \in 1 .. n |-> e(k)] \in Seq(S) /\ Len([k \in 1 .. n |-> e(k)]) = n
  <2>1. [k \in 1 .. n |-> e(k)] \in Seq(S)
    BY <1>1, <1>3, IsASeq
  <2>2. DOMAIN [k \in 1 .. n |-> e(k)] = 1 .. n
    OBVIOUS
  <2> QED BY <1>1, <2>1, <2>2, LenProperties
<1> QED BY <1>4, <1>5 DEF n, e, S

LEMMA DataAppend ==
    ASSUME NEW c \in [Heads -> Chain(0)], NEW heads \in Seq(Heads), NEW h \in Heads,
           \A k \in 1 .. Len(heads) : heads[k] # h,
           NEW e \in Answers(0) \cup {None}
    PROVE  Data([c EXCEPT ![h].data = e], Append(heads, h)) = Append(Data(c, heads), e)
<1> DEFINE d == [c EXCEPT ![h].data = e]
           n == Len(heads)
           S == Answers(0) \cup {None}
           longer == Append(heads, h)
<1>1. d \in [Heads -> Chain(0)] /\ d[h].data = e /\ \A i \in Heads : i # h => d[i] = c[i]
  <2>1. c[h] \in Chain(0)
    OBVIOUS
  <2>2. [c[h] EXCEPT !.data = e] \in Chain(0) /\ [c[h] EXCEPT !.data = e].data = e
    BY <2>1 DEF Chain
  <2>3. d = [c EXCEPT ![h] = [c[h] EXCEPT !.data = e]]
    OBVIOUS
  <2> HIDE DEF d
  <2> QED BY <2>2, <2>3
<1>2. /\ longer \in Seq(Heads) /\ Len(longer) = n + 1 /\ n \in Nat /\ longer[n + 1] = h
      /\ \A k \in 1 .. n : longer[k] = heads[k] /\ heads[k] \in Heads
  BY AppendProperties, LenProperties, ElementOfSeq
<1> HIDE DEF d, longer
<1>3. /\ Data(d, longer) \in Seq(S) /\ Len(Data(d, longer)) = n + 1
      /\ \A k \in 1 .. n + 1 : Data(d, longer)[k] = d[longer[k]].data
  <2>1. /\ Data(d, longer) \in Seq(S) /\ Len(Data(d, longer)) = Len(longer)
        /\ \A k \in 1 .. Len(longer) : Data(d, longer)[k] = d[longer[k]].data
    BY Zenon, <1>1, <1>2, DataType
  <2> QED BY Zenon, <1>2, <2>1
<1>4. /\ Data(c, heads) \in Seq(S) /\ Len(Data(c, heads)) = n
      /\ \A k \in 1 .. n : Data(c, heads)[k] = c[heads[k]].data
  BY Zenon, DataType
<1>5. e \in S
  OBVIOUS
<1> HIDE DEF S
<1>6. /\ Append(Data(c, heads), e) \in Seq(S) /\ Len(Append(Data(c, heads), e)) = n + 1
      /\ Append(Data(c, heads), e)[n + 1] = e
      /\ \A k \in 1 .. n : Append(Data(c, heads), e)[k] = Data(c, heads)[k]
  BY <1>4, <1>5, AppendProperties
<1>7. \A k \in 1 .. n + 1 : Data(d, longer)[k] = Append(Data(c, heads), e)[k]
  <2> SUFFICES ASSUME NEW k \in 1 .. n + 1
               PROVE  Data(d, longer)[k] = Append(Data(c, heads), e)[k]
    OBVIOUS
  <2>1. CASE k \in 1 .. n
    <3>1. heads[k] # h /\ heads[k] \in Heads /\ longer[k] = heads[k]
      BY <1>2, <2>1 DEF n
    <3>2. d[longer[k]].data = c[heads[k]].data
      BY <1>1, <3>1
    <3> QED BY <1>3, <1>4, <1>6, <2>1, <3>2
  <2>2. CASE k = n + 1
    BY <1>1, <1>2, <1>3, <1>6, <2>2
  <2>3. k \in 1 .. n \/ k = n + 1
    BY <1>2
  <2> QED BY Zenon, <2>1, <2>2, <2>3
<1>8. Data(d, longer) = Append(Data(c, heads), e)
  <2> DEFINE x == Data(d, longer)
             y == Append(Data(c, heads), e)
  <2>1. x \in Seq(S) /\ y \in Seq(S) /\ Len(x) = Len(y) /\ \A k \in 1 .. Len(x) : x[k] = y[k]
    BY Zenon, <1>3, <1>6, <1>7
  <2> HIDE DEF x, y
  <2>2. x = y
    BY <2>1, SeqEqual
  <2> QED BY <2>2 DEF x, y
<1> QED BY <1>8 DEF d, longer

-----------------------------------------------------------------------------
(* The display *)

Display == [resources: UNION {[I -> Resource] : I \in SUBSET Ids}, scanout_res: Ids \cup {0},
            dirty: BOOLEAN]

\* What was flushed and not touched since is what the window shows, or is about
\* to show.
ShownAs(f, g) ==
    f # None => /\ f \in DOMAIN g.resources /\ f = g.scanout_res
                /\ ~ g.dirty /\ g.resources[f].fits => window = g.resources[f].pixels

Shown(s) == ShownAs(s.flushed, s.dev.gpu)

LEMMA CommandFields ==
    ASSUME NEW c \in Commands
    PROVE  /\ c.cmd \in {"create", "attach", "unref", "detach", "transfer", "scanout",
                         "flush", "info", "other"}
           /\ c.cmd \in {"create", "attach", "unref", "detach", "transfer"} => c.id \in Ids
           /\ c.cmd = "scanout" => c.id \in Ids \cup {0}
           /\ c.cmd = "create" => c.fits \in BOOLEAN
           /\ c.cmd = "attach" => c.backing \in Backings
BY DEF Commands

LEMMA DisplayFields ==
    ASSUME NEW g \in Display
    PROVE  /\ g = [resources |-> g.resources, scanout_res |-> g.scanout_res, dirty |-> g.dirty]
           /\ DOMAIN g.resources \subseteq Ids
           /\ g.resources = [i \in DOMAIN g.resources |-> g.resources[i]]
           /\ \A i \in DOMAIN g.resources : g.resources[i] \in Resource
           /\ g.scanout_res \in Ids \cup {0} /\ g.dirty \in BOOLEAN
BY DEF Display

LEMMA DisplayOf ==
    ASSUME NEW g, NEW I \in SUBSET Ids, NEW R, R = [i \in I |-> R[i]],
           \A i \in I : R[i] \in Resource, NEW r \in Ids \cup {0}, NEW d \in BOOLEAN,
           g = [resources |-> R, scanout_res |-> r, dirty |-> d]
    PROVE  g \in Display
<1>1. R \in [I -> Resource]
  OBVIOUS
<1>2. R \in UNION {[J -> Resource] : J \in SUBSET Ids}
  BY <1>1
<1> QED BY <1>2 DEF Display

LEMMA HandleOf ==
    ASSUME NEW g \in Display, NEW c, NEW R, ResourcesAfter(g, c) = [g EXCEPT !.resources = R]
    PROVE  handle_cmd(g, c)
             = [resources |-> R, scanout_res |-> g.scanout_res, dirty |-> Dirtied(g, c)]
<1>1. g = [resources |-> g.resources, scanout_res |-> g.scanout_res, dirty |-> g.dirty]
  BY Zenon, DisplayFields
<1> DEFINE after == ResourcesAfter(g, c)
           d == Dirtied(g, c)
<1>2. handle_cmd(g, c) = [after EXCEPT !.dirty = d]
  BY DEF handle_cmd
<1> HIDE DEF d
<1>3. after = [resources |-> R, scanout_res |-> g.scanout_res, dirty |-> g.dirty]
  BY <1>1
<1> HIDE DEF after
<1> QED BY <1>2, <1>3 DEF d

LEMMA EmptyBacking == << >> \in Backings
<1>1. 0 \in 0 .. NumPages /\ << >> \in [1 .. 0 -> Pages]
  BY IoAssumption
<1> QED BY <1>1 DEF Backings, SeqOf

LEMMA TransferType ==
    ASSUME NEW res \in Resource, mem \in Frame
    PROVE  /\ Transferred(res) \in Resource /\ Transferred(res).fits = res.fits
<1> DEFINE px == [p \in Pages |-> IF p \in DOMAIN res.backing THEN mem[res.backing[p]]
                                  ELSE res.pixels[p]]
<1>1. Transferred(res) = [fits |-> res.fits, backing |-> res.backing, pixels |-> px]
  BY DEF Transferred, Resource
<1>2. \A p \in DOMAIN res.backing : res.backing[p] \in Pages
  BY DEF Resource, Backings, SeqOf
<1>3. px \in Frame
  BY <1>2 DEF Resource, Frame
<1> HIDE DEF px
<1> QED BY <1>1, <1>3 DEF Resource

LEMMA CommandShows ==
    ASSUME NEW g \in Display, NEW c \in Commands, NEW f \in Ids \cup {None}, mem \in Frame,
           ShownAs(f, g)
    PROVE  /\ handle_cmd(g, c) \in Display /\ FlushedBy(f, g, c) \in Ids \cup {None}
           /\ ShownAs(FlushedBy(f, g, c), handle_cmd(g, c))
<1> DEFINE I == DOMAIN g.resources
           h == handle_cmd(g, c)
           after == ResourcesAfter(g, c)
<1>1. /\ g = [resources |-> g.resources, scanout_res |-> g.scanout_res, dirty |-> g.dirty]
      /\ I \subseteq Ids /\ g.resources = [i \in I |-> g.resources[i]]
      /\ \A i \in I : g.resources[i] \in Resource
      /\ g.scanout_res \in Ids \cup {0} /\ g.dirty \in BOOLEAN
  BY Zenon, DisplayFields
<1>2. /\ c.cmd \in {"create", "attach", "unref", "detach", "transfer", "scanout",
                    "flush", "info", "other"}
      /\ c.cmd \in {"create", "attach", "unref", "detach", "transfer"} => c.id \in Ids
      /\ c.cmd = "scanout" => c.id \in Ids \cup {0}
      /\ c.cmd = "create" => c.fits \in BOOLEAN
      /\ c.cmd = "attach" => c.backing \in Backings
  BY Zenon, CommandFields
<1>3. Dirtied(g, c) \in BOOLEAN /\ (Dirtied(g, c) <=> g.dirty \/ c.cmd = "flush")
  BY <1>1 DEF Dirtied
<1>4. CASE c.cmd = "create"
  <2> DEFINE new == [fits |-> c.fits, backing |-> << >>, pixels |-> [p \in Pages |-> 0]]
             J == I \cup {c.id}
             R == [i \in J |-> IF i = c.id THEN new ELSE g.resources[i]]
  <2>1. new \in Resource
    <3>1. [p \in Pages |-> 0] \in Frame
      BY IoAssumption DEF Frame, Drawings
    <3> QED BY <1>2, <1>4, <3>1, EmptyBacking DEF Resource
  <2>2. after = [g EXCEPT !.resources = R]
    BY <1>4 DEF ResourcesAfter
  <2> HIDE DEF new
  <2>3. /\ J \in SUBSET Ids /\ R = [i \in J |-> R[i]] /\ \A i \in J : R[i] \in Resource
        /\ \A i \in I : i # c.id => R[i] = g.resources[i]
    BY <1>1, <1>2, <1>4, <2>1
  <2>4. FlushedBy(f, g, c) = IF f = c.id THEN None ELSE f
    BY <1>4 DEF FlushedBy
  <2> HIDE DEF R, h
  <2>5. h = [resources |-> R, scanout_res |-> g.scanout_res, dirty |-> Dirtied(g, c)]
    BY <2>2, HandleOf DEF h
  <2>6. h \in Display
    <3> HIDE DEF J, after
    <3> QED BY <1>1, <1>3, <2>3, <2>5, DisplayOf
  <2>7. ShownAs(FlushedBy(f, g, c), h)
    <3>1. DOMAIN R = J
      BY <2>3
    <3> QED BY <1>1, <1>3, <1>4, <2>3, <2>4, <2>5, <3>1 DEF ShownAs
  <2> QED BY <2>4, <2>6, <2>7 DEF h
<1>5. CASE c.cmd = "unref"
  <2> DEFINE J == I \ {c.id}
             R == [i \in J |-> g.resources[i]]
  <2>2. after = [g EXCEPT !.resources = R]
    BY <1>5 DEF ResourcesAfter
  <2>3. /\ J \in SUBSET Ids /\ R = [i \in J |-> R[i]] /\ \A i \in J : R[i] \in Resource
        /\ \A i \in J : R[i] = g.resources[i]
    BY <1>1
  <2>4. FlushedBy(f, g, c) = IF f = c.id THEN None ELSE f
    BY <1>5 DEF FlushedBy
  <2> HIDE DEF R, h
  <2>5. h = [resources |-> R, scanout_res |-> g.scanout_res, dirty |-> Dirtied(g, c)]
    BY <2>2, HandleOf DEF h
  <2>6. h \in Display
    <3> HIDE DEF J, after
    <3> QED BY <1>1, <1>3, <2>3, <2>5, DisplayOf
  <2>7. ShownAs(FlushedBy(f, g, c), h)
    <3>1. DOMAIN R = J
      BY <2>3
    <3> QED BY <1>1, <1>3, <1>5, <2>3, <2>4, <2>5, <3>1 DEF ShownAs
  <2> QED BY <2>4, <2>6, <2>7 DEF h
<1>6. CASE c.cmd \in {"attach", "detach", "transfer"}
  <2> DEFINE R == after.resources
  <2>1. after = [g EXCEPT !.resources = R] /\ R = [i \in I |-> R[i]]
    <3>1. CASE c.id \in I
      BY <1>1, <1>6, <3>1 DEF ResourcesAfter, Known
    <3>2. CASE c.id \notin I
      <4>1. after = g
        BY <1>6, <3>2 DEF ResourcesAfter, Known
      <4>2. g = [g EXCEPT !.resources = g.resources]
        <5>1. g \in Display
          OBVIOUS
        <5> QED BY <5>1 DEF Display
      <4> HIDE DEF after
      <4> QED BY <1>1, <4>1, <4>2
    <3> QED BY <3>1, <3>2
  <2>2. \A i \in I \ {c.id} : R[i] = g.resources[i]
    BY <1>1, <1>6 DEF ResourcesAfter, Known
  <2>3. ASSUME c.id \in I
        PROVE  /\ R[c.id] \in Resource /\ R[c.id].fits = g.resources[c.id].fits
               /\ c.cmd # "transfer" => R[c.id].pixels = g.resources[c.id].pixels
    <3> DEFINE res == g.resources[c.id]
    <3>1. res \in Resource
      BY <1>1, <2>3
    <3>2. CASE c.cmd = "transfer"
      <4>1. R[c.id] = Transferred(res)
        BY <1>1, <2>3, <3>2 DEF ResourcesAfter, Known
      <4> QED BY <3>1, <3>2, <4>1, TransferType
    <3>3. CASE c.cmd = "attach"
      <4>1. R[c.id] = [res EXCEPT !.backing = c.backing]
        BY <1>1, <2>3, <3>3 DEF ResourcesAfter, Known
      <4> QED BY <1>2, <3>1, <3>3, <4>1 DEF Resource
    <3>4. CASE c.cmd = "detach"
      <4>1. R[c.id] = [res EXCEPT !.backing = << >>]
        BY <1>1, <2>3, <3>4 DEF ResourcesAfter, Known
      <4> QED BY <3>1, <3>4, <4>1, EmptyBacking DEF Resource
    <3> QED BY <1>6, <3>2, <3>3, <3>4
  <2> HIDE DEF R, h
  <2>4. h = [resources |-> R, scanout_res |-> g.scanout_res, dirty |-> Dirtied(g, c)]
    BY <2>1, HandleOf DEF h
  <2>5. FlushedBy(f, g, c) = IF c.cmd = "transfer" /\ f = c.id THEN None ELSE f
    BY <1>6 DEF FlushedBy
  <2>6. h \in Display
    <3>1. \A i \in I : R[i] \in Resource
      BY <1>1, <2>2, <2>3
    <3> HIDE DEF after, I
    <3> QED BY <1>1, <1>3, <2>1, <2>4, <3>1, DisplayOf
  <2>7. ShownAs(FlushedBy(f, g, c), h)
    <3>1. DOMAIN R = I
      BY <2>1
    <3> HIDE DEF after
    <3> QED BY <1>1, <1>3, <1>6, <2>2, <2>3, <2>4, <2>5, <3>1 DEF ShownAs
  <2> QED BY <2>5, <2>6, <2>7 DEF h
<1>7. CASE c.cmd = "scanout"
  <2>1. after = [g EXCEPT !.scanout_res = c.id]
    BY <1>7 DEF ResourcesAfter
  <2>2. h = [resources |-> g.resources, scanout_res |-> c.id, dirty |-> Dirtied(g, c)]
    <3> DEFINE d == Dirtied(g, c)
    <3>1. h = [after EXCEPT !.dirty = d]
      BY DEF handle_cmd
    <3>2. after = [resources |-> g.resources, scanout_res |-> c.id, dirty |-> g.dirty]
      BY <1>1, <2>1
    <3> HIDE DEF d, after, h
    <3> QED BY <3>1, <3>2 DEF d
  <2> HIDE DEF h
  <2>3. FlushedBy(f, g, c) = None
    BY <1>7 DEF FlushedBy
  <2>4. h \in Display
    <3> HIDE DEF I, after
    <3> QED BY <1>1, <1>2, <1>3, <1>7, <2>2, DisplayOf
  <2> QED BY <2>3, <2>4 DEF ShownAs, h
<1>8. CASE c.cmd \in {"flush", "info", "other"}
  <2>1. after = g
    BY <1>8 DEF ResourcesAfter
  <2>2. h = [resources |-> g.resources, scanout_res |-> g.scanout_res, dirty |-> Dirtied(g, c)]
    BY <1>1, <2>1 DEF handle_cmd
  <2> HIDE DEF h
  <2>3. FlushedBy(f, g, c) = IF c.cmd = "flush"
                             THEN IF g.scanout_res \in I THEN g.scanout_res ELSE None ELSE f
    BY <1>8 DEF FlushedBy
  <2>4. h \in Display
    <3> HIDE DEF I, after
    <3> QED BY <1>1, <1>3, <2>2, DisplayOf
  <2>5. ShownAs(FlushedBy(f, g, c), h) /\ FlushedBy(f, g, c) \in Ids \cup {None}
    BY <1>1, <1>3, <1>8, <2>2, <2>3 DEF ShownAs
  <2> QED BY <2>4, <2>5 DEF h
<1> QED BY <1>2, <1>4, <1>5, <1>6, <1>7, <1>8

-----------------------------------------------------------------------------
(* One turn *)

Good(s, F) == Kept(s) /\ Shown(s) /\ FifoOf(s) = F

TurnKeeps(s, q, F, t) ==
    /\ Good(t, F)
    /\ Len(Posted(t, q)) = Len(Posted(s, q)) - 1
    /\ Len(t.dev.pending) =
          IF IsInput /\ q = 0 THEN Len(s.dev.pending) - 1 ELSE Len(s.dev.pending)

(* A chain of another queue than that of the events.                        *)
LEMMA OtherKeeps ==
    ASSUME NEW s, NEW q \in Queues, NEW head, NEW data, NEW t, Takes(s, q, head, data, t),
           NEW F, Shown(s), FifoOf(s) = F, ~ (IsInput /\ q = 0)
    PROVE  TurnKeeps(s, q, F, t)
<1>1. Moves(s, q, head, data, t)
  BY Zenon, DoneMoves
<1>2. Kept(t) /\ Len(Posted(t, q)) = Len(Posted(s, q)) - 1
  BY Zenon, DoneKept
<1>3. t.dev.pending = s.dev.pending /\ t.dev.gpu = s.dev.gpu /\ t.flushed = s.flushed
  BY <1>1 DEF Moves
<1>4. Shown(t)
  BY <1>3 DEF Shown
<1>5. FifoOf(t) = F
  <2>1. CASE IsInput
    <3>1. 0 \in Queues \ {q}
      BY <2>1 DEF Queues
    <3>2. t.ring[0] = s.ring[0] /\ t.chain[0] = s.chain[0]
      BY <1>1, <3>1 DEF Moves
    <3> QED BY <1>3, <3>2 DEF FifoOf, Returned
  <2>2. CASE ~ IsInput
    BY <1>3, <2>2 DEF FifoOf
  <2> QED BY <2>1, <2>2
<1> QED BY <1>2, <1>3, <1>4, <1>5 DEF TurnKeeps, Good

LEMMA NextIsPosted ==
    ASSUME NEW s, Kept(s), NEW q \in Queues, Backlog(s, q) # 0
    PROVE  /\ Posted(s, q) # << >> /\ Head(Posted(s, q)) = NextPosted(s, q)
           /\ NextPosted(s, q) \in Heads /\ q < drv.setup /\ q <= LastQueue
<1>1. Len(Posted(s, q)) # 0 /\ q < drv.setup /\ Posted(s, q) \in Seq(Heads) /\ drv.setup \in 0 .. LastQueue + 1
  <2>1. Typed(s)
    BY DEF Kept
  <2> QED BY Zenon, <2>1, BacklogIs, Sequences, Fields
<1>2. Posted(s, q) # << >>
  BY <1>1, EmptySeq
<1>3. Head(Posted(s, q)) = NextPosted(s, q)
  <2> DEFINE a == s.ring[q].avail
             i == s.dev.queues[q].last_avail
             j == s.ring[q].avail_idx
  <2>1. a \in [Heads -> Heads] /\ i \in Idx /\ j \in Idx
    BY Zenon, Fields DEF Kept
  <2>2. (j - i) % IdxMod # 0
    <3>1. Typed(s)
      BY DEF Kept
    <3>2. Len(Posted(s, q)) = (j - i) % IdxMod
      BY Zenon, <3>1, Sequences
    <3> QED BY <1>1, <3>2
  <2>3. Head(View(a, i, j)) = a[i % QueueNum]
    <3> HIDE DEF a, i, j
    <3> QED BY Zenon, <2>1, <2>2, ViewTail
  <2> QED BY Zenon, <2>3 DEF Posted, NextPosted
<1>4. q <= LastQueue
  BY <1>1 DEF LastQueue, Queues
<1> QED BY Zenon, <1>1, <1>2, <1>3, <1>4, PostedIsAsked

(* The oldest event goes to the next buffer.                                *)
LEMMA EventKeeps ==
    ASSUME NEW s, NEW F, Good(s, F), Backlog(s, 0) # 0, IsInput, s.dev.pending # << >>
    PROVE  TurnKeeps(s, 0, F, ServeEvent(s, NextPosted(s, 0)))
<1> DEFINE head == NextPosted(s, 0)
           pending == s.dev.pending
           e == Head(pending)
           u == [s EXCEPT !.dev.pending = Tail(@)]
           t == Done(u, 0, head, e)
           c == s.chain[0]
           ret == Returned(s, 0)
           S == Answers(0) \cup {None}
<1>1. Kept(s) /\ Typed(s) /\ Shown(s) /\ FifoOf(s) = F /\ 0 \in Queues
  BY DEF Good, Kept, Queues
<1>2. pending \in Seq(Events) /\ c \in [Heads -> Chain(0)] /\ ret \in Seq(Heads)
  BY Zenon, <1>1, Fields, Sequences
<1>3. e \in Events /\ Tail(pending) \in Seq(Events) /\ Len(Tail(pending)) = Len(pending) - 1
  BY <1>2, HeadTailProperties
<1>4. Events = Answers(0)
  BY DEF IsInput, Answers
<1>5. /\ u.dev = [s.dev EXCEPT !.pending = Tail(pending)] /\ u.ring = s.ring /\ u.chain = s.chain
      /\ u.flushed = s.flushed
      /\ u = [dev |-> u.dev, ring |-> u.ring, chain |-> u.chain, flushed |-> u.flushed]
  <2>1. s = [dev |-> s.dev, ring |-> s.ring, chain |-> s.chain, flushed |-> s.flushed]
    BY <1>1 DEF Typed
  <2>2. u = [s EXCEPT !.dev = [s.dev EXCEPT !.pending = Tail(pending)]]
    OBVIOUS
  <2> DEFINE d == [s.dev EXCEPT !.pending = Tail(pending)]
  <2> HIDE DEF d, u, pending
  <2>3. u = [s EXCEPT !.dev = d]
    BY <2>2 DEF d
  <2>4. u = [dev |-> d, ring |-> s.ring, chain |-> s.chain, flushed |-> s.flushed]
    BY <2>1, <2>3
  <2> QED BY <2>4 DEF d
<1>6. /\ u.dev \in Device /\ u.dev.queues = s.dev.queues /\ u.dev.gpu = s.dev.gpu
      /\ u.dev.pending = Tail(pending)
  <2>1. s.dev \in Device
    BY <1>1 DEF Typed
  <2> HIDE DEF pending
  <2> QED BY <1>3, <1>5, <2>1 DEF Device
<1> HIDE DEF u
<1>7. Typed(u)
  BY <1>1, <1>5, <1>6 DEF Typed
<1>8. /\ Kept(u) /\ Backlog(u, 0) # 0 /\ NextPosted(u, 0) = head /\ Returned(u, 0) = ret
      /\ Posted(u, 0) = Posted(s, 0)
  <2>1. \A q \in Queues : /\ Posted(u, q) = Posted(s, q) /\ Returned(u, q) = Returned(s, q)
                          /\ Flight(u, q) = Flight(s, q) /\ Backlog(u, q) = Backlog(s, q)
                          /\ NextPosted(u, q) = NextPosted(s, q)
    BY <1>1, <1>5, <1>6, <1>7, SameQueues
  <2>2. Kept(u)
    BY <1>1, <1>5, <1>6, <1>7, SameQueues
  <2> QED BY Zenon, <1>1, <2>1, <2>2
<1>9. Takes(u, 0, head, e, t)
  BY <1>3, <1>4, <1>8 DEF Takes
<1> HIDE DEF t, e
<1>10. Moves(u, 0, head, e, t) /\ Kept(t) /\ Len(Posted(t, 0)) = Len(Posted(u, 0)) - 1
  BY Zenon, <1>1, <1>9, DoneMoves, DoneKept
<1>11. /\ t.dev.pending = Tail(pending) /\ t.dev.gpu = s.dev.gpu /\ t.flushed = s.flushed
       /\ Returned(t, 0) = Append(ret, head) /\ t.chain[0] = [c EXCEPT ![head].data = e]
  BY <1>5, <1>6, <1>8, <1>10 DEF Moves
<1>12. Shown(t)
  BY <1>1, <1>11 DEF Shown
<1>13. /\ head \in Heads /\ \A k \in 1 .. Len(ret) : ret[k] # head
  BY Zenon, <1>1, NextIsPosted, PostedIsAsked
<1>14. Data(t.chain[0], Returned(t, 0)) = Append(Data(c, ret), e)
  <2>1. e \in Answers(0) \cup {None}
    BY <1>3, <1>4
  <2> HIDE DEF head, c, ret
  <2>2. Data([c EXCEPT ![head].data = e], Append(ret, head)) = Append(Data(c, ret), e)
    BY <1>2, <1>13, <2>1, DataAppend
  <2> QED BY <1>11, <2>2
<1>15. Append(Data(c, ret), e) \o Tail(pending) = Data(c, ret) \o pending
  <2>1. Data(c, ret) \in Seq(S) /\ Seq(Events) \subseteq Seq(S)
    BY <1>2, <1>4, DataType
  <2>2. pending \in Seq(S) /\ pending # << >>
    BY <1>2, <2>1
  <2> HIDE DEF c, ret, pending, S
  <2> QED BY <2>1, <2>2, AppendTail DEF e
<1>16. FifoOf(t) = F
  <2>1. FifoOf(t) = Append(Data(c, ret), e) \o Tail(pending)
    BY Zenon, <1>11, <1>14 DEF FifoOf
  <2>2. FifoOf(s) = Data(c, ret) \o pending
    BY Zenon DEF FifoOf
  <2> QED BY Zenon, <1>1, <1>15, <2>1, <2>2
<1>17. TurnKeeps(s, 0, F, t)
  BY <1>3, <1>8, <1>10, <1>11, <1>12, <1>16 DEF TurnKeeps, Good
<1>18. t = ServeEvent(s, NextPosted(s, 0))
  BY Zenon DEF ServeEvent, t, u, e
<1> QED BY Zenon, <1>17, <1>18

(* A command of the display, and its answer.                                *)
LEMMA CommandKeeps ==
    ASSUME NEW s, NEW F, Good(s, F), Backlog(s, 0) # 0, kind = "gpu"
    PROVE  TurnKeeps(s, 0, F, ServeCommand(s, NextPosted(s, 0)))
<1> DEFINE head == NextPosted(s, 0)
           c == s.chain[0][head].req
           g == handle_cmd(s.dev.gpu, c)
           f == FlushedBy(s.flushed, s.dev.gpu, c)
           u == [s EXCEPT !.dev.gpu = g, !.flushed = f]
           t == Done(u, 0, head, Response(c))
<1>1. Kept(s) /\ Typed(s) /\ Shown(s) /\ FifoOf(s) = F /\ 0 \in Queues /\ ~ IsInput
  BY DEF Good, Kept, Queues, IsInput
<1>2. c \in Commands
  <2>1. c \in Requests(0)
    BY Zenon, <1>1, NextIsPosted, PostedIsAsked
  <2> QED BY <2>1 DEF Requests
<1>3. s.dev.gpu \in Display /\ s.flushed \in Ids \cup {None} /\ mem \in Frame /\ s.dev \in Device
  BY <1>1 DEF Typed, Device, Display
<1>4. g \in Display /\ f \in Ids \cup {None} /\ ShownAs(f, g)
  BY <1>1, <1>2, <1>3, CommandShows DEF Shown
<1>5. Response(c) \in Answers(0)
  BY DEF Response, Answers
<1> HIDE DEF g, f, c
<1>6. /\ u.dev = [s.dev EXCEPT !.gpu = g] /\ u.ring = s.ring /\ u.chain = s.chain
      /\ u.flushed = f
      /\ u = [dev |-> u.dev, ring |-> u.ring, chain |-> u.chain, flushed |-> u.flushed]
  <2>1. s = [dev |-> s.dev, ring |-> s.ring, chain |-> s.chain, flushed |-> s.flushed]
    BY <1>1 DEF Typed
  <2> DEFINE d == [s.dev EXCEPT !.gpu = g]
  <2>2. u = [s EXCEPT !.dev = d, !.flushed = f]
    OBVIOUS
  <2> HIDE DEF d, u
  <2>3. u = [dev |-> d, ring |-> s.ring, chain |-> s.chain, flushed |-> f]
    BY <2>1, <2>2
  <2> QED BY <2>3 DEF d
<1>7. /\ u.dev \in Device /\ u.dev.queues = s.dev.queues /\ u.dev.gpu = g
      /\ u.dev.pending = s.dev.pending
  BY <1>3, <1>4, <1>6 DEF Device, Display
<1> HIDE DEF u
<1>8. Typed(u)
  BY <1>1, <1>4, <1>6, <1>7 DEF Typed
<1>9. /\ Kept(u) /\ Backlog(u, 0) # 0 /\ NextPosted(u, 0) = head /\ Returned(u, 0) = Returned(s, 0)
      /\ Posted(u, 0) = Posted(s, 0)
  <2>1. \A q \in Queues : /\ Posted(u, q) = Posted(s, q) /\ Returned(u, q) = Returned(s, q)
                          /\ Flight(u, q) = Flight(s, q) /\ Backlog(u, q) = Backlog(s, q)
                          /\ NextPosted(u, q) = NextPosted(s, q)
    BY <1>1, <1>6, <1>7, <1>8, SameQueues
  <2>2. Kept(u)
    BY <1>1, <1>6, <1>7, <1>8, SameQueues
  <2> QED BY Zenon, <1>1, <2>1, <2>2
<1>10. Takes(u, 0, head, Response(c), t)
  BY <1>5, <1>9 DEF Takes
<1> HIDE DEF t
<1>11. Shown(u) /\ FifoOf(u) = F
  BY <1>1, <1>4, <1>6, <1>7 DEF Shown, FifoOf
<1>12. TurnKeeps(u, 0, F, t)
  BY Zenon, <1>1, <1>10, <1>11, OtherKeeps
<1>13. TurnKeeps(s, 0, F, t)
  BY <1>7, <1>9, <1>12 DEF TurnKeeps
<1>14. t = ServeCommand(s, NextPosted(s, 0))
  BY Zenon DEF ServeCommand, t, u, g, f, c
<1> QED BY Zenon, <1>13, <1>14

LEMMA ServeNextKeeps ==
    ASSUME NEW s, NEW F, Good(s, F), NEW q \in Queues, Backlog(s, q) # 0,
           IsInput /\ q = 0 => s.dev.pending # << >>
    PROVE  TurnKeeps(s, q, F, ServeNext(s, q))
<1> DEFINE head == NextPosted(s, q)
<1>1. Kept(s) /\ Shown(s) /\ FifoOf(s) = F /\ kind \in {"rng", "keyboard", "mouse", "gpu"}
  BY IoAssumption DEF Good, Kept, Typed
<1>2. CASE q = 1
  <2>1. 1 <= LastQueue
    BY Zenon, <1>1, <1>2, NextIsPosted
  <2>2. "dropped" \in Answers(1)
    BY <1>1, <2>1 DEF LastQueue, Answers
  <2>3. Takes(s, q, head, "dropped", Done(s, q, head, "dropped"))
    BY <1>1, <1>2, <2>2 DEF Takes
  <2>4. ~ (IsInput /\ q = 0)
    BY <1>2
  <2>5. TurnKeeps(s, q, F, Done(s, q, head, "dropped"))
    BY Zenon, <1>1, <2>3, <2>4, OtherKeeps
  <2>6. ServeNext(s, q) = Done(s, q, head, "dropped")
    BY <1>2 DEF ServeNext, ServeDropped
  <2> QED BY Zenon, <2>5, <2>6
<1>3. CASE q = 0 /\ kind = "rng"
  <2>1. "zeros" \in Answers(0) /\ ~ IsInput
    BY <1>3 DEF Answers, IsInput
  <2>2. Takes(s, q, head, "zeros", Done(s, q, head, "zeros"))
    BY <1>1, <1>3, <2>1 DEF Takes
  <2>3. TurnKeeps(s, q, F, Done(s, q, head, "zeros"))
    BY Zenon, <1>1, <2>1, <2>2, OtherKeeps
  <2>4. ServeNext(s, q) = Done(s, q, head, "zeros")
    BY <1>3 DEF ServeNext, ServePlain, IsInput
  <2> QED BY Zenon, <2>3, <2>4
<1>4. CASE q = 0 /\ IsInput
  <2>1. ServeNext(s, q) = ServeEvent(s, NextPosted(s, 0))
    BY <1>4 DEF ServeNext, IsInput
  <2> QED BY Zenon, <1>4, <2>1, EventKeeps
<1>5. CASE q = 0 /\ kind = "gpu"
  <2>1. ServeNext(s, q) = ServeCommand(s, NextPosted(s, 0))
    BY <1>5 DEF ServeNext, IsInput
  <2> QED BY Zenon, <1>5, <2>1, CommandKeeps
<1> QED BY <1>1, <1>2, <1>3, <1>4, <1>5 DEF Queues, IsInput

LEMMA MinIs ==
    ASSUME NEW S, S \subseteq Nat, S # {}
    PROVE  Min(S) \in S /\ \A m \in S : Min(S) <= m
BY LeastNatural DEF Min

LEMMA TurnsAre ==
    ASSUME NEW s, Kept(s), NEW q \in Queues
    PROVE  /\ Turns(s, q) \in Nat /\ Turns(s, q) <= Len(Posted(s, q))
           /\ IsInput /\ q = 0 => Turns(s, q) <= Len(s.dev.pending)
<1>1. Backlog(s, q) = Len(Posted(s, q)) /\ Backlog(s, q) \in Nat
  BY Zenon, BacklogIs
<1>2. s.dev.pending \in Seq(Events)
  BY Zenon, Fields DEF Kept
<1>3. Len(s.dev.pending) \in Nat
  BY <1>2, LenProperties
<1> DEFINE m == Len(s.dev.pending)
           n == Len(Posted(s, q))
           least == Min({m, n})
<1>4. least \in {m, n} /\ least <= m /\ least <= n
  <2>1. {m, n} \subseteq Nat /\ {m, n} # {}
    BY <1>1, <1>3
  <2> HIDE DEF m, n
  <2> QED BY <2>1, MinIs
<1>5. Turns(s, q) = IF IsInput /\ q = 0 THEN least ELSE n
  BY <1>1 DEF Turns
<1> HIDE DEF least
<1> QED BY <1>1, <1>3, <1>4, <1>5

(* A recursion over 0 .. n that has no choice has its function.             *)
LEMMA RunOf ==
    ASSUME NEW s, NEW q, Turns(s, q) \in Nat
    PROVE  \E run : /\ ServeQueue(s, q) = run[Turns(s, q)] /\ run[0] = s
                    /\ \A k \in 1 .. Turns(s, q) : run[k] = ServeNext(run[k - 1], q)
<1> DEFINE n == Turns(s, q)
           Turn(f, k) == IF k = 0 THEN s ELSE ServeNext(f[k - 1], q)
           IsRun(f, m) == f = [k \in 0 .. m |-> Turn(f, k)]
           S == {m \in 0 .. n : \E f : IsRun(f, m)}
<1>1. n \in Nat
  OBVIOUS
<1> HIDE DEF n
<1>2. 0 \in S
  <2> DEFINE f == [k \in 0 .. 0 |-> s]
  <2>1. \A k \in 0 .. 0 : Turn(f, k) = s
    OBVIOUS
  <2>2. IsRun(f, 0)
    BY <2>1
  <2> HIDE DEF IsRun
  <2> QED BY <1>1, <2>2
<1>3. ASSUME NEW m \in 0 .. n - 1, m \in S PROVE m + 1 \in S
  <2>1. PICK f : IsRun(f, m)
    BY <1>3
  <2> DEFINE g == [k \in 0 .. m + 1 |-> IF k = m + 1 THEN ServeNext(f[m], q) ELSE f[k]]
  <2>2. m \in Nat /\ m + 1 \in 0 .. n
    BY <1>1
  <2>3. ASSUME NEW k \in 0 .. m + 1 PROVE g[k] = Turn(g, k)
    <3>1. CASE k = m + 1
      <4>1. k # 0 /\ k - 1 = m /\ m \in 0 .. m + 1 /\ m # m + 1
        BY <2>2, <3>1
      <4>2. g[k - 1] = f[m]
        BY <4>1
      <4>3. g[k] = ServeNext(f[m], q)
        BY <3>1
      <4> QED BY <3>1, <4>1, <4>2, <4>3
    <3>2. CASE k # m + 1
      <4>1. k \in 0 .. m /\ (k # 0 => k - 1 \in 0 .. m + 1 /\ k - 1 # m + 1)
        BY <2>2, <3>2
      <4>2. g[k] = f[k] /\ (k # 0 => g[k - 1] = f[k - 1])
        BY <2>2, <3>2, <4>1
      <4>3. f[k] = Turn(f, k)
        BY <2>1, <4>1
      <4> HIDE DEF g
      <4> QED BY <4>1, <4>2, <4>3
    <3> QED BY <3>1, <3>2
  <2>4. g = [k \in 0 .. m + 1 |-> g[k]]
    OBVIOUS
  <2> HIDE DEF g
  <2>5. IsRun(g, m + 1)
    <3> HIDE DEF Turn
    <3> QED BY <2>3, <2>4
  <2> HIDE DEF IsRun
  <2> QED BY <2>2, <2>5
<1>4. n \in S
  <2>1. 0 .. n \subseteq S
    <3> HIDE DEF S
    <3> QED BY <1>1, <1>2, <1>3, UpTo
  <2>2. n \in 0 .. n
    BY <1>1
  <2> HIDE DEF S
  <2> QED BY <2>1, <2>2
<1>5. PICK f : IsRun(f, n)
  BY <1>4
<1> DEFINE run == CHOOSE h : h = [k \in 0 .. n |-> Turn(h, k)]
<1>6. run = [k \in 0 .. n |-> Turn(run, k)]
  <2> HIDE DEF Turn
  <2> QED BY Zenon, <1>5
<1>7. ServeQueue(s, q) = run[n]
  BY Zenon DEF ServeQueue, n
<1> HIDE DEF run
<1>8. \A k \in 0 .. n : run[k] = Turn(run, k)
  <2> HIDE DEF Turn
  <2> QED BY Zenon, <1>6
<1>9. run[0] = s /\ \A k \in 1 .. n : run[k] = ServeNext(run[k - 1], q)
  BY <1>1, <1>8
<1> QED BY Zenon, <1>7, <1>9 DEF n

(* A loop of `process` keeps what each turn does.                           *)
LEMMA QueueKeeps ==
    ASSUME NEW s, NEW F, Good(s, F), NEW q \in Queues
    PROVE  Good(ServeQueue(s, q), F)
<1> DEFINE n == Turns(s, q)
           posted == Len(Posted(s, q))
           waiting == Len(s.dev.pending)
<1>1. /\ n \in Nat /\ n <= posted /\ (IsInput /\ q = 0 => n <= waiting)
      /\ posted \in Nat /\ waiting \in Nat
  <2>1. Kept(s) /\ Typed(s)
    BY DEF Good, Kept
  <2>2. posted \in Nat /\ s.dev.pending \in Seq(Events)
    BY Zenon, <2>1, Sequences, Fields
  <2>3. waiting \in Nat
    BY <2>2, LenProperties
  <2>4. n \in Nat /\ n <= posted /\ (IsInput /\ q = 0 => n <= waiting)
    BY Zenon, <2>1, TurnsAre
  <2> QED BY Zenon, <2>2, <2>3, <2>4
<1>2. PICK run : /\ ServeQueue(s, q) = run[n] /\ run[0] = s
                 /\ \A k \in 1 .. n : run[k] = ServeNext(run[k - 1], q)
  <2>1. Turns(s, q) \in Nat
    BY <1>1
  <2> QED BY <2>1, RunOf
<1> HIDE DEF n, posted, waiting
<1> DEFINE At(k) == /\ Good(run[k], F) /\ Len(Posted(run[k], q)) = posted - k
                    /\ IsInput /\ q = 0 => Len(run[k].dev.pending) = waiting - k
           S == {k \in 0 .. n : At(k)}
<1>3. 0 \in S
  <2>1. 0 \in 0 .. n /\ posted - 0 = posted /\ waiting - 0 = waiting
    BY <1>1
  <2>2. At(0)
    BY <1>2, <2>1 DEF posted, waiting
  <2> QED BY <2>1, <2>2
<1>4. ASSUME NEW k \in 0 .. n - 1, k \in S PROVE k + 1 \in S
  <2>1. /\ k + 1 \in 1 .. n /\ k + 1 \in 0 .. n /\ (k + 1) - 1 = k
        /\ (posted - k) - 1 = posted - (k + 1) /\ (waiting - k) - 1 = waiting - (k + 1)
        /\ posted - k # 0 /\ (IsInput /\ q = 0 => waiting - k # 0)
    BY <1>1
  <2>2. /\ Good(run[k], F) /\ Len(Posted(run[k], q)) = posted - k
        /\ IsInput /\ q = 0 => Len(run[k].dev.pending) = waiting - k
    BY <1>4
  <2>3. run[k + 1] = ServeNext(run[k], q)
    BY <1>2, <2>1
  <2>4. Backlog(run[k], q) # 0
    <3>1. Kept(run[k])
      BY <2>2 DEF Good
    <3>2. Backlog(run[k], q) = Len(Posted(run[k], q))
      BY Zenon, <3>1, BacklogIs
    <3> QED BY <2>1, <2>2, <3>2
  <2>5. IsInput /\ q = 0 => run[k].dev.pending # << >>
    <3> DEFINE v == run[k].dev.pending
    <3>1. IsInput /\ q = 0 => Len(v) # 0
      BY <2>1, <2>2
    <3> HIDE DEF v
    <3>2. v = << >> => Len(v) = 0
      OBVIOUS
    <3> QED BY <3>1, <3>2 DEF v
  <2>6. TurnKeeps(run[k], q, F, run[k + 1])
    BY Zenon, <2>2, <2>3, <2>4, <2>5, ServeNextKeeps
  <2>7. At(k + 1)
    BY <2>1, <2>2, <2>6 DEF TurnKeeps
  <2> HIDE DEF At
  <2> QED BY <2>1, <2>7
<1>5. n \in S
  <2>1. 0 .. n \subseteq S
    <3> HIDE DEF S
    <3> QED BY <1>1, <1>3, <1>4, UpTo
  <2>2. n \in 0 .. n
    BY <1>1
  <2> HIDE DEF S
  <2> QED BY <2>1, <2>2
<1> QED BY <1>2, <1>5

-----------------------------------------------------------------------------
(* The invariant *)

Now == [dev |-> dev, ring |-> ring, chain |-> chain, flushed |-> flushed]

IoInv == Kept(Now) /\ Shown(Now) /\ GicInv(gic) /\ window \in Frame \cup {None}

FifoStep == Input!Next \/ Fifo' = Fifo

LEMMA KindFixed ==
    ASSUME kind' = kind
    PROVE  /\ IsInput' = IsInput /\ LastQueue' = LastQueue /\ Driver' = Driver
           /\ \A q \in Queues : Requests(q)' = Requests(q) /\ Answers(q)' = Answers(q)
           /\ \A q \in Queues : Chain(q)' = Chain(q)
<1>1. IsInput' = IsInput /\ LastQueue' = LastQueue
  BY DEF IsInput, LastQueue
<1>2. Driver' = Driver
  BY <1>1 DEF Driver
<1>3. \A q \in Queues : Requests(q)' = Requests(q) /\ Answers(q)' = Answers(q)
  BY DEF Requests, Answers
<1>4. \A q \in Queues : Chain(q)' = Chain(q)
  BY <1>3 DEF Chain
<1> QED BY <1>1, <1>2, <1>3, <1>4

LEMMA TypedNow ==
    ASSUME Kept(Now)
    PROVE  /\ kind \in Kinds /\ drv \in Driver /\ mem \in Frame
           /\ dev \in Device /\ ring \in [Queues -> Ring] /\ flushed \in Ids \cup {None}
           /\ chain = [q \in Queues |-> chain[q]]
           /\ \A q \in Queues : chain[q] \in [Heads -> Chain(q)]
BY DEF Kept, Typed, Now

LEMMA TypedNext ==
    ASSUME kind' = kind, kind \in Kinds, drv' \in Driver, mem' \in Frame,
           dev' \in Device, ring' \in [Queues -> Ring], flushed' \in Ids \cup {None},
           chain' = [q \in Queues |-> chain'[q]],
           \A q \in Queues : chain'[q] \in [Heads -> Chain(q)]
    PROVE  Typed(Now)'
<1>1. /\ Driver' = Driver
      /\ \A q \in Queues : Chain(q)' = Chain(q)
  BY Zenon, KindFixed
<1>2. \A q \in Queues : chain'[q] \in [Heads -> Chain(q)']
  BY <1>1
<1> QED BY <1>1, <1>2 DEF Typed, Now

LEMMA ViewsNow ==
    ASSUME NEW q \in Queues
    PROVE  /\ Posted(Now, q) = View(ring[q].avail, dev.queues[q].last_avail, ring[q].avail_idx)
           /\ Returned(Now, q) = View(ring[q].used, drv.last_used[q], ring[q].used_idx)
           /\ Posted(Now, q)' = View(ring'[q].avail, dev'.queues[q].last_avail, ring'[q].avail_idx)
           /\ Returned(Now, q)' = View(ring'[q].used, drv'.last_used[q], ring'[q].used_idx)
           /\ Flight(Now, q) = Returned(Now, q) \o Posted(Now, q)
           /\ Flight(Now, q)' = Returned(Now, q)' \o Posted(Now, q)'
BY DEF Posted, Returned, Flight, Now

(* The heads in flight, the free ones and what was asked: the rest of what  *)
(* is kept, in the next state.                                              *)
LEMMA KeptNext ==
    ASSUME kind' = kind, Typed(Now)',
           \A q \in Queues : Apart(drv'.free[q], Flight(Now, q)'),
           \A q \in Queues, h \in Heads : h \notin drv'.free[q] => chain'[q][h].req \in Requests(q),
           \A q \in Queues :
              IF q < drv'.setup THEN dev'.queues[q].ready /\ dev'.queues[q].num = QueueNum
              ELSE /\ dev'.queues[q] = VirtqDefault /\ ring'[q] = EmptyRing
                   /\ drv'.last_used[q] = 0 /\ drv'.free[q] = Heads
    PROVE  Kept(Now)'
<1>1. Asked(Now)'
  <2>1. \A q \in Queues : Requests(q)' = Requests(q)
    BY Zenon, KindFixed
  <2> QED BY <2>1 DEF Asked, Now
<1>2. Probed(Now)'
  BY DEF Probed, Now
<1>3. OneOwner(Now)'
  BY DEF OneOwner
<1> QED BY <1>1, <1>2, <1>3 DEF Kept

LEMMA KeptParts ==
    ASSUME Kept(Now)
    PROVE  /\ \A q \in Queues : Apart(drv.free[q], Flight(Now, q))
           /\ \A q \in Queues, h \in Heads : h \notin drv.free[q] => chain[q][h].req \in Requests(q)
           /\ \A q \in Queues :
              IF q < drv.setup THEN dev.queues[q].ready /\ dev.queues[q].num = QueueNum
              ELSE /\ dev.queues[q] = VirtqDefault /\ ring[q] = EmptyRing
                   /\ drv.last_used[q] = 0 /\ drv.free[q] = Heads
BY DEF Kept, Asked, Probed, OneOwner, Now

(* The FIFO of the refinement is what was returned and then what waits.     *)
LEMMA FifoNow == Kept(Now) => FifoOf(Now) = Fifo
<1> SUFFICES ASSUME Kept(Now) PROVE FifoOf(Now) = Fifo
  OBVIOUS
<1>1. Typed(Now) /\ 0 \in Queues
  BY DEF Kept, Queues
<1> DEFINE r == Returned(Now, 0)
           d == Uncollected(0)
           x == [k \in 1 .. IF IsInput THEN Uncollected(0) ELSE 0 |-> chain[0][UsedHead(0, k)].data]
<1>2. /\ Len(r) = d /\ \A k \in 1 .. Len(r) : r[k] = UsedHead(0, k)
  <2>1. Len(r) = (Now.ring[0].used_idx - drv.last_used[0]) % IdxMod
    BY Zenon, <1>1, Sequences
  <2>2. \A k \in 1 .. Len(r) : r[k] = Now.ring[0].used[(drv.last_used[0] + k - 1) % QueueNum]
    BY <1>1, Sequences
  <2>3. Now.ring = ring
    BY DEF Now
  <2> HIDE DEF r
  <2> QED BY Zenon, <2>1, <2>2, <2>3 DEF Uncollected, UsedHead
<1>3. FifoOf(Now) = (IF IsInput THEN Data(chain[0], r) ELSE << >>) \o dev.pending
  BY DEF FifoOf, Now
<1>4. Fifo = x \o dev.pending
  BY DEF Fifo
<1> HIDE DEF d, r
<1>5. CASE IsInput
  <2>1. Data(chain[0], r) = [k \in 1 .. d |-> chain[0][r[k]].data]
    BY <1>2 DEF Data
  <2>2. x = [k \in 1 .. d |-> chain[0][UsedHead(0, k)].data]
    BY <1>5 DEF d
  <2>3. Data(chain[0], r) = x
    <3> HIDE DEF x
    <3> QED BY <1>2, <2>1, <2>2
  <2> HIDE DEF x
  <2> QED BY Zenon, <1>3, <1>4, <1>5, <2>3
<1>6. CASE ~ IsInput
  <2>1. x = << >>
    BY <1>6
  <2> HIDE DEF x
  <2> QED BY <1>3, <1>4, <1>6, <2>1
<1> QED BY Zenon, <1>5, <1>6

(* What leaves the rings, the chains and the driver's books alone.          *)
LEMMA SameRings ==
    ASSUME Kept(Now), kind' = kind, ring' = ring, chain' = chain, dev'.queues = dev.queues,
           drv'.free = drv.free, drv'.last_used = drv.last_used, drv'.setup = drv.setup,
           drv' \in Driver, dev' \in Device, mem' \in Frame, flushed' \in Ids \cup {None}
    PROVE  /\ Kept(Now)'
           /\ dev'.pending = dev.pending => FifoOf(Now)' = FifoOf(Now)
           /\ ~ IsInput => FifoOf(Now)' = << >> \o dev'.pending
           /\ IsInput => FifoOf(Now)' = Data(chain[0], Returned(Now, 0)) \o dev'.pending
<1>1. Typed(Now)'
  BY Zenon, TypedNow, TypedNext
<1>2. \A q \in Queues : /\ Posted(Now, q)' = Posted(Now, q) /\ Returned(Now, q)' = Returned(Now, q)
                        /\ Flight(Now, q)' = Flight(Now, q)
  BY Zenon, ViewsNow
<1>3. Kept(Now)'
  BY Zenon, <1>1, <1>2, KeptParts, KeptNext
<1>4. FifoOf(Now)' = (IF IsInput' THEN Data(chain'[0], Returned(Now, 0)') ELSE << >>) \o dev'.pending
  BY DEF FifoOf, Now
<1>5. FifoOf(Now) = (IF IsInput THEN Data(chain[0], Returned(Now, 0)) ELSE << >>) \o dev.pending
  BY DEF FifoOf, Now
<1>6. IsInput' = IsInput /\ 0 \in Queues
  BY KindFixed DEF Queues
<1>7. FifoOf(Now)' = (IF IsInput THEN Data(chain[0], Returned(Now, 0)) ELSE << >>) \o dev'.pending
  BY Zenon, <1>2, <1>4, <1>6
<1>8. dev'.pending = dev.pending => FifoOf(Now)' = FifoOf(Now)
  <2> DEFINE front == IF IsInput THEN Data(chain[0], Returned(Now, 0)) ELSE << >>
  <2> HIDE DEF front
  <2>1. FifoOf(Now)' = front \o dev'.pending /\ FifoOf(Now) = front \o dev.pending
    BY <1>5, <1>7 DEF front
  <2> QED BY <2>1
<1>9. /\ ~ IsInput => FifoOf(Now)' = << >> \o dev'.pending
      /\ IsInput => FifoOf(Now)' = Data(chain[0], Returned(Now, 0)) \o dev'.pending
  BY <1>7
<1> QED BY Zenon, <1>3, <1>8, <1>9

LEMMA Stutters ==
    ASSUME Kept(Now), Kept(Now)', FifoOf(Now)' = FifoOf(Now)
    PROVE  FifoStep
<1>1. FifoOf(Now) = Fifo
  BY Zenon, FifoNow
<1>2. (FifoOf(Now) = Fifo)'
  <2>1. (Kept(Now) => FifoOf(Now) = Fifo)'
    BY FifoNow, PTL
  <2> QED BY Zenon, <2>1
<1> QED BY <1>1, <1>2 DEF FifoStep

(* A poll serves what is posted, and moves no event: those that leave the   *)
(* device are on the used ring, in their order.                             *)
LEMMA PollKeeps == ASSUME IoInv, Poll PROVE IoInv' /\ FifoStep
<1> DEFINE F == FifoOf(Now)
<1>1. Kept(Now) /\ Shown(Now) /\ GicInv(gic) /\ window \in Frame \cup {None}
  BY DEF IoInv
<1>2. /\ kind \in Kinds /\ drv \in Driver /\ mem \in Frame
      /\ dev \in Device /\ ring \in [Queues -> Ring] /\ flushed \in Ids \cup {None}
      /\ chain = [q \in Queues |-> chain[q]]
      /\ \A q \in Queues : chain[q] \in [Heads -> Chain(q)]
  BY Zenon, <1>1, TypedNow
<1>3. Good(Fresh, F)
  <2>1. /\ Fresh.dev \in Device /\ Fresh.dev.queues = dev.queues /\ Fresh.dev.gpu = dev.gpu
        /\ Fresh.dev.pending = dev.pending /\ Fresh.ring = ring /\ Fresh.chain = chain
        /\ Fresh.flushed = flushed
        /\ Fresh = [dev |-> Fresh.dev, ring |-> Fresh.ring, chain |-> Fresh.chain,
                    flushed |-> Fresh.flushed]
    BY <1>2 DEF Fresh, Device
  <2>2. Typed(Fresh)
    BY <1>2, <2>1 DEF Typed
  <2>3. Now.ring = ring /\ Now.dev = dev /\ Now.chain = chain /\ Now.flushed = flushed
    BY DEF Now
  <2>4. /\ Kept(Fresh)
        /\ \A q \in Queues : /\ Posted(Fresh, q) = Posted(Now, q)
                             /\ Returned(Fresh, q) = Returned(Now, q)
                             /\ Flight(Fresh, q) = Flight(Now, q)
                             /\ Backlog(Fresh, q) = Backlog(Now, q)
                             /\ NextPosted(Fresh, q) = NextPosted(Now, q)
    BY <1>1, <2>1, <2>2, <2>3, SameQueues
  <2>5. Shown(Fresh)
    BY <1>1, <2>1, <2>3 DEF Shown
  <2>6. FifoOf(Fresh) = F
    <3>1. Returned(Fresh, 0) = Returned(Now, 0)
      BY <2>4 DEF Queues
    <3> QED BY <2>1, <2>3, <3>1 DEF FifoOf
  <2> QED BY <2>4, <2>5, <2>6 DEF Good
<1>4. FirstQueue \in Queues /\ 1 - FirstQueue \in Queues
  BY DEF FirstQueue, Queues
<1>5. PICK s : /\ s = ServeQueue(ServeQueue(Fresh, FirstQueue), 1 - FirstQueue)
               /\ dev' = [s.dev EXCEPT !.int_status = @ \/ Raised(s)]
               /\ ring' = s.ring /\ chain' = s.chain /\ flushed' = s.flushed
               /\ gic' = IF Raised(s) THEN SetPending(gic, Irq) ELSE gic
  BY Zenon DEF Poll
<1>6. UNCHANGED <<kind, drv, mem, window>>
  BY DEF Poll
<1>7. Good(s, F)
  <2>1. Good(ServeQueue(Fresh, FirstQueue), F)
    <3> HIDE DEF F
    <3> QED BY Zenon, <1>3, <1>4, QueueKeeps
  <2> HIDE DEF F
  <2> QED BY Zenon, <1>4, <1>5, <2>1, QueueKeeps
<1> HIDE DEF F
<1>8. Kept(s) /\ Shown(s) /\ FifoOf(s) = F /\ Typed(s) /\ Raised(s) \in BOOLEAN
  BY <1>7 DEF Good, Kept, Raised
<1>9. /\ dev' \in Device /\ dev'.queues = s.dev.queues /\ dev'.gpu = s.dev.gpu
      /\ dev'.pending = s.dev.pending
  <2>1. s.dev \in Device
    BY <1>8 DEF Typed
  <2>2. s.dev.int_status \/ Raised(s) \in BOOLEAN
    BY <1>8, <2>1 DEF Device
  <2> QED BY <1>5, <1>8, <2>1, <2>2 DEF Device
<1>10. Typed(Now)'
  <2>1. /\ ring' \in [Queues -> Ring] /\ flushed' \in Ids \cup {None}
        /\ chain' = [q \in Queues |-> chain'[q]] /\ \A q \in Queues : chain'[q] \in [Heads -> Chain(q)]
    BY <1>5, <1>8 DEF Typed
  <2> QED BY Zenon, <1>2, <1>6, <1>9, <2>1, TypedNext
<1>11. \A q \in Queues : Returned(Now, q)' = Returned(s, q) /\ Flight(Now, q)' = Flight(s, q)
  BY <1>5, <1>6, <1>9 DEF Returned, Posted, Flight, Now
<1>12. Kept(Now)'
  <2>1. /\ \A q \in Queues : Apart(drv'.free[q], Flight(Now, q)')
        /\ \A q \in Queues, h \in Heads : h \notin drv'.free[q] => chain'[q][h].req \in Requests(q)
        /\ \A q \in Queues :
              IF q < drv'.setup THEN dev'.queues[q].ready /\ dev'.queues[q].num = QueueNum
              ELSE /\ dev'.queues[q] = VirtqDefault /\ ring'[q] = EmptyRing
                   /\ drv'.last_used[q] = 0 /\ drv'.free[q] = Heads
    <3>1. \A q \in Queues : Apart(drv'.free[q], Flight(Now, q)')
      BY <1>6, <1>8, <1>11 DEF Kept, OneOwner
    <3>2. \A q \in Queues, h \in Heads : h \notin drv'.free[q] => chain'[q][h].req \in Requests(q)
      BY <1>5, <1>6, <1>8 DEF Kept, Asked
    <3>3. \A q \in Queues :
              IF q < drv'.setup THEN dev'.queues[q].ready /\ dev'.queues[q].num = QueueNum
              ELSE /\ dev'.queues[q] = VirtqDefault /\ ring'[q] = EmptyRing
                   /\ drv'.last_used[q] = 0 /\ drv'.free[q] = Heads
      BY <1>5, <1>6, <1>8, <1>9 DEF Kept, Probed
    <3> QED BY Zenon, <3>1, <3>2, <3>3
  <2> QED BY Zenon, <1>6, <1>10, <2>1, KeptNext
<1>13. Shown(Now)'
  BY <1>5, <1>6, <1>8, <1>9 DEF Shown, ShownAs, Now
<1>14. GicInv(gic')
  BY <1>1, <1>5, LineInv, IoAssumption
<1>15. FifoOf(Now)' = F
  <2>1. /\ FifoOf(Now)' = (IF IsInput' THEN Data(chain'[0], Returned(Now, 0)') ELSE << >>)
                             \o dev'.pending
        /\ FifoOf(s) = (IF IsInput THEN Data(s.chain[0], Returned(s, 0)) ELSE << >>)
                             \o s.dev.pending
    BY DEF FifoOf, Now
  <2>2. IsInput' = IsInput /\ 0 \in Queues /\ chain' = s.chain
    BY <1>5, <1>6, KindFixed DEF Queues
  <2> QED BY Zenon, <1>8, <1>9, <1>11, <2>1, <2>2
<1>16. FifoStep
  BY Zenon, <1>1, <1>12, <1>15, Stutters DEF F
<1> QED BY <1>1, <1>6, <1>12, <1>13, <1>14, <1>16 DEF IoInv

-----------------------------------------------------------------------------
(* What leaves the queues alone *)

LEMMA QuietKeeps ==
    ASSUME IoInv, Notify \/ TakeIrq \/ ReadStatus \/ WriteAck \/ WriteEoi \/ Draw
    PROVE  IoInv' /\ FifoStep
<1>1. Kept(Now) /\ Shown(Now) /\ GicInv(gic) /\ window \in Frame \cup {None} /\ Irq \in Irqs
  BY IoAssumption DEF IoInv
<1>2. kind \in Kinds /\ drv \in Driver /\ mem \in Frame /\ dev \in Device /\ flushed \in Ids \cup {None}
  BY Zenon, <1>1, TypedNow
<1>3. kind' = kind /\ ring' = ring /\ chain' = chain /\ flushed' = flushed /\ window' = window
  BY DEF Notify, TakeIrq, ReadStatus, WriteAck, WriteEoi, Draw
<1>4. /\ dev' \in Device /\ dev'.queues = dev.queues /\ dev'.pending = dev.pending
      /\ dev'.gpu = dev.gpu
  <2>1. CASE dev' = dev
    BY <1>2, <2>1
  <2>2. CASE Notify
    BY <1>2, <2>2 DEF Notify, Device
  <2>3. CASE WriteAck
    <3>1. dev' = [dev EXCEPT !.int_status = @ /\ ~ drv.seen] /\ dev.int_status \in BOOLEAN
      BY <1>2, <2>3 DEF WriteAck, Device
    <3>2. (dev.int_status /\ ~ drv.seen) \in BOOLEAN
      OBVIOUS
    <3> QED BY <1>2, <3>1, <3>2 DEF Device
  <2> QED BY <2>1, <2>2, <2>3 DEF TakeIrq, ReadStatus, WriteEoi, Draw
<1>5. /\ drv' \in Driver /\ drv'.free = drv.free /\ drv'.last_used = drv.last_used
      /\ drv'.setup = drv.setup
  <2>1. CASE drv' = drv
    BY <1>2, <2>1
  <2>2. ASSUME NEW to \in {"none", "status", "ack", "collect", "eoi"},
               drv' = [drv EXCEPT !.handler = to]
        PROVE  /\ drv' \in Driver /\ drv'.free = drv.free /\ drv'.last_used = drv.last_used
               /\ drv'.setup = drv.setup
    BY <1>2, <2>2 DEF Driver
  <2>3. CASE Notify
    BY <1>2, <2>3 DEF Notify, Driver
  <2>4. CASE ReadStatus
    <3>1. dev.int_status \in BOOLEAN
      BY <1>2 DEF Device
    <3> QED BY <1>2, <2>4, <3>1 DEF ReadStatus, Driver
  <2>5. CASE TakeIrq
    BY <2>2, <2>5 DEF TakeIrq, Step
  <2>6. CASE WriteAck
    BY <2>2, <2>6 DEF WriteAck, Step
  <2>7. CASE WriteEoi
    BY <2>2, <2>7 DEF WriteEoi, Step
  <2>8. CASE Draw
    BY <2>1, <2>8 DEF Draw
  <2> QED BY <2>3, <2>4, <2>5, <2>6, <2>7, <2>8
<1>6. mem' \in Frame
  <2>1. CASE Draw
    <3>1. PICK p \in Pages : mem[p] < MaxDraw /\ mem' = [mem EXCEPT ![p] = @ + 1]
      BY <2>1 DEF Draw
    <3>2. mem[p] + 1 \in Drawings
      BY <1>2, <3>1, IoAssumption DEF Frame, Drawings
    <3> QED BY <1>2, <3>1, <3>2 DEF Frame
  <2>2. CASE mem' = mem
    BY <1>2, <2>2
  <2> QED BY <2>1, <2>2 DEF Notify, TakeIrq, ReadStatus, WriteAck, WriteEoi
<1>7. GicInv(gic')
  BY <1>1, LineInv, AcknowledgeInv, EndOfInterruptInv
     DEF Notify, TakeIrq, ReadStatus, WriteAck, WriteEoi, Draw
<1>8. flushed' \in Ids \cup {None}
  BY <1>2, <1>3
<1>9. Kept(Now)' /\ (dev'.pending = dev.pending => FifoOf(Now)' = FifoOf(Now))
  BY Zenon, <1>1, <1>3, <1>4, <1>5, <1>6, <1>8, SameRings
<1>10. Shown(Now)'
  BY <1>1, <1>3, <1>4 DEF Shown, ShownAs, Now
<1>11. FifoStep
  BY Zenon, <1>1, <1>4, <1>9, Stutters
<1> QED BY <1>1, <1>3, <1>7, <1>9, <1>10, <1>11 DEF IoInv

LEMMA HostFrameKeeps == ASSUME IoInv, HostFrame PROVE IoInv' /\ FifoStep
<1>1. Kept(Now) /\ Shown(Now) /\ GicInv(gic) /\ window \in Frame \cup {None}
  BY DEF IoInv
<1>2. kind \in Kinds /\ drv \in Driver /\ mem \in Frame /\ dev \in Device /\ flushed \in Ids \cup {None}
  BY Zenon, <1>1, TypedNow
<1>3. /\ kind' = kind /\ ring' = ring /\ chain' = chain /\ flushed' = flushed /\ gic' = gic
      /\ drv' = drv /\ mem' = mem
      /\ dev' = [dev EXCEPT !.gpu.dirty = FALSE]
      /\ window' = IF Showable(dev.gpu) THEN dev.gpu.resources[dev.gpu.scanout_res].pixels
                   ELSE window
  BY DEF HostFrame
<1>4. /\ dev' \in Device /\ dev'.queues = dev.queues /\ dev'.pending = dev.pending
      /\ dev'.gpu.resources = dev.gpu.resources /\ dev'.gpu.scanout_res = dev.gpu.scanout_res
      /\ dev'.gpu.dirty = FALSE
  BY <1>2, <1>3 DEF Device
<1>5. dev.gpu \in Display
  BY <1>2 DEF Device, Display
<1>6. Kept(Now)' /\ (dev'.pending = dev.pending => FifoOf(Now)' = FifoOf(Now))
  BY Zenon, <1>1, <1>2, <1>3, <1>4, SameRings
<1>7. FifoStep
  BY Zenon, <1>1, <1>4, <1>6, Stutters
<1>8. window' \in Frame \cup {None}
  <2>1. CASE Showable(dev.gpu)
    <3>1. dev.gpu.resources[dev.gpu.scanout_res] \in Resource
      BY <1>5, <2>1, DisplayFields DEF Showable
    <3> QED BY <1>3, <2>1, <3>1 DEF Resource
  <2> QED BY <1>1, <1>3, <2>1
<1>9. Shown(Now)'
  BY <1>1, <1>3, <1>4 DEF Shown, ShownAs, Now, Showable
<1> QED BY <1>1, <1>3, <1>6, <1>7, <1>8, <1>9 DEF IoInv

LEMMA ReportType ==
    ASSUME NEW r \in ReportsOf(kind)
    PROVE  r \in Seq(Events) /\ IsInput
<1>1. EV_SYN \in Events
  BY DEF Events
<1>2. ASSUME NEW c \in Keys, NEW d \in BOOLEAN PROVE key(c, d) \in Seq(Events)
  <2>1. <<"key up", c>> \in Events /\ <<"key down", c>> \in Events
    BY DEF Events
  <2> DEFINE e == <<IF d THEN "key down" ELSE "key up", c>>
  <2>2. e \in Events
    BY <2>1
  <2>3. key(c, d) = <<e, EV_SYN>>
    BY DEF key
  <2> HIDE DEF e
  <2> QED BY <1>1, <2>2, <2>3
<1>3. ASSUME NEW m \in Motions PROVE motion(m) \in Seq(Events)
  <2>1. m[1] \in Int /\ m[2] \in Int /\ m[3] \in Int
    BY IoAssumption
  <2>2. ASSUME NEW axis \in {"x", "y", "wheel"}, NEW by \in {m[1], m[2], m[3]}
        PROVE  Moved(axis, by) \in Seq(Events)
    <3>1. <<axis, by>> \in Events
      BY DEF Events
    <3> QED BY <3>1 DEF Moved
  <2>3. Moved("x", m[1]) \in Seq(Events) /\ Moved("y", m[2]) \in Seq(Events) /\ Moved("wheel", m[3]) \in Seq(Events)
    BY <2>2
  <2>4. <<EV_SYN>> \in Seq(Events)
    BY <1>1
  <2> QED BY <2>3, <2>4, ConcatProperties DEF motion
<1>4. CASE kind = "keyboard"
  BY <1>2, <1>4 DEF ReportsOf, IsInput
<1>5. CASE kind = "mouse"
  BY <1>2, <1>3, <1>5 DEF ReportsOf, IsInput
<1>6. CASE kind \notin {"keyboard", "mouse"}
  BY <1>6 DEF ReportsOf
<1> QED BY <1>4, <1>5, <1>6

(* A report goes behind all that is on its way.                             *)
LEMMA HostInputKeeps == ASSUME IoInv, HostInput PROVE IoInv' /\ FifoStep
<1>1. Kept(Now) /\ Typed(Now) /\ Shown(Now) /\ GicInv(gic) /\ window \in Frame \cup {None}
  BY DEF IoInv, Kept
<1>2. /\ kind \in Kinds /\ drv \in Driver /\ mem \in Frame /\ dev \in Device
      /\ flushed \in Ids \cup {None} /\ chain[0] \in [Heads -> Chain(0)]
  <2>1. 0 \in Queues
    BY DEF Queues
  <2> QED BY Zenon, <1>1, <2>1, TypedNow
<1>3. PICK r \in ReportsOf(kind) : dev' = [dev EXCEPT !.pending = @ \o r]
  BY DEF HostInput
<1>4. /\ kind' = kind /\ ring' = ring /\ chain' = chain /\ flushed' = flushed /\ gic' = gic
      /\ drv' = drv /\ mem' = mem /\ window' = window
  BY DEF HostInput
<1>5. r \in Seq(Events) /\ IsInput /\ dev.pending \in Seq(Events)
  BY <1>2, ReportType DEF Device
<1>6. dev.pending \o r \in Seq(Events)
  BY <1>5, ConcatProperties
<1>7. /\ dev' \in Device /\ dev'.queues = dev.queues /\ dev'.pending = dev.pending \o r
      /\ dev'.gpu = dev.gpu
  BY <1>2, <1>3, <1>6 DEF Device
<1>8. /\ Kept(Now)'
      /\ IsInput => FifoOf(Now)' = Data(chain[0], Returned(Now, 0)) \o dev'.pending
  BY Zenon, <1>1, <1>2, <1>4, <1>7, SameRings
<1>9. Shown(Now)'
  BY <1>1, <1>4, <1>7 DEF Shown, ShownAs, Now
<1>10. FifoOf(Now) = Data(chain[0], Returned(Now, 0)) \o dev.pending
  BY <1>5 DEF FifoOf, Now
<1>11. Fifo' = Fifo \o r
  <2> DEFINE S == Answers(0) \cup {None}
             front == Data(chain[0], Returned(Now, 0))
  <2>1. Events \subseteq S
    BY <1>5 DEF Answers, IsInput
  <2>2. front \in Seq(S)
    <3>1. Returned(Now, 0) \in Seq(Heads)
      BY Zenon, <1>1, Sequences DEF Queues
    <3> QED BY Zenon, <1>2, <3>1, DataType
  <2>3. r \in Seq(S) /\ dev.pending \in Seq(S)
    BY <1>5, <2>1
  <2> HIDE DEF front, S
  <2> DEFINE p == dev.pending
  <2>4. (front \o p) \o r = front \o (p \o r)
    <3>1. front \in Seq(S) /\ p \in Seq(S) /\ r \in Seq(S)
      BY <2>2, <2>3
    <3> HIDE DEF p
    <3> QED BY <3>1, ConcatAssociative
  <2>5. FifoOf(Now) = Fifo
    BY Zenon, <1>1, FifoNow
  <2>6. (FifoOf(Now) = Fifo)'
    <3>1. (Kept(Now) => FifoOf(Now) = Fifo)'
      BY FifoNow, PTL
    <3> QED BY Zenon, <1>8, <3>1
  <2> QED BY <1>5, <1>7, <1>8, <1>10, <2>4, <2>5, <2>6 DEF front
<1>12. Input!Next
  <2>1. r \in UNION {ReportsOf(k) : k \in Kinds}
    BY <1>2
  <2> QED BY <1>11, <2>1 DEF Input!Next, Input!Inject
<1> QED BY <1>1, <1>4, <1>8, <1>9, <1>12 DEF IoInv, FifoStep

-----------------------------------------------------------------------------
(* A head that changes hands *)

LEMMA ApartPost ==
    ASSUME NEW free, NEW flight, Apart(free, flight), NEW h \in free
    PROVE  Apart(free \ {h}, Append(flight, h))
<1> DEFINE n == Len(flight)
           longer == Append(flight, h)
<1>1. /\ flight \in Seq(Heads) /\ free \subseteq Heads /\ h \in Heads /\ n \in Nat
      /\ n + Cardinality(free) = QueueNum
      /\ \A j \in 1 .. n : flight[j] \notin free
      /\ \A j, k \in 1 .. n : flight[j] = flight[k] => j = k
  BY LenProperties DEF Apart
<1>2. /\ longer \in Seq(Heads) /\ Len(longer) = n + 1 /\ longer[n + 1] = h
      /\ \A j \in 1 .. n : longer[j] = flight[j]
  BY <1>1, AppendProperties
<1>3. IsFiniteSet(free) /\ Cardinality(free) \in Nat
  BY <1>1, FreeIsFinite
<1>4. Cardinality(free \ {h}) = Cardinality(free) - 1
  BY <1>3, FS_RemoveElement
<1> HIDE DEF longer, n
<1>5. \A j \in 1 .. n + 1 : j \in 1 .. n \/ j = n + 1
  BY <1>1
<1>6. \A j \in 1 .. n + 1 : longer[j] \notin free \ {h}
  BY <1>1, <1>2, <1>5
<1>7. \A j, k \in 1 .. n + 1 : longer[j] = longer[k] => j = k
  BY <1>1, <1>2, <1>5
<1>8. n + 1 + Cardinality(free \ {h}) = QueueNum
  <2>1. QueueNum \in Nat
    BY Sizes
  <2> QED BY <1>1, <1>3, <1>4, <2>1
<1> QED BY <1>1, <1>2, <1>6, <1>7, <1>8 DEF Apart, longer

LEMMA ApartCollect ==
    ASSUME NEW free, NEW flight, Apart(free, flight), flight # << >>
    PROVE  /\ Apart(free \cup {Head(flight)}, Tail(flight))
           /\ Head(flight) \notin free /\ Head(flight) \in Heads
<1> DEFINE n == Len(flight)
           h == Head(flight)
           rest == Tail(flight)
<1>1. /\ flight \in Seq(Heads) /\ free \subseteq Heads /\ n \in Nat /\ n > 0
      /\ n + Cardinality(free) = QueueNum
      /\ \A j \in 1 .. n : flight[j] \notin free
      /\ \A j, k \in 1 .. n : flight[j] = flight[k] => j = k
  BY LenProperties, EmptySeq DEF Apart
<1>2. /\ h \in Heads /\ h = flight[1] /\ rest \in Seq(Heads) /\ Len(rest) = n - 1
      /\ \A j \in 1 .. n - 1 : rest[j] = flight[j + 1]
  BY <1>1, HeadTailProperties
<1>3. IsFiniteSet(free) /\ Cardinality(free) \in Nat
  BY <1>1, FreeIsFinite
<1> HIDE DEF n, h, rest
<1>4. h \notin free
  BY <1>1, <1>2
<1>5. Cardinality(free \cup {h}) = Cardinality(free) + 1
  BY <1>3, <1>4, FS_AddElement
<1>6. \A j \in 1 .. n - 1 : j + 1 \in 1 .. n /\ j + 1 # 1
  BY <1>1
<1>7. \A j \in 1 .. n - 1 : rest[j] \notin free \cup {h}
  BY <1>1, <1>2, <1>6
<1>8. \A j, k \in 1 .. n - 1 : rest[j] = rest[k] => j = k
  <2> SUFFICES ASSUME NEW j \in 1 .. n - 1, NEW k \in 1 .. n - 1, rest[j] = rest[k] PROVE j = k
    OBVIOUS
  <2>1. j + 1 = k + 1
    BY <1>1, <1>2, <1>6
  <2> QED BY <1>1, <2>1
<1>9. (n - 1) + Cardinality(free \cup {h}) = QueueNum
  <2>1. QueueNum \in Nat
    BY Sizes
  <2> QED BY <1>1, <1>3, <1>5, <2>1
<1> QED BY <1>1, <1>2, <1>4, <1>7, <1>8, <1>9 DEF Apart, h, rest

LEMMA ApartEmpty == Apart(Heads, << >>)
<1>1. Cardinality(Heads) = QueueNum
  BY Sizes, FS_Interval DEF Heads
<1> QED BY <1>1, Sizes DEF Apart

LEMMA ViewEmpty ==
    ASSUME NEW a \in [Heads -> Heads], NEW i \in Idx
    PROVE  View(a, i, i) = << >>
<1>1. (i - i) % IdxMod = 0
  BY Distance
<1>2. View(a, i, i) \in Seq(Heads) /\ Len(View(a, i, i)) = 0
  BY <1>1, ViewType
<1> QED BY <1>2, EmptySeq

LEMMA ConcatParts ==
    ASSUME NEW S, NEW r \in Seq(S), NEW p \in Seq(S), NEW e \in S
    PROVE  /\ r \o Append(p, e) = Append(r \o p, e)
           /\ r # << >> => Head(r \o p) = Head(r) /\ Tail(r \o p) = Tail(r) \o p /\ r \o p # << >>
<1>1. r \o Append(p, e) = Append(r \o p, e)
  <2>1. Append(p, e) = p \o <<e>> /\ <<e>> \in Seq(S)
    OBVIOUS
  <2>2. r \o p \in Seq(S) /\ Append(r \o p, e) = (r \o p) \o <<e>>
    OBVIOUS
  <2> QED BY <2>1, <2>2, ConcatAssociative
<1>2. ASSUME r # << >>
      PROVE  Head(r \o p) = Head(r) /\ Tail(r \o p) = Tail(r) \o p /\ r \o p # << >>
  <2>1. /\ Len(r) \in Nat /\ Len(r) > 0 /\ Len(p) \in Nat /\ Head(r) = r[1]
        /\ Tail(r) \in Seq(S) /\ Len(Tail(r)) = Len(r) - 1
        /\ \A k \in 1 .. Len(r) - 1 : Tail(r)[k] = r[k + 1]
    BY <1>2, HeadTailProperties, LenProperties, EmptySeq
  <2> DEFINE m == Len(r)
             n == Len(p)
             w == r \o p
             x == Tail(r) \o p
  <2>2. /\ w \in Seq(S) /\ Len(w) = m + n
        /\ \A k \in 1 .. m + n : w[k] = IF k <= m THEN r[k] ELSE p[k - m]
    BY ConcatProperties
  <2>3. /\ x \in Seq(S) /\ Len(x) = (m - 1) + n
        /\ \A k \in 1 .. (m - 1) + n : x[k] = IF k <= m - 1 THEN Tail(r)[k] ELSE p[k - (m - 1)]
    <3> DEFINE v == Tail(r)
    <3>1. v \in Seq(S) /\ Len(v) = m - 1
      BY <2>1
    <3> HIDE DEF v
    <3>2. /\ v \o p \in Seq(S) /\ Len(v \o p) = Len(v) + n
          /\ \A k \in 1 .. Len(v) + n : (v \o p)[k] = IF k <= Len(v) THEN v[k] ELSE p[k - Len(v)]
      BY <3>1, ConcatProperties
    <3>3. x = v \o p
      BY DEF v
    <3> HIDE DEF m, n, x
    <3>4. /\ x \in Seq(S) /\ Len(x) = (m - 1) + n
          /\ \A k \in 1 .. (m - 1) + n : x[k] = IF k <= m - 1 THEN v[k] ELSE p[k - (m - 1)]
      BY Zenon, <3>1, <3>2, <3>3
    <3> QED BY <3>4 DEF v
  <2> HIDE DEF w, x
  <2>4. w # << >> /\ Head(w) = r[1]
    <3>1. Len(w) > 0 /\ 1 \in 1 .. m + n /\ 1 <= m
      BY <2>1, <2>2
    <3>2. w[1] = r[1]
      BY <2>2, <3>1
    <3> QED BY <2>2, <3>1, <3>2
  <2>5. /\ Tail(w) \in Seq(S) /\ Len(Tail(w)) = (m + n) - 1
        /\ \A k \in 1 .. (m + n) - 1 : Tail(w)[k] = w[k + 1]
    BY <2>2, <2>4, HeadTailProperties
  <2>6. \A k \in 1 .. (m + n) - 1 : Tail(w)[k] = x[k]
    <3> SUFFICES ASSUME NEW k \in 1 .. (m + n) - 1 PROVE Tail(w)[k] = x[k]
      OBVIOUS
    <3>1. k + 1 \in 1 .. m + n /\ k \in 1 .. (m - 1) + n /\ (k + 1) - m = k - (m - 1)
      BY <2>1
    <3>2. w[k + 1] = IF k + 1 <= m THEN r[k + 1] ELSE p[(k + 1) - m]
      BY <2>2, <3>1
    <3>3. x[k] = IF k <= m - 1 THEN Tail(r)[k] ELSE p[k - (m - 1)]
      BY <2>3, <3>1
    <3>4. k <= m - 1 => k \in 1 .. Len(r) - 1 /\ k + 1 <= m
      BY <2>1
    <3>5. ~ (k <= m - 1) => ~ (k + 1 <= m)
      BY <2>1
    <3> QED BY <2>1, <2>5, <3>1, <3>2, <3>3, <3>4, <3>5
  <2>7. Tail(w) = x
    <3>1. (m + n) - 1 = (m - 1) + n
      BY <2>1
    <3> QED BY <2>3, <2>5, <2>6, <3>1, SeqEqual
  <2> QED BY <2>1, <2>4, <2>7 DEF w, x
<1> QED BY <1>1, <1>2

LEMMA DataSame ==
    ASSUME NEW c, NEW d, NEW heads, \A k \in 1 .. Len(heads) : d[heads[k]].data = c[heads[k]].data
    PROVE  Data(d, heads) = Data(c, heads)
BY DEF Data

LEMMA DataTail ==
    ASSUME NEW c \in [Heads -> Chain(0)], NEW heads \in Seq(Heads), heads # << >>
    PROVE  Data(c, Tail(heads)) = Tail(Data(c, heads)) /\ Data(c, heads) # << >>
<1> DEFINE n == Len(heads)
           S == Answers(0) \cup {None}
           rest == Tail(heads)
           x == Data(c, heads)
           y == Data(c, rest)
<1>1. /\ n \in Nat /\ n > 0 /\ rest \in Seq(Heads) /\ Len(rest) = n - 1
      /\ \A k \in 1 .. n - 1 : rest[k] = heads[k + 1]
  BY HeadTailProperties, LenProperties, EmptySeq
<1>2. x \in Seq(S) /\ Len(x) = n /\ \A k \in 1 .. n : x[k] = c[heads[k]].data
  BY Zenon, DataType
<1>3. y \in Seq(S) /\ Len(y) = n - 1 /\ \A k \in 1 .. n - 1 : y[k] = c[rest[k]].data
  <2>1. y \in Seq(S) /\ Len(y) = Len(rest) /\ \A k \in 1 .. Len(rest) : y[k] = c[rest[k]].data
    <3> HIDE DEF rest
    <3> QED BY Zenon, <1>1, DataType
  <2> HIDE DEF rest, y, n, S
  <2> QED BY Zenon, <1>1, <2>1
<1> HIDE DEF x, y, n, S, rest
<1>4. x # << >>
  BY <1>1, <1>2
<1>5. Tail(x) \in Seq(S) /\ Len(Tail(x)) = n - 1 /\ \A k \in 1 .. n - 1 : Tail(x)[k] = x[k + 1]
  BY <1>2, <1>4, HeadTailProperties
<1>6. \A k \in 1 .. n - 1 : y[k] = Tail(x)[k]
  <2> SUFFICES ASSUME NEW k \in 1 .. n - 1 PROVE y[k] = Tail(x)[k]
    OBVIOUS
  <2>1. k + 1 \in 1 .. n
    BY <1>1
  <2> QED BY <1>1, <1>2, <1>3, <1>5, <2>1
<1>7. y = Tail(x)
  BY <1>3, <1>5, <1>6, SeqEqual
<1> QED BY <1>4, <1>7 DEF x, y, rest

LEMMA FillIs ==
    ASSUME NEW r \in Ring, NEW h \in Heads
    PROVE  /\ Fill(r, h) \in Ring
           /\ Fill(r, h).avail = [r.avail EXCEPT ![r.avail_idx % QueueNum] = h]
           /\ Fill(r, h).avail_idx = (r.avail_idx + 1) % IdxMod
           /\ Fill(r, h).used = r.used /\ Fill(r, h).used_idx = r.used_idx
<1> DEFINE slot == r.avail_idx % QueueNum
           next == (r.avail_idx + 1) % IdxMod
<1>1. slot \in Heads /\ next \in Idx
  <2>1. r.avail_idx \in Idx
    BY DEF Ring
  <2>2. r.avail_idx \in Int
    BY Zenon, <2>1, Numbers
  <2>3. r.avail_idx + 1 \in Int
    BY <2>2
  <2> QED BY Zenon, <2>2, <2>3, Sizes
<1>2. r = [avail_idx |-> r.avail_idx, avail |-> r.avail, used_idx |-> r.used_idx, used |-> r.used]
  BY DEF Ring
<1>3. Fill(r, h) = [r EXCEPT !.avail[slot] = h, !.avail_idx = next]
  BY DEF Fill
<1> HIDE DEF slot, next
<1>4. Fill(r, h) = [avail_idx |-> next, avail |-> [r.avail EXCEPT ![slot] = h],
                    used_idx |-> r.used_idx, used |-> r.used]
  BY <1>2, <1>3
<1>5. [r.avail EXCEPT ![slot] = h] \in [Heads -> Heads]
  BY <1>1 DEF Ring
<1> QED BY <1>1, <1>4, <1>5 DEF Ring, slot, next

\* What is not of queue q stays as it is.
OnlyQueue(q) ==
    /\ kind' = kind /\ mem' = mem /\ window' = window /\ flushed' = flushed /\ gic' = gic /\ dev' = dev
    /\ drv'.setup = drv.setup /\ drv' \in Driver
    /\ ring' \in [Queues -> Ring] /\ chain' = [p \in Queues |-> chain'[p]]
    /\ chain'[q] \in [Heads -> Chain(q)] /\ q < drv.setup
    /\ \A p \in Queues \ {q} : /\ ring'[p] = ring[p] /\ chain'[p] = chain[p]
                               /\ drv'.free[p] = drv.free[p] /\ drv'.last_used[p] = drv.last_used[p]

(* A step of the driver that has to do with one queue.                      *)
LEMMA OneQueueKeeps ==
    ASSUME IoInv, NEW q \in Queues, OnlyQueue(q),
           Apart(drv'.free[q], Flight(Now, q)'),
           \A h \in Heads : h \notin drv'.free[q] => chain'[q][h].req \in Requests(q)
    PROVE  /\ IoInv'
           /\ \A p \in Queues \ {q} : Returned(Now, p)' = Returned(Now, p)
           /\ (~ IsInput \/ q # 0 \/ Data(chain'[0], Returned(Now, 0)') = Data(chain[0], Returned(Now, 0)))
                 => FifoStep
<1>1. Kept(Now) /\ Shown(Now) /\ GicInv(gic) /\ window \in Frame \cup {None}
  BY DEF IoInv
<1>2. /\ kind \in Kinds /\ drv \in Driver /\ mem \in Frame /\ dev \in Device
      /\ flushed \in Ids \cup {None} /\ \A p \in Queues : chain[p] \in [Heads -> Chain(p)]
  BY Zenon, <1>1, TypedNow
<1>3. /\ kind' = kind /\ mem' = mem /\ window' = window /\ flushed' = flushed /\ gic' = gic /\ dev' = dev
      /\ drv'.setup = drv.setup /\ drv' \in Driver
      /\ ring' \in [Queues -> Ring] /\ chain' = [p \in Queues |-> chain'[p]]
      /\ chain'[q] \in [Heads -> Chain(q)] /\ q < drv.setup
      /\ \A p \in Queues \ {q} : /\ ring'[p] = ring[p] /\ chain'[p] = chain[p]
                                 /\ drv'.free[p] = drv.free[p] /\ drv'.last_used[p] = drv.last_used[p]
  BY DEF OnlyQueue
<1>4. Typed(Now)'
  <2>1. \A p \in Queues : chain'[p] \in [Heads -> Chain(p)]
    BY <1>2, <1>3
  <2>2. /\ dev' \in Device /\ mem' \in Frame /\ flushed' \in Ids \cup {None}
    BY <1>2, <1>3
  <2> QED BY Zenon, <1>2, <1>3, <2>1, <2>2, TypedNext
<1>5. \A p \in Queues \ {q} : /\ Returned(Now, p)' = Returned(Now, p)
                              /\ Flight(Now, p)' = Flight(Now, p)
  <2> SUFFICES ASSUME NEW p \in Queues \ {q}
               PROVE  Returned(Now, p)' = Returned(Now, p) /\ Flight(Now, p)' = Flight(Now, p)
    OBVIOUS
  <2>1. p \in Queues /\ ring'[p] = ring[p] /\ drv'.last_used[p] = drv.last_used[p] /\ dev' = dev
    BY <1>3
  <2>2. Returned(Now, p)' = Returned(Now, p) /\ Posted(Now, p)' = Posted(Now, p)
    BY Zenon, <2>1, ViewsNow
  <2> QED BY Zenon, <2>1, <2>2, ViewsNow
<1>6. Kept(Now)'
  <2>1. /\ \A p \in Queues : Apart(drv.free[p], Flight(Now, p))
        /\ \A p \in Queues, h \in Heads : h \notin drv.free[p] => chain[p][h].req \in Requests(p)
        /\ \A p \in Queues :
              IF p < drv.setup THEN dev.queues[p].ready /\ dev.queues[p].num = QueueNum
              ELSE /\ dev.queues[p] = VirtqDefault /\ ring[p] = EmptyRing
                   /\ drv.last_used[p] = 0 /\ drv.free[p] = Heads
    BY Zenon, <1>1, KeptParts
  <2>2. \A p \in Queues : Apart(drv'.free[p], Flight(Now, p)')
    BY <1>3, <1>5, <2>1
  <2>3. \A p \in Queues, h \in Heads : h \notin drv'.free[p] => chain'[p][h].req \in Requests(p)
    BY <1>3, <2>1
  <2>4. \A p \in Queues :
              IF p < drv'.setup THEN dev'.queues[p].ready /\ dev'.queues[p].num = QueueNum
              ELSE /\ dev'.queues[p] = VirtqDefault /\ ring'[p] = EmptyRing
                   /\ drv'.last_used[p] = 0 /\ drv'.free[p] = Heads
    BY <1>3, <2>1
  <2> QED BY Zenon, <1>3, <1>4, <2>2, <2>3, <2>4, KeptNext
<1>7. Shown(Now)'
  BY <1>1, <1>3 DEF Shown, ShownAs, Now
<1>8. IoInv'
  BY <1>1, <1>3, <1>6, <1>7 DEF IoInv
<1>9. ASSUME ~ IsInput \/ q # 0
              \/ Data(chain'[0], Returned(Now, 0)') = Data(chain[0], Returned(Now, 0))
      PROVE  FifoStep
  <2>1. FifoOf(Now)' = (IF IsInput' THEN Data(chain'[0], Returned(Now, 0)') ELSE << >>) \o dev'.pending
    BY DEF FifoOf, Now
  <2>2. FifoOf(Now) = (IF IsInput THEN Data(chain[0], Returned(Now, 0)) ELSE << >>) \o dev.pending
    BY DEF FifoOf, Now
  <2>3. IsInput' = IsInput
    BY <1>3, KindFixed
  <2>4. IsInput => Data(chain'[0], Returned(Now, 0)') = Data(chain[0], Returned(Now, 0))
    <3>1. CASE q # 0
      <4>1. 0 \in Queues \ {q}
        BY <3>1 DEF Queues
      <4> QED BY <1>3, <1>5, <4>1
    <3> QED BY <1>9, <3>1
  <2> DEFINE a == Data(chain'[0], Returned(Now, 0)')
             b == Data(chain[0], Returned(Now, 0))
  <2> HIDE DEF a, b
  <2>5. FifoOf(Now)' = FifoOf(Now)
    <3>1. /\ FifoOf(Now)' = (IF IsInput THEN a ELSE << >>) \o dev.pending
          /\ FifoOf(Now) = (IF IsInput THEN b ELSE << >>) \o dev.pending
          /\ IsInput => a = b
      BY <1>3, <2>1, <2>2, <2>3, <2>4 DEF a, b
    <3>2. (IF IsInput THEN a ELSE << >>) = (IF IsInput THEN b ELSE << >>)
      BY <3>1
    <3> DEFINE x == IF IsInput THEN a ELSE << >>
               y == IF IsInput THEN b ELSE << >>
    <3>3. FifoOf(Now)' = x \o dev.pending /\ FifoOf(Now) = y \o dev.pending /\ x = y
      BY <3>1, <3>2
    <3> HIDE DEF x, y
    <3> QED BY <3>3
  <2> QED BY Zenon, <1>1, <1>6, <2>5, Stutters
<1> QED BY Zenon, <1>5, <1>8, <1>9

-----------------------------------------------------------------------------
(* Posting and collecting *)

LEMMA RoomToPost ==
    ASSUME Kept(Now), NEW q \in Queues, drv.free[q] # {} \/ Returned(Now, q) # << >>
    PROVE  Len(Posted(Now, q)) < QueueNum
<1>1. Typed(Now)
  BY DEF Kept
<1>2. /\ Posted(Now, q) \in Seq(Heads) /\ Returned(Now, q) \in Seq(Heads)
      /\ Len(Flight(Now, q)) = Len(Returned(Now, q)) + Len(Posted(Now, q))
      /\ Len(Posted(Now, q)) \in Nat /\ Len(Returned(Now, q)) \in Nat
  BY Zenon, <1>1, Sequences
<1>3. drv.free[q] \in SUBSET Heads
  BY Zenon, <1>1, Fields
<1>4. /\ IsFiniteSet(drv.free[q]) /\ Cardinality(drv.free[q]) \in Nat
      /\ (drv.free[q] # {} => Cardinality(drv.free[q]) # 0)
  BY <1>3, FreeIsFinite, FS_EmptySet
<1>5. Len(Flight(Now, q)) + Cardinality(drv.free[q]) = QueueNum
  BY KeptParts DEF Apart
<1>6. Returned(Now, q) # << >> => Len(Returned(Now, q)) # 0
  BY <1>2, EmptySeq
<1>7. QueueNum \in Nat
  BY Sizes
<1> QED BY <1>2, <1>4, <1>5, <1>6, <1>7

LEMMA PostKeeps == ASSUME IoInv, NEW q \in Queues, Post(q) PROVE IoInv' /\ FifoStep
<1>1. Kept(Now) /\ Typed(Now)
  BY DEF IoInv, Kept
<1>2. /\ kind \in Kinds /\ drv \in Driver /\ mem \in Frame /\ dev \in Device
      /\ ring \in [Queues -> Ring] /\ chain = [p \in Queues |-> chain[p]]
      /\ \A p \in Queues : chain[p] \in [Heads -> Chain(p)]
  BY Zenon, <1>1, TypedNow
<1>3. drv.free[q] \in SUBSET Heads /\ drv.free[q] # {} /\ drv.setup > LastQueue /\ q <= LastQueue
  BY <1>2 DEF Post, Driver, Ready
<1>4. PICK h \in {Min(drv.free[q])}, req \in Requests(q) :
          /\ chain' = [chain EXCEPT ![q][h] = [req |-> req, data |-> None]]
          /\ ring' = [ring EXCEPT ![q] = Fill(@, h)]
          /\ drv' = [drv EXCEPT !.free[q] = @ \ {h}, !.kick = TRUE]
  BY Zenon DEF Post
<1>5. UNCHANGED <<kind, dev, mem, window, flushed, gic>>
  BY DEF Post
<1>6. h \in drv.free[q] /\ h \in Heads
  <2>1. Heads \subseteq Nat
    BY DEF Heads
  <2>2. Min(drv.free[q]) \in drv.free[q]
    BY <1>3, <2>1, MinIs
  <2> QED BY <1>3, <2>2
<1> DEFINE filled == Fill(ring[q], h)
           x == [req |-> req, data |-> None]
<1>7. /\ filled \in Ring /\ filled.avail = [ring[q].avail EXCEPT ![ring[q].avail_idx % QueueNum] = h]
      /\ filled.avail_idx = (ring[q].avail_idx + 1) % IdxMod
      /\ filled.used = ring[q].used /\ filled.used_idx = ring[q].used_idx
  <2>1. ring[q] \in Ring
    BY <1>2
  <2> QED BY <1>6, <2>1, FillIs
<1>8. /\ ring' \in [Queues -> Ring] /\ ring'[q] = filled
      /\ \A p \in Queues \ {q} : ring'[p] = ring[p]
  <2> HIDE DEF filled
  <2>1. ring' = [ring EXCEPT ![q] = filled]
    BY <1>4 DEF filled
  <2> QED BY <1>2, <1>7, <2>1
<1>9. x \in Chain(q)
  BY <1>4 DEF Chain
<1>10. /\ chain'[q] = [chain[q] EXCEPT ![h] = x] /\ chain'[q] \in [Heads -> Chain(q)]
       /\ chain' = [p \in Queues |-> chain'[p]]
       /\ \A p \in Queues \ {q} : chain'[p] = chain[p]
  <2> HIDE DEF x
  <2>1. chain' = [chain EXCEPT ![q][h] = x]
    BY <1>4 DEF x
  <2> QED BY <1>2, <1>6, <1>9, <2>1
<1>11. /\ drv' \in Driver /\ drv'.setup = drv.setup /\ drv'.free[q] = drv.free[q] \ {h}
       /\ drv'.last_used = drv.last_used
       /\ \A p \in Queues \ {q} : drv'.free[p] = drv.free[p]
  BY <1>2, <1>4 DEF Driver
<1>12. q < drv.setup
  BY <1>2, <1>3 DEF Driver, LastQueue, Queues
<1>13. OnlyQueue(q)
  BY <1>5, <1>8, <1>10, <1>11, <1>12 DEF OnlyQueue
<1>14. /\ Posted(Now, q) \in Seq(Heads) /\ Returned(Now, q) \in Seq(Heads)
       /\ Flight(Now, q) \in Seq(Heads)
  BY Zenon, <1>1, Sequences
<1>15. Returned(Now, q)' = Returned(Now, q) /\ Posted(Now, q)' = Append(Posted(Now, q), h)
  <2> DEFINE a == ring[q].avail
             i == dev.queues[q].last_avail
             j == ring[q].avail_idx
  <2>1. a \in [Heads -> Heads] /\ i \in Idx /\ j \in Idx
    <3>1. Now.ring = ring /\ Now.dev = dev
      BY DEF Now
    <3> QED BY Zenon, <1>1, <3>1, Fields
  <2>2. Posted(Now, q) = View(a, i, j)
    BY Zenon, ViewsNow
  <2>3. Len(View(a, i, j)) < QueueNum
    BY <1>1, <1>3, <2>2, RoomToPost
  <2>4. View([a EXCEPT ![j % QueueNum] = h], i, (j + 1) % IdxMod) = Append(View(a, i, j), h)
    <3>1. h \in Heads
      BY Zenon, <1>6
    <3> HIDE DEF a, i, j
    <3> QED BY Zenon, <3>1, <2>1, <2>3, ViewAppend
  <2>5. Posted(Now, q)' = View([a EXCEPT ![j % QueueNum] = h], i, (j + 1) % IdxMod)
    <3>1. Posted(Now, q)' = View(ring'[q].avail, dev'.queues[q].last_avail, ring'[q].avail_idx)
      BY Zenon, ViewsNow
    <3>2. dev' = dev /\ ring'[q] = filled
      BY Zenon, <1>5, <1>8
    <3>3. /\ filled.avail = [a EXCEPT ![j % QueueNum] = h]
          /\ filled.avail_idx = (j + 1) % IdxMod
      BY Zenon, <1>7
    <3> QED BY Zenon, <3>1, <3>2, <3>3
  <2>6. Returned(Now, q)' = Returned(Now, q)
    <3>1. /\ ring'[q].used = ring[q].used /\ ring'[q].used_idx = ring[q].used_idx
          /\ drv'.last_used[q] = drv.last_used[q]
      BY <1>7, <1>8, <1>11
    <3> QED BY Zenon, <3>1, ViewsNow
  <2> QED BY Zenon, <2>2, <2>4, <2>5, <2>6
<1>16. Flight(Now, q)' = Append(Flight(Now, q), h)
  <2>1. Returned(Now, q) \o Append(Posted(Now, q), h) = Append(Returned(Now, q) \o Posted(Now, q), h)
    BY <1>6, <1>14, ConcatParts
  <2> QED BY Zenon, <1>15, <2>1, ViewsNow
<1>17. Apart(drv.free[q], Flight(Now, q))
  BY Zenon, <1>1, KeptParts
<1>18. Apart(drv'.free[q], Flight(Now, q)')
  <2>1. Apart(drv.free[q] \ {h}, Append(Flight(Now, q), h))
    BY Zenon, <1>6, <1>17, ApartPost
  <2> QED BY <1>11, <1>16, <2>1
<1>19. \A i \in Heads : i \notin drv'.free[q] => chain'[q][i].req \in Requests(q)
  <2>1. \A i \in Heads : i \notin drv.free[q] => chain[q][i].req \in Requests(q)
    BY Zenon, <1>1, KeptParts
  <2>2. x.req \in Requests(q)
    BY <1>4
  <2> HIDE DEF x
  <2> QED BY <1>2, <1>6, <1>10, <1>11, <2>1, <2>2
<1>20. q = 0 => Data(chain'[0], Returned(Now, 0)') = Data(chain[0], Returned(Now, 0))
  <2> SUFFICES ASSUME q = 0
               PROVE  Data(chain'[q], Returned(Now, q)') = Data(chain[q], Returned(Now, q))
    OBVIOUS
  <2> DEFINE r == Returned(Now, q)
  <2>1. \A k \in 1 .. Len(r) : r[k] # h /\ r[k] \in Heads
    <3>1. Flight(Now, q) = r \o Posted(Now, q)
      BY Zenon, ViewsNow
    <3>2. /\ Len(Flight(Now, q)) = Len(r) + Len(Posted(Now, q))
          /\ Len(Posted(Now, q)) \in Nat /\ Len(r) \in Nat
      BY Zenon, <1>1, Sequences
    <3> DEFINE m == Len(r)
               n == Len(Posted(Now, q))
               w == Flight(Now, q)
    <3>3. \A k \in 1 .. m + n : w[k] = IF k <= m THEN r[k] ELSE Posted(Now, q)[k - m]
      <4> DEFINE v == r \o Posted(Now, q)
      <4>1. \A k \in 1 .. m + n : v[k] = IF k <= m THEN r[k] ELSE Posted(Now, q)[k - m]
        <5>1. r \in Seq(Heads) /\ Posted(Now, q) \in Seq(Heads)
          BY Zenon, <1>14
        <5> HIDE DEF r
        <5> QED BY <5>1, ConcatProperties
      <4>2. w = v
        BY <3>1
      <4> HIDE DEF v, w, m, n, r
      <4> QED BY Zenon, <4>1, <4>2
    <3>4. \A k \in 1 .. m + n : w[k] \notin drv.free[q]
      BY <1>17, <3>2 DEF Apart
    <3>5. \A k \in 1 .. m : r[k] \in Heads
      BY <1>14, ElementOfSeq
    <3>6. \A k \in 1 .. m : k \in 1 .. m + n /\ k <= m
      BY <3>2
    <3> HIDE DEF m, n, w, r
    <3>7. \A k \in 1 .. m : r[k] \notin drv.free[q] /\ r[k] \in Heads
      BY <3>3, <3>4, <3>5, <3>6
    <3> QED BY <1>6, <3>7 DEF m
  <2>2. \A k \in 1 .. Len(r) : chain'[q][r[k]].data = chain[q][r[k]].data
    <3> HIDE DEF r, x
    <3> QED BY <1>2, <1>10, <2>1
  <2>3. Data(chain'[q], r) = Data(chain[q], r)
    <3> DEFINE old == chain[q]
               new == chain'[q]
    <3>1. \A k \in 1 .. Len(r) : new[r[k]].data = old[r[k]].data
      BY Zenon, <2>2
    <3> HIDE DEF r, old, new
    <3>2. Data(new, r) = Data(old, r)
      BY <3>1, DataSame
    <3> QED BY Zenon, <3>2 DEF old, new
  <2> QED BY Zenon, <1>15, <2>3
<1>21. /\ IoInv'
       /\ (~ IsInput \/ q # 0 \/ Data(chain'[0], Returned(Now, 0)') = Data(chain[0], Returned(Now, 0)))
             => FifoStep
  BY Zenon, <1>13, <1>18, <1>19, OneQueueKeeps
<1> QED BY Zenon, <1>20, <1>21

\* What the driver collects: the head that was returned first.
LEMMA CollectIs ==
    ASSUME Kept(Now), NEW q \in Queues, Uncollected(q) # 0
    PROVE  /\ Returned(Now, q) # << >> /\ Head(Returned(Now, q)) = UsedHead(q, 1)
           /\ UsedHead(q, 1) \in Heads /\ UsedHead(q, 1) \notin drv.free[q] /\ q < drv.setup
           /\ View(ring[q].used, (drv.last_used[q] + 1) % IdxMod, ring[q].used_idx)
                 = Tail(Returned(Now, q))
           /\ Apart(drv.free[q] \cup {UsedHead(q, 1)}, Tail(Returned(Now, q)) \o Posted(Now, q))
           /\ (drv.last_used[q] + 1) % IdxMod \in Idx
<1> DEFINE a == ring[q].used
           i == drv.last_used[q]
           j == ring[q].used_idx
           h == UsedHead(q, 1)
           r == Returned(Now, q)
           p == Posted(Now, q)
<1>1. Typed(Now) /\ Apart(drv.free[q], Flight(Now, q)) /\ Flight(Now, q) = r \o p
  BY Zenon, KeptParts, ViewsNow DEF Kept
<1>2. a \in [Heads -> Heads] /\ i \in Idx /\ j \in Idx
  <2>1. Now.ring = ring
    BY DEF Now
  <2> QED BY Zenon, <1>1, <2>1, Fields
<1>3. r = View(a, i, j)
  BY Zenon, ViewsNow
<1>4. (j - i) % IdxMod # 0
  BY DEF Uncollected
<1>5. h = a[i % QueueNum]
  <2>1. i + 1 - 1 = i
    <3>1. i \in Int
      BY Zenon, <1>2, Numbers
    <3> QED BY <3>1
  <2> QED BY <2>1 DEF UsedHead
<1>6. r # << >> /\ Head(r) = h /\ View(a, (i + 1) % IdxMod, j) = Tail(r)
  <2>1. /\ View(a, i, j) # << >> /\ Head(View(a, i, j)) = a[i % QueueNum]
        /\ View(a, (i + 1) % IdxMod, j) = Tail(View(a, i, j))
    <3> HIDE DEF a, i, j
    <3> QED BY Zenon, <1>2, <1>4, ViewTail
  <2> QED BY Zenon, <1>3, <1>5, <2>1
<1>7. r \in Seq(Heads) /\ p \in Seq(Heads)
  BY Zenon, <1>1, Sequences
<1> HIDE DEF r, p, h
<1>8. h \in Heads
  BY <1>6, <1>7, HeadTailProperties
<1>9. Head(r \o p) = h /\ Tail(r \o p) = Tail(r) \o p /\ r \o p # << >>
  BY <1>6, <1>7, <1>8, ConcatParts
<1>10. Apart(drv.free[q] \cup {h}, Tail(r) \o p) /\ h \notin drv.free[q]
  BY <1>1, <1>9, ApartCollect
<1>11. q < drv.setup
  <2> SUFFICES ASSUME ~ (q < drv.setup) PROVE FALSE
    OBVIOUS
  <2>1. ring[q] = EmptyRing /\ i = 0
    BY KeptParts
  <2>2. j = 0
    BY <2>1 DEF EmptyRing
  <2>3. (0 - 0) % IdxMod = 0
    BY Sizes, Distance
  <2> QED BY <1>4, <2>1, <2>2, <2>3
<1>12. (i + 1) % IdxMod \in Idx
  <2>1. i \in Int
    BY Zenon, <1>2, Numbers
  <2>2. i + 1 \in Int
    BY <2>1
  <2> QED BY Zenon, <2>2, Sizes
<1> QED BY Zenon, <1>6, <1>8, <1>10, <1>11, <1>12 DEF r, p, h

(* A chain that comes back is free again.                                   *)
LEMMA CollectOtherKeeps == ASSUME IoInv, CollectOther PROVE IoInv' /\ FifoStep
<1>1. Kept(Now) /\ Typed(Now)
  BY DEF IoInv, Kept
<1>2. /\ kind \in Kinds /\ drv \in Driver /\ dev \in Device
      /\ ring \in [Queues -> Ring] /\ chain = [p \in Queues |-> chain[p]]
      /\ \A p \in Queues : chain[p] \in [Heads -> Chain(p)]
  BY Zenon, <1>1, TypedNow
<1>3. PICK q \in Queues :
          /\ Uncollected(q) # 0 /\ ~ (IsInput /\ q = 0)
          /\ LET h == UsedHead(q, 1)
             IN  /\ chain' = [chain EXCEPT ![q][h] = NoChain]
                 /\ drv' = [drv EXCEPT !.last_used[q] = (@ + 1) % IdxMod, !.free[q] = @ \cup {h}]
  BY DEF CollectOther
<1> DEFINE h == UsedHead(q, 1)
           next == (drv.last_used[q] + 1) % IdxMod
<1>4. UNCHANGED <<kind, dev, ring, mem, window, flushed, gic>>
  BY DEF CollectOther
<1>5. /\ h \in Heads /\ h \notin drv.free[q] /\ q < drv.setup
      /\ View(ring[q].used, next, ring[q].used_idx) = Tail(Returned(Now, q))
      /\ Apart(drv.free[q] \cup {h}, Tail(Returned(Now, q)) \o Posted(Now, q))
      /\ next \in Idx
  BY Zenon, <1>1, <1>3, CollectIs
<1>6. /\ chain' = [chain EXCEPT ![q][h] = NoChain]
      /\ drv' = [drv EXCEPT !.last_used[q] = next, !.free[q] = @ \cup {h}]
  BY <1>3
<1> HIDE DEF h, next
<1>7. /\ chain'[q] = [chain[q] EXCEPT ![h] = NoChain] /\ chain'[q] \in [Heads -> Chain(q)]
      /\ chain' = [p \in Queues |-> chain'[p]]
      /\ \A p \in Queues \ {q} : chain'[p] = chain[p]
  <2>1. NoChain \in Chain(q)
    BY DEF NoChain, Chain
  <2> QED BY <1>2, <1>5, <1>6, <2>1
<1>8. /\ drv' \in Driver /\ drv'.setup = drv.setup /\ drv'.free[q] = drv.free[q] \cup {h}
      /\ drv'.last_used[q] = next
      /\ \A p \in Queues \ {q} : drv'.free[p] = drv.free[p] /\ drv'.last_used[p] = drv.last_used[p]
  BY <1>2, <1>5, <1>6 DEF Driver
<1>9. OnlyQueue(q)
  BY <1>2, <1>4, <1>5, <1>7, <1>8 DEF OnlyQueue
<1>10. Flight(Now, q)' = Tail(Returned(Now, q)) \o Posted(Now, q)
  <2>1. Returned(Now, q)' = Tail(Returned(Now, q))
    BY Zenon, <1>4, <1>5, <1>8, ViewsNow
  <2>2. Posted(Now, q)' = Posted(Now, q)
    BY Zenon, <1>4, ViewsNow
  <2> QED BY Zenon, <2>1, <2>2, ViewsNow
<1>11. Apart(drv'.free[q], Flight(Now, q)')
  BY <1>5, <1>8, <1>10
<1>12. \A i \in Heads : i \notin drv'.free[q] => chain'[q][i].req \in Requests(q)
  <2>1. \A i \in Heads : i \notin drv.free[q] => chain[q][i].req \in Requests(q)
    BY Zenon, <1>1, KeptParts
  <2> QED BY <1>2, <1>7, <1>8, <2>1
<1>13. /\ IoInv'
       /\ (~ IsInput \/ q # 0 \/ Data(chain'[0], Returned(Now, 0)') = Data(chain[0], Returned(Now, 0)))
             => FifoStep
  BY Zenon, <1>9, <1>11, <1>12, OneQueueKeeps
<1> QED BY Zenon, <1>3, <1>13

(* The guest reads the event that left the device first, and its buffer is  *)
(* posted again.                                                            *)
LEMMA CollectEventKeeps == ASSUME IoInv, CollectEvent PROVE IoInv' /\ FifoStep
<1> DEFINE h == UsedHead(0, 1)
           next == (drv.last_used[0] + 1) % IdxMod
           r == Returned(Now, 0)
           p == Posted(Now, 0)
           filled == Fill(ring[0], h)
<1>1. Kept(Now) /\ Typed(Now) /\ 0 \in Queues
  BY DEF IoInv, Kept, Queues
<1>2. /\ kind \in Kinds /\ drv \in Driver /\ dev \in Device
      /\ ring \in [Queues -> Ring] /\ chain = [q \in Queues |-> chain[q]]
      /\ \A q \in Queues : chain[q] \in [Heads -> Chain(q)]
  BY Zenon, <1>1, TypedNow
<1>3. IsInput /\ Uncollected(0) # 0 /\ UNCHANGED <<kind, dev, mem, window, flushed, gic>>
  BY DEF CollectEvent
<1>4. /\ chain' = [chain EXCEPT ![0][h].data = None]
      /\ ring' = [ring EXCEPT ![0] = filled]
      /\ drv' = [drv EXCEPT !.last_used[0] = next, !.kick = TRUE]
  BY DEF CollectEvent
<1>5. /\ h \in Heads /\ h \notin drv.free[0] /\ 0 < drv.setup /\ r # << >> /\ Head(r) = h
      /\ View(ring[0].used, next, ring[0].used_idx) = Tail(r)
      /\ Apart(drv.free[0] \cup {h}, Tail(r) \o p)
      /\ next \in Idx
  BY Zenon, <1>1, <1>3, CollectIs
<1>6. r \in Seq(Heads) /\ p \in Seq(Heads)
  BY Zenon, <1>1, Sequences
<1>7. /\ filled \in Ring /\ filled.avail = [ring[0].avail EXCEPT ![ring[0].avail_idx % QueueNum] = h]
      /\ filled.avail_idx = (ring[0].avail_idx + 1) % IdxMod
      /\ filled.used = ring[0].used /\ filled.used_idx = ring[0].used_idx
  <2>1. ring[0] \in Ring
    BY <1>1, <1>2
  <2> HIDE DEF h
  <2> QED BY <1>5, <2>1, FillIs
<1>8. p' = Append(p, h)
  <2> DEFINE a == ring[0].avail
             i == dev.queues[0].last_avail
             j == ring[0].avail_idx
  <2>1. a \in [Heads -> Heads] /\ i \in Idx /\ j \in Idx
    <3>1. Now.ring = ring /\ Now.dev = dev
      BY DEF Now
    <3> QED BY Zenon, <1>1, <3>1, Fields
  <2>2. p = View(a, i, j)
    BY Zenon, <1>1, ViewsNow
  <2>3. Len(View(a, i, j)) < QueueNum
    <3>1. Len(Posted(Now, 0)) < QueueNum
      BY Zenon, <1>1, <1>5, RoomToPost
    <3> QED BY <2>2, <3>1
  <2>4. View([a EXCEPT ![j % QueueNum] = h], i, (j + 1) % IdxMod) = Append(View(a, i, j), h)
    <3> HIDE DEF a, i, j, h
    <3> QED BY Zenon, <1>5, <2>1, <2>3, ViewAppend
  <2>5. ring'[0] = filled
    BY <1>1, <1>2, <1>4
  <2>6. p' = View([a EXCEPT ![j % QueueNum] = h], i, (j + 1) % IdxMod)
    <3>1. p' = View(ring'[0].avail, dev'.queues[0].last_avail, ring'[0].avail_idx)
      BY Zenon, <1>1, ViewsNow
    <3> HIDE DEF filled, p, h
    <3> QED BY Zenon, <1>3, <1>7, <2>5, <3>1
  <2> QED BY Zenon, <2>2, <2>4, <2>6
<1>9. /\ drv' \in Driver /\ drv'.setup = drv.setup /\ drv'.free = drv.free
      /\ drv'.last_used[0] = next
      /\ \A q \in Queues \ {0} : drv'.last_used[q] = drv.last_used[q]
  <2> HIDE DEF next
  <2> QED BY <1>1, <1>2, <1>4, <1>5 DEF Driver
<1>10. /\ ring' \in [Queues -> Ring] /\ ring'[0] = filled
       /\ \A q \in Queues \ {0} : ring'[q] = ring[q]
  <2> HIDE DEF filled
  <2> QED BY <1>1, <1>2, <1>4, <1>7
<1>11. r' = Tail(r)
  <2>1. r' = View(ring'[0].used, drv'.last_used[0], ring'[0].used_idx)
    BY Zenon, <1>1, ViewsNow
  <2> HIDE DEF filled, r, next
  <2> QED BY Zenon, <1>5, <1>7, <1>9, <1>10, <2>1
<1> DEFINE c == chain[0]
<1>12. /\ chain'[0] = [c EXCEPT ![h].data = None] /\ chain'[0] \in [Heads -> Chain(0)]
       /\ chain' = [q \in Queues |-> chain'[q]]
       /\ \A q \in Queues \ {0} : chain'[q] = chain[q]
       /\ \A i \in Heads : chain'[0][i].req = c[i].req
       /\ \A i \in Heads : i # h => chain'[0][i] = c[i]
  <2> HIDE DEF h
  <2>1. /\ chain'[0] = [c EXCEPT ![h].data = None] /\ chain' = [q \in Queues |-> chain'[q]]
        /\ \A q \in Queues \ {0} : chain'[q] = chain[q]
    BY <1>1, <1>2, <1>4
  <2>2. c[h] \in Chain(0) /\ c \in [Heads -> Chain(0)]
    BY <1>1, <1>2, <1>5
  <2> DEFINE x == [c[h] EXCEPT !.data = None]
  <2>3. x \in Chain(0) /\ x.req = c[h].req
    BY <2>2 DEF Chain
  <2>4. chain'[0] = [c EXCEPT ![h] = x]
    BY <2>1
  <2> HIDE DEF x, c
  <2>5. /\ chain'[0] \in [Heads -> Chain(0)]
        /\ \A i \in Heads : chain'[0][i].req = c[i].req
        /\ \A i \in Heads : i # h => chain'[0][i] = c[i]
    BY <1>5, <2>2, <2>3, <2>4
  <2> QED BY <2>1, <2>5 DEF c
<1>13. OnlyQueue(0)
  BY <1>2, <1>3, <1>5, <1>9, <1>10, <1>12 DEF OnlyQueue
<1> HIDE DEF h, next, r, p, filled, c
<1>14. Apart(drv'.free[0], Flight(Now, 0)')
  <2>1. Apart((drv.free[0] \cup {h}) \ {h}, Append(Tail(r) \o p, h))
    BY <1>5, ApartPost
  <2>2. (drv.free[0] \cup {h}) \ {h} = drv.free[0]
    BY <1>5
  <2>3. Tail(r) \in Seq(Heads)
    BY <1>5, <1>6, HeadTailProperties
  <2>4. Tail(r) \o Append(p, h) = Append(Tail(r) \o p, h)
    BY <1>5, <1>6, <2>3, ConcatParts
  <2>5. Flight(Now, 0)' = r' \o p'
    BY <1>1, ViewsNow DEF r, p
  <2> QED BY <1>8, <1>9, <1>11, <2>1, <2>2, <2>4, <2>5
<1>15. \A i \in Heads : i \notin drv'.free[0] => chain'[0][i].req \in Requests(0)
  <2>1. \A i \in Heads : i \notin drv.free[0] => chain[0][i].req \in Requests(0)
    BY Zenon, <1>1, KeptParts
  <2> QED BY <1>9, <1>12, <2>1 DEF c
<1>16. IoInv'
  BY Zenon, <1>1, <1>13, <1>14, <1>15, OneQueueKeeps
<1>17. FifoOf(Now)' = Tail(FifoOf(Now)) /\ FifoOf(Now) # << >>
  <2> DEFINE S == Answers(0) \cup {None}
             d == Data(c, r)
             w == dev.pending
  <2>1. c \in [Heads -> Chain(0)]
    BY <1>1, <1>2 DEF c
  <2>2. d \in Seq(S) /\ d # << >> /\ Data(c, Tail(r)) = Tail(d)
    BY <1>5, <1>6, <2>1, DataType, DataTail
  <2>3. w \in Seq(S)
    <3>1. Events \subseteq S
      BY <1>3 DEF Answers, IsInput
    <3> QED BY <1>2, <3>1 DEF Device
  <2>4. FifoOf(Now) = d \o w
    BY <1>3 DEF FifoOf, Now, c, r
  <2>5. FifoOf(Now)' = Data(chain'[0], r') \o w
    <3>1. IsInput'
      BY <1>3, KindFixed
    <3> QED BY <1>3, <3>1 DEF FifoOf, Now, r
  <2>6. Data(chain'[0], Tail(r)) = Data(c, Tail(r))
    <3>1. \A k \in 1 .. Len(Tail(r)) : Tail(r)[k] \in Heads /\ Tail(r)[k] # h
      <4>1. Apart(drv.free[0], r \o p)
        <5>1. Flight(Now, 0) = r \o p
          BY <1>1, ViewsNow DEF r, p
        <5> QED BY <1>1, <5>1, KeptParts
      <4> DEFINE t == Tail(r)
      <4>2. t \in Seq(Heads)
        BY <1>5, <1>6, HeadTailProperties
      <4> HIDE DEF t
      <4>3. /\ Len(t) \in Nat /\ Len(p) \in Nat /\ Len(t \o p) = Len(t) + Len(p)
            /\ \A k \in 1 .. Len(t) : t[k] \in Heads
        BY <1>6, <4>2, LenProperties, ConcatProperties, ElementOfSeq
      <4>4. \A k \in 1 .. Len(t) + Len(p) :
               (t \o p)[k] = IF k <= Len(t) THEN t[k] ELSE p[k - Len(t)]
        BY Zenon, <1>6, <4>2, ConcatProperties
      <4>5. \A k \in 1 .. Len(t) + Len(p) : (t \o p)[k] \notin drv.free[0] \cup {h}
        BY <1>5, <4>3 DEF Apart, t
      <4>6. \A k \in 1 .. Len(t) : k \in 1 .. Len(t) + Len(p) /\ k <= Len(t)
        BY <4>3
      <4>7. \A k \in 1 .. Len(t) : t[k] \in Heads /\ t[k] # h
        BY <4>3, <4>4, <4>5, <4>6
      <4> QED BY <4>7 DEF t
    <3>2. \A k \in 1 .. Len(Tail(r)) : chain'[0][Tail(r)[k]].data = c[Tail(r)[k]].data
      BY <1>12, <3>1
    <3> QED BY Zenon, <3>2, DataSame
  <2> HIDE DEF S, d, w
  <2>7. Tail(d \o w) = Tail(d) \o w /\ d \o w # << >>
    <3>1. Head(d) \in S
      BY <2>2, HeadTailProperties
    <3> QED BY <2>2, <2>3, <3>1, ConcatParts
  <2>8. FifoOf(Now)' = Tail(d) \o w
    BY <1>11, <2>2, <2>5, <2>6
  <2> QED BY <2>4, <2>7, <2>8
<1>18. Input!Receive
  <2>1. FifoOf(Now) = Fifo
    BY Zenon, <1>1, FifoNow
  <2>2. (FifoOf(Now) = Fifo)'
    <3>1. (Kept(Now) => FifoOf(Now) = Fifo)'
      BY FifoNow, PTL
    <3> QED BY <1>16, <3>1 DEF IoInv
  <2> QED BY <1>17, <2>1, <2>2 DEF Input!Receive
<1> QED BY <1>16, <1>18 DEF FifoStep, Input!Next

-----------------------------------------------------------------------------
(* Probing and resetting *)

(* A queue that is set up is a fresh one: nothing is posted or returned yet. *)
LEMMA SetUpQueueKeeps == ASSUME IoInv, SetUpQueue PROVE IoInv' /\ FifoStep
<1> DEFINE q == drv.setup
<1>1. Kept(Now) /\ Typed(Now) /\ Shown(Now) /\ GicInv(gic) /\ window \in Frame \cup {None}
  BY DEF IoInv, Kept
<1>2. /\ kind \in Kinds /\ drv \in Driver /\ mem \in Frame /\ dev \in Device
      /\ ring \in [Queues -> Ring] /\ flushed \in Ids \cup {None}
      /\ chain = [p \in Queues |-> chain[p]]
      /\ \A p \in Queues : chain[p] \in [Heads -> Chain(p)]
  BY Zenon, <1>1, TypedNow
<1>3. q \in 0 .. LastQueue /\ q \in Queues /\ Select(q) = q
  <2>1. q \in 0 .. LastQueue + 1 /\ ~ (q > LastQueue)
    BY <1>2 DEF SetUpQueue, Ready, Driver
  <2>2. CASE kind = "rng"
    BY <2>1, <2>2 DEF LastQueue, Select, Queues
  <2>3. CASE kind # "rng"
    <3>1. q \in 0 .. 1
      BY <2>1, <2>3 DEF LastQueue
    <3>2. Min({q, 1}) \in {q, 1} /\ Min({q, 1}) <= q /\ Min({q, 1}) <= 1
      <4>1. {q, 1} \subseteq Nat /\ {q, 1} # {}
        BY <3>1
      <4> QED BY <4>1, MinIs
    <3>3. Min({q, 1}) = q
      BY <3>1, <3>2
    <3> QED BY <2>1, <2>3, <3>1, <3>3 DEF LastQueue, Select, Queues
  <2> QED BY <2>2, <2>3
<1>4. /\ dev' = [dev EXCEPT !.queue_sel = q, !.queues[q].num = QueueNum, !.queues[q].ready = TRUE]
      /\ ring' = [ring EXCEPT ![q] = EmptyRing]
      /\ drv' = [drv EXCEPT !.setup = @ + 1, !.free[q] = Heads, !.last_used[q] = 0]
      /\ UNCHANGED <<kind, chain, mem, window, flushed, gic>>
  BY <1>3 DEF SetUpQueue
<1>5. /\ dev.queues[q] = VirtqDefault /\ ring[q] = EmptyRing
      /\ drv.last_used[q] = 0 /\ drv.free[q] = Heads
  BY <1>1, <1>2, <1>3, KeptParts DEF Driver
<1>6. /\ dev' \in Device /\ dev'.pending = dev.pending /\ dev'.gpu = dev.gpu
      /\ dev'.queues[q] = [dev.queues[q] EXCEPT !.num = QueueNum, !.ready = TRUE]
      /\ \A p \in Queues \ {q} : dev'.queues[p] = dev.queues[p]
  <2> HIDE DEF q
  <2>1. dev.queues \in [Queues -> Virtq]
    BY <1>2 DEF Device
  <2>2. [dev.queues[q] EXCEPT !.num = QueueNum, !.ready = TRUE] \in Virtq
    BY <1>3, <2>1 DEF Virtq
  <2> DEFINE new == [dev.queues EXCEPT ![q] = [dev.queues[q] EXCEPT !.num = QueueNum, !.ready = TRUE]]
  <2>3. /\ new \in [Queues -> Virtq] /\ new[q] = [dev.queues[q] EXCEPT !.num = QueueNum, !.ready = TRUE]
        /\ \A p \in Queues \ {q} : new[p] = dev.queues[p]
    BY <1>3, <2>1, <2>2
  <2>4. dev' = [dev EXCEPT !.queue_sel = q, !.queues = new]
    BY <1>2, <1>3, <1>4, <2>1 DEF Device, Virtq
  <2> HIDE DEF new
  <2>5. dev'.queues = new /\ dev'.pending = dev.pending /\ dev'.gpu = dev.gpu /\ dev' \in Device
    BY <1>2, <1>3, <2>3, <2>4 DEF Device
  <2> QED BY <2>3, <2>5
<1>7. /\ drv' \in Driver /\ drv'.setup = q + 1 /\ drv'.free = drv.free /\ drv'.last_used = drv.last_used
  <2>1. drv.free \in [Queues -> SUBSET Heads] /\ drv.last_used \in [Queues -> Idx]
    BY <1>2 DEF Driver
  <2>2. [drv.free EXCEPT ![q] = Heads] = drv.free /\ [drv.last_used EXCEPT ![q] = 0] = drv.last_used
    BY <1>5, <2>1
  <2>3. drv' = [drv EXCEPT !.setup = q + 1, !.free = drv.free, !.last_used = drv.last_used]
    <3>1. drv' = [drv EXCEPT !.setup = q + 1, !.free = [drv.free EXCEPT ![q] = Heads],
                             !.last_used = [drv.last_used EXCEPT ![q] = 0]]
      BY <1>4
    <3> QED BY <2>2, <3>1
  <2>4. LastQueue \in Nat /\ q + 1 \in 0 .. LastQueue + 1
    BY <1>3 DEF LastQueue
  <2> QED BY <1>2, <2>1, <2>3, <2>4 DEF Driver
<1>8. ring' = ring
  BY <1>2, <1>3, <1>4, <1>5
<1> HIDE DEF q
<1>9. Typed(Now)'
  <2>1. /\ chain' = [p \in Queues |-> chain'[p]]
        /\ \A p \in Queues : chain'[p] \in [Heads -> Chain(p)]
    BY <1>2, <1>4
  <2>2. ring' \in [Queues -> Ring] /\ mem' \in Frame /\ flushed' \in Ids \cup {None}
    BY <1>2, <1>4, <1>8
  <2> QED BY Zenon, <1>2, <1>4, <1>6, <1>7, <2>1, <2>2, TypedNext
<1>10. \A p \in Queues : /\ Posted(Now, p)' = Posted(Now, p) /\ Returned(Now, p)' = Returned(Now, p)
                         /\ Flight(Now, p)' = Flight(Now, p)
  <2>1. \A p \in Queues : dev'.queues[p].last_avail = dev.queues[p].last_avail
    <3>1. dev.queues[q] \in Virtq
      BY <1>2, <1>3 DEF Device
    <3>2. dev'.queues[q].last_avail = dev.queues[q].last_avail
      BY <1>6, <3>1 DEF Virtq
    <3> QED BY <1>6, <3>2
  <2>2. ring' = ring /\ drv'.last_used = drv.last_used
    BY <1>7, <1>8
  <2> QED BY Zenon, <2>1, <2>2, ViewsNow
<1>11. Kept(Now)'
  <2>1. /\ \A p \in Queues : Apart(drv.free[p], Flight(Now, p))
        /\ \A p \in Queues, h \in Heads : h \notin drv.free[p] => chain[p][h].req \in Requests(p)
        /\ \A p \in Queues :
              IF p < drv.setup THEN dev.queues[p].ready /\ dev.queues[p].num = QueueNum
              ELSE /\ dev.queues[p] = VirtqDefault /\ ring[p] = EmptyRing
                   /\ drv.last_used[p] = 0 /\ drv.free[p] = Heads
    BY Zenon, <1>1, KeptParts
  <2>2. \A p \in Queues : Apart(drv'.free[p], Flight(Now, p)')
    BY <1>7, <1>10, <2>1
  <2>3. \A p \in Queues, h \in Heads : h \notin drv'.free[p] => chain'[p][h].req \in Requests(p)
    BY <1>4, <1>7, <2>1
  <2>4. \A p \in Queues :
              IF p < drv'.setup THEN dev'.queues[p].ready /\ dev'.queues[p].num = QueueNum
              ELSE /\ dev'.queues[p] = VirtqDefault /\ ring'[p] = EmptyRing
                   /\ drv'.last_used[p] = 0 /\ drv'.free[p] = Heads
    <3>1. dev'.queues[q].ready /\ dev'.queues[q].num = QueueNum
      <4>1. dev.queues[q] = [ready |-> FALSE, num |-> 0, last_avail |-> 0]
        BY <1>5 DEF q, VirtqDefault
      <4> QED BY <1>6, <4>1
    <3>2. \A p \in Queues \ {q} : (p < drv'.setup) <=> (p < drv.setup)
      BY <1>3, <1>7 DEF q, Queues
    <3>3. q < drv'.setup
      BY <1>3, <1>7
    <3>4. ASSUME NEW p \in Queues
          PROVE  IF p < drv'.setup THEN dev'.queues[p].ready /\ dev'.queues[p].num = QueueNum
                 ELSE /\ dev'.queues[p] = VirtqDefault /\ ring'[p] = EmptyRing
                      /\ drv'.last_used[p] = 0 /\ drv'.free[p] = Heads
      <4>1. CASE p = q
        BY <3>1, <3>3, <4>1
      <4>2. CASE p # q
        BY <1>6, <1>7, <1>8, <2>1, <3>2, <4>2
      <4> QED BY <4>1, <4>2
    <3> QED BY <3>4
  <2> QED BY Zenon, <1>4, <1>9, <2>2, <2>3, <2>4, KeptNext
<1>12. Shown(Now)'
  BY <1>1, <1>4, <1>6 DEF Shown, ShownAs, Now
<1>13. FifoOf(Now)' = FifoOf(Now)
  <2>1. FifoOf(Now)' = (IF IsInput' THEN Data(chain'[0], Returned(Now, 0)') ELSE << >>) \o dev'.pending
    BY DEF FifoOf, Now
  <2>2. FifoOf(Now) = (IF IsInput THEN Data(chain[0], Returned(Now, 0)) ELSE << >>) \o dev.pending
    BY DEF FifoOf, Now
  <2>3. IsInput' = IsInput /\ chain' = chain /\ Returned(Now, 0)' = Returned(Now, 0) /\ dev'.pending = dev.pending
    BY <1>4, <1>6, <1>10, KindFixed DEF Queues
  <2> QED BY Zenon, <2>1, <2>2, <2>3
<1>14. FifoStep
  BY Zenon, <1>1, <1>11, <1>13, Stutters
<1> QED BY <1>1, <1>4, <1>11, <1>12, <1>14 DEF IoInv

(* All queues as after a reset: no chain is on its way.                     *)
LEMMA NothingInFlight ==
    ASSUME NEW q \in Queues
    PROVE  /\ ring'[q] = EmptyRing /\ dev'.queues[q].last_avail = 0 /\ drv'.last_used[q] = 0
                 => Flight(Now, q)' = << >> /\ Returned(Now, q)' = << >>
           /\ ring[q] = EmptyRing /\ dev.queues[q].last_avail = 0 /\ drv.last_used[q] = 0
                 => Flight(Now, q) = << >> /\ Returned(Now, q) = << >>
<1>1. /\ EmptyRing.avail_idx = 0 /\ EmptyRing.used_idx = 0
      /\ EmptyRing.avail \in [Heads -> Heads] /\ EmptyRing.used \in [Heads -> Heads]
  BY Sizes DEF EmptyRing
<1>2. View(EmptyRing.avail, 0, 0) = << >> /\ View(EmptyRing.used, 0, 0) = << >>
  BY <1>1, Sizes, ViewEmpty
<1>3. << >> \o << >> = << >>
  OBVIOUS
<1>4. ASSUME ring'[q] = EmptyRing, dev'.queues[q].last_avail = 0, drv'.last_used[q] = 0
      PROVE  Flight(Now, q)' = << >> /\ Returned(Now, q)' = << >>
  <2>1. Posted(Now, q)' = << >> /\ Returned(Now, q)' = << >>
    BY Zenon, <1>1, <1>2, <1>4, ViewsNow
  <2> QED BY Zenon, <1>3, <2>1, ViewsNow
<1>5. ASSUME ring[q] = EmptyRing, dev.queues[q].last_avail = 0, drv.last_used[q] = 0
      PROVE  Flight(Now, q) = << >> /\ Returned(Now, q) = << >>
  <2>1. Posted(Now, q) = << >> /\ Returned(Now, q) = << >>
    BY Zenon, <1>1, <1>2, <1>5, ViewsNow
  <2> QED BY Zenon, <1>3, <2>1, ViewsNow
<1> QED BY Zenon, <1>4, <1>5

LEMMA FreshTypes ==
    /\ EmptyRing \in Ring /\ VirtqDefault \in Virtq /\ << >> \in Seq(Events)
    /\ Gpu0 \in Display
    /\ NoChains = [q \in Queues |-> NoChains[q]]
    /\ \A q \in Queues : NoChains[q] \in [Heads -> Chain(q)]
<1>1. EmptyRing \in Ring
  BY Sizes DEF EmptyRing, Ring
<1>2. VirtqDefault \in Virtq
  BY Sizes DEF VirtqDefault, Virtq
<1>3. Gpu0 \in Display
  <2>1. << >> \in [{} -> Resource]
    OBVIOUS
  <2>2. << >> \in UNION {[I -> Resource] : I \in SUBSET Ids}
    BY <2>1
  <2> QED BY <2>2 DEF Gpu0, Display
<1>4. NoChains = [q \in Queues |-> NoChains[q]] /\ \A q \in Queues : NoChains[q] \in [Heads -> Chain(q)]
  <2>1. \A q \in Queues : NoChain \in Chain(q)
    BY DEF NoChain, Chain
  <2> QED BY <2>1 DEF NoChains
<1> QED BY <1>1, <1>2, <1>3, <1>4

(* A reset drops the events on their way, and only a reset does.            *)
LEMMA ResetKeeps == ASSUME IoInv, Reset PROVE IoInv' /\ FifoStep
<1>1. Kept(Now) /\ GicInv(gic) /\ window \in Frame \cup {None} /\ Irq \in Irqs
  BY IoAssumption DEF IoInv
<1>2. kind \in Kinds /\ drv \in Driver /\ mem \in Frame /\ dev \in Device
  BY Zenon, <1>1, TypedNow
<1>3. /\ dev' = DeviceReset(dev) /\ gic' = ClearPending(gic, Irq)
      /\ drv' = [drv EXCEPT !.setup = 0, !.kick = FALSE, !.free = [q \in Queues |-> Heads],
                            !.last_used = [q \in Queues |-> 0]]
      /\ ring' = [q \in Queues |-> EmptyRing] /\ chain' = NoChains /\ flushed' = None
      /\ UNCHANGED <<kind, mem, window>>
  BY DEF Reset
<1>4. /\ dev' \in Device /\ dev'.pending = << >>
      /\ dev'.queues = [q \in Queues |-> VirtqDefault]
  <2>1. dev.gpu \in Display
    BY <1>2 DEF Device, Display
  <2>2. [Gpu0 EXCEPT !.dirty = dev.gpu.dirty] \in Display
    BY <2>1, FreshTypes DEF Display
  <2>3. dev' = [dev EXCEPT !.queues = [q \in Queues |-> VirtqDefault], !.int_status = FALSE,
                           !.pending = << >>, !.notified = FALSE,
                           !.gpu = [Gpu0 EXCEPT !.dirty = dev.gpu.dirty]]
    BY <1>3 DEF DeviceReset
  <2> DEFINE g == [Gpu0 EXCEPT !.dirty = dev.gpu.dirty]
  <2> HIDE DEF g
  <2>4. g \in Display /\ dev' = [dev EXCEPT !.queues = [q \in Queues |-> VirtqDefault],
                           !.int_status = FALSE, !.pending = << >>, !.notified = FALSE, !.gpu = g]
    BY <2>2, <2>3 DEF g
  <2> QED BY <1>2, <2>4, FreshTypes DEF Device, Display
<1>5. /\ drv' \in Driver /\ drv'.setup = 0
      /\ \A q \in Queues : drv'.free[q] = Heads /\ drv'.last_used[q] = 0
  <2>1. 0 \in 0 .. LastQueue + 1 /\ 0 \in Idx
    BY Sizes DEF LastQueue
  <2> QED BY <1>2, <1>3, <2>1 DEF Driver
<1>6. Typed(Now)'
  <2>1. /\ chain' = [q \in Queues |-> chain'[q]]
        /\ \A q \in Queues : chain'[q] \in [Heads -> Chain(q)]
    BY Zenon, <1>3, FreshTypes
  <2>2. ring' \in [Queues -> Ring] /\ mem' \in Frame /\ flushed' \in Ids \cup {None}
    BY <1>2, <1>3, FreshTypes
  <2> QED BY Zenon, <1>2, <1>3, <1>4, <1>5, <2>1, <2>2, TypedNext
<1>7. \A q \in Queues : /\ dev'.queues[q] = VirtqDefault /\ dev'.queues[q].last_avail = 0
                        /\ ring'[q] = EmptyRing
  BY <1>3, <1>4 DEF VirtqDefault
<1>8. \A q \in Queues : Flight(Now, q)' = << >> /\ Returned(Now, q)' = << >>
  BY Zenon, <1>5, <1>7, NothingInFlight
<1>9. Kept(Now)'
  <2>1. \A q \in Queues : Apart(drv'.free[q], Flight(Now, q)')
    BY <1>5, <1>8, ApartEmpty
  <2>2. \A q \in Queues, h \in Heads : h \notin drv'.free[q] => chain'[q][h].req \in Requests(q)
    BY <1>5
  <2>3. \A q \in Queues :
           IF q < drv'.setup THEN dev'.queues[q].ready /\ dev'.queues[q].num = QueueNum
           ELSE /\ dev'.queues[q] = VirtqDefault /\ ring'[q] = EmptyRing
                /\ drv'.last_used[q] = 0 /\ drv'.free[q] = Heads
    BY <1>5, <1>7 DEF Queues
  <2> QED BY Zenon, <1>3, <1>6, <2>1, <2>2, <2>3, KeptNext
<1>10. Shown(Now)'
  BY <1>3 DEF Shown, ShownAs, Now
<1>11. GicInv(gic')
  BY <1>1, <1>3, LineInv
<1>12. Fifo' = << >>
  <2>1. FifoOf(Now)' = (IF IsInput' THEN Data(chain'[0], Returned(Now, 0)') ELSE << >>) \o dev'.pending
    BY DEF FifoOf, Now
  <2>2. Data(chain'[0], << >>) = << >>
    BY DEF Data
  <2>3. FifoOf(Now)' = << >>
    <3>1. Returned(Now, 0)' = << >>
      BY <1>8 DEF Queues
    <3>2. FifoOf(Now)' = (IF IsInput' THEN << >> ELSE << >>) \o << >>
      BY Zenon, <1>4, <2>1, <2>2, <3>1
    <3> QED BY <3>2
  <2>4. (Kept(Now) => FifoOf(Now) = Fifo)'
    BY FifoNow, PTL
  <2> QED BY <1>9, <2>3, <2>4
<1> QED BY <1>1, <1>3, <1>9, <1>10, <1>11, <1>12 DEF IoInv, FifoStep, Input!Next, Input!Reset

-----------------------------------------------------------------------------
(* All steps *)

LEMMA InitKeeps == ASSUME Init PROVE IoInv /\ Input!Init
<1>1. /\ kind \in Kinds
      /\ dev = [int_status |-> FALSE, queue_sel |-> 0, queues |-> [q \in Queues |-> VirtqDefault],
                pending |-> << >>, notified |-> FALSE, gpu |-> Gpu0]
      /\ ring = [q \in Queues |-> EmptyRing] /\ chain = NoChains
      /\ drv = [setup |-> 0, free |-> [q \in Queues |-> Heads], last_used |-> [q \in Queues |-> 0],
                kick |-> FALSE, handler |-> "none", seen |-> FALSE]
      /\ mem = [p \in Pages |-> 0] /\ window = None /\ flushed = None
  BY DEF Init
<1>2. dev \in Device
  BY <1>1, FreshTypes DEF Device, Display, Queues
<1>3. drv \in Driver
  <2>1. 0 \in 0 .. LastQueue + 1 /\ 0 \in Idx
    BY Sizes DEF LastQueue
  <2> QED BY <1>1, <2>1 DEF Driver
<1>4. mem \in Frame
  <2>1. 0 \in Drawings
    BY IoAssumption DEF Drawings
  <2> QED BY <1>1, <2>1 DEF Frame
<1>5. Typed(Now)
  <2>1. /\ chain = [q \in Queues |-> chain[q]]
        /\ \A q \in Queues : chain[q] \in [Heads -> Chain(q)]
    BY Zenon, <1>1, FreshTypes
  <2>2. ring \in [Queues -> Ring] /\ flushed \in Ids \cup {None}
    BY <1>1, FreshTypes
  <2> QED BY <1>1, <1>2, <1>3, <1>4, <2>1, <2>2 DEF Typed, Now
<1>6. \A q \in Queues : /\ dev.queues[q] = VirtqDefault /\ dev.queues[q].last_avail = 0
                        /\ ring[q] = EmptyRing /\ drv.free[q] = Heads /\ drv.last_used[q] = 0
  BY <1>1 DEF VirtqDefault
<1>7. \A q \in Queues : Flight(Now, q) = << >> /\ Returned(Now, q) = << >>
  BY Zenon, <1>6, NothingInFlight
<1>8. Kept(Now)
  <2>1. OneOwner(Now)
    BY <1>6, <1>7, ApartEmpty DEF OneOwner
  <2>2. Asked(Now)
    BY <1>6 DEF Asked
  <2>3. Probed(Now)
    <3>1. drv.setup = 0
      BY <1>1
    <3>2. \A q \in Queues : ~ (q < drv.setup)
      BY <3>1 DEF Queues
    <3> QED BY <1>6, <3>2 DEF Probed, Now
  <2> QED BY <1>5, <2>1, <2>2, <2>3 DEF Kept
<1>9. Shown(Now)
  BY <1>1 DEF Shown, ShownAs, Now
<1>10. GicInv(gic)
  <2>1. IdlePrio \in Prios /\ 0 \in Prios /\ << >> \in Seq(Prios)
    BY GicAssumption DEF Prios
  <2>2. /\ gic \in GicType /\ gic.pending = {} /\ gic.running = << >>
        /\ gic.cached_pending = None
    BY <2>1 DEF Init, GicReset, GicType
  <2>3. Coherent(gic) /\ StrictlyNested(gic)
    BY <2>2 DEF Coherent, StrictlyNested, ScanPending, ScanOf, Candidates
  <2> QED BY <2>2, <2>3 DEF GicInv
<1>11. Fifo = << >>
  <2>1. FifoOf(Now) = (IF IsInput THEN Data(chain[0], Returned(Now, 0)) ELSE << >>) \o dev.pending
    BY DEF FifoOf, Now
  <2>2. Data(chain[0], << >>) = << >>
    BY DEF Data
  <2>3. FifoOf(Now) = << >>
    <3>1. Returned(Now, 0) = << >> /\ dev.pending = << >>
      BY <1>1, <1>7 DEF Queues
    <3>2. FifoOf(Now) = (IF IsInput THEN << >> ELSE << >>) \o << >>
      BY Zenon, <2>1, <2>2, <3>1
    <3> QED BY <3>2
  <2> QED BY <1>8, <2>3, FifoNow
<1> QED BY <1>1, <1>8, <1>9, <1>10, <1>11 DEF IoInv, Input!Init

LEMMA StepKeeps == ASSUME IoInv, [Next]_vars PROVE IoInv' /\ FifoStep
<1>1. CASE Poll
  BY <1>1, PollKeeps
<1>2. CASE SetUpQueue
  BY <1>2, SetUpQueueKeeps
<1>3. ASSUME NEW q \in Queues, Post(q) PROVE IoInv' /\ FifoStep
  BY <1>3, PostKeeps
<1>4. CASE Reset
  BY <1>4, ResetKeeps
<1>5. CASE Notify \/ Draw
  BY <1>5, QuietKeeps
<1>6. CASE Handler
  <2>1. CASE CollectEvent
    BY <2>1, CollectEventKeeps
  <2>2. CASE CollectOther
    BY <2>2, CollectOtherKeeps
  <2>3. CASE TakeIrq \/ ReadStatus \/ WriteAck \/ WriteEoi
    BY <2>3, QuietKeeps
  <2> QED BY <1>6, <2>1, <2>2, <2>3 DEF Handler
<1>7. CASE Host
  BY <1>7, HostInputKeeps, HostFrameKeeps DEF Host
<1>8. CASE UNCHANGED vars
  <2>1. IoInv'
    BY <1>8 DEF vars, IoInv, Kept, Typed, Asked, Probed, OneOwner, Shown, ShownAs, Now, Flight,
                Posted, Returned, Driver, LastQueue, Chain, Requests, Answers
  <2>2. Fifo' = Fifo
    BY <1>8 DEF vars, Fifo, IsInput, Uncollected, UsedHead
  <2> QED BY <2>1, <2>2 DEF FifoStep
<1> QED BY <1>1, <1>2, <1>3, <1>4, <1>5, <1>6, <1>7, <1>8 DEF Next

-----------------------------------------------------------------------------
(* The results *)

\* The devices, their drivers and the controller keep the invariant.
THEOREM DeviceKeepsInvariant == Spec => []IoInv
<1>1. Init => IoInv
  BY InitKeeps
<1>2. IoInv /\ [Next]_vars => IoInv'
  BY StepKeeps
<1> QED BY <1>1, <1>2, PTL DEF Spec

\* Indices stay u16, whichever way the queues wrap; the rings hold heads; every
\* chain in flight asks what its queue is for, and comes back with an answer to it.
THEOREM TypeCorrect == Spec => []TypeOK
<1>1. IoInv => TypeOK
  <2> SUFFICES ASSUME IoInv PROVE TypeOK
    OBVIOUS
  <2>1. Kept(Now) /\ gic \in GicType /\ window \in Frame \cup {None}
    BY DEF IoInv, GicInv
  <2>2. /\ kind \in Kinds /\ drv \in Driver /\ mem \in Frame
        /\ dev \in Device /\ ring \in [Queues -> Ring] /\ flushed \in Ids \cup {None}
        /\ \A q \in Queues : chain[q] \in [Heads -> Chain(q)]
        /\ \A q \in Queues, h \in Heads : h \notin drv.free[q] => chain[q][h].req \in Requests(q)
    BY Zenon, <2>1, TypedNow, KeptParts
  <2> QED BY <2>1, <2>2 DEF TypeOK
<1> QED BY <1>1, DeviceKeepsInvariant, PTL

\* A frame that was flushed and taken is the one on show, whatever commands a
\* poll ran after the flush and whichever resources came and went.
THEOREM WindowIsCurrent == Spec => []WindowCurrent
<1>1. IoInv => WindowCurrent
  BY DEF IoInv, Shown, ShownAs, Now, WindowCurrent
<1> QED BY <1>1, DeviceKeepsInvariant, PTL

\* Every head of a queue is free, posted or returned, and one of these once: the
\* device loses no chain and serves none twice, and the driver reuses none that is
\* still on its way, while the indices wrap.
THEOREM ChainsHaveOneOwner == Spec => [](\A q \in Queues : Apart(drv.free[q], Flight(Now, q)))
<1>1. IoInv => \A q \in Queues : Apart(drv.free[q], Flight(Now, q))
  BY KeptParts DEF IoInv
<1> QED BY <1>1, DeviceKeepsInvariant, PTL

\* An event injected reaches the guest once, in order, and its SYN after it: a
\* poll moves events from the device to the used ring and reorders none.
THEOREM InputImplementsFifo == Spec => ImplementsEventFifo
<1>1. Init => Input!Init
  BY InitKeeps
<1>2. IoInv /\ [Next]_vars => [Input!Next]_Fifo
  BY StepKeeps DEF FifoStep
<1> QED BY <1>1, <1>2, DeviceKeepsInvariant, PTL DEF Spec, ImplementsEventFifo, Input!Spec
=============================================================================
