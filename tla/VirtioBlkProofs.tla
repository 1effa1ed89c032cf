--------------------------- MODULE VirtioBlkProofs ---------------------------
(***************************************************************************)
(* Machine-checked proofs about the block device and its driver, for every *)
(* disk, every size of the queue and every width of its indices: what it   *)
(* keeps, that no chain has two owners, and that it implements BlockQueue. *)
(***************************************************************************)
EXTENDS VirtioBlk, GicProofs, FiniteSetTheorems

-----------------------------------------------------------------------------
(* One request *)

Disks == UNION {[D -> Blocks] : D \in SUBSET Sectors}
Memory == [dev: Dev, chain: [Heads -> Chain], ring: Ring]

LEMMA Indices ==
    /\ \A i \in Int : i % QueueNum \in Slots /\ i % IdxMod \in Idx
    /\ 0 \in Idx /\ (\A i \in Idx : i \in Nat /\ i \in Int) /\ QueueNum \in Nat \ {0} /\ IdxMod \in Nat \ {0}
BY BlkAssumption DEF Slots, Idx

LEMMA HandleRequestType ==
    ASSUME NEW disk \in Disks, NEW c \in Chain
    PROVE  HandleRequest(disk, c).disk \in Disks /\ HandleRequest(disk, c).chain \in Chain
<1>1. PICK D \in SUBSET Sectors : disk \in [D -> Blocks]
  BY DEF Disks
<1>2. /\ c.type \in {"in", "out", "other"} /\ c.sector \in Sectors /\ c.data \in Blocks
      /\ Zero \in Blocks
  BY BlkAssumption DEF Chain
<1>3. CASE c.type = "in"
  <2>1. (IF c.sector \in DOMAIN disk THEN disk[c.sector] ELSE Zero) \in Blocks
    BY <1>1, <1>2
  <2> QED BY <1>3, <2>1 DEF HandleRequest, Chain
<1>4. CASE c.type = "out"
  <2>1. [disk EXCEPT ![c.sector] = c.data] \in [D -> Blocks]
    BY <1>1, <1>2
  <2>2. [disk EXCEPT ![c.sector] = c.data] \in Disks
    BY <2>1 DEF Disks
  <2> QED BY <1>4, <2>2 DEF HandleRequest, Chain
<1>5. CASE c.type = "other"
  BY <1>5 DEF HandleRequest, Chain
<1> QED BY <1>2, <1>3, <1>4, <1>5

LEMMA PushUsedType ==
    ASSUME NEW r \in Ring, NEW head \in Heads
    PROVE  PushUsed(r, head) \in Ring
<1>1. r.used_idx \in Idx /\ r.used_idx \in Int
  <2>1. r.used_idx \in Idx
    BY DEF Ring
  <2> QED BY Zenon, <2>1, Indices
<1>2. r.used_idx % QueueNum \in Slots /\ (r.used_idx + 1) % IdxMod \in Idx
  BY <1>1, Indices
<1> QED BY <1>2 DEF PushUsed, Ring

LEMMA ServeOneType ==
    ASSUME NEW s \in Memory, NEW head \in Heads
    PROVE  ServeOne(s, head) \in Memory
<1> DEFINE result == HandleRequest(s.dev.disk, s.chain[head])
<1>1. s.dev \in Dev /\ s.chain \in [Heads -> Chain] /\ s.ring \in Ring
  BY DEF Memory
<1>2. s.dev.disk \in Disks /\ s.dev.last_avail \in Idx /\ s.dev.last_avail \in Int
  <2>1. s.dev.disk \in Disks /\ s.dev.last_avail \in Idx
    BY <1>1 DEF Dev, Disks
  <2> QED BY Zenon, <2>1, Indices
<1>3. result.disk \in Disks /\ result.chain \in Chain
  BY <1>1, <1>2, HandleRequestType
<1>4. (s.dev.last_avail + 1) % IdxMod \in Idx
  BY <1>2, Indices
<1> HIDE DEF result
<1>5. [s.dev EXCEPT !.disk = result.disk, !.last_avail = (@ + 1) % IdxMod] \in Dev
  BY <1>1, <1>3, <1>4 DEF Dev, Disks
<1>6. [s.chain EXCEPT ![head] = result.chain] \in [Heads -> Chain]
  BY <1>1, <1>3
<1>7. PushUsed(s.ring, head) \in Ring
  BY <1>1, PushUsedType
<1> QED BY <1>5, <1>6, <1>7 DEF ServeOne, Memory, result
(* The loop of `process` is well defined and keeps the types: the function  *)
(* that Served describes exists.                                            *)
LEMMA ServedType ==
    ASSUME TypeOK, NEW heads \in Seq(Heads)
    PROVE  /\ Served(heads) \in [0 .. Len(heads) -> Memory]
           /\ Served(heads)[0] = [dev |-> dev, chain |-> chain, ring |-> ring]
           /\ \A k \in 1 .. Len(heads) :
                 Served(heads)[k] = ServeOne(Served(heads)[k - 1], heads[k])
<1> DEFINE n == Len(heads)
           base == [dev |-> dev, chain |-> chain, ring |-> ring]
           Turn(f, k) == IF k = 0 THEN base ELSE ServeOne(f[k - 1], heads[k])
           Runs(m) == {f \in [0 .. m -> Memory] : \A k \in 0 .. m : f[k] = Turn(f, k)}
           S == {m \in 0 .. n : Runs(m) # {}}
<1>1. n \in Nat /\ base \in Memory /\ \A k \in 1 .. n : heads[k] \in Heads
  BY DEF TypeOK, Memory
<1> HIDE DEF n, base
<1>2. 0 \in S
  <2> DEFINE f == [k \in 0 .. 0 |-> base]
  <2>1. f \in [0 .. 0 -> Memory] /\ \A k \in 0 .. 0 : f[k] = Turn(f, k)
    BY <1>1
  <2>2. f \in Runs(0) /\ 0 \in 0 .. n
    BY <1>1, <2>1
  <2> QED BY Zenon, <2>2
<1>3. ASSUME NEW m \in 0 .. n - 1, m \in S PROVE m + 1 \in S
  <2>1. PICK f \in [0 .. m -> Memory] : \A k \in 0 .. m : f[k] = Turn(f, k)
    BY <1>3
  <2> DEFINE g == [k \in 0 .. m + 1 |-> IF k = m + 1 THEN ServeOne(f[m], heads[m + 1]) ELSE f[k]]
  <2>2. m \in Nat /\ m + 1 \in 0 .. n /\ m + 1 \in 1 .. n /\ m \in 0 .. m
    BY <1>1
  <2>3. ServeOne(f[m], heads[m + 1]) \in Memory
    BY <1>1, <2>2, ServeOneType
  <2>4. g \in [0 .. m + 1 -> Memory]
    BY <2>2, <2>3
  <2>5. ASSUME NEW k \in 0 .. m + 1 PROVE g[k] = Turn(g, k)
    <3>1. CASE k = m + 1
      <4>1. k # 0 /\ k - 1 = m /\ m \in 0 .. m + 1 /\ m # m + 1
        BY <2>2, <3>1
      <4>2. g[k - 1] = f[m]
        BY <4>1
      <4>3. g[k] = ServeOne(f[m], heads[m + 1])
        BY <3>1
      <4> QED BY <3>1, <4>1, <4>2, <4>3
    <3>2. CASE k # m + 1
      <4>1. k \in 0 .. m /\ (k # 0 => k - 1 \in 0 .. m + 1 /\ k - 1 # m + 1)
        BY <2>2, <3>2
      <4>2. g[k] = f[k] /\ (k # 0 => g[k - 1] = f[k - 1])
        BY <2>2, <3>2, <4>1
      <4> HIDE DEF g
      <4> QED BY <2>1, <4>1, <4>2
    <3> QED BY <3>1, <3>2
  <2> HIDE DEF g
  <2>6. g \in Runs(m + 1)
    BY <2>4, <2>5
  <2> QED BY <2>2, <2>6
<1>4. n \in S
  <2>1. 0 .. n \subseteq S
    <3> HIDE DEF S
    <3> QED BY <1>1, <1>2, <1>3, UpTo
  <2>2. n \in 0 .. n
    BY <1>1
  <2> HIDE DEF S
  <2> QED BY <2>1, <2>2
<1>5. PICK f \in [0 .. n -> Memory] : \A k \in 0 .. n : f[k] = Turn(f, k)
  BY <1>4
<1> DEFINE run == CHOOSE h : h = [k \in 0 .. n |-> Turn(h, k)]
<1>6. f = [k \in 0 .. n |-> Turn(f, k)]
  BY <1>5
<1>7. run = [k \in 0 .. n |-> Turn(run, k)]
  <2> HIDE DEF Turn
  <2> QED BY Zenon, <1>6
<1>8. Served(heads) = run
  BY Zenon DEF Served, n, base
<1> HIDE DEF run
<1>9. \A k \in 0 .. n : run[k] = Turn(run, k)
  <2> HIDE DEF Turn
  <2> QED BY Zenon, <1>7
<1> DEFINE Good == {k \in 0 .. n : run[k] \in Memory}
<1>10. 0 \in Good
  BY <1>1, <1>9
<1>11. ASSUME NEW k \in 0 .. n - 1, k \in Good PROVE k + 1 \in Good
  <2>1. k + 1 \in 0 .. n /\ k + 1 \in 1 .. n /\ k + 1 # 0 /\ (k + 1) - 1 = k
    BY <1>1
  <2>2. run[k + 1] = ServeOne(run[k], heads[k + 1])
    BY <1>9, <2>1
  <2>3. ServeOne(run[k], heads[k + 1]) \in Memory
    BY <1>1, <1>11, <2>1, ServeOneType
  <2> QED BY <2>1, <2>2, <2>3
<1>12. 0 .. n \subseteq Good
  <2> HIDE DEF Good
  <2> QED BY <1>1, <1>10, <1>11, UpTo
<1>13. run \in [0 .. n -> Memory]
  <2> HIDE DEF Turn
  <2> QED BY <1>7, <1>12
<1>14. run[0] = base /\ \A k \in 1 .. n : run[k] = ServeOne(run[k - 1], heads[k])
  BY <1>1, <1>9
<1> QED BY <1>8, <1>13, <1>14 DEF n, base
-----------------------------------------------------------------------------
(* The inductive invariant *)

Inv == TypeOK /\ GicInv(gic) /\ CompletionSignalled

LEMMA InitInv == ASSUME Init PROVE Inv
<1>1. EmptyRing \in Ring /\ [h \in Heads |-> FreeChain] \in [Heads -> Chain]
  <2>1. AnyHead \in Heads /\ FreeChain.sector \in Sectors
    BY BlkAssumption DEF AnyHead, FreeChain
  <2> QED BY <2>1, Indices, BlkAssumption DEF EmptyRing, Ring, FreeChain, Chain
<1>2. dev \in Dev
  <2>1. Disk0 \in UNION {[D -> Blocks] : D \in SUBSET Sectors}
    BY BlkAssumption
  <2> QED BY <2>1, Indices DEF Init, Dev
<1>3. drv \in Drv
  BY Indices DEF Init, Drv, HandlerSteps
<1>4. GicInv(gic)
  <2>1. IdlePrio \in Prios /\ 0 \in Prios /\ << >> \in Seq(Prios)
    BY GicAssumption DEF Prios
  <2>2. /\ gic \in GicType /\ gic.pending = {} /\ gic.running = << >>
        /\ gic.cached_pending = None
    BY <2>1 DEF Init, GicReset, GicType
  <2>3. Coherent(gic) /\ StrictlyNested(gic)
    BY <2>2 DEF Coherent, StrictlyNested, ScanPending, ScanOf, Candidates
  <2> QED BY <2>2, <2>3 DEF GicInv
<1>5. TypeOK
  BY <1>1, <1>2, <1>3, <1>4 DEF Init, TypeOK, GicInv
<1>6. CompletionSignalled
  BY DEF Init, CompletionSignalled
<1> QED BY <1>4, <1>5, <1>6 DEF Inv

(* What is collected leaves nothing outstanding.                            *)
LEMMA NoneOutstanding ==
    ASSUME NEW i \in Idx
    PROVE  (i - i) % IdxMod = 0
BY Indices

LEMMA PollInv == ASSUME Inv, Poll PROVE Inv'
<1>1. Irq \in Irqs /\ GicInv(gic)
  BY BlkAssumption DEF Inv
<1>2. CASE PollNothing
  <2>1. dev' = [dev EXCEPT !.notified = FALSE] /\ UNCHANGED <<ring, chain, drv, gic>>
    BY <1>2 DEF PollNothing
  <2>2. dev' \in Dev /\ dev'.queue_ready = dev.queue_ready /\ dev'.int_status = dev.int_status
    BY <2>1 DEF Inv, TypeOK, Dev
  <2> QED BY <2>1, <2>2 DEF Inv, TypeOK, CompletionSignalled, Outstanding
<1>3. CASE PollBatch
  <2>1. Batch \in Seq(Heads)
    <3>1. Backlog \in Nat
      BY Indices DEF Inv, TypeOK, Dev, Ring, Backlog
    <3>2. ASSUME NEW k \in 1 .. Backlog
          PROVE  ring.avail[(dev.last_avail + k - 1) % QueueNum] \in Heads
      <4>1. dev.last_avail \in Idx /\ ring.avail \in [Slots -> Heads]
        BY DEF Inv, TypeOK, Dev, Ring
      <4>2. dev.last_avail + k - 1 \in Int
        <5>1. dev.last_avail \in Int
          BY Zenon, <4>1, Indices
        <5> QED BY <3>1, <5>1
      <4> QED BY <4>1, <4>2, Indices
    <3>3. Batch \in [1 .. Backlog -> Heads]
      BY <3>2 DEF Batch
    <3> QED BY <3>1, <3>3
  <2> DEFINE s == Served(Batch)[Len(Batch)]
  <2>2. /\ dev' = [s.dev EXCEPT !.notified = FALSE, !.int_status = TRUE]
        /\ chain' = s.chain /\ ring' = s.ring /\ drv' = drv /\ gic' = SetPending(gic, Irq)
    BY Zenon, <1>3 DEF PollBatch, EndBatch
  <2>3. s \in Memory
    <3>1. Len(Batch) \in 0 .. Len(Batch)
      BY <2>1
    <3> QED BY Zenon, <2>1, <3>1, ServedType DEF Inv
  <2> HIDE DEF s
  <2>4. dev' \in Dev /\ dev'.int_status = TRUE /\ chain' \in [Heads -> Chain] /\ ring' \in Ring
    BY <2>2, <2>3 DEF Memory, Dev
  <2>5. GicInv(gic') /\ Irq \in gic'.pending
    <3>1. GicInv(SetPending(gic, Irq))
      BY <1>1, LineInv
    <3>2. Irq \in SetPending(gic, Irq).pending
      BY <1>1 DEF SetPending, Recompute, GicInv, GicType
    <3> QED BY <2>2, <3>1, <3>2
  <2>6. TypeOK'
    BY <2>2, <2>4, <2>5 DEF Inv, TypeOK, GicInv
  <2> QED BY <2>4, <2>5, <2>6 DEF Inv, CompletionSignalled
<1> QED BY <1>2, <1>3 DEF Poll

LEMMA DriverInv == ASSUME Inv, Probe \/ WriteSlot \/ Publish \/ Notify PROVE Inv'
<1>1. /\ AnyHead \in Heads /\ FreeChain \in Chain
      /\ dev \in Dev /\ ring \in Ring /\ chain \in [Heads -> Chain] /\ drv \in Drv
      /\ gic' = gic
  BY BlkAssumption DEF Inv, TypeOK, AnyHead, FreeChain, Chain, Probe, WriteSlot, Publish, Notify
<1>2. CASE Probe
  <2>1. ring' \in Ring /\ chain' \in [Heads -> Chain] /\ ring'.used_idx = 0
    BY <1>1, <1>2, Indices DEF Probe, EmptyRing, Ring
  <2>2. dev' \in Dev
    BY <1>1, <1>2 DEF Probe, Dev
  <2>3. drv' \in Drv /\ drv'.last_used = 0
    BY <1>1, <1>2, Indices DEF Probe, Drv
  <2>4. Outstanding' = 0
    BY <2>1, <2>3, Indices, NoneOutstanding DEF Outstanding
  <2> QED BY <1>1, <2>1, <2>2, <2>3, <2>4 DEF Inv, TypeOK, CompletionSignalled
<1>3. CASE WriteSlot
  <2>1. PICK h \in drv.free, type \in {"in", "out", "other"}, sector \in Sectors, data \in Blocks :
          /\ type # "out" => data = Zero
          /\ type = "other" => sector = FreeChain.sector
          /\ chain' = [chain EXCEPT ![h] = [type |-> type, sector |-> sector,
                                            data |-> data, status |-> "none"]]
          /\ ring' = [ring EXCEPT !.avail[ring.avail_idx % QueueNum] = h]
          /\ drv' = [drv EXCEPT !.free = @ \ {h}, !.posting = TRUE]
    BY Zenon, <1>3 DEF WriteSlot
  <2>5. dev' = dev
    BY <1>3 DEF WriteSlot
  <2>2. h \in Heads /\ chain' \in [Heads -> Chain]
    BY <1>1, <2>1 DEF Drv, Chain
  <2>3. ring' \in Ring /\ ring'.used_idx = ring.used_idx
    BY <1>1, <2>1, <2>2 DEF Ring
  <2>4. /\ drv' \in Drv /\ drv'.last_used = drv.last_used /\ drv'.handler = drv.handler
        /\ drv'.seen = drv.seen
    BY <1>1, <2>1 DEF Drv
  <2> QED BY <1>1, <2>2, <2>3, <2>4, <2>5 DEF Inv, TypeOK, CompletionSignalled, Outstanding
<1>4. CASE Publish
  <2>1. (ring.avail_idx + 1) % IdxMod \in Idx
    BY <1>1, Indices DEF Ring
  <2>2. ring' \in Ring /\ ring'.used_idx = ring.used_idx
    BY <1>1, <1>4, <2>1 DEF Publish, Ring
  <2>3. /\ drv' \in Drv /\ drv'.last_used = drv.last_used /\ drv'.handler = drv.handler
        /\ drv'.seen = drv.seen
    BY <1>1, <1>4 DEF Publish, Drv
  <2> QED BY <1>1, <1>4, <2>2, <2>3 DEF Publish, Inv, TypeOK, CompletionSignalled, Outstanding
<1>5. CASE Notify
  <2>1. /\ drv' \in Drv /\ drv'.last_used = drv.last_used /\ drv'.handler = drv.handler
        /\ drv'.seen = drv.seen
    BY <1>1, <1>5 DEF Notify, Drv
  <2>2. dev' \in Dev /\ dev'.queue_ready = dev.queue_ready /\ dev'.int_status = dev.int_status
    BY <1>1, <1>5 DEF Notify, Dev
  <2> QED BY <1>1, <1>5, <2>1, <2>2 DEF Notify, Inv, TypeOK, CompletionSignalled, Outstanding
<1> QED BY <1>2, <1>3, <1>4, <1>5

LEMMA ResetInvDev == ASSUME Inv, Reset PROVE Inv'
<1>1. /\ dev' = DeviceReset(dev) /\ gic' = ClearPending(gic, Irq)
      /\ drv' = [drv EXCEPT !.kick = FALSE] /\ UNCHANGED <<ring, chain>>
  BY DEF Reset
<1>2. dev' \in Dev /\ dev'.queue_ready = FALSE
  BY <1>1, Indices DEF DeviceReset, Inv, TypeOK, Dev
<1>3. drv' \in Drv
  BY <1>1 DEF Inv, TypeOK, Drv
<1>4. GicInv(gic')
  BY <1>1, LineInv, BlkAssumption DEF Inv
<1> QED BY <1>1, <1>2, <1>3, <1>4 DEF Inv, TypeOK, CompletionSignalled, GicInv

-----------------------------------------------------------------------------
(* The handler *)

(* A move of the handler that the device does not notice.                   *)
LEMMA MovesOn ==
    ASSUME Inv, NEW from \in HandlerSteps, NEW to \in HandlerSteps, Step(from, to)
    PROVE  /\ drv' \in Drv /\ drv.handler = from /\ drv'.handler = to
           /\ drv'.last_used = drv.last_used /\ drv'.seen = drv.seen
BY DEF Inv, TypeOK, Drv, Step

LEMMA ReadIarInv == ASSUME Inv, ReadIar PROVE Inv'
<1> DEFINE to == IF IarValue(gic) = Irq THEN "status" ELSE "none"
<1>1. Step("iar", to) /\ gic' = Acknowledge(gic) /\ UNCHANGED <<dev, ring, chain>>
  BY DEF ReadIar
<1>2. /\ drv' \in Drv /\ drv.handler = "iar" /\ drv'.handler = to
      /\ drv'.last_used = drv.last_used
  <2>1. "iar" \in HandlerSteps /\ to \in HandlerSteps
    BY DEF HandlerSteps
  <2> QED BY Zenon, <1>1, <2>1, MovesOn
<1>3. GicInv(gic) /\ GicInv(gic')
  BY <1>1, AcknowledgeInv DEF Inv
<1>4. Irq \in gic.pending => Irq \in gic'.pending \/ to = "status"
  <2>1. CASE Passes(gic)
    <3>1. gic'.pending = gic.pending \ {gic.cached_pending.id}
      BY <1>1, <1>3, <2>1, AcknowledgeFacts
    <3> QED BY <2>1, <3>1 DEF IarValue
  <2>2. CASE ~ Passes(gic)
    BY <1>1, <2>2 DEF Acknowledge
  <2> QED BY <2>1, <2>2
<1>5. CompletionSignalled'
  <2>1. (dev.queue_ready /\ Outstanding # 0) => dev.int_status /\ Irq \in gic.pending
    BY <1>2 DEF Inv, CompletionSignalled
  <2>2. Outstanding' = Outstanding
    BY <1>1, <1>2 DEF Outstanding
  <2> QED BY <1>1, <1>2, <1>4, <2>1, <2>2 DEF CompletionSignalled
<1> QED BY <1>1, <1>2, <1>3, <1>5 DEF Inv, TypeOK, GicInv

LEMMA ReadStatusInv == ASSUME Inv, ReadStatus PROVE Inv'
<1>1. /\ drv.handler = "status" /\ UNCHANGED <<dev, ring, chain, gic>>
      /\ drv' = [drv EXCEPT !.handler = "ack", !.seen = dev.int_status]
  BY DEF ReadStatus
<1>2. drv \in Drv /\ dev \in Dev
  BY DEF Inv, TypeOK
<1>3. drv' \in Drv
  BY <1>1, <1>2 DEF Drv, Dev, HandlerSteps
<1>4. /\ drv'.handler = "ack" /\ drv'.seen = dev.int_status
      /\ drv'.last_used = drv.last_used
  BY <1>1, <1>2 DEF Drv
<1>5. CompletionSignalled'
  <2>1. (dev.queue_ready /\ Outstanding # 0) => dev.int_status
    BY <1>1 DEF Inv, CompletionSignalled
  <2>2. Outstanding' = Outstanding
    BY <1>1, <1>4 DEF Outstanding
  <2> QED BY <1>1, <1>4, <2>1, <2>2 DEF CompletionSignalled
<1> QED BY <1>1, <1>3, <1>5 DEF Inv, TypeOK

LEMMA WriteAckInv == ASSUME Inv, WriteAck PROVE Inv'
<1> DEFINE to == IF drv.seen THEN "collect" ELSE "eoi"
           status == dev.int_status /\ ~ drv.seen
<1>1. /\ Step("ack", to) /\ UNCHANGED <<ring, chain>>
      /\ dev' = [dev EXCEPT !.int_status = status]
      /\ gic' = IF status THEN gic ELSE ClearPending(gic, Irq)
  BY DEF WriteAck, InterruptAck
<1>2. /\ drv' \in Drv /\ drv.handler = "ack" /\ drv'.handler = to
      /\ drv'.last_used = drv.last_used
  <2>1. "ack" \in HandlerSteps /\ to \in HandlerSteps
    BY DEF HandlerSteps
  <2> QED BY Zenon, <1>1, <2>1, MovesOn
<1>3. dev \in Dev /\ status \in BOOLEAN
  BY DEF Inv, TypeOK
<1>4. dev' \in Dev /\ dev'.queue_ready = dev.queue_ready /\ dev'.int_status = status
  <2> HIDE DEF status
  <2> QED BY <1>1, <1>3 DEF Dev
<1>5. GicInv(gic')
  BY <1>1, LineInv, BlkAssumption DEF Inv
<1>6. CompletionSignalled'
  <2>1. (dev.queue_ready /\ Outstanding # 0) => drv.seen \/ (dev.int_status /\ Irq \in gic.pending)
    BY <1>2 DEF Inv, CompletionSignalled
  <2>2. Outstanding' = Outstanding
    BY <1>1, <1>2 DEF Outstanding
  <2> QED BY <1>1, <1>2, <1>4, <2>1, <2>2 DEF CompletionSignalled
<1> QED BY <1>1, <1>2, <1>4, <1>5, <1>6 DEF Inv, TypeOK, GicInv

LEMMA CollectInv == ASSUME Inv, CollectOne \/ CollectedAll PROVE Inv'
<1>1. dev \in Dev /\ ring \in Ring /\ chain \in [Heads -> Chain] /\ drv \in Drv
  BY DEF Inv, TypeOK
<1>2. CASE CollectOne
  <2> DEFINE h == ring.used[drv.last_used % QueueNum]
  <2>1. /\ drv.handler = "collect" /\ UNCHANGED <<dev, ring, gic>>
        /\ drv' = [drv EXCEPT !.free = @ \cup {h}, !.last_used = (@ + 1) % IdxMod]
        /\ chain' = [chain EXCEPT ![h] = FreeChain]
    BY <1>2 DEF CollectOne
  <2>2. drv.last_used \in Idx /\ drv.last_used % QueueNum \in Slots
        /\ (drv.last_used + 1) % IdxMod \in Idx
    BY <1>1, Indices DEF Drv
  <2>3. h \in Heads /\ FreeChain \in Chain
    BY <1>1, <2>2, BlkAssumption DEF Ring, FreeChain, Chain
  <2> HIDE DEF h
  <2>4. drv' \in Drv /\ drv'.handler = "collect"
    BY <1>1, <2>1, <2>2, <2>3 DEF Drv
  <2>5. chain' \in [Heads -> Chain]
    BY <1>1, <2>1, <2>3
  <2> QED BY <2>1, <2>4, <2>5 DEF Inv, TypeOK, CompletionSignalled
<1>3. CASE CollectedAll
  <2>1. /\ Step("collect", "eoi") /\ drv.last_used = ring.used_idx
        /\ UNCHANGED <<dev, ring, chain, gic>>
    BY <1>3 DEF CollectedAll
  <2>2. drv' \in Drv /\ drv'.last_used = ring.used_idx
    BY <2>1, MovesOn DEF HandlerSteps
  <2>3. Outstanding' = 0
    BY <1>1, <2>1, <2>2, NoneOutstanding DEF Outstanding, Ring
  <2> QED BY <2>1, <2>2, <2>3 DEF Inv, TypeOK, CompletionSignalled
<1> QED BY <1>2, <1>3

LEMMA TakeAndEndInv == ASSUME Inv, TakeIrq \/ WriteEoi PROVE Inv'
<1>1. /\ Step("none", "iar") \/ Step("eoi", "none")
      /\ UNCHANGED <<dev, ring, chain>>
      /\ gic' = gic \/ gic' = EndOfInterrupt(gic, Irq)
  BY DEF TakeIrq, WriteEoi
<1>2. /\ drv' \in Drv /\ drv.handler \in {"none", "eoi"}
      /\ drv'.last_used = drv.last_used
  BY <1>1, MovesOn DEF HandlerSteps
<1>3. GicInv(gic') /\ gic'.pending = gic.pending
  <2>1. GicInv(gic) /\ gic \in GicType
    BY DEF Inv, GicInv
  <2>2. GicInv(EndOfInterrupt(gic, Irq))
    BY <2>1, EndOfInterruptInv
  <2>3. EndOfInterrupt(gic, Irq).pending = gic.pending
    BY <2>1 DEF EndOfInterrupt, GicType
  <2> QED BY <1>1, <2>1, <2>2, <2>3
<1>4. CompletionSignalled'
  <2>1. (dev.queue_ready /\ Outstanding # 0) => dev.int_status /\ Irq \in gic.pending
    BY <1>2 DEF Inv, CompletionSignalled
  <2>2. Outstanding' = Outstanding
    BY <1>1, <1>2 DEF Outstanding
  <2> QED BY <1>1, <1>3, <2>1, <2>2 DEF CompletionSignalled
<1> QED BY <1>1, <1>2, <1>3, <1>4 DEF Inv, TypeOK, GicInv

LEMMA StepInv == ASSUME Inv, [Next]_vars PROVE Inv'
<1>1. CASE UNCHANGED vars
  BY <1>1 DEF Inv, TypeOK, CompletionSignalled, Outstanding, vars
<1>2. CASE Handler
  BY <1>2, ReadIarInv, ReadStatusInv, WriteAckInv, CollectInv, TakeAndEndInv DEF Handler
<1> QED BY <1>1, <1>2, PollInv, DriverInv, ResetInvDev DEF Next

(* The inductive invariant holds in every reachable state.                  *)
THEOREM DeviceInvariant == Spec => []Inv
<1>1. Init => Inv
  BY InitInv
<1>2. Inv /\ [Next]_vars => Inv'
  BY StepInv
<1> QED BY <1>1, <1>2, PTL DEF Spec

(* Every ring index stays a u16 and every slot holds a chain's head, for    *)
(* any number of requests in a batch.                                       *)
THEOREM TypeCorrect == Spec => []TypeOK
<1>1. Inv => TypeOK
  BY DEF Inv
<1> QED BY <1>1, DeviceInvariant, PTL

(* No completion waits unseen: wherever a poll falls among the steps of the *)
(* handler, the driver is told of it or is on its way to the ring.          *)
THEOREM CompletionsAreSignalled == Spec => []CompletionSignalled
<1>1. Inv => CompletionSignalled
  BY DEF Inv
<1> QED BY <1>1, DeviceInvariant, PTL

-----------------------------------------------------------------------------
(* Indices that wrap, and the slots they name *)

LEMMA Wraps ==
    ASSUME NEW i \in Int, i >= -IdxMod, i < 2 * IdxMod
    PROVE  i % IdxMod = IF i < 0 THEN i + IdxMod ELSE IF i < IdxMod THEN i ELSE i - IdxMod
BY Indices, WrapsAt

(* The distance from one index to another, and what it is after a step.     *)
LEMMA Distance ==
    ASSUME NEW a \in Idx, NEW b \in Idx
    PROVE  /\ (a - b) % IdxMod \in 0 .. IdxMod - 1
           /\ (a - b) % IdxMod = IF a >= b THEN a - b ELSE a - b + IdxMod
           /\ (a - b) % IdxMod = 0 <=> a = b
           /\ (b + ((a - b) % IdxMod)) % IdxMod = a
<1>1. IdxMod \in Nat \ {0} /\ a \in 0 .. IdxMod - 1 /\ b \in 0 .. IdxMod - 1
  BY Indices DEF Idx
<1>2. DistanceIs(IdxMod, a, b)
  BY Zenon, <1>1, DistanceAt
<1> QED BY Zenon, <1>2 DEF DistanceIs

LEMMA Forward ==
    ASSUME NEW a \in Idx, NEW b \in Idx, NEW k \in Nat, ((a - b) % IdxMod) + k < IdxMod
    PROVE  /\ (a + k) % IdxMod \in Idx
           /\ (((a + k) % IdxMod) - b) % IdxMod = ((a - b) % IdxMod) + k
<1>1. IdxMod \in Nat \ {0} /\ a \in 0 .. IdxMod - 1 /\ b \in 0 .. IdxMod - 1
  BY Indices DEF Idx
<1> DEFINE d == (a - b) % IdxMod
           n == (a + k) % IdxMod
<1>2. d = IF a >= b THEN a - b ELSE a - b + IdxMod
  BY Distance
<1>3. n = IF a + k < IdxMod THEN a + k ELSE a + k - IdxMod
  BY <1>1, <1>2, Wraps
<1> HIDE DEF d, n
<1>4. d + k < IdxMod
  BY DEF d
<1>5. n \in Idx /\ (n - b) % IdxMod = IF n >= b THEN n - b ELSE n - b + IdxMod
  <2>1. n \in Idx
    BY <1>1, <1>2, <1>3, <1>4 DEF Idx
  <2> QED BY <2>1, Distance
<1>6. (n - b) % IdxMod = d + k
  BY <1>1, <1>2, <1>3, <1>4, <1>5
<1> QED BY <1>5, <1>6 DEF d, n

LEMMA Closer ==
    ASSUME NEW a \in Idx, NEW b \in Idx, NEW k \in Nat, k <= (a - b) % IdxMod
    PROVE  /\ (b + k) % IdxMod \in Idx
           /\ (a - ((b + k) % IdxMod)) % IdxMod = ((a - b) % IdxMod) - k
<1>1. IdxMod \in Nat \ {0} /\ a \in 0 .. IdxMod - 1 /\ b \in 0 .. IdxMod - 1
  BY Indices DEF Idx
<1> DEFINE d == (a - b) % IdxMod
           n == (b + k) % IdxMod
<1>2. d = IF a >= b THEN a - b ELSE a - b + IdxMod
  BY Distance
<1>3. k <= d
  OBVIOUS
<1> HIDE DEF d
<1>4. n = IF b + k < IdxMod THEN b + k ELSE b + k - IdxMod
  BY <1>1, <1>2, <1>3, Wraps
<1> HIDE DEF n
<1>5. n \in Idx
  BY <1>1, <1>2, <1>3, <1>4 DEF Idx
<1>6. (a - n) % IdxMod = IF a >= n THEN a - n ELSE a - n + IdxMod
  BY <1>5, Distance
<1>7. (a - n) % IdxMod = d - k
  BY <1>1, <1>2, <1>3, <1>4, <1>6
<1> QED BY Zenon, <1>5, <1>7 DEF d, n

(* The ring's slots do not see the wrap of the index: the size of the queue *)
(* divides the range of the indices.                                        *)
LEMMA SlotOfWrapped ==
    ASSUME NEW i \in Int, NEW k \in Int
    PROVE  ((i % IdxMod) + k) % QueueNum = (i + k) % QueueNum
<1>1. IdxMod \in Nat \ {0} /\ QueueNum \in Nat \ {0} /\ IdxMod % QueueNum = 0
  BY Indices, BlkAssumption
<1>2. SameSlot(IdxMod, QueueNum, i, k)
  BY Zenon, <1>1, SlotOfWrappedAt
<1> QED BY Zenon, <1>2 DEF SameSlot

(* Positions less than a lap apart have slots of their own.                 *)
LEMMA SlotsDiffer ==
    ASSUME NEW i \in Int, NEW j \in Int, i < j, j < i + QueueNum
    PROVE  i % QueueNum # j % QueueNum
BY Indices, SlotsDifferIn

-----------------------------------------------------------------------------
(* Who owns a chain *)

PostedHead(k) == ring.avail[(dev.last_avail + k - 1) % QueueNum]
DoneHead(k) == ring.used[(drv.last_used + k - 1) % QueueNum]
NextHead == ring.avail[ring.avail_idx % QueueNum]
Posting == IF drv.posting THEN 1 ELSE 0

\* The rings have room for every chain: no slot is taken twice.
RoomForAll ==
    /\ drv.posting => dev.queue_ready
    /\ ~ dev.queue_ready => dev.last_avail = 0
    /\ dev.queue_ready =>
          /\ dev.queue_num = QueueNum
          /\ Backlog + Outstanding + Posting + Cardinality(drv.free) <= QueueNum

\* A chain is free, being posted, posted or done: one of the four, and once.
PostedOnce ==
    \A j \in 1 .. Backlog :
       /\ PostedHead(j) \notin drv.free
       /\ drv.posting => PostedHead(j) # NextHead
       /\ \A k \in 1 .. Backlog : PostedHead(j) = PostedHead(k) => j = k
       /\ \A k \in 1 .. Outstanding : PostedHead(j) # DoneHead(k)
DoneOnce ==
    \A j \in 1 .. Outstanding :
       /\ DoneHead(j) \notin drv.free
       /\ drv.posting => DoneHead(j) # NextHead
       /\ \A k \in 1 .. Outstanding : DoneHead(j) = DoneHead(k) => j = k
OneOwner ==
    dev.queue_ready => /\ PostedOnce /\ DoneOnce
                       /\ drv.posting => NextHead \notin drv.free

FlightInv == TypeOK /\ RoomForAll /\ OneOwner

LEMMA Typed ==
    ASSUME TypeOK
    PROVE  /\ ring.avail_idx \in Idx /\ ring.used_idx \in Idx /\ dev.last_avail \in Idx
           /\ drv.last_used \in Idx
           /\ ring.avail \in [Slots -> Heads] /\ ring.used \in [Slots -> Heads]
           /\ drv.free \in SUBSET Heads /\ drv.posting \in BOOLEAN /\ Posting \in {0, 1}
           /\ dev.queue_ready \in BOOLEAN /\ dev.disk \in Disks
BY DEF TypeOK, Dev, Ring, Drv, Posting, Disks

LEMMA Counts ==
    ASSUME TypeOK
    PROVE  /\ Backlog \in 0 .. IdxMod - 1 /\ Outstanding \in 0 .. IdxMod - 1
           /\ Backlog \in Nat /\ Outstanding \in Nat
           /\ IsFiniteSet(drv.free) /\ Cardinality(drv.free) \in Nat
<1>1. Backlog \in 0 .. IdxMod - 1 /\ Outstanding \in 0 .. IdxMod - 1
  BY Typed, Distance DEF Backlog, Outstanding
<1>2. IdxMod \in Nat /\ QueueNum \in Nat /\ drv.free \subseteq 0 .. QueueNum - 1
  BY Indices, Typed, BlkAssumption
<1>3. IsFiniteSet(0 .. QueueNum - 1)
  BY <1>2, FS_Interval
<1>4. IsFiniteSet(drv.free)
  BY <1>2, <1>3, FS_Subset
<1>5. Cardinality(drv.free) \in Nat
  BY <1>4, FS_CardinalityType
<1> QED BY <1>1, <1>2, <1>4, <1>5

LEMMA HeadsTyped ==
    ASSUME TypeOK, NEW k \in Int
    PROVE  PostedHead(k) \in Heads /\ DoneHead(k) \in Heads /\ NextHead \in Heads
<1>1. /\ dev.last_avail + k - 1 \in Int /\ drv.last_used + k - 1 \in Int
      /\ ring.avail_idx \in Int
  <2>1. dev.last_avail \in Int /\ drv.last_used \in Int /\ ring.avail_idx \in Int
    BY Zenon, Typed, Indices
  <2> QED BY <2>1
<1>2. /\ (dev.last_avail + k - 1) % QueueNum \in Slots
      /\ (drv.last_used + k - 1) % QueueNum \in Slots
      /\ ring.avail_idx % QueueNum \in Slots
  BY Zenon, <1>1, Indices
<1> QED BY <1>2, Typed DEF PostedHead, DoneHead, NextHead

(* A step that moves no cursor and no chain moves no owner.                 *)
LEMMA SameFlight ==
    ASSUME RoomForAll, OneOwner, ring' = ring,
           dev'.queue_ready = dev.queue_ready, dev'.queue_num = dev.queue_num,
           dev'.last_avail = dev.last_avail,
           drv'.free = drv.free, drv'.last_used = drv.last_used, drv'.posting = drv.posting
    PROVE  RoomForAll' /\ OneOwner' /\ Backlog' = Backlog /\ Outstanding' = Outstanding
<1>1. Backlog' = Backlog /\ Outstanding' = Outstanding /\ Posting' = Posting
  BY DEF Backlog, Outstanding, Posting
<1>2. RoomForAll'
  BY <1>1 DEF RoomForAll
<1>3. /\ \A k : PostedHead(k)' = PostedHead(k) /\ DoneHead(k)' = DoneHead(k)
      /\ NextHead' = NextHead
  BY DEF PostedHead, DoneHead, NextHead
<1>4. OneOwner'
  BY Zenon, <1>1, <1>3 DEF OneOwner, PostedOnce, DoneOnce
<1> QED BY <1>1, <1>2, <1>4

(* A queue that is not ready holds nothing.                                 *)
LEMMA NotReady ==
    ASSUME dev'.queue_ready = FALSE, drv'.posting = FALSE, dev'.last_avail = 0
    PROVE  RoomForAll' /\ OneOwner'
BY DEF RoomForAll, OneOwner

(* The k-th request after the ones posted would go to the slot the driver   *)
(* writes next.                                                             *)
LEMMA NextSlot ==
    ASSUME TypeOK
    PROVE  /\ ring.avail_idx % QueueNum = (dev.last_avail + Backlog) % QueueNum
           /\ ring.used_idx % QueueNum = (drv.last_used + Outstanding) % QueueNum
<1>1. /\ (dev.last_avail + Backlog) % IdxMod = ring.avail_idx
      /\ (drv.last_used + Outstanding) % IdxMod = ring.used_idx
  BY Zenon, Typed, Distance DEF Backlog, Outstanding
<1> DEFINE i == dev.last_avail + Backlog
           j == drv.last_used + Outstanding
<1>2. i \in Int /\ j \in Int
  <2>1. dev.last_avail \in Int /\ drv.last_used \in Int
    BY Zenon, Typed, Indices
  <2> QED BY <2>1, Counts
<1>3. ((i % IdxMod) + 0) % QueueNum = (i + 0) % QueueNum
      /\ ((j % IdxMod) + 0) % QueueNum = (j + 0) % QueueNum
  <2>1. 0 \in Int
    OBVIOUS
  <2> HIDE DEF i, j
  <2> QED BY Zenon, <1>2, <2>1, SlotOfWrapped
<1>4. \A m \in Int : m + 0 = m
  OBVIOUS
<1>5. i % IdxMod \in Int /\ j % IdxMod \in Int
  <2>1. ring.avail_idx \in Int /\ ring.used_idx \in Int
    BY Zenon, Typed, Indices
  <2> QED BY Zenon, <1>1, <2>1
<1>6. (i % IdxMod) % QueueNum = i % QueueNum /\ (j % IdxMod) % QueueNum = j % QueueNum
  BY Zenon, <1>2, <1>3, <1>4, <1>5
<1> QED BY Zenon, <1>1, <1>6

-----------------------------------------------------------------------------
(* The driver's steps move chains from one owner to the next *)

(* The chain whose slot was written becomes the last one posted.            *)
LEMMA PublishMoves ==
    ASSUME FlightInv, Publish
    PROVE  /\ dev.queue_ready /\ drv.posting /\ dev' = dev /\ chain' = chain
           /\ Backlog' = Backlog + 1 /\ Outstanding' = Outstanding
           /\ drv'.posting = FALSE /\ drv'.free = drv.free
           /\ \A k \in 1 .. Backlog : PostedHead(k)' = PostedHead(k)
           /\ \A k : k = Backlog + 1 => PostedHead(k)' = NextHead
           /\ \A k : DoneHead(k)' = DoneHead(k)
<1>1. /\ drv.posting /\ ring' = [ring EXCEPT !.avail_idx = (@ + 1) % IdxMod]
      /\ drv' = [drv EXCEPT !.posting = FALSE, !.kick = TRUE]
      /\ UNCHANGED <<dev, chain, gic>>
  BY DEF Publish
<1>2. ring \in Ring /\ drv \in Drv /\ TypeOK
  BY DEF FlightInv, TypeOK
<1>3. /\ ring'.avail = ring.avail /\ ring'.used = ring.used /\ ring'.used_idx = ring.used_idx
      /\ ring'.avail_idx = (ring.avail_idx + 1) % IdxMod
  BY <1>1, <1>2 DEF Ring
<1>4. /\ drv'.posting = FALSE /\ drv'.free = drv.free /\ drv'.last_used = drv.last_used
  BY <1>1, <1>2 DEF Drv
<1>5. /\ dev.queue_ready /\ Posting = 1
      /\ Backlog + Outstanding + Posting + Cardinality(drv.free) <= QueueNum
  BY <1>1 DEF FlightInv, RoomForAll, Posting
<1>6. Backlog + 1 < IdxMod
  BY <1>2, <1>5, Counts, BlkAssumption
<1>7. Backlog' = Backlog + 1
  <2>1. ((ring.avail_idx - dev.last_avail) % IdxMod) + 1 < IdxMod
    BY <1>6 DEF Backlog
  <2>2. (((ring.avail_idx + 1) % IdxMod) - dev.last_avail) % IdxMod
        = ((ring.avail_idx - dev.last_avail) % IdxMod) + 1
    BY <1>2, <2>1, Typed, Forward
  <2> QED BY <1>1, <1>3, <2>2 DEF Backlog
<1>8. Outstanding' = Outstanding
  BY <1>3, <1>4 DEF Outstanding
<1>9. \A k : PostedHead(k)' = PostedHead(k) /\ DoneHead(k)' = DoneHead(k)
  BY <1>1, <1>3, <1>4 DEF PostedHead, DoneHead
<1>10. ASSUME NEW k, k = Backlog + 1 PROVE PostedHead(k) = NextHead
  <2>1. dev.last_avail + k - 1 = dev.last_avail + Backlog
    <3>1. dev.last_avail \in Int
      BY Zenon, <1>2, Typed, Indices
    <3> QED BY <1>2, <1>10, <3>1, Counts
  <2> QED BY <1>2, <2>1, NextSlot DEF PostedHead, NextHead
<1> QED BY <1>1, <1>4, <1>5, <1>7, <1>8, <1>9, <1>10

LEMMA PublishFlight == ASSUME FlightInv, Publish PROVE RoomForAll' /\ OneOwner'
<1>1. /\ dev.queue_ready /\ drv.posting /\ dev' = dev
      /\ Backlog' = Backlog + 1 /\ Outstanding' = Outstanding
      /\ drv'.posting = FALSE /\ drv'.free = drv.free
      /\ \A k : DoneHead(k)' = DoneHead(k)
  BY PublishMoves
<1>2. \A j \in 1 .. Backlog : PostedHead(j)' = PostedHead(j)
  BY PublishMoves
<1>3. \A k : k = Backlog + 1 => PostedHead(k)' = NextHead
  BY PublishMoves
<1>4. /\ Backlog \in Nat /\ Outstanding \in Nat /\ Cardinality(drv.free) \in Nat
      /\ PostedOnce /\ DoneOnce /\ NextHead \notin drv.free
  BY <1>1, Counts DEF FlightInv, OneOwner
<1>5. RoomForAll'
  BY <1>1, <1>4 DEF FlightInv, RoomForAll, Posting
<1>6. PostedOnce'
  <2> SUFFICES ASSUME NEW j \in 1 .. Backlog + 1
               PROVE  /\ PostedHead(j)' \notin drv.free
                      /\ \A k \in 1 .. Backlog + 1 : PostedHead(j)' = PostedHead(k)' => j = k
                      /\ \A k \in 1 .. Outstanding : PostedHead(j)' # DoneHead(k)
    BY <1>1 DEF PostedOnce
  <2>1. CASE j \in 1 .. Backlog
    <3>1. /\ PostedHead(j)' = PostedHead(j) /\ PostedHead(j) \notin drv.free
          /\ PostedHead(j) # NextHead
          /\ \A k \in 1 .. Backlog : PostedHead(j) = PostedHead(k) => j = k
          /\ \A k \in 1 .. Outstanding : PostedHead(j) # DoneHead(k)
      BY <1>1, <1>2, <1>4, <2>1 DEF PostedOnce
    <3>2. \A k \in 1 .. Backlog + 1 : k \in 1 .. Backlog \/ k = Backlog + 1
      BY <1>4
    <3> QED BY <1>2, <1>3, <3>1, <3>2
  <2>2. CASE j = Backlog + 1
    <3>1. PostedHead(j)' = NextHead
      BY <1>3, <2>2
    <3>2. ASSUME NEW k \in 1 .. Backlog + 1, PostedHead(k)' = NextHead PROVE j = k
      <4>1. k \notin 1 .. Backlog
        BY <1>1, <1>2, <1>4, <3>2 DEF PostedOnce
      <4> QED BY <1>4, <2>2, <4>1
    <3>3. \A k \in 1 .. Outstanding : NextHead # DoneHead(k)
      BY <1>1, <1>4 DEF DoneOnce
    <3> QED BY <1>4, <3>1, <3>2, <3>3
  <2> QED BY <1>4, <2>1, <2>2
<1>7. DoneOnce'
  BY <1>1, <1>4 DEF DoneOnce
<1> QED BY <1>1, <1>5, <1>6, <1>7 DEF OneOwner

(* The slot that the driver writes is none of those in use.                 *)
LEMMA WriteMoves ==
    ASSUME FlightInv, WriteSlot
    PROVE  /\ dev.queue_ready /\ drv.posting = FALSE /\ dev' = dev
           /\ Backlog' = Backlog /\ Outstanding' = Outstanding
           /\ \A k \in 1 .. Backlog : PostedHead(k)' = PostedHead(k)
           /\ \A k : DoneHead(k)' = DoneHead(k)
           /\ \E h \in drv.free :
                 /\ drv'.free = drv.free \ {h} /\ drv'.posting /\ NextHead' = h
                 /\ \A g \in Heads : g # h => chain'[g] = chain[g]
<1>1. PICK h \in drv.free, type \in {"in", "out", "other"}, sector \in Sectors, data \in Blocks :
        /\ type # "out" => data = Zero
        /\ type = "other" => sector = FreeChain.sector
        /\ chain' = [chain EXCEPT ![h] = [type |-> type, sector |-> sector,
                                          data |-> data, status |-> "none"]]
        /\ ring' = [ring EXCEPT !.avail[ring.avail_idx % QueueNum] = h]
        /\ drv' = [drv EXCEPT !.free = @ \ {h}, !.posting = TRUE]
  BY Zenon DEF WriteSlot
<1>2. dev.queue_ready /\ ~ drv.posting /\ dev' = dev
  BY DEF WriteSlot
<1>3. ring \in Ring /\ drv \in Drv /\ TypeOK /\ chain \in [Heads -> Chain]
  BY DEF FlightInv, TypeOK
<1>4. ring.avail_idx \in Int /\ ring.avail_idx % QueueNum \in Slots /\ dev.last_avail \in Int
  BY Zenon, <1>3, Typed, Indices
<1>5. /\ ring'.avail_idx = ring.avail_idx /\ ring'.used = ring.used
      /\ ring'.used_idx = ring.used_idx
      /\ \A i \in Slots : i # ring.avail_idx % QueueNum => ring'.avail[i] = ring.avail[i]
      /\ ring'.avail[ring.avail_idx % QueueNum] = h
  BY <1>1, <1>3, <1>4 DEF Ring
<1>6. /\ drv'.posting = TRUE /\ drv'.free = drv.free \ {h} /\ drv'.last_used = drv.last_used
  BY <1>1, <1>3 DEF Drv
<1>7. Backlog' = Backlog /\ Outstanding' = Outstanding
  BY <1>2, <1>5, <1>6 DEF Backlog, Outstanding
<1>8. \A k : DoneHead(k)' = DoneHead(k)
  BY <1>2, <1>5, <1>6 DEF DoneHead
<1>9. Backlog < QueueNum
  <2>1. Cardinality(drv.free) # 0
    BY <1>3, Counts, FS_EmptySet
  <2>2. Backlog + Outstanding + Posting + Cardinality(drv.free) <= QueueNum /\ Posting = 0
    BY <1>2 DEF FlightInv, RoomForAll, Posting
  <2>3. /\ Backlog \in Nat /\ Outstanding \in Nat /\ Cardinality(drv.free) \in Nat
        /\ QueueNum \in Nat
    BY Zenon, <1>3, Counts, BlkAssumption
  <2> QED BY <2>1, <2>2, <2>3
<1>10. ASSUME NEW k \in 1 .. Backlog PROVE PostedHead(k)' = PostedHead(k)
  <2> DEFINE i == dev.last_avail + k - 1
             j == dev.last_avail + Backlog
  <2>1. i \in Int /\ j \in Int /\ i < j /\ j < i + QueueNum
    <3>1. Backlog \in Nat /\ QueueNum \in Nat /\ k \in Int /\ k >= 1 /\ k <= Backlog
      BY <1>3, Counts, BlkAssumption
    <3> QED BY <1>4, <1>9, <3>1
  <2>2. i % QueueNum # j % QueueNum /\ i % QueueNum \in Slots
    <3> HIDE DEF i, j
    <3> QED BY <2>1, SlotsDiffer, Indices
  <2>3. j % QueueNum = ring.avail_idx % QueueNum
    BY <1>3, NextSlot
  <2>4. ring'.avail[i % QueueNum] = ring.avail[i % QueueNum]
    <3> HIDE DEF i, j
    <3> QED BY <1>5, <2>2, <2>3
  <2> QED BY Zenon, <1>2, <2>4 DEF PostedHead
<1>11. NextHead' = h
  BY <1>5 DEF NextHead
<1>12. \A g \in Heads : g # h => chain'[g] = chain[g]
  BY <1>1, <1>3
<1> QED BY <1>2, <1>6, <1>7, <1>8, <1>10, <1>11, <1>12

LEMMA WriteFlight == ASSUME FlightInv, WriteSlot PROVE RoomForAll' /\ OneOwner'
<1>1. /\ dev.queue_ready /\ drv.posting = FALSE /\ dev' = dev
      /\ Backlog' = Backlog /\ Outstanding' = Outstanding
      /\ \A k : DoneHead(k)' = DoneHead(k)
  BY WriteMoves
<1>2. \A k \in 1 .. Backlog : PostedHead(k)' = PostedHead(k)
  BY WriteMoves
<1>3. PICK h \in drv.free : drv'.free = drv.free \ {h} /\ drv'.posting /\ NextHead' = h
  BY WriteMoves
<1>4. /\ Backlog \in Nat /\ Outstanding \in Nat /\ Cardinality(drv.free) \in Nat
      /\ IsFiniteSet(drv.free) /\ PostedOnce /\ DoneOnce
  BY <1>1, Counts DEF FlightInv, OneOwner
<1>5. RoomForAll'
  <2>1. Cardinality(drv'.free) = Cardinality(drv.free) - 1
    BY <1>3, <1>4, FS_RemoveElement
  <2>2. Posting = 0 /\ Posting' = 1
    BY <1>1, <1>3 DEF Posting
  <2>3. /\ dev.queue_num = QueueNum
        /\ Backlog + Outstanding + Posting + Cardinality(drv.free) <= QueueNum
    BY <1>1 DEF FlightInv, RoomForAll
  <2>4. QueueNum \in Nat
    BY BlkAssumption
  <2>5. Backlog + Outstanding + 1 + (Cardinality(drv.free) - 1) <= QueueNum
    BY <1>4, <2>2, <2>3, <2>4
  <2> QED BY <1>1, <2>1, <2>2, <2>3, <2>5 DEF RoomForAll
<1>6. PostedOnce'
  BY <1>1, <1>2, <1>3, <1>4 DEF PostedOnce
<1>7. DoneOnce'
  BY <1>1, <1>3, <1>4 DEF DoneOnce
<1> QED BY <1>1, <1>3, <1>5, <1>6, <1>7 DEF OneOwner

(* The handler takes the first chain of those done.                         *)
LEMMA CollectMoves ==
    ASSUME FlightInv, CollectOne
    PROVE  /\ dev' = dev /\ drv'.posting = drv.posting
           /\ Backlog' = Backlog /\ Outstanding # 0 /\ Outstanding' = Outstanding - 1
           /\ \A k : PostedHead(k)' = PostedHead(k)
           /\ NextHead' = NextHead
           /\ \A k \in Nat : DoneHead(k)' = DoneHead(k + 1)
           /\ drv'.free = drv.free \cup {DoneHead(1)}
           /\ \A g \in Heads : g # DoneHead(1) => chain'[g] = chain[g]
<1> DEFINE h == ring.used[drv.last_used % QueueNum]
<1>1. /\ drv.last_used # ring.used_idx /\ UNCHANGED <<dev, ring, gic>>
      /\ drv' = [drv EXCEPT !.free = @ \cup {h}, !.last_used = (@ + 1) % IdxMod]
      /\ chain' = [chain EXCEPT ![h] = FreeChain]
  BY DEF CollectOne
<1>2. ring \in Ring /\ drv \in Drv /\ TypeOK /\ chain \in [Heads -> Chain]
  BY DEF FlightInv, TypeOK
<1>3. drv.last_used \in Idx /\ drv.last_used \in Int
  BY Zenon, <1>2, Typed, Indices
<1>4. h = DoneHead(1)
  <2>1. drv.last_used + 1 - 1 = drv.last_used
    BY <1>3
  <2> QED BY <2>1 DEF DoneHead
<1> HIDE DEF h
<1>5. /\ drv'.posting = drv.posting /\ drv'.free = drv.free \cup {h}
      /\ drv'.last_used = (drv.last_used + 1) % IdxMod
  BY <1>1, <1>2 DEF Drv
<1>6. Outstanding # 0
  BY <1>1, <1>2, Typed, Distance DEF Outstanding
<1>7. Outstanding' = Outstanding - 1
  <2>1. 1 <= (ring.used_idx - drv.last_used) % IdxMod /\ 1 \in Nat
    <3>1. Outstanding \in Nat
      BY <1>2, Counts
    <3>2. 1 <= Outstanding
      BY <1>6, <3>1
    <3> QED BY <3>2 DEF Outstanding
  <2>2. (ring.used_idx - ((drv.last_used + 1) % IdxMod)) % IdxMod
        = ((ring.used_idx - drv.last_used) % IdxMod) - 1
    BY <1>2, <2>1, Typed, Closer
  <2> QED BY <1>1, <1>5, <2>2 DEF Outstanding
<1>8. Backlog' = Backlog /\ NextHead' = NextHead /\ \A k : PostedHead(k)' = PostedHead(k)
  BY <1>1 DEF Backlog, NextHead, PostedHead
<1>9. ASSUME NEW k \in Nat PROVE DoneHead(k)' = DoneHead(k + 1)
  <2> DEFINE u == drv.last_used
  <2>1. (((u + 1) % IdxMod) + (k - 1)) % QueueNum = ((u + 1) + (k - 1)) % QueueNum
    <3>1. u + 1 \in Int /\ k - 1 \in Int
      BY <1>3
    <3> QED BY Zenon, <3>1, SlotOfWrapped
  <2>2. (u + 1) % IdxMod \in Int
    <3>1. u + 1 \in Int
      BY <1>3
    <3> QED BY Zenon, <3>1, Indices
  <2>3. ((u + 1) % IdxMod) + k - 1 = ((u + 1) % IdxMod) + (k - 1)
    <3> DEFINE v == (u + 1) % IdxMod
    <3>1. v \in Int
      BY <2>2
    <3> HIDE DEF v
    <3>2. v + k - 1 = v + (k - 1)
      BY <3>1
    <3> QED BY Zenon, <3>2 DEF v
  <2>4. u + (k + 1) - 1 = (u + 1) + (k - 1)
    BY <1>3
  <2>5. (((u + 1) % IdxMod) + k - 1) % QueueNum = (u + (k + 1) - 1) % QueueNum
    BY Zenon, <2>1, <2>3, <2>4
  <2> QED BY Zenon, <1>1, <1>5, <2>5 DEF DoneHead
<1>10. \A g \in Heads : g # h => chain'[g] = chain[g]
  BY <1>1, <1>2
<1> QED BY Zenon, <1>1, <1>4, <1>5, <1>6, <1>7, <1>8, <1>9, <1>10

LEMMA CollectFlight == ASSUME FlightInv, CollectOne PROVE RoomForAll' /\ OneOwner'
<1>1. /\ dev' = dev /\ drv'.posting = drv.posting
      /\ Backlog' = Backlog /\ Outstanding # 0 /\ Outstanding' = Outstanding - 1
      /\ \A k : PostedHead(k)' = PostedHead(k)
      /\ NextHead' = NextHead
      /\ drv'.free = drv.free \cup {DoneHead(1)}
  BY CollectMoves
<1>2. \A k \in Nat : DoneHead(k)' = DoneHead(k + 1)
  BY CollectMoves
<1>3. /\ Backlog \in Nat /\ Outstanding \in Nat /\ Cardinality(drv.free) \in Nat
      /\ IsFiniteSet(drv.free) /\ dev.queue_ready \in BOOLEAN /\ drv.posting \in BOOLEAN
  BY Counts, Typed DEF FlightInv
<1>4. CASE ~ dev.queue_ready
  <2>1. dev'.queue_ready = FALSE /\ drv'.posting = FALSE /\ dev'.last_avail = 0
    BY <1>1, <1>3, <1>4 DEF FlightInv, RoomForAll
  <2> QED BY <2>1, NotReady
<1>5. CASE dev.queue_ready
  <2>1. PostedOnce /\ DoneOnce /\ (drv.posting => NextHead \notin drv.free)
    BY <1>5 DEF FlightInv, OneOwner
  <2>2. RoomForAll'
    <3>1. Cardinality(drv'.free) \in Nat /\ Cardinality(drv'.free) <= Cardinality(drv.free) + 1
      <4> DEFINE free == drv.free
                 h == DoneHead(1)
      <4>1. Cardinality(free \cup {h}) = IF h \in free THEN Cardinality(free) ELSE Cardinality(free) + 1
        <5> HIDE DEF free, h
        <5> QED BY <1>3, FS_AddElement DEF free
      <4> QED BY <1>1, <1>3, <4>1
    <3>2. /\ dev.queue_num = QueueNum
          /\ Backlog + Outstanding + Posting + Cardinality(drv.free) <= QueueNum
          /\ Posting \in {0, 1} /\ Posting' = Posting /\ QueueNum \in Nat
      BY <1>1, <1>5, BlkAssumption DEF FlightInv, RoomForAll, Posting
    <3>3. Backlog + (Outstanding - 1) + Posting + Cardinality(drv'.free) <= QueueNum
      BY <1>1, <1>3, <3>1, <3>2
    <3> QED BY <1>1, <1>5, <3>2, <3>3 DEF RoomForAll
  <2>3. 1 \in 1 .. Outstanding /\ \A k \in 1 .. Outstanding - 1 : k \in Nat /\ k + 1 \in 1 .. Outstanding /\ k + 1 # 1
    BY <1>1, <1>3
  <2>4. PostedOnce'
    <3> SUFFICES ASSUME NEW j \in 1 .. Backlog
                 PROVE  /\ PostedHead(j) \notin drv.free \cup {DoneHead(1)}
                        /\ drv.posting => PostedHead(j) # NextHead
                        /\ \A k \in 1 .. Backlog : PostedHead(j) = PostedHead(k) => j = k
                        /\ \A k \in 1 .. Outstanding - 1 : PostedHead(j) # DoneHead(k)'
      BY Zenon, <1>1 DEF PostedOnce
    <3> QED BY <1>2, <2>1, <2>3 DEF PostedOnce
  <2>5. DoneOnce'
    <3> SUFFICES ASSUME NEW j \in 1 .. Outstanding - 1
                 PROVE  /\ DoneHead(j)' \notin drv.free \cup {DoneHead(1)}
                        /\ drv.posting => DoneHead(j)' # NextHead
                        /\ \A k \in 1 .. Outstanding - 1 : DoneHead(j)' = DoneHead(k)' => j = k
      BY Zenon, <1>1 DEF DoneOnce
    <3>2. \A k \in 1 .. Outstanding - 1 : DoneHead(k)' = DoneHead(k + 1)
      BY Zenon, <1>2, <2>3
    <3>1. \A k \in 1 .. Outstanding - 1 : j + 1 = k + 1 => j = k
      BY <1>3
    <3> QED BY <2>1, <2>3, <3>1, <3>2 DEF DoneOnce
  <2>6. drv'.posting => NextHead' \notin drv'.free
    BY <1>1, <2>1, <2>3 DEF DoneOnce
  <2> QED BY <2>2, <2>4, <2>5, <2>6 DEF OneOwner
<1> QED BY <1>3, <1>4, <1>5

(* A new queue starts with every chain free, and has a slot for each.       *)
LEMMA ProbeFlight ==
    ASSUME FlightInv, Probe
    PROVE  RoomForAll' /\ OneOwner' /\ Backlog' = 0 /\ Outstanding' = 0
<1>1. /\ ~ dev.queue_ready /\ dev' = [dev EXCEPT !.queue_num = QueueNum, !.queue_ready = TRUE]
      /\ ring' = EmptyRing /\ drv' = [drv EXCEPT !.free = Heads, !.last_used = 0]
  BY DEF Probe
<1>2. drv.posting = FALSE /\ dev \in Dev /\ drv \in Drv
  BY <1>1 DEF FlightInv, RoomForAll, TypeOK, Drv
<1>3. /\ dev'.queue_ready = TRUE /\ dev'.queue_num = QueueNum /\ dev'.last_avail = 0
      /\ ring'.avail_idx = 0 /\ ring'.used_idx = 0
      /\ drv'.posting = FALSE /\ drv'.free = Heads /\ drv'.last_used = 0
  BY <1>1, <1>2 DEF FlightInv, RoomForAll, EmptyRing, Dev, Drv
<1>4. Backlog' = 0 /\ Outstanding' = 0
  BY <1>3, Indices, NoneOutstanding DEF Backlog, Outstanding
<1>5. Cardinality(Heads) <= QueueNum /\ Cardinality(Heads) \in Nat
  <2>1. /\ QueueNum \in Nat /\ Heads \subseteq 0 .. QueueNum - 1 /\ 0 \in Int /\ QueueNum - 1 \in Int
        /\ (QueueNum - 1) - 0 + 1 = QueueNum /\ ~ 0 > QueueNum - 1
    BY BlkAssumption
  <2>2. IsFiniteSet(0 .. QueueNum - 1) /\ Cardinality(0 .. QueueNum - 1) = QueueNum
    BY <2>1, FS_Interval
  <2>3. IsFiniteSet(Heads) /\ Cardinality(Heads) <= Cardinality(0 .. QueueNum - 1)
    BY <2>1, <2>2, FS_Subset
  <2> QED BY <2>2, <2>3, FS_CardinalityType
<1>6. RoomForAll'
  <2>1. Posting' = 0
    BY <1>3 DEF Posting
  <2> QED BY <1>3, <1>4, <1>5, <2>1 DEF RoomForAll
<1>7. OneOwner'
  BY <1>3, <1>4 DEF OneOwner, PostedOnce, DoneOnce
<1> QED BY <1>4, <1>6, <1>7

(* A reset forgets them all.                                                *)
LEMMA ResetFlight ==
    ASSUME FlightInv, Reset
    PROVE  RoomForAll' /\ OneOwner' /\ dev'.queue_ready = FALSE /\ dev'.disk = dev.disk
<1>1. dev' = DeviceReset(dev) /\ ~ drv.posting /\ drv' = [drv EXCEPT !.kick = FALSE]
  BY DEF Reset
<1>2. dev \in Dev /\ drv \in Drv
  BY DEF FlightInv, TypeOK
<1>3. /\ dev'.queue_ready = FALSE /\ dev'.last_avail = 0 /\ dev'.disk = dev.disk
      /\ drv'.posting = FALSE
  BY <1>1, <1>2 DEF DeviceReset, Dev, Drv
<1> QED BY <1>3, NotReady

(* The steps that move no chain.                                            *)
Stays == PollNothing \/ Notify \/ TakeIrq \/ ReadIar \/ ReadStatus \/ WriteAck
         \/ CollectedAll \/ WriteEoi \/ UNCHANGED vars

LEMMA StaysFlight ==
    ASSUME FlightInv, Stays
    PROVE  /\ RoomForAll' /\ OneOwner' /\ Backlog' = Backlog /\ Outstanding' = Outstanding
           /\ ring' = ring /\ chain' = chain /\ dev'.disk = dev.disk
           /\ dev'.queue_ready = dev.queue_ready /\ dev'.last_avail = dev.last_avail
           /\ drv'.last_used = drv.last_used
<1>1. dev \in Dev /\ drv \in Drv
  BY DEF FlightInv, TypeOK
<1> DEFINE SameDev == /\ dev'.queue_ready = dev.queue_ready /\ dev'.queue_num = dev.queue_num
                      /\ dev'.last_avail = dev.last_avail /\ dev'.disk = dev.disk
           SameDrv == /\ drv'.free = drv.free /\ drv'.last_used = drv.last_used
                      /\ drv'.posting = drv.posting
<1>2. ring' = ring /\ chain' = chain
  BY DEF Stays, PollNothing, Notify, TakeIrq, ReadIar, ReadStatus, WriteAck, CollectedAll,
         WriteEoi, vars
<1>3. SameDev
  <2>1. CASE WriteAck
    <3>1. dev' = InterruptAck(dev, gic, drv.seen).dev
      BY <2>1 DEF WriteAck
    <3> QED BY <1>1, <3>1 DEF InterruptAck, Dev
  <2>2. CASE ~ WriteAck
    BY <1>1, <2>2 DEF Stays, PollNothing, Notify, TakeIrq, ReadIar, ReadStatus, CollectedAll,
                      WriteEoi, vars, Dev
  <2> QED BY <2>1, <2>2
<1>4. SameDrv
  <2>1. \A from, to : Step(from, to) => SameDrv
    BY <1>1 DEF Step, Drv
  <2>2. CASE Notify \/ ReadStatus
    BY <1>1, <2>2 DEF Notify, ReadStatus, Drv
  <2>3. CASE PollNothing \/ UNCHANGED vars
    BY <2>3 DEF PollNothing, vars
  <2>4. CASE TakeIrq \/ ReadIar \/ WriteAck \/ CollectedAll \/ WriteEoi
    <3> HIDE DEF SameDrv
    <3> QED BY Zenon, <2>1, <2>4 DEF TakeIrq, ReadIar, WriteAck, CollectedAll, WriteEoi
  <2> QED BY Zenon, <2>2, <2>3, <2>4 DEF Stays
<1> QED BY Zenon, <1>2, <1>3, <1>4, SameFlight DEF FlightInv

-----------------------------------------------------------------------------
(* What a poll does: the loop, turn by turn *)

Turn(k) == Served(Batch)[k]

\* What k turns have done to the cursors, the used ring and the chains; the
\* disk that a turn works on is the one the turns before it left.
AfterTurns(k) ==
    /\ Turn(k).dev.queue_ready = dev.queue_ready /\ Turn(k).dev.queue_num = dev.queue_num
    /\ Turn(k).dev.last_avail = (dev.last_avail + k) % IdxMod
    /\ Turn(k).ring.avail = ring.avail /\ Turn(k).ring.avail_idx = ring.avail_idx
    /\ Turn(k).ring.used_idx = (ring.used_idx + k) % IdxMod
    /\ \A i \in Slots : (\A j \in 1 .. k : i # (ring.used_idx + j - 1) % QueueNum)
                        => Turn(k).ring.used[i] = ring.used[i]
    /\ \A j \in 1 .. k : Turn(k).ring.used[(ring.used_idx + j - 1) % QueueNum] = PostedHead(j)
    /\ \A h \in Heads : (\A j \in 1 .. k : h # PostedHead(j)) => Turn(k).chain[h] = chain[h]
    /\ \A j \in 1 .. k : Turn(k).chain[PostedHead(j)]
                         = HandleRequest(Turn(j - 1).dev.disk, chain[PostedHead(j)]).chain

LEMMA BatchIsPosted ==
    ASSUME TypeOK
    PROVE  /\ Batch \in Seq(Heads) /\ Len(Batch) = Backlog
           /\ \A k \in 1 .. Backlog : Batch[k] = PostedHead(k)
<1>1. Backlog \in Nat /\ \A k \in 1 .. Backlog : k \in Int
  BY Counts
<1>2. Batch = [k \in 1 .. Backlog |-> PostedHead(k)]
  BY DEF Batch, PostedHead
<1>3. \A k \in 1 .. Backlog : PostedHead(k) \in Heads
  BY <1>1, HeadsTyped
<1>4. Batch \in [1 .. Backlog -> Heads] /\ \A k \in 1 .. Backlog : Batch[k] = PostedHead(k)
  BY <1>2, <1>3
<1> HIDE DEF Batch
<1> QED BY <1>1, <1>4

LEMMA TurnFacts ==
    ASSUME TypeOK
    PROVE  /\ Turn(0) = [dev |-> dev, chain |-> chain, ring |-> ring]
           /\ \A k \in 0 .. Backlog : Turn(k) \in Memory
           /\ \A k \in 1 .. Backlog : Turn(k) = ServeOne(Turn(k - 1), PostedHead(k))
<1>1. /\ Batch \in Seq(Heads) /\ Len(Batch) = Backlog
      /\ \A k \in 1 .. Backlog : Batch[k] = PostedHead(k)
  BY BatchIsPosted
<1>2. /\ Served(Batch) \in [0 .. Backlog -> Memory]
      /\ Served(Batch)[0] = [dev |-> dev, chain |-> chain, ring |-> ring]
      /\ \A k \in 1 .. Backlog : Served(Batch)[k] = ServeOne(Served(Batch)[k - 1], Batch[k])
  BY Zenon, <1>1, ServedType
<1> DEFINE f == Served(Batch)
<1>3. \A k \in 0 .. Backlog : f[k] \in Memory
  <2>1. f \in [0 .. Backlog -> Memory]
    BY <1>2
  <2> HIDE DEF f
  <2> QED BY <2>1
<1> QED BY Zenon, <1>1, <1>2, <1>3 DEF Turn

(* One turn on the memory s, which leaves the memory t: all that it changes. *)
OneTurn(s, t, head) ==
    LET i == s.ring.used_idx % QueueNum
    IN  /\ t.dev.queue_ready = s.dev.queue_ready /\ t.dev.queue_num = s.dev.queue_num
        /\ t.dev.last_avail = (s.dev.last_avail + 1) % IdxMod
        /\ t.dev.disk = HandleRequest(s.dev.disk, s.chain[head]).disk
        /\ t.ring.avail = s.ring.avail /\ t.ring.avail_idx = s.ring.avail_idx
        /\ t.ring.used_idx = (s.ring.used_idx + 1) % IdxMod
        /\ t.ring.used[i] = head
        /\ \A j \in Slots : j # i => t.ring.used[j] = s.ring.used[j]
        /\ t.chain[head] = HandleRequest(s.dev.disk, s.chain[head]).chain
        /\ \A h \in Heads : h # head => t.chain[h] = s.chain[h]

(* That is what a turn does.                                                *)
LEMMA ServeOneEffect ==
    ASSUME NEW s \in Memory, NEW head \in Heads
    PROVE  OneTurn(s, ServeOne(s, head), head)
<1> DEFINE t == ServeOne(s, head)
           i == s.ring.used_idx % QueueNum
           result == HandleRequest(s.dev.disk, s.chain[head])
<1>1. s.dev \in Dev /\ s.chain \in [Heads -> Chain] /\ s.ring \in Ring
  BY DEF Memory
<1>2. /\ t.dev = [s.dev EXCEPT !.disk = result.disk, !.last_avail = (@ + 1) % IdxMod]
      /\ t.chain = [s.chain EXCEPT ![head] = result.chain]
      /\ t.ring = PushUsed(s.ring, head)
  BY DEF ServeOne
<1>3. i \in Slots
  <2>1. s.ring.used_idx \in Int
    <3>1. s.ring.used_idx \in Idx
      BY <1>1 DEF Ring
    <3> QED BY Zenon, <3>1, Indices
  <2> QED BY <2>1, Indices
<1> HIDE DEF t, result
<1>4. /\ t.dev.queue_ready = s.dev.queue_ready /\ t.dev.queue_num = s.dev.queue_num
      /\ t.dev.last_avail = (s.dev.last_avail + 1) % IdxMod /\ t.dev.disk = result.disk
  BY <1>1, <1>2 DEF Dev
<1>5. t.chain[head] = result.chain /\ \A h \in Heads : h # head => t.chain[h] = s.chain[h]
  BY <1>1, <1>2
<1>6. /\ t.ring.avail = s.ring.avail /\ t.ring.avail_idx = s.ring.avail_idx
      /\ t.ring.used_idx = (s.ring.used_idx + 1) % IdxMod
      /\ t.ring.used = [s.ring.used EXCEPT ![i] = head]
  BY <1>1, <1>2 DEF PushUsed, Ring
<1>7. t.ring.used[i] = head /\ \A j \in Slots : j # i => t.ring.used[j] = s.ring.used[j]
  <2>1. s.ring.used \in [Slots -> Heads]
    BY <1>1 DEF Ring
  <2> HIDE DEF i
  <2> QED BY <1>3, <1>6, <2>1
<1>8. OneTurn(s, t, head)
  BY <1>4, <1>5, <1>6, <1>7 DEF OneTurn, result
<1> QED BY Zenon, <1>8 DEF t

LEMMA FirstTurn == ASSUME TypeOK PROVE AfterTurns(0)
<1>1. Turn(0).dev = dev /\ Turn(0).chain = chain /\ Turn(0).ring = ring
  BY TurnFacts
<1>2. (dev.last_avail + 0) % IdxMod = dev.last_avail /\ (ring.used_idx + 0) % IdxMod = ring.used_idx
  <2>1. \A i \in Idx : (i + 0) % IdxMod = i
    BY Indices, Wraps DEF Idx
  <2> QED BY <2>1, Typed
<1> QED BY <1>1, <1>2 DEF AfterTurns

LEMMA WrapsOnce ==
    ASSUME NEW i \in Int, NEW k \in Int
    PROVE  ((i % IdxMod) + k) % IdxMod = (i + k) % IdxMod
<1> DEFINE q == i \div IdxMod
           r == i % IdxMod
           p == (r + k) \div IdxMod
           s == (r + k) % IdxMod
<1>1. IdxMod \in Nat \ {0}
  BY Indices
<1>2. q \in Int /\ r \in Int /\ i = q * IdxMod + r
  BY <1>1, DivModOf
<1> HIDE DEF q, r
<1>3. r + k \in Int
  BY <1>2
<1>4. p \in Int /\ s \in 0 .. IdxMod - 1 /\ r + k = p * IdxMod + s
  BY <1>1, <1>3, DivModOf
<1> HIDE DEF p, s
<1>5. i + k \in Int /\ q + p \in Int /\ i + k = (q + p) * IdxMod + s
  BY <1>1, <1>2, <1>4
<1>6. (i + k) % IdxMod = s
  BY Zenon, <1>1, <1>4, <1>5, ModUnique
<1> QED BY <1>6 DEF r, s

LEMMA NextTurn ==
    ASSUME TypeOK, Backlog <= QueueNum,
           \A i, j \in 1 .. Backlog : PostedHead(i) = PostedHead(j) => i = j,
           NEW k \in 0 .. Backlog - 1, AfterTurns(k)
    PROVE  /\ AfterTurns(k + 1)
           /\ Turn(k + 1).dev.disk
              = HandleRequest(Turn(k).dev.disk, chain[PostedHead(k + 1)]).disk
<1> DEFINE s == Turn(k)
           t == Turn(k + 1)
           head == PostedHead(k + 1)
           i == s.ring.used_idx % QueueNum
           result == HandleRequest(s.dev.disk, s.chain[head])
<1>1. /\ Backlog \in Nat /\ k \in Nat /\ k + 1 \in 1 .. Backlog /\ k \in 0 .. Backlog
      /\ QueueNum \in Nat /\ (k + 1) - 1 = k /\ k + 1 \in Int
  BY Counts, BlkAssumption
<1>2. s \in Memory /\ head \in Heads /\ t = ServeOne(s, head)
  BY <1>1, TurnFacts, HeadsTyped
<1>3. /\ t.dev.queue_ready = s.dev.queue_ready /\ t.dev.queue_num = s.dev.queue_num
      /\ t.dev.last_avail = (s.dev.last_avail + 1) % IdxMod
      /\ t.dev.disk = result.disk
      /\ t.ring.avail = s.ring.avail /\ t.ring.avail_idx = s.ring.avail_idx
      /\ t.ring.used_idx = (s.ring.used_idx + 1) % IdxMod
      /\ t.ring.used[i] = head
      /\ \A j \in Slots : j # i => t.ring.used[j] = s.ring.used[j]
      /\ t.chain[head] = result.chain
      /\ \A h \in Heads : h # head => t.chain[h] = s.chain[h]
  <2> HIDE DEF s, t, head
  <2>1. s \in Memory /\ head \in Heads /\ t = ServeOne(s, head)
    BY Zenon, <1>2
  <2>2. OneTurn(s, ServeOne(s, head), head)
    BY Zenon, <2>1, ServeOneEffect
  <2>3. OneTurn(s, t, head)
    BY Zenon, <2>1, <2>2
  <2> QED BY Zenon, <2>3 DEF OneTurn, i, result
<1>4. /\ s.dev.queue_ready = dev.queue_ready /\ s.dev.queue_num = dev.queue_num
      /\ s.dev.last_avail = (dev.last_avail + k) % IdxMod
      /\ s.ring.avail = ring.avail /\ s.ring.avail_idx = ring.avail_idx
      /\ s.ring.used_idx = (ring.used_idx + k) % IdxMod
      /\ \A j \in Slots : (\A m \in 1 .. k : j # (ring.used_idx + m - 1) % QueueNum)
                          => s.ring.used[j] = ring.used[j]
      /\ \A j \in 1 .. k : s.ring.used[(ring.used_idx + j - 1) % QueueNum] = PostedHead(j)
      /\ \A h \in Heads : (\A j \in 1 .. k : h # PostedHead(j)) => s.chain[h] = chain[h]
      /\ \A j \in 1 .. k : s.chain[PostedHead(j)]
                           = HandleRequest(Turn(j - 1).dev.disk, chain[PostedHead(j)]).chain
  BY DEF AfterTurns
<1>5. dev.last_avail \in Int /\ ring.used_idx \in Int
  BY Zenon, Typed, Indices
<1>6. /\ t.dev.last_avail = (dev.last_avail + (k + 1)) % IdxMod
      /\ t.ring.used_idx = (ring.used_idx + (k + 1)) % IdxMod
  <2>1. \A a \in Int : (((a + k) % IdxMod) + 1) % IdxMod = (a + (k + 1)) % IdxMod
    <3> SUFFICES ASSUME NEW a \in Int
                 PROVE  (((a + k) % IdxMod) + 1) % IdxMod = (a + (k + 1)) % IdxMod
      OBVIOUS
    <3> DEFINE x == a + k
    <3>1. x \in Int /\ 1 \in Int
      BY <1>1
    <3>2. ((x % IdxMod) + 1) % IdxMod = (x + 1) % IdxMod
      <4> HIDE DEF x
      <4> QED BY Zenon, <3>1, WrapsOnce
    <3>3. x + 1 = a + (k + 1)
      BY <1>1
    <3> QED BY Zenon, <3>2, <3>3
  <2> QED BY Zenon, <1>3, <1>4, <1>5, <2>1
<1>7. i = (ring.used_idx + (k + 1) - 1) % QueueNum
  <2> DEFINE a == ring.used_idx + k
             b == a % IdxMod
  <2>1. a \in Int /\ 0 \in Int /\ a + 0 = a /\ ring.used_idx + (k + 1) - 1 = a
    BY <1>1, <1>5
  <2>2. (b + 0) % QueueNum = (a + 0) % QueueNum
    <3> HIDE DEF a
    <3> QED BY Zenon, <2>1, SlotOfWrapped
  <2>3. b \in Int
    <3> HIDE DEF a
    <3> QED BY Zenon, <2>1, Indices
  <2>4. b + 0 = b
    <3> HIDE DEF b
    <3> QED BY <2>3
  <2>5. i = b % QueueNum
    BY <1>4
  <2> HIDE DEF a, b
  <2> QED BY Zenon, <2>1, <2>2, <2>4, <2>5
<1>8. ASSUME NEW j \in 1 .. k
      PROVE  /\ (ring.used_idx + j - 1) % QueueNum # i
             /\ (ring.used_idx + j - 1) % QueueNum \in Slots
             /\ PostedHead(j) # head /\ PostedHead(j) \in Heads
  <2> DEFINE a == ring.used_idx + j - 1
             b == ring.used_idx + (k + 1) - 1
  <2>1. a \in Int /\ b \in Int /\ a < b /\ b < a + QueueNum
    BY <1>1, <1>5
  <2>2. a % QueueNum # b % QueueNum /\ a % QueueNum \in Slots
    <3> HIDE DEF a, b
    <3> QED BY <2>1, SlotsDiffer, Indices
  <2>3. j \in 1 .. Backlog /\ j # k + 1 /\ j \in Int
    BY <1>1
  <2>4. PostedHead(j) # head /\ PostedHead(j) \in Heads
    BY <1>1, <2>3, HeadsTyped
  <2> HIDE DEF head, i
  <2> QED BY Zenon, <1>7, <2>2, <2>4
<1>9. s.chain[head] = chain[head]
  BY <1>2, <1>4, <1>8
<1>10. \A j \in 1 .. k + 1 : j \in 1 .. k \/ j = k + 1
  BY <1>1
<1>11. \A j \in 1 .. k : j \in 1 .. k + 1
  BY <1>1
<1>12. k + 1 \in 1 .. k + 1
  BY <1>1
<1> HIDE DEF s, t, head, i
<1>13. \A j \in Slots : (\A m \in 1 .. k + 1 : j # (ring.used_idx + m - 1) % QueueNum)
                        => t.ring.used[j] = ring.used[j]
  BY Zenon, <1>3, <1>4, <1>7, <1>11, <1>12
<1>14. ASSUME NEW j \in 1 .. k + 1
       PROVE  t.ring.used[(ring.used_idx + j - 1) % QueueNum] = PostedHead(j)
  <2>1. CASE j \in 1 .. k
    BY Zenon, <1>3, <1>4, <1>8, <2>1
  <2>2. CASE j = k + 1
    BY Zenon, <1>3, <1>7, <2>2 DEF head
  <2> QED BY <1>10, <2>1, <2>2
<1>15. \A h \in Heads : (\A j \in 1 .. k + 1 : h # PostedHead(j)) => t.chain[h] = chain[h]
  <2> SUFFICES ASSUME NEW h \in Heads, \A j \in 1 .. k + 1 : h # PostedHead(j)
               PROVE  t.chain[h] = chain[h]
    OBVIOUS
  <2>1. h # head /\ \A j \in 1 .. k : h # PostedHead(j)
    BY Zenon, <1>11, <1>12 DEF head
  <2> QED BY Zenon, <1>3, <1>4, <2>1
<1>16. ASSUME NEW j \in 1 .. k + 1
       PROVE  t.chain[PostedHead(j)]
              = HandleRequest(Turn(j - 1).dev.disk, chain[PostedHead(j)]).chain
  <2>1. CASE j \in 1 .. k
    BY Zenon, <1>3, <1>4, <1>8, <2>1
  <2>2. CASE j = k + 1
    <3>1. PostedHead(j) = head /\ Turn(j - 1) = s
      BY Zenon, <1>1, <2>2 DEF head, s
    <3> QED BY Zenon, <1>3, <1>9, <3>1 DEF result
  <2> QED BY <1>10, <2>1, <2>2
<1>17. AfterTurns(k + 1)
  BY Zenon, <1>3, <1>4, <1>6, <1>13, <1>14, <1>15, <1>16 DEF AfterTurns, t
<1>18. t.dev.disk = HandleRequest(s.dev.disk, chain[head]).disk
  BY Zenon, <1>3, <1>9 DEF result
<1> QED BY Zenon, <1>17, <1>18 DEF s, t, head

LEMMA EveryTurn ==
    ASSUME TypeOK, Backlog <= QueueNum,
           \A i, j \in 1 .. Backlog : PostedHead(i) = PostedHead(j) => i = j
    PROVE  /\ \A k \in 0 .. Backlog : AfterTurns(k)
           /\ \A k \in 1 .. Backlog :
                 Turn(k).dev.disk = HandleRequest(Turn(k - 1).dev.disk, chain[PostedHead(k)]).disk
<1>1. Backlog \in Nat
  BY Counts
<1> DEFINE Good == {k \in 0 .. Backlog : AfterTurns(k)}
<1>2. 0 \in Good
  BY <1>1, FirstTurn
<1>3. \A k \in 0 .. Backlog - 1 : k \in Good => k + 1 \in Good
  <2> SUFFICES ASSUME NEW k \in 0 .. Backlog - 1, AfterTurns(k)
               PROVE  k + 1 \in 0 .. Backlog /\ AfterTurns(k + 1)
    OBVIOUS
  <2>1. k + 1 \in 0 .. Backlog
    BY <1>1
  <2> QED BY <2>1, NextTurn
<1>4. 0 .. Backlog \subseteq Good
  <2> HIDE DEF Good
  <2> QED BY <1>1, <1>2, <1>3, UpTo
<1>5. \A k \in 0 .. Backlog : AfterTurns(k)
  BY <1>4
<1>6. ASSUME NEW k \in 1 .. Backlog
      PROVE  Turn(k).dev.disk = HandleRequest(Turn(k - 1).dev.disk, chain[PostedHead(k)]).disk
  <2> DEFINE m == k - 1
  <2>1. m \in 0 .. Backlog - 1 /\ m + 1 = k /\ m \in 0 .. Backlog
    BY <1>1
  <2>2. Turn(m + 1).dev.disk = HandleRequest(Turn(m).dev.disk, chain[PostedHead(m + 1)]).disk
    <3> HIDE DEF m
    <3> QED BY <1>5, <2>1, NextTurn
  <2> HIDE DEF m
  <2> QED BY Zenon, <2>1, <2>2 DEF m
<1> QED BY <1>5, <1>6

-----------------------------------------------------------------------------
(* A poll moves every posted chain, in order, behind those already done     *)

LEMMA PollMoves ==
    ASSUME FlightInv, PollBatch
    PROVE  /\ dev.queue_ready /\ dev'.queue_ready = dev.queue_ready
           /\ dev'.queue_num = dev.queue_num /\ drv' = drv /\ Backlog # 0
           /\ dev'.disk = Turn(Backlog).dev.disk
           /\ Backlog' = 0 /\ Outstanding' = Outstanding + Backlog
           /\ NextHead' = NextHead
           /\ \A k \in 1 .. Outstanding : /\ DoneHead(k)' = DoneHead(k)
                                          /\ chain'[DoneHead(k)] = chain[DoneHead(k)]
           /\ \A k \in 1 .. Backlog :
                 /\ \A m : m = Outstanding + k => DoneHead(m)' = PostedHead(k)
                 /\ chain'[PostedHead(k)]
                    = HandleRequest(Turn(k - 1).dev.disk, chain[PostedHead(k)]).chain
<1> DEFINE s == Turn(Backlog)
           u == ring.used_idx
           c == drv.last_used
<1>1. TypeOK /\ Backlog \in Nat /\ Outstanding \in Nat /\ Backlog \in 0 .. Backlog /\ QueueNum \in Nat
  BY Counts, BlkAssumption DEF FlightInv
<1>2. dev.queue_ready /\ Backlog # 0
  BY DEF PollBatch, NothingToServe
<1>3. PostedOnce /\ DoneOnce /\ Backlog + Outstanding <= QueueNum
  <2>1. Backlog + Outstanding + Posting + Cardinality(drv.free) <= QueueNum
    BY <1>2 DEF FlightInv, RoomForAll
  <2>2. Posting \in {0, 1} /\ Cardinality(drv.free) \in Nat
    BY <1>1, Typed, Counts
  <2> QED BY <1>1, <1>2, <2>1, <2>2 DEF FlightInv, OneOwner
<1>4. /\ Len(Batch) = Backlog
      /\ dev' = [s.dev EXCEPT !.notified = FALSE, !.int_status = TRUE]
      /\ chain' = s.chain /\ ring' = s.ring /\ drv' = drv
  <2>1. Len(Batch) = Backlog
    BY <1>1, BatchIsPosted
  <2> QED BY Zenon, <2>1 DEF PollBatch, EndBatch, Turn
<1>5. AfterTurns(Backlog) /\ s \in Memory
  <2>1. Backlog <= QueueNum
    BY <1>1, <1>3
  <2>2. \A i, j \in 1 .. Backlog : PostedHead(i) = PostedHead(j) => i = j
    BY <1>3 DEF PostedOnce
  <2> QED BY <1>1, <2>1, <2>2, EveryTurn, TurnFacts
<1>6. /\ s.dev.queue_ready = dev.queue_ready /\ s.dev.queue_num = dev.queue_num
      /\ s.dev.last_avail = (dev.last_avail + Backlog) % IdxMod
      /\ s.ring.avail = ring.avail /\ s.ring.avail_idx = ring.avail_idx
      /\ s.ring.used_idx = (u + Backlog) % IdxMod
      /\ \A i \in Slots : (\A j \in 1 .. Backlog : i # (u + j - 1) % QueueNum)
                          => s.ring.used[i] = ring.used[i]
      /\ \A j \in 1 .. Backlog : s.ring.used[(u + j - 1) % QueueNum] = PostedHead(j)
      /\ \A h \in Heads : (\A j \in 1 .. Backlog : h # PostedHead(j)) => s.chain[h] = chain[h]
      /\ \A j \in 1 .. Backlog :
            s.chain[PostedHead(j)]
            = HandleRequest(Turn(j - 1).dev.disk, chain[PostedHead(j)]).chain
  BY <1>5 DEF AfterTurns
<1> HIDE DEF s
<1>7. /\ dev'.queue_ready = s.dev.queue_ready /\ dev'.queue_num = s.dev.queue_num
      /\ dev'.last_avail = s.dev.last_avail /\ dev'.disk = s.dev.disk
  BY <1>4, <1>5 DEF Memory, Dev
<1>8. u \in Int /\ c \in Int
  BY Zenon, <1>1, Typed, Indices
<1>9. Backlog' = 0
  <2>1. dev'.last_avail = ring.avail_idx
    <3>1. (dev.last_avail + Backlog) % IdxMod = ring.avail_idx
      BY Zenon, <1>1, Typed, Distance DEF Backlog
    <3> QED BY <1>6, <1>7, <3>1
  <2> QED BY <1>1, <1>4, <1>6, <2>1, Typed, NoneOutstanding DEF Backlog
<1>10. Outstanding' = Outstanding + Backlog
  <2>1. ((u - c) % IdxMod) + Backlog < IdxMod
    <3>1. Outstanding + Backlog < IdxMod
      BY <1>1, <1>3, BlkAssumption
    <3> QED BY <3>1 DEF Outstanding
  <2>2. (((u + Backlog) % IdxMod) - c) % IdxMod = ((u - c) % IdxMod) + Backlog
    BY <1>1, <2>1, Typed, Forward
  <2> QED BY <1>4, <1>6, <2>2 DEF Outstanding
<1>11. NextHead' = NextHead
  BY <1>4, <1>6 DEF NextHead
\* The slot of the j-th request of the batch, seen from the driver's cursor.
<1>12. ASSUME NEW j \in 1 .. Backlog
       PROVE  (u + j - 1) % QueueNum = (c + (Outstanding + j) - 1) % QueueNum
  <2> DEFINE x == c + Outstanding
             y == j - 1
  <2>1. x \in Int /\ y \in Int /\ c + (Outstanding + j) - 1 = x + y /\ u + j - 1 = u + y
    BY <1>1, <1>8
  <2>2. x % IdxMod = u
    BY Zenon, <1>1, Typed, Distance DEF Outstanding
  <2>3. ((x % IdxMod) + y) % QueueNum = (x + y) % QueueNum
    <3> HIDE DEF x, y
    <3> QED BY Zenon, <2>1, SlotOfWrapped
  <2> HIDE DEF x, y
  <2> QED BY Zenon, <2>1, <2>2, <2>3
<1>13. ASSUME NEW k \in 1 .. Outstanding
       PROVE  DoneHead(k)' = DoneHead(k) /\ chain'[DoneHead(k)] = chain[DoneHead(k)]
  <2> DEFINE a == c + k - 1
  <2>1. a \in Int /\ k \in Int
    BY <1>1, <1>8
  <2>2. a % QueueNum \in Slots
    <3> HIDE DEF a
    <3> QED BY Zenon, <2>1, Indices
  <2>3. ASSUME NEW j \in 1 .. Backlog PROVE a % QueueNum # (u + j - 1) % QueueNum
    <3> DEFINE b == c + (Outstanding + j) - 1
    <3>1. b \in Int /\ a < b /\ b < a + QueueNum
      BY <1>1, <1>3, <1>8
    <3>2. a % QueueNum # b % QueueNum
      <4> HIDE DEF a, b
      <4> QED BY <2>1, <3>1, SlotsDiffer
    <3> QED BY Zenon, <1>12, <3>2
  <2>4. ring'.used[a % QueueNum] = ring.used[a % QueueNum]
    <3> HIDE DEF a
    <3> QED BY Zenon, <1>4, <1>6, <2>2, <2>3
  <2>5. DoneHead(k)' = DoneHead(k)
    BY Zenon, <1>4, <2>4 DEF DoneHead
  <2>6. DoneHead(k) \in Heads /\ \A j \in 1 .. Backlog : DoneHead(k) # PostedHead(j)
    <3>1. DoneHead(k) \in Heads
      BY Zenon, <1>1, <2>1, HeadsTyped
    <3>2. \A j \in 1 .. Backlog : PostedHead(j) # DoneHead(k)
      BY <1>3 DEF PostedOnce
    <3> QED BY <3>1, <3>2
  <2> QED BY Zenon, <1>4, <1>6, <2>5, <2>6
<1>14. ASSUME NEW k \in 1 .. Backlog, NEW m, m = Outstanding + k
       PROVE  DoneHead(m)' = PostedHead(k)
  <2>1. DoneHead(m)' = ring'.used[(c + m - 1) % QueueNum]
    BY <1>4 DEF DoneHead
  <2> QED BY Zenon, <1>4, <1>6, <1>12, <1>14, <2>1
<1>15. \A k \in 1 .. Backlog :
          chain'[PostedHead(k)] = HandleRequest(Turn(k - 1).dev.disk, chain[PostedHead(k)]).chain
  BY Zenon, <1>4, <1>6
<1> QED BY Zenon, <1>2, <1>4, <1>6, <1>7, <1>9, <1>10, <1>11, <1>13, <1>14, <1>15 DEF s

LEMMA PollFlight == ASSUME FlightInv, PollBatch PROVE RoomForAll' /\ OneOwner'
<1>1. /\ dev.queue_ready /\ dev'.queue_ready = dev.queue_ready
      /\ dev'.queue_num = dev.queue_num /\ drv' = drv
      /\ Backlog' = 0 /\ Outstanding' = Outstanding + Backlog /\ NextHead' = NextHead
  BY PollMoves
<1>2. \A k \in 1 .. Outstanding : DoneHead(k)' = DoneHead(k)
  BY PollMoves
<1>3. \A k \in 1 .. Backlog : \A m : m = Outstanding + k => DoneHead(m)' = PostedHead(k)
  BY PollMoves
<1>4. /\ Backlog \in Nat /\ Outstanding \in Nat /\ Cardinality(drv.free) \in Nat
      /\ Posting \in {0, 1} /\ PostedOnce /\ DoneOnce /\ (drv.posting => NextHead \notin drv.free)
  BY <1>1, Counts, Typed DEF FlightInv, OneOwner
<1>5. RoomForAll'
  <2>1. /\ dev.queue_num = QueueNum /\ QueueNum \in Nat
        /\ Backlog + Outstanding + Posting + Cardinality(drv.free) <= QueueNum
        /\ Posting' = Posting
    BY <1>1, BlkAssumption DEF FlightInv, RoomForAll, Posting
  <2>2. 0 + (Outstanding + Backlog) + Posting + Cardinality(drv.free) <= QueueNum
    BY <1>4, <2>1
  <2> QED BY <1>1, <2>1, <2>2 DEF RoomForAll
<1>6. PostedOnce'
  BY <1>1 DEF PostedOnce
\* Every chain done now was done before or posted before.
<1>7. ASSUME NEW j \in 1 .. Outstanding + Backlog
      PROVE  \/ j \in 1 .. Outstanding /\ DoneHead(j)' = DoneHead(j)
             \/ \E k \in 1 .. Backlog : j = Outstanding + k /\ DoneHead(j)' = PostedHead(k)
  <2>1. CASE j <= Outstanding
    <3>1. j \in 1 .. Outstanding
      BY <1>4, <2>1
    <3> QED BY <1>2, <3>1
  <2>2. CASE ~ j <= Outstanding
    <3> DEFINE k == j - Outstanding
    <3>1. k \in 1 .. Backlog /\ j = Outstanding + k
      BY <1>4, <2>2
    <3> HIDE DEF k
    <3> QED BY Zenon, <1>3, <3>1
  <2> QED BY <2>1, <2>2
<1>8. DoneOnce'
  <2> SUFFICES ASSUME NEW j \in 1 .. Outstanding + Backlog
               PROVE  /\ DoneHead(j)' \notin drv.free
                      /\ drv.posting => DoneHead(j)' # NextHead
                      /\ \A k \in 1 .. Outstanding + Backlog : DoneHead(j)' = DoneHead(k)' => j = k
    BY Zenon, <1>1 DEF DoneOnce
  <2>1. CASE j \in 1 .. Outstanding /\ DoneHead(j)' = DoneHead(j)
    <3>1. DoneHead(j) \notin drv.free /\ (drv.posting => DoneHead(j) # NextHead)
      BY <1>4, <2>1 DEF DoneOnce
    <3>2. ASSUME NEW k \in 1 .. Outstanding + Backlog, DoneHead(j) = DoneHead(k)' PROVE j = k
      BY <1>4, <1>7, <2>1, <3>2 DEF DoneOnce, PostedOnce
    <3> QED BY <2>1, <3>1, <3>2
  <2>2. ASSUME NEW p \in 1 .. Backlog, j = Outstanding + p, DoneHead(j)' = PostedHead(p)
        PROVE  /\ DoneHead(j)' \notin drv.free
               /\ drv.posting => DoneHead(j)' # NextHead
               /\ \A k \in 1 .. Outstanding + Backlog : DoneHead(j)' = DoneHead(k)' => j = k
    <3>1. PostedHead(p) \notin drv.free /\ (drv.posting => PostedHead(p) # NextHead)
      BY <1>4 DEF PostedOnce
    <3>2. ASSUME NEW k \in 1 .. Outstanding + Backlog, PostedHead(p) = DoneHead(k)' PROVE j = k
      BY <1>4, <1>7, <2>2, <3>2 DEF PostedOnce
    <3> QED BY <2>2, <3>1, <3>2
  <2> QED BY Zenon, <1>7, <2>1, <2>2
<1> QED BY <1>1, <1>4, <1>5, <1>6, <1>8 DEF OneOwner

LEMMA FlightStep == ASSUME FlightInv, TypeOK', [Next]_vars PROVE FlightInv'
<1>1. CASE Stays
  BY <1>1, StaysFlight DEF FlightInv
<1>2. CASE Next /\ ~ Stays
  <2>1. PollBatch \/ Probe \/ WriteSlot \/ Publish \/ Reset \/ CollectOne
    BY <1>2 DEF Next, Poll, Handler, Stays
  <2> QED BY <2>1, PollFlight, ProbeFlight, WriteFlight, PublishFlight, ResetFlight,
             CollectFlight DEF FlightInv
<1> QED BY <1>1, <1>2 DEF Stays

(* Every chain has one owner at any time: it is free, being posted, posted  *)
(* or done; the rings have room for all of them, so that no entry is        *)
(* overwritten before it is read, across batches and the wrap of indices.   *)
THEOREM EveryChainHasOneOwner == Spec => []FlightInv
<1>1. Init /\ TypeOK => FlightInv
  BY DEF Init, FlightInv, RoomForAll, OneOwner
<1>2. FlightInv /\ TypeOK' /\ [Next]_vars => FlightInv'
  BY FlightStep
<1> QED BY <1>1, <1>2, TypeCorrect, PTL DEF Spec

-----------------------------------------------------------------------------
(* The rings, read as the queue of BlockQueue *)

ReqOf(h) == [type |-> chain[h].type, sector |-> chain[h].sector, data |-> chain[h].data]
PostedOf(h) == [head |-> h, req |-> ReqOf(h)]
DoneOf(h) == [head |-> h, data |-> chain[h].data, status |-> chain[h].status]
NumPosted == IF dev.queue_ready THEN Backlog ELSE 0
NumDone == IF dev.queue_ready THEN Outstanding ELSE 0
PostedRecord == [head: Heads, req: Queue!Request]
DoneRecord == [head: Heads, data: Blocks, status: {"none", "ok", "unsupp"}]

Views ==
    /\ NumPosted \in Nat /\ NumDone \in Nat
    /\ Posted \in Seq(PostedRecord) /\ Len(Posted) = NumPosted
    /\ Done \in Seq(DoneRecord) /\ Len(Done) = NumDone
    /\ \A k \in 1 .. NumPosted : Posted[k] = PostedOf(PostedHead(k))
    /\ \A k \in 1 .. NumDone : Done[k] = DoneOf(DoneHead(k))

LEMMA RecordTypes ==
    ASSUME TypeOK, NEW h \in Heads
    PROVE  ReqOf(h) \in Queue!Request /\ PostedOf(h) \in PostedRecord /\ DoneOf(h) \in DoneRecord
<1>1. chain[h] \in Chain
  BY DEF TypeOK
<1>2. ReqOf(h) \in Queue!Request
  BY <1>1 DEF ReqOf, Queue!Request, Chain
<1>3. DoneOf(h) \in DoneRecord
  BY <1>1 DEF DoneOf, DoneRecord, Chain
<1> QED BY <1>2, <1>3 DEF PostedOf, PostedRecord

LEMMA TheViews == TypeOK => Views
<1> SUFFICES ASSUME TypeOK PROVE Views
  OBVIOUS
<1>1. NumPosted \in Nat /\ NumDone \in Nat
  BY Counts, Typed DEF NumPosted, NumDone
<1>2. /\ Posted = [k \in 1 .. NumPosted |-> PostedOf(PostedHead(k))]
      /\ Done = [k \in 1 .. NumDone |-> DoneOf(DoneHead(k))]
  BY DEF Posted, Done, NumPosted, NumDone, PostedOf, DoneOf, ReqOf, PostedHead, DoneHead
<1>3. \A k \in 1 .. NumPosted : PostedOf(PostedHead(k)) \in PostedRecord
  <2> SUFFICES ASSUME NEW k \in 1 .. NumPosted PROVE PostedOf(PostedHead(k)) \in PostedRecord
    OBVIOUS
  <2>1. PostedHead(k) \in Heads
    BY <1>1, HeadsTyped
  <2> QED BY <2>1, RecordTypes
<1>4. \A k \in 1 .. NumDone : DoneOf(DoneHead(k)) \in DoneRecord
  <2> SUFFICES ASSUME NEW k \in 1 .. NumDone PROVE DoneOf(DoneHead(k)) \in DoneRecord
    OBVIOUS
  <2>1. DoneHead(k) \in Heads
    BY <1>1, HeadsTyped
  <2> QED BY <2>1, RecordTypes
<1>5. /\ Posted \in [1 .. NumPosted -> PostedRecord]
      /\ \A k \in 1 .. NumPosted : Posted[k] = PostedOf(PostedHead(k))
  BY <1>2, <1>3
<1>6. /\ Done \in [1 .. NumDone -> DoneRecord]
      /\ \A k \in 1 .. NumDone : Done[k] = DoneOf(DoneHead(k))
  BY <1>2, <1>4
<1> HIDE DEF Posted, Done
<1>7. Posted \in Seq(PostedRecord) /\ Len(Posted) = NumPosted
  BY <1>1, <1>5
<1>8. Done \in Seq(DoneRecord) /\ Len(Done) = NumDone
  BY <1>1, <1>6
<1> QED BY <1>1, <1>5, <1>6, <1>7, <1>8 DEF Views

LEMMA TheViewsNext == TypeOK' => Views'
BY TheViews, PTL

QueueStep == [Queue!Next]_(Queue!vars)

(* A step that leaves the disk, and the chains posted and done, alone.      *)
LEMMA QueueStutters ==
    ASSUME dev'.disk = dev.disk, Posted' = Posted, Done' = Done
    PROVE  QueueStep
BY DEF QueueStep, Queue!vars

(* The posted requests are the same if their chains are, and so the done.   *)
LEMMA SamePosted ==
    ASSUME Views, Views', NumPosted' = NumPosted,
           \A k \in 1 .. NumPosted : PostedOf(PostedHead(k))' = PostedOf(PostedHead(k))
    PROVE  Posted' = Posted
<1>1. /\ Posted \in Seq(PostedRecord) /\ Posted' \in Seq(PostedRecord)
      /\ Len(Posted') = Len(Posted) /\ Len(Posted) = NumPosted
  BY DEF Views, PostedRecord, Queue!Request
<1>2. \A k \in 1 .. NumPosted : Posted'[k] = Posted[k]
  BY DEF Views
<1> QED BY <1>1, <1>2, SeqEqual

LEMMA SameDone ==
    ASSUME Views, Views', NumDone' = NumDone,
           \A k \in 1 .. NumDone : DoneOf(DoneHead(k))' = DoneOf(DoneHead(k))
    PROVE  Done' = Done
<1>1. /\ Done \in Seq(DoneRecord) /\ Done' \in Seq(DoneRecord)
      /\ Len(Done') = Len(Done) /\ Len(Done) = NumDone
  BY DEF Views, DoneRecord
<1>2. \A k \in 1 .. NumDone : Done'[k] = Done[k]
  BY DEF Views
<1> QED BY <1>1, <1>2, SeqEqual

LEMMA NothingLeft ==
    ASSUME Views', NumPosted' = 0
    PROVE  Posted' = << >>
<1>1. Posted' \in Seq(PostedRecord) /\ Len(Posted') = 0
  BY DEF Views, PostedRecord, Queue!Request
<1> QED BY <1>1, EmptySeq

LEMMA NothingDone ==
    ASSUME Views', NumDone' = 0
    PROVE  Done' = << >>
<1>1. Done' \in Seq(DoneRecord) /\ Len(Done') = 0
  BY DEF Views, DoneRecord
<1> QED BY <1>1, EmptySeq

-----------------------------------------------------------------------------
(* The step simulation *)

LEMMA StaysQueue == ASSUME FlightInv, TypeOK', Stays PROVE QueueStep
<1>1. /\ Backlog' = Backlog /\ Outstanding' = Outstanding /\ ring' = ring /\ chain' = chain
      /\ dev'.disk = dev.disk /\ dev'.queue_ready = dev.queue_ready
      /\ dev'.last_avail = dev.last_avail /\ drv'.last_used = drv.last_used
  BY StaysFlight
<1>2. Posted' = Posted /\ Done' = Done
  BY <1>1 DEF Posted, Done
<1> QED BY <1>1, <1>2, QueueStutters

LEMMA ResetQueue == ASSUME FlightInv, TypeOK', Reset PROVE QueueStep
<1>1. dev'.queue_ready = FALSE /\ dev'.disk = dev.disk
  BY ResetFlight
<1>2. NumPosted' = 0 /\ NumDone' = 0
  BY <1>1 DEF NumPosted, NumDone
<1>3. Posted' = << >> /\ Done' = << >>
  BY <1>2, TheViewsNext, NothingLeft, NothingDone
<1> QED BY <1>1, <1>3 DEF QueueStep, Queue!Next, Queue!Reset

LEMMA ProbeQueue == ASSUME FlightInv, TypeOK', Probe PROVE QueueStep
<1>1. Backlog' = 0 /\ Outstanding' = 0 /\ ~ dev.queue_ready /\ dev'.disk = dev.disk
  BY ProbeFlight DEF Probe, FlightInv, TypeOK, Dev
<1>2. NumPosted' = 0 /\ NumDone' = 0
  BY <1>1 DEF NumPosted, NumDone
<1>3. Posted' = << >> /\ Done' = << >>
  BY <1>2, TheViewsNext, NothingLeft, NothingDone
<1> QED BY <1>1, <1>3 DEF QueueStep, Queue!Next, Queue!Reset

(* A slot being written is not posted yet, and its chain was the driver's.  *)
LEMMA WriteQueue == ASSUME FlightInv, TypeOK', WriteSlot PROVE QueueStep
<1>1. /\ dev.queue_ready /\ dev' = dev /\ Backlog' = Backlog /\ Outstanding' = Outstanding
      /\ \A k : DoneHead(k)' = DoneHead(k)
  BY WriteMoves
<1>2. \A k \in 1 .. Backlog : PostedHead(k)' = PostedHead(k)
  BY WriteMoves
<1>3. PICK h \in drv.free : \A g \in Heads : g # h => chain'[g] = chain[g]
  BY WriteMoves
<1>4. TypeOK /\ PostedOnce /\ DoneOnce
  BY <1>1 DEF FlightInv, OneOwner
<1>5. NumPosted = Backlog /\ NumPosted' = Backlog /\ NumDone = Outstanding /\ NumDone' = Outstanding
  BY <1>1 DEF NumPosted, NumDone
<1>6. ASSUME NEW k \in 1 .. Backlog PROVE PostedOf(PostedHead(k))' = PostedOf(PostedHead(k))
  <2>1. PostedHead(k) \in Heads /\ PostedHead(k) # h
    BY <1>4, HeadsTyped, Counts DEF PostedOnce
  <2> QED BY <1>2, <1>3, <2>1 DEF PostedOf, ReqOf
<1>7. ASSUME NEW k \in 1 .. Outstanding PROVE DoneOf(DoneHead(k))' = DoneOf(DoneHead(k))
  <2>1. DoneHead(k) \in Heads /\ DoneHead(k) # h
    BY <1>4, HeadsTyped, Counts DEF DoneOnce
  <2> QED BY <1>1, <1>3, <2>1 DEF DoneOf
<1>8. Posted' = Posted
  BY <1>4, <1>5, <1>6, TheViews, TheViewsNext, SamePosted
<1>9. Done' = Done
  BY <1>4, <1>5, <1>7, TheViews, TheViewsNext, SameDone
<1> QED BY <1>1, <1>8, <1>9, QueueStutters

(* Publishing the index posts the request of the slot written.              *)
LEMMA PublishQueue == ASSUME FlightInv, TypeOK', Publish PROVE QueueStep
<1>1. /\ dev.queue_ready /\ drv.posting /\ dev' = dev /\ chain' = chain
      /\ Backlog' = Backlog + 1 /\ Outstanding' = Outstanding
      /\ \A k : DoneHead(k)' = DoneHead(k)
  BY PublishMoves
<1>2. \A k \in 1 .. Backlog : PostedHead(k)' = PostedHead(k)
  BY PublishMoves
<1>3. \A k : k = Backlog + 1 => PostedHead(k)' = NextHead
  BY PublishMoves
<1>4. /\ TypeOK /\ PostedOnce /\ DoneOnce /\ Backlog \in Nat /\ Outstanding \in Nat
  BY <1>1, Counts DEF FlightInv, OneOwner
<1>5. /\ NumPosted = Backlog /\ NumPosted' = Backlog + 1
      /\ NumDone = Outstanding /\ NumDone' = Outstanding
  BY <1>1 DEF NumPosted, NumDone
<1>6. Views /\ Views'
  BY <1>4, TheViews, TheViewsNext
<1>7. Done' = Done
  <2>1. \A k \in 1 .. Outstanding : DoneOf(DoneHead(k))' = DoneOf(DoneHead(k))
    BY <1>1 DEF DoneOf
  <2> QED BY <1>5, <1>6, <2>1, SameDone
<1>8. NextHead \in Heads /\ ReqOf(NextHead) \in Queue!Request /\ PostedOf(NextHead) \in PostedRecord
  <2>1. NextHead \in Heads
    BY <1>4, HeadsTyped
  <2> QED BY <1>4, <2>1, RecordTypes
<1>9. Posted' = Append(Posted, PostedOf(NextHead))
  <2> DEFINE t == Append(Posted, PostedOf(NextHead))
  <2>1. Posted \in Seq(PostedRecord) /\ Len(Posted) = Backlog
        /\ \A k \in 1 .. Backlog : Posted[k] = PostedOf(PostedHead(k))
    BY <1>5, <1>6 DEF Views
  <2>2. /\ t \in Seq(PostedRecord) /\ Len(t) = Backlog + 1
        /\ \A k \in 1 .. Backlog : t[k] = Posted[k]
        /\ t[Backlog + 1] = PostedOf(NextHead)
    BY <1>8, <2>1, AppendProperties
  <2>3. /\ Posted' \in Seq(PostedRecord) /\ Len(Posted') = Backlog + 1
        /\ \A k \in 1 .. Backlog + 1 : Posted'[k] = PostedOf(PostedHead(k))'
    <3>1. PostedRecord' = PostedRecord
      BY DEF PostedRecord, Queue!Request
    <3> QED BY <1>5, <1>6, <3>1 DEF Views
  <2>4. ASSUME NEW k \in 1 .. Backlog + 1 PROVE Posted'[k] = t[k]
    <3>1. CASE k \in 1 .. Backlog
      <4>1. PostedOf(PostedHead(k))' = PostedOf(PostedHead(k))
        BY <1>1, <1>2, <3>1 DEF PostedOf, ReqOf
      <4> HIDE DEF t
      <4> QED BY Zenon, <2>1, <2>2, <2>3, <3>1, <4>1
    <3>2. CASE k = Backlog + 1
      <4>1. PostedOf(PostedHead(k))' = PostedOf(NextHead)
        BY <1>1, <1>3, <3>2 DEF PostedOf, ReqOf
      <4> HIDE DEF t
      <4> QED BY Zenon, <2>2, <2>3, <3>2, <4>1
    <3>3. k \in 1 .. Backlog \/ k = Backlog + 1
      BY <1>4
    <3> QED BY Zenon, <3>1, <3>2, <3>3
  <2> HIDE DEF t
  <2>5. Posted' = t
    BY <2>2, <2>3, <2>4, SeqEqual
  <2> QED BY <2>5 DEF t
<1>10. NextHead \notin Queue!Busy
  <2> SUFFICES ASSUME NextHead \in Queue!Busy PROVE FALSE
    OBVIOUS
  <2>1. /\ DOMAIN Posted = 1 .. Backlog /\ DOMAIN Done = 1 .. Outstanding
        /\ \A k \in 1 .. Backlog : Posted[k].head = PostedHead(k)
        /\ \A k \in 1 .. Outstanding : Done[k].head = DoneHead(k)
    BY <1>5, <1>6 DEF Views, PostedOf, DoneOf
  <2>2. CASE NextHead \in {Posted[k].head : k \in DOMAIN Posted}
    BY <1>1, <1>4, <2>1, <2>2 DEF PostedOnce
  <2>3. CASE NextHead \in {Done[k].head : k \in DOMAIN Done}
    BY <1>1, <1>4, <2>1, <2>3 DEF DoneOnce
  <2> QED BY <2>2, <2>3 DEF Queue!Busy
<1>11. Queue!Post
  <2>1. Posted' = Append(Posted, [head |-> NextHead, req |-> ReqOf(NextHead)])
    BY <1>9 DEF PostedOf
  <2>2. UNCHANGED <<dev.disk, Done>>
    BY <1>1, <1>7
  <2> QED BY <1>8, <1>10, <2>1, <2>2 DEF Queue!Post
<1> QED BY <1>11 DEF QueueStep, Queue!Next

LEMMA CollectQueue == ASSUME FlightInv, TypeOK', CollectOne PROVE QueueStep
<1>1. /\ dev' = dev /\ Backlog' = Backlog /\ Outstanding # 0 /\ Outstanding' = Outstanding - 1
      /\ \A k : PostedHead(k)' = PostedHead(k)
  BY CollectMoves
<1>2. \A k \in Nat : DoneHead(k)' = DoneHead(k + 1)
  BY CollectMoves
<1>3. \A g \in Heads : g # DoneHead(1) => chain'[g] = chain[g]
  BY CollectMoves
<1>4. TypeOK /\ Backlog \in Nat /\ Outstanding \in Nat /\ dev.queue_ready \in BOOLEAN
  BY Counts, Typed DEF FlightInv
<1>5. Views /\ Views'
  BY <1>4, TheViews, TheViewsNext
<1>6. CASE ~ dev.queue_ready
  <2>1. NumPosted = 0 /\ NumPosted' = 0 /\ NumDone = 0 /\ NumDone' = 0
    BY <1>1, <1>6 DEF NumPosted, NumDone
  <2>2. Posted' = Posted /\ Done' = Done
    BY <1>5, <2>1, SamePosted, SameDone
  <2> QED BY <1>1, <2>2, QueueStutters
<1>7. CASE dev.queue_ready
  <2>1. /\ NumPosted = Backlog /\ NumPosted' = Backlog
        /\ NumDone = Outstanding /\ NumDone' = Outstanding - 1
    BY <1>1, <1>7 DEF NumPosted, NumDone
  <2>2. PostedOnce /\ DoneOnce /\ 1 \in 1 .. Outstanding
    BY <1>1, <1>4, <1>7 DEF FlightInv, OneOwner
  <2>3. Posted' = Posted
    <3>1. ASSUME NEW k \in 1 .. Backlog PROVE PostedOf(PostedHead(k))' = PostedOf(PostedHead(k))
      <4>1. PostedHead(k) \in Heads /\ PostedHead(k) # DoneHead(1)
        BY <1>4, <2>2, HeadsTyped DEF PostedOnce
      <4> QED BY <1>1, <1>3, <4>1 DEF PostedOf, ReqOf
    <3> QED BY <1>5, <2>1, <3>1, SamePosted
  <2>4. Done # << >> /\ Done' = Tail(Done)
    <3>1. /\ Done \in Seq(DoneRecord) /\ Len(Done) = Outstanding
          /\ \A k \in 1 .. Outstanding : Done[k] = DoneOf(DoneHead(k))
      BY <1>5, <2>1 DEF Views
    <3>2. /\ Done' \in Seq(DoneRecord) /\ Len(Done') = Outstanding - 1
          /\ \A k \in 1 .. Outstanding - 1 : Done'[k] = DoneOf(DoneHead(k))'
      <4>1. DoneRecord' = DoneRecord
        BY DEF DoneRecord
      <4> QED BY <1>5, <2>1, <4>1 DEF Views
    <3>3. Done # << >>
      BY <1>1, <3>1, EmptySeq
    <3>4. /\ Tail(Done) \in Seq(DoneRecord) /\ Len(Tail(Done)) = Outstanding - 1
          /\ \A k \in 1 .. Outstanding - 1 : Tail(Done)[k] = Done[k + 1]
      BY <3>1, <3>3, HeadTailProperties
    <3>5. ASSUME NEW k \in 1 .. Outstanding - 1 PROVE Done'[k] = Tail(Done)[k]
      <4>1. k \in Nat /\ k + 1 \in 1 .. Outstanding /\ k + 1 # 1 /\ k + 1 \in Int
        BY <1>4
      <4>2. DoneHead(k + 1) \in Heads /\ DoneHead(k + 1) # DoneHead(1)
        BY <1>4, <2>2, <4>1, HeadsTyped DEF DoneOnce
      <4>3. DoneOf(DoneHead(k))' = DoneOf(DoneHead(k + 1))
        BY <1>2, <1>3, <4>1, <4>2 DEF DoneOf
      <4> QED BY Zenon, <3>1, <3>2, <3>4, <4>1, <4>3
    <3>6. Done' = Tail(Done)
      BY <3>2, <3>4, <3>5, SeqEqual
    <3> QED BY <3>3, <3>6
  <2>5. Queue!Collect
    BY <1>1, <2>3, <2>4 DEF Queue!Collect
  <2> QED BY <2>5 DEF QueueStep, Queue!Next
<1> QED BY <1>4, <1>6, <1>7

(* HandleRequest carries out what BlockQueue says of a request.             *)
LEMMA HandleIsNewDisk ==
    ASSUME TypeOK, NEW h \in Heads, NEW d
    PROVE  /\ HandleRequest(d, chain[h]).disk = Queue!NewDisk(d, ReqOf(h))
           /\ [head |-> h, data |-> HandleRequest(d, chain[h]).chain.data,
               status |-> HandleRequest(d, chain[h]).chain.status]
              = Queue!Answer(d, h, ReqOf(h))
<1> DEFINE c == chain[h]
<1>1. c \in Chain /\ c.type \in {"in", "out", "other"}
  BY DEF TypeOK, Chain
<1>2. ReqOf(h) = [type |-> c.type, sector |-> c.sector, data |-> c.data]
  BY DEF ReqOf
<1> HIDE DEF c
<1>3. HandleRequest(d, c).disk = Queue!NewDisk(d, ReqOf(h))
  BY <1>1, <1>2 DEF HandleRequest, Queue!NewDisk
<1>4. [head |-> h, data |-> HandleRequest(d, c).chain.data, status |-> HandleRequest(d, c).chain.status]
      = Queue!Answer(d, h, ReqOf(h))
  BY <1>1, <1>2 DEF HandleRequest, Queue!Answer, Chain
<1> QED BY <1>3, <1>4 DEF c

(* The disk after each turn of the loop is the one that BlockQueue computes *)
(* from the posted requests.                                                *)
LEMMA DiskAfter ==
    ASSUME FlightInv, PollBatch
    PROVE  /\ Backlog \in Nat
           /\ \A k \in 0 .. Backlog : Queue!After(Backlog)[k] = Turn(k).dev.disk
<1>1. TypeOK /\ Backlog \in Nat /\ Views /\ dev.queue_ready /\ NumPosted = Backlog
  BY Counts, TheViews DEF FlightInv, PollBatch, NothingToServe, NumPosted
<1>2. \A k \in 1 .. Backlog : /\ Posted[k].req = ReqOf(PostedHead(k))
                              /\ PostedHead(k) \in Heads
  BY <1>1, HeadsTyped DEF Views, PostedOf
<1>3. \A k \in 1 .. Backlog :
         Turn(k).dev.disk = HandleRequest(Turn(k - 1).dev.disk, chain[PostedHead(k)]).disk
  <2>1. Backlog <= QueueNum
    <3>1. /\ Backlog + Outstanding + Posting + Cardinality(drv.free) <= QueueNum
          /\ Outstanding \in Nat /\ Posting \in {0, 1} /\ Cardinality(drv.free) \in Nat
          /\ QueueNum \in Nat
      BY <1>1, Typed, Counts, BlkAssumption DEF FlightInv, RoomForAll
    <3> QED BY <1>1, <3>1
  <2>2. \A i, j \in 1 .. Backlog : PostedHead(i) = PostedHead(j) => i = j
    BY <1>1 DEF FlightInv, OneOwner, PostedOnce
  <2> QED BY <1>1, <2>1, <2>2, EveryTurn
<1>4. Turn(0).dev.disk = dev.disk
  BY <1>1, TurnFacts
<1> DEFINE Body(f, k) == IF k = 0 THEN dev.disk ELSE Queue!NewDisk(f[k - 1], Posted[k].req)
           g == [k \in 0 .. Backlog |-> Turn(k).dev.disk]
           d == CHOOSE f : f = [k \in 0 .. Backlog |-> Body(f, k)]
<1>5. \A k \in 0 .. Backlog : g[k] = Body(g, k)
  <2> SUFFICES ASSUME NEW k \in 0 .. Backlog PROVE g[k] = Body(g, k)
    OBVIOUS
  <2>1. CASE k = 0
    BY <1>1, <1>4, <2>1
  <2>2. CASE k # 0
    <3>1. k \in 1 .. Backlog /\ k - 1 \in 0 .. Backlog
      BY <1>1, <2>2
    <3>2. /\ g[k] = Turn(k).dev.disk /\ g[k - 1] = Turn(k - 1).dev.disk
      BY <3>1
    <3>3. Turn(k).dev.disk = Queue!NewDisk(Turn(k - 1).dev.disk, ReqOf(PostedHead(k)))
      BY <1>1, <1>2, <1>3, <3>1, HandleIsNewDisk
    <3> HIDE DEF g
    <3> QED BY Zenon, <1>2, <2>2, <3>1, <3>2, <3>3
  <2> QED BY <2>1, <2>2
<1>6. g = [k \in 0 .. Backlog |-> Body(g, k)]
  <2> HIDE DEF Body
  <2> QED BY <1>5
<1>7. d = [k \in 0 .. Backlog |-> Body(d, k)]
  <2> HIDE DEF Body, g
  <2> QED BY Zenon, <1>6
<1>8. Queue!After(Backlog) = d
  BY Zenon DEF Queue!After
<1> HIDE DEF d
<1>9. \A k \in 0 .. Backlog : d[k] = Body(d, k)
  <2> HIDE DEF Body
  <2> QED BY Zenon, <1>7
<1> DEFINE Good == {k \in 0 .. Backlog : d[k] = g[k]}
<1>10. 0 \in Good
  <2>1. 0 \in 0 .. Backlog
    BY <1>1
  <2>2. d[0] = dev.disk /\ g[0] = dev.disk
    <3> HIDE DEF g
    <3> QED BY <1>5, <1>9, <2>1
  <2> HIDE DEF g
  <2> QED BY <2>1, <2>2
<1>11. ASSUME NEW k \in 0 .. Backlog - 1, k \in Good PROVE k + 1 \in Good
  <2>1. k + 1 \in 0 .. Backlog /\ k + 1 # 0 /\ (k + 1) - 1 = k
    BY <1>1
  <2>2. d[k] = g[k]
    BY <1>11
  <2>3. Body(d, k + 1) = Body(g, k + 1)
    <3> HIDE DEF g
    <3> QED BY <2>1, <2>2
  <2>4. d[k + 1] = g[k + 1]
    <3> HIDE DEF g, Body
    <3> QED BY <1>5, <1>9, <2>1, <2>3
  <2> QED BY <2>1, <2>4
<1>12. 0 .. Backlog \subseteq Good
  <2> HIDE DEF Good
  <2> QED BY <1>1, <1>10, <1>11, UpTo
<1> QED BY <1>1, <1>8, <1>12

LEMMA PollQueue == ASSUME FlightInv, TypeOK', PollBatch PROVE QueueStep
<1>1. /\ dev.queue_ready /\ dev'.queue_ready = dev.queue_ready /\ Backlog # 0
      /\ dev'.disk = Turn(Backlog).dev.disk
      /\ Backlog' = 0 /\ Outstanding' = Outstanding + Backlog
  BY PollMoves
<1>2. \A k \in 1 .. Outstanding : /\ DoneHead(k)' = DoneHead(k)
                                  /\ chain'[DoneHead(k)] = chain[DoneHead(k)]
  BY PollMoves
<1>3. \A k \in 1 .. Backlog : \A m : m = Outstanding + k => DoneHead(m)' = PostedHead(k)
  BY PollMoves
<1>4. \A k \in 1 .. Backlog :
         chain'[PostedHead(k)] = HandleRequest(Turn(k - 1).dev.disk, chain[PostedHead(k)]).chain
  BY PollMoves
<1>5. TypeOK /\ Backlog \in Nat /\ Outstanding \in Nat
  BY Counts DEF FlightInv
<1>6. Views /\ Views'
  BY <1>5, TheViews, TheViewsNext
<1>7. NumPosted = Backlog /\ NumPosted' = 0 /\ NumDone = Outstanding /\ NumDone' = Outstanding + Backlog
  BY <1>1 DEF NumPosted, NumDone
<1> DEFINE after == Queue!After(Backlog)
           answer(k) == Queue!Answer(after[k - 1], Posted[k].head, Posted[k].req)
           answers == [k \in 1 .. Backlog |-> answer(k)]
<1>8. \A k \in 0 .. Backlog : after[k] = Turn(k).dev.disk
  BY DiskAfter
<1> HIDE DEF after
<1>9. ASSUME NEW k \in 1 .. Backlog, NEW m, m = Outstanding + k
      PROVE  DoneOf(DoneHead(m))' = answer(k) /\ answer(k) \in DoneRecord
  <2>1. k \in 0 .. Backlog /\ k - 1 \in 0 .. Backlog /\ PostedHead(k) \in Heads /\ m \in 1 .. Outstanding + Backlog
    BY <1>5, <1>9, HeadsTyped
  <2>2. Posted[k].head = PostedHead(k) /\ Posted[k].req = ReqOf(PostedHead(k))
    BY <1>6, <1>7 DEF Views, PostedOf
  <2> DEFINE h == PostedHead(k)
             r == HandleRequest(Turn(k - 1).dev.disk, chain[h]).chain
  <2>3. [head |-> h, data |-> r.data, status |-> r.status] = answer(k)
    <3>1. [head |-> h, data |-> r.data, status |-> r.status]
          = Queue!Answer(Turn(k - 1).dev.disk, h, ReqOf(h))
      BY <1>5, <2>1, HandleIsNewDisk
    <3> HIDE DEF h, r
    <3> QED BY Zenon, <1>8, <2>1, <2>2, <3>1 DEF h
  <2>4. DoneHead(m)' = h /\ chain'[h] = r
    BY <1>3, <1>4, <1>9
  <2> HIDE DEF h, r, answer
  <2>5. DoneOf(DoneHead(m))' = [head |-> h, data |-> r.data, status |-> r.status]
    BY <2>4 DEF DoneOf
  <2>6. DoneOf(DoneHead(m))' \in DoneRecord
    <3>1. NumDone' = Outstanding + Backlog
      BY <1>7
    <3>2. Done' \in Seq(DoneRecord) /\ Len(Done') = Outstanding + Backlog
          /\ Done'[m] = DoneOf(DoneHead(m))'
      <4>1. DoneRecord' = DoneRecord
        BY DEF DoneRecord
      <4> QED BY <1>6, <2>1, <3>1, <4>1 DEF Views
    <3>3. Done'[m] \in DoneRecord
      BY <2>1, <3>2, ElementOfSeq
    <3> QED BY <3>2, <3>3
  <2> QED BY Zenon, <2>3, <2>5, <2>6
<1>10. Posted' = << >> /\ SubSeq(Posted, Backlog + 1, Len(Posted)) = << >>
  <2>1. Posted' = << >>
    BY <1>6, <1>7, NothingLeft
  <2>2. Len(Posted) = Backlog
    BY <1>6, <1>7 DEF Views
  <2>3. SubSeq(Posted, Backlog + 1, Backlog) = << >>
    BY <1>5, SubSeqEmpty
  <2> QED BY <2>1, <2>2, <2>3
<1>11. Done' = Done \o answers
  <2>1. /\ Done \in Seq(DoneRecord) /\ Len(Done) = Outstanding
        /\ \A k \in 1 .. Outstanding : Done[k] = DoneOf(DoneHead(k))
    BY <1>6, <1>7 DEF Views
  <2>2. /\ Done' \in Seq(DoneRecord) /\ Len(Done') = Outstanding + Backlog
        /\ \A k \in 1 .. Outstanding + Backlog : Done'[k] = DoneOf(DoneHead(k))'
    <3>1. DoneRecord' = DoneRecord
      BY DEF DoneRecord
    <3> QED BY <1>6, <1>7, <3>1 DEF Views
  <2>3. /\ answers \in Seq(DoneRecord) /\ Len(answers) = Backlog
        /\ \A k \in 1 .. Backlog : answers[k] = answer(k)
    <3>1. \A k \in 1 .. Backlog : answer(k) \in DoneRecord
      BY <1>9
    <3>2. answers \in [1 .. Backlog -> DoneRecord] /\ \A k \in 1 .. Backlog : answers[k] = answer(k)
      <4> HIDE DEF answer
      <4> QED BY <3>1
    <3> HIDE DEF answers, answer
    <3> QED BY <1>5, <3>2
  <2> HIDE DEF answers, answer
  <2>4. /\ Done \o answers \in Seq(DoneRecord) /\ Len(Done \o answers) = Outstanding + Backlog
        /\ \A i \in 1 .. Outstanding + Backlog :
              (Done \o answers)[i] = IF i <= Outstanding THEN Done[i] ELSE answers[i - Outstanding]
    BY <2>1, <2>3, ConcatProperties
  <2>5. ASSUME NEW i \in 1 .. Outstanding + Backlog PROVE Done'[i] = (Done \o answers)[i]
    <3>1. CASE i <= Outstanding
      <4>1. i \in 1 .. Outstanding
        BY <1>5, <3>1
      <4>2. DoneOf(DoneHead(i))' = DoneOf(DoneHead(i))
        BY <1>2, <4>1 DEF DoneOf
      <4> QED BY Zenon, <2>1, <2>2, <2>4, <3>1, <4>1, <4>2
    <3>2. CASE ~ i <= Outstanding
      <4> DEFINE k == i - Outstanding
      <4>1. k \in 1 .. Backlog /\ i = Outstanding + k
        BY <1>5, <3>2
      <4>2. (Done \o answers)[i] = answers[k]
        BY Zenon, <2>4, <3>2
      <4> HIDE DEF k
      <4>3. DoneOf(DoneHead(i))' = answer(k)
        BY Zenon, <1>9, <4>1
      <4> QED BY Zenon, <2>2, <2>3, <4>1, <4>2, <4>3
    <3> QED BY <3>1, <3>2
  <2> QED BY <2>2, <2>4, <2>5, SeqEqual
<1>12. Queue!Serve
  <2>1. Len(Posted) = Backlog /\ Backlog \in 1 .. Len(Posted)
    BY <1>1, <1>5, <1>6, <1>7 DEF Views
  <2>2. dev'.disk = Queue!After(Backlog)[Backlog]
    <3>1. Backlog \in 0 .. Backlog
      BY <1>5
    <3> QED BY <1>1, <1>8, <3>1 DEF after
  <2>3. Posted' = SubSeq(Posted, Backlog + 1, Len(Posted))
    BY <1>10
  <2>4. Done' = Done \o [k \in 1 .. Backlog |->
                  Queue!Answer(Queue!After(Backlog)[k - 1], Posted[k].head, Posted[k].req)]
    BY Zenon, <1>11 DEF after
  <2> QED BY Zenon, <2>1, <2>2, <2>3, <2>4 DEF Queue!Serve
<1> QED BY <1>12 DEF QueueStep, Queue!Next

LEMMA StepQueue == ASSUME FlightInv, TypeOK', [Next]_vars PROVE QueueStep
<1>1. CASE Stays
  BY <1>1, StaysQueue
<1>2. CASE Next /\ ~ Stays
  <2>1. PollBatch \/ Probe \/ WriteSlot \/ Publish \/ Reset \/ CollectOne
    BY <1>2 DEF Next, Poll, Handler, Stays
  <2> QED BY <2>1, PollQueue, ProbeQueue, WriteQueue, PublishQueue, ResetQueue, CollectQueue
<1> QED BY <1>1, <1>2 DEF Stays

LEMMA InitQueue == ASSUME Init, TypeOK PROVE Queue!Init
<1>1. NumPosted = 0 /\ NumDone = 0
  BY DEF Init, NumPosted, NumDone
<1>2. /\ Posted \in Seq(PostedRecord) /\ Len(Posted) = 0
      /\ Done \in Seq(DoneRecord) /\ Len(Done) = 0
  BY <1>1, TheViews DEF Views
<1>3. Posted = << >> /\ Done = << >>
  BY <1>2, EmptySeq
<1>4. dev.disk \in UNION {[D -> Blocks] : D \in SUBSET Sectors}
  BY DEF TypeOK, Dev
<1> QED BY <1>3, <1>4 DEF Queue!Init

(* The device, its rings and its polls are the queue of requests: each      *)
(* request published is carried out once, in order, on one disk, and handed *)
(* back with what the disk held at that moment, in batches of any size,     *)
(* across resets and the wrap of the indices, for every queue size.         *)
THEOREM DeviceImplementsQueue == Spec => ImplementsBlockQueue
<1>1. Init /\ TypeOK => Queue!Init
  BY InitQueue
<1>2. FlightInv /\ TypeOK' /\ [Next]_vars => [Queue!Next]_(Queue!vars)
  BY StepQueue DEF QueueStep
<1> QED BY <1>1, <1>2, TypeCorrect, EveryChainHasOneOwner, PTL
        DEF Spec, ImplementsBlockQueue, Queue!Spec
=============================================================================
