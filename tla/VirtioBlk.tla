------------------------------ MODULE VirtioBlk ------------------------------
(***************************************************************************)
(* The virtio block device of crates/platform/src/virtio/blk.rs, its split *)
(* virtqueue in guest memory, its line into the interrupt controller, and  *)
(* the guest's driver.                                                     *)
(*                                                                         *)
(* The device acts in two places: in a register access, one guest          *)
(* instruction; and in `poll`, which the machine calls between any two     *)
(* instructions.  So each step of the driver that touches a register or a  *)
(* ring index is an action of its own.  Ring indices are u16, wrapping     *)
(* modulo IdxMod; the addresses of the rings are not modelled, and a chain *)
(* is a header, one data buffer of one sector and a status byte.           *)
(***************************************************************************)
EXTENDS Gic

CONSTANTS
    Irq,       \* the SPI the board wires the device to
    IdxMod,    \* 2^16
    QueueNum,  \* the queue size the driver writes: a power of two
    Heads, Sectors, Blocks, Zero,  \* as in BlockQueue
    Disk0      \* the disk image given to VirtioBlk::new

ASSUME BlkAssumption ==
    /\ Irq \in Irqs /\ IdlePrio > 0
    /\ QueueNum \in Nat \ {0} /\ IdxMod \in Nat /\ IdxMod % QueueNum = 0
    /\ IdxMod > QueueNum
    /\ Heads \subseteq 0 .. QueueNum - 1 /\ Heads # {}
    /\ Sectors # {} /\ Zero \in Blocks
    /\ \E D \in SUBSET Sectors : Disk0 \in [D -> Blocks]

VARIABLES
    dev,     \* the device's Inner, without the registers it never looks at
    ring,    \* the avail and used rings
    chain,   \* the descriptor chains and the buffers they name
    drv      \* the driver: its free chains, its cursor, where its handler is

vars == <<dev, ring, chain, drv, gic>>

Idx == 0 .. IdxMod - 1
Slots == 0 .. QueueNum - 1
Chain == [type: {"in", "out", "other"}, sector: Sectors, data: Blocks,
          status: {"none", "ok", "unsupp"}]

Dev == [queue_ready: BOOLEAN, queue_num: {0, QueueNum}, last_avail: Idx,
        int_status: BOOLEAN, notified: BOOLEAN, disk: UNION {[D -> Blocks] : D \in SUBSET Sectors}]
Ring == [avail_idx: Idx, avail: [Slots -> Heads], used_idx: Idx, used: [Slots -> Heads]]
HandlerSteps == {"none", "iar", "status", "ack", "collect", "eoi"}
Drv == [free: SUBSET Heads, posting: BOOLEAN, kick: BOOLEAN, last_used: Idx,
        handler: HandlerSteps, seen: BOOLEAN]

AnyHead == CHOOSE h \in Heads : TRUE
EmptyRing == [avail_idx |-> 0, avail |-> [s \in Slots |-> AnyHead],
              used_idx |-> 0, used |-> [s \in Slots |-> AnyHead]]

\* A chain that the driver has not filled in: what it holds is not looked at.
FreeChain == [type |-> "in", sector |-> CHOOSE s \in Sectors : TRUE, data |-> Zero,
              status |-> "none"]

-----------------------------------------------------------------------------
(* The device: registers *)

\* INTERRUPT_ACK with bit 0 of the written value.
InterruptAck(d, g, bit) ==
    LET status == d.int_status /\ ~ bit
    IN  [dev |-> [d EXCEPT !.int_status = status],
         gic |-> IF status THEN g ELSE ClearPending(g, Irq)]

\* Defect: the cursor survives too.
DeviceResetKeepsCursor(d) ==
    [d EXCEPT !.queue_ready = FALSE, !.int_status = FALSE, !.notified = FALSE]

\* STATUS := 0.  The queue's size, and the disk, survive.
DeviceReset(d) ==
    [d EXCEPT !.queue_ready = FALSE, !.int_status = FALSE, !.last_avail = 0,
              !.notified = FALSE]

-----------------------------------------------------------------------------
(* The device: one request, and the batch that a poll serves *)

\* handle_request on the chain c: [disk, chain] after it.
HandleRequest(disk, c) ==
    CASE c.type = "in" ->
            [disk |-> disk,
             chain |-> [c EXCEPT !.status = "ok",
                        !.data = IF c.sector \in DOMAIN disk THEN disk[c.sector] ELSE Zero]]
      [] c.type = "out" ->
            [disk |-> IF c.sector \in DOMAIN disk
                      THEN [disk EXCEPT ![c.sector] = c.data] ELSE disk,
             chain |-> [c EXCEPT !.status = "ok"]]
      [] OTHER -> [disk |-> disk, chain |-> [c EXCEPT !.status = "unsupp"]]

\* Defect: the index is not wrapped.
PushUsedNoWrap(r, head) ==
    [r EXCEPT !.used[r.used_idx % QueueNum] = head, !.used_idx = @ + 1]

PushUsed(r, head) ==
    [r EXCEPT !.used[r.used_idx % QueueNum] = head, !.used_idx = (@ + 1) % IdxMod]

\* One turn of the loop of `process`.
ServeOne(s, head) ==
    LET result == HandleRequest(s.dev.disk, s.chain[head])
    IN  [dev |-> [s.dev EXCEPT !.disk = result.disk, !.last_avail = (@ + 1) % IdxMod],
         chain |-> [s.chain EXCEPT ![head] = result.chain],
         ring |-> PushUsed(s.ring, head)]

\* The loop ends when last_avail meets the avail_idx read before it.
Backlog == (ring.avail_idx - dev.last_avail) % IdxMod
Batch == [k \in 1 .. Backlog |-> ring.avail[(dev.last_avail + k - 1) % QueueNum]]

NothingToServe == ~ dev.queue_ready \/ dev.queue_num = 0 \/ Backlog = 0

\* The device and its memory after each turn of the loop on the chains `heads`.
Served(heads) ==
    LET run[k \in 0 .. Len(heads)] ==
          IF k = 0 THEN [dev |-> dev, chain |-> chain, ring |-> ring]
          ELSE ServeOne(run[k - 1], heads[k])
    IN  run

\* `process` ends with a batch served, its result and its notification.
EndBatch(heads, int_status) ==
    /\ \E s \in {Served(heads)[Len(heads)]} :
          /\ dev' = [s.dev EXCEPT !.notified = FALSE, !.int_status = int_status]
          /\ chain' = s.chain
          /\ ring' = s.ring
    /\ gic' = SetPending(gic, Irq)
    /\ UNCHANGED drv

PollNothing ==
    /\ dev.notified /\ NothingToServe
    /\ dev' = [dev EXCEPT !.notified = FALSE]
    /\ UNCHANGED <<ring, chain, drv, gic>>

\* Defect: the line rises, the status bit does not.
PollBatchNoStatus == dev.notified /\ ~ NothingToServe /\ EndBatch(Batch, dev.int_status)
\* Defect: one request for each notification.
PollBatchOnlyOne == dev.notified /\ ~ NothingToServe /\ EndBatch(SubSeq(Batch, 1, 1), TRUE)

PollBatch == dev.notified /\ ~ NothingToServe /\ EndBatch(Batch, TRUE)

Poll == PollNothing \/ PollBatch

-----------------------------------------------------------------------------
(* The driver, as the device's code expects it *)

Init ==
    /\ dev = [queue_ready |-> FALSE, queue_num |-> 0, last_avail |-> 0,
              int_status |-> FALSE, notified |-> FALSE, disk |-> Disk0]
    /\ ring = EmptyRing
    /\ chain = [h \in Heads |-> FreeChain]
    /\ drv = [free |-> Heads, posting |-> FALSE, kick |-> FALSE, last_used |-> 0,
              handler |-> "none", seen |-> FALSE]
    /\ gic = [GicReset EXCEPT !.dist_enabled = TRUE, !.cpu_enabled = TRUE,
                              !.pmr = IdlePrio, !.enabled = Irqs]

\* Negotiation: fresh rings, then QUEUE_NUM and QUEUE_READY.
Probe ==
    /\ ~ dev.queue_ready /\ drv.handler = "none"
    /\ dev' = [dev EXCEPT !.queue_num = QueueNum, !.queue_ready = TRUE]
    /\ ring' = EmptyRing
    /\ chain' = [h \in Heads |-> FreeChain]
    /\ drv' = [drv EXCEPT !.free = Heads, !.last_used = 0]
    /\ UNCHANGED gic

\* The request path holds the queue's lock, with interrupts masked, from the
\* write of the ring slot to that of the index; it notifies after that.
WriteSlot ==
    /\ dev.queue_ready /\ drv.handler = "none" /\ ~ drv.posting
    /\ \E h \in drv.free, type \in {"in", "out", "other"}, sector \in Sectors, data \in Blocks :
          /\ type # "out" => data = Zero
          /\ type = "other" => sector = FreeChain.sector
          /\ chain' = [chain EXCEPT ![h] = [type |-> type, sector |-> sector,
                                            data |-> data, status |-> "none"]]
          /\ ring' = [ring EXCEPT !.avail[ring.avail_idx % QueueNum] = h]
          /\ drv' = [drv EXCEPT !.free = @ \ {h}, !.posting = TRUE]
    /\ UNCHANGED <<dev, gic>>

Publish ==
    /\ drv.posting
    /\ ring' = [ring EXCEPT !.avail_idx = (@ + 1) % IdxMod]
    /\ drv' = [drv EXCEPT !.posting = FALSE, !.kick = TRUE]
    /\ UNCHANGED <<dev, chain, gic>>

Notify ==
    /\ drv.kick /\ ~ drv.posting /\ drv.handler = "none"
    /\ dev' = [dev EXCEPT !.notified = TRUE]
    /\ drv' = [drv EXCEPT !.kick = FALSE]
    /\ UNCHANGED <<ring, chain, gic>>

Reset ==
    /\ dev.queue_ready /\ drv.handler = "none" /\ ~ drv.posting
    /\ dev' = DeviceReset(dev)
    /\ gic' = ClearPending(gic, Irq)
    /\ drv' = [drv EXCEPT !.kick = FALSE]
    /\ UNCHANGED <<ring, chain>>

-----------------------------------------------------------------------------
(* The interrupt handler: acknowledge at the controller, read and clear the *)
(* device's status, collect what the used ring holds, end the interrupt.    *)

Step(from, to) == drv.handler = from /\ drv' = [drv EXCEPT !.handler = to]

TakeIrq == /\ ~ drv.posting /\ SignalsIrq(gic)
           /\ Step("none", "iar")
           /\ UNCHANGED <<dev, ring, chain, gic>>

ReadIar == /\ Step("iar", IF IarValue(gic) = Irq THEN "status" ELSE "none")
           /\ gic' = Acknowledge(gic)
           /\ UNCHANGED <<dev, ring, chain>>

ReadStatus == /\ drv.handler = "status"
              /\ drv' = [drv EXCEPT !.handler = "ack", !.seen = dev.int_status]
              /\ UNCHANGED <<dev, ring, chain, gic>>

WriteAck == /\ Step("ack", IF drv.seen THEN "collect" ELSE "eoi")
            /\ dev' = InterruptAck(dev, gic, drv.seen).dev
            /\ gic' = InterruptAck(dev, gic, drv.seen).gic
            /\ UNCHANGED <<ring, chain>>

CollectOne ==
    /\ drv.handler = "collect" /\ drv.last_used # ring.used_idx
    /\ LET h == ring.used[drv.last_used % QueueNum]
       IN  /\ drv' = [drv EXCEPT !.free = @ \cup {h}, !.last_used = (@ + 1) % IdxMod]
           /\ chain' = [chain EXCEPT ![h] = FreeChain]
    /\ UNCHANGED <<dev, ring, gic>>

CollectedAll == /\ drv.last_used = ring.used_idx
                /\ Step("collect", "eoi")
                /\ UNCHANGED <<dev, ring, chain, gic>>

WriteEoi == /\ Step("eoi", "none")
            /\ gic' = EndOfInterrupt(gic, Irq)
            /\ UNCHANGED <<dev, ring, chain>>

Handler == TakeIrq \/ ReadIar \/ ReadStatus \/ WriteAck \/ CollectOne \/ CollectedAll \/ WriteEoi

Next == Poll \/ Probe \/ WriteSlot \/ Publish \/ Notify \/ Reset \/ Handler

Spec == Init /\ [][Next]_vars

\* The machine polls again and again, and takes an IRQ that stays deliverable;
\* the driver finishes what it has begun.
FairSpec == Spec /\ WF_vars(Poll) /\ WF_vars(Publish) /\ WF_vars(Notify) /\ WF_vars(Handler)

-----------------------------------------------------------------------------
(* Properties *)

Outstanding == (ring.used_idx - drv.last_used) % IdxMod

\* Every index stays a u16, every ring slot holds a head.
TypeOK == /\ dev \in Dev /\ ring \in Ring /\ chain \in [Heads -> Chain]
          /\ drv \in Drv /\ gic \in GicType

\* No completion waits unseen: while the used ring holds one that the driver
\* has not collected, the line is raised with its status bit, or the handler
\* is on its way to the ring.  Status and line are raised in `process` and
\* cleared by INTERRUPT_ACK, and a poll may fall between any two steps of the
\* handler.
CompletionSignalled ==
    (dev.queue_ready /\ Outstanding # 0) =>
        \/ dev.int_status /\ Irq \in gic.pending
        \/ drv.handler = "status" /\ dev.int_status
        \/ drv.handler = "ack" /\ drv.seen
        \/ drv.handler = "collect"

\* The device and its rings implement the queue of requests of BlockQueue:
\* carried out once each and in order, across batches, resets and the wrap of
\* the 16-bit indices, on one disk.
Posted == [k \in 1 .. IF dev.queue_ready THEN Backlog ELSE 0 |->
             LET h == ring.avail[(dev.last_avail + k - 1) % QueueNum]
             IN  [head |-> h, req |-> [type |-> chain[h].type, sector |-> chain[h].sector,
                                       data |-> chain[h].data]]]

Done == [k \in 1 .. IF dev.queue_ready THEN Outstanding ELSE 0 |->
           LET h == ring.used[(drv.last_used + k - 1) % QueueNum]
           IN  [head |-> h, data |-> chain[h].data, status |-> chain[h].status]]

Queue == INSTANCE BlockQueue WITH disk <- dev.disk, posted <- Posted, done <- Done

ImplementsBlockQueue == Queue!Spec

\* Every request that the driver publishes is collected in the end, or lost in
\* a reset.
InFlight(h) == dev.queue_ready /\ ~ drv.posting /\ h \notin drv.free
RequestCollected == \A h \in Heads : InFlight(h) ~> (h \in drv.free \/ ~ dev.queue_ready)
=============================================================================
