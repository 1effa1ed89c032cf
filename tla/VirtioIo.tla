------------------------------- MODULE VirtioIo -------------------------------
(***************************************************************************)
(* The virtio devices that share the queue code of crates/platform/src/    *)
(* virtio/queue.rs: entropy (rng.rs), keyboard and mouse (input.rs) and    *)
(* display (gpu.rs), each with the guest's driver, its line into the       *)
(* interrupt controller, and the front-end that injects input and shows    *)
(* frames (crates/platform/src/bin/v64.rs, crates/web/src/lib.rs).         *)
(*                                                                         *)
(* The three register blocks are the same code but for their queues and    *)
(* what `process` does with a chain; `kind`, chosen at power-on, says      *)
(* which one is there.  The machine polls it between any two steps of the  *)
(* driver.  A chain is what the driver asks for and, once served, what it  *)
(* gets back; a page of a frame buffer is the number of the last drawing   *)
(* that touched it.                                                        *)
(***************************************************************************)
EXTENDS Gic

CONSTANTS
    Kinds,          \* of "rng", "keyboard", "mouse", "gpu"
    Irq,            \* the SPI of the device's slot
    IdxMod,         \* 2^16
    QueueNum,       \* the size the driver gives each queue
    Keys,           \* key codes, and button codes
    Motions,        \* <<dx, dy, wheel>>
    MaxPending,     \* bound: events that wait in the device
    Ids,            \* resource ids; 0 is none
    NumPages,       \* of a frame
    MaxDraw,        \* bound: drawings of the guest
    MaxPosted       \* bound: chains in flight, event buffers apart

ASSUME IoAssumption ==
    /\ Kinds \subseteq {"rng", "keyboard", "mouse", "gpu"}
    /\ Irq \in Irqs /\ IdlePrio > 0
    /\ QueueNum \in Nat \ {0} /\ IdxMod \in Nat /\ IdxMod % QueueNum = 0 /\ IdxMod > QueueNum
    /\ MaxPending \in Nat /\ MaxDraw \in Nat /\ MaxPosted \in [Kinds -> Nat]
    /\ NumPages \in Nat /\ 0 \notin Ids /\ Motions \subseteq Int \X Int \X Int

VARIABLES
    kind,
    dev,      \* the device's Inner
    ring,     \* per queue: the avail and used rings
    chain,    \* per queue: the chains by their heads
    drv,      \* the driver
    mem,      \* the two pages of the guest's frame buffer
    window,   \* what the front-end shows
    flushed   \* history: the resource shown by the last FLUSH and untouched since

vars == <<kind, dev, ring, chain, drv, mem, window, flushed, gic>>

Queues == {0, 1}
Heads == 0 .. QueueNum - 1
Idx == 0 .. IdxMod - 1
Pages == 1 .. NumPages
Drawings == 0 .. MaxDraw
Frame == [Pages -> Drawings]

EV_SYN == <<"syn", 0>>
Events == {EV_SYN} \cup ({"key up", "key down"} \X Keys)
            \cup ({"x", "y", "wheel"} \X UNION {{m[1], m[2], m[3]} : m \in Motions})

Backings == SeqOf(Pages, NumPages)
Resource == [fits: BOOLEAN, backing: Backings, pixels: Frame]

\* Controlq commands; what is not in `cmd` is not looked at.
Commands ==
    [cmd: {"create"}, id: Ids, fits: BOOLEAN]
      \cup [cmd: {"attach"}, id: Ids, backing: Backings]
      \cup [cmd: {"unref", "detach", "transfer"}, id: Ids] \cup [cmd: {"scanout"}, id: Ids \cup {0}]
      \cup [cmd: {"flush", "info", "other"}]

-----------------------------------------------------------------------------
(* The split queue *)

Virtq == [ready: BOOLEAN, num: {0, QueueNum}, last_avail: Idx]
Ring == [avail_idx: Idx, avail: [Heads -> Heads], used_idx: Idx, used: [Heads -> Heads]]
VirtqDefault == [ready |-> FALSE, num |-> 0, last_avail |-> 0]
EmptyRing == [avail_idx |-> 0, avail |-> [s \in Heads |-> 0],
              used_idx |-> 0, used |-> [s \in Heads |-> 0]]

\* What pop finds before it returns None, and its next one.  s is what a device
\* works on: [dev, ring, chain, flushed].
Backlog(s, q) ==
    IF ~ s.dev.queues[q].ready \/ s.dev.queues[q].num = 0 THEN 0
    ELSE (s.ring[q].avail_idx - s.dev.queues[q].last_avail) % IdxMod

NextPosted(s, q) == s.ring[q].avail[s.dev.queues[q].last_avail % QueueNum]

\* Defect: the index is not wrapped.
push_used_unwrapped(r, head) ==
    [r EXCEPT !.used[r.used_idx % QueueNum] = head, !.used_idx = @ + 1]

push_used(r, head) ==
    [r EXCEPT !.used[r.used_idx % QueueNum] = head, !.used_idx = (@ + 1) % IdxMod]

-----------------------------------------------------------------------------
(* What a device does with one chain *)

Done(s, q, head, data) ==
    [s EXCEPT !.dev.queues[q].last_avail = (@ + 1) % IdxMod,
              !.chain[q][head].data = data, !.ring[q] = push_used(@, head)]

\* Entropy is zeros; statusq and cursorq are consumed and dropped.
ServePlain(s, head) == Done(s, 0, head, "zeros")
ServeDropped(s, head) == Done(s, 1, head, "dropped")

\* Defect: the newest event first.
ServeEventLifo(s, head) ==
    Done([s EXCEPT !.dev.pending = Front(@)], 0, head, Last(s.dev.pending))

ServeEvent(s, head) ==
    Done([s EXCEPT !.dev.pending = Tail(@)], 0, head, Head(s.dev.pending))

\* transfer: the backing pages in order, as far as they go.
Transferred(res) ==
    [res EXCEPT !.pixels = [p \in Pages |->
        IF p \in DOMAIN res.backing THEN mem[res.backing[p]] ELSE @[p]]]

Known(g, c) == c.id \in DOMAIN g.resources

\* Defect: a transfer announces a frame, a flush does not.
DirtiedByTransfer(g, c) == g.dirty \/ c.cmd = "transfer"

Dirtied(g, c) == g.dirty \/ c.cmd = "flush"

ResourcesAfter(g, c) ==
    CASE c.cmd = "create" ->
            [g EXCEPT !.resources = [i \in DOMAIN @ \cup {c.id} |->
                IF i = c.id THEN [fits |-> c.fits, backing |-> << >>, pixels |-> [p \in Pages |-> 0]]
                ELSE @[i]]]
      [] c.cmd = "unref" -> [g EXCEPT !.resources = [i \in DOMAIN @ \ {c.id} |-> @[i]]]
      [] c.cmd = "attach" -> IF Known(g, c) THEN [g EXCEPT !.resources[c.id].backing = c.backing] ELSE g
      [] c.cmd = "detach" -> IF Known(g, c) THEN [g EXCEPT !.resources[c.id].backing = << >>] ELSE g
      [] c.cmd = "scanout" -> [g EXCEPT !.scanout_res = c.id]
      [] c.cmd = "transfer" -> IF Known(g, c) THEN [g EXCEPT !.resources[c.id] = Transferred(@)] ELSE g
      [] OTHER -> g

\* The display after the command c.
handle_cmd(g, c) == [ResourcesAfter(g, c) EXCEPT !.dirty = Dirtied(g, c)]

Response(c) == CASE c.cmd = "info" -> "display info" [] c.cmd = "other" -> "unspec" [] OTHER -> "ok"

\* The history of `flushed`.
FlushedBy(f, g, c) ==
    CASE c.cmd = "flush" -> IF g.scanout_res \in DOMAIN g.resources THEN g.scanout_res ELSE None
      [] c.cmd = "scanout" -> None
      [] c.cmd \in {"create", "unref", "transfer"} -> IF f = c.id THEN None ELSE f
      [] OTHER -> f

ServeCommand(s, head) ==
    LET c == s.chain[0][head].req
    IN  Done([s EXCEPT !.dev.gpu = handle_cmd(@, c), !.flushed = FlushedBy(@, s.dev.gpu, c)],
             0, head, Response(c))

-----------------------------------------------------------------------------
(* process: the queues in the device's order, then one notification *)

IsInput == kind \in {"keyboard", "mouse"}

Fresh == [dev |-> [dev EXCEPT !.notified = FALSE], ring |-> ring, chain |-> chain,
          flushed |-> flushed]

\* One turn of a loop of `process`.
ServeNext(s, q) ==
    LET head == NextPosted(s, q)
    IN  CASE q = 1 -> ServeDropped(s, head)
          [] q = 0 /\ kind = "rng" -> ServePlain(s, head)
          [] q = 0 /\ IsInput -> ServeEvent(s, head)
          [] q = 0 /\ kind = "gpu" -> ServeCommand(s, head)

\* A loop ends when nothing is posted; that of events, when none waits either.
Turns(s, q) ==
    IF IsInput /\ q = 0 THEN Min({Len(s.dev.pending), Backlog(s, q)}) ELSE Backlog(s, q)

ServeQueue(s, q) ==
    LET run[k \in 0 .. Turns(s, q)] == IF k = 0 THEN s ELSE ServeNext(run[k - 1], q)
    IN  run[Turns(s, q)]

\* The display sees to its commands first, an input device to its status queue;
\* the entropy device has no queue 1, so nothing is ever posted there.
FirstQueue == IF kind = "gpu" THEN 0 ELSE 1

Raised(s) == s.ring # ring

Poll ==
    /\ dev.notified \/ dev.pending # << >>
    /\ \E first \in {ServeQueue(Fresh, FirstQueue)} :
       \E s \in {ServeQueue(first, 1 - FirstQueue)} :
          /\ dev' = [s.dev EXCEPT !.int_status = @ \/ Raised(s)]
          /\ ring' = s.ring /\ chain' = s.chain /\ flushed' = s.flushed
          /\ gic' = IF Raised(s) THEN SetPending(gic, Irq) ELSE gic
    /\ UNCHANGED <<kind, drv, mem, window>>

-----------------------------------------------------------------------------
(* Registers, as the driver uses them *)

NoChain == [req |-> None, data |-> None]
NoChains == [q \in Queues |-> [h \in Heads |-> NoChain]]
Gpu0 == [resources |-> << >>, scanout_res |-> 0, dirty |-> FALSE]

Init ==
    /\ kind \in Kinds
    /\ dev = [int_status |-> FALSE, queue_sel |-> 0, queues |-> [q \in Queues |-> VirtqDefault],
              pending |-> << >>, notified |-> FALSE, gpu |-> Gpu0]
    /\ ring = [q \in Queues |-> EmptyRing]
    /\ chain = NoChains
    /\ drv = [setup |-> 0, free |-> [q \in Queues |-> Heads], last_used |-> [q \in Queues |-> 0],
              kick |-> FALSE, handler |-> "none", seen |-> FALSE]
    /\ mem = [p \in Pages |-> 0] /\ window = None /\ flushed = None
    /\ gic = [GicReset EXCEPT !.dist_enabled = TRUE, !.cpu_enabled = TRUE,
                              !.pmr = IdlePrio, !.enabled = Irqs]

LastQueue == IF kind = "rng" THEN 0 ELSE 1
Ready == drv.setup > LastQueue

\* Defect: QUEUE_SEL is forgotten.
SelectForgets(v) == dev.queue_sel

\* QUEUE_SEL; the entropy device has one queue.
Select(v) == IF kind = "rng" THEN 0 ELSE Min({v, 1})

\* Probing, queue after queue: QUEUE_SEL, QUEUE_NUM, QUEUE_READY, on new rings.
SetUpQueue ==
    /\ ~ Ready /\ drv.handler = "none"
    /\ LET q == Select(drv.setup)
       IN  dev' = [dev EXCEPT !.queue_sel = q, !.queues[q].num = QueueNum, !.queues[q].ready = TRUE]
    /\ ring' = [ring EXCEPT ![drv.setup] = EmptyRing]
    /\ drv' = [drv EXCEPT !.setup = @ + 1, !.free[drv.setup] = Heads, !.last_used[drv.setup] = 0]
    /\ UNCHANGED <<kind, chain, mem, window, flushed, gic>>

\* What the driver may ask on queue q.
Requests(q) ==
    CASE kind = "rng" -> {"entropy"}
      [] kind = "gpu" -> IF q = 0 THEN Commands ELSE {"cursor"}
      [] OTHER -> IF q = 0 THEN {"event"} ELSE {"status"}

Fill(r, head) == [r EXCEPT !.avail[r.avail_idx % QueueNum] = head,
                           !.avail_idx = (@ + 1) % IdxMod]

InFlight == Cardinality({x \in Queues \X Heads : ~ (IsInput /\ x[1] = 0) /\ x[2] \notin drv.free[x[1]]})

\* A chain is made of the lowest free descriptor; event buffers come first.
Post(q) ==
    /\ Ready /\ drv.handler = "none" /\ q <= LastQueue /\ drv.free[q] # {}
    /\ IF IsInput /\ q = 0 THEN TRUE
       ELSE InFlight < MaxPosted[kind] /\ (IsInput => drv.free[0] = {})
    /\ \E h \in {Min(drv.free[q])}, req \in Requests(q) :
          /\ chain' = [chain EXCEPT ![q][h] = [req |-> req, data |-> None]]
          /\ ring' = [ring EXCEPT ![q] = Fill(@, h)]
          /\ drv' = [drv EXCEPT !.free[q] = @ \ {h}, !.kick = TRUE]
    /\ UNCHANGED <<kind, dev, mem, window, flushed, gic>>

\* QUEUE_NOTIFY, whichever queue it names.
Notify ==
    /\ drv.kick /\ drv.handler = "none"
    /\ dev' = [dev EXCEPT !.notified = TRUE]
    /\ drv' = [drv EXCEPT !.kick = FALSE]
    /\ UNCHANGED <<kind, ring, chain, mem, window, flushed, gic>>

\* reset: the selector and the dirty bit survive.
DeviceReset(d) ==
    [d EXCEPT !.queues = [q \in Queues |-> VirtqDefault], !.int_status = FALSE,
              !.pending = << >>, !.notified = FALSE,
              !.gpu = [Gpu0 EXCEPT !.dirty = d.gpu.dirty]]

Reset ==
    /\ drv.setup > 0 /\ drv.handler = "none"
    /\ dev' = DeviceReset(dev)
    /\ gic' = ClearPending(gic, Irq)
    /\ drv' = [drv EXCEPT !.setup = 0, !.kick = FALSE, !.free = [q \in Queues |-> Heads],
                          !.last_used = [q \in Queues |-> 0]]
    /\ ring' = [q \in Queues |-> EmptyRing] /\ chain' = NoChains /\ flushed' = None
    /\ UNCHANGED <<kind, mem, window>>

-----------------------------------------------------------------------------
(* The handler; one status bit and one line for both queues *)

Step(from, to) == drv.handler = from /\ drv' = [drv EXCEPT !.handler = to]

TakeIrq == /\ SignalsIrq(gic)
           /\ Step("none", "status")
           /\ gic' = Acknowledge(gic)
           /\ UNCHANGED <<kind, dev, ring, chain, mem, window, flushed>>

ReadStatus == /\ drv.handler = "status"
              /\ drv' = [drv EXCEPT !.handler = "ack", !.seen = dev.int_status]
              /\ UNCHANGED <<kind, dev, ring, chain, mem, window, flushed, gic>>

\* INTERRUPT_ACK of the bit that was seen.
WriteAck == /\ Step("ack", IF drv.seen THEN "collect" ELSE "eoi")
            /\ dev' = [dev EXCEPT !.int_status = @ /\ ~ drv.seen]
            /\ gic' = IF dev.int_status /\ ~ drv.seen THEN gic ELSE ClearPending(gic, Irq)
            /\ UNCHANGED <<kind, ring, chain, mem, window, flushed>>

Uncollected(q) == (ring[q].used_idx - drv.last_used[q]) % IdxMod
UsedHead(q, k) == ring[q].used[(drv.last_used[q] + k - 1) % QueueNum]

\* An event buffer is posted again at once; other chains become free.
CollectEvent ==
    /\ drv.handler = "collect" /\ IsInput /\ Uncollected(0) # 0
    /\ LET h == UsedHead(0, 1)
       IN  /\ chain' = [chain EXCEPT ![0][h].data = None]
           /\ ring' = [ring EXCEPT ![0] = Fill(@, h)]
           /\ drv' = [drv EXCEPT !.last_used[0] = (@ + 1) % IdxMod, !.kick = TRUE]
    /\ UNCHANGED <<kind, dev, mem, window, flushed, gic>>

CollectOther ==
    /\ drv.handler = "collect"
    /\ \E q \in Queues :
          /\ Uncollected(q) # 0 /\ ~ (IsInput /\ q = 0)
          /\ LET h == UsedHead(q, 1)
             IN  /\ chain' = [chain EXCEPT ![q][h] = NoChain]
                 /\ drv' = [drv EXCEPT !.last_used[q] = (@ + 1) % IdxMod, !.free[q] = @ \cup {h}]
    /\ UNCHANGED <<kind, dev, ring, mem, window, flushed, gic>>

WriteEoi == /\ \/ Step("eoi", "none")
               \/ (\A q \in Queues : Uncollected(q) = 0) /\ Step("collect", "none")
            /\ gic' = EndOfInterrupt(gic, Irq)
            /\ UNCHANGED <<kind, dev, ring, chain, mem, window, flushed>>

Handler == TakeIrq \/ ReadStatus \/ WriteAck \/ CollectEvent \/ CollectOther \/ WriteEoi

\* The guest draws on a page of its frame buffer.
Draw == /\ kind = "gpu" /\ \E p \in Pages : mem[p] < MaxDraw /\ mem' = [mem EXCEPT ![p] = @ + 1]
        /\ UNCHANGED <<kind, dev, ring, chain, drv, window, flushed, gic>>

-----------------------------------------------------------------------------
(* The front-end *)

key(code, down) == <<<<IF down THEN "key down" ELSE "key up", code>>, EV_SYN>>

Moved(axis, by) == IF by = 0 THEN << >> ELSE <<<<axis, by>>>>

motion(m) == Moved("x", m[1]) \o Moved("y", m[2]) \o Moved("wheel", m[3]) \o <<EV_SYN>>

ReportsOf(k) ==
    CASE k = "keyboard" -> {key(c, d) : c \in Keys, d \in BOOLEAN}
      [] k = "mouse" -> {key(c, d) : c \in Keys, d \in BOOLEAN} \cup {motion(m) : m \in Motions}
      [] OTHER -> {}

HostInput ==
    /\ \E r \in ReportsOf(kind) : /\ Len(dev.pending) + Len(r) <= MaxPending
                                 /\ dev' = [dev EXCEPT !.pending = @ \o r]
    /\ UNCHANGED <<kind, ring, chain, drv, mem, window, flushed, gic>>

Showable(g) == g.scanout_res \in DOMAIN g.resources /\ g.resources[g.scanout_res].fits

\* take_frame clears the bit even if there is nothing to show; the window shows
\* frames of its own size only.
HostFrame ==
    /\ dev.gpu.dirty
    /\ dev' = [dev EXCEPT !.gpu.dirty = FALSE]
    /\ window' = IF Showable(dev.gpu) THEN dev.gpu.resources[dev.gpu.scanout_res].pixels ELSE window
    /\ UNCHANGED <<kind, ring, chain, drv, mem, flushed, gic>>

Host == HostInput \/ HostFrame

Next == Poll \/ SetUpQueue \/ (\E q \in Queues : Post(q)) \/ Notify \/ Reset \/ Handler \/ Draw \/ Host

Spec == Init /\ [][Next]_vars

\* The machine polls again and again and takes an IRQ that stays deliverable; a
\* driver that probes posts its event buffers and finishes what it has begun; its
\* handler visits both queues, however fast events come in.
FairSpec == Spec /\ WF_vars(Poll) /\ WF_vars(Notify) /\ WF_vars(Handler)
              /\ WF_vars(CollectOther) /\ WF_vars(IsInput /\ Post(0)) /\ WF_vars(HostFrame)

-----------------------------------------------------------------------------
(* Properties *)

Device ==
    [int_status: BOOLEAN, queue_sel: Queues, queues: [Queues -> Virtq], pending: Seq(Events),
     notified: BOOLEAN,
     gpu: [resources: UNION {[I -> Resource] : I \in SUBSET Ids}, scanout_res: Ids \cup {0},
           dirty: BOOLEAN]]

Driver ==
    [setup: 0 .. LastQueue + 1, free: [Queues -> SUBSET Heads], last_used: [Queues -> Idx],
     kick: BOOLEAN, handler: {"none", "status", "ack", "collect", "eoi"}, seen: BOOLEAN]

\* What may come back on queue q.
Answers(q) ==
    CASE kind = "rng" -> {"zeros"}
      [] kind = "gpu" -> IF q = 0 THEN {"ok", "display info", "unspec"} ELSE {"dropped"}
      [] OTHER -> IF q = 0 THEN Events ELSE {"dropped"}

Chain(q) == [req: Requests(q) \cup {None}, data: Answers(q) \cup {None}]

\* Indices stay u16, rings hold heads, and a chain what its queue is for.
TypeOK ==
    /\ kind \in Kinds /\ dev \in Device /\ gic \in GicType /\ drv \in Driver
    /\ ring \in [Queues -> Ring] /\ \A q \in Queues : chain[q] \in [Heads -> Chain(q)]
    /\ \A q \in Queues, h \in Heads : h \notin drv.free[q] => chain[q][h].req \in Requests(q)
    /\ mem \in Frame /\ window \in Frame \cup {None} /\ flushed \in Ids \cup {None}

\* The events in the used ring that the driver has not read yet, and those that
\* wait for a buffer.
Fifo == [k \in 1 .. IF IsInput THEN Uncollected(0) ELSE 0 |-> chain[0][UsedHead(0, k)].data]
          \o dev.pending

\* Keys and motions reach the guest once each, in order and with the SYN that
\* closes their report, however the polls cut them and wherever buffers run out.
Input == INSTANCE EventFifo WITH fifo <- Fifo, Reports <- UNION {ReportsOf(k) : k \in Kinds}
ImplementsEventFifo == Input!Spec

\* Once the host has taken the frame, the window shows what the guest flushed:
\* the bit that take_frame clears is never the one of a frame it did not show.
WindowCurrent ==
    ~ dev.gpu.dirty /\ flushed # None /\ dev.gpu.resources[flushed].fits =>
        window = dev.gpu.resources[flushed].pixels

\* Nothing waits for ever, on two queues that share a status bit and a line: an
\* event in the device is read by the guest, and every other chain comes back.
Waits(q, h) == Ready /\ h \notin drv.free[q] /\ ~ (IsInput /\ q = 0)
Answered ==
    /\ []<>(~ Ready \/ Fifo = << >>) \/ []<><<CollectEvent>>_vars
    /\ \A q \in Queues, h \in Heads : Waits(q, h) ~> ~ Waits(q, h)
=============================================================================
