-------------------------------- MODULE Board --------------------------------
(***************************************************************************)
(* The board as a front-end builds and runs it: devices are mapped on the  *)
(* bus (bus.rs, board.rs), a kernel, an initramfs and a device tree are    *)
(* placed in RAM (loader.rs, fdt.rs), and a guest that knows the hardware  *)
(* from the tree alone drives the PL011 (uart.rs) through the bus and the  *)
(* interrupt controller, while the front-end's loop (bin/v64.rs) lends it  *)
(* the thread, types, and shows what was transmitted.                      *)
(*                                                                         *)
(* The registers of the UART that are only read back, its identification   *)
(* registers and its status reads without effect are left out. The guest's *)
(* driver is not part of the repository: it is the polled early console    *)
(* and the interrupt handler that uart.rs and the kernel's boot arguments  *)
(* are written for.                                                        *)
(***************************************************************************)
EXTENDS Gic

CONSTANTS RamSize, DtbLen,
          Images,       \* [header, text_offset, image_size, len]
          Initrds,      \* lengths, or None
          MaxDevices,   \* bound: virtio devices the front-end attaches
          Followed,     \* bound: the boards whose console is followed, as
                        \* [devices, image, initrd]
          Lines, Bytes, \* what the user types at once; what the guest writes
          MaxTyped, MaxWritten,     \* bounds: bytes on their way
          RxBatch, Rounds           \* the handler's limits

RAM_BASE  == 1073741824     \* 0x4000_0000
GICD_BASE == 134217728      \* 0x0800_0000
GICC_BASE == 134283264      \* 0x0801_0000
UART_BASE == 150994944      \* 0x0900_0000
VIRTIO_BASE == 167772160    \* 0x0a00_0000
VIRTIO_STRIDE == 512
UART_IRQ   == 33
VIRTIO_IRQ == 48
ALIGN_2M   == 2097152
DEFAULT_TEXT_OFFSET == 524288

UARTDR == 0   UARTIMSC == 56   UARTICR == 68
GICD_ISENABLER == 256   GICC_IAR == 12   GICC_EOIR == 16
INT_RX == "rx"   INT_TX == "tx"   INT_RT == "rt"

\* Up to 8 transports fit the region (board.rs); lengths and offsets are unsigned.
ASSUME BoardAssumption ==
    /\ UART_IRQ \in Irqs
    /\ RamSize \in Nat /\ DtbLen \in Nat
    /\ Images \subseteq [header: BOOLEAN, text_offset: Nat, image_size: Nat, len: Nat]
    /\ Initrds \subseteq Nat \cup {None}
    /\ MaxDevices \in 0 .. 8
    /\ Lines \subseteq Seq(0 .. 255) /\ Bytes \subseteq 0 .. 255
    /\ MaxTyped \in Nat /\ MaxWritten \in Nat
    /\ RxBatch \in Nat /\ Rounds \in Nat \ {0}

VARIABLES
    devices,    \* the bus's table: a set of [base, size, name]
    slots,      \* virtio_slots: [base, irq] in order
    layout,     \* BootLayout with the ends of the images, or None
    tree,       \* what the guest reads in the device tree, or None
    entry,      \* the entry state of the core, or None
    uart,       \* UartInner: [tx, rx, imsc]
    guest,      \* the guest: [pc, out, round, chars, status]
    powered_off,
    front       \* the front-end: [at, stepped]

wiring == <<devices, slots, layout, tree, entry>>
vars   == <<wiring, uart, gic, guest, powered_off, front>>

-----------------------------------------------------------------------------
(* The bus *)

RamEnd == RAM_BASE + RamSize
Disjoint(a, aEnd, b, bEnd) == aEnd <= b \/ bEnd <= a
Overlaps(table, base, size) ==
    \/ ~Disjoint(base, base + size, RAM_BASE, RamEnd)
    \/ \E d \in table : ~Disjoint(base, base + size, d.base, d.base + d.size)

\* Where an access of `size` bytes goes: one that straddles the end of a
\* region reads 0 or is dropped, like one to nowhere.
Route(addr, size) ==
    IF addr >= RAM_BASE /\ addr < RamEnd
    THEN IF addr + size <= RamEnd THEN "ram" ELSE "nowhere"
    ELSE LET hit == {d \in devices : addr >= d.base /\ addr < d.base + d.size}
         IN  IF hit = {} THEN "nowhere"
             ELSE LET d == CHOOSE d \in hit : TRUE
                  IN  IF addr + size <= d.base + d.size THEN d.name ELSE "nowhere"

-----------------------------------------------------------------------------
(* The UART; an operator returns <<uart, gic>> *)

ris(u) == {INT_TX} \cup IF u.rx # << >> THEN {INT_RX, INT_RT} ELSE {}
Mis(u) == ris(u) \cap u.imsc

update_irq(u, g) ==
    <<u, IF Mis(u) # {} THEN SetPending(g, UART_IRQ) ELSE ClearPending(g, UART_IRQ)>>

ReadData(u, g) == update_irq([u EXCEPT !.rx = IF @ = << >> THEN @ ELSE Tail(@)], g)
WriteData(u, g, byte) == update_irq([u EXCEPT !.tx = Append(@, byte)], g)
WriteImsc(u, g, mask) == update_irq([u EXCEPT !.imsc = mask], g)
WriteIcr(u, g)        == update_irq(u, g)

\* Defect: the host's bytes do not drive the line.
FeedSilently(u, g, bytes) == <<[u EXCEPT !.rx = @ \o bytes], g>>

Feed(u, g, bytes) == update_irq([u EXCEPT !.rx = @ \o bytes], g)

-----------------------------------------------------------------------------
(* Assembly and boot *)

NextSlot(n) == [base |-> VIRTIO_BASE + n * VIRTIO_STRIDE, irq |-> VIRTIO_IRQ + n]

Window(base, size, name) == [base |-> base, size |-> size, name |-> name]

Init ==
    /\ devices = {Window(GICD_BASE, 65536, "gicd"), Window(GICC_BASE, 65536, "gicc"),
                  Window(UART_BASE, 4096, "pl011")}
    /\ slots = << >> /\ layout = None /\ tree = None /\ entry = None
    /\ uart = [tx |-> << >>, rx |-> << >>, imsc |-> {}]
    /\ gic = GicReset
    /\ guest = [pc |-> "off", out |-> << >>, round |-> 0, chars |-> 0, status |-> {}]
    /\ powered_off = FALSE
    /\ front = [at |-> "setup", stepped |-> FALSE]

\* attach_disk, attach_rng, attach_input, attach_gpu; Bus::map panics on an overlap.
Attach ==
    /\ front.at = "setup" /\ Len(slots) < MaxDevices
    /\ LET s == NextSlot(Len(slots))
       IN  IF Overlaps(devices, s.base, VIRTIO_STRIDE)
           THEN front' = [front EXCEPT !.at = "panicked"] /\ UNCHANGED <<devices, slots>>
           ELSE /\ devices' = devices \cup {Window(s.base, VIRTIO_STRIDE, "virtio")}
                /\ slots' = Append(slots, s)
                /\ UNCHANGED front
    /\ UNCHANGED <<layout, tree, entry, uart, gic, guest, powered_off>>

align_up(x) == ((x + ALIGN_2M - 1) \div ALIGN_2M) * ALIGN_2M
Larger(a, b) == IF a > b THEN a ELSE b

\* Defect: room for the file only, not for what the kernel clears behind it.
SpanOfFile(image) == image.len

SpanOf(image) == Larger(IF image.header THEN image.image_size ELSE 0, image.len)

\* Half-open ranges of physical addresses.
Place(image, initrd) ==
    LET kernel == RAM_BASE + IF image.header THEN image.text_offset ELSE DEFAULT_TEXT_OFFSET
        end    == kernel + SpanOf(image)
        ird    == IF initrd = None THEN <<end, end>>
                  ELSE <<align_up(end), align_up(end) + initrd>>
        dtb    == align_up(ird[2])
    IN  [kernel |-> <<kernel, end>>, initrd |-> ird, dtb |-> <<dtb, dtb + DtbLen>>,
         image |-> image]

virt_dtb(place, initrd) ==
    [mem |-> <<RAM_BASE, RamSize>>, gicd |-> GICD_BASE, gicc |-> GICC_BASE,
     uart |-> UART_BASE, uart_spi |-> UART_IRQ - 32,
     initrd |-> IF initrd = None THEN None ELSE place.initrd,
     virtio |-> [n \in DOMAIN slots |-> [base |-> slots[n].base, spi |-> slots[n].irq - 32]]]

\* boot_image, then enter; the assertion that the images fit may panic.
BootImage ==
    /\ front.at = "setup"
    /\ \E image \in Images, initrd \in Initrds :
         LET place == Place(image, initrd)
         IN  IF place.dtb[2] > RamEnd
             THEN /\ front' = [front EXCEPT !.at = "panicked"]
                  /\ UNCHANGED <<layout, tree, entry, guest, powered_off>>
             ELSE /\ layout' = place
                  /\ tree' = virt_dtb(place, initrd)
                  /\ entry' = [pc |-> place.kernel[1], x0 |-> place.dtb[1], mode |-> "EL1h",
                               masked |-> TRUE]
                  /\ guest' = [guest EXCEPT !.pc =
                         IF [devices |-> Len(slots), image |-> image, initrd |-> initrd] \in Followed
                         THEN "early" ELSE "off"]
                  /\ powered_off' = FALSE
                  /\ front' = [front EXCEPT !.at = "top"]
    /\ UNCHANGED <<devices, slots, uart, gic>>

-----------------------------------------------------------------------------
(* The guest: one access or one decision a step, while a run lasts *)

Running  == front.at = "run" /\ ~powered_off
Stepped  == front' = [front EXCEPT !.stepped = TRUE]
Sends(n) == Len(uart.tx) + Len(guest.out) < n

\* An access through the bus: without effect unless it reaches the device.
Access(addr, name, result) ==
    /\ Running
    /\ LET r == IF Route(addr, 4) = name THEN result ELSE <<uart, gic>>
       IN  uart' = r[1] /\ gic' = r[2]

GuestStep(from, to) ==
    /\ Running /\ guest.pc = from
    /\ guest' = to
    /\ Stepped /\ UNCHANGED <<wiring, powered_off>>

\* earlycon: the transmitter is always ready.
EarlyWrite == \E b \in Bytes :
    /\ Sends(MaxWritten)
    /\ Access(tree.uart + UARTDR, "pl011", WriteData(uart, gic, b))
    /\ GuestStep("early", guest)

\* The GIC's driver opens the controller, the console's enables its interrupt
\* and unmasks reception.
OpenGic ==
    /\ Access(tree.gicd + GICD_ISENABLER, "gicd",
              <<uart, WriteIsenabler(WriteDistCtlr(WriteCpuCtlr(WritePmr(gic, IdlePrio), TRUE),
                                                   TRUE), {tree.uart_spi + 32})>>)
    /\ GuestStep("early", [guest EXCEPT !.pc = "open"])
UnmaskRx ==
    /\ Access(tree.uart + UARTIMSC, "pl011", WriteImsc(uart, gic, {INT_RX, INT_RT}))
    /\ GuestStep("open", [guest EXCEPT !.pc = "main"])

\* service_async: an interrupt is taken before the next instruction.
TakeIrq ==
    /\ SignalsIrq(gic)
    /\ GuestStep("main", [guest EXCEPT !.pc = "iar", !.round = 0])
    /\ UNCHANGED <<uart, gic>>

Main(to) == ~SignalsIrq(gic) /\ GuestStep("main", to)

\* The driver queues a byte and unmasks transmission, with interrupts masked.
ConsoleWrite == \E b \in Bytes :
    /\ Sends(MaxWritten)
    /\ Access(tree.uart + UARTIMSC, "pl011", WriteImsc(uart, gic, uart.imsc \cup {INT_TX}))
    /\ Main([guest EXCEPT !.out = Append(@, b)])

Idle == Main(guest) /\ UNCHANGED <<uart, gic>>

\* psci::call; the next turn of run's loop returns.
PowerOff ==
    /\ Running /\ guest.pc = "main" /\ ~SignalsIrq(gic)
    /\ powered_off' = TRUE
    /\ Stepped /\ UNCHANGED <<wiring, uart, gic, guest>>

ReadIar ==
    /\ Access(tree.gicc + GICC_IAR, "gicc", <<uart, Acknowledge(gic)>>)
    /\ GuestStep("iar", [guest EXCEPT !.pc = IF IarValue(gic) = UART_IRQ THEN "status" ELSE "main"])

\* Rounds of: status, clear, receive, transmit; at most Rounds of them.
ReadStatus ==
    /\ LET more == Mis(uart) # {} /\ guest.round < Rounds
       IN  GuestStep("status", [guest EXCEPT !.pc = IF more THEN "clear" ELSE "eoi",
                                             !.status = IF more THEN Mis(uart) ELSE {},
                                             !.chars = 0])
    /\ UNCHANGED <<uart, gic>>
ClearStatus ==
    /\ Access(tree.uart + UARTICR, "pl011", WriteIcr(uart, gic))
    /\ GuestStep("clear", [guest EXCEPT !.pc = IF INT_RX \in guest.status THEN "receive" ELSE "transmit",
                                        !.round = @ + 1])
Receive ==
    /\ uart.rx # << >> /\ guest.chars < RxBatch
    /\ Access(tree.uart + UARTDR, "pl011", ReadData(uart, gic))
    /\ GuestStep("receive", [guest EXCEPT !.chars = @ + 1])
Received ==
    /\ uart.rx = << >> \/ guest.chars = RxBatch
    /\ GuestStep("receive", [guest EXCEPT !.pc = IF INT_TX \in guest.status THEN "transmit" ELSE "status",
                                          !.chars = 0])
    /\ UNCHANGED <<uart, gic>>
Transmit ==
    /\ guest.out # << >>
    /\ Access(tree.uart + UARTDR, "pl011", WriteData(uart, gic, Head(guest.out)))
    /\ GuestStep("transmit", [guest EXCEPT !.out = Tail(@)])
Transmitted ==
    /\ guest.out = << >>
    /\ Access(tree.uart + UARTIMSC, "pl011", WriteImsc(uart, gic, uart.imsc \ {INT_TX}))
    /\ GuestStep("transmit", [guest EXCEPT !.pc = "status"])
Eoi ==
    /\ Access(tree.gicc + GICC_EOIR, "gicc", <<uart, EndOfInterrupt(gic, UART_IRQ)>>)
    /\ GuestStep("eoi", [guest EXCEPT !.pc = "main", !.round = 0])

Handler == ReadIar \/ ReadStatus \/ ClearStatus \/ Receive \/ Received \/ Transmit
           \/ Transmitted \/ Eoi
Booting == OpenGic \/ UnmaskRx
Guest   == EarlyWrite \/ Booting \/ TakeIrq \/ ConsoleWrite \/ Idle \/ PowerOff \/ Handler

-----------------------------------------------------------------------------
(* The front-end's loop: events, run, drain *)

Type ==
    /\ front.at = "top" /\ guest.pc # "off"
    /\ \E s \in Lines :
         /\ Len(uart.rx) + Len(s) <= MaxTyped
         /\ LET r == Feed(uart, gic, s) IN uart' = r[1] /\ gic' = r[2]
    /\ UNCHANGED <<wiring, guest, powered_off, front>>

CloseWindow ==
    /\ front.at = "top" /\ front' = [front EXCEPT !.at = "exited"]
    /\ UNCHANGED <<wiring, uart, gic, guest, powered_off>>

EnterRun ==
    /\ front.at = "top" /\ guest.pc # "off"
    /\ front' = [at |-> "run", stepped |-> FALSE]
    /\ UNCHANGED <<wiring, uart, gic, guest, powered_off>>

\* A spent budget, an idle guest or a power-off; never before an instruction.
RunReturns ==
    /\ front.at = "run" /\ front.stepped
    /\ front' = [at |-> "drain", stepped |-> FALSE]
    /\ UNCHANGED <<wiring, uart, gic, guest, powered_off>>

\* take_tx, shown at once; a power-off ends the loop only after it.
Drain ==
    /\ front.at = "drain"
    /\ uart' = [uart EXCEPT !.tx = << >>]
    /\ front' = [front EXCEPT !.at = IF powered_off THEN "exited" ELSE "top"]
    /\ UNCHANGED <<wiring, gic, guest, powered_off>>

Loop  == EnterRun \/ RunReturns \/ Drain
Next  == Attach \/ BootImage \/ Guest \/ Type \/ CloseWindow \/ Loop

Spec == Init /\ [][Next]_vars

\* A run executes instructions, returns and is called again; the guest gets
\* through its boot.
FairSpec == Spec /\ WF_vars(Guest) /\ WF_vars(Loop) /\ SF_vars(OpenGic) /\ SF_vars(UnmaskRx)

-----------------------------------------------------------------------------
(* Properties *)

TypeOK ==
    /\ uart.tx \in Seq(Bytes) /\ Len(uart.rx) <= MaxTyped
    /\ uart.imsc \subseteq {INT_RX, INT_TX, INT_RT}
    /\ GicInv(gic) /\ gic.active \subseteq {UART_IRQ}
    /\ guest.pc \in {"off", "early", "open", "main"} => gic.running = << >>
    /\ guest.round \in 0 .. Rounds /\ guest.chars \in 0 .. RxBatch
    /\ front.at \in {"setup", "top", "run", "drain", "exited", "panicked"}
    /\ powered_off => front.at \in {"run", "drain", "exited"}

\* Every interrupt line and every address belongs to one device; the images
\* lie in RAM, apart from each other, the kernel with the memory it clears
\* behind its file (image_size), and the core starts on them as the boot
\* protocol says (board.rs, loader.rs). An initramfs and a tree are aligned.
Pieces == <<layout.kernel, layout.initrd, layout.dtb>>
Need(image) == IF image.header /\ image.image_size > image.len THEN image.image_size ELSE image.len
LaidOut ==
    /\ \A d \in devices : ~Overlaps(devices \ {d}, d.base, d.size)
    /\ \A n \in DOMAIN slots :
          /\ slots[n].base < VIRTIO_BASE + 8 * VIRTIO_STRIDE
          /\ slots[n].irq > UART_IRQ /\ Route(slots[n].base, 4) = "virtio"
          /\ \A k \in 1 .. n - 1 : slots[k].irq # slots[n].irq
    /\ layout # None =>
          /\ layout.kernel[2] - layout.kernel[1] >= Need(layout.image)
          /\ \A p \in Range(Pieces) : RAM_BASE <= p[1] /\ p[1] <= p[2] /\ p[2] <= RamEnd
          /\ \A i, j \in 1 .. 3 : i < j => Pieces[i][2] <= Pieces[j][1]
          /\ layout.dtb[1] % ALIGN_2M = 0
          /\ tree.initrd # None => tree.initrd[1] % ALIGN_2M = 0
          /\ entry.pc = layout.kernel[1] /\ entry.x0 = layout.dtb[1]

\* The line follows the masked status: while it is set the interrupt is
\* pending in the controller, except between the acknowledgement, which
\* clears it there, and the handler's next write (uart.rs update_irq is not
\* called by reads of the status, nor by the end of the interrupt).
Announced ==
    Mis(uart) # {} => \/ UART_IRQ \in gic.pending
                      \/ guest.round = 0 /\ guest.pc \in {"status", "clear"}

\* The board is wired, laid out and announced as above.
BoardInv == TypeOK /\ LaidOut /\ Announced

\* The console keeps its promise: nothing typed or written is lost, doubled,
\* reordered or left unseen, whatever runs, interrupts and power-offs cut
\* (uart.rs, gic.rs, bin/v64.rs).
Console == INSTANCE Serial WITH
    typed   <- uart.rx,
    off     <- powered_off \/ front.at \in {"exited", "panicked"},
    written <- IF powered_off \/ front.at \in {"exited", "panicked"} THEN uart.tx
               ELSE uart.tx \o guest.out
ImplementsConsole == Console!Spec
=============================================================================
