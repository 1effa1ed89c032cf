----------------------------- MODULE BoardProofs -----------------------------
(***************************************************************************)
(* Machine-checked proofs about the board, for every number of transports, *)
(* every kernel, initramfs and size of RAM, and every input of the user,   *)
(* and, in the second part, about the loop that runs the machine, for      *)
(* every set of interrupts, every sampling interval, idle cap, instruction *)
(* count and set of compare values.                                        *)
(***************************************************************************)
EXTENDS Machine, Board, GicProofs

-----------------------------------------------------------------------------
(* The inductive invariant *)

\* The bus's table and the slots are those of the first k transports.
Fixed == {Window(GICD_BASE, 65536, "gicd"), Window(GICC_BASE, 65536, "gicc"),
          Window(UART_BASE, 4096, "pl011")}
Transport(n) == Window(NextSlot(n).base, VIRTIO_STRIDE, "virtio")
Table(k) == Fixed \cup {Transport(n) : n \in 0 .. k - 1}
Slots(k) == [n \in 1 .. k |-> NextSlot(n - 1)]
Wired == \E k \in 0 .. MaxDevices : slots = Slots(k) /\ devices = Table(k)

\* What the tree told the guest about where things are.
Told == front.at \in {"top", "run", "drain"} =>
    /\ tree.uart = UART_BASE /\ tree.gicd = GICD_BASE /\ tree.gicc = GICC_BASE
    /\ tree.uart_spi = UART_IRQ - 32

Interrupts == {INT_RX, INT_TX, INT_RT}
UartType == [tx: Seq(Bytes), rx: Seq(0 .. 255), imsc: SUBSET Interrupts]
Places == {"off", "early", "open", "main", "iar", "status", "clear", "receive",
           "transmit", "eoi"}
GuestType == [pc: Places, out: Seq(Bytes), round: 0 .. Rounds, chars: 0 .. RxBatch,
              status: SUBSET Interrupts]
FrontType == [at: {"setup", "top", "run", "drain", "exited", "panicked"},
              stepped: BOOLEAN]
Typed == /\ uart \in UartType /\ guest \in GuestType
         /\ front \in FrontType /\ powered_off \in BOOLEAN

\* Where the guest's handler stands against the controller: only the UART's
\* interrupt is ever pending, and it is never nested.
Handling ==
    /\ gic.pending \subseteq {UART_IRQ} /\ gic.active \subseteq {UART_IRQ}
    /\ Len(gic.running) <= 1
    /\ guest.pc \in {"off", "early", "open", "main", "iar"} => gic.running = << >>
    /\ guest.pc = "iar" => guest.round = 0
    /\ guest.pc = "clear" => guest.round < Rounds
    /\ guest.pc \in {"off", "early", "open"} => guest.out = << >>
    /\ front.at = "setup" => guest.pc = "off" /\ ~ powered_off

IInv == Wired /\ Told /\ Typed /\ Handling /\ BoardInv
-----------------------------------------------------------------------------
(* The bus *)

(* No two windows of the table share an address, and none reaches RAM.      *)
LEMMA WindowsApart ==
    ASSUME NEW k \in 0 .. 8, NEW d \in Table(k), NEW e \in Table(k)
    PROVE  /\ d = e \/ d.base + d.size <= e.base \/ e.base + e.size <= d.base
           /\ d.base \in Nat /\ d.size \in Nat \ {0} /\ d.base + d.size <= RAM_BASE
<1> DEFINE Base(n) == VIRTIO_BASE + n * VIRTIO_STRIDE
<1>1. ASSUME NEW w \in Table(k)
      PROVE  \/ w.base = GICD_BASE /\ w.size = 65536 /\ w = Window(GICD_BASE, 65536, "gicd")
             \/ w.base = GICC_BASE /\ w.size = 65536 /\ w = Window(GICC_BASE, 65536, "gicc")
             \/ w.base = UART_BASE /\ w.size = 4096 /\ w = Window(UART_BASE, 4096, "pl011")
             \/ \E n \in 0 .. 7 : w.base = Base(n) /\ w.size = VIRTIO_STRIDE /\ w = Transport(n)
  BY SMT DEF Table, Fixed, Window, Transport, NextSlot
<1> USE DEF GICD_BASE, GICC_BASE, UART_BASE, VIRTIO_BASE, VIRTIO_STRIDE, RAM_BASE
<1>2. \A n, m \in 0 .. 7 : n = m \/ Base(n) + VIRTIO_STRIDE <= Base(m)
                                 \/ Base(m) + VIRTIO_STRIDE <= Base(n)
  BY SMT
<1>3. \A n \in 0 .. 7 : Base(n) \in Nat /\ Base(n) >= VIRTIO_BASE /\ Base(n) <= VIRTIO_BASE + 4096
  BY SMT
<1>4. d = e \/ d.base + d.size <= e.base \/ e.base + e.size <= d.base
  <2> HIDE DEF Base
  <2> QED BY SMT, <1>1, <1>2, <1>3
<1>5. d.base \in Nat /\ d.size \in Nat \ {0} /\ d.base + d.size <= RAM_BASE
  <2> HIDE DEF Base
  <2> QED BY SMT, <1>1, <1>3
<1> QED BY SMT, <1>4, <1>5

(* An access that lies in a window reaches its device.                      *)
LEMMA RouteFacts ==
    ASSUME Wired, NEW d \in devices, NEW addr \in Nat,
           d.base <= addr, addr + 4 <= d.base + d.size
    PROVE  Route(addr, 4) = d.name
<1> PICK k \in 0 .. MaxDevices : slots = Slots(k) /\ devices = Table(k)
  BY SMT DEF Wired
<1>1. k \in 0 .. 8
  BY SMT, BoardAssumption
<1>2. /\ d.base \in Nat /\ d.size \in Nat /\ d.base + d.size <= RAM_BASE
      /\ \A e \in devices : /\ e.base \in Nat /\ e.size \in Nat
                            /\ d = e \/ d.base + d.size <= e.base \/ e.base + e.size <= d.base
  BY SMT, <1>1, WindowsApart
<1>3. RAM_BASE \in Nat
  BY SMT DEF RAM_BASE
<1>4. {e \in devices : addr >= e.base /\ addr < e.base + e.size} = {d}
  BY SMT, <1>2
<1>5. (CHOOSE e \in {d} : TRUE) = d
  BY SMT
<1>6. ~ (addr >= RAM_BASE /\ addr < RamEnd)
  BY SMT, <1>2, <1>3
<1> QED BY SMT, <1>2, <1>4, <1>5, <1>6 DEF Route

(* Every register the guest uses is where the tree says.                    *)
LEMMA RegistersReached ==
    ASSUME Wired, Told, front.at = "run"
    PROVE  /\ \A off \in {UARTDR, UARTIMSC, UARTICR} : Route(tree.uart + off, 4) = "pl011"
           /\ Route(tree.gicd + GICD_ISENABLER, 4) = "gicd"
           /\ \A off \in {GICC_IAR, GICC_EOIR} : Route(tree.gicc + off, 4) = "gicc"
<1>1. /\ Window(GICD_BASE, 65536, "gicd") \in devices
      /\ Window(GICC_BASE, 65536, "gicc") \in devices
      /\ Window(UART_BASE, 4096, "pl011") \in devices
  BY SMT DEF Wired, Table, Fixed
<1>2. tree.uart = UART_BASE /\ tree.gicd = GICD_BASE /\ tree.gicc = GICC_BASE
  BY SMT DEF Told
<1> DEFINE Offsets == 0 .. 4092
<1>3. ASSUME NEW off \in Offsets
      PROVE  /\ Route(UART_BASE + off, 4) = "pl011"
             /\ Route(GICD_BASE + off, 4) = "gicd"
             /\ Route(GICC_BASE + off, 4) = "gicc"
  BY SMT, <1>1, RouteFacts DEF GICD_BASE, GICC_BASE, UART_BASE, Window
<1>4. /\ UARTDR \in Offsets /\ UARTIMSC \in Offsets /\ UARTICR \in Offsets
      /\ GICD_ISENABLER \in Offsets /\ GICC_IAR \in Offsets /\ GICC_EOIR \in Offsets
  BY SMT DEF UARTDR, UARTIMSC, UARTICR, GICD_ISENABLER, GICC_IAR, GICC_EOIR
<1>5. /\ Route(UART_BASE + UARTDR, 4) = "pl011" /\ Route(UART_BASE + UARTIMSC, 4) = "pl011"
      /\ Route(UART_BASE + UARTICR, 4) = "pl011"
      /\ Route(GICD_BASE + GICD_ISENABLER, 4) = "gicd"
      /\ Route(GICC_BASE + GICC_IAR, 4) = "gicc" /\ Route(GICC_BASE + GICC_EOIR, 4) = "gicc"
  <2> HIDE DEF Offsets
  <2> QED BY Zenon, <1>3, <1>4
<1> QED BY Zenon, <1>2, <1>5

(* Every address and every interrupt line belongs to one device.            *)
Apart ==
    /\ \A d \in devices : ~ Overlaps(devices \ {d}, d.base, d.size)
    /\ \A n \in DOMAIN slots :
          /\ slots[n].base < VIRTIO_BASE + 8 * VIRTIO_STRIDE
          /\ slots[n].irq > UART_IRQ /\ Route(slots[n].base, 4) = "virtio"
          /\ \A m \in 1 .. n - 1 : slots[m].irq # slots[n].irq

LEMMA WiredApart == Wired => Apart
<1> SUFFICES ASSUME Wired PROVE Apart
  OBVIOUS
<1> PICK k \in 0 .. MaxDevices : slots = Slots(k) /\ devices = Table(k)
  BY SMT DEF Wired
<1>1. k \in 0 .. 8
  BY SMT, BoardAssumption
<1>2. ASSUME NEW d \in devices
      PROVE  ~ Overlaps(devices \ {d}, d.base, d.size)
  <2>1. \A e \in devices :
           /\ d = e \/ d.base + d.size <= e.base \/ e.base + e.size <= d.base
           /\ d.base \in Nat /\ d.size \in Nat \ {0} /\ d.base + d.size <= RAM_BASE
    BY SMT, <1>1, WindowsApart
  <2> QED BY SMT, <2>1 DEF Overlaps, Disjoint
<1>3. ASSUME NEW n \in DOMAIN slots
      PROVE  /\ slots[n].base < VIRTIO_BASE + 8 * VIRTIO_STRIDE
             /\ slots[n].irq > UART_IRQ /\ Route(slots[n].base, 4) = "virtio"
             /\ \A m \in 1 .. n - 1 : slots[m].irq # slots[n].irq
  <2>1. n \in 1 .. k /\ n - 1 \in 0 .. 7 /\ \A m \in 1 .. k : slots[m] = NextSlot(m - 1)
    BY SMT, <1>1 DEF Slots
  <2>2. /\ slots[n].base = VIRTIO_BASE + (n - 1) * VIRTIO_STRIDE
        /\ slots[n].irq = VIRTIO_IRQ + (n - 1)
    <3>1. slots[n] = NextSlot(n - 1)
      BY Zenon, <2>1
    <3> QED BY SMT, <3>1 DEF NextSlot
  <2>3. \A m \in 1 .. n - 1 : slots[m].irq = VIRTIO_IRQ + (m - 1)
    <3> SUFFICES ASSUME NEW m \in 1 .. n - 1
                 PROVE  slots[m].irq = VIRTIO_IRQ + (m - 1)
      BY Zenon
    <3>1. m \in 1 .. k
      BY SMT, <1>1, <2>1
    <3>2. slots[m] = NextSlot(m - 1)
      BY Zenon, <2>1, <3>1
    <3> QED BY SMT, <3>2 DEF NextSlot
  <2>4. Transport(n - 1) \in devices
    BY SMT, <1>1, <2>1 DEF Table
  <2>5. Route(slots[n].base, 4) = "virtio"
    <3>1. /\ Transport(n - 1).base = slots[n].base /\ Transport(n - 1).size = VIRTIO_STRIDE
          /\ Transport(n - 1).name = "virtio"
      BY SMT, <2>2 DEF Transport, Window, NextSlot
    <3>2. slots[n].base \in Nat
      BY SMT, <2>1, <2>2 DEF VIRTIO_BASE, VIRTIO_STRIDE
    <3> QED BY SMT, <2>4, <3>1, <3>2, RouteFacts DEF VIRTIO_STRIDE
  <2> QED BY SMT, <2>1, <2>2, <2>3, <2>5 DEF VIRTIO_BASE, VIRTIO_STRIDE, VIRTIO_IRQ, UART_IRQ
<1> QED BY Zenon, <1>2, <1>3 DEF Apart

LEMMA WiredApartNext == Wired' => Apart'
BY WiredApart, PTL
-----------------------------------------------------------------------------
(* Boot *)

(* Rounding up to 2 MiB.                                                    *)
LEMMA AlignUp ==
    ASSUME NEW x \in Nat
    PROVE  align_up(x) \in Nat /\ x <= align_up(x) /\ align_up(x) % ALIGN_2M = 0
<1> DEFINE q == (x + ALIGN_2M - 1) \div ALIGN_2M
<1>1. q \in Nat /\ x <= q * ALIGN_2M
  BY SMT DEF ALIGN_2M
<1>2. q * ALIGN_2M \in Nat /\ (q * ALIGN_2M) % ALIGN_2M = 0
  <2> HIDE DEF q
  <2> QED BY SMT, <1>1 DEF ALIGN_2M
<1> QED BY SMT, <1>1, <1>2 DEF align_up

(* The images follow each other in RAM, and the kernel has the memory it    *)
(* clears.                                                                  *)
LEMMA PlaceFacts ==
    ASSUME NEW image \in Images, NEW initrd \in Initrds,
           NEW place, place = Place(image, initrd), ~ place.dtb[2] > RamEnd
    PROVE  /\ \A p \in {place.kernel, place.initrd, place.dtb} :
                 RAM_BASE <= p[1] /\ p[1] <= p[2] /\ p[2] <= RamEnd
           /\ place.kernel[2] <= place.initrd[1] /\ place.kernel[2] <= place.dtb[1]
           /\ place.initrd[2] <= place.dtb[1]
           /\ place.kernel[2] - place.kernel[1] >= Need(place.image)
           /\ place.dtb[1] % ALIGN_2M = 0
           /\ initrd # None => place.initrd[1] % ALIGN_2M = 0
<1> DEFINE kernel == RAM_BASE + IF image.header THEN image.text_offset ELSE DEFAULT_TEXT_OFFSET
           end    == kernel + SpanOf(image)
           ird    == IF initrd = None THEN <<end, end>>
                     ELSE <<align_up(end), align_up(end) + initrd>>
           dtb    == align_up(ird[2])
<1>1. /\ place.kernel = <<kernel, end>> /\ place.initrd = ird
      /\ place.dtb = <<dtb, dtb + DtbLen>> /\ place.image = image
  BY Zenon DEF Place
<1>2. /\ image.header \in BOOLEAN /\ image.text_offset \in Nat
      /\ image.image_size \in Nat /\ image.len \in Nat
      /\ DtbLen \in Nat /\ RamSize \in Nat /\ initrd \in Nat \cup {None}
  BY BoardAssumption
<1>3. kernel \in Nat /\ RAM_BASE <= kernel
  BY SMT, <1>2 DEF RAM_BASE, DEFAULT_TEXT_OFFSET
<1>4. SpanOf(image) \in Nat /\ SpanOf(image) >= Need(image)
  BY <1>2 DEF SpanOf, Need, Larger
<1> HIDE DEF kernel
<1>5. end \in Nat /\ kernel <= end /\ end - kernel >= Need(image)
  BY SMT, <1>2, <1>3, <1>4 DEF Need
<1> HIDE DEF end
<1>6. /\ ird[1] \in Nat /\ ird[2] \in Nat /\ end <= ird[1] /\ ird[1] <= ird[2]
      /\ initrd # None => ird[1] % ALIGN_2M = 0
  <2>1. CASE initrd = None
    BY <1>5, <2>1
  <2>2. CASE initrd # None
    <3>1. align_up(end) \in Nat /\ end <= align_up(end) /\ align_up(end) % ALIGN_2M = 0
      BY <1>5, AlignUp
    <3>2. ird[1] = align_up(end) /\ ird[2] = align_up(end) + initrd /\ initrd \in Nat
      BY <1>2, <2>2
    <3> QED BY SMT, <3>1, <3>2
  <2> QED BY <2>1, <2>2
<1> HIDE DEF ird
<1>7. dtb \in Nat /\ ird[2] <= dtb /\ dtb % ALIGN_2M = 0
  BY <1>6, AlignUp
<1> HIDE DEF dtb
<1>8. dtb + DtbLen <= RamEnd /\ RamEnd \in Nat /\ RAM_BASE \in Nat
  BY SMT, <1>1, <1>2, <1>7 DEF RamEnd, RAM_BASE
<1>9. /\ place.kernel[1] = kernel /\ place.kernel[2] = end
      /\ place.initrd[1] = ird[1] /\ place.initrd[2] = ird[2]
      /\ place.dtb[1] = dtb /\ place.dtb[2] = dtb + DtbLen
  BY <1>1
<1> QED BY <1>1, <1>2, <1>3, <1>5, <1>6, <1>7, <1>8, <1>9

-----------------------------------------------------------------------------
(* The UART's line *)

(* update_irq touches the UART's interrupt only, and raises it whenever a   *)
(* masked status bit is set.                                                *)
LEMMA UpdateIrqFacts ==
    ASSUME NEW u, NEW g, GicInv(g), g.pending \subseteq {UART_IRQ},
           NEW r, r = update_irq(u, g)
    PROVE  /\ r[1] = u /\ GicInv(r[2])
           /\ r[2].running = g.running /\ r[2].active = g.active
           /\ r[2].pending \subseteq {UART_IRQ}
           /\ Mis(u) # {} => UART_IRQ \in r[2].pending
<1>1. UART_IRQ \in Irqs /\ g \in GicType
  BY BoardAssumption DEF GicInv
<1>2. GicInv(SetPending(g, UART_IRQ)) /\ SetPending(g, UART_IRQ).running = g.running
  BY <1>1, LineInv
<1>3. GicInv(ClearPending(g, UART_IRQ)) /\ ClearPending(g, UART_IRQ).running = g.running
  BY <1>1, LineInv
<1>4. /\ SetPending(g, UART_IRQ).pending = g.pending \cup {UART_IRQ}
      /\ SetPending(g, UART_IRQ).active = g.active
  BY <1>1 DEF SetPending, Recompute, GicType
<1>5. /\ ClearPending(g, UART_IRQ).pending = g.pending \ {UART_IRQ}
      /\ ClearPending(g, UART_IRQ).active = g.active
  BY <1>1 DEF ClearPending, Recompute, GicType
<1> QED BY <1>2, <1>3, <1>4, <1>5 DEF update_irq
-----------------------------------------------------------------------------
(* Init, assembly and boot *)

LEMMA InitInv == ASSUME Init PROVE IInv
<1>1. Wired
  <2>1. Slots(0) = << >> /\ Table(0) = Fixed
    BY DEF Slots, Table
  <2>2. 0 \in 0 .. MaxDevices
    BY BoardAssumption
  <2>3. devices = Fixed /\ slots = << >>
    BY SMT DEF Init, Fixed
  <2> QED BY Zenon, <2>1, <2>2, <2>3 DEF Wired
<1>2. Typed
  <2>1. 0 \in 0 .. Rounds /\ 0 \in 0 .. RxBatch
    BY BoardAssumption
  <2>2. uart \in UartType
    BY DEF Init, UartType
  <2>3. guest \in GuestType
    BY <2>1 DEF Init, GuestType, Places
  <2>4. front \in FrontType
    BY DEF Init, FrontType
  <2>5. powered_off \in BOOLEAN
    <3>1. powered_off = FALSE
      BY SMT DEF Init
    <3> QED BY Zenon, <3>1
  <2> QED BY <2>2, <2>3, <2>4, <2>5 DEF Typed
<1>3. GicInv(gic) /\ gic.pending = {} /\ gic.active = {} /\ gic.running = << >>
  BY ResetInv DEF Init, GicReset
<1>4. Handling /\ Told
  BY <1>3, BoardAssumption DEF Init, Handling, Told
<1>5. TypeOK
  BY <1>2, <1>3, BoardAssumption
     DEF Init, TypeOK, Typed, UartType, GuestType, FrontType, Interrupts
<1>6. LaidOut
  BY <1>1, WiredApart DEF Init, LaidOut, Apart
<1>7. Announced
  BY DEF Init, Announced, Mis
<1> QED BY <1>1, <1>2, <1>4, <1>5, <1>6, <1>7 DEF IInv, BoardInv

(* What does not touch the wiring keeps what holds of it.                   *)
LEMMA WiringKept ==
    ASSUME IInv, UNCHANGED wiring, front'.at \in {"top", "run", "drain"} => front.at # "setup",
           front.at \notin {"exited", "panicked"}
    PROVE  Wired' /\ Told' /\ LaidOut'
<1>1. /\ devices' = devices /\ slots' = slots /\ layout' = layout /\ tree' = tree
      /\ entry' = entry
  BY DEF wiring
<1>2. Wired'
  BY <1>1 DEF IInv, Wired
<1>3. Told'
  BY <1>1 DEF IInv, Told, Typed, FrontType
<1>4. LaidOut'
  <2>1. \A addr : Route(addr, 4)' = Route(addr, 4)
    BY <1>1 DEF Route
  <2>2. LaidOut
    BY DEF IInv, BoardInv
  <2>3. Pieces' = Pieces
    BY <1>1 DEF Pieces
  <2>4. \A d \in devices' : ~Overlaps(devices' \ {d}, d.base, d.size)
    BY <1>1, <2>2 DEF LaidOut
  <2>5. (\A n \in DOMAIN slots :
            /\ slots[n].base < VIRTIO_BASE + 8 * VIRTIO_STRIDE
            /\ slots[n].irq > UART_IRQ /\ Route(slots[n].base, 4) = "virtio"
            /\ \A k \in 1 .. n - 1 : slots[k].irq # slots[n].irq)'
    <3>1. \A n \in DOMAIN slots :
             /\ slots[n].base < VIRTIO_BASE + 8 * VIRTIO_STRIDE
             /\ slots[n].irq > UART_IRQ /\ Route(slots[n].base, 4) = "virtio"
             /\ \A k \in 1 .. n - 1 : slots[k].irq # slots[n].irq
      BY Zenon, <2>2 DEF LaidOut
    <3>2. \A n : Route(slots[n].base, 4)' = Route(slots[n].base, 4)
      BY <1>1, <2>1
    <3> QED BY <1>1, <3>1, <3>2
  <2>6. layout' # None =>
          /\ layout'.kernel[2] - layout'.kernel[1] >= Need(layout'.image)
          /\ \A p \in Range(Pieces') : RAM_BASE <= p[1] /\ p[1] <= p[2] /\ p[2] <= RamEnd
          /\ \A i, j \in 1 .. 3 : i < j => Pieces'[i][2] <= Pieces'[j][1]
          /\ layout'.dtb[1] % ALIGN_2M = 0
          /\ tree'.initrd # None => tree'.initrd[1] % ALIGN_2M = 0
          /\ entry'.pc = layout'.kernel[1] /\ entry'.x0 = layout'.dtb[1]
    <3>1. layout # None =>
          /\ layout.kernel[2] - layout.kernel[1] >= Need(layout.image)
          /\ \A p \in Range(Pieces) : RAM_BASE <= p[1] /\ p[1] <= p[2] /\ p[2] <= RamEnd
          /\ \A i, j \in 1 .. 3 : i < j => Pieces[i][2] <= Pieces[j][1]
          /\ layout.dtb[1] % ALIGN_2M = 0
          /\ tree.initrd # None => tree.initrd[1] % ALIGN_2M = 0
          /\ entry.pc = layout.kernel[1] /\ entry.x0 = layout.dtb[1]
      BY Zenon, <2>2 DEF LaidOut
    <3> QED BY <1>1, <2>3, <3>1
  <2> QED BY Zenon, <2>4, <2>5, <2>6 DEF LaidOut
<1> QED BY <1>2, <1>3, <1>4

LEMMA AttachInv == ASSUME IInv, Attach PROVE IInv'
<1> DEFINE s == NextSlot(Len(slots))
<1>1. /\ front.at = "setup" /\ Len(slots) < MaxDevices
      /\ UNCHANGED <<layout, tree, entry, uart, gic, guest, powered_off>>
  BY DEF Attach
<1>2. guest.pc = "off" /\ ~ powered_off
  BY <1>1 DEF IInv, Handling
<1>3. PICK k \in 0 .. MaxDevices : slots = Slots(k) /\ devices = Table(k)
  BY DEF IInv, Wired
<1>4. Len(slots) = k /\ k \in Nat /\ k + 1 \in 0 .. MaxDevices
  BY <1>1, <1>3, BoardAssumption DEF Slots
<1>5. Wired' /\ (UNCHANGED front \/ front' = [front EXCEPT !.at = "panicked"])
  <2>1. CASE UNCHANGED <<devices, slots>> /\ front' = [front EXCEPT !.at = "panicked"]
    BY <1>3, <2>1 DEF Wired
  <2>2. CASE /\ devices' = devices \cup {Window(s.base, VIRTIO_STRIDE, "virtio")}
             /\ slots' = Append(slots, s) /\ UNCHANGED front
    <3>1. s = NextSlot(k) /\ Window(s.base, VIRTIO_STRIDE, "virtio") = Transport(k)
      BY <1>4 DEF Transport
    <3>2. devices' = Table(k + 1)
      <4>1. 0 .. (k + 1) - 1 = (0 .. k - 1) \cup {k}
        BY <1>4
      <4> QED BY <1>3, <2>2, <3>1, <4>1 DEF Table
    <3>3. slots' = Slots(k + 1)
      <4> DEFINE S == {NextSlot(n - 1) : n \in 1 .. k + 1}
                 a == Append(Slots(k), NextSlot(k))
      <4>1. k + 1 \in 1 .. k + 1 /\ (k + 1) - 1 = k /\ 1 .. k \subseteq 1 .. k + 1
        BY <1>4
      <4>2. NextSlot(k) \in S /\ Slots(k) \in [1 .. k -> S]
        <5>1. NextSlot(k) = NextSlot((k + 1) - 1)
          BY <4>1
        <5> QED BY <4>1, <5>1 DEF Slots
      <4>3. \A n \in 1 .. k : Slots(k)[n] = NextSlot(n - 1)
        BY DEF Slots
      <4> HIDE DEF S
      <4>4. Slots(k) \in Seq(S) /\ Len(Slots(k)) = k
        BY <1>4, <4>2
      <4>5. a \in Seq(S) /\ Len(a) = k + 1 /\ a[k + 1] = NextSlot(k)
            /\ \A n \in 1 .. k : a[n] = Slots(k)[n]
        BY <4>2, <4>4
      <4> HIDE DEF a
      <4>6. \A n \in 1 .. k + 1 : a[n] = NextSlot(n - 1)
        <5> SUFFICES ASSUME NEW n \in 1 .. k + 1 PROVE a[n] = NextSlot(n - 1)
          OBVIOUS
        <5>1. CASE n = k + 1
          BY <4>1, <4>5, <5>1
        <5>2. CASE n \in 1 .. k
          BY <4>3, <4>5, <5>2
        <5> QED BY <1>4, <5>1, <5>2
      <4>7. a = [n \in 1 .. k + 1 |-> a[n]]
        BY <4>5
      <4>8. Append(Slots(k), NextSlot(k)) = Slots(k + 1)
        BY <4>6, <4>7 DEF Slots, a
      <4> QED BY <1>3, <2>2, <3>1, <4>8
    <3> QED BY <1>4, <2>2, <3>2, <3>3, Zenon DEF Wired
  <2> QED BY Zenon, <2>1, <2>2 DEF Attach
<1>6. front'.at \in {"setup", "panicked"} /\ front' \in FrontType
  BY <1>1, <1>5 DEF IInv, Typed, FrontType
<1>7. Told' /\ Typed' /\ Handling'
  BY <1>1, <1>2, <1>6 DEF IInv, Told, Typed, Handling
<1>8. TypeOK' /\ Announced'
  BY <1>1, <1>2, <1>6 DEF IInv, BoardInv, TypeOK, Announced, Mis, ris
<1>9. LaidOut'
  BY <1>1, <1>5, WiredApartNext DEF IInv, BoardInv, LaidOut, Pieces, Apart
<1> QED BY <1>5, <1>7, <1>8, <1>9 DEF IInv, BoardInv
(* The images are placed as PlaceFacts says and the guest is told of them.  *)
LEMMA BootImageInv == ASSUME IInv, BootImage PROVE IInv'
<1>1. /\ front.at = "setup" /\ guest.pc = "off" /\ ~ powered_off
      /\ UNCHANGED <<devices, slots, uart, gic>>
  BY DEF BootImage, IInv, Handling
<1>2. PICK image \in Images, initrd \in Initrds :
        LET place == Place(image, initrd)
        IN  IF place.dtb[2] > RamEnd
            THEN /\ front' = [front EXCEPT !.at = "panicked"]
                 /\ UNCHANGED <<layout, tree, entry, guest, powered_off>>
            ELSE /\ layout' = place
                 /\ tree' = virt_dtb(place, initrd)
                 /\ entry' = [pc |-> place.kernel[1], x0 |-> place.dtb[1], mode |-> "EL1h",
                              masked |-> TRUE]
                 /\ guest' = [guest EXCEPT !.pc =
                        IF [devices |-> Len(slots), image |-> image, initrd |-> initrd] \in Followed
                        THEN "early" ELSE "off"]
                 /\ powered_off' = FALSE
                 /\ front' = [front EXCEPT !.at = "top"]
  BY Zenon DEF BootImage
<1>3. Wired'
  BY <1>1 DEF IInv, Wired
<1> DEFINE place == Place(image, initrd)
<1>4. CASE place.dtb[2] > RamEnd
  <2>1. /\ front' = [front EXCEPT !.at = "panicked"]
        /\ UNCHANGED <<layout, tree, entry, guest, powered_off>>
    BY Zenon, <1>2, <1>4
  <2>2. front'.at = "panicked" /\ front' \in FrontType
    BY <2>1 DEF IInv, Typed, FrontType
  <2>3. Told' /\ Typed' /\ Handling'
    BY <1>1, <2>1, <2>2 DEF IInv, Told, Typed, Handling
  <2>4. TypeOK' /\ Announced'
    BY <1>1, <2>1, <2>2 DEF IInv, BoardInv, TypeOK, Announced, Mis, ris
  <2>5. LaidOut'
    BY <1>3, <2>1, WiredApartNext DEF IInv, BoardInv, LaidOut, Pieces, Apart
  <2> QED BY <1>3, <2>3, <2>4, <2>5 DEF IInv, BoardInv
<1>5. CASE ~ place.dtb[2] > RamEnd
  <2>1. /\ layout' = place /\ tree' = virt_dtb(place, initrd)
        /\ entry' = [pc |-> place.kernel[1], x0 |-> place.dtb[1], mode |-> "EL1h",
                     masked |-> TRUE]
        /\ guest' \in {[guest EXCEPT !.pc = "early"], [guest EXCEPT !.pc = "off"]}
        /\ powered_off' = FALSE /\ front' = [front EXCEPT !.at = "top"]
    BY Zenon, <1>2, <1>5
  <2>2. front'.at = "top" /\ front' \in FrontType
    BY <2>1 DEF IInv, Typed, FrontType
  <2>3. guest' \in GuestType /\ guest'.pc \in {"early", "off"}
        /\ guest'.out = guest.out /\ guest'.round = guest.round /\ guest'.chars = guest.chars
    BY <2>1 DEF IInv, Typed, GuestType, Places
  <2>4. Typed'
    <3>1. powered_off' \in BOOLEAN
      BY Zenon, <2>1
    <3> QED BY <1>1, <2>2, <2>3, <3>1 DEF IInv, Typed
  <2>5. Told'
    <3>1. /\ tree'.uart = UART_BASE /\ tree'.gicd = GICD_BASE /\ tree'.gicc = GICC_BASE
          /\ tree'.uart_spi = UART_IRQ - 32
      BY Zenon, <2>1 DEF virt_dtb
    <3> QED BY Zenon, <3>1 DEF Told
  <2>6. Handling'
    BY <1>1, <2>1, <2>2, <2>3 DEF IInv, Handling
  <2>7. TypeOK' /\ Announced'
    BY <1>1, <2>1, <2>2, <2>3 DEF IInv, BoardInv, TypeOK, Announced, Mis, ris, Typed, GuestType
  <2>8. LaidOut'
    <3>1. Apart'
      BY <1>3, WiredApartNext
    <3>2. /\ \A p \in {layout'.kernel, layout'.initrd, layout'.dtb} :
                RAM_BASE <= p[1] /\ p[1] <= p[2] /\ p[2] <= RamEnd
          /\ layout'.kernel[2] <= layout'.initrd[1] /\ layout'.kernel[2] <= layout'.dtb[1]
          /\ layout'.initrd[2] <= layout'.dtb[1]
          /\ layout'.kernel[2] - layout'.kernel[1] >= Need(layout'.image)
          /\ layout'.dtb[1] % ALIGN_2M = 0
          /\ initrd # None => layout'.initrd[1] % ALIGN_2M = 0
      <4> HIDE DEF place
      <4> QED BY Zenon, <1>5, <2>1, PlaceFacts DEF place
    <3>3. entry'.pc = layout'.kernel[1] /\ entry'.x0 = layout'.dtb[1]
      BY Zenon, <2>1
    <3>4. tree'.initrd # None => tree'.initrd[1] % ALIGN_2M = 0
      <4>1. tree'.initrd = IF initrd = None THEN None ELSE layout'.initrd
        BY Zenon, <2>1 DEF virt_dtb
      <4> QED BY Zenon, <3>2, <4>1
    <3>5. /\ \A p \in Range(Pieces') : RAM_BASE <= p[1] /\ p[1] <= p[2] /\ p[2] <= RamEnd
          /\ \A i, j \in 1 .. 3 : i < j => Pieces'[i][2] <= Pieces'[j][1]
      <4>1. /\ Pieces' = <<layout'.kernel, layout'.initrd, layout'.dtb>>
            /\ DOMAIN Pieces' = 1 .. 3
        BY DEF Pieces
      <4>2. /\ Pieces'[1] = layout'.kernel /\ Pieces'[2] = layout'.initrd
            /\ Pieces'[3] = layout'.dtb
        BY <4>1
      <4>3. Range(Pieces') = {layout'.kernel, layout'.initrd, layout'.dtb}
        BY <4>1, <4>2 DEF Range
      <4>4. \A i, j \in 1 .. 3 : i < j => (i = 1 /\ j \in {2, 3}) \/ (i = 2 /\ j = 3)
        OBVIOUS
      <4>5. ASSUME NEW i \in 1 .. 3, NEW j \in 1 .. 3, i < j
            PROVE  Pieces'[i][2] <= Pieces'[j][1]
        BY Zenon, <4>2, <4>4, <4>5, <3>2
      <4> QED BY Zenon, <4>3, <4>5, <3>2
    <3> QED BY <3>1, <3>2, <3>3, <3>4, <3>5 DEF LaidOut, Apart
  <2> QED BY <1>3, <2>4, <2>5, <2>6, <2>7, <2>8 DEF IInv, BoardInv
<1> QED BY <1>4, <1>5
-----------------------------------------------------------------------------
(* The guest *)

(* What is left to show of a step of the guest.                             *)
LEMMA GuestInv ==
    ASSUME IInv, Running, Stepped, UNCHANGED wiring, powered_off' \in BOOLEAN,
           uart' \in UartType, guest' \in GuestType, Len(uart'.rx) <= MaxTyped,
           GicInv(gic'), Handling', Announced'
    PROVE  IInv'
<1>1. front.at = "run" /\ front'.at = "run" /\ front' \in FrontType
  BY DEF Running, Stepped, IInv, Typed, FrontType
<1>2. Wired' /\ Told' /\ LaidOut'
  BY <1>1, WiringKept
<1>3. Typed'
  BY <1>1, Zenon DEF Typed
<1>4. TypeOK'
  BY <1>1, <1>2 DEF TypeOK, UartType, GuestType, Interrupts, Handling
<1> QED BY <1>2, <1>3, <1>4 DEF IInv, BoardInv

(* A step of the guest that writes a register of the UART.                  *)
LEMMA UartInv ==
    ASSUME IInv, Running, Stepped, UNCHANGED <<wiring, powered_off>>,
           uart' \in UartType, guest' \in GuestType, Len(uart'.rx) <= MaxTyped,
           gic' = update_irq(uart', gic)[2],
           guest'.pc \in {"off", "early", "open", "main", "iar"} => gic.running = << >>,
           guest'.pc = "iar" => guest'.round = 0,
           guest'.pc = "clear" => guest'.round < Rounds,
           guest'.pc \in {"off", "early", "open"} => guest'.out = << >>
    PROVE  IInv'
<1>1. GicInv(gic) /\ gic.pending \subseteq {UART_IRQ}
  BY DEF IInv, BoardInv, TypeOK, Handling
<1>2. /\ GicInv(gic') /\ gic'.running = gic.running /\ gic'.active = gic.active
      /\ gic'.pending \subseteq {UART_IRQ}
      /\ Mis(uart') # {} => UART_IRQ \in gic'.pending
  BY <1>1, UpdateIrqFacts
<1>3. front'.at = "run"
  BY DEF Running, Stepped, IInv, Typed, FrontType
<1>4. Handling'
  BY <1>2, <1>3 DEF IInv, Handling
<1>5. Announced'
  BY <1>2 DEF Announced, Mis, ris
<1>6. powered_off' \in BOOLEAN
  BY Zenon DEF IInv, Typed
<1> QED BY <1>2, <1>4, <1>5, <1>6, GuestInv

(* A step that only the guest sees.                                         *)
LEMMA QuietInv ==
    ASSUME IInv, Running, Stepped, UNCHANGED <<wiring, uart, gic>>, powered_off' \in BOOLEAN,
           guest' \in GuestType,
           guest'.pc \in {"off", "early", "open", "main", "iar"} => gic.running = << >>,
           guest'.pc = "iar" => guest'.round = 0,
           guest'.pc = "clear" => guest'.round < Rounds,
           guest'.pc \in {"off", "early", "open"} => guest'.out = << >>,
           Announced'
    PROVE  IInv'
<1>1. front'.at = "run"
  BY DEF Running, Stepped, IInv, Typed, FrontType
<1>2. Handling'
  BY <1>1 DEF IInv, Handling
<1>3. GicInv(gic') /\ uart' \in UartType /\ Len(uart'.rx) <= MaxTyped
  BY DEF IInv, BoardInv, TypeOK, Typed
<1> QED BY <1>2, <1>3, GuestInv

(* The access goes through: the guest's addresses are right.                *)
LEMMA UartAccess ==
    ASSUME IInv, Running, NEW off \in {UARTDR, UARTIMSC, UARTICR}, NEW u,
           Access(tree.uart + off, "pl011", update_irq(u, gic))
    PROVE  uart' = u /\ gic' = update_irq(uart', gic)[2]
<1>1. Route(tree.uart + off, 4) = "pl011"
  BY Zenon, RegistersReached DEF IInv, Running
<1>2. update_irq(u, gic)[1] = u
  BY DEF update_irq
<1> QED BY Zenon, <1>1, <1>2 DEF Access

LEMMA GicAccess ==
    ASSUME IInv, Running, NEW g,
           \/ Access(tree.gicd + GICD_ISENABLER, "gicd", <<uart, g>>)
           \/ \E off \in {GICC_IAR, GICC_EOIR} : Access(tree.gicc + off, "gicc", <<uart, g>>)
    PROVE  uart' = uart /\ gic' = g
<1>1. /\ Route(tree.gicd + GICD_ISENABLER, 4) = "gicd"
      /\ \A off \in {GICC_IAR, GICC_EOIR} : Route(tree.gicc + off, 4) = "gicc"
  BY Zenon, RegistersReached DEF IInv, Running
<1>2. <<uart, g>>[1] = uart /\ <<uart, g>>[2] = g
  OBVIOUS
<1> QED BY Zenon, <1>1, <1>2 DEF Access

LEMMA EarlyWriteInv == ASSUME IInv, EarlyWrite PROVE IInv'
<1>1. PICK b \in Bytes : /\ Access(tree.uart + UARTDR, "pl011", WriteData(uart, gic, b))
                         /\ GuestStep("early", guest)
  BY Zenon DEF EarlyWrite
<1>2. /\ Running /\ Stepped /\ guest.pc = "early" /\ guest' = guest
      /\ UNCHANGED <<wiring, powered_off>>
  BY <1>1 DEF GuestStep
<1>3. uart' = [uart EXCEPT !.tx = Append(@, b)] /\ gic' = update_irq(uart', gic)[2]
  <2>1. Access(tree.uart + UARTDR, "pl011", update_irq([uart EXCEPT !.tx = Append(@, b)], gic))
    BY Zenon, <1>1 DEF WriteData
  <2> QED BY Zenon, <1>2, <2>1, UartAccess
<1>4. uart \in UartType /\ guest \in GuestType /\ Len(uart.rx) <= MaxTyped
  BY DEF IInv, Typed, BoardInv, TypeOK
<1>5. uart' \in UartType /\ uart'.rx = uart.rx
  <2>1. uart.tx \in Seq(Bytes)
    BY <1>4 DEF UartType
  <2>2. Append(uart.tx, b) \in Seq(Bytes)
    BY <2>1
  <2> QED BY <1>3, <1>4, <2>2 DEF UartType
<1> QED BY <1>2, <1>3, <1>4, <1>5, UartInv DEF IInv, Handling

(* The drivers' start: the controller is opened for the UART's interrupt.   *)
LEMMA OpenGicInv == ASSUME IInv, OpenGic PROVE IInv'
<1> DEFINE g1 == WritePmr(gic, IdlePrio)
           g2 == WriteCpuCtlr(g1, TRUE)
           g3 == WriteDistCtlr(g2, TRUE)
           g4 == WriteIsenabler(g3, {tree.uart_spi + 32})
<1>1. /\ Running /\ Stepped /\ guest.pc = "early" /\ guest' = [guest EXCEPT !.pc = "open"]
      /\ UNCHANGED <<wiring, powered_off>>
  BY DEF OpenGic, GuestStep
<1>2. uart' = uart /\ gic' = g4
  <2>1. Access(tree.gicd + GICD_ISENABLER, "gicd", <<uart, g4>>)
    BY Zenon DEF OpenGic
  <2> HIDE DEF g4
  <2> QED BY Zenon, <1>1, <2>1, GicAccess
<1>3. {tree.uart_spi + 32} \in SUBSET Irqs
  <2>1. tree.uart_spi = UART_IRQ - 32
    BY <1>1 DEF IInv, Told, Running
  <2> QED BY <2>1, BoardAssumption DEF UART_IRQ
<1>4. GicInv(gic) /\ IdlePrio \in Prios
  BY GicAssumption DEF IInv, BoardInv, TypeOK, Prios
<1>5. /\ GicInv(g1) /\ g1.running = gic.running /\ g1.pending = gic.pending
      /\ g1.active = gic.active
  BY <1>4, EnableInv DEF WritePmr, GicInv, GicType
<1> HIDE DEF g1
<1>6. /\ GicInv(g2) /\ g2.running = gic.running /\ g2.pending = gic.pending
      /\ g2.active = gic.active
  BY <1>4, <1>5, EnableInv DEF WriteCpuCtlr, GicInv, GicType
<1> HIDE DEF g2
<1>7. /\ GicInv(g3) /\ g3.running = gic.running /\ g3.pending = gic.pending
      /\ g3.active = gic.active
  BY <1>4, <1>6, EnableInv DEF WriteDistCtlr, Recompute, GicInv, GicType
<1> HIDE DEF g3
<1>8. /\ GicInv(g4) /\ g4.running = gic.running /\ g4.pending = gic.pending
      /\ g4.active = gic.active
  <2>1. GicInv(g4) /\ g4.running = g3.running
    BY <1>3, <1>7, BitmapInv
  <2> QED BY <1>7, <2>1 DEF WriteIsenabler, Recompute, GicInv, GicType
<1>9. /\ GicInv(gic') /\ gic'.running = gic.running /\ gic'.pending = gic.pending
      /\ gic'.active = gic.active
  BY <1>2, <1>8 DEF g1, g2, g3
<1> HIDE DEF g4
<1>10. /\ guest' \in GuestType /\ guest'.pc = "open" /\ guest'.out = guest.out
       /\ guest'.round = guest.round
  BY <1>1 DEF IInv, Typed, GuestType, Places
<1>11. front'.at = "run"
  BY <1>1 DEF Running, Stepped, IInv, Typed, FrontType
<1>12. Handling'
  BY <1>1, <1>9, <1>10, <1>11 DEF IInv, Handling
<1>13. Announced'
  BY <1>1, <1>2, <1>9, <1>10 DEF IInv, BoardInv, Announced, Mis, ris
<1>14. uart' \in UartType /\ Len(uart'.rx) <= MaxTyped /\ powered_off' \in BOOLEAN
  BY <1>1, <1>2 DEF IInv, Typed, BoardInv, TypeOK
<1> QED BY <1>1, <1>9, <1>10, <1>12, <1>13, <1>14, GuestInv
LEMMA Zeros == 0 \in 0 .. Rounds /\ 0 \in 0 .. RxBatch
BY BoardAssumption

LEMMA UnmaskRxInv == ASSUME IInv, UnmaskRx PROVE IInv'
<1>1. /\ Running /\ Stepped /\ guest.pc = "open" /\ guest' = [guest EXCEPT !.pc = "main"]
      /\ UNCHANGED <<wiring, powered_off>>
  BY DEF UnmaskRx, GuestStep
<1>2. /\ uart' = [uart EXCEPT !.imsc = {INT_RX, INT_RT}]
      /\ gic' = update_irq(uart', gic)[2]
  <2>1. Access(tree.uart + UARTIMSC, "pl011",
               update_irq([uart EXCEPT !.imsc = {INT_RX, INT_RT}], gic))
    BY Zenon DEF UnmaskRx, WriteImsc
  <2> QED BY Zenon, <1>1, <2>1, UartAccess
<1>3. uart' \in UartType /\ Len(uart'.rx) <= MaxTyped
  BY <1>2 DEF IInv, Typed, UartType, Interrupts, BoardInv, TypeOK
<1>4. guest' \in GuestType /\ guest'.pc = "main" /\ gic.running = << >>
  BY <1>1 DEF IInv, Typed, GuestType, Places, Handling
<1> QED BY <1>1, <1>2, <1>3, <1>4, UartInv

LEMMA TakeIrqInv == ASSUME IInv, TakeIrq PROVE IInv'
<1>1. /\ Running /\ Stepped /\ guest.pc = "main"
      /\ guest' = [guest EXCEPT !.pc = "iar", !.round = 0]
      /\ UNCHANGED <<wiring, powered_off, uart, gic>>
  BY DEF TakeIrq, GuestStep
<1>2. guest' \in GuestType /\ guest'.pc = "iar" /\ guest'.round = 0 /\ gic.running = << >>
  BY <1>1, Zeros DEF IInv, Typed, GuestType, Places, Handling
<1>3. Announced' /\ powered_off' \in BOOLEAN
  BY <1>1, <1>2 DEF IInv, Typed, BoardInv, Announced, Mis, ris
<1> QED BY <1>1, <1>2, <1>3, QuietInv

LEMMA ConsoleWriteInv == ASSUME IInv, ConsoleWrite PROVE IInv'
<1>1. PICK b \in Bytes :
        /\ Access(tree.uart + UARTIMSC, "pl011", WriteImsc(uart, gic, uart.imsc \cup {INT_TX}))
        /\ Main([guest EXCEPT !.out = Append(@, b)])
  BY Zenon DEF ConsoleWrite
<1>2. /\ Running /\ Stepped /\ guest.pc = "main"
      /\ guest' = [guest EXCEPT !.out = Append(@, b)]
      /\ UNCHANGED <<wiring, powered_off>>
  BY <1>1 DEF Main, GuestStep
<1>3. /\ uart' = [uart EXCEPT !.imsc = uart.imsc \cup {INT_TX}]
      /\ gic' = update_irq(uart', gic)[2]
  <2>1. Access(tree.uart + UARTIMSC, "pl011",
               update_irq([uart EXCEPT !.imsc = uart.imsc \cup {INT_TX}], gic))
    BY Zenon, <1>1 DEF WriteImsc
  <2> QED BY Zenon, <1>2, <2>1, UartAccess
<1>4. uart' \in UartType /\ Len(uart'.rx) <= MaxTyped
  BY <1>3 DEF IInv, Typed, UartType, Interrupts, BoardInv, TypeOK
<1>5. guest' \in GuestType /\ guest'.pc = "main" /\ gic.running = << >>
  <2>1. Append(guest.out, b) \in Seq(Bytes)
    BY DEF IInv, Typed, GuestType
  <2> QED BY <1>2, <2>1 DEF IInv, Typed, GuestType, Handling
<1> QED BY <1>2, <1>3, <1>4, <1>5, UartInv

LEMMA IdleInv == ASSUME IInv, Idle PROVE IInv'
<1>1. /\ Running /\ Stepped /\ guest.pc = "main" /\ guest' = guest
      /\ UNCHANGED <<wiring, powered_off, uart, gic>>
  BY DEF Idle, Main, GuestStep
<1>2. guest' \in GuestType /\ gic.running = << >>
  BY <1>1 DEF IInv, Typed, Handling
<1>3. Announced' /\ powered_off' \in BOOLEAN
  BY <1>1 DEF IInv, Typed, BoardInv, Announced, Mis, ris
<1> QED BY <1>1, <1>2, <1>3, QuietInv

LEMMA PowerOffInv == ASSUME IInv, PowerOff PROVE IInv'
<1>1. /\ Running /\ Stepped /\ guest.pc = "main" /\ powered_off' = TRUE
      /\ UNCHANGED <<wiring, guest, uart, gic>>
  BY DEF PowerOff
<1>2. guest' \in GuestType /\ gic.running = << >>
  BY <1>1 DEF IInv, Typed, Handling
<1>3. Announced'
  BY <1>1 DEF IInv, BoardInv, Announced, Mis, ris
<1>4. powered_off' \in BOOLEAN
  BY Zenon, <1>1
<1> QED BY <1>1, <1>2, <1>3, <1>4, QuietInv

-----------------------------------------------------------------------------
(* The interrupt handler *)

(* The acknowledgement takes the UART's interrupt, the only one there is.   *)
LEMMA ReadIarInv == ASSUME IInv, ReadIar PROVE IInv'
<1>1. /\ Running /\ Stepped /\ guest.pc = "iar"
      /\ guest' = [guest EXCEPT !.pc = IF IarValue(gic) = UART_IRQ THEN "status" ELSE "main"]
      /\ UNCHANGED <<wiring, powered_off>>
  BY DEF ReadIar, GuestStep
<1>2. uart' = uart /\ gic' = Acknowledge(gic)
  <2>1. Access(tree.gicc + GICC_IAR, "gicc", <<uart, Acknowledge(gic)>>)
    BY Zenon DEF ReadIar
  <2> QED BY Zenon, <1>1, <2>1, GicAccess
<1>3. /\ GicInv(gic) /\ gic.pending \subseteq {UART_IRQ} /\ gic.active \subseteq {UART_IRQ}
      /\ gic.running = << >> /\ guest.round = 0
  BY <1>1 DEF IInv, BoardInv, TypeOK, Handling
<1>4. GicInv(gic')
  BY <1>2, <1>3, AcknowledgeInv
<1>5. /\ guest' \in GuestType /\ guest'.round = 0 /\ guest'.pc \in {"status", "main"}
      /\ guest'.pc = "main" <=> IarValue(gic) # UART_IRQ
  BY <1>1, <1>3 DEF IInv, Typed, GuestType, Places
<1>6. /\ gic'.pending \subseteq {UART_IRQ} /\ gic'.active \subseteq {UART_IRQ}
      /\ Len(gic'.running) <= 1
      /\ guest'.pc = "main" => gic'.running = << >>
      /\ Passes(gic) => guest'.pc = "status"
  <2>1. CASE Passes(gic)
    <3>1. /\ gic.cached_pending.id \in Candidates(gic)
          /\ gic'.pending = gic.pending \ {gic.cached_pending.id}
          /\ gic'.active = gic.active \cup {gic.cached_pending.id}
      BY <1>2, <1>3, <2>1, AcknowledgeFacts
    <3>2. gic.cached_pending.id = UART_IRQ
      BY <1>3, <3>1 DEF Candidates
    <3>3. guest'.pc = "status"
      BY <1>5, <2>1, <3>2 DEF IarValue
    <3>4. Len(gic'.running) = 1
      <4> DEFINE s == Append(gic.running, gic.cached_pending.prio)
                 h == [gic EXCEPT !.pending = @ \ {gic.cached_pending.id},
                                  !.active = @ \cup {gic.cached_pending.id}, !.running = s]
      <4>1. Acknowledge(gic) = Recompute(h)
        BY Zenon, <2>1 DEF Acknowledge
      <4>2. gic \in GicType
        BY <1>3 DEF GicInv
      <4>3. Recompute(h).running = s
        BY <4>2 DEF Recompute, GicType
      <4>4. Len(s) = 1
        BY <1>3
      <4> QED BY Zenon, <1>2, <4>1, <4>3, <4>4
    <3> QED BY <1>3, <3>1, <3>2, <3>3, <3>4
  <2>2. CASE ~ Passes(gic)
    BY <1>2, <1>3, <2>2 DEF Acknowledge
  <2> QED BY <2>1, <2>2
<1>7. front'.at = "run"
  BY <1>1 DEF Running, Stepped, IInv, Typed, FrontType
<1>8. Handling'
  BY <1>5, <1>6, <1>7 DEF Handling
<1>9. Announced'
  <2>1. Mis(uart') = Mis(uart)
    BY <1>2
  <2>2. CASE Passes(gic)
    BY <1>5, <1>6, <2>2 DEF Announced
  <2>3. CASE ~ Passes(gic)
    <3>1. gic' = gic
      BY <1>2, <2>3 DEF Acknowledge
    <3>2. Mis(uart') # {} => UART_IRQ \in gic'.pending
      BY <1>1, <2>1, <3>1 DEF IInv, BoardInv, Announced
    <3> QED BY <3>2 DEF Announced, Mis, ris
  <2> QED BY <2>2, <2>3
<1>10. uart' \in UartType /\ Len(uart'.rx) <= MaxTyped /\ powered_off' \in BOOLEAN
  BY <1>1, <1>2 DEF IInv, Typed, BoardInv, TypeOK
<1> QED BY <1>1, <1>4, <1>5, <1>8, <1>9, <1>10, GuestInv

LEMMA ReadStatusInv == ASSUME IInv, ReadStatus PROVE IInv'
<1> DEFINE more == Mis(uart) # {} /\ guest.round < Rounds
<1>1. /\ Running /\ Stepped /\ guest.pc = "status"
      /\ guest' = [guest EXCEPT !.pc = IF more THEN "clear" ELSE "eoi",
                                !.status = IF more THEN Mis(uart) ELSE {}, !.chars = 0]
      /\ UNCHANGED <<wiring, powered_off, uart, gic>>
  BY DEF ReadStatus, GuestStep
<1>2. Mis(uart) \in SUBSET Interrupts
  BY DEF IInv, Typed, UartType, Mis
<1>3. 0 \in 0 .. RxBatch /\ Rounds \in Nat /\ Rounds # 0 /\ guest.round \in Nat
  BY BoardAssumption DEF IInv, Typed, GuestType
<1>4. /\ guest' \in GuestType /\ guest'.round = guest.round
      /\ guest'.pc = IF more THEN "clear" ELSE "eoi"
  <2> HIDE DEF more
  <2> QED BY <1>1, <1>2, <1>3 DEF IInv, Typed, GuestType, Places
<1>5. Announced'
  <2>1. Mis(uart') = Mis(uart)
    BY <1>1
  <2>2. Mis(uart) # {} => UART_IRQ \in gic.pending \/ guest.round = 0
    BY DEF IInv, BoardInv, Announced
  <2>3. Mis(uart') # {} => \/ UART_IRQ \in gic'.pending
                           \/ guest'.round = 0 /\ guest'.pc \in {"status", "clear"}
    BY <1>1, <1>3, <1>4, <2>1, <2>2
  <2> QED BY <2>3 DEF Announced, Mis, ris
<1>6. powered_off' \in BOOLEAN
  BY Zenon, <1>1 DEF IInv, Typed
<1> QED BY <1>1, <1>4, <1>5, <1>6, QuietInv

LEMMA ClearStatusInv == ASSUME IInv, ClearStatus PROVE IInv'
<1>1. /\ Running /\ Stepped /\ guest.pc = "clear"
      /\ guest' = [guest EXCEPT !.pc = IF INT_RX \in guest.status THEN "receive" ELSE "transmit",
                                !.round = @ + 1]
      /\ UNCHANGED <<wiring, powered_off>>
  BY DEF ClearStatus, GuestStep
<1>2. uart' = uart /\ gic' = update_irq(uart', gic)[2]
  <2>1. Access(tree.uart + UARTICR, "pl011", update_irq(uart, gic))
    BY Zenon DEF ClearStatus, WriteIcr
  <2> QED BY Zenon, <1>1, <2>1, UartAccess
<1>3. guest.round + 1 \in 0 .. Rounds
  BY <1>1, BoardAssumption DEF IInv, Handling, Typed, GuestType
<1>4. guest' \in GuestType /\ guest'.pc \in {"receive", "transmit"}
  BY <1>1, <1>3 DEF IInv, Typed, GuestType, Places
<1>5. uart' \in UartType /\ Len(uart'.rx) <= MaxTyped
  BY <1>2 DEF IInv, Typed, BoardInv, TypeOK
<1> QED BY <1>1, <1>2, <1>4, <1>5, UartInv

LEMMA ReceiveInv == ASSUME IInv, Receive PROVE IInv'
<1>1. /\ Running /\ Stepped /\ guest.pc = "receive"
      /\ guest' = [guest EXCEPT !.chars = @ + 1]
      /\ uart.rx # << >> /\ guest.chars < RxBatch /\ UNCHANGED <<wiring, powered_off>>
  BY DEF Receive, GuestStep
<1>2. uart' = [uart EXCEPT !.rx = Tail(@)] /\ gic' = update_irq(uart', gic)[2]
  <2>1. ReadData(uart, gic) = update_irq([uart EXCEPT !.rx = Tail(@)], gic)
    BY <1>1 DEF ReadData
  <2>2. Access(tree.uart + UARTDR, "pl011", update_irq([uart EXCEPT !.rx = Tail(@)], gic))
    BY Zenon, <2>1 DEF Receive
  <2> QED BY Zenon, <1>1, <2>2, UartAccess
<1>3. Tail(uart.rx) \in Seq(0 .. 255) /\ Len(Tail(uart.rx)) <= Len(uart.rx)
  BY <1>1 DEF IInv, Typed, UartType
<1>4. uart' \in UartType /\ Len(uart'.rx) <= MaxTyped
  <2>1. uart \in UartType /\ Len(uart.rx) <= MaxTyped /\ MaxTyped \in Nat /\ Len(uart.rx) \in Nat
    BY BoardAssumption DEF IInv, Typed, UartType, BoardInv, TypeOK
  <2>2. uart' \in UartType /\ uart'.rx = Tail(uart.rx)
    BY <1>2, <1>3, <2>1 DEF UartType
  <2>3. Len(Tail(uart.rx)) \in Nat
    BY <1>3
  <2> QED BY <1>3, <2>1, <2>2, <2>3
<1>5. guest' \in GuestType /\ guest'.pc = "receive"
  BY <1>1, BoardAssumption DEF IInv, Typed, GuestType
<1> QED BY <1>1, <1>2, <1>4, <1>5, UartInv

LEMMA ReceivedInv == ASSUME IInv, Received PROVE IInv'
<1>1. /\ Running /\ Stepped /\ guest.pc = "receive"
      /\ guest' = [guest EXCEPT !.pc = IF INT_TX \in guest.status THEN "transmit" ELSE "status",
                                !.chars = 0]
      /\ UNCHANGED <<wiring, powered_off, uart, gic>>
  BY DEF Received, GuestStep
<1>2. guest' \in GuestType /\ guest'.pc \in {"transmit", "status"}
  BY <1>1, Zeros DEF IInv, Typed, GuestType, Places
<1>3. Announced' /\ powered_off' \in BOOLEAN
  BY <1>1 DEF IInv, Typed, BoardInv, Announced, Mis, ris
<1> QED BY <1>1, <1>2, <1>3, QuietInv

LEMMA TransmitInv == ASSUME IInv, Transmit PROVE IInv'
<1>1. /\ Running /\ Stepped /\ guest.pc = "transmit" /\ guest.out # << >>
      /\ guest' = [guest EXCEPT !.out = Tail(@)] /\ UNCHANGED <<wiring, powered_off>>
  BY DEF Transmit, GuestStep
<1>2. uart' = [uart EXCEPT !.tx = Append(@, Head(guest.out))] /\ gic' = update_irq(uart', gic)[2]
  <2>1. Access(tree.uart + UARTDR, "pl011",
               update_irq([uart EXCEPT !.tx = Append(@, Head(guest.out))], gic))
    BY Zenon DEF Transmit, WriteData
  <2> QED BY Zenon, <1>1, <2>1, UartAccess
<1>3. guest.out \in Seq(Bytes) /\ uart.tx \in Seq(Bytes)
  BY DEF IInv, Typed, GuestType, UartType
<1>4. Tail(guest.out) \in Seq(Bytes) /\ Append(uart.tx, Head(guest.out)) \in Seq(Bytes)
  BY <1>1, <1>3
<1>5. uart' \in UartType /\ Len(uart'.rx) <= MaxTyped
  BY <1>2, <1>4 DEF IInv, Typed, UartType, BoardInv, TypeOK
<1>6. guest' \in GuestType /\ guest'.pc = "transmit"
  BY <1>1, <1>4 DEF IInv, Typed, GuestType
<1> QED BY <1>1, <1>2, <1>5, <1>6, UartInv

LEMMA TransmittedInv == ASSUME IInv, Transmitted PROVE IInv'
<1>1. /\ Running /\ Stepped /\ guest.pc = "transmit"
      /\ guest' = [guest EXCEPT !.pc = "status"] /\ UNCHANGED <<wiring, powered_off>>
  BY DEF Transmitted, GuestStep
<1>2. uart' = [uart EXCEPT !.imsc = uart.imsc \ {INT_TX}] /\ gic' = update_irq(uart', gic)[2]
  <2>1. Access(tree.uart + UARTIMSC, "pl011",
               update_irq([uart EXCEPT !.imsc = uart.imsc \ {INT_TX}], gic))
    BY Zenon DEF Transmitted, WriteImsc
  <2> QED BY Zenon, <1>1, <2>1, UartAccess
<1>3. uart' \in UartType /\ Len(uart'.rx) <= MaxTyped
  BY <1>2 DEF IInv, Typed, UartType, BoardInv, TypeOK
<1>4. guest' \in GuestType /\ guest'.pc = "status"
  BY <1>1 DEF IInv, Typed, GuestType, Places
<1> QED BY <1>1, <1>2, <1>3, <1>4, UartInv

(* One interrupt was in progress, so the end of it empties the stack.       *)
LEMMA EoiInv == ASSUME IInv, Eoi PROVE IInv'
<1>1. /\ Running /\ Stepped /\ guest.pc = "eoi"
      /\ guest' = [guest EXCEPT !.pc = "main", !.round = 0] /\ UNCHANGED <<wiring, powered_off>>
  BY DEF Eoi, GuestStep
<1>2. uart' = uart /\ gic' = EndOfInterrupt(gic, UART_IRQ)
  <2>1. Access(tree.gicc + GICC_EOIR, "gicc", <<uart, EndOfInterrupt(gic, UART_IRQ)>>)
    BY Zenon DEF Eoi
  <2> QED BY Zenon, <1>1, <2>1, GicAccess
<1>3. /\ GicInv(gic) /\ gic.pending \subseteq {UART_IRQ} /\ gic.active \subseteq {UART_IRQ}
      /\ Len(gic.running) <= 1
  BY DEF IInv, BoardInv, TypeOK, Handling
<1>4. GicInv(gic')
  BY <1>2, <1>3, EndOfInterruptInv
<1>5. /\ gic'.pending = gic.pending /\ gic'.active \subseteq {UART_IRQ}
      /\ gic'.running = IF gic.running = << >> THEN << >> ELSE Front(gic.running)
  BY <1>2, <1>3 DEF EndOfInterrupt, GicInv, GicType
<1>6. gic'.running = << >>
  <2>1. CASE gic.running = << >>
    BY <1>5, <2>1
  <2>2. CASE gic.running # << >>
    <3>1. gic.running \in Seq(Prios) /\ Len(gic.running) = 1
      <4>1. gic.running \in Seq(Prios)
        BY <1>3 DEF GicInv, GicType
      <4>2. Len(gic.running) \in Nat \ {0}
        BY <2>2, <4>1, EmptySeq
      <4>3. \A n \in Nat \ {0} : n <= 1 => n = 1
        OBVIOUS
      <4> QED BY Zenon, <1>3, <4>1, <4>2, <4>3
    <3>2. Front(gic.running) = << >>
      BY <3>1 DEF Front
    <3> QED BY <1>5, <2>2, <3>2
  <2> QED BY <2>1, <2>2
<1>7. guest' \in GuestType /\ guest'.pc = "main"
  BY <1>1, Zeros DEF IInv, Typed, GuestType, Places
<1>8. front'.at = "run"
  BY <1>1 DEF Running, Stepped, IInv, Typed, FrontType
<1>9. Handling'
  BY <1>3, <1>5, <1>6, <1>7, <1>8 DEF Handling
<1>10. Announced'
  BY <1>1, <1>2, <1>5 DEF IInv, BoardInv, Announced, Mis, ris
<1>11. uart' \in UartType /\ Len(uart'.rx) <= MaxTyped /\ powered_off' \in BOOLEAN
  BY <1>1, <1>2 DEF IInv, Typed, BoardInv, TypeOK
<1> QED BY <1>1, <1>4, <1>7, <1>9, <1>10, <1>11, GuestInv
-----------------------------------------------------------------------------
(* The front-end's loop *)

(* A step of the loop leaves the wiring and the guest alone.                *)
LEMMA LoopInv ==
    ASSUME IInv, UNCHANGED <<wiring, guest, gic, powered_off>>, front' \in FrontType,
           front.at \in {"top", "run", "drain"},
           front'.at \in {"top", "run", "drain", "exited"},
           powered_off => front'.at # "top",
           uart' \in UartType, uart'.rx = uart.rx, uart'.imsc = uart.imsc
    PROVE  IInv'
<1>1. Wired' /\ Told' /\ LaidOut'
  BY WiringKept
<1>2. Typed'
  BY DEF IInv, Typed
<1>3. Handling'
  BY DEF IInv, Handling
<1>4. TypeOK'
  BY DEF IInv, BoardInv, TypeOK, UartType
<1>5. Announced'
  BY DEF IInv, BoardInv, Announced, Mis, ris
<1> QED BY <1>1, <1>2, <1>3, <1>4, <1>5 DEF IInv, BoardInv

LEMMA TypeInv == ASSUME IInv, Type PROVE IInv'
<1>1. PICK s \in Lines : /\ Len(uart.rx) + Len(s) <= MaxTyped
                         /\ LET r == Feed(uart, gic, s) IN uart' = r[1] /\ gic' = r[2]
  BY Zenon DEF Type
<1>2. /\ front.at = "top" /\ guest.pc # "off"
      /\ UNCHANGED <<wiring, guest, powered_off, front>>
  BY DEF Type
<1> DEFINE u == [uart EXCEPT !.rx = @ \o s]
<1>3. uart' = u /\ gic' = update_irq(u, gic)[2]
  <2>1. update_irq(u, gic)[1] = u
    BY DEF update_irq
  <2> QED BY Zenon, <1>1, <2>1 DEF Feed
<1>4. GicInv(gic) /\ gic.pending \subseteq {UART_IRQ}
  BY DEF IInv, BoardInv, TypeOK, Handling
<1>5. /\ GicInv(gic') /\ gic'.running = gic.running /\ gic'.active = gic.active
      /\ gic'.pending \subseteq {UART_IRQ}
      /\ Mis(uart') # {} => UART_IRQ \in gic'.pending
  <2> HIDE DEF u
  <2> QED BY <1>3, <1>4, UpdateIrqFacts
<1>6. /\ uart.rx \in Seq(0 .. 255) /\ s \in Seq(0 .. 255)
      /\ uart.rx \o s \in Seq(0 .. 255) /\ Len(uart.rx \o s) <= MaxTyped
  <2>1. uart.rx \in Seq(0 .. 255) /\ s \in Seq(0 .. 255)
    BY BoardAssumption DEF IInv, Typed, UartType
  <2> QED BY <1>1, <2>1, ConcatProperties
<1>7. uart' \in UartType /\ Len(uart'.rx) <= MaxTyped
  BY <1>3, <1>6 DEF IInv, Typed, UartType
<1>8. Wired' /\ Told' /\ LaidOut'
  BY <1>2, WiringKept
<1>9. Typed'
  BY <1>2, <1>7 DEF IInv, Typed
<1>10. Handling'
  BY <1>2, <1>5 DEF IInv, Handling
<1>11. TypeOK'
  BY <1>2, <1>5, <1>7 DEF IInv, BoardInv, TypeOK, UartType, Interrupts
<1>12. Announced'
  BY <1>5 DEF Announced, Mis, ris
<1> QED BY <1>8, <1>9, <1>10, <1>11, <1>12 DEF IInv, BoardInv

LEMMA CloseWindowInv == ASSUME IInv, CloseWindow PROVE IInv'
<1>1. /\ front.at = "top" /\ front' = [front EXCEPT !.at = "exited"]
      /\ UNCHANGED <<wiring, uart, gic, guest, powered_off>>
  BY DEF CloseWindow
<1>2. front' \in FrontType /\ front'.at = "exited" /\ uart \in UartType
  BY <1>1 DEF IInv, Typed, FrontType
<1> QED BY <1>1, <1>2, LoopInv

LEMMA EnterRunInv == ASSUME IInv, EnterRun PROVE IInv'
<1>1. /\ front.at = "top" /\ front' = [at |-> "run", stepped |-> FALSE]
      /\ UNCHANGED <<wiring, uart, gic, guest, powered_off>>
  BY DEF EnterRun
<1>2. front' \in FrontType /\ front'.at = "run" /\ uart \in UartType
  BY <1>1 DEF IInv, Typed, FrontType
<1> QED BY <1>1, <1>2, LoopInv

LEMMA RunReturnsInv == ASSUME IInv, RunReturns PROVE IInv'
<1>1. /\ front.at = "run" /\ front' = [at |-> "drain", stepped |-> FALSE]
      /\ UNCHANGED <<wiring, uart, gic, guest, powered_off>>
  BY DEF RunReturns
<1>2. front' \in FrontType /\ front'.at = "drain" /\ uart \in UartType
  BY <1>1 DEF IInv, Typed, FrontType
<1> QED BY <1>1, <1>2, LoopInv

LEMMA DrainInv == ASSUME IInv, Drain PROVE IInv'
<1>1. /\ front.at = "drain" /\ uart' = [uart EXCEPT !.tx = << >>]
      /\ front' = [front EXCEPT !.at = IF powered_off THEN "exited" ELSE "top"]
      /\ UNCHANGED <<wiring, gic, guest, powered_off>>
  BY DEF Drain
<1>2. /\ front' \in FrontType /\ front'.at \in {"exited", "top"}
      /\ powered_off => front'.at = "exited"
  BY <1>1 DEF IInv, Typed, FrontType
<1>3. uart' \in UartType /\ uart'.rx = uart.rx /\ uart'.imsc = uart.imsc
  <2>1. << >> \in Seq(Bytes)
    OBVIOUS
  <2> QED BY <1>1, <2>1 DEF IInv, Typed, UartType
<1> QED BY <1>1, <1>2, <1>3, LoopInv

LEMMA StutterInv == ASSUME IInv, UNCHANGED vars PROVE IInv'
<1>1. /\ devices' = devices /\ slots' = slots /\ layout' = layout /\ tree' = tree
      /\ entry' = entry /\ uart' = uart /\ gic' = gic /\ guest' = guest
      /\ powered_off' = powered_off /\ front' = front
  BY DEF vars, wiring
<1>2. Wired' /\ Told' /\ Typed' /\ Handling'
  BY <1>1 DEF IInv, Wired, Told, Typed, Handling
<1>3. TypeOK' /\ Announced'
  BY <1>1 DEF IInv, BoardInv, TypeOK, Announced, Mis, ris
<1>4. LaidOut'
  BY <1>1, <1>2, WiredApartNext DEF IInv, BoardInv, LaidOut, Pieces, Apart
<1> QED BY <1>2, <1>3, <1>4 DEF IInv, BoardInv

LEMMA StepInv == ASSUME IInv, [Next]_vars PROVE IInv'
<1>1. CASE Attach BY <1>1, AttachInv
<1>2. CASE BootImage BY <1>2, BootImageInv
<1>3. CASE Guest
  BY <1>3, EarlyWriteInv, OpenGicInv, UnmaskRxInv, TakeIrqInv, ConsoleWriteInv, IdleInv,
     PowerOffInv, ReadIarInv, ReadStatusInv, ClearStatusInv, ReceiveInv, ReceivedInv,
     TransmitInv, TransmittedInv, EoiInv DEF Guest, Booting, Handler
<1>4. CASE Type BY <1>4, TypeInv
<1>5. CASE CloseWindow BY <1>5, CloseWindowInv
<1>6. CASE Loop
  BY <1>6, EnterRunInv, RunReturnsInv, DrainInv DEF Loop
<1>7. CASE UNCHANGED vars BY <1>7, StutterInv
<1> QED BY <1>1, <1>2, <1>3, <1>4, <1>5, <1>6, <1>7 DEF Next

(* The inductive invariant holds in every reachable state.                  *)
THEOREM BoardInvariant == Spec => []IInv
<1>1. Init => IInv
  BY InitInv
<1>2. IInv /\ [Next]_vars => IInv'
  BY StepInv
<1> QED BY <1>1, <1>2, PTL DEF Spec

(* Any number of transports up to eight, any kernel, initramfs and size of  *)
(* RAM: every address and interrupt line has one owner, the images lie in   *)
(* RAM apart from each other with what the kernel clears, and no masked     *)
(* status of the UART waits without its interrupt being pending or handled. *)
THEOREM BoardIsSound == Spec => []BoardInv
<1>1. IInv => BoardInv
  BY DEF IInv
<1> QED BY <1>1, BoardInvariant, PTL
-----------------------------------------------------------------------------
(* The console, step by step: the safety half of ImplementsConsole *)

Off == powered_off \/ front.at \in {"exited", "panicked"}
Written == IF Off THEN uart.tx ELSE uart.tx \o guest.out
ConsoleStep == [Console!Next]_(Console!vars)

LEMMA ConsoleStutters ==
    ASSUME uart'.rx = uart.rx, Written' = Written, Off' = Off
    PROVE  ConsoleStep
BY DEF ConsoleStep, Console!vars, Written, Off

LEMMA ConsoleReads ==
    ASSUME ~ Off, uart.rx # << >>, uart'.rx = Tail(uart.rx), Written' = Written, Off' = Off
    PROVE  ConsoleStep
BY DEF ConsoleStep, Console!Next, Console!Read, Written, Off

LEMMA ConsoleTypes ==
    ASSUME ~ Off, \E s \in Lines : uart'.rx = uart.rx \o s, Written' = Written, Off' = Off
    PROVE  ConsoleStep
BY DEF ConsoleStep, Console!Next, Console!Type, Written, Off

LEMMA ConsoleWrites ==
    ASSUME ~ Off, \E b \in Bytes : Written' = Append(Written, b), uart'.rx = uart.rx, Off' = Off
    PROVE  ConsoleStep
BY DEF ConsoleStep, Console!Next, Console!Write, Written, Off

LEMMA ConsoleShows ==
    ASSUME Written # << >>,
           \E n \in 1 .. Len(Written) : Written' = SubSeq(Written, n + 1, Len(Written)),
           uart'.rx = uart.rx, Off' = Off
    PROVE  ConsoleStep
BY DEF ConsoleStep, Console!Next, Console!Show, Written, Off

LEMMA ConsoleGoesOff ==
    ASSUME ~ Off, Off', \E n \in 0 .. Len(Written) : Written' = SubSeq(Written, 1, n),
           uart'.rx = uart.rx
    PROVE  ConsoleStep
BY DEF ConsoleStep, Console!Next, Console!Off, Written, Off
(* How the bytes on their way fall into what the device holds and what the  *)
(* guest still keeps.                                                       *)
LEMMA CutProperties ==
    ASSUME NEW S, NEW t \in Seq(S), NEW o \in Seq(S)
    PROVE  /\ SubSeq(t \o o, 1, Len(t)) = t
           /\ SubSeq(t \o o, Len(t) + 1, Len(t \o o)) = o
<1> DEFINE w == t \o o
<1>1. /\ w \in Seq(S) /\ Len(w) = Len(t) + Len(o)
      /\ \A i \in 1 .. Len(t) + Len(o) : w[i] = IF i <= Len(t) THEN t[i] ELSE o[i - Len(t)]
  BY ConcatProperties
<1>2. Len(t) \in Nat /\ Len(o) \in Nat
  BY LenProperties
<1>3. \A i \in 1 .. Len(w) : w[i] \in S
  BY <1>1, ElementOfSeq
<1> HIDE DEF w
<1>4. SubSeq(w, 1, Len(t)) = t
  <2>1. \A i \in 1 .. Len(t) : w[i] \in S
    BY <1>1, <1>2, <1>3
  <2>2. /\ SubSeq(w, 1, Len(t)) \in Seq(S)
        /\ Len(SubSeq(w, 1, Len(t))) = IF 1 <= Len(t) THEN Len(t) - 1 + 1 ELSE 0
        /\ \A i \in 1 .. Len(t) - 1 + 1 : SubSeq(w, 1, Len(t))[i] = w[1 + i - 1]
    BY <1>2, <2>1, SubSeqProperties
  <2>3. Len(SubSeq(w, 1, Len(t))) = Len(t)
    BY <1>2, <2>2
  <2>4. \A i \in 1 .. Len(t) : SubSeq(w, 1, Len(t))[i] = t[i]
    <3> SUFFICES ASSUME NEW i \in 1 .. Len(t) PROVE SubSeq(w, 1, Len(t))[i] = t[i]
      OBVIOUS
    <3>1. i \in 1 .. Len(t) - 1 + 1 /\ 1 + i - 1 = i /\ i \in 1 .. Len(t) + Len(o) /\ i <= Len(t)
      BY <1>2
    <3> QED BY <1>1, <2>2, <3>1
  <2> QED BY <2>2, <2>3, <2>4, SeqEqual
<1>5. SubSeq(w, Len(t) + 1, Len(w)) = o
  <2> DEFINE m == Len(t) + 1
             n == Len(w)
             v == SubSeq(w, m, n)
  <2>1. m \in Int /\ n \in Int /\ \A i \in m .. n : w[i] \in S
    BY <1>1, <1>2, <1>3
  <2>2. n - m + 1 = Len(o) /\ (m <= n <=> Len(o) # 0)
    BY <1>1, <1>2
  <2> HIDE DEF m, n
  <2>3. /\ v \in Seq(S) /\ Len(v) = IF m <= n THEN n - m + 1 ELSE 0
        /\ \A i \in 1 .. n - m + 1 : v[i] = w[m + i - 1]
    BY <2>1, SubSeqProperties
  <2> HIDE DEF v
  <2>4. Len(v) = Len(o)
    BY <1>2, <2>2, <2>3
  <2>5. \A i \in 1 .. Len(o) : v[i] = o[i]
    <3> SUFFICES ASSUME NEW i \in 1 .. Len(o) PROVE v[i] = o[i]
      OBVIOUS
    <3>1. v[i] = w[m + i - 1]
      BY <2>2, <2>3
    <3>2. /\ m + i - 1 = Len(t) + i /\ Len(t) + i \in 1 .. Len(t) + Len(o)
          /\ ~ (Len(t) + i <= Len(t)) /\ (Len(t) + i) - Len(t) = i
      BY <1>2 DEF m
    <3>3. w[Len(t) + i] = o[(Len(t) + i) - Len(t)]
      BY <1>1, <3>2
    <3> QED BY <3>1, <3>2, <3>3
  <2>6. v = o
    BY <2>3, <2>4, <2>5, SeqEqual
  <2> QED BY <2>6 DEF v, m, n
<1> QED BY <1>4, <1>5 DEF w

LEMMA MoveProperties ==
    ASSUME NEW S, NEW t \in Seq(S), NEW o \in Seq(S)
    PROVE  /\ \A b \in S : t \o Append(o, b) = Append(t \o o, b)
           /\ o # << >> => Append(t, Head(o)) \o Tail(o) = t \o o
<1>1. ASSUME NEW b \in S PROVE t \o Append(o, b) = Append(t \o o, b)
  <2>1. Append(o, b) = o \o <<b>> /\ <<b>> \in Seq(S)
    OBVIOUS
  <2>2. t \o o \in Seq(S) /\ Append(t \o o, b) = (t \o o) \o <<b>>
    OBVIOUS
  <2> QED BY <2>1, <2>2, ConcatAssociative
<1>2. ASSUME o # << >> PROVE Append(t, Head(o)) \o Tail(o) = t \o o
  <2>1. Head(o) \in S /\ Tail(o) \in Seq(S) /\ <<Head(o)>> \in Seq(S)
    BY <1>2, HeadTailProperties
  <2>2. Append(t, Head(o)) = t \o <<Head(o)>>
    BY <2>1
  <2>3. o = <<Head(o)>> \o Tail(o)
    BY <1>2, <2>1
  <2> QED BY <2>1, <2>2, <2>3, ConcatAssociative
<1> QED BY <1>1, <1>2
(* What the invariant gives every step.                                     *)
LEMMA ConsoleContext ==
    ASSUME IInv
    PROVE  /\ uart.tx \in Seq(Bytes) /\ guest.out \in Seq(Bytes) /\ uart.rx \in Seq(0 .. 255)
           /\ ~ Off => Written = uart.tx \o guest.out
           /\ Off => Written = uart.tx
           /\ Running => ~ Off
BY DEF IInv, Typed, UartType, GuestType, Written, Off, Running

(* A step that leaves the machine on: what remains is what it does to the   *)
(* two buffers.                                                             *)
LEMMA StaysOn ==
    ASSUME IInv, Running, Stepped, powered_off' = powered_off
    PROVE  /\ ~ Off /\ Off' = Off
           /\ Written = uart.tx \o guest.out /\ Written' = uart'.tx \o guest'.out
<1>1. ~ powered_off /\ ~ powered_off' /\ front.at = "run" /\ front'.at = "run"
  BY DEF IInv, Typed, FrontType, Running, Stepped
<1>2. ~ Off /\ ~ Off' /\ Off' = Off
  BY <1>1 DEF Off
<1>3. Written' = uart'.tx \o guest'.out
  BY <1>2 DEF Written, Off
<1> QED BY <1>2, <1>3 DEF Written

LEMMA GuestConsole ==
    ASSUME IInv, Running, Stepped, powered_off' = powered_off, uart'.rx = uart.rx,
           uart'.tx = uart.tx, guest'.out = guest.out
    PROVE  ConsoleStep
<1>1. Written' = Written /\ Off' = Off
  BY StaysOn
<1> QED BY <1>1, ConsoleStutters

(* The guest's accesses that move no byte.                                  *)
LEMMA DriverConsole ==
    ASSUME IInv, OpenGic \/ UnmaskRx \/ TakeIrq \/ Idle \/ ReadIar \/ ReadStatus
                 \/ ClearStatus \/ Received \/ Transmitted \/ Eoi
    PROVE  ConsoleStep
<1>1. uart \in UartType /\ guest \in GuestType
  BY DEF IInv, Typed
<1>2. Running /\ Stepped /\ UNCHANGED powered_off /\ guest'.out = guest.out
  <2>1. CASE OpenGic BY <1>1, <2>1 DEF OpenGic, GuestStep, GuestType
  <2>2. CASE UnmaskRx BY <1>1, <2>2 DEF UnmaskRx, GuestStep, GuestType
  <2>3. CASE TakeIrq BY <1>1, <2>3 DEF TakeIrq, GuestStep, GuestType
  <2>4. CASE Idle BY <1>1, <2>4 DEF Idle, Main, GuestStep, GuestType
  <2>5. CASE ReadIar BY <1>1, <2>5 DEF ReadIar, GuestStep, GuestType
  <2>6. CASE ReadStatus BY <1>1, <2>6 DEF ReadStatus, GuestStep, GuestType
  <2>7. CASE ClearStatus BY <1>1, <2>7 DEF ClearStatus, GuestStep, GuestType
  <2>8. CASE Received BY <1>1, <2>8 DEF Received, GuestStep, GuestType
  <2>9. CASE Transmitted BY <1>1, <2>9 DEF Transmitted, GuestStep, GuestType
  <2>10. CASE Eoi BY <1>1, <2>10 DEF Eoi, GuestStep, GuestType
  <2> QED BY <2>1, <2>2, <2>3, <2>4, <2>5, <2>6, <2>7, <2>8, <2>9, <2>10
<1>3. uart'.rx = uart.rx /\ uart'.tx = uart.tx
  <2>1. CASE TakeIrq \/ Idle \/ ReadStatus \/ Received
    BY <2>1 DEF TakeIrq, Idle, ReadStatus, Received
  <2>2. CASE OpenGic \/ ReadIar \/ Eoi
    <3>1. \/ \E g : Access(tree.gicd + GICD_ISENABLER, "gicd", <<uart, g>>)
          \/ \E g : Access(tree.gicc + GICC_IAR, "gicc", <<uart, g>>)
          \/ \E g : Access(tree.gicc + GICC_EOIR, "gicc", <<uart, g>>)
      BY Zenon, <2>2 DEF OpenGic, ReadIar, Eoi
    <3>2. uart' = uart
      BY Zenon, <1>2, <3>1, GicAccess
    <3> QED BY <3>2
  <2>3. CASE UnmaskRx \/ ClearStatus \/ Transmitted
    <3>1. \/ \E mask : Access(tree.uart + UARTIMSC, "pl011",
                              update_irq([uart EXCEPT !.imsc = mask], gic))
          \/ Access(tree.uart + UARTICR, "pl011", update_irq(uart, gic))
      BY Zenon, <2>3 DEF UnmaskRx, ClearStatus, Transmitted, WriteImsc, WriteIcr
    <3>2. uart' = uart \/ \E mask : uart' = [uart EXCEPT !.imsc = mask]
      BY Zenon, <1>2, <3>1, UartAccess
    <3> QED BY <1>1, <3>2 DEF UartType
  <2> QED BY <2>1, <2>2, <2>3
<1> QED BY <1>2, <1>3, GuestConsole

LEMMA EarlyWriteConsole == ASSUME IInv, EarlyWrite PROVE ConsoleStep
<1>1. PICK b \in Bytes : /\ Access(tree.uart + UARTDR, "pl011", WriteData(uart, gic, b))
                         /\ GuestStep("early", guest)
  BY Zenon DEF EarlyWrite
<1>2. /\ Running /\ Stepped /\ guest.pc = "early" /\ guest' = guest
      /\ UNCHANGED <<wiring, powered_off>>
  BY <1>1 DEF GuestStep
<1>3. uart' = [uart EXCEPT !.tx = Append(@, b)]
  <2>1. Access(tree.uart + UARTDR, "pl011", update_irq([uart EXCEPT !.tx = Append(@, b)], gic))
    BY Zenon, <1>1 DEF WriteData
  <2> QED BY Zenon, <1>2, <2>1, UartAccess
<1>4. uart'.rx = uart.rx /\ uart'.tx = Append(uart.tx, b) /\ guest.out = << >>
  BY <1>2, <1>3 DEF IInv, Typed, UartType, Handling
<1>5. Written' = Append(Written, b)
  <2>1. uart.tx \in Seq(Bytes) /\ Append(uart.tx, b) \in Seq(Bytes)
    BY ConsoleContext
  <2>2. Written = uart.tx \o << >> /\ Written' = Append(uart.tx, b) \o << >>
    BY <1>2, <1>4, StaysOn
  <2> QED BY <2>1, <2>2, ConcatEmptySeq
<1> QED BY <1>2, <1>4, <1>5, StaysOn, ConsoleWrites

LEMMA ConsoleWriteConsole == ASSUME IInv, ConsoleWrite PROVE ConsoleStep
<1>1. PICK b \in Bytes :
        /\ Access(tree.uart + UARTIMSC, "pl011", WriteImsc(uart, gic, uart.imsc \cup {INT_TX}))
        /\ Main([guest EXCEPT !.out = Append(@, b)])
  BY Zenon DEF ConsoleWrite
<1>2. /\ Running /\ Stepped /\ guest' = [guest EXCEPT !.out = Append(@, b)]
      /\ UNCHANGED <<wiring, powered_off>>
  BY <1>1 DEF Main, GuestStep
<1>3. uart' = [uart EXCEPT !.imsc = uart.imsc \cup {INT_TX}]
  <2>1. Access(tree.uart + UARTIMSC, "pl011",
               update_irq([uart EXCEPT !.imsc = uart.imsc \cup {INT_TX}], gic))
    BY Zenon, <1>1 DEF WriteImsc
  <2> QED BY Zenon, <1>2, <2>1, UartAccess
<1>4. uart'.rx = uart.rx /\ uart'.tx = uart.tx /\ guest'.out = Append(guest.out, b)
  BY <1>2, <1>3 DEF IInv, Typed, UartType, GuestType
<1>5. Written' = Append(Written, b)
  <2>1. uart.tx \in Seq(Bytes) /\ guest.out \in Seq(Bytes) /\ b \in Bytes
    BY ConsoleContext
  <2>2. Written = uart.tx \o guest.out /\ Written' = uart.tx \o Append(guest.out, b)
    BY <1>2, <1>4, StaysOn
  <2> QED BY Zenon, <2>1, <2>2, MoveProperties
<1> QED BY <1>2, <1>4, <1>5, StaysOn, ConsoleWrites

LEMMA ReceiveConsole == ASSUME IInv, Receive PROVE ConsoleStep
<1>1. /\ Running /\ Stepped /\ guest' = [guest EXCEPT !.chars = @ + 1]
      /\ uart.rx # << >> /\ UNCHANGED <<wiring, powered_off>>
  BY DEF Receive, GuestStep
<1>2. uart' = [uart EXCEPT !.rx = Tail(@)]
  <2>1. ReadData(uart, gic) = update_irq([uart EXCEPT !.rx = Tail(@)], gic)
    BY <1>1 DEF ReadData
  <2>2. Access(tree.uart + UARTDR, "pl011", update_irq([uart EXCEPT !.rx = Tail(@)], gic))
    BY Zenon, <2>1 DEF Receive
  <2> QED BY Zenon, <1>1, <2>2, UartAccess
<1>3. uart'.rx = Tail(uart.rx) /\ uart'.tx = uart.tx /\ guest'.out = guest.out
  BY <1>1, <1>2 DEF IInv, Typed, UartType, GuestType
<1>4. Written' = Written
  BY <1>1, <1>3, StaysOn
<1> QED BY <1>1, <1>3, <1>4, StaysOn, ConsoleReads

(* The driver moves a byte from its queue into the device: on its way all   *)
(* the time.                                                                *)
LEMMA TransmitConsole == ASSUME IInv, Transmit PROVE ConsoleStep
<1>1. /\ Running /\ Stepped /\ guest.out # << >>
      /\ guest' = [guest EXCEPT !.out = Tail(@)] /\ UNCHANGED <<wiring, powered_off>>
  BY DEF Transmit, GuestStep
<1>2. uart' = [uart EXCEPT !.tx = Append(@, Head(guest.out))]
  <2>1. Access(tree.uart + UARTDR, "pl011",
               update_irq([uart EXCEPT !.tx = Append(@, Head(guest.out))], gic))
    BY Zenon DEF Transmit, WriteData
  <2> QED BY Zenon, <1>1, <2>1, UartAccess
<1>3. /\ uart'.rx = uart.rx /\ uart'.tx = Append(uart.tx, Head(guest.out))
      /\ guest'.out = Tail(guest.out)
  BY <1>1, <1>2 DEF IInv, Typed, UartType, GuestType
<1>4. Written' = Written
  <2>1. uart.tx \in Seq(Bytes) /\ guest.out \in Seq(Bytes)
    BY ConsoleContext
  <2>2. /\ Written = uart.tx \o guest.out
        /\ Written' = Append(uart.tx, Head(guest.out)) \o Tail(guest.out)
    BY <1>1, <1>3, StaysOn
  <2> QED BY Zenon, <1>1, <2>1, <2>2, MoveProperties
<1> QED BY <1>1, <1>3, <1>4, StaysOn, ConsoleStutters

(* Going off, or leaving the loop, loses what the guest kept to itself and  *)
(* nothing that the device holds.                                           *)
LEMMA GoesOff ==
    ASSUME IInv, ~ Off, Off', UNCHANGED uart
    PROVE  ConsoleStep
<1>1. uart.tx \in Seq(Bytes) /\ guest.out \in Seq(Bytes) /\ Written = uart.tx \o guest.out
  BY ConsoleContext
<1>2. Written' = uart.tx
  BY DEF Written, Off
<1>3. Written' = SubSeq(Written, 1, Len(uart.tx))
  BY <1>1, <1>2, CutProperties
<1>4. Len(uart.tx) \in 0 .. Len(Written)
  <2>1. Len(Written) = Len(uart.tx) + Len(guest.out)
    BY <1>1, ConcatProperties
  <2>2. Len(uart.tx) \in Nat /\ Len(guest.out) \in Nat
    BY <1>1, LenProperties
  <2>3. \A m, n \in Nat : m \in 0 .. m + n
    OBVIOUS
  <2> QED BY Zenon, <2>1, <2>2, <2>3
<1> QED BY <1>3, <1>4, ConsoleGoesOff

LEMMA PowerOffConsole == ASSUME IInv, PowerOff PROVE ConsoleStep
<1>1. Running /\ powered_off' = TRUE /\ UNCHANGED uart
  BY DEF PowerOff
<1> QED BY <1>1, ConsoleContext, GoesOff DEF Off

LEMMA AssemblyConsole == ASSUME IInv, Attach \/ BootImage \/ CloseWindow PROVE ConsoleStep
<1>1. /\ front.at \in {"setup", "top"} /\ UNCHANGED uart
      /\ guest'.out = guest.out /\ powered_off \in BOOLEAN /\ guest \in GuestType
  BY DEF Attach, BootImage, CloseWindow, IInv, Typed, GuestType
<1>2. ~ powered_off /\ ~ Off
  BY <1>1 DEF IInv, Handling, BoardInv, TypeOK, Off
<1>3. CASE Off'
  BY <1>1, <1>2, <1>3, GoesOff
<1>4. CASE ~ Off'
  <2>1. Off' = Off
    BY <1>2, <1>4 DEF Off
  <2>2. Written' = Written
    BY <1>1, <1>2, <1>4 DEF Written, Off
  <2> QED BY <1>1, <2>1, <2>2, ConsoleStutters
<1> QED BY <1>3, <1>4

LEMMA TypeConsole == ASSUME IInv, Type PROVE ConsoleStep
<1>1. PICK s \in Lines : LET r == Feed(uart, gic, s) IN uart' = r[1]
  BY Zenon DEF Type
<1>2. front.at = "top" /\ UNCHANGED <<guest, powered_off, front>>
  BY DEF Type
<1>3. uart' = [uart EXCEPT !.rx = @ \o s]
  BY <1>1 DEF Feed, update_irq
<1>4. uart'.rx = uart.rx \o s /\ uart'.tx = uart.tx
  BY <1>3 DEF IInv, Typed, UartType
<1>5. ~ Off /\ Off' = Off
  BY <1>2 DEF Off, IInv, BoardInv, TypeOK
<1>6. Written' = Written
  BY <1>2, <1>4, <1>5 DEF Written, Off
<1> QED BY <1>4, <1>5, <1>6, ConsoleTypes

(* What is taken from the device is shown, in order and to the last byte.   *)
LEMMA DrainConsole == ASSUME IInv, Drain PROVE ConsoleStep
<1>1. /\ front.at = "drain" /\ uart' = [uart EXCEPT !.tx = << >>]
      /\ front' = [front EXCEPT !.at = IF powered_off THEN "exited" ELSE "top"]
      /\ UNCHANGED <<guest, powered_off>>
  BY DEF Drain
<1>2. uart'.rx = uart.rx /\ uart'.tx = << >> /\ front'.at = IF powered_off THEN "exited" ELSE "top"
  BY <1>1 DEF IInv, Typed, UartType, FrontType
<1>3. Off' = Off /\ (Off <=> powered_off)
  BY <1>1, <1>2 DEF Off
<1> DEFINE t == uart.tx
           rest == IF powered_off THEN << >> ELSE guest.out
<1>4. t \in Seq(Bytes) /\ rest \in Seq(Bytes)
  BY ConsoleContext
<1>5. Written = t \o rest
  BY <1>3, <1>4, ConsoleContext, ConcatEmptySeq
<1>6. Written' = rest
  <2>1. Written' = IF powered_off THEN << >> ELSE << >> \o guest.out
    BY <1>1, <1>2, <1>3 DEF Written, Off
  <2> QED BY <2>1, ConsoleContext, ConcatEmptySeq
<1>7. CASE t = << >>
  <2>1. Written' = Written
    <3> HIDE DEF rest
    <3> QED BY <1>4, <1>5, <1>6, <1>7, ConcatEmptySeq
  <2> QED BY <1>2, <1>3, <2>1, ConsoleStutters
<1>8. CASE t # << >>
  <2> HIDE DEF t, rest
  <2>1. Len(t) \in Nat \ {0} /\ Len(rest) \in Nat /\ Len(Written) = Len(t) + Len(rest)
    BY <1>4, <1>5, <1>8, EmptySeq, LenProperties, ConcatProperties
  <2>2. Written' = SubSeq(Written, Len(t) + 1, Len(Written))
    BY <1>4, <1>5, <1>6, CutProperties
  <2>3. Len(t) \in 1 .. Len(Written) /\ Written # << >>
    BY <2>1
  <2> QED BY <1>2, <1>3, <2>2, <2>3, ConsoleShows
<1> QED BY <1>7, <1>8

LEMMA LoopConsole == ASSUME IInv, EnterRun \/ RunReturns \/ UNCHANGED vars PROVE ConsoleStep
<1>1. UNCHANGED <<uart, guest, powered_off>>
      /\ (front' = front \/ (front.at \in {"top", "run"} /\ front'.at \in {"run", "drain"}))
  BY DEF EnterRun, RunReturns, vars
<1>2. Off' = Off
  BY <1>1 DEF Off
<1>3. Written' = Written
  BY <1>1, <1>2 DEF Written, Off
<1> QED BY <1>1, <1>2, <1>3, ConsoleStutters

(* The board implements the console of Serial: every byte typed or written  *)
(* arrives once and in order, whatever runs, interrupts and power-offs cut. *)
(* That each of them arrives at all is left to the run.                     *)
THEOREM ConsoleIsSerial == Spec => Console!Init /\ [][Console!Next]_(Console!vars)
<1>1. Init => Console!Init
  <2> SUFFICES ASSUME Init PROVE Console!Init
    OBVIOUS
  <2>1. /\ uart.rx = << >> /\ uart.tx = << >> /\ guest.out = << >>
        /\ front.at = "setup" /\ powered_off = FALSE
    BY SMT DEF Init
  <2>2. uart.tx \o guest.out = << >>
    BY <2>1
  <2> QED BY <2>1, <2>2 DEF Console!Init
<1>2. IInv /\ [Next]_vars => [Console!Next]_(Console!vars)
  <2> SUFFICES ASSUME IInv, [Next]_vars PROVE ConsoleStep
    BY DEF ConsoleStep
  <2>1. CASE Guest
    BY <2>1, EarlyWriteConsole, DriverConsole, ConsoleWriteConsole, PowerOffConsole,
       ReceiveConsole, TransmitConsole DEF Guest, Booting, Handler
  <2> QED BY <2>1, AssemblyConsole, TypeConsole, DrainConsole, LoopConsole DEF Next, Loop
<1> QED BY <1>1, <1>2, BoardInvariant, PTL DEF Spec


-----------------------------------------------------------------------------
(* The run loop: the inductive invariant *)

\* What is known of the CPU and of the loop's counter at each place of run.
Placed ==
    /\ at # "host" => idle_until = None
    /\ at \in {"exec", "wfi", "idle"} => ~ cpu.powered_off
    /\ cpu.wfi <=> at = "wfi"
    /\ at = "idle" => ~ SignalsIrq(gic)
    /\ at # "host" /\ Count # 0 => executed <= Count
    /\ at = "exec" /\ Count # 0 => executed < Count

MInv == LoopTypeOK /\ GicInv(gic) /\ Placed /\ NoOversleep /\ StopReasonTrue

-----------------------------------------------------------------------------
(* Deadlines *)

(* The smallest element of a set of tick counts is one of them.             *)
LEMMA MinIsLeast ==
    ASSUME NEW S, S \subseteq Nat, S # {}
    PROVE  Min(S) \in S /\ \A n \in S : Min(S) <= n
<1>1. \E n \in S : \A m \in S : n <= m
  BY LeastNatural
<1> QED BY <1>1 DEF Min

(* next_timer_deadline is due no later than any enabled timer.              *)
LEMMA DeadlineFacts ==
    ASSUME LoopTypeOK
    PROVE  /\ NextDeadline \in Nat \cup {None}
           /\ NextDeadline = None => Armed = {}
           /\ NextDeadline # None => \A t \in Armed : NextDeadline <= timers[t].cval
<1> DEFINE S == {timers[t].cval : t \in Armed}
<1>1. Armed \subseteq Timers /\ \A t \in Timers : timers[t].cval \in Nat
  BY MachineAssumption DEF Armed, LoopTypeOK, Timer
<1>2. CASE Armed = {}
  BY <1>2 DEF NextDeadline
<1>3. CASE Armed # {}
  <2>1. S \subseteq Nat /\ S # {}
    BY <1>1, <1>3
  <2>2. NextDeadline = Min(S)
    BY <1>3 DEF NextDeadline
  <2>3. Min(S) \in S /\ \A n \in S : Min(S) <= n
    <3> HIDE DEF S
    <3> QED BY <2>1, MinIsLeast
  <2>4. Min(S) \in Nat
    BY <2>1, <2>3
  <2>5. Min(S) # None
    BY <2>4, MachineAssumption
  <2> QED BY <2>2, <2>3, <2>4, <2>5
<1> QED BY <1>2, <1>3

(* The tick the machine resumes at: no later than a deadline or one slice.  *)
LEMMA IdleTargetFacts ==
    ASSUME LoopTypeOK
    PROVE  /\ IdleTarget \in Nat /\ IdleTarget <= clock + IdleCap
           /\ \A t \in Armed : IdleTarget <= timers[t].cval
<1> DEFINE cap == clock + IdleCap
<1>1. cap \in Nat
  BY MachineAssumption DEF LoopTypeOK, Ticks
<1>2. CASE NextDeadline = None
  BY <1>1, <1>2, DeadlineFacts DEF IdleTarget
<1>3. CASE NextDeadline # None
  <2> HIDE DEF cap
  <2>1. NextDeadline \in Nat /\ {NextDeadline, cap} \subseteq Nat /\ {NextDeadline, cap} # {}
    BY <1>1, <1>3, DeadlineFacts
  <2>2. IdleTarget = Min({NextDeadline, cap})
    BY <1>3 DEF IdleTarget, cap
  <2>3. IdleTarget \in Nat /\ IdleTarget <= NextDeadline /\ IdleTarget <= cap
    BY <2>1, <2>2, MinIsLeast
  <2>4. \A t \in Armed : timers[t].cval \in Nat /\ NextDeadline <= timers[t].cval
    BY <1>3, DeadlineFacts, MachineAssumption DEF LoopTypeOK, Timer, Armed
  <2>5. \A t \in Armed : IdleTarget <= timers[t].cval
    BY <2>1, <2>3, <2>4
  <2> QED BY <2>3, <2>5 DEF cap
<1> QED BY <1>2, <1>3

-----------------------------------------------------------------------------
(* The lines *)

LEMMA LinesInv ==
    ASSUME NEW g, GicInv(g)
    PROVE  GicInv(Sampled(g)) /\ GicInv(Polled(g))
<1>1. Virt \in Irqs /\ Phys \in Irqs /\ DmaIrq \in Irqs
  BY MachineAssumption DEF Timers
<1>2. \A id \in Irqs : GicInv(SetPending(g, id)) /\ GicInv(ClearPending(g, id))
  BY LineInv
<1>3. GicInv(DriveLine(g, Virt, clock))
  BY <1>1, <1>2 DEF DriveLine
<1>4. GicInv(DriveLine(DriveLine(g, Virt, clock), Phys, clock))
  <2> DEFINE h == DriveLine(g, Virt, clock)
  <2> HIDE DEF h
  <2>1. GicInv(h)
    BY <1>3 DEF h
  <2>2. \A id \in Irqs : GicInv(SetPending(h, id)) /\ GicInv(ClearPending(h, id))
    BY <2>1, LineInv
  <2>3. GicInv(DriveLine(h, Phys, clock))
    BY <1>1, <2>2 DEF DriveLine
  <2> QED BY <2>3 DEF h
<1> QED BY <1>1, <1>2, <1>4 DEF Sampled, Polled

(* The controller as the guest's driver has set it up.                      *)
LEMMA BootGic ==
    ASSUME NEW g, g = [GicReset EXCEPT !.dist_enabled = TRUE, !.cpu_enabled = TRUE,
                                       !.pmr = IdlePrio, !.enabled = Irqs,
                                       !.priority = GuestPrio]
    PROVE  GicInv(g)
<1>1. GuestPrio \in [Irqs -> Prios] /\ IdlePrio \in Prios /\ 0 \in Prios /\ << >> \in Seq(Prios)
  BY MachineAssumption, GicAssumption DEF Prios
<1>2. /\ g \in GicType /\ g.pending = {} /\ g.running = << >> /\ g.cached_pending = None
  BY <1>1 DEF GicReset, GicType
<1>3. Coherent(g) /\ StrictlyNested(g)
  BY <1>2 DEF Coherent, StrictlyNested, ScanPending, ScanOf, Candidates
<1> QED BY <1>2, <1>3 DEF GicInv

-----------------------------------------------------------------------------
(* The steps *)

LEMMA LoopInitInv == ASSUME LoopInit PROVE MInv
<1>1. GicInv(gic)
  BY BootGic DEF LoopInit
<1>2. LoopTypeOK
  <2>1. gic \in GicType
    BY <1>1 DEF GicInv
  <2>2. [enable |-> FALSE, imask |-> FALSE, cval |-> 0] \in Timer
    BY MachineAssumption DEF Timer
  <2>3. cpu \in Cpu /\ timers \in [Timers -> Timer]
    BY <2>2, MachineAssumption DEF LoopInit, Cpu
  <2>4. 0 \in Ticks /\ 0 \in 0 .. Interval - 1
    BY MachineAssumption DEF Ticks
  <2> QED BY <2>1, <2>3, <2>4 DEF LoopInit, LoopTypeOK, StopReasons
<1>3. Placed /\ NoOversleep /\ StopReasonTrue
  BY DEF LoopInit, Placed, NoOversleep, StopReasonTrue
<1> QED BY <1>1, <1>2, <1>3 DEF MInv

(* Inside run nothing is owed to the host.                                  *)
LEMMA InsideRun ==
    ASSUME at' # "host", idle_until' = None
    PROVE  NoOversleep' /\ StopReasonTrue'
BY DEF NoOversleep, StopReasonTrue

LEMMA TickInv == ASSUME MInv, Tick PROVE MInv'
<1>1. /\ clock' = clock + 1 /\ clock \in 0 .. MaxTime /\ clock' \in 0 .. MaxTime
      /\ UNCHANGED <<at, stop, executed, idle_until, timer_counter, cpu, timers, gic, notified>>
  BY MachineAssumption DEF MInv, LoopTypeOK, Ticks, Tick
<1>2. LoopTypeOK' /\ GicInv(gic)' /\ Placed' /\ StopReasonTrue'
  BY <1>1 DEF MInv, LoopTypeOK, Ticks, Placed, StopReasonTrue
<1>3. NoOversleep'
  <2>1. Armed' = Armed
    BY <1>1 DEF Armed
  <2>2. idle_until # None => idle_until \in Nat
    BY DEF MInv, LoopTypeOK
  <2>3. idle_until # None => idle_until <= clock' + IdleCap
    BY <1>1, <2>2, MachineAssumption DEF MInv, NoOversleep
  <2> QED BY <1>1, <2>1, <2>3 DEF MInv, NoOversleep
<1> QED BY <1>2, <1>3 DEF MInv

LEMMA CallRunInv == ASSUME MInv, CallRun PROVE MInv'
<1>1. /\ at = "host" /\ at' = "top" /\ executed' = 0 /\ idle_until' = None /\ stop' = "none"
      /\ UNCHANGED <<clock, timer_counter, cpu, timers, gic, notified>>
  BY DEF CallRun
<1>2. ~ cpu.wfi
  BY <1>1 DEF MInv, Placed
<1>3. LoopTypeOK' /\ GicInv(gic)' /\ Placed'
  BY <1>1, <1>2, MachineAssumption DEF MInv, LoopTypeOK, StopReasons, Placed
<1> QED BY <1>1, <1>3, InsideRun DEF MInv

(* Which reason the top of the loop finds, and what it says of the machine. *)
LEMMA StopCheckFacts ==
    /\ StopCheck \in StopReasons \ {"Unsupported"}
    /\ cpu.powered_off => StopCheck = "PoweredOff"
    /\ StopCheck = "PoweredOff" => cpu.powered_off
    /\ StopCheck = "UntilReached" => cpu.pc = Until
    /\ StopCheck = "CountReached" => Count # 0 /\ executed >= Count
    /\ StopCheck = "none" => Count = 0 \/ ~ (executed >= Count)
<1>1. CASE cpu.powered_off
  BY <1>1 DEF StopCheck, StopReasons
<1>2. CASE ~ cpu.powered_off /\ cpu.pc = Until
  BY <1>2 DEF StopCheck, StopReasons
<1>3. CASE ~ cpu.powered_off /\ cpu.pc # Until /\ Count # 0 /\ executed >= Count
  BY <1>3 DEF StopCheck, StopReasons
<1>4. CASE /\ ~ cpu.powered_off /\ cpu.pc # Until
           /\ ~ (Count # 0 /\ executed >= Count)
  BY <1>4 DEF StopCheck, StopReasons
<1> QED BY <1>1, <1>2, <1>3, <1>4

LEMMA StopAtTopInv == ASSUME MInv, StopAtTop PROVE MInv'
<1>1. /\ at = "top" /\ StopCheck # "none" /\ at' = "host" /\ stop' = StopCheck
      /\ UNCHANGED <<clock, executed, idle_until, timer_counter, cpu, timers, gic, notified>>
  BY DEF StopAtTop, Return
<1>2. idle_until = None /\ ~ cpu.wfi
  BY <1>1 DEF MInv, Placed
<1>3. stop' \in StopReasons
  BY <1>1, StopCheckFacts
<1>4. LoopTypeOK' /\ GicInv(gic)' /\ Placed' /\ NoOversleep'
  BY <1>1, <1>2, <1>3 DEF MInv, LoopTypeOK, Placed, NoOversleep
<1>5. StopReasonTrue'
  <2>1. stop' = "CountReached" => executed = Count
    <3>1. executed \in Nat /\ Count \in Nat /\ (Count # 0 => executed <= Count)
      BY <1>1, MachineAssumption DEF MInv, LoopTypeOK, Placed
    <3> QED BY <1>1, <3>1, StopCheckFacts
  <2> QED BY <1>1, <1>2, <2>1, StopCheckFacts DEF StopReasonTrue
<1> QED BY <1>4, <1>5 DEF MInv

LEMMA ServiceAsyncInv == ASSUME MInv, ServiceAsync PROVE MInv'
<1>1. /\ at = "top" /\ StopCheck = "none" /\ at' = "exec"
      /\ timer_counter' = NextCounter(timer_counter)
      /\ UNCHANGED <<clock, stop, executed, idle_until, timers>>
  BY DEF ServiceAsync
<1>2. GicInv(gic') /\ notified' \in BOOLEAN
  <2>1. CASE timer_counter = 0
    <3>1. GicInv(Sampled(gic))
      BY LinesInv DEF MInv
    <3> DEFINE g == Sampled(gic)
    <3>2. GicInv(Polled(g))
      <4> HIDE DEF g
      <4> QED BY <3>1, LinesInv DEF g
    <3> QED BY <2>1, <3>2 DEF ServiceAsync
  <2>2. CASE timer_counter # 0
    BY <2>2 DEF ServiceAsync, MInv, LoopTypeOK
  <2> QED BY <2>1, <2>2
<1>3. timer_counter' \in 0 .. Interval - 1
  BY <1>1, MachineAssumption DEF MInv, LoopTypeOK, NextCounter
<1>4. cpu' \in Cpu /\ cpu'.powered_off = cpu.powered_off /\ cpu'.wfi = cpu.wfi
  <2>1. cpu \in Cpu /\ cpu' \in {cpu, EnterEl1}
    BY DEF ServiceAsync, MInv, LoopTypeOK
  <2> QED BY <2>1, MachineAssumption DEF EnterEl1, Cpu
<1>5. ~ cpu.powered_off /\ (Count # 0 => executed < Count)
  <2>1. executed \in Nat /\ Count \in Nat
    BY MachineAssumption DEF MInv, LoopTypeOK
  <2> QED BY <1>1, <2>1, StopCheckFacts
<1>6. idle_until = None /\ ~ cpu.wfi /\ executed \in Nat
  BY <1>1 DEF MInv, Placed, LoopTypeOK
<1>7. LoopTypeOK'
  BY <1>1, <1>2, <1>3, <1>4 DEF MInv, LoopTypeOK, GicInv
<1>8. Placed'
  BY <1>1, <1>4, <1>5, <1>6, MachineAssumption DEF Placed
<1> QED BY <1>1, <1>2, <1>6, <1>7, <1>8, InsideRun DEF MInv

(* An instruction retires: control is at the top of the loop, or has gone   *)
(* to look for something to wake up for.                                    *)
LEMMA RetireInv ==
    ASSUME MInv, NEW c \in Cpu, Retire(c), c.wfi => ~ c.powered_off,
           timers' \in [Timers -> Timer], GicInv(gic'), notified' \in BOOLEAN
    PROVE  MInv'
<1>1. /\ at = "exec" /\ cpu' = c /\ executed' = executed + 1
      /\ at' = IF c.wfi THEN "wfi" ELSE "top"
      /\ UNCHANGED <<clock, stop, idle_until, timer_counter>>
  BY DEF Retire
<1>2. /\ idle_until = None /\ executed \in Nat /\ Count \in Nat
      /\ Count # 0 => executed < Count
  BY <1>1, MachineAssumption DEF MInv, Placed, LoopTypeOK
<1>3. LoopTypeOK'
  BY <1>1, <1>2 DEF MInv, LoopTypeOK, GicInv
<1>4. Placed'
  <2>1. Count # 0 => executed' <= Count
    BY <1>1, <1>2
  <2>2. c.wfi \in BOOLEAN
    BY DEF Cpu
  <2> QED BY <1>1, <1>2, <2>1, <2>2 DEF Placed
<1>5. at' # "host" /\ idle_until' = None
  BY <1>1, <1>2
<1> QED BY <1>3, <1>4, <1>5, InsideRun DEF MInv

\* An instruction leaves the power state and the idle hint alone.
Awake(c) == c \in Cpu /\ ~ c.powered_off /\ ~ c.wfi

LEMMA ExecInv == ASSUME MInv, Exec PROVE MInv'
<1>1. /\ at = "exec" /\ cpu \in Cpu /\ timers \in [Timers -> Timer] /\ GicInv(gic)
      /\ notified \in BOOLEAN /\ cpu.powered_off = FALSE /\ cpu.wfi = FALSE
  BY DEF Exec, ExecCpu, ExecTimer, ExecDevice, StopUnsupported, Retire, MInv, LoopTypeOK, Placed, Cpu
<1>2. \A pc \in Pcs : Awake([cpu EXCEPT !.pc = pc])
  BY <1>1 DEF Awake, Cpu
<1>3. CASE ExecCpu
  <2>1. timers' \in [Timers -> Timer] /\ GicInv(gic') /\ notified' \in BOOLEAN
    BY <1>1, <1>3 DEF ExecCpu
  <2>2. PICK pc \in Pcs, masked \in BOOLEAN :
           \/ Retire([cpu EXCEPT !.pc = pc, !.irq_masked = masked])
           \/ Retire([cpu EXCEPT !.pc = pc, !.wfi = TRUE])
           \/ Retire([cpu EXCEPT !.pc = pc, !.powered_off = TRUE])
           \/ Retire(EnterEl1)
    BY <1>3 DEF ExecCpu
  <2>3. \A c \in {[cpu EXCEPT !.pc = pc, !.irq_masked = masked],
                  [cpu EXCEPT !.pc = pc, !.wfi = TRUE],
                  [cpu EXCEPT !.pc = pc, !.powered_off = TRUE], EnterEl1} :
           c \in Cpu /\ (c.wfi => ~ c.powered_off)
    BY <1>1, MachineAssumption DEF EnterEl1, Cpu
  <2> QED BY <2>1, <2>2, <2>3, RetireInv
<1>4. CASE ExecTimer
  <2>1. PICK pc \in Pcs : Retire([cpu EXCEPT !.pc = pc])
    BY <1>4 DEF ExecTimer
  <2>2. timers' \in [Timers -> Timer]
    <3>1. PICK t \in Timers :
             \/ \E cval \in Cvals : timers' = [timers EXCEPT ![t].cval = cval]
             \/ \E enable, imask \in BOOLEAN :
                   timers' = [timers EXCEPT ![t].enable = enable, ![t].imask = imask]
      BY <1>4 DEF ExecTimer
    <3>2. timers[t] \in Timer
      BY <1>1
    <3>3. CASE \E cval \in Cvals : timers' = [timers EXCEPT ![t].cval = cval]
      BY <1>1, <3>2, <3>3 DEF Timer
    <3>4. CASE \E enable, imask \in BOOLEAN :
                  timers' = [timers EXCEPT ![t].enable = enable, ![t].imask = imask]
      <4>1. PICK enable, imask \in BOOLEAN :
               timers' = [timers EXCEPT ![t].enable = enable, ![t].imask = imask]
        BY <3>4
      <4> DEFINE new == [timers[t] EXCEPT !.enable = enable, !.imask = imask]
      <4>2. new \in Timer
        BY <3>2 DEF Timer
      <4>3. timers' = [timers EXCEPT ![t] = new]
        BY <4>1
      <4> HIDE DEF new
      <4> QED BY <1>1, <4>2, <4>3
    <3> QED BY <3>1, <3>3, <3>4
  <2>3. GicInv(gic') /\ notified' \in BOOLEAN
    BY <1>1, <1>4 DEF ExecTimer
  <2> QED BY <1>2, <2>1, <2>2, <2>3, RetireInv DEF Awake
<1>5. CASE ExecDevice
  <2>1. PICK pc \in Pcs : Retire([cpu EXCEPT !.pc = pc])
    BY <1>5 DEF ExecDevice
  <2>2. GicInv(gic')
    BY <1>1, <1>5, AcknowledgeInv, EndOfInterruptInv DEF ExecDevice
  <2>3. timers' \in [Timers -> Timer] /\ notified' \in BOOLEAN
    BY <1>1, <1>5 DEF ExecDevice
  <2> QED BY <1>2, <2>1, <2>2, <2>3, RetireInv DEF Awake
<1>6. CASE StopUnsupported
  <2>1. /\ at' = "host" /\ stop' = "Unsupported"
        /\ UNCHANGED <<clock, executed, idle_until, timer_counter, cpu, timers, gic, notified>>
    BY <1>6 DEF StopUnsupported, Return
  <2>2. idle_until = None
    BY <1>1 DEF MInv, Placed
  <2>3. LoopTypeOK' /\ GicInv(gic)' /\ Placed' /\ NoOversleep'
    BY <1>1, <2>1, <2>2 DEF MInv, LoopTypeOK, StopReasons, Placed, NoOversleep
  <2>4. StopReasonTrue'
    BY <1>1, <2>1, <2>2 DEF StopReasonTrue
  <2> QED BY <2>3, <2>4 DEF MInv
<1> QED BY <1>3, <1>4, <1>5, <1>6 DEF Exec

(* WFI and WFE: note_idle's first part either finds an IRQ or none.         *)
LEMMA WfiInv == ASSUME MInv, StayAwake \/ NothingPending PROVE MInv'
<1>1. /\ at = "wfi" /\ cpu' = [cpu EXCEPT !.wfi = FALSE] /\ at' \in {"top", "idle"}
      /\ at' = "idle" => ~ SignalsIrq(gic')
      /\ gic' \in {gic, Sampled(gic)}
      /\ UNCHANGED <<clock, stop, executed, idle_until, timer_counter, timers, notified>>
  BY DEF StayAwake, NothingPending
<1>2. GicInv(gic')
  <2>1. GicInv(gic) /\ GicInv(Sampled(gic))
    BY LinesInv DEF MInv
  <2> QED BY <1>1, <2>1
<1>3. /\ cpu' \in Cpu /\ ~ cpu'.wfi /\ cpu'.powered_off = cpu.powered_off
      /\ ~ cpu.powered_off /\ idle_until = None
  BY <1>1 DEF MInv, LoopTypeOK, Placed, Cpu
<1>4. LoopTypeOK' /\ Placed'
  BY <1>1, <1>2, <1>3 DEF MInv, LoopTypeOK, GicInv, Placed
<1> QED BY <1>1, <1>2, <1>3, <1>4, InsideRun DEF MInv

(* The second part of note_idle, after its own read of the clock.           *)
LEMMA NoteIdleInv == ASSUME MInv, NoteIdle PROVE MInv'
<1>1. /\ at = "idle"
      /\ UNCHANGED <<clock, executed, cpu, timers, gic, notified>>
  BY DEF NoteIdle
<1>2. /\ ~ SignalsIrq(gic) /\ idle_until = None /\ ~ cpu.powered_off /\ ~ cpu.wfi
  BY <1>1 DEF MInv, Placed
<1>3. CASE DeadlinePassed /\ at' = "top" /\ UNCHANGED <<idle_until, timer_counter, stop>>
  <2>1. LoopTypeOK' /\ Placed' /\ GicInv(gic)'
    BY <1>1, <1>2, <1>3 DEF MInv, LoopTypeOK, Placed
  <2> QED BY <1>2, <1>3, <2>1, InsideRun DEF MInv
<1>4. CASE idle_until' = IdleTarget /\ timer_counter' = 0 /\ Return("CountReached")
  <2>1. /\ at' = "host" /\ stop' = "CountReached"
        /\ IdleTarget \in Nat /\ IdleTarget # None
        /\ IdleTarget <= clock + IdleCap
        /\ \A t \in Armed : IdleTarget <= timers[t].cval
    BY <1>4, IdleTargetFacts, MachineAssumption DEF MInv, Return
  <2>2. LoopTypeOK' /\ Placed' /\ GicInv(gic)'
    BY <1>1, <1>2, <1>4, <2>1, MachineAssumption DEF MInv, LoopTypeOK, Placed, StopReasons
  <2>3. Armed' = Armed
    BY <1>1 DEF Armed
  <2>4. NoOversleep'
    BY <1>1, <1>2, <1>4, <2>1, <2>3 DEF NoOversleep
  <2>5. StopReasonTrue'
    BY <1>1, <1>2, <1>4, <2>1 DEF StopReasonTrue
  <2> QED BY <2>2, <2>4, <2>5 DEF MInv
<1> QED BY <1>3, <1>4 DEF NoteIdle

-----------------------------------------------------------------------------
(* The specification *)

LEMMA LoopStepInv == ASSUME MInv, [LoopNext]_loop_vars PROVE MInv'
<1>1. CASE Tick
  BY <1>1, TickInv
<1>2. CASE Run
  BY <1>2, CallRunInv, StopAtTopInv, ServiceAsyncInv, ExecInv, WfiInv, NoteIdleInv DEF Run
<1>3. CASE UNCHANGED loop_vars
  <2>1. Armed' = Armed
    BY <1>3 DEF loop_vars, Armed
  <2>2. LoopTypeOK' /\ GicInv(gic)' /\ Placed'
    BY <1>3 DEF loop_vars, MInv, LoopTypeOK, Placed
  <2>3. NoOversleep' /\ StopReasonTrue'
    BY <1>3, <2>1 DEF loop_vars, MInv, NoOversleep, StopReasonTrue
  <2> QED BY <2>2, <2>3 DEF MInv
<1> QED BY <1>1, <1>2, <1>3 DEF LoopNext

(* The inductive invariant holds in every reachable state.                  *)
THEOREM LoopInvariant == LoopSpec => []MInv
<1>1. LoopInit => MInv
  BY LoopInitInv
<1>2. MInv /\ [LoopNext]_loop_vars => MInv'
  BY LoopStepInv
<1> QED BY <1>1, <1>2, PTL DEF LoopSpec

(* Every field keeps its type: the sampling counter stays below the         *)
(* interval, also an interval of one, and the controller's record is sound. *)
THEOREM LoopTypeCorrect == LoopSpec => []LoopTypeOK
<1>1. MInv => LoopTypeOK
  BY DEF MInv
<1> QED BY <1>1, LoopInvariant, PTL

(* The idle machine resumes no later than any enabled timer and one slice,  *)
(* with the line down and a fresh sample due, although note_idle reads the  *)
(* clock twice.                                                             *)
THEOREM NeverOversleeps == LoopSpec => []NoOversleep
<1>1. MInv => NoOversleep
  BY DEF MInv
<1> QED BY <1>1, LoopInvariant, PTL

(* The reason run returns is true of the machine it leaves, for every count *)
(* and stop address.                                                        *)
THEOREM StopReasonsAreTrue == LoopSpec => []StopReasonTrue
<1>1. MInv => StopReasonTrue
  BY DEF MInv
<1> QED BY <1>1, LoopInvariant, PTL
=============================================================================
