# v64 in TLA+

v64 is an AArch64 full-system emulator in Rust: a decoder, an interpreter, a
JIT that emits WASM, a board with a GICv2, generic timers, a PL011, virtio
devices and a JIT-aware machine loop, two front-ends (SDL, browser)
and a differential fuzzer against Unicorn. The emulator itself is single
threaded, but the guest is not: interrupts, DMA polls, timers and the host's
clock fall between any two guest instructions, and most of what can go wrong
goes wrong there. This directory holds TLA+ modules translated from that code,
the TLC configurations that check them on small instances, and TLAPS proofs
for every value of the constants.

    tlc -workers 2 -config MCGic.cfg MCGic      # one run of the table below
    tlapm GicProofs.tla                         # the proofs

`PROJECT.json` is the index: components, runs, mutants (a plausible bug for
every property, which TLC must find), the source lines behind every definition,
findings, hazards and theorems.

## 1. Inventory

Paths are under `src/crates/`.

| part | state | operations | interacts with | what makes it correct |
|---|---|---|---|---|
| Interrupt controller, `platform/src/gic.rs` | enable/pending/active bitmaps, priorities, PMR, the `running` stack, `cached_pending` | `set_pending`, `clear_pending`, distributor and CPU-interface registers (IAR, EOIR, SGIR) | every device raises and drops a line; the machine loop asks `signals_irq` once per instruction | the cache is what a scan would return; priorities in progress nest strictly; IAR takes the most urgent interrupt |
| Machine loop, `platform/src/machine/mod.rs` | `timer_counter`, `idle_until`, totals | `run`, `step`, `service_async`, `advance_timers`, `note_idle`, `idle_for` | calls `interp::step`, the timers, the GIC, every DMA device; called by the host | never idles past a deadline, its stop reasons are true, it keeps the budget, it delivers what is due |
| Generic timers, `interp/src/timer.rs` | CTL and CVAL of two timers, the published count | MSR/MRS of CTL, CVAL, TVAL; `fires`, `next_deadline`, `set_count` | machine loop, host clock | the line follows the condition; TVAL arithmetic wraps |
| CPU state and exceptions, `cpu/src/state.rs`, `interp/src/exception.rs` | PSTATE, PC, `sp` and the bank `sp_el`, system registers, exclusive monitor, `pending_abort` | `enter_el1`, `eret`, `msr_imm`, `set_el_spsel`, `read/write_sp_el` | every instruction, the machine loop | an interrupted program cannot tell; each stack pointer stays with its level |
| Exclusives, `interp/src/ldst/excl.rs`, `cas.rs`, `atomic.rs` | the monitor | LDXR/STXR, LDXP/STXP, CAS, LSE atomics | memory, exceptions | no update is lost |
| MMU, TLB, memory access, `interp/src/mmu.rs`, `cpu/src/tlb.rs`, `interp/src/mem_access.rs` | translation registers, TLB entries, page tables in memory | `translate`, `walk`, TLBI, split accesses, alignment check | page tables, exceptions, JIT fast path | the TLB answers as a walk would since the last TLBI; a fault changes no memory of the page that faulted |
| virtio-blk, `platform/src/virtio/blk.rs` | queue addresses, cursor, `int_status`, `notified`, the disk | register writes, `process` from `poll` | guest driver, guest memory, GIC | requests once each and in order; no completion unseen |
| virtio-rng, -input, -gpu, shared queue, `platform/src/virtio/{rng,input,gpu,queue}.rs` | per-queue cursor, event FIFO, scanout | `pop`, `push_used`, host events, GPU commands | as above, and the host's display and keyboard | events arrive in order and once; the scanout shows the resource |
| UART, `platform/src/uart.rs` | RX FIFO, bytes sent, RIS and IMSC, line-control registers | data, mask and clear accesses; `feed` and `take_tx` for the host | GIC, front-end | a received byte is announced until it is read; no byte is lost, doubled or reordered |
| Bus, memory map, loader, device tree, `platform/src/{bus,board,loader,fdt}.rs` | RAM, list of devices, next virtio slot | `map`, routing reads and writes; `add_virtio`; image placement | everything | one device answers an address, one holds a line; images do not overlap; the tree tells the truth |
| JIT, `platform/src/machine/jit.rs`, `jit/src/` | `jit_cache` by physical address, hotness counters, compiled regions | `run_jit`, `jit_step`, region formation, lowering | interpreter as fall-back, IC and TLBI | same stops as the interpreter loop; no stale code after IC; budget overrun is bounded |
| Decoder, `decoder/src/` | none | `decode` | interpreter, JIT | reserved encodings are refused; immediates mean what the architecture says |
| Integer, FP, SIMD execution, `interp/src/` | none beyond the CPU state | one function per instruction | decoder, JIT | arithmetic, flags, lanes; the JIT computes the same |
| Front-ends, `platform/src/bin/v64.rs`, `web/src/lib.rs` | window, frame buffer | loop: input, call `run`, sleep while idle, drain the console, take a frame | machine, devices | the guest is always run again; what it sent is shown |
| Fuzzer, `difftest/src/{fuzz,pool}.rs` | work queue, totals, failure slot | workers | threads of the host | every unit once; a divergence is reported |

The hard behaviours: the cached interrupt (`gic.rs:53`) that every mutation has
to refresh; two reads of a moving clock in `note_idle` (`machine/mod.rs:210`,
`:218`); timer and DMA service only every 64 instructions; DMA polls that fall
between any two steps of a driver's interrupt handler; ring indices that wrap;
events that wait for a buffer, and two queues that share one status bit and one
line; a UART line that is re-evaluated on some register accesses only; a kernel
that needs more memory than its file; stack pointers that live either in `sp` or
in the bank; a monitor that outlives the task that armed it; a TLB that lags
behind the page tables; compiled code that lags behind memory, is entered through
another mapping than it was compiled at, can be left in the middle, and computes
flags, fields and lanes another way than the interpreter.
`PROJECT.json` lists each at its line with the property that would catch it.

## 2. Plan

Order: what every guest instruction depends on first.

| stage | module | abstract specification, composition | proofs |
|---|---|---|---|
| done | `GicState`, `Gic` | operators on one record, and the record as a variable that other modules extend | done: all its properties |
| done | `Machine` | extends `Gic`; timers, DMA device, host | done: its invariants |
| done | `BlockQueue`, `VirtioBlk` | `BlockQueue` is the promise, `VirtioBlk` (with `Gic`) implements it | done: invariants, one owner per chain, the step simulation |
| done | `Exceptions` | a guest kernel around the CPU | done: all its properties |
| done | `Mmu` | page tables, TLB, split accesses, the JIT's inline path, a kernel with demand paging | done: invariants and the action property |
| done | `GuestCode`, `Jit` | `GuestCode` is the interpreter with a lagging instruction cache, `Jit` implements it with compiled regions | done: invariants, the step simulation |
| done | `Serial`, `Board` | bus, layout, UART, controller, driver and front-end together implement the two-way FIFO `Serial` | done: `BoardInv`, the step simulation |
| done | `EventFifo`, `VirtioIo` | the other virtio devices and the front-end's input and frames; `EventFifo` is the promise of an input device | done: invariants, one owner per chain, the step simulation |
| done | `Words`, `Decoder`, `DecoderVector`, `Interpreter`, `InterpreterVector`, `StepMachine` | from a word to the next state; `StepMachine` is the promise of the JIT | done: lemmas on words as numbers; what `decode` yields and `step` keeps |
| done | `Lowering`, `LoweringVector`, `Compiled` | straight-line emitted code implements `StepMachine` | done: types, comparisons, bit fields, high halves; the step simulation is model-checked |
| later | exclusives over `Mmu` | pairs, and a store that faults | – |
| later | floating-point lanes, AES, SHA, structure loads | operators against a reference definition | – |

## 3. Modules

**`GicState`** is `GicInner` as a record and each of its methods as an operator
from record to record. Bitmaps are sets of ids, `u8` priorities are `0 ..
IdlePrio`, a register that covers a bank of ids takes a subset of the bank.
`ScanPending` picks the lowest priority value, ties to the lowest id, and
compares with the idle priority strictly, as `scan_pending` does.
`IdlePrio` is the reset value of the scan, 0xff.

**`Gic`** lets a device raise and drop any line and the guest write any register,
in any order. One guest access is one action, as in the code: `Gic` holds the
inner state behind a `RefCell`, and a register access is one call. Registers
whose reads and writes have no effect are left out. `Machine`, `Board`, `VirtioBlk` and
`VirtioIo` extend it: its variable `gic` is their controller, so what `GicProofs` says of
each method holds of their lines.

**`Machine`** follows `Machine::run` place by place: variable `at` is "host"
(outside `run`), "top" (the checks at the top of the loop), "exec" (about to run
one instruction), "wfi" and "idle" (before and between the two clock reads of
`note_idle`). `Tick` may fall between any two. A guest instruction is one
`Exec`: any program counter, any mask, timer writes, IAR, EOIR, a doorbell,
WFI, power-off, exceptions, an unsupported word. `CallRun` is the host, which
calls `run` again after every return.

**`BlockQueue`** is what a block device promises: posted requests are carried out
once each and in order, and handed back with status and data; a reset forgets
the queue and keeps the disk. **`VirtioBlk`** is the device with its register
block, the split virtqueue with wrapping indices, `process` as one action per
poll (`Served`: the state after each turn of its loop, a recursive function), the line into the controller, and
the driver, whose handler is cut at every register access because a poll can
fall there. The refinement mapping reads the posted requests off the avail ring
between the device's cursor and the index, and the completed ones off the used
ring between the driver's cursor and the index.

**`Exceptions`** is `CpuState`'s PSTATE, banked stack pointers and monitor as a
record, `enter_el1`, `eret`, `msr_imm` (SPSel, DAIF), LDXR and STXR as
operators, under a kernel that saves, nests, switches tasks and restores at any
point. A stack pointer is "whose stack, how deep"; one register stands for those
a kernel saves. The kernel is the environment: it saves and restores exactly what
the architecture asks of it (ELR, SPSR, SP_EL0, registers).

**`Mmu`** is `translate`, `walk` and `check_perms`, the direct-mapped TLB, and an
instruction's accesses. A page is its half of the address space and a number;
the page tables are a function from (table, index) to descriptors, of which
permissions, access flag and output frame are kept. At the last level the walk takes
whatever is marked as a table for a page, and `AsPage` says which page its bits then
name. `Chunk` is one call of
`xlate`, `Element` one of `gather` or `scatter` (they stop at a fault), `Elements` a
pair (which goes on after one, and whose later abort replaces the earlier).
`FastPath` is the gate the JIT emits inline. The guest is a kernel that edits
tables, switches them, invalidates, and whose handler serves an abort (maps
the page, sets the access flag, lifts write protection) or kills; it executes a
TLBI only where it replaced a descriptor that a TLB may hold.

**`GuestCode`** is what guest code promises to do, one instruction at a time: fetch,
branch, call, exception return, store over code, IC, a change of mapping. Memory
is a function from word addresses to instructions, and `old` holds what a fetch
may still return, as the architecture allows until IC. **`Jit`** is
`run_jit_browser` place by place (`top`, `step`, `block`, `interp`, `tail`),
`jit_step` with its hotness counters and cache by physical address,
`form_region` with its work list (`Turns` bounds how often it can go round, and the
recursive function stays where it is once it has ended), page bound and caps, and the control flow of
the emitted code: the dispatch loop with its iteration counter, the branches
that stay in the region, the exits, the bail in front of an access the inline
path cannot make. Compiled code knows addresses only relative to the PC it was
entered with (`Rel`). Data instructions are one flag ("op") and one store; what
each emitted opcode computes is not the business of this module. The refinement
mapping is the identity but for the PC and the flags, which live in WASM locals
while a block runs. `Toggle` lets the host switch between `run` and `run_jit`,
which `crates/web` exports both.

**`EventFifo`** is what an input device promises: reports reach the guest once each,
in order, the SYN after what it closes. **`VirtioIo`** is the register block that
rng, input and gpu share, `pop` and `push_used` of `queue.rs`, and one `process` per
device (`ServeQueue`: a queue's turns, a recursive function as in `VirtioBlk`), under the drivers and the front-end that injects keys and motions and takes
frames. Which device is there is chosen at power-on. A frame is the number of the
last drawing of each page; the display's commands are those of `gpu.rs`, errors included.

**`Words`** defines machine words as the set of their one bits (TLC's integers end at
2^31), with the arithmetic the code uses. **`Decoder`** and **`DecoderVector`** are
`decode`, group by group, with the encodings it refuses. **`Interpreter`** and
**`InterpreterVector`** are `execute` for the instructions that work on registers:
integer, branch, and integer vector instructions. **`StepMachine`** is fetch, decode,
execute over a program. **`Lowering`** and **`LoweringVector`** are what the emitted
WASM does to the register image, in the way it does it: WASM has no flags, no
high product, no rotate through a mask and no lane of another width, so carry,
overflow, field moves and lanes are computed from what there is. `can_inline` and the
`is_inline_*` are the eligibility tests, clause by clause. **`Compiled`** forms blocks,
carries one out instruction by instruction, interprets what starts no block, and
dispatches on the PC a block returns. The refinement mapping to `StepMachine` turns
the NZCV word into flags and the entry PC into the PC of the instruction.

**`Serial`** is what a console promises: two FIFOs, up to a power-off, after which what
was handed over is still shown. **`Board`** attaches devices (`map`, `add_virtio`), places
kernel, initramfs and tree (`boot_image`), and then runs a guest that has read the
tree: the early console that polls, and an interrupt handler cut at every register
access. Every access goes through `Route`, so a window the tree misplaces reaches
nothing. The front-end's loop types, runs, drains, and exits after a power-off. The
driver is not in the repository and is marked external.

## 4. Runs

| run | states | question |
|---|---|---|
| `gic` | 131,072 | Is the cached interrupt ever stale, can interrupts of one priority nest, does IAR ever take a lesser interrupt, whatever sequence of lines and register writes? |
| `machine` | 849,422 | Does the loop ever sleep past a deadline, return a false reason, or leave a due timer or a doorbell unserved for ever? |
| `virtio_blk` | 150,325 | Does the device with its rings implement the queue of requests, and can a completion sit in the used ring unannounced? |
| `virtio_io` | 305,825 | Do the input, entropy and display devices deliver events once and in order, hand every chain back, and show what was flushed, across polls, resets and full rings? |
| `cpu` | 51,796 | Do decoder, interpreter and emitted code agree on every word of the families below, and do comparisons, fields and short vectors come out as the architecture says? |
| `board` | 14,156 | Can two devices share an address or a line, two images a byte, or a byte typed or written be lost, doubled, reordered or held for ever, from the layout of the board to the power-off? |
| `exceptions` | 3,465,300 | Can a task or the kernel notice that a stack pointer, a register or PSTATE was lost in nested exceptions and switches; is a store-exclusive on the task's own reservation atomic? |
| `mmu` | 53,745 | Does a TLB hit ever differ from a walk, does the inline path ever go where the interpreter would not, does an access ever get what the tables refuse, or an instruction abort for ever? |
| `jit` | 284,965 | Can the guest tell compiled regions from the interpreter: through aliases, remaps, patched code, bails and yields; is every retired instruction billed; is a unit bounded; does the host get control back? |
| `exceptions_stxr`, `jit_toggle`, `jit_call` | – | Disagreements between the repository's words and its code, section 7. |

### Properties

* `CacheCoherent`: `cached_pending` is what a full scan would give. Seven
  mutations have to remember `recompute`.
* `StrictNesting`: the `running` stack decreases strictly, hence never holds more
  than `IdlePrio` entries although `acknowledge` pushes unchecked.
* `AckTakesHighest`, `AckDropsLine` (action properties): IAR takes an interrupt
  none outranks, and the line is down afterwards, so a handler that unmasks at
  once is not re-entered by an equal.
* `NoOversleep`: while `idle_until` is set, the line is down, no enabled timer is
  due before it, it is at most one slice away, and the next instruction samples
  the clock.
* `StopReasonTrue`: the reason fits the machine `run` leaves behind.
* `TimerDelivered`, `DoorbellServed` (liveness): a due, unblocked timer and a rung
  doorbell do not wait for ever, across idles and budgets shorter than the cadence.
* `CompletionSignalled`: an uncollected completion has its status bit and its line
  up, or the handler is on its way to the ring. The window between IAR, the
  status read, the acknowledgement and the ring scan is where a poll could
  lose it.
* `ImplementsBlockQueue` (refinement), `RequestCollected` (liveness).
* `ImplementsEventFifo` (refinement): the events of the used ring not yet read and those
  that wait in `pending` are one FIFO. Injected reports outgrow the posted buffers,
  the ring wraps, and a reset forgets both halves together.
* `WindowCurrent`: unless a frame waits to be taken, the window shows what was last
  flushed. `take_frame` clears `dirty` first and may then have nothing to show.
* `Answered` (liveness): on two queues with one status bit and one notification flag,
  an event is read and every other chain comes back.
* `TaskIntact`, `KernelStackIntact`, `OwnStoreAtomic`.
* `TlbCoherent`: while the kernel owes no TLBI, a hit is what a walk finds. Two
  halves and two table trees share the slots, and faults are never cached.
* `FastPathAgrees`: the inline path reads TLB, RAM range and permissions but not
  SCTLR.M; it is right only because every switch of the MMU empties the TLB.
* `AccessesFollowTables`: against a definition of "granted" that does not walk
  (every descriptor on the path allows the access), an instruction makes only
  granted accesses and aborts only on a refused one.
* `InsnCompletes` (liveness): an instruction over several pages and elements, retried
  after each abort, completes or is killed. It fails if FAR names the start
  of the access: the kernel would find nothing to serve.
* `ImplementsGuest` (refinement): each step of compiled code is an instruction the
  interpreter could execute there, or none. It takes the drop of the cache at IC,
  the relative PC at every exit, the bail being interpreted at once, and flags
  written back on every way out.
* `CountExact`: outside a block, what was billed to the budget is what was retired.
  A block has five ways out, each with a count of its own.
* `UnitBounded`: a unit between two `service_async` retires at most
  `MAX_REGION_ITERS * MAX_JIT_BLOCK` and one instruction, whatever loop it is in.
* `RegionsFit`: a region keeps to its page (the cache key is one physical page) and
  to its caps, and no block starts twice. `RunReturns` (liveness): a bailing or
  looping region does not keep the host waiting.
* `ImplementsInterpreter` (refinement): a compiled block, at whatever address it is mapped,
  is the same instructions one by one. Two independent computations of each result
  have to meet, and the PC of every instruction comes out of an entry PC that the
  compiler did not know.
* `ComparesOrder`, `FieldsMove`, `HighHalfClear` (action properties): that both sides agree
  does not make them right. After a comparison, the condition codes order the
  operands; a bit-field instruction moves one field, and a logical immediate is a
  rotated run of ones; a 64-bit or scalar vector operation clears the upper half.
* `BoardInv`: types; `LaidOut` (windows, lines and images are disjoint, the kernel has the
  memory behind its file that it clears before it reads anything else); and
  `Announced`, the masked status is pending in the controller except in the one window
  of the handler where it need not be.
* `ImplementsConsole` (refinement with liveness): from both ends of the UART, a FIFO.

Each module has one `TypeOK`; in these modules it carries bounds as well (the
sampling counter, wrapped indices, stack owners), which is what its mutant breaks.

### Bounds, and why they suffice

* `gic`: two ids and the id that doubles as "spurious", an SGI among them, four
  priority values. Two ids are enough to compete, tie, and nest; the theorems
  cover every number of ids and priorities.
* `machine`: sampling interval 2 and count 2 (so that a `run` call ends inside and
  outside the cadence), two timers with compare values before, at and after the
  bound of the clock, idle slice 2, `MaxTime` 1. The clock's bound ends time, not
  the machine: all the behaviours after the last tick are explored. Interrupts
  all have one priority here; nesting is the business of `gic`.
* `virtio_blk`: two chains on a queue of two, indices modulo 4, so both the ring and
  the index wrap; a disk of one sector and a sector beyond its end.
* `exceptions`: two tasks, two counters, exceptions two deep, counters up to 2
  (`MaxCount`, `MaxNest`), which lets one task meet another's monitor at the same and
  at a different address, and an exception nest on a kernel on either stack.
* `mmu`: two levels of two entries, so one table descriptor, one level-2 block, pages
  below and a hole above; a TLB of two slots, so that pages 0 and 2 and the
  kernel's page 0 evict each other; two roots. Instructions over one and two
  pages, of one and two elements, at EL0 and EL1.
* `jit`: two pages of memory of four words; user code mapped twice (or once, with a
  hole) and a kernel page; hotness 2, regions of three blocks of three
  instructions, two iterations, a budget of 2. Eleven programs: loops of one, two
  and three blocks, loops that leave the page, calls and returns, under a kernel
  that invalidates, remaps or does neither; two words that a store may patch.
  Every cap is met: a region that wants a fourth block, a block that meets the end
  of its page, a loop that yields, a budget overrun inside a region. `BLR` occurs
  in `jit_call` only, because finding 3 would end every other question.
* `virtio_io`: a queue of two, indices modulo 4, so the ring and the index wrap; two
  pending events, so that a report of two waits for buffers behind another; one key
  and one motion (a keyboard's reports are those of the mouse's buttons, so the mouse
  stands for both), one resource of one page drawn on once, and commands on it
  that succeed and that fail. More resources do not meet: a command names one.
* `cpu`: real encodings at full width. A family fixes the part of a word that selects a
  group and runs over every value of the bits that select the instruction, and over
  values of the fields at their edges; operands are the edges of 32 and 64 bits, and
  vectors with both signs, extremes and equal neighbours in lanes of every size; all
  16 flag values where flags are read. Blocks of three, compiled at one address and
  run at another of the same page offset, where the PC wraps to 0 after two
  words; four programs with a call, a loop, and instructions that no block may hold.
* `board`: RAM of 16 MiB, four kernels (one that clears memory behind its file, one
  without a header, an old one without a size, one that does not fit) times three initramfs, up to eight virtio
  devices (all the slots); the guest is followed on two of those boards. Two
  bytes, three typed, three written at most, bursts of two in the handler, which
  may go round twice.
* Deadlock is checked in every run but two: in `cpu` a program ends, in `board` the
  front-end exits.

### Fairness

* `Machine!LoopFairSpec`: `WF(Run)`, because every host loop calls `run` again and `run` is
  a loop body that always makes progress, and `WF(Tick)`, because the host's
  clock is monotonic and moves. No fairness among instructions: the guest's
  program is arbitrary.
* `VirtioBlk!FairSpec`: `WF(Poll)`: `Machine` shows a doorbell is always polled;
  `WF(Publish)`, `WF(Notify)`, `WF(Handler)`: a driver finishes what it has begun, and
  an IRQ that stays deliverable is taken (the machine checks before every
  instruction). New requests and resets are never forced.
* `VirtioIo!FairSpec`: as `VirtioBlk`, and: a driver that probed posts its event buffers,
  its handler visits both queues, and the front-end takes a frame that waits.
* `Board!FairSpec`: `WF(Guest)`: a `run` executes at least one instruction, and `run` is called
  again; `WF(Loop)`: it returns when its budget is spent, and the loop goes on until
  it exits; `SF` of the two boot steps, which the early console may delay but which a
  kernel reaches. Typing, and what the guest writes, are never forced.
* `cpu` has none: every property of it is about a step.
* `Mmu!FairSpec`: as long as an instruction is outstanding, `Execute` or the handler
  acts again: `run` executes what PC points to, and a kernel does not stop in its
  abort handler. One of the two can always act then (the deadlock check shows
  it), so this is their weak fairness.
* `Jit!FairSpec`: `run_jit_browser` is a loop whose every place has a step, so it goes on
  as long as it has not returned. Written out as weak fairness of `Run`, whose
  ENABLED is then known to be "not at `host`". The host owes nothing.

## 5. Proofs

Eight modules `*Proofs` hold the theorems. Each is about `Spec` without fairness and
holds for every value of the constants that satisfies the named assumptions of its
module; those say that sizes are positive, that sets of states are what their
comments say, and nothing about the size of anything, unless said below.

| module | theorems | inductive invariant, and why it is needed |
|---|---|---|
| `GicProofs` | lemmas on numbers modulo a size and on the controller's operators; `ControllerInvariant`, `ControllerTypeCorrect`, `CacheIsCoherent`, `NestingIsStrict`; of steps: `AcksTakeHighest`, `AcksDropLine` | `GicInv(gic)`: types, cache coherence and strict nesting together. That a push keeps the stack strict needs the pushed priority below the top, which `acknowledge` reads from `cached_pending`, hence from coherence; coherence needs the types of what `ScanPending` chooses from. |
| `ExceptionsProofs` | `ChainInvariant`, `TypeCorrect`, `TasksAreIntact`, `KernelStackIsIntact`; of steps: `OwnStoresAreAtomic` | `IInv`: the frames on the kernel's stack are a chain, each saved by the level of the next (`Chained`), a task switched out is entirely in its frame (`SwitchedOut`), and a monitor armed by the running task holds what the counter held (`Armed`). |
| `MmuProofs` | `TranslationInvariant`, `TypeCorrect`, `TlbIsCoherent`, `FastPathIsSound`; of steps: `AccessesAreGranted` | `IInv`: `TypeOK` and `Usable(tlb)`, "empty with the MMU off; on, and with no TLBI owed, each entry is what a walk finds". It is carried through an instruction chunk by chunk, since a walk for one page refills a slot another page was served from. |
| `BoardProofs` | `LoopInvariant`, `LoopTypeCorrect`, `NeverOversleeps`, `StopReasonsAreTrue` (of `Machine`) | `MInv` adds `GicInv` and `Placed`: what each place of the loop knows of `idle_until`, the sampling counter and the budget. The two clock reads are ordered, so the bound computed from the first is never later than one computed from the second. |
| | `BoardInvariant`, `BoardIsSound`, `ConsoleIsSerial` | `IInv`: `BoardInv` and what places the board (`Wired`), what the tree says (`Told`), and where the driver's handler is (`Handling`): the one place where a masked condition need not be pending is between two of its accesses. |
| `VirtioBlkProofs` | `DeviceInvariant`, `TypeCorrect`, `CompletionsAreSignalled`, `EveryChainHasOneOwner`, `DeviceImplementsQueue` | `Inv`: `TypeOK`, `GicInv(gic)`, `CompletionSignalled`. `FlightInv` for the refinement: posted, done, free and half-posted chains together are `QueueNum` at most and are all different. From it follows that a slot about to be written holds nothing that is still needed, although indices wrap, and that a descriptor is not rewritten while posted. |
| `VirtioIoProofs` | `DeviceKeepsInvariant`, `TypeCorrect`, `WindowIsCurrent`, `ChainsHaveOneOwner`, `InputImplementsFifo` | `IoInv`: types; what is asked (`Asked`) and set up (`Probed`); per queue, free heads and those in flight are all the heads, each once (`OneOwner`); the flushed resource is the scanout's, and on show once the dirty bit is clear (`Shown`); `GicInv(gic)`. All but the last two are predicates of the record `process` works on, so they carry through a batch turn by turn. |
| `JitProofs` | `OrganizerInvariant`, `TypeCorrect`, `CountIsExact`, `UnitIsBounded`, `RegionsAlwaysFit`, `JitImplementsGuest` | `IInv`: inside a region, iterations, place in the block and the retired count agree; cached regions are well formed. `RInv` for the refinement: what is cached, and what is left of the running block, is what a fetch may still return. |
| `CompiledProofs` | lemmas on words, decoding and execution; `ExecutionInvariant`, `TypeCorrect`; of steps: `ComparesInOrder`, `FieldsMoveRight`, `HighHalvesClear` | `IInv`: the block is a sequence of what `decode` yields, of which only the last may not be inlined; the image has its widths; the returned PC is a word. An instruction is typed by what kind of instruction it is, so `DecodeKind` says of each encoding group which fields it yields and in what range. |

**Assumptions.** Each is checked by TLC on every run of its module. `GicAssumption`:
priorities go up to the idle one, ids are below `NumIrqs`. `MachineAssumption`:
intervals and slice are positive, the timers' lines and the DMA line differ, and a
guest never gives a line the idle priority, which would mute it. `ExceptionsAssumption`: there is
a task, and a nesting bound. `BlkAssumption`: the index width is a multiple of the
queue's size and larger, as 2^16 is of a power of two up to 2^15. `IoAssumption`: the same,
and 0 is no resource's id. `MmuAssumption` and
`MmuArithmetic`: what powers of two give, namely whole tables, and blocks that tile
the frames. `GuestAssumption`, `JitAssumption`: caps are positive, programs and patches are
code. `BoardAssumption`: images have sizes, the UART's line is one of the
controller's. `CompiledAssumption`, `SameOffset`: a program is 1 to `MaxWords` (16) words of 32 bits,
registers have their widths, and both addresses of a block share their page offset. The `None` of a module is not a member of what it stands beside.

**Arithmetic on words.** A word is the set of its one bits, and sums, carries and products are
recursive functions over bit positions; `CompiledProofs` begins by relating them to
numbers. `Val(x, n)` is the number that the low n bits of x are: a sum is exact
modulo 2^n, its carry out is the comparison of that sum with 2^n, and a
word's place in an order is its number's (`Val` is proved injective by an induction
over n on a set of naturals, not over an operator). From there:

* `ComparesInOrder`. The exact sum is x + ~y + 1. Both paths are shown to leave the flags
  of that sum (`SaysOrder`): the interpreter, which takes carry and overflow from a wide
  sum, and the emitted code, which at 64 bits pieces the carry together from two
  wrapped additions. Those flags, read by `eval_cond`, are the order of the operands, signed
  and unsigned. Immediates, SP as an operand and all destinations are included.
* `FieldsMoveRight`. The masks of `decode_bit_masks` are runs of ones in an element,
  rotated and repeated; a word's bit is one exactly when its distance from the rotation,
  modulo the element, is below the run's length (`ImmediateRuns`). The masks keep
  decode's ranges: the element divides the width and the run does not fill it. For a bit
  field, `FieldResult` says bit by bit what has moved, what is sign and what is kept, and
  is shown to be the property's `Moved`, the interpreter's rotation under two masks,
  and the emitted shifts, masks and sign product (a recursive function, shown to exist
  by stages, one position at a time).
* `HighHalvesClear`. Each interpreter result is lanes joined in 64 bits (`LanesLow`), a mask, or one
  element; each lowering ends in `finish_v`, a mask or a constant. It needs the ranges of
  the decoded fields: `immh` is not 0, a scalar copy names an element, and a
  scalar by-element form has 16 or 32 bits; with other fields the claim is false.

**Refinements.** In four modules a step of the detailed specification is shown to be
a step of the abstract one or a stutter:

* `DeviceImplementsQueue` is the whole of `ImplementsBlockQueue`. A poll is
  a loop whose number of turns the driver decides; the poll is one step, and by induction on
  turns (`UpTo`, a lemma about sets, because the library's induction theorems take an
  operator the provers cannot instantiate) it is as many services as chains were
  posted. That a mapping built from two wrapping rings loses nothing is the part
  that needs `FlightInv`.
* `InputImplementsFifo` is the whole of `ImplementsEventFifo`. A poll is a stutter however many
  events it moves, because what leaves the device's FIFO is appended to the used ring
  (`EventKeeps`), and the two queues of the device are proved apart (`OneQueueKeeps`). A
  buffer is posted again in the step that reads it, which needs its slot of the
  avail ring to be free: `OneOwner` counts.
* `ConsoleIsSerial` is the safety half of `ImplementsConsole`, whose other half is fairness.
* `JitImplementsGuest` is `Quiet /\ Spec => ImplementsGuest`. `Quiet` says that the host does
  not switch the JIT off and that no program and no patch holds `BLR`: exactly what
  findings 2 and 3 show to break it, and the setting of the run `jit`, where TLC checks
  the same property. Without `Quiet` the theorem is false.

**Only model-checked.** Liveness and everything under fairness (`TimerDelivered`,
`DoorbellServed`, `RequestCollected`, `Answered`, `InsnCompletes`, `RunReturns`, the liveness half of
`ImplementsConsole`): fairness here is about ENABLED, which the prover does not reason
about. `ImplementsInterpreter` cannot be a theorem as it
stands: a `BLR X30` refutes it, as finding 3 says, and the run `cpu` has no such program.
Without `BLR` it remains a comparison of some hundred lowerings with their interpreter
counterparts, products and divisions among them; of these, operands, results, conditions
and sums with their flags are proved to agree.
Real encodings and edge operands are compared.

## 6. Not modelled

* `Machine`: host input that raises a line while the machine sleeps (`Board` has host input
  and no clock), `step` called alone, TVAL's 32-bit
  arithmetic (a write of CVAL to any value stands for it), counts in the totals.
* `VirtioBlk`: feature negotiation and configuration registers, the ring's addresses,
  malformed or cyclic chains, chains of several data buffers. The same of `VirtioIo`, and
  requests shorter than the structures of the display protocol.
* `Exceptions`: ESR and FAR, general SPSR values (ERET to EL2 or EL3), page faults
  of LDXR/STXR and pairs (the monitor is not composed with `Mmu`); the kernel's own
  use of exclusives.
* `Mmu`: TCR and TTBR1 writes (which flush as TTBR0's do), alignment aborts, register
  writeback, DC ZVA, addresses that differ only above bit 55, memory contents
  of the pages. Two observations from reading, without a run: the head of
  `mem_access.rs` says a faulting access suppresses its write, while a store that
  crosses into a faulting page has already written its first part, and a pair
  writes its second element although the first faulted; the instruction is
  retried as a whole, so a kernel that serves the abort hides it.
* `Jit`: WFI, power-off, the `until` address and undefined words handed to the host (the
  part of the stop contract `Machine` has); when the timers are sampled; the inline
  access path's own checks (they are `FastPath` of `Mmu`); what a store
  writes, unless it is code. From reading, without a run: `run_jit_browser` says
  "same stop contract as `run`", but an `until` address inside a compiled block
  is passed.
* Execution: floating-point lanes and registers (IEEE arithmetic is delegated to Rust's
  `f32` and `f64` and to WASM's, and no property of this project tells two roundings
  apart), AES and SHA, structure loads and stores, and the lowering of floating-point and of
  atomics. They are decoded, and `Compiled` stops at them. Scalar loads and
  stores are those of `Mmu`.
* `Board`: identification registers, registers that are only read back, the binary format
  of the tree (its contents are modelled), header-less test images at fixed addresses.
* The fuzzer: test tooling around an external oracle, and its pool of threads stands
  outside the emulator.

## 7. Findings

1. **A store-exclusive succeeds on another task's reservation** (`exceptions_stxr`).
   `excl.rs:27-28` promises that an intervening write fails the store, and
   `state.rs:222` lists exceptions among what clears the monitor; `enter_el1` and `eret`
   never clear it and CLREX does nothing. Task 2's STXR then stores a value
   computed from an old load because the monitor holds what task 1 loaded.
2. **A stale block runs after the JIT was off** (`jit_toggle`). The web front-end
   says stale blocks "are never called" (`web/src/lib.rs:72`), and `jit.rs:125` that IC
   drops the cache. `run_jit_browser` looks at `ic_inval` only after a `jit_step`, and
   `run` never does: an IC executed under `run` leaves the cache, and the first unit
   after the JIT is switched on again may be the block that IC was for.
3. **`BLR X30` falls through in compiled code** (`jit_call`). The interpreter reads the
   target before it writes the link (`branch_reg.rs:6`); the emitted code stores the
   link into X30 first and then loads the target (`lower/mod.rs:204`,
   `lower/terminator.rs:32-39`), so the call goes to the next instruction. The
   cross-check test asserts identical state (`jit_crosscheck.rs:196-197`).

From reading, without a run:

* IAR acknowledges while interrupts are disabled, against `gic.rs:112-114`, "nothing is
  deliverable".
* `until = 0` is an address, and hosts pass 0 for "none": a guest whose PC becomes 0
  is told "ran (or went idle)" for ever.
* `note_idle` says it returns `false` when an interrupt is pending; a masked timer past
  its deadline makes it do so with nothing pending, and the idle loop spins.
* `uart.rs:13-15` says the line is re-evaluated on every register access; data, mask and
  clear accesses and `feed` do. The tree advertises 4 KiB windows for the controller,
  the bus maps 64 KiB.
* `excl.rs` of the decoder accepts CASP and pair encodings without looking at bit 31, which
  its comment fixes; the atomics and LDTR/STTR ignore bit 26, the floating-point
  group bits 31 and 29.
* `block.rs:58-59` leaves BRK, HVC and SMC out of `is_terminator`, and `is_branch` of the
  JIT leaves out SVC and ERET: blocks end there only because neither can be inlined.
* `dataproc.rs:5` and `eligible.rs:22-23` say SMULH and UMULH fall back to the interpreter;
  `eligible.rs:70-75` inlines them. `indexed.rs` says SDOT, UDOT and SQRDMLAH are
  skipped; it implements them.
* `pool.rs` reports "the first divergence found"; it is the last one written (`pool.rs:110`).
