------------------------------- MODULE Machine -------------------------------
(***************************************************************************)
(* The machine loop of crates/platform/src/machine/mod.rs: one CPU, the    *)
(* interrupt controller, the two generic timers of crates/interp/src/      *)
(* timer.rs, a DMA device, and the host that calls `run` again and again   *)
(* while its clock goes on.                                                *)
(*                                                                         *)
(* `at` is the place in `run` where control is.  The host's clock may      *)
(* advance between any two places, in particular between the two reads of  *)
(* it that note_idle makes.  The guest runs any program, once its GIC      *)
(* driver has enabled the interrupts: one instruction is one Exec action.  *)
(***************************************************************************)
EXTENDS Gic

CONSTANTS
    Virt, Phys,   \* PPI_VIRT_TIMER and PPI_PHYS_TIMER, which name the timers
    DmaIrq,       \* the SPI of the DMA device
    GuestPrio,    \* the priority the guest's GIC driver gave each interrupt
    Interval,     \* timer_interval: instructions between two clock samples
    IdleCap,      \* freq / MAX_IDLE_HZ, in ticks
    Pcs,          \* the program counters told apart
    Until,        \* `until`, the first argument of run
    Vector,       \* the guest's exception vectors (IRQ and synchronous)
    Count,        \* `count`, the second argument of run; 0 is unbounded
    Cvals,        \* the timer compare values told apart
    MaxTime       \* bound: the host's clock stops here

Timers == {Virt, Phys}
Ticks == 0 .. MaxTime

ASSUME MachineAssumption ==
    /\ Timers \subseteq Irqs /\ DmaIrq \in Irqs \ Timers
    /\ GuestPrio \in [Irqs -> 0 .. IdlePrio - 1]
    /\ Interval \in Nat \ {0} /\ IdleCap \in Nat \ {0}
    /\ Until \in Pcs /\ Vector \in Pcs
    /\ Count \in Nat /\ MaxTime \in Nat /\ Cvals \subseteq Nat /\ 0 \in Cvals
    /\ None \notin Nat

VARIABLES
    clock,                       \* the host's Clock
    at,                          \* where control is; "host": outside run
    stop,                        \* the StopReason of the last run
    executed,                    \* run's local counter
    idle_until, timer_counter,   \* fields of Machine
    cpu, timers,                 \* CpuState: PSTATE.I, PC, CNT*_CTL and CVAL
    notified                     \* the DMA device's doorbell

loop_vars == <<clock, at, stop, executed, idle_until, timer_counter, cpu, timers,
          gic, notified>>

Timer == [enable: BOOLEAN, imask: BOOLEAN, cval: Cvals]
Cpu == [irq_masked: BOOLEAN, pc: Pcs, wfi: BOOLEAN, powered_off: BOOLEAN]
StopReasons == {"none", "PoweredOff", "UntilReached", "CountReached", "Unsupported"}

-----------------------------------------------------------------------------
(* The generic timers *)

\* Enabled, unmasked, and the count has reached the compare value.
Fires(t, now) == timers[t].enable /\ ~ timers[t].imask /\ now >= timers[t].cval

Armed == {t \in Timers : timers[t].enable}

\* The earliest compare value of an enabled timer, masked or not.
NextDeadline == IF Armed = {} THEN None ELSE Min({timers[t].cval : t \in Armed})

DriveLine(g, t, now) == IF Fires(t, now) THEN SetPending(g, t) ELSE ClearPending(g, t)

\* Defect: only the timer Linux uses is looked at.
SampledVirtOnly(g) == DriveLine(g, Virt, clock)

\* advance_timers: sample the clock, and make each timer's line follow.
Sampled(g) == DriveLine(DriveLine(g, Virt, clock), Phys, clock)

\* The cadence of the sampling.
NextCounterOffByOne(c) == (c + 1) % (Interval + 1)  \* defect
NextCounterSaturates(c) == Min({c + 1, Interval - 1})  \* defect
NextCounter(c) == (c + 1) % Interval

\* DmaDevice::poll: serve the doorbell and raise the device's line.
Polled(g) == IF notified THEN SetPending(g, DmaIrq) ELSE g

IrqDeliverable(g) == ~ cpu.irq_masked /\ SignalsIrq(g)

\* Exception entry, as far as the loop sees it: mask and vector.  The saved
\* registers are not kept: the guest may write them before its ERET.
EnterEl1 == [cpu EXCEPT !.irq_masked = TRUE, !.pc = Vector]

-----------------------------------------------------------------------------
LoopInit ==
    /\ clock = 0 /\ at = "host" /\ stop = "none" /\ executed = 0
    /\ idle_until = None /\ timer_counter = 0
    /\ cpu = [irq_masked |-> TRUE, pc |-> Vector, wfi |-> FALSE, powered_off |-> FALSE]
    /\ timers = [t \in Timers |-> [enable |-> FALSE, imask |-> FALSE, cval |-> 0]]
    /\ gic = [GicReset EXCEPT !.dist_enabled = TRUE, !.cpu_enabled = TRUE,
                              !.pmr = IdlePrio, !.enabled = Irqs,
                              !.priority = GuestPrio]
    /\ notified = FALSE

Tick == /\ clock < MaxTime
        /\ clock' = clock + 1
        /\ UNCHANGED <<at, stop, executed, idle_until, timer_counter, cpu,
                       timers, gic, notified>>

\* The host (re-)enters run.
CallRun ==
    /\ at = "host"
    /\ at' = "top" /\ executed' = 0 /\ idle_until' = None /\ stop' = "none"
    /\ UNCHANGED <<clock, timer_counter, cpu, timers, gic, notified>>

Return(reason) == at' = "host" /\ stop' = reason

\* Defect: the count is checked before the power state.
StopCheckCountFirst ==
    CASE Count # 0 /\ executed >= Count -> "CountReached"
      [] cpu.powered_off /\ (Count = 0 \/ executed < Count) -> "PoweredOff"
      [] ~ cpu.powered_off /\ (Count = 0 \/ executed < Count) /\ cpu.pc = Until -> "UntilReached"
      [] OTHER -> "none"

\* The checks at the top of the loop, in the order of the code.
StopCheck ==
    CASE cpu.powered_off -> "PoweredOff"
      [] ~ cpu.powered_off /\ cpu.pc = Until -> "UntilReached"
      [] ~ cpu.powered_off /\ cpu.pc # Until /\ Count # 0 /\ executed >= Count -> "CountReached"
      [] OTHER -> "none"

StopAtTop ==
    /\ at = "top" /\ StopCheck # "none"
    /\ Return(StopCheck)
    /\ UNCHANGED <<clock, executed, idle_until, timer_counter, cpu, timers,
                   gic, notified>>

\* Sample and poll on the cadence, then take an IRQ if one is deliverable.
ServiceAsync ==
    /\ at = "top" /\ StopCheck = "none"
    /\ at' = "exec"
    /\ IF timer_counter = 0
       THEN gic' = Polled(Sampled(gic)) /\ notified' = FALSE
       ELSE UNCHANGED <<gic, notified>>
    /\ timer_counter' = NextCounter(timer_counter)
    /\ cpu' = IF IrqDeliverable(gic') THEN EnterEl1 ELSE cpu
    /\ UNCHANGED <<clock, stop, executed, idle_until, timers>>

-----------------------------------------------------------------------------
(* One guest instruction.  A plain instruction or a branch goes anywhere.  *)

Retire(c) == /\ at = "exec"
             /\ cpu' = c
             /\ executed' = executed + 1
             /\ at' = IF c.wfi THEN "wfi" ELSE "top"
             /\ UNCHANGED <<clock, stop, idle_until, timer_counter>>

ExecCpu ==
    /\ \E pc \in Pcs, masked \in BOOLEAN :
          \/ Retire([cpu EXCEPT !.pc = pc, !.irq_masked = masked])  \* MSR DAIF, ERET
          \/ Retire([cpu EXCEPT !.pc = pc, !.wfi = TRUE])           \* WFI, WFE
          \/ Retire([cpu EXCEPT !.pc = pc, !.powered_off = TRUE])   \* PSCI SYSTEM_OFF
          \/ Retire(EnterEl1)                          \* SVC, BRK, aborts, UNDEF
    /\ UNCHANGED <<timers, gic, notified>>

ExecTimer ==
    /\ \E pc \in Pcs : Retire([cpu EXCEPT !.pc = pc])
    /\ \E t \in Timers :
          \/ \E cval \in Cvals : timers' = [timers EXCEPT ![t].cval = cval]
          \/ \E enable, imask \in BOOLEAN :
                timers' = [timers EXCEPT ![t].enable = enable, ![t].imask = imask]
    /\ UNCHANGED <<gic, notified>>

ExecDevice ==
    /\ \E pc \in Pcs : Retire([cpu EXCEPT !.pc = pc])
    /\ \/ gic' = Acknowledge(gic) /\ UNCHANGED notified
       \/ \E id \in gic.active : gic' = EndOfInterrupt(gic, id) /\ UNCHANGED notified
       \/ notified' = TRUE /\ UNCHANGED gic
    /\ UNCHANGED timers

\* undef_to_guest is off: run returns before it counts the instruction.
StopUnsupported ==
    /\ at = "exec"
    /\ Return("Unsupported")
    /\ UNCHANGED <<clock, executed, idle_until, timer_counter, cpu, timers,
                   gic, notified>>

Exec == ExecCpu \/ ExecTimer \/ ExecDevice \/ StopUnsupported

-----------------------------------------------------------------------------
(* Guest idle: the instruction just retired was WFI or WFE. *)

\* An IRQ is deliverable already; or note_idle's sample made one pending.
StayAwake ==
    /\ at = "wfi"
    /\ cpu' = [cpu EXCEPT !.wfi = FALSE]
    /\ \/ IrqDeliverable(gic) /\ UNCHANGED gic
       \/ /\ ~ IrqDeliverable(gic)
          /\ gic' = Sampled(gic)
          /\ SignalsIrq(gic')
    /\ at' = "top"
    /\ UNCHANGED <<clock, stop, executed, idle_until, timer_counter, timers, notified>>

NothingPending ==
    /\ at = "wfi"
    /\ cpu' = [cpu EXCEPT !.wfi = FALSE]
    /\ ~ IrqDeliverable(gic)
    /\ gic' = Sampled(gic)
    /\ ~ SignalsIrq(gic')
    /\ at' = "idle"
    /\ UNCHANGED <<clock, stop, executed, idle_until, timer_counter, timers, notified>>

\* Defect: the deadline of the timers is ignored.
IdleTargetCap == clock + IdleCap

\* note_idle after its second read of the clock.
IdleTarget ==
    LET cap == clock + IdleCap
    IN  IF NextDeadline = None THEN cap ELSE Min({NextDeadline, cap})

DeadlinePassed == NextDeadline # None /\ NextDeadline <= clock

NoteIdle ==
    /\ at = "idle"
    /\ \/ DeadlinePassed /\ at' = "top" /\ UNCHANGED <<idle_until, timer_counter, stop>>
       \/ /\ ~ DeadlinePassed
          /\ idle_until' = IdleTarget /\ timer_counter' = 0
          /\ Return("CountReached")
    /\ UNCHANGED <<clock, executed, cpu, timers, gic, notified>>

-----------------------------------------------------------------------------
Run == \/ CallRun \/ StopAtTop \/ ServiceAsync \/ Exec
       \/ StayAwake \/ NothingPending \/ NoteIdle

LoopNext == Tick \/ Run

LoopSpec == LoopInit /\ [][LoopNext]_loop_vars

\* The host's loop calls run for ever, run is a terminating loop body, and
\* time passes.
LoopFairSpec == LoopSpec /\ WF_loop_vars(Run) /\ WF_loop_vars(Tick)

-----------------------------------------------------------------------------
(* Properties *)

\* Every field keeps its type; the sampling counter stays below the interval.
LoopTypeOK ==
    /\ clock \in Ticks
    /\ at \in {"host", "top", "exec", "wfi", "idle"}
    /\ stop \in StopReasons /\ executed \in Nat
    /\ idle_until \in Nat \cup {None} /\ timer_counter \in 0 .. Interval - 1
    /\ cpu \in Cpu /\ timers \in [Timers -> Timer]
    /\ gic \in GicType /\ notified \in BOOLEAN

\* The guest never sleeps through an interrupt: while the machine is idle the
\* IRQ line is down, no enabled timer is due before the tick it resumes at,
\* that tick is at most one slice away, and the first instruction after it
\* samples the clock.  note_idle decides this from two reads of the clock,
\* between which a deadline may pass.
NoOversleep ==
    idle_until # None =>
        /\ ~ SignalsIrq(gic)
        /\ \A t \in Armed : idle_until <= timers[t].cval
        /\ idle_until <= clock + IdleCap
        /\ timer_counter = 0

\* The reason `run` returns is true of the machine it leaves.
StopReasonTrue ==
    at = "host" =>
        /\ stop = "PoweredOff" => cpu.powered_off
        /\ stop = "UntilReached" => cpu.pc = Until
        /\ stop = "CountReached" => idle_until # None \/ executed = Count
        /\ stop # "CountReached" => idle_until = None
        /\ cpu.powered_off => stop = "PoweredOff"
        /\ ~ cpu.wfi

\* A timer that is due and whose interrupt nothing blocks is delivered, however
\* the guest idles, unless the guest disarms it, masks interrupts or stops.
Halted == cpu.powered_off \/ cpu.pc = Until
DueAndOpen(t) == Fires(t, clock) /\ ~ cpu.irq_masked /\ gic.running = << >>
TimerDelivered == \A t \in Timers : DueAndOpen(t) ~> (~ DueAndOpen(t) \/ Halted)

\* A doorbell is served in the end, even if the guest goes to sleep on it.
DoorbellServed == notified ~> (~ notified \/ Halted)
=============================================================================
