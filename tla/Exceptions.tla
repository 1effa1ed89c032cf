----------------------------- MODULE Exceptions -----------------------------
(***************************************************************************)
(* Exception entry and return (crates/interp/src/exception.rs), the banked *)
(* stack pointers and the exclusive monitor (crates/cpu/src/state.rs) and  *)
(* the exclusive loads and stores (crates/interp/src/ldst/excl.rs), under  *)
(* a guest kernel that is interrupted anywhere, nests and switches tasks.  *)
(*                                                                         *)
(* The tasks increment counters in memory with LDXR/STXR; the kernel also  *)
(* does, with plain stores.  One register, x, stands for those the kernel  *)
(* saves; a stack pointer is whose stack it points into, and how deep.     *)
(***************************************************************************)
EXTENDS Integers, SequencesExt

CONSTANTS
    Tasks, Kernel,   \* owners of stacks
    Addrs,           \* the counters
    None,            \* the monitor is not armed
    MaxNest,         \* bound: exceptions taken from the kernel nest this deep
    MaxCount         \* bound: a counter is not incremented beyond this

ASSUME ExceptionsAssumption ==
    /\ Kernel \notin Tasks /\ Tasks # {} /\ Addrs # {}
    /\ MaxNest \in Nat \ {0} /\ MaxCount \in Nat
    /\ None \notin [addr: Addrs, val: 0 .. MaxCount]

UserPcs == {"ldxr", "stxr"}
Vectors == {"same_el_sp0", "same_el", "lower_el"}   \* VBAR + 0x000, 0x200, 0x400
KernelPcs == Vectors \cup {"kernel", "eret"}
Pcs == UserPcs \cup KernelPcs

Sp == [of: Tasks \cup {Kernel}, depth: 0 .. MaxNest]
Word == [addr: Addrs, val: 0 .. MaxCount]
Pstate == [el: {0, 1}, spsel: BOOLEAN, masked: BOOLEAN]
Frame == [elr: Pcs, spsr: Pstate, sp0: Sp, x: Word]
Cpu == [el: {0, 1}, spsel: BOOLEAN, masked: BOOLEAN, sp: Sp, sp_el: [{0, 1} -> Sp],
        pc: Pcs, elr: Pcs, spsr: Pstate, x: Word, excl: Word \cup {None}]

VARIABLES
    cpu,
    mem,        \* the counters
    frames,     \* the kernel's stack: the state each live exception saved
    tasks,      \* saved state of the tasks that do not run
    current,    \* the task that does
    shown,      \* history: what each task last saw of itself
    counted,    \* history: increments made of each counter
    armed_by    \* history: the task whose LDXR armed the monitor

guest == <<mem, frames, tasks, current>>
history == <<shown, counted, armed_by>>
vars == <<cpu, guest, history>>

-----------------------------------------------------------------------------
(* CpuState *)

SpIndex(el, spsel) == IF spsel THEN el ELSE 0

\* Defect: the outgoing stack pointer is not saved.
SetElSpselNoSave(c, el, spsel) ==
    LET new == SpIndex(el, spsel)
    IN  IF SpIndex(c.el, c.spsel) = new THEN [c EXCEPT !.el = el, !.spsel = spsel]
        ELSE [c EXCEPT !.el = el, !.spsel = spsel, !.sp = c.sp_el[new]]

\* Defect: the new stack pointer is loaded before the old one is saved.
SetElSpselLoadFirst(c, el, spsel) ==
    LET old == SpIndex(c.el, c.spsel)
        new == SpIndex(el, spsel)
    IN  IF old = new THEN [c EXCEPT !.el = el, !.spsel = spsel]
        ELSE [c EXCEPT !.el = el, !.spsel = spsel,
                       !.sp_el[old] = c.sp_el[new], !.sp = c.sp_el[new]]

SetElSpsel(c, el, spsel) ==
    LET old == SpIndex(c.el, c.spsel)
        new == SpIndex(el, spsel)
    IN  IF old = new THEN [c EXCEPT !.el = el, !.spsel = spsel]
        ELSE [c EXCEPT !.el = el, !.spsel = spsel,
                       !.sp_el[old] = c.sp, !.sp = c.sp_el[new]]

ReadSpEl(c, i) == IF i = SpIndex(c.el, c.spsel) THEN c.sp ELSE c.sp_el[i]

WriteSpEl(c, i, v) ==
    IF i = SpIndex(c.el, c.spsel) THEN [c EXCEPT !.sp = v] ELSE [c EXCEPT !.sp_el[i] = v]

PstateOf(c) == [el |-> c.el, spsel |-> c.spsel, masked |-> c.masked]
SetPstate(c, p) == SetElSpsel([c EXCEPT !.masked = p.masked], p.el, p.spsel)

-----------------------------------------------------------------------------
(* Exception entry and return *)

VectorOf(c) == IF c.el < 1 THEN "lower_el" ELSE IF c.spsel THEN "same_el" ELSE "same_el_sp0"

\* Defect: SPSel is left as it was.
EnterEl1KeepsSpsel(c) ==
    [SetElSpsel([c EXCEPT !.elr = c.pc, !.spsr = PstateOf(c)], 1, c.spsel)
        EXCEPT !.masked = TRUE, !.pc = VectorOf(c)]

\* SPSR is the PSTATE from before the switch; so is the vector's group.
EnterEl1(c) ==
    [SetElSpsel([c EXCEPT !.elr = c.pc, !.spsr = PstateOf(c)], 1, TRUE)
        EXCEPT !.masked = TRUE, !.pc = VectorOf(c)]

EretOf(c) == [SetPstate(c, c.spsr) EXCEPT !.pc = c.elr]

-----------------------------------------------------------------------------
(* The exclusive monitor *)

LoadExcl(c, a) ==
    LET loaded == [addr |-> a, val |-> mem[a]]
    IN  [c EXCEPT !.excl = loaded, !.x = loaded]

\* Defect: only the address is compared.
StoreSucceedsNoValue(c) == c.excl # None /\ c.excl.addr = c.x.addr

\* Armed for this address, and memory still holds the value.
StoreSucceeds(c) == c.excl # None /\ c.excl = [addr |-> c.x.addr, val |-> mem[c.x.addr]]

StoreExcl(c) == [c EXCEPT !.excl = None]

-----------------------------------------------------------------------------
(* Actions *)

Seen(c) == [pc |-> c.pc, sp |-> c.sp, x |-> c.x, pstate |-> PstateOf(c)]

Fresh(t) == [elr |-> "ldxr", spsr |-> [el |-> 0, spsel |-> FALSE, masked |-> FALSE],
             sp0 |-> [of |-> t, depth |-> 0],
             x |-> [addr |-> CHOOSE a \in Addrs : TRUE, val |-> 0]]

Init ==
    /\ current \in Tasks
    /\ tasks = [t \in Tasks |-> Fresh(t)]
    /\ cpu = [el |-> 0, spsel |-> FALSE, masked |-> FALSE,
              sp |-> Fresh(current).sp0,
              sp_el |-> [i \in {0, 1} |-> [of |-> Kernel, depth |-> 0]],
              pc |-> "ldxr", elr |-> "ldxr", spsr |-> Fresh(current).spsr,
              x |-> Fresh(current).x, excl |-> None]
    /\ mem = [a \in Addrs |-> 0] /\ frames = << >>
    /\ shown = [t \in Tasks |-> [pc |-> "ldxr", sp |-> Fresh(t).sp0, x |-> Fresh(t).x,
                                 pstate |-> Fresh(t).spsr]]
    /\ counted = [a \in Addrs |-> 0] /\ armed_by = None

UserStep(c) == /\ cpu.el = 0
               /\ cpu' = c
               /\ shown' = [shown EXCEPT ![current] = Seen(c)]
               /\ UNCHANGED <<frames, tasks, current>>

UserLdxr ==
    /\ cpu.pc = "ldxr"
    /\ \E a \in Addrs : UserStep([LoadExcl(cpu, a) EXCEPT !.pc = "stxr"])
    /\ armed_by' = current
    /\ UNCHANGED <<mem, counted>>

UserStxr ==
    /\ cpu.pc = "stxr"
    /\ UserStep([StoreExcl(cpu) EXCEPT !.pc = "ldxr"])
    /\ IF StoreSucceeds(cpu)
       THEN /\ counted[cpu.x.addr] < MaxCount
            /\ mem' = [mem EXCEPT ![cpu.x.addr] = cpu.x.val + 1]
            /\ counted' = [counted EXCEPT ![cpu.x.addr] = @ + 1]
       ELSE UNCHANGED <<mem, counted>>
    /\ armed_by' = None

UserMoveSp == /\ UserStep([cpu EXCEPT !.sp.depth = 1 - @])
              /\ UNCHANGED <<mem, counted, armed_by>>

\* SVC, BRK, UNDEF or an abort of a task; an IRQ wherever it is not masked.
TakeException ==
    /\ cpu.el = 0 \/ ~ cpu.masked
    /\ Len(frames) < MaxNest
    /\ cpu' = EnterEl1(cpu)
    /\ UNCHANGED <<guest, history>>

-----------------------------------------------------------------------------
(* The guest kernel *)

Kernelly(c) == cpu.el = 1 /\ cpu' = c /\ UNCHANGED history

KernelSave ==
    /\ cpu.pc \in Vectors
    /\ frames' = Append(frames, [elr |-> cpu.elr, spsr |-> cpu.spsr,
                                 sp0 |-> ReadSpEl(cpu, 0), x |-> cpu.x])
    /\ Kernelly([cpu EXCEPT !.pc = "kernel", !.sp.depth = @ + 1])
    /\ UNCHANGED <<mem, tasks, current>>

\* MSR DAIFSet, DAIFClr and SPSel.
KernelMsr ==
    /\ cpu.pc = "kernel"
    /\ \/ Kernelly([cpu EXCEPT !.masked = ~ @])
       \/ Kernelly(SetElSpsel(cpu, cpu.el, ~ cpu.spsel))
    /\ UNCHANGED guest

\* A plain load, add and store, with interrupts masked.
KernelCount ==
    /\ cpu.el = 1 /\ cpu.pc = "kernel" /\ cpu.masked
    /\ \E a \in Addrs :
          /\ counted[a] < MaxCount
          /\ mem' = [mem EXCEPT ![a] = @ + 1]
          /\ counted' = [counted EXCEPT ![a] = @ + 1]
    /\ UNCHANGED <<cpu, frames, tasks, current, shown, armed_by>>

KernelSwitch ==
    /\ cpu.el = 1 /\ cpu.pc = "kernel" /\ cpu.masked /\ Len(frames) = 1
    /\ \E t \in Tasks \ {current} :
          /\ tasks' = [tasks EXCEPT ![current] = Last(frames)]
          /\ frames' = <<tasks[t]>>
          /\ current' = t
    /\ UNCHANGED <<cpu, mem, history>>

KernelRestore ==
    /\ cpu.pc = "kernel" /\ cpu.masked /\ cpu.spsel
    /\ LET f == Last(frames)
           c == WriteSpEl(cpu, 0, f.sp0)
       IN  Kernelly([c EXCEPT !.pc = "eret", !.elr = f.elr, !.spsr = f.spsr, !.x = f.x,
                              !.sp.depth = @ - 1])
    /\ frames' = Front(frames)
    /\ UNCHANGED <<mem, tasks, current>>

Eret == /\ cpu.pc = "eret"
        /\ Kernelly(EretOf(cpu))
        /\ UNCHANGED guest

User == UserLdxr \/ UserStxr \/ UserMoveSp
KernelStep == KernelSave \/ KernelMsr \/ KernelCount \/ KernelSwitch \/ KernelRestore \/ Eret

Next == User \/ TakeException \/ KernelStep

Spec == Init /\ [][Next]_vars

-----------------------------------------------------------------------------
(* Properties *)

\* Each field keeps its type.
TypeOK ==
    /\ cpu \in Cpu /\ mem \in [Addrs -> 0 .. MaxCount] /\ current \in Tasks
    /\ frames \in Seq(Frame) /\ tasks \in [Tasks -> Frame]

\* A task never notices that it was interrupted: whenever it runs, its program
\* counter, stack pointer, register and PSTATE are as it left them, whatever
\* exceptions nested on it, whichever stack pointer the kernel selected, and
\* whatever other task ran.
TaskIntact == cpu.el = 0 => Seen(cpu) = shown[current]

\* On SP_EL1 the kernel finds its own stack, as deep as the exceptions it has
\* saved: entering or leaving EL1 neither loses nor swaps a bank.
KernelStackIntact ==
    LET sp1 == ReadSpEl(cpu, 1)
    IN  sp1 = [of |-> Kernel, depth |-> Len(frames)]

\* An STXR that succeeds on the monitor its own task armed writes the successor
\* of what the counter holds, although an exception, a store of the kernel or a
\* switch to another task and back may have fallen between LDXR and STXR.
OwnStoreAtomic ==
    [][UserStxr /\ StoreSucceeds(cpu) /\ armed_by = current
         => mem[cpu.x.addr] = cpu.x.val]_vars

\* The doc of STXR: "store iff the monitor is still armed for this address and
\* memory is unchanged (an intervening write changes the value and fails the
\* store)" -- then no increment is ever lost.  The counters never return to an
\* earlier value.
NoLostUpdate == \A a \in Addrs : mem[a] = counted[a]
=============================================================================
