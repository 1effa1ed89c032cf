-------------------------- MODULE ExceptionsProofs --------------------------
(***************************************************************************)
(* Machine-checked proofs about exception entry and return, the banked     *)
(* stack pointers and the exclusive monitor, for every number of tasks and *)
(* counters and exceptions nested to any depth.                            *)
(***************************************************************************)
EXTENDS Exceptions, TLAPS, SequenceTheorems

-----------------------------------------------------------------------------
(* The inductive invariant *)

\* How a task last saw itself: in EL0, on its own shallow stack.
UserView == [pc: UserPcs, sp: [of: Tasks \cup {Kernel}, depth: {0, 1}], x: Word,
             pstate: {[el |-> 0, spsel |-> FALSE, masked |-> FALSE]}]

\* A saved frame is the task as it last saw itself.
Shows(f, t) == [pc |-> f.elr, sp |-> f.sp0, x |-> f.x, pstate |-> f.spsr] = shown[t]

\* The outermost frame is the running task's; an inner one is the kernel's,
\* interrupted where it had opened interrupts.
FrameAt(k, f) ==
    /\ f \in Frame
    /\ k = 1 => Shows(f, current)
    /\ k > 1 => f.elr = "kernel" /\ f.spsr.el = 1 /\ ~ f.spsr.masked

\* What the kernel must save, or is about to return to.
Interrupted == [elr |-> cpu.elr, spsr |-> cpu.spsr, sp0 |-> ReadSpEl(cpu, 0), x |-> cpu.x]

\* The frames are a chain that starts at the running task, and the registers
\* extend it while they hold a context that is not on the stack.
Chained ==
    /\ Len(frames) <= MaxNest
    /\ \A k \in 1 .. Len(frames) : FrameAt(k, frames[k])
    /\ cpu.pc \in Vectors \cup {"eret"} =>
          /\ cpu.el = 1 /\ cpu.masked /\ cpu.spsel
          /\ Len(frames) < MaxNest
          /\ FrameAt(Len(frames) + 1, Interrupted)
    /\ cpu.pc = "kernel" => cpu.el = 1 /\ frames # << >>
    /\ cpu.pc \in UserPcs => cpu.el = 0
    /\ cpu.el = 0 => cpu.pc \in UserPcs /\ frames = << >>

\* The tasks that wait are saved as they last saw themselves.
SwitchedOut == \A t \in Tasks \ {current} : Shows(tasks[t], t)

\* The monitor holds what the task that armed it still has in its register.
Armed == cpu.excl # None => armed_by \in Tasks /\ shown[armed_by].x = cpu.excl

\* No counter, and no value a task loaded from it, is ahead of the increments.
Counted ==
    /\ counted \in [Addrs -> 0 .. MaxCount]
    /\ \A a \in Addrs : mem[a] <= counted[a]
    /\ \A t \in Tasks : shown[t].x.val <= counted[shown[t].x.addr]

IInv ==
    /\ TypeOK /\ shown \in [Tasks -> UserView]
    /\ Chained /\ SwitchedOut /\ Armed /\ Counted
    /\ TaskIntact /\ KernelStackIntact

-----------------------------------------------------------------------------
(* The banked stack pointers *)

\* The registers that neither the banks nor the mask belong to.
SameRest(c, d) == /\ d.pc = c.pc /\ d.elr = c.elr /\ d.spsr = c.spsr
                  /\ d.x = c.x /\ d.excl = c.excl

\* The CPU d is the CPU c at another level and selection.
BanksKept(c, d, el, spsel) ==
    /\ d \in Cpu /\ SameRest(c, d)
    /\ d.el = el /\ d.spsel = spsel /\ d.masked = c.masked
    /\ \A i \in {0, 1} : ReadSpEl(d, i) = ReadSpEl(c, i)

(* set_el_spsel selects a bank and changes none: each stack pointer reads   *)
(* the same before and after, whichever of them was live.                   *)
LEMMA SwitchKeepsBanks ==
    ASSUME NEW c \in Cpu, NEW el \in {0, 1}, NEW spsel \in BOOLEAN
    PROVE  BanksKept(c, SetElSpsel(c, el, spsel), el, spsel)
<1> DEFINE d == SetElSpsel(c, el, spsel)
           old == SpIndex(c.el, c.spsel)
           new == SpIndex(el, spsel)
<1> SUFFICES /\ d \in Cpu /\ SameRest(c, d)
             /\ d.el = el /\ d.spsel = spsel /\ d.masked = c.masked
             /\ \A i \in {0, 1} : ReadSpEl(d, i) = ReadSpEl(c, i)
  BY Zenon DEF BanksKept
<1>1. old \in {0, 1} /\ new \in {0, 1} /\ c.sp \in Sp /\ c.sp_el \in [{0, 1} -> Sp]
  BY DEF SpIndex, Cpu
<1>2. CASE old = new
  <2>1. d = [c EXCEPT !.el = el, !.spsel = spsel]
    BY <1>2 DEF SetElSpsel
  <2>2. /\ d \in Cpu /\ SameRest(c, d)
        /\ d.el = el /\ d.spsel = spsel /\ d.masked = c.masked
        /\ d.sp = c.sp /\ d.sp_el = c.sp_el
    <3> HIDE DEF d
    <3> QED BY <2>1 DEF Cpu, SameRest
  <2>3. \A i \in {0, 1} : ReadSpEl(d, i) = ReadSpEl(c, i)
    <3> HIDE DEF d
    <3> QED BY <1>2, <2>2 DEF ReadSpEl
  <2> QED BY <2>2, <2>3
<1>3. CASE old # new
  <2> DEFINE banks == [c.sp_el EXCEPT ![old] = c.sp]
  <2>1. d = [c EXCEPT !.el = el, !.spsel = spsel, !.sp_el = banks, !.sp = c.sp_el[new]]
    BY <1>3 DEF SetElSpsel
  <2>2. banks \in [{0, 1} -> Sp] /\ banks[old] = c.sp /\ banks[new] = c.sp_el[new]
    BY <1>1, <1>3
  <2> HIDE DEF banks, old, new
  <2>3. /\ d \in Cpu /\ SameRest(c, d)
        /\ d.el = el /\ d.spsel = spsel /\ d.masked = c.masked
        /\ d.sp = c.sp_el[new] /\ d.sp_el = banks
    <3> HIDE DEF d
    <3> QED BY <1>1, <2>1, <2>2 DEF Cpu, SameRest
  <2>4. \A i \in {0, 1} : i = old \/ i = new
    BY <1>1, <1>3
  <2>5. \A i \in {0, 1} : ReadSpEl(d, i) = ReadSpEl(c, i)
    <3> HIDE DEF d
    <3> QED BY <1>3, <2>2, <2>3, <2>4 DEF ReadSpEl, old, new
  <2> QED BY <2>3, <2>5
<1> QED BY <1>2, <1>3

(* The live stack pointer is the bank that EL and SPSel select.             *)
LEMMA LiveBank ==
    ASSUME NEW c \in Cpu
    PROVE  /\ c.sp = ReadSpEl(c, SpIndex(c.el, c.spsel))
           /\ \A i \in {0, 1} : ReadSpEl(c, i) \in Sp
BY DEF ReadSpEl, Cpu

(* Entry saves the interrupted context and selects SP_EL1.                  *)
LEMMA EnterFacts ==
    ASSUME NEW c \in Cpu, c.pc \in Pcs
    PROVE  LET d == EnterEl1(c)
           IN  /\ d \in Cpu /\ d.el = 1 /\ d.spsel = TRUE /\ d.masked = TRUE
               /\ d.pc \in Vectors /\ d.elr = c.pc /\ d.spsr = PstateOf(c)
               /\ d.x = c.x /\ d.excl = c.excl
               /\ \A i \in {0, 1} : ReadSpEl(d, i) = ReadSpEl(c, i)
<1> DEFINE b == [c EXCEPT !.elr = c.pc, !.spsr = PstateOf(c)]
           e == SetElSpsel(b, 1, TRUE)
           d == EnterEl1(c)
<1>1. /\ b \in Cpu /\ b.elr = c.pc /\ b.spsr = PstateOf(c) /\ b.x = c.x /\ b.excl = c.excl
      /\ b.el = c.el /\ b.spsel = c.spsel /\ b.sp = c.sp /\ b.sp_el = c.sp_el
  <2>1. PstateOf(c) \in Pstate
    BY DEF PstateOf, Cpu, Pstate
  <2> QED BY <2>1 DEF Cpu
<1> HIDE DEF b
<1>2. /\ e \in Cpu /\ SameRest(b, e) /\ e.el = 1 /\ e.spsel = TRUE
      /\ \A i \in {0, 1} : ReadSpEl(e, i) = ReadSpEl(b, i)
  BY <1>1, SwitchKeepsBanks DEF BanksKept
<1> HIDE DEF e
<1>3. VectorOf(c) \in Vectors
  BY DEF VectorOf, Vectors
<1>4. d = [e EXCEPT !.masked = TRUE, !.pc = VectorOf(c)]
  BY DEF EnterEl1, e, b
<1> HIDE DEF d
<1>5. /\ d \in Cpu /\ d.masked = TRUE /\ d.pc \in Vectors /\ d.elr = e.elr
      /\ d.spsr = e.spsr /\ d.x = e.x /\ d.excl = e.excl
      /\ d.el = e.el /\ d.spsel = e.spsel /\ d.sp = e.sp /\ d.sp_el = e.sp_el
  BY <1>2, <1>3, <1>4 DEF Cpu, Pcs, KernelPcs
<1>6. \A i \in {0, 1} : ReadSpEl(d, i) = ReadSpEl(e, i) /\ ReadSpEl(b, i) = ReadSpEl(c, i)
  BY <1>1, <1>5 DEF ReadSpEl
<1> QED BY <1>1, <1>2, <1>5, <1>6 DEF SameRest, d

(* ERET restores PSTATE and the program counter, and changes no bank.       *)
LEMMA EretFacts ==
    ASSUME NEW c \in Cpu
    PROVE  LET d == EretOf(c)
           IN  /\ d \in Cpu /\ PstateOf(d) = c.spsr
               /\ d.el = c.spsr.el /\ d.spsel = c.spsr.spsel /\ d.masked = c.spsr.masked
               /\ d.pc = c.elr /\ d.x = c.x /\ d.excl = c.excl
               /\ \A i \in {0, 1} : ReadSpEl(d, i) = ReadSpEl(c, i)
<1> DEFINE b == [c EXCEPT !.masked = c.spsr.masked]
           e == SetElSpsel(b, c.spsr.el, c.spsr.spsel)
           d == EretOf(c)
<1>1. c.spsr \in Pstate /\ c.elr \in Pcs
  BY DEF Cpu
<1>2. /\ b \in Cpu /\ b.masked = c.spsr.masked /\ b.x = c.x /\ b.excl = c.excl
      /\ b.el = c.el /\ b.spsel = c.spsel /\ b.sp = c.sp /\ b.sp_el = c.sp_el
  BY <1>1 DEF Cpu, Pstate
<1> HIDE DEF b
<1>3. /\ e \in Cpu /\ SameRest(b, e) /\ e.el = c.spsr.el /\ e.spsel = c.spsr.spsel
      /\ e.masked = b.masked
      /\ \A i \in {0, 1} : ReadSpEl(e, i) = ReadSpEl(b, i)
  <2>1. c.spsr.el \in {0, 1} /\ c.spsr.spsel \in BOOLEAN
    BY <1>1 DEF Pstate
  <2> QED BY <1>2, <2>1, SwitchKeepsBanks DEF BanksKept
<1> HIDE DEF e
<1>4. d = [e EXCEPT !.pc = c.elr]
  BY DEF EretOf, SetPstate, e, b
<1> HIDE DEF d
<1>5. /\ d \in Cpu /\ d.pc = c.elr /\ d.x = e.x /\ d.excl = e.excl /\ d.masked = e.masked
      /\ d.el = e.el /\ d.spsel = e.spsel /\ d.sp = e.sp /\ d.sp_el = e.sp_el
  BY <1>1, <1>3, <1>4 DEF Cpu
<1>6. \A i \in {0, 1} : ReadSpEl(d, i) = ReadSpEl(e, i) /\ ReadSpEl(b, i) = ReadSpEl(c, i)
  BY <1>2, <1>5 DEF ReadSpEl
<1>7. PstateOf(d) = c.spsr
  BY <1>1, <1>2, <1>3, <1>5 DEF PstateOf, Pstate
<1> QED BY <1>2, <1>3, <1>5, <1>6, <1>7 DEF SameRest, d

(* The innermost frame, and what is left without it.                        *)
LEMMA PopFacts ==
    ASSUME NEW s \in Seq(Frame), s # << >>
    PROVE  /\ Len(s) \in Nat \ {0} /\ Last(s) = s[Len(s)] /\ Last(s) \in Frame
           /\ Front(s) \in Seq(Frame) /\ Len(Front(s)) = Len(s) - 1
           /\ \A k \in 1 .. Len(s) - 1 : Front(s)[k] = s[k]
<1>1. Len(s) \in Nat \ {0} /\ \A i \in 1 .. Len(s) : s[i] \in Frame
  OBVIOUS
<1>2. Last(s) = s[Len(s)]
  BY DEF Last
<1>3. \A i \in 1 .. Len(s) - 1 : s[i] \in Frame
  BY <1>1
<1>4. /\ Front(s) \in Seq(Frame) /\ Len(Front(s)) = Len(s) - 1
      /\ \A k \in 1 .. Len(s) - 1 : Front(s)[k] = s[k]
  <2> DEFINE n == Len(s) - 1
             q == SubSeq(s, 1, n)
  <2>1. n \in Nat /\ Front(s) = q
    BY <1>1 DEF Front
  <2> HIDE DEF n
  <2>2. \A i \in 1 .. n : s[i] \in Frame
    BY <1>3 DEF n
  <2>3. /\ q \in Seq(Frame)
        /\ Len(q) = IF 1 <= n THEN n - 1 + 1 ELSE 0
        /\ \A i \in 1 .. n - 1 + 1 : q[i] = s[1 + i - 1]
    BY <2>1, <2>2, SubSeqProperties
  <2> HIDE DEF q
  <2>4. Len(q) = n
    BY <2>1, <2>3
  <2>5. ASSUME NEW i \in 1 .. n PROVE q[i] = s[i]
    <3>1. i \in 1 .. n - 1 + 1 /\ 1 + i - 1 = i
      BY <2>1
    <3> QED BY <2>3, <3>1
  <2> QED BY <2>1, <2>3, <2>4, <2>5 DEF n
<1> QED BY <1>1, <1>2, <1>4

-----------------------------------------------------------------------------
(* The steps *)

LEMMA InitInv == ASSUME Init PROVE IInv
<1>1. \A t \in Tasks : Fresh(t) \in Frame
  BY ExceptionsAssumption DEF Fresh, Frame, Pcs, UserPcs, Pstate, Sp, Word
<1>2. /\ cpu \in Cpu /\ cpu.el = 0 /\ cpu.spsel = FALSE /\ cpu.pc = "ldxr" /\ cpu.excl = None
      /\ ReadSpEl(cpu, 1) = [of |-> Kernel, depth |-> 0]
      /\ Seen(cpu) = [pc |-> "ldxr", sp |-> Fresh(current).sp0, x |-> Fresh(current).x,
                      pstate |-> Fresh(current).spsr]
  <2>1. [of |-> Kernel, depth |-> 0] \in Sp
    BY ExceptionsAssumption DEF Sp
  <2>2. current \in Tasks /\ Fresh(current) \in Frame
    BY <1>1 DEF Init
  <2>3. "ldxr" \in Pcs
    BY DEF Pcs, UserPcs
  <2>4. cpu \in Cpu
    BY <2>1, <2>2, <2>3 DEF Init, Cpu, Frame
  <2>5. Fresh(current).spsr = [el |-> 0, spsel |-> FALSE, masked |-> FALSE]
    BY DEF Fresh
  <2> QED BY <2>4, <2>5 DEF Init, ReadSpEl, SpIndex, Seen, PstateOf
<1>3. \A t \in Tasks : /\ shown[t] \in UserView /\ Shows(Fresh(t), t)
                       /\ shown[t].x \in Word /\ shown[t].x.val = 0
  BY ExceptionsAssumption DEF Init, UserView, Shows, Fresh, UserPcs, Word
<1>4. TypeOK /\ Counted
  <2>1. [a \in Addrs |-> 0] \in [Addrs -> 0 .. MaxCount] /\ << >> \in Seq(Frame)
    BY ExceptionsAssumption
  <2>2. [t \in Tasks |-> Fresh(t)] \in [Tasks -> Frame]
    BY <1>1
  <2>3. \A t \in Tasks : counted[shown[t].x.addr] = 0
    BY <1>3 DEF Init, Word
  <2> QED BY <1>2, <1>3, <2>1, <2>2, <2>3 DEF TypeOK, Counted, Init
<1>5. Chained /\ SwitchedOut /\ Armed
  BY <1>2, <1>3, ExceptionsAssumption DEF Chained, SwitchedOut, Armed, Init, UserPcs, Vectors
<1>6. TaskIntact /\ KernelStackIntact
  BY <1>2 DEF TaskIntact, KernelStackIntact, Init
<1>7. shown \in [Tasks -> UserView]
  BY <1>3 DEF Init
<1> QED BY <1>4, <1>5, <1>6, <1>7 DEF IInv

(* A step of a task moves its own registers and its own view of them.       *)
LEMMA UserStepInv ==
    ASSUME IInv, NEW c \in Cpu, UserStep(c),
           c.el = 0, c.spsel = cpu.spsel, c.masked = cpu.masked,
           c.pc \in UserPcs, c.sp.depth \in {0, 1}, c.sp_el = cpu.sp_el
    PROVE  /\ cpu' \in Cpu /\ current' \in Tasks
           /\ frames' \in Seq(Frame) /\ tasks' \in [Tasks -> Frame]
           /\ shown' \in [Tasks -> UserView]
           /\ shown' = [shown EXCEPT ![current] = Seen(c)]
           /\ Chained' /\ SwitchedOut' /\ TaskIntact' /\ KernelStackIntact'
<1>1. /\ cpu' = c /\ frames' = frames /\ tasks' = tasks /\ current' = current
      /\ shown' = [shown EXCEPT ![current] = Seen(c)] /\ cpu.el = 0
  BY DEF UserStep
<1>2. /\ cpu \in Cpu /\ current \in Tasks /\ frames \in Seq(Frame)
      /\ tasks \in [Tasks -> Frame] /\ shown \in [Tasks -> UserView]
  BY DEF IInv, TypeOK
<1>3. frames = << >> /\ cpu.pc \in UserPcs /\ Seen(cpu) = shown[current]
  BY <1>1 DEF IInv, Chained, TaskIntact
<1>4. Seen(c) \in UserView
  <2>1. PstateOf(c) = PstateOf(cpu)
    BY <1>1 DEF PstateOf
  <2>2. PstateOf(cpu) = [el |-> 0, spsel |-> FALSE, masked |-> FALSE]
    <3>1. Seen(cpu).pstate = PstateOf(cpu) /\ shown[current] \in UserView
      BY <1>2 DEF Seen
    <3> QED BY <1>3, <3>1 DEF UserView
  <2>3. c.sp \in [of: Tasks \cup {Kernel}, depth: {0, 1}] /\ c.x \in Word
    <3>1. c.sp \in Sp /\ c.x \in Word
      BY DEF Cpu
    <3> QED BY <3>1 DEF Sp
  <2> QED BY <2>1, <2>2, <2>3 DEF UserView, Seen
<1>5. shown' \in [Tasks -> UserView] /\ shown'[current] = Seen(c)
  BY <1>1, <1>2, <1>4
<1>6. Chained'
  BY <1>1, <1>3, ExceptionsAssumption DEF Chained, UserPcs, Vectors
<1>7. SwitchedOut'
  BY <1>1, <1>2 DEF SwitchedOut, Shows, IInv
<1>8. TaskIntact'
  BY <1>1, <1>5 DEF TaskIntact
<1>9. KernelStackIntact'
  BY <1>1 DEF KernelStackIntact, ReadSpEl, SpIndex, IInv
<1> QED BY <1>1, <1>2, <1>5, <1>6, <1>7, <1>8, <1>9

(* In EL0 the registers are what the task last saw.                         *)
LEMMA UserFacts ==
    ASSUME IInv, cpu.el = 0
    PROVE  /\ cpu \in Cpu /\ current \in Tasks /\ shown \in [Tasks -> UserView]
           /\ cpu.x = shown[current].x /\ cpu.x \in Word
           /\ cpu.sp.depth \in {0, 1} /\ cpu.sp \in Sp
           /\ cpu.x.val <= counted[cpu.x.addr]
<1>1. /\ cpu \in Cpu /\ current \in Tasks /\ shown \in [Tasks -> UserView]
      /\ Seen(cpu) = shown[current]
  BY DEF IInv, TypeOK, TaskIntact
<1>2. Seen(cpu).x = cpu.x /\ Seen(cpu).sp = cpu.sp
  BY DEF Seen
<1>3. shown[current] \in UserView
  BY <1>1
<1>4. shown[current].sp.depth \in {0, 1}
  BY <1>3 DEF UserView
<1>5. cpu.x \in Word /\ cpu.sp \in Sp
  BY <1>1 DEF Cpu
<1>6. shown[current].x.val <= counted[shown[current].x.addr]
  BY <1>1 DEF IInv, Counted
<1> QED BY <1>1, <1>2, <1>4, <1>5, <1>6

LEMMA UserLdxrInv == ASSUME IInv, UserLdxr PROVE IInv'
<1>1. PICK a \in Addrs : UserStep([LoadExcl(cpu, a) EXCEPT !.pc = "stxr"])
  BY DEF UserLdxr
<1> DEFINE w == [addr |-> a, val |-> mem[a]]
           c == [LoadExcl(cpu, a) EXCEPT !.pc = "stxr"]
<1>2. /\ armed_by' = current /\ mem' = mem /\ counted' = counted
      /\ cpu.el = 0 /\ cpu' = c
  BY <1>1 DEF UserLdxr, UserStep
<1>3. w \in Word /\ mem \in [Addrs -> 0 .. MaxCount]
  BY DEF IInv, TypeOK, Word
<1>4. c = [cpu EXCEPT !.excl = w, !.x = w, !.pc = "stxr"]
  BY DEF LoadExcl
<1>5. /\ c \in Cpu /\ c.el = 0 /\ c.spsel = cpu.spsel /\ c.masked = cpu.masked
      /\ c.pc \in UserPcs /\ c.sp = cpu.sp /\ c.sp_el = cpu.sp_el
      /\ c.x = w /\ c.excl = w
  <2> HIDE DEF c, w
  <2> QED BY <1>2, <1>3, <1>4, UserFacts DEF Cpu, UserPcs, Pcs
<1> HIDE DEF c
<1>6. /\ cpu' \in Cpu /\ current' \in Tasks
      /\ frames' \in Seq(Frame) /\ tasks' \in [Tasks -> Frame]
      /\ shown' \in [Tasks -> UserView]
      /\ shown' = [shown EXCEPT ![current] = Seen(c)]
      /\ Chained' /\ SwitchedOut' /\ TaskIntact' /\ KernelStackIntact'
  <2>1. UserStep(c)
    BY <1>1 DEF c
  <2> QED BY <1>2, <1>5, <2>1, UserStepInv, UserFacts
<1>7. shown'[current].x = w /\ \A t \in Tasks \ {current} : shown'[t] = shown[t]
  <2>1. shown'[current] = Seen(c) /\ \A t \in Tasks \ {current} : shown'[t] = shown[t]
    BY <1>2, <1>6, UserFacts
  <2> QED BY <1>5, <2>1 DEF Seen
<1>8. Armed' /\ TypeOK'
  BY <1>2, <1>3, <1>5, <1>6, <1>7, UserFacts DEF Armed, TypeOK
<1>9. Counted'
  <2>1. w.addr = a /\ w.val = mem[a] /\ mem[a] <= counted[a]
    BY DEF IInv, Counted
  <2> HIDE DEF w
  <2> QED BY <1>2, <1>7, <2>1, UserFacts DEF Counted, IInv
<1> QED BY <1>6, <1>8, <1>9 DEF IInv

LEMMA UserStxrInv == ASSUME IInv, UserStxr PROVE IInv'
<1> DEFINE c == [StoreExcl(cpu) EXCEPT !.pc = "ldxr"]
<1>1. UserStep(c) /\ cpu' = c /\ cpu.el = 0
  BY DEF UserStxr, UserStep
<1>2. /\ c \in Cpu /\ c.el = 0 /\ c.spsel = cpu.spsel /\ c.masked = cpu.masked
      /\ c.pc \in UserPcs /\ c.sp = cpu.sp /\ c.sp_el = cpu.sp_el
      /\ c.x = cpu.x /\ c.excl = None
  <2>1. c = [cpu EXCEPT !.excl = None, !.pc = "ldxr"]
    BY DEF StoreExcl
  <2> HIDE DEF c
  <2> QED BY <1>1, <2>1, UserFacts DEF Cpu, UserPcs, Pcs
<1> HIDE DEF c
<1>3. /\ cpu' \in Cpu /\ current' \in Tasks
      /\ frames' \in Seq(Frame) /\ tasks' \in [Tasks -> Frame]
      /\ shown' \in [Tasks -> UserView]
      /\ shown' = [shown EXCEPT ![current] = Seen(c)]
      /\ Chained' /\ SwitchedOut' /\ TaskIntact' /\ KernelStackIntact'
  BY <1>1, <1>2, UserStepInv, UserFacts
<1>4. \A t \in Tasks : shown'[t].x = shown[t].x
  <2>1. Seen(c).x = shown[current].x
    BY <1>1, <1>2, UserFacts DEF Seen
  <2> QED BY <1>1, <1>3, <2>1, UserFacts
<1>5. \A t \in Tasks : shown[t].x \in Word
  BY DEF IInv, UserView
<1>6. /\ mem \in [Addrs -> 0 .. MaxCount] /\ counted \in [Addrs -> 0 .. MaxCount]
      /\ \A a \in Addrs : mem[a] <= counted[a]
      /\ \A t \in Tasks : shown[t].x.val <= counted[shown[t].x.addr]
  BY DEF IInv, TypeOK, Counted
<1>7. Armed'
  BY <1>1, <1>2 DEF Armed
<1>8. CASE StoreSucceeds(cpu)
  <2> DEFINE a == cpu.x.addr
             v == cpu.x.val
  <2>1. a \in Addrs /\ v \in 0 .. MaxCount /\ v <= counted[a]
    BY <1>1, UserFacts DEF Word
  <2>2. /\ counted[a] < MaxCount /\ mem' = [mem EXCEPT ![a] = v + 1]
        /\ counted' = [counted EXCEPT ![a] = counted[a] + 1]
    BY <1>8 DEF UserStxr
  <2> HIDE DEF a, v
  <2>3. MaxCount \in Nat /\ counted[a] \in 0 .. MaxCount
    BY <1>6, <2>1, ExceptionsAssumption
  <2>4. mem' \in [Addrs -> 0 .. MaxCount] /\ counted' \in [Addrs -> 0 .. MaxCount]
    BY <1>6, <2>1, <2>2, <2>3
  <2>5. \A b \in Addrs : mem'[b] <= counted'[b] /\ counted[b] <= counted'[b]
    <3> SUFFICES ASSUME NEW b \in Addrs PROVE mem'[b] <= counted'[b] /\ counted[b] <= counted'[b]
      OBVIOUS
    <3>1. counted[b] \in 0 .. MaxCount /\ mem[b] <= counted[b]
      BY <1>6
    <3>2. CASE b = a
      BY <1>6, <2>1, <2>2, <2>3, <3>2
    <3>3. CASE b # a
      BY <1>6, <2>2, <3>1, <3>3
    <3> QED BY <3>2, <3>3
  <2>6. \A t \in Tasks : shown'[t].x.val <= counted'[shown'[t].x.addr]
    <3> SUFFICES ASSUME NEW t \in Tasks
                 PROVE  shown[t].x.val <= counted'[shown[t].x.addr]
      BY <1>4
    <3> DEFINE b == shown[t].x.addr
               u == shown[t].x.val
    <3>1. b \in Addrs /\ u \in 0 .. MaxCount
      BY <1>5 DEF Word
    <3>2. u <= counted[b] /\ counted[b] <= counted'[b]
      BY <1>6, <2>5, <3>1
    <3>3. counted[b] \in 0 .. MaxCount /\ counted'[b] \in 0 .. MaxCount
      BY <1>6, <2>4, <3>1
    <3> HIDE DEF b, u
    <3>4. u <= counted'[b]
      BY <2>3, <3>1, <3>2, <3>3
    <3> QED BY <3>4 DEF b, u
  <2>7. TypeOK' /\ Counted'
    BY <1>3, <2>4, <2>5, <2>6 DEF TypeOK, Counted
  <2> QED BY <1>3, <1>7, <2>7 DEF IInv
<1>9. CASE ~ StoreSucceeds(cpu)
  <2>1. mem' = mem /\ counted' = counted
    BY <1>9 DEF UserStxr
  <2>2. TypeOK' /\ Counted'
    BY <1>3, <1>4, <1>6, <2>1 DEF TypeOK, Counted
  <2> QED BY <1>3, <1>7, <2>2 DEF IInv
<1> QED BY <1>8, <1>9

LEMMA UserMoveSpInv == ASSUME IInv, UserMoveSp PROVE IInv'
<1> DEFINE p == [cpu.sp EXCEPT !.depth = 1 - cpu.sp.depth]
           c == [cpu EXCEPT !.sp = p]
<1>1. /\ UserStep(c) /\ cpu' = c /\ cpu.el = 0
      /\ mem' = mem /\ counted' = counted /\ armed_by' = armed_by
  BY DEF UserMoveSp, UserStep
<1>2. p \in Sp /\ p.depth \in {0, 1}
  BY <1>1, UserFacts, ExceptionsAssumption DEF Sp
<1> HIDE DEF p
<1>3. /\ c \in Cpu /\ c.el = 0 /\ c.spsel = cpu.spsel /\ c.masked = cpu.masked
      /\ c.pc \in UserPcs /\ c.sp = p /\ c.sp_el = cpu.sp_el
      /\ c.x = cpu.x /\ c.excl = cpu.excl
  <2>1. cpu.pc \in UserPcs
    BY <1>1 DEF IInv, Chained
  <2> QED BY <1>1, <1>2, <2>1, UserFacts DEF Cpu
<1> HIDE DEF c
<1>4. /\ cpu' \in Cpu /\ current' \in Tasks
      /\ frames' \in Seq(Frame) /\ tasks' \in [Tasks -> Frame]
      /\ shown' \in [Tasks -> UserView]
      /\ shown' = [shown EXCEPT ![current] = Seen(c)]
      /\ Chained' /\ SwitchedOut' /\ TaskIntact' /\ KernelStackIntact'
  BY <1>1, <1>2, <1>3, UserStepInv
<1>5. \A t \in Tasks : shown'[t].x = shown[t].x
  <2>1. Seen(c).x = shown[current].x
    BY <1>1, <1>3, UserFacts DEF Seen
  <2> QED BY <1>1, <1>4, <2>1, UserFacts
<1>6. Armed' /\ Counted' /\ TypeOK'
  BY <1>1, <1>3, <1>4, <1>5 DEF Armed, Counted, TypeOK, IInv
<1> QED BY <1>4, <1>6 DEF IInv

LEMMA TakeExceptionInv == ASSUME IInv, TakeException PROVE IInv'
<1>1. /\ cpu \in Cpu /\ cpu.pc \in Pcs /\ current \in Tasks /\ frames \in Seq(Frame)
      /\ Chained
  BY DEF IInv, TypeOK, Cpu
<1>2. /\ cpu.el = 0 \/ ~ cpu.masked
      /\ Len(frames) < MaxNest
      /\ cpu' = EnterEl1(cpu) /\ guest' = guest /\ history' = history
  BY DEF TakeException
<1>3. /\ cpu' \in Cpu /\ cpu'.el = 1 /\ cpu'.spsel = TRUE /\ cpu'.masked = TRUE
      /\ cpu'.pc \in Vectors /\ cpu'.elr = cpu.pc /\ cpu'.spsr = PstateOf(cpu)
      /\ cpu'.x = cpu.x /\ cpu'.excl = cpu.excl
      /\ \A i \in {0, 1} : ReadSpEl(cpu', i) = ReadSpEl(cpu, i)
  BY <1>1, <1>2, EnterFacts
<1> DEFINE f == [elr |-> cpu.pc, spsr |-> PstateOf(cpu), sp0 |-> ReadSpEl(cpu, 0), x |-> cpu.x]
<1>4. Interrupted' = f
  BY <1>3 DEF Interrupted
<1>5. f \in Frame
  <2>1. PstateOf(cpu) \in Pstate
    BY <1>1 DEF PstateOf, Pstate, Cpu
  <2> QED BY <1>1, <2>1, LiveBank DEF Frame, Cpu
<1>6. Len(frames) + 1 = 1 => Shows(f, current)
  <2> SUFFICES ASSUME frames = << >> PROVE Shows(f, current)
    BY <1>1
  <2>1. cpu.el = 0
    BY <1>1, <1>2 DEF Chained, Pcs, KernelPcs
  <2>2. Seen(cpu) = shown[current]
    BY <2>1 DEF IInv, TaskIntact
  <2>3. ReadSpEl(cpu, 0) = cpu.sp
    BY <2>1 DEF ReadSpEl, SpIndex
  <2> QED BY <2>2, <2>3 DEF Seen, Shows
<1>7. Len(frames) + 1 > 1 => f.elr = "kernel" /\ f.spsr.el = 1 /\ ~ f.spsr.masked
  <2> SUFFICES ASSUME frames # << >> 
               PROVE  f.elr = "kernel" /\ f.spsr.el = 1 /\ ~ f.spsr.masked
    BY <1>1
  <2>1. cpu.el = 1 /\ ~ cpu.masked
    BY <1>1, <1>2 DEF Chained, Cpu
  <2>2. cpu.pc = "kernel"
    BY <1>1, <2>1 DEF Chained, Pcs, KernelPcs
  <2> QED BY <2>1, <2>2 DEF PstateOf
<1>8. FrameAt(Len(frames) + 1, f)
  BY <1>5, <1>6, <1>7 DEF FrameAt
<1>9. Chained'
  <2>1. /\ frames' = frames /\ current' = current /\ shown' = shown
        /\ cpu'.pc # "kernel" /\ cpu'.pc \notin UserPcs
    BY <1>2, <1>3 DEF guest, history, Vectors, UserPcs
  <2>2. Interrupted' = f /\ FrameAt(Len(frames) + 1, f)
    BY <1>4, <1>8
  <2> HIDE DEF f
  <2> QED BY <1>1, <1>2, <1>3, <2>1, <2>2 DEF Chained, FrameAt, Shows, Vectors
<1>10. /\ frames' = frames /\ current' = current /\ shown' = shown /\ mem' = mem
       /\ tasks' = tasks /\ counted' = counted /\ armed_by' = armed_by
  BY <1>2 DEF guest, history
<1>11. SwitchedOut' /\ Armed' /\ Counted' /\ TypeOK' /\ shown' \in [Tasks -> UserView]
  BY <1>3, <1>10 DEF IInv, SwitchedOut, Shows, Armed, Counted, TypeOK
<1>12. TaskIntact' /\ KernelStackIntact'
  BY <1>3, <1>10 DEF IInv, TaskIntact, KernelStackIntact
<1> QED BY <1>9, <1>11, <1>12 DEF IInv

(* What is left to show of a step that touches registers and frames only.   *)
LEMMA RegistersAndFrames ==
    ASSUME IInv, UNCHANGED <<mem, tasks, current, history>>,
           cpu' \in Cpu, cpu'.excl = cpu.excl, frames' \in Seq(Frame),
           Chained', TaskIntact', KernelStackIntact'
    PROVE  IInv'
<1>1. /\ mem' = mem /\ tasks' = tasks /\ current' = current
      /\ shown' = shown /\ counted' = counted /\ armed_by' = armed_by
  BY DEF history
<1> QED BY <1>1 DEF IInv, SwitchedOut, Shows, Armed, Counted, TypeOK

LEMMA KernelSaveInv == ASSUME IInv, KernelSave PROVE IInv'
<1> DEFINE p == [cpu.sp EXCEPT !.depth = cpu.sp.depth + 1]
           c == [cpu EXCEPT !.pc = "kernel", !.sp = p]
           f == [elr |-> cpu.elr, spsr |-> cpu.spsr, sp0 |-> ReadSpEl(cpu, 0), x |-> cpu.x]
<1>1. /\ cpu.pc \in Vectors /\ cpu.el = 1 /\ cpu' = c /\ frames' = Append(frames, f)
      /\ UNCHANGED <<mem, tasks, current, history>>
  BY DEF KernelSave, Kernelly
<1>2. /\ cpu \in Cpu /\ frames \in Seq(Frame)
      /\ Len(frames) < MaxNest /\ cpu.spsel = TRUE /\ cpu.masked
      /\ \A k \in 1 .. Len(frames) : FrameAt(k, frames[k])
      /\ FrameAt(Len(frames) + 1, f)
  BY <1>1 DEF IInv, TypeOK, Chained, Interrupted, Cpu
<1>3. f \in Frame
  BY <1>2 DEF FrameAt
<1>4. cpu.sp = [of |-> Kernel, depth |-> Len(frames)]
  BY <1>1, <1>2 DEF IInv, KernelStackIntact, ReadSpEl, SpIndex
<1>5. p = [of |-> Kernel, depth |-> Len(frames) + 1] /\ p \in Sp
  <2>1. p = [of |-> Kernel, depth |-> Len(frames) + 1]
    BY <1>4
  <2>2. Len(frames) + 1 \in 0 .. MaxNest
    BY <1>2, ExceptionsAssumption
  <2> HIDE DEF p
  <2> QED BY <2>1, <2>2 DEF Sp
<1> HIDE DEF p
<1>6. /\ c \in Cpu /\ c.el = 1 /\ c.spsel = TRUE /\ c.pc = "kernel" /\ c.sp = p
      /\ c.excl = cpu.excl
  BY <1>1, <1>2, <1>5 DEF Cpu, Pcs, KernelPcs
<1> HIDE DEF c, f
<1>7. /\ frames' \in Seq(Frame) /\ Len(frames') = Len(frames) + 1
      /\ \A k \in 1 .. Len(frames) : frames'[k] = frames[k]
      /\ frames'[Len(frames) + 1] = f
  BY <1>1, <1>2, <1>3, AppendProperties
<1>8. \A k \in 1 .. Len(frames') : FrameAt(k, frames'[k])
  <2> SUFFICES ASSUME NEW k \in 1 .. Len(frames') PROVE FrameAt(k, frames'[k])
    OBVIOUS
  <2>1. k \in 1 .. Len(frames) \/ k = Len(frames) + 1
    BY <1>2, <1>7
  <2> QED BY <1>2, <1>7, <2>1
<1>9. Chained'
  <2>1. current' = current /\ shown' = shown
    BY <1>1 DEF history
  <2>2. Len(frames') <= MaxNest /\ frames' # << >>
    BY <1>2, <1>7, ExceptionsAssumption
  <2>3. cpu'.pc = "kernel" /\ cpu'.el = 1
    BY <1>1, <1>6
  <2> QED BY <1>8, <2>1, <2>2, <2>3 DEF Chained, FrameAt, Shows, Vectors, UserPcs
<1>10. TaskIntact' /\ KernelStackIntact'
  BY <1>1, <1>5, <1>6, <1>7 DEF TaskIntact, KernelStackIntact, ReadSpEl, SpIndex
<1> QED BY <1>1, <1>6, <1>7, <1>9, <1>10, RegistersAndFrames

(* In the kernel proper the chain does not depend on the registers.         *)
LEMMA InKernel ==
    ASSUME IInv, UNCHANGED <<guest, history>>, cpu.pc = "kernel",
           cpu' \in Cpu, cpu'.pc = "kernel", cpu'.el = 1, cpu'.excl = cpu.excl,
           ReadSpEl(cpu', 1) = ReadSpEl(cpu, 1)
    PROVE  IInv'
<1>1. /\ mem' = mem /\ tasks' = tasks /\ current' = current /\ frames' = frames
      /\ shown' = shown
  BY DEF guest, history
<1>2. Chained'
  BY <1>1 DEF IInv, Chained, FrameAt, Shows, Vectors, UserPcs
<1>3. TaskIntact' /\ KernelStackIntact'
  BY <1>1 DEF IInv, TaskIntact, KernelStackIntact
<1>4. frames' \in Seq(Frame)
  BY <1>1 DEF IInv, TypeOK
<1> QED BY <1>1, <1>2, <1>3, <1>4, RegistersAndFrames

LEMMA KernelMsrInv == ASSUME IInv, KernelMsr PROVE IInv'
<1>1. cpu \in Cpu /\ cpu.pc = "kernel" /\ cpu.el = 1 /\ UNCHANGED <<guest, history>>
  BY DEF IInv, TypeOK, KernelMsr, Kernelly
<1>2. CASE cpu' = [cpu EXCEPT !.masked = ~ cpu.masked]
  <2>1. /\ cpu' \in Cpu /\ cpu'.pc = cpu.pc /\ cpu'.el = cpu.el /\ cpu'.excl = cpu.excl
        /\ cpu'.spsel = cpu.spsel /\ cpu'.sp = cpu.sp /\ cpu'.sp_el = cpu.sp_el
    BY <1>1, <1>2 DEF Cpu
  <2> QED BY <1>1, <2>1, InKernel DEF ReadSpEl
<1>3. CASE cpu' = SetElSpsel(cpu, cpu.el, ~ cpu.spsel)
  <2>1. cpu.el \in {0, 1} /\ (~ cpu.spsel) \in BOOLEAN
    BY <1>1 DEF Cpu
  <2>2. /\ cpu' \in Cpu /\ SameRest(cpu, cpu') /\ cpu'.el = cpu.el
        /\ \A i \in {0, 1} : ReadSpEl(cpu', i) = ReadSpEl(cpu, i)
    <3> DEFINE spsel == ~ cpu.spsel
    <3>1. cpu \in Cpu /\ cpu.el \in {0, 1} /\ spsel \in BOOLEAN /\ cpu' = SetElSpsel(cpu, cpu.el, spsel)
      BY Zenon, <1>1, <1>3, <2>1
    <3> HIDE DEF spsel
    <3>2. BanksKept(cpu, SetElSpsel(cpu, cpu.el, spsel), cpu.el, spsel)
      BY Zenon, <3>1, SwitchKeepsBanks
    <3> QED BY Zenon, <3>1, <3>2 DEF BanksKept
  <2>3. /\ cpu'.pc = "kernel" /\ cpu'.el = 1 /\ cpu'.excl = cpu.excl
        /\ ReadSpEl(cpu', 1) = ReadSpEl(cpu, 1)
    BY <1>1, <2>2 DEF SameRest
  <2> QED BY Zenon, <1>1, <2>2, <2>3, InKernel
<1> QED BY <1>2, <1>3 DEF KernelMsr, Kernelly

LEMMA KernelCountInv == ASSUME IInv, KernelCount PROVE IInv'
<1>1. PICK a \in Addrs : /\ counted[a] < MaxCount
                         /\ mem' = [mem EXCEPT ![a] = @ + 1]
                         /\ counted' = [counted EXCEPT ![a] = @ + 1]
  BY DEF KernelCount
<1>2. UNCHANGED <<cpu, frames, tasks, current, shown, armed_by>>
  BY DEF KernelCount
<1>3. /\ mem \in [Addrs -> 0 .. MaxCount] /\ counted \in [Addrs -> 0 .. MaxCount]
      /\ \A b \in Addrs : mem[b] <= counted[b]
      /\ \A t \in Tasks : shown[t].x \in Word /\ shown[t].x.val <= counted[shown[t].x.addr]
  BY DEF IInv, TypeOK, Counted, UserView
<1>4. \A b \in Addrs : /\ mem'[b] \in 0 .. MaxCount /\ counted'[b] \in 0 .. MaxCount
                       /\ mem'[b] <= counted'[b] /\ counted[b] <= counted'[b]
  <2> TAKE b \in Addrs
  <2>1. mem[b] \in 0 .. MaxCount /\ counted[b] \in 0 .. MaxCount /\ mem[b] <= counted[b]
    BY <1>3
  <2>2. CASE b = a
    BY <1>1, <1>3, <2>1, <2>2, ExceptionsAssumption
  <2>3. CASE b # a
    BY <1>1, <1>3, <2>1, <2>3
  <2> QED BY <2>2, <2>3
<1>5. mem' \in [Addrs -> 0 .. MaxCount] /\ counted' \in [Addrs -> 0 .. MaxCount]
  BY <1>1, <1>3, <1>4
<1>6. \A t \in Tasks : shown[t].x.val <= counted'[shown[t].x.addr]
  <2> SUFFICES ASSUME NEW t \in Tasks PROVE shown[t].x.val <= counted'[shown[t].x.addr]
    OBVIOUS
  <2> DEFINE b == shown[t].x.addr
             u == shown[t].x.val
  <2>1. b \in Addrs /\ u \in 0 .. MaxCount
    BY <1>3 DEF Word
  <2>2. u <= counted[b] /\ counted[b] <= counted'[b]
    BY <1>3, <1>4, <2>1
  <2>3. counted[b] \in 0 .. MaxCount /\ counted'[b] \in 0 .. MaxCount
    BY <1>3, <1>5, <2>1
  <2> HIDE DEF b, u
  <2>4. u <= counted'[b]
    BY <2>1, <2>2, <2>3, ExceptionsAssumption
  <2> QED BY <2>4 DEF b, u
<1>7. TypeOK' /\ Counted'
  BY <1>2, <1>4, <1>5, <1>6 DEF IInv, TypeOK, Counted
<1>8. Chained' /\ SwitchedOut' /\ Armed' /\ TaskIntact' /\ KernelStackIntact'
  <2>1. Interrupted' = Interrupted
    BY <1>2 DEF Interrupted
  <2>2. Chained'
    BY <1>2, <2>1 DEF IInv, Chained, FrameAt, Shows
  <2>3. SwitchedOut' /\ Armed'
    BY <1>2 DEF IInv, SwitchedOut, Shows, Armed
  <2>4. TaskIntact' /\ KernelStackIntact'
    BY <1>2 DEF IInv, TaskIntact, KernelStackIntact
  <2> QED BY <2>2, <2>3, <2>4
<1> QED BY <1>2, <1>7, <1>8 DEF IInv

LEMMA KernelSwitchInv == ASSUME IInv, KernelSwitch PROVE IInv'
<1>1. /\ cpu.el = 1 /\ cpu.pc = "kernel" /\ Len(frames) = 1
      /\ UNCHANGED <<cpu, mem, history>>
  BY DEF KernelSwitch
<1>2. PICK t \in Tasks \ {current} :
         /\ tasks' = [tasks EXCEPT ![current] = Last(frames)]
         /\ frames' = <<tasks[t]>> /\ current' = t
  BY DEF KernelSwitch
<1>3. /\ cpu' = cpu /\ mem' = mem /\ shown' = shown /\ counted' = counted
      /\ armed_by' = armed_by
  BY <1>1 DEF history
<1>4. /\ frames \in Seq(Frame) /\ tasks \in [Tasks -> Frame] /\ current \in Tasks
      /\ FrameAt(1, frames[1])
      /\ \A u \in Tasks \ {current} : Shows(tasks[u], u)
  BY <1>1 DEF IInv, TypeOK, Chained, SwitchedOut
<1>5. Last(frames) = frames[1] /\ frames[1] \in Frame /\ Shows(frames[1], current)
  BY <1>1, <1>4 DEF Last, FrameAt
<1>6. tasks' \in [Tasks -> Frame] /\ tasks[t] \in Frame /\ Shows(tasks[t], t)
  BY <1>2, <1>4, <1>5
<1>7. frames' \in Seq(Frame) /\ Len(frames') = 1 /\ frames'[1] = tasks[t]
  BY <1>2, <1>6
<1>8. SwitchedOut'
  <2> SUFFICES ASSUME NEW u \in Tasks \ {t} PROVE Shows(tasks'[u], u)
    BY <1>2, <1>3 DEF SwitchedOut, Shows
  <2>1. CASE u = current
    BY <1>2, <1>4, <1>5, <2>1
  <2>2. CASE u # current
    BY <1>2, <1>4, <2>2
  <2> QED BY <2>1, <2>2
<1>9. Chained'
  <2>1. MaxNest >= 1 /\ frames' # << >>
    <3>1. MaxNest >= 1
      BY ExceptionsAssumption
    <3>2. << >> # <<tasks[t]>>
      OBVIOUS
    <3> QED BY <1>2, <3>1, <3>2
  <2>2. \A k \in 1 .. Len(frames') : k = 1 /\ frames'[k] = tasks[t]
    BY <1>7
  <2> QED BY <1>1, <1>2, <1>3, <1>6, <1>7, <2>1, <2>2
          DEF Chained, FrameAt, Shows, Vectors, UserPcs
<1>10. TypeOK' /\ Armed' /\ Counted' /\ shown' \in [Tasks -> UserView]
  BY <1>2, <1>3, <1>6, <1>7 DEF IInv, TypeOK, Armed, Counted
<1>11. TaskIntact' /\ KernelStackIntact'
  BY <1>1, <1>3, <1>7 DEF IInv, TaskIntact, KernelStackIntact
<1> QED BY <1>8, <1>9, <1>10, <1>11 DEF IInv

LEMMA KernelRestoreInv == ASSUME IInv, KernelRestore PROVE IInv'
<1> DEFINE f == Last(frames)
           b == WriteSpEl(cpu, 0, f.sp0)
           p == [b.sp EXCEPT !.depth = b.sp.depth - 1]
           c == [b EXCEPT !.pc = "eret", !.elr = f.elr, !.spsr = f.spsr, !.x = f.x, !.sp = p]
<1>1. /\ cpu.pc = "kernel" /\ cpu.masked /\ cpu.spsel /\ cpu.el = 1 /\ cpu' = c
      /\ frames' = Front(frames) /\ UNCHANGED <<mem, tasks, current, history>>
  BY DEF KernelRestore, Kernelly
<1>2. /\ cpu \in Cpu /\ frames \in Seq(Frame) /\ frames # << >> /\ Len(frames) <= MaxNest
      /\ \A k \in 1 .. Len(frames) : FrameAt(k, frames[k])
      /\ cpu.spsel = TRUE /\ cpu.masked = TRUE
  BY <1>1 DEF IInv, TypeOK, Chained, Cpu
<1>3. /\ Len(frames) \in Nat \ {0} /\ f = frames[Len(frames)] /\ f \in Frame
      /\ frames' \in Seq(Frame) /\ Len(frames') = Len(frames) - 1
      /\ \A k \in 1 .. Len(frames) - 1 : frames'[k] = frames[k]
  BY <1>1, <1>2, PopFacts
<1>4. FrameAt(Len(frames), f)
  BY <1>2, <1>3
<1>5. f = [elr |-> f.elr, spsr |-> f.spsr, sp0 |-> f.sp0, x |-> f.x]
  <2> HIDE DEF f
  <2> QED BY <1>3 DEF Frame
<1> HIDE DEF f
<1>6. /\ b \in Cpu /\ b.sp = [of |-> Kernel, depth |-> Len(frames)]
      /\ b.el = 1 /\ b.spsel = TRUE /\ b.masked = TRUE /\ b.excl = cpu.excl
      /\ b.sp_el[0] = f.sp0
  <2>1. b = [cpu EXCEPT !.sp_el[0] = f.sp0]
    BY <1>1, <1>2 DEF WriteSpEl, SpIndex
  <2>2. cpu.sp = [of |-> Kernel, depth |-> Len(frames)]
    BY <1>1, <1>2 DEF IInv, KernelStackIntact, ReadSpEl, SpIndex
  <2>3. f.sp0 \in Sp
    BY <1>3 DEF Frame
  <2> HIDE DEF b
  <2> QED BY <1>1, <1>2, <2>1, <2>2, <2>3 DEF Cpu
<1> HIDE DEF b
<1>7. p = [of |-> Kernel, depth |-> Len(frames) - 1] /\ p \in Sp
  <2>1. p = [of |-> Kernel, depth |-> Len(frames) - 1]
    BY <1>6
  <2>2. Len(frames) - 1 \in 0 .. MaxNest
    BY <1>2, <1>3, ExceptionsAssumption
  <2> HIDE DEF p
  <2> QED BY <2>1, <2>2 DEF Sp
<1> HIDE DEF p
<1>8. /\ c \in Cpu /\ c.pc = "eret" /\ c.elr = f.elr /\ c.spsr = f.spsr /\ c.x = f.x
      /\ c.sp = p /\ c.sp_el = b.sp_el /\ c.excl = cpu.excl
      /\ c.el = 1 /\ c.spsel = TRUE /\ c.masked = TRUE
  <2>1. f.elr \in Pcs /\ f.spsr \in Pstate /\ f.x \in Word /\ "eret" \in Pcs
    BY <1>3 DEF Frame, Pcs, KernelPcs
  <2> HIDE DEF c
  <2>2. c = [b EXCEPT !.pc = "eret", !.elr = f.elr, !.spsr = f.spsr, !.x = f.x, !.sp = p]
    BY DEF c
  <2> QED BY <1>6, <1>7, <2>1, <2>2 DEF Cpu
<1> HIDE DEF c
<1>9. Interrupted' = f
  <2>1. ReadSpEl(cpu', 0) = f.sp0
    BY <1>1, <1>6, <1>8 DEF ReadSpEl, SpIndex
  <2> QED BY <1>1, <1>5, <1>8, <2>1 DEF Interrupted
<1>10. Chained'
  <2>1. current' = current /\ shown' = shown
    BY <1>1 DEF history
  <2>2. /\ Len(frames') + 1 = Len(frames) /\ Len(frames') < MaxNest
        /\ Len(frames') <= MaxNest
    BY <1>2, <1>3, ExceptionsAssumption
  <2>3. \A k \in 1 .. Len(frames') : FrameAt(k, frames'[k])
    BY <1>2, <1>3
  <2> QED BY <1>1, <1>4, <1>8, <1>9, <2>1, <2>2, <2>3 DEF Chained, FrameAt, Shows, UserPcs
<1>11. TaskIntact' /\ KernelStackIntact'
  BY <1>1, <1>3, <1>7, <1>8 DEF TaskIntact, KernelStackIntact, ReadSpEl, SpIndex
<1> QED BY <1>1, <1>3, <1>8, <1>10, <1>11, RegistersAndFrames

LEMMA EretInv == ASSUME IInv, Eret PROVE IInv'
<1>1. /\ cpu.pc = "eret" /\ cpu.el = 1 /\ cpu' = EretOf(cpu)
      /\ UNCHANGED <<mem, tasks, current, history>> /\ frames' = frames
  BY DEF Eret, Kernelly, guest
<1>2. /\ cpu \in Cpu /\ frames \in Seq(Frame) /\ Len(frames) < MaxNest
      /\ \A k \in 1 .. Len(frames) : FrameAt(k, frames[k])
      /\ FrameAt(Len(frames) + 1, Interrupted)
  BY <1>1 DEF IInv, TypeOK, Chained
<1>3. /\ cpu' \in Cpu /\ PstateOf(cpu') = cpu.spsr
      /\ cpu'.el = cpu.spsr.el /\ cpu'.spsel = cpu.spsr.spsel /\ cpu'.masked = cpu.spsr.masked
      /\ cpu'.pc = cpu.elr /\ cpu'.x = cpu.x /\ cpu'.excl = cpu.excl
      /\ \A i \in {0, 1} : ReadSpEl(cpu', i) = ReadSpEl(cpu, i)
  BY <1>1, <1>2, EretFacts
<1>4. shown' = shown /\ current' = current
  BY <1>1 DEF history
<1>5. KernelStackIntact'
  BY <1>1, <1>3 DEF KernelStackIntact, IInv
<1>6. CASE frames = << >>
  <2>1. /\ cpu.elr = shown[current].pc /\ ReadSpEl(cpu, 0) = shown[current].sp
        /\ cpu.x = shown[current].x /\ cpu.spsr = shown[current].pstate
    <3>1. Shows(Interrupted, current)
      BY <1>2, <1>6 DEF FrameAt
    <3> QED BY <3>1 DEF Shows, Interrupted
  <2>2. shown[current] \in UserView
    BY DEF IInv, TypeOK
  <2>3. cpu'.el = 0 /\ cpu'.pc \in UserPcs
    BY <1>3, <2>1, <2>2 DEF UserView
  <2>4. Chained'
    <3>1. Len(frames') <= MaxNest /\ frames' = << >> /\ \A k \in 1 .. Len(frames') : FALSE
      BY <1>1, <1>2, <1>6, ExceptionsAssumption
    <3> QED BY <2>3, <3>1 DEF Chained, UserPcs, Vectors
  <2>5. cpu'.sp = ReadSpEl(cpu, 0)
    BY <1>3, <2>3, LiveBank DEF SpIndex
  <2>6. Seen(cpu') = shown[current]
    BY <1>3, <2>1, <2>2, <2>5 DEF Seen, UserView
  <2>7. TaskIntact'
    BY <1>4, <2>6 DEF TaskIntact
  <2> QED BY <1>1, <1>2, <1>3, <1>5, <2>4, <2>7, RegistersAndFrames
<1>7. CASE frames # << >>
  <2>1. cpu.elr = "kernel" /\ cpu.spsr.el = 1
    BY <1>2, <1>7 DEF FrameAt, Interrupted
  <2>2. Chained'
    <3>1. /\ Len(frames') <= MaxNest /\ frames' # << >>
          /\ \A k \in 1 .. Len(frames') : FrameAt(k, frames'[k])
      BY <1>1, <1>2, <1>7, ExceptionsAssumption
    <3>2. cpu'.pc = "kernel" /\ cpu'.el = 1
      BY <1>3, <2>1
    <3> QED BY <1>4, <3>1, <3>2 DEF Chained, FrameAt, Shows, UserPcs, Vectors
  <2>3. TaskIntact'
    BY <1>3, <2>1 DEF TaskIntact
  <2> QED BY <1>1, <1>2, <1>3, <1>5, <2>2, <2>3, RegistersAndFrames
<1> QED BY <1>6, <1>7

-----------------------------------------------------------------------------
(* The specification *)

LEMMA StepInv == ASSUME IInv, [Next]_vars PROVE IInv'
<1>1. CASE User
  BY <1>1, UserLdxrInv, UserStxrInv, UserMoveSpInv DEF User
<1>2. CASE TakeException
  BY <1>2, TakeExceptionInv
<1>3. CASE KernelStep
  BY <1>3, KernelSaveInv, KernelMsrInv, KernelCountInv, KernelSwitchInv,
     KernelRestoreInv, EretInv DEF KernelStep
<1>4. CASE UNCHANGED vars
  <2>1. UNCHANGED <<cpu, mem, frames, tasks, current, shown, counted, armed_by>>
    BY <1>4 DEF vars, guest, history
  <2>2. Interrupted' = Interrupted
    BY <2>1 DEF Interrupted
  <2>3. Chained'
    BY <2>1, <2>2 DEF IInv, Chained, FrameAt, Shows
  <2>4. SwitchedOut' /\ Armed' /\ Counted' /\ TypeOK' /\ shown' \in [Tasks -> UserView]
    BY <2>1 DEF IInv, SwitchedOut, Shows, Armed, Counted, TypeOK
  <2>5. TaskIntact' /\ KernelStackIntact'
    BY <2>1 DEF IInv, TaskIntact, KernelStackIntact
  <2> QED BY <2>3, <2>4, <2>5 DEF IInv
<1> QED BY <1>1, <1>2, <1>3, <1>4 DEF Next

(* The inductive invariant holds in every reachable state.                  *)
THEOREM ChainInvariant == Spec => []IInv
<1>1. Init => IInv
  BY InitInv
<1>2. IInv /\ [Next]_vars => IInv'
  BY StepInv
<1> QED BY <1>1, <1>2, PTL DEF Spec

(* The registers, the saved frames and the counters keep their types; no    *)
(* counter passes the number of increments.                                 *)
THEOREM TypeCorrect == Spec => []TypeOK
<1>1. IInv => TypeOK
  BY DEF IInv
<1> QED BY <1>1, ChainInvariant, PTL

(* Exception entry and ERET are invisible to a task, however exceptions     *)
(* nest and whatever bank the kernel selects and task it switches to.       *)
THEOREM TasksAreIntact == Spec => []TaskIntact
<1>1. IInv => TaskIntact
  BY DEF IInv
<1> QED BY <1>1, ChainInvariant, PTL

(* No entry or return loses or swaps a stack pointer bank: SP_EL1 is always *)
(* as deep as the exceptions saved on it.                                   *)
THEOREM KernelStackIsIntact == Spec => []KernelStackIntact
<1>1. IInv => KernelStackIntact
  BY DEF IInv
<1> QED BY <1>1, ChainInvariant, PTL

(* STXR under the monitor of its own task's LDXR is atomic: the value loaded *)
(* is still in memory when the store goes through.                          *)
THEOREM OwnStoresAreAtomic == Spec => OwnStoreAtomic
<1> DEFINE A == UserStxr /\ StoreSucceeds(cpu) /\ armed_by = current
                  => mem[cpu.x.addr] = cpu.x.val
<1>1. IInv /\ [Next]_vars => [A]_vars
  <2> SUFFICES ASSUME IInv, UserStxr, StoreSucceeds(cpu), armed_by = current
               PROVE  mem[cpu.x.addr] = cpu.x.val
    OBVIOUS
  <2>1. cpu.el = 0
    BY DEF UserStxr, UserStep
  <2>2. cpu.excl = cpu.x
    BY <2>1, UserFacts DEF IInv, Armed, StoreSucceeds
  <2>3. cpu.excl.val = mem[cpu.x.addr]
    BY DEF StoreSucceeds
  <2> QED BY <2>2, <2>3
<1> QED BY <1>1, ChainInvariant, PTL DEF Spec, OwnStoreAtomic
=============================================================================
