------------------------------ MODULE GuestCode ------------------------------
(***************************************************************************)
(* What the guest's code promises to do, one instruction at a time: the    *)
(* interpreter (crates/interp/src/execute.rs, branch_imm.rs, branch_reg.rs *)
(* and run.rs) with an instruction cache that may lag behind memory until  *)
(* IC, as the architecture allows.  Module Jit implements it with compiled *)
(* regions.                                                                *)
(*                                                                         *)
(* Addresses count words.  Of the registers those that control flow needs  *)
(* are kept: one flag, X30, ELR with SPSR, and the interrupt mask.         *)
(***************************************************************************)
EXTENDS Integers

CONSTANTS
    PageWords,   \* words in a page
    NumVPages,   \* pages of the address space
    NumPPages,   \* pages of memory
    Offsets,     \* what a branch adds to its own address
    Vector,      \* VBAR_EL1: every exception goes here
    Maps,        \* the mappings the guest switches between
    Patches,     \* the words its stores may write over an address
    Programs,    \* the programs in memory at boot
    None

VA == 0 .. NumVPages * PageWords - 1
PA == 0 .. NumPPages * PageWords - 1
Mapping == [0 .. NumVPages - 1 -> (0 .. NumPPages - 1) \cup {None}]

\* "op" toggles the flag, "cb" branches on it, "st" stores; "bl", "blr" and
\* "ret" use X30; the rest is what a compiled block never holds.
Ops == {"op", "st", "b", "cb", "bl", "blr", "ret", "eret", "ic", "remap", "und"}
Insn == [op: Ops, off: Offsets]
Cpu == [pc: VA, flag: BOOLEAN, lr: VA, elr: VA, spsr: BOOLEAN, masked: BOOLEAN]

ASSUME GuestAssumption ==
    /\ PageWords \in Nat \ {0} /\ NumVPages \in Nat \ {0} /\ NumPPages \in Nat \ {0}
    /\ Offsets \subseteq Int /\ Vector \in VA /\ None \notin Int
    /\ Maps \subseteq Mapping /\ Patches \in [PA -> SUBSET Insn]
    /\ Programs \subseteq [PA -> Insn]

VARIABLES
    cpu,
    mem,     \* the code in memory
    old,     \* per word, what a fetch may still return: its values since IC
    map      \* the page tables, and the TLB with them

guest == <<cpu, mem, old, map>>

\* wrapping_add.
Plus(va, d) == (va + d) % (NumVPages * PageWords)
Mapped(va) == map[va \div PageWords] # None
PaOf(va) == (map[va \div PageWords] * PageWords) + (va % PageWords)

Trap(c) == [c EXCEPT !.pc = Vector, !.elr = c.pc, !.spsr = c.flag, !.masked = TRUE]

After(c, i) ==
    CASE i.op = "op" -> [c EXCEPT !.pc = Plus(c.pc, 1), !.flag = ~ @]
      [] i.op = "b" -> [c EXCEPT !.pc = Plus(c.pc, i.off)]
      [] i.op = "cb" -> [c EXCEPT !.pc = Plus(c.pc, IF c.flag THEN i.off ELSE 1)]
      [] i.op = "bl" -> [c EXCEPT !.pc = Plus(c.pc, i.off), !.lr = Plus(c.pc, 1)]
      [] i.op = "blr" -> [c EXCEPT !.pc = c.lr, !.lr = Plus(c.pc, 1)]
      [] i.op = "ret" -> [c EXCEPT !.pc = c.lr]
      [] i.op = "eret" -> [c EXCEPT !.pc = c.elr, !.flag = c.spsr, !.masked = FALSE]
      [] i.op = "und" -> Trap(c)
      [] OTHER -> [c EXCEPT !.pc = Plus(c.pc, 1)]

\* A store may hit code: the word is new at once, fetches may lag.
StoreEffect ==
    \E m \in {mem} \cup UNION {{[mem EXCEPT ![a] = i] : i \in Patches[a]} : a \in PA} :
        mem' = m /\ old' = [a \in PA |-> old[a] \cup {m[a]}]

Sequential(i) == /\ i.op \notin {"st", "ic", "remap"}
                 /\ cpu' = After(cpu, i)
                 /\ UNCHANGED <<mem, old, map>>

Store(i) == i.op = "st" /\ cpu' = After(cpu, i) /\ StoreEffect /\ UNCHANGED map

StoreAborts(i) == i.op = "st" /\ cpu' = Trap(cpu) /\ UNCHANGED <<mem, old, map>>

Ic(i) == /\ i.op = "ic"
         /\ cpu' = After(cpu, i)
         /\ old' = [a \in PA |-> {mem[a]}]
         /\ UNCHANGED <<mem, map>>

Remap(i) == i.op = "remap" /\ cpu' = After(cpu, i) /\ map' \in Maps /\ UNCHANGED <<mem, old>>

Perform(i) == Sequential(i) \/ Store(i) \/ StoreAborts(i) \/ Ic(i) \/ Remap(i)

FetchAborts == ~ Mapped(cpu.pc) /\ cpu' = Trap(cpu) /\ UNCHANGED <<mem, old, map>>

Irq == ~ cpu.masked /\ cpu' = Trap(cpu) /\ UNCHANGED <<mem, old, map>>

GuestInit ==
    /\ cpu = [pc |-> Vector, flag |-> FALSE, lr |-> 0, elr |-> 0, spsr |-> FALSE,
              masked |-> TRUE]
    /\ mem \in Programs
    /\ old = [a \in PA |-> {mem[a]}]
    /\ map \in Maps

Fetched == Mapped(cpu.pc) /\ \E i \in old[PaOf(cpu.pc)] : Perform(i)

GuestNext == Fetched \/ FetchAborts \/ Irq

GuestSpec == GuestInit /\ [][GuestNext]_guest
=============================================================================
