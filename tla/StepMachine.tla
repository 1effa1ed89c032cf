----------------------------- MODULE StepMachine -----------------------------
(***************************************************************************)
(* The interpreter as a machine: it fetches the word at pc, decodes it and *)
(* executes it, one instruction a step (crates/interp, run.rs, step). The  *)
(* program is the sequence `code`, whose first word is at address `base`.  *)
(* Outside the program, at an instruction decode does not know and at one  *)
(* the model has no semantics for, the machine stops.                      *)
(***************************************************************************)
EXTENDS InterpreterVector, Sequences

VARIABLES code, base, cpu
vars == <<code, base, cpu>>

Place(pc) == Shr(Minus(pc, base, 64), 2)              \* in instructions, as a word
InCode(pc) == Place(pc) \subseteq Low(4) /\ Num(Place(pc)) < Len(code)
Fetch(pc)  == code[Num(Place(pc)) + 1]

Init == /\ cpu.pc = base
        /\ \A r \in DOMAIN cpu.x : cpu.x[r] \subseteq W64

Step == /\ InCode(cpu.pc)
        /\ LET insn == decode(Fetch(cpu.pc))
           IN  Modelled(insn) /\ cpu' = step(cpu, insn)
        /\ UNCHANGED <<code, base>>

Spec == Init /\ [][Step]_vars
=============================================================================
