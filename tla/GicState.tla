------------------------------ MODULE GicState ------------------------------
(***************************************************************************)
(* The state behind both GICv2 register blocks (`GicInner` in              *)
(* crates/platform/src/gic.rs) as a record, and one operator per method of *)
(* it.  A method that mutates the controller is an operator from a record  *)
(* to the next one, so that this module can be used by the specification   *)
(* of the controller alone (Gic) and by those of the machine and of the    *)
(* devices that drive its lines.                                           *)
(*                                                                         *)
(* A `[bool; NUM_IRQS]` array is the set of the ids that are true in it;   *)
(* priorities keep their order only: 0..IdlePrio stands for u8 0..0xFF.    *)
(***************************************************************************)
EXTENDS Integers, SequencesExt

CONSTANTS
    NumIrqs,   \* NUM_IRQS, one more than the largest id
    Irqs,      \* the ids an instance tells apart
    Sgis,      \* those of them that are software-generated interrupts (0..15)
    Spurious,  \* SPURIOUS, the id IAR returns for "nothing": an id below NUM_IRQS
    IdlePrio,  \* IDLE_PRIO, the largest value of a priority
    None       \* Option::None

Prios == 0 .. IdlePrio
Best == [id: Irqs, prio: Prios]

ASSUME GicAssumption ==
    /\ NumIrqs \in Nat
    /\ Irqs \subseteq 0 .. NumIrqs - 1
    /\ Sgis \subseteq Irqs
    /\ Spurious \in Nat
    /\ IdlePrio \in Nat
    /\ None \notin Best

GicType ==
    [dist_enabled: BOOLEAN, enabled: SUBSET Irqs, pending: SUBSET Irqs,
     active: SUBSET Irqs, priority: [Irqs -> Prios],
     cpu_enabled: BOOLEAN, pmr: Prios, running: Seq(Prios),
     cached_pending: Best \cup {None}]

GicReset ==
    [dist_enabled |-> FALSE, enabled |-> {}, pending |-> {},
     active |-> {}, priority |-> [i \in Irqs |-> 0],
     cpu_enabled |-> FALSE, pmr |-> 0, running |-> << >>,
     cached_pending |-> None]

-----------------------------------------------------------------------------
(* Queries *)

\* Defect: the oldest level of the stack instead of the newest.
RunningPrioOldest(g) == IF g.running = << >> THEN IdlePrio ELSE Head(g.running)

RunningPrio(g) == IF g.running = << >> THEN IdlePrio ELSE Last(g.running)

Candidates(g) == g.enabled \cap g.pending

\* The scan's order: lowest priority value first, lowest id on ties.
Beats(priority, i, j) ==
    \/ priority[i] < priority[j]
    \/ priority[i] = priority[j] /\ i <= j

\* Defect: the first candidate instead of the most urgent one.
ScanOfFirst(ids, priority) ==
    IF ids = {} THEN None ELSE [id |-> Min(ids), prio |-> priority[Min(ids)]]

ScanOf(ids, priority) ==
    IF ids = {} THEN None
    ELSE LET best == CHOOSE i \in ids : \A j \in ids : Beats(priority, i, j)
         IN  [id |-> best, prio |-> priority[best]]

ScanPending(g) == ScanOf(Candidates(g), g.priority)

Recompute(g) == [g EXCEPT !.cached_pending = ScanPending(g)]

\* Defect: an interrupt preempts one of its own priority.
PassesNonStrict(g) ==
    /\ g.cached_pending # None
    /\ g.cached_pending.prio < g.pmr
    /\ g.cached_pending.prio <= RunningPrio(g)

\* The cached interrupt passes the priority mask and preempts what runs.
Passes(g) ==
    /\ g.cached_pending # None
    /\ g.cached_pending.prio < g.pmr
    /\ g.cached_pending.prio < RunningPrio(g)

SignalsIrq(g) == g.dist_enabled /\ g.cpu_enabled /\ Passes(g)

-----------------------------------------------------------------------------
(* The CPU interface's handshake *)

IarValue(g) == IF Passes(g) THEN g.cached_pending.id ELSE Spurious

Acknowledge(g) ==
    IF Passes(g)
    THEN Recompute([g EXCEPT !.pending = @ \ {g.cached_pending.id},
                             !.active = @ \cup {g.cached_pending.id},
                             !.running = Append(@, g.cached_pending.prio)])
    ELSE g

\* Vec::pop on an empty vector is a no-op; an id out of range only pops.
EndOfInterrupt(g, id) ==
    [g EXCEPT !.active = @ \ {id},
              !.running = IF @ = << >> THEN @ ELSE Front(@)]

-----------------------------------------------------------------------------
(* The devices' side: only a real edge recomputes *)

\* Defect: the early-return path of an edge that forgets the cache.
SetPendingNoRecompute(g, id) ==
    IF id \in Irqs \ g.pending THEN [g EXCEPT !.pending = @ \cup {id}] ELSE g

SetPending(g, id) ==
    IF id \in Irqs \ g.pending
    THEN Recompute([g EXCEPT !.pending = @ \cup {id}]) ELSE g

ClearPending(g, id) ==
    IF id \in g.pending
    THEN Recompute([g EXCEPT !.pending = @ \ {id}]) ELSE g

-----------------------------------------------------------------------------
(* Writes of the distributor's registers: each ends in a recompute *)

WriteDistCtlr(g, on) == Recompute([g EXCEPT !.dist_enabled = on])
WriteIsenabler(g, ids) == Recompute([g EXCEPT !.enabled = @ \cup ids])
WriteIcenabler(g, ids) == Recompute([g EXCEPT !.enabled = @ \ ids])
WriteIspendr(g, ids) == Recompute([g EXCEPT !.pending = @ \cup ids])
WriteIcpendr(g, ids) == Recompute([g EXCEPT !.pending = @ \ ids])
\* Defect: bit n stands for the id after it.
WriteIsactiverShifted(g, ids) == Recompute([g EXCEPT !.active = @ \cup {i + 1 : i \in ids}])

WriteIsactiver(g, ids) == Recompute([g EXCEPT !.active = @ \cup ids])
WriteIcactiver(g, ids) == Recompute([g EXCEPT !.active = @ \ ids])

\* prios: a priority for each id the access covers.
WriteIpriorityr(g, prios) ==
    Recompute([g EXCEPT !.priority =
                 [i \in Irqs |-> IF i \in DOMAIN prios THEN prios[i] ELSE @[i]]])

\* filter: TargetListFilter [25:24]; cpu0: bit 0 of CPUTargetList.
ReachesCpu0(filter, cpu0) == \/ filter = 0 /\ cpu0
                             \/ filter = 2

WriteSgir(g, sgi, filter, cpu0) ==
    Recompute(IF ReachesCpu0(filter, cpu0)
              THEN [g EXCEPT !.enabled = @ \cup {sgi}, !.pending = @ \cup {sgi}]
              ELSE g)

-----------------------------------------------------------------------------
(* Writes of the CPU interface's registers: the cache does not depend on them *)

WriteCpuCtlr(g, on) == [g EXCEPT !.cpu_enabled = on]
WritePmr(g, p) == [g EXCEPT !.pmr = p]

-----------------------------------------------------------------------------
(* What every method preserves *)

Coherent(g) == g.cached_pending = ScanPending(g)

StrictlyNested(g) ==
    \A k \in 1 .. Len(g.running) :
        /\ g.running[k] <= IdlePrio - k
        /\ k > 1 => g.running[k] < g.running[k - 1]

GicInv(g) == g \in GicType /\ Coherent(g) /\ StrictlyNested(g)
=============================================================================
