---------------------------------- MODULE Jit ----------------------------------
(***************************************************************************)
(* The JIT organizer (crates/platform/src/machine/jit.rs), region          *)
(* formation (crates/jit/src/region.rs, eligible.rs) and the control flow  *)
(* of the code it emits (crates/jit/src/emit.rs, lower/mod.rs, lower/      *)
(* terminator.rs), against the interpreter of GuestCode.                   *)
(*                                                                         *)
(* "Hot" blocks run from a cache keyed by physical address, position       *)
(* independent; everything else is interpreted; IC drops the cache.        *)
(***************************************************************************)
EXTENDS GuestCode, SequencesExt

CONSTANTS
    JIT_HOTNESS,         \* entries before a block is compiled
    MAX_REGION_BLOCKS,   \* blocks in a region
    MAX_JIT_BLOCK,       \* instructions in a block
    MAX_REGION_ITERS,    \* blocks a region runs before it yields
    Count,               \* the host's budget
    Toggle               \* the page lets its user switch the JIT on and off

ASSUME JitAssumption ==
    /\ JIT_HOTNESS \in Nat \ {0, 1} /\ MAX_REGION_BLOCKS \in Nat \ {0}
    /\ MAX_JIT_BLOCK \in Nat \ {0} /\ MAX_REGION_ITERS \in Nat \ {0}
    /\ Count \in Nat \ {0} /\ Toggle \in BOOLEAN

VARIABLES
    place,      \* where run_jit_browser (or run) is
    mode,       \* "jit": the host calls run_jit_browser; "interp": run
    executed,   \* of the host's budget
    cache,      \* jit_cache: [PA -> JitBlock or None]
    ic_inval,   \* an IC retired
    nzcv,       \* the packed flags, live while a block runs
    block,      \* the region that runs, None outside
    owed,       \* history: instructions retired but not billed yet
    unit        \* history: instructions retired since service_async

jit == <<place, mode, executed, cache, ic_inval, nzcv, block, owed, unit>>
vars == <<guest, jit>>

Places == {"host", "top", "step", "block", "interp", "tail"}

-----------------------------------------------------------------------------
(* Region formation *)

can_inline(i) == i.op \in {"op", "st"}
is_branch(i) == i.op \in {"b", "cb", "bl", "blr", "ret"}

PageOf(va) == va \div PageWords

\* The longest run of inlined instructions, and the branch that ends it.
form_jit_block(start, max_len, code) ==
    LET Inlined(n) == \A k \in 0 .. n - 1 : can_inline(code[start + k])
        n == CHOOSE n \in 0 .. max_len :
                Inlined(n) /\ (n < max_len => ~ can_inline(code[start + n]))
        len == IF n < max_len /\ is_branch(code[start + n]) THEN n + 1 ELSE n
    IN  [start |-> start, insns |-> [k \in 1 .. len |-> code[start + k - 1]]]

\* Where the terminator may go; calls and indirect branches leave the region.
Targets(b) ==
    LET pc == b.start + Len(b.insns) - 1
        i == Last(b.insns)
    IN  CASE i.op = "b" -> <<Plus(pc, i.off)>>
          [] i.op = "cb" -> <<Plus(pc, i.off), Plus(pc, 1)>>
          [] OTHER -> <<>>

\* Defect: targets in other pages count.
direct_successors_anywhere(b) == Targets(b)

\* The elements of seq that lie in S.
Within(seq, S) ==
    LET kept[k \in 0 .. Len(seq)] ==
          IF k = 0 THEN <<>>
          ELSE IF seq[k] \in S THEN Append(kept[k - 1], seq[k]) ELSE kept[k - 1]
    IN  kept[Len(seq)]

direct_successors(b) == Within(Targets(b), {a \in VA : PageOf(a) = PageOf(b.start)})

Starts(blocks) == {b.start : b \in ToSet(blocks)}

\* Blocks do not span pages.
BoundOf(pc) ==
    LET to_page_end == PageWords - (pc % PageWords)
    IN  IF MAX_JIT_BLOCK < to_page_end THEN MAX_JIT_BLOCK ELSE to_page_end

\* One turn of the work loop.
Visit(s, code) ==
    LET pc == Last(s.work)
        rest == Front(s.work)
        b == form_jit_block(pc, BoundOf(pc), code)
        blocks == Append(s.blocks, b)
    IN  CASE s.work = <<>> -> s
          [] s.work # <<>> /\ (pc \in Starts(s.blocks) \/ Len(s.blocks) >= MAX_REGION_BLOCKS) ->
                [s EXCEPT !.work = rest]
          [] OTHER ->
                IF b.insns = <<>> THEN [s EXCEPT !.work = rest]
                ELSE [blocks |-> blocks,
                      work |-> rest \o Within(direct_successors(b), VA \ Starts(blocks))]

\* Each block adds two addresses to the work at most, so this many turns empty it.
Turns == 2 * MAX_REGION_BLOCKS + 1

form_region(start, code) ==
    LET visited[k \in 0 .. Turns] ==
          IF k = 0 THEN [blocks |-> <<>>, work |-> <<start>>] ELSE Visit(visited[k - 1], code)
    IN  visited[Turns].blocks

\* The words of the page, by the addresses the region is formed at.
form_jit_region(pc, pa) ==
    form_region(pc, [va \in VA |-> mem[(pa - (pa % PageWords)) + (va % PageWords)]])

\* emit_region: one block that does not branch to itself has no dispatch loop.
is_self_loop(b) ==
    Last(b.insns).op = "cb" /\ Plus(b.start + Len(b.insns) - 1, Last(b.insns).off) = b.start

Loops(blocks) == Len(blocks) > 1 \/ is_self_loop(blocks[1])

-----------------------------------------------------------------------------
(* The organizer's loop *)

Init ==
    /\ GuestInit
    /\ place = "host" /\ mode = "jit" /\ executed = 0
    /\ cache = [a \in PA |-> None] /\ ic_inval = FALSE
    /\ nzcv = FALSE /\ block = None /\ owed = 0 /\ unit = 0

EnterRun ==
    /\ place = "host"
    /\ place' = "top" /\ executed' = 0
    /\ mode' \in IF Toggle THEN {"jit", "interp"} ELSE {mode}
    /\ UNCHANGED <<guest, cache, ic_inval, nzcv, block, owed, unit>>

StopCount ==
    /\ place = "top" /\ executed >= Count
    /\ place' = "host"
    /\ UNCHANGED <<guest, mode, executed, cache, ic_inval, nzcv, block, owed, unit>>

\* service_async: the line may be up or not, and is taken if unmasked.
Service ==
    /\ place = "top" /\ executed < Count
    /\ place' = IF mode = "jit" THEN "step" ELSE "interp"
    /\ unit' = 0
    /\ Irq \/ UNCHANGED guest
    /\ UNCHANGED <<mode, executed, cache, ic_inval, nzcv, block, owed>>

Cold(n) == [kind |-> "cold", count |-> n]
Plain == [kind |-> "plain"]
Hot(entry, blocks) == [kind |-> "hot", entry |-> entry, blocks |-> blocks]

\* Defect: one count too many.
WarmedLate(entry, pc, pa) ==
    IF entry = None THEN Cold(1)
    ELSE IF entry.kind = "cold" /\ entry.count < JIT_HOTNESS THEN Cold(entry.count + 1)
    ELSE Hot(pc, form_jit_region(pc, pa))

\* jit_step: what the entry becomes, when pc is about to run from pa.
Warmed(entry, pc, pa) ==
    CASE entry = None -> Cold(1)
      [] entry # None /\ entry.kind = "cold" ->
            IF entry.count + 1 < JIT_HOTNESS THEN Cold(entry.count + 1)
            ELSE LET blocks == form_jit_region(pc, pa)
                 IN  IF blocks = <<>> THEN Plain ELSE Hot(pc, blocks)
      [] OTHER -> entry

\* A call of compiled code.  i = 0 is the top of the dispatch loop.
Call(hot) ==
    [entry |-> hot.entry, blocks |-> hot.blocks, pc0 |-> cpu.pc, ridx |-> 1,
     i |-> IF Loops(hot.blocks) THEN 0 ELSE 1, rcount |-> 0, riters |-> 0]

JitStep ==
    /\ place = "step" /\ Mapped(cpu.pc)
    /\ \E e \in {Warmed(cache[PaOf(cpu.pc)], cpu.pc, PaOf(cpu.pc))} :
          /\ cache' = [cache EXCEPT ![PaOf(cpu.pc)] = e]
          /\ IF e.kind = "hot" THEN place' = "block" /\ block' = Call(e) /\ nzcv' = cpu.flag
             ELSE place' = "interp" /\ UNCHANGED <<block, nzcv>>
    /\ UNCHANGED <<guest, mode, executed, ic_inval, owed, unit>>

\* The fetch will abort when the interpreter tries it.
JitStepUnmapped ==
    /\ place = "step" /\ ~ Mapped(cpu.pc)
    /\ place' = "interp"
    /\ UNCHANGED <<guest, mode, executed, cache, ic_inval, nzcv, block, owed, unit>>

\* Interpret one instruction.
Interpret ==
    /\ place = "interp"
    /\ \/ /\ Mapped(cpu.pc) /\ Perform(mem[PaOf(cpu.pc)])
          /\ ic_inval' = (ic_inval \/ mem[PaOf(cpu.pc)].op = "ic")
       \/ FetchAborts /\ UNCHANGED ic_inval
    /\ place' = "tail" /\ executed' = executed + 1 /\ unit' = unit + 1
    /\ UNCHANGED <<mode, cache, nzcv, block, owed>>

\* Defect: the cache survives IC.
EndUnitKeepsCache ==
    /\ place = "tail" /\ place' = "top" /\ ic_inval' = FALSE
    /\ UNCHANGED <<guest, mode, executed, cache, nzcv, block, owed, unit>>

\* IC drops the cache; run itself does not look.
EndUnit ==
    /\ place = "tail"
    /\ place' = "top"
    /\ IF mode = "jit" /\ ic_inval THEN cache' = [a \in PA |-> None] /\ ic_inval' = FALSE
       ELSE UNCHANGED <<cache, ic_inval>>
    /\ UNCHANGED <<guest, mode, executed, nzcv, block, owed, unit>>

-----------------------------------------------------------------------------
(* Compiled code *)

\* gen_rel_pc.
Rel(va) == Plus(block.pc0, va - block.entry)

Cur == block.blocks[block.ridx]
AtVa == Cur.start + (IF block.i = 0 THEN 0 ELSE block.i - 1)
InBlock == place = "block" /\ block.i \in 1 .. Len(Cur.insns)
AtInsn == Cur.insns[block.i]

\* The block function returns next; the organizer bills count instructions.
Leave(next, lr, retired, count, to) ==
    /\ cpu' = [cpu EXCEPT !.pc = next, !.lr = lr, !.flag = nzcv]
    /\ executed' = executed + count /\ place' = to /\ block' = None
    /\ owed' = owed + retired - count /\ unit' = unit + retired
    /\ UNCHANGED <<map, mode, cache, ic_inval, nzcv>>

\* Defect: iterations are not counted.
DispatchUncounted ==
    /\ place = "block" /\ block.i = 0
    /\ block' = [block EXCEPT !.i = 1]
    /\ UNCHANGED <<guest, place, mode, executed, cache, ic_inval, nzcv, owed, unit>>

\* The top of the dispatch loop.
Dispatch ==
    /\ place = "block" /\ block.i = 0 /\ block.riters < MAX_REGION_ITERS
    /\ block' = [block EXCEPT !.i = 1, !.riters = @ + 1]
    /\ UNCHANGED <<guest, place, mode, executed, cache, ic_inval, nzcv, owed, unit>>

Yield ==
    /\ place = "block" /\ block.i = 0 /\ block.riters >= MAX_REGION_ITERS
    /\ Leave(Rel(AtVa), cpu.lr, 0, block.rcount, "tail")
    /\ UNCHANGED <<mem, old>>

Retire == /\ block' = [block EXCEPT !.i = @ + 1]
          /\ owed' = owed + 1 /\ unit' = unit + 1
          /\ UNCHANGED <<cpu, map, place, mode, executed, cache, ic_inval>>

RunOp == InBlock /\ AtInsn.op = "op" /\ nzcv' = ~ nzcv /\ Retire /\ UNCHANGED <<mem, old>>

\* lower_mem: the fast path.
RunStore == InBlock /\ AtInsn.op = "st" /\ StoreEffect /\ Retire /\ UNCHANGED nzcv

\* Defect: what the block has retired before the store is not billed.
BailCountForgets == block.rcount

\* What emit_bail bills.
BailCount == block.rcount + block.i - 1

\* Defect: the organizer goes on instead of interpreting the access.
BailToTop == "tail"

\* jit_exit: the access is interpreted next.
BailTo == "interp"

Bail == /\ InBlock /\ AtInsn.op = "st"
        /\ Leave(Rel(AtVa), cpu.lr, 0, BailCount, BailTo)
        /\ UNCHANGED <<mem, old>>

\* The block ended before an instruction that is interpreted.
FallOut == /\ place = "block" /\ block.i = Len(Cur.insns) + 1
           /\ Leave(Rel(AtVa), cpu.lr, 0, block.rcount + Len(Cur.insns), "tail")
           /\ UNCHANGED <<mem, old>>

\* region_route: stay in compiled code where the target is a block of the region.
Route(target) ==
    IF Loops(block.blocks) /\ target \in Starts(block.blocks)
    THEN /\ block' = [block EXCEPT !.i = 0, !.rcount = @ + Len(Cur.insns),
                                   !.ridx = CHOOSE k \in 1 .. Len(block.blocks) :
                                               block.blocks[k].start = target]
         /\ owed' = owed + 1 /\ unit' = unit + 1
         /\ UNCHANGED <<cpu, map, place, mode, executed, cache, ic_inval, nzcv>>
    ELSE Leave(Rel(target), cpu.lr, 1, block.rcount + Len(Cur.insns), "tail")

RunBranch ==
    /\ InBlock /\ AtInsn.op \in {"b", "cb"}
    /\ Route(IF AtInsn.op = "b" \/ nzcv THEN Plus(AtVa, AtInsn.off) ELSE Plus(AtVa, 1))
    /\ UNCHANGED <<mem, old>>

\* BL, BLR and RET leave the region; BLR stores the link before it reads X30.
RunCall ==
    /\ InBlock /\ AtInsn.op \in {"bl", "blr", "ret"}
    /\ LET lr == IF AtInsn.op = "ret" THEN cpu.lr ELSE Rel(Plus(AtVa, 1))
           next == IF AtInsn.op = "bl" THEN Rel(Plus(AtVa, AtInsn.off)) ELSE lr
       IN  Leave(next, lr, 1, block.rcount + Len(Cur.insns), "tail")
    /\ UNCHANGED <<mem, old>>

Compiled == Dispatch \/ Yield \/ RunOp \/ RunStore \/ Bail \/ FallOut \/ RunBranch \/ RunCall

Run == StopCount \/ Service \/ JitStep \/ JitStepUnmapped \/ Interpret \/ EndUnit \/ Compiled

Next == EnterRun \/ Run

Spec == Init /\ [][Next]_vars

\* run_jit_browser is a loop: once called it goes on.  This is the weak fairness
\* of Run, some step of which is possible everywhere but at "host".
FairSpec == Spec /\ ([]<>(place = "host") \/ []<><<Run>>_vars)

-----------------------------------------------------------------------------
(* Properties *)

Block == [start: VA, insns: Seq(Insn)]

JitBlock == [kind: {"cold"}, count: 1 .. JIT_HOTNESS - 1] \cup {Plain}
              \cup [kind: {"hot"}, entry: VA, blocks: Seq(Block)]

Region == [entry: VA, blocks: Seq(Block), pc0: VA, ridx: Nat, i: Nat, rcount: Nat, riters: Nat]

ASSUME NoneAssumption == None \notin JitBlock \cup Region

TypeOK ==
    /\ cpu \in Cpu /\ mem \in [PA -> Insn] /\ old \in [PA -> SUBSET Insn] /\ map \in Maps
    /\ place \in Places /\ mode \in {"jit", "interp"} /\ executed \in Nat
    /\ cache \in [PA -> JitBlock \cup {None}] /\ ic_inval \in BOOLEAN /\ nzcv \in BOOLEAN
    /\ block \in Region \cup {None} /\ (block = None) = (place # "block")
    /\ owed \in Nat /\ unit \in Nat
    /\ block # None => block.ridx \in DOMAIN block.blocks /\ block.i \in 0 .. Len(Cur.insns) + 1

\* The machine the guest sees: while a block runs, its PC is where the block is.
ArchCpu == IF place = "block" THEN [cpu EXCEPT !.pc = Rel(AtVa), !.flag = nzcv] ELSE cpu
Guest == INSTANCE GuestCode WITH cpu <- ArchCpu

\* Whatever is compiled, cached, re-entered through another mapping, left at a
\* failed access or patched under the JIT's feet, the guest cannot tell it from
\* the interpreter with an instruction cache.
ImplementsGuest == Guest!GuestSpec

\* What the organizer bills is what was retired: after a bail in the middle of
\* a block, after a yield, after every way out of a region.
CountExact == place # "block" => owed = 0

\* Timers and interrupts wait for one unit, which is bounded whatever loop the
\* guest is in; so is what a call runs beyond its budget.
UnitBounded ==
    /\ unit <= MAX_REGION_ITERS * MAX_JIT_BLOCK + 1
    /\ executed < Count + MAX_REGION_ITERS * MAX_JIT_BLOCK + 1

\* A compiled region starts at its entry, keeps to its page and to its caps,
\* and holds only what the emitter can lower.
RegionOK(e) ==
    /\ Len(e.blocks) \in 1 .. MAX_REGION_BLOCKS
    /\ e.blocks[1].start = e.entry /\ IsInjective([k \in DOMAIN e.blocks |-> e.blocks[k].start])
    /\ \A b \in ToSet(e.blocks) :
          /\ Len(b.insns) \in 1 .. MAX_JIT_BLOCK
          /\ PageOf(b.start) = PageOf(e.entry)
          /\ PageOf(b.start + Len(b.insns) - 1) = PageOf(e.entry)
          /\ can_inline(Last(b.insns)) \/ is_branch(Last(b.insns))
          /\ \A k \in 1 .. Len(b.insns) - 1 : can_inline(b.insns[k])

RegionsFit == \A a \in PA : cache[a] # None /\ cache[a].kind = "hot" => RegionOK(cache[a])

\* The host gets control back, whatever the guest loops on.
RunReturns == place # "host" ~> place = "host"

\* Code that ran stale: "the organizer drops the handles so stale blocks are
\* never called".
StaleNeverCalled == InBlock => AtInsn \in old[PaOf(Rel(AtVa))]
=============================================================================
