--------------------------------- MODULE Mmu ---------------------------------
(***************************************************************************)
(* Address translation (crates/interp/src/mmu.rs), the TLB (crates/cpu/    *)
(* src/tlb.rs), the memory accesses of an instruction (crates/interp/src/  *)
(* mem_access.rs and ldst/) and the JIT's inline fast path (crates/jit/    *)
(* src/lower/memory.rs), under a guest kernel that edits its page tables,  *)
(* invalidates, switches tables, and pages on demand.                      *)
(*                                                                         *)
(* A virtual page is its half of the address space (bit 55) and a number;  *)
(* an instruction is a sequence of elements, each the sequence of the      *)
(* pages its bytes span; only permissions and frames are kept of a         *)
(* descriptor.                                                             *)
(***************************************************************************)
EXTENDS Integers, SequencesExt

CONSTANTS
    VaBits,       \* resolvable address bits above the page offset
    LevelBits,    \* address bits a level resolves: 9
    TlbSize,      \* TLB_SIZE
    NumFrames,    \* physical frames
    Ram,          \* those of them that are RAM
    Tables,       \* translation tables
    Roots,        \* what the kernel writes to TTBR0_EL1
    KernelRoot,   \* TTBR1_EL1
    Descs,        \* the descriptors the kernel may write: [<<table, index>> -> set]
    Tables0,      \* the tables it has built when it first switches the MMU on
    AsPage,       \* how the bits of a table descriptor read as those of a page
    Insns,        \* the instructions told apart
    None

LastLevel == 3
Fan == 2 ^ LevelBits
Frames == 0 .. NumFrames - 1
Halves == {0, 1}
Pages == [half: Halves, n: 0 .. 2 ^ VaBits - 1]
AccessKinds == {"read", "write", "exec"}
Levels == 0 .. LastLevel

\* A leaf, as the walk finds it and as the TLB keeps it.
Leaf == [frame: Frames, el0_access: BOOLEAN, read_only: BOOLEAN,
         uxn: BOOLEAN, pxn: BOOLEAN, level: Levels]
Faults == [fsc: {"translation", "access_flag", "permission"}, level: Levels]
TablePerms == [no_el0: BOOLEAN, no_write: BOOLEAN, uxn: BOOLEAN, pxn: BOOLEAN]

LeafDesc == [kind: {"leaf"}, out: Frames, af: BOOLEAN, el0: BOOLEAN, ro: BOOLEAN,
             uxn: BOOLEAN, pxn: BOOLEAN]
TableDesc == [kind: {"table"}, next: Tables, perms: TablePerms]
Desc == LeafDesc \cup TableDesc \cup [kind: {"invalid"}]
Invalid == [kind |-> "invalid"]

Places == Tables \X (0 .. Fan - 1)

Entry == [tag: Pages, leaf: Leaf]

\* An instruction: what it does to which pages, checked for exception level el.
Insn == [kind: {"load", "store", "rmw", "fetch"}, elems: Seq(Seq(Pages)), el: {0, 1}]
Abort == [page: Pages, access: AccessKinds, el: {0, 1}, fault: Faults]

ASSUME MmuAssumption ==
    /\ VaBits \in Nat \ {0} /\ LevelBits \in Nat \ {0} /\ VaBits <= 4 * LevelBits
    /\ TlbSize \in Nat \ {0} /\ NumFrames \in Nat /\ Ram \subseteq Frames
    /\ Roots \subseteq Tables /\ KernelRoot \in Tables
    /\ Descs \in [Places -> SUBSET Desc] /\ Tables0 \in [Places -> Desc]
    /\ AsPage \in [TableDesc -> LeafDesc]
    /\ Insns \subseteq Insn
    /\ None \notin Insn \cup Abort \cup Leaf \cup Faults \cup Tables \cup Entry

StartingLevel == (LastLevel + 1) - ((VaBits + LevelBits - 1) \div LevelBits)

\* Pages that one descriptor of a level covers.
Span(level) == Fan ^ (LastLevel - level)

\* What powers of two are: whole pages of an address space (whose numbers are
\* frames with the MMU off), whole tables, and blocks that tile the frames.
ASSUME MmuArithmetic ==
    /\ 2 ^ VaBits \in Nat /\ 2 ^ VaBits <= NumFrames /\ Fan \in Nat \ {0}
    /\ StartingLevel \in Levels
    /\ \A level \in StartingLevel .. LastLevel :
          Span(level) \in Nat \ {0} /\ NumFrames % Span(level) = 0

VARIABLES
    tables,   \* the page tables in memory: [Places -> Desc]
    mmu_on,   \* SCTLR_EL1.M
    ttbr0,    \* TTBR0_EL1; TTBR1_EL1 stays KernelRoot
    tlb,
    dirty,    \* history: a descriptor that a TLB may hold was replaced
    insn,     \* the instruction the guest is at, None between two
    abort,    \* the abort the kernel handles
    touched   \* history: the accesses the last instruction made

vars == <<tables, mmu_on, ttbr0, tlb, dirty, insn, abort, touched>>

-----------------------------------------------------------------------------
(* The TLB: direct-mapped, and tagged with the whole page *)

Slots == 0 .. TlbSize - 1
Empty == [s \in Slots |-> None]
Index(p) == p.n % TlbSize

\* Defect: the tag is the page's number only.
LookupNoHalf(t, p) ==
    LET e == t[Index(p)] IN IF e # None /\ e.tag.n = p.n THEN e.leaf ELSE None

Lookup(t, p) == LET e == t[Index(p)] IN IF e # None /\ e.tag = p THEN e.leaf ELSE None

Insert(t, p, leaf) == [t EXCEPT ![Index(p)] = [tag |-> p, leaf |-> leaf]]

-----------------------------------------------------------------------------
(* The walk *)

\* Which descriptor of the level's table p is under.
IndexAt(level, p) == (p.n \div Span(level)) % Fan

\* Defect: the restrictions of a table descriptor are not looked at.
TightenForgotten(tp, d) == tp

\* Restrictions accumulate down the walk.
Tighten(tp, d) ==
    [no_el0 |-> tp.no_el0 \/ d.perms.no_el0, no_write |-> tp.no_write \/ d.perms.no_write,
     uxn |-> tp.uxn \/ d.perms.uxn, pxn |-> tp.pxn \/ d.perms.pxn]

\* Defect: the low bits of a block's output address are kept.
BlockFrameUnmasked(d, level, p) == d.out + (p.n % Span(level))
BlockFrame(d, level, p) == ((d.out \div Span(level)) * Span(level)) + (p.n % Span(level))

LeafOf(d, level, tp, p) ==
    [frame |-> BlockFrame(d, level, p), el0_access |-> d.el0 /\ ~ tp.no_el0,
     read_only |-> d.ro \/ tp.no_write, uxn |-> d.uxn \/ tp.uxn, pxn |-> d.pxn \/ tp.pxn,
     level |-> level]

Fault(fsc, level) == [fsc |-> fsc, level |-> level]

\* At the last level every valid descriptor is a page.
Seen(d, level) == IF level = LastLevel /\ d.kind = "table" THEN AsPage[d] ELSE d

\* The walk's loop: the table it is at, the restrictions so far, and the leaf
\* or the fault that ends it.
Cursor == [table: Tables, tp: TablePerms, found: Leaf \cup Faults \cup {None}]

Unrestricted == [no_el0 |-> FALSE, no_write |-> FALSE, uxn |-> FALSE, pxn |-> FALSE]
AtRoot(root) == [table |-> root, tp |-> Unrestricted, found |-> None]

Descend(c, t, level, p) ==
    LET d == Seen(t[<<c.table, IndexAt(level, p)>>], level)
    IN  CASE c.found # None -> c
          [] c.found = None /\ d.kind = "invalid" -> [c EXCEPT !.found = Fault("translation", level)]
          [] c.found = None /\ d.kind = "leaf" ->
               [c EXCEPT !.found = IF d.af THEN LeafOf(d, level, c.tp, p)
                                   ELSE Fault("access_flag", level)]
          [] c.found = None /\ d.kind = "table" ->
               [c EXCEPT !.table = d.next, !.tp = Tighten(c.tp, d)]

\* Where the walk through the tables t is before it reads a level's table.
CursorIn(t, root, p) ==
    LET walk[level \in StartingLevel .. LastLevel + 1] ==
          IF level = StartingLevel THEN AtRoot(root)
          ELSE Descend(walk[level - 1], t, level - 1, p)
    IN  walk

Root(p) == IF p.half = 1 THEN KernelRoot ELSE ttbr0

\* A leaf, or the fault it ends in.
WalkIn(t, p) == CursorIn(t, Root(p), p)[LastLevel + 1].found

Walk(p) == WalkIn(tables, p)

-----------------------------------------------------------------------------
(* translate *)

\* check_perms.
Permits(leaf, access, el) ==
    CASE access = "read" -> el # 0 \/ leaf.el0_access
      [] access = "write" -> (el # 0 \/ leaf.el0_access) /\ ~ leaf.read_only
      [] access = "exec" -> IF el = 0 THEN ~ leaf.uxn ELSE ~ leaf.pxn

\* The outcome of a translation: the TLB after it, and a frame or a fault.
Checked(t, leaf, access, el) ==
    IF Permits(leaf, access, el) THEN [tlb |-> t, ok |-> TRUE, frame |-> leaf.frame]
    ELSE [tlb |-> t, ok |-> FALSE, fault |-> Fault("permission", leaf.level)]

TranslateMiss(t, p, access, el) ==
    LET w == Walk(p)
    IN  IF w \in Faults THEN [tlb |-> t, ok |-> FALSE, fault |-> w]
        ELSE Checked(Insert(t, p, w), w, access, el)

\* With the MMU off an address is its own translation.
Translate(t, p, access, el) ==
    IF ~ mmu_on THEN [tlb |-> t, ok |-> TRUE, frame |-> p.n]
    ELSE IF Lookup(t, p) # None THEN Checked(t, Lookup(t, p), access, el)
    ELSE TranslateMiss(t, p, access, el)

\* The JIT's inline path: the TLB's entry, RAM, and permission at the current
\* exception level; whatever fails leaves the access to the interpreter.
FastPath(p, store, el) ==
    LET leaf == Lookup(tlb, p)
    IN  /\ leaf # None /\ leaf.frame \in Ram
        /\ el # 0 \/ leaf.el0_access
        /\ store => ~ leaf.read_only

-----------------------------------------------------------------------------
(* One instruction: gather and scatter stop at a fault, the next element of *)
(* a pair is accessed all the same, and the last abort recorded counts.     *)

Start == [tlb |-> tlb, abort |-> None, stop |-> FALSE, touched |-> {}]

\* One chunk of an element: the part of it that lies in one page.
Chunk(s, p, access, el) ==
    LET r == Translate(s.tlb, p, access, el)
    IN  IF s.stop THEN s
        ELSE IF r.ok
        THEN [s EXCEPT !.tlb = r.tlb,
                       !.touched = @ \cup {[page |-> p, access |-> access, el |-> el,
                                            frame |-> r.frame]}]
        ELSE [s EXCEPT !.tlb = r.tlb, !.stop = TRUE,
                       !.abort = [page |-> p, access |-> access, el |-> el,
                                  fault |-> r.fault]]

\* The chunks of an element in turn.
Chunks(s, pages, access, el) ==
    LET run[k \in 0 .. Len(pages)] ==
          IF k = 0 THEN [s EXCEPT !.stop = FALSE] ELSE Chunk(run[k - 1], pages[k], access, el)
    IN  run[Len(pages)]

\* Defect: the abort names the start of the access.
ElementNamesStart(s, pages, access, el) ==
    LET t == Chunks(s, pages, access, el)
    IN  IF t.stop THEN [t EXCEPT !.abort.page = pages[1]] ELSE t

Element(s, pages, access, el) == Chunks(s, pages, access, el)

Elements(s, elems, access, el) ==
    LET run[k \in 0 .. Len(elems)] ==
          IF k = 0 THEN s ELSE Element(run[k - 1], elems[k], access, el)
    IN  run[Len(elems)]

\* A read-modify-write reads, and writes unless the read aborted.
Performed(i) ==
    LET read == Elements(Start, i.elems, "read", i.el)
    IN  CASE i.kind = "load" -> read
          [] i.kind = "store" -> Elements(Start, i.elems, "write", i.el)
          [] i.kind = "fetch" -> Elements(Start, i.elems, "exec", i.el)
          [] i.kind = "rmw" -> IF read.abort # None THEN read
                               ELSE Elements(read, i.elems, "write", i.el)

-----------------------------------------------------------------------------
(* The guest *)

Init ==
    /\ tables = Tables0 /\ mmu_on = FALSE /\ ttbr0 \in Roots /\ tlb = Empty
    /\ dirty = FALSE /\ insn = None /\ abort = None /\ touched = {}

AtKernel == insn = None

\* What an architecture lets a TLB hold: not what faults in the walk.
Cacheable(d) == d.kind = "table" \/ (d.kind = "leaf" /\ d.af)

WriteDesc(place, d) ==
    /\ tables' = [tables EXCEPT ![place] = d]
    /\ dirty' = (dirty \/ (mmu_on /\ tables[place] # d /\ Cacheable(tables[place])))

EditTables == /\ AtKernel
              /\ \E place \in Places : \E d \in Descs[place] : WriteDesc(place, d)
              /\ UNCHANGED <<mmu_on, ttbr0, tlb, insn, abort, touched>>

\* TLBI, of whatever scope, and every write of a translation-control register.
Flush == tlb' = Empty /\ dirty' = FALSE /\ UNCHANGED <<tables, insn, abort, touched>>

Tlbi == AtKernel /\ Flush /\ UNCHANGED <<mmu_on, ttbr0>>

MsrTtbr0 == /\ AtKernel /\ Flush
            /\ ttbr0' \in Roots
            /\ UNCHANGED mmu_on

\* Defect: the TLB survives.
MsrSctlrNoFlush == /\ AtKernel
                   /\ mmu_on' \in BOOLEAN
                   /\ UNCHANGED <<ttbr0, tables, tlb, dirty, insn, abort, touched>>

MsrSctlr == /\ AtKernel /\ Flush
            /\ mmu_on' \in BOOLEAN
            /\ UNCHANGED ttbr0

\* With the MMU off the guest runs in the low half, where RAM is.
PagesOf(i) == UNION {ToSet(pages) : pages \in ToSet(i.elems)}

Issue == /\ AtKernel
         /\ insn' \in {i \in Insns : mmu_on \/ \A p \in PagesOf(i) : p.half = 0}
         /\ UNCHANGED <<tables, mmu_on, ttbr0, tlb, dirty, abort, touched>>

\* An instruction that aborts is tried again after the handler.
Execute ==
    /\ insn # None /\ abort = None
    /\ \E s \in {Performed(insn)} :
          /\ tlb' = s.tlb /\ touched' = s.touched /\ abort' = s.abort
          /\ insn' = IF s.abort = None THEN None ELSE insn
    /\ UNCHANGED <<tables, mmu_on, ttbr0, dirty>>

-----------------------------------------------------------------------------
(* The kernel's abort handler: demand paging, access flags, copy on write *)

AccessesOf(i) == CASE i.kind = "load" -> {"read"} [] i.kind = "store" -> {"write"}
                   [] i.kind = "fetch" -> {"exec"} [] i.kind = "rmw" -> {"read", "write"}

\* How far an access gets with the tables t.
Progress(t, p, access, el) ==
    LET w == WalkIn(t, p)
    IN  CASE w \notin Faults /\ Permits(w, access, el) -> LastLevel + 3
          [] w \notin Faults /\ ~ Permits(w, access, el) -> LastLevel + 2
          [] w \in Faults /\ w.fsc = "access_flag" -> LastLevel + 1
          [] w \in Faults /\ w.fsc = "translation" -> w.level

Goes(a) == Progress(tables, a.page, a.access, a.el) = LastLevel + 3

\* An edit that serves the abort, and takes nothing from the instruction.
Serves(place, d) ==
    LET new == [tables EXCEPT ![place] = d]
    IN  /\ Progress(new, abort.page, abort.access, abort.el)
             > Progress(tables, abort.page, abort.access, abort.el)
        /\ \A p \in PagesOf(insn), access \in AccessesOf(insn) :
              Progress(new, p, access, insn.el) >= Progress(tables, p, access, insn.el)

PageIn == /\ abort # None
          /\ \E place \in Places : \E d \in Descs[place] :
                Serves(place, d) /\ WriteDesc(place, d)
          /\ UNCHANGED <<mmu_on, ttbr0, tlb, insn, abort, touched>>

\* TLBI where the kernel has replaced a descriptor, and ERET.
Resume == /\ abort # None /\ Goes(abort)
          /\ tlb' = IF dirty THEN Empty ELSE tlb
          /\ dirty' = FALSE /\ abort' = None
          /\ UNCHANGED <<tables, mmu_on, ttbr0, insn, touched>>

\* An access that nothing can allow is a SIGSEGV.
Kill == /\ abort # None /\ ~ Goes(abort)
        /\ \A place \in Places : \A d \in Descs[place] : ~ Serves(place, d)
        /\ insn' = None /\ abort' = None
        /\ UNCHANGED <<tables, mmu_on, ttbr0, tlb, dirty, touched>>

Kernel == EditTables \/ Tlbi \/ MsrTtbr0 \/ MsrSctlr
Handler == PageIn \/ Resume \/ Kill

Next == Kernel \/ Issue \/ Execute \/ Handler

Spec == Init /\ [][Next]_vars

\* run goes on, and the kernel's handler does not stop half way: the weak
\* fairness of Execute \/ Handler, one of which can act whenever insn # None.
FairSpec == Spec /\ ([]<>(insn = None) \/ []<><<Execute \/ Handler>>_vars)

-----------------------------------------------------------------------------
(* Properties *)

\* Each variable keeps its type; a leaf names a frame that exists.
TypeOK ==
    /\ tables \in [Places -> Desc] /\ mmu_on \in BOOLEAN /\ ttbr0 \in Roots
    /\ tlb \in [Slots -> Entry \cup {None}] /\ dirty \in BOOLEAN
    /\ insn \in Insns \cup {None} /\ abort \in Abort \cup {None}
    /\ touched \subseteq [page: Pages, access: AccessKinds, el: {0, 1}, frame: Frames]

\* The TLB answers as a walk would, as long as the kernel owes no TLBI: it
\* owes one only where it replaced a descriptor that was valid -- mapping a
\* page that was not, or setting an access flag, needs none -- and none across
\* a write of TTBR0 or SCTLR.
TlbCoherent ==
    (mmu_on /\ ~ dirty) =>
        \A p \in Pages : Lookup(tlb, p) # None => Lookup(tlb, p) = Walk(p)

\* Where the JIT's inline path goes ahead, the interpreter would have reached
\* the same frame, changed nothing of the TLB and raised no abort -- although
\* the inline path does not look at SCTLR.
FastPathAgrees ==
    \A p \in Pages, el \in {0, 1}, store \in BOOLEAN :
        FastPath(p, store, el) =>
            Translate(tlb, p, IF store THEN "write" ELSE "read", el)
              = [tlb |-> tlb, ok |-> TRUE, frame |-> Lookup(tlb, p).frame]

\* The architecture's rule, without a walk: every descriptor on the path
\* from the root to the page has to allow the access.
TableAt(p) ==
    LET at[l \in StartingLevel .. LastLevel] ==
          IF l = StartingLevel THEN Root(p)
          ELSE IF at[l - 1] = None THEN None
          ELSE LET d == tables[<<at[l - 1], IndexAt(l - 1, p)>>]
               IN  IF d.kind = "table" THEN d.next ELSE None
    IN  at

Allows(d, access, el) ==
    LET user == el = 0 /\ access # "exec"
        xn == IF el = 0 THEN "uxn" ELSE "pxn"
    IN  \/ /\ d.kind = "table"
           /\ user => ~ d.perms.no_el0
           /\ access = "write" => ~ d.perms.no_write
           /\ access = "exec" => ~ d.perms[xn]
        \/ /\ d.kind = "leaf" /\ d.af
           /\ user => d.el0
           /\ access = "write" => ~ d.ro
           /\ access = "exec" => ~ d[xn]

Granted(p, access, el) ==
    \A at \in {TableAt(p)} : \A l \in StartingLevel .. LastLevel :
        at[l] # None => Allows(Seen(tables[<<at[l], IndexAt(l, p)>>], l), access, el)

\* While the kernel owes no TLBI, an instruction makes exactly accesses the
\* tables grant, and aborts only on one they refuse, through whatever pages it
\* spans and whatever order they conflict in the TLB.
AccessesFollowTables ==
    [][insn # None /\ abort = None /\ mmu_on /\ ~ dirty =>
         /\ \A a \in touched' : Granted(a.page, a.access, a.el)
         /\ abort' # None => ~ Granted(abort'.page, abort'.access, abort'.el)]_vars

\* An instruction that aborts completes in the end, or nothing can allow it:
\* each abort names a page to serve, and what was served stays so on the retry.
InsnCompletes == insn # None ~> insn = None
=============================================================================
