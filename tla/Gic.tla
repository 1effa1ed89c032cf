-------------------------------- MODULE Gic --------------------------------
(***************************************************************************)
(* The interrupt controller of crates/platform/src/gic.rs on its own: the  *)
(* devices raise and drop lines, the guest reads and writes the registers  *)
(* of both blocks, in any order and with any value.  A register access is  *)
(* one action: the bus runs it to completion under one RefCell borrow.     *)
(*                                                                         *)
(* The modules of the devices and of the machine extend this one: `gic` is *)
(* the controller they share, and they change it by GicState's methods.    *)
(***************************************************************************)
EXTENDS GicState

VARIABLE gic

GicInit == gic = GicReset

-----------------------------------------------------------------------------
\* The ids under an access of one to eight bytes, of which each holds `perByte`.
Banks(perByte) ==
    {{id \in Irqs : perByte * off <= id /\ id < perByte * (off + size)} :
        off \in 0 .. NumIrqs \div perByte, size \in {1, 2, 4, 8}}

RaiseLine == \E id \in Irqs : gic' = SetPending(gic, id)
DropLine == \E id \in Irqs : gic' = ClearPending(gic, id)

DistWrite ==
    \/ \E on \in BOOLEAN : gic' = WriteDistCtlr(gic, on)
    \/ \E bank \in Banks(8) : \E ids \in SUBSET bank :
          \/ gic' = WriteIsenabler(gic, ids)
          \/ gic' = WriteIcenabler(gic, ids)
          \/ gic' = WriteIspendr(gic, ids)
          \/ gic' = WriteIcpendr(gic, ids)
          \/ gic' = WriteIsactiver(gic, ids)
          \/ gic' = WriteIcactiver(gic, ids)
    \/ \E bank \in Banks(1) : \E prios \in [bank -> Prios] :
          gic' = WriteIpriorityr(gic, prios)
    \/ \E sgi \in Sgis, filter \in 0 .. 3, cpu0 \in BOOLEAN :
          gic' = WriteSgir(gic, sgi, filter, cpu0)

ReadGiccIar == gic' = Acknowledge(gic)
WriteEoir == \E id \in Irqs \cup {NumIrqs} : gic' = EndOfInterrupt(gic, id)

CpuWrite ==
    \/ \E on \in BOOLEAN : gic' = WriteCpuCtlr(gic, on)
    \/ \E p \in Prios : gic' = WritePmr(gic, p)

GicNext == RaiseLine \/ DropLine \/ DistWrite \/ ReadGiccIar \/ WriteEoir \/ CpuWrite

GicSpec == GicInit /\ [][GicNext]_gic

-----------------------------------------------------------------------------
(* Properties *)

\* The record keeps the types of GicInner's fields.
GicTypeOK == gic \in GicType

\* The cache that the run loop reads once per instruction, instead of scanning
\* 1024 ids, always holds what scan_pending would return: no mutation of the
\* enable, pending or priority arrays forgets to refresh it.
CacheCoherent == Coherent(gic)

\* Interrupts nest strictly: each level of the active-priority stack is more
\* urgent than the one it preempted.  Hence at most IdlePrio interrupts are
\* ever in progress and the vector is bounded whatever the guest writes, and
\* no level has the idle priority, which running_prio uses for "nothing".
StrictNesting == StrictlyNested(gic)

\* An IAR read that acknowledges takes an enabled pending interrupt that no
\* other enabled pending interrupt outranks.
AcknowledgeStep == Len(gic'.running) > Len(gic.running)

AckTakesHighest ==
    [][AcknowledgeStep =>
         \E id \in Candidates(gic) :
            /\ id \notin gic'.pending /\ id \in gic'.active
            /\ Last(gic'.running) = gic.priority[id]
            /\ \A j \in Candidates(gic) : Beats(gic.priority, id, j)]_gic

\* Once IAR has acknowledged, the IRQ line is down: everything still pending
\* has the acknowledged priority or a lower one, so a handler that unmasks
\* interrupts is not re-entered by what it has not finished yet.
AckDropsLine == [][AcknowledgeStep => ~ SignalsIrq(gic')]_gic
=============================================================================
