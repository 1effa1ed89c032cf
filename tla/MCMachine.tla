------------------------------ MODULE MCMachine ------------------------------
(* Three interrupts: the two timers and a DMA device, all of one priority,  *)
(* so that interrupts do not nest (Gic does).                               *)
EXTENDS Machine

MCIrqs == {27, 30, 48}
MCPrio == [i \in MCIrqs |-> 0]
=============================================================================
