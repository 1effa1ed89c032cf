---------------------------- MODULE MCVirtioBlk ----------------------------
(* Two chains on a queue of two, indices that wrap after two laps of the    *)
(* ring, a disk of one sector and one sector beyond its end.                *)
EXTENDS VirtioBlk

MCIrqs == {48}
MCDisk == [s \in {0} |-> "zero"]
=============================================================================
