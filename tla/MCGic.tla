------------------------------- MODULE MCGic -------------------------------
(* Two interrupts, an SGI and the id that doubles as "spurious"; four       *)
(* priority levels.                                                         *)
EXTENDS Gic

MCIrqs == {1, 2}
MCSgis == {1}
=============================================================================
