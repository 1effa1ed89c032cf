----------------------------- MODULE MCVirtioIo -----------------------------
(* Queues of two, indices that wrap after two laps, a button and a wheel   *)
(* (a keyboard's reports are a mouse's button reports); a display with one  *)
(* resource of one page.                                                    *)
EXTENDS VirtioIo

MCIrqs == {48}
MCMaxPosted == [k \in Kinds |-> IF k = "gpu" THEN 1 ELSE 2]
MCMotions == {<<0, 0, 1>>}
=============================================================================
