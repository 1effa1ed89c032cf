------------------------------ MODULE EventFifo ------------------------------
(***************************************************************************)
(* What a virtio input device promises: the events of the reports that the *)
(* host injects reach the guest once each and in order, a report's SYN     *)
(* after the events it closes.  A reset forgets those on their way.        *)
(***************************************************************************)
EXTENDS Sequences

CONSTANTS Reports   \* sequences of events, each closed by a SYN

VARIABLE fifo       \* the events on their way

Init == fifo = << >>

Inject == \E r \in Reports : fifo' = fifo \o r

Receive == fifo # << >> /\ fifo' = Tail(fifo)

Reset == fifo' = << >>

Next == Inject \/ Receive \/ Reset

Spec == Init /\ [][Next]_fifo
=============================================================================
