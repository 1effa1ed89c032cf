------------------------------- MODULE Serial -------------------------------
(***************************************************************************)
(* What a serial console promises: the bytes typed by the user reach the   *)
(* guest, and those the guest writes reach the screen, once each and in    *)
(* order, as long as the machine is on; what was handed to the device      *)
(* before it went off is still shown.                                      *)
(***************************************************************************)
EXTENDS Naturals, Sequences

CONSTANTS Lines,    \* what the user may type in one go, a set of sequences
          Bytes     \* what the guest writes

VARIABLES typed,    \* bytes on their way to the guest
          written,  \* bytes on their way to the screen
          off

vars == <<typed, written, off>>

Init == typed = << >> /\ written = << >> /\ off = FALSE

Type == /\ ~off /\ \E s \in Lines : typed' = typed \o s
        /\ UNCHANGED <<written, off>>

Read == /\ ~off /\ typed # << >> /\ typed' = Tail(typed)
        /\ UNCHANGED <<written, off>>

Write == /\ ~off /\ \E b \in Bytes : written' = Append(written, b)
         /\ UNCHANGED <<typed, off>>

Show == /\ written # << >>
        /\ \E n \in 1 .. Len(written) : written' = SubSeq(written, n + 1, Len(written))
        /\ UNCHANGED <<typed, off>>

\* What the guest kept to itself is lost.
Off == /\ ~off /\ off' = TRUE
       /\ \E n \in 0 .. Len(written) : written' = SubSeq(written, 1, n)
       /\ UNCHANGED typed

Next == Type \/ Read \/ Write \/ Show \/ Off

Spec == Init /\ [][Next]_vars /\ WF_vars(Read) /\ WF_vars(Show)
=============================================================================
