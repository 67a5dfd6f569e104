------------------------------ MODULE MCSweeps ------------------------------
(* Values of the constants of Sweeps for TLC.                               *)
EXTENDS Sweeps

\* The younger case has the higher priority.
YoungFirst == [c \in Cases |-> c]

Limits == [loop \in Loops |-> IF loop = "batch" THEN 2 ELSE 1]

\* The shortest configuration with a contact before the escalation.
ShortScript == << "SEND_PAYMENT_LINK", "CREATE_ESCALATION" >>
=============================================================================
