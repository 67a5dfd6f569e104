--------------------------- MODULE MCEventIntake ----------------------------
(* Events and keys for checking EventIntake with TLC.                       *)
EXTENDS EventIntake, TLC

CONSTANTS e1, e2, c1

\* An overdue invoice, whose number a simulation counts as well, and a failed
\* subscription of the same customer.
Emails == e1 :> c1 @@ e2 :> c1

SourceKeys == e1 :> << "invoice", 1 >> @@ e2 :> NoKey
=============================================================================
