--------------------------- MODULE ContactPacing ----------------------------
(***************************************************************************)
(* The contact window and the cooldown against a clock. Executions of a    *)
(* contact action on one case read the age of its last contact and the     *)
(* hour of the day, pass or fail the gate, and only later write the        *)
(* contact_attempts row whose sentAt the next execution will read.         *)
(*                                                                         *)
(* Time moves in ticks of three minutes (half of the tenth of an hour the  *)
(* code rounds to). An execution outlives the tick it began in by at most  *)
(* one tick. Consent, disputes and the retry rules are not at stake here:  *)
(* every context below satisfies them.                                     *)
(***************************************************************************)
EXTENDS PolicyEngine

CONSTANTS
    Executions,   \* concurrent calls of execute on the case
    StartHour,    \* CONTACT_WINDOW_START_IST, 0 .. 23
    EndHour,      \* CONTACT_WINDOW_END_IST, 0 .. 24
    MinHours      \* MIN_HOURS_BETWEEN_CONTACTS

ASSUME PacingAssumption ==
    /\ StartHour \in 0 .. 23 /\ EndHour \in 0 .. 24
    /\ MinHours \in Nat

VARIABLES
    clock,   \* tick of the IST day
    age,     \* ticks since the last contact row, or Never
    sent,    \* contact rows of the case
    exec     \* per execution: "idle", or cleared by the gate and "fresh"/"late"

vars == << clock, age, sent, exec >>

TicksPerDay == 24 * TicksPerHour

\* Past this age the cooldown has long passed; the model stops counting.
AgeCap == TicksPerHour * MinHours + 2

Never == AgeCap + 1

Hour == clock \div TicksPerHour

Context ==
    [action |-> "SEND_EMAIL", retryCount |-> 0, contactCount |-> sent,
     cooled |-> age = Never \/ CooldownOk(age, MinHours),
     inWindow |-> InWindow(Hour, StartHour, EndHour),
     consented |-> TRUE, disputed |-> FALSE, failureReason |-> NoReason]

Init ==
    /\ clock = 0
    /\ age = Never
    /\ sent = 0
    /\ exec = [e \in Executions |-> "idle"]

\* evaluateCase: a denial leaves no contact, so only a clearance is a step.
Evaluate(e) ==
    /\ exec[e] = "idle"
    /\ Allowed(Context)
    /\ exec' = [exec EXCEPT ![e] = "fresh"]
    /\ UNCHANGED << clock, age, sent >>

\* The tool writes the contact row.
Contact(e) ==
    /\ exec[e] # "idle"
    /\ exec' = [exec EXCEPT ![e] = "idle"]
    /\ sent' = sent + 1
    /\ age' = 0
    /\ UNCHANGED clock

Tick ==
    /\ \A e \in Executions : exec[e] # "late"
    /\ clock' = (clock + 1) % TicksPerDay
    /\ age' = IF age < AgeCap THEN age + 1 ELSE age
    /\ exec' = [e \in Executions |->
                  IF exec[e] = "fresh" THEN "late" ELSE exec[e]]
    /\ UNCHANGED sent

Next == Tick \/ \E e \in Executions : Evaluate(e) \/ Contact(e)

Spec == Init /\ [][Next]_vars

-----------------------------------------------------------------------------
Contacts == sent' # sent

\* Executions one at a time: a second contact is never written more than half
\* the rounding step (one tick, three minutes) before the cooldown has passed.
\* The age is rounded half up before it is compared.
CooldownKeptUpToRounding ==
    [][Contacts => age = Never \/ age >= TicksPerHour * MinHours - 1]_vars

\* Executions of any number: a contact row is written inside the IST window,
\* or in the one tick after it closes by an execution cleared just before.
WrittenInsideWindow ==
    [][Contacts => \/ InWindow(Hour, StartHour, EndHour)
                   \/ \E e \in Executions :
                        /\ exec[e] = "late"
                        /\ clock = TicksPerHour * EndHour % TicksPerDay]_vars
=============================================================================
