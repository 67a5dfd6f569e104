------------------------------- MODULE Promises -------------------------------
(***************************************************************************)
(* Promises to pay. A voice call records or refreshes the promise of a     *)
(* case; the sweep sends one reminder before the promised date and one     *)
(* after it, both through the policy gate, and then hands the case to a    *)
(* human; an operator settles a promise by hand; and a verified payment    *)
(* fulfils it. Any of these may run at once on the same case, and a        *)
(* handler may die between two database calls.                             *)
(*                                                                         *)
(* A sweep reads many promises and works through them one after the other: *)
(* here it is one handler per promise, which may be delayed after its read *)
(* for as long as the ones before it could delay it. An email is a contact *)
(* row; what becomes of it is the Outbox module's. A dispute acts on       *)
(* reminders as a missing consent does, and is left out.                   *)
(***************************************************************************)
EXTENDS PolicyEngine, FiniteSets

CONSTANTS
    Cases,
    Requests,      \* handlers that may run at once
    NoCase,
    Offered,       \* actions other callers of execute ask for
    Outcomes,      \* how an operator settles: "SUCCESS", "FAILURE"
    MaxRecords,    \* bound on the times a promise is recorded
    MaxContacts,   \* bound on contact rows
    MaxNights,     \* bound on the times the contact window closes
    MaxFaults      \* bound on handlers that die

ASSUME PromisesAssumption ==
    /\ NoCase \notin Cases
    /\ IsFiniteSet(Requests)
    /\ Offered \subseteq {"SEND_EMAIL", "CREATE_ESCALATION", "CLOSE_CASE"}
    /\ Outcomes \subseteq {"SUCCESS", "FAILURE"}
    /\ MaxRecords \in Nat /\ MaxContacts \in Nat
    /\ MaxNights \in Nat /\ MaxFaults \in Nat

VARIABLES
    status,      \* RecoveryCase.status
    promise,     \* PromiseToPay.status
    due,         \* promisedOn: "later", "soon" (inside the lead), "past"
    followUps,   \* PromiseToPay.followUps
    flagged,     \* promises with remindedAt set
    early,       \* reminders sent before the date of the current promise
    missed,      \* reminders sent after it
    records,     \* times the promise was recorded or refreshed
    contacts,    \* contact rows of the case
    cooled,      \* cases outside the contact cooldown
    consenting,  \* cases whose customer accepts email
    inWindow,
    nights,
    faults,
    task         \* per handler: next database call and what it has read

rows == << status, promise, followUps, flagged >>
sent == << early, missed, contacts, cooled >>
world == << due, records, consenting, inWindow, nights, faults >>
vars == << rows, sent, world, task >>

Steps == {"idle", "find", "upsert", "mark", "execute", "evaluate", "load",
          "contact", "finish", "update", "flag", "followUp", "break", "keep",
          "verify", "commit"}

\* On whose behalf a handler runs; decides what follows its tool.
Purposes == {"request", "early", "missed", "broken", "settle"}

Idle == [at |-> "idle", on |-> NoCase, for |-> "request",
         action |-> "NO_ACTION", may |-> FALSE]

Init ==
    /\ status = [c \in Cases |-> "OPEN"]
    /\ promise = [c \in Cases |-> "NONE"]
    /\ due = [c \in Cases |-> "later"]
    /\ followUps = [c \in Cases |-> 0]
    /\ flagged = {}
    /\ early = [c \in Cases |-> 0] /\ missed = [c \in Cases |-> 0]
    /\ records = [c \in Cases |-> 0]
    /\ contacts = [c \in Cases |-> 0]
    /\ cooled = Cases
    /\ consenting \in SUBSET Cases
    /\ inWindow \in BOOLEAN
    /\ nights = 0 /\ faults = 0
    /\ task = [r \in Requests |-> Idle]

At(r, step) == task[r].at = step
Goto(r, step) == task' = [task EXCEPT ![r].at = step]
Done(r) == task' = [task EXCEPT ![r] = Idle]

Start(r, c, step, for, action) ==
    /\ At(r, "idle")
    /\ task' = [task EXCEPT ![r] = [Idle EXCEPT !.at = step, !.on = c,
                                      !.for = for, !.action = action]]

Active(c) == status[c] \in ActiveStatuses
Open(c) == promise[c] \in OpenPromises

-----------------------------------------------------------------------------
(* recordPromise *)

BeginRecord(r, c) ==
    /\ At(r, "idle") /\ Active(c) /\ records[c] < MaxRecords
    /\ task' = [task EXCEPT ![r] =
                  [Idle EXCEPT !.at = "find", !.on = c,
                               !.may = status[c] # "WAITING_CUSTOMER"]]
    /\ UNCHANGED << rows, sent, world >>

\* Whether to update or to create. The status read before is kept in "may", so
\* what was found is kept in the action of the handler.
FindPromise(r) ==
    /\ At(r, "find")
    /\ task' = [task EXCEPT ![r].at = "upsert",
                  ![r].action = IF promise[task[r].on] = "NONE"
                                THEN "CREATE" ELSE "UPDATE"]
    /\ UNCHANGED << rows, sent, world >>

\* caseId is unique: of two creations the second fails. Neither writes remindedAt.
UpsertPromise(r) ==
    LET c == task[r].on IN
    /\ At(r, "upsert") /\ records[c] < MaxRecords
    /\ IF task[r].action = "CREATE" /\ promise[c] # "NONE"
       THEN Done(r) /\ UNCHANGED << rows, sent, world >>
       ELSE /\ promise' = [promise EXCEPT ![c] = "RECORDED"]
            /\ followUps' = [followUps EXCEPT ![c] = 0]
            /\ due' \in {[due EXCEPT ![c] = d] : d \in {"later", "soon"}}
            /\ records' = [records EXCEPT ![c] = @ + 1]
            /\ early' = [early EXCEPT ![c] = 0]
            /\ missed' = [missed EXCEPT ![c] = 0]
            /\ Goto(r, "mark")
            /\ UNCHANGED << status, flagged, contacts, cooled, consenting,
                            inWindow, nights, faults >>

MarkWaiting(r) ==
    /\ At(r, "mark")
    /\ status' = IF task[r].may
                 THEN [status EXCEPT ![task[r].on] = "WAITING_CUSTOMER"]
                 ELSE status
    /\ Done(r)
    /\ UNCHANGED << promise, followUps, flagged, sent, world >>

-----------------------------------------------------------------------------
(* sweep: what a promise it has read leads to *)

\* A promise about to fall due that nobody was reminded of.
ScanUpcoming(r, c) ==
    /\ due[c] = "soon" /\ c \notin flagged /\ Open(c) /\ Active(c)
    /\ Start(r, c, "execute", "early", "SEND_EMAIL")
    /\ UNCHANGED << rows, sent, world >>

\* Mutant of ScanDue: promises of escalated and closed cases are passed over.
ScanDueOfActive(r, c) ==
    /\ due[c] = "past" /\ Open(c)
    /\ \/ status[c] = "RECOVERED" /\ Start(r, c, "keep", "missed", "NO_ACTION")
       \/ /\ Active(c) /\ followUps[c] = 0
          /\ Start(r, c, "execute", "missed", "SEND_EMAIL")
       \/ /\ Active(c) /\ followUps[c] > 0
          /\ Start(r, c, "execute", "broken", "CREATE_ESCALATION")
    /\ UNCHANGED << rows, sent, world >>

\* A missed promise: closed with its case, reminded once, then escalated.
ScanDue(r, c) ==
    /\ due[c] = "past" /\ Open(c)
    /\ \/ status[c] = "RECOVERED" /\ Start(r, c, "keep", "missed", "NO_ACTION")
       \/ /\ status[c] \in {"ESCALATED", "CLOSED_LOST"}
          /\ Start(r, c, "break", "missed", "NO_ACTION")
       \/ /\ Active(c) /\ followUps[c] = 0
          /\ Start(r, c, "execute", "missed", "SEND_EMAIL")
       \/ /\ Active(c) /\ followUps[c] > 0
          /\ Start(r, c, "execute", "broken", "CREATE_ESCALATION")
    /\ UNCHANGED << rows, sent, world >>

Flag(r) ==
    /\ At(r, "flag")
    /\ flagged' = flagged \cup {task[r].on}
    /\ Done(r)
    /\ UNCHANGED << status, promise, followUps, sent, world >>

\* Mutant of FollowUp: the follow-up is not counted.
FollowUpUncounted(r) ==
    /\ At(r, "followUp")
    /\ promise' = [promise EXCEPT ![task[r].on] = "FOLLOWED_UP"]
    /\ Done(r)
    /\ UNCHANGED << status, followUps, flagged, sent, world >>

FollowUp(r) ==
    LET c == task[r].on IN
    /\ At(r, "followUp")
    /\ promise' = [promise EXCEPT ![c] = "FOLLOWED_UP"]
    /\ followUps' = [followUps EXCEPT ![c] = @ + 1]
    /\ Done(r)
    /\ UNCHANGED << status, flagged, sent, world >>

-----------------------------------------------------------------------------
(* settle, and markPromise, which it shares with the sweep *)

\* Mutant of Settle: a promise already settled can be settled again.
SettleAgain(r, c, outcome) ==
    /\ At(r, "idle") /\ promise[c] # "NONE"
    /\ task' = [task EXCEPT ![r] =
                  [Idle EXCEPT !.at = IF outcome = "SUCCESS" THEN "keep"
                                                             ELSE "break",
                               !.on = c, !.for = "settle",
                               !.action = "CREATE_ESCALATION",
                               !.may = status[c] # "RECOVERED"]]
    /\ UNCHANGED << rows, sent, world >>

Settle(r, c, outcome) ==
    /\ At(r, "idle") /\ Open(c)
    /\ task' = [task EXCEPT ![r] =
                  [Idle EXCEPT !.at = IF outcome = "SUCCESS" THEN "keep"
                                                             ELSE "break",
                               !.on = c, !.for = "settle",
                               !.action = "CREATE_ESCALATION",
                               !.may = status[c] # "RECOVERED"]]
    /\ UNCHANGED << rows, sent, world >>

\* A settled promise is fulfilled first and its payment verified afterwards,
\* unless the case was recovered when it was read.
Keep(r) ==
    /\ At(r, "keep")
    /\ promise' = [promise EXCEPT ![task[r].on] = "FULFILLED"]
    /\ IF task[r].for = "settle" /\ task[r].may THEN Goto(r, "verify")
                                                ELSE Done(r)
    /\ UNCHANGED << status, followUps, flagged, sent, world >>

\* Mutant of Break: a status the schema does not know.
BreakAsMissed(r) ==
    /\ At(r, "break")
    /\ promise' = [promise EXCEPT ![task[r].on] = "MISSED"]
    /\ Done(r)
    /\ UNCHANGED << status, followUps, flagged, sent, world >>

\* A settled promise is broken first and its case escalated afterwards.
Break(r) ==
    /\ At(r, "break")
    /\ promise' = [promise EXCEPT ![task[r].on] = "BROKEN"]
    /\ IF task[r].for = "settle" THEN Goto(r, "execute") ELSE Done(r)
    /\ UNCHANGED << status, followUps, flagged, sent, world >>

-----------------------------------------------------------------------------
(* simulateCustomer with a success: read, then commit. Called by settle, by
   the provider's webhook and by demo verification. *)

BeginPayment(r, c) ==
    /\ Start(r, c, "verify", "request", "NO_ACTION")
    /\ status[c] \in VerifiableStatuses
    /\ UNCHANGED << rows, sent, world >>

Verify(r) ==
    /\ At(r, "verify")
    /\ IF status[task[r].on] \in VerifiableStatuses
       THEN task' = [task EXCEPT ![r].at = "commit",
                                 ![r].may = Open(task[r].on)]
       ELSE Done(r)
    /\ UNCHANGED << rows, sent, world >>

Commit(r) ==
    LET c == task[r].on IN
    /\ At(r, "commit")
    /\ status' = [status EXCEPT ![c] = "RECOVERED"]
    /\ promise' = IF task[r].may THEN [promise EXCEPT ![c] = "FULFILLED"]
                                 ELSE promise
    /\ Done(r)
    /\ UNCHANGED << followUps, flagged, sent, world >>

-----------------------------------------------------------------------------
(* execute and the tools it runs for a promise *)

BeginRequest(r, c, action) ==
    /\ Active(c)
    /\ Start(r, c, "execute", "request", action)
    /\ UNCHANGED << rows, sent, world >>

\* It throws for a terminal case, which ends the handler.
Execute(r) ==
    /\ At(r, "execute")
    /\ IF Active(task[r].on) THEN Goto(r, "evaluate") ELSE Done(r)
    /\ UNCHANGED << rows, sent, world >>

Context(c, action) ==
    [action |-> action, retryCount |-> 0, contactCount |-> contacts[c],
     cooled |-> c \in cooled, inWindow |-> inWindow,
     consented |-> c \in consenting, disputed |-> FALSE,
     failureReason |-> NoReason]

\* A deferred reminder (NO_ACTION) is left to a later sweep.
Evaluate(r) ==
    LET effective == Effective(Context(task[r].on, task[r].action)) IN
    /\ At(r, "evaluate")
    /\ IF effective = "NO_ACTION"
       THEN Done(r)
       ELSE task' = [task EXCEPT ![r].at = "load", ![r].action = effective]
    /\ UNCHANGED << rows, sent, world >>

LoadCase(r) ==
    /\ At(r, "load")
    /\ IF ~Active(task[r].on) THEN Done(r)
       ELSE Goto(r, IF task[r].action = "SEND_EMAIL" THEN "contact" ELSE "finish")
    /\ UNCHANGED << rows, sent, world >>

CreateAttempt(r) ==
    LET c == task[r].on IN
    /\ At(r, "contact") /\ contacts[c] < MaxContacts
    /\ contacts' = [contacts EXCEPT ![c] = @ + 1]
    /\ cooled' = cooled \ {c}
    /\ early' = IF task[r].for = "early" THEN [early EXCEPT ![c] = @ + 1] ELSE early
    /\ missed' = IF task[r].for = "missed" THEN [missed EXCEPT ![c] = @ + 1]
                                           ELSE missed
    /\ Goto(r, "finish")
    /\ UNCHANGED << rows, world >>

FinishLoad(r) ==
    /\ At(r, "finish")
    /\ task' = [task EXCEPT ![r].at = "update",
                  ![r].may = task[r].action = "CREATE_ESCALATION"
                               \/ Active(task[r].on)]
    /\ UNCHANGED << rows, sent, world >>

StatusAfter(action) ==
    IF action = "SEND_EMAIL" THEN "WAITING_CUSTOMER"
    ELSE IF action = "CREATE_ESCALATION" THEN "ESCALATED" ELSE "CLOSED_LOST"

\* Mutant of AfterTool: the reminder before the date counts as the follow-up.
AfterToolCounting(for, action) ==
    IF for \in {"early", "missed"} /\ action = "SEND_EMAIL" THEN "followUp"
    ELSE IF for \in {"missed", "broken"} THEN "break"
    ELSE "idle"

\* What the caller of execute does next with the action that ran.
AfterTool(for, action) ==
    IF for = "early" /\ action = "SEND_EMAIL" THEN "flag"
    ELSE IF for = "missed" /\ action = "SEND_EMAIL" THEN "followUp"
    ELSE IF for \in {"missed", "broken"} THEN "break"
    ELSE "idle"

FinishUpdate(r) ==
    LET next == AfterTool(task[r].for, task[r].action) IN
    /\ At(r, "update")
    /\ status' = IF task[r].may
                 THEN [status EXCEPT ![task[r].on] = StatusAfter(task[r].action)]
                 ELSE status
    /\ IF next = "idle" THEN Done(r) ELSE Goto(r, next)
    /\ UNCHANGED << promise, followUps, flagged, sent, world >>

-----------------------------------------------------------------------------
Abort(r) ==
    /\ ~At(r, "idle") /\ faults < MaxFaults
    /\ Done(r)
    /\ faults' = faults + 1
    /\ UNCHANGED << rows, sent, due, records, consenting, inWindow, nights >>

Time(c) ==
    /\ Open(c) /\ due[c] # "past"
    /\ due' = [due EXCEPT ![c] = IF @ = "later" THEN "soon" ELSE "past"]
    /\ UNCHANGED << rows, sent, records, consenting, inWindow, nights, faults, task >>

Dawn ==
    /\ ~inWindow
    /\ inWindow' = TRUE
    /\ UNCHANGED << rows, sent, due, records, consenting, nights, faults, task >>

Dusk ==
    /\ inWindow /\ nights < MaxNights
    /\ inWindow' = FALSE
    /\ nights' = nights + 1
    /\ UNCHANGED << rows, sent, due, records, consenting, faults, task >>

CooldownPasses(c) ==
    /\ c \notin cooled
    /\ cooled' = cooled \cup {c}
    /\ UNCHANGED << rows, early, missed, contacts, world, task >>

SetPreference(c) ==
    /\ consenting' = IF c \in consenting THEN consenting \ {c}
                                         ELSE consenting \cup {c}
    /\ UNCHANGED << rows, sent, due, records, inWindow, nights, faults, task >>

Begin(r, c) ==
    \/ BeginRecord(r, c) \/ ScanUpcoming(r, c) \/ ScanDue(r, c)
    \/ \E outcome \in Outcomes : Settle(r, c, outcome)
    \/ BeginPayment(r, c)
    \/ \E action \in Offered : BeginRequest(r, c, action)

Continue(r) ==
    \/ FindPromise(r) \/ UpsertPromise(r) \/ MarkWaiting(r)
    \/ Flag(r) \/ FollowUp(r) \/ Keep(r) \/ Break(r)
    \/ Verify(r) \/ Commit(r)
    \/ Execute(r) \/ Evaluate(r) \/ LoadCase(r) \/ CreateAttempt(r)
    \/ FinishLoad(r) \/ FinishUpdate(r)

Next ==
    \/ \E r \in Requests : Continue(r) \/ Abort(r) \/ \E c \in Cases : Begin(r, c)
    \/ \E c \in Cases : Time(c) \/ CooldownPasses(c) \/ SetPreference(c)
    \/ Dawn \/ Dusk

Spec == Init /\ [][Next]_vars

\* Handlers that run go on, the clocks run, and the sweep is called again and
\* again and gets to every promise it finds due. No customer, operator or other
\* caller has to do anything.
FairSpec ==
    /\ Spec
    /\ \A r \in Requests : WF_vars(Continue(r))
    /\ \A c \in Cases : /\ WF_vars(Time(c)) /\ WF_vars(CooldownPasses(c))
                        /\ SF_vars(\E r \in Requests : ScanDue(r, c))
    /\ WF_vars(Dawn)

-----------------------------------------------------------------------------
(* Properties *)

TypeOK ==
    /\ status \in [Cases -> CaseStatuses]
    /\ promise \in [Cases -> PromiseStatuses]
    /\ due \in [Cases -> {"later", "soon", "past"}]
    /\ followUps \in [Cases -> Nat]
    /\ flagged \subseteq Cases
    /\ early \in [Cases -> Nat] /\ missed \in [Cases -> Nat]
    /\ records \in [Cases -> 0 .. MaxRecords]
    /\ contacts \in [Cases -> 0 .. MaxContacts]
    /\ cooled \subseteq Cases /\ consenting \subseteq Cases
    /\ inWindow \in BOOLEAN
    /\ nights \in 0 .. MaxNights /\ faults \in 0 .. MaxFaults
    /\ task \in [Requests -> [at : Steps, on : Cases \cup {NoCase}, for : Purposes,
                              action : Actions \cup {"CREATE", "UPDATE"},
                              may : BOOLEAN]]
    /\ \A r \in Requests : ~At(r, "idle") => task[r].on \in Cases

\* One promise brings at most one reminder after its date per sweep that runs at
\* the same time, and one more per sweep that died before it had counted its own;
\* a sweep that begins after the reminder was counted never sends another.
FollowUpsBounded ==
    \A c \in Cases : missed[c] =< Cardinality(Requests) + faults

\* A sweep hands a promise that was never refreshed to a human only after a
\* reminder of its date has gone out. (A sweep that reminded of the old date counts
\* its follow-up on the refreshed promise, which is then escalated without one.)
EscalatedAfterReminder ==
    [][\A r \in Requests, c \in Cases :
         ScanDue(r, c) /\ task'[r].for = "broken" /\ records[c] = 1
             => missed[c] > 0]_vars

\* Handlers past the check that would stop them on a recovered case.
Busy(c) ==
    {r \in Requests :
        task[r].on = c /\ task[r].at \notin {"execute", "evaluate", "load"}}

Kept(c) == promise[c] = "FULFILLED" /\ status[c] = "RECOVERED" /\ Busy(c) = {}

\* A kept promise stays kept: once the payment is verified and the handlers that
\* had read the promise before are gone, no sweep, settlement or call reopens it,
\* breaks it, or sends its case back to work.
KeptStaysKept == [][\A c \in Cases : Kept(c) => Kept(c)']_vars

\* A promise whose date passes does not stay open: it is paid, refreshed or ends
\* in human hands, whatever the customer's preferences do, however often others
\* contact the customer meanwhile, and though some handlers die.
EveryMissedPromiseEnds ==
    \A c \in Cases :
        Open(c) /\ due[c] = "past" ~> ~Open(c) \/ due[c] # "past"
=============================================================================
