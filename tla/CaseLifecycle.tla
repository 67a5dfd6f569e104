--------------------------- MODULE CaseLifecycle ----------------------------
(***************************************************************************)
(* Recovery cases under concurrent requests: the bounded execution loop    *)
(* (gate, then tool), AI diagnosis, payment verification and voice calls,  *)
(* the services that write a case's status, contacts and payments.         *)
(*                                                                         *)
(* Every await is a point where another request may run, so each handler   *)
(* is split into one action per database call that reads or writes what is *)
(* modelled here; what it read before an await it keeps in its request     *)
(* record. Each statement commits on its own (Read Committed), except that *)
(* the writes of simulateCustomer and of a voice refusal commit together.  *)
(* A request may die at any await (process crash, database error) and      *)
(* leaves behind what it has already committed.                            *)
(*                                                                         *)
(* Each case has its own customer. Timeline and audit rows are left out,   *)
(* except the ACTION_EXECUTED events of the retry tools, which the policy  *)
(* engine counts. Live payments are on (PAYMENT_PROVIDER=razorpay).        *)
(***************************************************************************)
EXTENDS PolicyEngine, FiniteSets

CONSTANTS
    Cases,           \* recovery cases
    Requests,        \* request handlers that may run at once
    NoCase,          \* on which case an idle handler is
    Offered,         \* actions a caller names in a request body
    Recommendable,   \* actions the AI provider may recommend
    Outcomes,        \* simulated payment outcomes
    Origins,         \* who verifies payments: "webhook", "demo", "batch"
    Intents,         \* intents a voice call is classified as
    Sources,         \* source records cases start from
    Consents,        \* sets of channels a customer may be opted in to
    Windows,         \* whether the contact window may be open, closed
    MaxContactRows,  \* bound on a case's contact rows of either kind
    MaxPaymentRows   \* bound on a case's payment rows

SourceRecords ==
    FailureReasons \cup {"CHECKOUT", "OVERDUE", "DISPUTED", "PAID",
                         "PAST_DUE", "ACTIVE"}

ASSUME LifecycleAssumption ==
    /\ IsFiniteSet(Requests) /\ Requests # {}
    /\ NoCase \notin Cases
    /\ Offered \subseteq Actions /\ Recommendable \subseteq Actions
    /\ Outcomes \subseteq {"SUCCESS", "FAILURE"}
    /\ Origins \subseteq {"webhook", "demo", "batch"}
    /\ Intents \subseteq {"PROMISE_TO_PAY", "REFUSED"}
    /\ Sources \subseteq SourceRecords
    /\ Consents \subseteq SUBSET {"EMAIL", "SMS"}
    /\ Windows \subseteq BOOLEAN
    /\ MaxContactRows \in Nat /\ MaxPaymentRows \in Nat

VARIABLES
    status,      \* RecoveryCase.status
    recovered,   \* who set recoveredAmount, or "NO"
    decision,    \* AiDecision.recommendedAction, or "NONE"
    source,      \* state of the failed payment, invoice or subscription
    contacts,    \* contact_attempts rows, by the verdict that led to them
    retries,     \* ACTION_EXECUTED events of the retry tools
    payments,    \* payment rows of the case, oldest first
    linked,      \* cases with a provider payment link
    promise,     \* PromiseToPay.status
    cooled,      \* cases whose last contact is past the cooldown, or without one
    consent,     \* channels the customer is OPTED_IN to
    inWindow,    \* the IST hour is inside the contact window
    req          \* per handler: where it is and what it has read

store == << status, recovered, decision, source, contacts, retries, payments,
            linked, promise >>
world == << cooled, consent, inWindow >>
vars == << store, world, req >>

-----------------------------------------------------------------------------
Steps ==
    {"idle", "evaluate", "load", "link", "attempt", "count", "schedule",
     "finish", "update", "record", "saveDecision", "advance", "findPending",
     "settle", "fail", "refuse", "recordPromise", "upsertPromise",
     "markWaiting"}

\* What a handler carries out: an action, a payment outcome or a call's intent.
Tasks == Actions \cup {"SUCCESS", "FAILURE", "PROMISE_TO_PAY", "REFUSED", "NONE"}

\* What a handler remembers between two awaits.
Records ==
    [at : Steps,                 \* the next database call
     on : Cases \cup {NoCase},
     what : Tasks,
     cleared : BOOLEAN,          \* the gate allowed it (FALSE for a fallback)
     may : BOOLEAN,              \* a write an earlier read has decided on
     seen : Nat,                 \* payments counted, or the pending row found
     origin : {"NO", "webhook", "demo", "batch"}]

Idle == [at |-> "idle", on |-> NoCase, what |-> "NONE", cleared |-> FALSE,
         may |-> FALSE, seen |-> 0, origin |-> "NO"]

PaymentRows ==
    [kind : {"retry", "provider", "simulated"}, ref : Nat,
     state : {"RETRY_SCHEDULED", "SUCCESS", "FAILED"}]

Start(r, c, step, what) ==
    /\ req[r].at = "idle"
    /\ req' = [req EXCEPT ![r] =
                 [Idle EXCEPT !.at = step, !.on = c, !.what = what]]

At(r, step) == req[r].at = step

Goto(r, step) == req' = [req EXCEPT ![r].at = step]

Done(r) == req' = [req EXCEPT ![r] = Idle]

Disputed(c) == source[c] = "DISPUTED"

FailureReason(c) == IF source[c] \in FailureReasons THEN source[c] ELSE NoReason

Init ==
    /\ status = [c \in Cases |-> "OPEN"]
    /\ recovered = [c \in Cases |-> "NO"]
    /\ decision = [c \in Cases |-> "NONE"]
    /\ source \in [Cases -> Sources]
    /\ contacts = [c \in Cases |-> [allowed |-> 0, fallback |-> 0]]
    /\ retries = [c \in Cases |-> 0]
    /\ payments = [c \in Cases |-> << >>]
    /\ linked = {}
    /\ promise = [c \in Cases |-> "NONE"]
    /\ cooled = Cases
    /\ consent \in [Cases -> Consents]
    /\ inWindow \in Windows
    /\ req = [r \in Requests |-> Idle]

-----------------------------------------------------------------------------
(* CaseActionsService.execute *)

\* The first read: only a case in an executable status goes on, with the
\* action of the body or else the stored recommendation.
BeginExecute(r, c, action) ==
    /\ status[c] \in ActiveStatuses
    /\ action \in Offered \/ action = decision[c]
    /\ Start(r, c, "evaluate", action)
    /\ UNCHANGED << store, world >>

ContactCount(c) == contacts[c].allowed + contacts[c].fallback

\* Mutant of Context: the failure reason is not loaded.
ContextWithoutReason(c, action) ==
    [action |-> action,
     retryCount |-> retries[c],
     contactCount |-> ContactCount(c),
     cooled |-> c \in cooled,
     inWindow |-> inWindow,
     consented |-> ConsentChannel(action) \in consent[c],
     disputed |-> Disputed(c),
     failureReason |-> NoReason]

Context(c, action) ==
    [action |-> action,
     retryCount |-> retries[c],
     contactCount |-> ContactCount(c),
     cooled |-> c \in cooled,
     inWindow |-> inWindow,
     consented |-> ConsentChannel(action) \in consent[c],
     disputed |-> Disputed(c),
     failureReason |-> FailureReason(c)]

\* evaluateCase reads the context of the moment, not the status; the verdict
\* picks the action to run. NO_ACTION runs no tool.
Evaluate(r) ==
    LET ctx == Context(req[r].on, req[r].what) IN
    /\ At(r, "evaluate")
    /\ IF Effective(ctx) = "NO_ACTION"
       THEN Done(r)
       ELSE req' = [req EXCEPT ![r].at = "load",
                               ![r].what = Effective(ctx),
                               ![r].cleared = Allowed(ctx)]
    /\ UNCHANGED << store, world >>

-----------------------------------------------------------------------------
(* ToolsService *)

FirstCall(action) ==
    IF action \in LinkActions THEN "link"
    ELSE IF action \in ContactActions THEN "attempt"
    ELSE IF action \in RetryActions THEN "count"
    ELSE "finish"

\* Mutant of LoadCase: the status is not checked again before the tool runs.
LoadAnyCase(r) ==
    /\ At(r, "load")
    /\ Goto(r, FirstCall(req[r].what))
    /\ UNCHANGED << store, world >>

\* loadCase(caseId, true) throws unless the case may still be worked on.
LoadCase(r) ==
    /\ At(r, "load")
    /\ IF status[req[r].on] \in ActiveStatuses
       THEN Goto(r, FirstCall(req[r].what))
       ELSE Done(r)
    /\ UNCHANGED << store, world >>

\* The payment link is reused or created before the contact is recorded.
CreateLink(r) ==
    /\ At(r, "link")
    /\ linked' = linked \cup {req[r].on}
    /\ Goto(r, "attempt")
    /\ UNCHANGED << status, recovered, decision, source, contacts, retries,
                    payments, promise, world >>

CreateAttempt(r) ==
    LET c == req[r].on IN
    /\ At(r, "attempt")
    /\ ContactCount(c) < MaxContactRows
    /\ contacts' = IF req[r].cleared
                   THEN [contacts EXCEPT ![c].allowed = @ + 1]
                   ELSE [contacts EXCEPT ![c].fallback = @ + 1]
    /\ cooled' = cooled \ {c}
    /\ Goto(r, "finish")
    /\ UNCHANGED << status, recovered, decision, source, retries, payments,
                    linked, promise, consent, inWindow >>

CountPayments(r) ==
    /\ At(r, "count")
    /\ req' = [req EXCEPT ![r].at = "schedule",
                          ![r].seen = Len(payments[req[r].on])]
    /\ UNCHANGED << store, world >>

\* Payment.reference is unique; simulated references carry a timestamp.
Taken(c, kind, ref) ==
    \E i \in DOMAIN payments[c] :
        payments[c][i].kind = kind /\ payments[c][i].ref = ref

NewPayment(c, kind, ref, state) ==
    /\ Len(payments[c]) < MaxPaymentRows
    /\ payments' = [payments EXCEPT ![c] =
                      Append(@, [kind |-> kind, ref |-> ref, state |-> state])]

\* Mutant of ScheduleRetry: a payment row that exists is taken for this retry's.
ReuseRetry(r) ==
    LET c == req[r].on
        ref == req[r].seen + 1 IN
    /\ At(r, "schedule")
    /\ Goto(r, "finish")
    /\ IF Taken(c, "retry", ref)
       THEN UNCHANGED payments
       ELSE NewPayment(c, "retry", ref, "RETRY_SCHEDULED")
    /\ UNCHANGED << status, recovered, decision, source, contacts, retries,
                    linked, promise, world >>

\* The retry's reference is numbered by the count read before: of two requests
\* that read the same count, the second violates the unique key and fails.
ScheduleRetry(r) ==
    LET c == req[r].on
        ref == req[r].seen + 1 IN
    /\ At(r, "schedule")
    /\ IF Taken(c, "retry", ref)
       THEN Done(r) /\ UNCHANGED payments
       ELSE NewPayment(c, "retry", ref, "RETRY_SCHEDULED") /\ Goto(r, "finish")
    /\ UNCHANGED << status, recovered, decision, source, contacts, retries,
                    linked, promise, world >>

\* Mutant of StatusAfter: a status the schema does not know.
StatusAfterRetry(action) ==
    IF action \in ContactActions THEN "WAITING_CUSTOMER"
    ELSE IF action \in RetryActions THEN "RETRY_SCHEDULED"
    ELSE IF action = "CREATE_ESCALATION" THEN "ESCALATED"
    ELSE "CLOSED_LOST"

StatusAfter(action) ==
    IF action \in ContactActions THEN "WAITING_CUSTOMER"
    ELSE IF action \in RetryActions THEN "ACTION_TAKEN"
    ELSE IF action = "CREATE_ESCALATION" THEN "ESCALATED"
    ELSE "CLOSED_LOST"

\* finish(): re-read the status, write it, record the event.
FinishLoad(r) ==
    /\ At(r, "finish")
    /\ req' = [req EXCEPT ![r].at = "update",
                          ![r].may = \/ req[r].what = "CREATE_ESCALATION"
                                     \/ status[req[r].on] \in ActiveStatuses]
    /\ UNCHANGED << store, world >>

FinishUpdate(r) ==
    /\ At(r, "update")
    /\ status' = IF req[r].may
                 THEN [status EXCEPT ![req[r].on] = StatusAfter(req[r].what)]
                 ELSE status
    /\ Goto(r, "record")
    /\ UNCHANGED << recovered, decision, source, contacts, retries, payments,
                    linked, promise, world >>

FinishRecord(r) ==
    /\ At(r, "record")
    /\ retries' = IF req[r].what \in RetryActions
                  THEN [retries EXCEPT ![req[r].on] = @ + 1]
                  ELSE retries
    /\ Done(r)
    /\ UNCHANGED << status, recovered, decision, source, contacts, payments,
                    linked, promise, world >>

-----------------------------------------------------------------------------
(* DiagnosisService.diagnoseCase *)

\* The status read here decides, two awaits later, whether to write DIAGNOSED.
\* A case with a decision is diagnosed again only when the caller forces it.
BeginDiagnose(r, c) ==
    /\ req[r].at = "idle"
    /\ \E action \in Recommendable :
         req' = [req EXCEPT ![r] =
                   [Idle EXCEPT !.at = "saveDecision", !.on = c,
                                !.what = action,
                                !.may = status[c] \in {"OPEN", "DIAGNOSED"}]]
    /\ UNCHANGED << store, world >>

SaveDecision(r) ==
    /\ At(r, "saveDecision")
    /\ decision' = [decision EXCEPT ![req[r].on] = req[r].what]
    /\ Goto(r, "advance")
    /\ UNCHANGED << status, recovered, source, contacts, retries, payments,
                    linked, promise, world >>

Advance(r) ==
    /\ At(r, "advance")
    /\ status' = IF req[r].may
                 THEN [status EXCEPT ![req[r].on] = "DIAGNOSED"] ELSE status
    /\ Done(r)
    /\ UNCHANGED << recovered, decision, source, contacts, retries, payments,
                    linked, promise, world >>

-----------------------------------------------------------------------------
(* VerificationService.simulateCustomer: two reads, then writes that commit
   together. A provider webhook needs a link and only reports success. *)

BeginVerify(r, c, outcome, origin) ==
    /\ req[r].at = "idle"
    /\ status[c] \in VerifiableStatuses
    /\ origin = "webhook" => outcome = "SUCCESS" /\ c \in linked
    /\ req' = [req EXCEPT ![r] =
                 [Idle EXCEPT !.at = "findPending", !.on = c,
                              !.what = outcome, !.origin = origin,
                              !.may = promise[c] \in OpenPromises]]
    /\ UNCHANGED << store, world >>

Pending(c) ==
    {i \in DOMAIN payments[c] :
        /\ payments[c][i].kind = "retry"
        /\ payments[c][i].state = "RETRY_SCHEDULED"}

\* The latest pending retry, 0 when there is none.
IsLatestPending(c, i) ==
    IF Pending(c) = {} THEN i = 0
    ELSE i \in Pending(c) /\ \A j \in Pending(c) : j =< i

FindPending(r) ==
    /\ At(r, "findPending")
    /\ \E i \in 0 .. Len(payments[req[r].on]) :
         /\ IsLatestPending(req[r].on, i)
         /\ req' = [req EXCEPT ![r].at = IF req[r].what = "SUCCESS"
                                         THEN "settle" ELSE "fail",
                               ![r].seen = i]
    /\ UNCHANGED << store, world >>

Resolve(c, i, state) == payments' = [payments EXCEPT ![c][i].state = state]

\* Mutant of Synced: only disputed invoices and subscriptions follow the case.
SyncedPartly(record) ==
    IF record = "DISPUTED" THEN "PAID"
    ELSE IF record = "PAST_DUE" THEN "ACTIVE" ELSE record

\* Invoices become PAID and subscriptions ACTIVE; a failed payment stays.
Synced(record) ==
    IF record \in {"OVERDUE", "DISPUTED"} THEN "PAID"
    ELSE IF record = "PAST_DUE" THEN "ACTIVE" ELSE record

\* The unique payment id of a provider fails the whole transaction when it has
\* been recorded already.
Settle(r) ==
    LET c == req[r].on
        kind == IF req[r].origin = "webhook" THEN "provider" ELSE "simulated"
    IN
    /\ At(r, "settle")
    /\ Done(r)
    /\ IF req[r].seen = 0 /\ kind = "provider" /\ Taken(c, kind, 0)
       THEN UNCHANGED store
       ELSE /\ IF req[r].seen = 0
               THEN NewPayment(c, kind, 0, "SUCCESS")
               ELSE Resolve(c, req[r].seen, "SUCCESS")
            /\ source' = [source EXCEPT ![c] = Synced(@)]
            /\ status' = [status EXCEPT ![c] = "RECOVERED"]
            /\ recovered' = [recovered EXCEPT ![c] = req[r].origin]
            /\ promise' = IF req[r].may
                          THEN [promise EXCEPT ![c] = "FULFILLED"] ELSE promise
            /\ UNCHANGED << decision, contacts, retries, linked >>
    /\ UNCHANGED world

AttemptFailed(r) ==
    /\ At(r, "fail")
    /\ IF req[r].seen = 0
       THEN UNCHANGED payments
       ELSE Resolve(req[r].on, req[r].seen, "FAILED")
    /\ Done(r)
    /\ UNCHANGED << status, recovered, decision, source, contacts, retries,
                    linked, promise, world >>

-----------------------------------------------------------------------------
(* VoiceService.simulateCall and PromisesService.recordPromise. The other two
   intents only write timeline events. *)

BeginVoice(r, c, intent) ==
    /\ status[c] \in ActiveStatuses
    /\ Start(r, c, IF intent = "REFUSED" THEN "refuse" ELSE "recordPromise",
             intent)
    /\ UNCHANGED << store, world >>

\* escalateRefusal writes the status whatever it has become.
Refuse(r) ==
    /\ At(r, "refuse")
    /\ status' = [status EXCEPT ![req[r].on] = "ESCALATED"]
    /\ Done(r)
    /\ UNCHANGED << recovered, decision, source, contacts, retries, payments,
                    linked, promise, world >>

RecordPromise(r) ==
    /\ At(r, "recordPromise")
    /\ IF status[req[r].on] \in ActiveStatuses
       THEN req' = [req EXCEPT ![r].at = "upsertPromise",
                      ![r].may = status[req[r].on] # "WAITING_CUSTOMER"]
       ELSE Done(r)
    /\ UNCHANGED << store, world >>

UpsertPromise(r) ==
    /\ At(r, "upsertPromise")
    /\ promise' = [promise EXCEPT ![req[r].on] = "RECORDED"]
    /\ Goto(r, "markWaiting")
    /\ UNCHANGED << status, recovered, decision, source, contacts, retries,
                    payments, linked, world >>

MarkWaiting(r) ==
    /\ At(r, "markWaiting")
    /\ status' = IF req[r].may
                 THEN [status EXCEPT ![req[r].on] = "WAITING_CUSTOMER"]
                 ELSE status
    /\ Done(r)
    /\ UNCHANGED << recovered, decision, source, contacts, retries, payments,
                    linked, promise, world >>

-----------------------------------------------------------------------------
(* A handler that dies, and the world around the requests *)

Abort(r) ==
    /\ req[r].at # "idle"
    /\ Done(r)
    /\ UNCHANGED << store, world >>

WindowTurns ==
    /\ inWindow' \in Windows \ {inWindow}
    /\ UNCHANGED << store, cooled, consent, req >>

CooldownPasses(c) ==
    /\ c \notin cooled
    /\ cooled' = cooled \cup {c}
    /\ UNCHANGED << store, consent, inWindow, req >>

SetPreference(c) ==
    /\ consent' \in {[consent EXCEPT ![c] = opted] : opted \in Consents}
    /\ UNCHANGED << store, cooled, inWindow, req >>

Begin(r) ==
    \E c \in Cases :
        \/ \E action \in Actions : BeginExecute(r, c, action)
        \/ BeginDiagnose(r, c)
        \/ \E outcome \in Outcomes, origin \in Origins :
             BeginVerify(r, c, outcome, origin)
        \/ \E intent \in Intents : BeginVoice(r, c, intent)

Proceed(r) ==
    \/ Evaluate(r) \/ LoadCase(r) \/ CreateLink(r) \/ CreateAttempt(r)
    \/ CountPayments(r) \/ ScheduleRetry(r)
    \/ FinishLoad(r) \/ FinishUpdate(r) \/ FinishRecord(r)
    \/ SaveDecision(r) \/ Advance(r)
    \/ FindPending(r) \/ Settle(r) \/ AttemptFailed(r)
    \/ Refuse(r) \/ RecordPromise(r) \/ UpsertPromise(r) \/ MarkWaiting(r)

Continue(r) == Proceed(r) \/ Abort(r)

World ==
    \/ WindowTurns
    \/ \E c \in Cases : CooldownPasses(c) \/ SetPreference(c)

Next == World \/ \E r \in Requests : Begin(r) \/ Continue(r)

Spec == Init /\ [][Next]_vars

-----------------------------------------------------------------------------
(* Properties *)

TypeOK ==
    /\ status \in [Cases -> CaseStatuses]
    /\ recovered \in [Cases -> {"NO", "webhook", "demo", "batch"}]
    /\ decision \in [Cases -> Actions \cup {"NONE"}]
    /\ source \in [Cases -> SourceRecords]
    /\ contacts \in [Cases -> [allowed : Nat, fallback : Nat]]
    /\ retries \in [Cases -> Nat]
    /\ payments \in [Cases -> Seq(PaymentRows)]
    /\ linked \subseteq Cases
    /\ promise \in [Cases -> PromiseStatuses]
    /\ cooled \subseteq Cases
    /\ consent \in [Cases -> SUBSET {"EMAIL", "SMS"}]
    /\ inWindow \in BOOLEAN
    /\ req \in [Requests -> Records]
    /\ \A r \in Requests :
         /\ req[r].at # "idle" => req[r].on \in Cases
         /\ req[r].at = "saveDecision" => req[r].what \in Actions

\* The handler has made its last check of the case's status, or carries a
\* status write decided on an earlier one.
Committed(r) ==
    \/ req[r].at \in {"link", "attempt", "count", "schedule", "finish",
                      "update", "record", "findPending", "settle", "fail",
                      "refuse", "upsertPromise", "markWaiting"}
    \/ req[r].at \in {"saveDecision", "advance"} /\ req[r].may

\* A terminal case no handler is still committed to.
Sealed(c) ==
    /\ status[c] \in TerminalStatuses
    /\ \A r \in Requests : req[r].on = c => ~Committed(r)

\* The terminal guards of the services, taken together: once a case is terminal
\* and the handlers that had passed their checks are gone, its status, recovered
\* amount, contacts, payments and promise never change again, whatever requests
\* arrive, are evaluated or die, and it stays that way.
SealedIsFinal ==
    [][\A c \in Cases : Sealed(c) =>
         /\ Sealed(c)'
         /\ status'[c] = status[c]
         /\ recovered'[c] = recovered[c]
         /\ contacts'[c] = contacts[c]
         /\ retries'[c] = retries[c]
         /\ payments'[c] = payments[c]
         /\ promise'[c] = promise[c]]_vars

\* The gate counts recorded retries, so executions it has cleared but that have
\* not recorded theirs are not counted: the retry limit can be passed by as many
\* as run beside the last one allowed, and never by more.
RetryOvershootBounded ==
    \A c \in Cases :
        retries[c] =< MaxRetryAttempts + Cardinality(Requests) - 1

\* The same for the contacts the gate has allowed.
AllowedContactsBounded ==
    \A c \in Cases :
        contacts[c].allowed =< MaxContactAttempts + Cardinality(Requests) - 1

RetryRows(c) == {i \in DOMAIN payments[c] : payments[c][i].kind = "retry"}

\* Handlers whose retry is scheduled and not yet recorded.
Recording(c) ==
    {r \in Requests : /\ req[r].on = c
                      /\ req[r].what \in RetryActions
                      /\ req[r].at \in {"finish", "update", "record"}}

\* Every recorded retry, and every one about to be recorded, has a payment row
\* of its own: the reference that two racing handlers compute from the same count
\* never lets one row stand for two retries.
RetriesHaveOwnRows ==
    \A c \in Cases :
        retries[c] + Cardinality(Recording(c)) =< Cardinality(RetryRows(c))

\* While its invoice is disputed a case is neither contacted nor charged, not
\* even through the ungated fallback of a denied retry.
DisputedNeverPursued ==
    \A c \in Cases : Disputed(c) =>
        /\ contacts[c] = [allowed |-> 0, fallback |-> 0]
        /\ RetryRows(c) = {}

\* A failure the customer has to cure is never charged again by the agent,
\* whichever of the callers asks and however requests interleave.
HardFailureNeverRetried ==
    \A c \in Cases : ~Retryable(FailureReason(c)) => RetryRows(c) = {}

\* A recovered case has its recovered amount attributed, its invoice paid or
\* subscription renewed, and a payment row that recorded the money. (A failure
\* verified beside the success may since have overwritten the row's state.)
RecoveredIsSettled ==
    \A c \in Cases : status[c] = "RECOVERED" =>
        /\ recovered[c] # "NO"
        /\ source[c] \notin {"OVERDUE", "DISPUTED", "PAST_DUE"}
        /\ payments[c] # << >>

-----------------------------------------------------------------------------
(* Inductive strengthenings of the properties above *)

\* Steps between the gate's verdict and the recorded event.
ToolSteps == {"load", "link", "attempt", "count", "schedule", "finish",
              "update", "record"}

ContactSteps == {"link", "attempt"}
ChargeSteps == {"count", "schedule"}

\* Handlers that run an action of a group on a case and are at one of steps.
Running(c, group, steps) ==
    {r \in Requests : /\ req[r].on = c
                      /\ req[r].what \in group
                      /\ req[r].at \in steps}

ClearedContacts(c) ==
    {r \in Running(c, ContactActions, {"load"} \cup ContactSteps) : req[r].cleared}

\* Inductive form of the two limits: what handlers in flight are still going to
\* add counts against them, and each handler makes the tool calls of its action.
LimitsInv ==
    /\ \A r \in Requests :
         /\ req[r].at \in ContactSteps => req[r].what \in ContactActions
         /\ req[r].at \in ChargeSteps => req[r].what \in RetryActions
    /\ \A c \in Cases :
         /\ retries[c] + Cardinality(Running(c, RetryActions, ToolSteps))
              =< MaxRetryAttempts + Cardinality(Requests) - 1
         /\ contacts[c].allowed + Cardinality(ClearedContacts(c))
              =< MaxContactAttempts + Cardinality(Requests) - 1

\* Inductive form of the two prohibitions: no handler past the gate is going to
\* contact or charge the customer of a disputed case, or charge a hard failure.
PursuitInv ==
    /\ DisputedNeverPursued
    /\ HardFailureNeverRetried
    /\ \A c \in Cases :
         /\ Disputed(c) =>
              /\ Running(c, ContactActions, {"load"} \cup ContactSteps) = {}
              /\ Running(c, RetryActions, {"load"} \cup ChargeSteps) = {}
         /\ ~Retryable(FailureReason(c)) =>
              Running(c, RetryActions, {"load"} \cup ChargeSteps) = {}

-----------------------------------------------------------------------------
(* What a comment says of the code, and the code does not do *)

\* simulated-tools.service.ts:203-207: finish "advances the case (only from
\* actionable states, never downgrades RECOVERED/ESCALATED/CLOSED)". It writes
\* on the strength of an earlier read.
FinishNeverDowngrades ==
    [][\A r \in Requests :
         FinishUpdate(r) /\ status[req[r].on] \in TerminalStatuses
             => UNCHANGED status]_vars
=============================================================================
