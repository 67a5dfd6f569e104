------------------------------- MODULE Outbox -------------------------------
(***************************************************************************)
(* The email outbox and the provider's status webhooks. The handler of a   *)
(* tool queues an email and tries to dispatch it at once. Where background *)
(* jobs are enabled, the maintenance timer drains what is due, as often as *)
(* it fires and in every process; nothing else drains. A dispatcher claims *)
(* a row with a conditional update, calls Resend, and commits the contact  *)
(* row and the outbox row together. Webhook handlers meanwhile read and    *)
(* write the status of the same contact rows.                              *)
(*                                                                         *)
(* One action per awaited call. A database call may throw and a handler    *)
(* may die with its process; both count as faults. Resend is external: it  *)
(* may reject a request, or accept it and lose the answer. Rows are        *)
(* counted in minutes of back-off.                                         *)
(***************************************************************************)
EXTENDS Naturals, FiniteSets

CONSTANTS
    Messages,       \* contact attempts by email, and their outbox rows
    Dispatchers,    \* calls of dispatch() that may run at once
    Hooks,          \* webhook requests that may run at once
    Events,         \* statuses the provider reports, one event of each
    NoMessage,
    BackgroundJobs, \* BACKGROUND_JOBS_ENABLED, off by default
    MaxAttempts,    \* 5 in the code
    MaxFaults       \* bound on database errors and deaths

ContactStatuses == {"NOT_SENT", "SENT", "DELIVERED", "OPENED", "CLICKED",
                    "REPLIED", "BOUNCED", "FAILED"}

ASSUME OutboxAssumption ==
    /\ NoMessage \notin Messages
    /\ IsFiniteSet(Hooks)
    /\ Events \subseteq ContactStatuses \ {"NOT_SENT"}
    /\ BackgroundJobs \in BOOLEAN
    /\ MaxAttempts \in Nat \ {0} /\ MaxFaults \in Nat

VARIABLES
    row,         \* outbox rows: state, attempts, minutes until available
    contact,     \* ContactAttempt.status
    inbox,       \* emails the customer has got, per idempotency key
    task,        \* per dispatcher: next call, message, queued it itself
    ledger,      \* ProviderWebhookEvent per message and event
    applied,     \* status events written to the timeline
    hook,        \* per webhook request: next call, message, event, status read
    faults

outgoing == << row, inbox, task >>
incoming == << ledger, applied, hook >>
vars == << outgoing, contact, incoming, faults >>

-----------------------------------------------------------------------------
NoTask == [at |-> "idle", on |-> NoMessage, own |-> FALSE]
NoHook == [at |-> "idle", on |-> NoMessage, event |-> "SENT", seen |-> "SENT"]
NoRow == [state |-> "NONE", attempts |-> 0, wait |-> 0]

Init ==
    /\ row = [m \in Messages |-> NoRow]
    /\ contact = [m \in Messages |-> "NOT_SENT"]
    /\ inbox = [m \in Messages |-> 0]
    /\ task = [d \in Dispatchers |-> NoTask]
    /\ ledger = [m \in Messages |-> [e \in Events |-> "absent"]]
    /\ applied = [m \in Messages |-> [e \in Events |-> 0]]
    /\ hook = [h \in Hooks |-> NoHook]
    /\ faults = 0

\* Mutant of Claimable: the attempts are not limited.
ClaimableForEver(m) ==
    /\ row[m].state \in {"PENDING", "FAILED"}
    /\ row[m].wait = 0

\* The condition of both the drain's query and the claim's update.
Claimable(m) ==
    /\ row[m].state \in {"PENDING", "FAILED"}
    /\ row[m].attempts < MaxAttempts
    /\ row[m].wait = 0

Minimum(a, b) == IF a < b THEN a ELSE b

\* Minutes until the next try, by the attempts made.
Backoff(attempts) == Minimum(60, 2 ^ attempts)

Step(d, at) == task' = [task EXCEPT ![d].at = at]
Leave(d) == task' = [task EXCEPT ![d] = NoTask]

-----------------------------------------------------------------------------
(* OutboxService *)

\* enqueueEmail, for a contact attempt the gate has just let through.
Enqueue(d, m) ==
    /\ task[d].at = "idle"
    /\ row[m].state = "NONE" /\ contact[m] = "NOT_SENT"
    /\ row' = [row EXCEPT ![m].state = "PENDING"]
    /\ task' = [task EXCEPT ![d] = [at |-> "claim", on |-> m, own |-> TRUE]]
    /\ UNCHANGED << inbox, contact, incoming, faults >>

\* When queueing throws, sendEmail marks the contact attempt as failed.
EnqueueThrows(m) ==
    /\ row[m].state = "NONE" /\ contact[m] = "NOT_SENT"
    /\ faults < MaxFaults
    /\ contact' = [contact EXCEPT ![m] = "FAILED"]
    /\ faults' = faults + 1
    /\ UNCHANGED << outgoing, incoming >>

\* drain, called by the maintenance timer only: what it found due may have been
\* claimed before its turn comes.
Drain(d, m) ==
    /\ BackgroundJobs
    /\ task[d].at = "idle" /\ Claimable(m)
    /\ task' = [task EXCEPT ![d] = [at |-> "claim", on |-> m, own |-> FALSE]]
    /\ UNCHANGED << row, inbox, contact, incoming, faults >>

Claim(d) ==
    LET m == task[d].on IN
    /\ task[d].at = "claim"
    /\ IF Claimable(m)
       THEN /\ row' = [row EXCEPT ![m].state = "PROCESSING",
                                  ![m].attempts = @ + 1]
            /\ Step(d, "send")
       ELSE Leave(d) /\ UNCHANGED row
    /\ UNCHANGED << inbox, contact, incoming, faults >>

\* Mutant of Accept: requests carry no Idempotency-Key.
AcceptAgain(m) == [inbox EXCEPT ![m] = @ + 1]

\* Resend takes requests with one Idempotency-Key for one email.
Accept(m) == IF inbox[m] > 0 THEN inbox ELSE [inbox EXCEPT ![m] = @ + 1]

\* Mutant of Send: a rejected request counts as sent.
SendUnchecked(d) ==
    LET m == task[d].on IN
    /\ task[d].at = "send"
    /\ inbox' \in {Accept(m), inbox} /\ Step(d, "commit")
    /\ UNCHANGED << row, contact, incoming, faults >>

Send(d) ==
    LET m == task[d].on IN
    /\ task[d].at = "send"
    /\ \/ inbox' = Accept(m) /\ Step(d, "commit")
       \/ inbox' = Accept(m) /\ Step(d, "fail")     \* the answer is lost
       \/ inbox' = inbox /\ Step(d, "fail")         \* rejected or unreachable
    /\ UNCHANGED << row, contact, incoming, faults >>

\* The two updates of the transaction, whatever the contact has become.
Commit(d) ==
    LET m == task[d].on IN
    /\ task[d].at = "commit"
    /\ contact' = [contact EXCEPT ![m] = "SENT"]
    /\ row' = [row EXCEPT ![m].state = "SENT"]
    /\ Leave(d)
    /\ UNCHANGED << inbox, incoming, faults >>

\* A failed transaction is handled like a failed call.
CommitThrows(d) ==
    /\ task[d].at = "commit" /\ faults < MaxFaults
    /\ Step(d, "fail")
    /\ faults' = faults + 1
    /\ UNCHANGED << row, inbox, contact, incoming >>

\* Mutant of Fail: the row stays claimed.
FailSilently(d) ==
    LET m == task[d].on IN
    /\ task[d].at = "fail"
    /\ row' = [row EXCEPT ![m].wait = Backoff(row[m].attempts)]
    /\ Leave(d)
    /\ UNCHANGED << inbox, contact, incoming, faults >>

Fail(d) ==
    LET m == task[d].on IN
    /\ task[d].at = "fail"
    /\ row' = [row EXCEPT ![m].state = "FAILED",
                          ![m].wait = Backoff(row[m].attempts)]
    /\ Leave(d)
    /\ UNCHANGED << inbox, contact, incoming, faults >>

\* Claiming, reading the claimed row and recording the failure are outside the
\* try: an error ends the dispatch, and if it was the tool's own, sendEmail
\* marks the contact attempt as failed.
DispatchThrows(d) ==
    /\ task[d].at \in {"claim", "send", "fail"} /\ faults < MaxFaults
    /\ contact' = IF task[d].own
                  THEN [contact EXCEPT ![task[d].on] = "FAILED"] ELSE contact
    /\ Leave(d)
    /\ faults' = faults + 1
    /\ UNCHANGED << row, inbox, incoming >>

DispatcherDies(d) ==
    /\ task[d].at # "idle" /\ faults < MaxFaults
    /\ Leave(d)
    /\ faults' = faults + 1
    /\ UNCHANGED << row, inbox, contact, incoming >>

-----------------------------------------------------------------------------
(* ResendWebhookService.receive, for events with a valid signature *)

Progress == << "NOT_SENT", "SENT", "DELIVERED", "OPENED", "CLICKED", "REPLIED" >>

Rank(s) == CHOOSE i \in DOMAIN Progress : Progress[i] = s

\* Mutant of ShouldAdvance: the last event wins.
AlwaysAdvance(current, next) == TRUE

ShouldAdvance(current, next) ==
    /\ current \notin {"BOUNCED", "FAILED"}
    /\ \/ next \in {"BOUNCED", "FAILED"}
       \/ Rank(next) >= Rank(current)

\* Mutant of Report: an event already processed is processed again.
ReportAgain(h, m, e) ==
    /\ hook[h].at = "idle" /\ inbox[m] > 0
    /\ hook' = [hook EXCEPT ![h] =
                  [at |-> IF ledger[m][e] = "absent" THEN "create" ELSE "read",
                   on |-> m, event |-> e, seen |-> "SENT"]]
    /\ UNCHANGED << outgoing, contact, ledger, applied, faults >>

\* The provider reports on an email it has accepted, in any order and as often
\* as it likes. An event already processed is answered at once.
Report(h, m, e) ==
    /\ hook[h].at = "idle" /\ inbox[m] > 0
    /\ ledger[m][e] # "processed"
    /\ hook' = [hook EXCEPT ![h] =
                  [at |-> IF ledger[m][e] = "absent" THEN "create" ELSE "read",
                   on |-> m, event |-> e, seen |-> "SENT"]]
    /\ UNCHANGED << outgoing, contact, ledger, applied, faults >>

\* The unique (provider, eventId) lets one of two first deliveries go on.
CreateEvent(h) ==
    LET m == hook[h].on
        e == hook[h].event IN
    /\ hook[h].at = "create"
    /\ IF ledger[m][e] = "absent"
       THEN /\ ledger' = [ledger EXCEPT ![m][e] = "received"]
            /\ hook' = [hook EXCEPT ![h].at = "read"]
       ELSE hook' = [hook EXCEPT ![h] = NoHook] /\ UNCHANGED ledger
    /\ UNCHANGED << outgoing, contact, applied, faults >>

FindAttempt(h) ==
    /\ hook[h].at = "read"
    /\ hook' = [hook EXCEPT ![h].at = "write", ![h].seen = contact[hook[h].on]]
    /\ UNCHANGED << outgoing, contact, ledger, applied, faults >>

NextStatus(current, next) ==
    IF ShouldAdvance(current, next) THEN next ELSE current

UpdateStatus(h) ==
    LET m == hook[h].on
        e == hook[h].event IN
    /\ hook[h].at = "write"
    /\ contact' = [contact EXCEPT ![m] = NextStatus(hook[h].seen, e)]
    /\ applied' = [applied EXCEPT ![m][e] = @ + 1]
    /\ hook' = [hook EXCEPT ![h].at = "mark"]
    /\ UNCHANGED << outgoing, ledger, faults >>

MarkProcessed(h) ==
    /\ hook[h].at = "mark"
    /\ ledger' = [ledger EXCEPT ![hook[h].on][hook[h].event] = "processed"]
    /\ hook' = [hook EXCEPT ![h] = NoHook]
    /\ UNCHANGED << outgoing, contact, applied, faults >>

\* A webhook request that throws or dies; the provider will send it again.
HookFails(h) ==
    /\ hook[h].at # "idle" /\ faults < MaxFaults
    /\ hook' = [hook EXCEPT ![h] = NoHook]
    /\ faults' = faults + 1
    /\ UNCHANGED << outgoing, contact, ledger, applied >>

-----------------------------------------------------------------------------
\* A minute passes for the rows that wait.
Tick ==
    /\ \E m \in Messages : row[m].wait > 0
    /\ row' = [m \in Messages |->
                 [row[m] EXCEPT !.wait = IF @ > 0 THEN @ - 1 ELSE 0]]
    /\ UNCHANGED << inbox, task, contact, incoming, faults >>

Dispatch(d) ==
    \/ \E m \in Messages : Enqueue(d, m) \/ Drain(d, m)
    \/ Claim(d) \/ Send(d) \/ Commit(d) \/ CommitThrows(d) \/ Fail(d)
    \/ DispatchThrows(d) \/ DispatcherDies(d)

Webhook(h) ==
    \/ \E m \in Messages, e \in Events : Report(h, m, e)
    \/ CreateEvent(h) \/ FindAttempt(h) \/ UpdateStatus(h) \/ MarkProcessed(h)
    \/ HookFails(h)

Next ==
    \/ \E d \in Dispatchers : Dispatch(d)
    \/ \E h \in Hooks : Webhook(h)
    \/ \E m \in Messages : EnqueueThrows(m)
    \/ Tick

Spec == Init /\ [][Next]_vars

\* A running dispatch goes on, and a timer that was started keeps firing: it is
\* started only with background jobs, and without them nothing is asked of Drain.
\* Nothing makes the provider accept a request, report an event or a tool queue
\* an email.
FairSpec ==
    /\ Spec
    /\ WF_vars(Tick)
    /\ \A m \in Messages : WF_vars(\E d \in Dispatchers : Drain(d, m))
    /\ \A d \in Dispatchers :
         WF_vars(Claim(d) \/ Send(d) \/ Commit(d) \/ Fail(d))

-----------------------------------------------------------------------------
(* Properties *)

TypeOK ==
    /\ row \in [Messages -> [state : {"NONE", "PENDING", "PROCESSING", "SENT",
                                      "FAILED"},
                             attempts : 0 .. MaxAttempts, wait : Nat]]
    /\ contact \in [Messages -> ContactStatuses]
    /\ inbox \in [Messages -> Nat]
    /\ task \in [Dispatchers ->
                   [at : {"idle", "claim", "send", "commit", "fail"},
                    on : Messages \cup {NoMessage}, own : BOOLEAN]]
    /\ \A d \in Dispatchers : task[d].at # "idle" => task[d].on \in Messages
    /\ ledger \in [Messages -> [Events -> {"absent", "received", "processed"}]]
    /\ applied \in [Messages -> [Events -> Nat]]
    /\ hook \in [Hooks -> [at : {"idle", "create", "read", "write", "mark"},
                           on : Messages \cup {NoMessage},
                           event : Events \cup {"SENT"},
                           seen : ContactStatuses]]
    /\ \A h \in Hooks : hook[h].at # "idle" =>
         hook[h].on \in Messages /\ hook[h].event \in Events
    /\ faults \in 0 .. MaxFaults

\* Dispatches that have claimed a message.
Holders(m) ==
    {d \in Dispatchers : /\ task[d].on = m
                         /\ task[d].at \in {"send", "commit", "fail"}}

\* The conditional update gives a message to one dispatcher at a time, and only
\* that one ends the attempt: two drains, or a drain and the tool's own dispatch,
\* never send the same email at once.
OneHolder ==
    \A m \in Messages :
        /\ Cardinality(Holders(m)) =< 1
        /\ Holders(m) # {} => row[m].state = "PROCESSING"

\* The outbox delivers what it is asked to, once at most, and reports nothing as
\* sent that was not: with lost answers, failed transactions, retries, overlapping
\* drains and crashes at every call.
Delivery ==
    INSTANCE EmailDelivery WITH
        asked <- {m \in Messages : row[m].state # "NONE"},
        told <- {m \in Messages : row[m].state = "SENT"}

ImplementsDelivery == Delivery!Spec

\* Inductive form of the delivery promise: who holds a message, and what the
\* provider has done by the time the rows say so.
DeliveryInv ==
    /\ \A d \in Dispatchers :
         /\ task[d].at # "idle" => row[task[d].on].state # "NONE"
         /\ task[d].at \in {"send", "commit", "fail"}
              => row[task[d].on].state = "PROCESSING"
         /\ task[d].at = "commit" => inbox[task[d].on] = 1
         /\ \A other \in Dispatchers :
              d # other /\ task[d].at \in {"send", "commit", "fail"}
                /\ task[other].at \in {"send", "commit", "fail"}
                  => task[d].on # task[other].on
    /\ \A m \in Messages :
         /\ inbox[m] \in {0, 1}
         /\ inbox[m] = 1 => row[m].state # "NONE"
         /\ row[m].state = "SENT" => inbox[m] = 1

\* No status but "not sent" and "failed" is claimed of an email the customer did
\* not get, whichever of dispatcher and webhook writes first.
StatusIsBacked ==
    \A m \in Messages :
        contact[m] \notin {"NOT_SENT", "FAILED"} => inbox[m] = 1

\* The email is out, no dispatch of it runs and no webhook request carries a
\* status read before the failure was recorded.
FailureKnown(m) ==
    /\ contact[m] \in {"BOUNCED", "FAILED"} /\ row[m].state = "SENT"
    /\ \A d \in Dispatchers : task[d].on # m
    /\ \A h \in Hooks :
         hook[h].on = m /\ hook[h].at = "write"
           => hook[h].seen \in {"BOUNCED", "FAILED"}

\* From then on a failure is final: no later, repeated or reordered event makes
\* the attempt look delivered again.
FailureIsFinal ==
    [][\A m \in Messages : FailureKnown(m) => FailureKnown(m)']_vars

Ended(m) ==
    \/ row[m].state = "SENT"
    \/ row[m].state = "FAILED" /\ row[m].attempts = MaxAttempts

\* With background jobs, a queued email is sent or uses up its attempts, however
\* often the provider rejects it and whichever dispatchers overlap, unless a
\* dispatch fails half way. Without them the tool's own dispatch is the only one,
\* and an email rejected then stays FAILED with attempts left.
EveryEmailEnds ==
    BackgroundJobs =>
        \A m \in Messages : row[m].state = "PENDING" ~> Ended(m) \/ faults > 0

\* An event the ledger has marked is never applied again: it reaches the timeline
\* once for each request that was at work on it when the first one finished, and
\* once more for each that failed half way.
AppliedBounded ==
    \A m \in Messages, e \in Events : applied[m][e] =< Cardinality(Hooks) + faults

-----------------------------------------------------------------------------
(* What the schema says of it, and the code does not do *)

\* schema.prisma:373-374 calls the rows "durable provider work", safe to retry
\* "after a process crash". A row claimed by a process that crashed stays
\* PROCESSING, which no drain picks up, background jobs or not.
DurableWork ==
    BackgroundJobs =>
        \A m \in Messages : row[m].state = "PENDING" ~> Ended(m)
=============================================================================
