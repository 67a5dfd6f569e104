---------------------------- MODULE EventIntake -----------------------------
(***************************************************************************)
(* How recovery cases come into being: revenue events of providers, which  *)
(* EventsService.receive takes in one transaction each, and the simulator, *)
(* which writes row after row without one.                                 *)
(*                                                                         *)
(* A transaction holds what it has inserted or updated until it ends, and  *)
(* whoever inserts the same unique key meanwhile waits for it. What it has *)
(* written is in its handler's record and becomes visible when it commits. *)
(* A key is the table and the unique value of a source row: the number of  *)
(* an invoice or the reference of a payment. Rows with no such value, and  *)
(* events without a source row, have NoKey.                                *)
(***************************************************************************)
EXTENDS Naturals, FiniteSets

CONSTANTS
    Events,      \* (provider, eventId) of what the providers report
    Customers,   \* e-mail addresses in lower case
    Requests,    \* handlers
    NoEvent, NoCustomer, NoKey,
    EmailOf,     \* the customer an event names
    KeyOf,       \* the source row it reports
    MaxCases,    \* bound on the cases up to which a simulation is started
    MaxBatch,    \* bound on the rows of a simulated batch
    MaxFaults    \* bound on calls that throw, time out or never return

Keys == {"invoice", "payment"} \X Nat

ASSUME IntakeAssumption ==
    /\ IsFiniteSet(Requests) /\ IsFiniteSet(Events)
    /\ NoEvent \notin Events /\ NoCustomer \notin Customers /\ NoKey \notin Keys
    /\ EmailOf \in [Events -> Customers]
    /\ KeyOf \in [Events -> Keys \cup {NoKey}]
    /\ MaxCases \in Nat /\ MaxBatch \in Nat /\ MaxFaults \in Nat

VARIABLES
    ledger,      \* RevenueEvent rows, committed
    caseOf,      \* RevenueEvent.caseId, or 0
    customers,   \* Customer rows
    taken,       \* keys of the source rows
    cases,       \* RecoveryCase rows
    answered,    \* the cases the receipts of an event named
    req,         \* handlers: one receive or one simulated batch each
    faults

rows == << ledger, caseOf, customers, taken, cases >>
vars == << rows, answered, req, faults >>

Case(id, e, k, x) == [id |-> id, event |-> e, key |-> k, customer |-> x]

Records ==
    [at : {"idle", "insert", "upsert", "source", "commit", "find", "answer",
           "resolve", "number", "create", "open"},
     event : Events \cup {NoEvent}, customer : Customers \cup {NoCustomer},
     key : Keys \cup {NoKey}, n : Nat]

Request(stage, e, x, k, n) ==
    [at |-> stage, event |-> e, customer |-> x, key |-> k, n |-> n]

Idle == Request("idle", NoEvent, NoCustomer, NoKey, 0)

Init ==
    /\ ledger = {} /\ customers = {} /\ cases = {} /\ taken = {}
    /\ caseOf = [e \in Events |-> 0]
    /\ answered = [e \in Events |-> {}]
    /\ req = [r \in Requests |-> Idle]
    /\ faults = 0

To(r, stage) == req' = [req EXCEPT ![r].at = stage]

Done(r) == req' = [req EXCEPT ![r] = Idle]

NewId == Cardinality(cases) + 1

-----------------------------------------------------------------------------
(* What open transactions hold *)

HoldsEvent(r, e) ==
    req[r].event = e /\ req[r].at \in {"upsert", "source", "commit"}

HoldsCustomer(r, x) == req[r].customer = x /\ req[r].at \in {"source", "commit"}

HoldsKey(r, k) ==
    /\ req[r].event # NoEvent /\ req[r].at = "commit"
    /\ KeyOf[req[r].event] = k /\ k # NoKey

-----------------------------------------------------------------------------
(* EventsService.receive *)

\* Providers send an event any number of times, at once or again.
Receive(r, e) ==
    /\ req[r] = Idle
    /\ req' = [req EXCEPT ![r] = Request("insert", e, NoCustomer, NoKey, 0)]
    /\ UNCHANGED << rows, answered, faults >>

\* Mutant of CreateEvent: a look into the ledger instead of its unique key.
CreateEventLookup(r) ==
    /\ req[r].at = "insert"
    /\ To(r, IF req[r].event \in ledger THEN "find" ELSE "upsert")
    /\ UNCHANGED << rows, answered, faults >>

\* Mutant of CreateEvent: the ledger is written before the transaction.
CreateEventAhead(r) ==
    /\ req[r].at = "insert"
    /\ To(r, IF req[r].event \in ledger THEN "find" ELSE "upsert")
    /\ ledger' = ledger \cup {req[r].event}
    /\ UNCHANGED << caseOf, customers, taken, cases, answered, faults >>

\* The second to insert an event waits for the first, and then violates the key.
CreateEvent(r) ==
    /\ req[r].at = "insert"
    /\ \A q \in Requests : ~HoldsEvent(q, req[r].event)
    /\ To(r, IF req[r].event \in ledger THEN "find" ELSE "upsert")
    /\ UNCHANGED << rows, answered, faults >>

\* Mutant of UpsertCustomer: a customer that exists is not linked.
UpsertNew(r) ==
    LET x == EmailOf[req[r].event] IN
    /\ req[r].at = "upsert"
    /\ \A q \in Requests : ~HoldsCustomer(q, x)
    /\ req' = [req EXCEPT ![r].at = "source",
                          ![r].customer = IF x \in customers THEN @ ELSE x]
    /\ UNCHANGED << rows, answered, faults >>

UpsertCustomer(r) ==
    LET x == EmailOf[req[r].event] IN
    /\ req[r].at = "upsert"
    /\ \A q \in Requests : ~HoldsCustomer(q, x)
    /\ req' = [req EXCEPT ![r].at = "source", ![r].customer = x]
    /\ UNCHANGED << rows, answered, faults >>

\* Mutant of CreateSource: the row is written outside the transaction.
CreateSourceAhead(r) ==
    LET k == KeyOf[req[r].event] IN
    /\ req[r].at = "source"
    /\ \A q \in Requests : ~HoldsKey(q, k)
    /\ To(r, IF k \in taken THEN "find" ELSE "commit")
    /\ taken' = IF k = NoKey THEN taken ELSE taken \cup {k}
    /\ UNCHANGED << ledger, caseOf, customers, cases, answered, faults >>

\* A number that is taken violates a key as well, and the transaction is undone.
CreateSource(r) ==
    LET k == KeyOf[req[r].event] IN
    /\ req[r].at = "source"
    /\ \A q \in Requests : ~HoldsKey(q, k)
    /\ To(r, IF k \in taken THEN "find" ELSE "commit")
    /\ UNCHANGED << rows, answered, faults >>

\* The case with its event's caseId, and all the transaction wrote before.
Commit(r) ==
    LET e == req[r].event
        k == KeyOf[e] IN
    /\ req[r].at = "commit"
    /\ cases' = cases \cup {Case(NewId, e, k, req[r].customer)}
    /\ ledger' = ledger \cup {e}
    /\ caseOf' = [caseOf EXCEPT ![e] = NewId]
    /\ customers' = customers \cup {req[r].customer}
    /\ taken' = IF k = NoKey THEN taken ELSE taken \cup {k}
    /\ req' = [req EXCEPT ![r] = Request("answer", e, NoCustomer, NoKey, NewId)]
    /\ UNCHANGED << answered, faults >>

\* After a violation the ledger tells a duplicate from a clash of numbers. The
\* clash, or a ledger row without a case, is thrown back at the provider.
FindEvent(r) ==
    LET e == req[r].event IN
    /\ req[r].at = "find"
    /\ IF caseOf[e] = 0
       THEN Done(r)
       ELSE req' = [req EXCEPT ![r] =
                      Request("answer", e, NoCustomer, NoKey, caseOf[e])]
    /\ UNCHANGED << rows, answered, faults >>

Answer(r) ==
    /\ req[r].at = "answer"
    /\ answered' = [answered EXCEPT ![req[r].event] = @ \cup {req[r].n}]
    /\ Done(r)
    /\ UNCHANGED << rows, faults >>

-----------------------------------------------------------------------------
(* SimulatorService: runBatch, or one event *)

Simulate(r, n) ==
    /\ req[r] = Idle /\ Cardinality(cases) < MaxCases
    /\ req' = [req EXCEPT ![r] = Request("resolve", NoEvent, NoCustomer, NoKey, n)]
    /\ UNCHANGED << rows, answered, faults >>

\* An overdue invoice needs a number. The rows of failed payments, renewals and
\* checkouts carry drawn references or none: nothing here tells them from their case.
AfterCustomer == {"number", "open"}

\* An existing customer or a new one.
ResolveCustomer(r) ==
    /\ req[r].at = "resolve"
    /\ \E x \in Customers, stage \in AfterCustomer :
         /\ x \in customers \/ \A q \in Requests : ~HoldsCustomer(q, x)
         /\ customers' = customers \cup {x}
         /\ req' = [req EXCEPT ![r] = Request(stage, NoEvent, x, NoKey, req[r].n)]
    /\ UNCHANGED << ledger, caseOf, taken, cases, answered, faults >>

\* Numbers count from 2001, here from 1.
CountInvoices(r) ==
    LET invoices == {k \in taken : k[1] = "invoice"} IN
    /\ req[r].at = "number"
    /\ req' = [req EXCEPT ![r].at = "create",
                          ![r].key = << "invoice", Cardinality(invoices) + 1 >>]
    /\ UNCHANGED << rows, answered, faults >>

\* Mutant of CreateInvoice: the number is not unique.
CreateInvoiceAnyway(r) ==
    /\ req[r].at = "create"
    /\ taken' = taken \cup {req[r].key} /\ To(r, "open")
    /\ UNCHANGED << ledger, caseOf, customers, cases, answered, faults >>

\* A number somebody took since it was counted ends the batch.
CreateInvoice(r) ==
    /\ req[r].at = "create"
    /\ \A q \in Requests : ~HoldsKey(q, req[r].key)
    /\ IF req[r].key \in taken
       THEN Done(r) /\ UNCHANGED taken
       ELSE taken' = taken \cup {req[r].key} /\ To(r, "open")
    /\ UNCHANGED << ledger, caseOf, customers, cases, answered, faults >>

OpenCase(r) ==
    /\ req[r].at = "open"
    /\ cases' = cases \cup {Case(NewId, NoEvent, req[r].key, req[r].customer)}
    /\ IF req[r].n > 1
       THEN req' = [req EXCEPT ![r] =
                      Request("resolve", NoEvent, NoCustomer, NoKey, req[r].n - 1)]
       ELSE Done(r)
    /\ UNCHANGED << ledger, caseOf, customers, taken, answered, faults >>

-----------------------------------------------------------------------------

\* A call that throws or a process that dies: an open transaction is undone, what
\* the simulator has written stays.
Die(r) ==
    /\ req[r] # Idle /\ faults < MaxFaults
    /\ Done(r)
    /\ faults' = faults + 1
    /\ UNCHANGED << rows, answered >>

Proceed(r) ==
    \/ CreateEvent(r) \/ UpsertCustomer(r) \/ CreateSource(r) \/ Commit(r)
    \/ FindEvent(r) \/ Answer(r)
    \/ ResolveCustomer(r) \/ CountInvoices(r) \/ CreateInvoice(r) \/ OpenCase(r)

Next ==
    \E r \in Requests :
        \/ Proceed(r) \/ Die(r)
        \/ \E e \in Events : Receive(r, e)
        \/ \E n \in 1 .. MaxBatch : Simulate(r, n)

Spec == Init /\ [][Next]_vars

\* Handlers go on, and a provider sends an event again until it has a receipt.
FairSpec ==
    /\ Spec
    /\ \A r \in Requests : WF_vars(Proceed(r))
    /\ \A e \in Events : SF_vars(answered[e] = {} /\ \E r \in Requests : Receive(r, e))

-----------------------------------------------------------------------------
(* Properties *)

TypeOK ==
    /\ ledger \subseteq Events /\ customers \subseteq Customers
    /\ taken \subseteq Keys
    /\ cases \subseteq [id : Nat, event : Events \cup {NoEvent},
                        key : Keys \cup {NoKey}, customer : Customers]
    /\ caseOf \in [Events -> Nat] /\ answered \in [Events -> SUBSET Nat]
    /\ faults \in 0 .. MaxFaults
    /\ req \in [Requests -> Records]

\* An event makes one case however often and concurrently it is delivered, and
\* every receipt names that case.
OneCasePerEvent ==
    \A e \in Events :
        LET made == {c \in cases : c.event = e} IN
        /\ Cardinality(made) = IF caseOf[e] = 0 THEN 0 ELSE 1
        /\ \A c \in made : c.id = caseOf[e]
        /\ answered[e] \subseteq {c.id : c \in made}

\* An invoice or payment is never recovered by two cases, be they of two events or
\* of an event and a simulation that counted before it committed.
OneCasePerSource ==
    \A c, d \in cases : c.key = d.key /\ c.key # NoKey => c = d

\* A source row without a case is one a simulation is about to open a case for, or
\* one whose simulation died: events leave none.
OrphansBounded ==
    Cardinality({k \in taken : \A c \in cases : c.key # k})
      =< Cardinality({r \in Requests : req[r].at = "open"}) + faults

\* A provider that repeats an event gets its receipt, unless the number of its
\* source row belongs to another case or row.
EveryEventIsTaken ==
    \A e \in Events :
        <>(\/ answered[e] # {}
           \/ KeyOf[e] \in taken /\ caseOf[e] = 0)

-----------------------------------------------------------------------------
(* Inductive strengthening *)

\* What a handler carries is what its stage needs.
RequestOK(r) ==
    /\ req[r].at \in {"insert", "upsert", "source", "commit", "find", "answer"}
         => req[r].event \in Events
    /\ req[r].at \in {"source", "commit", "number", "create", "open"}
         => req[r].customer \in Customers
    /\ req[r].at \in {"number", "create", "open"} => req[r].event = NoEvent
    /\ req[r].at = "create" => req[r].key \in Keys
    /\ req[r].at = "answer" => req[r].n = caseOf[req[r].event] /\ req[r].n # 0

\* An event is in the ledger with its one case, or in one transaction, or neither.
EventOK(e) ==
    /\ e \in ledger <=> caseOf[e] # 0
    /\ caseOf[e] # 0 => \E c \in cases : c.event = e
    /\ \A c \in cases : c.event = e => c.id = caseOf[e]
    /\ \A c, d \in cases : c.event = e /\ d.event = e => c = d
    /\ answered[e] \subseteq {caseOf[e]} \ {0}
    /\ \A r \in Requests : HoldsEvent(r, e) => e \notin ledger
    /\ \A q, r \in Requests : HoldsEvent(q, e) /\ HoldsEvent(r, e) => q = r

Opens(r, k) == req[r].at = "open" /\ req[r].key = k

\* A key is free, or held by one transaction, or taken: by one case at most, or by
\* one simulation that has yet to open its case.
KeyOK(k) ==
    /\ \A c, d \in cases : c.key = k /\ d.key = k => c = d
    /\ \A c \in cases : c.key = k => k \in taken
    /\ \A r \in Requests : HoldsKey(r, k) => k \notin taken
    /\ \A q, r \in Requests : HoldsKey(q, k) /\ HoldsKey(r, k) => q = r
    /\ \A r \in Requests : Opens(r, k) => k \in taken /\ \A c \in cases : c.key # k
    /\ \A q, r \in Requests : Opens(q, k) /\ Opens(r, k) => q = r

IntakeInv ==
    /\ TypeOK
    /\ IsFiniteSet(taken) /\ IsFiniteSet(cases) /\ \A c \in cases : c.id # 0
    /\ \A r \in Requests : RequestOK(r)
    /\ \A e \in Events : EventOK(e)
    /\ \A k \in Keys : KeyOK(k)
=============================================================================
