---------------------------- MODULE PaymentLinks ------------------------------
(***************************************************************************)
(* Payment links of one case and the webhook that reports their payment.   *)
(* Tools look for an unpaid link and create one at Razorpay if there is    *)
(* none; customers pay what they were sent; Razorpay delivers its signed   *)
(* payment_link.paid event until it is answered with success, and may      *)
(* deliver it again meanwhile. A handler settles the case through          *)
(* verifyProviderPayment and marks the event processed.                    *)
(*                                                                         *)
(* A tool reads the status, and writes it in a later call; other handlers  *)
(* (refused calls, escalations, closures, diagnoses) do so too. So a case  *)
(* that has been recovered may be given another status afterwards. A       *)
(* signature is valid and a body well formed here.                         *)
(***************************************************************************)
EXTENDS Recovery, FiniteSets

CONSTANTS
    Links,        \* payment links Razorpay may create, one payment of each
    Tools,        \* tools and other handlers that may run at once
    Hooks,        \* webhook requests that may run at once
    NoLink,
    Detours,      \* statuses other handlers may give the case meanwhile
    MaxRetries,   \* no retry is begun once so many are scheduled
    MaxFaults     \* bound on handlers that die

ASSUME LinksAssumption ==
    /\ NoLink \notin Links
    /\ IsFiniteSet(Hooks)
    /\ Detours \subseteq CaseStatuses \ {"OPEN", "RECOVERED"}
    /\ MaxRetries \in Nat /\ MaxFaults \in Nat

VARIABLES
    status,      \* RecoveryCase.status
    booked,      \* RecoveryCase.recoveredAmount has been set
    link,        \* PaymentLink.status: "none" without a row, "created", "paid"
    received,    \* links whose payment Razorpay has received
    retries,     \* retry rows: how many there are, and which are settled
    recorded,    \* payment rows with the reference of a link's payment
    credited,    \* PAYMENT_VERIFIED events written for each link's payment
    ledger,      \* ProviderWebhookEvent per link: "absent", "open", "processed"
    tool,        \* per tool: next database call, and the status it will write
    hook,        \* per webhook request: next database call and what it has read
    faults

rows == << booked, received, recorded, credited, ledger, hook >>

\* What a settlement may write.
books == << status, booked, retries, recorded, credited >>

vars == << status, link, retries, tool, faults, rows >>

NoTool == [at |-> "idle", to |-> "WAITING_CUSTOMER"]

\* seen is the scheduled retry a request has found, 0 for none.
NoHook == [at |-> "idle", on |-> NoLink, seen |-> 0]

\* Earlier tools may have left links, several if they ran at once.
Init ==
    /\ link \in [Links -> {"none", "created"}]
    /\ status = IF \E l \in Links : link[l] = "created" THEN "WAITING_CUSTOMER"
                                                      ELSE "DIAGNOSED"
    /\ booked = FALSE
    /\ received = {}
    /\ retries = [made |-> 0, settled |-> {}]
    /\ recorded = {}
    /\ credited = [l \in Links |-> 0]
    /\ ledger = [l \in Links |-> "absent"]
    /\ tool = [t \in Tools |-> NoTool]
    /\ hook = [h \in Hooks |-> NoHook]
    /\ faults = 0

-----------------------------------------------------------------------------
(* ToolsService.sendPaymentLink, scheduleRetry, finish *)

\* A handler that has found the case active goes on to its next call.
Begin(t, at, to) ==
    /\ tool[t].at = "idle" /\ status \in ActiveStatuses
    /\ tool' = [tool EXCEPT ![t] = [at |-> at, to |-> to]]
    /\ UNCHANGED << status, link, retries, faults, rows >>

BeginLink(t) == Begin(t, "find", "WAITING_CUSTOMER")

BeginRetry(t) ==
    retries.made < MaxRetries /\ Begin(t, "schedule", "ACTION_TAKEN")

\* Any other handler that writes a status on the strength of an earlier read. A
\* diagnosis does so for cases not acted on yet.
BeginOther(t, to) ==
    /\ to = "DIAGNOSED" => status \in {"OPEN", "DIAGNOSED"}
    /\ Begin(t, "update", to)

FindLink(t) ==
    /\ tool[t].at = "find"
    /\ tool' = [tool EXCEPT ![t].at =
                  IF \E l \in Links : link[l] = "created" THEN "finish"
                                                         ELSE "create"]
    /\ UNCHANGED << status, link, retries, faults, rows >>

\* createPaymentLink: the provider's link and its row, which is then emailed.
CreateLink(t, l) ==
    /\ tool[t].at = "create" /\ link[l] = "none"
    /\ link' = [link EXCEPT ![l] = "created"]
    /\ tool' = [tool EXCEPT ![t].at = "finish"]
    /\ UNCHANGED << status, retries, faults, rows >>

ScheduleRetry(t) ==
    /\ tool[t].at = "schedule"
    /\ retries' = [retries EXCEPT !.made = @ + 1]
    /\ tool' = [tool EXCEPT ![t].at = "finish"]
    /\ UNCHANGED << status, link, faults, rows >>

\* finish leaves a case alone that it finds no longer active ...
FinishLoad(t) ==
    /\ tool[t].at = "finish"
    /\ tool' = [tool EXCEPT ![t].at =
                  IF status \in ActiveStatuses THEN "update" ELSE "idle"]
    /\ UNCHANGED << status, link, retries, faults, rows >>

\* ... and writes without looking again.
FinishUpdate(t) ==
    /\ tool[t].at = "update"
    /\ status' = tool[t].to
    /\ tool' = [tool EXCEPT ![t] = NoTool]
    /\ UNCHANGED << link, retries, faults, rows >>

\* Its process dies, or a call throws, the provider's among them.
ToolDies(t) ==
    /\ tool[t].at # "idle" /\ faults < MaxFaults
    /\ tool' = [tool EXCEPT ![t] = NoTool]
    /\ faults' = faults + 1
    /\ UNCHANGED << status, link, retries, rows >>

-----------------------------------------------------------------------------
(* RazorpayWebhookService.receive *)

Goto(h, at) == hook' = [hook EXCEPT ![h].at = at]

\* Mutant of FindEvent: an event that exists counts as processed.
FindNewEvent(h, l) ==
    /\ hook[h].at = "idle" /\ l \in received /\ ledger[l] = "absent"
    /\ hook' = [hook EXCEPT ![h] = [NoHook EXCEPT !.at = "create", !.on = l]]
    /\ UNCHANGED << books, link, received, ledger, tool, faults >>

\* A paid link's event arrives; one already processed is answered at once. The
\* provider does not stop before an answer tells it to.
FindEvent(h, l) ==
    /\ hook[h].at = "idle" /\ l \in received /\ ledger[l] # "processed"
    /\ hook' = [hook EXCEPT ![h] =
                  [NoHook EXCEPT !.at = IF ledger[l] = "absent" THEN "create"
                                                                ELSE "link",
                                 !.on = l]]
    /\ UNCHANGED << books, link, received, ledger, tool, faults >>

\* The unique (provider, eventId) fails the second of two first deliveries.
CreateEvent(h) ==
    LET l == hook[h].on IN
    /\ hook[h].at = "create"
    /\ IF ledger[l] = "absent"
       THEN /\ ledger' = [ledger EXCEPT ![l] = "open"]
            /\ Goto(h, "link")
       ELSE hook' = [hook EXCEPT ![h] = NoHook] /\ UNCHANGED ledger
    /\ UNCHANGED << books, link, received, tool, faults >>

\* Mutant of ReadCase: nothing is verified for any terminal case.
ReadActiveCase(h) ==
    /\ hook[h].at = "link"
    /\ Goto(h, IF status \in TerminalStatuses THEN "paid" ELSE "verify")
    /\ UNCHANGED << books, link, received, ledger, tool, faults >>

\* The link is known and its case is not recovered yet; otherwise there is
\* nothing left to verify.
ReadCase(h) ==
    /\ hook[h].at = "link"
    /\ Goto(h, IF status = "RECOVERED" THEN "paid" ELSE "verify")
    /\ UNCHANGED << books, link, received, ledger, tool, faults >>

\* Retry rows whose outcome is not known.
Scheduled == (1 .. retries.made) \ retries.settled

\* simulateCustomer throws unless the case can be verified; the failure is noted on
\* the event, which stays open. Otherwise it finds the latest scheduled retry.
Verify(h) ==
    /\ hook[h].at = "verify"
    /\ IF status \in VerifiableStatuses
       THEN \E i \in Scheduled \cup {0} :
              /\ \A j \in Scheduled : j =< i
              /\ i = 0 <=> Scheduled = {}
              /\ hook' = [hook EXCEPT ![h].at = "settle", ![h].seen = i]
       ELSE hook' = [hook EXCEPT ![h] = NoHook]
    /\ UNCHANGED << books, link, received, ledger, tool, faults >>

\* What every settlement writes besides a payment row: the case, its recovered
\* amount and an event with the provider's reference.
Book(h) ==
    /\ status' = "RECOVERED" /\ booked' = TRUE
    /\ credited' = [credited EXCEPT ![hook[h].on] = @ + 1]
    /\ Goto(h, "paid")

\* Mutant of Settle: the payment reference is not unique.
SettleTwice(h) ==
    /\ hook[h].at = "settle"
    /\ recorded' = recorded \cup {hook[h].on}
    /\ Book(h)
    /\ UNCHANGED << link, received, retries, ledger, tool, faults >>

\* The transaction resolves the retry it found, whatever has become of it since,
\* or else records a payment under the provider's reference, which is unique.
Settle(h) ==
    LET l == hook[h].on
        i == hook[h].seen
    IN
    /\ hook[h].at = "settle"
    /\ \/ /\ i # 0
          /\ retries' = [retries EXCEPT !.settled = @ \cup {i}]
          /\ Book(h) /\ UNCHANGED recorded
       \/ /\ i = 0 /\ l \notin recorded
          /\ recorded' = recorded \cup {l}
          /\ Book(h) /\ UNCHANGED retries
       \/ /\ i = 0 /\ l \in recorded
          /\ hook' = [hook EXCEPT ![h] = NoHook]
          /\ UNCHANGED books
    /\ UNCHANGED << link, received, ledger, tool, faults >>

\* Mutant of MarkPaid: a status the lookup of open links does not know.
MarkSettled(h) ==
    /\ hook[h].at = "paid"
    /\ link' = [link EXCEPT ![hook[h].on] = "settled"]
    /\ Goto(h, "done")
    /\ UNCHANGED << books, received, ledger, tool, faults >>

MarkPaid(h) ==
    /\ hook[h].at = "paid"
    /\ link' = [link EXCEPT ![hook[h].on] = "paid"]
    /\ Goto(h, "done")
    /\ UNCHANGED << books, received, ledger, tool, faults >>

MarkProcessed(h) ==
    /\ hook[h].at = "done"
    /\ ledger' = [ledger EXCEPT ![hook[h].on] = "processed"]
    /\ hook' = [hook EXCEPT ![h] = NoHook]
    /\ UNCHANGED << books, link, received, tool, faults >>

HookDies(h) ==
    /\ hook[h].at # "idle" /\ faults < MaxFaults
    /\ hook' = [hook EXCEPT ![h] = NoHook]
    /\ faults' = faults + 1
    /\ UNCHANGED << books, link, received, ledger, tool >>

-----------------------------------------------------------------------------
(* Customers and other handlers *)

Pay(l) ==
    /\ link[l] = "created" /\ l \notin received
    /\ received' = received \cup {l}
    /\ UNCHANGED << books, link, ledger, tool, hook, faults >>

Tool(t) ==
    \/ BeginLink(t) \/ BeginRetry(t) \/ \E to \in Detours : BeginOther(t, to)
    \/ FindLink(t) \/ \E l \in Links : CreateLink(t, l)
    \/ ScheduleRetry(t) \/ FinishLoad(t) \/ FinishUpdate(t)

Handle(h) ==
    CreateEvent(h) \/ ReadCase(h) \/ Verify(h) \/ Settle(h) \/ MarkPaid(h)
        \/ MarkProcessed(h)

Next ==
    \/ \E t \in Tools : Tool(t) \/ ToolDies(t)
    \/ \E h \in Hooks : Handle(h) \/ HookDies(h)
    \/ \E h \in Hooks, l \in Links : FindEvent(h, l)
    \/ \E l \in Links : Pay(l)

Spec == Init /\ [][Next]_vars

\* A webhook request that runs goes on, and Razorpay delivers an event again
\* until it is answered. Nothing makes a tool begin or finish, or a customer pay.
FairSpec ==
    /\ Spec
    /\ \A h \in Hooks : WF_vars(Handle(h))
    /\ \A l \in Links : SF_vars(\E h \in Hooks : FindEvent(h, l))

-----------------------------------------------------------------------------
(* Properties *)

TypeOK ==
    /\ status \in CaseStatuses /\ booked \in BOOLEAN
    /\ link \in [Links -> {"none", "created", "paid"}]
    /\ received \subseteq Links /\ recorded \subseteq Links
    /\ retries \in [made : Nat, settled : SUBSET Nat]
    /\ retries.settled \subseteq 1 .. retries.made
    /\ credited \in [Links -> Nat]
    /\ ledger \in [Links -> {"absent", "open", "processed"}]
    /\ tool \in [Tools -> [at : {"idle", "find", "create", "schedule", "finish",
                                 "update"},
                           to : CaseStatuses \ {"OPEN", "RECOVERED"}]]
    /\ hook \in [Hooks -> [at : {"idle", "create", "link", "verify", "settle",
                                 "paid", "done"},
                           on : Links \cup {NoLink}, seen : Nat]]
    /\ \A h \in Hooks : /\ hook[h].at # "idle" => hook[h].on \in Links
                        /\ hook[h].seen =< retries.made
    /\ faults \in 0 .. MaxFaults

\* Razorpay is told to stop delivering only once the money is in the books,
\* whatever handler dies before or after the transaction and whatever status
\* others write meanwhile: no reported payment is lost between ledger and case.
\* (The status need not be RECOVERED any more: a tool may have overwritten it.)
AnsweredIsCredited ==
    \A l \in Links : ledger[l] = "processed" => booked

\* Deliveries that run at once all pass the ledger, and a tool that overwrites
\* RECOVERED lets later ones verify again. Still a link's payment is credited once
\* under its own unique reference, and besides only for retries settled in its
\* place, each by the deliveries that found it scheduled and by no later one.
CreditedOnce ==
    \A l \in Links :
        credited[l] =< 1 + Cardinality(Hooks) * Cardinality(retries.settled)

\* A payment reported while the case stays one that can be verified is booked,
\* though deliveries overlap, come too early, are refused or die. (It is refused
\* for as long as a handler keeps the case from that: by ending it, or by dying
\* between its email and the case's status.)
PaidIsCredited ==
    \A l \in Links :
        <>[](l \in received /\ status \in VerifiableStatuses) => <>booked
=============================================================================
