----------------------------- MODULE Automation -----------------------------
(***************************************************************************)
(* The services that work recovery cases without a customer or an operator *)
(* asking for each step: the recovery sequence, the batch agent, and the   *)
(* approval queue. Each one runs on behalf of a request or a queued job,   *)
(* reads what it needs, and then calls execute, diagnoseCase and           *)
(* simulateCustomer of CaseLifecycle, whose steps this module takes as     *)
(* they are; other requests reach the same cases directly.                 *)
(*                                                                         *)
(* A sweep or a batch works through many cases one after the other: here   *)
(* it is one job per case, which may start as long after the list was read *)
(* as the cases before it take. A batch that is queued again after a       *)
(* failure starts from a new list.                                         *)
(***************************************************************************)
EXTENDS CaseLifecycle

CONSTANTS
    Forms,       \* approval requests
    NoForm,
    Proposed,    \* actions named in approval requests and reviews
    Script,      \* the configured steps of the recovery sequence
    MaxFaults    \* bound on handlers that die

ASSUME AutomationAssumption ==
    /\ NoForm \notin Forms
    /\ Proposed \subseteq Offered
    /\ Script \in Seq(Offered)
    /\ "batch" \in Origins
    /\ MaxFaults \in Nat

VARIABLES
    done,      \* steps of the sequence the case's events complete
    ripe,      \* cases whose next step has waited long enough
    pledged,   \* cases whose promised date is still to come
    form,      \* ApprovalRequest.status, or "NONE"
    about,     \* the case of an approval request
    ran,       \* per form: calls of execute for its review that returned, with the
               \* tool of the action, of its fallback, or, when deferred, with none
    job,       \* per handler: the service it runs for and what comes next
    faults

queue == << form, about, ran >>
auto == << done, ripe, pledged, queue, job, faults >>

Jobs ==
    [who : {"none", "sequence", "batch", "approver"},
     at : {"idle", "execute", "running", "diagnose", "fresh", "verify", "create",
           "mark", "reject"},
     on : Cases \cup {NoCase}, form : Forms \cup {NoForm},
     action : Actions \cup {"NONE"}, live : CaseStatuses]

Job(who, stage, c, f, action, live) ==
    [who |-> who, at |-> stage, on |-> c, form |-> f, action |-> action,
     live |-> live]

NoJob == Job("none", "idle", NoCase, NoForm, "NONE", "OPEN")

\* The sequence of a deployment that configures none.
DefaultSequence ==
    << "SEND_PAYMENT_LINK", "SEND_EMAIL", "SEND_EMAIL", "CREATE_ESCALATION" >>

AutoInit ==
    /\ Init
    /\ done = [c \in Cases |-> 0]
    /\ ripe = Cases
    /\ pledged = {}
    /\ form = [f \in Forms |-> "NONE"]
    /\ about = [f \in Forms |-> NoCase]
    /\ ran = [f \in Forms |-> 0]
    /\ job = [r \in Requests |-> NoJob]
    /\ faults = 0

Free(r) == job[r] = NoJob /\ req[r] = Idle

Awaits(r, stage) == job[r].at = stage /\ req[r] = Idle

Take(r, who, stage, c, action) ==
    /\ Free(r)
    /\ job' = [job EXCEPT ![r] = Job(who, stage, c, NoForm, action, "OPEN")]

Stage(r, stage) == job' = [job EXCEPT ![r].at = stage]

Finished(r) == job' = [job EXCEPT ![r] = NoJob]

-----------------------------------------------------------------------------
(* SequencesService.runCase *)

\* Mutant of Paused: a promise pauses the sequence after its date as well.
PausedForEver(c) == promise[c] \in OpenPromises

Paused(c) == promise[c] \in OpenPromises /\ c \in pledged

\* The next step of an active case that is neither paused nor complete.
RunCase(r, c) ==
    /\ status[c] \in ActiveStatuses /\ ~Paused(c)
    /\ done[c] < Len(Script) /\ c \in ripe
    /\ Take(r, "sequence", "execute", c, Script[done[c] + 1])
    /\ UNCHANGED << vars, done, ripe, pledged, queue, faults >>

-----------------------------------------------------------------------------
(* AgentService.runBatch, on one of the cases it has listed *)

PreAction == {"OPEN", "DIAGNOSED"}

\* Once there is nothing to execute the outcome of a waiting case is verified.
AfterAct(live) == IF live \in VerifiableStatuses THEN "fresh" ELSE "idle"

BeforeAct(action, live) ==
    IF live \notin PreAction THEN AfterAct(live)
    ELSE IF action = "NONE" THEN "diagnose" ELSE "execute"

\* What a batch knows of a case: its status and recommendation as last read.
Batch(c, stage, action, live) == Job("batch", stage, c, NoForm, action, live)

Resume(next) == IF next.at = "idle" THEN NoJob ELSE next

Snapshot(r, c) ==
    /\ Free(r)
    /\ status[c] \in ActiveStatuses
    /\ job' = [job EXCEPT ![r] =
                 Resume(Batch(c, BeforeAct(decision[c], status[c]),
                                 decision[c], status[c]))]
    /\ UNCHANGED << vars, done, ripe, pledged, queue, faults >>

\* diagnoseCase keeps a decision somebody else has stored in the meantime.
CallDiagnose(r) ==
    LET c == job[r].on IN
    /\ Awaits(r, "diagnose")
    /\ IF decision[c] = "NONE"
       THEN BeginDiagnose(r, c) /\ Stage(r, "running")
       ELSE /\ job' = [job EXCEPT ![r] =
                         Resume(Batch(c, BeforeAct(decision[c], status[c]),
                                         decision[c], status[c]))]
            /\ UNCHANGED vars
    /\ UNCHANGED << done, ripe, pledged, queue, faults >>

\* A case promised for a later day is left alone.
ReadFresh(r) ==
    /\ Awaits(r, "fresh")
    /\ IF Paused(job[r].on) THEN Finished(r) ELSE Stage(r, "verify")
    /\ UNCHANGED << vars, done, ripe, pledged, queue, faults >>

CallVerify(r) ==
    LET c == job[r].on IN
    /\ Awaits(r, "verify")
    /\ IF status[c] \in VerifiableStatuses
       THEN /\ \E outcome \in Outcomes : BeginVerify(r, c, outcome, "batch")
            /\ Stage(r, "running")
       ELSE Finished(r) /\ UNCHANGED vars
    /\ UNCHANGED << done, ripe, pledged, queue, faults >>

-----------------------------------------------------------------------------
(* ApprovalsService: an operator reviews what somebody proposed *)

\* A pending request of the case is returned instead of a new one. (Forms bounds
\* the requests ever made.)
Request(r, c) ==
    /\ \A f \in Forms : about[f] = c => form[f] # "PENDING"
    /\ Cardinality({f \in Forms : form[f] = "NONE"})
         > Cardinality({other \in Requests : job[other].at = "create"})
    /\ \E action \in Proposed : Take(r, "approver", "create", c, action)
    /\ UNCHANGED << vars, done, ripe, pledged, queue, faults >>

CreateForm(r, f) ==
    /\ Awaits(r, "create") /\ form[f] = "NONE"
    /\ form' = [form EXCEPT ![f] = "PENDING"]
    /\ about' = [about EXCEPT ![f] = job[r].on]
    /\ Finished(r)
    /\ UNCHANGED << vars, done, ripe, pledged, ran, faults >>

\* Mutant of Review: a request that was reviewed can be reviewed again.
ReviewAgain(r, f, verdict) ==
    /\ form[f] # "NONE"
    /\ \E action \in Proposed :
         /\ Free(r)
         /\ job' = [job EXCEPT ![r] =
                      Job("approver", verdict, about[f], f, action, "OPEN")]
    /\ UNCHANGED << vars, done, ripe, pledged, queue, faults >>

\* approve and reject read the request; the reviewer may amend the action.
Review(r, f, verdict) ==
    /\ form[f] = "PENDING"
    /\ \E action \in Proposed :
         /\ Free(r)
         /\ job' = [job EXCEPT ![r] =
                      Job("approver", verdict, about[f], f, action, "OPEN")]
    /\ UNCHANGED << vars, done, ripe, pledged, queue, faults >>

\* The verdict is written once the action has returned, or at once when there
\* is none, whatever the request has become.
MarkReviewed(r) ==
    /\ \/ Awaits(r, "mark")
          /\ form' = [form EXCEPT ![job[r].form] = "APPROVED"]
       \/ Awaits(r, "reject")
          /\ form' = [form EXCEPT ![job[r].form] = "REJECTED"]
    /\ Finished(r)
    /\ UNCHANGED << vars, done, ripe, pledged, about, ran, faults >>

-----------------------------------------------------------------------------
(* The calls of all three, and what they do when a call returns *)

\* execute throws for a terminal case, which ends the job.
CallExecute(r) ==
    LET c == job[r].on IN
    /\ Awaits(r, "execute")
    /\ IF status[c] \in ActiveStatuses
       THEN BeginExecute(r, c, job[r].action) /\ Stage(r, "running")
       ELSE Finished(r) /\ UNCHANGED vars
    /\ UNCHANGED << done, ripe, pledged, queue, faults >>

\* execute returns after the event of its tool, or without one for NO_ACTION;
\* an exception of a tool ends the job with it.
Executed(r) == req'[r] = Idle /\ req[r].at \in {"record", "evaluate"}

\* The status execute and diagnoseCase report to their caller. A tool that may not
\* advance the case reports the terminal status it read: no caller asks which.
Reported(r) ==
    IF req[r].at = "record"
    THEN IF req[r].may THEN StatusAfter(req[r].what) ELSE "CLOSED_LOST"
    ELSE IF req[r].at = "advance" /\ req[r].may THEN "DIAGNOSED"
    ELSE status[req[r].on]

\* Mutant of Return: the review is marked although execute threw.
ReturnAnyway(r) ==
    IF job[r].who = "approver" THEN [job[r] EXCEPT !.at = "mark"]
    ELSE IF job[r].who # "batch" THEN NoJob
    ELSE IF req[r].at = "advance"
         THEN Resume(Batch(job[r].on, BeforeAct(req[r].what, Reported(r)),
                              req[r].what, Reported(r)))
    ELSE IF Executed(r)
         THEN Resume(Batch(job[r].on, AfterAct(Reported(r)),
                              job[r].action, Reported(r)))
    ELSE NoJob

\* What a job does after the call it was waiting for.
Return(r) ==
    IF job[r].who = "approver" /\ Executed(r) THEN [job[r] EXCEPT !.at = "mark"]
    ELSE IF job[r].who # "batch" THEN NoJob
    ELSE IF req[r].at = "advance"
         THEN Resume(Batch(job[r].on, BeforeAct(req[r].what, Reported(r)),
                              req[r].what, Reported(r)))
    ELSE IF Executed(r)
         THEN Resume(Batch(job[r].on, AfterAct(Reported(r)),
                              job[r].action, Reported(r)))
    ELSE NoJob

\* Mutant of Completes: every event counts as a step.
CompletesAnyway(r) == req[r].at = "record"

\* completedStepTimes: an event of any service completes the next step when its
\* tool is the step's.
Completes(r) ==
    /\ req[r].at = "record"
    /\ done[req[r].on] < Len(Script)
    /\ req[r].what = Script[done[req[r].on] + 1]

Step(r) ==
    LET c == req[r].on IN
    /\ Proceed(r)
    /\ job' = IF req'[r] = Idle THEN [job EXCEPT ![r] = Return(r)] ELSE job
    /\ ran' = IF job[r].who = "approver" /\ Executed(r)
              THEN [ran EXCEPT ![job[r].form] = @ + 1] ELSE ran
    /\ done' = IF Completes(r) THEN [done EXCEPT ![c] = @ + 1] ELSE done
    /\ ripe' = IF Completes(r) THEN ripe \ {c} ELSE ripe
    /\ pledged' = IF req[r].at = "upsertPromise" THEN pledged \cup {c} ELSE pledged
    /\ UNCHANGED << form, about, faults >>

Die(r) ==
    /\ ~Free(r) /\ faults < MaxFaults
    /\ Abort(r) \/ (req[r] = Idle /\ UNCHANGED vars)
    /\ Finished(r)
    /\ faults' = faults + 1
    /\ UNCHANGED << done, ripe, pledged, queue >>

\* Requests that reach a case directly.
Direct(r) == Free(r) /\ Begin(r) /\ UNCHANGED auto

Ripen(c) ==
    /\ c \notin ripe
    /\ ripe' = ripe \cup {c}
    /\ UNCHANGED << vars, done, pledged, queue, job, faults >>

PromiseFalls(c) ==
    /\ c \in pledged
    /\ pledged' = pledged \ {c}
    /\ UNCHANGED << vars, done, ripe, queue, job, faults >>

Work(r) ==
    \/ Step(r) \/ CallExecute(r) \/ CallDiagnose(r) \/ ReadFresh(r) \/ CallVerify(r)
    \/ MarkReviewed(r) \/ \E f \in Forms : CreateForm(r, f)

Queue(r, c) ==
    \/ RunCase(r, c) \/ Snapshot(r, c) \/ Request(r, c)

AutoNext ==
    \/ \E r \in Requests : Direct(r) \/ Work(r) \/ Die(r)
    \/ \E r \in Requests, c \in Cases : Queue(r, c)
    \/ \E r \in Requests, f \in Forms, verdict \in {"execute", "reject"} :
         Review(r, f, verdict)
    \/ \E c \in Cases : Ripen(c) \/ PromiseFalls(c)
    \/ World /\ UNCHANGED auto

AutoSpec == AutoInit /\ [][AutoNext]_<<vars, auto>>

\* Handlers that run go on, cooldowns and waits pass, and the sequence sweep is
\* called again and again. While the contact window is closed a sweep only defers:
\* liveness is asked of windows that stay open.
AutoFairSpec ==
    /\ AutoSpec
    /\ \A r \in Requests : WF_<<vars, auto>>(Work(r))
    /\ \A c \in Cases : /\ WF_<<vars, auto>>(Ripen(c))
                        /\ WF_<<vars, auto>>(PromiseFalls(c))
                        /\ WF_<<vars, auto>>(CooldownPasses(c) /\ UNCHANGED auto)
                        /\ SF_<<vars, auto>>(\E r \in Requests : RunCase(r, c))

-----------------------------------------------------------------------------
(* Properties *)

AutoTypeOK ==
    /\ TypeOK
    /\ done \in [Cases -> 0 .. Len(Script)]
    /\ ripe \subseteq Cases /\ pledged \subseteq Cases
    /\ form \in [Forms -> {"NONE", "PENDING", "APPROVED", "REJECTED"}]
    /\ about \in [Forms -> Cases \cup {NoCase}] /\ ran \in [Forms -> Nat]
    /\ faults \in 0 .. MaxFaults
    /\ job \in [Requests -> Jobs]

\* Approval does not bypass the policy, nor stand in for an execution: behind an
\* approved request is a call of execute that returned, so the gate has been asked
\* about the reviewed action, and what it let through - the action, the fallback of
\* a denial, or nothing when it defers - ran to the end, although tools throw and
\* reviewers race or die. (approve does not look at which it was: an approved
\* action may be one that was denied.)
ApprovedWasExecuted == \A f \in Forms : form[f] = "APPROVED" => ran[f] > 0

\* Approving calls execute before it marks the request, so reviewers who overlap or
\* die may call it again, each once at most.
RunsBounded ==
    \A f \in Forms : ran[f] =< Cardinality(Requests) + faults

Reviewed(f) ==
    form[f] \in {"APPROVED", "REJECTED"} /\ \A r \in Requests : job[r].form # f

\* A verdict is final once the reviewers that overlapped it are gone: it is never
\* overturned and nothing is executed for it again.
ReviewIsFinal ==
    [][\A f \in Forms : Reviewed(f) => Reviewed(f)' /\ form'[f] = form[f]
                                       /\ ran'[f] = ran[f]]_<<vars, auto>>

\* No case is forgotten: an active case without a running promise ends, or is
\* promised anew, or all steps of its sequence up to the escalation have run, for
\* all deferrals, denials, exceptions and other services working on it.
EveryCaseIsWorked ==
    \A c \in Cases :
        status[c] \in ActiveStatuses
          ~> \/ status[c] \in TerminalStatuses
             \/ done[c] = Len(Script)
             \/ c \in pledged

-----------------------------------------------------------------------------
(* Inductive strengthening *)

\* A job that calls knows what to call with, and a review knows its form.
JobReady(j) ==
    /\ j.at # "idle" \/ j.who # "none" => j.on \in Cases
    /\ j.at = "execute" => j.action \in Actions
    /\ j.who = "approver" /\ j.at # "create" => j.form \in Forms
    /\ j.at \in {"mark", "reject"} => j.form \in Forms

AutoInv ==
    /\ AutoTypeOK
    /\ \A r \in Requests :
         /\ JobReady(job[r])
         /\ job[r].at \notin {"idle", "running"} => req[r].at = "idle"
         /\ req[r].at = "advance" => req[r].what \in Actions
         /\ job[r].at = "mark" => ran[job[r].form] > 0
    /\ \A f \in Forms : form[f] = "PENDING" => about[f] \in Cases
    /\ ApprovedWasExecuted
=============================================================================
