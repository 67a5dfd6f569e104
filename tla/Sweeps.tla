------------------------------- MODULE Sweeps -------------------------------
(***************************************************************************)
(* The loops that work through many recovery cases: the sequence sweep,    *)
(* the diagnosis of pending cases, simulated verification in bulk, and the *)
(* batch agent with its job queue. Each reads a list of cases up to a      *)
(* limit, in an order of its own, and takes their turns one after the      *)
(* other, on a list that grows old meanwhile. The first stops at an        *)
(* exception of any turn; the others catch it and go on.                   *)
(*                                                                         *)
(* The services a turn calls are one step each; CaseLifecycle and          *)
(* Automation model what may come between their database calls. What the   *)
(* policy gate may answer is taken from PolicyEngine. A case is "due" when *)
(* the wait of its next sequence step is over; a promise, which pauses the *)
(* sequence like a wait, is in Automation.                                 *)
(***************************************************************************)
EXTENDS PolicyEngine, FiniteSets

CONSTANTS
    Cases,             \* numbered in the order of their creation
    Rank,              \* priority and amount of a case, as one number
    Handlers,          \* requests and queue workers
    Jobs, NoJob,       \* batch jobs that may be queued
    Limit,             \* the limit each loop is called with
    Configured,        \* RECOVERY_SEQUENCE_STEPS_JSON
    Recommendable,     \* actions the AI provider may recommend
    Provider,          \* "gemini" or "mock"
    AllowSimulated,    \* ALLOW_SIMULATED_VERIFICATION, with the token given
    Suspect,           \* cases for which providers may fail for good
    MaxAttempts,       \* attempts of a queued job (5 in the code)
    Concurrency,       \* jobs worked at once (2 in the code)
    MaxFaults          \* bound on handlers that die

Loops == {"sequence", "diagnose", "verify", "batch"}

ASSUME SweepsAssumption ==
    /\ Cases \subseteq Nat /\ IsFiniteSet(Cases)
    /\ Rank \in [Cases -> Nat]
    /\ NoJob \notin Jobs
    /\ Limit \in [Loops -> Nat \ {0}]
    /\ Configured \in Seq(Actions)
    /\ Recommendable \subseteq Actions
    /\ Provider \in {"gemini", "mock"}
    /\ AllowSimulated \in BOOLEAN
    /\ Suspect \subseteq Cases
    /\ MaxAttempts \in Nat \ {0} /\ Concurrency \in Nat \ {0}
    /\ MaxFaults \in Nat

VARIABLES
    status,      \* RecoveryCase.status, "ABSENT" before the case is created
    decision,    \* the stored recommendation, or "NONE"
    done,        \* steps of the sequence that have run
    due,
    faulty,      \* cases for which calls of outside providers always fail
    task,        \* per handler: the loop it runs, where it is, its list
    job,         \* per job: state in the queue and failed attempts
    faults

rows == << status, decision, done, due >>
vars == << rows, faulty, task, job, faults >>

-----------------------------------------------------------------------------
DefaultSequence ==
    << "SEND_PAYMENT_LINK", "SEND_EMAIL", "SEND_EMAIL", "CREATE_ESCALATION" >>

\* getSteps: a configuration that is not a sequence of at most eight steps with
\* an escalation at its end is replaced by the default.
Script ==
    IF Len(Configured) \in 1 .. 8
         /\ Configured[Len(Configured)] = "CREATE_ESCALATION"
    THEN Configured ELSE DefaultSequence

\* A case as a loop has listed it: the batch goes by the status and the
\* recommendation of the list, or of its own last call.
Snapshots ==
    [on : Cases, live : CaseStatuses, action : Actions \cup {"NONE"}]

Idle == [loop |-> "none", at |-> "idle", todo |-> {}, job |-> NoJob]

Init ==
    /\ status = [c \in Cases |-> "ABSENT"]
    /\ decision = [c \in Cases |-> "NONE"]
    /\ done = [c \in Cases |-> 0]
    /\ due = Cases
    /\ faulty \in SUBSET Suspect
    /\ task = [h \in Handlers |-> Idle]
    /\ job = [j \in Jobs |-> [at |-> "none", failed |-> 0]]
    /\ faults = 0

Active(c) == status[c] \in ActiveStatuses

PreAction == {"OPEN", "DIAGNOSED"}

-----------------------------------------------------------------------------
(* The lists *)

\* Mutant of Listed: only recovered cases are left out of the sweep.
ListedUnlessRecovered(loop) ==
    {c \in Cases :
        CASE loop = "diagnose" -> status[c] = "OPEN" /\ decision[c] = "NONE"
          [] loop = "verify"   -> status[c] \in VerifiableStatuses
          [] OTHER             -> status[c] \notin {"ABSENT", "RECOVERED"}}

Listed(loop) ==
    {c \in Cases :
        CASE loop = "diagnose" -> status[c] = "OPEN" /\ decision[c] = "NONE"
          [] loop = "verify"   -> status[c] \in VerifiableStatuses
          [] OTHER             -> Active(c)}

\* Mutant of Precedes: newest first.
PrecedesNewest(loop, c, d) ==
    IF loop = "batch" /\ Rank[c] # Rank[d] THEN Rank[c] > Rank[d] ELSE c > d

\* Oldest first; the batch agent takes the highest rank first.
Precedes(loop, c, d) ==
    IF loop = "batch" /\ Rank[c] # Rank[d] THEN Rank[c] > Rank[d] ELSE c < d

Selected(loop) ==
    {c \in Listed(loop) :
        Cardinality({d \in Listed(loop) : Precedes(loop, d, c)}) < Limit[loop]}

\* The batch agent reads the recommendation along; the others read ids.
Snapshot(loop, c) ==
    IF loop = "batch"
    THEN [on |-> c, live |-> status[c], action |-> decision[c]]
    ELSE [on |-> c, live |-> "OPEN", action |-> "NONE"]

List(loop, j) ==
    [loop |-> loop, at |-> "next", job |-> j,
     todo |-> {Snapshot(loop, c) : c \in Selected(loop)}]

\* The snapshot whose turn it is.
Turn(h, s) ==
    /\ s \in task[h].todo
    /\ \A t \in task[h].todo : t = s \/ Precedes(task[h].loop, s.on, t.on)

At(h, loop, stage) == task[h].loop = loop /\ task[h].at = stage

End(h) == task' = [task EXCEPT ![h] = Idle]

Drop(h, s) ==
    task' = [task EXCEPT ![h].at = "next", ![h].todo = @ \ {s}]

\* The turn of s goes on at another stage with what has become of its snapshot.
Goto(h, s, stage, live, action) ==
    task' = [task EXCEPT ![h].at = stage,
               ![h].todo = (@ \ {s}) \cup
                             {[on |-> s.on, live |-> live, action |-> action]}]

-----------------------------------------------------------------------------
(* CaseActionsService.execute and DiagnosisService.diagnoseCase, as calls *)

\* What the gate may make of an action: its answers over all contexts.
Verdicts ==
    [action \in Actions |->
       {Effective(ctx) : ctx \in {x \in Contexts({0, MaxRetryAttempts, MaxContactAttempts}) :
                                    x.action = action}}]

\* execute throws for a case that may not be worked on, and a tool that needs a
\* payment link when the payment provider refuses to make one.
Throws(c, effective) == ~Active(c) \/ (effective \in LinkActions /\ c \in faulty)

StatusAfter(effective, live) ==
    CASE effective \in ContactActions     -> "WAITING_CUSTOMER"
      [] effective \in RetryActions       -> "ACTION_TAKEN"
      [] effective = "CREATE_ESCALATION"  -> "ESCALATED"
      [] effective = "CLOSE_CASE"         -> "CLOSED_LOST"
      [] OTHER                            -> live

\* The event of the tool completes the next sequence step when it is the step's,
\* and the wait of the next one begins.
Executed(c, effective) ==
    LET completes == /\ done[c] < Len(Script)
                     /\ effective = Script[done[c] + 1]
                     /\ effective # "NO_ACTION" IN
    /\ status' = [status EXCEPT ![c] = StatusAfter(effective, @)]
    /\ done' = IF completes THEN [done EXCEPT ![c] = @ + 1] ELSE done
    /\ due' = IF completes THEN due \ {c} ELSE due
    /\ UNCHANGED decision

\* Gemini throws without a key, when it is refused, and when its answer is empty
\* or does not fit the schema. The mock never does.
DiagnosisThrows(c) == Provider = "gemini" /\ c \in faulty /\ decision[c] = "NONE"

\* A stored decision is kept.
Diagnosed(c) ==
    /\ IF decision[c] # "NONE"
       THEN UNCHANGED << status, decision >>
       ELSE /\ \E action \in Recommendable :
                 decision' = [decision EXCEPT ![c] = action]
            /\ status' = IF status[c] \in PreAction
                         THEN [status EXCEPT ![c] = "DIAGNOSED"] ELSE status
    /\ UNCHANGED << done, due >>

-----------------------------------------------------------------------------
(* SequencesService.sweep: an exception of one turn ends the sweep *)

StartSweep(h) ==
    /\ task[h] = Idle
    /\ task' = [task EXCEPT ![h] = List("sequence", NoJob)]
    /\ UNCHANGED << rows, faulty, job, faults >>

\* runCase goes no further with a case that has ended or is complete, or whose next
\* step is not due.
RunCase(h) ==
    /\ At(h, "sequence", "next")
    /\ \E s \in task[h].todo :
         /\ Turn(h, s)
         /\ IF Active(s.on) /\ s.on \in due /\ done[s.on] < Len(Script)
            THEN Goto(h, s, "execute", s.live, Script[done[s.on] + 1])
            ELSE Drop(h, s)
    /\ UNCHANGED << rows, faulty, job, faults >>

ExecuteStep(h, c, effective) ==
    /\ At(h, "sequence", "execute")
    /\ \E s \in task[h].todo :
         /\ Turn(h, s) /\ s.on = c /\ effective \in Verdicts[s.action]
         /\ IF Throws(c, effective)
            THEN End(h) /\ UNCHANGED rows
            ELSE Drop(h, s) /\ Executed(c, effective)
    /\ UNCHANGED << faulty, job, faults >>

-----------------------------------------------------------------------------
(* DiagnosisService.diagnosePending and VerificationService.simulateBatch:
   exceptions are caught turn by turn *)

StartDiagnosing(h) ==
    /\ task[h] = Idle
    /\ task' = [task EXCEPT ![h] = List("diagnose", NoJob)]
    /\ UNCHANGED << rows, faulty, job, faults >>

DiagnoseNext(h) ==
    /\ At(h, "diagnose", "next")
    /\ \E s \in task[h].todo :
         /\ Turn(h, s)
         /\ Drop(h, s)
         /\ IF DiagnosisThrows(s.on) THEN UNCHANGED rows ELSE Diagnosed(s.on)
    /\ UNCHANGED << faulty, job, faults >>

\* The endpoint asks for the demo setting and the token.
StartVerifying(h) ==
    /\ AllowSimulated
    /\ task[h] = Idle
    /\ task' = [task EXCEPT ![h] = List("verify", NoJob)]
    /\ UNCHANGED << rows, faulty, job, faults >>

\* simulateCustomer with the roll of a die; it throws for a case that has left the
\* verifiable states.
Rolled(c) ==
    /\ status' \in {status} \cup
         IF status[c] \in VerifiableStatuses
         THEN {[status EXCEPT ![c] = "RECOVERED"]} ELSE {}
    /\ UNCHANGED << decision, done, due >>

VerifyNext(h) ==
    /\ At(h, "verify", "next")
    /\ \E s \in task[h].todo :
         Turn(h, s) /\ Drop(h, s) /\ Rolled(s.on)
    /\ UNCHANGED << faulty, job, faults >>

-----------------------------------------------------------------------------
(* AgentService.runBatch: exceptions are caught turn by turn, but not those of
   its first and last queries and of the promise sweep it ends with *)

StartBatch(h, j) ==
    /\ task[h] = Idle
    /\ task' = [task EXCEPT ![h] = [Idle EXCEPT !.loop = "batch", !.job = j,
                                                !.at = "simulate"]]

\* The dashboard's button and the API.
RequestBatch(h) ==
    /\ StartBatch(h, NoJob)
    /\ UNCHANGED << rows, faulty, job, faults >>

\* Case numbers are given in order.
Created(c) ==
    /\ status[c] = "ABSENT"
    /\ \A d \in Cases : d < c => status[d] # "ABSENT"
    /\ status' = [status EXCEPT ![c] = "OPEN"]
    /\ UNCHANGED << decision, done, due >>

\* A batch may be told to create the cases it then works, each time it runs.
Simulate(h, c) ==
    /\ At(h, "batch", "simulate")
    /\ Created(c)
    /\ UNCHANGED << faulty, task, job, faults >>

ListBatch(h) ==
    /\ At(h, "batch", "simulate")
    /\ task' = [task EXCEPT ![h] = List("batch", task[h].job)]
    /\ UNCHANGED << rows, faulty, job, faults >>

\* Diagnose what has no recommendation, execute what has not been acted on, and
\* verify what waits.
StageOf(live, action) ==
    IF live \in PreAction
    THEN IF action = "NONE" THEN "diagnose" ELSE "execute"
    ELSE IF live \in VerifiableStatuses THEN "verify" ELSE "next"

\* "next" drops the snapshot: its turn is over.
Resume(h, s, stage, live, action) ==
    IF stage = "next" THEN Drop(h, s) ELSE Goto(h, s, stage, live, action)

BatchNext(h) ==
    /\ At(h, "batch", "next")
    /\ \E s \in task[h].todo :
         Turn(h, s) /\ Resume(h, s, StageOf(s.live, s.action), s.live, s.action)
    /\ UNCHANGED << rows, faulty, job, faults >>

BatchDiagnose(h) ==
    /\ At(h, "batch", "diagnose")
    /\ \E s \in task[h].todo :
         /\ Turn(h, s)
         /\ IF DiagnosisThrows(s.on)
            THEN Drop(h, s) /\ UNCHANGED rows
            ELSE /\ Diagnosed(s.on)
                 /\ Resume(h, s, StageOf(status'[s.on], decision'[s.on]),
                           status'[s.on], decision'[s.on])
    /\ UNCHANGED << faulty, job, faults >>

BatchExecute(h) ==
    /\ At(h, "batch", "execute")
    /\ \E s \in task[h].todo :
         /\ Turn(h, s)
         /\ \E effective \in Verdicts[s.action] :
              IF Throws(s.on, effective)
              THEN Drop(h, s) /\ UNCHANGED rows
              ELSE /\ Executed(s.on, effective)
                   /\ IF status'[s.on] \in VerifiableStatuses
                      THEN Goto(h, s, "verify", status'[s.on], s.action)
                      ELSE Drop(h, s)
    /\ UNCHANGED << faulty, job, faults >>

\* A case promised for a later day is left alone (verifyWaitingCustomers is on by
\* default). Nothing asks whether simulated verification is allowed.
BatchVerify(h) ==
    /\ At(h, "batch", "verify")
    /\ \E s \in task[h].todo : Turn(h, s) /\ Drop(h, s) /\ Rolled(s.on)
    /\ UNCHANGED << faulty, job, faults >>

EndLoop(h) ==
    /\ task[h].loop # "batch" /\ task[h].at = "next" /\ task[h].todo = {}
    /\ End(h)
    /\ UNCHANGED << rows, faulty, job, faults >>

\* The promise sweep, the summary and the audit entry.
EndBatch(h) ==
    LET j == task[h].job IN
    /\ At(h, "batch", "next") /\ task[h].todo = {}
    /\ End(h)
    /\ job' = IF j = NoJob THEN job ELSE [job EXCEPT ![j].at = "completed"]
    /\ UNCHANGED << rows, faulty, faults >>

-----------------------------------------------------------------------------
(* RecoveryJobsService and its queue *)

Enqueue(j) ==
    /\ job[j].at = "none"
    /\ job' = [job EXCEPT ![j].at = "waiting"]
    /\ UNCHANGED << rows, faulty, task, faults >>

TakeJob(h, j) ==
    /\ job[j].at = "waiting"
    /\ Cardinality({k \in Jobs : job[k].at = "active"}) < Concurrency
    /\ StartBatch(h, j)
    /\ job' = [job EXCEPT ![j].at = "active"]
    /\ UNCHANGED << rows, faulty, faults >>

\* Mutant of Failed: the attempts are counted and never run out.
FailedForEver(record) ==
    [at |-> "delayed", failed |-> record.failed + 1]

\* Mutant of Failed: the attempts are not counted.
FailedUncounted(record) == [at |-> "delayed", failed |-> record.failed]

\* A failed run uses up an attempt, and the next waits for its back-off.
Failed(record) ==
    [at |-> IF record.failed + 1 < MaxAttempts THEN "delayed" ELSE "failed",
     failed |-> record.failed + 1]

BatchThrows(h) ==
    LET j == task[h].job IN
    /\ \/ At(h, "batch", "simulate")
       \/ At(h, "batch", "next") /\ task[h].todo = {}
    /\ End(h)
    /\ job' = IF j = NoJob THEN job ELSE [job EXCEPT ![j] = Failed(@)]
    /\ UNCHANGED << rows, faulty, faults >>

BackOffEnds(j) ==
    /\ job[j].at = "delayed"
    /\ job' = [job EXCEPT ![j].at = "waiting"]
    /\ UNCHANGED << rows, faulty, task, faults >>

\* A process that dies leaves its queued job to another worker, which starts it
\* from the beginning.
Crash(h) ==
    LET j == task[h].job IN
    /\ task[h] # Idle /\ faults < MaxFaults
    /\ End(h)
    /\ job' = IF j = NoJob THEN job ELSE [job EXCEPT ![j].at = "waiting"]
    /\ faults' = faults + 1
    /\ UNCHANGED << rows, faulty >>

-----------------------------------------------------------------------------
(* What happens to cases besides *)

Arrive(c) ==
    /\ Created(c)
    /\ UNCHANGED << faulty, task, job, faults >>

\* A signed provider webhook.
Pay(c) ==
    /\ status[c] \in VerifiableStatuses
    /\ status' = [status EXCEPT ![c] = "RECOVERED"]
    /\ UNCHANGED << decision, done, due, faulty, task, job, faults >>

\* A refused call. (An operator who closes the case ends it as well.)
HandOver(c) ==
    /\ Active(c)
    /\ status' = [status EXCEPT ![c] = "ESCALATED"]
    /\ UNCHANGED << decision, done, due, faulty, task, job, faults >>

\* The wait of the next step is over.
FallDue(c) ==
    /\ Active(c) /\ c \notin due
    /\ due' = due \cup {c}
    /\ UNCHANGED << status, decision, done, faulty, task, job, faults >>

Work(h) ==
    \/ RunCase(h) \/ DiagnoseNext(h) \/ VerifyNext(h)
    \/ \E c \in Cases, effective \in Actions : ExecuteStep(h, c, effective)
    \/ ListBatch(h) \/ BatchNext(h) \/ BatchDiagnose(h) \/ BatchExecute(h)
    \/ BatchVerify(h) \/ EndLoop(h) \/ EndBatch(h)

Begin(h) ==
    \/ StartSweep(h) \/ StartDiagnosing(h) \/ StartVerifying(h)
    \/ RequestBatch(h) \/ \E j \in Jobs : TakeJob(h, j)

Next ==
    \/ \E h \in Handlers : \/ Begin(h) \/ Work(h) \/ BatchThrows(h) \/ Crash(h)
                           \/ \E c \in Cases : Simulate(h, c)
    \/ \E j \in Jobs : Enqueue(j) \/ BackOffEnds(j)
    \/ \E c \in Cases : Arrive(c) \/ Pay(c) \/ HandOver(c) \/ FallDue(c)

Spec == Init /\ [][Next]_vars

\* A step that the gate does not defer.
Decide(c) ==
    \E h \in Handlers, effective \in Actions \ {"NO_ACTION"} :
        ExecuteStep(h, c, effective)

\* Loops that run go on, clocks run, the queue hands out what waits in it, and the
\* sweep and the diagnosis are called again and again. The gate defers for the
\* clock's sake only (DeferralHelps in CaseLifecycle_proofs): not for ever.
FairSpec ==
    /\ Spec
    /\ \A h \in Handlers : WF_vars(Work(h))
    /\ \A c \in Cases : WF_vars(FallDue(c)) /\ SF_vars(Decide(c))
    /\ \A j \in Jobs : /\ WF_vars(BackOffEnds(j))
                       /\ SF_vars(\E h \in Handlers : TakeJob(h, j))
    /\ SF_vars(\E h \in Handlers : StartSweep(h))
    /\ SF_vars(\E h \in Handlers : StartDiagnosing(h))

-----------------------------------------------------------------------------
(* Properties *)

TypeOK ==
    /\ status \in [Cases -> CaseStatuses \cup {"ABSENT"}]
    /\ decision \in [Cases -> Actions \cup {"NONE"}]
    /\ done \in [Cases -> 0 .. Len(Script)]
    /\ due \subseteq Cases /\ faulty \subseteq Suspect
    /\ task \in [Handlers ->
         [loop : Loops \cup {"none"},
          at : {"idle", "simulate", "next", "diagnose", "execute", "verify"},
          todo : SUBSET Snapshots, job : Jobs \cup {NoJob}]]
    /\ job \in [Jobs -> [at : {"none", "waiting", "active", "delayed",
                               "completed", "failed"},
                         failed : 0 .. MaxAttempts]]
    /\ faults \in 0 .. MaxFaults

\* No case is starved by the limit of the sweep: however many older cases wait or
\* are deferred, an active case ends, by its own sequence if nothing else, unless
\* a case at least as old keeps throwing.
EveryCaseEnds ==
    \A c \in Cases :
        Active(c) ~> \/ status[c] \in TerminalStatuses
                     \/ \E d \in faulty : d =< c

\* Every new case is diagnosed or worked on, unless its own diagnosis keeps failing
\* or as many older ones do as a run takes.
EveryCaseIsDiagnosed ==
    \A c \in Cases :
        status[c] = "OPEN" /\ decision[c] = "NONE"
          ~> \/ status[c] # "OPEN" \/ decision[c] # "NONE"
             \/ c \in faulty
             \/ Cardinality({d \in faulty : d < c}) >= Limit["diagnose"]

\* A queued batch ends: done, or failed for good after its attempts.
EveryJobEnds ==
    \A j \in Jobs :
        job[j].at = "waiting" ~> job[j].at \in {"completed", "failed"}
=============================================================================
