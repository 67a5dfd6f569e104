------------------------- MODULE Automation_proofs --------------------------
(***************************************************************************)
(* Sequences, batches and reviewers do nothing to a case that requests     *)
(* could not do: every step of Automation is a step of CaseLifecycle or    *)
(* leaves its variables alone, so what is proved of CaseLifecycle holds of *)
(* Automation. And an approval stands for a call of execute that returned, *)
(* makes a bounded number of them, and is final.                           *)
(***************************************************************************)
EXTENDS Automation, CaseLifecycle_proofs

\* A handler that is idle and has no job is well-formed.
LEMMA NoJobReady == NoJob \in Jobs /\ JobReady(NoJob) /\ NoJob.at = "idle"
  BY AutomationAssumption DEF NoJob, Job, Jobs, JobReady, CaseStatuses, ActiveStatuses

\* A new job.
LEMMA NewJob ==
    ASSUME NEW who \in {"sequence", "batch", "approver"},
           NEW at \in {"execute", "create", "reject", "idle", "diagnose", "fresh"},
           NEW c \in Cases, NEW f \in Forms \cup {NoForm},
           NEW action \in Actions \cup {"NONE"}, NEW live \in CaseStatuses,
           at = "execute" => action \in Actions,
           at = "reject" => f \in Forms,
           who = "approver" /\ at # "create" => f \in Forms,
           NEW j, j = Job(who, at, c, f, action, live)
    PROVE  j \in Jobs /\ JobReady(j) /\ j.at = at /\ j.form = f
  BY DEF Job, Jobs, JobReady

\* What a batch does next with a case.
LEMMA BatchReady ==
    ASSUME NEW c \in Cases, NEW action \in Actions \cup {"NONE"},
           NEW live \in CaseStatuses,
           NEW at \in {BeforeAct(action, live), AfterAct(live)},
           NEW j, j = Resume(Batch(c, at, action, live))
    PROVE  /\ j \in Jobs /\ JobReady(j)
           /\ j.at \notin {"running", "mark"}
  <1>1. at \in {"idle", "diagnose", "execute", "fresh"}
        /\ (at = "execute" => action # "NONE")
    BY DEF BeforeAct, AfterAct
  <1>3. /\ Batch(c, at, action, live) \in Jobs
        /\ JobReady(Batch(c, at, action, live))
        /\ Batch(c, at, action, live).at = at
    BY <1>1, NewJob DEF Batch
  <1>4. j \in {NoJob, Batch(c, at, action, live)}
    BY DEF Resume
  <1> QED BY <1>1, <1>3, <1>4, NoJobReady

\* A job that goes on to another stage.
LEMMA StageReady ==
    ASSUME NEW j \in Jobs, JobReady(j), j.on \in Cases,
           NEW at \in {"running", "verify", "mark"},
           j.who = "approver" => j.form \in Forms,
           at = "mark" => j.form \in Forms,
           NEW k, k = [j EXCEPT !.at = at]
    PROVE  k \in Jobs /\ JobReady(k) /\ k.at = at /\ k.form = j.form
  BY DEF Jobs, JobReady

-----------------------------------------------------------------------------
(* The parts of the invariant *)

DataOK ==
    /\ done \in [Cases -> 0 .. Len(Script)]
    /\ ripe \subseteq Cases /\ pledged \subseteq Cases
    /\ faults \in 0 .. MaxFaults

FormsOK ==
    /\ form \in [Forms -> {"NONE", "PENDING", "APPROVED", "REJECTED"}]
    /\ about \in [Forms -> Cases \cup {NoCase}] /\ ran \in [Forms -> Nat]
    /\ \A f \in Forms : form[f] = "PENDING" => about[f] \in Cases
    /\ ApprovedWasExecuted

JobOK(r) ==
    /\ JobReady(job[r])
    /\ job[r].at \notin {"idle", "running"} => req[r].at = "idle"
    /\ req[r].at = "advance" => req[r].what \in Actions
    /\ job[r].at = "mark" => ran[job[r].form] > 0

JobsOK == job \in [Requests -> Jobs] /\ \A r \in Requests : JobOK(r)

LEMMA AutoParts == AutoInv <=> TypeOK /\ DataOK /\ FormsOK /\ JobsOK
  BY DEF AutoInv, AutoTypeOK, DataOK, FormsOK, JobsOK, JobOK

\* Replacing one job, while no request but its own moves.
LEMMA JobStep ==
    ASSUME JobsOK, NEW r \in Requests, NEW j \in Jobs, JobReady(j),
           job' = [job EXCEPT ![r] = j],
           \A q \in Requests \ {r} : req'[q] = req[q],
           j.at \notin {"idle", "running"} => req'[r].at = "idle",
           req'[r].at = "advance" => req'[r].what \in Actions,
           ran \in [Forms -> Nat], ran' \in [Forms -> Nat],
           \A f \in Forms : ran'[f] >= ran[f],
           j.at = "mark" => ran'[j.form] > 0
    PROVE  JobsOK'
  <1>1. job' \in [Requests -> Jobs]
    BY DEF JobsOK
  <1>2. JobOK(r)'
    BY DEF JobsOK, JobOK
  <1>3. ASSUME NEW q \in Requests \ {r}
        PROVE  JobOK(q)'
    <2>1. job'[q] = job[q] /\ req'[q] = req[q] /\ JobOK(q)
      BY DEF JobsOK
    <2>2. ASSUME job[q].at = "mark"
          PROVE  ran'[job[q].form] > 0
      <3>1. job[q].form \in Forms /\ ran[job[q].form] > 0
        BY <2>1, <2>2 DEF JobOK, JobReady
      <3>2. /\ ran[job[q].form] \in Nat /\ ran'[job[q].form] \in Nat
            /\ ran'[job[q].form] >= ran[job[q].form]
        BY <3>1
      <3> QED BY <3>1, <3>2
    <2> QED BY <2>1, <2>2 DEF JobOK
  <1> QED BY <1>1, <1>2, <1>3 DEF JobsOK

\* No job and no request moves.
LEMMA JobsStand ==
    ASSUME JobsOK, UNCHANGED << job, req, ran >>
    PROVE  JobsOK'
  BY DEF JobsOK, JobOK

\* The job of one handler moves, and no request does.
LEMMA JobMoves ==
    ASSUME JobsOK, FormsOK, NEW r \in Requests, NEW j \in Jobs, JobReady(j),
           job' = [job EXCEPT ![r] = j], UNCHANGED << req, ran >>,
           j.at \notin {"idle", "running"} => req[r].at = "idle",
           j.at # "mark"
    PROVE  JobsOK'
  <1>1. /\ req[r].at = "advance" => req[r].what \in Actions
        /\ ran \in [Forms -> Nat] /\ \A f \in Forms : ran[f] >= ran[f]
    BY DEF JobsOK, JobOK, FormsOK
  <1> QED BY <1>1, JobStep

LEMMA DataStands ==
    ASSUME DataOK, UNCHANGED << done, ripe, pledged, faults >>
    PROVE  DataOK'
  BY DEF DataOK

LEMMA FormsStand ==
    ASSUME FormsOK, UNCHANGED queue
    PROVE  FormsOK'
  BY DEF FormsOK, ApprovedWasExecuted, queue

-----------------------------------------------------------------------------
(* Steps of requests *)

\* A request comes to store what the provider recommended only with an action.
LEMMA AdvanceKnown ==
    ASSUME TypeOK, NEW r \in Requests, Begin(r) \/ Proceed(r),
           req'[r].at = "advance"
    PROVE  req'[r].what \in Actions
  <1>1. req \in [Requests -> Records]
        /\ (req[r].at = "saveDecision" => req[r].what \in Actions)
    BY DEF TypeOK
  <1>2. Idle.at = "idle"
    BY IdleOK
  <1>3. CASE Begin(r)
    <2>1. ASSUME NEW c, NEW action, BeginExecute(r, c, action)
          PROVE  FALSE
      BY <1>1, <2>1 DEF BeginExecute, Start, Idle
    <2>2. ASSUME NEW c, BeginDiagnose(r, c)
          PROVE  FALSE
      <3>1. PICK action \in Recommendable :
              req' = [req EXCEPT ![r] =
                        [Idle EXCEPT !.at = "saveDecision", !.on = c,
                                     !.what = action,
                                     !.may = status[c] \in {"OPEN", "DIAGNOSED"}]]
        BY <2>2 DEF BeginDiagnose
      <3> DEFINE may == status[c] \in {"OPEN", "DIAGNOSED"}
                 rec == [Idle EXCEPT !.at = "saveDecision", !.on = c,
                                     !.what = action, !.may = may]
      <3> HIDE DEF may
      <3>2. rec.at = "saveDecision"
        BY DEF Idle
      <3> QED BY <1>1, <3>1, <3>2 DEF may
    <2>3. ASSUME NEW c, NEW outcome, NEW origin,
                 BeginVerify(r, c, outcome, origin)
          PROVE  FALSE
      <3> DEFINE may == promise[c] \in OpenPromises
                 rec == [Idle EXCEPT !.at = "findPending", !.on = c,
                                     !.what = outcome, !.origin = origin,
                                     !.may = may]
      <3>1. req' = [req EXCEPT ![r] = rec]
        BY <2>3 DEF BeginVerify
      <3> HIDE DEF may
      <3>2. rec.at = "findPending"
        BY DEF Idle
      <3> QED BY <1>1, <3>1, <3>2
    <2>4. ASSUME NEW c, NEW intent, BeginVoice(r, c, intent)
          PROVE  FALSE
      BY <1>1, <2>4 DEF BeginVoice, Start, Idle
    <2> QED BY <1>3, <2>1, <2>2, <2>3, <2>4 DEF Begin
  <1>4. CASE SaveDecision(r)
    BY <1>1, <1>4 DEF SaveDecision, At, Goto, Records
  <1>5. CASE Evaluate(r)
    BY <1>1, <1>2, <1>5, EvaluateStep DEF Done
  <1>6. CASE \/ LoadCase(r) \/ CreateLink(r) \/ CreateAttempt(r)
             \/ ScheduleRetry(r) \/ FinishUpdate(r) \/ FinishRecord(r)
             \/ Advance(r) \/ UpsertPromise(r)
    BY <1>1, <1>2, <1>6
       DEF LoadCase, CreateLink, CreateAttempt, ScheduleRetry, FinishUpdate,
           FinishRecord, Advance, UpsertPromise, Goto, Done, FirstCall, Records
  <1>7. CASE Settle(r) \/ AttemptFailed(r) \/ Refuse(r) \/ MarkWaiting(r)
    BY <1>1, <1>2, <1>7 DEF Settle, AttemptFailed, Refuse, MarkWaiting, Done
  <1>8. CASE CountPayments(r)
    BY <1>1, <1>8 DEF CountPayments, Records
  <1>9. CASE FindPending(r)
    BY <1>1, <1>9 DEF FindPending, Records
  <1>10. CASE FinishLoad(r)
    BY <1>1, <1>10 DEF FinishLoad, Records
  <1>11. CASE RecordPromise(r)
    BY <1>1, <1>2, <1>11 DEF RecordPromise, Done, Records
  <1> QED BY <1>3, <1>4, <1>5, <1>6, <1>7, <1>8, <1>9, <1>10, <1>11 DEF Proceed

\* Only a busy handler goes on.
LEMMA ProceedBusy ==
    ASSUME NEW r, Proceed(r)
    PROVE  req[r].at # "idle"
  BY DEF Proceed, Evaluate, LoadCase, CreateLink, CreateAttempt, CountPayments,
         ScheduleRetry, FinishLoad, FinishUpdate, FinishRecord, SaveDecision,
         Advance, FindPending, Settle, AttemptFailed, Refuse, RecordPromise,
         UpsertPromise, MarkWaiting, At

-----------------------------------------------------------------------------
(* Steps of jobs *)

Kept == DataOK' /\ FormsOK' /\ JobsOK'

\* A job moves and nothing else does.
LEMMA OnlyJob ==
    ASSUME AutoInv, NEW r \in Requests, NEW j \in Jobs, JobReady(j),
           job' = [job EXCEPT ![r] = j],
           UNCHANGED << vars, done, ripe, pledged, queue, faults >>,
           j.at = "idle" \/ req[r].at = "idle", j.at # "mark"
    PROVE  Kept
  <1>1. DataOK /\ FormsOK /\ JobsOK
    BY AutoParts
  <1>2. UNCHANGED << req, ran >>
    BY DEF vars, queue
  <1>3. JobsOK'
    BY <1>1, <1>2, JobMoves
  <1> QED BY <1>1, <1>3, DataStands, FormsStand DEF Kept

\* The request a job calls for begins.
LEMMA JobCalls ==
    ASSUME AutoInv, NEW r \in Requests,
           job[r].at \in {"execute", "diagnose", "verify"},
           Begin(r), Stage(r, "running"),
           UNCHANGED << done, ripe, pledged, queue, faults >>
    PROVE  Kept
  <1>1. DataOK /\ FormsOK /\ JobsOK /\ TypeOK
    BY AutoParts
  <1>2. job \in [Requests -> Jobs] /\ job[r] \in Jobs /\ JobOK(r)
    BY <1>1 DEF JobsOK
  <1>3. /\ JobReady(job[r]) /\ job[r].on \in Cases
        /\ job[r].who = "approver" => job[r].form \in Forms
    BY <1>2 DEF JobOK, JobReady
  <1> DEFINE j == [job[r] EXCEPT !.at = "running"]
  <1>4. j \in Jobs /\ JobReady(j) /\ j.at = "running"
    BY <1>2, <1>3, StageReady
  <1>5. job' = [job EXCEPT ![r] = j]
    BY <1>2 DEF Stage
  <1>6. /\ ran \in [Forms -> Nat] /\ ran' = ran
        /\ \A f \in Forms : ran[f] >= ran[f]
    BY <1>1 DEF FormsOK, queue
  <1>7. /\ \A q \in Requests \ {r} : req'[q] = req[q]
        /\ req'[r].at = "advance" => req'[r].what \in Actions
    BY <1>1, OthersWait, AdvanceKnown
  <1> HIDE DEF j
  <1>8. JobsOK'
    BY <1>1, <1>4, <1>5, <1>6, <1>7, JobStep
  <1> QED BY <1>1, <1>8, DataStands, FormsStand DEF Kept

LEMMA JobEnds ==
    ASSUME AutoInv, NEW r \in Requests, Finished(r),
           UNCHANGED << vars, done, ripe, pledged, queue, faults >>
    PROVE  Kept
  BY NoJobReady, OnlyJob DEF Finished

\* A call is one of the requests of CaseLifecycle.
LEMMA CallStep ==
    ASSUME AutoInv, NEW r \in Requests,
           CallExecute(r) \/ CallDiagnose(r) \/ CallVerify(r)
    PROVE  Kept /\ [Next]_vars
  <1>1. /\ TypeOK /\ JobOK(r) /\ req[r].at = "idle"
        /\ job[r].at \in {"execute", "diagnose", "verify"}
    BY AutoParts, IdleOK
       DEF JobsOK, CallExecute, CallDiagnose, CallVerify, Awaits
  <1> DEFINE c == job[r].on
  <1>2. c \in Cases /\ (job[r].at = "execute" => job[r].action \in Actions)
    BY <1>1 DEF JobOK, JobReady
  <1>3. UNCHANGED << done, ripe, pledged, queue, faults >>
    BY DEF CallExecute, CallDiagnose, CallVerify
  <1>4. ASSUME Begin(r), Stage(r, "running")
        PROVE  Kept /\ [Next]_vars
    BY <1>1, <1>3, <1>4, JobCalls DEF Next
  <1>5. ASSUME Finished(r), UNCHANGED vars
        PROVE  Kept /\ [Next]_vars
    BY <1>3, <1>5, JobEnds
  <1>6. CASE CallExecute(r)
    <2>1. job[r].at = "execute"
      BY <1>6 DEF CallExecute, Awaits
    <2>2. CASE status[c] \in ActiveStatuses
      <3>1. BeginExecute(r, c, job[r].action) /\ Stage(r, "running")
        BY <1>6, <2>2 DEF CallExecute
      <3>2. Begin(r)
        BY <1>2, <2>1, <3>1 DEF Begin
      <3> QED BY <1>4, <3>1, <3>2
    <2>3. CASE status[c] \notin ActiveStatuses
      BY <1>5, <1>6, <2>3 DEF CallExecute
    <2> QED BY <2>2, <2>3
  <1>7. CASE CallVerify(r)
    <2>1. CASE status[c] \in VerifiableStatuses
      <3>1. PICK outcome \in Outcomes : BeginVerify(r, c, outcome, "batch")
        BY <1>7, <2>1 DEF CallVerify
      <3>2. Begin(r)
        BY <1>2, <3>1, AutomationAssumption DEF Begin
      <3>3. Stage(r, "running")
        BY <1>7, <2>1 DEF CallVerify
      <3> QED BY <1>4, <3>2, <3>3
    <2>2. CASE status[c] \notin VerifiableStatuses
      BY <1>5, <1>7, <2>2 DEF CallVerify
    <2> QED BY <2>1, <2>2
  <1>8. CASE CallDiagnose(r)
    <2>1. CASE decision[c] = "NONE"
      <3>1. BeginDiagnose(r, c) /\ Stage(r, "running")
        BY <1>8, <2>1 DEF CallDiagnose
      <3>2. Begin(r)
        BY <1>2, <3>1 DEF Begin
      <3> QED BY <1>4, <3>1, <3>2
    <2>2. CASE decision[c] # "NONE"
      <3> DEFINE j == Resume(Batch(c, BeforeAct(decision[c], status[c]),
                                   decision[c], status[c]))
      <3>1. job' = [job EXCEPT ![r] = j] /\ UNCHANGED vars
        BY <1>8, <2>2 DEF CallDiagnose
      <3>2. decision[c] \in Actions \cup {"NONE"} /\ status[c] \in CaseStatuses
        BY <1>1, <1>2 DEF TypeOK
      <3>3. j \in Jobs /\ JobReady(j) /\ j.at # "mark"
        BY <1>2, <3>2, BatchReady
      <3> HIDE DEF j
      <3>4. Kept
        BY <1>1, <1>3, <3>1, <3>3, OnlyJob
      <3> QED BY <3>1, <3>4
    <2> QED BY <2>1, <2>2
  <1> QED BY <1>6, <1>7, <1>8

\* Sweeps, batches and approval requests take an idle handler.
LEMMA QueueStep ==
    ASSUME AutoInv, NEW r \in Requests, NEW c \in Cases, Queue(r, c)
    PROVE  Kept /\ [Next]_vars
  <1>1. TypeOK /\ DataOK /\ JobsOK
    BY AutoParts
  <1>2. UNCHANGED << vars, done, ripe, pledged, queue, faults >>
    BY DEF Queue, RunCase, Snapshot, Request
  <1>3. Idle.at = "idle" /\ req[r] = Idle
    BY IdleOK DEF Queue, RunCase, Snapshot, Request, Take, Free
  <1>4. ASSUME NEW j \in Jobs, JobReady(j), j.at # "mark",
               job' = [job EXCEPT ![r] = j]
        PROVE  Kept
    BY <1>2, <1>3, <1>4, OnlyJob
  <1>5. "OPEN" \in CaseStatuses
    BY DEF CaseStatuses, ActiveStatuses
  <1>6. CASE RunCase(r, c)
    <2>1. Script[done[c] + 1] \in Actions
      <3>1. done[c] \in 0 .. Len(Script) /\ done[c] < Len(Script)
        BY <1>1, <1>6 DEF DataOK, RunCase
      <3>2. Script \in Seq(Offered) /\ Offered \subseteq Actions
        BY AutomationAssumption, LifecycleAssumption
      <3>3. done[c] + 1 \in 1 .. Len(Script)
        BY <3>1, <3>2, LenProperties
      <3> QED BY <3>2, <3>3, ElementOfSeq
    <2> DEFINE j == Job("sequence", "execute", c, NoForm, Script[done[c] + 1],
                        "OPEN")
    <2>2. j \in Jobs /\ JobReady(j) /\ j.at = "execute"
      BY <1>5, <2>1, NewJob
    <2>3. job' = [job EXCEPT ![r] = j]
      BY <1>6 DEF RunCase, Take
    <2> HIDE DEF j
    <2> QED BY <1>2, <1>4, <2>2, <2>3
  <1>7. CASE Request(r, c)
    <2>1. PICK action \in Proposed : Take(r, "approver", "create", c, action)
      BY <1>7 DEF Request
    <2> DEFINE j == Job("approver", "create", c, NoForm, action, "OPEN")
    <2>2. action \in Actions
      BY AutomationAssumption, LifecycleAssumption
    <2>3. j \in Jobs /\ JobReady(j) /\ j.at = "create"
      BY <1>5, <2>2, NewJob
    <2>4. job' = [job EXCEPT ![r] = j]
      BY <2>1 DEF Take
    <2> HIDE DEF j
    <2> QED BY <1>2, <1>4, <2>3, <2>4
  <1>8. CASE Snapshot(r, c)
    <2> DEFINE j == Resume(Batch(c, BeforeAct(decision[c], status[c]),
                                 decision[c], status[c]))
    <2>1. decision[c] \in Actions \cup {"NONE"} /\ status[c] \in CaseStatuses
      BY <1>1 DEF TypeOK
    <2>2. j \in Jobs /\ JobReady(j) /\ j.at # "mark"
      BY <2>1, BatchReady
    <2>3. job' = [job EXCEPT ![r] = j]
      BY <1>8 DEF Snapshot
    <2> HIDE DEF j
    <2> QED BY <1>2, <1>4, <2>2, <2>3
  <1> QED BY <1>6, <1>7, <1>8 DEF Queue

\* A reviewer takes up a pending request.
LEMMA ReviewStep ==
    ASSUME AutoInv, NEW r \in Requests, NEW f \in Forms,
           NEW verdict \in {"execute", "reject"}, Review(r, f, verdict)
    PROVE  Kept /\ [Next]_vars
  <1>1. PICK action \in Proposed :
          /\ Free(r)
          /\ job' = [job EXCEPT ![r] =
                       Job("approver", verdict, about[f], f, action, "OPEN")]
    BY DEF Review
  <1> DEFINE j == Job("approver", verdict, about[f], f, action, "OPEN")
  <1>2. UNCHANGED << vars, done, ripe, pledged, queue, faults >>
    BY DEF Review
  <1>3. about[f] \in Cases
    BY AutoParts DEF Review, FormsOK
  <1>4. action \in Actions /\ "OPEN" \in CaseStatuses
    BY AutomationAssumption, LifecycleAssumption
       DEF CaseStatuses, ActiveStatuses
  <1>5. j \in Jobs /\ JobReady(j) /\ j.at # "mark"
    BY <1>3, <1>4, NewJob
  <1>6. job' = [job EXCEPT ![r] = j] /\ req[r].at = "idle"
    BY <1>1, IdleOK DEF Free
  <1> HIDE DEF j
  <1>7. Kept
    BY <1>2, <1>5, <1>6, OnlyJob
  <1> QED BY <1>2, <1>7

\* A batch reads the case again.
LEMMA ReadFreshStep ==
    ASSUME AutoInv, NEW r \in Requests, ReadFresh(r)
    PROVE  Kept /\ [Next]_vars
  <1>1. UNCHANGED << vars, done, ripe, pledged, queue, faults >>
    BY DEF ReadFresh
  <1>2. CASE Finished(r)
    BY <1>1, <1>2, JobEnds
  <1>3. CASE Stage(r, "verify")
    <2>1. job \in [Requests -> Jobs] /\ job[r] \in Jobs /\ JobOK(r)
      BY AutoParts DEF JobsOK
    <2>2. job[r].at = "fresh" /\ req[r].at = "idle"
      BY IdleOK DEF ReadFresh, Awaits
    <2>3. /\ JobReady(job[r]) /\ job[r].on \in Cases
          /\ job[r].who = "approver" => job[r].form \in Forms
      BY <2>1, <2>2 DEF JobOK, JobReady
    <2> DEFINE j == [job[r] EXCEPT !.at = "verify"]
    <2>4. j \in Jobs /\ JobReady(j) /\ j.at = "verify"
      BY <2>1, <2>3, StageReady
    <2>5. job' = [job EXCEPT ![r] = j]
      BY <1>3, <2>1 DEF Stage
    <2> HIDE DEF j
    <2> QED BY <1>1, <2>2, <2>4, <2>5, OnlyJob
  <1> QED BY <1>2, <1>3 DEF ReadFresh

\* The writes of the approval queue.
LEMMA FormStep ==
    ASSUME AutoInv, NEW r \in Requests,
           MarkReviewed(r) \/ \E f \in Forms : CreateForm(r, f)
    PROVE  Kept /\ [Next]_vars
  <1>1. DataOK /\ FormsOK /\ JobsOK /\ JobOK(r)
    BY AutoParts DEF JobsOK
  <1>2. UNCHANGED << vars, done, ripe, pledged, ran, faults >> /\ Finished(r)
    BY DEF MarkReviewed, CreateForm
  <1>3. UNCHANGED << req, ran >>
    BY <1>2 DEF vars
  <1>4. JobsOK'
    BY <1>1, <1>2, <1>3, NoJobReady, JobMoves DEF Finished
  <1>5. DataOK'
    BY <1>1, <1>2, DataStands
  <1>6. ASSUME NEW f \in Forms, CreateForm(r, f)
        PROVE  FormsOK'
    <2>1. job[r].at = "create"
      BY <1>6 DEF CreateForm, Awaits
    <2>2. job[r].on \in Cases
      BY <1>1, <2>1 DEF JobOK, JobReady
    <2>3. /\ form' = [form EXCEPT ![f] = "PENDING"]
          /\ about' = [about EXCEPT ![f] = job[r].on] /\ ran' = ran
      BY <1>6 DEF CreateForm
    <2> QED BY <1>1, <2>2, <2>3 DEF FormsOK, ApprovedWasExecuted
  <1>7. ASSUME MarkReviewed(r)
        PROVE  FormsOK'
    <2>1. about' = about /\ ran' = ran
      BY <1>7 DEF MarkReviewed
    <2>2. \A g, v : form' = [form EXCEPT ![g] = v] /\ v \in {"APPROVED", "REJECTED"}
                      /\ (v = "APPROVED" => g \in Forms /\ ran[g] > 0) => FormsOK'
      BY <1>1, <2>1 DEF FormsOK, ApprovedWasExecuted
    <2>3. CASE Awaits(r, "mark") /\ form' = [form EXCEPT ![job[r].form] = "APPROVED"]
      <3>1. job[r].form \in Forms /\ ran[job[r].form] > 0
        BY <1>1, <2>3 DEF Awaits, JobOK, JobReady
      <3> QED BY <2>2, <2>3, <3>1
    <2>4. CASE form' = [form EXCEPT ![job[r].form] = "REJECTED"]
      BY <2>2, <2>4
    <2> QED BY <1>7, <2>3, <2>4 DEF MarkReviewed
  <1>8. FormsOK'
    BY <1>6, <1>7
  <1> QED BY <1>2, <1>4, <1>5, <1>8 DEF Kept

\* A step of the request in progress, and what its caller does when it returns.
LEMMA StepStep ==
    ASSUME AutoInv, NEW r \in Requests, Step(r)
    PROVE  Kept /\ [Next]_vars
  <1>1. TypeOK /\ DataOK /\ FormsOK /\ JobsOK /\ JobOK(r) /\ Proceed(r)
    BY AutoParts DEF JobsOK, Step
  <1>2. /\ [Next]_vars /\ TypeOK'
        /\ \A q \in Requests \ {r} : req'[q] = req[q]
        /\ req'[r].at = "advance" => req'[r].what \in Actions
    BY <1>1, TypeStep, OthersWait, AdvanceKnown DEF Next, Continue
  <1>3. req[r].at # "idle" /\ job[r].at \in {"idle", "running"}
    <2>1. req[r].at # "idle"
      BY <1>1, ProceedBusy
    <2> QED BY <1>1, <2>1 DEF JobOK
  <1>4. /\ req[r].on \in Cases /\ job \in [Requests -> Jobs]
        /\ job[r] \in Jobs /\ JobReady(job[r])
    BY <1>1, <1>3 DEF TypeOK, JobsOK, JobOK
  <1>5. DataOK'
    <2>1. done' \in [Cases -> 0 .. Len(Script)]
      <3>1. CASE Completes(r)
        <4>1. /\ done[req[r].on] \in 0 .. Len(Script)
              /\ done[req[r].on] < Len(Script)
          BY <1>1, <1>4, <3>1 DEF Completes, DataOK
        <4>2. Len(Script) \in Nat
          BY AutomationAssumption, LenProperties
        <4>3. done[req[r].on] + 1 \in 0 .. Len(Script)
          BY <4>1, <4>2
        <4>4. done' = [done EXCEPT ![req[r].on] = @ + 1]
          BY <3>1 DEF Step
        <4> QED BY <1>1, <1>4, <4>3, <4>4 DEF DataOK
      <3>2. CASE ~Completes(r)
        BY <1>1, <3>2 DEF Step, DataOK
      <3> QED BY <3>1, <3>2
    <2>2. /\ ripe' \in {ripe, ripe \ {req[r].on}}
          /\ pledged' \in {pledged, pledged \cup {req[r].on}}
          /\ faults' = faults
      BY DEF Step
    <2> QED BY <1>1, <1>4, <2>1, <2>2 DEF DataOK
  <1>6. /\ ran \in [Forms -> Nat] /\ ran' \in [Forms -> Nat]
        /\ \A f \in Forms : ran'[f] >= ran[f]
    <2>1. ran \in [Forms -> Nat]
      BY <1>1 DEF FormsOK
    <2>2. CASE ran' = ran
      BY <2>1, <2>2
    <2>3. CASE ran' = [ran EXCEPT ![job[r].form] = @ + 1]
      <3>1. ASSUME NEW f \in Forms
            PROVE  ran'[f] \in Nat /\ ran'[f] >= ran[f]
        <4> DEFINE g == job[r].form
        <4>1. ran' = [ran EXCEPT ![g] = ran[g] + 1]
          BY <2>3
        <4>2. ran[f] \in Nat
          BY <2>1
        <4> HIDE DEF g
        <4>3. CASE f = g
          <5>1. ran'[f] = ran[f] + 1
            BY <2>1, <4>1, <4>3
          <5> QED BY <4>2, <5>1
        <4>4. CASE f # g
          <5>1. ran'[f] = ran[f]
            BY <2>1, <4>1, <4>4
          <5> QED BY <4>2, <5>1
        <4> QED BY <4>3, <4>4
      <3>2. ran' = [f \in Forms |-> ran'[f]]
        <4> DEFINE g == job[r].form
        <4>1. ran' = [ran EXCEPT ![g] = ran[g] + 1]
          BY <2>3
        <4> HIDE DEF g
        <4> QED BY <2>1, <4>1
      <3> QED BY <2>1, <3>1, <3>2
    <2> QED BY <2>1, <2>2, <2>3 DEF Step
  <1>7. FormsOK'
    <2>1. UNCHANGED << form, about >>
      BY DEF Step
    <2>2. ASSUME NEW f \in Forms, form[f] = "APPROVED"
          PROVE  ran'[f] > 0
      <3>1. ran[f] > 0 /\ ran[f] \in Nat /\ ran'[f] \in Nat /\ ran'[f] >= ran[f]
        BY <1>1, <1>6, <2>2 DEF FormsOK, ApprovedWasExecuted
      <3> QED BY <3>1
    <2> QED BY <1>1, <1>6, <2>1, <2>2 DEF FormsOK, ApprovedWasExecuted
  <1>8. CASE req'[r] # Idle
    <2>1. job' = job
      BY <1>8 DEF Step
    <2>2. job' = [job EXCEPT ![r] = job[r]] /\ job[r].at # "mark"
      BY <1>3, <1>4, <2>1
    <2>3. JobsOK'
      BY <1>1, <1>2, <1>3, <1>4, <1>6, <2>2, JobStep
    <2> QED BY <1>2, <1>5, <1>7, <2>3 DEF Kept
  <1>9. CASE req'[r] = Idle
    <2> DEFINE j == Return(r)
    <2>1. job' = [job EXCEPT ![r] = j] /\ req'[r].at = "idle"
      BY <1>9, IdleOK DEF Step
    <2>2. /\ j \in Jobs /\ JobReady(j) /\ j.at # "running"
          /\ j.at = "mark" => ran'[j.form] > 0
      <3>1. CASE job[r].who = "approver" /\ Executed(r)
        <4>1. job[r].form \in Forms /\ job[r].on \in Cases
          BY <1>3, <1>4, <3>1 DEF JobReady
        <4>2. j = [job[r] EXCEPT !.at = "mark"]
          BY <3>1 DEF Return
        <4>3. /\ j \in Jobs /\ JobReady(j) /\ j.at = "mark"
              /\ j.form = job[r].form
          BY <1>4, <4>1, <4>2, StageReady
        <4>4. ran' = [ran EXCEPT ![job[r].form] = @ + 1]
          BY <3>1 DEF Step
        <4>5. ran'[job[r].form] = ran[job[r].form] + 1 /\ ran[job[r].form] \in Nat
          BY <1>6, <4>1, <4>4
        <4> HIDE DEF j
        <4> QED BY <4>3, <4>5
      <3>2. CASE job[r].who = "batch" /\ (req[r].at = "advance" \/ Executed(r))
        <4>1. job[r].on \in Cases
          BY <1>4, <3>2 DEF JobReady
        <4>2. Reported(r) \in CaseStatuses
          BY <1>1, <1>4
             DEF Reported, StatusAfter, TypeOK, CaseStatuses, ActiveStatuses,
                 TerminalStatuses
        <4>3. /\ req[r].at = "advance" => req[r].what \in Actions
              /\ job[r].action \in Actions \cup {"NONE"}
          BY <1>1, <1>4 DEF JobOK, Jobs
        <4>4. CASE req[r].at = "advance"
          <5>1. j = Resume(Batch(job[r].on, BeforeAct(req[r].what, Reported(r)),
                                 req[r].what, Reported(r)))
            BY <3>2, <4>4 DEF Return
          <5> HIDE DEF j
          <5> QED BY <4>1, <4>2, <4>3, <4>4, <5>1, BatchReady
        <4>5. CASE req[r].at # "advance"
          <5>1. j = Resume(Batch(job[r].on, AfterAct(Reported(r)), job[r].action,
                                 Reported(r)))
            BY <3>2, <4>5 DEF Return
          <5> HIDE DEF j
          <5> QED BY <4>1, <4>2, <4>3, <5>1, BatchReady
        <4> QED BY <4>4, <4>5
      <3>3. CASE j = NoJob
        <4> HIDE DEF j
        <4> QED BY <3>3, NoJobReady
      <3> QED BY <3>1, <3>2, <3>3 DEF Return
    <2> HIDE DEF j
    <2>3. JobsOK'
      BY <1>1, <1>2, <1>6, <2>1, <2>2, JobStep
    <2> QED BY <1>2, <1>5, <1>7, <2>3 DEF Kept
  <1> QED BY <1>8, <1>9

\* Direct requests, handlers that die, clocks and customers.
LEMMA OtherStep ==
    ASSUME AutoInv,
           \/ \E r \in Requests : Direct(r) \/ Die(r)
           \/ \E c \in Cases : Ripen(c) \/ PromiseFalls(c)
           \/ World /\ UNCHANGED auto
    PROVE  Kept /\ [Next]_vars
  <1>1. TypeOK /\ DataOK /\ FormsOK /\ JobsOK
    BY AutoParts
  <1>2. /\ ran \in [Forms -> Nat] /\ \A f \in Forms : ran[f] >= ran[f]
        /\ job \in [Requests -> Jobs] /\ req \in [Requests -> Records]
    BY <1>1 DEF FormsOK, JobsOK, TypeOK
  <1>3. ASSUME NEW r \in Requests, Direct(r)
        PROVE  Kept /\ [Next]_vars
    <2>1. Begin(r) /\ UNCHANGED auto /\ job[r] = NoJob
      BY <1>3 DEF Direct, Free
    <2>2. /\ \A q \in Requests \ {r} : req'[q] = req[q]
          /\ req'[r].at = "advance" => req'[r].what \in Actions
      BY <1>1, <2>1, OthersWait, AdvanceKnown
    <2>3. job' = [job EXCEPT ![r] = NoJob] /\ ran' = ran
      BY <1>2, <2>1 DEF auto, queue
    <2>4. JobsOK'
      BY <1>1, <1>2, <2>2, <2>3, NoJobReady, JobStep
    <2> QED
      BY <1>1, <2>1, <2>4, DataStands, FormsStand DEF Kept, Next, auto
  <1>4. ASSUME NEW r \in Requests, Die(r)
        PROVE  Kept /\ [Next]_vars
    <2>1. /\ Finished(r) /\ ran' = ran
          /\ UNCHANGED << done, ripe, pledged, queue >>
      BY <1>4 DEF Die, queue
    <2>2. DataOK'
      BY <1>1, <1>4, AutomationAssumption DEF DataOK, Die
    <2>3. /\ [Next]_vars /\ \A q \in Requests \ {r} : req'[q] = req[q]
          /\ req'[r].at = "advance" => req'[r].what \in Actions
      <3>1. CASE Abort(r)
        <4>1. req'[r] = Idle
          BY <1>2, <3>1 DEF Abort, Done
        <4> QED BY <1>1, <3>1, <4>1, IdleOK, OthersWait DEF Next, Continue
      <3>2. CASE UNCHANGED vars
        BY <1>1, <3>2 DEF vars, JobsOK, JobOK
      <3> QED BY <1>4, <3>1, <3>2 DEF Die
    <2>4. JobsOK'
      BY <1>1, <1>2, <2>1, <2>3, NoJobReady, JobStep DEF Finished
    <2> QED BY <1>1, <2>1, <2>2, <2>3, <2>4, FormsStand DEF Kept
  <1>5. ASSUME NEW c \in Cases, Ripen(c) \/ PromiseFalls(c)
        PROVE  Kept /\ [Next]_vars
    <2>1. UNCHANGED << vars, queue, job, done, faults >>
      BY <1>5 DEF Ripen, PromiseFalls
    <2>2. DataOK'
      BY <1>1, <1>5, <2>1 DEF DataOK, Ripen, PromiseFalls
    <2>3. UNCHANGED << job, req, ran >>
      BY <2>1 DEF vars, queue
    <2> QED BY <1>1, <2>1, <2>2, <2>3, FormsStand, JobsStand DEF Kept
  <1>6. ASSUME World, UNCHANGED auto
        PROVE  Kept /\ [Next]_vars
    <2>1. req' = req
      BY <1>6 DEF World, WindowTurns, CooldownPasses, SetPreference
    <2>2. UNCHANGED << job, req, ran >> /\ UNCHANGED queue
          /\ UNCHANGED << done, ripe, pledged, faults >>
      BY <1>6, <2>1 DEF auto, queue
    <2> QED
      BY <1>1, <1>6, <2>2, DataStands, FormsStand, JobsStand DEF Kept, Next
  <1> QED BY <1>3, <1>4, <1>5, <1>6

-----------------------------------------------------------------------------
(* What follows *)

LEMMA AutoStart == AutoInit => AutoInv
  <1> SUFFICES ASSUME AutoInit PROVE AutoInv
    OBVIOUS
  <1>1. TypeOK
    BY InitTyped DEF AutoInit
  <1>2. DataOK
    BY AutomationAssumption, LenProperties DEF AutoInit, DataOK
  <1>3. FormsOK
    BY DEF AutoInit, FormsOK, ApprovedWasExecuted
  <1>4. JobsOK
    BY NoJobReady, IdleOK DEF AutoInit, Init, JobsOK, JobOK
  <1> QED BY <1>1, <1>2, <1>3, <1>4, AutoParts

LEMMA AutoStep ==
    AutoInv /\ [AutoNext]_<< vars, auto >> => AutoInv' /\ [Next]_vars
  <1> SUFFICES ASSUME AutoInv, [AutoNext]_<< vars, auto >>
               PROVE  AutoInv' /\ [Next]_vars
    OBVIOUS
  <1>1. CASE UNCHANGED << vars, auto >>
    <2>1. TypeOK /\ DataOK /\ FormsOK /\ JobsOK
      BY AutoParts
    <2>2. TypeOK'
      BY <1>1, <2>1, TypeStep
    <2>3. /\ UNCHANGED << job, req, ran >> /\ UNCHANGED queue
          /\ UNCHANGED << done, ripe, pledged, faults >>
      BY <1>1 DEF vars, auto, queue
    <2>4. DataOK' /\ FormsOK' /\ JobsOK'
      BY <2>1, <2>3, DataStands, FormsStand, JobsStand
    <2>5. AutoInv' <=> TypeOK' /\ DataOK' /\ FormsOK' /\ JobsOK'
      BY AutoParts, PTL
    <2> QED BY <1>1, <2>2, <2>4, <2>5
  <1>2. CASE AutoNext
    <2>1. Kept /\ [Next]_vars
      BY <1>2, CallStep, QueueStep, ReviewStep, ReadFreshStep, FormStep, StepStep,
         OtherStep
         DEF AutoNext, Work
    <2>2. TypeOK'
      BY <2>1, AutoParts, TypeStep
    <2>3. AutoInv' <=> TypeOK' /\ DataOK' /\ FormsOK' /\ JobsOK'
      BY AutoParts, PTL
    <2> QED BY <2>1, <2>2, <2>3 DEF Kept
  <1> QED BY <1>1, <1>2

\* The type invariant of the automation, for any sequence, requests and batches.
THEOREM AutoTypeCorrect == AutoSpec => []AutoTypeOK
  <1>1. AutoInv => AutoTypeOK
    BY DEF AutoInv
  <1> QED BY <1>1, AutoStart, AutoStep, PTL DEF AutoSpec

\* Whatever sequences, batches and reviewers do to the cases, requests could have
\* done: the properties proved of CaseLifecycle hold of them as well.
THEOREM AutomationAsRequests == AutoSpec => Spec
  <1>1. AutoInit => Init
    BY DEF AutoInit
  <1> QED BY <1>1, AutoStart, AutoStep, PTL DEF AutoSpec, Spec

\* Automation passes the limits by no more than requests do, pursues no dispute,
\* charges no hard failure, gives each retry its row, settles what it recovers and
\* leaves sealed cases alone.
THEOREM AutomationIsBounded ==
    AutoSpec => /\ []RetryOvershootBounded /\ []AllowedContactsBounded
                /\ []DisputedNeverPursued /\ []HardFailureNeverRetried
                /\ []RetriesHaveOwnRows /\ []RecoveredIsSettled
                /\ SealedIsFinal
  BY AutomationAsRequests, RetryOvershoot, ContactOvershoot, DisputeIsRespected,
     HardFailureIsRespected, RetriesOwnTheirRows, RecoveredCasesAreSettled,
     SealedFinal, PTL

\* An approval is marked only after a call of execute for it has returned: the gate
\* has been asked about the action, and the tool of what it let through (none for a
\* deferral) has ended, with any number of reviewers, and whichever of them die.
THEOREM ApprovalStandsForExecution == AutoSpec => []ApprovedWasExecuted
  <1>1. AutoInv => ApprovedWasExecuted
    BY DEF AutoInv
  <1> QED BY <1>1, AutoStart, AutoStep, PTL DEF AutoSpec
-----------------------------------------------------------------------------
(* The verdict on a request *)

\* The form of a job that goes on, and of one that ends.
LEMMA FormKept ==
    ASSUME NEW j \in Jobs, NEW at, NEW c, NEW action, NEW live
    PROVE  /\ [j EXCEPT !.at = at].form = j.form
           /\ NoJob.form = NoForm
           /\ Resume(Batch(c, at, action, live)).form = NoForm
  BY DEF Jobs, NoJob, Job, Batch, Resume

\* No step touches a reviewed form that nobody reviews any more.
LEMMA VerdictStands ==
    ASSUME AutoInv, NEW f \in Forms, Reviewed(f), AutoNext
    PROVE  Reviewed(f)' /\ form'[f] = form[f] /\ ran'[f] = ran[f]
  <1> DEFINE Stands == Reviewed(f)' /\ form'[f] = form[f] /\ ran'[f] = ran[f]
  <1> SUFFICES Stands
    OBVIOUS
  <1>1. /\ job \in [Requests -> Jobs] /\ \A r \in Requests : job[r].form # f
        /\ ran \in [Forms -> Nat]
        /\ form \in [Forms -> {"NONE", "PENDING", "APPROVED", "REJECTED"}]
        /\ f # NoForm /\ form[f] \in {"APPROVED", "REJECTED"}
    BY AutomationAssumption DEF Reviewed, AutoInv, AutoTypeOK
  <1>2. ASSUME NEW r \in Requests, NEW j, job' = [job EXCEPT ![r] = j],
               j.form # f, form'[f] = form[f], ran'[f] = ran[f]
        PROVE  Stands
    <2>1. \A q \in Requests : job'[q].form # f
      BY <1>1, <1>2
    <2> QED BY <1>1, <1>2, <2>1 DEF Reviewed
  <1>3. ASSUME UNCHANGED << form, ran, job >>
        PROVE  Stands
    BY <1>1, <1>3 DEF Reviewed
  <1> HIDE DEF Stands
  <1>4. ASSUME NEW r \in Requests, UNCHANGED << form, ran >>,
               \/ Finished(r)
               \/ \E at : Stage(r, at)
               \/ \E who, at, c, action : Take(r, who, at, c, action)
               \/ \E at, c, action, live :
                    job' = [job EXCEPT ![r] = Resume(Batch(c, at, action, live))]
        PROVE  Stands
    <2>1. form'[f] = form[f] /\ ran'[f] = ran[f]
      BY <1>4
    <2>2. CASE Finished(r)
      BY <1>1, <1>2, <2>1, <2>2, FormKept DEF Finished
    <2>3. ASSUME NEW at, Stage(r, at)
          PROVE  Stands
      <3> DEFINE j == [job[r] EXCEPT !.at = at]
      <3>1. job' = [job EXCEPT ![r] = j] /\ j.form # f
        BY <1>1, <2>3, FormKept DEF Stage
      <3> QED BY <1>2, <2>1, <3>1
    <2>4. ASSUME NEW who, NEW at, NEW c, NEW action, Take(r, who, at, c, action)
          PROVE  Stands
      <3> DEFINE j == Job(who, at, c, NoForm, action, "OPEN")
      <3>1. job' = [job EXCEPT ![r] = j] /\ j.form # f
        BY <1>1, <2>4 DEF Take, Job
      <3> QED BY <1>2, <2>1, <3>1
    <2>5. ASSUME NEW at, NEW c, NEW action, NEW live,
                 job' = [job EXCEPT ![r] = Resume(Batch(c, at, action, live))]
          PROVE  Stands
      <3>1. Resume(Batch(c, at, action, live)).form # f
        BY <1>1, FormKept
      <3> QED BY <1>2, <2>1, <2>5, <3>1
    <2> QED BY <1>4, <2>2, <2>3, <2>4, <2>5
  <1>5. ASSUME NEW r \in Requests, Step(r)
        PROVE  Stands
    <2>1. form' = form
      BY <1>5 DEF Step
    <2>2. ran'[f] = ran[f]
      BY <1>1, <1>5 DEF Step
    <2>3. CASE job' = job
      <3>1. \A q \in Requests : job'[q].form # f
        BY <1>1, <2>3
      <3> QED BY <1>1, <2>1, <2>2, <3>1 DEF Reviewed, Stands
    <2>4. CASE job' = [job EXCEPT ![r] = Return(r)]
      <3>1. \/ Return(r) = [job[r] EXCEPT !.at = "mark"]
            \/ Return(r) = NoJob
            \/ \E at, c, action, live :
                 Return(r) = Resume(Batch(c, at, action, live))
        BY DEF Return
      <3>2. /\ [job[r] EXCEPT !.at = "mark"].form # f /\ NoJob.form # f
            /\ \A at, c, action, live : Resume(Batch(c, at, action, live)).form # f
        BY <1>1, FormKept
      <3>3. Return(r).form # f
        BY <3>1, <3>2
      <3> QED BY <1>2, <2>1, <2>2, <2>4, <3>3
    <2> QED BY <1>5, <2>3, <2>4 DEF Step
  <1>6. ASSUME NEW r \in Requests,
               CallExecute(r) \/ CallVerify(r) \/ ReadFresh(r) \/ Die(r)
        PROVE  Stands
    <2>1. UNCHANGED << form, ran >> /\ (Finished(r) \/ \E at : Stage(r, at))
      BY <1>6 DEF CallExecute, CallVerify, ReadFresh, Die, queue
    <2> QED BY <1>4, <2>1
  <1>7. ASSUME NEW r \in Requests, CallDiagnose(r)
        PROVE  Stands
    <2>1. UNCHANGED << form, ran >>
      BY <1>7 DEF CallDiagnose, queue
    <2>2. \/ \E at : Stage(r, at)
          \/ \E at, c, action, live :
               job' = [job EXCEPT ![r] = Resume(Batch(c, at, action, live))]
      BY <1>7 DEF CallDiagnose
    <2> QED BY <1>4, <2>1, <2>2
  <1>8. ASSUME NEW r \in Requests, NEW c \in Cases, Queue(r, c)
        PROVE  Stands
    <2>1. UNCHANGED << form, ran >>
      BY <1>8 DEF Queue, RunCase, Snapshot, Request, queue
    <2>2. \/ \E who, at, d, action : Take(r, who, at, d, action)
          \/ \E at, d, action, live :
               job' = [job EXCEPT ![r] = Resume(Batch(d, at, action, live))]
      BY <1>8 DEF Queue, RunCase, Snapshot, Request
    <2> QED BY <1>4, <2>1, <2>2
  <1>9. ASSUME NEW r \in Requests, NEW g \in Forms, CreateForm(r, g)
        PROVE  Stands
    <2>1. g # f /\ form' = [form EXCEPT ![g] = "PENDING"] /\ ran' = ran /\ Finished(r)
      BY <1>1, <1>9 DEF CreateForm
    <2>2. form'[f] = form[f] /\ ran'[f] = ran[f]
      BY <1>1, <2>1
    <2> QED BY <1>1, <1>2, <2>1, <2>2, FormKept DEF Finished
  <1>10. ASSUME NEW r \in Requests, MarkReviewed(r)
         PROVE  Stands
    <2>1. /\ \E mark : form' = [form EXCEPT ![job[r].form] = mark]
          /\ ran' = ran /\ Finished(r)
      BY <1>10 DEF MarkReviewed
    <2>2. form'[f] = form[f] /\ ran'[f] = ran[f]
      BY <1>1, <2>1
    <2> QED BY <1>1, <1>2, <2>1, <2>2, FormKept DEF Finished
  <1>11. ASSUME NEW r \in Requests, NEW g \in Forms,
                NEW verdict \in {"execute", "reject"}, Review(r, g, verdict)
         PROVE  Stands
    <2>1. PICK action \in Proposed :
            job' = [job EXCEPT ![r] =
                      Job("approver", verdict, about[g], g, action, "OPEN")]
      BY <1>11 DEF Review
    <2>2. g # f /\ form'[f] = form[f] /\ ran'[f] = ran[f]
      BY <1>1, <1>11 DEF Review, queue
    <2>3. Job("approver", verdict, about[g], g, action, "OPEN").form # f
      BY <2>2 DEF Job
    <2> QED BY <1>2, <2>1, <2>2, <2>3
  <1>12. ASSUME \/ \E r \in Requests : Direct(r)
                \/ \E c \in Cases : Ripen(c) \/ PromiseFalls(c)
                \/ World /\ UNCHANGED auto
         PROVE  Stands
    BY <1>3, <1>12 DEF Direct, Ripen, PromiseFalls, auto, queue
  <1> QED
    BY <1>5, <1>6, <1>7, <1>8, <1>9, <1>10, <1>11, <1>12 DEF AutoNext, Work

\* A verdict that no reviewer is working on any more is never overturned, and nothing
\* is executed for it again, whoever dies and however many requests there are.
THEOREM VerdictIsFinal == AutoSpec => ReviewIsFinal
  <1>1. AutoInv /\ [AutoNext]_<< vars, auto >> =>
          [\A f \in Forms : Reviewed(f) => Reviewed(f)' /\ form'[f] = form[f]
                                           /\ ran'[f] = ran[f]]_<< vars, auto >>
    BY VerdictStands
  <1> QED BY <1>1, AutoStart, AutoStep, PTL DEF AutoSpec, ReviewIsFinal

-----------------------------------------------------------------------------
(* How often an approved action runs *)

Working(f) ==
    {r \in Requests : job[r].form = f /\ job[r].at \in {"execute", "running"}}

Marking(f) == {r \in Requests : job[r].form = f /\ job[r].at = "mark"}

\* A job that holds a form reviews it, and the form exists.
FormHeld(r) ==
    job[r].form # NoForm =>
      /\ job[r].at \in {"execute", "running", "mark", "reject"}
      /\ job[r].form \in Forms /\ form[job[r].form] # "NONE"

\* While a request is pending, a run is a review about to mark it or one that died
\* there; afterwards no review begins, and each one at work may add a run.
RunsOf(f) ==
    /\ form[f] = "NONE" => ran[f] = 0
    /\ form[f] = "PENDING" => ran[f] =< Cardinality(Marking(f)) + faults
    /\ form[f] \in {"APPROVED", "REJECTED"} =>
         ran[f] + Cardinality(Working(f)) =< Cardinality(Requests) + faults

RunsInv ==
    /\ \A r \in Requests : FormHeld(r)
    /\ \A f \in Forms : RunsOf(f)

\* Reviews of a form are finitely many, and none both works and marks.
LEMMA ReviewsCounted ==
    ASSUME NEW S \in SUBSET Requests, NEW T \in SUBSET Requests
    PROVE  /\ IsFiniteSet(S) /\ Cardinality(S) \in Nat
           /\ S \subseteq T => Cardinality(S) =< Cardinality(T)
           /\ S \cap T = {} =>
                Cardinality(S) + Cardinality(T) =< Cardinality(Requests)
           /\ \A r \in S : Cardinality(S \ {r}) = Cardinality(S) - 1
  <1>1. IsFiniteSet(Requests) /\ IsFiniteSet(S) /\ IsFiniteSet(T)
    BY LifecycleAssumption, FS_Subset
  <1>2. /\ Cardinality(S) \in Nat /\ Cardinality(T) \in Nat
        /\ Cardinality(Requests) \in Nat
    BY <1>1, FS_CardinalityType
  <1>3. S \subseteq T => Cardinality(S) =< Cardinality(T)
    BY <1>1, FS_Subset
  <1>4. ASSUME S \cap T = {}
        PROVE  Cardinality(S) + Cardinality(T) =< Cardinality(Requests)
    <2>1. Cardinality(S \cup T) =
            Cardinality(S) + Cardinality(T) - Cardinality(S \cap T)
      BY <1>1, FS_Union
    <2>2. Cardinality(S \cap T) = 0
      BY <1>4, FS_EmptySet
    <2>3. Cardinality(S \cup T) =< Cardinality(Requests)
      BY <1>1, FS_Subset
    <2> QED BY <1>2, <2>1, <2>2, <2>3
  <1>5. \A r \in S : Cardinality(S \ {r}) = Cardinality(S) - 1
    BY <1>1, FS_RemoveElement
  <1> QED BY <1>1, <1>2, <1>3, <1>4, <1>5

\* No run, no verdict: reviews may begin of a pending form and end elsewhere.
LEMMA RunsStand ==
    ASSUME AutoInv, RunsInv, UNCHANGED << form, ran, faults >>,
           \A r \in Requests : FormHeld(r)',
           \A f \in Forms : Marking(f) \subseteq Marking(f)',
           \A f \in Forms : form[f] # "PENDING" => Working(f)' \subseteq Working(f)
    PROVE  RunsInv'
  <1>1. ASSUME NEW f \in Forms
        PROVE  RunsOf(f)'
    <2>1. /\ Working(f) \in SUBSET Requests /\ Working(f)' \in SUBSET Requests
          /\ Marking(f) \in SUBSET Requests /\ Marking(f)' \in SUBSET Requests
      BY DEF Working, Marking
    <2> DEFINE w == Cardinality(Working(f))
               v == Cardinality(Working(f)')
               m == Cardinality(Marking(f))
               n == Cardinality(Marking(f)')
    <2>2. w \in Nat /\ v \in Nat /\ m \in Nat /\ n \in Nat
      BY <2>1, ReviewsCounted
    <2>3. m =< n /\ (form[f] # "PENDING" => v =< w)
      BY <2>1, ReviewsCounted
    <2>4. ran[f] \in Nat /\ faults \in Nat /\ Cardinality(Requests) \in Nat
      BY ReviewsCounted DEF AutoInv, AutoTypeOK
    <2>5. /\ form[f] = "NONE" => ran[f] = 0
          /\ form[f] = "PENDING" => ran[f] =< m + faults
          /\ form[f] \in {"APPROVED", "REJECTED"} =>
               ran[f] + w =< Cardinality(Requests) + faults
      BY DEF RunsInv, RunsOf
    <2> HIDE DEF w, v, m, n
    <2>6. /\ form[f] = "NONE" => ran[f] = 0
          /\ form[f] = "PENDING" => ran[f] =< n + faults
          /\ form[f] \in {"APPROVED", "REJECTED"} =>
               ran[f] + v =< Cardinality(Requests) + faults
      BY <2>2, <2>3, <2>4, <2>5
    <2> QED BY <2>6 DEF RunsOf, v, n
  <1> QED BY <1>1 DEF RunsInv

\* The job of one handler moves: it is not about to mark, and lets go of its form,
\* goes on with it, or takes a pending one.
LEMMA RunsJob ==
    ASSUME AutoInv, RunsInv, UNCHANGED << form, ran, faults >>,
           NEW r \in Requests, NEW j, job' = [job EXCEPT ![r] = j],
           job[r].at # "mark",
           \/ j.form = NoForm
           \/ /\ j.form = job[r].form /\ j.at = "running"
              /\ job[r].at = "execute"
           \/ /\ j.form \in Forms /\ form[j.form] = "PENDING"
              /\ j.at \in {"execute", "reject"}
    PROVE  RunsInv'
  <1>1. /\ job \in [Requests -> Jobs] /\ job'[r] = j
        /\ \A q \in Requests \ {r} : job'[q] = job[q]
    BY DEF AutoInv, AutoTypeOK
  <1>2. \A q \in Requests : FormHeld(q)'
    BY <1>1 DEF RunsInv, FormHeld
  <1>3. \A f \in Forms : Marking(f) \subseteq Marking(f)'
    BY <1>1 DEF Marking
  <1>4. ASSUME NEW f \in Forms, form[f] # "PENDING"
        PROVE  Working(f)' \subseteq Working(f)
    <2>1. f # NoForm
      BY AutomationAssumption
    <2> QED BY <1>1, <1>4, <2>1 DEF Working
  <1> QED BY <1>2, <1>3, <1>4, RunsStand

\* A job that calls goes on with the form it reviews, if any.
LEMMA RunsStage ==
    ASSUME AutoInv, RunsInv, UNCHANGED << form, ran, faults >>,
           NEW r \in Requests, NEW at, Stage(r, at),
           \/ job[r].at \in {"diagnose", "fresh", "verify"}
           \/ job[r].at = "execute" /\ at = "running"
    PROVE  RunsInv'
  <1>1. job[r] \in Jobs /\ FormHeld(r)
    BY DEF AutoInv, AutoTypeOK, RunsInv
  <1> DEFINE j == [job[r] EXCEPT !.at = at]
  <1>2. j.form = job[r].form /\ j.at = at
    BY <1>1 DEF Jobs
  <1>3. job' = [job EXCEPT ![r] = j]
    BY DEF Stage
  <1>4. job[r].at # "execute" => job[r].form = NoForm
    BY <1>1 DEF FormHeld
  <1> HIDE DEF j
  <1> QED BY <1>2, <1>3, <1>4, RunsJob

LEMMA RunsFinished ==
    ASSUME AutoInv, RunsInv, UNCHANGED << form, ran, faults >>,
           NEW r \in Requests, Finished(r), job[r].at # "mark"
    PROVE  RunsInv'
  BY RunsJob DEF Finished, NoJob, Job

\* A call of a job, and a job that reads.
LEMMA RunsCall ==
    ASSUME AutoInv, RunsInv, NEW r \in Requests,
           CallExecute(r) \/ CallDiagnose(r) \/ CallVerify(r) \/ ReadFresh(r)
    PROVE  RunsInv'
  <1>1. UNCHANGED << form, ran, faults >>
    BY DEF CallExecute, CallDiagnose, CallVerify, ReadFresh, queue
  <1>2. \/ job[r].at \in {"diagnose", "fresh", "verify"}
        \/ job[r].at = "execute" /\ CallExecute(r)
    BY DEF CallExecute, CallDiagnose, CallVerify, ReadFresh, Awaits
  <1>3. CASE \E at : Stage(r, at) /\ (CallExecute(r) => at = "running")
    BY <1>1, <1>2, <1>3, RunsStage
  <1>4. CASE Finished(r)
    BY <1>1, <1>2, <1>4, RunsFinished
  <1>5. CASE \E at, c, action, live :
               job' = [job EXCEPT ![r] = Resume(Batch(c, at, action, live))]
    <2>1. PICK at, c, action, live :
            job' = [job EXCEPT ![r] = Resume(Batch(c, at, action, live))]
      BY <1>5
    <2>2. Resume(Batch(c, at, action, live)).form = NoForm
      BY DEF Resume, Batch, Job, NoJob
    <2> QED BY <1>1, <1>2, <2>1, <2>2, RunsJob
  <1> QED
    BY <1>3, <1>4, <1>5 DEF CallExecute, CallDiagnose, CallVerify, ReadFresh, Awaits

\* Sweeps, batches, requests and reviews take a free handler.
LEMMA RunsTaken ==
    ASSUME AutoInv, RunsInv, NEW r \in Requests,
           \/ \E c \in Cases : Queue(r, c)
           \/ \E f \in Forms, verdict \in {"execute", "reject"} :
                Review(r, f, verdict)
    PROVE  RunsInv'
  <1>1. UNCHANGED << form, ran, faults >> /\ job[r] = NoJob
    BY DEF Queue, RunCase, Snapshot, Request, Review, Take, Free, queue
  <1>2. job[r].at # "mark"
    BY <1>1, NoJobReady
  <1>3. ASSUME NEW c \in Cases, Queue(r, c)
        PROVE  \E j : job' = [job EXCEPT ![r] = j] /\ j.form = NoForm
    <2>1. CASE \E who, at, action : Take(r, who, at, c, action)
      <3>1. PICK who, at, action :
              job' = [job EXCEPT ![r] = Job(who, at, c, NoForm, action, "OPEN")]
        BY <2>1 DEF Take
      <3>2. Job(who, at, c, NoForm, action, "OPEN").form = NoForm
        BY DEF Job
      <3> QED BY <3>1, <3>2
    <2>2. CASE Snapshot(r, c)
      <3> DEFINE j == Resume(Batch(c, BeforeAct(decision[c], status[c]),
                                   decision[c], status[c]))
      <3>1. job' = [job EXCEPT ![r] = j]
        BY <2>2 DEF Snapshot
      <3>2. j.form = NoForm
        BY DEF Resume, Batch, Job, NoJob
      <3> QED BY <3>1, <3>2
    <2> QED BY <1>3, <2>1, <2>2 DEF Queue, RunCase, Request
  <1>4. ASSUME NEW f \in Forms, NEW verdict \in {"execute", "reject"},
               Review(r, f, verdict)
        PROVE  \E j : /\ job' = [job EXCEPT ![r] = j]
                      /\ j.form \in Forms /\ form[j.form] = "PENDING"
                      /\ j.at \in {"execute", "reject"}
    <2>1. PICK action \in Proposed :
            job' = [job EXCEPT ![r] =
                      Job("approver", verdict, about[f], f, action, "OPEN")]
      BY <1>4 DEF Review
    <2> DEFINE j == Job("approver", verdict, about[f], f, action, "OPEN")
    <2>2. j.form = f /\ j.at = verdict
      BY DEF Job
    <2>3. job' = [job EXCEPT ![r] = j] /\ form[f] = "PENDING"
      BY <1>4, <2>1 DEF Review
    <2> HIDE DEF j
    <2> QED BY <1>4, <2>2, <2>3
  <1>5. CASE \E c \in Cases : Queue(r, c)
    BY <1>1, <1>2, <1>3, <1>5, RunsJob
  <1>6. CASE \E f \in Forms, verdict \in {"execute", "reject"} : Review(r, f, verdict)
    BY <1>1, <1>2, <1>4, <1>6, RunsJob
  <1> QED BY <1>5, <1>6

-----------------------------------------------------------------------------
\* A form is made.
LEMMA RunsCreate ==
    ASSUME AutoInv, RunsInv, NEW r \in Requests, NEW g \in Forms, CreateForm(r, g)
    PROVE  RunsInv'
  <1>1. /\ job \in [Requests -> Jobs] /\ form' = [form EXCEPT ![g] = "PENDING"]
        /\ form \in [Forms -> {"NONE", "PENDING", "APPROVED", "REJECTED"}]
        /\ form[g] = "NONE" /\ ran' = ran /\ faults' = faults
        /\ job' = [job EXCEPT ![r] = NoJob] /\ job[r].at = "create"
        /\ NoJob.form = NoForm /\ NoJob.at = "idle"
    BY DEF CreateForm, AutoInv, AutoTypeOK, Finished, Awaits, NoJob, Job
  <1>2. \A q \in Requests : FormHeld(q)'
    BY <1>1 DEF RunsInv, FormHeld
  <1>3. \A f \in Forms : Marking(f)' = Marking(f) /\ Working(f)' = Working(f)
    BY <1>1 DEF Marking, Working
  <1>4. \A f \in Forms \ {g} : RunsOf(f)'
    BY <1>1, <1>3 DEF RunsInv, RunsOf
  <1>5. RunsOf(g)'
    <2>1. ran'[g] = 0 /\ form'[g] = "PENDING"
      BY <1>1 DEF RunsInv, RunsOf
    <2>2. faults' \in Nat
      BY <1>1 DEF AutoInv, AutoTypeOK
    <2>3. Cardinality(Marking(g)') \in Nat
      <3>1. Marking(g)' \in SUBSET Requests
        BY DEF Marking
      <3> QED BY <3>1, ReviewsCounted
    <2>4. 0 =< Cardinality(Marking(g)') + faults'
      BY <2>2, <2>3
    <2> QED BY <2>1, <2>4 DEF RunsOf
  <1> QED BY <1>2, <1>4, <1>5 DEF RunsInv

\* The numbers of one form.
LEMMA RunsNumbers ==
    ASSUME AutoInv, NEW f \in Forms
    PROVE  /\ ran[f] \in Nat /\ faults \in Nat /\ Cardinality(Requests) \in Nat
           /\ Working(f) \in SUBSET Requests /\ Marking(f) \in SUBSET Requests
           /\ Cardinality(Working(f)) \in Nat /\ Cardinality(Marking(f)) \in Nat
           /\ Cardinality(Working(f)) + Cardinality(Marking(f))
                =< Cardinality(Requests)
  <1>1. Working(f) \in SUBSET Requests /\ Marking(f) \in SUBSET Requests
    BY DEF Working, Marking
  <1>2. Working(f) \cap Marking(f) = {}
    BY DEF Working, Marking
  <1>3. ran[f] \in Nat /\ faults \in Nat
    BY DEF AutoInv, AutoTypeOK
  <1> QED BY <1>1, <1>2, <1>3, ReviewsCounted

\* A verdict is written: those still at work on the form are the runs to come.
LEMMA RunsMarked ==
    ASSUME AutoInv, RunsInv, NEW r \in Requests, MarkReviewed(r)
    PROVE  RunsInv'
  <1>0. PICK g \in Forms : g = job[r].form /\ form[g] # "NONE"
    <2>1. JobReady(job[r]) /\ FormHeld(r) /\ job[r].at \in {"mark", "reject"}
      BY DEF AutoInv, RunsInv, MarkReviewed, Awaits
    <2> QED BY <2>1, AutomationAssumption DEF JobReady, FormHeld
  <1>1. /\ job \in [Requests -> Jobs]
        /\ form \in [Forms -> {"NONE", "PENDING", "APPROVED", "REJECTED"}]
        /\ ran' = ran /\ faults' = faults
        /\ job' = [job EXCEPT ![r] = NoJob] /\ job[r].at \in {"mark", "reject"}
        /\ NoJob.form = NoForm /\ NoJob.at = "idle"
        /\ \E verdict \in {"APPROVED", "REJECTED"} :
             form' = [form EXCEPT ![g] = verdict]
    BY <1>0 DEF MarkReviewed, AutoInv, AutoTypeOK, Finished, Awaits, NoJob, Job
  <1>3. \A q \in Requests : FormHeld(q)'
    BY <1>1, <1>0 DEF RunsInv, FormHeld
  <1>4. \A f \in Forms : Working(f)' = Working(f)
    BY <1>0, <1>1, AutomationAssumption DEF Working
  <1>5. \A f \in Forms \ {g} : Marking(f)' = Marking(f)
    BY <1>0, <1>1, AutomationAssumption DEF Marking
  <1>6. \A f \in Forms \ {g} : RunsOf(f)'
    BY <1>1, <1>4, <1>5 DEF RunsInv, RunsOf
  <1>7. RunsOf(g)'
    <2>1. /\ form[g] = "PENDING" => ran[g] =< Cardinality(Marking(g)) + faults
          /\ form[g] # "PENDING" =>
               ran[g] + Cardinality(Working(g)) =< Cardinality(Requests) + faults
      BY <1>1, <1>0 DEF RunsInv, RunsOf
    <2>2. ran[g] + Cardinality(Working(g)) =< Cardinality(Requests) + faults
      BY <1>0, <2>1, RunsNumbers
    <2>3. form'[g] \in {"APPROVED", "REJECTED"}
      BY <1>1, <1>0
    <2>4. ran'[g] = ran[g] /\ faults' = faults /\ Working(g)' = Working(g)
      BY <1>1, <1>0, <1>4
    <2> QED BY <2>2, <2>3, <2>4 DEF RunsOf
  <1> QED BY <1>3, <1>6, <1>7 DEF RunsInv

\* A handler that dies may have been about to mark.
LEMMA RunsDeath ==
    ASSUME AutoInv, RunsInv, NEW r \in Requests, Die(r)
    PROVE  RunsInv'
  <1>1. /\ job \in [Requests -> Jobs] /\ UNCHANGED << form, ran >>
        /\ faults' = faults + 1 /\ job' = [job EXCEPT ![r] = NoJob]
        /\ NoJob.form = NoForm /\ NoJob.at = "idle"
    BY DEF Die, AutoInv, AutoTypeOK, Finished, NoJob, Job, queue
  <1>2. \A q \in Requests : FormHeld(q)'
    BY <1>1 DEF RunsInv, FormHeld
  <1>3. ASSUME NEW f \in Forms
        PROVE  RunsOf(f)'
    <2>1. Working(f)' \subseteq Working(f) /\ Marking(f) \ {r} \subseteq Marking(f)'
      BY <1>1, AutomationAssumption DEF Working, Marking
    <2>2. Working(f)' \in SUBSET Requests /\ Marking(f)' \in SUBSET Requests
      BY DEF Working, Marking
    <2> DEFINE w == Cardinality(Working(f))
               v == Cardinality(Working(f)')
               m == Cardinality(Marking(f))
               n == Cardinality(Marking(f)')
               all == Cardinality(Requests)
    <2>3. /\ w \in Nat /\ v \in Nat /\ m \in Nat /\ n \in Nat /\ all \in Nat
          /\ ran[f] \in Nat /\ faults \in Nat
      BY <2>2, ReviewsCounted, RunsNumbers
    <2>4. v =< w
      BY <2>1, <2>2, RunsNumbers, ReviewsCounted
    <2>5. m =< n + 1
      <3>1. CASE r \in Marking(f)
        <4>1. Cardinality(Marking(f) \ {r}) = m - 1
          BY <3>1, RunsNumbers, ReviewsCounted
        <4>2. Cardinality(Marking(f) \ {r}) =< n
          <5>1. Marking(f) \ {r} \in SUBSET Requests
            BY DEF Marking
          <5> QED BY <2>1, <2>2, <5>1, ReviewsCounted
        <4> HIDE DEF m, n
        <4> QED BY <2>3, <4>1, <4>2
      <3>2. CASE r \notin Marking(f)
        <4>1. Marking(f) \subseteq Marking(f)'
          BY <2>1, <3>2
        <4>2. m =< n
          BY <2>2, <4>1, RunsNumbers, ReviewsCounted
        <4> HIDE DEF m, n
        <4> QED BY <2>3, <4>2
      <3> QED BY <3>1, <3>2
    <2>6. /\ form[f] = "NONE" => ran[f] = 0
          /\ form[f] = "PENDING" => ran[f] =< m + faults
          /\ form[f] \in {"APPROVED", "REJECTED"} => ran[f] + w =< all + faults
      BY DEF RunsInv, RunsOf
    <2> HIDE DEF w, v, m, n, all
    <2>7. /\ form[f] = "NONE" => ran[f] = 0
          /\ form[f] = "PENDING" => ran[f] =< n + (faults + 1)
          /\ form[f] \in {"APPROVED", "REJECTED"} => ran[f] + v =< all + (faults + 1)
      BY <2>3, <2>4, <2>5, <2>6
    <2> QED BY <1>1, <2>7 DEF RunsOf, v, n, all
  <1> QED BY <1>2, <1>3 DEF RunsInv

\* The action of an approval has run: its review goes from work to the mark.
LEMMA RunsRan ==
    ASSUME AutoInv, RunsInv, NEW r \in Requests, NEW g \in Forms,
           job[r].form = g, job[r].at = "running",
           job' = [job EXCEPT ![r] = [job[r] EXCEPT !.at = "mark"]],
           ran' = [ran EXCEPT ![g] = @ + 1], UNCHANGED << form, faults >>
    PROVE  RunsInv'
  <1>1. job \in [Requests -> Jobs] /\ job[r] \in Jobs /\ ran \in [Forms -> Nat]
    BY DEF AutoInv, AutoTypeOK
  <1>2. /\ job'[r].form = g /\ job'[r].at = "mark"
        /\ \A q \in Requests \ {r} : job'[q] = job[q]
    BY <1>1 DEF Jobs
  <1>3. \A q \in Requests : FormHeld(q)'
    BY <1>2 DEF RunsInv, FormHeld
  <1>4. \A f \in Forms \ {g} : Working(f)' = Working(f) /\ Marking(f)' = Marking(f)
    BY <1>2 DEF Working, Marking
  <1>5. \A f \in Forms \ {g} : RunsOf(f)'
    BY <1>1, <1>4 DEF RunsInv, RunsOf
  <1>6. RunsOf(g)'
    <2>1. /\ r \in Working(g) /\ Working(g)' = Working(g) \ {r}
          /\ r \in Marking(g)' /\ Marking(g) = Marking(g)' \ {r}
      BY <1>2 DEF Working, Marking
    <2>2. Marking(g)' \in SUBSET Requests
      BY DEF Marking
    <2> DEFINE w == Cardinality(Working(g))
               v == Cardinality(Working(g)')
               m == Cardinality(Marking(g))
               n == Cardinality(Marking(g)')
               all == Cardinality(Requests)
    <2>3. /\ w \in Nat /\ m \in Nat /\ n \in Nat /\ all \in Nat
          /\ ran[g] \in Nat /\ faults \in Nat
      BY <2>2, ReviewsCounted, RunsNumbers
    <2>4. v = w - 1
      BY <2>1, RunsNumbers, ReviewsCounted
    <2>5. m = n - 1
      BY <2>1, <2>2, ReviewsCounted
    <2>6. /\ form[g] # "NONE"
          /\ form[g] = "PENDING" => ran[g] =< m + faults
          /\ form[g] \in {"APPROVED", "REJECTED"} => ran[g] + w =< all + faults
      BY AutomationAssumption DEF RunsInv, RunsOf, FormHeld
    <2> HIDE DEF w, v, m, n, all
    <2>7. /\ form[g] = "PENDING" => ran[g] + 1 =< n + faults
          /\ form[g] \in {"APPROVED", "REJECTED"} => (ran[g] + 1) + v =< all + faults
      BY <2>3, <2>4, <2>5, <2>6
    <2>8. ran'[g] = ran[g] + 1
      BY <1>1
    <2> QED BY <2>6, <2>7, <2>8 DEF RunsOf, v, n, all
  <1> QED BY <1>3, <1>5, <1>6 DEF RunsInv

LEMMA RunsStep ==
    ASSUME AutoInv, RunsInv, NEW r \in Requests, Step(r)
    PROVE  RunsInv'
  <1>1. /\ job[r] \in Jobs /\ JobReady(job[r]) /\ FormHeld(r)
        /\ job \in [Requests -> Jobs]
        /\ job[r].at \in {"idle", "running"}
    BY ProceedBusy DEF Step, AutoInv, AutoTypeOK, RunsInv
  <1>2. UNCHANGED << form, faults >>
    BY DEF Step
  <1>3. CASE job[r].who = "approver" /\ Executed(r)
    <2>1. job[r].form \in Forms /\ job[r].at = "running"
      BY <1>1, <1>3, AutomationAssumption DEF JobReady, FormHeld
    <2>2. ran' = [ran EXCEPT ![job[r].form] = @ + 1]
      BY <1>3 DEF Step
    <2>3. job' = [job EXCEPT ![r] = [job[r] EXCEPT !.at = "mark"]]
      BY <1>3 DEF Step, Executed, Return
    <2> QED BY <1>2, <2>1, <2>2, <2>3, RunsRan
  <1>4. CASE ~(job[r].who = "approver" /\ Executed(r))
    <2>1. UNCHANGED << form, ran, faults >>
      BY <1>2, <1>4 DEF Step
    <2>2. CASE job' = job
      <3>1. \A q \in Requests : FormHeld(q)'
        BY <2>1, <2>2 DEF RunsInv, FormHeld
      <3>2. \A f \in Forms : Marking(f) \subseteq Marking(f)'
                             /\ Working(f)' \subseteq Working(f)
        BY <2>2 DEF Marking, Working
      <3> QED BY <2>1, <3>1, <3>2, RunsStand
    <2>3. CASE job' = [job EXCEPT ![r] = Return(r)]
      <3>1. \/ Return(r) = NoJob
            \/ \E at, c, action, live :
                 Return(r) = Resume(Batch(c, at, action, live))
        BY <1>4 DEF Return
      <3>2. Return(r).form = NoForm
        BY <3>1 DEF Resume, Batch, Job, NoJob
      <3> QED BY <1>1, <2>1, <2>3, <3>2, RunsJob
    <2> QED BY <2>2, <2>3 DEF Step
  <1> QED BY <1>3, <1>4

LEMMA RunsNext ==
    ASSUME AutoInv, RunsInv, [AutoNext]_<< vars, auto >>
    PROVE  RunsInv'
  <1>1. ASSUME UNCHANGED << form, ran, job, faults >>
        PROVE  RunsInv'
    <2>1. \A q \in Requests : FormHeld(q)'
      BY <1>1 DEF RunsInv, FormHeld
    <2>2. \A f \in Forms : Marking(f) \subseteq Marking(f)'
                           /\ Working(f)' \subseteq Working(f)
      BY <1>1 DEF Marking, Working
    <2> QED BY <1>1, <2>1, <2>2, RunsStand
  <1>2. CASE \/ UNCHANGED << vars, auto >>
             \/ \E r \in Requests : Direct(r)
             \/ \E c \in Cases : Ripen(c) \/ PromiseFalls(c)
             \/ World /\ UNCHANGED auto
    BY <1>1, <1>2 DEF Direct, Ripen, PromiseFalls, auto, queue
  <1>3. CASE \E r \in Requests : Die(r)
    BY <1>3, RunsDeath
  <1>4. CASE \E r \in Requests : Work(r)
    BY <1>4, RunsStep, RunsCall, RunsMarked, RunsCreate DEF Work
  <1>5. CASE \/ \E r \in Requests, c \in Cases : Queue(r, c)
             \/ \E r \in Requests, f \in Forms, verdict \in {"execute", "reject"} :
                  Review(r, f, verdict)
    BY <1>5, RunsTaken
  <1> QED BY <1>2, <1>3, <1>4, <1>5 DEF AutoNext

\* An approval makes no more calls of execute than there are handlers to review it at
\* once and handlers that died, for any number of reviewers and whatever they decide.
THEOREM RunsAreBounded == AutoSpec => []RunsBounded
  <1>1. AutoInit => RunsInv
    BY NoJobReady DEF AutoInit, RunsInv, RunsOf, FormHeld, NoJob, Job
  <1>2. AutoInv /\ RunsInv => RunsBounded
    <2> SUFFICES ASSUME AutoInv, RunsInv, NEW f \in Forms
                 PROVE  ran[f] =< Cardinality(Requests) + faults
      BY DEF RunsBounded
    <2>1. form[f] \in {"NONE", "PENDING", "APPROVED", "REJECTED"}
      BY DEF AutoInv, AutoTypeOK
    <2>2. RunsOf(f)
      BY DEF RunsInv
    <2> QED BY <2>1, <2>2, RunsNumbers DEF RunsOf
  <1>3. AutoInv /\ RunsInv /\ [AutoNext]_<< vars, auto >> => RunsInv'
    BY RunsNext
  <1> QED BY <1>1, <1>2, <1>3, AutoStart, AutoStep, PTL DEF AutoSpec
=============================================================================
