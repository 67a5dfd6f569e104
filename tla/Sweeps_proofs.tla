--------------------------- MODULE Sweeps_proofs ----------------------------
(***************************************************************************)
(* The loops and the job queue for any cases, handlers, jobs and limits:   *)
(* what a loop carries from turn to turn is of its kind, no sequence runs  *)
(* past its end, a job is worked by one handler at a time and fails        *)
(* MaxAttempts times at most.                                              *)
(***************************************************************************)
EXTENDS Sweeps, TLAPS

Stages == {"idle", "simulate", "next", "diagnose", "execute", "verify"}

TaskRecords ==
    [loop : Loops \cup {"none"}, at : Stages, todo : SUBSET Snapshots,
     job : Jobs \cup {NoJob}]

JobRecords ==
    [at : {"none", "waiting", "active", "delayed", "completed", "failed"},
     failed : 0 .. MaxAttempts]

RowsTyped ==
    /\ status \in [Cases -> CaseStatuses \cup {"ABSENT"}]
    /\ decision \in [Cases -> Actions \cup {"NONE"}]
    /\ done \in [Cases -> 0 .. Len(Script)]
    /\ due \subseteq Cases /\ faulty \subseteq Suspect
    /\ faults \in 0 .. MaxFaults

TasksTyped == task \in [Handlers -> TaskRecords]

\* A job that may run again has attempts left.
HasAttempts(record) ==
    record.at \in {"none", "waiting", "active", "delayed"}
      => record.failed < MaxAttempts

\* The queue hands a job to one handler, and only while it has attempts
\* left. This is why Failed never counts past the limit.
JobInv ==
    /\ job \in [Jobs -> JobRecords]
    /\ \A h \in Handlers : task[h].job # NoJob => job[task[h].job].at = "active"
    /\ \A h, g \in Handlers :
         h # g /\ task[h].job # NoJob => task[h].job # task[g].job
    /\ \A j \in Jobs : HasAttempts(job[j])

SweepsInv == RowsTyped /\ TasksTyped /\ JobInv

LEMMA StatusGroups ==
    /\ ActiveStatuses \subseteq CaseStatuses
    /\ VerifiableStatuses \subseteq CaseStatuses
    /\ PreAction \subseteq CaseStatuses
    /\ {"WAITING_CUSTOMER", "ACTION_TAKEN", "ESCALATED", "CLOSED_LOST", "OPEN",
        "DIAGNOSED", "RECOVERED"} \subseteq CaseStatuses
    /\ "ABSENT" \notin CaseStatuses
  BY DEF ActiveStatuses, VerifiableStatuses, PreAction, CaseStatuses,
         TerminalStatuses

\* A sequence has between one and eight steps, each of the closed list of actions.
LEMMA ScriptIsSequence == Script \in Seq(Actions) /\ Len(Script) \in Nat
  <1>1. DefaultSequence \in Seq(Actions)
    BY DEF DefaultSequence, Actions, LinkActions, ContactActions, ExemptActions
  <1>2. Script \in Seq(Actions)
    BY <1>1, SweepsAssumption DEF Script
  <1> QED BY <1>2

LEMMA IdleIsTask == Idle \in TaskRecords /\ Idle.at = "idle" /\ Idle.job = NoJob
  BY DEF Idle, TaskRecords, Stages

-----------------------------------------------------------------------------
(* How a handler's record changes *)

LEMMA TaskUpdate ==
    ASSUME TasksTyped, NEW h \in Handlers, NEW rec \in TaskRecords,
           task' = [task EXCEPT ![h] = rec]
    PROVE  /\ TasksTyped' /\ task'[h] = rec
           /\ \A g \in Handlers : g # h => task'[g] = task[g]
  BY DEF TasksTyped

\* A handler's step that gives up its job at most.
Keeps(h) == /\ TasksTyped'
            /\ task'[h].job \in {task[h].job, NoJob}
            /\ \A g \in Handlers : g # h => task'[g] = task[g]

LEMMA EndKeeps ==
    ASSUME TasksTyped, NEW h \in Handlers, End(h)
    PROVE  Keeps(h) /\ task'[h].job = NoJob
  <1> HIDE DEF Idle
  <1> QED BY IdleIsTask, TaskUpdate DEF End, Keeps

LEMMA DropKeeps ==
    ASSUME TasksTyped, NEW h \in Handlers, NEW s, Drop(h, s)
    PROVE  Keeps(h)
  <1> DEFINE left == task[h].todo \ {s}
             rec == [task[h] EXCEPT !.at = "next", !.todo = left]
  <1>1. task[h] \in TaskRecords /\ left \in SUBSET Snapshots
    BY DEF TasksTyped, TaskRecords
  <1>2. task' = [task EXCEPT ![h] = rec]
    BY DEF Drop, TasksTyped
  <1> HIDE DEF left
  <1>3. rec \in TaskRecords /\ rec.job = task[h].job
    BY <1>1 DEF TaskRecords, Stages
  <1> HIDE DEF rec
  <1> QED BY <1>2, <1>3, TaskUpdate DEF Keeps

LEMMA GotoKeeps ==
    ASSUME TasksTyped, NEW h \in Handlers, NEW s \in Snapshots,
           NEW stage \in Stages, NEW live \in CaseStatuses,
           NEW action \in Actions \cup {"NONE"}, Goto(h, s, stage, live, action)
    PROVE  Keeps(h)
  <1> DEFINE new == [on |-> s.on, live |-> live, action |-> action]
             list == (task[h].todo \ {s}) \cup {new}
             rec == [task[h] EXCEPT !.at = stage, !.todo = list]
  <1>1. new \in Snapshots
    BY DEF Snapshots
  <1>2. task' = [task EXCEPT ![h] = rec]
    BY DEF Goto, TasksTyped
  <1> HIDE DEF new
  <1>3. task[h] \in TaskRecords /\ list \in SUBSET Snapshots
    BY <1>1 DEF TasksTyped, TaskRecords
  <1> HIDE DEF list
  <1>4. rec \in TaskRecords /\ rec.job = task[h].job
    BY <1>3 DEF TaskRecords
  <1> HIDE DEF rec
  <1> QED BY <1>2, <1>4, TaskUpdate DEF Keeps

\* A list is taken of cases that exist.
LEMMA ListIsTask ==
    ASSUME RowsTyped, NEW loop \in Loops, NEW j \in Jobs \cup {NoJob}
    PROVE  List(loop, j) \in TaskRecords /\ List(loop, j).job = j
  <1> DEFINE list == {Snapshot(loop, c) : c \in Selected(loop)}
  <1>1. ASSUME NEW c \in Selected(loop) PROVE Snapshot(loop, c) \in Snapshots
    <2>1. c \in Cases /\ (loop = "batch" => Active(c))
      BY <1>1 DEF Selected, Listed
    <2>2. loop = "batch" => status[c] \in CaseStatuses
      BY <2>1, StatusGroups DEF Active
    <2>3. decision[c] \in Actions \cup {"NONE"}
      BY <2>1 DEF RowsTyped
    <2>4. "OPEN" \in CaseStatuses
      BY StatusGroups
    <2> QED BY <2>1, <2>2, <2>3, <2>4 DEF Snapshot, Snapshots
  <1>2. list \in SUBSET Snapshots
    BY <1>1
  <1>3. List(loop, j) = [loop |-> loop, at |-> "next", job |-> j, todo |-> list]
    BY DEF List
  <1> HIDE DEF list
  <1> QED BY <1>2, <1>3 DEF TaskRecords, Stages

LEMMA ListKeeps ==
    ASSUME RowsTyped, TasksTyped, NEW h \in Handlers, NEW loop \in Loops,
           NEW j \in {task[h].job, NoJob}, task' = [task EXCEPT ![h] = List(loop, j)]
    PROVE  Keeps(h)
  <1>1. j \in Jobs \cup {NoJob}
    BY DEF TasksTyped, TaskRecords
  <1>2. List(loop, j) \in TaskRecords /\ List(loop, j).job = j
    BY <1>1, ListIsTask
  <1> QED BY <1>2, TaskUpdate DEF Keeps

LEMMA BatchStarts ==
    ASSUME TasksTyped, NEW h \in Handlers, NEW j \in Jobs \cup {NoJob},
           StartBatch(h, j)
    PROVE  /\ TasksTyped' /\ task'[h].job = j /\ task[h].job = NoJob
           /\ \A g \in Handlers : g # h => task'[g] = task[g]
  <1> DEFINE rec == [Idle EXCEPT !.loop = "batch", !.job = j, !.at = "simulate"]
  <1>1. rec \in TaskRecords /\ rec.job = j
    BY DEF Idle, TaskRecords, Stages, Loops
  <1>2. task' = [task EXCEPT ![h] = rec] /\ task[h] = Idle
    BY DEF StartBatch
  <1> HIDE DEF rec
  <1> QED BY <1>1, <1>2, TaskUpdate, IdleIsTask

\* The queue does not notice a handler that goes on, or gives up its job.
LEMMA JobsKept ==
    ASSUME JobInv, NEW h \in Handlers, Keeps(h), job' = job
    PROVE  JobInv'
  BY DEF JobInv, Keeps

-----------------------------------------------------------------------------
(* How the rows of the cases change *)

LEMMA ExecutedTyped ==
    ASSUME RowsTyped, NEW c \in Cases, NEW effective, Executed(c, effective),
           UNCHANGED << faulty, faults >>
    PROVE  RowsTyped'
  <1> DEFINE next == StatusAfter(effective, status[c])
  <1>1. next \in CaseStatuses \cup {"ABSENT"}
    BY StatusGroups DEF RowsTyped, StatusAfter
  <1>2. status' = [status EXCEPT ![c] = next] /\ decision' = decision
    BY DEF Executed
  <1> HIDE DEF next
  <1>3. \/ done' = done
        \/ /\ done[c] < Len(Script)
           /\ done' = [done EXCEPT ![c] = @ + 1]
    BY DEF Executed
  <1>4. done' \in [Cases -> 0 .. Len(Script)]
    BY <1>3, ScriptIsSequence DEF RowsTyped
  <1>5. due' \subseteq Cases
    BY DEF Executed, RowsTyped
  <1> QED BY <1>1, <1>2, <1>4, <1>5 DEF RowsTyped

LEMMA DiagnosedTyped ==
    ASSUME RowsTyped, NEW c \in Cases, Diagnosed(c), UNCHANGED << faulty, faults >>
    PROVE  RowsTyped'
  <1>1. UNCHANGED << done, due >>
    BY DEF Diagnosed
  <1>2. decision' \in [Cases -> Actions \cup {"NONE"}]
    BY SweepsAssumption DEF Diagnosed, RowsTyped
  <1>3. status' \in [Cases -> CaseStatuses \cup {"ABSENT"}]
    BY StatusGroups DEF Diagnosed, RowsTyped
  <1> QED BY <1>1, <1>2, <1>3 DEF RowsTyped

LEMMA RolledTyped ==
    ASSUME RowsTyped, NEW c \in Cases, Rolled(c), UNCHANGED << faulty, faults >>
    PROVE  RowsTyped'
  <1>1. UNCHANGED << decision, done, due >>
    BY DEF Rolled
  <1>2. status' = status \/ status' = [status EXCEPT ![c] = "RECOVERED"]
    BY DEF Rolled
  <1>3. status' \in [Cases -> CaseStatuses \cup {"ABSENT"}]
    BY <1>2, StatusGroups DEF RowsTyped
  <1> QED BY <1>1, <1>3 DEF RowsTyped

LEMMA RowsKept ==
    ASSUME RowsTyped, UNCHANGED << rows, faulty, faults >>
    PROVE  RowsTyped'
  BY DEF RowsTyped, rows

LEMMA StatusTyped ==
    ASSUME RowsTyped, NEW c \in Cases, NEW new \in CaseStatuses,
           status' = [status EXCEPT ![c] = new],
           UNCHANGED << decision, done, due, faulty, faults >>
    PROVE  RowsTyped'
  BY DEF RowsTyped

LEMMA CreatedTyped ==
    ASSUME RowsTyped, NEW c \in Cases, Created(c), UNCHANGED << faulty, faults >>
    PROVE  RowsTyped'
  BY StatusTyped, StatusGroups DEF Created

-----------------------------------------------------------------------------
(* How the queue changes *)

\* Of a job nobody holds only the record is to be looked at.
LEMMA QueueMoves ==
    ASSUME JobInv, NEW j \in Jobs, \A h \in Handlers : task'[h].job # j,
           NEW rec \in JobRecords, HasAttempts(rec),
           job' = [job EXCEPT ![j] = rec],
           \A h \in Handlers : task'[h].job \in {task[h].job, NoJob}
    PROVE  JobInv'
  <1>1. job' \in [Jobs -> JobRecords]
    BY DEF JobInv
  <1>2. job'[j] = rec /\ \A k \in Jobs : k # j => job'[k] = job[k]
    BY DEF JobInv
  <1>3. ASSUME NEW h \in Handlers, task'[h].job # NoJob
        PROVE  job'[task'[h].job].at = "active"
    <2>1. task'[h].job = task[h].job /\ task[h].job # j
      BY <1>3
    <2>2. job[task[h].job].at = "active"
      BY <1>3, <2>1 DEF JobInv
    <2>3. job'[task[h].job] = job[task[h].job]
      BY <2>1 DEF JobInv
    <2> QED BY <2>1, <2>2, <2>3
  <1>4. ASSUME NEW h \in Handlers, NEW g \in Handlers, h # g, task'[h].job # NoJob
        PROVE  task'[h].job # task'[g].job
    BY <1>4 DEF JobInv
  <1>5. ASSUME NEW k \in Jobs PROVE HasAttempts(job'[k])
    BY <1>2 DEF JobInv, HasAttempts
  <1> QED BY <1>1, <1>3, <1>4, <1>5 DEF JobInv, HasAttempts

\* The handler that gives up its job was the only one to hold it.
LEMMA JobGivenUp ==
    ASSUME SweepsInv, NEW h \in Handlers, End(h),
           NEW rec, job' = IF task[h].job = NoJob THEN job
                           ELSE [job EXCEPT ![task[h].job] = rec],
           task[h].job # NoJob => rec \in JobRecords /\ HasAttempts(rec)
    PROVE  TasksTyped' /\ JobInv'
  <1>1. Keeps(h) /\ task'[h].job = NoJob
    BY EndKeeps DEF SweepsInv
  <1>2. CASE task[h].job = NoJob
    BY <1>1, <1>2, JobsKept DEF SweepsInv, Keeps
  <1>3. CASE task[h].job # NoJob
    <2> DEFINE j == task[h].job
    <2>1. j \in Jobs /\ j # NoJob
      BY <1>3 DEF SweepsInv, TasksTyped, TaskRecords
    <2>2. ASSUME NEW g \in Handlers PROVE task'[g].job # j
      BY <1>1, <1>3, <2>2 DEF SweepsInv, JobInv, Keeps
    <2>3. \A g \in Handlers : task'[g].job \in {task[g].job, NoJob}
      BY <1>1 DEF Keeps
    <2>4. job' = [job EXCEPT ![j] = rec] /\ rec \in JobRecords /\ HasAttempts(rec)
      BY <1>3
    <2> HIDE DEF j
    <2>5. JobInv'
      BY <2>1, <2>2, <2>3, <2>4, QueueMoves DEF SweepsInv
    <2> QED BY <1>1, <2>5 DEF Keeps
  <1> QED BY <1>2, <1>3

\* The record of a job that is being worked.
LEMMA HeldJob ==
    ASSUME SweepsInv, NEW h \in Handlers, task[h].job # NoJob
    PROVE  /\ task[h].job \in Jobs
           /\ job[task[h].job] \in JobRecords
           /\ job[task[h].job].failed < MaxAttempts
           /\ job[task[h].job].at = "active"
  <1>1. task[h].job \in Jobs
    BY DEF SweepsInv, TasksTyped, TaskRecords
  <1>2. job[task[h].job] \in JobRecords /\ job[task[h].job].at = "active"
    BY <1>1 DEF SweepsInv, JobInv
  <1> QED BY <1>1, <1>2 DEF SweepsInv, JobInv, HasAttempts

\* An attempt is left, or the job has failed for good.
LEMMA FailedRecord ==
    ASSUME NEW record \in JobRecords, record.failed < MaxAttempts
    PROVE  Failed(record) \in JobRecords /\ HasAttempts(Failed(record))
  <1>1. record.failed \in Nat /\ MaxAttempts \in Nat
    BY SweepsAssumption DEF JobRecords
  <1>2. record.failed + 1 \in 0 .. MaxAttempts
    BY <1>1
  <1> QED BY <1>1, <1>2 DEF Failed, JobRecords, HasAttempts

LEMMA MovedRecord ==
    ASSUME NEW record \in JobRecords, HasAttempts(record),
           record.at \in {"none", "waiting", "active", "delayed"},
           NEW at \in {"waiting", "active", "completed"}
    PROVE  LET rec == [record EXCEPT !.at = at]
           IN  rec \in JobRecords /\ HasAttempts(rec)
  BY DEF JobRecords, HasAttempts

-----------------------------------------------------------------------------
(* Steps *)

LEMMA RowsStep ==
    ASSUME SweepsInv, RowsTyped', UNCHANGED << task, job >>
    PROVE  SweepsInv'
  BY DEF SweepsInv, TasksTyped, JobInv

LEMMA HandlerStep ==
    ASSUME SweepsInv, NEW h \in Handlers, Keeps(h), RowsTyped', job' = job
    PROVE  SweepsInv'
  BY JobsKept DEF SweepsInv, Keeps

LEMMA TurnIsSnapshot ==
    ASSUME TasksTyped, NEW h \in Handlers, NEW s, Turn(h, s)
    PROVE  s \in Snapshots
  BY DEF TasksTyped, TaskRecords, Turn

\* A loop that reads its list.
LEMMA ListStep ==
    ASSUME SweepsInv, NEW h \in Handlers, NEW loop \in Loops,
           NEW j \in {task[h].job, NoJob},
           task' = [task EXCEPT ![h] = List(loop, j)],
           UNCHANGED << rows, faulty, job, faults >>
    PROVE  SweepsInv'
  <1>1. Keeps(h)
    BY ListKeeps DEF SweepsInv
  <1>2. RowsTyped'
    BY RowsKept DEF SweepsInv
  <1> QED BY <1>1, <1>2, HandlerStep

LEMMA BeginStep ==
    ASSUME SweepsInv, NEW h \in Handlers, Begin(h)
    PROVE  SweepsInv'
  <1>1. CASE StartSweep(h)
    BY <1>1, ListStep DEF StartSweep, Loops
  <1>2. CASE StartDiagnosing(h)
    BY <1>2, ListStep DEF StartDiagnosing, Loops
  <1>3. CASE StartVerifying(h)
    BY <1>3, ListStep DEF StartVerifying, Loops
  <1>4. CASE RequestBatch(h)
    <2>1. Keeps(h)
      BY <1>4, BatchStarts DEF RequestBatch, SweepsInv, Keeps
    <2>2. RowsTyped' /\ job' = job
      BY <1>4, RowsKept DEF RequestBatch, SweepsInv
    <2> QED BY <2>1, <2>2, HandlerStep
  <1>5. ASSUME NEW j \in Jobs, TakeJob(h, j)
        PROVE  SweepsInv'
    <2> DEFINE rec == [job[j] EXCEPT !.at = "active"]
    <2>1. /\ TasksTyped' /\ task'[h].job = j
          /\ \A g \in Handlers : g # h => task'[g] = task[g]
      BY <1>5, BatchStarts DEF TakeJob, SweepsInv
    <2>2. RowsTyped'
      BY <1>5, RowsKept DEF TakeJob, SweepsInv
    <2>3. \A g \in Handlers : task[g].job # j
      BY <1>5, SweepsAssumption DEF TakeJob, SweepsInv, JobInv
    <2>4. job[j] \in JobRecords /\ HasAttempts(job[j]) /\ job[j].at = "waiting"
      BY <1>5 DEF TakeJob, SweepsInv, JobInv
    <2>5. rec \in JobRecords /\ HasAttempts(rec) /\ rec.at = "active"
      BY <2>4, MovedRecord DEF JobRecords
    <2>6. job' = [job EXCEPT ![j] = rec]
      BY <1>5 DEF TakeJob, SweepsInv, JobInv
    <2> HIDE DEF rec
    <2>7. job' \in [Jobs -> JobRecords] /\ \A k \in Jobs : HasAttempts(job'[k])
      BY <2>5, <2>6 DEF SweepsInv, JobInv
    <2>8. job'[j] = rec /\ \A k \in Jobs : k # j => job'[k] = job[k]
      BY <2>6 DEF SweepsInv, JobInv
    <2>9. ASSUME NEW g \in Handlers, task'[g].job # NoJob
          PROVE  job'[task'[g].job].at = "active"
      <3>1. CASE g = h
        BY <3>1, <2>1, <2>5, <2>8
      <3>2. CASE g # h
        <4>1. task'[g] = task[g] /\ task[g].job # NoJob
          BY <2>1, <2>9, <3>2
        <4>2. task[g].job \in Jobs /\ task[g].job # j
          BY <2>3, <4>1, HeldJob
        <4>3. job[task[g].job].at = "active"
          BY <4>1 DEF SweepsInv, JobInv
        <4> QED BY <2>8, <4>1, <4>2, <4>3
      <3> QED BY <3>1, <3>2
    <2>10. ASSUME NEW g \in Handlers, NEW f \in Handlers, g # f,
                  task'[g].job # NoJob
           PROVE  task'[g].job # task'[f].job
      <3>1. CASE g = h
        BY <3>1, <2>1, <2>3, <2>10
      <3>2. CASE f = h
        BY <3>2, <2>1, <2>3, <2>10
      <3>3. CASE g # h /\ f # h
        BY <3>3, <2>1, <2>10 DEF SweepsInv, JobInv
      <3> QED BY <3>1, <3>2, <3>3
    <2> QED BY <2>1, <2>2, <2>7, <2>9, <2>10 DEF SweepsInv, JobInv
  <1> QED BY <1>1, <1>2, <1>3, <1>4, <1>5 DEF Begin

LEMMA ResumeKeeps ==
    ASSUME TasksTyped, NEW h \in Handlers, NEW s \in Snapshots,
           NEW stage \in Stages, NEW live,
           stage # "next" => live \in CaseStatuses,
           NEW action \in Actions \cup {"NONE"},
           Resume(h, s, stage, live, action)
    PROVE  Keeps(h)
  <1>1. CASE stage = "next"
    BY <1>1, DropKeeps DEF Resume
  <1>2. CASE stage # "next"
    BY <1>2, GotoKeeps DEF Resume
  <1> QED BY <1>1, <1>2

LEMMA StageIsOfCase ==
    ASSUME NEW live, NEW action
    PROVE  /\ StageOf(live, action) \in Stages
           /\ StageOf(live, action) # "next" => live \in CaseStatuses
  BY StatusGroups DEF StageOf, Stages

\* The actions of Work that leave the rows of the cases alone.
LEMMA QuietWork ==
    ASSUME SweepsInv, NEW h \in Handlers,
           RunCase(h) \/ ListBatch(h) \/ BatchNext(h) \/ EndLoop(h)
    PROVE  SweepsInv'
  <1>1. CASE ListBatch(h)
    BY <1>1, ListStep DEF ListBatch, Loops
  <1>2. CASE RunCase(h)
    <2>1. PICK s \in task[h].todo :
            /\ Turn(h, s)
            /\ IF Active(s.on) /\ s.on \in due /\ done[s.on] < Len(Script)
               THEN Goto(h, s, "execute", s.live, Script[done[s.on] + 1])
               ELSE Drop(h, s)
      BY <1>2 DEF RunCase
    <2>2. s \in Snapshots
      BY <2>1, TurnIsSnapshot DEF SweepsInv
    <2>3. ASSUME Drop(h, s) PROVE Keeps(h)
      BY <2>3, DropKeeps DEF SweepsInv
    <2>4. ASSUME done[s.on] < Len(Script),
                 Goto(h, s, "execute", s.live, Script[done[s.on] + 1])
          PROVE  Keeps(h)
      <3> DEFINE step == Script[done[s.on] + 1]
      <3>1. done[s.on] \in Nat
        BY <2>2 DEF SweepsInv, RowsTyped, Snapshots
      <3>2. step \in Actions
        BY <2>4, <3>1, ScriptIsSequence
      <3>3. s.live \in CaseStatuses /\ "execute" \in Stages
        BY <2>2 DEF Snapshots, Stages
      <3>4. Goto(h, s, "execute", s.live, step)
        BY <2>4
      <3> HIDE DEF step
      <3> QED BY <2>2, <3>2, <3>3, <3>4, GotoKeeps DEF SweepsInv
    <2>5. Keeps(h)
      BY <2>1, <2>3, <2>4
    <2>6. RowsTyped' /\ job' = job
      BY <1>2, RowsKept DEF RunCase, SweepsInv
    <2> QED BY <2>5, <2>6, HandlerStep
  <1>3. CASE BatchNext(h)
    <2>1. PICK s : Turn(h, s)
                   /\ Resume(h, s, StageOf(s.live, s.action), s.live, s.action)
      BY <1>3 DEF BatchNext
    <2>2. s \in Snapshots
      BY <2>1, TurnIsSnapshot DEF SweepsInv
    <2>3. s.live \in CaseStatuses /\ s.action \in Actions \cup {"NONE"}
      BY <2>2 DEF Snapshots
    <2>4. Keeps(h)
      BY <2>1, <2>2, <2>3, StageIsOfCase, ResumeKeeps DEF SweepsInv
    <2>5. RowsTyped' /\ job' = job
      BY <1>3, RowsKept DEF BatchNext, SweepsInv
    <2> QED BY <2>4, <2>5, HandlerStep
  <1>4. CASE EndLoop(h)
    <2>1. Keeps(h)
      BY <1>4, EndKeeps DEF EndLoop, SweepsInv
    <2>2. RowsTyped' /\ job' = job
      BY <1>4, RowsKept DEF EndLoop, SweepsInv
    <2> QED BY <2>1, <2>2, HandlerStep
  <1> QED BY <1>1, <1>2, <1>3, <1>4

\* The turns that work on the case: whatever becomes of it, it stays a case, its
\* sequence does not run past its end, and the list goes on from what the turn saw.
LEMMA TurnStep ==
    ASSUME SweepsInv, NEW h \in Handlers,
           \/ \E c \in Cases, effective \in Actions : ExecuteStep(h, c, effective)
           \/ DiagnoseNext(h) \/ VerifyNext(h) \/ BatchVerify(h)
    PROVE  SweepsInv'
  <1>1. ASSUME NEW c \in Cases, NEW effective \in Actions,
               ExecuteStep(h, c, effective)
        PROVE  SweepsInv'
    <2>1. PICK s : /\ Turn(h, s)
                   /\ IF Throws(c, effective)
                      THEN End(h) /\ UNCHANGED rows
                      ELSE Drop(h, s) /\ Executed(c, effective)
      BY <1>1 DEF ExecuteStep
    <2>2. UNCHANGED << faulty, job, faults >>
      BY <1>1 DEF ExecuteStep
    <2>3. Keeps(h)
      BY <2>1, EndKeeps, DropKeeps DEF SweepsInv
    <2>4. RowsTyped'
      BY <2>1, <2>2, RowsKept, ExecutedTyped DEF SweepsInv
    <2> QED BY <2>2, <2>3, <2>4, HandlerStep
  <1>2. CASE DiagnoseNext(h)
    <2>1. PICK s : /\ Turn(h, s) /\ Drop(h, s)
                   /\ IF DiagnosisThrows(s.on) THEN UNCHANGED rows
                                               ELSE Diagnosed(s.on)
      BY <1>2 DEF DiagnoseNext
    <2>2. UNCHANGED << faulty, job, faults >>
      BY <1>2 DEF DiagnoseNext
    <2>3. s.on \in Cases
      BY <2>1, TurnIsSnapshot DEF SweepsInv, Snapshots
    <2>4. Keeps(h)
      BY <2>1, DropKeeps DEF SweepsInv
    <2>5. RowsTyped'
      BY <2>1, <2>2, <2>3, RowsKept, DiagnosedTyped DEF SweepsInv
    <2> QED BY <2>2, <2>4, <2>5, HandlerStep
  <1>3. CASE VerifyNext(h) \/ BatchVerify(h)
    <2>1. PICK s : Turn(h, s) /\ Drop(h, s) /\ Rolled(s.on)
      BY <1>3 DEF VerifyNext, BatchVerify
    <2>2. UNCHANGED << faulty, job, faults >>
      BY <1>3 DEF VerifyNext, BatchVerify
    <2>3. s.on \in Cases
      BY <2>1, TurnIsSnapshot DEF SweepsInv, Snapshots
    <2>4. Keeps(h)
      BY <2>1, DropKeeps DEF SweepsInv
    <2>5. RowsTyped'
      BY <2>1, <2>2, <2>3, RolledTyped DEF SweepsInv
    <2> QED BY <2>2, <2>4, <2>5, HandlerStep
  <1> QED BY <1>1, <1>2, <1>3

LEMMA BatchTurnStep ==
    ASSUME SweepsInv, NEW h \in Handlers, BatchDiagnose(h) \/ BatchExecute(h)
    PROVE  SweepsInv'
  <1>1. CASE BatchDiagnose(h)
    <2>1. PICK s :
            /\ Turn(h, s)
            /\ IF DiagnosisThrows(s.on)
               THEN Drop(h, s) /\ UNCHANGED rows
               ELSE /\ Diagnosed(s.on)
                    /\ Resume(h, s, StageOf(status'[s.on], decision'[s.on]),
                              status'[s.on], decision'[s.on])
      BY <1>1 DEF BatchDiagnose
    <2>2. UNCHANGED << faulty, job, faults >>
      BY <1>1 DEF BatchDiagnose
    <2>3. s \in Snapshots /\ s.on \in Cases
      BY <2>1, TurnIsSnapshot DEF SweepsInv, Snapshots
    <2>4. RowsTyped'
      BY <2>1, <2>2, <2>3, RowsKept, DiagnosedTyped DEF SweepsInv
    <2>5. decision'[s.on] \in Actions \cup {"NONE"}
      BY <2>3, <2>4 DEF RowsTyped
    <2>6. Keeps(h)
      BY <2>1, <2>3, <2>5, StageIsOfCase, DropKeeps, ResumeKeeps DEF SweepsInv
    <2> QED BY <2>2, <2>4, <2>6, HandlerStep
  <1>2. CASE BatchExecute(h)
    <2>1. PICK s, effective :
            /\ Turn(h, s)
            /\ IF Throws(s.on, effective)
               THEN Drop(h, s) /\ UNCHANGED rows
               ELSE /\ Executed(s.on, effective)
                    /\ IF status'[s.on] \in VerifiableStatuses
                       THEN Goto(h, s, "verify", status'[s.on], s.action)
                       ELSE Drop(h, s)
      BY <1>2 DEF BatchExecute
    <2>2. UNCHANGED << faulty, job, faults >>
      BY <1>2 DEF BatchExecute
    <2>3. s \in Snapshots /\ s.on \in Cases /\ s.action \in Actions \cup {"NONE"}
      BY <2>1, TurnIsSnapshot DEF SweepsInv, Snapshots
    <2>4. RowsTyped'
      BY <2>1, <2>2, <2>3, RowsKept, ExecutedTyped DEF SweepsInv
    <2>5. ASSUME Drop(h, s) PROVE Keeps(h)
      BY <2>5, DropKeeps DEF SweepsInv
    <2>6. ASSUME status'[s.on] \in VerifiableStatuses,
                 Goto(h, s, "verify", status'[s.on], s.action)
          PROVE  Keeps(h)
      <3>1. status'[s.on] \in CaseStatuses /\ "verify" \in Stages
        BY <2>6, StatusGroups DEF Stages
      <3> QED BY <2>3, <2>6, <3>1, GotoKeeps DEF SweepsInv
    <2>7. Keeps(h)
      BY <2>1, <2>5, <2>6
    <2> QED BY <2>2, <2>4, <2>7, HandlerStep
  <1> QED BY <1>1, <1>2

\* The queue's steps, with those of the handlers that end a batch.
LEMMA EndBatchStep ==
    ASSUME SweepsInv, NEW h \in Handlers,
           EndBatch(h) \/ BatchThrows(h) \/ Crash(h)
    PROVE  SweepsInv'
  <1> DEFINE j == task[h].job
  <1>1. CASE EndBatch(h)
    <2> DEFINE rec == [job[j] EXCEPT !.at = "completed"]
    <2>1. RowsTyped' /\ End(h)
      BY <1>1, RowsKept DEF EndBatch, SweepsInv
    <2>2. j # NoJob => rec \in JobRecords /\ HasAttempts(rec)
      BY HeldJob, MovedRecord DEF HasAttempts
    <2>3. job' = IF j = NoJob THEN job ELSE [job EXCEPT ![j] = rec]
      BY <1>1, HeldJob DEF EndBatch, SweepsInv, JobInv
    <2> HIDE DEF rec
    <2> QED BY <2>1, <2>2, <2>3, JobGivenUp DEF SweepsInv
  <1>2. CASE BatchThrows(h)
    <2> DEFINE rec == Failed(job[j])
    <2>1. RowsTyped' /\ End(h)
      BY <1>2, RowsKept DEF BatchThrows, SweepsInv
    <2>2. j # NoJob => rec \in JobRecords /\ HasAttempts(rec)
      BY HeldJob, FailedRecord
    <2>3. job' = IF j = NoJob THEN job ELSE [job EXCEPT ![j] = rec]
      BY <1>2, HeldJob DEF BatchThrows, SweepsInv, JobInv
    <2> HIDE DEF rec
    <2> QED BY <2>1, <2>2, <2>3, JobGivenUp DEF SweepsInv
  <1>3. CASE Crash(h)
    <2> DEFINE rec == [job[j] EXCEPT !.at = "waiting"]
    <2>1. End(h) /\ UNCHANGED << rows, faulty >> /\ faults < MaxFaults
          /\ faults' = faults + 1
      BY <1>3 DEF Crash
    <2>2. faults' \in 0 .. MaxFaults
      BY <2>1, SweepsAssumption DEF SweepsInv, RowsTyped
    <2>3. RowsTyped'
      BY <2>1, <2>2 DEF SweepsInv, RowsTyped, rows
    <2>4. j # NoJob => rec \in JobRecords /\ HasAttempts(rec)
      BY HeldJob, MovedRecord DEF HasAttempts
    <2>5. job' = IF j = NoJob THEN job ELSE [job EXCEPT ![j] = rec]
      BY <1>3, HeldJob DEF Crash, SweepsInv, JobInv
    <2> HIDE DEF rec
    <2> QED BY <2>1, <2>3, <2>4, <2>5, JobGivenUp DEF SweepsInv
  <1> QED BY <1>1, <1>2, <1>3

LEMMA QueueStep ==
    ASSUME SweepsInv, NEW j \in Jobs, Enqueue(j) \/ BackOffEnds(j)
    PROVE  SweepsInv'
  <1> DEFINE rec == [job[j] EXCEPT !.at = "waiting"]
  <1>1. job[j].at \in {"none", "delayed"} /\ task' = task /\ RowsTyped'
    BY RowsKept DEF Enqueue, BackOffEnds, SweepsInv
  <1>2. job[j] \in JobRecords /\ HasAttempts(job[j])
    BY DEF SweepsInv, JobInv
  <1>3. rec \in JobRecords /\ HasAttempts(rec)
    BY <1>1, <1>2, MovedRecord
  <1>4. job' = [job EXCEPT ![j] = rec]
    BY DEF Enqueue, BackOffEnds, SweepsInv, JobInv
  <1> HIDE DEF rec
  <1>5. \A h \in Handlers : task[h].job # j
    BY <1>1, SweepsAssumption DEF SweepsInv, JobInv
  <1>6. JobInv'
    BY <1>1, <1>3, <1>4, <1>5, QueueMoves DEF SweepsInv
  <1> QED BY <1>1, <1>6 DEF SweepsInv, TasksTyped

\* What happens to cases outside the loops.
LEMMA CaseStep ==
    ASSUME SweepsInv, NEW c \in Cases,
           \/ Arrive(c) \/ Pay(c) \/ HandOver(c) \/ FallDue(c)
           \/ \E h \in Handlers : Simulate(h, c)
    PROVE  SweepsInv'
  <1>1. UNCHANGED << task, job, faulty, faults >>
    BY DEF Arrive, Pay, HandOver, FallDue, Simulate
  <1>2. CASE Arrive(c) \/ \E h \in Handlers : Simulate(h, c)
    BY <1>1, <1>2, CreatedTyped, RowsStep DEF Arrive, Simulate, SweepsInv
  <1>3. CASE Pay(c) \/ HandOver(c)
    BY <1>1, <1>3, StatusTyped, StatusGroups, RowsStep
       DEF Pay, HandOver, SweepsInv
  <1>4. CASE FallDue(c)
    <2>1. RowsTyped'
      BY <1>1, <1>4 DEF FallDue, SweepsInv, RowsTyped
    <2> QED BY <1>1, <2>1, RowsStep
  <1> QED BY <1>2, <1>3, <1>4

LEMMA SweepsInit == Init => SweepsInv
  <1> SUFFICES ASSUME Init PROVE SweepsInv
    OBVIOUS
  <1>1. RowsTyped
    <2>1. 0 \in 0 .. Len(Script) /\ 0 \in 0 .. MaxFaults
      BY ScriptIsSequence, SweepsAssumption
    <2> QED BY <2>1 DEF Init, RowsTyped
  <1>2. TasksTyped
    BY IdleIsTask DEF Init, TasksTyped
  <1>3. JobInv
    <2>1. 0 \in 0 .. MaxAttempts /\ 0 < MaxAttempts
      BY SweepsAssumption
    <2>2. \A h \in Handlers : task[h].job = NoJob
      BY IdleIsTask DEF Init
    <2> QED BY <2>1, <2>2 DEF Init, JobInv, JobRecords, HasAttempts
  <1> QED BY <1>1, <1>2, <1>3 DEF SweepsInv

LEMMA SweepsNext == SweepsInv /\ [Next]_vars => SweepsInv'
  <1> SUFFICES ASSUME SweepsInv, [Next]_vars PROVE SweepsInv'
    OBVIOUS
  <1>1. ASSUME NEW h \in Handlers, Begin(h) PROVE SweepsInv'
    BY <1>1, BeginStep
  <1>2. ASSUME NEW h \in Handlers, Work(h) PROVE SweepsInv'
    BY <1>2, QuietWork, TurnStep, BatchTurnStep, EndBatchStep DEF Work
  <1>3. ASSUME NEW h \in Handlers, BatchThrows(h) \/ Crash(h) PROVE SweepsInv'
    BY <1>3, EndBatchStep
  <1>4. ASSUME NEW j \in Jobs, Enqueue(j) \/ BackOffEnds(j) PROVE SweepsInv'
    BY <1>4, QueueStep
  <1>5. ASSUME NEW c \in Cases,
               \/ Arrive(c) \/ Pay(c) \/ HandOver(c) \/ FallDue(c)
               \/ \E h \in Handlers : Simulate(h, c)
        PROVE  SweepsInv'
    BY <1>5, CaseStep
  <1>6. CASE UNCHANGED vars
    BY <1>6, RowsKept, RowsStep DEF vars, SweepsInv
  <1> QED BY <1>1, <1>2, <1>3, <1>4, <1>5, <1>6 DEF Next

\* No loop and no case is ever in a state the code does not know, no sequence runs
\* past its last step whoever executes its cases meanwhile, and a batch job fails
\* MaxAttempts times at most: the queue never has it worked twice at once, so no two
\* failures are counted for one attempt.
THEOREM SweepsTyped == Spec => []TypeOK
  <1>1. SweepsInv => TypeOK
    BY DEF SweepsInv, RowsTyped, TasksTyped, JobInv, TaskRecords, JobRecords,
           Stages, TypeOK
  <1> QED BY <1>1, SweepsInit, SweepsNext, PTL DEF Spec
=============================================================================
