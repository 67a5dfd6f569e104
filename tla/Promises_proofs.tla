--------------------------- MODULE Promises_proofs ---------------------------
(***************************************************************************)
(* Promises to pay, for any cases, any number of overlapping calls, sweeps,*)
(* settlements and payments, any number of refreshes, nights and deaths:   *)
(* how many reminders one promise can bring, that none is escalated before *)
(* its reminder, and that a kept promise stays kept.                       *)
(***************************************************************************)
EXTENDS Promises, FiniteSetTheorems, TLAPS

TaskActions == Actions \cup {"CREATE", "UPDATE"}

TaskRecords ==
    [at : Steps, on : Cases \cup {NoCase}, for : Purposes, action : TaskActions,
     may : BOOLEAN]

\* The part of TypeOK about the handlers, and the rest of it.
TasksOK ==
    /\ task \in [Requests -> TaskRecords]
    /\ \A r \in Requests : task[r].at # "idle" => task[r].on \in Cases
    /\ \A r \in Requests : task[r].at = "idle" => task[r] = Idle

RowsOK ==
    /\ status \in [Cases -> CaseStatuses]
    /\ promise \in [Cases -> PromiseStatuses]
    /\ followUps \in [Cases -> Nat]
    /\ flagged \subseteq Cases

SentOK ==
    /\ early \in [Cases -> Nat] /\ missed \in [Cases -> Nat]
    /\ contacts \in [Cases -> 0 .. MaxContacts]
    /\ cooled \subseteq Cases

WorldOK ==
    /\ due \in [Cases -> {"later", "soon", "past"}]
    /\ records \in [Cases -> 0 .. MaxRecords]
    /\ consenting \subseteq Cases
    /\ inWindow \in BOOLEAN
    /\ nights \in 0 .. MaxNights /\ faults \in 0 .. MaxFaults

Typed == TasksOK /\ RowsOK /\ SentOK /\ WorldOK

\* A handler that reminded of a missed date and has yet to count it.
Reminding(r) ==
    /\ task[r].for = "missed" /\ task[r].action = "SEND_EMAIL"
    /\ task[r].at \in {"finish", "update", "followUp"}

\* What the places of a handler say of its purpose and action.
PlacesOK ==
    \A r \in Requests :
        /\ task[r].at \in {"keep", "break", "flag", "followUp"}
             => task[r].for # "request"
        /\ task[r].at = "contact" => task[r].action = "SEND_EMAIL"
        /\ task[r].at = "followUp" => Reminding(r)

\* Who works on a promise has read one; only a first promise was recorded once;
\* and of a promise recorded once, no follow-up is counted that was not sent.
RemindInv ==
    /\ \A c \in Cases : records[c] = 0 => promise[c] = "NONE"
    /\ \A c \in Cases : promise[c] = "NONE" => followUps[c] = 0
    /\ \A r \in Requests :
         \/ task[r].for # "request"
         \/ task[r].at = "commit" /\ task[r].may
         => promise[task[r].on] # "NONE"
    /\ \A r \in Requests :
         Reminding(r) /\ records[task[r].on] = 1 => missed[task[r].on] > 0
    /\ \A c \in Cases : followUps[c] > 0 /\ records[c] = 1 => missed[c] > 0

\* The handlers that may still send a reminder of the date of a promise, and those
\* that have and did not count it yet.
Sending(c) ==
    {r \in Requests :
        /\ task[r].on = c /\ task[r].for = "missed"
        /\ task[r].at \in {"execute", "evaluate", "load", "contact"}}

Uncounted(c) == {r \in Requests : task[r].on = c /\ Reminding(r)}

\* Until a follow-up is counted, every reminder sent has a handler that will count
\* it, or had one that died; from then on none starts, and each handler that was
\* on its way counts as if it had sent.
PacedInv ==
    \A c \in Cases :
        IF followUps[c] = 0
        THEN missed[c] =< Cardinality(Uncounted(c)) + faults
        ELSE missed[c] + Cardinality(Sending(c)) =< Cardinality(Requests) + faults

-----------------------------------------------------------------------------
(* Type correctness: what a handler keeps between two calls *)

LEMMA TypedImplies == Typed => TypeOK
  BY DEF Typed, TasksOK, TaskRecords, TaskActions, RowsOK, SentOK, WorldOK, TypeOK,
         At

LEMMA IdleOK ==
    /\ Idle \in TaskRecords /\ Idle.at = "idle" /\ Idle.on = NoCase
    /\ Idle.for = "request" /\ Idle.action = "NO_ACTION" /\ Idle.may = FALSE
  BY DEF Idle, TaskRecords, Steps, Purposes, TaskActions, Actions, ExemptActions

LEMMA InitTyped == Init => Typed
  <1> SUFFICES ASSUME Init PROVE Typed
    OBVIOUS
  <1>1. TasksOK
    BY IdleOK DEF Init, TasksOK
  <1>2. RowsOK /\ SentOK
    BY PromisesAssumption
       DEF Init, RowsOK, SentOK, CaseStatuses, ActiveStatuses, PromiseStatuses
  <1>3. WorldOK
    BY PromisesAssumption DEF Init, WorldOK
  <1> QED BY <1>1, <1>2, <1>3 DEF Typed

\* A handler's record replaced by a well-formed one.
LEMMA TaskStep ==
    ASSUME TasksOK, NEW r \in Requests, NEW rec \in TaskRecords,
           rec.at # "idle" => rec.on \in Cases, rec.at = "idle" => rec = Idle,
           task' = [task EXCEPT ![r] = rec]
    PROVE  /\ TasksOK' /\ task'[r] = rec
           /\ \A q \in Requests : q # r => task'[q] = task[q]
  BY DEF TasksOK

\* One handler moves on from one call to the next, on the same case and for the
\* same purpose.
Moves(r, from, to) ==
    /\ task[r].at = from /\ task'[r].at = to
    /\ task'[r].on = task[r].on /\ task'[r].for = task[r].for

\* Only this handler moves.
Alone(r) ==
    /\ TasksOK'
    /\ \A q \in Requests : q # r => task'[q] = task[q]

LEMMA GotoStep ==
    ASSUME TasksOK, NEW r \in Requests, task[r].at # "idle",
           NEW step \in Steps \ {"idle"}, Goto(r, step)
    PROVE  /\ Alone(r) /\ Moves(r, task[r].at, step)
           /\ task'[r].action = task[r].action /\ task'[r].may = task[r].may
  <1> DEFINE rec == [task[r] EXCEPT !.at = step]
  <1>1. task[r] \in TaskRecords /\ task[r].on \in Cases
    BY DEF TasksOK
  <1>2. /\ rec \in TaskRecords /\ rec.at = step /\ rec.on = task[r].on
        /\ rec.for = task[r].for /\ rec.action = task[r].action
        /\ rec.may = task[r].may
    BY <1>1 DEF TaskRecords
  <1>3. task' = [task EXCEPT ![r] = rec]
    BY DEF Goto
  <1> HIDE DEF rec
  <1> QED BY <1>1, <1>2, <1>3, TaskStep DEF Alone, Moves

LEMMA DoneStep ==
    ASSUME TasksOK, NEW r \in Requests, Done(r)
    PROVE  Alone(r) /\ task'[r] = Idle
  BY IdleOK, TaskStep DEF Done, Alone

LEMMA StartStep ==
    ASSUME TasksOK, NEW r \in Requests, NEW c \in Cases,
           NEW step \in Steps \ {"idle"}, NEW for \in Purposes,
           NEW action \in TaskActions, Start(r, c, step, for, action)
    PROVE  /\ Alone(r) /\ task[r] = Idle
           /\ task'[r].at = step /\ task'[r].on = c /\ task'[r].for = for
           /\ task'[r].action = action /\ ~task'[r].may
  <1> DEFINE rec == [Idle EXCEPT !.at = step, !.on = c, !.for = for,
                                 !.action = action]
  <1>1. /\ rec \in TaskRecords /\ rec.at = step /\ rec.on = c /\ rec.for = for
        /\ rec.action = action /\ ~rec.may
    BY IdleOK DEF Idle, TaskRecords
  <1>2. task' = [task EXCEPT ![r] = rec] /\ task[r] = Idle
    BY DEF Start, At, TasksOK
  <1> HIDE DEF rec
  <1> QED BY <1>1, <1>2, TaskStep DEF Alone

\* Where a running handler goes: it ends, or makes the next call of its purpose,
\* most with the action it already has.
Stays(r) == task'[r].action = task[r].action

Onward(r) ==
    \/ task'[r] = Idle
    \/ FindPromise(r) /\ Moves(r, "find", "upsert")
    \/ Moves(r, "upsert", "mark")
    \/ Keep(r) /\ Moves(r, "keep", "verify") /\ task[r].for = "settle"
    \/ Break(r) /\ Moves(r, "break", "execute") /\ task[r].for = "settle"
    \/ /\ Verify(r) /\ Moves(r, "verify", "commit")
       /\ status[task[r].on] \in VerifiableStatuses
       /\ task'[r].may => Open(task[r].on)
    \/ Execute(r) /\ Moves(r, "execute", "evaluate") /\ Active(task[r].on)
    \/ Evaluate(r) /\ Moves(r, "evaluate", "load")
    \/ /\ LoadCase(r) /\ Moves(r, "load", "contact") /\ Stays(r)
       /\ task[r].action = "SEND_EMAIL" /\ Active(task[r].on)
    \/ /\ LoadCase(r) /\ Moves(r, "load", "finish") /\ Stays(r)
       /\ task[r].action # "SEND_EMAIL" /\ Active(task[r].on)
    \/ CreateAttempt(r) /\ Moves(r, "contact", "finish") /\ Stays(r)
    \/ FinishLoad(r) /\ Moves(r, "finish", "update") /\ Stays(r)
    \/ /\ FinishUpdate(r) /\ Stays(r)
       /\ \E next \in {"flag", "followUp", "break"} :
            /\ next = AfterTool(task[r].for, task[r].action)
            /\ Moves(r, "update", next)

LEMMA OnwardOK ==
    ASSUME Typed, NEW r \in Requests, Continue(r) \/ Abort(r)
    PROVE  Alone(r) /\ Onward(r)
  <1>0. /\ TasksOK /\ task[r] \in TaskRecords
        /\ task[r].at # "idle" => task[r].on \in Cases
    BY DEF Typed, TasksOK
  <1>1. ASSUME Done(r)
        PROVE  Alone(r) /\ Onward(r)
    BY <1>0, <1>1, DoneStep DEF Onward
  <1>2. CASE FindPromise(r)
    <2> DEFINE found == IF promise[task[r].on] = "NONE" THEN "CREATE" ELSE "UPDATE"
               rec == [task[r] EXCEPT !.at = "upsert", !.action = found]
    <2>1. task' = [task EXCEPT ![r] = rec]
      BY <1>2 DEF FindPromise
    <2>2. found \in TaskActions
      BY DEF TaskActions
    <2>3. /\ rec \in TaskRecords /\ rec.at = "upsert" /\ rec.on = task[r].on
          /\ rec.for = task[r].for
      <3> HIDE DEF found
      <3> QED BY <1>0, <2>2 DEF TaskRecords, Steps
    <2>4. task[r].at = "find"
      BY <1>2 DEF FindPromise, At
    <2> HIDE DEF rec
    <2> QED BY <1>0, <1>2, <2>1, <2>3, <2>4, TaskStep DEF Alone, Onward, Moves
  <1>3. CASE UpsertPromise(r)
    <2>1. task[r].at = "upsert" /\ (Done(r) \/ Goto(r, "mark"))
      BY <1>3 DEF UpsertPromise, At
    <2> QED BY <1>0, <1>1, <2>1, GotoStep DEF Onward, Steps
  <1>4. CASE \/ MarkWaiting(r) \/ Flag(r) \/ FollowUp(r) \/ Commit(r) \/ Abort(r)
    BY <1>1, <1>4 DEF MarkWaiting, Flag, FollowUp, Commit, Abort
  <1>5. CASE Keep(r)
    BY <1>0, <1>1, <1>5, GotoStep DEF Keep, At, Onward, Steps
  <1>6. CASE Break(r)
    BY <1>0, <1>1, <1>6, GotoStep DEF Break, At, Onward, Steps
  <1>7. CASE Verify(r)
    <2>1. CASE status[task[r].on] \in VerifiableStatuses
      <3> DEFINE open == Open(task[r].on)
                 rec == [task[r] EXCEPT !.at = "commit", !.may = open]
      <3>1. task' = [task EXCEPT ![r] = rec] /\ task[r].at = "verify"
        BY <1>7, <2>1 DEF Verify, At
      <3>2. open \in BOOLEAN
        BY DEF Open
      <3>3. /\ rec \in TaskRecords /\ rec.at = "commit" /\ rec.on = task[r].on
            /\ rec.for = task[r].for /\ rec.may = open
        <4> HIDE DEF open
        <4> QED BY <1>0, <3>2 DEF TaskRecords, Steps
      <3> HIDE DEF rec
      <3> QED BY <1>0, <1>7, <2>1, <3>1, <3>3, TaskStep DEF Alone, Onward, Moves
    <2>2. CASE status[task[r].on] \notin VerifiableStatuses
      BY <1>1, <1>7, <2>2 DEF Verify
    <2> QED BY <2>1, <2>2
  <1>8. CASE Execute(r)
    BY <1>0, <1>1, <1>8, GotoStep DEF Execute, At, Onward, Steps
  <1>9. CASE Evaluate(r)
    <2> DEFINE effective == Effective(Context(task[r].on, task[r].action))
               rec == [task[r] EXCEPT !.at = "load", !.action = effective]
    <2>1. task[r].at = "evaluate" /\ (Done(r) \/ task' = [task EXCEPT ![r] = rec])
      BY <1>9 DEF Evaluate, At
    <2>2. effective \in TaskActions
      BY <1>0
         DEF Effective, Fallback, PaymentFallback, Context, TaskRecords,
             TaskActions, Actions, LinkActions, ContactActions, ExemptActions
    <2>3. /\ rec \in TaskRecords /\ rec.at = "load" /\ rec.on = task[r].on
          /\ rec.for = task[r].for
      <3> HIDE DEF effective
      <3> QED BY <1>0, <2>2 DEF TaskRecords, Steps
    <2> HIDE DEF rec
    <2> QED BY <1>0, <1>1, <1>9, <2>1, <2>3, TaskStep DEF Alone, Onward, Moves
  <1>10. CASE LoadCase(r)
    BY <1>0, <1>1, <1>10, GotoStep DEF LoadCase, At, Onward, Steps, Stays
  <1>11. CASE CreateAttempt(r)
    BY <1>0, <1>11, GotoStep DEF CreateAttempt, At, Onward, Steps, Stays
  <1>12. CASE FinishLoad(r)
    <2> DEFINE may == \/ task[r].action = "CREATE_ESCALATION"
                      \/ Active(task[r].on)
               rec == [task[r] EXCEPT !.at = "update", !.may = may]
    <2>1. task' = [task EXCEPT ![r] = rec] /\ task[r].at = "finish"
      BY <1>12 DEF FinishLoad, At
    <2>2. may \in BOOLEAN
      BY DEF Active
    <2>3. /\ rec \in TaskRecords /\ rec.at = "update" /\ rec.on = task[r].on
          /\ rec.for = task[r].for /\ rec.action = task[r].action
      <3> HIDE DEF may
      <3> QED BY <1>0, <2>2 DEF TaskRecords, Steps
    <2> HIDE DEF rec
    <2> QED BY <1>0, <1>12, <2>1, <2>3, TaskStep DEF Alone, Onward, Moves, Stays
  <1>13. CASE FinishUpdate(r)
    <2> DEFINE next == AfterTool(task[r].for, task[r].action)
    <2>1. task[r].at = "update"
      BY <1>13 DEF FinishUpdate, At
    <2>2. next \in {"flag", "followUp", "break", "idle"}
      BY DEF AfterTool
    <2>3. IF next = "idle" THEN Done(r) ELSE Goto(r, next)
      BY <1>13 DEF FinishUpdate
    <2>4. CASE next = "idle"
      BY <1>1, <2>3, <2>4
    <2>5. CASE next # "idle"
      <3>1. Goto(r, next)
        BY <2>3, <2>5
      <3>2. Alone(r) /\ Moves(r, "update", next) /\ Stays(r)
        BY <1>0, <2>1, <2>2, <2>5, <3>1, GotoStep DEF Steps, Stays
      <3> QED BY <1>13, <2>2, <2>5, <3>2 DEF Onward
    <2> QED BY <2>4, <2>5
  <1> QED
    BY <1>2, <1>3, <1>4, <1>5, <1>6, <1>7, <1>8, <1>9, <1>10, <1>11, <1>12, <1>13
       DEF Continue

\* How a handler starts.
Starts(r, c) ==
    /\ task[r] = Idle /\ task'[r].on = c
    /\ \/ task'[r].at = "find" /\ task'[r].for = "request" /\ Active(c)
       \/ ScanUpcoming(r, c) /\ task'[r].at = "execute" /\ task'[r].for = "early"
          /\ Active(c) /\ Open(c)
       \/ /\ ScanDue(r, c) /\ task'[r].at \in {"keep", "break"}
          /\ task'[r].for = "missed" /\ Open(c)
       \/ /\ ScanDue(r, c) /\ task'[r].at = "execute" /\ task'[r].for = "missed"
          /\ Open(c) /\ Active(c) /\ followUps[c] = 0
       \/ /\ ScanDue(r, c) /\ task'[r].at = "execute" /\ task'[r].for = "broken"
          /\ Open(c) /\ Active(c) /\ followUps[c] > 0
       \/ task'[r].at \in {"keep", "break"} /\ task'[r].for = "settle" /\ Open(c)
       \/ /\ task'[r].at = "verify" /\ task'[r].for = "request"
          /\ status[c] \in VerifiableStatuses
       \/ task'[r].at = "execute" /\ task'[r].for = "request" /\ Active(c)

LEMMA BeginOK ==
    ASSUME Typed, NEW r \in Requests, NEW c \in Cases, Begin(r, c)
    PROVE  Alone(r) /\ Starts(r, c)
  <1>0. TasksOK /\ (task[r].at = "idle" => task[r] = Idle)
    BY DEF Typed, TasksOK
  <1>a. ASSUME NEW step \in {"keep", "break", "execute", "verify"},
               NEW for \in Purposes, NEW action \in Actions,
               Start(r, c, step, for, action)
        PROVE  /\ Alone(r) /\ task[r] = Idle /\ task'[r].on = c
               /\ task'[r].at = step /\ task'[r].for = for
    BY <1>0, <1>a, StartStep DEF Steps, TaskActions
  <1>b. {"SEND_EMAIL", "CREATE_ESCALATION", "CLOSE_CASE", "NO_ACTION"} \subseteq Actions
    BY DEF Actions, ContactActions, ExemptActions
  <1>1. CASE BeginRecord(r, c)
    <2> DEFINE may == status[c] # "WAITING_CUSTOMER"
               rec == [Idle EXCEPT !.at = "find", !.on = c, !.may = may]
    <2>1. task' = [task EXCEPT ![r] = rec] /\ task[r] = Idle /\ Active(c)
      BY <1>0, <1>1 DEF BeginRecord, At
    <2>2. may \in BOOLEAN
      OBVIOUS
    <2>3. /\ rec \in TaskRecords /\ rec.at = "find" /\ rec.on = c
          /\ rec.for = "request"
      <3> HIDE DEF may
      <3> QED BY <2>2, IdleOK DEF Idle, TaskRecords, Steps
    <2> HIDE DEF rec
    <2> QED BY <1>0, <2>1, <2>3, TaskStep DEF Alone, Starts
  <1>2. CASE ScanUpcoming(r, c)
    BY <1>2, <1>a, <1>b DEF ScanUpcoming, Starts, Purposes
  <1>3. CASE ScanDue(r, c)
    BY <1>3, <1>a, <1>b DEF ScanDue, Starts, Purposes
  <1>4. ASSUME NEW outcome \in Outcomes, Settle(r, c, outcome)
        PROVE  Alone(r) /\ Starts(r, c)
    <2> DEFINE step == IF outcome = "SUCCESS" THEN "keep" ELSE "break"
               may == status[c] # "RECOVERED"
               rec == [Idle EXCEPT !.at = step, !.on = c, !.for = "settle",
                                   !.action = "CREATE_ESCALATION", !.may = may]
    <2>1. task' = [task EXCEPT ![r] = rec] /\ task[r] = Idle /\ Open(c)
      BY <1>0, <1>4 DEF Settle, At
    <2>2. may \in BOOLEAN /\ step \in {"keep", "break"}
      OBVIOUS
    <2>3. /\ rec \in TaskRecords /\ rec.at = step /\ rec.on = c
          /\ rec.for = "settle"
      <3> HIDE DEF may, step
      <3> QED BY <1>b, <2>2, IdleOK DEF Idle, TaskRecords, Steps, Purposes, TaskActions
    <2> HIDE DEF rec, step
    <2> QED BY <1>0, <2>1, <2>2, <2>3, TaskStep DEF Alone, Starts
  <1>5. CASE BeginPayment(r, c)
    BY <1>5, <1>a, <1>b DEF BeginPayment, Starts, Purposes
  <1>6. ASSUME NEW action \in Offered, BeginRequest(r, c, action)
        PROVE  Alone(r) /\ Starts(r, c)
    <2>1. action \in Actions
      BY <1>b, PromisesAssumption
    <2> QED BY <1>6, <1>a, <2>1 DEF BeginRequest, Starts, Purposes
  <1> QED BY <1>1, <1>2, <1>3, <1>4, <1>5, <1>6 DEF Begin

-----------------------------------------------------------------------------
(* Type correctness: the database and the world *)

LEMMA ContinueRows ==
    ASSUME Typed, NEW r \in Requests, Continue(r)
    PROVE  RowsOK' /\ SentOK' /\ WorldOK'
  <1> DEFINE c == task[r].on
  <1>0. /\ RowsOK /\ SentOK /\ WorldOK /\ task[r] \in TaskRecords
        /\ task[r].at # "idle" => c \in Cases
    BY DEF Typed, TasksOK
  <1>p. {"RECORDED", "FOLLOWED_UP", "FULFILLED", "BROKEN"} \subseteq PromiseStatuses
    BY DEF PromiseStatuses, OpenPromises
  <1>s. {"WAITING_CUSTOMER", "ESCALATED", "CLOSED_LOST", "RECOVERED"}
           \subseteq CaseStatuses
    BY DEF CaseStatuses, ActiveStatuses, TerminalStatuses
  <1>1. CASE UNCHANGED << rows, sent, world >>
    BY <1>0, <1>1 DEF rows, sent, world, RowsOK, SentOK, WorldOK
  <1>2. CASE UpsertPromise(r)
    <2>1. CASE UNCHANGED << rows, sent, world >>
      BY <1>1, <2>1
    <2>2. CASE ~UNCHANGED << rows, sent, world >>
      <3>1. /\ c \in Cases /\ records[c] < MaxRecords
            /\ promise' = [promise EXCEPT ![c] = "RECORDED"]
            /\ followUps' = [followUps EXCEPT ![c] = 0]
            /\ \E d \in {"later", "soon"} : due' = [due EXCEPT ![c] = d]
            /\ records' = [records EXCEPT ![c] = @ + 1]
            /\ early' = [early EXCEPT ![c] = 0]
            /\ missed' = [missed EXCEPT ![c] = 0]
            /\ UNCHANGED << status, flagged, contacts, cooled, consenting,
                            inWindow, nights, faults >>
        BY <1>0, <1>2, <2>2 DEF UpsertPromise, At
      <3>2. RowsOK'
        BY <1>0, <1>p, <3>1 DEF RowsOK
      <3>3. SentOK'
        BY <1>0, <3>1 DEF SentOK
      <3>4. records[c] + 1 \in 0 .. MaxRecords
        BY <1>0, <3>1, PromisesAssumption DEF WorldOK
      <3>5. WorldOK'
        BY <1>0, <3>1, <3>4 DEF WorldOK
      <3> QED BY <3>2, <3>3, <3>5
    <2> QED BY <2>1, <2>2
  <1>3. CASE MarkWaiting(r)
    <2>1. /\ status' \in {status, [status EXCEPT ![c] = "WAITING_CUSTOMER"]}
          /\ UNCHANGED << promise, followUps, flagged, sent, world >>
      BY <1>3 DEF MarkWaiting
    <2> QED BY <1>0, <1>s, <2>1 DEF sent, world, RowsOK, SentOK, WorldOK
  <1>4. CASE Flag(r)
    BY <1>0, <1>4 DEF Flag, At, sent, world, RowsOK, SentOK, WorldOK
  <1>5. CASE FollowUp(r)
    BY <1>0, <1>p, <1>5 DEF FollowUp, At, sent, world, RowsOK, SentOK, WorldOK
  <1>6. CASE Keep(r)
    BY <1>0, <1>p, <1>6 DEF Keep, At, sent, world, RowsOK, SentOK, WorldOK
  <1>7. CASE Break(r)
    BY <1>0, <1>p, <1>7 DEF Break, At, sent, world, RowsOK, SentOK, WorldOK
  <1>8. CASE Commit(r)
    BY <1>0, <1>p, <1>s, <1>8 DEF Commit, At, sent, world, RowsOK, SentOK, WorldOK
  <1>9. CASE CreateAttempt(r)
    <2>1. /\ c \in Cases /\ contacts[c] < MaxContacts
          /\ contacts' = [contacts EXCEPT ![c] = @ + 1]
          /\ cooled' = cooled \ {c}
          /\ early' \in {early, [early EXCEPT ![c] = @ + 1]}
          /\ missed' \in {missed, [missed EXCEPT ![c] = @ + 1]}
          /\ UNCHANGED << rows, world >>
      BY <1>0, <1>9 DEF CreateAttempt, At
    <2>2. contacts[c] + 1 \in 0 .. MaxContacts
      BY <1>0, <2>1, PromisesAssumption DEF SentOK
    <2>3. SentOK'
      BY <1>0, <2>1, <2>2 DEF SentOK
    <2>4. RowsOK' /\ WorldOK'
      BY <1>0, <2>1 DEF rows, world, RowsOK, WorldOK
    <2> QED BY <2>3, <2>4
  <1>10. CASE FinishUpdate(r)
    <2>1. /\ status' \in {status,
                          [status EXCEPT ![c] = StatusAfter(task[r].action)]}
          /\ UNCHANGED << promise, followUps, flagged, sent, world >>
      BY <1>10 DEF FinishUpdate
    <2>2. StatusAfter(task[r].action) \in CaseStatuses
      BY <1>s DEF StatusAfter
    <2> QED BY <1>0, <2>1, <2>2 DEF sent, world, RowsOK, SentOK, WorldOK
  <1> QED
    BY <1>1, <1>2, <1>3, <1>4, <1>5, <1>6, <1>7, <1>8, <1>9, <1>10
       DEF Continue, FindPromise, Verify, Execute, Evaluate, LoadCase, FinishLoad

LEMMA BeginKeeps ==
    ASSUME NEW r \in Requests, NEW c \in Cases, Begin(r, c)
    PROVE  UNCHANGED << rows, sent, world >>
  BY DEF Begin, BeginRecord, ScanUpcoming, ScanDue, Settle, BeginPayment,
         BeginRequest

\* The clocks and the customer's preference.
Outside ==
    \/ \E c \in Cases : Time(c) \/ CooldownPasses(c) \/ SetPreference(c)
    \/ Dawn \/ Dusk

LEMMA OutsideOK ==
    ASSUME Typed, Outside
    PROVE  SentOK' /\ WorldOK'
  <1>0. SentOK /\ WorldOK
    BY DEF Typed
  <1>1. ASSUME NEW c \in Cases, Time(c)
        PROVE  SentOK' /\ WorldOK'
    <2>1. /\ \E d \in {"soon", "past"} : due' = [due EXCEPT ![c] = d]
          /\ UNCHANGED << sent, records, consenting, inWindow, nights, faults >>
      BY <1>1 DEF Time
    <2> QED BY <1>0, <2>1 DEF sent, SentOK, WorldOK
  <1>2. ASSUME NEW c \in Cases, CooldownPasses(c)
        PROVE  SentOK' /\ WorldOK'
    BY <1>0, <1>2 DEF CooldownPasses, world, SentOK, WorldOK
  <1>3. ASSUME NEW c \in Cases, SetPreference(c)
        PROVE  SentOK' /\ WorldOK'
    BY <1>0, <1>3 DEF SetPreference, sent, SentOK, WorldOK
  <1>4. CASE Dawn
    BY <1>0, <1>4 DEF Dawn, sent, SentOK, WorldOK
  <1>5. CASE Dusk
    <2>1. nights' \in 0 .. MaxNights
      BY <1>0, <1>5, PromisesAssumption DEF Dusk, WorldOK
    <2> QED BY <1>0, <1>5, <2>1 DEF Dusk, sent, SentOK, WorldOK
  <1> QED BY <1>1, <1>2, <1>3, <1>4, <1>5 DEF Outside

\* What no clock, preference or rest of the system touches.
LEMMA OutsideKeeps ==
    ASSUME Outside \/ UNCHANGED vars
    PROVE  UNCHANGED << rows, early, missed, contacts, records, faults, task >>
  BY DEF Outside, Time, CooldownPasses, SetPreference, Dawn, Dusk, vars, sent, world

LEMMA AbortKeeps ==
    ASSUME Typed, NEW r \in Requests, Abort(r)
    PROVE  /\ UNCHANGED << rows, sent, due, records, consenting, inWindow, nights >>
           /\ faults' = faults + 1 /\ WorldOK' /\ faults \in Nat
  <1>1. WorldOK /\ faults < MaxFaults
    BY DEF Typed, Abort
  <1>2. faults + 1 \in 0 .. MaxFaults /\ faults \in Nat
    BY <1>1, PromisesAssumption DEF WorldOK
  <1> QED BY <1>1, <1>2 DEF Abort, WorldOK

LEMMA TypedStep == Typed /\ [Next]_vars => Typed'
  <1> SUFFICES ASSUME Typed, [Next]_vars PROVE Typed'
    OBVIOUS
  <1>0. TasksOK /\ RowsOK /\ SentOK /\ WorldOK
    BY DEF Typed
  <1>1. ASSUME NEW r \in Requests, Continue(r)
        PROVE  Typed'
    BY <1>1, ContinueRows, OnwardOK DEF Typed, Alone
  <1>2. ASSUME NEW r \in Requests, Abort(r)
        PROVE  Typed'
    <2>1. TasksOK' /\ WorldOK'
      BY <1>2, OnwardOK, AbortKeeps DEF Alone
    <2>2. RowsOK' /\ SentOK'
      BY <1>0, <1>2, AbortKeeps DEF RowsOK, SentOK, rows, sent
    <2> QED BY <2>1, <2>2 DEF Typed
  <1>3. ASSUME NEW r \in Requests, NEW c \in Cases, Begin(r, c)
        PROVE  Typed'
    <2>1. TasksOK'
      BY <1>3, BeginOK DEF Alone
    <2>2. UNCHANGED << rows, sent, world >>
      BY <1>3, BeginKeeps
    <2> QED
      BY <1>0, <2>1, <2>2 DEF Typed, RowsOK, SentOK, WorldOK, rows, sent, world
  <1>4. CASE Outside
    <2>1. UNCHANGED << rows, task >>
      BY <1>4, OutsideKeeps
    <2>2. TasksOK' /\ RowsOK'
      BY <1>0, <2>1 DEF rows, TasksOK, RowsOK
    <2> QED BY <1>4, <2>2, OutsideOK DEF Typed
  <1>5. CASE UNCHANGED vars
    BY <1>0, <1>5
       DEF Typed, TasksOK, RowsOK, SentOK, WorldOK, vars, rows, sent, world
  <1> QED BY <1>1, <1>2, <1>3, <1>4, <1>5 DEF Next, Outside

LEMMA TypedHolds == Spec => []Typed
  BY InitTyped, TypedStep, PTL DEF Spec

\* Every row and every handler stays one the schema and the services know, and
\* a handler that runs is at work on a case.
THEOREM PromisesTyped == Spec => []TypeOK
  BY TypedHolds, TypedImplies, PTL

-----------------------------------------------------------------------------
(* A kept promise *)

\* A handler writes only the rows of its own case.
LEMMA OwnCase ==
    ASSUME Typed, NEW r \in Requests, Continue(r), NEW c \in Cases, task[r].on # c
    PROVE  /\ status'[c] = status[c] /\ promise'[c] = promise[c]
           /\ followUps'[c] = followUps[c] /\ missed'[c] = missed[c]
           /\ records'[c] = records[c]
  <1>1. RowsOK /\ SentOK /\ WorldOK
    BY DEF Typed
  <1>2. CASE UpsertPromise(r) \/ MarkWaiting(r) \/ FollowUp(r) \/ FinishUpdate(r)
    BY <1>1, <1>2
       DEF UpsertPromise, MarkWaiting, FollowUp, FinishUpdate, RowsOK, SentOK,
           WorldOK, rows, sent, world
  <1>3. CASE Keep(r) \/ Break(r) \/ Commit(r) \/ CreateAttempt(r)
    BY <1>1, <1>3
       DEF Keep, Break, Commit, CreateAttempt, RowsOK, SentOK, WorldOK, rows, sent,
           world
  <1>4. CASE \/ FindPromise(r) \/ Flag(r) \/ Verify(r) \/ Execute(r) \/ Evaluate(r)
             \/ LoadCase(r) \/ FinishLoad(r)
    BY <1>4
       DEF FindPromise, Flag, Verify, Execute, Evaluate, LoadCase, FinishLoad, rows,
           sent, world
  <1> QED BY <1>2, <1>3, <1>4 DEF Continue

LEMMA KeptStep ==
    ASSUME Typed, [Next]_vars, NEW c \in Cases, Kept(c)
    PROVE  Kept(c)'
  <1>1. /\ promise[c] = "FULFILLED" /\ status[c] = "RECOVERED"
        /\ \A r \in Requests :
             task[r].on = c => task[r].at \in {"execute", "evaluate", "load"}
    BY DEF Kept, Busy
  <1>2. ~Active(c) /\ ~Open(c) /\ status[c] \notin VerifiableStatuses
    BY <1>1 DEF Active, Open, ActiveStatuses, OpenPromises, VerifiableStatuses
  <1>3. SUFFICES /\ promise'[c] = promise[c] /\ status'[c] = status[c]
                 /\ \A q \in Requests :
                      task'[q].on = c
                        => task'[q].at \in {"execute", "evaluate", "load"}
    BY <1>1 DEF Kept, Busy
  <1>4. ASSUME NEW r \in Requests, Continue(r)
        PROVE  <1>3!1
    <2>1. Alone(r) /\ Onward(r)
      BY <1>4, OnwardOK
    <2>2. Idle.on # c
      BY IdleOK, PromisesAssumption
    <2>3. CASE task[r].on # c
      <3>1. task'[r].on # c
        BY <2>1, <2>2, <2>3 DEF Onward, Moves
      <3> QED BY <1>1, <1>4, <2>1, <2>3, <3>1, OwnCase DEF Alone
    <2>4. CASE task[r].on = c
      <3>1. task[r].at \in {"execute", "evaluate", "load"}
        BY <1>1, <2>4
      <3>2. UNCHANGED rows
        BY <1>4, <3>1
           DEF Continue, FindPromise, UpsertPromise, MarkWaiting, Flag, FollowUp,
               Keep, Break, Verify, Commit, Execute, Evaluate, LoadCase,
               CreateAttempt, FinishLoad, FinishUpdate, At
      <3>3. task'[r] = Idle \/ Moves(r, "evaluate", "load")
        BY <1>2, <2>1, <2>4, <3>1 DEF Onward, Moves
      <3>4. task'[r].on = c => task'[r].at = "load"
        BY <2>2, <3>3 DEF Moves
      <3> QED BY <1>1, <2>1, <3>2, <3>4 DEF Alone, rows
    <2> QED BY <2>3, <2>4
  <1>5. ASSUME NEW r \in Requests, Abort(r)
        PROVE  <1>3!1
    <2>1. Alone(r) /\ task'[r] = Idle /\ UNCHANGED rows
      BY <1>5, OnwardOK, DoneStep DEF Abort, Typed
    <2>2. Idle.on # c
      BY IdleOK, PromisesAssumption
    <2> QED BY <1>1, <2>1, <2>2 DEF Alone, rows
  <1>6. ASSUME NEW r \in Requests, NEW d \in Cases, Begin(r, d)
        PROVE  <1>3!1
    <2>1. Alone(r) /\ Starts(r, d) /\ UNCHANGED rows
      BY <1>6, BeginOK, BeginKeeps
    <2>2. d # c
      BY <1>2, <2>1 DEF Starts
    <2>3. task'[r].on = d
      BY <2>1 DEF Starts
    <2> QED BY <1>1, <2>1, <2>2, <2>3 DEF Alone, rows
  <1>7. CASE Outside \/ UNCHANGED vars
    BY <1>1, <1>7, OutsideKeeps DEF rows
  <1> QED BY <1>4, <1>5, <1>6, <1>7 DEF Next, Outside

\* Once the payment of a kept promise is verified and the handlers that had read
\* it before are gone, nothing reopens it, breaks it or reopens its case.
THEOREM KeptPromisesStayKept == Spec => KeptStaysKept
  <1>1. Typed /\ [Next]_vars => [\A c \in Cases : Kept(c) => Kept(c)']_vars
    BY KeptStep
  <1> QED BY <1>1, TypedHolds, PTL DEF Spec, KeptStaysKept

-----------------------------------------------------------------------------
(* Reminders come before escalation *)

\* Who is waiting to count a reminder was waiting before, or has just sent it.
LEMMA Reminds ==
    ASSUME Typed, NEW r \in Requests, Continue(r), Reminding(r)'
    PROVE  /\ task'[r].on = task[r].on
           /\ \/ Reminding(r) /\ ~UpsertPromise(r)
              \/ CreateAttempt(r) /\ task[r].for = "missed"
  <1>1. Onward(r)
    BY OnwardOK
  <1>2. task'[r] # Idle
    BY IdleOK DEF Reminding
  <1>3. task'[r].at \in {"finish", "update", "followUp"}
    BY DEF Reminding
  <1>4. CASE Moves(r, "contact", "finish") /\ CreateAttempt(r)
    BY <1>4 DEF Moves, Reminding
  <1>5. CASE Moves(r, "finish", "update") /\ Stays(r) /\ FinishLoad(r)
    BY <1>5 DEF Moves, Stays, Reminding, UpsertPromise, At
  <1>6. CASE \E next \in {"flag", "followUp", "break"} :
               Moves(r, "update", next) /\ Stays(r)
    BY <1>6 DEF Moves, Stays, Reminding, UpsertPromise, At
  <1> QED BY <1>1, <1>2, <1>3, <1>4, <1>5, <1>6 DEF Onward, Moves, Stays, Reminding

LEMMA PlacesStep == Typed /\ PlacesOK /\ [Next]_vars => PlacesOK'
  <1> SUFFICES ASSUME Typed, PlacesOK, [Next]_vars PROVE PlacesOK'
    OBVIOUS
  <1>1. ASSUME NEW r \in Requests, Continue(r) \/ Abort(r)
        PROVE  PlacesOK'
    <2>1. Alone(r) /\ Onward(r)
      BY <1>1, OnwardOK
    <2>2. /\ task'[r].at \in {"keep", "break", "flag", "followUp"}
               => task'[r].for # "request"
          /\ task'[r].at = "contact" => task'[r].action = "SEND_EMAIL"
          /\ task'[r].at = "followUp" => Reminding(r)'
      <3>1. CASE \E next \in {"flag", "followUp", "break"} :
                   /\ next = AfterTool(task[r].for, task[r].action)
                   /\ Moves(r, "update", next) /\ Stays(r)
        BY <3>1 DEF AfterTool, Moves, Stays, Reminding
      <3>2. CASE task'[r] = Idle
        BY <3>2, IdleOK
      <3> QED BY <2>1, <3>1, <3>2 DEF Onward, Moves, Stays
    <2> QED BY <2>1, <2>2 DEF Alone, PlacesOK, Reminding
  <1>2. ASSUME NEW r \in Requests, NEW c \in Cases, Begin(r, c)
        PROVE  PlacesOK'
    <2>1. Alone(r) /\ Starts(r, c)
      BY <1>2, BeginOK
    <2>2. /\ task'[r].at \in {"keep", "break"} => task'[r].for # "request"
          /\ task'[r].at \notin {"flag", "followUp", "contact"}
      BY <2>1 DEF Starts
    <2> QED BY <2>1, <2>2 DEF Alone, PlacesOK, Reminding
  <1>3. CASE Outside \/ UNCHANGED vars
    <2>1. UNCHANGED task
      BY <1>3, OutsideKeeps
    <2> QED BY <2>1 DEF PlacesOK, Reminding
  <1> QED BY <1>1, <1>2, <1>3 DEF Next, Outside

\* What a handler writes of the promise of its case and of the reminders sent.
Recorded(r, c) ==
    /\ UpsertPromise(r) /\ promise'[c] = "RECORDED"
    /\ records'[c] = records[c] + 1 /\ followUps'[c] = 0 /\ missed'[c] = 0

Worked(r, c) ==
    /\ records'[c] = records[c]
    /\ \/ promise'[c] = promise[c]
       \/ promise[c] # "NONE" /\ promise'[c] # "NONE"
    /\ \/ followUps'[c] = followUps[c]
       \/ FollowUp(r) /\ task[r].on = c /\ followUps'[c] = followUps[c] + 1
    /\ \/ missed'[c] = missed[c]
       \/ /\ CreateAttempt(r) /\ task[r].for = "missed" /\ task[r].on = c
          /\ missed'[c] = missed[c] + 1

LEMMA Writes ==
    ASSUME Typed, PlacesOK, RemindInv, NEW r \in Requests, Continue(r),
           NEW c \in Cases
    PROVE  Recorded(r, c) \/ Worked(r, c)
  <1>1. /\ RowsOK /\ SentOK /\ WorldOK
        /\ task[r].at # "idle" => task[r].on \in Cases
    BY DEF Typed, TasksOK
  <1>2. CASE task[r].on # c
    <2>1. /\ promise'[c] = promise[c] /\ followUps'[c] = followUps[c]
          /\ missed'[c] = missed[c] /\ records'[c] = records[c]
      BY <1>2, OwnCase
    <2> QED BY <2>1 DEF Worked
  <1>3. CASE task[r].on = c
    <2>1. CASE UpsertPromise(r)
      BY <1>1, <1>3, <2>1
         DEF UpsertPromise, Recorded, Worked, RowsOK, SentOK, WorldOK, rows, sent,
             world
    <2>2. CASE FollowUp(r) \/ Keep(r) \/ Break(r)
      <3>1. task[r].at \in {"followUp", "keep", "break"}
        BY <2>2 DEF FollowUp, Keep, Break, At
      <3>2. promise[c] # "NONE" /\ c \in Cases
        BY <1>3, <3>1 DEF PlacesOK, RemindInv
      <3>3. /\ UNCHANGED << sent, world >>
            /\ \E p \in {"FOLLOWED_UP", "FULFILLED", "BROKEN"} :
                 promise' = [promise EXCEPT ![c] = p]
            /\ \/ UNCHANGED followUps
               \/ FollowUp(r) /\ followUps' = [followUps EXCEPT ![c] = @ + 1]
        BY <1>3, <2>2 DEF FollowUp, Keep, Break
      <3>4. promise'[c] # "NONE"
        BY <1>1, <3>3 DEF RowsOK
      <3>5. records'[c] = records[c] /\ missed'[c] = missed[c]
        BY <3>3 DEF sent, world
      <3>6. \/ followUps'[c] = followUps[c]
            \/ FollowUp(r) /\ followUps'[c] = followUps[c] + 1
        BY <1>1, <3>3 DEF RowsOK
      <3> QED BY <1>3, <3>2, <3>4, <3>5, <3>6 DEF Worked
    <2>3. CASE Commit(r)
      <3>1. task[r].at = "commit"
        BY <2>3 DEF Commit, At
      <3>2. task[r].may => promise[c] # "NONE"
        BY <1>3, <3>1 DEF RemindInv
      <3>3. /\ UNCHANGED << followUps, sent, world >>
            /\ \/ UNCHANGED promise
               \/ task[r].may /\ promise' = [promise EXCEPT ![c] = "FULFILLED"]
        BY <1>3, <2>3 DEF Commit
      <3>4. \/ promise'[c] = promise[c]
            \/ promise[c] # "NONE" /\ promise'[c] # "NONE"
        BY <1>1, <3>2, <3>3 DEF RowsOK
      <3> QED BY <3>3, <3>4 DEF Worked, sent, world
    <2>4. CASE CreateAttempt(r)
      BY <1>1, <1>3, <2>4 DEF CreateAttempt, Worked, SentOK, rows, world
    <2>5. CASE \/ FindPromise(r) \/ MarkWaiting(r) \/ Flag(r) \/ Verify(r)
               \/ Execute(r) \/ Evaluate(r) \/ LoadCase(r) \/ FinishLoad(r)
               \/ FinishUpdate(r)
      BY <2>5
         DEF FindPromise, MarkWaiting, Flag, Verify, Execute, Evaluate, LoadCase,
             FinishLoad, FinishUpdate, Worked, rows, sent, world
    <2> QED BY <2>1, <2>2, <2>3, <2>4, <2>5 DEF Continue
  <1> QED BY <1>2, <1>3

LEMMA RemindContinue ==
    ASSUME Typed, PlacesOK, RemindInv, NEW r \in Requests, Continue(r)
    PROVE  RemindInv'
  <1>0. /\ followUps \in [Cases -> Nat] /\ missed \in [Cases -> Nat]
        /\ records \in [Cases -> Nat]
        /\ \A q \in Requests : task[q].at # "idle" => task[q].on \in Cases
        /\ \A q \in Requests : task[q].at = "idle" => task[q] = Idle
    BY PromisesAssumption DEF Typed, RowsOK, SentOK, WorldOK, TasksOK
  <1>1. Alone(r) /\ Onward(r)
    BY OnwardOK
  <1>2. \A c \in Cases : Recorded(r, c) \/ Worked(r, c)
    BY Writes
  <1>3. \A c \in Cases : promise[c] # "NONE" => promise'[c] # "NONE"
    BY <1>2 DEF Recorded, Worked
  <1>4. ASSUME NEW c \in Cases, records'[c] = 0
        PROVE  promise'[c] = "NONE"
    <2>1. Worked(r, c) /\ records[c] = 0
      BY <1>0, <1>2, <1>4 DEF Recorded, Worked
    <2> QED BY <2>1 DEF Worked, RemindInv
  <1>5. ASSUME NEW c \in Cases, promise'[c] = "NONE"
        PROVE  followUps'[c] = 0
    <2>1. promise[c] = "NONE" /\ (followUps'[c] = 0 \/ Worked(r, c))
      BY <1>2, <1>3, <1>5 DEF Recorded
    <2>2. ~(FollowUp(r) /\ task[r].on = c)
      BY <2>1 DEF FollowUp, At, PlacesOK, RemindInv
    <2> QED BY <2>1, <2>2 DEF Worked, RemindInv
  <1>6. ASSUME NEW q \in Requests,
               \/ task'[q].for # "request"
               \/ task'[q].at = "commit" /\ task'[q].may
        PROVE  promise'[task'[q].on] # "NONE"
    <2>1. CASE q # r
      <3>1. task'[q] = task[q] /\ promise[task[q].on] # "NONE"
        BY <1>1, <1>6, <2>1 DEF Alone, RemindInv
      <3>2. task[q].on \in Cases
        BY <1>0, <1>6, <3>1, IdleOK
      <3> QED BY <1>3, <3>1, <3>2
    <2>2. CASE q = r
      <3>1. task'[r] # Idle
        BY <1>6, <2>2, IdleOK
      <3>2. task'[r].on = task[r].on /\ task'[r].for = task[r].for
              /\ task[r].on \in Cases
        BY <1>0, <1>1, <3>1, IdleOK DEF Onward, Moves
      <3>3. task'[r].at = "commit" /\ task'[r].may => Open(task[r].on)
        BY <1>1, <3>1 DEF Onward, Moves
      <3>4. promise[task[r].on] # "NONE"
        BY <1>6, <2>2, <3>2, <3>3 DEF RemindInv, Open, OpenPromises
      <3> QED BY <1>3, <2>2, <3>2, <3>4
    <2> QED BY <2>1, <2>2
  <1>7. ASSUME NEW q \in Requests, Reminding(q)', records'[task'[q].on] = 1
        PROVE  missed'[task'[q].on] > 0
    <2> DEFINE c == task[q].on
    <2>1. /\ task'[q].on = c
          /\ \/ Reminding(q) /\ (q = r => ~UpsertPromise(r))
             \/ q = r /\ CreateAttempt(r) /\ task[r].for = "missed"
      BY <1>1, <1>7, Reminds DEF Alone, Reminding
    <2>2. c \in Cases
      BY <1>0, <2>1 DEF Reminding, CreateAttempt, At
    <2>3. CASE Reminding(q)
      <3>1. promise[c] # "NONE" /\ records[c] # 0
        BY <2>2, <2>3 DEF Reminding, RemindInv
      <3>2. Worked(r, c) /\ records[c] = 1
        BY <1>0, <1>2, <1>7, <2>1, <2>2, <3>1 DEF Recorded, Worked
      <3>3. missed[c] > 0
        BY <2>3, <3>2 DEF RemindInv
      <3> QED BY <1>0, <2>1, <2>2, <3>2, <3>3 DEF Worked
    <2>4. CASE q = r /\ CreateAttempt(r) /\ task[r].for = "missed"
      BY <1>0, <2>1, <2>2, <2>4 DEF CreateAttempt
    <2> QED BY <2>1, <2>3, <2>4
  <1>8. ASSUME NEW c \in Cases, followUps'[c] > 0, records'[c] = 1
        PROVE  missed'[c] > 0
    <2>1. Worked(r, c) /\ records[c] = 1
      BY <1>2, <1>8 DEF Recorded, Worked
    <2>2. missed[c] > 0
      <3>1. CASE FollowUp(r) /\ task[r].on = c
        BY <2>1, <3>1 DEF FollowUp, At, PlacesOK, RemindInv
      <3>2. CASE followUps'[c] = followUps[c]
        BY <1>8, <2>1, <3>2 DEF RemindInv
      <3> QED BY <2>1, <3>1, <3>2 DEF Worked
    <2> QED BY <1>0, <2>1, <2>2 DEF Worked
  <1> QED BY <1>4, <1>5, <1>6, <1>7, <1>8 DEF RemindInv

LEMMA RemindStep == Typed /\ PlacesOK /\ RemindInv /\ [Next]_vars => RemindInv'
  <1> SUFFICES ASSUME Typed, PlacesOK, RemindInv, [Next]_vars PROVE RemindInv'
    OBVIOUS
  <1>1. ASSUME NEW r \in Requests, Continue(r)
        PROVE  RemindInv'
    BY <1>1, RemindContinue
  <1>2. ASSUME NEW r \in Requests, Abort(r)
        PROVE  RemindInv'
    <2>1. Alone(r) /\ task'[r] = Idle
      BY <1>2, OnwardOK, DoneStep DEF Abort, Typed
    <2>2. UNCHANGED << promise, followUps, records, missed >>
      BY <1>2, AbortKeeps DEF rows, sent
    <2>3. ~Reminding(r)' /\ task'[r].for = "request" /\ task'[r].at # "commit"
      BY <2>1, IdleOK DEF Reminding
    <2> QED BY <2>1, <2>2, <2>3 DEF Alone, RemindInv, Reminding
  <1>3. ASSUME NEW r \in Requests, NEW c \in Cases, Begin(r, c)
        PROVE  RemindInv'
    <2>1. Alone(r) /\ Starts(r, c)
      BY <1>3, BeginOK
    <2>2. UNCHANGED << promise, followUps, records, missed >>
      BY <1>3, BeginKeeps DEF rows, sent, world
    <2>3. /\ ~Reminding(r)' /\ task'[r].at # "commit" /\ task'[r].on = c
          /\ task'[r].for # "request" => promise[c] # "NONE"
      BY <2>1 DEF Starts, Reminding, Open, OpenPromises
    <2> QED BY <2>1, <2>2, <2>3 DEF Alone, RemindInv, Reminding
  <1>4. CASE Outside \/ UNCHANGED vars
    <2>1. UNCHANGED << promise, followUps, records, missed, task >>
      BY <1>4, OutsideKeeps DEF rows
    <2> QED BY <2>1 DEF RemindInv, Reminding
  <1> QED BY <1>1, <1>2, <1>3, <1>4 DEF Next, Outside

LEMMA RemindInit == Init => PlacesOK /\ RemindInv
  BY IdleOK DEF Init, PlacesOK, RemindInv, Reminding

LEMMA RemindHolds == Spec => [](Typed /\ PlacesOK /\ RemindInv)
  BY InitTyped, TypedStep, RemindInit, PlacesStep, RemindStep, PTL DEF Spec

\* A sweep hands a promise that was never refreshed to a human only after a
\* reminder of its date has gone out.
THEOREM EscalationsFollowReminders == Spec => EscalatedAfterReminder
  <1>1. ASSUME Typed, RemindInv, NEW r \in Requests, NEW c \in Cases,
               ScanDue(r, c), task'[r].for = "broken", records[c] = 1
        PROVE  missed[c] > 0
    <2>1. Starts(r, c)
      BY <1>1, BeginOK DEF Begin
    <2>2. followUps[c] > 0
      BY <1>1, <2>1 DEF Starts, ScanUpcoming
    <2> QED BY <1>1, <2>2 DEF RemindInv
  <1>2. Typed /\ RemindInv /\ [Next]_vars
          => [\A r \in Requests, c \in Cases :
                ScanDue(r, c) /\ task'[r].for = "broken" /\ records[c] = 1
                  => missed[c] > 0]_vars
    BY <1>1
  <1> QED BY <1>2, RemindHolds, PTL DEF Spec, EscalatedAfterReminder

-----------------------------------------------------------------------------
(* How many reminders one date can bring *)

LEMMA Counting ==
    ASSUME NEW S \in SUBSET Requests, NEW T \in SUBSET S
    PROVE  /\ Cardinality(S) \in Nat /\ Cardinality(T) \in Nat
           /\ Cardinality(Requests) \in Nat
           /\ Cardinality(T) =< Cardinality(S)
           /\ Cardinality(S) =< Cardinality(Requests)
  <1>1. IsFiniteSet(S) /\ Cardinality(S) =< Cardinality(Requests)
    BY PromisesAssumption, FS_Subset
  <1>2. IsFiniteSet(T) /\ Cardinality(T) =< Cardinality(S)
    BY <1>1, FS_Subset
  <1> QED BY <1>1, <1>2, PromisesAssumption, FS_CardinalityType

\* A handler that leaves a set of them makes it count one less, and no more.
LEMMA Leaving ==
    ASSUME NEW S \in SUBSET Requests, NEW r \in S, NEW T \in SUBSET (S \ {r})
    PROVE  /\ Cardinality(T) + 1 =< Cardinality(S)
           /\ Cardinality(S \ {r}) + 1 = Cardinality(S)
  <1>1. IsFiniteSet(S) /\ Cardinality(S) \in Nat
    BY PromisesAssumption, FS_Subset, FS_CardinalityType
  <1>2. Cardinality(S \ {r}) = Cardinality(S) - 1
    BY <1>1, FS_RemoveElement
  <1>3. Cardinality(T) \in Nat /\ Cardinality(T) =< Cardinality(S \ {r})
    BY Counting
  <1> QED BY <1>1, <1>2, <1>3

\* Handlers in two sets without a common member are not more than the handlers.
LEMMA Apart ==
    ASSUME NEW S \in SUBSET Requests, NEW T \in SUBSET Requests, S \cap T = {}
    PROVE  Cardinality(S) + Cardinality(T) =< Cardinality(Requests)
  <1>1. IsFiniteSet(S) /\ IsFiniteSet(T)
    BY PromisesAssumption, FS_Subset
  <1>2. Cardinality(S \cup T)
          = Cardinality(S) + Cardinality(T) - Cardinality(S \cap T)
    BY <1>1, FS_Union
  <1>3. Cardinality(S \cap T) = 0
    BY FS_EmptySet
  <1>4. Cardinality(S \cup T) =< Cardinality(Requests)
    BY PromisesAssumption, FS_Subset
  <1> QED BY <1>1, <1>2, <1>3, <1>4, FS_CardinalityType

\* How one step of a running handler moves it between the two sets.
LEMMA SendingMoves ==
    ASSUME Typed, PlacesOK, NEW r \in Requests, Continue(r), NEW c \in Cases
    PROVE  /\ Sending(c)' \in SUBSET Sending(c)
           /\ Uncounted(c)' \in SUBSET (Uncounted(c) \cup {r})
           /\ ~(FollowUp(r) /\ task[r].on = c) =>
                Uncounted(c) \in SUBSET Uncounted(c)'
           /\ CreateAttempt(r) /\ task[r].for = "missed" /\ task[r].on = c =>
                /\ r \in Sending(c) /\ Sending(c)' \in SUBSET (Sending(c) \ {r})
                /\ r \in Uncounted(c)' /\ r \notin Uncounted(c)
  <1>1. Alone(r) /\ Onward(r)
    BY OnwardOK
  <1>2. r \in Sending(c)' => r \in Sending(c)
    <2> SUFFICES ASSUME r \in Sending(c)' PROVE r \in Sending(c)
      OBVIOUS
    <2>1. /\ task'[r].on = c /\ task'[r].for = "missed" /\ task'[r] # Idle
          /\ task'[r].at \in {"execute", "evaluate", "load", "contact"}
      BY IdleOK DEF Sending
    <2> QED BY <1>1, <2>1 DEF Onward, Moves, Sending
  <1>3. CASE r \in Uncounted(c)
    <2>1. /\ task[r].on = c /\ task[r].for = "missed"
          /\ task[r].action = "SEND_EMAIL"
          /\ task[r].at \in {"finish", "update", "followUp"}
      BY <1>3 DEF Uncounted, Reminding
    <2>2. FollowUp(r) \/ FinishLoad(r) \/ FinishUpdate(r)
      BY <2>1
         DEF Continue, FindPromise, UpsertPromise, MarkWaiting, Flag, Keep, Break,
             Verify, Commit, Execute, Evaluate, LoadCase, CreateAttempt, At
    <2>3. ASSUME ~FollowUp(r)
          PROVE  r \in Uncounted(c)'
      <3>1. task'[r] # Idle
        <4>0. task \in [Requests -> TaskRecords]
          BY DEF Typed, TasksOK
        <4>1. CASE FinishLoad(r)
          <5>1. PICK m \in BOOLEAN :
                  task' = [task EXCEPT ![r] = [task[r] EXCEPT !.at = "update",
                                                              !.may = m]]
            BY <4>1 DEF FinishLoad, Active
          <5> QED BY <4>0, <5>1, IdleOK DEF TaskRecords
        <4>2. CASE FinishUpdate(r)
          <5>1. Goto(r, "followUp")
            BY <2>1, <4>2 DEF FinishUpdate, AfterTool
          <5> QED BY <4>0, <5>1, IdleOK DEF Goto, TaskRecords
        <4> QED BY <2>2, <2>3, <4>1, <4>2
      <3>2. CASE Moves(r, "finish", "update") /\ Stays(r)
        BY <2>1, <3>2 DEF Moves, Stays, Uncounted, Reminding
      <3>3. CASE \E next \in {"flag", "followUp", "break"} :
                   /\ next = AfterTool(task[r].for, task[r].action)
                   /\ Moves(r, "update", next) /\ Stays(r)
        BY <2>1, <3>3 DEF AfterTool, Moves, Stays, Uncounted, Reminding
      <3> QED BY <1>1, <2>1, <3>1, <3>2, <3>3 DEF Onward, Moves
    <2>4. ~CreateAttempt(r)
      BY <2>1 DEF CreateAttempt, At
    <2> QED BY <1>1, <1>2, <2>1, <2>3, <2>4 DEF Alone, Sending, Uncounted, Reminding
  <1>4. CASE r \notin Uncounted(c)
    <2>1. ASSUME CreateAttempt(r), task[r].for = "missed", task[r].on = c
          PROVE  r \in Sending(c) /\ r \notin Sending(c)' /\ r \in Uncounted(c)'
      <3>1. task[r].at = "contact" /\ task[r].action = "SEND_EMAIL"
        BY <2>1 DEF CreateAttempt, At, PlacesOK
      <3>2. Goto(r, "finish") /\ TasksOK
        BY <2>1 DEF CreateAttempt, Typed
      <3>3. /\ task'[r].at = "finish" /\ task'[r].on = c /\ task'[r].for = "missed"
            /\ task'[r].action = "SEND_EMAIL"
        BY <2>1, <3>1, <3>2, GotoStep DEF Moves, Steps
      <3> QED BY <2>1, <3>1, <3>3 DEF Sending, Uncounted, Reminding
    <2> QED BY <1>1, <1>2, <1>4, <2>1 DEF Alone, Sending, Uncounted, Reminding
  <1> QED BY <1>3, <1>4

LEMMA PacedContinue ==
    ASSUME Typed, PlacesOK, RemindInv, PacedInv, NEW r \in Requests, Continue(r),
           NEW c \in Cases
    PROVE  IF followUps'[c] = 0
           THEN missed'[c] =< Cardinality(Uncounted(c)') + faults'
           ELSE missed'[c] + Cardinality(Sending(c)')
                  =< Cardinality(Requests) + faults'
  <1> DEFINE S == Sending(c)
             U == Uncounted(c)
             T == Sending(c)'
             V == Uncounted(c)'
             N == Cardinality(Requests)
  <1>0. /\ S \in SUBSET Requests /\ U \in SUBSET Requests
        /\ T \in SUBSET Requests /\ V \in SUBSET Requests
    BY DEF Sending, Uncounted
  <1>1. /\ followUps[c] \in Nat /\ missed[c] \in Nat /\ faults \in Nat
        /\ N \in Nat /\ Cardinality(S) \in Nat /\ Cardinality(U) \in Nat
        /\ Cardinality(T) \in Nat /\ Cardinality(V) \in Nat
    BY <1>0, Counting, PromisesAssumption DEF Typed, RowsOK, SentOK, WorldOK
  <1>2. IF followUps[c] = 0 THEN missed[c] =< Cardinality(U) + faults
                            ELSE missed[c] + Cardinality(S) =< N + faults
    BY DEF PacedInv
  <1>3. faults' = faults
    BY DEF Continue, FindPromise, UpsertPromise, MarkWaiting, Flag, FollowUp, Keep,
           Break, Verify, Commit, Execute, Evaluate, LoadCase, CreateAttempt,
           FinishLoad, FinishUpdate, world
  <1>4. Cardinality(T) =< Cardinality(S)
    BY <1>0, SendingMoves, Counting
  <1>5. Recorded(r, c) \/ Worked(r, c)
    BY Writes
  <1>6. CASE Recorded(r, c)
    <2>1. followUps'[c] = 0 /\ missed'[c] = 0
      BY <1>6 DEF Recorded
    <2> HIDE DEF S, T, U, V, N
    <2>2. missed'[c] =< Cardinality(V) + faults'
      BY <1>1, <1>3, <2>1
    <2> USE DEF S, T, U, V, N
    <2> QED BY <2>1, <2>2
  <1>7. CASE /\ missed'[c] = missed[c] /\ FollowUp(r) /\ task[r].on = c
             /\ followUps'[c] = followUps[c] + 1
    <2>1. S \cap U = {}
      BY DEF Sending, Uncounted, Reminding
    <2>2. Cardinality(S) + Cardinality(U) =< N
      BY <1>0, <2>1, Apart
    <2> HIDE DEF S, T, U, V, N
    <2>3. missed'[c] + Cardinality(T) =< N + faults' /\ followUps'[c] # 0
      BY <1>1, <1>2, <1>3, <1>4, <1>7, <2>2
    <2> USE DEF S, T, U, V, N
    <2> QED BY <2>3
  <1>8. CASE /\ CreateAttempt(r) /\ task[r].for = "missed" /\ task[r].on = c
             /\ missed'[c] = missed[c] + 1 /\ followUps'[c] = followUps[c]
    <2>1. /\ r \in S /\ T \in SUBSET (S \ {r})
          /\ r \in V /\ U \in SUBSET (V \ {r})
      <3>1. ~(FollowUp(r) /\ task[r].on = c)
        BY <1>8 DEF FollowUp, CreateAttempt, At
      <3> QED BY <1>8, <3>1, SendingMoves
    <2>2. Cardinality(T) + 1 =< Cardinality(S) /\ Cardinality(U) + 1 =< Cardinality(V)
      BY <1>0, <2>1, Leaving
    <2> HIDE DEF S, T, U, V, N
    <2>3. IF followUps'[c] = 0 THEN missed'[c] =< Cardinality(V) + faults'
                               ELSE missed'[c] + Cardinality(T) =< N + faults'
      BY <1>1, <1>2, <1>3, <1>8, <2>2
    <2> USE DEF S, T, U, V, N
    <2> QED BY <2>3
  <1>9. CASE /\ missed'[c] = missed[c] /\ followUps'[c] = followUps[c]
             /\ ~(FollowUp(r) /\ task[r].on = c)
    <2>1. U \in SUBSET V
      BY <1>9, SendingMoves
    <2>2. Cardinality(U) =< Cardinality(V)
      BY <1>0, <2>1, Counting
    <2> HIDE DEF S, T, U, V, N
    <2>3. IF followUps'[c] = 0 THEN missed'[c] =< Cardinality(V) + faults'
                               ELSE missed'[c] + Cardinality(T) =< N + faults'
      BY <1>1, <1>2, <1>3, <1>4, <1>9, <2>2
    <2> USE DEF S, T, U, V, N
    <2> QED BY <2>3
  <1>10. ~(FollowUp(r) /\ CreateAttempt(r))
    BY DEF FollowUp, CreateAttempt, At
  <1>11. FollowUp(r) /\ task[r].on = c => followUps'[c] = followUps[c] + 1
    BY DEF FollowUp, Typed, RowsOK
  <1> QED BY <1>5, <1>6, <1>7, <1>8, <1>9, <1>10, <1>11 DEF Worked

LEMMA PacedStep ==
    Typed /\ PlacesOK /\ RemindInv /\ PacedInv /\ [Next]_vars => PacedInv'
  <1> SUFFICES ASSUME Typed, PlacesOK, RemindInv, PacedInv, [Next]_vars,
                      NEW c \in Cases
               PROVE  IF followUps'[c] = 0
                      THEN missed'[c] =< Cardinality(Uncounted(c)') + faults'
                      ELSE missed'[c] + Cardinality(Sending(c)')
                             =< Cardinality(Requests) + faults'
    BY DEF PacedInv
  <1> DEFINE S == Sending(c)
             U == Uncounted(c)
             T == Sending(c)'
             V == Uncounted(c)'
             N == Cardinality(Requests)
  <1>0. /\ S \in SUBSET Requests /\ U \in SUBSET Requests
        /\ T \in SUBSET Requests /\ V \in SUBSET Requests
    BY DEF Sending, Uncounted
  <1>1. /\ followUps[c] \in Nat /\ missed[c] \in Nat /\ faults \in Nat
        /\ N \in Nat /\ Cardinality(S) \in Nat /\ Cardinality(U) \in Nat
        /\ Cardinality(T) \in Nat /\ Cardinality(V) \in Nat
    BY <1>0, Counting, PromisesAssumption DEF Typed, RowsOK, SentOK, WorldOK
  <1>2. IF followUps[c] = 0 THEN missed[c] =< Cardinality(U) + faults
                            ELSE missed[c] + Cardinality(S) =< N + faults
    BY DEF PacedInv
  <1>3. ASSUME NEW r \in Requests, Abort(r)
        PROVE  IF followUps'[c] = 0 THEN missed'[c] =< Cardinality(V) + faults'
                                    ELSE missed'[c] + Cardinality(T) =< N + faults'
    <2>1. Alone(r) /\ task'[r] = Idle
      BY <1>3, OnwardOK, DoneStep DEF Abort, Typed
    <2>2. followUps' = followUps /\ missed' = missed /\ faults' = faults + 1
      BY <1>3, AbortKeeps DEF rows, sent
    <2>3. T \in SUBSET S /\ U \ {r} \in SUBSET V
      BY <2>1, IdleOK DEF Alone, Sending, Uncounted, Reminding
    <2>4. Cardinality(T) =< Cardinality(S) /\ Cardinality(U \ {r}) =< Cardinality(V)
      BY <1>0, <2>3, Counting
    <2>5. Cardinality(U) =< Cardinality(U \ {r}) + 1 /\ Cardinality(U \ {r}) \in Nat
      <3>1. CASE r \in U
        <4>1. U \ {r} \in SUBSET (U \ {r}) /\ U \ {r} \in SUBSET U
          OBVIOUS
        <4> HIDE DEF U
        <4> QED BY <1>0, <1>1, <3>1, <4>1, Leaving, Counting
      <3>2. CASE r \notin U
        <4>1. U \ {r} = U
          BY <3>2
        <4> HIDE DEF U
        <4> QED BY <1>1, <4>1
      <3> QED BY <3>1, <3>2
    <2> HIDE DEF S, T, U, V, N
    <2> QED BY <1>1, <1>2, <2>2, <2>4, <2>5
  <1>4. ASSUME NEW r \in Requests, NEW d \in Cases, Begin(r, d)
        PROVE  IF followUps'[c] = 0 THEN missed'[c] =< Cardinality(V) + faults'
                                    ELSE missed'[c] + Cardinality(T) =< N + faults'
    <2>1. Alone(r) /\ Starts(r, d)
      BY <1>4, BeginOK
    <2>2. followUps' = followUps /\ missed' = missed /\ faults' = faults
      BY <1>4, BeginKeeps DEF rows, sent, world
    <2>3. U \in SUBSET V
      BY <2>1, IdleOK DEF Alone, Starts, Uncounted, Reminding
    <2>4. followUps[c] # 0 => T \in SUBSET S
      BY <2>1 DEF Alone, Starts, Sending
    <2>5. /\ Cardinality(U) =< Cardinality(V)
          /\ followUps[c] # 0 => Cardinality(T) =< Cardinality(S)
      BY <1>0, <2>3, <2>4, Counting
    <2> HIDE DEF S, T, U, V, N
    <2> QED BY <1>1, <1>2, <2>2, <2>5
  <1>5. CASE Outside \/ UNCHANGED vars
    <2>1. UNCHANGED << followUps, missed, faults, task >>
      BY <1>5, OutsideKeeps DEF rows
    <2>2. T = S /\ V = U
      BY <2>1 DEF Sending, Uncounted, Reminding
    <2> HIDE DEF S, T, U, V, N
    <2>3. IF followUps'[c] = 0 THEN missed'[c] =< Cardinality(V) + faults'
                               ELSE missed'[c] + Cardinality(T) =< N + faults'
      BY <1>2, <2>1, <2>2
    <2> USE DEF S, T, U, V, N
    <2> QED BY <2>3
  <1>6. ASSUME NEW r \in Requests, Continue(r)
        PROVE  IF followUps'[c] = 0 THEN missed'[c] =< Cardinality(V) + faults'
                                    ELSE missed'[c] + Cardinality(T) =< N + faults'
    BY <1>6, PacedContinue
  <1> QED BY <1>3, <1>4, <1>5, <1>6 DEF Next, Outside

LEMMA PacedInit == Init => PacedInv
  <1> SUFFICES ASSUME Init, NEW c \in Cases
               PROVE  followUps[c] = 0 /\ missed[c] = 0
                        /\ Cardinality(Uncounted(c)) + faults \in Nat
    BY DEF PacedInv
  <1>1. Uncounted(c) \in SUBSET Requests
    BY DEF Uncounted
  <1> QED BY <1>1, Counting DEF Init

\* One promise brings at most one reminder after its date per sweep that can run
\* at the same time, and one per handler that died.
THEOREM RemindersAreBounded == Spec => []FollowUpsBounded
  <1>1. Typed /\ PacedInv => FollowUpsBounded
    <2> SUFFICES ASSUME Typed, PacedInv, NEW c \in Cases
                 PROVE  missed[c] =< Cardinality(Requests) + faults
      BY DEF FollowUpsBounded
    <2>1. Sending(c) \in SUBSET Requests /\ Uncounted(c) \in SUBSET Requests
      BY DEF Sending, Uncounted
    <2>2. /\ Cardinality(Sending(c)) \in Nat /\ Cardinality(Uncounted(c)) \in Nat
          /\ Cardinality(Requests) \in Nat
          /\ Cardinality(Uncounted(c)) =< Cardinality(Requests)
      BY <2>1, Counting
    <2>3. missed[c] \in Nat /\ faults \in Nat
      BY PromisesAssumption DEF Typed, SentOK, WorldOK
    <2>4. IF followUps[c] = 0
          THEN missed[c] =< Cardinality(Uncounted(c)) + faults
          ELSE missed[c] + Cardinality(Sending(c)) =< Cardinality(Requests) + faults
      BY DEF PacedInv
    <2> QED BY <2>2, <2>3, <2>4
  <1> QED BY <1>1, PacedInit, PacedStep, RemindHolds, PTL DEF Spec
=============================================================================
