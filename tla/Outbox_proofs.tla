--------------------------- MODULE Outbox_proofs ----------------------------
(***************************************************************************)
(* The outbox implements EmailDelivery for any messages, any number of     *)
(* dispatchers and webhook requests, any limit of attempts and any number  *)
(* of faults; for that the proof needs nothing of attempts and back-off.   *)
(* On top of it: the types, that a contact row claims no more than the     *)
(* customer got, that a known failure is final, and how often an event is  *)
(* applied.                                                                *)
(***************************************************************************)
EXTENDS Outbox, FiniteSetTheorems, TLAPS

Held == {"send", "commit", "fail"}

\* As much of the shape of the state as the proof needs.
Fields == {"state", "attempts", "wait"}

RowShape ==
    /\ row = [m \in Messages |-> row[m]]
    /\ \A m \in Messages : DOMAIN row[m] = Fields

TaskShape ==
    /\ task \in [Dispatchers ->
                   [at : {"idle", "claim", "send", "commit", "fail"},
                    on : Messages \cup {NoMessage}, own : BOOLEAN]]
    /\ \A d \in Dispatchers : task[d].at # "idle" => task[d].on \in Messages

Shape == RowShape /\ inbox \in [Messages -> {0, 1}] /\ TaskShape

IInv == Shape /\ DeliveryInv

LEMMA InitOK == Init => IInv
  BY DEF Init, IInv, Shape, RowShape, Fields, TaskShape, DeliveryInv, NoRow,
         NoTask

\* The record updates of the actions.
LEMMA RecordUpdate ==
    ASSUME NEW rec, NEW s, NEW x, DOMAIN rec = Fields
    PROVE  /\ DOMAIN [rec EXCEPT !.state = s] = Fields
           /\ [rec EXCEPT !.state = s].state = s
           /\ DOMAIN [rec EXCEPT !.state = s, !.attempts = x] = Fields
           /\ [rec EXCEPT !.state = s, !.attempts = x].state = s
           /\ DOMAIN [rec EXCEPT !.state = s, !.wait = x] = Fields
           /\ [rec EXCEPT !.state = s, !.wait = x].state = s
           /\ DOMAIN [rec EXCEPT !.wait = x] = Fields
           /\ [rec EXCEPT !.wait = x].state = rec.state
  BY DEF Fields

\* How the rows change when one of them does.
LEMMA RowUpdate ==
    ASSUME RowShape, NEW m \in Messages, NEW rec, DOMAIN rec = Fields,
           row' = [row EXCEPT ![m] = rec]
    PROVE  /\ RowShape'
           /\ row'[m].state = rec.state
           /\ \A k \in Messages : k # m => row'[k] = row[k]
  BY DEF RowShape

\* What each write of the outbox does to the rows.
LEMMA EnqueueRow ==
    ASSUME RowShape, NEW d \in Dispatchers, NEW m \in Messages, Enqueue(d, m)
    PROVE  /\ RowShape' /\ row'[m].state = "PENDING"
           /\ \A k \in Messages : k # m => row'[k] = row[k]
  <1> DEFINE rec == [row[m] EXCEPT !.state = "PENDING"]
  <1>1. DOMAIN rec = Fields /\ rec.state = "PENDING"
    BY RecordUpdate DEF RowShape
  <1>2. row' = [row EXCEPT ![m] = rec]
    BY DEF Enqueue, RowShape
  <1> HIDE DEF rec
  <1> QED BY <1>1, <1>2, RowUpdate

LEMMA ClaimRow ==
    ASSUME RowShape, NEW d \in Dispatchers, task[d].on \in Messages,
           Claim(d), Claimable(task[d].on)
    PROVE  /\ RowShape' /\ row'[task[d].on].state = "PROCESSING"
           /\ \A k \in Messages : k # task[d].on => row'[k] = row[k]
  <1> DEFINE m == task[d].on
             rec == [row[m] EXCEPT !.state = "PROCESSING", !.attempts = @ + 1]
  <1>1. DOMAIN rec = Fields /\ rec.state = "PROCESSING"
    BY RecordUpdate DEF RowShape
  <1>2. row' = [row EXCEPT ![m] = rec]
    BY DEF Claim, RowShape
  <1> HIDE DEF rec
  <1> QED BY <1>1, <1>2, RowUpdate

LEMMA CommitRow ==
    ASSUME RowShape, NEW d \in Dispatchers, task[d].on \in Messages, Commit(d)
    PROVE  /\ RowShape' /\ row'[task[d].on].state = "SENT"
           /\ \A k \in Messages : k # task[d].on => row'[k] = row[k]
  <1> DEFINE m == task[d].on
             rec == [row[m] EXCEPT !.state = "SENT"]
  <1>1. DOMAIN rec = Fields /\ rec.state = "SENT"
    BY RecordUpdate DEF RowShape
  <1>2. row' = [row EXCEPT ![m] = rec]
    BY DEF Commit, RowShape
  <1> HIDE DEF rec
  <1> QED BY <1>1, <1>2, RowUpdate

LEMMA FailRow ==
    ASSUME RowShape, NEW d \in Dispatchers, task[d].on \in Messages, Fail(d)
    PROVE  /\ RowShape' /\ row'[task[d].on].state = "FAILED"
           /\ \A k \in Messages : k # task[d].on => row'[k] = row[k]
  <1> DEFINE m == task[d].on
             w == Backoff(row[m].attempts)
             rec == [row[m] EXCEPT !.state = "FAILED", !.wait = w]
  <1>2. row' = [row EXCEPT ![m] = rec]
    BY DEF Fail, RowShape
  <1> HIDE DEF w
  <1>1. DOMAIN rec = Fields /\ rec.state = "FAILED"
    BY RecordUpdate DEF RowShape
  <1> HIDE DEF rec
  <1> QED BY <1>1, <1>2, RowUpdate

\* What dispatchers do to their own record.
LEMMA StepOK ==
    ASSUME TaskShape, NEW d \in Dispatchers, task[d].at # "idle",
           NEW at \in {"idle", "claim", "send", "commit", "fail"}, Step(d, at)
    PROVE  /\ TaskShape' /\ task'[d].at = at /\ task'[d].on = task[d].on
           /\ \A e \in Dispatchers : e # d => task'[e] = task[e]
  <1> DEFINE rec == [task[d] EXCEPT !.at = at]
  <1>1. rec \in [at : {"idle", "claim", "send", "commit", "fail"},
                 on : Messages \cup {NoMessage}, own : BOOLEAN]
        /\ rec.at = at /\ rec.on = task[d].on
    BY DEF TaskShape
  <1>2. task' = [task EXCEPT ![d] = rec]
    BY DEF Step
  <1> HIDE DEF rec
  <1> QED BY <1>1, <1>2 DEF TaskShape

LEMMA LeaveOK ==
    ASSUME TaskShape, NEW d \in Dispatchers, Leave(d)
    PROVE  /\ TaskShape' /\ task'[d].at = "idle"
           /\ \A e \in Dispatchers : e # d => task'[e] = task[e]
  BY DEF TaskShape, Leave, NoTask

LEMMA TakeOK ==
    ASSUME TaskShape, NEW d \in Dispatchers, NEW m \in Messages,
           NEW own \in BOOLEAN,
           task' = [task EXCEPT ![d] = [at |-> "claim", on |-> m, own |-> own]]
    PROVE  /\ TaskShape' /\ task'[d].at = "claim" /\ task'[d].on = m
           /\ \A e \in Dispatchers : e # d => task'[e] = task[e]
  <1> DEFINE rec == [at |-> "claim", on |-> m, own |-> own]
  <1>1. rec \in [at : {"idle", "claim", "send", "commit", "fail"},
                 on : Messages \cup {NoMessage}, own : BOOLEAN]
        /\ rec.at = "claim" /\ rec.on = m
    OBVIOUS
  <1>2. task' = [task EXCEPT ![d] = rec]
    OBVIOUS
  <1> HIDE DEF rec
  <1> QED BY <1>1, <1>2 DEF TaskShape

\* The parts of the invariant, per dispatcher, pair and message.
TaskInv(d) ==
    /\ task[d].at # "idle" => row[task[d].on].state # "NONE"
    /\ task[d].at \in Held => row[task[d].on].state = "PROCESSING"
    /\ task[d].at = "commit" => inbox[task[d].on] = 1

Apart(d, e) ==
    task[d].at \in Held /\ task[e].at \in Held => task[d].on # task[e].on

RowInv(m) ==
    /\ inbox[m] \in {0, 1}
    /\ inbox[m] = 1 => row[m].state # "NONE"
    /\ row[m].state = "SENT" => inbox[m] = 1

LEMMA DeliveryParts ==
    DeliveryInv <=> /\ \A d \in Dispatchers : TaskInv(d)
                    /\ \A d, e \in Dispatchers : d # e => Apart(d, e)
                    /\ \A m \in Messages : RowInv(m)
  BY DEF DeliveryInv, TaskInv, Apart, RowInv, Held

LEMMA DeliveryPartsNext ==
    ASSUME \A d \in Dispatchers : TaskInv(d)',
           \A d, e \in Dispatchers : d # e => Apart(d, e)',
           \A m \in Messages : RowInv(m)'
    PROVE  DeliveryInv'
  BY DEF DeliveryInv, TaskInv, Apart, RowInv, Held

\* The provider takes an email once, however often it is asked.
LEMMA AcceptOnce ==
    ASSUME Shape, NEW m \in Messages, inbox' = Accept(m)
    PROVE  /\ inbox' \in [Messages -> {0, 1}] /\ inbox'[m] = 1
           /\ \A k \in Messages : k # m => inbox'[k] = inbox[k]
  BY DEF Shape, Accept

LEMMA DispatchOK ==
    ASSUME IInv, NEW d \in Dispatchers, Dispatch(d)
    PROVE  IInv'
  <1> DEFINE m == task[d].on
  <1>0. /\ Shape /\ DeliveryInv /\ TaskShape /\ RowShape
        /\ \A k \in Messages : DOMAIN row[k] = Fields
        /\ inbox \in [Messages -> {0, 1}]
        /\ task[d].at # "idle" => m \in Messages
    BY DEF IInv, Shape, RowShape, TaskShape
  <1>1. ASSUME NEW k \in Messages, Enqueue(d, k)
        PROVE  IInv'
    <2>2. /\ RowShape'
          /\ row'[k].state = "PENDING"
          /\ \A j \in Messages : j # k => row'[j] = row[j]
      BY <1>0, <1>1, EnqueueRow
    <2>3. /\ TaskShape' /\ task'[d].at = "claim" /\ task'[d].on = k
          /\ \A e \in Dispatchers : e # d => task'[e] = task[e]
      BY <1>0, <1>1, TakeOK DEF Enqueue
    <2>4. Shape'
      BY <1>0, <1>1, <2>2, <2>3 DEF Shape, Enqueue
    <2>5. DeliveryInv'
      <3>1. row[k].state = "NONE" /\ inbox' = inbox
        BY <1>1 DEF Enqueue
      <3>2. ASSUME NEW e \in Dispatchers
            PROVE  TaskInv(e)'
        <4>1. CASE e = d
          BY <2>2, <2>3, <4>1 DEF TaskInv, Held
        <4>2. CASE e # d
          <5>1. TaskInv(e) /\ task'[e] = task[e]
            BY <1>0, <2>3, <4>2, DeliveryParts
          <5>2. task[e].at # "idle" => row'[task[e].on] = row[task[e].on]
            BY <1>0, <2>2, <3>1, <5>1 DEF TaskShape, TaskInv
          <5> QED BY <3>1, <5>1, <5>2 DEF TaskInv, Held
        <4> QED BY <4>1, <4>2
      <3>3. \A e, f \in Dispatchers : e # f => Apart(e, f)'
        BY <1>0, <2>3, DeliveryParts DEF Apart, Held
      <3>4. \A j \in Messages : RowInv(j)'
        BY <1>0, <2>2, <3>1, DeliveryParts DEF RowInv
      <3> QED BY <3>2, <3>3, <3>4, DeliveryPartsNext
    <2> QED BY <2>4, <2>5 DEF IInv
  <1>2. ASSUME NEW k \in Messages, Drain(d, k)
        PROVE  IInv'
    <2>1. /\ TaskShape' /\ task'[d].at = "claim" /\ task'[d].on = k
          /\ \A e \in Dispatchers : e # d => task'[e] = task[e]
      BY <1>0, <1>2, TakeOK DEF Drain
    <2>2. UNCHANGED << row, inbox >> /\ row[k].state # "NONE"
      BY <1>2 DEF Drain, Claimable
    <2>3. Shape'
      BY <1>0, <2>1, <2>2 DEF Shape, RowShape, TaskShape
    <2>4. DeliveryInv'
      <3>1. ASSUME NEW e \in Dispatchers
            PROVE  TaskInv(e)'
        <4>1. CASE e = d
          BY <2>1, <2>2, <4>1 DEF TaskInv, Held
        <4>2. CASE e # d
          BY <1>0, <2>1, <2>2, <4>2, DeliveryParts DEF TaskInv
        <4> QED BY <4>1, <4>2
      <3>2. \A e, f \in Dispatchers : e # f => Apart(e, f)'
        BY <1>0, <2>1, DeliveryParts DEF Apart, Held
      <3>3. \A j \in Messages : RowInv(j)'
        BY <1>0, <2>2, DeliveryParts DEF RowInv
      <3> QED BY <3>1, <3>2, <3>3, DeliveryPartsNext
    <2> QED BY <2>3, <2>4 DEF IInv
  <1>3. ASSUME Leave(d), UNCHANGED << row, inbox >>
        PROVE  IInv'
    <2>1. /\ TaskShape' /\ task'[d].at = "idle"
          /\ \A e \in Dispatchers : e # d => task'[e] = task[e]
      BY <1>0, <1>3, LeaveOK
    <2>2. Shape'
      BY <1>0, <1>3, <2>1 DEF Shape, RowShape, TaskShape
    <2>3. DeliveryInv'
      BY <1>0, <1>3, <2>1 DEF DeliveryInv, TaskShape
    <2> QED BY <2>2, <2>3 DEF IInv
  <1>4. CASE Claim(d)
    <2>1. CASE ~Claimable(m)
      BY <1>3, <1>4, <2>1 DEF Claim
    <2>2. CASE Claimable(m)
      <3>1. task[d].at = "claim" /\ m \in Messages
        BY <1>0, <1>4 DEF Claim
      <3>3. /\ RowShape'
            /\ row'[m].state = "PROCESSING"
            /\ \A j \in Messages : j # m => row'[j] = row[j]
        BY <1>0, <1>4, <2>2, <3>1, ClaimRow
      <3>4. /\ TaskShape' /\ task'[d].at = "send" /\ task'[d].on = m
            /\ \A e \in Dispatchers : e # d => task'[e] = task[e]
        BY <1>0, <1>4, <2>2, <3>1, StepOK DEF Claim
      <3>5. row[m].state \in {"PENDING", "FAILED"} /\ inbox' = inbox
        BY <1>4, <2>2 DEF Claim, Claimable
      <3>6. Shape'
        BY <1>0, <3>3, <3>4, <3>5 DEF Shape, TaskShape
      <3>7. DeliveryInv'
        <4>1. \A e \in Dispatchers : e # d /\ task[e].at \in Held => task[e].on # m
          BY <3>5, DeliveryParts, <1>0 DEF TaskInv
        <4>2. \A e \in Dispatchers : TaskInv(e)'
          <5>1. TaskInv(d)'
            BY <3>3, <3>4 DEF TaskInv
          <5>2. ASSUME NEW e \in Dispatchers, e # d
                PROVE  TaskInv(e)'
            <6>1. TaskInv(e) /\ task'[e] = task[e]
              BY <1>0, <3>4, <5>2, DeliveryParts
            <6>2. CASE task[e].on = m
              BY <3>3, <3>5, <4>1, <5>2, <6>1, <6>2 DEF TaskInv, Held
            <6>3. CASE task[e].on # m
              <7>1. task[e].at # "idle" => row'[task[e].on] = row[task[e].on]
                BY <1>0, <3>3, <6>3 DEF TaskShape
              <7> QED BY <3>5, <6>1, <7>1 DEF TaskInv, Held
            <6> QED BY <6>2, <6>3
          <5> QED BY <5>1, <5>2
        <4>3. \A e, f \in Dispatchers : e # f => Apart(e, f)'
          BY <1>0, <3>4, <4>1, DeliveryParts DEF Apart
        <4>4. \A k \in Messages : RowInv(k)'
          BY <1>0, <3>1, <3>3, <3>5, DeliveryParts DEF RowInv
        <4> QED BY <4>2, <4>3, <4>4, DeliveryPartsNext
      <3> QED BY <3>6, <3>7 DEF IInv
    <2> QED BY <2>1, <2>2
  <1>5. CASE Send(d)
    <2>1. task[d].at = "send" /\ m \in Messages /\ row' = row
      BY <1>0, <1>5 DEF Send
    <2>2. \/ inbox' = Accept(m) /\ (Step(d, "commit") \/ Step(d, "fail"))
          \/ inbox' = inbox /\ Step(d, "fail")
      BY <1>5 DEF Send
    <2>3. /\ TaskShape' /\ task'[d].at \in {"commit", "fail"}
          /\ task'[d].on = m
          /\ \A e \in Dispatchers : e # d => task'[e] = task[e]
      BY <1>0, <2>1, <2>2, StepOK
    <2>4. /\ inbox' \in [Messages -> {0, 1}]
          /\ inbox'[m] = inbox[m] \/ inbox'[m] = 1
          /\ task'[d].at = "commit" => inbox'[m] = 1
          /\ \A k \in Messages : k # m => inbox'[k] = inbox[k]
      <3>1. CASE inbox' = Accept(m)
        BY <1>0, <2>1, <3>1, AcceptOnce
      <3>2. CASE inbox' = inbox /\ Step(d, "fail")
        <4>1. task'[d].at = "fail"
          BY <1>0, <2>1, <3>2, StepOK
        <4> QED BY <1>0, <3>2, <4>1
      <3> QED BY <2>2, <3>1, <3>2
    <2>5. Shape'
      BY <1>0, <2>1, <2>3, <2>4 DEF Shape, RowShape, TaskShape
    <2>6. DeliveryInv'
      BY <1>0, <2>1, <2>3, <2>4 DEF DeliveryInv, TaskShape
    <2> QED BY <2>5, <2>6 DEF IInv
  <1>6. ASSUME NEW s \in {"SENT", "FAILED"}, RowShape', row'[m].state = s,
               \A j \in Messages : j # m => row'[j] = row[j],
               task[d].at \in Held, s = "SENT" => task[d].at = "commit",
               Leave(d), inbox' = inbox
        PROVE  IInv'
    <2>1. m \in Messages
      BY <1>0, <1>6 DEF Held
    <2>3. /\ TaskShape' /\ task'[d].at = "idle"
          /\ \A e \in Dispatchers : e # d => task'[e] = task[e]
      BY <1>0, <1>6, LeaveOK
    <2>4. Shape'
      BY <1>0, <1>6, <2>3 DEF Shape
    <2>5. DeliveryInv'
      <3>1. ASSUME NEW e \in Dispatchers
            PROVE  TaskInv(e)'
        <4>1. CASE e = d
          BY <2>3, <4>1 DEF TaskInv, Held
        <4>2. CASE e # d
          <5>1. TaskInv(e) /\ task'[e] = task[e] /\ Apart(d, e)
            BY <1>0, <2>3, <4>2, DeliveryParts
          <5>2. CASE task[e].on = m
            BY <1>6, <5>1, <5>2 DEF TaskInv, Apart, Held
          <5>3. CASE task[e].on # m
            <6>1. task[e].at # "idle" => row'[task[e].on] = row[task[e].on]
              BY <1>0, <1>6, <5>3 DEF TaskShape
            <6> QED BY <1>6, <5>1, <6>1 DEF TaskInv, Held
          <5> QED BY <5>2, <5>3
        <4> QED BY <4>1, <4>2
      <3>2. \A e, f \in Dispatchers : e # f => Apart(e, f)'
        BY <1>0, <2>3, DeliveryParts DEF Apart, Held
      <3>3. \A k \in Messages : RowInv(k)'
        <4>1. s = "SENT" => inbox[m] = 1
          BY <1>0, <1>6, DeliveryParts DEF TaskInv
        <4> QED BY <1>0, <1>6, <2>1, <4>1, DeliveryParts DEF RowInv
      <3> QED BY <3>1, <3>2, <3>3, DeliveryPartsNext
    <2> QED BY <2>4, <2>5 DEF IInv
  <1>7. CASE Commit(d)
    <2>1. task[d].at = "commit" /\ Leave(d) /\ inbox' = inbox
      BY <1>7 DEF Commit
    <2> QED BY <1>0, <1>6, <1>7, <2>1, CommitRow DEF Held
  <1>8. CASE Fail(d)
    <2>1. task[d].at = "fail" /\ Leave(d) /\ inbox' = inbox
      BY <1>8 DEF Fail
    <2> QED BY <1>0, <1>6, <1>8, <2>1, FailRow DEF Held
  <1>9. CASE CommitThrows(d)
    <2>1. task[d].at = "commit" /\ UNCHANGED << row, inbox >>
      BY <1>9 DEF CommitThrows
    <2>2. /\ TaskShape' /\ task'[d].at = "fail" /\ task'[d].on = m
          /\ \A e \in Dispatchers : e # d => task'[e] = task[e]
      BY <1>0, <1>9, <2>1, StepOK DEF CommitThrows
    <2>3. Shape'
      BY <1>0, <2>1, <2>2 DEF Shape, RowShape, TaskShape
    <2>4. DeliveryInv'
      BY <1>0, <2>1, <2>2 DEF DeliveryInv, TaskShape
    <2> QED BY <2>3, <2>4 DEF IInv
  <1>10. CASE DispatchThrows(d) \/ DispatcherDies(d)
    BY <1>3, <1>10 DEF DispatchThrows, DispatcherDies
  <1> QED BY <1>1, <1>2, <1>4, <1>5, <1>7, <1>8, <1>9, <1>10 DEF Dispatch

\* Webhook requests, faults before queueing, the clock and the gate leave the
\* dispatch of every message as it is.
LEMMA OtherOK ==
    ASSUME IInv, UNCHANGED << inbox, task >>, RowShape',
           \A m \in Messages : row'[m].state = row[m].state
    PROVE  IInv'
  <1>1. Shape'
    BY DEF IInv, Shape, TaskShape
  <1>2. DeliveryInv'
    BY DEF IInv, Shape, TaskShape, DeliveryInv
  <1> QED BY <1>1, <1>2 DEF IInv

\* A minute passing keeps the state of every row.
LEMMA TickRows ==
    ASSUME RowShape, Tick
    PROVE  RowShape' /\ \A m \in Messages : row'[m].state = row[m].state
  <1> DEFINE w(m) == IF row[m].wait > 0 THEN row[m].wait - 1 ELSE 0
             rec(m) == [row[m] EXCEPT !.wait = w(m)]
  <1>1. \A m \in Messages : DOMAIN rec(m) = Fields /\ rec(m).state = row[m].state
    <2> HIDE DEF w
    <2> QED BY RecordUpdate DEF RowShape
  <1>2. row' = [m \in Messages |-> rec(m)]
    BY DEF Tick
  <1> HIDE DEF rec
  <1> QED BY <1>1, <1>2 DEF RowShape

LEMMA NextOK == IInv /\ [Next]_vars => IInv'
  <1> SUFFICES ASSUME IInv, [Next]_vars PROVE IInv'
    OBVIOUS
  <1>0. RowShape
    BY DEF IInv, Shape
  <1>1. ASSUME NEW d \in Dispatchers, Dispatch(d) PROVE IInv'
    BY <1>1, DispatchOK
  <1>2. ASSUME UNCHANGED outgoing \/ UNCHANGED << row, inbox, task >> PROVE IInv'
    <2>1. UNCHANGED << row, inbox, task >>
      BY <1>2 DEF outgoing
    <2> QED BY <1>0, <2>1, OtherOK DEF RowShape
  <1>3. ASSUME NEW h \in Hooks, Webhook(h) PROVE IInv'
    BY <1>2, <1>3 DEF Webhook, Report, CreateEvent, FindAttempt, UpdateStatus,
       MarkProcessed, HookFails
  <1>4. ASSUME NEW m \in Messages, EnqueueThrows(m) PROVE IInv'
    BY <1>2, <1>4 DEF EnqueueThrows
  <1>5. CASE Tick
    <2>1. UNCHANGED << inbox, task >>
      BY <1>5 DEF Tick
    <2> QED BY <1>0, <1>5, <2>1, TickRows, OtherOK
  <1>6. CASE UNCHANGED vars
    BY <1>2, <1>6 DEF vars
  <1> QED BY <1>1, <1>3, <1>4, <1>5, <1>6 DEF Next

\* An email is out once at most, a claimed row belongs to one dispatch, and a
\* row says "sent" only of an email the provider took.
THEOREM DeliveryHolds == Spec => []DeliveryInv
  <1>1. IInv => DeliveryInv
    BY DEF IInv
  <1> QED BY InitOK, NextOK, <1>1, PTL DEF Spec

\* The same as the number of dispatches that hold a message.
THEOREM OneHolderHolds == Spec => []OneHolder
  <1>1. IInv => OneHolder
    <2> SUFFICES ASSUME IInv, NEW m \in Messages
                 PROVE  /\ Cardinality(Holders(m)) =< 1
                        /\ Holders(m) # {} => row[m].state = "PROCESSING"
      BY DEF OneHolder
    <2>1. \A d, e \in Holders(m) : d = e
      BY DEF IInv, DeliveryInv, Holders
    <2>2. Holders(m) # {} => row[m].state = "PROCESSING"
      BY DEF IInv, DeliveryInv, Holders
    <2>3. Cardinality(Holders(m)) =< 1
      <3>1. CASE Holders(m) = {}
        BY <3>1, FS_EmptySet
      <3>2. CASE Holders(m) # {}
        <4>1. PICK d : d \in Holders(m)
          BY <3>2
        <4>2. Holders(m) = {d}
          BY <2>1, <4>1
        <4>3. Cardinality({d}) = 1
          BY FS_Singleton
        <4> QED BY <4>2, <4>3
      <3> QED BY <3>1, <3>2
    <2> QED BY <2>2, <2>3
  <1> QED BY InitOK, NextOK, <1>1, PTL DEF Spec

-----------------------------------------------------------------------------
(* Refinement *)

Asked == {m \in Messages : row[m].state # "NONE"}
Told == {m \in Messages : row[m].state = "SENT"}

\* Steps that neither queue nor end an email leave what is promised alone.
LEMMA Stutter ==
    ASSUME \A m \in Messages :
               /\ row'[m].state = "NONE" <=> row[m].state = "NONE"
               /\ row'[m].state = "SENT" <=> row[m].state = "SENT"
    PROVE  UNCHANGED << Asked, Told >>
  BY DEF Asked, Told

LEMMA DispatchSimulates ==
    ASSUME IInv, NEW d \in Dispatchers, Dispatch(d)
    PROVE  \/ \E m \in Messages :
                Delivery!Ask(m) \/ Delivery!Deliver(m) \/ Delivery!Tell(m)
           \/ UNCHANGED << Asked, inbox, Told >>
  <1> DEFINE m == task[d].on
  <1>0. /\ RowShape /\ inbox \in [Messages -> {0, 1}] /\ TaskInv(d)
        /\ task[d].at # "idle" => m \in Messages
    BY DeliveryParts DEF IInv, Shape, TaskShape
  <1>1. ASSUME NEW k \in Messages, Enqueue(d, k)
        PROVE  Delivery!Ask(k)
    <2>1. /\ row'[k].state = "PENDING" /\ row[k].state = "NONE"
          /\ \A j \in Messages : j # k => row'[j] = row[j]
          /\ inbox' = inbox
      BY <1>0, <1>1, EnqueueRow DEF Enqueue
    <2> QED BY <2>1 DEF Delivery!Ask
  <1>2. ASSUME UNCHANGED << row, inbox >>
        PROVE  UNCHANGED << Asked, inbox, Told >>
    BY <1>2 DEF Asked, Told
  <1>3. ASSUME NEW k \in Messages, Drain(d, k)
        PROVE  UNCHANGED << Asked, inbox, Told >>
    BY <1>2, <1>3 DEF Drain
  <1>4. CASE Claim(d)
    <2>1. CASE ~Claimable(m)
      BY <1>2, <1>4, <2>1 DEF Claim
    <2>2. CASE Claimable(m)
      <3>1. task[d].at = "claim" /\ inbox' = inbox
            /\ row[m].state \in {"PENDING", "FAILED"}
        BY <1>4, <2>2 DEF Claim, Claimable
      <3> QED BY <1>0, <1>4, <2>2, <3>1, ClaimRow, Stutter
    <2> QED BY <2>1, <2>2
  <1>5. CASE Send(d)
    <2>1. task[d].at = "send" /\ m \in Messages /\ row' = row
      BY <1>0, <1>5 DEF Send
    <2>2. inbox' = Accept(m) \/ inbox' = inbox
      BY <1>5 DEF Send
    <2>3. CASE inbox' = inbox \/ inbox[m] > 0
      BY <1>2, <2>1, <2>2, <2>3 DEF Accept
    <2>4. CASE inbox' = Accept(m) /\ inbox[m] = 0
      <3>1. row[m].state = "PROCESSING"
        BY <1>0, <2>1 DEF TaskInv, Held
      <3>2. inbox' = [inbox EXCEPT ![m] = 1]
        BY <1>0, <2>1, <2>4 DEF Accept
      <3> QED BY <2>1, <2>4, <3>1, <3>2 DEF Delivery!Deliver
    <2> QED BY <1>0, <2>1, <2>2, <2>3, <2>4
  <1>6. CASE Commit(d)
    <2>1. task[d].at = "commit" /\ m \in Messages /\ inbox' = inbox
      BY <1>0, <1>6 DEF Commit
    <2>2. /\ row'[m].state = "SENT"
          /\ \A j \in Messages : j # m => row'[j] = row[j]
      BY <1>0, <1>6, <2>1, CommitRow
    <2>3. inbox[m] = 1 /\ row[m].state = "PROCESSING"
      BY <1>0, <2>1 DEF TaskInv, Held
    <2> QED BY <2>1, <2>2, <2>3 DEF Delivery!Tell
  <1>7. CASE Fail(d)
    <2>1. task[d].at = "fail" /\ m \in Messages /\ inbox' = inbox
      BY <1>0, <1>7 DEF Fail
    <2>2. row[m].state = "PROCESSING"
      BY <1>0, <2>1 DEF TaskInv, Held
    <2> QED BY <1>0, <1>7, <2>1, <2>2, FailRow, Stutter
  <1>8. CASE CommitThrows(d) \/ DispatchThrows(d) \/ DispatcherDies(d)
    BY <1>2, <1>8 DEF CommitThrows, DispatchThrows, DispatcherDies
  <1> QED BY <1>1, <1>3, <1>4, <1>5, <1>6, <1>7, <1>8 DEF Dispatch

LEMMA NextSimulates ==
    IInv /\ [Next]_vars => [Delivery!Next]_<< Asked, inbox, Told >>
  <1> SUFFICES ASSUME IInv, [Next]_vars
               PROVE  [Delivery!Next]_<< Asked, inbox, Told >>
    OBVIOUS
  <1>1. ASSUME NEW d \in Dispatchers, Dispatch(d)
        PROVE  [Delivery!Next]_<< Asked, inbox, Told >>
    BY <1>1, DispatchSimulates DEF Delivery!Next
  <1>2. ASSUME UNCHANGED outgoing \/ UNCHANGED << row, inbox >>
        PROVE  UNCHANGED << Asked, inbox, Told >>
    BY <1>2 DEF outgoing, Asked, Told
  <1>3. ASSUME NEW h \in Hooks, Webhook(h)
        PROVE  UNCHANGED << Asked, inbox, Told >>
    BY <1>2, <1>3 DEF Webhook, Report, CreateEvent, FindAttempt, UpdateStatus,
       MarkProcessed, HookFails
  <1>4. ASSUME NEW m \in Messages, EnqueueThrows(m)
        PROVE  UNCHANGED << Asked, inbox, Told >>
    BY <1>2, <1>4 DEF EnqueueThrows
  <1>5. CASE Tick
    <2>1. inbox' = inbox /\ \A m \in Messages : row'[m].state = row[m].state
      BY <1>5, TickRows DEF Tick, IInv, Shape
    <2> QED BY <2>1, Stutter
  <1>6. CASE UNCHANGED vars
    BY <1>2, <1>6 DEF vars
  <1> QED BY <1>1, <1>3, <1>4, <1>5, <1>6 DEF Next

\* Whatever is lost, retried, repeated or cut short, the outbox behaves as the
\* four lines of EmailDelivery say.
THEOREM Refinement == Spec => ImplementsDelivery
  <1>1. Init => Delivery!Init
    BY DEF Init, NoRow, Delivery!Init
  <1>2. IInv /\ [Next]_vars
          => [Delivery!Next]_<< {m \in Messages : row[m].state # "NONE"}, inbox,
                                {m \in Messages : row[m].state = "SENT"} >>
    BY NextSimulates DEF Asked, Told
  <1> QED BY InitOK, NextOK, <1>1, <1>2,
             PTL DEF Spec, ImplementsDelivery, Delivery!Spec

-----------------------------------------------------------------------------
(* Types *)

RowStates == {"NONE", "PENDING", "PROCESSING", "SENT", "FAILED"}
Rows == [state : RowStates, attempts : 0 .. MaxAttempts, wait : Nat]
RowTyped == row \in [Messages -> Rows]

HookStates == {"idle", "create", "read", "write", "mark"}
HookRecords == [at : HookStates, on : Messages \cup {NoMessage},
                event : Events \cup {"SENT"}, seen : ContactStatuses]
HookShape ==
    /\ hook \in [Hooks -> HookRecords]
    /\ \A h \in Hooks : hook[h].at # "idle" =>
         hook[h].on \in Messages /\ hook[h].event \in Events

\* The library has no fact about exponents but this one: a set of n elements has
\* 2 ^ n subsets.
LEMMA PowersOfTwo == ASSUME NEW n \in Nat PROVE 2 ^ n \in Nat
  <1>1. IsFiniteSet(1 .. n) /\ Cardinality(1 .. n) = n
    BY FS_Interval
  <1>2. /\ Cardinality(SUBSET (1 .. n)) = 2 ^ Cardinality(1 .. n)
        /\ IsFiniteSet(SUBSET (1 .. n))
    BY <1>1, FS_SUBSET
  <1>3. Cardinality(SUBSET (1 .. n)) \in Nat
    BY <1>2, FS_CardinalityType
  <1> QED BY <1>1, <1>2, <1>3

LEMMA BackoffIsNat == ASSUME NEW n \in Nat PROVE Backoff(n) \in Nat
  <1> DEFINE power == 2 ^ n
  <1>1. power \in Nat
    BY PowersOfTwo
  <1>2. Backoff(n) = IF 60 < power THEN 60 ELSE power
    BY DEF Backoff, Minimum
  <1> HIDE DEF power
  <1> QED BY <1>1, <1>2

LEMMA RowTypedInit == Init => RowTyped
  BY OutboxAssumption DEF Init, RowTyped, Rows, RowStates, NoRow

\* Back-off and attempts stay within their types: a row is claimed below the
\* limit only.
LEMMA RowTypedNext == IInv /\ RowTyped /\ [Next]_vars => RowTyped'
  <1> SUFFICES ASSUME IInv, RowTyped, [Next]_vars PROVE RowTyped'
    OBVIOUS
  <1>0. \A d \in Dispatchers : task[d].at # "idle" => task[d].on \in Messages
    BY DEF IInv, Shape, TaskShape
  <1>1. ASSUME NEW m \in Messages, NEW rec \in Rows,
               row' = [row EXCEPT ![m] = rec]
        PROVE  RowTyped'
    BY <1>1 DEF RowTyped
  <1>2. ASSUME row' = row PROVE RowTyped'
    BY <1>2 DEF RowTyped
  <1>3. ASSUME NEW d \in Dispatchers, NEW m \in Messages, Enqueue(d, m)
        PROVE  RowTyped'
    <2> DEFINE rec == [row[m] EXCEPT !.state = "PENDING"]
    <2>1. rec \in Rows
      BY DEF RowTyped, Rows, RowStates
    <2>2. row' = [row EXCEPT ![m] = rec]
      BY <1>3 DEF Enqueue, RowTyped
    <2> HIDE DEF rec
    <2> QED BY <1>1, <2>1, <2>2
  <1>4. ASSUME NEW d \in Dispatchers, Claim(d) PROVE RowTyped'
    <2> DEFINE m == task[d].on
               rec == [row[m] EXCEPT !.state = "PROCESSING", !.attempts = @ + 1]
    <2>1. task[d].at = "claim" /\ m \in Messages
      BY <1>0, <1>4 DEF Claim
    <2>2. CASE Claimable(m)
      <3>1. row[m] \in Rows /\ row[m].attempts < MaxAttempts
        BY <2>1, <2>2 DEF Claimable, RowTyped
      <3>2. row[m].attempts + 1 \in 0 .. MaxAttempts
        BY <3>1, OutboxAssumption DEF Rows
      <3>3. rec \in Rows
        BY <3>1, <3>2 DEF Rows, RowStates
      <3>4. row' = [row EXCEPT ![m] = rec]
        BY <1>4, <2>1, <2>2 DEF Claim, RowTyped
      <3> HIDE DEF rec
      <3> QED BY <1>1, <2>1, <3>3, <3>4
    <2>3. CASE ~Claimable(m)
      BY <1>2, <1>4, <2>3 DEF Claim
    <2> QED BY <2>2, <2>3
  <1>5. ASSUME NEW d \in Dispatchers, Commit(d) PROVE RowTyped'
    <2> DEFINE m == task[d].on
               rec == [row[m] EXCEPT !.state = "SENT"]
    <2>1. task[d].at = "commit" /\ m \in Messages
      BY <1>0, <1>5 DEF Commit
    <2>2. rec \in Rows
      BY <2>1 DEF RowTyped, Rows, RowStates
    <2>3. row' = [row EXCEPT ![m] = rec]
      BY <1>5, <2>1 DEF Commit, RowTyped
    <2> HIDE DEF rec
    <2> QED BY <1>1, <2>1, <2>2, <2>3
  <1>6. ASSUME NEW d \in Dispatchers, Fail(d) PROVE RowTyped'
    <2> DEFINE m == task[d].on
               w == Backoff(row[m].attempts)
               rec == [row[m] EXCEPT !.state = "FAILED", !.wait = w]
    <2>1. task[d].at = "fail" /\ m \in Messages
      BY <1>0, <1>6 DEF Fail
    <2>2. row' = [row EXCEPT ![m] = rec]
      BY <1>6, <2>1 DEF Fail, RowTyped
    <2>3. row[m] \in Rows /\ row[m].attempts \in Nat
      BY <2>1, OutboxAssumption DEF RowTyped, Rows
    <2>4. w \in Nat
      BY <2>3, BackoffIsNat
    <2> HIDE DEF w
    <2>5. rec \in Rows
      BY <2>3, <2>4 DEF Rows, RowStates
    <2> HIDE DEF rec
    <2> QED BY <1>1, <2>1, <2>2, <2>5
  <1>7. CASE Tick
    <2> DEFINE w(m) == IF row[m].wait > 0 THEN row[m].wait - 1 ELSE 0
               rec(m) == [row[m] EXCEPT !.wait = w(m)]
    <2>1. \A m \in Messages : row[m] \in Rows /\ w(m) \in Nat
      BY DEF RowTyped, Rows
    <2>2. row' = [m \in Messages |-> rec(m)]
      BY <1>7 DEF Tick
    <2> HIDE DEF w
    <2>3. \A m \in Messages : rec(m) \in Rows
      BY <2>1 DEF Rows
    <2> HIDE DEF rec
    <2> QED BY <2>2, <2>3 DEF RowTyped
  <1>8. ASSUME NEW d \in Dispatchers, Dispatch(d) PROVE RowTyped'
    <2>1. CASE \E m \in Messages : Drain(d, m)
      BY <1>2, <2>1 DEF Drain
    <2>2. CASE Send(d) \/ CommitThrows(d) \/ DispatchThrows(d) \/ DispatcherDies(d)
      BY <1>2, <2>2 DEF Send, CommitThrows, DispatchThrows, DispatcherDies
    <2> QED BY <1>3, <1>4, <1>5, <1>6, <1>8, <2>1, <2>2 DEF Dispatch
  <1>9. ASSUME NEW h \in Hooks, Webhook(h) PROVE RowTyped'
    BY <1>2, <1>9 DEF Webhook, Report, CreateEvent, FindAttempt, UpdateStatus,
       MarkProcessed, HookFails, outgoing
  <1>10. CASE UNCHANGED vars \/ \E m \in Messages : EnqueueThrows(m)
    BY <1>2, <1>10 DEF vars, outgoing, EnqueueThrows
  <1> QED BY <1>7, <1>8, <1>9, <1>10 DEF Next

-----------------------------------------------------------------------------
(* Webhook requests *)

WebTyped ==
    /\ contact \in [Messages -> ContactStatuses]
    /\ ledger \in [Messages -> [Events -> {"absent", "received", "processed"}]]
    /\ applied \in [Messages -> [Events -> Nat]]
    /\ HookShape
    /\ faults \in 0 .. MaxFaults

\* Inductive form of "a status is backed by an email": what a request reports on
\* is out, and so is every email whose contact row says more than "failed".
BackedInv ==
    /\ StatusIsBacked
    /\ \A h \in Hooks : hook[h].at # "idle" => inbox[hook[h].on] = 1

WebInv == WebTyped /\ BackedInv

LEMMA WebInit == Init => WebInv
  <1> SUFFICES ASSUME Init PROVE WebInv
    OBVIOUS
  <1>1. /\ \A h \in Hooks : hook[h] = NoHook
        /\ hook = [h \in Hooks |-> NoHook]
        /\ NoHook \in HookRecords /\ NoHook.at = "idle"
    BY DEF Init, NoHook, HookRecords, HookStates, ContactStatuses
  <1>2. HookShape
    <2> HIDE DEF NoHook
    <2> QED BY <1>1 DEF HookShape
  <1>3. WebTyped
    BY <1>2, OutboxAssumption DEF Init, WebTyped, ContactStatuses
  <1>4. BackedInv
    <2> HIDE DEF NoHook
    <2> QED BY <1>1 DEF Init, BackedInv, StatusIsBacked
  <1> QED BY <1>3, <1>4 DEF WebInv

\* How the requests change when one of them does.
LEMMA HookUpdate ==
    ASSUME HookShape, NEW h \in Hooks, NEW rec \in HookRecords,
           rec.at # "idle" => rec.on \in Messages /\ rec.event \in Events,
           hook' = [hook EXCEPT ![h] = rec]
    PROVE  /\ HookShape' /\ hook'[h] = rec
           /\ \A k \in Hooks : k # h => hook'[k] = hook[k]
  BY DEF HookShape

LEMMA HookLeaves ==
    ASSUME HookShape, NEW h \in Hooks, hook' = [hook EXCEPT ![h] = NoHook]
    PROVE  /\ HookShape' /\ hook'[h].at = "idle"
           /\ \A k \in Hooks : k # h => hook'[k] = hook[k]
  <1>1. NoHook \in HookRecords /\ NoHook.at = "idle"
    BY DEF NoHook, HookRecords, HookStates, ContactStatuses
  <1> HIDE DEF NoHook
  <1> QED BY <1>1, HookUpdate

LEMMA HookMoves ==
    ASSUME HookShape, NEW h \in Hooks, hook[h].at # "idle",
           NEW at \in HookStates \ {"idle"}, hook' = [hook EXCEPT ![h].at = at]
    PROVE  /\ HookShape' /\ hook'[h].at = at /\ hook'[h].on = hook[h].on
           /\ hook'[h].event = hook[h].event /\ hook'[h].seen = hook[h].seen
           /\ \A k \in Hooks : k # h => hook'[k] = hook[k]
  <1> DEFINE rec == [hook[h] EXCEPT !.at = at]
  <1>1. /\ rec \in HookRecords /\ rec.at = at /\ rec.on = hook[h].on
        /\ rec.event = hook[h].event /\ rec.seen = hook[h].seen
    BY DEF HookShape, HookRecords
  <1>2. hook' = [hook EXCEPT ![h] = rec]
    BY DEF HookShape
  <1>3. rec.on \in Messages /\ rec.event \in Events
    BY <1>1 DEF HookShape
  <1> HIDE DEF rec
  <1> QED BY <1>1, <1>2, <1>3, HookUpdate

LEMMA HookReports ==
    ASSUME HookShape, NEW h \in Hooks, NEW m \in Messages, NEW e \in Events,
           Report(h, m, e)
    PROVE  /\ HookShape' /\ hook'[h].on = m /\ hook'[h].event = e
           /\ hook'[h].at = IF ledger[m][e] = "absent" THEN "create" ELSE "read"
           /\ \A k \in Hooks : k # h => hook'[k] = hook[k]
  <1> DEFINE at == IF ledger[m][e] = "absent" THEN "create" ELSE "read"
             rec == [at |-> at, on |-> m, event |-> e, seen |-> "SENT"]
  <1>1. at \in HookStates
    BY DEF HookStates
  <1>2. hook' = [hook EXCEPT ![h] = rec]
    BY DEF Report
  <1>3. hook'[h].at = at /\ rec \in HookRecords /\ rec.on = m /\ rec.event = e
    <2>1. at \in HookStates
      BY <1>1
    <2>2. rec.at = at
      OBVIOUS
    <2> HIDE DEF at
    <2>3. rec \in HookRecords /\ rec.on = m /\ rec.event = e
      BY <2>1, OutboxAssumption DEF HookRecords, ContactStatuses
    <2> HIDE DEF rec
    <2> QED BY <1>2, <2>2, <2>3 DEF HookShape
  <1>4. HookShape' /\ \A k \in Hooks : k # h => hook'[k] = hook[k]
    <2> HIDE DEF at
    <2> HIDE DEF rec
    <2>1. hook'[h] = rec
      BY <1>2 DEF HookShape
    <2> QED BY <1>2, <1>3, HookUpdate
  <1>5. hook'[h].on = m /\ hook'[h].event = e
    <2> HIDE DEF at
    <2> HIDE DEF rec
    <2> QED BY <1>2, <1>3 DEF HookShape
  <1> QED BY <1>3, <1>4, <1>5

LEMMA HookReads ==
    ASSUME HookShape, contact \in [Messages -> ContactStatuses],
           NEW h \in Hooks, FindAttempt(h)
    PROVE  /\ HookShape' /\ hook'[h].at = "write" /\ hook'[h].on = hook[h].on
           /\ hook'[h].event = hook[h].event
           /\ hook'[h].seen = contact[hook[h].on]
           /\ \A k \in Hooks : k # h => hook'[k] = hook[k]
  <1> DEFINE s == contact[hook[h].on]
             rec == [hook[h] EXCEPT !.at = "write", !.seen = s]
  <1>0. hook[h].on \in Messages /\ hook[h].event \in Events
    BY DEF HookShape, FindAttempt
  <1>1. s \in ContactStatuses
    BY <1>0
  <1>2. hook' = [hook EXCEPT ![h] = rec]
    BY DEF HookShape, FindAttempt
  <1>3. /\ rec \in HookRecords /\ rec.at = "write" /\ rec.on = hook[h].on
        /\ rec.event = hook[h].event /\ rec.seen = s
    <2> HIDE DEF s
    <2> QED BY <1>1 DEF HookShape, HookRecords, HookStates
  <1>4. HookShape' /\ hook'[h] = rec /\ \A k \in Hooks : k # h => hook'[k] = hook[k]
    <2> HIDE DEF rec
    <2> QED BY <1>0, <1>2, <1>3, HookUpdate
  <1> QED BY <1>3, <1>4

\* One cell of the ledger or of the timeline changes.
LEMMA LedgerUpdate ==
    ASSUME NEW m \in Messages, NEW e \in Events,
           NEW x \in {"absent", "received", "processed"},
           ledger \in [Messages -> [Events -> {"absent", "received", "processed"}]],
           ledger' = [ledger EXCEPT ![m][e] = x]
    PROVE  /\ ledger' \in [Messages -> [Events -> {"absent", "received", "processed"}]]
           /\ ledger'[m][e] = x
           /\ \A k \in Messages, f \in Events :
                k # m \/ f # e => ledger'[k][f] = ledger[k][f]
  <1> DEFINE inner == [ledger[m] EXCEPT ![e] = x]
  <1>1. /\ inner \in [Events -> {"absent", "received", "processed"}]
        /\ inner[e] = x /\ \A f \in Events : f # e => inner[f] = ledger[m][f]
    OBVIOUS
  <1>2. ledger' = [ledger EXCEPT ![m] = inner]
    OBVIOUS
  <1> HIDE DEF inner
  <1> QED BY <1>1, <1>2

LEMMA AppliedUpdate ==
    ASSUME NEW m \in Messages, NEW e \in Events,
           applied \in [Messages -> [Events -> Nat]],
           applied' = [applied EXCEPT ![m][e] = @ + 1]
    PROVE  /\ applied' \in [Messages -> [Events -> Nat]]
           /\ applied'[m][e] = applied[m][e] + 1
           /\ \A k \in Messages, f \in Events :
                k # m \/ f # e => applied'[k][f] = applied[k][f]
  <1> DEFINE x == applied[m][e] + 1
             inner == [applied[m] EXCEPT ![e] = x]
  <1>1. x \in Nat
    OBVIOUS
  <1>2. applied' = [applied EXCEPT ![m] = inner]
    OBVIOUS
  <1>3. /\ inner \in [Events -> Nat]
        /\ inner[e] = x /\ \A f \in Events : f # e => inner[f] = applied[m][f]
    <2> HIDE DEF x
    <2> QED BY <1>1
  <1>4. /\ applied' \in [Messages -> [Events -> Nat]]
        /\ applied'[m][e] = x
        /\ \A k \in Messages, f \in Events :
             k # m \/ f # e => applied'[k][f] = applied[k][f]
    <2> HIDE DEF inner, x
    <2> QED BY <1>2, <1>3
  <1> QED BY <1>4

\* What the customer has got, the customer keeps.
LEMMA InboxGrows ==
    ASSUME IInv, [Next]_vars
    PROVE  \A m \in Messages : inbox[m] = 1 => inbox'[m] = 1
  <1>1. ASSUME NEW d \in Dispatchers, Send(d)
        PROVE  \A m \in Messages : inbox[m] = 1 => inbox'[m] = 1
    <2>1. Shape /\ task[d].on \in Messages
      BY <1>1 DEF IInv, Shape, TaskShape, Send
    <2>2. inbox' = inbox \/ inbox' = Accept(task[d].on)
      BY <1>1 DEF Send
    <2> QED BY <2>1, <2>2, AcceptOnce
  <1>2. ASSUME NEW d \in Dispatchers, Dispatch(d), ~Send(d)
        PROVE  inbox' = inbox
    BY <1>2 DEF Dispatch, Enqueue, Drain, Claim, Commit, CommitThrows, Fail,
       DispatchThrows, DispatcherDies
  <1>3. ASSUME NEW h \in Hooks, Webhook(h) PROVE inbox' = inbox
    BY <1>3 DEF Webhook, Report, CreateEvent, FindAttempt, UpdateStatus,
       MarkProcessed, HookFails, outgoing
  <1>4. CASE Tick \/ UNCHANGED vars \/ \E m \in Messages : EnqueueThrows(m)
    BY <1>4 DEF Tick, vars, outgoing, EnqueueThrows
  <1> QED BY <1>1, <1>2, <1>3, <1>4 DEF Next

Fault == faults < MaxFaults /\ faults' = faults + 1

\* A step of a dispatch, of the clock or of a failing enqueue leaves the requests
\* alone and writes "sent" of an email that is out, or "failed".
LEMMA OutgoingContact ==
    ASSUME IInv, contact \in [Messages -> ContactStatuses],
           \/ \E d \in Dispatchers : Dispatch(d)
           \/ \E m \in Messages : EnqueueThrows(m)
           \/ Tick
    PROVE  /\ UNCHANGED incoming
           /\ faults' = faults \/ Fault
           /\ contact' \in [Messages -> ContactStatuses]
           /\ \A m \in Messages :
                \/ contact'[m] = contact[m]
                \/ contact'[m] = "FAILED"
                \/ contact'[m] = "SENT" /\ inbox[m] = 1
  <1>1. ASSUME NEW d \in Dispatchers, Commit(d)
        PROVE  /\ contact' \in [Messages -> ContactStatuses]
               /\ \A m \in Messages : \/ contact'[m] = contact[m]
                                      \/ contact'[m] = "SENT" /\ inbox[m] = 1
               /\ UNCHANGED << incoming, faults >>
    <2>1. /\ task[d].on \in Messages /\ inbox[task[d].on] = 1
          /\ contact' = [contact EXCEPT ![task[d].on] = "SENT"]
      BY <1>1 DEF IInv, Shape, TaskShape, DeliveryInv, Commit
    <2>2. UNCHANGED << incoming, faults >>
      BY <1>1 DEF Commit
    <2> QED BY <2>1, <2>2 DEF ContactStatuses
  <1>2. ASSUME NEW d \in Dispatchers, DispatchThrows(d)
        PROVE  /\ contact' \in [Messages -> ContactStatuses]
               /\ \A m \in Messages : \/ contact'[m] = contact[m]
                                      \/ contact'[m] = "FAILED"
               /\ UNCHANGED incoming
               /\ Fault
    BY <1>2 DEF DispatchThrows, Fault, ContactStatuses
  <1>3. ASSUME NEW m \in Messages, EnqueueThrows(m)
        PROVE  /\ contact' \in [Messages -> ContactStatuses]
               /\ \A k \in Messages : \/ contact'[k] = contact[k]
                                      \/ contact'[k] = "FAILED"
               /\ UNCHANGED incoming
               /\ Fault
    BY <1>3 DEF EnqueueThrows, Fault, ContactStatuses
  <1>4. ASSUME NEW d \in Dispatchers, Dispatch(d), ~Commit(d), ~DispatchThrows(d)
        PROVE  /\ contact' = contact /\ UNCHANGED incoming
               /\ faults' = faults \/ Fault
    BY <1>4 DEF Dispatch, Enqueue, Drain, Claim, Send, CommitThrows, Fail,
       DispatcherDies, Fault
  <1>5. CASE Tick
    BY <1>5 DEF Tick
  <1> QED BY <1>1, <1>2, <1>3, <1>4, <1>5

\* A request writes what it read, or the event of an email that is out.
LEMMA WebhookOK ==
    ASSUME IInv, WebInv, NEW h \in Hooks, Webhook(h)
    PROVE  /\ WebTyped' /\ inbox' = inbox
           /\ \A m \in Messages : contact'[m] = contact[m] \/ inbox[m] = 1
           /\ \A k \in Hooks : hook'[k].at # "idle" => inbox[hook'[k].on] = 1
  <1>0. WebTyped /\ BackedInv /\ HookShape
    BY DEF WebInv, WebTyped
  <1>1. inbox' = inbox
    BY DEF Webhook, Report, CreateEvent, FindAttempt, UpdateStatus,
       MarkProcessed, HookFails, outgoing
  <1> DEFINE m == hook[h].on
             e == hook[h].event
             Goal == /\ WebTyped'
                     /\ \A k \in Messages : contact'[k] = contact[k] \/ inbox[k] = 1
                     /\ \A k \in Hooks :
                          hook'[k].at # "idle" => inbox[hook'[k].on] = 1
  <1>2. hook[h].at # "idle" => m \in Messages /\ e \in Events /\ inbox[m] = 1
    BY <1>0 DEF HookShape, BackedInv
  <1>3. ASSUME NEW k \in Messages, NEW f \in Events, Report(h, k, f) PROVE Goal
    <2>1. UNCHANGED << contact, ledger, applied, faults >> /\ inbox[k] > 0
      BY <1>3 DEF Report
    <2>2. inbox[k] = 1
      BY <1>3, <2>1 DEF IInv, Shape
    <2> QED BY <1>0, <1>3, <2>1, <2>2, HookReports DEF WebTyped, BackedInv
  <1>4. ASSUME CreateEvent(h) PROVE Goal
    <2>1. UNCHANGED << contact, applied, faults >> /\ hook[h].at = "create"
      BY <1>4 DEF CreateEvent
    <2>2. ASSUME ledger[m][e] = "absent" PROVE Goal
      <3>1. /\ ledger' = [ledger EXCEPT ![m][e] = "received"]
            /\ hook' = [hook EXCEPT ![h].at = "read"]
        BY <1>4, <2>2 DEF CreateEvent
      <3>2. /\ HookShape' /\ hook'[h].on = m
            /\ \A k \in Hooks : k # h => hook'[k] = hook[k]
        BY <1>0, <2>1, <3>1, HookMoves DEF HookStates
      <3>3. ledger' \in [Messages -> [Events -> {"absent", "received", "processed"}]]
        BY <1>0, <1>2, <2>1, <3>1, LedgerUpdate DEF WebTyped
      <3> QED BY <1>0, <1>2, <2>1, <3>2, <3>3 DEF WebTyped, BackedInv
    <2>3. ASSUME ledger[m][e] # "absent" PROVE Goal
      <3>1. hook' = [hook EXCEPT ![h] = NoHook] /\ ledger' = ledger
        BY <1>4, <2>3 DEF CreateEvent
      <3>2. /\ HookShape' /\ hook'[h].at = "idle"
            /\ \A k \in Hooks : k # h => hook'[k] = hook[k]
        BY <1>0, <3>1, HookLeaves
      <3> QED BY <1>0, <2>1, <3>1, <3>2 DEF WebTyped, BackedInv
    <2> QED BY <2>2, <2>3
  <1>5. ASSUME FindAttempt(h) PROVE Goal
    <2>1. UNCHANGED << contact, ledger, applied, faults >> /\ hook[h].at = "read"
      BY <1>5 DEF FindAttempt
    <2>2. /\ HookShape' /\ hook'[h].on = m
          /\ \A k \in Hooks : k # h => hook'[k] = hook[k]
      BY <1>0, <1>5, HookReads DEF WebTyped
    <2>3. contact' = contact /\ ledger' = ledger /\ applied' = applied
          /\ faults' = faults
      BY <2>1
    <2> QED BY <1>0, <1>2, <2>1, <2>2, <2>3 DEF WebTyped, BackedInv
  <1>6. ASSUME UpdateStatus(h) PROVE Goal
    <2> DEFINE s == NextStatus(hook[h].seen, e)
    <2>1. /\ hook[h].at = "write" /\ UNCHANGED << ledger, faults >>
          /\ contact' = [contact EXCEPT ![m] = s]
          /\ applied' = [applied EXCEPT ![m][e] = @ + 1]
          /\ hook' = [hook EXCEPT ![h].at = "mark"]
      BY <1>6 DEF UpdateStatus
    <2>2. hook[h].seen \in ContactStatuses
      BY <1>0 DEF HookShape, HookRecords
    <2>3. s \in ContactStatuses
      BY <1>2, <2>1, <2>2, OutboxAssumption DEF NextStatus
    <2> HIDE DEF s
    <2>4. /\ contact' \in [Messages -> ContactStatuses]
          /\ \A k \in Messages : contact'[k] = contact[k] \/ inbox[k] = 1
      BY <1>0, <1>2, <2>1, <2>3 DEF WebTyped
    <2>5. applied' \in [Messages -> [Events -> Nat]]
      BY <1>0, <1>2, <2>1, AppliedUpdate DEF WebTyped
    <2>6. /\ HookShape' /\ hook'[h].on = m
          /\ \A k \in Hooks : k # h => hook'[k] = hook[k]
      BY <1>0, <2>1, HookMoves DEF HookStates
    <2> QED BY <1>0, <1>2, <2>1, <2>4, <2>5, <2>6 DEF WebTyped, BackedInv
  <1>7. ASSUME MarkProcessed(h) PROVE Goal
    <2>1. /\ hook[h].at = "mark" /\ UNCHANGED << contact, applied, faults >>
          /\ ledger' = [ledger EXCEPT ![m][e] = "processed"]
          /\ hook' = [hook EXCEPT ![h] = NoHook]
      BY <1>7 DEF MarkProcessed
    <2>2. ledger' \in [Messages -> [Events -> {"absent", "received", "processed"}]]
      BY <1>0, <1>2, <2>1, LedgerUpdate DEF WebTyped
    <2>3. /\ HookShape' /\ hook'[h].at = "idle"
          /\ \A k \in Hooks : k # h => hook'[k] = hook[k]
      BY <1>0, <2>1, HookLeaves
    <2> QED BY <1>0, <2>1, <2>2, <2>3 DEF WebTyped, BackedInv
  <1>8. ASSUME HookFails(h) PROVE Goal
    <2>1. /\ faults < MaxFaults /\ faults' = faults + 1
          /\ UNCHANGED << contact, ledger, applied >>
          /\ hook' = [hook EXCEPT ![h] = NoHook]
      BY <1>8 DEF HookFails
    <2>2. faults' \in 0 .. MaxFaults
      BY <1>0, <2>1, OutboxAssumption DEF WebTyped
    <2> QED BY <1>0, <2>1, <2>2, HookLeaves DEF WebTyped, BackedInv
  <1>9. Goal
    BY <1>3, <1>4, <1>5, <1>6, <1>7, <1>8 DEF Webhook
  <1> QED BY <1>1, <1>9

LEMMA WebNext == IInv /\ WebInv /\ [Next]_vars => WebInv'
  <1> SUFFICES ASSUME IInv, WebInv, [Next]_vars PROVE WebInv'
    OBVIOUS
  <1>0. WebTyped /\ BackedInv /\ \A m \in Messages : inbox[m] = 1 => inbox'[m] = 1
    BY InboxGrows DEF WebInv
  <1>1. CASE \/ \E d \in Dispatchers : Dispatch(d)
             \/ \E m \in Messages : EnqueueThrows(m)
             \/ Tick
    <2>1. /\ UNCHANGED << ledger, applied, hook >>
          /\ faults' = faults \/ Fault
          /\ contact' \in [Messages -> ContactStatuses]
          /\ \A m \in Messages :
               \/ contact'[m] = contact[m]
               \/ contact'[m] = "FAILED"
               \/ contact'[m] = "SENT" /\ inbox[m] = 1
      BY <1>0, <1>1, OutgoingContact DEF WebTyped, incoming
    <2>2. faults' \in 0 .. MaxFaults
      BY <1>0, <2>1, OutboxAssumption DEF WebTyped, Fault
    <2>3. WebTyped'
      BY <1>0, <2>1, <2>2 DEF WebTyped, HookShape
    <2>4. StatusIsBacked'
      BY <1>0, <2>1 DEF BackedInv, StatusIsBacked
    <2>5. \A h \in Hooks : hook[h].at # "idle" => hook[h].on \in Messages
      BY <1>0 DEF WebTyped, HookShape
    <2>6. BackedInv'
      BY <1>0, <2>1, <2>4, <2>5 DEF BackedInv
    <2> QED BY <2>3, <2>6 DEF WebInv
  <1>2. ASSUME NEW h \in Hooks, Webhook(h) PROVE WebInv'
    <2>1. /\ WebTyped' /\ inbox' = inbox
          /\ \A m \in Messages : contact'[m] = contact[m] \/ inbox[m] = 1
          /\ \A k \in Hooks : hook'[k].at # "idle" => inbox[hook'[k].on] = 1
      BY <1>2, WebhookOK
    <2> QED BY <1>0, <2>1 DEF WebInv, BackedInv, StatusIsBacked
  <1>3. CASE UNCHANGED vars
    BY <1>0, <1>3 DEF vars, outgoing, incoming, WebInv, WebTyped, HookShape,
       BackedInv, StatusIsBacked
  <1> QED BY <1>1, <1>2, <1>3 DEF Next

\* Rows, contact attempts, dispatches, webhook requests, ledger and timeline keep
\* their types, and no row is tried more often than MaxAttempts.
THEOREM OutboxTyped == Spec => []TypeOK
  <1>1. IInv /\ RowTyped /\ WebInv => TypeOK
    <2> SUFFICES ASSUME IInv, RowTyped, WebInv PROVE TypeOK
      OBVIOUS
    <2>1. row \in [Messages -> [state : {"NONE", "PENDING", "PROCESSING", "SENT",
                                       "FAILED"},
                              attempts : 0 .. MaxAttempts, wait : Nat]]
      BY DEF RowTyped, Rows, RowStates
    <2>2. TaskShape
      BY DEF IInv, Shape
    <2>3. inbox \in [Messages -> Nat]
      BY DEF IInv, Shape
    <2>4. WebTyped /\ HookShape
      BY DEF WebInv, WebTyped
    <2>5. hook \in [Hooks -> [at : {"idle", "create", "read", "write", "mark"},
                             on : Messages \cup {NoMessage},
                             event : Events \cup {"SENT"},
                             seen : ContactStatuses]]
      BY <2>4 DEF HookShape, HookRecords, HookStates
    <2>6. \A h \in Hooks : hook[h].at # "idle" =>
            hook[h].on \in Messages /\ hook[h].event \in Events
      BY <2>4 DEF HookShape
    <2>7. /\ contact \in [Messages -> ContactStatuses]
          /\ ledger \in [Messages -> [Events -> {"absent", "received", "processed"}]]
          /\ applied \in [Messages -> [Events -> Nat]]
          /\ faults \in 0 .. MaxFaults
      BY <2>4 DEF WebTyped
    <2> QED BY <2>1, <2>2, <2>3, <2>5, <2>6, <2>7, Zenon DEF TypeOK, TaskShape
  <1> QED BY InitOK, NextOK, RowTypedInit, RowTypedNext, WebInit, WebNext, <1>1,
             PTL DEF Spec

\* No status but "not sent" and "failed" is claimed of an email the customer did
\* not get, whichever of dispatcher and webhook writes first.
THEOREM StatusesAreBacked == Spec => []StatusIsBacked
  <1>1. WebInv => StatusIsBacked
    BY DEF WebInv, BackedInv
  <1> QED BY InitOK, NextOK, WebInit, WebNext, <1>1, PTL DEF Spec

-----------------------------------------------------------------------------
(* Failures are final *)

\* A status read as a failure is written back as it was.
LEMMA FailureStays ==
    ASSUME NEW current \in {"BOUNCED", "FAILED"}, NEW next
    PROVE  NextStatus(current, next) = current
  BY DEF NextStatus, ShouldAdvance

\* From the moment a failure is known, no later, repeated or reordered event and
\* no other dispatch makes the attempt look delivered again.
THEOREM FailuresAreFinal == Spec => FailureIsFinal
  <1>1. ASSUME IInv, WebInv, [Next]_vars, NEW m \in Messages, FailureKnown(m)
        PROVE  FailureKnown(m)'
    <2>0. /\ RowShape /\ TaskShape /\ WebTyped /\ HookShape
          /\ contact[m] \in {"BOUNCED", "FAILED"} /\ row[m].state = "SENT"
          /\ \A d \in Dispatchers : task[d].on # m
          /\ \A h \in Hooks : hook[h].on = m /\ hook[h].at = "write"
                                => hook[h].seen \in {"BOUNCED", "FAILED"}
      BY <1>1 DEF IInv, Shape, WebInv, WebTyped, FailureKnown
    <2> DEFINE Quiet == \A h \in Hooks : hook'[h].on = m /\ hook'[h].at = "write"
                                           => hook'[h].seen \in {"BOUNCED", "FAILED"}
               Sent == /\ row'[m].state = "SENT"
                       /\ \A d \in Dispatchers : task'[d].on # m
               Failed == contact'[m] \in {"BOUNCED", "FAILED"}
    <2>1. ASSUME Quiet, Sent, Failed PROVE FailureKnown(m)'
      BY <2>1 DEF FailureKnown
    <2>2. ASSUME UNCHANGED incoming PROVE Quiet
      BY <2>0, <2>2 DEF incoming
    <2>3. ASSUME UNCHANGED << row, task >> PROVE Sent
      BY <2>0, <2>3
    <2>4. ASSUME contact' = contact PROVE Failed
      BY <2>0, <2>4
    <2>5. ASSUME NEW d \in Dispatchers, Leave(d)
          PROVE  \A e \in Dispatchers : task'[e].on # m
      BY <2>0, <2>5, OutboxAssumption DEF Leave, NoTask, TaskShape
    <2>6. ASSUME NEW d \in Dispatchers, NEW at \in {"send", "commit", "fail"},
                 task[d].at # "idle", Step(d, at)
          PROVE  \A e \in Dispatchers : task'[e].on # m
      BY <2>0, <2>6, StepOK
    <2>7. ASSUME NEW d \in Dispatchers, Dispatch(d)
          PROVE  Quiet /\ Sent /\ Failed
      <3>0. /\ task[d].on # m
            /\ task[d].at # "idle" => task[d].on \in Messages
        BY <2>0 DEF TaskShape
      <3>1. ASSUME NEW k \in Messages, Enqueue(d, k) PROVE Quiet /\ Sent /\ Failed
        <4>1. /\ row[k].state = "NONE" /\ k # m
              /\ UNCHANGED incoming /\ contact' = contact
          BY <2>0, <3>1 DEF Enqueue
        <4>2. \A e \in Dispatchers : task'[e].on # m
          BY <2>0, <3>1, <4>1, TakeOK DEF Enqueue
        <4>3. row'[m].state = "SENT"
          BY <2>0, <3>1, <4>1, EnqueueRow
        <4> QED BY <2>2, <2>4, <4>1, <4>2, <4>3
      <3>2. ASSUME NEW k \in Messages, Drain(d, k) PROVE Quiet /\ Sent /\ Failed
        <4>1. /\ k # m /\ row' = row
              /\ UNCHANGED incoming /\ contact' = contact
          BY <2>0, <3>2 DEF Drain, Claimable
        <4>2. \A e \in Dispatchers : task'[e].on # m
          BY <2>0, <3>2, <4>1, TakeOK DEF Drain
        <4> QED BY <2>0, <2>2, <2>4, <4>1, <4>2
      <3>3. CASE Claim(d)
        <4>1. UNCHANGED incoming /\ contact' = contact /\ task[d].at = "claim"
          BY <3>3 DEF Claim
        <4>2. CASE Claimable(task[d].on)
          <5>1. row'[m].state = "SENT"
            BY <2>0, <3>0, <3>3, <4>1, <4>2, ClaimRow
          <5>2. Step(d, "send")
            BY <3>3, <4>2 DEF Claim
          <5>3. \A e \in Dispatchers : task'[e].on # m
            BY <2>6, <4>1, <5>2
          <5> QED BY <2>2, <2>4, <4>1, <5>1, <5>3
        <4>3. CASE ~Claimable(task[d].on)
          BY <2>0, <2>2, <2>4, <2>5, <3>3, <4>1, <4>3 DEF Claim
        <4> QED BY <4>2, <4>3
      <3>4. CASE Send(d)
        <4>1. /\ UNCHANGED incoming /\ contact' = contact /\ row' = row
              /\ task[d].at = "send"
              /\ Step(d, "commit") \/ Step(d, "fail")
          BY <3>4 DEF Send
        <4>2. \A e \in Dispatchers : task'[e].on # m
          BY <2>6, <4>1
        <4> QED BY <2>0, <2>2, <2>4, <4>1, <4>2
      <3>5. CASE Commit(d)
        <4>1. /\ UNCHANGED incoming /\ Leave(d) /\ task[d].at = "commit"
              /\ contact' = [contact EXCEPT ![task[d].on] = "SENT"]
          BY <3>5 DEF Commit
        <4>2. contact'[m] = contact[m]
          BY <2>0, <3>0, <4>1 DEF WebTyped
        <4>3. row'[m].state = "SENT"
          BY <2>0, <3>0, <3>5, <4>1, CommitRow
        <4> QED BY <2>0, <2>2, <2>5, <4>1, <4>2, <4>3
      <3>6. CASE CommitThrows(d)
        <4>1. /\ UNCHANGED incoming /\ contact' = contact /\ row' = row
              /\ task[d].at = "commit" /\ Step(d, "fail")
          BY <3>6 DEF CommitThrows
        <4>2. \A e \in Dispatchers : task'[e].on # m
          BY <2>6, <4>1
        <4> QED BY <2>0, <2>2, <2>4, <4>1, <4>2
      <3>7. CASE Fail(d)
        <4>1. /\ UNCHANGED incoming /\ contact' = contact
              /\ Leave(d) /\ task[d].at = "fail"
          BY <3>7 DEF Fail
        <4>2. row'[m].state = "SENT"
          BY <2>0, <3>0, <3>7, <4>1, FailRow
        <4> QED BY <2>2, <2>4, <2>5, <4>1, <4>2
      <3>8. CASE DispatchThrows(d)
        <4>1. /\ UNCHANGED incoming /\ Leave(d) /\ row' = row
              /\ contact' = IF task[d].own
                            THEN [contact EXCEPT ![task[d].on] = "FAILED"]
                            ELSE contact
          BY <3>8 DEF DispatchThrows
        <4>2. contact'[m] = contact[m]
          BY <2>0, <3>0, <4>1 DEF WebTyped
        <4> QED BY <2>0, <2>2, <2>5, <4>1, <4>2
      <3>9. CASE DispatcherDies(d)
        <4>1. UNCHANGED incoming /\ contact' = contact /\ row' = row /\ Leave(d)
          BY <3>9 DEF DispatcherDies
        <4> QED BY <2>0, <2>2, <2>4, <2>5, <4>1
      <3> QED BY <2>7, <3>1, <3>2, <3>3, <3>4, <3>5, <3>6, <3>7, <3>8, <3>9
              DEF Dispatch
    <2>8. ASSUME NEW k \in Messages, EnqueueThrows(k)
          PROVE  Quiet /\ Sent /\ Failed
      <3>1. /\ UNCHANGED outgoing /\ UNCHANGED incoming /\ row[k].state = "NONE"
            /\ contact' = [contact EXCEPT ![k] = "FAILED"]
        BY <2>8 DEF EnqueueThrows
      <3>2. k # m
        BY <2>0, <3>1
      <3> QED BY <2>0, <2>2, <2>3, <3>1, <3>2 DEF WebTyped, outgoing
    <2>9. CASE Tick
      <3>1. /\ UNCHANGED incoming /\ contact' = contact /\ task' = task
            /\ row'[m].state = row[m].state
        BY <2>0, <2>9, TickRows DEF Tick
      <3> QED BY <2>0, <2>1, <2>2, <2>4, <3>1
    <2>10. ASSUME NEW h \in Hooks, Webhook(h) PROVE FailureKnown(m)'
      <3>0. /\ UNCHANGED << row, task >>
            /\ hook[h].at # "idle" => hook[h].on \in Messages
        BY <2>0, <2>10 DEF Webhook, Report, CreateEvent, FindAttempt, UpdateStatus,
           MarkProcessed, HookFails, outgoing, HookShape
      <3>2. ASSUME hook'[h].at # "write", \A k \in Hooks : k # h => hook'[k] = hook[k]
            PROVE  Quiet
        BY <2>0, <3>2
      <3>3. ASSUME NEW k \in Messages, NEW e \in Events, Report(h, k, e)
            PROVE  Quiet /\ Failed
        <4>1. contact' = contact
          BY <3>3 DEF Report
        <4>2. Quiet
          BY <2>0, <3>2, <3>3, HookReports
        <4> QED BY <2>4, <4>1, <4>2
      <3>4. ASSUME CreateEvent(h) PROVE Quiet /\ Failed
        <4>1. /\ contact' = contact /\ hook[h].at = "create"
              /\ \/ hook' = [hook EXCEPT ![h].at = "read"]
                 \/ hook' = [hook EXCEPT ![h] = NoHook]
          BY <3>4 DEF CreateEvent
        <4>2. CASE hook' = [hook EXCEPT ![h].at = "read"]
          BY <2>0, <2>4, <3>2, <4>1, <4>2, HookMoves DEF HookStates
        <4>3. CASE hook' = [hook EXCEPT ![h] = NoHook]
          BY <2>0, <2>4, <3>2, <4>1, <4>3, HookLeaves
        <4> QED BY <4>1, <4>2, <4>3
      <3>5. ASSUME FindAttempt(h) PROVE Quiet /\ Failed
        <4>1. contact' = contact
          BY <3>5 DEF FindAttempt
        <4>2. /\ hook'[h].on = hook[h].on /\ hook'[h].seen = contact[hook[h].on]
              /\ \A k \in Hooks : k # h => hook'[k] = hook[k]
          BY <2>0, <3>5, HookReads DEF WebTyped
        <4> QED BY <2>0, <2>4, <4>1, <4>2
      <3>6. ASSUME UpdateStatus(h) PROVE Quiet /\ Failed
        <4> DEFINE s == NextStatus(hook[h].seen, hook[h].event)
        <4>1. /\ contact' = [contact EXCEPT ![hook[h].on] = s]
              /\ hook' = [hook EXCEPT ![h].at = "mark"] /\ hook[h].at = "write"
          BY <3>6 DEF UpdateStatus
        <4>2. hook[h].on = m => s = hook[h].seen /\ s \in {"BOUNCED", "FAILED"}
          BY <2>0, <4>1, FailureStays
        <4> HIDE DEF s
        <4>3. Failed
          BY <2>0, <4>1, <4>2 DEF WebTyped
        <4>4. /\ hook'[h].at # "write"
              /\ \A k \in Hooks : k # h => hook'[k] = hook[k]
          <5>1. /\ HookShape /\ hook[h].at # "idle"
                /\ "mark" \in HookStates \ {"idle"}
            BY <2>0, <4>1 DEF HookStates
          <5>2. /\ hook'[h].at = "mark"
                /\ \A k \in Hooks : k # h => hook'[k] = hook[k]
            BY <4>1, <5>1, HookMoves
          <5> QED BY <5>2
        <4> QED BY <3>2, <4>3, <4>4
      <3>7. ASSUME MarkProcessed(h) \/ HookFails(h) PROVE Quiet /\ Failed
        <4>1. contact' = contact /\ hook' = [hook EXCEPT ![h] = NoHook]
          BY <3>7 DEF MarkProcessed, HookFails
        <4>2. /\ hook'[h].at # "write"
              /\ \A k \in Hooks : k # h => hook'[k] = hook[k]
          BY <2>0, <4>1, HookLeaves
        <4> QED BY <2>4, <3>2, <4>1, <4>2
      <3>8. Quiet /\ Failed
        BY <2>10, <3>3, <3>4, <3>5, <3>6, <3>7 DEF Webhook
      <3> QED BY <2>1, <2>3, <3>0, <3>8
    <2>11. CASE UNCHANGED vars
      BY <2>1, <2>2, <2>3, <2>4, <2>11 DEF vars, outgoing
    <2> QED BY <1>1, <2>1, <2>7, <2>8, <2>9, <2>10, <2>11 DEF Next
  <1>2. IInv /\ WebInv /\ [Next]_vars
          => [\A m \in Messages : FailureKnown(m) => FailureKnown(m)']_vars
    BY <1>1
  <1> QED BY InitOK, NextOK, WebInit, WebNext, <1>2, PTL DEF Spec, FailureIsFinal

-----------------------------------------------------------------------------
(* How often an event reaches the timeline *)

\* The requests that have written an event and not marked it yet, and those that
\* are on their way to write it.
Marking(m, e) ==
    {h \in Hooks : /\ hook[h].on = m /\ hook[h].event = e
                   /\ hook[h].at = "mark"}

Working(m, e) ==
    {h \in Hooks : /\ hook[h].on = m /\ hook[h].event = e
                   /\ hook[h].at \in {"read", "write"}}

\* Until a request marks the event, what is applied is owed to requests about to
\* mark it or to faults. Once it is marked no request joins those at work on it.
AppliedCell(m, e) ==
    /\ ledger[m][e] # "processed"
         => applied[m][e] =< Cardinality(Marking(m, e)) + faults
    /\ ledger[m][e] = "processed"
         => applied[m][e] + Cardinality(Working(m, e)) =< Cardinality(Hooks) + faults

AppliedInv == \A m \in Messages, e \in Events : AppliedCell(m, e)

\* Sets of requests that differ in one request at most.
LEMMA OneChanges ==
    ASSUME NEW A \in SUBSET Hooks, NEW B \in SUBSET Hooks, NEW h \in Hooks,
           \A k \in Hooks : k # h => (k \in A <=> k \in B)
    PROVE  /\ Cardinality(A) \in Nat /\ Cardinality(B) \in Nat
           /\ (h \in A <=> h \in B) => Cardinality(B) = Cardinality(A)
           /\ h \notin A /\ h \in B => Cardinality(B) = Cardinality(A) + 1
           /\ h \in A /\ h \notin B => Cardinality(A) = Cardinality(B) + 1
  <1>1. IsFiniteSet(A) /\ IsFiniteSet(B)
    BY OutboxAssumption, FS_Subset
  <1>2. Cardinality(A) \in Nat /\ Cardinality(B) \in Nat
    BY <1>1, FS_CardinalityType
  <1>3. ASSUME h \in A <=> h \in B PROVE Cardinality(B) = Cardinality(A)
    <2>1. A = B
      BY <1>3
    <2> QED BY <2>1
  <1>4. ASSUME h \notin A, h \in B PROVE Cardinality(B) = Cardinality(A) + 1
    <2>1. B = A \cup {h}
      BY <1>4
    <2> QED BY <1>1, <1>4, <2>1, FS_AddElement
  <1>5. ASSUME h \in A, h \notin B PROVE Cardinality(A) = Cardinality(B) + 1
    <2>1. A = B \cup {h}
      BY <1>5
    <2> QED BY <1>1, <1>5, <2>1, FS_AddElement
  <1> QED BY <1>2, <1>3, <1>4, <1>5

\* A request is not counted as both, so all that are counted are requests.
LEMMA CountsAreBounded ==
    ASSUME NEW m \in Messages, NEW e \in Events
    PROVE  /\ Cardinality(Marking(m, e)) \in Nat
           /\ Cardinality(Working(m, e)) \in Nat
           /\ Cardinality(Hooks) \in Nat
           /\ Cardinality(Marking(m, e)) + Cardinality(Working(m, e))
                =< Cardinality(Hooks)
  <1> DEFINE A == Marking(m, e)
             B == Working(m, e)
  <1>1. A \in SUBSET Hooks /\ B \in SUBSET Hooks /\ A \cap B = {}
    BY DEF Marking, Working
  <1> HIDE DEF A, B
  <1>2. IsFiniteSet(A) /\ IsFiniteSet(B) /\ IsFiniteSet(A \cup B)
    BY <1>1, OutboxAssumption, FS_Subset
  <1>3. /\ Cardinality(A) \in Nat /\ Cardinality(B) \in Nat
        /\ Cardinality(Hooks) \in Nat
    BY <1>2, OutboxAssumption, FS_CardinalityType
  <1>4. Cardinality(A \cup B) = Cardinality(A) + Cardinality(B)
    <2>1. /\ Cardinality(A \cup B)
               = Cardinality(A) + Cardinality(B) - Cardinality(A \cap B)
          /\ Cardinality(A \cap B) = 0
      BY <1>1, <1>2, FS_Union, FS_EmptySet
    <2> QED BY <1>3, <2>1
  <1>5. Cardinality(A \cup B) =< Cardinality(Hooks)
    BY <1>1, OutboxAssumption, FS_Subset
  <1>6. Cardinality(A) + Cardinality(B) =< Cardinality(Hooks)
    BY <1>4, <1>5
  <1> QED BY <1>3, <1>6 DEF A, B

LEMMA AppliedInit == Init => AppliedInv
  <1> SUFFICES ASSUME Init, NEW m \in Messages, NEW e \in Events
               PROVE  AppliedCell(m, e)
    BY DEF AppliedInv
  <1>1. applied[m][e] = 0 /\ ledger[m][e] = "absent" /\ faults = 0
    BY DEF Init
  <1> QED BY <1>1, CountsAreBounded DEF AppliedCell

LEMMA Sums ==
    ASSUME NEW a \in Nat, NEW x \in Nat, NEW y \in Nat, NEW h \in Nat,
           NEW f \in Nat, NEW g \in {f, f + 1}
    PROVE  /\ a =< x + f /\ y = x => a =< y + g
           /\ a =< x + f /\ g = f + 1 /\ x = y + 1 => a =< y + g
           /\ a + x =< h + f /\ (y = x \/ x = y + 1) => a + y =< h + g
  OBVIOUS

\* What a step of a request may do to the counts of one event.
LEMMA CellKeeps ==
    ASSUME NEW m \in Messages, NEW e \in Events, AppliedCell(m, e),
           applied[m][e] \in Nat, faults \in Nat, faults' \in {faults, faults + 1},
           applied'[m][e] = applied[m][e],
           ledger'[m][e] = "processed" <=> ledger[m][e] = "processed",
           Cardinality(Marking(m, e))' \in Nat,
           Cardinality(Working(m, e))' \in Nat,
           \/ Cardinality(Marking(m, e))' = Cardinality(Marking(m, e))
           \/ /\ faults' = faults + 1
              /\ Cardinality(Marking(m, e)) = Cardinality(Marking(m, e))' + 1
           \/ ledger[m][e] = "processed",
           \/ Cardinality(Working(m, e))' = Cardinality(Working(m, e))
           \/ Cardinality(Working(m, e)) = Cardinality(Working(m, e))' + 1
           \/ ledger[m][e] # "processed"
    PROVE  AppliedCell(m, e)'
  <1> DEFINE A == Cardinality(Marking(m, e))
             B == Cardinality(Working(m, e))
             H == Cardinality(Hooks)
  <1>1. A \in Nat /\ B \in Nat /\ H \in Nat
    BY CountsAreBounded
  <1>2. CASE ledger[m][e] = "processed"
    <2>1. applied[m][e] + B =< H + faults
      BY <1>2 DEF AppliedCell
    <2>2. B' = B \/ B = B' + 1
      BY <1>2
    <2> HIDE DEF A, B, H
    <2>3. B' \in Nat
      BY DEF B
    <2>4. applied[m][e] + B' =< H + faults'
      BY <1>1, <2>1, <2>2, <2>3, Sums
    <2> QED BY <1>2, <2>4 DEF AppliedCell, B, H
  <1>3. CASE ledger[m][e] # "processed"
    <2>1. applied[m][e] =< A + faults
      BY <1>3 DEF AppliedCell
    <2>2. \/ A' = A
          \/ faults' = faults + 1 /\ A = A' + 1
      BY <1>3
    <2> HIDE DEF A, B, H
    <2>3. A' \in Nat
      BY DEF A
    <2>4. applied[m][e] =< A' + faults'
      BY <1>1, <2>1, <2>2, <2>3, Sums
    <2> QED BY <1>3, <2>4 DEF AppliedCell, A
  <1> QED BY <1>2, <1>3

\* A step of one request changes the counts by that request.
LEMMA CountsStep ==
    ASSUME NEW h \in Hooks, NEW m \in Messages, NEW e \in Events,
           \A k \in Hooks : k # h => hook'[k] = hook[k]
    PROVE  /\ Cardinality(Marking(m, e))' \in Nat
           /\ Cardinality(Working(m, e))' \in Nat
           /\ (h \in Marking(m, e) <=> (h \in Marking(m, e))')
                => Cardinality(Marking(m, e))' = Cardinality(Marking(m, e))
           /\ h \notin Marking(m, e) /\ (h \in Marking(m, e))'
                => Cardinality(Marking(m, e))' = Cardinality(Marking(m, e)) + 1
           /\ h \in Marking(m, e) /\ ~(h \in Marking(m, e))'
                => Cardinality(Marking(m, e)) = Cardinality(Marking(m, e))' + 1
           /\ (h \in Working(m, e) <=> (h \in Working(m, e))')
                => Cardinality(Working(m, e))' = Cardinality(Working(m, e))
           /\ h \in Working(m, e) /\ ~(h \in Working(m, e))'
                => Cardinality(Working(m, e)) = Cardinality(Working(m, e))' + 1
  <1>1. /\ Marking(m, e) \in SUBSET Hooks /\ Marking(m, e)' \in SUBSET Hooks
        /\ \A k \in Hooks : k # h => (k \in Marking(m, e) <=> k \in Marking(m, e)')
    BY DEF Marking
  <1>2. /\ Working(m, e) \in SUBSET Hooks /\ Working(m, e)' \in SUBSET Hooks
        /\ \A k \in Hooks : k # h => (k \in Working(m, e) <=> k \in Working(m, e)')
    BY DEF Working
  <1>3. /\ Cardinality(Marking(m, e)') \in Nat
        /\ (h \in Marking(m, e) <=> h \in Marking(m, e)')
             => Cardinality(Marking(m, e)') = Cardinality(Marking(m, e))
        /\ h \notin Marking(m, e) /\ h \in Marking(m, e)'
             => Cardinality(Marking(m, e)') = Cardinality(Marking(m, e)) + 1
        /\ h \in Marking(m, e) /\ ~(h \in Marking(m, e)')
             => Cardinality(Marking(m, e)) = Cardinality(Marking(m, e)') + 1
    BY <1>1, OneChanges
  <1>4. /\ Cardinality(Working(m, e)') \in Nat
        /\ (h \in Working(m, e) <=> h \in Working(m, e)')
             => Cardinality(Working(m, e)') = Cardinality(Working(m, e))
        /\ h \in Working(m, e) /\ ~(h \in Working(m, e)')
             => Cardinality(Working(m, e)) = Cardinality(Working(m, e)') + 1
    BY <1>2, OneChanges
  <1> QED BY <1>3, <1>4

LEMMA AppliedWebhook ==
    ASSUME WebInv, AppliedInv, NEW h \in Hooks, Webhook(h),
           NEW k \in Messages, NEW f \in Events
    PROVE  AppliedCell(k, f)'
  <1> DEFINE m == hook[h].on
             e == hook[h].event
             mine == m = k /\ e = f
             M == Cardinality(Marking(k, f))
             W == Cardinality(Working(k, f))
  <1>0. /\ WebTyped /\ HookShape /\ AppliedCell(k, f)
        /\ applied[k][f] \in Nat /\ faults \in Nat
        /\ hook[h].at # "idle" => m \in Messages /\ e \in Events
    BY OutboxAssumption DEF WebInv, WebTyped, HookShape, AppliedInv
  <1>1. /\ h \in Marking(k, f) <=> mine /\ hook[h].at = "mark"
        /\ h \in Working(k, f) <=> mine /\ hook[h].at \in {"read", "write"}
        /\ M \in Nat /\ W \in Nat /\ Cardinality(Hooks) \in Nat
        /\ M + W =< Cardinality(Hooks)
    BY CountsAreBounded DEF Marking, Working
  <1> DEFINE mine2 == hook'[h].on = k /\ hook'[h].event = f
  <1>2. /\ (h \in Marking(k, f))' <=> mine2 /\ hook'[h].at = "mark"
        /\ (h \in Working(k, f))' <=> mine2 /\ hook'[h].at \in {"read", "write"}
    BY DEF Marking, Working
  <1>3. ASSUME \A j \in Hooks : j # h => hook'[j] = hook[j]
        PROVE  /\ M' \in Nat /\ W' \in Nat
               /\ (h \in Marking(k, f) <=> (h \in Marking(k, f))') => M' = M
               /\ h \notin Marking(k, f) /\ (h \in Marking(k, f))' => M' = M + 1
               /\ h \in Marking(k, f) /\ ~(h \in Marking(k, f))' => M = M' + 1
               /\ (h \in Working(k, f) <=> (h \in Working(k, f))') => W' = W
               /\ h \in Working(k, f) /\ ~(h \in Working(k, f))' => W = W' + 1
    BY <1>3, CountsStep
  <1> HIDE DEF M, W
  <1>4. ASSUME applied'[k][f] = applied[k][f], faults' \in {faults, faults + 1},
               ledger'[k][f] = "processed" <=> ledger[k][f] = "processed",
               M' \in Nat, W' \in Nat,
               M' = M \/ (faults' = faults + 1 /\ M = M' + 1),
               W' = W \/ W = W' + 1 \/ ledger[k][f] # "processed"
        PROVE  AppliedCell(k, f)'
    BY <1>0, <1>4, CellKeeps DEF M, W
  <1>5. ASSUME NEW n \in Messages, NEW g \in Events, Report(h, n, g)
        PROVE  AppliedCell(k, f)'
    <2>1. /\ applied' = applied /\ ledger' = ledger /\ faults' = faults
          /\ hook[h].at = "idle" /\ ledger[n][g] # "processed"
      BY <1>5 DEF Report
    <2>2. /\ \A j \in Hooks : j # h => hook'[j] = hook[j]
          /\ hook'[h].on = n /\ hook'[h].event = g
          /\ hook'[h].at \in {"create", "read"}
      BY <1>0, <1>5, HookReports
    <2>3. M' \in Nat /\ W' \in Nat /\ M' = M
      BY <1>1, <1>2, <1>3, <2>1, <2>2
    <2>4. ledger[k][f] = "processed" => ~mine2
      BY <2>1, <2>2
    <2>5. ledger[k][f] = "processed" => W' = W
      BY <1>1, <1>2, <1>3, <2>1, <2>2, <2>4
    <2> QED BY <1>0, <1>4, <2>1, <2>3, <2>5
  <1>6. CASE CreateEvent(h)
    <2>1. hook[h].at = "create" /\ applied' = applied /\ faults' = faults
      BY <1>6 DEF CreateEvent
    <2>2. CASE ledger[m][e] = "absent"
      <3>1. /\ ledger' = [ledger EXCEPT ![m][e] = "received"]
            /\ hook' = [hook EXCEPT ![h].at = "read"]
        BY <1>6, <2>2 DEF CreateEvent
      <3>2. /\ hook'[h].at = "read" /\ hook'[h].on = m /\ hook'[h].event = e
            /\ \A j \in Hooks : j # h => hook'[j] = hook[j]
        BY <1>0, <2>1, <3>1, HookMoves DEF HookStates
      <3>3. /\ ledger'[m][e] = "received"
            /\ ~mine => ledger'[k][f] = ledger[k][f]
        BY <1>0, <2>1, <3>1, LedgerUpdate DEF WebTyped
      <3>4. M' \in Nat /\ W' \in Nat /\ M' = M
        BY <1>1, <1>2, <1>3, <2>1, <3>2
      <3>5. ledger'[k][f] = "processed" <=> ledger[k][f] = "processed"
        BY <2>2, <3>3
      <3>6. ledger[k][f] = "processed" => W' = W
        BY <1>1, <1>2, <1>3, <2>1, <2>2, <3>2
      <3> QED BY <1>0, <1>4, <2>1, <3>4, <3>5, <3>6
    <2>3. CASE ledger[m][e] # "absent"
      <3>1. hook' = [hook EXCEPT ![h] = NoHook] /\ ledger' = ledger
        BY <1>6, <2>3 DEF CreateEvent
      <3>2. /\ hook'[h].at = "idle"
            /\ \A j \in Hooks : j # h => hook'[j] = hook[j]
        BY <1>0, <3>1, HookLeaves
      <3>3. M' \in Nat /\ W' \in Nat /\ M' = M /\ W' = W
        BY <1>1, <1>2, <1>3, <2>1, <3>2
      <3> QED BY <1>0, <1>4, <2>1, <3>1, <3>3
    <2> QED BY <2>2, <2>3
  <1>7. CASE FindAttempt(h)
    <2>1. /\ hook[h].at = "read"
          /\ applied' = applied /\ ledger' = ledger /\ faults' = faults
      BY <1>7 DEF FindAttempt
    <2>2. /\ hook'[h].at = "write" /\ hook'[h].on = m /\ hook'[h].event = e
          /\ \A j \in Hooks : j # h => hook'[j] = hook[j]
      BY <1>0, <1>7, HookReads DEF WebTyped
    <2>3. M' \in Nat /\ W' \in Nat /\ M' = M /\ W' = W
      BY <1>1, <1>2, <1>3, <2>1, <2>2
    <2> QED BY <1>0, <1>4, <2>1, <2>3
  <1>8. CASE UpdateStatus(h)
    <2>1. /\ hook[h].at = "write" /\ ledger' = ledger /\ faults' = faults
          /\ applied' = [applied EXCEPT ![m][e] = @ + 1]
          /\ hook' = [hook EXCEPT ![h].at = "mark"]
      BY <1>8 DEF UpdateStatus
    <2>2. /\ hook'[h].at = "mark" /\ hook'[h].on = m /\ hook'[h].event = e
          /\ \A j \in Hooks : j # h => hook'[j] = hook[j]
      BY <1>0, <2>1, HookMoves DEF HookStates
    <2>3. /\ applied'[m][e] = applied[m][e] + 1
          /\ ~mine => applied'[k][f] = applied[k][f]
      BY <1>0, <2>1, AppliedUpdate DEF WebTyped
    <2>4. CASE ~mine
      <3>1. M' \in Nat /\ W' \in Nat /\ M' = M /\ W' = W
        BY <1>1, <1>2, <1>3, <2>1, <2>2, <2>4
      <3> QED BY <1>0, <1>4, <2>1, <2>3, <2>4, <3>1
    <2>5. CASE mine
      <3>1. M' \in Nat /\ W' \in Nat /\ M' = M + 1 /\ W = W' + 1
        BY <1>1, <1>2, <1>3, <2>1, <2>2, <2>5
      <3>2. applied'[k][f] = applied[k][f] + 1
        BY <2>3, <2>5
      <3>3. /\ ledger[k][f] # "processed" => applied[k][f] =< M + faults
            /\ ledger[k][f] = "processed"
                 => applied[k][f] + W =< Cardinality(Hooks) + faults
        BY <1>0 DEF AppliedCell, M, W
      <3>4. /\ ledger'[k][f] # "processed" => applied'[k][f] =< M' + faults'
            /\ ledger'[k][f] = "processed"
                 => applied'[k][f] + W' =< Cardinality(Hooks) + faults'
        BY <1>0, <1>1, <2>1, <3>1, <3>2, <3>3
      <3> QED BY <3>4 DEF AppliedCell, M, W
    <2> QED BY <2>4, <2>5
  <1>9. CASE MarkProcessed(h)
    <2>1. /\ hook[h].at = "mark" /\ applied' = applied /\ faults' = faults
          /\ ledger' = [ledger EXCEPT ![m][e] = "processed"]
          /\ hook' = [hook EXCEPT ![h] = NoHook]
      BY <1>9 DEF MarkProcessed
    <2>2. /\ hook'[h].at = "idle"
          /\ \A j \in Hooks : j # h => hook'[j] = hook[j]
      BY <1>0, <2>1, HookLeaves
    <2>3. /\ ledger'[m][e] = "processed"
          /\ ~mine => ledger'[k][f] = ledger[k][f]
      BY <1>0, <2>1, LedgerUpdate DEF WebTyped
    <2>4. W' \in Nat /\ M' \in Nat /\ W' = W
      BY <1>1, <1>2, <1>3, <2>1, <2>2
    <2>5. CASE ~mine
      <3>1. M' = M
        BY <1>1, <1>2, <1>3, <2>1, <2>2, <2>5
      <3> QED BY <1>0, <1>4, <2>1, <2>3, <2>4, <2>5, <3>1
    <2>6. CASE mine
      <3>1. /\ ledger[k][f] # "processed" => applied[k][f] =< M + faults
            /\ ledger[k][f] = "processed"
                 => applied[k][f] + W =< Cardinality(Hooks) + faults
        BY <1>0 DEF AppliedCell, M, W
      <3>2. applied'[k][f] + W' =< Cardinality(Hooks) + faults'
        BY <1>0, <1>1, <2>1, <2>4, <3>1
      <3>3. ledger'[k][f] = "processed"
        BY <2>3, <2>6
      <3> QED BY <3>2, <3>3 DEF AppliedCell, W
    <2> QED BY <2>5, <2>6
  <1>10. CASE HookFails(h)
    <2>1. /\ applied' = applied /\ ledger' = ledger /\ faults' = faults + 1
          /\ hook' = [hook EXCEPT ![h] = NoHook]
      BY <1>10 DEF HookFails
    <2>2. /\ hook'[h].at = "idle"
          /\ \A j \in Hooks : j # h => hook'[j] = hook[j]
      BY <1>0, <2>1, HookLeaves
    <2>3. M' \in Nat /\ W' \in Nat /\ (M' = M \/ M = M' + 1) /\ (W' = W \/ W = W' + 1)
      BY <1>1, <1>2, <1>3, <2>2
    <2> QED BY <1>0, <1>4, <2>1, <2>3
  <1> QED BY <1>5, <1>6, <1>7, <1>8, <1>9, <1>10 DEF Webhook

LEMMA AppliedNext == IInv /\ WebInv /\ AppliedInv /\ [Next]_vars => AppliedInv'
  <1> SUFFICES ASSUME IInv, WebInv, AppliedInv, [Next]_vars PROVE AppliedInv'
    OBVIOUS
  <1>1. ASSUME NEW h \in Hooks, Webhook(h) PROVE AppliedInv'
    BY <1>1, AppliedWebhook DEF AppliedInv
  <1>2. ASSUME UNCHANGED incoming, faults' = faults \/ Fault PROVE AppliedInv'
    <2> SUFFICES ASSUME NEW k \in Messages, NEW f \in Events
                 PROVE  AppliedCell(k, f)'
      BY DEF AppliedInv
    <2>1. hook' = hook /\ ledger' = ledger /\ applied' = applied
      BY <1>2 DEF incoming
    <2>2. /\ Cardinality(Marking(k, f))' = Cardinality(Marking(k, f))
          /\ Cardinality(Working(k, f))' = Cardinality(Working(k, f))
      BY <2>1 DEF Marking, Working
    <2>3. /\ AppliedCell(k, f) /\ applied[k][f] \in Nat /\ faults \in Nat
      BY OutboxAssumption DEF AppliedInv, WebInv, WebTyped
    <2>4. faults' \in {faults, faults + 1}
      BY <1>2 DEF Fault
    <2> QED BY <2>1, <2>2, <2>3, <2>4, CountsAreBounded, CellKeeps
  <1>3. CASE \/ \E d \in Dispatchers : Dispatch(d)
             \/ \E m \in Messages : EnqueueThrows(m)
             \/ Tick
    BY <1>2, <1>3, OutgoingContact DEF WebInv, WebTyped
  <1>4. CASE UNCHANGED vars
    BY <1>2, <1>4 DEF vars
  <1> QED BY <1>1, <1>3, <1>4 DEF Next

\* An event the ledger has marked is never applied again: it reaches the timeline
\* once for each request that was at work on it when the first one finished, and
\* once more for each that failed half way.
THEOREM AppliedIsBounded == Spec => []AppliedBounded
  <1>1. IInv /\ WebInv /\ AppliedInv => AppliedBounded
    <2> SUFFICES ASSUME WebInv, AppliedInv, NEW m \in Messages, NEW e \in Events
                 PROVE  applied[m][e] =< Cardinality(Hooks) + faults
      BY DEF AppliedBounded
    <2> DEFINE M == Cardinality(Marking(m, e))
               W == Cardinality(Working(m, e))
    <2>1. /\ M \in Nat /\ W \in Nat /\ Cardinality(Hooks) \in Nat
          /\ M + W =< Cardinality(Hooks)
      BY CountsAreBounded
    <2>2. applied[m][e] \in Nat /\ faults \in Nat
      BY OutboxAssumption DEF WebInv, WebTyped
    <2>3. \/ applied[m][e] =< M + faults
          \/ applied[m][e] + W =< Cardinality(Hooks) + faults
      BY DEF AppliedInv, AppliedCell
    <2> HIDE DEF M, W
    <2> QED BY <2>1, <2>2, <2>3
  <1> QED BY InitOK, NextOK, WebInit, WebNext, AppliedInit, AppliedNext, <1>1,
             PTL DEF Spec
=============================================================================
