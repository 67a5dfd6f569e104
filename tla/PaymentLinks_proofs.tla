------------------------- MODULE PaymentLinks_proofs -------------------------
(***************************************************************************)
(* Payment links and their webhook, for any links, tools, overlapping      *)
(* deliveries, retries beside them and deaths: what an answer to Razorpay  *)
(* stands for, and how often a payment is credited.                        *)
(***************************************************************************)
EXTENDS PaymentLinks, FiniteSetTheorems, TLAPS

HookRecords ==
    [at : {"idle", "create", "link", "verify", "settle", "paid", "done"},
     on : Links \cup {NoLink}, seen : Nat]

\* The part of TypeOK about the webhook requests.
HooksOK ==
    /\ hook \in [Hooks -> HookRecords]
    /\ \A h \in Hooks : /\ hook[h].at # "idle" => hook[h].on \in Links
                        /\ hook[h].seen =< retries.made

ToolRecords ==
    [at : {"idle", "find", "create", "schedule", "finish", "update"},
     to : CaseStatuses \ {"OPEN", "RECOVERED"}]

RetriesOK ==
    /\ retries \in [made : Nat, settled : SUBSET Nat]
    /\ retries.settled \subseteq 1 .. retries.made

\* The rest of it.
RowsOK ==
    /\ status \in CaseStatuses /\ booked \in BOOLEAN
    /\ link \in [Links -> {"none", "created", "paid"}]
    /\ received \subseteq Links /\ recorded \subseteq Links
    /\ RetriesOK
    /\ credited \in [Links -> Nat]
    /\ ledger \in [Links -> {"absent", "open", "processed"}]
    /\ tool \in [Tools -> ToolRecords]
    /\ faults \in 0 .. MaxFaults

Typed == RowsOK /\ HooksOK

\* What an answer stands for, already while the handler is on its way to it.
AnswerInv ==
    /\ AnsweredIsCredited
    /\ status = "RECOVERED" => booked
    /\ \A h \in Hooks : hook[h].at \in {"paid", "done"} => booked

\* Deliveries about to settle a retry that another has settled since they found it.
Late == {h \in Hooks : hook[h].at = "settle" /\ hook[h].seen \in retries.settled}

Own(l) == IF l \in recorded THEN 1 ELSE 0

\* A late delivery is going to credit: it counts as if it had. Nobody becomes late
\* but through the settlement of a retry, which leaves the others that found it.
CreditInv ==
    \A l \in Links :
        credited[l] + Cardinality(Late)
            =< Own(l) + Cardinality(Hooks) * Cardinality(retries.settled)

-----------------------------------------------------------------------------
(* Type correctness *)

LEMMA TypedImplies == Typed => TypeOK
  BY DEF Typed, RowsOK, HooksOK, HookRecords, ToolRecords, RetriesOK, TypeOK

LEMMA InitTyped == Init => Typed
  <1> SUFFICES ASSUME Init PROVE Typed
    OBVIOUS
  <1>1. NoTool \in ToolRecords
    BY DEF NoTool, ToolRecords, CaseStatuses, ActiveStatuses
  <1>2. RetriesOK /\ retries.made = 0
    BY DEF Init, RetriesOK
  <1>3. tool \in [Tools -> ToolRecords]
    BY <1>1 DEF Init
  <1>4. faults \in 0 .. MaxFaults /\ status \in CaseStatuses
    BY LinksAssumption DEF Init, CaseStatuses, ActiveStatuses
  <1>5. RowsOK
    BY <1>2, <1>3, <1>4 DEF Init, RowsOK
  <1>6. HooksOK
    BY <1>2 DEF Init, HooksOK, HookRecords, NoHook
  <1> QED BY <1>5, <1>6 DEF Typed

\* A request's record replaced by a well-formed one.
LEMMA HookStep ==
    ASSUME HooksOK, NEW h \in Hooks, NEW rec \in HookRecords,
           rec.at # "idle" => rec.on \in Links,
           rec.seen =< retries.made, retries'.made = retries.made,
           hook' = [hook EXCEPT ![h] = rec]
    PROVE  /\ HooksOK' /\ hook'[h] = rec
           /\ \A g \in Hooks : g # h => hook'[g] = hook[g]
  BY DEF HooksOK

LEMMA NoHookOK == NoHook \in HookRecords /\ NoHook.at = "idle" /\ NoHook.seen = 0
  BY DEF NoHook, HookRecords

LEMMA GotoStep ==
    ASSUME HooksOK, NEW h \in Hooks, hook[h].at # "idle",
           NEW at \in {"link", "verify", "paid", "done"}, Goto(h, at),
           retries'.made = retries.made
    PROVE  /\ HooksOK' /\ hook'[h].at = at
           /\ \A g \in Hooks : g # h => hook'[g] = hook[g]
  <1> DEFINE rec == [hook[h] EXCEPT !.at = at]
  <1>1. hook[h] \in HookRecords /\ hook[h].on \in Links
          /\ hook[h].seen =< retries.made
    BY DEF HooksOK
  <1>2. /\ rec \in HookRecords /\ rec.at = at /\ rec.on = hook[h].on
        /\ rec.seen = hook[h].seen
    BY <1>1 DEF HookRecords
  <1>3. hook' = [hook EXCEPT ![h] = rec]
    BY DEF Goto
  <1> HIDE DEF rec
  <1> QED BY <1>1, <1>2, <1>3, HookStep

\* What a step of a request leaves in its record: how it gets to the places that
\* matter.
HookMoves(h) ==
    /\ HooksOK'
    /\ \A g \in Hooks : g # h => hook'[g] = hook[g]
    /\ hook'[h].at = "settle" => hook'[h].seen \notin retries'.settled
    /\ hook'[h].at = "paid" => status = "RECOVERED" \/ booked'
    /\ hook'[h].at = "done" => MarkPaid(h)

\* The retries of a webhook request's step: at most one more of them is settled.
RetryMoves(h) ==
    /\ RetriesOK'
    /\ retries'.made = retries.made
    /\ \/ retries' = retries
       \/ /\ Settle(h) /\ hook[h].seen # 0
          /\ retries'.settled = retries.settled \cup {hook[h].seen}

LEMMA RetryStep ==
    ASSUME Typed, NEW h \in Hooks,
           Handle(h) \/ HookDies(h) \/ \E l \in Links : FindEvent(h, l)
    PROVE  RetryMoves(h)
  <1>1. RetriesOK /\ hook[h].seen \in Nat /\ hook[h].seen =< retries.made
    BY DEF Typed, RowsOK, HooksOK, HookRecords
  <1>2. CASE retries' = retries
    BY <1>1, <1>2 DEF RetryMoves, RetriesOK
  <1>3. CASE Settle(h) /\ retries' # retries
    <2> DEFINE S == retries.settled \cup {hook[h].seen}
    <2>1. hook[h].seen # 0 /\ retries' = [retries EXCEPT !.settled = S]
      BY <1>3 DEF Settle, books
    <2>2. S \subseteq 1 .. retries.made /\ S \in SUBSET Nat
      BY <1>1, <2>1 DEF RetriesOK
    <2>3. retries' \in [made : Nat, settled : SUBSET Nat]
            /\ retries'.made = retries.made /\ retries'.settled = S
      <3> HIDE DEF S
      <3> QED BY <1>1, <2>1, <2>2 DEF RetriesOK
    <2> QED BY <1>3, <2>1, <2>2, <2>3 DEF RetryMoves, RetriesOK
  <1> QED BY <1>2, <1>3
          DEF Handle, CreateEvent, ReadCase, Verify, Settle, MarkPaid, MarkProcessed,
              HookDies, FindEvent, books

LEMMA HookStepOK ==
    ASSUME Typed, NEW h \in Hooks,
           Handle(h) \/ HookDies(h) \/ \E l \in Links : FindEvent(h, l)
    PROVE  HookMoves(h)
  <1>1. HooksOK /\ hook[h] \in HookRecords /\ retries.made \in Nat
          /\ retries'.made = retries.made
    BY RetryStep DEF Typed, HooksOK, RowsOK, RetriesOK, RetryMoves
  <1>2. ASSUME hook' = [hook EXCEPT ![h] = NoHook]
        PROVE  HookMoves(h)
    <2>1. NoHook.seen =< retries.made
      BY <1>1, NoHookOK
    <2>2. HooksOK' /\ hook'[h] = NoHook /\ \A g \in Hooks : g # h => hook'[g] = hook[g]
      BY <1>1, <1>2, <2>1, HookStep, NoHookOK
    <2> QED BY <2>2, NoHookOK DEF HookMoves
  <1>3. ASSUME NEW l \in Links, FindEvent(h, l)
        PROVE  HookMoves(h)
    <2> DEFINE at == IF ledger[l] = "absent" THEN "create" ELSE "link"
               rec == [NoHook EXCEPT !.at = at, !.on = l]
    <2>1. rec \in HookRecords /\ rec.at = at /\ rec.on = l /\ rec.seen = 0
      BY DEF NoHook, HookRecords
    <2>2. hook' = [hook EXCEPT ![h] = rec]
      BY <1>3 DEF FindEvent
    <2>3. at \in {"create", "link"}
      OBVIOUS
    <2> HIDE DEF rec, at
    <2>4. rec.seen =< retries.made
      BY <1>1, <2>1
    <2>5. HooksOK' /\ hook'[h] = rec /\ \A g \in Hooks : g # h => hook'[g] = hook[g]
      BY <1>1, <2>1, <2>2, <2>4, HookStep
    <2> QED BY <2>1, <2>3, <2>5 DEF HookMoves
  <1>4. CASE CreateEvent(h)
    BY <1>1, <1>2, <1>4, GotoStep DEF CreateEvent, HookMoves
  <1>5. CASE ReadCase(h)
    BY <1>1, <1>5, GotoStep DEF ReadCase, HookMoves
  <1>6. CASE Verify(h)
    <2>1. CASE status \in VerifiableStatuses
      <3>1. PICK i \in Scheduled \cup {0} :
              hook' = [hook EXCEPT ![h].at = "settle", ![h].seen = i]
        BY <1>6, <2>1 DEF Verify
      <3> DEFINE rec == [hook[h] EXCEPT !.at = "settle", !.seen = i]
      <3>2. hook' = [hook EXCEPT ![h] = rec]
        BY <3>1
      <3>3. hook[h].on \in Links /\ hook[h].at # "idle"
        BY <1>1, <1>6 DEF Verify, HooksOK
      <3>4. i \in Nat /\ i =< retries.made /\ i \notin retries.settled
        BY <1>1 DEF Scheduled, Typed, RowsOK, RetriesOK
      <3>5. /\ rec \in HookRecords /\ rec.at = "settle" /\ rec.on = hook[h].on
            /\ rec.seen = i
        BY <1>1, <3>4 DEF HookRecords
      <3>6. retries' = retries
        BY <1>6 DEF Verify, books
      <3> HIDE DEF rec
      <3> QED BY <1>1, <3>2, <3>3, <3>4, <3>5, <3>6, HookStep DEF HookMoves
    <2>2. CASE status \notin VerifiableStatuses
      BY <1>2, <1>6, <2>2 DEF Verify
    <2> QED BY <2>1, <2>2
  <1>7. CASE Settle(h)
    BY <1>1, <1>2, <1>7, GotoStep DEF Settle, Book, HookMoves
  <1>8. CASE MarkPaid(h)
    BY <1>1, <1>8, GotoStep DEF MarkPaid, HookMoves
  <1>9. CASE MarkProcessed(h) \/ HookDies(h)
    BY <1>2, <1>9 DEF MarkProcessed, HookDies
  <1> QED BY <1>3, <1>4, <1>5, <1>6, <1>7, <1>8, <1>9 DEF Handle

\* The rows stay well-formed, what is booked stays booked, and a case becomes
\* recovered only as it is booked.
RowMoves ==
    /\ RowsOK'
    /\ booked => booked'
    /\ status' = "RECOVERED" => status = "RECOVERED" \/ booked'

LEMMA HandleRows ==
    ASSUME Typed, NEW h \in Hooks, Handle(h)
    PROVE  RowMoves
  <1> DEFINE l == hook[h].on
  <1>1. RowsOK /\ RetriesOK' /\ (hook[h].at # "idle" => l \in Links)
    BY RetryStep DEF Typed, HooksOK, RetryMoves
  <1>2. CASE CreateEvent(h)
    BY <1>1, <1>2 DEF CreateEvent, books, RowsOK, RowMoves
  <1>3. CASE ReadCase(h) \/ Verify(h)
    BY <1>1, <1>3 DEF ReadCase, Verify, books, RowsOK, RowMoves
  <1>4. CASE Settle(h)
    <2>1. l \in Links
      BY <1>1, <1>4 DEF Settle
    <2>2. \/ UNCHANGED << status, booked, credited >>
          \/ /\ status' = "RECOVERED" /\ booked' = TRUE
             /\ credited' = [credited EXCEPT ![l] = @ + 1]
      BY <1>4 DEF Settle, Book, books
    <2>3. recorded' \subseteq Links
      BY <1>1, <1>4, <2>1 DEF Settle, RowsOK, books
    <2>4. status' \in CaseStatuses /\ booked' \in BOOLEAN
      BY <1>1, <2>2 DEF RowsOK, CaseStatuses, TerminalStatuses
    <2>5. credited' \in [Links -> Nat]
      BY <1>1, <2>1, <2>2 DEF RowsOK
    <2>6. UNCHANGED << link, received, ledger, tool, faults >>
      BY <1>4 DEF Settle
    <2> QED BY <1>1, <2>2, <2>3, <2>4, <2>5, <2>6 DEF RowsOK, RowMoves
  <1>5. CASE MarkPaid(h) \/ MarkProcessed(h)
    BY <1>1, <1>5 DEF MarkPaid, MarkProcessed, books, RowsOK, RowMoves
  <1> QED BY <1>2, <1>3, <1>4, <1>5 DEF Handle

\* A tool's record replaced by a well-formed one.
LEMMA ToolStep ==
    ASSUME RowsOK, NEW t \in Tools, NEW rec \in ToolRecords,
           tool' = [tool EXCEPT ![t] = rec]
    PROVE  tool' \in [Tools -> ToolRecords]
  BY DEF RowsOK

LEMMA ToolRecordAt ==
    ASSUME RowsOK, NEW t \in Tools,
           NEW at \in {"idle", "create", "finish", "update"},
           tool' = [tool EXCEPT ![t].at = at]
    PROVE  tool' \in [Tools -> ToolRecords]
  <1> DEFINE rec == [tool[t] EXCEPT !.at = at]
  <1>1. tool[t] \in ToolRecords /\ tool' = [tool EXCEPT ![t] = rec]
    BY DEF RowsOK
  <1>2. rec \in ToolRecords
    BY <1>1 DEF ToolRecords
  <1> HIDE DEF rec
  <1> QED BY <1>1, <1>2, ToolStep

LEMMA ToolRows ==
    ASSUME Typed, NEW t \in Tools, Tool(t) \/ ToolDies(t)
    PROVE  RowMoves
  <1>1. RowsOK
    BY DEF Typed
  <1>2. NoTool \in ToolRecords
    BY DEF NoTool, ToolRecords, CaseStatuses, ActiveStatuses
  <1>3. ASSUME NEW at \in {"find", "schedule", "update"},
               NEW to \in CaseStatuses \ {"OPEN", "RECOVERED"}, Begin(t, at, to)
        PROVE  RowMoves
    <2> DEFINE rec == [at |-> at, to |-> to]
    <2>1. rec \in ToolRecords /\ tool' = [tool EXCEPT ![t] = rec]
      BY <1>3 DEF ToolRecords, Begin
    <2>2. tool' \in [Tools -> ToolRecords]
      <3> HIDE DEF rec
      <3> QED BY <1>1, <2>1, ToolStep
    <2>3. UNCHANGED << status, link, retries, faults, rows >>
      BY <1>3 DEF Begin
    <2> QED BY <1>1, <2>2, <2>3 DEF rows, RowsOK, RetriesOK, RowMoves
  <1>4. CASE BeginLink(t) \/ BeginRetry(t) \/ \E to \in Detours : BeginOther(t, to)
    BY <1>3, <1>4, LinksAssumption
       DEF BeginLink, BeginRetry, BeginOther, CaseStatuses, ActiveStatuses
  <1>5. CASE FindLink(t) \/ FinishLoad(t)
    <2>1. PICK at \in {"idle", "create", "finish", "update"} :
            tool' = [tool EXCEPT ![t].at = at]
      BY <1>5 DEF FindLink, FinishLoad
    <2>2. tool' \in [Tools -> ToolRecords]
      BY <1>1, <2>1, ToolRecordAt
    <2>3. UNCHANGED << status, link, retries, faults, rows >>
      BY <1>5 DEF FindLink, FinishLoad
    <2> QED BY <1>1, <2>2, <2>3 DEF rows, RowsOK, RetriesOK, RowMoves
  <1>6. ASSUME NEW l \in Links, CreateLink(t, l)
        PROVE  RowMoves
    <2>1. tool' \in [Tools -> ToolRecords]
      BY <1>1, <1>6, ToolRecordAt DEF CreateLink
    <2> QED BY <1>1, <1>6, <2>1 DEF CreateLink, rows, RowsOK, RetriesOK, RowMoves
  <1>7. CASE ScheduleRetry(t)
    <2>1. tool' \in [Tools -> ToolRecords]
      BY <1>1, <1>7, ToolRecordAt DEF ScheduleRetry
    <2>2. RetriesOK'
      BY <1>1, <1>7 DEF ScheduleRetry, RowsOK, RetriesOK
    <2> QED BY <1>1, <1>7, <2>1, <2>2 DEF ScheduleRetry, rows, RowsOK, RowMoves
  <1>8. CASE FinishUpdate(t)
    <2>1. tool[t] \in ToolRecords
      BY <1>1 DEF RowsOK
    <2>2. status' \in CaseStatuses /\ status' # "RECOVERED"
      BY <1>8, <2>1 DEF FinishUpdate, ToolRecords
    <2>3. tool' \in [Tools -> ToolRecords]
      BY <1>1, <1>2, <1>8, ToolStep DEF FinishUpdate
    <2>4. UNCHANGED << link, retries, faults, rows >>
      BY <1>8 DEF FinishUpdate
    <2> QED BY <1>1, <2>2, <2>3, <2>4 DEF rows, RowsOK, RetriesOK, RowMoves
  <1>9. CASE ToolDies(t)
    <2>1. tool' \in [Tools -> ToolRecords]
      BY <1>1, <1>2, <1>9, ToolStep DEF ToolDies
    <2>2. faults' \in 0 .. MaxFaults
      BY <1>1, <1>9, LinksAssumption DEF ToolDies, RowsOK
    <2>3. UNCHANGED << status, link, retries, rows >>
      BY <1>9 DEF ToolDies
    <2> QED BY <1>1, <2>1, <2>2, <2>3 DEF rows, RowsOK, RetriesOK, RowMoves
  <1> QED BY <1>4, <1>5, <1>6, <1>7, <1>8, <1>9 DEF Tool

LEMMA OtherRows ==
    ASSUME Typed,
           \/ \E h \in Hooks : HookDies(h) \/ \E l \in Links : FindEvent(h, l)
           \/ \E l \in Links : Pay(l)
           \/ UNCHANGED vars
    PROVE  RowMoves
  <1>1. RowsOK
    BY DEF Typed
  <1>2. ASSUME NEW h \in Hooks, HookDies(h)
        PROVE  RowMoves
    <2>1. faults' \in 0 .. MaxFaults
      BY <1>1, <1>2, LinksAssumption DEF HookDies, RowsOK
    <2>2. UNCHANGED << books, link, received, ledger, tool >>
      BY <1>2 DEF HookDies
    <2> QED BY <1>1, <2>1, <2>2 DEF books, RowsOK, RetriesOK, RowMoves
  <1>3. ASSUME NEW h \in Hooks, NEW l \in Links, FindEvent(h, l)
        PROVE  RowMoves
    <2>1. UNCHANGED << books, link, received, ledger, tool, faults >>
      BY <1>3 DEF FindEvent
    <2> QED BY <1>1, <2>1 DEF books, RowsOK, RetriesOK, RowMoves
  <1>4. ASSUME NEW l \in Links, Pay(l)
        PROVE  RowMoves
    BY <1>1, <1>4 DEF Pay, books, RowsOK, RetriesOK, RowMoves
  <1>5. CASE UNCHANGED vars
    BY <1>1, <1>5 DEF vars, rows, RowsOK, RetriesOK, RowMoves
  <1> QED BY <1>2, <1>3, <1>4, <1>5

\* What the rest of the system leaves to the webhook requests.
Aside ==
    /\ UNCHANGED << hook, credited, ledger, recorded >>
    /\ retries'.made >= retries.made /\ retries'.settled = retries.settled

LEMMA WorldAside ==
    ASSUME Typed, [Next]_vars
    PROVE  \/ \E h \in Hooks :
                Handle(h) \/ HookDies(h) \/ \E l \in Links : FindEvent(h, l)
           \/ Aside
  <1>1. retries \in [made : Nat, settled : SUBSET Nat]
    BY DEF Typed, RowsOK, RetriesOK
  <1>2. ASSUME NEW t \in Tools, Tool(t) \/ ToolDies(t)
        PROVE  Aside
    <2>1. UNCHANGED << hook, credited, ledger, recorded >>
      BY <1>2 DEF Tool, BeginLink, BeginRetry, BeginOther, Begin, FindLink,
                  CreateLink, ScheduleRetry, FinishLoad, FinishUpdate, ToolDies, rows
    <2>2. retries' = retries \/ ScheduleRetry(t)
      BY <1>2 DEF Tool, BeginLink, BeginRetry, BeginOther, Begin, FindLink,
                  CreateLink, FinishLoad, FinishUpdate, ToolDies
    <2> QED BY <1>1, <2>1, <2>2 DEF Aside, ScheduleRetry
  <1>3. CASE (\E l \in Links : Pay(l)) \/ UNCHANGED vars
    BY <1>1, <1>3 DEF Pay, books, vars, rows, Aside
  <1> QED BY <1>2, <1>3 DEF Next

LEMMA TypedStep == Typed /\ [Next]_vars => Typed' /\ RowMoves
  <1> SUFFICES ASSUME Typed, [Next]_vars PROVE Typed' /\ RowMoves
    OBVIOUS
  <1>1. RowMoves
    BY HandleRows, ToolRows, OtherRows DEF Next
  <1>2. HooksOK'
    <2>1. CASE Aside
      <3>1. retries.made \in Nat /\ retries'.made \in Nat
        BY <1>1 DEF Typed, RowMoves, RowsOK, RetriesOK
      <3> QED BY <2>1, <3>1 DEF Aside, Typed, HooksOK, HookRecords
    <2>2. CASE \E h \in Hooks :
                 Handle(h) \/ HookDies(h) \/ \E l \in Links : FindEvent(h, l)
      BY <2>2, HookStepOK DEF HookMoves
    <2> QED BY <2>1, <2>2, WorldAside
  <1> QED BY <1>1, <1>2 DEF Typed, RowMoves

LEMMA TypedHolds == Spec => []Typed
  BY InitTyped, TypedStep, PTL DEF Spec

\* The state always has its declared shape: a request that runs is about a link, and
\* a retry it has found is one that was made.
THEOREM LinksTyped == Spec => []TypeOK
  BY TypedHolds, TypedImplies, PTL

-----------------------------------------------------------------------------
(* What an answer stands for *)

LEMMA AnswerStep == Typed /\ AnswerInv /\ [Next]_vars => AnswerInv'
  <1> SUFFICES ASSUME Typed, AnswerInv, [Next]_vars PROVE AnswerInv'
    OBVIOUS
  <1>1. RowMoves /\ HooksOK
    BY TypedStep DEF Typed
  <1>2. status' = "RECOVERED" => booked'
    BY <1>1 DEF RowMoves, AnswerInv
  <1>3. CASE Aside
    BY <1>1, <1>2, <1>3 DEF Aside, RowMoves, AnswerInv, AnsweredIsCredited
  <1>4. ASSUME NEW h \in Hooks,
               Handle(h) \/ HookDies(h) \/ \E l \in Links : FindEvent(h, l)
        PROVE  AnswerInv'
    <2>1. HookMoves(h)
      BY <1>4, HookStepOK
    <2>2. MarkPaid(h) => booked
      BY DEF MarkPaid, AnswerInv
    <2>3. \A g \in Hooks : hook'[g].at \in {"paid", "done"} => booked'
      BY <1>1, <2>1, <2>2 DEF HookMoves, RowMoves, AnswerInv
    <2>4. ASSUME NEW l \in Links, ledger'[l] = "processed"
          PROVE  booked'
      <3>1. CASE MarkProcessed(h)
        BY <1>1, <3>1 DEF MarkProcessed, AnswerInv, RowMoves
      <3>2. CASE CreateEvent(h)
        <4>1. ledger[l] = "processed"
          BY <2>4, <3>2 DEF CreateEvent, Typed, RowsOK
        <4> QED BY <1>1, <4>1 DEF AnswerInv, AnsweredIsCredited, RowMoves
      <3>3. CASE ledger' = ledger
        BY <1>1, <2>4, <3>3 DEF AnswerInv, AnsweredIsCredited, RowMoves
      <3> QED BY <1>4, <3>1, <3>2, <3>3
              DEF Handle, ReadCase, Verify, Settle, MarkPaid, HookDies, FindEvent
    <2> QED BY <1>2, <2>3, <2>4 DEF AnswerInv, AnsweredIsCredited
  <1> QED BY <1>3, <1>4, WorldAside

\* Razorpay is answered with success only when the money is in the books, however
\* many deliveries overlap, wherever they die, and whatever status stale tools write.
THEOREM AnswersStandForCredit == Spec => []AnsweredIsCredited
  <1>1. Init => AnswerInv
    BY DEF Init, AnswerInv, AnsweredIsCredited, NoHook
  <1>2. AnswerInv => AnsweredIsCredited
    BY DEF AnswerInv
  <1> QED BY <1>1, <1>2, AnswerStep, TypedHolds, PTL DEF Spec

-----------------------------------------------------------------------------
(* How often a payment is credited *)

LEMMA Counting ==
    ASSUME NEW S \in SUBSET Hooks
    PROVE  /\ Cardinality(S) \in Nat /\ Cardinality(Hooks) \in Nat
           /\ Cardinality(S) =< Cardinality(Hooks)
  <1>1. IsFiniteSet(S) /\ Cardinality(S) =< Cardinality(Hooks)
    BY LinksAssumption, FS_Subset
  <1> QED BY <1>1, LinksAssumption, FS_CardinalityType

\* A set of requests that some request has left.
LEMMA Leaving ==
    ASSUME NEW S \in SUBSET Hooks, NEW h \in S, NEW T \in SUBSET (S \ {h})
    PROVE  Cardinality(T) + 1 =< Cardinality(S)
  <1>1. IsFiniteSet(S) /\ Cardinality(S) \in Nat
    BY LinksAssumption, FS_Subset, FS_CardinalityType
  <1>2. Cardinality(S \ {h}) = Cardinality(S) - 1
    BY <1>1, FS_RemoveElement
  <1>3. IsFiniteSet(S \ {h}) /\ T \subseteq S \ {h}
    BY <1>1, FS_RemoveElement
  <1>4. Cardinality(T) \in Nat /\ Cardinality(T) =< Cardinality(S \ {h})
    BY <1>3, FS_Subset, FS_CardinalityType
  <1> QED BY <1>1, <1>2, <1>4

LEMMA SettledCount ==
    ASSUME NEW made \in Nat, NEW S, S \subseteq 1 .. made
    PROVE  IsFiniteSet(S) /\ Cardinality(S) \in Nat
  <1>1. IsFiniteSet(1 .. made)
    BY FS_Interval
  <1> QED BY <1>1, FS_Subset, FS_CardinalityType

LEMMA CreditStart == Init => CreditInv
  <1> SUFFICES ASSUME Init PROVE CreditInv
    OBVIOUS
  <1>1. Late = {} /\ retries.settled = {} /\ \A l \in Links : credited[l] = 0
    BY DEF Init, Late, NoHook
  <1>2. Cardinality({}) = 0 /\ Cardinality(Hooks) \in Nat
    BY LinksAssumption, FS_EmptySet, FS_CardinalityType
  <1>3. \A l \in Links : Own(l) = 0
    BY DEF Init, Own
  <1>4. Cardinality(Late) = 0 /\ Cardinality(retries.settled) = 0
    BY <1>1, <1>2
  <1> QED BY <1>1, <1>2, <1>3, <1>4 DEF CreditInv

\* Credits are written by a delivery that settles, one at a time.
LEMMA WhoCredits ==
    ASSUME Typed, NEW h \in Hooks,
           Handle(h) \/ HookDies(h) \/ \E k \in Links : FindEvent(h, k)
    PROVE  \/ UNCHANGED << credited, recorded, retries >>
           \/ /\ hook[h].at = "settle" /\ hook'[h].at = "paid"
              /\ credited' = [credited EXCEPT ![hook[h].on] = @ + 1]
              /\ \/ hook[h].seen # 0 /\ recorded' = recorded
                    /\ retries'.settled = retries.settled \cup {hook[h].seen}
                 \/ /\ hook[h].seen = 0 /\ hook[h].on \notin recorded
                    /\ recorded' = recorded \cup {hook[h].on}
                    /\ retries' = retries
  <1>1. CASE Settle(h)
    <2>1. hook[h].at = "settle" /\ HooksOK /\ retries'.made = retries.made
      BY <1>1, RetryStep DEF Settle, Typed, RetryMoves
    <2>2. Book(h) => hook'[h].at = "paid"
      BY <2>1, GotoStep DEF Book
    <2>3. retries' = [retries EXCEPT !.settled = @ \cup {hook[h].seen}]
            => retries'.settled = retries.settled \cup {hook[h].seen}
      BY DEF Typed, RowsOK, RetriesOK
    <2> QED BY <1>1, <2>1, <2>2, <2>3 DEF Settle, Book, books
  <1>2. CASE CreateEvent(h) \/ ReadCase(h) \/ Verify(h) \/ MarkPaid(h)
               \/ MarkProcessed(h) \/ HookDies(h)
    BY <1>2 DEF CreateEvent, ReadCase, Verify, MarkPaid, MarkProcessed, HookDies, books
  <1>3. CASE \E k \in Links : FindEvent(h, k)
    BY <1>3 DEF FindEvent, books
  <1> QED BY <1>1, <1>2, <1>3 DEF Handle

\* A step that settles no further retry makes nobody late, and who credits for a
\* retry settled before is no longer late afterwards.
LEMMA SameSettled ==
    ASSUME Typed, NEW h \in Hooks, HookMoves(h), retries'.settled = retries.settled
    PROVE  /\ Late' \subseteq Late
           /\ hook'[h].at = "paid" => Late' \subseteq Late \ {h}
  BY DEF HookMoves, Late

LEMMA CreditStep == Typed /\ CreditInv /\ [Next]_vars => CreditInv'
  <1> SUFFICES ASSUME Typed, CreditInv, [Next]_vars, NEW l \in Links
               PROVE  credited'[l] + Cardinality(Late')
                        =< Own(l)' + Cardinality(Hooks) * Cardinality(retries'.settled)
    BY DEF CreditInv
  <1> DEFINE K == Cardinality(Hooks)
             n == Cardinality(retries.settled)
             m == Cardinality(retries'.settled)
             a == Cardinality(Late)
             b == Cardinality(Late')
  <1>1. RowsOK /\ RowsOK' /\ RetriesOK /\ RetriesOK'
    BY TypedStep DEF Typed, RowMoves, RowsOK
  <1>2. /\ K \in Nat /\ n \in Nat /\ m \in Nat /\ a \in Nat /\ b \in Nat
        /\ credited[l] \in Nat /\ credited \in [Links -> Nat]
        /\ Own(l) \in {0, 1} /\ Own(l)' \in {0, 1}
    <2>1. Late \in SUBSET Hooks /\ Late' \in SUBSET Hooks
      BY DEF Late
    <2>2. K \in Nat /\ a \in Nat /\ b \in Nat
      BY <2>1, Counting
    <2>3. n \in Nat
      BY <1>1, SettledCount DEF RetriesOK
    <2>4. m \in Nat
      BY <1>1, SettledCount DEF RetriesOK
    <2>5. credited[l] \in Nat /\ credited \in [Links -> Nat]
      BY <1>1 DEF RowsOK
    <2> HIDE DEF K, n, m, a, b
    <2> QED BY <2>2, <2>3, <2>4, <2>5 DEF Own
  <1>3. credited[l] + a =< Own(l) + K * n
    BY DEF CreditInv
  <1>4. CASE Aside
    <2>1. Late' = Late /\ m = n /\ Own(l)' = Own(l) /\ credited'[l] = credited[l]
      BY <1>4 DEF Aside, Late, Own
    <2> QED BY <1>3, <2>1
  <1>5. ASSUME NEW h \in Hooks,
               Handle(h) \/ HookDies(h) \/ \E k \in Links : FindEvent(h, k)
        PROVE  credited'[l] + b =< Own(l)' + K * m
    <2>1. HookMoves(h)
      BY <1>5, HookStepOK
    <2>2. CASE UNCHANGED << credited, recorded, retries >>
      <3>1. Late' \subseteq Late
        BY <2>1, <2>2, SameSettled
      <3>2. b =< a
        BY <1>1, <3>1, LinksAssumption, FS_Subset DEF Late
      <3>3. m = n /\ Own(l)' = Own(l) /\ credited'[l] = credited[l]
        BY <2>2 DEF Own
      <3> HIDE DEF K, n, m, a, b
      <3> QED BY <1>2, <1>3, <3>2, <3>3
    <2>3. CASE /\ hook[h].at = "settle" /\ hook'[h].at = "paid"
               /\ credited' = [credited EXCEPT ![hook[h].on] = @ + 1]
               /\ hook[h].seen = 0 /\ hook[h].on \notin recorded
               /\ recorded' = recorded \cup {hook[h].on}
               /\ retries' = retries
      <3>1. Late' \subseteq Late
        BY <2>1, <2>3, SameSettled
      <3>2. b =< a /\ m = n
        BY <2>3, <3>1, LinksAssumption, FS_Subset DEF Late
      <3>3. \/ credited'[l] = credited[l] /\ Own(l)' = Own(l)
            \/ credited'[l] = credited[l] + 1 /\ Own(l) = 0 /\ Own(l)' = 1
        BY <1>2, <2>3 DEF Own
      <3> HIDE DEF K, n, m, a, b
      <3> QED BY <1>2, <1>3, <3>2, <3>3
    <2>4. ASSUME hook[h].at = "settle", hook'[h].at = "paid",
                 credited' = [credited EXCEPT ![hook[h].on] = @ + 1],
                 hook[h].seen # 0, recorded' = recorded,
                 retries'.settled = retries.settled \cup {hook[h].seen}
          PROVE  credited'[l] + b =< Own(l)' + K * m
      <3>1. credited'[l] =< credited[l] + 1 /\ credited'[l] \in Nat
        BY <1>2, <2>4
      <3>2. Own(l)' = Own(l)
        BY <2>4 DEF Own
      <3>3. CASE hook[h].seen \in retries.settled
        <4>1. retries'.settled = retries.settled
          BY <2>4, <3>3
        <4>2. h \in Late /\ Late' \subseteq Late \ {h} /\ Late \subseteq Hooks
          BY <2>1, <2>4, <3>3, <4>1, SameSettled DEF Late
        <4>3. b + 1 =< a /\ m = n
          BY <4>1, <4>2, Leaving
        <4> HIDE DEF K, n, m, a, b
        <4> QED BY <1>2, <1>3, <3>1, <3>2, <4>3
      <3>4. CASE hook[h].seen \notin retries.settled
        <4>1. m = n + 1
          BY <1>1, <2>4, <3>4, SettledCount, FS_AddElement DEF RetriesOK
        <4>2. Late' \subseteq Hooks \ {h}
          BY <2>4 DEF Late
        <4>3. b + 1 =< K
          BY <4>2, Leaving
        <4>4. K * (n + 1) = K * n + K /\ K * n \in Nat
          <5> HIDE DEF K, n
          <5> QED BY <1>2
        <4> HIDE DEF K, n, m, a, b
        <4> QED BY <1>2, <1>3, <3>1, <3>2, <4>1, <4>3, <4>4
      <3> QED BY <3>3, <3>4
    <2> QED BY <1>5, <2>2, <2>3, <2>4, WhoCredits
  <1> QED BY <1>4, <1>5, WorldAside

\* A payment is credited once under its own reference, and for each retry settled in
\* its place at most once per delivery that can run at the same time, whatever is
\* delivered later and whatever status stale tools write in between.
THEOREM CreditsAreBounded == Spec => []CreditedOnce
  <1>1. Typed /\ CreditInv => CreditedOnce
    <2> SUFFICES ASSUME Typed, CreditInv, NEW l \in Links
                 PROVE  credited[l] =< 1 + Cardinality(Hooks)
                                            * Cardinality(retries.settled)
      BY DEF CreditedOnce
    <2> DEFINE p == Cardinality(Hooks) * Cardinality(retries.settled)
    <2>1. credited[l] \in Nat /\ Own(l) \in {0, 1} /\ RetriesOK
      BY DEF Typed, RowsOK, Own
    <2>2. Cardinality(Late) \in Nat /\ Cardinality(Hooks) \in Nat
      BY Counting DEF Late
    <2>3. p \in Nat
      BY <2>1, <2>2, SettledCount DEF RetriesOK
    <2>4. credited[l] + Cardinality(Late) =< Own(l) + p
      BY DEF CreditInv
    <2> HIDE DEF p
    <2>5. credited[l] =< 1 + p
      BY <2>1, <2>2, <2>3, <2>4
    <2> QED BY <2>5 DEF p
  <1> QED BY <1>1, CreditStart, CreditStep, TypedHolds, PTL DEF Spec
=============================================================================
