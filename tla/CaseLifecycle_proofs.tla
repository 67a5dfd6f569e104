------------------------ MODULE CaseLifecycle_proofs ------------------------
(***************************************************************************)
(* First what the policy gate guarantees for every context and every       *)
(* setting of the limits, alone and behind the mock provider; the lemmas   *)
(* are the interface that the rest uses, which needs no rule again.        *)
(* Then the safety of the case lifecycle, for any cases, any number of     *)
(* concurrent handlers, any limits and any bounds: types and sealed cases; *)
(* by how much the gate's limits can be passed, and that what it forbids   *)
(* outright is never done; that every retry works on a row of its own and  *)
(* that a recovered case is settled.                                       *)
(***************************************************************************)
EXTENDS CaseLifecycle, MockDiagnosis, FiniteSetTheorems, SequenceTheorems, TLAPS

-----------------------------------------------------------------------------
(* The policy gate *)

\* The first three groups of actions are disjoint and make up the closed list.
LEMMA ActionGroups ==
    /\ RetryActions \cap ContactActions = {}
    /\ RetryActions \cap ExemptActions = {}
    /\ ContactActions \cap ExemptActions = {}
  BY DEF RetryActions, ContactActions, LinkActions, ExemptActions

\* No denial makes the agent charge: what replaces a denied action is a link, an
\* escalation or nothing.
LEMMA FallbackRange ==
    ASSUME NEW ctx
    PROVE  Fallback(ctx) \in LinkActions \cup {"NO_ACTION", "CREATE_ESCALATION"}
  BY DEF Fallback, PaymentFallback, LinkActions

\* Only the closed list of actions is ever executed.
LEMMA EffectiveIsAction ==
    ASSUME NEW ctx, ctx.action \in Actions
    PROVE  Effective(ctx) \in Actions
  BY FallbackRange
     DEF Effective, Actions, LinkActions, ContactActions, ExemptActions

\* A charge is executed only when it was asked for and every rule passed.
LEMMA ChargeIsAllowed ==
    ASSUME NEW ctx, Effective(ctx) \in RetryActions
    PROVE  Allowed(ctx) /\ Effective(ctx) = ctx.action
  BY FallbackRange DEF Effective, RetryActions, LinkActions

\* An allowed charge is below the retry limit and for a retryable failure.
LEMMA AllowedCharge ==
    ASSUME NEW ctx, Allowed(ctx), ctx.action \in RetryActions
    PROVE  ctx.retryCount < MaxRetryAttempts /\ Retryable(ctx.failureReason)
  <1>1. 2 \in DOMAIN Rules /\ Rules[2] = "MAX_RETRY_ATTEMPTS"
    BY DEF Rules
  <1>2. 3 \in DOMAIN Rules /\ Rules[3] = "RETRYABLE_FAILURE_REASON"
    BY DEF Rules
  <1>3. ~Fails("MAX_RETRY_ATTEMPTS", ctx)
    BY <1>1 DEF Allowed
  <1>4. ~Fails("RETRYABLE_FAILURE_REASON", ctx)
    BY <1>2 DEF Allowed
  <1> QED BY <1>3, <1>4 DEF Fails

\* An allowed contact is below the contact limit.
LEMMA AllowedContact ==
    ASSUME NEW ctx, Allowed(ctx), ctx.action \in ContactActions
    PROVE  ctx.contactCount < MaxContactAttempts
  <1>1. 5 \in DOMAIN Rules /\ Rules[5] = "MAX_CONTACT_ATTEMPTS"
    BY DEF Rules
  <1>2. ~Fails("MAX_CONTACT_ATTEMPTS", ctx)
    BY <1>1 DEF Allowed
  <1> QED BY <1>2 DEF Fails

\* On a disputed case only an exempt action is executed, whatever was asked and
\* whatever else fails: the dispute rule comes first, so its denial is never
\* turned into the link a retry rule's denial would be.
THEOREM DisputeStops ==
    ASSUME NEW ctx, ctx.disputed
    PROVE  Effective(ctx) \in ExemptActions
  <1>1. CASE ctx.action \in ExemptActions
    <2>1. \A rule : ~Fails(rule, ctx)
      BY <1>1, ActionGroups DEF Fails
    <2> QED BY <1>1, <2>1 DEF Effective, Allowed
  <1>2. CASE ctx.action \notin ExemptActions
    <2>1. 1 \in DOMAIN Rules /\ Rules[1] = "NO_DISPUTE_STOP"
      BY DEF Rules
    <2>2. Fails("NO_DISPUTE_STOP", ctx)
      BY <1>2 DEF Fails
    <2>3. ASSUME NEW names, "NO_DISPUTE_STOP" \notin names
          PROVE  ~FirstFailed(names, ctx)
      <3>1. SUFFICES ASSUME NEW i \in DOMAIN Rules, Rules[i] \in names,
                            \A j \in 1 .. i - 1 : ~Fails(Rules[j], ctx)
                     PROVE  FALSE
        BY DEF FirstFailed
      <3>2. i \in 2 .. 7
        BY <2>1, <2>3, <3>1 DEF Rules
      <3>3. 1 \in 1 .. i - 1
        BY <3>2
      <3> QED BY <2>1, <2>2, <3>1, <3>3
    <2>4. ~Allowed(ctx)
      BY <2>1, <2>2 DEF Allowed
    <2>5. Fallback(ctx) = "CREATE_ESCALATION"
      BY <2>3 DEF Fallback
    <2> QED BY <2>4, <2>5 DEF Effective, ExemptActions
  <1> QED BY <1>1, <1>2

\* The same request once the clock has been waited out.
Waited(ctx) == [ctx EXCEPT !.cooled = TRUE, !.inWindow = TRUE]

ClockRules == {"CONTACT_HOURS_IST", "CONTACT_COOLDOWN"}

RetryRules == {"MAX_RETRY_ATTEMPTS", "RETRYABLE_FAILURE_REASON"}

LEMMA RuleNames ==
    /\ DOMAIN Rules = 1 .. 7
    /\ \A i \in 1 .. 7 : /\ Rules[i] \in ClockRules <=> i \in 6 .. 7
                         /\ Rules[i] \in RetryRules <=> i \in 2 .. 3
  BY DEF Rules, ClockRules, RetryRules

\* A denied contact is deferred (NO_ACTION) exactly when waiting cures the denial,
\* and handed to a human exactly when it does not, because the clock rules come
\* last: a case that can never be contacted is not put off for ever.
THEOREM DeferralHelps ==
    ASSUME NEW ctx \in Contexts(Nat), ctx.action \in ContactActions, ~Allowed(ctx)
    PROVE  /\ Effective(ctx) \in {"NO_ACTION", "CREATE_ESCALATION"}
           /\ Effective(ctx) = "NO_ACTION" <=> Allowed(Waited(ctx))
  <1> DEFINE late == Waited(ctx)
  <1>1. /\ DOMAIN ctx = DOMAIN late
        /\ late.action = ctx.action /\ late.contactCount = ctx.contactCount
        /\ late.consented = ctx.consented /\ late.disputed = ctx.disputed
        /\ late.cooled /\ late.inWindow
    BY DEF Waited, Contexts
  <1> HIDE DEF late
  <1>2. ctx.action \notin RetryActions
    BY ActionGroups
  <1>3. ASSUME NEW rule, rule \notin ClockRules
        PROVE  Fails(rule, late) <=> Fails(rule, ctx)
    BY <1>1, <1>2, <1>3 DEF Fails, ClockRules
  <1>4. ASSUME NEW rule \in ClockRules
        PROVE  ~Fails(rule, late)
    BY <1>1, <1>2, <1>4, ActionGroups DEF Fails, ClockRules
  <1>5. Allowed(late) <=> \A i \in 1 .. 5 : ~Fails(Rules[i], ctx)
    BY <1>3, <1>4, RuleNames DEF Allowed
  <1>6. ASSUME NEW rule \in RetryRules
        PROVE  ~Fails(rule, ctx)
    BY <1>2, <1>6 DEF Fails, RetryRules
  <1>7. CASE \A i \in 1 .. 5 : ~Fails(Rules[i], ctx)
    <2>1. PICK k \in 6 .. 7 : /\ Fails(Rules[k], ctx)
                              /\ \A j \in 1 .. k - 1 : ~Fails(Rules[j], ctx)
      <3>1. CASE Fails(Rules[6], ctx)
        BY <1>7, <3>1
      <3>2. CASE ~Fails(Rules[6], ctx)
        <4>1. Fails(Rules[7], ctx)
          BY <1>7, <3>2, RuleNames DEF Allowed
        <4> QED BY <1>7, <3>2, <4>1
      <3> QED BY <3>1, <3>2
    <2>2. FirstFailed(ClockRules, ctx)
      BY <2>1, RuleNames DEF FirstFailed
    <2>3. Effective(ctx) = "NO_ACTION"
      BY <2>2 DEF Effective, Fallback, ClockRules
    <2> QED BY <1>5, <1>7, <2>3 DEF late
  <1>8. CASE \E i \in 1 .. 5 : Fails(Rules[i], ctx)
    <2>1. PICK i \in 1 .. 5 : Fails(Rules[i], ctx)
      BY <1>8
    <2>2. ~FirstFailed(ClockRules, ctx)
      <3>1. ASSUME NEW k \in 6 .. 7
            PROVE  i \in 1 .. k - 1
        OBVIOUS
      <3> QED BY <2>1, <3>1, RuleNames DEF FirstFailed
    <2>3. ~FirstFailed(RetryRules, ctx)
      BY <1>6 DEF FirstFailed
    <2>4. Effective(ctx) = "CREATE_ESCALATION"
      BY <2>2, <2>3 DEF Effective, Fallback, ClockRules, RetryRules
    <2> QED BY <1>5, <1>8, <2>4 DEF late
  <1> QED BY <1>7, <1>8

-----------------------------------------------------------------------------
(* The offline provider in front of the gate *)

\* The two failures the provider charges for, both known from the case's payment.
LEMMA MockChargeReasons ==
    ASSUME NEW input \in Inputs, Decide(input) \in RetryActions
    PROVE  input.failureReason \in {"INSUFFICIENT_FUNDS", "TECHNICAL_ERROR"}
  <1>1. input.caseType \in CaseTypes
    BY DEF Inputs
  <1>2. CASE input.caseType = "FAILED_PAYMENT"
    BY <1>2 DEF Decide, FailedPayment, RetryActions
  <1>3. CASE input.caseType = "FAILED_SUBSCRIPTION"
    BY <1>3 DEF Decide, Subscription, RetryActions
  <1>4. CASE input.caseType = "CHECKOUT_ABANDONMENT"
    BY <1>4 DEF Decide, Checkout, RetryActions
  <1>5. CASE input.caseType = "OVERDUE_INVOICE"
    BY <1>5 DEF Decide, Invoice, RetryActions
  <1>6. CASE input.caseType = "MANDATE_FAILURE"
    BY <1>6 DEF Decide, Mandate, RetryActions
  <1> QED BY <1>1, <1>2, <1>3, <1>4, <1>5, <1>6 DEF CaseTypes

\* The provider's table and the policy's list of retryable failures agree: a charge
\* it recommends is denied by a dispute or by the retry limit only, and past the
\* limit it becomes the plain payment link, for no charged failure needs a new
\* payment method.
THEOREM MockChargesAreRetryable ==
    ASSUME NEW input \in Inputs, NEW ctx \in Contexts(Nat), Asked(input, ctx),
           ctx.action \in RetryActions
    PROVE  /\ Allowed(ctx) <=> ~ctx.disputed /\ ctx.retryCount < MaxRetryAttempts
           /\ ~Allowed(ctx) =>
                Effective(ctx) = IF ctx.disputed THEN "CREATE_ESCALATION"
                                                 ELSE "SEND_PAYMENT_LINK"
  <1>1. ctx.failureReason \in {"INSUFFICIENT_FUNDS", "TECHNICAL_ERROR"}
    BY MockChargeReasons DEF Asked, NoReason
  <1>2. ctx.action \notin ContactActions /\ ctx.action \notin ExemptActions
    BY ActionGroups
  <1>3. ~Fails(Rules[3], ctx)
    BY <1>1, <1>2 DEF Fails, Rules, Retryable, RetryableReasons
  <1>4. \A i \in 4 .. 7 : ~Fails(Rules[i], ctx)
    BY <1>2 DEF Fails, Rules
  <1>5. /\ Fails(Rules[1], ctx) <=> ctx.disputed
        /\ Fails(Rules[2], ctx) <=> ~(ctx.retryCount < MaxRetryAttempts)
    BY <1>2 DEF Fails, Rules
  <1>6. Allowed(ctx) <=> ~ctx.disputed /\ ctx.retryCount < MaxRetryAttempts
    <2>1. Allowed(ctx) <=> \A i \in 1 .. 7 : ~Fails(Rules[i], ctx)
      BY RuleNames DEF Allowed
    <2>2. \A i \in 1 .. 7 : i = 1 \/ i = 2 \/ i = 3 \/ i \in 4 .. 7
      OBVIOUS
    <2> QED BY <1>3, <1>4, <1>5, <2>1, <2>2
  <1>7. CASE ctx.disputed
    <2>1. Effective(ctx) \in ExemptActions
      BY <1>7, DisputeStops
    <2>2. ~FirstFailed(ClockRules, ctx)
      BY <1>4, RuleNames DEF FirstFailed
    <2>3. Effective(ctx) = Fallback(ctx)
      BY <1>6, <1>7 DEF Effective
    <2> QED BY <1>6, <1>7, <2>1, <2>2, <2>3
            DEF Fallback, PaymentFallback, ClockRules, ExemptActions
  <1>8. CASE ~ctx.disputed /\ ~Allowed(ctx)
    <2>1. Fails(Rules[2], ctx) /\ ~Fails(Rules[1], ctx)
      BY <1>5, <1>6, <1>8
    <2>2. FirstFailed(RetryRules, ctx)
      <3>1. \A j \in 1 .. 2 - 1 : j = 1
        OBVIOUS
      <3> QED BY <2>1, <3>1, RuleNames DEF FirstFailed
    <2>3. ~FirstFailed(ClockRules, ctx)
      BY <1>4, RuleNames DEF FirstFailed
    <2>4. Fallback(ctx) = PaymentFallback(ctx.failureReason)
      BY <2>2, <2>3 DEF Fallback, ClockRules, RetryRules
    <2>5. PaymentFallback(ctx.failureReason) = "SEND_PAYMENT_LINK"
      BY <1>1 DEF PaymentFallback, MethodReasons
    <2> QED BY <1>6, <1>8, <2>4, <2>5 DEF Effective
  <1> QED BY <1>6, <1>7, <1>8

\* A failed payment only a new method can cure is never charged again and its
\* customer never gets a plain link to pay with the old method, whatever the gate
\* says of the provider's recommendation.
THEOREM MockAsksForMethod ==
    ASSUME NEW input \in Inputs, NEW ctx \in Contexts(Nat), Asked(input, ctx),
           input.caseType = "FAILED_PAYMENT", input.failureReason \in MethodReasons
    PROVE  Effective(ctx) \in
             {"SEND_PAYMENT_UPDATE_LINK", "CREATE_ESCALATION", "NO_ACTION"}
  <1>1. ctx.action \in {"SEND_PAYMENT_UPDATE_LINK", "CREATE_ESCALATION"}
    BY DEF Asked, Decide, FailedPayment, MethodReasons, NoReason
  <1>2. CASE Allowed(ctx)
    BY <1>1, <1>2 DEF Effective
  <1>3. CASE ~Allowed(ctx) /\ ctx.action \in ContactActions
    BY <1>3, DeferralHelps
  <1>4. CASE ctx.action \in ExemptActions
    BY <1>1, <1>4, ActionGroups DEF Allowed, Effective, Fails, ExemptActions
  <1> QED BY <1>1, <1>2, <1>3, <1>4 DEF ContactActions, LinkActions, ExemptActions

-----------------------------------------------------------------------------
(* Type correctness *)

\* The part of TypeOK about what handlers remember.
HandlersOK ==
    /\ req \in [Requests -> Records]
    /\ \A r \in Requests :
         /\ req[r].at # "idle" => req[r].on \in Cases
         /\ req[r].at = "saveDecision" => req[r].what \in Actions

StoreOK ==
    /\ status \in [Cases -> CaseStatuses]
    /\ recovered \in [Cases -> {"NO", "webhook", "demo", "batch"}]
    /\ decision \in [Cases -> Actions \cup {"NONE"}]
    /\ source \in [Cases -> SourceRecords]
    /\ contacts \in [Cases -> [allowed : Nat, fallback : Nat]]
    /\ retries \in [Cases -> Nat]
    /\ payments \in [Cases -> Seq(PaymentRows)]
    /\ linked \subseteq Cases
    /\ promise \in [Cases -> PromiseStatuses]

WorldOK ==
    /\ cooled \subseteq Cases
    /\ consent \in [Cases -> SUBSET {"EMAIL", "SMS"}]
    /\ inWindow \in BOOLEAN

LEMMA TypeParts == TypeOK <=> StoreOK /\ WorldOK /\ HandlersOK
  BY DEF TypeOK, StoreOK, WorldOK, HandlersOK

\* An idle handler is a well-formed record.
LEMMA IdleOK == Idle \in Records /\ Idle.at = "idle" /\ Idle.on = NoCase
  BY DEF Idle, Records, Steps, Tasks

\* Replacing one handler's record by a well-formed one keeps them all well-formed.
LEMMA HandlerStep ==
    ASSUME HandlersOK, NEW r \in Requests, NEW rec \in Records,
           rec.at # "idle" => rec.on \in Cases,
           rec.at = "saveDecision" => rec.what \in Actions,
           req' = [req EXCEPT ![r] = rec]
    PROVE  HandlersOK'
  BY DEF HandlersOK

LEMMA DoneOK ==
    ASSUME HandlersOK, NEW r \in Requests, Done(r)
    PROVE  HandlersOK'
  BY IdleOK, HandlerStep DEF Done

LEMMA GotoOK ==
    ASSUME HandlersOK, NEW r \in Requests, req[r].at # "idle",
           NEW step \in Steps \ {"saveDecision"}, Goto(r, step)
    PROVE  HandlersOK'
  <1> DEFINE rec == [req[r] EXCEPT !.at = step]
  <1>1. req[r] \in Records /\ req[r].on \in Cases
    BY DEF HandlersOK
  <1>2. rec \in Records /\ rec.on \in Cases /\ rec.at = step
    BY <1>1 DEF Records
  <1>3. req' = [req EXCEPT ![r] = rec]
    BY DEF Goto
  <1> QED BY <1>2, <1>3, HandlerStep

LEMMA StartOK ==
    ASSUME HandlersOK, NEW r \in Requests, NEW c \in Cases,
           NEW step \in Steps \ {"saveDecision"}, NEW what \in Tasks,
           Start(r, c, step, what)
    PROVE  HandlersOK'
  <1> DEFINE rec == [Idle EXCEPT !.at = step, !.on = c, !.what = what]
  <1>1. rec \in Records /\ rec.on \in Cases /\ rec.at = step
    BY IdleOK DEF Idle, Records
  <1> QED BY <1>1, HandlerStep DEF Start

\* The records a diagnosis and a verification start from.
LEMMA FreshRecord ==
    ASSUME NEW c \in Cases, NEW step \in Steps, NEW what \in Tasks,
           NEW may \in BOOLEAN, NEW origin \in {"NO", "webhook", "demo", "batch"}
    PROVE  /\ [Idle EXCEPT !.at = step, !.on = c, !.what = what, !.may = may]
                \in Records
           /\ [Idle EXCEPT !.at = step, !.on = c, !.what = what,
                           !.origin = origin, !.may = may] \in Records
  BY DEF Idle, Records

\* Every step of a handler leaves a well-formed record.
LEMMA HandlersTyped ==
    ASSUME TypeOK, NEW r \in Requests, Begin(r) \/ Continue(r)
    PROVE  HandlersOK'
  <1> USE TypeParts
  <1>0. /\ HandlersOK /\ req[r] \in Records
        /\ \A step : At(r, step) /\ step # "idle" => req[r].on \in Cases
    BY DEF HandlersOK, At
  <1>1. ASSUME NEW c \in Cases, NEW action \in Actions,
               BeginExecute(r, c, action)
        PROVE  HandlersOK'
    BY <1>0, <1>1, StartOK DEF BeginExecute, Steps, Tasks
  <1>2. ASSUME NEW c \in Cases, BeginDiagnose(r, c)
        PROVE  HandlersOK'
    <2>1. PICK action \in Recommendable :
            req' = [req EXCEPT ![r] =
                     [Idle EXCEPT !.at = "saveDecision", !.on = c,
                                  !.what = action,
                                  !.may = status[c] \in {"OPEN", "DIAGNOSED"}]]
      BY <1>2 DEF BeginDiagnose
    <2> DEFINE rec == [Idle EXCEPT !.at = "saveDecision", !.on = c,
                                   !.what = action,
                                   !.may = status[c] \in {"OPEN", "DIAGNOSED"}]
    <2>2. action \in Tasks /\ "saveDecision" \in Steps
      BY LifecycleAssumption DEF Tasks, Steps
    <2>3. (status[c] \in {"OPEN", "DIAGNOSED"}) \in BOOLEAN
      OBVIOUS
    <2>4. rec \in Records /\ rec.on \in Cases /\ rec.what \in Actions
      <3>1. rec.on = c /\ rec.what = action
        BY DEF Idle
      <3>2. action \in Actions
        BY LifecycleAssumption
      <3>3. rec \in Records
        BY <2>2, <2>3, FreshRecord
      <3> HIDE DEF rec
      <3> QED BY <3>1, <3>2, <3>3
    <2> HIDE DEF rec
    <2> QED BY <1>0, <2>1, <2>4, HandlerStep DEF rec
  <1>3. ASSUME NEW c \in Cases, NEW outcome \in Outcomes, NEW origin \in Origins,
               BeginVerify(r, c, outcome, origin)
        PROVE  HandlersOK'
    <2> DEFINE rec == [Idle EXCEPT !.at = "findPending", !.on = c,
                                   !.what = outcome, !.origin = origin,
                                   !.may = promise[c] \in OpenPromises]
    <2>1. /\ outcome \in {"SUCCESS", "FAILURE"}
          /\ origin \in {"webhook", "demo", "batch"}
      BY LifecycleAssumption
    <2>2. rec \in Records /\ rec.on \in Cases /\ rec.at = "findPending"
      <3>1. outcome \in Tasks /\ "findPending" \in Steps
        BY <2>1 DEF Tasks, Steps
      <3>2. (promise[c] \in OpenPromises) \in BOOLEAN
        OBVIOUS
      <3>3. rec.on = c /\ rec.at = "findPending"
        BY DEF Idle
      <3> QED BY <2>1, <3>1, <3>2, <3>3, FreshRecord
    <2>3. req' = [req EXCEPT ![r] = rec]
      BY <1>3 DEF BeginVerify
    <2> HIDE DEF rec
    <2> QED BY <1>0, <2>2, <2>3, HandlerStep
  <1>4. ASSUME NEW c \in Cases, NEW intent \in Intents, BeginVoice(r, c, intent)
        PROVE  HandlersOK'
    <2>1. intent \in {"PROMISE_TO_PAY", "REFUSED"}
      BY LifecycleAssumption
    <2> QED BY <1>0, <1>4, <2>1, StartOK DEF BeginVoice, Steps, Tasks
  <1>5. ASSUME Evaluate(r)
        PROVE  HandlersOK'
    <2> DEFINE ctx == Context(req[r].on, req[r].what)
               rec == [req[r] EXCEPT !.at = "load", !.what = Effective(ctx),
                                     !.cleared = Allowed(ctx)]
    <2>1. CASE Done(r)
      BY <1>0, <2>1, DoneOK
    <2>2. CASE ~Done(r)
      <3>1. req' = [req EXCEPT ![r] = rec]
        BY <1>5, <2>2 DEF Evaluate
      <3>2. Effective(ctx) \in Tasks
        <4>1. req[r].what \in Tasks
          BY <1>0 DEF Records
        <4> QED BY <4>1, FallbackRange
               DEF Effective, Context, Tasks, Actions, LinkActions,
                   ContactActions, ExemptActions
      <3>3. Allowed(ctx) \in BOOLEAN
        BY DEF Allowed
      <3>4. rec \in Records /\ rec.on \in Cases /\ rec.at = "load"
        <4> HIDE DEF ctx
        <4> QED BY <1>0, <1>5, <3>2, <3>3 DEF Records, Steps, Evaluate
      <3> HIDE DEF rec
      <3> QED BY <1>0, <3>1, <3>4, HandlerStep
    <2> QED BY <2>1, <2>2
  <1>6. ASSUME LoadCase(r)
        PROVE  HandlersOK'
    <2>1. FirstCall(req[r].what) \in Steps \ {"saveDecision"} /\ req[r].at # "idle"
      BY <1>6 DEF FirstCall, Steps, LoadCase, At
    <2> QED BY <1>0, <1>6, <2>1, DoneOK, GotoOK DEF LoadCase
  <1>7. ASSUME \/ CreateLink(r) \/ CreateAttempt(r) \/ FinishUpdate(r)
               \/ SaveDecision(r) \/ UpsertPromise(r)
        PROVE  HandlersOK'
    BY <1>0, <1>7, GotoOK
       DEF CreateLink, CreateAttempt, FinishUpdate, SaveDecision, UpsertPromise,
           At, Steps
  <1>8. ASSUME \/ FinishRecord(r) \/ Advance(r) \/ Settle(r) \/ AttemptFailed(r)
               \/ Refuse(r) \/ MarkWaiting(r) \/ Abort(r)
        PROVE  HandlersOK'
    BY <1>0, <1>8, DoneOK
       DEF FinishRecord, Advance, Settle, AttemptFailed, Refuse, MarkWaiting,
           Abort
  <1>9. ASSUME CountPayments(r)
        PROVE  HandlersOK'
    <2> DEFINE rec == [req[r] EXCEPT !.at = "schedule",
                                     !.seen = Len(payments[req[r].on])]
    <2>1. req[r].on \in Cases
      BY <1>0, <1>9 DEF CountPayments, At
    <2>2. Len(payments[req[r].on]) \in Nat
      BY <2>1 DEF StoreOK
    <2>3. rec \in Records /\ rec.on \in Cases /\ rec.at # "saveDecision"
      BY <1>0, <2>1, <2>2 DEF Records, Steps
    <2>4. req' = [req EXCEPT ![r] = rec]
      BY <1>9 DEF CountPayments
    <2> HIDE DEF rec
    <2> QED BY <1>0, <2>3, <2>4, HandlerStep
  <1>10. ASSUME ScheduleRetry(r)
         PROVE  HandlersOK'
    BY <1>0, <1>10, DoneOK, GotoOK DEF ScheduleRetry, At, Steps
  <1>11. ASSUME FinishLoad(r)
         PROVE  HandlersOK'
    <2> DEFINE rec == [req[r] EXCEPT !.at = "update",
                         !.may = \/ req[r].what = "CREATE_ESCALATION"
                                 \/ status[req[r].on] \in ActiveStatuses]
    <2>1. rec \in Records /\ rec.on \in Cases /\ rec.at # "saveDecision"
      BY <1>0, <1>11 DEF Records, Steps, FinishLoad, At
    <2>2. req' = [req EXCEPT ![r] = rec]
      BY <1>11 DEF FinishLoad
    <2> HIDE DEF rec
    <2> QED BY <1>0, <2>1, <2>2, HandlerStep
  <1>12. ASSUME FindPending(r)
         PROVE  HandlersOK'
    <2>1. PICK i \in 0 .. Len(payments[req[r].on]) :
            req' = [req EXCEPT ![r].at = IF req[r].what = "SUCCESS"
                                         THEN "settle" ELSE "fail",
                               ![r].seen = i]
      BY <1>12 DEF FindPending
    <2> DEFINE rec == [req[r] EXCEPT !.at = IF req[r].what = "SUCCESS"
                                            THEN "settle" ELSE "fail",
                                     !.seen = i]
    <2>2. req[r].on \in Cases
      BY <1>0, <1>12 DEF FindPending, At
    <2>3. i \in Nat
      BY <2>2 DEF StoreOK
    <2>4. rec \in Records /\ rec.on \in Cases /\ rec.at # "saveDecision"
      BY <1>0, <2>2, <2>3 DEF Records, Steps
    <2>5. req' = [req EXCEPT ![r] = rec]
      BY <2>1
    <2> HIDE DEF rec
    <2> QED BY <1>0, <2>4, <2>5, HandlerStep
  <1>13. ASSUME RecordPromise(r)
         PROVE  HandlersOK'
    <2> DEFINE rec == [req[r] EXCEPT !.at = "upsertPromise",
                         !.may = status[req[r].on] # "WAITING_CUSTOMER"]
    <2>1. rec \in Records /\ rec.on \in Cases /\ rec.at # "saveDecision"
      BY <1>0, <1>13 DEF Records, Steps, RecordPromise, At
    <2>2. Done(r) \/ req' = [req EXCEPT ![r] = rec]
      BY <1>13 DEF RecordPromise
    <2> HIDE DEF rec
    <2> QED BY <1>0, <2>1, <2>2, HandlerStep, DoneOK
  <1> QED
    BY <1>1, <1>2, <1>3, <1>4, <1>5, <1>6, <1>7, <1>8, <1>9, <1>10, <1>11,
       <1>12, <1>13 DEF Begin, Continue, Proceed

\* The database rows stay well-formed.
LEMMA StoreTyped ==
    ASSUME TypeOK, NEW r \in Requests, Begin(r) \/ Continue(r)
    PROVE  StoreOK'
  <1> USE TypeParts
  <1>0. /\ StoreOK /\ req[r] \in Records
        /\ \A step : At(r, step) /\ step # "idle" => req[r].on \in Cases
    BY DEF HandlersOK, At
  <1>1. ASSUME UNCHANGED store
        PROVE  StoreOK'
    BY <1>0, <1>1 DEF StoreOK, store
  <1>2. CASE Begin(r)
    BY <1>1, <1>2
       DEF Begin, BeginExecute, BeginDiagnose, BeginVerify, BeginVoice
  <1>3. CASE \/ Evaluate(r) \/ LoadCase(r) \/ CountPayments(r) \/ FinishLoad(r)
             \/ FindPending(r) \/ RecordPromise(r) \/ Abort(r)
    BY <1>1, <1>3
       DEF Evaluate, LoadCase, CountPayments, FinishLoad, FindPending,
           RecordPromise, Abort
  <1>4. CASE CreateLink(r)
    BY <1>0, <1>4 DEF CreateLink, At, StoreOK
  <1>5. CASE CreateAttempt(r)
    <2> DEFINE c == req[r].on
    <2>1. c \in Cases
      BY <1>0, <1>5 DEF CreateAttempt, At
    <2>2. contacts[c] \in [allowed : Nat, fallback : Nat]
      BY <1>0, <2>1 DEF StoreOK
    <2>3. /\ [contacts[c] EXCEPT !.allowed = @ + 1] \in [allowed : Nat, fallback : Nat]
          /\ [contacts[c] EXCEPT !.fallback = @ + 1] \in [allowed : Nat, fallback : Nat]
      BY <2>2
    <2>4. contacts' \in [Cases -> [allowed : Nat, fallback : Nat]]
      BY <1>0, <1>5, <2>1, <2>3 DEF CreateAttempt, StoreOK
    <2> QED BY <1>0, <1>5, <2>4 DEF CreateAttempt, StoreOK
  <1>6. ASSUME NEW c \in Cases, NEW kind \in {"retry", "provider", "simulated"},
               NEW ref \in Nat,
               NEW state \in {"RETRY_SCHEDULED", "SUCCESS", "FAILED"},
               NewPayment(c, kind, ref, state)
        PROVE  payments' \in [Cases -> Seq(PaymentRows)]
    <2>1. [kind |-> kind, ref |-> ref, state |-> state] \in PaymentRows
      BY DEF PaymentRows
    <2> QED BY <1>0, <1>6, <2>1 DEF StoreOK, NewPayment
  <1>7. ASSUME NEW c \in Cases, NEW i,
               NEW state \in {"RETRY_SCHEDULED", "SUCCESS", "FAILED"},
               Resolve(c, i, state)
        PROVE  payments' \in [Cases -> Seq(PaymentRows)]
    <2>1. payments[c] \in Seq(PaymentRows)
      BY <1>0 DEF StoreOK
    <2>2. [payments[c] EXCEPT ![i].state = state] \in Seq(PaymentRows)
      <3>1. CASE i \in DOMAIN payments[c]
        <4>1. payments[c][i] \in PaymentRows
          BY <2>1, <3>1
        <4>2. [payments[c][i] EXCEPT !.state = state] \in PaymentRows
          BY <4>1 DEF PaymentRows
        <4> QED BY <2>1, <3>1, <4>2, ExceptSeq
      <3>2. CASE i \notin DOMAIN payments[c]
        <4> DEFINE s == payments[c]
        <4>1. s \in [1 .. Len(s) -> PaymentRows] /\ DOMAIN s = 1 .. Len(s)
          BY <2>1
        <4>2. [s EXCEPT ![i].state = state] = s
          BY <3>2, <4>1
        <4> QED BY <2>1, <4>2
      <3> QED BY <3>1, <3>2
    <2> QED BY <1>0, <1>7, <2>2 DEF StoreOK, Resolve
  <1>8. CASE ScheduleRetry(r)
    <2>1. req[r].on \in Cases /\ req[r].seen + 1 \in Nat
      BY <1>0, <1>8 DEF ScheduleRetry, At, Records
    <2> QED BY <1>0, <1>6, <1>8, <2>1 DEF ScheduleRetry, StoreOK
  <1>9. CASE \/ FinishUpdate(r) \/ Advance(r) \/ Refuse(r) \/ MarkWaiting(r)
    BY <1>0, <1>9
       DEF FinishUpdate, Advance, Refuse, MarkWaiting, StoreOK, CaseStatuses,
           ActiveStatuses, TerminalStatuses, StatusAfter
  <1>10. CASE FinishRecord(r)
    BY <1>0, <1>10 DEF FinishRecord, At, StoreOK
  <1>11. CASE UpsertPromise(r)
    BY <1>0, <1>11 DEF UpsertPromise, StoreOK, PromiseStatuses, OpenPromises
  <1>12. CASE AttemptFailed(r)
    <2>1. req[r].on \in Cases
      BY <1>0, <1>12 DEF AttemptFailed, At
    <2> QED BY <1>0, <1>7, <1>12, <2>1 DEF AttemptFailed, StoreOK
  <1>13. CASE Settle(r)
    <2> DEFINE c == req[r].on
               kind == IF req[r].origin = "webhook" THEN "provider"
                                                    ELSE "simulated"
    <2>1. c \in Cases /\ req[r].origin \in {"NO", "webhook", "demo", "batch"}
      BY <1>0, <1>13 DEF Settle, At, Records
    <2>2. CASE UNCHANGED store
      BY <1>1, <2>2
    <2>3. CASE ~UNCHANGED store
      <3>1. /\ NewPayment(c, kind, 0, "SUCCESS") \/ Resolve(c, req[r].seen, "SUCCESS")
            /\ source' = [source EXCEPT ![c] = Synced(@)]
            /\ status' = [status EXCEPT ![c] = "RECOVERED"]
            /\ recovered' = [recovered EXCEPT ![c] = req[r].origin]
            /\ promise' = IF req[r].may
                          THEN [promise EXCEPT ![c] = "FULFILLED"] ELSE promise
            /\ UNCHANGED << decision, contacts, retries, linked >>
        BY <1>13, <2>3 DEF Settle
      <3>2. payments' \in [Cases -> Seq(PaymentRows)]
        BY <1>6, <1>7, <2>1, <3>1
      <3>3. source' \in [Cases -> SourceRecords]
        BY <1>0, <2>1, <3>1 DEF StoreOK, Synced, SourceRecords
      <3>4. status' \in [Cases -> CaseStatuses]
        BY <1>0, <2>1, <3>1 DEF StoreOK, CaseStatuses, TerminalStatuses
      <3>5. recovered' \in [Cases -> {"NO", "webhook", "demo", "batch"}]
        BY <1>0, <2>1, <3>1 DEF StoreOK
      <3>6. promise' \in [Cases -> PromiseStatuses]
        BY <1>0, <2>1, <3>1 DEF StoreOK, PromiseStatuses
      <3> HIDE DEF c, kind
      <3> QED BY <1>0, <3>1, <3>2, <3>3, <3>4, <3>5, <3>6 DEF StoreOK
    <2> QED BY <2>2, <2>3
  <1>14. CASE SaveDecision(r)
    BY <1>0, <1>14 DEF SaveDecision, StoreOK, HandlersOK, At
  <1> QED
    BY <1>2, <1>3, <1>4, <1>5, <1>8, <1>9, <1>10, <1>11, <1>12, <1>13, <1>14
       DEF Continue, Proceed

\* Steps of handlers touch the world only by marking a case as just contacted.
LEMMA WorldTyped ==
    ASSUME TypeOK, NEW r \in Requests, Begin(r) \/ Continue(r)
    PROVE  WorldOK'
  <1>1. cooled' \subseteq cooled /\ UNCHANGED << consent, inWindow >>
    BY DEF Begin, BeginExecute, BeginDiagnose, BeginVerify, BeginVoice,
           Continue, Proceed, Evaluate, LoadCase, CreateLink, CreateAttempt,
           CountPayments, ScheduleRetry, FinishLoad, FinishUpdate, FinishRecord,
           SaveDecision, Advance, FindPending, Settle, AttemptFailed, Refuse,
           RecordPromise, UpsertPromise, MarkWaiting, Abort, world
  <1> QED BY <1>1, TypeParts DEF WorldOK

LEMMA WorldStepTyped ==
    ASSUME TypeOK, World
    PROVE  TypeOK'
  <1> USE TypeParts
  <1>1. UNCHANGED << store, req >>
    BY DEF World, WindowTurns, CooldownPasses, SetPreference
  <1>2. StoreOK' /\ HandlersOK'
    BY <1>1 DEF StoreOK, HandlersOK, store
  <1>3. WorldOK'
    <2>0. WorldOK
      OBVIOUS
    <2>1. CASE WindowTurns
      BY <2>0, <2>1, LifecycleAssumption DEF WindowTurns, WorldOK
    <2>2. ASSUME NEW c \in Cases, CooldownPasses(c)
          PROVE  WorldOK'
      BY <2>0, <2>2 DEF CooldownPasses, WorldOK
    <2>3. ASSUME NEW c \in Cases, SetPreference(c)
          PROVE  WorldOK'
      <3>1. PICK opted \in Consents : consent' = [consent EXCEPT ![c] = opted]
        BY <2>3 DEF SetPreference
      <3>2. opted \in SUBSET {"EMAIL", "SMS"}
        BY LifecycleAssumption
      <3>3. UNCHANGED << cooled, inWindow >>
        BY <2>3 DEF SetPreference
      <3>4. consent' \in [Cases -> SUBSET {"EMAIL", "SMS"}]
        <4>1. consent \in [Cases -> SUBSET {"EMAIL", "SMS"}]
          BY <2>0 DEF WorldOK
        <4> QED BY ONLY <3>1, <3>2, <4>1
      <3>5. cooled' \subseteq Cases /\ inWindow' \in BOOLEAN
        BY <2>0, <3>3 DEF WorldOK
      <3> QED BY <3>4, <3>5 DEF WorldOK
    <2> QED BY <2>1, <2>2, <2>3 DEF World
  <1> QED BY <1>2, <1>3 DEF TypeOK, StoreOK, WorldOK, HandlersOK

LEMMA InitTyped == Init => TypeOK
  <1> SUFFICES ASSUME Init PROVE TypeOK
    OBVIOUS
  <1>1. StoreOK
    BY LifecycleAssumption
       DEF Init, StoreOK, CaseStatuses, ActiveStatuses, PromiseStatuses
  <1>2. WorldOK
    BY LifecycleAssumption DEF Init, WorldOK
  <1>3. HandlersOK
    BY IdleOK DEF Init, HandlersOK
  <1> QED BY <1>1, <1>2, <1>3, TypeParts

LEMMA TypeStep == TypeOK /\ [Next]_vars => TypeOK'
  <1> SUFFICES ASSUME TypeOK, [Next]_vars PROVE TypeOK'
    OBVIOUS
  <1>1. ASSUME NEW r \in Requests, Begin(r) \/ Continue(r)
        PROVE  TypeOK'
    <2>1. StoreOK' /\ WorldOK' /\ HandlersOK'
      BY <1>1, StoreTyped, WorldTyped, HandlersTyped
    <2> QED BY <2>1 DEF TypeOK, StoreOK, WorldOK, HandlersOK
  <1>2. CASE UNCHANGED vars
    BY <1>2 DEF vars, store, world, TypeOK
  <1> QED BY <1>1, <1>2, WorldStepTyped DEF Next

\* The state always has its declared shape, and a handler that runs has a case.
THEOREM TypeCorrect == Spec => []TypeOK
  BY InitTyped, TypeStep, PTL DEF Spec

-----------------------------------------------------------------------------
(* What a single step of a handler may touch *)

\* A step of one handler leaves the records of the others alone.
LEMMA OthersWait ==
    ASSUME TypeOK, NEW r \in Requests, Begin(r) \/ Continue(r),
           NEW q \in Requests, q # r
    PROVE  req'[q] = req[q]
  <1>1. req \in [Requests -> Records]
    BY DEF TypeOK
  <1>2. \E rec : req' = [req EXCEPT ![r] = rec]
    <2>1. CASE Begin(r)
      BY <2>1
         DEF Begin, BeginExecute, BeginDiagnose, BeginVerify, BeginVoice, Start
    <2>2. CASE \/ Evaluate(r) \/ LoadCase(r) \/ CreateLink(r)
               \/ CreateAttempt(r) \/ CountPayments(r) \/ ScheduleRetry(r)
               \/ FinishLoad(r) \/ FinishUpdate(r) \/ FinishRecord(r)
      BY <2>2
         DEF Evaluate, LoadCase, CreateLink, CreateAttempt, CountPayments,
             ScheduleRetry, FinishLoad, FinishUpdate, FinishRecord, Goto, Done
    <2>3. CASE \/ SaveDecision(r) \/ Advance(r) \/ FindPending(r) \/ Settle(r)
               \/ AttemptFailed(r) \/ Refuse(r) \/ RecordPromise(r)
               \/ UpsertPromise(r) \/ MarkWaiting(r) \/ Abort(r)
      BY <2>3
         DEF SaveDecision, Advance, FindPending, Settle, AttemptFailed, Refuse,
             RecordPromise, UpsertPromise, MarkWaiting, Abort, Goto, Done
    <2> QED BY <2>1, <2>2, <2>3 DEF Continue, Proceed
  <1> QED BY <1>1, <1>2

\* The rows of a case that its terminal status is meant to protect.
Same(c) ==
    /\ status'[c] = status[c]
    /\ recovered'[c] = recovered[c]
    /\ contacts'[c] = contacts[c]
    /\ retries'[c] = retries[c]
    /\ payments'[c] = payments[c]
    /\ promise'[c] = promise[c]

LEMMA StoreSame ==
    ASSUME UNCHANGED store, NEW c
    PROVE  Same(c)
  BY DEF store, Same

\* A handler writes only to the rows of its own case.
LEMMA OtherCases ==
    ASSUME TypeOK, NEW r \in Requests, Begin(r) \/ Continue(r),
           NEW c \in Cases, Begin(r) \/ req[r].on # c
    PROVE  Same(c)
  <1>0. StoreOK
    BY TypeParts
  <1>1. CASE Begin(r)
    <2>1. UNCHANGED store
      BY <1>1 DEF Begin, BeginExecute, BeginDiagnose, BeginVerify, BeginVoice
    <2> QED BY <2>1, StoreSame
  <1> SUFFICES ASSUME Continue(r), req[r].on # c
               PROVE  Same(c)
    BY <1>1
  <1>2. CASE \/ Evaluate(r) \/ LoadCase(r) \/ CountPayments(r) \/ FinishLoad(r)
             \/ FindPending(r) \/ RecordPromise(r) \/ Abort(r)
    <2>1. UNCHANGED store
      BY <1>2 DEF Evaluate, LoadCase, CountPayments, FinishLoad, FindPending,
                  RecordPromise, Abort
    <2> QED BY <2>1, StoreSame
  <1>3. CASE CreateLink(r) \/ CreateAttempt(r) \/ SaveDecision(r)
    BY <1>0, <1>3 DEF CreateLink, CreateAttempt, SaveDecision, Same, StoreOK
  <1>4. CASE ScheduleRetry(r) \/ AttemptFailed(r)
    BY <1>0, <1>4
       DEF ScheduleRetry, AttemptFailed, NewPayment, Resolve, Same, StoreOK
  <1>5. CASE \/ FinishUpdate(r) \/ FinishRecord(r) \/ Advance(r) \/ Refuse(r)
             \/ UpsertPromise(r) \/ MarkWaiting(r)
    BY <1>0, <1>5
       DEF FinishUpdate, FinishRecord, Advance, Refuse, UpsertPromise,
           MarkWaiting, Same, StoreOK
  <1>6. CASE Settle(r)
    <2>1. CASE UNCHANGED store
      BY <2>1, StoreSame
    <2>2. CASE ~UNCHANGED store
      <3>1. payments'[c] = payments[c]
        BY <1>0, <1>6, <2>2 DEF Settle, NewPayment, Resolve, StoreOK
      <3> QED BY <1>0, <1>6, <2>2, <3>1 DEF Settle, Same, StoreOK
    <2> QED BY <2>1, <2>2
  <1> QED BY <1>2, <1>3, <1>4, <1>5, <1>6 DEF Continue, Proceed

\* What the gate's verdict leaves in the handler's record.
LEMMA EvaluateStep ==
    ASSUME TypeOK, NEW r \in Requests, Evaluate(r), ~Done(r),
           NEW ctx, ctx = Context(req[r].on, req[r].what)
    PROVE  /\ req'[r].at = "load" /\ req'[r].on = req[r].on
           /\ req'[r].what = Effective(ctx) /\ req'[r].what # "NO_ACTION"
           /\ req'[r].cleared = Allowed(ctx)
  <1> DEFINE rec == [req[r] EXCEPT !.at = "load", !.what = Effective(ctx),
                                   !.cleared = Allowed(ctx)]
  <1>1. req \in [Requests -> Records] /\ req[r] \in Records
    BY DEF TypeOK
  <1>2. req' = [req EXCEPT ![r] = rec] /\ Effective(ctx) # "NO_ACTION"
    BY DEF Evaluate
  <1>3. Allowed(ctx) \in BOOLEAN
    BY DEF Allowed
  <1>4. /\ rec.at = "load" /\ rec.on = req[r].on
        /\ rec.what = Effective(ctx) /\ rec.cleared = Allowed(ctx)
    BY <1>1, <1>3 DEF Records
  <1>5. req'[r] = rec
    <2> HIDE DEF rec
    <2> QED BY <1>1, <1>2
  <1> HIDE DEF rec
  <1> QED BY <1>2, <1>4, <1>5

\* A handler keeps its case until it is done.
LEMMA CaseKept ==
    ASSUME TypeOK, NEW r \in Requests, Continue(r)
    PROVE  req'[r].on = req[r].on \/ req'[r] = Idle
  <1>1. req \in [Requests -> Records] /\ req[r] \in Records
    BY DEF TypeOK
  <1>2. CASE \/ Evaluate(r) \/ LoadCase(r) \/ CreateLink(r)
             \/ CreateAttempt(r) \/ CountPayments(r) \/ ScheduleRetry(r)
             \/ FinishLoad(r) \/ FinishUpdate(r) \/ FinishRecord(r)
    BY <1>1, <1>2
       DEF Evaluate, LoadCase, CreateLink, CreateAttempt, CountPayments,
           ScheduleRetry, FinishLoad, FinishUpdate, FinishRecord, Goto, Done,
           Records
  <1>3. CASE \/ SaveDecision(r) \/ Advance(r) \/ FindPending(r) \/ Settle(r)
             \/ AttemptFailed(r) \/ Refuse(r) \/ RecordPromise(r)
             \/ UpsertPromise(r) \/ MarkWaiting(r) \/ Abort(r)
    BY <1>1, <1>3
       DEF SaveDecision, Advance, FindPending, Settle, AttemptFailed, Refuse,
           RecordPromise, UpsertPromise, MarkWaiting, Abort, Goto, Done, Records
  <1> QED BY <1>2, <1>3 DEF Continue, Proceed

-----------------------------------------------------------------------------
(* A sealed case stays as it is *)

\* A request that starts on a terminal case passes no check.
LEMMA BeginUncommitted ==
    ASSUME TypeOK, NEW r \in Requests, Begin(r), NEW c \in Cases,
           status[c] \in TerminalStatuses, req'[r].on = c
    PROVE  ~Committed(r)'
  <1>1. req \in [Requests -> Records]
    BY DEF TypeOK
  <1>2. /\ status[c] \notin ActiveStatuses
        /\ status[c] \notin VerifiableStatuses
        /\ status[c] \notin {"OPEN", "DIAGNOSED"}
    BY DEF TerminalStatuses, ActiveStatuses, VerifiableStatuses
  <1>3. ASSUME NEW d \in Cases, NEW action \in Actions,
               BeginExecute(r, d, action)
        PROVE  FALSE
    BY <1>1, <1>2, <1>3 DEF BeginExecute, Start, Idle
  <1>4. ASSUME NEW d \in Cases, BeginDiagnose(r, d)
        PROVE  ~Committed(r)'
    <2>1. PICK action \in Recommendable :
            req' = [req EXCEPT ![r] =
                     [Idle EXCEPT !.at = "saveDecision", !.on = d,
                                  !.what = action,
                                  !.may = status[d] \in {"OPEN", "DIAGNOSED"}]]
      BY <1>4 DEF BeginDiagnose
    <2>2. req'[r].on = d /\ req'[r].at = "saveDecision"
      BY <1>1, <2>1 DEF Idle
    <2>3. ~req'[r].may
      <3>1. ~(status[d] \in {"OPEN", "DIAGNOSED"})
        BY <1>2, <2>2
      <3> QED BY <1>1, <2>1, <3>1 DEF Idle
    <2> QED BY <2>2, <2>3 DEF Committed
  <1>5. ASSUME NEW d \in Cases, NEW outcome \in Outcomes, NEW origin \in Origins,
               BeginVerify(r, d, outcome, origin)
        PROVE  FALSE
    BY <1>1, <1>2, <1>5 DEF BeginVerify, Idle
  <1>6. ASSUME NEW d \in Cases, NEW intent \in Intents, BeginVoice(r, d, intent)
        PROVE  FALSE
    BY <1>1, <1>2, <1>6 DEF BeginVoice, Start, Idle
  <1> QED BY <1>3, <1>4, <1>5, <1>6 DEF Begin

\* A handler that is not committed to its terminal case writes nothing the
\* status protects, and does not become committed.
LEMMA UncommittedStep ==
    ASSUME TypeOK, NEW r \in Requests, Continue(r), ~Committed(r),
           req[r].on \in Cases, status[req[r].on] \in TerminalStatuses
    PROVE  Same(req[r].on) /\ ~Committed(r)'
  <1>1. /\ req \in [Requests -> Records] /\ req[r] \in Records /\ StoreOK
        /\ status[req[r].on] \notin ActiveStatuses
    BY TypeParts DEF HandlersOK, TerminalStatuses, ActiveStatuses
  <1>2. req[r].at \in {"idle", "evaluate", "load", "saveDecision", "advance",
                       "recordPromise"}
    BY <1>1 DEF Committed, Records, Steps
  <1>3. ASSUME Done(r)
        PROVE  ~Committed(r)'
    <2>1. req'[r].at = "idle"
      BY <1>1, <1>3 DEF Done, Idle
    <2> QED BY <2>1 DEF Committed
  <1>4. CASE Evaluate(r)
    <2>1. Done(r) \/ req'[r].at = "load"
      BY <1>1, <1>4, EvaluateStep DEF Evaluate
    <2>2. ~Committed(r)'
      BY <1>3, <2>1 DEF Committed
    <2> QED BY <1>4, <2>2, StoreSame DEF Evaluate
  <1>5. CASE LoadCase(r) \/ RecordPromise(r) \/ Abort(r)
    BY <1>1, <1>3, <1>5, StoreSame DEF LoadCase, RecordPromise, Abort
  <1>6. CASE SaveDecision(r)
    <2>1. ~req[r].may /\ req'[r].at = "advance" /\ req'[r].may = req[r].may
      BY <1>1, <1>6 DEF SaveDecision, At, Goto, Committed, Records
    <2>2. ~Committed(r)'
      BY <2>1 DEF Committed
    <2> QED BY <1>6, <2>2 DEF SaveDecision, Same
  <1>7. CASE Advance(r)
    <2>1. ~req[r].may
      BY <1>7 DEF Advance, At, Committed
    <2> QED BY <1>3, <1>7, <2>1 DEF Advance, Same
  <1> QED
    BY <1>2, <1>4, <1>5, <1>6, <1>7
       DEF Continue, Proceed, At, CreateLink, CreateAttempt, CountPayments,
           ScheduleRetry, FinishLoad, FinishUpdate, FinishRecord, FindPending,
           Settle, AttemptFailed, Refuse, UpsertPromise, MarkWaiting

LEMMA SealedStep ==
    ASSUME TypeOK, [Next]_vars, NEW c \in Cases, Sealed(c)
    PROVE  Sealed(c)' /\ Same(c)
  <1>1. c # NoCase
    BY LifecycleAssumption
  <1>2. ASSUME UNCHANGED << store, req >>
        PROVE  Sealed(c)' /\ Same(c)
    BY <1>2, StoreSame DEF Sealed, Committed, store
  <1>3. ASSUME NEW r \in Requests, Begin(r) \/ Continue(r)
        PROVE  Sealed(c)' /\ Same(c)
    <2>1. Same(c) /\ (req'[r].on = c => ~Committed(r)')
      <3>1. CASE Begin(r)
        BY <3>1, BeginUncommitted, OtherCases DEF Sealed
      <3>2. CASE Continue(r) /\ req[r].on = c
        BY <3>2, UncommittedStep DEF Sealed
      <3>3. CASE Continue(r) /\ req[r].on # c
        <4>1. req'[r].on # c
          BY <1>1, <3>3, CaseKept, IdleOK
        <4> QED BY <3>3, <4>1, OtherCases
      <3> QED BY <1>3, <3>1, <3>2, <3>3
    <2>2. \A q \in Requests : q # r =>
            req'[q] = req[q] /\ (Committed(q)' <=> Committed(q))
      BY <1>3, OthersWait DEF Committed
    <2> QED BY <2>1, <2>2 DEF Sealed, Same
  <1>4. CASE World
    BY <1>2, <1>4 DEF World, WindowTurns, CooldownPasses, SetPreference
  <1>5. CASE UNCHANGED vars
    BY <1>2, <1>5 DEF vars
  <1> QED BY <1>3, <1>4, <1>5 DEF Next

\* Terminal cases are final once the handlers that had passed their checks are
\* gone, with any number of requests of every kind running.
THEOREM SealedFinal == Spec => SealedIsFinal
  <1>1. TypeOK /\ [Next]_vars
          => [\A c \in Cases : Sealed(c) =>
                /\ Sealed(c)'
                /\ status'[c] = status[c]
                /\ recovered'[c] = recovered[c]
                /\ contacts'[c] = contacts[c]
                /\ retries'[c] = retries[c]
                /\ payments'[c] = payments[c]
                /\ promise'[c] = promise[c]]_vars
    BY SealedStep DEF Same
  <1> QED BY <1>1, TypeCorrect, PTL DEF Spec, SealedIsFinal

-----------------------------------------------------------------------------
(* How a handler gets from one step to the next *)

\* A request that starts is not past the gate.
LEMMA BeginStep ==
    ASSUME TypeOK, NEW r \in Requests, Begin(r)
    PROVE  req'[r].at \notin ToolSteps
  <1>1. req \in [Requests -> Records]
    BY DEF TypeOK
  <1>2. ASSUME NEW d \in Cases, NEW action \in Actions,
               BeginExecute(r, d, action)
        PROVE  req'[r].at = "evaluate"
    BY <1>1, <1>2 DEF BeginExecute, Start, Idle
  <1>3. ASSUME NEW d \in Cases, BeginDiagnose(r, d)
        PROVE  req'[r].at = "saveDecision"
    <2>1. PICK action \in Recommendable :
            req' = [req EXCEPT ![r] =
                     [Idle EXCEPT !.at = "saveDecision", !.on = d,
                                  !.what = action,
                                  !.may = status[d] \in {"OPEN", "DIAGNOSED"}]]
      BY <1>3 DEF BeginDiagnose
    <2> QED BY <1>1, <2>1 DEF Idle
  <1>4. ASSUME NEW d \in Cases, NEW outcome \in Outcomes, NEW origin \in Origins,
               BeginVerify(r, d, outcome, origin)
        PROVE  req'[r].at = "findPending"
    BY <1>1, <1>4 DEF BeginVerify, Idle
  <1>5. ASSUME NEW d \in Cases, NEW intent \in Intents, BeginVoice(r, d, intent)
        PROVE  req'[r].at \in {"refuse", "recordPromise"}
    BY <1>1, <1>5 DEF BeginVoice, Start, Idle
  <1> QED BY <1>2, <1>3, <1>4, <1>5 DEF Begin, ToolSteps

\* The shape of a tool's steps: past the verdict a handler keeps its case, its
\* action and its verdict, and makes only the calls of its action.
LEMMA ToolStep ==
    ASSUME TypeOK, NEW r \in Requests, Begin(r) \/ Continue(r), ~Evaluate(r),
           req'[r].at \in ToolSteps
    PROVE  /\ req[r].at \in ToolSteps /\ req'[r].at # "load"
           /\ req'[r].on = req[r].on /\ req'[r].what = req[r].what
           /\ req'[r].cleared = req[r].cleared
           /\ req'[r].at \in ContactSteps =>
                \/ req[r].at \in ContactSteps
                \/ req[r].at = "load" /\ req[r].what \in ContactActions
           /\ req'[r].at \in ChargeSteps =>
                \/ req[r].at \in ChargeSteps
                \/ req[r].at = "load" /\ req[r].what \in RetryActions
           /\ ~FinishRecord(r)
  <1>1. req \in [Requests -> Records] /\ req[r] \in Records
    BY DEF TypeOK
  <1>2. Continue(r)
    BY BeginStep
  <1>3. ~Done(r)
    BY <1>1 DEF Done, Idle, ToolSteps
  <1>4. ASSUME NEW step, Goto(r, step)
        PROVE  /\ req'[r].at = step /\ req'[r].on = req[r].on
               /\ req'[r].what = req[r].what /\ req'[r].cleared = req[r].cleared
    BY <1>1, <1>4 DEF Goto, Records
  <1>5. CASE LoadCase(r)
    <2>1. Goto(r, FirstCall(req[r].what)) /\ req[r].at = "load"
      BY <1>3, <1>5 DEF LoadCase, At
    <2>2. /\ FirstCall(req[r].what) # "load"
          /\ FirstCall(req[r].what) \in ContactSteps
               => req[r].what \in ContactActions
          /\ FirstCall(req[r].what) \in ChargeSteps
               => req[r].what \in RetryActions
      BY DEF FirstCall, ContactSteps, ChargeSteps, ContactActions
    <2> QED BY <1>4, <1>5, <1>3, <2>1, <2>2 DEF ToolSteps, FinishRecord
  <1>6. CASE CreateLink(r)
    BY <1>4, <1>6, <1>3 DEF CreateLink, At, ToolSteps, ContactSteps, ChargeSteps, FinishRecord
  <1>7. CASE CreateAttempt(r) \/ FinishUpdate(r)
    BY <1>4, <1>7, <1>3 DEF CreateAttempt, FinishUpdate, At, ToolSteps, ContactSteps,
                       ChargeSteps, FinishRecord
  <1>8. CASE ScheduleRetry(r)
    BY <1>3, <1>4, <1>8
       DEF ScheduleRetry, At, ToolSteps, ContactSteps, ChargeSteps, FinishRecord
  <1>9. CASE CountPayments(r)
    BY <1>1, <1>9, <1>3
       DEF CountPayments, At, ToolSteps, ContactSteps, ChargeSteps, Records, FinishRecord
  <1>10. CASE FinishLoad(r)
    <2> DEFINE rec == [req[r] EXCEPT !.at = "update",
                         !.may = \/ req[r].what = "CREATE_ESCALATION"
                                 \/ status[req[r].on] \in ActiveStatuses]
    <2>1. req' = [req EXCEPT ![r] = rec] /\ req[r].at = "finish"
      BY <1>10 DEF FinishLoad, At
    <2>2. /\ rec.at = "update" /\ rec.on = req[r].on /\ rec.what = req[r].what
          /\ rec.cleared = req[r].cleared
      BY <1>1 DEF Records
    <2>3. req'[r] = rec
      <3> HIDE DEF rec
      <3> QED BY <1>1, <2>1
    <2> HIDE DEF rec
    <2> QED BY <1>3, <2>1, <2>2, <2>3
            DEF ToolSteps, ContactSteps, ChargeSteps, FinishRecord
  <1>11. CASE FindPending(r) \/ RecordPromise(r)
    BY <1>1, <1>3, <1>11 DEF FindPending, RecordPromise, ToolSteps, Records
  <1>12. CASE SaveDecision(r) \/ UpsertPromise(r)
    BY <1>4, <1>12 DEF SaveDecision, UpsertPromise, ToolSteps
  <1> QED
    BY <1>2, <1>3, <1>5, <1>6, <1>7, <1>8, <1>9, <1>10, <1>11, <1>12
       DEF Continue, Proceed, FinishRecord, Advance, Settle, AttemptFailed, Refuse,
           MarkWaiting, Abort

\* The gate's step is the only one that brings a handler to the tools.
LEMMA Entry ==
    ASSUME TypeOK, NEW r \in Requests, Evaluate(r), req'[r].at \in ToolSteps
    PROVE  LET ctx == Context(req[r].on, req[r].what)
           IN  /\ req'[r].at = "load" /\ req'[r].on = req[r].on
               /\ req'[r].what = Effective(ctx)
               /\ req'[r].cleared = Allowed(ctx)
               /\ req[r].on \in Cases
  <1>1. req \in [Requests -> Records] /\ req[r].on \in Cases
    BY DEF TypeOK, Evaluate, At
  <1>2. ~Done(r)
    BY <1>1 DEF Done, Idle, ToolSteps
  <1> QED BY <1>1, <1>2, EvaluateStep

-----------------------------------------------------------------------------
(* The limits *)

\* Sets of handlers are finite, and smaller sets count less.
LEMMA Counting ==
    ASSUME NEW S \in SUBSET Requests, NEW T \in SUBSET S
    PROVE  /\ IsFiniteSet(S)
           /\ Cardinality(S) \in Nat /\ Cardinality(T) \in Nat
           /\ Cardinality(T) =< Cardinality(S)
           /\ Cardinality(S) =< Cardinality(Requests)
           /\ Cardinality(Requests) \in Nat \ {0}
  <1>1. IsFiniteSet(Requests) /\ Requests # {}
    BY LifecycleAssumption
  <1>2. IsFiniteSet(S) /\ Cardinality(S) =< Cardinality(Requests)
    BY <1>1, FS_Subset
  <1>3. IsFiniteSet(T) /\ Cardinality(T) =< Cardinality(S)
    BY <1>2, FS_Subset
  <1>4. Cardinality(Requests) \in Nat \ {0}
    BY <1>1, FS_CardinalityType, FS_EmptySet
  <1> QED BY <1>2, <1>3, <1>4, FS_CardinalityType

\* A handler leaving a set of handlers makes it count one less.
LEMMA Leaving ==
    ASSUME NEW S \in SUBSET Requests, NEW r \in S, NEW T \in SUBSET (S \ {r})
    PROVE  Cardinality(T) + 1 =< Cardinality(S)
  <1>1. IsFiniteSet(S) /\ Cardinality(S) \in Nat
    BY Counting
  <1>2. Cardinality(S \ {r}) = Cardinality(S) - 1
    BY <1>1, FS_RemoveElement
  <1>3. /\ S \ {r} \in SUBSET Requests
        /\ Cardinality(T) \in Nat /\ Cardinality(T) =< Cardinality(S \ {r})
    BY Counting
  <1> QED BY <1>1, <1>2, <1>3

LEMMA LimitsStart == Init => LimitsInv
  <1> SUFFICES ASSUME Init PROVE LimitsInv
    OBVIOUS
  <1>1. \A r \in Requests : req[r].at = "idle"
    BY DEF Init, Idle
  <1>2. ASSUME NEW c \in Cases
        PROVE  /\ Running(c, RetryActions, ToolSteps) = {}
               /\ ClearedContacts(c) = {}
    BY <1>1 DEF Running, ClearedContacts, ToolSteps, ContactSteps
  <1>3. Cardinality(Requests) \in Nat \ {0}
    BY Counting
  <1>4. /\ \A c \in Cases : retries[c] = 0 /\ contacts[c].allowed = 0
        /\ Cardinality({}) = 0
    BY FS_EmptySet DEF Init
  <1>5. ASSUME NEW c \in Cases
        PROVE  /\ retries[c] + Cardinality(Running(c, RetryActions, ToolSteps))
                    =< MaxRetryAttempts + Cardinality(Requests) - 1
               /\ contacts[c].allowed + Cardinality(ClearedContacts(c))
                    =< MaxContactAttempts + Cardinality(Requests) - 1
    <2>1. /\ Cardinality(Running(c, RetryActions, ToolSteps)) = 0
          /\ Cardinality(ClearedContacts(c)) = 0
      BY <1>2, <1>4
    <2> QED BY <1>3, <1>4, <2>1, PolicyAssumption
  <1>6. \A r \in Requests :
          req[r].at \notin ContactSteps /\ req[r].at \notin ChargeSteps
    BY <1>1 DEF ContactSteps, ChargeSteps
  <1> QED BY <1>5, <1>6 DEF LimitsInv

\* Retries are counted when they are recorded, contacts when they are made.
LEMMA WhoCounts ==
    ASSUME TypeOK, NEW r \in Requests, Begin(r) \/ Continue(r), NEW c \in Cases
    PROVE  /\ \/ retries'[c] = retries[c]
              \/ /\ FinishRecord(r) /\ req[r].on = c
                 /\ req[r].what \in RetryActions
                 /\ retries'[c] = retries[c] + 1
           /\ \/ contacts'[c].allowed = contacts[c].allowed
              \/ /\ CreateAttempt(r) /\ req[r].on = c /\ req[r].cleared
                 /\ contacts'[c].allowed = contacts[c].allowed + 1
  <1>0. StoreOK
    BY TypeParts
  <1>1. CASE Begin(r) \/ req[r].on # c
    BY <1>1, OtherCases DEF Same
  <1>2. CASE Continue(r) /\ req[r].on = c
    <2>1. CASE FinishRecord(r)
      BY <1>0, <1>2, <2>1 DEF FinishRecord, StoreOK
    <2>2. CASE CreateAttempt(r)
      BY <1>0, <1>2, <2>2 DEF CreateAttempt, StoreOK
    <2>3. CASE ~FinishRecord(r) /\ ~CreateAttempt(r)
      <3>1. UNCHANGED << contacts, retries >>
        <4>1. CASE \/ Evaluate(r) \/ LoadCase(r) \/ CreateLink(r)
                   \/ CountPayments(r) \/ ScheduleRetry(r)
                   \/ FinishLoad(r) \/ FinishUpdate(r)
          BY <4>1 DEF Evaluate, LoadCase, CreateLink, CountPayments,
                      ScheduleRetry, FinishLoad, FinishUpdate, store
        <4>2. CASE \/ SaveDecision(r) \/ Advance(r) \/ FindPending(r)
                   \/ Settle(r) \/ AttemptFailed(r) \/ Refuse(r)
                   \/ RecordPromise(r) \/ UpsertPromise(r) \/ MarkWaiting(r)
                   \/ Abort(r)
          BY <4>2 DEF SaveDecision, Advance, FindPending, Settle, AttemptFailed,
                      Refuse, RecordPromise, UpsertPromise, MarkWaiting, Abort,
                      store
        <4> QED BY <1>2, <2>3, <4>1, <4>2 DEF Continue, Proceed
      <3> QED BY <3>1
    <2> QED BY <2>1, <2>2, <2>3
  <1> QED BY <1>1, <1>2

\* Every handler makes the calls of its own action.
LEMMA StepsMatch ==
    ASSUME TypeOK, LimitsInv, NEW r \in Requests, Begin(r) \/ Continue(r),
           NEW q \in Requests
    PROVE  /\ req'[q].at \in ContactSteps => req'[q].what \in ContactActions
           /\ req'[q].at \in ChargeSteps => req'[q].what \in RetryActions
  <1>1. /\ req[q].at \in ContactSteps => req[q].what \in ContactActions
        /\ req[q].at \in ChargeSteps => req[q].what \in RetryActions
    BY DEF LimitsInv
  <1>2. CASE q # r
    BY <1>1, <1>2, OthersWait
  <1>3. ContactSteps \subseteq ToolSteps \ {"load"}
        /\ ChargeSteps \subseteq ToolSteps \ {"load"}
    BY DEF ContactSteps, ChargeSteps, ToolSteps
  <1>4. CASE q = r /\ Evaluate(r)
    BY <1>3, <1>4, Entry
  <1>5. CASE q = r /\ ~Evaluate(r)
    BY <1>1, <1>3, <1>5, ToolStep
  <1> QED BY <1>2, <1>4, <1>5

LEMMA RetryLimitStep ==
    ASSUME TypeOK, LimitsInv, NEW r \in Requests, Begin(r) \/ Continue(r),
           NEW c \in Cases
    PROVE  retries'[c] + Cardinality(Running(c, RetryActions, ToolSteps)')
             =< MaxRetryAttempts + Cardinality(Requests) - 1
  <1> DEFINE S == Running(c, RetryActions, ToolSteps)
             T == Running(c, RetryActions, ToolSteps)'
  <1> SUFFICES retries'[c] + Cardinality(T)
                 =< MaxRetryAttempts + Cardinality(Requests) - 1
    OBVIOUS
  <1>1. S \in SUBSET Requests /\ T \in SUBSET Requests
    BY DEF Running
  <1>2. retries[c] \in Nat /\ MaxRetryAttempts \in Nat
    BY TypeParts, PolicyAssumption DEF StoreOK
  <1>3. retries[c] + Cardinality(S)
          =< MaxRetryAttempts + Cardinality(Requests) - 1
    BY DEF LimitsInv
  <1>4. \A q \in Requests : q # r => req'[q] = req[q]
    BY OthersWait
  <1>5. CASE Evaluate(r) /\ r \in T
    <2> DEFINE ctx == Context(req[r].on, req[r].what)
    <2>1. Effective(ctx) \in RetryActions /\ req[r].on = c
      BY <1>5, Entry DEF Running
    <2>2. Allowed(ctx) /\ ctx.action \in RetryActions
      BY <2>1, ChargeIsAllowed
    <2>3. ctx.retryCount < MaxRetryAttempts
      BY <2>2, AllowedCharge
    <2>4. retries[c] < MaxRetryAttempts
      BY <2>1, <2>3 DEF Context
    <2>5. retries'[c] = retries[c]
      BY <1>5 DEF Evaluate, store
    <2>6. Cardinality(T) \in Nat /\ Cardinality(T) =< Cardinality(Requests)
          /\ Cardinality(Requests) \in Nat
      BY <1>1, Counting
    <2> HIDE DEF T
    <2> QED BY <1>2, <2>4, <2>5, <2>6
  <1>6. CASE ~(Evaluate(r) /\ r \in T)
    <2>1. T \subseteq S /\ (FinishRecord(r) => r \notin T)
      <3>1. r \in T => r \in S /\ ~FinishRecord(r)
        BY <1>6, ToolStep DEF Running
      <3> QED BY <1>4, <3>1 DEF Running
    <2>2. /\ Cardinality(S) \in Nat /\ Cardinality(T) \in Nat
          /\ Cardinality(T) =< Cardinality(S)
          /\ Cardinality(Requests) \in Nat
      BY <1>1, <2>1, Counting
    <2>3. CASE retries'[c] = retries[c]
      <3> HIDE DEF S, T
      <3> QED BY <1>2, <1>3, <2>2, <2>3
    <2>4. CASE FinishRecord(r) /\ req[r].on = c /\ req[r].what \in RetryActions
               /\ retries'[c] = retries[c] + 1
      <3>1. r \in S
        BY <2>4 DEF FinishRecord, At, Running, ToolSteps
      <3>2. T \in SUBSET (S \ {r})
        BY <2>1, <2>4
      <3>3. Cardinality(T) + 1 =< Cardinality(S)
        <4> HIDE DEF S, T
        <4> QED BY <1>1, <3>1, <3>2, Leaving
      <3> HIDE DEF S, T
      <3> QED BY <1>2, <1>3, <2>2, <2>4, <3>3
    <2> QED BY <2>3, <2>4, WhoCounts
  <1> QED BY <1>5, <1>6

LEMMA ContactLimitStep ==
    ASSUME TypeOK, LimitsInv, NEW r \in Requests, Begin(r) \/ Continue(r),
           NEW c \in Cases
    PROVE  contacts'[c].allowed + Cardinality(ClearedContacts(c)')
             =< MaxContactAttempts + Cardinality(Requests) - 1
  <1> DEFINE S == ClearedContacts(c)
             T == ClearedContacts(c)'
             early == {"load"} \cup ContactSteps
  <1> SUFFICES contacts'[c].allowed + Cardinality(T)
                 =< MaxContactAttempts + Cardinality(Requests) - 1
    OBVIOUS
  <1>0. early \subseteq ToolSteps
    BY DEF ContactSteps, ToolSteps
  <1>1. S \in SUBSET Requests /\ T \in SUBSET Requests
    BY DEF ClearedContacts, Running
  <1>2. contacts[c].allowed \in Nat /\ contacts[c].fallback \in Nat
        /\ MaxContactAttempts \in Nat
    BY TypeParts, PolicyAssumption DEF StoreOK
  <1>3. contacts[c].allowed + Cardinality(S)
          =< MaxContactAttempts + Cardinality(Requests) - 1
    BY DEF LimitsInv
  <1>4. \A q \in Requests : q # r => req'[q] = req[q]
    BY OthersWait
  <1>5. CASE Evaluate(r) /\ r \in T
    <2> DEFINE ctx == Context(req[r].on, req[r].what)
    <2>1. Effective(ctx) \in ContactActions /\ Allowed(ctx) /\ req[r].on = c
      BY <1>0, <1>5, Entry DEF Running, ClearedContacts
    <2>2. ctx.action \in ContactActions
      BY <2>1 DEF Effective
    <2>3. ctx.contactCount < MaxContactAttempts
      BY <2>1, <2>2, AllowedContact
    <2>4. contacts[c].allowed + contacts[c].fallback < MaxContactAttempts
      BY <2>1, <2>3 DEF Context, ContactCount
    <2>5. contacts'[c] = contacts[c]
      BY <1>5 DEF Evaluate, store
    <2>6. Cardinality(T) \in Nat /\ Cardinality(T) =< Cardinality(Requests)
          /\ Cardinality(Requests) \in Nat
      BY <1>1, Counting
    <2> HIDE DEF T
    <2> QED BY <1>2, <2>4, <2>5, <2>6
  <1>6. CASE ~(Evaluate(r) /\ r \in T)
    <2>1. T \subseteq S /\ (CreateAttempt(r) => r \notin T)
      <3>1. r \in T => r \in S
        BY <1>0, <1>6, ToolStep
           DEF Running, ClearedContacts, ContactSteps, ChargeSteps
      <3>2. CreateAttempt(r) => r \notin T
        <4>1. SUFFICES ASSUME CreateAttempt(r)
                       PROVE  req'[r].at = "finish"
          BY DEF ClearedContacts, Running, ContactSteps
        <4> QED BY <4>1, TypeParts DEF CreateAttempt, Goto, HandlersOK, Records
      <3> QED BY <1>4, <3>1, <3>2 DEF Running, ClearedContacts
    <2>2. /\ Cardinality(S) \in Nat /\ Cardinality(T) \in Nat
          /\ Cardinality(T) =< Cardinality(S)
          /\ Cardinality(Requests) \in Nat
      BY <1>1, <2>1, Counting
    <2>3. CASE contacts'[c].allowed = contacts[c].allowed
      <3> HIDE DEF S, T
      <3> QED BY <1>2, <1>3, <2>2, <2>3
    <2>4. CASE CreateAttempt(r) /\ req[r].on = c /\ req[r].cleared
               /\ contacts'[c].allowed = contacts[c].allowed + 1
      <3>1. req[r].at = "attempt" /\ req[r].what \in ContactActions
        BY <2>4 DEF CreateAttempt, At, LimitsInv, ContactSteps
      <3>2. r \in S
        BY <2>4, <3>1 DEF ClearedContacts, Running, ContactSteps
      <3>3. T \in SUBSET (S \ {r})
        BY <2>1, <2>4
      <3>4. Cardinality(T) + 1 =< Cardinality(S)
        <4> HIDE DEF S, T
        <4> QED BY <1>1, <3>2, <3>3, Leaving
      <3> HIDE DEF S, T
      <3> QED BY <1>2, <1>3, <2>2, <2>4, <3>4
    <2> QED BY <2>3, <2>4, WhoCounts
  <1> QED BY <1>5, <1>6

LEMMA LimitsStep == TypeOK /\ LimitsInv /\ [Next]_vars => LimitsInv'
  <1> SUFFICES ASSUME TypeOK, LimitsInv, [Next]_vars PROVE LimitsInv'
    OBVIOUS
  <1>1. ASSUME UNCHANGED << store, req >>
        PROVE  LimitsInv'
    BY <1>1 DEF LimitsInv, Running, ClearedContacts, store
  <1>2. ASSUME NEW r \in Requests, Begin(r) \/ Continue(r)
        PROVE  LimitsInv'
    BY <1>2, StepsMatch, RetryLimitStep, ContactLimitStep DEF LimitsInv
  <1>3. CASE World
    BY <1>1, <1>3 DEF World, WindowTurns, CooldownPasses, SetPreference
  <1>4. CASE UNCHANGED vars
    BY <1>1, <1>4 DEF vars
  <1> QED BY <1>2, <1>3, <1>4 DEF Next

THEOREM LimitsHold == Spec => []LimitsInv
  BY LimitsStart, LimitsStep, TypeCorrect, PTL DEF Spec

\* However many requests run, a case is charged at most as often as the limit
\* allows and once more for each other handler.
THEOREM RetryOvershoot == Spec => []RetryOvershootBounded
  <1>1. TypeOK /\ LimitsInv => RetryOvershootBounded
    <2> SUFFICES ASSUME TypeOK, LimitsInv, NEW c \in Cases
                 PROVE  retries[c]
                          =< MaxRetryAttempts + Cardinality(Requests) - 1
      BY DEF RetryOvershootBounded
    <2>1. Running(c, RetryActions, ToolSteps) \in SUBSET Requests
      BY DEF Running
    <2>2. /\ Cardinality(Running(c, RetryActions, ToolSteps)) \in Nat
          /\ Cardinality(Requests) \in Nat
      BY <2>1, Counting
    <2>3. retries[c] \in Nat /\ MaxRetryAttempts \in Nat
      BY TypeParts, PolicyAssumption DEF StoreOK
    <2> QED BY <2>2, <2>3 DEF LimitsInv
  <1> QED BY <1>1, LimitsHold, TypeCorrect, PTL

\* The same for the contacts the gate has allowed.
THEOREM ContactOvershoot == Spec => []AllowedContactsBounded
  <1>1. TypeOK /\ LimitsInv => AllowedContactsBounded
    <2> SUFFICES ASSUME TypeOK, LimitsInv, NEW c \in Cases
                 PROVE  contacts[c].allowed
                          =< MaxContactAttempts + Cardinality(Requests) - 1
      BY DEF AllowedContactsBounded
    <2>1. ClearedContacts(c) \in SUBSET Requests
      BY DEF ClearedContacts, Running
    <2>2. /\ Cardinality(ClearedContacts(c)) \in Nat
          /\ Cardinality(Requests) \in Nat
      BY <2>1, Counting
    <2>3. contacts[c].allowed \in Nat /\ MaxContactAttempts \in Nat
      BY TypeParts, PolicyAssumption DEF StoreOK
    <2> QED BY <2>2, <2>3 DEF LimitsInv
  <1> QED BY <1>1, LimitsHold, TypeCorrect, PTL

-----------------------------------------------------------------------------
(* The prohibitions *)

\* A settlement ends a dispute and never starts one, and it does not change why
\* a payment failed.
LEMMA SourceStep ==
    ASSUME TypeOK, NEW r \in Requests, Begin(r) \/ Continue(r), NEW c \in Cases
    PROVE  /\ Disputed(c)' => Disputed(c)
           /\ FailureReason(c)' = FailureReason(c)
  <1>0. StoreOK
    BY TypeParts
  <1>1. source'[c] = source[c] \/ source'[c] = Synced(source[c])
    <2>1. CASE Settle(r)
      <3>1. UNCHANGED source \/ source' = [source EXCEPT ![req[r].on] = Synced(@)]
        BY <2>1 DEF Settle, store
      <3> QED BY <1>0, <3>1 DEF StoreOK
    <2>2. CASE ~Settle(r)
      <3>1. CASE Begin(r)
        BY <3>1
           DEF Begin, BeginExecute, BeginDiagnose, BeginVerify, BeginVoice, store
      <3>2. CASE \/ Evaluate(r) \/ LoadCase(r) \/ CreateLink(r)
                 \/ CreateAttempt(r) \/ CountPayments(r) \/ ScheduleRetry(r)
                 \/ FinishLoad(r) \/ FinishUpdate(r) \/ FinishRecord(r)
        BY <3>2 DEF Evaluate, LoadCase, CreateLink, CreateAttempt,
                    CountPayments, ScheduleRetry, FinishLoad, FinishUpdate,
                    FinishRecord, store
      <3>3. CASE \/ SaveDecision(r) \/ Advance(r) \/ FindPending(r)
                 \/ AttemptFailed(r) \/ Refuse(r) \/ RecordPromise(r)
                 \/ UpsertPromise(r) \/ MarkWaiting(r) \/ Abort(r)
        BY <3>3 DEF SaveDecision, Advance, FindPending, AttemptFailed, Refuse,
                    RecordPromise, UpsertPromise, MarkWaiting, Abort, store
      <3> QED BY <2>2, <3>1, <3>2, <3>3 DEF Continue, Proceed
    <2> QED BY <2>1, <2>2
  <1> QED BY <1>1
          DEF Disputed, FailureReason, Synced, FailureReasons, RetryableReasons,
              MethodReasons

\* What a step does to the payments of a case: a row is appended, that of a retry
\* only by the retry tool, or the state of one is rewritten, or nothing happens.
Appended(c, row) ==
    row \in PaymentRows /\ payments'[c] = Append(payments[c], row)

LEMMA PaymentStep ==
    ASSUME TypeOK, NEW r \in Requests, Begin(r) \/ Continue(r), NEW c \in Cases
    PROVE  \/ payments'[c] = payments[c]
           \/ /\ ScheduleRetry(r) /\ req[r].on = c /\ Goto(r, "finish")
              /\ \E row : Appended(c, row) /\ row.kind = "retry"
           \/ /\ Settle(r) /\ req[r].on = c
              /\ \E row : Appended(c, row) /\ row.kind # "retry"
           \/ /\ Settle(r) \/ AttemptFailed(r)
              /\ \E state : payments'[c] =
                              [payments[c] EXCEPT ![req[r].seen].state = state]
  <1>1. /\ StoreOK /\ req[r] \in Records
        /\ req[r].at # "idle" => req[r].on \in Cases
    BY TypeParts DEF HandlersOK
  <1>2. CASE Begin(r) \/ req[r].on # c
    BY <1>2, OtherCases DEF Same
  <1>3. ASSUME NEW kind \in {"retry", "provider", "simulated"}, NEW ref \in Nat,
               NEW state \in {"RETRY_SCHEDULED", "SUCCESS"},
               NewPayment(c, kind, ref, state)
        PROVE  \E row : Appended(c, row) /\ row.kind = kind
    <2> DEFINE row == [kind |-> kind, ref |-> ref, state |-> state]
    <2>1. row \in PaymentRows /\ row.kind = kind
      BY DEF PaymentRows
    <2>2. payments'[c] = Append(payments[c], row)
      BY <1>1, <1>3 DEF NewPayment, StoreOK
    <2> HIDE DEF row
    <2> QED BY <2>1, <2>2 DEF Appended
  <1>4. ASSUME NEW state, Resolve(c, req[r].seen, state)
        PROVE  payments'[c] = [payments[c] EXCEPT ![req[r].seen].state = state]
    BY <1>1, <1>4 DEF Resolve, StoreOK
  <1>5. CASE ScheduleRetry(r) /\ req[r].on = c
    <2>1. req[r].seen + 1 \in Nat
      BY <1>1 DEF Records
    <2>2. \/ UNCHANGED payments
          \/ /\ NewPayment(c, "retry", req[r].seen + 1, "RETRY_SCHEDULED")
             /\ Goto(r, "finish")
      BY <1>5 DEF ScheduleRetry
    <2> QED BY <1>3, <1>5, <2>1, <2>2
  <1>6. CASE Settle(r) /\ req[r].on = c
    <2>1. \/ UNCHANGED payments
          \/ \E kind \in {"provider", "simulated"} :
               NewPayment(c, kind, 0, "SUCCESS")
          \/ Resolve(c, req[r].seen, "SUCCESS")
      BY <1>6 DEF Settle, store
    <2> QED BY <1>3, <1>4, <1>6, <2>1
  <1>7. CASE AttemptFailed(r) /\ req[r].on = c
    BY <1>4, <1>7 DEF AttemptFailed
  <1>8. CASE \/ Evaluate(r) \/ LoadCase(r) \/ CreateLink(r)
             \/ CreateAttempt(r) \/ CountPayments(r)
             \/ FinishLoad(r) \/ FinishUpdate(r) \/ FinishRecord(r)
    BY <1>8
       DEF Evaluate, LoadCase, CreateLink, CreateAttempt, CountPayments,
           FinishLoad, FinishUpdate, FinishRecord, store
  <1>9. CASE \/ SaveDecision(r) \/ Advance(r) \/ FindPending(r) \/ Refuse(r)
             \/ RecordPromise(r) \/ UpsertPromise(r) \/ MarkWaiting(r)
             \/ Abort(r)
    BY <1>9
       DEF SaveDecision, Advance, FindPending, Refuse, RecordPromise,
           UpsertPromise, MarkWaiting, Abort, store
  <1> QED BY <1>2, <1>5, <1>6, <1>7, <1>8, <1>9 DEF Continue, Proceed

\* Rows are only added: those there are keep their place and their kind, and the
\* new one, if any, is that of a retry exactly if the retry tool has run.
LEMMA RetryRowsStep ==
    ASSUME TypeOK, NEW r \in Requests, Begin(r) \/ Continue(r), NEW c \in Cases
    PROVE  /\ DOMAIN payments[c] \subseteq DOMAIN payments'[c]
           /\ \/ RetryRows(c)' = RetryRows(c)
              \/ /\ ScheduleRetry(r) /\ req[r].on = c /\ Goto(r, "finish")
                 /\ \E i : i \notin RetryRows(c)
                           /\ RetryRows(c)' = RetryRows(c) \cup {i}
  <1>1. payments[c] \in Seq(PaymentRows)
    BY TypeParts DEF StoreOK
  <1>2. ASSUME NEW row, Appended(c, row)
        PROVE  /\ DOMAIN payments[c] \subseteq DOMAIN payments'[c]
               /\ \E i : /\ i \notin RetryRows(c)
                         /\ RetryRows(c)' = IF row.kind = "retry"
                                            THEN RetryRows(c) \cup {i}
                                            ELSE RetryRows(c)
    <2> DEFINE n == Len(payments[c]) + 1
    <2>1. row \in PaymentRows /\ payments'[c] = Append(payments[c], row)
      BY <1>2 DEF Appended
    <2>2. /\ DOMAIN payments[c] = 1 .. Len(payments[c]) /\ n \notin DOMAIN payments[c]
          /\ DOMAIN payments'[c] = DOMAIN payments[c] \cup {n}
      BY <1>1, <2>1
    <2>3. payments'[c][n] = row
      BY <1>1, <2>1
    <2>4. \A j \in DOMAIN payments[c] : payments'[c][j] = payments[c][j]
      BY <1>1, <2>1
    <2>5. n \notin RetryRows(c)
      BY <2>2 DEF RetryRows
    <2> HIDE DEF n
    <2>6. CASE row.kind = "retry"
      BY <2>2, <2>3, <2>4, <2>5, <2>6 DEF RetryRows
    <2>7. CASE row.kind # "retry"
      BY <2>2, <2>3, <2>4, <2>5, <2>7 DEF RetryRows
    <2> QED BY <2>2, <2>6, <2>7
  <1>3. ASSUME NEW i, NEW state,
               payments'[c] = [payments[c] EXCEPT ![i].state = state]
        PROVE  /\ DOMAIN payments[c] \subseteq DOMAIN payments'[c]
               /\ RetryRows(c)' = RetryRows(c)
    <2>1. DOMAIN payments'[c] = DOMAIN payments[c]
      BY <1>3
    <2>2. ASSUME NEW j \in DOMAIN payments[c]
          PROVE  payments'[c][j].kind = payments[c][j].kind
      <3>1. payments[c][j] \in PaymentRows
        BY <1>1
      <3>2. CASE j = i
        <4>1. payments'[c][j] = [payments[c][j] EXCEPT !.state = state]
          BY <1>3, <3>2
        <4> QED BY <3>1, <4>1 DEF PaymentRows
      <3>3. CASE j # i
        BY <1>3, <3>3
      <3> QED BY <3>2, <3>3
    <2> QED BY <2>1, <2>2 DEF RetryRows
  <1>4. ASSUME payments'[c] = payments[c]
        PROVE  /\ DOMAIN payments[c] \subseteq DOMAIN payments'[c]
               /\ RetryRows(c)' = RetryRows(c)
    BY <1>4 DEF RetryRows
  <1> QED BY <1>2, <1>3, <1>4, PaymentStep

\* Only the retry tool adds the row of a retry.
LEMMA RetryRowStep ==
    ASSUME TypeOK, NEW r \in Requests, Begin(r) \/ Continue(r), NEW c \in Cases,
           RetryRows(c) = {}, ~(ScheduleRetry(r) /\ req[r].on = c)
    PROVE  RetryRows(c)' = {}
  BY RetryRowsStep

\* No handler that has not passed the gate with an action of a group gets to
\* that action's calls.
LEMMA NoEntry ==
    ASSUME TypeOK, NEW r \in Requests, Begin(r) \/ Continue(r), NEW c \in Cases,
           NEW group, NEW steps \in {ContactSteps, ChargeSteps},
           Running(c, group, {"load"} \cup steps) = {},
           LimitsInv,
           steps = ContactSteps => group = ContactActions,
           steps = ChargeSteps => group = RetryActions,
           Evaluate(r) /\ req'[r].at \in ToolSteps /\ req[r].on = c
             => Effective(Context(c, req[r].what)) \notin group
    PROVE  Running(c, group, {"load"} \cup steps)' = {}
  <1>0. {"load"} \cup steps \subseteq ToolSteps
    BY DEF ContactSteps, ChargeSteps, ToolSteps
  <1> SUFFICES ASSUME NEW q \in Requests, req'[q].on = c,
                      req'[q].what \in group, req'[q].at \in {"load"} \cup steps
               PROVE  FALSE
    BY DEF Running
  <1>1. ASSUME req[q].on = c, req[q].what \in group,
               req[q].at \in {"load"} \cup steps
        PROVE  FALSE
    BY <1>1 DEF Running
  <1>2. CASE q # r
    BY <1>1, <1>2, OthersWait
  <1>3. CASE q = r /\ Evaluate(r)
    BY <1>0, <1>3, Entry
  <1>4. CASE q = r /\ ~Evaluate(r)
    BY <1>0, <1>1, <1>4, ToolStep
  <1> QED BY <1>2, <1>3, <1>4

LEMMA PursuitStart == Init => PursuitInv
  <1> SUFFICES ASSUME Init PROVE PursuitInv
    OBVIOUS
  <1>1. ASSUME NEW c \in Cases
        PROVE  RetryRows(c) = {} /\ contacts[c] = [allowed |-> 0, fallback |-> 0]
    BY <1>1 DEF Init, RetryRows
  <1>2. ASSUME NEW c \in Cases, NEW group, NEW steps, "idle" \notin steps
        PROVE  Running(c, group, steps) = {}
    <2>1. \A r \in Requests : req[r].at = "idle"
      BY DEF Init, Idle
    <2> QED BY <1>2, <2>1 DEF Running
  <1>3. /\ "idle" \notin {"load"} \cup ContactSteps
        /\ "idle" \notin {"load"} \cup ChargeSteps
    BY DEF ContactSteps, ChargeSteps
  <1> QED BY <1>1, <1>2, <1>3
          DEF PursuitInv, DisputedNeverPursued, HardFailureNeverRetried

\* A dispute stops contacts and charges at every point of a handler's way.
LEMMA DisputeStep ==
    ASSUME TypeOK, LimitsInv, PursuitInv, NEW r \in Requests,
           Begin(r) \/ Continue(r), NEW c \in Cases, Disputed(c)'
    PROVE  /\ contacts'[c] = [allowed |-> 0, fallback |-> 0]
           /\ RetryRows(c)' = {}
           /\ Running(c, ContactActions, {"load"} \cup ContactSteps)' = {}
           /\ Running(c, RetryActions, {"load"} \cup ChargeSteps)' = {}
  <1>1. Disputed(c)
    BY SourceStep
  <1>2. /\ contacts[c] = [allowed |-> 0, fallback |-> 0]
        /\ RetryRows(c) = {}
        /\ Running(c, ContactActions, {"load"} \cup ContactSteps) = {}
        /\ Running(c, RetryActions, {"load"} \cup ChargeSteps) = {}
    BY <1>1 DEF PursuitInv, DisputedNeverPursued
  <1>3. ASSUME Evaluate(r), req[r].on = c
        PROVE  /\ Effective(Context(c, req[r].what)) \notin ContactActions
               /\ Effective(Context(c, req[r].what)) \notin RetryActions
    <2>1. Context(c, req[r].what).disputed
      BY <1>1 DEF Context
    <2> QED BY <2>1, DisputeStops, ActionGroups
  <1>4. /\ Running(c, ContactActions, {"load"} \cup ContactSteps)' = {}
        /\ Running(c, RetryActions, {"load"} \cup ChargeSteps)' = {}
    <2>1. ContactSteps # ChargeSteps
      BY DEF ContactSteps, ChargeSteps
    <2> QED BY <1>2, <1>3, <2>1, NoEntry
  <1>5. ~(CreateAttempt(r) /\ req[r].on = c)
    BY <1>2 DEF CreateAttempt, At, Running, LimitsInv, ContactSteps
  <1>6. ~(ScheduleRetry(r) /\ req[r].on = c)
    BY <1>2 DEF ScheduleRetry, At, Running, LimitsInv, ChargeSteps
  <1>7. RetryRows(c)' = {}
    BY <1>2, <1>6, RetryRowStep
  <1>8. contacts'[c] = contacts[c]
    <2>1. CASE Begin(r) \/ req[r].on # c
      BY <2>1, OtherCases DEF Same
    <2>2. CASE Continue(r) /\ ~CreateAttempt(r)
      <3>1. CASE \/ Evaluate(r) \/ LoadCase(r) \/ CreateLink(r)
                 \/ CountPayments(r) \/ ScheduleRetry(r)
                 \/ FinishLoad(r) \/ FinishUpdate(r) \/ FinishRecord(r)
        BY <3>1 DEF Evaluate, LoadCase, CreateLink, CountPayments,
                    ScheduleRetry, FinishLoad, FinishUpdate, FinishRecord, store
      <3>2. CASE \/ SaveDecision(r) \/ Advance(r) \/ FindPending(r)
                 \/ Settle(r) \/ AttemptFailed(r) \/ Refuse(r)
                 \/ RecordPromise(r) \/ UpsertPromise(r) \/ MarkWaiting(r)
                 \/ Abort(r)
        BY <3>2 DEF SaveDecision, Advance, FindPending, Settle, AttemptFailed,
                    Refuse, RecordPromise, UpsertPromise, MarkWaiting, Abort,
                    store
      <3> QED BY <2>2, <3>1, <3>2 DEF Continue, Proceed
    <2> QED BY <1>5, <2>1, <2>2
  <1> QED BY <1>2, <1>4, <1>7, <1>8

\* So does a failure that no retry can cure, for charges.
LEMMA HardFailureStep ==
    ASSUME TypeOK, LimitsInv, PursuitInv, NEW r \in Requests,
           Begin(r) \/ Continue(r), NEW c \in Cases,
           ~Retryable(FailureReason(c)')
    PROVE  /\ RetryRows(c)' = {}
           /\ Running(c, RetryActions, {"load"} \cup ChargeSteps)' = {}
  <1>1. ~Retryable(FailureReason(c))
    BY SourceStep
  <1>2. /\ RetryRows(c) = {}
        /\ Running(c, RetryActions, {"load"} \cup ChargeSteps) = {}
    BY <1>1 DEF PursuitInv, HardFailureNeverRetried
  <1>3. ASSUME Evaluate(r), req[r].on = c
        PROVE  Effective(Context(c, req[r].what)) \notin RetryActions
    <2>1. ~Retryable(Context(c, req[r].what).failureReason)
      BY <1>1 DEF Context
    <2> QED BY <2>1, ChargeIsAllowed, AllowedCharge
  <1>4. Running(c, RetryActions, {"load"} \cup ChargeSteps)' = {}
    <2>1. ContactSteps # ChargeSteps
      BY DEF ContactSteps, ChargeSteps
    <2> QED BY <1>2, <1>3, <2>1, NoEntry
  <1>5. ~(ScheduleRetry(r) /\ req[r].on = c)
    BY <1>2 DEF ScheduleRetry, At, Running, LimitsInv, ChargeSteps
  <1> QED BY <1>2, <1>4, <1>5, RetryRowStep

LEMMA PursuitStep == TypeOK /\ LimitsInv /\ PursuitInv /\ [Next]_vars => PursuitInv'
  <1> SUFFICES ASSUME TypeOK, LimitsInv, PursuitInv, [Next]_vars
               PROVE  PursuitInv'
    OBVIOUS
  <1>1. ASSUME UNCHANGED << store, req >>
        PROVE  PursuitInv'
    BY <1>1
       DEF PursuitInv, DisputedNeverPursued, HardFailureNeverRetried, Running,
           Disputed, FailureReason, RetryRows, store
  <1>2. ASSUME NEW r \in Requests, Begin(r) \/ Continue(r)
        PROVE  PursuitInv'
    BY <1>2, DisputeStep, HardFailureStep
       DEF PursuitInv, DisputedNeverPursued, HardFailureNeverRetried
  <1>3. CASE World
    BY <1>1, <1>3 DEF World, WindowTurns, CooldownPasses, SetPreference
  <1>4. CASE UNCHANGED vars
    BY <1>1, <1>4 DEF vars
  <1> QED BY <1>2, <1>3, <1>4 DEF Next

\* Whatever callers ask for and however handlers interleave, the customer of a
\* disputed case is neither contacted nor charged.
THEOREM DisputeIsRespected == Spec => []DisputedNeverPursued
  <1>1. PursuitInv => DisputedNeverPursued
    BY DEF PursuitInv
  <1> QED BY <1>1, PursuitStart, PursuitStep, LimitsHold, TypeCorrect, PTL
          DEF Spec

\* Nor is a failure that only the customer can cure ever charged again.
THEOREM HardFailureIsRespected == Spec => []HardFailureNeverRetried
  <1>1. PursuitInv => HardFailureNeverRetried
    BY DEF PursuitInv
  <1> QED BY <1>1, PursuitStart, PursuitStep, LimitsHold, TypeCorrect, PTL
          DEF Spec

-----------------------------------------------------------------------------
(* The payments *)

\* A handler is about to record a retry only if it was already, or has this very
\* moment given the retry a row.
LEMMA RecordingStep ==
    ASSUME TypeOK, LimitsInv, NEW r \in Requests, Begin(r) \/ Continue(r),
           NEW c \in Cases, r \in Recording(c)'
    PROVE  \/ r \in Recording(c) /\ ~FinishRecord(r)
           \/ ScheduleRetry(r) /\ req[r].on = c
  <1>1. /\ req'[r].on = c /\ req'[r].what \in RetryActions
        /\ req'[r].at \in {"finish", "update", "record"}
    BY DEF Recording
  <1>2. req'[r].at \in ToolSteps
    BY <1>1 DEF ToolSteps
  <1>3. ~Evaluate(r)
    BY <1>1, <1>2, Entry
  <1>4. /\ req[r].at \in ToolSteps /\ req[r].on = c
        /\ req[r].what \in RetryActions /\ ~FinishRecord(r)
    BY <1>1, <1>2, <1>3, ToolStep
  <1>5. Continue(r) /\ ~Done(r)
    <2>1. Continue(r)
      BY <1>2, BeginStep
    <2>2. req \in [Requests -> Records]
      BY DEF TypeOK
    <2> QED BY <1>2, <2>1, <2>2 DEF Done, Idle, ToolSteps
  <1>6. ASSUME NEW step \in {"attempt", "count"}
        PROVE  ~Goto(r, step)
    <2>1. req \in [Requests -> Records]
      BY DEF TypeOK
    <2>2. Goto(r, step) => req'[r].at = step
      BY <2>1 DEF Goto, Records
    <2> QED BY <1>1, <2>2
  <1>7. RetryActions \cap ContactActions = {} /\ RetryActions \cap LinkActions = {}
    BY DEF RetryActions, ContactActions, LinkActions
  <1>8. req[r].at # "load"
    <2>1. LoadCase(r) => Goto(r, "count")
      BY <1>4, <1>5, <1>7 DEF LoadCase, FirstCall
    <2>2. Continue(r) /\ req[r].at = "load" => LoadCase(r) \/ Done(r)
      BY DEF Continue, Proceed, Evaluate, LoadCase, CreateLink, CreateAttempt,
             CountPayments, ScheduleRetry, FinishLoad, FinishUpdate, FinishRecord,
             SaveDecision, Advance, FindPending, Settle, AttemptFailed, Refuse,
             RecordPromise, UpsertPromise, MarkWaiting, Abort, At
    <2> QED BY <1>5, <1>6, <2>1, <2>2
  <1>9. req[r].at \notin ContactSteps
    BY <1>4, <1>7 DEF LimitsInv
  <1>10. req[r].at # "count"
    <2>1. CountPayments(r) => req'[r].at = "schedule"
      BY DEF CountPayments, TypeOK, Records
    <2>2. Continue(r) /\ req[r].at = "count" => CountPayments(r) \/ Done(r)
      BY DEF Continue, Proceed, Evaluate, LoadCase, CreateLink, CreateAttempt,
             CountPayments, ScheduleRetry, FinishLoad, FinishUpdate, FinishRecord,
             SaveDecision, Advance, FindPending, Settle, AttemptFailed, Refuse,
             RecordPromise, UpsertPromise, MarkWaiting, Abort, At
    <2> QED BY <1>1, <1>5, <2>1, <2>2
  <1>11. CASE req[r].at = "schedule"
    <2>1. Continue(r) /\ req[r].at = "schedule" => ScheduleRetry(r) \/ Done(r)
      BY DEF Continue, Proceed, Evaluate, LoadCase, CreateLink, CreateAttempt,
             CountPayments, ScheduleRetry, FinishLoad, FinishUpdate, FinishRecord,
             SaveDecision, Advance, FindPending, Settle, AttemptFailed, Refuse,
             RecordPromise, UpsertPromise, MarkWaiting, Abort, At
    <2> QED BY <1>4, <1>5, <1>11, <2>1
  <1>12. CASE req[r].at \in {"finish", "update", "record"}
    BY <1>4, <1>12 DEF Recording
  <1> QED BY <1>4, <1>8, <1>9, <1>10, <1>11, <1>12 DEF ToolSteps, ContactSteps

LEMMA OwnRowsStep ==
    ASSUME TypeOK, LimitsInv, RetriesHaveOwnRows, NEW r \in Requests,
           Begin(r) \/ Continue(r), NEW c \in Cases
    PROVE  retries'[c] + Cardinality(Recording(c)') =< Cardinality(RetryRows(c)')
  <1> DEFINE S == Recording(c)
             T == Recording(c)'
             R == RetryRows(c)
             Q == RetryRows(c)'
  <1> SUFFICES retries'[c] + Cardinality(T) =< Cardinality(Q)
    OBVIOUS
  <1>1. S \in SUBSET Requests /\ T \in SUBSET Requests
    BY DEF Recording
  <1>2. IsFiniteSet(R) /\ Cardinality(R) \in Nat
    <2>1. payments[c] \in Seq(PaymentRows)
      BY TypeParts DEF StoreOK
    <2>2. R \in SUBSET (1 .. Len(payments[c])) /\ Len(payments[c]) \in Int
      BY <2>1 DEF RetryRows
    <2>3. IsFiniteSet(1 .. Len(payments[c]))
      BY <2>2, FS_Interval
    <2> HIDE DEF R
    <2> QED BY <2>2, <2>3, FS_Subset, FS_CardinalityType
  <1>3. retries[c] \in Nat /\ retries[c] + Cardinality(S) =< Cardinality(R)
    BY TypeParts DEF StoreOK, RetriesHaveOwnRows
  <1>4. \A q \in Requests : q # r => req'[q] = req[q]
    BY OthersWait
  <1>5. Cardinality(S) \in Nat /\ Cardinality(T) \in Nat
    BY <1>1, Counting
  <1>6. CASE r \in T /\ r \notin S
    <2>1. ScheduleRetry(r) /\ req[r].on = c
      BY <1>6, RecordingStep
    <2>2. PICK i : i \notin R /\ Q = R \cup {i}
      <3>1. Q # R
        <4>1. ~Done(r)
          <5>1. req \in [Requests -> Records]
            BY DEF TypeOK
          <5> QED BY <1>6, <5>1 DEF Recording, Done, Idle
        <4>2. NewPayment(c, "retry", req[r].seen + 1, "RETRY_SCHEDULED")
          BY <2>1, <4>1 DEF ScheduleRetry
        <4> DEFINE row == [kind |-> "retry", ref |-> req[r].seen + 1,
                           state |-> "RETRY_SCHEDULED"]
                   n == Len(payments[c]) + 1
        <4>3. payments[c] \in Seq(PaymentRows) /\ StoreOK
          BY TypeParts DEF StoreOK
        <4>4. payments'[c] = Append(payments[c], row)
          BY <4>2, <4>3 DEF NewPayment, StoreOK
        <4>5. row \in PaymentRows /\ row.kind = "retry"
          BY DEF PaymentRows, TypeOK, Records
        <4> HIDE DEF row
        <4>6. n \in DOMAIN payments'[c] /\ payments'[c][n] = row
                /\ n \notin DOMAIN payments[c]
          BY <4>3, <4>4, <4>5
        <4> QED BY <4>5, <4>6 DEF RetryRows
      <3> QED BY <3>1, RetryRowsStep
    <2>3. retries'[c] = retries[c]
      BY <2>1, WhoCounts DEF ScheduleRetry, FinishRecord, At
    <2>4. Cardinality(Q) = Cardinality(R) + 1
      <3> HIDE DEF R, Q
      <3> QED BY <1>2, <2>2, FS_AddElement
    <2>5. T \ {r} \in SUBSET S
      BY <1>4 DEF Recording
    <2>6. Cardinality(T) = Cardinality(T \ {r}) + 1
      <3>1. IsFiniteSet(T)
        BY <1>1, Counting
      <3>2. Cardinality(T \ {r}) = Cardinality(T) - 1
        <4> HIDE DEF T
        <4> QED BY <1>6, <3>1, FS_RemoveElement
      <3> HIDE DEF T
      <3> QED BY <1>5, <3>2
    <2>7. Cardinality(T \ {r}) =< Cardinality(S) /\ Cardinality(T \ {r}) \in Nat
      BY <1>1, <2>5, Counting
    <2> HIDE DEF S, T, R, Q
    <2> QED BY <1>2, <1>3, <1>5, <2>3, <2>4, <2>6, <2>7
  <1>7. CASE ~(r \in T /\ r \notin S)
    <2>1. T \in SUBSET S
      BY <1>4, <1>7 DEF Recording
    <2>2. Cardinality(T) =< Cardinality(S)
      BY <1>1, <2>1, Counting
    <2>3. Cardinality(R) =< Cardinality(Q) /\ Cardinality(Q) \in Nat
      <3>1. Q = R \/ \E i : Q = R \cup {i}
        BY RetryRowsStep
      <3> HIDE DEF R, Q
      <3>2. CASE Q = R
        BY <1>2, <3>2
      <3>3. ASSUME NEW i, Q = R \cup {i}
            PROVE  Cardinality(R) =< Cardinality(Q) /\ Cardinality(Q) \in Nat
        <4>1. Cardinality(Q) = IF i \in R THEN Cardinality(R) ELSE Cardinality(R) + 1
          BY <1>2, <3>3, FS_AddElement
        <4> QED BY <1>2, <4>1
      <3> QED BY <3>1, <3>2, <3>3
    <2>4. CASE retries'[c] = retries[c]
      <3> HIDE DEF S, T, R, Q
      <3> QED BY <1>2, <1>3, <1>5, <2>2, <2>3, <2>4
    <2>5. CASE /\ FinishRecord(r) /\ req[r].on = c /\ req[r].what \in RetryActions
               /\ retries'[c] = retries[c] + 1
      <3>1. r \in S
        BY <2>5 DEF FinishRecord, At, Recording
      <3>2. r \notin T
        <4>1. req \in [Requests -> Records]
          BY DEF TypeOK
        <4> QED BY <2>5, <4>1 DEF FinishRecord, Done, Idle, Recording
      <3>3. Cardinality(T) + 1 =< Cardinality(S)
        <4>1. T \in SUBSET (S \ {r})
          BY <2>1, <3>2
        <4> HIDE DEF S, T
        <4> QED BY <1>1, <3>1, <4>1, Leaving
      <3> HIDE DEF S, T, R, Q
      <3> QED BY <1>2, <1>3, <1>5, <2>3, <2>5, <3>3
    <2> QED BY <2>4, <2>5, WhoCounts
  <1> QED BY <1>6, <1>7

\* Every recorded retry, and every one about to be recorded, has a payment row of
\* its own, however many handlers schedule retries of one case at once.
THEOREM RetriesOwnTheirRows == Spec => []RetriesHaveOwnRows
  <1>1. Init => RetriesHaveOwnRows
    <2> SUFFICES ASSUME Init, NEW c \in Cases
                 PROVE  retries[c] + Cardinality(Recording(c))
                          =< Cardinality(RetryRows(c))
      BY DEF RetriesHaveOwnRows
    <2>1. Recording(c) = {} /\ RetryRows(c) = {} /\ retries[c] = 0
      BY DEF Init, Idle, Recording, RetryRows
    <2> QED BY <2>1, FS_EmptySet
  <1>2. TypeOK /\ LimitsInv /\ RetriesHaveOwnRows /\ [Next]_vars
          => RetriesHaveOwnRows'
    <2> SUFFICES ASSUME TypeOK, LimitsInv, RetriesHaveOwnRows, [Next]_vars
                 PROVE  RetriesHaveOwnRows'
      OBVIOUS
    <2>1. ASSUME UNCHANGED << store, req >>
          PROVE  RetriesHaveOwnRows'
      BY <2>1 DEF RetriesHaveOwnRows, Recording, RetryRows, store
    <2>2. ASSUME NEW r \in Requests, Begin(r) \/ Continue(r)
          PROVE  RetriesHaveOwnRows'
      BY <2>2, OwnRowsStep DEF RetriesHaveOwnRows
    <2>3. CASE World
      BY <2>1, <2>3 DEF World, WindowTurns, CooldownPasses, SetPreference
    <2>4. CASE UNCHANGED vars
      BY <2>1, <2>4 DEF vars
    <2> QED BY <2>2, <2>3, <2>4 DEF Next
  <1> QED BY <1>1, <1>2, LimitsHold, TypeCorrect, PTL DEF Spec

\* Inductive form: a handler that verifies an outcome knows who asked, and the row
\* it found stays there until it settles.
SettleInv ==
    /\ RecoveredIsSettled
    /\ \A r \in Requests :
         /\ req[r].at \in {"findPending", "settle"} => req[r].origin # "NO"
         /\ req[r].at = "settle" /\ req[r].seen # 0 =>
              req[r].seen \in DOMAIN payments[req[r].on]

\* Only a settlement recovers a case, credits it to somebody or touches the record
\* it started from.
LEMMA WhoSettles ==
    ASSUME TypeOK, NEW r \in Requests, Begin(r) \/ Continue(r), NEW c \in Cases
    PROVE  \/ /\ status'[c] = "RECOVERED" => status[c] = "RECOVERED"
              /\ recovered'[c] = recovered[c] /\ source'[c] = source[c]
           \/ Settle(r) /\ req[r].on = c /\ recovered'[c] = req[r].origin
              /\ source'[c] = Synced(source[c]) /\ source[c] \in SourceRecords
              /\ \/ req[r].seen = 0 /\ \E row : Appended(c, row)
                 \/ req[r].seen # 0 /\ DOMAIN payments'[c] = DOMAIN payments[c]
  <1>1. StoreOK
    BY TypeParts
  <1>2. CASE Begin(r)
    <2>1. UNCHANGED store
      BY <1>2 DEF Begin, BeginExecute, BeginDiagnose, BeginVerify, BeginVoice
    <2> QED BY <2>1 DEF store
  <1>3. CASE Settle(r)
    <2>1. CASE UNCHANGED store
      BY <2>1 DEF store
    <2>2. CASE ~UNCHANGED store
      <3> DEFINE d == req[r].on
      <3>1. /\ source' = [source EXCEPT ![d] = Synced(@)]
            /\ status' = [status EXCEPT ![d] = "RECOVERED"]
            /\ recovered' = [recovered EXCEPT ![d] = req[r].origin]
        BY <1>3, <2>2 DEF Settle
      <3>2. CASE d # c
        BY <1>1, <3>1, <3>2 DEF StoreOK
      <3>3. CASE d = c
        <4>1. /\ recovered'[c] = req[r].origin /\ source'[c] = Synced(source[c])
              /\ source[c] \in SourceRecords
          BY <1>1, <3>1, <3>3 DEF StoreOK
        <4>2. CASE req[r].seen = 0
          <5>1. PICK kind \in {"provider", "simulated"} :
                  NewPayment(c, kind, 0, "SUCCESS")
            BY <1>3, <2>2, <3>3, <4>2 DEF Settle
          <5> DEFINE row == [kind |-> kind, ref |-> 0, state |-> "SUCCESS"]
          <5>2. row \in PaymentRows
            BY DEF PaymentRows
          <5>3. payments'[c] = Append(payments[c], row)
            BY <1>1, <5>1 DEF NewPayment, StoreOK
          <5> HIDE DEF row
          <5> QED BY <1>3, <3>3, <4>1, <4>2, <5>2, <5>3 DEF Appended
        <4>3. CASE req[r].seen # 0
          <5>1. Resolve(c, req[r].seen, "SUCCESS")
            BY <1>3, <2>2, <3>3, <4>3 DEF Settle
          <5>2. DOMAIN payments'[c] = DOMAIN payments[c]
            BY <1>1, <5>1 DEF Resolve, StoreOK
          <5> QED BY <1>3, <3>3, <4>1, <4>3, <5>2
        <4> QED BY <4>2, <4>3
      <3> QED BY <3>2, <3>3
    <2> QED BY <2>1, <2>2
  <1>4. CASE \/ FinishUpdate(r) \/ Advance(r) \/ Refuse(r) \/ MarkWaiting(r)
    <2>1. /\ UNCHANGED << recovered, source >>
          /\ \/ UNCHANGED status
             \/ \E s \in CaseStatuses \ {"RECOVERED"} :
                  status' = [status EXCEPT ![req[r].on] = s]
      BY <1>4
         DEF FinishUpdate, StatusAfter, Advance, Refuse, MarkWaiting, CaseStatuses,
             ActiveStatuses, TerminalStatuses
    <2> QED BY <1>1, <2>1 DEF StoreOK
  <1>5. CASE \/ Evaluate(r) \/ LoadCase(r) \/ CreateLink(r) \/ CreateAttempt(r)
             \/ CountPayments(r) \/ ScheduleRetry(r) \/ FinishLoad(r)
             \/ FinishRecord(r)
    BY <1>5
       DEF Evaluate, LoadCase, CreateLink, CreateAttempt, CountPayments,
           ScheduleRetry, FinishLoad, FinishRecord, store
  <1>6. CASE \/ SaveDecision(r) \/ FindPending(r) \/ AttemptFailed(r)
             \/ RecordPromise(r) \/ UpsertPromise(r) \/ Abort(r)
    BY <1>6
       DEF SaveDecision, FindPending, AttemptFailed, RecordPromise, UpsertPromise,
           Abort, store
  <1> QED BY <1>2, <1>3, <1>4, <1>5, <1>6 DEF Continue, Proceed

\* What a handler that verifies an outcome has read.
LEMMA Verifying ==
    ASSUME TypeOK, SettleInv, NEW r \in Requests, Begin(r) \/ Continue(r)
    PROVE  /\ req'[r].at \in {"findPending", "settle"} => req'[r].origin # "NO"
           /\ req'[r].at = "settle" /\ req'[r].seen # 0 =>
                req'[r].seen \in DOMAIN payments'[req'[r].on]
  <1> SUFFICES ASSUME req'[r].at \in {"findPending", "settle"}
               PROVE  /\ req'[r].origin # "NO"
                      /\ req'[r].at = "settle" /\ req'[r].seen # 0 =>
                           req'[r].seen \in DOMAIN payments'[req'[r].on]
    OBVIOUS
  <1>1. /\ req \in [Requests -> Records] /\ req[r] \in Records
        /\ req[r].at # "idle" => req[r].on \in Cases
    BY DEF TypeOK
  <1>2. ASSUME NEW c \in Cases, NEW outcome \in Outcomes, NEW origin \in Origins,
               BeginVerify(r, c, outcome, origin)
        PROVE  req'[r].at = "findPending" /\ req'[r].origin # "NO"
    <2>1. origin # "NO"
      BY LifecycleAssumption
    <2>2. req'[r].at = "findPending" /\ req'[r].origin = origin
      BY <1>1, <1>2 DEF BeginVerify, Idle
    <2> QED BY <2>1, <2>2
  <1>3. CASE Begin(r)
    <2>1. ASSUME NEW c \in Cases
          PROVE  /\ \A action \in Actions : ~BeginExecute(r, c, action)
                 /\ ~BeginDiagnose(r, c)
                 /\ \A intent \in Intents : ~BeginVoice(r, c, intent)
      <3>1. \A action \in Actions : ~BeginExecute(r, c, action)
        BY <1>1 DEF BeginExecute, Start, Idle
      <3>2. \A intent \in Intents : ~BeginVoice(r, c, intent)
        BY <1>1 DEF BeginVoice, Start, Idle
      <3>3. ASSUME BeginDiagnose(r, c)
            PROVE  FALSE
        <4>1. PICK action \in Recommendable :
                req' = [req EXCEPT ![r] =
                          [Idle EXCEPT !.at = "saveDecision", !.on = c,
                                !.what = action,
                                !.may = status[c] \in {"OPEN", "DIAGNOSED"}]]
          BY <3>3 DEF BeginDiagnose
        <4> QED BY <1>1, <4>1 DEF Idle
      <3> QED BY <3>1, <3>2, <3>3
    <2> QED BY <1>2, <1>3, <2>1 DEF Begin
  <1>4. CASE FindPending(r)
    <2> DEFINE c == req[r].on
               step == IF req[r].what = "SUCCESS" THEN "settle" ELSE "fail"
    <2>1. PICK i \in 0 .. Len(payments[c]) :
            req' = [req EXCEPT ![r] = [req[r] EXCEPT !.at = step, !.seen = i]]
      BY <1>4 DEF FindPending
    <2>2. /\ req'[r].at = step /\ req'[r].seen = i /\ req'[r].on = c
          /\ req'[r].origin = req[r].origin
      <3> HIDE DEF step
      <3> QED BY <1>1, <2>1 DEF Records
    <2>3. req[r].at = "findPending" /\ req[r].origin # "NO" /\ c \in Cases
      BY <1>1, <1>4 DEF FindPending, At, SettleInv
    <2>4. payments'[c] = payments[c] /\ payments[c] \in Seq(PaymentRows)
      BY <1>4, <2>3, TypeParts DEF FindPending, store, StoreOK
    <2>5. i # 0 => i \in DOMAIN payments[c]
      BY <2>4
    <2> HIDE DEF step, c
    <2> QED BY <2>2, <2>3, <2>4, <2>5
  <1>5. CASE Continue(r) /\ ~FindPending(r)
    <2>1. ASSUME NEW step \in Steps \ {"findPending", "settle"}, Goto(r, step)
          PROVE  FALSE
      BY <1>1, <2>1 DEF Goto, Records
    <2>2. ASSUME Done(r)
          PROVE  FALSE
      BY <1>1, <2>2 DEF Done, Idle
    <2>3. ~Evaluate(r) /\ ~RecordPromise(r) /\ ~CountPayments(r) /\ ~FinishLoad(r)
      <3>1. ~Evaluate(r)
        <4>1. Evaluate(r) => Done(r) \/ req'[r].at = "load"
          BY <1>1 DEF Evaluate, Records
        <4> QED BY <2>2, <4>1
      <3>2. ~RecordPromise(r)
        <4>1. RecordPromise(r) => Done(r) \/ req'[r].at = "upsertPromise"
          BY <1>1 DEF RecordPromise, Records
        <4> QED BY <2>2, <4>1
      <3>3. ~CountPayments(r)
        BY <1>1 DEF CountPayments, Records
      <3>4. ~FinishLoad(r)
        <4>1. FinishLoad(r) => req'[r].at = "update"
          BY <1>1 DEF FinishLoad, Records
        <4> QED BY <4>1
      <3> QED BY <3>1, <3>2, <3>3, <3>4
    <2>4. ~LoadCase(r)
      <3>1. FirstCall(req[r].what) \in Steps \ {"findPending", "settle"}
        BY DEF FirstCall, Steps
      <3> QED BY <2>1, <2>2, <3>1 DEF LoadCase
    <2>5. ~CreateLink(r) /\ ~CreateAttempt(r) /\ ~ScheduleRetry(r)
            /\ ~FinishUpdate(r) /\ ~SaveDecision(r) /\ ~UpsertPromise(r)
      BY <2>1, <2>2
         DEF CreateLink, CreateAttempt, ScheduleRetry, FinishUpdate, SaveDecision,
             UpsertPromise, Steps
    <2>6. /\ ~FinishRecord(r) /\ ~Advance(r) /\ ~Settle(r) /\ ~AttemptFailed(r)
          /\ ~Refuse(r) /\ ~MarkWaiting(r) /\ ~Abort(r)
      BY <2>2
         DEF FinishRecord, Advance, Settle, AttemptFailed, Refuse, MarkWaiting, Abort
    <2> QED BY <1>5, <2>3, <2>4, <2>5, <2>6 DEF Continue, Proceed
  <1> QED BY <1>3, <1>4, <1>5

LEMMA SettleStep ==
    ASSUME TypeOK, SettleInv, NEW r \in Requests, Begin(r) \/ Continue(r)
    PROVE  SettleInv'
  <1>1. \A c \in Cases : DOMAIN payments[c] \subseteq DOMAIN payments'[c]
    BY RetryRowsStep
  <1>2. ASSUME NEW q \in Requests
        PROVE  /\ req'[q].at \in {"findPending", "settle"} => req'[q].origin # "NO"
               /\ req'[q].at = "settle" /\ req'[q].seen # 0 =>
                    req'[q].seen \in DOMAIN payments'[req'[q].on]
    <2>1. CASE q # r
      <3>1. req'[q] = req[q] /\ (req[q].at # "idle" => req[q].on \in Cases)
        BY <2>1, OthersWait DEF TypeOK
      <3> QED BY <1>1, <3>1 DEF SettleInv
    <2>2. CASE q = r
      BY <2>2, Verifying
    <2> QED BY <2>1, <2>2
  <1>3. ASSUME NEW c \in Cases, status'[c] = "RECOVERED"
        PROVE  /\ recovered'[c] # "NO"
               /\ source'[c] \notin {"OVERDUE", "DISPUTED", "PAST_DUE"}
               /\ payments'[c] # << >>
    <2>0. payments[c] \in Seq(PaymentRows)
      BY TypeParts DEF StoreOK
    <2>1. CASE /\ status'[c] = "RECOVERED" => status[c] = "RECOVERED"
               /\ recovered'[c] = recovered[c] /\ source'[c] = source[c]
      <3>1. /\ recovered[c] # "NO" /\ payments[c] # << >>
            /\ source[c] \notin {"OVERDUE", "DISPUTED", "PAST_DUE"}
        BY <1>3, <2>1 DEF SettleInv, RecoveredIsSettled
      <3>2. 1 \in DOMAIN payments[c]
        BY <2>0, <3>1
      <3>3. 1 \in DOMAIN payments'[c]
        BY <1>1, <3>2
      <3>4. payments'[c] # << >>
        BY <3>3
      <3> QED BY <2>1, <3>1, <3>4
    <2>2. CASE Settle(r) /\ req[r].on = c /\ recovered'[c] = req[r].origin
              /\ source'[c] = Synced(source[c])
              /\ \/ req[r].seen = 0 /\ \E row : Appended(c, row)
                 \/ req[r].seen # 0 /\ DOMAIN payments'[c] = DOMAIN payments[c]
      <3>1. req[r].at = "settle" /\ req[r].origin # "NO"
        BY <2>2 DEF Settle, At, SettleInv
      <3>2. Synced(source[c]) \notin {"OVERDUE", "DISPUTED", "PAST_DUE"}
        BY DEF Synced
      <3>3. payments'[c] # << >>
        <4>1. CASE \E row : Appended(c, row)
          BY <2>0, <4>1 DEF Appended
        <4>2. CASE req[r].seen # 0 /\ DOMAIN payments'[c] = DOMAIN payments[c]
          <5>1. req[r].seen \in DOMAIN payments'[c]
            BY <2>2, <3>1, <4>2 DEF SettleInv
          <5> QED BY <5>1
        <4> QED BY <2>2, <4>1, <4>2
      <3> QED BY <2>2, <3>1, <3>2, <3>3
    <2> QED BY <2>1, <2>2, WhoSettles
  <1> QED BY <1>2, <1>3 DEF SettleInv, RecoveredIsSettled

\* Whoever verifies a payment and whoever else works on the case, a recovered case
\* has its amount attributed, its record settled and a payment row to show for it.
THEOREM RecoveredCasesAreSettled == Spec => []RecoveredIsSettled
  <1>1. Init => SettleInv
    BY DEF Init, Idle, SettleInv, RecoveredIsSettled
  <1>2. TypeOK /\ SettleInv /\ [Next]_vars => SettleInv'
    <2> SUFFICES ASSUME TypeOK, SettleInv, [Next]_vars PROVE SettleInv'
      OBVIOUS
    <2>1. ASSUME UNCHANGED << store, req >>
          PROVE  SettleInv'
      BY <2>1 DEF SettleInv, RecoveredIsSettled, store
    <2>2. CASE World
      BY <2>1, <2>2 DEF World, WindowTurns, CooldownPasses, SetPreference
    <2>3. CASE UNCHANGED vars
      BY <2>1, <2>3 DEF vars
    <2> QED BY <2>2, <2>3, SettleStep DEF Next
  <1>3. SettleInv => RecoveredIsSettled
    BY DEF SettleInv
  <1> QED BY <1>1, <1>2, <1>3, TypeCorrect, PTL DEF Spec
=============================================================================
