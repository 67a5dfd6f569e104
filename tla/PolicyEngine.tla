---------------------------- MODULE PolicyEngine ----------------------------
(***************************************************************************)
(* The policy gate as pure operators: the ordered rules, the verdict, the  *)
(* fallback a denial turns into, and the two numeric tests (contact window *)
(* and cooldown) the verdict rests on.                                     *)
(*                                                                         *)
(* A context is a record                                                   *)
(*   [action, retryCount, contactCount, cooled, inWindow, consented,       *)
(*    disputed, failureReason]                                             *)
(* where cooled and inWindow are the outcomes of CooldownOk and InWindow.  *)
(***************************************************************************)
EXTENDS Recovery, Sequences

CONSTANTS
    MaxRetryAttempts,    \* MAX_RETRY_ATTEMPTS_PER_CASE
    MaxContactAttempts   \* MAX_CONTACT_ATTEMPTS_PER_CASE

\* getConfig accepts any finite value >= 0; the limits are taken whole.
ASSUME PolicyAssumption ==
    /\ MaxRetryAttempts \in Nat
    /\ MaxContactAttempts \in Nat

Contexts(counts) ==
    [action : Actions, retryCount : counts, contactCount : counts,
     cooled : BOOLEAN, inWindow : BOOLEAN, consented : BOOLEAN,
     disputed : BOOLEAN, failureReason : FailureReasons \cup {NoReason}]

-----------------------------------------------------------------------------
\* The rules, in the order evaluate() pushes them: the first that fails names
\* the denial and so decides the fallback.
Rules == << "NO_DISPUTE_STOP", "MAX_RETRY_ATTEMPTS",
            "RETRYABLE_FAILURE_REASON", "CUSTOMER_CONSENT",
            "MAX_CONTACT_ATTEMPTS", "CONTACT_HOURS_IST", "CONTACT_COOLDOWN" >>

Retryable(reason) == reason = NoReason \/ reason \in RetryableReasons

\* Mutant of Fails: a dispute stops contacts only.
FailsUnlessCharge(rule, ctx) ==
    \/ /\ ctx.action \in ContactActions
       /\ \/ rule = "NO_DISPUTE_STOP" /\ ctx.disputed
          \/ rule = "CUSTOMER_CONSENT" /\ ~ctx.consented
          \/ rule = "MAX_CONTACT_ATTEMPTS"
               /\ ~(ctx.contactCount < MaxContactAttempts)
          \/ rule = "CONTACT_HOURS_IST" /\ ~ctx.inWindow
          \/ rule = "CONTACT_COOLDOWN" /\ ~ctx.cooled
    \/ /\ ctx.action \in RetryActions
       /\ \/ rule = "MAX_RETRY_ATTEMPTS" /\ ~(ctx.retryCount < MaxRetryAttempts)
          \/ rule = "RETRYABLE_FAILURE_REASON" /\ ~Retryable(ctx.failureReason)

\* Mutant of Fails: the limits are compared with =<.
FailsLate(rule, ctx) ==
    \/ /\ ctx.action \notin ExemptActions
       /\ rule = "NO_DISPUTE_STOP" /\ ctx.disputed
    \/ /\ ctx.action \in RetryActions
       /\ \/ rule = "MAX_RETRY_ATTEMPTS" /\ ctx.retryCount > MaxRetryAttempts
          \/ rule = "RETRYABLE_FAILURE_REASON" /\ ~Retryable(ctx.failureReason)
    \/ /\ ctx.action \in ContactActions
       /\ \/ rule = "CUSTOMER_CONSENT" /\ ~ctx.consented
          \/ rule = "MAX_CONTACT_ATTEMPTS" /\ ctx.contactCount > MaxContactAttempts
          \/ rule = "CONTACT_HOURS_IST" /\ ~ctx.inWindow
          \/ rule = "CONTACT_COOLDOWN" /\ ~ctx.cooled

Fails(rule, ctx) ==
    \/ /\ ctx.action \notin ExemptActions
       /\ rule = "NO_DISPUTE_STOP" /\ ctx.disputed
    \/ /\ ctx.action \in RetryActions
       /\ \/ rule = "MAX_RETRY_ATTEMPTS" /\ ~(ctx.retryCount < MaxRetryAttempts)
          \/ rule = "RETRYABLE_FAILURE_REASON" /\ ~Retryable(ctx.failureReason)
    \/ /\ ctx.action \in ContactActions
       /\ \/ rule = "CUSTOMER_CONSENT" /\ ~ctx.consented
          \/ rule = "MAX_CONTACT_ATTEMPTS"
               /\ ~(ctx.contactCount < MaxContactAttempts)
          \/ rule = "CONTACT_HOURS_IST" /\ ~ctx.inWindow
          \/ rule = "CONTACT_COOLDOWN" /\ ~ctx.cooled

Allowed(ctx) == \A i \in DOMAIN Rules : ~Fails(Rules[i], ctx)

\* One of the rules in "names" is the first to fail.
FirstFailed(names, ctx) ==
    \E i \in DOMAIN Rules :
        /\ Rules[i] \in names
        /\ Fails(Rules[i], ctx)
        /\ \A j \in 1 .. i - 1 : ~Fails(Rules[j], ctx)

PaymentFallback(reason) ==
    IF reason \in MethodReasons THEN "SEND_PAYMENT_UPDATE_LINK"
                                ELSE "SEND_PAYMENT_LINK"

Fallback(ctx) ==
    IF FirstFailed({"CONTACT_HOURS_IST", "CONTACT_COOLDOWN"}, ctx)
    THEN "NO_ACTION"
    ELSE IF FirstFailed({"MAX_RETRY_ATTEMPTS", "RETRYABLE_FAILURE_REASON"}, ctx)
         THEN PaymentFallback(ctx.failureReason)
         ELSE "CREATE_ESCALATION"

\* What CaseActionsService.execute runs: the request, or its fallback, which
\* is not itself put through the gate.
Effective(ctx) == IF Allowed(ctx) THEN ctx.action ELSE Fallback(ctx)

\* The channel whose OPTED_IN preference an action needs.
ConsentChannel(action) == IF action = "SEND_SMS" THEN "SMS" ELSE "EMAIL"

-----------------------------------------------------------------------------
\* Time is counted in ticks of three minutes. Math.round(h * 10) / 10 is the
\* age of the last contact in tenths of an hour (two ticks each), rounded half
\* up, and the cooldown compares the rounded age.
TicksPerHour == 20

RoundedTenths(ticks) == (ticks + 1) \div 2

\* Mutant of CooldownOk: the age is rounded to whole hours.
CooldownOkByHours(ticks, minHours) ==
    (ticks + TicksPerHour \div 2) \div TicksPerHour >= minHours

CooldownOk(ticks, minHours) == RoundedTenths(ticks) >= 10 * minHours

\* Mutant of InWindow: the closing hour is inside.
InWindowClosed(hour, start, end) == hour >= start /\ hour =< end

\* IST hour of the day against [start, end).
InWindow(hour, start, end) == hour >= start /\ hour < end
=============================================================================
