---------------------------- MODULE MockDiagnosis ---------------------------
(***************************************************************************)
(* What the offline stand-in for the AI provider recommends, case type by  *)
(* case type, from the input the diagnosis service builds. Classification, *)
(* recoverability, confidence and wording are left out: the gate sees the  *)
(* action only.                                                            *)
(***************************************************************************)
EXTENDS PolicyEngine

CaseTypes == {"FAILED_PAYMENT", "FAILED_SUBSCRIPTION", "CHECKOUT_ABANDONMENT",
              "OVERDUE_INVOICE", "MANDATE_FAILURE"}

\* buildInput: the reason is that of the case's own payment, the successes are its
\* customer's, and a case without an invoice has no overdue days (0).
Inputs ==
    [caseType : CaseTypes, failureReason : FailureReasons \cup {NoReason},
     successfulPayments : Nat, amountAtRisk : Nat, customerTenureDays : Nat,
     daysOverdue : Nat]

FailedPayment(input) ==
    LET reliable == input.successfulPayments >= 3 IN
    CASE input.failureReason = "EXPIRED_CARD"       -> "SEND_PAYMENT_UPDATE_LINK"
      [] input.failureReason = "INSUFFICIENT_FUNDS" -> "SCHEDULE_RETRY"
      [] input.failureReason = "TECHNICAL_ERROR"    -> "RETRY_PAYMENT"
      [] input.failureReason = "AUTHENTICATION_FAILED" ->
           IF reliable THEN "SEND_PAYMENT_UPDATE_LINK" ELSE "CREATE_ESCALATION"
      [] OTHER -> "SEND_PAYMENT_LINK"

Subscription(input) ==
    IF input.failureReason = "EXPIRED_CARD" \/ input.customerTenureDays >= 90
    THEN "SEND_PAYMENT_UPDATE_LINK"
    ELSE IF input.failureReason = "TECHNICAL_ERROR" THEN "RETRY_PAYMENT"
                                                    ELSE "SEND_EMAIL"

Checkout(input) ==
    IF input.amountAtRisk >= 50000 THEN "SEND_PAYMENT_LINK" ELSE "SEND_EMAIL"

\* The code's first branch, for payers without failures up to day 30, and its last
\* one recommend the same e-mail.
Invoice(input) ==
    IF input.daysOverdue > 45 THEN "CREATE_ESCALATION" ELSE "SEND_EMAIL"

Mandate(input) ==
    IF input.failureReason = "TECHNICAL_ERROR" THEN "SCHEDULE_RETRY"
                                               ELSE "CREATE_ESCALATION"

Decide(input) ==
    CASE input.caseType = "FAILED_PAYMENT"       -> FailedPayment(input)
      [] input.caseType = "FAILED_SUBSCRIPTION"  -> Subscription(input)
      [] input.caseType = "CHECKOUT_ABANDONMENT" -> Checkout(input)
      [] input.caseType = "OVERDUE_INVOICE"      -> Invoice(input)
      [] input.caseType = "MANDATE_FAILURE"      -> Mandate(input)

-----------------------------------------------------------------------------
(* The recommendation in front of the gate *)

\* The gate looks the reason up itself, after the diagnosis: for a mandate it may
\* find another payment of the customer's, here any.
Asked(input, ctx) ==
    /\ ctx.action = Decide(input)
    /\ input.failureReason # NoReason => ctx.failureReason = input.failureReason
=============================================================================
