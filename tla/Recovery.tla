------------------------------ MODULE Recovery ------------------------------
(***************************************************************************)
(* The vocabulary every module of the project shares: the lifecycle of a   *)
(* recovery case, the closed list of actions the agent may take, and the   *)
(* groups of actions and failure reasons the policy tells apart.           *)
(* (packages/shared/src/enums.ts and policy.ts, prisma/schema.prisma)      *)
(***************************************************************************)
EXTENDS Naturals

ActiveStatuses == {"OPEN", "DIAGNOSED", "ACTION_TAKEN", "WAITING_CUSTOMER"}

TerminalStatuses == {"RECOVERED", "ESCALATED", "CLOSED_LOST"}

CaseStatuses == ActiveStatuses \cup TerminalStatuses

\* Cases whose money may be verified.
VerifiableStatuses == {"WAITING_CUSTOMER", "ACTION_TAKEN"}

-----------------------------------------------------------------------------
RetryActions == {"RETRY_PAYMENT", "SCHEDULE_RETRY"}

LinkActions == {"SEND_PAYMENT_LINK", "SEND_PAYMENT_UPDATE_LINK"}

ContactActions == LinkActions \cup {"SEND_EMAIL", "SEND_SMS"}

\* Exempt from the dispute stop: they do not chase money.
ExemptActions == {"CREATE_ESCALATION", "CLOSE_CASE", "NO_ACTION"}

Actions == RetryActions \cup ContactActions \cup ExemptActions

-----------------------------------------------------------------------------
RetryableReasons == {"INSUFFICIENT_FUNDS", "TECHNICAL_ERROR", "UNKNOWN"}

\* Failures only a new payment method can cure.
MethodReasons == {"EXPIRED_CARD", "AUTHENTICATION_FAILED"}

FailureReasons ==
    RetryableReasons \cup MethodReasons
        \cup {"DECLINED_BY_BANK", "CUSTOMER_DROPOFF"}

\* The reason of a case that did not start with a failed payment (null).
NoReason == "NO_REASON"

-----------------------------------------------------------------------------
OpenPromises == {"RECORDED", "FOLLOWED_UP"}

\* A case without a promise row has the status "NONE".
PromiseStatuses == OpenPromises \cup {"NONE", "FULFILLED", "BROKEN"}
=============================================================================
