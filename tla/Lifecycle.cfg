\* Two handlers schedule retries, send e-mails, verify outcomes, diagnose and call
\* on one case whose invoice may be overdue or disputed or whose card may have
\* expired, with one retry and one contact allowed, in and out of the window.
CONSTANTS
    MaxRetryAttempts = 1
    MaxContactAttempts = 1
    Cases = {c1}
    Requests = {r1, r2}
    NoCase = NoCase
    Offered = {"SCHEDULE_RETRY", "SEND_EMAIL"}
    Recommendable = {"NO_ACTION"}
    Outcomes = {"SUCCESS", "FAILURE"}
    Origins = {"demo"}
    Intents = {"PROMISE_TO_PAY", "REFUSED"}
    Sources = {"OVERDUE", "DISPUTED", "EXPIRED_CARD"}
    Consents = {{"EMAIL"}}
    Windows = {TRUE,FALSE}
    MaxContactRows = 3
    MaxPaymentRows = 3
SPECIFICATION Spec
CONSTRAINT FewRows
SYMMETRY Symmetry
INVARIANTS
    TypeOK
    RetriesHaveOwnRows
    RecoveredIsSettled
    RetryOvershootBounded
    AllowedContactsBounded
    DisputedNeverPursued
    HardFailureNeverRetried
PROPERTIES
    SealedIsFinal
