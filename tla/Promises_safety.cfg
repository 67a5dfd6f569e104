\* Two handlers on one promise that may be refreshed once: calls, sweeps,
\* settlements and payments, an escalation, and one handler that dies.
CONSTANTS
    MaxRetryAttempts = 1
    MaxContactAttempts = 2
    Cases = {c1}
    Requests = {r1, r2}
    NoCase = NoCase
    Offered = {"CREATE_ESCALATION"}
    Outcomes = {"SUCCESS", "FAILURE"}
    MaxRecords = 2
    MaxContacts = 3
    MaxNights = 0
    MaxFaults = 1
SPECIFICATION Spec
INVARIANTS
    TypeOK
    FollowUpsBounded
PROPERTIES
    EscalatedAfterReminder
    KeptStaysKept
SYMMETRY Symmetry
