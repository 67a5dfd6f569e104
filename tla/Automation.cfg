CONSTANTS
    MaxRetryAttempts = 1
    MaxContactAttempts = 2
    Cases = {c1}
    Requests = {r1, r2}
    NoCase = NoCase
    Offered = {"SEND_EMAIL", "CREATE_ESCALATION"}
    Recommendable = {"SEND_EMAIL"}
    Outcomes = {"SUCCESS"}
    Origins = {"batch"}
    Intents = {}
    Sources = {"UNKNOWN"}
    Consents = {{"EMAIL"}}
    Windows = {TRUE}
    MaxContactRows = 3
    MaxPaymentRows = 2
    Forms = {f1}
    NoForm = NoForm
    Proposed = {"SEND_EMAIL"}
    Script <- ShortScript
    MaxFaults = 1
SPECIFICATION AutoSpec
SYMMETRY Symmetry
INVARIANTS AutoTypeOK ApprovedWasExecuted RunsBounded
PROPERTIES ReviewIsFinal
