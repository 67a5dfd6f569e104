CONSTANTS
    MaxRetryAttempts = 1
    MaxContactAttempts = 3
    Cases = {c1}
    Requests = {r1}
    NoCase = NoCase
    Offered = {"SEND_PAYMENT_LINK", "SEND_EMAIL", "CREATE_ESCALATION"}
    Recommendable = {"SEND_EMAIL", "NO_ACTION"}
    Outcomes = {"SUCCESS", "FAILURE"}
    Origins = {"batch"}
    Intents = {"PROMISE_TO_PAY"}
    Sources = {"UNKNOWN"}
    Consents = {{"EMAIL"}, {}}
    Windows = {TRUE}
    MaxContactRows = 4
    MaxPaymentRows = 2
    Forms = {f1}
    NoForm = NoForm
    Proposed = {"SEND_EMAIL"}
    Script <- DefaultSequence
    MaxFaults = 1
SPECIFICATION AutoFairSpec
PROPERTIES EveryCaseIsWorked
