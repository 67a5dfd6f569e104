\* A link is sent while a provider webhook settles the case.
CONSTANTS
    MaxRetryAttempts = 1
    MaxContactAttempts = 2
    Cases = {c1}
    Requests = {r1, r2}
    NoCase = NoCase
    Offered = {"SEND_PAYMENT_LINK"}
    Recommendable = {}
    Outcomes = {"SUCCESS"}
    Origins = {"webhook"}
    Intents = {}
    Sources = {"UNKNOWN"}
    Consents = {{"EMAIL"}}
    Windows = {TRUE}
    MaxContactRows = 2
    MaxPaymentRows = 2
SPECIFICATION Spec
SYMMETRY Symmetry
PROPERTIES
    FinishNeverDowngrades
