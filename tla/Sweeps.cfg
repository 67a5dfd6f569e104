\* Two cases, of which the sweep and the diagnosis take one at a time, a queued
\* batch that is run twice at most, and one death.
CONSTANTS
    MaxRetryAttempts = 1
    MaxContactAttempts = 1
    Cases = {1, 2}
    Rank <- YoungFirst
    Handlers = {h1}
    Jobs = {j1}
    NoJob = NoJob
    Limit <- Limits
    Configured <- ShortScript
    Recommendable = {"SEND_PAYMENT_LINK"}
    Provider = "gemini"
    AllowSimulated = TRUE
    Suspect = {1, 2}
    MaxAttempts = 2
    Concurrency = 1
    MaxFaults = 1
SPECIFICATION FairSpec
INVARIANT TypeOK
PROPERTIES EveryCaseEnds EveryCaseIsDiagnosed EveryJobEnds
