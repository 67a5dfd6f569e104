\* One email, two dispatchers (the tool's own and a timer's drain), two webhook
\* requests of two events, one fault anywhere, and background jobs enabled.
CONSTANTS
    Messages = {m1}
    Dispatchers = {d1, d2}
    Hooks = {h1, h2}
    Events = {"OPENED", "BOUNCED"}
    NoMessage = NoMessage
    BackgroundJobs = TRUE
    MaxAttempts = 3
    MaxFaults = 1
SPECIFICATION FairSpec
INVARIANTS
    TypeOK
    DeliveryInv
    StatusIsBacked
    AppliedBounded
PROPERTIES
    ImplementsDelivery
    FailureIsFinal
    EveryEmailEnds
CHECK_DEADLOCK FALSE
