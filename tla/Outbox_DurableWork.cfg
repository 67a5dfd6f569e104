\* The same with one fault: a dispatcher dies between its claim and its commit.
CONSTANTS
    Messages = {m1}
    Dispatchers = {d1}
    Hooks = {}
    Events = {}
    NoMessage = NoMessage
    BackgroundJobs = TRUE
    MaxAttempts = 2
    MaxFaults = 1
SPECIFICATION FairSpec
PROPERTIES
    DurableWork
CHECK_DEADLOCK FALSE
