\* Two handlers, an invoice and a subscription of one customer, simulated batches
\* of two, one fault.
CONSTANTS
    e1 = e1
    e2 = e2
    c1 = c1
    Events = {e1, e2}
    Customers = {c1}
    Requests = {r1, r2}
    NoEvent = NoEvent
    NoCustomer = NoCustomer
    NoKey = NoKey
    EmailOf <- Emails
    KeyOf <- SourceKeys
    MaxCases = 2
    MaxBatch = 2
    MaxFaults = 1
SPECIFICATION FairSpec
INVARIANTS
    TypeOK
    OneCasePerEvent
    OneCasePerSource
    OrphansBounded
PROPERTIES
    EveryEventIsTaken
