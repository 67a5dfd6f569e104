\* Two links, which may both be open from the start, a tool or other handler that
\* may write over RECOVERED, two overlapping deliveries, a retry, and one death.
CONSTANTS
    Links = {l1, l2}
    Tools = {t1}
    Hooks = {h1, h2}
    NoLink = NoLink
    Detours = {"ESCALATED", "DIAGNOSED"}
    MaxRetries = 1
    MaxFaults = 1
SPECIFICATION FairSpec
INVARIANTS TypeOK AnsweredIsCredited CreditedOnce
PROPERTY PaidIsCredited
\* A recovered case with its events answered has nothing left to do.
CHECK_DEADLOCK FALSE
