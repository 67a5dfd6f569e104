\* Fair sweeps from a closed or an open window, one death, contacts by others.
CONSTANTS
    MaxRetryAttempts = 1
    MaxContactAttempts = 1
    Cases = {c1}
    Requests = {r1, r2}
    NoCase = NoCase
    Offered = {"SEND_EMAIL"}
    Outcomes = {}
    MaxRecords = 1
    MaxContacts = 2
    MaxNights = 1
    MaxFaults = 1
SPECIFICATION FairSpec
PROPERTY EveryMissedPromiseEnds
