SPECIFICATION FairSpec
CONSTANTS
    Emails = {1, 2}
    Drains = {c, d}
    None = none
    Limit = 1
    MaxBatches = 1
    MaxFaults = 1
    MaxPauses = 1
INVARIANT OneOpenChild
PROPERTY DrainCovers
PROPERTY MailIsTakenUp
CHECK_DEADLOCK FALSE
