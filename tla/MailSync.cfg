SPECIFICATION FairSpec
CONSTANTS
    Syncers = {s1, s2}
    MaxMail = 2
    PageSize = 1
    MaxPages = 2
    Malformed = {1}
    MaxCrashes = 1
    MaxOverruns = 1
    MaxRefusals = 1
    MaxPauses = 1
INVARIANTS NothingSkipped LeaseExcludes
PROPERTY MailArrives
CHECK_DEADLOCK FALSE
