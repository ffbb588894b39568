SPECIFICATION EFairSpec
CONSTANTS
    Ops = {o1, o2}
    e1 = e1
    Emails <- MCEmails
    Target <- MCTarget
    MayPause = TRUE
    MayRaise = TRUE
    MaxAttempts = 2
    MaxDeliveries = 1
    MaxCrashes = 1
    MaxOverruns = 0
INVARIANTS ETypeOK EmailExclusive ProcessingHasAnOwner
PROPERTIES SettledEmailStays CrashedEmailRecovers
CHECK_DEADLOCK FALSE
