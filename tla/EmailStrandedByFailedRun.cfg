SPECIFICATION ESpec
CONSTANTS
    Ops = {o1}
    e1 = e1
    Emails <- MCEmails
    Target <- MCTarget
    MayPause = FALSE
    MayRaise = TRUE
    MaxAttempts = 2
    MaxDeliveries = 1
    MaxCrashes = 0
    MaxOverruns = 0
INVARIANT NoStrandedEmail
CHECK_DEADLOCK FALSE
