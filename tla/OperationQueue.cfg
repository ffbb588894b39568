SPECIFICATION FairSpec
CONSTANTS
    Ops = {o1}
    MaxAttempts = 3
    MaxDeliveries = 3
    MaxCrashes = 1
    MaxOverruns = 1
INVARIANTS OneExecution RetryBound
PROPERTIES TerminalIsFinal AcceptedWorkSettles LeaseSpec
CHECK_DEADLOCK FALSE
