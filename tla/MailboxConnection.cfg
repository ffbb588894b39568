SPECIFICATION FairSpec
CONSTANTS
    Accounts = {a, b}
    Administrators = {a}
    None = none
    Flows = {f}
    Syncers = {s, t}
    MaxAttempts = 2
    MaxRefreshes = 1
INVARIANTS ConnectionStands CursorOfMailbox
PROPERTIES TokenIsUsed ForeignCursorGoes
CHECK_DEADLOCK FALSE
