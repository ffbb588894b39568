SPECIFICATION CSpec
CONSTANTS
    Users = {u, v}
    Switches = {"workflow", "calendar", "brief"}
    Available = {"calendar", "brief"}
    Recipients = {a, b}
    None = none
    MaxChanges = 1
    MaxVersion = 3
PROPERTY PatchOnSeen
SYMMETRY Symmetry
CHECK_DEADLOCK FALSE
