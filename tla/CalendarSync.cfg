SPECIFICATION Spec
CONSTANTS
    Fresh = {m1, m2}
    Late = {m5}
    Old = {m3, m4}
    Emails <- MCEmails
    Earlier <- MCEarlier
    Times = {t1, t2}
    NoTime = NoTime
    None = None
    Extracted <- MCAnything
    MaxPasses = 3
    MaxCrashes = 1
    MaxLosses = 1
    MaxDeletes = 1
SYMMETRY MCSymmetry
CONSTRAINT MCFaults
INVARIANTS TypeOK OneOpenApplication OneInterview BoundedDuplicates 
PROPERTIES DecisionsStand
CHECK_DEADLOCK FALSE
