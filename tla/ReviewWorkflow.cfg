SPECIFICATION Spec
CONSTANTS
    MaxRuns = 1
    MaxQuestions = 2
    MaxRows = 2
    Hosts = {h1, h2}
    Decisions = {d1, d2}
    d1 = d1
    d2 = d2
    Allowed <- MCAllowed
    NoDecision = NoDecision
    Worker = Worker
    MaxResumes = 3
SYMMETRY Symmetry
INVARIANTS TypeOK AnswersStand NothingStranded
PROPERTY EndedRunStays
CHECK_DEADLOCK FALSE
