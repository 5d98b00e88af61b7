SPECIFICATION OverlapSpec
CONSTANTS
    Employees = {e1}
    Advances = {}
    NoAdvance = NoAdvance
    NoEmployee = NoEmployee
    Workers = {w1, w2}
    Salaries = {180000}
    Amounts = {30000000}
    MaxAbsent = 0
    MaxActive = 1
    Faults = FALSE
    Triggers = {w1, w2}
    NoTrigger = NoTrigger
    Keys = {k1, k2}
    SeedKey = k1
    Window = 2
    MaxTime = 6
    MaxHistory = 3
INVARIANTS
    JobTypeOK
    HistorySpaced
    ActiveIsExecuting
PROPERTIES
    ProcessingEnds
    FinalizedStaysFinal
    TriggerAnswered
CHECK_DEADLOCK FALSE
