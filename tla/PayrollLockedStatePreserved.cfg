SPECIFICATION Spec
CONSTANTS
    Employees = {e1}
    Advances = {a1}
    NoAdvance = NoAdvance
    NoEmployee = NoEmployee
    Workers = {w1, w2}
    Salaries = {180000}
    Amounts = {30000000}
    MaxAbsent = 0
    MaxActive = 1
    Faults = FALSE
PROPERTIES
    LockedStatePreserved
