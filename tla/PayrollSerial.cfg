SPECIFICATION Spec
CONSTANTS
    Employees = {e1, e2}
    Advances = {a1}
    NoAdvance = NoAdvance
    NoEmployee = NoEmployee
    Workers = {w1}
    Salaries = {180002}
    Amounts = {30000000}
    MaxAbsent = 0
    MaxActive = 2
    Faults = FALSE
INVARIANTS
    TypeOK
    OneActiveStructure
    PassDeductionsOnSlips
    PublishedRunHasPublishedSlips
    PassReconciles
