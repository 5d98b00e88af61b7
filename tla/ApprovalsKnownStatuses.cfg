SPECIFICATION Spec
CONSTANTS
    Workers = {w1}
    e1 = e1
    e2 = e2
    t1 = t1
    t2 = t2
    t3 = t3
    Employees = {e1, e2}
    NoEmployee = NoEmployee
    Callers <- ThreeCallers
    Tasks = {t1, t2, t3}
    Kind <- ThreeKinds
    Requester <- TwoRequesters
    BulkLists <- FewLists
    Faults = FALSE
INVARIANTS
    KnownStatuses
