SPECIFICATION Spec
CONSTANTS
    Workers = {w1, w2}
    Admin = u0
    Users = {u0, u1, u2}
    Employees = {x1, x2}
    m1 = m1
    Emails = {m0, m1}
    Roles = {a, b}
    Rows = {r1}
    EmailOf <- SameEmail
    None = None
    Faults = TRUE
SYMMETRY IdSymmetry
INVARIANTS
    TypeOK
    NeverWithoutRole
    ImportedOnce
    CompletedHasEmployee
    BatchDecided
