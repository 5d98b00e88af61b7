SPECIFICATION Spec
CONSTANTS
    Desks = {d1, d2}
    FirstYear = 1
    LastYear = 2
    MaxTickets = 2
    DeskFaults = TRUE
    UserIds = {u1}
    AuthRequests = {q1, q2}
    LinkTTL = 2
    SessionTTL = 3
    MaxLinks = 3
    LastTick = 5
    Punches = {p1, p2}
    DayLength = 2
    LastMoment = 2
    MaxLogs = 3
    SeedRows <- AbsentDay
    Requests = {r1}
    CheckInOf <- MorningIn
    CheckOutOf <- EveningOut
    Null = Null
    Listed = {x1, x2, x3, x4, x5}
    FirstList <- ThreeUsers
    Limits = {0, 1, 2, 4}
    DefaultLimit = 2
    LimitCap = 3
    r1 = r1
    x1 = x1
    x2 = x2
    x3 = x3
    x4 = x4
    x5 = x5
SYMMETRY RequestSymmetry
INVARIANTS
    DeskTypeOK
    NextNumberFree
    ResolvedHasTime
    CredTypeOK
    StoredLinkIsLive
    NewestLinkWorks
    SessionsRunOut
    AttTypeOK
    HoursMatch
    TimesExplained
    PageTypeOK
    NothingSkipped
PROPERTIES
    SuspensionHolds
    SettledStaysSettled
CHECK_DEADLOCK FALSE
