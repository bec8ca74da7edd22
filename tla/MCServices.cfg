CONSTANTS
    Notices = {n1}
    Replies = {}
    Refusals = {q1}
    Pollers = {p1, p2}
    None = None
    MaxAttempts = 2
    MaxTracked = 3
    PostTries = 2
    MaxFaults = 2
    Procs = {p1, p2}
    ToolCalls = {}
    Nothing = Nothing
    MaxEntries = 4
    MaxLog = 6
    Written = {"message", "tainted"}
    Crons = {c1}
    Workers = {p1, p2}
    NoCron = NoCron
    CronKinds = {"once", "every", "calendar"}
    Every = 2
    Skew = 1
    MaxTime = 3
    MaxEdits = 1
    MaxCronFaults = 1
    MaxCrashes = 1
    RateMax = 3
    RateWindow = 3
    RateTime = 6
    RateCalls = 5
    Principals = {p1, p2}
    Org = Org
    Turns = {t1, t2, t3}
    Budget = 1
    OrgBudget = 2
    BudgetWindow = 1
    MaxCost = 1
    MaxClock = 2
    MaxBudgetFaults = 1
    Caches = {p1, p2}
    Reads = {p1, p2}
    Writers = {p1, p2}
    NoOne = NoOne
    MaxWrites = 2
    Owners = {p1, p2}
    Visitors = {v1}
    NoHolder = NoHolder
    First = First
    MaxVersions = 3
    MaxDeployFaults = 2
    Backends = {b1, b2}
    Default = b1
    Jobs = {p1, p2}
    Routers = {p1, p2}
    Movers = {p1, p2}
    NoMover = NoMover
    NoRoute = NoRoute
    MaxSaves = 2
    MaxMoveFaults = 1

SPECIFICATION MCSpec
SYMMETRY Symmetry
INVARIANTS
    TypesOK
    DeliveredWasShown RecoveryStandsBack NeverPostsAgain
    NothingLost
    ClaimStands ClaimExclusive
    LimitersAgree BurstBounded
    OverrunBounded
    NoWriteLost ReadsAreFresh
    RecordIsTrue
    WorkMeets
PROPERTIES SettledStays WindowNeverRegresses VersionsStand
CHECK_DEADLOCK FALSE
