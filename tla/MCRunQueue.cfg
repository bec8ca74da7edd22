SPECIFICATION Spec
CONSTANTS
    r1 = r1  r2 = r2  s1 = s1
    Runs = {r1}
    NoRun = NoRun
    Sessions = {s1}
    SessionOf <- OneRun
    Workers = {w1}
    Inline = {i1}
    Sweeps = {p1, p2}
    MaxAttempts = 1
    MaxClaims = 2
    MaxFaults = 2
INVARIANTS
    NotifiedOnce
    ErrorBudgetKept
    ClaimCapKept
    ParkedForCause
    AttemptsExclusive
PROPERTIES
    TerminalIsFinal
    ReapsOnlyLapsed
    ZombieIsHarmless
