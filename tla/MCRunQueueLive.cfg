SPECIFICATION FairSpec
CONSTANTS
    r1 = r1  r2 = r2  s1 = s1
    Runs = {r1, r2}
    NoRun = NoRun
    Sessions = {s1}
    SessionOf <- OneSession
    Workers = {w1}
    Inline = {}
    Sweeps = {p1}
    MaxAttempts = 2
    MaxClaims = 2
    MaxFaults = 1
INVARIANTS
    OneRunningPerSession
PROPERTIES
    ImplementsLifecycle
    EveryRunEnds
