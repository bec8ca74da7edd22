SPECIFICATION TurnSpec
CONSTANTS
    r1 = r1  s1 = s1
    Runs = {r1}
    NoRun = NoRun
    Sessions = {s1}
    SessionOf <- OneRun
    Workers = {w1}
    Inline = {i1}
    Sweeps = {p1}
    MaxAttempts = 2
    MaxClaims = 2
    MaxFaults = 1
    MaxLog = 2
    MaxCompactions = 0
PROPERTIES
    RetryFindsLockFree
