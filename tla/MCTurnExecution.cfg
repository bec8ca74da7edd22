SPECIFICATION TurnSpec
CONSTANTS
    r1 = r1  s1 = s1
    Runs = {r1}
    NoRun = NoRun
    Sessions = {s1}
    SessionOf <- OneRun
    Workers = {w1}
    Inline = {i1}
    Sweeps = {p1}
    MaxAttempts = 1
    MaxClaims = 1
    MaxFaults = 1
    MaxLog = 2
    MaxCompactions = 1
INVARIANTS
    LogFenced
    TurnTypeOK
    DoneIsRecorded
