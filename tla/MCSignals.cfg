CONSTANTS
    Steers = {s1}
    WebSteers = {w1}
    Aborts = {a1}
    Parties = 3
    SigRuns = {run1, run2}
    Polls = {poll1, poll2}
    Sweeps = {x1}
    Drainers = {poll1}
    Nobody = Nobody
    MaxSigFaults = 1
    Leaders = {p1, p2}
    NoLeader = NoLeader
    MaxPieces = 2
    MaxFires = 1
    MaxMonFaults = 1
    Asks = {k1}
    Callers = {c1}
    AskAnswers = {"approved", "adopted"}
    Cores = {p1, p2}
    MaxAskFaults = 1

SPECIFICATION MCSpec
INVARIANTS
    WordTypesOK
    HeardOnce StoppedIsQuiet
    ToldOnce LinesStayWhole
    NotifiedWasTold
PROPERTIES WordGetsThrough
CHECK_DEADLOCK FALSE
