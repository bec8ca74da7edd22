CONSTANTS
    Asks = {k1}
    Callers = {c1}
    AskAnswers = {"approved"}
    Cores = {p1}
    MaxAskFaults = 0

SPECIFICATION AskSpec
INVARIANTS NoFallbackOnSuccess
CHECK_DEADLOCK FALSE
