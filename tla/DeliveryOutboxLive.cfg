CONSTANTS
    Notices = {n1}
    Replies = {r1}
    Refusals = {}
    Pollers = {p1, p2}
    None = None
    MaxAttempts = 2
    MaxTracked = 3
    PostTries = 2
    MaxFaults = 1

SPECIFICATION FairSpec
PROPERTIES Settles
CHECK_DEADLOCK FALSE
