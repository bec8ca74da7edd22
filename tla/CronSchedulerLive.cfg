CONSTANTS
    Crons = {c1}
    Workers = {w1, w2}
    NoCron = NoCron
    CronKinds = {"once", "every", "calendar"}
    Every = 2
    Skew = 1
    MaxTime = 3
    MaxEdits = 0
    MaxCronFaults = 2
    MaxCrashes = 0

SPECIFICATION CronFairSpec
PROPERTIES SlotsAreServed
CHECK_DEADLOCK FALSE
