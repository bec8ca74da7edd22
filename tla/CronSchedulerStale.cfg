CONSTANTS
    Crons = {c1}
    Workers = {w1}
    NoCron = NoCron
    CronKinds = {"once"}
    Every = 2
    Skew = 0
    MaxTime = 3
    MaxEdits = 1
    MaxCronFaults = 1
    MaxCrashes = 0

SPECIFICATION CronSpec
PROPERTIES StaleSlotsStayStale
CHECK_DEADLOCK FALSE
