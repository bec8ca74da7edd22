CONSTANTS
    Procs = {p1}
    ToolCalls = {c1, c2}
    Nothing = Nothing
    MaxEntries = 4
    MaxLog = 6
    Written = {"tool_call", "tool_result"}

SPECIFICATION CompactionSpec
INVARIANTS NeverSplits
CHECK_DEADLOCK FALSE
