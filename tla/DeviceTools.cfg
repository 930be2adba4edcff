CONSTANTS
    Task = {t1, t2, t3}
    MaxWorkers = 2
    Device = {d1, d2}
    Page = {"frida", "adb", "network", "ios"}
    MaxEvents = 1
    MaxFailures = 1
    None = None
SPECIFICATION ToolsSpec
CHECK_DEADLOCK FALSE
SYMMETRY Symmetry
INVARIANTS JobsAreOutstanding ShownIsTrue
PROPERTIES TargetIsUsers
