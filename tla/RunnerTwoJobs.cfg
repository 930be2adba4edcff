CONSTANTS
    Job = {j1, j2}
    Workflow = {"static"}
    WORKFLOW_REGISTRY <- MCRegistry
    PluginId = {validate, decode}
    StepName = {validate, decode}
    FindingKey = {k1}
    Severity = {"high"}
    PluginOutput <- MCOutputs
    PluginBehaviour = {"returns"}
    MaxWorkers = 2
    DbFaults = 1
    MaxCrashes = 1
    None = None
    validate = validate
    decode = decode
    k1 = k1
    ListLimit = 1
SPECIFICATION DashboardSpec
INVARIANTS
    SignalsAreFinal
    MonitorNeverAhead
    UnannouncedJobIsPolled
    CompletedOnce
    DashboardMissesNothing
PROPERTIES
    ImplementsLifecycle
CHECK_DEADLOCK FALSE
