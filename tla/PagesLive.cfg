CONSTANTS
    Job = {j1, j2}
    Workflow = {"static"}
    WORKFLOW_REGISTRY <- MCRegistry
    PluginId = {scan}
    StepName = {scan}
    FindingKey = {k1}
    Severity = {"high"}
    PluginOutput <- MCOutputs
    PluginBehaviour = {"returns"}
    MaxWorkers = 1
    DbFaults = 0
    MaxCrashes = 0
    None = None
    scan = scan
    k1 = k1
    Project = {p1}
    Page = {apk, static}
    ProjectsWorkflow = "static"
    PageWorkflow <- MCSameWorkflow
    MaxRebuilds = 1
    MaxSecond = 0
    MaxMishaps = 0
SPECIFICATION PagesFairSpec
PROPERTIES
    EveryRunIsAnswered
    EveryRowSettles
CHECK_DEADLOCK FALSE
