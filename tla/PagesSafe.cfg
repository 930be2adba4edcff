CONSTANTS
    Job = {j1, j2}
    Workflow = {"static"}
    WORKFLOW_REGISTRY <- MCRegistry
    PluginId = {scan}
    StepName = {scan}
    FindingKey = {k1}
    Severity = {"high"}
    PluginOutput <- MCOutputs
    PluginBehaviour = {"returns"}
    MaxWorkers = 1
    DbFaults = 1
    MaxCrashes = 1
    None = None
    scan = scan
    k1 = k1
    Project = {p1}
    Page = {apk, static}
    ProjectsWorkflow = "static"
    PageWorkflow <- MCSameWorkflow
    MaxRebuilds = 2
    MaxSecond = 1
    MaxMishaps = 2
SPECIFICATION PagesSpec
SYMMETRY MCSymmetry
INVARIANTS
    WorkflowPagesFollowJobs
    BusyRowHasJob
    ReportHasFile
CHECK_DEADLOCK FALSE
