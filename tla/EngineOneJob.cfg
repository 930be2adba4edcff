CONSTANTS
    Job = {j1}
    Workflow = {"static"}
    WORKFLOW_REGISTRY <- MCRegistry
    PluginId = {validate, decode, scan}
    StepName = {validate, decode, scan}
    FindingKey = {k1, k2, k3}
    Severity = {"critical", "high", "medium", "low", "info"}
    PluginOutput <- MCScoredOutputs
    PluginBehaviour = {"returns", "raises", "malformed", "unloadable"}
    MaxWorkers = 1
    DbFaults = 1
    MaxCrashes = 1
    None = None
    validate = validate
    decode = decode
    scan = scan
    k1 = k1
    k2 = k2
    k3 = k3
    FindingStatus = {"open", "accepted_risk", "fixed"}
    MaxEvents = 3
    MAX_RESULTS_PER_KIND = 1
    OverFetch = 2
SPECIFICATION Spec
INVARIANTS
    StepsAccountedFor
    VerdictMatchesSteps
    ScoreCoversFindings
    FindingsFaithful
    ScoreIsHonest
    CardIsHonest
    SarifPointsAtRules
    FindingsStayInView
PROPERTIES
    FinalRowFrozen
CHECK_DEADLOCK FALSE
