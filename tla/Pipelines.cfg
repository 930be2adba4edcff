CONSTANTS
    Job = {j1, j2}
    Version = {v1, v2}
    Permissive = {v1}
    MaxReplacements = 1
    MaxTroubles = 1
    DeviceLog = DeviceLog
    None = None
SPECIFICATION PipelineSpec
INVARIANTS
    FindingsAreOfTheApk
    StepsFollowTheirData
SYMMETRY JobsAlike
CHECK_DEADLOCK FALSE
