CONSTANTS
    Job = {j1}
    Version = {v1}
    Permissive = {v1}
    MaxReplacements = 0
    MaxTroubles = 0
    DeviceLog = DeviceLog
    None = None
SPECIFICATION PipelineSpec
INVARIANTS
    TrackersAreLookedFor
CHECK_DEADLOCK FALSE
