CONSTANTS
    Task = {t1, t2}
    MaxWorkers = 2
    Device = {d1, d2}
    MaxEvents = 1
    MaxFailures = 1
    None = None
SPECIFICATION RegistrySpec
CHECK_DEADLOCK FALSE
SYMMETRY Symmetry
INVARIANTS ScansAreFaithful PageFollowsJobs WizardIsRight
