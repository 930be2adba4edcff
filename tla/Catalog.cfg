CONSTANTS
    Task = {t1}
    MaxWorkers = 1
    Plugin = {p1, p2}
    Demanding = {p1}
    MaxEvents = 1
    MaxFailures = 1
    None = None
SPECIFICATION CatalogSpec
CHECK_DEADLOCK FALSE
INVARIANTS HealthIsCurrent
PROPERTIES PipelineForetells ChoiceIsKept
