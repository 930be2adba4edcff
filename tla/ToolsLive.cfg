CONSTANTS
    Task = {t1, t2, t3}
    MaxWorkers = 1
    Page = {toolbox}
    ListPage = {toolbox}
    MaxRelease = 1
    MaxFailures = 1
    Tree = Tree
    None = None
SPECIFICATION InstallFairSpec
PROPERTIES
    EverythingReturns
CHECK_DEADLOCK FALSE
