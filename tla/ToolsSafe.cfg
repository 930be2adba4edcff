CONSTANTS
    Task = {t1, t2, t3}
    MaxWorkers = 2
    Page = {settings, toolbox}
    ListPage = {toolbox}
    MaxRelease = 2
    MaxFailures = 1
    Tree = Tree
    None = None
SPECIFICATION InstallSpec
INVARIANTS
    AnsweredOnce
    RowFollowsInstall
    InstallsAreSound
SYMMETRY Symmetry
CHECK_DEADLOCK FALSE
