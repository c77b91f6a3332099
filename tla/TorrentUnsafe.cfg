CONSTANTS
    t1 = t1  t2 = t2  t3 = t3  f1 = f1  f2 = f2  x1 = x1  x2 = x2
    Torrents = {t1, t2}
    Files <- MCFiles
    Targets <- MCTargets
    Archives = {}
    Texts = {"none", "manual", "client", "n1", "n2"}
    NameOf <- OwnNames
    FoundName <- OwnNames
    Unsafe = {t1}
    CommonDir = {}
    Failable = {}
    Movies = {}
    UserScript = {}
    InitialRows <- NoRows
    Configs <- HardLinks
    Faults = {}
    MaxRuns = 2
SPECIFICATION Spec
INVARIANTS PausedOnlyWhileProcessing
CHECK_DEADLOCK FALSE
