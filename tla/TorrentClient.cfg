CONSTANTS
    t1 = t1  t2 = t2  t3 = t3  f1 = f1  f2 = f2  x1 = x1  x2 = x2
    Torrents = {t1, t2, t3}
    Files <- MCFiles
    Targets <- MCTargets
    Archives = {}
    Texts = {"none", "manual", "client", "nzb", "nzo", "n1", "n3", "n3.mkv"}
    NameOf <- TwoOfAName
    FoundName <- Renamed
    Unsafe = {}
    CommonDir = {t3}
    Failable = {}
    Movies = {}
    UserScript = {t3}
    InitialRows <- OldRows
    Configs <- ClientSettings
    Faults = {"config", "crash", "rpc", "raise", "locked"}
    MaxRuns = 2
SPECIFICATION Spec
INVARIANTS TypeOK PausedOnlyWhileProcessing SettledIsDone
PROPERTIES RemovedOnlyAccepted ImplementsBookkeeping
CHECK_DEADLOCK FALSE
