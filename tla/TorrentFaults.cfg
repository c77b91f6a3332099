CONSTANTS
    t1 = t1  t2 = t2  t3 = t3  f1 = f1  f2 = f2  x1 = x1  x2 = x2
    Torrents = {t1, t2}
    Files <- MCFiles
    Targets <- MCTargets
    Archives = {f1}
    Texts = {"none", "manual", "client", "n1", "n2"}
    NameOf <- OwnNames
    FoundName <- OwnNames
    Unsafe = {}
    CommonDir = {}
    Failable = {t1}
    Movies = {t1, t2}
    UserScript = {}
    InitialRows <- NoRows
    Configs <- FileSettings
    Faults = {"crash", "io"}
    MaxRuns = 2
SPECIFICATION Spec
INVARIANTS NoSilentLoss SeedSurvives
PROPERTIES CleanKeepsSeed
CHECK_DEADLOCK FALSE
