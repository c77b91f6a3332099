CONSTANTS
    d1 = d1  d2 = d2
    Downloads <- MCDownloads
    Texts <- MCTexts
    NameOf <- OwnNames
    InputName <- ClientNames
    CleanName <- Stems
    Identified = {d1}
    Small = {}
    InitialHolds <- Holdings
    InitialRows <- OldRows
    Configs <- NzbSettings
    Faults = {"config", "crash", "io", "raise", "locked"}
    MaxRuns = 2
SPECIFICATION Spec
INVARIANTS TypeOK SettledIsDone ManualRunsIdentify NoSilentLoss RejectedForAReason
PROPERTIES ImplementsBookkeeping
CHECK_DEADLOCK FALSE
