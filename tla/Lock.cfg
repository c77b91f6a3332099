CONSTANTS
    Procs <- Launches
    LockKinds <- BothKinds
SPECIFICATION FairSpec
INVARIANTS TypeOK MutexUnlessHazard
PROPERTIES ImplementsMutex EveryLaunchRuns RestartCompletes
CHECK_DEADLOCK FALSE
