CONSTANTS
    Downloads <- MCDownloads
    Configs <- MCConfigs
    Name = "name"
    Words = {"m", "n", "x", "y", "name", "NTM", "transcoded", "cp", "avi", "mp4"}
    Garbage = {"x", "y"}
    Subdirs = {"sub", "disc"}
    VEXTENSION = "mp4"
    Faults = {"crash", "encode", "file", "refuse"}
    MaxRuns = 4
SPECIFICATION Spec
INVARIANTS TypeOK VideosSurvive IntactNotRejected SuccessIsWhole
CONSTRAINT Followed
CHECK_DEADLOCK FALSE
