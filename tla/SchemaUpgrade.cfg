CONSTANTS
    r1 = r1  r2 = r2
    Rows <- MCRows
    Databases <- AllDatabases
    Faults = {"crash", "locked"}
SPECIFICATION Spec
INVARIANTS TypeOK RowsPreserved RunningIsCurrent StuckOnlyWhenInterrupted
