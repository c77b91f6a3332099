CONSTANTS
    r1 = r1  r2 = r2
    Rows <- MCRows
    Databases <- NewerDatabases
    Faults = {}
SPECIFICATION Spec
INVARIANTS NewerRefused
