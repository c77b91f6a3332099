CONSTANTS
    m1 = m1  m2 = m2  e1 = e1
    Media <- MCMedia
    Extras <- MCExtras
    Configs <- AllConfigs
SPECIFICATION FairSpec
INVARIANTS TypeOK SuccessIsFinal SweptOnlyWhenEarly
PROPERTIES SuccessIsOwned
CHECK_DEADLOCK FALSE
