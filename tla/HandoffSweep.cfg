CONSTANTS
    m1 = m1  m2 = m2  e1 = e1
    Media <- MCMedia
    Extras <- MCExtras
    Configs <- SonarrTorrents
SPECIFICATION Spec
INVARIANTS NothingSwept
CHECK_DEADLOCK FALSE
