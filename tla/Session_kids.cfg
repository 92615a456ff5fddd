SPECIFICATION Spec
CONSTANTS
    Kids = {k1, k2}
    Desks = {d1}
    Slots = 2
    NoDesk = NoDesk
    NoConn = NoConn
    MaxTickets = 5
    MaxBreaks = 1
CHECK_DEADLOCK FALSE
INVARIANTS
    TypeOK
    UpIsPaired
    UpIsLive
PROPERTIES
    ComesBack
