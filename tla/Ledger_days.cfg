SPECIFICATION Spec
CONSTANTS
    Parents = {p1}
    Apps = {app}
    Kids = {kid}
    Keys = {k1, k2}
    Amounts <- GivenAndTaken
    AskIds = {ask1}
    AskSize = 1
    DayCap = 2
    Hours = 2
    MaxBalance = 3
    MaxStops = 1
SYMMETRY SwapKeys
INVARIANTS
    TypeOK
    AppWithinCap
    RefillNotLost
    ApprovedWasPaid
PROPERTIES
    BookIsKept
