SPECIFICATION Spec
CONSTANTS
    Parents = {p1, p2}
    Apps = {}
    Kids = {kid}
    Keys = {}
    Amounts <- GivenAndTaken
    AskIds = {ask}
    AskSize = 1
    DayCap = 2
    Hours = 2
    MaxBalance = 4
    MaxStops = 1
INVARIANTS
    AskPaidOnce
