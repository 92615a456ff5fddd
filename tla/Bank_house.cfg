SPECIFICATION Spec
CONSTANTS
    DayLen = 6
    Weekdays = 2
    Hours <- MCHoursByDay
    Schedules <- Movable
    SaveCover = 2
    BreakLen = 2
    GrantSizes <- CreditsAndCuts
    AppSizes = {1}
    AskSizes = {1, 2}
    AskIds = {a1}
    MaxBalance = 4
    EmptyLock = TRUE
    RemoteLock = TRUE
INVARIANTS
    TypeOK
    RefillOncePerDay
    HoldIsTonights
PROPERTIES
    NoStacking
    BedtimeHolds
    CoverNotRenewed
