SPECIFICATION Spec
CONSTANTS
    DayLen = 6
    MinBlock = 2
    MinNight = 2
    Freetime = "freetime"
    Configs <- MCConfigs
    Puts <- MCPuts
    Olds <- MCOlds
    Things = {"app", "old"}
    Installed = {"app"}
    Clients = {c1}
    Clocks = {0, 3, 5}
    MaxCalls = 3
    MaxStops = 1
    MaxFails = 1
CHECK_DEADLOCK FALSE
INVARIANTS
    TypeOK
    StoredOpens
    AckKept
    BlocksAwake
