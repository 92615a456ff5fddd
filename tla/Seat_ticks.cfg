SPECIFICATION Spec
CONSTANTS
    Users = {u1, u2}
    Nobody = nobody
    Old = {u2}
    Loops = {l1, l2}
    Late = FALSE
    Covers = {"overlay", "lock"}
    Direct = FALSE
    MaxKills = 1
INVARIANTS
    TypeOK
    OneWatcher
PROPERTIES
    SeenAsIs
    OwnFileKept
