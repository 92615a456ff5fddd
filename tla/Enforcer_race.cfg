SPECIFICATION Spec
CONSTANTS
    Pids = {1, 2, 3}
    Shielded = {3}
    MaxLeft = 2
    Overlap = TRUE
    MaxKills = 0
PROPERTIES
    NoOrphans
