SPECIFICATION Spec
CONSTANTS
    Pids = {1, 2, 3}
    Shielded = {3}
    MaxLeft = 2
    Overlap = FALSE
    MaxKills = 1
INVARIANTS
    TypeOK
PROPERTIES
    NoOrphans
    GrantResumes
    FocusedResumes
