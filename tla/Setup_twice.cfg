SPECIFICATION Spec
CONSTANTS
  MaxSecrets = 8
  Retired <- retired
  Legacy = "kidtimer"
  New = "io.kidtimer"
  Others = {"clock"}
  Layouts <- layouts
  Last = 4
  Repos = {"share", "old", "self"}
  Overlap = FALSE
  MaxRuns = 2
  MaxLives = 1
  MaxKills = 1
CHECK_DEADLOCK FALSE
INVARIANTS
  TypeOK
  BarWorks
  OneChip
  NeverDangles
PROPERTIES
  ChipStays
