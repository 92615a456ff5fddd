SPECIFICATION BreakSpec
CONSTANTS
    DayLen = 6
    Gap = 1
    Away = 2
    Play = 4
    Break = 2
    Labels = {game, web}
SYMMETRY SwapLabels
INVARIANTS
    BreakTypeOK
PROPERTIES
    
    TodaysBreakStarts
