SPECIFICATION BreakSpec
CONSTANTS
    DayLen = 7
    Gap = 1
    Away = 2
    Play = 4
    Break = 2
    Labels = {game, web}
PROPERTIES
    DueBreakStarts
SYMMETRY SwapLabels
