SPECIFICATION WholeSpec
CONSTANTS
    Width = 3
    Window = 2
    PanStep = 100
    MaxTakes = 2
INVARIANTS
    PanningMovesWindow
