SPECIFICATION BoardSpec
CONSTANTS
    Card <- Cards
    Stage <- Stages
    Gated <- Won
    Earning <- Won
    None = None
    Unchanged = Unchanged
    Window = 2
    Showing = 1
    MaxMoves = 2
    MaxTrouble = 1
INVARIANT
    BoardTypeOK
PROPERTIES
    ConfettiIsEarned
    CatchesUp
CHECK_DEADLOCK FALSE
