SPECIFICATION Spec
CONSTANTS
    o1 = o1
    o2 = o2
    ana = ana
    bob = bob
    None = None
    Opportunity = {o1}
    Seller = {ana}
    Owner <- OneOwner
    Premium = {10, 20}
    MoveKey = {}
    AdjustKey = {}
    Correction <- UpAndDown
    Claimant = {}
    UndoDeadline = 1
    RevealDelay = 2
    ClaimGrace = 2
    DayLength = 3
    MaxTime = 2
    MaxMoves = 3
\* The clock and the moves are bounded, so every behaviour ends.
CHECK_DEADLOCK FALSE
INVARIANT ReversalCancels
