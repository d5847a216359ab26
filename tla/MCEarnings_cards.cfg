SPECIFICATION Spec
CONSTANTS
    o1 = o1
    o2 = o2
    ana = ana
    bob = bob
    None = None
    Opportunity = {o1, o2}
    Seller = {ana, bob}
    Owner <- TwoOwners
    Premium = {10}
    MoveKey = {}
    AdjustKey = {a1}
    Correction <- DownOnly
    Claimant = {c1, c2}
    UndoDeadline = 1
    RevealDelay = 2
    ClaimGrace = 2
    DayLength = 2
    MaxTime = 2
    MaxMoves = 3
\* The clock and the moves are bounded, so every behaviour ends.
CHECK_DEADLOCK FALSE
INVARIANTS
    OneStandingSale
    ReversalsPairUp
PROPERTIES
    CelebratedOnce
