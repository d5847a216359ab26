SPECIFICATION ApplicationSpec
CONSTANTS
    \* Columns
    c1 = c1
    c2 = c2
    c3 = c3
    Card = {c1, c2, c3}
    Start <- TallColumn
    Nothing = Nothing
    Layouts <- Column_layouts
    CardGap = 1
    Above = 2
    SsrWindow = 2
    Overscan = 1
    MaxChanges = 2
    \* FreshClock
    Lead = {l1, l2}
    NoChip = NoChip
    FreshWindow = 3
    MaxTime = 4
    \* Lead
    Deal = {d1, d2}
    COLD = 2
    Never = Never
    LastDay = 4
    MaxWork = 3
    \* Search
    Query <- Typed
    Blank <- Nothing_typed
    Searchable <- Long_enough
    Phone <- Phones
    InBook <- SellersBook
    Null = Null
    MaxSaves = 2
    \* Record
    a = a
    b = b
    Contact = {a, b}
    Past <- Projected_past
    Late <- Projected_late
    Page = 1
    Nil = Nil
    MaxPosts = 1
    MaxFaults = 1
    \* Correction
    Seller = {s}
    Delta = {100, 250}
    NoForm = NoForm
    MaxSubmits = 3
    MaxLosses = 2
    \* Endpoints
    Nobody = Nobody
    MaxIssued = 2
    MaxClicks = 2
    MaxTroubles = 2
    \* Team
    Person = {me, x, y}
    Me = me
    NoPerson = NoPerson
    MaxEdits = 2
    MaxMishaps = 1
    \* MyDay
    m1 = m1
    m2 = m2
    t1 = t1
    Meeting = {m1, m2}
    Task = {t1}
    Starts <- Meeting_starts
    Lasts <- Meeting_lasts
    Due <- Task_due
    DayLength = 3
    Midnight = 2
    EndOfTime = 3
    \* Standing
    ana = ana
    ben = ben
    cy = cy
    Roster <- Sellers
    Viewer = cy
    Entries <- Amounts
    NoRow = NoRow
    MaxEntries = 3
    MaxReads = 2
    PodiumRows = 1
    \* Checklist
    IsSeller = TRUE
    \* Session
    Login = {n1, n2}
    NoLogin = NoLogin
    Tab = {w1}
    Connection = {g1}
    MaxSignIns = 2
    MaxRequests = 2
    MaxSeatChanges = 1
    \* Boot
    Lanes = {lane_compliance, lane_bulk}
    COMPLIANCE_LANE = lane_compliance
    Unclassified = Unclassified
    Environments = {"production", "test"}
    StartsWrong = {"bypasses rls", "gate granted", "bound not validated", "drifted", "capability not verified"}
    MaxPasses = 2
    MaxDrifts = 1
    \* Ingest
    done = done
    restated = restated
    recorded = recorded
    empty = empty
    k1 = k1
    p1 = p1
    p2 = p2
    r1 = r1
    u1 = u1
    Absent = Absent
    Body = {done, restated, recorded, empty}
    Empty = empty
    Envelope <- Envelopes
    Token = {live, old}
    Live = live
    Permits = 2
    RetryLimit = 1
    MaxDeliveries = 3
    MaxIngestFaults = 2
    \* Dial
    Prospect = {q1, q2}
    NoPhone = {q2}
    AllParty = {q1}
    NoLead = NoLead
    MaxPresses = 1
    MaxEvents = 2
    \* Saturation
    SUSTAINED = 2
    NoTime = NoTime
    LastSecond = 6
    MaxRefusals = 1
INVARIANTS
    ApplicationTypeOK
    ViewportCovered
    HandRunsWhileWatched
    SubmittedOnce
    AnswerOfTheQuestion
    AnswersAreShown
    OneReadingAgrees
    SiloHolds
    ProcessIsWatched
    NoIdlePermit
    DeliveriesKept
    GateIsObeyed
CHECK_DEADLOCK FALSE
