SPECIFICATION Spec
CONSTANTS
    e1 = e1
    e2 = e2
    audit = audit
    ghost = ghost
    earnings = earnings
    NoKey = NoKey
    Event = {e1, e2}
    Consumer = {audit, ghost, earnings}
    Relay = {w1, w2}
    Registered <- TwoEvents
    Queued = {audit, ghost}
    Built = {audit, ghost, earnings}
    Handled = {audit}
    MaxAttempts <- Attempts
    BatchSize = 2
    MaxAborts = 1
    MaxOverruns = 0
    MaxLostCommits = 0
\* Every event is settled in the end, and then nothing is left to do.
CHECK_DEADLOCK FALSE
INVARIANTS
    TypeOK
    ExactlyOnce
    DeadIsRecorded
    AttemptsAccounted
    OneHolder
PROPERTIES
    SettledIsFinal
    KeepsPromise
