SPECIFICATION Spec
CONSTANTS
    j1 = j1
    j2 = j2
    j3 = j3
    visit = visit
    chore = chore
    other = other
    acme = acme
    zen = zen
    Nobody = Nobody
    Job = {j1, j2, j3}
    Episode = {visit, chore, other}
    EpisodeOf <- StormAndQuiet
    Reminder = {visit, other}
    Tenant = {acme, zen}
    TenantOf <- Tenants2
    Dispatcher = {d1}
    FireAt = {0, 1}
    DropAfter = 1
    Limit = 2
    MaxRounds = 2
    MaxTime = 2
    MaxFaults = 1
    MaxOverruns = 0
INVARIANTS
    DispatchTypeOK
PROPERTIES
    NoSecondHelping
