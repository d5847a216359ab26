SPECIFICATION Spec
CONSTANTS
    j1 = j1
    j2 = j2
    j3 = j3
    visit = visit
    chore = chore
    other = other
    acme = acme
    zen = zen
    Nobody = Nobody
    Job = {j1}
    Episode = {visit, chore, other}
    EpisodeOf <- TwiceAndOther
    Reminder = {visit, other}
    Tenant = {acme, zen}
    TenantOf <- Tenants2
    Dispatcher = {d1, d2}
    FireAt = {0}
    DropAfter = 1
    Limit = 2
    MaxRounds = 1
    MaxTime = 0
    MaxFaults = 0
    MaxOverruns = 0
INVARIANT HeldByOne
