SPECIFICATION UserAccessSpec
CONSTANTS
    ana = ana
    bea = bea
    s1 = s1
    s2 = s2
    Users <- TwoUsers
    Founder = ana
    Sessions <- TwoSessions
    MaxRows = 3
SYMMETRY Alike
\* Nobody has to call, and users with MaxRows audit rows are left alone.
CHECK_DEADLOCK FALSE
INVARIANTS
    AccessTypeOK
    AdminUnlessRaced
    CounterIdleUnlessRaced
    AuditIsTrue
