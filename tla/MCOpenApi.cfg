\* One API user and two operations; bookings by hand go on beside them.
SPECIFICATION ApiSpec
CONSTANTS
    m1 = m1
    g1 = g1
    Machines <- OneMachine
    Groups = {g1}
    MachineOf <- OnTheMachine
    Users = {u1}
    Admins <- NoAdmins
    BlockAdminBookings = FALSE
    AdvanceMinutes = 3
    ResIds = {r1, r2}
    WinIds = {w1}
    MaxMinute = 2
    MaxRevision = 2
    MaxBatch = 1
    MaxSkew = 0
    Tokens = {t1, t2}
    Ops = {o1}
    MaxActiveTokens = 1
    TokenLife = 2
    PreparedTtl = 1
    Retention = 2
SYMMETRY RowSymmetry
INVARIANTS
    OneOutcome
    PendingHasToken
PROPERTIES
    ImplementsScheduling
CHECK_DEADLOCK FALSE
