\* A user's bookings under maintenance, deactivation and deletion.
SPECIFICATION Spec
CONSTANTS
    m1 = m1
    m2 = m2
    g1 = g1
    g2 = g2
    admin = admin
    Machines <- OneMachine
    Groups = {g1, g2}
    MachineOf <- OnTheMachine
    Users = {u1}
    Admins <- NoAdmins
    BlockAdminBookings = TRUE
    AdvanceMinutes = 3
    ResIds = {r1, r2}
    WinIds = {w1, w2}
    MaxMinute = 3
    MaxRevision = 4
    MaxBatch = 1
    MaxSkew = 0
SYMMETRY UserSymmetry
INVARIANTS
    BookingsClearOfWindows
    WindowsConsistent
PROPERTIES
    WindowTakesExactly
CHECK_DEADLOCK FALSE
