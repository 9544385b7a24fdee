\* Batches and bookings of two users on one machine with two groups; no windows.
SPECIFICATION Spec
CONSTANTS
    m1 = m1
    m2 = m2
    g1 = g1
    g2 = g2
    admin = admin
    Machines <- OneMachine
    Groups = {g1, g2}
    MachineOf <- OnTheMachine
    Users = {u1, admin}
    Admins <- OneAdmin
    BlockAdminBookings = FALSE
    AdvanceMinutes = 2
    ResIds = {r1, r2, r3}
    WinIds = {}
    MaxMinute = 2
    MaxRevision = 4
    MaxBatch = 2
    MaxSkew = 0
SYMMETRY Symmetry
INVARIANTS
    NoDoubleBooking
    LiveBookingHasAccess
PROPERTIES
    HistoryKept
    ImplementsCalendar
CHECK_DEADLOCK FALSE
