\* Two timer ticks that may overlap, two mails of two users, three faults; the switch goes off and on.
\* Two problems that change four times in all, sent one event at a time.
SPECIFICATION EitherSpec
CONSTANTS
    Passes = {p1, p2}
    Users = {u1, u2}
    MaxMails = 2
    MaxFaults = 3
    Kinds = {p, q}
    MaxQueue = 6
    MaxBatch = 1
    MaxChanges = 4
INVARIANTS
    ReportsAccounted
PROPERTIES
    NotSentAgain
    EverythingDelivered
