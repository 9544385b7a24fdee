\* One account, two services, one key, one edit by others of each file; two registrations,
\* three identity keys, one lost request.
SPECIFICATION EitherSpec
CONSTANTS
    Files = {f1, f2}
    Accounts = {a1}
    Keys = {k1}
    MaxEdits = 1
    MaxUid = 2
    MaxRegs = 2
    MaxKeys = 3
    MaxFaults = 1
SYMMETRY HostSymmetry
INVARIANTS
    ServicesMatchFiles
    
    BothSidesAgree
PROPERTIES
    EditsKept
    NothingTriedBlindly
CHECK_DEADLOCK FALSE
