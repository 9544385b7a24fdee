\* The worker against rebuild requests, failures and crashes over three days.
SPECIFICATION FairSpec
CONSTANTS
    MaxTime = 5
    MaxRebuilds = 2
    MaxFaults = 2
INVARIANTS
    ReportsAgree
PROPERTIES
    CoverageKept
    AllWorkDone
