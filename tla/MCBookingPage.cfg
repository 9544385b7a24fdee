SPECIFICATION FairSpec
CONSTANTS
    g = g
    h = h
    Groups <- MCGroups
    Targets <- MCTargets
    Held <- MCHeld
    LastMinute = 2
    MaxGestures = 2
    MaxChanges = 1
    MaxFaults = 1
INVARIANTS DraftsAreSelection BookedOnce
PROPERTIES PageCatchesUp
CHECK_DEADLOCK FALSE
