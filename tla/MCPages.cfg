\* An editor against other administrators: a capacity, a pool of two devices, two groups.
\* Two pages of one user, two keys, two machines. One form, one domain, three writes.
\* A ticket with two images, a draft, two requests and changes.
SPECIFICATION PartSpec
CONSTANTS
    cap = cap
    u1 = u1
    u2 = u2
    Pools = {dev, cap}
    Groups = {g1, g2}
    Capacities <- OneCapacity
    Units = {u1, u2}
    MaxCapacity = 2
    Prints = {p1, p2}
    Tabs = {u1, u2}
    MaxKeys = 1
    MaxIds = 2
    MaxCodes = 2
    MaxEvents = 1
    MaxLost = 1
    Forms = {"profile"}
    Domains = {d1}
    Secrets = {"keep", "clear"}
    MaxWrites = 3
    MaxImages = 1
    MaxDrafts = 1
    MaxRequests = 2
SYMMETRY PageSymmetry
INVARIANTS
    AllocationsFit
    CodesBind
    RecordedOnce
PROPERTIES
    ToldTrue
    NothingOverwrittenUnseen
    DraftsKept
