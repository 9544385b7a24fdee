\* Two accounts that compete for two names, two numbers and one address. Two accounts with two
\* pages, two sessions, a link, and one thing that goes wrong.
SPECIFICATION EitherSpec
CONSTANTS
    Users = {u1, u2}
    Names = {n1, n2}
    Emails = {e1}
    Numbers = {x, y}
    Codes = {c1, c2}
    MaxRevision = 2
    MaxRules = 2
    People = {u1, u2}
    Pages = {n1, n2}
    MaxSessions = 2
    MaxLinks = 1
    MaxJobs = 2
    MaxUpsets = 1
SYMMETRY RowSymmetry
INVARIANTS
    ClaimedOnce
    CodeUsedOnce
    ReviewsCurrent
    ServedAsShown
    LinkUsedOnce
CHECK_DEADLOCK FALSE
