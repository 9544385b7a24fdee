\* Two reviewers, one application of a user with any membership, four days.
SPECIFICATION FairSpec
CONSTANTS
    Reviewers = {r1, r2}
    MaxDay = 3
    MaxRequests = 1
    MaxVersion = 3

    
PROPERTIES
    ApprovedAsSeen
    Reminded
