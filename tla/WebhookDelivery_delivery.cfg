SPECIFICATION FairSpec
CONSTANTS
    MaxEvents = 4
    Unreachable <- FirstUnreachable
    MaxTries = 3
    Limit = 2
    Pollers = {1, 2}
    MaxFaults = 1
INVARIANTS
    TypeOK
    DeliveredWasAccepted
    AttemptsBounded
    AttemptsMatchPosts
    DuplicatesBounded
    PostedInOrder
PROPERTIES
    EventsConclude
CHECK_DEADLOCK FALSE
