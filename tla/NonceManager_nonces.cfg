SPECIFICATION FairSpec
CONSTANTS
    s1 = s1
    s2 = s2
    s3 = s3
    Nobody = Nobody
    Senders = {s1, s2, s3}
    MaxNonce = 3
    MaxExpiries = 3
    MaxFaults = 1
INVARIANTS
    TypeOK
    LockedNonceIsFree
PROPERTIES
    SentIsMinedUnlessFault
    LockComesFree
CHECK_DEADLOCK FALSE
