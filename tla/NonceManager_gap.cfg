SPECIFICATION FairSpec
CONSTANTS
    s1 = s1
    s2 = s2
    s3 = s3
    Nobody = Nobody
    Senders = {s1, s2, s3}
    MaxNonce = 3
    MaxExpiries = 0
    MaxFaults = 1
PROPERTIES
    SentIsMined
CHECK_DEADLOCK FALSE
