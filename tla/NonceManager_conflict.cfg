SPECIFICATION Spec
CONSTANTS
    s1 = s1
    s2 = s2
    s3 = s3
    Nobody = Nobody
    Senders = {s1, s2, s3}
    MaxNonce = 3
    MaxExpiries = 1
    MaxFaults = 0
INVARIANTS
    NonceIsFree
CHECK_DEADLOCK FALSE
