SPECIFICATION FairSpec
CONSTANTS
    r1 = r1
    r2 = r2
    r3 = r3
    k1 = k1
    k2 = k2
    q1 = q1
    q2 = q2
    eth = eth
    sol = sol
    None = None
    Requests = {r1, r2, r3}
    Keys = {k1, k2}
    KeyOf <- KeyMap
    Quotes = {q1, q2}
    QuoteOf <- QuoteMap
    Owned = {r1, r2, r3}
    Chains = {eth, sol}
    ChainOf <- TwoWallets
    Amount <- Amounts
    Funds <- Balances
    PoolSize = 2
    MaxFaults = 1
    MaxLowered = 2
INVARIANTS
    TypeOK
    NoOversubscription
    ReservationsAddUp
    AnswersAgree
PROPERTIES
    ImplementsAtomicIntents
    RequestsEnd
    RetryQueuesIntent
CHECK_DEADLOCK FALSE
