SPECIFICATION FairSpec
CONSTANTS
    p1 = p1
    p2 = p2
    eth = eth
    sol = sol
    NoRun = NoRun
    Payments = {p1}
    Chains = {eth}
    ChainOf <- OneWallet
    Amount <- Amounts
    Funds <- Balances
    MaxAttempts = 1
    MaxStalls = 0
    Concurrency = 2
    Expiring = {}
    MaxFaults = 1
    Pollers = {1}
PROPERTIES
    ConfirmedIsReported
CHECK_DEADLOCK FALSE
