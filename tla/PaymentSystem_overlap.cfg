SPECIFICATION Spec
CONSTANTS
    p1 = p1
    p2 = p2
    eth = eth
    sol = sol
    NoRun = NoRun
    Payments = {p1, p2}
    Chains = {eth}
    ChainOf <- OneWallet
    Amount <- Amounts
    Funds <- Balances
    MaxAttempts = 1
    MaxStalls = 0
    Concurrency = 1
    Expiring = {}
    MaxFaults = 1
    Pollers = {1, 2}
INVARIANTS
    SettledEventsAreDeducted
    DeductionsBounded
    PromisesCovered
PROPERTIES
    ConfirmedIsTerminal
CHECK_DEADLOCK FALSE
