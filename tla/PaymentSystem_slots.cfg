SPECIFICATION FairSpec
CONSTANTS
    p1 = p1
    p2 = p2
    eth = eth
    sol = sol
    NoRun = NoRun
    Payments = {p1, p2}
    Chains = {eth, sol}
    ChainOf <- TwoWallets
    Amount <- Amounts
    Funds <- Balances
    MaxAttempts = 1
    MaxStalls = 0
    Concurrency = 1
    Expiring = {sol}
    MaxFaults = 1
    Pollers = {1}
INVARIANTS
    TreasuryMatchesLedger
PROPERTIES
    JobsFinish
CHECK_DEADLOCK FALSE
