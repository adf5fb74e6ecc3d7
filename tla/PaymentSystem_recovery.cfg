SPECIFICATION FairSpec
CONSTANTS
    p1 = p1
    p2 = p2
    eth = eth
    sol = sol
    NoRun = NoRun
    Payments = {p1}
    Chains = {sol}
    ChainOf <- OneWallet
    Amount <- Amounts
    Funds <- Balances
    MaxAttempts = 2
    MaxStalls = 1
    Concurrency = 2
    Expiring = {sol}
    MaxFaults = 1
    Pollers = {1}
INVARIANTS
    TypeOK
    SettledIsFinal
    TransferHasAttempt
    TreasuryMatchesLedger
    TransfersBounded
    GivenUpIsUnpaid
    BooksClose
PROPERTIES
    KeepsPromise
    JobsFinish
    RecordedTransferIsConfirmed
    LandedTransferIsReported
CHECK_DEADLOCK FALSE
