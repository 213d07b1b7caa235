CONSTANTS
    Orders = {"o"}
    TopUps = {}
    Discounted = {"o"}
    Price <- Prices
    Channels = {"manual"}
    Trades = {"t"}
    Issuer <- Issuers
    Plugins = {}
    Credits = {"c"}
    Debits = {}
    Amount <- Amounts
    Lifetime = 2
    Workers = {"w1", "w2"}
    Stock = 1
    LeaseTime = 1
    RetryDelay = 1
    ConfirmDelay = 1
    MaxFaults = 2
SPECIFICATION FairRedemptionSpec
INVARIANT HoldKept
PROPERTY HoldsSettle
CHECK_DEADLOCK FALSE
