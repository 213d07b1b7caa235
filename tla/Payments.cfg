CONSTANTS
    Orders = {"buy", "top"}
    TopUps = {"top"}
    Discounted = {}
    Price <- Prices
    Channels = {"manual"}
    Trades = {"t1", "t2", "t3"}
    Issuer <- Issuers
    Plugins = {"plugin"}
    Credits = {"credit"}
    Debits = {"debit"}
    Amount <- Amounts
    Lifetime = 1
SPECIFICATION Spec
INVARIANTS TypeOK WalletExplained PaidInFull HeldWhileOpen
PROPERTY ImplementsSettlement
CHECK_DEADLOCK FALSE
