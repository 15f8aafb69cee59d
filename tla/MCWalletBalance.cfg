\* Wallets built from the backend's JSON: is the balance a TokenAmount?
CONSTANTS
    FreeCreditsIn <- MCFreeCreditsIn
    CoinsIn <- MCCoinsIn
    CreditsIn <- MCCreditsIn
    CentsIn <- MCCentsIn
    DatesIn <- MCDatesIn
    PricesIn <- MCPricesIn
INIT Init
NEXT Next
CHECK_DEADLOCK FALSE
INVARIANT WalletBalanceIsTokenAmount
