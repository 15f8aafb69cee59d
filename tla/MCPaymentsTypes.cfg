\* Value objects: every construction from the bounded JSON inputs.
CONSTANTS
    FreeCreditsIn <- MCFreeCreditsIn
    CoinsIn <- MCCoinsIn
    CreditsIn <- MCCreditsIn
    CentsIn <- MCCentsIn
    DatesIn <- MCDatesIn
    PricesIn <- MCPricesIn
INIT Init
NEXT Next
INVARIANTS
    TypeOK
    SumNaNIffCoinsNotNumeric
    HasCreditsIffNonZero
    HasExpirationIffRealDate
CHECK_DEADLOCK FALSE
