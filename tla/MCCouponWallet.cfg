\* Coupons and the token wallet: two concurrent calls of applyCouponCode,
\* getCoupon, getWallet and claimWallet against one account.
CONSTANTS
    Calls = {c1, c2}
    CardIds = {k1}
    Codes = {p1, p2}
    NoCard = NoCard
    NoCoupon = NoCoupon
    NoArg = NoArg
    ErrorBodies = {"json"}
    AbsentWalletStatus = {404}
    CallOps <- CouponWalletOps
INIT Init
NEXT Next
INVARIANTS
    TypeOK
    FailureNeverReportedAsAbsence
    CouponApplyMatchesAccount
PROPERTIES
    ContractRefinement
