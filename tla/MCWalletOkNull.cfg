\* getWallet and claimWallet against a backend that may report "no wallet
\* yet" to GET /wallet as OK with a null body (spec.md section 4.1).
CONSTANTS
    Calls = {c1, c2}
    CardIds = {k1}
    Codes = {p1, p2}
    NoCard = NoCard
    NoCoupon = NoCoupon
    NoArg = NoArg
    ErrorBodies = {"json"}
    AbsentWalletStatus = {404, 200}
    CallOps <- WalletOps
INIT Init
NEXT Next
INVARIANTS
    AbsentWalletIsNotFailure
