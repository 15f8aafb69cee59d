\* Account, usage, history and pricing-package endpoints: two concurrent
\* calls; the backend sends JSON error objects.
CONSTANTS
    Calls = {c1, c2}
    CardIds = {k1}
    Codes = {p1}
    NoCard = NoCard
    NoCoupon = NoCoupon
    NoArg = NoArg
    ErrorBodies = {"json"}
    AbsentWalletStatus = {404}
    CallOps <- AccountOps
INIT Init
NEXT Next
INVARIANTS
    TypeOK
PROPERTIES
    ContractRefinement
