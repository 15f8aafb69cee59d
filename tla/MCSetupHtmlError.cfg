\* setupAccount alone, against a backend (or a proxy in front of it) that
\* may answer a failed request with an HTML error page.
CONSTANTS
    Calls = {c1}
    CardIds = {k1}
    Codes = {p1}
    NoCard = NoCard
    NoCoupon = NoCoupon
    NoArg = NoArg
    ErrorBodies = {"json", "html"}
    AbsentWalletStatus = {404}
    CallOps <- SetupOps
INIT Init
NEXT Next
PROPERTIES
    ContractRefinement
