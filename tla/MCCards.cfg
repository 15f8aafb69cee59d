\* Credit cards: two concurrent calls of addCreditCard, removeCreditCard,
\* listCreditCards and makeCreditCardDefault; error pages may be HTML.
CONSTANTS
    Calls = {c1, c2}
    CardIds = {k1, k2}
    Codes = {p1}
    NoCard = NoCard
    NoCoupon = NoCoupon
    NoArg = NoArg
    ErrorBodies = {"json", "html"}
    AbsentWalletStatus = {404}
    CallOps <- CardOps
INIT Init
NEXT Next
INVARIANTS
    TypeOK
PROPERTIES
    ContractRefinement
