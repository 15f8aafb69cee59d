----------------------------- MODULE PaymentsApi -----------------------------
(***************************************************************************)
(* The PaymentsApi interface (web/satellite/src/types/payments.ts): the    *)
(* operations the dashboard may call, their arguments, the JSON bodies     *)
(* exchanged with the backend, and the outcomes their promises settle with.*)
(* Shared by the client (PaymentsHttpApi), its environment                 *)
(* (PaymentsBackend) and its contract (PaymentsApiContract).               *)
(***************************************************************************)
EXTENDS Naturals, FiniteSets

CONSTANTS
    CardIds,  \* ids the backend may give to credit cards
    Codes,    \* coupon promo codes a user may type
    NoCard, NoCoupon, NoArg

(* The sixteen operations of the PaymentsApi interface. *)
Ops == {"getBalance", "setupAccount", "projectsUsageAndCharges",
        "projectUsagePriceModel", "addCreditCard", "removeCreditCard",
        "listCreditCards", "makeCreditCardDefault", "paymentsHistory",
        "nativePaymentsHistory", "applyCouponCode", "getCoupon",
        "getWallet", "claimWallet", "purchasePricingPackage",
        "pricingPackageAvailable"}

(* The argument a caller passes: a card id, a coupon code, or nothing that *)
(* a property tells apart (a Stripe token, a date range).                 *)
Args(op) ==
    CASE op \in {"removeCreditCard", "makeCreditCardDefault"} -> CardIds
      [] op = "applyCouponCode"                                -> Codes
      [] OTHER                                                 -> {NoArg}

(* A card as GET /cards serialises it (id, isDefault; the rest is display).*)
CardRow == [id: CardIds, isDefault: BOOLEAN]

(* A body: "html" is not JSON, "null" a falsy JSON value, "value" an      *)
(* object or array; the other fields are the parts of it the client reads.*)
Body == [json: {"html", "null", "value"}, cards: SUBSET CardRow,
         coupon: Codes \cup {NoCoupon}, flag: BOOLEAN, payments: BOOLEAN]

NullBody  == [json |-> "null", cards |-> {}, coupon |-> NoCoupon,
              flag |-> FALSE, payments |-> FALSE]
ValueBody == [NullBody EXCEPT !.json = "value"]

Statuses == {0, 200, 404, 409, 429, 500}  \* 0: the fetch itself rejected
Response == [status: Statuses, body: Body]
NetworkError == [status |-> 0, body |-> NullBody]

(***************************************************************************)
(* Outcomes of a call: the promise resolves with a value of some kind, or  *)
(* rejects with an error of some class; msg is what the error names (the   *)
(* failed operation, or the coupon code for applyCouponCode).              *)
(***************************************************************************)
ResolveKinds == {"void", "decoded", "default", "empty", "null", "raw"}
RejectKinds  == {"Error", "ErrorConflict", "ErrorTooManyRequests",
                 "SyntaxError", "TypeError"}
Outcome ==
    [res: {"resolve"}, kind: ResolveKinds, msg: {NoArg}, body: Body]
    \cup [res: {"reject"}, kind: RejectKinds,
          msg: Ops \cup Codes \cup {NoArg}, body: {NullBody}]
Pending == [res |-> "pending", kind |-> NoArg, msg |-> NoArg, body |-> NullBody]

Resolve(kind, body) == [res |-> "resolve", kind |-> kind, msg |-> NoArg, body |-> body]
Reject(kind, msg)   == [res |-> "reject", kind |-> kind, msg |-> msg, body |-> NullBody]
=============================================================================
