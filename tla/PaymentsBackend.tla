-------------------------- MODULE PaymentsBackend --------------------------
(***************************************************************************)
(* The environment of the billing client: the satellite's REST backend     *)
(* under /api/v0/payments and the network between it and the browser.      *)
(* Neither is code of this repository (spec.md section 1 lists the backend *)
(* as an external collaborator), so nothing here is a translation of       *)
(* source lines: it is the set of answers the client must be ready for,    *)
(* taken from the responses spec.md section 4.1 enumerates per endpoint.   *)
(*                                                                         *)
(* A response is abstracted to its status and the fields of its JSON body  *)
(* that the client reads. Status 0 stands for a fetch that rejected        *)
(* (connection refused, or the answer lost after the server acted).        *)
(***************************************************************************)
EXTENDS PaymentsApi

CONSTANTS
    ErrorBodies,        \* bodies sent with a non-OK status: "json" error
                        \* objects, or "html" pages from a proxy
    AbsentWalletStatus  \* how the backend reports "no wallet yet" to
                        \* GET /wallet: 404, and/or 200 with a null body

ASSUME ErrorBodies # {} /\ ErrorBodies \subseteq {"json", "html"}
ASSUME AbsentWalletStatus # {} /\ AbsentWalletStatus \subseteq {404, 200}

(* What the backend keeps for the account. *)
Backend == [cards: SUBSET CardIds, default: CardIds \cup {NoCard},
            coupon: Codes \cup {NoCoupon}, wallet: BOOLEAN,
            account: BOOLEAN]

InitBackend == [cards |-> {}, default |-> NoCard, coupon |-> NoCoupon,
                wallet |-> FALSE, account |-> FALSE]

ErrorBody(k) == [NullBody EXCEPT !.json = IF k = "html" THEN "html" ELSE "value"]

Answer(s, b, next) == [resp |-> [status |-> s, body |-> b], next |-> next]

(* The backend failed the request, with no effect. *)
Failures(b) == {Answer(500, ErrorBody(k), b) : k \in ErrorBodies}

(* A read answered OK with a value, or with JSON null (a nil Go slice or  *)
(* pointer marshals to null).                                            *)
ReadAnswers(b) == {Answer(200, ValueBody, b), Answer(200, NullBody, b)}

CardsOf(b) == {[id |-> k, isDefault |-> k = b.default] : k \in b.cards}

(* The answers the backend may give to op(arg) in state b. *)
Answers(op, arg, b) == Failures(b) \cup
  CASE op \in {"getBalance", "projectsUsageAndCharges",
               "projectUsagePriceModel", "paymentsHistory"} ->
          ReadAnswers(b)
    [] op = "nativePaymentsHistory" ->
          ReadAnswers(b) \cup
          {Answer(200, [ValueBody EXCEPT !.payments = TRUE], b)}
    [] op = "setupAccount" ->
          {Answer(200, ValueBody, [b EXCEPT !.account = TRUE])}
    [] op = "addCreditCard" ->
          {Answer(200, NullBody,
                  [b EXCEPT !.cards = @ \cup {k},
                            !.default = IF @ = NoCard THEN k ELSE @]) :
             k \in CardIds \ b.cards}
    [] op = "removeCreditCard" /\ arg \in b.cards ->
          {Answer(200, NullBody,
                  [b EXCEPT !.cards = @ \ {arg},
                            !.default = IF @ = arg THEN NoCard ELSE @])}
    [] op = "makeCreditCardDefault" /\ arg \in b.cards ->
          {Answer(200, NullBody, [b EXCEPT !.default = arg])}
    [] op = "listCreditCards" ->
          {Answer(200, [ValueBody EXCEPT !.cards = CardsOf(b)], b)} \cup
          IF b.cards = {} THEN {Answer(200, NullBody, b)} ELSE {}
    [] op = "applyCouponCode" ->
          {Answer(429, ErrorBody("json"), b)} \cup
          IF b.coupon # NoCoupon
          THEN {Answer(409, ErrorBody("json"), b)}
          ELSE {Answer(200, [ValueBody EXCEPT !.coupon = arg],
                        [b EXCEPT !.coupon = arg])}
    [] op = "getCoupon" ->
          IF b.coupon = NoCoupon THEN {Answer(200, NullBody, b)}
          ELSE {Answer(200, [ValueBody EXCEPT !.coupon = b.coupon], b)}
    [] op = "getWallet" ->
          IF b.wallet THEN {Answer(200, ValueBody, b)}
          ELSE {IF s = 404 THEN Answer(404, ErrorBody("json"), b)
                           ELSE Answer(200, NullBody, b) :
                  s \in AbsentWalletStatus}
    [] op = "claimWallet" ->
          {Answer(200, bd, [b EXCEPT !.wallet = TRUE]) :
             bd \in {ValueBody, NullBody}}
    [] op = "pricingPackageAvailable" ->
          {Answer(200, [ValueBody EXCEPT !.flag = f], b) : f \in BOOLEAN}
    [] OTHER ->   \* purchasePricingPackage; remove/make default of an
                  \* unknown card, which the backend only fails
          IF op = "purchasePricingPackage" THEN {Answer(200, NullBody, b)}
          ELSE {}

(* What reaches the browser: the backend's answer; or a rejected fetch,    *)
(* either before the backend saw the request or after it acted on it.     *)
Delivered(op, arg, b) ==
    Answers(op, arg, b)
    \cup {[resp |-> NetworkError, next |-> a.next] : a \in Answers(op, arg, b)}
    \cup {[resp |-> NetworkError, next |-> b]}
=============================================================================
