-------------------------- MODULE PaymentsHttpApi --------------------------
(***************************************************************************)
(* PaymentsHttpApi (web/satellite/src/api/payments.ts): the billing client *)
(* of the satellite dashboard. Each method builds a path, awaits the HTTP  *)
(* call, then inspects the status and the decoded body and resolves with   *)
(* a domain value or rejects with an error.                                *)
(*                                                                         *)
(* The dashboard may have several such calls in flight: each suspends at   *)
(* its await and resumes when its own response arrives, in any order. A    *)
(* call is therefore three steps: Issue (the caller invokes the method and *)
(* the request leaves), Serve (the backend acts and answers; environment), *)
(* Settle (the continuation after the await runs to its return or throw).  *)
(* Everything a method does after its await touches no shared state, so   *)
(* it is one atomic step.                                                  *)
(***************************************************************************)
EXTENDS PaymentsBackend

CONSTANTS
    Calls,  \* identities of the calls the dashboard makes (bounds the run)
    CallOps \* the operations the dashboard may invoke in this model

ASSUME CallOps # {} /\ CallOps \subseteq Ops

VARIABLES
    backend, \* the account as the backend holds it
    calls    \* calls[c]: one invocation of a PaymentsHttpApi method

vars == <<backend, calls>>

Call == [stage: {"idle", "sent", "answered", "settled"},
         op: CallOps \cup {NoArg}, arg: CardIds \cup Codes \cup {NoArg},
         resp: Response, seen: Backend, out: Outcome \cup {Pending}]

(* response.ok *)
Ok(r) == r.status \in 200..299

(* await response.json() followed by if (x): a non-JSON body rejects with *)
(* a SyntaxError, a falsy one takes the method's own falsy branch.        *)
DecodeBody(r, falsy) ==
    CASE r.body.json = "html" -> Reject("SyntaxError", NoArg)
      [] r.body.json = "null" -> falsy
      [] OTHER                -> Resolve("decoded", r.body)

(* if (!response.ok) throw new Error(...) *)
Checked(op, r, onOk) == IF Ok(r) THEN onOk ELSE Reject("Error", op)

(* The four methods with no payload: if (response.ok) return; throw. *)
VoidCall(op, r) == IF Ok(r) THEN Resolve("void", NullBody) ELSE Reject("Error", op)

getBalance(r) ==
    Checked("getBalance", r, DecodeBody(r, Resolve("default", NullBody)))

(* json() is awaited before response.ok is looked at. *)
setupAccount(r) ==
    CASE r.body.json = "html" -> Reject("SyntaxError", NoArg)
      [] Ok(r)                -> Resolve("raw", r.body)
      [] OTHER                -> Reject("Error", "setupAccount")

projectsUsageAndCharges(r) ==
    Checked("projectsUsageAndCharges", r, DecodeBody(r, Resolve("empty", NullBody)))

projectUsagePriceModel(r) ==
    Checked("projectUsagePriceModel", r, DecodeBody(r, Resolve("default", NullBody)))

addCreditCard(r) == VoidCall("addCreditCard", r)

(* Mutant: returns the error instead of throwing it. *)
removeCreditCardReturnsError(r) ==
    IF Ok(r) THEN Resolve("void", NullBody) ELSE Resolve("Error", NullBody)

removeCreditCard(r) == VoidCall("removeCreditCard", r)

(* Mutant: the if (creditCards) guard dropped; null.map throws. *)
listCreditCardsNoNullGuard(r) ==
    Checked("listCreditCards", r,
        IF r.body.json = "null" THEN Reject("TypeError", NoArg)
        ELSE DecodeBody(r, Resolve("empty", NullBody)))

(* Each row becomes a CreditCard with its id and isDefault copied. *)
listCreditCards(r) ==
    Checked("listCreditCards", r, DecodeBody(r, Resolve("empty", NullBody)))

makeCreditCardDefault(r) == VoidCall("makeCreditCardDefault", r)

paymentsHistory(r) ==
    Checked("paymentsHistory", r, DecodeBody(r, Resolve("empty", NullBody)))

(* Mutant: the if (json.payments) guard dropped; undefined.map throws. *)
nativePaymentsHistoryNoPaymentsGuard(r) ==
    Checked("nativePaymentsHistory", r,
        IF r.body.json = "value" /\ ~r.body.payments
        THEN Reject("TypeError", NoArg)
        ELSE DecodeBody(r, Resolve("empty", NullBody)))

(* if (!json) return []; if (json.payments) map; else []. *)
nativePaymentsHistory(r) ==
    Checked("nativePaymentsHistory", r,
        IF r.body.json = "value" /\ ~r.body.payments
        THEN Resolve("empty", NullBody)
        ELSE DecodeBody(r, Resolve("empty", NullBody)))

(* Mutant: the 409 and 429 cases of the switch swapped. *)
applyCouponCodeSwappedCases(code, r) ==
    IF ~Ok(r)
    THEN CASE r.status = 429 -> Reject("ErrorConflict", NoArg)
           [] r.status = 409 -> Reject("ErrorTooManyRequests", NoArg)
           [] OTHER          -> Reject("Error", code)
    ELSE DecodeBody(r, Reject("Error", code))

(* Mutant: the conflict error returned instead of thrown. *)
applyCouponCodeReturnsConflict(code, r) ==
    IF ~Ok(r)
    THEN CASE r.status = 409 -> Resolve("ErrorConflict", NullBody)
           [] r.status = 429 -> Reject("ErrorTooManyRequests", NoArg)
           [] OTHER          -> Reject("Error", code)
    ELSE DecodeBody(r, Reject("Error", code))

applyCouponCode(code, r) ==
    IF ~Ok(r)
    THEN CASE r.status = 409 -> Reject("ErrorConflict", NoArg)
           [] r.status = 429 -> Reject("ErrorTooManyRequests", NoArg)
           [] OTHER          -> Reject("Error", code)
    ELSE DecodeBody(r, Reject("Error", code))

(* Mutant: a failed request read as "no coupon". *)
getCouponFailureAsNull(r) ==
    IF Ok(r) THEN DecodeBody(r, Resolve("null", NullBody))
    ELSE Resolve("null", NullBody)

getCoupon(r) == Checked("getCoupon", r, DecodeBody(r, Resolve("null", NullBody)))

(* Mutant: every non-OK status read as "no wallet yet", not only 404. *)
getWalletAnyFailureAsAbsent(r) ==
    IF ~Ok(r) THEN Resolve("default", NullBody)
    ELSE DecodeBody(r, Reject("Error", "getWallet"))

getWallet(r) ==
    IF ~Ok(r)
    THEN IF r.status = 404 THEN Resolve("default", NullBody)
         ELSE Reject("Error", "getWallet")
    ELSE DecodeBody(r, Reject("Error", "getWallet"))

claimWallet(r) ==
    Checked("claimWallet", r, DecodeBody(r, Resolve("default", NullBody)))

(* Mutant: returns the error instead of throwing it. *)
purchasePricingPackageReturnsError(r) ==
    IF Ok(r) THEN Resolve("void", NullBody) ELSE Resolve("Error", NullBody)

purchasePricingPackage(r) == VoidCall("purchasePricingPackage", r)

(* return await response.json(): the body as decoded, unchecked. *)
pricingPackageAvailable(r) ==
    Checked("pricingPackageAvailable", r,
        IF r.body.json = "html" THEN Reject("SyntaxError", NoArg)
        ELSE Resolve("raw", r.body))

(* The method the caller invoked, run on the response it got. A rejected *)
(* fetch makes the awaited client call throw, whatever the method.       *)
Handle(op, arg, r) ==
    IF r.status = 0 THEN Reject("TypeError", NoArg)
    ELSE CASE op = "getBalance"              -> getBalance(r)
           [] op = "setupAccount"            -> setupAccount(r)
           [] op = "projectsUsageAndCharges" -> projectsUsageAndCharges(r)
           [] op = "projectUsagePriceModel"  -> projectUsagePriceModel(r)
           [] op = "addCreditCard"           -> addCreditCard(r)
           [] op = "removeCreditCard"        -> removeCreditCard(r)
           [] op = "listCreditCards"         -> listCreditCards(r)
           [] op = "makeCreditCardDefault"   -> makeCreditCardDefault(r)
           [] op = "paymentsHistory"         -> paymentsHistory(r)
           [] op = "nativePaymentsHistory"   -> nativePaymentsHistory(r)
           [] op = "applyCouponCode"         -> applyCouponCode(arg, r)
           [] op = "getCoupon"               -> getCoupon(r)
           [] op = "getWallet"               -> getWallet(r)
           [] op = "claimWallet"             -> claimWallet(r)
           [] op = "purchasePricingPackage"  -> purchasePricingPackage(r)
           [] op = "pricingPackageAvailable" -> pricingPackageAvailable(r)

Init ==
    /\ backend = InitBackend
    /\ calls = [c \in Calls |-> [stage |-> "idle", op |-> NoArg, arg |-> NoArg,
                                 resp |-> NetworkError, seen |-> InitBackend,
                                 out |-> Pending]]

(* The dashboard invokes a method (again, once its last call settled);   *)
(* the request leaves the browser.                                       *)
Issue(c) ==
    /\ calls[c].stage \in {"idle", "settled"}
    /\ \E op \in CallOps, arg \in CardIds \cup Codes \cup {NoArg} :
          /\ arg \in Args(op)
          /\ calls' = [calls EXCEPT ![c] = [stage |-> "sent", op |-> op,
                        arg |-> arg, resp |-> NetworkError,
                        seen |-> InitBackend, out |-> Pending]]
    /\ UNCHANGED backend

(* Environment: the backend acts on the request and answers, or the fetch *)
(* fails; seen records the account as the backend held it then.          *)
Serve(c) ==
    /\ calls[c].stage = "sent"
    /\ \E a \in Delivered(calls[c].op, calls[c].arg, backend) :
          /\ backend' = a.next
          /\ calls' = [calls EXCEPT ![c].stage = "answered", ![c].resp = a.resp,
                                    ![c].seen = backend]

(* The method's continuation after its await runs to return or throw. *)
Settle(c) ==
    /\ calls[c].stage = "answered"
    /\ calls' = [calls EXCEPT ![c].stage = "settled",
                   ![c].out = Handle(calls[c].op, calls[c].arg, calls[c].resp)]
    /\ UNCHANGED backend

Next == \E c \in Calls : Issue(c) \/ Serve(c) \/ Settle(c)

Spec == Init /\ [][Next]_vars

(***************************************************************************)
(* Properties                                                              *)
(***************************************************************************)

(* Every call record and the backend's account are well formed, and a     *)
(* settled call carries an outcome a promise of the API can settle with.  *)
TypeOK ==
    /\ backend \in Backend
    /\ calls \in [Calls -> Call]
    /\ \A c \in Calls : calls[c].stage = "settled" => calls[c].out \in Outcome

(***************************************************************************)
(* Refinement. Each call takes effect when the backend serves it: a call   *)
(* that was answered but has not settled yet is seen, in the contract, as  *)
(* already done with the outcome the contract gives for that answer. The   *)
(* Settle step must then leave the contract's view unchanged.             *)
(***************************************************************************)
ContractTable == INSTANCE PaymentsApiContract

ContractCalls ==
    [c \in Calls |->
        LET k == calls[c] IN
        [stage |-> CASE k.stage = "idle" -> "idle"
                     [] k.stage = "sent" -> "pending"
                     [] OTHER            -> "done",
         op |-> k.op, arg |-> k.arg,
         out |-> CASE k.stage = "answered" ->
                          ContractTable!ContractOutcome(k.op, k.arg, k.resp)
                   [] OTHER -> k.out]]

Contract == INSTANCE PaymentsApiContract WITH calls <- ContractCalls

(* Every call of the client, under every interleaving of in-flight calls  *)
(* and every answer of the backend, settles its promise the way spec.md   *)
(* section 4.1 says that endpoint must for that answer: the client's     *)
(* status checks, json() decoding and falsy-body branches implement the  *)
(* contract.                                                             *)
ContractRefinement == Contract!Spec

(***************************************************************************)
(* Absence versus failure (spec.md section 7: absence of data is           *)
(* distinguished from failure and must not be conflated).                  *)
(***************************************************************************)

Settled(c, op) == calls[c].stage = "settled" /\ calls[c].op = op

(* getCoupon resolving null, or getWallet resolving the default (empty    *)
(* address) wallet, tells the dashboard the user has no coupon or no      *)
(* wallet: that must be what the backend held when it served the call,    *)
(* never a backend failure, a 404 of some other kind or a lost answer     *)
(* read as absence (the 404 case of getWallet's switch, getCoupon's      *)
(* if (!coupon) return null).                                            *)
FailureNeverReportedAsAbsence ==
    \A c \in Calls :
        /\ Settled(c, "getCoupon") /\ calls[c].out.kind = "null"
              => calls[c].seen.coupon = NoCoupon
        /\ Settled(c, "getWallet") /\ calls[c].out.kind = "default"
              => ~calls[c].seen.wallet

(* When the backend had no wallet for the user and did not itself fail    *)
(* (it answered 404 or OK), getWallet reports absence, not an error.     *)
AbsentWalletIsNotFailure ==
    \A c \in Calls :
        Settled(c, "getWallet") /\ ~calls[c].seen.wallet
        /\ calls[c].resp.status \in {200, 404}
            => calls[c].out.res = "resolve"

(* applyCouponCode reports ErrorConflict only when the account already    *)
(* had an active coupon when the backend served it, and resolves only    *)
(* when it had none, with the coupon the user typed: the 409 and 429     *)
(* cases of its switch and the decoding of the new coupon.              *)
CouponApplyMatchesAccount ==
    \A c \in Calls :
        Settled(c, "applyCouponCode") =>
            /\ calls[c].out.kind = "ErrorConflict"
                  => calls[c].seen.coupon # NoCoupon
            /\ calls[c].out.res = "resolve"
                  => /\ calls[c].seen.coupon = NoCoupon
                     /\ calls[c].out.body.coupon = calls[c].arg
=============================================================================
