------------------------- MODULE PaymentsApiContract -------------------------
(***************************************************************************)
(* What the billing client promises its callers (spec.md sections 4.1, 5   *)
(* and 7), stated without the client's await: a call takes effect on the   *)
(* backend and settles in one step, with the outcome the spec gives for    *)
(* the answer the backend sent. The spec's three-way disposition per       *)
(* endpoint (distinguished value, distinguished "empty but OK", failure)   *)
(* is the table ContractOutcome; its error taxonomy is {generic, conflict, *)
(* rate-limited, not-found-as-valid-state}.                                *)
(*                                                                         *)
(* Where section 4.1 does not name an endpoint's empty-but-OK answer       *)
(* (projectUsagePriceModel, the payment histories) the table follows the   *)
(* convention section 9 prefers: empty-but-OK yields a default or empty    *)
(* value. A body that is not JSON fails loudly (section 9), whatever the   *)
(* status, except where the spec says the body is not read.               *)
(***************************************************************************)
EXTENDS PaymentsBackend

CONSTANTS
    Calls,  \* identities of the callers' calls
    CallOps \* the operations callers may invoke

VARIABLES
    backend, \* the account as the backend holds it
    calls    \* calls[c]: [stage, op, arg, out]; stage idle, pending or done

vars == <<backend, calls>>

(* "success is 'response OK' with no payload" *)
PayloadFreeOps == {"addCreditCard", "removeCreditCard",
                   "makeCreditCardDefault", "purchasePricingPackage"}

(* Operations that hand back the decoded body itself, not a domain object. *)
RawOps == {"setupAccount", "pricingPackageAvailable"}

(* The answer to an OK response whose body is falsy. *)
EmptyButOk(op, arg) ==
    CASE op \in {"getBalance", "projectUsagePriceModel", "claimWallet"}
              -> Resolve("default", NullBody)
      [] op \in {"projectsUsageAndCharges", "listCreditCards",
                 "paymentsHistory", "nativePaymentsHistory"}
              -> Resolve("empty", NullBody)
      [] op = "getCoupon"       -> Resolve("null", NullBody)
      [] op \in RawOps          -> Resolve("raw", NullBody)
      [] op = "applyCouponCode" -> Reject("Error", arg)
      [] op = "getWallet"       -> Reject("Error", "getWallet")

(* The answer to a non-OK status. *)
Failed(op, arg, status) ==
    CASE op = "applyCouponCode" /\ status = 409 -> Reject("ErrorConflict", NoArg)
      [] op = "applyCouponCode" /\ status = 429 -> Reject("ErrorTooManyRequests", NoArg)
      [] op = "applyCouponCode"                 -> Reject("Error", arg)
      [] op = "getWallet" /\ status = 404       -> Resolve("default", NullBody)
      [] OTHER                                  -> Reject("Error", op)

ContractOutcome(op, arg, r) ==
    CASE r.status = 0                  -> Reject("TypeError", NoArg)
      [] r.status \notin 200..299      -> Failed(op, arg, r.status)
      [] op \in PayloadFreeOps         -> Resolve("void", NullBody)
      [] r.body.json = "html"          -> Reject("SyntaxError", NoArg)
      [] r.body.json = "null"          -> EmptyButOk(op, arg)
      [] op \in RawOps                 -> Resolve("raw", r.body)
      [] op = "nativePaymentsHistory" /\ ~r.body.payments
                                       -> Resolve("empty", NullBody)
      [] OTHER                         -> Resolve("decoded", r.body)

Idle == [stage |-> "idle", op |-> NoArg, arg |-> NoArg, out |-> Pending]

Init ==
    /\ backend = InitBackend
    /\ calls = [c \in Calls |-> Idle]

(* A caller invokes an operation. *)
Invoke(c) ==
    /\ calls[c].stage \in {"idle", "done"}
    /\ \E op \in CallOps, arg \in CardIds \cup Codes \cup {NoArg} :
          /\ arg \in Args(op)
          /\ calls' = [calls EXCEPT ![c] = [stage |-> "pending", op |-> op,
                                            arg |-> arg, out |-> Pending]]
    /\ UNCHANGED backend

(* The call takes effect and settles at once. *)
Perform(c) ==
    /\ calls[c].stage = "pending"
    /\ \E a \in Delivered(calls[c].op, calls[c].arg, backend) :
          /\ backend' = a.next
          /\ calls' = [calls EXCEPT ![c].stage = "done",
                         ![c].out = ContractOutcome(calls[c].op, calls[c].arg, a.resp)]

Next == \E c \in Calls : Invoke(c) \/ Perform(c)

Spec == Init /\ [][Next]_vars
=============================================================================
