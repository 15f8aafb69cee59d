---------------------------- MODULE PaymentsTypes ----------------------------
(***************************************************************************)
(* The billing value objects of web/satellite/src/types/payments.ts and    *)
(* their derived getters, as the dashboard builds them from the backend's *)
(* JSON (web/satellite/src/api/payments.ts). A JSON field is a sequence   *)
(* of at most one value: << >> when the backend left it out, so that the  *)
(* constructor's default parameter applies, <<v>> otherwise.              *)
(*                                                                         *)
(* The initial state holds any JSON the backend may send; each action is *)
(* one construction from it, after which the object is only read. The     *)
(* properties relate the getters' results to what spec.md sections 3 and  *)
(* 8 say of them, over every input in the bounds.                          *)
(***************************************************************************)
EXTENDS JsRuntime

CONSTANTS
    FreeCreditsIn,  \* JSON numbers the backend sends as freeCredits
    CoinsIn,        \* strings it may send as coins, token values
    CreditsIn,      \* strings it may send as credits
    CentsIn,        \* amount/remaining pairs of a billing-history item
    DatesIn,        \* [y, m, d, secs] of the RFC 3339 texts sent as end
    PricesIn        \* JSON numbers, or null, the backend sends as a price

VARIABLES
    json,   \* the decoded JSON the client is about to build an object from
    made    \* the value object constructed last

(* A parameter with a default: the default when the argument is absent. *)
Arg(field, default) == IF field = << >> THEN default ELSE field[1]

Zero == Num(0, 1)

(* ---- AccountBalance (payments.ts 126-154) ---- *)

(* Mutant: no default for freeCredits, so an absent one is undefined. *)
AccountBalanceNoDefault(freeCredits, _coins, _credits) ==
    [class |-> "AccountBalance",
     freeCredits |-> IF freeCredits = << >> THEN NaN ELSE Num(freeCredits[1], 1),
     _coins |-> Arg(_coins, <<"0">>),
     _credits |-> Arg(_credits, <<"0">>)]

AccountBalance(freeCredits, _coins, _credits) ==
    [class |-> "AccountBalance",
     freeCredits |-> Num(Arg(freeCredits, 0), 1),
     _coins |-> Arg(_coins, <<"0">>),
     _credits |-> Arg(_credits, <<"0">>)]

(* Mutant: parseFloat(this._coins) || 0 *)
coinsOrZero(b) == IF IsFinite(ParseFloat(b._coins)) THEN ParseFloat(b._coins) ELSE Zero

coins(b) == ParseFloat(b._coins)

sum(b) == Plus(b.freeCredits, coins(b))

(* Mutant: this._credits !== '0' *)
hasCreditsByText(b) == b._credits # <<"0">>

hasCredits(b) == ~StrictEq(ParseFloat(b._credits), Zero)

(* ---- PaymentsHistoryItem (payments.ts 179-229), the fields read here ---- *)
PaymentsHistoryItem(amount, remaining, endDate) ==
    [class |-> "PaymentsHistoryItem",
     amount |-> Num(Arg(amount, 0), 1),
     remaining |-> Num(Arg(remaining, 0), 1),
     end |-> IF endDate = << >> THEN InvalidTime ELSE TimeValue(endDate[1])]

(* Mutant: this.end.valueOf() !== 0, the JavaScript epoch as sentinel *)
hasExpirationNonZero(i) == TimeNonZero(i.end)

hasExpiration(i) == TimePositive(i.end)

remainingAmountPercentage(i) ==
    IF StrictEq(i.amount, Zero) THEN Zero
    ELSE Times(Div(i.remaining, i.amount), 100)

(* ---- TokenAmount (payments.ts 423-432) ---- *)
TokenAmount(_value) ==
    [class |-> "TokenAmount", _value |-> Arg(_value, <<"0", ".", "0">>)]

value(t) == ParseFloat(t._value)

(* ---- Wallet (payments.ts 385-390) ---- *)
Wallet(address, balance) ==
    [class |-> "Wallet", balance |-> Arg(balance, TokenAmount(<< >>))]

(* ---- NativePaymentHistoryItem (payments.ts 395-406), its amounts ---- *)
(* Reading .value of an absent Amount or Received object throws.        *)
RowThrows(item) == item.Amount = << >> \/ item.Received = << >>

NativePaymentHistoryItem(item) ==
    [amount |-> TokenAmount(item.Amount[1].value),
     received |-> TokenAmount(item.Received[1].value)]

TypeError == [class |-> "TypeError"]

(* json.payments.map(item => new NativePaymentHistoryItem(..., new        *)
(* TokenAmount(item.Amount.value, ...), new TokenAmount(item.Received     *)
(* .value, ...), ...)): the first row that throws rejects the whole call. *)
NativeHistory(rows) ==
    IF \E i \in DOMAIN rows : RowThrows(rows[i]) THEN TypeError
    ELSE [class |-> "NativeHistory",
          items |-> [i \in DOMAIN rows |-> NativePaymentHistoryItem(rows[i])]]

(* ---- ProjectUsageAndCharges (payments.ts 309-330), its prices ---- *)
(* A JSON scalar as the constructor stores it: a number or null (a field *)
(* left out takes the default 0). + converts it with ToNumber.           *)
JsNumber(n) == [t |-> "number", n |-> n]
JsNull == [t |-> "null", n |-> 0]
ToNumber(v) == IF v.t = "number" THEN Num(v.n, 1) ELSE Zero

ProjectUsageAndCharges(storagePrice, egressPrice, segmentPrice) ==
    [class |-> "ProjectUsageAndCharges",
     storagePrice |-> Arg(storagePrice, JsNumber(0)),
     egressPrice |-> Arg(egressPrice, JsNumber(0)),
     segmentPrice |-> Arg(segmentPrice, JsNumber(0))]

summary(u) ==
    Plus(Plus(ToNumber(u.storagePrice), ToNumber(u.egressPrice)),
         ToNumber(u.segmentPrice))

(***************************************************************************)
(* Constructions, one per place the client builds the object from the    *)
(* JSON it received (json, consumed by the construction).                 *)
(***************************************************************************)
Consumed == [class |-> "none"]

(* getBalance: new AccountBalance(balance.freeCredits, balance.coins,     *)
(* balance.credits).                                                      *)
NewAccountBalance ==
    /\ json.class = "AccountBalance"
    /\ made' = AccountBalance(json.freeCredits, json.coins, json.credits)
    /\ json' = Consumed

(* paymentsHistory: new PaymentsHistoryItem(..., item.amount, ...,        *)
(* new Date(item.end), ..., item.remaining).                              *)
NewPaymentsHistoryItem ==
    /\ json.class = "PaymentsHistoryItem"
    /\ made' = PaymentsHistoryItem(json.amount, json.remaining, json.end)
    /\ json' = Consumed

(* getWallet and nativePaymentsHistory: new TokenAmount(x.value, ...).    *)
NewTokenAmount ==
    /\ json.class = "TokenAmount"
    /\ made' = TokenAmount(json.value)
    /\ json' = Consumed

(* getWallet and claimWallet: new Wallet(wallet.address, wallet.balance), *)
(* the balance as it came out of response.json().                        *)
NewWallet ==
    /\ json.class = "Wallet"
    /\ made' = Wallet(<< >>, json.balance)
    /\ json' = Consumed

(* nativePaymentsHistory: the rows of json.payments. *)
NewNativePaymentsHistory ==
    /\ json.class = "NativeHistory"
    /\ made' = NativeHistory(json.rows)
    /\ json' = Consumed

(* projectsUsageAndCharges: new ProjectUsageAndCharges(..., charge      *)
(* .storagePrice, charge.egressPrice, charge.segmentPrice) for a charge.  *)
NewProjectUsageAndCharges ==
    /\ json.class = "ProjectUsageAndCharges"
    /\ made' = ProjectUsageAndCharges(json.storagePrice, json.egressPrice,
                                      json.segmentPrice)
    /\ json' = Consumed

(* A JSON object as the decoder produces it: fields, no class. *)
JsonObject(v) == [class |-> "object", value |-> v]

(* A native payment row: Amount and Received each absent, or an object   *)
(* whose value field is absent or one of a few texts.                   *)
AmountObjects == {<< >>} \cup {<<[value |-> v]>> : v \in {<< >>, <<<<"5">>>>, <<<<"n">>>>}}
RowIn == [Amount : AmountObjects, Received : AmountObjects]
RowsIn == UNION {[1..n -> RowIn] : n \in 0..2}

JsonIn ==
    [class : {"AccountBalance"}, freeCredits : FreeCreditsIn,
     coins : CoinsIn, credits : CreditsIn]
    \cup {[class |-> "PaymentsHistoryItem", amount |-> c.amount,
           remaining |-> c.remaining, end |-> e] : c \in CentsIn, e \in DatesIn}
    \cup [class : {"TokenAmount"}, value : CoinsIn]
    \cup {[class |-> "Wallet", balance |-> b] :
            b \in {<< >>} \cup {<<JsonObject(v[1])>> : v \in CoinsIn \ {<< >>}}}
    \cup [class : {"NativeHistory"}, rows : RowsIn]
    \cup [class : {"ProjectUsageAndCharges"}, storagePrice : PricesIn,
          egressPrice : PricesIn, segmentPrice : PricesIn]

(* The object the client holds before it hears from the backend is the   *)
(* default AccountBalance of the store.                                   *)
Init ==
    /\ made = AccountBalance(<< >>, << >>, << >>)
    /\ json \in JsonIn

Next == \/ NewAccountBalance \/ NewPaymentsHistoryItem \/ NewTokenAmount
        \/ NewWallet \/ NewNativePaymentsHistory \/ NewProjectUsageAndCharges

vars == <<json, made>>

Spec == Init /\ [][Next]_vars

(***************************************************************************)
(* Properties                                                              *)
(***************************************************************************)

(* Every field holds a value of its declared type: the numbers are finite *)
(* (an absent number takes its default), the strings are strings.        *)
TypeOK ==
    \/ /\ made.class = "AccountBalance"
       /\ IsFinite(made.freeCredits)
       /\ made._coins \in Seq(Chars) /\ made._credits \in Seq(Chars)
    \/ /\ made.class = "PaymentsHistoryItem"
       /\ IsFinite(made.amount) /\ IsFinite(made.remaining)
       /\ made.end.valid \in BOOLEAN
    \/ made.class = "TokenAmount" /\ made._value \in Seq(Chars)
    \/ made.class = "Wallet" /\ made.balance.class \in {"TokenAmount", "object"}
    \/ made.class = "NativeHistory"
       /\ \A i \in DOMAIN made.items :
             {made.items[i].amount.class, made.items[i].received.class} = {"TokenAmount"}
    \/ made = TypeError
    \/ made.class = "ProjectUsageAndCharges"
       /\ {made.storagePrice.t, made.egressPrice.t, made.segmentPrice.t}
             \subseteq {"number", "null"}

(* Whether a text begins, after white space, with a number: an optional  *)
(* minus sign, then a digit, or a point followed by a digit.              *)
StartsWithNumber(s) ==
    \E i \in DOMAIN s :
        /\ \A j \in 1..(i - 1) : s[j] = " "
        /\ LET r == SubSeq(s, i, Len(s))
               u == IF r[1] = "-" THEN Tail(r) ELSE r
           IN  \/ u # << >> /\ u[1] \in Digits
               \/ Len(u) >= 2 /\ u[1] = "." /\ u[2] \in Digits

(* spec.md 8: a non-numeric coin string yields NaN, which propagates      *)
(* through sum rather than being zeroed. sum() is a finite number exactly *)
(* when the coins the backend sent (or the default "0") begin with a      *)
(* number, whatever follows it; a text that does not makes the balance    *)
(* NaN, and no finite balance hides it.                                   *)
SumNaNIffCoinsNotNumeric ==
    made.class = "AccountBalance" =>
        (IsFinite(sum(made)) <=> StartsWithNumber(made._coins))

(* hasCredits() holds exactly when the credits the backend sent are a     *)
(* non-zero amount: "0", "0.00", "-0" and an absent field all mean none.  *)
(* The test is on the parsed number, not on the text.                    *)
HasCreditsIffNonZero ==
    made.class = "AccountBalance" =>
        (hasCredits(made) <=>
            \E i \in DOMAIN made._credits : made._credits[i] \in Digits \ {"0"})

(* spec.md 4.2 and 8: hasExpiration reads Go's zero date (0001-01-01,     *)
(* sent when a coupon does not expire) as "no expiration" and every real  *)
(* date as an expiration; a missing end is no expiration either.          *)
GoZeroDate == [y |-> 1, m |-> 1, d |-> 1, secs |-> 0]

HasExpirationIffRealDate ==
    made.class = "PaymentsHistoryItem" =>
        (hasExpiration(made) <=> made.end.valid /\ made.end # TimeValue(GoZeroDate))

(* spec.md 3: a Wallet's balance is a TokenAmount, so that balance.value  *)
(* is the token amount as a number (the getter parses its string); on a   *)
(* plain JSON object it is the string the backend sent.                   *)
WalletBalanceIsTokenAmount ==
    made.class = "Wallet" => made.balance.class = "TokenAmount"
=============================================================================
