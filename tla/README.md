# TLA+ models of the Storx satellite billing client

This directory holds TLA+ models of the code under `src/`, the TLC
configurations that check them, and `PROJECT.json`, which lists the
components, runs, mutants, source map, findings and hazards.

## 1. Inventory

The repository is thin. The code with behaviour worth checking is the
satellite dashboard's billing client, its value objects, the user types'
edit-and-validate methods, and the installer's command-line parser.

| Component | Source | State | Operations |
|---|---|---|---|
| `PaymentsHttpApi`, the billing HTTP client | `web/satellite/src/api/payments.ts` | None of its own. It holds an `HttpClient` and a root path. Every call builds its own objects. | 16 async methods. Each one: build path → `await` HTTP call → check status → `await response.json()` → decode, default or throw |
| `PaymentsApi` interface | `web/satellite/src/types/payments.ts` 9-124 | – | the same 16 operations |
| Domain value objects | `types/payments.ts` 126-443 | fields copied from JSON; `CreditCard.isSelected` is a UI flag | derived getters: `AccountBalance.coins/sum/hasCredits`, `PaymentsHistoryItem.remainingAmountPercentage/hasExpiration/quantity/label`, `ProjectUsageAndCharges.summary`, `TokenAmount.value`, `formattedStatus/Type` |
| User types | `types/users.ts` | fields | `User.createdAt`, `getFullName`, `UpdatedUser.setFullName/setShortName/isValid` |
| Other type declarations | `types/common.ts`, `browser.ts`, `plugins.ts`, `storagenode/.../svg.d.ts` | – | enums and declarations only |
| Installer `ExtractInstallDir` | only its tests: `installer/windows/StorxTests/ExtractInstallDirTests.cs` | – | one pure string parser (spec.md 4.3) |
| Test doubles and snapshot tests | `tests/unit/**` | – | – |
| REST backend and network | external (not in the repository) | the account: cards, default card, coupon, wallet | answers requests |

**Interaction.** Vue components and the store call the `PaymentsApi`
methods. Neither is in the repository. Each call suspends at `await
this.client.<verb>(path)` and again at `await response.json()`. While it is
suspended, other calls can start, and responses can arrive in any order.
The client keeps no shared mutable state, so the only interaction between
calls goes through the backend's account. Two calls can affect each other
only through what the backend did when it served each request.

**What is hard here.**
- The three-way result of each endpoint: a distinguished value, a
  distinguished "empty but OK", or a failure. Each endpoint also maps HTTP
  statuses to its own error classes (409 → `ErrorConflict`, 429 →
  `ErrorTooManyRequests`, 404 on `/wallet` → "no wallet yet").
- Absence (no coupon, no wallet) must stay distinct from failure.
- Concurrent calls race against the backend's state. For example, two
  `applyCouponCode` calls, or a list that arrives after a removal.
- Lost answers. A fetch can reject after the backend has already acted on
  the request.
- The order of steps inside a method: `setupAccount` decodes the body
  before it checks the status.
- Numeric edges in the value objects: `parseFloat` returning NaN, a
  division with no clamp, and the zero-date sentinel.

**What makes each component correct.**
- **Client:** every method settles as spec.md 4.1 says for every answer
  the backend can give. Absence is never reported as failure, and failure
  is never reported as absence. A conflict is reported only when a coupon
  is active.
- **Value objects:** `sum = freeCredits + coins`, with NaN propagating.
  `hasCredits` reads the parsed number. `hasExpiration` reads Go's zero
  date as "no expiration".

## 2. Modules

| Module | Models | Notes |
|---|---|---|
| `PaymentsApi` | the interface: `Ops`, `Args`, the `CreditCard` row, the JSON body abstraction, promise outcomes | shared vocabulary |
| `PaymentsBackend` | **environment**, not code of this repository: the answers spec.md 4.1 lists for each endpoint, consistent with the account state, plus fetches rejected before or after the backend acted | `Answers`, `Delivered` |
| `PaymentsHttpApi` | the client. One operator per method (`getBalance` … `pricingPackageAvailable`), each a translation of that method's code after its first `await`. Actions: `Issue` (a method is invoked and its request leaves), `Serve` (environment: the backend acts and answers, or the fetch fails), `Settle` (the method's continuation runs to its return or throw, via `Handle`) | variables `backend`, `calls` |
| `PaymentsApiContract` | abstract spec from spec.md 4.1, 5 and 7. A call takes effect and settles in one atomic step (`Perform`), with the outcome in the table `ContractOutcome` | refined by `PaymentsHttpApi` |
| `MCPaymentsHttpApi` | TLC instance: the operation groups each run uses | |
| `JsRuntime` | **the JavaScript runtime** the getters call, not code of this repository: numbers as extended rationals (NaN, ±Infinity), `parseFloat` as the runtime's scanner, and a `Date`'s time value from Go's RFC 3339 text (days since the epoch, seconds into the day) | unmapped |
| `PaymentsTypes` | the value objects: constructors with their default parameters (`Arg`), `coins`, `sum`, `hasCredits`, `hasExpiration`, `remainingAmountPercentage`, `TokenAmount.value`, `Wallet`. Actions: one construction per place the client builds the object (`NewAccountBalance`, `NewPaymentsHistoryItem`, `NewTokenAmount`, `NewWallet`, `NewProjectUsageAndCharges` with `ProjectUsageAndCharges` and `summary`, `NewNativePaymentsHistory`, the last with `NativePaymentHistoryItem` and `NativeHistory`, the rows' `map`) from the JSON held in `json` | variables `json`, `made` |
| `MCPaymentsTypes` | bounded JSON inputs | |
| `Users` | `User` (constructor, `createdAt`, `getFullName`) and `UpdatedUser` (constructor, `setFullName`, `setShortName`, `isValid`), with `Trim`. Actions: `OpenForm`, `SetFullName`, `SetShortName`, `Submit`, `Cancel`; the form component and `UsersApi.update` are the environment | variables `user`, `form` |
| `MCUsers` | bounded typed texts | |
| `Installer` | `ExtractInstallDir`, written from spec.md 4.3 (its C# source is not in the repository; only its tests are): `AfterFlag`, `QuotedArg`. Action `Extract` runs it once on the command line in `serviceCmd`. No run checks it: with no source, a property could only restate the module's own definitions | spec-modelled, unchecked |
| `MCInstaller` | bounded directories and executable prefixes | |

**How state and actions correspond to the code.**
- `calls[c]` is one invocation: `stage`, `op`, `arg`, the response it
  got (`resp`), the account as the backend held it when it served the call
  (`seen`, a history variable), and the settled outcome `out`.
- An outcome is either `resolve` with a kind (`void`, `decoded`,
  `default`, `empty`, `null`, `raw`), or `reject` with an error class
  (`Error`, `ErrorConflict`, `ErrorTooManyRequests`, `SyntaxError` from
  `json()`, `TypeError` from a rejected fetch). `msg` is what the error
  names. For `applyCouponCode`'s generic error, that is the coupon code.
- A response body is abstracted to:
  - `html`: not JSON, so `json()` throws;
  - `null`: falsy JSON, which Go sends for nil slices and pointers;
  - `value`: with the fields the client reads (cards, coupon, flag,
    `payments`).
- Everything a method does after the fetch resolves touches only local
  objects. So the two awaits of a method are one `Settle` step. No other
  call can observe the state between them.
- Field-copying constructors (`new CreditCard(...)`, `new Coupon(...)`)
  copy the body's fields into the outcome.

**Refinement.** `ContractRefinement` checks `PaymentsApiContract!Spec`
under a mapping. In the contract, a call takes effect when the backend
serves it. A call that has been answered but has not settled yet maps to
"done", with the outcome the contract gives for that answer. The client's
`Settle` must then be a stuttering step of the contract, so the code's
outcome must equal the contract's outcome. This checks all sixteen
dispositions, under every interleaving and every answer.

**Value objects.** A JSON field is a sequence of at most one value: `<< >>`
when the backend left it out, which is when a TypeScript default parameter
applies. A string is a sequence of characters from a six-letter alphabet
(`0`, `5`, `.`, `-`, space, and `n` for any other character). On that
alphabet `parseFloat` has no exponent or `Infinity` to read, so the scanner
is exact. Numbers are exact rationals: no property here is about rounding.
A `Date` keeps only its time value, so `hasExpiration` compares the same
number the code compares.

**Users.** The user as fetched has trimmed names and a non-blank full name,
as a previous submission of the form leaves them. The form can be opened,
edited in any order, cancelled, or submitted when `isValid()` holds.

## 3. Runs

| Run | Config | Calls / values | Checks | Result |
|---|---|---|---|---|
| coupon_wallet | `MCCouponWallet.cfg` | 2 calls; `applyCouponCode`, `getCoupon`, `getWallet`, `claimWallet`; codes {p1,p2} | `TypeOK`, `FailureNeverReportedAsAbsence`, `CouponApplyMatchesAccount`, `ContractRefinement` | pass, 36k states |
| cards | `MCCards.cfg` | 2 calls; the 4 card methods; cards {k1,k2}; JSON and HTML error bodies | `TypeOK`, `ContractRefinement` | pass, 225k states |
| account | `MCAccount.cfg` | 2 calls; the 8 other methods; JSON error bodies | `TypeOK`, `ContractRefinement` | pass, 19k states |
| setup_html_error | `MCSetupHtmlError.cfg` | `setupAccount`; HTML error bodies allowed | `ContractRefinement` | **violation** |
| wallet_ok_null | `MCWalletOkNull.cfg` | `getWallet`, `claimWallet`; "no wallet" may come back as 200 + null | `AbsentWalletIsNotFailure` | **violation** |
| value_objects | `MCPaymentsTypes.cfg` | every text of ≤ 3 characters as coins or token value; every decimal text of ≤ 4 characters as credits; amounts 0..3 with remaining ≤ amount; Go's zero date, four real dates at 00:00:00 and 00:00:01, a missing end; each field also absent; native payment lists of 0 to 2 rows whose `Amount` and `Received` are each absent, an object without `value`, or one with "5" or "n"; charges whose three prices are each left out, null, -5, 0 or 5 | `TypeOK`, `SumNaNIffCoinsNotNumeric`, `HasCreditsIffNonZero`, `HasExpirationIffRealDate` | pass, 142k states |
| wallet_balance | `MCWalletBalance.cfg` | the same inputs | `WalletBalanceIsTokenAmount` | **violation** |
| profile_edit | `MCUsers.cfg` | every text of ≤ 3 letters and spaces typed into either field; `createdAt` null, empty, a date or not a date | `TypeOK`, `DisplayedNameNotBlank` | pass, 2k states |

What the new passing runs show:
- `SumNaNIffCoinsNotNumeric`: `sum` is finite exactly when the coin text
  (or the default `"0"`) begins, after white space, with a number; any
  other text makes the balance NaN (spec.md 8). The reading of the text is
  stated character by character, not by the scanner the code calls.
  Zeroing NaN (`parseFloat(x) || 0`) breaks it.
- `HasCreditsIffNonZero`: `"0"`, `"0.00"`, `"-0"`, `"0."` and an absent
  field mean no credits; any non-zero digit means credits. Comparing the
  text with `'0'` breaks it.
- `HasExpirationIffRealDate`: Go's zero date and a missing end are "no
  expiration", every real date is one. The epoch test `!== 0` the
  comment warns against reads the zero date as an expiration.
- `DisplayedNameNotBlank`: after any edit sequence, `getFullName()` is
  not blank. An untrimmed short name of spaces breaks it.

**Bounds.** Two concurrent calls are enough for each race:
- apply against apply (409);
- apply against get;
- claim against get;
- add or remove against list or make-default.

Calls are recycled once they settle, so each behaviour can contain any
number of calls. Two card ids are enough for "the default card is
removed" and "make default another card". Two codes tell "the coupon
applied" apart from "another coupon". A run with three calls and HTML
error bodies took 9M states and 7 minutes, and found nothing new: each
continuation is a function of its own response, so a third call reaches no
answer two calls cannot.

Coin texts of three characters already hold every shape `parseFloat`
tells apart: leading spaces, a sign, a point before, inside or after the
digits, and junk after a number. Credits need four characters for
`"0.00"` and `"-0.5"`.

**Deadlock** is checked for the client and for `profile_edit`: a settled
call can always be issued again, and a closed form can always be opened.
`value_objects` and `wallet_balance` set `CHECK_DEADLOCK FALSE`. Each
builds one object from the input in the initial state, and then stops, as
the code does.

**Fairness.** None is assumed, and no liveness property is checked.
Settling an answered call is one step of the browser's event loop, and
spec.md 5 says no timeouts are implemented, so a request the backend never
answers stays pending. That holds alike for every method and no one
claims otherwise, so there is nothing eventual left to check.

## 4. Findings

- **setupAccount reads the body before the status** (`payments.ts:60`).
  A failed setup whose body is not JSON, such as a proxy's HTML error
  page, rejects with the parser's `SyntaxError`. The spec promises the
  method's own generic error. With JSON error bodies the method meets the
  contract (run `account`).
- **getWallet treats OK + null as failure** (`payments.ts:360`). This
  conflates "no wallet" with "backend failed", which spec.md 7 forbids.
  spec.md 9 leaves it as an open question. The run assumes the backend
  may answer "no wallet" that way, as spec.md 4.1 lists. With a backend
  that only uses 404, the client is correct (run `coupon_wallet`).

- **getWallet and claimWallet store the raw balance object**
  (`payments.ts:357`, `:379`). `new Wallet(wallet.address,
  wallet.balance)` passes the decoded JSON object where a `TokenAmount` is
  declared. `balance.value` is then the backend's string, not the parsed
  number that spec.md 3 promises. Only the default `Wallet` (404, or a
  null body from `claimWallet`) holds a real `TokenAmount`. Run
  `wallet_balance` finds it in one step.

## 5. Not modelled, and the plan

Modelled: the client, its environment, the contract and the refinement;
the value objects; the user types.

Not modelled, and why:
- The display getters: `formattedCredits`, `formattedStatus`,
  `formattedType`, `linkName`, `label`, `quantity`, `formattedStart`. They
  are formatting, and no property is about text.
- Classes that only copy fields: `Coupon`, `DateRange`, `TokenDeposit`,
  `PaymentAmountOption`, `ProjectUsagePriceModel`, `DisableMFARequest`,
  `TokenInfo`, and the type declarations in `common.ts`, `browser.ts` and
  `plugins.ts`.
- What the dashboard does with a card list answered before a removal and
  delivered after it (`payments.ts:171`). The client passes the backend's
  answer through, and spec.md 5 promises no order across calls; the store
  that decides is not in the repository.
- `remainingAmountPercentage` above 100. The division is unclamped, but
  only a backend sending remaining above amount reaches it, and the
  backend is not in the repository. Over remaining <= amount a property
  would only restate the `amount === 0` guard.
- `NativeHistory` and `ProjectUsageAndCharges.summary` are modelled and
  type-checked; a property of either would only restate its definition.
- The installer's `ExtractInstallDir`: its C# source is not in the
  repository. `Installer.tla` records spec.md 4.3, and no run checks it.

Possible next steps:
1. Epoch and pre-epoch expiry dates, should the backend ever send them:
   `hasExpiration` reads both as "no expiration".

Out of reach or out of scope:
- Vue components and the store: they are not in the repository.
- The backend's business logic: it is external and is modelled only as
  the environment.
- Formatting and display strings.
