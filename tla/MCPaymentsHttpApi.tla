------------------------- MODULE MCPaymentsHttpApi -------------------------
(***************************************************************************)
(* Instantiates PaymentsHttpApi for TLC. The sets of calls, card ids and   *)
(* coupon codes are model values given in each .cfg; the operations the   *)
(* dashboard may invoke are chosen per run so that each run asks one       *)
(* question of one group of endpoints.                                     *)
(***************************************************************************)
EXTENDS PaymentsHttpApi

CouponWalletOps == {"applyCouponCode", "getCoupon", "getWallet", "claimWallet"}

CardOps == {"addCreditCard", "removeCreditCard", "listCreditCards",
            "makeCreditCardDefault"}

SetupOps == {"setupAccount"}

WalletOps == {"getWallet", "claimWallet"}

AccountOps == {"getBalance", "setupAccount", "projectsUsageAndCharges",
               "projectUsagePriceModel", "paymentsHistory",
               "nativePaymentsHistory", "purchasePricingPackage",
               "pricingPackageAvailable"}
=============================================================================
