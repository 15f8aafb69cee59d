--------------------------- MODULE MCPaymentsTypes ---------------------------
(***************************************************************************)
(* Bounded inputs for PaymentsTypes: what the backend may put in each     *)
(* JSON field, the field left out (<< >>) included.                        *)
(***************************************************************************)
EXTENDS PaymentsTypes

Absent == {<< >>}

MCFreeCreditsIn == Absent \cup {<<0>>, <<5>>}

(* Any text of up to three characters: the coin balance and token values. *)
MCCoinsIn == Absent \cup {<<s>> : s \in Strings(3)}

(* Decimal texts of up to four characters, as Go's decimal type writes    *)
(* them ("0", "0.00", "-0.5", ...).                                       *)
MCCreditsIn == Absent \cup {<<s>> : s \in {t \in Strings(4) : IsDecimal(t)}}

(* Cents as Go ints, remaining never above amount. *)
Cents == Absent \cup {<<x>> : x \in 0..3}
MCCentsIn == {c \in [amount : Cents, remaining : Cents] :
                Arg(c.remaining, 0) <= Arg(c.amount, 0) \/ c.amount = << >>}

(* Go's zero date, real dates either side of a leap day, and a missing end. *)
MCDatesIn == Absent \cup {<<GoZeroDate>>} \cup
             {<<[y |-> y, m |-> m, d |-> 1, secs |-> s]>> :
                y \in {2019, 2024}, m \in {2, 3}, s \in {0, 1}}

(* A price left out, null, zero, or a positive or negative number of cents. *)
MCPricesIn == Absent \cup {<<JsNull>>} \cup {<<JsNumber(n)>> : n \in {-5, 0, 5}}
=============================================================================
