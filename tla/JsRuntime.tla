------------------------------ MODULE JsRuntime ------------------------------
(***************************************************************************)
(* The parts of the JavaScript runtime the dashboard's value objects lean  *)
(* on: numbers with NaN, parseFloat of a string, and the time value of a   *)
(* Date built from the backend's RFC 3339 text. None of this is code of    *)
(* the repository; it is what the repository's getters call.              *)
(*                                                                         *)
(* A number is an extended rational [n, d]: d > 0 for a finite value n/d, *)
(* d = 0 for NaN (n = 0) and for +-Infinity (n = +-1). Doubles round;     *)
(* the values here are exact, which only matters where a property is      *)
(* about rounding, and none is.                                           *)
(*                                                                         *)
(* A string is a sequence of characters from Chars: two digits, the        *)
(* decimal point, the minus sign, a space, and "n" standing for any other  *)
(* character (the letters of "null", for instance). parseFloat is exact   *)
(* on this alphabet: it has no "e", "+" or "Infinity" for the grammar to   *)
(* take.                                                                   *)
(***************************************************************************)
EXTENDS Integers, Sequences, FiniteSets

Digits == {"0", "5"}
Chars == Digits \cup {".", "-", " ", "n"}
DigitVal(ch) == IF ch = "5" THEN 5 ELSE 0

(* Strings of at most k characters. *)
Strings(k) == UNION {[1..i -> Chars] : i \in 0..k}

Num(n, d) == [n |-> n, d |-> d]
NaN == Num(0, 0)
Infinity(sign) == Num(sign, 0)
IsFinite(x) == x.d # 0

(* x === y on numbers: NaN equals nothing, -0 equals 0. *)
StrictEq(x, y) == IsFinite(x) /\ IsFinite(y) /\ x.n * y.d = y.n * x.d


Plus(x, y) ==
    IF IsFinite(x) /\ IsFinite(y) THEN Num(x.n * y.d + y.n * x.d, x.d * y.d)
    ELSE NaN      \* no operand in this project is ever infinite

Div(x, y) ==
    CASE y.n = 0 /\ x.n = 0 -> NaN
      [] y.n = 0            -> Infinity(IF x.n > 0 THEN 1 ELSE -1)
      [] y.n > 0            -> Num(x.n * y.d, x.d * y.n)
      [] OTHER              -> Num(-x.n * y.d, -x.d * y.n)

Times(x, k) == IF IsFinite(x) THEN Num(x.n * k, x.d) ELSE x

(* x < y and x <= y for finite values; false when either is NaN. *)
Less(x, y) == IsFinite(x) /\ IsFinite(y) /\ x.n * y.d < y.n * x.d
AtMost(x, y) == Less(x, y) \/ StrictEq(x, y)

(***************************************************************************)
(* parseFloat (ECMA-262 sec. 19.2.4): skip leading white space, take an    *)
(* optional sign and the longest prefix that reads as a decimal literal;  *)
(* NaN if that prefix holds no digit. Written as the scanner the runtime  *)
(* runs, one character at a time.                                         *)
(***************************************************************************)
RECURSIVE SkipSpace(_)
SkipSpace(s) == IF s # <<>> /\ Head(s) = " " THEN SkipSpace(Tail(s)) ELSE s

RECURSIVE Scan(_, _)
Scan(s, st) ==
    IF s = <<>> THEN st
    ELSE LET ch == Head(s) IN
         IF ch \in Digits
         THEN Scan(Tail(s), [st EXCEPT !.n = 10 * @ + DigitVal(ch),
                                       !.d = IF st.frac THEN 10 * @ ELSE @,
                                       !.digit = TRUE])
         ELSE IF ch = "." /\ ~st.frac
              THEN Scan(Tail(s), [st EXCEPT !.frac = TRUE])
              ELSE st

ParseFloat(s) ==
    LET t   == SkipSpace(s)
        neg == t # <<>> /\ Head(t) = "-"
        st  == Scan(IF neg THEN Tail(t) ELSE t,
                    [n |-> 0, d |-> 1, frac |-> FALSE, digit |-> FALSE])
    IN  IF st.digit THEN Num(IF neg THEN -st.n ELSE st.n, st.d) ELSE NaN

(***************************************************************************)
(* A decimal literal: an optional minus sign, digits and at most one      *)
(* point, at least one digit.                                             *)
(***************************************************************************)
IsDecimal(p) ==
    LET body == IF p # <<>> /\ p[1] = "-" THEN Tail(p) ELSE p
    IN  /\ \A i \in DOMAIN body : body[i] \in Digits \cup {"."}
        /\ Cardinality({i \in DOMAIN body : body[i] = "."}) <= 1
        /\ \E i \in DOMAIN body : body[i] \in Digits

(***************************************************************************)
(* A Date's time value, from the RFC 3339 text Go writes for a time.Time: *)
(* days since 1970-01-01 in the proleptic Gregorian calendar, and seconds *)
(* into the day. Milliseconds would overflow TLC's integers; the pair     *)
(* orders the same way. An absent field gives an Invalid Date, whose time *)
(* value is NaN (InvalidTime).                                            *)
(***************************************************************************)
Leap(y) == (y % 4 = 0 /\ y % 100 # 0) \/ y % 400 = 0
DaysBeforeMonth == <<0, 31, 59, 90, 120, 151, 181, 212, 243, 273, 304, 334>>
DaysFromYearOne(y, m, d) ==
    365 * (y - 1) + (y - 1) \div 4 - (y - 1) \div 100 + (y - 1) \div 400
    + DaysBeforeMonth[m] + (IF m > 2 /\ Leap(y) THEN 1 ELSE 0) + d - 1

InvalidTime == [valid |-> FALSE, days |-> 0, secs |-> 0]

TimeValue(date) ==
    [valid |-> TRUE,
     days  |-> DaysFromYearOne(date.y, date.m, date.d) - DaysFromYearOne(1970, 1, 1),
     secs  |-> date.secs]

(* date.valueOf() > 0 and date.valueOf() !== 0 *)
TimePositive(t) == t.valid /\ (t.days > 0 \/ (t.days = 0 /\ t.secs > 0))
TimeNonZero(t) == ~t.valid \/ t.days # 0 \/ t.secs # 0
=============================================================================
