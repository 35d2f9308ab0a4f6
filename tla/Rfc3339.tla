------------------------------ MODULE Rfc3339 ------------------------------
(***************************************************************************)
(* How chrono prints an instant (to_rfc3339) and how SQLite compares the   *)
(* resulting TEXT.  External code, modelled from its use in sqlite.rs.     *)
(*                                                                         *)
(* What matters for the order of the texts is kept: the fraction of a      *)
(* second is left out when it is zero and is printed with as few groups of *)
(* digits as it needs, the offset "+00:00" follows, and a year past 9999   *)
(* is printed with a leading "+" and more digits.  The scale is reduced: a *)
(* group is one digit in base Base, a fraction has two groups, and         *)
(* Base seconds stand for the years up to 9999.                            *)
(***************************************************************************)
EXTENDS Naturals, Sequences

CONSTANT Base

ASSUME BaseAssumption == Base \in Nat /\ Base > 1

\* Characters in the order of their bytes: "+" before "." before the digits
\* before "Z".
Plus == 0
Dot == 1
Digit(d) == 2 + d
Zed == 2 + Base

Second == Base * Base

\* The first instant of the year 10000.
Year10000 == Base * Second

Fraction(f) ==
    IF f = 0 THEN <<>>
    ELSE IF f % Base = 0 THEN <<Dot, Digit(f \div Base)>>
    ELSE <<Dot, Digit(f \div Base), Digit(f % Base)>>

Date(s) ==
    IF s < Base THEN <<Digit(s)>>
    ELSE <<Plus, Digit(s \div Base), Digit(s % Base)>>

\* Mutant of ToRfc3339: "Z" for a zero offset, as to_rfc3339_opts prints it.
ToRfc3339WithZ(i) == Date(i \div Second) \o Fraction(i % Second) \o <<Zed>>

ToRfc3339(i) == Date(i \div Second) \o Fraction(i % Second) \o <<Plus>>

\* The BINARY collation: bytewise, a proper prefix first.
TextLeq(a, b) ==
    \/ a = b
    \/ \E k \in 1 .. Len(a) + 1 :
        /\ k <= Len(b)
        /\ \A j \in 1 .. k - 1 : a[j] = b[j]
        /\ k = Len(a) + 1 \/ (k <= Len(a) /\ a[k] < b[k])

\* parse_from_rfc3339 takes a year of four digits.
Parses(i) == i < Year10000
=============================================================================
