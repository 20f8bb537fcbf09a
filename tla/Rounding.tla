------------------------------ MODULE Rounding ------------------------------
(***************************************************************************)
(* What the code does to numbers with Python's max, min and round.          *)
(***************************************************************************)
EXTENDS Integers

Larger(a, b)  == IF a >= b THEN a ELSE b
Smaller(a, b) == IF a =< b THEN a ELSE b

\* Python's round(n / d): to the nearest integer, ties to the even one.
Round(n, d) ==
    LET down == n \div d
        rest == 2 * (n % d)
    IN  IF rest > d \/ (rest = d /\ down % 2 = 1) THEN down + 1 ELSE down
=============================================================================
