------------------------------- MODULE Decimal -------------------------------
(****************************************************************************)
(* lib-base's fixed-point numbers.  A Decimal is the natural number of      *)
(* parts, of which DIGITS make one.                                         *)
(****************************************************************************)
EXTENDS Integers

CONSTANTS
    DIGITS,     \* parts in one, 10^18 in the code
    INFINITY    \* the largest number, which stands for no number

ASSUME DecimalAssumption ==
    /\ DIGITS \in Nat \ {0}
    /\ INFINITY \in Nat

Positive(x) == IF x > 0 THEN x ELSE 0

DecimalMin(x, y) == IF x < y THEN x ELSE y

Mul(x, y) == (x * y) \div DIGITS

Div(x, y) == IF y = 0 THEN INFINITY ELSE (x * DIGITS) \div y

DivCeil(x, y) == IF y = 0 THEN INFINITY ELSE (x * DIGITS + y - 1) \div y

MulDiv(x, y, z) == IF z = 0 THEN INFINITY ELSE (x * y) \div z

RoundedMul(x, y) == (x * y + DIGITS \div 2) \div DIGITS

\* pow's loop: x is the base squared so far, y what the odd exponents took.
PowLoop[s \in [x : Nat, y : Nat, exponent : Nat]] ==
    IF s.exponent > 1
    THEN PowLoop[[x |-> RoundedMul(s.x, s.x),
                  y |-> IF s.exponent % 2 = 1 THEN RoundedMul(s.x, s.y) ELSE s.y,
                  exponent |-> s.exponent \div 2]]
    ELSE RoundedMul(s.x, s.y)

Pow(base, exponent) ==
    CASE exponent = 0 -> DIGITS
      [] exponent = 1 -> base
      [] OTHER -> PowLoop[[x |-> base, y |-> DIGITS, exponent |-> exponent]]
=============================================================================
