---------------------------- MODULE WideNumbers ----------------------------
(***************************************************************************)
(* Natural numbers beyond the 32 bits of TLC, as sequences of digits to    *)
(* the base 2^12, the lowest first.                                        *)
(***************************************************************************)
EXTENDS Integers, Sequences, SequencesExt

LOCAL DigitBits == 12
LOCAL Base == 2^DigitBits
LOCAL DigitAt(x, i) == IF i \in DOMAIN x THEN x[i] ELSE 0

Wide(n) == <<n % Base, (n \div Base) % Base, n \div Base^2>>

\* The value of a number that is below 2^31.
Small(x) == FoldRight(LAMBDA digit, value : value * Base + digit, x, 0)

\* Sums or differences of digits become digits; the number is not negative.
LOCAL Carried(sums) ==
  FoldLeft(LAMBDA acc, sum : [digits |-> Append(acc.digits, (acc.carry + sum) % Base),
                              carry |-> (acc.carry + sum) \div Base],
           [digits |-> <<>>, carry |-> 0], sums).digits

Plus(x, y)  == Carried([i \in 1 .. Len(x) |-> x[i] + DigitAt(y, i)])
Minus(x, y) == Carried([i \in 1 .. Len(x) |-> x[i] - DigitAt(y, i)])

Times(x, y) ==
  LET column(k) == FoldLeft(LAMBDA sum, i : sum + x[i] * DigitAt(y, k + 1 - i), 0,
                            [i \in 1 .. Len(x) |-> i])
  IN  Carried([k \in 1 .. Len(x) + Len(y) |-> column(k)])

\* x without its lowest s bits.
Right(x, s) ==
  LET digits == s \div DigitBits
      bits == s % DigitBits
  IN  [i \in 1 .. Len(x) - digits |->
         x[i + digits] \div 2^bits + (DigitAt(x, i + digits + 1) % 2^bits) * 2^(DigitBits - bits)]
=============================================================================
