------------------------------ MODULE FixedDiv ------------------------------
(***************************************************************************)
(* hw/IPs/fixed_div.v: one bit of the quotient in a cycle.  Operands are   *)
(* in sign-magnitude form with Q fraction bits in N bits.                  *)
(***************************************************************************)
EXTENDS Integers

CONSTANTS N, Q

VARIABLES
  valid_i, opA_i, opB_i,
  compute_r, done_r, cnt_r, sign_r,
  aux_dividend_r, aux_divisor_r,
  aux_quotient_r, quotient_r

divRegs == <<compute_r, done_r, cnt_r, sign_r, aux_dividend_r, aux_divisor_r,
             aux_quotient_r, quotient_r>>

Magnitude(op) == op % 2^(N-1)
Sign(op) == op \div 2^(N-1)

Bits == N + Q   \* bits that the loop runs through

DivInit == /\ compute_r = FALSE /\ done_r = FALSE /\ cnt_r = 0 /\ sign_r = 0
           /\ aux_dividend_r = 0 /\ aux_divisor_r = 0
           /\ aux_quotient_r = 0 /\ quotient_r = 0

DivStart ==
  /\ valid_i /\ ~compute_r
  /\ compute_r' = TRUE /\ done_r' = FALSE
  /\ cnt_r' = Bits - 1
  /\ aux_quotient_r' = 0
  /\ aux_dividend_r' = Magnitude(opA_i) * 2^Q
  /\ aux_divisor_r' = Magnitude(opB_i) * 2^(Bits - 1)
  /\ sign_r' = (Sign(opA_i) + Sign(opB_i)) % 2
  /\ UNCHANGED quotient_r

\* A word with its bit i set.
SetBit(word, i) == IF (word \div 2^i) % 2 = 1 THEN word ELSE word + 2^i

\* Mutant: the divisor is subtracted only if it is smaller.
DivBitStrict ==
  IF aux_dividend_r > aux_divisor_r
  THEN /\ aux_quotient_r' = SetBit(aux_quotient_r, cnt_r)
       /\ aux_dividend_r' = aux_dividend_r - aux_divisor_r
  ELSE UNCHANGED <<aux_quotient_r, aux_dividend_r>>

DivBit ==
  IF aux_dividend_r >= aux_divisor_r
  THEN /\ aux_quotient_r' = SetBit(aux_quotient_r, cnt_r)
       /\ aux_dividend_r' = aux_dividend_r - aux_divisor_r
  ELSE UNCHANGED <<aux_quotient_r, aux_dividend_r>>

\* In the last cycle quotient_r takes the register as it was before this bit.
DivLoop ==
  /\ valid_i /\ compute_r /\ ~done_r
  /\ aux_divisor_r' = aux_divisor_r \div 2
  /\ cnt_r' = (cnt_r - 1) % 2^N
  /\ DivBit
  /\ done_r' = (cnt_r = 0)
  /\ quotient_r' = IF cnt_r = 0 THEN aux_quotient_r % 2^N ELSE quotient_r
  /\ UNCHANGED <<compute_r, sign_r>>

DivHold == valid_i /\ compute_r /\ done_r /\ UNCHANGED divRegs

DivOff == /\ ~valid_i
          /\ compute_r' = FALSE /\ done_r' = FALSE
          /\ UNCHANGED <<cnt_r, sign_r, aux_dividend_r, aux_divisor_r, aux_quotient_r, quotient_r>>

DivClock == DivStart \/ DivLoop \/ DivHold \/ DivOff
=============================================================================
