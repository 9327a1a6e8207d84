----------------------------- MODULE FixedUnits -----------------------------
(***************************************************************************)
(* The arithmetic units side by side, fed with the same operands.  The     *)
(* environment is what their places in thetaCos, thetaSin and              *)
(* cordicManager make of it: operands are held while valid is up, valid    *)
(* stays low for at least MinGap cycles (UnitsRest of TableUpdate), and    *)
(* may fall before the result is ready.                                    *)
(***************************************************************************)
EXTENDS HandshakeUnit

CONSTANTS
  N, Q,          \* bits of an operand, fraction bits
  FirstOperands, NextOperands,   \* pairs of operands for the first result, for later ones
  MinGap         \* least number of cycles with valid low

ASSUME UnitsAssumption ==
  /\ N \in Nat /\ Q \in Nat /\ Q < N /\ Q % 2 = 0 /\ N % 2 = 0
  /\ FirstOperands \cup NextOperands \subseteq (0 .. 2^N - 1) \X (0 .. 2^N - 1)
  /\ MinGap \in Nat \ {0}

VARIABLES
  valid_i, opA_i, opB_i, low,    \* low: cycles valid has been low, up to MinGap
  div_compute_r, div_done_r, cnt_r, sign_r, aux_dividend_r, aux_divisor_r,
  aux_quotient_r, quotient_r,
  busy_r, mul_ready_r, mult_it_r, opA_r, opB_r, mul_result_r,
  sqrt_compute_r, sqrt_done_r, iterator_r, auxRoot_r, acc_r, radCpy_r,
  sub_result_r, sub_ready_r

Div == INSTANCE FixedDiv WITH compute_r <- div_compute_r, done_r <- div_done_r
Mul == INSTANCE FixedMul WITH ready_r <- mul_ready_r, result_r <- mul_result_r
Sqrt == INSTANCE FixedSqrt WITH compute_r <- sqrt_compute_r, done_r <- sqrt_done_r
Sub == INSTANCE FixedSub WITH result_r <- sub_result_r, ready_r <- sub_ready_r

inputs == <<valid_i, opA_i, opB_i, low>>
fuvars == <<inputs, Div!divRegs, Mul!mulRegs, Sqrt!sqrtRegs, Sub!subRegs>>

Init == /\ valid_i = FALSE /\ low = MinGap
        /\ \E operand \in FirstOperands : opA_i = operand[1] /\ opB_i = operand[2]
        /\ Div!DivInit /\ Mul!MulInit /\ Sqrt!SqrtInit /\ Sub!SubInit

NewOperands == \E operand \in NextOperands : opA_i' = operand[1] /\ opB_i' = operand[2]

\* Operands may change until the edge at which valid rises.
Rise == /\ ~valid_i /\ low = MinGap
        /\ valid_i' = TRUE /\ low' = 0
        /\ NewOperands \/ UNCHANGED <<opA_i, opB_i>>

StayLow == /\ ~valid_i
           /\ valid_i' = FALSE /\ low' = IF low < MinGap THEN low + 1 ELSE low
           /\ NewOperands \/ UNCHANGED <<opA_i, opB_i>>

StayHigh == valid_i /\ UNCHANGED inputs

Fall == /\ valid_i /\ valid_i' = FALSE /\ low' = 1 /\ UNCHANGED <<opA_i, opB_i>>

Next == /\ Rise \/ StayLow \/ StayHigh \/ Fall
        /\ Div!DivClock /\ Mul!MulClock /\ Sqrt!SqrtClock /\ Sub!SubClock

Spec == Init /\ [][Next]_fuvars
-----------------------------------------------------------------------------
A == Div!Magnitude(opA_i)
B == Div!Magnitude(opB_i)
signs == (Div!Sign(opA_i) + Div!Sign(opB_i)) % 2

\* The quotient that is ready is that of the magnitudes, cut off at N - 1
\* bits and with its last bit cleared, with the sign of the product
\* (fixed_div.v:66-105).
QuotientRight ==
  div_done_r /\ B # 0
  => /\ quotient_r % 2^(N-1) = (2 * (((A * 2^Q) \div B) \div 2)) % 2^(N-1)
     /\ sign_r = signs

\* The product that is ready is that of the magnitudes, with Q bits cut
\* off below and the rest at N - 1 bits (new_fixed_mul.v:49-55,77-109).
ProductRight ==
  mul_ready_r => Mul!mul_result_o = [sign |-> signs, magnitude |-> ((A * B) \div 2^Q) % 2^(N-1)]

\* The root that is ready is the largest number whose square does not
\* exceed the operand, both with Q fraction bits (fixed_sqrt.v:56-99).
RootRight ==
  sqrt_done_r => /\ Sqrt!sqrt_result_o * Sqrt!sqrt_result_o <= opA_i * 2^Q
                 /\ (Sqrt!sqrt_result_o + 1) * (Sqrt!sqrt_result_o + 1) > opA_i * 2^Q

\* The difference of two operands without sign is exact if it is not
\* negative, and otherwise one unit of the last place too large
\* (fixed_sub.v:39-58).
DifferenceRight ==
  LET result == Sub!sub_result_o
      value == IF result.sign = 1 THEN -result.magnitude ELSE result.magnitude
  IN  sub_ready_r /\ Div!Sign(opA_i) = 0 /\ Div!Sign(opB_i) = 0
      => value = A - B + IF A < B THEN 1 ELSE 0

\* Safety: whenever a unit reports a result it is the right one, whatever computation was
\* broken off before, at whatever cycle: the quotient but for its last bit, the product, the
\* root, and the difference but for the last bit of a negative one
\* (fixed_div.v:54-106, new_fixed_mul.v:46-109, fixed_sqrt.v:52-104, fixed_sub.v:40-59).
ResultsRight == QuotientRight /\ ProductRight /\ RootRight /\ DifferenceRight

\* The operands as the handshake sees them, and the units' states in its terms.
operands == opA_i * 2^N + opB_i
UnitOf(on, left) == IF on THEN [left |-> left, op |-> operands] ELSE Off

divUnit  == UnitOf(div_compute_r \/ div_done_r, IF div_done_r THEN 0 ELSE cnt_r + 1)
mulUnit  == UnitOf(busy_r \/ mul_ready_r, IF mul_ready_r THEN 0 ELSE mult_it_r + 1)
sqrtUnit == UnitOf(sqrt_compute_r \/ sqrt_done_r, IF sqrt_done_r THEN 0 ELSE Sqrt!ITER - iterator_r)
subUnit  == UnitOf(sub_ready_r, 0)

Keeps(unit, unit_next, latency) ==
  unit_next = Step(unit, IF valid_i THEN operands ELSE NoOperand, latency)

\* Implementation: each unit is a HandshakeUnit with a latency of its own: ready
\* comes after the same number of cycles for every operand, however the result
\* before was broken off, and falls with valid (fixed_div.v:66-105,
\* new_fixed_mul.v:60-75, fixed_sqrt.v:67-99, fixed_sub.v:43-58).
UnitsKeepHandshake ==
  [][/\ Keeps(divUnit, divUnit', N + Q)
     /\ Keeps(mulUnit, mulUnit', N)
     /\ Keeps(sqrtUnit, sqrtUnit', Sqrt!ITER)
     /\ Keeps(subUnit, subUnit', 0)]_fuvars
=============================================================================
