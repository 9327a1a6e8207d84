----------------------------- MODULE FixedSqrt -----------------------------
(***************************************************************************)
(* hw/IPs/fixed_sqrt.v: one bit of the root in a cycle, two bits of the    *)
(* radicand moving into the accumulator.                                   *)
(***************************************************************************)
EXTENDS Integers

CONSTANTS N, Q

VARIABLES
  valid_i, opA_i,
  compute_r, done_r, iterator_r, auxRoot_r, acc_r, radCpy_r

sqrtRegs == <<compute_r, done_r, iterator_r, auxRoot_r, acc_r, radCpy_r>>

ITER == (N + Q) \div 2

checkSign_r == (acc_r - (4 * auxRoot_r + 1)) % 2^(N+2)
fits == checkSign_r < 2^(N+1)

acc_next_r == ((IF fits THEN checkSign_r ELSE acc_r) % 2^N) * 4 + radCpy_r \div 2^(N-2)
radCpy_next_r == (4 * radCpy_r) % 2^N
auxRoot_next_r == (2 * auxRoot_r + IF fits THEN 1 ELSE 0) % 2^N
sqrt_result_o == auxRoot_next_r

SqrtInit == /\ compute_r = FALSE /\ done_r = FALSE /\ iterator_r = 0
            /\ auxRoot_r = 0 /\ acc_r = 0 /\ radCpy_r = 0

SqrtStart == /\ valid_i /\ ~compute_r
             /\ compute_r' = TRUE /\ done_r' = FALSE
             /\ iterator_r' = 0 /\ auxRoot_r' = 0
             /\ acc_r' = opA_i \div 2^(N-2) /\ radCpy_r' = (4 * opA_i) % 2^N

SqrtLoop == /\ valid_i /\ compute_r /\ ~done_r /\ iterator_r < ITER - 1
            /\ iterator_r' = iterator_r + 1
            /\ radCpy_r' = radCpy_next_r /\ acc_r' = acc_next_r /\ auxRoot_r' = auxRoot_next_r
            /\ UNCHANGED <<compute_r, done_r>>

\* The last bit is not stored: result_o is the next value of the root.
SqrtDone == /\ valid_i /\ compute_r /\ ~done_r /\ iterator_r >= ITER - 1
            /\ done_r' = TRUE
            /\ UNCHANGED <<compute_r, iterator_r, auxRoot_r, acc_r, radCpy_r>>

SqrtHold == valid_i /\ compute_r /\ done_r /\ UNCHANGED sqrtRegs

SqrtOff == /\ ~valid_i
           /\ compute_r' = FALSE /\ done_r' = FALSE
           /\ UNCHANGED <<iterator_r, auxRoot_r, acc_r, radCpy_r>>

SqrtClock == SqrtStart \/ SqrtLoop \/ SqrtDone \/ SqrtHold \/ SqrtOff
=============================================================================
