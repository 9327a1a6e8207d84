------------------------------ MODULE FixedMul ------------------------------
(***************************************************************************)
(* hw/IPs/new_fixed_mul.v: one bit of a multiplier in a cycle, the product *)
(* moving right under the sums.  The sums are those of a signed product,   *)
(* with constants that result_o takes out again.                           *)
(***************************************************************************)
EXTENDS Integers

CONSTANTS N, Q

VARIABLES
  valid_i, opA_i, opB_i,
  busy_r, ready_r, mult_it_r, opA_r, opB_r, result_r

mulRegs == <<busy_r, ready_r, mult_it_r, opA_r, opB_r, result_r>>

Magnitude(op) == op % 2^(N-1)
Sign(op) == op \div 2^(N-1)

last_step_w == mult_it_r = 0
soft_mult_w == IF opB_r % 2 = 1 THEN opA_r ELSE 0

pre_result_w == (result_r + 2^(2 * N - 1) + 2^N) % 2^(2 * N)
mul_result_o == [sign |-> (Sign(opA_i) + Sign(opB_i)) % 2,
                 magnitude |-> (pre_result_w \div 2^Q) % 2^(N-1)]

MulInit == /\ busy_r = FALSE /\ ready_r = FALSE /\ mult_it_r = N - 1
           /\ opA_r = 0 /\ opB_r = 0 /\ result_r = 0

\* Mutant: ready outlives valid.
MulHandshakeHeld == busy_r' = valid_i /\ ready_r' = (last_step_w /\ busy_r)

MulHandshake == busy_r' = valid_i /\ ready_r' = (valid_i /\ last_step_w)

\* The sum for one bit: the top bit of the partial product inverted, or in the last
\* step all the others.
Partial == IF ~last_step_w
           THEN (1 - Sign(soft_mult_w)) * 2^(N-1) + Magnitude(soft_mult_w)
           ELSE Sign(soft_mult_w) * 2^(N-1) + 2^(N-1) - 1 - Magnitude(soft_mult_w)

\* While valid is low the operands are taken, so that the first cycle of valid has them.
MulTake == /\ ~busy_r
           /\ mult_it_r' = N - 1 /\ result_r' = 0
           /\ opA_r' = Magnitude(opA_i) /\ opB_r' = Magnitude(opB_i)

MulLoop == /\ busy_r /\ ~ready_r
           /\ opB_r' = opB_r \div 2
           /\ result_r' = ((result_r \div 2^N + Partial) * 2^(N-1)
                           + (result_r % 2^N) \div 2) % 2^(2 * N)
           /\ mult_it_r' = IF last_step_w THEN mult_it_r ELSE mult_it_r - 1
           /\ UNCHANGED opA_r

MulHold == busy_r /\ ready_r /\ UNCHANGED <<mult_it_r, opA_r, opB_r, result_r>>

MulClock == MulHandshake /\ (MulTake \/ MulLoop \/ MulHold)
=============================================================================
