------------------------------ MODULE FixedSub ------------------------------
(***************************************************************************)
(* hw/IPs/fixed_sub.v: a difference in one cycle, turned from two's        *)
(* complement to sign and magnitude at the output.                         *)
(***************************************************************************)
EXTENDS Integers

CONSTANT N

VARIABLES valid_i, opA_i, opB_i, result_r, ready_r

subRegs == <<result_r, ready_r>>

SubInit == result_r = 0 /\ ready_r = FALSE

SubClock == /\ ready_r' = valid_i
            /\ result_r' = IF valid_i THEN (opA_i - opB_i) % 2^N ELSE result_r

\* The ones' complement is taken for a magnitude: a negative result is one unit
\* of the last place too large.
sub_result_o ==
  LET low == result_r % 2^(N-1)
  IN  IF result_r >= 2^(N-1) THEN [sign |-> 1, magnitude |-> 2^(N-1) - 1 - low]
      ELSE [sign |-> 0, magnitude |-> low]
=============================================================================
