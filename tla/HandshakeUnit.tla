--------------------------- MODULE HandshakeUnit ---------------------------
(***************************************************************************)
(* What every arithmetic unit promises (fixed_div, new_fixed_mul,          *)
(* fixed_sqrt, fixed_sub): it takes its operand when valid rises, raises   *)
(* ready a fixed number of cycles later, holds it while valid stays up and *)
(* drops it at once when valid falls.  Its state is the number of cycles   *)
(* left until ready and the operand it works on.                           *)
(***************************************************************************)
EXTENDS Integers

NoOperand == -1   \* valid is low
Off == [left |-> 0, op |-> NoOperand]

Ready(unit) == unit.op # NoOperand /\ unit.left = 0
ResultOf(unit) == IF Ready(unit) THEN unit.op ELSE NoOperand

\* One clock edge of a unit.
Step(unit, operand, latency) ==
  IF operand = NoOperand THEN Off
  ELSE IF unit = Off THEN [left |-> latency, op |-> operand]
  ELSE IF unit.left > 0 THEN [unit EXCEPT !.left = @ - 1]
  ELSE unit
=============================================================================
