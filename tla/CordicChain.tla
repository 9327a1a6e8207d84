---------------------------- MODULE CordicChain ----------------------------
(***************************************************************************)
(* cordicManager.v and the arithmetic units behind it, seen from their     *)
(* handshake (HandshakeUnit; FixedUnits checks that the units keep it).    *)
(* Units in a row act like one, so the chain is: the units before arcTan   *)
(* (thetaCos, thetaSin), the shift register of arcTan, which delays a fall *)
(* as well as a rise, and the units behind it.  The data is the iteration  *)
(* theta whose fire time is being computed; the result is TickOf of it.    *)
(***************************************************************************)
EXTENDS HandshakeUnit, Sequences

CONSTANTS
  FrontLatency,   \* cycles of the units before arcTan
  DrainDelay,     \* stages of arcTan's shift register (19)
  BackLatency     \* cycles of the units behind it

ASSUME LatencyAssumption == /\ FrontLatency \in Nat \ {0} /\ BackLatency \in Nat \ {0}
                            /\ DrainDelay \in Nat \ {0}

VARIABLES
  front_unit, back_unit,   \* [left, op]: cycles until ready, and the operand latched
  delay_line,              \* per stage of arcTan: the operand, or NoOperand
  dtTick_states_r, new_dtTick_r, next_dtTick_r

chainRegs == <<front_unit, back_unit, delay_line, dtTick_states_r, new_dtTick_r, next_dtTick_r>>

ChainInit == /\ front_unit = Off /\ back_unit = Off
             /\ delay_line = [i \in 1 .. DrainDelay |-> NoOperand]
             /\ dtTick_states_r = <<FALSE, FALSE>>
             /\ new_dtTick_r = FALSE /\ next_dtTick_r = FALSE

dtTicks_valid_w == Ready(back_unit)

\* Mutant: the pulse for the next point is given with the pulse for the new one.
EdgePulsesEarly == /\ new_dtTick_r' = (dtTick_states_r[1] /\ ~dtTick_states_r[2])
                   /\ next_dtTick_r' = (dtTick_states_r[1] /\ ~dtTick_states_r[2])

\* A pulse for each edge of the valid level at the end of the chain.
EdgePulses == /\ new_dtTick_r' = (dtTick_states_r[1] /\ ~dtTick_states_r[2])
              /\ next_dtTick_r' = (~dtTick_states_r[1] /\ dtTick_states_r[2])

ChainClock(theta_valid, theta) ==
  /\ front_unit' = Step(front_unit, IF theta_valid THEN theta ELSE NoOperand, FrontLatency)
  /\ delay_line' = <<ResultOf(front_unit)>> \o SubSeq(delay_line, 1, DrainDelay - 1)
  /\ back_unit' = Step(back_unit, delay_line[DrainDelay], BackLatency)
  /\ dtTick_states_r' = <<dtTicks_valid_w, dtTick_states_r[1]>>
  /\ EdgePulses

\* No result is under way.
Drained == /\ front_unit = Off /\ back_unit = Off
           /\ \A i \in 1 .. DrainDelay : delay_line[i] = NoOperand
           /\ dtTick_states_r = <<FALSE, FALSE>> /\ ~next_dtTick_r
=============================================================================
