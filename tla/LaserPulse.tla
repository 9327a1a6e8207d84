----------------------------- MODULE LaserPulse -----------------------------
(***************************************************************************)
(* The laser driver on its own, with the pulses it produces.  The trigger  *)
(* and the flag of the pixel are free in every cycle, more than the line   *)
(* FSM can do: what holds here holds for any caller.                       *)
(*   width   cycles for which the laser has been on without a break        *)
(***************************************************************************)
EXTENDS LaserDriver

VARIABLE width

lpvars == <<trigger_i, active_pixel_i, ldRegs, width>>

PulseInit == /\ trigger_i \in BOOLEAN /\ active_pixel_i \in BOOLEAN
             /\ LDInit
             /\ width = 0

PulseNext == /\ LDClock
             /\ trigger_i' \in BOOLEAN /\ active_pixel_i' \in BOOLEAN
             /\ width' = IF trigger_laser_r' THEN width + 1 ELSE 0

PulseSpec == PulseInit /\ [][PulseNext]_lpvars
-----------------------------------------------------------------------------
\* Type invariant.
PulseTypeOK ==
  /\ trigger_i \in BOOLEAN /\ active_pixel_i \in BOOLEAN
  /\ ld_state_r \in {"LASER_IDLE", "LASER_TRIGGER"}
  /\ pulse_cnt_r \in 0 .. PulseMod - 1
  /\ pulse_over_r \in BOOLEAN /\ trigger_laser_r \in BOOLEAN
  /\ width \in Nat

\* Safety: whatever the triggers do, the laser is never on for more than
\* pulse_length_i + 2 cycles in a row; two pulses never merge into a longer one
\* (laserDriver.v:45-85).
ExposureBound == width <= PulseLength + 2

\* Action property: when the laser goes off, the pulse had its whole length or
\* was a one-cycle pulse (laserDriver.v:45-85; the second case is a trigger in
\* the first idle cycle, when pulse_over_r is still up from the last pulse).
PulseWidths ==
  [][trigger_laser_r /\ ~trigger_laser_r' => width \in {1, PulseLength + 2}]_lpvars
=============================================================================
