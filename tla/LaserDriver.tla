---------------------------- MODULE LaserDriver ----------------------------
(***************************************************************************)
(* hw/IPs/laserDriver.v: a one-cycle trigger for an active pixel turns the *)
(* laser on for a number of cycles derived from pulse_length_i.  The state *)
(* machine, the pulse counter and the output are registers that follow     *)
(* each other with a delay of one cycle each.  Reset is LDInit.            *)
(***************************************************************************)
EXTENDS Naturals

CONSTANTS
  PulseLength,   \* port pulse_length_i
  PulseMod       \* 2^width of cnt_r and of the port (32)

ASSUME PulseAssumption == PulseMod \in Nat /\ PulseLength \in 0 .. PulseMod - 1

VARIABLES
  trigger_i, active_pixel_i,
  ld_state_r,         \* cur_state_r
  pulse_cnt_r,        \* cnt_r
  pulse_over_r, trigger_laser_r

ldRegs == <<ld_state_r, pulse_cnt_r, pulse_over_r, trigger_laser_r>>

trigger_w == trigger_i /\ active_pixel_i

LDInit == /\ ld_state_r = "LASER_IDLE"
          /\ pulse_cnt_r = 0
          /\ pulse_over_r = FALSE
          /\ trigger_laser_r = FALSE

\* Mutant: the pulse ends as soon as the trigger falls.
LaserStateLevel ==
  \/ ld_state_r = "LASER_IDLE" /\ ~trigger_w /\ UNCHANGED ld_state_r
  \/ ld_state_r = "LASER_IDLE" /\ trigger_w /\ ld_state_r' = "LASER_TRIGGER"
  \/ ld_state_r = "LASER_TRIGGER" /\ ~pulse_over_r /\ trigger_w /\ UNCHANGED ld_state_r
  \/ ld_state_r = "LASER_TRIGGER" /\ (pulse_over_r \/ ~trigger_w) /\ ld_state_r' = "LASER_IDLE"

LaserState ==
  \/ ld_state_r = "LASER_IDLE" /\ ~trigger_w /\ UNCHANGED ld_state_r
  \/ ld_state_r = "LASER_IDLE" /\ trigger_w /\ ld_state_r' = "LASER_TRIGGER"
  \/ ld_state_r = "LASER_TRIGGER" /\ ~pulse_over_r /\ UNCHANGED ld_state_r
  \/ ld_state_r = "LASER_TRIGGER" /\ pulse_over_r /\ ld_state_r' = "LASER_IDLE"

PulseOutput ==
  \/ /\ ld_state_r = "LASER_TRIGGER"
     /\ pulse_cnt_r' = (pulse_cnt_r + 1) % PulseMod
     /\ trigger_laser_r' = TRUE
  \/ /\ ld_state_r = "LASER_IDLE"
     /\ pulse_cnt_r' = 0
     /\ trigger_laser_r' = FALSE

\* Mutant: the pulse ends one cycle late.
PulseOverLate == pulse_over_r' = (pulse_cnt_r > PulseLength)

\* Not gated by the state: the flag stays up in the first idle cycles.
PulseOver == \/ pulse_cnt_r >= PulseLength /\ pulse_over_r' = TRUE
             \/ pulse_cnt_r < PulseLength /\ pulse_over_r' = FALSE

LDClock == LaserState /\ PulseOutput /\ PulseOver
=============================================================================
